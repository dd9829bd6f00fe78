---------------------------- MODULE OrderRecovery ----------------------------
(***************************************************************************)
(* The order manager under the fairness its scheduling gives it.  Every    *)
(* trading cycle ends with a reconciliation step that runs recover()       *)
(* (trading/scheduler/cycle.py, _reconciliation), a process that is not    *)
(* killed finishes the operation it started, a request is handled or lost, *)
(* and a DAY order ends with the session.  From the moment `steady' is     *)
(* set, processes no longer die and the broker can be read; before it,     *)
(* anything may have happened.  The transmit guard stays open: it has no   *)
(* part in recovery.                                                       *)
(***************************************************************************)
EXTENDS OrderImplementation

VARIABLE steady

SteadyInit == Init /\ steady = FALSE

Calm == steady' = TRUE /\ UNCHANGED vars

SteadyNext ==
    \/ \E p \in Procs  : (Start(p) \/ Work(p) \/ TimeOut(p)) /\ UNCHANGED steady
    \/ \E p \in Procs  : ~steady /\ Mishap(p) /\ UNCHANGED steady
    \/ \E o \in Orders : (Network(o) \/ Market(o)) /\ UNCHANGED steady
    \/ Calm

Fairness ==
    /\ \A p \in Procs  : WF_<<vars, steady>>((Work(p) \/ TimeOut(p)) /\ UNCHANGED steady)
    /\ \A p \in Procs  : SF_<<vars, steady>>(BeginRecover(p) /\ UNCHANGED steady)
    /\ \A o \in Orders : WF_<<vars, steady>>(Network(o) /\ UNCHANGED steady)
    /\ \A o \in Orders : WF_<<vars, steady>>(Expire(o) /\ UNCHANGED steady)

FairSpec == SteadyInit /\ [][SteadyNext]_<<vars, steady>> /\ Fairness

\* Once processes stay up and the broker answers, every intent reaches a
\* terminal state: nothing a crash or a timeout left behind stays open, so the
\* planner is not refused forever with UNCERTAIN_OPEN_ORDERS.
EveryIntentIsResolved ==
    \A o \in Orders :
        (steady /\ intent[o] # "none") ~> (intent[o] \in TerminalStates)
==============================================================================
