------------------------ MODULE TradingCycleLiveness ------------------------
(***************************************************************************)
(* The trading cycle under the fairness of its loop.  Scheduler.run()      *)
(* calls tick() at least every five minutes while it is up, and the        *)
(* platform restarts a process that died: from the moment `steady' is set  *)
(* there are no more crashes, and the session that is looked at goes on.   *)
(* Before it anything may have happened, in any session.                   *)
(***************************************************************************)
EXTENDS MCTradingCycle

VARIABLE steady

\* The default configuration: risk-reducing orders are exempt from the switch.
SteadyInit == Init /\ reducing = TRUE /\ steady = FALSE

Calm == steady' = TRUE /\ UNCHANGED vars

SteadyNext ==
    \/ (Scheduler \/ SendOrder) /\ UNCHANGED steady
    \/ ~steady /\ Crash /\ UNCHANGED steady
    \/ Outside /\ (steady => minute' >= minute) /\ UNCHANGED steady
    \/ Calm

FairSpec ==
    /\ SteadyInit /\ [][SteadyNext]_<<vars, steady>>
    /\ WF_<<vars, steady>>(Scheduler /\ UNCHANGED steady)

\* Every step of the session that is due gets an outcome, whatever happened to
\* the process, the data and the broker before: no step waits on another.
DueStepsAreRecorded ==
    \A s \in Steps :
        (steady /\ minute >= Due[s] /\ cycle \in {"none", "running"}) ~> (status[s] # "none")
==============================================================================
