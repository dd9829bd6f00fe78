------------------------- MODULE OrderManagerProofs -------------------------
(***************************************************************************)
(* Theorems about OrderManager for every set of orders and processes and   *)
(* every quantity: its safety; what a closed guard still lets out, for any *)
(* finite number of processes; and, for one process whose requests are     *)
(* over before it recovers, what a closed intent leaves behind and that    *)
(* the manager implements the order ledger.                                *)
(***************************************************************************)
EXTENDS OrderImplementation, FiniteSetTheorems, TLAPS

\* Where a process can be with no order in hand.
AtRest == {"idle", "next"}

\* Where a process holds an answer it is about to adopt.
Adopting == {"totals", "insert", "update"}

\* A process that works on an order has one, its intent exists, and what it
\* adopts is something the broker reported.
ControlOK ==
    \A p \in Procs :
        /\ pc[p] \notin AtRest => cur[p] \in Orders
        /\ pc[p] \notin AtRest \cup {"create"} => intent[cur[p]] # "none"
        /\ pc[p] \in Adopting => snap[p] \in Snapshot
        /\ pc[p] = "insert" => snap[p].filled > 0
        /\ op[p] # "execute" => \A w \in todo[p] : intent[w[1]] # "none"

\* An order the broker still works has something left to fill.
BrokerOK == \A o \in Orders : Open(o) => bfilled[o] < Qty

TypeInv == TypeOK /\ ControlOK /\ BrokerOK

USE DEF db, broker, proc, history

LEMMA TransitionTypes ==
    ASSUME NEW s \in OrderState, NEW t, CanTransition(s, t)
    PROVE  t \in OrderState
BY DEF CanTransition, OrderState, Transitions, BrokerOutcomes

LEMMA TypeInit == Init => TypeInv
<1> SUFFICES ASSUME Init PROVE TypeInv
  OBVIOUS
<1> USE QtyAssumption DEF Init
<1>1. PICK b \in [Orders -> Snapshot \cup {NoSnapshot}] :
        /\ \A o \in Orders \ Prior : b[o] = NoSnapshot
        /\ \A o \in Prior :
             /\ b[o].state \in {"none", "acknowledged", "filled", "cancelled"}
             /\ b[o].filled = IF b[o].state = "filled" THEN Qty ELSE 0
        /\ bstate  = [o \in Orders |-> b[o].state]
        /\ bfilled = [o \in Orders |-> b[o].filled]
  OBVIOUS
<1>2. TypeOK
  BY <1>1 DEF TypeOK, Snapshot, NoSnapshot, Answer, Labels, OrderState
<1>3. ControlOK
  BY DEF ControlOK, AtRest, Adopting
<1>4. BrokerOK
  BY <1>1, PriorAssumption DEF BrokerOK, Open, Snapshot, NoSnapshot
<1> QED
  BY <1>2, <1>3, <1>4 DEF TypeInv

\* What a step of one process has to keep: the types of the process variables
\* and the control invariant.
ProcTypes ==
    /\ pc    \in [Procs -> Labels]
    /\ op    \in [Procs -> {"none", "execute", "sync", "recover"}]
    /\ todo  \in [Procs -> SUBSET (Orders \X (OrderState \cup {"none"}))]
    /\ cur   \in [Procs -> Orders \cup {NoOrder}]
    /\ known \in [Procs -> OrderState \cup {"none"}]
    /\ snap  \in [Procs -> Answer]
    /\ fresh \in [Procs -> 0..Qty]

\* An intent, once it exists, stays.
IntentsStay ==
    /\ intent' \in [Orders -> OrderState \cup {"none"}]
    /\ \A o \in Orders : intent[o] # "none" => intent'[o] # "none"

LEMMA LeaveControl ==
    ASSUME TypeInv, NEW p \in Procs, Leave(p), IntentsStay
    PROVE  ProcTypes' /\ ControlOK'
<1> USE DEF TypeInv, TypeOK, Leave, Goto
<1>1. ProcTypes'
  BY QtyAssumption DEF ProcTypes, Labels, Answer, NoSnapshot
<1>2. ControlOK'
  BY DEF ControlOK, IntentsStay, AtRest, Adopting
<1> QED
  BY <1>1, <1>2

LEMMA ContinueControl ==
    ASSUME TypeInv, NEW p \in Procs, Continue(p), IntentsStay
    PROVE  ProcTypes' /\ ControlOK'
<1> USE DEF TypeInv, TypeOK, Continue, Goto
<1>1. ProcTypes'
  BY QtyAssumption DEF ProcTypes, Labels, Answer, NoSnapshot
<1>2. ControlOK'
  BY DEF ControlOK, IntentsStay, AtRest, Adopting
<1> QED
  BY <1>1, <1>2

LEMMA GotoControl ==
    ASSUME TypeInv, NEW p \in Procs, NEW label \in Labels, Goto(p, label), IntentsStay,
           cur[p] \in Orders, intent'[cur[p]] # "none",
           label \in Adopting => snap[p] \in Snapshot,
           label = "insert" => snap[p].filled > 0,
           UNCHANGED <<op, todo, cur, known, snap, fresh>>
    PROVE  ProcTypes' /\ ControlOK'
<1> USE DEF TypeInv, TypeOK, Goto
<1>1. ProcTypes'
  BY DEF ProcTypes
<1>2. ControlOK'
  BY DEF ControlOK, IntentsStay, AtRest, Adopting
<1> QED
  BY <1>1, <1>2

LEMMA TransitionControl ==
    ASSUME TypeInv, NEW p \in Procs, NEW label \in Labels \ (AtRest \cup {"create"}),
           NEW target \in OrderState, NEW then \in Labels \ Adopting,
           Transition(p, label, target, then)
    PROVE  TypeInv'
<1> USE DEF Transition
<1>1. cur[p] \in Orders /\ intent[cur[p]] # "none"
  BY DEF TypeInv, ControlOK
<1>2. IntentsStay
  BY <1>1 DEF IntentsStay, TypeInv, TypeOK, OrderState
<1>3. ProcTypes' /\ ControlOK'
  <2>1. CASE Leave(p)
    BY <2>1, <1>2, LeaveControl
  <2>2. CASE Continue(p)
    BY <2>2, <1>2, ContinueControl
  <2>3. CASE Goto(p, then) /\ UNCHANGED <<op, todo, cur, known, snap, fresh>>
    BY <2>3, <1>1, <1>2, GotoControl DEF IntentsStay, Adopting
  <2> QED
    BY <2>1, <2>2, <2>3 DEF Proceed
<1>4. TypeOK'
  BY <1>2, <1>3 DEF TypeInv, TypeOK, ProcTypes, IntentsStay
<1>5. BrokerOK'
  BY DEF TypeInv, BrokerOK, Open
<1> QED
  BY <1>3, <1>4, <1>5 DEF TypeInv

\* What sync or recovery writes is a state of the lifecycle, although "none"
\* is what a process knows of an intent it has not read.
LEMMA AdoptedStateType ==
    ASSUME TypeInv, NEW p \in Procs, AdoptState(p)
    PROVE  AdoptedState(p) \in OrderState
<1>1. snap[p] \in Snapshot /\ known[p] \in OrderState \cup {"none"}
  BY DEF AdoptState, Transition, TypeInv, TypeOK, ControlOK, Adopting
<1>2. AdoptedState(p) \in OrderState \/ AdoptedState(p) = known[p]
  BY <1>1 DEF AdoptedState, Snapshot, BrokerState, BrokerOutcomes, OrderState
<1> QED
  BY <1>1, <1>2 DEF AdoptState, NeedsUpdate, OrderState

LEMMA TypeStep == TypeInv /\ [Next]_vars => TypeInv'
<1> SUFFICES ASSUME TypeInv, [Next]_vars PROVE TypeInv'
  OBVIOUS
<1> USE QtyAssumption, NoOrderAssumption
    DEF TypeInv, TypeOK, ControlOK, BrokerOK, AtRest, Adopting, Labels
<1>1. ASSUME NEW p \in Procs, BeginExecute(p) PROVE TypeInv'
  BY <1>1 DEF BeginExecute, Begin, Goto, Open
<1>2. ASSUME NEW p \in Procs, BeginSync(p) PROVE TypeInv'
  BY <1>2 DEF BeginSync, Begin, Goto, Listed, Open, Working, OrderState
<1>3. ASSUME NEW p \in Procs, BeginRecover(p) PROVE TypeInv'
  BY <1>3 DEF BeginRecover, Begin, Goto, Listed, Open, Working, NotTransmitted, OrderState
<1>4. ASSUME NEW p \in Procs, PickOrder(p) PROVE TypeInv'
  BY <1>4 DEF PickOrder, Goto, Open
<1>5. ASSUME NEW p \in Procs, Return(p) PROVE TypeInv'
  BY <1>5 DEF Return, Leave, Goto, Open, NoSnapshot, Answer
<1>6. ASSUME NEW p \in Procs, Abandon(p) PROVE TypeInv'
  BY <1>6 DEF Abandon, Leave, Goto, Open, NoSnapshot, Answer
<1>7. ASSUME NEW p \in Procs, LookupFails(p) PROVE TypeInv'
  BY <1>7 DEF LookupFails, Continue, Goto, Open, NoSnapshot, Answer
<1>8. ASSUME NEW p \in Procs, CreateIntent(p) PROVE TypeInv'
  <2>1. cur[p] \in Orders
    BY <1>8 DEF CreateIntent
  <2>2. IntentsStay
    BY <1>8, <2>1 DEF CreateIntent, IntentsStay, OrderState
  <2>3. ProcTypes' /\ ControlOK'
    <3>1. CASE Leave(p)
      BY <3>1, <2>2, LeaveControl
    <3>2. CASE intent' = [intent EXCEPT ![cur[p]] = "created"] /\ Proceed(p, "validate")
      BY <3>2, <2>1, <2>2, GotoControl DEF Proceed
    <3> QED
      BY <1>8, <3>1, <3>2 DEF CreateIntent
  <2>4. TypeOK'
    BY <1>8, <2>2, <2>3 DEF CreateIntent, ProcTypes, IntentsStay
  <2>5. BrokerOK'
    BY <1>8 DEF CreateIntent, Open
  <2> QED
    BY <2>3, <2>4, <2>5
<1>9. ASSUME NEW p \in Procs, Validate(p) PROVE TypeInv'
  BY <1>9, TransitionControl DEF Validate, OrderState
<1>10. ASSUME NEW p \in Procs, MarkSubmitted(p) PROVE TypeInv'
  BY <1>10, TransitionControl DEF MarkSubmitted, OrderState
<1>11. ASSUME NEW p \in Procs, MarkUnknown(p) PROVE TypeInv'
  BY <1>11, TransitionControl DEF MarkUnknown, OrderState
<1>12. ASSUME NEW p \in Procs, MarkMissing(p) PROVE TypeInv'
  BY <1>12, TransitionControl DEF MarkMissing, OrderState
<1>13. ASSUME NEW p \in Procs, MarkCancelled(p) PROVE TypeInv'
  BY <1>13, TransitionControl DEF MarkCancelled, OrderState
<1>14. ASSUME NEW p \in Procs, MarkRejected(p) PROVE TypeInv'
  BY <1>14, TransitionControl DEF MarkRejected, OrderState
<1>15. ASSUME NEW p \in Procs, Transmit(p) PROVE TypeInv'
  <2>1. cur[p] \in Orders /\ intent[cur[p]] # "none" /\ IntentsStay
    BY <1>15 DEF Transmit, IntentsStay
  <2>2. ProcTypes' /\ ControlOK'
    BY <1>15, <2>1, GotoControl DEF Transmit, Proceed
  <2>3. sent' \in [Orders -> Nat] /\ late' \in Nat /\ wire' \subseteq Orders
    BY <1>15, <2>1 DEF Transmit
  <2> QED
    BY <1>15, <2>2, <2>3 DEF Transmit, ProcTypes, Open
<1>16. ASSUME NEW p \in Procs, TakeAnswer(p) PROVE TypeInv'
  <2>1. cur[p] \in Orders /\ intent[cur[p]] # "none" /\ IntentsStay
    BY <1>16 DEF TakeAnswer, IntentsStay
  <2>2. ProcTypes' /\ ControlOK'
    <3>1. CASE snap[p] \in Snapshot /\ Goto(p, "totals")
               /\ known' = [known EXCEPT ![p] = "submitted"]
               /\ UNCHANGED <<op, todo, cur, snap, fresh>>
      BY <1>16, <3>1, <2>1 DEF TakeAnswer, Goto, ProcTypes, OrderState
    <3>2. CASE Proceed(p, "reread")
      BY <1>16, <3>2, <2>1, GotoControl DEF Proceed, TakeAnswer
    <3>3. CASE Proceed(p, "reject")
      BY <1>16, <3>3, <2>1, GotoControl DEF Proceed, TakeAnswer
    <3> QED
      BY <1>16, <3>1, <3>2, <3>3 DEF TakeAnswer
  <2> QED
    BY <1>16, <2>2 DEF TakeAnswer, ProcTypes, Open
<1>17. ASSUME NEW p \in Procs, TimeOut(p) PROVE TypeInv'
  BY <1>17 DEF TimeOut, Goto, Open, NoSnapshot, Answer
<1>18. ASSUME NEW p \in Procs, Reread(p) PROVE TypeInv'
  BY <1>18 DEF Reread, Goto, Open
<1>19. ASSUME NEW p \in Procs, LookupFinds(p) PROVE TypeInv'
  BY <1>19 DEF LookupFinds, Goto, Open, Snapshot, Answer
<1>20. ASSUME NEW p \in Procs, LookupMisses(p) PROVE TypeInv'
  <2> DEFINE then == CASE op[p] # "recover" -> "next"
                       [] op[p] = "recover" /\ known[p] = "created" -> "reject"
                       [] op[p] = "recover" /\ known[p] \in {"validated", "unknown"} -> "cancel"
                       [] OTHER -> "missing"
  <2>1. then \in {"next", "reject", "cancel", "missing"} /\ Proceed(p, then)
    BY <1>20 DEF LookupMisses
  <2>2. cur[p] \in Orders /\ intent[cur[p]] # "none" /\ IntentsStay
    BY <1>20 DEF LookupMisses, IntentsStay
  <2> HIDE DEF then
  <2>3. ProcTypes' /\ ControlOK'
    <3>1. CASE Continue(p)
      BY <3>1, <2>2, ContinueControl
    <3>2. CASE Goto(p, then) /\ UNCHANGED <<op, todo, cur, known, snap, fresh>>
      BY <3>2, <2>1, <2>2, <1>20, GotoControl DEF LookupMisses
    <3> QED
      BY <2>1, <3>1, <3>2 DEF Proceed
  <2> QED
    BY <1>20, <2>3 DEF LookupMisses, ProcTypes, Open
<1>21. ASSUME NEW p \in Procs, ReadTotals(p) PROVE TypeInv'
  BY <1>21 DEF ReadTotals, Goto, Open, Snapshot, Answer
<1>22. ASSUME NEW p \in Procs, InsertExecution(p) PROVE TypeInv'
  <2>1. cur[p] \in Orders /\ intent[cur[p]] # "none" /\ snap[p] \in Snapshot
        /\ snap[p].filled \in 1..Qty /\ IntentsStay
    BY <1>22 DEF InsertExecution, IntentsStay, Snapshot
  <2>2. ProcTypes' /\ ControlOK'
    BY <1>22, <2>1, GotoControl DEF InsertExecution, Proceed
  <2>3. recorded' \in [Orders -> Nat] /\ execs' \in [Orders -> SUBSET (1..Qty)]
    BY <1>22, <2>1 DEF InsertExecution
  <2> QED
    BY <1>22, <2>2, <2>3 DEF InsertExecution, ProcTypes, Open
<1>23. ASSUME NEW p \in Procs, AdoptState(p) PROVE TypeInv'
  BY <1>23, AdoptedStateType, TransitionControl DEF AdoptState
<1>24. ASSUME NEW p \in Procs, KeepState(p) PROVE TypeInv'
  BY <1>24 DEF KeepState, Continue, Goto, Open, NoSnapshot, Answer
<1>25. ASSUME NEW o \in Orders, Accept(o) PROVE TypeInv'
  BY <1>25 DEF Accept, Accepted, Handle, Snapshot, Answer, BrokerState, BrokerOutcomes, Open
<1>26. ASSUME NEW o \in Orders, Refuse(o) PROVE TypeInv'
  BY <1>26 DEF Refuse, Handle, Answer, Refused, Open
<1>27. ASSUME NEW o \in Orders, RefuseDuplicate(o) PROVE TypeInv'
  BY <1>27 DEF RefuseDuplicate, Handle, Answer, Duplicate, Open
<1>28. ASSUME NEW o \in Orders, Lose(o) PROVE TypeInv'
  BY <1>28 DEF Lose, Open
<1>29. ASSUME NEW o \in Orders, Acknowledge(o) PROVE TypeInv'
  BY <1>29 DEF Acknowledge, BrokerMoves, Open, BrokerState, BrokerOutcomes
<1>30. ASSUME NEW o \in Orders, Fill(o) PROVE TypeInv'
  BY <1>30 DEF Fill, BrokerMoves, Open, BrokerState, BrokerOutcomes
<1>31. ASSUME NEW o \in Orders, Hold(o) PROVE TypeInv'
  BY <1>31 DEF Hold, BrokerMoves, Open, BrokerState, BrokerOutcomes
<1>32. ASSUME NEW o \in Orders, Expire(o) PROVE TypeInv'
  BY <1>32 DEF Expire, BrokerMoves, Open, BrokerState, BrokerOutcomes
<1>33. ASSUME NEW o \in Orders, RejectLater(o) PROVE TypeInv'
  BY <1>33 DEF RejectLater, BrokerMoves, Open, BrokerState, BrokerOutcomes
<1>34. CASE SwitchGuard
  BY <1>34 DEF SwitchGuard, Open
<1>35. CASE UNCHANGED vars
  BY <1>35 DEF vars, Open
<1> HIDE DEF TypeInv
<1>36. ASSUME NEW p \in Procs, Start(p) \/ Mishap(p) PROVE TypeInv'
  BY <1>1, <1>2, <1>3, <1>6, <1>7, <1>36 DEF Start, Mishap
<1>37. ASSUME NEW p \in Procs, Work(p) PROVE TypeInv'
  BY <1>4, <1>5, <1>8, <1>9, <1>10, <1>11, <1>12, <1>13, <1>14, <1>15, <1>16, <1>18, <1>19, <1>20, <1>21, <1>22, <1>23, <1>24, <1>37 DEF Work
<1>38. ASSUME NEW o \in Orders, Network(o) PROVE TypeInv'
  BY <1>25, <1>26, <1>27, <1>28, <1>38 DEF Network
<1>39. ASSUME NEW o \in Orders, Market(o) PROVE TypeInv'
  BY <1>29, <1>30, <1>31, <1>32, <1>33, <1>39 DEF Market
<1> QED
  BY <1>17, <1>34, <1>35, <1>36, <1>37, <1>38, <1>39 DEF Next

\* Every variable keeps its type and a process that has an order in hand works
\* on an intent that exists.
THEOREM TypeCorrect == Spec => []TypeOK
<1>1. TypeInv => TypeOK
  BY DEF TypeInv
<1> QED
  BY <1>1, TypeInit, TypeStep, PTL DEF Spec

-----------------------------------------------------------------------------
(***************************************************************************)
(* One transmission per order, and an intent that covers it.               *)
(***************************************************************************)
\* From the creation of the intent to the broker call, a process of execute
\* owns the order: create_intent's primary key lets one process through, and
\* everybody else can only move the intent out of its way.
Owning == {"validate", "submit", "transmit"}

SendInv ==
    /\ \A o \in Orders : sent[o] <= 1 /\ (sent[o] # 0 => Exposed(o))
    /\ \A p \in Procs : pc[p] \in Owning => sent[cur[p]] = 0
    /\ \A p \in Procs : pc[p] = "transmit" => Exposed(cur[p])
    /\ \A p, q \in Procs :
         pc[p] \in Owning /\ pc[q] \in Owning /\ cur[p] = cur[q] => p = q
    /\ NeverUnderReports

LEMMA SendInit == Init => SendInv
BY DEF Init, SendInv, Owning, NeverUnderReports, Snapshot, NoSnapshot

\* A step that leaves the intents and the wire alone and does not bring a
\* process to the broker call.
Quiet(p) ==
    /\ UNCHANGED <<intent, sent, wire, bstate>>
    /\ pc'[p] \notin Owning
    /\ \A q \in Procs \ {p} : pc'[q] = pc[q] /\ cur'[q] = cur[q]

LEMMA QuietStep ==
    ASSUME SendInv, NEW p \in Procs, Quiet(p)
    PROVE  SendInv'
BY DEF SendInv, Quiet, Exposed, NeverUnderReports, Owning

\* A step of the broker or the network.
LEMMA OutsideStep ==
    ASSUME SendInv, TypeInv, UNCHANGED <<intent, sent, pc, cur>>, wire' \subseteq wire,
           \A o \in Orders : bstate'[o] # "none" => bstate[o] # "none" \/ o \in wire
    PROVE  SendInv'
BY DEF SendInv, Exposed, NeverUnderReports, Owning

\* transition() never takes an intent back before its submission.
LEMMA ExposureStays ==
    ASSUME NEW s \in OrderState, NEW t \in OrderState, CanTransition(s, t),
           s \notin NotTransmitted
    PROVE  t \notin NotTransmitted \cup {"none"}
BY DEF CanTransition, NotTransmitted, OrderState, Transitions, BrokerOutcomes

LEMMA TransitionSends ==
    ASSUME SendInv, TypeInv, NEW p \in Procs, NEW label \in Labels \ (AtRest \cup {"create"}),
           NEW target \in OrderState, NEW then \in Labels,
           then \in Owning => label \in Owning,
           then = "transmit" => target \notin NotTransmitted,
           Transition(p, label, target, then)
    PROVE  SendInv'
<1> USE DEF Transition
<1>1. cur[p] \in Orders /\ intent[cur[p]] \in OrderState /\ pc[p] = label
  BY DEF TypeInv, ControlOK, TypeOK
<1>2. pc' \in [Procs -> Labels] /\ cur' \in [Procs -> Orders \cup {NoOrder}]
      /\ pc'[p] \in {"idle", then} /\ (pc'[p] \in Owning => cur'[p] = cur[p])
      /\ \A q \in Procs \ {p} : pc'[q] = pc[q] /\ cur'[q] = cur[q]
  BY DEF TypeInv, TypeOK, Leave, Proceed, Continue, Goto, Labels, Owning
<1>3. CASE UNCHANGED intent /\ Leave(p)
  BY <1>2, <1>3, QuietStep DEF Quiet, Leave, Goto, Owning, TypeInv, TypeOK
<1>4. CASE CanTransition(intent[cur[p]], target) /\ Proceed(p, then)
           /\ intent' = [intent EXCEPT ![cur[p]] = target]
  <2>1. \A o \in Orders : Exposed(o) => Exposed(o)'
    BY <1>1, <1>4, ExposureStays DEF Exposed, TypeInv, TypeOK
  <2>2. pc'[p] = then
    BY <1>4 DEF Proceed, Continue, Goto, TypeInv, TypeOK
  <2>3. pc'[p] = "transmit" => Exposed(cur[p])'
    BY <1>1, <1>2, <1>4, <2>2 DEF Exposed, Owning, TypeInv, TypeOK, OrderState
  <2> QED
    BY SMTT(30), <1>1, <1>2, <2>1, <2>2, <2>3 DEF SendInv, NeverUnderReports, Owning, TypeInv, TypeOK, ControlOK, AtRest
<1> QED
  BY <1>3, <1>4

LEMMA SendStep == TypeInv /\ SendInv /\ [Next]_vars => SendInv'
<1> SUFFICES ASSUME TypeInv, SendInv, [Next]_vars PROVE SendInv'
  OBVIOUS
<1> USE DEF Owning, AtRest, Labels
<1>1. ASSUME NEW p \in Procs,
             BeginExecute(p) \/ BeginSync(p) \/ BeginRecover(p) \/ PickOrder(p)
      PROVE  SendInv'
  <2>1. Quiet(p)
    BY <1>1 DEF Quiet, BeginExecute, BeginSync, BeginRecover, Begin, PickOrder, Goto, TypeInv, TypeOK
  <2> QED
    BY <2>1, QuietStep
<1>2. ASSUME NEW p \in Procs, Return(p) \/ Abandon(p) PROVE SendInv'
  <2>1. Quiet(p)
    BY <1>2 DEF Quiet, Return, Abandon, Leave, Goto, TypeInv, TypeOK
  <2> QED
    BY <2>1, QuietStep
<1>3. ASSUME NEW p \in Procs, LookupFails(p) \/ KeepState(p) PROVE SendInv'
  <2>1. Quiet(p)
    BY <1>3 DEF Quiet, LookupFails, KeepState, Continue, Goto, TypeInv, TypeOK
  <2> QED
    BY <2>1, QuietStep
<1>4. ASSUME NEW p \in Procs, CreateIntent(p) PROVE SendInv'
  <2>1. CASE UNCHANGED intent /\ Leave(p)
    BY <1>4, <2>1, QuietStep DEF Quiet, CreateIntent, Leave, Goto, TypeInv, TypeOK
  <2>2. CASE /\ intent[cur[p]] = "none"
             /\ intent' = [intent EXCEPT ![cur[p]] = "created"]
             /\ Proceed(p, "validate")
    <3>1. cur[p] \in Orders /\ sent[cur[p]] = 0
      BY <1>4, <2>2 DEF CreateIntent, TypeInv, ControlOK, SendInv, Exposed
    <3>2. \A q \in Procs : pc[q] \in Owning => cur[q] # cur[p] /\ q # p
      BY <1>4, <2>2 DEF CreateIntent, TypeInv, ControlOK
    <3>3. \A o \in Orders : Exposed(o) => Exposed(o)'
      BY <2>2, <3>1 DEF Exposed, TypeInv, TypeOK
    <3>4. UNCHANGED <<sent, wire, bstate, cur>> /\ pc' = [pc EXCEPT ![p] = "validate"]
      BY <1>4, <2>2 DEF CreateIntent, Proceed, Goto
    <3> QED
      BY <3>1, <3>2, <3>3, <3>4 DEF SendInv, NeverUnderReports, TypeInv, TypeOK, ControlOK
  <2> QED
    BY <1>4, <2>1, <2>2 DEF CreateIntent
<1>5. ASSUME NEW p \in Procs,
             Validate(p) \/ MarkSubmitted(p) \/ MarkUnknown(p) \/ MarkMissing(p)
             \/ MarkCancelled(p) \/ MarkRejected(p)
      PROVE  SendInv'
  BY <1>5, TransitionSends DEF Validate, MarkSubmitted, MarkUnknown, MarkMissing,
     MarkCancelled, MarkRejected, OrderState, NotTransmitted
<1>6. ASSUME NEW p \in Procs, AdoptState(p) PROVE SendInv'
  <2>1. AdoptedState(p) \in OrderState
    BY <1>6, AdoptedStateType
  <2> QED
    BY <1>6, <2>1, TransitionSends DEF AdoptState
<1>7. ASSUME NEW p \in Procs, Transmit(p) PROVE SendInv'
  <2>1. cur[p] \in Orders /\ pc[p] = "transmit" /\ Exposed(cur[p]) /\ sent[cur[p]] = 0
    BY <1>7 DEF Transmit, SendInv, TypeInv, ControlOK
  <2>2. \A q \in Procs : pc[q] \in Owning /\ q # p => cur[q] # cur[p]
    BY <2>1 DEF SendInv
  <2>3. UNCHANGED <<intent, bstate, cur>> /\ wire' = wire \cup {cur[p]}
        /\ pc' = [pc EXCEPT ![p] = "await"] /\ sent' = [sent EXCEPT ![cur[p]] = 1]
    BY <1>7, <2>1 DEF Transmit, Proceed, Goto, TypeInv, TypeOK
  <2> QED
    BY <2>1, <2>2, <2>3 DEF SendInv, NeverUnderReports, Exposed, TypeInv, TypeOK
<1>8. ASSUME NEW p \in Procs,
             TakeAnswer(p) \/ TimeOut(p) \/ Reread(p) \/ LookupFinds(p) \/ ReadTotals(p)
      PROVE  SendInv'
  <2>1. Quiet(p)
    BY <1>8 DEF Quiet, TakeAnswer, TimeOut, Reread, LookupFinds, ReadTotals, Proceed, Goto, TypeInv, TypeOK
  <2> QED
    BY <2>1, QuietStep
<1>9. ASSUME NEW p \in Procs, LookupMisses(p) PROVE SendInv'
  <2>1. Quiet(p)
    BY <1>9 DEF Quiet, LookupMisses, Proceed, Continue, Goto, TypeInv, TypeOK
  <2> QED
    BY <2>1, QuietStep
<1>10. ASSUME NEW p \in Procs, InsertExecution(p) PROVE SendInv'
  <2>1. Quiet(p)
    BY <1>10 DEF Quiet, InsertExecution, Proceed, Goto, TypeInv, TypeOK
  <2> QED
    BY <2>1, QuietStep
<1>11. ASSUME NEW o \in Orders, Network(o) PROVE SendInv'
  BY <1>11, OutsideStep DEF Network, Accept, Refuse, RefuseDuplicate, Lose, Handle, TypeInv, TypeOK
<1>12. ASSUME NEW o \in Orders, Market(o) PROVE SendInv'
  BY <1>12, OutsideStep DEF Market, Acknowledge, Fill, Hold, Expire, RejectLater, BrokerMoves, Open, TypeInv, TypeOK
<1>13. CASE SwitchGuard
  BY <1>13, OutsideStep DEF SwitchGuard
<1>14. CASE UNCHANGED vars
  BY <1>14, OutsideStep DEF vars
<1> QED
  BY <1>1, <1>2, <1>3, <1>4, <1>5, <1>6, <1>7, <1>8, <1>9, <1>10, <1>11, <1>12, <1>13, <1>14
  DEF Next, Start, Work, Mishap

\* No order is transmitted twice, by however many processes.
THEOREM TransmittedOnce == Spec => []NeverRetransmitted
<1>1. SendInv => NeverRetransmitted
  BY DEF SendInv, NeverRetransmitted
<1> QED
  BY <1>1, TypeInit, TypeStep, SendInit, SendStep, PTL DEF Spec

\* Whatever may exist at the broker has an intent that says so.
THEOREM IntentCoversBroker == Spec => []NeverUnderReports
<1>1. SendInv => NeverUnderReports
  BY DEF SendInv
<1> QED
  BY <1>1, TypeInit, TypeStep, SendInit, SendStep, PTL DEF Spec

-----------------------------------------------------------------------------
(***************************************************************************)
(* Recorded fills, for one process.  (The totals are read in one           *)
(* transaction and the execution inserted in another: with two processes   *)
(* on one order both may insert the same lots.)                            *)
(***************************************************************************)
OneProcess == \A p, q \in Procs : p = q

\* What a process holds of the broker was true of the order in its hand, and
\* what it is about to insert brings the total up to exactly that.
FillInv ==
    /\ NoPhantomFills
    /\ \A o \in Orders : bstate[o] = "none" => bfilled[o] = 0
    /\ \A p \in Procs :
         /\ pc[p] \in AtRest => snap[p] = NoSnapshot
         /\ cur[p] \in Orders /\ snap[p] \in Snapshot => snap[p].filled <= bfilled[cur[p]]
         /\ pc[p] = "insert" => recorded[cur[p]] + fresh[p] = snap[p].filled

LEMMA FillInit == Init => FillInv
BY QtyAssumption DEF Init, FillInv, NoPhantomFills, Snapshot, NoSnapshot, AtRest, BrokerState, BrokerOutcomes

\* A step of a process that touches neither the fills nor the totals.
Untouched(p) ==
    /\ UNCHANGED <<recorded, broker>>
    /\ \A q \in Procs \ {p} : pc'[q] = pc[q] /\ cur'[q] = cur[q] /\ snap'[q] = snap[q]
                             /\ fresh'[q] = fresh[q]
    /\ pc'[p] # "insert"
    /\ \/ snap'[p] = NoSnapshot
       \/ snap'[p] = snap[p] /\ pc'[p] \notin AtRest /\ cur'[p] = cur[p]

LEMMA UntouchedStep ==
    ASSUME TypeInv, FillInv, NEW p \in Procs, Untouched(p)
    PROVE  FillInv'
BY DEF Untouched, FillInv, NoPhantomFills, Snapshot, NoSnapshot, BrokerState, BrokerOutcomes

LEMMA TransitionUntouched ==
    ASSUME TypeInv, FillInv, NEW p \in Procs, NEW label, label \notin AtRest,
           NEW target, NEW then \in Labels \ {"insert", "idle"},
           Transition(p, label, target, then)
    PROVE  FillInv'
<1>1. Untouched(p)
  BY DEF Untouched, Transition, Leave, Proceed, Continue, Goto, AtRest, TypeInv, TypeOK
<1> QED
  BY <1>1, UntouchedStep

\* The broker fills more, never less; the answer it writes is what it has.
BrokerFills ==
    /\ UNCHANGED <<recorded, pc, cur, fresh>>
    /\ \A o \in Orders : /\ bfilled[o] <= bfilled'[o]
                         /\ bstate'[o] = "none" => bstate[o] = "none" /\ bfilled'[o] = bfilled[o]
    /\ bfilled' \in [Orders -> 0..Qty]
    /\ \A p \in Procs :
         \/ snap'[p] = snap[p]
         \/ /\ pc[p] = "await"
            /\ snap'[p] \in Snapshot => snap'[p].filled <= bfilled'[cur[p]]

LEMMA BrokerFillsStep ==
    ASSUME TypeInv, FillInv, BrokerFills
    PROVE  FillInv'
<1>1. \A o \in Orders : /\ recorded[o] \in Nat /\ recorded'[o] = recorded[o]
                        /\ bfilled[o] \in Nat /\ bfilled'[o] \in Nat
                        /\ bfilled[o] <= bfilled'[o]
  <2>1. recorded \in [Orders -> Nat] /\ bfilled \in [Orders -> 0..Qty] /\ UNCHANGED recorded
        /\ bfilled' \in [Orders -> 0..Qty] /\ Qty \in Nat
    BY QtyAssumption DEF TypeInv, TypeOK, BrokerFills
  <2> QED
    BY <2>1 DEF BrokerFills
<1>2. NoPhantomFills'
  BY <1>1 DEF NoPhantomFills, FillInv
<1>3. ASSUME NEW p \in Procs, cur'[p] \in Orders, snap'[p] \in Snapshot
      PROVE  snap'[p].filled <= bfilled'[cur'[p]]
  <2>1. cur'[p] = cur[p]
    BY DEF BrokerFills
  <2>2. CASE snap'[p] = snap[p]
    <3>1. snap[p].filled \in Nat
      BY <1>3, <2>2, QtyAssumption DEF Snapshot
    <3> QED
      BY <1>1, <1>3, <2>1, <2>2, <3>1 DEF FillInv
  <2> QED
    BY <1>3, <2>1, <2>2 DEF BrokerFills
<1>4. ASSUME NEW p \in Procs
      PROVE  /\ pc'[p] \in AtRest => snap'[p] = NoSnapshot
             /\ pc'[p] = "insert" => recorded'[cur'[p]] + fresh'[p] = snap'[p].filled
  BY DEF AtRest, BrokerFills, FillInv
<1>5. \A o \in Orders : bstate'[o] = "none" => bfilled'[o] = 0
  BY DEF BrokerFills, FillInv
<1> QED
  BY <1>2, <1>3, <1>4, <1>5 DEF FillInv

LEMMA FillStep == OneProcess => (TypeInv /\ FillInv /\ [Next]_vars => FillInv')
<1> SUFFICES ASSUME OneProcess, TypeInv, FillInv, [Next]_vars PROVE FillInv'
  OBVIOUS
<1> USE DEF AtRest, Labels, OneProcess
<1>1. ASSUME NEW p \in Procs,
             BeginExecute(p) \/ BeginSync(p) \/ BeginRecover(p) \/ PickOrder(p)
      PROVE  FillInv'
  <2>1. Untouched(p)
    BY <1>1 DEF Untouched, FillInv, BeginExecute, BeginSync, BeginRecover, Begin, PickOrder, Goto, TypeInv, TypeOK
  <2> QED
    BY <2>1, UntouchedStep
<1>2. ASSUME NEW p \in Procs, Return(p) \/ Abandon(p) PROVE FillInv'
  <2>1. Untouched(p)
    BY <1>2 DEF Untouched, Return, Abandon, Leave, Goto, TypeInv, TypeOK
  <2> QED
    BY <2>1, UntouchedStep
<1>3. ASSUME NEW p \in Procs, LookupFails(p) \/ KeepState(p) PROVE FillInv'
  <2>1. Untouched(p)
    BY <1>3 DEF Untouched, LookupFails, KeepState, Continue, Goto, TypeInv, TypeOK
  <2> QED
    BY <2>1, UntouchedStep
<1>4. ASSUME NEW p \in Procs, CreateIntent(p) PROVE FillInv'
  <2>1. Untouched(p)
    BY <1>4 DEF Untouched, CreateIntent, Proceed, Leave, Goto, TypeInv, TypeOK
  <2> QED
    BY <2>1, UntouchedStep
<1>5. ASSUME NEW p \in Procs,
             Validate(p) \/ MarkSubmitted(p) \/ MarkUnknown(p) \/ MarkMissing(p)
             \/ MarkCancelled(p) \/ MarkRejected(p) \/ AdoptState(p)
      PROVE  FillInv'
  BY <1>5, TransitionUntouched DEF Validate, MarkSubmitted, MarkUnknown, MarkMissing,
     MarkCancelled, MarkRejected, AdoptState
<1>6. ASSUME NEW p \in Procs, Transmit(p) \/ TakeAnswer(p) \/ TimeOut(p) \/ Reread(p)
      PROVE  FillInv'
  <2>1. Untouched(p)
    BY <1>6 DEF Untouched, Transmit, TakeAnswer, TimeOut, Reread, Proceed, Goto, TypeInv, TypeOK
  <2> QED
    BY <2>1, UntouchedStep
<1>7. ASSUME NEW p \in Procs, LookupMisses(p) PROVE FillInv'
  <2>1. Untouched(p)
    BY <1>7 DEF Untouched, LookupMisses, Proceed, Continue, Goto, TypeInv, TypeOK
  <2> QED
    BY <2>1, UntouchedStep
<1>8. ASSUME NEW p \in Procs, LookupFinds(p) PROVE FillInv'
  <2>1. cur[p] \in Orders
    BY <1>8 DEF LookupFinds, TypeInv, ControlOK
  <2>2. snap'[p].filled = bfilled[cur[p]] /\ \A q \in Procs : q = p
    BY <1>8 DEF LookupFinds, TypeInv, TypeOK
  <2> QED
    BY <1>8, <2>1, <2>2 DEF LookupFinds, Goto, FillInv, NoPhantomFills, TypeInv, TypeOK
<1>9. ASSUME NEW p \in Procs, ReadTotals(p) PROVE FillInv'
  <2>1. cur[p] \in Orders /\ snap[p] \in Snapshot /\ \A q \in Procs : q = p
    BY <1>9 DEF ReadTotals, TypeInv, ControlOK, Adopting
  <2>2. snap[p].filled \in Nat /\ recorded[cur[p]] \in Nat
    BY <2>1, QtyAssumption DEF Snapshot, TypeInv, TypeOK
  <2> QED
    BY <1>9, <2>1, <2>2 DEF ReadTotals, Goto, FillInv, NoPhantomFills, TypeInv, TypeOK
<1>10. ASSUME NEW p \in Procs, InsertExecution(p) PROVE FillInv'
  <2>1. cur[p] \in Orders /\ snap[p] \in Snapshot /\ \A q \in Procs : q = p
    BY <1>10 DEF InsertExecution, TypeInv, ControlOK, Adopting
  <2>2. recorded'[cur[p]] <= bfilled[cur[p]]
    BY <1>10, <2>1 DEF InsertExecution, FillInv, NoPhantomFills, TypeInv, TypeOK
  <2>3. NoPhantomFills'
    BY <1>10, <2>1, <2>2 DEF InsertExecution, FillInv, NoPhantomFills, TypeInv, TypeOK
  <2> QED
    BY <1>10, <2>1, <2>3 DEF InsertExecution, Proceed, Goto, FillInv, TypeInv, TypeOK
<1>11. ASSUME NEW o \in Orders, Accept(o) PROVE FillInv'
  <2>1. PICK s \in Accepted : /\ Handle(o, s)
                              /\ bstate'  = [bstate  EXCEPT ![o] = s.state]
                              /\ bfilled' = [bfilled EXCEPT ![o] = s.filled]
    BY <1>11 DEF Accept
  <2>2. bfilled[o] = 0 /\ s.filled \in 0..Qty /\ s.state # "none"
    BY <1>11 DEF Accept, Accepted, Snapshot, BrokerState, BrokerOutcomes, FillInv
  <2>3. BrokerFills
    BY <2>1, <2>2, QtyAssumption DEF BrokerFills, Handle, TypeInv, TypeOK
  <2> QED
    BY <2>3, BrokerFillsStep
<1>12. ASSUME NEW o \in Orders, Refuse(o) \/ RefuseDuplicate(o) \/ Lose(o) PROVE FillInv'
  <2>1. Refused \notin Snapshot /\ Duplicate \notin Snapshot
    BY DEF Refused, Duplicate, Snapshot, BrokerState, BrokerOutcomes
  <2>2. BrokerFills
    BY <1>12, <2>1, QtyAssumption DEF BrokerFills, Refuse, RefuseDuplicate, Lose, Handle, TypeInv, TypeOK
  <2> QED
    BY <2>2, BrokerFillsStep
<1>13. ASSUME NEW o \in Orders, Market(o) PROVE FillInv'
  <2>1. PICK s \in BrokerState, f \in 0..Qty : BrokerMoves(o, s, f) /\ bfilled[o] <= f /\ bstate[o] # "none"
    BY <1>13, QtyAssumption DEF Market, Acknowledge, Fill, Hold, Expire, RejectLater, Open,
       BrokerState, BrokerOutcomes, TypeInv, TypeOK, BrokerOK
  <2>2. BrokerFills
    BY <2>1, QtyAssumption DEF BrokerFills, BrokerMoves, BrokerState, BrokerOutcomes, TypeInv, TypeOK
  <2> QED
    BY <2>2, BrokerFillsStep
<1>14. CASE SwitchGuard
  BY <1>14, BrokerFillsStep, QtyAssumption DEF SwitchGuard, BrokerFills, TypeInv, TypeOK
<1>15. CASE UNCHANGED vars
  BY <1>15, BrokerFillsStep, QtyAssumption DEF vars, BrokerFills, TypeInv, TypeOK
<1> QED
  BY <1>1, <1>2, <1>3, <1>4, <1>5, <1>6, <1>7, <1>8, <1>9, <1>10, <1>11, <1>12, <1>13, <1>14, <1>15
  DEF Next, Start, Work, Mishap, Network

\* One process never records more than the broker has filled.
THEOREM FillsAreReal == OneProcess => (Spec => []NoPhantomFills)
<1> SUFFICES ASSUME OneProcess PROVE Spec => []NoPhantomFills
  OBVIOUS
<1>1. FillInv => NoPhantomFills
  BY DEF FillInv
<1>2. TypeInv /\ FillInv /\ [Next]_vars => FillInv'
  BY FillStep
<1> QED
  BY <1>1, <1>2, TypeInit, TypeStep, FillInit, PTL DEF Spec

-----------------------------------------------------------------------------
(* The transmit guard. *)

\* Processes that have asked the guard and not transmitted yet.
Asked  == {"create", "validate", "submit", "transmit"}
Passed == {p \in Procs : pc[p] \in Asked}

\* Each of them can let one order out, and while the guard is closed none joins.
StopInv ==
    /\ allowed  => late = 0
    /\ ~allowed => late + Cardinality(Passed) <= Cardinality(Procs)

\* Nobody asks the guard, nobody transmits.
LEMMA NobodyPasses ==
    ASSUME IsFiniteSet(Procs), TypeInv, StopInv, UNCHANGED <<allowed, late>>,
           \A p \in Procs : pc'[p] \in Asked => pc[p] \in Asked \/ allowed
    PROVE  StopInv'
<1>1. CASE allowed
  BY <1>1 DEF StopInv
<1>2. CASE ~allowed
  <2>1. Passed' \subseteq Passed /\ IsFiniteSet(Passed)
    BY <1>2, FS_Subset DEF Passed
  <2>2. Cardinality(Passed') <= Cardinality(Passed)
    BY <2>1, FS_Subset
  <2>3. IsFiniteSet(Passed') /\ late \in Nat
    BY <2>1, FS_Subset DEF TypeInv, TypeOK
  <2>4. Cardinality(Passed') \in Nat /\ Cardinality(Passed) \in Nat /\ Cardinality(Procs) \in Nat
    BY <2>1, <2>3, FS_CardinalityType
  <2> QED
    BY <1>2, <2>2, <2>3, <2>4 DEF StopInv
<1> QED
  BY <1>1, <1>2

\* A step of a process that neither passes the guard nor transmits.
Elsewhere(p) ==
    /\ UNCHANGED <<allowed, late>>
    /\ \A q \in Procs \ {p} : pc'[q] = pc[q]
    /\ pc'[p] \in Asked => pc[p] \in Asked \/ allowed

LEMMA StopStep == IsFiniteSet(Procs) => (TypeInv /\ StopInv /\ [Next]_vars => StopInv')
<1> SUFFICES ASSUME IsFiniteSet(Procs), TypeInv, StopInv, [Next]_vars PROVE StopInv'
  OBVIOUS
<1> USE DEF Asked, Labels
<1>1. ASSUME NEW p \in Procs, Transmit(p) PROVE StopInv'
  <2>1. /\ UNCHANGED allowed /\ p \in Passed /\ Passed' = Passed \ {p}
        /\ late' = IF allowed THEN late ELSE late + 1
    BY <1>1 DEF Transmit, Proceed, Goto, Passed, TypeInv, TypeOK
  <2>2. IsFiniteSet(Passed) /\ late \in Nat
    BY FS_Subset DEF Passed, TypeInv, TypeOK
  <2>3. Cardinality(Passed') = Cardinality(Passed) - 1
    BY <2>1, <2>2, FS_RemoveElement
  <2>4. Cardinality(Passed) \in Nat /\ Cardinality(Procs) \in Nat
    BY <2>2, FS_CardinalityType
  <2> QED
    BY <2>1, <2>2, <2>3, <2>4 DEF StopInv
<1>2. CASE SwitchGuard
  <2>1. Passed' \subseteq Procs /\ late' = 0
    BY <1>2 DEF SwitchGuard, Passed
  <2>2. Cardinality(Passed') <= Cardinality(Procs) /\ IsFiniteSet(Passed')
    BY <2>1, FS_Subset
  <2>3. Cardinality(Passed') \in Nat
    BY <2>2, FS_CardinalityType
  <2> QED
    BY <2>1, <2>2, <2>3 DEF StopInv
<1>3. ASSUME NEW p \in Procs, PickOrder(p) PROVE Elsewhere(p)
  BY <1>3 DEF Elsewhere, PickOrder, Goto, TypeInv, TypeOK
<1>4. ASSUME NEW p \in Procs,
             BeginExecute(p) \/ BeginSync(p) \/ BeginRecover(p) \/ Return(p) \/ Abandon(p)
      PROVE  Elsewhere(p)
  BY <1>4 DEF Elsewhere, BeginExecute, BeginSync, BeginRecover, Begin, Return, Abandon, Leave, Goto,
     TypeInv, TypeOK
<1>5. ASSUME NEW p \in Procs, NEW label \in Labels, NEW target, NEW then \in Labels,
             then \in Asked => label \in Asked, Transition(p, label, target, then)
      PROVE  Elsewhere(p)
  BY <1>5 DEF Elsewhere, Transition, Proceed, Continue, Leave, Goto, TypeInv, TypeOK
<1>6. ASSUME NEW p \in Procs,
             Validate(p) \/ MarkSubmitted(p) \/ MarkUnknown(p) \/ MarkMissing(p)
             \/ MarkCancelled(p) \/ MarkRejected(p) \/ AdoptState(p)
      PROVE  Elsewhere(p)
  BY <1>5, <1>6 DEF Validate, MarkSubmitted, MarkUnknown, MarkMissing, MarkCancelled, MarkRejected,
     AdoptState
<1>7. ASSUME NEW p \in Procs, CreateIntent(p) PROVE Elsewhere(p)
  BY <1>7 DEF Elsewhere, CreateIntent, Proceed, Leave, Goto, TypeInv, TypeOK
<1>8. ASSUME NEW p \in Procs, TakeAnswer(p) \/ TimeOut(p) \/ Reread(p) PROVE Elsewhere(p)
  BY <1>8 DEF Elsewhere, TakeAnswer, TimeOut, Reread, Proceed, Goto, TypeInv, TypeOK
<1>9. ASSUME NEW p \in Procs, LookupFails(p) \/ LookupFinds(p) \/ LookupMisses(p) PROVE Elsewhere(p)
  BY <1>9 DEF Elsewhere, LookupFails, LookupFinds, LookupMisses, Proceed, Continue, Goto, TypeInv, TypeOK
<1>10. ASSUME NEW p \in Procs, ReadTotals(p) \/ InsertExecution(p) \/ KeepState(p) PROVE Elsewhere(p)
  BY <1>10 DEF Elsewhere, ReadTotals, InsertExecution, KeepState, Proceed, Continue, Goto, TypeInv, TypeOK
<1>11. ASSUME NEW o \in Orders, Network(o) \/ Market(o) PROVE StopInv'
  BY <1>11, NobodyPasses DEF Network, Market, Accept, Refuse, RefuseDuplicate, Lose, Handle, Acknowledge,
     Fill, Hold, Expire, RejectLater, BrokerMoves
<1>12. CASE UNCHANGED vars
  BY <1>12, NobodyPasses DEF vars
<1>13. ASSUME NEW p \in Procs, Elsewhere(p) PROVE StopInv'
  BY <1>13, NobodyPasses DEF Elsewhere
<1> QED
  BY <1>1, <1>2, <1>3, <1>4, <1>6, <1>7, <1>8, <1>9, <1>10, <1>11, <1>12, <1>13
  DEF Next, Start, Work, Mishap

\* Once the guard has closed each process lets one more order out at most, for any
\* finite number of processes, orders, crashes and answers.
THEOREM StopsHold == IsFiniteSet(Procs) => (Spec => []StopTakesHold)
<1> SUFFICES ASSUME IsFiniteSet(Procs) PROVE Spec => []StopTakesHold
  OBVIOUS
<1>1. Init => StopInv
  BY DEF Init, StopInv
<1>2. TypeInv /\ StopInv => StopTakesHold
  <2> SUFFICES ASSUME TypeInv, StopInv PROVE StopTakesHold
    OBVIOUS
  <2>1. IsFiniteSet(Passed) /\ late \in Nat /\ allowed \in BOOLEAN
    BY FS_Subset DEF Passed, TypeInv, TypeOK
  <2>2. Cardinality(Passed) \in Nat /\ Cardinality(Procs) \in Nat
    BY <2>1, FS_CardinalityType
  <2> QED
    BY <2>1, <2>2 DEF StopInv, StopTakesHold
<1>3. TypeInv /\ StopInv /\ [Next]_vars => StopInv'
  BY StopStep
<1> QED
  BY <1>1, <1>2, <1>3, TypeInit, TypeStep, PTL DEF Spec

-----------------------------------------------------------------------------
(* Closed intents, with one process and no request that is still under way   *)
(* when recovery runs.                                                       *)

Settled(o) == ~Open(o) /\ (o \in wire => bstate[o] # "none") /\ recorded[o] = bfilled[o]

\* Neither at the broker nor on its way.
Absent(o) == o \notin wire /\ bstate[o] = "none"

\* An operation works through orders that are as it found them.
ListInv(p) ==
    \A w \in todo[p] : /\ intent[w[1]] = w[2] /\ w[2] \notin TerminalStates
                       /\ pc[p] \notin AtRest => w[1] # cur[p]

\* The answer in hand is the last there will be of an order that is over.
Held(p) ==
    /\ bstate[cur[p]] # "none"
    /\ snap[p].state \in TerminalStates =>
          bstate[cur[p]] = snap[p].state /\ bfilled[cur[p]] = snap[p].filled

\* What a process knows of the order in its hand, from step to step.
PhaseInv(p) ==
    /\ op[p] = "recover" => wire = {}
    /\ pc[p] \in Asked => op[p] = "execute" /\ snap[p] = NoSnapshot
    /\ pc[p] \notin AtRest \cup {"create"} => intent[cur[p]] \notin TerminalStates
    /\ pc[p] \in {"reject", "missing", "cancel"} => Absent(cur[p])
    /\ pc[p] = "await" /\ snap[p] = Refused => Absent(cur[p])
    /\ pc[p] \in Adopting \cup {"await"} /\ snap[p] \in Snapshot => Held(p)
    /\ pc[p] = "update" => snap[p].filled <= recorded[cur[p]]

ExecsInv  == \A o \in Orders : \A e \in execs[o] : e <= recorded[o]
SettleInv == /\ ClosedIsSettled /\ ExecsInv
             /\ \A p \in Procs : ListInv(p) /\ PhaseInv(p)
OrderInv  == TypeInv /\ FillInv /\ SettleInv

LEMMA Terminals == TerminalStates = {"filled", "cancelled", "rejected"}
BY DEF TerminalStates, OrderState, Transitions, BrokerOutcomes

LEMMA SettleInit == Init => SettleInv
<1> SUFFICES ASSUME Init PROVE SettleInv
  OBVIOUS
<1>1. ClosedIsSettled /\ ExecsInv
  BY Terminals DEF Init, ClosedIsSettled, ExecsInv
<1>2. \A p \in Procs : ListInv(p) /\ PhaseInv(p)
  BY DEF Init, ListInv, PhaseInv, Asked, AtRest, Adopting
<1> QED
  BY <1>1, <1>2 DEF SettleInv

\* No intent is closed, and nothing moves at the broker or in the totals.
LEMMA NothingCloses ==
    ASSUME ClosedIsSettled, ExecsInv, UNCHANGED <<recorded, execs, broker>>, wire' \subseteq wire,
           \A o \in Orders : intent'[o] \in TerminalStates => intent[o] \in TerminalStates
    PROVE  ClosedIsSettled' /\ ExecsInv'
BY DEF ClosedIsSettled, ExecsInv, Open

\* A process without an order in hand.
LEMMA AtRestPhase ==
    ASSUME NEW p \in Procs, pc'[p] \in AtRest, op'[p] = "recover" => wire' = {}
    PROVE  PhaseInv(p)'
BY DEF PhaseInv, AtRest, Asked, Adopting

\* The operation ends, or goes on with its next order.
Rests(p) ==
    /\ pc'[p] \in AtRest
    /\ todo'[p] = {} \/ todo'[p] = todo[p]
    /\ op'[p] \in {"none", op[p]}
    /\ UNCHANGED <<recorded, execs, broker, wire>>

LEMMA RestStep ==
    ASSUME OneProcess, OrderInv, NEW p \in Procs, Rests(p), UNCHANGED intent
    PROVE  SettleInv'
<1>1. ClosedIsSettled' /\ ExecsInv'
  BY NothingCloses DEF OrderInv, SettleInv, Rests
<1>2. PhaseInv(p)'
  BY AtRestPhase DEF OrderInv, SettleInv, PhaseInv, Rests
<1>3. ListInv(p)'
  BY DEF OrderInv, SettleInv, ListInv, Rests
<1> QED
  BY <1>1, <1>2, <1>3 DEF SettleInv, OneProcess

\* A move of the intent that closes it only when it is settled.
LEMMA TransitionSettles ==
    ASSUME OneProcess, OrderInv, NEW p \in Procs, NEW label \in Labels \ (AtRest \cup {"create"}),
           NEW target \in OrderState, NEW then \in {"next", "submit", "transmit", "reread", "cancel"},
           Transition(p, label, target, then),
           target \in TerminalStates => Settled(cur[p]) /\ then = "next",
           then \in Asked => label \in Asked,
           then = "cancel" => Absent(cur[p])
    PROVE  SettleInv'
<1>1. cur[p] \in Orders /\ pc[p] = label
  BY DEF OrderInv, TypeInv, ControlOK, Transition
<1>2. CASE UNCHANGED intent /\ Leave(p)
  <2>1. Rests(p)
    BY <1>2 DEF Rests, Transition, Leave, Goto, OrderInv, TypeInv, TypeOK, AtRest
  <2> QED
    BY <1>2, <2>1, RestStep
<1>3. CASE intent' = [intent EXCEPT ![cur[p]] = target] /\ Proceed(p, then)
  <2>1. /\ UNCHANGED <<recorded, execs, broker, wire, op, todo>>
        /\ pc'[p] = then
        /\ then # "next" => cur'[p] = cur[p] /\ snap'[p] = snap[p]
    BY <1>3 DEF Transition, Proceed, Continue, Goto, OrderInv, TypeInv, TypeOK
  <2>2. /\ intent'[cur[p]] = target
        /\ \A o \in Orders \ {cur[p]} : intent'[o] = intent[o]
    BY <1>1, <1>3 DEF OrderInv, TypeInv, TypeOK
  <2>3. ClosedIsSettled' /\ ExecsInv'
    BY <2>1, <2>2 DEF OrderInv, SettleInv, ClosedIsSettled, ExecsInv, Settled, Open
  <2>4. ListInv(p)'
    <3> SUFFICES ASSUME NEW w \in todo[p]
                 PROVE  /\ intent'[w[1]] = w[2] /\ w[2] \notin TerminalStates
                        /\ pc'[p] \notin AtRest => w[1] # cur'[p]
      BY <2>1 DEF ListInv
    <3>1. w[1] # cur[p] /\ intent[w[1]] = w[2] /\ w[2] \notin TerminalStates
      BY <1>1 DEF OrderInv, SettleInv, ListInv
    <3>2. w[1] \in Orders
      BY DEF OrderInv, TypeInv, TypeOK
    <3> QED
      BY <2>1, <2>2, <3>1, <3>2 DEF AtRest
  <2>5. PhaseInv(p)'
    <3>1. CASE then = "next"
      BY <2>1, <3>1, AtRestPhase DEF OrderInv, SettleInv, PhaseInv, AtRest
    <3>2. CASE then # "next"
      BY <1>1, <2>1, <2>2, <3>2 DEF OrderInv, SettleInv, PhaseInv, Asked, AtRest, Adopting, Absent
    <3> QED
      BY <3>1, <3>2
  <2> QED
    BY <2>3, <2>4, <2>5 DEF SettleInv, OneProcess
<1> QED
  BY <1>2, <1>3 DEF Transition

\* An order whose broker has none has no fills to record.
LEMMA AbsentIsSettled ==
    ASSUME OrderInv, NEW o \in Orders, Absent(o)
    PROVE  Settled(o)
<1>1. bfilled[o] = 0 /\ recorded[o] <= bfilled[o] /\ recorded[o] \in Nat
  BY DEF OrderInv, FillInv, NoPhantomFills, Absent, TypeInv, TypeOK
<1> QED
  BY <1>1 DEF Absent, Settled, Open

\* What adopting an answer closes is settled: its fills were recorded first.
LEMMA AdoptedIsSettled ==
    ASSUME OrderInv, NEW p \in Procs, pc[p] = "update", NeedsUpdate(p),
           AdoptedState(p) \in TerminalStates
    PROVE  Settled(cur[p])
<1>1. cur[p] \in Orders /\ snap[p] \in Snapshot
  BY DEF OrderInv, TypeInv, ControlOK, AtRest, Adopting
<1>2. snap[p].state \in TerminalStates
  BY Terminals DEF AdoptedState, NeedsUpdate
<1>3. /\ bstate[cur[p]] = snap[p].state /\ bfilled[cur[p]] = snap[p].filled
      /\ snap[p].filled <= recorded[cur[p]]
  BY <1>1, <1>2 DEF OrderInv, SettleInv, PhaseInv, Held, Adopting
<1>4. recorded[cur[p]] <= bfilled[cur[p]] /\ recorded[cur[p]] \in Nat /\ bfilled[cur[p]] \in Nat
  BY <1>1, QtyAssumption DEF OrderInv, FillInv, NoPhantomFills, TypeInv, TypeOK
<1> QED
  BY <1>2, <1>3, <1>4, Terminals DEF Settled, Open

\* The process goes on with the order in its hand and writes nothing.
LEMMA InHand ==
    ASSUME OneProcess, OrderInv, NEW p \in Procs, pc[p] \notin AtRest,
           UNCHANGED <<db, broker, wire, op, todo, cur>>, PhaseInv(p)'
    PROVE  SettleInv'
<1>1. ClosedIsSettled' /\ ExecsInv'
  BY NothingCloses DEF OrderInv, SettleInv
<1>2. ListInv(p)'
  BY DEF OrderInv, SettleInv, ListInv
<1> QED
  BY <1>1, <1>2 DEF SettleInv, OneProcess

\* The broker or the network moves; no process does, except that an answer may
\* reach the one that waits for it.
Outside ==
    /\ UNCHANGED <<db, pc, op, todo, cur>>
    /\ wire' \subseteq wire
    /\ \A o \in Orders :
         /\ \/ bstate'[o] = bstate[o] /\ bfilled'[o] = bfilled[o]
            \/ {intent[o], bstate[o]} \cap TerminalStates = {} /\ bstate'[o] # "none"
         /\ Absent(o) => Absent(o)'
    /\ \A p \in Procs :
         \/ snap'[p] = snap[p]
         \/ pc[p] = "await" /\ (snap'[p] \in Snapshot => Held(p)') /\ (snap'[p] = Refused => Absent(cur[p])')

LEMMA OutsideSettles ==
    ASSUME OrderInv, Outside
    PROVE  SettleInv'
<1>1. ClosedIsSettled' /\ ExecsInv'
  <2>1. ExecsInv'
    BY DEF OrderInv, SettleInv, ExecsInv, Outside
  <2>2. ASSUME NEW o \in Orders, intent'[o] \in TerminalStates
        PROVE  ~Open(o)' /\ (o \in wire' => bstate'[o] # "none") /\ recorded'[o] = bfilled'[o]
    <3>1. intent[o] \in TerminalStates
      BY <2>2 DEF Outside
    <3>2. bstate'[o] = bstate[o] /\ bfilled'[o] = bfilled[o]
      BY <3>1 DEF Outside
    <3> QED
      BY <3>1, <3>2 DEF OrderInv, SettleInv, ClosedIsSettled, Open, Outside
  <2> QED
    BY <2>1, <2>2 DEF ClosedIsSettled
<1>2. ASSUME NEW p \in Procs PROVE ListInv(p)'
  BY DEF OrderInv, SettleInv, ListInv, Outside
<1>3. ASSUME NEW p \in Procs PROVE PhaseInv(p)'
  <2>1. pc[p] \notin AtRest => cur[p] \in Orders
    BY DEF OrderInv, TypeInv, ControlOK
  <2>2. PhaseInv(p) /\ pc'[p] = pc[p] /\ op'[p] = op[p] /\ cur'[p] = cur[p]
    BY DEF OrderInv, SettleInv, Outside
  <2>3. /\ op'[p] = "recover" => wire' = {}
        /\ pc'[p] \in Asked => op'[p] = "execute" /\ snap'[p] = NoSnapshot
        /\ pc'[p] \notin AtRest \cup {"create"} => intent'[cur'[p]] \notin TerminalStates
    BY <2>2 DEF PhaseInv, Outside, Asked
  <2>4. /\ pc'[p] \in {"reject", "missing", "cancel"} => Absent(cur[p])'
        /\ pc'[p] = "await" /\ snap'[p] = Refused => Absent(cur[p])'
    BY <2>1, <2>2 DEF PhaseInv, Outside, AtRest
  <2>5. ASSUME pc'[p] \in Adopting \cup {"await"}, snap'[p] \in Snapshot
        PROVE  Held(p)'
    <3>1. CASE snap'[p] = snap[p]
      <4>1. Held(p) /\ cur[p] \in Orders
        BY <2>1, <2>2, <2>5, <3>1 DEF PhaseInv, AtRest, Adopting
      <4> QED
        BY <2>2, <3>1, <4>1 DEF Held, Outside
    <3>2. CASE snap'[p] # snap[p]
      BY <2>5, <3>2 DEF Outside
    <3> QED
      BY <3>1, <3>2
  <2>6. pc'[p] = "update" => snap'[p].filled <= recorded'[cur'[p]]
    BY <2>2 DEF PhaseInv, Outside
  <2> QED
    BY <2>2, <2>3, <2>4, <2>5, <2>6 DEF PhaseInv
<1> QED
  BY <1>1, <1>2, <1>3 DEF SettleInv


LEMMA SettleStep ==
    ASSUME OneProcess, ~LateArrivals, OrderInv, [Next]_vars
    PROVE  SettleInv'
<1> USE DEF Labels
<1>1. ASSUME NEW p \in Procs, BeginExecute(p) \/ BeginSync(p) \/ BeginRecover(p) PROVE SettleInv'
  <2>1. PICK operation, work :
           /\ Begin(p, operation, work)
           /\ operation \in {"execute", "sync", "recover"}
           /\ operation = "recover" => wire = {}
           /\ \A w \in work : intent[w[1]] = w[2] /\ w[2] \notin TerminalStates
    <3>1. ASSUME NEW states, states \cap TerminalStates = {}, NEW w \in Listed(states)
          PROVE  intent[w[1]] = w[2] /\ w[2] \notin TerminalStates
      BY <3>1 DEF Listed
    <3>2. CASE BeginExecute(p)
      BY <3>2, Terminals DEF BeginExecute
    <3>3. CASE BeginSync(p)
      BY <3>1, <3>3, Terminals DEF BeginSync, Working, OrderState, BrokerOutcomes
    <3>4. CASE BeginRecover(p)
      BY <3>1, <3>4, Terminals DEF BeginRecover, Working, NotTransmitted
    <3> QED
      BY <1>1, <3>2, <3>3, <3>4
  <2>2. /\ pc'[p] = "next" /\ op'[p] = operation /\ todo'[p] = work
        /\ UNCHANGED <<db, broker, wire>>
    BY <2>1 DEF Begin, Goto, OrderInv, TypeInv, TypeOK
  <2>3. ClosedIsSettled' /\ ExecsInv'
    BY <2>2, NothingCloses DEF OrderInv, SettleInv
  <2>4. ListInv(p)' /\ PhaseInv(p)'
    BY <2>1, <2>2, AtRestPhase DEF ListInv, AtRest
  <2> QED
    BY <2>3, <2>4 DEF SettleInv, OneProcess
<1>2. ASSUME NEW p \in Procs, PickOrder(p) PROVE SettleInv'
  <2>1. PICK w \in todo[p] : cur' = [cur EXCEPT ![p] = w[1]] /\ todo' = [todo EXCEPT ![p] = @ \ {w}]
    BY <1>2 DEF PickOrder
  <2>2. /\ cur'[p] = w[1] /\ todo'[p] = todo[p] \ {w} /\ snap'[p] = NoSnapshot
        /\ pc'[p] = IF op[p] = "execute" THEN "create" ELSE "lookup"
        /\ UNCHANGED <<db, broker, wire, op>>
    BY <1>2, <2>1 DEF PickOrder, Goto, OrderInv, FillInv, AtRest, TypeInv, TypeOK
  <2>3. ClosedIsSettled' /\ ExecsInv'
    BY <2>2, NothingCloses DEF OrderInv, SettleInv
  <2>4. ListInv(p)'
    <3> SUFFICES ASSUME NEW v \in todo'[p]
                 PROVE  /\ intent'[v[1]] = v[2] /\ v[2] \notin TerminalStates
                        /\ v[1] # cur'[p]
      BY DEF ListInv
    <3>1. intent[v[1]] = v[2] /\ v[2] \notin TerminalStates /\ intent[w[1]] = w[2] /\ v # w
      BY <2>2 DEF OrderInv, SettleInv, ListInv
    <3>2. v = <<v[1], v[2]>> /\ w = <<w[1], w[2]>>
      BY <2>2 DEF OrderInv, TypeInv, TypeOK
    <3> QED
      BY <2>2, <3>1, <3>2
  <2>5. PhaseInv(p)'
    <3>1. intent[w[1]] \notin TerminalStates /\ (op[p] = "recover" => wire = {})
      BY DEF OrderInv, SettleInv, ListInv, PhaseInv
    <3> QED
      BY <2>2, <3>1 DEF PhaseInv, Asked, Adopting, AtRest, NoSnapshot, Snapshot, BrokerState, BrokerOutcomes
  <2> QED
    BY <2>3, <2>4, <2>5 DEF SettleInv, OneProcess
<1>3. ASSUME NEW p \in Procs, Return(p) \/ Abandon(p) \/ LookupFails(p) \/ KeepState(p)
      PROVE  SettleInv'
  <2>1. Rests(p) /\ UNCHANGED intent
    BY <1>3 DEF Return, Abandon, LookupFails, KeepState, Leave, Continue, Goto, Rests, AtRest,
       OrderInv, TypeInv, TypeOK
  <2> QED
    BY <2>1, RestStep
<1>4. ASSUME NEW p \in Procs, CreateIntent(p) PROVE SettleInv'
  <2>1. cur[p] \in Orders /\ pc[p] = "create" /\ op[p] = "execute" /\ snap[p] = NoSnapshot
    BY <1>4 DEF CreateIntent, OrderInv, TypeInv, ControlOK, AtRest, SettleInv, PhaseInv, Asked
  <2>2. CASE UNCHANGED intent /\ Leave(p)
    <3>1. Rests(p)
      BY <1>4, <2>2 DEF Rests, CreateIntent, Leave, Goto, OrderInv, TypeInv, TypeOK, AtRest
    <3> QED
      BY <2>2, <3>1, RestStep
  <2>3. CASE intent' = [intent EXCEPT ![cur[p]] = "created"] /\ Proceed(p, "validate")
    <3>1. /\ UNCHANGED <<recorded, execs, broker, wire, op, todo, cur, snap>> /\ pc'[p] = "validate"
          /\ intent'[cur[p]] = "created"
          /\ \A o \in Orders \ {cur[p]} : intent'[o] = intent[o]
      BY <1>4, <2>1, <2>3 DEF CreateIntent, Proceed, Goto, OrderInv, TypeInv, TypeOK
    <3>2. ClosedIsSettled' /\ ExecsInv'
      BY <3>1, NothingCloses, Terminals DEF OrderInv, SettleInv
    <3>3. ListInv(p)'
      <4> SUFFICES ASSUME NEW w \in todo[p]
                   PROVE  intent'[w[1]] = w[2] /\ w[2] \notin TerminalStates /\ w[1] # cur[p]
        BY <3>1 DEF ListInv
      <4>1. w[1] # cur[p] /\ intent[w[1]] = w[2] /\ w[2] \notin TerminalStates /\ w[1] \in Orders
        BY <2>1 DEF OrderInv, SettleInv, ListInv, TypeInv, TypeOK, AtRest
      <4> QED
        BY <3>1, <4>1
    <3>4. PhaseInv(p)'
      BY <2>1, <3>1, Terminals DEF PhaseInv, Asked, Adopting
    <3> QED
      BY <3>2, <3>3, <3>4 DEF SettleInv, OneProcess
  <2> QED
    BY <1>4, <2>2, <2>3 DEF CreateIntent
<1>5. ASSUME NEW p \in Procs,
             Validate(p) \/ MarkSubmitted(p) \/ MarkUnknown(p) \/ MarkMissing(p)
             \/ MarkCancelled(p) \/ MarkRejected(p)
      PROVE  SettleInv'
  <2>1. pc[p] \in {"missing", "cancel", "reject"} => Absent(cur[p]) /\ cur[p] \in Orders
    BY DEF OrderInv, SettleInv, PhaseInv, TypeInv, ControlOK, AtRest
  <2>2. CASE Validate(p) \/ MarkSubmitted(p) \/ MarkUnknown(p) \/ MarkMissing(p)
    BY <2>1, <2>2, TransitionSettles, Terminals
    DEF Validate, MarkSubmitted, MarkUnknown, MarkMissing, Transition, Asked, AtRest, OrderState,
        Transitions, BrokerOutcomes
  <2>3. CASE MarkCancelled(p) \/ MarkRejected(p)
    BY <2>1, <2>3, TransitionSettles, AbsentIsSettled
    DEF MarkCancelled, MarkRejected, Transition, Asked, AtRest, OrderState, Transitions, BrokerOutcomes
  <2> QED
    BY <1>5, <2>2, <2>3
<1>6. ASSUME NEW p \in Procs, AdoptState(p) PROVE SettleInv'
  <2>1. AdoptedState(p) \in OrderState
    BY <1>6, AdoptedStateType DEF OrderInv
  <2>2. AdoptedState(p) \in TerminalStates => Settled(cur[p])
    BY <1>6, AdoptedIsSettled DEF AdoptState, Transition
  <2> QED
    BY <1>6, <2>1, <2>2, TransitionSettles DEF AdoptState, Asked, AtRest
<1>7. ASSUME NEW p \in Procs, Transmit(p) PROVE SettleInv'
  <2>1. /\ cur[p] \in Orders /\ op[p] = "execute" /\ snap[p] = NoSnapshot
        /\ intent[cur[p]] \notin TerminalStates
    BY <1>7 DEF Transmit, OrderInv, TypeInv, ControlOK, AtRest, SettleInv, PhaseInv, Asked
  <2>2. /\ UNCHANGED <<db, broker, op, todo, cur, snap>> /\ pc'[p] = "await" /\ pc[p] = "transmit"
        /\ wire' = wire \cup {cur[p]}
    BY <1>7 DEF Transmit, Proceed, Goto, OrderInv, TypeInv, TypeOK
  <2>3. ClosedIsSettled' /\ ExecsInv'
    BY <2>1, <2>2 DEF OrderInv, SettleInv, ClosedIsSettled, ExecsInv, Open
  <2>4. ListInv(p)'
    BY <2>2 DEF OrderInv, SettleInv, ListInv, AtRest
  <2>5. PhaseInv(p)'
    BY <2>1, <2>2 DEF PhaseInv, Asked, Adopting, NoSnapshot, Refused, Snapshot, BrokerState, BrokerOutcomes
  <2> QED
    BY <2>3, <2>4, <2>5 DEF SettleInv, OneProcess
<1>8. ASSUME NEW p \in Procs, TakeAnswer(p) \/ TimeOut(p) \/ Reread(p) PROVE SettleInv'
  <2>1. pc[p] \notin AtRest /\ UNCHANGED <<db, broker, wire, op, todo, cur>>
    BY <1>8 DEF TakeAnswer, TimeOut, Reread, Proceed, AtRest
  <2>2. PhaseInv(p) /\ cur[p] \in Orders
    BY <2>1 DEF OrderInv, SettleInv, TypeInv, ControlOK
  <2>3. ASSUME TakeAnswer(p) PROVE PhaseInv(p)'
    BY <2>1, <2>2, <2>3 DEF TakeAnswer, Proceed, Goto, PhaseInv, Held, Absent, Asked, AtRest, Adopting,
       Snapshot, Duplicate, Refused, BrokerState, BrokerOutcomes, OrderInv, TypeInv, TypeOK
  <2>4. ASSUME TimeOut(p) \/ Reread(p) PROVE PhaseInv(p)'
    BY <2>1, <2>2, <2>4 DEF TimeOut, Reread, Goto, PhaseInv, Asked, AtRest, Adopting, OrderInv, TypeInv, TypeOK
  <2>5. PhaseInv(p)'
    BY <1>8, <2>3, <2>4
  <2> QED
    BY <2>1, <2>5, InHand
<1>9. ASSUME NEW p \in Procs, LookupFinds(p) PROVE SettleInv'
  <2>1. /\ pc[p] = "lookup" /\ pc[p] \notin AtRest /\ pc'[p] = "totals"
        /\ UNCHANGED <<db, broker, wire, op, todo, cur>>
        /\ bstate[cur[p]] # "none"
        /\ snap'[p].state = bstate[cur[p]] /\ snap'[p].filled = bfilled[cur[p]]
    BY <1>9 DEF LookupFinds, Goto, AtRest, OrderInv, TypeInv, TypeOK
  <2>2. PhaseInv(p)'
    BY <2>1 DEF OrderInv, SettleInv, PhaseInv, Held, Asked, Adopting, AtRest
  <2> QED
    BY <2>1, <2>2, InHand
<1>10. ASSUME NEW p \in Procs, LookupMisses(p) PROVE SettleInv'
  <2>1. /\ pc[p] = "lookup" /\ pc[p] \notin AtRest /\ UNCHANGED <<db, broker, wire>>
        /\ bstate[cur[p]] = "none"
    BY <1>10 DEF LookupMisses, AtRest
  <2>2. CASE Continue(p)
    <3>1. Rests(p)
      BY <2>1, <2>2 DEF Rests, Continue, Goto, AtRest, OrderInv, TypeInv, TypeOK
    <3> QED
      BY <2>1, <3>1, RestStep
  <2>3. CASE ~Continue(p)
    <3>1. PICK then \in {"reject", "cancel", "missing"} :
             op[p] = "recover" /\ Goto(p, then) /\ UNCHANGED <<op, todo, cur, snap>>
      BY <1>10, <2>3 DEF LookupMisses, Proceed
    <3>2. Absent(cur[p]) /\ intent[cur[p]] \notin TerminalStates
      BY <2>1, <3>1 DEF Absent, OrderInv, SettleInv, PhaseInv, AtRest
    <3>3. PhaseInv(p)'
      BY <2>1, <3>1, <3>2 DEF PhaseInv, Absent, Goto, Asked, Adopting, OrderInv, SettleInv, TypeInv, TypeOK
    <3> QED
      BY <2>1, <3>1, <3>3, InHand
  <2> QED
    BY <2>2, <2>3
<1>11. ASSUME NEW p \in Procs, ReadTotals(p) PROVE SettleInv'
  <2>1. /\ pc[p] = "totals" /\ pc[p] \notin AtRest
        /\ UNCHANGED <<db, broker, wire, op, todo, cur, snap>>
    BY <1>11 DEF ReadTotals, AtRest
  <2>2. snap[p].filled \in Nat /\ recorded[cur[p]] \in Nat
    BY <2>1, QtyAssumption DEF OrderInv, TypeInv, TypeOK, ControlOK, Adopting, Snapshot
  <2>3. pc'[p] \in {"insert", "update"} /\ (pc'[p] = "update" => snap[p].filled <= recorded[cur[p]])
    BY <1>11, <2>2 DEF ReadTotals, Goto, OrderInv, TypeInv, TypeOK
  <2>4. PhaseInv(p)'
    BY <2>1, <2>3 DEF OrderInv, SettleInv, PhaseInv, Held, Asked, Adopting, AtRest
  <2> QED
    BY <2>1, <2>4, InHand
<1>12. ASSUME NEW p \in Procs, InsertExecution(p) PROVE SettleInv'
  <2>1. /\ pc[p] = "insert" /\ pc[p] \notin AtRest /\ pc'[p] = "update"
        /\ UNCHANGED <<intent, broker, wire, op, todo, cur, snap>>
        /\ cur[p] \in Orders /\ snap[p] \in Snapshot
    BY <1>12 DEF InsertExecution, Proceed, Goto, AtRest, Adopting, OrderInv, TypeInv, TypeOK, ControlOK
  <2>2. /\ snap[p].filled \in Nat /\ fresh[p] \in Nat /\ recorded[cur[p]] \in Nat
        /\ recorded[cur[p]] + fresh[p] = snap[p].filled
        /\ intent[cur[p]] \notin TerminalStates
    BY <2>1, QtyAssumption DEF Snapshot, OrderInv, TypeInv, TypeOK, FillInv, SettleInv, PhaseInv, AtRest
  <2>3. /\ recorded'[cur[p]] = IF snap[p].filled \in execs[cur[p]] THEN recorded[cur[p]] ELSE snap[p].filled
        /\ execs'[cur[p]] = execs[cur[p]] \cup {snap[p].filled}
        /\ \A o \in Orders \ {cur[p]} : recorded'[o] = recorded[o] /\ execs'[o] = execs[o]
    BY <1>12, <2>1, <2>2 DEF InsertExecution, OrderInv, TypeInv, TypeOK
  <2>4. \A e \in execs[cur[p]] : e \in Nat /\ e <= recorded[cur[p]]
    BY <2>1, QtyAssumption DEF OrderInv, TypeInv, TypeOK, SettleInv, ExecsInv
  <2>5. snap[p].filled <= recorded'[cur[p]] /\ \A e \in execs'[cur[p]] : e <= recorded'[cur[p]]
    BY <2>2, <2>3, <2>4
  <2>6. ClosedIsSettled' /\ ExecsInv'
    BY <2>1, <2>2, <2>3, <2>5 DEF OrderInv, SettleInv, ClosedIsSettled, ExecsInv, Open
  <2>7. ListInv(p)'
    BY <2>1 DEF OrderInv, SettleInv, ListInv
  <2>8. PhaseInv(p)'
    BY <2>1, <2>5 DEF OrderInv, SettleInv, PhaseInv, Held, Asked, Adopting, AtRest
  <2> QED
    BY <2>6, <2>7, <2>8 DEF SettleInv, OneProcess
<1>13. ASSUME NEW o \in Orders, Accept(o) PROVE Outside
  <2>1. PICK s \in Accepted : /\ Handle(o, s)
                              /\ bstate'  = [bstate  EXCEPT ![o] = s.state]
                              /\ bfilled' = [bfilled EXCEPT ![o] = s.filled]
    BY <1>13 DEF Accept
  <2>2. s.state # "none" /\ s # Refused /\ bstate[o] = "none" /\ o \in wire
    BY <1>13, <2>1 DEF Accept, Handle, Accepted, Snapshot, BrokerState, BrokerOutcomes, Refused
  <2>3. intent[o] \notin TerminalStates /\ "none" \notin TerminalStates
    BY <2>2, Terminals DEF OrderInv, SettleInv, ClosedIsSettled
  <2>4. \A q \in Orders : /\ bstate'[q] = IF q = o THEN s.state ELSE bstate[q]
                          /\ bfilled'[q] = IF q = o THEN s.filled ELSE bfilled[q]
    BY <2>1 DEF OrderInv, TypeInv, TypeOK
  <2>5. UNCHANGED <<db, pc, op, todo, cur>> /\ wire' = wire \ {o}
    BY <2>1 DEF Handle
  <2>6. ASSUME NEW p \in Procs, snap'[p] # snap[p]
        PROVE  pc[p] = "await" /\ Held(p)' /\ snap'[p] # Refused
    <3>1. pc[p] = "await" /\ cur[p] = o /\ snap'[p] = s
      BY <2>1, <2>6 DEF Handle
    <3> QED
      BY <2>2, <2>4, <2>5, <3>1 DEF Held
  <2> QED
    BY <2>2, <2>3, <2>4, <2>5, <2>6 DEF Outside, Absent
<1>14. ASSUME NEW o \in Orders, Refuse(o) \/ RefuseDuplicate(o) \/ Lose(o) PROVE Outside
  <2>1. Refused \notin Snapshot /\ Duplicate \notin Snapshot /\ Refused # Duplicate
    BY DEF Refused, Duplicate, Snapshot, BrokerState, BrokerOutcomes
  <2>2. UNCHANGED <<db, broker, pc, op, todo, cur>> /\ wire' = wire \ {o}
    BY <1>14 DEF Refuse, RefuseDuplicate, Lose, Handle
  <2>3. ASSUME NEW p \in Procs, snap'[p] # snap[p]
        PROVE  pc[p] = "await" /\ snap'[p] \notin Snapshot /\ (snap'[p] = Refused => Absent(cur[p])')
    BY <1>14, <2>1, <2>2, <2>3 DEF Refuse, RefuseDuplicate, Lose, Handle, Absent
  <2> QED
    BY <2>2, <2>3 DEF Outside, Absent
<1>15. ASSUME NEW o \in Orders, Market(o) PROVE Outside
  <2>1. PICK s \in BrokerState, f \in 0..Qty : BrokerMoves(o, s, f) /\ Open(o)
    BY <1>15, QtyAssumption DEF Market, Acknowledge, Fill, Hold, Expire, RejectLater, Open,
       BrokerState, BrokerOutcomes, OrderInv, TypeInv, TypeOK, BrokerOK
  <2>2. /\ intent[o] \notin TerminalStates /\ bstate[o] \notin TerminalStates
        /\ bstate[o] # "none" /\ s # "none"
    BY <2>1, Terminals DEF OrderInv, SettleInv, ClosedIsSettled, Open, BrokerState, BrokerOutcomes
  <2>3. /\ UNCHANGED <<db, wire, pc, op, todo, cur, snap>>
        /\ \A q \in Orders : /\ bstate'[q] = IF q = o THEN s ELSE bstate[q]
                             /\ bfilled'[q] = IF q = o THEN f ELSE bfilled[q]
    BY <2>1 DEF BrokerMoves, OrderInv, TypeInv, TypeOK
  <2> QED
    BY <2>2, <2>3 DEF Outside, Absent
<1>16. CASE SwitchGuard \/ UNCHANGED vars
  BY <1>16, OutsideSettles DEF SwitchGuard, vars, Outside, Absent
<1> QED
  BY <1>1, <1>2, <1>3, <1>4, <1>5, <1>6, <1>7, <1>8, <1>9, <1>10, <1>11, <1>12, <1>13, <1>14, <1>15,
     <1>16, OutsideSettles
  DEF Next, Start, Work, Mishap, Network

\* When an intent is closed its order is over at the broker, nothing can create it
\* any more and every lot of it is recorded: for every number of orders and every
\* quantity, with one process and requests that are over before recovery runs.
THEOREM ClosedStaysSettled == OneProcess /\ ~LateArrivals => (Spec => []ClosedIsSettled)
<1> SUFFICES ASSUME OneProcess, ~LateArrivals PROVE Spec => []ClosedIsSettled
  OBVIOUS
<1>1. TypeInv /\ FillInv /\ SettleInv /\ [Next]_vars => SettleInv'
  BY SettleStep DEF OrderInv
<1>2. TypeInv /\ FillInv /\ [Next]_vars => FillInv'
  BY FillStep
<1>3. SettleInv => ClosedIsSettled
  BY DEF SettleInv
<1> QED
  BY <1>1, <1>2, <1>3, TypeInit, TypeStep, FillInit, SettleInit, PTL DEF Spec

-----------------------------------------------------------------------------
(* The order ledger: each step of the manager is a step of it or none.      *)

LedgerInv == OrderInv /\ SendInv

LedgerStep == [Ledger!Next]_(Ledger!ledger)

\* A legal move of an intent keeps the phase or takes it forward.
LEMMA PhasesGoOn ==
    ASSUME NEW s \in OrderState, NEW t \in OrderState, CanTransition(s, t)
    PROVE  \/ PhaseOf(s) = PhaseOf(t)
           \/ PhaseOf(s) = "intended" /\ PhaseOf(t) \in {"exposed", "closed"}
           \/ PhaseOf(s) = "exposed" /\ PhaseOf(t) = "closed" /\ t \in TerminalStates
BY Terminals DEF PhaseOf, CanTransition, OrderState, Transitions, BrokerOutcomes, NotTransmitted

\* What may fill has been exposed.
LEMMA LiveIsExposed ==
    ASSUME Prior = {}, LedgerInv, NEW o \in Orders, o \in wire \/ bstate[o] # "none",
           intent[o] \notin TerminalStates
    PROVE  PhaseOf(intent[o]) = "exposed"
BY DEF LedgerInv, SendInv, NeverUnderReports, Exposed, PhaseOf

LEMMA QuietLedger ==
    ASSUME UNCHANGED <<intent, bfilled, recorded>>
    PROVE  LedgerStep
BY DEF LedgerStep, Ledger!ledger

\* One intent moves on.
LEMMA LedgerMoves ==
    ASSUME OrderInv, ClosedIsSettled', UNCHANGED <<bfilled, recorded>>,
           NEW o \in Orders, NEW t \in OrderState, intent' = [intent EXCEPT ![o] = t],
           \/ intent[o] \in OrderState /\ CanTransition(intent[o], t)
           \/ intent[o] = "none" /\ t = "created"
    PROVE  LedgerStep
<1> DEFINE phase == [q \in Orders |-> PhaseOf(intent[q])]
<1>1. phase' = [phase EXCEPT ![o] = PhaseOf(t)] /\ phase[o] = PhaseOf(intent[o]) /\ intent'[o] = t
  BY DEF OrderInv, TypeInv, TypeOK
<1>2. CASE PhaseOf(t) = PhaseOf(intent[o])
  <2>1. phase' = phase
    BY <1>1, <1>2
  <2> QED
    BY <2>1 DEF LedgerStep, Ledger!ledger
<1>3. CASE intent[o] = "none" /\ t = "created"
  <2>1. PhaseOf(intent[o]) = "none" /\ PhaseOf(t) = "intended"
    BY <1>3, Terminals DEF PhaseOf, NotTransmitted
  <2>2. Ledger!Intend(o)
    BY <1>1, <2>1 DEF Ledger!Intend, Ledger!Step
  <2> QED
    BY <2>2 DEF LedgerStep, Ledger!Next
<1>4. CASE PhaseOf(intent[o]) = "intended" /\ PhaseOf(t) \in {"exposed", "closed"}
  <2>1. Ledger!Expose(o) \/ Ledger!Discard(o)
    BY <1>1, <1>4 DEF Ledger!Expose, Ledger!Discard, Ledger!Step
  <2> QED
    BY <2>1 DEF LedgerStep, Ledger!Next
<1>5. CASE PhaseOf(intent[o]) = "exposed" /\ PhaseOf(t) = "closed" /\ t \in TerminalStates
  <2>1. recorded[o] = bfilled[o]
    BY <1>1, <1>5 DEF ClosedIsSettled
  <2>2. Ledger!Close(o)
    BY <1>1, <1>5, <2>1 DEF Ledger!Close, Ledger!Step
  <2> QED
    BY <2>2 DEF LedgerStep, Ledger!Next
<1> QED
  BY <1>2, <1>3, <1>4, <1>5, PhasesGoOn

\* An order that is exposed fills.
LEMMA LedgerFills ==
    ASSUME OrderInv, UNCHANGED <<intent, recorded>>, NEW o \in Orders, NEW q \in 0..Qty,
           bfilled' = [bfilled EXCEPT ![o] = q], bfilled[o] <= q, PhaseOf(intent[o]) = "exposed"
    PROVE  LedgerStep
<1> DEFINE phase == [i \in Orders |-> PhaseOf(intent[i])]
<1>1. phase' = phase /\ phase[o] = "exposed"
  OBVIOUS
<1>2. bfilled[o] \in Nat /\ Qty \in Nat
  BY QtyAssumption DEF OrderInv, TypeInv, TypeOK
<1>3. CASE bfilled[o] = q
  <2>1. bfilled' = bfilled
    BY <1>3 DEF OrderInv, TypeInv, TypeOK
  <2> QED
    BY <2>1, QuietLedger
<1>4. CASE bfilled[o] # q
  <2>1. q \in (bfilled[o] + 1)..Qty
    BY <1>2, <1>4
  <2>2. Ledger!Fill(o)
    BY <1>1, <2>1 DEF Ledger!Fill
  <2> QED
    BY <2>2 DEF LedgerStep, Ledger!Next
<1> QED
  BY <1>3, <1>4

\* Executions recorded for an order that is exposed count some of its lots.
LEMMA LedgerCounts ==
    ASSUME OrderInv, UNCHANGED <<intent, bfilled>>, NEW o \in Orders, NEW q \in Nat,
           recorded' = [recorded EXCEPT ![o] = q], recorded[o] <= q, q <= bfilled[o],
           PhaseOf(intent[o]) = "exposed"
    PROVE  LedgerStep
<1> DEFINE phase == [i \in Orders |-> PhaseOf(intent[i])]
<1>1. phase' = phase /\ phase[o] = "exposed"
  OBVIOUS
<1>2. recorded[o] \in Nat /\ bfilled[o] \in Nat
  BY QtyAssumption DEF OrderInv, TypeInv, TypeOK
<1>3. CASE recorded[o] = q
  <2>1. recorded' = recorded
    BY <1>3 DEF OrderInv, TypeInv, TypeOK
  <2> QED
    BY <2>1, QuietLedger
<1>4. CASE recorded[o] # q
  <2>1. q \in (recorded[o] + 1)..bfilled[o]
    BY <1>2, <1>4
  <2>2. Ledger!Count(o)
    BY <1>1, <2>1 DEF Ledger!Count
  <2> QED
    BY <2>2 DEF LedgerStep, Ledger!Next
<1> QED
  BY <1>3, <1>4

LEMMA ManagerKeepsLedger ==
    ASSUME Prior = {}, LedgerInv, FillInv', SettleInv', [Next]_vars
    PROVE  LedgerStep
<1> USE DEF Labels
<1>1. OrderInv /\ ClosedIsSettled'
  BY DEF LedgerInv, SettleInv
<1>2. ASSUME NEW p \in Procs,
             BeginExecute(p) \/ BeginSync(p) \/ BeginRecover(p) \/ PickOrder(p) \/ Return(p)
             \/ Abandon(p) \/ Transmit(p) \/ TakeAnswer(p) \/ TimeOut(p) \/ Reread(p)
             \/ LookupFails(p) \/ LookupFinds(p) \/ LookupMisses(p) \/ ReadTotals(p) \/ KeepState(p)
      PROVE  LedgerStep
  BY <1>2, QuietLedger
  DEF BeginExecute, BeginSync, BeginRecover, Begin, PickOrder, Return, Abandon, Transmit, TakeAnswer,
      TimeOut, Reread, LookupFails, LookupFinds, LookupMisses, ReadTotals, KeepState
<1>3. ASSUME NEW p \in Procs, CreateIntent(p) PROVE LedgerStep
  <2>1. cur[p] \in Orders
    BY <1>3 DEF CreateIntent, LedgerInv, OrderInv, TypeInv, ControlOK, AtRest
  <2> QED
    BY <1>1, <1>3, <2>1, QuietLedger, LedgerMoves DEF CreateIntent, OrderState
<1>4. ASSUME NEW p \in Procs, NEW label \in Labels \ (AtRest \cup {"create"}), NEW target \in OrderState,
             NEW then, Transition(p, label, target, then)
      PROVE  LedgerStep
  <2>1. cur[p] \in Orders /\ intent[cur[p]] \in OrderState
    BY <1>1, <1>4 DEF Transition, OrderInv, TypeInv, TypeOK, ControlOK
  <2> QED
    BY <1>1, <1>4, <2>1, QuietLedger, LedgerMoves DEF Transition
<1>5. ASSUME NEW p \in Procs,
             Validate(p) \/ MarkSubmitted(p) \/ MarkUnknown(p) \/ MarkMissing(p)
             \/ MarkCancelled(p) \/ MarkRejected(p)
      PROVE  LedgerStep
  BY <1>4, <1>5 DEF Validate, MarkSubmitted, MarkUnknown, MarkMissing, MarkCancelled, MarkRejected,
     AtRest, OrderState
<1>6. ASSUME NEW p \in Procs, AdoptState(p) PROVE LedgerStep
  <2>1. AdoptedState(p) \in OrderState
    BY <1>1, <1>6, AdoptedStateType DEF OrderInv
  <2> QED
    BY <1>4, <1>6, <2>1 DEF AdoptState, AtRest
<1>7. ASSUME NEW p \in Procs, InsertExecution(p) PROVE LedgerStep
  <2>1. /\ cur[p] \in Orders /\ bstate[cur[p]] # "none"
        /\ intent[cur[p]] \notin TerminalStates
    BY <1>1, <1>7 DEF InsertExecution, OrderInv, TypeInv, ControlOK, SettleInv, PhaseInv, Held, AtRest, Adopting
  <2>2. PhaseOf(intent[cur[p]]) = "exposed"
    BY <2>1, LiveIsExposed
  <2>3. /\ recorded[cur[p]] \in Nat /\ fresh[p] \in Nat
        /\ UNCHANGED <<intent, bfilled>>
    BY <1>1, <1>7, <2>1, QtyAssumption DEF InsertExecution, OrderInv, TypeInv, TypeOK
  <2> DEFINE total == IF snap[p].filled \in execs[cur[p]] THEN recorded[cur[p]]
                      ELSE recorded[cur[p]] + fresh[p]
  <2>4. recorded' = [recorded EXCEPT ![cur[p]] = total]
    BY <1>7 DEF InsertExecution
  <2>5. total \in Nat /\ recorded[cur[p]] <= total
    BY <2>3
  <2>6. recorded'[cur[p]] = total
    BY <1>1, <2>1, <2>4 DEF OrderInv, TypeInv, TypeOK
  <2>7. total <= bfilled[cur[p]]
    BY <2>1, <2>3, <2>6 DEF FillInv, NoPhantomFills
  <2> HIDE DEF total
  <2> QED
    BY <1>1, <2>1, <2>2, <2>3, <2>4, <2>5, <2>7, LedgerCounts
<1>8. ASSUME NEW o \in Orders, Accept(o) PROVE LedgerStep
  <2>1. PICK s \in Accepted : Handle(o, s) /\ bfilled' = [bfilled EXCEPT ![o] = s.filled]
    BY <1>8 DEF Accept
  <2>2. s.filled \in 0..Qty /\ bfilled[o] = 0 /\ bstate[o] = "none" /\ o \in wire
    BY <1>1, <1>8, <2>1 DEF Accept, Accepted, Snapshot, Handle, OrderInv, FillInv
  <2>3. PhaseOf(intent[o]) = "exposed"
    BY <1>1, <2>2, LiveIsExposed DEF OrderInv, SettleInv, ClosedIsSettled
  <2>4. bfilled[o] <= s.filled /\ UNCHANGED <<intent, recorded>>
    BY <2>1, <2>2, QtyAssumption DEF Handle
  <2> QED
    BY <1>1, <2>1, <2>2, <2>3, <2>4, LedgerFills
<1>9. ASSUME NEW o \in Orders, Refuse(o) \/ RefuseDuplicate(o) \/ Lose(o) PROVE LedgerStep
  BY <1>9, QuietLedger DEF Refuse, RefuseDuplicate, Lose, Handle
<1>10. ASSUME NEW o \in Orders, Market(o) PROVE LedgerStep
  <2>1. PICK s \in BrokerState, f \in 0..Qty : BrokerMoves(o, s, f) /\ bfilled[o] <= f /\ Open(o)
    BY <1>1, <1>10, QtyAssumption DEF Market, Acknowledge, Fill, Hold, Expire, RejectLater, Open,
       BrokerState, BrokerOutcomes, OrderInv, TypeInv, TypeOK, BrokerOK
  <2>2. PhaseOf(intent[o]) = "exposed"
    BY <1>1, <2>1, LiveIsExposed DEF Open, OrderInv, SettleInv, ClosedIsSettled
  <2> QED
    BY <1>1, <2>1, <2>2, LedgerFills DEF BrokerMoves
<1>11. CASE SwitchGuard \/ UNCHANGED vars
  BY <1>11, QuietLedger DEF SwitchGuard, vars
<1> QED
  BY <1>2, <1>3, <1>5, <1>6, <1>7, <1>8, <1>9, <1>10, <1>11 DEF Next, Start, Work, Mishap, Network

\* The order manager, run by one process on a database that knows every order it
\* sent, implements the order ledger: an order fills only while its intent says it
\* may, nothing is counted that was not filled, and it is closed when all is counted.
THEOREM LedgerIsKept == OneProcess /\ ~LateArrivals /\ Prior = {} => (Spec => ImplementsLedger)
<1> SUFFICES ASSUME OneProcess, ~LateArrivals, Prior = {} PROVE Spec => ImplementsLedger
  OBVIOUS
<1>1. Init => Ledger!Init
  <2> SUFFICES ASSUME Init PROVE Ledger!Init
    OBVIOUS
  <2>1. bfilled = [o \in Orders |-> 0]
    BY DEF Init, NoSnapshot
  <2> QED
    BY <2>1, Terminals DEF Init, Ledger!Init, PhaseOf, NotTransmitted
<1>2. TypeInv /\ FillInv /\ SettleInv /\ [Next]_vars => SettleInv'
  BY SettleStep DEF OrderInv
<1>3. TypeInv /\ FillInv /\ [Next]_vars => FillInv'
  BY FillStep
<1>4. TypeInv /\ FillInv /\ SettleInv /\ SendInv /\ FillInv' /\ SettleInv' /\ [Next]_vars
      => [Ledger!Next]_(Ledger!ledger)
  BY ManagerKeepsLedger DEF LedgerInv, OrderInv, LedgerStep
<1> QED
  BY <1>1, <1>2, <1>3, <1>4, TypeInit, TypeStep, SendInit, SendStep, FillInit, SettleInit, PTL
  DEF Spec, ImplementsLedger, Ledger!Spec
==============================================================================
