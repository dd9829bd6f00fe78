---------------------------- MODULE OrderManager ----------------------------
(***************************************************************************)
(* The order manager of trading/orders/manager.py with the two parties it  *)
(* sits between: the order tables of the audit database                    *)
(* (persistence/repositories.py, OrderRepository) and a broker reached     *)
(* over a network that may lose or delay a request and its answer.         *)
(*                                                                         *)
(* Each process of Procs runs one operation of the manager at a time:      *)
(* execute (transmit a plan's orders one after another), sync (adopt what  *)
(* the broker reports of working orders) or recover (resolve every         *)
(* non-terminal intent).  A step of a process is one database transaction  *)
(* or one broker call, the units between which a process can die, another  *)
(* process can run and the broker can move.                                *)
(***************************************************************************)
EXTENDS OrderStates, Naturals, FiniteSets

CONSTANTS
    Orders,       \* client order ids
    Procs,        \* processes that run an order manager
    Qty,          \* quantity of every order, in lots
    Prior,        \* orders the broker may already have although the database
                  \* has no intent for them: the database was restored from a
                  \* backup older than their submission
    LateArrivals, \* whether a request the caller gave up on may still be on
                  \* its way when recovery runs
    NoOrder       \* not an order

ASSUME QtyAssumption     == Qty \in Nat \ {0}
ASSUME PriorAssumption   == Prior \subseteq Orders
ASSUME NoOrderAssumption == NoOrder \notin Orders
ASSUME LateAssumption    == LateArrivals \in BOOLEAN

VARIABLES
    \* the audit database
    intent,    \* state of the order intent, or "none"
    recorded,  \* execution_totals: quantity recorded for the order
    execs,     \* broker_execution_ids of the recorded executions, each named
               \* by the cumulative quantity it was reported with
    \* the broker and the wire
    bstate,    \* the broker's order, as STATUS_MAP reports it, or "none"
    bfilled,   \* the quantity the broker has filled
    wire,      \* submissions that have left a process and not been handled
    \* what the transmit guard reads
    allowed,   \* whether it lets an order through
    \* the processes
    pc, op,
    todo,      \* what the operation still has to handle: <<order, state read>>
    cur,       \* the order in hand
    known,     \* its state, as the process believes it to be
    snap,      \* the broker's answer: [state, filled]
    fresh,     \* filled quantity not yet recorded (_record_fills)
    \* history
    sent,      \* how often the order was transmitted
    late       \* transmissions since the guard last closed

db      == <<intent, recorded, execs>>
broker  == <<bstate, bfilled>>
proc    == <<pc, op, todo, cur, known, snap, fresh>>
history == <<sent, late>>
vars    == <<db, broker, wire, allowed, proc, history>>

Labels ==
    {"idle", "next", "create", "validate", "submit", "transmit", "await",
     "reject", "unknown", "reread", "lookup", "totals", "insert", "update",
     "missing", "cancel"}

BrokerState == BrokerOutcomes \cup {"submitted"}
Snapshot    == [state : BrokerState, filled : 0..Qty]
NoSnapshot  == [state |-> "none", filled |-> 0]
Duplicate   == [state |-> "duplicate", filled |-> 0]
Refused     == [state |-> "refused", filled |-> 0]
Answer      == Snapshot \cup {NoSnapshot, Duplicate, Refused}

TypeOK ==
    /\ intent   \in [Orders -> OrderState \cup {"none"}]
    /\ recorded \in [Orders -> Nat]
    /\ execs    \in [Orders -> SUBSET (1..Qty)]
    /\ bstate   \in [Orders -> BrokerState \cup {"none"}]
    /\ bfilled  \in [Orders -> 0..Qty]
    /\ wire     \subseteq Orders
    /\ allowed  \in BOOLEAN
    /\ pc       \in [Procs -> Labels]
    /\ op       \in [Procs -> {"none", "execute", "sync", "recover"}]
    /\ todo     \in [Procs -> SUBSET (Orders \X (OrderState \cup {"none"}))]
    /\ cur      \in [Procs -> Orders \cup {NoOrder}]
    /\ known    \in [Procs -> OrderState \cup {"none"}]
    /\ snap     \in [Procs -> Answer]
    /\ fresh    \in [Procs -> 0..Qty]
    /\ sent     \in [Orders -> Nat]
    /\ late     \in Nat

Init ==
    /\ intent   = [o \in Orders |-> "none"]
    /\ recorded = [o \in Orders |-> 0]
    /\ execs    = [o \in Orders |-> {}]
    /\ \E b \in [Orders -> Snapshot \cup {NoSnapshot}] :
         /\ \A o \in Orders \ Prior : b[o] = NoSnapshot
         /\ \A o \in Prior :
              /\ b[o].state \in {"none", "acknowledged", "filled", "cancelled"}
              /\ b[o].filled = IF b[o].state = "filled" THEN Qty ELSE 0
         /\ bstate  = [o \in Orders |-> b[o].state]
         /\ bfilled = [o \in Orders |-> b[o].filled]
    /\ wire     = {}
    /\ allowed  = TRUE
    /\ pc       = [p \in Procs |-> "idle"]
    /\ op       = [p \in Procs |-> "none"]
    /\ todo     = [p \in Procs |-> {}]
    /\ cur      = [p \in Procs |-> NoOrder]
    /\ known    = [p \in Procs |-> "none"]
    /\ snap     = [p \in Procs |-> NoSnapshot]
    /\ fresh    = [p \in Procs |-> 0]
    /\ sent     = [o \in Orders |-> 0]
    /\ late     = 0

-----------------------------------------------------------------------------
(***************************************************************************)
(* Control of a process.                                                   *)
(***************************************************************************)
Goto(p, label) == pc' = [pc EXCEPT ![p] = label]

\* The operation ends: it returned, raised, or the process died.
Leave(p) ==
    /\ Goto(p, "idle")
    /\ op'    = [op    EXCEPT ![p] = "none"]
    /\ todo'  = [todo  EXCEPT ![p] = {}]
    /\ cur'   = [cur   EXCEPT ![p] = NoOrder]
    /\ known' = [known EXCEPT ![p] = "none"]
    /\ snap'  = [snap  EXCEPT ![p] = NoSnapshot]
    /\ fresh' = [fresh EXCEPT ![p] = 0]

\* The order in hand is done with; go on with the rest of the operation.
Continue(p) ==
    /\ Goto(p, "next")
    /\ cur'   = [cur   EXCEPT ![p] = NoOrder]
    /\ known' = [known EXCEPT ![p] = "none"]
    /\ snap'  = [snap  EXCEPT ![p] = NoSnapshot]
    /\ fresh' = [fresh EXCEPT ![p] = 0]
    /\ UNCHANGED <<op, todo>>

Begin(p, operation, work) ==
    /\ pc[p] = "idle"
    /\ Goto(p, "next")
    /\ op'   = [op   EXCEPT ![p] = operation]
    /\ todo' = [todo EXCEPT ![p] = work]
    /\ UNCHANGED <<db, broker, wire, allowed, cur, known, snap, fresh, history>>

Listed(states) ==
    {<<o, intent[o]>> : o \in {i \in Orders : intent[i] \in states}}

\* execute(plan): the planner took the ids of the plan from sequences no
\* intent had used when it planned.
BeginExecute(p) ==
    \E plan \in SUBSET {o \in Orders : intent[o] = "none"} :
        plan # {} /\ Begin(p, "execute", {<<o, "none">> : o \in plan})

BeginSync(p) == Begin(p, "sync", Listed(Working))

\* Mutant: recovery forgets the orders whose submission timed out.
BeginRecover_forgetsUnknown(p) ==
    /\ LateArrivals \/ wire = {}
    /\ Begin(p, "recover", Listed((NotTransmitted \cup Working) \ {"unknown"}))

\* Recovery runs in the reconciliation step, minutes after the last
\* submission: unless LateArrivals, nothing is on the wire by then.
BeginRecover(p) ==
    /\ LateArrivals \/ wire = {}
    /\ Begin(p, "recover", Listed(NotTransmitted \cup Working))

\* Mutant: the guard is asked once, not before every order.
PickOrder_unguarded(p) ==
    /\ pc[p] = "next"
    /\ \E w \in todo[p] :
         /\ cur'   = [cur   EXCEPT ![p] = w[1]]
         /\ known' = [known EXCEPT ![p] = w[2]]
         /\ todo'  = [todo  EXCEPT ![p] = @ \ {w}]
    /\ Goto(p, IF op[p] = "execute" THEN "create" ELSE "lookup")
    /\ UNCHANGED <<db, broker, wire, allowed, op, snap, fresh, history>>

\* The head of the loop over the orders.  The transmit guard is asked before
\* every order of execute.
PickOrder(p) ==
    /\ pc[p] = "next"
    /\ op[p] = "execute" => allowed
    /\ \E w \in todo[p] :
         /\ cur'   = [cur   EXCEPT ![p] = w[1]]
         /\ known' = [known EXCEPT ![p] = w[2]]
         /\ todo'  = [todo  EXCEPT ![p] = @ \ {w}]
    /\ Goto(p, IF op[p] = "execute" THEN "create" ELSE "lookup")
    /\ UNCHANGED <<db, broker, wire, allowed, op, snap, fresh, history>>

Return(p) ==
    /\ pc[p] = "next"
    /\ todo[p] = {} \/ (op[p] = "execute" /\ ~allowed)
    /\ Leave(p)
    /\ UNCHANGED <<db, broker, wire, allowed, history>>

\* A crash, a lost database connection or an unexpected error between two
\* steps: the operation is abandoned, what it committed stays.
Abandon(p) ==
    /\ pc[p] # "idle"
    /\ Leave(p)
    /\ UNCHANGED <<db, broker, wire, allowed, history>>

-----------------------------------------------------------------------------
(***************************************************************************)
(* Transactions on the intent.                                             *)
(***************************************************************************)
Proceed(p, then) ==
    IF then = "next"
    THEN Continue(p)
    ELSE Goto(p, then) /\ UNCHANGED <<op, todo, cur, known, snap, fresh>>

\* create_intent(): the primary key refuses an id that has an intent.
CreateIntent(p) ==
    /\ pc[p] = "create"
    /\ \/ /\ intent[cur[p]] = "none"
          /\ intent' = [intent EXCEPT ![cur[p]] = "created"]
          /\ Proceed(p, "validate")
       \/ /\ intent[cur[p]] # "none"
          /\ Leave(p)
          /\ UNCHANGED intent
    /\ UNCHANGED <<recorded, execs, broker, wire, allowed, history>>

\* transition(): the row is locked and the guard sees its current state; a
\* move the guard does not allow raises, which ends the operation.
Transition(p, label, target, then) ==
    /\ pc[p] = label
    /\ \/ /\ CanTransition(intent[cur[p]], target)
          /\ intent' = [intent EXCEPT ![cur[p]] = target]
          /\ Proceed(p, then)
       \/ /\ ~CanTransition(intent[cur[p]], target)
          /\ Leave(p)
          /\ UNCHANGED intent
    /\ UNCHANGED <<recorded, execs, broker, wire, allowed, history>>

\* Mutant: the broker is called before SUBMITTED is stored.
Validate_sendsFirst(p) == Transition(p, "validate", "validated", "transmit")

Validate(p)      == Transition(p, "validate", "validated", "submit")
MarkSubmitted(p) == Transition(p, "submit", "submitted", "transmit")
MarkUnknown(p)   == Transition(p, "unknown", "unknown", "reread")
MarkMissing(p)   == Transition(p, "missing", "unknown", "cancel")
MarkCancelled(p) == Transition(p, "cancel", "cancelled", "next")
MarkRejected(p)  == Transition(p, "reject", "rejected", "next")

-----------------------------------------------------------------------------
(***************************************************************************)
(* The broker call and its three answers.                                  *)
(***************************************************************************)
Transmit(p) ==
    /\ pc[p] = "transmit"
    /\ wire' = wire \cup {cur[p]}
    /\ sent' = [sent EXCEPT ![cur[p]] = @ + 1]
    /\ late' = IF allowed THEN late ELSE late + 1
    /\ Proceed(p, "await")
    /\ UNCHANGED <<db, broker, allowed>>

\* The caller's side of the answer: adopt it, look the original up, or stop.
TakeAnswer(p) ==
    /\ pc[p] = "await"
    /\ \/ /\ snap[p] \in Snapshot
          /\ Goto(p, "totals")
          /\ known' = [known EXCEPT ![p] = "submitted"]
          /\ UNCHANGED <<op, todo, cur, snap, fresh>>
       \/ snap[p] = Duplicate /\ Proceed(p, "reread")
       \/ snap[p] = Refused   /\ Proceed(p, "reject")
    /\ UNCHANGED <<db, broker, wire, allowed, history>>

\* Mutant: a timed-out submission is retried.
TimeOut_retries(p) ==
    /\ pc[p] = "await"
    /\ Proceed(p, "transmit")
    /\ UNCHANGED <<db, broker, wire, allowed, history>>

\* A timeout, a transport error or an unexpected status: whether the broker
\* has the order is not known.  The request may still be on the wire.
TimeOut(p) ==
    /\ pc[p] = "await"
    /\ Goto(p, "unknown")
    /\ snap' = [snap EXCEPT ![p] = NoSnapshot]
    /\ UNCHANGED <<db, broker, wire, allowed, op, todo, cur, known, fresh, history>>

\* _investigate() re-reads the state before it asks the broker.
Reread(p) ==
    /\ pc[p] = "reread"
    /\ known' = [known EXCEPT ![p] = intent[cur[p]]]
    /\ Goto(p, "lookup")
    /\ UNCHANGED <<db, broker, wire, allowed, op, todo, cur, snap, fresh, history>>

LookupFails(p) ==
    /\ pc[p] = "lookup"
    /\ Continue(p)
    /\ UNCHANGED <<db, broker, wire, allowed, history>>

LookupFinds(p) ==
    /\ pc[p] = "lookup"
    /\ bstate[cur[p]] # "none"
    /\ snap' = [snap EXCEPT ![p] = [state  |-> bstate[cur[p]],
                                    filled |-> bfilled[cur[p]]]]
    /\ Goto(p, "totals")
    /\ UNCHANGED <<db, broker, wire, allowed, op, todo, cur, known, fresh, history>>

\* Mutant: sync, too, cancels what the broker does not show.
LookupMisses_concludes(p) ==
    /\ pc[p] = "lookup"
    /\ bstate[cur[p]] = "none"
    /\ Proceed(p, IF known[p] = "unknown" THEN "cancel" ELSE "missing")
    /\ UNCHANGED <<db, broker, wire, allowed, history>>

\* The broker has no such order.  Only recovery draws a conclusion.
LookupMisses(p) ==
    /\ pc[p] = "lookup"
    /\ bstate[cur[p]] = "none"
    /\ Proceed(p, CASE op[p] # "recover"                    -> "next"
                    [] op[p] = "recover" /\ known[p] = "created" -> "reject"
                    [] op[p] = "recover" /\ known[p] \in {"validated", "unknown"} -> "cancel"
                    [] OTHER                                -> "missing")
    /\ UNCHANGED <<db, broker, wire, allowed, history>>

-----------------------------------------------------------------------------
(***************************************************************************)
(* _adopt(): record the fills first, then the state.                       *)
(***************************************************************************)

\* Mutant: the cumulative quantity is recorded as if it were new.
ReadTotals_cumulative(p) ==
    /\ pc[p] = "totals"
    /\ fresh' = [fresh EXCEPT ![p] = snap[p].filled]
    /\ Goto(p, IF snap[p].filled > 0 THEN "insert" ELSE "update")
    /\ UNCHANGED <<db, broker, wire, allowed, op, todo, cur, known, snap, history>>

\* Mutant: fills of an order that is over are not recorded.
ReadTotals_skipsFinal(p) ==
    /\ pc[p] = "totals"
    /\ UNCHANGED fresh
    /\ Goto(p, "update")
    /\ UNCHANGED <<db, broker, wire, allowed, op, todo, cur, known, snap, history>>

ReadTotals(p) ==
    LET unrecorded == IF snap[p].filled > recorded[cur[p]]
                      THEN snap[p].filled - recorded[cur[p]]
                      ELSE 0
    IN  /\ pc[p] = "totals"
        /\ fresh' = [fresh EXCEPT ![p] = unrecorded]
        /\ Goto(p, IF unrecorded > 0 THEN "insert" ELSE "update")
        /\ UNCHANGED <<db, broker, wire, allowed, op, todo, cur, known, snap, history>>

\* record_execution(): a second report with the same broker_execution_id
\* changes nothing.
InsertExecution(p) ==
    LET o == cur[p] IN
    /\ pc[p] = "insert"
    /\ recorded' = [recorded EXCEPT ![o] =
                       IF snap[p].filled \in execs[o] THEN @ ELSE @ + fresh[p]]
    /\ execs'    = [execs EXCEPT ![o] = @ \cup {snap[p].filled}]
    /\ Proceed(p, "update")
    /\ UNCHANGED <<intent, broker, wire, allowed, history>>

\* "pending_new" at the broker never moves an order back to SUBMITTED.
AdoptedState(p) ==
    IF snap[p].state = "submitted" /\ known[p] # "submitted"
    THEN IF known[p] = "unknown" THEN "acknowledged" ELSE known[p]
    ELSE snap[p].state

NeedsUpdate(p) ==
    /\ known[p] \notin TerminalStates
    /\ \/ AdoptedState(p) # known[p]
       \/ AdoptedState(p) = "partially_filled" /\ fresh[p] > 0

AdoptState(p) ==
    /\ NeedsUpdate(p)
    /\ Transition(p, "update", AdoptedState(p), "next")

KeepState(p) ==
    /\ pc[p] = "update"
    /\ ~NeedsUpdate(p)
    /\ Continue(p)
    /\ UNCHANGED <<db, broker, wire, allowed, history>>

-----------------------------------------------------------------------------
(***************************************************************************)
(* The broker.  A request is handled at most once; its answer reaches the  *)
(* process that still waits for it.                                        *)
(***************************************************************************)
Handle(o, answer) ==
    /\ o \in wire
    /\ wire' = wire \ {o}
    /\ snap' = [p \in Procs |-> IF pc[p] = "await" /\ cur[p] = o
                                THEN answer ELSE snap[p]]
    /\ UNCHANGED <<db, allowed, pc, op, todo, cur, known, fresh, history>>

\* What an accepted order can look like when the answer is written: market
\* orders may be filled, wholly or in part, at once.
Accepted ==
    {s \in Snapshot : \/ s.state \in {"submitted", "acknowledged"} /\ s.filled = 0
                      \/ s.state = "partially_filled" /\ s.filled \in 1..(Qty - 1)
                      \/ s.state = "filled" /\ s.filled = Qty}

Accept(o) ==
    /\ bstate[o] = "none"
    /\ \E s \in Accepted :
         /\ Handle(o, s)
         /\ bstate'  = [bstate  EXCEPT ![o] = s.state]
         /\ bfilled' = [bfilled EXCEPT ![o] = s.filled]

Refuse(o) ==
    /\ bstate[o] = "none"
    /\ Handle(o, Refused)
    /\ UNCHANGED broker

RefuseDuplicate(o) ==
    /\ bstate[o] # "none"
    /\ Handle(o, Duplicate)
    /\ UNCHANGED broker

\* The request is lost on its way.
Lose(o) ==
    /\ o \in wire
    /\ wire' = wire \ {o}
    /\ UNCHANGED <<db, broker, allowed, proc, history>>

Open(o) == bstate[o] \in {"submitted", "acknowledged", "partially_filled"}

BrokerMoves(o, state, filled) ==
    /\ bstate'  = [bstate  EXCEPT ![o] = state]
    /\ bfilled' = [bfilled EXCEPT ![o] = filled]
    /\ UNCHANGED <<db, wire, allowed, proc, history>>

Acknowledge(o) ==
    bstate[o] = "submitted" /\ BrokerMoves(o, "acknowledged", bfilled[o])

Fill(o) ==
    /\ Open(o)
    /\ BrokerMoves(o, IF bfilled[o] + 1 = Qty THEN "filled" ELSE "partially_filled",
                   bfilled[o] + 1)

\* pending_cancel, done_for_day, stopped, suspended: reported as ACKNOWLEDGED
\* whatever is filled.
Hold(o) ==
    bstate[o] = "partially_filled" /\ BrokerMoves(o, "acknowledged", bfilled[o])

\* Cancelled or expired at the broker; DAY orders end with the session.
Expire(o) == Open(o) /\ BrokerMoves(o, "cancelled", bfilled[o])

RejectLater(o) ==
    /\ bstate[o] \in {"submitted", "acknowledged"} /\ bfilled[o] = 0
    /\ BrokerMoves(o, "rejected", 0)

\* The operator stops or restarts automation, or switches the mode.
SwitchGuard ==
    /\ allowed' = ~allowed
    /\ late' = 0
    /\ UNCHANGED <<db, broker, wire, proc, sent>>

-----------------------------------------------------------------------------
Work(p) ==
    \/ PickOrder(p) \/ Return(p)
    \/ CreateIntent(p) \/ Validate(p) \/ MarkSubmitted(p) \/ Transmit(p)
    \/ TakeAnswer(p) \/ MarkUnknown(p) \/ Reread(p)
    \/ LookupFinds(p) \/ LookupMisses(p)
    \/ MarkMissing(p) \/ MarkCancelled(p) \/ MarkRejected(p)
    \/ ReadTotals(p) \/ InsertExecution(p) \/ AdoptState(p) \/ KeepState(p)

Start(p)  == BeginExecute(p) \/ BeginSync(p) \/ BeginRecover(p)
Mishap(p) == LookupFails(p) \/ Abandon(p)

Network(o) == Accept(o) \/ Refuse(o) \/ RefuseDuplicate(o) \/ Lose(o)
Market(o)  == Acknowledge(o) \/ Fill(o) \/ Hold(o) \/ Expire(o) \/ RejectLater(o)

Next ==
    \/ \E p \in Procs  : Start(p) \/ Work(p) \/ TimeOut(p) \/ Mishap(p)
    \/ \E o \in Orders : Network(o) \/ Market(o)
    \/ SwitchGuard

Spec == Init /\ [][Next]_vars

-----------------------------------------------------------------------------
(***************************************************************************)
(* Properties.                                                             *)
(***************************************************************************)
\* The order may exist outside the database: its intent has passed SUBMITTED.
Exposed(o) == intent[o] \notin NotTransmitted \cup {"none"}

\* No order is handed to the network twice, whatever times out, crashes, is
\* planned again or runs beside: "the order is never resubmitted"
\* (manager.py:14-15).  Holds for any number of processes.
NeverRetransmitted == \A o \in Orders : sent[o] <= 1

\* SUBMITTED is durable before the broker call, so "the database never
\* under-reports what may exist at the broker" (manager.py:7-8): an order on
\* the wire or at the broker has an intent that says it may be there.
NeverUnderReports ==
    \A o \in Orders :
        o \in wire \/ (bstate[o] # "none" /\ o \notin Prior) => Exposed(o)

\* The executions recorded for an order never add up to more than the broker
\* has filled, although fills are reported cumulatively, repeatedly and late
\* (_record_fills, record_execution).
NoPhantomFills == \A o \in Orders : recorded[o] <= bfilled[o]

\* Sync and recovery never look at a terminal intent again, so closing it is
\* only right when the broker is done with the order, no request that could
\* still create it is under way, and every lot the broker filled has been
\* recorded.
ClosedIsSettled ==
    \A o \in Orders :
        intent[o] \in TerminalStates =>
            /\ ~Open(o)
            /\ o \in wire => bstate[o] # "none"
            /\ recorded[o] = bfilled[o]

\* Closing the transmit guard stops a running execute before its next order:
\* a process lets at most one more order out, the one it had already asked for
\* (manager.py:25-29).
StopTakesHold == late <= Cardinality(Procs)

\* A state adopted from the broker is one the lifecycle allows next: one refused
\* move raises and ends sync, with the other working orders not looked at,
\* where sync promises to "adopt broker state for every working order"
\* (manager.py:182).
AdoptionIsLegal ==
    \A p \in Procs :
        pc[p] = "update" /\ NeedsUpdate(p) => CanTransition(intent[cur[p]], AdoptedState(p))
==============================================================================
