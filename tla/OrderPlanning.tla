---------------------------- MODULE OrderPlanning ----------------------------
(***************************************************************************)
(* The order submission step for one symbol: the planner of                *)
(* trading/orders/planner.py fed by _plan() of trading/scheduler/cycle.py, *)
(* run for the sells and again for the buys, and run again from the start  *)
(* when the process died inside the step.                                  *)
(*                                                                         *)
(* The planner's inputs are three calls one after another: the broker's    *)
(* positions, the broker's open orders, our own non-terminal intents.      *)
(* Between them the broker goes on filling orders and requests still under *)
(* way arrive.  What the order manager does with one order is              *)
(* OrderManager.tla; here an intent is only open (created to partially     *)
(* filled), unknown or closed.                                             *)
(***************************************************************************)
EXTENDS Integers, FiniteSets

CONSTANTS
    MaxLots,     \* bound on targets and positions, in lots
    MaxOrder,    \* risk.max_order_notional, in lots
    MaxSequence  \* bound on the orders of one side

ASSUME LotsAssumption  == MaxLots \in Nat /\ MaxOrder \in Nat \ {0}
ASSUME SequenceAssumption == MaxSequence \in Nat \ {0}

Sides == {"sell", "buy"}
Ids   == Sides \X (0..(MaxSequence - 1))
NoId  == <<"none", 0>>

VARIABLES
    target,     \* quantity the stored target portfolio asks for
    start,      \* position when the session began
    \* the audit database
    intent,     \* "none", "open", "unknown" or "closed"
    done,       \* the step has an outcome: it is not run again
    \* the broker and the wire
    position, bstate, quantity, filled, wire,
    \* the process
    pc, side,
    seenPosition, seenOpen, seenPending,
    cur,        \* the order being sent
    \* history
    slip,       \* lots of open orders filled since the positions were read
    raced       \* the same, summed over the plans that sent an order

db      == <<intent, done>>
broker  == <<position, bstate, filled>>
seen    == <<seenPosition, seenOpen, seenPending>>
history == <<slip, raced>>
vars    == <<target, start, db, broker, quantity, wire, pc, side, seen, cur, history>>

TypeOK ==
    /\ target \in 0..MaxLots /\ start \in 0..MaxLots /\ position \in Nat
    /\ intent   \in [Ids -> {"none", "open", "unknown", "closed"}]
    /\ done     \in BOOLEAN
    /\ bstate   \in [Ids -> {"none", "open", "closed"}]
    /\ quantity \in [Ids -> 0..MaxOrder]
    /\ filled   \in [Ids -> 0..MaxOrder] /\ \A i \in Ids : filled[i] <= quantity[i]
    /\ wire     \subseteq Ids
    /\ pc       \in {"idle", "sync", "positions", "orders", "plan", "create",
                     "transmit", "await", "ended"}
    /\ side     \in Sides
    /\ seenPosition \in Nat /\ seenOpen \subseteq Ids /\ seenPending \in Int
    /\ cur      \in Ids \cup {NoId}
    /\ slip     \in Nat /\ raced \in Nat

Init ==
    /\ target \in 0..MaxLots /\ start \in 0..MaxLots
    /\ position = start
    /\ intent = [i \in Ids |-> "none"] /\ done = FALSE
    /\ bstate = [i \in Ids |-> "none"]
    /\ quantity = [i \in Ids |-> 0] /\ filled = [i \in Ids |-> 0]
    /\ wire = {}
    /\ pc = "idle" /\ side = "sell"
    /\ seenPosition = 0 /\ seenOpen = {} /\ seenPending = 0 /\ cur = NoId
    /\ slip = 0 /\ raced = 0

Remaining      == [i \in Ids |-> quantity[i] - filled[i]]
OpenAtBroker   == {i \in Ids : bstate[i] = "open"}
On(s, S)       == {i \in S : i[1] = s}

\* The sum of the remainders of the orders in S: the lots of an order fill from
\* the first to the last, those above the filled quantity are left.
LotsLeft(f, q, S) ==
    {lot \in S \X (1..MaxOrder) : f[lot[1]] < lot[2] /\ lot[2] <= q[lot[1]]}
Left(S) == Cardinality(LotsLeft(filled, quantity, S))

-----------------------------------------------------------------------------
(***************************************************************************)
(* The step: sells, then a sync, then buys.                                *)
(***************************************************************************)
Rest ==
    /\ side' = "sell" /\ cur' = NoId
    /\ seenPosition' = 0 /\ seenOpen' = {} /\ seenPending' = 0 /\ slip' = 0

\* Due and without an outcome: the first run, or the one after a restart.
Begin ==
    /\ pc = "idle" /\ ~done
    /\ pc' = "positions"
    /\ UNCHANGED <<target, start, db, broker, quantity, wire, side, seen, cur, history>>

Crash ==
    /\ pc # "idle"
    /\ pc' = "idle" /\ Rest
    /\ UNCHANGED <<target, start, db, broker, quantity, wire, raced>>

\* The outcome is stored.
End ==
    /\ pc = "ended"
    /\ done' = TRUE
    /\ pc' = "idle" /\ Rest
    /\ UNCHANGED <<target, start, intent, broker, quantity, wire, raced>>

\* What a look at the broker makes of an intent; an order it does not have, and
\* one whose lookup fails, stay as they are.
Adopted(i) ==
    {intent[i]} \cup (IF bstate[i] = "none" THEN {} ELSE {bstate[i]})

\* sync(): each open or unknown intent is looked up.
Sync ==
    /\ pc = "sync"
    /\ intent' \in [Ids -> {"none", "open", "unknown", "closed"}]
    /\ \A i \in Ids : intent'[i] \in IF intent[i] \in {"open", "unknown"}
                                     THEN Adopted(i) ELSE {intent[i]}
    /\ pc' = "positions"
    /\ UNCHANGED <<target, start, done, broker, quantity, wire, side, seen, cur, history>>

ReadPositions ==
    /\ pc = "positions"
    /\ seenPosition' = position
    /\ slip' = 0
    /\ pc' = "orders"
    /\ UNCHANGED <<target, start, db, broker, quantity, wire, side, seenOpen, seenPending,
                   cur, raced>>

\* The remainders of the open orders, whoever sent them.
ReadOpenOrders ==
    /\ pc = "orders"
    /\ seenOpen'    = OpenAtBroker
    /\ seenPending' = Left(On("buy", OpenAtBroker)) - Left(On("sell", OpenAtBroker))
    /\ pc' = "plan"
    /\ UNCHANGED <<target, start, db, broker, quantity, wire, side, seenPosition, cur, history>>

-----------------------------------------------------------------------------
(***************************************************************************)
(* The plan: refused, empty, or one order.                                 *)
(***************************************************************************)
Ours == {i \in Ids : intent[i] \in {"open", "unknown"}}

\* _refusal(): an unknown order, an open order that is not ours, or one of ours
\* that the broker did not show.
Refused ==
    \/ \E i \in Ours : intent[i] = "unknown"
    \/ ~(seenOpen \subseteq Ours)
    \/ ~(Ours \subseteq seenOpen)

Delta    == target - seenPosition - seenPending
Wanted   == IF Delta > 0 THEN "buy" ELSE "sell"
Size     == IF Delta > 0 THEN Delta ELSE -Delta

\* Mutant: orders that are over free their number.
NextSequence_openOnly(s) == Cardinality(On(s, Ours))

\* next_sequence(): counted over every intent stored for the symbol and side.
NextSequence(s) == Cardinality(On(s, {i \in Ids : intent[i] # "none"}))

NextSide ==
    IF side = "sell" THEN pc' = "sync" /\ side' = "buy" ELSE pc' = "ended" /\ UNCHANGED side

\* The order may be smaller than the difference (order cap, buying power) or
\* left out (rebalance band, price moved, halted, gate), and orders of the
\* other side wait for their turn.
Plan ==
    /\ pc = "plan"
    /\ \/ Refused /\ pc' = "ended" /\ UNCHANGED <<side, cur, quantity, raced>>
       \/ ~Refused /\ NextSide /\ UNCHANGED <<cur, quantity, raced>>
       \/ /\ ~Refused
          /\ Wanted = side /\ NextSequence(side) < MaxSequence
          /\ cur' = <<side, NextSequence(side)>>
          /\ \E q \in 1..(IF Size < MaxOrder THEN Size ELSE MaxOrder) :
               quantity' = [quantity EXCEPT ![cur'] = q]
          /\ raced' = raced + slip
          /\ pc' = "create" /\ UNCHANGED side
    /\ UNCHANGED <<target, start, db, broker, wire, seen, slip>>

\* create_intent() to SUBMITTED; the primary key refuses a used id.
Create ==
    /\ pc = "create"
    /\ intent[cur] = "none"
    /\ intent' = [intent EXCEPT ![cur] = "open"]
    /\ pc' = "transmit"
    /\ UNCHANGED <<target, start, done, broker, quantity, wire, side, seen, cur, history>>

CreateFails ==
    /\ pc = "create" /\ pc' = "ended"
    /\ UNCHANGED <<target, start, db, broker, quantity, wire, side, seen, cur, history>>

Transmit ==
    /\ pc = "transmit"
    /\ wire' = wire \cup {cur}
    /\ pc' = "await"
    /\ UNCHANGED <<target, start, db, broker, quantity, side, seen, cur, history>>

Store(state) == intent' = [intent EXCEPT ![cur] = state]

Answered ==
    /\ pc = "await"
    /\ bstate[cur] # "none"
    /\ \E state \in {"open", bstate[cur]} : Store(state)
    /\ NextSide
    /\ UNCHANGED <<target, start, done, broker, quantity, wire, seen, cur, history>>

\* Stored as UNKNOWN, then looked up once; never sent again.
TimeOut ==
    /\ pc = "await"
    /\ \E state \in {"unknown"} \cup (Adopted(cur) \ {intent[cur]}) : Store(state)
    /\ NextSide
    /\ UNCHANGED <<target, start, done, broker, quantity, wire, seen, cur, history>>

-----------------------------------------------------------------------------
(***************************************************************************)
(* The broker and the wire.                                                *)
(***************************************************************************)
\* No shorting: a sell is accepted only against shares not yet reserved.
Covered(i) ==
    i[1] = "sell" => quantity[i] <= position - Left(On("sell", OpenAtBroker))

Accept(i) ==
    /\ i \in wire /\ bstate[i] = "none" /\ Covered(i)
    /\ wire' = wire \ {i}
    /\ bstate' = [bstate EXCEPT ![i] = "open"]
    /\ UNCHANGED <<target, start, db, position, filled, quantity, pc, side, seen, cur, history>>

Refuse(i) ==
    /\ i \in wire /\ bstate[i] = "none"
    /\ wire' = wire \ {i}
    /\ IF pc = "await" /\ cur = i
       THEN Store("closed") /\ NextSide
       ELSE UNCHANGED <<intent, pc, side>>
    /\ UNCHANGED <<target, start, done, broker, quantity, seen, cur, history>>

Lose(i) ==
    /\ i \in wire
    /\ wire' = wire \ {i}
    /\ UNCHANGED <<target, start, db, broker, quantity, pc, side, seen, cur, history>>

Fill(i) ==
    /\ bstate[i] = "open"
    /\ \E q \in 1..Remaining[i] :
         /\ filled'   = [filled EXCEPT ![i] = @ + q]
         /\ position' = IF i[1] = "buy" THEN position + q ELSE position - q
         /\ bstate'   = [bstate EXCEPT ![i] = IF q = Remaining[i] THEN "closed" ELSE "open"]
         /\ slip'     = IF pc = "orders" /\ q < Remaining[i] THEN slip + q ELSE slip
    /\ UNCHANGED <<target, start, db, quantity, wire, pc, side, seen, cur, raced>>

Expire(i) ==
    /\ bstate[i] = "open"
    /\ bstate' = [bstate EXCEPT ![i] = "closed"]
    /\ UNCHANGED <<target, start, db, position, filled, quantity, wire, pc, side, seen, cur, history>>

-----------------------------------------------------------------------------
Next ==
    \/ Begin \/ Crash \/ End \/ Sync \/ ReadPositions \/ ReadOpenOrders \/ Plan
    \/ Create \/ CreateFails \/ Transmit \/ Answered \/ TimeOut
    \/ \E i \in Ids : Accept(i) \/ Refuse(i) \/ Lose(i) \/ Fill(i) \/ Expire(i)

Spec == Init /\ [][Next]_vars

-----------------------------------------------------------------------------
(***************************************************************************)
(* Properties.                                                             *)
(***************************************************************************)
\* Orders that can still fill: at the broker, or on their way to it.
Live == OpenAtBroker \cup wire

Buys    == Left(On("buy", Live))
Sells   == Left(On("sell", Live))
Highest == position + Buys
Lowest  == position - Sells
Upper   == IF target > start THEN target ELSE start
Lower   == IF target < start THEN target ELSE start

\* Re-planning after a restart, a timeout or a rejection leaves the position
\* between where it started and the target, whatever becomes of the orders
\* that can still fill - up to the lots of open orders that filled between the
\* call for the positions and the call for the open orders.
OvershootIsRaced ==
    /\ Highest <= Upper + raced
    /\ Lowest  >= Lower - raced

\* The sequence of a new order is one no intent has: an order that was rejected
\* or cancelled keeps its number (next_sequence).
PlannedIdsAreFresh == pc = "create" => intent[cur] = "none"

\* Planning again after a restart, a timeout or a rejection is safe: sequences
\* and sizes fit, no number is used twice, and nothing is ordered twice that was
\* not in a race with the reads.
ReplanningIsSafe == TypeOK /\ OvershootIsRaced /\ PlannedIdsAreFresh
==============================================================================
