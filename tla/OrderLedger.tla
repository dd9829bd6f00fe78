----------------------------- MODULE OrderLedger -----------------------------
(***************************************************************************)
(* What the order manager promises about one order, whatever the network,  *)
(* the broker and its own crashes do: an intent comes first; the order can *)
(* only fill while the ledger says it is exposed; what is counted never    *)
(* runs ahead of what was filled; and an order is closed once, when        *)
(* everything filled has been counted and nothing more can fill.           *)
(***************************************************************************)
EXTENDS Naturals

CONSTANTS Orders, Qty

VARIABLES phase,    \* "none", "intended", "exposed" or "closed"
          filled,   \* lots the broker has filled
          counted   \* lots the ledger has counted

ledger == <<phase, filled, counted>>

Init ==
    /\ phase   = [o \in Orders |-> "none"]
    /\ filled  = [o \in Orders |-> 0]
    /\ counted = [o \in Orders |-> 0]

Step(o, from, to) ==
    /\ phase[o] = from
    /\ phase' = [phase EXCEPT ![o] = to]
    /\ UNCHANGED <<filled, counted>>

Intend(o)  == Step(o, "none", "intended")
Discard(o) == Step(o, "intended", "closed")   \* never handed to the broker
Expose(o)  == Step(o, "intended", "exposed")
Close(o)   == counted[o] = filled[o] /\ Step(o, "exposed", "closed")

Fill(o) ==
    /\ phase[o] = "exposed"
    /\ \E q \in (filled[o] + 1)..Qty : filled' = [filled EXCEPT ![o] = q]
    /\ UNCHANGED <<phase, counted>>

Count(o) ==
    /\ phase[o] = "exposed"
    /\ \E q \in (counted[o] + 1)..filled[o] : counted' = [counted EXCEPT ![o] = q]
    /\ UNCHANGED <<phase, filled>>

Next == \E o \in Orders :
    Intend(o) \/ Discard(o) \/ Expose(o) \/ Close(o) \/ Fill(o) \/ Count(o)

Spec == Init /\ [][Next]_ledger
==============================================================================
