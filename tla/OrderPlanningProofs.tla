------------------------- MODULE OrderPlanningProofs -------------------------
(***************************************************************************)
(* Theorems about planning the orders of one symbol again and again, for   *)
(* any number of lots, any order cap and any number of orders a side: the  *)
(* number of a new order is free, and nothing is ordered twice that was    *)
(* not in a race with the reads.                                           *)
(***************************************************************************)
EXTENDS OrderPlanning, FiniteSetTheorems, TLAPS

IntentState == {"none", "open", "unknown", "closed"}

IntentTypes == intent \in [Ids -> IntentState] /\ bstate \in [Ids -> {"none", "open", "closed"}]
PlanTypes   == IntentTypes /\ side \in Sides /\ cur \in Ids \cup {NoId}

\* The intents of a side have the numbers from 0 to n - 1.
NumberedTo(s, n) ==
    \A k \in 0..(MaxSequence - 1) : intent[<<s, k>>] # "none" <=> k < n

NumbersInv == \A s \in Sides : \E n \in 0..MaxSequence : NumberedTo(s, n)

\* An order in hand has the next number of its side until its intent is stored.
CurInv ==
    /\ pc = "create" => cur = <<side, NextSequence(side)>> /\ cur \in Ids
    /\ pc \in {"transmit", "await"} => cur \in Ids /\ intent[cur] # "none"

FreshInv == PlanTypes /\ NumbersInv /\ CurInv

-----------------------------------------------------------------------------
\* Counting the intents of a side gives the first number that is free.
LEMMA Counted ==
    ASSUME NEW s \in Sides, NEW n \in 0..MaxSequence, NumberedTo(s, n)
    PROVE  NextSequence(s) = n
<1> DEFINE Numbers == 0..(n - 1)
           Taken   == On(s, {i \in Ids : intent[i] # "none"})
           id      == [k \in Numbers |-> <<s, k>>]
<1>1. n \in Nat /\ MaxSequence \in Nat
  BY SequenceAssumption
<1>2. IsFiniteSet(Numbers) /\ Cardinality(Numbers) = n
  <2>1. 0 \in Int /\ n - 1 \in Int
    BY <1>1
  <2> QED
    BY <1>1, <2>1, FS_Interval
<1>3. \A k \in Numbers : <<s, k>> \in Taken
  BY <1>1 DEF On, Ids, NumberedTo
<1>4. \A i \in Taken : \E k \in Numbers : i = <<s, k>>
  BY <1>1 DEF On, Ids, NumberedTo
<1>5. id \in Bijection(Numbers, Taken)
  BY <1>3, <1>4 DEF Bijection, Injection, Surjection, IsInjective
<1>6. ExistsBijection(Numbers, Taken)
  BY <1>5 DEF ExistsBijection
<1>7. Cardinality(Taken) = n
  BY <1>2, <1>6, FS_Bijection
<1> QED
  BY <1>7 DEF NextSequence

\* The number after the last is free, and takes its place when it is used.
LEMMA NextIsFree ==
    ASSUME NumbersInv, NEW s \in Sides, <<s, NextSequence(s)>> \in Ids
    PROVE  /\ intent[<<s, NextSequence(s)>>] = "none"
           /\ \E n \in 0..MaxSequence : /\ n = NextSequence(s) + 1
                                        /\ NumberedTo(s, n - 1)
<1>1. PICK n \in 0..MaxSequence : NumberedTo(s, n)
  BY DEF NumbersInv
<1>2. NextSequence(s) = n
  BY <1>1, Counted
<1>3. n \in 0..(MaxSequence - 1)
  BY <1>2 DEF Ids
<1>4. n + 1 \in 0..MaxSequence /\ (n + 1) - 1 = n
  BY <1>3, SequenceAssumption
<1>5. intent[<<s, n>>] = "none"
  BY <1>1, <1>3 DEF NumberedTo
<1> QED
  BY <1>1, <1>2, <1>4, <1>5

\* A step that stores no new intent keeps the numbers.
LEMMA NumbersKept ==
    ASSUME \A i \in Ids : intent'[i] = "none" <=> intent[i] = "none"
    PROVE  /\ NumbersInv => NumbersInv'
           /\ \A s : NextSequence(s)' = NextSequence(s)
<1>1. ASSUME NEW s \in Sides, NEW n \in 0..MaxSequence, NumberedTo(s, n)
      PROVE  NumberedTo(s, n)'
  BY <1>1 DEF NumberedTo, Ids
<1>2. {i \in Ids : intent'[i] # "none"} = {i \in Ids : intent[i] # "none"}
  OBVIOUS
<1> QED
  BY <1>1, <1>2 DEF NumbersInv, NextSequence, On

LEMMA FreshInit == Init => FreshInv
<1> SUFFICES ASSUME Init PROVE FreshInv
  OBVIOUS
<1>1. PlanTypes
  BY DEF Init, PlanTypes, IntentTypes, IntentState, Sides, NoId
<1>2. NumbersInv
  <2>1. \A s \in Sides : NumberedTo(s, 0)
    BY DEF Init, NumberedTo, Ids
  <2>2. 0 \in 0..MaxSequence
    BY SequenceAssumption
  <2> QED
    BY <2>1, <2>2 DEF NumbersInv
<1>3. CurInv
  BY DEF Init, CurInv
<1> QED
  BY <1>1, <1>2, <1>3 DEF FreshInv

-----------------------------------------------------------------------------
\* A step that stores no new intent and takes no new order in hand.
LEMMA QuietStep ==
    ASSUME FreshInv, PlanTypes',
           \A i \in Ids : intent'[i] = "none" <=> intent[i] = "none",
           pc' = "create" => pc = "create" /\ UNCHANGED <<cur, side>>,
           pc' \in {"transmit", "await"} => pc \in {"transmit", "await"} /\ UNCHANGED cur
    PROVE  FreshInv'
<1>1. NumbersInv'
  BY NumbersKept DEF FreshInv
<1>2. pc' = "create" => cur' = <<side', NextSequence(side)'>> /\ cur' \in Ids
  BY NumbersKept DEF FreshInv, CurInv
<1>3. pc' \in {"transmit", "await"} => cur' \in Ids /\ intent'[cur'] # "none"
  BY DEF FreshInv, CurInv
<1>4. UNCHANGED Ids
  BY DEF Ids
<1> QED
  BY <1>1, <1>2, <1>3, <1>4 DEF FreshInv, CurInv

LEMMA PlanStep == FreshInv /\ Plan => FreshInv'
<1> SUFFICES ASSUME FreshInv, Plan PROVE FreshInv'
  OBVIOUS
<1>1. UNCHANGED <<intent, bstate>> /\ pc = "plan"
  BY DEF Plan, db, broker
<1>2. CASE cur' = cur /\ pc' \in {"ended", "sync"} /\ side' \in Sides
  <2>1. PlanTypes'
    BY <1>1, <1>2 DEF FreshInv, PlanTypes, IntentTypes, Ids, Sides, IntentState, NoId
  <2> QED
    BY <1>1, <1>2, <2>1, QuietStep
<1>3. CASE /\ cur' = <<side, NextSequence(side)>> /\ NextSequence(side) < MaxSequence
           /\ pc' = "create" /\ UNCHANGED side
  <2>1. PICK n \in 0..MaxSequence : NumberedTo(side, n)
    BY DEF FreshInv, PlanTypes, NumbersInv
  <2>2. NextSequence(side) = n
    BY <2>1, Counted DEF FreshInv, PlanTypes
  <2>3. cur' \in Ids
    BY <1>3, <2>1, <2>2, SequenceAssumption DEF FreshInv, PlanTypes, Ids
  <2>4. /\ NumbersInv'
        /\ NextSequence(side)' = NextSequence(side)
    BY <1>1, <1>3, NumbersKept DEF FreshInv
  <2>5. PlanTypes'
    BY <1>1, <1>3, <2>3 DEF FreshInv, PlanTypes, IntentTypes, Ids
  <2> QED
    BY <1>3, <2>3, <2>4, <2>5 DEF FreshInv, CurInv, Ids
<1> QED
  BY <1>2, <1>3 DEF Plan, NextSide, FreshInv, PlanTypes, Sides

LEMMA CreateStep == FreshInv /\ Create => FreshInv'
<1> SUFFICES ASSUME FreshInv, Create PROVE FreshInv'
  OBVIOUS
<1>1. /\ cur = <<side, NextSequence(side)>> /\ cur \in Ids /\ side \in Sides
      /\ intent' = [intent EXCEPT ![cur] = "open"]
      /\ pc' = "transmit" /\ UNCHANGED <<side, cur, bstate>>
  BY DEF Create, FreshInv, CurInv, PlanTypes, broker
<1>2. PlanTypes'
  BY <1>1 DEF FreshInv, PlanTypes, IntentTypes, IntentState, Ids
<1>3. CurInv'
  BY <1>1 DEF CurInv, FreshInv, PlanTypes, IntentTypes, Ids
<1>4. PICK n \in 0..MaxSequence : n = NextSequence(side) + 1 /\ NumberedTo(side, n - 1)
  BY <1>1, NextIsFree DEF FreshInv
<1>5. n \in Nat /\ cur = <<side, n - 1>>
  <2>1. PICK m \in 0..MaxSequence : NumberedTo(side, m)
    BY <1>1 DEF FreshInv, NumbersInv
  <2>2. NextSequence(side) = m
    BY <1>1, <2>1, Counted
  <2> QED
    BY <1>1, <1>4, <2>2, SequenceAssumption
<1>6. NumberedTo(side, n)'
  BY <1>1, <1>4, <1>5, SequenceAssumption DEF NumberedTo, Ids, FreshInv, PlanTypes, IntentTypes
<1>7. ASSUME NEW s \in Sides, s # side PROVE \E m \in 0..MaxSequence : NumberedTo(s, m)'
  BY <1>1, <1>7 DEF NumberedTo, NumbersInv, Ids, FreshInv, PlanTypes, IntentTypes
<1>8. NumbersInv'
  BY <1>1, <1>6, <1>7 DEF NumbersInv
<1> QED
  BY <1>2, <1>3, <1>8 DEF FreshInv

LEMMA FreshStep == FreshInv /\ [Next]_vars => FreshInv'
<1> SUFFICES ASSUME FreshInv, [Next]_vars PROVE FreshInv'
  OBVIOUS
<1> USE DEF FreshInv, PlanTypes, IntentTypes, IntentState, CurInv, Sides, NoId, db, broker, history
<1>1. CASE Begin
  BY <1>1, QuietStep DEF Begin, Ids
<1>2. CASE Crash \/ End
  BY <1>2, QuietStep DEF Crash, End, Rest, Ids
<1>3. CASE ReadPositions \/ ReadOpenOrders
  BY <1>3, QuietStep DEF ReadPositions, ReadOpenOrders, seen, Ids
<1>4. CASE CreateFails
  BY <1>4, QuietStep DEF CreateFails, Ids
<1>5. CASE Plan
  BY <1>5, PlanStep
<1>6. CASE Create
  BY <1>6, CreateStep
<1>7. CASE Transmit
  <2>1. /\ UNCHANGED <<intent, bstate, side, cur>>
        /\ pc = "transmit" /\ pc' = "await"
    BY <1>7 DEF Transmit
  <2>2. NumbersInv'
    BY <2>1, NumbersKept
  <2> QED
    BY <2>1, <2>2 DEF Ids
<1>8. CASE Sync
  <2>1. /\ intent' \in [Ids -> IntentState]
        /\ \A i \in Ids : intent'[i] \in IF intent[i] \in {"open", "unknown"}
                                          THEN Adopted(i) ELSE {intent[i]}
        /\ UNCHANGED <<bstate, side, cur>> /\ pc' = "positions"
    BY <1>8 DEF Sync
  <2>2. \A i \in Ids : intent'[i] = "none" <=> intent[i] = "none"
    BY <2>1 DEF Adopted
  <2>3. PlanTypes'
    BY <2>1 DEF Ids
  <2> QED
    BY <2>1, <2>2, <2>3, QuietStep
<1>9. CASE Answered \/ TimeOut
  <2>1. /\ cur \in Ids /\ intent[cur] # "none"
        /\ \E state \in IntentState \ {"none"} : Store(state)
    BY <1>9 DEF Answered, TimeOut, Adopted
  <2>2. /\ UNCHANGED <<bstate, cur>> /\ side' \in Sides /\ pc' \in {"sync", "ended"}
    BY <1>9 DEF Answered, TimeOut, NextSide
  <2>3. \A i \in Ids : intent'[i] = "none" <=> intent[i] = "none"
    BY <2>1 DEF Store
  <2>4. PlanTypes'
    BY <2>1, <2>2 DEF Store, Ids
  <2> QED
    BY <2>2, <2>3, <2>4, QuietStep
<1>10. ASSUME NEW i \in Ids, Accept(i) PROVE FreshInv'
  BY <1>10, QuietStep DEF Accept, seen, Ids
<1>11. ASSUME NEW i \in Ids, Refuse(i) PROVE FreshInv'
  <2>1. UNCHANGED <<bstate, cur>>
    BY <1>11 DEF Refuse
  <2>2. CASE pc = "await" /\ cur = i
    <3>1. /\ intent[cur] # "none" /\ Store("closed")
          /\ side' \in Sides /\ pc' \in {"sync", "ended"}
      BY <1>11, <2>2 DEF Refuse, NextSide
    <3>2. \A o \in Ids : intent'[o] = "none" <=> intent[o] = "none"
      BY <3>1, <2>2 DEF Store
    <3>3. PlanTypes'
      BY <2>1, <3>1 DEF Store, Ids
    <3> QED
      BY <2>1, <3>1, <3>2, <3>3, QuietStep
  <2>3. CASE ~(pc = "await" /\ cur = i)
    BY <1>11, <2>1, <2>3, QuietStep DEF Refuse, Ids
  <2> QED
    BY <2>2, <2>3
<1>12. ASSUME NEW i \in Ids, Lose(i) \/ Expire(i) PROVE FreshInv'
  BY <1>12, QuietStep DEF Lose, Expire, Ids
<1>13. ASSUME NEW i \in Ids, Fill(i) PROVE FreshInv'
  BY <1>13, QuietStep DEF Fill, Ids
<1>14. CASE UNCHANGED vars
  BY <1>14, QuietStep DEF vars, Ids
<1> QED
  BY <1>1, <1>2, <1>3, <1>4, <1>5, <1>6, <1>7, <1>8, <1>9, <1>10, <1>11, <1>12, <1>13, <1>14 DEF Next

\* The number of a new order is one no intent of its symbol and side ever had, with
\* any number of crashes, replans, rejections and lost requests: the stored intents
\* of a side are numbered without a gap, so counting them gives a free number.
THEOREM NumbersAreFresh == Spec => []PlannedIdsAreFresh
<1>1. FreshInv => PlannedIdsAreFresh
  BY NextIsFree DEF FreshInv, CurInv, PlanTypes, PlannedIdsAreFresh
<1>2. FreshInv /\ [Next]_vars => FreshInv'
  BY FreshStep
<1> QED
  BY FreshInit, <1>1, <1>2, PTL DEF Spec

-----------------------------------------------------------------------------
(***************************************************************************)
(* Counting the lots that are left.                                        *)
(***************************************************************************)
LEMMA IdsAreFinite == IsFiniteSet(Ids)
<1>1. IsFiniteSet(Sides)
  <2>1. IsFiniteSet({"sell"})
    BY FS_Singleton
  <2>2. IsFiniteSet({"sell"} \cup {"buy"})
    BY <2>1, FS_AddElement
  <2> QED
    BY <2>2 DEF Sides
<1>2. IsFiniteSet(0..(MaxSequence - 1))
  <2>1. 0 \in Int /\ MaxSequence - 1 \in Int
    BY SequenceAssumption
  <2> QED
    BY <2>1, FS_Interval
<1> QED
  BY <1>1, <1>2, FS_Product DEF Ids

Quantities == [Ids -> 0..MaxOrder]

LEMMA LotsAreFinite ==
    ASSUME NEW f \in Quantities, NEW q \in Quantities, NEW S \in SUBSET Ids
    PROVE  /\ IsFiniteSet(LotsLeft(f, q, S))
           /\ Cardinality(LotsLeft(f, q, S)) \in Nat
<1>1. IsFiniteSet(S)
  BY IdsAreFinite, FS_Subset
<1>2. IsFiniteSet(1..MaxOrder)
  <2>1. 1 \in Int /\ MaxOrder \in Int
    BY LotsAssumption
  <2> QED
    BY <2>1, FS_Interval
<1>3. IsFiniteSet(S \X (1..MaxOrder))
  BY <1>1, <1>2, FS_Product
<1>4. LotsLeft(f, q, S) \in SUBSET (S \X (1..MaxOrder))
  BY DEF LotsLeft
<1> QED
  BY <1>3, <1>4, FS_Subset, FS_CardinalityType

\* The lots of one order: those above what has filled.
LEMMA LotsOfOne ==
    ASSUME NEW f \in Quantities, NEW q \in Quantities, NEW i \in Ids, f[i] <= q[i]
    PROVE  Cardinality(LotsLeft(f, q, {i})) = q[i] - f[i]
<1> DEFINE Numbers == (f[i] + 1)..q[i]
           Lots    == LotsLeft(f, q, {i})
           lot     == [n \in Numbers |-> <<i, n>>]
<1>1. f[i] \in Nat /\ q[i] \in Nat /\ q[i] <= MaxOrder /\ MaxOrder \in Nat
  BY LotsAssumption DEF Quantities
<1>2. IsFiniteSet(Numbers) /\ Cardinality(Numbers) = q[i] - f[i]
  <2>1. f[i] + 1 \in Int /\ q[i] \in Int
    BY <1>1
  <2>2. /\ IsFiniteSet(Numbers)
        /\ Cardinality(Numbers) = IF f[i] + 1 > q[i] THEN 0 ELSE q[i] - (f[i] + 1) + 1
    BY <2>1, FS_Interval
  <2> HIDE DEF Numbers
  <2> QED
    BY <1>1, <2>2
<1>3. \A n \in Numbers : <<i, n>> \in Lots
  BY <1>1 DEF LotsLeft
<1>4. \A l \in Lots : \E n \in Numbers : l = <<i, n>>
  BY <1>1 DEF LotsLeft
<1>5. lot \in Bijection(Numbers, Lots)
  BY <1>3, <1>4 DEF Bijection, Injection, Surjection, IsInjective
<1> QED
  BY <1>2, <1>5, FS_Bijection DEF ExistsBijection

\* Taking one order out of a set takes its lots away.
LEMMA LotsSplit ==
    ASSUME NEW f \in Quantities, NEW q \in Quantities, NEW S \in SUBSET Ids,
           NEW i \in S, f[i] <= q[i]
    PROVE  Cardinality(LotsLeft(f, q, S))
             = Cardinality(LotsLeft(f, q, S \ {i})) + (q[i] - f[i])
<1> DEFINE One == LotsLeft(f, q, {i})  Rest_ == LotsLeft(f, q, S \ {i})
<1>1. LotsLeft(f, q, S) = Rest_ \cup One /\ Rest_ \cap One = {}
  BY DEF LotsLeft
<1>2. IsFiniteSet(One) /\ IsFiniteSet(Rest_) /\ Cardinality(Rest_) \in Nat /\ Cardinality(One) \in Nat
  BY LotsAreFinite
<1>3. Cardinality(Rest_ \cup One) = Cardinality(Rest_) + Cardinality(One) - Cardinality(Rest_ \cap One)
  BY <1>2, FS_Union
<1>4. Cardinality(Rest_ \cap One) = 0
  BY <1>1, FS_EmptySet
<1>5. Cardinality(One) = q[i] - f[i]
  BY LotsOfOne
<1>6. Cardinality(Rest_ \cup One) = Cardinality(Rest_) + (q[i] - f[i])
  <2> HIDE DEF One, Rest_
  <2> QED
    BY <1>2, <1>3, <1>4, <1>5
<1> QED
  BY <1>1, <1>6

\* A fill takes its lots from the order, and the order away when none is left.
LEMMA LotsFilled ==
    ASSUME NEW f \in Quantities, NEW q \in Quantities, NEW g \in Quantities,
           NEW i \in Ids, NEW n \in Nat, f[i] <= q[i], n <= q[i] - f[i], g[i] = f[i] + n,
           NEW S \in SUBSET Ids, i \in S, NEW T,
           \A o \in S : o # i => g[o] = f[o],
           T = S \/ (n = q[i] - f[i] /\ T = S \ {i})
    PROVE  Cardinality(LotsLeft(g, q, T)) = Cardinality(LotsLeft(f, q, S)) - n
<1> DEFINE Rest_ == S \ {i}
<1>1. f[i] \in Nat /\ q[i] \in Nat
  BY LotsAssumption DEF Quantities
<1>2. Cardinality(LotsLeft(f, q, S)) = Cardinality(LotsLeft(f, q, Rest_)) + (q[i] - f[i])
  BY LotsSplit
<1>3. LotsLeft(g, q, Rest_) = LotsLeft(f, q, Rest_)
  BY DEF LotsLeft
<1>4. Cardinality(LotsLeft(f, q, Rest_)) \in Nat
  BY LotsAreFinite
<1>5. CASE T = Rest_ /\ n = q[i] - f[i]
  BY <1>1, <1>2, <1>3, <1>4, <1>5
<1>6. CASE T = S
  <2>1. g[i] <= q[i]
    BY <1>1
  <2>2. Cardinality(LotsLeft(g, q, S)) = Cardinality(LotsLeft(g, q, Rest_)) + (q[i] - g[i])
    BY <2>1, LotsSplit
  <2> QED
    BY <1>1, <1>2, <1>3, <1>4, <1>6, <2>2
<1> QED
  BY <1>5, <1>6

LEMMA LotsFewer ==
    ASSUME NEW f \in Quantities, NEW q \in Quantities, NEW S \in SUBSET Ids, NEW T \in SUBSET S
    PROVE  Cardinality(LotsLeft(f, q, T)) <= Cardinality(LotsLeft(f, q, S))
<1>1. LotsLeft(f, q, T) \in SUBSET LotsLeft(f, q, S)
  BY DEF LotsLeft
<1> QED
  BY <1>1, LotsAreFinite, FS_Subset

LEMMA LotsSame ==
    ASSUME NEW f, NEW q, NEW g, NEW r, NEW S, \A i \in S : f[i] = g[i] /\ q[i] = r[i]
    PROVE  LotsLeft(f, q, S) = LotsLeft(g, r, S)
BY DEF LotsLeft

-----------------------------------------------------------------------------
(***************************************************************************)
(* The invariant.                                                          *)
(***************************************************************************)
\* What can still fill is open or unknown in the database, so the planner's
\* refusals see it.
WireInv ==
    \A i \in Ids :
        /\ i \in wire => bstate[i] = "none"
        /\ i \in Live => i \in Ours
        /\ bstate[i] # "none" => intent[i] # "none"
        /\ bstate[i] = "none" => filled[i] = 0

\* The broker does not sell short.
CoverInv == position >= Left(On("sell", OpenAtBroker))

\* The orders that can still fill go no further than the target from either end.
BoundsInv ==
    /\ Highest <= Upper + raced /\ Lowest >= Lower - raced
    /\ Buys <= target - Lower + raced /\ Sells <= Upper - target + raced

\* The order in hand has not been sent, and there is room for it.
OrderFits ==
    pc \in {"create", "transmit"} =>
        /\ cur \in Ids /\ cur \notin wire /\ bstate[cur] = "none" /\ cur[1] = side
        /\ pc = "transmit" => cur \in Ours
        /\ side = "buy"  => /\ Highest + quantity[cur] <= Upper + raced
                            /\ Buys + quantity[cur] <= target - Lower + raced
        /\ side = "sell" => /\ Lowest - quantity[cur] >= Lower - raced
                            /\ Sells + quantity[cur] <= Upper - target + raced

\* Since the positions were read, an order of ours is over, or the fills are
\* counted in slip.
PositionRead ==
    pc = "orders" =>
        \/ \E i \in Ours : bstate[i] = "closed"
        \/ seenPosition - slip <= position /\ position <= seenPosition + slip

\* What the reads say of a plan that is not refused: b lots bought and s sold by
\* the orders they showed, and nothing else can fill.
Shown(b, s) ==
    /\ seenPending = b - s
    /\ b <= target - Lower + raced /\ s <= Upper - target + raced
    /\ seenPosition + b <= Upper + raced + slip
    /\ seenPosition - s >= Lower - raced - slip
    /\ Buys <= b /\ Sells <= s
    /\ Highest <= seenPosition + b + slip
    /\ Lowest >= seenPosition - s - slip

ReadsAgree == pc = "plan" /\ ~Refused => wire = {} /\ \E b, s \in Nat : Shown(b, s)

LotsInv == BoundsInv /\ OrderFits /\ PositionRead /\ ReadsAgree
PlanInv == FreshInv /\ TypeOK /\ WireInv /\ CoverInv /\ LotsInv

\* The lots in the sums, in a well-typed state.
LEMMA LeftTyped ==
    ASSUME NEW f \in Quantities, NEW q \in Quantities, NEW S \in SUBSET Ids, NEW s
    PROVE  Cardinality(LotsLeft(f, q, On(s, S))) \in Nat
<1>1. On(s, S) \in SUBSET Ids
  BY DEF On
<1> QED
  BY <1>1, LotsAreFinite

LEMMA Typed ==
    ASSUME TypeOK
    PROVE  /\ filled \in Quantities /\ quantity \in Quantities
           /\ Live \in SUBSET Ids /\ OpenAtBroker \in SUBSET Ids
           /\ Buys \in Nat /\ Sells \in Nat /\ position \in Nat
           /\ Upper \in Nat /\ Lower \in Nat /\ raced \in Nat /\ target \in Nat
           /\ Lower <= target /\ target <= Upper /\ Lower <= start /\ start <= Upper
<1>1. filled \in Quantities /\ quantity \in Quantities
  BY DEF TypeOK, Quantities
<1>2. Live \in SUBSET Ids /\ OpenAtBroker \in SUBSET Ids
  BY DEF TypeOK, Live, OpenAtBroker
<1>3. Buys \in Nat /\ Sells \in Nat
  BY <1>1, <1>2, LeftTyped DEF Buys, Sells, Left
<1>4. target \in Nat /\ start \in Nat
  <2>1. target \in 0..MaxLots /\ start \in 0..MaxLots
    BY DEF TypeOK
  <2> QED
    BY <2>1, LotsAssumption
<1>5. position \in Nat /\ raced \in Nat
  BY DEF TypeOK
<1> QED
  BY <1>1, <1>2, <1>3, <1>4, <1>5 DEF Upper, Lower

LEMMA TypedAfter ==
    ASSUME TypeOK'
    PROVE  /\ filled' \in Quantities /\ quantity' \in Quantities
           /\ Live' \in SUBSET Ids /\ OpenAtBroker' \in SUBSET Ids
           /\ Buys' \in Nat /\ Sells' \in Nat /\ position' \in Nat /\ raced' \in Nat
<1>1. filled' \in Quantities /\ quantity' \in Quantities
  BY DEF TypeOK, Quantities, Ids
<1>2. Live' \in SUBSET Ids /\ OpenAtBroker' \in SUBSET Ids
  BY DEF TypeOK, Live, OpenAtBroker, Ids
<1>3. Buys' \in Nat /\ Sells' \in Nat
  BY <1>1, <1>2, LeftTyped DEF Buys, Sells, Left
<1> QED
  BY <1>1, <1>2, <1>3 DEF TypeOK

LEMMA Numbers ==
    ASSUME TypeOK
    PROVE  /\ position \in Nat /\ slip \in Nat /\ raced \in Nat /\ seenPosition \in Nat
           /\ seenPending \in Int /\ target \in Int
           /\ \A i \in Ids : /\ filled[i] \in Nat /\ quantity[i] \in Nat
                              /\ filled[i] <= quantity[i] /\ quantity[i] <= MaxOrder
                              /\ Remaining[i] = quantity[i] - filled[i]
<1>1. /\ position \in Nat /\ slip \in Nat /\ raced \in Nat /\ seenPosition \in Nat
      /\ seenPending \in Int /\ target \in 0..MaxLots
  BY DEF TypeOK
<1>2. \A i \in Ids : filled[i] \in 0..MaxOrder /\ quantity[i] \in 0..MaxOrder /\ filled[i] <= quantity[i]
  BY DEF TypeOK
<1>3. \A i \in Ids : Remaining[i] = quantity[i] - filled[i]
  BY DEF Remaining
<1> QED
  BY <1>1, <1>2, <1>3, LotsAssumption

-----------------------------------------------------------------------------
(***************************************************************************)
(* What a step does to the sums.                                           *)
(***************************************************************************)
Falls ==
    /\ Buys' \in Nat /\ Sells' \in Nat /\ position' \in Nat
    /\ Buys' <= Buys /\ Sells' <= Sells
    /\ Highest' <= Highest /\ Lowest' >= Lowest

LEMMA LeftFewer ==
    ASSUME NEW f \in Quantities, NEW q \in Quantities, NEW g, NEW r,
           NEW S \in SUBSET Ids, NEW T \in SUBSET S, NEW s,
           \A i \in T : f[i] = g[i] /\ q[i] = r[i]
    PROVE  Cardinality(LotsLeft(g, r, On(s, T))) <= Cardinality(LotsLeft(f, q, On(s, S)))
<1>1. On(s, S) \in SUBSET Ids /\ On(s, T) \in SUBSET On(s, S)
  BY DEF On
<1>2. LotsLeft(f, q, On(s, T)) = LotsLeft(g, r, On(s, T))
  <2>1. \A i \in On(s, T) : f[i] = g[i] /\ q[i] = r[i]
    BY DEF On
  <2> QED
    BY <2>1, LotsSame
<1> QED
  BY <1>1, <1>2, LotsFewer

\* Orders that can still fill only become fewer.
LEMMA FewerFall ==
    ASSUME TypeOK, TypeOK', UNCHANGED position, Live' \subseteq Live,
           \A i \in Live' : filled'[i] = filled[i] /\ quantity'[i] = quantity[i]
    PROVE  Falls
<1>1. Buys' <= Buys /\ Sells' <= Sells
  BY Typed, LeftFewer DEF Buys, Sells, Left
<1> QED
  BY <1>1, Typed, TypedAfter DEF Falls, Highest, Lowest

\* A fill moves lots from an order to the position.
LEMMA FillFalls ==
    ASSUME TypeOK, TypeOK', WireInv, NEW i \in Ids, Fill(i)
    PROVE  Falls
<1>1. PICK q \in 1..Remaining[i] :
        /\ filled'   = [filled EXCEPT ![i] = @ + q]
        /\ position' = IF i[1] = "buy" THEN position + q ELSE position - q
        /\ bstate'   = [bstate EXCEPT ![i] = IF q = Remaining[i] THEN "closed" ELSE "open"]
  BY DEF Fill
<1>2. UNCHANGED <<quantity, wire>> /\ bstate[i] = "open" /\ i \in Live
  BY DEF Fill, Live, OpenAtBroker
<1>3. Live' \in SUBSET Live /\ (q # Remaining[i] => Live' = Live) /\ (q = Remaining[i] => Live' = Live \ {i})
  BY <1>1, <1>2 DEF Live, OpenAtBroker, TypeOK, WireInv
<1>4. /\ filled[i] \in Nat /\ quantity[i] \in Nat /\ q \in Nat
      /\ q <= quantity[i] - filled[i] /\ filled[i] <= quantity[i]
      /\ filled'[i] = filled[i] + q /\ quantity'[i] = quantity[i]
  <2>1. filled[i] \in 0..MaxOrder /\ quantity[i] \in 0..MaxOrder /\ filled[i] <= quantity[i]
    BY DEF TypeOK
  <2>2. Remaining[i] = quantity[i] - filled[i] /\ filled'[i] = filled[i] + q
    BY <1>1 DEF TypeOK, Remaining
  <2> QED
    BY <1>2, <2>1, <2>2, LotsAssumption
<1>5. \A o \in Ids : o # i => filled'[o] = filled[o] /\ quantity'[o] = quantity[o]
  BY <1>1, <1>2 DEF TypeOK
<1>6. ASSUME NEW s, i[1] = s
      PROVE  Cardinality(LotsLeft(filled', quantity, On(s, Live')))
               = Cardinality(LotsLeft(filled, quantity, On(s, Live))) - q
  <2>1. i \in On(s, Live) /\ On(s, Live) \in SUBSET Ids
    BY <1>2, <1>6, Typed DEF On
  <2>2. \/ On(s, Live') = On(s, Live)
        \/ q = quantity[i] - filled[i] /\ On(s, Live') = On(s, Live) \ {i}
    BY <1>3, Numbers DEF On
  <2>3. \A o \in On(s, Live) : o # i => filled'[o] = filled[o]
    BY <1>5, <2>1
  <2> QED
    <3>1. filled \in Quantities /\ quantity \in Quantities /\ filled' \in Quantities
      BY Typed, TypedAfter
    <3>2. On(s, Live') = On(s, Live) \/ (q = quantity[i] - filled[i] /\ On(s, Live') = On(s, Live) \ {i})
      BY <2>2
    <3> QED
      BY <1>4, <2>1, <2>3, <3>1, <3>2, LotsFilled
<1>7. ASSUME NEW s, i[1] # s
      PROVE  Cardinality(LotsLeft(filled', quantity', On(s, Live')))
               = Cardinality(LotsLeft(filled, quantity, On(s, Live)))
  <2>1. On(s, Live') = On(s, Live)
    BY <1>2, <1>3, <1>7 DEF On
  <2>2. \A o \in On(s, Live) : filled[o] = filled'[o] /\ quantity[o] = quantity'[o]
    BY <1>5, <1>7, Typed DEF On
  <2> QED
    BY <2>1, <2>2, LotsSame
<1>8. CASE i[1] = "buy"
  <2>1. Buys' = Buys - q /\ Sells' = Sells /\ position' = position + q
    BY <1>1, <1>2, <1>6, <1>7, <1>8 DEF Buys, Sells, Left
  <2> QED
    BY <1>4, <2>1, Typed, TypedAfter DEF Falls, Highest, Lowest
<1>9. CASE i[1] = "sell"
  <2>1. Sells' = Sells - q /\ Buys' = Buys /\ position' = position - q
    BY <1>1, <1>2, <1>6, <1>7, <1>9 DEF Buys, Sells, Left
  <2> QED
    BY <1>4, <2>1, Typed, TypedAfter DEF Falls, Highest, Lowest
<1> QED
  BY <1>8, <1>9 DEF Ids, Sides

-----------------------------------------------------------------------------
(***************************************************************************)
(* Every step keeps the types, and what the database knows of the wire.    *)
(***************************************************************************)
\* A planned order has a free number: nothing is known of it anywhere.
LEMMA PlannedOrder ==
    ASSUME FreshInv, TypeOK, WireInv, Plan, pc' = "create"
    PROVE  /\ cur' = <<side, NextSequence(side)>> /\ cur' \in Ids /\ cur'[1] = side
           /\ side' = side /\ Wanted = side /\ ~Refused
           /\ intent[cur'] = "none" /\ bstate[cur'] = "none" /\ filled[cur'] = 0
           /\ cur' \notin Live
           /\ \E q \in 1..MaxOrder : q <= Size /\ quantity' = [quantity EXCEPT ![cur'] = q]
           /\ raced' = raced + slip
<1>1. /\ cur' = <<side, NextSequence(side)>> /\ NextSequence(side) < MaxSequence
      /\ side' = side /\ Wanted = side /\ ~Refused /\ raced' = raced + slip
      /\ \E q \in 1..(IF Size < MaxOrder THEN Size ELSE MaxOrder) :
           quantity' = [quantity EXCEPT ![cur'] = q]
  BY DEF Plan, NextSide
<1>2. cur' \in Ids
  <2>1. PICK n \in 0..MaxSequence : NumberedTo(side, n)
    BY DEF FreshInv, PlanTypes, NumbersInv
  <2>2. NextSequence(side) = n
    BY <2>1, Counted DEF FreshInv, PlanTypes
  <2> QED
    BY <1>1, <2>1, <2>2, SequenceAssumption DEF FreshInv, PlanTypes, Ids
<1>3. intent[cur'] = "none"
  BY <1>1, <1>2, NextIsFree DEF FreshInv, PlanTypes
<1>4. bstate[cur'] = "none" /\ filled[cur'] = 0 /\ cur' \notin Live
  BY <1>2, <1>3 DEF WireInv, Ours
<1>5. \E q \in 1..MaxOrder : q <= Size /\ quantity' = [quantity EXCEPT ![cur'] = q]
  <2>1. PICK q \in 1..(IF Size < MaxOrder THEN Size ELSE MaxOrder) :
          quantity' = [quantity EXCEPT ![cur'] = q]
    BY <1>1
  <2>2. Size \in Int
    BY Numbers DEF Size, Delta
  <2>3. q \in 1..MaxOrder /\ q <= Size
    BY <2>2, LotsAssumption
  <2> QED
    BY <2>1, <2>3
<1> QED
  BY <1>1, <1>2, <1>3, <1>4, <1>5

\* An order for sale at the broker has the shares it has yet to sell.
LEMMA SharesAreThere ==
    ASSUME TypeOK, CoverInv, NEW i \in Ids, bstate[i] = "open", i[1] = "sell"
    PROVE  position >= Remaining[i]
<1> DEFINE Open == On("sell", OpenAtBroker)
<1>1. Open \in SUBSET Ids /\ i \in Open
  BY DEF On, OpenAtBroker
<1>2. filled \in Quantities /\ quantity \in Quantities /\ filled[i] <= quantity[i]
  BY Typed DEF TypeOK
<1>3. /\ Cardinality(LotsLeft(filled, quantity, Open))
           = Cardinality(LotsLeft(filled, quantity, Open \ {i})) + (quantity[i] - filled[i])
      /\ Cardinality(LotsLeft(filled, quantity, Open \ {i})) \in Nat
  BY <1>1, <1>2, LotsSplit, LotsAreFinite
<1>4. filled[i] \in Int /\ quantity[i] \in Int /\ position \in Int /\ Remaining[i] = quantity[i] - filled[i]
  BY Numbers
<1> HIDE DEF Open
<1>5. position >= Cardinality(LotsLeft(filled, quantity, Open))
  BY DEF CoverInv, Left, Open
<1> QED
  BY <1>3, <1>4, <1>5

LEMMA TypeStep ==
    ASSUME FreshInv, TypeOK, WireInv, CoverInv, OrderFits, [Next]_vars
    PROVE  TypeOK'
<1> USE DEF db, broker, history, seen
<1>1. CASE Begin
  BY <1>1 DEF Begin, TypeOK, Ids
<1>2. CASE Crash
  <2>1. /\ pc' = "idle" /\ side' = "sell" /\ cur' = NoId /\ seenPosition' = 0
        /\ seenOpen' = {} /\ seenPending' = 0 /\ slip' = 0
        /\ UNCHANGED <<target, start, db, broker, quantity, wire, raced>>
    BY <1>2 DEF Crash, Rest
  <2>2. {} \subseteq Ids /\ 0 \in Int /\ 0 \in Nat /\ side' \in Sides
    BY <2>1 DEF Sides
  <2> QED
    BY <2>1, <2>2 DEF TypeOK, Ids, Sides
<1>3. CASE ReadPositions
  BY <1>3 DEF ReadPositions, TypeOK, Ids
<1>4. CASE ReadOpenOrders
  <2>1. seenPending' \in Int
    <3>1. Left(On("buy", OpenAtBroker)) \in Nat /\ Left(On("sell", OpenAtBroker)) \in Nat
      BY Typed, LeftTyped DEF Left
    <3>2. seenPending' = Left(On("buy", OpenAtBroker)) - Left(On("sell", OpenAtBroker))
      BY <1>4 DEF ReadOpenOrders
    <3> HIDE DEF seen, history
    <3> QED
      BY <3>1, <3>2
  <2> QED
    BY <1>4, <2>1 DEF ReadOpenOrders, TypeOK, OpenAtBroker, Ids
<1>5. CASE CreateFails
  BY <1>5 DEF CreateFails, TypeOK, Ids
<1>6. CASE Create
  BY <1>6 DEF Create, TypeOK, Ids
<1>7. CASE Transmit
  BY <1>7 DEF Transmit, OrderFits, TypeOK, Ids
<1>8. CASE Sync
  BY <1>8 DEF Sync, TypeOK, Ids
<1>9. CASE Answered \/ TimeOut
  <2>1. /\ \E state \in IntentState : Store(state)
        /\ side' \in Sides /\ pc' \in {"sync", "ended"}
        /\ UNCHANGED <<target, start, done, broker, quantity, wire, seen, cur, history>>
    BY <1>9 DEF Answered, TimeOut, Adopted, NextSide, IntentState, TypeOK, Sides, FreshInv, CurInv
  <2>2. PICK state \in IntentState : Store(state)
    BY <2>1, Zenon
  <2>3. intent \in [Ids -> IntentState]
    BY DEF TypeOK, IntentState
  <2>4. intent' \in [Ids -> IntentState]
    BY <2>2, <2>3 DEF Store
  <2>5. intent' \in [Ids -> {"none", "open", "unknown", "closed"}]
    BY <2>4, Zenon DEF IntentState
  <2> QED
    BY <2>1, <2>5 DEF TypeOK, Ids
<1>10. ASSUME NEW i \in Ids, Accept(i) PROVE TypeOK'
  BY <1>10 DEF Accept, TypeOK, Ids
<1>11. ASSUME NEW i \in Ids, Refuse(i) PROVE TypeOK'
  BY <1>11 DEF Refuse, Store, NextSide, TypeOK, Ids, Sides
<1>12. ASSUME NEW i \in Ids, Lose(i) \/ Expire(i) PROVE TypeOK'
  BY <1>12 DEF Lose, Expire, TypeOK, Ids
<1>13. ASSUME NEW i \in Ids, Fill(i) PROVE TypeOK'
  <2>1. PICK q \in 1..Remaining[i] :
          /\ filled'   = [filled EXCEPT ![i] = @ + q]
          /\ position' = IF i[1] = "buy" THEN position + q ELSE position - q
          /\ bstate'   = [bstate EXCEPT ![i] = IF q = Remaining[i] THEN "closed" ELSE "open"]
          /\ slip'     = IF pc = "orders" /\ q < Remaining[i] THEN slip + q ELSE slip
    BY <1>13 DEF Fill
  <2>2. /\ filled[i] \in Nat /\ quantity[i] \in Nat /\ quantity[i] <= MaxOrder
        /\ Remaining[i] = quantity[i] - filled[i]
        /\ position \in Nat /\ slip \in Nat
    BY Numbers
  <2>3. q \in Nat /\ filled[i] + q \in 0..MaxOrder /\ filled[i] + q <= quantity[i]
    <3>1. q \in Int /\ 1 <= q /\ q <= Remaining[i]
      BY <2>2
    <3>2. MaxOrder \in Nat
      BY LotsAssumption
    <3> QED
      BY <2>2, <3>1, <3>2
  <2>4. position' \in Nat /\ slip' \in Nat
    <3>1. i[1] # "buy" => position >= Remaining[i]
      BY <1>13, SharesAreThere DEF Fill, Ids, Sides
    <3>2. q <= Remaining[i] /\ Remaining[i] \in Int /\ q \in Nat
      BY <2>2, <2>3
    <3>3. position' = (IF i[1] = "buy" THEN position + q ELSE position - q)
      BY <2>1
    <3>4. position' \in Nat
      BY <2>2, <3>1, <3>2, <3>3
    <3>5. slip' = slip + q \/ slip' = slip
      BY <2>1
    <3> QED
      BY <2>2, <3>2, <3>4, <3>5
  <2>5. filled' \in [Ids -> 0..MaxOrder] /\ \A o \in Ids : filled'[o] <= quantity[o]
    BY <2>1, <2>3 DEF TypeOK
  <2>6. bstate' \in [Ids -> {"none", "open", "closed"}]
    BY <2>1 DEF TypeOK
  <2> QED
    BY <1>13, <2>4, <2>5, <2>6 DEF Fill, TypeOK, Ids
<1>14. CASE Plan
  <2>1. UNCHANGED <<target, start, db, broker, wire, seen, slip>>
    BY <1>14 DEF Plan
  <2>2. CASE pc' = "create"
    <3>1. PICK q \in 1..MaxOrder : quantity' = [quantity EXCEPT ![cur'] = q]
      BY <1>14, <2>2, PlannedOrder
    <3>2. /\ cur' \in Ids /\ filled[cur'] = 0 /\ side' = side /\ raced' = raced + slip
      BY <1>14, <2>2, PlannedOrder
    <3>3. raced' \in Nat /\ q \in 0..MaxOrder /\ 0 <= q
      BY <3>1, <3>2, Numbers, LotsAssumption
    <3>4. quantity' \in [Ids -> 0..MaxOrder] /\ \A o \in Ids : filled[o] <= quantity'[o]
      BY <3>1, <3>2, <3>3 DEF TypeOK
    <3> QED
      BY <2>1, <2>2, <3>2, <3>3, <3>4 DEF TypeOK, Ids
  <2>3. CASE pc' # "create"
    <3>1. UNCHANGED <<cur, quantity, raced>> /\ side' \in Sides /\ pc' \in {"sync", "ended"}
      BY <1>14, <2>3 DEF Plan, NextSide, TypeOK, Sides
    <3> QED
      BY <2>1, <3>1 DEF TypeOK, Ids
  <2> QED
    BY <2>2, <2>3
<1>15. CASE UNCHANGED vars
  BY <1>15 DEF vars, TypeOK, Ids
<1>16. CASE End
  BY <1>16 DEF End, Rest, TypeOK, Ids, Sides
<1> QED
  BY <1>1, <1>2, <1>3, <1>4, <1>5, <1>6, <1>7, <1>8, <1>9, <1>10, <1>11, <1>12, <1>13, <1>14, <1>15, <1>16 DEF Next

\* What the database knows of the wire and of the broker survives every step.
LEMMA WireStep ==
    ASSUME FreshInv, TypeOK, WireInv, OrderFits, [Next]_vars
    PROVE  WireInv'
<1> USE DEF db, broker, history, seen
<1>1. CASE UNCHANGED <<intent, bstate, filled, wire>>
  BY <1>1 DEF WireInv, Live, OpenAtBroker, Ours, Ids
<1>2. CASE Begin \/ Crash \/ End \/ ReadPositions \/ ReadOpenOrders \/ Plan \/ CreateFails \/ UNCHANGED vars
  BY <1>1, <1>2 DEF Begin, Crash, End, ReadPositions, ReadOpenOrders, Plan, CreateFails, vars
<1>3. CASE Create
  <2>1. /\ intent' = [intent EXCEPT ![cur] = "open"] /\ intent[cur] = "none"
        /\ UNCHANGED <<bstate, filled, wire>>
    BY <1>3 DEF Create
  <2> QED
    BY <2>1 DEF WireInv, Live, OpenAtBroker, Ours, TypeOK, Ids
<1>4. CASE Transmit
  <2>1. /\ wire' = wire \cup {cur} /\ UNCHANGED <<intent, bstate, filled>>
        /\ cur \in Ids /\ bstate[cur] = "none" /\ cur \in Ours
    BY <1>4 DEF Transmit, OrderFits
  <2> QED
    BY <2>1 DEF WireInv, Live, OpenAtBroker, Ours, Ids
<1>5. CASE Sync
  <2>1. /\ \A i \in Ids : intent'[i] \in IF intent[i] \in {"open", "unknown"}
                                          THEN Adopted(i) ELSE {intent[i]}
        /\ UNCHANGED <<bstate, filled, wire>>
    BY <1>5 DEF Sync
  <2>2. \A i \in Ids : /\ i \in Live /\ i \in Ours => intent'[i] \in {"open", "unknown"}
                       /\ intent[i] # "none" => intent'[i] # "none"
    BY <2>1 DEF Adopted, Live, OpenAtBroker, Ours, WireInv
  <2> QED
    BY <2>1, <2>2 DEF WireInv, Live, OpenAtBroker, Ours, Ids
<1>6. CASE Answered \/ TimeOut
  <2>1. /\ cur \in Ids /\ intent[cur] # "none" /\ UNCHANGED <<bstate, filled, wire>>
        /\ \E state \in {"open", "unknown", bstate[cur]} \ {"none"} : Store(state)
    BY <1>6 DEF Answered, TimeOut, Adopted, FreshInv, CurInv
  <2>2. PICK state \in {"open", "unknown", bstate[cur]} \ {"none"} :
          intent' = [intent EXCEPT ![cur] = state]
    BY <2>1 DEF Store
  <2> QED
    BY <2>1, <2>2 DEF WireInv, Live, OpenAtBroker, Ours, TypeOK, Ids
<1>7. ASSUME NEW i \in Ids, Accept(i) PROVE WireInv'
  BY <1>7 DEF Accept, WireInv, Live, OpenAtBroker, Ours, TypeOK, Ids
<1>8. ASSUME NEW i \in Ids, Refuse(i) PROVE WireInv'
  <2>1. wire' = wire \ {i} /\ bstate[i] = "none" /\ UNCHANGED <<bstate, filled>>
    BY <1>8 DEF Refuse
  <2>2. intent' = [intent EXCEPT ![i] = "closed"] \/ UNCHANGED intent
    BY <1>8 DEF Refuse, Store
  <2> QED
    BY <2>1, <2>2 DEF WireInv, Live, OpenAtBroker, Ours, TypeOK, Ids
<1>9. ASSUME NEW i \in Ids, Lose(i) PROVE WireInv'
  BY <1>9 DEF Lose, WireInv, Live, OpenAtBroker, Ours, TypeOK, Ids
<1>10. ASSUME NEW i \in Ids, Expire(i) PROVE WireInv'
  BY <1>10 DEF Expire, WireInv, Live, OpenAtBroker, Ours, TypeOK, Ids
<1>11. ASSUME NEW i \in Ids, Fill(i) PROVE WireInv'
  <2>1. PICK q \in 1..Remaining[i] : /\ filled' = [filled EXCEPT ![i] = @ + q]
          /\ bstate' = [bstate EXCEPT ![i] = IF q = Remaining[i] THEN "closed" ELSE "open"]
    BY <1>11 DEF Fill
  <2>2. bstate[i] = "open" /\ UNCHANGED <<intent, wire>>
    BY <1>11 DEF Fill
  <2> QED
    BY <2>1, <2>2 DEF WireInv, Live, OpenAtBroker, Ours, TypeOK, Ids
<1> QED
  BY <1>2, <1>3, <1>4, <1>5, <1>6, <1>7, <1>8, <1>9, <1>10, <1>11 DEF Next

LEMMA CoverKept ==
    ASSUME TypeOK, TypeOK', CoverInv, OpenAtBroker' \subseteq OpenAtBroker, UNCHANGED position,
           \A i \in OpenAtBroker' : filled'[i] = filled[i] /\ quantity'[i] = quantity[i]
    PROVE  CoverInv'
<1> DEFINE before == Cardinality(LotsLeft(filled, quantity, On("sell", OpenAtBroker)))
           after  == Cardinality(LotsLeft(filled', quantity', On("sell", OpenAtBroker')))
<1>1. after <= before
  BY Typed, LeftFewer
<1>2. before \in Nat /\ after \in Nat
  BY Typed, TypedAfter, LeftTyped
<1>3. position >= before /\ position \in Nat
  BY Typed DEF CoverInv, Left
<1>4. position' >= after
  <2> HIDE DEF before, after
  <2> QED
    BY <1>1, <1>2, <1>3
<1> QED
  BY <1>4 DEF CoverInv, Left

\* Shares are never sold twice: a sale is accepted against what is not reserved.
LEMMA CoverStep ==
    ASSUME FreshInv, TypeOK, TypeOK', WireInv, CoverInv, [Next]_vars
    PROVE  CoverInv'
<1> USE DEF db, broker, history, seen
<1>1. CASE UNCHANGED <<bstate, filled, position, quantity>>
  BY <1>1, CoverKept DEF OpenAtBroker
<1>2. CASE Begin \/ Crash \/ End \/ Sync \/ ReadPositions \/ ReadOpenOrders \/ Create \/ CreateFails
           \/ Transmit \/ Answered \/ TimeOut \/ UNCHANGED vars
  BY <1>1, <1>2 DEF Begin, Crash, End, Sync, ReadPositions, ReadOpenOrders, Create, CreateFails,
                    Transmit, Answered, TimeOut, vars
<1>3. ASSUME NEW i \in Ids, Refuse(i) \/ Lose(i) PROVE CoverInv'
  BY <1>1, <1>3 DEF Refuse, Lose
<1>4. ASSUME NEW i \in Ids, Expire(i) PROVE CoverInv'
  <2>1. UNCHANGED <<filled, position, quantity>> /\ OpenAtBroker' \subseteq OpenAtBroker
    BY <1>4 DEF Expire, OpenAtBroker, TypeOK
  <2> QED
    BY <2>1, CoverKept
<1>5. CASE Plan
  <2>1. UNCHANGED <<bstate, filled, position>> /\ OpenAtBroker' = OpenAtBroker
    BY <1>5 DEF Plan, OpenAtBroker
  <2>2. CASE pc' = "create"
    <3>1. \A i \in OpenAtBroker : i # cur'
      BY <1>5, <2>2, PlannedOrder DEF Live
    <3>2. \A i \in OpenAtBroker : quantity'[i] = quantity[i]
      BY <1>5, <2>2, <3>1, PlannedOrder DEF OpenAtBroker, TypeOK
    <3> QED
      BY <2>1, <3>2, CoverKept
  <2>3. CASE pc' # "create"
    BY <1>1, <1>5, <2>1, <2>3 DEF Plan
  <2> QED
    BY <2>2, <2>3
<1>6. ASSUME NEW i \in Ids, Accept(i) PROVE CoverInv'
  <2>1. /\ bstate' = [bstate EXCEPT ![i] = "open"] /\ bstate[i] = "none"
        /\ UNCHANGED <<position, filled, quantity>> /\ Covered(i) /\ filled[i] = 0
    BY <1>6 DEF Accept, WireInv
  <2>2. OpenAtBroker' = OpenAtBroker \cup {i} /\ i \notin OpenAtBroker
    BY <2>1 DEF OpenAtBroker, TypeOK
  <2>3. CASE i[1] # "sell"
    <3>1. On("sell", OpenAtBroker') = On("sell", OpenAtBroker)
      BY <2>2, <2>3 DEF On
    <3> QED
      BY <2>1, <3>1 DEF CoverInv, Left
  <2>4. CASE i[1] = "sell"
    <3> DEFINE S == On("sell", OpenAtBroker')
               before == Cardinality(LotsLeft(filled, quantity, S \ {i}))
    <3>1. S \ {i} = On("sell", OpenAtBroker) /\ i \in S /\ S \in SUBSET Ids
      BY <2>2, <2>4, Typed DEF On
    <3>2. Cardinality(LotsLeft(filled, quantity, S)) = before + (quantity[i] - filled[i])
      BY <3>1, Typed, Numbers, LotsSplit
    <3>3. quantity[i] <= position - before
      BY <2>1, <2>4, <3>1 DEF Covered, Left
    <3>4. before \in Nat
      BY <3>1, Typed, LotsAreFinite
    <3>5. position' >= Cardinality(LotsLeft(filled, quantity, S))
      <4> HIDE DEF S, before
      <4> QED
        BY <2>1, <3>2, <3>3, <3>4, Numbers
    <3> QED
      BY <2>1, <3>5 DEF CoverInv, Left
  <2> QED
    BY <2>3, <2>4
<1>7. ASSUME NEW i \in Ids, Fill(i) PROVE CoverInv'
  <2>1. PICK q \in 1..Remaining[i] :
          /\ filled'   = [filled EXCEPT ![i] = @ + q]
          /\ position' = IF i[1] = "buy" THEN position + q ELSE position - q
          /\ bstate'   = [bstate EXCEPT ![i] = IF q = Remaining[i] THEN "closed" ELSE "open"]
    BY <1>7 DEF Fill
  <2>2. UNCHANGED quantity /\ i \in OpenAtBroker
    BY <1>7 DEF Fill, OpenAtBroker
  <2>3. /\ q \in Nat /\ q <= quantity[i] - filled[i] /\ filled[i] <= quantity[i]
    BY Numbers
  <2>4. \A o \in Ids : o # i => filled'[o] = filled[o]
    BY <2>1 DEF TypeOK
  <2>5. filled'[i] = filled[i] + q
    BY <2>1 DEF TypeOK
  <2>6. \/ OpenAtBroker' = OpenAtBroker
        \/ (q = quantity[i] - filled[i] /\ OpenAtBroker' = OpenAtBroker \ {i})
    BY <2>1, <2>2, Numbers DEF OpenAtBroker, TypeOK
  <2> DEFINE S == On("sell", OpenAtBroker)
             T == On("sell", OpenAtBroker')
  <2>7. S \in SUBSET Ids /\ filled \in Quantities /\ quantity \in Quantities /\ filled' \in Quantities
    BY Typed, TypedAfter DEF On
  <2>8. position >= Cardinality(LotsLeft(filled, quantity, S)) /\ position \in Nat
    BY Numbers DEF CoverInv, Left
  <2>9. Cardinality(LotsLeft(filled, quantity, S)) \in Nat
    BY <2>7, LotsAreFinite
  <2>10. CASE i[1] = "sell"
    <3>1. i \in S /\ (T = S \/ (q = quantity[i] - filled[i] /\ T = S \ {i}))
      BY <2>2, <2>6, <2>10 DEF On
    <3>2. \A o \in S : o # i => filled'[o] = filled[o]
      BY <2>4, <2>7
    <3>3. Cardinality(LotsLeft(filled', quantity, T)) = Cardinality(LotsLeft(filled, quantity, S)) - q
      <4> HIDE DEF S, T
      <4> QED
        BY <2>3, <2>5, <2>7, <3>1, <3>2, LotsFilled
    <3>4. position' = position - q
      BY <2>1, <2>10
    <3>5. position' >= Cardinality(LotsLeft(filled', quantity, T))
      <4> HIDE DEF S, T
      <4> QED
        BY <2>3, <2>8, <2>9, <3>3, <3>4
    <3> QED
      BY <2>2, <3>5 DEF CoverInv, Left
  <2>11. CASE i[1] # "sell"
    <3>1. T = S
      BY <2>6, <2>11 DEF On
    <3>2. \A o \in S : filled[o] = filled'[o] /\ quantity[o] = quantity[o]
      BY <2>4, <2>7, <2>11 DEF On
    <3>3. LotsLeft(filled', quantity, S) = LotsLeft(filled, quantity, S)
      BY <3>2, LotsSame
    <3>4. position' = position + q
      BY <2>1, <2>11 DEF Ids, Sides
    <3>5. position' >= Cardinality(LotsLeft(filled', quantity, T))
      BY <2>3, <2>8, <2>9, <3>1, <3>3, <3>4
    <3> QED
      BY <2>2, <3>5 DEF CoverInv, Left
  <2> QED
    BY <2>10, <2>11
<1> QED
  BY <1>2, <1>3, <1>4, <1>5, <1>6, <1>7 DEF Next

-----------------------------------------------------------------------------
(***************************************************************************)
(* The bounds.                                                             *)
(***************************************************************************)
\* A step that lets no more fill, plans nothing and reads nothing.
Calm ==
    /\ Falls
    /\ UNCHANGED <<target, start, raced>> /\ wire' \subseteq wire
    /\ pc' \in {"create", "transmit"} =>
         /\ pc \in {"create", "transmit"} /\ UNCHANGED <<cur, side, quantity>>
         /\ cur \in Ids => bstate'[cur] = bstate[cur]
         /\ pc' = "transmit" => cur \in Ours'
    /\ pc' = "plan" => pc = "plan" /\ UNCHANGED <<intent, seen, slip>>

LEMMA CalmBounds ==
    ASSUME TypeOK, LotsInv, Calm
    PROVE  BoundsInv' /\ OrderFits' /\ ReadsAgree'
<1>1. /\ Buys \in Nat /\ Sells \in Nat /\ position \in Nat /\ Highest \in Int /\ Lowest \in Int
      /\ Upper \in Nat /\ Lower \in Nat /\ raced \in Nat /\ target \in Nat
  BY Typed DEF Highest, Lowest
<1>2. /\ Buys' \in Nat /\ Sells' \in Nat /\ Highest' \in Int /\ Lowest' \in Int
      /\ Buys' <= Buys /\ Sells' <= Sells /\ Highest' <= Highest /\ Lowest' >= Lowest
  BY DEF Calm, Falls, Highest, Lowest
<1>3. Upper' = Upper /\ Lower' = Lower /\ raced' = raced /\ target' = target
  BY DEF Calm, Upper, Lower
<1>4. BoundsInv'
  BY <1>1, <1>2, <1>3 DEF LotsInv, BoundsInv
<1>5. OrderFits'
  <2> SUFFICES ASSUME pc' \in {"create", "transmit"} PROVE OrderFits'
    BY DEF OrderFits
  <2>1. /\ pc \in {"create", "transmit"} /\ UNCHANGED <<cur, side, quantity>> /\ cur \in Ids
        /\ bstate'[cur] = bstate[cur] /\ (pc' = "transmit" => cur \in Ours')
        /\ cur \notin wire' /\ bstate[cur] = "none" /\ cur[1] = side
    BY DEF Calm, LotsInv, OrderFits
  <2>2. quantity[cur] \in Nat
    BY <2>1, Numbers
  <2>3. side = "buy" => /\ Highest + quantity[cur] <= Upper + raced
                        /\ Buys + quantity[cur] <= target - Lower + raced
    BY <2>1 DEF LotsInv, OrderFits
  <2>4. side = "sell" => /\ Lowest - quantity[cur] >= Lower - raced
                         /\ Sells + quantity[cur] <= Upper - target + raced
    BY <2>1 DEF LotsInv, OrderFits
  <2>5. side = "buy" => /\ Highest' + quantity[cur] <= Upper + raced
                        /\ Buys' + quantity[cur] <= target - Lower + raced
    BY <1>1, <1>2, <2>2, <2>3
  <2>6. side = "sell" => /\ Lowest' - quantity[cur] >= Lower - raced
                         /\ Sells' + quantity[cur] <= Upper - target + raced
    BY <1>1, <1>2, <2>2, <2>4
  <2> QED
    BY <1>3, <2>1, <2>5, <2>6 DEF OrderFits, Ids
<1>6. ReadsAgree'
  <2> SUFFICES ASSUME pc' = "plan", ~Refused' PROVE wire' = {} /\ \E b, s \in Nat : Shown(b, s)'
    BY DEF ReadsAgree
  <2>1. pc = "plan" /\ UNCHANGED <<intent, seenPosition, seenOpen, seenPending, slip>>
    BY DEF Calm, seen
  <2>2. ~Refused
    BY <2>1 DEF Refused, Ours, Ids
  <2>3. wire' = {}
    BY <2>1, <2>2 DEF Calm, LotsInv, ReadsAgree
  <2>4. PICK b, s \in Nat : Shown(b, s)
    BY <2>1, <2>2 DEF LotsInv, ReadsAgree
  <2>5. Shown(b, s)'
    BY <1>1, <1>2, <1>3, <2>1, <2>4, Numbers DEF Shown
  <2> QED
    BY <2>3, <2>5
<1> QED
  BY <1>4, <1>5, <1>6

\* Sending the order in hand uses the room there is for it.
LEMMA TransmitStep ==
    ASSUME TypeOK, TypeOK', WireInv, LotsInv, Transmit
    PROVE  LotsInv'
<1>1. /\ wire' = wire \cup {cur} /\ pc = "transmit" /\ pc' = "await"
      /\ UNCHANGED <<target, start, position, bstate, filled, quantity, raced>>
      /\ cur \in Ids /\ cur \notin wire /\ bstate[cur] = "none" /\ cur[1] = side
  BY DEF Transmit, broker, history, LotsInv, OrderFits
<1>2. Live' = Live \cup {cur} /\ cur \notin Live /\ filled[cur] = 0
  BY <1>1 DEF Live, OpenAtBroker, WireInv
<1>3. /\ filled \in Quantities /\ quantity \in Quantities /\ Live' \in SUBSET Ids
      /\ Buys \in Nat /\ Sells \in Nat /\ position \in Nat /\ quantity[cur] \in Nat
  BY <1>1, Typed, TypedAfter, Numbers
<1>4. ASSUME NEW s, cur[1] = s
      PROVE  Cardinality(LotsLeft(filled, quantity, On(s, Live')))
               = Cardinality(LotsLeft(filled, quantity, On(s, Live))) + quantity[cur]
  <2>1. On(s, Live') \in SUBSET Ids /\ cur \in On(s, Live') /\ On(s, Live') \ {cur} = On(s, Live)
    BY <1>2, <1>3, <1>4 DEF On
  <2>2. Cardinality(LotsLeft(filled, quantity, On(s, Live')))
          = Cardinality(LotsLeft(filled, quantity, On(s, Live') \ {cur})) + (quantity[cur] - filled[cur])
    BY <1>1, <1>3, <2>1, Numbers, LotsSplit
  <2>3. quantity[cur] - filled[cur] = quantity[cur]
    BY <1>2, <1>3
  <2> QED
    BY <2>1, <2>2, <2>3
<1>5. ASSUME NEW s, cur[1] # s PROVE On(s, Live') = On(s, Live)
  BY <1>2, <1>5 DEF On
<1>6. /\ side = "buy"  => Buys' = Buys + quantity[cur] /\ Sells' = Sells
      /\ side = "sell" => Sells' = Sells + quantity[cur] /\ Buys' = Buys
  BY <1>1, <1>4, <1>5 DEF Buys, Sells, Left
<1>7. Upper' = Upper /\ Lower' = Lower /\ side \in {"buy", "sell"}
  BY <1>1 DEF Upper, Lower, TypeOK, Sides
<1>8. BoundsInv'
  <2>1. CASE side = "buy"
    <3>1. Highest + quantity[cur] <= Upper + raced /\ Buys + quantity[cur] <= target - Lower + raced
      BY <1>1, <2>1 DEF LotsInv, OrderFits
    <3>2. Highest' = Highest + quantity[cur] /\ Lowest' = Lowest
      BY <1>1, <1>3, <1>6, <2>1 DEF Highest, Lowest
    <3> QED
      BY <1>1, <1>6, <1>7, <2>1, <3>1, <3>2 DEF LotsInv, BoundsInv
  <2>2. CASE side = "sell"
    <3>1. Lowest - quantity[cur] >= Lower - raced /\ Sells + quantity[cur] <= Upper - target + raced
      BY <1>1, <2>2 DEF LotsInv, OrderFits
    <3>2. Lowest' = Lowest - quantity[cur] /\ Highest' = Highest
      BY <1>1, <1>3, <1>6, <2>2 DEF Highest, Lowest
    <3> QED
      BY <1>1, <1>6, <1>7, <2>2, <3>1, <3>2 DEF LotsInv, BoundsInv
  <2> QED
    BY <1>7, <2>1, <2>2
<1> QED
  BY <1>1, <1>8 DEF LotsInv, OrderFits, PositionRead, ReadsAgree

\* The open orders are read: what fills after this moves with the plan, what
\* filled before it is in slip, or makes the plan refuse.
LEMMA ReadStep ==
    ASSUME TypeOK, TypeOK', WireInv, LotsInv, ReadOpenOrders
    PROVE  LotsInv'
<1> DEFINE b == Left(On("buy", OpenAtBroker))
           s == Left(On("sell", OpenAtBroker))
<1>1. /\ pc = "orders" /\ pc' = "plan" /\ seenOpen' = OpenAtBroker /\ seenPending' = b - s
      /\ UNCHANGED <<target, start, intent, position, bstate, filled, quantity, wire, seenPosition,
                     slip, raced>>
  BY DEF ReadOpenOrders, db, broker, history
<1>2. UNCHANGED <<Buys, Sells, Highest, Lowest, Upper, Lower>>
  BY <1>1 DEF Buys, Sells, Highest, Lowest, Upper, Lower, Left, Live, OpenAtBroker
<1>3. BoundsInv'
  BY <1>1, <1>2 DEF LotsInv, BoundsInv
<1>4. ASSUME ~Refused' PROVE wire' = {} /\ \E x, y \in Nat : Shown(x, y)'
  <2>1. Ours \subseteq OpenAtBroker
    BY <1>1, <1>4 DEF Refused, Ours
  <2>2. wire = {} /\ ~\E i \in Ours : bstate[i] = "closed"
    BY <2>1 DEF WireInv, Live, OpenAtBroker, TypeOK
  <2>3. Live = OpenAtBroker
    BY <2>2 DEF Live
  <2>4. b = Buys /\ s = Sells
    BY <2>3 DEF Buys, Sells
  <2>5. seenPosition - slip <= position /\ position <= seenPosition + slip
    BY <1>1, <2>2 DEF LotsInv, PositionRead
  <2>6. Shown(Buys, Sells)'
    <3>1. /\ Buys \in Nat /\ Sells \in Nat /\ position \in Nat /\ Upper \in Nat /\ Lower \in Nat
          /\ raced \in Nat /\ target \in Nat /\ slip \in Nat /\ seenPosition \in Nat
      BY Typed, Numbers
    <3>2. /\ Highest = position + Buys /\ Lowest = position - Sells
          /\ Highest <= Upper + raced /\ Lowest >= Lower - raced
          /\ Buys <= target - Lower + raced /\ Sells <= Upper - target + raced
      BY DEF Highest, Lowest, LotsInv, BoundsInv
    <3>3. seenPending' = Buys - Sells
      BY <1>1, <2>4
    <3>4. /\ Buys' = Buys /\ Sells' = Sells /\ Highest' = Highest /\ Lowest' = Lowest
          /\ Upper' = Upper /\ Lower' = Lower /\ target' = target /\ raced' = raced
          /\ slip' = slip /\ seenPosition' = seenPosition
      BY <1>1, <1>2
    <3> HIDE DEF b, s
    <3> QED
      BY <2>5, <3>1, <3>2, <3>3, <3>4 DEF Shown
  <2> QED
    BY <1>1, <1>2, <2>2, <2>6, Typed
<1> QED
  BY <1>1, <1>3, <1>4 DEF LotsInv, OrderFits, PositionRead, ReadsAgree

\* A planned order fits between what can still fill and the target, up to the lots
\* that slipped between the reads.
LEMMA PlanLots ==
    ASSUME FreshInv, TypeOK, TypeOK', WireInv, LotsInv, Plan
    PROVE  LotsInv'
<1>1. UNCHANGED <<target, start, intent, position, bstate, filled, wire, slip>>
  BY DEF Plan, db, broker
<1>2. \A i \in Live' : i \in Live /\ filled'[i] = filled[i] /\ quantity'[i] = quantity[i]
  <2>1. Live' = Live
    BY <1>1 DEF Live, OpenAtBroker
  <2>2. CASE pc' = "create"
    <3>1. PICK q \in 1..MaxOrder : quantity' = [quantity EXCEPT ![cur'] = q]
      BY <2>2, PlannedOrder
    <3>2. cur' \notin Live
      BY <2>2, PlannedOrder
    <3> QED
      BY <1>1, <2>1, <3>1, <3>2, Typed DEF TypeOK
  <2>3. CASE pc' # "create"
    BY <1>1, <2>1, <2>3 DEF Plan
  <2> QED
    BY <2>2, <2>3
<1>3. Falls
  BY <1>1, <1>2, FewerFall
<1>4. CASE pc' # "create"
  <2>1. UNCHANGED raced /\ pc' \in {"ended", "sync"}
    BY <1>4 DEF Plan, NextSide
  <2>2. Calm
    BY <1>1, <1>3, <2>1 DEF Calm
  <2> QED
    BY <2>1, <2>2, CalmBounds DEF LotsInv, PositionRead
<1>5. CASE pc' = "create"
  <2>1. /\ cur' \in Ids /\ cur'[1] = side /\ side' = side /\ Wanted = side /\ ~Refused
        /\ bstate[cur'] = "none" /\ cur' \notin Live /\ raced' = raced + slip /\ pc = "plan"
    BY <1>5, PlannedOrder DEF Plan
  <2>2. PICK q \in 1..MaxOrder : q <= Size /\ quantity' = [quantity EXCEPT ![cur'] = q]
    BY <1>5, PlannedOrder
  <2>3. quantity'[cur'] = q /\ q \in Nat /\ q <= Size
    <3>1. quantity'[cur'] = q
      BY <2>1, <2>2 DEF TypeOK
    <3>2. q \in Nat
      BY LotsAssumption
    <3> QED
      BY <2>2, <3>1, <3>2
  <2>4. PICK b, s \in Nat : Shown(b, s)
    BY <2>1 DEF LotsInv, ReadsAgree
  <2>5. /\ Buys \in Nat /\ Sells \in Nat /\ Highest \in Int /\ Lowest \in Int
        /\ Upper \in Nat /\ Lower \in Nat /\ raced \in Nat /\ target \in Nat
        /\ slip \in Nat /\ seenPosition \in Nat /\ seenPending \in Int
    BY Typed, Numbers DEF Highest, Lowest
  <2>6. /\ Buys' \in Nat /\ Sells' \in Nat /\ Highest' \in Int /\ Lowest' \in Int
        /\ Buys' <= Buys /\ Sells' <= Sells /\ Highest' <= Highest /\ Lowest' >= Lowest
    BY <1>3 DEF Falls, Highest, Lowest
  <2>7. Upper' = Upper /\ Lower' = Lower /\ target' = target
    BY <1>1 DEF Upper, Lower
  <2>8. BoundsInv'
    BY <2>1, <2>5, <2>6, <2>7 DEF LotsInv, BoundsInv
  <2>9. side = "buy" => q <= target - seenPosition - seenPending
    BY <2>1, <2>3, <2>5 DEF Wanted, Size, Delta
  <2>10. side = "sell" => q <= seenPosition + seenPending - target
    BY <2>1, <2>3, <2>5 DEF Wanted, Size, Delta
  <2>11. /\ seenPending = b - s
        /\ b <= target - Lower + raced /\ s <= Upper - target + raced
        /\ seenPosition + b <= Upper + raced + slip
        /\ seenPosition - s >= Lower - raced - slip
        /\ Buys <= b /\ Sells <= s
        /\ Highest <= seenPosition + b + slip
        /\ Lowest >= seenPosition - s - slip
    BY <2>4 DEF Shown
  <2>12. raced' = raced + slip /\ q \in Nat
    BY <2>1, <2>3
  <2>13. side = "buy"  => /\ Highest' + q <= Upper + raced'
                          /\ Buys' + q <= target - Lower + raced'
    <3> SUFFICES ASSUME side = "buy"
                 PROVE  Highest' + q <= Upper + raced' /\ Buys' + q <= target - Lower + raced'
      OBVIOUS
    <3>1. PICK h \in Int, n \in Int : h = Highest' /\ n = Buys' /\ h <= Highest /\ n <= Buys
      BY <2>6
    <3>2. h + q <= Upper + (raced + slip) /\ n + q <= target - Lower + (raced + slip)
      <4>1. h <= Highest /\ n <= Buys
        BY <3>1
      <4>2. q \in Nat
        BY <2>12
      <4> QED
        BY <2>5, <2>9, <2>11, <4>1, <4>2
    <3> QED
      BY <2>12, <3>1, <3>2
  <2>14. side = "sell" => /\ Lowest' - q >= Lower - raced'
                          /\ Sells' + q <= Upper - target + raced'
    <3> SUFFICES ASSUME side = "sell"
                 PROVE  Lowest' - q >= Lower - raced' /\ Sells' + q <= Upper - target + raced'
      OBVIOUS
    <3>1. PICK h \in Int, n \in Int : h = Lowest' /\ n = Sells' /\ h >= Lowest /\ n <= Sells
      BY <2>6
    <3>2. h - q >= Lower - (raced + slip) /\ n + q <= Upper - target + (raced + slip)
      <4>1. h >= Lowest /\ n <= Sells
        BY <3>1
      <4>2. q \in Nat
        BY <2>12
      <4> QED
        BY <2>5, <2>10, <2>11, <4>1, <4>2
    <3> QED
      BY <2>12, <3>1, <3>2
  <2>15. OrderFits'
    BY <1>1, <1>5, <2>1, <2>3, <2>7, <2>13, <2>14 DEF OrderFits, Live, Ids
  <2> QED
    BY <1>5, <2>8, <2>15 DEF LotsInv, PositionRead, ReadsAgree
<1> QED
  BY <1>4, <1>5

\* Between the calls for the positions and for the open orders.
LEMMA PositionStep ==
    ASSUME TypeOK, TypeOK', WireInv, PositionRead, [Next]_vars,
           pc' = "orders"
    PROVE  PositionRead'
<1> USE DEF db, broker, history, seen
<1>1. CASE ReadPositions
  <2>1. seenPosition' = position /\ slip' = 0 /\ position' = position /\ position \in Nat
    BY <1>1, Numbers DEF ReadPositions
  <2>2. seenPosition' - slip' <= position' /\ position' <= seenPosition' + slip'
    BY <2>1
  <2> QED
    BY <2>2 DEF PositionRead
<1>2. ASSUME UNCHANGED <<pc, seenPosition, slip, intent, position>>,
             \A i \in Ids : bstate[i] = "closed" => bstate'[i] = "closed"
      PROVE  PositionRead'
  BY <1>2 DEF PositionRead, Ours, Ids
<1>3. ASSUME NEW i \in Ids, Fill(i) PROVE PositionRead'
  <2>1. PICK q \in 1..Remaining[i] :
          /\ position' = IF i[1] = "buy" THEN position + q ELSE position - q
          /\ bstate'   = [bstate EXCEPT ![i] = IF q = Remaining[i] THEN "closed" ELSE "open"]
          /\ slip'     = IF pc = "orders" /\ q < Remaining[i] THEN slip + q ELSE slip
    BY <1>3 DEF Fill
  <2>2. UNCHANGED <<pc, seenPosition, intent>> /\ bstate[i] = "open" /\ i \in Ours
    BY <1>3 DEF Fill, WireInv, Live, OpenAtBroker
  <2>3. q \in Nat /\ q <= Remaining[i] /\ Remaining[i] \in Nat
    <3>1. Remaining[i] \in Int
      BY Numbers
    <3> QED
      BY <3>1
  <2>4. CASE q = Remaining[i]
    <3>1. bstate'[i] = "closed" /\ i \in Ours'
      BY <2>1, <2>2, <2>4 DEF TypeOK, Ours
    <3> QED
      BY <3>1 DEF PositionRead
  <2>5. CASE q < Remaining[i]
    <3>1. slip' = slip + q /\ (position' = position + q \/ position' = position - q)
      BY <2>1, <2>2, <2>5
    <3>2. CASE \E o \in Ours : bstate[o] = "closed"
      BY <2>1, <2>2, <3>2 DEF PositionRead, Ours, TypeOK
    <3>3. CASE seenPosition - slip <= position /\ position <= seenPosition + slip
      <4>1. seenPosition' = seenPosition
        BY <2>2
      <4>2. /\ seenPosition \in Nat /\ slip \in Nat /\ position \in Nat
        BY Numbers
      <4>3. seenPosition' - slip' <= position' /\ position' <= seenPosition' + slip'
        BY <2>3, <3>1, <3>3, <4>1, <4>2
      <4> QED
        BY <4>3 DEF PositionRead
    <3> QED
      BY <2>2, <3>2, <3>3 DEF PositionRead
  <2>6. q = Remaining[i] \/ q < Remaining[i]
    BY <2>3
  <2> QED
    BY <2>4, <2>5, <2>6
<1>4. ASSUME NEW i \in Ids, Accept(i) \/ Refuse(i) \/ Lose(i) \/ Expire(i) PROVE PositionRead'
  <2>1. pc = "orders"
    BY <1>4 DEF Accept, Refuse, Lose, Expire, NextSide
  <2>2. UNCHANGED <<pc, seenPosition, slip, intent, position>>
    BY <1>4, <2>1 DEF Accept, Refuse, Lose, Expire
  <2>3. \A o \in Ids : bstate[o] = "closed" => bstate'[o] = "closed"
    BY <1>4 DEF Accept, Refuse, Lose, Expire, TypeOK
  <2> QED
    BY <1>2, <2>2, <2>3
<1>5. CASE UNCHANGED vars
  BY <1>2, <1>5 DEF vars
<1> QED
  BY <1>1, <1>3, <1>4, <1>5 DEF Next, Begin, Crash, End, Sync, ReadOpenOrders, Plan, NextSide, Create,
     CreateFails, Transmit, Answered, TimeOut

\* Every other step is calm.
LEMMA CalmStep ==
    ASSUME FreshInv, TypeOK, TypeOK', WireInv, LotsInv, [Next]_vars,
           ~Plan, ~Transmit, ~ReadOpenOrders
    PROVE  Calm
<1> USE DEF db, broker, history, seen
<1>1. ASSUME UNCHANGED <<position, filled, quantity>>, Live' \subseteq Live PROVE Falls
  BY <1>1, FewerFall
<1>2. CASE Begin \/ Crash \/ End \/ Sync \/ ReadPositions \/ CreateFails \/ Answered \/ TimeOut \/ UNCHANGED vars
  <2>1. UNCHANGED <<target, start, raced, position, bstate, filled, quantity, wire>>
    BY <1>2 DEF Begin, Crash, End, Sync, ReadPositions, CreateFails, Answered, TimeOut, Rest, vars
  <2>2. Falls
    BY <1>1, <2>1 DEF Live, OpenAtBroker
  <2>3. (pc' \in {"create", "transmit", "plan"}) => UNCHANGED vars
    BY <1>2 DEF Begin, Crash, End, Sync, ReadPositions, CreateFails, Answered, TimeOut, NextSide
  <2>4. UNCHANGED vars => Calm
    BY <2>1, <2>2 DEF vars, Calm, LotsInv, OrderFits, Ours, Ids
  <2> QED
    BY <2>1, <2>2, <2>3, <2>4 DEF Calm
<1>3. CASE Create
  <2>1. /\ UNCHANGED <<target, start, raced, position, bstate, filled, quantity, wire, side, cur>>
        /\ pc = "create" /\ pc' = "transmit" /\ intent' = [intent EXCEPT ![cur] = "open"] /\ cur \in Ids
    BY <1>3 DEF Create, FreshInv, CurInv
  <2>2. Falls
    BY <1>1, <2>1 DEF Live, OpenAtBroker
  <2>3. cur \in Ours'
    BY <2>1 DEF Ours, TypeOK, Ids
  <2> QED
    BY <2>1, <2>2, <2>3 DEF Calm
<1>4. ASSUME NEW i \in Ids, Accept(i) \/ Lose(i) \/ Expire(i) PROVE Calm
  <2>1. /\ UNCHANGED <<target, start, intent, position, filled, quantity, pc, side, seen, cur, history>>
        /\ wire' \subseteq wire
        /\ \A o \in Ids : o \notin Live => bstate'[o] = bstate[o]
    BY <1>4 DEF Accept, Lose, Expire, Live, OpenAtBroker, TypeOK
  <2>2. Live' \subseteq Live
    BY <1>4 DEF Accept, Lose, Expire, Live, OpenAtBroker, TypeOK
  <2>3. Falls
    BY <1>1, <2>1, <2>2
  <2>4. pc \in {"create", "transmit"} => cur \notin Live
    BY DEF LotsInv, OrderFits, Live, OpenAtBroker
  <2> QED
    BY <2>1, <2>3, <2>4 DEF Calm, LotsInv, OrderFits, Ours, Ids
<1>5. ASSUME NEW i \in Ids, Refuse(i) PROVE Calm
  <2>1. /\ UNCHANGED <<target, start, position, bstate, filled, quantity, seen, cur, history>>
        /\ wire' \subseteq wire
        /\ \/ UNCHANGED <<intent, pc, side>>
           \/ pc' \in {"sync", "ended"}
    BY <1>5 DEF Refuse, NextSide
  <2>2. Falls
    BY <1>1, <2>1 DEF Live, OpenAtBroker
  <2> QED
    BY <2>1, <2>2 DEF Calm, LotsInv, OrderFits, Ours, Ids
<1>6. ASSUME NEW i \in Ids, Fill(i) PROVE Calm
  <2>1. /\ UNCHANGED <<target, start, intent, quantity, wire, pc, side, seen, cur, raced>>
        /\ pc # "orders" => slip' = slip
        /\ \A o \in Ids : o # i => bstate'[o] = bstate[o]
        /\ bstate[i] = "open"
    BY <1>6 DEF Fill, TypeOK
  <2>2. Falls
    BY <1>6, FillFalls
  <2>3. pc \in {"create", "transmit"} => cur # i
    BY <2>1 DEF LotsInv, OrderFits
  <2> QED
    BY <2>1, <2>2, <2>3 DEF Calm, LotsInv, OrderFits, Ours, Ids
<1> QED
  BY <1>2, <1>3, <1>4, <1>5, <1>6 DEF Next

LEMMA LotsStep ==
    ASSUME FreshInv, TypeOK, TypeOK', WireInv, LotsInv, [Next]_vars
    PROVE  LotsInv'
<1>1. CASE Plan
  BY <1>1, PlanLots
<1>2. CASE Transmit
  BY <1>2, TransmitStep
<1>3. CASE ReadOpenOrders
  BY <1>3, ReadStep
<1>4. CASE ~Plan /\ ~Transmit /\ ~ReadOpenOrders
  <2>1. BoundsInv' /\ OrderFits' /\ ReadsAgree'
    BY <1>4, CalmStep, CalmBounds
  <2>2. PositionRead'
    BY PositionStep DEF LotsInv, PositionRead
  <2> QED
    BY <2>1, <2>2 DEF LotsInv
<1> QED
  BY <1>1, <1>2, <1>3, <1>4

LEMMA PlanInit == Init => PlanInv
<1> SUFFICES ASSUME Init PROVE PlanInv
  OBVIOUS
<1>1. TypeOK
  <2>1. /\ target \in 0..MaxLots /\ start \in 0..MaxLots /\ start \in Nat /\ 0 \in 0..MaxOrder
    BY LotsAssumption DEF Init
  <2>2. /\ position = start /\ slip = 0 /\ raced = 0 /\ seenPosition = 0 /\ seenPending = 0
        /\ seenOpen = {} /\ wire = {} /\ cur = NoId /\ side = "sell" /\ pc = "idle" /\ done = FALSE
        /\ intent = [i \in Ids |-> "none"] /\ bstate = [i \in Ids |-> "none"]
        /\ quantity = [i \in Ids |-> 0] /\ filled = [i \in Ids |-> 0]
    BY DEF Init
  <2>3. \A i \in Ids : filled[i] <= quantity[i]
    BY <2>2
  <2>4. filled \in [Ids -> 0..MaxOrder] /\ quantity \in [Ids -> 0..MaxOrder]
    BY <2>1, <2>2
  <2>5. 0 \in Nat /\ 0 \in Int
    OBVIOUS
  <2> QED
    BY <2>1, <2>2, <2>3, <2>4, <2>5 DEF TypeOK, Sides
<1>2. OpenAtBroker = {} /\ Live = {}
  BY DEF Init, OpenAtBroker, Live
<1>3. ASSUME NEW s PROVE Left(On(s, {})) = 0
  <2>1. LotsLeft(filled, quantity, On(s, {})) = {}
    BY DEF LotsLeft, On
  <2> QED
    BY <2>1, FS_EmptySet DEF Left
<1>4. Buys = 0 /\ Sells = 0 /\ CoverInv
  <2>1. position \in Nat
    BY <1>1 DEF TypeOK
  <2> QED
    BY <1>2, <1>3, <2>1 DEF Buys, Sells, CoverInv
<1>5. WireInv
  BY <1>2 DEF Init, WireInv
<1>6. BoundsInv
  <2>1. position = start /\ raced = 0
    BY DEF Init
  <2> QED
    BY <1>1, <1>4, <2>1, Typed DEF BoundsInv, Highest, Lowest
<1>7. LotsInv
  BY <1>6 DEF Init, LotsInv, OrderFits, PositionRead, ReadsAgree
<1> QED
  BY <1>1, <1>4, <1>5, <1>7, FreshInit DEF PlanInv

\* ReplanningIsSafe, for any bound on lots, orders and order sizes.  The position
\* and all the orders that can still fill stay between where the session began and
\* the target, up to the lots that filled in a race with the reads, whatever is
\* lost, delayed, refused, expired or planned again after a crash.
THEOREM NothingIsOrderedTwice == Spec => []ReplanningIsSafe
<1>1. PlanInv => ReplanningIsSafe
  <2> SUFFICES ASSUME PlanInv PROVE ReplanningIsSafe
    OBVIOUS
  <2>1. PlannedIdsAreFresh
    BY NextIsFree DEF PlanInv, FreshInv, CurInv, PlanTypes, PlannedIdsAreFresh
  <2> QED
    BY <2>1 DEF PlanInv, LotsInv, BoundsInv, ReplanningIsSafe, OvershootIsRaced
<1>2. PlanInv /\ [Next]_vars => PlanInv'
  BY FreshStep, TypeStep, WireStep, CoverStep, LotsStep DEF PlanInv, LotsInv
<1> QED
  BY PlanInit, <1>1, <1>2, PTL DEF Spec
==============================================================================
