------------------------------ MODULE RiskProofs ------------------------------
(***************************************************************************)
(* Theorems about the risk engine and the allocation policy, for any       *)
(* instruments, limits that load, books, exposures and volatilities: the   *)
(* rules in their order approve what is within every limit, a freeze adds  *)
(* no risk, reductions pass, and a drawdown band stands; and about the     *)
(* ensemble, for any members and families: correlated members share one    *)
(* weight and no family is above its cap.  What a loop does is read off a  *)
(* set of states that no step leaves (StepByStep).                         *)
(***************************************************************************)
EXTENDS BacktestProofs, RiskEngine, Ensemble

-----------------------------------------------------------------------------
(* The risk engine: sums over the instruments. *)

\* What is kept by every step is kept by all of them.
LEMMA StepByStep ==
    ASSUME NEW N \in Nat, NEW g, NEW J, g[0] \in J[0],
           \A n \in 1 .. N : g[n - 1] \in J[n - 1] => g[n] \in J[n]
    PROVE  \A n \in 0 .. N : g[n] \in J[n]
<1> DEFINE S == {m \in 0 .. N : g[m] \notin J[m]}
<1>1. SUFFICES ASSUME S # {} PROVE FALSE
  OBVIOUS
<1>2. PICK m \in S : \A k \in S : m <= k
  <2>1. S \in SUBSET Nat
    OBVIOUS
  <2> HIDE DEF S
  <2> QED
    BY <1>1, <2>1, Smallest
<1>3. m \in 1 .. N /\ m - 1 \in 0 .. N /\ m - 1 \notin S
  BY <1>2
<1>4. g[m - 1] \in J[m - 1]
  BY <1>3
<1> QED
  BY <1>2, <1>3, <1>4

LEMMA InstrumentsAre ==
    /\ Len(Instruments) \in Nat /\ DOMAIN Instruments = 1 .. Len(Instruments)
    /\ \A n \in 1 .. Len(Instruments) : Instruments[n] \in Symbols3
    /\ \A s \in Symbols3 : \E n \in 1 .. Len(Instruments) : Instruments[n] = s
    /\ \A n, m \in 1 .. Len(Instruments) : n # m => Instruments[n] # Instruments[m]
<1>1. Len(Instruments) \in Nat /\ DOMAIN Instruments = 1 .. Len(Instruments)
  BY InstrumentsLoad, LenProperties
<1>2. Symbols3 = {Instruments[n] : n \in DOMAIN Instruments}
  BY DEF Symbols3, ToSet
<1>3. \A n, m \in DOMAIN Instruments : n < m => Instruments[n] # Instruments[m]
  BY InstrumentsLoad
<1>4. \A n, m \in 1 .. Len(Instruments) : n # m => Instruments[n] # Instruments[m]
  <2> SUFFICES ASSUME NEW n \in 1 .. Len(Instruments), NEW m \in 1 .. Len(Instruments), n # m
               PROVE  Instruments[n] # Instruments[m]
    OBVIOUS
  <2>1. n < m \/ m < n
    BY <1>1
  <2> QED
    BY <1>1, <1>3, <2>1
<1> QED
  BY <1>1, <1>2, <1>4

Amounts == [Symbols3 -> Int]
ListOf(f) == [n \in DOMAIN Instruments |-> f[Instruments[n]]]

LEMMA AmountsList ==
    ASSUME NEW f \in Amounts
    PROVE  /\ ListOf(f) \in Seq(Int) /\ Len(ListOf(f)) = Len(Instruments)
           /\ \A n \in 1 .. Len(Instruments) : ListOf(f)[n] = f[Instruments[n]] /\ f[Instruments[n]] \in Int
           /\ SumAll(f) = Summed(ListOf(f))
<1>1. ListOf(f) \in [1 .. Len(Instruments) -> Int]
  BY InstrumentsAre DEF ListOf, Amounts
<1>2. ListOf(f) \in Seq(Int) /\ Len(ListOf(f)) = Len(Instruments)
  BY <1>1, InstrumentsAre, ListIsASeq
<1> QED
  BY <1>2, InstrumentsAre DEF ListOf, Amounts, SumAll

\* The sums up to each instrument.
Sub(f, g) == /\ g \in [0 .. Len(Instruments) -> Int] /\ g[0] = 0
             /\ \A n \in 1 .. Len(Instruments) : g[n] = g[n - 1] + f[Instruments[n]]

LEMMA SubSums ==
    ASSUME NEW f \in Amounts
    PROVE  /\ SumAll(f) \in Int
           /\ \E g : Sub(f, g) /\ SumAll(f) = g[Len(Instruments)]
           /\ \A g : Sub(f, g) => SumAll(f) = g[Len(Instruments)]
<1> DEFINE q == ListOf(f)
<1>1. /\ q \in Seq(Int) /\ Len(q) = Len(Instruments) /\ SumAll(f) = Summed(q)
      /\ \A n \in 1 .. Len(Instruments) : q[n] = f[Instruments[n]]
  BY AmountsList
<1> HIDE DEF q
<1>2. ASSUME NEW g PROVE Sub(f, g) <=> Partial(q, g)
  BY <1>1 DEF Sub, Partial
<1>3. PICK g : Partial(q, g) /\ Summed(q) = g[Len(q)]
  BY <1>1, SumIs
<1>4. Summed(q) \in Int
  BY <1>1, <1>3, SumFrom
<1>5. ASSUME NEW h, Sub(f, h) PROVE SumAll(f) = h[Len(Instruments)]
  <2>1. Partial(q, h)
    BY <1>2, <1>5
  <2> QED
    BY <1>1, <2>1, SumFrom
<1> QED
  BY <1>1, <1>2, <1>3, <1>4, <1>5

LEMMA SumsAdd ==
    ASSUME NEW f \in Amounts, NEW g \in Amounts, NEW h \in Amounts,
           \A s \in Symbols3 : h[s] = f[s] + g[s]
    PROVE  SumAll(h) = SumAll(f) + SumAll(g)
<1> DEFINE N == Len(Instruments)
<1>1. N \in Nat /\ \A n \in 1 .. N : Instruments[n] \in Symbols3
  BY InstrumentsAre
<1>2. PICK a : Sub(f, a) /\ SumAll(f) = a[N]
  BY SubSums
<1>3. PICK b : Sub(g, b) /\ SumAll(g) = b[N]
  BY SubSums
<1> DEFINE c == [n \in 0 .. N |-> a[n] + b[n]]
<1>4. /\ \A n \in 0 .. N : a[n] \in Int /\ b[n] \in Int
      /\ a[0] = 0 /\ b[0] = 0
      /\ \A n \in 1 .. N : a[n] = a[n - 1] + f[Instruments[n]] /\ b[n] = b[n - 1] + g[Instruments[n]]
  BY <1>2, <1>3 DEF Sub
<1> HIDE DEF N
<1>5. c \in [0 .. N -> Int] /\ c[0] = 0 /\ c[N] = a[N] + b[N]
  BY <1>1, <1>4
<1>6. ASSUME NEW n \in 1 .. N PROVE c[n] = c[n - 1] + h[Instruments[n]]
  <2>1. n \in 0 .. N /\ n - 1 \in 0 .. N
    BY <1>1
  <2>2. c[n] = a[n] + b[n] /\ c[n - 1] = a[n - 1] + b[n - 1]
    BY <2>1
  <2>3. /\ a[n] = a[n - 1] + f[Instruments[n]] /\ b[n] = b[n - 1] + g[Instruments[n]]
        /\ a[n - 1] \in Int /\ b[n - 1] \in Int
    BY <1>4, <2>1
  <2>4. /\ h[Instruments[n]] = f[Instruments[n]] + g[Instruments[n]]
        /\ f[Instruments[n]] \in Int /\ g[Instruments[n]] \in Int
    BY <1>1 DEF Amounts
  <2> QED
    BY <2>2, <2>3, <2>4
<1>7. Sub(h, c)
  BY <1>5, <1>6 DEF Sub, N
<1> QED
  BY <1>2, <1>3, <1>5, <1>7, SubSums DEF N

LEMMA SumsScale ==
    ASSUME NEW f \in Amounts, NEW k \in Int, NEW h \in Amounts,
           \A s \in Symbols3 : h[s] = k * f[s]
    PROVE  SumAll(h) = k * SumAll(f)
<1> DEFINE N == Len(Instruments)
<1>1. N \in Nat /\ \A n \in 1 .. N : Instruments[n] \in Symbols3
  BY InstrumentsAre
<1>2. PICK a : Sub(f, a) /\ SumAll(f) = a[N]
  BY SubSums
<1> DEFINE c == [n \in 0 .. N |-> k * a[n]]
<1>4. /\ \A n \in 0 .. N : a[n] \in Int
      /\ a[0] = 0
      /\ \A n \in 1 .. N : a[n] = a[n - 1] + f[Instruments[n]]
  BY <1>2 DEF Sub
<1> HIDE DEF N
<1>5. c \in [0 .. N -> Int] /\ c[0] = 0 /\ c[N] = k * a[N]
  <2>1. \A n \in 0 .. N : k * a[n] \in Int
    BY <1>4
  <2> QED
    BY <1>1, <1>4, <2>1
<1>6. ASSUME NEW n \in 1 .. N PROVE c[n] = c[n - 1] + h[Instruments[n]]
  <2>1. n \in 0 .. N /\ n - 1 \in 0 .. N
    BY <1>1
  <2>2. c[n] = k * a[n] /\ c[n - 1] = k * a[n - 1]
    BY <2>1
  <2>3. a[n] = a[n - 1] + f[Instruments[n]] /\ a[n - 1] \in Int
    BY <1>4, <2>1
  <2>4. h[Instruments[n]] = k * f[Instruments[n]] /\ f[Instruments[n]] \in Int
    BY <1>1 DEF Amounts
  <2>5. \A x, y \in Int : k * (x + y) = k * x + k * y
    OBVIOUS
  <2> QED
    BY <2>2, <2>3, <2>4, <2>5
<1>7. Sub(h, c)
  BY <1>5, <1>6 DEF Sub, N
<1> QED
  BY <1>2, <1>5, <1>7, SubSums DEF N

LEMMA SumsArePositive ==
    ASSUME NEW f \in Amounts, \A s \in Symbols3 : f[s] >= 0
    PROVE  SumAll(f) \in Nat
<1>1. ListOf(f) \in Seq(Int) /\ \A n \in 1 .. Len(ListOf(f)) : ListOf(f)[n] >= 0
  BY AmountsList, InstrumentsAre
<1>2. Summed(ListOf(f)) \in Nat
  <2> DEFINE q == ListOf(f)
  <2> HIDE DEF q
  <2>1. q \in Seq(Int) /\ \A n \in 1 .. Len(q) : q[n] >= 0
    BY <1>1 DEF q
  <2>2. Summed(q) \in Nat
    BY <2>1, SumIsNat
  <2> QED
    BY <2>2 DEF q
<1> QED
  BY <1>2, AmountsList

LEMMA SumsGrow ==
    ASSUME NEW f \in Amounts, NEW g \in Amounts, \A s \in Symbols3 : f[s] <= g[s]
    PROVE  SumAll(f) <= SumAll(g)
<1> DEFINE d == [s \in Symbols3 |-> g[s] - f[s]]
<1>1. \A s \in Symbols3 : f[s] \in Int /\ g[s] \in Int /\ f[s] <= g[s]
  BY DEF Amounts
<1>2. d \in Amounts /\ \A s \in Symbols3 : d[s] >= 0 /\ g[s] = f[s] + d[s]
  BY <1>1 DEF Amounts
<1> HIDE DEF d
<1>3. SumAll(d) \in Nat
  BY <1>2, SumsArePositive
<1>4. SumAll(g) = SumAll(f) + SumAll(d)
  BY <1>2, SumsAdd
<1>5. SumAll(f) \in Int
  BY SubSums
<1> QED
  BY <1>3, <1>4, <1>5

LEMMA SumOfOne ==
    ASSUME NEW f \in Amounts, NEW g \in Amounts, NEW s \in Symbols3,
           \A r \in Symbols3 : r # s => g[r] = f[r]
    PROVE  SumAll(g) = SumAll(f) - f[s] + g[s]
<1> DEFINE a == ListOf(f)
           b == ListOf(g)
<1>1. PICK i \in 1 .. Len(Instruments) : Instruments[i] = s
  BY InstrumentsAre
<1>2. /\ a \in Seq(Int) /\ Len(a) = Len(Instruments) /\ SumAll(f) = Summed(a)
      /\ b \in Seq(Int) /\ Len(b) = Len(Instruments) /\ SumAll(g) = Summed(b)
      /\ \A n \in 1 .. Len(Instruments) : a[n] = f[Instruments[n]] /\ b[n] = g[Instruments[n]]
  BY AmountsList
<1> HIDE DEF a, b
<1>3. ASSUME NEW n \in 1 .. Len(a), n # i PROVE b[n] = a[n]
  <2>1. n \in 1 .. Len(Instruments)
    BY <1>2
  <2>2. Instruments[n] \in Symbols3 /\ Instruments[n] # s
    BY <1>1, <1>3, <2>1, InstrumentsAre
  <2> QED
    BY <1>2, <2>1, <2>2
<1>4. Summed(b) = Summed(a) - a[i] + b[i]
  BY <1>1, <1>2, <1>3, SumOfChange
<1> QED
  BY <1>1, <1>2, <1>4

LEMMA SumOfNothing ==
    ASSUME NEW f \in Amounts, \A s \in Symbols3 : f[s] = 0
    PROVE  SumAll(f) = 0
<1>1. \A s \in Symbols3 : f[s] = f[s] + f[s]
  OBVIOUS
<1>2. SumAll(f) = SumAll(f) + SumAll(f)
  BY <1>1, SumsAdd
<1> QED
  BY <1>2, SubSums

-----------------------------------------------------------------------------
(* The risk engine: cuts. *)

Carried(w, carries) == [s \in Symbols3 |-> w[s] * carries[s]]

LEMMA CarriedIs ==
    ASSUME NEW w \in Weights, NEW carries \in Amounts
    PROVE  /\ Carried(w, carries) \in Amounts
           /\ Exposure(w, carries) = SumAll(Carried(w, carries)) /\ Exposure(w, carries) \in Int
<1>1. \A x \in Nat, y \in Int : x * y \in Int
  OBVIOUS
<1>2. Carried(w, carries) \in Amounts
  <2>1. \A s \in Symbols3 : w[s] \in Nat /\ carries[s] \in Int
    BY DEF Weights, Amounts
  <2>2. \A s \in Symbols3 : w[s] * carries[s] \in Int
    BY <1>1, <2>1
  <2> QED
    BY <2>2 DEF Carried, Amounts
<1> QED
  BY <1>2, SubSums DEF Exposure, Carried

LEMMA CeilIs ==
    ASSUME NEW e \in Nat \ {0}, NEW c \in Nat \ {0}
    PROVE  /\ CeilDiv(e, c) \in Nat
           /\ CeilDiv(e, c) * c >= e /\ CeilDiv(e, c) * c <= e + c - 1
<1> DEFINE x == e + c - 1
<1>1. x \in Nat
  OBVIOUS
<1> HIDE DEF x
<1>2. /\ x \div c \in Int /\ x % c \in 0 .. (c - 1)
      /\ x = c * (x \div c) + (x % c)
  BY <1>1
<1>3. PICK q \in Int, r \in 0 .. (c - 1) : q = x \div c /\ x = c * q + r
  BY <1>2
<1>4. q >= 0
  BY <1>1, <1>3
<1>5. PICK p \in Int : p = c * q /\ p = q * c
  BY <1>3
<1>6. p = x - r /\ x = e + c - 1
  BY <1>3, <1>5 DEF x
<1>7. p >= e /\ p <= e + c - 1
  BY <1>3, <1>6
<1> QED
  BY <1>3, <1>4, <1>5, <1>7 DEF CeilDiv, x

CutState == [w : Weights, excess : Int]

\* A cut takes from one weight alone, and as much of the excess as it carried.
LEMMA CutOneIs ==
    ASSUME NEW a \in CutState, NEW s \in Symbols3, NEW carries \in Amounts
    PROVE  LET b == CutOne(a, s, carries)
           IN  /\ b \in CutState
               /\ b.w[s] <= a.w[s] /\ \A r \in Symbols3 : r # s => b.w[r] = a.w[r]
               /\ b.excess - Exposure(b.w, carries) = a.excess - Exposure(a.w, carries)
               /\ a.excess <= 0 \/ carries[s] <= 0 => b = a
               /\ a.excess > 0 /\ carries[s] > 0 => /\ b.excess > - carries[s]
                                                    /\ b.excess <= 0 \/ b.w[s] = 0
<1> DEFINE cut == IF carries[s] > 0 /\ a.excess > 0
                  THEN LessOf(a.w[s], CeilDiv(a.excess, carries[s])) ELSE 0
           b == CutOne(a, s, carries)
<1>1. b = [w |-> [a.w EXCEPT ![s] = @ - cut], excess |-> a.excess - cut * carries[s]]
  BY DEF CutOne
<1>2. PICK x \in Nat, e \in Int, c \in Int : x = a.w[s] /\ e = a.excess /\ c = carries[s]
  BY DEF CutState, Weights, Amounts
<1>3. a.w \in Weights
  BY DEF CutState
<1>4. PICK k \in Nat : /\ k = cut /\ k <= x
                       /\ (e <= 0 \/ c <= 0 => k = 0)
                       /\ (e > 0 /\ c > 0 => e - k * c > -c /\ (e - k * c <= 0 \/ k = x))
  <2>1. CASE e <= 0 \/ c <= 0
    <3>1. cut = 0
      BY <1>2, <2>1
    <3> QED
      BY <2>1, <3>1
  <2>2. CASE e > 0 /\ c > 0
    <3>1. e \in Nat \ {0} /\ c \in Nat \ {0}
      BY <2>2
    <3>2. PICK q \in Nat : q = CeilDiv(e, c) /\ q * c >= e /\ q * c <= e + c - 1
      BY <3>1, CeilIs
    <3>3. cut = LessOf(x, q)
      BY <1>2, <2>2, <3>2
    <3>4. CASE x < q
      <4>1. cut = x
        BY <3>3, <3>4 DEF LessOf
      <4>2. PICK p \in Int, r \in Int : p = x * c /\ r = q * c
        OBVIOUS
      <4>3. p <= r
        BY <3>1, <3>4, <4>2
      <4>4. e - p > -c
        BY <3>2, <4>2, <4>3
      <4> QED
        BY <2>2, <4>1, <4>2, <4>4
    <3>5. CASE ~ (x < q)
      <4>1. cut = q /\ q <= x
        BY <3>3, <3>5 DEF LessOf
      <4>2. PICK r \in Int : r = q * c
        OBVIOUS
      <4>3. e - r > -c /\ e - r <= 0
        BY <3>2, <4>2
      <4> QED
        BY <2>2, <4>1, <4>2, <4>3
    <3> QED
      BY <3>4, <3>5
  <2> QED
    BY <2>1, <2>2
<1>5. PICK p \in Int : p = k * c
  OBVIOUS
<1> HIDE DEF cut, b
<1>6. b = [w |-> [a.w EXCEPT ![s] = x - k], excess |-> e - p]
  BY <1>1, <1>2, <1>3, <1>4, <1>5
<1>7. x - k \in Nat
  BY <1>4
<1>8. /\ b.w \in Weights /\ b.w[s] = x - k /\ \A r \in Symbols3 : r # s => b.w[r] = a.w[r]
      /\ b.excess = e - p
  BY <1>3, <1>6, <1>7 DEF Weights
<1>9. b \in CutState
  BY <1>6, <1>7, <1>8 DEF CutState
<1>10. Exposure(b.w, carries) = Exposure(a.w, carries) - p
  <2> DEFINE f == Carried(a.w, carries)
             g == Carried(b.w, carries)
  <2>1. f \in Amounts /\ g \in Amounts
    BY <1>3, <1>8, CarriedIs
  <2>2. \A r \in Symbols3 : r # s => g[r] = f[r]
    BY <1>8 DEF Carried
  <2>3. f[s] = x * c /\ g[s] = (x - k) * c
    BY <1>2, <1>8 DEF Carried
  <2>4. Exposure(a.w, carries) = SumAll(f) /\ Exposure(b.w, carries) = SumAll(g)
    BY <1>3, <1>8, CarriedIs
  <2>5. SumAll(f) \in Int
    BY <2>1, SubSums
  <2> HIDE DEF f, g
  <2>6. SumAll(g) = SumAll(f) - f[s] + g[s]
    BY <2>1, <2>2, SumOfOne
  <2>7. (x - k) * c = x * c - k * c
    OBVIOUS
  <2>8. PICK m \in Int : m = x * c
    OBVIOUS
  <2>9. f[s] = m /\ g[s] = m - p
    BY <1>5, <2>3, <2>7, <2>8
  <2> QED
    BY <2>4, <2>5, <2>6, <2>9
<1>11. Exposure(a.w, carries) \in Int
  BY <1>3, CarriedIs
<1>12. b.excess - Exposure(b.w, carries) = a.excess - Exposure(a.w, carries)
  BY <1>2, <1>8, <1>10, <1>11
<1>13. e <= 0 \/ c <= 0 => b = a
  <2> SUFFICES ASSUME e <= 0 \/ c <= 0 PROVE b = a
    OBVIOUS
  <2>1. k = 0 /\ p = 0
    BY <1>4, <1>5
  <2>2. [a.w EXCEPT ![s] = x - k] = a.w
    BY <1>2, <1>3, <2>1 DEF Weights
  <2> QED
    BY <1>2, <1>6, <2>1, <2>2 DEF CutState
<1>14. e > 0 /\ c > 0 => b.excess > -c /\ (b.excess <= 0 \/ b.w[s] = 0)
  BY <1>4, <1>5, <1>8
<1>15. b.w[s] <= a.w[s]
  BY <1>2, <1>4, <1>8
<1> QED
  BY <1>2, <1>8, <1>9, <1>12, <1>13, <1>14, <1>15 DEF b

\* Step by step, as the operator takes them.
Cuts(w, cap, carries, cut) ==
    /\ cut[0] = [w |-> w, excess |-> Exposure(w, carries) - cap]
    /\ \A n \in 1 .. Len(Instruments) : cut[n] = CutOne(cut[n - 1], Instruments[n], carries)

LEMMA CutDownTakes ==
    ASSUME NEW w \in Weights, NEW cap \in Int, NEW carries \in Amounts
    PROVE  \E cut : Cuts(w, cap, carries, cut) /\ CutDown(w, cap, carries) = cut[Len(Instruments)].w
<1> DEFINE N == Len(Instruments)
           a == [w |-> w, excess |-> Exposure(w, carries) - cap]
           cut == CHOOSE f : f = [n \in 0 .. N |-> IF n = 0 THEN a
                                                   ELSE CutOne(f[n - 1], Instruments[n], carries)]
           F == [p \in (1 .. N) \X CutState |-> CutOne(p[2], Instruments[p[1]], carries)]
<1>1. N \in Nat /\ \A n \in 1 .. N : Instruments[n] \in Symbols3
  BY InstrumentsAre
<1>2. a \in CutState
  <2>1. Exposure(w, carries) \in Int
    BY CarriedIs
  <2> QED
    BY <2>1 DEF CutState
<1> HIDE DEF N, a
<1>3. F \in StepsOn(N, CutState)
  <2>1. ASSUME NEW n \in 1 .. N, NEW x \in CutState PROVE CutOne(x, Instruments[n], carries) \in CutState
    BY <1>1, CutOneIs
  <2>2. \A p \in (1 .. N) \X CutState : CutOne(p[2], Instruments[p[1]], carries) \in CutState
    BY <2>1
  <2> QED
    BY <2>2 DEF StepsOn
<1> HIDE DEF F
<1>4. PICK g : Taken(N, CutState, a, F, g)
  BY <1>1, <1>2, <1>3, RecursionExists
<1>5. ASSUME NEW n \in 1 .. N PROVE g[n] = CutOne(g[n - 1], Instruments[n], carries)
  <2>1. n - 1 \in 0 .. N
    BY <1>1
  <2>2. << n, g[n - 1] >> \in (1 .. N) \X CutState
    BY <1>4, <2>1 DEF Taken
  <2>3. F[<< n, g[n - 1] >>] = CutOne(g[n - 1], Instruments[n], carries)
    BY <2>2 DEF F
  <2> QED
    BY <1>4, <2>3 DEF Taken
<1>6. g = [n \in 0 .. N |-> IF n = 0 THEN a ELSE CutOne(g[n - 1], Instruments[n], carries)]
  BY <1>1, <1>4, <1>5 DEF Taken
<1>7. cut = [n \in 0 .. N |-> IF n = 0 THEN a ELSE CutOne(cut[n - 1], Instruments[n], carries)]
  BY <1>6
<1>8. CutDown(w, cap, carries) = cut[N].w
  BY DEF CutDown, N, a
<1> HIDE DEF cut
<1>9. cut[0] = a /\ \A n \in 1 .. N : cut[n] = CutOne(cut[n - 1], Instruments[n], carries)
  BY <1>1, <1>7
<1> QED
  BY <1>8, <1>9 DEF Cuts, N, a

\* After some cuts: less weight, only where it carries; the excess is what is over
\* the cap still, it has not been cut by more than one weight too much, and either
\* it is gone or the instruments so far are sold.
CutSoFar(w, cap, carries, K, n) ==
    {a \in CutState :
        /\ \A s \in Symbols3 : a.w[s] <= w[s] /\ (carries[s] <= 0 => a.w[s] = w[s])
        /\ a.excess = Exposure(a.w, carries) - cap
        /\ Exposure(w, carries) <= cap => a.w = w
        /\ Exposure(w, carries) > cap => a.excess > -K
        /\ \/ a.excess <= 0
           \/ \A m \in 1 .. n : carries[Instruments[m]] > 0 => a.w[Instruments[m]] = 0}

LEMMA CutGoesOn ==
    ASSUME NEW w \in Weights, NEW cap \in Int, NEW carries \in Amounts, NEW K \in Nat,
           \A s \in Symbols3 : carries[s] <= K, NEW n \in 1 .. Len(Instruments),
           NEW a \in CutSoFar(w, cap, carries, K, n - 1)
    PROVE  CutOne(a, Instruments[n], carries) \in CutSoFar(w, cap, carries, K, n)
<1> DEFINE s == Instruments[n]
           b == CutOne(a, s, carries)
<1>1. s \in Symbols3 /\ Len(Instruments) \in Nat
  BY InstrumentsAre
<1>2. /\ a \in CutState /\ \A r \in Symbols3 : a.w[r] <= w[r] /\ (carries[r] <= 0 => a.w[r] = w[r])
      /\ a.excess = Exposure(a.w, carries) - cap
      /\ Exposure(w, carries) <= cap => a.w = w
      /\ Exposure(w, carries) > cap => a.excess > -K
      /\ \/ a.excess <= 0
         \/ \A m \in 1 .. n - 1 : carries[Instruments[m]] > 0 => a.w[Instruments[m]] = 0
  BY DEF CutSoFar
<1>3. /\ b \in CutState
      /\ b.w[s] <= a.w[s] /\ \A r \in Symbols3 : r # s => b.w[r] = a.w[r]
      /\ b.excess - Exposure(b.w, carries) = a.excess - Exposure(a.w, carries)
      /\ a.excess <= 0 \/ carries[s] <= 0 => b = a
      /\ a.excess > 0 /\ carries[s] > 0 => /\ b.excess > - carries[s]
                                           /\ b.excess <= 0 \/ b.w[s] = 0
  BY <1>1, <1>2, CutOneIs
<1> HIDE DEF b
<1>4. /\ a.excess \in Int /\ b.excess \in Int /\ a.w \in Weights /\ b.w \in Weights
      /\ carries[s] \in Int /\ carries[s] <= K
  BY <1>1, <1>2, <1>3 DEF CutState, Amounts
<1>5. Exposure(a.w, carries) \in Int /\ Exposure(b.w, carries) \in Int /\ Exposure(w, carries) \in Int
  BY <1>4, CarriedIs
<1>6. ASSUME NEW m \in 1 .. n, m # n PROVE m \in 1 .. n - 1 /\ Instruments[m] \in Symbols3 /\ Instruments[m] # s
  BY <1>1, <1>6, InstrumentsAre
<1>7. CASE a.excess <= 0 \/ carries[s] <= 0
  <2>1. b = a
    BY <1>3, <1>7
  <2>2. a.excess <= 0 \/ \A m \in 1 .. n : carries[Instruments[m]] > 0 => a.w[Instruments[m]] = 0
    <3>1. CASE a.excess <= 0
      BY <3>1
    <3>2. CASE ~ (a.excess <= 0)
      <4>1. \A m \in 1 .. n - 1 : carries[Instruments[m]] > 0 => a.w[Instruments[m]] = 0
        BY <1>2, <3>2
      <4>2. ~ (carries[s] > 0)
        BY <1>4, <1>7, <3>2
      <4> QED
        BY <1>6, <4>1, <4>2
    <3> QED
      BY <3>1, <3>2
  <2> QED
    BY <1>2, <2>1, <2>2 DEF CutSoFar, b
<1>8. CASE a.excess > 0 /\ carries[s] > 0
  <2>1. b.excess > -K /\ b.excess > - carries[s] /\ (b.excess <= 0 \/ b.w[s] = 0)
    BY <1>3, <1>4, <1>8
  <2>2. b.excess = Exposure(b.w, carries) - cap
    BY <1>2, <1>3, <1>4, <1>5
  <2>3. ASSUME NEW r \in Symbols3
        PROVE  b.w[r] <= w[r] /\ (carries[r] <= 0 => b.w[r] = w[r])
    <3>1. a.w[r] \in Nat /\ b.w[r] \in Nat /\ w[r] \in Nat
      BY <1>4 DEF Weights
    <3>2. CASE r = s
      <4>1. b.w[r] <= a.w[r] /\ a.w[r] <= w[r]
        BY <1>2, <1>3, <3>2
      <4>2. ~ (carries[r] <= 0)
        BY <1>4, <1>8, <3>2
      <4> QED
        BY <3>1, <4>1, <4>2
    <3>3. CASE r # s
      BY <1>2, <1>3, <3>3
    <3> QED
      BY <3>2, <3>3
  <2>4. Exposure(w, carries) <= cap => b.w = w
    <3> SUFFICES ASSUME Exposure(w, carries) <= cap PROVE FALSE
      OBVIOUS
    <3>1. a.w = w
      BY <1>2
    <3>2. a.excess = Exposure(w, carries) - cap
      BY <1>2, <3>1
    <3> QED
      BY <1>5, <1>8, <3>2
  <2>5. b.excess <= 0 \/ \A m \in 1 .. n : carries[Instruments[m]] > 0 => b.w[Instruments[m]] = 0
    <3> SUFFICES ASSUME ~ (b.excess <= 0), NEW m \in 1 .. n, carries[Instruments[m]] > 0
                 PROVE  b.w[Instruments[m]] = 0
      OBVIOUS
    <3>1. CASE m = n
      BY <2>1, <3>1
    <3>2. CASE m # n
      <4>1. m \in 1 .. n - 1 /\ Instruments[m] \in Symbols3 /\ Instruments[m] # s
        BY <1>6, <3>2
      <4>2. a.w[Instruments[m]] = 0
        BY <1>2, <1>4, <1>8, <4>1
      <4> QED
        BY <1>3, <4>1, <4>2
    <3> QED
      BY <3>1, <3>2
  <2> QED
    BY <1>3, <2>1, <2>2, <2>3, <2>4, <2>5 DEF CutSoFar, b
<1> QED
  BY <1>4, <1>7, <1>8

\* The cap is kept, what was within it is left alone, and what was over it is
\* cut to less than one weight below it.
LEMMA CutDownIs ==
    ASSUME NEW w \in Weights, NEW cap \in Nat, NEW carries \in Amounts, NEW K \in Nat,
           \A s \in Symbols3 : carries[s] <= K, K > 0
    PROVE  LET v == CutDown(w, cap, carries)
           IN  /\ v \in Weights /\ \A s \in Symbols3 : v[s] <= w[s]
               /\ Exposure(v, carries) <= cap
               /\ Exposure(w, carries) <= cap => v = w
               /\ Exposure(w, carries) > cap => Exposure(v, carries) > cap - K
<1> DEFINE N == Len(Instruments)
           v == CutDown(w, cap, carries)
           J == [n \in 0 .. N |-> CutSoFar(w, cap, carries, K, n)]
<1>1. N \in Nat /\ \A s \in Symbols3 : \E n \in 1 .. N : Instruments[n] = s
  BY InstrumentsAre
<1>2. PICK cut : Cuts(w, cap, carries, cut) /\ v = cut[N].w
  BY CutDownTakes
<1>3. Exposure(w, carries) \in Int
  BY CarriedIs
<1>4. cut[0] \in J[0]
  <2>1. cut[0] = [w |-> w, excess |-> Exposure(w, carries) - cap]
    BY <1>2 DEF Cuts
  <2>2. cut[0] \in CutState /\ cut[0].w = w /\ cut[0].excess = Exposure(w, carries) - cap
    BY <1>3, <2>1 DEF CutState
  <2>3. \A s \in Symbols3 : w[s] <= w[s]
    BY DEF Weights
  <2>4. Exposure(w, carries) > cap => cut[0].excess > -K
    BY <1>3, <2>2
  <2>5. 1 .. 0 = {} /\ 0 \in 0 .. N
    BY <1>1
  <2> QED
    BY <2>2, <2>3, <2>4, <2>5 DEF CutSoFar
<1>5. ASSUME NEW n \in 1 .. N, cut[n - 1] \in J[n - 1] PROVE cut[n] \in J[n]
  <2>1. n - 1 \in 0 .. N /\ n \in 0 .. N
    BY <1>1
  <2>2. cut[n - 1] \in CutSoFar(w, cap, carries, K, n - 1)
    BY <1>5, <2>1
  <2>3. CutOne(cut[n - 1], Instruments[n], carries) \in CutSoFar(w, cap, carries, K, n)
    <3> DEFINE a == cut[n - 1]
    <3>1. a \in CutSoFar(w, cap, carries, K, n - 1) /\ n \in 1 .. Len(Instruments)
      BY <2>2
    <3>2. cap \in Int /\ \A s \in Symbols3 : carries[s] <= K
      OBVIOUS
    <3> HIDE DEF a
    <3>3. CutOne(a, Instruments[n], carries) \in CutSoFar(w, cap, carries, K, n)
      BY <3>1, <3>2, CutGoesOn
    <3> QED
      BY <3>3 DEF a
  <2> QED
    BY <1>2, <2>1, <2>3 DEF Cuts
<1> HIDE DEF J
<1>6. cut[N] \in J[N]
  <2>1. N \in 0 .. N
    BY <1>1
  <2> QED
    BY <1>1, <1>4, <1>5, <2>1, StepByStep
<1>7. cut[N] \in CutSoFar(w, cap, carries, K, N)
  BY <1>1, <1>6 DEF J
<1> DEFINE a == cut[N]
<1>8. /\ a \in CutState /\ \A r \in Symbols3 : a.w[r] <= w[r]
      /\ a.excess = Exposure(a.w, carries) - cap
      /\ Exposure(w, carries) <= cap => a.w = w
      /\ Exposure(w, carries) > cap => a.excess > -K
      /\ \/ a.excess <= 0
         \/ \A m \in 1 .. N : carries[Instruments[m]] > 0 => a.w[Instruments[m]] = 0
  BY <1>7 DEF CutSoFar
<1>9. a.w = v
  BY <1>2
<1> HIDE DEF a, v, N
<1>10. a.excess \in Int /\ v \in Weights /\ Exposure(v, carries) \in Int
  <2>1. a.excess \in Int /\ v \in Weights
    BY <1>8, <1>9 DEF CutState
  <2> QED
    BY <2>1, CarriedIs
<1>11. Exposure(v, carries) <= cap
  <2>1. CASE a.excess <= 0
    BY <1>8, <1>9, <1>10, <2>1
  <2>2. CASE ~ (a.excess <= 0)
    <3> DEFINE zero == [s \in Symbols3 |-> 0]
    <3>1. ASSUME NEW s \in Symbols3 PROVE Carried(v, carries)[s] <= 0
      <4>1. v[s] \in Nat /\ carries[s] \in Int
        BY <1>10 DEF Weights, Amounts
      <4>2. carries[s] > 0 => v[s] = 0
        BY <1>1, <1>8, <1>9, <2>2
      <4>3. v[s] * carries[s] <= 0
        <5>1. CASE carries[s] > 0
          BY <4>1, <4>2, <5>1
        <5>2. CASE ~ (carries[s] > 0)
          <6>1. \A x \in Nat, y \in Int : y <= 0 => x * y <= 0
            OBVIOUS
          <6> QED
            BY <4>1, <5>2, <6>1
        <5> QED
          BY <5>1, <5>2
      <4> QED
        BY <4>3 DEF Carried
    <3>2. zero \in Amounts /\ \A s \in Symbols3 : zero[s] = 0
      BY DEF Amounts
    <3>3. Carried(v, carries) \in Amounts /\ Exposure(v, carries) = SumAll(Carried(v, carries))
      BY <1>10, CarriedIs
    <3> HIDE DEF zero
    <3>4. SumAll(Carried(v, carries)) <= SumAll(zero)
      BY <3>1, <3>2, <3>3, SumsGrow
    <3>5. SumAll(zero) = 0
      BY <3>2, SumOfNothing
    <3> QED
      BY <1>10, <3>3, <3>4, <3>5
  <2> QED
    BY <2>1, <2>2
<1>12. Exposure(w, carries) > cap => Exposure(v, carries) > cap - K
  BY <1>8, <1>9, <1>10
<1> QED
  BY <1>8, <1>9, <1>10, <1>11, <1>12 DEF v

-----------------------------------------------------------------------------
(* The risk engine: the rules, one by one. *)

Lighter(v, w) == \A s \in Symbols3 : v[s] <= w[s]
Reach == SumAll([s \in Symbols3 |-> AbsOf(Leverage[s])])

LEMMA LimitsAre ==
    ASSUME NEW l \in Limits
    PROVE  /\ l.net \in Nat /\ l.inverse \in Nat /\ l.leveraged \in Nat /\ l.gross \in Nat
           /\ l.cash \in Nat /\ l.turnover \in Nat /\ l.target \in Nat
           /\ l.minScale \in Nat /\ l.maxScale \in Nat /\ l.deadBand \in Nat
           /\ l.gross <= Unit - l.cash /\ Unit \in Nat \ {0} /\ LessOf(l.gross, Unit - l.cash) \in Nat
           /\ l.cap \in Weights /\ l.mode \in LongModes
           /\ \A g \in DOMAIN l.regimes : l.regimes[g] \in Nat
<1>1. LimitsValid(l) /\ Unit \in Nat \ {0}
  BY LimitsLoad, BooksAreHeld
<1>2. /\ l.net \in Nat /\ l.inverse \in Nat /\ l.leveraged \in Nat /\ l.gross \in Nat
      /\ l.cash \in Nat /\ l.turnover \in Nat /\ l.target \in Nat
      /\ l.minScale \in Nat /\ l.maxScale \in Nat /\ l.deadBand \in Nat
  BY <1>1 DEF LimitsValid
<1>3. l.gross + l.cash <= Unit
  BY <1>1 DEF LimitsValid
<1>4. l.gross <= Unit - l.cash /\ LessOf(l.gross, Unit - l.cash) \in Nat
  <2>1. PICK g \in Nat, c \in Nat, u \in Nat : g = l.gross /\ c = l.cash /\ u = Unit
    BY <1>1, <1>2
  <2>2. g <= u - c /\ u - c \in Nat
    BY <1>3, <2>1
  <2> QED
    BY <2>1, <2>2 DEF LessOf
<1> QED
  BY <1>1, <1>2, <1>4 DEF LimitsValid

LEMMA WeightsAreAmounts ==
    ASSUME NEW w \in Weights
    PROVE  /\ w \in Amounts /\ Gross(w) = SumAll(w) /\ Gross(w) \in Nat
           /\ Net(w) \in Int
           /\ [s \in Symbols3 |-> IF s \in Leveraged THEN w[s] ELSE 0] \in Amounts
           /\ LeveragedWeight(w) \in Nat
<1>1. \A s \in Symbols3 : w[s] \in Nat
  BY DEF Weights
<1>2. w \in Amounts /\ \A s \in Symbols3 : w[s] >= 0
  BY <1>1 DEF Weights, Amounts
<1> DEFINE f == [s \in Symbols3 |-> IF s \in Leveraged THEN w[s] ELSE 0]
<1>3. f \in Amounts /\ \A s \in Symbols3 : f[s] >= 0
  BY <1>1 DEF Amounts
<1> HIDE DEF f
<1>4. SumAll(w) \in Nat /\ SumAll(f) \in Nat
  BY <1>2, <1>3, SumsArePositive
<1>5. Leverage \in Amounts
  BY InstrumentsLoad DEF Amounts
<1>6. Net(w) \in Int
  BY <1>5, CarriedIs DEF Net
<1> QED
  BY <1>2, <1>3, <1>4, <1>6 DEF Gross, LeveragedWeight, f

LEMMA LighterSums ==
    ASSUME NEW v \in Weights, NEW w \in Weights, Lighter(v, w)
    PROVE  Gross(v) <= Gross(w) /\ LeveragedWeight(v) <= LeveragedWeight(w)
<1>1. \A s \in Symbols3 : v[s] \in Nat /\ w[s] \in Nat /\ v[s] <= w[s]
  BY DEF Weights, Lighter
<1>2. v \in Amounts /\ w \in Amounts
  BY WeightsAreAmounts
<1>3. SumAll(v) <= SumAll(w)
  BY <1>1, <1>2, SumsGrow
<1> DEFINE f == [s \in Symbols3 |-> IF s \in Leveraged THEN v[s] ELSE 0]
           g == [s \in Symbols3 |-> IF s \in Leveraged THEN w[s] ELSE 0]
<1>4. f \in Amounts /\ g \in Amounts
  BY WeightsAreAmounts
<1>5. \A s \in Symbols3 : f[s] <= g[s]
  BY <1>1
<1> HIDE DEF f, g
<1>6. SumAll(f) <= SumAll(g)
  BY <1>4, <1>5, SumsGrow
<1> QED
  BY <1>3, <1>6 DEF Gross, LeveragedWeight, f, g

LEMMA LighterStill ==
    ASSUME NEW u \in Weights, NEW v \in Weights, NEW w \in Weights, Lighter(u, v), Lighter(v, w)
    PROVE  Lighter(u, w)
<1> SUFFICES ASSUME NEW s \in Symbols3 PROVE u[s] <= w[s]
  BY DEF Lighter
<1>1. u[s] \in Nat /\ v[s] \in Nat /\ w[s] \in Nat /\ u[s] <= v[s] /\ v[s] <= w[s]
  BY DEF Weights, Lighter
<1> QED
  BY <1>1

LEMMA PartOfSum ==
    ASSUME NEW f \in Amounts, \A s \in Symbols3 : f[s] >= 0, NEW s \in Symbols3
    PROVE  f[s] <= SumAll(f)
<1> DEFINE g == [f EXCEPT ![s] = 0]
<1>1. \A r \in Symbols3 : f[r] \in Int
  BY DEF Amounts
<1>2. g \in Amounts /\ g[s] = 0 /\ \A r \in Symbols3 : r # s => g[r] = f[r]
  BY DEF Amounts
<1>3. \A r \in Symbols3 : g[r] >= 0
  BY <1>2
<1> HIDE DEF g
<1>4. SumAll(g) = SumAll(f) - f[s] + g[s]
  BY <1>2, SumOfOne
<1>5. SumAll(g) \in Nat /\ SumAll(f) \in Int
  BY <1>2, <1>3, SumsArePositive, SubSums
<1> QED
  BY <1>1, <1>2, <1>4, <1>5

LEMMA ReachIs ==
    /\ Reach \in Nat \ {0} /\ Leverage \in Amounts
    /\ [s \in Symbols3 |-> AbsOf(Leverage[s])] \in Amounts
    /\ \A s \in Symbols3 : Leverage[s] <= Reach /\ -Leverage[s] <= Reach
<1> DEFINE f == [s \in Symbols3 |-> AbsOf(Leverage[s])]
<1>1. \A s \in Symbols3 : Leverage[s] \in Int
  BY InstrumentsLoad
<1>2. Leverage \in Amounts
  BY InstrumentsLoad DEF Amounts
<1>3. f \in Amounts /\ \A s \in Symbols3 : f[s] >= 0 /\ f[s] >= Leverage[s] /\ f[s] >= -Leverage[s]
  BY <1>1 DEF Amounts, AbsOf
<1>4. "QQQ" \in Symbols3 /\ Leverage["QQQ"] = 1
  BY InstrumentsLoad
<1> HIDE DEF f
<1>5. SumAll(f) \in Int /\ \A s \in Symbols3 : f[s] <= SumAll(f) /\ f[s] \in Int
  BY <1>3, SubSums, PartOfSum DEF Amounts
<1>6. \A s \in Symbols3 : Leverage[s] <= SumAll(f) /\ -Leverage[s] <= SumAll(f)
  BY <1>1, <1>3, <1>5
<1>7. SumAll(f) \in Nat \ {0}
  BY <1>4, <1>5, <1>6
<1> QED
  BY <1>2, <1>3, <1>6, <1>7 DEF Reach, f

LEMMA CapNetIs ==
    ASSUME NEW w \in Weights, NEW long \in Nat, NEW short \in Nat
    PROVE  LET v == CapNet(w, long, short)
           IN  /\ v \in Weights /\ Lighter(v, w)
               /\ Net(v) <= long + Reach /\ -Net(v) <= short
               /\ \A B \in Int : Reach <= B /\ AbsOf(Net(w)) <= B => AbsOf(Net(v)) <= B
<1> DEFINE u == CutDown(w, long, Leverage)
           down == [s \in Symbols3 |-> -Leverage[s]]
           v == CapNet(w, long, short)
<1>1. Reach \in Nat \ {0} /\ Leverage \in Amounts /\ \A s \in Symbols3 : Leverage[s] <= Reach /\ Leverage[s] \in Int
  BY ReachIs DEF Amounts
<1>2. down \in Amounts /\ \A s \in Symbols3 : down[s] = -Leverage[s] /\ down[s] <= Reach
  BY <1>1, ReachIs DEF Amounts
<1>3. v = CutDown(u, short, down)
  BY DEF CapNet
<1> HIDE DEF u, v, down
<1>4. /\ u \in Weights /\ \A s \in Symbols3 : u[s] <= w[s]
      /\ Exposure(u, Leverage) <= long
      /\ Exposure(w, Leverage) <= long => u = w
      /\ Exposure(w, Leverage) > long => Exposure(u, Leverage) > long - Reach
  BY <1>1, CutDownIs DEF u
<1>5. /\ v \in Weights /\ \A s \in Symbols3 : v[s] <= u[s]
      /\ Exposure(v, down) <= short
      /\ Exposure(u, down) <= short => v = u
      /\ Exposure(u, down) > short => Exposure(v, down) > short - Reach
  BY <1>1, <1>2, <1>3, <1>4, CutDownIs
<1>6. ASSUME NEW x \in Weights PROVE Exposure(x, down) = -Net(x) /\ Exposure(x, Leverage) = Net(x) /\ Net(x) \in Int
  <2> DEFINE f == Carried(x, Leverage)
             g == Carried(x, down)
  <2>1. f \in Amounts /\ g \in Amounts /\ Exposure(x, down) = SumAll(g) /\ Exposure(x, Leverage) = SumAll(f)
    BY <1>1, <1>2, CarriedIs
  <2>2. PICK k \in Int : k = -1
    OBVIOUS
  <2>3. \A s \in Symbols3 : g[s] = k * f[s]
    <3> SUFFICES ASSUME NEW s \in Symbols3 PROVE g[s] = k * f[s]
      OBVIOUS
    <3>1. PICK a \in Int, b \in Int : a = x[s] /\ b = Leverage[s]
      BY <1>1 DEF Weights
    <3>2. f[s] = a * b /\ g[s] = a * (-b)
      BY <1>2, <3>1 DEF Carried
    <3>3. a * (-b) = k * (a * b)
      BY <2>2
    <3> QED
      BY <3>2, <3>3
  <2> HIDE DEF f, g
  <2>4. SumAll(g) = k * SumAll(f)
    BY <2>1, <2>3, SumsScale
  <2>5. SumAll(f) \in Int
    BY <2>1, SubSums
  <2> QED
    BY <2>1, <2>2, <2>4, <2>5 DEF Net
<1>7. PICK nw \in Int, nu \in Int, nv \in Int : nw = Net(w) /\ nu = Net(u) /\ nv = Net(v)
  BY <1>4, <1>5, <1>6
<1>8. /\ nu <= long /\ (nw <= long => nu = nw) /\ (nw > long => nu > long - Reach)
  BY <1>4, <1>6, <1>7
<1>9. /\ -nv <= short /\ (-nu <= short => nv = nu) /\ (-nu > short => -nv > short - Reach)
  BY <1>4, <1>5, <1>6, <1>7
<1>10. nv <= long + Reach
  BY <1>1, <1>8, <1>9
<1>11. ASSUME NEW B \in Int, Reach <= B, AbsOf(nw) <= B PROVE AbsOf(nv) <= B
  <2>1. nw <= B /\ -nw <= B
    BY <1>11 DEF AbsOf
  <2>2. nu <= B /\ -nu <= B
    BY <1>1, <1>8, <1>11, <2>1
  <2>3. nv <= B /\ -nv <= B
    BY <1>1, <1>9, <1>11, <2>2
  <2> QED
    BY <2>3 DEF AbsOf
<1>12. Lighter(v, w)
  <2>1. Lighter(v, u) /\ Lighter(u, w)
    BY <1>4, <1>5 DEF Lighter
  <2> QED
    BY <1>4, <1>5, <2>1, LighterStill
<1> QED
  BY <1>5, <1>7, <1>9, <1>10, <1>11, <1>12 DEF v

LEMMA QuotientIs ==
    ASSUME NEW x \in Nat, NEW d \in Nat \ {0}
    PROVE  x \div d \in Nat /\ d * (x \div d) <= x /\ x < d * (x \div d) + d
<1>1. /\ x \div d \in Int /\ x % d \in 0 .. (d - 1)
      /\ x = d * (x \div d) + (x % d)
  OBVIOUS
<1>2. PICK q \in Int, r \in 0 .. (d - 1) : q = x \div d /\ x = d * q + r
  BY <1>1
<1>3. q >= 0
  BY <1>2
<1> QED
  BY <1>2, <1>3

\* A part of a weight, rounded down.
LEMMA PartOfWeight ==
    ASSUME NEW w \in Nat, NEW n \in Nat, NEW d \in Nat \ {0}
    PROVE  /\ (w * n) \div d \in Nat /\ d * ((w * n) \div d) <= n * w
           /\ n * w < d * ((w * n) \div d) + d
           /\ n <= d => (w * n) \div d <= w
<1>1. PICK x \in Nat : x = w * n /\ x = n * w
  OBVIOUS
<1>2. PICK q \in Nat : q = x \div d /\ d * q <= x /\ x < d * q + d
  BY QuotientIs
<1>3. n <= d => q <= w
  <2> SUFFICES ASSUME n <= d, q > w PROVE FALSE
    OBVIOUS
  <2>1. w * n <= w * d
    OBVIOUS
  <2>2. q * d >= (w + 1) * d
    OBVIOUS
  <2>3. (w + 1) * d = w * d + d
    OBVIOUS
  <2>4. PICK a \in Nat, b \in Nat : a = w * d /\ b = q * d
    OBVIOUS
  <2>5. d * q = b
    BY <2>4
  <2> QED
    BY <1>1, <1>2, <2>1, <2>2, <2>3, <2>4, <2>5
<1> QED
  BY <1>1, <1>2, <1>3

LEMMA PositionCapsIs ==
    ASSUME NEW l \in Limits, NEW w \in Weights
    PROVE  LET v == PositionCaps(l, w)
           IN  /\ v \in Weights /\ Lighter(v, w) /\ Lighter(v, l.cap)
               /\ Lighter(w, l.cap) => v = w
<1>1. \A s \in Symbols3 : w[s] \in Nat /\ l.cap[s] \in Nat
  BY LimitsAre DEF Weights
<1> DEFINE v == PositionCaps(l, w)
<1>2. \A s \in Symbols3 : v[s] \in Nat /\ v[s] <= w[s] /\ v[s] <= l.cap[s] /\ (w[s] <= l.cap[s] => v[s] = w[s])
  BY <1>1 DEF PositionCaps, LessOf
<1>3. v \in Weights
  BY <1>2 DEF Weights, PositionCaps
<1>4. (\A s \in Symbols3 : v[s] = w[s]) => v = w
  BY <1>3 DEF Weights
<1> HIDE DEF v
<1> QED
  BY <1>2, <1>3, <1>4 DEF Lighter, v

LEMMA LeveragedCapIs ==
    ASSUME NEW l \in Limits, NEW w \in Weights
    PROVE  LET v == LeveragedCap(l, w)
           IN  /\ v \in Weights /\ Lighter(v, w) /\ LeveragedWeight(v) <= l.leveraged
               /\ LeveragedWeight(w) <= l.leveraged => v = w
<1>1. PICK t \in Nat, c \in Nat : t = LeveragedWeight(w) /\ c = l.leveraged
  BY WeightsAreAmounts, LimitsAre
<1>2. \A s \in Symbols3 : w[s] \in Nat
  BY DEF Weights
<1>3. CASE t <= c
  <2>1. LeveragedCap(l, w) = w
    BY <1>1, <1>3 DEF LeveragedCap
  <2>2. \A s \in Symbols3 : w[s] <= w[s]
    BY <1>2
  <2> QED
    BY <1>1, <1>3, <2>1, <2>2 DEF Lighter
<1>4. CASE ~ (t <= c)
  <2> DEFINE v == [s \in Symbols3 |-> IF s \in Leveraged THEN (w[s] * c) \div t ELSE w[s]]
             f == [s \in Symbols3 |-> IF s \in Leveraged THEN w[s] ELSE 0]
             g == [s \in Symbols3 |-> IF s \in Leveraged THEN v[s] ELSE 0]
             tg == [s \in Symbols3 |-> t * g[s]]
             cf == [s \in Symbols3 |-> c * f[s]]
  <2>1. LeveragedCap(l, w) = v
    BY <1>1, <1>4 DEF LeveragedCap
  <2>2. t \in Nat \ {0} /\ c <= t
    BY <1>1, <1>4
  <2>3. \A s \in Symbols3 : /\ (w[s] * c) \div t \in Nat /\ (w[s] * c) \div t <= w[s]
                            /\ t * ((w[s] * c) \div t) <= c * w[s]
    BY <1>1, <1>2, <2>2, PartOfWeight
  <2>4. \A s \in Symbols3 : /\ v[s] \in Nat /\ v[s] <= w[s]
                            /\ s \in Leveraged => t * v[s] <= c * w[s]
    BY <1>2, <2>3
  <2>5. v \in Weights
    BY <2>4 DEF Weights
  <2> HIDE DEF v
  <2>6. f \in Amounts /\ g \in Amounts /\ LeveragedWeight(w) = SumAll(f) /\ LeveragedWeight(v) = SumAll(g)
    BY <2>5, WeightsAreAmounts DEF LeveragedWeight
  <2>7. \A s \in Symbols3 : t * g[s] \in Int /\ c * f[s] \in Int /\ t * g[s] <= c * f[s]
    <3> SUFFICES ASSUME NEW s \in Symbols3
                 PROVE  t * g[s] \in Int /\ c * f[s] \in Int /\ t * g[s] <= c * f[s]
      OBVIOUS
    <3>1. CASE s \in Leveraged
      <4>1. g[s] = v[s] /\ f[s] = w[s] /\ v[s] \in Nat /\ w[s] \in Nat
        BY <1>2, <2>4, <3>1
      <4>2. t * v[s] <= c * w[s]
        BY <2>4, <3>1
      <4>3. t * v[s] \in Int /\ c * w[s] \in Int
        BY <4>1
      <4> QED
        BY <4>1, <4>2, <4>3
    <3>2. CASE s \notin Leveraged
      <4>1. g[s] = 0 /\ f[s] = 0
        BY <3>2
      <4>2. t * 0 = 0 /\ c * 0 = 0
        OBVIOUS
      <4> QED
        BY <4>1, <4>2
    <3> QED
      BY <3>1, <3>2
  <2> HIDE DEF f, g
  <2>8. /\ tg \in Amounts /\ \A s \in Symbols3 : tg[s] = t * g[s]
        /\ cf \in Amounts /\ \A s \in Symbols3 : cf[s] = c * f[s]
    BY <2>7 DEF Amounts
  <2> HIDE DEF tg, cf
  <2>9. SumAll(tg) = t * SumAll(g)
    BY <2>6, <2>8, SumsScale
  <2>10. SumAll(cf) = c * SumAll(f)
    BY <2>6, <2>8, SumsScale
  <2>11. SumAll(tg) <= SumAll(cf)
    BY <2>7, <2>8, SumsGrow
  <2>12. PICK x \in Int : x = SumAll(g)
    BY <2>6, SubSums
  <2>13. t * x <= c * t
    BY <1>1, <2>6, <2>9, <2>10, <2>11, <2>12
  <2>14. x <= c
    <3> SUFFICES ASSUME x >= c + 1 PROVE FALSE
      BY <2>12
    <3>1. t * x >= t * (c + 1)
      BY <2>2
    <3>2. t * (c + 1) = c * t + t
      OBVIOUS
    <3>3. PICK p \in Int, q \in Int : p = t * x /\ q = c * t
      OBVIOUS
    <3> QED
      BY <2>2, <2>13, <3>1, <3>2, <3>3
  <2> QED
    BY <1>1, <1>4, <2>1, <2>4, <2>5, <2>6, <2>12, <2>14 DEF Lighter
<1> QED
  BY <1>3, <1>4

LEMMA GrossCapIs ==
    ASSUME NEW l \in Limits, NEW w \in Weights
    PROVE  LET v == GrossCap(l, w)
           IN  /\ v \in Weights /\ Lighter(v, w) /\ Gross(v) <= LessOf(l.gross, Unit - l.cash)
               /\ Gross(w) <= LessOf(l.gross, Unit - l.cash) => v = w
<1> DEFINE one == [s \in Symbols3 |-> 1]
           v == GrossCap(l, w)
<1>1. PICK room \in Nat : room = LessOf(l.gross, Unit - l.cash)
  BY LimitsAre
<1>2. one \in Amounts /\ \A s \in Symbols3 : one[s] = 1 /\ one[s] <= 1
  BY DEF Amounts
<1>3. v = CutDown(w, room, one)
  BY <1>1 DEF GrossCap
<1> HIDE DEF one, v
<1>4. /\ v \in Weights /\ \A s \in Symbols3 : v[s] <= w[s]
      /\ Exposure(v, one) <= room /\ (Exposure(w, one) <= room => v = w)
  <2>1. PICK K \in Nat : K = 1
    OBVIOUS
  <2>2. K > 0 /\ \A s \in Symbols3 : one[s] <= K
    BY <1>2, <2>1
  <2> QED
    BY <1>2, <1>3, <2>2, CutDownIs
<1>5. ASSUME NEW x \in Weights PROVE Exposure(x, one) = Gross(x)
  <2>1. \A s \in Symbols3 : x[s] \in Nat /\ x[s] * one[s] = x[s]
    BY <1>2 DEF Weights
  <2>2. [s \in Symbols3 |-> x[s] * one[s]] = x
    BY <2>1 DEF Weights
  <2> QED
    BY <2>2 DEF Exposure, Gross
<1> QED
  BY <1>1, <1>4, <1>5 DEF Lighter, v

\* The weights are within the limits on weights.
Within(l, w) ==
    /\ Lighter(w, l.cap) /\ LeveragedWeight(w) <= l.leveraged
    /\ Gross(w) <= LessOf(l.gross, Unit - l.cash)

LEMMA LighterIsWithin ==
    ASSUME NEW l \in Limits, NEW v \in Weights, NEW w \in Weights, Lighter(v, w), Within(l, w)
    PROVE  Within(l, v)
<1>1. Gross(v) <= Gross(w) /\ LeveragedWeight(v) <= LeveragedWeight(w)
  BY LighterSums
<1>2. /\ Gross(v) \in Nat /\ Gross(w) \in Nat /\ LeveragedWeight(v) \in Nat /\ LeveragedWeight(w) \in Nat
      /\ l.leveraged \in Nat /\ LessOf(l.gross, Unit - l.cash) \in Nat /\ l.cap \in Weights
  BY WeightsAreAmounts, LimitsAre
<1>3. Lighter(v, l.cap)
  BY <1>2, LighterStill DEF Within
<1>4. LeveragedWeight(v) <= l.leveraged
  BY <1>1, <1>2 DEF Within
<1>5. Gross(v) <= LessOf(l.gross, Unit - l.cash)
  BY <1>1, <1>2 DEF Within
<1> QED
  BY <1>3, <1>4, <1>5 DEF Within

LEMMA WeightCapsAre ==
    ASSUME NEW l \in Limits, NEW w \in Weights
    PROVE  LET v == GrossCap(l, LeveragedCap(l, PositionCaps(l, w)))
           IN  /\ v \in Weights /\ Lighter(v, w) /\ Within(l, v)
               /\ Within(l, w) => v = w
<1> DEFINE a == PositionCaps(l, w)
           b == LeveragedCap(l, a)
           v == GrossCap(l, b)
<1>1. a \in Weights /\ Lighter(a, w) /\ Lighter(a, l.cap) /\ (Lighter(w, l.cap) => a = w)
  BY PositionCapsIs
<1> HIDE DEF a
<1>2. /\ b \in Weights /\ Lighter(b, a) /\ LeveragedWeight(b) <= l.leveraged
      /\ LeveragedWeight(a) <= l.leveraged => b = a
  BY <1>1, LeveragedCapIs
<1> HIDE DEF b
<1>3. /\ v \in Weights /\ Lighter(v, b) /\ Gross(v) <= LessOf(l.gross, Unit - l.cash)
      /\ Gross(b) <= LessOf(l.gross, Unit - l.cash) => v = b
  BY <1>2, GrossCapIs
<1> HIDE DEF v
<1>4. Lighter(v, a)
  BY <1>1, <1>2, <1>3, LighterStill
<1>5. Lighter(v, w)
  BY <1>1, <1>3, <1>4, LighterStill
<1>6. Lighter(v, l.cap)
  BY <1>1, <1>3, <1>4, LighterStill, LimitsAre
<1>7. LeveragedWeight(v) <= l.leveraged
  <2>1. LeveragedWeight(v) <= LeveragedWeight(b)
    BY <1>2, <1>3, LighterSums
  <2>2. LeveragedWeight(v) \in Nat /\ LeveragedWeight(b) \in Nat /\ l.leveraged \in Nat
    BY <1>2, <1>3, WeightsAreAmounts, LimitsAre
  <2> QED
    BY <1>2, <2>1, <2>2
<1>8. Within(l, w) => v = w
  BY <1>1, <1>2, <1>3 DEF Within
<1> QED
  BY <1>3, <1>5, <1>6, <1>7, <1>8 DEF Within, v, b, a

LEMMA ExposureCapsIs ==
    ASSUME NEW l \in Limits, NEW w \in Weights, NEW long \in Nat, NEW short \in Nat
    PROVE  LET v == ExposureCaps(l, w, long, short)
           IN  /\ v \in Weights /\ Lighter(v, w) /\ Within(l, v)
               /\ Net(v) <= long + Reach /\ -Net(v) <= short
               /\ \A B \in Int : Reach <= B /\ AbsOf(Net(w)) <= B /\ Within(l, w) => AbsOf(Net(v)) <= B
<1> DEFINE a == GrossCap(l, LeveragedCap(l, PositionCaps(l, w)))
           v == CapNet(a, long, short)
<1>1. a \in Weights /\ Lighter(a, w) /\ Within(l, a) /\ (Within(l, w) => a = w)
  BY WeightCapsAre
<1>2. ExposureCaps(l, w, long, short) = v
  BY DEF ExposureCaps
<1> HIDE DEF a
<1>3. /\ v \in Weights /\ Lighter(v, a)
      /\ Net(v) <= long + Reach /\ -Net(v) <= short
      /\ \A B \in Int : Reach <= B /\ AbsOf(Net(a)) <= B => AbsOf(Net(v)) <= B
  BY <1>1, CapNetIs
<1> HIDE DEF v
<1>4. Lighter(v, w)
  BY <1>1, <1>3, LighterStill
<1>5. Within(l, v)
  BY <1>1, <1>3, LighterIsWithin
<1> QED
  BY <1>1, <1>2, <1>3, <1>4, <1>5

LEMMA ChangesAre ==
    ASSUME NEW w \in Weights, NEW cur \in Weights
    PROVE  /\ Decreases(w, cur) \in Nat /\ Increases(w, cur) \in Nat
           /\ Lighter(w, cur) => Increases(w, cur) = 0
<1> DEFINE d == [s \in Symbols3 |-> MoreOf(cur[s] - w[s], 0)]
           i == [s \in Symbols3 |-> MoreOf(w[s] - cur[s], 0)]
<1>1. \A s \in Symbols3 : w[s] \in Nat /\ cur[s] \in Nat
  BY DEF Weights
<1>2. /\ d \in Amounts /\ \A s \in Symbols3 : d[s] >= 0
      /\ i \in Amounts /\ \A s \in Symbols3 : i[s] >= 0
  BY <1>1 DEF Amounts, MoreOf
<1>3. Lighter(w, cur) => \A s \in Symbols3 : i[s] = 0
  BY <1>1 DEF Lighter, MoreOf
<1>4. Decreases(w, cur) = SumAll(d) /\ Increases(w, cur) = SumAll(i)
  BY DEF Decreases, Increases
<1> HIDE DEF d, i
<1>5. SumAll(d) \in Nat /\ SumAll(i) \in Nat
  BY <1>2, SumsArePositive
<1>6. Lighter(w, cur) => SumAll(i) = 0
  BY <1>2, <1>3, SumOfNothing
<1> QED
  BY <1>4, <1>5, <1>6

LEMMA TurnoverIs ==
    ASSUME NEW l \in Limits, NEW w \in Weights, NEW cur \in Weights
    PROVE  /\ Turnover(l, w, cur) \in Weights
           /\ Lighter(w, cur) => Turnover(l, w, cur) = w
<1>1. PICK d \in Nat, i \in Nat, t \in Nat :
        d = Decreases(w, cur) /\ i = Increases(w, cur) /\ t = l.turnover
  BY ChangesAre, LimitsAre
<1>2. CASE d + i <= t \/ i = 0
  <2>1. Turnover(l, w, cur) = w
    BY <1>1, <1>2 DEF Turnover
  <2> QED
    BY <2>1
<1>3. CASE ~ (d + i <= t \/ i = 0)
  <2>1. PICK m \in Nat : m = MoreOf(t - d, 0)
    BY DEF MoreOf
  <2>2. Turnover(l, w, cur) =
          [s \in Symbols3 |-> IF w[s] > cur[s] THEN cur[s] + ((w[s] - cur[s]) * m) \div i ELSE w[s]]
    BY <1>1, <1>3, <2>1 DEF Turnover
  <2>3. i \in Nat \ {0}
    BY <1>1, <1>3
  <2>4. ASSUME NEW s \in Symbols3
        PROVE  (IF w[s] > cur[s] THEN cur[s] + ((w[s] - cur[s]) * m) \div i ELSE w[s]) \in Nat
    <3>1. w[s] \in Nat /\ cur[s] \in Nat
      BY DEF Weights
    <3>2. CASE w[s] > cur[s]
      <4>1. PICK x \in Nat : x = w[s] - cur[s]
        BY <3>1, <3>2
      <4>2. (x * m) \div i \in Nat
        BY <2>3, PartOfWeight
      <4> QED
        BY <3>1, <3>2, <4>1, <4>2
    <3>3. CASE ~ (w[s] > cur[s])
      BY <3>1, <3>3
    <3> QED
      BY <3>2, <3>3
  <2>5. Lighter(w, cur) => i = 0
    BY <1>1, ChangesAre
  <2> QED
    BY <1>3, <2>2, <2>4, <2>5 DEF Weights
<1> QED
  BY <1>2, <1>3

\* The rounds: whatever set of weights a round cannot leave.
RoundState(X) == [w : X, agreed : BOOLEAN]

Stays(X, l, cur, long, short) ==
    /\ X \in SUBSET Weights
    /\ \A x \in X : ExposureCaps(l, Turnover(l, x, cur), long, short) \in X

Rounded(X, v, l, cur, long, short) ==
    \E last \in X :
        /\ \E x \in X : last = ExposureCaps(l, Turnover(l, x, cur), long, short)
        /\ v = IF Decreases(last, cur) + Increases(last, cur) > l.turnover /\ Increases(last, cur) > 0
               THEN ExposureCaps(l, [s \in Symbols3 |-> LessOf(last[s], cur[s])], long, short)
               ELSE last

LEMMA SettleTakes ==
    ASSUME NEW l, NEW w, NEW cur, NEW long, NEW short, NEW X, Stays(X, l, cur, long, short), w \in X
    PROVE  Rounded(X, Settle(l, w, cur, long, short), l, cur, long, short)
<1> DEFINE Y == {x \in X : \E y \in X : x = ExposureCaps(l, Turnover(l, y, cur), long, short)}
           a == [w |-> w, agreed |-> FALSE]
           A == RoundState(X)
           N == 20
           round == CHOOSE f : f = [n \in 0 .. N |-> IF n = 0 THEN a
                                     ELSE SettleOnce(l, f[n - 1], cur, long, short)]
           F == [p \in (1 .. N) \X A |-> SettleOnce(l, p[2], cur, long, short)]
           J == [n \in 0 .. N |-> IF n = 0 THEN {a} ELSE RoundState(Y)]
<1>0. X \in SUBSET Weights /\ \A x \in X : ExposureCaps(l, Turnover(l, x, cur), long, short) \in X
  BY DEF Stays
<1>1. ASSUME NEW x \in A, x = a \/ x.w \in Y
      PROVE  SettleOnce(l, x, cur, long, short) \in RoundState(Y)
  <2> DEFINE next == ExposureCaps(l, Turnover(l, x.w, cur), long, short)
  <2>1. x.w \in X /\ x.agreed \in BOOLEAN /\ x = [w |-> x.w, agreed |-> x.agreed]
    BY DEF RoundState
  <2>2. next \in Y
    BY <1>0, <2>1
  <2>3. SettleOnce(l, x, cur, long, short) = IF x.agreed THEN x ELSE [w |-> next, agreed |-> next = x.w]
    BY DEF SettleOnce
  <2> HIDE DEF next, Y
  <2>4. x.agreed => x.w \in Y
    BY <1>1
  <2> QED
    BY <2>1, <2>2, <2>3, <2>4 DEF RoundState
<1>2. a \in A /\ N \in Nat
  BY DEF RoundState
<1>3. ASSUME NEW x \in A PROVE SettleOnce(l, x, cur, long, short) \in A
  <2> DEFINE next == ExposureCaps(l, Turnover(l, x.w, cur), long, short)
  <2>1. x.w \in X
    BY DEF RoundState
  <2>2. next \in X
    BY <1>0, <2>1
  <2>3. SettleOnce(l, x, cur, long, short) = IF x.agreed THEN x ELSE [w |-> next, agreed |-> next = x.w]
    BY DEF SettleOnce
  <2> HIDE DEF next
  <2> QED
    BY <2>2, <2>3 DEF RoundState
<1>4. RoundState(Y) \subseteq A
  BY DEF RoundState
<1>5. F \in StepsOn(N, A)
  <2> HIDE DEF A, N
  <2>1. \A p \in (1 .. N) \X A : SettleOnce(l, p[2], cur, long, short) \in A
    BY <1>3
  <2> QED
    BY <2>1 DEF StepsOn
<1>6. Settle(l, w, cur, long, short) =
        IF Decreases(round[N].w, cur) + Increases(round[N].w, cur) > l.turnover /\ Increases(round[N].w, cur) > 0
        THEN ExposureCaps(l, [s \in Symbols3 |-> LessOf(round[N].w[s], cur[s])], long, short)
        ELSE round[N].w
  BY DEF Settle
<1> HIDE DEF F, A, a
<1>7. PICK g : Taken(N, A, a, F, g)
  <2> HIDE DEF N
  <2> QED
    BY <1>2, <1>5, RecursionExists
<1>8. ASSUME NEW n \in 1 .. N PROVE g[n] = SettleOnce(l, g[n - 1], cur, long, short)
  <2>1. n - 1 \in 0 .. N
    OBVIOUS
  <2> HIDE DEF N
  <2>2. << n, g[n - 1] >> \in (1 .. N) \X A
    BY <1>7, <2>1 DEF Taken
  <2>3. F[<< n, g[n - 1] >>] = SettleOnce(l, g[n - 1], cur, long, short)
    BY <2>2 DEF F
  <2> QED
    BY <1>7, <2>3 DEF Taken
<1>9. N \in Nat /\ N > 0
  OBVIOUS
<1> HIDE DEF N
<1>10. g = [n \in 0 .. N |-> IF n = 0 THEN a ELSE SettleOnce(l, g[n - 1], cur, long, short)]
  BY <1>7, <1>8, <1>9 DEF Taken
<1>11. round = [n \in 0 .. N |-> IF n = 0 THEN a ELSE SettleOnce(l, round[n - 1], cur, long, short)]
  BY <1>10
<1> HIDE DEF round
<1>12. round[0] = a /\ \A n \in 1 .. N : round[n] = SettleOnce(l, round[n - 1], cur, long, short)
  BY <1>9, <1>11
<1> HIDE DEF Y
<1>13. ASSUME NEW n \in 1 .. N, round[n - 1] \in J[n - 1] PROVE round[n] \in J[n]
  <2>1. n - 1 \in 0 .. N /\ n \in 0 .. N /\ n # 0
    BY <1>9
  <2>2. round[n - 1] = a \/ round[n - 1] \in RoundState(Y)
    BY <1>13, <2>1
  <2>3. round[n - 1] \in A /\ (round[n - 1] = a \/ round[n - 1].w \in Y)
    BY <1>2, <1>4, <2>2 DEF RoundState
  <2>4. round[n] \in RoundState(Y)
    BY <1>1, <1>12, <2>3
  <2> QED
    BY <2>1, <2>4
<1>14. round[0] \in J[0]
  BY <1>9, <1>12
<1>15. J[N] = RoundState(Y)
  BY <1>9
<1> HIDE DEF J
<1>16. round[N] \in J[N]
  <2>1. N \in 0 .. N
    BY <1>9
  <2> QED
    BY <1>9, <1>13, <1>14, <2>1, StepByStep
<1>17. round[N].w \in Y
  BY <1>15, <1>16 DEF RoundState
<1> QED
  BY <1>6, <1>17 DEF Rounded, Y

\* Every limit is kept, but for the rounding of a last cut.
LEMMA SettleIsVerified ==
    ASSUME NEW l \in Limits, NEW w \in Weights, NEW cur \in Weights, NEW long \in Nat, NEW short \in Nat
    PROVE  LET v == Settle(l, w, cur, long, short)
           IN  /\ v \in Weights /\ Within(l, v)
               /\ Net(v) <= long + Reach /\ -Net(v) <= short
               /\ Increases(v, cur) > 0 => Decreases(v, cur) + Increases(v, cur) <= l.turnover
<1> DEFINE v == Settle(l, w, cur, long, short)
           X == Weights
<1>1. \A x \in X : ExposureCaps(l, Turnover(l, x, cur), long, short) \in X
  BY TurnoverIs, ExposureCapsIs
<1>2. PICK last \in X :
        /\ \E x \in X : last = ExposureCaps(l, Turnover(l, x, cur), long, short)
        /\ v = IF Decreases(last, cur) + Increases(last, cur) > l.turnover /\ Increases(last, cur) > 0
               THEN ExposureCaps(l, [s \in Symbols3 |-> LessOf(last[s], cur[s])], long, short)
               ELSE last
  <2> HIDE DEF v
  <2>1. X \in SUBSET Weights /\ w \in X
    OBVIOUS
  <2> HIDE DEF X
  <2> QED
    <3>1. Rounded(X, Settle(l, w, cur, long, short), l, cur, long, short)
      BY <1>1, <2>1, SettleTakes DEF Stays
    <3> QED
      BY <3>1 DEF Rounded, v
<1>3. PICK x \in Weights : last = ExposureCaps(l, Turnover(l, x, cur), long, short)
  BY <1>2
<1> HIDE DEF v
<1>4. PICK d \in Nat, i \in Nat, t \in Nat : d = Decreases(last, cur) /\ i = Increases(last, cur) /\ t = l.turnover
  BY ChangesAre, LimitsAre
<1>5. CASE d + i > t /\ i > 0
  <2> DEFINE cut == [s \in Symbols3 |-> LessOf(last[s], cur[s])]
  <2>1. \A s \in Symbols3 : last[s] \in Nat /\ cur[s] \in Nat
    BY DEF Weights
  <2>2. cut \in Weights /\ Lighter(cut, cur)
    BY <2>1 DEF Weights, Lighter, LessOf
  <2>3. v = ExposureCaps(l, cut, long, short)
    BY <1>2, <1>4, <1>5
  <2> HIDE DEF cut
  <2>4. /\ v \in Weights /\ Lighter(v, cut) /\ Within(l, v)
        /\ Net(v) <= long + Reach /\ -Net(v) <= short
    BY <2>2, <2>3, ExposureCapsIs
  <2>5. Lighter(v, cur)
    BY <2>2, <2>4, LighterStill
  <2>6. Increases(v, cur) = 0
    BY <2>4, <2>5, ChangesAre
  <2> QED
    BY <2>4, <2>6 DEF v
<1>6. CASE ~ (d + i > t /\ i > 0)
  <2>1. v = last
    BY <1>2, <1>4, <1>6
  <2>2. Turnover(l, x, cur) \in Weights
    BY TurnoverIs
  <2>3. /\ last \in Weights /\ Within(l, last)
        /\ Net(last) <= long + Reach /\ -Net(last) <= short
    BY <1>3, <2>2, ExposureCapsIs
  <2>4. i > 0 => d + i <= t
    BY <1>6
  <2> QED
    BY <1>4, <2>1, <2>3, <2>4 DEF v
<1> QED
  BY <1>5, <1>6

\* What is below what is held stays below.
LEMMA SettleReduces ==
    ASSUME NEW l \in Limits, NEW w \in Weights, NEW cur \in Weights, NEW long \in Nat, NEW short \in Nat,
           NEW top \in Weights, Lighter(w, top), Lighter(top, cur)
    PROVE  LET v == Settle(l, w, cur, long, short)
           IN  /\ Lighter(v, top)
               /\ \A B \in Int : Reach <= B /\ AbsOf(Net(w)) <= B /\ Within(l, w) => AbsOf(Net(v)) <= B
<1> DEFINE v == Settle(l, w, cur, long, short)
<1>1. ASSUME NEW X \in SUBSET Weights, w \in X, \A x \in X : Lighter(x, top),
             \A x \in X : ExposureCaps(l, x, long, short) \in X
      PROVE  v \in X
  <2>1. ASSUME NEW x \in X PROVE x \in Weights /\ Lighter(x, cur) /\ Turnover(l, x, cur) = x
    <3>1. x \in Weights /\ Lighter(x, top)
      BY <1>1
    <3>2. Lighter(x, cur)
      BY <3>1, LighterStill
    <3> QED
      BY <3>1, <3>2, TurnoverIs
  <2>2. \A x \in X : ExposureCaps(l, Turnover(l, x, cur), long, short) \in X
    BY <1>1, <2>1
  <2> HIDE DEF v
  <2>3. PICK last \in X :
          v = IF Decreases(last, cur) + Increases(last, cur) > l.turnover /\ Increases(last, cur) > 0
              THEN ExposureCaps(l, [s \in Symbols3 |-> LessOf(last[s], cur[s])], long, short)
              ELSE last
    <3>1. X \in SUBSET Weights /\ w \in X
      BY <1>1
    <3>2. Rounded(X, Settle(l, w, cur, long, short), l, cur, long, short)
      BY <2>2, <3>1, SettleTakes DEF Stays
    <3> QED
      BY <3>2 DEF Rounded, v
  <2>4. Increases(last, cur) = 0
    BY <2>1, ChangesAre
  <2> QED
    BY <2>3, <2>4
<1>2. Lighter(v, top)
  <2> DEFINE X == {x \in Weights : Lighter(x, top)}
  <2>1. \A x \in X : ExposureCaps(l, x, long, short) \in X
    <3> SUFFICES ASSUME NEW x \in Weights, Lighter(x, top)
                 PROVE  ExposureCaps(l, x, long, short) \in Weights /\ Lighter(ExposureCaps(l, x, long, short), top)
      OBVIOUS
    <3> DEFINE y == ExposureCaps(l, x, long, short)
    <3>1. y \in Weights /\ Lighter(y, x)
      BY ExposureCapsIs
    <3> HIDE DEF y
    <3>2. Lighter(y, top)
      BY <3>1, LighterStill
    <3> QED
      BY <3>1, <3>2 DEF y
  <2>2. X \in SUBSET Weights /\ w \in X /\ \A x \in X : Lighter(x, top)
    OBVIOUS
  <2>3. \A x \in X : Lighter(x, top)
    OBVIOUS
  <2> HIDE DEF X, v
  <2>4. v \in X
    BY <1>1, <2>1, <2>2
  <2> QED
    BY <2>3, <2>4
<1>3. ASSUME NEW B \in Int, Reach <= B, AbsOf(Net(w)) <= B, Within(l, w)
      PROVE  AbsOf(Net(v)) <= B
  <2> DEFINE X == {x \in Weights : Lighter(x, top) /\ AbsOf(Net(x)) <= B /\ Within(l, x)}
  <2>1. \A x \in X : ExposureCaps(l, x, long, short) \in X
    <3> SUFFICES ASSUME NEW x \in Weights, Lighter(x, top), AbsOf(Net(x)) <= B, Within(l, x)
                 PROVE  ExposureCaps(l, x, long, short) \in X
      OBVIOUS
    <3> DEFINE y == ExposureCaps(l, x, long, short)
    <3>1. y \in Weights /\ Lighter(y, x) /\ Within(l, y) /\ AbsOf(Net(y)) <= B
      BY <1>3, ExposureCapsIs
    <3> HIDE DEF y
    <3>2. Lighter(y, top)
      BY <3>1, LighterStill
    <3>3. y \in X
      BY <3>1, <3>2
    <3> QED
      BY <3>3 DEF y
  <2>2. X \in SUBSET Weights /\ w \in X /\ \A x \in X : Lighter(x, top)
    BY <1>3
  <2>3. \A x \in X : AbsOf(Net(x)) <= B
    OBVIOUS
  <2> HIDE DEF X, v
  <2>4. v \in X
    BY <1>1, <2>1, <2>2
  <2> QED
    BY <2>3, <2>4
<1> QED
  BY <1>2, <1>3

LEMMA NegativeAbs ==
    ASSUME NEW x \in Int
    PROVE  AbsOf(x) \in Nat /\ x <= AbsOf(x) /\ -x <= AbsOf(x)
BY DEF AbsOf

\* A part of the weights, each rounded down, has as much of the net exposure but
\* for the rounding.
LEMMA PartOfNet ==
    ASSUME NEW w \in Weights, NEW n \in Nat, NEW d \in Nat \ {0}, n <= d, NEW v \in Weights,
           \A s \in Symbols3 : v[s] = (w[s] * n) \div d
    PROVE  AbsOf(Net(v)) <= AbsOf(Net(w)) + Reach
<1> DEFINE f == Carried(w, Leverage)
           g == Carried(v, Leverage)
           r == [s \in Symbols3 |-> AbsOf(Leverage[s])]
           dg == [s \in Symbols3 |-> d * g[s]]
           nf == [s \in Symbols3 |-> n * f[s]]
           dr == [s \in Symbols3 |-> d * r[s]]
           over == [s \in Symbols3 |-> nf[s] + dr[s]]
           dgr == [s \in Symbols3 |-> dg[s] + dr[s]]
<1>1. Leverage \in Amounts /\ r \in Amounts /\ Reach = SumAll(r) /\ Reach \in Nat
  BY ReachIs DEF Reach
<1>2. f \in Amounts /\ g \in Amounts /\ Net(w) = SumAll(f) /\ Net(v) = SumAll(g)
  BY <1>1, CarriedIs DEF Net
<1>3. ASSUME NEW s \in Symbols3
      PROVE  /\ d * g[s] \in Int /\ n * f[s] \in Int /\ d * r[s] \in Int
             /\ d * g[s] <= n * f[s] + d * r[s] /\ n * f[s] <= d * g[s] + d * r[s]
  <2>1. PICK x \in Nat, y \in Nat, c \in Int : x = w[s] /\ y = v[s] /\ c = Leverage[s]
    BY <1>1 DEF Weights, Amounts
  <2>2. d * y <= n * x /\ n * x < d * y + d
    BY <2>1, PartOfWeight
  <2>3. f[s] = x * c /\ g[s] = y * c /\ r[s] = AbsOf(c)
    BY <2>1 DEF Carried
  <2>4. PICK p \in Int, q \in Int : p = n * x /\ q = d * y
    OBVIOUS
  <2>5. n * (x * c) = p * c /\ d * (y * c) = q * c
    BY <2>4
  <2>6. 0 <= p - q /\ p - q <= d
    BY <2>2, <2>4
  <2>7. PICK e \in Int, a \in Int, b \in Int : e = p - q /\ a = p * c /\ b = q * c
    OBVIOUS
  <2>8. a - b = e * c
    BY <2>7
  <2>9. PICK m \in Nat : m = AbsOf(c) /\ c <= m /\ -c <= m
    BY NegativeAbs
  <2>10. e * c <= d * m /\ -(e * c) <= d * m
    <3>1. e * c <= e * m /\ e * (-c) <= e * m
      BY <2>6, <2>7, <2>9
    <3>2. e * m <= d * m
      BY <2>6, <2>7
    <3>3. e * (-c) = -(e * c)
      OBVIOUS
    <3>4. PICK i \in Int, j \in Int, k \in Int : i = e * c /\ j = e * m /\ k = d * m
      OBVIOUS
    <3> QED
      BY <3>1, <3>2, <3>3, <3>4
  <2>11. PICK k \in Int, i \in Int : k = d * m /\ i = e * c
    OBVIOUS
  <2>12. b <= a + k /\ a <= b + k
    BY <2>7, <2>8, <2>10, <2>11
  <2>13. d * g[s] = b /\ n * f[s] = a /\ d * r[s] = k
    BY <2>3, <2>5, <2>7, <2>9, <2>11
  <2> HIDE DEF f, g, r
  <2> QED
    BY <2>12, <2>13
<1> HIDE DEF f, g, r
<1>4. /\ dg \in Amounts /\ nf \in Amounts /\ dr \in Amounts
      /\ \A s \in Symbols3 : dg[s] = d * g[s] /\ nf[s] = n * f[s] /\ dr[s] = d * r[s]
  BY <1>3 DEF Amounts
<1> HIDE DEF dg, nf, dr
<1>5. /\ over \in Amounts /\ \A s \in Symbols3 : over[s] = nf[s] + dr[s]
      /\ dgr \in Amounts /\ \A s \in Symbols3 : dgr[s] = dg[s] + dr[s]
  <2>1. \A s \in Symbols3 : nf[s] + dr[s] \in Int /\ dg[s] + dr[s] \in Int
    BY <1>4 DEF Amounts
  <2> QED
    BY <2>1 DEF Amounts
<1> HIDE DEF over, dgr
<1>6. SumAll(dg) <= SumAll(over)
  BY <1>3, <1>4, <1>5, SumsGrow
<1>7. SumAll(nf) <= SumAll(dgr)
  BY <1>3, <1>4, <1>5, SumsGrow
<1>8. SumAll(over) = SumAll(nf) + SumAll(dr)
  BY <1>4, <1>5, SumsAdd
<1>9. SumAll(dgr) = SumAll(dg) + SumAll(dr)
  BY <1>4, <1>5, SumsAdd
<1>10. SumAll(dg) = d * SumAll(g)
  BY <1>2, <1>4, SumsScale
<1>11. SumAll(nf) = n * SumAll(f)
  BY <1>2, <1>4, SumsScale
<1>12. SumAll(dr) = d * SumAll(r)
  BY <1>1, <1>4, SumsScale
<1>13. PICK F \in Int, G \in Int, R \in Nat : F = Net(w) /\ G = Net(v) /\ R = Reach
  BY <1>1, <1>2, SubSums
<1>14. d * G <= n * F + d * R /\ n * F <= d * G + d * R
  BY <1>1, <1>2, <1>6, <1>7, <1>8, <1>9, <1>10, <1>11, <1>12, <1>13
<1>15. PICK m \in Nat : m = AbsOf(F) /\ F <= m /\ -F <= m
  BY NegativeAbs
<1>16. n * F <= d * m /\ -(n * F) <= d * m
  <2>1. n * F <= n * m /\ n * (-F) <= n * m /\ n * m <= d * m
    BY <1>15
  <2>2. n * (-F) = -(n * F)
    OBVIOUS
  <2>3. PICK i \in Int, j \in Int, k \in Int : i = n * F /\ j = n * m /\ k = d * m
    OBVIOUS
  <2> QED
    BY <2>1, <2>2, <2>3
<1>17. d * G <= d * (m + R) /\ -(d * G) <= d * (m + R)
  <2>1. PICK i \in Int, j \in Int, k \in Int, h \in Int : i = n * F /\ j = d * m /\ k = d * R /\ h = d * G
    OBVIOUS
  <2>2. d * (m + R) = d * m + d * R
    OBVIOUS
  <2> QED
    BY <1>14, <1>16, <2>1, <2>2
<1>18. ASSUME NEW x \in Int, NEW y \in Int, d * x <= d * y PROVE x <= y
  <2> SUFFICES ASSUME x >= y + 1 PROVE FALSE
    OBVIOUS
  <2>1. d * x >= d * (y + 1) /\ d * (y + 1) = d * y + d
    OBVIOUS
  <2>2. PICK i \in Int, j \in Int : i = d * x /\ j = d * y
    OBVIOUS
  <2> QED
    BY <1>18, <2>1, <2>2
<1>19. G <= m + R /\ -G <= m + R
  <2>1. d * (-G) = -(d * G)
    OBVIOUS
  <2>2. d * (-G) <= d * (m + R)
    BY <1>17, <2>1
  <2>3. m + R \in Int /\ -G \in Int
    OBVIOUS
  <2> QED
    BY <1>17, <1>18, <2>2, <2>3
<1>20. AbsOf(G) <= m + R
  BY <1>19 DEF AbsOf
<1> QED
  BY <1>13, <1>15, <1>20

LEMMA ScaledIs ==
    ASSUME NEW w \in Weights, NEW n \in Nat, NEW d \in Nat \ {0}
    PROVE  LET v == [s \in Symbols3 |-> (w[s] * n) \div d]
           IN  /\ v \in Weights
               /\ n <= d => Lighter(v, w) /\ AbsOf(Net(v)) <= AbsOf(Net(w)) + Reach
<1> DEFINE v == [s \in Symbols3 |-> (w[s] * n) \div d]
<1>1. \A s \in Symbols3 : w[s] \in Nat
  BY DEF Weights
<1>2. \A s \in Symbols3 : (w[s] * n) \div d \in Nat /\ (n <= d => (w[s] * n) \div d <= w[s])
  BY <1>1, PartOfWeight
<1>3. v \in Weights
  BY <1>2 DEF Weights
<1>4. n <= d => Lighter(v, w)
  BY <1>2 DEF Lighter
<1>5. \A s \in Symbols3 : v[s] = (w[s] * n) \div d
  OBVIOUS
<1> HIDE DEF v
<1>6. n <= d => AbsOf(Net(v)) <= AbsOf(Net(w)) + Reach
  BY <1>3, <1>5, PartOfNet
<1> QED
  BY <1>3, <1>4, <1>6 DEF v

LEMMA VolTargetIs ==
    ASSUME NEW l \in Limits, NEW w \in Weights, NEW vol \in Nat, NEW frozen \in BOOLEAN
    PROVE  LET v == VolTarget(l, w, vol, frozen)
           IN  /\ v \in Weights
               /\ frozen \/ l.maxScale <= Unit =>
                     Lighter(v, w) /\ AbsOf(Net(v)) <= AbsOf(Net(w)) + Reach
<1> DEFINE calm == frozen \/ l.maxScale <= Unit
           hi == IF frozen THEN LessOf(l.maxScale, Unit) ELSE l.maxScale
           part(n, d) == [s \in Symbols3 |-> (w[s] * n) \div d]
           v == VolTarget(l, w, vol, frozen)
<1>1. PICK u \in Nat \ {0}, t \in Nat, ms \in Nat, mx \in Nat :
        u = Unit /\ t = l.target /\ ms = l.minScale /\ mx = l.maxScale
  BY LimitsAre
<1>2. PICK f \in Nat : f = vol * AbsOf(Net(w))
  <2>1. AbsOf(Net(w)) \in Nat
    BY WeightsAreAmounts, NegativeAbs
  <2> QED
    BY <2>1
<1>3. PICK h \in Nat : h = hi /\ (calm => h <= u)
  BY <1>1 DEF LessOf
<1>4. \E n \in Nat, d \in Nat \ {0} : v = part(n, d) /\ (calm => n <= d)
  <2> HIDE DEF calm
  <2>1. v = CASE f = 0 -> part(h, u)
              [] f # 0 /\ t * u >= h * f -> part(h, u)
              [] f # 0 /\ t * u < h * f ->
                   IF t * u <= ms * f THEN part(LessOf(ms, h), u) ELSE part(t, f)
    <3> HIDE DEF hi
    <3>1. v = LET forecast == vol * AbsOf(Net(w))
              IN  CASE forecast = 0                                       -> part(hi, Unit)
                    [] forecast # 0 /\ l.target * Unit >= hi * forecast   -> part(hi, Unit)
                    [] forecast # 0 /\ l.target * Unit < hi * forecast ->
                         IF l.target * Unit <= l.minScale * forecast
                         THEN part(LessOf(l.minScale, hi), Unit) ELSE part(l.target, forecast)
      BY DEF VolTarget, hi
    <3> QED
      BY <1>1, <1>2, <1>3, <3>1
  <2> HIDE DEF part, v, hi
  <2>2. PICK tu \in Nat, hf \in Nat, mf \in Nat : tu = t * u /\ hf = h * f /\ mf = ms * f
    OBVIOUS
  <2>3. v = CASE f = 0 -> part(h, u)
              [] f # 0 /\ tu >= hf -> part(h, u)
              [] f # 0 /\ tu < hf -> IF tu <= mf THEN part(LessOf(ms, h), u) ELSE part(t, f)
    BY <2>1, <2>2
  <2>4. CASE f = 0 \/ tu >= hf
    <3>1. v = part(h, u)
      BY <2>3, <2>4
    <3> QED
      BY <1>3, <3>1
  <2>5. CASE f # 0 /\ tu < hf /\ tu <= mf
    <3>1. v = part(LessOf(ms, h), u)
      BY <2>3, <2>5
    <3>2. LessOf(ms, h) \in Nat /\ (calm => LessOf(ms, h) <= u)
      BY <1>3 DEF LessOf
    <3> QED
      BY <3>1, <3>2
  <2>6. CASE f # 0 /\ tu < hf /\ ~ (tu <= mf)
    <3>1. v = part(t, f)
      BY <2>3, <2>6
    <3>2. calm => t <= f
      <4> SUFFICES ASSUME h <= u, t > f PROVE FALSE
        BY <1>3
      <4>1. h * f <= u * f /\ u * f <= u * t /\ u * t = t * u
        OBVIOUS
      <4>2. PICK a \in Nat : a = u * f
        OBVIOUS
      <4> QED
        BY <2>2, <2>6, <4>1, <4>2
    <3> QED
      BY <2>6, <3>1, <3>2
  <2> QED
    BY <2>2, <2>4, <2>5, <2>6
<1>5. PICK n \in Nat, d \in Nat \ {0} : v = part(n, d) /\ (calm => n <= d)
  BY <1>4
<1>6. /\ part(n, d) \in Weights
      /\ n <= d => Lighter(part(n, d), w) /\ AbsOf(Net(part(n, d))) <= AbsOf(Net(w)) + Reach
  BY ScaledIs
<1> HIDE DEF part, v, hi
<1> QED
  BY <1>5, <1>6 DEF v

LEMMA FreezeIs ==
    ASSUME NEW w \in Weights, NEW cur \in Weights
    PROVE  LET v == Freeze(w, cur)
           IN  /\ v \in Weights /\ Lighter(v, cur) /\ AbsOf(Net(v)) <= AbsOf(Net(cur))
               /\ Lighter(w, cur) /\ AbsOf(Net(w)) <= AbsOf(Net(cur)) => v = w
<1> DEFINE cut == [s \in Symbols3 |-> LessOf(w[s], cur[s])]
<1>1. \A s \in Symbols3 : w[s] \in Nat /\ cur[s] \in Nat
  BY DEF Weights
<1>2. cut \in Weights /\ Lighter(cut, cur) /\ Lighter(cur, cur)
  BY <1>1 DEF Weights, Lighter, LessOf
<1>3. Lighter(w, cur) => cut = w
  <2> SUFFICES ASSUME Lighter(w, cur) PROVE cut = w
    OBVIOUS
  <2>1. \A s \in Symbols3 : cut[s] = w[s]
    BY <1>1 DEF Lighter, LessOf
  <2> QED
    BY <1>2, <2>1 DEF Weights
<1>4. Freeze(w, cur) = IF AbsOf(Net(cut)) > AbsOf(Net(cur)) THEN cur ELSE cut
  BY DEF Freeze
<1> HIDE DEF cut
<1>5. PICK a \in Nat, b \in Nat : a = AbsOf(Net(cut)) /\ b = AbsOf(Net(cur))
  BY <1>2, WeightsAreAmounts, NegativeAbs
<1>6. CASE a > b
  <2>1. Freeze(w, cur) = cur
    BY <1>4, <1>5, <1>6
  <2>2. ~ (Lighter(w, cur) /\ AbsOf(Net(w)) <= AbsOf(Net(cur)))
    BY <1>3, <1>5, <1>6
  <2> QED
    BY <1>2, <1>5, <2>1, <2>2
<1>7. CASE ~ (a > b)
  <2>1. Freeze(w, cur) = cut /\ a <= b
    BY <1>4, <1>5, <1>7
  <2> QED
    BY <1>2, <1>3, <1>5, <2>1
<1> QED
  BY <1>6, <1>7

-----------------------------------------------------------------------------
(* The allocation policy. *)

Three(q, t, s) ==
    [x \in Symbols3 |-> IF x = "QQQ" THEN q ELSE IF x = "TQQQ" THEN t ELSE IF x = "SQQQ" THEN s ELSE 0]

LEMMA SumOfThree ==
    ASSUME NEW q \in Int, NEW t \in Int, NEW s \in Int
    PROVE  Three(q, t, s) \in Amounts /\ SumAll(Three(q, t, s)) = q + t + s
<1>1. "QQQ" \in Symbols3 /\ "TQQQ" \in Symbols3 /\ "SQQQ" \in Symbols3
  BY InstrumentsLoad
<1>2. ASSUME NEW a \in Int, NEW b \in Int, NEW c \in Int
      PROVE  /\ Three(a, b, c) \in Amounts /\ Three(a, b, c)["QQQ"] = a /\ Three(a, b, c)["TQQQ"] = b
             /\ Three(a, b, c)["SQQQ"] = c
  BY <1>1 DEF Three, Amounts
<1> DEFINE w0 == Three(0, 0, 0)
           w1 == Three(q, 0, 0)
           w2 == Three(q, t, 0)
           w3 == Three(q, t, s)
<1>3. w0 \in Amounts /\ w0["QQQ"] = 0 /\ \A x \in Symbols3 : w0[x] = 0
  BY <1>1 DEF Three, Amounts
<1>4. w1 \in Amounts /\ w1["QQQ"] = q /\ w1["TQQQ"] = 0
  BY <1>2
<1>5. w2 \in Amounts /\ w2["TQQQ"] = t /\ w2["SQQQ"] = 0
  BY <1>2
<1>6. w3 \in Amounts /\ w3["SQQQ"] = s
  BY <1>2
<1>7. \A x \in Symbols3 : x # "QQQ" => w1[x] = w0[x]
  BY DEF Three
<1>8. \A x \in Symbols3 : x # "TQQQ" => w2[x] = w1[x]
  BY DEF Three
<1>9. \A x \in Symbols3 : x # "SQQQ" => w3[x] = w2[x]
  BY DEF Three
<1> HIDE DEF w0, w1, w2, w3
<1>10. SumAll(w0) = 0
  BY <1>3, SumOfNothing
<1>11. SumAll(w1) = SumAll(w0) - w0["QQQ"] + w1["QQQ"]
  BY <1>1, <1>3, <1>4, <1>7, SumOfOne
<1>12. SumAll(w2) = SumAll(w1) - w1["TQQQ"] + w2["TQQQ"]
  BY <1>1, <1>4, <1>5, <1>8, SumOfOne
<1>13. SumAll(w3) = SumAll(w2) - w2["SQQQ"] + w3["SQQQ"]
  BY <1>1, <1>5, <1>6, <1>9, SumOfOne
<1>14. SumAll(w1) = q
  BY <1>3, <1>4, <1>10, <1>11
<1>15. SumAll(w2) = q + t
  BY <1>4, <1>5, <1>12, <1>14
<1>16. SumAll(w3) = q + t + s
  BY <1>5, <1>6, <1>13, <1>15
<1> QED
  BY <1>6, <1>16 DEF w3

LEMMA ThreeWeights ==
    ASSUME NEW q \in Nat, NEW t \in Nat, NEW s \in Nat
    PROVE  LET w == Three(q, t, s)
           IN  /\ w \in Weights /\ w["QQQ"] = q /\ w["TQQQ"] = t /\ w["SQQQ"] = s
               /\ Gross(w) = q + t + s /\ Net(w) = q + 3 * t - 3 * s
<1> DEFINE w == Three(q, t, s)
<1>1. /\ "QQQ" \in Symbols3 /\ "TQQQ" \in Symbols3 /\ "SQQQ" \in Symbols3
      /\ Leverage["QQQ"] = 1 /\ Leverage["TQQQ"] = 3 /\ Leverage["SQQQ"] = -3
      /\ \A x \in Symbols3 : Leverage[x] \in Int
  BY InstrumentsLoad
<1>2. w \in Weights /\ w["QQQ"] = q /\ w["TQQQ"] = t /\ w["SQQQ"] = s
  BY <1>1 DEF Three, Weights
<1>3. Gross(w) = q + t + s
  BY SumOfThree DEF Gross
<1>4. PICK a \in Int, b \in Int, c \in Int : a = q /\ b = 3 * t /\ c = t - t - 3 * s
  OBVIOUS
<1>5. [x \in Symbols3 |-> w[x] * Leverage[x]] = Three(a, b, c)
  <2> SUFFICES ASSUME NEW x \in Symbols3 PROVE w[x] * Leverage[x] = Three(a, b, c)[x]
    BY DEF Three
  <2>1. CASE x = "QQQ"
    <3>1. Three(a, b, c)[x] = a
      BY <2>1 DEF Three
    <3> QED
      BY <1>1, <1>2, <1>4, <2>1, <3>1
  <2>2. CASE x = "TQQQ"
    <3>1. Three(a, b, c)[x] = b
      BY <2>2 DEF Three
    <3> QED
      BY <1>1, <1>2, <1>4, <2>2, <3>1
  <2>3. CASE x = "SQQQ"
    <3>1. Three(a, b, c)[x] = c
      BY <2>3 DEF Three
    <3>2. w[x] = s /\ Leverage[x] = -3
      BY <1>1, <1>2, <2>3
    <3>3. s * (-3) = t - t - 3 * s
      OBVIOUS
    <3> QED
      BY <1>4, <3>1, <3>2, <3>3
  <2>4. CASE x \notin {"QQQ", "TQQQ", "SQQQ"}
    <3>1. Three(a, b, c)[x] = 0 /\ w[x] = 0
      BY <2>4 DEF Three
    <3>2. 0 * Leverage[x] = 0
      BY <1>1
    <3> QED
      BY <3>1, <3>2
  <2> QED
    BY <2>1, <2>2, <2>3, <2>4
<1>6. Net(w) = SumAll(Three(a, b, c))
  BY <1>5 DEF Net, Exposure
<1> HIDE DEF w
<1>7. Net(w) = a + b + c
  BY <1>6, SumOfThree
<1>8. Net(w) = q + 3 * t - 3 * s
  BY <1>4, <1>7
<1> QED
  BY <1>2, <1>3, <1>8 DEF w

\* What the instruments can carry of an exposure, and what it means that a
\* net exposure comes close to it.
Clamped(e, mode) == MoreOf(-3 * Unit, LessOf(e, IF mode = "qqq_only" THEN Unit ELSE 3 * Unit))
CloseTo(aim, net) ==
    \/ aim >= 0 /\ net >= 0 /\ net <= aim /\ aim < net + 3
    \/ aim <= 0 /\ net <= 0 /\ -net <= -aim /\ -aim < -net + 3

\* What that is, in each mode.
LEMMA ClampedIs ==
    ASSUME NEW e \in Int, NEW mode \in LongModes, NEW u \in Nat \ {0}, u = Unit
    PROVE  /\ Clamped(e, mode) \in Int
           /\ e < 0 => Clamped(e, mode) = MoreOf(-3 * u, e)
           /\ e >= 0 /\ mode = "qqq_only" => Clamped(e, mode) = LessOf(e, u)
           /\ e >= 0 /\ mode # "qqq_only" => Clamped(e, mode) = LessOf(e, 3 * u)
<1>1. CASE mode = "qqq_only"
  <2>1. Clamped(e, mode) = MoreOf(-3 * u, LessOf(e, u))
    BY <1>1 DEF Clamped
  <2> QED
    BY <1>1, <2>1 DEF MoreOf, LessOf
<1>2. CASE mode # "qqq_only"
  <2>1. Clamped(e, mode) = MoreOf(-3 * u, LessOf(e, 3 * u))
    BY <1>2 DEF Clamped
  <2> QED
    BY <1>2, <2>1 DEF MoreOf, LessOf
<1> QED
  BY <1>1, <1>2

\* The weights of the policy and the exposure they realise.
LEMMA PolicyIs ==
    ASSUME NEW e \in Int, NEW mode \in LongModes
    PROVE  \E q, t, s \in Nat :
             /\ ExposureToWeights(e, mode) = Three(q, t, s)
             /\ q + t + s <= Unit /\ (s > 0 => q + t = 0)
             /\ CloseTo(Clamped(e, mode), q + 3 * t - 3 * s)
<1>1. PICK u \in Nat \ {0} : u = Unit
  BY BooksAreHeld
<1> DEFINE none == [x \in Symbols3 |-> 0]
           W == ExposureToWeights(e, mode)
           Good(q, t, s) ==
             /\ q + t + s <= u /\ (s > 0 => q + t = 0)
             /\ CloseTo(Clamped(e, mode), q + 3 * t - 3 * s)
<1>2. /\ "QQQ" \in Symbols3 /\ "TQQQ" \in Symbols3 /\ "SQQQ" \in Symbols3
  BY InstrumentsLoad
<1>3. ASSUME NEW a
      PROVE  /\ [none EXCEPT !["SQQQ"] = a] = Three(0, 0, a)
             /\ [none EXCEPT !["QQQ"] = a] = Three(a, 0, 0)
             /\ [none EXCEPT !["TQQQ"] = a] = Three(0, a, 0)
  BY <1>2 DEF Three
<1>4. ASSUME NEW a, NEW b PROVE [none EXCEPT !["TQQQ"] = a, !["QQQ"] = b] = Three(b, a, 0)
  BY <1>2 DEF Three
<1>5. CASE e < 0
  <2>1. PICK m \in Nat : m = -e
    BY <1>5
  <2>2. PICK d \in Nat : d = m \div 3 /\ 3 * d <= m /\ m < 3 * d + 3
    BY QuotientIs
  <2>3. PICK s \in Nat : s = LessOf(u, d)
    BY DEF LessOf
  <2>4. W = Three(0, 0, s)
    <3>1. W = [none EXCEPT !["SQQQ"] = LessOf(u, (-e) \div 3)]
      BY <1>1, <1>5 DEF ExposureToWeights
    <3> HIDE DEF none, W
    <3> QED
      BY <1>3, <2>1, <2>2, <2>3, <3>1
  <2>5. Good(0, 0, s)
    <3>1. PICK a \in Int : a = Clamped(e, mode) /\ a = MoreOf(-3 * u, e)
      BY <1>1, <1>5, ClampedIs
    <3>2. CloseTo(a, 0 + 3 * 0 - 3 * s)
      BY <1>1, <1>5, <2>1, <2>2, <2>3, <3>1 DEF LessOf, MoreOf, CloseTo
    <3>3. 0 + 0 + s <= u /\ (s > 0 => 0 + 0 = 0)
      BY <1>1, <1>5, <2>1, <2>2, <2>3 DEF LessOf
    <3> QED
      BY <3>1, <3>2, <3>3
  <2> QED
    BY <1>1, <2>4, <2>5
<1>6. CASE e >= 0 /\ mode = "qqq_only"
  <2>1. PICK q \in Nat : q = LessOf(e, u)
    BY <1>6 DEF LessOf
  <2>2. W = Three(q, 0, 0)
    <3>1. W = [none EXCEPT !["QQQ"] = LessOf(e, u)]
      BY <1>1, <1>6 DEF ExposureToWeights
    <3> HIDE DEF none, W
    <3> QED
      BY <1>3, <2>1, <3>1
  <2>3. Good(q, 0, 0)
    <3>1. PICK a \in Int : a = Clamped(e, mode) /\ a = LessOf(e, u)
      BY <1>1, <1>6, ClampedIs
    <3>2. CloseTo(a, q + 3 * 0 - 3 * 0)
      BY <1>1, <1>6, <2>1, <3>1 DEF LessOf, MoreOf, CloseTo
    <3>3. q + 0 + 0 <= u /\ (0 > 0 => q + 0 = 0)
      BY <1>1, <1>6, <2>1 DEF LessOf
    <3> QED
      BY <3>1, <3>2, <3>3
  <2> QED
    BY <1>1, <2>2, <2>3
<1>7. CASE e >= 0 /\ mode = "tqqq_only"
  <2>1. PICK d \in Nat : d = e \div 3 /\ 3 * d <= e /\ e < 3 * d + 3
    BY <1>7, QuotientIs
  <2>2. PICK t \in Nat : t = LessOf(d, u)
    BY DEF LessOf
  <2>3. W = Three(0, t, 0)
    <3>1. W = [none EXCEPT !["TQQQ"] = LessOf(e \div 3, u)]
      BY <1>1, <1>7 DEF ExposureToWeights
    <3> HIDE DEF none, W
    <3> QED
      BY <1>3, <2>1, <2>2, <3>1
  <2>4. Good(0, t, 0)
    <3>1. PICK a \in Int : a = Clamped(e, mode) /\ a = LessOf(e, 3 * u)
      BY <1>1, <1>7, ClampedIs
    <3>2. CloseTo(a, 0 + 3 * t - 3 * 0)
      BY <1>1, <1>7, <2>1, <2>2, <3>1 DEF LessOf, MoreOf, CloseTo
    <3>3. 0 + t + 0 <= u /\ (0 > 0 => 0 + t = 0)
      BY <1>1, <1>7, <2>1, <2>2 DEF LessOf
    <3> QED
      BY <3>1, <3>2, <3>3
  <2> QED
    BY <1>1, <2>3, <2>4
<1>8. CASE e \in 0 .. u /\ mode = "qqq_then_tqqq"
  <2>1. W = Three(e, 0, 0) /\ e \in Nat
    <3>1. W = [none EXCEPT !["QQQ"] = e]
      BY <1>1, <1>8 DEF ExposureToWeights
    <3> HIDE DEF none, W
    <3> QED
      BY <1>3, <1>8, <3>1
  <2>2. Good(e, 0, 0)
    <3>1. PICK a \in Int : a = Clamped(e, mode) /\ a = LessOf(e, 3 * u)
      BY <1>1, <1>8, ClampedIs
    <3>2. CloseTo(a, e + 3 * 0 - 3 * 0)
      BY <1>1, <1>8, <2>1, <3>1 DEF LessOf, MoreOf, CloseTo
    <3>3. e + 0 + 0 <= u /\ (0 > 0 => e + 0 = 0)
      BY <1>1, <1>8, <2>1 DEF LessOf
    <3> QED
      BY <3>1, <3>2, <3>3
  <2> QED
    BY <1>1, <2>1, <2>2
<1>9. CASE e > u /\ mode = "qqq_then_tqqq"
  <2>1. PICK m \in Nat : m = e - u
    BY <1>9
  <2>2. PICK d \in Nat : d = m \div 2 /\ 2 * d <= m /\ m < 2 * d + 2
    BY QuotientIs
  <2>3. PICK t \in Nat, q \in Nat : t = LessOf(d, u) /\ q = u - t
    BY DEF LessOf
  <2>4. W = Three(q, t, 0)
    <3>1. W = LET k == LessOf((e - u) \div 2, u) IN [none EXCEPT !["TQQQ"] = k, !["QQQ"] = u - k]
      BY <1>1, <1>9 DEF ExposureToWeights
    <3> HIDE DEF none, W
    <3> QED
      BY <1>4, <2>1, <2>2, <2>3, <3>1
  <2>5. Good(q, t, 0)
    <3>1. PICK a \in Int : a = Clamped(e, mode) /\ a = LessOf(e, 3 * u)
      BY <1>1, <1>9, ClampedIs
    <3>2. CloseTo(a, q + 3 * t - 3 * 0)
      BY <1>1, <1>9, <2>1, <2>2, <2>3, <3>1 DEF LessOf, MoreOf, CloseTo
    <3>3. q + t + 0 <= u /\ (0 > 0 => q + t = 0)
      BY <1>1, <1>9, <2>1, <2>2, <2>3 DEF LessOf
    <3> QED
      BY <3>1, <3>2, <3>3
  <2> QED
    BY <1>1, <2>4, <2>5
<1> QED
  <2>1. mode \in {"qqq_then_tqqq", "tqqq_only", "qqq_only"}
    BY DEF LongModes
  <2> QED
    BY <1>5, <1>6, <1>7, <1>8, <1>9, <2>1

\* What is proposed.
LEMMA ProposalIs ==
    ASSUME NEW e \in Int, NEW l \in Limits
    PROVE  LET p == Propose(e, l.mode, l.deadBand)
               aim == IF AbsOf(e) < l.deadBand THEN 0 ELSE Clamped(e, l.mode)
           IN  /\ p \in Weights /\ Sane(p) /\ aim \in Int
               /\ p["SQQQ"] > 0 => p["QQQ"] + p["TQQQ"] = 0
               /\ CloseTo(aim, Net(p)) /\ Net(p) \in Int
<1> DEFINE p == Propose(e, l.mode, l.deadBand)
           x == IF AbsOf(e) >= l.deadBand THEN e ELSE 0
           aim == IF AbsOf(e) < l.deadBand THEN 0 ELSE Clamped(e, l.mode)
<1>1. PICK d \in Nat, m \in LongModes, u \in Nat \ {0} : d = l.deadBand /\ m = l.mode /\ u = Unit
  BY LimitsAre
<1>2. x \in Int /\ p = ExposureToWeights(x, m)
  BY <1>1 DEF Propose
<1>3. aim \in Int /\ Clamped(x, m) = aim
  <2>1. Clamped(e, m) \in Int
    BY <1>1, ClampedIs
  <2>2. Clamped(0, m) = 0
    <3>1. LessOf(0, u) = 0 /\ LessOf(0, 3 * u) = 0
      BY <1>1 DEF LessOf
    <3> QED
      BY <1>1, <3>1, ClampedIs
  <2>3. CASE AbsOf(e) < d
    <3>1. AbsOf(e) \in Nat
      BY NegativeAbs
    <3>2. x = 0 /\ aim = 0
      BY <1>1, <2>3, <3>1
    <3> HIDE DEF x, aim
    <3> QED
      BY <2>2, <3>2
  <2>4. CASE ~ (AbsOf(e) < d)
    <3>1. AbsOf(e) \in Nat
      BY NegativeAbs
    <3>2. x = e /\ aim = Clamped(e, m)
      BY <1>1, <2>4, <3>1
    <3> HIDE DEF x, aim
    <3> QED
      BY <2>1, <3>2
  <2> QED
    BY <2>3, <2>4
<1> HIDE DEF p, x, aim
<1>4. PICK q \in Nat, t \in Nat, s \in Nat :
         /\ p = Three(q, t, s)
         /\ q + t + s <= u /\ (s > 0 => q + t = 0)
         /\ CloseTo(aim, q + 3 * t - 3 * s)
  BY <1>1, <1>2, <1>3, PolicyIs
<1>5. /\ p \in Weights /\ p["QQQ"] = q /\ p["TQQQ"] = t /\ p["SQQQ"] = s
      /\ Gross(p) = q + t + s /\ Net(p) = q + 3 * t - 3 * s
  <2> DEFINE v == Three(q, t, s)
  <2>1. /\ v \in Weights /\ v["QQQ"] = q /\ v["TQQQ"] = t /\ v["SQQQ"] = s
        /\ Gross(v) = q + t + s /\ Net(v) = q + 3 * t - 3 * s
    BY ThreeWeights
  <2>2. p = v
    BY <1>4
  <2> HIDE DEF v
  <2> QED
    BY <2>1, <2>2
<1>6. Sane(p)
  BY <1>1, <1>4, <1>5 DEF Sane, Weights
<1> QED
  BY <1>3, <1>4, <1>5, <1>6 DEF p, aim

-----------------------------------------------------------------------------
(* The rules, one after the other. *)

\* From what is first proposed or frozen to what is approved.
Approved(l, start, cur, b, vol, g, frozen) ==
    LET banded == CapNet(VolTarget(l, start, vol, frozen), b.max, b.max)
        calm   == IF g \in DOMAIN l.regimes THEN CapNet(banded, l.regimes[g], l.regimes[g]) ELSE banded
        long   == RegimeCap(l, g, LessOf(l.net, b.max))
        short  == RegimeCap(l, g, LessOf(l.inverse, b.max))
    IN  Settle(l, ExposureCaps(l, calm, long, short), cur, long, short)

LEMMA RegimeCapIs ==
    ASSUME NEW l \in Limits, NEW g, NEW x \in Nat, NEW y \in Nat
    PROVE  RegimeCap(l, g, LessOf(x, y)) \in Nat
<1>1. LessOf(x, y) \in Nat
  BY DEF LessOf
<1>2. CASE g \in DOMAIN l.regimes
  <2>1. PICK r \in Nat : r = l.regimes[g]
    BY <1>2, LimitsAre
  <2> QED
    BY <1>1, <1>2, <2>1 DEF RegimeCap, LessOf
<1>3. CASE g \notin DOMAIN l.regimes
  BY <1>1, <1>3 DEF RegimeCap
<1> QED
  BY <1>2, <1>3

LEMMA ApprovedIs ==
    ASSUME NEW l \in Limits, NEW start \in Weights, NEW cur \in Weights, NEW b, b.max \in Nat,
           NEW vol \in Nat, NEW g, NEW frozen \in BOOLEAN
    PROVE  LET w == Approved(l, start, cur, b, vol, g, frozen)
           IN  /\ w \in Weights /\ Within(l, w)
               /\ Net(w) <= RegimeCap(l, g, LessOf(l.net, b.max)) + Reach
               /\ -Net(w) <= RegimeCap(l, g, LessOf(l.inverse, b.max))
               /\ Increases(w, cur) > 0 => Decreases(w, cur) + Increases(w, cur) <= l.turnover
               /\ (frozen \/ l.maxScale <= Unit) /\ Lighter(start, cur) =>
                     /\ Lighter(w, start)
                     /\ Within(l, cur) => AbsOf(Net(w)) <= AbsOf(Net(start)) + Reach
<1> DEFINE aimed  == VolTarget(l, start, vol, frozen)
           banded == CapNet(aimed, b.max, b.max)
           calm   == IF g \in DOMAIN l.regimes THEN CapNet(banded, l.regimes[g], l.regimes[g]) ELSE banded
           long   == RegimeCap(l, g, LessOf(l.net, b.max))
           short  == RegimeCap(l, g, LessOf(l.inverse, b.max))
           first  == ExposureCaps(l, calm, long, short)
           w      == Settle(l, first, cur, long, short)
           gentle == frozen \/ l.maxScale <= Unit
<1>1. long \in Nat /\ short \in Nat
  BY LimitsAre, RegimeCapIs
<1>2. /\ aimed \in Weights
      /\ gentle => Lighter(aimed, start) /\ AbsOf(Net(aimed)) <= AbsOf(Net(start)) + Reach
  BY VolTargetIs
<1>3. w = Approved(l, start, cur, b, vol, g, frozen)
  BY DEF Approved
<1> HIDE DEF aimed
<1>4. /\ banded \in Weights /\ Lighter(banded, aimed)
      /\ \A B \in Int : Reach <= B /\ AbsOf(Net(aimed)) <= B => AbsOf(Net(banded)) <= B
  BY <1>2, CapNetIs
<1> HIDE DEF banded
<1>5. /\ calm \in Weights /\ Lighter(calm, banded)
      /\ \A B \in Int : Reach <= B /\ AbsOf(Net(banded)) <= B => AbsOf(Net(calm)) <= B
  <2>1. CASE g \in DOMAIN l.regimes
    <3>1. PICK r \in Nat : r = l.regimes[g]
      BY <2>1, LimitsAre
    <3>2. calm = CapNet(banded, r, r)
      BY <2>1, <3>1
    <3> HIDE DEF calm
    <3> QED
      BY <1>4, <3>2, CapNetIs
  <2>2. CASE g \notin DOMAIN l.regimes
    <3>1. calm = banded
      BY <2>2
    <3>2. Lighter(banded, banded)
      BY <1>4 DEF Lighter, Weights
    <3> HIDE DEF calm
    <3> QED
      BY <1>4, <3>1, <3>2
  <2> QED
    BY <2>1, <2>2
<1> HIDE DEF calm, long, short
<1>6. /\ first \in Weights /\ Lighter(first, calm) /\ Within(l, first)
      /\ \A B \in Int : Reach <= B /\ AbsOf(Net(calm)) <= B /\ Within(l, calm) => AbsOf(Net(first)) <= B
  BY <1>1, <1>5, ExposureCapsIs
<1> HIDE DEF first
<1>7. /\ w \in Weights /\ Within(l, w) /\ Net(w) <= long + Reach /\ -Net(w) <= short
      /\ Increases(w, cur) > 0 => Decreases(w, cur) + Increases(w, cur) <= l.turnover
  BY <1>1, <1>6, SettleIsVerified
<1>8. ASSUME gentle, Lighter(start, cur)
      PROVE  /\ Lighter(w, start)
             /\ Within(l, cur) => AbsOf(Net(w)) <= AbsOf(Net(start)) + Reach
  <2>1. Lighter(calm, start) /\ Lighter(first, start)
    <3>1. Lighter(banded, start)
      BY <1>2, <1>4, <1>8, LighterStill
    <3>2. Lighter(calm, start)
      BY <1>4, <1>5, <3>1, LighterStill
    <3> QED
      BY <1>5, <1>6, <3>2, LighterStill
  <2>2. /\ Lighter(w, start)
        /\ \A B \in Int : Reach <= B /\ AbsOf(Net(first)) <= B /\ Within(l, first) => AbsOf(Net(w)) <= B
    BY <1>1, <1>6, <1>8, <2>1, SettleReduces
  <2>3. ASSUME Within(l, cur) PROVE AbsOf(Net(w)) <= AbsOf(Net(start)) + Reach
    <3>1. PICK B \in Int : B = AbsOf(Net(start)) + Reach /\ Reach <= B
      <4>1. AbsOf(Net(start)) \in Nat /\ Reach \in Nat
        BY WeightsAreAmounts, NegativeAbs, ReachIs
      <4> QED
        BY <4>1
    <3>2. Within(l, start)
      BY <1>8, <2>3, LighterIsWithin
    <3>3. Within(l, calm)
      BY <1>5, <2>1, <3>2, LighterIsWithin
    <3>4. AbsOf(Net(aimed)) <= B
      BY <1>2, <1>8, <3>1
    <3>5. AbsOf(Net(banded)) <= B
      BY <1>4, <3>1, <3>4
    <3>6. AbsOf(Net(calm)) <= B
      BY <1>5, <3>1, <3>5
    <3>7. AbsOf(Net(first)) <= B
      BY <1>6, <3>1, <3>3, <3>6
    <3> QED
      BY <1>6, <2>2, <3>1, <3>7
  <2> QED
    BY <2>2, <2>3
<1> HIDE DEF w, gentle
<1> QED
  BY <1>3, <1>7, <1>8 DEF long, short, gentle

-----------------------------------------------------------------------------
(* Drawdown bands. *)

RiskInv == lim \in Limits /\ band \in 0..Len(lim.bands) /\ equity \in 1..Par

LEMMA BandsAre ==
    ASSUME NEW l \in Limits
    PROVE  /\ DOMAIN l.bands = 1..Len(l.bands) /\ Len(l.bands) \in Nat \ {0}
           /\ \A i \in DOMAIN l.bands :
                 /\ l.bands[i] \in [threshold : 0..Par, max : Nat, block : BOOLEAN]
                 /\ l.bands[i].threshold \in Int
           /\ l.bands[1].threshold = 0 /\ l.hysteresis \in Int
<1>1. BandsValid(l.bands, l.hysteresis)
  BY LimitsLoad DEF LimitsValid
<1>2. l.bands \in Seq([threshold : 0..Par, max : Nat, block : BOOLEAN]) /\ l.bands # << >>
  BY <1>1 DEF BandsValid
<1> DEFINE S == [threshold : 0..Par, max : Nat, block : BOOLEAN]
           b == l.bands
<1>3. b \in Seq(S) /\ b # << >>
  BY <1>2
<1>4. \A x \in S : x.threshold \in 0..Par
  OBVIOUS
<1>5. Par \in Nat
  BY LimitsLoad
<1>6. /\ DOMAIN b = 1..Len(b) /\ Len(b) \in Nat \ {0}
      /\ \A i \in DOMAIN b : b[i] \in S /\ b[i].threshold \in 0..Par
  <2> HIDE DEF S, b
  <2> QED
    BY <1>3, <1>4, LenProperties, EmptySeq, ElementOfSeq
<1> QED
  BY <1>1, <1>5, <1>6 DEF BandsValid

\* The band for a drawdown: the deepest that is reached, or the one before while
\* the drawdown is within the hysteresis of it.
LEMMA BandForIs ==
    ASSUME NEW l \in Limits, NEW d \in Nat, NEW last \in 0..Len(l.bands)
    PROVE  /\ BandFor(l, d, last) \in DOMAIN l.bands
           /\ \A j \in DOMAIN l.bands : j > BandFor(l, d, last) => d < l.bands[j].threshold
           /\ BandFor(l, d, last) < last => d < l.bands[last].threshold - l.hysteresis
<1> DEFINE reached == {i \in 1..Len(l.bands) : d >= l.bands[i].threshold}
           deepest(i) == /\ d >= l.bands[i].threshold
                         /\ \A j \in DOMAIN l.bands : d >= l.bands[j].threshold => j <= i
           k == CHOOSE i \in DOMAIN l.bands : deepest(i)
<1>1. /\ DOMAIN l.bands = 1..Len(l.bands) /\ Len(l.bands) \in Nat \ {0}
      /\ \A i \in DOMAIN l.bands : l.bands[i].threshold \in Int
      /\ l.bands[1].threshold = 0 /\ l.hysteresis \in Int
  BY BandsAre
<1>2. 1 \in reached
  BY <1>1
<1>3. \E i \in reached : \A j \in reached : j <= i
  <2> HIDE DEF reached
  <2>1. reached \in SUBSET (1..Len(l.bands)) /\ Len(l.bands) \in Nat
    BY <1>1 DEF reached
  <2> QED
    BY <1>2, <2>1, LargestUpTo
<1>4. \E i \in DOMAIN l.bands : deepest(i)
  BY <1>1, <1>3
<1>5. k \in DOMAIN l.bands /\ deepest(k)
  <2> HIDE DEF deepest
  <2> QED
    BY <1>4
<1>6. BandFor(l, d, last) =
        IF last > k /\ d >= l.bands[last].threshold - l.hysteresis THEN last ELSE k
  BY DEF BandFor
<1> HIDE DEF k
<1>7. /\ k \in 1..Len(l.bands)
      /\ \A j \in DOMAIN l.bands : j > k => d < l.bands[j].threshold
  <2>1. \A j \in DOMAIN l.bands : d >= l.bands[j].threshold => j <= k
    BY <1>5
  <2>2. k \in 1..Len(l.bands) /\ \A j \in DOMAIN l.bands : j > k => ~ (j <= k)
    BY <1>1, <1>5
  <2>3. \A j \in DOMAIN l.bands : l.bands[j].threshold \in Int /\ d \in Int
    BY <1>1
  <2>4. \A x, y \in Int : ~ (x >= y) => x < y
    OBVIOUS
  <2> QED
    BY <2>1, <2>2, <2>3, <2>4, Zenon
<1>8. CASE last > k /\ d >= l.bands[last].threshold - l.hysteresis
  <2>1. BandFor(l, d, last) = last
    BY <1>6, <1>8, Zenon
  <2>2. last \in 1..Len(l.bands) /\ \A j \in DOMAIN l.bands : j > last => j > k
    BY <1>1, <1>7, <1>8
  <2>3. ~ (last < last)
    BY <1>1
  <2> QED
    BY <1>1, <1>7, <2>1, <2>2, <2>3, Zenon
<1>9. CASE ~ (last > k /\ d >= l.bands[last].threshold - l.hysteresis)
  <2>1. BandFor(l, d, last) = k
    BY <1>6, <1>9
  <2>2. k < last => d < l.bands[last].threshold - l.hysteresis
    <3> SUFFICES ASSUME k < last PROVE d < l.bands[last].threshold - l.hysteresis
      OBVIOUS
    <3>1. last \in DOMAIN l.bands /\ last > k
      BY <1>1, <1>7
    <3> QED
      BY <1>1, <1>9, <3>1
  <2> QED
    BY <1>1, <1>7, <2>1, <2>2
<1> QED
  BY <1>8, <1>9

LEMMA EvaluateMoves ==
    ASSUME RiskInv, NEW x, NEW killed, NEW v, NEW g, Evaluate(x, killed, v, g)
    PROVE  /\ UNCHANGED << lim, equity, previous >>
           /\ \/ band' = BandFor(lim, Drawdown, band)
              \/ band' = band /\ ~ verdict'.ok
<1> DEFINE k == BandFor(lim, Drawdown, band)
<1>1. \E ok \in BOOLEAN : verdict'.ok = ok /\ band' = IF ok THEN k ELSE band
  BY DEF Evaluate, Verified, Sane
<1> QED
  BY <1>1 DEF Evaluate
LEMMA RiskStep == RiskInv /\ [RiskNext]_riskVars => RiskInv'
<1> SUFFICES ASSUME RiskInv, [RiskNext]_riskVars PROVE RiskInv'
  OBVIOUS
<1>1. ASSUME NEW x \in Exposures, NEW killed \in BOOLEAN, NEW v \in Vols, NEW g \in Regimes,
             Evaluate(x, killed, v, g)
      PROVE  RiskInv'
  <2>1. /\ UNCHANGED << lim, equity >>
        /\ band' = BandFor(lim, Drawdown, band) \/ band' = band
    BY <1>1, EvaluateMoves
  <2>2. Drawdown \in Nat
    BY LimitsLoad DEF RiskInv, Drawdown
  <2>3. BandFor(lim, Drawdown, band) \in 1..Len(lim.bands)
    BY <2>2, BandForIs, BandsAre DEF RiskInv
  <2> QED
    BY <2>1, <2>3 DEF RiskInv
<1>2. ASSUME NEW e \in 1..Par, NextClose(e)
      PROVE  RiskInv'
  BY <1>2 DEF NextClose, RiskInv
<1>3. CASE UNCHANGED riskVars
  BY <1>3 DEF riskVars, RiskInv
<1> QED
  BY <1>1, <1>2, <1>3 DEF RiskNext

LEMMA RiskInvariant == RiskSpec => []RiskInv
<1>1. RiskInit => RiskInv
  <2> SUFFICES ASSUME RiskInit PROVE RiskInv
    OBVIOUS
  <2>1. Len(lim.bands) \in Nat
    BY BandsAre DEF RiskInit
  <2> QED
    BY <2>1, LimitsLoad DEF RiskInit, RiskInv
<1> QED
  BY <1>1, RiskStep, PTL DEF RiskSpec

(* A drawdown band is left only by a recovery beyond its hysteresis, and     *)
(* weights are approved only under a band as deep as the drawdown they face, *)
(* for any limits that load, any book, and whatever the rules make of the    *)
(* weights (engine.py, RiskEngine.evaluate and _drawdown_band).              *)
THEOREM BandsStand == RiskSpec => BandsHold
<1> DEFINE Ease == /\ (band' < band => Drawdown < lim.bands[band].threshold - lim.hysteresis)
                   /\ (verdict'.ok /\ ~verdict.asked =>
                          \A j \in DOMAIN lim.bands : j > band' => Drawdown < lim.bands[j].threshold)
<1>1. RiskInv /\ [RiskNext]_riskVars => [Ease]_riskVars
  <2> SUFFICES ASSUME RiskInv, RiskNext PROVE Ease
    OBVIOUS
  <2>0. band \in Int
    BY BandsAre DEF RiskInv
  <2>1. ASSUME NEW x \in Exposures, NEW killed \in BOOLEAN, NEW v \in Vols, NEW g \in Regimes,
               Evaluate(x, killed, v, g)
        PROVE  Ease
    <3> DEFINE k == BandFor(lim, Drawdown, band)
    <3>1. band' = k \/ (band' = band /\ ~ verdict'.ok)
      BY <2>1, EvaluateMoves
    <3>2. Drawdown \in Nat
      BY LimitsLoad DEF RiskInv, Drawdown
    <3>3. /\ \A j \in DOMAIN lim.bands : j > k => Drawdown < lim.bands[j].threshold
          /\ k < band => Drawdown < lim.bands[band].threshold - lim.hysteresis
      BY <3>2, BandForIs DEF RiskInv
    <3> HIDE DEF k
    <3> QED
      BY <2>0, <3>1, <3>3
  <2>2. ASSUME NEW e \in 1..Par, NextClose(e)
        PROVE  Ease
    BY <2>0, <2>2 DEF NextClose
  <2> QED
    BY <2>1, <2>2 DEF RiskNext
<1> QED
  BY <1>1, RiskInvariant, PTL DEF RiskSpec, BandsHold

\* What was approved passes the verification, when it grants the rounding.
LEMMA ApprovedIsVerified ==
    ASSUME Reach <= Eps, NEW l \in Limits, NEW start \in Weights, NEW cur \in Weights, NEW b, b.max \in Nat,
           NEW vol \in Nat, NEW g, NEW frozen \in BOOLEAN, frozen => Lighter(start, cur)
    PROVE  Verified(l, Approved(l, start, cur, b, vol, g, frozen), cur, b, g, frozen)
<1> DEFINE w == Approved(l, start, cur, b, vol, g, frozen)
<1>1. PICK long \in Nat, short \in Nat :
         /\ long = RegimeCap(l, g, LessOf(l.net, b.max))
         /\ short = RegimeCap(l, g, LessOf(l.inverse, b.max))
  BY LimitsAre, RegimeCapIs
<1>2. /\ w \in Weights /\ Within(l, w) /\ Net(w) <= long + Reach /\ -Net(w) <= short
      /\ Increases(w, cur) > 0 => Decreases(w, cur) + Increases(w, cur) <= l.turnover
      /\ frozen => Lighter(w, start)
  BY <1>1, ApprovedIs
<1> HIDE DEF w
<1>3. PICK reach \in Nat, eps \in Nat : reach = Reach /\ eps = Eps /\ reach <= eps
  BY ReachIs, BooksAreHeld
<1>4. /\ Net(w) \in Int /\ Gross(w) \in Nat /\ LeveragedWeight(w) \in Nat
      /\ Decreases(w, cur) \in Nat /\ Increases(w, cur) \in Nat
  BY <1>2, WeightsAreAmounts, ChangesAre
<1>5. Net(w) <= long + eps /\ -Net(w) <= short + eps
  BY <1>2, <1>3, <1>4
<1>6. Gross(w) <= LessOf(l.gross, Unit - l.cash) + eps /\ LeveragedWeight(w) <= l.leveraged + eps
  <2>1. PICK x \in Nat, y \in Nat : x = LessOf(l.gross, Unit - l.cash) /\ y = l.leveraged
    BY LimitsAre
  <2>2. Gross(w) <= x /\ LeveragedWeight(w) <= y
    BY <1>2, <2>1 DEF Within
  <2> QED
    BY <1>3, <1>4, <2>1, <2>2
<1>7. \A s \in Symbols3 : w[s] >= 0 /\ w[s] <= l.cap[s] + eps
  <2> TAKE s \in Symbols3
  <2>1. PICK x \in Nat, y \in Nat : x = w[s] /\ y = l.cap[s]
    BY <1>2, LimitsAre DEF Weights
  <2>2. x <= y
    BY <1>2, <2>1 DEF Within, Lighter
  <2> QED
    BY <1>3, <2>1, <2>2
<1>8. frozen => \A s \in Symbols3 : w[s] <= cur[s] + eps
  <2> SUFFICES ASSUME frozen, NEW s \in Symbols3 PROVE w[s] <= cur[s] + eps
    OBVIOUS
  <2>1. PICK x \in Nat, y \in Nat, z \in Nat : x = w[s] /\ y = start[s] /\ z = cur[s]
    BY <1>2 DEF Weights
  <2>2. x <= y /\ y <= z
    BY <1>2, <2>1 DEF Lighter
  <2> QED
    BY <1>3, <2>1, <2>2
<1>9. Increases(w, cur) > eps => Decreases(w, cur) + Increases(w, cur) <= l.turnover + eps
  <2>1. PICK x \in Nat : x = l.turnover
    BY LimitsAre
  <2> QED
    BY <1>2, <1>3, <1>4, <2>1
<1>10. Eps = eps
  BY <1>3
<1> QED
  BY <1>1, <1>5, <1>6, <1>7, <1>8, <1>9, <1>10 DEF Verified, w

-----------------------------------------------------------------------------
(* The sessions. *)

RiskTypeOK ==
    /\ lim \in Limits /\ book \in Weights
    /\ equity \in 1..Par /\ band \in 0..Len(lim.bands)

RulesInv == RiskTypeOK /\ RulesWorkTogether

\* A session's decision, in the words above.
LEMMA EvaluateIs ==
    ASSUME RiskTypeOK, NEW e \in Exposures, NEW killed \in BOOLEAN, NEW vol \in Vols, NEW g \in Regimes,
           Evaluate(e, killed, vol, g)
    PROVE  \E b \in [threshold : 0..Par, max : Nat, block : BOOLEAN], frozen \in BOOLEAN, ok \in BOOLEAN :
             LET proposal == Propose(e, lim.mode, lim.deadBand)
                 start    == IF frozen THEN Freeze(proposal, book) ELSE proposal
                 w        == Approved(lim, start, book, b, vol, g, frozen)
             IN  /\ ok <=> Sane(proposal) /\ Verified(lim, w, book, b, g, frozen)
                 /\ verdict' = [ok |-> ok, asked |-> TRUE, exposure |-> e, proposal |-> proposal,
                                held |-> book, frozen |-> frozen]
                 /\ book' = IF ok THEN w ELSE book
                 /\ band' = IF ok THEN BandFor(lim, Drawdown, band) ELSE band
<1> DEFINE k == BandFor(lim, Drawdown, band)
           b == lim.bands[k]
           frozen == killed \/ b.block \/ Par * (previous - equity) >= lim.dailyLoss * previous
           proposal == Propose(e, lim.mode, lim.deadBand)
           start == IF frozen THEN Freeze(proposal, book) ELSE proposal
           w == Approved(lim, start, book, b, vol, g, frozen)
           ok == Sane(proposal) /\ Verified(lim, w, book, b, g, frozen)
<1>1. /\ verdict' = [ok |-> ok, asked |-> TRUE, exposure |-> e, proposal |-> proposal,
                     held |-> book, frozen |-> frozen]
      /\ book' = IF ok THEN w ELSE book
      /\ band' = IF ok THEN k ELSE band
  BY DEF Evaluate, Approved
<1>2. b \in [threshold : 0..Par, max : Nat, block : BOOLEAN]
  <2>1. Drawdown \in Nat
    BY LimitsLoad DEF RiskTypeOK, Drawdown
  <2>2. k \in DOMAIN lim.bands
    BY <2>1, BandForIs DEF RiskTypeOK
  <2> QED
    BY <2>2, BandsAre DEF RiskTypeOK
<1>3. frozen \in BOOLEAN /\ ok \in BOOLEAN
  BY DEF Sane, Verified
<1> QED
  BY <1>1, <1>2, <1>3

LEMMA NextTypes == RiskTypeOK /\ [RiskNext]_riskVars => RiskTypeOK'
<1> SUFFICES ASSUME RiskTypeOK, [RiskNext]_riskVars PROVE RiskTypeOK'
  OBVIOUS
<1>1. ASSUME NEW e \in Exposures, NEW killed \in BOOLEAN, NEW vol \in Vols, NEW g \in Regimes,
             Evaluate(e, killed, vol, g)
      PROVE  RiskTypeOK'
  <2>1. PICK b \in [threshold : 0..Par, max : Nat, block : BOOLEAN], frozen \in BOOLEAN, ok \in BOOLEAN, w \in Weights :
           /\ book' = IF ok THEN w ELSE book
           /\ band' = IF ok THEN BandFor(lim, Drawdown, band) ELSE band
    <3>1. PICK b \in [threshold : 0..Par, max : Nat, block : BOOLEAN], frozen \in BOOLEAN, ok \in BOOLEAN :
             LET proposal == Propose(e, lim.mode, lim.deadBand)
                 start    == IF frozen THEN Freeze(proposal, book) ELSE proposal
                 w        == Approved(lim, start, book, b, vol, g, frozen)
             IN  /\ book' = IF ok THEN w ELSE book
                 /\ band' = IF ok THEN BandFor(lim, Drawdown, band) ELSE band
      BY <1>1, EvaluateIs
    <3> DEFINE proposal == Propose(e, lim.mode, lim.deadBand)
               start    == IF frozen THEN Freeze(proposal, book) ELSE proposal
               w        == Approved(lim, start, book, b, vol, g, frozen)
    <3>2. proposal \in Weights
      BY ProposalIs, BooksAreHeld DEF RiskTypeOK
    <3> HIDE DEF proposal
    <3>3. start \in Weights
      BY <3>2, FreezeIs DEF RiskTypeOK
    <3>4. b.max \in Nat /\ vol \in Nat
      BY BooksAreHeld
    <3> HIDE DEF start
    <3>5. w \in Weights
      BY <3>3, <3>4, ApprovedIs DEF RiskTypeOK
    <3> QED
      BY <3>1, <3>5 DEF proposal, start
  <2>2. BandFor(lim, Drawdown, band) \in 0..Len(lim.bands)
    <3>1. Drawdown \in Nat
      BY LimitsLoad DEF RiskTypeOK, Drawdown
    <3>2. DOMAIN lim.bands = 1..Len(lim.bands) /\ Len(lim.bands) \in Nat
      BY BandsAre DEF RiskTypeOK
    <3>3. BandFor(lim, Drawdown, band) \in DOMAIN lim.bands
      BY <3>1, BandForIs DEF RiskTypeOK
    <3> QED
      BY <3>2, <3>3
  <2>3. lim' = lim /\ equity' = equity
    BY <1>1 DEF Evaluate
  <2> QED
    BY <2>1, <2>2, <2>3 DEF RiskTypeOK
<1>2. ASSUME NEW e \in 1..Par, NextClose(e)
      PROVE  RiskTypeOK'
  BY <1>2 DEF NextClose, RiskTypeOK
<1>3. CASE UNCHANGED riskVars
  BY <1>3 DEF riskVars, RiskTypeOK
<1> QED
  BY <1>1, <1>2, <1>3 DEF RiskNext

\* What a decision must be, of the weights l allows, w that came of it and v
\* that says what was asked.
Decided(l, w, v) ==
    /\ v.asked /\ Sane(v.proposal) => v.ok
    /\ v.ok /\ v.frozen =>
          /\ \A s \in Symbols3 : w[s] <= v.held[s]
          /\ AbsOf(Net(w)) <= AbsOf(Net(v.held)) + Eps
                \/ v.held # GrossCap(l, LeveragedCap(l, PositionCaps(l, v.held)))
    /\ v.ok /\ l.maxScale <= Unit /\ Lighter(v.proposal, v.held)
          /\ AbsOf(Net(v.proposal)) <= AbsOf(Net(v.held))
       => Lighter(w, v.proposal)
    /\ v.asked =>
          LET p   == v.proposal
              top == IF l.mode = "qqq_only" THEN Unit ELSE 3 * Unit
              aim == IF AbsOf(v.exposure) < l.deadBand THEN 0 ELSE MoreOf(-3 * Unit, LessOf(v.exposure, top))
          IN  /\ Sane(p) /\ (p["SQQQ"] > 0 => p["QQQ"] + p["TQQQ"] = 0)
              /\ aim * Net(p) >= 0
              /\ AbsOf(Net(p)) <= AbsOf(aim) /\ AbsOf(aim) < AbsOf(Net(p)) + 3

LEMMA DecidedIs == RulesWorkTogether <=> Decided(lim, book, verdict)
BY DEF RulesWorkTogether, RulesSuffice, FrozenHoldsRisk, ReductionsPass, PolicyRealises, Decided, Lighter

\* What is close is so in the words of the property.
LEMMA CloseIs ==
    ASSUME NEW aim \in Int, NEW net \in Int, CloseTo(aim, net)
    PROVE  aim * net >= 0 /\ AbsOf(net) <= AbsOf(aim) /\ AbsOf(aim) < AbsOf(net) + 3
<1>1. CASE aim >= 0 /\ net >= 0
  <2>1. aim * net >= 0
    BY <1>1
  <2> QED
    BY <1>1, <2>1 DEF CloseTo, AbsOf
<1>2. CASE aim <= 0 /\ net <= 0
  <2>1. PICK a \in Nat, n \in Nat : a = -aim /\ n = -net
    BY <1>2
  <2>2. aim * net = a * n
    BY <2>1
  <2>3. aim * net >= 0
    BY <2>2
  <2> QED
    BY <1>2, <2>3 DEF CloseTo, AbsOf
<1> QED
  BY <1>1, <1>2 DEF CloseTo

\* A session decides what it must.
LEMMA EvaluateDecides ==
    ASSUME Reach <= Eps, RiskTypeOK, NEW e \in Exposures, NEW killed \in BOOLEAN, NEW vol \in Vols,
           NEW g \in Regimes, Evaluate(e, killed, vol, g)
    PROVE  Decided(lim, book', verdict')
<1>1. PICK b \in [threshold : 0..Par, max : Nat, block : BOOLEAN], frozen \in BOOLEAN, ok \in BOOLEAN :
         LET proposal == Propose(e, lim.mode, lim.deadBand)
             start    == IF frozen THEN Freeze(proposal, book) ELSE proposal
             w        == Approved(lim, start, book, b, vol, g, frozen)
         IN  /\ ok <=> Sane(proposal) /\ Verified(lim, w, book, b, g, frozen)
             /\ verdict' = [ok |-> ok, asked |-> TRUE, exposure |-> e, proposal |-> proposal,
                            held |-> book, frozen |-> frozen]
             /\ book' = IF ok THEN w ELSE book
  BY EvaluateIs
<1> DEFINE proposal == Propose(e, lim.mode, lim.deadBand)
           start    == IF frozen THEN Freeze(proposal, book) ELSE proposal
           w        == Approved(lim, start, book, b, vol, g, frozen)
<1>2. lim \in Limits /\ book \in Weights /\ e \in Int /\ vol \in Nat /\ b.max \in Nat
  BY BooksAreHeld DEF RiskTypeOK
<1>3. PICK aim \in Int :
         /\ aim = IF AbsOf(e) < lim.deadBand THEN 0 ELSE Clamped(e, lim.mode)
         /\ proposal \in Weights /\ Sane(proposal) /\ CloseTo(aim, Net(proposal)) /\ Net(proposal) \in Int
         /\ proposal["SQQQ"] > 0 => proposal["QQQ"] + proposal["TQQQ"] = 0
  BY <1>2, ProposalIs
<1>4. /\ ok <=> Sane(proposal) /\ Verified(lim, w, book, b, g, frozen)
      /\ verdict' = [ok |-> ok, asked |-> TRUE, exposure |-> e, proposal |-> proposal,
                     held |-> book, frozen |-> frozen]
      /\ book' = IF ok THEN w ELSE book
  BY <1>1
<1> HIDE DEF proposal
<1>5. /\ start \in Weights /\ frozen => Lighter(start, book) /\ AbsOf(Net(start)) <= AbsOf(Net(book))
      /\ Lighter(proposal, book) /\ AbsOf(Net(proposal)) <= AbsOf(Net(book)) => start = proposal
  <2>1. CASE frozen
    BY <1>2, <1>3, <2>1, FreezeIs
  <2>2. CASE ~ frozen
    BY <1>3, <2>2
  <2> QED
    BY <2>1, <2>2
<1>6. start \in Weights
  BY <1>2, <1>3, FreezeIs
<1> HIDE DEF start
<1>7. Verified(lim, w, book, b, g, frozen)
  BY <1>2, <1>5, <1>6, ApprovedIsVerified
<1>8. ok
  BY <1>3, <1>4, <1>7
<1>9. /\ w \in Weights
      /\ (frozen \/ lim.maxScale <= Unit) /\ Lighter(start, book) =>
            /\ Lighter(w, start)
            /\ Within(lim, book) => AbsOf(Net(w)) <= AbsOf(Net(start)) + Reach
  BY <1>2, <1>6, ApprovedIs
<1> HIDE DEF w
<1>10. ASSUME frozen
       PROVE  /\ \A s \in Symbols3 : w[s] <= book[s]
              /\ \/ AbsOf(Net(w)) <= AbsOf(Net(book)) + Eps
                 \/ book # GrossCap(lim, LeveragedCap(lim, PositionCaps(lim, book)))
  <2>1. Lighter(start, book) /\ Lighter(w, start) /\ AbsOf(Net(start)) <= AbsOf(Net(book))
    BY <1>5, <1>6, <1>9, <1>10
  <2>2. Lighter(w, book)
    BY <1>2, <1>6, <1>9, <2>1, LighterStill
  <2>3. ASSUME book = GrossCap(lim, LeveragedCap(lim, PositionCaps(lim, book)))
        PROVE  AbsOf(Net(w)) <= AbsOf(Net(book)) + Eps
    <3>1. Within(lim, book)
      BY <1>2, <2>3, WeightCapsAre
    <3>2. AbsOf(Net(w)) <= AbsOf(Net(start)) + Reach
      BY <1>9, <1>10, <2>1, <3>1
    <3>3. AbsOf(Net(w)) \in Nat /\ AbsOf(Net(start)) \in Nat /\ AbsOf(Net(book)) \in Nat
      BY <1>2, <1>6, <1>9, WeightsAreAmounts, NegativeAbs
    <3>4. Reach \in Nat /\ Eps \in Nat
      BY ReachIs, BooksAreHeld
    <3> QED
      BY <2>1, <3>2, <3>3, <3>4
  <2> QED
    BY <2>2, <2>3 DEF Lighter
<1>11. ASSUME lim.maxScale <= Unit, Lighter(proposal, book), AbsOf(Net(proposal)) <= AbsOf(Net(book))
       PROVE  Lighter(w, proposal)
  BY <1>5, <1>9, <1>11
<1>12. /\ aim * Net(proposal) >= 0 /\ AbsOf(Net(proposal)) <= AbsOf(aim)
       /\ AbsOf(aim) < AbsOf(Net(proposal)) + 3
  BY <1>3, CloseIs
<1>13. book' = w
  BY <1>4, <1>8
<1>14. aim = IF AbsOf(e) < lim.deadBand THEN 0
             ELSE MoreOf(-3 * Unit, LessOf(e, IF lim.mode = "qqq_only" THEN Unit ELSE 3 * Unit))
  BY <1>3 DEF Clamped
<1>15. PICK v : v = verdict' /\ v.ok = ok /\ v.asked = TRUE /\ v.exposure = e /\ v.proposal = proposal
                 /\ v.held = book /\ v.frozen = frozen
  BY <1>4
<1> HIDE DEF w
<1>16. Decided(lim, w, v)
  BY <1>3, <1>8, <1>10, <1>11, <1>12, <1>14, <1>15 DEF Decided
<1> QED
  BY <1>13, <1>15, <1>16

LEMMA NothingDecided ==
    ASSUME NEW l, NEW w
    PROVE  Decided(l, w, NoVerdict)
BY DEF Decided, NoVerdict

(* A sane proposal is approved, whatever is held: it comes out of the rules    *)
(* within every limit.  Frozen, no position grows and net exposure does not.   *)
(* A proposal that only sells is carried out.  The policy realises what the    *)
(* ensemble asked for.  All that for any instruments and any limits that load, *)
(* as long as the closing verification grants the rounding of one cut, a       *)
(* weight of each instrument (engine.py, RiskEngine.evaluate and _verify;      *)
(* policy.py, exposure_to_weights).                                            *)
THEOREM RulesHold ==
    ASSUME Reach <= Eps
    PROVE  RiskSpec => []RulesWorkTogether
<1>1. RiskInit => RulesInv
  <2> SUFFICES ASSUME RiskInit PROVE RulesInv
    OBVIOUS
  <2>1. RiskTypeOK
    <3>1. Len(lim.bands) \in Nat
      BY BandsAre DEF RiskInit
    <3> QED
      BY <3>1, LimitsLoad, BooksAreHeld DEF RiskInit, RiskTypeOK
  <2>2. Decided(lim, book, verdict)
    BY NothingDecided DEF RiskInit
  <2> QED
    BY <2>1, <2>2, DecidedIs DEF RulesInv
<1>2. RulesInv /\ [RiskNext]_riskVars => RulesInv'
  <2> SUFFICES ASSUME RulesInv, [RiskNext]_riskVars PROVE RulesInv'
    OBVIOUS
  <2>1. RiskTypeOK'
    BY NextTypes DEF RulesInv
  <2>2. Decided(lim', book', verdict')
    <3>1. ASSUME NEW e \in Exposures, NEW killed \in BOOLEAN, NEW vol \in Vols, NEW g \in Regimes,
                 Evaluate(e, killed, vol, g)
          PROVE  Decided(lim', book', verdict')
      <4>1. lim' = lim
        BY <3>1 DEF Evaluate
      <4>2. Decided(lim, book', verdict')
        BY <3>1, EvaluateDecides DEF RulesInv
      <4> QED
        BY <4>1, <4>2
    <3>2. ASSUME NEW e \in 1..Par, NextClose(e)
          PROVE  Decided(lim', book', verdict')
      BY <3>2, NothingDecided DEF NextClose
    <3>3. CASE UNCHANGED riskVars
      BY <3>3, DecidedIs DEF riskVars, RulesInv
    <3> QED
      BY <3>1, <3>2, <3>3 DEF RiskNext
  <2>3. RulesWorkTogether' <=> Decided(lim', book', verdict')
    BY DEF RulesWorkTogether, RulesSuffice, FrozenHoldsRisk, ReductionsPass, PolicyRealises, Decided,
           Lighter
  <2> QED
    BY <2>1, <2>2, <2>3 DEF RulesInv
<1> QED
  BY <1>1, <1>2, PTL DEF RiskSpec, RulesInv

-----------------------------------------------------------------------------
(* The ensemble: sums over members. *)

Figures == [Ids -> Int]
Of(f, S, m) == IF m \in S THEN f[m] ELSE 0
Along(f, S, g) == /\ g \in [0 .. Count -> Int] /\ g[0] = 0
                  /\ \A n \in Ids : g[n] = g[n - 1] + Of(f, S, n)

Listed(f, S) == [m \in Ids |-> Of(f, S, m)]

LEMMA MembersList ==
    ASSUME NEW f \in Figures, NEW S
    PROVE  /\ Listed(f, S) \in Seq(Int) /\ Len(Listed(f, S)) = Count
           /\ SumOver(f, S) = Summed(Listed(f, S))
           /\ \A m \in Ids : Listed(f, S)[m] = Of(f, S, m) /\ Of(f, S, m) \in Int
<1>1. Count \in Nat /\ Ids = 1 .. Count
  BY WeightsAreFine DEF Ids
<1>2. \A m \in Ids : Listed(f, S)[m] = Of(f, S, m) /\ Of(f, S, m) \in Int
  BY DEF Of, Figures, Listed
<1>3. Listed(f, S) \in [1 .. Count -> Int]
  BY <1>1, <1>2 DEF Listed
<1>4. Listed(f, S) \in Seq(Int) /\ Len(Listed(f, S)) = Count
  BY <1>1, <1>3
<1> QED
  BY <1>2, <1>4 DEF SumOver, Listed, Of

LEMMA MembersSum ==
    ASSUME NEW f \in Figures, NEW S
    PROVE  /\ SumOver(f, S) \in Int
           /\ \E g : Along(f, S, g) /\ SumOver(f, S) = g[Count]
           /\ \A g : Along(f, S, g) => SumOver(f, S) = g[Count]
<1> DEFINE q == Listed(f, S)
<1>1. /\ q \in Seq(Int) /\ Len(q) = Count /\ SumOver(f, S) = Summed(q)
      /\ \A n \in Ids : q[n] = Of(f, S, n)
  BY MembersList
<1> HIDE DEF q
<1>2. ASSUME NEW g PROVE Along(f, S, g) <=> Partial(q, g)
  BY <1>1 DEF Along, Partial, Ids
<1>3. PICK g : Partial(q, g) /\ Summed(q) = g[Len(q)]
  BY <1>1, SumIs
<1>4. Summed(q) \in Int
  BY <1>1, <1>3, SumFrom
<1>5. ASSUME NEW h, Along(f, S, h) PROVE SumOver(f, S) = h[Count]
  <2>1. Partial(q, h)
    BY <1>2, <1>5
  <2> QED
    BY <1>1, <2>1, SumFrom
<1> QED
  BY <1>1, <1>2, <1>3, <1>4, <1>5

LEMMA MembersAdd ==
    ASSUME NEW f \in Figures, NEW g \in Figures, NEW h \in Figures, NEW S, NEW T, NEW U,
           \A m \in Ids : Of(h, U, m) = Of(f, S, m) + Of(g, T, m)
    PROVE  SumOver(h, U) = SumOver(f, S) + SumOver(g, T)
<1>1. Count \in Nat /\ Ids = 1 .. Count
  BY WeightsAreFine DEF Ids
<1>2. PICK a : Along(f, S, a) /\ SumOver(f, S) = a[Count]
  BY MembersSum
<1>3. PICK b : Along(g, T, b) /\ SumOver(g, T) = b[Count]
  BY MembersSum
<1> DEFINE c == [n \in 0 .. Count |-> a[n] + b[n]]
<1>4. /\ \A n \in 0 .. Count : a[n] \in Int /\ b[n] \in Int
      /\ a[0] = 0 /\ b[0] = 0
      /\ \A n \in Ids : a[n] = a[n - 1] + Of(f, S, n) /\ b[n] = b[n - 1] + Of(g, T, n)
  BY <1>2, <1>3 DEF Along
<1>5. c \in [0 .. Count -> Int] /\ c[0] = 0 /\ c[Count] = a[Count] + b[Count]
  <2>1. \A n \in 0 .. Count : a[n] + b[n] \in Int
    BY <1>4
  <2>2. 0 \in 0 .. Count /\ Count \in 0 .. Count /\ a[0] + b[0] = 0
    BY <1>1, <1>4
  <2> QED
    BY <2>1, <2>2
<1>6. ASSUME NEW n \in Ids PROVE c[n] = c[n - 1] + Of(h, U, n)
  <2>1. n \in 0 .. Count /\ n - 1 \in 0 .. Count
    BY <1>1
  <2>2. c[n] = a[n] + b[n] /\ c[n - 1] = a[n - 1] + b[n - 1]
    BY <2>1
  <2>3. /\ a[n] = a[n - 1] + Of(f, S, n) /\ b[n] = b[n - 1] + Of(g, T, n)
        /\ a[n - 1] \in Int /\ b[n - 1] \in Int
    BY <1>4, <2>1
  <2>4. Of(f, S, n) \in Int /\ Of(g, T, n) \in Int /\ Of(h, U, n) = Of(f, S, n) + Of(g, T, n)
    BY MembersList
  <2> HIDE DEF c
  <2> QED
    BY <2>2, <2>3, <2>4
<1>7. Along(h, U, c)
  BY <1>5, <1>6 DEF Along
<1> QED
  BY <1>2, <1>3, <1>5, <1>7, MembersSum

LEMMA MembersScale ==
    ASSUME NEW f \in Figures, NEW h \in Figures, NEW S, NEW U, NEW k \in Int,
           \A m \in Ids : Of(h, U, m) = k * Of(f, S, m)
    PROVE  SumOver(h, U) = k * SumOver(f, S)
<1>1. Count \in Nat /\ Ids = 1 .. Count
  BY WeightsAreFine DEF Ids
<1>2. PICK a : Along(f, S, a) /\ SumOver(f, S) = a[Count]
  BY MembersSum
<1> DEFINE c == [n \in 0 .. Count |-> k * a[n]]
<1>4. /\ \A n \in 0 .. Count : a[n] \in Int
      /\ a[0] = 0
      /\ \A n \in Ids : a[n] = a[n - 1] + Of(f, S, n)
  BY <1>2 DEF Along
<1>5. c \in [0 .. Count -> Int] /\ c[0] = 0 /\ c[Count] = k * a[Count]
  <2>1. \A n \in 0 .. Count : k * a[n] \in Int
    BY <1>4
  <2> QED
    BY <1>1, <1>4, <2>1
<1>6. ASSUME NEW n \in Ids PROVE c[n] = c[n - 1] + Of(h, U, n)
  <2>1. n \in 0 .. Count /\ n - 1 \in 0 .. Count
    BY <1>1
  <2>2. c[n] = k * a[n] /\ c[n - 1] = k * a[n - 1]
    BY <2>1
  <2>3. a[n] = a[n - 1] + Of(f, S, n) /\ a[n - 1] \in Int
    BY <1>4, <2>1
  <2>4. Of(h, U, n) = k * Of(f, S, n) /\ Of(f, S, n) \in Int
    BY MembersList
  <2>5. \A x, y \in Int : k * (x + y) = k * x + k * y
    OBVIOUS
  <2> HIDE DEF c
  <2> QED
    BY <2>2, <2>3, <2>4, <2>5
<1>7. Along(h, U, c)
  BY <1>5, <1>6 DEF Along
<1> QED
  BY <1>2, <1>5, <1>7, MembersSum

LEMMA MembersPositive ==
    ASSUME NEW f \in Figures, NEW S, \A m \in Ids : Of(f, S, m) >= 0
    PROVE  SumOver(f, S) \in Nat
<1> DEFINE q == Listed(f, S)
<1>1. /\ q \in Seq(Int) /\ Len(q) = Count /\ SumOver(f, S) = Summed(q)
      /\ \A n \in Ids : q[n] = Of(f, S, n)
  BY MembersList
<1> HIDE DEF q
<1>2. \A n \in 1 .. Len(q) : q[n] >= 0
  BY <1>1 DEF Ids
<1> QED
  BY <1>1, <1>2, SumIsNat

LEMMA MembersGrow ==
    ASSUME NEW f \in Figures, NEW g \in Figures, NEW S, NEW T,
           \A m \in Ids : Of(f, S, m) <= Of(g, T, m)
    PROVE  SumOver(f, S) <= SumOver(g, T)
<1> DEFINE d == [m \in Ids |-> Of(g, T, m) - Of(f, S, m)]
<1>1. \A m \in Ids : Of(f, S, m) \in Int /\ Of(g, T, m) \in Int
  BY MembersList
<1>2. d \in Figures /\ \A m \in Ids : Of(d, Ids, m) = Of(g, T, m) - Of(f, S, m)
  BY <1>1 DEF Figures, Of
<1> HIDE DEF d
<1>3. \A m \in Ids : Of(d, Ids, m) >= 0 /\ Of(g, T, m) = Of(f, S, m) + Of(d, Ids, m)
  BY <1>1, <1>2
<1>4. SumOver(d, Ids) \in Nat
  BY <1>2, <1>3, MembersPositive
<1>5. SumOver(g, T) = SumOver(f, S) + SumOver(d, Ids)
  BY <1>2, <1>3, MembersAdd
<1>6. SumOver(f, S) \in Int
  BY MembersSum
<1> QED
  BY <1>4, <1>5, <1>6

LEMMA MembersOfNone ==
    ASSUME NEW f \in Figures, NEW S, \A m \in Ids : Of(f, S, m) = 0
    PROVE  SumOver(f, S) = 0
<1>1. \A m \in Ids : Of(f, S, m) = Of(f, S, m) + Of(f, S, m)
  OBVIOUS
<1>2. SumOver(f, S) = SumOver(f, S) + SumOver(f, S)
  BY <1>1, MembersAdd
<1> QED
  BY <1>2, MembersSum

LEMMA SumOfMember ==
    ASSUME NEW f \in Figures, NEW k \in Ids
    PROVE  SumOver(f, {k}) = f[k]
<1>1. Count \in Nat /\ Ids = 1 .. Count /\ f[k] \in Int
  BY WeightsAreFine DEF Ids, Figures
<1> DEFINE g == [n \in 0 .. Count |-> IF n < k THEN 0 ELSE f[k]]
<1>2. g \in [0 .. Count -> Int] /\ g[0] = 0 /\ g[Count] = f[k]
  BY <1>1
<1>3. ASSUME NEW n \in Ids PROVE g[n] = g[n - 1] + Of(f, {k}, n)
  <2>1. n \in 0 .. Count /\ n - 1 \in 0 .. Count /\ n \in Int /\ k \in Int
    BY <1>1
  <2>2. CASE n = k
    BY <1>1, <2>1, <2>2 DEF Of
  <2>3. CASE n # k
    BY <1>1, <2>1, <2>3 DEF Of
  <2> QED
    BY <2>2, <2>3
<1>4. Along(f, {k}, g)
  BY <1>2, <1>3 DEF Along
<1> QED
  BY <1>2, <1>4, MembersSum

LEMMA PartOfMembers ==
    ASSUME NEW f \in Figures, NEW S, NEW k \in Ids, k \in S, \A m \in Ids : Of(f, S, m) >= 0
    PROVE  f[k] <= SumOver(f, S)
<1>1. \A m \in Ids : Of(f, {k}, m) <= Of(f, S, m)
  <2> SUFFICES ASSUME NEW m \in Ids PROVE Of(f, {k}, m) <= Of(f, S, m)
    OBVIOUS
  <2>1. Of(f, S, m) \in Int /\ Of(f, S, m) >= 0
    BY MembersList
  <2> QED
    BY <2>1 DEF Of
<1> QED
  BY <1>1, MembersGrow, SumOfMember

Ones == [m \in Ids |-> 1]

LEMMA OnesIs ==
    /\ Ones \in Figures /\ SumOver(Ones, Ids) = Count
    /\ \A S : SumOver(Ones, S) \in 0 .. Count /\ \A m \in Ids : Of(Ones, S, m) = IF m \in S THEN 1 ELSE 0
<1>1. Ones \in Figures
  BY DEF Ones, Figures
<1>2. Count \in Nat /\ Ids = 1 .. Count
  BY WeightsAreFine DEF Ids
<1>3. \A S : \A m \in Ids : Of(Ones, S, m) = IF m \in S THEN 1 ELSE 0
  BY DEF Ones, Of
<1>4. SumOver(Ones, Ids) = Count
  <2> DEFINE g == [n \in 0 .. Count |-> n]
  <2>1. g \in [0 .. Count -> Int] /\ g[0] = 0 /\ g[Count] = Count
    BY <1>2
  <2>2. \A n \in Ids : g[n] = g[n - 1] + Of(Ones, Ids, n)
    BY <1>2, <1>3
  <2>3. Along(Ones, Ids, g)
    BY <2>1, <2>2 DEF Along
  <2> QED
    BY <1>1, <2>1, <2>3, MembersSum
<1>5. ASSUME NEW S PROVE SumOver(Ones, S) \in 0 .. Count
  <2>1. SumOver(Ones, S) \in Nat
    BY <1>1, <1>3, MembersPositive
  <2>2. SumOver(Ones, S) <= SumOver(Ones, Ids)
    BY <1>1, <1>3, MembersGrow
  <2> QED
    BY <1>2, <1>4, <2>1, <2>2
<1> QED
  BY <1>1, <1>3, <1>4, <1>5

\* Quotients add up to no more than the whole's, and less than 1 for each is lost.
LEMMA QuotientsAdd ==
    ASSUME NEW w \in [Ids -> Nat], NEW S, NEW b \in Nat, NEW W \in Nat \ {0}, NEW q \in Figures,
           \A m \in Ids : m \in S => q[m] = (w[m] * b) \div W
    PROVE  /\ SumOver(q, S) \in Nat
           /\ W * SumOver(q, S) <= b * SumOver(w, S)
           /\ b * SumOver(w, S) <= W * (SumOver(q, S) + SumOver(Ones, S))
           /\ \A m \in Ids : m \in S => q[m] \in Nat
<1>1. w \in Figures
  BY DEF Figures
<1>2. W \in Nat \ {0}
  OBVIOUS
<1>3. \A m \in Ids : m \in S => q[m] = (w[m] * b) \div W
  OBVIOUS
<1>4. ASSUME NEW m \in Ids, m \in S
      PROVE  q[m] \in Nat /\ W * q[m] <= b * w[m] /\ b * w[m] < W * q[m] + W
  <2>1. PICK i \in Nat : i = w[m]
    OBVIOUS
  <2>2. q[m] = (i * b) \div W
    BY <1>3, <1>4, <2>1
  <2>3. PICK k \in Nat : k = (i * b) \div W /\ W * k <= b * i /\ b * i < W * k + W
    BY <1>2, PartOfWeight
  <2> QED
    BY <2>1, <2>2, <2>3
<1> DEFINE x == [m \in Ids |-> W * Of(q, S, m)]
           y == [m \in Ids |-> b * Of(w, S, m)]
           v == [m \in Ids |-> Of(q, S, m) + Of(Ones, S, m)]
           z == [m \in Ids |-> W * v[m]]
<1>5. \A m \in Ids : Of(q, S, m) \in Int /\ Of(w, S, m) \in Int /\ Of(Ones, S, m) \in Int
  BY <1>1, OnesIs, MembersList
<1>6. v \in Figures /\ \A m \in Ids : v[m] = Of(q, S, m) + Of(Ones, S, m) /\ v[m] \in Int
  BY <1>5 DEF Figures
<1> HIDE DEF v
<1>7. /\ x \in Figures /\ \A m \in Ids : x[m] = W * Of(q, S, m)
      /\ y \in Figures /\ \A m \in Ids : y[m] = b * Of(w, S, m)
      /\ z \in Figures /\ \A m \in Ids : z[m] = W * v[m]
  <2>1. \A m \in Ids : W * Of(q, S, m) \in Int /\ b * Of(w, S, m) \in Int /\ W * v[m] \in Int
    BY <1>2, <1>5, <1>6
  <2> QED
    BY <2>1 DEF Figures
<1> HIDE DEF x, y, z
<1>8. \A m \in Ids : /\ Of(x, Ids, m) = x[m] /\ Of(y, Ids, m) = y[m]
                     /\ Of(v, Ids, m) = v[m] /\ Of(z, Ids, m) = z[m]
  BY DEF Of
<1>9. SumOver(x, Ids) = W * SumOver(q, S)
  BY <1>2, <1>7, <1>8, MembersScale
<1>10. SumOver(y, Ids) = b * SumOver(w, S)
  BY <1>1, <1>7, <1>8, MembersScale
<1>11. SumOver(z, Ids) = W * (SumOver(q, S) + SumOver(Ones, S))
  <2>1. SumOver(v, Ids) = SumOver(q, S) + SumOver(Ones, S)
    BY <1>6, <1>8, OnesIs, MembersAdd
  <2>2. SumOver(z, Ids) = W * SumOver(v, Ids)
    BY <1>2, <1>6, <1>7, <1>8, MembersScale
  <2> QED
    BY <2>1, <2>2
<1>12. ASSUME NEW m \in Ids PROVE Of(x, Ids, m) <= Of(y, Ids, m) /\ Of(y, Ids, m) <= Of(z, Ids, m)
  <2>1. CASE m \in S
    <3>1. Of(q, S, m) = q[m] /\ Of(w, S, m) = w[m] /\ Of(Ones, S, m) = 1
      BY <2>1, OnesIs DEF Of
    <3>2. PICK i \in Nat : i = q[m]
      BY <1>4, <2>1
    <3>3. W * (i + 1) = W * i + W
      BY <1>2
    <3>4. x[m] = W * i /\ y[m] = b * w[m] /\ z[m] = W * (i + 1)
      BY <1>6, <1>7, <3>1, <3>2
    <3>5. PICK p \in Int, r \in Int : p = W * i /\ r = b * w[m]
      BY <1>2
    <3>6. p <= r /\ r < p + W
      BY <1>4, <2>1, <3>2, <3>5
    <3> QED
      BY <1>2, <1>8, <3>3, <3>4, <3>5, <3>6
  <2>2. CASE m \notin S
    <3>1. Of(q, S, m) = 0 /\ Of(w, S, m) = 0 /\ Of(Ones, S, m) = 0
      BY <2>2 DEF Of
    <3>2. x[m] = W * 0 /\ y[m] = b * 0 /\ z[m] = W * 0
      BY <1>6, <1>7, <3>1
    <3> QED
      BY <1>2, <1>8, <3>2
  <2> QED
    BY <2>1, <2>2
<1>13. PICK Q \in Int, O \in Int : Q = SumOver(q, S) /\ O = SumOver(Ones, S)
  BY OnesIs, MembersSum
<1>14. W * Q <= b * SumOver(w, S)
  <2>1. SumOver(x, Ids) <= SumOver(y, Ids)
    BY <1>7, <1>12, MembersGrow
  <2> QED
    BY <1>9, <1>10, <1>13, <2>1
<1>15. b * SumOver(w, S) <= W * (Q + O)
  <2>1. SumOver(y, Ids) <= SumOver(z, Ids)
    BY <1>7, <1>12, MembersGrow
  <2> QED
    BY <1>10, <1>11, <1>13, <2>1
<1>16. Q \in Nat
  <2>1. \A m \in Ids : Of(q, S, m) >= 0
    BY <1>4 DEF Of
  <2> QED
    BY <1>13, <2>1, MembersPositive
<1> QED
  BY <1>4, <1>13, <1>14, <1>15, <1>16

LEMMA Cancel ==
    ASSUME NEW W \in Nat \ {0}, NEW i \in Int, NEW j \in Int, W * i <= W * j
    PROVE  i <= j
<1> SUFFICES ASSUME i > j PROVE FALSE
  OBVIOUS
<1>1. W * i >= W * (j + 1)
  OBVIOUS
<1>2. W * (j + 1) = W * j + W
  OBVIOUS
<1> QED
  BY <1>1, <1>2

\* b in the proportions of w: nothing more, and less than 1 for each is lost.
LEMMA Portions ==
    ASSUME NEW w \in [Ids -> Nat], NEW S, NEW b \in Nat, NEW q \in Figures, SumOver(w, S) > 0,
           \A m \in Ids : m \in S => q[m] = (w[m] * b) \div SumOver(w, S)
    PROVE  /\ SumOver(q, S) \in Nat /\ SumOver(q, S) <= b
           /\ SumOver(q, S) + SumOver(Ones, S) >= b
           /\ \A m \in Ids : m \in S => q[m] \in Nat
<1> DEFINE W == SumOver(w, S)
<1>1. W \in Nat \ {0}
  <2>1. w \in Figures
    BY DEF Figures
  <2> QED
    BY <2>1, MembersSum
<1>2. \A m \in Ids : m \in S => q[m] = (w[m] * b) \div W
  OBVIOUS
<1>3. SumOver(w, S) = W
  OBVIOUS
<1> HIDE DEF W
<1>4. PICK Q \in Nat, O \in Int : Q = SumOver(q, S) /\ O = SumOver(Ones, S)
  BY <1>1, <1>2, QuotientsAdd, OnesIs
<1>5. W * Q <= b * W /\ b * W <= W * (Q + O)
  BY <1>1, <1>2, <1>3, <1>4, QuotientsAdd
<1>6. b * W = W * b
  BY <1>1
<1>7. Q <= b
  BY <1>1, <1>5, <1>6, Cancel
<1>8. b <= Q + O
  <2>1. Q + O \in Int /\ W * b <= W * (Q + O)
    BY <1>5, <1>6
  <2> QED
    BY <1>1, <2>1, Cancel
<1>9. \A m \in Ids : m \in S => q[m] \in Nat
  BY <1>1, <1>2, QuotientsAdd
<1> QED
  BY <1>4, <1>7, <1>8, <1>9

LEMMA OnesCount ==
    ASSUME NEW S \in SUBSET Ids
    PROVE  IsFiniteSet(S) /\ Cardinality(S) \in Nat /\ SumOver(Ones, S) = Cardinality(S)
<1>1. Count \in Nat /\ Ids = 1 .. Count
  BY WeightsAreFine DEF Ids
<1> DEFINE g == [n \in 0 .. Count |-> Cardinality(S \cap (1 .. n))]
<1>2. IsFiniteSet(S)
  <2>1. IsFiniteSet(1 .. Count)
    BY <1>1, FS_Interval
  <2> QED
    BY <1>1, <2>1, FS_Subset
<1>3. \A n \in 0 .. Count : IsFiniteSet(S \cap (1 .. n)) /\ Cardinality(S \cap (1 .. n)) \in Int
  <2> SUFFICES ASSUME NEW n \in 0 .. Count
               PROVE  IsFiniteSet(S \cap (1 .. n)) /\ Cardinality(S \cap (1 .. n)) \in Int
    OBVIOUS
  <2>1. S \cap (1 .. n) \in SUBSET S
    OBVIOUS
  <2>2. IsFiniteSet(S \cap (1 .. n))
    BY <1>2, <2>1, FS_Subset
  <2> QED
    BY <2>2, FS_CardinalityType
<1>4. g \in [0 .. Count -> Int] /\ g[0] = 0 /\ g[Count] = Cardinality(S)
  <2>1. S \cap (1 .. 0) = {} /\ S \cap (1 .. Count) = S /\ Cardinality({}) = 0
    <3>1. 1 .. 0 = {}
      OBVIOUS
    <3>2. S \cap (1 .. 0) = {} /\ S \cap (1 .. Count) = S
      BY <1>1, <3>1
    <3> QED
      BY <3>2, FS_EmptySet
  <2>2. 0 \in 0 .. Count /\ Count \in 0 .. Count
    BY <1>1
  <2> QED
    BY <1>3, <2>1, <2>2
<1>5. ASSUME NEW n \in Ids PROVE g[n] = g[n - 1] + Of(Ones, S, n)
  <2>1. n \in 0 .. Count /\ n - 1 \in 0 .. Count /\ n \notin S \cap (1 .. (n - 1))
    BY <1>1
  <2>2. g[n] = Cardinality(S \cap (1 .. n)) /\ g[n - 1] = Cardinality(S \cap (1 .. (n - 1)))
    BY <2>1
  <2>3. CASE n \in S
    <3>1. S \cap (1 .. n) = (S \cap (1 .. (n - 1))) \cup {n}
      BY <1>1, <2>1, <2>3
    <3>2. Cardinality(S \cap (1 .. n)) = Cardinality(S \cap (1 .. (n - 1))) + 1
      BY <1>3, <2>1, <3>1, FS_AddElement
    <3> QED
      BY <2>2, <2>3, <3>2, OnesIs
  <2>4. CASE n \notin S
    <3>1. S \cap (1 .. n) = S \cap (1 .. (n - 1))
      BY <1>1, <2>1, <2>4
    <3>2. Of(Ones, S, n) = 0
      BY <2>4, OnesIs, Zenon
    <3>3. g[n] = g[n - 1] /\ g[n] \in Int
      BY <1>3, <2>1, <2>2, <3>1
    <3> QED
      BY <3>2, <3>3
  <2> QED
    BY <2>3, <2>4
<1>6. Along(Ones, S, g)
  BY <1>4, <1>5 DEF Along
<1>7. SumOver(Ones, S) = g[Count]
  BY <1>6, OnesIs, MembersSum
<1> QED
  BY <1>2, <1>4, <1>7, FS_CardinalityType

-----------------------------------------------------------------------------
(* The ensemble: clusters. *)

PairsOf  == {p \in Ids \X Ids : p[1] < p[2]}
Rootings == [Ids -> Ids]

LEMMA RootsTake ==
    ASSUME NEW pairs \in Seq(PairsOf)
    PROVE  \E r : /\ r[0] = [m \in Ids |-> m] /\ Roots(pairs) = r[Len(pairs)]
                  /\ \A n \in 1 .. Len(pairs) : r[n] = Union(r[n - 1], pairs[n])
<1> DEFINE N == Len(pairs)
           a == [m \in Ids |-> m]
           root == CHOOSE f : f = [n \in 0 .. N |-> IF n = 0 THEN a ELSE Union(f[n - 1], pairs[n])]
           F == [p \in (1 .. N) \X Rootings |-> Union(p[2], pairs[p[1]])]
<1>1. N \in Nat /\ \A n \in 1 .. N : pairs[n] \in PairsOf
  BY LenProperties
<1>2. a \in Rootings
  BY DEF Rootings
<1> HIDE DEF N, a
<1>3. F \in StepsOn(N, Rootings)
  <2>1. ASSUME NEW n \in 1 .. N, NEW x \in Rootings PROVE Union(x, pairs[n]) \in Rootings
    <3>1. pairs[n][2] \in Ids
      BY <1>1 DEF PairsOf
    <3> QED
      BY <3>1 DEF Union, Rootings
  <2>2. \A p \in (1 .. N) \X Rootings : Union(p[2], pairs[p[1]]) \in Rootings
    BY <2>1
  <2> QED
    BY <2>2 DEF StepsOn
<1> HIDE DEF F
<1>4. PICK g : Taken(N, Rootings, a, F, g)
  BY <1>1, <1>2, <1>3, RecursionExists
<1>5. ASSUME NEW n \in 1 .. N PROVE g[n] = Union(g[n - 1], pairs[n])
  <2>1. n - 1 \in 0 .. N
    BY <1>1
  <2>2. << n, g[n - 1] >> \in (1 .. N) \X Rootings
    BY <1>4, <2>1 DEF Taken
  <2>3. F[<< n, g[n - 1] >>] = Union(g[n - 1], pairs[n])
    BY <2>2 DEF F
  <2> QED
    BY <1>4, <2>3 DEF Taken
<1>6. g = [n \in 0 .. N |-> IF n = 0 THEN a ELSE Union(g[n - 1], pairs[n])]
  BY <1>1, <1>4, <1>5 DEF Taken
<1>7. root = [n \in 0 .. N |-> IF n = 0 THEN a ELSE Union(root[n - 1], pairs[n])]
  BY <1>6
<1>8. Roots(pairs) = root[N]
  BY DEF Roots, N, a
<1> HIDE DEF root
<1>9. root[0] = a /\ \A n \in 1 .. N : root[n] = Union(root[n - 1], pairs[n])
  BY <1>1, <1>7
<1> QED
  BY <1>8, <1>9 DEF N, a

\* The members of the pairs so far have one root, and what has one root cannot be
\* told apart by a set that tells no pair apart.
Joined(pairs, n) ==
    {r \in Rootings :
        /\ \A k \in 1 .. n : r[pairs[k][1]] = r[pairs[k][2]]
        /\ \A S \in SUBSET Ids : Closed(pairs, S) =>
              \A a, b \in Ids : r[a] = r[b] => (a \in S <=> b \in S)}

LEMMA UnionJoins ==
    ASSUME NEW pairs \in Seq(PairsOf), NEW n \in 1 .. Len(pairs), NEW r \in Joined(pairs, n - 1)
    PROVE  Union(r, pairs[n]) \in Joined(pairs, n)
<1>1. Len(pairs) \in Nat /\ DOMAIN pairs = 1 .. Len(pairs)
      /\ \A k \in 1 .. Len(pairs) : pairs[k][1] \in Ids /\ pairs[k][2] \in Ids
  BY LenProperties DEF PairsOf
<1> DEFINE u == Union(r, pairs[n])
<1>2. PICK x \in Ids, y \in Ids : x = pairs[n][1] /\ y = pairs[n][2]
  BY <1>1
<1>3. r \in Rootings /\ u \in Rootings
      /\ \A m \in Ids : u[m] = IF r[m] = r[x] THEN r[y] ELSE r[m]
  BY <1>2 DEF Joined, Union, Rootings
<1> HIDE DEF u
<1>4. ASSUME NEW k \in 1 .. n PROVE u[pairs[k][1]] = u[pairs[k][2]]
  <2>1. CASE k = n
    BY <1>2, <1>3, <2>1
  <2>2. CASE k # n
    <3>1. k \in 1 .. (n - 1) /\ k \in 1 .. Len(pairs)
      BY <1>1, <2>2
    <3>2. r[pairs[k][1]] = r[pairs[k][2]]
      BY <3>1 DEF Joined
    <3> QED
      BY <1>1, <1>3, <3>1, <3>2
  <2> QED
    BY <2>1, <2>2
<1>5. ASSUME NEW S \in SUBSET Ids, Closed(pairs, S), NEW a \in Ids, NEW b \in Ids, u[a] = u[b]
      PROVE  a \in S <=> b \in S
  <2>1. \A c, d \in Ids : r[c] = r[d] => (c \in S <=> d \in S)
    BY <1>5 DEF Joined
  <2>2. x \in S <=> y \in S
    BY <1>1, <1>2, <1>5 DEF Closed
  <2>3. CASE r[a] = r[x] /\ r[b] = r[x]
    BY <2>1, <2>3
  <2>4. CASE r[a] = r[x] /\ r[b] # r[x]
    <3>1. r[b] = r[y]
      BY <1>3, <1>5, <2>4
    <3> QED
      BY <2>1, <2>2, <2>4, <3>1
  <2>5. CASE r[a] # r[x] /\ r[b] = r[x]
    <3>1. r[a] = r[y]
      BY <1>3, <1>5, <2>5
    <3> QED
      BY <2>1, <2>2, <2>5, <3>1
  <2>6. CASE r[a] # r[x] /\ r[b] # r[x]
    <3>1. r[a] = r[b]
      BY <1>3, <1>5, <2>6
    <3> QED
      BY <2>1, <3>1
  <2> QED
    BY <2>3, <2>4, <2>5, <2>6
<1>6. u \in Joined(pairs, n)
  BY <1>3, <1>4, <1>5 DEF Joined
<1> QED
  BY <1>6 DEF u

\* Two members have one root if and only if a chain of pairs connects them.
LEMMA RootsConnect ==
    ASSUME NEW pairs \in Seq(PairsOf)
    PROVE  /\ Roots(pairs) \in Rootings
           /\ \A a, b \in Ids : Roots(pairs)[a] = Roots(pairs)[b]
                 <=> \A S \in SUBSET Ids : Closed(pairs, S) /\ a \in S => b \in S
<1> DEFINE N == Len(pairs)
           J == [n \in 0 .. N |-> Joined(pairs, n)]
<1>1. N \in Nat /\ DOMAIN pairs = 1 .. N
      /\ \A k \in 1 .. N : pairs[k][1] \in Ids /\ pairs[k][2] \in Ids
  BY LenProperties DEF PairsOf
<1>2. PICK r : /\ r[0] = [m \in Ids |-> m] /\ Roots(pairs) = r[N]
               /\ \A n \in 1 .. N : r[n] = Union(r[n - 1], pairs[n])
  BY RootsTake
<1>3. r[0] \in J[0]
  <2>1. [m \in Ids |-> m] \in Joined(pairs, 0)
    BY DEF Joined, Rootings
  <2> QED
    BY <1>1, <1>2, <2>1
<1>4. ASSUME NEW n \in 1 .. N, r[n - 1] \in J[n - 1] PROVE r[n] \in J[n]
  <2>1. n - 1 \in 0 .. N /\ n \in 0 .. N
    BY <1>1
  <2>2. r[n - 1] \in Joined(pairs, n - 1)
    BY <1>4, <2>1
  <2>3. Union(r[n - 1], pairs[n]) \in Joined(pairs, n)
    BY <2>2, UnionJoins
  <2> QED
    BY <1>2, <2>1, <2>3
<1>5. r[N] \in J[N]
  <2> HIDE DEF J, N
  <2>1. \A n \in 0 .. N : r[n] \in J[n]
    BY <1>1, <1>3, <1>4, StepByStep
  <2> QED
    BY <1>1, <2>1
<1> DEFINE R == Roots(pairs)
<1>6. R \in Joined(pairs, N)
  BY <1>1, <1>2, <1>5
<1> HIDE DEF R, J
<1>7. ASSUME NEW a \in Ids, NEW b \in Ids,
             \A S \in SUBSET Ids : Closed(pairs, S) /\ a \in S => b \in S
      PROVE  R[a] = R[b]
  <2> DEFINE S == {m \in Ids : R[m] = R[a]}
  <2>1. \A k \in DOMAIN pairs : pairs[k][1] \in S <=> pairs[k][2] \in S
    BY <1>1, <1>6 DEF Joined
  <2>2. S \in SUBSET Ids /\ Closed(pairs, S) /\ a \in S
    BY <2>1 DEF Closed
  <2>3. b \in S
    BY <1>7, <2>2
  <2> QED
    BY <2>3
<1>8. ASSUME NEW a \in Ids, NEW b \in Ids, R[a] = R[b], NEW S \in SUBSET Ids, Closed(pairs, S), a \in S
      PROVE  b \in S
  BY <1>6, <1>8 DEF Joined
<1>9. R \in Rootings
  BY <1>6 DEF Joined
<1> QED
  BY <1>7, <1>8, <1>9 DEF R

\* Clusters are the members of one root each; without correlations everyone is alone.
LEMMA ClustersAre ==
    ASSUME NEW i \in Inputs
    PROVE  \E r \in Rootings :
              /\ ClustersOf(i) = {{m \in Ids : r[m] = r[k]} : k \in Ids}
              /\ \A a \in Ids : ClusterOf(i, a) = {m \in Ids : r[m] = r[a]}
              /\ \A a, b \in Ids : r[a] = r[b] <=>
                    \/ a = b
                    \/ /\ i.enough
                       /\ \A S \in SUBSET Ids : Closed(i.correlated, S) /\ a \in S => b \in S
<1>1. i.correlated \in Seq(PairsOf) /\ Count \in Nat \ {0} /\ Ids = 1 .. Count
  BY InputsAreConfigured, WeightsAreFine DEF PairsOf, Ids
<1> DEFINE r == IF i.enough /\ Count > 1 THEN Roots(i.correlated) ELSE [m \in Ids |-> m]
<1>2. r \in Rootings
  BY <1>1, RootsConnect DEF Rootings
<1>3. ClustersOf(i) = {{m \in Ids : r[m] = r[k]} : k \in Ids}
  <2>1. CASE i.enough /\ Count > 1
    BY <2>1 DEF ClustersOf, Clusters
  <2>2. CASE ~ (i.enough /\ Count > 1)
    <3>1. ClustersOf(i) = {{m} : m \in Ids}
      BY <2>2 DEF ClustersOf
    <3>2. \A m \in Ids : r[m] = m
      BY <2>2
    <3> HIDE DEF r
    <3>3. \A k \in Ids : {m \in Ids : r[m] = r[k]} = {k}
      BY <3>2
    <3>4. {{m \in Ids : r[m] = r[k]} : k \in Ids} = {{k} : k \in Ids}
      <4> DEFINE C(k) == {m \in Ids : r[m] = r[k]}
      <4>1. \A k \in Ids : C(k) = {k}
        BY <3>3
      <4> HIDE DEF C
      <4>2. {C(k) : k \in Ids} = {{k} : k \in Ids}
        BY <4>1
      <4> QED
        BY <4>2 DEF C
    <3> QED
      BY <3>1, <3>4
  <2> QED
    BY <2>1, <2>2
<1>4. ASSUME NEW a \in Ids, NEW b \in Ids
      PROVE  r[a] = r[b] <=>
                    \/ a = b
                    \/ /\ i.enough
                       /\ \A S \in SUBSET Ids : Closed(i.correlated, S) /\ a \in S => b \in S
  <2>1. CASE i.enough /\ Count > 1
    <3>1. r = Roots(i.correlated)
      BY <2>1
    <3> HIDE DEF r
    <3>2. r[a] = r[b] <=> \A S \in SUBSET Ids : Closed(i.correlated, S) /\ a \in S => b \in S
      BY <1>1, <3>1, RootsConnect
    <3> QED
      BY <2>1, <3>2
  <2>2. CASE ~ i.enough
    BY <2>2
  <2>3. CASE ~ (Count > 1)
    <3>1. Ids = {1}
      BY <1>1, <2>3
    <3> QED
      BY <3>1
  <2> QED
    BY <2>1, <2>2, <2>3
<1> HIDE DEF r
<1>5. ASSUME NEW a \in Ids PROVE ClusterOf(i, a) = {m \in Ids : r[m] = r[a]}
  <2>1. {m \in Ids : r[m] = r[a]} \in ClustersOf(i) /\ a \in {m \in Ids : r[m] = r[a]}
    BY <1>3
  <2>2. \A c \in ClustersOf(i) : a \in c => c = {m \in Ids : r[m] = r[a]}
    BY <1>3
  <2> DEFINE C == {m \in Ids : r[m] = r[a]}
  <2>3. ClusterOf(i, a) \in ClustersOf(i) /\ a \in ClusterOf(i, a)
    BY <2>1 DEF ClusterOf
  <2> QED
    BY <2>2, <2>3
<1> QED
  BY <1>2, <1>3, <1>4, <1>5

-----------------------------------------------------------------------------
(* The ensemble: shares. *)

LEMMA RawWeightsAre ==
    ASSUME NEW i \in Inputs
    PROVE  RawWeights(i) \in [Ids -> Nat] /\ \E m \in Ids : RawWeights(i)[m] > 0
<1>1. i.raw \in [Ids -> Nat] /\ SumOver(i.raw, Ids) > 0 /\ Count \in Nat \ {0} /\ Ids = 1 .. Count
  BY InputsAreConfigured, WeightsAreFine DEF Ids
<1>2. \E m \in Ids : i.raw[m] > 0
  <2> SUFFICES ASSUME \A m \in Ids : ~ (i.raw[m] > 0) PROVE FALSE
    OBVIOUS
  <2>1. i.raw \in Figures /\ \A m \in Ids : Of(i.raw, Ids, m) = 0
    BY <1>1 DEF Figures, Of
  <2>2. SumOver(i.raw, Ids) = 0
    BY <2>1, MembersOfNone
  <2> QED
    BY <1>1, <2>2
<1>3. 1 \in Ids /\ [m \in Ids |-> 1] \in [Ids -> Nat] /\ [m \in Ids |-> 1][1] > 0
  BY <1>1
<1> QED
  BY <1>1, <1>2, <1>3 DEF RawWeights

\* A cluster that weighs no more a member than m weighs no more than m.
ClonesLight(i, v) ==
    \A c \in ClustersOf(i), m \in Ids :
        {m} \in ClustersOf(i) /\ (\A k \in c : RawWeights(i)[k] <= RawWeights(i)[m])
           => SumOver(v, c) <= v[m]

Weighted(i) ==
    {v \in [Ids -> Nat] : /\ SumOver(v, Ids) <= One /\ SumOver(v, Ids) + Count >= One
                          /\ ClonesLight(i, v)}

LEMMA ClusterSize ==
    ASSUME NEW i \in Inputs, NEW m \in Ids
    PROVE  /\ ClusterOf(i, m) \in SUBSET Ids /\ Cardinality(ClusterOf(i, m)) \in 1 .. Count
           /\ \A c \in ClustersOf(i) : c \in SUBSET Ids /\ (m \in c => c = ClusterOf(i, m))
<1>1. PICK r \in Rootings : /\ ClustersOf(i) = {{a \in Ids : r[a] = r[k]} : k \in Ids}
                            /\ \A a \in Ids : ClusterOf(i, a) = {b \in Ids : r[b] = r[a]}
  BY ClustersAre
<1> DEFINE c == ClusterOf(i, m)
<1>2. c \in SUBSET Ids /\ m \in c
  BY <1>1
<1>3. \A d \in ClustersOf(i) : d \in SUBSET Ids /\ (m \in d => d = c)
  BY <1>1
<1> HIDE DEF c
<1>4. IsFiniteSet(c) /\ Cardinality(c) \in Nat /\ SumOver(Ones, c) = Cardinality(c)
  BY <1>2, OnesCount
<1>5. Cardinality(c) # 0
  BY <1>2, <1>4, FS_EmptySet
<1>6. Cardinality(c) <= Count /\ Count \in Nat
  BY <1>4, OnesIs, WeightsAreFine
<1> QED
  BY <1>2, <1>3, <1>4, <1>5, <1>6 DEF c

LEMMA SharedIs ==
    ASSUME NEW i \in Inputs
    PROVE  Shared(i) = [m \in Ids |-> NotANumber] \/ Shared(i) \in Weighted(i)
<1> DEFINE raw == RawWeights(i)
           size == [m \in Ids |-> Cardinality(ClusterOf(i, m))]
           part == [m \in Ids |-> (raw[m] * One) \div size[m]]
           v == [m \in Ids |-> (part[m] * One) \div SumOver(part, Ids)]
<1>1. raw \in [Ids -> Nat] /\ \E m \in Ids : raw[m] > 0
  BY RawWeightsAre
<1>2. One \in Nat /\ Count \in Nat \ {0} /\ One >= Count
  BY WeightsAreFine
<1>3. size \in [Ids -> 1 .. Count]
  BY ClusterSize
<1>4. \A m \in Ids : size[m] = Cardinality(ClusterOf(i, m))
  OBVIOUS
<1>5. Shared(i) = [m \in Ids |-> NotANumber] \/ Shared(i) = v
  BY DEF Shared
<1> HIDE DEF raw, size
<1>6. \A m \in Ids : /\ part[m] = (raw[m] * One) \div size[m] /\ part[m] \in Nat
                     /\ raw[m] > 0 => part[m] > 0
  <2> SUFFICES ASSUME NEW m \in Ids
               PROVE  (raw[m] * One) \div size[m] \in Nat
                      /\ (raw[m] > 0 => (raw[m] * One) \div size[m] > 0)
    OBVIOUS
  <2>1. PICK a \in Nat, d \in Nat \ {0} : a = raw[m] /\ d = size[m] /\ d <= One
    BY <1>1, <1>2, <1>3
  <2>2. PICK q \in Nat : /\ q = (a * One) \div d /\ One * a < d * q + d
    BY <1>2, PartOfWeight
  <2>3. ASSUME a > 0, q = 0 PROVE FALSE
    <3>1. d * q = 0
      BY <2>3
    <3>2. One * a >= One
      BY <1>2, <2>3
    <3> QED
      BY <1>2, <2>1, <2>2, <3>1, <3>2
  <2> QED
    BY <2>1, <2>2, <2>3
<1>7. part \in [Ids -> Nat] /\ part \in Figures
  BY <1>6 DEF Figures
<1> HIDE DEF part
<1>8. SumOver(part, Ids) \in Nat \ {0}
  <2>1. PICK m \in Ids : part[m] > 0
    BY <1>1, <1>6
  <2>2. \A k \in Ids : Of(part, Ids, k) >= 0
    BY <1>6 DEF Of
  <2>3. part[m] <= SumOver(part, Ids) /\ SumOver(part, Ids) \in Nat
    BY <1>7, <2>2, PartOfMembers, MembersPositive
  <2> QED
    BY <1>6, <2>1, <2>3
<1> DEFINE T == SumOver(part, Ids)
<1>9. \A m \in Ids : v[m] = (part[m] * One) \div T
  OBVIOUS
<1>10. v \in [Ids -> Nat] /\ v \in Figures
  <2>1. ASSUME NEW m \in Ids PROVE (part[m] * One) \div T \in Nat
    <3>1. PICK p \in Nat, t \in Nat \ {0} : p = part[m] /\ t = T
      BY <1>6, <1>8
    <3>2. (p * One) \div t \in Nat
      BY <1>2, PartOfWeight
    <3> QED
      BY <3>1, <3>2
  <2> QED
    BY <2>1 DEF Figures
<1> HIDE DEF v
<1>11. SumOver(v, Ids) <= One /\ SumOver(v, Ids) + Count >= One
  <2>1. SumOver(v, Ids) <= One /\ SumOver(v, Ids) + SumOver(Ones, Ids) >= One
    BY <1>2, <1>7, <1>8, <1>9, <1>10, Portions
  <2> QED
    BY <2>1, OnesIs
<1> HIDE DEF T
<1>12. ASSUME NEW c \in ClustersOf(i), NEW m \in Ids, {m} \in ClustersOf(i),
              \A k \in c : raw[k] <= raw[m]
       PROVE  SumOver(v, c) <= v[m]
  <2>1. c \in SUBSET Ids /\ \A k \in c : ClusterOf(i, k) = c
    BY ClusterSize
  <2>2. size[m] = 1
    <3>1. ClusterOf(i, m) = {m}
      BY <1>12, ClusterSize
    <3> QED
      BY <1>4, <3>1, FS_Singleton
  <2>3. PICK a \in Nat, p \in Nat, x \in Nat : a = raw[m] /\ p = part[m] /\ x = v[m]
    BY <1>1, <1>7, <1>10
  <2>4. p = a * One
    <3>1. p = (a * One) \div 1
      BY <1>6, <2>2, <2>3
    <3>2. PICK b \in Nat : b = a * One
      BY <1>2
    <3> QED
      BY <3>1, <3>2
  <2>5. SumOver(part, c) <= p
    <3>1. CASE c = {}
      <4>1. \A k \in Ids : Of(part, c, k) = 0
        BY <3>1 DEF Of
      <4>2. SumOver(part, c) = 0
        BY <1>7, <4>1, MembersOfNone
      <4> QED
        BY <4>2
    <3>2. CASE c # {}
      <4>1. PICK n \in Nat \ {0} : n = Cardinality(c) /\ \A k \in c : size[k] = n
        <5>1. \A k \in c : size[k] = Cardinality(c) /\ size[k] \in Nat \ {0}
          BY <1>3, <1>4, <2>1
        <5> QED
          BY <3>2, <5>1
      <4>2. \A k \in Ids : k \in c => part[k] = (raw[k] * One) \div n
        BY <1>6, <4>1
      <4>3. n * SumOver(part, c) <= One * SumOver(raw, c)
        BY <1>1, <1>2, <1>7, <4>2, QuotientsAdd
      <4> DEFINE even == [k \in Ids |-> a * Of(Ones, c, k)]
      <4>4. even \in Figures /\ \A k \in Ids : even[k] = a * Of(Ones, c, k) /\ Of(even, Ids, k) = a * Of(Ones, c, k)
        BY OnesIs DEF Figures, Of
      <4>5. SumOver(raw, c) <= SumOver(even, Ids)
        <5>1. ASSUME NEW k \in Ids PROVE Of(raw, c, k) <= Of(even, Ids, k)
          <6>1. CASE k \in c
            BY <1>1, <1>12, <2>3, <4>4, <6>1, OnesIs DEF Of
          <6>2. CASE k \notin c
            BY <4>4, <6>2, OnesIs DEF Of
          <6> QED
            BY <6>1, <6>2
        <5>2. raw \in Figures
          BY <1>1 DEF Figures
        <5> QED
          BY <4>4, <5>1, <5>2, MembersGrow
      <4>6. SumOver(even, Ids) = a * n
        <5>1. SumOver(even, Ids) = a * SumOver(Ones, c)
          BY <4>4, OnesIs, MembersScale
        <5> QED
          BY <2>1, <4>1, <5>1, OnesCount
      <4>7. PICK P \in Int, R \in Int : P = SumOver(part, c) /\ R = SumOver(raw, c) /\ R <= a * n
        <5>1. raw \in Figures
          BY <1>1 DEF Figures
        <5> QED
          BY <1>7, <4>5, <4>6, <5>1, MembersSum
      <4>8. One * R <= One * (a * n)
        BY <1>2, <4>7
      <4>9. One * (a * n) = n * (a * One)
        BY <1>2
      <4>10. n * P <= n * p
        <5>1. n * P <= One * R
          BY <4>3, <4>7
        <5>2. One * R \in Int /\ n * P \in Int /\ One * (a * n) \in Int
          BY <1>2
        <5> QED
          BY <2>4, <4>8, <4>9, <5>1, <5>2
      <4>11. P <= p
        BY <4>10, Cancel
      <4> QED
        BY <4>7, <4>11
    <3> QED
      BY <3>1, <3>2
  <2>6. PICK V \in Int, P \in Int, t \in Nat \ {0} : V = SumOver(v, c) /\ P = SumOver(part, c) /\ t = T
    BY <1>7, <1>8, <1>10, MembersSum DEF T
  <2>7. t * V <= One * P
    BY <1>2, <1>7, <1>9, <1>10, <2>6, QuotientsAdd
  <2>8. One * P <= One * p
    BY <1>2, <2>5, <2>6
  <2>9. One * p < t * x + t
    <3>1. x = (p * One) \div t
      BY <1>9, <2>3, <2>6
    <3> QED
      BY <1>2, <3>1, PartOfWeight
  <2>10. t * V < t * (x + 1)
    <3>1. t * (x + 1) = t * x + t
      OBVIOUS
    <3>2. t * V \in Int /\ One * P \in Int /\ One * p \in Int /\ t * x \in Int
      BY <1>2
    <3> QED
      BY <2>7, <2>8, <2>9, <3>1, <3>2
  <2>11. V <= x
    <3> SUFFICES ASSUME x + 1 <= V PROVE FALSE
      OBVIOUS
    <3>1. t * (x + 1) <= t * V
      OBVIOUS
    <3>2. t * (x + 1) \in Int /\ t * V \in Int
      OBVIOUS
    <3> QED
      BY <2>10, <3>1, <3>2
  <2> QED
    BY <2>3, <2>6, <2>11
<1>13. v \in Weighted(i)
  BY <1>10, <1>11, <1>12 DEF Weighted, ClonesLight, raw
<1> QED
  BY <1>5, <1>13

-----------------------------------------------------------------------------
(* The ensemble: family caps. *)

\* A sum over the members of some families is the sum of their totals.
LEMMA FamilyByFamily ==
    ASSUME NEW i \in Inputs, NEW u \in Figures, NEW F \in SUBSET Ids, NEW t \in Figures,
           \A f \in Ids : t[f] = SumOver(u, OfFamily(i, f))
    PROVE  SumOver(t, F) = SumOver(u, {m \in Ids : i.family[m] \in F})
<1>1. i.family \in [Ids -> Ids] /\ Count \in Nat /\ Ids = 1 .. Count
  BY InputsAreConfigured, WeightsAreFine DEF Ids
<1> DEFINE To(n) == {m \in Ids : i.family[m] \in F /\ i.family[m] <= n}
           g == [n \in 0 .. Count |-> SumOver(u, To(n))]
<1>2. g \in [0 .. Count -> Int] /\ \A n \in 0 .. Count : g[n] = SumOver(u, To(n))
  BY MembersSum
<1> HIDE DEF g
<1>3. g[0] = 0
  <2>1. \A m \in Ids : Of(u, To(0), m) = 0
    BY <1>1 DEF Of
  <2>2. SumOver(u, To(0)) = 0
    BY <2>1, MembersOfNone
  <2> QED
    BY <1>1, <1>2, <2>2
<1>4. ASSUME NEW n \in Ids PROVE g[n] = g[n - 1] + Of(t, F, n)
  <2>1. n \in 0 .. Count /\ n - 1 \in 0 .. Count
    BY <1>1
  <2>2. g[n] = SumOver(u, To(n)) /\ g[n - 1] = SumOver(u, To(n - 1)) /\ g[n] \in Int
    BY <1>2, <2>1
  <2>3. CASE n \in F
    <3>1. ASSUME NEW m \in Ids
          PROVE  Of(u, To(n), m) = Of(u, To(n - 1), m) + Of(u, OfFamily(i, n), m)
      <4>1. u[m] \in Int /\ i.family[m] \in Int /\ n \in Int
        BY <1>1 DEF Figures
      <4>2. m \in To(n) <=> i.family[m] \in F /\ i.family[m] <= n
        OBVIOUS
      <4>3. m \in To(n - 1) <=> i.family[m] \in F /\ i.family[m] <= n - 1
        OBVIOUS
      <4>4. m \in OfFamily(i, n) <=> i.family[m] = n
        BY DEF OfFamily
      <4> HIDE DEF To
      <4>5. CASE i.family[m] = n
        BY <2>3, <4>1, <4>2, <4>3, <4>4, <4>5 DEF Of
      <4>6. CASE i.family[m] # n
        BY <4>1, <4>2, <4>3, <4>4, <4>6 DEF Of
      <4> QED
        BY <4>5, <4>6
    <3> HIDE DEF To
    <3>2. SumOver(u, To(n)) = SumOver(u, To(n - 1)) + SumOver(u, OfFamily(i, n))
      BY <3>1, MembersAdd
    <3> QED
      BY <2>2, <2>3, <3>2 DEF Of
  <2>4. CASE n \notin F
    <3>1. To(n) = To(n - 1)
      <4>1. \A m \in Ids : i.family[m] \in Int /\ n \in Int /\ (i.family[m] \in F => i.family[m] # n)
        BY <1>1, <2>4
      <4>2. \A k \in Int : n \in Int /\ k # n => (k <= n <=> k <= n - 1)
        BY <4>1
      <4>3. \A m \in Ids : i.family[m] \in F => (i.family[m] <= n <=> i.family[m] <= n - 1)
        BY <4>1, <4>2, Zenon
      <4> QED
        BY <4>3, Zenon
    <3> HIDE DEF To
    <3>2. Of(t, F, n) = 0
      BY <2>4 DEF Of
    <3> QED
      BY <2>2, <3>1, <3>2
  <2> QED
    BY <2>3, <2>4
<1>5. Along(t, F, g)
  BY <1>2, <1>3, <1>4 DEF Along
<1>6. SumOver(t, F) = g[Count]
  BY <1>5, MembersSum
<1>7. To(Count) = {m \in Ids : i.family[m] \in F}
  BY <1>1
<1>8. Count \in 0 .. Count
  BY <1>1
<1> QED
  BY <1>2, <1>6, <1>7, <1>8

CapState == [w : [Ids -> Nat], fixed : SUBSET Ids, done : BOOLEAN]
FamiliesOf(i) == {i.family[m] : m \in Ids}
Settled(i, w) == \A f \in Ids : FamilyTotal(i, w, f) <= i.cap

\* After n rounds, or earlier if every family is within the cap: families cut are at
\* the cap, others have what they had and more, and a round loses less than Count.
CappedSoFar(i, v, n) ==
    {a \in CapState :
        /\ a.fixed \subseteq FamiliesOf(i)
        /\ \A f \in a.fixed : /\ FamilyTotal(i, a.w, f) <= i.cap
                              /\ FamilyTotal(i, a.w, f) + Count >= i.cap
        /\ \A m \in Ids : i.family[m] \notin a.fixed =>
              a.w[m] >= v[m] /\ (a.done => a.w[m] = 0)
        /\ ~ a.done => SumOver(a.w, Ids) + Count * Cardinality(a.fixed) >= SumOver(v, Ids)
        /\ Settled(i, a.w) \/ Cardinality(a.fixed) >= n}

LEMMA FamilyTotals ==
    ASSUME NEW i \in Inputs, NEW w \in [Ids -> Nat], NEW f \in Ids
    PROVE  /\ FamilyTotal(i, w, f) \in Nat
           /\ (\A m \in Ids : i.family[m] = f => w[m] = 0) => FamilyTotal(i, w, f) = 0
<1>1. w \in Figures /\ \A m \in Ids : w[m] \in Nat
  BY DEF Figures
<1>2. \A m \in Ids : Of(w, OfFamily(i, f), m) >= 0
  BY <1>1 DEF Of
<1>3. (\A m \in Ids : i.family[m] = f => w[m] = 0) => \A m \in Ids : Of(w, OfFamily(i, f), m) = 0
  BY DEF Of, OfFamily
<1> QED
  BY <1>1, <1>2, <1>3, MembersPositive, MembersOfNone DEF FamilyTotal
CutsOf(i, w, over, cut, excess) ==
    /\ over = {f \in Ids : FamilyTotal(i, w, f) > i.cap}
    /\ cut = [m \in Ids |-> IF i.family[m] \in over
                            THEN (w[m] * i.cap) \div FamilyTotal(i, w, i.family[m]) ELSE w[m]]
    /\ excess = SumOver([f \in Ids |-> FamilyTotal(i, w, f) - i.cap], over)

LEMMA CutsLose ==
    ASSUME NEW i \in Inputs, NEW w \in [Ids -> Nat], NEW over, NEW cut, NEW excess,
           CutsOf(i, w, over, cut, excess)
    PROVE  /\ cut \in [Ids -> Nat] /\ excess \in Nat
           /\ \A f \in over : FamilyTotal(i, cut, f) <= i.cap /\ FamilyTotal(i, cut, f) + Count >= i.cap
           /\ SumOver(cut, Ids) + excess + SumOver(Ones, {m \in Ids : i.family[m] \in over})
                >= SumOver(w, Ids)
<1> DEFINE gone == {m \in Ids : i.family[m] \in over}
           total == [f \in Ids |-> FamilyTotal(i, w, f)]
           above == [f \in Ids |-> FamilyTotal(i, w, f) - i.cap]
           after == [f \in Ids |-> FamilyTotal(i, cut, f)]
           ones  == [f \in Ids |-> SumOver(Ones, OfFamily(i, f))]
<1> USE DEF CutsOf
<1>1. i.family \in [Ids -> Ids] /\ i.cap \in Nat /\ Count \in Nat
  <2>1. i.family \in [Ids -> Ids] /\ i.cap \in 0 .. One
    BY InputsAreConfigured
  <2>2. Count \in Nat /\ One \in Nat
    BY WeightsAreFine
  <2> QED
    BY <2>1, <2>2
<1>2. \A f \in Ids : FamilyTotal(i, w, f) \in Nat
  BY FamilyTotals
<1>3. over \in SUBSET Ids /\ \A f \in over : FamilyTotal(i, w, f) > i.cap
  OBVIOUS
<1>4. \A m \in Ids : cut[m] = IF i.family[m] \in over
                              THEN (w[m] * i.cap) \div FamilyTotal(i, w, i.family[m]) ELSE w[m]
  OBVIOUS
<1>5. ASSUME NEW m \in Ids PROVE cut[m] \in Nat
  <2>1. CASE i.family[m] \in over
    <3>1. PICK x \in Nat, d \in Nat \ {0} : x = w[m] /\ d = FamilyTotal(i, w, i.family[m])
      BY <1>1, <1>2, <1>3, <2>1
    <3>2. (x * i.cap) \div d \in Nat
      BY <1>1, PartOfWeight
    <3> QED
      BY <1>4, <2>1, <3>1, <3>2
  <2>2. CASE i.family[m] \notin over
    BY <1>4, <2>2
  <2> QED
    BY <2>1, <2>2
<1>6. cut \in [Ids -> Nat] /\ cut \in Figures /\ w \in Figures
  BY <1>5 DEF Figures
<1>7. ASSUME NEW f \in over
      PROVE  /\ FamilyTotal(i, cut, f) \in Nat /\ FamilyTotal(i, cut, f) <= i.cap
             /\ FamilyTotal(i, cut, f) + SumOver(Ones, OfFamily(i, f)) >= i.cap
  <2> DEFINE S == OfFamily(i, f)
  <2>1. SumOver(w, S) = FamilyTotal(i, w, f) /\ SumOver(cut, S) = FamilyTotal(i, cut, f)
    BY DEF FamilyTotal
  <2>2. SumOver(w, S) > 0
    BY <1>1, <1>2, <1>3, <2>1
  <2>3. \A m \in Ids : m \in S => cut[m] = (w[m] * i.cap) \div SumOver(w, S)
    BY <1>4, <2>1 DEF OfFamily
  <2> HIDE DEF S
  <2>4. /\ SumOver(cut, S) \in Nat /\ SumOver(cut, S) <= i.cap
        /\ SumOver(cut, S) + SumOver(Ones, S) >= i.cap
    BY <1>1, <1>6, <2>2, <2>3, Portions
  <2> QED
    BY <2>1, <2>4 DEF S
<1>8. \A f \in over : FamilyTotal(i, cut, f) <= i.cap /\ FamilyTotal(i, cut, f) + Count >= i.cap
  <2> SUFFICES ASSUME NEW f \in over PROVE FamilyTotal(i, cut, f) + Count >= i.cap
    BY <1>7
  <2>1. SumOver(Ones, OfFamily(i, f)) \in 0 .. Count
    BY OnesIs
  <2> QED
    BY <1>1, <1>7, <2>1
<1>9. /\ total \in Figures /\ \A f \in Ids : total[f] = SumOver(w, OfFamily(i, f))
      /\ above \in Figures /\ \A f \in Ids : above[f] = total[f] - i.cap
      /\ after \in Figures /\ \A f \in Ids : after[f] = SumOver(cut, OfFamily(i, f))
      /\ ones \in Figures /\ \A f \in Ids : ones[f] = SumOver(Ones, OfFamily(i, f))
  <2>1. \A f \in Ids : FamilyTotal(i, w, f) \in Int /\ FamilyTotal(i, cut, f) \in Int
    BY <1>2, <1>6, FamilyTotals
  <2>2. \A f \in Ids : SumOver(Ones, OfFamily(i, f)) \in Int
    BY OnesIs
  <2>3. \A f \in Ids : FamilyTotal(i, w, f) - i.cap \in Int
    <3>1. \A x \in Nat : x - i.cap \in Int
      BY <1>1
    <3> QED
      BY <1>2, <3>1
  <2>4. total \in Figures /\ above \in Figures /\ after \in Figures /\ ones \in Figures
    BY <2>1, <2>2, <2>3 DEF Figures
  <2>5. \A f \in Ids : FamilyTotal(i, w, f) = SumOver(w, OfFamily(i, f))
                    /\ FamilyTotal(i, cut, f) = SumOver(cut, OfFamily(i, f))
    BY DEF FamilyTotal
  <2> QED
    BY <2>4, <2>5
<1>10. excess = SumOver(above, over)
  OBVIOUS
<1>11. \A f \in over : after[f] + ones[f] >= i.cap /\ total[f] - i.cap > 0
  BY <1>2, <1>3, <1>7, <1>9, <1>1 DEF FamilyTotal
<1> HIDE DEF total, above, after, ones
<1>12. excess \in Nat
  <2>1. \A f \in Ids : Of(above, over, f) >= 0
    <3> SUFFICES ASSUME NEW f \in Ids PROVE Of(above, over, f) >= 0
      OBVIOUS
    <3>1. CASE f \in over
      <4>1. above[f] = total[f] - i.cap /\ total[f] - i.cap > 0
        BY <1>9, <1>11, <3>1
      <4>2. above[f] \in Int
        BY <1>9 DEF Figures
      <4> QED
        BY <3>1, <4>1, <4>2 DEF Of
    <3>2. CASE f \notin over
      BY <3>2 DEF Of
    <3> QED
      BY <3>1, <3>2
  <2> QED
    BY <1>9, <1>10, <2>1, MembersPositive
<1>13. /\ SumOver(total, over) = SumOver(w, gone)
       /\ SumOver(after, over) = SumOver(cut, gone)
       /\ SumOver(ones, over) = SumOver(Ones, gone)
  BY <1>3, <1>6, <1>9, OnesIs, FamilyByFamily
<1>14. SumOver(total, over) <= SumOver(after, over) + SumOver(ones, over) + SumOver(above, over)
  <2> DEFINE x == [f \in Ids |-> after[f] + ones[f]]
             y == [f \in Ids |-> x[f] + above[f]]
  <2>1. \A f \in Ids : after[f] \in Int /\ ones[f] \in Int /\ above[f] \in Int /\ total[f] \in Int
    BY <1>9 DEF Figures
  <2>2. x \in Figures /\ \A f \in Ids : x[f] = after[f] + ones[f] /\ x[f] \in Int
    BY <2>1 DEF Figures
  <2> HIDE DEF x
  <2>3. y \in Figures /\ \A f \in Ids : y[f] = x[f] + above[f]
    BY <2>1, <2>2 DEF Figures
  <2> HIDE DEF y
  <2>4. SumOver(x, over) = SumOver(after, over) + SumOver(ones, over)
    <3>1. \A f \in Ids : Of(x, over, f) = Of(after, over, f) + Of(ones, over, f)
      BY <2>1, <2>2 DEF Of
    <3> QED
      BY <1>9, <2>2, <3>1, MembersAdd
  <2>5. SumOver(y, over) = SumOver(x, over) + SumOver(above, over)
    <3>1. \A f \in Ids : Of(y, over, f) = Of(x, over, f) + Of(above, over, f)
      BY <2>1, <2>2, <2>3 DEF Of
    <3> QED
      BY <1>9, <2>2, <2>3, <3>1, MembersAdd
  <2>6. SumOver(total, over) <= SumOver(y, over)
    <3>1. ASSUME NEW f \in Ids PROVE Of(total, over, f) <= Of(y, over, f)
      <4>1. CASE f \in over
        <5>1. total[f] <= y[f]
          BY <1>1, <1>9, <1>11, <2>1, <2>2, <2>3, <4>1
        <5> QED
          BY <4>1, <5>1 DEF Of
      <4>2. CASE f \notin over
        BY <4>2 DEF Of
      <4> QED
        BY <4>1, <4>2
    <3> QED
      BY <1>9, <2>3, <3>1, MembersGrow
  <2> QED
    BY <2>4, <2>5, <2>6
<1> DEFINE rest == Ids \ gone
<1>15. /\ SumOver(w, Ids) = SumOver(w, gone) + SumOver(w, rest)
       /\ SumOver(cut, Ids) = SumOver(cut, gone) + SumOver(w, rest)
  <2>1. \A m \in Ids : m \in rest <=> m \notin gone
    OBVIOUS
  <2>2. \A m \in Ids : m \notin gone => cut[m] = w[m]
    BY <1>4
  <2> HIDE DEF gone, rest
  <2>3. \A m \in Ids : cut[m] \in Int /\ w[m] \in Int
    BY <1>6
  <2>4. \A m \in Ids : Of(w, Ids, m) = Of(w, gone, m) + Of(w, rest, m)
    BY <2>1, <2>3 DEF Of
  <2>5. \A m \in Ids : Of(cut, Ids, m) = Of(cut, gone, m) + Of(w, rest, m)
    BY <2>1, <2>2, <2>3 DEF Of
  <2> QED
    BY <1>6, <2>4, <2>5, MembersAdd
<1> HIDE DEF rest, gone
<1>16. SumOver(w, gone) <= SumOver(cut, gone) + SumOver(Ones, gone) + excess
  BY <1>10, <1>13, <1>14
<1>17. SumOver(cut, Ids) + excess + SumOver(Ones, gone) >= SumOver(w, Ids)
  <2>1. PICK c \in Int, o \in Int, x \in Int, r \in Int :
          c = SumOver(cut, gone) /\ o = SumOver(Ones, gone) /\ x = SumOver(w, gone) /\ r = SumOver(w, rest)
    BY <1>6, OnesIs, MembersSum
  <2>2. x <= c + o + excess
    BY <1>16, <2>1
  <2>3. SumOver(cut, Ids) = c + r /\ SumOver(w, Ids) = x + r
    BY <1>15, <2>1
  <2> QED
    BY <1>12, <2>1, <2>2, <2>3
<1> QED
  BY <1>6, <1>8, <1>12, <1>17 DEF gone

\* What is free gets back what the cuts took.
LEMMA SharesGrow ==
    ASSUME NEW free \in SUBSET Ids, NEW cut \in [Ids -> Nat], NEW excess \in Nat, NEW u,
           SumOver(cut, free) > 0,
           u = [m \in Ids |-> IF m \in free THEN cut[m] + (cut[m] * excess) \div SumOver(cut, free) ELSE cut[m]]
    PROVE  /\ u \in [Ids -> Nat] /\ \A m \in Ids : u[m] >= cut[m] /\ (m \notin free => u[m] = cut[m])
           /\ SumOver(u, Ids) + SumOver(Ones, free) >= SumOver(cut, Ids) + excess
<1> DEFINE room == SumOver(cut, free)
           more == [m \in Ids |-> (cut[m] * excess) \div room]
<1>1. cut \in Figures /\ \A m \in Ids : cut[m] \in Nat
  BY DEF Figures
<1>2. room \in Nat \ {0}
  BY <1>1, MembersSum
<1>3. \A m \in Ids : more[m] = (cut[m] * excess) \div room /\ more[m] \in Nat
  <2> SUFFICES ASSUME NEW m \in Ids PROVE (cut[m] * excess) \div room \in Nat
    OBVIOUS
  <2>1. PICK x \in Nat, d \in Nat \ {0} : x = cut[m] /\ d = room
    BY <1>2
  <2>2. (x * excess) \div d \in Nat
    BY PartOfWeight
  <2> QED
    BY <2>1, <2>2
<1>4. more \in Figures
  BY <1>3 DEF Figures
<1>5. \A m \in Ids : u[m] = IF m \in free THEN cut[m] + more[m] ELSE cut[m]
  OBVIOUS
<1>6. u = [m \in Ids |-> IF m \in free THEN cut[m] + more[m] ELSE cut[m]]
  OBVIOUS
<1> HIDE DEF more
<1>7. u \in [Ids -> Nat] /\ u \in Figures
  <2>1. \A m \in Ids : (IF m \in free THEN cut[m] + more[m] ELSE cut[m]) \in Nat
    BY <1>1, <1>3
  <2> QED
    BY <1>6, <2>1 DEF Figures
<1>8. \A m \in Ids : u[m] >= cut[m] /\ (m \notin free => u[m] = cut[m])
  BY <1>1, <1>3, <1>5
<1>9. SumOver(u, Ids) = SumOver(cut, Ids) + SumOver(more, free)
  <2>1. \A m \in Ids : Of(u, Ids, m) = Of(cut, Ids, m) + Of(more, free, m)
    BY <1>1, <1>3, <1>5 DEF Of
  <2> QED
    BY <1>1, <1>4, <1>7, <2>1, MembersAdd
<1>10. SumOver(more, free) + SumOver(Ones, free) >= excess /\ SumOver(more, free) \in Int
  <2>1. \A m \in Ids : m \in free => more[m] = (cut[m] * excess) \div SumOver(cut, free)
    BY <1>3
  <2> HIDE DEF room
  <2> QED
    BY <1>4, <2>1, Portions
<1>11. SumOver(cut, Ids) \in Int /\ SumOver(Ones, free) \in Int
  BY <1>1, OnesIs, MembersSum
<1> QED
  BY <1>7, <1>8, <1>9, <1>10, <1>11

LEMMA CapRoundKeeps ==
    ASSUME NEW i \in Inputs, NEW v \in [Ids -> Nat], NEW n \in Nat \ {0},
           NEW a \in CappedSoFar(i, v, n - 1)
    PROVE  CapRound(i, a) \in CappedSoFar(i, v, n)
<1> DEFINE w == a.w
           total  == [f \in Ids |-> FamilyTotal(i, w, f)]
           over   == {f \in Ids : total[f] > i.cap}
           excess == SumOver([f \in Ids |-> total[f] - i.cap], over)
           fixed  == a.fixed \cup over
           cut    == [m \in Ids |-> IF i.family[m] \in over
                                 THEN (w[m] * i.cap) \div total[i.family[m]] ELSE w[m]]
           free   == {m \in Ids : i.family[m] \notin fixed}
           room   == SumOver(cut, free)
           u      == [m \in Ids |-> IF m \in free /\ room > 0
                                   THEN cut[m] + (cut[m] * excess) \div room ELSE cut[m]]
           b      == [w |-> u, fixed |-> fixed, done |-> room = 0]
<1>1. CapRound(i, a) = IF over = {} \/ a.done THEN a ELSE b
  BY DEF CapRound
<1>2. i.family \in [Ids -> Ids] /\ i.cap \in Nat /\ Count \in Nat
  <2>1. i.family \in [Ids -> Ids] /\ i.cap \in 0 .. One
    BY InputsAreConfigured
  <2>2. Count \in Nat /\ One \in Nat
    BY WeightsAreFine
  <2> QED
    BY <2>1, <2>2
<1>3. /\ w \in [Ids -> Nat] /\ a.fixed \in SUBSET Ids /\ a.fixed \subseteq FamiliesOf(i)
      /\ a = [w |-> w, fixed |-> a.fixed, done |-> a.done] /\ a.done \in BOOLEAN
  BY DEF CappedSoFar, CapState
<1>4. \A f \in Ids : FamilyTotal(i, w, f) \in Nat /\ total[f] = FamilyTotal(i, w, f)
  BY <1>3, FamilyTotals
<1>5. over = {f \in Ids : FamilyTotal(i, w, f) > i.cap}
  OBVIOUS
<1>6. ASSUME a.done PROVE Settled(i, w)
  <2> SUFFICES ASSUME NEW f \in Ids PROVE FamilyTotal(i, w, f) <= i.cap
    BY DEF Settled
  <2>1. CASE f \in a.fixed
    BY <2>1 DEF CappedSoFar
  <2>2. CASE f \notin a.fixed
    <3>1. \A m \in Ids : i.family[m] = f => w[m] = 0
      BY <1>6, <2>2 DEF CappedSoFar
    <3> QED
      BY <1>2, <1>3, <3>1, FamilyTotals
  <2> QED
    BY <2>1, <2>2
<1>7. ASSUME over = {} \/ a.done PROVE a \in CappedSoFar(i, v, n)
  <2>1. Settled(i, w)
    <3>1. CASE over = {}
      <4>1. \A f \in Ids : ~ (FamilyTotal(i, w, f) > i.cap)
        BY <1>5, <3>1
      <4>2. \A f \in Ids : FamilyTotal(i, w, f) <= i.cap
        BY <1>2, <1>4, <4>1
      <4> QED
        BY <4>2 DEF Settled
    <3> QED
      BY <1>6, <1>7, <3>1
  <2> QED
    BY <2>1 DEF CappedSoFar
<1>8. ASSUME over # {}, ~ a.done PROVE b \in CappedSoFar(i, v, n)
  <2> DEFINE gone == {m \in Ids : i.family[m] \in over}
  <2>1. cut = [m \in Ids |-> IF i.family[m] \in over
                           THEN (w[m] * i.cap) \div FamilyTotal(i, w, i.family[m]) ELSE w[m]]
    BY <1>2, <1>4
  <2>2. excess = SumOver([f \in Ids |-> FamilyTotal(i, w, f) - i.cap], over)
    <3>1. [f \in Ids |-> total[f] - i.cap] = [f \in Ids |-> FamilyTotal(i, w, f) - i.cap]
      OBVIOUS
    <3> QED
      BY <3>1
  <2>3. over \in SUBSET Ids /\ over \cap a.fixed = {} /\ over \subseteq FamiliesOf(i)
    <3>1. ASSUME NEW f \in over PROVE f \notin a.fixed /\ f \in FamiliesOf(i)
      <4>1. f \in Ids /\ FamilyTotal(i, w, f) > i.cap
        BY <1>5
      <4>2. f \notin a.fixed
        <5>1. \A k \in a.fixed : FamilyTotal(i, w, k) <= i.cap
          BY DEF CappedSoFar
        <5> QED
          BY <1>2, <1>4, <4>1, <5>1
      <4>3. ~ \A m \in Ids : i.family[m] = f => w[m] = 0
        BY <1>2, <1>3, <1>4, <4>1, FamilyTotals
      <4> QED
        BY <4>2, <4>3 DEF FamiliesOf
    <3>2. over \in SUBSET Ids
      OBVIOUS
    <3> HIDE DEF over
    <3> QED
      BY <3>1, <3>2
  <2>4. /\ \A m \in Ids : m \in free <=> i.family[m] \notin a.fixed /\ m \notin gone
        /\ \A m \in Ids : m \in gone <=> i.family[m] \in over
        /\ gone \in SUBSET Ids /\ free \in SUBSET Ids
    OBVIOUS
  <2>5. fixed = a.fixed \cup over
    OBVIOUS
  <2>6. \A m \in Ids : i.family[m] \notin over => cut[m] = w[m]
    OBVIOUS
  <2>7. u = [m \in Ids |-> IF m \in free /\ room > 0
                        THEN cut[m] + (cut[m] * excess) \div room ELSE cut[m]]
    OBVIOUS
  <2>8. b.w = u /\ b.fixed = fixed /\ b.done = (room = 0) /\ b = [w |-> u, fixed |-> fixed, done |-> (room = 0)]
    OBVIOUS
  <2>9. room = SumOver(cut, free)
    OBVIOUS
  <2> HIDE DEF u, b, cut, excess, free, gone, fixed, room, over, total, w
  <2>10. /\ cut \in [Ids -> Nat] /\ excess \in Nat
         /\ \A f \in over : FamilyTotal(i, cut, f) <= i.cap /\ FamilyTotal(i, cut, f) + Count >= i.cap
         /\ SumOver(cut, Ids) + excess + SumOver(Ones, gone) >= SumOver(w, Ids)
    <3>1. w \in [Ids -> Nat]
      BY <1>3
    <3>2. over = {f \in Ids : FamilyTotal(i, w, f) > i.cap}
      BY <1>5
    <3>3. /\ cut \in [Ids -> Nat] /\ excess \in Nat
          /\ \A f \in over : FamilyTotal(i, cut, f) <= i.cap /\ FamilyTotal(i, cut, f) + Count >= i.cap
          /\ SumOver(cut, Ids) + excess + SumOver(Ones, {m \in Ids : i.family[m] \in over})
               >= SumOver(w, Ids)
      <4>1. CutsOf(i, w, over, cut, excess)
        BY <2>1, <2>2, <3>2 DEF CutsOf
      <4> QED
        BY <3>1, <4>1, CutsLose
    <3> QED
      BY <3>3 DEF gone
  <2>11. cut \in Figures
    BY <2>10 DEF Figures
  <2>12. \A m \in Ids : Of(cut, free, m) >= 0
    BY <2>10 DEF Of
  <2>13. room \in Nat
    BY <2>9, <2>11, <2>12, MembersPositive
  <2>14. /\ u \in [Ids -> Nat] /\ \A m \in Ids : u[m] >= cut[m] /\ (m \notin free => u[m] = cut[m])
         /\ room > 0 => SumOver(u, Ids) + SumOver(Ones, free) >= SumOver(cut, Ids) + excess
         /\ room = 0 => u = cut
    <3>1. CASE room > 0
      <4>1. u = [m \in Ids |-> IF m \in free THEN cut[m] + (cut[m] * excess) \div SumOver(cut, free) ELSE cut[m]]
        BY <2>7, <2>9, <3>1
      <4>2. SumOver(cut, free) > 0
        BY <2>9, <3>1
      <4> QED
        BY <2>4, <2>10, <3>1, <4>1, <4>2, SharesGrow
    <3>2. CASE room = 0
      <4>1. u = cut
        BY <2>7, <2>10, <3>2
      <4> QED
        BY <2>10, <3>2, <4>1
    <3> QED
      BY <2>13, <3>1, <3>2
  <2>15. b \in CapState
    BY <1>3, <2>3, <2>5, <2>8, <2>14 DEF CapState
  <2>16. fixed \subseteq FamiliesOf(i)
    BY <1>3, <2>3, <2>5
  <2>17. ASSUME NEW f \in fixed
         PROVE  FamilyTotal(i, u, f) <= i.cap /\ FamilyTotal(i, u, f) + Count >= i.cap
    <3>0. f \in Ids
      BY <1>3, <2>3, <2>5
    <3>1. \A m \in Ids : m \in OfFamily(i, f) => u[m] = cut[m]
      BY <2>4, <2>5, <2>14 DEF OfFamily
    <3>2. FamilyTotal(i, u, f) = FamilyTotal(i, cut, f)
      <4>1. [m \in Ids |-> IF m \in OfFamily(i, f) THEN u[m] ELSE 0]
              = [m \in Ids |-> IF m \in OfFamily(i, f) THEN cut[m] ELSE 0]
        BY <3>1
      <4> QED
        BY <4>1 DEF FamilyTotal, SumOver
    <3>3. CASE f \in over
      BY <2>10, <3>2, <3>3
    <3>4. CASE f \notin over
      <4>1. \A m \in Ids : m \in OfFamily(i, f) => cut[m] = w[m]
        BY <2>6, <3>4 DEF OfFamily
      <4>2. FamilyTotal(i, cut, f) = FamilyTotal(i, w, f)
        <5>1. [m \in Ids |-> IF m \in OfFamily(i, f) THEN cut[m] ELSE 0]
                = [m \in Ids |-> IF m \in OfFamily(i, f) THEN w[m] ELSE 0]
          BY <4>1
        <5> QED
          BY <5>1 DEF FamilyTotal, SumOver
      <4>3. f \in a.fixed
        BY <2>5, <3>4
      <4>4. FamilyTotal(i, w, f) <= i.cap /\ FamilyTotal(i, w, f) + Count >= i.cap
        BY <4>3 DEF CappedSoFar, w
      <4> QED
        BY <3>2, <4>2, <4>4
    <3> QED
      BY <3>3, <3>4
  <2>18. ASSUME NEW m \in Ids, i.family[m] \notin fixed
         PROVE  u[m] >= v[m] /\ (room = 0 => u[m] = 0)
    <3>1. m \in free /\ cut[m] = w[m] /\ i.family[m] \notin a.fixed
      BY <2>4, <2>5, <2>6, <2>18
    <3>2. w[m] >= v[m]
      BY <3>1 DEF CappedSoFar, w
    <3>3. u[m] >= v[m]
      BY <1>3, <2>10, <2>14, <3>1, <3>2
    <3>4. ASSUME room = 0 PROVE u[m] = 0
      <4>1. cut[m] <= SumOver(cut, free)
        BY <2>11, <2>12, <3>1, PartOfMembers
      <4> QED
        BY <2>9, <2>10, <2>14, <3>4, <4>1
    <3> QED
      BY <3>3, <3>4
  <2>19. Cardinality(a.fixed) \in Nat /\ Cardinality(fixed) \in Nat /\ Cardinality(fixed) >= Cardinality(a.fixed) + 1
    <3>1. PICK f \in over : f \notin a.fixed
      BY <1>8, <2>3
    <3>2. fixed \in SUBSET Ids /\ a.fixed \cup {f} \in SUBSET fixed
      BY <1>3, <2>3, <2>5, <3>1
    <3>3. IsFiniteSet(fixed) /\ Cardinality(fixed) \in Nat /\ IsFiniteSet(a.fixed) /\ Cardinality(a.fixed) \in Nat
      BY <1>3, <3>2, OnesCount
    <3>4. Cardinality(a.fixed \cup {f}) = Cardinality(a.fixed) + 1
      BY <3>1, <3>3, FS_AddElement
    <3>5. Cardinality(a.fixed \cup {f}) <= Cardinality(fixed)
      BY <3>2, <3>3, FS_Subset
    <3> QED
      BY <3>3, <3>4, <3>5
  <2>20. ASSUME room > 0 PROVE SumOver(u, Ids) + Count * Cardinality(fixed) >= SumOver(v, Ids)
    <3>1. SumOver(Ones, free) + SumOver(Ones, gone) <= Count
      <4> DEFINE S == free \cup gone
      <4>1. \A m \in Ids : Of(Ones, S, m) = Of(Ones, free, m) + Of(Ones, gone, m)
        BY <2>4, OnesIs
      <4>2. SumOver(Ones, S) = SumOver(Ones, free) + SumOver(Ones, gone)
        BY <4>1, OnesIs, MembersAdd
      <4>3. SumOver(Ones, S) \in 0 .. Count
        BY OnesIs
      <4> QED
        BY <1>2, <4>2, <4>3
    <3>2. SumOver(w, Ids) + Count * Cardinality(a.fixed) >= SumOver(v, Ids)
      BY <1>8 DEF CappedSoFar, w
    <3>3. PICK U \in Int, C \in Int, W \in Int, V \in Int, x \in Int, y \in Int :
            /\ U = SumOver(u, Ids) /\ C = SumOver(cut, Ids) /\ W = SumOver(w, Ids) /\ V = SumOver(v, Ids)
            /\ x = SumOver(Ones, free) /\ y = SumOver(Ones, gone)
      <4>1. u \in Figures /\ w \in Figures /\ v \in Figures
        BY <1>3, <2>14 DEF Figures
      <4> QED
        BY <2>11, <4>1, OnesIs, MembersSum
    <3>4. PICK p \in Nat, q \in Nat : p = Cardinality(a.fixed) /\ q = Cardinality(fixed) /\ q >= p + 1
      BY <2>19
    <3>5. Count * (p + 1) = Count * p + Count /\ Count * (p + 1) <= Count * q
      <4>1. Count * (p + 1) = Count * p + Count
        BY <1>2
      <4>2. \A j, k \in Nat : j <= k => Count * j <= Count * k
        BY <1>2
      <4> QED
        BY <3>4, <4>1, <4>2
    <3>6. U + x >= C + excess /\ C + excess + y >= W /\ x + y <= Count /\ W + Count * p >= V
      BY <2>10, <2>14, <2>20, <3>1, <3>2, <3>3, <3>4
    <3>7. PICK r \in Int, s \in Int : r = Count * p /\ s = Count * q /\ r + Count <= s
      BY <1>2, <3>5
    <3>8. U + s >= V
      BY <1>2, <2>10, <3>6, <3>7
    <3> QED
      BY <3>3, <3>4, <3>7, <3>8
  <2>21. Cardinality(fixed) >= n
    <3>1. ~ Settled(i, w)
      <4>1. PICK f \in over : TRUE
        BY <1>8
      <4>2. f \in Ids /\ FamilyTotal(i, w, f) > i.cap
        BY <1>5, <4>1
      <4> QED
        BY <1>2, <1>4, <4>2 DEF Settled
    <3>2. Cardinality(a.fixed) >= n - 1
      BY <3>1 DEF CappedSoFar, w
    <3> QED
      BY <2>19, <3>2
  <2>22. ~ b.done => room > 0
    <3>1. ~ b.done => room # 0
      BY <2>8
    <3> QED
      BY <2>13, <3>1
  <2>23. /\ b.fixed \subseteq FamiliesOf(i)
         /\ \A f \in b.fixed : /\ FamilyTotal(i, b.w, f) <= i.cap
                                /\ FamilyTotal(i, b.w, f) + Count >= i.cap
    BY <2>8, <2>16, <2>17
  <2>24. \A m \in Ids : i.family[m] \notin b.fixed => b.w[m] >= v[m] /\ (b.done => b.w[m] = 0)
    BY <2>8, <2>18
  <2>25. ~ b.done => SumOver(b.w, Ids) + Count * Cardinality(b.fixed) >= SumOver(v, Ids)
    BY <2>8, <2>20, <2>22
  <2>26. Cardinality(b.fixed) >= n
    BY <2>8, <2>21
  <2> QED
    BY <2>15, <2>23, <2>24, <2>25, <2>26 DEF CappedSoFar
<1> QED
  BY <1>1, <1>7, <1>8

LEMMA FewerRounds ==
    ASSUME NEW i, NEW v, NEW n \in Nat, NEW a \in CappedSoFar(i, v, n)
    PROVE  a \in CappedSoFar(i, v, 0)
<1>1. a.fixed \in SUBSET Ids
  BY DEF CappedSoFar, CapState
<1>2. Cardinality(a.fixed) >= 0
  BY <1>1, OnesCount
<1> QED
  BY <1>2 DEF CappedSoFar

LEMMA FamilyCapsTake ==
    ASSUME NEW i \in Inputs, NEW v \in [Ids -> Nat]
    PROVE  \E a \in CappedSoFar(i, v, Cardinality(FamiliesOf(i)) + 1) : FamilyCaps(i, v) = a.w
<1> DEFINE N == Cardinality(FamiliesOf(i)) + 1
           a0 == [w |-> v, fixed |-> {}, done |-> FALSE]
           A == CappedSoFar(i, v, 0)
           F == [p \in (1 .. N) \X A |-> CapRound(i, p[2])]
           state == CHOOSE f : f = [n \in 0 .. N |-> IF n = 0 THEN a0 ELSE CapRound(i, f[n - 1])]
<1>1. N \in Nat
  <2>1. FamiliesOf(i) \in SUBSET Ids
    BY InputsAreConfigured DEF FamiliesOf
  <2> QED
    BY <2>1, OnesCount
<1>2. FamilyCaps(i, v) = state[N].w
  BY DEF FamilyCaps, FamiliesOf
<1>3. a0 \in A
  <2>1. a0 \in CapState
    BY DEF CapState
  <2>2. Cardinality({}) = 0
    BY FS_EmptySet
  <2>3. SumOver(v, Ids) + Count * 0 >= SumOver(v, Ids)
    <3>1. v \in Figures
      BY DEF Figures
    <3>2. SumOver(v, Ids) \in Int /\ Count \in Nat
      BY <3>1, MembersSum, WeightsAreFine
    <3> QED
      BY <3>2
  <2>4. \A m \in Ids : v[m] >= v[m]
    OBVIOUS
  <2>5. a0.w = v /\ a0.fixed = {} /\ a0.done = FALSE
    OBVIOUS
  <2>6. Cardinality(a0.fixed) >= 0
    BY <2>2, <2>5
  <2>7. SumOver(a0.w, Ids) + Count * Cardinality(a0.fixed) >= SumOver(v, Ids)
    BY <2>2, <2>3, <2>5
  <2> HIDE DEF a0
  <2> QED
    BY <2>1, <2>4, <2>5, <2>6, <2>7 DEF CappedSoFar
<1>4. \A a \in A : CapRound(i, a) \in A
  <2> SUFFICES ASSUME NEW a \in A PROVE CapRound(i, a) \in A
    OBVIOUS
  <2>1. CapRound(i, a) \in CappedSoFar(i, v, 1)
    <3>1. a \in CappedSoFar(i, v, 1 - 1)
      OBVIOUS
    <3> QED
      BY <3>1, CapRoundKeeps
  <2> QED
    BY <2>1, FewerRounds
<1>5. F \in StepsOn(N, A)
  BY <1>4 DEF StepsOn
<1>6. ASSUME NEW n \in 1 .. N, NEW x \in A PROVE F[<< n, x >>] = CapRound(i, x)
  OBVIOUS
<1> HIDE DEF N, a0, A, F
<1>7. PICK g : Taken(N, A, a0, F, g)
  BY <1>1, <1>3, <1>5, RecursionExists
<1>8. ASSUME NEW n \in 1 .. N PROVE g[n] = CapRound(i, g[n - 1])
  <2>1. n - 1 \in 0 .. N
    BY <1>1
  <2>2. g[n - 1] \in A
    BY <1>7, <2>1 DEF Taken
  <2>3. F[<< n, g[n - 1] >>] = CapRound(i, g[n - 1])
    BY <1>6, <2>2
  <2> QED
    BY <1>7, <2>3 DEF Taken
<1>9. g = [n \in 0 .. N |-> IF n = 0 THEN a0 ELSE CapRound(i, g[n - 1])]
  BY <1>1, <1>7, <1>8 DEF Taken
<1>10. state = [n \in 0 .. N |-> IF n = 0 THEN a0 ELSE CapRound(i, state[n - 1])]
  BY <1>9
<1> HIDE DEF state
<1>11. state[0] = a0 /\ \A n \in 1 .. N : state[n] = CapRound(i, state[n - 1])
  BY <1>1, <1>10
<1> DEFINE J == [n \in 0 .. N |-> CappedSoFar(i, v, n)]
<1>12. state[0] \in J[0]
  BY <1>1, <1>3, <1>11 DEF A
<1>13. ASSUME NEW n \in 1 .. N, state[n - 1] \in J[n - 1] PROVE state[n] \in J[n]
  <2>1. n - 1 \in 0 .. N /\ n \in 0 .. N /\ n \in Nat \ {0}
    BY <1>1
  <2>2. state[n - 1] \in CappedSoFar(i, v, n - 1)
    BY <1>13, <2>1
  <2>3. CapRound(i, state[n - 1]) \in CappedSoFar(i, v, n)
    BY <2>1, <2>2, CapRoundKeeps
  <2> QED
    BY <1>11, <2>1, <2>3
<1>14. state[N] \in J[N]
  <2> HIDE DEF J
  <2>1. \A n \in 0 .. N : state[n] \in J[n]
    BY <1>1, <1>12, <1>13, StepByStep
  <2> QED
    BY <1>1, <2>1
<1>15. state[N] \in CappedSoFar(i, v, N)
  BY <1>1, <1>14
<1> QED
  BY <1>2, <1>15 DEF N

\* No family above the cap, and cash only if all that have any weight are at it.
CapsHold(i, v, w) ==
    /\ \A m \in Ids : FamilyTotal(i, w, i.family[m]) <= i.cap
    /\ \/ SumOver(w, Ids) >= One - Dust
       \/ \A m \in Ids : v[m] > 0 => FamilyTotal(i, w, i.family[m]) >= i.cap - Dust

LEMMA FamilyCapsHold ==
    ASSUME NEW i \in Inputs, NEW v \in Weighted(i)
    PROVE  FamilyCaps(i, v) \in [Ids -> Nat] /\ CapsHold(i, v, FamilyCaps(i, v))
<1> DEFINE k == Cardinality(FamiliesOf(i))
<1>1. v \in [Ids -> Nat] /\ SumOver(v, Ids) + Count >= One /\ v \in Figures
  BY DEF Weighted, Figures
<1>2. PICK a \in CappedSoFar(i, v, k + 1) : FamilyCaps(i, v) = a.w
  BY <1>1, FamilyCapsTake
<1> DEFINE w == a.w
<1>3. i.family \in [Ids -> Ids] /\ i.cap \in Nat /\ Count \in Nat /\ One \in Nat /\ Dust \in Nat
      /\ Dust >= Count * Count + Count
  <2>1. i.family \in [Ids -> Ids] /\ i.cap \in 0 .. One
    BY InputsAreConfigured
  <2>2. Count \in Nat /\ One \in Nat /\ Dust \in Nat /\ Dust >= Count * Count + Count
    BY WeightsAreFine
  <2> QED
    BY <2>1, <2>2
<1>4. w \in [Ids -> Nat] /\ a.fixed \in SUBSET FamiliesOf(i) /\ a.done \in BOOLEAN
  BY DEF CappedSoFar, CapState
<1>5. k \in Nat /\ Cardinality(a.fixed) \in Nat /\ Cardinality(a.fixed) <= k /\ Cardinality(a.fixed) <= Count
  <2>1. FamiliesOf(i) \in SUBSET Ids
    BY <1>3 DEF FamiliesOf
  <2>2. IsFiniteSet(FamiliesOf(i)) /\ k \in Nat
    BY <2>1, OnesCount
  <2>3. Cardinality(a.fixed) <= k
    BY <1>4, <2>2, FS_Subset
  <2>4. a.fixed \in SUBSET Ids
    BY <1>4, <2>1
  <2>5. Cardinality(a.fixed) \in Nat /\ SumOver(Ones, a.fixed) = Cardinality(a.fixed)
    BY <2>4, OnesCount
  <2>6. Cardinality(a.fixed) <= Count
    BY <1>3, <2>5, OnesIs
  <2> HIDE DEF k
  <2> QED
    BY <2>2, <2>3, <2>5, <2>6
<1>6. Settled(i, w)
  <2>1. Settled(i, w) \/ Cardinality(a.fixed) >= k + 1
    BY DEF CappedSoFar
  <2> HIDE DEF k, w
  <2> QED
    BY <1>5, <2>1
<1>7. \A m \in Ids : FamilyTotal(i, w, i.family[m]) <= i.cap
  BY <1>3, <1>6 DEF Settled
<1> DEFINE Room == SumOver(w, Ids) >= One - Dust
<1>8. CASE ~ a.done
  <2>1. SumOver(w, Ids) + Count * Cardinality(a.fixed) >= SumOver(v, Ids)
    BY <1>8 DEF CappedSoFar
  <2>2. PICK c \in Nat, p \in Int, W \in Int, V \in Int :
          /\ c = Cardinality(a.fixed) /\ p = Count * c /\ W = SumOver(w, Ids) /\ V = SumOver(v, Ids)
    <3>1. w \in Figures
      BY <1>4 DEF Figures
    <3> QED
      BY <1>1, <1>3, <1>5, <3>1, MembersSum
  <2>3. p <= Count * Count
    <3>1. \A x, y \in Nat : x <= y => Count * x <= Count * y
      BY <1>3
    <3> QED
      BY <1>3, <1>5, <2>2, <3>1
  <2>4. PICK s \in Int : s = Count * Count
    BY <1>3
  <2>5. W + p >= V /\ V + Count >= One
    BY <1>1, <2>1, <2>2
  <2>6. W >= One - Dust
    BY <1>3, <2>2, <2>3, <2>4, <2>5
  <2>7. Room
    BY <2>2, <2>6
  <2> QED
    BY <1>2, <1>4, <1>7, <2>7 DEF CapsHold
<1>9. CASE a.done
  <2>1. ASSUME NEW m \in Ids, v[m] > 0 PROVE FamilyTotal(i, w, i.family[m]) >= i.cap - Dust
    <3>1. i.family[m] \in a.fixed
      <4> SUFFICES ASSUME i.family[m] \notin a.fixed PROVE FALSE
        OBVIOUS
      <4>1. w[m] >= v[m] /\ w[m] = 0
        BY <1>9 DEF CappedSoFar
      <4> QED
        BY <1>1, <2>1, <4>1
    <3>2. FamilyTotal(i, w, i.family[m]) + Count >= i.cap
      BY <3>1 DEF CappedSoFar
    <3>3. PICK t \in Nat : t = FamilyTotal(i, w, i.family[m])
      BY <1>3, <1>4, FamilyTotals
    <3>4. Count * Count >= 0
      BY <1>3
    <3>5. PICK s \in Nat : s = Count * Count
      BY <1>3
    <3> QED
      BY <1>3, <3>2, <3>3, <3>5
  <2> QED
    BY <1>2, <1>4, <1>7, <2>1 DEF CapsHold
<1> QED
  BY <1>4, <1>8, <1>9

-----------------------------------------------------------------------------
(* The ensemble: the theorem. *)

\* shares are Shared of the input, and capped is what FamilyCaps makes of them.
EnsembleInv ==
    /\ input \in Inputs
    /\ shares = << >> => capped = << >>
    /\ shares # << >> => shares = Shared(input)
    /\ capped # << >> => capped = IF NotANumber \in Range(shares) THEN shares ELSE FamilyCaps(input, shares)

LEMMA EnsembleStep == EnsembleInv /\ [EnsembleNext]_ensembleVars => EnsembleInv'
<1> SUFFICES ASSUME EnsembleInv, [EnsembleNext]_ensembleVars PROVE EnsembleInv'
  OBVIOUS
<1>1. CASE Cluster
  <2>1. input' = input /\ capped' = capped /\ shares = << >> /\ shares' = Shared(input)
    BY <1>1 DEF Cluster
  <2> QED
    BY <2>1 DEF EnsembleInv
<1>2. CASE Cap
  <2>1. /\ input' = input /\ shares' = shares /\ shares # << >>
        /\ capped' = IF NotANumber \in Range(shares) THEN shares ELSE FamilyCaps(input, shares)
    BY <1>2 DEF Cap
  <2> QED
    BY <2>1 DEF EnsembleInv
<1>3. CASE Combine
  <2>1. input' = input /\ shares' = shares /\ capped' = capped
    BY <1>3 DEF Combine
  <2> QED
    BY <2>1 DEF EnsembleInv
<1>4. CASE UNCHANGED ensembleVars
  <2>1. input' = input /\ shares' = shares /\ capped' = capped
    BY <1>4 DEF ensembleVars
  <2> QED
    BY <2>1 DEF EnsembleInv
<1> QED
  BY <1>1, <1>2, <1>3, <1>4 DEF EnsembleNext

LEMMA EnsembleShares == EnsembleInv => WeightsAreShared
<1> SUFFICES ASSUME EnsembleInv PROVE WeightsAreShared
  OBVIOUS
<1>1. input \in Inputs /\ 1 \in Ids
  BY WeightsAreFine DEF EnsembleInv, Ids
<1>2. ASSUME shares # << >>, NotANumber \notin Range(shares) PROVE shares \in Weighted(input)
  <2>1. shares = Shared(input)
    BY <1>2 DEF EnsembleInv
  <2>2. shares # [m \in Ids |-> NotANumber]
    <3> SUFFICES ASSUME shares = [m \in Ids |-> NotANumber] PROVE FALSE
      OBVIOUS
    <3>1. NotANumber \in Range(shares)
      BY <1>1 DEF Range
    <3> QED
      BY <1>2, <3>1
  <2> QED
    BY <1>1, <2>1, <2>2, SharedIs
<1>3. ClonesShareOneWeight
  <2>1. ASSUME NEW a \in Ids, NEW b \in Ids
        PROVE  ClusterOf(input, a) = ClusterOf(input, b) <=>
                 \/ a = b
                 \/ /\ input.enough
                    /\ \A S \in SUBSET Ids : Closed(input.correlated, S) /\ a \in S => b \in S
    <3>1. PICK r \in Rootings :
              /\ \A c \in Ids : ClusterOf(input, c) = {m \in Ids : r[m] = r[c]}
              /\ \A c, d \in Ids : r[c] = r[d] <=>
                    \/ c = d
                    \/ /\ input.enough
                       /\ \A S \in SUBSET Ids : Closed(input.correlated, S) /\ c \in S => d \in S
      BY <1>1, ClustersAre
    <3>2. ClusterOf(input, a) = ClusterOf(input, b) <=> r[a] = r[b]
      BY <3>1
    <3> QED
      BY <3>1, <3>2
  <2>2. ASSUME shares # << >>, NotANumber \notin Range(shares) PROVE ClonesLight(input, shares)
    BY <1>2, <2>2 DEF Weighted
  <2> QED
    BY <2>1, <2>2 DEF ClonesShareOneWeight, ClonesLight
<1>4. FamiliesAreCapped
  <2> SUFFICES ASSUME capped # << >>, NotANumber \notin Range(capped)
               PROVE  CapsHold(input, shares, capped)
    BY DEF FamiliesAreCapped, CapsHold, FamilyTotal
  <2>1. shares # << >>
    BY DEF EnsembleInv
  <2>2. NotANumber \notin Range(shares) /\ capped = FamilyCaps(input, shares)
    BY DEF EnsembleInv
  <2>3. shares \in Weighted(input)
    BY <1>2, <2>1, <2>2
  <2> QED
    BY <1>1, <2>2, <2>3, FamilyCapsHold
<1> QED
  BY <1>3, <1>4 DEF WeightsAreShared

\* For any number of members, any raw weights, correlations, families and cap:
\* members that a chain of correlations connects are one cluster, a cluster weighs
\* no more than its heaviest member would, no family is above the cap, and weight
\* is left in cash only when every family that has any is at the cap.
THEOREM WeightsStay == EnsembleSpec => []WeightsAreShared
<1>1. EnsembleInit => EnsembleInv
  BY DEF EnsembleInit, EnsembleInv
<1>2. EnsembleInv /\ [EnsembleNext]_ensembleVars => EnsembleInv'
  BY EnsembleStep
<1> QED
  BY <1>1, <1>2, EnsembleShares, PTL DEF EnsembleSpec
=============================================================================
