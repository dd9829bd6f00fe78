---------------------------- MODULE BacktestProofs ----------------------------
(***************************************************************************)
(* Theorems about the backtest, for any symbols, prices, targets, costs,   *)
(* timings and delays, and any number of sessions: what is filled was      *)
(* decided before, what is held is what was asked for, and accounts add up;*)
(* about the signals it decides on, for any bars and parameters: they are  *)
(* those of live trading; and about the bars themselves, for any calendar  *)
(* and whatever a vendor sends: those that pass for complete, fresh and    *)
(* adjusted are.                                                           *)
(***************************************************************************)
EXTENDS Backtest, Signals, DataQuality, SequenceTheorems, FiniteSetTheorems, TLAPS

-----------------------------------------------------------------------------
(* Recursion over a sequence and sums. *)

\* A set of natural numbers has a smallest one.
LEMMA Smallest ==
    ASSUME NEW S \in SUBSET Nat, S # {}
    PROVE  \E m \in S : \A k \in S : m <= k
<1>1. \E m \in S : \A k \in S : << k, m >> \notin OpToRel(<, Nat)
  BY WFMin, NatLessThanWellFounded
<1>2. \A k, m \in Nat : << k, m >> \notin OpToRel(<, Nat) => m <= k
  BY DEF OpToRel
<1> QED
  BY <1>1, <1>2

\* A step that is a function can be taken N times.
StepsOn(N, A) == [(1 .. N) \X A -> A]
Taken(N, A, a, F, g) ==
    g \in [0 .. N -> A] /\ g[0] = a /\ \A n \in 1 .. N : g[n] = F[<< n, g[n - 1] >>]

LEMMA RecursionExists ==
    ASSUME NEW A, NEW a \in A, NEW N \in Nat, NEW F \in StepsOn(N, A)
    PROVE  \E g : Taken(N, A, a, F, g)
<1>. USE DEF StepsOn, Taken
<1> DEFINE To(m, g) == g \in [0 .. m -> A] /\ g[0] = a /\ \A n \in 1 .. m : g[n] = F[<< n, g[n - 1] >>]
           S == {m \in 0 .. N : ~ \E g : To(m, g)}
<1>1. SUFFICES S = {}
  <2>1. N \in 0 .. N
    OBVIOUS
  <2> QED
    BY <2>1
<1>. SUFFICES ASSUME S # {} PROVE FALSE
  OBVIOUS
<1>2. PICK m \in S : \A k \in S : m <= k
  <2>1. S \in SUBSET Nat
    OBVIOUS
  <2> HIDE DEF S
  <2> QED
    BY <2>1, Smallest
<1>3. CASE m = 0
  <2>1. To(0, [n \in 0 .. 0 |-> a])
    OBVIOUS
  <2> HIDE DEF To
  <2> QED
    BY <1>2, <1>3, <2>1
<1>4. CASE m # 0
  <2>0. m \in 0 .. N
    BY <1>2
  <2>1. m \in 1 .. N /\ m - 1 \in 0 .. N /\ m - 1 \notin S
    <3> HIDE DEF S
    <3> QED
      BY <1>2, <1>4, <2>0
  <2>2. PICK g : To(m - 1, g)
    BY <2>1
  <2> DEFINE h == [k \in 0 .. m |-> IF k = m THEN F[<< m, g[m - 1] >>] ELSE g[k]]
  <2>3. g[m - 1] \in A
    BY <2>1, <2>2
  <2>4. F[<< m, g[m - 1] >>] \in A
    BY <2>1, <2>3
  <2>5. h \in [0 .. m -> A] /\ h[0] = a
    BY <2>1, <2>2, <2>4
  <2>6. ASSUME NEW n \in 1 .. m PROVE h[n] = F[<< n, h[n - 1] >>]
    <3>1. n - 1 \in 0 .. m /\ n - 1 # m /\ n \in 0 .. m /\ (n # m => n \in 1 .. m - 1)
      BY <2>1
    <3>2. h[n - 1] = g[n - 1]
      BY <3>1
    <3> QED
      BY <2>2, <3>1, <3>2
  <2>7. To(m, h)
    BY <2>5, <2>6
  <2> HIDE DEF To, h
  <2> QED
    BY <1>2, <2>7
<1> QED
  BY <1>3, <1>4

\* Two functions with the same start and the same steps are the same.
LEMMA SumsAgree ==
    ASSUME NEW N \in Nat, NEW s, NEW g, NEW h, g[0] = h[0],
           \A n \in 1 .. N : g[n] = g[n - 1] + s[n],
           \A n \in 1 .. N : h[n] = h[n - 1] + s[n]
    PROVE  g[N] = h[N]
<1> DEFINE S == {m \in 0 .. N : g[m] # h[m]}
<1>1. SUFFICES ASSUME S # {} PROVE FALSE
  OBVIOUS
<1>2. PICK m \in S : \A k \in S : m <= k
  <2>1. S \in SUBSET Nat
    OBVIOUS
  <2> HIDE DEF S
  <2> QED
    BY <1>1, <2>1, Smallest
<1>3. m \in 1 .. N /\ m - 1 \in 0 .. N /\ m - 1 \notin S
  BY <1>2
<1>4. g[m - 1] = h[m - 1]
  BY <1>3
<1> QED
  BY <1>2, <1>3, <1>4

Partial(s, g) == /\ g \in [0 .. Len(s) -> Int] /\ g[0] = 0
                 /\ \A n \in 1 .. Len(s) : g[n] = g[n - 1] + s[n]

LEMMA SumIs ==
    ASSUME NEW s \in Seq(Int)
    PROVE  \E g : Partial(s, g) /\ Summed(s) = g[Len(s)]
<1> DEFINE N == Len(s)
           sum == CHOOSE f : f = [n \in 0 .. N |-> IF n = 0 THEN 0 ELSE f[n - 1] + s[n]]
           F == [p \in (1 .. N) \X Int |-> p[2] + s[p[1]]]
<1>1. N \in Nat /\ \A n \in 1 .. N : s[n] \in Int
  BY LenProperties, ElementOfSeq
<1> HIDE DEF N
<1>2. F \in StepsOn(N, Int)
  BY <1>1 DEF StepsOn
<1> HIDE DEF F
<1>3. PICK g : Taken(N, Int, 0, F, g)
  <2>1. 0 \in Int
    OBVIOUS
  <2> QED
    BY <1>1, <1>2, <2>1, RecursionExists
<1>4. ASSUME NEW n \in 1 .. N PROVE g[n - 1] \in Int /\ g[n] = g[n - 1] + s[n]
  <2>1. n - 1 \in 0 .. N
    BY <1>1
  <2>2. g[n - 1] \in Int /\ << n, g[n - 1] >> \in (1 .. N) \X Int
    BY <1>3, <2>1 DEF Taken
  <2>3. F[<< n, g[n - 1] >>] = g[n - 1] + s[n]
    BY <2>2 DEF F
  <2> QED
    BY <1>3, <2>2, <2>3 DEF Taken
<1>5. g = [n \in 0 .. N |-> IF n = 0 THEN 0 ELSE g[n - 1] + s[n]]
  BY <1>1, <1>3, <1>4 DEF Taken
<1>6. sum = [n \in 0 .. N |-> IF n = 0 THEN 0 ELSE sum[n - 1] + s[n]]
  BY <1>5
<1>7. Summed(s) = sum[N]
  BY DEF Summed, N
<1> HIDE DEF sum
<1>8. sum[0] = 0 /\ \A n \in 1 .. N : sum[n] = sum[n - 1] + s[n]
  BY <1>1, <1>6
<1>9. sum[N] = g[N]
  <2>1. g[0] = 0 /\ \A n \in 1 .. N : g[n] = g[n - 1] + s[n]
    BY <1>3, <1>4 DEF Taken
  <2> QED
    BY <1>1, <1>8, <2>1, SumsAgree
<1>10. Partial(s, g)
  BY <1>3, <1>4 DEF Partial, N, Taken
<1> QED
  BY <1>7, <1>9, <1>10 DEF N

\* Whatever adds up step by step adds up to the sum.
LEMMA SumFrom ==
    ASSUME NEW s \in Seq(Int), NEW g, Partial(s, g)
    PROVE  Summed(s) = g[Len(s)] /\ Summed(s) \in Int
<1> DEFINE N == Len(s)
<1>1. N \in Nat
  BY LenProperties
<1>2. PICK h : Partial(s, h) /\ Summed(s) = h[N]
  BY SumIs
<1>3. /\ h[0] = 0 /\ \A n \in 1 .. N : h[n] = h[n - 1] + s[n]
      /\ g[0] = 0 /\ \A n \in 1 .. N : g[n] = g[n - 1] + s[n]
      /\ g[N] \in Int
  BY <1>1, <1>2 DEF Partial
<1> HIDE DEF N
<1>4. h[N] = g[N]
  <2>1. g[0] = h[0]
    BY <1>3
  <2> QED
    BY <1>1, <1>3, <2>1, SumsAgree
<1> QED
  BY <1>2, <1>3, <1>4 DEF N

LEMMA SumOfNone == Summed(<< >>) = 0
<1>1. << >> \in Seq(Int) /\ Len(<< >>) = 0
  OBVIOUS
<1>2. PICK g : Partial(<< >>, g) /\ Summed(<< >>) = g[Len(<< >>)]
  BY <1>1, SumIs
<1> QED
  BY <1>1, <1>2 DEF Partial

\* A sum after an entry has changed.
LEMMA SumOfChange ==
    ASSUME NEW s \in Seq(Int), NEW t \in Seq(Int), Len(t) = Len(s), NEW i \in 1 .. Len(s),
           \A n \in 1 .. Len(s) : n # i => t[n] = s[n]
    PROVE  Summed(t) = Summed(s) - s[i] + t[i]
<1> DEFINE N == Len(s)
<1>1. N \in Nat /\ s[i] \in Int /\ t[i] \in Int /\ i \in 1 .. N /\ Len(t) = N
  BY LenProperties, ElementOfSeq
<1>2. PICK g : Partial(s, g) /\ Summed(s) = g[N]
  BY SumIs
<1> DEFINE h == [n \in 0 .. N |-> IF n < i THEN g[n] ELSE g[n] - s[i] + t[i]]
<1>3. g \in [0 .. N -> Int] /\ g[0] = 0 /\ \A n \in 1 .. N : g[n] = g[n - 1] + s[n]
  BY <1>2 DEF Partial
<1>4. \A n \in 1 .. N : n # i => t[n] = s[n]
  OBVIOUS
<1>5. \A n \in 1 .. N : s[n] \in Int /\ t[n] \in Int
  BY <1>1, ElementOfSeq
<1> HIDE DEF N
<1>6. h \in [0 .. N -> Int] /\ h[0] = 0
  <2>0. s[i] \in Int /\ t[i] \in Int /\ \A n \in 0 .. N : g[n] \in Int
    BY <1>1, <1>3
  <2>1. \A n \in 0 .. N : g[n] \in Int /\ g[n] - s[i] + t[i] \in Int
    BY <2>0
  <2>2. h \in [0 .. N -> Int]
    BY <2>1
  <2>3. 0 < i /\ 0 \in 0 .. N
    BY <1>1
  <2> QED
    BY <1>3, <2>2, <2>3
<1>7. ASSUME NEW n \in 1 .. N PROVE h[n] = h[n - 1] + t[n]
  <2>0. n \in 0 .. N /\ n - 1 \in 0 .. N
    BY <1>1
  <2>1. n \in 0 .. N /\ n - 1 \in 0 .. N /\ g[n - 1] \in Int /\ g[n] = g[n - 1] + s[n]
    BY <1>3, <2>0
  <2>2. h[n - 1] = (IF n - 1 < i THEN g[n - 1] ELSE g[n - 1] - s[i] + t[i])
    BY <2>1
  <2>3. h[n] = (IF n < i THEN g[n] ELSE g[n] - s[i] + t[i])
    BY <2>1
  <2>4. s[n] \in Int /\ t[n] \in Int /\ (n # i => t[n] = s[n])
    BY <1>4, <1>5
  <2> HIDE DEF h
  <2>5. CASE n < i
    <3>1. n - 1 < i /\ n # i
      BY <1>1, <2>5
    <3> QED
      BY <2>1, <2>2, <2>3, <2>4, <2>5, <3>1
  <2>6. CASE n = i
    <3>1. n - 1 < i /\ ~ (n < i)
      BY <1>1, <2>6
    <3> QED
      BY <2>1, <2>2, <2>3, <2>4, <2>6, <3>1
  <2>7. CASE n > i
    <3>1. ~ (n - 1 < i) /\ ~ (n < i) /\ n # i
      BY <1>1, <2>7
    <3>2. h[n - 1] = g[n - 1] - s[i] + t[i] /\ h[n] = g[n - 1] + s[n] - s[i] + t[i] /\ t[n] = s[n]
      BY <2>1, <2>2, <2>3, <2>4, <3>1
    <3> QED
      BY <1>1, <2>1, <2>4, <3>2
  <2> QED
    BY <1>1, <2>5, <2>6, <2>7
<1>8. Partial(t, h)
  BY <1>1, <1>6, <1>7 DEF Partial, N
<1>9. Summed(t) = h[N] /\ h[N] = g[N] - s[i] + t[i]
  <2>1. Summed(t) = h[N]
    <3> HIDE DEF h
    <3> QED
      BY <1>1, <1>8, SumFrom DEF N
  <2> QED
    BY <1>1, <2>1
<1> QED
  BY <1>2, <1>9

\* One entry more.
LEMMA SumOfAppend ==
    ASSUME NEW s \in Seq(Int), NEW t \in Seq(Int), Len(t) = Len(s) + 1,
           \A n \in 1 .. Len(s) : t[n] = s[n]
    PROVE  Summed(t) = Summed(s) + t[Len(t)]
<1> DEFINE N == Len(s)
<1>1. N \in Nat /\ Len(t) = N + 1
  BY LenProperties
<1>2. PICK g : Partial(t, g) /\ Summed(t) = g[N + 1]
  BY <1>1, SumIs
<1> DEFINE h == [n \in 0 .. N |-> g[n]]
<1>3. g \in [0 .. N + 1 -> Int] /\ g[0] = 0 /\ \A n \in 1 .. N + 1 : g[n] = g[n - 1] + t[n]
  BY <1>1, <1>2 DEF Partial
<1>4. \A n \in 1 .. N : t[n] = s[n]
  OBVIOUS
<1> HIDE DEF N
<1>5. h \in [0 .. N -> Int] /\ h[0] = 0
  BY <1>1, <1>3
<1>6. ASSUME NEW n \in 1 .. N PROVE h[n] = h[n - 1] + s[n]
  <2>1. n \in 0 .. N /\ n - 1 \in 0 .. N /\ n \in 1 .. N + 1
    BY <1>1
  <2> QED
    BY <1>3, <1>4, <2>1
<1>7. Partial(s, h)
  BY <1>5, <1>6 DEF Partial, N
<1>8. Summed(s) = g[N]
  <2>1. Summed(s) = h[N]
    <3> HIDE DEF h
    <3> QED
      BY <1>7, SumFrom DEF N
  <2> QED
    BY <1>1, <2>1
<1>9. g[N + 1] = g[N] + t[N + 1]
  <2>1. N + 1 \in 1 .. N + 1 /\ (N + 1) - 1 = N
    BY <1>1
  <2> QED
    BY <1>3, <2>1
<1> QED
  BY <1>1, <1>2, <1>8, <1>9

\* One entry less.
LEMMA SumOfRemoval ==
    ASSUME NEW s \in Seq(Int), NEW t \in Seq(Int), NEW i \in 1 .. Len(s), Len(t) = Len(s) - 1,
           \A n \in 1 .. Len(t) : t[n] = IF n < i THEN s[n] ELSE s[n + 1]
    PROVE  Summed(t) = Summed(s) - s[i]
<1> DEFINE N == Len(t)
<1>1. N \in Nat /\ Len(s) = N + 1 /\ i \in 1 .. N + 1
  BY LenProperties
<1>2. PICK g : Partial(s, g) /\ Summed(s) = g[N + 1]
  BY <1>1, SumIs
<1> DEFINE h == [n \in 0 .. N |-> IF n < i THEN g[n] ELSE g[n + 1] - s[i]]
<1>3. g \in [0 .. N + 1 -> Int] /\ g[0] = 0 /\ \A n \in 1 .. N + 1 : g[n] = g[n - 1] + s[n]
  BY <1>1, <1>2 DEF Partial
<1>4. \A n \in 1 .. N : t[n] = IF n < i THEN s[n] ELSE s[n + 1]
  OBVIOUS
<1>5. \A n \in 1 .. N + 1 : s[n] \in Int
  BY <1>1, ElementOfSeq
<1> HIDE DEF N
<1>6. h \in [0 .. N -> Int] /\ h[0] = 0
  <2>0. s[i] \in Int
    BY <1>1, <1>5
  <2>1. \A n \in 0 .. N : g[n] \in Int /\ g[n + 1] \in Int
    BY <1>1, <1>3
  <2>2. \A n \in 0 .. N : g[n] \in Int /\ g[n + 1] - s[i] \in Int
    BY <2>0, <2>1
  <2>3. h \in [0 .. N -> Int]
    BY <2>2
  <2>4. 0 < i /\ 0 \in 0 .. N
    BY <1>1
  <2> QED
    BY <1>3, <2>3, <2>4
<1>7. ASSUME NEW n \in 1 .. N PROVE h[n] = h[n - 1] + t[n]
  <2>0. /\ n \in 0 .. N /\ n - 1 \in 0 .. N /\ n \in 1 .. N + 1 /\ n + 1 \in 1 .. N + 1
        /\ (n + 1) - 1 = n /\ (n - 1) + 1 = n /\ n - 1 \in 0 .. N + 1
    BY <1>1
  <2>1. /\ n \in 0 .. N /\ n - 1 \in 0 .. N
        /\ g[n - 1] \in Int /\ g[n] = g[n - 1] + s[n] /\ g[n + 1] = g[n] + s[n + 1]
        /\ s[n] \in Int /\ s[n + 1] \in Int /\ s[i] \in Int
    <3>1. g[n + 1] = g[(n + 1) - 1] + s[n + 1]
      BY <1>3, <2>0
    <3>2. g[n - 1] \in Int /\ g[n] = g[n - 1] + s[n]
      BY <1>3, <2>0
    <3>3. s[n] \in Int /\ s[n + 1] \in Int /\ s[i] \in Int
      BY <1>1, <1>5, <2>0
    <3> QED
      BY <2>0, <3>1, <3>2, <3>3
  <2>2. h[n - 1] = (IF n - 1 < i THEN g[n - 1] ELSE g[n] - s[i])
    BY <2>0
  <2>3. h[n] = (IF n < i THEN g[n] ELSE g[n + 1] - s[i])
    BY <2>0
  <2>4. t[n] = IF n < i THEN s[n] ELSE s[n + 1]
    BY <1>4
  <2> HIDE DEF h
  <2>5. CASE n < i
    BY <1>1, <2>1, <2>2, <2>3, <2>4, <2>5
  <2>6. CASE n = i
    BY <1>1, <2>1, <2>2, <2>3, <2>4, <2>6
  <2>7. CASE n > i
    <3>1. ~ (n - 1 < i) /\ ~ (n < i)
      BY <1>1, <2>7
    <3>2. h[n - 1] = g[n] - s[i] /\ h[n] = g[n + 1] - s[i] /\ t[n] = s[n + 1]
      BY <2>2, <2>3, <2>4, <3>1
    <3>3. PICK u, v, w \in Int : u = g[n] /\ v = s[n + 1] /\ w = s[i]
      <4>1. g[n] \in Int
        BY <1>3, <2>0
      <4>2. s[n + 1] \in Int /\ s[i] \in Int
        BY <2>1, Zenon
      <4> QED
        BY <4>1, <4>2, Zenon
    <3>4. g[n + 1] = u + v /\ h[n - 1] = u - w /\ h[n] = g[n + 1] - w /\ t[n] = v
      BY <2>1, <3>2, <3>3, Zenon
    <3>5. (u + v) - w = (u - w) + v
      OBVIOUS
    <3> QED
      BY <3>4, <3>5, Zenon
  <2> QED
    BY <1>1, <2>5, <2>6, <2>7
<1>8. Partial(t, h)
  BY <1>6, <1>7 DEF Partial, N
<1>9. Summed(t) = h[N]
  <2> HIDE DEF h
  <2> QED
    BY <1>8, SumFrom DEF N
<1>10. h[N] = g[N + 1] - s[i]
  <2>1. CASE N < i
    <3>1. i = N + 1 /\ N + 1 \in 1 .. N + 1 /\ (N + 1) - 1 = N /\ g[N] \in Int /\ s[i] \in Int
      BY <1>1, <1>3, <1>5, <2>1
    <3> QED
      BY <1>1, <1>3, <2>1, <3>1
  <2>2. CASE ~ (N < i)
    BY <1>1, <2>2
  <2> QED
    BY <2>1, <2>2
<1> QED
  BY <1>2, <1>9, <1>10

-----------------------------------------------------------------------------
(* Sums over symbols, and the figures of lots. *)

LEMMA ListIsASeq ==
    ASSUME NEW S, NEW n \in Nat, NEW f \in [1 .. n -> S]
    PROVE  f \in Seq(S) /\ Len(f) = n
<1>1. f \in Seq(S)
  BY SeqDef
<1>2. DOMAIN f = 1 .. Len(f) /\ Len(f) \in Nat
  BY <1>1, LenProperties
<1>3. 1 .. n = 1 .. Len(f)
  BY <1>2
<1> QED
  BY <1>1, <1>2, <1>3

\* A finite set as a sequence: every element once.
LEMMA SetInASequence ==
    ASSUME NEW S, IsFiniteSet(S)
    PROVE  /\ SetToSeq(S) \in Seq(S)
           /\ \A n, m \in DOMAIN SetToSeq(S) : SetToSeq(S)[n] = SetToSeq(S)[m] => n = m
           /\ \A x \in S : \E n \in DOMAIN SetToSeq(S) : SetToSeq(S)[n] = x
<1> DEFINE N == Cardinality(S)
           q == SetToSeq(S)
<1>1. N \in Nat /\ ExistsBijection(1 .. N, S)
  BY FS_CardinalityType
<1>2. \E f \in [1 .. N -> S] : IsInjective(f)
  BY <1>1 DEF ExistsBijection, Bijection, Injection, IsInjective
<1>3. q \in [1 .. N -> S] /\ IsInjective(q)
  BY <1>2 DEF SetToSeq
<1>4. q \in Seq(S) /\ DOMAIN q = 1 .. N
  BY <1>1, <1>3, ListIsASeq
<1>5. q \in Injection(1 .. N, S)
  BY <1>3 DEF Injection, IsInjective
<1>6. Cardinality(1 .. N) = N
  BY <1>1, FS_Interval
<1>7. q \in Surjection(1 .. N, S)
  <2> HIDE DEF q, N
  <2>1. Cardinality(1 .. N) = Cardinality(S)
    BY <1>6 DEF N
  <2> QED
    BY <1>5, <2>1, FS_Injection
<1>8. \A x \in S : \E n \in 1 .. N : q[n] = x
  BY <1>7 DEF Surjection
<1>9. \A n, m \in DOMAIN q : q[n] = q[m] => n = m
  BY <1>3 DEF IsInjective
<1> QED
  BY <1>4, <1>8, <1>9

LEMMA SymbolsInOrder ==
    /\ SymbolOrder \in Seq(Symbols)
    /\ \A n, m \in DOMAIN SymbolOrder : SymbolOrder[n] = SymbolOrder[m] => n = m
    /\ \A s \in Symbols : \E n \in DOMAIN SymbolOrder : SymbolOrder[n] = s
  BY SetInASequence, BacktestAssumption DEF BacktestAssumption, SymbolOrder

LEMMA SymbolsList ==
    ASSUME NEW f \in [Symbols -> Int]
    PROVE  LET q == [n \in DOMAIN SymbolOrder |-> f[SymbolOrder[n]]]
           IN  /\ q \in Seq(Int) /\ Len(q) = Len(SymbolOrder)
               /\ \A n \in 1 .. Len(SymbolOrder) : q[n] = f[SymbolOrder[n]]
<1> DEFINE N == Len(SymbolOrder)
           q == [n \in DOMAIN SymbolOrder |-> f[SymbolOrder[n]]]
<1>1. N \in Nat /\ DOMAIN SymbolOrder = 1 .. N /\ \A n \in 1 .. N : SymbolOrder[n] \in Symbols
  BY SymbolsInOrder, LenProperties, ElementOfSeq
<1> HIDE DEF N
<1>2. q \in [1 .. N -> Int] /\ \A n \in 1 .. N : q[n] = f[SymbolOrder[n]]
  BY <1>1
<1> HIDE DEF q
<1>3. q \in Seq(Int) /\ Len(q) = N
  BY <1>1, <1>2, ListIsASeq
<1> QED
  BY <1>2, <1>3 DEF N, q

LEMMA SymbolsSumIsInt ==
    ASSUME NEW f \in [Symbols -> Int]
    PROVE  SumSymbols(f) \in Int
<1> DEFINE q == [n \in DOMAIN SymbolOrder |-> f[SymbolOrder[n]]]
<1>1. q \in Seq(Int)
  BY SymbolsList
<1> HIDE DEF q
<1>2. PICK g : Partial(q, g)
  BY <1>1, SumIs
<1>3. Summed(q) \in Int
  BY <1>1, <1>2, SumFrom
<1> QED
  BY <1>3 DEF SumSymbols, q

\* A sum over the symbols after the entry of one has changed.
LEMMA SymbolsSumOfChange ==
    ASSUME NEW f \in [Symbols -> Int], NEW h \in [Symbols -> Int], NEW a \in Symbols,
           \A s \in Symbols : s # a => h[s] = f[s]
    PROVE  SumSymbols(h) = SumSymbols(f) - f[a] + h[a]
<1> DEFINE N == Len(SymbolOrder)
           q == [n \in DOMAIN SymbolOrder |-> f[SymbolOrder[n]]]
           r == [n \in DOMAIN SymbolOrder |-> h[SymbolOrder[n]]]
<1>1. N \in Nat /\ DOMAIN SymbolOrder = 1 .. N /\ \A n \in 1 .. N : SymbolOrder[n] \in Symbols
  BY SymbolsInOrder, LenProperties, ElementOfSeq
<1>2. PICK i \in 1 .. N : SymbolOrder[i] = a
  BY <1>1, SymbolsInOrder
<1>3. q \in Seq(Int) /\ Len(q) = N /\ \A n \in 1 .. N : q[n] = f[SymbolOrder[n]]
  BY SymbolsList
<1>4. r \in Seq(Int) /\ Len(r) = N /\ \A n \in 1 .. N : r[n] = h[SymbolOrder[n]]
  BY SymbolsList
<1>5. SumSymbols(f) = Summed(q) /\ SumSymbols(h) = Summed(r)
  BY DEF SumSymbols
<1> HIDE DEF N, q, r
<1>6. ASSUME NEW n \in 1 .. N, n # i PROVE r[n] = q[n]
  <2>1. SymbolOrder[n] # SymbolOrder[i]
    BY <1>1, <1>2, <1>6, SymbolsInOrder
  <2>2. SymbolOrder[n] \in Symbols /\ SymbolOrder[n] # a
    BY <1>1, <1>2, <2>1
  <2> QED
    BY <1>3, <1>4, <2>2
<1>7. Summed(r) = Summed(q) - q[i] + r[i]
  BY <1>2, <1>3, <1>4, <1>6, SumOfChange
<1> QED
  BY <1>2, <1>3, <1>4, <1>5, <1>7

LEMMA SymbolsSumOfZeros == SumSymbols([s \in Symbols |-> 0]) = 0
<1> DEFINE f == [s \in Symbols |-> 0]
           q == [n \in DOMAIN SymbolOrder |-> f[SymbolOrder[n]]]
           N == Len(SymbolOrder)
           g == [n \in 0 .. N |-> 0]
<1>1. N \in Nat /\ \A n \in 1 .. N : SymbolOrder[n] \in Symbols
  BY SymbolsInOrder, LenProperties, ElementOfSeq
<1>2. f \in [Symbols -> Int] /\ \A s \in Symbols : f[s] = 0
  OBVIOUS
<1>3. q \in Seq(Int) /\ Len(q) = N /\ \A n \in 1 .. N : q[n] = f[SymbolOrder[n]]
  <2> HIDE DEF f
  <2> QED
    BY <1>2, SymbolsList
<1> HIDE DEF f, q, N
<1>4. Partial(q, g)
  BY <1>1, <1>2, <1>3 DEF Partial
<1>5. Summed(q) = g[N]
  BY <1>3, <1>4, SumFrom
<1> QED
  BY <1>1, <1>5 DEF SumSymbols, q, f

\* Sums of what is not negative.
LEMMA SumIsNat ==
    ASSUME NEW s \in Seq(Int), \A n \in 1 .. Len(s) : s[n] >= 0
    PROVE  Summed(s) \in Nat
<1> DEFINE N == Len(s)
<1>1. N \in Nat /\ \A n \in 1 .. N : s[n] \in Int /\ s[n] >= 0
  BY LenProperties, ElementOfSeq
<1>2. PICK g : Partial(s, g) /\ Summed(s) = g[N]
  BY SumIs
<1>3. g \in [0 .. N -> Int] /\ g[0] = 0 /\ \A n \in 1 .. N : g[n] = g[n - 1] + s[n]
  BY <1>2 DEF Partial
<1> HIDE DEF N
<1> DEFINE S == {m \in 0 .. N : ~ g[m] >= 0}
<1>4. SUFFICES ASSUME S # {} PROVE FALSE
  <2>1. N \in 0 .. N
    BY <1>1
  <2> QED
    BY <1>2, <1>3, <2>1
<1>5. PICK m \in S : \A k \in S : m <= k
  <2>1. S \in SUBSET Nat
    BY <1>1
  <2> HIDE DEF S
  <2> QED
    BY <1>4, <2>1, Smallest
<1>6. m \in 1 .. N /\ m - 1 \in 0 .. N /\ m - 1 \notin S
  BY <1>1, <1>3, <1>5
<1>7. g[m - 1] >= 0 /\ g[m - 1] \in Int
  BY <1>3, <1>6
<1>8. g[m] = g[m - 1] + s[m] /\ s[m] \in Int /\ s[m] >= 0
  BY <1>1, <1>3, <1>6
<1>9. g[m] >= 0
  BY <1>7, <1>8
<1> QED
  BY <1>5, <1>9

\* Lots as the engine keeps them.
Lot == [qty : Nat \ {0}, cost : Int, comm : Int]
Lots == Seq(Lot)

LEMMA LotsList ==
    ASSUME NEW ls \in Lots
    PROVE  /\ Len(ls) \in Nat /\ DOMAIN ls = 1 .. Len(ls)
           /\ \A n \in 1 .. Len(ls) :
                  ls[n] \in Lot /\ ls[n].qty \in Nat \ {0} /\ ls[n].cost \in Int /\ ls[n].comm \in Int
<1> DEFINE L == Lot
<1>1. ls \in Seq(L)
  BY DEF Lots
<1> HIDE DEF L
<1>2. Len(ls) \in Nat /\ DOMAIN ls = 1 .. Len(ls) /\ \A n \in 1 .. Len(ls) : ls[n] \in L
  BY <1>1, LenProperties, ElementOfSeq
<1>3. \A l \in L : l.qty \in Nat \ {0} /\ l.cost \in Int /\ l.comm \in Int
  BY DEF L, Lot
<1> QED
  BY <1>2, <1>3 DEF L

\* The quantities, costs and commissions of lots are sequences of numbers.
LEMMA LotFigures ==
    ASSUME NEW ls \in Lots
    PROVE  LET q == [n \in DOMAIN ls |-> ls[n].qty]
               c == [n \in DOMAIN ls |-> ls[n].cost]
               f == [n \in DOMAIN ls |-> ls[n].comm]
           IN  /\ q \in Seq(Int) /\ Len(q) = Len(ls) /\ \A n \in 1 .. Len(ls) : q[n] = ls[n].qty
               /\ c \in Seq(Int) /\ Len(c) = Len(ls) /\ \A n \in 1 .. Len(ls) : c[n] = ls[n].cost
               /\ f \in Seq(Int) /\ Len(f) = Len(ls) /\ \A n \in 1 .. Len(ls) : f[n] = ls[n].comm
<1> DEFINE N == Len(ls)
           q == [n \in DOMAIN ls |-> ls[n].qty]
           c == [n \in DOMAIN ls |-> ls[n].cost]
           f == [n \in DOMAIN ls |-> ls[n].comm]
<1>1. /\ N \in Nat /\ DOMAIN ls = 1 .. N
      /\ \A n \in 1 .. N : ls[n].qty \in Nat \ {0} /\ ls[n].cost \in Int /\ ls[n].comm \in Int
  BY LotsList
<1> HIDE DEF N
<1>2. q \in [1 .. N -> Int] /\ \A n \in 1 .. N : q[n] = ls[n].qty
  BY <1>1
<1>3. c \in [1 .. N -> Int] /\ \A n \in 1 .. N : c[n] = ls[n].cost
  BY <1>1
<1>4. f \in [1 .. N -> Int] /\ \A n \in 1 .. N : f[n] = ls[n].comm
  BY <1>1
<1> HIDE DEF q, c, f
<1>5. q \in Seq(Int) /\ Len(q) = N
  BY <1>1, <1>2, ListIsASeq
<1>6. c \in Seq(Int) /\ Len(c) = N
  BY <1>1, <1>3, ListIsASeq
<1>7. f \in Seq(Int) /\ Len(f) = N
  BY <1>1, <1>4, ListIsASeq
<1> QED
  BY <1>2, <1>3, <1>4, <1>5, <1>6, <1>7 DEF N, q, c, f

LEMMA NoLots == << >> \in Lots /\ Held(<< >>) = 0 /\ CostOf(<< >>) = 0 /\ FeesOf(<< >>) = 0
<1>1. << >> \in Lots /\ DOMAIN << >> = {}
  BY EmptySeq, LenProperties DEF Lots
<1>2. /\ [n \in DOMAIN << >> |-> << >>[n].qty] = << >>
      /\ [n \in DOMAIN << >> |-> << >>[n].cost] = << >>
      /\ [n \in DOMAIN << >> |-> << >>[n].comm] = << >>
  BY <1>1
<1> QED
  BY <1>1, <1>2, SumOfNone DEF Held, CostOf, FeesOf

\* What a holding, its cost and its commissions are after one more lot.
LEMMA OneLotMore ==
    ASSUME NEW ls \in Lots, NEW l \in Lot
    PROVE  /\ Append(ls, l) \in Lots
           /\ Held(ls) \in Nat /\ CostOf(ls) \in Int /\ FeesOf(ls) \in Int
           /\ Held(Append(ls, l)) = Held(ls) + l.qty
           /\ CostOf(Append(ls, l)) = CostOf(ls) + l.cost
           /\ FeesOf(Append(ls, l)) = FeesOf(ls) + l.comm
<1> DEFINE N == Len(ls)
           ms == Append(ls, l)
           q == [n \in DOMAIN ls |-> ls[n].qty]
           c == [n \in DOMAIN ls |-> ls[n].cost]
           f == [n \in DOMAIN ls |-> ls[n].comm]
           mq == [n \in DOMAIN ms |-> ms[n].qty]
           mc == [n \in DOMAIN ms |-> ms[n].cost]
           mf == [n \in DOMAIN ms |-> ms[n].comm]
<1>1. /\ ms \in Lots /\ Len(ms) = N + 1 /\ ms[N + 1] = l
      /\ \A n \in 1 .. N : ms[n] = ls[n]
  BY AppendProperties DEF Lots
<1>2. N \in Nat /\ \A n \in 1 .. N : ls[n].qty \in Nat
  BY LotsList
<1>3. /\ q \in Seq(Int) /\ Len(q) = N /\ \A n \in 1 .. N : q[n] = ls[n].qty
      /\ c \in Seq(Int) /\ Len(c) = N /\ \A n \in 1 .. N : c[n] = ls[n].cost
      /\ f \in Seq(Int) /\ Len(f) = N /\ \A n \in 1 .. N : f[n] = ls[n].comm
  BY LotFigures
<1>4. /\ mq \in Seq(Int) /\ Len(mq) = Len(ms) /\ \A n \in 1 .. Len(ms) : mq[n] = ms[n].qty
      /\ mc \in Seq(Int) /\ Len(mc) = Len(ms) /\ \A n \in 1 .. Len(ms) : mc[n] = ms[n].cost
      /\ mf \in Seq(Int) /\ Len(mf) = Len(ms) /\ \A n \in 1 .. Len(ms) : mf[n] = ms[n].comm
  <2> HIDE DEF ms, mq, mc, mf
  <2> QED
    BY <1>1, LotFigures DEF mq, mc, mf
<1>5. /\ Held(ls) = Summed(q) /\ CostOf(ls) = Summed(c) /\ FeesOf(ls) = Summed(f)
      /\ Held(ms) = Summed(mq) /\ CostOf(ms) = Summed(mc) /\ FeesOf(ms) = Summed(mf)
  BY DEF Held, CostOf, FeesOf
<1> HIDE DEF N, ms, q, c, f, mq, mc, mf
<1>6. Len(ms) = N + 1 /\ N + 1 \in 1 .. N + 1 /\ \A n \in 1 .. N : n \in 1 .. N + 1
  BY <1>1, <1>2
<1>7. mq[N + 1] = l.qty /\ mc[N + 1] = l.cost /\ mf[N + 1] = l.comm
  <2>1. ms[N + 1] = l
    BY <1>1
  <2>2. \A n \in 1 .. N + 1 : mq[n] = ms[n].qty /\ mc[n] = ms[n].cost /\ mf[n] = ms[n].comm
    BY <1>4, <1>6
  <2> QED
    BY <1>6, <2>1, <2>2
<1>8. \A n \in 1 .. N : mq[n] = q[n] /\ mc[n] = c[n] /\ mf[n] = f[n]
  <2> SUFFICES ASSUME NEW n \in 1 .. N
               PROVE  mq[n] = q[n] /\ mc[n] = c[n] /\ mf[n] = f[n]
    OBVIOUS
  <2>1. ms[n] = ls[n] /\ n \in 1 .. Len(ms)
    BY <1>1, <1>6
  <2>2. mq[n] = ms[n].qty /\ mc[n] = ms[n].cost /\ mf[n] = ms[n].comm
    BY <1>4, <2>1
  <2>3. q[n] = ls[n].qty /\ c[n] = ls[n].cost /\ f[n] = ls[n].comm
    BY <1>3
  <2> QED
    BY <2>1, <2>2, <2>3
<1>9. /\ q \in Seq(Int) /\ Len(q) = N /\ mq \in Seq(Int) /\ Len(mq) = N + 1
      /\ c \in Seq(Int) /\ Len(c) = N /\ mc \in Seq(Int) /\ Len(mc) = N + 1
      /\ f \in Seq(Int) /\ Len(f) = N /\ mf \in Seq(Int) /\ Len(mf) = N + 1
  BY <1>3, <1>4, <1>6
<1>10. /\ Summed(mq) = Summed(q) + mq[N + 1]
       /\ Summed(mc) = Summed(c) + mc[N + 1]
       /\ Summed(mf) = Summed(f) + mf[N + 1]
  <2>1. Summed(mq) = Summed(q) + mq[N + 1]
    BY <1>8, <1>9, SumOfAppend
  <2>2. Summed(mc) = Summed(c) + mc[N + 1]
    BY <1>8, <1>9, SumOfAppend
  <2>3. Summed(mf) = Summed(f) + mf[N + 1]
    BY <1>8, <1>9, SumOfAppend
  <2> QED
    BY <2>1, <2>2, <2>3
<1>11. Summed(q) \in Nat
  <2>1. ASSUME NEW n \in 1 .. N PROVE q[n] \in Nat
    <3>1. q[n] = ls[n].qty
      BY <1>3
    <3>2. ls[n].qty \in Nat
      BY <1>2
    <3> QED
      BY <3>1, <3>2
  <2>2. \A n \in 1 .. Len(q) : q[n] >= 0
    BY <1>9, <2>1
  <2> QED
    BY <1>9, <2>2, SumIsNat
<1>12. Summed(c) \in Int /\ Summed(f) \in Int
  BY <1>9, SumIs, SumFrom
<1>13. ms \in Lots
  BY <1>1
<1> QED
  BY <1>5, <1>7, <1>10, <1>11, <1>12, <1>13 DEF ms

-----------------------------------------------------------------------------
(* Selling from lots. *)

LEMMA ShareIsInt ==
    ASSUME NEW total \in Int, NEW part \in Int, NEW whole \in Nat \ {0}
    PROVE  Share(total, part, whole) \in Int
<1>1. PICK x \in Int : x = total * part
  OBVIOUS
<1>2. x \div whole \in Int
  OBVIOUS
<1> QED
  BY <1>1, <1>2 DEF Share

\* A sale, and how far it is: what is left to sell and to share out.
Sale == [qty : Nat \ {0}, gain : Int, comm : Int]
Progress == [lots : Lots, qty : Nat, gain : Int, comm : Int, gross : Int, fees : Int, pnl : Int]

\* What is left of lots, proceeds and commissions, and what was accounted for.
Accounted(a, b, qty, cost, comm) ==
    /\ Held(b.lots) = Held(a.lots) + qty - (a.qty - b.qty)
    /\ b.gross - a.gross = (a.gain - b.gain) - (CostOf(a.lots) + cost - CostOf(b.lots))
    /\ b.fees - a.fees = (a.comm - b.comm) + (FeesOf(a.lots) + comm - FeesOf(b.lots))
    /\ b.pnl - a.pnl = (b.gross - a.gross) - (b.fees - a.fees)
\* Proceeds are shared out to the end, and lots are left only after the sale.
Fair(b) == /\ b.qty = 0 => b.gain = 0 /\ b.comm = 0
           /\ b.qty # 0 => b.lots = << >>

\* One lot gives its part, whether it is sold whole or in part.
LEMMA PieceIsFair ==
    ASSUME NEW a \in Progress, NEW lot \in Lot, NEW fill \in Sale, a.qty # 0, a.lots = << >>
    PROVE  LET b == Piece(a, lot, fill)
           IN  b \in Progress /\ Accounted(a, b, lot.qty, lot.cost, lot.comm) /\ Fair(b)
<1> DEFINE take  == IF a.qty < lot.qty THEN a.qty ELSE lot.qty
           whole == take = lot.qty
           cost  == IF whole THEN lot.cost ELSE Share(lot.cost, take, lot.qty)
           buyc  == IF whole THEN lot.comm ELSE Share(lot.comm, take, lot.qty)
           gain  == IF take = a.qty THEN a.gain ELSE Share(fill.gain, take, fill.qty)
           comm  == IF take = a.qty THEN a.comm ELSE Share(fill.comm, take, fill.qty)
           left  == [qty |-> lot.qty - take, cost |-> lot.cost - cost, comm |-> lot.comm - buyc]
           ls    == IF whole THEN a.lots ELSE Append(a.lots, left)
           b     == Piece(a, lot, fill)
<1>1. /\ lot.qty \in Nat \ {0} /\ lot.cost \in Int /\ lot.comm \in Int
      /\ fill.qty \in Nat \ {0} /\ fill.gain \in Int /\ fill.comm \in Int
      /\ a.qty \in Nat \ {0} /\ a.gain \in Int /\ a.comm \in Int
      /\ a.gross \in Int /\ a.fees \in Int /\ a.pnl \in Int
  BY DEF Lot, Sale, Progress
<1>2. /\ b = [lots |-> ls, qty |-> a.qty - take, gain |-> a.gain - gain, comm |-> a.comm - comm,
              gross |-> a.gross + gain - cost, fees |-> a.fees + buyc + comm,
              pnl |-> a.pnl + (gain - cost - buyc - comm)]
      /\ b.lots = ls /\ b.qty = a.qty - take /\ b.gain = a.gain - gain /\ b.comm = a.comm - comm
      /\ b.gross = a.gross + gain - cost /\ b.fees = a.fees + buyc + comm
      /\ b.pnl = a.pnl + (gain - cost - buyc - comm)
  BY DEF Piece
<1>3. /\ take \in Nat \ {0} /\ take <= a.qty /\ take <= lot.qty
      /\ (~ whole => take = a.qty)
  BY <1>1
<1>4. cost \in Int /\ buyc \in Int /\ gain \in Int /\ comm \in Int
  <2> HIDE DEF take
  <2>1. /\ Share(lot.cost, take, lot.qty) \in Int /\ Share(lot.comm, take, lot.qty) \in Int
        /\ Share(fill.gain, take, fill.qty) \in Int /\ Share(fill.comm, take, fill.qty) \in Int
    <3>1. take \in Int
      BY <1>3
    <3> QED
      BY <1>1, <3>1, ShareIsInt
  <2> QED
    BY <1>1, <2>1
<1>5. /\ whole => cost = lot.cost /\ buyc = lot.comm /\ ls = a.lots
      /\ take = a.qty => gain = a.gain /\ comm = a.comm
      /\ ~ whole => ls = Append(a.lots, left)
  OBVIOUS
<1>6. take = lot.qty \/ take = a.qty
  OBVIOUS
<1> HIDE DEF take, cost, buyc, gain, comm, ls, b
<1>7. /\ a.gain - gain \in Int /\ a.comm - comm \in Int
      /\ a.gross + gain - cost \in Int /\ a.fees + buyc + comm \in Int
      /\ a.pnl + (gain - cost - buyc - comm) \in Int
      /\ b.gross - a.gross = (a.gain - b.gain) - (0 + lot.cost - (lot.cost - cost))
      /\ b.fees - a.fees = (a.comm - b.comm) + (0 + lot.comm - (lot.comm - buyc))
      /\ b.pnl - a.pnl = (b.gross - a.gross) - (b.fees - a.fees)
  <2>1. /\ a.gain - gain \in Int /\ a.comm - comm \in Int
        /\ a.gross + gain - cost \in Int /\ a.fees + buyc + comm \in Int
        /\ a.pnl + (gain - cost - buyc - comm) \in Int
        /\ (a.gross + gain - cost) - a.gross
               = (a.gain - (a.gain - gain)) - (0 + lot.cost - (lot.cost - cost))
        /\ (a.fees + buyc + comm) - a.fees
               = (a.comm - (a.comm - comm)) + (0 + lot.comm - (lot.comm - buyc))
        /\ (a.pnl + (gain - cost - buyc - comm)) - a.pnl
               = ((a.gross + gain - cost) - a.gross) - ((a.fees + buyc + comm) - a.fees)
    <3>1. \A x, y \in Int : x - y \in Int /\ x - (x - y) = y
      OBVIOUS
    <3>2. \A x, y, z \in Int :
              /\ x + y - z \in Int /\ x + y + z \in Int
              /\ (x + y - z) - x = y - z /\ (x + y + z) - x = y + z
      OBVIOUS
    <3>3. \A x, y \in Int : 0 + x - (x - y) = y
      OBVIOUS
    <3>4. \A u, x, y, z, p \in Int : 
              /\ u + (x - y - z - p) \in Int
              /\ (u + (x - y - z - p)) - u = (x - y) - (z + p)
      OBVIOUS
    <3>5. a.gain - gain \in Int /\ a.gain - (a.gain - gain) = gain
      BY <1>1, <1>4, <3>1
    <3>6. a.comm - comm \in Int /\ a.comm - (a.comm - comm) = comm
      BY <1>1, <1>4, <3>1
    <3>7. a.gross + gain - cost \in Int /\ (a.gross + gain - cost) - a.gross = gain - cost
      BY <1>1, <1>4, <3>2
    <3>8. a.fees + buyc + comm \in Int /\ (a.fees + buyc + comm) - a.fees = buyc + comm
      BY <1>1, <1>4, <3>2
    <3>9. /\ a.pnl + (gain - cost - buyc - comm) \in Int
          /\ (a.pnl + (gain - cost - buyc - comm)) - a.pnl = (gain - cost) - (buyc + comm)
      BY <1>1, <1>4, <3>4
    <3>10. 0 + lot.cost - (lot.cost - cost) = cost /\ 0 + lot.comm - (lot.comm - buyc) = buyc
      BY <1>1, <1>4, <3>3
    <3>11. buyc + comm = comm + buyc
      BY <1>4
    <3> QED
      BY <3>5, <3>6, <3>7, <3>8, <3>9, <3>10, <3>11, Zenon
  <2> QED
    BY <1>2, <2>1, Zenon
<1>8. a.lots \in Lots /\ Held(a.lots) = 0 /\ CostOf(a.lots) = 0 /\ FeesOf(a.lots) = 0
  BY NoLots
<1>9. /\ ls \in Lots /\ Held(ls) = lot.qty - take
      /\ CostOf(ls) = lot.cost - cost /\ FeesOf(ls) = lot.comm - buyc
  <2>1. CASE whole
    <3>1. ls = a.lots /\ lot.qty - take = 0 /\ lot.cost - cost = 0 /\ lot.comm - buyc = 0
      BY <1>1, <1>5, <2>1
    <3> QED
      BY <1>8, <3>1
  <2>2. CASE ~ whole
    <3>1. lot.qty - take \in Nat \ {0} /\ lot.cost - cost \in Int /\ lot.comm - buyc \in Int
      <4>1. take # lot.qty
        BY <2>2
      <4>2. lot.qty - take \in Nat \ {0}
        BY <1>1, <1>3, <4>1
      <4>3. lot.cost - cost \in Int
        BY <1>1, <1>4
      <4>4. lot.comm - buyc \in Int
        BY <1>1, <1>4
      <4> QED
        BY <4>2, <4>3, <4>4
    <3>2. /\ left \in Lot /\ left.qty = lot.qty - take /\ left.cost = lot.cost - cost
          /\ left.comm = lot.comm - buyc
      BY <3>1 DEF Lot
    <3> HIDE DEF left
    <3>3. /\ ls \in Lots /\ Held(ls) = 0 + left.qty
          /\ CostOf(ls) = 0 + left.cost /\ FeesOf(ls) = 0 + left.comm
      <4>1. ls = Append(a.lots, left)
        BY <1>5, <2>2
      <4>2. left \in Lot /\ a.lots \in Lots
        BY <1>8, <3>2
      <4>3. /\ Append(a.lots, left) \in Lots
            /\ Held(Append(a.lots, left)) = Held(a.lots) + left.qty
            /\ CostOf(Append(a.lots, left)) = CostOf(a.lots) + left.cost
            /\ FeesOf(Append(a.lots, left)) = FeesOf(a.lots) + left.comm
        BY <4>2, OneLotMore, Zenon
      <4> QED
        BY <1>8, <4>1, <4>3, Zenon
    <3> QED
      BY <3>1, <3>2, <3>3
  <2> QED
    BY <2>1, <2>2
<1>10. b \in Progress
  <2>1. a.qty - take \in Nat
    BY <1>1, <1>3
  <2> QED
    BY <1>2, <1>7, <1>9, <2>1 DEF Progress
<1>11. Accounted(a, b, lot.qty, lot.cost, lot.comm)
  <2>1. Held(b.lots) = Held(a.lots) + lot.qty - (a.qty - b.qty)
    BY <1>1, <1>2, <1>3, <1>8, <1>9
  <2>2. CostOf(b.lots) = lot.cost - cost /\ FeesOf(b.lots) = lot.comm - buyc
    BY <1>2, <1>9
  <2> QED
    BY <1>7, <1>8, <2>1, <2>2 DEF Accounted
<1>12. Fair(b)
  <2>1. CASE take = a.qty
    BY <1>1, <1>2, <1>5, <2>1 DEF Fair
  <2>2. CASE take # a.qty
    <3>1. whole /\ b.qty # 0
      BY <1>1, <1>2, <1>3, <1>6, <2>2
    <3> QED
      BY <1>2, <1>5, <3>1 DEF Fair
  <2> QED
    BY <2>1, <2>2
<1> QED
  BY <1>10, <1>11, <1>12 DEF b

\* One lot of a sale: kept when nothing is left to sell.
OneLot(a, lot, fill) ==
    IF a.qty = 0 THEN [a EXCEPT !.lots = Append(@, lot)] ELSE Piece(a, lot, fill)

LEMMA OneLotIsFair ==
    ASSUME NEW a \in Progress, NEW lot \in Lot, NEW fill \in Sale, Fair(a)
    PROVE  LET b == OneLot(a, lot, fill)
           IN  b \in Progress /\ Accounted(a, b, lot.qty, lot.cost, lot.comm) /\ Fair(b)
<1> DEFINE b == OneLot(a, lot, fill)
<1>1. CASE a.qty # 0
  <2>1. a.lots = << >> /\ b = Piece(a, lot, fill)
    BY <1>1 DEF Fair, OneLot
  <2> HIDE DEF b
  <2>2. b \in Progress /\ Accounted(a, b, lot.qty, lot.cost, lot.comm) /\ Fair(b)
    BY <1>1, <2>1, PieceIsFair
  <2> QED
    BY <2>2 DEF b
<1>2. CASE a.qty = 0
  <2>1. /\ a.lots \in Lots /\ a.gain \in Int /\ a.comm \in Int /\ a.gross \in Int /\ a.fees \in Int
        /\ a.pnl \in Int
    BY DEF Progress
  <2> DEFINE ms == Append(a.lots, lot)
  <2>2. /\ b = [a EXCEPT !.lots = ms] /\ b.lots = ms /\ b.qty = 0 /\ b.gain = a.gain
        /\ b.comm = a.comm /\ b.gross = a.gross /\ b.fees = a.fees /\ b.pnl = a.pnl
    BY <1>2 DEF OneLot, Progress
  <2> HIDE DEF b
  <2>3. /\ ms \in Lots /\ Held(ms) = Held(a.lots) + lot.qty
        /\ CostOf(ms) = CostOf(a.lots) + lot.cost /\ FeesOf(ms) = FeesOf(a.lots) + lot.comm
        /\ Held(a.lots) \in Int /\ CostOf(a.lots) \in Int /\ FeesOf(a.lots) \in Int
    BY <2>1, OneLotMore
  <2>4. lot.qty \in Int /\ lot.cost \in Int /\ lot.comm \in Int
    BY DEF Lot
  <2> HIDE DEF ms
  <2>5. b \in Progress
    BY <2>2, <2>3 DEF Progress
  <2>6. \A x \in Int : x - x = 0
    OBVIOUS
  <2>7. \A x, y \in Int : x + y - (x + y) = 0
    OBVIOUS
  <2>8. /\ CostOf(a.lots) + lot.cost - CostOf(b.lots) = 0
        /\ FeesOf(a.lots) + lot.comm - FeesOf(b.lots) = 0
    BY <2>2, <2>3, <2>4, <2>7
  <2>9. /\ b.gross - a.gross = 0 /\ b.fees - a.fees = 0 /\ b.pnl - a.pnl = 0
        /\ a.gain - b.gain = 0 /\ a.comm - b.comm = 0 /\ a.qty - b.qty = 0
    BY <1>2, <2>1, <2>2, <2>6
  <2>10. Held(b.lots) = Held(a.lots) + lot.qty - 0
    BY <2>2, <2>3, <2>4
  <2>11. Accounted(a, b, lot.qty, lot.cost, lot.comm)
    <3>1. 0 - 0 = 0 /\ 0 + 0 = 0
      OBVIOUS
    <3> QED
      BY <2>8, <2>9, <2>10, <3>1, Zenon DEF Accounted
  <2>12. Fair(b)
    BY <1>2, <2>2 DEF Fair
  <2> QED
    BY <2>5, <2>11, <2>12 DEF b
<1> QED
  BY <1>1, <1>2

\* What two stretches account for, the whole accounts for.
LEMMA AccountsCompose ==
    ASSUME NEW a \in Progress, NEW b \in Progress, NEW c \in Progress,
           NEW q \in Int, NEW x \in Int, NEW f \in Int, NEW qq \in Int, NEW xx \in Int, NEW ff \in Int,
           Accounted(a, b, q, x, f), Accounted(b, c, qq, xx, ff)
    PROVE  Accounted(a, c, q + qq, x + xx, f + ff)
<1>1. /\ a.qty \in Int /\ b.qty \in Int /\ c.qty \in Int /\ a.gain \in Int /\ b.gain \in Int
      /\ c.gain \in Int /\ a.comm \in Int /\ b.comm \in Int /\ c.comm \in Int
      /\ a.gross \in Int /\ b.gross \in Int /\ c.gross \in Int
      /\ a.fees \in Int /\ b.fees \in Int /\ c.fees \in Int
      /\ a.pnl \in Int /\ b.pnl \in Int /\ c.pnl \in Int
      /\ a.lots \in Lots /\ b.lots \in Lots /\ c.lots \in Lots
  BY DEF Progress
<1>2. [qty |-> 1, cost |-> 0, comm |-> 0] \in Lot
  BY DEF Lot
<1>3. /\ Held(a.lots) \in Int /\ Held(b.lots) \in Int /\ Held(c.lots) \in Int
      /\ CostOf(a.lots) \in Int /\ CostOf(b.lots) \in Int /\ CostOf(c.lots) \in Int
      /\ FeesOf(a.lots) \in Int /\ FeesOf(b.lots) \in Int /\ FeesOf(c.lots) \in Int
  BY <1>1, <1>2, OneLotMore
<1>4. Held(c.lots) = Held(a.lots) + (q + qq) - (a.qty - c.qty)
  <2>1. Held(b.lots) = Held(a.lots) + q - (a.qty - b.qty)
    BY DEF Accounted
  <2>2. Held(c.lots) = Held(b.lots) + qq - (b.qty - c.qty)
    BY DEF Accounted
  <2>3. \A u, v, w, y, z \in Int : (u + q - (w - y)) + qq - (y - z) = u + (q + qq) - (w - z)
    OBVIOUS
  <2> QED
    BY <1>1, <1>3, <2>1, <2>2, <2>3
<1>5. c.gross - a.gross = (a.gain - c.gain) - (CostOf(a.lots) + (x + xx) - CostOf(c.lots))
  <2>1. /\ b.gross - a.gross = (a.gain - b.gain) - (CostOf(a.lots) + x - CostOf(b.lots))
        /\ c.gross - b.gross = (b.gain - c.gain) - (CostOf(b.lots) + xx - CostOf(c.lots))
    BY DEF Accounted
  <2>2. \A u, v, w \in Int : w - u = (v - u) + (w - v) /\ w - u \in Int
    OBVIOUS
  <2>3. \A u, v, w \in Int : /\ u + (x + xx) - w = (u + x - v) + (v + xx - w)
                           /\ u + x - v \in Int /\ v + xx - w \in Int
    OBVIOUS
  <2>4. \A u, v, w, z \in Int : (u - v) + (w - z) = (w + u) - (v + z)
    OBVIOUS
  <2>5. c.gross - a.gross = (b.gross - a.gross) + (c.gross - b.gross)
    BY <1>1, <2>2
  <2>6. /\ a.gain - c.gain = (b.gain - c.gain) + (a.gain - b.gain)
        /\ a.gain - b.gain \in Int /\ b.gain - c.gain \in Int
    BY <1>1, <2>2
  <2>7. /\ CostOf(a.lots) + (x + xx) - CostOf(c.lots)
             = (CostOf(a.lots) + x - CostOf(b.lots)) + (CostOf(b.lots) + xx - CostOf(c.lots))
        /\ CostOf(a.lots) + x - CostOf(b.lots) \in Int /\ CostOf(b.lots) + xx - CostOf(c.lots) \in Int
    BY <1>3, <2>3
  <2> QED
    BY <2>1, <2>4, <2>5, <2>6, <2>7
<1>6. c.fees - a.fees = (a.comm - c.comm) + (FeesOf(a.lots) + (f + ff) - FeesOf(c.lots))
  <2>1. /\ b.fees - a.fees = (a.comm - b.comm) + (FeesOf(a.lots) + f - FeesOf(b.lots))
        /\ c.fees - b.fees = (b.comm - c.comm) + (FeesOf(b.lots) + ff - FeesOf(c.lots))
    BY DEF Accounted
  <2>2. \A u, v, w \in Int : w - u = (v - u) + (w - v) /\ w - u \in Int
    OBVIOUS
  <2>3. \A u, v, w \in Int : /\ u + (f + ff) - w = (u + f - v) + (v + ff - w)
                           /\ u + f - v \in Int /\ v + ff - w \in Int
    OBVIOUS
  <2>4. \A u, v, w, z \in Int : (u + v) + (w + z) = (w + u) + (v + z)
    OBVIOUS
  <2>5. c.fees - a.fees = (b.fees - a.fees) + (c.fees - b.fees)
    BY <1>1, <2>2
  <2>6. /\ a.comm - c.comm = (b.comm - c.comm) + (a.comm - b.comm)
        /\ a.comm - b.comm \in Int /\ b.comm - c.comm \in Int
    BY <1>1, <2>2
  <2>7. /\ FeesOf(a.lots) + (f + ff) - FeesOf(c.lots)
             = (FeesOf(a.lots) + f - FeesOf(b.lots)) + (FeesOf(b.lots) + ff - FeesOf(c.lots))
        /\ FeesOf(a.lots) + f - FeesOf(b.lots) \in Int /\ FeesOf(b.lots) + ff - FeesOf(c.lots) \in Int
    BY <1>3, <2>3
  <2> QED
    BY <2>1, <2>4, <2>5, <2>6, <2>7
<1>7. c.pnl - a.pnl = (c.gross - a.gross) - (c.fees - a.fees)
  <2>1. b.pnl - a.pnl = (b.gross - a.gross) - (b.fees - a.fees)
    BY DEF Accounted
  <2>2. c.pnl - b.pnl = (c.gross - b.gross) - (c.fees - b.fees)
    BY DEF Accounted
  <2>3. ASSUME NEW g1 \in Int, NEW g2 \in Int, NEW g3 \in Int, NEW p1 \in Int, NEW p2 \in Int,
               NEW p3 \in Int, NEW c1 \in Int, NEW c2 \in Int, NEW c3 \in Int,
               p2 - p1 = (g2 - g1) - (c2 - c1), p3 - p2 = (g3 - g2) - (c3 - c2)
        PROVE  p3 - p1 = (g3 - g1) - (c3 - c1)
    BY <2>3
  <2> QED
    BY <1>1, <2>1, <2>2, <2>3
<1> QED
  BY <1>4, <1>5, <1>6, <1>7 DEF Accounted

Start(fill) == [lots |-> << >>, qty |-> fill.qty, gain |-> fill.gain, comm |-> fill.comm,
                gross |-> 0, fees |-> 0, pnl |-> 0]

\* What Close computes, lot by lot.
SoldBy(ls, fill, sold) ==
    /\ sold[0] = Start(fill)
    /\ \A n \in 1 .. Len(ls) : sold[n] = OneLot(sold[n - 1], ls[n], fill)

LEMMA CloseGoesByLot ==
    ASSUME NEW ls \in Lots, NEW fill \in Sale
    PROVE  \E sold : SoldBy(ls, fill, sold) /\ Close(ls, fill) = sold[Len(ls)]
<1> DEFINE N == Len(ls)
           first == Start(fill)
           one(a, n) == IF a.qty = 0 THEN [a EXCEPT !.lots = Append(@, ls[n])] ELSE Piece(a, ls[n], fill)
           sold == CHOOSE f : f = [n \in 0 .. N |-> IF n = 0 THEN first ELSE one(f[n - 1], n)]
           Fine == {a \in Progress : Fair(a)}
           F == [p \in (1 .. N) \X Fine |-> OneLot(p[2], ls[p[1]], fill)]
<1>1. N \in Nat /\ \A n \in 1 .. N : ls[n] \in Lot
  BY LotsList
<1>2. \A a : \A n : one(a, n) = OneLot(a, ls[n], fill)
  BY DEF OneLot
<1>3. Close(ls, fill) = sold[N]
  BY DEF Close, Start
<1>4. first \in Fine
  <2>1. fill.qty \in Nat \ {0} /\ fill.gain \in Int /\ fill.comm \in Int
    BY DEF Sale
  <2>2. first \in Progress
    BY <2>1, NoLots DEF Start, Progress
  <2> QED
    BY <2>1, <2>2 DEF Fair, Start
<1> HIDE DEF N, first, one
<1>5. F \in StepsOn(N, Fine)
  <2>1. \A a \in Fine : \A n \in 1 .. N : OneLot(a, ls[n], fill) \in Fine
    BY <1>1, OneLotIsFair
  <2> HIDE DEF Fine
  <2> QED
    BY <2>1 DEF StepsOn
<1> HIDE DEF F, Fine
<1>6. PICK g : Taken(N, Fine, first, F, g)
  BY <1>1, <1>4, <1>5, RecursionExists
<1>7. ASSUME NEW n \in 1 .. N PROVE g[n] = one(g[n - 1], n)
  <2>1. n - 1 \in 0 .. N
    BY <1>1
  <2>2. << n, g[n - 1] >> \in (1 .. N) \X Fine
    BY <1>6, <2>1 DEF Taken
  <2>3. F[<< n, g[n - 1] >>] = OneLot(g[n - 1], ls[n], fill)
    BY <2>2 DEF F
  <2> QED
    BY <1>2, <1>6, <2>3 DEF Taken
<1>8. g = [n \in 0 .. N |-> IF n = 0 THEN first ELSE one(g[n - 1], n)]
  <2>1. g \in [0 .. N -> Fine] /\ g[0] = first
    BY <1>6 DEF Taken
  <2>2. ASSUME NEW n \in 0 .. N PROVE g[n] = IF n = 0 THEN first ELSE one(g[n - 1], n)
    <3>1. CASE n = 0
      BY <2>1, <3>1
    <3>2. CASE n # 0
      <4>1. n \in 1 .. N
        BY <1>1, <3>2
      <4> QED
        BY <1>7, <3>2, <4>1
    <3> QED
      BY <3>1, <3>2
  <2> QED
    BY <2>1, <2>2
<1>9. sold = [n \in 0 .. N |-> IF n = 0 THEN first ELSE one(sold[n - 1], n)]
  BY <1>8
<1> HIDE DEF sold
<1>10. sold[0] = first /\ \A n \in 1 .. N : sold[n] = one(sold[n - 1], n)
  BY <1>1, <1>9
<1>11. SoldBy(ls, fill, sold)
  BY <1>2, <1>10 DEF SoldBy, N, first
<1> QED
  BY <1>3, <1>11 DEF N

\* Lots up to one: none, or one more than before.
LEMMA UpToALot ==
    ASSUME NEW ls \in Lots
    PROVE  /\ SubSeq(ls, 1, 0) = << >> /\ SubSeq(ls, 1, Len(ls)) = ls
           /\ \A n \in 1 .. Len(ls) :
                  /\ SubSeq(ls, 1, n - 1) \in Lots
                  /\ SubSeq(ls, 1, n) = Append(SubSeq(ls, 1, n - 1), ls[n])
<1> DEFINE L == Lot
<1>0. ls \in Seq(L)
  BY DEF Lots
<1> HIDE DEF L
<1>1. Len(ls) \in Nat /\ \A n \in 1 .. Len(ls) : ls[n] \in L
  BY <1>0, LenProperties, ElementOfSeq
<1>2. SubSeq(ls, 1, 0) = << >>
  BY SubSeqEmpty
<1>3. SubSeq(ls, 1, Len(ls)) = ls
  BY <1>0, SubSeqFull
<1>4. ASSUME NEW n \in 1 .. Len(ls)
      PROVE  /\ SubSeq(ls, 1, n - 1) \in Seq(L)
             /\ SubSeq(ls, 1, n) = Append(SubSeq(ls, 1, n - 1), ls[n])
  <2>1. n - 1 \in Int /\ n \in Int /\ 1 <= n
    BY <1>1
  <2>2. /\ \A i \in 1 .. n - 1 : ls[i] \in L
        /\ \A i \in 1 .. n : ls[i] \in L
    BY <1>1
  <2>3. SubSeq(ls, 1, n - 1) \in Seq(L)
    BY <2>1, <2>2, SubSeqProperties
  <2>4. SubSeq(ls, 1, n) = Append(SubSeq(ls, 1, n - 1), ls[n])
    BY <1>1, <2>1, <2>2, SubSeqRecursiveSecond
  <2> QED
    BY <2>3, <2>4
<1> QED
  BY <1>2, <1>3, <1>4 DEF Lots, L

\* A sale loses and invents nothing: shares, costs, commissions and proceeds
\* of the lots before it are those after it and what it accounted for; it
\* sells all it should if as much is held.
LEMMA CloseIsFair ==
    ASSUME NEW ls \in Lots, NEW fill \in Sale
    PROVE  LET z == Close(ls, fill)
           IN  /\ z \in Progress /\ Fair(z)
               /\ Accounted(Start(fill), z, Held(ls), CostOf(ls), FeesOf(ls))
<1> DEFINE N == Len(ls)
           P(n) == SubSeq(ls, 1, n)
           ok(a, n) == /\ a \in Progress /\ Fair(a) /\ P(n) \in Lots
                       /\ Accounted(Start(fill), a, Held(P(n)), CostOf(P(n)), FeesOf(P(n)))
<1>1. N \in Nat /\ \A n \in 1 .. N : ls[n] \in Lot
  BY LotsList
<1>2. PICK sold : SoldBy(ls, fill, sold) /\ Close(ls, fill) = sold[N]
  BY CloseGoesByLot
<1>3. /\ P(0) = << >> /\ P(N) = ls
      /\ \A n \in 1 .. N : P(n - 1) \in Lots /\ P(n) = Append(P(n - 1), ls[n])
  BY UpToALot
<1>4. sold[0] = Start(fill) /\ \A n \in 1 .. N : sold[n] = OneLot(sold[n - 1], ls[n], fill)
  BY <1>2 DEF SoldBy
<1>5. Start(fill) \in Progress /\ Fair(Start(fill))
  <2>1. fill.qty \in Nat \ {0} /\ fill.gain \in Int /\ fill.comm \in Int
    BY DEF Sale
  <2>2. Start(fill) \in Progress
    BY <2>1, NoLots DEF Start, Progress
  <2> QED
    BY <2>1, <2>2 DEF Fair, Start
<1> HIDE DEF N, P
<1>6. ok(sold[0], 0)
  <2> DEFINE a == Start(fill)
  <2>1. a.lots = << >> /\ a.qty \in Int /\ a.gain \in Int /\ a.comm \in Int /\ a.gross = 0 /\ a.fees = 0 /\ a.pnl = 0
    BY <1>5 DEF Start, Sale
  <2>2. Held(P(0)) = 0 /\ CostOf(P(0)) = 0 /\ FeesOf(P(0)) = 0 /\ P(0) \in Lots
    BY <1>3, NoLots
  <2>3. Held(a.lots) = 0 /\ CostOf(a.lots) = 0 /\ FeesOf(a.lots) = 0
    BY <2>1, NoLots
  <2> HIDE DEF a
  <2>4. a.qty - a.qty = 0 /\ a.gain - a.gain = 0 /\ a.comm - a.comm = 0
    BY <2>1
  <2>5. Accounted(a, a, 0, 0, 0)
    BY <2>1, <2>3, <2>4 DEF Accounted
  <2> QED
    BY <1>4, <1>5, <2>2, <2>5 DEF a
<1>7. ASSUME NEW n \in 1 .. N, ok(sold[n - 1], n - 1) PROVE ok(sold[n], n)
  <2> DEFINE a == sold[n - 1]
             b == sold[n]
             l == ls[n]
  <2>1. l \in Lot /\ l.qty \in Int /\ l.cost \in Int /\ l.comm \in Int
    BY <1>1 DEF Lot
  <2>2. b = OneLot(a, l, fill) /\ a \in Progress /\ Fair(a)
    BY <1>4, <1>7
  <2>3. P(n - 1) \in Lots /\ P(n) = Append(P(n - 1), l)
    BY <1>3
  <2>4. Accounted(Start(fill), a, Held(P(n - 1)), CostOf(P(n - 1)), FeesOf(P(n - 1)))
    BY <1>7
  <2> HIDE DEF a, b, l
  <2>5. b \in Progress /\ Accounted(a, b, l.qty, l.cost, l.comm) /\ Fair(b)
    BY <2>1, <2>2, OneLotIsFair
  <2>6. /\ P(n) \in Lots
        /\ Held(P(n - 1)) \in Int /\ CostOf(P(n - 1)) \in Int /\ FeesOf(P(n - 1)) \in Int
        /\ Held(P(n)) = Held(P(n - 1)) + l.qty /\ CostOf(P(n)) = CostOf(P(n - 1)) + l.cost
        /\ FeesOf(P(n)) = FeesOf(P(n - 1)) + l.comm
    <3>1. PICK p \in Lots : p = P(n - 1)
      BY <2>3
    <3>2. /\ Append(p, l) \in Lots /\ Held(p) \in Int /\ CostOf(p) \in Int /\ FeesOf(p) \in Int
          /\ Held(Append(p, l)) = Held(p) + l.qty /\ CostOf(Append(p, l)) = CostOf(p) + l.cost
          /\ FeesOf(Append(p, l)) = FeesOf(p) + l.comm
      BY <2>1, OneLotMore
    <3> QED
      BY <2>3, <3>1, <3>2
  <2>7. Accounted(Start(fill), b, Held(P(n)), CostOf(P(n)), FeesOf(P(n)))
    BY <1>5, <2>1, <2>2, <2>4, <2>5, <2>6, AccountsCompose
  <2> QED
    BY <2>5, <2>6, <2>7 DEF b
<1> HIDE DEF ok
<1> DEFINE S == {m \in 0 .. N : ~ ok(sold[m], m)}
<1>8. S = {}
  <2> SUFFICES ASSUME S # {} PROVE FALSE
    OBVIOUS
  <2>1. PICK m \in S : \A k \in S : m <= k
    <3>1. S \in SUBSET Nat
      BY <1>1
    <3> HIDE DEF S
    <3> QED
      BY <3>1, Smallest
  <2>2. m \in 1 .. N /\ m - 1 \in 0 .. N /\ m - 1 \notin S
    BY <1>1, <1>6, <2>1
  <2>3. ok(sold[m - 1], m - 1)
    BY <2>2
  <2> QED
    BY <1>7, <2>1, <2>2, <2>3
<1>9. ok(sold[N], N)
  <2>1. N \in 0 .. N
    BY <1>1
  <2> QED
    BY <1>8, <2>1
<1> QED
  BY <1>2, <1>3, <1>9 DEF ok

\* All that should be sold is, when as much is held.
LEMMA SaleIsWhole ==
    ASSUME NEW ls \in Lots, NEW fill \in Sale, fill.qty <= Held(ls)
    PROVE  LET z == Close(ls, fill)
           IN  /\ z.lots \in Lots /\ z.gross \in Int /\ z.fees \in Int /\ z.pnl \in Int
               /\ Held(z.lots) = Held(ls) - fill.qty
               /\ z.gross = fill.gain - (CostOf(ls) - CostOf(z.lots))
               /\ z.fees = fill.comm + (FeesOf(ls) - FeesOf(z.lots))
               /\ z.pnl = z.gross - z.fees
<1> DEFINE z == Close(ls, fill)
           a == Start(fill)
<1>1. z \in Progress /\ Fair(z) /\ Accounted(a, z, Held(ls), CostOf(ls), FeesOf(ls))
  BY CloseIsFair
<1>2. /\ a.lots = << >> /\ a.qty = fill.qty /\ a.gain = fill.gain /\ a.comm = fill.comm
      /\ a.gross = 0 /\ a.fees = 0 /\ a.pnl = 0
      /\ fill.qty \in Nat \ {0} /\ fill.gain \in Int /\ fill.comm \in Int
  BY DEF Start, Sale
<1> HIDE DEF z, a
<1>3. /\ z.lots \in Lots /\ z.qty \in Nat /\ z.gain \in Int /\ z.comm \in Int /\ z.gross \in Int
      /\ z.fees \in Int /\ z.pnl \in Int
  BY <1>1 DEF Progress
<1>4. Held(a.lots) = 0 /\ CostOf(a.lots) = 0 /\ FeesOf(a.lots) = 0
  BY <1>2, NoLots
<1>5. /\ Held(ls) \in Nat /\ CostOf(ls) \in Int /\ FeesOf(ls) \in Int
      /\ Held(z.lots) \in Nat /\ CostOf(z.lots) \in Int /\ FeesOf(z.lots) \in Int
  <2>1. [qty |-> 1, cost |-> 0, comm |-> 0] \in Lot
    BY DEF Lot
  <2> QED
    BY <1>3, <2>1, OneLotMore
<1>6. Held(z.lots) = 0 + Held(ls) - (fill.qty - z.qty)
  BY <1>1, <1>2, <1>4 DEF Accounted
<1>7. z.qty = 0
  <2> SUFFICES ASSUME z.qty # 0 PROVE FALSE
    OBVIOUS
  <2>1. Held(z.lots) = 0
    BY <1>1, NoLots DEF Fair
  <2>2. PICK x, y, u \in Int : x = z.qty /\ y = Held(ls) /\ u = fill.qty
    BY <1>2, <1>3, <1>5
  <2>3. x > 0 /\ u <= y
    BY <1>3, <2>2
  <2>4. 0 = 0 + y - (u - x)
    BY <1>6, <2>1, <2>2
  <2> QED
    BY <2>3, <2>4
<1>8. z.gain = 0 /\ z.comm = 0
  BY <1>1, <1>7 DEF Fair
<1>9. Held(z.lots) = Held(ls) - fill.qty
  BY <1>2, <1>5, <1>6, <1>7
<1>10. z.gross = fill.gain - (CostOf(ls) - CostOf(z.lots))
  <2>1. z.gross - 0 = (fill.gain - 0) - (0 + CostOf(ls) - CostOf(z.lots))
    BY <1>1, <1>2, <1>4, <1>8 DEF Accounted
  <2>2. \A x, y, u, v \in Int : x - 0 = (y - 0) - (0 + u - v) => x = y - (u - v)
    OBVIOUS
  <2> QED
    BY <1>2, <1>3, <1>5, <2>1, <2>2
<1>11. z.fees = fill.comm + (FeesOf(ls) - FeesOf(z.lots))
  <2>1. z.fees - 0 = (fill.comm - 0) + (0 + FeesOf(ls) - FeesOf(z.lots))
    BY <1>1, <1>2, <1>4, <1>8 DEF Accounted
  <2>2. \A x, y, u, v \in Int : x - 0 = (y - 0) + (0 + u - v) => x = y + (u - v)
    OBVIOUS
  <2> QED
    BY <1>2, <1>3, <1>5, <2>1, <2>2
<1>12. z.pnl = z.gross - z.fees
  <2>1. z.pnl - 0 = (z.gross - 0) - (z.fees - 0)
    BY <1>1, <1>2 DEF Accounted
  <2> QED
    BY <1>3, <2>1
<1> QED
  BY <1>3, <1>9, <1>10, <1>11, <1>12 DEF z

-----------------------------------------------------------------------------
(* Extremes, queues. *)

LEMMA MaxIs ==
    ASSUME NEW T \in SUBSET Int, NEW m \in T, \A x \in T : x <= m
    PROVE  Max(T) = m
<1>1. \A x \in T : x \in Int
  OBVIOUS
<1>2. Max(T) \in T /\ \A y \in T : Max(T) >= y
  BY DEF Max
<1>3. PICK x \in Int : x = Max(T)
  BY <1>1, <1>2
<1>4. x >= m /\ x <= m /\ m \in Int
  BY <1>1, <1>2, <1>3
<1>5. x = m
  BY <1>4
<1> QED
  BY <1>3, <1>5

LEMMA MaxUpTo ==
    ASSUME NEW N \in Nat, NEW T \in SUBSET (0 .. N), T # {}
    PROVE  Max(T) \in T
<1> DEFINE S == {k \in 0 .. N : N - k \in T}
<1>1. PICK k \in S : \A j \in S : k <= j
  <2>1. PICK x \in T : TRUE
    OBVIOUS
  <2>2. N - x \in 0 .. N /\ N - (N - x) = x
    OBVIOUS
  <2>3. N - x \in S
    BY <2>2
  <2>4. S # {} /\ S \in SUBSET Nat
    <3>1. \A y \in S : y \in Nat
      OBVIOUS
    <3> HIDE DEF S
    <3> QED
      BY <2>3, <3>1
  <2> HIDE DEF S
  <2> QED
    BY <2>4, Smallest
<1>2. N - k \in T
  OBVIOUS
<1>3. ASSUME NEW x \in T PROVE x <= N - k
  <2>1. N - x \in S
    <3>1. x \in 0 .. N
      OBVIOUS
    <3>2. N - x \in 0 .. N /\ N - (N - x) = x
      BY <3>1
    <3> QED
      BY <3>2
  <2>2. k <= N - x /\ k \in Int /\ x \in Int
    <3>1. x \in 0 .. N /\ k \in 0 .. N
      OBVIOUS
    <3> HIDE DEF S
    <3> QED
      BY <1>1, <2>1, <3>1
  <2> QED
    BY <2>2
<1>4. T \in SUBSET Int
  OBVIOUS
<1> HIDE DEF S
<1>5. Max(T) = N - k
  BY <1>2, <1>3, <1>4, MaxIs
<1> QED
  BY <1>2, <1>5

LEMMA MinOfTwo ==
    ASSUME NEW a \in Int, NEW b \in Int
    PROVE  Min({a, b}) = IF a <= b THEN a ELSE b
<1>1. Min({a, b}) \in {a, b} /\ \A y \in {a, b} : Min({a, b}) <= y
  <2>1. \E x \in {a, b} : \A y \in {a, b} : x <= y
    OBVIOUS
  <2> QED
    BY <2>1 DEF Min
<1> QED
  BY <1>1

\* A sequence without its i-th entry.
LEMMA Removed ==
    ASSUME NEW S, NEW s \in Seq(S), NEW i \in 1 .. Len(s)
    PROVE  LET t == RemoveAt(s, i)
           IN  /\ t \in Seq(S) /\ Len(t) = Len(s) - 1
               /\ \A n \in 1 .. Len(t) : t[n] = IF n < i THEN s[n] ELSE s[n + 1]
<1> DEFINE N == Len(s)
           a == SubSeq(s, 1, i - 1)
           b == SubSeq(s, i + 1, N)
           t == RemoveAt(s, i)
<1>1. N \in Nat /\ i \in 1 .. N /\ \A n \in 1 .. N : s[n] \in S
  BY LenProperties, ElementOfSeq
<1>2. t = a \o b
  BY DEF RemoveAt
<1> HIDE DEF N
<1>3. a \in Seq(S) /\ Len(a) = i - 1 /\ \A n \in 1 .. i - 1 : a[n] = s[n]
  <2>1. i - 1 \in Int /\ 1 \in Int /\ \A n \in 1 .. i - 1 : s[n] \in S
    BY <1>1
  <2>2. /\ a \in Seq(S) /\ Len(a) = IF 1 <= i - 1 THEN (i - 1) - 1 + 1 ELSE 0
        /\ \A n \in 1 .. (i - 1) - 1 + 1 : a[n] = s[1 + n - 1]
    BY <2>1, SubSeqProperties
  <2>3. \A n \in 1 .. i - 1 : n \in 1 .. (i - 1) - 1 + 1 /\ 1 + n - 1 = n
    BY <1>1
  <2>4. Len(a) = i - 1
    BY <1>1, <2>2
  <2> HIDE DEF a
  <2> QED
    BY <2>2, <2>3, <2>4
<1>4. b \in Seq(S) /\ Len(b) = N - i /\ \A n \in 1 .. N - i : b[n] = s[i + n]
  <2>1. i + 1 \in Int /\ N \in Int /\ \A n \in i + 1 .. N : s[n] \in S
    BY <1>1
  <2>2. /\ b \in Seq(S) /\ Len(b) = IF i + 1 <= N THEN N - (i + 1) + 1 ELSE 0
        /\ \A n \in 1 .. N - (i + 1) + 1 : b[n] = s[(i + 1) + n - 1]
    BY <2>1, SubSeqProperties
  <2>3. \A n \in 1 .. N - i : n \in 1 .. N - (i + 1) + 1 /\ (i + 1) + n - 1 = i + n
    BY <1>1
  <2>4. Len(b) = N - i
    BY <1>1, <2>2
  <2> HIDE DEF b
  <2> QED
    BY <2>2, <2>3, <2>4
<1> HIDE DEF a, b, t
<1>5. /\ t \in Seq(S) /\ Len(t) = Len(a) + Len(b)
      /\ \A n \in 1 .. Len(a) + Len(b) : t[n] = IF n <= Len(a) THEN a[n] ELSE b[n - Len(a)]
  BY <1>2, <1>3, <1>4, ConcatProperties
<1>6. Len(t) = N - 1
  BY <1>1, <1>3, <1>4, <1>5
<1>7. ASSUME NEW n \in 1 .. N - 1 PROVE t[n] = IF n < i THEN s[n] ELSE s[n + 1]
  <2>1. t[n] = IF n <= i - 1 THEN a[n] ELSE b[n - (i - 1)]
    BY <1>3, <1>5, <1>6
  <2>2. CASE n < i
    <3>1. n <= i - 1 /\ n \in 1 .. i - 1
      BY <1>1, <2>2
    <3> QED
      BY <1>3, <2>1, <2>2, <3>1
  <2>3. CASE ~ (n < i)
    <3>1. ~ (n <= i - 1) /\ n - (i - 1) \in 1 .. N - i /\ i + (n - (i - 1)) = n + 1
      BY <1>1, <2>3
    <3> QED
      BY <1>4, <2>1, <2>3, <3>1
  <2> QED
    BY <2>2, <2>3
<1> QED
  BY <1>5, <1>6, <1>7 DEF t, N

-----------------------------------------------------------------------------
(* The inductive invariant. *)

Order == [sym : Symbols, side : {"buy", "sell"}, qty : Nat \ {0}, decided : Int, data : Int,
          session : Nat, point : {"open", "close"}, cap : Nat \cup {-1, -2}]
Orders == Seq(Order)

BackTypes ==
    /\ timing \in {"near_close", "next_open", "next_close", "closing_auction"}
    /\ delay \in Nat /\ today \in Nat \ {0} /\ phase \in {"open", "early", "close", "late", "next"}
    /\ \A n \in 0 .. today : \A s \in Symbols :
           tape[n][s].open \in Prices[s] /\ tape[n][s].close \in Prices[s]
    /\ cash \in Int /\ realized \in Int /\ commissions \in Int /\ interest \in Int
    /\ trips.pnl \in Int /\ trips.comm \in Int
    /\ lots \in [Symbols -> Lots] /\ pending \in Orders /\ marks \in Seq(Int)

\* Every order waits for the point of its timing, and once the point of a
\* session has passed for a later session; each session leaves one mark.
Passed == phase \in {"late", "next"} \/ (phase # "open" /\ FillPoint = "open")
Timed ==
    /\ \A n \in DOMAIN pending :
           /\ pending[n].point = FillPoint
           /\ Passed => pending[n].session > today
    /\ Len(marks) = IF phase \in {"late", "next"} THEN today ELSE today - 1

BackInv == /\ BackTypes /\ Timed /\ NothingIsForeseen /\ LedgerBalances /\ TripsAddUp
           /\ raised # "look-ahead"

LEMMA OrdersList ==
    ASSUME BackTypes
    PROVE  /\ Len(pending) \in Nat /\ DOMAIN pending = 1 .. Len(pending)
           /\ \A n \in 1 .. Len(pending) : pending[n] \in Order
<1> DEFINE O == Order
<1>1. pending \in Seq(O)
  BY DEF BackTypes, Orders
<1> HIDE DEF O
<1>2. Len(pending) \in Nat /\ DOMAIN pending = 1 .. Len(pending) /\ \A n \in 1 .. Len(pending) : pending[n] \in O
  BY <1>1, LenProperties, ElementOfSeq
<1> QED
  BY <1>2 DEF O

LEMMA NextDueIsDue ==
    ASSUME BackTypes, Due # {}
    PROVE  NextDue \in 1 .. Len(pending) /\ NextDue \in Due
<1> DEFINE D == Due
           S == {n \in Due : pending[n].side = "sell"}
           first(n, m) == \/ pending[n].side = "sell" /\ pending[m].side = "buy"
                          \/ pending[n].side = pending[m].side /\ n <= m
<1>1. /\ D \in SUBSET (1 .. Len(pending)) /\ D \in SUBSET Nat
      /\ \A n \in D : pending[n].side \in {"buy", "sell"}
  BY OrdersList DEF Due, Order
<1>2. \E n \in D : \A m \in D : first(n, m)
  <2> HIDE DEF D
  <2>1. CASE S # {}
    <3>1. PICK n \in S : \A k \in S : n <= k
      <4>1. S \in SUBSET Nat
        BY <1>1 DEF D
      <4> HIDE DEF S
      <4> QED
        BY <2>1, <4>1, Smallest
    <3>2. n \in D /\ pending[n].side = "sell"
      BY DEF D
    <3>3. ASSUME NEW m \in D PROVE first(n, m)
      BY <1>1, <3>1, <3>2 DEF D
    <3> HIDE DEF first, S
    <3> QED
      BY <3>2, <3>3
  <2>2. CASE S = {}
    <3>1. PICK n \in D : \A k \in D : n <= k
      <4>1. D # {}
        BY DEF D
      <4> QED
        BY <1>1, <4>1, Smallest
    <3>2. \A m \in D : pending[m].side = "buy"
      BY <1>1, <2>2 DEF D
    <3>3. ASSUME NEW m \in D PROVE first(n, m)
      BY <3>1, <3>2
    <3> HIDE DEF first
    <3> QED
      BY <3>3
  <2> QED
    BY <2>1, <2>2
<1>3. NextDue \in D
  <2>1. NextDue = CHOOSE n \in D : \A m \in D : first(n, m)
    BY DEF NextDue
  <2> HIDE DEF D, first
  <2> QED
    BY <1>2, <2>1
<1> QED
  BY <1>1, <1>3

\* What an order fills: at most what it asks for, of what is held or affordable.
LEMMA FilledIs ==
    ASSUME BackTypes, NEW o \in Order, NEW ref \in Nat
    PROVE  /\ Filled(o, ref) \in 0 .. o.qty
           /\ o.side = "sell" => Filled(o, ref) <= Held(lots[o.sym])
           /\ o.side = "buy" /\ Filled(o, ref) # 0 => BuyCost(Filled(o, ref), ref) <= cash
<1> DEFINE capped == IF o.cap >= 0 THEN Min({o.qty, o.cap}) ELSE o.qty
           q == Filled(o, ref)
           held == Held(lots[o.sym])
<1>1. /\ o.qty \in Nat \ {0} /\ o.cap \in Nat \cup {-1, -2} /\ o.sym \in Symbols
      /\ o.side \in {"buy", "sell"}
  BY DEF Order
<1>2. held \in Nat
  <2>1. [qty |-> 1, cost |-> 0, comm |-> 0] \in Lot
    BY DEF Lot
  <2>2. lots[o.sym] \in Lots
    BY <1>1 DEF BackTypes
  <2> QED
    BY <2>1, <2>2, OneLotMore
<1>3. capped \in 0 .. o.qty
  <2>1. CASE o.cap >= 0
    <3>1. o.cap \in Int /\ o.qty \in Int
      BY <1>1
    <3>2. Min({o.qty, o.cap}) = IF o.qty <= o.cap THEN o.qty ELSE o.cap
      BY <3>1, MinOfTwo
    <3> QED
      BY <1>1, <2>1, <3>1, <3>2
  <2> QED
    BY <1>1, <2>1
<1>4. q = IF o.cap = -2 /\ rejects THEN 0
          ELSE IF o.side = "sell" THEN Min({capped, held}) ELSE Affordable(capped, ref)
  BY DEF Filled
<1> HIDE DEF capped, held, q
<1>5. CASE o.cap = -2 /\ rejects
  BY <1>1, <1>2, <1>4, <1>5 DEF q, held
<1>6. CASE ~ (o.cap = -2 /\ rejects) /\ o.side = "sell"
  <2>1. Min({capped, held}) = IF capped <= held THEN capped ELSE held
    BY <1>2, <1>3, MinOfTwo
  <2>2. q \in 0 .. o.qty /\ q <= held
    BY <1>1, <1>2, <1>3, <1>4, <1>6, <2>1
  <2> QED
    BY <1>6, <2>2 DEF q, held
<1>7. CASE ~ (o.cap = -2 /\ rejects) /\ o.side = "buy"
  <2> DEFINE T == {n \in 0 .. capped : n = 0 \/ BuyCost(n, ref) <= cash}
  <2>1. q = Max(T)
    BY <1>4, <1>7 DEF Affordable
  <2>2. capped \in Nat /\ T \in SUBSET (0 .. capped) /\ 0 \in T
    BY <1>3
  <2>3. q \in T
    <3> HIDE DEF T
    <3> QED
      BY <2>1, <2>2, MaxUpTo
  <2>4. q \in 0 .. o.qty /\ (q # 0 => BuyCost(q, ref) <= cash)
    BY <1>1, <1>3, <2>3
  <2> QED
    BY <1>7, <2>4 DEF q
<1> QED
  BY <1>1, <1>5, <1>6, <1>7

\* What a fill leaves in the books of its symbol and in the accounts.
Booked(o, q, ls) ==
    /\ lots' = [lots EXCEPT ![o.sym] = ls] /\ interest' = interest
    /\ cash' \in Int /\ realized' \in Int /\ commissions' \in Int
    /\ trips'.pnl \in Int /\ trips'.comm \in Int
    /\ Held(ls) = IF o.side = "buy" THEN Held(lots[o.sym]) + q ELSE Held(lots[o.sym]) - q
    /\ cash' + CostOf(ls) - realized' + commissions'
           = cash + CostOf(lots[o.sym]) - realized + commissions
    /\ trips'.comm + FeesOf(ls) - commissions' = trips.comm + FeesOf(lots[o.sym]) - commissions
    /\ trips'.pnl - realized' + trips'.comm = trips.pnl - realized + trips.comm

LEMMA LotsOf ==
    ASSUME BackTypes, NEW s \in Symbols
    PROVE  /\ lots[s] \in Lots
           /\ Held(lots[s]) \in Nat /\ CostOf(lots[s]) \in Int /\ FeesOf(lots[s]) \in Int
<1>1. [qty |-> 1, cost |-> 0, comm |-> 0] \in Lot
  BY DEF Lot
<1>2. lots[s] \in Lots
  BY DEF BackTypes
<1> QED
  BY <1>1, <1>2, OneLotMore

LEMMA CostsAreNumbers == Spread \in Nat /\ Fee \in Nat
  BY BacktestAssumption DEF BacktestAssumption

LEMMA BuyBooks ==
    ASSUME BackTypes, NEW o \in Order, NEW q \in Nat \ {0}, NEW ref \in Nat, o.side = "buy",
           Buy(o, q, ref), interest' = interest
    PROVE  \E ls \in Lots : Booked(o, q, ls)
<1>1. PICK v \in Int : v = q * FillPrice("buy", ref)
  <2>1. FillPrice("buy", ref) \in Int
    BY CostsAreNumbers DEF FillPrice
  <2> QED
    BY <2>1
<1> DEFINE l == [qty |-> q, cost |-> v, comm |-> Fee]
           a == lots[o.sym]
           ls == Append(a, l)
<1>2. o.sym \in Symbols
  BY DEF Order
<1>3. a \in Lots /\ Held(a) \in Int /\ CostOf(a) \in Int /\ FeesOf(a) \in Int
  BY <1>2, LotsOf
<1>4. l \in Lot /\ l.qty = q /\ l.cost = v /\ l.comm = Fee
  BY <1>1, CostsAreNumbers DEF Lot
<1>5. /\ cash' = cash - (v + Fee) /\ lots' = [lots EXCEPT ![o.sym] = ls]
      /\ commissions' = commissions + Fee /\ realized' = realized /\ trips' = trips
  BY <1>1 DEF Buy, BuyCost
<1> HIDE DEF l
<1>6. /\ ls \in Lots /\ Held(ls) = Held(a) + q /\ CostOf(ls) = CostOf(a) + v
      /\ FeesOf(ls) = FeesOf(a) + Fee
  BY <1>3, <1>4, OneLotMore
<1>7. cash \in Int /\ realized \in Int /\ commissions \in Int /\ trips.pnl \in Int /\ trips.comm \in Int
  BY DEF BackTypes
<1>8. cash' \in Int /\ commissions' \in Int
  BY <1>1, <1>5, <1>7, CostsAreNumbers
<1> HIDE DEF ls, a
<1>9. cash' + CostOf(ls) - realized' + commissions' = cash + CostOf(a) - realized + commissions
  <2>1. \A c, x, r, m, f \in Int : (c - (v + f)) + (x + v) - r + (m + f) = c + x - r + m
    BY <1>1
  <2> QED
    BY <1>3, <1>5, <1>6, <1>7, <2>1, CostsAreNumbers
<1>10. trips'.comm + FeesOf(ls) - commissions' = trips.comm + FeesOf(a) - commissions
  <2>1. \A t, x, m, f \in Int : t + (x + f) - (m + f) = t + x - m
    OBVIOUS
  <2> QED
    BY <1>3, <1>5, <1>6, <1>7, <2>1, CostsAreNumbers
<1>11. Booked(o, q, ls)
  BY <1>5, <1>6, <1>7, <1>8, <1>9, <1>10 DEF Booked, a
<1> QED
  BY <1>6, <1>11

LEMMA SellBooks ==
    ASSUME BackTypes, NEW o \in Order, NEW q \in Nat \ {0}, NEW ref \in Nat, o.side # "buy",
           q <= Held(lots[o.sym]), Sell(o, q, ref), interest' = interest
    PROVE  \E ls \in Lots : Booked(o, q, ls)
<1>1. PICK v \in Int : v = q * FillPrice("sell", ref)
  <2>1. FillPrice("sell", ref) \in Int
    BY CostsAreNumbers DEF FillPrice
  <2> QED
    BY <2>1
<1> DEFINE a == lots[o.sym]
           fill == [qty |-> q, gain |-> v, comm |-> Fee]
           z == Close(a, fill)
           ls == z.lots
<1>2. o.sym \in Symbols
  BY DEF Order
<1>3. a \in Lots /\ Held(a) \in Int /\ CostOf(a) \in Int /\ FeesOf(a) \in Int
  BY <1>2, LotsOf
<1>4. fill \in Sale /\ fill.qty = q /\ fill.gain = v /\ fill.comm = Fee
  BY <1>1, CostsAreNumbers DEF Sale
<1>5. /\ cash' = cash + v - Fee /\ lots' = [lots EXCEPT ![o.sym] = ls]
      /\ commissions' = commissions + Fee /\ realized' = realized + z.gross
      /\ trips' = [pnl |-> trips.pnl + z.pnl, comm |-> trips.comm + z.fees]
  BY <1>1 DEF Sell
<1> HIDE DEF fill
<1>6. /\ ls \in Lots /\ z.gross \in Int /\ z.fees \in Int /\ z.pnl \in Int
      /\ Held(ls) = Held(a) - q /\ z.gross = v - (CostOf(a) - CostOf(ls))
      /\ z.fees = Fee + (FeesOf(a) - FeesOf(ls)) /\ z.pnl = z.gross - z.fees
  BY <1>3, <1>4, SaleIsWhole
<1>7. cash \in Int /\ realized \in Int /\ commissions \in Int /\ trips.pnl \in Int /\ trips.comm \in Int
  BY DEF BackTypes
<1>8. CostOf(ls) \in Int /\ FeesOf(ls) \in Int
  <2>1. [qty |-> 1, cost |-> 0, comm |-> 0] \in Lot
    BY DEF Lot
  <2> QED
    BY <1>6, <2>1, OneLotMore
<1>9. trips'.pnl = trips.pnl + z.pnl /\ trips'.comm = trips.comm + z.fees
  BY <1>5
<1> HIDE DEF a, z, ls
<1>10. /\ cash' \in Int /\ commissions' \in Int /\ realized' \in Int
       /\ trips'.pnl \in Int /\ trips'.comm \in Int
  <2>1. \A x, y \in Int : x + y \in Int /\ x - y \in Int
    OBVIOUS
  <2> QED
    BY <1>1, <1>5, <1>6, <1>7, <1>9, <2>1, CostsAreNumbers
<1>11. cash' + CostOf(ls) - realized' + commissions' = cash + CostOf(a) - realized + commissions
  <2>1. PICK c, x, y, r, m, f \in Int : c = cash /\ x = CostOf(a) /\ y = CostOf(ls) /\ r = realized
                                          /\ m = commissions /\ f = Fee
    BY <1>3, <1>7, <1>8, CostsAreNumbers
  <2>2. cash' + CostOf(ls) - realized' + commissions'
            = (cash + v - Fee) + CostOf(ls) - (realized + (v - (CostOf(a) - CostOf(ls)))) + (commissions + Fee)
    BY <1>5, <1>6, Zenon
  <2>3. (cash + v - Fee) + CostOf(ls) - (realized + (v - (CostOf(a) - CostOf(ls)))) + (commissions + Fee)
            = cash + CostOf(a) - realized + commissions
    <3>1. (c + v - f) + y - (r + (v - (x - y))) + (m + f) = c + x - r + m
      BY <1>1
    <3> QED
      BY <2>1, <3>1, Zenon
  <2> QED
    BY <2>2, <2>3, Zenon
<1>12. trips'.comm + FeesOf(ls) - commissions' = trips.comm + FeesOf(a) - commissions
  <2>1. PICK t, x, y, m, f \in Int : t = trips.comm /\ x = FeesOf(a) /\ y = FeesOf(ls)
                                       /\ m = commissions /\ f = Fee
    BY <1>3, <1>7, <1>8, CostsAreNumbers
  <2>2. trips'.comm + FeesOf(ls) - commissions'
            = (trips.comm + (Fee + (FeesOf(a) - FeesOf(ls)))) + FeesOf(ls) - (commissions + Fee)
    BY <1>5, <1>6, <1>9, Zenon
  <2>3. (trips.comm + (Fee + (FeesOf(a) - FeesOf(ls)))) + FeesOf(ls) - (commissions + Fee)
            = trips.comm + FeesOf(a) - commissions
    <3>1. (t + (f + (x - y))) + y - (m + f) = t + x - m
      OBVIOUS
    <3> QED
      BY <2>1, <3>1, Zenon
  <2> QED
    BY <2>2, <2>3, Zenon
<1>13. trips'.pnl - realized' + trips'.comm = trips.pnl - realized + trips.comm
  <2>1. \A p, g, f, r, t \in Int : (p + (g - f)) - (r + g) + (t + f) = p - r + t
    OBVIOUS
  <2> QED
    BY <1>5, <1>6, <1>7, <1>9, <2>1
<1>14. Booked(o, q, ls)
  BY <1>5, <1>6, <1>10, <1>11, <1>12, <1>13 DEF Booked, a
<1> QED
  BY <1>6, <1>14

\* Booked fills keep both ledgers.
LEMMA LedgersAreKept ==
    ASSUME BackTypes, NEW o \in Order, NEW q \in Nat, NEW ls \in Lots, Booked(o, q, ls),
           LedgerBalances, TripsAddUp
    PROVE  lots' \in [Symbols -> Lots] /\ LedgerBalances' /\ TripsAddUp'
<1> DEFINE a == o.sym
           cost == [s \in Symbols |-> CostOf(lots[s])]
           cost1 == [s \in Symbols |-> CostOf(lots'[s])]
           fees == [s \in Symbols |-> FeesOf(lots[s])]
           fees1 == [s \in Symbols |-> FeesOf(lots'[s])]
<1>1. a \in Symbols
  BY DEF Order
<1>2. lots \in [Symbols -> Lots] /\ lots' = [lots EXCEPT ![a] = ls]
  BY DEF BackTypes, Booked
<1>3. lots' \in [Symbols -> Lots] /\ lots'[a] = ls /\ \A s \in Symbols : s # a => lots'[s] = lots[s]
  BY <1>1, <1>2
<1>4. \A m \in Lots : CostOf(m) \in Int /\ FeesOf(m) \in Int
  <2>1. [qty |-> 1, cost |-> 0, comm |-> 0] \in Lot
    BY DEF Lot
  <2> QED
    BY <2>1, OneLotMore
<1>5. /\ cost \in [Symbols -> Int] /\ cost1 \in [Symbols -> Int]
      /\ fees \in [Symbols -> Int] /\ fees1 \in [Symbols -> Int]
  BY <1>2, <1>3, <1>4
<1>6. \A s \in Symbols : s # a => cost1[s] = cost[s] /\ fees1[s] = fees[s]
  BY <1>3
<1>7. /\ cost[a] = CostOf(lots[a]) /\ cost1[a] = CostOf(ls)
      /\ fees[a] = FeesOf(lots[a]) /\ fees1[a] = FeesOf(ls)
  BY <1>1, <1>3
<1>8. /\ cash + SumSymbols(cost) = Capital + realized - commissions + interest
      /\ trips.comm + SumSymbols(fees) = commissions /\ trips.pnl = realized - trips.comm
  BY DEF LedgerBalances, TripsAddUp
<1> HIDE DEF cost, cost1, fees, fees1
<1>9. /\ SumSymbols(cost1) = SumSymbols(cost) - cost[a] + cost1[a]
      /\ SumSymbols(fees1) = SumSymbols(fees) - fees[a] + fees1[a]
  BY <1>1, <1>5, <1>6, SymbolsSumOfChange
<1>10. PICK sc, sf, ca, cb, fa, fb \in Int :
          /\ sc = SumSymbols(cost) /\ sf = SumSymbols(fees) /\ ca = cost[a] /\ cb = cost1[a]
          /\ fa = fees[a] /\ fb = fees1[a]
  BY <1>1, <1>5, SymbolsSumIsInt
<1>11. PICK c, r, m, i, p, t, c1, r1, m1, p1, t1, k \in Int :
          /\ c = cash /\ r = realized /\ m = commissions /\ i = interest /\ p = trips.pnl /\ t = trips.comm
          /\ c1 = cash' /\ r1 = realized' /\ m1 = commissions' /\ p1 = trips'.pnl /\ t1 = trips'.comm
          /\ k = Capital
  <2>1. Capital \in Int
    BY BacktestAssumption DEF BacktestAssumption
  <2> QED
    BY <2>1 DEF BackTypes, Booked
<1>12. /\ c1 + cb - r1 + m1 = c + ca - r + m
       /\ t1 + fb - m1 = t + fa - m
       /\ p1 - r1 + t1 = p - r + t
  <2>1. /\ cash' + CostOf(ls) - realized' + commissions' = cash + CostOf(lots[a]) - realized + commissions
        /\ trips'.comm + FeesOf(ls) - commissions' = trips.comm + FeesOf(lots[a]) - commissions
        /\ trips'.pnl - realized' + trips'.comm = trips.pnl - realized + trips.comm
    BY DEF Booked
  <2> QED
    BY <1>7, <1>10, <1>11, <2>1, Zenon
<1>13. c + sc = k + r - m + i /\ t + sf = m /\ p = r - t
  BY <1>8, <1>10, <1>11, Zenon
<1>14. c1 + (sc - ca + cb) = k + r1 - m1 + i
  BY <1>12, <1>13
<1>15. t1 + (sf - fa + fb) = m1 /\ p1 = r1 - t1
  BY <1>12, <1>13
<1>16. interest' = i
  BY <1>11 DEF Booked
<1>17. /\ cash' + SumSymbols(cost1) = Capital + realized' - commissions' + interest'
       /\ trips'.comm + SumSymbols(fees1) = commissions' /\ trips'.pnl = realized' - trips'.comm
  BY <1>9, <1>10, <1>11, <1>14, <1>15, <1>16, Zenon
<1> QED
  BY <1>3, <1>17 DEF LedgerBalances, TripsAddUp, cost1, fees1

-----------------------------------------------------------------------------
(* Fills. *)

\* The bar an order fills at has a price.
LEMMA PricesOf ==
    ASSUME BackTypes, NEW n \in 0 .. today, NEW s \in Symbols
    PROVE  /\ tape[n][s].open \in Prices[s] /\ tape[n][s].close \in Prices[s]
           /\ tape[n][s].open \in Nat \ {0} /\ tape[n][s].close \in Nat \ {0}
<1>1. tape[n][s].open \in Prices[s] /\ tape[n][s].close \in Prices[s]
  BY DEF BackTypes
<1>2. Prices[s] \in SUBSET (Nat \ {0})
  BY BacktestAssumption DEF BacktestAssumption
<1> QED
  BY <1>1, <1>2

\* The order and price of a fill.
NextOrder == pending[NextDue]
NextPrice == IF phase = "open" THEN tape[today][NextOrder.sym].open ELSE tape[today][NextOrder.sym].close

\* A fill is late enough; what it takes is booked, or nothing is.
LEMMA FillBooks ==
    ASSUME BackTypes, Timed, DataPrecedesFill, Fill
    PROVE  /\ NextDue \in 1 .. Len(pending) /\ NextOrder \in Order
           /\ pending' = RemoveAt(pending, NextDue)
           /\ limited' = (limited \/ Filled(NextOrder, NextPrice) < NextOrder.qty)
           /\ UNCHANGED << timing, delay, rejects, today, phase, tape, marks, asked, seen >>
           /\ raised' = IF cash' < 0 THEN "accounting" ELSE "no"
           /\ Filled(NextOrder, NextPrice) \in 0 .. NextOrder.qty
           /\ \E ls \in Lots : Booked(NextOrder, Filled(NextOrder, NextPrice), ls)
<1> DEFINE o == NextOrder
           ref == NextPrice
           q == Filled(o, ref)
           when == FillTime(today, phase)
<1>1. NextDue \in 1 .. Len(pending) /\ o.session = today /\ o.point = phase
  <2>1. Due # {}
    BY DEF Fill
  <2> QED
    BY <2>1, NextDueIsDue DEF Due, NextOrder
<1>2. o \in Order
  BY <1>1, OrdersList DEF NextOrder
<1>3. ref \in Nat
  <2>1. today \in 0 .. today /\ o.sym \in Symbols
    BY <1>2 DEF BackTypes, Order
  <2> QED
    BY <2>1, PricesOf DEF NextPrice
<1>4. /\ q \in 0 .. o.qty /\ (o.side = "sell" => q <= Held(lots[o.sym]))
  BY <1>2, <1>3, FilledIs
<1>5. ~ (when < o.decided \/ ~ (when > o.data \/ (SameBar /\ when = o.data)))
  <2>1. /\ o.data <= o.decided /\ o.decided <= FillTime(o.session, o.point)
        /\ o.data < FillTime(o.session, o.point) \/ SameBar
    BY <1>1, OrdersList DEF DataPrecedesFill, NextOrder
  <2>2. FillTime(o.session, o.point) = when /\ when \in Int
    BY <1>1 DEF FillTime, OpenAt, CloseAt, BackTypes
  <2>3. PICK d, e, w \in Int : d = o.data /\ e = o.decided /\ w = when
    BY <1>2, <2>2 DEF Order
  <2>4. d <= e /\ e <= w /\ (d < w \/ SameBar)
    BY <2>1, <2>2, <2>3
  <2>5. ~ (w < e) /\ (w > d \/ (SameBar /\ w = d))
    BY <2>4
  <2> QED
    BY <2>3, <2>5
<1>6. /\ pending' = RemoveAt(pending, NextDue) /\ limited' = (limited \/ q < o.qty)
      /\ IF when < o.decided \/ ~ (when > o.data \/ (SameBar /\ when = o.data))
         THEN raised' = "look-ahead" /\ UNCHANGED accounts
         ELSE /\ IF q = 0 THEN UNCHANGED accounts
                 ELSE /\ IF o.side = "buy" THEN Buy(o, q, ref) ELSE Sell(o, q, ref)
                      /\ UNCHANGED interest
              /\ raised' = IF cash' < 0 THEN "accounting" ELSE "no"
      /\ UNCHANGED << timing, delay, rejects, today, phase, tape, marks, asked, seen >>
  BY DEF Fill, NextOrder, NextPrice
<1> HIDE DEF o, ref, q, when
<1>7. /\ raised' = IF cash' < 0 THEN "accounting" ELSE "no"
      /\ IF q = 0 THEN UNCHANGED accounts
         ELSE (IF o.side = "buy" THEN Buy(o, q, ref) ELSE Sell(o, q, ref)) /\ UNCHANGED interest
  BY <1>5, <1>6
<1>8. \E ls \in Lots : Booked(o, q, ls)
  <2>1. CASE q = 0
    <3>1. UNCHANGED accounts
      BY <1>7, <2>1
    <3>2. o.sym \in Symbols
      BY <1>2 DEF Order
    <3> DEFINE a == lots[o.sym]
    <3>3. a \in Lots /\ Held(a) \in Nat
      BY <3>2, LotsOf
    <3>4. lots' = [lots EXCEPT ![o.sym] = a]
      BY <3>1, <3>2 DEF accounts, BackTypes
    <3>5. Held(a) = IF o.side = "buy" THEN Held(a) + q ELSE Held(a) - q
      BY <2>1, <3>3
    <3>6. Booked(o, q, a)
      BY <3>1, <3>4, <3>5 DEF Booked, BackTypes, accounts
    <3> QED
      BY <3>3, <3>6
  <2>2. CASE q # 0 /\ o.side = "buy"
    <3>1. q \in Nat \ {0} /\ Buy(o, q, ref) /\ interest' = interest
      BY <1>2, <1>4, <1>7, <2>2 DEF Order
    <3> QED
      BY <1>2, <1>3, <2>2, <3>1, BuyBooks
  <2>3. CASE q # 0 /\ o.side # "buy"
    <3>1. /\ q \in Nat \ {0} /\ Sell(o, q, ref) /\ interest' = interest /\ q <= Held(lots[o.sym])
      BY <1>2, <1>4, <1>7, <2>3 DEF Order
    <3> QED
      BY <1>2, <1>3, <2>3, <3>1, SellBooks
  <2> QED
    BY <2>1, <2>2, <2>3
<1> QED
  BY <1>1, <1>2, <1>4, <1>6, <1>7, <1>8 DEF o, ref, q

\* What an order does to the holding of a symbol, and all orders in flight.
Signed(o, s) == IF o.sym # s THEN 0 ELSE IF o.side = "buy" THEN o.qty ELSE - o.qty
InFlight(orders, s) == [n \in DOMAIN orders |-> Signed(orders[n], s)]

LEMMA ProjectedIs ==
    ASSUME NEW orders, NEW s
    PROVE  Projected(s, orders) = Held(lots[s]) + Summed(InFlight(orders, s))
  BY DEF Projected, InFlight, Signed

LEMMA InFlightList ==
    ASSUME NEW orders \in Orders, NEW s \in Symbols
    PROVE  /\ InFlight(orders, s) \in Seq(Int) /\ Len(InFlight(orders, s)) = Len(orders)
           /\ \A n \in 1 .. Len(orders) : InFlight(orders, s)[n] = Signed(orders[n], s)
           /\ Summed(InFlight(orders, s)) \in Int
<1> DEFINE O == Order
           N == Len(orders)
           q == InFlight(orders, s)
<1>1. orders \in Seq(O)
  BY DEF Orders
<1> HIDE DEF O
<1>2. N \in Nat /\ DOMAIN orders = 1 .. N /\ \A n \in 1 .. N : orders[n] \in O
  BY <1>1, LenProperties, ElementOfSeq
<1>3. \A o \in O : Signed(o, s) \in Int
  BY DEF O, Order, Signed
<1> HIDE DEF N
<1>4. q \in [1 .. N -> Int] /\ \A n \in 1 .. N : q[n] = Signed(orders[n], s)
  BY <1>2, <1>3 DEF InFlight
<1> HIDE DEF q
<1>5. q \in Seq(Int) /\ Len(q) = N
  BY <1>2, <1>4, ListIsASeq
<1>6. Summed(q) \in Int
  BY <1>5, SumIs, SumFrom
<1> QED
  BY <1>4, <1>5, <1>6 DEF N, q

\* A whole fill turns what was in flight into what is held.
LEMMA FillsMoveNothing ==
    ASSUME BackTypes, Timed, DataPrecedesFill, Fill, Filled(NextOrder, NextPrice) = NextOrder.qty,
           NEW s \in Symbols
    PROVE  Projected(s, pending)' = Projected(s, pending)
<1> DEFINE o == NextOrder
           i == NextDue
           q == InFlight(pending, s)
           t == InFlight(pending', s)
<1>1. /\ i \in 1 .. Len(pending) /\ o \in Order /\ pending' = RemoveAt(pending, i) /\ o = pending[i]
  BY FillBooks DEF NextOrder
<1>2. PICK ls \in Lots : Booked(o, o.qty, ls)
  BY FillBooks
<1>3. pending \in Orders
  BY DEF BackTypes
<1>4. /\ pending' \in Orders /\ Len(pending') = Len(pending) - 1
      /\ \A n \in 1 .. Len(pending') : pending'[n] = IF n < i THEN pending[n] ELSE pending[n + 1]
  BY <1>1, <1>3, Removed DEF Orders
<1>5. /\ q \in Seq(Int) /\ Len(q) = Len(pending) /\ Summed(q) \in Int
      /\ \A n \in 1 .. Len(pending) : q[n] = Signed(pending[n], s)
  BY <1>3, InFlightList
<1>6. /\ t \in Seq(Int) /\ Len(t) = Len(pending') /\ Summed(t) \in Int
      /\ \A n \in 1 .. Len(pending') : t[n] = Signed(pending'[n], s)
  BY <1>4, InFlightList
<1>7. Projected(s, pending) = Held(lots[s]) + Summed(q)
  BY ProjectedIs
<1>8. Projected(s, pending)' = Held(lots'[s]) + Summed(t)
  BY DEF Projected, InFlight, Signed
<1> HIDE DEF o, i, q, t
<1>9. Len(pending) \in Nat
  BY OrdersList
<1>10. Summed(t) = Summed(q) - Signed(o, s)
  <2>1. Len(t) = Len(q) - 1 /\ i \in 1 .. Len(q) /\ q[i] = Signed(o, s)
    BY <1>1, <1>4, <1>5, <1>6
  <2>2. ASSUME NEW n \in 1 .. Len(t) PROVE t[n] = IF n < i THEN q[n] ELSE q[n + 1]
    <3>1. n \in 1 .. Len(pending') /\ n \in 1 .. Len(pending) /\ n + 1 \in 1 .. Len(pending)
      BY <1>4, <1>6, <1>9
    <3> QED
      BY <1>4, <1>5, <1>6, <3>1
  <2> QED
    BY <1>5, <1>6, <2>1, <2>2, SumOfRemoval
<1>11. Held(lots'[s]) = Held(lots[s]) + Signed(o, s) /\ Held(lots[s]) \in Int /\ Signed(o, s) \in Int
  <2>1. o.sym \in Symbols /\ o.qty \in Int /\ o.side \in {"buy", "sell"}
    BY <1>1 DEF Order
  <2>2. Held(lots[s]) \in Int /\ Held(lots[o.sym]) \in Int
    BY <2>1, LotsOf
  <2>3. lots' = [lots EXCEPT ![o.sym] = ls] /\ lots \in [Symbols -> Lots]
    BY <1>2 DEF Booked, BackTypes
  <2>4. CASE s # o.sym
    <3>1. lots'[s] = lots[s] /\ Signed(o, s) = 0
      BY <2>3, <2>4 DEF Signed
    <3> QED
      BY <2>2, <3>1
  <2>5. CASE s = o.sym
    <3>1. lots'[s] = ls
      BY <2>1, <2>3, <2>5
    <3>2. Held(ls) = IF o.side = "buy" THEN Held(lots[s]) + o.qty ELSE Held(lots[s]) - o.qty
      BY <1>2, <2>5 DEF Booked
    <3> QED
      BY <2>1, <2>2, <2>5, <3>1, <3>2 DEF Signed
  <2> QED
    BY <2>4, <2>5
<1>12. Projected(s, pending)' = Projected(s, pending)
  <2>1. \A x, y, z \in Int : (x + z) + (y - z) = x + y
    OBVIOUS
  <2> QED
    BY <1>5, <1>7, <1>8, <1>10, <1>11, <2>1
<1> QED
  BY <1>12

-----------------------------------------------------------------------------
(* Decisions. *)

LEMMA KnownSessionIs ==
    ASSUME BackTypes
    PROVE  KnownSession(DecidesAt(today)) = IF timing = "near_close" THEN today - 1 ELSE today
<1> DEFINE at == DecidesAt(today)
           T == {s \in 0 .. today : CloseAt(s) <= at}
           k == IF timing = "near_close" THEN today - 1 ELSE today
<1>1. today \in Nat \ {0}
  BY DEF BackTypes
<1>2. at = IF timing = "near_close" THEN 10 * today + 5 ELSE 10 * today + 8
  BY DEF DecidesAt, NearAt, CloseAt
<1>3. k \in T
  BY <1>1, <1>2 DEF CloseAt
<1>4. ASSUME NEW x \in T PROVE x <= k
  BY <1>1, <1>2 DEF CloseAt
<1>5. T \in SUBSET Int
  OBVIOUS
<1>6. KnownSession(at) = Max(T)
  BY DEF KnownSession
<1> HIDE DEF T, k
<1>7. Max(T) = k
  BY <1>3, <1>4, <1>5, MaxIs
<1> QED
  BY <1>6, <1>7 DEF k

LEMMA EquityIsInt ==
    ASSUME BackTypes, NEW price, \A s \in Symbols : price[s] \in Nat
    PROVE  Equity(price) \in Int
<1> DEFINE f == [s \in Symbols |-> Held(lots[s]) * price[s]]
<1>1. \A s \in Symbols : Held(lots[s]) * price[s] \in Int
  <2> SUFFICES ASSUME NEW s \in Symbols PROVE Held(lots[s]) * price[s] \in Int
    OBVIOUS
  <2>1. PICK x, y \in Int : x = Held(lots[s]) /\ y = price[s]
    BY LotsOf
  <2>2. x * y \in Int
    OBVIOUS
  <2> QED
    BY <2>1, <2>2
<1>2. f \in [Symbols -> Int]
  BY <1>1
<1> HIDE DEF f
<1>3. SumSymbols(f) \in Int /\ cash \in Int
  BY <1>2, SymbolsSumIsInt DEF BackTypes
<1> QED
  BY <1>3 DEF Equity, f

LEMMA DeltaIsInt ==
    ASSUME BackTypes, NEW s \in Symbols, NEW weight \in Nat, NEW equity \in Int, NEW price \in Nat \ {0}
    PROVE  Delta(s, weight, equity, price) \in Int
<1>1. Projected(s, pending) \in Int
  <2>1. Held(lots[s]) \in Int /\ Summed(InFlight(pending, s)) \in Int
    BY LotsOf, InFlightList DEF BackTypes
  <2> QED
    BY <2>1, ProjectedIs
<1>2. PICK x \in Int : x = weight * equity
  OBVIOUS
<1>3. PICK y \in Nat \ {0} : y = Whole * price
  <2>1. Whole \in Nat \ {0}
    BY BacktestAssumption DEF BacktestAssumption
  <2>2. \A u, v \in Nat \ {0} : u * v \in Nat \ {0}
    OBVIOUS
  <2> QED
    BY <2>1, <2>2
<1>4. x \div y \in Int
  OBVIOUS
<1>5. x \div y - Projected(s, pending) \in Int
  BY <1>1, <1>4
<1>6. \/ Delta(s, weight, equity, price) = 0
      \/ Delta(s, weight, equity, price)
             = (weight * equity) \div (Whole * price) - Projected(s, pending)
  BY Zenon DEF Delta
<1>7. (weight * equity) \div (Whole * price) - Projected(s, pending) \in Int
  BY <1>2, <1>3, <1>5, Zenon
<1>8. 0 \in Int
  OBVIOUS
<1> QED
  BY <1>6, <1>7, <1>8, Zenon

\* A decision adds orders for the fill its timing gives them.
LEMMA DecisionOrders ==
    ASSUME BackTypes, NEW target \in [Symbols -> Nat], NEW cap \in Nat \cup {-1, -2}, Decide(target, cap)
    PROVE  \E new \in Orders :
               /\ pending' = pending \o new
               /\ \A n \in 1 .. Len(new) :
                      /\ new[n].point = FillPoint /\ new[n].decided = DecidesAt(today)
                      /\ new[n].data = CloseAt(KnownSession(DecidesAt(today)))
                      /\ new[n].session = FillSession(today)
<1> DEFINE at == DecidesAt(today)
           price == [s \in Symbols |-> KnownClose(s, at)]
           equity == Equity(price)
           delta == [s \in Symbols |-> Delta(s, target[s], equity, KnownClose(s, at))]
           T == {s \in Symbols : delta[s] # 0}
           moved == SetToSeq(T)
           N == Len(moved)
           order(n) == OrderFor(moved[n], delta[moved[n]], at, cap)
           new == [n \in DOMAIN moved |-> order(n)]
           O == Order
<1>1. pending' = pending \o new
  BY DEF Decide
<1>2. KnownSession(at) \in 0 .. today
  BY KnownSessionIs DEF BackTypes
<1>3. \A s \in Symbols : KnownClose(s, at) \in Nat \ {0}
  BY <1>2, PricesOf DEF KnownClose
<1>4. equity \in Int
  <2>1. \A s \in Symbols : price[s] \in Nat
    BY <1>3
  <2> HIDE DEF price
  <2> QED
    BY <2>1, EquityIsInt
<1>5. delta \in [Symbols -> Int]
  <2>1. \A s \in Symbols : Delta(s, target[s], equity, KnownClose(s, at)) \in Int
    <3> SUFFICES ASSUME NEW s \in Symbols PROVE Delta(s, target[s], equity, KnownClose(s, at)) \in Int
      OBVIOUS
    <3>1. target[s] \in Nat /\ KnownClose(s, at) \in Nat \ {0}
      BY <1>3
    <3> HIDE DEF equity, at
    <3> QED
      BY <1>4, <3>1, DeltaIsInt
  <2> HIDE DEF equity, at
  <2> QED
    BY <2>1
<1>6. T \in SUBSET Symbols /\ IsFiniteSet(T)
  <2>1. T \in SUBSET Symbols
    OBVIOUS
  <2>2. IsFiniteSet(Symbols)
    BY BacktestAssumption DEF BacktestAssumption
  <2> HIDE DEF T
  <2> QED
    BY <2>1, <2>2, FS_Subset
<1>7. at \in Int /\ CloseAt(KnownSession(at)) \in Int /\ FillSession(today) \in Nat /\ FillPoint \in {"open", "close"}
  BY <1>2 DEF BackTypes, DecidesAt, NearAt, CloseAt, FillSession, FillPoint
<1>8. ASSUME NEW s \in T PROVE OrderFor(s, delta[s], at, cap) \in O
  <2>1. s \in Symbols /\ delta[s] \in Int /\ delta[s] # 0
    BY <1>5
  <2> HIDE DEF delta, at, T
  <2>2. (IF delta[s] > 0 THEN delta[s] ELSE - delta[s]) \in Nat \ {0}
    BY <2>1
  <2>3. (IF delta[s] > 0 THEN "buy" ELSE "sell") \in {"buy", "sell"}
    OBVIOUS
  <2> QED
    BY <1>7, <2>1, <2>2, <2>3 DEF OrderFor, Order
<1> HIDE DEF T, delta, equity, at, price, O
<1>9. moved \in Seq(T)
  BY <1>6, SetInASequence
<1>10. N \in Nat /\ DOMAIN moved = 1 .. N /\ \A n \in 1 .. N : moved[n] \in T
  BY <1>9, LenProperties, ElementOfSeq
<1> HIDE DEF moved, N
<1>11. new \in [1 .. N -> O] /\ \A n \in 1 .. N : new[n] = order(n)
  BY <1>8, <1>10
<1>12. \A n : /\ order(n).point = FillPoint /\ order(n).decided = at
              /\ order(n).data = CloseAt(KnownSession(at)) /\ order(n).session = FillSession(today)
  BY DEF OrderFor
<1> HIDE DEF new, order
<1>13. new \in Seq(O) /\ Len(new) = N
  BY <1>10, <1>11, ListIsASeq
<1> QED
  BY <1>1, <1>11, <1>12, <1>13 DEF Orders, O, at

-----------------------------------------------------------------------------
(* The invariant holds at first and every step keeps it. *)

LEMMA BackStarts == BackInit => BackInv
<1> SUFFICES ASSUME BackInit PROVE BackInv
  OBVIOUS
<1>1. lots = [s \in Symbols |-> << >>] /\ \A s \in Symbols : lots[s] = << >>
  BY DEF BackInit
<1>2. pending = << >> /\ DOMAIN pending = {} /\ pending \in Orders
  BY EmptySeq DEF BackInit, Orders
<1>3. marks \in Seq(Int) /\ Len(marks) = 0
  BY EmptySeq DEF BackInit
<1>4. \A n \in 0 .. 1 : \A s \in Symbols : tape[n][s].open \in Prices[s] /\ tape[n][s].close \in Prices[s]
  <2> DEFINE S == {f \in [Symbols -> UNION {Prices[s] : s \in Symbols}] :
                     \A s \in Symbols : f[s] \in Prices[s]}
             E(a, b) == [s \in 0 .. 1 |->
                            IF s = 0 THEN [sym \in Symbols |-> [open |-> a[sym], close |-> a[sym]]]
                            ELSE [sym \in Symbols |-> [open |-> a[sym], close |-> b[sym]]]]
  <2>0. tape \in {E(a, b) : a, b \in S}
    <3>1. Tapes = {E(a, b) : a, b \in S}
      BY DEF Tapes
    <3>2. tape \in Tapes
      BY DEF BackInit
    <3> HIDE DEF S, E
    <3> QED
      BY <3>1, <3>2
  <2>1. PICK a \in S, b \in S : tape = E(a, b)
    <3> HIDE DEF S, E
    <3> QED
      BY <2>0
  <2>2. \A s \in Symbols : a[s] \in Prices[s] /\ b[s] \in Prices[s]
    BY <2>1
  <2>3. /\ tape[0] = [sym \in Symbols |-> [open |-> a[sym], close |-> a[sym]]]
        /\ tape[1] = [sym \in Symbols |-> [open |-> a[sym], close |-> b[sym]]]
    BY <2>1
  <2>4. \A s \in Symbols : /\ tape[0][s].open \in Prices[s] /\ tape[0][s].close \in Prices[s]
                           /\ tape[1][s].open \in Prices[s] /\ tape[1][s].close \in Prices[s]
    BY <2>2, <2>3
  <2>5. \A n \in 0 .. 1 : n = 0 \/ n = 1
    OBVIOUS
  <2> QED
    BY <2>4, <2>5
<1>5. BackTypes
  <2>1. /\ timing \in {"near_close", "next_open", "next_close", "closing_auction"} /\ delay \in Nat
        /\ today = 1 /\ phase = "open"
    BY BacktestAssumption DEF BackInit, BacktestAssumption
  <2>2. /\ cash \in Int /\ realized \in Int /\ commissions \in Int /\ interest \in Int
        /\ trips.pnl \in Int /\ trips.comm \in Int
    BY BacktestAssumption DEF BackInit, BacktestAssumption
  <2>3. lots \in [Symbols -> Lots]
    BY <1>1, NoLots
  <2> QED
    BY <1>2, <1>3, <1>4, <2>1, <2>2, <2>3 DEF BackTypes
<1>6. Timed
  BY <1>2, <1>3 DEF Timed, BackInit
<1>7. \A s \in Symbols : Projected(s, pending) = 0
  <2>1. InFlight(pending, << >>) = << >> /\ \A s : InFlight(pending, s) = << >>
    BY <1>2 DEF InFlight
  <2>2. Held(<< >>) = 0 /\ Summed(<< >>) = 0 /\ 0 + 0 = 0
    BY NoLots, SumOfNone
  <2> QED
    BY <1>1, <2>1, <2>2, ProjectedIs
<1>8. NothingIsForeseen
  BY <1>2, <1>7 DEF NothingIsForeseen, DataPrecedesFill, HoldingIsAsked, LossIsOneSession, BackInit
<1>9. LedgerBalances /\ TripsAddUp
  <2>1. [s \in Symbols |-> CostOf(lots[s])] = [s \in Symbols |-> 0]
    BY <1>1, NoLots
  <2>2. [s \in Symbols |-> FeesOf(lots[s])] = [s \in Symbols |-> 0]
    BY <1>1, NoLots
  <2>3. Capital \in Int
    BY BacktestAssumption DEF BacktestAssumption
  <2> QED
    BY <2>1, <2>2, <2>3, SymbolsSumOfZeros DEF LedgerBalances, TripsAddUp, BackInit
<1>10. raised # "look-ahead"
  BY DEF BackInit
<1> QED
  BY <1>5, <1>6, <1>8, <1>9, <1>10 DEF BackInv

LEMMA FillKeeps == BackInv /\ Fill => BackInv'
<1> SUFFICES ASSUME BackInv, Fill PROVE BackInv'
  OBVIOUS
<1>1. BackTypes /\ Timed /\ DataPrecedesFill /\ LedgerBalances /\ TripsAddUp /\ HoldingIsAsked /\ LossIsOneSession
  BY DEF BackInv, NothingIsForeseen
<1> DEFINE o == NextOrder
           q == Filled(NextOrder, NextPrice)
           i == NextDue
<1>2. /\ i \in 1 .. Len(pending) /\ o \in Order
      /\ pending' = RemoveAt(pending, i) /\ limited' = (limited \/ q < o.qty)
      /\ UNCHANGED << timing, delay, rejects, today, phase, tape, marks, asked, seen >>
      /\ raised' = IF cash' < 0 THEN "accounting" ELSE "no"
      /\ q \in 0 .. o.qty
  BY <1>1, FillBooks
<1>3. PICK ls \in Lots : Booked(o, q, ls)
  BY <1>1, FillBooks
<1>4. lots' \in [Symbols -> Lots] /\ LedgerBalances' /\ TripsAddUp'
  <2>1. q \in Nat
    BY <1>2
  <2> HIDE DEF o, q
  <2> QED
    BY <1>1, <1>2, <1>3, <2>1, LedgersAreKept
<1>5. pending \in Orders /\ Len(pending) \in Nat /\ DOMAIN pending = 1 .. Len(pending)
  BY <1>1, OrdersList DEF BackTypes
<1>6. /\ pending' \in Orders /\ Len(pending') = Len(pending) - 1
      /\ \A n \in 1 .. Len(pending') : pending'[n] = IF n < i THEN pending[n] ELSE pending[n + 1]
  <2> DEFINE O == Order
             p == pending'
  <2>1. p = RemoveAt(pending, i) /\ pending \in Seq(O) /\ i \in 1 .. Len(pending)
    BY <1>2, <1>5 DEF Orders
  <2> HIDE DEF O, p
  <2>2. /\ p \in Seq(O) /\ Len(p) = Len(pending) - 1
        /\ \A n \in 1 .. Len(p) : p[n] = IF n < i THEN pending[n] ELSE pending[n + 1]
    BY <2>1, Removed
  <2> QED
    BY <2>2 DEF O, p, Orders
<1>7. DOMAIN pending' = 1 .. Len(pending')
  <2> DEFINE O == Order
  <2>1. pending' \in Seq(O)
    BY <1>6 DEF Orders
  <2> HIDE DEF O
  <2> QED
    BY <2>1, LenProperties
<1> HIDE DEF o, q, i
<1>8. \A n \in DOMAIN pending' : \E m \in DOMAIN pending : pending'[n] = pending[m]
  <2> SUFFICES ASSUME NEW n \in 1 .. Len(pending') PROVE \E m \in 1 .. Len(pending) : pending'[n] = pending[m]
    BY <1>5, <1>7
  <2>1. n \in 1 .. Len(pending) /\ n + 1 \in 1 .. Len(pending)
    BY <1>5, <1>6
  <2> QED
    BY <1>6, <2>1
<1>9. BackTypes'
  BY <1>1, <1>2, <1>3, <1>4, <1>6 DEF BackTypes, Booked
<1>10. FillPoint' = FillPoint /\ (Passed' <=> Passed) /\ (SameBar' <=> SameBar)
  BY <1>2 DEF FillPoint, Passed, SameBar
<1>11. Timed'
  BY <1>1, <1>2, <1>8, <1>10 DEF Timed
<1>12. DataPrecedesFill'
  BY <1>1, <1>2, <1>8, <1>10 DEF DataPrecedesFill, FillTime, OpenAt, CloseAt
<1>13. HoldingIsAsked'
  <2> SUFFICES ASSUME ~ limited', NEW s \in Symbols PROVE Projected(s, pending)' = asked'[s]
    BY DEF HoldingIsAsked
  <2>1. ~ limited /\ q = o.qty
    <3>1. ~ limited /\ ~ (q < o.qty)
      BY <1>2
    <3>2. o.qty \in Nat
      BY <1>2 DEF Order
    <3> QED
      BY <1>2, <3>1, <3>2
  <2>2. Projected(s, pending)' = Projected(s, pending)
    BY <1>1, <2>1, FillsMoveNothing DEF o, q
  <2>3. Projected(s, pending) = asked[s] /\ asked' = asked
    BY <1>1, <1>2, <2>1 DEF HoldingIsAsked
  <2> QED
    BY <2>2, <2>3
<1>14. LossIsOneSession' /\ raised' # "look-ahead"
  BY <1>1, <1>2 DEF LossIsOneSession
<1> QED
  BY <1>4, <1>9, <1>11, <1>12, <1>13, <1>14 DEF BackInv, NothingIsForeseen

\* Steps that leave orders, lots and the last decision alone.
LEMMA QuietKeeps ==
    ASSUME UNCHANGED << timing, delay, lots, pending, asked, limited, seen >>,
           NothingIsForeseen, today' = today
    PROVE  NothingIsForeseen'
<1>1. SameBar' <=> SameBar
  BY DEF SameBar
<1>2. DataPrecedesFill'
  BY <1>1 DEF NothingIsForeseen, DataPrecedesFill, FillTime, OpenAt, CloseAt
<1>3. HoldingIsAsked'
  BY DEF NothingIsForeseen, HoldingIsAsked, Projected
<1>4. LossIsOneSession'
  BY DEF NothingIsForeseen, LossIsOneSession
<1> QED
  BY <1>2, <1>3, <1>4 DEF NothingIsForeseen

LEMMA PassKeeps ==
    ASSUME BackInv, NEW from, NEW to, Pass(from, to),
           \/ from = "open" /\ to = "early" /\ Due = {}
           \/ from = "early" /\ to = "close"
           \/ from = "late" /\ to = "next"
    PROVE  BackInv'
<1>1. /\ phase = from /\ phase' = to
      /\ UNCHANGED << timing, delay, rejects, today, tape, accounts, pending, marks, asked, limited,
                      seen, raised >>
  BY DEF Pass
<1>2. BackTypes'
  BY <1>1 DEF BackInv, BackTypes, accounts
<1>3. NothingIsForeseen'
  BY <1>1, QuietKeeps DEF BackInv, accounts
<1>4. LedgerBalances' /\ TripsAddUp' /\ raised' # "look-ahead"
  BY <1>1 DEF BackInv, accounts, LedgerBalances, TripsAddUp
<1>5. FillPoint' = FillPoint
  BY <1>1 DEF FillPoint
<1>6. ASSUME NEW n \in DOMAIN pending, Passed' PROVE pending[n].session > today
  <2>1. CASE Passed
    BY <2>1 DEF BackInv, Timed
  <2>2. CASE from = "open" /\ to = "early" /\ Due = {}
    <3>1. FillPoint = "open" /\ pending[n].point = "open"
      BY <1>1, <1>5, <1>6, <2>2 DEF Passed, BackInv, Timed
    <3>2. pending[n].session # today
      BY <1>1, <2>2, <3>1 DEF Due
    <3>3. pending[n].session >= today
      BY DEF BackInv, NothingIsForeseen, DataPrecedesFill
    <3>4. pending[n].session \in Nat /\ today \in Nat
      BY OrdersList DEF BackInv, BackTypes, Order
    <3> QED
      BY <3>2, <3>3, <3>4
  <2>3. CASE ~ Passed /\ ~ (from = "open" /\ to = "early" /\ Due = {})
    BY <1>1, <1>5, <1>6, <2>3 DEF Passed
  <2> QED
    BY <2>1, <2>2, <2>3
<1>7. Timed'
  <2>1. Len(marks') = IF phase' \in {"late", "next"} THEN today' ELSE today' - 1
    BY <1>1 DEF BackInv, Timed
  <2> QED
    BY <1>1, <1>5, <1>6, <2>1 DEF BackInv, Timed
<1> QED
  BY <1>2, <1>3, <1>4, <1>7 DEF BackInv

LEMMA AccruedIsInt ==
    ASSUME BackTypes
    PROVE  cash \div Rate \in Int
<1>1. cash \in Int /\ Rate \in Nat \ {0}
  BY BacktestAssumption DEF BackTypes, BacktestAssumption
<1> QED
  BY <1>1

LEMMA MarkKeeps == BackInv /\ Mark => BackInv'
<1> SUFFICES ASSUME BackInv, Mark PROVE BackInv'
  OBVIOUS
<1> DEFINE accrued == IF today = 1 THEN 0 ELSE cash \div Rate
           price == [s \in Symbols |-> tape[today][s].close]
           mark == Equity(price) + accrued
<1>1. /\ phase = "close" /\ Due = {} /\ phase' = "late"
      /\ cash' = cash + accrued /\ interest' = interest + accrued
      /\ marks' = Append(marks, mark)
      /\ UNCHANGED << timing, delay, rejects, today, tape, lots, realized, commissions, trips,
                      pending, asked, limited, seen, raised >>
  BY DEF Mark
<1>2. BackTypes
  BY DEF BackInv
<1>3. accrued \in Int
  BY <1>2, AccruedIsInt
<1>4. mark \in Int
  <2>1. \A s \in Symbols : price[s] \in Nat
    <3>1. today \in 0 .. today
      BY <1>2 DEF BackTypes
    <3> QED
      BY <1>2, <3>1, PricesOf
  <2> HIDE DEF price, accrued
  <2>2. Equity(price) \in Int
    BY <1>2, <2>1, EquityIsInt
  <2> QED
    BY <1>3, <2>2
<1> HIDE DEF accrued, mark, price
<1>5. marks' \in Seq(Int) /\ Len(marks') = Len(marks) + 1
  BY <1>1, <1>2, <1>4, AppendProperties DEF BackTypes
<1>6. BackTypes'
  <2>1. cash' \in Int /\ interest' \in Int
    BY <1>1, <1>2, <1>3 DEF BackTypes
  <2> QED
    BY <1>1, <1>2, <1>5, <2>1 DEF BackTypes
<1>7. NothingIsForeseen'
  BY <1>1, QuietKeeps DEF BackInv
<1>8. TripsAddUp' /\ raised' # "look-ahead"
  BY <1>1 DEF BackInv, TripsAddUp
<1>9. LedgerBalances'
  <2> DEFINE cost == [s \in Symbols |-> CostOf(lots[s])]
  <2>1. cost \in [Symbols -> Int]
    BY <1>2, LotsOf
  <2>2. cash + SumSymbols(cost) = Capital + realized - commissions + interest
    BY DEF BackInv, LedgerBalances
  <2> HIDE DEF cost
  <2>3. PICK c, s, k, r, m, i, a \in Int :
            /\ c = cash /\ s = SumSymbols(cost) /\ k = Capital /\ r = realized /\ m = commissions
            /\ i = interest /\ a = accrued
    <3>1. Capital \in Int
      BY BacktestAssumption DEF BacktestAssumption
    <3> QED
      BY <1>2, <1>3, <2>1, <3>1, SymbolsSumIsInt DEF BackTypes
  <2>4. c + s = k + r - m + i
    BY <2>2, <2>3
  <2>5. (c + a) + s = k + r - m + (i + a)
    BY <2>4
  <2>6. cash' + SumSymbols(cost) = Capital + realized' - commissions' + interest'
    BY <1>1, <2>3, <2>5, Zenon
  <2> QED
    BY <1>1, <2>6 DEF LedgerBalances, cost
<1>10. FillPoint' = FillPoint
  BY <1>1 DEF FillPoint
<1>11. ASSUME NEW n \in DOMAIN pending PROVE pending[n].session > today
  <2>1. CASE FillPoint = "open"
    BY <1>1, <2>1 DEF BackInv, Timed, Passed
  <2>2. CASE FillPoint = "close"
    <3>1. pending[n].session # today
      BY <1>1, <2>2 DEF Due, BackInv, Timed
    <3>2. pending[n].session >= today
      BY DEF BackInv, NothingIsForeseen, DataPrecedesFill
    <3>3. pending[n].session \in Nat /\ today \in Nat
      BY <1>2, OrdersList DEF BackTypes, Order
    <3> QED
      BY <3>1, <3>2, <3>3
  <2> QED
    BY <2>1, <2>2 DEF FillPoint
<1>12. Timed'
  <2>1. Len(marks) = today - 1 /\ today \in Nat
    BY <1>1, <1>2 DEF BackInv, Timed, BackTypes
  <2>2. Len(marks') = today
    BY <1>5, <2>1
  <2> QED
    BY <1>1, <1>10, <1>11, <2>2 DEF BackInv, Timed
<1> QED
  BY <1>6, <1>7, <1>8, <1>9, <1>12 DEF BackInv

LEMMA NextSessionKeeps == \A b \in Bars : BackInv /\ NextSession(b) => BackInv'
<1> SUFFICES ASSUME NEW b \in Bars, BackInv, NextSession(b) PROVE BackInv'
  OBVIOUS
<1>1. /\ phase = "next" /\ today' = today + 1 /\ phase' = "open"
      /\ tape' = [s \in 0 .. today + 1 |-> IF s <= today THEN tape[s] ELSE b]
      /\ UNCHANGED << timing, delay, rejects, accounts, pending, marks, asked, limited, seen, raised >>
  BY DEF NextSession
<1>2. BackTypes /\ today \in Nat \ {0}
  BY DEF BackInv, BackTypes
<1>3. \A s \in Symbols : b[s].open \in Prices[s] /\ b[s].close \in Prices[s]
  BY DEF Bars
<1>4. ASSUME NEW n \in 0 .. today', NEW s \in Symbols
      PROVE  tape'[n][s].open \in Prices[s] /\ tape'[n][s].close \in Prices[s]
  <2>1. n \in 0 .. today + 1
    BY <1>1
  <2>2. CASE n <= today
    <3>1. tape'[n] = tape[n] /\ n \in 0 .. today
      BY <1>1, <1>2, <2>1, <2>2
    <3> QED
      BY <1>2, <3>1, PricesOf
  <2>3. CASE ~ (n <= today)
    <3>1. tape'[n] = b
      BY <1>1, <2>1, <2>3
    <3> QED
      BY <1>3, <3>1
  <2> QED
    BY <2>2, <2>3
<1>5. BackTypes'
  <2>1. today' \in Nat \ {0}
    BY <1>1, <1>2
  <2> QED
    BY <1>1, <1>2, <1>4, <2>1 DEF BackTypes, accounts
<1>6. LedgerBalances' /\ TripsAddUp' /\ raised' # "look-ahead"
  BY <1>1 DEF BackInv, accounts, LedgerBalances, TripsAddUp
<1>7. \A n \in DOMAIN pending : pending[n].session > today /\ pending[n].session \in Nat
  BY <1>1, <1>2, OrdersList DEF BackInv, Timed, Passed, Order
<1>8. DataPrecedesFill'
  <2>1. SameBar' <=> SameBar
    BY <1>1 DEF SameBar
  <2>2. \A n \in DOMAIN pending : pending[n].session >= today + 1
    BY <1>2, <1>7
  <2> QED
    BY <1>1, <2>1, <2>2
    DEF BackInv, NothingIsForeseen, DataPrecedesFill, FillTime, OpenAt, CloseAt
<1>9. HoldingIsAsked' /\ LossIsOneSession'
  BY <1>1 DEF BackInv, NothingIsForeseen, HoldingIsAsked, LossIsOneSession, Projected, accounts
<1>10. Timed'
  <2>1. FillPoint' = FillPoint /\ ~ Passed'
    BY <1>1 DEF FillPoint, Passed
  <2>2. Len(marks') = today' - 1
    BY <1>1, <1>2 DEF BackInv, Timed
  <2> QED
    BY <1>1, <2>1, <2>2 DEF BackInv, Timed
<1> QED
  BY <1>5, <1>6, <1>8, <1>9, <1>10 DEF BackInv, NothingIsForeseen

\* A decision before the close is one of near_close or closing_auction, one
\* after the mark of next_open or next_close.
LEMMA DecideKeeps ==
    ASSUME BackInv, NEW target \in [Symbols -> Nat], NEW cap \in Nat \cup {-1, -2}, Decide(target, cap),
           \/ phase = "early" /\ phase' = "close" /\ timing \in {"near_close", "closing_auction"}
           \/ phase = "late" /\ phase' = "next" /\ timing \in {"next_open", "next_close"},
           UNCHANGED << timing, delay, rejects, today, tape, accounts, marks, limited, raised >>
    PROVE  BackInv'
<1> DEFINE k == KnownSession(DecidesAt(today))
<1>1. BackTypes /\ today \in Nat \ {0} /\ delay \in Nat /\ Len(marks) \in Nat
  BY LenProperties DEF BackInv, BackTypes
<1>2. PICK new \in Orders :
          /\ pending' = pending \o new
          /\ \A n \in 1 .. Len(new) :
                 /\ new[n].point = FillPoint /\ new[n].decided = DecidesAt(today)
                 /\ new[n].data = CloseAt(k) /\ new[n].session = FillSession(today)
  BY <1>1, DecisionOrders
<1>3. k = IF timing = "near_close" THEN today - 1 ELSE today
  BY <1>1, KnownSessionIs
<1>4. asked' = [s \in Symbols |-> Projected(s, pending')]
      /\ seen' = [equity |-> k, previous |-> Max({0, Len(marks) - 1})]
  BY DEF Decide
<1> HIDE DEF k
<1>5. /\ pending' \in Orders /\ Len(pending') = Len(pending) + Len(new)
      /\ DOMAIN pending' = 1 .. Len(pending')
      /\ \A n \in 1 .. Len(pending) + Len(new) :
             pending'[n] = IF n <= Len(pending) THEN pending[n] ELSE new[n - Len(pending)]
      /\ Len(pending) \in Nat /\ Len(new) \in Nat /\ DOMAIN pending = 1 .. Len(pending)
  <2> DEFINE O == Order
  <2>1. pending \in Seq(O) /\ new \in Seq(O)
    BY <1>1 DEF BackTypes, Orders
  <2> HIDE DEF O
  <2>2. pending \o new \in Seq(O)
    BY <2>1, ConcatProperties
  <2> QED
    BY <1>2, <2>1, <2>2, ConcatProperties, LenProperties DEF O, Orders
<1>6. ASSUME NEW n \in DOMAIN pending'
      PROVE  \/ \E m \in DOMAIN pending : pending'[n] = pending[m]
             \/ \E m \in 1 .. Len(new) : pending'[n] = new[m]
  <2>1. CASE n <= Len(pending)
    <3>1. n \in 1 .. Len(pending)
      BY <1>5, <2>1
    <3> QED
      BY <1>5, <2>1, <3>1
  <2>2. CASE ~ (n <= Len(pending))
    <3>1. n - Len(pending) \in 1 .. Len(new)
      BY <1>5, <2>2
    <3> QED
      BY <1>5, <2>2, <3>1
  <2> QED
    BY <2>1, <2>2
<1>7. FillPoint' = FillPoint /\ (SameBar' <=> SameBar)
  BY DEF FillPoint, SameBar
<1>8. /\ CloseAt(k) <= DecidesAt(today) /\ DecidesAt(today) <= FillTime(FillSession(today), FillPoint)
      /\ CloseAt(k) < FillTime(FillSession(today), FillPoint) \/ SameBar
      /\ FillSession(today) >= today
      /\ Passed' => FillSession(today) > today
  <2>1. timing = "near_close" \/ timing = "closing_auction" \/ timing = "next_open" \/ timing = "next_close"
    OBVIOUS
  <2> QED
    BY <1>1, <1>3, <1>7, <2>1
    DEF CloseAt, NearAt, OpenAt, DecidesAt, FillTime, FillSession, FillPoint, SameBar, Passed
<1>9. BackTypes'
  BY <1>1, <1>5 DEF BackTypes, accounts
<1>10. DataPrecedesFill'
  <2>1. \A n \in 1 .. Len(new) :
            /\ new[n].data <= new[n].decided /\ new[n].decided <= FillTime(new[n].session, new[n].point)
            /\ new[n].data < FillTime(new[n].session, new[n].point) \/ SameBar
            /\ new[n].session >= today
    BY <1>2, <1>8
  <2>2. \A n \in DOMAIN pending :
            LET o == pending[n]
            IN  /\ o.data <= o.decided /\ o.decided <= FillTime(o.session, o.point)
                /\ o.data < FillTime(o.session, o.point) \/ SameBar
                /\ o.session >= today
    BY DEF BackInv, NothingIsForeseen, DataPrecedesFill
  <2>3. \A s, p : FillTime(s, p)' = FillTime(s, p)
    BY DEF FillTime, OpenAt, CloseAt
  <2> QED
    BY <1>6, <1>7, <2>1, <2>2, <2>3 DEF DataPrecedesFill, FillTime, OpenAt, CloseAt
<1>11. HoldingIsAsked'
  BY <1>4 DEF HoldingIsAsked, Projected, accounts
<1>12. LossIsOneSession'
  <2>1. CASE timing = "closing_auction"
    BY <2>1 DEF LossIsOneSession
  <2>2. CASE timing # "closing_auction"
    <3>1. Len(marks) = IF timing = "near_close" THEN today - 1 ELSE today
      BY <2>2 DEF BackInv, Timed
    <3>2. Len(marks) = k /\ k \in Nat
      BY <1>1, <1>3, <2>2, <3>1
    <3>3. ASSUME k > 0 PROVE Max({0, Len(marks) - 1}) = k - 1
      <4> DEFINE T == {0, k - 1}
      <4>1. T \in SUBSET Int /\ k - 1 \in T /\ \A x \in T : x <= k - 1
        BY <3>2, <3>3
      <4> HIDE DEF T
      <4>2. Max(T) = k - 1
        BY <4>1, MaxIs
      <4> QED
        BY <3>2, <4>2 DEF T
    <3> QED
      BY <1>4, <3>3 DEF LossIsOneSession
  <2> QED
    BY <2>1, <2>2
<1>13. LedgerBalances' /\ TripsAddUp' /\ raised' # "look-ahead"
  BY DEF BackInv, accounts, LedgerBalances, TripsAddUp
<1>14. Timed'
  <2>1. \A n \in 1 .. Len(new) : new[n].point = FillPoint /\ (Passed' => new[n].session > today)
    BY <1>2, <1>8
  <2>2. \A n \in DOMAIN pending : pending[n].point = FillPoint /\ (Passed' => pending[n].session > today)
    <3>1. Passed' => Passed
      BY <1>7 DEF Passed
    <3> QED
      BY <3>1 DEF BackInv, Timed
  <2>3. Len(marks') = IF phase' \in {"late", "next"} THEN today' ELSE today' - 1
    BY DEF BackInv, Timed
  <2> QED
    BY <1>6, <1>7, <2>1, <2>2, <2>3 DEF Timed
<1> QED
  BY <1>9, <1>10, <1>11, <1>12, <1>13, <1>14 DEF BackInv, NothingIsForeseen

LEMMA BackStepKeeps == BackInv /\ [BackNext]_backVars => BackInv'
<1> SUFFICES ASSUME BackInv, [BackNext]_backVars PROVE BackInv'
  OBVIOUS
<1>1. CASE Fill
  BY <1>1, FillKeeps
<1>2. CASE Due = {} /\ Pass("open", "early")
  BY <1>2, PassKeeps
<1>3. ASSUME NEW t \in Targets, NEW c \in Caps, EarlyDecision(t, c) \/ LateDecision(t, c) PROVE BackInv'
  <2>1. t \in [Symbols -> Nat] /\ c \in Nat \cup {-1, -2}
    BY BacktestAssumption DEF BacktestAssumption
  <2>2. CASE EarlyDecision(t, c)
    <3>1. /\ Decide(t, c) /\ phase = "early" /\ phase' = "close"
          /\ timing \in {"near_close", "closing_auction"}
          /\ UNCHANGED << timing, delay, rejects, today, tape, accounts, marks, limited, raised >>
      BY <2>2 DEF EarlyDecision
    <3> QED
      BY <2>1, <3>1, DecideKeeps
  <2>3. CASE LateDecision(t, c)
    <3>1. /\ Decide(t, c) /\ phase = "late" /\ phase' = "next"
          /\ timing \in {"next_open", "next_close"}
          /\ UNCHANGED << timing, delay, rejects, today, tape, accounts, marks, limited, raised >>
      BY <2>3 DEF LateDecision
    <3> QED
      BY <2>1, <3>1, DecideKeeps
  <2> QED
    BY <1>3, <2>2, <2>3
<1>4. CASE NoDecision \/ RefusedDecision
  <2>1. Pass("early", "close") \/ Pass("late", "next")
    BY <1>4 DEF NoDecision, RefusedDecision
  <2>2. CASE Pass("early", "close")
    BY <2>2, PassKeeps
  <2>3. CASE Pass("late", "next")
    BY <2>3, PassKeeps
  <2> QED
    BY <2>1, <2>2, <2>3
<1>5. CASE Mark
  BY <1>5, MarkKeeps
<1>6. ASSUME NEW b \in Bars, NextSession(b) PROVE BackInv'
  BY <1>6, NextSessionKeeps
<1>7. CASE UNCHANGED backVars
  <2>1. /\ UNCHANGED << timing, delay, rejects, today, phase, tape >> /\ UNCHANGED accounts
        /\ UNCHANGED << pending, marks, asked, limited, seen, raised >>
    BY <1>7 DEF backVars
  <2>2. UNCHANGED << cash, lots, realized, commissions, interest, trips >>
    BY <2>1 DEF accounts
  <2>3. BackTypes' /\ Timed'
    BY <2>1, <2>2 DEF BackInv, BackTypes, Timed, FillPoint, Passed
  <2>4. NothingIsForeseen'
    BY <2>1, <2>2, QuietKeeps DEF BackInv
  <2>5. LedgerBalances' /\ TripsAddUp' /\ raised' # "look-ahead"
    BY <2>1, <2>2 DEF BackInv, LedgerBalances, TripsAddUp
  <2> QED
    BY <2>3, <2>4, <2>5 DEF BackInv
<1> QED
  BY <1>1, <1>2, <1>3, <1>4, <1>5, <1>6, <1>7 DEF BackNext

LEMMA BackHolds == BackSpec => []BackInv
<1> QED
  BY BackStarts, BackStepKeeps, PTL DEF BackSpec

(* A backtest never knows more than a trader would have: decisions are sized *)
(* on bars that had ended and fill on later ones, the daily loss spans two   *)
(* consecutive closes, and what is in flight counts, so that uncut orders    *)
(* leave the holding that was asked for (engine.py:385-510).                 *)
THEOREM NothingForeseen == BackSpec => []NothingIsForeseen
<1>1. BackInv => NothingIsForeseen
  BY DEF BackInv
<1> QED
  BY <1>1, BackHolds, PTL

(* To the cent, in every state: cash is what was put in plus what sales      *)
(* realized, less what open lots cost and commissions, plus interest; round  *)
(* trips carry each commission once (portfolio.py:133-222).                  *)
THEOREM LedgersBalance == BackSpec => [](LedgerBalances /\ TripsAddUp)
<1>1. BackInv => LedgerBalances /\ TripsAddUp
  BY DEF BackInv
<1> QED
  BY <1>1, BackHolds, PTL

(* The guard against look-ahead is never needed (engine.py:500-510).         *)
THEOREM NoLookAhead == BackSpec => [](raised # "look-ahead")
<1>1. BackInv => raised # "look-ahead"
  BY DEF BackInv
<1> QED
  BY <1>1, BackHolds, PTL

-----------------------------------------------------------------------------
(* Where selling a share always pays for the order, cash never runs out.     *)

SalesPay == \A s \in Symbols : \A p \in Prices[s] : p - Spread >= Fee

\* What a fill does to the cash.
LEMMA FillPays ==
    ASSUME BackTypes, Timed, DataPrecedesFill, Fill
    PROVE  LET q == Filled(NextOrder, NextPrice)
           IN  \/ cash' = cash
               \/ q # 0 /\ NextOrder.side = "buy" /\ cash' = cash - BuyCost(q, NextPrice)
               \/ q # 0 /\ cash' = cash + q * FillPrice("sell", NextPrice) - Fee
<1>1. raised' # "look-ahead"
  BY FillBooks
<1> DEFINE q == Filled(NextOrder, NextPrice)
           when == FillTime(today, phase)
<1>2. IF when < NextOrder.decided \/ ~ (when > NextOrder.data \/ (SameBar /\ when = NextOrder.data))
      THEN raised' = "look-ahead" /\ UNCHANGED accounts
      ELSE /\ IF q = 0 THEN UNCHANGED accounts
              ELSE /\ IF NextOrder.side = "buy" THEN Buy(NextOrder, q, NextPrice)
                                                ELSE Sell(NextOrder, q, NextPrice)
                   /\ UNCHANGED interest
           /\ raised' = IF cash' < 0 THEN "accounting" ELSE "no"
  BY DEF Fill, NextOrder, NextPrice
<1> HIDE DEF q, when
<1>3. CASE q = 0
  BY <1>1, <1>2, <1>3 DEF accounts, q
<1>4. CASE q # 0 /\ NextOrder.side = "buy"
  BY <1>1, <1>2, <1>4 DEF Buy, q
<1>5. CASE q # 0 /\ NextOrder.side # "buy"
  <2>1. Sell(NextOrder, q, NextPrice)
    BY <1>1, <1>2, <1>5
  <2>2. cash' = cash + q * FillPrice("sell", NextPrice) - Fee
    BY <2>1 DEF Sell
  <2> QED
    BY <1>5, <2>2 DEF q
<1> QED
  BY <1>3, <1>4, <1>5

Solvent == BackInv /\ cash >= 0 /\ raised = "no"

LEMMA SolventKeeps ==
    ASSUME SalesPay, Solvent, [BackNext]_backVars
    PROVE  Solvent'
<1>1. BackInv /\ BackInv' /\ BackTypes /\ Timed /\ DataPrecedesFill /\ cash \in Int /\ cash >= 0 /\ raised = "no"
  BY BackStepKeeps DEF Solvent, BackInv, BackTypes, NothingIsForeseen
<1>2. CASE Fill
  <2> DEFINE q == Filled(NextOrder, NextPrice)
  <2>1. /\ q \in 0 .. NextOrder.qty /\ NextOrder \in Order /\ NextOrder.qty \in Nat
        /\ raised' = IF cash' < 0 THEN "accounting" ELSE "no"
    BY <1>1, <1>2, FillBooks DEF Order
  <2>2. NextPrice \in Nat /\ NextPrice - Spread >= Fee
    <3>1. today \in 0 .. today /\ NextOrder.sym \in Symbols
      BY <1>1, <2>1 DEF BackTypes, Order
    <3>2. PICK p : p = NextPrice /\ p \in Prices[NextOrder.sym] /\ p \in Nat
      BY <1>1, <3>1, PricesOf DEF NextPrice
    <3> QED
      BY <3>1, <3>2 DEF SalesPay
  <2>3. \/ cash' = cash
        \/ q # 0 /\ NextOrder.side = "buy" /\ cash' = cash - BuyCost(q, NextPrice)
        \/ q # 0 /\ cash' = cash + q * FillPrice("sell", NextPrice) - Fee
    BY <1>1, <1>2, FillPays
  <2>4. NextOrder.side = "buy" /\ q # 0 => BuyCost(q, NextPrice) <= cash
    BY <1>1, <2>1, <2>2, FilledIs
  <2> HIDE DEF q
  <2>5. CASE cash' = cash
    BY <1>1, <2>1, <2>5 DEF Solvent
  <2>6. CASE q # 0 /\ NextOrder.side = "buy" /\ cash' = cash - BuyCost(q, NextPrice)
    <3>1. PICK b \in Int : b = BuyCost(q, NextPrice)
      <4>1. PICK x \in Int : x = FillPrice("buy", NextPrice)
        BY <2>2, CostsAreNumbers DEF FillPrice
      <4>2. q * x \in Int
        BY <2>1
      <4> QED
        BY <4>1, <4>2, CostsAreNumbers DEF BuyCost
    <3>2. cash' = cash - b /\ b <= cash
      BY <2>4, <2>6, <3>1
    <3>3. cash' >= 0 /\ ~ (cash' < 0)
      BY <1>1, <3>2
    <3> QED
      BY <1>1, <2>1, <3>3 DEF Solvent
  <2>7. CASE q # 0 /\ cash' = cash + q * FillPrice("sell", NextPrice) - Fee
    <3>1. PICK x \in Int : x = FillPrice("sell", NextPrice) /\ x >= Fee
      BY <2>2, CostsAreNumbers DEF FillPrice
    <3>2. PICK n \in Nat \ {0} : n = q
      BY <2>1, <2>7
    <3>3. PICK v \in Int : v = n * x /\ v >= x
      <4>1. x >= 0
        BY <3>1, CostsAreNumbers
      <4>2. \A u \in Nat, m \in Nat \ {0} : m * u \in Int /\ m * u >= u
        OBVIOUS
      <4> QED
        BY <3>1, <4>1, <4>2
    <3>4. cash' = cash + v - Fee /\ v >= Fee
      BY <2>7, <3>1, <3>2, <3>3, CostsAreNumbers
    <3>5. cash' >= 0 /\ ~ (cash' < 0)
      BY <1>1, <3>4, CostsAreNumbers
    <3> QED
      BY <1>1, <2>1, <3>5 DEF Solvent
  <2> QED
    BY <2>3, <2>5, <2>6, <2>7
<1>3. CASE Mark
  <2>1. /\ cash' = cash + (IF today = 1 THEN 0 ELSE cash \div Rate) /\ raised' = raised
    BY <1>3 DEF Mark
  <2>2. cash \div Rate \in Int /\ cash \div Rate >= 0
    <3>1. Rate \in Nat \ {0}
      BY BacktestAssumption DEF BacktestAssumption
    <3> QED
      BY <1>1, <3>1
  <2> QED
    BY <1>1, <2>1, <2>2 DEF Solvent
<1>4. CASE cash' = cash /\ raised' = raised
  BY <1>1, <1>4 DEF Solvent
<1>5. Fill \/ Mark \/ (cash' = cash /\ raised' = raised)
  <2>1. ASSUME NEW from, NEW to, Pass(from, to) PROVE cash' = cash /\ raised' = raised
    BY <2>1 DEF Pass, accounts
  <2>2. ASSUME NEW t, NEW c, EarlyDecision(t, c) \/ LateDecision(t, c) PROVE cash' = cash /\ raised' = raised
    BY <2>2 DEF EarlyDecision, LateDecision, accounts
  <2>3. ASSUME NEW b, NextSession(b) PROVE cash' = cash /\ raised' = raised
    BY <2>3 DEF NextSession, accounts
  <2>4. ASSUME UNCHANGED backVars PROVE cash' = cash /\ raised' = raised
    BY <2>4 DEF backVars, accounts
  <2> QED
    BY <2>1, <2>2, <2>3, <2>4 DEF BackNext, NoDecision, RefusedDecision
<1> QED
  BY <1>2, <1>3, <1>4, <1>5

(* Every cent and share has an account that adds up, and none of the         *)
(* engine's checks fires, as long as a share is never sold for less than the *)
(* commission: below that a sell may cost more than it brings and the cash   *)
(* goes negative, which ends the backtest (engine.py:579-599).               *)
THEOREM AccountsHold ==
    ASSUME SalesPay
    PROVE  BackSpec => []AccountsAddUp
<1>1. BackInit => Solvent
  <2> SUFFICES ASSUME BackInit PROVE Solvent
    OBVIOUS
  <2>1. Capital >= 0
    BY BacktestAssumption DEF BacktestAssumption
  <2> QED
    BY <2>1, BackStarts DEF Solvent, BackInit
<1>2. Solvent /\ [BackNext]_backVars => Solvent'
  BY SolventKeeps
<1>3. Solvent => AccountsAddUp
  BY DEF Solvent, BackInv, AccountsAddUp, NothingRaised
<1> QED
  BY <1>1, <1>2, <1>3, PTL DEF BackSpec

-----------------------------------------------------------------------------
(* Signals: what is seen of a series, and indicators of it. *)

Bar == [at : Nat, close : Levels]
Seen(b, asOf) == Cardinality({k \in DOMAIN b : b[k].at <= asOf})
WindowsFit == setup.fast \in Nat \ {0} /\ setup.slow \in Nat \ {0} /\ setup.fast < setup.slow

LEMMA SeenIsPart ==
    ASSUME NEW b \in Seq(Bar), NEW asOf
    PROVE  Seen(b, asOf) \in 0..Len(b)
<1> DEFINE N == Len(b)
           S == {k \in DOMAIN b : b[k].at <= asOf}
<1>1. N \in Nat /\ S \in SUBSET (1..N)
  BY LenProperties
<1> HIDE DEF S, N
<1>2. IsFiniteSet(1..N) /\ Cardinality(1..N) = N
  BY <1>1, FS_Interval
<1>3. IsFiniteSet(S) /\ Cardinality(S) <= N
  BY <1>1, <1>2, FS_Subset
<1>4. Cardinality(S) \in Nat
  BY <1>3, FS_CardinalityType
<1> QED
  BY <1>1, <1>3, <1>4 DEF Seen, S, N

\* A later bar changes nothing of what was seen before it.
LEMMA LaterIsUnseen ==
    ASSUME NEW b \in Seq(Bar), NEW x \in Bar, NEW asOf \in Nat, asOf < x.at
    PROVE  /\ Seen(Append(b, x), asOf) = Seen(b, asOf)
           /\ SubSeq(Append(b, x), 1, Seen(b, asOf)) = SubSeq(b, 1, Seen(b, asOf))
<1> DEFINE c == Append(b, x)
<1>1. /\ c \in Seq(Bar) /\ Len(b) \in Nat /\ Len(c) = Len(b) + 1 /\ DOMAIN c = 1..Len(c)
      /\ DOMAIN b = 1..Len(b) /\ c[Len(b) + 1] = x /\ \A k \in 1..Len(b) : c[k] = b[k]
  BY LenProperties, AppendProperties
<1>2. x.at \in Nat /\ ~ (x.at <= asOf)
  BY DEF Bar
<1> HIDE DEF c
<1>3. {k \in DOMAIN c : c[k].at <= asOf} = {k \in DOMAIN b : b[k].at <= asOf}
  BY <1>1, <1>2
<1>4. Seen(c, asOf) = Seen(b, asOf)
  BY <1>3 DEF Seen
<1>5. PICK n \in 0..Len(b) : n = Seen(b, asOf)
  BY SeenIsPart
<1>6. SubSeq(c, 1, n) = SubSeq(b, 1, n)
  BY <1>1
<1> QED
  BY <1>4, <1>5, <1>6 DEF c

LEMMA IndicatorIsCausal ==
    ASSUME NEW b \in Seq(Bar), NEW n \in 0..Len(b), NEW i \in 1..n, NEW s, WindowsFit
    PROVE  Indicator(s, SubSeq(b, 1, n), i) = Indicator(s, b, i)
<1> DEFINE c == SubSeq(b, 1, n)
<1>1. Len(b) \in Nat /\ \A k \in 1..n : c[k] = b[k]
  BY LenProperties
<1> HIDE DEF c
<1>2. ASSUME NEW m \in 1..i PROVE Total(c, m, i) = Total(b, m, i)
  <2>1. \A k \in 1..m : i - m + k \in 1..n
    BY <1>1
  <2>2. LastOf(c, m, i) = LastOf(b, m, i)
    BY <1>1, <2>1 DEF LastOf
  <2> QED
    BY <2>2 DEF Total
<1>3. ASSUME NEW m \in 1..i, NEW l \in 1..i PROVE Above(c, m, l, i) = Above(b, m, l, i)
  BY <1>2 DEF Above
<1>4. setup.fast <= i => (FlatAt(c, i) <=> FlatAt(b, i))
  <2>1. \A k \in 0..(setup.fast - 1) : setup.fast <= i => i - k \in 1..n
    BY <1>1 DEF WindowsFit
  <2>2. c[i] = b[i]
    BY <1>1
  <2> QED
    BY <1>1, <2>1, <2>2 DEF FlatAt
<1>5. 1 \in 1..i /\ (~ (i < setup.fast) => setup.fast \in 1..i /\ setup.fast <= i)
      /\ (~ (i < setup.slow) => setup.slow \in 1..i /\ setup.fast \in 1..i)
  BY <1>1 DEF WindowsFit
<1> QED
  BY <1>3, <1>4, <1>5 DEF Indicator, c

LEMMA FrameIsCausal ==
    ASSUME NEW b \in Seq(Bar), NEW n \in 0..Len(b), NEW s, WindowsFit
    PROVE  SubSeq(Frame(s, b), 1, n) = Frame(s, SubSeq(b, 1, n))
<1>1. Len(b) \in Nat /\ DOMAIN b = 1..Len(b)
  BY LenProperties
<1>2. DOMAIN SubSeq(b, 1, n) = 1..n
  BY <1>1
<1>3. Frame(s, SubSeq(b, 1, n)) = [i \in 1..n |-> Indicator(s, b, i)]
  BY <1>2, IndicatorIsCausal DEF Frame
<1>4. Frame(s, b) = [i \in 1..Len(b) |-> Indicator(s, b, i)]
  BY <1>1 DEF Frame
<1> QED
  BY <1>1, <1>3, <1>4

-----------------------------------------------------------------------------
(* The invariant: the last batch is what would be computed today. *)

SignalInv ==
    /\ setup \in Setups /\ ValidateParams(setup)
    /\ history \in Seq(Bar) /\ confirming \in Seq(Bar)
    /\ \A i \in 1..Len(history) : history[i].at = i
    /\ told.asOf \in 0..Len(history)
    /\ told.asOf = 0 => told = NoBatch
    /\ told.asOf > 0 => told.signals = [s \in Strategies |-> GenerateSignal(s, told.asOf)]

LEMMA SignalsStart == SignalInit => SignalInv
BY DEF SignalInit, SignalInv, NoBatch

LEMMA VisibleBars ==
    ASSUME NEW b, NEW asOf
    PROVE  Visible(<< b, b >>, asOf)[1] = SubSeq(b, 1, Seen(b, asOf))
BY DEF Visible, Seen

\* A signal depends on the parameters, and on the data it is given.
LEMMA SetupDecides ==
    ASSUME setup' = setup, NEW s, NEW p, NEW o
    PROVE  Signal(s, p, o)' = Signal(s, p, o)
<1>1. Warmup(s)' = Warmup(s) /\ Optional(s, o)' = Optional(s, o)
  BY DEF Warmup, Extra, Optional
<1>2. \A e : WithinLimits(s, e)' <=> WithinLimits(s, e)
  BY DEF WithinLimits, MaxLong, MaxShort
<1>3. \A f : CrossEvaluation(f)' = CrossEvaluation(f) /\ TransitionScore(f)' = TransitionScore(f)
  BY DEF CrossEvaluation, BearishExposure, TransitionScore
<1>4. \A x : ExposureFor(s, x)' = ExposureFor(s, x)
  BY DEF ExposureFor, MaxLong, MaxShort
<1>5. \A f, x : Evaluate4(s, f, x)' = Evaluate4(s, f, x)
  BY <1>3, <1>4 DEF Evaluate4, Evaluation, TrendScore, Undefined
<1> QED
  BY <1>1, <1>2, <1>5 DEF Signal

LEMMA NewBarKeeps ==
    ASSUME SignalInv, NEW close \in Levels, NEW other \in Levels \cup {0}, NewBar(close, other)
    PROVE  SignalInv'
<1> DEFINE N == Len(history)
           x == [at |-> N + 1, close |-> close]
           y == [at |-> N + 1, close |-> other]
<1>1. /\ setup \in Setups /\ ValidateParams(setup) /\ history \in Seq(Bar) /\ confirming \in Seq(Bar)
      /\ told.asOf \in 0..N /\ \A i \in 1..N : history[i].at = i
  BY DEF SignalInv
<1>2. /\ history' = Append(history, x) /\ setup' = setup /\ told' = told
      /\ \/ confirming' = confirming
         \/ other \in Levels /\ confirming' = Append(confirming, y)
  BY DEF NewBar
<1>3. N \in Nat /\ x \in Bar /\ (other \in Levels => y \in Bar) /\ x.at = N + 1 /\ y.at = N + 1
  BY <1>1, LenProperties DEF Bar
<1>4. /\ history' \in Seq(Bar) /\ Len(history') = N + 1 /\ confirming' \in Seq(Bar)
      /\ history'[N + 1] = x /\ \A i \in 1..N : history'[i] = history[i]
  <2> HIDE DEF x, y
  <2>1. /\ Append(history, x) \in Seq(Bar) /\ Len(Append(history, x)) = Len(history) + 1
        /\ \A i \in 1..Len(history) : Append(history, x)[i] = history[i]
        /\ Append(history, x)[Len(history) + 1] = x
    BY <1>1, <1>3, AppendProperties
  <2>2. other \in Levels => Append(confirming, y) \in Seq(Bar)
    BY <1>1, <1>3, AppendProperties
  <2>3. confirming' \in Seq(Bar)
    BY <1>1, <1>2, <2>2, Zenon
  <2> QED
    BY <1>2, <2>1, <2>3, Zenon
<1>5. \A i \in 1..Len(history') : history'[i].at = i
  BY <1>1, <1>3, <1>4
<1>6. told.asOf \in Nat /\ told.asOf < N + 1
  BY <1>1, <1>3
<1> HIDE DEF x, y, N
<1>7. Visible(<< history', history' >>, told.asOf)[1] = Visible(<< history, history >>, told.asOf)[1]
  <2>1. told.asOf < x.at
    BY <1>3, <1>6
  <2>2. /\ Seen(Append(history, x), told.asOf) = Seen(history, told.asOf)
        /\ SubSeq(Append(history, x), 1, Seen(history, told.asOf))
             = SubSeq(history, 1, Seen(history, told.asOf))
    BY <1>1, <1>3, <1>6, <2>1, LaterIsUnseen
  <2>3. /\ Seen(history', told.asOf) = Seen(history, told.asOf)
        /\ SubSeq(history', 1, Seen(history, told.asOf)) = SubSeq(history, 1, Seen(history, told.asOf))
    BY <1>2, <2>2
  <2> QED
    BY <2>3 DEF Visible, Seen
<1>8. Visible(<< confirming', confirming' >>, told.asOf)[1] = Visible(<< confirming, confirming >>, told.asOf)[1]
  <2>1. told.asOf < y.at
    BY <1>3, <1>6
  <2>2. CASE confirming' = confirming
    BY <2>2
  <2>3. CASE other \in Levels /\ confirming' = Append(confirming, y)
    <3>1. /\ Seen(Append(confirming, y), told.asOf) = Seen(confirming, told.asOf)
          /\ SubSeq(Append(confirming, y), 1, Seen(confirming, told.asOf))
               = SubSeq(confirming, 1, Seen(confirming, told.asOf))
      BY <1>1, <1>3, <1>6, <2>1, <2>3, LaterIsUnseen
    <3>2. /\ Seen(confirming', told.asOf) = Seen(confirming, told.asOf)
          /\ SubSeq(confirming', 1, Seen(confirming, told.asOf))
               = SubSeq(confirming, 1, Seen(confirming, told.asOf))
      BY <2>3, <3>1
    <3> QED
      BY <3>2 DEF Visible, Seen
  <2> QED
    BY <1>2, <2>2, <2>3
<1>9. told.asOf > 0 => told'.signals = [s \in Strategies |-> GenerateSignal(s, told.asOf)']
  <2>1. SUFFICES ASSUME NEW s \in Strategies PROVE GenerateSignal(s, told.asOf)' = GenerateSignal(s, told.asOf)
    BY <1>2 DEF SignalInv
  <2>2. \A b : Frame(s, b)' = Frame(s, b)
    BY <1>2 DEF Frame, Indicator, FlatAt
  <2>3. \A p, o : Signal(s, p, o)' = Signal(s, p, o)
    BY <1>2, SetupDecides
  <2> QED
    BY <1>2, <1>7, <1>8, <2>2, <2>3 DEF GenerateSignal
<1>10. ValidateParams(setup)'
  BY <1>1, <1>2 DEF ValidateParams
<1> QED
  BY <1>1, <1>2, <1>4, <1>5, <1>6, <1>9, <1>10, <1>3 DEF SignalInv, N
LEMMA SignalStepKeeps == SignalInv /\ [SignalNext]_signalVars => SignalInv'
<1> SUFFICES ASSUME SignalInv, [SignalNext]_signalVars PROVE SignalInv'
  OBVIOUS
<1>1. ASSUME NEW close \in Levels, NEW other \in Levels \cup {0}, NewBar(close, other) PROVE SignalInv'
  BY <1>1, NewBarKeeps
<1>2. ASSUME RunStrategies PROVE SignalInv'
  <2>1. setup' = setup /\ history' = history /\ confirming' = confirming
    BY <1>2 DEF RunStrategies
  <2>2. told'.asOf = Len(history) /\ told'.signals = [s \in Strategies |-> GenerateSignal(s, Len(history))]
    BY <1>2 DEF RunStrategies
  <2>3. Len(history) \in 0..Len(history)
    BY LenProperties DEF SignalInv
  <2>4. \A s : GenerateSignal(s, Len(history))' = GenerateSignal(s, Len(history))
    <3>1. \A s, b : Frame(s, b)' = Frame(s, b)
      BY <2>1 DEF Frame, Indicator, FlatAt
    <3>2. \A s, p, o : Signal(s, p, o)' = Signal(s, p, o)
      BY <2>1, SetupDecides
    <3> QED
      BY <2>1, <3>1, <3>2 DEF GenerateSignal
  <2>5. ValidateParams(setup)'
    BY <2>1 DEF SignalInv, ValidateParams
  <2>6. Len(history) # 0
    BY <1>2 DEF RunStrategies, SignalInv
  <2> QED
    BY <2>1, <2>2, <2>3, <2>4, <2>5, <2>6 DEF SignalInv
<1>3. ASSUME UNCHANGED signalVars PROVE SignalInv'
  <2>1. setup' = setup /\ history' = history /\ confirming' = confirming /\ told' = told
    BY <1>3 DEF signalVars
  <2>2. \A s : GenerateSignal(s, told.asOf)' = GenerateSignal(s, told.asOf)
    <3>1. \A s, b : Frame(s, b)' = Frame(s, b)
      BY <2>1 DEF Frame, Indicator, FlatAt
    <3>2. \A s, p, o : Signal(s, p, o)' = Signal(s, p, o)
      BY <2>1, SetupDecides
    <3> QED
      BY <2>1, <3>1, <3>2 DEF GenerateSignal
  <2>3. ValidateParams(setup)'
    BY <2>1 DEF SignalInv, ValidateParams
  <2> QED
    BY <2>1, <2>2, <2>3 DEF SignalInv
<1> QED
  BY <1>1, <1>2, <1>3 DEF SignalNext

\* The invariant holds, whatever bars come and whenever batches are told.
LEMMA SignalsHold == SignalSpec => []SignalInv
BY SignalsStart, SignalStepKeeps, PTL DEF SignalSpec

LEMMA WindowsAreOrdered ==
    ASSUME SignalInv
    PROVE  WindowsFit
BY SetupsAreTyped DEF SignalInv, ValidateParams, WindowsFit

\* Everything that was told is seen, and it is as long as its day.
LEMMA AllIsSeen ==
    ASSUME SignalInv
    PROVE  Visible(<< history, history >>, told.asOf)[1] = SubSeq(history, 1, told.asOf)
<1> DEFINE N == Len(history)
           n == told.asOf
<1>1. N \in Nat /\ n \in 0..N /\ DOMAIN history = 1..N /\ \A i \in 1..N : history[i].at = i
  BY LenProperties DEF SignalInv
<1> HIDE DEF n, N
<1>2. {k \in DOMAIN history : history[k].at <= n} = 1..n
  BY <1>1
<1>3. Cardinality(1..n) = n
  BY <1>1, FS_Interval
<1> QED
  BY <1>2, <1>3 DEF Visible, n

LEMMA BacktestTellsTheSame == SignalInv => SignalsStand
<1> SUFFICES ASSUME SignalInv, told.asOf > 0, NEW s \in Strategies
             PROVE  SignalAt(s, told.asOf) = told.signals[s]
  BY DEF SignalsStand
<1> DEFINE Sliced(b) == Visible(<< b, Frame(s, b) >>, told.asOf)
           Fresh(b)  == << Visible(<< b, b >>, told.asOf)[1], Frame(s, Visible(<< b, b >>, told.asOf)[1]) >>
<1>1. ASSUME NEW b \in Seq(Bar) PROVE Sliced(b) = Fresh(b)
  <2>1. PICK n \in 0..Len(b) : n = Seen(b, told.asOf)
    BY SeenIsPart
  <2>2. Visible(<< b, b >>, told.asOf)[1] = SubSeq(b, 1, n)
    BY <2>1, VisibleBars
  <2>3. Sliced(b) = << SubSeq(b, 1, n), SubSeq(Frame(s, b), 1, n) >>
    BY <2>1 DEF Visible, Seen
  <2> QED
    BY <2>2, <2>3, FrameIsCausal, WindowsAreOrdered
<1>2. Sliced(history) = Fresh(history) /\ Sliced(confirming) = Fresh(confirming)
  BY <1>1 DEF SignalInv
<1> HIDE DEF Sliced, Fresh
<1>3. SignalAt(s, told.asOf) = Signal(s, Sliced(history), Sliced(confirming))
  BY DEF SignalAt, Precompute, Sliced
<1>4. GenerateSignal(s, told.asOf) = Signal(s, Fresh(history), Fresh(confirming))
  BY DEF GenerateSignal, Fresh
<1> QED
  BY <1>2, <1>3, <1>4 DEF SignalInv

-----------------------------------------------------------------------------
(* Crosses. *)

Sides == {-1, 0, 1}

LEMMA SideIsOne == \A b, n, m, i : Above(b, n, m, i) \in Sides
BY DEF Above, SignOf, Sides

SidesTaken(frame, g) ==
    /\ g \in [0..Len(frame) -> Sides] /\ g[0] = 0
    /\ \A n \in 1..Len(frame) : g[n] = IF Strict(frame[n]) # 0 THEN Strict(frame[n]) ELSE g[n - 1]

LEMMA RegimesExist ==
    ASSUME NEW frame \in Seq(Sides \cup {Undefined})
    PROVE  SidesTaken(frame, CrossHistory(frame).regime)
<1> DEFINE N == Len(frame)
           regime == CHOOSE f : f = [n \in 0..N |-> IF n = 0 THEN 0 ELSE
                         IF Strict(frame[n]) # 0 THEN Strict(frame[n]) ELSE f[n - 1]]
           F == [p \in (1..N) \X Sides |-> IF Strict(frame[p[1]]) # 0 THEN Strict(frame[p[1]]) ELSE p[2]]
<1>1. N \in Nat /\ \A n \in 1..N : Strict(frame[n]) \in Sides
  <2>1. N \in Nat /\ \A n \in 1..N : frame[n] \in Sides \cup {Undefined}
    BY LenProperties, ElementOfSeq
  <2> QED
    BY <2>1 DEF Strict, Sides
<1> HIDE DEF N
<1>2. F \in StepsOn(N, Sides)
  BY <1>1 DEF StepsOn
<1> HIDE DEF F
<1>3. PICK g : Taken(N, Sides, 0, F, g)
  <2>1. 0 \in Sides
    BY DEF Sides
  <2> QED
    BY <1>1, <1>2, <2>1, RecursionExists
<1>4. ASSUME NEW n \in 1..N PROVE g[n] = IF Strict(frame[n]) # 0 THEN Strict(frame[n]) ELSE g[n - 1]
  <2>1. n - 1 \in 0..N
    BY <1>1
  <2>2. << n, g[n - 1] >> \in (1..N) \X Sides
    BY <1>3, <2>1 DEF Taken
  <2>3. F[<< n, g[n - 1] >>] = IF Strict(frame[n]) # 0 THEN Strict(frame[n]) ELSE g[n - 1]
    BY <2>2 DEF F
  <2> QED
    BY <1>3, <2>3 DEF Taken
<1>5. g = [n \in 0..N |-> IF n = 0 THEN 0 ELSE
              IF Strict(frame[n]) # 0 THEN Strict(frame[n]) ELSE g[n - 1]]
  BY <1>1, <1>3, <1>4 DEF Taken
<1>6. regime = [n \in 0..N |-> IF n = 0 THEN 0 ELSE
              IF Strict(frame[n]) # 0 THEN Strict(frame[n]) ELSE regime[n - 1]]
  BY <1>5
<1>7. CrossHistory(frame).regime = regime
  BY DEF CrossHistory, N
<1> HIDE DEF regime
<1>8. regime[0] = 0 /\ \A n \in 1..N : regime[n] = IF Strict(frame[n]) # 0 THEN Strict(frame[n]) ELSE regime[n - 1]
  BY <1>1, <1>6
<1>9. \A n \in 0..N : regime[n] \in Sides
  <2> DEFINE S == {n \in 0..N : regime[n] \notin Sides}
  <2>1. SUFFICES ASSUME S # {} PROVE FALSE
    OBVIOUS
  <2>2. PICK m \in S : \A k \in S : m <= k
    <3>1. S \in SUBSET Nat
      OBVIOUS
    <3> HIDE DEF S
    <3> QED
      BY <2>1, <3>1, Smallest
  <2>3. m \in 1..N /\ m - 1 \in 0..N /\ m - 1 \notin S
    BY <1>1, <1>8, <2>2 DEF Sides
  <2> QED
    BY <1>1, <1>8, <2>2, <2>3
<1>10. regime \in [0..N -> Sides]
  BY <1>6, <1>9
<1> QED
  BY <1>7, <1>8, <1>10 DEF SidesTaken, N

\* The side in force is the last one taken.
InForce(frame, g, i) ==
    \/ g[i] = 0 /\ \A j \in 1..i : Strict(frame[j]) = 0
    \/ \E j \in 1..i : /\ Strict(frame[j]) # 0 /\ g[i] = Strict(frame[j])
                       /\ \A k \in (j + 1)..i : Strict(frame[k]) = 0

LEMMA SideInForce ==
    ASSUME NEW frame, Len(frame) \in Nat, NEW g, SidesTaken(frame, g)
    PROVE  \A i \in 0..Len(frame) : InForce(frame, g, i)
<1> DEFINE N == Len(frame)
           S == {m \in 0..N : ~ InForce(frame, g, m)}
<1>1. SUFFICES ASSUME S # {} PROVE FALSE
  OBVIOUS
<1>2. PICK m \in S : \A k \in S : m <= k
  <2>1. S \in SUBSET Nat
    OBVIOUS
  <2> HIDE DEF S
  <2> QED
    BY <1>1, <2>1, Smallest
<1>3. g[0] = 0 /\ \A n \in 1..N : g[n] = IF Strict(frame[n]) # 0 THEN Strict(frame[n]) ELSE g[n - 1]
  BY DEF SidesTaken
<1>4. m \in 1..N /\ m - 1 \in 0..N /\ m - 1 \notin S
  BY <1>2, <1>3 DEF InForce
<1>5. ~ InForce(frame, g, m) /\ InForce(frame, g, m - 1) /\ m - 1 \in Nat /\ m \in Nat
  BY <1>2, <1>4
<1> HIDE DEF S, N
<1>6. CASE Strict(frame[m]) # 0
  BY <1>3, <1>4, <1>5, <1>6 DEF InForce
<1>7. CASE Strict(frame[m]) = 0
  <2>1. g[m] = g[m - 1]
    BY <1>3, <1>4, <1>7
  <2>2. CASE g[m - 1] = 0 /\ \A j \in 1..(m - 1) : Strict(frame[j]) = 0
    BY <1>5, <1>7, <2>1, <2>2 DEF InForce
  <2>3. ASSUME NEW j \in 1..(m - 1), Strict(frame[j]) # 0, g[m - 1] = Strict(frame[j]),
               \A k \in (j + 1)..(m - 1) : Strict(frame[k]) = 0
        PROVE  FALSE
    <3>1. j \in 1..m /\ \A k \in (j + 1)..m : Strict(frame[k]) = 0
      BY <1>5, <1>7, <2>3
    <3> QED
      BY <1>5, <2>1, <2>3, <3>1 DEF InForce
  <2> QED
    BY <1>5, <2>2, <2>3 DEF InForce
<1> QED
  BY <1>6, <1>7

-----------------------------------------------------------------------------
(* What the frames of the last batch are. *)

Batch(s) == << SubSeq(history, 1, told.asOf), Frame(s, SubSeq(history, 1, told.asOf)) >>

LEMMA BatchIs ==
    ASSUME SignalInv, told.asOf > 0, NEW s \in Strategies
    PROVE  /\ told.asOf \in Nat \ {0} /\ Len(Batch(s)[1]) = told.asOf
           /\ Len(Batch(s)[2]) = told.asOf
           /\ Batch(s)[2] = [i \in 1..told.asOf |-> Indicator(s, history, i)]
           /\ \E o : told.signals[s] = Signal(s, Batch(s), o)
<1> DEFINE n == told.asOf
           b == SubSeq(history, 1, n)
<1>1. Len(history) \in Nat /\ n \in 0..Len(history) /\ n \in Nat \ {0}
  BY LenProperties DEF SignalInv
<1>2. Len(b) = n /\ DOMAIN b = 1..n
  BY <1>1
<1>3. Frame(s, b) = [i \in 1..n |-> Indicator(s, history, i)]
  BY <1>1, <1>2, IndicatorIsCausal, WindowsAreOrdered DEF Frame, SignalInv
<1>4. Len(Frame(s, b)) = n
  BY <1>1, <1>3
<1>5. \E o : told.signals[s] = Signal(s, << b, Frame(s, b) >>, o)
  <2>1. told.signals[s] = GenerateSignal(s, n)
    BY DEF SignalInv
  <2> QED
    BY <2>1, AllIsSeen DEF GenerateSignal
<1> QED
  BY <1>1, <1>2, <1>3, <1>4, <1>5 DEF Batch

-----------------------------------------------------------------------------
(* Refusals. *)

LEMMA BatchSides ==
    ASSUME SignalInv, told.asOf > 0, NEW s \in Strategies, NEW i \in 1..told.asOf,
           s # "extension"
    PROVE  /\ i < setup.slow => Batch(s)[2][i] = Undefined
           /\ i >= setup.slow => /\ Batch(s)[2][i] \in Sides
                                 /\ s = "cross" => Batch(s)[2][i] = Above(history, setup.fast, setup.slow, i)
<1>1. Batch(s)[2][i] = Indicator(s, history, i)
  BY BatchIs
<1>2. i \in Nat /\ setup.slow \in Nat
  BY BatchIs, WindowsAreOrdered DEF WindowsFit
<1> QED
  BY <1>1, <1>2, SideIsOne DEF Indicator

LEMMA ParametersFit ==
    ASSUME SignalInv
    PROVE  /\ setup.long \in Nat /\ setup.short \in Nat /\ setup.look \in Nat
           /\ BearishExposure \in Int /\ - setup.short <= BearishExposure
           /\ BearishExposure <= setup.long
<1>1. /\ setup.long \in Nat /\ setup.short \in Nat /\ setup.reduced \in Nat /\ setup.look \in Nat
      /\ setup.action = "qqq_reduced" => setup.reduced <= setup.long
  BY SetupsAreTyped DEF SignalInv, ValidateParams
<1> QED
  BY <1>1 DEF BearishExposure

\* Scores and exposures are within the limits of accepted parameters.
LEMMA SignalsFit ==
    ASSUME SignalInv, NEW s \in Strategies, NEW frame, NEW other, Len(frame) \in Nat \ {0},
           frame[Len(frame)] \in Sides,
           s = "cross" => frame \in Seq(Sides \cup {Undefined})
    PROVE  WithinLimits(s, Evaluate4(s, frame, other))
<1> DEFINE latest == frame[Len(frame)]
           e == Evaluate4(s, frame, other)
<1>1. CASE s = "cross"
  <2>1. PICK side \in Sides : side = CrossHistory(frame).regime[Len(frame)]
    BY <1>1, RegimesExist DEF SidesTaken
  <2>2. e = CrossEvaluation(frame) /\ MaxLong(s) = setup.long /\ MaxShort(s) = setup.short
    BY <1>1 DEF Evaluate4, MaxLong, MaxShort
  <2> HIDE DEF e
  <2>3. e.score = 2 * side /\ e.exposure = 2 * (CASE side > 0 -> setup.long
                                                  [] side < 0 -> BearishExposure
                                                  [] OTHER    -> 0)
    BY <2>1, <2>2 DEF CrossEvaluation
  <2>4. e.score \in -2..2 /\ -2 * setup.short <= e.exposure /\ e.exposure <= 2 * setup.long
    <3>1. PICK long, short \in Nat, low \in Int :
             /\ long = setup.long /\ short = setup.short /\ low = BearishExposure
             /\ - short <= low /\ low <= long
      BY ParametersFit
    <3>2. side \in {-1, 0, 1}
      BY <2>1 DEF Sides
    <3>3. e.score \in -2..2
      BY <2>3, <3>2
    <3>4. e.exposure = 2 * (CASE side > 0 -> long [] side < 0 -> low [] OTHER -> 0)
      BY <2>3, <3>1
    <3>5. e.exposure \in {2 * long, 2 * low, 0}
      BY <3>2, <3>4
    <3>6. /\ -2 * short <= 2 * low /\ 2 * low <= 2 * long
          /\ -2 * short <= 2 * long /\ -2 * short <= 0 /\ 0 <= 2 * long
      BY <3>1
    <3>7. 2 * long <= 2 * long
      OBVIOUS
    <3>8. -2 * short <= e.exposure /\ e.exposure <= 2 * long
      BY <3>5, <3>6, <3>7, Zenon
    <3> QED
      BY <3>1, <3>3, <3>8, Zenon
  <2> QED
    BY <2>2, <2>4 DEF WithinLimits, e
<1>2. CASE s # "cross"
  <2>1. PICK score \in -2..2 : e = Evaluation(score, ExposureFor(s, score))
    <3>1. latest \in Sides /\ TrendScore(latest, other) \in -2..2 /\ -2 * latest \in -2..2
      BY DEF TrendScore, Sides
    <3>2. TransitionScore(frame) \in -2..2
      BY <3>1 DEF TransitionScore, Sides
    <3> QED
      BY <1>2, <3>1, <3>2 DEF Evaluate4, Strategies
  <2>2. MaxLong(s) = 1 /\ MaxShort(s) = 0
    BY <1>2 DEF MaxLong, MaxShort
  <2> HIDE DEF e
  <2>3. e.score = score /\ e.exposure = IF score >= 0 THEN score ELSE 0
    BY <2>1, <2>2 DEF Evaluation, ExposureFor
  <2> QED
    BY <2>2, <2>3 DEF WithinLimits, e
<1> QED
  BY <1>1, <1>2

LEMMA RefusedWhen ==
    ASSUME SignalInv, told.asOf > 0, NEW s \in Strategies
    PROVE  told.signals[s].state = "ok" <=>
             told.asOf >= Warmup(s) /\ (s = "extension" => ~ FlatAt(history, told.asOf))
<1> DEFINE n == told.asOf
           frame == Batch(s)[2]
           sound == s = "extension" => ~ FlatAt(history, n)
<1>1. /\ n \in Nat \ {0} /\ Len(Batch(s)[1]) = n /\ Len(frame) = n
      /\ frame = [i \in 1..n |-> Indicator(s, history, i)]
  BY BatchIs
<1>2. PICK o : told.signals[s] = Signal(s, Batch(s), o)
  BY BatchIs
<1>3. Last(frame) = frame[n] /\ frame[n] = Indicator(s, history, n)
  BY <1>1 DEF Last
<1>4. n >= Warmup(s) => (frame[n] = Undefined <=> ~ sound) /\ (sound => frame[n] \in Sides)
  <2> SUFFICES ASSUME n >= Warmup(s)
               PROVE  (frame[n] = Undefined <=> ~ sound) /\ (sound => frame[n] \in Sides)
    OBVIOUS
  <2>1. setup.fast \in Nat /\ setup.slow \in Nat /\ setup.look \in Nat
    BY WindowsAreOrdered, ParametersFit DEF WindowsFit
  <2>2. CASE s = "extension"
    <3>1. Warmup(s) = setup.fast
      BY <2>1, <2>2 DEF Warmup, Extra
    <3>2. frame[n] = IF FlatAt(history, n) THEN Undefined ELSE Above(history, 1, setup.fast, n)
      BY <1>1, <1>3, <2>1, <2>2, <3>1 DEF Indicator
    <3> QED
      BY <2>2, <3>2, SideIsOne DEF Undefined, Sides
  <2>3. CASE s # "extension"
    <3>1. Warmup(s) >= setup.slow /\ Warmup(s) \in Nat
      BY <2>1, <2>3 DEF Warmup, Extra
    <3>2. frame[n] \in Sides
      BY <1>1, <2>1, <2>3, <3>1, BatchSides
    <3> QED
      BY <2>3, <3>2 DEF Undefined, Sides
  <2> QED
    BY <2>2, <2>3
<1>5. s = "cross" => frame \in Seq(Sides \cup {Undefined})
  <2> SUFFICES ASSUME s = "cross" PROVE frame \in Seq(Sides \cup {Undefined})
    OBVIOUS
  <2>1. \A i \in 1..n : frame[i] \in Sides \cup {Undefined}
    <3>1. setup.slow \in Nat /\ s # "extension"
      BY WindowsAreOrdered DEF WindowsFit
    <3> QED
      BY <1>1, <3>1, BatchSides
  <2> DEFINE T == Sides \cup {Undefined}
  <2>2. frame \in [1..n -> T]
    BY <1>1, <2>1
  <2> HIDE DEF frame, T
  <2>3. frame \in Seq(T)
    BY <1>1, <2>2
  <2> QED
    BY <2>3 DEF T
<1> HIDE DEF frame
<1>6. n >= Warmup(s) /\ sound => WithinLimits(s, Evaluate4(s, frame, Optional(s, o)))
  BY <1>1, <1>4, <1>5, SignalsFit
<1>7. /\ ~ (n >= Warmup(s)) => n < Warmup(s)
      /\ n >= Warmup(s) => ~ (n < Warmup(s))
  <2>1. Warmup(s) \in Nat
    BY WindowsAreOrdered, ParametersFit DEF Warmup, Extra, WindowsFit, Strategies
  <2> QED
    BY <1>1, <2>1
<1>8. CASE ~ (n >= Warmup(s))
  BY <1>1, <1>2, <1>7, <1>8 DEF Signal, Refusal
<1>9. CASE n >= Warmup(s) /\ ~ sound
  BY <1>1, <1>2, <1>3, <1>4, <1>7, <1>9 DEF Signal, Refusal, frame
<1>10. CASE n >= Warmup(s) /\ sound
  BY <1>1, <1>2, <1>3, <1>4, <1>6, <1>7, <1>10 DEF Signal, frame, Undefined, Sides
<1> QED
  BY <1>8, <1>9, <1>10

LEMMA RefusalsAreTrue == SignalInv => RefusalsAreOwed
BY RefusedWhen DEF RefusalsAreOwed, BatchOk, Strategies

-----------------------------------------------------------------------------
(* Crosses in a history. *)

SideOn(i) == Above(history, setup.fast, setup.slow, i)
Turns(i) == SideOn(i) # 0 /\ \E j \in setup.slow..(i - 1) :
                SideOn(j) = -SideOn(i) /\ \A k \in (j + 1)..(i - 1) : SideOn(k) = 0

\* Regime and events of a history of sides, told.asOf bars long.
LEMMA HistoryIs ==
    ASSUME SignalInv, NEW n \in Nat \ {0}, n = told.asOf, n >= setup.slow
    PROVE  LET h == CrossHistory(Batch("cross")[2])
           IN  /\ DOMAIN h.events = 1..n
               /\ \A i \in 1..n : h.events[i] = IF i >= setup.slow /\ Turns(i) THEN SideOn(i) ELSE 0
               /\ h.regime[n] \in Sides
               /\ \A i \in setup.slow..n :
                     (\A k \in (i + 1)..n : SideOn(k) = 0) /\ SideOn(i) # 0 => h.regime[n] = SideOn(i)
<1> DEFINE frame == Batch("cross")[2]
           h == CrossHistory(frame)
           g == h.regime
           slow == setup.slow
<1>0. "cross" \in Strategies /\ told.asOf > 0
  BY DEF Strategies
<1>1. Len(frame) = n /\ DOMAIN frame = 1..n
  BY <1>0, BatchIs
<1>2. slow \in Nat \ {0}
  BY WindowsAreOrdered DEF WindowsFit
<1>3. \A i \in 1..n : /\ i < slow => frame[i] = Undefined
                      /\ i >= slow => frame[i] \in Sides /\ frame[i] = SideOn(i)
  BY <1>0, BatchSides DEF SideOn
<1>4. frame \in Seq(Sides \cup {Undefined})
  <2> DEFINE T == Sides \cup {Undefined}
  <2>0. frame = [i \in 1..n |-> Indicator("cross", history, i)]
    BY <1>0, BatchIs
  <2>1. \A i \in 1..n : frame[i] \in T
    BY <1>2, <1>3
  <2> HIDE DEF frame, T
  <2>2. frame \in [1..n -> T]
    BY <2>0, <2>1
  <2>3. frame \in Seq(T)
    BY <1>1, <2>2
  <2> QED
    BY <2>3 DEF T
<1> HIDE DEF frame
<1>5. \A i \in 1..n : Strict(frame[i]) = IF i < slow THEN 0 ELSE SideOn(i)
  BY <1>2, <1>3 DEF Strict, Undefined, Sides
<1>6. \A i \in 1..n : i >= slow => SideOn(i) \in Sides
  BY <1>3
<1>7. SidesTaken(frame, g)
  BY <1>4, RegimesExist
<1>8. \A i \in 0..n : InForce(frame, g, i)
  BY <1>1, <1>7, SideInForce
<1>9. h.events = [i \in 1..n |-> IF Strict(frame[i]) # 0 /\ g[i - 1] \notin {0, Strict(frame[i])}
                                 THEN Strict(frame[i]) ELSE 0]
  BY <1>1 DEF CrossHistory
<1>10. \A i \in 0..n : g[i] \in Sides
  BY <1>1, <1>7 DEF SidesTaken
<1> DEFINE e == h.events
<1>11. DOMAIN e = 1..n /\ \A i \in 1..n : e[i] = IF Strict(frame[i]) # 0 /\ g[i - 1] \notin {0, Strict(frame[i])}
                                 THEN Strict(frame[i]) ELSE 0
  BY <1>9
<1> HIDE DEF h, g, e
<1>12. ASSUME NEW i \in 1..n
       PROVE  e[i] = IF i >= slow /\ Turns(i) THEN SideOn(i) ELSE 0
  <2>1. i - 1 \in 0..n /\ i \in Nat /\ slow \in Nat \ {0}
    BY <1>2
  <2>2. CASE i < slow
    <3>1. Strict(frame[i]) = 0 /\ ~ (i >= slow)
      BY <1>5, <2>1, <2>2
    <3> QED
      BY <1>11, <3>1
  <2>3. CASE i >= slow /\ SideOn(i) = 0
    BY <1>5, <1>11, <2>1, <2>3 DEF Turns
  <2>4. CASE i >= slow /\ SideOn(i) # 0
    <3>1. Strict(frame[i]) = SideOn(i) /\ SideOn(i) \in Sides
      BY <1>5, <1>6, <2>1, <2>4
    <3>2. CASE Turns(i)
      <4>1. PICK j \in slow..(i - 1) : SideOn(j) = -SideOn(i) /\ \A k \in (j + 1)..(i - 1) : SideOn(k) = 0
        BY <3>2 DEF Turns
      <4>2. j \in 1..n /\ j \in 1..(i - 1) /\ SideOn(j) \in Sides /\ SideOn(j) # 0
        BY <1>6, <2>1, <2>4, <3>1, <4>1 DEF Sides
      <4>3. \A k \in j..(i - 1) : k \in 1..n /\ k >= slow /\ Strict(frame[k]) = SideOn(k)
        BY <1>5, <2>1, <4>1, <4>2
      <4>4. g[i - 1] = SideOn(j)
        <5>1. InForce(frame, g, i - 1)
          BY <1>8, <2>1
        <5>2. Strict(frame[j]) = SideOn(j) /\ Strict(frame[j]) # 0
          BY <2>1, <4>1, <4>2, <4>3
        <5>3. PICK l \in 1..(i - 1) : /\ Strict(frame[l]) # 0 /\ g[i - 1] = Strict(frame[l])
                                      /\ \A k \in (l + 1)..(i - 1) : Strict(frame[k]) = 0
          BY <4>2, <5>1, <5>2 DEF InForce
        <5>4. l = j
          <6>1. CASE l < j
            <7>1. j \in (l + 1)..(i - 1)
              BY <2>1, <4>2, <6>1
            <7> QED
              BY <5>2, <5>3, <7>1
          <6>2. CASE j < l
            <7>1. l \in (j + 1)..(i - 1) /\ l \in j..(i - 1)
              BY <2>1, <4>2, <6>2
            <7> QED
              BY <4>1, <4>3, <5>3, <7>1
          <6> QED
            BY <2>1, <4>2, <6>1, <6>2
        <5> QED
          BY <5>2, <5>3, <5>4
      <4>5. g[i - 1] \notin {0, SideOn(i)}
        BY <3>1, <4>1, <4>2, <4>4, <2>4 DEF Sides
      <4> QED
        BY <1>11, <2>4, <3>1, <3>2, <4>5
    <3>3. CASE ~ Turns(i)
      <4>1. SUFFICES ASSUME g[i - 1] \notin {0, SideOn(i)} PROVE FALSE
        BY <1>11, <2>4, <3>1, <3>3
      <4>2. InForce(frame, g, i - 1) /\ g[i - 1] \in Sides
        BY <1>8, <1>10, <2>1
      <4>3. PICK l \in 1..(i - 1) : /\ Strict(frame[l]) # 0 /\ g[i - 1] = Strict(frame[l])
                                    /\ \A k \in (l + 1)..(i - 1) : Strict(frame[k]) = 0
        BY <4>1, <4>2 DEF InForce
      <4>4. l \in 1..n /\ l >= slow /\ Strict(frame[l]) = SideOn(l)
        BY <1>5, <2>1, <4>3
      <4>5. l \in slow..(i - 1) /\ SideOn(l) = -SideOn(i)
        BY <2>1, <2>4, <3>1, <4>1, <4>2, <4>3, <4>4 DEF Sides
      <4>6. \A k \in (l + 1)..(i - 1) : SideOn(k) = 0
        <5> SUFFICES ASSUME NEW k \in (l + 1)..(i - 1) PROVE SideOn(k) = 0
          OBVIOUS
        <5>1. k \in 1..n /\ ~ (k < slow)
          BY <2>1, <4>4
        <5> QED
          BY <1>5, <4>3, <5>1
      <4> QED
        BY <2>4, <3>3, <4>5, <4>6 DEF Turns
    <3> QED
      BY <3>2, <3>3
  <2> QED
    BY <2>1, <2>2, <2>3, <2>4
<1>13. ASSUME NEW i \in slow..n, \A k \in (i + 1)..n : SideOn(k) = 0, SideOn(i) # 0
       PROVE  g[n] = SideOn(i)
  <2>1. i \in 1..n /\ n \in 0..n /\ ~ (i < slow)
    BY <1>2
  <2>2. Strict(frame[i]) = SideOn(i)
    BY <1>5, <2>1
  <2>3. PICK l \in 1..n : /\ Strict(frame[l]) # 0 /\ g[n] = Strict(frame[l])
                          /\ \A k \in (l + 1)..n : Strict(frame[k]) = 0
    BY <1>8, <1>13, <2>1, <2>2 DEF InForce
  <2>4. l >= slow /\ Strict(frame[l]) = SideOn(l)
    BY <1>2, <1>5, <2>3
  <2>5. ~ (l < i)
    <3>1. l < i => i \in (l + 1)..n
      BY <2>1
    <3> QED
      BY <1>13, <2>2, <2>3, <3>1
  <2>6. ~ (i < l)
    <3>1. i < l => l \in (i + 1)..n
      BY <2>1
    <3> QED
      BY <1>13, <2>3, <2>4, <3>1
  <2> QED
    BY <2>1, <2>2, <2>3, <2>5, <2>6
<1> QED
  BY <1>10, <1>11, <1>12, <1>13 DEF h, g, e, frame

LEMMA LargestUpTo ==
    ASSUME NEW N \in Nat, NEW T \in SUBSET (1..N), T # {}
    PROVE  \E i \in T : \A j \in T : j <= i
<1> DEFINE S == {k \in 0..N : N - k \in T}
<1>1. S \in SUBSET Nat /\ S # {}
  <2>1. PICK x \in T : TRUE
    OBVIOUS
  <2>2. N - x \in 0..N /\ N - (N - x) = x
    OBVIOUS
  <2>3. N - x \in S
    BY <2>1, <2>2
  <2>4. S \subseteq Nat
    OBVIOUS
  <2> QED
    BY <2>3, <2>4
<1>2. PICK k \in S : \A j \in S : k <= j
  <2> HIDE DEF S
  <2> QED
    BY <1>1, Smallest
<1>3. N - k \in T
  BY <1>2
<1>4. ASSUME NEW j \in T PROVE j <= N - k
  <2>1. N - j \in S /\ j \in 1..N /\ k \in 0..N
    BY <1>2
  <2> QED
    BY <1>2, <2>1
<1> QED
  BY <1>3, <1>4

\* The record of an evaluation of the crosses, field by field.
EvaluatedAs(frame, c) ==
    LET e      == CrossHistory(frame).events
        g      == CrossHistory(frame).regime
        hits   == {i \in DOMAIN e : e[i] # 0}
        newest == IF hits = {} THEN 0 ELSE CHOOSE i \in hits : \A j \in hits : j <= i
    IN  /\ c.event = e[Len(frame)] /\ c.regime = g[Len(frame)]
        /\ c.last = IF newest = 0 THEN 0 ELSE e[newest]
        /\ c.since = IF newest = 0 THEN -1 ELSE Len(frame) - newest

LEMMA CrossEvaluationIs ==
    ASSUME NEW frame
    PROVE  EvaluatedAs(frame, CrossEvaluation(frame))
<1> DEFINE e == CrossHistory(frame).events
           g == CrossHistory(frame).regime
           hits == {i \in DOMAIN e : e[i] # 0}
           newest == IF hits = {} THEN 0 ELSE CHOOSE i \in hits : \A j \in hits : j <= i
           score == 2 * g[Len(frame)]
           exposure == 2 * (CASE g[Len(frame)] > 0 -> setup.long
                              [] g[Len(frame)] < 0 -> BearishExposure
                              [] OTHER             -> 0)
           last == IF newest = 0 THEN 0 ELSE e[newest]
           since == IF newest = 0 THEN -1 ELSE Len(frame) - newest
<1>1. CrossEvaluation(frame)
        = [score |-> score, exposure |-> exposure, regime |-> g[Len(frame)],
           event |-> e[Len(frame)], last |-> last, since |-> since]
  BY Zenon DEF CrossEvaluation
<1> HIDE DEF score, exposure, last, since
<1>2. /\ CrossEvaluation(frame).event = e[Len(frame)]
      /\ CrossEvaluation(frame).regime = g[Len(frame)]
      /\ CrossEvaluation(frame).last = last
      /\ CrossEvaluation(frame).since = since
  <2> HIDE DEF e, g
  <2> QED
    BY <1>1
<1> QED
  BY <1>2, Zenon DEF last, since, EvaluatedAs

LEMMA CrossesAreTrue == SignalInv => CrossesAreTransitions
<1> SUFFICES ASSUME SignalInv PROVE CrossesAreTransitions
  OBVIOUS
<1> DEFINE n == told.asOf
           slow == setup.slow
           c == told.signals["cross"].value
           frame == Batch("cross")[2]
           h == CrossHistory(frame)
           e == h.events
           g == h.regime
           hits == {i \in DOMAIN e : e[i] # 0}
           newest == IF hits = {} THEN 0 ELSE CHOOSE i \in hits : \A j \in hits : j <= i
<1>1. SUFFICES ASSUME told.signals["cross"].state = "ok"
      PROVE  /\ c.event = IF Turns(n) THEN SideOn(n) ELSE 0
             /\ IF c.since < 0 THEN \A i \in slow..n : ~ Turns(i)
                ELSE /\ Turns(n - c.since) /\ c.last = SideOn(n - c.since)
                     /\ \A i \in (n - c.since + 1)..n : ~ Turns(i)
             /\ \A i \in slow..n :
                   (\A k \in (i + 1)..n : SideOn(k) = 0) /\ SideOn(i) # 0 => c.regime = SideOn(i)
  BY DEF CrossesAreTransitions, Turns, SideOn
<1>2. n > 0 /\ "cross" \in Strategies
  <2>1. "cross" \in Strategies /\ n \in Nat
    BY LenProperties DEF Strategies, SignalInv
  <2>2. told # NoBatch
    BY <1>1, <2>1 DEF NoBatch, Refusal
  <2> QED
    BY <2>1, <2>2 DEF SignalInv
<1>3. n \in Nat \ {0} /\ n >= slow /\ slow \in Nat \ {0}
  <2>1. n \in Nat \ {0} /\ n >= Warmup("cross")
    BY <1>1, <1>2, BatchIs, RefusedWhen
  <2>2. slow \in Nat \ {0} /\ Warmup("cross") = slow + 1
    BY WindowsAreOrdered DEF WindowsFit, Warmup, Extra
  <2> QED
    BY <2>1, <2>2
<1>4. c = CrossEvaluation(frame)
  <2>1. PICK o : told.signals["cross"] = Signal("cross", Batch("cross"), o)
    BY <1>2, BatchIs
  <2> QED
    BY <1>1, <2>1 DEF Signal, Refusal, Evaluate4
<1>5. Len(frame) = n
  BY <1>2, BatchIs
<1>6. /\ DOMAIN e = 1..n
      /\ \A i \in 1..n : e[i] = IF i >= slow /\ Turns(i) THEN SideOn(i) ELSE 0
      /\ \A i \in slow..n :
            (\A k \in (i + 1)..n : SideOn(k) = 0) /\ SideOn(i) # 0 => g[n] = SideOn(i)
  BY <1>3, HistoryIs
<1>7. /\ c.event = e[n] /\ c.regime = g[n]
      /\ c.last = IF newest = 0 THEN 0 ELSE e[newest]
      /\ c.since = IF newest = 0 THEN -1 ELSE n - newest
  <2>1. /\ c.event = e[Len(frame)] /\ c.regime = g[Len(frame)]
        /\ c.last = IF newest = 0 THEN 0 ELSE e[newest]
        /\ c.since = IF newest = 0 THEN -1 ELSE Len(frame) - newest
    <3>1. EvaluatedAs(frame, c)
      <4> HIDE DEF frame, c
      <4> QED
        BY <1>4, CrossEvaluationIs
    <3> HIDE DEF frame, c
    <3> QED
      BY <3>1, Zenon DEF EvaluatedAs
  <2> HIDE DEF c, e, g, newest, frame, n
  <2> QED
    BY <1>5, <2>1
<1>8. hits \in SUBSET (1..n) /\ \A i \in 1..n : i \in hits <=> i >= slow /\ Turns(i)
  <2>1. \A i \in 1..n : Turns(i) => SideOn(i) # 0
    BY DEF Turns
  <2> HIDE DEF e
  <2> QED
    BY <1>6, <2>1
<1> HIDE DEF hits, c, e, g, h, frame
<1>9. CASE hits = {}
  <2>1. newest = 0 /\ c.since = -1
    BY <1>7, <1>9
  <2>2. \A i \in slow..n : ~ Turns(i)
    BY <1>3, <1>8, <1>9
  <2>3. c.event = IF Turns(n) THEN SideOn(n) ELSE 0
    BY <1>3, <1>6, <1>7
  <2> QED
    BY <1>6, <1>7, <2>1, <2>2, <2>3
<1>10. CASE hits # {}
  <2>1. \E i \in hits : \A j \in hits : j <= i
    BY <1>3, <1>8, <1>10, LargestUpTo
  <2>2. newest \in hits /\ \A j \in hits : j <= newest
    BY <1>10, <2>1
  <2> HIDE DEF newest
  <2>3. newest \in 1..n /\ newest >= slow /\ Turns(newest)
    BY <1>8, <2>2
  <2>4. c.since = n - newest /\ c.last = e[newest] /\ c.since >= 0 /\ n - c.since = newest
    BY <1>3, <1>7, <2>3
  <2>5. c.last = SideOn(newest)
    BY <1>6, <2>3, <2>4
  <2>6. \A i \in (newest + 1)..n : ~ Turns(i)
    <3> SUFFICES ASSUME NEW i \in (newest + 1)..n, Turns(i) PROVE FALSE
      OBVIOUS
    <3>1. i \in 1..n /\ i >= slow /\ ~ (i <= newest)
      BY <1>3, <2>3
    <3> QED
      BY <1>8, <2>2, <3>1
  <2>7. c.event = IF Turns(n) THEN SideOn(n) ELSE 0
    BY <1>3, <1>6, <1>7
  <2>8. ~ (c.since < 0)
    BY <1>3, <2>3, <2>4
  <2> QED
    BY <1>6, <1>7, <2>3, <2>4, <2>5, <2>6, <2>7, <2>8
<1> QED
  BY <1>9, <1>10

(* Live trading and a backtest speak of the same strategies: whatever bars   *)
(* come later, the backtest computes for a day what was told live on it,     *)
(* each cross is a change of side, told once, and a batch is refused for its *)
(* warm-up or a band without width only (strategies/base.py, runner.py).     *)
THEOREM StrategiesTellTheSame == SignalSpec => []StrategiesAgree
<1>1. SignalInv => StrategiesAgree
  BY BacktestTellsTheSame, CrossesAreTrue, RefusalsAreTrue DEF StrategiesAgree
<1> QED
  BY <1>1, SignalsHold, PTL

-----------------------------------------------------------------------------
(* The calendar. *)

\* The day of a time is the whole number of days before it.
LEMMA DayIs ==
    ASSUME NEW t \in Int
    PROVE  /\ Day(t) \in Int
           /\ Day(t) * DayLength <= t /\ t < Day(t) * DayLength + DayLength
<1>1. DayLength \in Nat \ {0}
  BY SessionsIncrease
<1>2. SUFFICES ASSUME NEW d \in Nat \ {0}
               PROVE  t \div d \in Int /\ (t \div d) * d <= t /\ t < (t \div d) * d + d
  BY <1>1 DEF Day
<1>3. t \div d \in Int
  OBVIOUS
<1>4. d * (t \div d) <= t
  OBVIOUS
<1>5. t < d * (t \div d) + d
  OBVIOUS
<1> QED
  <2>1. PICK q \in Int : q = t \div d
    BY <1>3
  <2>2. d * q <= t /\ t < d * q + d
    BY <1>4, <1>5, <2>1
  <2>3. d * q = q * d
    OBVIOUS
  <2>4. q * d <= t /\ t < q * d + d
    BY <2>2, <2>3
  <2> QED
    BY <2>1, <2>4

\* A later time is not on an earlier day.
LEMMA DaysGoOn ==
    ASSUME NEW t \in Int, NEW u \in Int, t <= u
    PROVE  Day(t) <= Day(u)
<1>1. PICK d \in Nat \ {0} : d = DayLength
  BY SessionsIncrease
<1>2. PICK a \in Int : a = Day(t) /\ a * d <= t /\ t < a * d + d
  BY <1>1, DayIs
<1>3. PICK b \in Int : b = Day(u) /\ b * d <= u /\ u < b * d + d
  BY <1>1, DayIs
<1> SUFFICES ASSUME b < a PROVE FALSE
  BY <1>2, <1>3
<1>4. (b + 1) * d = b * d + d
  OBVIOUS
<1>5. (b + 1) * d <= a * d
  OBVIOUS
<1>6. PICK p \in Int : p = a * d
  OBVIOUS
<1>7. PICK q \in Int : q = b * d
  OBVIOUS
<1>8. q + d <= p
  BY <1>4, <1>5, <1>6, <1>7
<1> QED
  BY <1>2, <1>3, <1>6, <1>7, <1>8

Calendar == 1 .. Len(Sessions)

LEMMA SessionIs ==
    /\ Len(Sessions) \in Nat \ {0} /\ DOMAIN Sessions = Calendar
    /\ \A i \in Calendar :
          /\ Sessions[i] \in Session
          /\ Sessions[i].date \in Int /\ Sessions[i].open \in Int /\ Sessions[i].close \in Int
          /\ Sessions[i].open < Sessions[i].close
          /\ Day(Sessions[i].open) = Sessions[i].date /\ Day(Sessions[i].close) = Sessions[i].date
<1>1. Sessions \in Seq(Session) /\ Sessions # << >>
  BY SessionsIncrease
<1>2. Len(Sessions) \in Nat /\ DOMAIN Sessions = 1 .. Len(Sessions) /\ Len(Sessions) # 0
  BY <1>1, LenProperties, EmptySeq
<1>3. ASSUME NEW i \in Calendar PROVE Sessions[i] \in Session
  BY <1>1, ElementOfSeq DEF Calendar
<1> QED
  BY <1>2, <1>3, SessionsIncrease DEF Calendar, Session

\* A later session is on a later day, and begins after the earlier has ended.
LEMMA SessionsInOrder ==
    ASSUME NEW i \in Calendar, NEW j \in Calendar, i < j
    PROVE  /\ Sessions[i].date < Sessions[j].date
           /\ Sessions[i].close < Sessions[j].open
           /\ Sessions[i].close < Sessions[j].close
<1>1. Sessions[i].date < Sessions[j].date
  BY SessionsIncrease, SessionIs
<1>2. PICK c \in Int, o \in Int, e \in Int :
          /\ c = Sessions[i].close /\ o = Sessions[j].open /\ e = Sessions[j].close
          /\ o < e /\ Day(c) = Sessions[i].date /\ Day(o) = Sessions[j].date
  BY SessionIs
<1>3. ~ o <= c
  <2> SUFFICES ASSUME o <= c PROVE FALSE
    OBVIOUS
  <2>1. Day(o) <= Day(c)
    BY DaysGoOn
  <2>2. Sessions[i].date \in Int /\ Sessions[j].date \in Int
    BY SessionIs
  <2> QED
    BY <1>1, <1>2, <2>1, <2>2
<1> QED
  BY <1>1, <1>2, <1>3

\* Of two sessions one is the earlier, and they tell which by what they are.
LEMMA SessionsCompare ==
    ASSUME NEW i \in Calendar, NEW j \in Calendar
    PROVE  /\ Sessions[i].close <= Sessions[j].close <=> i <= j
           /\ Sessions[i].date <= Sessions[j].date <=> i <= j
           /\ Sessions[i].close = Sessions[j].close <=> i = j
           /\ Sessions[i].date = Sessions[j].date <=> i = j
<1>1. i \in Int /\ j \in Int
  BY SessionIs DEF Calendar
<1>2. PICK a \in Int, b \in Int : a = Sessions[i].close /\ b = Sessions[j].close
  BY SessionIs
<1>3. PICK c \in Int, d \in Int : c = Sessions[i].date /\ d = Sessions[j].date
  BY SessionIs
<1>4. i < j => a < b /\ c < d
  BY <1>2, <1>3, SessionsInOrder
<1>5. j < i => b < a /\ d < c
  BY <1>2, <1>3, SessionsInOrder
<1>6. i = j => a = b /\ c = d
  BY <1>2, <1>3
<1>7. (a <= b <=> i <= j) /\ (c <= d <=> i <= j) /\ (a = b <=> i = j) /\ (c = d <=> i = j)
  BY <1>1, <1>4, <1>5, <1>6
<1> QED
  BY <1>2, <1>3, <1>7

LEMMA SessionOnIs ==
    ASSUME NEW d, NEW s
    PROVE  s \in SessionOn(d) <=> \E i \in Calendar : s = Sessions[i] /\ Sessions[i].date = d
<1>1. s \in ToSet(Sessions) <=> \E i \in Calendar : s = Sessions[i]
  BY SessionIs DEF ToSet
<1> QED
  BY <1>1 DEF SessionOn

\* What is true of no number unless of all smaller ones is true of the first.
LEMMA FirstOnes ==
    ASSUME NEW N \in Nat, NEW T \in SUBSET (1 .. N), \A i \in 1 .. N, j \in T : i <= j => i \in T
    PROVE  \E n \in 0 .. N : T = 1 .. n
<1>1. CASE T = {}
  <2>1. 0 \in 0 .. N /\ 1 .. 0 = {}
    OBVIOUS
  <2> QED
    BY <1>1, <2>1
<1>2. CASE T # {}
  <2>1. PICK n \in T : \A j \in T : j <= n
    BY <1>2, LargestUpTo
  <2>2. n \in 1 .. N /\ n \in 0 .. N
    OBVIOUS
  <2>3. \A i : i \in T <=> i \in 1 .. n
    <3>1. ASSUME NEW i \in T PROVE i \in 1 .. n
      BY <2>1, <2>2
    <3>2. ASSUME NEW i \in 1 .. n PROVE i \in T
      <4>1. i \in 1 .. N /\ i <= n
        BY <2>2
      <4> QED
        BY <4>1
    <3> QED
      BY <3>1, <3>2
  <2>4. T = 1 .. n
    BY <2>3
  <2> QED
    BY <2>2, <2>4
<1> QED
  BY <1>1, <1>2

\* The sessions that have closed are the first ones.
LEMMA ClosedByIs ==
    ASSUME NEW t \in Int
    PROVE  /\ ClosedBy(t) \in 0 .. Len(Sessions)
           /\ \A i \in Calendar : Sessions[i].close <= t <=> i <= ClosedBy(t)
<1> DEFINE T == {i \in Calendar : Sessions[i].close <= t}
<1>1. T \in SUBSET Calendar
  OBVIOUS
<1>2. PICK n \in 0 .. Len(Sessions) : T = 1 .. n
  <2>1. ASSUME NEW i \in Calendar, NEW j \in T, i <= j PROVE i \in T
    <3>1. PICK a \in Int, b \in Int : a = Sessions[i].close /\ b = Sessions[j].close
      BY SessionIs
    <3>2. a <= b
      BY <2>1, <3>1, SessionsCompare
    <3> QED
      BY <3>1, <3>2
  <2> HIDE DEF T
  <2> QED
    BY <1>1, <2>1, FirstOnes, SessionIs DEF Calendar
<1>3. ClosedBy(t) = Cardinality(T)
  BY SessionIs DEF ClosedBy
<1>4. Cardinality(1 .. n) = n
  <2>1. n \in Int /\ 1 \in Int /\ n >= 0 
    BY SessionIs
  <2>2. Cardinality(1 .. n) = IF 1 > n THEN 0 ELSE n - 1 + 1
    BY <2>1, FS_Interval
  <2> QED
    BY <2>1, <2>2
<1>5. ClosedBy(t) = n
  <2> HIDE DEF T
  <2> QED
    BY <1>2, <1>3, <1>4
<1>6. ASSUME NEW i \in Calendar PROVE Sessions[i].close <= t <=> i <= n
  <2>1. i \in 1 .. n <=> i <= n
    BY SessionIs DEF Calendar
  <2>2. i \in T <=> Sessions[i].close <= t
    OBVIOUS
  <2> HIDE DEF T
  <2> QED
    BY <1>2, <2>1, <2>2
<1> QED
  BY <1>5, <1>6

-----------------------------------------------------------------------------
(* A series in order. *)

Candle == [end : Int, close : Int, sound : BOOLEAN]
Ascending(series) == \A i \in 2 .. Len(series) : series[i - 1].end < series[i].end

LEMMA SeriesIs ==
    ASSUME NEW series \in Seq(Candle)
    PROVE  /\ Len(series) \in Nat /\ DOMAIN series = 1 .. Len(series)
           /\ series = << >> <=> Len(series) = 0
           /\ \A k \in 1 .. Len(series) :
                 /\ series[k] \in Candle
                 /\ series[k].end \in Int /\ series[k].close \in Int /\ series[k].sound \in BOOLEAN
<1>1. Len(series) \in Nat /\ DOMAIN series = 1 .. Len(series) /\ (series = << >> <=> Len(series) = 0)
  BY LenProperties, EmptySeq
<1>2. ASSUME NEW k \in 1 .. Len(series) PROVE series[k] \in Candle
  BY ElementOfSeq
<1> QED
  BY <1>1, <1>2 DEF Candle

\* Each later than the one before: each later than all before.
LEMMA AllAscend ==
    ASSUME NEW series \in Seq(Candle), Ascending(series),
           NEW i \in 1 .. Len(series), NEW j \in 1 .. Len(series), i < j
    PROVE  series[i].end < series[j].end
<1> DEFINE N == Len(series)
           S == {k \in i + 1 .. N : ~ series[i].end < series[k].end}
<1>1. N \in Nat /\ i \in 1 .. N /\ j \in i + 1 .. N
  BY SeriesIs
<1>2. SUFFICES ASSUME S # {} PROVE FALSE
  BY <1>1
<1>3. PICK m \in S : \A k \in S : m <= k
  <2>1. S \in SUBSET Nat
    BY <1>1
  <2> HIDE DEF S
  <2> QED
    BY <1>2, <2>1, Smallest
<1>4. m \in i + 1 .. N /\ m - 1 \notin S /\ m - 1 \in i .. N /\ m \in 2 .. N /\ m - 1 \in 1 .. N /\ m \in 1 .. N
  <2>1. m \in i + 1 .. N
    OBVIOUS
  <2>2. m - 1 \in i .. N /\ m \in 2 .. N /\ m - 1 \in 1 .. N /\ m \in 1 .. N /\ ~ m <= m - 1
    BY <1>1, <2>1
  <2> HIDE DEF S
  <2> QED
    BY <1>3, <2>1, <2>2
<1>5. PICK a \in Int, b \in Int, c \in Int : a = series[i].end /\ b = series[m - 1].end /\ c = series[m].end
  BY <1>1, <1>4, SeriesIs
<1>6. b < c
  BY <1>4, <1>5 DEF Ascending
<1>7. m - 1 = i \/ a < b
  <2>1. m - 1 = i \/ m - 1 \in i + 1 .. N
    BY <1>1, <1>4
  <2> QED
    BY <1>4, <1>5, <2>1
<1>8. ~ a < c
  BY <1>3, <1>5
<1> QED
  BY <1>5, <1>6, <1>7, <1>8

LEMMA OrderErrorsAre ==
    ASSUME NEW series \in Seq(Candle)
    PROVE  OrderErrors(series) = {} <=> Ascending(series)
<1> DEFINE N == Len(series)
<1>1. N \in Nat /\ DOMAIN series = 1 .. N
  BY SeriesIs
<1>2. OrderErrors(series) = {} <=>
          /\ \A i \in 1 .. N : ~ \E j \in 1 .. i - 1 : series[j].end = series[i].end
          /\ \A i \in 2 .. N : ~ series[i].end < series[i - 1].end
  BY <1>1 DEF OrderErrors
<1>3. ASSUME OrderErrors(series) = {}, NEW i \in 2 .. N PROVE series[i - 1].end < series[i].end
  <2>1. i \in 1 .. N /\ i - 1 \in 1 .. i - 1 /\ i - 1 \in 1 .. N
    BY <1>1
  <2>2. PICK a \in Int, b \in Int : a = series[i - 1].end /\ b = series[i].end
    BY <2>1, SeriesIs
  <2>3. a # b /\ ~ b < a
    BY <1>2, <1>3, <2>1, <2>2
  <2> QED
    BY <2>2, <2>3
<1>4. ASSUME Ascending(series), NEW i \in 1 .. N, NEW j \in 1 .. i - 1 PROVE series[j].end # series[i].end
  <2>1. j \in 1 .. N /\ j < i
    BY <1>1
  <2>2. PICK a \in Int, b \in Int : a = series[j].end /\ b = series[i].end
    BY <2>1, SeriesIs
  <2>3. a < b
    BY <1>4, <2>1, <2>2, AllAscend
  <2> QED
    BY <2>2, <2>3
<1>5. ASSUME Ascending(series), NEW i \in 2 .. N PROVE ~ series[i].end < series[i - 1].end
  <2>1. i \in 1 .. N /\ i - 1 \in 1 .. N
    BY <1>1
  <2>2. PICK a \in Int, b \in Int : a = series[i - 1].end /\ b = series[i].end
    BY <2>1, SeriesIs
  <2>3. a < b
    BY <1>5, <2>2 DEF Ascending
  <2> QED
    BY <2>2, <2>3
<1> QED
  BY <1>2, <1>3, <1>4, <1>5 DEF Ascending

\* Nothing is cleaned away from a series in order.
LEMMA CleanIsTheSame ==
    ASSUME NEW series \in Seq(Candle), Ascending(series)
    PROVE  CleanBars(series) = series
<1> DEFINE N == Len(series)
           kept == {i \in DOMAIN series : \A j \in 1 .. i - 1 : series[j].end # series[i].end}
           before(i) == {j \in kept : series[j].end < series[i].end}
<1>1. N \in Nat /\ DOMAIN series = 1 .. N
  BY SeriesIs
<1>2. \A i, j \in 1 .. N : series[j].end < series[i].end <=> j < i
  <2> SUFFICES ASSUME NEW i \in 1 .. N, NEW j \in 1 .. N
               PROVE  series[j].end < series[i].end <=> j < i
    OBVIOUS
  <2>1. PICK a \in Int, b \in Int : a = series[j].end /\ b = series[i].end
    BY SeriesIs
  <2>2. j < i => a < b
    BY <2>1, AllAscend
  <2>3. i < j => b < a
    BY <2>1, AllAscend
  <2>4. i = j => a = b
    BY <2>1
  <2>5. i \in Int /\ j \in Int
    BY <1>1
  <2>6. a < b <=> j < i
    BY <2>2, <2>3, <2>4, <2>5
  <2> QED
    BY <2>1, <2>6
<1>3. kept = 1 .. N
  <2>1. ASSUME NEW i \in 1 .. N, NEW j \in 1 .. i - 1 PROVE series[j].end # series[i].end
    <3>1. j \in 1 .. N /\ j < i
      BY <1>1
    <3>2. PICK a \in Int, b \in Int : a = series[j].end /\ b = series[i].end
      BY <3>1, SeriesIs
    <3>3. a < b
      BY <1>2, <3>1, <3>2
    <3> QED
      BY <3>2, <3>3
  <2> QED
    BY <1>1, <2>1
<1>4. ASSUME NEW i \in 1 .. N PROVE Cardinality(before(i)) = i - 1
  <2>1. before(i) = {j \in 1 .. N : j < i}
    <3> HIDE DEF kept
    <3> QED
      BY <1>2, <1>3
  <2>2. {j \in 1 .. N : j < i} = 1 .. i - 1
    BY <1>1
  <2>3. Cardinality(1 .. i - 1) = IF 1 > i - 1 THEN 0 ELSE (i - 1) - 1 + 1
    <3>1. i - 1 \in Int /\ 1 \in Int
      BY <1>1
    <3> QED
      BY <3>1, FS_Interval
  <2>4. i \in Int /\ 1 <= i
    BY <1>1
  <2>5. Cardinality(1 .. i - 1) = i - 1
    <3>1. PICK c : c = Cardinality(1 .. i - 1)
      OBVIOUS
    <3>2. c = IF 1 > i - 1 THEN 0 ELSE (i - 1) - 1 + 1
      BY <2>3, <3>1
    <3>3. c = i - 1
      BY <2>4, <3>2
    <3> QED
      BY <3>1, <3>3
  <2>6. before(i) = 1 .. i - 1
    BY <2>1, <2>2
  <2> HIDE DEF before
  <2> QED
    BY <2>5, <2>6
<1> HIDE DEF before
<1>5. ASSUME NEW k \in 1 .. N PROVE (CHOOSE i \in kept : Cardinality(before(i)) = k - 1) = k
  <2> DEFINE c == CHOOSE i \in kept : Cardinality(before(i)) = k - 1
  <2>1. k \in kept /\ Cardinality(before(k)) = k - 1
    BY <1>3, <1>4
  <2>2. c \in kept /\ Cardinality(before(c)) = k - 1
    BY <2>1
  <2> HIDE DEF c, kept
  <2>3. c \in 1 .. N /\ Cardinality(before(c)) = c - 1
    BY <1>3, <1>4, <2>2
  <2>4. c = k
    BY <1>1, <2>2, <2>3
  <2> QED
    BY <2>4 DEF c
<1>6. Cardinality(kept) = N
  <2>1. Cardinality(1 .. N) = IF 1 > N THEN 0 ELSE N - 1 + 1
    BY <1>1, FS_Interval
  <2> HIDE DEF kept
  <2> QED
    BY <1>1, <1>3, <2>1
<1>7. CleanBars(series) = [k \in 1 .. Cardinality(kept) |->
                              series[CHOOSE i \in kept : Cardinality(before(i)) = k - 1]]
  BY DEF CleanBars, before
<1> HIDE DEF kept
<1>8. CleanBars(series) = [k \in 1 .. N |-> series[k]]
  BY <1>5, <1>6, <1>7
<1>9. series = [k \in 1 .. N |-> series[k]]
  <2>1. series \in [1 .. N -> Candle]
    BY LenProperties
  <2> QED
    BY <2>1
<1> QED
  BY <1>8, <1>9

-----------------------------------------------------------------------------
(* A daily series that passes. *)

LEMMA EntriesOf ==
    ASSUME NEW series \in Seq(Candle), NEW b
    PROVE  b \in ToSet(series) <=> \E k \in 1 .. Len(series) : b = series[k]
  BY SeriesIs DEF ToSet

\* Without errors of the grid: every bar is the close of its day's session,
\* and every session from the first bar to the last has one.
LEMMA DailyGridIs ==
    ASSUME NEW series \in Seq(Candle), series # << >>
    PROVE  DailyGridErrors(series) = {} <=>
              /\ \A k \in 1 .. Len(series) : \E i \in Calendar : Sessions[i].close = series[k].end
              /\ \A i \in Calendar :
                    Day(series[1].end) <= Sessions[i].date /\ Sessions[i].date <= Day(series[Len(series)].end)
                      => \E k \in 1 .. Len(series) : Day(series[k].end) = Sessions[i].date
<1> DEFINE N == Len(series)
           dates == {Day(b.end) : b \in ToSet(series)}
           span == SessionsInRange(Day(series[1].end), Day(Last(series).end))
<1>1. DailyGridErrors(series) = {} <=>
          /\ \A d \in dates : SessionOn(d) # {}
          /\ \A b \in ToSet(series) : ~ \E s \in SessionOn(Day(b.end)) : s.close # b.end
          /\ \A s \in span : s.date \in dates
  BY DEF DailyGridErrors
<1>2. \A d : d \in dates <=> \E k \in 1 .. N : d = Day(series[k].end)
  BY EntriesOf
<1>3. \A b : b \in ToSet(series) <=> \E k \in 1 .. N : b = series[k]
  BY EntriesOf
<1>4. \A s : s \in span <=> \E i \in Calendar :
          s = Sessions[i] /\ Day(series[1].end) <= Sessions[i].date /\ Sessions[i].date <= Day(series[N].end)
  <2>1. \A s : s \in ToSet(Sessions) <=> \E i \in Calendar : s = Sessions[i]
    BY SessionIs DEF ToSet
  <2> QED
    BY <2>1 DEF SessionsInRange, Last
<1> HIDE DEF dates, span, N
<1>5. /\ \A d \in dates : SessionOn(d) # {}
      /\ \A b \in ToSet(series) : ~ \E s \in SessionOn(Day(b.end)) : s.close # b.end
      <=> \A k \in 1 .. N : \E i \in Calendar : Sessions[i].close = series[k].end
  <2>1. ASSUME \A d \in dates : SessionOn(d) # {},
               \A b \in ToSet(series) : ~ \E s \in SessionOn(Day(b.end)) : s.close # b.end,
               NEW k \in 1 .. N
        PROVE  \E i \in Calendar : Sessions[i].close = series[k].end
    <3>1. SessionOn(Day(series[k].end)) # {}
      BY <1>2, <2>1
    <3>2. PICK i \in Calendar : Sessions[i] \in SessionOn(Day(series[k].end))
      BY <3>1, SessionOnIs
    <3> QED
      BY <1>3, <2>1, <3>2
  <2>2. ASSUME \A k \in 1 .. N : \E i \in Calendar : Sessions[i].close = series[k].end,
               NEW k \in 1 .. N
        PROVE  \A s : s \in SessionOn(Day(series[k].end)) => s.close = series[k].end
    <3>1. PICK i \in Calendar : Sessions[i].close = series[k].end
      BY <2>2
    <3>2. Sessions[i].date = Day(series[k].end)
      BY <3>1, SessionIs
    <3>3. ASSUME NEW s, s \in SessionOn(Day(series[k].end)) PROVE s = Sessions[i]
      <4>1. PICK j \in Calendar : s = Sessions[j] /\ Sessions[j].date = Day(series[k].end)
        BY <3>3, SessionOnIs
      <4>2. j = i
        BY <3>2, <4>1, SessionsCompare
      <4> QED
        BY <4>1, <4>2
    <3> QED
      BY <3>1, <3>3
  <2>3. ASSUME \A k \in 1 .. N : \E i \in Calendar : Sessions[i].close = series[k].end,
               NEW k \in 1 .. N
        PROVE  SessionOn(Day(series[k].end)) # {}
    <3>1. PICK i \in Calendar : Sessions[i].close = series[k].end
      BY <2>3
    <3>2. Sessions[i].date = Day(series[k].end)
      BY <3>1, SessionIs
    <3> QED
      BY <3>2, SessionOnIs
  <2> QED
    BY <1>2, <1>3, <2>1, <2>2, <2>3
<1>6. (\A s \in span : s.date \in dates) <=>
      \A i \in Calendar :
          Day(series[1].end) <= Sessions[i].date /\ Sessions[i].date <= Day(series[N].end)
            => \E k \in 1 .. N : Day(series[k].end) = Sessions[i].date
  BY <1>2, <1>4
<1> QED
  BY <1>1, <1>5, <1>6 DEF N

\* The closes of consecutive sessions.
Consecutive(series, i, j) ==
    /\ i \in Calendar /\ j \in Calendar /\ i <= j /\ Len(series) = j - i + 1
    /\ \A k \in 1 .. Len(series) : i + k - 1 \in Calendar /\ series[k].end = Sessions[i + k - 1].close

LEMMA ConsecutiveIsGrid ==
    ASSUME NEW series \in Seq(Candle), NEW i, NEW j, Consecutive(series, i, j)
    PROVE  series # << >> /\ Ascending(series) /\ DailyGridErrors(series) = {}
<1> DEFINE N == Len(series)
<1>1. N \in Nat /\ i \in Nat /\ j \in Nat /\ N = j - i + 1 /\ i <= j /\ i \in Calendar /\ j \in Calendar
  BY SeriesIs, SessionIs DEF Consecutive, Calendar
<1>2. N # 0 /\ series # << >>
  BY <1>1, SeriesIs
<1>3. \A k \in 1 .. N : i + k - 1 \in Calendar /\ series[k].end = Sessions[i + k - 1].close
  BY DEF Consecutive
<1> HIDE DEF N
<1>4. ASSUME NEW k \in 2 .. N PROVE series[k - 1].end < series[k].end
  <2>1. k \in 1 .. N /\ k - 1 \in 1 .. N /\ i + (k - 1) - 1 < i + k - 1
    BY <1>1
  <2> QED
    BY <1>3, <2>1, SessionsInOrder
<1>5. ASSUME NEW m \in Calendar,
             Day(series[1].end) <= Sessions[m].date, Sessions[m].date <= Day(series[N].end)
      PROVE  \E k \in 1 .. N : Day(series[k].end) = Sessions[m].date
  <2>1. 1 \in 1 .. N /\ N \in 1 .. N /\ i + 1 - 1 = i /\ i + N - 1 = j
    BY <1>1, <1>2
  <2>2. series[1].end = Sessions[i].close /\ series[N].end = Sessions[j].close
    BY <1>3, <2>1
  <2>3. Sessions[i].date <= Sessions[m].date /\ Sessions[m].date <= Sessions[j].date
    BY <1>1, <1>5, <2>2, SessionIs
  <2>4. i <= m /\ m <= j /\ m \in Nat
    BY <1>1, <2>3, SessionsCompare, SessionIs DEF Calendar
  <2>5. m - i + 1 \in 1 .. N /\ i + (m - i + 1) - 1 = m
    BY <1>1, <2>4
  <2>6. series[m - i + 1].end = Sessions[m].close
    BY <1>3, <2>5
  <2> QED
    BY <2>5, <2>6, SessionIs
<1>6. DailyGridErrors(series) = {}
  BY <1>1, <1>2, <1>3, <1>5, DailyGridIs DEF N
<1> QED
  BY <1>2, <1>4, <1>6 DEF Ascending, N

LEMMA GridIsConsecutive ==
    ASSUME NEW series \in Seq(Candle), series # << >>, Ascending(series), DailyGridErrors(series) = {}
    PROVE  \E i, j : Consecutive(series, i, j)
<1> DEFINE N == Len(series)
<1>1. N \in Nat /\ N # 0 /\ 1 \in 1 .. N /\ N \in 1 .. N
  BY SeriesIs
<1>2. PICK f \in [1 .. N -> Calendar] : \A k \in 1 .. N : Sessions[f[k]].close = series[k].end
  <2>1. \A k \in 1 .. N : \E i \in Calendar : Sessions[i].close = series[k].end
    BY DailyGridIs
  <2> DEFINE g == [k \in 1 .. N |-> CHOOSE i \in Calendar : Sessions[i].close = series[k].end]
  <2>2. g \in [1 .. N -> Calendar] /\ \A k \in 1 .. N : Sessions[g[k]].close = series[k].end
    BY <2>1
  <2> HIDE DEF g, N
  <2> QED
    BY <2>2
<1>3. \A k \in 1 .. N : f[k] \in Calendar /\ f[k] \in Nat /\ Sessions[f[k]].date = Day(series[k].end)
  BY <1>2, SessionIs DEF Calendar
<1>4. \A k, m \in 1 .. N : k < m => f[k] < f[m]
  <2> SUFFICES ASSUME NEW k \in 1 .. N, NEW m \in 1 .. N, k < m PROVE f[k] < f[m]
    OBVIOUS
  <2>1. PICK a \in Int, b \in Int : a = series[k].end /\ b = series[m].end
    BY SeriesIs
  <2>2. a < b
    BY <2>1, AllAscend
  <2>3. ~ Sessions[f[m]].close <= Sessions[f[k]].close
    BY <1>2, <2>1, <2>2
  <2>4. ~ f[m] <= f[k]
    BY <1>3, <2>3, SessionsCompare
  <2>5. f[m] \in Int /\ f[k] \in Int
    BY <1>3
  <2> HIDE DEF N
  <2> QED
    BY <2>4, <2>5
<1>5. \A m \in Calendar : f[1] <= m /\ m <= f[N] => \E k \in 1 .. N : f[k] = m
  <2> SUFFICES ASSUME NEW m \in Calendar, f[1] <= m, m <= f[N] PROVE \E k \in 1 .. N : f[k] = m
    OBVIOUS
  <2>1. Sessions[f[1]].date <= Sessions[m].date /\ Sessions[m].date <= Sessions[f[N]].date
    BY <1>1, <1>3, SessionsCompare
  <2>2. Day(series[1].end) <= Sessions[m].date /\ Sessions[m].date <= Day(series[N].end)
    BY <1>1, <1>3, <2>1
  <2>3. PICK k \in 1 .. N : Day(series[k].end) = Sessions[m].date
    BY <2>2, DailyGridIs
  <2>4. f[k] = m
    BY <1>3, <2>3, SessionsCompare
  <2> QED
    BY <2>4
<1> HIDE DEF N
<1> DEFINE i == f[1]
           S == {k \in 1 .. N : f[k] # i + k - 1}
<1>6. i \in Calendar /\ i \in Nat
  BY <1>1, <1>3
<1>7. S = {}
  <2> SUFFICES ASSUME S # {} PROVE FALSE
    OBVIOUS
  <2>1. PICK k \in S : \A m \in S : k <= m
    <3>1. S \in SUBSET Nat
      BY <1>1
    <3> HIDE DEF S
    <3> QED
      BY <3>1, Smallest
  <2>2. k \in 1 .. N /\ f[k] # i + k - 1
    OBVIOUS
  <2>3. k # 1
    BY <1>6, <2>2
  <2>4. k - 1 \in 1 .. N /\ ~ k <= k - 1 /\ k - 1 < k
    BY <1>1, <2>2, <2>3
  <2>5. f[k - 1] = i + (k - 1) - 1
    <3>1. k - 1 \notin S
      <4> HIDE DEF S
      <4> QED
        BY <2>1, <2>4
    <3> HIDE DEF i
    <3> QED
      BY <2>4, <3>1
  <2>6. f[k - 1] < f[k]
    BY <1>4, <2>2, <2>4
  <2>7. f[k] <= f[N]
    <3>1. k = N \/ k < N
      BY <1>1, <2>2
    <3>2. f[k] \in Nat /\ f[N] \in Nat
      BY <1>1, <1>3, <2>2
    <3> QED
      BY <1>1, <1>4, <2>2, <3>1, <3>2
  <2> DEFINE m == i + k - 1
  <2>8. f[k] \in Nat /\ f[k] \in Calendar /\ f[N] \in Nat /\ f[N] \in Calendar
    BY <1>1, <1>3, <2>2
  <2> HIDE DEF S
  <2>9. PICK a \in Nat, b \in Nat, c \in Nat : a = i /\ b = f[k] /\ c = f[N]
    BY <1>6, <2>8
  <2>10. PICK d \in Nat : d = f[k - 1] /\ d = a + (k - 1) - 1
    BY <1>3, <2>4, <2>5, <2>9
  <2>11. d < b /\ b # a + k - 1 /\ b <= c
    BY <2>2, <2>6, <2>7, <2>9, <2>10
  <2>12. m \in Nat /\ a <= m /\ m < b /\ m < c /\ m = d + 1
    BY <1>1, <2>2, <2>9, <2>10, <2>11
  <2>13. m \in Calendar
    <3>1. c \in Calendar /\ a \in Calendar
      BY <1>6, <2>8, <2>9
    <3> HIDE DEF m
    <3> QED
      BY <2>12, <3>1, SessionIs DEF Calendar
  <2>14. PICK n \in 1 .. N : f[n] = m
    BY <1>5, <2>9, <2>12, <2>13
  <2>15. n < k
    <3>1. ~ k < n
      <4>1. ~ b < m
        BY <2>9, <2>12
      <4> HIDE DEF m
      <4> QED
        BY <1>4, <2>2, <2>9, <2>14, <4>1
    <3>2. k # n
      <4>1. b # m
        BY <2>9, <2>12
      <4> HIDE DEF m
      <4> QED
        BY <2>9, <2>14, <4>1
    <3> QED
      BY <1>1, <2>2, <3>1, <3>2
  <2>16. n <= k - 1
    BY <1>1, <2>2, <2>15
  <2>17. f[n] <= d
    <3>1. n = k - 1 \/ n < k - 1
      BY <1>1, <2>2, <2>16
    <3>2. n < k - 1 => f[n] < f[k - 1]
      BY <1>4, <2>4
    <3>3. f[n] \in Nat
      BY <1>3
    <3>4. PICK e \in Nat : e = f[n]
      BY <3>3
    <3>5. CASE n = k - 1
      <4>1. e = d
        BY <2>10, <3>4, <3>5
      <4> QED
        BY <3>4, <4>1
    <3>6. CASE n < k - 1
      <4>1. e < d
        BY <2>10, <3>2, <3>4, <3>6
      <4> QED
        BY <3>4, <4>1
    <3> QED
      BY <3>1, <3>5, <3>6
  <2> QED
    BY <2>10, <2>12, <2>14, <2>17
<1>8. ASSUME NEW k \in 1 .. N PROVE f[k] = i + k - 1
  <2> HIDE DEF i
  <2> QED
    BY <1>7
<1>9. PICK j \in Calendar : j = f[N]
  BY <1>1, <1>3
<1>10. j = i + N - 1 /\ j \in Nat
  BY <1>1, <1>3, <1>8, <1>9
<1> HIDE DEF i, S
<1>11. i <= j /\ N = j - i + 1
  BY <1>1, <1>6, <1>10
<1>12. \A k \in 1 .. N : i + k - 1 \in Calendar /\ series[k].end = Sessions[i + k - 1].close
  BY <1>2, <1>3, <1>8
<1>13. Consecutive(series, i, j)
  BY <1>6, <1>9, <1>11, <1>12 DEF Consecutive, N
<1> QED
  BY <1>13

\* What passing says of a series, at any evaluation.
LEMMA DailyOkIs ==
    ASSUME NEW series \in Seq(Candle), NEW t \in Int
    PROVE  DailyOk(series, t) <=>
              /\ \E i, j : Consecutive(series, i, j)
              /\ \A k \in 1 .. Len(series) : series[k].sound /\ series[k].end <= t
<1> DEFINE C == CleanBars(series)
           N == Len(series)
<1>1. DailyOk(series, t) <=>
          /\ series # << >> /\ OrderErrors(series) = {} /\ ValueErrors(C) = {}
          /\ FutureErrors(C, t) = {} /\ DailyGridErrors(C) = {}
  BY DEF DailyOk, DailyErrors
<1>2. ASSUME Ascending(series)
      PROVE  ValueErrors(C) = {} /\ FutureErrors(C, t) = {}
                <=> \A k \in 1 .. N : series[k].sound /\ series[k].end <= t
  <2>1. C = series
    BY <1>2, CleanIsTheSame
  <2>2. \A b : b \in ToSet(series) <=> \E k \in 1 .. N : b = series[k]
    BY EntriesOf
  <2>3. \A k \in 1 .. N : series[k].end > t <=> ~ series[k].end <= t
    BY SeriesIs
  <2>4. ValueErrors(series) = {} <=> \A b \in ToSet(series) : b.sound
    BY DEF ValueErrors
  <2>5. FutureErrors(series, t) = {} <=> \A b \in ToSet(series) : ~ b.end > t
    BY DEF FutureErrors
  <2> HIDE DEF C, N
  <2> QED
    BY <2>1, <2>2, <2>3, <2>4, <2>5
<1>3. ASSUME DailyOk(series, t)
      PROVE  /\ \E i, j : Consecutive(series, i, j)
             /\ \A k \in 1 .. N : series[k].sound /\ series[k].end <= t
  <2>1. Ascending(series)
    BY <1>1, <1>3, OrderErrorsAre
  <2>2. DailyGridErrors(series) = {}
    BY <1>1, <1>3, <2>1, CleanIsTheSame
  <2> QED
    BY <1>1, <1>2, <1>3, <2>1, <2>2, GridIsConsecutive
<1>4. ASSUME NEW i, NEW j, Consecutive(series, i, j),
             \A k \in 1 .. N : series[k].sound /\ series[k].end <= t
      PROVE  DailyOk(series, t)
  <2>1. series # << >> /\ Ascending(series) /\ DailyGridErrors(series) = {}
    BY <1>4, ConsecutiveIsGrid
  <2>2. OrderErrors(series) = {} /\ DailyGridErrors(C) = {}
    BY <2>1, OrderErrorsAre, CleanIsTheSame
  <2> HIDE DEF C, N
  <2> QED
    BY <1>1, <1>2, <1>4, <2>1, <2>2
<1> QED
  BY <1>3, <1>4

QualityInv == bars \in Seq(Candle) /\ now \in Int /\ declared \in ActionLists

LEMMA PassingIsConsecutive == QualityInv => ValidIsConsecutive
<1> SUFFICES ASSUME QualityInv PROVE ValidIsConsecutive
  OBVIOUS
<1>1. bars \in Seq(Candle) /\ now \in Int
  BY DEF QualityInv
<1> DEFINE N == Len(bars)
<1>2. N \in Nat /\ DOMAIN bars = 1 .. N
  BY <1>1, SeriesIs
<1>3. ASSUME NEW i, NEW j, Consecutive(bars, i, j)
      PROVE  i \in Calendar /\ j \in Calendar /\ i \in Nat /\ j \in Nat /\ i <= j /\ N = j - i + 1
  BY <1>3, SessionIs DEF Consecutive, Calendar
<1>4. ASSUME DailyOk(bars, now)
      PROVE  \E i, j \in Calendar :
                /\ i <= j /\ N = j - i + 1
                /\ \A k \in 1 .. N : bars[k].end = Sessions[i + k - 1].close /\ bars[k].sound
                /\ Sessions[j].close <= now
  <2>1. \A k \in 1 .. N : bars[k].sound /\ bars[k].end <= now
    BY <1>1, <1>4, DailyOkIs
  <2>2. PICK i, j : Consecutive(bars, i, j)
    BY <1>1, <1>4, DailyOkIs
  <2>3. i \in Calendar /\ j \in Calendar /\ i \in Nat /\ j \in Nat /\ i <= j /\ N = j - i + 1
    BY <1>3, <2>2
  <2>4. \A k \in 1 .. N : bars[k].end = Sessions[i + k - 1].close
    BY <2>2 DEF Consecutive
  <2> HIDE DEF N
  <2>5. N \in 1 .. N /\ i + N - 1 = j
    BY <1>2, <2>3
  <2>6. Sessions[j].close <= now
    BY <2>1, <2>4, <2>5
  <2> QED
    BY <2>1, <2>3, <2>4, <2>6
<1>5. ASSUME NEW i \in Calendar, NEW j \in Calendar, i <= j, N = j - i + 1,
             \A k \in 1 .. N : bars[k].end = Sessions[i + k - 1].close /\ bars[k].sound,
             Sessions[j].close <= now
      PROVE  DailyOk(bars, now)
  <2>1. i \in Nat /\ j \in Nat
    BY SessionIs DEF Calendar
  <2>2. ASSUME NEW k \in 1 .. N
        PROVE  i + k - 1 \in Calendar /\ i + k - 1 <= j
    <3> HIDE DEF N
    <3> QED
      BY <1>2, <1>5, <2>1, SessionIs DEF Calendar
  <2>3. Consecutive(bars, i, j)
    BY <1>5, <2>2 DEF Consecutive
  <2>4. ASSUME NEW k \in 1 .. N PROVE bars[k].end <= now
    <3>1. PICK m \in Calendar : m = i + k - 1 /\ m <= j
      BY <2>2
    <3>2. Sessions[m].close <= Sessions[j].close
      BY <3>1, SessionsCompare
    <3>3. bars[k].end = Sessions[m].close
      BY <1>5, <3>1
    <3>4. Sessions[m].close <= now
      BY <1>1, <1>5, <3>2, SessionIs
    <3> QED
      BY <3>3, <3>4
  <2> QED
    BY <1>1, <1>5, <2>3, <2>4, DailyOkIs
<1> QED
  BY <1>2, <1>4, <1>5, SessionIs DEF ValidIsConsecutive

-----------------------------------------------------------------------------
(* What is tradable. *)

LEMMA MaxWithZero ==
    ASSUME NEW x \in Int
    PROVE  Max({0, x}) \in Nat /\ x <= Max({0, x}) /\ (x >= 0 => Max({0, x}) = x)
<1>1. {0, x} \in SUBSET Int /\ 0 \in {0, x} /\ x \in {0, x}
  OBVIOUS
<1>2. CASE x >= 0
  <2>1. \A y \in {0, x} : y <= x
    BY <1>2
  <2>2. Max({0, x}) = x
    BY <1>1, <2>1, MaxIs
  <2> QED
    BY <1>2, <2>2
<1>3. CASE ~ x >= 0
  <2>1. \A y \in {0, x} : y <= 0
    BY <1>3
  <2>2. Max({0, x}) = 0
    BY <1>1, <2>1, MaxIs
  <2> QED
    BY <1>3, <2>2
<1> QED
  BY <1>2, <1>3

\* The newest bar, if there is one that no other is after.
LEMMA NewestIs ==
    ASSUME NEW series \in Seq(Candle), NEW n \in 1 .. Len(series),
           \A k \in 1 .. Len(series) : series[k].end <= series[n].end
    PROVE  Newest(series) = series[n].end
<1> DEFINE T == {b.end : b \in ToSet(series)}
<1>1. \A x : x \in T <=> \E k \in 1 .. Len(series) : x = series[k].end
  BY EntriesOf
<1>2. Newest(series) = Max(T)
  BY DEF Newest
<1> HIDE DEF T
<1>3. T \in SUBSET Int /\ series[n].end \in T
  BY <1>1, SeriesIs
<1>4. \A x \in T : x <= series[n].end
  BY <1>1
<1> QED
  BY <1>2, <1>3, <1>4, MaxIs

LEMMA TradableIsRecent == QualityInv => TradableReachesNow
<1> SUFFICES ASSUME QualityInv, DailyOk(bars, now), DailyFresh(bars, now, MaxAge) PROVE TradableReachesNow
  BY DEF TradableReachesNow
<1> DEFINE N == Len(bars)
           have == {b.end : b \in ToSet(bars)}
           due == {m \in DOMAIN Sessions : bars[1].end <= Sessions[m].close /\ Sessions[m].close <= now}
           lost == {m \in due : Sessions[m].close \notin have}
           c == ClosedBy(now)
<1>1. bars \in Seq(Candle) /\ now \in Int
  BY DEF QualityInv
<1>2. PICK i, j : Consecutive(bars, i, j)
  BY <1>1, DailyOkIs
<1>3. /\ i \in Calendar /\ j \in Calendar /\ i \in Nat /\ j \in Nat /\ i <= j /\ N \in Nat /\ N = j - i + 1
  BY <1>1, <1>2, SeriesIs, SessionIs DEF Consecutive, Calendar
<1>4. \A k \in 1 .. N : i + k - 1 \in Calendar /\ bars[k].end = Sessions[i + k - 1].close
  BY <1>2 DEF Consecutive
<1>5. c \in Nat /\ c \in 0 .. Len(Sessions) /\ \A m \in Calendar : Sessions[m].close <= now <=> m <= c
  BY <1>1, ClosedByIs, SessionIs
<1>6. \A x : x \in have <=> \E k \in 1 .. N : x = bars[k].end
  BY <1>1, EntriesOf
<1>7. \A k \in 1 .. N : bars[k].end <= now
  BY <1>1, DailyOkIs
<1> HIDE DEF c, have, N
<1>8. 1 \in 1 .. N /\ N \in 1 .. N /\ i + 1 - 1 = i /\ i + N - 1 = j
  BY <1>3
<1>9. bars[1].end = Sessions[i].close /\ bars[N].end = Sessions[j].close
  BY <1>4, <1>8
<1>10. j <= c
  BY <1>3, <1>5, <1>7, <1>8, <1>9
<1>11. ASSUME NEW m \in Calendar PROVE Sessions[m].close \in have <=> i <= m /\ m <= j
  <2>1. m \in Nat
    BY SessionIs DEF Calendar
  <2>2. ASSUME NEW k \in 1 .. N, Sessions[m].close = bars[k].end PROVE i <= m /\ m <= j
    <3>1. PICK n \in Calendar : n = i + k - 1 /\ bars[k].end = Sessions[n].close
      BY <1>4
    <3>2. n = m
      BY <2>2, <3>1, SessionsCompare
    <3> QED
      BY <1>3, <3>1, <3>2
  <2>3. ASSUME i <= m, m <= j PROVE \E k \in 1 .. N : Sessions[m].close = bars[k].end
    <3>1. m - i + 1 \in 1 .. N /\ i + (m - i + 1) - 1 = m
      BY <1>3, <2>1, <2>3
    <3> QED
      BY <1>4, <3>1
  <2> QED
    BY <1>6, <2>2, <2>3
<1>12. Newest(bars) = Sessions[j].close
  <2> SUFFICES ASSUME NEW k \in 1 .. N PROVE bars[k].end <= bars[N].end
    BY <1>1, <1>8, <1>9, NewestIs DEF N
  <2>1. PICK m \in Calendar : m = i + k - 1 /\ bars[k].end = Sessions[m].close
    BY <1>4
  <2>2. m <= j
    BY <1>3, <2>1
  <2> QED
    BY <1>3, <1>9, <2>1, <2>2, SessionsCompare
<1>13. ClosedBy(Sessions[j].close) = j
  <2>1. PICK x \in Int : x = Sessions[j].close
    BY <1>3, SessionIs
  <2>2. ClosedBy(x) \in 0 .. Len(Sessions) /\ \A m \in Calendar : Sessions[m].close <= x <=> m <= ClosedBy(x)
    BY ClosedByIs
  <2>3. PICK k \in 0 .. Len(Sessions) : k = ClosedBy(x) /\ \A m \in Calendar : Sessions[m].close <= x <=> m <= k
    BY <2>2
  <2>4. j <= k
    BY <1>3, <2>1, <2>3, SessionsCompare
  <2>5. k \in Calendar /\ k \in Nat
    BY <1>3, <2>3, <2>4, SessionIs DEF Calendar
  <2>6. k <= j
    BY <1>3, <2>1, <2>3, <2>5, SessionsCompare
  <2> QED
    BY <1>3, <2>1, <2>3, <2>4, <2>5, <2>6
<1>14. c - j <= MaxAge
  <2>1. LastCompleted(now) # << >>
    <3>1. c # 0
      BY <1>3, <1>5, <1>10, SessionIs DEF Calendar
    <3>2. LastCompleted(now) = << Sessions[c] >>
      BY <3>1 DEF LastCompleted, c
    <3> QED
      BY <3>2
  <2>2. SessionsBetween(Newest(bars), now) <= MaxAge
    BY <2>1 DEF DailyFresh
  <2>3. SessionsBetween(Newest(bars), now) = Max({0, c - j})
    BY <1>12, <1>13 DEF SessionsBetween, c
  <2>4. PICK x \in Int : x = c - j
    BY <1>3, <1>5
  <2>5. x >= 0
    BY <1>3, <1>5, <1>10, <2>4
  <2>6. Max({0, x}) = x
    BY <2>5, MaxWithZero
  <2> QED
    BY <2>2, <2>3, <2>4, <2>6
<1>15. \A m : m \in due <=> m \in Calendar /\ i <= m /\ m <= c
  <2>1. ASSUME NEW m \in Calendar PROVE bars[1].end <= Sessions[m].close <=> i <= m
    BY <1>3, <1>9, SessionsCompare
  <2> QED
    BY <1>5, <2>1, SessionIs
<1> HIDE DEF due
<1>16. lost = j + 1 .. c
  <2>1. \A m : m \in lost <=> m \in Calendar /\ i <= m /\ m <= c /\ ~ (i <= m /\ m <= j)
    BY <1>11, <1>15
  <2>2. \A m : m \in lost <=> m \in j + 1 .. c
    <3> HIDE DEF lost
    <3>1. Len(Sessions) \in Nat
      BY SessionIs
    <3> QED
      BY <1>3, <1>5, <2>1, <3>1 DEF Calendar
  <2> HIDE DEF lost
  <2> QED
    BY <2>2
<1>17. Cardinality(lost) <= MaxAge
  <2>1. PICK a \in Int : a = j + 1
    BY <1>3
  <2>2. Cardinality(a .. c) = IF a > c THEN 0 ELSE c - a + 1
    BY <1>5, FS_Interval
  <2>3. PICK n : n = Cardinality(a .. c)
    OBVIOUS
  <2>4. n <= MaxAge
    BY <1>3, <1>5, <1>14, <2>1, <2>2, <2>3, QualityNumbers
  <2> HIDE DEF lost
  <2> QED
    BY <1>16, <2>1, <2>3, <2>4
<1>18. have \subseteq {Sessions[m].close : m \in due}
  <2> SUFFICES ASSUME NEW x \in have PROVE \E m \in due : x = Sessions[m].close
    OBVIOUS
  <2>1. PICK k \in 1 .. N : x = bars[k].end
    BY <1>6
  <2>2. PICK m \in Calendar : m = i + k - 1 /\ x = Sessions[m].close
    BY <1>4, <2>1
  <2>3. i <= m /\ m <= c
    BY <1>3, <1>5, <1>10, <2>2
  <2> QED
    BY <1>15, <2>2, <2>3
<1> QED
  BY <1>17, <1>18 DEF TradableReachesNow, have, due

-----------------------------------------------------------------------------
(* What is fresh. *)

LEMMA SomeIsNewest ==
    ASSUME NEW series \in Seq(Candle), series # << >>
    PROVE  \E n \in 1 .. Len(series) : \A k \in 1 .. Len(series) : series[k].end <= series[n].end
<1> DEFINE N == Len(series)
           Up(m) == \E n \in 1 .. m : \A k \in 1 .. m : series[k].end <= series[n].end
           S == {m \in 1 .. N : ~ Up(m)}
<1>1. N \in Nat /\ N # 0 /\ N \in 1 .. N
  BY SeriesIs
<1>2. \A k \in 1 .. N : series[k].end \in Int
  BY SeriesIs
<1> HIDE DEF N
<1>3. SUFFICES ASSUME S # {} PROVE FALSE
  <2>1. ASSUME Up(N) PROVE \E n \in 1 .. N : \A k \in 1 .. N : series[k].end <= series[n].end
    BY <2>1
  <2> HIDE DEF Up
  <2> QED
    BY <1>1, <2>1 DEF N
<1>4. PICK m \in S : \A k \in S : m <= k
  <2>1. S \in SUBSET Nat
    BY <1>1
  <2> HIDE DEF S
  <2> QED
    BY <1>3, <2>1, Smallest
<1>5. m \in 1 .. N /\ ~ Up(m)
  OBVIOUS
<1>6. CASE m = 1
  <2>1. Up(1)
    <3>1. 1 \in 1 .. 1 /\ \A k \in 1 .. 1 : series[k].end <= series[1].end
      BY <1>1, <1>2
    <3> QED
      BY <3>1
  <2> HIDE DEF Up
  <2> QED
    BY <1>5, <1>6, <2>1
<1>7. CASE m # 1
  <2>1. m - 1 \in 1 .. N /\ ~ m <= m - 1
    BY <1>1, <1>5, <1>7
  <2>2. Up(m - 1)
    <3>1. m - 1 \notin S
      <4> HIDE DEF S
      <4> QED
        BY <1>4, <2>1
    <3> HIDE DEF Up
    <3> QED
      BY <2>1, <3>1
  <2>3. PICK n \in 1 .. m - 1 : \A k \in 1 .. m - 1 : series[k].end <= series[n].end
    BY <2>2
  <2> HIDE DEF S
  <2>4. PICK a \in Int, b \in Int : a = series[n].end /\ b = series[m].end
    <3>1. n \in 1 .. N /\ m \in 1 .. N
      BY <1>1, <1>5, <2>1
    <3> QED
      BY <1>2, <3>1
  <2>5. n \in 1 .. m /\ m \in 1 .. m /\ \A k \in 1 .. m : k \in 1 .. N /\ (k = m \/ k \in 1 .. m - 1)
    BY <1>1, <1>5, <2>1
  <2>6. CASE b <= a
    <3>1. \A k \in 1 .. m : series[k].end <= series[n].end
      BY <2>3, <2>4, <2>5, <2>6
    <3> QED
      BY <1>5, <2>5, <3>1
  <2>7. CASE a <= b
    <3> SUFFICES ASSUME NEW k \in 1 .. m PROVE series[k].end <= series[m].end
      BY <1>5, <2>5
    <3>1. PICK e \in Int : e = series[k].end
      BY <1>2, <2>5
    <3>2. e = b \/ e <= a
      BY <2>3, <2>4, <2>5, <3>1
    <3>3. e <= b
      BY <2>7, <3>2
    <3> QED
      BY <2>4, <3>1, <3>3
  <2>8. a <= b \/ b <= a
    OBVIOUS
  <2> QED
    BY <2>6, <2>7, <2>8
<1> QED
  BY <1>6, <1>7

\* A part of an interval is no larger than it.
LEMMA PartOfInterval ==
    ASSUME NEW a \in Int, NEW b \in Int, NEW T \in SUBSET (a + 1 .. b), NEW limit \in Nat, b - a <= limit
    PROVE  Cardinality(T) <= limit
<1>1. PICK x \in Int : x = a + 1
  OBVIOUS
<1>2. IsFiniteSet(x .. b) /\ Cardinality(x .. b) = IF x > b THEN 0 ELSE b - x + 1
  BY FS_Interval
<1>3. T \in SUBSET (x .. b)
  BY <1>1
<1>4. Cardinality(T) <= Cardinality(x .. b)
  BY <1>2, <1>3, FS_Subset
<1>5. Cardinality(T) \in Nat
  <2>1. IsFiniteSet(T)
    BY <1>2, <1>3, FS_Subset
  <2> QED
    BY <2>1, FS_CardinalityType
<1>6. PICK n, m : n = Cardinality(T) /\ n \in Nat /\ m = Cardinality(x .. b)
  BY <1>5
<1>7. m = (IF x > b THEN 0 ELSE b - x + 1) /\ n <= m
  BY <1>2, <1>4, <1>6
<1>8. m \in Int /\ m <= limit
  <2>1. CASE x > b
    BY <1>7, <2>1
  <2>2. CASE ~ x > b
    <3>1. m = b - x + 1
      BY <1>7, <2>2
    <3>2. m = b - a
      BY <1>1, <3>1
    <3> QED
      BY <3>2
  <2> QED
    BY <2>1, <2>2
<1>9. n <= limit
  BY <1>6, <1>7, <1>8
<1> QED
  BY <1>6, <1>9

\* A session in whose hours a time is is the current one.
LEMMA CurrentIs ==
    ASSUME NEW t \in Int, NEW k \in Calendar, Sessions[k].open <= t, t < Sessions[k].close
    PROVE  Sessions[k] \in Current(t)
<1>1. PICK o \in Int, c \in Int, d \in Int :
          o = Sessions[k].open /\ c = Sessions[k].close /\ d = Sessions[k].date /\ Day(o) = d /\ Day(c) = d
  BY SessionIs
<1>2. o <= t /\ t <= c
  BY <1>1
<1>3. d <= Day(t) /\ Day(t) <= d
  BY <1>1, <1>2, DaysGoOn
<1>4. Day(t) = d
  BY <1>1, <1>3, DayIs
<1> QED
  BY <1>1, <1>4, SessionOnIs DEF Current

LEMMA FreshIsComplete == QualityInv => FreshMissesLittle
<1> SUFFICES ASSUME QualityInv, IntradayFresh(bars, now), ~ JustOpened(now) PROVE FreshMissesLittle
  BY DEF FreshMissesLittle
<1>1. bars \in Seq(Candle) /\ now \in Int /\ bars # << >> /\ Tolerance \in Nat
  BY QualityNumbers DEF QualityInv, IntradayFresh
<1>2. PICK n \in 1 .. Len(bars) : \A k \in 1 .. Len(bars) : bars[k].end <= bars[n].end
  BY <1>1, SomeIsNewest
<1>3. PICK m \in Int : m = Newest(bars)
  BY <1>1, <1>2, NewestIs, SeriesIs
<1>4. m <= now
  BY <1>3 DEF IntradayFresh
<1> DEFINE missed == {t \in m + 1 .. now : \E s \in ToSet(Sessions) : s.open < t /\ t <= s.close}
<1>5. \A t : t \in missed <=> t \in m + 1 .. now /\ \E k \in Calendar : Sessions[k].open < t /\ t <= Sessions[k].close
  <2>1. \A s : s \in ToSet(Sessions) <=> \E k \in Calendar : s = Sessions[k]
    BY SessionIs DEF ToSet
  <2> QED
    BY <2>1
<1> HIDE DEF missed
<1>6. Cardinality(missed) <= Tolerance
  <2>1. CASE Current(now) # {}
    <3>1. now - m <= Tolerance
      BY <1>3, <2>1 DEF IntradayFresh
    <3>2. missed \in SUBSET (m + 1 .. now)
      BY <1>5
    <3> QED
      BY <1>1, <3>1, <3>2, PartOfInterval
  <2>2. CASE Current(now) = {}
    <3>1. PICK c \in 0 .. Len(Sessions) : c = ClosedBy(now) /\ \A k \in Calendar : Sessions[k].close <= now <=> k <= c
      BY <1>1, ClosedByIs
    <3>2. ASSUME NEW t \in missed
          PROVE  t \in Int /\ m + 1 <= t /\ \E k \in Calendar : k <= c /\ t <= Sessions[k].close
      <4>1. t \in Int /\ m + 1 <= t /\ t <= now
        BY <1>1, <1>5
      <4>2. PICK k \in Calendar : Sessions[k].open < t /\ t <= Sessions[k].close
        BY <1>5
      <4>3. PICK o \in Int, e \in Int : o = Sessions[k].open /\ e = Sessions[k].close
        BY SessionIs
      <4>4. ~ now < e
        BY <1>1, <2>2, <4>1, <4>2, <4>3, CurrentIs
      <4>5. Sessions[k].close <= now
        BY <1>1, <4>3, <4>4
      <4> QED
        BY <3>1, <4>1, <4>2, <4>5
    <3>3. CASE c = 0
      <4>1. \A k \in Calendar : ~ k <= c
        BY <3>3, SessionIs DEF Calendar
      <4>2. missed = {}
        BY <3>2, <4>1
      <4> QED
        BY <1>1, <4>2, FS_EmptySet
    <3>4. CASE c # 0
      <4>1. c \in Calendar /\ c \in Nat
        BY <3>4, SessionIs DEF Calendar
      <4>2. LastCompleted(now) = << Sessions[c] >>
        BY <3>1, <3>4 DEF LastCompleted
      <4>3. PICK e \in Int : e = Sessions[c].close
        BY <4>1, SessionIs
      <4>4. e - m <= Tolerance
        BY <1>3, <2>2, <4>2, <4>3 DEF IntradayFresh
      <4>5. missed \in SUBSET (m + 1 .. e)
        <5> SUFFICES ASSUME NEW t \in missed PROVE t \in m + 1 .. e
          OBVIOUS
        <5>1. PICK k \in Calendar : k <= c /\ t <= Sessions[k].close /\ t \in Int /\ m + 1 <= t
          BY <3>2
        <5>2. Sessions[k].close <= e
          BY <4>1, <4>3, <5>1, SessionsCompare
        <5>3. PICK x \in Int : x = Sessions[k].close
          BY SessionIs
        <5> QED
          BY <5>1, <5>2, <5>3
      <4> QED
        BY <1>1, <4>4, <4>5, PartOfInterval
    <3> QED
      BY <3>3, <3>4
  <2> QED
    BY <2>1, <2>2
<1> QED
  BY <1>3, <1>6 DEF FreshMissesLittle, missed

-----------------------------------------------------------------------------
(* The intraday grid. *)

\* Whether a time is a whole number of steps after another.
LEMMA WholeSteps ==
    ASSUME NEW x \in Int, NEW d \in Nat \ {0}
    PROVE  x % d = 0 <=> \E n \in Int : x = n * d
<1>1. ASSUME x % d = 0 PROVE \E n \in Int : x = n * d
  <2>1. PICK n \in Int : x = d * n
    BY <1>1
  <2>2. d * n = n * d
    OBVIOUS
  <2> QED
    BY <2>1, <2>2
<1>2. ASSUME NEW n \in Int, x = n * d PROVE x % d = 0
  <2>1. (n * d) % d = 0
    OBVIOUS
  <2> QED
    BY <1>2, <2>1
<1> QED
  BY <1>1, <1>2

\* Some number of steps reaches the end of an interval and one less does not.
LEMMA StepsToTheEnd ==
    ASSUME NEW x \in Nat \ {0}, NEW d \in Nat \ {0}
    PROVE  \E n \in 1 .. x : (n - 1) * d < x /\ x <= n * d
<1>1. PICK y \in Nat : y = x - 1
  OBVIOUS
<1>2. PICK q \in Int : q = y \div d
  OBVIOUS
<1>3. d * q <= y /\ y < d * q + d
  <2>1. d * (y \div d) <= y
    OBVIOUS
  <2>2. y < d * (y \div d) + d
    OBVIOUS
  <2> QED
    BY <1>2, <2>1, <2>2
<1>4. d * q = q * d
  OBVIOUS
<1>5. (q + 1) * d = q * d + d
  OBVIOUS
<1>6. q >= 0
  <2> SUFFICES ASSUME q < 0 PROVE FALSE
    OBVIOUS
  <2>1. q + 1 <= 0
    OBVIOUS
  <2>2. (q + 1) * d <= 0
    BY <2>1
  <2> QED
    BY <1>3, <1>4, <1>5, <2>2
<1>7. q <= q * d
  BY <1>6
<1>8. PICK p \in Int, r \in Int : p = q * d /\ r = (q + 1) * d
  OBVIOUS
<1>9. p <= y /\ y < r /\ q <= p
  BY <1>3, <1>4, <1>5, <1>7, <1>8
<1>10. q + 1 \in 1 .. x /\ (q + 1) - 1 = q
  BY <1>1, <1>6, <1>8, <1>9
<1>11. p < x /\ x <= r
  BY <1>1, <1>8, <1>9
<1> QED
  BY <1>8, <1>10, <1>11

\* A session is shorter than a day.
LEMMA SessionFits ==
    ASSUME NEW k \in Calendar
    PROVE  Sessions[k].close - Sessions[k].open < DayLength
<1>1. PICK o \in Int, c \in Int, d \in Int, length \in Nat \ {0} :
          /\ o = Sessions[k].open /\ c = Sessions[k].close /\ d = Sessions[k].date /\ length = DayLength
          /\ Day(o) = d /\ Day(c) = d
  BY SessionIs, SessionsIncrease
<1>2. PICK p \in Int : p = d * length
  OBVIOUS
<1>3. p <= o /\ c < p + length
  BY <1>1, <1>2, DayIs
<1>4. c - o < length
  BY <1>3
<1> QED
  BY <1>1, <1>4

\* A time in the hours of a session, or its close, is on its day.
LEMMA DayInHours ==
    ASSUME NEW k \in Calendar, NEW t \in Int, Sessions[k].open <= t, t <= Sessions[k].close
    PROVE  Day(t) = Sessions[k].date
<1>1. PICK o \in Int, c \in Int, d \in Int :
          o = Sessions[k].open /\ c = Sessions[k].close /\ d = Sessions[k].date /\ Day(o) = d /\ Day(c) = d
  BY SessionIs
<1>2. d <= Day(t) /\ Day(t) <= d
  BY <1>1, DaysGoOn
<1> QED
  BY <1>1, <1>2, DayIs

\* A bar's end is the n-th step of session k, or its close.
Tile(t, k, n) ==
    /\ Sessions[k].open + (n - 1) * Step < Sessions[k].close
    /\ t = Min({Sessions[k].open + n * Step, Sessions[k].close})

LEMMA GridIsTiles ==
    ASSUME NEW t \in Int
    PROVE  (\E s \in SessionOn(Day(t)) : t \in IntradayGrid(s))
              <=> \E k \in Calendar, n \in 1 .. DayLength : Tile(t, k, n)
<1>1. PICK step \in Nat \ {0} : step = Step
  BY QualityNumbers
<1>2. PICK length \in Nat \ {0} : length = DayLength
  BY SessionsIncrease
<1>3. ASSUME NEW s, s \in SessionOn(Day(t)), t \in IntradayGrid(s)
      PROVE  \E k \in Calendar, n \in 1 .. DayLength : Tile(t, k, n)
  <2>1. PICK k \in Calendar : s = Sessions[k] /\ Sessions[k].date = Day(t)
    BY <1>3, SessionOnIs
  <2>2. PICK o \in Int, c \in Int : o = Sessions[k].open /\ c = Sessions[k].close /\ o < c /\ c - o < length
    BY <1>2, SessionIs, SessionFits
  <2>3. (t \in o + 1 .. c /\ (t - o) % step = 0) \/ t = c
    BY <1>1, <1>3, <2>1, <2>2 DEF IntradayGrid
  <2>4. CASE t = c
    <3>1. PICK x \in Nat \ {0} : x = c - o
      BY <2>2
    <3>2. PICK n \in 1 .. x : (n - 1) * step < x /\ x <= n * step
      BY StepsToTheEnd
    <3>3. PICK p \in Int, q \in Int : p = n * step /\ q = (n - 1) * step
      OBVIOUS
    <3>4. o + q < c /\ c <= o + p /\ n \in 1 .. length
      BY <2>2, <3>1, <3>2, <3>3
    <3>5. Min({o + p, c}) = c
      <4>1. PICK e \in Int : e = o + p
        OBVIOUS
      <4>2. Min({e, c}) = IF e <= c THEN e ELSE c
        BY MinOfTwo
      <4>3. c <= e
        BY <3>4, <4>1
      <4> QED
        BY <4>1, <4>2, <4>3
    <3>6. Tile(t, k, n)
      BY <1>1, <2>2, <2>4, <3>3, <3>4, <3>5 DEF Tile
    <3> QED
      BY <1>2, <3>4, <3>6
  <2>5. CASE t \in o + 1 .. c /\ (t - o) % step = 0
    <3>1. PICK x \in Nat \ {0} : x = t - o /\ x % step = 0
      <4>1. t - o \in Nat \ {0}
        BY <2>5
      <4> QED
        BY <2>5, <4>1
    <3>2. PICK n \in Int : x = n * step
      <4>1. x \in Int
        OBVIOUS
      <4>2. \E n \in Int : x = n * step
        BY <3>1, <4>1, WholeSteps
      <4> QED
        BY <4>2
    <3>3. n >= 1
      <4> SUFFICES ASSUME n <= 0 PROVE FALSE
        OBVIOUS
      <4>1. n * step <= 0
        OBVIOUS
      <4> QED
        BY <3>2, <4>1
    <3>4. n <= n * step
      BY <3>3
    <3>5. PICK p \in Int, q \in Int : p = n * step /\ q = (n - 1) * step
      OBVIOUS
    <3>6. q = p - step
      <4>1. (n - 1) * step = n * step - step
        OBVIOUS
      <4> QED
        BY <3>5, <4>1
    <3>7. n \in 1 .. length /\ o + q < c /\ o + p = t /\ t <= c
      <4>1. t \in Int /\ t <= c /\ x = t - o /\ x = p /\ n <= p
        BY <2>5, <3>1, <3>2, <3>4, <3>5
      <4>2. o + p = t /\ n < length
        BY <2>2, <4>1
      <4>3. o + q < c
        BY <3>6, <4>1, <4>2
      <4> QED
        BY <3>3, <4>1, <4>2, <4>3
    <3>8. Min({o + p, c}) = t
      <4>1. Min({t, c}) = IF t <= c THEN t ELSE c
        BY MinOfTwo
      <4> QED
        BY <3>7, <4>1
    <3>9. Tile(t, k, n)
      BY <1>1, <2>2, <3>5, <3>7, <3>8 DEF Tile
    <3> QED
      BY <1>2, <3>7, <3>9
  <2> QED
    BY <2>3, <2>4, <2>5
<1>4. ASSUME NEW k \in Calendar, NEW n \in 1 .. DayLength, Tile(t, k, n)
      PROVE  \E s \in SessionOn(Day(t)) : t \in IntradayGrid(s)
  <2>1. PICK o \in Int, c \in Int : o = Sessions[k].open /\ c = Sessions[k].close /\ o < c
    BY SessionIs
  <2>2. n \in Nat \ {0}
    BY <1>2
  <2>3. PICK p \in Int : p = n * step
    BY <2>2
  <2>4. t = Min({o + p, c})
    BY <1>1, <1>4, <2>1, <2>3 DEF Tile
  <2>5. PICK e \in Int : e = o + p
    OBVIOUS
  <2>6. Min({e, c}) = IF e <= c THEN e ELSE c
    BY MinOfTwo
  <2>7. p >= 1
    <3>1. n * step >= 1
      BY <2>2
    <3> QED
      BY <2>3, <3>1
  <2>8. (t = c \/ t = e) /\ t <= c /\ o + 1 <= t
    BY <2>1, <2>4, <2>5, <2>6, <2>7
  <2>9. Day(t) = Sessions[k].date
    BY <2>1, <2>8, DayInHours
  <2>10. t = c \/ (t - o) % step = 0
    <3>1. ASSUME t = e PROVE (t - o) % step = 0
      <4>1. PICK x \in Int : x = t - o
        OBVIOUS
      <4>2. x = n * step /\ n \in Int
        BY <2>2, <2>3, <2>5, <3>1, <4>1
      <4>3. x % step = 0
        BY <4>2, WholeSteps
      <4> QED
        BY <4>1, <4>3
    <3> QED
      BY <2>8, <3>1
  <2>11. t \in IntradayGrid(Sessions[k])
    <3>1. t \in o + 1 .. c
      BY <2>8
    <3> QED
      BY <1>1, <2>1, <2>10, <3>1 DEF IntradayGrid
  <2> QED
    BY <2>9, <2>11, SessionOnIs
<1> QED
  BY <1>3, <1>4

LEMMA IntradayIsTiled == QualityInv => IntradayBarsTile
<1> SUFFICES ASSUME QualityInv PROVE IntradayBarsTile
  OBVIOUS
<1>1. bars \in Seq(Candle) /\ now \in Int
  BY DEF QualityInv
<1> DEFINE N == Len(bars)
           C == CleanBars(bars)
           tiled(b) == /\ b.sound /\ b.end <= now
                       /\ \E s \in ToSet(Sessions), n \in 1 .. DayLength :
                             s.open + (n - 1) * Step < s.close /\ b.end = Min({s.open + n * Step, s.close})
<1>2. IntradayOk(bars, now) <=>
          /\ bars # << >> /\ Ascending(bars)
          /\ ValueErrors(C) = {} /\ FutureErrors(C, now) = {} /\ IntradayErrors(C) = {}
  <2>1. IntradayOk(bars, now) <=>
          /\ bars # << >> /\ OrderErrors(bars) = {}
          /\ ValueErrors(C) = {} /\ FutureErrors(C, now) = {} /\ IntradayErrors(C) = {}
    BY DEF IntradayOk
  <2> HIDE DEF C
  <2> QED
    BY <1>1, <2>1, OrderErrorsAre
<1>3. ASSUME Ascending(bars)
      PROVE  (ValueErrors(C) = {} /\ FutureErrors(C, now) = {} /\ IntradayErrors(C) = {})
                <=> \A b \in ToSet(bars) : tiled(b)
  <2>1. C = bars
    BY <1>1, <1>3, CleanIsTheSame
  <2>2. \A b \in ToSet(bars) : b.end \in Int
    BY <1>1, EntriesOf, SeriesIs
  <2>3. ValueErrors(bars) = {} <=> \A b \in ToSet(bars) : b.sound
    BY DEF ValueErrors
  <2>4. FutureErrors(bars, now) = {} <=> \A b \in ToSet(bars) : b.end <= now
    <3>1. FutureErrors(bars, now) = {} <=> \A b \in ToSet(bars) : ~ b.end > now
      BY DEF FutureErrors
    <3>2. \A b \in ToSet(bars) : ~ b.end > now <=> b.end <= now
      BY <1>1, <2>2
    <3> QED
      BY <3>1, <3>2
  <2>5. IntradayErrors(bars) = {} <=>
            \A b \in ToSet(bars) : \E s \in SessionOn(Day(b.end)) : b.end \in IntradayGrid(s)
    BY DEF IntradayErrors
  <2>6. ASSUME NEW b \in ToSet(bars)
        PROVE  (\E s \in SessionOn(Day(b.end)) : b.end \in IntradayGrid(s))
                  <=> \E s \in ToSet(Sessions), n \in 1 .. DayLength :
                         s.open + (n - 1) * Step < s.close /\ b.end = Min({s.open + n * Step, s.close})
    <3>1. \A s : s \in ToSet(Sessions) <=> \E k \in Calendar : s = Sessions[k]
      BY SessionIs DEF ToSet
    <3>2. (\E s \in SessionOn(Day(b.end)) : b.end \in IntradayGrid(s))
              <=> \E k \in Calendar, n \in 1 .. DayLength : Tile(b.end, k, n)
      BY <2>2, GridIsTiles
    <3>3. (\E k \in Calendar, n \in 1 .. DayLength : Tile(b.end, k, n))
              <=> \E s \in ToSet(Sessions), n \in 1 .. DayLength :
                     s.open + (n - 1) * Step < s.close /\ b.end = Min({s.open + n * Step, s.close})
      <4>1. ASSUME NEW k \in Calendar, NEW n \in 1 .. DayLength, Tile(b.end, k, n)
            PROVE  \E s \in ToSet(Sessions), m \in 1 .. DayLength :
                     s.open + (m - 1) * Step < s.close /\ b.end = Min({s.open + m * Step, s.close})
        <5>1. Sessions[k] \in ToSet(Sessions)
          BY <3>1
        <5> QED
          BY <4>1, <5>1 DEF Tile
      <4>2. ASSUME NEW s \in ToSet(Sessions), NEW n \in 1 .. DayLength,
                   s.open + (n - 1) * Step < s.close, b.end = Min({s.open + n * Step, s.close})
            PROVE  \E k \in Calendar, m \in 1 .. DayLength : Tile(b.end, k, m)
        <5>1. PICK k \in Calendar : s = Sessions[k]
          BY <3>1
        <5>2. Tile(b.end, k, n)
          BY <4>2, <5>1 DEF Tile
        <5> QED
          BY <5>2
      <4> QED
        BY <4>1, <4>2
    <3> QED
      BY <3>2, <3>3
  <2>7. \A b \in ToSet(bars) : tiled(b) <=>
            b.sound /\ b.end <= now /\ \E s \in SessionOn(Day(b.end)) : b.end \in IntradayGrid(s)
    BY <2>6
  <2> HIDE DEF tiled, C
  <2> QED
    BY <2>1, <2>3, <2>4, <2>5, <2>7
<1>4. IntradayOk(bars, now) <=> bars # << >> /\ Ascending(bars) /\ \A b \in ToSet(bars) : tiled(b)
  <2> HIDE DEF tiled, C
  <2> QED
    BY <1>2, <1>3
<1> QED
  BY <1>4 DEF IntradayBarsTile, Ascending

-----------------------------------------------------------------------------
(* Products. *)

PartialProduct(s, g) ==
    /\ g \in [0 .. Len(s) -> Int] /\ g[0] = 1
    /\ \A n \in 1 .. Len(s) : g[n] = g[n - 1] * s[n]

\* As for sums: two functions with the same start and the same steps are the same.
LEMMA ProductsAgree ==
    ASSUME NEW N \in Nat, NEW s, NEW g, NEW h, g[0] = h[0],
           \A n \in 1 .. N : g[n] = g[n - 1] * s[n],
           \A n \in 1 .. N : h[n] = h[n - 1] * s[n]
    PROVE  g[N] = h[N]
<1> DEFINE S == {m \in 0 .. N : g[m] # h[m]}
<1>1. SUFFICES ASSUME S # {} PROVE FALSE
  OBVIOUS
<1>2. PICK m \in S : \A k \in S : m <= k
  <2>1. S \in SUBSET Nat
    OBVIOUS
  <2> HIDE DEF S
  <2> QED
    BY <1>1, <2>1, Smallest
<1>3. m \in 1 .. N /\ m - 1 \in 0 .. N /\ m - 1 \notin S
  BY <1>2
<1>4. g[m - 1] = h[m - 1]
  BY <1>3
<1> QED
  BY <1>2, <1>3, <1>4

LEMMA ProductIs ==
    ASSUME NEW s \in Seq(Int)
    PROVE  \E g : PartialProduct(s, g) /\ Product(s) = g[Len(s)]
<1> DEFINE N == Len(s)
           prod == CHOOSE f : f = [n \in 0 .. N |-> IF n = 0 THEN 1 ELSE f[n - 1] * s[n]]
           F == [p \in (1 .. N) \X Int |-> p[2] * s[p[1]]]
<1>1. N \in Nat /\ \A n \in 1 .. N : s[n] \in Int
  BY LenProperties, ElementOfSeq
<1> HIDE DEF N
<1>2. F \in StepsOn(N, Int)
  BY <1>1 DEF StepsOn
<1> HIDE DEF F
<1>3. PICK g : Taken(N, Int, 1, F, g)
  <2>1. 1 \in Int
    OBVIOUS
  <2> QED
    BY <1>1, <1>2, <2>1, RecursionExists
<1>4. ASSUME NEW n \in 1 .. N PROVE g[n - 1] \in Int /\ g[n] = g[n - 1] * s[n]
  <2>1. n - 1 \in 0 .. N
    BY <1>1
  <2>2. g[n - 1] \in Int /\ << n, g[n - 1] >> \in (1 .. N) \X Int
    BY <1>3, <2>1 DEF Taken
  <2>3. F[<< n, g[n - 1] >>] = g[n - 1] * s[n]
    BY <2>2 DEF F
  <2> QED
    BY <1>3, <2>2, <2>3 DEF Taken
<1>5. g = [n \in 0 .. N |-> IF n = 0 THEN 1 ELSE g[n - 1] * s[n]]
  BY <1>1, <1>3, <1>4 DEF Taken
<1>6. prod = [n \in 0 .. N |-> IF n = 0 THEN 1 ELSE prod[n - 1] * s[n]]
  BY <1>5
<1>7. Product(s) = prod[N]
  BY DEF Product, N
<1> HIDE DEF prod
<1>8. prod[0] = 1 /\ \A n \in 1 .. N : prod[n] = prod[n - 1] * s[n]
  BY <1>1, <1>6
<1>9. prod[N] = g[N]
  <2>1. g[0] = 1 /\ \A n \in 1 .. N : g[n] = g[n - 1] * s[n]
    BY <1>3, <1>4 DEF Taken
  <2>2. N \in 0 .. N /\ prod[0] = g[0]
    BY <1>1, <1>8, <2>1
  <2> QED
    BY <1>1, <1>8, <2>1, <2>2, ProductsAgree
<1>10. PartialProduct(s, g)
  BY <1>3, <1>4 DEF PartialProduct, N, Taken
<1> QED
  BY <1>7, <1>9, <1>10 DEF N

LEMMA ProductOfOnes ==
    ASSUME NEW s \in Seq(Int), \A n \in 1 .. Len(s) : s[n] = 1
    PROVE  Product(s) = 1
<1>1. PICK g : PartialProduct(s, g) /\ Product(s) = g[Len(s)]
  BY ProductIs
<1> DEFINE N == Len(s)
           h == [n \in 0 .. N |-> 1]
<1>2. N \in Nat /\ N \in 0 .. N
  BY LenProperties
<1>3. g[0] = h[0]
  BY <1>1, <1>2 DEF PartialProduct
<1>4. \A n \in 1 .. N : g[n] = g[n - 1] * s[n]
  BY <1>1 DEF PartialProduct
<1>5. ASSUME NEW n \in 1 .. N PROVE h[n] = h[n - 1] * s[n]
  <2>1. n \in 0 .. N /\ n - 1 \in 0 .. N
    BY <1>2
  <2>2. h[n] = 1 /\ h[n - 1] = 1 /\ s[n] = 1
    BY <2>1
  <2> QED
    BY <2>2
<1>6. h[N] = 1
  BY <1>2
<1> HIDE DEF N, h
<1>7. g[N] = h[N]
  BY <1>2, <1>3, <1>4, <1>5, ProductsAgree
<1> QED
  BY <1>1, <1>6, <1>7 DEF N

\* Both sides of an equation of products, scaled: what an action does to them.
LEMMA ScaledAlike ==
    ASSUME NEW a \in Int, NEW b \in Int, NEW r \in Int, NEW c \in Int, NEW e \in Int, NEW f \in Int,
           NEW z \in Int, NEW p \in Int, NEW q \in Int,
           ((a * b) * r) * c = (e * f) * z
    PROVE  (((a * p) * (b * q)) * r) * c = ((e * p) * (f * q)) * z
<1>1. (((a * p) * (b * q)) * r) * c = (((a * b) * r) * c) * (p * q)
  OBVIOUS
<1>2. ((e * p) * (f * q)) * z = ((e * f) * z) * (p * q)
  OBVIOUS
<1>3. PICK x \in Int, y \in Int : x = ((a * b) * r) * c /\ y = p * q
  OBVIOUS
<1>4. (((a * b) * r) * c) * (p * q) = x * y
  BY <1>3
<1>5. ((e * f) * z) * (p * q) = x * y
  BY <1>3
<1> QED
  BY <1>1, <1>2, <1>4, <1>5

LEMMA ScaledBySplit ==
    ASSUME NEW a \in Int, NEW b \in Int, NEW r \in Int, NEW c \in Int, NEW e \in Int, NEW f \in Int,
           NEW z \in Int, NEW q \in Int,
           ((a * b) * r) * c = (e * f) * z
    PROVE  ((a * b) * (r * q)) * c = (e * (f * q)) * z
<1>1. ((a * b) * (r * q)) * c = (((a * b) * r) * c) * q
  OBVIOUS
<1>2. (e * (f * q)) * z = ((e * f) * z) * q
  OBVIOUS
<1>3. PICK x \in Int : x = ((a * b) * r) * c
  OBVIOUS
<1>4. (((a * b) * r) * c) * q = x * q
  BY <1>3
<1>5. ((e * f) * z) * q = x * q
  BY <1>3
<1> QED
  BY <1>1, <1>2, <1>4, <1>5

LEMMA ScaledByDividend ==
    ASSUME NEW a \in Int, NEW b \in Int, NEW r \in Int, NEW c \in Int, NEW e \in Int, NEW f \in Int,
           NEW z \in Int,
           ((a * b) * r) * c = (e * f) * c
    PROVE  (((a * z) * b) * r) * c = (e * (f * c)) * z
<1>1. (((a * z) * b) * r) * c = (((a * b) * r) * c) * z
  OBVIOUS
<1>2. (e * (f * c)) * z = ((e * f) * c) * z
  OBVIOUS
<1>3. PICK x \in Int : x = ((a * b) * r) * c
  OBVIOUS
<1>4. (((a * b) * r) * c) * z = x * z
  BY <1>3
<1>5. ((e * f) * c) * z = x * z
  BY <1>3
<1> QED
  BY <1>1, <1>2, <1>4, <1>5

\* What the k-th action contributes to the factors of two bars and to what is
\* between them: the same to both, a split, or the one dividend.
Alike(o1, o2, n1, n2, r, d, k)   == n1[k] = o1[k] /\ n2[k] = o2[k] /\ r[k] = 1 /\ d[k] = 0
Splits(o1, o2, n1, n2, r, d, k)  == o1[k] = 1 /\ n1[k] = 1 /\ n2[k] = 1 /\ r[k] = o2[k] /\ d[k] = 0
Divides(o1, o2, n1, n2, r, d, c, k) ==
    /\ o1[k] = c - d[k] /\ o2[k] = c /\ n1[k] = 1 /\ n2[k] = 1 /\ r[k] = 1
    /\ \A m \in 1 .. Len(d) : m # k => d[m] = 0

Contributions(M, c, o1, o2, n1, n2, r, d) ==
    /\ M \in Nat /\ c \in Int
    /\ o1 \in Seq(Int) /\ o2 \in Seq(Int) /\ n1 \in Seq(Int) /\ n2 \in Seq(Int)
    /\ r \in Seq(Int) /\ d \in Seq(Int)
    /\ Len(o1) = M /\ Len(o2) = M /\ Len(n1) = M /\ Len(n2) = M /\ Len(r) = M /\ Len(d) = M
    /\ \A k \in 1 .. M : \/ Alike(o1, o2, n1, n2, r, d, k)
                          \/ Splits(o1, o2, n1, n2, r, d, k)
                          \/ Divides(o1, o2, n1, n2, r, d, c, k)

LEMMA ReturnsAreKept ==
    ASSUME NEW M, NEW c, NEW o1, NEW o2, NEW n1, NEW n2, NEW r, NEW d,
           Contributions(M, c, o1, o2, n1, n2, r, d)
    PROVE  ((Product(o1) * Product(n2)) * Product(r)) * c = (Product(n1) * Product(o2)) * (c - Summed(d))
<1>0. /\ M \in Nat /\ c \in Int
      /\ o1 \in Seq(Int) /\ o2 \in Seq(Int) /\ n1 \in Seq(Int) /\ n2 \in Seq(Int)
      /\ r \in Seq(Int) /\ d \in Seq(Int)
      /\ Len(o1) = M /\ Len(o2) = M /\ Len(n1) = M /\ Len(n2) = M /\ Len(r) = M /\ Len(d) = M
      /\ \A k \in 1 .. M : \/ Alike(o1, o2, n1, n2, r, d, k)
                            \/ Splits(o1, o2, n1, n2, r, d, k)
                            \/ Divides(o1, o2, n1, n2, r, d, c, k)
  BY DEF Contributions
<1> USE <1>0
<1>1. PICK O1 : PartialProduct(o1, O1) /\ Product(o1) = O1[M]
  BY ProductIs
<1>2. PICK O2 : PartialProduct(o2, O2) /\ Product(o2) = O2[M]
  BY ProductIs
<1>3. PICK N1 : PartialProduct(n1, N1) /\ Product(n1) = N1[M]
  BY ProductIs
<1>4. PICK N2 : PartialProduct(n2, N2) /\ Product(n2) = N2[M]
  BY ProductIs
<1>5. PICK R : PartialProduct(r, R) /\ Product(r) = R[M]
  BY ProductIs
<1>6. PICK D : Partial(d, D) /\ Summed(d) = D[M]
  BY SumIs
<1>7. \A k \in 0 .. M : /\ O1[k] \in Int /\ O2[k] \in Int /\ N1[k] \in Int /\ N2[k] \in Int
                        /\ R[k] \in Int /\ D[k] \in Int
  BY <1>1, <1>2, <1>3, <1>4, <1>5, <1>6 DEF PartialProduct, Partial
<1>8. O1[0] = 1 /\ O2[0] = 1 /\ N1[0] = 1 /\ N2[0] = 1 /\ R[0] = 1 /\ D[0] = 0
  BY <1>1, <1>2, <1>3, <1>4, <1>5, <1>6 DEF PartialProduct, Partial
<1>9. \A k \in 1 .. M : O1[k] = O1[k - 1] * o1[k] /\ O2[k] = O2[k - 1] * o2[k]
  BY <1>1, <1>2 DEF PartialProduct
<1>10. \A k \in 1 .. M : N1[k] = N1[k - 1] * n1[k] /\ N2[k] = N2[k - 1] * n2[k]
  BY <1>3, <1>4 DEF PartialProduct
<1>11. \A k \in 1 .. M : R[k] = R[k - 1] * r[k] /\ D[k] = D[k - 1] + d[k]
  BY <1>5, <1>6 DEF PartialProduct, Partial
<1>12. \A k \in 1 .. M : /\ o1[k] \in Int /\ o2[k] \in Int /\ n1[k] \in Int /\ n2[k] \in Int
                         /\ r[k] \in Int /\ d[k] \in Int
  BY ElementOfSeq
<1> DEFINE Kept(k) == /\ ((O1[k] * N2[k]) * R[k]) * c = (N1[k] * O2[k]) * (c - D[k])
                      /\ D[k] = 0 \/ \E m \in 1 .. k : d[m] # 0
           S == {k \in 0 .. M : ~ Kept(k)}
<1>13. Kept(0)
  <2>1. 0 \in 0 .. M /\ ((1 * 1) * 1) * c = (1 * 1) * (c - 0)
    OBVIOUS
  <2> QED
    BY <1>8, <2>1
<1>14. ASSUME NEW k \in 1 .. M, Kept(k - 1) PROVE Kept(k)
  <2>1. k \in 0 .. M /\ k - 1 \in 0 .. M
    OBVIOUS
  <2>2. PICK a \in Int, b \in Int, e \in Int : a = O1[k - 1] /\ b = N2[k - 1] /\ e = N1[k - 1]
    BY <1>7, <2>1
  <2> HIDE DEF Kept
  <2>3. PICK f \in Int, s \in Int, w \in Int : f = O2[k - 1] /\ s = R[k - 1] /\ w = D[k - 1]
    BY <1>7, <2>1
  <2>4. PICK z \in Int : z = c - w
    OBVIOUS
  <2>5. ((a * b) * s) * c = (e * f) * z
    BY <1>14, <2>2, <2>3, <2>4 DEF Kept
  <2>6. D[k] \in Int /\ (D[k] = 0 \/ \E m \in 1 .. k : d[m] # 0)
    <3>1. D[k] \in Int /\ d[k] \in Int /\ D[k] = w + d[k] /\ k \in 1 .. k
      <4>1. D[k] = w + d[k]
        BY <1>11, <2>3
      <4>2. D[k] \in Int /\ d[k] \in Int
        BY <1>7, <1>12, <2>1
      <4> QED
        BY <4>1, <4>2
    <3>2. w = 0 \/ \E m \in 1 .. k - 1 : d[m] # 0
      BY <1>14, <2>3 DEF Kept
    <3>3. \A m \in 1 .. k - 1 : m \in 1 .. k
      OBVIOUS
    <3>4. w = 0 /\ d[k] = 0 => D[k] = 0
      BY <3>1
    <3> HIDE DEF Kept
    <3> QED
      BY <3>1, <3>2, <3>3, <3>4
  <2>7. CASE Alike(o1, o2, n1, n2, r, d, k)
    <3>1. PICK p \in Int, q \in Int : p = o1[k] /\ q = o2[k]
      BY <1>12
    <3>2. O1[k] = a * p /\ N2[k] = b * q /\ N1[k] = e * p /\ O2[k] = f * q
      BY <1>9, <1>10, <2>2, <2>3, <2>7, <3>1 DEF Alike
    <3>3. R[k] = s /\ D[k] = w
      <4>1. R[k] = s * r[k] /\ D[k] = w + d[k]
        BY <1>11, <2>3
      <4>2. R[k] = s * 1 /\ D[k] = w + 0
        BY <2>7, <4>1 DEF Alike
      <4> QED
        BY <4>2
    <3>4. (((a * p) * (b * q)) * s) * c = ((e * p) * (f * q)) * z
      BY <2>5, ScaledAlike
    <3>5. ((O1[k] * N2[k]) * R[k]) * c = (N1[k] * O2[k]) * (c - D[k])
      BY <2>4, <3>2, <3>3, <3>4
    <3> QED
      BY <2>6, <3>5 DEF Kept
  <2>8. CASE Splits(o1, o2, n1, n2, r, d, k)
    <3>1. PICK q \in Int : q = o2[k]
      BY <1>12
    <3>2. O1[k] = a /\ N2[k] = b /\ N1[k] = e /\ O2[k] = f * q
      <4>1. O1[k] = a * o1[k] /\ N2[k] = b * n2[k] /\ N1[k] = e * n1[k] /\ O2[k] = f * q
        BY <1>9, <1>10, <2>2, <2>3, <3>1
      <4>2. O1[k] = a * 1 /\ N2[k] = b * 1 /\ N1[k] = e * 1
        BY <2>8, <4>1 DEF Splits
      <4> QED
        BY <4>1, <4>2
    <3>3. R[k] = s * q /\ D[k] = w
      <4>1. R[k] = s * r[k] /\ D[k] = w + d[k]
        BY <1>11, <2>3
      <4>2. R[k] = s * q /\ D[k] = w + 0
        BY <2>8, <3>1, <4>1 DEF Splits
      <4> QED
        BY <4>2
    <3>4. ((a * b) * (s * q)) * c = (e * (f * q)) * z
      BY <2>5, ScaledBySplit
    <3>5. ((O1[k] * N2[k]) * R[k]) * c = (N1[k] * O2[k]) * (c - D[k])
      BY <2>4, <3>2, <3>3, <3>4
    <3> QED
      BY <2>6, <3>5 DEF Kept
  <2>9. CASE Divides(o1, o2, n1, n2, r, d, c, k)
    <3>1. w = 0
      <4>1. \A m \in 1 .. k - 1 : m \in 1 .. Len(d) /\ m # k
        OBVIOUS
      <4>2. \A m \in 1 .. k - 1 : d[m] = 0
        BY <2>9, <4>1 DEF Divides
      <4> QED
        BY <1>14, <2>3, <4>2 DEF Kept
    <3>2. PICK x \in Int : x = c - d[k]
      BY <1>12
    <3>3. O1[k] = a * x /\ N2[k] = b /\ N1[k] = e /\ O2[k] = f * c
      <4>1. O1[k] = a * o1[k] /\ N2[k] = b * n2[k] /\ N1[k] = e * n1[k] /\ O2[k] = f * o2[k]
        BY <1>9, <1>10, <2>2, <2>3
      <4>2. O1[k] = a * x /\ N2[k] = b * 1 /\ N1[k] = e * 1 /\ O2[k] = f * c
        BY <2>9, <3>2, <4>1 DEF Divides
      <4> QED
        BY <4>2
    <3>4. R[k] = s /\ c - D[k] = x
      <4>1. R[k] = s * 1 /\ D[k] = w + d[k] /\ d[k] \in Int
        BY <1>11, <1>12, <2>3, <2>9 DEF Divides
      <4> QED
        BY <3>1, <3>2, <4>1
    <3>5. z = c
      BY <2>4, <3>1
    <3>6. (((a * x) * b) * s) * c = (e * (f * c)) * x
      BY <2>5, <3>5, ScaledByDividend
    <3>7. ((O1[k] * N2[k]) * R[k]) * c = (N1[k] * O2[k]) * (c - D[k])
      BY <3>3, <3>4, <3>6
    <3> QED
      BY <2>6, <3>7 DEF Kept
  <2> HIDE DEF Kept
  <2> QED
    BY <2>7, <2>8, <2>9
<1> HIDE DEF Kept
<1>15. S = {}
  <2> SUFFICES ASSUME S # {} PROVE FALSE
    OBVIOUS
  <2>1. PICK k \in S : \A m \in S : k <= m
    <3>1. S \in SUBSET Nat
      OBVIOUS
    <3> HIDE DEF S
    <3> QED
      BY <3>1, Smallest
  <2>2. k \in 0 .. M /\ ~ Kept(k)
    OBVIOUS
  <2>3. k # 0
    BY <1>13, <2>2
  <2>4. k \in 1 .. M /\ k - 1 \in 0 .. M /\ ~ k <= k - 1
    BY <2>2, <2>3
  <2>5. k - 1 \notin S
    <3> HIDE DEF S
    <3> QED
      BY <2>1, <2>4
  <2>6. Kept(k - 1)
    BY <2>4, <2>5
  <2> QED
    BY <1>14, <2>2, <2>4, <2>6
<1>16. Kept(M)
  <2>1. M \in 0 .. M
    OBVIOUS
  <2> QED
    BY <1>15, <2>1
<1> QED
  BY <1>1, <1>2, <1>3, <1>4, <1>5, <1>6, <1>16 DEF Kept

-----------------------------------------------------------------------------
(* Adjustment. *)

LEMMA DaysOfConsecutive ==
    ASSUME NEW series \in Seq(Candle), NEW i, NEW j, Consecutive(series, i, j),
           NEW k \in 1 .. Len(series), NEW m \in 1 .. Len(series)
    PROVE  /\ Day(series[k].end) \in Int /\ Day(series[m].end) \in Int
           /\ Day(series[k].end) <= Day(series[m].end) <=> k <= m
<1>1. k \in Int /\ m \in Int /\ i \in Int
  BY SeriesIs, SessionIs DEF Consecutive, Calendar
<1>2. PICK x \in Calendar : x = i + k - 1 /\ series[k].end = Sessions[x].close
  BY DEF Consecutive
<1>3. PICK y \in Calendar : y = i + m - 1 /\ series[m].end = Sessions[y].close
  BY DEF Consecutive
<1>4. Day(series[k].end) = Sessions[x].date /\ Day(series[m].end) = Sessions[y].date
  BY <1>2, <1>3, SessionIs
<1>5. Sessions[x].date <= Sessions[y].date <=> x <= y
  BY SessionsCompare
<1>6. x <= y <=> k <= m
  BY <1>1, <1>2, <1>3
<1> QED
  BY <1>4, <1>5, <1>6, SessionIs

\* The bars before an action, and what it makes of each bar.
ActedOn(series, a, b) ==
    /\ b \in 0 .. Len(series)
    /\ \A k \in 1 .. Len(series) : Day(series[k].end) < a.date <=> k <= b
    /\ \A k \in 1 .. Len(series) :
          ActionFactor(series, k, a, "all") =
              IF k > b \/ b = Len(series) THEN << 1, 1 >>
              ELSE IF a.type = "split" THEN << 1, a.ratio >>
              ELSE << series[b].close - a.amount, series[b].close >>

LEMMA ActionFactorIs ==
    ASSUME NEW series \in Seq(Candle), NEW i, NEW j, Consecutive(series, i, j), NEW a \in Action
    PROVE  \E b : ActedOn(series, a, b)
<1> DEFINE N == Len(series)
           T == {k \in DOMAIN series : Day(series[k].end) < a.date}
<1>1. N \in Nat /\ DOMAIN series = 1 .. N /\ a.date \in Int
  BY SeriesIs DEF Action
<1>2. PICK b \in 0 .. N : T = 1 .. b
  <2>1. T \in SUBSET (1 .. N)
    BY <1>1
  <2>2. ASSUME NEW k \in 1 .. N, NEW m \in T, k <= m PROVE k \in T
    <3>1. m \in 1 .. N /\ Day(series[m].end) < a.date
      BY <1>1
    <3>2. PICK x \in Int, y \in Int : x = Day(series[k].end) /\ y = Day(series[m].end) /\ x <= y
      BY <2>2, <3>1, DaysOfConsecutive
    <3>3. x < a.date
      BY <1>1, <3>1, <3>2
    <3> QED
      BY <1>1, <3>2, <3>3
  <2> HIDE DEF T, N
  <2> QED
    BY <1>1, <2>1, <2>2, FirstOnes
<1>3. \A k \in 1 .. N : k \in T <=> k <= b
  <2> HIDE DEF T, N
  <2> QED
    BY <1>1, <1>2
<1>4. \A k \in 1 .. N : Day(series[k].end) < a.date <=> k <= b
  BY <1>1, <1>3
<1>5. T = DOMAIN series <=> b = N
  <2>1. ASSUME 1 .. b = 1 .. N PROVE b = N
    <3> HIDE DEF T, N
    <3>1. b \in Nat /\ N \in Nat /\ b <= N
      BY <1>1
    <3>2. CASE N = 0
      BY <3>1, <3>2
    <3>3. CASE N # 0
      <4>1. N \in 1 .. N
        BY <3>1, <3>3
      <4>2. N \in 1 .. b
        BY <2>1, <4>1
      <4> QED
        BY <3>1, <4>2
    <3> QED
      BY <3>2, <3>3
  <2> HIDE DEF T, N
  <2> QED
    BY <1>1, <1>2, <2>1
<1>6. ASSUME b # 0 PROVE Max(T) = b
  <2>1. (1 .. b) \in SUBSET Int /\ b \in 1 .. b /\ \A x \in 1 .. b : x <= b
    BY <1>1, <1>6
  <2>2. Max(1 .. b) = b
    BY <2>1, MaxIs
  <2> HIDE DEF T
  <2> QED
    BY <1>2, <2>2
<1>7. ASSUME NEW k \in 1 .. N
      PROVE  ActionFactor(series, k, a, "all") =
                IF k > b \/ b = N THEN << 1, 1 >>
                ELSE IF a.type = "split" THEN << 1, a.ratio >>
                ELSE << series[b].close - a.amount, series[b].close >>
  <2>1. ActionFactor(series, k, a, "all") =
            IF k \notin T \/ T = DOMAIN series THEN << 1, 1 >>
            ELSE IF a.type = "split" THEN << 1, a.ratio >>
            ELSE << series[Max(T)].close - a.amount, series[Max(T)].close >>
    BY DEF ActionFactor
  <2>2. k \notin T <=> k > b
    <3>1. k > b <=> ~ k <= b
      BY <1>1, <1>2
    <3> QED
      BY <1>3, <3>1
  <2>3. CASE k > b \/ b = N
    <3> HIDE DEF T, N
    <3> QED
      BY <1>5, <2>1, <2>2, <2>3
  <2>4. CASE ~ (k > b \/ b = N)
    <3>1. b # 0
      <4> HIDE DEF T, N
      <4>1. k \in Nat /\ b \in Nat /\ k >= 1 /\ ~ k > b
        BY <1>1, <2>4
      <4> QED
        BY <4>1
    <3>2. Max(T) = b
      BY <1>6, <3>1
    <3> HIDE DEF T, N
    <3> QED
      BY <1>5, <2>1, <2>2, <2>4, <3>2
  <2> QED
    BY <2>3, <2>4
<1>8. ActedOn(series, a, b)
  BY <1>4, <1>7 DEF ActedOn
<1> QED
  BY <1>8

\* An action between a bar and the next.
Between(series, i, a) == Day(series[i].end) < a.date /\ a.date <= Day(series[i + 1].end)

LEMMA ActionOnReturn ==
    ASSUME NEW series \in Seq(Candle), NEW first, NEW last, Consecutive(series, first, last),
           NEW a \in Action, NEW i \in 1 .. Len(series) - 1
    PROVE  \E x, y, z, w \in Int :
              /\ ActionFactor(series, i, a, "all") = << x, y >>
              /\ ActionFactor(series, i + 1, a, "all") = << z, w >>
              /\ ~ Between(series, i, a) => z = x /\ w = y
              /\ Between(series, i, a) => z = 1 /\ w = 1
              /\ Between(series, i, a) /\ a.type = "split" => x = 1 /\ y = a.ratio
              /\ Between(series, i, a) /\ a.type = "dividend" =>
                    x = series[i].close - a.amount /\ y = series[i].close
<1> DEFINE N == Len(series)
<1>1. N \in Nat /\ i \in 1 .. N /\ i + 1 \in 1 .. N /\ i # N /\ i \in Nat
  BY SeriesIs
<1>2. PICK b : ActedOn(series, a, b)
  BY ActionFactorIs
<1>3. b \in 0 .. N /\ b \in Nat
  BY <1>1, <1>2 DEF ActedOn
<1>4. a.date \in Int /\ a.type \in {"split", "dividend"} /\ a.ratio \in Int /\ a.amount \in Int
  BY DEF Action
<1>5. Between(series, i, a) <=> b = i
  <2>1. Day(series[i].end) < a.date <=> i <= b
    BY <1>1, <1>2 DEF ActedOn
  <2>2. Day(series[i + 1].end) < a.date <=> i + 1 <= b
    BY <1>1, <1>2 DEF ActedOn
  <2>3. PICK y \in Int : y = Day(series[i + 1].end)
    BY <1>1, DaysOfConsecutive
  <2>4. a.date <= y <=> ~ y < a.date
    BY <1>4, <2>3
  <2>5. b = i <=> i <= b /\ ~ i + 1 <= b
    BY <1>1, <1>3
  <2> QED
    BY <2>1, <2>2, <2>3, <2>4, <2>5 DEF Between
<1>6. ActionFactor(series, i, a, "all") =
          IF i > b \/ b = N THEN << 1, 1 >>
          ELSE IF a.type = "split" THEN << 1, a.ratio >>
          ELSE << series[b].close - a.amount, series[b].close >>
  BY <1>1, <1>2 DEF ActedOn
<1>7. ActionFactor(series, i + 1, a, "all") =
          IF i + 1 > b \/ b = N THEN << 1, 1 >>
          ELSE IF a.type = "split" THEN << 1, a.ratio >>
          ELSE << series[b].close - a.amount, series[b].close >>
  BY <1>1, <1>2 DEF ActedOn
<1>8. CASE b = i
  <2>1. ~ i > b /\ b # N /\ i + 1 > b
    BY <1>1, <1>8
  <2>2. ActionFactor(series, i + 1, a, "all") = << 1, 1 >>
    BY <1>7, <2>1
  <2>3. CASE a.type = "split"
    <3>1. ActionFactor(series, i, a, "all") = << 1, a.ratio >>
      BY <1>6, <2>1, <2>3
    <3> QED
      BY <1>4, <1>5, <1>8, <2>2, <2>3, <3>1
  <2>4. CASE a.type = "dividend"
    <3>1. ActionFactor(series, i, a, "all") = << series[i].close - a.amount, series[i].close >>
      BY <1>6, <1>8, <2>1, <2>4
    <3>2. PICK c \in Int, x \in Int : c = series[i].close /\ x = series[i].close - a.amount
      BY <1>1, <1>4, SeriesIs
    <3> QED
      BY <1>5, <1>8, <2>2, <2>4, <3>1, <3>2
  <2> QED
    BY <1>4, <2>3, <2>4
<1>9. CASE b # i
  <2>1. i > b <=> i + 1 > b
    BY <1>1, <1>3, <1>9
  <2>2. ActionFactor(series, i + 1, a, "all") = ActionFactor(series, i, a, "all")
    BY <1>6, <1>7, <2>1
  <2>3. \E x, y \in Int : ActionFactor(series, i, a, "all") = << x, y >>
    <3>1. CASE i > b \/ b = N
      BY <1>6, <3>1
    <3>2. CASE ~ (i > b \/ b = N)
      <4>1. b \in 1 .. N
        BY <1>1, <1>3, <3>2
      <4>2. PICK c \in Int, x \in Int : c = series[b].close /\ x = series[b].close - a.amount
        BY <1>4, <4>1, SeriesIs
      <4> QED
        BY <1>4, <1>6, <3>2, <4>2
    <3> QED
      BY <3>1, <3>2
  <2>4. ~ Between(series, i, a)
    BY <1>5, <1>9
  <2> QED
    BY <2>2, <2>3, <2>4
<1> QED
  BY <1>8, <1>9

LEMMA ActionOnNewest ==
    ASSUME NEW series \in Seq(Candle), NEW first, NEW last, Consecutive(series, first, last), NEW a \in Action
    PROVE  ActionFactor(series, Len(series), a, "all") = << 1, 1 >>
<1>1. PICK b : ActedOn(series, a, b)
  BY ActionFactorIs
<1>2. PICK n \in Nat : n = Len(series)
  BY SeriesIs
<1>3. n \in 1 .. n
  <2>1. first \in Nat /\ last \in Nat /\ first <= last /\ n = last - first + 1
    BY <1>2, SessionIs DEF Consecutive, Calendar
  <2> QED
    BY <1>2, <2>1
<1>4. b \in 0 .. n
  BY <1>1, <1>2 DEF ActedOn
<1>5. n > b \/ b = n
  BY <1>2, <1>4
<1> QED
  BY <1>1, <1>2, <1>3, <1>5 DEF ActedOn

LEMMA ActionsList ==
    ASSUME NEW list \in Seq(Action)
    PROVE  /\ Dedupe(list) \in Seq(Action) /\ Len(Dedupe(list)) \in Nat
           /\ DOMAIN Dedupe(list) = 1 .. Len(Dedupe(list))
           /\ \A n \in 1 .. Len(Dedupe(list)) : Dedupe(list)[n] \in Action
<1> DEFINE T == ToSet(list)
<1>1. DOMAIN list = 1 .. Len(list) /\ Len(list) \in Nat /\ \A k \in 1 .. Len(list) : list[k] \in Action
  BY LenProperties, ElementOfSeq
<1>2. T \in SUBSET Action /\ \A x : x \in T <=> \E k \in 1 .. Len(list) : x = list[k]
  BY <1>1 DEF ToSet
<1>3. IsFiniteSet(T)
  <2> DEFINE f == [k \in 1 .. Len(list) |-> list[k]]
  <2> HIDE DEF T
  <2>1. f \in Surjection(1 .. Len(list), T)
    BY <1>2 DEF Surjection
  <2>2. IsFiniteSet(1 .. Len(list))
    BY <1>1, FS_Interval
  <2> HIDE DEF f
  <2> QED
    BY <2>1, <2>2, FS_Surjection
<1>4. Dedupe(list) \in Seq(T)
  <2>1. Dedupe(list) = SetToSeq(T)
    BY DEF Dedupe
  <2> HIDE DEF T
  <2> QED
    BY <1>3, <2>1, SetInASequence
<1> DEFINE q == Dedupe(list)
<1> HIDE DEF T, q
<1>5. Len(q) \in Nat /\ DOMAIN q = 1 .. Len(q) /\ \A n \in 1 .. Len(q) : q[n] \in T
  BY <1>4, LenProperties, ElementOfSeq DEF q
<1>6. q \in Seq(Action)
  <2>1. \A n \in 1 .. Len(q) : q[n] \in Action
    BY <1>2, <1>5
  <2>2. q \in [1 .. Len(q) -> T]
    BY <1>4, LenProperties DEF q
  <2>3. q \in [1 .. Len(q) -> Action]
    BY <1>2, <2>2
  <2> QED
    BY <1>5, <2>3, ListIsASeq
<1> QED
  BY <1>2, <1>5, <1>6 DEF q

\* The factor of a bar: what the products are of.
FactorList(list, k, part) ==
    [n \in DOMAIN Dedupe(list) |-> ActionFactor(bars, k, Dedupe(list)[n], "all")[part]]

LEMMA AdjustedIsOwned == QualityInv => AdjustedReturnsAreOwned
<1> SUFFICES ASSUME QualityInv, DailyOk(bars, now) PROVE AdjustedReturnsAreOwned
  BY DEF AdjustedReturnsAreOwned
<1> DEFINE acts == Dedupe(declared)
           M == Len(acts)
           N == Len(bars)
<1>1. bars \in Seq(Candle) /\ now \in Int /\ declared \in Seq(Action)
  BY QualityNumbers DEF QualityInv
<1>2. PICK first, last : Consecutive(bars, first, last)
  BY <1>1, DailyOkIs
<1>3. M \in Nat /\ DOMAIN acts = 1 .. M /\ \A n \in 1 .. M : acts[n] \in Action
  BY <1>1, ActionsList
<1>4. N \in Nat /\ \A k \in 1 .. N : bars[k].close \in Int
  BY <1>1, SeriesIs
<1>5. \A k : Factor(bars, declared, k, "all")
                = << Product(FactorList(declared, k, 1)), Product(FactorList(declared, k, 2)) >>
  BY DEF Factor, FactorList
<1>6. \A k, part, n : n \in 1 .. M =>
          FactorList(declared, k, part)[n] = ActionFactor(bars, k, acts[n], "all")[part]
  BY <1>3 DEF FactorList
<1>7. ASSUME NEW k, NEW part, \A n \in 1 .. M : ActionFactor(bars, k, acts[n], "all")[part] \in Int
      PROVE  FactorList(declared, k, part) \in Seq(Int) /\ Len(FactorList(declared, k, part)) = M
  <2> DEFINE f == FactorList(declared, k, part)
  <2>1. f \in [1 .. M -> Int]
    BY <1>3, <1>7 DEF FactorList
  <2> HIDE DEF f, acts, M
  <2>2. f \in Seq(Int) /\ Len(f) = M
    BY <1>3, <2>1, ListIsASeq
  <2> QED
    BY <2>2 DEF f
<1>8. Factor(bars, declared, Len(bars), "all") = << 1, 1 >>
  <2>1. ASSUME NEW part \in {1, 2} PROVE Product(FactorList(declared, N, part)) = 1
    <3>1. \A n \in 1 .. M : ActionFactor(bars, N, acts[n], "all") = << 1, 1 >>
      BY <1>1, <1>2, <1>3, ActionOnNewest
    <3>2. \A n \in 1 .. M : ActionFactor(bars, N, acts[n], "all")[part] = 1
      BY <3>1
    <3> DEFINE f == FactorList(declared, N, part)
    <3>3. f \in Seq(Int) /\ Len(f) = M
      BY <1>7, <3>2
    <3>4. \A n \in 1 .. M : f[n] = 1
      BY <1>6, <3>2
    <3> HIDE DEF f, M, N
    <3>5. Product(f) = 1
      BY <3>3, <3>4, ProductOfOnes
    <3> QED
      BY <3>5 DEF f
  <2> QED
    BY <1>5, <2>1
<1>9. ASSUME NEW i \in 1 .. N - 1
      PROVE  LET Today(type) == {n \in DOMAIN acts :
                                     /\ acts[n].type = type
                                     /\ Day(bars[i].end) < acts[n].date
                                     /\ acts[n].date <= Day(bars[i + 1].end)}
                 paid  == Summed([n \in DOMAIN acts |->
                                      IF n \in Today("dividend") THEN acts[n].amount ELSE 0])
                 ratio == Product([n \in DOMAIN acts |->
                                      IF n \in Today("split") THEN acts[n].ratio ELSE 1])
                 old == Factor(bars, declared, i, "all")
                 new == Factor(bars, declared, i + 1, "all")
             IN  (\A m, n \in Today("dividend") : m = n)
                    => old[1] * new[2] * ratio * bars[i].close
                         = new[1] * old[2] * (bars[i].close - paid)
  <2> DEFINE Today(type) == {n \in DOMAIN acts :
                                     /\ acts[n].type = type
                                     /\ Day(bars[i].end) < acts[n].date
                                     /\ acts[n].date <= Day(bars[i + 1].end)}
             d == [n \in DOMAIN acts |-> IF n \in Today("dividend") THEN acts[n].amount ELSE 0]
             r == [n \in DOMAIN acts |-> IF n \in Today("split") THEN acts[n].ratio ELSE 1]
             o1 == FactorList(declared, i, 1)
             o2 == FactorList(declared, i, 2)
             n1 == FactorList(declared, i + 1, 1)
             n2 == FactorList(declared, i + 1, 2)
  <2> SUFFICES ASSUME \A m, n \in Today("dividend") : m = n
               PROVE  ((Product(o1) * Product(n2)) * Product(r)) * bars[i].close
                          = (Product(n1) * Product(o2)) * (bars[i].close - Summed(d))
    <3>1. Factor(bars, declared, i, "all") = << Product(o1), Product(o2) >>
      BY <1>5
    <3>2. Factor(bars, declared, i + 1, "all") = << Product(n1), Product(n2) >>
      BY <1>5
    <3> HIDE DEF o1, o2, n1, n2, Today, d, r
    <3> QED
      BY <3>1, <3>2 DEF Today, d, r
  <2>1. PICK c \in Int : c = bars[i].close
    <3>1. i \in 1 .. N
      BY <1>4
    <3> QED
      BY <1>4, <3>1
  <2>2. \A n \in 1 .. M : acts[n].type \in {"split", "dividend"} /\ acts[n].ratio \in Int /\ acts[n].amount \in Int
    BY <1>3 DEF Action
  <2>3. \A type, n : n \in Today(type) <=> n \in 1 .. M /\ acts[n].type = type /\ Between(bars, i, acts[n])
    BY <1>3 DEF Between
  <2>4. d \in [1 .. M -> Int] /\ \A n \in 1 .. M : d[n] = IF n \in Today("dividend") THEN acts[n].amount ELSE 0
    <3> HIDE DEF Today, acts, M
    <3> QED
      BY <1>3, <2>2
  <2>5. r \in [1 .. M -> Int] /\ \A n \in 1 .. M : r[n] = IF n \in Today("split") THEN acts[n].ratio ELSE 1
    <3> HIDE DEF Today, acts, M
    <3> QED
      BY <1>3, <2>2
  <2> HIDE DEF d, r, Today
  <2>6. ASSUME NEW n \in 1 .. M
        PROVE  /\ o1[n] \in Int /\ o2[n] \in Int /\ n1[n] \in Int /\ n2[n] \in Int
               /\ \/ Alike(o1, o2, n1, n2, r, d, n)
                  \/ Splits(o1, o2, n1, n2, r, d, n)
                  \/ Divides(o1, o2, n1, n2, r, d, c, n)
    <3> DEFINE a == acts[n]
    <3>1. a \in Action
      BY <1>3
    <3> HIDE DEF a, N
    <3>2. PICK x, y, z, w \in Int :
              /\ ActionFactor(bars, i, a, "all") = << x, y >>
              /\ ActionFactor(bars, i + 1, a, "all") = << z, w >>
              /\ ~ Between(bars, i, a) => z = x /\ w = y
              /\ Between(bars, i, a) => z = 1 /\ w = 1
              /\ Between(bars, i, a) /\ a.type = "split" => x = 1 /\ y = a.ratio
              /\ Between(bars, i, a) /\ a.type = "dividend" =>
                    x = bars[i].close - a.amount /\ y = bars[i].close
      BY <1>1, <1>2, <3>1, ActionOnReturn DEF N
    <3>3. o1[n] = x /\ o2[n] = y /\ n1[n] = z /\ n2[n] = w
      BY <1>6, <3>2 DEF a
    <3> HIDE DEF o1, o2, n1, n2, acts, M
    <3>4. CASE ~ Between(bars, i, a)
      <4>1. n \notin Today("dividend") /\ n \notin Today("split")
        BY <2>3, <3>4 DEF a
      <4>2. Alike(o1, o2, n1, n2, r, d, n)
        BY <2>4, <2>5, <3>2, <3>3, <3>4, <4>1 DEF Alike
      <4> QED
        BY <3>3, <4>2
    <3>5. CASE Between(bars, i, a) /\ a.type = "split"
      <4>1. n \notin Today("dividend") /\ n \in Today("split")
        BY <2>3, <3>5 DEF a
      <4>2. Splits(o1, o2, n1, n2, r, d, n)
        BY <2>4, <2>5, <3>2, <3>3, <3>5, <4>1 DEF Splits, a
      <4> QED
        BY <3>3, <4>2
    <3>6. CASE Between(bars, i, a) /\ a.type = "dividend"
      <4>1. n \in Today("dividend") /\ n \notin Today("split")
        BY <2>3, <3>6 DEF a
      <4>2. Len(d) = M
        BY <1>3, <2>4, ListIsASeq
      <4>3. \A m \in 1 .. M : m # n => d[m] = 0
        BY <2>4, <4>1
      <4>4. d[n] = a.amount /\ r[n] = 1
        BY <2>4, <2>5, <4>1 DEF a
      <4>5. Divides(o1, o2, n1, n2, r, d, c, n)
        BY <2>1, <3>2, <3>3, <3>6, <4>2, <4>3, <4>4 DEF Divides
      <4> QED
        BY <3>3, <4>5
    <3> QED
      BY <2>2, <3>4, <3>5, <3>6 DEF a
  <2>7. d \in Seq(Int) /\ Len(d) = M /\ r \in Seq(Int) /\ Len(r) = M
    <3> HIDE DEF acts, M
    <3> QED
      BY <1>3, <2>4, <2>5, ListIsASeq
  <2> HIDE DEF acts, M, N
  <2>8. ASSUME NEW k, NEW part, \A n \in 1 .. M : FactorList(declared, k, part)[n] \in Int
        PROVE  FactorList(declared, k, part) \in Seq(Int) /\ Len(FactorList(declared, k, part)) = M
    BY <1>6, <1>7, <2>8
  <2>9. /\ o1 \in Seq(Int) /\ Len(o1) = M /\ o2 \in Seq(Int) /\ Len(o2) = M
        /\ n1 \in Seq(Int) /\ Len(n1) = M /\ n2 \in Seq(Int) /\ Len(n2) = M
    BY <2>6, <2>8
  <2> HIDE DEF o1, o2, n1, n2
  <2>10. Contributions(M, c, o1, o2, n1, n2, r, d)
    BY <1>3, <2>6, <2>7, <2>9 DEF Contributions
  <2>11. ((Product(o1) * Product(n2)) * Product(r)) * c = (Product(n1) * Product(o2)) * (c - Summed(d))
    BY <2>10, ReturnsAreKept
  <2> QED
    BY <2>1, <2>11
<1> HIDE DEF N
<1> QED
  BY <1>8, <1>9 DEF AdjustedReturnsAreOwned, N

-----------------------------------------------------------------------------
(* A bar comes in, or a tick passes: bars are bars and the time is a time.  *)

LEMMA QualityStarts == QualityInit => QualityInv
<1> SUFFICES ASSUME QualityInit PROVE QualityInv
  OBVIOUS
<1>1. bars = << >> /\ declared \in ActionLists /\ now = FirstDate * DayLength
  BY DEF QualityInit
<1>2. FirstDate \in Int /\ DayLength \in Int
  <2>1. 1 \in Calendar
    BY SessionIs DEF Calendar
  <2> QED
    BY <2>1, SessionIs, SessionsIncrease DEF FirstDate
<1>3. FirstDate * DayLength \in Int
  BY <1>2
<1>4. << >> \in Seq(Candle)
  OBVIOUS
<1> QED
  BY <1>1, <1>3, <1>4 DEF QualityInv

LEMMA QualityStepKeeps == QualityInv /\ [QualityNext]_qualityVars => QualityInv'
<1> SUFFICES ASSUME QualityInv, [QualityNext]_qualityVars PROVE QualityInv'
  OBVIOUS
<1>1. bars \in Seq(Candle) /\ now \in Int /\ declared \in ActionLists
  BY DEF QualityInv
<1>2. ASSUME NEW end \in Stamps, NEW close \in Closes, NEW sound \in BOOLEAN, Arrive(end, close, sound)
      PROVE  QualityInv'
  <2>1. PICK b : b = [end |-> end, close |-> close, sound |-> sound]
    OBVIOUS
  <2>2. end \in Int /\ close \in Int
    BY QualityNumbers
  <2>3. b \in Candle
    BY <2>1, <2>2 DEF Candle
  <2>4. bars' = Append(bars, b) /\ now' = now /\ declared' = declared
    BY <1>2, <2>1 DEF Arrive
  <2>5. Append(bars, b) \in Seq(Candle)
    BY <1>1, <2>3, AppendProperties
  <2> QED
    BY <1>1, <2>4, <2>5 DEF QualityInv
<1>3. CASE Elapse
  <2>1. now' = now + 1 /\ bars' = bars /\ declared' = declared
    BY <1>3 DEF Elapse
  <2>2. now + 1 \in Int
    BY <1>1
  <2> QED
    BY <1>1, <2>1, <2>2 DEF QualityInv
<1>4. CASE UNCHANGED qualityVars
  BY <1>1, <1>4 DEF QualityInv, qualityVars
<1> QED
  BY <1>2, <1>3, <1>4 DEF QualityNext

\* Whatever a vendor sends and in whatever order, for any calendar, bar length,
\* tolerances and actions: a daily series passes exactly when it is the closes
\* of consecutive sessions, what is tradable reaches now, what is fresh misses
\* little, intraday bars tile their sessions, and adjusted returns are those of
\* an owner (calendar.py, validation.py, freshness.py, corporate_actions.py).
THEOREM JudgedTruly == QualitySpec => []BarsAreJudged
<1>1. QualityInv => BarsAreJudged
  BY PassingIsConsecutive, TradableIsRecent, FreshIsComplete, IntradayIsTiled, AdjustedIsOwned
     DEF BarsAreJudged
<1>2. QualityInit => QualityInv
  BY QualityStarts
<1>3. QualityInv /\ [QualityNext]_qualityVars => QualityInv'
  BY QualityStepKeeps
<1> QED
  BY <1>1, <1>2, <1>3, PTL DEF QualitySpec
==============================================================================
