------------------------------- MODULE Ensemble -------------------------------
(***************************************************************************)
(* Weights of the strategies of the ensemble (quant/ensemble/engine.py):   *)
(* raw weights of the configured method, one weight for each cluster of    *)
(* correlated members, a cap on each family, and the combination of the    *)
(* members' signals.  Weights are whole numbers, One of them are 100%;     *)
(* what a division loses is at most Dust.                                  *)
(***************************************************************************)
EXTENDS Integers, Sequences, FiniteSets, SequencesExt, Sums

CONSTANTS
    Count,        \* members are 1..Count
    One, Dust,    \* the whole, and what roundings may lose of it
    Inputs        \* what a weighting starts from (below)

Ids == 1..Count

(* An input has the method, whether there are min_history shadow returns, the raw *)
(* weights the method gives then (risk_adjusted and walk_forward fit them to those *)
(* returns), the pairs correlated above max_pairwise_correlation as the loops meet  *)
(* them, the families by number, the cap, the members there is a signal of, and the *)
(* exposure each signal suggests.                                                  *)
VARIABLES
    input, shares,    \* shares: after clustering
    capped, exposure  \* after the family caps; combined

ensembleVars == << input, shares, capped, exposure >>

Methods == {"equal", "fixed", "risk_adjusted", "walk_forward"}
NotANumber  == -1            \* a weight that is not a number
Unsaid == [said |-> FALSE, finite |-> TRUE, value |-> 0]

SumOver(f, S) == Summed([m \in Ids |-> IF m \in S THEN f[m] ELSE 0])

\* A weight is worth dividing; each of Count + 1 rounds loses less than 1 for each.
ASSUME WeightsAreFine == Count \in Nat \ {0} /\ One \in Nat /\ One >= Count
                         /\ Dust \in Nat /\ Dust >= Count * Count + Count

ASSUME InputsAreConfigured ==
    \A i \in Inputs : /\ i.method \in Methods /\ i.enough \in BOOLEAN
                      /\ i.raw \in [Ids -> Nat] /\ SumOver(i.raw, Ids) > 0
                      /\ i.correlated \in Seq({p \in Ids \X Ids : p[1] < p[2]})
                      /\ i.family \in [Ids -> Ids] /\ i.cap \in 0..One

EnsembleInit == input \in Inputs /\ shares = << >> /\ capped = << >> /\ exposure = Unsaid

-----------------------------------------------------------------------------
(* weights() *)

\* Data-driven methods fall back to equal weights.
RawWeights(i) == IF i.method = "equal" \/ (i.method \in {"risk_adjusted", "walk_forward"} /\ ~i.enough)
          THEN [m \in Ids |-> 1] ELSE i.raw

\* Union-find: the root of every member, find(), after each pair.
Union(root, p) == [m \in Ids |-> IF root[m] = root[p[1]] THEN root[p[2]] ELSE root[m]]

Roots(pairs) ==
    LET root[n \in 0 .. Len(pairs)] == IF n = 0 THEN [m \in Ids |-> m]
                                       ELSE Union(root[n - 1], pairs[n])
    IN  root[Len(pairs)]

Clusters(pairs) == LET root == Roots(pairs) IN {{m \in Ids : root[m] = root[k]} : k \in Ids}

ClustersOf(i) == IF i.enough /\ Count > 1 THEN Clusters(i.correlated) ELSE {{m} : m \in Ids}

ClusterOf(i, m) == CHOOSE c \in ClustersOf(i) : m \in c

\* Members of a cluster share the mean of their raw weights in their proportion:
\* not a number if these are all zero, which the normalisation spreads to all.
Shared(i) ==
    LET raw  == RawWeights(i)
        part == [m \in Ids |-> (raw[m] * One) \div Cardinality(ClusterOf(i, m))]
    IN  IF \E c \in ClustersOf(i) : Cardinality(c) > 1 /\ SumOver(raw, c) = 0
        THEN [m \in Ids |-> NotANumber]
        ELSE [m \in Ids |-> (part[m] * One) \div SumOver(part, Ids)]

Cluster ==
    /\ shares = << >>
    /\ shares' = Shared(input)
    /\ UNCHANGED << input, capped, exposure >>

OfFamily(i, f) == {m \in Ids : i.family[m] = f}

\* Mutant: families are capped once.
FamilyCaps_once(i, w) ==
    LET total(m) == SumOver(w, OfFamily(i, i.family[m]))
        over     == {m \in Ids : total(m) > i.cap}
        cut      == [m \in Ids |-> IF m \in over THEN (w[m] * i.cap) \div total(m) ELSE w[m]]
        room     == SumOver(cut, Ids \ over)
    IN  [m \in Ids |-> IF m \in over \/ room = 0 THEN cut[m]
                       ELSE cut[m] + (cut[m] * (SumOver(w, Ids) - SumOver(cut, Ids))) \div room]

FamilyTotal(i, w, f) == SumOver(w, OfFamily(i, f))

\* One round: families over the cap are cut to it, and what they lose goes to the
\* families never cut so far, in proportion; if none has any weight, to cash.
CapRound(i, a) ==
    LET total  == [f \in Ids |-> FamilyTotal(i, a.w, f)]
        over   == {f \in Ids : total[f] > i.cap}
        excess == SumOver([f \in Ids |-> total[f] - i.cap], over)
        fixed  == a.fixed \cup over
        cut    == [m \in Ids |-> IF i.family[m] \in over
                                 THEN (a.w[m] * i.cap) \div total[i.family[m]] ELSE a.w[m]]
        free   == {m \in Ids : i.family[m] \notin fixed}
        room   == SumOver(cut, free)
    IN  IF over = {} \/ a.done THEN a
        ELSE [w |-> [m \in Ids |-> IF m \in free /\ room > 0
                                   THEN cut[m] + (cut[m] * excess) \div room ELSE cut[m]],
              fixed |-> fixed, done |-> room = 0]

\* A round more than there are families.
FamilyCaps(i, w) ==
    LET rounds == Cardinality({i.family[m] : m \in Ids}) + 1
        state[n \in 0 .. rounds] == IF n = 0 THEN [w |-> w, fixed |-> {}, done |-> FALSE]
                                    ELSE CapRound(i, state[n - 1])
    IN  state[rounds].w

Cap ==
    /\ shares # << >> /\ capped = << >>
    /\ capped' = IF NotANumber \in Range(shares) THEN shares ELSE FamilyCaps(input, shares)
    /\ UNCHANGED << input, shares, exposure >>

\* combine(): every member must have a signal; the policy refuses what is not finite.
Combine ==
    /\ capped # << >> /\ ~exposure.said
    /\ Ids \subseteq input.signalled
    /\ exposure' = [said |-> TRUE, finite |-> NotANumber \notin Range(capped),
                    value |-> SumOver([m \in Ids |-> capped[m] * input.suggested[m]], Ids)]
    /\ UNCHANGED << input, shares, capped >>

EnsembleNext == Cluster \/ Cap \/ Combine

EnsembleSpec == EnsembleInit /\ [][EnsembleNext]_ensembleVars

-----------------------------------------------------------------------------
(* Properties *)

\* No pair has one of its members in S only.
Closed(pairs, S) == \A k \in DOMAIN pairs : pairs[k][1] \in S <=> pairs[k][2] \in S

\* Members correlated through any chain of pairs are one cluster and no others
\* are; a cluster weighs no more than its heaviest member would alone.
ClonesShareOneWeight ==
    shares # << >> =>
        /\ \A a, b \in Ids :
              ClusterOf(input, a) = ClusterOf(input, b) <=>
                 \/ a = b
                 \/ /\ input.enough
                    /\ \A S \in SUBSET Ids : Closed(input.correlated, S) /\ a \in S => b \in S
        /\ NotANumber \notin Range(shares) =>
              \A c \in ClustersOf(input), m \in Ids :
                 {m} \in ClustersOf(input) /\ (\A k \in c : RawWeights(input)[k] <= RawWeights(input)[m])
                    => SumOver(shares, c) <= shares[m]

\* No family weighs more than the cap, and weight is left in cash only when
\* every family that has any is at the cap.
FamiliesAreCapped ==
    capped # << >> /\ NotANumber \notin Range(capped) =>
        /\ \A m \in Ids : SumOver(capped, OfFamily(input, input.family[m])) <= input.cap
        /\ \/ SumOver(capped, Ids) >= One - Dust
           \/ \A m \in Ids : shares[m] > 0 =>
                 SumOver(capped, OfFamily(input, input.family[m])) >= input.cap - Dust

\* What "weights: sum <= 1" says of the result (engine.py:49).
WeightsSumToOne == capped # << >> => NotANumber \notin Range(capped) /\ SumOver(capped, Ids) <= One

\* Neither copies of a strategy nor relatives of it gain weight by their number.
WeightsAreShared == ClonesShareOneWeight /\ FamiliesAreCapped
=============================================================================
