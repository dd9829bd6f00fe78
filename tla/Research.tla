------------------------------ MODULE Research ------------------------------
(***************************************************************************)
(* Research runs of one strategy: grid trials, the append-only registry    *)
(* that counts them, gates on the evidence, and the governance ledger from *)
(* which a version is automatically VALIDATED or taken back.  Runs are     *)
(* worker jobs and command lines in processes of their own; both files are *)
(* JSONL, appended without a lock.  The walk-forward windows and the       *)
(* false-discovery correction are checked on samples beside them.          *)
(***************************************************************************)
EXTENDS Integers, SequencesExt, FiniteSetsExt

CONSTANTS
    Runs,         \* processes that may run research
    Grids,        \* parameter grids: sets of versions (parameter points)
    Invalid,      \* versions whose parameters cannot be built or run
    DataSets,     \* data fingerprints
    Evidences,    \* what an analysis may find: [skill, sharpe, robust, sessions, synthetic]
    MaxEntries,   \* bound: entries of the ledger
    Samples       \* [rows, train, validate, test, step, anchored, p, q]

VARIABLES
    registry,     \* records [version, data, ok, purpose]
    torn,         \* the last line of the registry is half a record
    run,          \* run -> its progress
    ledger,       \* entries [version, passed, to, evidence, due, alone]
    lifecycle,    \* what strategies.yaml says of the strategy
    masked,       \* versions with a verdict while lifecycle was neither of the two
    sample        \* one of Samples

researchVars == << registry, torn, run, ledger, lifecycle, masked, sample >>

NaN == -1

\* skill: how many trials the Sharpe ratio found survives, NaN for returns the
\* ratio is undefined of; out of sample it also is without a session.  Sessions,
\* synthetic ones among them, are those out of sample: no gate counts others,
\* although skill and robust rest on all of them.
ASSUME EvidencesArePossible == \A e \in Evidences :
    /\ e \in [skill : Int, sharpe : Int, robust : BOOLEAN, sessions : Nat, synthetic : Nat]
    /\ e.sessions = 0 => e.sharpe = NaN
    /\ e.synthetic <= e.sessions

ASSUME GridsAreFinite == \A g \in Grids : IsFiniteSet(g)

Scale == 60             \* p-values and the false discovery rate are in parts of it

ASSUME SamplesAreConfigured == \A s \in Samples :
    /\ s \in [rows : Nat, train : Nat \ {0}, validate : Nat \ {0}, test : Nat \ {0},
              step : Nat \ {0}, anchored : BOOLEAN, p : Seq(0 .. Scale), q : 0 .. Scale]
    /\ s.step >= s.test
    /\ Len(s.p) <= 3

Lifecycles == {"RESEARCH", "VALIDATED", "PAPER"}   \* PAPER for all the others
Rest == [at |-> "idle"]
Active(r) == run[r].at # "idle"

\* An analysis, how its Sharpe ratio looks after deflation (dsr), and whether the
\* configuration asks for real data.
Evidence(e, dsr, real) ==
    [skill |-> e.skill, sharpe |-> e.sharpe, robust |-> e.robust, sessions |-> e.sessions,
     synthetic |-> e.synthetic, dsr |-> dsr, realOnly |-> real]
NoEvidence == [skill |-> NaN, sharpe |-> NaN, robust |-> FALSE, sessions |-> 0,
               synthetic |-> 0, dsr |-> NaN, realOnly |-> TRUE]

ResearchInit ==
    /\ registry = {} /\ torn = FALSE /\ ledger = << >>
    /\ run = [r \in Runs |-> Rest]
    /\ lifecycle = "RESEARCH" /\ masked = {}
    /\ sample \in Samples

-----------------------------------------------------------------------------
(* trials.py *)

Outcomes(grid, data, purpose) ==
    {[version |-> v, data |-> data, ok |-> v \notin Invalid, purpose |-> purpose] : v \in grid}

DistinctTrials(records, data) ==
    Cardinality({x.version : x \in {y \in records : y.ok /\ y.data = data /\ y.purpose = "grid"}})

\* The run reads the configuration and backtests its grid.
Start(r, grid, data) ==
    /\ ~ Active(r) /\ Len(ledger) < MaxEntries
    /\ run' = [s \in Runs |->
           IF s = r THEN [at |-> "trials", grid |-> grid, data |-> data, configured |-> lifecycle,
                          alone |-> {t \in Runs \ {r} : Active(t)} = {}, known |-> {},
                          counted |-> 0, due |-> 0, version |-> "none",
                          evidence |-> NoEvidence, current |-> lifecycle]
           ELSE IF Active(s) THEN [run[s] EXCEPT !.alone = FALSE] ELSE run[s]]
    /\ UNCHANGED << registry, torn, ledger, lifecycle, masked, sample >>

\* record() reads the registry, once; half a record stops every run.
LoadRegistry(r) ==
    /\ run[r].at = "trials"
    /\ run' = [run EXCEPT ![r] = IF torn THEN Rest
                                 ELSE [@ EXCEPT !.at = "append", !.known = registry]]
    /\ UNCHANGED << registry, torn, ledger, lifecycle, masked, sample >>

\* Mutant: only the run's own trials count.
Counted_ownRun(r) == Cardinality(run[r].grid \ Invalid)

\* The trials the evidence is deflated by: all the registry knew on this data
\* and this run's own.
Counted(r) ==
    Max({DistinctTrials(run[r].known \cup Outcomes(run[r].grid, run[r].data, "grid"), run[r].data),
         Cardinality(run[r].grid \ Invalid)})

\* Lines are appended; behind half a record the first of them is lost, whichever
\* it is.
Appended(new) ==
    {registry \cup (new \ lost) : lost \in IF torn THEN {{x} : x \in new} ELSE {{}}}

\* The run counts its own trials, written or lost.
AppendTrials(r) ==
    LET new == Outcomes(run[r].grid, run[r].data, "grid")
    IN  /\ run[r].at = "append"
        /\ registry' \in Appended(new)
        /\ run' = [run EXCEPT ![r] =
               IF run[r].grid \subseteq Invalid THEN Rest
               ELSE [@ EXCEPT !.at = "judge", !.counted = Counted(r),
                              !.due = DistinctTrials(registry \cup new, run[r].data)]]
        /\ UNCHANGED << torn, ledger, lifecycle, masked, sample >>

\* Killed while appending: some of the lines and half of one.
TearRegistry(r, written) ==
    /\ run[r].at = "append" /\ written \subseteq Outcomes(run[r].grid, run[r].data, "grid")
    /\ registry' = registry \cup written /\ torn' = TRUE
    /\ run' = [run EXCEPT ![r] = Rest]
    /\ UNCHANGED << ledger, lifecycle, masked, sample >>

\* "Restore it, do not edit it": a copy without the half record.
Restore ==
    /\ torn /\ torn' = FALSE
    /\ UNCHANGED << registry, run, ledger, lifecycle, masked, sample >>

-----------------------------------------------------------------------------
(* pipeline.py and scorecard.py: the evidence for the version the grid's     *)
(* plateau selects.  Sharpe ratios and probabilities are undefined (NaN)     *)
(* when there is no out-of-sample session.                                   *)

\* Deflation by more trials leaves less of the same ratio.
Deflated(skill, n) == IF skill = NaN THEN NaN ELSE skill - n

AtLeast(v, t) == v # NaN /\ v >= t

Gates(e) ==
    << AtLeast(e.dsr, 1),           \* deflated_sharpe
       AtLeast(e.sharpe, 1),        \* oos_sharpe, fdr, vs_benchmark
       e.robust,                    \* pbo, robustness
       e.sessions >= 1,             \* oos_length
       e.realOnly => e.synthetic = 0 >>   \* real_data, if real_data_only
Passed(e) == \A k \in DOMAIN Gates(e) : Gates(e)[k]

Judge(r, version, e, realOnly) ==
    /\ run[r].at = "judge" /\ version \in run[r].grid \ Invalid
    /\ run' = [run EXCEPT ![r] = [@ EXCEPT !.at = "simulate", !.version = version,
           !.evidence = Evidence(e, Deflated(e.skill, run[r].counted), realOnly)]]
    /\ UNCHANGED << registry, torn, ledger, lifecycle, masked, sample >>

\* Monte Carlo backtests go to the registry for another purpose.
Simulate(r) ==
    /\ run[r].at = "simulate"
    /\ registry' \in Appended(Outcomes({run[r].version}, run[r].data, "monte_carlo"))
    /\ run' = [run EXCEPT ![r].at = "govern"]
    /\ UNCHANGED << torn, ledger, lifecycle, masked, sample >>

-----------------------------------------------------------------------------
(* governance/research.py *)

\* validated_versions: the version of the strategy's last transition, if that
\* was to VALIDATED.
ValidatedVersions(entries) ==
    LET moves == {k \in DOMAIN entries : entries[k].to # "none"}
        last  == entries[Max(moves)]
    IN  IF moves # {} /\ last.to = "VALIDATED" THEN {last.version} ELSE {}

ReadLedger(r) ==
    /\ run[r].at = "govern"
    /\ run' = [run EXCEPT ![r] =
           [@ EXCEPT !.at = "write",
                     !.current = IF run[r].configured = "RESEARCH"
                                    /\ run[r].version \in ValidatedVersions(ledger)
                                 THEN "VALIDATED" ELSE run[r].configured]]
    /\ UNCHANGED << registry, torn, ledger, lifecycle, masked, sample >>

ProposedTransition(current, passed) ==
    IF current = "RESEARCH" /\ passed THEN "VALIDATED"
    ELSE IF current = "VALIDATED" /\ ~ passed THEN "RESEARCH"
    ELSE "none"

AppendLedger(r) ==
    LET passed == Passed(run[r].evidence)
    IN  /\ run[r].at = "write"
        /\ ledger' = Append(ledger,
               [version |-> run[r].version, passed |-> passed, evidence |-> run[r].evidence,
                to |-> ProposedTransition(run[r].current, passed), due |-> run[r].due, alone |-> run[r].alone])
        /\ masked' = IF run[r].current \in {"RESEARCH", "VALIDATED"} THEN masked
                     ELSE masked \cup {run[r].version}
        /\ run' = [run EXCEPT ![r] = Rest]
        /\ UNCHANGED << registry, torn, lifecycle, sample >>

\* A person edits strategies.yaml.
Declare(l) ==
    /\ l # lifecycle /\ lifecycle' = l
    /\ UNCHANGED << registry, torn, run, ledger, masked, sample >>

Killed(r) ==
    /\ Active(r) /\ run' = [run EXCEPT ![r] = Rest]
    /\ UNCHANGED << registry, torn, ledger, lifecycle, masked, sample >>

ResearchNext ==
    \/ \E r \in Runs, g \in Grids, d \in DataSets : Start(r, g, d)
    \/ \E r \in Runs : LoadRegistry(r) \/ AppendTrials(r) \/ Simulate(r) \/ ReadLedger(r)
                       \/ AppendLedger(r) \/ Killed(r)
    \/ \E r \in Runs : Active(r) /\ \E w \in SUBSET Outcomes(run[r].grid, run[r].data, "grid") :
           TearRegistry(r, w)
    \/ \E r \in Runs : Active(r) /\ \E v \in run[r].grid, e \in Evidences, b \in BOOLEAN :
           Judge(r, v, e, b)
    \/ \E l \in Lifecycles : Declare(l)
    \/ Restore

ResearchSpec == ResearchInit /\ [][ResearchNext]_researchVars

-----------------------------------------------------------------------------
(* walkforward.py: the windows of a sample, one fold after another. *)

MinPartialTest == 2     \* MIN_PARTIAL_TEST against the samples' years

\* Mutant: the test begins with the last validation row.
FoldAt_overlaps(s, start) ==
    [train    |-> << IF s.anchored THEN 0 ELSE start - s.validate - s.train, start - s.validate >>,
     validate |-> << start - s.validate, start >>,
     test     |-> << start - 1, Min({start + s.test, s.rows}) >>]

FoldAt(s, start) ==
    [train    |-> << IF s.anchored THEN 0 ELSE start - s.validate - s.train, start - s.validate >>,
     validate |-> << start - s.validate, start >>,
     test     |-> << start, Min({start + s.test, s.rows}) >>]

Windows(s) ==
    LET from(k) == s.train + s.validate + k * s.step
        whole(k) == from(k) < s.rows
                    /\ Min({from(k) + s.test, s.rows}) - from(k) >= Min({s.test, MinPartialTest})
        count == Cardinality({k \in 0 .. s.rows : \A j \in 0 .. k : whole(j)})
    IN  [k \in 1 .. count |-> FoldAt(s, from(k - 1))]

Rows(w) == w[1] .. w[2] - 1

\* stats.py: adjusted p-values are in parts of 6 * Scale, which up to three ranks
\* divide; the smallest from a rank on.
Rank(p, i) == Cardinality({j \in DOMAIN p : p[j] < p[i] \/ (p[j] = p[i] /\ j <= i)})

BenjaminiHochberg(p) ==
    [i \in DOMAIN p |->
        Min({6 * Scale} \cup {(6 * p[j] * Len(p)) \div Rank(p, j) :
                                 j \in {k \in DOMAIN p : Rank(p, k) >= Rank(p, i)}})]

-----------------------------------------------------------------------------
(* What the ledger calls VALIDATED passed every gate the last time it was    *)
(* judged, for any order of runs, versions and kills; exceptions are runs    *)
(* that overlapped and versions judged while strategies.yaml had them        *)
(* elsewhere, of which no transition is written (pipeline.py:277-289).       *)
ValidatedMeansPassed ==
    \A v \in ValidatedVersions(ledger) :
        \/ v \in masked
        \/ \E x \in ToSet(ledger) : x.version = v /\ ~ x.alone
        \/ ledger[Max({k \in DOMAIN ledger : ledger[k].version = v})].passed

(* Every version the software validated beat the luck of all the distinct    *)
(* trials ever recorded on its data, not only its own run's, unless another  *)
(* run was recording (pipeline.py:183, trials.py:277-291).                   *)
DeflationCountsAll ==
    \A k \in DOMAIN ledger :
        ledger[k].to = "VALIDATED" => ledger[k].evidence.skill > ledger[k].due \/ ~ ledger[k].alone

(* Nothing undefined validates, nothing without an out-of-sample session, and *)
(* none of these is synthetic where the configuration asks for real data     *)
(* (scorecard.py:79-141).  That is all the gates ask: synthetic sessions     *)
(* before the out-of-sample ones, on which the deflated ratio, the overfit   *)
(* probability and the robustness rest as well, stop no validation.          *)
ValidationIsEvidence ==
    \A k \in DOMAIN ledger : ledger[k].to = "VALIDATED" =>
        /\ {ledger[k].evidence[f] : f \in {"skill", "sharpe", "dsr"}} \cap {NaN} = {}
        /\ ledger[k].evidence.sessions > 0
        /\ ledger[k].evidence.realOnly => ledger[k].evidence.synthetic = 0

(* Walk-forward is out of sample: a fold's parameters are chosen on rows     *)
(* before its test, which no other fold tests and no earlier fold trained or *)
(* validated on, and a partial last test is not too short to count.          *)
OosIsUnseen ==
    LET w == Windows(sample)
    IN  \A k \in DOMAIN w :
          /\ Rows(w[k].train) # {} /\ Rows(w[k].validate) # {}
          /\ Rows(w[k].test) \subseteq 0 .. sample.rows - 1
          /\ Cardinality(Rows(w[k].test)) >= Min({sample.test, MinPartialTest})
          /\ \A m \in 1 .. k :
                Rows(w[k].test) \cap (Rows(w[m].train) \cup Rows(w[m].validate)) = {}
          /\ \A m \in DOMAIN w \ {k} : Rows(w[k].test) \cap Rows(w[m].test) = {}

(* "BH-adjusted p <= q" rejects what the step-up procedure rejects: the      *)
(* p-values up to the largest p(k) that is at most k q / m (stats.py:124).   *)
FdrIsStepUp ==
    LET p == sample.p
        good == {k \in DOMAIN p : p[k] * Len(p) <= Rank(p, k) * sample.q}
    IN  \A i \in DOMAIN p :
          BenjaminiHochberg(p)[i] <= 6 * sample.q <=> \E k \in good : Rank(p, i) <= Rank(p, k)

\* What research calls validated has passed, on evidence that counts every trial.
EvidenceCounts == DeflationCountsAll /\ ValidationIsEvidence /\ ValidatedMeansPassed

\* Windows and corrections are what the statistics over them assume.
SamplesAreSound == OosIsUnseen /\ FdrIsStepUp
=============================================================================
