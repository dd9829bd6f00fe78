-------------------------------- MODULE MCLab --------------------------------
(***************************************************************************)
(* Values for checking the quantitative components, one run for all of     *)
(* them: `part' says which one moves, the others stay at one initial       *)
(* state, so that their states add up instead of multiplying.              *)
(***************************************************************************)
EXTENDS RiskEngine, Ensemble, DataStore, DataQuality, Backtest, Research, Signals, TLC

VARIABLE part

-----------------------------------------------------------------------------
(* Risk: weights in quarters of the equity, drawdowns in fifths. *)

MCInstruments == << "SQQQ", "TQQQ", "QQQ" >>
MCLeverage    == [QQQ |-> 1, TQQQ |-> 3, SQQQ |-> -3]
W(q, t, s)    == [QQQ |-> q, TQQQ |-> t, SQQQ |-> s]
MCExposures   == {-14, -7, -3, -1, 0, 1, 2, 4, 7, 9, 12, 14}
MCBooks       == {w \in {W(q, t, s) : q \in {0, 3}, t, s \in 0..4} : Gross(w) <= Unit + 1}
Band(at, max, block) == [threshold |-> at, max |-> max, block |-> block]
MCLimits ==
    LET usual == [net |-> 8, inverse |-> 4, leveraged |-> 2, cap |-> W(4, 2, 1), turnover |-> 4,
                  dailyLoss |-> 2, gross |-> 3, cash |-> 1, target |-> 8, minScale |-> 0,
                  maxScale |-> 4, regimes |-> [extreme |-> 3], hysteresis |-> 1,
                  mode |-> "qqq_then_tqqq", deadBand |-> 2,
                  bands |-> << Band(0, 8, FALSE), Band(2, 3, FALSE), Band(3, 0, TRUE) >>]
        wide  == [usual EXCEPT !.turnover = 2, !.cap = W(4, 4, 4), !.leveraged = 4, !.gross = 4,
                               !.cash = 0, !.maxScale = 6, !.hysteresis = 0, !.dailyLoss = 1,
                               !.mode = "tqqq_only", !.deadBand = 0]
    IN  {usual, wide, [usual EXCEPT !.mode = "qqq_only", !.turnover = 2, !.hysteresis = 0]}

\* "rules": any exposure for any book; "sessions": equity moves, two exposures.
RiskStep ==
    /\ RiskNext
    /\ part = "rules" => verdict.asked = FALSE /\ equity = Par
    /\ part = "sessions" /\ verdict'.asked => verdict'.exposure \in {12, -3}

-----------------------------------------------------------------------------
(* Ensemble: four members, weights in parts of 5040. *)

Weighting(method, enough, raw, pairs, family, cap, signalled) ==
    [method |-> method, enough |-> enough, raw |-> raw, correlated |-> pairs, family |-> family,
     cap |-> cap, suggested |-> [m \in 1..4 |-> m - 2], signalled |-> signalled]

Pairs == {p \in (1..4) \X (1..4) : p[1] < p[2]}
InOrder(pairs) == SetToSortSeq(pairs, LAMBDA p, q : p[1] < q[1] \/ (p[1] = q[1] /\ p[2] < q[2]))

\* Every set of correlated pairs; every assignment of families.
MCInputs ==
    {Weighting(method, enough, raw, InOrder(pairs), [m \in 1..4 |-> 1], One, 1..4) :
        method \in {"equal", "fixed"}, enough \in BOOLEAN, raw \in {<< 1, 0, 0, 1 >>, << 1, 2, 1, 2 >>},
        pairs \in SUBSET Pairs}
    \cup {Weighting("risk_adjusted", TRUE, raw, << << 1, 2 >> >>, family, cap,
                    IF cap = 2016 THEN 1..3 ELSE 1..4) :
            raw \in {<< 1, 0, 0, 1 >>, << 1, 1, 1, 1 >>, << 2, 0, 1, 2 >>, << 0, 2, 2, 1 >>},
            family \in [1..4 -> 1..3], cap \in {2016, 1260}}

-----------------------------------------------------------------------------
(* Data store: "desk" the import directory; "race" two writers; "one" a      *)
(* writer that crashes; "read" a reader beside a writer and a failing disk.  *)

MCAnswers == {<< 1, 0 >>, << 1, 1 >>, << 0, 2 >>, << 3, 1 >>}

\* Updates without actions that leave such a series.
Answered(some) == \A w \in Writers : \A k \in DOMAIN writer'[w].todo :
             LET job == writer'[w].todo[k]
             IN  job.key # "synthetic" /\ job.content.acts = 0 /\ job.content.bars \in some
NothingLost == damaged' = damaged /\ {k \in Series : ~ files[k] \subseteq files'[k]} = {}
Alone(w) == writer'[w] = Idle
\* Derived series that fail their own validation: one of them, beside old bars.
Failing == {job \in ToSet(writer'["w1"].todo) \cup ToSet(writer'["w2"].todo) :
               job.key \in {"split", "all"} /\ ~ job.ok}
Keys(w)  == {job.key : job \in ToSet(writer[w].todo)}

StoreStep ==
    /\ StoreNext
    /\ part = "desk" => desk' # desk
    /\ part \in {"race", "read"} => Failing = {}
    /\ part = "one" => \A job \in Failing : job.key = "all" /\ job.content.bars = << 1, 0 >>
    /\ part # "desk" => desk' = desk
    /\ part = "race" => reader' = reader /\ NothingLost /\ Answered({<< 1, 0 >>, << 1, 1 >>}) = TRUE
                        /\ (Alone("w2") => writer["w2"].todo = << >>)
    /\ part = "one"  => reader'.at = "idle" /\ NothingLost /\ Alone("w2")
                        /\ {job \in ToSet(writer'["w1"].todo) : job.content.bars = << 1, 1 >>} = {}
                        /\ Len(manifest'["synthetic"]) < 2
                        /\ ("synthetic" \in Keys("w1")' => Len(manifest["raw"]) = 1)
    /\ part = "read" => Alone("w2") /\ reader'.key = "raw" /\ Answered({<< 1, 0 >>, << 3, 1 >>}) = TRUE
                        /\ {k \in Series \ {"raw"} : ~ files[k] \subseteq files'[k]} = {}
                        /\ damaged' \subseteq {"raw"} \X files'["raw"] /\ Cardinality(damaged') < 2

-----------------------------------------------------------------------------
(* Data quality: three sessions on days 1, 3 and 4, one of them short. *)

MCSessions == << [date |-> 1, open |-> 6, close |-> 9], [date |-> 3, open |-> 16, close |-> 18],
                 [date |-> 4, open |-> 21, close |-> 24] >>
Split(date, ratio)     == [date |-> date, type |-> "split", ratio |-> ratio, amount |-> 0]
Dividend(date, amount) == [date |-> date, type |-> "dividend", ratio |-> 1, amount |-> amount]
MCActions == { << >>, << Split(3, 2), Split(3, 2), Dividend(4, 1) >>,
               << Dividend(4, 1), Split(4, 3) >> }

\* One bar with values that are not sound is enough, and needs no actions.
QualityStep ==
    /\ QualityNext
    /\ Len(SelectSeq(bars', LAMBDA b : ~ b.sound)) <= IF declared = << >> THEN 1 ELSE 0

-----------------------------------------------------------------------------
(* Backtest: two symbols, prices in cents, lots that do not divide evenly. *)

MCPrices  == [q |-> {40, 57}, t |-> {50}]
MCTargets == {[q |-> 0, t |-> 4], [q |-> 4, t |-> 0], [q |-> 2, t |-> 2]}
MCTimings == {"near_close", "next_open", "next_close", "closing_auction"}
MCCaps    == {-2, -1, 2}

\* An unknown volume is a cap of its own only where it is rejected.
BackStep ==
    /\ BackNext
    /\ {o \in ToSet(pending') : o.cap = IF rejects THEN -1 ELSE -2} = {}

-----------------------------------------------------------------------------
(* Research: "sample" windows and corrections; "solo" one run after another; *)
(* "pair" two that overlap.                                                  *)

Found(skill, sharpe, robust, sessions, synthetic) ==
    [skill |-> skill, sharpe |-> sharpe, robust |-> robust, sessions |-> sessions, synthetic |-> synthetic]
MCEvidences == {Found(2, 1, TRUE, 2, 0), Found(9, 1, TRUE, 2, 0), Found(9, 1, FALSE, 2, 0),
                Found(NaN, NaN, TRUE, 0, 0), Found(NaN, 1, TRUE, 2, 0), Found(9, 1, TRUE, 2, 1)}
MCGrids == {{"a"}, {"a", "b", "x"}, {"x"}}
Sample(rows, train, validate, test, step, anchored, p, q) ==
    [rows |-> rows, train |-> train, validate |-> validate, test |-> test, step |-> step,
     anchored |-> anchored, p |-> p, q |-> q]
Shortest == Sample(6, 4, 2, 1, 3, TRUE, << 1 >>, 20)
MCSamples ==
    {Shortest} \cup {Sample(rows, 4, 2, test, step, anchored, << 1, 1 >>, 20) :
        rows \in 6..16, test \in 1..3, step \in 3..4, anchored \in BOOLEAN}
    \cup {Sample(8, 4, 2, 2, 2, TRUE, p, q) : p \in [1..3 -> {3, 12, 20, 33, 50}], q \in {20, 30}}

\* Evidence under judgement, without its deflation.
Judged == {Found(x.skill, x.sharpe, x.robust, x.sessions, x.synthetic) :
             x \in {run'[r].evidence : r \in {s \in Runs : run'[s].at \in {"simulate", "govern", "write"}}}}

\* Without the gate on real data: told apart by synthetic evidence alone.
Lenient == {r \in Runs : Active(r)' /\ ~ run'[r].evidence.realOnly} # {}

ResearchStep ==
    /\ ResearchNext
    /\ part = "solo" => /\ ~ Active("r2")'
                        /\ torn' => Cardinality(registry') <= 2
                        /\ lifecycle' # lifecycle => ~ torn /\ run["r1"].at \in {"idle", "govern"}
                        /\ {x \in registry' : x.data = "d2" /\ x.version # "a"} = {}
                        /\ ledger # << >> => {x \in registry' \ registry : x.data = "d2"} = {}
                        /\ Len(ledger) = 1 => Judged \cap {Found(NaN, 1, TRUE, 2, 0), Found(9, 1, TRUE, 2, 1)} = {}
                        /\ Lenient => Judged = {Found(9, 1, TRUE, 2, 1)}
    /\ part = "pair" => /\ torn' = FALSE /\ lifecycle' = lifecycle
                        /\ {r \in Runs : Active(r)' /\ run'[r].grid = {"x"}} = {}
                        /\ {x \in registry' : x.data = "d2"} = {}
                        /\ Judged \subseteq {Found(2, 1, TRUE, 2, 0), Found(9, 1, FALSE, 2, 0)} /\ ~ Lenient

-----------------------------------------------------------------------------
(* Signals: six bars for the crossover, five when a second symbol is read. *)

Params(action, reduced, long, short, confirm) ==
    [fast |-> 2, slow |-> 3, look |-> 1, action |-> action, reduced |-> reduced, long |-> long,
     short |-> short, confirm |-> confirm]
MCSetups == {Params("cash", 1, 2, 0, FALSE), Params("cash", 1, 2, 0, TRUE),
             Params("qqq_reduced", 1, 2, 0, FALSE), Params("qqq_reduced", 2, 1, 0, FALSE),
             Params("sqqq", 1, 2, 1, FALSE), Params("sqqq", 1, 2, 0, FALSE)}

SignalStep ==
    /\ SignalNext
    /\ setup.action # "cash" => Len(history') <= 4
    /\ setup.confirm => Len(history') <= 5 /\ \A b \in ToSet(history') \cup ToSet(confirming') : b.close # 2

-----------------------------------------------------------------------------
LabVars == << riskVars, ensembleVars, storeVars, qualityVars, backVars, researchVars,
              signalVars, part >>

AnyLimits == CHOOSE l \in Limits : TRUE
AnyInput  == CHOOSE x \in Inputs : TRUE
AnyTape   == CHOOSE x \in Tapes : TRUE
AnySetup  == Params("cash", 1, 2, 0, FALSE)

\* A component that does not move starts in one state only.
LabInit ==
    /\ part \in {"rules", "sessions", "ensemble", "desk", "race", "one", "read", "quality",
                 "backtest", "sample", "solo", "pair", "signals"}
    /\ part \in {"rules", "sessions"} \/ lim = AnyLimits
    /\ part = "rules" \/ book = W(0, 1, 0)
    /\ part = "ensemble" \/ input = AnyInput
    /\ part = "quality"  \/ declared = << >>
    /\ part = "backtest" \/ (timing = "next_open" /\ delay = 0 /\ rejects = FALSE /\ tape = AnyTape)
    /\ part = "sample"   \/ sample = Shortest
    /\ part = "signals"  \/ setup = AnySetup
    /\ RiskInit /\ EnsembleInit /\ StoreInit /\ QualityInit /\ BackInit /\ ResearchInit /\ SignalInit
    /\ rejects => delay = 0
    /\ part = "sessions" => lim.mode = "qqq_then_tqqq"

LabNext ==
    /\ UNCHANGED part
    /\ \/ part \in {"rules", "sessions"} /\ RiskStep
          /\ UNCHANGED << ensembleVars, storeVars, qualityVars, backVars, researchVars, signalVars >>
       \/ part = "ensemble" /\ EnsembleNext
          /\ UNCHANGED << riskVars, storeVars, qualityVars, backVars, researchVars, signalVars >>
       \/ part \in {"desk", "race", "one", "read"} /\ StoreStep
          /\ UNCHANGED << riskVars, ensembleVars, qualityVars, backVars, researchVars, signalVars >>
       \/ part = "quality" /\ QualityStep
          /\ UNCHANGED << riskVars, ensembleVars, storeVars, backVars, researchVars, signalVars >>
       \/ part = "backtest" /\ BackStep
          /\ UNCHANGED << riskVars, ensembleVars, storeVars, qualityVars, researchVars, signalVars >>
       \/ part \in {"solo", "pair"} /\ ResearchStep
          /\ UNCHANGED << riskVars, ensembleVars, storeVars, qualityVars, backVars, signalVars >>
       \/ part = "signals" /\ SignalStep
          /\ UNCHANGED << riskVars, ensembleVars, storeVars, qualityVars, backVars, researchVars >>

LabSpec == LabInit /\ [][LabNext]_LabVars
=============================================================================
