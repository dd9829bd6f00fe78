------------------------------- MODULE Signals -------------------------------
(***************************************************************************)
(* Strategy signals (quant/strategies/base.py, runner.py, quant/data/      *)
(* view.py) of four strategies of the catalogue that remember or may       *)
(* refuse: the moving-average crossover, the trend with an optional second *)
(* symbol, the fresh trend transition and the contrarian Bollinger score.  *)
(* Bars arrive one by one; live signals are computed on what is visible,   *)
(* the backtest slices indicators that were computed once over everything. *)
(* An indicator is reduced to its sign, a score counts in halves.          *)
(***************************************************************************)
EXTENDS Integers, Sequences, FiniteSets, SequencesExt

CONSTANTS
    Levels,       \* closing prices
    Setups,       \* parameters that are asked for, valid or not
    MaxDays       \* bound: bars of the signal symbol

VARIABLES
    setup,        \* parameters in force
    history,      \* bars of the signal symbol
    confirming,   \* bars of the optional symbol, some days may be missing
    told          \* the last live batch: [asOf, signals]

signalVars == << setup, history, confirming, told >>

\* The ranges of the parameters' specifications.
ASSUME SetupsAreTyped ==
    /\ MaxDays \in Nat /\ 0 \notin Levels
    /\ \A p \in Setups : /\ p.fast \in Nat \ {0} /\ p.slow \in Nat \ {0} /\ p.look \in Nat \ {0}
                         /\ p.long \in Nat /\ p.short \in Nat /\ p.reduced \in Nat
                         /\ p.confirm \in BOOLEAN

Strategies == {"cross", "trend", "transition", "extension"}
SignOf(x)  == IF x > 0 THEN 1 ELSE IF x < 0 THEN -1 ELSE 0

-----------------------------------------------------------------------------
(* Parameters *)

ValidateParams(p) ==
    /\ p.slow > p.fast
    /\ p.action = "sqqq" <=> p.short > 0
    /\ p.action = "qqq_reduced" => p.reduced <= p.long

MaxLong(s)  == IF s = "cross" THEN setup.long ELSE 1
MaxShort(s) == IF s = "cross" THEN setup.short ELSE 0

BearishExposure ==
    CASE setup.action = "qqq_reduced" -> setup.reduced
      [] setup.action = "sqqq"        -> -setup.short
      [] OTHER                        -> 0

\* Rows before every indicator has a value, one more, and what evaluate() reads back.
Extra(s)  == CASE s = "cross" -> 1 [] s = "transition" -> setup.look [] OTHER -> 0
Warmup(s) == (IF s = "extension" THEN setup.fast ELSE setup.slow) + Extra(s)

-----------------------------------------------------------------------------
(* Indicators: causal, undefined while they warm up and for %B without width. *)

Undefined == 2

LastOf(bars, n, i) == [k \in 1..n |-> bars[i - n + k].close]
Total(bars, n, i)  == FoldLeft(LAMBDA x, y : x + y, 0, LastOf(bars, n, i))

\* Which of the means of n and m bars is higher.
Above(bars, n, m, i) == SignOf(Total(bars, n, i) * m - Total(bars, m, i) * n)
FlatAt(bars, i)      == \A k \in 0..(setup.fast - 1) : bars[i - k].close = bars[i].close

Indicator(s, bars, i) ==
    IF s = "extension"
    THEN IF i < setup.fast THEN Undefined
         ELSE IF FlatAt(bars, i) THEN Undefined ELSE Above(bars, 1, setup.fast, i)
    ELSE IF i < setup.slow THEN Undefined
         ELSE Above(bars, IF s = "cross" THEN setup.fast ELSE 1, setup.slow, i)

Frame(s, bars) == [i \in DOMAIN bars |-> Indicator(s, bars, i)]

Visible(pair, asOf) ==
    LET n == Cardinality({k \in DOMAIN pair[1] : pair[1][k].at <= asOf})
    IN  << SubSeq(pair[1], 1, n), SubSeq(pair[2], 1, n) >>

-----------------------------------------------------------------------------
(* Evaluation *)

Strict(x) == IF x = Undefined THEN 0 ELSE x

\* Mutant: on a day of equality the regime is forgotten.
CrossHistory_forgets(frame) ==
    [regime |-> [n \in 0..Len(frame) |-> IF n = 0 THEN 0 ELSE Strict(frame[n])],
     events |-> [n \in DOMAIN frame |->
                    IF n > 1 /\ Strict(frame[n]) # 0 /\ Strict(frame[n - 1]) = -Strict(frame[n])
                    THEN Strict(frame[n]) ELSE 0]]

\* The side last taken, and an event where it changes.
CrossHistory(frame) ==
    LET regime[n \in 0..Len(frame)] ==
            IF n = 0 THEN 0 ELSE IF Strict(frame[n]) # 0 THEN Strict(frame[n]) ELSE regime[n - 1]
    IN  [regime |-> regime,
         events |-> [n \in DOMAIN frame |->
                        IF Strict(frame[n]) # 0 /\ regime[n - 1] \notin {0, Strict(frame[n])}
                        THEN Strict(frame[n]) ELSE 0]]

Evaluation(score, exposure) ==
    [score |-> score, exposure |-> exposure, regime |-> 0, event |-> 0, last |-> 0, since |-> 0]
ExposureFor(s, score) == score * (IF score >= 0 THEN MaxLong(s) ELSE MaxShort(s))

CrossEvaluation(frame) ==
    LET h      == CrossHistory(frame)
        hits   == {i \in DOMAIN h.events : h.events[i] # 0}
        newest == IF hits = {} THEN 0 ELSE CHOOSE i \in hits : \A j \in hits : j <= i
        side   == h.regime[Len(frame)]
    IN  [ score    |-> 2 * side,
          exposure |-> 2 * (CASE side > 0 -> setup.long
                              [] side < 0 -> BearishExposure
                              [] OTHER    -> 0),
          regime   |-> side,
          event    |-> h.events[Len(frame)],
          last     |-> IF newest = 0 THEN 0 ELSE h.events[newest],
          since    |-> IF newest = 0 THEN -1 ELSE Len(frame) - newest ]

\* A second symbol that disagrees halves the score; one that is not there, or
\* not warmed up, is not used.
TrendScore(now, other) == IF other # Undefined /\ other # now THEN now ELSE 2 * now

\* A side of the average that was not held on every recent row; at least one half.
TransitionScore(frame) ==
    LET n == Len(frame)
    IN  IF frame[n] # 0 /\ \E i \in (n - setup.look)..(n - 1) : frame[i] = -frame[n]
        THEN frame[n] ELSE 0

Evaluate4(s, frame, other) ==
    LET now == frame[Len(frame)]
        score == CASE s = "trend"      -> TrendScore(now, other)
                   [] s = "transition" -> TransitionScore(frame)
                   [] s = "extension"  -> -2 * now
    IN  IF s = "cross" THEN CrossEvaluation(frame) ELSE Evaluation(score, ExposureFor(s, score))

Optional(s, pair) == IF Len(pair[1]) < Warmup(s) THEN Undefined ELSE Last(pair[2])

WithinLimits(s, e) ==
    /\ e.score \in -2..2
    /\ -2 * MaxShort(s) <= e.exposure /\ e.exposure <= 2 * MaxLong(s)

Refusal(why) == [state |-> why, data |-> 0, value |-> Evaluation(0, 0)]

Signal(s, pair, others) ==
    IF Len(pair[1]) < Warmup(s) THEN Refusal("not_ready")
    ELSE IF Last(pair[2]) = Undefined THEN Refusal("failed")
    ELSE LET e == Evaluate4(s, pair[2], Optional(s, others))
         IN  IF ~WithinLimits(s, e) THEN Refusal("failed")
             ELSE [state |-> "ok", data |-> Last(pair[1]).at, value |-> e]

-----------------------------------------------------------------------------
(* The two paths *)

\* Live: the bars are cut, then the indicators are computed.
GenerateSignal(s, asOf) ==
    LET bars   == Visible(<< history, history >>, asOf)[1]
        others == Visible(<< confirming, confirming >>, asOf)[1]
    IN  Signal(s, << bars, Frame(s, bars) >>, << others, Frame(s, others) >>)

\* Backtest: the indicators are computed once over everything, then cut.
Precompute(s) == << << history, Frame(s, history) >>, << confirming, Frame(s, confirming) >> >>
SignalAt(s, asOf) ==
    LET pre == Precompute(s) IN Signal(s, Visible(pre[1], asOf), Visible(pre[2], asOf))

NoBatch == [asOf |-> 0, signals |-> [s \in Strategies |-> Refusal("not_ready")]]

SignalInit ==
    /\ setup \in {p \in Setups : ValidateParams(p)}
    /\ history = << >> /\ confirming = << >> /\ told = NoBatch

NewBar(close, other) ==
    /\ Len(history) < MaxDays
    /\ history' = Append(history, [at |-> Len(history) + 1, close |-> close])
    /\ confirming' = IF setup.confirm /\ other \in Levels
                     THEN Append(confirming, [at |-> Len(history) + 1, close |-> other])
                     ELSE confirming
    /\ UNCHANGED << setup, told >>

RunStrategies ==
    /\ history # << >> /\ told.asOf < Len(history)
    /\ told' = [asOf |-> Len(history),
                signals |-> [s \in Strategies |-> GenerateSignal(s, Len(history))]]
    /\ UNCHANGED << setup, history, confirming >>

SignalNext ==
    \/ \E close \in Levels, other \in Levels \cup {0} : NewBar(close, other)
    \/ RunStrategies

SignalSpec == SignalInit /\ [][SignalNext]_signalVars

\* SignalGenerationCheck of the gate.
BatchOk == \A s \in Strategies : told.signals[s].state = "ok"

-----------------------------------------------------------------------------
(* Properties *)

\* Whatever bars come later, the backtest computes for that day what was told
\* live on it, refusals included.
SignalsStand ==
    told.asOf > 0 => \A s \in Strategies : SignalAt(s, told.asOf) = told.signals[s]

\* One cross for every change of side, however many days of equality lie between,
\* none for the first side taken; the age and the kind of the last one are true.
CrossesAreTransitions ==
    LET n       == told.asOf
        c       == told.signals["cross"].value
        Side(i) == Above(history, setup.fast, setup.slow, i)
        Turned(i) == Side(i) # 0 /\ \E j \in setup.slow..(i - 1) :
                        Side(j) = -Side(i) /\ \A k \in (j + 1)..(i - 1) : Side(k) = 0
    IN  told.signals["cross"].state = "ok" =>
            /\ c.event = IF Turned(n) THEN Side(n) ELSE 0
            /\ IF c.since < 0 THEN \A i \in setup.slow..n : ~Turned(i)
               ELSE /\ Turned(n - c.since) /\ c.last = Side(n - c.since)
                    /\ \A i \in (n - c.since + 1)..n : ~Turned(i)
            /\ \A i \in setup.slow..n :
                  (\A k \in (i + 1)..n : Side(k) = 0) /\ Side(i) # 0 => c.regime = Side(i)

\* A batch is refused for too short a history or a Bollinger band without width
\* and for nothing else: parameters that were accepted never break their own limits.
RefusalsAreOwed ==
    told.asOf > 0 =>
        (BatchOk <=> /\ \A s \in Strategies : told.asOf >= Warmup(s)
                     /\ ~FlatAt(history, told.asOf))

\* Live trading and a backtest speak of the same strategies: the same signals,
\* the same crosses, the same refusals.
StrategiesAgree == SignalsStand /\ CrossesAreTransitions /\ RefusalsAreOwed
=============================================================================
