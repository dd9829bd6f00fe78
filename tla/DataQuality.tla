---------------------------- MODULE DataQuality ----------------------------
(***************************************************************************)
(* What makes a series of bars fit to trade on: the exchange calendar, the *)
(* validator, the freshness check and the adjustment for splits and        *)
(* dividends, as a vendor's bars come in one by one, in any order, and the *)
(* clock goes on.  A bar is the end it is stamped with, its close, and     *)
(* whether its values are sound.                                           *)
(***************************************************************************)
EXTENDS Integers, SequencesExt, FiniteSetsExt, Sums

CONSTANTS
    Sessions,     \* the calendar: sequence of [date, open, close]
    DayLength,    \* ticks of a calendar day
    Stamps,       \* times a vendor stamps bars with
    Closes,       \* closing prices
    MaxBars,      \* bound: bars of the series
    Step,         \* length of an intraday bar
    Tolerance,    \* data.staleness.max_intraday_bar_age_seconds
    MaxAge,       \* data.staleness.max_daily_bar_age_sessions
    ActionLists   \* what a vendor may report: sequences of [date, type, ratio, amount]

VARIABLES bars, now, declared

qualityVars == << bars, now, declared >>

Day(t) == t \div DayLength

Session == [date : Int, open : Int, close : Int]
Action  == [date : Int, type : {"split", "dividend"}, ratio : Int, amount : Int]

\* TradingCalendar refuses to be built of less; a session is within its day.
ASSUME SessionsIncrease ==
    /\ Sessions \in Seq(Session) /\ Sessions # << >>
    /\ \A i, j \in DOMAIN Sessions : i < j => Sessions[i].date < Sessions[j].date
    /\ DayLength \in Nat \ {0}
    /\ \A i \in DOMAIN Sessions :
          LET s == Sessions[i]
          IN  s.open < s.close /\ Day(s.open) = s.date /\ Day(s.close) = s.date

ASSUME QualityNumbers ==
    /\ Stamps \subseteq Int /\ Closes \subseteq Int /\ ActionLists \subseteq Seq(Action)
    /\ Step \in Nat \ {0} /\ Tolerance \in Nat /\ MaxAge \in Nat

FirstDate == Sessions[1].date
LastDate  == Last(Sessions).date
Covered(t) == Day(t) \in FirstDate .. LastDate

-----------------------------------------------------------------------------
(* quant/data/calendar.py *)

\* One at most.
SessionOn(d) == {s \in ToSet(Sessions) : s.date = d}
SessionsInRange(a, b) == {s \in ToSet(Sessions) : a <= s.date /\ s.date <= b}
ClosedBy(t) == Cardinality({i \in DOMAIN Sessions : Sessions[i].close <= t})

\* Mutant: off by one session.
LastCompleted_before(t) == IF ClosedBy(t) <= 1 THEN << >> ELSE << Sessions[ClosedBy(t) - 1] >>

LastCompleted(t) == IF ClosedBy(t) = 0 THEN << >> ELSE << Sessions[ClosedBy(t)] >>
Current(t) == {s \in SessionOn(Day(t)) : s.open <= t /\ t < s.close}

SessionsBetween(after, until) == Max({0, ClosedBy(until) - ClosedBy(after)})

-----------------------------------------------------------------------------
(* quant/data/validation.py: the kinds of issue that are errors; a jump, an  *)
(* absent intraday bar and a vwap out of range are warnings.                 *)

\* clean: the first bar of each stamp, by time.
CleanBars(series) ==
    LET kept == {i \in DOMAIN series : \A j \in 1 .. i - 1 : series[j].end # series[i].end}
    IN  [k \in 1 .. Cardinality(kept) |->
            series[CHOOSE i \in kept :
                Cardinality({j \in kept : series[j].end < series[i].end}) = k - 1]]

OrderErrors(series) ==
    {"duplicate" : i \in {i \in DOMAIN series : \E j \in 1 .. i - 1 : series[j].end = series[i].end}}
    \cup {"out_of_order" : i \in {i \in 2 .. Len(series) : series[i].end < series[i - 1].end}}

ValueErrors(clean) == {"bad_value" : b \in {b \in ToSet(clean) : ~ b.sound}}

FutureErrors(clean, asOf) == {"future_timestamp" : b \in {b \in ToSet(clean) : b.end > asOf}}

DailyGridErrors(clean) ==
    LET dates   == {Day(b.end) : b \in ToSet(clean)}
        span    == SessionsInRange(Day(clean[1].end), Day(Last(clean).end))
    IN  {"non_session" : d \in {d \in dates : SessionOn(d) = {}}}
        \cup {"bad_timestamp" : b \in {b \in ToSet(clean) :
                  \E s \in SessionOn(Day(b.end)) : s.close # b.end}}
        \cup {"missing_bar" : s \in {s \in span : s.date \notin dates}}

\* The ends of a session's intraday bars; the last is the close.
IntradayGrid(s) ==
    {t \in s.open + 1 .. s.close : (t - s.open) % Step = 0} \cup {s.close}

IntradayErrors(clean) ==
    {"bad_timestamp" : b \in {b \in ToSet(clean) :
        ~ \E s \in SessionOn(Day(b.end)) : b.end \in IntradayGrid(s)}}

DailyErrors(series, asOf) ==
    LET clean == CleanBars(series)
    IN  IF series = << >> THEN {"empty"}
        ELSE OrderErrors(series) \cup ValueErrors(clean) \cup FutureErrors(clean, asOf)
             \cup DailyGridErrors(clean)

DailyOk(series, asOf) == DailyErrors(series, asOf) = {}

IntradayOk(series, asOf) ==
    LET clean == CleanBars(series)
    IN  series # << >> /\ OrderErrors(series) \cup ValueErrors(clean) \cup FutureErrors(clean, asOf)
                          \cup IntradayErrors(clean) = {}

-----------------------------------------------------------------------------
(* quant/data/freshness.py *)

Newest(series) == Max({b.end : b \in ToSet(series)})

DailyFresh(series, asOf, limit) ==
    /\ series # << >> /\ Newest(series) <= asOf
    /\ LastCompleted(asOf) # << >> => SessionsBetween(Newest(series), asOf) <= limit

JustOpened(asOf) == \E s \in Current(asOf) : asOf - s.open < Tolerance

IntradayFresh(series, asOf) ==
    /\ series # << >> /\ Newest(series) <= asOf
    /\ IF Current(asOf) # {}
       THEN JustOpened(asOf) \/ asOf - Newest(series) <= Tolerance
       ELSE LastCompleted(asOf) # << >> =>
                LastCompleted(asOf)[1].close - Newest(series) <= Tolerance

-----------------------------------------------------------------------------
(* quant/data/corporate_actions.py; a factor is a fraction <<num, den>>. *)

Dedupe(list) == SetToSeq(ToSet(list))

\* One action's factor for bar i of the raw series; a dividend is measured
\* against the raw close before its ex-date.
ActionFactor(clean, i, a, mode) ==
    LET before == {j \in DOMAIN clean : Day(clean[j].end) < a.date}
    IN  IF i \notin before \/ before = DOMAIN clean THEN << 1, 1 >>
        ELSE IF a.type = "split" THEN << 1, a.ratio >>
        ELSE IF mode = "all" THEN << clean[Max(before)].close - a.amount, clean[Max(before)].close >>
        ELSE << 1, 1 >>

Factor(clean, list, i, mode) ==
    LET acts    == Dedupe(list)
        part(k) == Product([n \in DOMAIN acts |-> ActionFactor(clean, i, acts[n], mode)[k]])
    IN  << part(1), part(2) >>

\* A dividend as large as the close before it raises.
Adjustable(clean, list) ==
    {a \in ToSet(list) : a.type = "dividend" /\
        \E i \in DOMAIN clean : ActionFactor(clean, i, a, "all")[1] <= 0} = {}

-----------------------------------------------------------------------------
QualityInit == bars = << >> /\ now = FirstDate * DayLength /\ declared \in ActionLists

Arrive(end, close, sound) ==
    /\ Len(bars) < MaxBars
    /\ bars' = Append(bars, [end |-> end, close |-> close, sound |-> sound])
    /\ UNCHANGED << now, declared >>

Elapse ==
    /\ Covered(now + 1) /\ now' = now + 1
    /\ UNCHANGED << bars, declared >>

QualityNext ==
    \/ \E end \in Stamps, close \in Closes, sound \in BOOLEAN : Arrive(end, close, sound)
    \/ Elapse

QualitySpec == QualityInit /\ [][QualityNext]_qualityVars

-----------------------------------------------------------------------------
(* A daily series passes exactly when it is the closes of consecutive        *)
(* sessions in order, each bar sound and none from after the evaluation:     *)
(* no defect is hidden by another (validation.py:153-193).                   *)
ValidIsConsecutive ==
    DailyOk(bars, now) <=>
        \E i, j \in DOMAIN Sessions :
            /\ i <= j /\ Len(bars) = j - i + 1
            /\ \A k \in DOMAIN bars : bars[k].end = Sessions[i + k - 1].close /\ bars[k].sound
            /\ Sessions[j].close <= now

(* What trading may use, valid and at most MaxAge sessions old, lacks none   *)
(* of the completed sessions but the newest MaxAge, and has nothing from     *)
(* the future (data_checks.py, validation.py, freshness.py together).        *)
TradableReachesNow ==
    DailyOk(bars, now) /\ DailyFresh(bars, now, MaxAge) =>
        LET have == {b.end : b \in ToSet(bars)}
            due  == {i \in DOMAIN Sessions : bars[1].end <= Sessions[i].close /\ Sessions[i].close <= now}
        IN  /\ Cardinality({i \in due : Sessions[i].close \notin have}) <= MaxAge
            /\ have \subseteq {Sessions[i].close : i \in due}

(* Intraday bars that count as fresh have missed no more open-market time    *)
(* than the tolerance, over nights and days off as well, except in the first *)
(* moments of a session, when any bar will do (freshness.py:10-13, 84-97).   *)
FreshMissesLittle ==
    IntradayFresh(bars, now) =>
        \/ JustOpened(now)
        \/ Cardinality({t \in Newest(bars) + 1 .. now :
               \E s \in ToSet(Sessions) : s.open < t /\ t <= s.close}) <= Tolerance

(* The intraday validator accepts exactly what tiles sessions: bars in order, *)
(* sound and past, each the n-th of its session, which ends n steps after the *)
(* open or, short, with the session: an early close, or a session that is no  *)
(* multiple of the step, has its last bar too (validation.py:303-338).        *)
IntradayBarsTile ==
    IntradayOk(bars, now) <=>
        /\ bars # << >> /\ \A i \in 2 .. Len(bars) : bars[i - 1].end < bars[i].end
        /\ \A b \in ToSet(bars) :
              /\ b.sound /\ b.end <= now
              /\ \E s \in ToSet(Sessions), n \in 1 .. DayLength :
                    s.open + (n - 1) * Step < s.close /\ b.end = Min({s.open + n * Step, s.close})

(* Adjusting keeps the newest bar and makes every day's return the one an    *)
(* owner had: the splits multiply it and the dividend is taken off the close *)
(* before, once each, however often the vendor lists them; other days'       *)
(* returns are untouched (corporate_actions.py:74-112).  Two dividends       *)
(* between the same two bars compound, which is said of them in lines 14-16. *)
AdjustedReturnsAreOwned ==
    DailyOk(bars, now) /\ Adjustable(bars, declared) =>
        /\ Factor(bars, declared, Len(bars), "all") = << 1, 1 >>
        /\ \A i \in 1 .. Len(bars) - 1 :
              LET acts  == Dedupe(declared)
                  Today(type) == {n \in DOMAIN acts :
                                     /\ acts[n].type = type
                                     /\ Day(bars[i].end) < acts[n].date
                                     /\ acts[n].date <= Day(bars[i + 1].end)}
                  paid  == Summed([n \in DOMAIN acts |->
                                      IF n \in Today("dividend") THEN acts[n].amount ELSE 0])
                  ratio == Product([n \in DOMAIN acts |->
                                      IF n \in Today("split") THEN acts[n].ratio ELSE 1])
                  old == Factor(bars, declared, i, "all")
                  new == Factor(bars, declared, i + 1, "all")
              IN  (\A m, n \in Today("dividend") : m = n)
                    => old[1] * new[2] * ratio * bars[i].close
                         = new[1] * old[2] * (bars[i].close - paid)

\* Bars that pass for complete, fresh and adjusted are: at each end of sessions,
\* holidays, bar grids and actions.
BarsAreJudged ==
    /\ ValidIsConsecutive /\ TradableReachesNow /\ FreshMissesLittle
    /\ IntradayBarsTile /\ AdjustedReturnsAreOwned
=============================================================================
