------------------------------ MODULE RiskEngine ------------------------------
(***************************************************************************)
(* The risk engine (quant/risk/engine.py) behind the allocation policy     *)
(* (quant/portfolio/policy.py), session after session: a proposed exposure *)
(* becomes weights, the weights pass the rules in their order, the         *)
(* approved weights and the drawdown band carry over.  Weights are whole   *)
(* numbers, Unit of them are the equity; a division rounds to the smaller  *)
(* weight, as the engine's last step does, and a cut to the larger; Eps is *)
(* what the closing verification grants for that.                          *)
(***************************************************************************)
EXTENDS Integers, Sequences, FiniteSets, SequencesExt, Sums

CONSTANTS
    Instruments,  \* tradeable symbols, the most leveraged first
    Leverage,     \* of each
    Unit,         \* weight 1
    Eps,          \* tolerance of the verification
    Par,          \* peak equity; drawdowns and losses are in parts of it
    Limits,       \* configurations of the engine
    Exposures,    \* what the ensemble may ask for, in Units
    Books,        \* weights that are held at the start, drift included
    Vols,         \* EWMA volatilities of the underlying
    Regimes       \* volatility regimes

Symbols3 == ToSet(Instruments)
Weights  == [Symbols3 -> Nat]

AbsOf(x)      == IF x < 0 THEN -x ELSE x
LessOf(x, y)  == IF x < y THEN x ELSE y
MoreOf(x, y)  == IF x > y THEN x ELSE y
CeilDiv(x, y) == (x + y - 1) \div y

\* The policy's three are among them (policy.py:22, universe of base.yaml).
ASSUME InstrumentsLoad ==
    /\ Instruments \in Seq(STRING) /\ Leverage \in [Symbols3 -> Int \ {0}]
    /\ \A i, j \in DOMAIN Instruments :
          i < j => /\ Instruments[i] # Instruments[j]
                   /\ AbsOf(Leverage[Instruments[i]]) >= AbsOf(Leverage[Instruments[j]])
    /\ {"QQQ", "TQQQ", "SQQQ"} \subseteq Symbols3
    /\ Leverage["QQQ"] = 1 /\ Leverage["TQQQ"] = 3 /\ Leverage["SQQQ"] = -3

VARIABLES
    lim,          \* the limits
    book,         \* weights held
    equity,       \* now ...
    previous,     \* ... and at the last close
    band,         \* name of the last stored band (its index), 0 before there is one
    verdict       \* the last decision with what it was asked

riskVars == << lim, book, equity, previous, band, verdict >>

SumAll(f) == Summed([n \in DOMAIN Instruments |-> f[Instruments[n]]])

Exposure(w, carries) == SumAll([s \in Symbols3 |-> w[s] * carries[s]])

Net(w)   == Exposure(w, Leverage)
Gross(w) == SumAll(w)
Leveraged == {s \in Symbols3 : AbsOf(Leverage[s]) > 1}
LeveragedWeight(w) == SumAll([s \in Symbols3 |-> IF s \in Leveraged THEN w[s] ELSE 0])

\* Which regimes have a cap of their own.
RegimeCap(l, g, cap) == IF g \in DOMAIN l.regimes THEN LessOf(l.regimes[g], cap) ELSE cap

-----------------------------------------------------------------------------
(* The schema of the limits: RiskConfig and its parts. *)

LongModes == {"qqq_then_tqqq", "tqqq_only", "qqq_only"}

BandsValid(bands, hysteresis) ==
    /\ bands \in Seq([threshold : 0..Par, max : Nat, block : BOOLEAN]) /\ bands # << >>
    /\ bands[1].threshold = 0 /\ bands[Len(bands)].block
    /\ \A i \in 2..Len(bands) :
          /\ bands[i].threshold > bands[i - 1].threshold
          /\ bands[i].max <= bands[i - 1].max
          /\ bands[i - 1].block => bands[i].block
    /\ hysteresis \in 0..Par

LimitsValid(l) ==
    /\ BandsValid(l.bands, l.hysteresis)
    /\ l.gross + l.cash <= Unit
    /\ l.minScale <= l.maxScale
    /\ l.mode \in LongModes /\ l.deadBand \in Nat
    /\ {l.net, l.inverse, l.leveraged, l.gross, l.cash, l.turnover,
        l.target, l.minScale, l.maxScale} \subseteq Nat
    /\ l.cap \in Weights /\ \A g \in DOMAIN l.regimes : l.regimes[g] \in Nat

ASSUME LimitsLoad == Par \in Nat \ {0} /\ \A l \in Limits : LimitsValid(l)
ASSUME BooksAreHeld == Unit \in Nat \ {0} /\ Eps \in Nat /\ Books \subseteq Weights
                       /\ Exposures \subseteq Int /\ Vols \subseteq Nat

-----------------------------------------------------------------------------
(* Rules. *)

Drawdown == Par - equity

\* Mutant: the band before is forgotten.
BandFor_forgets(l, drawdown, last) ==
    CHOOSE i \in DOMAIN l.bands :
        /\ drawdown >= l.bands[i].threshold
        /\ \A j \in DOMAIN l.bands : drawdown >= l.bands[j].threshold => j <= i

\* The deepest band reached; a deeper one before is kept within the hysteresis.
BandFor(l, drawdown, last) ==
    LET k == CHOOSE i \in DOMAIN l.bands :
                 /\ drawdown >= l.bands[i].threshold
                 /\ \A j \in DOMAIN l.bands : drawdown >= l.bands[j].threshold => j <= i
    IN  IF last > k /\ drawdown >= l.bands[last].threshold - l.hysteresis THEN last ELSE k

Sane(w) == Gross(w) <= Unit /\ \A s \in DOMAIN w : s \in Symbols3 /\ w[s] >= 0

\* Mutant: each position is held down on its own.
Freeze_cuts(w, cur) == [s \in Symbols3 |-> LessOf(w[s], cur[s])]

\* Cutting one leg may raise |net|: then everything is held.
Freeze(w, cur) ==
    LET cut == [s \in Symbols3 |-> LessOf(w[s], cur[s])]
    IN  IF AbsOf(Net(cut)) > AbsOf(Net(cur)) THEN cur ELSE cut

\* Scale as a fraction: target over forecast, clamped.
VolTarget(l, w, vol, frozen) ==
    LET forecast == vol * AbsOf(Net(w))
        hi       == IF frozen THEN LessOf(l.maxScale, Unit) ELSE l.maxScale
        Scaled(n, d) == [s \in Symbols3 |-> (w[s] * n) \div d]
    IN  CASE forecast = 0                                      -> Scaled(hi, Unit)
          [] forecast # 0 /\ l.target * Unit >= hi * forecast  -> Scaled(hi, Unit)
          [] forecast # 0 /\ l.target * Unit < hi * forecast ->
                IF l.target * Unit <= l.minScale * forecast
                THEN Scaled(LessOf(l.minScale, hi), Unit) ELSE Scaled(l.target, forecast)

\* What a weight of s does to an excess it carries: it is cut by what is left of it.
CutOne(a, s, carries) ==
    LET cut == IF carries[s] > 0 /\ a.excess > 0
               THEN LessOf(a.w[s], CeilDiv(a.excess, carries[s])) ELSE 0
    IN  [w |-> [a.w EXCEPT ![s] = @ - cut], excess |-> a.excess - cut * carries[s]]

\* The most leveraged are cut first.
CutDown(w, cap, carries) ==
    LET cut[n \in 0..Len(Instruments)] ==
            IF n = 0 THEN [w |-> w, excess |-> Exposure(w, carries) - cap]
            ELSE CutOne(cut[n - 1], Instruments[n], carries)
    IN  cut[Len(Instruments)].w

\* Over one side, the other is left.
CapNet(w, long, short) ==
    CutDown(CutDown(w, long, Leverage), short, [s \in Symbols3 |-> -Leverage[s]])

PositionCaps(l, w) == [s \in Symbols3 |-> LessOf(w[s], l.cap[s])]

LeveragedCap(l, w) ==
    LET total == LeveragedWeight(w)
    IN  IF total <= l.leveraged THEN w
        ELSE [s \in Symbols3 |-> IF s \in Leveraged THEN (w[s] * l.leveraged) \div total ELSE w[s]]

GrossCap(l, w) == CutDown(w, LessOf(l.gross, Unit - l.cash), [s \in Symbols3 |-> 1])

\* The net caps last: the others can move net exposure.
ExposureCaps(l, w, long, short) ==
    CapNet(GrossCap(l, LeveragedCap(l, PositionCaps(l, w))), long, short)

Decreases(w, cur) == SumAll([s \in Symbols3 |-> MoreOf(cur[s] - w[s], 0)])
Increases(w, cur) == SumAll([s \in Symbols3 |-> MoreOf(w[s] - cur[s], 0)])

\* Increases share what the decreases leave of the budget.
Turnover(l, w, cur) ==
    LET dec == Decreases(w, cur)
        inc == Increases(w, cur)
    IN  IF dec + inc <= l.turnover \/ inc = 0 THEN w
        ELSE [s \in Symbols3 |-> IF w[s] > cur[s]
                THEN cur[s] + ((w[s] - cur[s]) * MoreOf(l.turnover - dec, 0)) \div inc ELSE w[s]]

\* Turnover and caps until they agree, twenty times at most; if they do not,
\* increases are dropped.
SettleOnce(l, a, cur, long, short) ==
    LET next == ExposureCaps(l, Turnover(l, a.w, cur), long, short)
    IN  IF a.agreed THEN a ELSE [w |-> next, agreed |-> next = a.w]

Settle(l, w, cur, long, short) ==
    LET round[n \in 0..20] == IF n = 0 THEN [w |-> w, agreed |-> FALSE]
                              ELSE SettleOnce(l, round[n - 1], cur, long, short)
        last == round[20].w
    IN  IF Decreases(last, cur) + Increases(last, cur) > l.turnover /\ Increases(last, cur) > 0
        THEN ExposureCaps(l, [s \in Symbols3 |-> LessOf(last[s], cur[s])], long, short)
        ELSE last

Verified(l, w, cur, b, regime, frozen) ==
    /\ Net(w) <= RegimeCap(l, regime, LessOf(l.net, b.max)) + Eps
    /\ -Net(w) <= RegimeCap(l, regime, LessOf(l.inverse, b.max)) + Eps
    /\ Gross(w) <= LessOf(l.gross, Unit - l.cash) + Eps
    /\ \A s \in Symbols3 : w[s] >= 0 /\ w[s] <= l.cap[s] + Eps
    /\ LeveragedWeight(w) <= l.leveraged + Eps
    /\ frozen => \A s \in Symbols3 : w[s] <= cur[s] + Eps
    /\ Increases(w, cur) > Eps => Decreases(w, cur) + Increases(w, cur) <= l.turnover + Eps

-----------------------------------------------------------------------------
(* The allocation policy: QQQ, TQQQ and SQQQ for an exposure in Units. *)

ExposureToWeights(e, mode) ==
    LET none == [s \in Symbols3 |-> 0]
        t    == LessOf((e - Unit) \div 2, Unit)
    IN  CASE e < 0                                   -> [none EXCEPT !["SQQQ"] = LessOf(Unit, (-e) \div 3)]
          [] e >= 0 /\ mode = "qqq_only"              -> [none EXCEPT !["QQQ"] = LessOf(e, Unit)]
          [] e >= 0 /\ mode = "tqqq_only"             -> [none EXCEPT !["TQQQ"] = LessOf(e \div 3, Unit)]
          [] e \in 0..Unit /\ mode = "qqq_then_tqqq"  -> [none EXCEPT !["QQQ"] = e]
          [] e > Unit /\ mode = "qqq_then_tqqq"       -> [none EXCEPT !["TQQQ"] = t, !["QQQ"] = Unit - t]

\* Small exposures are held as cash.
Propose(e, mode, deadBand) == ExposureToWeights(IF AbsOf(e) >= deadBand THEN e ELSE 0, mode)

-----------------------------------------------------------------------------
(* A session. *)

NoVerdict == [ok |-> FALSE, asked |-> FALSE]

RiskInit ==
    /\ lim \in Limits /\ book \in Books
    /\ equity = Par /\ previous = Par /\ band = 0
    /\ verdict = NoVerdict

\* evaluate(): the rules in their order; a refusal leaves weights and band as
\* they are, no decision is stored.
Evaluate(exposure, killed, vol, regime) ==
    LET proposal == Propose(exposure, lim.mode, lim.deadBand)
        k      == BandFor(lim, Drawdown, band)
        b      == lim.bands[k]
        frozen == killed \/ b.block \/ Par * (previous - equity) >= lim.dailyLoss * previous
        start  == IF frozen THEN Freeze(proposal, book) ELSE proposal
        capped == CapNet(VolTarget(lim, start, vol, frozen), b.max, b.max)
        calm   == IF regime \in DOMAIN lim.regimes
                  THEN CapNet(capped, lim.regimes[regime], lim.regimes[regime]) ELSE capped
        long   == RegimeCap(lim, regime, LessOf(lim.net, b.max))
        short  == RegimeCap(lim, regime, LessOf(lim.inverse, b.max))
        w      == Settle(lim, ExposureCaps(lim, calm, long, short), book, long, short)
        ok     == Sane(proposal) /\ Verified(lim, w, book, b, regime, frozen)
    IN  /\ verdict.asked = FALSE /\ equity > 0 /\ previous > 0
        /\ verdict' = [ok |-> ok, asked |-> TRUE, exposure |-> exposure, proposal |-> proposal, held |-> book,
                       frozen |-> frozen]
        /\ book' = IF ok THEN w ELSE book
        /\ band' = IF ok THEN k ELSE band
        /\ UNCHANGED << lim, equity, previous >>

\* The next session: equity moves.
NextClose(e) ==
    /\ verdict.asked
    /\ previous' = equity /\ equity' = e /\ verdict' = NoVerdict
    /\ UNCHANGED << lim, book, band >>

RiskNext ==
    \/ \E x \in Exposures, killed \in BOOLEAN, v \in Vols, g \in Regimes : Evaluate(x, killed, v, g)
    \/ \E e \in 1..Par : NextClose(e)

RiskSpec == RiskInit /\ [][RiskNext]_riskVars

-----------------------------------------------------------------------------
(* Properties *)

\* The rules in their order are enough: whatever is held, drifted or over a
\* limit, a sane proposal comes out within every limit, so that the closing
\* verification, which would leave the book unmanaged, never refuses it.
RulesSuffice == verdict.asked /\ Sane(verdict.proposal) => verdict.ok

\* Frozen, no position grows, and net exposure grows only where a cap on
\* weights cuts what was already held beyond it.
FrozenHoldsRisk ==
    verdict.ok /\ verdict.frozen =>
        /\ \A s \in Symbols3 : book[s] <= verdict.held[s]
        /\ AbsOf(Net(book)) <= AbsOf(Net(verdict.held)) + Eps
              \/ verdict.held # GrossCap(lim, LeveragedCap(lim, PositionCaps(lim, verdict.held)))

\* A proposal that only sells, and lowers net exposure, is carried out in full
\* at any turnover, frozen or not, unless volatility asks for more than 1.
ReductionsPass ==
    verdict.ok /\ lim.maxScale <= Unit
        /\ (\A s \in Symbols3 : verdict.proposal[s] <= verdict.held[s])
        /\ AbsOf(Net(verdict.proposal)) <= AbsOf(Net(verdict.held))
      => \A s \in Symbols3 : book[s] <= verdict.proposal[s]

\* A band is left for a shallower one only by a drawdown that has recovered the
\* hysteresis below its threshold, in whatever steps, refusals included; and
\* weights are approved only under a band as deep as the drawdown they face.
BandsHold ==
    [][ /\ (band' < band => Drawdown < lim.bands[band].threshold - lim.hysteresis)
        /\ (verdict'.ok /\ ~verdict.asked =>
               \A j \in DOMAIN lim.bands : j > band' => Drawdown < lim.bands[j].threshold) ]_riskVars

\* Whatever exposure the ensemble asks for, the policy's weights are long only,
\* within the equity, never both for and against the index, and their net
\* exposure is what was asked for, clamped to what the instruments can carry:
\* never more than that, and short of it by less than one weight of the most
\* leveraged one.  Exposures inside the dead band are cash.
PolicyRealises ==
    verdict.asked =>
        LET w     == verdict.proposal
            top   == IF lim.mode = "qqq_only" THEN Unit ELSE 3 * Unit
            asked == IF AbsOf(verdict.exposure) < lim.deadBand THEN 0
                     ELSE MoreOf(-3 * Unit, LessOf(verdict.exposure, top))
        IN  /\ Sane(w) /\ (w["SQQQ"] > 0 => w["QQQ"] + w["TQQQ"] = 0)
            /\ asked * Net(w) >= 0
            /\ AbsOf(Net(w)) <= AbsOf(asked) /\ AbsOf(asked) < AbsOf(Net(w)) + 3

\* The rules of the engine work together: none breaks what one before it has
\* seen to, a freeze adds no risk, and none of them holds a reduction back.
RulesWorkTogether == RulesSuffice /\ FrozenHoldsRisk /\ ReductionsPass /\ PolicyRealises
=============================================================================
