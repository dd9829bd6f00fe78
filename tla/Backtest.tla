------------------------------ MODULE Backtest ------------------------------
(***************************************************************************)
(* The event-driven backtest: sessions with an open and a close, decisions *)
(* at the time the execution timing gives them, orders that fill at the    *)
(* open or the close of a later (or the same) session, participation caps  *)
(* and cash limits, FIFO lots and accounts in cents.  What strategies and  *)
(* the risk chain ask for is any target weight.                            *)
(***************************************************************************)
EXTENDS Integers, SequencesExt, FiniteSetsExt, Sums

CONSTANTS
    Symbols,      \* instruments with prices
    Prices,       \* symbol -> prices of a share in cents
    Targets,      \* what a decision may ask for: symbol -> parts of Whole
    Whole,        \* a weight of 1
    Timings,      \* execution timings looked at
    Delays,       \* execution delays in sessions
    Caps,         \* shares an order may fill: -1 no cap, -2 volume unknown
    Spread,       \* cost of a share against the price
    Fee,          \* commission of an order
    Rate,         \* overnight interest: one part in Rate
    Threshold,    \* rebalance threshold, in parts of Whole
    Capital,      \* initial cash
    Horizon       \* number of sessions

VARIABLES
    timing, delay, rejects,   \* the configuration; rejects: unknown_volume
    today, phase, \* session and step of its loop
    tape,         \* open and close of every session so far; session 0 is history
    cash, lots, realized, commissions, interest, trips,
    pending,      \* orders in the order of their ids
    marks,        \* equity at the end of each session
    asked,        \* what was held or ordered of a symbol after the last decision
    limited,      \* an order was cut or cancelled
    seen,         \* of the last decision: sessions of its equity and previous equity
    raised        \* the engine stopped with an error

accounts == << cash, lots, realized, commissions, interest, trips >>
backVars == << timing, delay, rejects, today, phase, tape, accounts, pending, marks, asked,
               limited, seen, raised >>

ASSUME BacktestAssumption ==
    /\ Horizon \in Nat \ {0} /\ Capital \in Nat \ {0} /\ Rate \in Nat \ {0}
    /\ Fee \in Nat /\ Spread \in Nat /\ Whole \in Nat \ {0} /\ Threshold \in Nat
    /\ IsFiniteSet(Symbols) /\ Prices \in [Symbols -> SUBSET (Nat \ {0})]
    /\ \A t \in Targets : t \in [Symbols -> Nat]
    /\ Timings \subseteq {"near_close", "next_open", "next_close", "closing_auction"}
    /\ Delays \subseteq Nat /\ Caps \subseteq Nat \cup {-1, -2}

OpenAt(s)  == 10 * s
NearAt(s)  == 10 * s + 5
CloseAt(s) == 10 * s + 8

SymbolOrder == SetToSeq(Symbols)
SumSymbols(f) == Summed([n \in DOMAIN SymbolOrder |-> f[SymbolOrder[n]]])

\* Decimal.quantize(CENT): to the nearest, halves to the even one.
Share(total, part, whole) ==
    LET q == (total * part) \div whole
        r == (total * part) % whole
    IN  IF 2 * r > whole \/ (2 * r = whole /\ q % 2 = 1) THEN q + 1 ELSE q

Held(ls)   == Summed([n \in DOMAIN ls |-> ls[n].qty])
CostOf(ls) == Summed([n \in DOMAIN ls |-> ls[n].cost])
FeesOf(ls) == Summed([n \in DOMAIN ls |-> ls[n].comm])

-----------------------------------------------------------------------------
(* execution.py: when a session decides and which fill its orders wait for. *)

DecidesAt(s) == IF timing = "near_close" THEN NearAt(s) ELSE CloseAt(s)

FillSession(s) == s + delay + (IF timing \in {"next_open", "next_close"} THEN 1 ELSE 0)
FillPoint == IF timing = "next_open" THEN "open" ELSE "close"
FillTime(s, point) == IF point = "open" THEN OpenAt(s) ELSE CloseAt(s)
SameBar == timing = "closing_auction" /\ delay = 0

\* _known_close: the session of the last bar that ended by the time.
KnownSession(t) == Max({s \in 0 .. today : CloseAt(s) <= t})
KnownClose(sym, t) == tape[KnownSession(t)][sym].close

-----------------------------------------------------------------------------
(* portfolio.py and costs.py *)

FillPrice(side, ref) == IF side = "buy" THEN ref + Spread ELSE ref - Spread
BuyCost(q, ref) == q * FillPrice("buy", ref) + Fee

\* _sell, one lot: a lot sold whole gives all that is left of its cost, the
\* last piece takes all that is left of the proceeds.
Piece(a, lot, fill) ==
    LET take  == IF a.qty < lot.qty THEN a.qty ELSE lot.qty
        whole == take = lot.qty
        cost  == IF whole THEN lot.cost ELSE Share(lot.cost, take, lot.qty)
        buyc  == IF whole THEN lot.comm ELSE Share(lot.comm, take, lot.qty)
        gain  == IF take = a.qty THEN a.gain ELSE Share(fill.gain, take, fill.qty)
        comm  == IF take = a.qty THEN a.comm ELSE Share(fill.comm, take, fill.qty)
    IN  [lots  |-> IF whole THEN a.lots
                   ELSE Append(a.lots, [qty |-> lot.qty - take, cost |-> lot.cost - cost,
                                        comm |-> lot.comm - buyc]),
         qty   |-> a.qty - take, gain |-> a.gain - gain, comm |-> a.comm - comm,
         gross |-> a.gross + gain - cost, fees |-> a.fees + buyc + comm,
         pnl   |-> a.pnl + (gain - cost - buyc - comm)]

\* From the oldest lot on, while something is left to sell.
Close(ls, fill) ==
    LET sold[n \in 0 .. Len(ls)] ==
            IF n = 0 THEN [lots |-> << >>, qty |-> fill.qty, gain |-> fill.gain,
                           comm |-> fill.comm, gross |-> 0, fees |-> 0, pnl |-> 0]
            ELSE IF sold[n - 1].qty = 0
                 THEN [sold[n - 1] EXCEPT !.lots = Append(@, ls[n])]
                 ELSE Piece(sold[n - 1], ls[n], fill)
    IN  sold[Len(ls)]

Buy(o, q, ref) ==
    /\ cash' = cash - BuyCost(q, ref)
    /\ lots' = [lots EXCEPT ![o.sym] = Append(@,
                   [qty |-> q, cost |-> q * FillPrice("buy", ref), comm |-> Fee])]
    /\ commissions' = commissions + Fee
    /\ UNCHANGED << realized, trips >>

Sell(o, q, ref) ==
    LET fill == [qty |-> q, gain |-> q * FillPrice("sell", ref), comm |-> Fee]
        sold == Close(lots[o.sym], fill)
    IN  /\ cash' = cash + fill.gain - Fee
        /\ lots' = [lots EXCEPT ![o.sym] = sold.lots]
        /\ realized' = realized + sold.gross
        /\ trips' = [pnl |-> trips.pnl + sold.pnl, comm |-> trips.comm + sold.fees]
        /\ commissions' = commissions + Fee

\* market_value and equity at given prices.
Equity(price) == cash + SumSymbols([s \in Symbols |-> Held(lots[s]) * price[s]])

-----------------------------------------------------------------------------
(* engine.py *)

\* History closes before the first session opens.
Tapes == {[s \in 0 .. 1 |-> IF s = 0 THEN [sym \in Symbols |-> [open |-> a[sym], close |-> a[sym]]]
                            ELSE [sym \in Symbols |-> [open |-> a[sym], close |-> b[sym]]]] :
             a, b \in {f \in [Symbols -> UNION {Prices[s] : s \in Symbols}] :
                         \A s \in Symbols : f[s] \in Prices[s]}}

BackInit ==
    /\ timing \in Timings /\ delay \in Delays /\ rejects \in BOOLEAN
    /\ today = 1 /\ phase = "open"
    /\ tape \in Tapes
    /\ cash = Capital /\ lots = [s \in Symbols |-> << >>]
    /\ realized = 0 /\ commissions = 0 /\ interest = 0 /\ trips = [pnl |-> 0, comm |-> 0]
    /\ pending = << >> /\ marks = << >>
    /\ asked = [s \in Symbols |-> 0] /\ limited = FALSE
    /\ seen = [equity |-> 0, previous |-> 0] /\ raised = "no"

Due == {n \in DOMAIN pending : pending[n].session = today /\ pending[n].point = phase}

\* Sells first, then by order id.
NextDue == CHOOSE n \in Due : \A m \in Due :
               \/ pending[n].side = "sell" /\ pending[m].side = "buy"
               \/ pending[n].side = pending[m].side /\ n <= m

\* Mutant: the commission is forgotten.
Affordable_noFee(q, ref) == Max({n \in 0 .. q : n * FillPrice("buy", ref) <= cash})

\* _affordable: the most shares the cash pays for.
Affordable(q, ref) == Max({n \in 0 .. q : n = 0 \/ BuyCost(n, ref) <= cash})

\* The quantity an order fills; 0 cancels it.
Filled(o, ref) ==
    LET capped == IF o.cap >= 0 THEN Min({o.qty, o.cap}) ELSE o.qty
    IN  IF o.cap = -2 /\ rejects THEN 0
        ELSE IF o.side = "sell" THEN Min({capped, Held(lots[o.sym])})
        ELSE Affordable(capped, ref)

\* _fill_due and _execute for the next order; _check_timing comes first.
Fill ==
    /\ raised = "no" /\ phase \in {"open", "close"} /\ Due # {}
    /\ LET o    == pending[NextDue]
           when == FillTime(today, phase)
           ref  == IF phase = "open" THEN tape[today][o.sym].open ELSE tape[today][o.sym].close
           q    == Filled(o, ref)
       IN  /\ pending' = RemoveAt(pending, NextDue)
           /\ limited' = (limited \/ q < o.qty)
           /\ IF when < o.decided \/ ~ (when > o.data \/ (SameBar /\ when = o.data))
              THEN raised' = "look-ahead" /\ UNCHANGED accounts
              ELSE /\ IF q = 0 THEN UNCHANGED accounts
                      ELSE /\ IF o.side = "buy" THEN Buy(o, q, ref) ELSE Sell(o, q, ref)
                           /\ UNCHANGED interest
                   /\ raised' = IF cash' < 0 THEN "accounting" ELSE "no"
    /\ UNCHANGED << timing, delay, rejects, today, phase, tape, marks, asked, seen >>

Pass(from, to) ==
    /\ raised = "no" /\ phase = from /\ phase' = to
    /\ UNCHANGED << timing, delay, rejects, today, tape, accounts, pending, marks, asked,
                    limited, seen, raised >>

\* Mutant: orders in flight are not counted.
Projected_held(sym, orders) == Held(lots[sym])

Projected(sym, orders) ==
    Held(lots[sym]) + Summed([n \in DOMAIN orders |->
        IF orders[n].sym # sym THEN 0
        ELSE IF orders[n].side = "buy" THEN orders[n].qty ELSE - orders[n].qty])

\* Shares of one symbol to trade for a target: none within the rebalance
\* threshold of what is held (full exits always go).
Delta(sym, weight, equity, price) ==
    LET drift == weight * equity - Whole * Projected(sym, pending) * price
        inBand == weight > 0 /\ drift < Threshold * equity /\ - drift < Threshold * equity
    IN  IF inBand THEN 0
        ELSE (weight * equity) \div (Whole * price) - Projected(sym, pending)

OrderFor(sym, delta, at, cap) ==
    [sym |-> sym, side |-> IF delta > 0 THEN "buy" ELSE "sell",
     qty |-> IF delta > 0 THEN delta ELSE - delta, decided |-> at,
     data |-> CloseAt(KnownSession(at)), session |-> FillSession(today),
     point |-> FillPoint, cap |-> cap]

\* _decide; a decision whose fill is past the end is not made.
Decide(target, cap) ==
    LET at     == DecidesAt(today)
        equity == Equity([s \in Symbols |-> KnownClose(s, at)])
        delta  == [s \in Symbols |-> Delta(s, target[s], equity, KnownClose(s, at))]
        moved  == SetToSeq({s \in Symbols : delta[s] # 0})
    IN  /\ FillSession(today) <= Horizon
        /\ pending' = pending \o [n \in DOMAIN moved |-> OrderFor(moved[n], delta[moved[n]], at, cap)]
        /\ asked' = [s \in Symbols |-> Projected(s, pending')]
        /\ seen' = [equity |-> KnownSession(at), previous |-> Max({0, Len(marks) - 1})]

\* Before the close in near_close and closing_auction, after the mark otherwise.
EarlyDecision(target, cap) ==
    /\ raised = "no" /\ phase = "early" /\ phase' = "close"
    /\ timing \in {"near_close", "closing_auction"} /\ Decide(target, cap)
    /\ UNCHANGED << timing, delay, rejects, today, tape, accounts, marks, limited, raised >>

LateDecision(target, cap) ==
    /\ raised = "no" /\ phase = "late" /\ phase' = "next"
    /\ timing \in {"next_open", "next_close"} /\ Decide(target, cap)
    /\ UNCHANGED << timing, delay, rejects, today, tape, accounts, marks, limited, raised >>

NoDecision ==
    \/ /\ timing \in {"next_open", "next_close"} \/ FillSession(today) > Horizon
       /\ Pass("early", "close")
    \/ /\ timing \in {"near_close", "closing_auction"} \/ FillSession(today) > Horizon
       /\ Pass("late", "next")

\* A decision the risk engine cannot compute places no orders and cancels none.
RefusedDecision ==
    /\ FillSession(today) <= Horizon
    /\ \/ timing \in {"near_close", "closing_auction"} /\ Pass("early", "close")
       \/ timing \in {"next_open", "next_close"} /\ Pass("late", "next")

\* Interest for the nights since the session before, then the mark.
Mark ==
    LET accrued == IF today = 1 THEN 0 ELSE cash \div Rate
    IN  /\ raised = "no" /\ phase = "close" /\ Due = {} /\ phase' = "late"
        /\ cash' = cash + accrued /\ interest' = interest + accrued
        /\ marks' = Append(marks, Equity([s \in Symbols |-> tape[today][s].close]) + accrued)
        /\ UNCHANGED << timing, delay, rejects, today, tape, lots, realized, commissions, trips,
                        pending, asked, limited, seen, raised >>

NextSession(prices) ==
    /\ raised = "no" /\ phase = "next" /\ today < Horizon
    /\ today' = today + 1 /\ phase' = "open"
    /\ tape' = [s \in 0 .. today + 1 |-> IF s <= today THEN tape[s] ELSE prices]
    /\ UNCHANGED << timing, delay, rejects, accounts, pending, marks, asked, limited, seen, raised >>

Bars == {f \in [Symbols -> UNION {[open : Prices[s], close : Prices[s]] : s \in Symbols}] :
            \A s \in Symbols : f[s].open \in Prices[s] /\ f[s].close \in Prices[s]}

BackNext ==
    \/ Fill
    \/ Due = {} /\ Pass("open", "early")
    \/ \E t \in Targets, c \in Caps : EarlyDecision(t, c) \/ LateDecision(t, c)
    \/ NoDecision \/ RefusedDecision
    \/ Mark
    \/ \E b \in Bars : NextSession(b)

BackSpec == BackInit /\ [][BackNext]_backVars

-----------------------------------------------------------------------------
(* To the cent, after every fill: cash is what was put in, plus what sales   *)
(* realized, less what the open lots cost and all commissions, plus interest;*)
(* partial sales of lots lose and invent nothing (portfolio.py:213-222).     *)
LedgerBalances ==
    cash + SumSymbols([s \in Symbols |-> CostOf(lots[s])])
        = Capital + realized - commissions + interest

(* Round trips carry every commission once: what they carry and what open    *)
(* lots still carry is what was paid, so their profits add up to the result. *)
TripsAddUp ==
    /\ trips.comm + SumSymbols([s \in Symbols |-> FeesOf(lots[s])]) = commissions
    /\ trips.pnl = realized - trips.comm

(* The engine's own checks never fire: no fill before its decision or on the *)
(* bar it was decided from (but in the closing auction), no sale of more     *)
(* than is held, no buy beyond the cash (engine.py:500-510, 579-599).        *)
NothingRaised == raised = "no"

(* A decision is sized on a bar that had ended, and its order fills on a     *)
(* later one: each timing and delay keeps data, decision and fill in order.  *)
DataPrecedesFill ==
    \A n \in DOMAIN pending :
        LET o == pending[n]
        IN  /\ o.data <= o.decided /\ o.decided <= FillTime(o.session, o.point)
            /\ o.data < FillTime(o.session, o.point) \/ SameBar
            /\ o.session >= today

(* Orders in flight count when the next are sized: as long as none was cut,  *)
(* what is held once all have filled is what the last decision left asked    *)
(* for, whatever the delay (engine.py:21-22, "never double-trade").          *)
HoldingIsAsked ==
    ~ limited => \A s \in Symbols : Projected(s, pending) = asked[s]

(* The risk engine's daily loss compares two consecutive closes: the one the *)
(* decision's equity is priced at and the one before; the closing auction is *)
(* the exception, its loss spans two sessions (engine.py:463-469).           *)
LossIsOneSession ==
    timing # "closing_auction" /\ seen.equity > 0 => seen.previous = seen.equity - 1

\* Every cent and every share of a backtest has an account that adds up, with
\* nothing refused that could be paid.
AccountsAddUp == LedgerBalances /\ TripsAddUp /\ NothingRaised

\* A backtest knows what a trader would have known, and asks for what it was told.
NothingIsForeseen == DataPrecedesFill /\ HoldingIsAsked /\ LossIsOneSession
=============================================================================
