---------------------------- MODULE TradingCycle ----------------------------
(***************************************************************************)
(* The trading cycle of one session after another                          *)
(* (trading/scheduler/cycle.py, driven by runner.py and timed by           *)
(* schedule.py): nine steps, each run when it is due and all the steps     *)
(* before it are done, each outcome stored, and everything resumed by a    *)
(* restarted process from what is stored.                                  *)
(*                                                                         *)
(* One scheduler runs (the advisory lock of persistence/locks.py).  Its    *)
(* steps are the units between which it can die, the clock can move and    *)
(* people can act: a handler's reads, its own transaction, the broker      *)
(* calls, and the transaction that stores the step.  Orders are kept as    *)
(* their kind; OrderManager.tla models what happens to each.               *)
(***************************************************************************)
EXTENDS Naturals, Sequences

CONSTANTS
    Due,           \* minute of the session at which each step is due
    OrderCutoff,   \* no new orders at or after this minute
    LastMinute,    \* the last minute of the session day that is looked at
    Faults         \* what may go wrong: "crash", "data", "broker", "risk",
                   \* "stop" (the transmit guard closes), "drift" (positions
                   \* moved at the broker by somebody else)

CycleSteps == <<"health_check", "market_data_update", "indicators", "strategies", "risk",
                "portfolio_target", "order_submission", "fill_monitoring", "reconciliation">>
Steps      == {CycleSteps[i] : i \in 1..Len(CycleSteps)}
Outcomes   == {"done", "refused", "failed", "skipped"}

\* validate_schedule() and the chronological order of ScheduleConfig.
ASSUME ScheduleAssumption ==
    /\ LastMinute \in Nat
    /\ Due \in [Steps -> 0..LastMinute]
    /\ \A i \in 2..Len(CycleSteps) : Due[CycleSteps[i - 1]] <= Due[CycleSteps[i]]
    /\ OrderCutoff \in Nat /\ Due["order_submission"] < OrderCutoff
ASSUME FaultAssumption ==
    Faults \subseteq {"crash", "data", "broker", "risk", "stop", "drift"}

VARIABLES
    minute,
    \* the audit database
    cycle,      \* status of today's trading_cycles row, or "none"
    status,     \* latest cycle_steps row of each step, or "none"
    blocked,    \* blocked_risk_increasing, stored with the risk step
    increase,   \* risk_increasing_allowed, stored with portfolio_target
    decision,   \* whether today's risk_decisions row exists
    report,     \* the latest reconciliation report: "none", "passed", "failed"
    orders,     \* our non-terminal intents: "none" of them, all "seen" open at
                \* the broker, one "unseen" there, or one "unknown"
    \* outside
    reducing,   \* trading.kill_switch.allow_risk_reducing_orders, read at start
    killed,     \* the kill switch is engaged, or unreadable
    drift,      \* broker positions differ from start_positions plus our fills
    \* the scheduler process
    pc, now, at, side, result, draft, ran,
    \* history
    sent,       \* the kinds of orders transmitted today
    warned      \* what today's decision and gate saw against more risk

stored  == <<cycle, status, blocked, increase, decision>>
world   == <<reducing, killed, drift>>
local   == <<now, at, side, result, draft, ran>>
history == <<sent, warned>>
vars    == <<minute, stored, report, orders, world, pc, local, history>>

Kinds == {"reduce", "increase"}

\* What a session stores.
SessionTypes ==
    /\ minute   \in 0..LastMinute
    /\ cycle    \in {"none", "running", "completed", "refused"}
    /\ status   \in [Steps -> Outcomes \cup {"none"}]
    /\ blocked  \in BOOLEAN /\ increase \in BOOLEAN /\ decision \in BOOLEAN

\* What outlives it, and the history.
WorldTypes ==
    /\ report   \in {"none", "passed", "failed"}
    /\ orders   \in {"none", "seen", "unseen", "unknown"}
    /\ reducing \in BOOLEAN /\ killed \in BOOLEAN /\ drift \in BOOLEAN
    /\ sent     \subseteq Kinds
    /\ warned   \subseteq {"switch_at_risk", "switch_at_gate", "report_at_gate"}

\* The scheduler process.
ProcessTypes ==
    /\ pc       \in {"asleep", "loop", "decide", "plan", "send", "reconcile", "record", "finish"}
    /\ now      \in 0..LastMinute
    /\ at       \in 1..(Len(CycleSteps) + 1)
    /\ side     \in {"sell", "buy"}
    /\ result   \in Outcomes \cup {"none"}
    /\ draft    \in BOOLEAN /\ ran \in BOOLEAN

TypeOK == SessionTypes /\ WorldTypes /\ ProcessTypes

\* A fresh installation starts with the kill switch engaged.
Init ==
    /\ minute = 0
    /\ cycle = "none" /\ status = [s \in Steps |-> "none"]
    /\ blocked = FALSE /\ increase = FALSE /\ decision = FALSE
    /\ report = "none" /\ orders = "none"
    /\ reducing \in BOOLEAN /\ killed = TRUE /\ drift = FALSE
    /\ pc = "asleep" /\ now = 0 /\ at = 1 /\ side = "sell"
    /\ result = "none" /\ draft = FALSE /\ ran = FALSE
    /\ sent = {} /\ warned = {}

-----------------------------------------------------------------------------
(***************************************************************************)
(* The driver: run_due().                                                  *)
(***************************************************************************)
Sleep ==
    /\ pc' = "asleep" /\ now' = 0 /\ at' = 1 /\ side' = "sell"
    /\ result' = "none" /\ draft' = FALSE /\ ran' = FALSE

\* tick() and the head of run_due(): the time is read once, the cycle's row is
\* created if it is missing, and a cycle that is over is left alone.
Wake ==
    /\ pc = "asleep"
    /\ cycle \in {"none", "running"}
    /\ cycle' = "running"
    /\ pc' = "loop" /\ now' = minute
    /\ UNCHANGED <<minute, status, blocked, increase, decision, report, orders, world, at, side, result, draft, ran, history>>

IsDue == at <= Len(CycleSteps) /\ Due[CycleSteps[at]] <= now

\* Mutant: only steps that are done are left alone.
Finished_retries == {"done"}

\* Whatever was stored for a step, it is not run again.
Finished == Outcomes

\* The step at hand is due and has no stored outcome yet.
Reached(step) ==
    /\ pc = "loop" /\ IsDue
    /\ CycleSteps[at] = step
    /\ status[step] \notin Finished

NextStep ==
    /\ pc = "loop" /\ IsDue
    /\ status[CycleSteps[at]] \in Finished
    /\ at' = at + 1
    /\ UNCHANGED <<minute, stored, report, orders, world, pc, now, side, result,
                   draft, ran, history>>

\* Mutant: only a refusal stops the steps after it.
MayRun_refusalsOnly(step) ==
    CASE step = "health_check"   -> TRUE
      [] step = "reconciliation" -> status["health_check"] = "done"
      [] OTHER -> \A i \in 1..(at - 1) : status[CycleSteps[i]] # "refused"

\* Reconciliation needs the start-of-cycle positions; the other steps need
\* every step before them done.
MayRun(step) ==
    CASE step = "health_check"   -> TRUE
      [] step = "reconciliation" -> status["health_check"] = "done"
      [] OTHER -> \A i \in 1..(at - 1) : status[CycleSteps[i]] = "done"

\* The handler returns (or raises) `outcome' with the payload `value'.
Outcome(outcome, value) == pc' = "record" /\ result' = outcome /\ draft' = value

\* Mutant: a step that may not run is passed over without an outcome.
SkipStep_silent ==
    \E step \in Steps :
        /\ Reached(step) /\ ~MayRun(step)
        /\ at' = at + 1
        /\ UNCHANGED <<minute, stored, report, orders, world, pc, now, side, result,
                       draft, ran, history>>

SkipStep ==
    \E step \in Steps :
        /\ Reached(step) /\ ~MayRun(step)
        /\ Outcome("skipped", FALSE)
        /\ UNCHANGED <<minute, stored, report, orders, world, now, at, side, ran, history>>

\* record_step(): the outcome and the payload are stored together.
RecordStep ==
    LET step == CycleSteps[at] IN
    /\ pc = "record"
    /\ status'   = [status EXCEPT ![step] = result]
    /\ blocked'  = IF step = "risk" THEN draft ELSE blocked
    /\ increase' = IF step = "portfolio_target" THEN draft ELSE increase
    /\ ran'      = (ran \/ step = "reconciliation")
    /\ at'       = at + 1
    /\ pc' = "loop" /\ side' = "sell" /\ result' = "none" /\ draft' = FALSE
    /\ UNCHANGED <<minute, cycle, decision, report, orders, world, now, history>>

Recorded == {s \in Steps : status[s] # "none"}

\* The loop ends; the run that reconciled also closes the cycle.
EndLoop ==
    /\ pc = "loop" /\ ~IsDue
    /\ IF ran THEN pc' = "finish" /\ UNCHANGED local ELSE Sleep
    /\ UNCHANGED <<minute, stored, report, orders, world, history>>

\* Mutant: a skipped step does not keep the cycle from being completed.
Finish_lenient ==
    /\ pc = "finish"
    /\ cycle' = IF \A s \in Recorded : status[s] \in {"done", "skipped"}
                THEN "completed" ELSE "refused"
    /\ Sleep
    /\ UNCHANGED <<minute, status, blocked, increase, decision, report, orders, world, history>>

Finish ==
    /\ pc = "finish"
    /\ cycle' = IF \A s \in Recorded : status[s] = "done" THEN "completed" ELSE "refused"
    /\ Sleep
    /\ UNCHANGED <<minute, status, blocked, increase, decision, report, orders, world, history>>

\* The process dies and is restarted, or the database is unavailable and the
\* whole tick is given up: what is not stored is lost.  An order on its way is
\* left to be found.
Crash ==
    /\ "crash" \in Faults
    /\ pc # "asleep"
    /\ Sleep
    /\ \/ UNCHANGED <<orders, sent>>
       \/ pc = "send" /\ orders # "unknown" /\ orders' = "unseen" /\ UNCHANGED sent
    /\ UNCHANGED <<minute, stored, report, world, warned>>

-----------------------------------------------------------------------------
(***************************************************************************)
(* The steps before the orders.                                            *)
(***************************************************************************)
\* Start-of-cycle positions are the broker's own: what moved before is not a
\* difference any more.
HealthCheck ==
    /\ Reached("health_check") /\ MayRun("health_check")
    /\ \/ Outcome("done", FALSE) /\ drift' = FALSE
       \/ "broker" \in Faults /\ Outcome("refused", FALSE) /\ UNCHANGED drift
    /\ UNCHANGED <<minute, stored, report, orders, reducing, killed, now, at, side, ran, history>>

\* market_data_update, indicators and strategies read market data only.
ReadMarket ==
    \E step \in {"market_data_update", "indicators", "strategies"} :
        /\ Reached(step) /\ MayRun(step)
        /\ \/ Outcome("done", FALSE)
           \/ "data" \in Faults /\ Outcome("refused", FALSE)
           \/ "data" \in Faults /\ Outcome("failed", FALSE)
        /\ UNCHANGED <<minute, stored, report, orders, world, now, at, side, ran, history>>

\* The risk engine blocks more risk when the kill switch is engaged, in the
\* emergency drawdown band, or at the daily loss limit.
AssessRisk ==
    /\ Reached("risk") /\ MayRun("risk")
    /\ \/ /\ pc' = "decide" /\ UNCHANGED result
          /\ \/ draft' = killed
             \/ "risk" \in Faults /\ draft' = TRUE
          /\ warned' = IF killed THEN {"switch_at_risk"} ELSE {}
       \/ /\ {"risk", "broker"} \cap Faults # {}
          /\ \E outcome \in {"refused", "failed"} : Outcome(outcome, FALSE)
          /\ UNCHANGED warned
    /\ UNCHANGED <<minute, stored, report, orders, world, now, at, side, ran, sent>>

\* record_decision(): the decision id is "<cycle>-d1", a primary key.
RecordDecision ==
    /\ pc = "decide"
    /\ decision' = TRUE
    /\ Outcome(IF decision THEN "failed" ELSE "done", draft)
    /\ UNCHANGED <<minute, cycle, status, blocked, increase, report, orders, world,
                   now, at, side, ran, history>>

\* Mutant: the gate reads the world and not the stored risk decision.
PreflightGate_forgetsRisk ==
    /\ Reached("portfolio_target") /\ MayRun("portfolio_target")
    /\ ~(killed /\ ~reducing)
    /\ Outcome("done", ~killed /\ report # "failed")
    /\ warned' = (warned \ {"switch_at_gate", "report_at_gate"})
                 \cup (IF killed THEN {"switch_at_gate"} ELSE {})
                 \cup (IF report = "failed" THEN {"report_at_gate"} ELSE {})
    /\ UNCHANGED <<minute, stored, report, orders, world, now, at, side, ran, sent>>

\* The pre-trade gate: kill switch, database, broker, data, stored risk
\* decision, last reconciliation.  It holds everything back when a check fails
\* that is not scoped to risk-increasing orders.
PreflightGate ==
    LET noMore == killed \/ blocked \/ report = "failed" IN
    /\ Reached("portfolio_target") /\ MayRun("portfolio_target")
    /\ \/ killed /\ ~reducing /\ Outcome("refused", FALSE)
       \/ ~(killed /\ ~reducing) /\ Outcome("done", ~noMore)
       \/ {"broker", "data"} \cap Faults # {} /\ Outcome("refused", FALSE)
    /\ warned' = (warned \ {"switch_at_gate", "report_at_gate"})
                 \cup (IF killed THEN {"switch_at_gate"} ELSE {})
                 \cup (IF report = "failed" THEN {"report_at_gate"} ELSE {})
    /\ UNCHANGED <<minute, stored, report, orders, world, now, at, side, ran, sent>>

-----------------------------------------------------------------------------
(***************************************************************************)
(* Orders: sells, then buys.                                               *)
(***************************************************************************)
\* The cutoff is read once, before anything else.
BeginSubmission ==
    /\ Reached("order_submission") /\ MayRun("order_submission")
    /\ \/ minute >= OrderCutoff /\ Outcome("skipped", FALSE)
       \/ minute < OrderCutoff /\ pc' = "plan" /\ UNCHANGED <<result, draft>>
       \/ /\ minute < OrderCutoff
          /\ "broker" \in Faults
          /\ \E outcome \in {"refused", "failed"} : Outcome(outcome, FALSE)
    /\ UNCHANGED <<minute, stored, report, orders, world, now, at, side, ran, history>>

\* sync(): an order the broker still shows stays open, one it reports final is
\* closed, one it does not have stays as it is.
Synced == IF orders \in {"unseen", "unknown"} THEN {orders, "none", "seen"} ELSE {orders}

\* The planner refuses every order while one of ours is unknown or not seen at
\* the broker.  Buys are planned on what the sells left.
PlanOrders ==
    /\ pc = "plan"
    /\ orders' \in IF side = "buy" THEN Synced ELSE {orders}
    /\ \/ orders' \in {"none", "seen"} /\ pc' = "send" /\ UNCHANGED <<result, draft>>
       \/ orders' \in {"unseen", "unknown"} /\ Outcome("refused", FALSE)
       \/ "broker" \in Faults /\ Outcome("refused", FALSE)
    /\ UNCHANGED <<minute, stored, report, world, now, at, side, ran, history>>

\* _filtered(): risk-increasing orders are dropped unless the stored gate
\* allowed them.  Every buy is risk-increasing, a sell may be.
Permitted == {k \in Kinds : (k = "reduce" => side = "sell") /\ (k = "increase" => increase)}

SendOrder ==
    /\ pc = "send"
    /\ \E kind \in Permitted :
         sent' = sent \cup {kind}
    /\ \/ UNCHANGED orders
       \/ orders = "none" /\ orders' = "seen"
       \/ "broker" \in Faults /\ orders' = "unknown"
    /\ UNCHANGED <<minute, stored, report, world, pc, local, warned>>

EndSide ==
    /\ pc = "send"
    /\ \/ side = "sell" /\ side' = "buy" /\ pc' = "plan" /\ UNCHANGED <<result, draft>>
       \/ side = "buy"  /\ Outcome("done", FALSE) /\ UNCHANGED side
       \/ "stop" \in Faults /\ Outcome("refused", FALSE) /\ UNCHANGED side
    /\ UNCHANGED <<minute, stored, report, orders, world, now, at, ran, history>>

FillMonitoring ==
    /\ Reached("fill_monitoring") /\ MayRun("fill_monitoring")
    /\ orders' \in Synced
    /\ \/ Outcome("done", FALSE)
       \/ "broker" \in Faults /\ Outcome("failed", FALSE)
    /\ UNCHANGED <<minute, stored, report, world, now, at, side, ran, history>>

-----------------------------------------------------------------------------
(***************************************************************************)
(* Reconciliation.                                                         *)
(***************************************************************************)
\* recover(), then the broker is read and compared.  An unreachable broker
\* leaves orders unresolved and makes the step fail without a report.
Compare ==
    /\ Reached("reconciliation") /\ MayRun("reconciliation")
    /\ \/ orders' = "none" /\ pc' = "reconcile" /\ draft' = ~drift /\ UNCHANGED result
       \/ /\ "broker" \in Faults
          /\ orders' \in {orders, "none"}
          /\ \/ pc' = "reconcile" /\ draft' = (~drift /\ orders' \in {"none", "seen"})
                /\ UNCHANGED result
             \/ Outcome("failed", FALSE)
    /\ UNCHANGED <<minute, stored, report, world, now, at, side, ran, sent, warned>>

\* rc.record(): the report is appended in a transaction of its own; what
\* follows (performance, summary) reads the broker again and may fail.
RecordReport ==
    /\ pc = "reconcile"
    /\ report' = IF draft THEN "passed" ELSE "failed"
    /\ \/ Outcome(IF draft THEN "done" ELSE "refused", FALSE)
       \/ "broker" \in Faults /\ Outcome("failed", FALSE)
    /\ UNCHANGED <<minute, stored, orders, world, now, at, side, ran, history>>

-----------------------------------------------------------------------------
(***************************************************************************)
(* People, the broker and the clock.                                       *)
(***************************************************************************)
Engage ==
    /\ killed' = TRUE
    /\ UNCHANGED <<minute, stored, report, orders, reducing, drift, pc, local, history>>

Release ==
    /\ killed' = FALSE
    /\ UNCHANGED <<minute, stored, report, orders, reducing, drift, pc, local, history>>

\* acknowledge(): a named person accepts the last failed reconciliation.
Acknowledge ==
    /\ report = "failed" /\ report' = "passed"
    /\ UNCHANGED <<minute, stored, orders, world, pc, local, history>>

\* An open order is filled, cancelled or expires; no sync has seen it yet.
OrderEnds ==
    /\ orders = "seen" /\ orders' = "unseen"
    /\ UNCHANGED <<minute, stored, report, world, pc, local, history>>

\* Positions move without us.
ForeignTrade ==
    /\ "drift" \in Faults
    /\ drift' = TRUE
    /\ UNCHANGED <<minute, stored, report, orders, reducing, killed, pc, local, sent, warned>>

Clock ==
    /\ minute < LastMinute /\ minute' = minute + 1
    /\ UNCHANGED <<stored, report, orders, world, pc, local, history>>

\* The next session: another cycle id.  No operation of the old one is running.
NewSession ==
    /\ minute = LastMinute /\ pc = "asleep"
    /\ minute' = 0
    /\ cycle' = "none" /\ status' = [s \in Steps |-> "none"]
    /\ blocked' = FALSE /\ increase' = FALSE /\ decision' = FALSE
    /\ sent' = {} /\ warned' = {}
    /\ UNCHANGED <<report, orders, world, pc, local>>

-----------------------------------------------------------------------------
Scheduler ==
    \/ Wake \/ NextStep \/ SkipStep \/ RecordStep \/ EndLoop \/ Finish
    \/ HealthCheck \/ ReadMarket \/ AssessRisk \/ RecordDecision \/ PreflightGate
    \/ BeginSubmission \/ PlanOrders \/ EndSide \/ FillMonitoring
    \/ Compare \/ RecordReport

Outside == Engage \/ Release \/ Acknowledge \/ OrderEnds \/ ForeignTrade \/ Clock \/ NewSession

Next == Scheduler \/ SendOrder \/ Crash \/ Outside

Spec == Init /\ [][Next]_vars

-----------------------------------------------------------------------------
(***************************************************************************)
(* Properties.                                                             *)
(***************************************************************************)
\* An order is transmitted only in a session whose steps up to the gate are
\* all done, over every crash and restart between them (_run_step).
OrdersNeedEveryStep ==
    sent # {} => \A i \in 1..6 : status[CycleSteps[i]] = "done"

\* What the decision or the gate saw against more risk - the kill switch, a
\* failed reconciliation - holds for the whole session, although the switch
\* may be released or the report acknowledged before the orders go out, and
\* although the process may be restarted in between: only what is stored
\* counts (_StoredRiskCheck, _filtered).
WarningsHold == "increase" \in sent => warned = {}

\* The outcome of a step is stored once, and so is that of the session: a
\* restarted process repeats no step that has one (FINISHED) and takes up no
\* session that is over (run_due), so a refused session is not tried again.
OutcomeStands ==
    /\ \A s \in Steps : status[s] # "none" => status'[s] = status[s] \/ minute' < minute
    /\ cycle \in {"completed", "refused"} => cycle' = cycle \/ minute' < minute
OutcomesAreFinal == [][OutcomeStands]_vars

\* A completed cycle has run all nine steps, and the latest reconciliation
\* report is one that passed, wherever the process died on the way (run_due).
CompletedMeansReconciled ==
    cycle = "completed" => /\ \A s \in Steps : status[s] = "done"
                           /\ report = "passed"

\* Where risk-reducing orders are not exempt, a switch the gate saw engaged
\* stops every order of the session.
SwitchStopsAll == ~reducing /\ "switch_at_gate" \in warned => sent = {}

\* A restarted process reuses the stored decision: without a fault of data,
\* broker or risk, the risk step does not fail (cycle.py:3-7).
DecisionIsReused == Faults \subseteq {"crash"} => status["risk"] # "failed"

\* Who wants orders stopped is obeyed: by way of a warning that decision or gate
\* saw, or by a switch that stops every order.
StopsAreObeyed == WarningsHold /\ SwitchStopsAll
==============================================================================
