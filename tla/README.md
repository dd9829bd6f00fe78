# Verification of the trading system

TLA+ modules that model the core of this repository, the TLC configurations that check them on
small instances, and theorems about them with proofs for TLAPS. Paths are relative to
`src/adaptive_quant/` unless they start with `docs/` or `config/`.

## 1. The system

| Component | State it keeps | Operations | What is hard | What makes it correct |
|---|---|---|---|---|
| Order manager `trading/orders/manager.py`, order tables `persistence/repositories.py` | intents with a lifecycle state, executions and events that are only appended | `execute`, `sync`, `recover` | a request or its answer is lost or late; death between two transactions; fills are reported cumulatively | no order sent twice; no exposure without an intent; no fill invented or lost; every intent ends |
| Broker adapters `trading/brokers/` | the broker's orders, positions, cash | submit, look up, list, cancel | the outcome of a submission may never be known | three kinds of answers: accepted, refused, unknown |
| Order planner `trading/orders/planner.py` | none: reads positions, open orders, intents | `plan` | its inputs are read one after another while orders fill | re-planning never orders more than the target asks for |
| Trading cycle `trading/scheduler/` | a cycle per session, a row per step, decision, target, report | nine steps, `run_due`, `tick` | crash and resume, gating, stale verdicts, the cutoff | orders need every step before them; the outcomes of steps and sessions are stored once |
| Safety `trading/safety/` | the kill switch and its audit trail | engage, release, pre-trade checks | two stores written one after another; reads that fail closed | an engaged switch, once seen, stops the session |
| Reconciliation `trading/reconciliation/` | reports, acknowledgements | `reconcile`, `acknowledge` | what is compared with what, and when | a completed session was reconciled |
| Jobs and uploads `persistence/control.py`, `worker/handlers.py`, `api/control.py` | jobs, logs, uploads | queue, claim, heartbeat, cancel, finish, retry, import, discard | worker death, cancel races, orphans, handlers of several transactions | nothing runs or is imported twice; what is queued ends |
| Runtime configuration and switches `persistence/control.py`, `services/runtime.py`, `api/control.py` | configuration row with a revision, automation switch, verification | mode, automation, strategies, settings | requests that read once or twice and save later | no save undoes another; no mode change starts trading |
| Worker and supervisor `worker/scheduler.py`, `worker/runner.py`, `persistence/locks.py` | scheduler, advisory lock, heartbeats | `startup`, `run_once`, `step`, `_start`, `_tick`, `stop` | overlapping deployments, a lock lost with its connection, switches read in turn | one scheduler; orders only with permission |
| Audit records `persistence/models.py`, `migrations/`, `repositories.py` | 40 tables, 25 of them append-only by trigger | migrate, revert, one transaction per record | schema, triggers and models are written three times by hand; a decision is a dozen rows | what was recorded stays explained |
| Risk engine and policy `quant/risk`, `quant/portfolio` | the drawdown band, the approved weights | `evaluate`, `exposure_to_weights` | caps, freeze and turnover undo each other; thresholds with hysteresis | the rules together keep every limit and let reductions pass |
| Ensemble `quant/ensemble/engine.py` | none | weights, clusters, caps, combination | zero weights, chains of correlated pairs, caps that push the rest over | copies share one weight, families are capped |
| Governance `governance/`, `services/strategies.py` | lifecycle, its events, the research ledger | promote, demote, validate | a lifecycle and its event are two writes; requests meet | a path of approved transitions the history tells of |
| Configuration `config/` | reviewed YAML, secrets, the runtime row on top | `load_config`, `apply_runtime` | the row outlives the YAML it was checked against | a limit is only tightened, live trading only reviewed |
| Backtest `quant/backtest` | cash, lots, pending orders | `run` | cents and shares over partial fills; what is known when | accounts add up, nothing is foreseen |
| Data store `quant/data/store.py`, `pipeline.py`, import directory | snapshots, manifests, archive | update, derive, read, import | processes without a lock, crashes between file and manifest | a reader gets what it cites |
| Data quality `quant/data/validation.py`, `freshness.py`, `calendar.py`, `corporate_actions.py` | none | validate, age, grid, adjust | holidays, short days, duplicate actions | what passes is complete, fresh and adjusted |
| Research `quant/research`, `governance/research.py` | trials registry and ledger, JSON lines | register, score, judge, split | runs that overlap, torn lines, partial folds | every trial counts, validated means passed |
| Strategies `quant/strategies`, `quant/indicators` | none: computed from bars | `signals`, `run_strategies` | live trading and backtest compute the same value in two ways | both agree |
| Notifications, HTTP API, CLI, dashboard, reports | - | - | parsing, I/O and layout | - |

How they interact. The API's handlers and the workers share only the database: the API writes jobs,
uploads, the configuration row and the automation switch; a worker claims jobs in one thread and
supervises a scheduler in another. A supervisor that is asked to run builds a scheduler for the mode
it reads, takes the advisory lock and calls `tick()`. The scheduler runs the cycle's steps that are
due; a step reads what steps before it stored, asks the broker, calls the planner and hands plans to
the order manager. Before every order the manager asks the supervisor's transmit guard, a callback
that reads configuration and switch again. The last step runs the manager's recovery and compares
broker and database. Operators act at any time: kill switch, acknowledgement, stop, mode, strategies.
The decision step computes signals from the stored bars, the ensemble's exposure from the signals, weights
from the exposure, and has the risk engine adjust them; research runs and backtests use the same strategies,
and what research validates is what governance lets an operator promote.

## 2. Modules

| Module | Models | State and actions |
|---|---|---|
| `OrderStates` | `state_machine.py` | the transition table, `CanTransition`, the groups of states |
| `OrderManager` | `manager.py`, `OrderRepository`, the broker, the network | intents, executions, the broker's order, the wire; `pc` is the point between two transactions or calls of an operation. One action per transaction and per broker call; the broker moves by itself; `Abandon` is a crash or a lost database |
| `OrderLedger` | a promise, no code | intended, exposed, closed; filled and counted |
| `OrderImplementation` | | the order manager implements the ledger (refinement mapping) |
| `OrderRecovery` | | the order manager under the fairness of its schedule |
| `OrderManagerProofs` | | theorems about `OrderManager` and the refinement of the ledger |
| `OrderPlanningProofs` | | theorems about `OrderPlanning` |
| `OrderPlanning` | `planner.py`, `_plan` and `_order_submission` of `cycle.py`, `next_sequence` | the submission step for one symbol, each read an action: positions, open orders, intents, plan, create, transmit, answer |
| `TradingCycle` | `cycle.py`, `schedule.py`, `runner.py`; gate, switch and reconciliation as the cycle sees them | rows of the cycle and of its steps with their payload flags. A handler is its reads, its own transaction (`RecordDecision`, `RecordReport`) and the one that stores the step (`RecordStep`) |
| `TradingCycleLiveness`, `TradingCycleProofs` | | fairness of the loop; theorems |
| `ControlJobs` | job and upload rows, the handlers of `api/control.py`, `Worker.run` and `execute`, `_data_import` | a handler is `look`, `insert`, `link`; a worker is at a checkpoint, a write or the end of a job |
| `ControlRecovery` | | fairness of the loops |
| `AutomationControl` | trading-mode, automation, strategy and settings handlers; `SchedulerSupervisor`, `make_transmit_guard`, `AdvisoryLock` | configuration and switch rows; a handler's reads and save are separate actions; a supervisor is at one of the reads of `step`, `_mode_mismatch`, `_start` or the guard |
| `AutomationControlProofs` | | theorems about `AutomationControl` |
| `AuditSchema` | the four migrations, `models.py` | no state: tables as migrations create and drop them, as the models declare them, and their triggers |
| `AuditTrail` | `repositories.py`, `migrate.py`, `explain.py`, the database | revision, tables, rows and references; `Migrate`, `Revert`, the transactions, of which `record_decision` is interruptible statement by statement, and anybody with a SQL prompt: `Delete`, `Rekey`, `Redirect`, `Truncate`, as far as keys and triggers let them |
| `KillSwitch` | `kill_switch.py`, `kill_switch_store.py` | row and log; a change is `AppendAudit`, then `Write`; `Break`, `Outage`, `LoseRow` are what the store does |
| `PreflightGate` | `preflight.py` and the checks beside it | extends the switch: six checks one after another over a world, while people move the switch |
| `RuntimeConfig` | `config/schema.py`, `loader.py`, `runtime.py`, `services/runtime.py`, `services/strategies.py`, the settings and strategy handlers, `governance/lifecycle.py` | YAML and runtime row; settings and mode in one transaction, a strategy request as draft (`WithParams` ...), `SaveOverrides`, `RecordEvent`; `Deploy` replaces the YAML |
| `RiskEngine` | `quant/risk/engine.py`, `quant/portfolio/policy.py` | book, equity, band; `Evaluate` applies the rules in their order, `NextClose` moves the equity |
| `Ensemble` | `quant/ensemble/engine.py` | `Cluster`, `Cap`, `Combine`: one action per stage; union-find as the root of every member after each pair, caps round by round |
| `DataStore` | `store.py`, `pipeline.py`, `history.py`, `services/data.py` | files, manifests, readers that cite, writers at each write, the import directory |
| `DataQuality` | `bars.py`, `validation.py`, `freshness.py`, `calendar.py`, `corporate_actions.py` | bars as a vendor delivers them and the clock; the checks are operators; `SessionsIncrease` and `QualityNumbers` say what a calendar and its settings are |
| `Backtest` | `engine.py`, `portfolio.py`, `execution.py` | `Fill`, early and late decisions, `Mark`, `NextSession` for four timings |
| `Research` | `pipeline.py`, `trials.py`, `scorecard.py`, `stats.py`, `walkforward.py`, `governance/research.py` | runs at each point between two writes, registry and ledger |
| `Signals` | `strategies/base.py`, `runner.py`, `view.py` and four strategies | bars arrive; live signals are told once, the backtest's recomputed |
| `Sums` | `sum()` over lists, running factors of adjustments | recursive functions, used by the backtest, the risk engine and the data checks |
| `RecordsProofs` | | theorems about the audit trail and its schema, the switch, the gate, the configuration, jobs and uploads |
| `LabProofs` | | theorems about data store and research |
| `BacktestProofs`, `RiskProofs` | | theorems about sums and products, the backtest, the signals and the checks of bars; about the risk engine, the policy and the ensemble |
| `MCTradingCycle`, `MCAutomationControl`, `MCRecords`, `MCLab` | | values, and the shape of instances, for TLC |

Composition. `OrderPlanning` and `TradingCycle` see less of an order than `OrderManager` does (open,
unknown or closed, and whether the broker shows it). `TradingCycle` assumes one scheduler and a guard
that may close at any order; `AutomationControl` says when both hold. History variables (`sent`, `late`, `raced`,
`warned`, `runs`, `copies`, `lost`, `moved`, `overtaken`, `stirred`, `limited`, `asked`, `seen` ...) are read by properties only,
never by a guard of an action. `PreflightGate` extends `KillSwitch`, so that people and components move the
switch between any two checks. `AuditTrail` uses the transition table of `OrderStates` against the trigger of
the schema. The modules of `MCRecords` and of `MCLab` share no state: they are one run because TLC's bounds are
one, not because they interact.

### Faithfulness

- A step is one transaction, one broker call or one decision made from what was read. Two statements
  of one transaction are one action; two transactions never are.
- Exceptions are followed to where they are caught: a refused transition ends `sync`, a database
  error ends a tick, an unreadable guard refuses the order, an unreadable configuration stops the
  scheduler, an unreadable switch ends a round of the supervisor.
- Prices, weights, bars and texts are abstracted: an outcome that depends on them is a free choice.
  Refusals for reasons a module does not keep (confirmation phrases, verification, data, heartbeats)
  are a free choice to refuse.
- In `AutomationControl` a strategy is in the set of those that may trade or not; `enabled` and
  `lifecycle` are not told apart. An edit of parameters is only accepted for a strategy that does not
  trade, so it saves the set as it was read. Retry and wake times only delay a round. The command
  `aq trade run` (`cli_trade.py`) takes the same lock without a guard and is left out.
- In `RiskEngine`, `Ensemble` and `Backtest` weights and money are integers with the rounding of the code where it
  rounds (cents, whole shares) and a named tolerance where it divides (`Dust`). `NotANumber` and `NaN` are values
  of their own that spread as in the code.
- Data of the world - bars, volatilities, evidence, answers of vendors - are chosen freely from small sets that
  reach both sides of each threshold.
- In `AuditTrail` a table holds one row of the cycle or none: what properties say of rows is about references and
  states. In `DataStore` a process may die between any two writes, and two processes may update at once.
- `LateArrivals` of `OrderManager` is an assumption about time: a request that the caller gave up on
  arrives before the recovery of the reconciliation step or never. With `TRUE`, `ClosedIsSettled` fails: recovery
  takes "no such order" for an answer. The runs use `FALSE`; the theorems hold for both, except
  `ClosedStaysSettled` and `LedgerIsKept`, which assume `FALSE`.

## 3. Runs

| Run | Question | Result |
|---|---|---|
| `orders` | transmissions, exposure, fills and stops under losses, delays and crashes | `NeverRetransmitted`, `NeverUnderReports`, `NoPhantomFills`, `ClosedIsSettled`, `StopTakesHold` hold |
| `orders_resolve` | does every intent end, and does the manager keep the ledger's promise | `EveryIntentIsResolved`, `ImplementsLedger` hold |
| `orders_adoption` | is every adopted state a legal move | violated, finding 1 |
| `cycle` | gating, verdicts, outcomes over sessions with faults | `OrdersNeedEveryStep`, `StopsAreObeyed`, `CompletedMeansReconciled`, `OutcomesAreFinal` hold |
| `cycle_progress` | does every due step get an outcome | `DueStepsAreRecorded` holds |
| `cycle_resume` | is the stored decision reused | violated, finding 2 |
| `jobs` | jobs and imports over requests, workers and cancellations | `NeverRerun`, `CopiesAreRaced`, `ImportsAreSound`, `OutcomesStand`, `QueuedJobsEnd` hold |
| `automation` | who trades, in which mode, with which strategies | `OneScheduler`, `OrdersArePermitted`, `ModeNeverStarts`, `SavesKeepOthers` hold |
| `automation_demotion` | does a demotion stand until somebody asks otherwise | violated, finding 3 |
| `records` | what is written down and read back: audit trail, kill switch and gate, configuration, re-planning | the properties of `MCRecords.cfg` hold |
| `lab` | what is computed and from what: risk, ensemble, data, backtest, research, strategies | the properties of `MCLab.cfg` hold |
| `ensemble_weights` | is the sum of the weights at most one | violated, finding 4 |

A property that is a conjunction names its parts, each with a comment of its own in the module:

| Property | Parts |
|---|---|
| `StopsAreObeyed` (`TradingCycle`) | a warning that decision or gate saw holds all session; a switch that stops everything does |
| `ImportsAreSound` (`ControlJobs`) | a file is imported once at most; a queued import finds its file queued |
| `SchemaStands` (`AuditTrail`) | up and down are open at every revision; at head the schema is the models'; the trigger lets every legal order move through |
| `TrailIsSound` (`AuditTrail`) | references are satisfied; a stored decision has all its rows but truncated ones |
| `SwitchHolds` (`KillSwitch`) | the row has its record; an engagement holds; at rest the log ends in the state |
| `GateErrsToSafety` (`PreflightGate`) | what cannot be known refuses; what speaks against more risk alone never stops a reduction |
| `ConfigHolds` (`RuntimeConfig`) | limits are only tightened; live is reviewed; accepted saves work; events tell the lifecycle |
| `ReplanningIsSafe` (`OrderPlanning`) | types; no overshoot but by raced lots; identifiers are fresh |
| `RulesWorkTogether` (`RiskEngine`) | the closing verification never refuses; frozen adds no risk; reductions pass; the policy realises the exposure |
| `WeightsAreShared` (`Ensemble`) | clusters are the connected ones and weigh as one; families are capped |
| `StoreIsSound`, `NothingIsLost` (`DataStore`) | what is served is valid, has its raw series, is complete and is what is cited; history and replaced uploads are kept |
| `BarsAreJudged` (`DataQuality`) | valid means consecutive; tradable reaches now; fresh misses little; intraday bars tile the session; adjusted returns are the owner's |
| `AccountsAddUp`, `NothingIsForeseen` (`Backtest`) | cash, lots, trips and fees agree and no affordable order raises; data precede fills, holdings are asked for, a daily loss is of one session |
| `EvidenceCounts`, `SamplesAreSound` (`Research`) | every trial deflates, validated means passed, on defined statistics with out-of-sample sessions, none synthetic where real data are asked for; test rows are unseen, the step-up correction is its definition |
| `StrategiesAgree` (`Signals`) | backtest and live agree; crosses are changes of side; refusals are owed |

Beside them `ExplanationsStand` (no INSERT, UPDATE or DELETE takes a row out of what explains a recorded cycle, but
for the configuration when the cycle is made to name another), `PromotedParamsHold`
(parameters of a promoted strategy change with a deployment only) and `BandsHold` (a band is left only past the
hysteresis) are about steps. Type invariants are proved, not run, for the modules with proofs (section 5).

### Bounds

- Orders: two orders of two lots and one process. Two lots tell partial from complete fills and one
  cumulative report from the next; two orders are a plan that can be cut between them and a sync whose
  loop ends early. The safety run also starts with a broker that has an order the database lacks.
- `records` and `lab` choose a `part` at the start; it alone moves, so that states add up instead of multiplying,
  and a part may end (`CHECK_DEADLOCK FALSE`).
- Audit trail (`records`): the tables of a decision and of what refers to it, and one of each other kind; in one part
  anything but TRUNCATE at every revision, in another one TRUNCATE at head among fewer tables. Switch:
  two people and a component, three changes: two calls that meet, and one after them. Gate: one change at a
  time beside it, worlds with one thing wrong besides risk and reconciliation. Configuration: two requests
  with one YAML, one with deployments, and settings with deployments; seven files: tighter, looser, live, other
  strategies (five of them with a request); two values per limit beyond the reviewed one.
- Risk (`lab`): weights in quarters and three instruments, of three signs and two sizes of leverage; twelve exposures
  around dead band, bands and limits; three sets of limits (one, and two
  exposures, where the equity moves); any book up to a quarter over the equity.
- Ensemble: four members. Every set of correlated pairs, every assignment of
  three families.
- Data store: two snapshots and four answers; two writers, or one that crashes, or a reader beside a
  writer and a failing disk. Quality: three sessions, one short, a holiday between; up to three bars, one of them
  with unsound values.
- Backtest: two symbols, prices that do not divide, three sessions, every timing, delays 0 and 1: an order that is
  still pending at the next decision; unknown volume is rejected only without a delay. Research: one run after
  another over two data sets, or two that overlap on one; registries of two entries; windows up to 16 rows.
  Strategies: six bars over three levels (five with a second symbol, four for the other actions): a warm-up of
  three, a cross, equality and a cross back.
- Planning (`records`): one symbol (symbols only share buying power, a free choice to order less), targets and
  positions up to three lots, orders of at most two lots, two orders of a side: enough for a plan cut
  by the order cap, partly filled and planned again.
- Cycle: five instants. The gaps of the schedule in `config/base.yaml` are shrunk; the first five steps
  stay due together and cutoff, fill monitoring and reconciliation keep their order. Sessions follow
  each other without a bound.
- Jobs: two handlers, two workers, two jobs and one upload: two handlers in the duplicate check, a
  worker taken for dead beside its successor, and an import
  beside another job, or a job beside its retry. `Spare` keeps handlers from starting when no job id is left.
- Automation: either two requests about two strategies with one worker, or one request at a time
  about one strategy with two workers, fixed for a behaviour. What two requests do to each other
  passes through the rows and needs one supervisor to matter; what two supervisors do to each other
  passes through the lock. The theorems have no such bound.

`CHECK_DEADLOCK FALSE` is said where a system may stop: a part that ends (a planning whose sequences are used up,
a backtest at its horizon), and jobs whose ids are used up.

### Fairness

- `OrderRecovery`: every session ends with a reconciliation step that calls `recover()` (strong
  fairness, as its start waits for an idle process and an empty wire), an operation that has begun
  goes on, a request is handled or lost, DAY orders expire. Crashes and failed lookups stop when `steady` is set.
- `TradingCycleLiveness`: `tick()` runs at least every five minutes and the platform restarts a process
  that died. The clock is not fair: a step must get its outcome once it is due and time does not move back.
- `ControlRecovery`: a worker that is down is started, handlers and worker loops go on; nothing makes
  an operator act or a heartbeat old. After `steady` no process dies and the database answers.

Before `steady` anything may have happened, so the liveness properties are about recovery from any
reachable state.

## 4. Findings

1. `AdoptionIsLegal`: `trading/brokers/alpaca.py:57-62` maps pending_cancel, done_for_day and others to
   ACKNOWLEDGED whatever is filled; PARTIALLY_FILLED to ACKNOWLEDGED is not a legal move, so adoption
   raises and `sync()` leaves the other working orders unsynced.
2. `DecisionIsReused`: a crash between the decision's transaction and the risk step's makes the resumed step
   fail on the decision's primary key, which ends trading for the session.
3. `DemotionsStand`: a strategy request makes the overrides of all strategies from one read and names the
   revision of a second one (`api/control.py:757`). A demotion saved between them is undone.
4. `WeightsSumToOne`: fixed weights may be zero for a whole cluster of correlated strategies; its share is then 0/0
   (`quant/ensemble/engine.py:114`), and the normalisation makes every weight undefined.

Seen while modelling, without a run:

- Positions and open orders are two calls (`trading/scheduler/cycle.py:534`); lots that fill in between are ordered
  again when the step is resumed after a crash, while `trading/orders/planner.py:7` says exposure is never
  duplicated. `OvershootIsRaced` bounds the excess by exactly those lots.
- Orphaned jobs are looked for at start-up only and only with a heartbeat older than ten minutes
  (`worker/runner.py:75`): a worker restarted sooner leaves the job running for ever.
- A crash between storing the reconciliation step and finishing the cycle leaves the cycle "running":
  later runs skip the stored step and never finish it (`trading/scheduler/cycle.py:168`, `docs/PAPER_TRADING.md:158`).
- One order per process may leave after a stop, a mode switch or a demotion, as the guard is read before
  the transmission; `worker/scheduler.py:22` says "even mid-step". `StopTakesHold` and
  `OrdersArePermitted` state the bound.
- A start request is stored with the mode it read first. Stored after a handler has looked at the switch,
  it can meet the mode that handler saves, without the checklist having been made for it;
  `ModeNeverStarts` excuses exactly that.
- The cutoff is read once, when submission begins; orders of a slow submission go out after it.
- The kill switch is read by the gate and not again before orders leave.
- After a database restore, an intent in CREATED whose order the broker has makes `recover()` raise each time.
- `docs/SAFETY.md:111` has a failed reconciliation block all orders; the check is scoped to risk-increasing ones,
  as `docs/PAPER_TRADING.md:113` says.
- Positions that moved before the health check are the new start-of-cycle positions and in no report.
- The last `set_upload_status` of `upload_import` writes "queued" whatever a faster worker stored. A
  cancelled import job, or an API that dies after marking the upload, also leaves it "queued" for ever.
- A cancellation seen at the last checkpoint marks job and upload as not done although the data were merged.
- A database that is away at the beginning or the end of a job leaves the job running with an idle worker.
- The lifecycle of a strategy and the event that records it are two transactions.
- A scheduler that loses the connection of its lock goes on; another can start beside it (`lost`).
- Two processes that update one series read, change and write its manifest without a lock: an entry can be lost
  (`quant/data/store.py:106-137`). A file that was damaged is not repaired by downloading the same bars again
  (`store.py:166-168`).
- Two imports within one second overwrite each other's archived file, and one that dies between its two moves leaves
  the file in the archive only (`services/data.py:620-629`). A backtest reads bars and their provenance one after the other
  (`quant/backtest/data.py:58-60`).
- The freshness check lets "the session just opened" pass without a bar of it (`quant/data/freshness.py:84-88`).
- At the closing auction the daily loss spans two sessions (`quant/backtest/engine.py:468`, `docs/RISK_MANAGEMENT.md:103`).
  A sell whose commission exceeds its proceeds and the cash raises.
- Synthetic sessions can validate a strategy: `real_data` counts those out of sample only
  (`quant/research/scorecard.py:128-136`), while the deflated Sharpe ratio, the overfit probability and the robustness are
  computed from all sessions of the grid's backtests; `quant/research/pipeline.py:199-202` notes that "no strategy can be
  validated on evidence that includes them", and `docs/RESEARCH.md:17` says that such a run "cannot validate". With
  `real_data_only: false` (`config/schema.py:593`) not even the out-of-sample ones are refused. `ValidationIsEvidence`
  states what the gates do ask for.
- A trial recorded behind a torn line is lost with it (`quant/research/trials.py:288-290`); the run counts it, runs after
  the repair do not. `DeflationCountsAll` is about the trials that are in the registry and the run's own.
- When the vendor has no corporate actions to give, the note says "adjusted series not derived"
  (`quant/data/pipeline.py:173`); they are derived, as if there were none (`pipeline.py:136`).
- "Every decision is reproducible from stored rows" (`docs/DATABASE.md:6`) and "Triggers reject UPDATE and DELETE on
  every audit table" (`docs/DATABASE.md:118`) hold less widely than they read. The triggers are row triggers
  (`migrations/versions/0001_initial_audit_schema.py:783-792`): TRUNCATE empties an audit table with all that refers to
  it. A cycle is guarded against DELETE only: an UPDATE can make it name another configuration, or give another key to a
  cycle nothing refers to yet. `ExplanationsStand` excepts exactly these. It is about rows and references: what the
  unguarded rows among them say (strategy versions, data snapshots, the other columns of a cycle) can be updated, and
  statements about the schema (dropping a table or a trigger) are not modelled.
- One torn line in a research file stops all research until somebody repairs it. The governance ledger stays VALIDATED
  when the YAML says PAPER. `record_research_runs` never names a data snapshot.
- While frozen, a cap that cuts an inverse position can raise net exposure; `FrozenHoldsRisk` excuses exactly that.
- After a deployment with a tighter limit the old overlay is refused, and with it the whole configuration, until it is
  reset (`config/runtime.py`); an override of a lifecycle masks a later demotion in the YAML.
- A request about parameters that began before a promotion saves what it read then; `PromotedParamsHold` excuses it.
- The trigger on order intents allows more than the state machine does: it refuses no legal move (`MachineFitsTrigger`).
- A Bollinger band without width makes the whole batch of signals fail. The confirming symbol's last bar may be old
  (`quant/strategies/base.py:288-297`).

## 5. Proofs

Constants are arbitrary; each theorem uses the named assumptions of its module and nothing else.

| Theorem | States, for every value of the constants | Argument |
|---|---|---|
| `OrderManagerProofs!TypeCorrect` | `[]TypeOK` | with `ControlOK` (what `pc` implies of the registers) and `BrokerOK` |
| `TransmittedOnce`, `IntentCoversBroker` | `[]NeverRetransmitted`, `[]NeverUnderReports`, any number of processes, `Prior`, `LateArrivals` | `SendInv`: one process owns an order between creating its intent and sending it, and its `SUBMITTED` is stored before it is on the wire |
| `FillsAreReal` | `[]NoPhantomFills` if there is one process | `FillInv`: what a process holds of the broker was true of the order in its hand, and what it is about to insert brings the total up to exactly that |
| `StopsHold` | `[]StopTakesHold`, any finite set of processes | `StopInv`: late transmissions and processes that are past the guard add up to at most the processes; while the guard is closed none gets past it |
| `ClosedStaysSettled` | `[]ClosedIsSettled` if there is one process and no `LateArrivals` | `SettleInv`: the orders an operation still has to handle are as it listed them; nothing is on the wire during recovery; an order to be cancelled or rejected is nowhere, and an answer that says an order is over is the last there will be of it |
| `LedgerIsKept` | `ImplementsLedger` (refinement) if, in addition, `Prior` is empty | `ManagerKeepsLedger`: an intent's moves take its phase forward, it closes only settled (`SettleInv`), what can fill is exposed (`SendInv`), what is recorded was filled (`FillInv`); every other step is a stutter |
| `OrderPlanningProofs!NumbersAreFresh` | `[]PlannedIdsAreFresh`, a part of `ReplanningIsSafe` | the intents of a side are numbered without a gap, so their count is a free number |
| `NothingIsOrderedTwice` | `[]ReplanningIsSafe`, any targets, order cap and number of orders | `PlanInv`: all that is held, open, planned or in flight on the buying side is at most the target plus the lots raced so far, on the selling side at least the target less them; what an intent still asks for is a sum over a function, changed at one place by each step |
| `TradingCycleProofs!TypeCorrect` | `[]TypeOK`, every schedule and fault set | `ControlOK`: inside a step the process is at a step without an outcome |
| `OrdersWaitForEveryStep`, `WarningsStand`, `SwitchStops`, `CompletedIsReconciled` | the invariants of the run `cycle` | `OrdersInv`, `WarningsInv`, `SwitchInv`, `PassedInv`: what was read is kept in the draft of a step, then in its stored payload, at each point at which the process may die |
| `StopsStand` | `[]StopsAreObeyed` | the two theorems on warnings and switch |
| `OutcomesStay` | `OutcomesAreFinal`, of steps and of the session, if the session day has more than one instant | an outcome is stored only for the step at hand, which has none (`ControlOK`), and for a cycle that is running, as the one a process works on is (`RunningOK`) |
| `RecordsProofs!JobsTypeCorrect` | `[]TypeOK` | with `ClaimOK`: a worker's job was claimed, by that worker alone, and a job that is queued was never claimed |
| `ClaimedOnce`, `FinishedJobsStay` | `[]NeverRerun`, `OutcomesStand` | `ClaimOK` |
| `ImportedOnce`, `ImportsFindTheirUpload` | `[]ImportedAtMostOnce`, `[]QueuedImportIsImportable` | `ImportInv`: an upload has no handler and no job until its import is asked for, then one handler, which queues one job, which one worker may run |
| `CopiesNeedARace` | `[]CopiesAreRaced`, any number of handlers and jobs | `SeenInv` and `CopyInv`: an active job with the payload a handler is about to insert was queued after its look, and jobs are queued in order |
| `ImportsStand` | `[]ImportsAreSound` | the two theorems on imports |
| `AutomationControlProofs!TypeCorrect` | `[]TypeOK` | by itself |
| `SchedulersAreAlone` | `[]OneScheduler`, any number of workers | `LockInv`: a running scheduler owns the lock as long as none was lost |
| `OrdersStayPermitted` | `[]OrdersArePermitted` | `GuardInv`: what each read of the guard has seen still holds, or the guard was stirred |
| `ModeStartsNothing` | `ModeNeverStarts`, any number of requests | `SwitchInv`: from a handler's look at the switch to its save automation is stopped, or the handler was moved |
| `SavesKeep` | `SavesKeepOthers` | `DraftInv`: the draft of a request that is not stale is what it makes of the current set, unless it was overtaken |
| `RecordsProofs!TrailHolds` | `[]TrailIsSound`, any set of tables in use | `TrailInv`: the rows of a table refer to tables that exist at this revision; an open transaction has written the rows before its statement and none after |
| `SchemaHolds` | `[]SchemaStands`, any set of tables in use | `SchemaInv`: tables and triggers are those of the migrations up to the revision, whichever way it was reached. A migration drops the names it created and no others; each part of an upgrade finds what it refers to in the parts before it (`ConcatenatedCreatable`), each table is dropped before those it refers to (`GoesFirst`) |
| `ExplanationsStay` | `ExplanationsStand` | a DELETE or a new key of such a row meets a trigger or a reference (`GoneSpares`), a new reference of a cycle loses its configuration at most (`RedirectSpares`); the tables are those of the migrations, compared as finite sets |
| `SwitchIsExplained`, `EngagementStands`, `LogIsCurrent`, `SwitchTypes`, `SwitchStands` | `[]SwitchHolds` and its parts, any number of people and components | `SwitchInv`: a call between its two writes has its record at the entry it holds; without a release under way neither row nor call says released; a calm log has one call at a time |
| `GateRefuses`, `ExitStays`, `GateIsSafe` | `[]GateErrsToSafety`, any set of symbols (not empty, for the exit) | `GateInv`: the results so far are those of the checks on this world; only the first depends on when it was taken |
| `ConfigTypes` | `[]ConfigTypeOK` | with `RequestInv` and `EventInv` |
| `LimitsHold`, `LiveStaysReviewed`, `SavesWork`, `HistoryTells`, `ConfigStands` | `[]ConfigHolds` and its parts, any set of reviewed files and clients | `ConfigInv`: the row works until the next deployment, and the event about to be written, or the last one written, is of the lifecycle in force |
| `PromotedParamsStay` | `PromotedParamsHold` | `DraftInv`: unless requests met, a draft differs from the row in its own field only, and new parameters are for a strategy still in research |
| `LabProofs!ReadersGetTheRecord`, `NothingStoredIsLost` | `[]StoreIsSound`, `NothingIsLost`, any writers, answers, uploads and length of a manifest | `StoreInv`: as long as updates did not meet, the one that works saves the manifest it still finds; whatever is recorded as valid is, also where it waits to be recorded; raw is written before what is derived from it |
| `ValidationHolds` | `[]EvidenceCounts`, any runs, grids and data sets | `ResearchInv`: a run's count is of trials in the registry or about to be appended to it; what is about to be written as validated passed its gates with that count |
| `SamplesHold` | `[]SamplesAreSound`, any lengths of a walk-forward; corrections of up to three p-values | the sample never changes; arithmetic of windows; every order of the ranks |
| `BacktestProofs!NothingForeseen` | `[]NothingIsForeseen`, any symbols, prices, targets, timings, delays and number of sessions | `BackInv`: every pending order's data, decision and fill are in order, and projected holdings are a sum that a fill moves between its two terms |
| `LedgersBalance`, `NoLookAhead` | `[](LedgerBalances /\ TripsAddUp)` and `[](raised # "look-ahead")`, with no assumption on prices | a sale, lot by lot, moves cost and fees from lots to trips and hands all of its proceeds out (`SaleIsWhole`, by induction on the lots) |
| `AccountsHold` | `[]AccountsAddUp` under `SalesPay` | `Solvent`: cash never goes negative. A buy pays what `Affordable` finds; a sale must bring its commission, which is what `SalesPay` says of the prices. Without it the check does fire (section 4) |
| `StrategiesTellTheSame` | `[]StrategiesAgree`, any bars, windows and accepted parameters | `SignalInv`: the last batch is what would be computed today on the bars visible then; indicators look at no later bar; the side in force is the last side taken (by induction on the history) |
| `JudgedTruly` | `[]BarsAreJudged`, any calendar of increasing sessions that stay within their days, any bar length, tolerances, bars and lists of actions | the bars and clock that arrive are any (`QualityInv` is types only): what is proved is that the checks, as the code computes them, say what the property says. A time lies between the ends of its day, so sessions are ordered as their indices and `ClosedBy` counts a prefix of them; a series without errors has no least gap; a bar ends by whole steps of its session; the factor of each action keeps the equation of two products that an owner's return is (by induction over the actions) |
| `RiskProofs!RulesHold` | `[]RulesWorkTogether`, any instruments, limits that load, books, exposures and volatilities, if `Reach <= Eps` | each rule returns weights, lowers them or leaves them, and keeps what the rules before it have seen to (`Within`, the net caps and, for a freeze, a bound on net exposure that every later rule keeps). A loop over instruments is read off a set of states that no step leaves, the twenty rounds of turnover and caps likewise. The policy: one case for each mode and side |
| `WeightsStay` | `[]WeightsAreShared`, any members, weights, correlations, families and cap | `EnsembleInv`: the weights are what the input gives. Union-find: pairs so far have one root, and what has one root no set closed under the pairs tells apart. Caps: `CappedSoFar`, after n rounds n families have been cut and stay at the cap, or all are within it; sums by family and by member agree |
| `BandsStand` | `BandsHold`, any limits that load | `RiskInv`: the stored band is one of the limits' bands; thresholds increase, so the deepest band reached is well defined |

The invariants the properties are drawn from are not inductive: `OneScheduler`, for example, says
nothing of who owns the lock, and `NeverRetransmitted` nothing of two processes about to send. Each
strengthening was first checked by TLC.

Sums and sales over sequences of any length are recursive functions here, not folds. The lemmas on them
(`RecursionExists`, `SumOfChange`, `SumOfRemoval`, `SaleIsWhole` ...) are proved from the least
counterexample, as the library's induction theorems cannot be instantiated.

`SessionsIncrease` says of a calendar what `TradingCalendar` refuses to be built without, and that a session
opens and closes on its own date in New York, which the exchange schedule it is built from gives
(`quant/data/calendar.py:44-60`).

Every invariant, every action property and the refinement that a passing run checks is stated by a theorem above.
Only model-checked is liveness, which rests on fairness and `ENABLED`, out of the prover's reach:
`EveryIntentIsResolved`, `DueStepsAreRecorded`, `QueuedJobsEnd`. So are the four runs that end in a violation.

`WeightsStay` assumes of the model's own precision that a weight is worth dividing (`One >= Count`) and that `Dust`
covers what at most `Count + 1` divisions lose for each member (`WeightsAreFine`).

`Reach` is what one weight of every instrument carries together (7 for QQQ, TQQQ and SQQQ), `Eps` what
`_verify` grants. The engine grants 10 weights of 1e-6 (`quant/risk/engine.py:372`), so the assumption holds of the
deployed instruments; with instruments of more leverage in all it would not, and a cut could be refused for its
rounding. The runs check a stricter case, `Eps = 0` on weights whose cuts are exact.

With two processes in an order manager `NoPhantomFills` fails: reading the totals and recording are two
transactions. The theorem assumes what `SchedulersAreAlone` gives.

## 6. Plan

Done, in this order: order manager, planning, trading cycle, jobs and uploads, automation control, each with its
runs before its proofs; then audit trail, kill switch and gate, runtime configuration and lifecycle with their
proofs; then risk, ensemble, data store and quality, backtest, research and strategies.

Left, most important first:

1. Supervisor liveness: a stop is obeyed, a requested and ready automation comes to run.
2. The cycle with the gate of `PreflightGate` in place of a flag, and the runtime row of `RuntimeConfig` under
   `AutomationControl`.
3. The shadow book (`quant/ensemble/shadow.py`) and the volatility estimates of the risk engine.

## 7. Not modelled

Left out of components that are modelled: of the strategies, the crossover's option of exponential averages and the
part of `regime_transition` that asks for volatility (`Signals`); of the planner, that every
plan turns the stored target weights into shares with the account and the quotes of its moment
(`trading/scheduler/cycle.py:529-534`): `OrderPlanning` fixes the shares for a session. `cycle_progress` lets
processes and data fail, not the broker; the safety run `cycle` lets all of them fail.

Statistics, performance and risk estimates, reports and the scores of the remaining strategies are functions of
real-valued series: inputs here. Parsing, authentication, rate limits, the HTTP layer and the command line, the
dashboard, logs and notifications are I/O and layout around the services that are modelled; providers and
Parquet files are taken by what they answer. Of the configuration's fields four stand for their kinds (a limit with a lower
and one with a higher safe side, a plain setting, the mode). Shadow mode of the order manager only records
orders. Time is kept as far as order and staleness need it: minutes of a session, a heartbeat that is
old or not; retry delays are not.
