---------------------------- MODULE AuditSchema ----------------------------
(***************************************************************************)
(* The audit database's tables, twice as the code has them: as the         *)
(* migrations create and drop them (persistence/migrations/versions) and   *)
(* as the models declare them (persistence/models.py).  A table is its     *)
(* name, the tables its rows must refer to, and the tables they may refer  *)
(* to; columns, types and indexes are left out.                            *)
(***************************************************************************)
EXTENDS Naturals, Sequences, FiniteSets, SequencesExt

Table(t, must)         == [name |-> t, must |-> must, may |-> {}]
TableOpt(t, must, may) == [name |-> t, must |-> must, may |-> may]

-----------------------------------------------------------------------------
(* Revision 0001, in the order of its upgrade(). *)

ReferenceTables ==
    << Table("config_versions", {}), Table("corporate_actions", {}),
       Table("daily_performance", {}), Table("data_snapshots", {}), Table("instruments", {}) >>

ChannelTables ==
    << Table("kill_switch_events", {}), Table("notifications_sent", {}),
       Table("strategy_versions", {}), Table("system_events", {}) >>

EvidenceTables ==
    << Table("data_quality_reports", {"data_snapshots"}),
       TableOpt("research_runs", {}, {"data_snapshots", "strategy_versions"}),
       Table("strategy_lifecycle_events", {"strategy_versions"}) >>

CycleTables ==
    << Table("trading_cycles", {"config_versions"}),
       Table("account_snapshots", {"trading_cycles"}),
       Table("ensemble_decisions", {"trading_cycles"}),
       TableOpt("errors", {}, {"trading_cycles"}),
       TableOpt("indicator_snapshots", {"trading_cycles"}, {"data_snapshots"}) >>

ReportTables ==
    << Table("portfolio_proposals", {"trading_cycles"}),
       Table("position_snapshots", {"trading_cycles"}),
       Table("preflight_reports", {"trading_cycles"}),
       Table("reconciliation_reports", {"trading_cycles"}),
       Table("strategy_signals", {"trading_cycles", "strategy_versions"}) >>

DecisionTables ==
    << Table("risk_decisions", {"trading_cycles", "portfolio_proposals"}),
       Table("order_intents", {"trading_cycles", "risk_decisions"}),
       Table("shadow_orders", {"trading_cycles", "risk_decisions"}),
       Table("target_portfolios", {"config_versions", "risk_decisions"}) >>

OrderTables ==
    << Table("executions", {"order_intents"}), Table("order_events", {"order_intents"}) >>

(* Revisions 0002 to 0004. *)

StepTables   == << Table("cycle_steps", {"trading_cycles"}) >>

SwitchTables == << Table("kill_switch_state", {}) >>

ControlTables ==
    << Table("control_events", {}), Table("control_jobs", {}), Table("control_state", {}),
       Table("data_uploads", {}), Table("dataset_inventory", {}) >>

WorkerTables ==
    << Table("runtime_config", {}), Table("runtime_config_changes", {}),
       Table("worker_heartbeats", {}), Table("backtest_runs", {"control_jobs"}),
       Table("control_job_logs", {"control_jobs"}) >>

Revisions == 1..4

Upgrade ==
    << ReferenceTables \o ChannelTables \o EvidenceTables \o CycleTables \o ReportTables
          \o DecisionTables \o OrderTables,
       StepTables, SwitchTables, ControlTables \o WorkerTables >>

\* What downgrade() drops, in its order.
AuditDrops ==
    << "order_events", "executions", "target_portfolios", "shadow_orders", "order_intents",
       "risk_decisions", "strategy_signals", "reconciliation_reports", "preflight_reports",
       "position_snapshots", "portfolio_proposals", "indicator_snapshots", "errors",
       "ensemble_decisions", "account_snapshots", "trading_cycles", "strategy_lifecycle_events",
       "research_runs", "data_quality_reports", "system_events", "strategy_versions",
       "notifications_sent", "kill_switch_events", "instruments", "data_snapshots",
       "daily_performance", "corporate_actions", "config_versions" >>

\* Mutant: jobs are dropped before what refers to them.
ControlDrops_jobsFirst ==
    << "control_jobs", "control_job_logs", "backtest_runs", "worker_heartbeats",
       "runtime_config_changes", "runtime_config", "dataset_inventory", "data_uploads",
       "control_state", "control_events" >>

ControlDrops ==
    << "control_job_logs", "backtest_runs", "worker_heartbeats", "runtime_config_changes",
       "runtime_config", "dataset_inventory", "data_uploads", "control_state", "control_jobs",
       "control_events" >>

Downgrade == << AuditDrops, << "cycle_steps" >>, << "kill_switch_state" >>, ControlDrops >>

\* Mutant: the trigger is forgotten on what tells of an order.
AuditGuards_noOrders ==
    {"config_versions", "strategy_lifecycle_events", "research_runs", "data_quality_reports",
     "preflight_reports", "indicator_snapshots", "strategy_signals", "ensemble_decisions",
     "portfolio_proposals", "risk_decisions", "target_portfolios",
     "position_snapshots", "account_snapshots", "reconciliation_reports", "shadow_orders",
     "system_events", "errors", "kill_switch_events", "notifications_sent"}

\* Tables each revision gives the trigger that refuses UPDATE and DELETE.
AuditGuards ==
    {"config_versions", "strategy_lifecycle_events", "research_runs", "data_quality_reports",
     "preflight_reports", "indicator_snapshots", "strategy_signals", "ensemble_decisions",
     "portfolio_proposals", "risk_decisions", "target_portfolios", "order_events", "executions",
     "position_snapshots", "account_snapshots", "reconciliation_reports", "shadow_orders",
     "system_events", "errors", "kill_switch_events", "notifications_sent"}

Guards ==
    << AuditGuards, {"cycle_steps"}, {},
       {"control_job_logs", "runtime_config_changes", "control_events"} >>

\* Tables whose rows may change but never go.
NoDelete == {"order_intents", "trading_cycles"}

-----------------------------------------------------------------------------
(* The models. *)

ReferenceModels ==
    { Table("config_versions", {}), Table("instruments", {}), Table("strategy_versions", {}),
      Table("strategy_lifecycle_events", {"strategy_versions"}),
      TableOpt("research_runs", {}, {"strategy_versions", "data_snapshots"}) }

DataModels ==
    { Table("data_snapshots", {}), Table("data_quality_reports", {"data_snapshots"}),
      Table("corporate_actions", {}) }

\* _cycle_fk: a row of the decision trail names its cycle.
OfCycle(t, more) == Table(t, {"trading_cycles"} \cup more)

DecisionModels ==
    { Table("trading_cycles", {"config_versions"}), OfCycle("preflight_reports", {}),
      TableOpt("indicator_snapshots", {"trading_cycles"}, {"data_snapshots"}),
      OfCycle("strategy_signals", {"strategy_versions"}), OfCycle("ensemble_decisions", {}),
      OfCycle("portfolio_proposals", {}), OfCycle("risk_decisions", {"portfolio_proposals"}),
      Table("target_portfolios", {"risk_decisions", "config_versions"}) }

ExecutionModels ==
    { OfCycle("order_intents", {"risk_decisions"}), Table("order_events", {"order_intents"}),
      Table("executions", {"order_intents"}), OfCycle("position_snapshots", {}),
      OfCycle("account_snapshots", {}), OfCycle("reconciliation_reports", {}),
      OfCycle("shadow_orders", {"risk_decisions"}) }

MonitoringModels ==
    { Table("daily_performance", {}), Table("system_events", {}),
      TableOpt("errors", {}, {"trading_cycles"}), Table("kill_switch_events", {}),
      Table("kill_switch_state", {}), Table("notifications_sent", {}), OfCycle("cycle_steps", {}) }

ControlModels ==
    { Table("control_jobs", {}), Table("control_job_logs", {"control_jobs"}),
      Table("data_uploads", {}), Table("dataset_inventory", {}),
      Table("backtest_runs", {"control_jobs"}), Table("runtime_config", {}),
      Table("runtime_config_changes", {}), Table("control_state", {}),
      Table("control_events", {}), Table("worker_heartbeats", {}) }

Models == ReferenceModels \cup DataModels \cup DecisionModels \cup ExecutionModels
             \cup MonitoringModels \cup ControlModels

AppendOnly ==
    {"config_versions", "strategy_lifecycle_events", "research_runs", "data_quality_reports",
     "preflight_reports", "indicator_snapshots", "strategy_signals", "ensemble_decisions",
     "portfolio_proposals", "risk_decisions", "target_portfolios", "order_events", "executions",
     "position_snapshots", "account_snapshots", "reconciliation_reports", "shadow_orders",
     "system_events", "errors", "kill_switch_events", "notifications_sent", "cycle_steps",
     "control_job_logs", "runtime_config_changes", "control_events"}

-----------------------------------------------------------------------------
(* What the database makes of a migration. *)

Names(tables) == {x.name : x \in tables}

\* The tables one refers to must exist when it is created ...
Creatable(tables, creates) ==
    \A i \in DOMAIN creates :
        /\ creates[i].name \notin Names(tables)
        /\ creates[i].must \cup creates[i].may
              \subseteq Names(tables) \cup {creates[j].name : j \in 1..(i - 1)}

\* ... and none may refer to it when it is dropped.
Droppable(tables, drops) ==
    \A i \in DOMAIN drops :
        \A x \in tables :
            /\ drops[i] \in Names(tables)
            /\ drops[i] \in x.must \cup x.may => \E j \in 1..(i - 1) : drops[j] = x.name
=============================================================================
