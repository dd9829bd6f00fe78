------------------------------ MODULE MCRecords ------------------------------
(***************************************************************************)
(* Values for checking the audit trail, the kill switch and its gate, the  *)
(* runtime configuration and the planner, one run for all of them: `part'  *)
(* says which one moves, the others stay at one initial state, so that     *)
(* their states add up instead of multiplying.                             *)
(***************************************************************************)
EXTENDS AuditTrail, PreflightGate, RuntimeConfig, OrderPlanning, TLC

VARIABLE part

\* The tables of a decision and of what refers to it; the others are as these.
MCUsed ==
    {"config_versions", "data_snapshots", "strategy_versions", "trading_cycles",
     "indicator_snapshots", "strategy_signals", "ensemble_decisions", "portfolio_proposals",
     "risk_decisions", "target_portfolios", "order_intents", "order_events", "executions",
     "errors", "research_runs", "cycle_steps"}

\* A deployment as reviewed, tighter, looser, live, and with other strategies.
Base == [gross |-> 1, cash |-> 1, capital |-> 1, mode |-> "shadow", optins |-> {},
         lifecycle |-> "research", approved |-> FALSE, params |-> 0, enabled |-> TRUE]
MCReviewed ==
    {Base, [Base EXCEPT !.gross = 0], [Base EXCEPT !.gross = 2, !.cash = 0],
     [Base EXCEPT !.lifecycle = "live_approved", !.approved = TRUE],
     [Base EXCEPT !.mode = "live", !.optins = OptIns],
     [Base EXCEPT !.lifecycle = "paper", !.params = 1],
     [Base EXCEPT !.lifecycle = "shadow", !.approved = TRUE]}
\* Reviewed for settings alone.
OnlySettings == {[Base EXCEPT !.gross = 0], [Base EXCEPT !.lifecycle = "shadow", !.approved = TRUE]}

-----------------------------------------------------------------------------
(* The trail without TRUNCATE, and with one TRUNCATE at head, in the tables  *)
(* of a decision alone; the gate with one switch change at a time; settings  *)
(* alone; one strategy request with deployments; two without.                *)

TrailStep ==
    /\ TrailNext
    /\ part = "trail" => emptied' = {}
    /\ part = "wipe"  => /\ revision' = 4
                         /\ rows' \cap {"errors", "research_runs", "cycle_steps"} = {}
                         /\ emptied # {} => emptied' \subseteq emptied

GateStep ==
    /\ GateNext
    /\ Len(log') <= 1 /\ Cardinality({a \in Actors : change'[a].at # "none"}) <= 1

ConfigStep ==
    LET open == Cardinality({c \in Clients : request'[c].kind # "none"})
    IN  /\ ConfigNext
        /\ part = "settings" => open = 0
        /\ part = "one" => open <= 1 /\ row'.overlay = row.overlay /\ yaml' \notin OnlySettings
        /\ part = "two" => yaml' = yaml /\ row'.overlay = row.overlay /\ row'.revision <= 2

RecordsVars == << trailVars, switchVars, gateVars, configVars, vars, part >>

RecordsInit ==
    /\ part \in {"trail", "wipe", "switch", "gate", "settings", "one", "two", "planning"}
    /\ part = "gate" \/ (world = Good /\ allowReducing = TRUE)
    /\ part \in {"settings", "one"} \/ yaml = Base
    /\ part = "planning" \/ (target = 0 /\ start = 0)
    /\ TrailInit /\ SwitchInit /\ GateInit /\ ConfigInit /\ Init
    /\ part = "one" => yaml \notin OnlySettings

RecordsNext ==
    /\ UNCHANGED part
    /\ \/ part \in {"trail", "wipe"} /\ TrailStep /\ UNCHANGED << switchVars, gateVars, configVars, vars >>
       \/ part = "switch" /\ SwitchNext /\ UNCHANGED << trailVars, gateVars, configVars, vars >>
       \/ part = "gate" /\ GateStep /\ UNCHANGED << trailVars, configVars, vars >>
       \/ part \in {"settings", "one", "two"} /\ ConfigStep
          /\ UNCHANGED << trailVars, switchVars, gateVars, vars >>
       \/ part = "planning" /\ Next
          /\ UNCHANGED << trailVars, switchVars, gateVars, configVars >>

RecordsSpec == RecordsInit /\ [][RecordsNext]_RecordsVars
=============================================================================
