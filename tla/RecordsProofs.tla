---------------------------- MODULE RecordsProofs ----------------------------
(***************************************************************************)
(* Theorems about what is written down and read back: the audit trail, for *)
(* any choice of tables that rows are kept in, whatever is inserted,       *)
(* broken off, deleted or migrated, and the schema itself, written three   *)
(* times; the kill switch and the pre-trade gate, for any number of        *)
(* people, components and symbols; the reviewed configuration with the     *)
(* runtime row on top of it, for any set of reviewed files and of clients; *)
(* the rows of jobs and uploads, for any uploads, requests and workers and *)
(* any number of jobs.                                                     *)
(***************************************************************************)
EXTENDS AuditTrail, PreflightGate, RuntimeConfig, ControlJobs, SequenceTheorems, TLAPS


-----------------------------------------------------------------------------
(* The schema. *)

LEMMA ConcatenatedMembers ==
  ASSUME NEW S, NEW a \in Seq(S), NEW b \in Seq(S)
  PROVE  a \o b \in Seq(S) /\ ToSet(a \o b) = ToSet(a) \cup ToSet(b)
<1>1. a \o b \in Seq(S) /\ Len(a \o b) = Len(a) + Len(b) /\ Len(a) \in Nat /\ Len(b) \in Nat
  OBVIOUS
<1>2. \A i \in 1..Len(a) : (a \o b)[i] = a[i]
  OBVIOUS
<1>3. \A i \in 1..Len(b) : (a \o b)[Len(a) + i] = b[i]
  OBVIOUS
<1>4. ToSet(a \o b) \subseteq ToSet(a) \cup ToSet(b)
  <2> SUFFICES ASSUME NEW i \in 1..(Len(a) + Len(b)) PROVE (a \o b)[i] \in ToSet(a) \cup ToSet(b)
    BY <1>1 DEF ToSet
  <2>1. CASE i <= Len(a)
    BY <2>1, <1>1, <1>2 DEF ToSet
  <2>2. CASE i > Len(a)
    <3>1. i - Len(a) \in 1..Len(b) /\ i = Len(a) + (i - Len(a))
      BY <2>2, <1>1
    <3> QED
      BY <3>1, <1>3 DEF ToSet
  <2> QED
    BY <2>1, <2>2, <1>1
<1>5. ToSet(a) \subseteq ToSet(a \o b)
  BY <1>1, <1>2 DEF ToSet
<1>6. ToSet(b) \subseteq ToSet(a \o b)
  <2> SUFFICES ASSUME NEW i \in 1..Len(b) PROVE b[i] \in ToSet(a \o b)
    BY <1>1 DEF ToSet
  <2>1. Len(a) + i \in 1..Len(a \o b)
    BY <1>1
  <2> QED
    BY <2>1, <1>1, <1>3 DEF ToSet
<1> QED
  BY <1>1, <1>4, <1>5, <1>6

\* The two ways to write a table with a reference to its cycle, or with two references.
LEMMA WrittenAlike ==
  /\ \A t : OfCycle(t, {}) = Table(t, {"trading_cycles"})
  /\ \A t, u : OfCycle(t, {u}) = Table(t, {"trading_cycles", u})
  /\ \A t, u, v : Table(t, {u, v}) = Table(t, {v, u})
  /\ \A t, u, v : TableOpt(t, {}, {u, v}) = TableOpt(t, {}, {v, u})
<1>1. \A t : {t} \cup {} = {t}
  OBVIOUS
<1>2. \A t, u : {t} \cup {u} = {t, u} /\ {t, u} = {u, t}
  OBVIOUS
<1>3. \A t : OfCycle(t, {}) = Table(t, {"trading_cycles"})
  BY <1>1 DEF OfCycle
<1>4. \A t, u : OfCycle(t, {u}) = Table(t, {"trading_cycles", u})
  BY <1>2 DEF OfCycle
<1>5. \A t, u, v : Table(t, {u, v}) = Table(t, {v, u})
  BY <1>2
<1>6. \A t, u, v : TableOpt(t, {}, {u, v}) = TableOpt(t, {}, {v, u})
  BY <1>2
<1> QED
  BY <1>3, <1>4, <1>5, <1>6

\* Every table a migration creates is one of the models'.
LEMMA ReferencePart == ReferenceTables \in Seq(Models) /\ ChannelTables \in Seq(Models)
<1>1. /\ Table("config_versions", {}) \in Models /\ Table("corporate_actions", {}) \in Models
      /\ Table("daily_performance", {}) \in Models /\ Table("data_snapshots", {}) \in Models
      /\ Table("instruments", {}) \in Models
  BY DEF Models, ReferenceModels, DataModels, MonitoringModels
<1>2. /\ Table("kill_switch_events", {}) \in Models /\ Table("notifications_sent", {}) \in Models
      /\ Table("strategy_versions", {}) \in Models /\ Table("system_events", {}) \in Models
  BY DEF Models, ReferenceModels, MonitoringModels
<1> QED
  BY <1>1, <1>2 DEF ReferenceTables, ChannelTables

LEMMA EvidencePart == EvidenceTables \in Seq(Models)
<1>1. /\ Table("data_quality_reports", {"data_snapshots"}) \in Models
      /\ TableOpt("research_runs", {}, {"data_snapshots", "strategy_versions"}) \in Models
      /\ Table("strategy_lifecycle_events", {"strategy_versions"}) \in Models
  BY WrittenAlike DEF Models, ReferenceModels, DataModels
<1> QED
  BY <1>1 DEF EvidenceTables
LEMMA CyclePart == CycleTables \in Seq(Models)
<1>1. /\ Table("trading_cycles", {"config_versions"}) \in Models
      /\ TableOpt("errors", {}, {"trading_cycles"}) \in Models
      /\ TableOpt("indicator_snapshots", {"trading_cycles"}, {"data_snapshots"}) \in Models
  BY DEF Models, DecisionModels, MonitoringModels
<1>2. /\ Table("account_snapshots", {"trading_cycles"}) \in Models
      /\ Table("ensemble_decisions", {"trading_cycles"}) \in Models
  BY WrittenAlike DEF Models, DecisionModels, ExecutionModels
<1> QED
  BY <1>1, <1>2 DEF CycleTables

LEMMA ReportPart == ReportTables \in Seq(Models)
<1>1. /\ Table("portfolio_proposals", {"trading_cycles"}) \in Models
      /\ Table("preflight_reports", {"trading_cycles"}) \in Models
      /\ Table("strategy_signals", {"trading_cycles", "strategy_versions"}) \in Models
  BY WrittenAlike DEF Models, DecisionModels
<1>2. /\ Table("position_snapshots", {"trading_cycles"}) \in Models
      /\ Table("reconciliation_reports", {"trading_cycles"}) \in Models
  BY WrittenAlike DEF Models, ExecutionModels
<1> QED
  BY <1>1, <1>2 DEF ReportTables

LEMMA DecisionPart == DecisionTables \in Seq(Models) /\ OrderTables \in Seq(Models)
<1>1. /\ Table("risk_decisions", {"trading_cycles", "portfolio_proposals"}) \in Models
      /\ Table("target_portfolios", {"config_versions", "risk_decisions"}) \in Models
  BY WrittenAlike DEF Models, DecisionModels
<1>2. /\ Table("order_intents", {"trading_cycles", "risk_decisions"}) \in Models
      /\ Table("shadow_orders", {"trading_cycles", "risk_decisions"}) \in Models
      /\ Table("executions", {"order_intents"}) \in Models
      /\ Table("order_events", {"order_intents"}) \in Models
  BY WrittenAlike DEF Models, ExecutionModels
<1> QED
  BY <1>1, <1>2 DEF DecisionTables, OrderTables

LEMMA LaterPart == /\ StepTables \in Seq(Models) /\ SwitchTables \in Seq(Models)
                   /\ ControlTables \in Seq(Models) /\ WorkerTables \in Seq(Models)
<1>1. /\ Table("cycle_steps", {"trading_cycles"}) \in Models
      /\ Table("kill_switch_state", {}) \in Models
  BY WrittenAlike DEF Models, MonitoringModels
<1>2. /\ Table("control_events", {}) \in Models /\ Table("control_jobs", {}) \in Models
      /\ Table("control_state", {}) \in Models /\ Table("data_uploads", {}) \in Models
      /\ Table("dataset_inventory", {}) \in Models
  BY DEF Models, ControlModels
<1>3. /\ Table("runtime_config", {}) \in Models /\ Table("runtime_config_changes", {}) \in Models
      /\ Table("worker_heartbeats", {}) \in Models
      /\ Table("backtest_runs", {"control_jobs"}) \in Models
      /\ Table("control_job_logs", {"control_jobs"}) \in Models
  BY DEF Models, ControlModels
<1> QED
  BY <1>1, <1>2, <1>3 DEF StepTables, SwitchTables, ControlTables, WorkerTables

LEMMA UpgradesAreModels == \A r \in Revisions : Upgrade[r] \in Seq(Models) /\ TableSet(r) \subseteq Models
<1>1. ReferenceTables \o ChannelTables \o EvidenceTables \o CycleTables \o ReportTables
        \o DecisionTables \o OrderTables \in Seq(Models)
  BY ReferencePart, EvidencePart, CyclePart, ReportPart, DecisionPart
<1>2. ControlTables \o WorkerTables \in Seq(Models)
  BY LaterPart
<1>3. /\ Upgrade[1] \in Seq(Models) /\ Upgrade[2] \in Seq(Models)
      /\ Upgrade[3] \in Seq(Models) /\ Upgrade[4] \in Seq(Models)
  <2> DEFINE one == ReferenceTables \o ChannelTables \o EvidenceTables \o CycleTables \o ReportTables
                       \o DecisionTables \o OrderTables
             four == ControlTables \o WorkerTables
  <2>1. Upgrade = << one, StepTables, SwitchTables, four >>
    BY DEF Upgrade
  <2>2. one \in Seq(Models) /\ four \in Seq(Models)
    BY <1>1, <1>2
  <2> HIDE DEF one, four
  <2> QED
    BY <2>1, <2>2, LaterPart
<1>4. \A r \in Revisions : r = 1 \/ r = 2 \/ r = 3 \/ r = 4
  BY DEF Revisions
<1>5. \A r \in Revisions : Upgrade[r] \in Seq(Models)
  BY <1>3, <1>4
<1> QED
  BY <1>5 DEF TableSet, ToSet

\* The names of a part.
NamesOf(s) == {s[i].name : i \in DOMAIN s}

LEMMA TableNames ==
  /\ \A t, must : Table(t, must).name = t
  /\ \A t, must, may : TableOpt(t, must, may).name = t
BY DEF Table, TableOpt

LEMMA PartNames ==
  /\ {"config_versions"} \subseteq NamesOf(ReferenceTables)
  /\ {"kill_switch_events", "notifications_sent", "system_events"} \subseteq NamesOf(ChannelTables)
  /\ {"data_quality_reports", "research_runs", "strategy_lifecycle_events"} \subseteq NamesOf(EvidenceTables)
  /\ {"account_snapshots", "ensemble_decisions", "errors", "indicator_snapshots"} \subseteq NamesOf(CycleTables)
  /\ {"portfolio_proposals", "position_snapshots", "preflight_reports", "reconciliation_reports",
      "strategy_signals"} \subseteq NamesOf(ReportTables)
  /\ {"risk_decisions", "shadow_orders", "target_portfolios"} \subseteq NamesOf(DecisionTables)
  /\ {"executions", "order_events"} \subseteq NamesOf(OrderTables)
  /\ {"cycle_steps"} \subseteq NamesOf(StepTables)
  /\ {"control_events"} \subseteq NamesOf(ControlTables)
  /\ {"runtime_config_changes", "control_job_logs"} \subseteq NamesOf(WorkerTables)
<1>1. {"config_versions"} \subseteq NamesOf(ReferenceTables)
  BY TableNames DEF NamesOf, ReferenceTables
<1>2. {"kill_switch_events", "notifications_sent", "system_events"} \subseteq NamesOf(ChannelTables)
  BY TableNames DEF NamesOf, ChannelTables
<1>3. {"data_quality_reports", "research_runs", "strategy_lifecycle_events"} \subseteq NamesOf(EvidenceTables)
  BY TableNames DEF NamesOf, EvidenceTables
<1>4. {"account_snapshots", "ensemble_decisions", "errors", "indicator_snapshots"} \subseteq NamesOf(CycleTables)
  BY TableNames DEF NamesOf, CycleTables
<1>5. {"portfolio_proposals", "position_snapshots", "preflight_reports", "reconciliation_reports",
       "strategy_signals"} \subseteq NamesOf(ReportTables)
  BY TableNames DEF NamesOf, ReportTables
<1>6. {"risk_decisions", "shadow_orders", "target_portfolios"} \subseteq NamesOf(DecisionTables)
  BY TableNames DEF NamesOf, DecisionTables
<1>7. {"executions", "order_events"} \subseteq NamesOf(OrderTables)
  BY TableNames DEF NamesOf, OrderTables
<1>8. {"cycle_steps"} \subseteq NamesOf(StepTables)
  BY TableNames DEF NamesOf, StepTables
<1>9. {"control_events"} \subseteq NamesOf(ControlTables)
  BY TableNames DEF NamesOf, ControlTables
<1>10. {"runtime_config_changes", "control_job_logs"} \subseteq NamesOf(WorkerTables)
  BY TableNames DEF NamesOf, WorkerTables
<1> QED
  BY <1>1, <1>2, <1>3, <1>4, <1>5, <1>6, <1>7, <1>8, <1>9, <1>10

LEMMA NamesOfConcat ==
  ASSUME NEW S, NEW a \in Seq(S), NEW b \in Seq(S)
  PROVE  NamesOf(a) \subseteq NamesOf(a \o b) /\ NamesOf(b) \subseteq NamesOf(a \o b)
<1>1. NamesOf(a) = {x.name : x \in ToSet(a)} /\ NamesOf(b) = {x.name : x \in ToSet(b)}
      /\ NamesOf(a \o b) = {x.name : x \in ToSet(a \o b)}
  BY DEF NamesOf, ToSet
<1> QED
  BY <1>1, ConcatenatedMembers
\* A trigger is put on tables that exist.
LEMMA GuardsAreNames == \A r \in Revisions : Guards[r] \subseteq Names(TableSet(r))
<1>1. \A r \in Revisions : NamesOf(Upgrade[r]) = Names(TableSet(r))
  BY DEF NamesOf, Names, TableSet, ToSet
<1> DEFINE ab    == ReferenceTables \o ChannelTables
           abc   == ab \o EvidenceTables
           abcd  == abc \o CycleTables
           abcde == abcd \o ReportTables
           most  == abcde \o DecisionTables
           one   == most \o OrderTables
           four  == ControlTables \o WorkerTables
<1>2. /\ Upgrade[1] = one /\ Upgrade[2] = StepTables
      /\ Upgrade[3] = SwitchTables /\ Upgrade[4] = four
  <2>1. Upgrade = << one, StepTables, SwitchTables, four >>
    BY DEF Upgrade
  <2> HIDE DEF one, four
  <2> QED
    BY <2>1
<1>3. /\ ab \in Seq(Models) /\ abc \in Seq(Models) /\ abcd \in Seq(Models)
      /\ abcde \in Seq(Models) /\ most \in Seq(Models)
  BY ReferencePart, EvidencePart, CyclePart, ReportPart, DecisionPart
<1>4. /\ NamesOf(ReferenceTables) \subseteq NamesOf(ab) /\ NamesOf(ChannelTables) \subseteq NamesOf(ab)
  BY NamesOfConcat, ReferencePart
<1> HIDE DEF ab
<1>5. /\ NamesOf(ab) \subseteq NamesOf(abc) /\ NamesOf(EvidenceTables) \subseteq NamesOf(abc)
  BY <1>3, NamesOfConcat, EvidencePart
<1> HIDE DEF abc
<1>6. /\ NamesOf(abc) \subseteq NamesOf(abcd) /\ NamesOf(CycleTables) \subseteq NamesOf(abcd)
  BY <1>3, NamesOfConcat, CyclePart
<1> HIDE DEF abcd
<1>7. /\ NamesOf(abcd) \subseteq NamesOf(abcde) /\ NamesOf(ReportTables) \subseteq NamesOf(abcde)
  BY <1>3, NamesOfConcat, ReportPart
<1> HIDE DEF abcde
<1>8. /\ NamesOf(abcde) \subseteq NamesOf(most) /\ NamesOf(DecisionTables) \subseteq NamesOf(most)
  BY <1>3, NamesOfConcat, DecisionPart
<1> HIDE DEF most
<1>9. /\ NamesOf(most) \subseteq NamesOf(one) /\ NamesOf(OrderTables) \subseteq NamesOf(one)
  BY <1>3, NamesOfConcat, DecisionPart
<1>10. NamesOf(ControlTables) \subseteq NamesOf(four) /\ NamesOf(WorkerTables) \subseteq NamesOf(four)
  BY NamesOfConcat, LaterPart
<1> HIDE DEF one, four
<1>11. AuditGuards \subseteq NamesOf(Upgrade[1])
  <2>1. {"config_versions", "kill_switch_events", "notifications_sent", "system_events",
         "data_quality_reports", "research_runs", "strategy_lifecycle_events"} \subseteq NamesOf(one)
    BY <1>4, <1>5, <1>6, <1>7, <1>8, <1>9, PartNames
  <2>2. {"account_snapshots", "ensemble_decisions", "errors", "indicator_snapshots",
         "portfolio_proposals", "position_snapshots", "preflight_reports", "reconciliation_reports",
         "strategy_signals"} \subseteq NamesOf(one)
    BY <1>6, <1>7, <1>8, <1>9, PartNames
  <2>3. {"risk_decisions", "shadow_orders", "target_portfolios", "executions", "order_events"}
           \subseteq NamesOf(one)
    BY <1>8, <1>9, PartNames
  <2> QED
    BY <2>1, <2>2, <2>3, <1>2 DEF AuditGuards
<1>12. /\ Guards[1] = AuditGuards /\ Guards[2] = {"cycle_steps"} /\ Guards[3] = {}
       /\ Guards[4] = {"control_job_logs", "runtime_config_changes", "control_events"}
  BY DEF Guards
<1>13. /\ Guards[1] \subseteq NamesOf(Upgrade[1]) /\ Guards[2] \subseteq NamesOf(Upgrade[2])
       /\ Guards[3] \subseteq NamesOf(Upgrade[3]) /\ Guards[4] \subseteq NamesOf(Upgrade[4])
  BY <1>2, <1>10, <1>11, <1>12, PartNames
<1>14. \A r \in Revisions : r = 1 \/ r = 2 \/ r = 3 \/ r = 4
  BY DEF Revisions
<1> QED
  BY <1>1, <1>13, <1>14

\* The first downgrade drops every table the first upgrade guards; the others none.
LEMMA DropsAndGuards ==
  /\ Guards[1] = AuditGuards
  /\ AuditGuards \cup NoDelete \subseteq ToSet(Downgrade[1])
  /\ \A r \in 2..4 : (AuditGuards \cup NoDelete) \cap ToSet(Downgrade[r]) = {}
  /\ \A r \in Revisions : DOMAIN Downgrade[r] = 1..Len(Downgrade[r]) /\ Len(Downgrade[r]) \in Nat
<1>1. /\ Downgrade[1] = AuditDrops /\ Downgrade[2] = << "cycle_steps" >>
      /\ Downgrade[3] = << "kill_switch_state" >> /\ Downgrade[4] = ControlDrops
  BY DEF Downgrade
<1>2. AuditGuards \cup NoDelete \subseteq ToSet(AuditDrops)
  BY DEF AuditGuards, NoDelete, AuditDrops, ToSet
<1>3. /\ (AuditGuards \cup NoDelete) \cap ToSet(<< "cycle_steps" >>) = {}
      /\ (AuditGuards \cup NoDelete) \cap ToSet(<< "kill_switch_state" >>) = {}
  BY DEF AuditGuards, NoDelete, ToSet
<1>4. (AuditGuards \cup NoDelete) \cap ToSet(ControlDrops) = {}
  BY DEF AuditGuards, NoDelete, ControlDrops, ToSet
<1>5. /\ DOMAIN AuditDrops = 1..Len(AuditDrops) /\ Len(AuditDrops) \in Nat
      /\ DOMAIN ControlDrops = 1..Len(ControlDrops) /\ Len(ControlDrops) \in Nat
  BY DEF AuditDrops, ControlDrops
<1>6. \A r \in Revisions : r = 1 \/ r = 2 \/ r = 3 \/ r = 4
  BY DEF Revisions
<1>7. \A r \in 2..4 : r = 2 \/ r = 3 \/ r = 4
  OBVIOUS
<1>8. Guards[1] = AuditGuards
  BY DEF Guards
<1>9. \A r \in 2..4 : (AuditGuards \cup NoDelete) \cap ToSet(Downgrade[r]) = {}
  BY <1>1, <1>3, <1>4, <1>7
<1>10. \A r \in Revisions : DOMAIN Downgrade[r] = 1..Len(Downgrade[r]) /\ Len(Downgrade[r]) \in Nat
  BY <1>1, <1>5, <1>6
<1> QED
  BY <1>1, <1>2, <1>8, <1>9, <1>10
-----------------------------------------------------------------------------
(* The inductive invariant. *)

TablesInv ==
    /\ revision \in 0..4 /\ tables \subseteq Models /\ guarded \subseteq Names(tables)
    /\ point \in {"idle", "risk", "target", "commit"} /\ orderRow \in OrderState \cup {"none"}
    /\ emptied \subseteq Used

\* References that must be set are satisfied by committed rows ...
RowsInv == rows \subseteq Used \cap Names(tables) /\ \A t \in rows : Must(t) \subseteq rows

\* ... and those that are kept go where the schema says they may.
LinkInv ==
    \A l \in links : /\ l = << l[1], l[2] >> /\ l[1] \in rows /\ l[2] \in rows
                      /\ l[2] \in Must(l[1]) \cup May(l[1])

Chain == {"indicator_snapshots", "strategy_signals", "ensemble_decisions", "portfolio_proposals"}

Drafted(p) ==
    CASE p = "idle"   -> {}
      [] p = "risk"   -> Chain
      [] p = "target" -> Chain \cup {"risk_decisions"}
      [] p = "commit" -> Chain \cup {"risk_decisions", "target_portfolios"}

\* What the open transaction holds is what its place says, and could be committed.
DecisionInv ==
    /\ draft = Drafted(point) /\ draft \subseteq Used \cap Names(tables)
    /\ \A t \in draft : Must(t) \subseteq rows \cup draft

\* The rows of the audit trail are guarded as soon as there can be any.
KeptInv ==
    /\ revision > 0 => AuditGuards \subseteq guarded
    /\ revision = 0 => AuditGuards \cap Names(tables) = {}

WholeInv == DecisionsAreWhole /\ (orderRow # "none" => "order_intents" \in rows)

TrailInv == TablesInv /\ RowsInv /\ LinkInv /\ DecisionInv /\ KeptInv /\ WholeInv

LEMMA DraftedIs ==
  /\ Drafted("idle") = {} /\ Drafted("risk") = Chain
  /\ Drafted("target") = Chain \cup {"risk_decisions"}
  /\ Drafted("commit") = Chain \cup {"risk_decisions", "target_portfolios"}
BY DEF Drafted

LEMMA TrailInvInit == TrailInit => TrailInv
BY DraftedIs DEF TrailInit, TrailInv, TablesInv, RowsInv, LinkInv, DecisionInv, KeptInv, WholeInv,
                 DecisionsAreWhole, Names

\* Only migrations change what a table refers to.
LEMMA SameTables ==
  ASSUME tables' = tables
  PROVE  /\ Names(tables)' = Names(tables)
         /\ \A t : Must(t)' = Must(t) /\ May(t)' = May(t)
BY DEF Must, May, Names

-----------------------------------------------------------------------------
(* Migrations. *)

\* Tables that are new have new names.
LEMMA NewNames ==
  ASSUME NEW r \in Revisions, TablesInv, Migrate(r)
  PROVE  /\ revision' = r /\ revision' \in Revisions /\ revision < revision'
         /\ tables \subseteq tables' /\ tables' \subseteq Models
         /\ \A y \in tables' \ tables : y.name \notin Names(tables)
<1> DEFINE new == revision + 1 .. r
<1>1. revision' = r /\ revision' \in Revisions /\ revision < revision' /\ revision \in Nat
  BY DEF Migrate, Revisions, TablesInv
<1>2. new \subseteq Revisions
  BY <1>1 DEF Revisions
<1>3. tables' = tables \cup UNION {TableSet(n) : n \in new}
  BY DEF Migrate
<1>4. tables \subseteq tables' /\ tables' \subseteq Models
  BY <1>2, <1>3, UpgradesAreModels DEF TablesInv
<1>5. ASSUME NEW y \in tables' \ tables
      PROVE  y.name \notin Names(tables)
  <2>1. PICK n \in new : y \in TableSet(n)
    BY <1>3, <1>5
  <2>2. Creatable(tables \cup UNION {TableSet(k) : k \in {j \in new : j < n}}, Upgrade[n])
    BY <2>1 DEF Migrate
  <2>3. PICK i \in DOMAIN Upgrade[n] : y = Upgrade[n][i]
    BY <2>1 DEF TableSet, ToSet
  <2> QED
    BY <2>2, <2>3 DEF Creatable, Names
<1> QED
  BY <1>1, <1>4, <1>5

LEMMA MigrateKeeps ==
  ASSUME TrailInv, NEW r \in Revisions, Migrate(r)
  PROVE  TrailInv'
<1>1. TablesInv /\ RowsInv /\ LinkInv /\ DecisionInv /\ KeptInv /\ WholeInv
  BY DEF TrailInv
<1>2. /\ revision' = r /\ revision' \in Revisions /\ revision < revision'
      /\ tables \subseteq tables' /\ tables' \subseteq Models
      /\ \A y \in tables' \ tables : y.name \notin Names(tables)
  BY <1>1, NewNames
<1>3. UNCHANGED << rows, links, draft, point, orderRow, emptied >> /\ point = "idle" /\ draft = {}
  BY <1>1, DraftedIs DEF Migrate, DecisionInv
<1>4. \A t \in Names(tables) : Must(t)' = Must(t) /\ May(t)' = May(t)
  BY <1>2 DEF Must, May, Names
<1>5. Names(tables) \subseteq Names(tables)'
  BY <1>2 DEF Names
<1>6. guarded' = guarded \cup UNION {Guards[n] : n \in revision + 1 .. r}
  BY DEF Migrate
<1>7. revision + 1 .. r \subseteq Revisions /\ revision \in 0..4
  BY <1>1, <1>2 DEF Revisions, TablesInv
<1>8. TablesInv'
  <2>1. guarded' \subseteq Names(tables)'
    <3>1. tables' = tables \cup UNION {TableSet(n) : n \in revision + 1 .. r}
      BY DEF Migrate
    <3>2. \A n \in revision + 1 .. r : Guards[n] \subseteq Names(TableSet(n))
      BY <1>7, GuardsAreNames
    <3>3. \A n \in revision + 1 .. r : Names(TableSet(n)) \subseteq Names(tables)'
      BY <3>1 DEF Names
    <3>4. guarded \subseteq Names(tables)'
      BY <1>1, <1>5 DEF TablesInv
    <3> QED
      BY <3>2, <3>3, <3>4, <1>6
  <2> QED
    BY <2>1, <1>1, <1>2, <1>3 DEF TablesInv, Revisions
<1>9. RowsInv'
  BY <1>1, <1>3, <1>4, <1>5 DEF RowsInv
<1>10. LinkInv'
  BY <1>1, <1>3, <1>4 DEF LinkInv, RowsInv
<1>11. DecisionInv'
  BY <1>1, <1>3 DEF DecisionInv
<1>12. KeptInv'
  <2>1. AuditGuards \subseteq guarded'
    <3>1. CASE revision > 0
      BY <3>1, <1>1, <1>6 DEF KeptInv
    <3>2. CASE revision = 0
      <4>1. 1 \in revision + 1 .. r
        BY <3>2, <1>2 DEF Revisions
      <4> QED
        BY <4>1, <1>6, DropsAndGuards
    <3> QED
      BY <3>1, <3>2, <1>7
  <2>2. revision' # 0
    BY <1>2 DEF Revisions
  <2> QED
    BY <2>1, <2>2 DEF KeptInv
<1>13. WholeInv'
  BY <1>1, <1>3 DEF WholeInv, DecisionsAreWhole
<1> QED
  BY <1>8, <1>9, <1>10, <1>11, <1>12, <1>13 DEF TrailInv

LEMMA RevertKeeps ==
  ASSUME TrailInv, Revert
  PROVE  TrailInv'
<1>1. TablesInv /\ RowsInv /\ LinkInv /\ DecisionInv /\ KeptInv /\ WholeInv
  BY DEF TrailInv
<1> DEFINE drops == Downgrade[revision]
           gone  == ToSet(drops)
<1>2. /\ revision \in Revisions /\ revision' = revision - 1 /\ point = "idle"
      /\ tables' = {x \in tables : x.name \notin gone}
      /\ guarded' = guarded \ gone /\ rows' = rows \ gone
      /\ links' = {l \in links : l[1] \notin gone}
      /\ orderRow' = IF "order_intents" \in gone THEN "none" ELSE orderRow
      /\ draft' = draft /\ point' = point /\ emptied' = emptied \ gone /\ Droppable(tables, drops)
  BY <1>1 DEF Revert, TablesInv, Revisions
<1>3. \A x \in tables, t \in gone : t \in x.must \cup x.may => x.name \in gone
  <2> SUFFICES ASSUME NEW x \in tables, NEW t \in gone, t \in x.must \cup x.may
               PROVE  x.name \in gone
    OBVIOUS
  <2>1. PICK i \in DOMAIN drops : drops[i] = t
    BY DEF ToSet
  <2>2. PICK j \in 1..(i - 1) : drops[j] = x.name
    BY <2>1, <1>2 DEF Droppable
  <2>3. DOMAIN drops = 1..Len(drops) /\ Len(drops) \in Nat
    BY <1>2, DropsAndGuards
  <2>4. j \in DOMAIN drops
    BY <2>1, <2>2, <2>3
  <2> QED
    BY <2>2, <2>4 DEF ToSet
<1>4. DecisionInv' /\ draft' = {}
  BY <1>1, <1>2, DraftedIs DEF DecisionInv
<1> HIDE DEF gone
<1>5. \A t : t \notin gone => /\ Must(t)' = Must(t) /\ May(t)' = May(t)
                             /\ Must(t) \cap gone = {} /\ May(t) \cap gone = {}
  BY <1>2, <1>3 DEF Must, May
<1>6. Names(tables)' = Names(tables) \ gone
  BY <1>2 DEF Names
<1>7. TablesInv'
  <2>1. revision' \in 0..4 /\ orderRow' \in OrderState \cup {"none"}
    BY <1>1, <1>2 DEF TablesInv, Revisions
  <2> QED
    BY <2>1, <1>1, <1>2, <1>6 DEF TablesInv
<1>8. RowsInv'
  BY <1>1, <1>2, <1>5, <1>6 DEF RowsInv
<1>9. LinkInv'
  BY <1>1, <1>2, <1>5 DEF LinkInv
<1>10. /\ revision = 1 => AuditGuards \cup NoDelete \subseteq gone
       /\ revision \in 2..4 => (AuditGuards \cup NoDelete) \cap gone = {}
  BY <1>2, DropsAndGuards DEF gone
<1>11. revision = 1 \/ revision \in 2..4
  BY <1>2 DEF Revisions
<1>12. KeptInv'
  <2>1. CASE revision = 1
    BY <2>1, <1>2, <1>6, <1>10 DEF KeptInv
  <2>2. CASE revision \in 2..4
    BY <2>2, <1>1, <1>2, <1>10 DEF KeptInv
  <2> QED
    BY <2>1, <2>2, <1>11
<1>13. WholeInv'
  <2>1. Chain \cup {"risk_decisions", "target_portfolios"} \subseteq AuditGuards
        /\ "order_intents" \in NoDelete
    BY DEF Chain, AuditGuards, NoDelete
  <2>2. CASE revision = 1
    BY <2>1, <2>2, <1>2, <1>10 DEF WholeInv, DecisionsAreWhole
  <2>3. CASE revision \in 2..4
    BY <2>1, <2>3, <1>1, <1>2, <1>10 DEF WholeInv, DecisionsAreWhole, Chain
  <2> QED
    BY <2>2, <2>3, <1>11
<1> QED
  BY <1>4, <1>7, <1>8, <1>9, <1>12, <1>13 DEF TrailInv
-----------------------------------------------------------------------------
(* Transactions. *)

SameSchema == UNCHANGED << revision, tables, guarded >>

\* A committed row more, whose references are there, with the links it may have.
LEMMA InsertKeeps ==
  ASSUME TrailInv, SameSchema, UNCHANGED << draft, point, emptied >>,
         NEW new \in SUBSET Used, NEW t \in new, NEW named \in SUBSET ((Must(t) \cup May(t)) \cap rows),
         rows' = rows \cup new, new \subseteq Names(tables),
         \A n \in new : Must(n) \subseteq rows \cup new,
         links' = links \cup ({t} \X named),
         "risk_decisions" \notin new,
         orderRow' \in OrderState \cup {"none"}, orderRow' # "none" => "order_intents" \in rows'
  PROVE  TrailInv'
<1>1. TablesInv /\ RowsInv /\ LinkInv /\ DecisionInv /\ KeptInv /\ WholeInv
  BY DEF TrailInv
<1>2. /\ Names(tables)' = Names(tables)
      /\ \A n : Must(n)' = Must(n) /\ May(n)' = May(n)
  BY SameTables DEF SameSchema
<1>3. TablesInv'
  BY <1>1, <1>2 DEF TablesInv, SameSchema
<1>4. RowsInv'
  BY <1>1, <1>2 DEF RowsInv
<1>5. LinkInv'
  BY <1>1, <1>2 DEF LinkInv
<1>6. DecisionInv'
  BY <1>1, <1>2 DEF DecisionInv
<1>7. KeptInv' /\ WholeInv'
  BY <1>1, <1>2 DEF KeptInv, WholeInv, DecisionsAreWhole, SameSchema
<1> QED
  BY <1>3, <1>4, <1>5, <1>6, <1>7 DEF TrailInv

LEMMA RecordKeepsTrail ==
  ASSUME TrailInv, NEW t \in Used, Record(t)
  PROVE  TrailInv'
<1>1. PICK named \in SUBSET ((Must(t) \cup May(t)) \cap rows) : links' = links \cup ({t} \X named)
  BY DEF Record
<1>2. /\ t \in Names(tables) /\ Must(t) \subseteq rows /\ rows' = rows \cup {t}
      /\ UNCHANGED << revision, tables, guarded, draft, point, orderRow, emptied >>
  BY DEF Record, Insertable
<1>3. t # "risk_decisions"
  BY DEF Record, ReferenceWrites, ReportWrites, MonitoringWrites
<1>4. orderRow' \in OrderState \cup {"none"} /\ (orderRow' # "none" => "order_intents" \in rows')
  BY <1>2 DEF TrailInv, TablesInv, WholeInv
<1> DEFINE new == {t}
<1>5. /\ new \in SUBSET Used /\ t \in new /\ rows' = rows \cup new /\ new \subseteq Names(tables)
      /\ \A n \in new : Must(n) \subseteq rows \cup new
      /\ "risk_decisions" \notin new
  BY <1>2, <1>3
<1>6. SameSchema /\ UNCHANGED << draft, point, emptied >>
  BY <1>2 DEF SameSchema
<1> HIDE DEF new
<1> QED
  BY <1>1, <1>4, <1>5, <1>6, InsertKeeps

\* Rows without links.
LEMMA PlainInsertKeeps ==
  ASSUME TrailInv, SameSchema, UNCHANGED << draft, point, links, emptied >>,
         NEW new \in SUBSET Used, new # {}, rows' = rows \cup new, new \subseteq Names(tables),
         \A n \in new : Must(n) \subseteq rows \cup new,
         "risk_decisions" \notin new,
         orderRow' \in OrderState \cup {"none"}, orderRow' # "none" => "order_intents" \in rows'
  PROVE  TrailInv'
<1>1. PICK t \in new : TRUE
  OBVIOUS
<1>2. links' = links \cup ({t} \X {})
  OBVIOUS
<1>3. {} \in SUBSET ((Must(t) \cup May(t)) \cap rows)
  OBVIOUS
<1> QED
  BY <1>2, <1>3, InsertKeeps

LEMMA WritesKeep ==
  ASSUME TrailInv, StartCycle \/ CreateIntent \/ RecordExecution
  PROVE  TrailInv'
<1>0. orderRow \in OrderState \cup {"none"} /\ (orderRow # "none" => "order_intents" \in rows)
  BY DEF TrailInv, TablesInv, WholeInv
<1>1. CASE StartCycle
  <2> DEFINE new == {"trading_cycles"}
  <2>1. /\ new \in SUBSET Used /\ new # {} /\ rows' = rows \cup new /\ new \subseteq Names(tables)
        /\ \A n \in new : Must(n) \subseteq rows \cup new
        /\ "risk_decisions" \notin new
    BY <1>1 DEF StartCycle, Insertable
  <2>2. SameSchema /\ UNCHANGED << draft, point, orderRow, emptied >>
    BY <1>1 DEF StartCycle, SameSchema
  <2>3. PICK t \in new : t = "trading_cycles"
    OBVIOUS
  <2>4. PICK named \in SUBSET ((Must(t) \cup May(t)) \cap rows) : links' = links \cup ({t} \X named)
    BY <1>1, <2>3 DEF StartCycle, Insertable
  <2> HIDE DEF new
  <2> QED
    BY <1>0, <2>1, <2>2, <2>4, InsertKeeps
<1>2. CASE CreateIntent
  <2> DEFINE new == {"order_intents", "order_events"}
  <2>1. /\ new \in SUBSET Used /\ new # {} /\ rows' = rows \cup new /\ new \subseteq Names(tables)
        /\ \A n \in new : Must(n) \subseteq rows \cup new
        /\ "risk_decisions" \notin new
    BY <1>2 DEF CreateIntent, Insertable
  <2>2. SameSchema /\ UNCHANGED << draft, point, links, emptied >>
    BY <1>2 DEF CreateIntent, SameSchema
  <2>3. orderRow' = "created" /\ "order_intents" \in rows' /\ "created" \in OrderState
    BY <1>2 DEF CreateIntent, OrderState
  <2> HIDE DEF new
  <2> QED
    BY <2>1, <2>2, <2>3, PlainInsertKeeps
<1>3. CASE RecordExecution
  <2> DEFINE new == {"executions"}
  <2>1. /\ new \in SUBSET Used /\ new # {} /\ rows' = rows \cup new /\ new \subseteq Names(tables)
        /\ \A n \in new : Must(n) \subseteq rows \cup new
        /\ "risk_decisions" \notin new
    BY <1>3 DEF RecordExecution, Insertable
  <2>2. SameSchema /\ UNCHANGED << draft, point, links, orderRow, emptied >>
    BY <1>3 DEF RecordExecution, SameSchema
  <2> HIDE DEF new
  <2> QED
    BY <1>0, <2>1, <2>2, PlainInsertKeeps
<1> QED
  BY <1>1, <1>2, <1>3

\* The state of an intent moves.
LEMMA IntentKeeps ==
  ASSUME TrailInv, NEW t \in OrderState, MoveIntent(t) \/ SetIntent(t)
  PROVE  TrailInv'
<1>1. TablesInv /\ RowsInv /\ LinkInv /\ DecisionInv /\ KeptInv /\ WholeInv
  BY DEF TrailInv
<1>2. /\ UNCHANGED << revision, tables, guarded, rows, links, draft, point, emptied >>
      /\ orderRow # "none" /\ orderRow' = t
  BY DEF MoveIntent, SetIntent
<1>3. /\ Names(tables)' = Names(tables)
      /\ \A n : Must(n)' = Must(n) /\ May(n)' = May(n)
  BY <1>2, SameTables
<1>4. TablesInv' /\ RowsInv' /\ LinkInv'
  BY <1>1, <1>2, <1>3 DEF TablesInv, RowsInv, LinkInv
<1>5. DecisionInv' /\ KeptInv' /\ WholeInv'
  BY <1>1, <1>2, <1>3 DEF DecisionInv, KeptInv, WholeInv, DecisionsAreWhole
<1> QED
  BY <1>4, <1>5 DEF TrailInv

-----------------------------------------------------------------------------
(* record_decision. *)

LEMMA AddKeeps ==
  ASSUME TrailInv, NEW new, NEW next \in {"risk", "target", "commit"}, Add(new, next),
         draft \cup new = Drafted(next)
  PROVE  TrailInv'
<1>1. TablesInv /\ RowsInv /\ LinkInv /\ DecisionInv /\ KeptInv /\ WholeInv
  BY DEF TrailInv
<1>2. /\ UNCHANGED << revision, tables, guarded, rows, links, orderRow, emptied >>
      /\ draft' = draft \cup new /\ point' = next
      /\ new \subseteq Used \cap Names(tables)
      /\ \A t \in new : Must(t) \subseteq rows \cup draft \cup new
  BY DEF Add, Insertable
<1>3. /\ Names(tables)' = Names(tables)
      /\ \A n : Must(n)' = Must(n) /\ May(n)' = May(n)
  BY <1>2, SameTables
<1>4. TablesInv'
  BY <1>1, <1>2, <1>3 DEF TablesInv
<1>5. RowsInv' /\ LinkInv'
  BY <1>1, <1>2, <1>3 DEF RowsInv, LinkInv
<1>6. DecisionInv'
  BY <1>1, <1>2, <1>3 DEF DecisionInv
<1>7. KeptInv' /\ WholeInv'
  BY <1>1, <1>2, <1>3 DEF KeptInv, WholeInv, DecisionsAreWhole
<1> QED
  BY <1>4, <1>5, <1>6, <1>7 DEF TrailInv

LEMMA RollbackKeeps ==
  ASSUME TrailInv, Rollback
  PROVE  TrailInv'
<1>1. TablesInv /\ RowsInv /\ LinkInv /\ DecisionInv /\ KeptInv /\ WholeInv
  BY DEF TrailInv
<1>2. /\ UNCHANGED << revision, tables, guarded, rows, links, orderRow, emptied >>
      /\ draft' = {} /\ point' = "idle"
  BY DEF Rollback
<1>3. /\ Names(tables)' = Names(tables)
      /\ \A n : Must(n)' = Must(n) /\ May(n)' = May(n)
  BY <1>2, SameTables
<1>4. TablesInv'
  BY <1>1, <1>2, <1>3 DEF TablesInv
<1>5. RowsInv' /\ LinkInv'
  BY <1>1, <1>2, <1>3 DEF RowsInv, LinkInv
<1>6. DecisionInv'
  BY <1>2, DraftedIs DEF DecisionInv
<1>7. KeptInv' /\ WholeInv'
  BY <1>1, <1>2, <1>3 DEF KeptInv, WholeInv, DecisionsAreWhole
<1> QED
  BY <1>4, <1>5, <1>6, <1>7 DEF TrailInv

LEMMA DecisionKeeps ==
  ASSUME TrailInv, AddChain \/ (\E b \in BOOLEAN : AddRisk(b)) \/ AddTarget
  PROVE  TrailInv'
<1>1. draft = Drafted(point)
  BY DEF TrailInv, DecisionInv
<1>2. CASE AddChain
  <2>1. Add(Chain, "risk") /\ point = "idle"
    BY <1>2 DEF AddChain, Chain
  <2>2. draft \cup Chain = Drafted("risk")
    BY <1>1, <2>1, DraftedIs
  <2> QED
    BY <2>1, <2>2, AddKeeps
<1>3. CASE \E b \in BOOLEAN : AddRisk(b)
  <2>1. \/ Rollback
        \/ Add({"risk_decisions"}, "target") /\ point = "risk"
    BY <1>3 DEF AddRisk
  <2>2. CASE Add({"risk_decisions"}, "target") /\ point = "risk"
    <3>1. draft \cup {"risk_decisions"} = Drafted("target")
      BY <1>1, <2>2, DraftedIs
    <3> QED
      BY <2>2, <3>1, AddKeeps
  <2> QED
    BY <2>1, <2>2, RollbackKeeps
<1>4. CASE AddTarget
  <2>1. Add({"target_portfolios"}, "commit") /\ point = "target"
    BY <1>4 DEF AddTarget
  <2>2. draft \cup {"target_portfolios"} = Drafted("commit")
    BY <1>1, <2>1, DraftedIs
  <2> QED
    BY <2>1, <2>2, AddKeeps
<1> QED
  BY <1>2, <1>3, <1>4

LEMMA CommitKeeps ==
  ASSUME TrailInv, Commit
  PROVE  TrailInv'
<1>1. TablesInv /\ RowsInv /\ LinkInv /\ DecisionInv /\ KeptInv /\ WholeInv
  BY DEF TrailInv
<1>2. /\ UNCHANGED << revision, tables, guarded, orderRow >>
      /\ rows' = rows \cup draft /\ draft' = {} /\ point' = "idle" /\ point = "commit"
      /\ emptied' = emptied \ draft
  BY DEF Commit
<1>3. PICK named \in SUBSET (May("indicator_snapshots") \cap rows) :
         links' = links \cup ({"indicator_snapshots"} \X named)
  BY DEF Commit
<1>4. /\ Names(tables)' = Names(tables)
      /\ \A n : Must(n)' = Must(n) /\ May(n)' = May(n)
  BY <1>2, SameTables
<1>5. draft = Chain \cup {"risk_decisions", "target_portfolios"}
  BY <1>1, <1>2, DraftedIs DEF DecisionInv
<1>6. TablesInv'
  BY <1>1, <1>2, <1>4 DEF TablesInv
<1>7. RowsInv'
  BY <1>1, <1>2, <1>4 DEF RowsInv, DecisionInv
<1>8. LinkInv'
  <2>1. "indicator_snapshots" \in rows'
    BY <1>2, <1>5 DEF Chain
  <2> QED
    BY <2>1, <1>1, <1>2, <1>3, <1>4 DEF LinkInv
<1>9. DecisionInv'
  BY <1>2, DraftedIs DEF DecisionInv
<1>10. KeptInv'
  BY <1>1, <1>2, <1>4 DEF KeptInv
<1>11. WholeInv'
  BY <1>1, <1>2, <1>5 DEF WholeInv, DecisionsAreWhole, Chain
<1> QED
  BY <1>6, <1>7, <1>8, <1>9, <1>10, <1>11 DEF TrailInv

-----------------------------------------------------------------------------
(* Anybody. *)

\* Guarded rows neither go nor change, nor does what something refers to.
Gone(t) == Delete(t) \/ Rekey(t)

LEMMA GoneIs ==
  ASSUME TrailInv, NEW t \in Used, Gone(t)
  PROVE  /\ t \notin AuditGuards /\ t # "order_intents"
         /\ \A c \in rows \cup draft : t \notin Must(c)
         /\ \A l \in links : l[2] # t
         /\ rows' = rows \ {t} /\ links' = {l \in links : l[1] # t}
         /\ UNCHANGED << revision, tables, guarded, draft, point, orderRow, emptied >>
<1>1. TablesInv /\ RowsInv /\ LinkInv /\ KeptInv
  BY DEF TrailInv
<1>2. t \in rows \ guarded /\ t # "order_intents" /\ Referring(t) = {}
  BY DEF Gone, Delete, Rekey, NoDelete
<1>3. t \notin AuditGuards
  BY <1>1, <1>2 DEF KeptInv, RowsInv, TablesInv
<1>4. \A l \in links : l[2] # t
  <2> SUFFICES ASSUME NEW l \in links, l[2] = t PROVE FALSE
    OBVIOUS
  <2>1. l[1] \in rows
    BY <1>1 DEF LinkInv
  <2>2. << l[1], t >> \in links
    BY <1>1 DEF LinkInv
  <2> QED
    BY <2>1, <2>2, <1>2 DEF Referring
<1>5. Removed({t}) /\ UNCHANGED emptied
  BY DEF Gone, Delete, Rekey
<1> QED
  BY <1>2, <1>3, <1>4, <1>5 DEF Removed, Referring

LEMMA GoneKeeps ==
  ASSUME TrailInv, NEW t \in Used, Gone(t)
  PROVE  TrailInv'
<1>1. TablesInv /\ RowsInv /\ LinkInv /\ DecisionInv /\ KeptInv /\ WholeInv
  BY DEF TrailInv
<1>2. /\ t \notin AuditGuards /\ t # "order_intents"
      /\ \A c \in rows \cup draft : t \notin Must(c)
      /\ \A l \in links : l[2] # t
      /\ rows' = rows \ {t} /\ links' = {l \in links : l[1] # t}
      /\ UNCHANGED << revision, tables, guarded, draft, point, orderRow, emptied >>
  BY GoneIs
<1>3. /\ Names(tables)' = Names(tables)
      /\ \A n : Must(n)' = Must(n) /\ May(n)' = May(n)
  BY <1>2, SameTables
<1>4. TablesInv'
  BY <1>1, <1>2, <1>3 DEF TablesInv
<1>5. RowsInv' /\ LinkInv'
  BY <1>1, <1>2, <1>3 DEF RowsInv, LinkInv
<1>6. DecisionInv'
  BY <1>1, <1>2, <1>3 DEF DecisionInv
<1>7. KeptInv'
  BY <1>1, <1>2, <1>3 DEF KeptInv
<1>8. WholeInv'
  <2>1. Chain \cup {"target_portfolios"} \subseteq AuditGuards
    BY DEF Chain, AuditGuards
  <2> QED
    BY <2>1, <1>1, <1>2 DEF WholeInv, DecisionsAreWhole, Chain
<1> QED
  BY <1>4, <1>5, <1>6, <1>7, <1>8 DEF TrailInv

LEMMA RedirectKeeps ==
  ASSUME TrailInv, NEW c, NEW p, Redirect(c, p)
  PROVE  TrailInv'
<1>1. TablesInv /\ RowsInv /\ LinkInv /\ DecisionInv /\ KeptInv /\ WholeInv
  BY DEF TrailInv
<1>2. /\ UNCHANGED << revision, tables, guarded, rows, draft, point, orderRow, emptied >>
      /\ links' \subseteq links \cup {<< c, p >>}
      /\ c \in rows /\ p \in rows /\ p \in Must(c) \cup May(c)
  BY DEF Redirect
<1>3. /\ Names(tables)' = Names(tables)
      /\ \A n : Must(n)' = Must(n) /\ May(n)' = May(n)
  BY <1>2, SameTables
<1>4. TablesInv' /\ RowsInv' /\ LinkInv'
  BY <1>1, <1>2, <1>3 DEF TablesInv, RowsInv, LinkInv
<1>5. DecisionInv' /\ KeptInv' /\ WholeInv'
  BY <1>1, <1>2, <1>3 DEF DecisionInv, KeptInv, WholeInv, DecisionsAreWhole
<1> QED
  BY <1>4, <1>5 DEF TrailInv

\* What is truncated goes with everything that refers to it.
LEMMA TruncateKeeps ==
  ASSUME TrailInv, NEW gone, Truncate(gone)
  PROVE  TrailInv'
<1>1. TablesInv /\ RowsInv /\ LinkInv /\ DecisionInv /\ KeptInv /\ WholeInv
  BY DEF TrailInv
<1>2. /\ UNCHANGED << revision, tables, guarded, draft, point >>
      /\ rows' = rows \ gone /\ links' = {l \in links : l[1] \notin gone}
      /\ orderRow' = IF "order_intents" \in gone THEN "none" ELSE orderRow
      /\ emptied' = emptied \cup (gone \cap rows)
      /\ Referrers(gone) \subseteq gone /\ gone \cap draft = {}
  BY DEF Truncate, Removed
<1>3. /\ Names(tables)' = Names(tables)
      /\ \A n : Must(n)' = Must(n) /\ May(n)' = May(n)
  BY <1>2, SameTables
<1>4. \A t : t \notin gone => Must(t) \cap gone = {} /\ May(t) \cap gone = {}
  BY <1>2 DEF Referrers, Must, May
<1>5. TablesInv'
  BY <1>1, <1>2, <1>3 DEF TablesInv, RowsInv
<1>6. RowsInv'
  BY <1>1, <1>2, <1>3, <1>4 DEF RowsInv
<1>7. LinkInv'
  BY <1>1, <1>2, <1>3, <1>4 DEF LinkInv
<1>8. DecisionInv'
  <2>1. \A t \in draft : Must(t) \subseteq rows' \cup draft
    BY <1>1, <1>2, <1>4 DEF DecisionInv
  <2> QED
    BY <2>1, <1>1, <1>2, <1>3 DEF DecisionInv
<1>9. KeptInv'
  BY <1>1, <1>2, <1>3 DEF KeptInv
<1>10. WholeInv'
  BY <1>1, <1>2 DEF WholeInv, DecisionsAreWhole
<1> QED
  BY <1>5, <1>6, <1>7, <1>8, <1>9, <1>10 DEF TrailInv

LEMMA TrailStep == TrailInv /\ [TrailNext]_trailVars => TrailInv'
<1> SUFFICES ASSUME TrailInv, [TrailNext]_trailVars PROVE TrailInv'
  OBVIOUS
<1>1. CASE \E r \in Revisions : Migrate(r)
  BY <1>1, MigrateKeeps
<1>2. CASE Revert
  BY <1>2, RevertKeeps
<1>3. CASE \E t \in Used : Record(t)
  BY <1>3, RecordKeepsTrail
<1>4. CASE StartCycle \/ CreateIntent \/ RecordExecution
  BY <1>4, WritesKeep
<1>5. CASE \E t \in OrderState : MoveIntent(t) \/ SetIntent(t)
  BY <1>5, IntentKeeps
<1>6. CASE AddChain \/ (\E b \in BOOLEAN : AddRisk(b)) \/ AddTarget
  BY <1>6, DecisionKeeps
<1>7. CASE Commit
  BY <1>7, CommitKeeps
<1>8. CASE Fail
  BY <1>8, RollbackKeeps DEF Fail
<1>9. CASE \E t \in Used : Gone(t)
  BY <1>9, GoneKeeps
<1>10. CASE \E c \in rows : \E p \in Must(c) \cup May(c) : Redirect(c, p)
  BY <1>10, RedirectKeeps
<1>11. CASE \E t \in Used : Truncate(Cascade(t))
  BY <1>11, TruncateKeeps
<1>12. CASE UNCHANGED trailVars
  BY <1>12 DEF trailVars, TrailInv, TablesInv, RowsInv, LinkInv, DecisionInv, KeptInv, WholeInv,
               DecisionsAreWhole, Must, May, Names
<1> QED
  BY <1>1, <1>2, <1>3, <1>4, <1>5, <1>6, <1>7, <1>8, <1>9, <1>10, <1>11, <1>12 DEF TrailNext, Gone

LEMMA TrailInvariant == TrailSpec => []TrailInv
BY TrailInvInit, TrailStep, PTL DEF TrailSpec

(* No row refers to one that is not there and no decision stands alone,     *)
(* whatever is written, broken off, deleted or migrated, and in whichever   *)
(* tables there are rows (repositories.py, the keys and triggers of the     *)
(* migrations).                                                             *)
THEOREM TrailHolds == TrailSpec => []TrailIsSound
<1>1. TrailInv => TrailIsSound
  <2> SUFFICES ASSUME TrailInv PROVE TrailIsSound
    OBVIOUS
  <2>1. TablesInv /\ RowsInv /\ LinkInv /\ DecisionInv /\ WholeInv
    BY DEF TrailInv
  <2>2. point = "idle" <=> draft = {}
    BY <2>1, DraftedIs DEF DecisionInv, TablesInv, Chain
  <2> QED
    BY <2>1, <2>2 DEF TrailIsSound, TrailTypeOK, TablesInv, RowsInv, LinkInv, DecisionInv, WholeInv
<1> QED
  BY <1>1, TrailInvariant, PTL

-----------------------------------------------------------------------------
(* The three schemas are one: what the migrations create, what they drop    *)
(* and what the models declare.                                             *)

LEMMA Tuples ==
  /\ \A a : ToSet(<< a >>) = {a}
  /\ \A a, b : ToSet(<< a, b >>) = {a, b}
  /\ \A a, b, c : ToSet(<< a, b, c >>) = {a, b, c}
  /\ \A a, b, c, d : ToSet(<< a, b, c, d >>) = {a, b, c, d}
  /\ \A a, b, c, d, e : ToSet(<< a, b, c, d, e >>) = {a, b, c, d, e}
<1>1. (\A a : ToSet(<< a >>) = {a}) /\ (\A a, b : ToSet(<< a, b >>) = {a, b})
  BY DEF ToSet
<1>2. \A a, b, c : ToSet(<< a, b, c >>) = {a, b, c}
  BY DEF ToSet
<1>3. \A a, b, c, d : ToSet(<< a, b, c, d >>) = {a, b, c, d}
  BY DEF ToSet
<1>4. \A a, b, c, d, e : ToSet(<< a, b, c, d, e >>) = {a, b, c, d, e}
  BY DEF ToSet
<1> QED
  BY <1>1, <1>2, <1>3, <1>4

\* The tables of each part of a migration, as a set.
LEMMA ReferenceMembers ==
  /\ ToSet(ReferenceTables) = {Table("config_versions", {}), Table("corporate_actions", {}),
        Table("daily_performance", {}), Table("data_snapshots", {}), Table("instruments", {})}
  /\ ToSet(ChannelTables) = {Table("kill_switch_events", {}), Table("notifications_sent", {}),
        Table("strategy_versions", {}), Table("system_events", {})}
BY Tuples DEF ReferenceTables, ChannelTables

LEMMA EvidenceMembers ==
  ToSet(EvidenceTables) = {Table("data_quality_reports", {"data_snapshots"}),
        TableOpt("research_runs", {}, {"data_snapshots", "strategy_versions"}),
        Table("strategy_lifecycle_events", {"strategy_versions"})}
BY Tuples DEF EvidenceTables

LEMMA CycleMembers ==
  ToSet(CycleTables) = {Table("trading_cycles", {"config_versions"}),
        Table("account_snapshots", {"trading_cycles"}), Table("ensemble_decisions", {"trading_cycles"}),
        TableOpt("errors", {}, {"trading_cycles"}),
        TableOpt("indicator_snapshots", {"trading_cycles"}, {"data_snapshots"})}
BY Tuples DEF CycleTables

LEMMA ReportMembers ==
  ToSet(ReportTables) = {Table("portfolio_proposals", {"trading_cycles"}),
        Table("position_snapshots", {"trading_cycles"}), Table("preflight_reports", {"trading_cycles"}),
        Table("reconciliation_reports", {"trading_cycles"}),
        Table("strategy_signals", {"trading_cycles", "strategy_versions"})}
BY Tuples DEF ReportTables

LEMMA DecisionMembers ==
  /\ ToSet(DecisionTables) = {Table("risk_decisions", {"trading_cycles", "portfolio_proposals"}),
        Table("order_intents", {"trading_cycles", "risk_decisions"}),
        Table("shadow_orders", {"trading_cycles", "risk_decisions"}),
        Table("target_portfolios", {"config_versions", "risk_decisions"})}
  /\ ToSet(OrderTables) = {Table("executions", {"order_intents"}), Table("order_events", {"order_intents"})}
BY Tuples DEF DecisionTables, OrderTables

LEMMA LaterMembers ==
  /\ ToSet(StepTables) = {Table("cycle_steps", {"trading_cycles"})}
  /\ ToSet(SwitchTables) = {Table("kill_switch_state", {})}
  /\ ToSet(ControlTables) = {Table("control_events", {}), Table("control_jobs", {}),
        Table("control_state", {}), Table("data_uploads", {}), Table("dataset_inventory", {})}
  /\ ToSet(WorkerTables) = {Table("runtime_config", {}), Table("runtime_config_changes", {}),
        Table("worker_heartbeats", {}), Table("backtest_runs", {"control_jobs"}),
        Table("control_job_logs", {"control_jobs"})}
BY Tuples DEF StepTables, SwitchTables, ControlTables, WorkerTables

\* The first upgrade, part by part, and the last.
FirstTwo   == ReferenceTables \o ChannelTables
FirstThree == FirstTwo \o EvidenceTables
FirstFour  == FirstThree \o CycleTables
FirstFive  == FirstFour \o ReportTables
FirstSix   == FirstFive \o DecisionTables
AllTables  == FirstSix \o OrderTables
LastTwo    == ControlTables \o WorkerTables

LEMMA UpgradesAre ==
  Upgrade[1] = AllTables /\ Upgrade[2] = StepTables /\ Upgrade[3] = SwitchTables /\ Upgrade[4] = LastTwo
<1>1. Upgrade = << AllTables, StepTables, SwitchTables, LastTwo >>
  BY DEF Upgrade, AllTables, FirstSix, FirstFive, FirstFour, FirstThree, FirstTwo, LastTwo
<1> QED
  BY <1>1

LEMMA PartsOfAll ==
  /\ FirstTwo \in Seq(Models)   /\ ToSet(FirstTwo)   = ToSet(ReferenceTables) \cup ToSet(ChannelTables)
  /\ FirstThree \in Seq(Models) /\ ToSet(FirstThree) = ToSet(FirstTwo) \cup ToSet(EvidenceTables)
  /\ FirstFour \in Seq(Models)  /\ ToSet(FirstFour)  = ToSet(FirstThree) \cup ToSet(CycleTables)
  /\ FirstFive \in Seq(Models)  /\ ToSet(FirstFive)  = ToSet(FirstFour) \cup ToSet(ReportTables)
  /\ FirstSix \in Seq(Models)   /\ ToSet(FirstSix)   = ToSet(FirstFive) \cup ToSet(DecisionTables)
  /\ ToSet(AllTables) = ToSet(FirstSix) \cup ToSet(OrderTables)
<1>1. FirstTwo \in Seq(Models) /\ ToSet(FirstTwo) = ToSet(ReferenceTables) \cup ToSet(ChannelTables)
  BY ConcatenatedMembers, ReferencePart DEF FirstTwo
<1>2. FirstThree \in Seq(Models) /\ ToSet(FirstThree) = ToSet(FirstTwo) \cup ToSet(EvidenceTables)
  BY <1>1, ConcatenatedMembers, EvidencePart DEF FirstThree
<1>3. FirstFour \in Seq(Models) /\ ToSet(FirstFour) = ToSet(FirstThree) \cup ToSet(CycleTables)
  BY <1>2, ConcatenatedMembers, CyclePart DEF FirstFour
<1>4. FirstFive \in Seq(Models) /\ ToSet(FirstFive) = ToSet(FirstFour) \cup ToSet(ReportTables)
  BY <1>3, ConcatenatedMembers, ReportPart DEF FirstFive
<1>5. FirstSix \in Seq(Models) /\ ToSet(FirstSix) = ToSet(FirstFive) \cup ToSet(DecisionTables)
  BY <1>4, ConcatenatedMembers, DecisionPart DEF FirstSix
<1>6. ToSet(AllTables) = ToSet(FirstSix) \cup ToSet(OrderTables)
  BY <1>5, ConcatenatedMembers, DecisionPart DEF AllTables
<1> QED
  BY <1>1, <1>2, <1>3, <1>4, <1>5, <1>6

LEMMA UpgradeParts ==
  /\ TableSet(1) = ToSet(ReferenceTables) \cup ToSet(ChannelTables) \cup ToSet(EvidenceTables)
                     \cup ToSet(CycleTables) \cup ToSet(ReportTables) \cup ToSet(DecisionTables)
                     \cup ToSet(OrderTables)
  /\ TableSet(2) = ToSet(StepTables) /\ TableSet(3) = ToSet(SwitchTables)
  /\ TableSet(4) = ToSet(ControlTables) \cup ToSet(WorkerTables)
<1>1. ToSet(LastTwo) = ToSet(ControlTables) \cup ToSet(WorkerTables)
  BY ConcatenatedMembers, LaterPart DEF LastTwo
<1>2. ToSet(AllTables) = ToSet(ReferenceTables) \cup ToSet(ChannelTables) \cup ToSet(EvidenceTables)
                     \cup ToSet(CycleTables) \cup ToSet(ReportTables) \cup ToSet(DecisionTables)
                     \cup ToSet(OrderTables)
  BY PartsOfAll
<1> QED
  BY <1>1, <1>2, UpgradesAre DEF TableSet

\* All the migrations together make the models.
Upto(r) == UNION {TableSet(n) : n \in 1..r}

LEMMA UptoNext == \A r \in 0..3 : Upto(r + 1) = Upto(r) \cup TableSet(r + 1)
<1> SUFFICES ASSUME NEW r \in 0..3 PROVE Upto(r + 1) = Upto(r) \cup TableSet(r + 1)
  OBVIOUS
<1>1. 1..(r + 1) = 1..r \cup {r + 1}
  OBVIOUS
<1> QED
  BY <1>1 DEF Upto

LEMMA UptoAre ==
  /\ Upto(0) = {} /\ Upto(1) = TableSet(1) /\ Upto(2) = TableSet(1) \cup TableSet(2)
  /\ Upto(3) = TableSet(1) \cup TableSet(2) \cup TableSet(3)
  /\ Upto(4) = TableSet(1) \cup TableSet(2) \cup TableSet(3) \cup TableSet(4)
<1>1. Upto(0) = {}
  <2>1. 1..0 = {}
    OBVIOUS
  <2> QED
    BY <2>1 DEF Upto
<1>2. /\ Upto(1) = Upto(0) \cup TableSet(1) /\ Upto(2) = Upto(1) \cup TableSet(2)
      /\ Upto(3) = Upto(2) \cup TableSet(3) /\ Upto(4) = Upto(3) \cup TableSet(4)
  <2>1. 0 + 1 = 1 /\ 1 + 1 = 2 /\ 2 + 1 = 3 /\ 3 + 1 = 4
    OBVIOUS
  <2> QED
    BY <2>1, UptoNext
<1> QED
  BY <1>1, <1>2

LEMMA HeadIsModels == Upto(4) = Models
<1>1. Upto(4) \subseteq Models
  BY UpgradesAreModels, UptoAre DEF Revisions
<1>2. ReferenceModels \subseteq TableSet(1)
  <2>1. {Table("config_versions", {}), Table("instruments", {})} \subseteq ToSet(ReferenceTables)
        /\ Table("strategy_versions", {}) \in ToSet(ChannelTables)
    BY ReferenceMembers
  <2>2. {Table("strategy_lifecycle_events", {"strategy_versions"}),
         TableOpt("research_runs", {}, {"strategy_versions", "data_snapshots"})} \subseteq ToSet(EvidenceTables)
    BY WrittenAlike, EvidenceMembers
  <2> QED
    BY <2>1, <2>2, UpgradeParts DEF ReferenceModels
<1>3. DataModels \subseteq TableSet(1)
  BY UpgradeParts, ReferenceMembers, EvidenceMembers DEF DataModels
<1>4. DecisionModels \subseteq TableSet(1)
  <2>1. {Table("trading_cycles", {"config_versions"}), OfCycle("ensemble_decisions", {}),
         TableOpt("indicator_snapshots", {"trading_cycles"}, {"data_snapshots"})} \subseteq ToSet(CycleTables)
    BY WrittenAlike, CycleMembers
  <2>2. {OfCycle("preflight_reports", {}), OfCycle("strategy_signals", {"strategy_versions"}),
         OfCycle("portfolio_proposals", {})} \subseteq ToSet(ReportTables)
    BY WrittenAlike, ReportMembers
  <2>3. {OfCycle("risk_decisions", {"portfolio_proposals"}),
         Table("target_portfolios", {"risk_decisions", "config_versions"})} \subseteq ToSet(DecisionTables)
    BY WrittenAlike, DecisionMembers
  <2>4. DecisionModels \subseteq ToSet(CycleTables) \cup ToSet(ReportTables) \cup ToSet(DecisionTables)
    BY <2>1, <2>2, <2>3 DEF DecisionModels
  <2> QED
    BY <2>4, UpgradeParts
<1>5. ExecutionModels \subseteq TableSet(1)
  <2>1. OfCycle("account_snapshots", {}) \in ToSet(CycleTables)
    BY WrittenAlike, CycleMembers
  <2>2. {OfCycle("position_snapshots", {}), OfCycle("reconciliation_reports", {})} \subseteq ToSet(ReportTables)
    BY WrittenAlike, ReportMembers
  <2>3. {OfCycle("order_intents", {"risk_decisions"}), OfCycle("shadow_orders", {"risk_decisions"})}
           \subseteq ToSet(DecisionTables)
    BY WrittenAlike, DecisionMembers
  <2>4. {Table("order_events", {"order_intents"}), Table("executions", {"order_intents"})}
           \subseteq ToSet(OrderTables)
    BY DecisionMembers
  <2>5. ExecutionModels \subseteq ToSet(CycleTables) \cup ToSet(ReportTables) \cup ToSet(DecisionTables)
                                  \cup ToSet(OrderTables)
    BY <2>1, <2>2, <2>3, <2>4 DEF ExecutionModels
  <2> QED
    BY <2>5, UpgradeParts
<1>6. MonitoringModels \subseteq TableSet(1) \cup TableSet(2) \cup TableSet(3)
  <2>1. {Table("daily_performance", {})} \subseteq ToSet(ReferenceTables)
        /\ {Table("system_events", {}), Table("kill_switch_events", {}), Table("notifications_sent", {})}
              \subseteq ToSet(ChannelTables)
    BY ReferenceMembers
  <2>2. TableOpt("errors", {}, {"trading_cycles"}) \in ToSet(CycleTables)
    BY CycleMembers
  <2>3. Table("kill_switch_state", {}) \in ToSet(SwitchTables)
        /\ OfCycle("cycle_steps", {}) \in ToSet(StepTables)
    BY WrittenAlike, LaterMembers
  <2> QED
    BY <2>1, <2>2, <2>3, UpgradeParts DEF MonitoringModels
<1>7. ControlModels \subseteq TableSet(4)
  BY UpgradeParts, LaterMembers DEF ControlModels
<1> QED
  BY <1>1, <1>2, <1>3, <1>4, <1>5, <1>6, <1>7, UptoAre DEF Models

\* The guarded tables of all the migrations are the models' append-only ones.
GuardsUpto(r) == UNION {Guards[n] : n \in 1..r}

LEMMA HeadIsGuarded == GuardsUpto(4) = AppendOnly
<1>1. /\ Guards[1] = AuditGuards /\ Guards[2] = {"cycle_steps"} /\ Guards[3] = {}
      /\ Guards[4] = {"control_job_logs", "runtime_config_changes", "control_events"}
  BY DEF Guards
<1>2. 1..4 = {1, 2, 3, 4}
  OBVIOUS
<1>3. GuardsUpto(4) = Guards[1] \cup Guards[2] \cup Guards[3] \cup Guards[4]
  BY <1>2 DEF GuardsUpto
<1>4. AppendOnly = AuditGuards \cup {"cycle_steps"}
                     \cup {"control_job_logs", "runtime_config_changes", "control_events"}
  BY DEF AppendOnly, AuditGuards
<1> QED
  BY <1>1, <1>3, <1>4
-----------------------------------------------------------------------------
(* What a downgrade drops. *)

LEMMA NamesOfUnion == \A S, T : Names(S \cup T) = Names(S) \cup Names(T)
BY DEF Names

LEMMA EarlyNames ==
  /\ Names(ToSet(ReferenceTables)) =
        {"config_versions", "corporate_actions", "daily_performance", "data_snapshots", "instruments"}
  /\ Names(ToSet(ChannelTables)) =
        {"kill_switch_events", "notifications_sent", "strategy_versions", "system_events"}
  /\ Names(ToSet(EvidenceTables)) =
        {"data_quality_reports", "research_runs", "strategy_lifecycle_events"}
  /\ Names(ToSet(CycleTables)) =
        {"trading_cycles", "account_snapshots", "ensemble_decisions", "errors", "indicator_snapshots"}
<1>1. Names(ToSet(ReferenceTables)) =
        {"config_versions", "corporate_actions", "daily_performance", "data_snapshots", "instruments"}
  BY ReferenceMembers, TableNames DEF Names
<1>2. Names(ToSet(ChannelTables)) =
        {"kill_switch_events", "notifications_sent", "strategy_versions", "system_events"}
  BY ReferenceMembers, TableNames DEF Names
<1>3. Names(ToSet(EvidenceTables)) =
        {"data_quality_reports", "research_runs", "strategy_lifecycle_events"}
  BY EvidenceMembers, TableNames DEF Names
<1>4. Names(ToSet(CycleTables)) =
        {"trading_cycles", "account_snapshots", "ensemble_decisions", "errors", "indicator_snapshots"}
  BY CycleMembers, TableNames DEF Names
<1> QED
  BY <1>1, <1>2, <1>3, <1>4

LEMMA LateNames ==
  /\ Names(ToSet(ReportTables)) =
        {"portfolio_proposals", "position_snapshots", "preflight_reports", "reconciliation_reports",
         "strategy_signals"}
  /\ Names(ToSet(DecisionTables)) =
        {"risk_decisions", "order_intents", "shadow_orders", "target_portfolios"}
  /\ Names(ToSet(OrderTables)) = {"executions", "order_events"}
  /\ Names(TableSet(2)) = {"cycle_steps"} /\ Names(TableSet(3)) = {"kill_switch_state"}
  /\ Names(ToSet(ControlTables)) =
        {"control_events", "control_jobs", "control_state", "data_uploads", "dataset_inventory"}
  /\ Names(ToSet(WorkerTables)) =
        {"runtime_config", "runtime_config_changes", "worker_heartbeats", "backtest_runs",
         "control_job_logs"}
<1>1. Names(ToSet(ReportTables)) =
        {"portfolio_proposals", "position_snapshots", "preflight_reports", "reconciliation_reports",
         "strategy_signals"}
  BY ReportMembers, TableNames DEF Names
<1>2. Names(ToSet(DecisionTables)) =
        {"risk_decisions", "order_intents", "shadow_orders", "target_portfolios"}
  BY DecisionMembers, TableNames DEF Names
<1>3. Names(ToSet(OrderTables)) = {"executions", "order_events"}
  BY DecisionMembers, TableNames DEF Names
<1>4. Names(TableSet(2)) = {"cycle_steps"} /\ Names(TableSet(3)) = {"kill_switch_state"}
  BY LaterMembers, UpgradeParts, TableNames DEF Names
<1>5. Names(ToSet(ControlTables)) =
        {"control_events", "control_jobs", "control_state", "data_uploads", "dataset_inventory"}
  BY LaterMembers, TableNames DEF Names
<1>6. Names(ToSet(WorkerTables)) =
        {"runtime_config", "runtime_config_changes", "worker_heartbeats", "backtest_runs",
         "control_job_logs"}
  BY LaterMembers, TableNames DEF Names
<1> QED
  BY <1>1, <1>2, <1>3, <1>4, <1>5, <1>6

\* The names of the first and of the last migration.
AuditNames ==
    Names(ToSet(ReferenceTables)) \cup Names(ToSet(ChannelTables)) \cup Names(ToSet(EvidenceTables))
      \cup Names(ToSet(CycleTables)) \cup Names(ToSet(ReportTables)) \cup Names(ToSet(DecisionTables))
      \cup Names(ToSet(OrderTables))

ControlNames == Names(ToSet(ControlTables)) \cup Names(ToSet(WorkerTables))

LEMMA MigrationNames ==
  /\ Names(TableSet(1)) = AuditNames /\ Names(TableSet(2)) = {"cycle_steps"}
  /\ Names(TableSet(3)) = {"kill_switch_state"} /\ Names(TableSet(4)) = ControlNames
<1>1. Names(TableSet(1)) = AuditNames
  BY UpgradeParts DEF AuditNames, Names
<1>2. Names(TableSet(4)) = ControlNames
  BY UpgradeParts, NamesOfUnion DEF ControlNames
<1> QED
  BY <1>1, <1>2, LateNames

LEMMA AuditDropsAre ==
  /\ ToSet(AuditDrops) = AuditNames
  /\ DOMAIN AuditDrops = 1..28
<1>1. DOMAIN AuditDrops = 1..28
  BY DEF AuditDrops
<1>2. Names(ToSet(ReferenceTables)) \cup Names(ToSet(ChannelTables)) \cup Names(ToSet(EvidenceTables))
        \subseteq ToSet(AuditDrops)
  BY EarlyNames DEF AuditDrops, ToSet
<1>3. Names(ToSet(CycleTables)) \cup Names(ToSet(ReportTables)) \subseteq ToSet(AuditDrops)
  BY EarlyNames, LateNames DEF AuditDrops, ToSet
<1>4. Names(ToSet(DecisionTables)) \cup Names(ToSet(OrderTables)) \subseteq ToSet(AuditDrops)
  BY LateNames DEF AuditDrops, ToSet
<1>5. /\ AuditDrops[1] \in AuditNames /\ AuditDrops[2] \in AuditNames /\ AuditDrops[3] \in AuditNames
      /\ AuditDrops[4] \in AuditNames /\ AuditDrops[5] \in AuditNames /\ AuditDrops[6] \in AuditNames
      /\ AuditDrops[7] \in AuditNames /\ AuditDrops[8] \in AuditNames /\ AuditDrops[9] \in AuditNames
      /\ AuditDrops[10] \in AuditNames /\ AuditDrops[11] \in AuditNames /\ AuditDrops[12] \in AuditNames
      /\ AuditDrops[13] \in AuditNames /\ AuditDrops[14] \in AuditNames
  BY EarlyNames, LateNames DEF AuditDrops, AuditNames
<1>6. /\ AuditDrops[15] \in AuditNames /\ AuditDrops[16] \in AuditNames /\ AuditDrops[17] \in AuditNames
      /\ AuditDrops[18] \in AuditNames /\ AuditDrops[19] \in AuditNames /\ AuditDrops[20] \in AuditNames
      /\ AuditDrops[21] \in AuditNames /\ AuditDrops[22] \in AuditNames /\ AuditDrops[23] \in AuditNames
      /\ AuditDrops[24] \in AuditNames /\ AuditDrops[25] \in AuditNames /\ AuditDrops[26] \in AuditNames
      /\ AuditDrops[27] \in AuditNames /\ AuditDrops[28] \in AuditNames
  BY EarlyNames, LateNames DEF AuditDrops, AuditNames
<1>7. ASSUME NEW i \in 1..28 PROVE AuditDrops[i] \in AuditNames
  BY <1>5, <1>6
<1>8. ToSet(AuditDrops) \subseteq AuditNames
  BY <1>1, <1>7 DEF ToSet
<1>9. AuditNames \subseteq ToSet(AuditDrops)
  BY <1>2, <1>3, <1>4 DEF AuditNames
<1> QED
  BY <1>1, <1>8, <1>9

LEMMA ControlDropsAre == ToSet(ControlDrops) = ControlNames /\ DOMAIN ControlDrops = 1..10
<1>1. DOMAIN ControlDrops = 1..10
  BY DEF ControlDrops
<1>2. ControlNames \subseteq ToSet(ControlDrops)
  <2>1. Names(ToSet(ControlTables)) \subseteq ToSet(ControlDrops)
    BY LateNames DEF ControlDrops, ToSet
  <2>2. Names(ToSet(WorkerTables)) \subseteq ToSet(ControlDrops)
    BY LateNames DEF ControlDrops, ToSet
  <2> QED
    BY <2>1, <2>2 DEF ControlNames
<1>3. ASSUME NEW i \in 1..10 PROVE ControlDrops[i] \in ControlNames
  <2>1. /\ ControlDrops[1] \in ControlNames /\ ControlDrops[2] \in ControlNames
        /\ ControlDrops[3] \in ControlNames /\ ControlDrops[4] \in ControlNames
        /\ ControlDrops[5] \in ControlNames /\ ControlDrops[6] \in ControlNames
        /\ ControlDrops[7] \in ControlNames /\ ControlDrops[8] \in ControlNames
        /\ ControlDrops[9] \in ControlNames /\ ControlDrops[10] \in ControlNames
    BY LateNames DEF ControlNames, ControlDrops
  <2> QED
    BY <2>1
<1> QED
  BY <1>1, <1>2, <1>3 DEF ToSet

\* A downgrade drops what its upgrade created, and nothing else there is.
LEMMA DropsAreTheOwn ==
  /\ \A r \in Revisions : ToSet(Downgrade[r]) = Names(TableSet(r))
  /\ \A r \in Revisions, n \in Revisions : n < r => Names(TableSet(n)) \cap Names(TableSet(r)) = {}
<1>1. /\ Downgrade[1] = AuditDrops /\ Downgrade[2] = << "cycle_steps" >>
      /\ Downgrade[3] = << "kill_switch_state" >> /\ Downgrade[4] = ControlDrops
  BY DEF Downgrade
<1>2. ToSet(<< "cycle_steps" >>) = {"cycle_steps"} /\ ToSet(<< "kill_switch_state" >>) = {"kill_switch_state"}
  BY Tuples
<1>3. \A r \in Revisions : r = 1 \/ r = 2 \/ r = 3 \/ r = 4
  BY DEF Revisions
<1>4. \A r \in Revisions : ToSet(Downgrade[r]) = Names(TableSet(r))
  BY <1>1, <1>2, <1>3, AuditDropsAre, ControlDropsAre, MigrationNames
<1>5. AuditNames \cap {"cycle_steps", "kill_switch_state"} = {}
  BY EarlyNames, LateNames DEF AuditNames
<1>6. ControlNames \cap {"cycle_steps", "kill_switch_state"} = {}
  BY LateNames DEF ControlNames
<1>7. AuditNames \cap ControlNames = {}
  <2>1. /\ Names(ToSet(ReferenceTables)) \cap ControlNames = {}
        /\ Names(ToSet(ChannelTables)) \cap ControlNames = {}
        /\ Names(ToSet(EvidenceTables)) \cap ControlNames = {}
        /\ Names(ToSet(CycleTables)) \cap ControlNames = {}
    BY EarlyNames, LateNames DEF ControlNames
  <2>2. /\ Names(ToSet(ReportTables)) \cap ControlNames = {}
        /\ Names(ToSet(DecisionTables)) \cap ControlNames = {}
        /\ Names(ToSet(OrderTables)) \cap ControlNames = {}
    BY LateNames DEF ControlNames
  <2> QED
    BY <2>1, <2>2 DEF AuditNames
<1>8. "cycle_steps" # "kill_switch_state"
  OBVIOUS
<1>9. /\ Names(TableSet(1)) \cap Names(TableSet(2)) = {} /\ Names(TableSet(1)) \cap Names(TableSet(3)) = {}
      /\ Names(TableSet(1)) \cap Names(TableSet(4)) = {} /\ Names(TableSet(2)) \cap Names(TableSet(3)) = {}
      /\ Names(TableSet(2)) \cap Names(TableSet(4)) = {} /\ Names(TableSet(3)) \cap Names(TableSet(4)) = {}
  BY <1>5, <1>6, <1>7, <1>8, MigrationNames
<1>10. ASSUME NEW r \in Revisions, NEW n \in Revisions, n < r
       PROVE  Names(TableSet(n)) \cap Names(TableSet(r)) = {}
  <2>1. \/ n = 1 /\ r \in {2, 3, 4}
        \/ n = 2 /\ r \in {3, 4}
        \/ n = 3 /\ r = 4
    BY <1>10, <1>3
  <2> QED
    BY <2>1, <1>9
<1> QED
  BY <1>4, <1>10
-----------------------------------------------------------------------------
(* Every migration can be run. *)

LEMMA ConcatenatedCreatable ==
  ASSUME NEW S, NEW a \in Seq(S), NEW b \in Seq(S), NEW T, Creatable(T, a), Creatable(T \cup ToSet(a), b)
  PROVE  Creatable(T, a \o b)
<1> SUFFICES ASSUME NEW i \in DOMAIN (a \o b)
             PROVE  /\ (a \o b)[i].name \notin Names(T)
                    /\ (a \o b)[i].must \cup (a \o b)[i].may
                          \subseteq Names(T) \cup {(a \o b)[j].name : j \in 1..(i - 1)}
  BY DEF Creatable
<1>1. a \o b \in Seq(S) /\ Len(a \o b) = Len(a) + Len(b) /\ Len(a) \in Nat /\ Len(b) \in Nat
  OBVIOUS
<1>2. \A k \in 1..Len(a) : (a \o b)[k] = a[k]
  OBVIOUS
<1>3. \A k \in 1..Len(b) : (a \o b)[Len(a) + k] = b[k]
  OBVIOUS
<1>4. i \in 1..(Len(a) + Len(b)) /\ DOMAIN a = 1..Len(a) /\ DOMAIN b = 1..Len(b)
  BY <1>1
<1>5. CASE i <= Len(a)
  <2>1. i \in DOMAIN a /\ (a \o b)[i] = a[i]
    BY <1>2, <1>4, <1>5
  <2>2. \A j \in 1..(i - 1) : (a \o b)[j] = a[j]
    BY <1>1, <1>2, <1>4, <1>5
  <2>3. {(a \o b)[j].name : j \in 1..(i - 1)} = {a[j].name : j \in 1..(i - 1)}
    BY <2>2
  <2> QED
    BY <2>1, <2>3 DEF Creatable
<1>6. CASE i > Len(a)
  <2>1. PICK k \in 1..Len(b) : i = Len(a) + k
    <3>1. i - Len(a) \in 1..Len(b) /\ i = Len(a) + (i - Len(a))
      BY <1>1, <1>4, <1>6
    <3> QED
      BY <3>1
  <2>2. (a \o b)[i] = b[k] /\ k \in DOMAIN b
    BY <2>1, <1>3, <1>4
  <2>3. /\ b[k].name \notin Names(T \cup ToSet(a))
        /\ b[k].must \cup b[k].may \subseteq Names(T \cup ToSet(a)) \cup {b[j].name : j \in 1..(k - 1)}
    BY <2>2 DEF Creatable
  <2>4. Names(ToSet(a)) \subseteq {(a \o b)[j].name : j \in 1..(i - 1)}
    <3>1. \A j \in 1..Len(a) : j \in 1..(i - 1)
      BY <1>1, <2>1
    <3>2. \A x \in ToSet(a) : \E j \in 1..Len(a) : x = a[j]
      BY <1>4 DEF ToSet
    <3> QED
      BY <3>1, <3>2, <1>2 DEF Names
  <2>5. {b[j].name : j \in 1..(k - 1)} \subseteq {(a \o b)[j].name : j \in 1..(i - 1)}
    <3> SUFFICES ASSUME NEW j \in 1..(k - 1)
                 PROVE  \E l \in 1..(i - 1) : (a \o b)[l].name = b[j].name
      OBVIOUS
    <3>1. j \in 1..Len(b) /\ Len(a) + j \in 1..(i - 1)
      BY <1>1, <2>1
    <3>2. (a \o b)[Len(a) + j] = b[j]
      BY <3>1, <1>3
    <3> QED
      BY <3>1, <3>2
  <2>6. Names(T \cup ToSet(a)) = Names(T) \cup Names(ToSet(a))
    BY NamesOfUnion
  <2> QED
    BY <2>2, <2>3, <2>4, <2>5, <2>6
<1> QED
  BY <1>1, <1>4, <1>5, <1>6

\* A migration may be run on any database that has what it refers to and not its tables.
LEMMA ReferenceCreatable ==
  Creatable({}, ReferenceTables) /\ Creatable(ToSet(ReferenceTables), ChannelTables)
<1>1. Creatable({}, ReferenceTables)
  BY DEF Creatable, Names, ReferenceTables, Table
<1>2. Creatable(ToSet(ReferenceTables), ChannelTables)
  BY EarlyNames DEF Creatable, ChannelTables, Table
<1> QED
  BY <1>1, <1>2

LEMMA EvidenceCreatable ==
  ASSUME NEW T, {"data_snapshots", "strategy_versions"} \subseteq Names(T),
         Names(T) \cap Names(ToSet(EvidenceTables)) = {}
  PROVE  Creatable(T, EvidenceTables)
BY EarlyNames DEF Creatable, EvidenceTables, Table, TableOpt

LEMMA CycleCreatable ==
  ASSUME NEW T, {"config_versions", "data_snapshots"} \subseteq Names(T),
         Names(T) \cap Names(ToSet(CycleTables)) = {}
  PROVE  Creatable(T, CycleTables)
BY EarlyNames DEF Creatable, CycleTables, Table, TableOpt

LEMMA ReportCreatable ==
  ASSUME NEW T, {"trading_cycles", "strategy_versions"} \subseteq Names(T),
         Names(T) \cap Names(ToSet(ReportTables)) = {}
  PROVE  Creatable(T, ReportTables)
BY LateNames DEF Creatable, ReportTables, Table

LEMMA DecisionCreatable ==
  ASSUME NEW T, {"trading_cycles", "portfolio_proposals", "config_versions"} \subseteq Names(T),
         Names(T) \cap Names(ToSet(DecisionTables)) = {}
  PROVE  Creatable(T, DecisionTables)
BY LateNames DEF Creatable, DecisionTables, Table

LEMMA OrderCreatable ==
  ASSUME NEW T, {"order_intents"} \subseteq Names(T), Names(T) \cap Names(ToSet(OrderTables)) = {}
  PROVE  Creatable(T, OrderTables)
BY LateNames DEF Creatable, OrderTables, Table

LEMMA LaterCreatable ==
  ASSUME NEW T
  PROVE  /\ "trading_cycles" \in Names(T) /\ "cycle_steps" \notin Names(T) => Creatable(T, StepTables)
         /\ "kill_switch_state" \notin Names(T) => Creatable(T, SwitchTables)
         /\ Names(T) \cap Names(ToSet(ControlTables)) = {} => Creatable(T, ControlTables)
         /\ "control_jobs" \in Names(T) /\ Names(T) \cap Names(ToSet(WorkerTables)) = {}
               => Creatable(T, WorkerTables)
<1>1. "trading_cycles" \in Names(T) /\ "cycle_steps" \notin Names(T) => Creatable(T, StepTables)
  BY DEF Creatable, StepTables, Table
<1>2. "kill_switch_state" \notin Names(T) => Creatable(T, SwitchTables)
  BY DEF Creatable, SwitchTables, Table
<1>3. Names(T) \cap Names(ToSet(ControlTables)) = {} => Creatable(T, ControlTables)
  BY LateNames DEF Creatable, ControlTables, Table
<1>4. "control_jobs" \in Names(T) /\ Names(T) \cap Names(ToSet(WorkerTables)) = {}
        => Creatable(T, WorkerTables)
  BY LateNames DEF Creatable, WorkerTables, Table
<1> QED
  BY <1>1, <1>2, <1>3, <1>4

LEMMA FirstCreatable == Creatable({}, AllTables)
<1>1. Creatable({}, FirstTwo)
  <2>1. {} \cup ToSet(ReferenceTables) = ToSet(ReferenceTables)
    OBVIOUS
  <2> QED
    BY <2>1, ReferenceCreatable, ConcatenatedCreatable, ReferencePart DEF FirstTwo
<1>2. Names({} \cup ToSet(FirstTwo)) = Names(ToSet(ReferenceTables)) \cup Names(ToSet(ChannelTables))
  BY PartsOfAll DEF Names
<1>3. Creatable({}, FirstThree)
  <2>1. /\ {"data_snapshots", "strategy_versions"} \subseteq Names({} \cup ToSet(FirstTwo))
        /\ Names({} \cup ToSet(FirstTwo)) \cap Names(ToSet(EvidenceTables)) = {}
    BY <1>2, EarlyNames
  <2>2. Creatable({} \cup ToSet(FirstTwo), EvidenceTables)
    BY <2>1, EvidenceCreatable
  <2> QED
    BY <1>1, <2>2, ConcatenatedCreatable, PartsOfAll, EvidencePart DEF FirstThree
<1>4. Names({} \cup ToSet(FirstThree)) = Names({} \cup ToSet(FirstTwo)) \cup Names(ToSet(EvidenceTables))
  BY PartsOfAll DEF Names
<1>5. Creatable({}, FirstFour)
  <2>1. /\ {"config_versions", "data_snapshots"} \subseteq Names({} \cup ToSet(FirstThree))
        /\ Names({} \cup ToSet(FirstThree)) \cap Names(ToSet(CycleTables)) = {}
    BY <1>2, <1>4, EarlyNames
  <2>2. Creatable({} \cup ToSet(FirstThree), CycleTables)
    BY <2>1, CycleCreatable
  <2> QED
    BY <1>3, <2>2, ConcatenatedCreatable, PartsOfAll, CyclePart DEF FirstFour
<1>6. Names({} \cup ToSet(FirstFour)) = Names({} \cup ToSet(FirstThree)) \cup Names(ToSet(CycleTables))
  BY PartsOfAll DEF Names
<1>7. Creatable({}, FirstFive)
  <2>1. {"trading_cycles", "strategy_versions"} \subseteq Names({} \cup ToSet(FirstFour))
    BY <1>2, <1>4, <1>6, EarlyNames
  <2>2. Names({} \cup ToSet(FirstFour)) \cap Names(ToSet(ReportTables)) = {}
    BY <1>2, <1>4, <1>6, EarlyNames, LateNames
  <2>3. Creatable({} \cup ToSet(FirstFour), ReportTables)
    BY <2>1, <2>2, ReportCreatable
  <2> QED
    BY <1>5, <2>3, ConcatenatedCreatable, PartsOfAll, ReportPart DEF FirstFive
<1>8. Names({} \cup ToSet(FirstFive)) = Names({} \cup ToSet(FirstFour)) \cup Names(ToSet(ReportTables))
  BY PartsOfAll DEF Names
<1>9. Creatable({}, FirstSix)
  <2>1. {"trading_cycles", "portfolio_proposals", "config_versions"} \subseteq Names({} \cup ToSet(FirstFive))
    BY <1>2, <1>4, <1>6, <1>8, EarlyNames, LateNames
  <2>2. Names({} \cup ToSet(FirstFive)) \cap Names(ToSet(DecisionTables)) = {}
    BY <1>2, <1>4, <1>6, <1>8, EarlyNames, LateNames
  <2>3. Creatable({} \cup ToSet(FirstFive), DecisionTables)
    BY <2>1, <2>2, DecisionCreatable
  <2> QED
    BY <1>7, <2>3, ConcatenatedCreatable, PartsOfAll, DecisionPart DEF FirstSix
<1>10. Names({} \cup ToSet(FirstSix)) = Names({} \cup ToSet(FirstFive)) \cup Names(ToSet(DecisionTables))
  BY PartsOfAll DEF Names
<1>11. /\ {"order_intents"} \subseteq Names({} \cup ToSet(FirstSix))
       /\ Names({} \cup ToSet(FirstSix)) \cap Names(ToSet(OrderTables)) = {}
  BY <1>2, <1>4, <1>6, <1>8, <1>10, EarlyNames, LateNames
<1>12. Creatable({} \cup ToSet(FirstSix), OrderTables)
  BY <1>11, OrderCreatable
<1> QED
  BY <1>9, <1>12, ConcatenatedCreatable, PartsOfAll, DecisionPart DEF AllTables

LEMMA NamesUpto ==
  /\ Names(Upto(1)) = AuditNames /\ Names(Upto(2)) = AuditNames \cup {"cycle_steps"}
  /\ Names(Upto(3)) = AuditNames \cup {"cycle_steps", "kill_switch_state"}
<1>1. Names(Upto(1)) = AuditNames
  BY UptoAre, MigrationNames
<1>2. Names(Upto(2)) = Names(Upto(1)) \cup {"cycle_steps"}
  BY UptoAre, MigrationNames, NamesOfUnion
<1>3. Names(Upto(3)) = Names(Upto(2)) \cup {"kill_switch_state"}
  <2>1. Upto(3) = Upto(2) \cup TableSet(3)
    BY UptoAre
  <2> QED
    BY <2>1, MigrationNames, NamesOfUnion
<1> QED
  BY <1>1, <1>2, <1>3

LEMMA UpgradesRun == \A r \in 0..3 : Creatable(Upto(r), Upgrade[r + 1])
<1>1. Creatable(Upto(0), Upgrade[1])
  BY FirstCreatable, UptoAre, UpgradesAre
<1>2. Creatable(Upto(1), Upgrade[2])
  <2>1. "trading_cycles" \in AuditNames /\ "cycle_steps" \notin AuditNames
    BY EarlyNames, LateNames DEF AuditNames
  <2> QED
    BY <2>1, NamesUpto, UpgradesAre, LaterCreatable
<1>3. Creatable(Upto(2), Upgrade[3])
  <2>1. "kill_switch_state" \notin AuditNames \cup {"cycle_steps"}
    BY EarlyNames, LateNames DEF AuditNames
  <2> QED
    BY <2>1, NamesUpto, UpgradesAre, LaterCreatable
<1>4. Creatable(Upto(3), Upgrade[4])
  <2>1. Names(Upto(3)) \cap ControlNames = {}
    BY DropsAreTheOwn, MigrationNames, NamesUpto DEF Revisions
  <2>2. Creatable(Upto(3), ControlTables)
    BY <2>1, LaterCreatable DEF ControlNames
  <2>3. Names(Upto(3) \cup ToSet(ControlTables)) = Names(Upto(3)) \cup Names(ToSet(ControlTables))
    BY NamesOfUnion
  <2>4. Names(ToSet(ControlTables)) \cap Names(ToSet(WorkerTables)) = {}
        /\ "control_jobs" \in Names(ToSet(ControlTables))
    BY LateNames
  <2>5. Names(Upto(3) \cup ToSet(ControlTables)) \cap Names(ToSet(WorkerTables)) = {}
        /\ "control_jobs" \in Names(Upto(3) \cup ToSet(ControlTables))
    BY <2>1, <2>3, <2>4 DEF ControlNames
  <2>6. Creatable(Upto(3) \cup ToSet(ControlTables), WorkerTables)
    BY <2>5, LaterCreatable
  <2> QED
    BY <2>2, <2>6, ConcatenatedCreatable, UpgradesAre, LaterPart DEF LastTwo
<1> SUFFICES ASSUME NEW r \in 0..3 PROVE Creatable(Upto(r), Upgrade[r + 1])
  OBVIOUS
<1>5. \/ r = 0 /\ r + 1 = 1
      \/ r = 1 /\ r + 1 = 2
      \/ r = 2 /\ r + 1 = 3
      \/ r = 3 /\ r + 1 = 4
  OBVIOUS
<1> QED
  BY <1>1, <1>2, <1>3, <1>4, <1>5
-----------------------------------------------------------------------------
(* Every migration can be taken back. *)

\* Tables refer to tables there are.
LEMMA ReferencesExist ==
  \A r \in 0..4 : \A x \in Upto(r) : x.must \cup x.may \subseteq Names(Upto(r))
<1>1. \A x \in Upto(0) : x.must \cup x.may \subseteq Names(Upto(0))
  BY UptoAre
<1>2. ASSUME NEW r \in 0..3, \A x \in Upto(r) : x.must \cup x.may \subseteq Names(Upto(r))
      PROVE  \A x \in Upto(r + 1) : x.must \cup x.may \subseteq Names(Upto(r + 1))
  <2>1. Upto(r + 1) = Upto(r) \cup TableSet(r + 1)
    BY UptoNext
  <2>2. Names(Upto(r)) \subseteq Names(Upto(r + 1))
    BY <2>1 DEF Names
  <2>3. ASSUME NEW x \in TableSet(r + 1) PROVE x.must \cup x.may \subseteq Names(Upto(r + 1))
    <3>1. PICK i \in DOMAIN Upgrade[r + 1] : x = Upgrade[r + 1][i]
      BY <2>3 DEF TableSet, ToSet
    <3>2. x.must \cup x.may \subseteq Names(Upto(r)) \cup {Upgrade[r + 1][j].name : j \in 1..(i - 1)}
      BY <3>1, UpgradesRun DEF Creatable
    <3>3. ASSUME NEW j \in 1..(i - 1) PROVE Upgrade[r + 1][j].name \in Names(Upto(r + 1))
      <4>1. Upgrade[r + 1] \in Seq(Models)
        BY UpgradesAreModels DEF Revisions
      <4>2. j \in DOMAIN Upgrade[r + 1]
        BY <3>1, <4>1
      <4>3. Upgrade[r + 1][j] \in TableSet(r + 1)
        BY <4>2 DEF TableSet, ToSet
      <4> QED
        BY <4>3, <2>1 DEF Names
    <3> QED
      BY <3>2, <3>3, <2>2
  <2> QED
    BY <1>2, <2>1, <2>2, <2>3
<1>3. \A x \in Upto(1) : x.must \cup x.may \subseteq Names(Upto(1))
  BY <1>1, <1>2
<1>4. \A x \in Upto(2) : x.must \cup x.may \subseteq Names(Upto(2))
  BY <1>2, <1>3
<1>5. \A x \in Upto(3) : x.must \cup x.may \subseteq Names(Upto(3))
  BY <1>2, <1>4
<1>6. \A x \in Upto(4) : x.must \cup x.may \subseteq Names(Upto(4))
  BY <1>2, <1>5
<1>7. \A r \in 0..4 : r = 0 \/ r = 1 \/ r = 2 \/ r = 3 \/ r = 4
  OBVIOUS
<1> QED
  BY <1>1, <1>3, <1>4, <1>5, <1>6, <1>7

\* A table goes before every table it refers to.
GoesFirst(drops, x) ==
    \E j \in DOMAIN drops :
        /\ drops[j] = x.name
        /\ \A i \in DOMAIN drops : drops[i] \in x.must \cup x.may => j < i

\* Where the first downgrade drops the tables others refer to.
LEMMA AuditPlaces ==
  ASSUME NEW i \in 1..28
  PROVE  /\ AuditDrops[i] = "config_versions" => i = 28
         /\ AuditDrops[i] = "data_snapshots" => i = 25
         /\ AuditDrops[i] = "strategy_versions" => i = 21
         /\ AuditDrops[i] = "trading_cycles" => i = 16
         /\ AuditDrops[i] = "portfolio_proposals" => i = 11
         /\ AuditDrops[i] = "risk_decisions" => i = 6
         /\ AuditDrops[i] = "order_intents" => i = 5
<1>1. AuditDrops[i] = "config_versions" => i = 28
  BY DEF AuditDrops
<1>2. AuditDrops[i] = "data_snapshots" => i = 25
  BY DEF AuditDrops
<1>3. AuditDrops[i] = "strategy_versions" => i = 21
  BY DEF AuditDrops
<1>4. AuditDrops[i] = "trading_cycles" => i = 16
  BY DEF AuditDrops
<1>5. AuditDrops[i] = "portfolio_proposals" => i = 11
  BY DEF AuditDrops
<1>6. AuditDrops[i] = "risk_decisions" => i = 6
  BY DEF AuditDrops
<1>7. AuditDrops[i] = "order_intents" => i = 5
  BY DEF AuditDrops
<1> QED
  BY <1>1, <1>2, <1>3, <1>4, <1>5, <1>6, <1>7

\* A table of the first migration by its place among the drops.
LEMMA AtPlace ==
  ASSUME NEW x, NEW j \in 1..28, AuditDrops[j] = x.name,
         x.must \cup x.may \subseteq {"config_versions", "data_snapshots", "strategy_versions", "trading_cycles",
                                     "portfolio_proposals", "risk_decisions", "order_intents"},
         "config_versions" \in x.must \cup x.may => j < 28,
         "data_snapshots" \in x.must \cup x.may => j < 25,
         "strategy_versions" \in x.must \cup x.may => j < 21,
         "trading_cycles" \in x.must \cup x.may => j < 16,
         "portfolio_proposals" \in x.must \cup x.may => j < 11,
         "risk_decisions" \in x.must \cup x.may => j < 6,
         "order_intents" \in x.must \cup x.may => j < 5
  PROVE  GoesFirst(AuditDrops, x)
<1> DEFINE refs == x.must \cup x.may
<1>1. ASSUME NEW i \in 1..28, AuditDrops[i] \in refs PROVE j < i
  <2> HIDE DEF refs
  <2>1. \/ AuditDrops[i] = "config_versions" \/ AuditDrops[i] = "data_snapshots"
        \/ AuditDrops[i] = "strategy_versions" \/ AuditDrops[i] = "trading_cycles"
        \/ AuditDrops[i] = "portfolio_proposals" \/ AuditDrops[i] = "risk_decisions"
        \/ AuditDrops[i] = "order_intents"
    BY <1>1 DEF refs
  <2> QED
    BY <2>1, <1>1, AuditPlaces DEF refs
<1> QED
  BY <1>1, AuditDropsAre DEF GoesFirst

LEMMA EvidenceGoesFirst == \A x \in ToSet(EvidenceTables) : GoesFirst(AuditDrops, x)
<1>1. GoesFirst(AuditDrops, Table("data_quality_reports", {"data_snapshots"}))
  <2>1. 19 \in 1..28 /\ AuditDrops[19] = "data_quality_reports"
    BY DEF AuditDrops
  <2> QED
    BY <2>1, AtPlace DEF Table
<1>2. GoesFirst(AuditDrops, TableOpt("research_runs", {}, {"data_snapshots", "strategy_versions"}))
  <2>1. 18 \in 1..28 /\ AuditDrops[18] = "research_runs"
    BY DEF AuditDrops
  <2> QED
    BY <2>1, AtPlace DEF Table, TableOpt
<1>3. GoesFirst(AuditDrops, Table("strategy_lifecycle_events", {"strategy_versions"}))
  <2>1. 17 \in 1..28 /\ AuditDrops[17] = "strategy_lifecycle_events"
    BY DEF AuditDrops
  <2> QED
    BY <2>1, AtPlace DEF Table
<1> QED
  BY <1>1, <1>2, <1>3, EvidenceMembers

LEMMA CycleGoesFirst == \A x \in ToSet(CycleTables) : GoesFirst(AuditDrops, x)
<1>1. GoesFirst(AuditDrops, Table("trading_cycles", {"config_versions"}))
  <2>1. 16 \in 1..28 /\ AuditDrops[16] = "trading_cycles"
    BY DEF AuditDrops
  <2> QED
    BY <2>1, AtPlace DEF Table
<1>2. GoesFirst(AuditDrops, Table("account_snapshots", {"trading_cycles"}))
  <2>1. 15 \in 1..28 /\ AuditDrops[15] = "account_snapshots"
    BY DEF AuditDrops
  <2> QED
    BY <2>1, AtPlace DEF Table
<1>3. GoesFirst(AuditDrops, Table("ensemble_decisions", {"trading_cycles"}))
  <2>1. 14 \in 1..28 /\ AuditDrops[14] = "ensemble_decisions"
    BY DEF AuditDrops
  <2> QED
    BY <2>1, AtPlace DEF Table
<1>4. GoesFirst(AuditDrops, TableOpt("errors", {}, {"trading_cycles"}))
  <2>1. 13 \in 1..28 /\ AuditDrops[13] = "errors"
    BY DEF AuditDrops
  <2> QED
    BY <2>1, AtPlace DEF Table, TableOpt
<1>5. GoesFirst(AuditDrops, TableOpt("indicator_snapshots", {"trading_cycles"}, {"data_snapshots"}))
  <2>1. 12 \in 1..28 /\ AuditDrops[12] = "indicator_snapshots"
    BY DEF AuditDrops
  <2> QED
    BY <2>1, AtPlace DEF Table, TableOpt
<1> QED
  BY <1>1, <1>2, <1>3, <1>4, <1>5, CycleMembers

LEMMA ReportGoesFirst == \A x \in ToSet(ReportTables) : GoesFirst(AuditDrops, x)
<1>1. GoesFirst(AuditDrops, Table("portfolio_proposals", {"trading_cycles"}))
  <2>1. 11 \in 1..28 /\ AuditDrops[11] = "portfolio_proposals"
    BY DEF AuditDrops
  <2> QED
    BY <2>1, AtPlace DEF Table
<1>2. GoesFirst(AuditDrops, Table("position_snapshots", {"trading_cycles"}))
  <2>1. 10 \in 1..28 /\ AuditDrops[10] = "position_snapshots"
    BY DEF AuditDrops
  <2> QED
    BY <2>1, AtPlace DEF Table
<1>3. GoesFirst(AuditDrops, Table("preflight_reports", {"trading_cycles"}))
  <2>1. 9 \in 1..28 /\ AuditDrops[9] = "preflight_reports"
    BY DEF AuditDrops
  <2> QED
    BY <2>1, AtPlace DEF Table
<1>4. GoesFirst(AuditDrops, Table("reconciliation_reports", {"trading_cycles"}))
  <2>1. 8 \in 1..28 /\ AuditDrops[8] = "reconciliation_reports"
    BY DEF AuditDrops
  <2> QED
    BY <2>1, AtPlace DEF Table
<1>5. GoesFirst(AuditDrops, Table("strategy_signals", {"trading_cycles", "strategy_versions"}))
  <2>1. 7 \in 1..28 /\ AuditDrops[7] = "strategy_signals"
    BY DEF AuditDrops
  <2> QED
    BY <2>1, AtPlace DEF Table
<1> QED
  BY <1>1, <1>2, <1>3, <1>4, <1>5, ReportMembers

LEMMA DecisionGoesFirst == \A x \in ToSet(DecisionTables) : GoesFirst(AuditDrops, x)
<1>1. GoesFirst(AuditDrops, Table("risk_decisions", {"trading_cycles", "portfolio_proposals"}))
  <2>1. 6 \in 1..28 /\ AuditDrops[6] = "risk_decisions"
    BY DEF AuditDrops
  <2> QED
    BY <2>1, AtPlace DEF Table
<1>2. GoesFirst(AuditDrops, Table("order_intents", {"trading_cycles", "risk_decisions"}))
  <2>1. 5 \in 1..28 /\ AuditDrops[5] = "order_intents"
    BY DEF AuditDrops
  <2> QED
    BY <2>1, AtPlace DEF Table
<1>3. GoesFirst(AuditDrops, Table("shadow_orders", {"trading_cycles", "risk_decisions"}))
  <2>1. 4 \in 1..28 /\ AuditDrops[4] = "shadow_orders"
    BY DEF AuditDrops
  <2> QED
    BY <2>1, AtPlace DEF Table
<1>4. GoesFirst(AuditDrops, Table("target_portfolios", {"config_versions", "risk_decisions"}))
  <2>1. 3 \in 1..28 /\ AuditDrops[3] = "target_portfolios"
    BY DEF AuditDrops
  <2> QED
    BY <2>1, AtPlace DEF Table
<1> QED
  BY <1>1, <1>2, <1>3, <1>4, DecisionMembers

LEMMA OrderGoesFirst == \A x \in ToSet(OrderTables) : GoesFirst(AuditDrops, x)
<1>1. GoesFirst(AuditDrops, Table("executions", {"order_intents"}))
  <2>1. 2 \in 1..28 /\ AuditDrops[2] = "executions"
    BY DEF AuditDrops
  <2> QED
    BY <2>1, AtPlace DEF Table
<1>2. GoesFirst(AuditDrops, Table("order_events", {"order_intents"}))
  <2>1. 1 \in 1..28 /\ AuditDrops[1] = "order_events"
    BY DEF AuditDrops
  <2> QED
    BY <2>1, AtPlace DEF Table
<1> QED
  BY <1>1, <1>2, DecisionMembers

LEMMA OthersGoFirst ==
  \A x \in ToSet(ReferenceTables) \cup ToSet(ChannelTables) : GoesFirst(AuditDrops, x)
<1> SUFFICES ASSUME NEW x \in ToSet(ReferenceTables) \cup ToSet(ChannelTables)
             PROVE  GoesFirst(AuditDrops, x)
  OBVIOUS
<1>1. x.must \cup x.may = {}
  BY ReferenceMembers DEF Table
<1>2. x.name \in AuditNames
  BY DEF AuditNames, Names
<1>3. PICK j \in DOMAIN AuditDrops : AuditDrops[j] = x.name
  BY <1>2, AuditDropsAre DEF ToSet
<1> QED
  BY <1>1, <1>3 DEF GoesFirst

LEMMA ControlGoesFirst == \A x \in TableSet(4) : GoesFirst(ControlDrops, x)
<1>1. ASSUME NEW i \in 1..10 PROVE ControlDrops[i] = "control_jobs" => i = 9
  BY DEF ControlDrops
<1>2. ASSUME NEW x \in TableSet(4)
      PROVE  \/ x.must \cup x.may = {}
             \/ x.name \in {"backtest_runs", "control_job_logs"} /\ x.must \cup x.may = {"control_jobs"}
  BY UpgradeParts, LaterMembers DEF Table
<1>3. ASSUME NEW x \in TableSet(4), x.must \cup x.may = {}
      PROVE  GoesFirst(ControlDrops, x)
  <2>1. x.name \in ToSet(ControlDrops)
    BY MigrationNames, ControlDropsAre DEF Names
  <2> QED
    BY <2>1, <1>3 DEF GoesFirst, ToSet
<1>4. ASSUME NEW x \in TableSet(4), x.name \in {"backtest_runs", "control_job_logs"},
             x.must \cup x.may = {"control_jobs"}
      PROVE  GoesFirst(ControlDrops, x)
  <2>1. PICK j \in 1..2 : ControlDrops[j] = x.name
    <3>1. ControlDrops[1] = "control_job_logs" /\ ControlDrops[2] = "backtest_runs" /\ 1 \in 1..2 /\ 2 \in 1..2
      BY DEF ControlDrops
    <3> QED
      BY <3>1, <1>4
  <2>2. \A i \in DOMAIN ControlDrops : ControlDrops[i] \in x.must \cup x.may => j < i
    BY <1>1, <1>4, ControlDropsAre
  <2>3. j \in DOMAIN ControlDrops
    BY ControlDropsAre
  <2> QED
    BY <2>1, <2>2, <2>3 DEF GoesFirst
<1> QED
  BY <1>2, <1>3, <1>4

LEMMA LaterGoFirst == \A r \in 2..3 : \A x \in TableSet(r) : GoesFirst(Downgrade[r], x)
<1>1. /\ Downgrade[2] = << "cycle_steps" >> /\ Downgrade[3] = << "kill_switch_state" >>
  BY DEF Downgrade
<1>2. ASSUME NEW x \in TableSet(2) PROVE x.name = "cycle_steps" /\ x.must \cup x.may = {"trading_cycles"}
  BY UpgradeParts, LaterMembers DEF Table
<1>3. ASSUME NEW x \in TableSet(3) PROVE x.name = "kill_switch_state" /\ x.must \cup x.may = {}
  BY UpgradeParts, LaterMembers DEF Table
<1>4. \A x \in TableSet(2) : GoesFirst(<< "cycle_steps" >>, x)
  BY <1>2 DEF GoesFirst
<1>5. \A x \in TableSet(3) : GoesFirst(<< "kill_switch_state" >>, x)
  BY <1>3 DEF GoesFirst
<1>6. \A r \in 2..3 : r = 2 \/ r = 3
  OBVIOUS
<1> QED
  BY <1>1, <1>4, <1>5, <1>6

LEMMA AllGoFirst == \A r \in Revisions : \A x \in TableSet(r) : GoesFirst(Downgrade[r], x)
<1>1. Downgrade[1] = AuditDrops /\ Downgrade[4] = ControlDrops
  BY DEF Downgrade
<1>2. \A x \in TableSet(1) : GoesFirst(AuditDrops, x)
  BY UpgradeParts, OthersGoFirst, EvidenceGoesFirst, CycleGoesFirst, ReportGoesFirst, DecisionGoesFirst,
     OrderGoesFirst
<1>3. \A r \in Revisions : r = 1 \/ r \in 2..3 \/ r = 4
  BY DEF Revisions
<1> QED
  BY <1>1, <1>2, <1>3, LaterGoFirst, ControlGoesFirst

\* A migration creates tables of new names.
LEMMA UptoIsOld == \A r \in Revisions : Names(Upto(r - 1)) \cap Names(TableSet(r)) = {}
<1> SUFFICES ASSUME NEW r \in Revisions, NEW x \in Upto(r - 1) PROVE x.name \notin Names(TableSet(r))
  BY DEF Names
<1>1. PICK n \in 1..(r - 1) : x \in TableSet(n)
  BY DEF Upto
<1>2. n \in Revisions /\ n < r
  BY <1>1 DEF Revisions
<1>3. x.name \in Names(TableSet(n))
  BY <1>1 DEF Names
<1> QED
  BY <1>2, <1>3, DropsAreTheOwn

LEMMA DowngradesRun == \A r \in Revisions : Droppable(Upto(r), Downgrade[r])
<1> SUFFICES ASSUME NEW r \in Revisions, NEW i \in DOMAIN Downgrade[r], NEW x \in Upto(r)
             PROVE  /\ Downgrade[r][i] \in Names(Upto(r))
                    /\ Downgrade[r][i] \in x.must \cup x.may
                          => \E j \in 1..(i - 1) : Downgrade[r][j] = x.name
  BY DEF Droppable
<1>1. r - 1 \in 0..3 /\ (r - 1) + 1 = r
  BY DEF Revisions
<1>2. Upto(r) = Upto(r - 1) \cup TableSet(r)
  BY <1>1, UptoNext
<1>3. Downgrade[r][i] \in Names(TableSet(r))
  BY DropsAreTheOwn DEF ToSet
<1>4. Downgrade[r][i] \in Names(Upto(r))
  BY <1>2, <1>3 DEF Names
<1>5. CASE x \in TableSet(r)
  <2>1. PICK j \in DOMAIN Downgrade[r] :
          /\ Downgrade[r][j] = x.name
          /\ \A k \in DOMAIN Downgrade[r] : Downgrade[r][k] \in x.must \cup x.may => j < k
    BY <1>5, AllGoFirst DEF GoesFirst
  <2>2. Downgrade[r][i] \in x.must \cup x.may => j \in 1..(i - 1)
    BY <2>1, DropsAndGuards
  <2> QED
    BY <1>4, <2>1, <2>2
<1>6. CASE x \in Upto(r - 1)
  <2>1. x.must \cup x.may \subseteq Names(Upto(r - 1))
    BY <1>1, <1>6, ReferencesExist
  <2>2. Names(Upto(r - 1)) \cap Names(TableSet(r)) = {}
    BY UptoIsOld
  <2> QED
    BY <1>3, <1>4, <2>1, <2>2
<1> QED
  BY <1>2, <1>5, <1>6
-----------------------------------------------------------------------------
(* The schema in every state. *)

\* A database at a revision has the tables and triggers of the migrations up to it.
SchemaInv == tables = Upto(revision) /\ guarded = GuardsUpto(revision)

LEMMA SchemaInvInit == TrailInit => SchemaInv
<1>1. Upto(0) = {}
  BY UptoAre
<1>2. GuardsUpto(0) = {}
  <2>1. 1..0 = {}
    OBVIOUS
  <2> QED
    BY <2>1 DEF GuardsUpto
<1> QED
  BY <1>1, <1>2 DEF TrailInit, SchemaInv

LEMMA MigrateKeepsSchema ==
  ASSUME TablesInv, SchemaInv, NEW r \in Revisions, Migrate(r)
  PROVE  SchemaInv'
<1>1. /\ revision' = r /\ revision \in 0..4 /\ revision < r
      /\ tables' = tables \cup UNION {TableSet(n) : n \in revision + 1 .. r}
      /\ guarded' = guarded \cup UNION {Guards[n] : n \in revision + 1 .. r}
  BY DEF Migrate, TablesInv, Revisions
<1>2. 1..r = 1..revision \cup (revision + 1 .. r)
  BY <1>1 DEF Revisions
<1>3. Upto(r) = Upto(revision) \cup UNION {TableSet(n) : n \in revision + 1 .. r}
  BY <1>2 DEF Upto
<1>4. GuardsUpto(r) = GuardsUpto(revision) \cup UNION {Guards[n] : n \in revision + 1 .. r}
  BY <1>2 DEF GuardsUpto
<1> QED
  BY <1>1, <1>3, <1>4 DEF SchemaInv

LEMMA RevertKeepsSchema ==
  ASSUME TablesInv, SchemaInv, Revert
  PROVE  SchemaInv'
<1> DEFINE gone == ToSet(Downgrade[revision])
           before == revision - 1
<1>1. /\ revision \in Revisions /\ revision' = before /\ before \in 0..3 /\ before + 1 = revision
      /\ tables' = {x \in tables : x.name \notin gone} /\ guarded' = guarded \ gone
  BY DEF Revert, TablesInv, Revisions
<1>2. gone = Names(TableSet(revision))
  BY <1>1, DropsAreTheOwn
<1>3. Upto(revision) = Upto(before) \cup TableSet(revision)
  BY <1>1, UptoNext
<1>4. Names(Upto(before)) \cap gone = {}
  BY <1>1, <1>2, UptoIsOld
<1> HIDE DEF gone
<1>5. {x \in Upto(revision) : x.name \notin gone} = Upto(before)
  <2>1. \A x \in TableSet(revision) : x.name \in gone
    BY <1>2 DEF Names
  <2>2. \A x \in Upto(before) : x.name \notin gone
    BY <1>4 DEF Names
  <2> QED
    BY <2>1, <2>2, <1>3
<1>6. GuardsUpto(revision) = GuardsUpto(before) \cup Guards[revision]
  <2>1. 1..revision = 1..before \cup {revision}
    BY <1>1
  <2> QED
    BY <2>1 DEF GuardsUpto
<1>7. Guards[revision] \subseteq gone
  BY <1>1, <1>2, GuardsAreNames
<1>8. GuardsUpto(before) \cap gone = {}
  <2> SUFFICES ASSUME NEW n \in 1..before PROVE Guards[n] \cap gone = {}
    BY DEF GuardsUpto
  <2>1. n \in Revisions
    BY <1>1 DEF Revisions
  <2>2. Guards[n] \subseteq Names(TableSet(n))
    BY <2>1, GuardsAreNames
  <2>3. Names(TableSet(n)) \subseteq Names(Upto(before))
    BY DEF Names, Upto
  <2> QED
    BY <2>2, <2>3, <1>4
<1> QED
  BY <1>1, <1>5, <1>6, <1>7, <1>8 DEF SchemaInv

LEMMA SchemaStep == TrailInv /\ SchemaInv /\ [TrailNext]_trailVars => SchemaInv'
<1> SUFFICES ASSUME TrailInv, SchemaInv, [TrailNext]_trailVars PROVE SchemaInv'
  OBVIOUS
<1>1. CASE \E r \in Revisions : Migrate(r)
  BY <1>1, MigrateKeepsSchema DEF TrailInv
<1>2. CASE Revert
  BY <1>2, RevertKeepsSchema DEF TrailInv
<1>3. CASE SameSchema
  BY <1>3 DEF SameSchema, SchemaInv
<1>4. CASE \E t \in Used : Record(t)
  BY <1>3, <1>4 DEF Record, SameSchema
<1>5. CASE StartCycle \/ CreateIntent \/ RecordExecution
  BY <1>3, <1>5 DEF StartCycle, CreateIntent, RecordExecution, SameSchema
<1>6. CASE \E t \in OrderState : MoveIntent(t) \/ SetIntent(t)
  BY <1>3, <1>6 DEF MoveIntent, SetIntent, SameSchema
<1>7. CASE AddChain \/ (\E b \in BOOLEAN : AddRisk(b)) \/ AddTarget
  BY <1>3, <1>7 DEF AddChain, AddRisk, AddTarget, Add, Rollback, SameSchema
<1>8. CASE Commit \/ Fail
  BY <1>3, <1>8 DEF Commit, Fail, Rollback, SameSchema
<1>9. CASE \E t \in Used : Gone(t)
  BY <1>3, <1>9 DEF Gone, Delete, Rekey, Removed, SameSchema
<1>10. CASE \E c \in rows : \E p \in Must(c) \cup May(c) : Redirect(c, p)
  BY <1>3, <1>10 DEF Redirect, SameSchema
<1>11. CASE \E t \in Used : Truncate(Cascade(t))
  BY <1>3, <1>11 DEF Truncate, Removed, SameSchema
<1>12. CASE UNCHANGED trailVars
  BY <1>3, <1>12 DEF trailVars, SameSchema
<1> QED
  BY <1>1, <1>2, <1>4, <1>5, <1>6, <1>7, <1>8, <1>9, <1>10, <1>11, <1>12 DEF TrailNext, Gone

\* What the guard of the state machine lets through, the trigger does.
LEMMA MachineFits == \A s \in OrderState, t \in OrderState : CanTransition(s, t) => TriggerAllows(s, t)
<1>1. /\ Transitions["filled"] = {} /\ Transitions["cancelled"] = {} /\ Transitions["rejected"] = {}
      /\ Transitions["unknown"] = BrokerOutcomes
  BY DEF Transitions
<1>2. BrokerOutcomes \cap {"created", "validated", "submitted"} = {}
  BY DEF BrokerOutcomes
<1> QED
  BY <1>1, <1>2 DEF CanTransition, TriggerAllows

(* The schema written three times, in the migrations, the models and the    *)
(* triggers, is one: at every revision the next migration can be run and    *)
(* the last taken back, at head the tables and their triggers are the       *)
(* models', and no legal move of an order is refused by the database.       *)
THEOREM SchemaHolds == TrailSpec => []SchemaStands
<1>1. TrailInit => TrailInv /\ SchemaInv
  BY TrailInvInit, SchemaInvInit
<1>2. TrailInv /\ SchemaInv /\ [TrailNext]_trailVars => TrailInv' /\ SchemaInv'
  BY TrailStep, SchemaStep
<1>3. TrailInv /\ SchemaInv => SchemaStands
  <2> SUFFICES ASSUME TrailInv, SchemaInv PROVE SchemaStands
    OBVIOUS
  <2>1. /\ revision \in 0..4 /\ orderRow \in OrderState \cup {"none"}
        /\ tables = Upto(revision) /\ guarded = GuardsUpto(revision)
    BY DEF TrailInv, TablesInv, SchemaInv
  <2>2. MigrationsRun
    <3>1. revision < 4 => revision \in 0..3
      BY <2>1
    <3>2. revision > 0 => revision \in Revisions
      BY <2>1 DEF Revisions
    <3> QED
      BY <2>1, <3>1, <3>2, UpgradesRun, DowngradesRun DEF MigrationsRun
  <2>3. SchemaIsModels
    BY <2>1, HeadIsModels, HeadIsGuarded DEF SchemaIsModels
  <2>4. MachineFitsTrigger
    BY <2>1, MachineFits DEF MachineFitsTrigger
  <2> QED
    BY <2>2, <2>3, <2>4 DEF SchemaStands
<1> QED
  BY <1>1, <1>2, <1>3, PTL DEF TrailSpec

-----------------------------------------------------------------------------
(* Explanations. *)

\* The rows that explain a cycle when R are the rows and L the links.
Direct == {"trading_cycles", "preflight_reports", "ensemble_decisions",
           "strategy_signals", "indicator_snapshots", "risk_decisions", "order_intents",
           "shadow_orders", "account_snapshots", "position_snapshots", "reconciliation_reports"}

Tells(R, L, x) ==
    /\ "trading_cycles" \in R /\ x \in R
    /\ \/ x \in Direct
       \/ "risk_decisions" \in R /\ x \in {"target_portfolios", "portfolio_proposals"}
       \/ "strategy_signals" \in R /\ x = "strategy_versions"
       \/ "order_intents" \in R /\ x \in {"order_events", "executions"}
       \/ \E l \in L : l[1] \in {"trading_cycles", "indicator_snapshots"} /\ l[2] = x

LEMMA ExplainedIs == \A x : x \in Explained <=> Tells(rows, links, x)
<1> SUFFICES ASSUME NEW x, "trading_cycles" \in rows, x \in rows
             PROVE  x \in Explained <=> Tells(rows, links, x)
  BY DEF Explained, Tells
<1> DEFINE keys   == {"risk_decisions", "strategy_signals", "order_intents"}
           beyond == [ c \in keys |->
                        CASE c = "risk_decisions"   -> {"target_portfolios", "portfolio_proposals"}
                          [] c = "strategy_signals" -> {"strategy_versions"}
                          [] c = "order_intents"    -> {"order_events", "executions"} ]
           linked == {l[2] : l \in {y \in links : y[1] \in {"trading_cycles", "indicator_snapshots"}}}
<1>1. x \in Explained <=> x \in Direct \/ x \in UNION {beyond[c] : c \in rows \cap keys} \/ x \in linked
  <2> DEFINE some == UNION {beyond[c] : c \in rows \cap DOMAIN beyond}
  <2> DEFINE ofCycle ==
               {"preflight_reports", "ensemble_decisions", "strategy_signals",
                "indicator_snapshots", "risk_decisions", "order_intents", "shadow_orders",
                "account_snapshots", "position_snapshots", "reconciliation_reports"}
  <2>1. Explained = rows \cap ({"trading_cycles"} \cup ofCycle \cup some \cup linked)
    BY Zenon DEF Explained
  <2>2. DOMAIN beyond = keys
    OBVIOUS
  <2>3. Direct = {"trading_cycles"} \cup ofCycle
    BY DEF Direct
  <2> HIDE DEF beyond, linked, ofCycle
  <2> QED
    BY <2>1, <2>2, <2>3
<1>2. /\ beyond["risk_decisions"] = {"target_portfolios", "portfolio_proposals"}
      /\ beyond["strategy_signals"] = {"strategy_versions"}
      /\ beyond["order_intents"] = {"order_events", "executions"}
  OBVIOUS
<1> HIDE DEF beyond
<1>3. x \in UNION {beyond[c] : c \in rows \cap keys} <=>
         \/ "risk_decisions" \in rows /\ x \in {"target_portfolios", "portfolio_proposals"}
         \/ "strategy_signals" \in rows /\ x = "strategy_versions"
         \/ "order_intents" \in rows /\ x \in {"order_events", "executions"}
  BY <1>2
<1>4. x \in linked
         <=> \E l \in links : l[1] \in {"trading_cycles", "indicator_snapshots"} /\ l[2] = x
  OBVIOUS
<1> QED
  BY <1>1, <1>3, <1>4 DEF Tells
LEMMA ExplainedNext == (\A x : x \in Explained <=> Tells(rows, links, x))'
BY ExplainedIs, PTL

\* A signal names the version of its strategy, a row of the decision its cycle,
\* and the cycle its configuration alone.
LEMMA ReferencesAre ==
  \A x \in Models :
      /\ x.name = "strategy_signals" => "strategy_versions" \in x.must
      /\ x.name \in Direct \ {"trading_cycles"} => "trading_cycles" \in x.must
      /\ x.name = "trading_cycles" => x.must \cup x.may = {"config_versions"}
<1>1. \A t, more : /\ OfCycle(t, more).name = t /\ "trading_cycles" \in OfCycle(t, more).must
                   /\ more \subseteq OfCycle(t, more).must
  BY TableNames DEF OfCycle, Table
<1> DEFINE P(x) == /\ x.name = "strategy_signals" => "strategy_versions" \in x.must
                   /\ x.name \in Direct \ {"trading_cycles"} => "trading_cycles" \in x.must
                   /\ x.name = "trading_cycles" => x.must \cup x.may = {"config_versions"}
<1>2. \A x \in ReferenceModels \cup DataModels : x.name # "trading_cycles" /\ x.name \notin Direct
  BY TableNames DEF ReferenceModels, DataModels, Direct
<1>3. \A x \in ControlModels : x.name # "trading_cycles" /\ x.name \notin Direct
  BY TableNames DEF ControlModels, Direct
<1>4. \A x \in MonitoringModels : x.name # "trading_cycles" /\ x.name \notin Direct
  BY <1>1, TableNames DEF MonitoringModels, Direct
<1>5. \A x \in ExecutionModels : P(x)
  BY <1>1, TableNames DEF ExecutionModels, Direct
<1>6. \A x \in DecisionModels : P(x)
  <2>1. P(Table("trading_cycles", {"config_versions"}))
    BY DEF Table
  <2>2. P(TableOpt("indicator_snapshots", {"trading_cycles"}, {"data_snapshots"}))
    BY DEF TableOpt
  <2>3. P(OfCycle("strategy_signals", {"strategy_versions"}))
    BY <1>1
  <2>4. P(Table("target_portfolios", {"risk_decisions", "config_versions"}))
    BY DEF Table, Direct
  <2>5. \A t, more : t \notin {"strategy_signals", "trading_cycles"} => P(OfCycle(t, more))
    BY <1>1
  <2> HIDE DEF P
  <2> QED
    BY <2>1, <2>2, <2>3, <2>4, <2>5 DEF DecisionModels
<1>7. "strategy_signals" \in Direct
  BY DEF Direct
<1> QED
  BY <1>2, <1>3, <1>4, <1>5, <1>6, <1>7 DEF Models

LEMMA RowsRefer ==
  ASSUME TrailInv
  PROVE  /\ "strategy_signals" \in rows => "strategy_versions" \in Must("strategy_signals")
         /\ \A c \in rows : c \in Direct \ {"trading_cycles"} => "trading_cycles" \in Must(c)
         /\ \A l \in links : l[1] = "trading_cycles" => l[2] = "config_versions"
         /\ Must("trading_cycles") \cup May("trading_cycles") \subseteq {"config_versions"}
<1>1. TablesInv /\ RowsInv /\ LinkInv
  BY DEF TrailInv
<1>2. ASSUME NEW c \in rows
      PROVE  \E y \in tables : y.name = c /\ y \in Models
  BY <1>1, <1>2 DEF RowsInv, TablesInv, Names
<1>3. Must("trading_cycles") \cup May("trading_cycles") \subseteq {"config_versions"}
  BY <1>1, ReferencesAre DEF Must, May, TablesInv
<1>4. \A l \in links : l[1] = "trading_cycles" => l[2] = "config_versions"
  BY <1>1, <1>3 DEF LinkInv
<1>5. "strategy_signals" \in rows => "strategy_versions" \in Must("strategy_signals")
  BY <1>2, ReferencesAre DEF Must
<1>6. \A c \in rows : c \in Direct \ {"trading_cycles"} => "trading_cycles" \in Must(c)
  BY <1>2, ReferencesAre DEF Must
<1> QED
  BY <1>3, <1>4, <1>5, <1>6

\* As long as rows and links grow, explanations do.
LEMMA TellsGrows ==
  ASSUME NEW R, NEW L, NEW S, NEW K, R \subseteq S, L \subseteq K, NEW x, Tells(R, L, x)
  PROVE  Tells(S, K, x)
BY DEF Tells

Bare == {"trading_cycles", "config_versions"}

\* Of what is explained, the cycle is kept by what refers to it ...
LEMMA CycleGoesBare ==
  ASSUME TrailInv, Gone("trading_cycles"), NEW x, Tells(rows, links, x)
  PROVE  x \in Bare
<1>1. Referring("trading_cycles") = {}
  BY DEF Gone, Delete, Rekey
<1>2. \A c \in rows : "trading_cycles" \notin Must(c)
  BY <1>1 DEF Referring
<1>3. \A c \in Direct \ {"trading_cycles"} : c \notin rows
  BY <1>2, RowsRefer
<1>4. /\ "risk_decisions" \notin rows /\ "strategy_signals" \notin rows
      /\ "order_intents" \notin rows /\ "indicator_snapshots" \notin rows
  BY <1>3 DEF Direct
<1>5. \A l \in links : l[1] # "indicator_snapshots"
  BY <1>4 DEF TrailInv, LinkInv
<1>6. \A l \in links : l[1] = "trading_cycles" => l[2] = "config_versions"
  BY RowsRefer
<1> QED
  BY <1>3, <1>4, <1>5, <1>6 DEF Tells, Bare

\* ... and every other row is guarded, or kept by what refers to it.
LEMMA GoneSpares ==
  ASSUME TrailInv, NEW t \in Used, Gone(t), t # "trading_cycles", NEW x, Tells(rows, links, x)
  PROVE  Tells(rows', links', x)
<1>1. /\ t \notin AuditGuards /\ t # "order_intents"
      /\ \A c \in rows \cup draft : t \notin Must(c)
      /\ \A l \in links : l[2] # t
      /\ rows' = rows \ {t} /\ links' = {l \in links : l[1] # t}
  BY GoneIs
<1>2. /\ Direct \subseteq AuditGuards \cup {"trading_cycles", "order_intents"}
      /\ {"target_portfolios", "portfolio_proposals", "order_events", "executions"} \subseteq AuditGuards
  BY DEF Direct, AuditGuards
<1>3. /\ "trading_cycles" \in Direct /\ "risk_decisions" \in Direct /\ "strategy_signals" \in Direct
      /\ "order_intents" \in Direct /\ "indicator_snapshots" \in Direct
  BY DEF Direct
<1>4. "strategy_signals" \in rows => "strategy_versions" \in Must("strategy_signals")
  BY RowsRefer
<1>5. x # t
  BY <1>1, <1>2, <1>4 DEF Tells
<1>6. t \notin Direct
  BY <1>1, <1>2
<1> QED
  BY <1>1, <1>3, <1>5, <1>6 DEF Tells

\* A cycle that is made to name another configuration loses it, and no more.
LEMMA RedirectSpares ==
  ASSUME TrailInv, NEW c, NEW p, Redirect(c, p), NEW x, Tells(rows, links, x), x # "config_versions"
  PROVE  Tells(rows', links', x)
<1>1. /\ c \in rows \ guarded /\ p \in Must(c) \cup May(c) /\ rows' = rows
      /\ links \ {<< c, p >>} \subseteq links'
  BY DEF Redirect
<1>2. c # "indicator_snapshots"
  <2> SUFFICES ASSUME c = "indicator_snapshots" PROVE FALSE
    OBVIOUS
  <2>1. "indicator_snapshots" \in AuditGuards
    BY DEF AuditGuards
  <2> QED
    BY <1>1, <2>1 DEF TrailInv, RowsInv, KeptInv, TablesInv
<1>3. c = "trading_cycles" => p = "config_versions"
  BY <1>1, RowsRefer
<1>4. \A l \in links : l[1] \in {"trading_cycles", "indicator_snapshots"} /\ l[2] = x => l \in links'
  BY <1>1, <1>2, <1>3
<1> QED
  BY <1>1, <1>4 DEF Tells

Loses == (\E t \in Used : Gone(t)) \/ (\E c \in rows : \E p \in Must(c) \cup May(c) : Redirect(c, p))

\* Every other step that neither truncates nor takes the schema down only adds.
LEMMA OthersGrow ==
  ASSUME TrailInv, [TrailNext]_trailVars, ~ (revision' < revision),
         ~ (\E t \in Used : Truncate(Cascade(t))), ~ Loses
  PROVE  rows \subseteq rows' /\ links \subseteq links'
<1>1. CASE \E r \in Revisions : Migrate(r)
  BY <1>1 DEF Migrate
<1>2. CASE Revert
  BY <1>2 DEF Revert, TrailInv, TablesInv
<1>3. CASE \E t \in Used : Record(t)
  BY <1>3 DEF Record
<1>4. CASE StartCycle \/ CreateIntent \/ RecordExecution
  BY <1>4 DEF StartCycle, CreateIntent, RecordExecution
<1>5. CASE \E t \in OrderState : MoveIntent(t) \/ SetIntent(t)
  BY <1>5 DEF MoveIntent, SetIntent
<1>6. CASE AddChain \/ (\E b \in BOOLEAN : AddRisk(b)) \/ AddTarget
  BY <1>6 DEF AddChain, AddRisk, AddTarget, Add, Rollback
<1>7. CASE Commit
  BY <1>7 DEF Commit
<1>8. CASE Fail
  BY <1>8 DEF Fail, Rollback
<1>9. CASE UNCHANGED trailVars
  BY <1>9 DEF trailVars
<1> QED
  BY <1>1, <1>2, <1>3, <1>4, <1>5, <1>6, <1>7, <1>8, <1>9 DEF TrailNext, Loses, Gone

Explains ==
    \/ Explained \ Explained' \subseteq
           IF links' # links /\ rows' = rows THEN {"config_versions"} ELSE {}
    \/ Explained \subseteq Bare
    \/ revision' < revision
    \/ \E t \in Used : Truncate(Cascade(t))

LEMMA ExplainsStep == TrailInv /\ [TrailNext]_trailVars => Explains
<1> SUFFICES ASSUME TrailInv, [TrailNext]_trailVars, ~ (revision' < revision),
                    ~ \E t \in Used : Truncate(Cascade(t))
             PROVE  \/ Explained \ Explained' \subseteq
                           IF links' # links /\ rows' = rows THEN {"config_versions"} ELSE {}
                    \/ Explained \subseteq Bare
  BY DEF Explains
<1>1. /\ \A x : x \in Explained <=> Tells(rows, links, x)
      /\ \A x : x \in Explained' <=> Tells(rows', links', x)
  BY ExplainedIs, ExplainedNext
<1>2. CASE \E t \in Used : Gone(t)
  <2>1. PICK t \in Used : Gone(t)
    BY <1>2
  <2>2. CASE t = "trading_cycles"
    BY <1>1, <2>1, <2>2, CycleGoesBare
  <2>3. CASE t # "trading_cycles"
    <3>1. \A x \in Explained : x \in Explained'
      BY <1>1, <2>1, <2>3, GoneSpares
    <3> QED
      BY <3>1
  <2> QED
    BY <2>2, <2>3
<1>3. CASE \E c \in rows : \E p \in Must(c) \cup May(c) : Redirect(c, p)
  <2>1. PICK c \in rows : \E p \in Must(c) \cup May(c) : Redirect(c, p)
    BY <1>3
  <2>2. PICK p \in Must(c) \cup May(c) : Redirect(c, p)
    BY <2>1
  <2>3. \A x \in Explained : x # "config_versions" => x \in Explained'
    BY <1>1, <2>2, RedirectSpares
  <2>4. rows' = rows /\ links' # links
    BY <2>2 DEF Redirect
  <2> QED
    BY <2>3, <2>4
<1>4. CASE ~ Loses
  <2>1. rows \subseteq rows' /\ links \subseteq links'
    BY <1>4, OthersGrow
  <2>2. \A x \in Explained : x \in Explained'
    BY <1>1, <2>1, TellsGrows
  <2> QED
    BY <2>2
<1> QED
  BY <1>2, <1>3, <1>4 DEF Loses

(* What explains a cycle today explains it tomorrow (explain.py, the keys   *)
(* and triggers of the migrations): until the schema is taken down or a     *)
(* table truncated, no INSERT, UPDATE or DELETE of anybody takes a row out  *)
(* of the explanation of a cycle of which more than itself is recorded,     *)
(* but for the configuration, when the cycle is made to name another.       *)
THEOREM ExplanationsStay == TrailSpec => ExplanationsStand
<1>1. TrailInv /\ [TrailNext]_trailVars => [Explains]_trailVars
  BY ExplainsStep
<1> QED
  BY <1>1, TrailInvariant, PTL DEF TrailSpec, ExplanationsStand, Explains, Bare


-----------------------------------------------------------------------------
(* The kill switch. *)

\* The type invariant in the parts a step disturbs one at a time.
CallState == [at : {"none", "append", "write"}, state : States, entry : 0..MaxChanges]
RowType   == switch \in [state : States, entry : 0..MaxChanges]
FlagTypes == readable \in BOOLEAN /\ mayRelease \in BOOLEAN /\ calm \in BOOLEAN
LogType   == log \in Seq([state : States, actor : Actors]) /\ Len(log) <= MaxChanges
CallTypes == change \in [Actors -> CallState]
Types     == RowType /\ FlagTypes /\ LogType /\ CallTypes

\* What a call in flight has written already.
CallInv ==
    \A a \in Actors :
        /\ change[a].at = "none" => change[a].state = "engaged"
        /\ change[a].state = "released" => a \in Operators
        /\ change[a].at = "write" => /\ change[a].entry \in DOMAIN log
                                     /\ log[change[a].entry] = [state |-> change[a].state, actor |-> a]

\* Without a release under way neither the row nor a call says released.
HoldInv == ~mayRelease => switch.state = "engaged" /\ \A a \in Actors : change[a].state = "engaged"

\* Calls that neither fail nor meet: one at a time, the row follows the log.
CalmInv ==
    calm => /\ \A a, b \in Actors : InCall(a) /\ InCall(b) => a = b
            /\ \A a \in Actors : change[a].at = "write" => change[a].entry = Len(log)
            /\ LogEndsInState

SwitchInv == Types /\ CallInv /\ SwitchIsAccounted /\ HoldInv /\ CalmInv

LEMMA SwitchInvInit == SwitchInit => SwitchInv
<1> SUFFICES ASSUME SwitchInit PROVE SwitchInv
  OBVIOUS
<1> USE MaxChangesIsNatural DEF SwitchInit, Never, NoCall, States
<1>1. Types
  <2>1. RowType
    BY DEF RowType
  <2>4. FlagTypes
    BY DEF FlagTypes
  <2>2. LogType
    BY DEF LogType
  <2>3. CallTypes
    BY DEF CallTypes, CallState
  <2> QED
    BY <2>1, <2>2, <2>3, <2>4 DEF Types
<1>2. CallInv
  BY DEF CallInv
<1>3. SwitchIsAccounted
  BY DEF SwitchIsAccounted
<1>4. HoldInv
  BY DEF HoldInv
<1>5. CalmInv
  BY DEF CalmInv, InCall, LogEndsInState
<1> QED
  BY <1>1, <1>2, <1>3, <1>4, <1>5 DEF SwitchInv

\* Both kinds of change begin alike: a release by a person, and noted.
LEMMA BeginKeeps ==
  ASSUME SwitchInv, NEW a \in Actors, NEW e \in States, BeginChange(a, e),
         mayRelease' \in BOOLEAN, e = "engaged" => mayRelease' = mayRelease,
         e = "released" => mayRelease' = TRUE /\ a \in Operators
  PROVE  SwitchInv'
<1> USE DEF SwitchInv, Types, States
<1>0. \A b \in Actors \ {a} : change'[b] = change[b]
  BY DEF BeginChange, CallTypes
<1>a. change'[a] = [at |-> "append", state |-> e, entry |-> 0]
  BY DEF BeginChange, CallTypes
<1>1. Types'
  <2>1. RowType' /\ LogType'
    BY DEF RowType, LogType, BeginChange
  <2>2. FlagTypes'
    BY DEF FlagTypes, BeginChange
  <2>3. [at |-> "append", state |-> e, entry |-> 0] \in CallState
    BY MaxChangesIsNatural DEF CallState
  <2>4. CallTypes'
    BY <2>3 DEF CallTypes, BeginChange
  <2> QED
    BY <2>1, <2>2, <2>4
<1>2. CallInv'
  BY <1>0, <1>a DEF CallInv, BeginChange
<1>3. SwitchIsAccounted'
  BY DEF SwitchIsAccounted, BeginChange
<1>4. HoldInv'
  BY <1>0, <1>a DEF HoldInv, BeginChange
<1>5. CalmInv'
  <2> SUFFICES ASSUME calm' PROVE CalmInv'
    BY DEF CalmInv
  <2>1. calm /\ (\A b \in Actors \ {a} : ~InCall(b))
    BY DEF OthersIdle, BeginChange
  <2>4. (\A b \in Actors : change[b].at # "write") /\ LogEndsInState
    BY <2>1 DEF CalmInv, InCall, BeginChange
  <2> QED
    BY <1>0, <1>a, <2>1, <2>4 DEF CalmInv, LogEndsInState, InCall, BeginChange
<1> QED
  BY <1>1, <1>2, <1>3, <1>4, <1>5

LEMMA AppendKeeps ==
  ASSUME SwitchInv, NEW a \in Actors, AppendAudit(a)
  PROVE  SwitchInv'
<1> DEFINE r == [state |-> change[a].state, actor |-> a]
<1> USE DEF SwitchInv, Types, States
<1>1. /\ log \in Seq([state : States, actor : Actors]) /\ r \in [state : States, actor : Actors]
      /\ log' = Append(log, r) /\ Len(log) < MaxChanges
  BY DEF AppendAudit, LogType, CallTypes, CallState
<1>2. Len(log') = Len(log) + 1 /\ log'[Len(log) + 1] = r /\ (\A i \in DOMAIN log : log'[i] = log[i])
  BY <1>1
<1>3. DOMAIN log = 1..Len(log) /\ DOMAIN log' = 1..(Len(log) + 1) /\ Len(log) \in Nat
  BY <1>1, <1>2
<1>4. \A b \in Actors \ {a} : change'[b] = change[b]
  BY DEF AppendAudit, CallTypes
<1>5. change'[a] = [at |-> "write", state |-> change[a].state, entry |-> Len(log) + 1]
  BY DEF AppendAudit, CallTypes, CallState
<1>6. Types'
  <2>1. RowType' /\ FlagTypes'
    BY DEF RowType, FlagTypes, AppendAudit
  <2>2. LogType'
    BY <1>1, <1>2, <1>3, MaxChangesIsNatural DEF LogType
  <2>3. change'[a] \in CallState
    BY <1>1, <1>3, <1>5, MaxChangesIsNatural DEF CallState, CallTypes
  <2>4. CallTypes'
    BY <1>4, <2>3 DEF CallTypes, AppendAudit
  <2> QED
    BY <2>1, <2>2, <2>4
<1>b. UNCHANGED << switch, mayRelease, calm >>
  BY DEF AppendAudit
<1>7. CallInv'
  <2> SUFFICES ASSUME NEW b \in Actors PROVE CallInv!(b)'
    BY DEF CallInv
  <2>1. CASE b = a
    BY <1>2, <1>3, <1>5, <2>1 DEF CallInv
  <2>2. CASE b # a
    BY <1>2, <1>3, <1>4, <2>2 DEF CallInv
  <2> QED
    BY <2>1, <2>2
<1>8. SwitchIsAccounted'
  BY <1>2, <1>3 DEF SwitchIsAccounted, AppendAudit
<1>9. HoldInv'
  BY <1>4, <1>5, <1>b DEF HoldInv
<1>10. CalmInv'
  <2> SUFFICES ASSUME calm' PROVE CalmInv'
    BY DEF CalmInv
  <2>1. calm /\ change[a].at = "append"
    BY <1>b DEF AppendAudit
  <2>2. \A b \in Actors \ {a} : ~InCall(b)
    BY <2>1 DEF CalmInv, InCall
  <2> QED
    BY <1>2, <1>3, <1>4, <1>5, <2>2 DEF CalmInv, InCall, LogEndsInState
<1> QED
  BY <1>6, <1>7, <1>8, <1>9, <1>10

LEMMA WriteKeeps ==
  ASSUME SwitchInv, NEW a \in Actors, Write(a)
  PROVE  SwitchInv'
<1> USE DEF SwitchInv, Types, States
<1>1. \A b \in Actors \ {a} : change'[b] = change[b]
  BY DEF Write, CallTypes
<1>2. change'[a] = NoCall
  BY DEF Write, CallTypes
<1>0. log[change[a].entry] = [state |-> change[a].state, actor |-> a]
  BY DEF Write, CallInv
<1>3. Types'
  <2>1. RowType'
    BY DEF RowType, Write, CallTypes, CallState
  <2>2. FlagTypes' /\ LogType'
    BY DEF FlagTypes, LogType, Write
  <2>3. CallTypes'
    BY MaxChangesIsNatural DEF CallTypes, CallState, Write, NoCall
  <2> QED
    BY <2>1, <2>2, <2>3
<1>4. CallInv'
  BY <1>1, <1>2 DEF CallInv, Write, NoCall
<1>5. SwitchIsAccounted'
  <2>1. /\ change[a].entry \in DOMAIN log
        /\ log[change[a].entry] = [state |-> change[a].state, actor |-> a]
        /\ change[a].state = "released" => a \in Operators
    BY DEF CallInv, Write
  <2>2. switch' = [state |-> change[a].state, entry |-> change[a].entry] /\ log' = log
    BY DEF Write
  <2> QED
    BY <2>1, <2>2 DEF SwitchIsAccounted
<1>6. HoldInv'
  <2> SUFFICES ASSUME ~mayRelease' PROVE HoldInv'
    BY DEF HoldInv
  <2>1. CASE change[a].state = "engaged"
    <3>1. \A b \in Actors \ {a} : change[b].state = "engaged"
      <4>1. ~ \E b \in Actors \ {a} : InCall(b) /\ change[b].state = "released"
        BY <2>1 DEF Write
      <4>2. \A b \in Actors \ {a} : change[b].at = "none" => change[b].state = "engaged"
        BY DEF CallInv
      <4>3. \A b \in Actors : change[b].state \in States
        BY DEF CallTypes, CallState
      <4> QED
        BY <4>1, <4>2, <4>3 DEF InCall
    <3> QED
      BY <1>1, <1>2, <2>1, <3>1 DEF Write, HoldInv, NoCall
  <2>2. CASE change[a].state = "released"
    BY <2>2 DEF Write, HoldInv
  <2> QED
    BY <2>1, <2>2 DEF CallTypes, CallState
<1>7. CalmInv'
  <2> SUFFICES ASSUME calm' PROVE CalmInv'
    BY DEF CalmInv
  <2>1. calm /\ change[a].at = "write" /\ change[a].entry = Len(log)
    BY DEF Write, CalmInv
  <2>2. \A b \in Actors : ~InCall(b)'
    BY <1>1, <1>2, <2>1 DEF CalmInv, InCall, NoCall
  <2>3. switch' = [state |-> log[Len(log)].state, entry |-> Len(log)]
    BY <1>0, <2>1 DEF Write
  <2> QED
    BY <2>2, <2>3 DEF CalmInv, InCall, LogEndsInState, Write
<1> QED
  BY <1>3, <1>4, <1>5, <1>6, <1>7

LEMMA BreakKeeps ==
  ASSUME SwitchInv, NEW a \in Actors, Break(a)
  PROVE  SwitchInv'
<1> USE DEF SwitchInv, Types, States
<1>1. \A b \in Actors \ {a} : change'[b] = change[b]
  BY DEF Break, CallTypes
<1>2. change'[a] = NoCall
  BY DEF Break, CallTypes
<1>3. Types'
  <2>1. RowType'
    BY DEF RowType, Break, CallTypes, CallState
  <2>2. FlagTypes' /\ LogType'
    BY DEF FlagTypes, LogType, Break
  <2>3. CallTypes'
    BY MaxChangesIsNatural DEF CallTypes, CallState, Break, NoCall
  <2> QED
    BY <2>1, <2>2, <2>3
<1>4. CallInv'
  BY <1>1, <1>2 DEF CallInv, Break, NoCall
<1>5. SwitchIsAccounted' /\ CalmInv'
  BY DEF SwitchIsAccounted, CalmInv, Break
<1>6. HoldInv'
  BY <1>1, <1>2 DEF HoldInv, Break, NoCall
<1> QED
  BY <1>3, <1>4, <1>5, <1>6

LEMMA SwitchStep == SwitchInv /\ [SwitchNext]_switchVars => SwitchInv'
<1> SUFFICES ASSUME SwitchInv, [SwitchNext]_switchVars PROVE SwitchInv'
  OBVIOUS
<1>1. ASSUME NEW a \in Actors, Engage(a) PROVE SwitchInv'
  <2>1. BeginChange(a, "engaged") /\ mayRelease' = mayRelease /\ mayRelease' \in BOOLEAN
    BY <1>1 DEF Engage, SwitchInv, Types, FlagTypes
  <2> QED
    BY <2>1, BeginKeeps DEF States
<1>2. ASSUME NEW a \in Actors, Release(a) PROVE SwitchInv'
  <2>1. BeginChange(a, "released") /\ mayRelease' = TRUE /\ a \in Operators
    BY <1>2 DEF Release, Actors
  <2> QED
    BY <2>1, BeginKeeps DEF States
<1>3. ASSUME NEW a \in Actors, AppendAudit(a) PROVE SwitchInv'
  BY <1>3, AppendKeeps
<1>4. ASSUME NEW a \in Actors, Write(a) PROVE SwitchInv'
  BY <1>4, WriteKeeps
<1>5. ASSUME NEW a \in Actors, Break(a) PROVE SwitchInv'
  BY <1>5, BreakKeeps
<1>6. ASSUME Outage PROVE SwitchInv'
  <2>1. Types'
    BY <1>6 DEF Outage, SwitchInv, Types, RowType, FlagTypes, LogType, CallTypes
  <2> QED
    BY <1>6, <2>1 DEF Outage, SwitchInv, CallInv, SwitchIsAccounted, HoldInv, CalmInv, InCall,
                      LogEndsInState
<1>7. ASSUME LoseRow PROVE SwitchInv'
  <2>1. Types'
    <3>1. RowType' /\ LogType' /\ CallTypes'
      BY <1>7, MaxChangesIsNatural DEF LoseRow, Never, SwitchInv, Types, RowType, LogType, CallTypes,
                                       States
    <3>2. FlagTypes'
      BY <1>7 DEF LoseRow, SwitchInv, Types, FlagTypes
    <3> QED
      BY <3>1, <3>2 DEF Types
  <2> QED
    BY <1>7, <2>1 DEF LoseRow, Never, SwitchInv, CallInv, SwitchIsAccounted, HoldInv, CalmInv
<1>8. ASSUME UNCHANGED switchVars PROVE SwitchInv'
  BY <1>8 DEF switchVars, SwitchInv, Types, RowType, FlagTypes, LogType, CallTypes, CallInv,
              SwitchIsAccounted, HoldInv, CalmInv,
              InCall, LogEndsInState
<1> QED
  BY <1>1, <1>2, <1>3, <1>4, <1>5, <1>6, <1>7, <1>8 DEF SwitchNext

LEMMA SwitchInvariant == SwitchSpec => []SwitchInv
  BY SwitchInvInit, SwitchStep, PTL DEF SwitchSpec

\* A stored state always has its record in the log, whose release names a
\* person (_persist, engage, release), for any number of people and components.
THEOREM SwitchIsExplained == SwitchSpec => []SwitchIsAccounted
<1>1. SwitchInv => SwitchIsAccounted
  BY DEF SwitchInv
<1> QED
  BY <1>1, SwitchInvariant, PTL

\* An engagement holds through outages, lost rows, failed and late calls, until
\* somebody begins a release (status, engage).
THEOREM EngagementStands == SwitchSpec => []EngagementHolds
<1>1. SwitchInv => EngagementHolds
  BY DEF SwitchInv, HoldInv, EngagementHolds, Engaged
<1> QED
  BY <1>1, SwitchInvariant, PTL

\* Calls that neither fail nor meet leave the state the log ends in.
THEOREM LogIsCurrent == SwitchSpec => []LogEndsInState
<1>1. SwitchInv => LogEndsInState
  BY DEF SwitchInv, CalmInv, LogEndsInState
<1> QED
  BY <1>1, SwitchInvariant, PTL

\* The types of row, log and calls of the kill switch.
THEOREM SwitchTypes == SwitchSpec => []SwitchTypeOK
<1>1. SwitchInv => SwitchTypeOK
  BY DEF SwitchInv, Types, RowType, FlagTypes, LogType, CallTypes, CallState, SwitchTypeOK
<1> QED
  BY <1>1, SwitchInvariant, PTL

\* The switch never reads released unasked, and its log says how it came to
\* stand as it does (status, engage, release, _persist).
THEOREM SwitchStands == SwitchSpec => []SwitchHolds
<1>1. SwitchIsAccounted /\ EngagementHolds /\ LogEndsInState => SwitchHolds
  BY DEF SwitchHolds
<1> QED
  BY <1>1, SwitchIsExplained, EngagementStands, LogIsCurrent, PTL

-----------------------------------------------------------------------------
(* The gate. *)

\* The results so far are those of the checks; only the first depends on the
\* moment it was taken.
ResultsInv ==
    /\ results \in Seq({Pass} \cup Blocks) /\ Len(results) <= 6
    /\ Len(results) >= 1 => /\ results[1] = Pass => seenReleased
                            /\ allowReducing => results[1] # "all"
    /\ Len(results) >= 2 => results[2] = DatabaseCheck
    /\ Len(results) >= 3 => results[3] = BrokerStateCheck
    /\ Len(results) >= 4 => results[4] = MarketDataCheck
    /\ Len(results) >= 5 => results[5] = StoredRiskCheck
    /\ Len(results) >= 6 => results[6] = ReconciliationCheck

GateInv == world \in Worlds /\ ResultsInv

LEMMA GateInvInit == GateInit => GateInv
<1> SUFFICES ASSUME GateInit PROVE GateInv
  OBVIOUS
<1>1. world \in Worlds
  BY DEF GateInit, BoundedWorlds
<1>2. results \in Seq({Pass} \cup Blocks) /\ Len(results) = 0
  BY DEF GateInit
<1> QED
  BY <1>1, <1>2 DEF GateInv, ResultsInv

LEMMA CheckLength == Len(Checks) = 6
  BY DEF Checks

LEMMA RunCheckKeeps == GateInv /\ RunCheck => GateInv'
<1> SUFFICES ASSUME GateInv, RunCheck PROVE GateInv'
  OBVIOUS
<1>0. PICK n : n = Len(results)
  OBVIOUS
<1>a. PICK c : c = Checks[n + 1]
  OBVIOUS
<1>b. results' = Append(results, c)
  BY <1>0, <1>a DEF RunCheck
<1>1. n \in 0..5
  <2>1. n < 6
    BY <1>0, CheckLength DEF RunCheck
  <2>2. n \in Nat
    BY <1>0 DEF GateInv, ResultsInv
  <2> QED
    BY <2>1, <2>2
<1>2. /\ Checks[1] = KillSwitchCheck /\ Checks[2] = DatabaseCheck /\ Checks[3] = BrokerStateCheck
      /\ Checks[4] = MarketDataCheck /\ Checks[5] = StoredRiskCheck /\ Checks[6] = ReconciliationCheck
  BY DEF Checks
<1>3. /\ KillSwitchCheck \in {Pass} \cup Blocks /\ DatabaseCheck \in {Pass} \cup Blocks
      /\ BrokerStateCheck \in {Pass} \cup Blocks /\ MarketDataCheck \in {Pass} \cup Blocks
      /\ StoredRiskCheck \in {Pass} \cup Blocks /\ ReconciliationCheck \in {Pass} \cup Blocks
  BY DEF KillSwitchCheck, DatabaseCheck, BrokerStateCheck, MarketDataCheck, StoredRiskCheck,
         ReconciliationCheck, Blocks, Pass
<1>4. c \in {Pass} \cup Blocks
  <2>1. n + 1 \in {1, 2, 3, 4, 5, 6}
    BY <1>1
  <2>2. c \in {KillSwitchCheck, DatabaseCheck, BrokerStateCheck, MarketDataCheck, StoredRiskCheck,
                ReconciliationCheck}
    BY <2>1, <1>2, <1>a
  <2> QED
    BY <2>2, <1>3
<1>5. /\ results' \in Seq({Pass} \cup Blocks) /\ Len(results') = n + 1 /\ results'[n + 1] = c
      /\ \A i \in 1..n : results'[i] = results[i]
  <2>1. results \in Seq({Pass} \cup Blocks) /\ n = Len(results)
    BY <1>0 DEF GateInv, ResultsInv
  <2> QED
    BY <2>1, <1>b, <1>4
<1>6. /\ DatabaseCheck' = DatabaseCheck /\ BrokerStateCheck' = BrokerStateCheck
      /\ MarketDataCheck' = MarketDataCheck /\ StoredRiskCheck' = StoredRiskCheck
      /\ ReconciliationCheck' = ReconciliationCheck
  BY DEF RunCheck, DatabaseCheck, BrokerStateCheck, MarketDataCheck, StoredRiskCheck, ReconciliationCheck
<1>7. n = 0 => (results'[1] = Pass => seenReleased') /\ (allowReducing' => results'[1] # "all")
  <2> SUFFICES ASSUME n = 0
               PROVE  (results'[1] = Pass => seenReleased') /\ (allowReducing' => results'[1] # "all")
    OBVIOUS
  <2>1. results'[1] = KillSwitchCheck
    BY <1>2, <1>5, <1>a
  <2>2. KillSwitchCheck = Pass => ~Engaged
    BY DEF KillSwitchCheck, Pass
  <2>3. allowReducing => KillSwitchCheck # "all"
    BY DEF KillSwitchCheck, Pass
  <2>4. (~Engaged => seenReleased') /\ allowReducing' = allowReducing
    BY DEF RunCheck
  <2> QED
    BY <2>1, <2>2, <2>3, <2>4
<1>8. ResultsInv'
  <2>1. Len(results') \in 1..6 /\ results' \in Seq({Pass} \cup Blocks)
    BY <1>1, <1>5
  <2>2. /\ n >= 1 => /\ results[1] = Pass => seenReleased
                     /\ allowReducing => results[1] # "all"
        /\ n >= 2 => results[2] = DatabaseCheck
        /\ n >= 3 => results[3] = BrokerStateCheck
        /\ n >= 4 => results[4] = MarketDataCheck
        /\ n >= 5 => results[5] = StoredRiskCheck
    BY <1>0, <1>1 DEF GateInv, ResultsInv
  <2>3. (results'[1] = Pass => seenReleased') /\ (allowReducing' => results'[1] # "all")
    <3>1. CASE n = 0
      BY <3>1, <1>7
    <3>2. CASE n >= 1
      <4>1. results'[1] = results[1]
        BY <1>1, <1>5, <3>2
      <4>2. (seenReleased => seenReleased') /\ allowReducing' = allowReducing
        BY DEF RunCheck
      <4> QED
        BY <2>2, <3>2, <4>1, <4>2
    <3> QED
      BY <1>1, <3>1, <3>2
  <2>4. /\ n + 1 >= 2 => results'[2] = DatabaseCheck
        /\ n + 1 >= 3 => results'[3] = BrokerStateCheck
        /\ n + 1 >= 4 => results'[4] = MarketDataCheck
        /\ n + 1 >= 5 => results'[5] = StoredRiskCheck
        /\ n + 1 >= 6 => results'[6] = ReconciliationCheck
    BY <1>1, <1>2, <1>5, <1>a, <2>2
  <2> QED
    BY <1>5, <1>6, <2>1, <2>3, <2>4 DEF ResultsInv
<1> QED
  BY <1>8 DEF GateInv, RunCheck

LEMMA GateStep == GateInv /\ [GateNext]_<< switchVars, gateVars >> => GateInv'
<1> SUFFICES ASSUME GateInv, [GateNext]_<< switchVars, gateVars >> PROVE GateInv'
  OBVIOUS
<1>1. CASE UNCHANGED gateVars
  BY <1>1 DEF gateVars, GateInv, ResultsInv, DatabaseCheck, BrokerStateCheck, MarketDataCheck,
              StoredRiskCheck, ReconciliationCheck
<1>2. CASE RunCheck
  BY <1>2, RunCheckKeeps
<1>3. CASE NextCycle
  <2>1. results' \in Seq({Pass} \cup Blocks) /\ Len(results') = 0 /\ world' = world
    BY <1>3 DEF NextCycle
  <2> QED
    BY <2>1 DEF GateInv, ResultsInv
<1> QED
  BY <1>1, <1>2, <1>3 DEF GateNext

LEMMA GateInvariant == GateSpec => []GateInv
  BY GateInvInit, GateStep, PTL DEF GateSpec

\* What a complete evaluation says, check by check.
LEMMA EvaluatedResults ==
  ASSUME GateInv, Evaluated
  PROVE  /\ Failures = {results[1], DatabaseCheck, BrokerStateCheck, MarketDataCheck,
                        StoredRiskCheck, ReconciliationCheck} \ {Pass}
         /\ results[1] = Pass => seenReleased
         /\ allowReducing => results[1] # "all"
         /\ results[1] \in {Pass} \cup Blocks
<1>1. Len(results) = 6 /\ DOMAIN results = 1..6
  BY CheckLength DEF Evaluated, GateInv, ResultsInv
<1>2. DOMAIN results = {1, 2, 3, 4, 5, 6}
  BY <1>1
<1>3. {results[i] : i \in DOMAIN results}
        = {results[1], results[2], results[3], results[4], results[5], results[6]}
  BY <1>2
<1>4. results[1] \in {Pass} \cup Blocks
  <2>1. results \in Seq({Pass} \cup Blocks) /\ 1 \in 1..Len(results)
    BY <1>1 DEF GateInv, ResultsInv
  <2> QED
    BY <2>1
<1> QED
  BY <1>1, <1>3, <1>4 DEF GateInv, ResultsInv, Failures

\* Risk is only taken with a switch read as released and nothing wrong, and
\* reduced only where account, prices and database are known (evaluate and the
\* checks of trading/safety), whatever the switch does between the checks.
THEOREM GateRefuses == GateSpec => []GateFailsClosed
<1>1. ASSUME GateInv PROVE GateFailsClosed
  <2> SUFFICES ASSUME Evaluated PROVE GateFailsClosed
    BY DEF GateFailsClosed
  <2>1. ASSUME DatabaseCheck # "all", BrokerStateCheck # "all", MarketDataCheck # "all",
               StoredRiskCheck # "all"
        PROVE  /\ world.database = "head" /\ world.account = "fine" /\ world.positions = "fine"
               /\ world.openOrders = "fine" /\ world.bars = Good.bars /\ world.risk # "none"
    <3>1. \A s \in Symbols : world.bars[s] = "fresh"
      BY <2>1 DEF MarketDataCheck
    <3>2. world.bars = [s \in Symbols |-> "fresh"]
      BY <1>1, <3>1 DEF GateInv, Worlds
    <3> QED
      BY <2>1, <3>2 DEF DatabaseCheck, BrokerStateCheck, StoredRiskCheck, Good, Pass
  <2>2. ASSUME MayReduceRisk
        PROVE  DatabaseCheck # "all" /\ BrokerStateCheck # "all" /\ MarketDataCheck # "all"
               /\ StoredRiskCheck # "all"
    BY <1>1, <2>2, EvaluatedResults DEF MayReduceRisk, Pass
  <2>3. ASSUME MayIncreaseRisk
        PROVE  seenReleased /\ world = [Good EXCEPT !.reconciliation = world.reconciliation]
               /\ world.reconciliation \in {"passed", "never"}
    <3>1. /\ results[1] = Pass /\ DatabaseCheck = Pass /\ BrokerStateCheck = Pass
          /\ MarketDataCheck = Pass /\ StoredRiskCheck = Pass /\ ReconciliationCheck = Pass
      BY <1>1, <2>3, EvaluatedResults DEF MayIncreaseRisk
    <3>2. seenReleased
      BY <1>1, <3>1, EvaluatedResults
    <3>3. world.risk = "fine" /\ world.reconciliation \in {"passed", "never"}
      BY <3>1 DEF StoredRiskCheck, ReconciliationCheck, Pass
    <3>4. /\ world.database = "head" /\ world.account = "fine" /\ world.positions = "fine"
          /\ world.openOrders = "fine" /\ world.bars = Good.bars
      BY <3>1, <2>1 DEF Pass
    <3>5. world = [Good EXCEPT !.reconciliation = world.reconciliation]
      BY <1>1, <3>3, <3>4 DEF GateInv, Worlds, Good
    <3> QED
      BY <3>2, <3>3, <3>5
  <2> QED
    BY <2>1, <2>2, <2>3 DEF GateFailsClosed
<1> QED
  BY <1>1, GateInvariant, PTL

\* With a universe to trade, switch, drawdown, daily loss and reconciliation
\* leave risk-reducing orders possible (BlockScope of the checks).
THEOREM ExitStays ==
  ASSUME Symbols # {}
  PROVE  GateSpec => []ExitStaysOpen
<1>1. ASSUME GateInv PROVE ExitStaysOpen
  <2> SUFFICES ASSUME Evaluated, allowReducing,
                      NEW k \in {"fine", "blocked", "daily_loss"},
                      NEW r \in {"passed", "never", "failed"},
                      world = [Good EXCEPT !.risk = k, !.reconciliation = r]
               PROVE  MayReduceRisk
    BY DEF ExitStaysOpen
  <2>1. /\ world.database = "head" /\ world.account = "fine" /\ world.positions = "fine"
        /\ world.openOrders = "fine" /\ world.bars = [s \in Symbols |-> "fresh"]
        /\ world.risk = k /\ world.reconciliation = r
    BY DEF Good
  <2>2. DatabaseCheck = Pass /\ BrokerStateCheck = Pass /\ MarketDataCheck = Pass
    BY <2>1 DEF DatabaseCheck, BrokerStateCheck, MarketDataCheck
  <2>3. StoredRiskCheck \in {Pass, "increase"} /\ ReconciliationCheck \in {Pass, "increase"}
    BY <2>1 DEF StoredRiskCheck, ReconciliationCheck
  <2>4. results[1] \in {Pass, "increase"}
    BY <1>1, EvaluatedResults DEF Blocks
  <2> QED
    BY <1>1, <2>2, <2>3, <2>4, EvaluatedResults DEF MayReduceRisk
<1> QED
  BY <1>1, GateInvariant, PTL

\* The gate errs to the safe side only: it refuses what it cannot know and leaves
\* the way out of a position open (evaluate and the checks of trading/safety).
THEOREM GateIsSafe ==
  ASSUME Symbols # {}
  PROVE  GateSpec => []GateErrsToSafety
<1>1. GateFailsClosed /\ ExitStaysOpen => GateErrsToSafety
  BY DEF GateErrsToSafety
<1> QED
  BY <1>1, GateRefuses, ExitStays, PTL

-----------------------------------------------------------------------------
(* What is laid over what. *)

OverlayPaths == {"gross", "cash", "capital", "mode"}
Fields       == {"params", "enabled", "lifecycle"}

Overlays(o)  == DOMAIN o \subseteq OverlayPaths
Overrides(o) == /\ DOMAIN o \subseteq Fields
                /\ "params" \in DOMAIN o => o["params"] \in Int
                /\ "lifecycle" \in DOMAIN o => o["lifecycle"] \in Lifecycles

LEMMA FileDomain ==
  ASSUME NEW y \in Files
  PROVE  /\ DOMAIN y = OverlayPaths \cup Fields \cup {"optins", "approved"}
         /\ y.gross = y["gross"] /\ y.cash = y["cash"] /\ y.mode = y["mode"]
         /\ y.lifecycle = y["lifecycle"] /\ y.params = y["params"]
  BY DEF Files, OverlayPaths, Fields

LEMMA OverField ==
  ASSUME NEW f, NEW g, NEW x \in DOMAIN f \cup DOMAIN g
  PROVE  Over(f, g)[x] = IF x \in DOMAIN g THEN g[x] ELSE f[x]
  BY DEF Over

LEMMA OverDomain == ASSUME NEW f, NEW g PROVE DOMAIN Over(f, g) = DOMAIN f \cup DOMAIN g
  BY DEF Over

\* A merged field is the override's, the overlay's or the file's.
LEMMA MergedFields ==
  ASSUME NEW y \in Files, NEW overlay, Overlays(overlay), NEW o, Overrides(o)
  PROVE  /\ \A x \in OverlayPaths :
              Merged(y, overlay, o)[x] = IF x \in DOMAIN overlay THEN overlay[x] ELSE y[x]
         /\ \A x \in Fields :
              Merged(y, overlay, o)[x] = IF x \in DOMAIN o THEN o[x] ELSE y[x]
<1>1. DOMAIN Over(y, overlay) = DOMAIN y
  <2>1. DOMAIN Over(y, overlay) = DOMAIN y \cup DOMAIN overlay
    BY OverDomain
  <2>2. DOMAIN overlay \subseteq DOMAIN y
    BY FileDomain DEF Overlays
  <2> QED
    BY <2>1, <2>2
<1>2. OverlayPaths \cap Fields = {} /\ OverlayPaths \subseteq DOMAIN y /\ Fields \subseteq DOMAIN y
  BY FileDomain DEF OverlayPaths, Fields
<1>3. ASSUME NEW x \in OverlayPaths
      PROVE  Merged(y, overlay, o)[x] = IF x \in DOMAIN overlay THEN overlay[x] ELSE y[x]
  <2>1. x \in DOMAIN Over(y, overlay) /\ x \notin DOMAIN o
    BY <1>1, <1>2 DEF Overrides
  <2>2. Merged(y, overlay, o)[x] = Over(y, overlay)[x]
    BY <2>1, OverField DEF Merged
  <2> QED
    BY <1>2, <2>2, OverField
<1>4. ASSUME NEW x \in Fields
      PROVE  Merged(y, overlay, o)[x] = IF x \in DOMAIN o THEN o[x] ELSE y[x]
  <2>1. x \in DOMAIN Over(y, overlay) /\ x \notin DOMAIN overlay /\ x \in DOMAIN y
    BY <1>1, <1>2 DEF Overlays
  <2>2. Merged(y, overlay, o)[x] = IF x \in DOMAIN o THEN o[x] ELSE Over(y, overlay)[x]
    BY <2>1, OverField DEF Merged
  <2>3. Over(y, overlay)[x] = y[x]
    BY <2>1, OverField
  <2> QED
    BY <2>2, <2>3
<1> QED
  BY <1>3, <1>4

\* The same, field by field as the properties name them.
LEMMA MergedRecord ==
  ASSUME NEW y \in Files, NEW overlay, Overlays(overlay), NEW o, Overrides(o)
  PROVE  LET s == Merged(y, overlay, o)
         IN  /\ s.gross = IF "gross" \in DOMAIN overlay THEN overlay["gross"] ELSE y.gross
             /\ s.cash = IF "cash" \in DOMAIN overlay THEN overlay["cash"] ELSE y.cash
             /\ s.mode = IF "mode" \in DOMAIN overlay THEN overlay["mode"] ELSE y.mode
             /\ s.params = IF "params" \in DOMAIN o THEN o["params"] ELSE y.params
             /\ s.lifecycle = IF "lifecycle" \in DOMAIN o THEN o["lifecycle"] ELSE y.lifecycle
             /\ s.params \in Int /\ s.lifecycle \in Lifecycles
<1> DEFINE s == Merged(y, overlay, o)
<1>1. /\ s.gross = s["gross"] /\ s.cash = s["cash"] /\ s.mode = s["mode"] /\ s.params = s["params"]
      /\ s.lifecycle = s["lifecycle"]
  OBVIOUS
<1>2. /\ s["gross"] = IF "gross" \in DOMAIN overlay THEN overlay["gross"] ELSE y["gross"]
      /\ s["cash"] = IF "cash" \in DOMAIN overlay THEN overlay["cash"] ELSE y["cash"]
      /\ s["mode"] = IF "mode" \in DOMAIN overlay THEN overlay["mode"] ELSE y["mode"]
  BY MergedFields DEF OverlayPaths
<1>3. /\ s["params"] = IF "params" \in DOMAIN o THEN o["params"] ELSE y["params"]
      /\ s["lifecycle"] = IF "lifecycle" \in DOMAIN o THEN o["lifecycle"] ELSE y["lifecycle"]
  BY MergedFields DEF Fields
<1>4. y.params \in Int /\ y.lifecycle \in Lifecycles
  BY DEF Files
<1> HIDE DEF s
<1> QED
  BY <1>1, <1>2, <1>3, <1>4, FileDomain DEF Overrides, s

-----------------------------------------------------------------------------
(* Invariants. *)

Steps == {e \in [from : Lifecycles, to : Lifecycles, params : Int] : e.to \in Allowed[e.from]}
Changes == {"none", "params", "enabled", "lifecycle", "event"}

\* The lifecycle and the parameters in force do not depend on the overlay.
LifecycleOf(y, o) == IF "lifecycle" \in DOMAIN o THEN o["lifecycle"] ELSE y.lifecycle
ParamsOf(y, o)    == IF "params" \in DOMAIN o THEN o["params"] ELSE y.params

RequestOK(r) ==
    /\ DOMAIN r = {"kind", "overrides", "event"} /\ r.kind \in Changes /\ Overrides(r.overrides)
    /\ r.kind \in {"lifecycle", "event"} =>
          \E e \in Steps : /\ r.event = << e >>
                           /\ "lifecycle" \in DOMAIN r.overrides /\ r.overrides["lifecycle"] = e.to

RowInv     == /\ yaml \in Reviewed /\ row.revision \in 0..MaxRevision
              /\ Overlays(row.overlay) /\ Overrides(row.overrides)
RequestInv == DOMAIN request = Clients /\ \A c \in Clients : RequestOK(request[c])
EventInv   == events \in Seq(Steps)
TypeInv    == RowInv /\ RequestInv /\ EventInv

WorkInv == ~deployed => Works

\* Fields other than k are the same in both.
Agree(o, p, k) == \A f \in Fields \ {k} : /\ f \in DOMAIN o <=> f \in DOMAIN p
                                          /\ f \in DOMAIN o => o[f] = p[f]

IsOpen(c) == request[c].kind # "none"
Drafting  == {"params", "enabled", "lifecycle"}

\* Requests that do not meet: one at a time, and what it saves is the row with one
\* field changed, parameters only where they are editable.
DraftInv ==
    ~met => /\ \A c, d \in Clients : IsOpen(c) /\ IsOpen(d) => c = d
            /\ \A c \in Clients : request[c].kind \in Drafting =>
                  /\ Agree(request[c].overrides, row.overrides, request[c].kind)
                  /\ request[c].kind = "params" => LifecycleOf(yaml, row.overrides) \in ParamEditable

\* The event about to be written, or the last one written, is of the lifecycle
\* in force.
TellInv ==
    told /\ ~met =>
        /\ \A c \in Clients : request[c].kind = "event" =>
              request[c].event[1].to = LifecycleOf(yaml, row.overrides)
        /\ events # << >> /\ (\A c \in Clients : request[c].kind # "event") =>
              events[Len(events)].to = LifecycleOf(yaml, row.overrides)

ConfigInv == TypeInv /\ WorkInv /\ DraftInv /\ TellInv

LEMMA Reviewing == Reviewed \subseteq Files
  BY ReviewedAreFiles

LEMMA NothingIsEmpty == DOMAIN Nothing = {} /\ Overlays(Nothing) /\ Overrides(Nothing)
  BY DEF Nothing, Overlays, Overrides

LEMMA EffectiveIs ==
  TypeInv => /\ Effective.lifecycle = LifecycleOf(yaml, row.overrides)
             /\ Effective.params = ParamsOf(yaml, row.overrides)
             /\ Effective.lifecycle \in Lifecycles /\ Effective.params \in Int
<1> SUFFICES ASSUME TypeInv
             PROVE  /\ Effective.lifecycle = LifecycleOf(yaml, row.overrides)
                    /\ Effective.params = ParamsOf(yaml, row.overrides)
                    /\ Effective.lifecycle \in Lifecycles /\ Effective.params \in Int
  OBVIOUS
<1>1. yaml \in Files /\ Overlays(row.overlay) /\ Overrides(row.overrides)
  BY Reviewing DEF TypeInv, RowInv
<1> QED
  BY <1>1, MergedRecord DEF Effective, LifecycleOf, ParamsOf

LEMMA ConfigInvInit == ConfigInit => ConfigInv
<1> SUFFICES ASSUME ConfigInit PROVE ConfigInv
  OBVIOUS
<1>1. RowInv
  BY NothingIsEmpty, MaxRevisionIsNatural DEF ConfigInit, RowInv
<1>2. RequestInv
  BY NothingIsEmpty DEF ConfigInit, RequestInv, RequestOK, NoRequest, Changes
<1>3. EventInv /\ events = << >>
  BY DEF ConfigInit, EventInv
<1>4. WorkInv
  BY NothingIsEmpty DEF ConfigInit, WorkInv, Works, Resolves
<1>5. \A c \in Clients : request[c].kind = "none"
  BY DEF ConfigInit, NoRequest
<1>6. DraftInv
  BY <1>5 DEF DraftInv, IsOpen, Drafting
<1>7. TellInv
  BY <1>3, <1>5 DEF TellInv
<1> QED
  BY <1>1, <1>2, <1>3, <1>4, <1>6, <1>7 DEF ConfigInv, TypeInv

-----------------------------------------------------------------------------
(* The steps. *)

\* Settings and mode: the overlay alone changes, to one that resolves.
LEMMA OverlayKeeps ==
  ASSUME ConfigInv, NEW overlay, Overlays(overlay), Save(overlay, row.overrides),
         UNCHANGED << yaml, request, events, met, told >>
  PROVE  ConfigInv'
<1>1. row' = [revision |-> row.revision + 1, overlay |-> overlay, overrides |-> row.overrides]
  BY DEF Save
<1>2. row'.overlay = overlay /\ row'.overrides = row.overrides /\ row'.revision = row.revision + 1
  BY <1>1
<1>3. RowInv'
  BY <1>2, MaxRevisionIsNatural DEF ConfigInv, TypeInv, RowInv, Save
<1>4. RequestInv' /\ EventInv'
  BY DEF ConfigInv, TypeInv, RequestInv, EventInv
<1>5. WorkInv'
  BY <1>2 DEF WorkInv, Works, Save
<1>6. DraftInv' /\ TellInv'
  BY <1>2 DEF ConfigInv, DraftInv, TellInv, IsOpen
<1> QED
  BY <1>3, <1>4, <1>5, <1>6 DEF ConfigInv, TypeInv

LEMMA SettingsKeep ==
  ASSUME ConfigInv, NEW path, NEW v, NEW reset, SettingsChange(path, v, reset)
  PROVE  ConfigInv'
<1> DEFINE others  == [p \in DOMAIN row.overlay \ {path} |-> row.overlay[p]]
           overlay == IF reset THEN others ELSE Over(others, [p \in {path} |-> v])
<1>1. path \in OverlayPaths
  BY DEF SettingsChange, Editable, OverlayPaths
<1>2. DOMAIN others \subseteq OverlayPaths
  BY DEF ConfigInv, TypeInv, RowInv, Overlays
<1>3. DOMAIN Over(others, [p \in {path} |-> v]) = DOMAIN others \cup {path}
  BY OverDomain
<1>4. Overlays(overlay)
  BY <1>1, <1>2, <1>3 DEF Overlays
<1>5. Save(overlay, row.overrides) /\ UNCHANGED << yaml, request, events, met, told >>
  BY DEF SettingsChange
<1> HIDE DEF overlay
<1> QED
  BY <1>4, <1>5, OverlayKeeps

LEMMA ModeKeeps ==
  ASSUME ConfigInv, NEW target, ModeChange(target)
  PROVE  ConfigInv'
<1> DEFINE overlay == Over(row.overlay, [mode |-> target])
<1>1. DOMAIN [mode |-> target] = {"mode"}
  OBVIOUS
<1>2. Overlays(overlay)
  <2>1. DOMAIN overlay = DOMAIN row.overlay \cup {"mode"}
    BY <1>1, OverDomain
  <2>2. DOMAIN row.overlay \subseteq OverlayPaths
    BY DEF ConfigInv, TypeInv, RowInv, Overlays
  <2> QED
    BY <2>1, <2>2 DEF Overlays, OverlayPaths
<1>3. Save(overlay, row.overrides) /\ UNCHANGED << yaml, request, events, met, told >>
  BY DEF ModeChange
<1> HIDE DEF overlay
<1> QED
  BY <1>2, <1>3, OverlayKeeps

\* A request begins: its overrides are the row's with the field of its kind.
LEMMA AskKeeps ==
  ASSUME ConfigInv, NEW c \in Clients, NEW k \in Drafting, NEW o, NEW event, Ask(c, k, o, event),
         Overrides(o), Agree(o, row.overrides, k),
         k = "params" => LifecycleOf(yaml, row.overrides) \in ParamEditable,
         k = "lifecycle" => \E e \in Steps : /\ event = << e >>
                                             /\ "lifecycle" \in DOMAIN o /\ o["lifecycle"] = e.to
  PROVE  ConfigInv'
<1>1. DOMAIN request = Clients
  BY DEF ConfigInv, TypeInv, RequestInv
<1>2. request'[c] = [kind |-> k, overrides |-> o, event |-> event]
  BY <1>1 DEF Ask
<1>3. \A d \in Clients \ {c} : request'[d] = request[d]
  BY <1>1 DEF Ask
<1>4. UNCHANGED << yaml, row, events, deployed, told >> /\ request[c].kind = "none"
  BY DEF Ask
<1>5. RowInv' /\ EventInv' /\ WorkInv'
  BY <1>4 DEF ConfigInv, TypeInv, RowInv, EventInv, WorkInv, Works
<1>6. RequestInv'
  <2>1. DOMAIN request' = Clients
    BY <1>1 DEF Ask
  <2>2. RequestOK(request'[c])
    BY <1>2 DEF RequestOK, Changes, Drafting
  <2>3. \A d \in Clients \ {c} : RequestOK(request'[d])
    BY <1>3 DEF ConfigInv, TypeInv, RequestInv
  <2> QED
    BY <2>1, <2>2, <2>3 DEF RequestInv
<1>7. ASSUME ~met' PROVE ~met /\ \A d \in Clients : request[d].kind = "none"
  BY <1>7 DEF Ask
<1>8. DraftInv'
  <2> SUFFICES ASSUME ~met' PROVE DraftInv'
    BY DEF DraftInv
  <2>1. \A d \in Clients \ {c} : request'[d].kind = "none"
    BY <1>3, <1>7
  <2>2. request'[c].kind = k /\ request'[c].overrides = o
    BY <1>2
  <2> QED
    BY <1>4, <2>1, <2>2 DEF DraftInv, IsOpen, Drafting
<1>9. TellInv'
  <2> SUFFICES ASSUME told', ~met' PROVE TellInv'
    BY DEF TellInv
  <2>1. \A d \in Clients : request'[d].kind # "event" /\ request[d].kind # "event"
    BY <1>2, <1>3, <1>7 DEF Drafting
  <2> QED
    BY <1>4, <1>7, <2>1 DEF ConfigInv, TellInv
<1> QED
  BY <1>5, <1>6, <1>8, <1>9 DEF ConfigInv, TypeInv

LEMMA OneField ==
  ASSUME NEW o, Overrides(o), NEW k \in Drafting, NEW v, NEW new, DOMAIN new = {k}, new[k] = v,
         k = "params" => v \in Int, k = "lifecycle" => v \in Lifecycles
  PROVE  /\ Overrides(Over(o, new)) /\ Agree(Over(o, new), o, k)
         /\ k \in DOMAIN Over(o, new) /\ Over(o, new)[k] = v
<1>1. DOMAIN Over(o, new) = DOMAIN o \cup {k}
  BY OverDomain
<1>2. \A f \in DOMAIN o \cup {k} : Over(o, new)[f] = IF f = k THEN v ELSE o[f]
  BY OverField
<1>3. Overrides(Over(o, new))
  BY <1>1, <1>2 DEF Overrides, Fields, Drafting
<1>4. Agree(Over(o, new), o, k)
  BY <1>1, <1>2 DEF Agree
<1> QED
  BY <1>1, <1>2, <1>3, <1>4

LEMMA StrategyKeeps ==
  ASSUME ConfigInv, NEW c \in Clients
  PROVE  /\ \A p \in 0..2 : WithParams(c, p) => ConfigInv'
         /\ \A b \in BOOLEAN : WithEnabled(c, b) => ConfigInv'
         /\ \A to \in Lifecycles, j \in BOOLEAN : WithLifecycle(c, to, j) => ConfigInv'
<1>1. TypeInv /\ Overrides(row.overrides)
  BY DEF ConfigInv, TypeInv, RowInv
<1>2. ASSUME NEW p \in 0..2, WithParams(c, p) PROVE ConfigInv'
  <2> DEFINE new == [params |-> p]
  <2>1. DOMAIN new = {"params"} /\ new["params"] = p /\ p \in Int
    OBVIOUS
  <2>2. Overrides(Over(row.overrides, new)) /\ Agree(Over(row.overrides, new), row.overrides, "params")
    BY <1>1, <2>1, OneField DEF Drafting
  <2>3. LifecycleOf(yaml, row.overrides) \in ParamEditable
    BY <1>1, <1>2, EffectiveIs DEF WithParams
  <2>4. Ask(c, "params", Over(row.overrides, new), << >>)
    BY <1>2 DEF WithParams
  <2> HIDE DEF new
  <2> QED
    BY <2>2, <2>3, <2>4, AskKeeps DEF Drafting
<1>3. ASSUME NEW b \in BOOLEAN, WithEnabled(c, b) PROVE ConfigInv'
  <2> DEFINE new == [enabled |-> b]
  <2>1. DOMAIN new = {"enabled"} /\ new["enabled"] = b
    OBVIOUS
  <2>2. Overrides(Over(row.overrides, new)) /\ Agree(Over(row.overrides, new), row.overrides, "enabled")
    BY <1>1, <2>1, OneField DEF Drafting
  <2>3. Ask(c, "enabled", Over(row.overrides, new), << >>)
    BY <1>3 DEF WithEnabled
  <2> HIDE DEF new
  <2> QED
    BY <2>2, <2>3, AskKeeps DEF Drafting
<1>4. ASSUME NEW to \in Lifecycles, NEW j \in BOOLEAN, WithLifecycle(c, to, j) PROVE ConfigInv'
  <2> DEFINE new == [lifecycle |-> to]
             e   == [from |-> Effective.lifecycle, to |-> to, params |-> Effective.params]
  <2>1. DOMAIN new = {"lifecycle"} /\ new["lifecycle"] = to
    OBVIOUS
  <2>2. /\ Overrides(Over(row.overrides, new)) /\ Agree(Over(row.overrides, new), row.overrides, "lifecycle")
        /\ "lifecycle" \in DOMAIN Over(row.overrides, new) /\ Over(row.overrides, new)["lifecycle"] = to
    BY <1>1, <2>1, OneField DEF Drafting
  <2>3. e \in Steps /\ e.to = to
    BY <1>1, <1>4, EffectiveIs DEF Steps, WithLifecycle, Transition
  <2>4. Ask(c, "lifecycle", Over(row.overrides, new), << e >>)
    BY <1>4 DEF WithLifecycle
  <2> HIDE DEF new, e
  <2> QED
    BY <2>2, <2>3, <2>4, AskKeeps DEF Drafting
<1> QED
  BY <1>2, <1>3, <1>4

\* A save without company changes the field of its kind and nothing else.
LEMMA SavedFields ==
  ASSUME ConfigInv, NEW c \in Clients, SaveOverrides(c), ~met
  PROVE  /\ request[c].kind # "lifecycle" =>
               LifecycleOf(yaml, request[c].overrides) = LifecycleOf(yaml, row.overrides)
         /\ request[c].kind # "params" =>
               ParamsOf(yaml, request[c].overrides) = ParamsOf(yaml, row.overrides)
<1>1. request[c].kind \in Drafting
  BY DEF SaveOverrides, Drafting
<1>2. Agree(request[c].overrides, row.overrides, request[c].kind)
  BY <1>1 DEF ConfigInv, DraftInv
<1> QED
  BY <1>2 DEF Agree, Fields, LifecycleOf, ParamsOf

LEMMA SaveKeeps ==
  ASSUME ConfigInv, NEW c \in Clients, SaveOverrides(c)
  PROVE  ConfigInv'
<1>1. DOMAIN request = Clients /\ RequestOK(request[c])
  BY DEF ConfigInv, TypeInv, RequestInv
<1>2. row'.overlay = row.overlay /\ row'.overrides = request[c].overrides
      /\ row'.revision = row.revision + 1 /\ row.revision < MaxRevision
  BY DEF SaveOverrides, Save
<1>3. UNCHANGED << yaml, events, met, told >>
  BY DEF SaveOverrides
<1>4. \A d \in Clients \ {c} : request'[d] = request[d]
  BY <1>1 DEF SaveOverrides
<1>5. request[c].kind \in Drafting /\ Overrides(request[c].overrides)
  BY <1>1 DEF SaveOverrides, Drafting, RequestOK
<1>6. ASSUME request[c].kind = "lifecycle"
      PROVE  request'[c].kind = "event" /\ RequestOK(request'[c])
             /\ request'[c].event[1].to = LifecycleOf(yaml, request[c].overrides)
  <2>1. /\ request'[c].kind = "event" /\ request'[c].overrides = request[c].overrides
        /\ request'[c].event = request[c].event /\ DOMAIN request'[c] = DOMAIN request[c]
    BY <1>1, <1>6 DEF SaveOverrides, RequestOK
  <2>2. PICK e \in Steps : /\ request[c].event = << e >>
                           /\ "lifecycle" \in DOMAIN request[c].overrides
                           /\ request[c].overrides["lifecycle"] = e.to
    BY <1>1, <1>6 DEF RequestOK
  <2>3. request'[c].event[1] = e
    BY <2>1, <2>2
  <2> QED
    BY <1>1, <2>1, <2>2, <2>3 DEF RequestOK, Changes, LifecycleOf
<1>7. ASSUME request[c].kind # "lifecycle" PROVE request'[c].kind = "none" /\ RequestOK(request'[c])
  <2>1. request'[c] = NoRequest
    BY <1>1, <1>7 DEF SaveOverrides
  <2> QED
    BY <2>1, NothingIsEmpty DEF NoRequest, RequestOK, Changes
<1>8. RowInv' /\ EventInv'
  BY <1>2, <1>3, <1>5, MaxRevisionIsNatural DEF ConfigInv, TypeInv, RowInv, EventInv
<1>9. RequestInv'
  <2>1. DOMAIN request' = Clients
    BY <1>1 DEF SaveOverrides
  <2> QED
    BY <1>4, <1>6, <1>7, <2>1 DEF ConfigInv, TypeInv, RequestInv
<1>10. WorkInv'
  BY <1>2, <1>3 DEF WorkInv, Works, SaveOverrides, Save
<1>11. ASSUME ~met PROVE \A d \in Clients \ {c} : request[d].kind = "none" /\ request'[d].kind = "none"
  BY <1>4, <1>5, <1>11 DEF ConfigInv, DraftInv, IsOpen, Drafting
<1>12. DraftInv'
  BY <1>3, <1>6, <1>7, <1>11 DEF DraftInv, IsOpen, Drafting
<1>13. TellInv'
  <2> SUFFICES ASSUME told, ~met
               PROVE  /\ \A d \in Clients : request'[d].kind = "event" =>
                            request'[d].event[1].to = LifecycleOf(yaml, row'.overrides)
                      /\ events # << >> /\ (\A d \in Clients : request'[d].kind # "event") =>
                            events[Len(events)].to = LifecycleOf(yaml, row'.overrides)
    BY <1>3 DEF TellInv
  <2>1. CASE request[c].kind = "lifecycle"
    BY <1>2, <1>6, <1>11, <2>1
  <2>2. CASE request[c].kind # "lifecycle"
    <3>1. \A d \in Clients : request[d].kind # "event" /\ request'[d].kind # "event"
      BY <1>5, <1>7, <1>11, <2>2 DEF Drafting
    <3>2. LifecycleOf(yaml, row'.overrides) = LifecycleOf(yaml, row.overrides)
      BY <1>2, <2>2, SavedFields
    <3> QED
      BY <3>1, <3>2 DEF ConfigInv, TellInv
  <2> QED
    BY <2>1, <2>2
<1> QED
  BY <1>8, <1>9, <1>10, <1>12, <1>13 DEF ConfigInv, TypeInv

\* The end of a request: it is closed and the row stays.
LEMMA CloseKeeps ==
  ASSUME ConfigInv, NEW c \in Clients, request' = [request EXCEPT ![c] = NoRequest],
         UNCHANGED << yaml, row, deployed, met >>, EventInv', TellInv'
  PROVE  ConfigInv'
<1>1. DOMAIN request = Clients
  BY DEF ConfigInv, TypeInv, RequestInv
<1>2. DOMAIN request' = Clients /\ request'[c] = NoRequest /\ \A d \in Clients \ {c} : request'[d] = request[d]
  BY <1>1
<1>3. RequestOK(NoRequest) /\ NoRequest.kind = "none"
  BY NothingIsEmpty DEF NoRequest, RequestOK, Changes
<1>4. RequestInv'
  BY <1>2, <1>3 DEF ConfigInv, TypeInv, RequestInv
<1>5. RowInv' /\ WorkInv'
  BY DEF ConfigInv, TypeInv, RowInv, WorkInv, Works
<1>6. DraftInv'
  BY <1>2, <1>3 DEF ConfigInv, DraftInv, IsOpen, Drafting
<1> QED
  BY <1>4, <1>5, <1>6 DEF ConfigInv, TypeInv

LEMMA RecordKeeps ==
  ASSUME ConfigInv, NEW c \in Clients, RecordEvent(c)
  PROVE  ConfigInv'
<1>1. DOMAIN request = Clients /\ RequestOK(request[c]) /\ request[c].kind = "event"
  BY DEF ConfigInv, TypeInv, RequestInv, RecordEvent
<1>2. PICK e \in Steps : request[c].event = << e >>
  BY <1>1 DEF RequestOK
<1>3. events \in Seq(Steps) /\ << e >> \in Seq(Steps) /\ events' = events \o << e >>
  BY <1>2 DEF ConfigInv, TypeInv, EventInv, RecordEvent
<1>4. events' \in Seq(Steps) /\ Len(events') = Len(events) + 1 /\ events'[Len(events')] = e
  BY <1>3
<1>5. request' = [request EXCEPT ![c] = NoRequest] /\ UNCHANGED << yaml, row, deployed, met, told >>
  BY DEF RecordEvent
<1>6. TellInv'
  <2> SUFFICES ASSUME told, ~met
               PROVE  /\ \A d \in Clients : request'[d].kind = "event" =>
                            request'[d].event[1].to = LifecycleOf(yaml, row.overrides)
                      /\ events'[Len(events')].to = LifecycleOf(yaml, row.overrides)
    BY <1>5 DEF TellInv
  <2>1. \A d \in Clients : request'[d].kind = "none"
    BY <1>1, <1>5 DEF ConfigInv, DraftInv, IsOpen, NoRequest
  <2>2. e.to = LifecycleOf(yaml, row.overrides)
    <3>1. request[c].event[1].to = LifecycleOf(yaml, row.overrides)
      BY <1>1 DEF ConfigInv, TellInv
    <3> QED
      BY <3>1, <1>2
  <2> QED
    BY <1>4, <2>1, <2>2
<1> QED
  BY <1>4, <1>5, <1>6, CloseKeeps DEF EventInv

LEMMA BreakOffKeeps ==
  ASSUME ConfigInv, NEW c \in Clients, BreakOff(c)
  PROVE  ConfigInv'
<1>1. DOMAIN request = Clients
  BY DEF ConfigInv, TypeInv, RequestInv
<1>2. /\ request' = [request EXCEPT ![c] = NoRequest] /\ UNCHANGED << yaml, row, events, deployed, met >>
      /\ told' => told /\ request[c].kind # "event"
  BY DEF BreakOff
<1>3. EventInv'
  BY <1>2 DEF ConfigInv, TypeInv, EventInv
<1>4. TellInv'
  <2>1. \A d \in Clients : request'[d] = request[d] \/ (d = c /\ request'[d].kind = "none")
    BY <1>1, <1>2 DEF NoRequest
  <2> QED
    BY <1>2, <2>1 DEF ConfigInv, TellInv
<1> QED
  BY <1>2, <1>3, <1>4, CloseKeeps

LEMMA DeployKeeps ==
  ASSUME ConfigInv, NEW y \in Reviewed, Deploy(y)
  PROVE  ConfigInv'
<1>1. /\ yaml' = y /\ deployed' = TRUE /\ told' = FALSE /\ UNCHANGED << row, events, met >>
      /\ request' = [c \in Clients |-> NoRequest]
  BY DEF Deploy
<1>2. \A c \in Clients : request'[c] = NoRequest
  BY <1>1
<1>3. RequestInv'
  BY <1>1, NothingIsEmpty DEF NoRequest, RequestInv, RequestOK, Changes
<1>4. RowInv' /\ EventInv'
  BY <1>1 DEF ConfigInv, TypeInv, RowInv, EventInv
<1>5. WorkInv' /\ TellInv'
  BY <1>1 DEF WorkInv, TellInv
<1>6. DraftInv'
  BY <1>2 DEF NoRequest, DraftInv, IsOpen, Drafting
<1> QED
  BY <1>3, <1>4, <1>5, <1>6 DEF ConfigInv, TypeInv

LEMMA ConfigStep == ConfigInv /\ [ConfigNext]_configVars => ConfigInv'
<1> SUFFICES ASSUME ConfigInv, [ConfigNext]_configVars PROVE ConfigInv'
  OBVIOUS
<1>1. CASE \E path \in DOMAIN Editable, v \in 0..2, reset \in BOOLEAN : SettingsChange(path, v, reset)
  BY <1>1, SettingsKeep
<1>2. CASE \E m \in {"backtest", "shadow", "paper", "live"} : ModeChange(m)
  BY <1>2, ModeKeeps
<1>3. ASSUME NEW c \in Clients,
             \/ \E p \in 0..2 : WithParams(c, p)
             \/ \E b \in BOOLEAN : WithEnabled(c, b)
             \/ \E to \in Lifecycles, j \in BOOLEAN : WithLifecycle(c, to, j)
      PROVE  ConfigInv'
  BY <1>3, StrategyKeeps
<1>4. ASSUME NEW c \in Clients, SaveOverrides(c) \/ RecordEvent(c) \/ BreakOff(c) PROVE ConfigInv'
  BY <1>4, SaveKeeps, RecordKeeps, BreakOffKeeps
<1>5. CASE \E y \in Reviewed : Deploy(y)
  BY <1>5, DeployKeeps
<1>6. CASE UNCHANGED configVars
  <2>1. UNCHANGED << yaml, row, request, events, deployed, met, told >>
    BY <1>6 DEF configVars
  <2>2. TypeInv'
    BY <2>1 DEF ConfigInv, TypeInv, RowInv, RequestInv, EventInv
  <2>3. WorkInv' /\ DraftInv' /\ TellInv'
    BY <2>1 DEF ConfigInv, WorkInv, Works, DraftInv, TellInv, IsOpen
  <2> QED
    BY <2>2, <2>3 DEF ConfigInv
<1> QED
  BY <1>1, <1>2, <1>3, <1>4, <1>5, <1>6 DEF ConfigNext

LEMMA ConfigInvariant == ConfigSpec => []ConfigInv
  BY ConfigInvInit, ConfigStep, PTL DEF ConfigSpec

-----------------------------------------------------------------------------
(* Theorems. *)

\* The rows and requests have their types, and every recorded event is a step
\* of the lifecycle graph (transition), for any requests and deployments.
THEOREM ConfigTypes == ConfigSpec => []ConfigTypeOK
<1>1. ASSUME ConfigInv PROVE ConfigTypeOK
  <2>1. RowInv /\ RequestInv /\ events \in Seq(Steps)
    BY <1>1 DEF ConfigInv, TypeInv, EventInv
  <2>2. \A i \in DOMAIN events : events[i] \in Steps
    BY <2>1
  <2>3. \A i \in DOMAIN events : events[i].to \in Allowed[events[i].from]
    BY <2>2 DEF Steps
  <2>4. \A c \in Clients : request[c].kind \in Changes
    BY <2>1 DEF RequestInv, RequestOK
  <2> QED
    BY <2>1, <2>3, <2>4 DEF ConfigTypeOK, RowInv, Overlays, Overrides, OverlayPaths, Fields, Changes
<1> QED
  BY <1>1, ConfigInvariant, PTL

\* No sequence of saves and deployments runs with a looser limit than the file
\* in force (check_tightening, apply_runtime).
THEOREM LimitsHold == ConfigSpec => []LimitsNeverLoosen
<1>1. ASSUME ConfigInv PROVE LimitsNeverLoosen
  <2> SUFFICES ASSUME Works PROVE Effective.gross <= yaml.gross /\ Effective.cash >= yaml.cash
    BY DEF LimitsNeverLoosen
  <2>1. yaml \in Files /\ Overlays(row.overlay) /\ Overrides(row.overrides)
    BY <1>1, Reviewing DEF ConfigInv, TypeInv, RowInv
  <2>2. /\ Effective.gross = IF "gross" \in DOMAIN row.overlay THEN row.overlay["gross"] ELSE yaml.gross
        /\ Effective.cash = IF "cash" \in DOMAIN row.overlay THEN row.overlay["cash"] ELSE yaml.cash
    BY <2>1, MergedRecord DEF Effective
  <2>3. yaml.gross \in Int /\ yaml.cash \in Int
    BY <2>1 DEF Files
  <2>4. \A path \in DOMAIN row.overlay : CheckTightening(yaml, path, row.overlay[path])
    BY DEF Works, Resolves
  <2>5. "gross" \in DOMAIN row.overlay => row.overlay["gross"] <= yaml["gross"]
    BY <2>4 DEF CheckTightening, Editable
  <2>6. "cash" \in DOMAIN row.overlay => row.overlay["cash"] >= yaml["cash"]
    BY <2>4 DEF CheckTightening, Editable
  <2>7. yaml.gross = yaml["gross"] /\ yaml.cash = yaml["cash"]
    BY <2>1, FileDomain
  <2> QED
    BY <2>2, <2>3, <2>5, <2>6, <2>7
<1> QED
  BY <1>1, ConfigInvariant, PTL

\* Live mode and live approval come from the reviewed file with everything it
\* takes, never from the runtime row (enforce_trading_mode_policy, apply_runtime).
THEOREM LiveStaysReviewed == ConfigSpec => []LiveIsReviewed
<1>1. ASSUME ConfigInv PROVE LiveIsReviewed
  <2> SUFFICES ASSUME Works
               PROVE  /\ Effective.mode = "live" => yaml.mode = "live" /\ yaml.optins = OptIns
                      /\ Effective.lifecycle = "live_approved" =>
                            yaml.lifecycle = "live_approved" /\ yaml.approved
    BY DEF LiveIsReviewed
  <2>1. yaml \in Reviewed /\ yaml \in Files /\ Overlays(row.overlay) /\ Overrides(row.overrides)
    BY <1>1, Reviewing DEF ConfigInv, TypeInv, RowInv
  <2>2. /\ Effective.mode = IF "mode" \in DOMAIN row.overlay THEN row.overlay["mode"] ELSE yaml.mode
        /\ Effective.lifecycle = LifecycleOf(yaml, row.overrides)
    BY <2>1, MergedRecord DEF Effective, LifecycleOf
  <2>3. MayLoad(yaml) /\ Valid(yaml)
    BY <2>1, ReviewedLoads
  <2>4. ASSUME Effective.mode = "live" PROVE yaml.mode = "live" /\ yaml.optins = OptIns
    <3>1. CASE DOMAIN row.overlay \cup DOMAIN row.overrides = {}
      BY <2>2, <2>3, <2>4, <3>1 DEF MayLoad
    <3>2. CASE DOMAIN row.overlay \cup DOMAIN row.overrides # {}
      BY <2>4, <3>2 DEF Works, Resolves, Effective
    <3> QED
      BY <3>1, <3>2
  <2>5. ASSUME Effective.lifecycle = "live_approved"
        PROVE  yaml.lifecycle = "live_approved" /\ yaml.approved
    <3>1. CASE "lifecycle" \in DOMAIN row.overrides
      <4>1. ValidateStrategyOverrides(row.overrides)
        BY <3>1 DEF Works, Resolves
      <4>2. row.overrides["lifecycle"] \in UILifecycles
        BY <3>1, <4>1 DEF ValidateStrategyOverrides
      <4> QED
        BY <2>2, <2>5, <3>1, <4>2 DEF LifecycleOf, UILifecycles
    <3>2. CASE "lifecycle" \notin DOMAIN row.overrides
      BY <2>2, <2>3, <2>5, <3>2 DEF LifecycleOf, Valid
    <3> QED
      BY <3>1, <3>2
  <2> QED
    BY <2>4, <2>5
<1> QED
  BY <1>1, ConfigInvariant, PTL

\* What a save accepted resolves until a deployment (save_runtime_config after
\* effective).
THEOREM SavesWork == ConfigSpec => []AcceptedSavesWork
<1>1. ConfigInv => AcceptedSavesWork
  BY DEF ConfigInv, WorkInv, AcceptedSavesWork
<1> QED
  BY <1>1, ConfigInvariant, PTL

\* The lifecycle history ends in the lifecycle in force, for requests that do
\* not meet and are not cut off (strategy_lifecycle).
THEOREM HistoryTells == ConfigSpec => []EventsTellTheLifecycle
<1>1. ConfigInv => EventsTellTheLifecycle
  BY EffectiveIs DEF ConfigInv, TellInv, EventsTellTheLifecycle
<1> QED
  BY <1>1, ConfigInvariant, PTL

\* The parameters of a strategy past research stay, unless requests meet or the
\* file changes (strategy_params, _save_overrides).
THEOREM PromotedParamsStay == ConfigSpec => PromotedParamsHold
<1> DEFINE A == (yaml' = yaml /\ Works /\ Works' /\ Effective.params # Effective'.params)
                  => \/ met
                     \/ Effective.lifecycle \in ParamEditable /\ Effective'.lifecycle \in ParamEditable
<1>1. ASSUME ConfigInv, ConfigInv', [ConfigNext]_configVars PROVE [A]_configVars
  <2> SUFFICES ASSUME yaml' = yaml, Effective.params # Effective'.params, ~met
               PROVE  Effective.lifecycle \in ParamEditable /\ Effective'.lifecycle \in ParamEditable
    OBVIOUS
  <2>1. /\ Effective.lifecycle = LifecycleOf(yaml, row.overrides)
        /\ Effective.params = ParamsOf(yaml, row.overrides)
    BY <1>1, EffectiveIs DEF ConfigInv
  <2>2. /\ Effective'.lifecycle = LifecycleOf(yaml, row'.overrides)
        /\ Effective'.params = ParamsOf(yaml, row'.overrides)
    <3>1. yaml \in Files /\ Overlays(row'.overlay) /\ Overrides(row'.overrides)
      BY <1>1, Reviewing DEF ConfigInv, TypeInv, RowInv
    <3>2. Effective' = Merged(yaml, row'.overlay, row'.overrides)
      BY DEF Effective
    <3> QED
      BY <3>1, <3>2, MergedRecord DEF LifecycleOf, ParamsOf
  <2>3. row'.overrides # row.overrides
    BY <2>1, <2>2
  <2>4. PICK c \in Clients : SaveOverrides(c)
    <3>1. ASSUME NEW path, NEW v, NEW reset, SettingsChange(path, v, reset) PROVE FALSE
      BY <2>3, <3>1 DEF SettingsChange, Save
    <3>2. ASSUME NEW m, ModeChange(m) PROVE FALSE
      BY <2>3, <3>2 DEF ModeChange, Save
    <3>3. ASSUME NEW c, NEW kind, NEW o, NEW event, Ask(c, kind, o, event) PROVE FALSE
      BY <2>3, <3>3 DEF Ask
    <3>4. ASSUME NEW c, NEW p, WithParams(c, p) \/ WithEnabled(c, p) PROVE FALSE
      BY <3>3, <3>4 DEF WithParams, WithEnabled
    <3>5. ASSUME NEW c, NEW to, NEW j, WithLifecycle(c, to, j) PROVE FALSE
      BY <3>3, <3>5 DEF WithLifecycle
    <3>6. ASSUME NEW c, RecordEvent(c) \/ BreakOff(c) PROVE FALSE
      BY <2>3, <3>6 DEF RecordEvent, BreakOff
    <3>7. ASSUME NEW y, Deploy(y) PROVE FALSE
      BY <3>7 DEF Deploy
    <3>8. ~UNCHANGED configVars
      BY <2>3 DEF configVars
    <3> QED
      BY <1>1, <3>1, <3>2, <3>4, <3>5, <3>6, <3>7, <3>8 DEF ConfigNext
  <2>5. row'.overrides = request[c].overrides
    BY <2>4 DEF SaveOverrides, Save
  <2>6. request[c].kind = "params"
    BY <1>1, <2>1, <2>2, <2>4, <2>5, SavedFields
  <2>7. LifecycleOf(yaml, row.overrides) \in ParamEditable
    BY <1>1, <2>6 DEF ConfigInv, DraftInv, Drafting
  <2>8. LifecycleOf(yaml, row'.overrides) = LifecycleOf(yaml, row.overrides)
    BY <1>1, <2>4, <2>5, <2>6, SavedFields
  <2> QED
    BY <2>1, <2>2, <2>7, <2>8
<1>2. ConfigSpec => [][A]_configVars
  BY <1>1, ConfigInvariant, PTL DEF ConfigSpec
<1> QED
  BY <1>2 DEF PromotedParamsHold

\* The reviewed file binds the runtime row, what was accepted works, and the
\* history tells of it, for any set of files, clients and order of their steps.
THEOREM ConfigStands == ConfigSpec => []ConfigHolds
<1>1. LimitsNeverLoosen /\ LiveIsReviewed /\ AcceptedSavesWork /\ EventsTellTheLifecycle
         => ConfigHolds
  BY DEF ConfigHolds
<1> QED
  BY <1>1, LimitsHold, LiveStaysReviewed, SavesWork, HistoryTells, PTL

-----------------------------------------------------------------------------
(* Jobs and uploads. *)

\* Handler r serves an import of u; job j is one.
Asking(r, u)   == rpc[r] # "idle" /\ asked[r] = u
ImportOf(j, u) == status[j] # "none" /\ params[j] = u

\* Where a worker has not written the file of its import.
BeforeWrite == {"begin", "read", "preview", "write"}

\* A job that a worker has was claimed, by that worker alone, and a job is
\* claimed once.
ClaimOK ==
    /\ \A w \in Workers : Busy(w) => status[cur[w]] \notin {"none", "queued"}
    /\ \A v, w \in Workers : Busy(v) /\ cur[v] = cur[w] => v = w
    /\ \A j \in Jobs : runs[j] <= 1
    /\ \A j \in Jobs : status[j] \in {"none", "queued"} => runs[j] = 0
    /\ \A r \in Requests : rpc[r] = "link" => asked[r] \in Uploads

JobTypeInv == TypeOK /\ ClaimOK

\* Until its import is asked for an upload has no handler and no job; then it has
\* one handler, which queues one job, which one worker may run.
ImportOK(u) ==
    /\ upload[u] \in {"none", "validated", "invalid", "discarded"} =>
          /\ written[u] = 0
          /\ \A r \in Requests : ~Asking(r, u)
          /\ \A j \in Jobs : ~ImportOf(j, u)
    /\ \A q, r \in Requests : Asking(q, u) /\ Asking(r, u) => q = r
    /\ \A i, j \in Jobs : ImportOf(i, u) /\ ImportOf(j, u) => i = j
    /\ \A r \in Requests : Asking(r, u) /\ rpc[r] \in {"look", "insert"} =>
          /\ written[u] = 0 /\ upload[u] = "queued"
          /\ \A j \in Jobs : ~ImportOf(j, u)
    /\ \A j \in Jobs : ImportOf(j, u) /\ status[j] = "queued" =>
          written[u] = 0 /\ upload[u] = "queued"
    /\ \A w \in Workers : wpc[w] \in BeforeWrite /\ params[cur[w]] = u => written[u] = 0
    /\ written[u] <= 1

ImportInv == \A u \in Uploads : ImportOK(u)

USE DEF jobRows, requests, workers, history

LEMMA JobTypeInit == Init => JobTypeInv
<1> SUFFICES ASSUME Init PROVE JobTypeInv
  OBVIOUS
<1>1. TypeOK
  BY DEF Init, TypeOK, Jobs, Kinds, NoJob, Active, Terminal, Importing, Guarded
<1>2. ClaimOK
  BY DEF Init, ClaimOK, Busy
<1> QED
  BY <1>1, <1>2 DEF JobTypeInv

LEMMA JobTypeStep == JobTypeInv /\ [Next]_vars => JobTypeInv'
<1> SUFFICES ASSUME JobTypeInv, [Next]_vars PROVE JobTypeInv'
  OBVIOUS
<1> USE RefreshAssumption, WorkerAssumption DEF JobTypeInv, TypeOK, ClaimOK, Busy, Active, Terminal, Kinds,
        Importing, Guarded
<1> NoJob \notin Jobs
  BY DEF NoJob, Jobs
<1>1. ASSUME NEW u \in Uploads, Receive(u) PROVE JobTypeInv'
  BY <1>1 DEF Receive
<1>2. ASSUME NEW u \in Uploads, Discard(u) PROVE JobTypeInv'
  BY <1>2 DEF Discard, SetUpload
<1>3. ASSUME NEW r \in Requests, Queue(r) PROVE JobTypeInv'
  BY <1>3 DEF Queue, WillCreate
<1>4. ASSUME NEW r \in Requests, Look(r) PROVE JobTypeInv'
  BY <1>4 DEF Look, Created, Answer
<1>5. ASSUME NEW r \in Requests, Insert(r) PROVE JobTypeInv'
  BY <1>5 DEF Insert, Created, Answer
<1>6. ASSUME NEW r \in Requests, Link(r) PROVE JobTypeInv'
  BY <1>6 DEF Link, Answer
<1>7. ASSUME NEW r \in Requests, Abort(r) PROVE JobTypeInv'
  BY <1>7 DEF Abort, Answer
<1>8. ASSUME NEW j \in Jobs, RequestCancel(j) PROVE JobTypeInv'
  <2>1. CASE status[j] = "queued" /\ status' = [status EXCEPT ![j] = "cancelled"]
    BY <1>8, <2>1 DEF RequestCancel
  <2>2. CASE status[j] = "running" /\ UNCHANGED status
    BY <1>8, <2>2 DEF RequestCancel
  <2> QED
    BY <1>8, <2>1, <2>2 DEF RequestCancel
<1>9. ASSUME NEW j \in Jobs, Age(j) PROVE JobTypeInv'
  BY <1>9 DEF Age
<1>10. ASSUME NEW w \in Workers, Start(w) PROVE JobTypeInv'
  BY <1>10 DEF Start, Goto
<1>11. ASSUME NEW w \in Workers, Checkpoint(w) PROVE JobTypeInv'
  <2>1. /\ cur[w] \in Jobs
        /\ stale' \in [Jobs -> BOOLEAN]
        /\ UNCHANGED <<status, params, owner, cancelRequested, upload, requests, cur, history>>
    BY <1>11 DEF Checkpoint, Beat
  <2>2. CASE cancelRequested[cur[w]]
    BY SMTT(30), <1>11, <2>1, <2>2 DEF Checkpoint, Raise, Goto
  <2>3. CASE ~cancelRequested[cur[w]]
    <3>1. /\ AfterCheckpoint(w) \in {"worked", "finish"} \cup Importing
          /\ AfterCheckpoint(w) \in Importing => params[cur[w]] \in Uploads
      BY <1>11, <2>1 DEF Checkpoint, AfterCheckpoint
    <3>2. /\ wpc' = [wpc EXCEPT ![w] = AfterCheckpoint(w)]
          /\ outcome' \in [Workers -> Terminal]
      BY <1>11, <2>3 DEF Checkpoint, Goto
    <3> QED
      BY <1>11, <2>1, <3>1, <3>2 DEF Checkpoint
  <2> QED
    BY <2>2, <2>3
<1>12. ASSUME NEW w \in Workers, ReadUpload(w) PROVE JobTypeInv'
  <2>1. /\ cur[w] \in Jobs /\ wpc[w] = "read"
        /\ UNCHANGED << jobRows, upload, requests, cur, history >>
        /\ \/ Goto(w, "preview") /\ UNCHANGED outcome
           \/ Raise(w, "failed")
    BY <1>12 DEF ReadUpload
  <2> QED
    BY <2>1 DEF Raise, Goto
<1>13. ASSUME NEW w \in Workers, ReplaceFile(w) PROVE JobTypeInv'
  BY <1>13 DEF ReplaceFile, Goto
<1>14. ASSUME NEW w \in Workers, Mark(w) PROVE JobTypeInv'
  BY <1>14 DEF Mark, Goto
<1>15. ASSUME NEW w \in Workers, Undo(w) PROVE JobTypeInv'
  BY <1>15 DEF Undo, Goto
<1>16. ASSUME NEW w \in Workers, Finish(w) PROVE JobTypeInv'
  BY <1>16 DEF Finish, Leave, Goto
<1>17. ASSUME NEW w \in Workers, Fails(w) PROVE JobTypeInv'
  BY <1>17 DEF Fails, Raise, Goto
<1>18. ASSUME NEW w \in Workers, KeepAlive(w) PROVE JobTypeInv'
  BY <1>18 DEF KeepAlive, Beat
<1>19. ASSUME NEW w \in Workers, Crash(w) PROVE JobTypeInv'
  BY <1>19 DEF Crash, Leave, Goto
<1>20. ASSUME NEW w \in Workers, Drop(w) PROVE JobTypeInv'
  BY <1>20 DEF Drop, Leave, Goto
<1>21. ASSUME NEW w \in Workers, StoreFails(w) PROVE JobTypeInv'
  BY <1>21 DEF StoreFails, Goto
<1>22. ASSUME NEW r \in Requests, NEW j \in Jobs, Retry(r, j) PROVE JobTypeInv'
  BY <1>22 DEF Retry, WillCreate
<1>23. ASSUME NEW r \in Requests, NEW u \in Uploads, Import(r, u) PROVE JobTypeInv'
  BY <1>23 DEF Import, SetUpload, WillCreate
<1>24. ASSUME NEW w \in Workers, NEW j \in Jobs, Claim(w, j) PROVE JobTypeInv'
  BY <1>24 DEF Claim, Goto
<1>25. CASE UNCHANGED vars
  BY <1>25 DEF vars
<1> HIDE DEF JobTypeInv, TypeOK, ClaimOK, Busy, Active, Terminal, Kinds, Importing, Guarded
<1>26. ASSUME NEW r \in Requests, Request(r) PROVE JobTypeInv'
  BY <1>4, <1>5, <1>6, <1>26 DEF Request
<1>27. ASSUME NEW w \in Workers, Handle(w) PROVE JobTypeInv'
  BY <1>11, <1>12, <1>13, <1>14, <1>15, <1>16, <1>27 DEF Handle
<1>28. CASE Proceed
  BY <1>1, <1>2, <1>3, <1>8, <1>9, <1>10, <1>17, <1>18, <1>22, <1>23, <1>24, <1>26, <1>27, <1>28 DEF Proceed
<1>29. CASE Interrupt
  BY <1>7, <1>19, <1>20, <1>21, <1>29 DEF Interrupt
<1> QED
  BY <1>25, <1>28, <1>29 DEF Next

LEMMA ImportInit == Init => ImportInv
BY RefreshAssumption DEF Init, ImportInv, ImportOK, Asking, ImportOf, BeforeWrite

\* A step that starts no import, takes none up again and writes no file.
LEMMA ImportFrame ==
    ASSUME NEW u \in Uploads, JobTypeInv, ImportOK(u),
           UNCHANGED << params, upload, written >>,
           \A w \in Workers : wpc'[w] \in BeforeWrite => wpc[w] \in BeforeWrite /\ cur'[w] = cur[w],
           \A r \in Requests : Asking(r, u)' => Asking(r, u),
           \A r \in Requests : rpc'[r] \in {"look", "insert"} => rpc[r] \in {"look", "insert"},
           \A j \in Jobs : status'[j] = "none" <=> status[j] = "none",
           \A j \in Jobs : status'[j] = "queued" => status[j] = "queued"
    PROVE  ImportOK(u)'
<1>1. \A j \in Jobs : ImportOf(j, u)' <=> ImportOf(j, u)
  BY DEF ImportOf
<1>2. /\ upload'[u] = upload[u]
      /\ written'[u] = written[u]
      /\ params' = params
  OBVIOUS
<1> QED
  BY <1>1, <1>2 DEF ImportOK

LEMMA ImportStep == JobTypeInv /\ JobTypeInv' /\ ImportInv /\ [Next]_vars => ImportInv'
<1> SUFFICES ASSUME JobTypeInv, JobTypeInv', ImportInv, [Next]_vars, NEW u \in Uploads
             PROVE  ImportOK(u)'
  BY DEF ImportInv
<1>0. ImportOK(u)
  BY DEF ImportInv
<1> USE <1>0, RefreshAssumption DEF JobTypeInv, TypeOK, ClaimOK, Busy, Kinds,
        ImportOK, Asking, ImportOf, BeforeWrite
<1> NoJob \notin Jobs
  BY DEF NoJob, Jobs
<1>1. ASSUME NEW v \in Uploads, Receive(v) PROVE ImportOK(u)'
  BY <1>1 DEF Receive
<1>2. ASSUME NEW v \in Uploads, Discard(v) PROVE ImportOK(u)'
  BY <1>2 DEF Discard, SetUpload
<1>3. ASSUME NEW r \in Requests, Queue(r) PROVE ImportOK(u)'
  BY <1>3 DEF Queue, WillCreate
<1>4. ASSUME NEW r \in Requests, Look(r) PROVE ImportOK(u)'
  <2>1. /\ UNCHANGED << params, upload, written, status, wpc, cur >>
        /\ rpc[r] = "look"
        /\ \A q \in Requests \ {r} : rpc'[q] = rpc[q] /\ asked'[q] = asked[q]
        /\ rpc'[r] = "idle" \/ (rpc'[r] \in {"link", "insert"} /\ asked'[r] = asked[r])
    BY <1>4 DEF Look, Created, Answer
  <2>2. \A q \in Requests : Asking(q, u)' => Asking(q, u)
    BY <2>1
  <2>3. \A q \in Requests : rpc'[q] \in {"look", "insert"} => rpc[q] \in {"look", "insert"}
    BY <2>1
  <2> QED
    BY <2>1, <2>2, <2>3, ImportFrame
<1>5. ASSUME NEW r \in Requests, Insert(r) PROVE ImportOK(u)'
  <2>1. PICK j \in Jobs :
          /\ status[j] = "none"
          /\ status' = [status EXCEPT ![j] = "queued"]
          /\ params' = [params EXCEPT ![j] = asked[r]]
    BY <1>5 DEF Insert
  <2>2. /\ rpc[r] = "insert"
        /\ UNCHANGED <<upload, wpc, cur, written>>
    BY <1>5 DEF Insert
  <2>3. /\ \A q \in Requests \ {r} : rpc'[q] = rpc[q] /\ asked'[q] = asked[q]
        /\ rpc'[r] = "idle" \/ (rpc'[r] = "link" /\ asked'[r] = asked[r])
    BY <1>5 DEF Insert, Created, Answer
  <2>4. \A i \in Jobs : ImportOf(i, u)' <=> (ImportOf(i, u) \/ (i = j /\ asked[r] = u))
    BY <2>1
  <2>5. \A w \in Workers : wpc[w] \in BeforeWrite => params'[cur[w]] = params[cur[w]]
    <3> SUFFICES ASSUME NEW w \in Workers, wpc[w] \in BeforeWrite
                 PROVE  params'[cur[w]] = params[cur[w]]
      OBVIOUS
    <3>1. cur[w] \in Jobs /\ status[cur[w]] # "none"
      OBVIOUS
    <3>2. cur[w] # j
      BY <2>1, <3>1
    <3> QED
      BY <2>1, <3>1, <3>2
  <2>6. \A q \in Requests : Asking(q, u)' => Asking(q, u)
    BY <2>3, <2>2
  <2>7. CASE asked[r] = u
    <3>1. /\ written[u] = 0 /\ upload[u] = "queued"
          /\ \A i \in Jobs : ~ImportOf(i, u)
          /\ \A q \in Requests : Asking(q, u) => q = r
      BY <2>2, <2>7
    <3> QED
      BY <2>1, <2>2, <2>3, <2>4, <2>5, <2>6, <3>1
  <2>8. CASE asked[r] # u
    BY <2>1, <2>2, <2>3, <2>4, <2>5, <2>6, <2>8
  <2> QED
    BY <2>7, <2>8
<1>6. ASSUME NEW r \in Requests, Link(r) PROVE ImportOK(u)'
  BY <1>6 DEF Link, Answer
<1>7. ASSUME NEW r \in Requests, Abort(r) PROVE ImportOK(u)'
  BY <1>7 DEF Abort, Answer
<1>8. ASSUME NEW j \in Jobs, RequestCancel(j) PROVE ImportOK(u)'
  <2>1. /\ UNCHANGED << params, upload, written, rpc, asked, wpc, cur >>
        /\ status' = status \/ (status[j] = "queued" /\ status' = [status EXCEPT ![j] = "cancelled"])
    BY <1>8 DEF RequestCancel
  <2>2. \A i \in Jobs : /\ status'[i] = "none" <=> status[i] = "none"
                        /\ status'[i] = "queued" => status[i] = "queued"
    BY <2>1
  <2> QED
    BY <2>1, <2>2, ImportFrame
<1>9. ASSUME NEW j \in Jobs, Age(j) PROVE ImportOK(u)'
  BY <1>9 DEF Age
<1>10. ASSUME NEW w \in Workers, Start(w) PROVE ImportOK(u)'
  BY <1>10 DEF Start, Goto
<1>11. ASSUME NEW w \in Workers, Checkpoint(w) PROVE ImportOK(u)'
  BY <1>11 DEF Checkpoint, Beat, Raise, Goto, AfterCheckpoint
<1>12. ASSUME NEW w \in Workers, ReadUpload(w) PROVE ImportOK(u)'
  BY <1>12 DEF ReadUpload, Raise, Goto
<1>13. ASSUME NEW w \in Workers, ReplaceFile(w) PROVE ImportOK(u)'
  BY <1>13 DEF ReplaceFile, Goto
<1>14. ASSUME NEW w \in Workers, Mark(w) PROVE ImportOK(u)'
  BY <1>14 DEF Mark, Goto
<1>15. ASSUME NEW w \in Workers, Undo(w) PROVE ImportOK(u)'
  BY <1>15 DEF Undo, Goto
<1>16. ASSUME NEW w \in Workers, Finish(w) PROVE ImportOK(u)'
  <2>0. /\ cur[w] \in Jobs /\ outcome[w] \in Terminal
        /\ status' = [status EXCEPT ![cur[w]] =
                        IF @ = "running" /\ owner[cur[w]] = w THEN outcome[w] ELSE @]
    BY <1>16 DEF Finish
  <2>1. \A j \in Jobs : /\ status'[j] = "none" <=> status[j] = "none"
                        /\ status'[j] = "queued" <=> status[j] = "queued"
    <3> SUFFICES ASSUME NEW j \in Jobs
                 PROVE  /\ status'[j] = "none" <=> status[j] = "none"
                        /\ status'[j] = "queued" <=> status[j] = "queued"
      OBVIOUS
    <3>1. status'[j] = status[j] \/ (status[j] = "running" /\ status'[j] \in Terminal)
      BY <2>0
    <3> QED
      BY <3>1 DEF Terminal
  <2>2. /\ UNCHANGED <<params, upload, rpc, asked, written>>
        /\ \A v \in Workers : wpc'[v] \in BeforeWrite => wpc[v] \in BeforeWrite /\ cur'[v] = cur[v]
    BY <1>16 DEF Finish, Leave, Goto
  <2> QED
    BY <2>1, <2>2
<1>17. ASSUME NEW w \in Workers, Fails(w) PROVE ImportOK(u)'
  BY <1>17 DEF Fails, Raise, Goto
<1>18. ASSUME NEW w \in Workers, KeepAlive(w) PROVE ImportOK(u)'
  BY <1>18 DEF KeepAlive, Beat
<1>19. ASSUME NEW w \in Workers, Crash(w) PROVE ImportOK(u)'
  BY <1>19 DEF Crash, Leave, Goto
<1>20. ASSUME NEW w \in Workers, Drop(w) PROVE ImportOK(u)'
  BY <1>20 DEF Drop, Leave, Goto
<1>21. ASSUME NEW w \in Workers, StoreFails(w) PROVE ImportOK(u)'
  BY <1>21 DEF StoreFails, Goto
<1>22. ASSUME NEW r \in Requests, NEW j \in Jobs, Retry(r, j) PROVE ImportOK(u)'
  BY <1>22 DEF Retry, WillCreate
<1>23. ASSUME NEW r \in Requests, NEW v \in Uploads, Import(r, v) PROVE ImportOK(u)'
  BY <1>23 DEF Import, SetUpload, WillCreate
<1>24. ASSUME NEW w \in Workers, NEW j \in Jobs, Claim(w, j) PROVE ImportOK(u)'
  BY <1>24 DEF Claim, Goto
<1>25. CASE UNCHANGED vars
  BY <1>25 DEF vars
<1> QED
  BY <1>1, <1>2, <1>3, <1>4, <1>5, <1>6, <1>7, <1>8, <1>9, <1>10, <1>11, <1>12, <1>13, <1>14, <1>15, <1>16, <1>17, <1>18, <1>19, <1>20, <1>21, <1>22, <1>23, <1>24, <1>25
     DEF Next, Proceed, Interrupt, Request, Handle

\* What a step does to the row of a finished job: nothing.
LEMMA OutcomeStep ==
    JobTypeInv /\ [Next]_vars
        => \A j \in Jobs : status[j] \in Terminal => status'[j] = status[j]
<1> SUFFICES ASSUME JobTypeInv, [Next]_vars, NEW j \in Jobs, status[j] \in Terminal
             PROVE  status'[j] = status[j]
  OBVIOUS
<1> USE DEF JobTypeInv, TypeOK, Terminal
<1>1. CASE \E r \in Requests : Insert(r)
  BY <1>1 DEF Insert
<1>2. CASE \E i \in Jobs : RequestCancel(i)
  BY <1>2 DEF RequestCancel
<1>3. CASE \E w \in Workers : Start(w)
  BY <1>3 DEF Start
<1>4. CASE \E w \in Workers, i \in Jobs : Claim(w, i)
  BY <1>4 DEF Claim
<1>5. CASE \E w \in Workers : Finish(w)
  BY <1>5 DEF Finish
<1>6. CASE UNCHANGED status
  BY <1>6
<1>7. \/ \E r \in Requests : Insert(r)
      \/ \E i \in Jobs : RequestCancel(i)
      \/ \E w \in Workers : Start(w)
      \/ \E w \in Workers, i \in Jobs : Claim(w, i)
      \/ \E w \in Workers : Finish(w)
      \/ UNCHANGED status
  BY DEF vars, Next, Proceed, Interrupt, Request, Handle, Receive, Discard, Queue, Look, Link,
         Retry, Import, Age, Fails, KeepAlive, Abort, Crash, Drop, StoreFails, Checkpoint,
         ReadUpload, ReplaceFile, Mark, Undo
<1> QED
  BY <1>1, <1>2, <1>3, <1>4, <1>5, <1>6, <1>7

LEMMA JobInvariant == Spec => [](JobTypeInv /\ ImportInv)
<1>1. Init => JobTypeInv /\ ImportInv
  BY JobTypeInit, ImportInit
<1>2. JobTypeInv /\ ImportInv /\ [Next]_vars => (JobTypeInv /\ ImportInv)'
  BY JobTypeStep, ImportStep
<1> QED
  BY <1>1, <1>2, PTL DEF Spec

\* The rows, handlers and workers have their types, for every set of them.
THEOREM JobsTypeCorrect == Spec => []TypeOK
<1>1. JobTypeInv => TypeOK
  BY DEF JobTypeInv
<1> QED
  BY <1>1, JobInvariant, PTL

\* No job is claimed twice (claim_next, fail_orphans), with any number of workers
\* dying, restarting and overlapping.
THEOREM ClaimedOnce == Spec => []NeverRerun
<1>1. JobTypeInv => NeverRerun
  BY DEF JobTypeInv, ClaimOK, NeverRerun
<1> QED
  BY <1>1, JobInvariant, PTL

\* No upload is imported twice or after it was discarded (upload_import,
\* upload_discard, _data_import), with any number of requests and workers.
THEOREM ImportedOnce == Spec => []ImportedAtMostOnce
<1>1. JobTypeInv /\ ImportInv => ImportedAtMostOnce
  BY DEF JobTypeInv, TypeOK, ImportInv, ImportOK, ImportOf, ImportedAtMostOnce, Active
<1> QED
  BY <1>1, JobInvariant, PTL

\* A queued import never finds its upload in another state than the one
\* _data_import asks for.
THEOREM ImportsFindTheirUpload == Spec => []QueuedImportIsImportable
<1>1. JobTypeInv /\ ImportInv => QueuedImportIsImportable
  BY DEF ImportInv, ImportOK, ImportOf, QueuedImportIsImportable
<1> QED
  BY <1>1, JobInvariant, PTL

\* A finished job never changes its state (finish, fail_orphans, request_cancel).
THEOREM FinishedJobsStay == Spec => OutcomesStand
<1>1. JobTypeInv /\ [Next]_vars
        => [\A j \in Jobs : status[j] \in Terminal => status'[j] = status[j]]_vars
  BY OutcomeStep
<1> QED
  BY <1>1, JobInvariant, PTL DEF Spec, OutcomesStand

\* An import runs on a file that waits for it, and on no file twice.
THEOREM ImportsStand == Spec => []ImportsAreSound
<1>1. ImportedAtMostOnce /\ QueuedImportIsImportable => ImportsAreSound
  BY DEF ImportsAreSound
<1> QED
  BY <1>1, ImportedOnce, ImportsFindTheirUpload, PTL

-----------------------------------------------------------------------------
\* Jobs get their ids in order; a handler past the duplicate check has seen no
\* identical active job, or the job was queued since and is in unseen.
Ordered == \A i, j \in Jobs : i < j /\ status[j] # "none" => status[i] # "none"
Alike(i, k) == status[i] \in Active /\ params[i] = k
SeenInv ==
    \A r \in Requests : rpc[r] = "insert" => \A i \in Jobs : Alike(i, asked[r]) => i \in unseen[r]
CopyInv == Ordered /\ SeenInv /\ CopiesAreRaced

LEMMA CopyInit == Init => CopyInv
BY DEF Init, CopyInv, Ordered, SeenInv, Alike, CopiesAreRaced, Active

\* A step that queues no job and passes no duplicate check.
LEMMA CopyFrame ==
    ASSUME CopyInv, UNCHANGED <<params, copies>>,
           \A j \in Jobs : status'[j] = "none" <=> status[j] = "none",
           \A j \in Jobs : status'[j] \in Active => status[j] \in Active,
           \A r \in Requests :
               rpc'[r] = "insert" => rpc[r] = "insert" /\ asked'[r] = asked[r] /\ unseen'[r] = unseen[r]
    PROVE  CopyInv'
<1>1. Ordered'
  BY DEF CopyInv, Ordered, Jobs
<1>2. SeenInv'
  BY DEF CopyInv, SeenInv, Alike, Jobs, Active
<1>3. CopiesAreRaced'
  BY DEF CopyInv, CopiesAreRaced, Jobs, Active
<1> QED
  BY <1>1, <1>2, <1>3 DEF CopyInv

LEMMA CopyLook == JobTypeInv /\ CopyInv /\ (\E r \in Requests : Look(r)) => CopyInv'
<1> SUFFICES ASSUME JobTypeInv, CopyInv, NEW r \in Requests, Look(r) PROVE CopyInv'
  OBVIOUS
<1>1. CASE \E j \in Jobs : status[j] \in Active /\ params[j] = asked[r]
  BY <1>1, CopyFrame DEF Look, Created, Answer, JobTypeInv, TypeOK
<1>2. CASE ~\E j \in Jobs : Alike(j, asked[r])
  <2>1. /\ UNCHANGED <<status, params, copies, unseen, asked>>
        /\ \A q \in Requests \ {r} : rpc'[q] = rpc[q]
    BY <1>2 DEF Look, Alike, JobTypeInv, TypeOK
  <2>2. SeenInv'
    BY <1>2, <2>1 DEF CopyInv, SeenInv, Alike, Active, Jobs
  <2> QED
    BY <2>1, <2>2 DEF CopyInv, Ordered, CopiesAreRaced, Active, Jobs
<1> QED
  BY <1>1, <1>2 DEF Alike

LEMMA CopyInsert == JobTypeInv /\ CopyInv /\ (\E r \in Requests : Insert(r)) => CopyInv'
<1> SUFFICES ASSUME JobTypeInv, CopyInv, NEW r \in Requests, Insert(r) PROVE CopyInv'
  OBVIOUS
<1>1. PICK j \in Jobs :
        /\ status[j] = "none" /\ \A i \in Jobs : i < j => status[i] # "none"
        /\ status' = [status EXCEPT ![j] = "queued"]
        /\ params' = [params EXCEPT ![j] = asked[r]]
        /\ copies' = [copies EXCEPT ![j] = unseen[r]]
        /\ unseen' = [q \in Requests |->
                        CASE q = r -> {}
                          [] rpc[q] = "insert" /\ q # r /\ asked[q] = asked[r] -> unseen[q] \cup {j}
                          [] OTHER -> unseen[q]]
  BY DEF Insert
<1>2. /\ rpc[r] = "insert" /\ rpc'[r] # "insert"
      /\ \A q \in Requests \ {r} : rpc'[q] = rpc[q] /\ asked'[q] = asked[q]
  BY DEF Insert, Created, Answer, JobTypeInv, TypeOK
<1>3. \A i \in Jobs \ {j} : /\ status'[i] = status[i] /\ params'[i] = params[i]
                            /\ copies'[i] = copies[i]
  BY <1>1 DEF JobTypeInv, TypeOK
<1>4. status'[j] = "queued" /\ params'[j] = asked[r] /\ copies'[j] = unseen[r]
  BY <1>1 DEF JobTypeInv, TypeOK
<1>5. Ordered'
  BY <1>1, <1>3, <1>4 DEF CopyInv, Ordered, Jobs
<1>6. SeenInv'
  <2> SUFFICES ASSUME NEW q \in Requests, rpc'[q] = "insert", NEW i \in Jobs,
                      status'[i] \in Active, params'[i] = asked'[q]
               PROVE  i \in unseen'[q]
    BY DEF SeenInv, Alike, Jobs, Active
  <2>1. q # r /\ rpc[q] = "insert" /\ asked'[q] = asked[q]
    BY <1>2
  <2>2. CASE i = j
    BY <1>1, <1>4, <2>1, <2>2
  <2>3. CASE i # j
    <3>1. i \in unseen[q]
      BY <1>3, <2>1, <2>3 DEF CopyInv, SeenInv, Alike, Active
    <3> QED
      BY <1>1, <2>1, <3>1
  <2> QED
    BY <2>2, <2>3
<1>7. CopiesAreRaced'
  <2> SUFFICES ASSUME NEW i \in Jobs, NEW k \in Jobs, i < k,
                      {status'[i], status'[k]} \subseteq Active, params'[i] = params'[k]
               PROVE  i \in copies'[k]
    BY DEF CopiesAreRaced, Jobs, Active
  <2>1. CASE k = j
    <3>1. i # j /\ Alike(i, asked[r])
      BY <1>3, <1>4, <2>1 DEF Alike, Jobs
    <3> QED
      BY <1>2, <1>4, <2>1, <3>1 DEF CopyInv, SeenInv
  <2>2. CASE k # j
    <3>1. status[k] # "none"
      BY <1>3, <2>2 DEF Active
    <3>2. i # j
      BY <1>1, <3>1 DEF CopyInv, Ordered
    <3> QED
      BY <1>3, <2>2, <3>2 DEF CopyInv, CopiesAreRaced
  <2> QED
    BY <2>1, <2>2
<1> QED
  BY <1>5, <1>6, <1>7 DEF CopyInv

LEMMA CopyStep == JobTypeInv /\ CopyInv /\ [Next]_vars => CopyInv'
<1> SUFFICES ASSUME JobTypeInv, CopyInv, [Next]_vars PROVE CopyInv'
  OBVIOUS
<1> USE DEF JobTypeInv, TypeOK
<1>1. CASE \E r \in Requests : Look(r)
  BY <1>1, CopyLook
<1>2. CASE \E r \in Requests : Insert(r)
  BY <1>2, CopyInsert
<1>3. CASE UNCHANGED <<status, params, copies, unseen>> /\ UNCHANGED requests
  BY <1>3, CopyFrame
<1>4. CASE \E r \in Requests : Queue(r) \/ Link(r) \/ Abort(r)
  BY <1>4, CopyFrame DEF Queue, WillCreate, Link, Abort, Answer
<1>5. CASE \/ \E r \in Requests, j \in Jobs : Retry(r, j)
           \/ \E r \in Requests, u \in Uploads : Import(r, u)
  BY <1>5, CopyFrame DEF Retry, Import, WillCreate
<1>6. ASSUME NEW j \in Jobs, RequestCancel(j) PROVE CopyInv'
  BY <1>6, CopyFrame DEF RequestCancel, Active
<1>7. ASSUME NEW w \in Workers, Start(w) PROVE CopyInv'
  BY <1>7, CopyFrame DEF Start, Active
<1>8. ASSUME NEW w \in Workers, NEW j \in Jobs, Claim(w, j) PROVE CopyInv'
  BY <1>8, CopyFrame DEF Claim, Active
<1>9. ASSUME NEW w \in Workers, Finish(w) PROVE CopyInv'
  <2>1. /\ outcome[w] \in Terminal /\ UNCHANGED <<params, copies, unseen, rpc, asked>>
        /\ status' = [status EXCEPT ![cur[w]] =
                        IF @ = "running" /\ owner[cur[w]] = w THEN outcome[w] ELSE @]
    BY <1>9 DEF Finish
  <2>2. \A j \in Jobs : status'[j] = status[j] \/ (status[j] = "running" /\ status'[j] \in Terminal)
    BY <2>1
  <2> QED
    BY <2>1, <2>2, CopyFrame DEF Active, Terminal
<1>10. \/ UNCHANGED <<status, params, copies, unseen>> /\ UNCHANGED requests
       \/ \E r \in Requests : Look(r) \/ Insert(r) \/ Queue(r) \/ Link(r) \/ Abort(r)
       \/ \E r \in Requests, j \in Jobs : Retry(r, j)
       \/ \E r \in Requests, u \in Uploads : Import(r, u)
       \/ \E j \in Jobs : RequestCancel(j)
       \/ \E w \in Workers : Start(w) \/ Finish(w)
       \/ \E w \in Workers, j \in Jobs : Claim(w, j)
  BY DEF vars, Next, Proceed, Interrupt, Request, Handle, Receive, Discard, Age, Fails, KeepAlive, Crash,
         Drop, StoreFails, Checkpoint, ReadUpload, ReplaceFile, Mark, Undo
<1> QED
  BY <1>1, <1>2, <1>3, <1>4, <1>5, <1>6, <1>7, <1>8, <1>9, <1>10

\* Two identical active jobs passed the duplicate check of create_job at the same
\* time, for any number of handlers, workers and jobs.
THEOREM CopiesNeedARace == Spec => []CopiesAreRaced
<1>1. CopyInv => CopiesAreRaced
  BY DEF CopyInv
<1>2. JobTypeInv /\ CopyInv /\ [Next]_vars => CopyInv'
  BY CopyStep
<1> QED
  BY <1>1, <1>2, CopyInit, JobInvariant, PTL DEF Spec
=============================================================================
