----------------------------- MODULE AuditTrail -----------------------------
(***************************************************************************)
(* The audit database of one trading cycle: migrations that run up and     *)
(* down, the transactions of persistence/repositories.py, and anybody with *)
(* a SQL prompt, against the foreign keys and triggers of the schema.  A   *)
(* table holds a row of the cycle or not; of the columns only references   *)
(* that can change and the state of the order intent are kept.             *)
(***************************************************************************)
EXTENDS AuditSchema, OrderStates

CONSTANT
    Used          \* the tables in which rows are looked at

VARIABLES
    revision,     \* the migration the database is at
    tables,       \* its tables
    guarded,      \* tables whose trigger refuses UPDATE and DELETE
    rows,         \* tables that hold a committed row of the cycle
    links,        \* references as they stand, <<child, parent>>: optional ones
                  \* that are set, and that of the cycle to its configuration
    draft,        \* rows the open transaction of record_decision has added
    point,        \* where that transaction is
    orderRow,     \* state of the order intent, "none" before there is one
    emptied       \* history: tables that TRUNCATE took rows of since a decision
                  \* was last written

trailVars == << revision, tables, guarded, rows, links, draft, point, orderRow, emptied >>

ASSUME UsedAreTables == Used \subseteq Names(Models)

Must(t) == UNION {x.must : x \in {y \in tables : y.name = t}}
May(t)  == UNION {x.may  : x \in {y \in tables : y.name = t}}

TrailInit ==
    /\ revision = 0 /\ tables = {} /\ guarded = {}
    /\ rows = {} /\ links = {} /\ draft = {} /\ point = "idle" /\ orderRow = "none"
    /\ emptied = {}

-----------------------------------------------------------------------------
(* Migrations: persistence/migrate.py, all of a command in one transaction. *)

TableSet(r) == ToSet(Upgrade[r])

Migrate(r) ==
    /\ point = "idle" /\ r > revision
    /\ LET new == revision + 1 .. r
           failing == {n \in new :
               ~ Creatable(tables \cup UNION {TableSet(k) : k \in {j \in new : j < n}}, Upgrade[n])}
       IN  /\ failing = {}
           /\ tables'  = tables \cup UNION {TableSet(n) : n \in new}
           /\ guarded' = guarded \cup UNION {Guards[n] : n \in new}
    /\ revision' = r
    /\ UNCHANGED << rows, links, draft, point, orderRow, emptied >>

\* One revision down; rows and triggers go with their tables.
Revert ==
    /\ point = "idle" /\ revision > 0
    /\ Droppable(tables, Downgrade[revision]) = TRUE
    /\ LET gone == ToSet(Downgrade[revision])
       IN  /\ tables'  = {x \in tables : x.name \notin gone}
           /\ guarded' = guarded \ gone
           /\ rows'    = rows \ gone
           /\ links'   = {l \in links : l[1] \notin gone}
           /\ emptied' = emptied \ gone
           /\ orderRow'  = IF "order_intents" \in gone THEN "none" ELSE orderRow
    /\ revision' = revision - 1
    /\ UNCHANGED << draft, point >>

-----------------------------------------------------------------------------
(* Repositories.  Every method is one transaction; a foreign key or a check *)
(* of its own that fails leaves nothing behind.                             *)

ReferenceWrites ==
    {"config_versions", "instruments", "strategy_versions", "strategy_lifecycle_events",
     "research_runs", "data_snapshots", "data_quality_reports"}

ReportWrites == {"account_snapshots", "position_snapshots", "reconciliation_reports", "shadow_orders"}

MonitoringWrites ==
    {"system_events", "errors", "kill_switch_events", "kill_switch_state", "notifications_sent",
     "daily_performance"}

\* Rows that can be inserted beside `have'.
Insertable(t, have) == t \in Used \cap Names(tables) /\ Must(t) \subseteq have

\* A single row; an optional reference is set if the row it names is there.
Record(t) ==
    /\ t \in ReferenceWrites \cup ReportWrites \cup MonitoringWrites \cup {"preflight_reports", "cycle_steps"}
    /\ t \notin rows /\ Insertable(t, rows)
    /\ rows' = rows \cup {t}
    /\ \E named \in SUBSET (May(t) \cap rows) : links' = links \cup ({t} \X named)
    /\ UNCHANGED << revision, tables, guarded, draft, point, orderRow, emptied >>

StartCycle ==
    /\ "trading_cycles" \notin rows /\ Insertable("trading_cycles", rows)
    /\ rows' = rows \cup {"trading_cycles"}
    /\ links' = links \cup ({"trading_cycles"} \X Must("trading_cycles"))
    /\ UNCHANGED << revision, tables, guarded, draft, point, orderRow, emptied >>

\* An order intent and the event that tells of it.
CreateIntent ==
    /\ orderRow = "none" /\ Insertable("order_intents", rows)
    /\ Insertable("order_events", rows \cup {"order_intents"})
    /\ rows' = rows \cup {"order_intents", "order_events"}
    /\ orderRow' = "created"
    /\ UNCHANGED << revision, tables, guarded, links, draft, point, emptied >>

\* The trigger on order_intents.
TriggerAllows(s, t) ==
    /\ s \in {"filled", "cancelled", "rejected"} => t = s
    /\ ~(s = "unknown" /\ t \in {"created", "validated", "submitted"})

MoveIntent(t) ==
    /\ orderRow # "none" /\ CanTransition(orderRow, t) /\ TriggerAllows(orderRow, t)
    /\ orderRow' = t
    /\ UNCHANGED << revision, tables, guarded, rows, links, draft, point, emptied >>

RecordExecution ==
    /\ "executions" \notin rows /\ Insertable("executions", rows)
    /\ rows' = rows \cup {"executions"}
    /\ UNCHANGED << revision, tables, guarded, links, draft, point, orderRow, emptied >>

-----------------------------------------------------------------------------
(* record_decision: signals to target in one transaction with two flushes.  *)

Rollback == draft' = {} /\ point' = "idle" /\ UNCHANGED << revision, tables, guarded, rows, links, orderRow, emptied >>

Add(new, next) ==
    /\ new \subseteq {t \in Used : Insertable(t, rows \cup draft \cup new)}
    /\ draft' = draft \cup new /\ point' = next
    /\ UNCHANGED << revision, tables, guarded, rows, links, orderRow, emptied >>

\* Indicators, signals (their strategies must be registered), ensemble, proposal.
AddChain ==
    /\ point = "idle" /\ "risk_decisions" \notin rows
    /\ Add({"indicator_snapshots", "strategy_signals", "ensemble_decisions", "portfolio_proposals"}, "risk")

\* Mutant: the flush after the risk decision commits.
AddRisk_commits(sameId) ==
    /\ point = "risk" /\ Insertable("risk_decisions", rows \cup draft) /\ sameId
    /\ rows' = rows \cup draft \cup {"risk_decisions"} /\ draft' = {} /\ point' = "idle"
    /\ UNCHANGED << revision, tables, guarded, links, orderRow, emptied >>

\* Refused if target and decision have different ids.
AddRisk(sameId) ==
    /\ point = "risk"
    /\ IF sameId THEN Add({"risk_decisions"}, "target") ELSE Rollback

AddTarget == point = "target" /\ Add({"target_portfolios"}, "commit")

Commit ==
    /\ point = "commit"
    /\ rows' = rows \cup draft /\ draft' = {} /\ point' = "idle"
    /\ \E named \in SUBSET (May("indicator_snapshots") \cap rows) :
          links' = links \cup ({"indicator_snapshots"} \X named)
    /\ emptied' = emptied \ draft
    /\ UNCHANGED << revision, tables, guarded, orderRow >>

\* The process dies, the connection breaks or a statement is refused.
Fail == point # "idle" /\ Rollback

-----------------------------------------------------------------------------
(* Any other client of the database. *)

\* Rows that refer to t, the uncommitted ones included (they hold its key).
Referring(t) ==
    {c \in rows \cup draft : t \in Must(c)} \cup {c \in rows : << c, t >> \in links}

Removed(gone) ==
    /\ rows' = rows \ gone /\ links' = {l \in links : l[1] \notin gone}
    /\ orderRow' = IF "order_intents" \in gone THEN "none" ELSE orderRow
    /\ UNCHANGED << revision, tables, guarded, draft, point >>

Delete(t) ==
    /\ t \in rows \ guarded /\ t \notin NoDelete /\ Referring(t) = {}
    /\ Removed({t}) /\ UNCHANGED emptied

\* UPDATE of a key nothing refers to: what explain.py looks for is not there.
\* An order intent refuses it (aq_guard_order_intent), a cycle does not.
Rekey(t) ==
    /\ t \in rows \ guarded /\ t # "order_intents" /\ Referring(t) = {}
    /\ Removed({t}) /\ UNCHANGED emptied

\* UPDATE of a reference: it names another row, or none, or this one again.
Redirect(c, p) ==
    /\ c \in rows \ guarded /\ c # "order_intents" /\ p \in rows \cap (Must(c) \cup May(c))
    /\ links' = IF << c, p >> \in links THEN links \ {<< c, p >>} ELSE links \cup {<< c, p >>}
    /\ UNCHANGED << revision, tables, guarded, rows, draft, point, orderRow, emptied >>

\* What refers to some of the tables, whether it must or may.
Referrers(some) == {x.name : x \in {y \in tables : (y.must \cup y.may) \cap some # {}}}

\* CASCADE adds what refers to the table, what refers to that, and so on: the
\* longest chain of references is from order events to configurations.
Cascade(t) ==
    LET within[n \in 0..6] ==
            IF n = 0 THEN {t} ELSE LET some == within[n - 1] IN some \cup Referrers(some)
    IN  within[6]

\* TRUNCATE fires no row trigger: it takes the rows of guarded tables as well,
\* as long as it takes those of every table that refers to them, and waits for
\* the lock of an open transaction.
Truncate(gone) ==
    /\ Referrers(gone) \subseteq gone /\ gone \cap draft = {} /\ gone \cap rows # {}
    /\ Removed(gone) /\ emptied' = emptied \cup (gone \cap rows)

SetIntent(t) ==
    /\ orderRow # "none" /\ TriggerAllows(orderRow, t) /\ t # orderRow
    /\ orderRow' = t
    /\ UNCHANGED << revision, tables, guarded, rows, links, draft, point, emptied >>

TrailNext ==
    \/ \E r \in Revisions : Migrate(r)
    \/ Revert
    \/ \E t \in Used : Record(t)
    \/ StartCycle \/ CreateIntent \/ RecordExecution
    \/ \E t \in OrderState : MoveIntent(t)
    \/ AddChain \/ (\E b \in BOOLEAN : AddRisk(b)) \/ AddTarget \/ Commit \/ Fail
    \/ \E t \in Used : Delete(t)
    \/ \E t \in Used : Rekey(t)
    \/ \E c \in rows : \E p \in Must(c) \cup May(c) : Redirect(c, p)
    \/ \E t \in Used : Truncate(Cascade(t))
    \/ \E t \in OrderState : SetIntent(t)

TrailSpec == TrailInit /\ [][TrailNext]_trailVars

-----------------------------------------------------------------------------
(* persistence/explain.py: the rows explain_decision gathers for the cycle. *)
Explained ==
    LET ofCycle == {"preflight_reports", "ensemble_decisions", "strategy_signals",
                    "indicator_snapshots", "risk_decisions", "order_intents", "shadow_orders",
                    "account_snapshots", "position_snapshots", "reconciliation_reports"}
        beyond  == [ c \in {"risk_decisions", "strategy_signals", "order_intents"} |->
                        CASE c = "risk_decisions"   -> {"target_portfolios", "portfolio_proposals"}
                          [] c = "strategy_signals" -> {"strategy_versions"}
                          [] c = "order_intents"    -> {"order_events", "executions"} ]
    IN  IF "trading_cycles" \notin rows THEN {}
        ELSE rows \cap ({"trading_cycles"} \cup ofCycle
                          \cup (UNION {beyond[c] : c \in rows \cap DOMAIN beyond})
                          \cup {l[2] : l \in {x \in links :
                                            x[1] \in {"trading_cycles", "indicator_snapshots"}}})

-----------------------------------------------------------------------------
(* Properties *)

\* Types: a row is in a table that exists, its references are satisfied.
TrailTypeOK ==
    /\ revision \in 0..4 /\ tables \subseteq Models
    /\ guarded \subseteq Names(tables)
    /\ rows \subseteq Used \cap Names(tables) /\ draft \subseteq Used \cap Names(tables)
    /\ \A t \in rows : Must(t) \subseteq rows
    /\ \A l \in links : l[1] \in rows /\ l[2] \in rows
    /\ point \in {"idle", "risk", "target", "commit"} /\ (point = "idle" <=> draft = {})
    /\ orderRow \in OrderState \cup {"none"} /\ (orderRow # "none" => "order_intents" \in rows)
    /\ emptied \subseteq Used

\* Whatever revision a database is at, both ways are open: a migration creates
\* a table after those it refers to and drops it before them.
MigrationsRun ==
    /\ revision < 4 => Creatable(tables, Upgrade[revision + 1])
    /\ revision > 0 => Droppable(tables, Downgrade[revision])

\* At head the migrations have made what the models declare, triggers included,
\* also after any number of steps down and up again.
SchemaIsModels == revision = 4 => tables = Models /\ guarded = AppendOnly

\* Every move the order state machine allows passes the trigger, from every
\* state the row can be brought into: no legal transition fails in the database.
MachineFitsTrigger ==
    orderRow # "none" => \A t \in OrderState : CanTransition(orderRow, t) => TriggerAllows(orderRow, t)

\* A stored risk decision has its signals, ensemble, proposal and target beside
\* it, wherever record_decision was interrupted, but for what was truncated.
DecisionsAreWhole ==
    "risk_decisions" \in rows =>
        {"indicator_snapshots", "strategy_signals", "ensemble_decisions", "portfolio_proposals",
         "target_portfolios"} \subseteq rows \cup emptied

\* What explains a cycle today explains it tomorrow, whatever INSERT, UPDATE and
\* DELETE anybody sends and wherever a transaction breaks off: as long as the
\* schema stands and nobody truncates a table, an explanation loses at most the
\* configuration, when the cycle's row is made to name another, and is lost
\* itself only for a cycle of which nothing else has been recorded.
ExplanationsStand ==
    [][ \/ Explained \ Explained' \subseteq
               IF links' # links /\ rows' = rows THEN {"config_versions"} ELSE {}
        \/ Explained \subseteq {"trading_cycles", "config_versions"}
        \/ revision' < revision
        \/ \E t \in Used : Truncate(Cascade(t)) ]_trailVars

\* The schema, as models, migrations and triggers write it by hand three times,
\* is one schema: it can be built up and taken down from every revision, it is
\* the models', and its trigger lets every legal move of an order through.
SchemaStands == MigrationsRun /\ SchemaIsModels /\ MachineFitsTrigger

\* No row refers to one that is not there, and no decision stands alone,
\* whatever was inserted, broken off, deleted or migrated around it.
TrailIsSound == TrailTypeOK /\ DecisionsAreWhole
=============================================================================
