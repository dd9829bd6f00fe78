---------------------------- MODULE RuntimeConfig ----------------------------
(***************************************************************************)
(* The effective configuration: the reviewed YAML of a deployment and the  *)
(* row of runtime changes on top of it (config/loader.py, schema.py,       *)
(* runtime.py, services/runtime.py), changed by the settings and strategy  *)
(* requests of the control plane (api/control.py, services/strategies.py,  *)
(* governance/lifecycle.py).  Of the settings two risk limits, an ordinary *)
(* setting and the trading mode are kept, of the strategies one.           *)
(***************************************************************************)
EXTENDS Integers, Sequences, FiniteSets

CONSTANTS
    Clients,      \* requests that may be open at once
    Reviewed,     \* the YAML files and secrets that may be deployed
    MaxRevision   \* bound: saves

VARIABLES
    yaml,         \* what is deployed
    row,          \* runtime_config: overlay, overrides and their revision
    request,      \* request[c]: a strategy request between its first reading and its end
    events,       \* strategy_lifecycle_events
    deployed,     \* history: deployed since the last save
    met,          \* history: two requests were open at once
    told          \* history: no request broke off before its event, nothing was deployed

configVars == << yaml, row, request, events, deployed, met, told >>

-----------------------------------------------------------------------------
(* Lifecycles: governance/lifecycle.py. *)

Lifecycles == {"research", "validated", "paper", "shadow", "live_approved", "disabled"}

Allowed ==
    [ research      |-> {"validated", "disabled"},
      validated     |-> {"paper", "research", "disabled"},
      paper         |-> {"shadow", "validated", "disabled"},
      shadow        |-> {"live_approved", "paper", "disabled"},
      live_approved |-> {"shadow", "disabled"},
      disabled      |-> {"research"} ]

Rank == [disabled |-> -1, research |-> 0, validated |-> 1, paper |-> 2, shadow |-> 3, live_approved |-> 4]

IsPromotion(from, to) == Rank[to] > Rank[from]

\* Who may make a change: an automated part promotes to validated only, a person
\* justifies a promotion.
Transition(from, to, kind, justified) ==
    /\ to \in Allowed[from]
    /\ IsPromotion(from, to) => \/ kind = "human" /\ justified
                                \/ kind = "system" /\ << from, to >> = << "research", "validated" >>

UILifecycles == Lifecycles \ {"live_approved"}
ParamEditable == {"research", "disabled"}

-----------------------------------------------------------------------------
(* The YAML: a mode, what it takes for live trading, limits, a strategy. *)

OptIns == {"production", "enabled", "acknowledgement", "confirm", "real_broker"}

\* enforce_trading_mode_policy
MayLoad(y) == y.mode = "live" => y.optins = OptIns

\* The schema's rules over what is kept: max_gross_exposure + min_cash_weight
\* is at most one (2 here); live_approved needs a written approval.
Valid(s) ==
    /\ s.gross \in 0..2 /\ s.cash \in 0..2 /\ s.gross + s.cash <= 2
    /\ s.capital > 0
    /\ s.lifecycle = "live_approved" => s.approved

\* The strategy registry knows parameters 0 and 1.
CatalogBuilds(s) == s.params \in {0, 1}

-----------------------------------------------------------------------------
(* runtime.py *)

\* Settings that may change at run time, with the tighter direction of a limit.
Editable == [gross |-> "lower", cash |-> "higher", capital |-> "any"]

RuntimeModes == {"shadow", "paper"}

ValidateOverlay(overlay) ==
    \A path \in DOMAIN overlay :
        \/ path = "mode" /\ overlay[path] \in RuntimeModes
        \/ path \in DOMAIN Editable

ValidateStrategyOverrides(o) == "lifecycle" \in DOMAIN o => o.lifecycle \in UILifecycles

CheckTightening(y, path, v) ==
    CASE path \notin DOMAIN Editable -> TRUE
      [] Editable[path] = "lower"    -> v <= y[path]
      [] Editable[path] = "higher"   -> v >= y[path]
      [] OTHER                       -> TRUE

\* Laid over: the fields of g that f has not, or has differently.
Over(f, g) == [x \in DOMAIN f \cup DOMAIN g |-> IF x \in DOMAIN g THEN g[x] ELSE f[x]]

Merged(y, overlay, o) == Over(Over(y, overlay), o)

\* apply_runtime and resolve succeed.
Resolves(y, overlay, o) ==
    \/ DOMAIN overlay \cup DOMAIN o = {}
    \/ LET s == Merged(y, overlay, o)
       IN  /\ ValidateOverlay(overlay) /\ ValidateStrategyOverrides(o)
           /\ \A path \in DOMAIN overlay : CheckTightening(y, path, overlay[path])
           /\ Valid(s) /\ CatalogBuilds(s)
           /\ s.mode # "live" /\ "enabled" \notin s.optins

Nothing == [x \in {} |-> 0]
Works     == Resolves(yaml, row.overlay, row.overrides)
Effective == Merged(yaml, row.overlay, row.overrides)

\* What a file says, of what is kept.
Files ==
    [gross : Int, cash : Int, capital : Int, mode : {"backtest", "shadow", "paper", "live"},
     optins : SUBSET OptIns, lifecycle : Lifecycles, approved : BOOLEAN, params : Int, enabled : BOOLEAN]

ASSUME ReviewedAreFiles == Reviewed \subseteq Files
ASSUME MaxRevisionIsNatural == MaxRevision \in Nat
ASSUME ReviewedLoads == \A y \in Reviewed : MayLoad(y) /\ Valid(y) /\ CatalogBuilds(y)

NoRequest == [kind |-> "none", overrides |-> Nothing, event |-> << >>]

ConfigInit ==
    /\ yaml \in Reviewed
    /\ row = [revision |-> 0, overlay |-> Nothing, overrides |-> Nothing]
    /\ request = [c \in Clients |-> NoRequest]
    /\ events = << >> /\ deployed = FALSE /\ met = FALSE /\ told = TRUE

-----------------------------------------------------------------------------
(* Requests.  Each begins with effective(), an error if it does not resolve. *)

\* Mutant: what is saved is not resolved first.
Save_unresolved(overlay, overrides) ==
    /\ row.revision < MaxRevision
    /\ row' = [revision |-> row.revision + 1, overlay |-> overlay, overrides |-> overrides]
    /\ deployed' = FALSE

Save(overlay, overrides) ==
    /\ row.revision < MaxRevision
    /\ Resolves(yaml, overlay, overrides)
    /\ row' = [revision |-> row.revision + 1, overlay |-> overlay, overrides |-> overrides]
    /\ deployed' = FALSE

\* POST /settings: a new value, or the reviewed one again.  The revision it was
\* based on is checked when it is saved, so that the whole of it is one step.
SettingsChange(path, value, reset) ==
    /\ Works /\ path \in DOMAIN Editable
    /\ LET others == [p \in DOMAIN row.overlay \ {path} |-> row.overlay[p]]
       IN  Save(IF reset THEN others ELSE Over(others, [p \in {path} |-> value]), row.overrides)
    /\ UNCHANGED << yaml, request, events, met, told >>

\* The save of POST /trading/mode.
ModeChange(target) ==
    /\ Works /\ target \in RuntimeModes /\ target # Effective.mode
    /\ Save(Over(row.overlay, [mode |-> target]), row.overrides)
    /\ UNCHANGED << yaml, request, events, met, told >>

\* The strategy requests compute their overrides from a first reading ...
Ask(c, kind, overrides, event) ==
    /\ request[c].kind = "none"
    /\ request' = [request EXCEPT ![c] = [kind |-> kind, overrides |-> overrides, event |-> event]]
    /\ met' = (met \/ \E d \in Clients : request[d].kind # "none")
    /\ UNCHANGED << yaml, row, events, deployed, told >>

\* Mutant: parameters are editable in every lifecycle.
WithParams_always(c, params) ==
    Works /\ Ask(c, "params", Over(row.overrides, [params |-> params]), << >>)

WithParams(c, params) ==
    /\ Works /\ Effective.lifecycle \in ParamEditable
    /\ Ask(c, "params", Over(row.overrides, [params |-> params]), << >>)

WithEnabled(c, enabled) ==
    Works /\ Ask(c, "enabled", Over(row.overrides, [enabled |-> enabled]), << >>)

WithLifecycle(c, to, justified) ==
    /\ Works /\ to \in UILifecycles
    /\ Transition(Effective.lifecycle, to, "human", justified)
    /\ Ask(c, "lifecycle", Over(row.overrides, [lifecycle |-> to]),
           << [from |-> Effective.lifecycle, to |-> to, params |-> Effective.params] >>)

\* ... and save them over what a second reading finds.
SaveOverrides(c) ==
    /\ request[c].kind \in {"params", "enabled", "lifecycle"} /\ Works
    /\ Save(row.overlay, request[c].overrides)
    /\ request' = [request EXCEPT ![c] = IF request[c].kind = "lifecycle"
                                         THEN [request[c] EXCEPT !.kind = "event"] ELSE NoRequest]
    /\ UNCHANGED << yaml, events, met, told >>

\* A lifecycle change is recorded after it is saved.
RecordEvent(c) ==
    /\ request[c].kind = "event"
    /\ events' = events \o request[c].event
    /\ request' = [request EXCEPT ![c] = NoRequest]
    /\ UNCHANGED << yaml, row, deployed, met, told >>

\* Refused (400, 409, 503) or dead before its end.
BreakOff(c) ==
    /\ request[c].kind # "none"
    /\ request' = [request EXCEPT ![c] = NoRequest]
    /\ told' = (told /\ request[c].kind # "event")
    /\ UNCHANGED << yaml, row, events, deployed, met >>

\* A reviewed change of YAML or secrets goes live; the row stays.
Deploy(y) ==
    /\ y # yaml /\ y \in Reviewed /\ MayLoad(y) /\ Valid(y)
    /\ yaml' = y /\ deployed' = TRUE /\ told' = FALSE
    /\ request' = [c \in Clients |-> NoRequest]
    /\ UNCHANGED << row, events, met >>

ConfigNext ==
    \/ \E path \in DOMAIN Editable, v \in 0..2, reset \in BOOLEAN : SettingsChange(path, v, reset)
    \/ \E m \in {"backtest", "shadow", "paper", "live"} : ModeChange(m)
    \/ \E c \in Clients :
          \/ \E p \in 0..2 : WithParams(c, p)
          \/ \E b \in BOOLEAN : WithEnabled(c, b)
          \/ \E to \in Lifecycles, j \in BOOLEAN : WithLifecycle(c, to, j)
          \/ SaveOverrides(c) \/ RecordEvent(c) \/ BreakOff(c)
    \/ \E y \in Reviewed : Deploy(y)

ConfigSpec == ConfigInit /\ [][ConfigNext]_configVars

-----------------------------------------------------------------------------
(* Properties *)

\* Types, and that the events of the log are steps of the lifecycle graph.
ConfigTypeOK ==
    /\ yaml \in Reviewed /\ row.revision \in 0..MaxRevision
    /\ DOMAIN row.overlay \subseteq {"gross", "cash", "capital", "mode"}
    /\ DOMAIN row.overrides \subseteq {"params", "enabled", "lifecycle"}
    /\ \A c \in Clients : request[c].kind \in {"none", "params", "enabled", "lifecycle", "event"}
    /\ \A i \in DOMAIN events : events[i].to \in Allowed[events[i].from]

\* A configuration anything runs with is never looser than the reviewed one,
\* whatever was saved before the YAML it was checked against was replaced.
LimitsNeverLoosen == Works => Effective.gross <= yaml.gross /\ Effective.cash >= yaml.cash

\* Live trading needs every opt-in, live approval a reviewed approval: neither
\* ever comes out of the runtime row, in any order of deployments and saves.
LiveIsReviewed ==
    Works => /\ Effective.mode = "live" => yaml.mode = "live" /\ yaml.optins = OptIns
             /\ Effective.lifecycle = "live_approved" => yaml.lifecycle = "live_approved" /\ yaml.approved

\* What was accepted works until the YAML under it changes: only a deployment
\* can leave the system without a configuration.
AcceptedSavesWork == ~deployed => Works

\* Parameters of a strategy beyond research change with a deployment only, as
\* long as no two requests meet (one that began earlier saves what it read then).
PromotedParamsHold ==
    [][ (yaml' = yaml /\ Works /\ Works' /\ Effective.params # Effective'.params)
          => \/ met
             \/ Effective.lifecycle \in ParamEditable /\ Effective'.lifecycle \in ParamEditable ]_configVars

\* The last lifecycle event is of the lifecycle in force, unless a request
\* broke off after its save, two of them met, or the YAML changed.
EventsTellTheLifecycle ==
    told /\ ~met /\ events # << >> /\ (\A c \in Clients : request[c].kind # "event")
      => events[Len(events)].to = Effective.lifecycle

\* Deployments and requests in any order: the reviewed file binds what the
\* runtime row may do, what was accepted works, and the history tells of it.
ConfigHolds == LimitsNeverLoosen /\ LiveIsReviewed /\ AcceptedSavesWork /\ EventsTellTheLifecycle
=============================================================================
