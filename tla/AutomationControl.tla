-------------------------- MODULE AutomationControl --------------------------
(***************************************************************************)
(* Who may trade, and in which mode: the runtime configuration row, the    *)
(* operator's automation switch and the advisory lock, as the API's        *)
(* request handlers write them (api/control.py) and as the scheduler       *)
(* supervisor of each worker reads them (worker/scheduler.py).  Every      *)
(* action is one transaction, one decision made from what was read, or     *)
(* something that befalls a process.                                       *)
(*                                                                         *)
(* Of the configuration the model keeps the trading mode and the set of    *)
(* strategies that may trade, which is the same set in both modes.  The    *)
(* reasons for a refusal that are not about these rows - a confirmation    *)
(* phrase, the account's verification, the kill switch, data, a late       *)
(* heartbeat, a failed read - are the free choice to refuse.               *)
(***************************************************************************)
EXTENDS FiniteSets

CONSTANTS
    Strategies,  \* strategies of the configuration
    Handlers,    \* API requests that can run at the same time
    Workers,     \* worker processes, of overlapping deployments too
    GateOn,      \* the workers deployed with the master gate on
    Nobody       \* the advisory lock is free

ASSUME GateAssumption   == GateOn \subseteq Workers
ASSUME NobodyAssumption == Nobody \notin Workers

Modes == {"shadow", "paper"}

\* A request asks for a mode, for automation in a mode, or for a strategy to be
\* allowed to trade or not.  Edited parameters are a withdrawal: a strategy with
\* editable parameters does not trade, and the save writes the same set.
Asks ==
    [kind : {"none", "mode", "start"}, to : Modes]
        \cup [kind : {"permit", "withdraw"}, to : Strategies]
NoAsk == [kind |-> "none", to |-> "shadow"]

VARIABLES
    \* runtime_config, control_state['scheduler'], PostgreSQL's advisory lock
    mode, eligible, desired, owner,
    \* API handlers: where a request is, what it asks, the strategies it will
    \* save; those whose revision is outdated
    at, ask, draft, stale,
    \* workers: where the supervisor is, the mode and strategies of its scheduler
    pc, runs, started,
    \* history: a lock was lost with its connection; requests whose check of the
    \* switch, or whose first read, was overtaken by a write; guards that were
    lost, moved, overtaken, stirred

rows     == <<mode, eligible, desired>>
requests == <<at, ask, draft, stale>>
workers  == <<pc, runs, started>>
vars     == <<rows, owner, requests, workers, lost, moved, overtaken, stirred>>

Starting == {"request", "lock"}
Guarding == {"ask", "send"}
Places   == {"off", "wait", "check", "wanted", "start", "tick", "guard"}
                \cup Starting \cup Guarding

\* SchedulerSupervisor.running; while a start is going on, runs is only a candidate.
Running(w) == runs[w] # "none" /\ pc[w] \notin Starting

TypeOK ==
    /\ mode \in Modes /\ eligible \subseteq Strategies
    /\ desired \in Modes \cup {"stopped"}
    /\ owner \in Workers \cup {Nobody}
    /\ at \in [Handlers -> {"free", "check", "stop", "again", "save"}]
    /\ ask \in [Handlers -> Asks]
    /\ draft \in [Handlers -> SUBSET Strategies]
    /\ pc \in [Workers -> Places]
    /\ runs \in [Workers -> Modes \cup {"none"}]
    /\ started \in [Workers -> SUBSET Strategies]
    /\ stale \subseteq Handlers /\ moved \subseteq Handlers /\ overtaken \subseteq Handlers
    /\ stirred \subseteq Workers
    /\ lost \in BOOLEAN
    /\ \A h \in Handlers :
          /\ at[h] = "free"  => ask[h].kind = "none"
          /\ at[h] = "check" => ask[h].kind \in {"mode", "start"}
          /\ at[h] = "stop"  => ask[h].kind = "mode"
          /\ at[h] = "again" => ask[h].kind \in {"permit", "withdraw"}
    /\ \A w \in Workers :
          /\ pc[w] \in {"off", "start"} => runs[w] = "none"
          /\ pc[w] \notin {"off", "start", "wait"} => runs[w] # "none"
          /\ pc[w] \in {"guard"} \cup Guarding => runs[w] = "paper"

\* A fresh deployment is in shadow mode, stopped, with no approved strategy.
Init ==
    /\ mode = "shadow" /\ eligible = {} /\ desired = "stopped" /\ owner = Nobody
    /\ at = [h \in Handlers |-> "free"] /\ ask = [h \in Handlers |-> NoAsk]
    /\ draft = [h \in Handlers |-> {}] /\ stale = {}
    /\ pc = [w \in Workers |-> "off"] /\ runs = [w \in Workers |-> "none"]
    /\ started = [w \in Workers |-> {}]
    /\ lost = FALSE /\ moved = {} /\ overtaken = {} /\ stirred = {}

-----------------------------------------------------------------------------
(***************************************************************************)
(* API handlers.                                                           *)
(***************************************************************************)
\* A write of what the transmit guard reads.
Stir == stirred' = {w \in Workers : pc[w] \in Guarding}

\* A saved configuration has a new revision: what the others read is outdated.
Outdate(h) == stale' = {g \in Handlers : g # h /\ at[g] # "free"}

\* set_state('scheduler').
WriteSwitch(value) ==
    /\ desired' = value
    /\ moved' = {g \in Handlers : at[g] = "save" /\ ask[g].kind = "mode"}
    /\ Stir

\* The request is answered, or its process is gone.
Free(h) ==
    /\ at' = [at EXCEPT ![h] = "free"]
    /\ ask' = [ask EXCEPT ![h] = NoAsk]
    /\ draft' = [draft EXCEPT ![h] = {}]

Forget(h) == Free(h) /\ stale' = stale \ {h}

\* A request is refused or dies between two of its transactions.
Refuse(h) ==
    /\ at[h] # "free"
    /\ Forget(h)
    /\ moved' = moved \ {h} /\ overtaken' = overtaken \ {h}
    /\ UNCHANGED <<rows, owner, workers, lost, stirred>>

\* effective() at the start of a handler: the rows and their revision.
Read(h, a, p, strategies) ==
    /\ at[h] = "free"
    /\ at' = [at EXCEPT ![h] = p]
    /\ ask' = [ask EXCEPT ![h] = a]
    /\ draft' = [draft EXCEPT ![h] = strategies]
    /\ UNCHANGED <<rows, owner, stale, workers, lost, moved, overtaken, stirred>>

\* trading_mode: a mode that is already set is refused.
BeginMode(h, target) ==
    target # mode /\ Read(h, [kind |-> "mode", to |-> target], "check", eligible)

\* Mutant: the switch is not looked at.
CheckSwitch_paperIgnores(h) ==
    /\ at[h] = "check" /\ ask[h].kind = "mode"
    /\ at' = [at EXCEPT ![h] = IF desired = "stopped" \/ ask[h].to = "paper"
                               THEN "save" ELSE "stop"]
    /\ moved' = moved \ {h}
    /\ UNCHANGED <<rows, owner, ask, draft, stale, workers, lost, overtaken, stirred>>

\* _paper_switch: paper only while automation is stopped; shadow stops it first.
CheckSwitch(h) ==
    /\ at[h] = "check" /\ ask[h].kind = "mode"
    /\ desired = "stopped" \/ ask[h].to = "shadow"
    /\ at' = [at EXCEPT ![h] = IF desired = "stopped" THEN "save" ELSE "stop"]
    /\ moved' = moved \ {h}
    /\ UNCHANGED <<rows, owner, ask, draft, stale, workers, lost, overtaken, stirred>>

\* _stop_automation, before the mode is saved.
StopFirst(h) ==
    /\ at[h] = "stop"
    /\ at' = [at EXCEPT ![h] = "save"]
    /\ WriteSwitch("stopped")
    /\ UNCHANGED <<mode, eligible, owner, ask, draft, stale, workers, lost, overtaken>>

\* save_runtime_config with the strategies and the revision that were read; a
\* conflict is refused.
SaveMode(h) ==
    /\ at[h] = "save" /\ ask[h].kind = "mode" /\ h \notin stale
    /\ mode' = ask[h].to /\ eligible' = draft[h]
    /\ Free(h) /\ Outdate(h) /\ Stir
    /\ moved' = moved \ {h}
    /\ UNCHANGED <<desired, owner, workers, lost, overtaken>>

\* scheduler_start: readiness wants strategies and automation stopped.
BeginStart(h) ==
    eligible # {} /\ Read(h, [kind |-> "start", to |-> mode], "check", {})

CheckStart(h) ==
    /\ at[h] = "check" /\ ask[h].kind = "start"
    /\ desired = "stopped"
    /\ at' = [at EXCEPT ![h] = "save"]
    /\ UNCHANGED <<rows, owner, ask, draft, stale, workers, lost, moved, overtaken, stirred>>

\* The mode of the first read is what is requested, whatever it is by now.
RequestAutomation(h) ==
    /\ at[h] = "save" /\ ask[h].kind = "start"
    /\ WriteSwitch(ask[h].to)
    /\ Forget(h)
    /\ UNCHANGED <<mode, eligible, owner, workers, lost, overtaken>>

\* scheduler_stop: one write, refused by nothing.
StopAutomation ==
    /\ WriteSwitch("stopped")
    /\ UNCHANGED <<mode, eligible, owner, requests, workers, lost, overtaken>>

\* What a request makes of a set of strategies.
Applied(a, strategies) ==
    IF a.kind = "permit" THEN strategies \cup {a.to} ELSE strategies \ {a.to}

\* strategy_lifecycle, strategy_enabled, strategy_params: the new overrides are
\* made from this read.
BeginStrategy(h, a) == Read(h, a, "again", Applied(a, eligible))

\* _save_overrides reads once more; this is the revision it will name.
Reread(h) ==
    /\ at[h] = "again"
    /\ at' = [at EXCEPT ![h] = "save"]
    /\ overtaken' = IF h \in stale THEN overtaken \cup {h} ELSE overtaken
    /\ stale' = stale \ {h}
    /\ UNCHANGED <<rows, owner, ask, draft, workers, lost, moved, stirred>>

\* Mutant: the revision is not compared.
SaveStrategy_blindly(h) ==
    /\ at[h] = "save" /\ ask[h].kind \in {"permit", "withdraw"}
    /\ eligible' = draft[h]
    /\ Free(h) /\ Outdate(h) /\ Stir
    /\ overtaken' = overtaken \ {h}
    /\ UNCHANGED <<mode, desired, owner, workers, lost, moved>>

SaveStrategy(h) ==
    /\ at[h] = "save" /\ ask[h].kind \in {"permit", "withdraw"} /\ h \notin stale
    /\ eligible' = draft[h]
    /\ Free(h) /\ Outdate(h) /\ Stir
    /\ overtaken' = overtaken \ {h}
    /\ UNCHANGED <<mode, desired, owner, workers, lost, moved>>

\* settings_change reads once and saves with that revision: as if at once.
SaveSettings ==
    /\ stale' = {g \in Handlers : at[g] # "free"}
    /\ UNCHANGED <<rows, owner, at, ask, draft, workers, lost, moved, overtaken, stirred>>

Request(h) ==
    \/ \E m \in Modes : BeginMode(h, m)
    \/ \E a \in [kind : {"permit", "withdraw"}, to : Strategies] : BeginStrategy(h, a)
    \/ CheckSwitch(h) \/ StopFirst(h) \/ SaveMode(h)
    \/ BeginStart(h) \/ CheckStart(h) \/ RequestAutomation(h)
    \/ Reread(h) \/ SaveStrategy(h) \/ Refuse(h)

-----------------------------------------------------------------------------
(***************************************************************************)
(* The supervisor of a worker: step(), every 15 seconds.                   *)
(***************************************************************************)
Goto(w, p) == pc' = [pc EXCEPT ![w] = p]

\* The lock goes with the session that holds it, not with the one that believes so.
Unlock(w) == owner' = IF owner = w THEN Nobody ELSE owner

\* stop(), and a start that is given up: no scheduler, back to waiting.
StopScheduler(w, p) ==
    /\ Goto(w, p)
    /\ runs' = [runs EXCEPT ![w] = "none"]
    /\ started' = [started EXCEPT ![w] = {}]
    /\ Unlock(w)
    /\ UNCHANGED <<rows, requests, lost, moved, overtaken>>

Move(w, p) ==
    /\ Goto(w, p)
    /\ UNCHANGED <<rows, owner, requests, runs, started, lost, moved, overtaken>>

\* step() reads the switch; without it, or without the gate, nothing runs.
Halt(w) ==
    /\ pc[w] = "wait"
    /\ w \notin GateOn \/ desired = "stopped"
    /\ StopScheduler(w, "wait")
    /\ UNCHANGED stirred

Round(w) ==
    /\ pc[w] = "wait"
    /\ w \in GateOn /\ desired # "stopped"
    /\ Move(w, IF Running(w) THEN "check" ELSE "start")
    /\ UNCHANGED stirred

\* _mode_mismatch reads the configuration; one that cannot be read stops too.
\* A switch that cannot be read before the strategies are compared ends the round.
CheckMode(w) ==
    /\ pc[w] = "check"
    /\ \/ /\ mode = runs[w] /\ started[w] \subseteq eligible
          /\ Move(w, "wanted")
       \/ mode = runs[w] /\ Move(w, "wait")
       \/ StopScheduler(w, "wait")
    /\ UNCHANGED stirred

\* ... and then the switch: a value without a mode is no mismatch.  One that
\* cannot be read leaves the scheduler alone until the next round.
CheckRequest(w) ==
    /\ pc[w] = "wanted"
    /\ \/ desired \in {"stopped", runs[w]} /\ Move(w, "tick")
       \/ desired \notin {"stopped", runs[w]} /\ StopScheduler(w, "wait")
       \/ Move(w, "wait")
    /\ UNCHANGED stirred

\* _start reads the configuration once: mode and strategies of the scheduler.
StartMode(w) ==
    /\ pc[w] = "start" /\ eligible # {}
    /\ runs' = [runs EXCEPT ![w] = mode]
    /\ started' = [started EXCEPT ![w] = eligible]
    /\ Goto(w, "request")
    /\ UNCHANGED <<rows, owner, requests, lost, moved, overtaken, stirred>>

StartRequest(w) ==
    /\ pc[w] = "request" /\ desired \in {"stopped", runs[w]}
    /\ Move(w, "lock")
    /\ UNCHANGED stirred

\* Mutant: the answer of the lock is not looked at.
TakeLock_anyway(w) ==
    /\ pc[w] = "lock"
    /\ owner' = IF owner = Nobody THEN w ELSE owner
    /\ Goto(w, "tick")
    /\ UNCHANGED <<rows, requests, runs, started, lost, moved, overtaken, stirred>>

\* AdvisoryLock.acquire without waiting; _tick follows in the same round.
TakeLock(w) ==
    /\ pc[w] = "lock" /\ owner = Nobody
    /\ owner' = w
    /\ Goto(w, "tick")
    /\ UNCHANGED <<rows, requests, runs, started, lost, moved, overtaken, stirred>>

\* A start is refused: another scheduler, mode, account, database.
Block(w) ==
    /\ pc[w] \in {"start"} \cup Starting
    /\ StopScheduler(w, "wait")
    /\ UNCHANGED stirred

\* A tick ends, or has an order to send; in shadow mode orders are only recorded.
Tick(w) ==
    /\ pc[w] = "tick"
    /\ Move(w, "wait") \/ (runs[w] = "paper" /\ Move(w, "guard"))
    /\ UNCHANGED stirred

\* Mutant: strategies that were withdrawn since the start are not looked for.
GuardMode_modeOnly(w) ==
    /\ pc[w] = "guard"
    /\ (mode = runs[w] /\ Move(w, "ask")) \/ Move(w, "tick")
    /\ stirred' = stirred \ {w}

\* The transmit guard reads the configuration; a failed read refuses the order.
GuardMode(w) ==
    /\ pc[w] = "guard"
    /\ \/ mode = runs[w] /\ started[w] \subseteq eligible /\ Move(w, "ask")
       \/ Move(w, "tick")
    /\ stirred' = stirred \ {w}

\* ... and then the switch, which has to name the mode.
GuardRequest(w) ==
    /\ pc[w] = "ask"
    /\ \/ desired = runs[w] /\ Move(w, "send") /\ UNCHANGED stirred
       \/ Move(w, "tick") /\ stirred' = stirred \ {w}

\* The order leaves.
Send(w) ==
    /\ pc[w] = "send"
    /\ Move(w, "tick")
    /\ stirred' = stirred \ {w}

\* The process ends; PostgreSQL frees the lock of a closed connection.
Crash(w) ==
    /\ pc[w] # "off"
    /\ StopScheduler(w, "off")
    /\ stirred' = stirred \ {w}

Boot(w) ==
    /\ pc[w] = "off"
    /\ Move(w, "wait")
    /\ UNCHANGED stirred

\* PostgreSQL restarts or the connection breaks: nothing tells the scheduler.
LoseLock(w) ==
    /\ owner = w
    /\ owner' = Nobody
    /\ lost' = TRUE
    /\ UNCHANGED <<rows, requests, workers, moved, overtaken, stirred>>

Supervise(w) ==
    \/ Halt(w) \/ Round(w) \/ CheckMode(w) \/ CheckRequest(w)
    \/ StartMode(w) \/ StartRequest(w) \/ TakeLock(w) \/ Block(w)
    \/ Tick(w) \/ GuardMode(w) \/ GuardRequest(w) \/ Send(w)
    \/ Crash(w) \/ Boot(w) \/ LoseLock(w)

Next ==
    \/ \E h \in Handlers : Request(h)
    \/ StopAutomation \/ SaveSettings
    \/ \E w \in Workers : Supervise(w)

Spec == Init /\ [][Next]_vars

-----------------------------------------------------------------------------
(***************************************************************************)
(* Properties.                                                             *)
(***************************************************************************)
\* One scheduler, across crashes, restarts and overlapping deployments, as long
\* as no scheduler lost the lock with its connection (persistence/locks.py).
OneScheduler ==
    ~lost => \A v, w \in Workers : Running(v) /\ Running(w) => v = w

\* An order leaves only when mode, switch and strategies all allow it, unless
\* one of them was written after its guard had begun to read them in turn
\* (make_transmit_guard).
OrdersArePermitted ==
    \A w \in Workers :
        pc[w] = "send" /\ w \notin stirred =>
            mode = runs[w] /\ desired = runs[w] /\ started[w] \subseteq eligible

\* "Changing the mode never starts automation" (settings_view): a saved mode
\* does not meet a request for it, unless that request was written after the
\* handler had looked at the switch.
ModeNeverStarts ==
    [][ \A h \in Handlers :
            ask[h].kind = "mode" /\ mode' # mode /\ mode' = desired /\ at'[h] # at[h]
                => h \in moved ]_vars

\* A save changes what was asked and keeps what others saved in the meantime,
\* unless another save came between the two reads of a strategy request.
SavesKeepOthers ==
    [][ eligible' # eligible =>
            \E h \in Handlers :
                /\ at'[h] # at[h] /\ ask[h].kind \in {"permit", "withdraw"}
                /\ h \in overtaken \/ eligible' = Applied(ask[h], eligible) ]_vars

\* "Optimistic concurrency: a change must name the revision it was based on"
\* (docs/CONTROL_PLANE.md): no strategy comes back to trading but by a request
\* that asks for it.
DemotionsStand ==
    [][ \A s \in eligible' \ eligible :
            \E h \in Handlers :
                at'[h] # at[h] /\ ask[h] = [kind |-> "permit", to |-> s] ]_vars
==============================================================================
