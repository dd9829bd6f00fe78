----------------------------- MODULE KillSwitch -----------------------------
(***************************************************************************)
(* The global kill switch: a state and an audit log, kept in two files or  *)
(* in two database tables, written one after the other by whoever engages  *)
(* or releases (trading/safety/kill_switch.py, kill_switch_store.py).      *)
(***************************************************************************)
EXTENDS Naturals, Sequences

CONSTANTS
    Operators,    \* people
    Components,   \* automated parts: actors "system:<component>"
    MaxChanges    \* bound: records in the audit log

ASSUME OperatorsAreNotComponents == Operators \cap Components = {}
ASSUME MaxChangesIsNatural == MaxChanges \in Nat

VARIABLES
    switch,       \* the stored state, Never if there is none
    readable,     \* the store answers and holds what was written
    log,          \* the audit log
    change,       \* change[a]: the call actor a is in
    mayRelease,   \* history: a release began since an engagement took hold
    calm          \* history: no call failed or met another so far

switchVars == << switch, readable, log, change, mayRelease, calm >>

Actors == Operators \cup Components

States == {"engaged", "released"}
Never  == [state |-> "engaged", entry |-> 0]
NoCall == [at |-> "none", state |-> "engaged", entry |-> 0]

SwitchInit ==
    /\ switch = Never /\ readable = TRUE /\ log = << >>
    /\ change = [a \in Actors |-> NoCall]
    /\ mayRelease = FALSE /\ calm = TRUE

\* status(): what cannot be read, and what was never written, is engaged.
Engaged == IF readable /\ switch.entry # 0 THEN switch.state = "engaged" ELSE TRUE

InCall(a) == change[a].at # "none"
OthersIdle(a) == \A b \in Actors \ {a} : ~InCall(b)

-----------------------------------------------------------------------------
(* engage() and release(): checks, then the audit record, then the state. *)

\* Mutant: the state is written without waiting for the audit record.
BeginChange_stateFirst(a, state) ==
    /\ ~InCall(a)
    /\ change' = [change EXCEPT ![a] = [at |-> "write", state |-> state, entry |-> Len(log) + 1]]
    /\ calm' = (calm /\ OthersIdle(a))
    /\ UNCHANGED << switch, readable, log >>

BeginChange(a, state) ==
    /\ ~InCall(a)
    /\ change' = [change EXCEPT ![a] = [at |-> "append", state |-> state, entry |-> 0]]
    /\ calm' = (calm /\ OthersIdle(a))
    /\ UNCHANGED << switch, readable, log >>

Engage(a) == BeginChange(a, "engaged") /\ UNCHANGED mayRelease

\* Never by an automated part; without the phrase or a reason nothing happens.
Release(a) ==
    /\ a \notin Components
    /\ BeginChange(a, "released") /\ mayRelease' = TRUE

AppendAudit(a) ==
    /\ change[a].at = "append" /\ readable /\ Len(log) < MaxChanges
    /\ log' = Append(log, [state |-> change[a].state, actor |-> a])
    /\ change' = [change EXCEPT ![a].at = "write", ![a].entry = Len(log) + 1]
    /\ UNCHANGED << switch, readable, mayRelease, calm >>

\* One row, or a temporary file moved over the old one: all or nothing.
Write(a) ==
    /\ change[a].at = "write" /\ readable
    /\ switch' = [state |-> change[a].state, entry |-> change[a].entry]
    /\ change' = [change EXCEPT ![a] = NoCall]
    /\ mayRelease' = IF change[a].state = "engaged"
                     THEN \E b \in Actors \ {a} : InCall(b) /\ change[b].state = "released"
                     ELSE mayRelease
    /\ UNCHANGED << readable, log, calm >>

\* The store refuses or the process dies: the caller is told, if it lives.
Break(a) ==
    /\ InCall(a)
    /\ change' = [change EXCEPT ![a] = NoCall]
    /\ calm' = FALSE
    /\ UNCHANGED << switch, readable, log, mayRelease >>

\* The store goes away or its state is damaged; it comes back; its row is lost.
Outage   == readable' = ~readable /\ UNCHANGED << switch, log, change, mayRelease, calm >>
LoseRow  == switch # Never /\ switch' = Never /\ calm' = FALSE
            /\ UNCHANGED << readable, log, change, mayRelease >>

SwitchNext ==
    \/ \E a \in Actors : Engage(a) \/ Release(a) \/ AppendAudit(a) \/ Write(a) \/ Break(a)
    \/ Outage \/ LoseRow

SwitchSpec == SwitchInit /\ [][SwitchNext]_switchVars

-----------------------------------------------------------------------------
(* Properties *)

SwitchTypeOK ==
    /\ switch \in [state : States, entry : 0..MaxChanges]
    /\ readable \in BOOLEAN /\ mayRelease \in BOOLEAN /\ calm \in BOOLEAN
    /\ log \in Seq([state : States, actor : Actors]) /\ Len(log) <= MaxChanges
    /\ change \in [Actors -> [at : {"none", "append", "write"}, state : States, entry : 0..MaxChanges]]

\* Wherever a call was interrupted, the stored state has its record in the log,
\* and the record of a release names a person.
SwitchIsAccounted ==
    switch.entry # 0 =>
        /\ switch.entry \in DOMAIN log
        /\ log[switch.entry].state = switch.state
        /\ switch.state = "released" => log[switch.entry].actor \in Operators

\* Once an engagement has taken hold, and no release is under way or begins,
\* nothing lets the switch read released: no outage, lost row, failed or late call.
EngagementHolds == ~mayRelease => Engaged

\* The last record of the log is the state, while calls neither fail nor meet.
LogEndsInState ==
    calm /\ log # << >> /\ (\A a \in Actors : change[a].at # "write") =>
        switch = [state |-> log[Len(log)].state, entry |-> Len(log)]

\* Two writes for each change, many callers and a store that fails: the switch
\* never reads released unasked, and the log always says how it came to stand
\* as it does.
SwitchHolds == SwitchIsAccounted /\ EngagementHolds /\ LogEndsInState
=============================================================================
