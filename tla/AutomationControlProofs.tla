----------------------- MODULE AutomationControlProofs -----------------------
(***************************************************************************)
(* Theorems about AutomationControl, for every set of strategies, requests *)
(* and workers.  The types come first; each safety property then has an    *)
(* inductive invariant of its own:                                         *)
(*   LockInv   a scheduler that runs owns the lock, while none was lost;   *)
(*   GuardInv  what a guard has read still holds, unless it was stirred;   *)
(*   SwitchInv automation is still stopped for a mode about to be saved;   *)
(*   DraftInv  a draft is what its request makes of the stored strategies. *)
(***************************************************************************)
EXTENDS AutomationControl, TLAPS

-----------------------------------------------------------------------------
\* The rows, requests and supervisors have their types; a supervisor is past
\* its start only with a scheduler, and in a guard only in paper mode.
THEOREM TypeCorrect == Spec => []TypeOK
<1>1. Init => TypeOK
  <2>1. NoAsk \in Asks
    BY DEF NoAsk, Asks, Modes
  <2> SUFFICES ASSUME Init PROVE TypeOK
    OBVIOUS
  <2>2. /\ mode \in Modes /\ eligible \subseteq Strategies
        /\ desired \in Modes \cup {"stopped"} /\ owner \in Workers \cup {Nobody}
        /\ stale \subseteq Handlers /\ moved \subseteq Handlers
        /\ overtaken \subseteq Handlers /\ stirred \subseteq Workers /\ lost \in BOOLEAN
    BY DEF Init, Modes
  <2>3. /\ at \in [Handlers -> {"free", "check", "stop", "again", "save"}]
        /\ ask \in [Handlers -> Asks] /\ draft \in [Handlers -> SUBSET Strategies]
    BY <2>1 DEF Init
  <2>4. /\ pc \in [Workers -> Places] /\ runs \in [Workers -> Modes \cup {"none"}]
        /\ started \in [Workers -> SUBSET Strategies]
    BY DEF Init, Places
  <2>5. /\ \A w \in Workers : pc[w] = "off" /\ runs[w] = "none"
        /\ \A h \in Handlers : at[h] = "free" /\ ask[h].kind = "none"
    BY DEF Init, NoAsk
  <2> QED
    BY <2>2, <2>3, <2>4, <2>5 DEF TypeOK, Guarding
<1>2. TypeOK /\ [Next]_vars => TypeOK'
  <2> SUFFICES ASSUME TypeOK, [Next]_vars PROVE TypeOK'
    OBVIOUS
  <2> USE DEF TypeOK
  <2>1. ASSUME NEW h \in Handlers, Request(h) PROVE TypeOK'
    <3>0. NoAsk \in Asks
      BY DEF NoAsk, Asks, Modes
    <3>f. ASSUME Free(h) PROVE /\ at' \in [Handlers -> {"free", "check", "stop", "again", "save"}]
                               /\ ask' \in [Handlers -> Asks]
                               /\ draft' \in [Handlers -> SUBSET Strategies]
                               /\ \A g \in Handlers : g # h => at'[g] = at[g] /\ ask'[g] = ask[g]
                               /\ at'[h] = "free" /\ ask'[h].kind = "none"
      BY <3>f, <3>0 DEF Free, NoAsk
    <3>1. ASSUME NEW m \in Modes, BeginMode(h, m) PROVE TypeOK'
      <4>1. [kind |-> "mode", to |-> m] \in Asks
        BY DEF Asks
      <4> QED
        BY <3>1, <4>1 DEF BeginMode, Read, rows, workers
    <3>2. ASSUME NEW a \in [kind : {"permit", "withdraw"}, to : Strategies],
                 BeginStrategy(h, a)
          PROVE  TypeOK'
      <4>1. a \in Asks /\ a.to \in Strategies
        BY DEF Asks
      <4>2. Applied(a, eligible) \subseteq Strategies
        BY <4>1 DEF Applied
      <4> QED
        BY <3>2, <4>1, <4>2 DEF BeginStrategy, Read, rows, workers
    <3>3. CASE CheckSwitch(h)
      BY <3>3 DEF CheckSwitch, rows, workers
    <3>4. CASE StopFirst(h)
      BY <3>4 DEF StopFirst, WriteSwitch, Stir, rows, workers
    <3>5. CASE SaveMode(h)
      <4>1. ask[h].to \in Modes
        BY <3>5 DEF SaveMode, Asks
      <4> QED
        BY <3>5, <3>f, <4>1 DEF SaveMode, Outdate, Stir, workers
    <3>6. CASE BeginStart(h)
      <4>1. [kind |-> "start", to |-> mode] \in Asks
        BY DEF Asks
      <4> QED
        BY <3>6, <4>1 DEF BeginStart, Read, rows, workers
    <3>7. CASE CheckStart(h)
      BY <3>7 DEF CheckStart, rows, workers
    <3>8. CASE RequestAutomation(h)
      <4>1. ask[h].to \in Modes
        BY <3>8 DEF RequestAutomation, Asks
      <4> QED
        BY <3>8, <3>f, <4>1 DEF RequestAutomation, WriteSwitch, Forget, Stir, workers
    <3>9. CASE Reread(h)
      BY <3>9 DEF Reread, rows, workers
    <3>10. CASE SaveStrategy(h)
      BY <3>10, <3>f DEF SaveStrategy, Outdate, Stir, workers
    <3>11. CASE Refuse(h)
      BY <3>11, <3>f DEF Refuse, Forget, rows, workers
    <3> QED
      BY <2>1, <3>1, <3>2, <3>3, <3>4, <3>5, <3>6, <3>7, <3>8, <3>9, <3>10, <3>11
      DEF Request
  <2>2. CASE StopAutomation
    BY <2>2 DEF StopAutomation, WriteSwitch, Stir, requests, workers
  <2>3. CASE SaveSettings
    BY <2>3 DEF SaveSettings, rows, workers
  <2>4. ASSUME NEW w \in Workers, Supervise(w) PROVE TypeOK'
    <3> USE DEF Places, Starting, Guarding, Goto
    <3>s. ASSUME NEW p \in {"wait", "off"}, StopScheduler(w, p), stirred' \subseteq Workers
          PROVE  TypeOK'
      BY <3>s DEF StopScheduler, Unlock, rows, requests
    <3>m. ASSUME NEW p \in Places, Move(w, p), stirred' \subseteq Workers,
                 p = "start" => runs[w] = "none",
                 p \notin {"off", "start", "wait"} => runs[w] # "none",
                 p \in {"guard", "ask", "send"} => runs[w] = "paper",
                 p # "off"
          PROVE  TypeOK'
      BY <3>m DEF Move, rows, requests
    <3>1. CASE Halt(w)
      BY <3>1, <3>s DEF Halt
    <3>2. CASE Round(w)
      <4>1. Running(w) <=> runs[w] # "none"
        BY <3>2 DEF Round, Running
      <4> QED
        BY <3>2, <3>m, <4>1 DEF Round
    <3>3. CASE CheckMode(w)
      BY <3>3, <3>s, <3>m DEF CheckMode
    <3>4. CASE CheckRequest(w)
      BY <3>4, <3>s, <3>m DEF CheckRequest
    <3>5. CASE StartMode(w)
      BY <3>5 DEF StartMode, rows, requests, Modes
    <3>6. CASE StartRequest(w)
      BY <3>6, <3>m DEF StartRequest
    <3>7. CASE TakeLock(w)
      BY <3>7 DEF TakeLock, rows, requests
    <3>8. CASE Block(w)
      BY <3>8, <3>s DEF Block
    <3>9. CASE Tick(w)
      BY <3>9, <3>m DEF Tick
    <3>10. CASE GuardMode(w)
      BY <3>10, <3>m DEF GuardMode
    <3>11. CASE GuardRequest(w)
      BY <3>11, <3>m DEF GuardRequest
    <3>12. CASE Send(w)
      BY <3>12, <3>m DEF Send
    <3>13. CASE Crash(w)
      BY <3>13, <3>s DEF Crash
    <3>14. CASE Boot(w)
      BY <3>14, <3>m DEF Boot
    <3>15. CASE LoseLock(w)
      BY <3>15 DEF LoseLock, rows, requests, workers
    <3> QED
      BY <2>4, <3>1, <3>2, <3>3, <3>4, <3>5, <3>6, <3>7, <3>8, <3>9, <3>10, <3>11,
         <3>12, <3>13, <3>14, <3>15 DEF Supervise
  <2>5. CASE UNCHANGED vars
    BY <2>5 DEF vars, rows, requests, workers
  <2> QED
    BY <2>1, <2>2, <2>3, <2>4, <2>5 DEF Next
<1> QED
  BY <1>1, <1>2, PTL DEF Spec

-----------------------------------------------------------------------------
\* A scheduler that runs owns the lock; a worker does not give itself the lock
\* of another, and the lock is given only when it is free.
LockInv == ~lost => \A w \in Workers : Running(w) => owner = w

\* One scheduler, for any number of workers that crash, restart and overlap.
THEOREM SchedulersAreAlone == Spec => []OneScheduler
<1>1. Init => LockInv
  BY DEF Init, LockInv, Running
<1>2. TypeOK /\ LockInv /\ [Next]_vars => LockInv'
  <2> SUFFICES ASSUME TypeOK, LockInv, [Next]_vars PROVE LockInv'
    OBVIOUS
  <2>1. ASSUME NEW w \in Workers, Supervise(w) PROVE LockInv'
    <3> USE DEF LockInv, Running, Starting, Goto
    <3>t. /\ pc \in [Workers -> Places] /\ runs \in [Workers -> Modes \cup {"none"}]
          /\ \A v \in Workers : pc[v] = "start" => runs[v] = "none"
      BY DEF TypeOK
    <3>s. ASSUME NEW p \in {"wait", "off"}, StopScheduler(w, p) PROVE LockInv'
      BY <3>s, <3>t, NobodyAssumption DEF StopScheduler, Unlock
    <3>m. ASSUME NEW p, Move(w, p), pc[w] \in Starting => p \in Starting PROVE LockInv'
      BY <3>m, <3>t DEF Move
    <3>1. CASE Halt(w)
      BY <3>1, <3>s DEF Halt
    <3>2. CASE Round(w)
      BY <3>2, <3>m DEF Round
    <3>3. CASE CheckMode(w)
      BY <3>3, <3>s, <3>m DEF CheckMode
    <3>4. CASE CheckRequest(w)
      BY <3>4, <3>s, <3>m DEF CheckRequest
    <3>5. CASE StartMode(w)
      BY <3>5, <3>t DEF StartMode
    <3>6. CASE StartRequest(w)
      BY <3>6, <3>m DEF StartRequest
    <3>7. CASE TakeLock(w)
      BY <3>7, <3>t, NobodyAssumption DEF TakeLock
    <3>8. CASE Block(w)
      BY <3>8, <3>s DEF Block
    <3>9. CASE Tick(w)
      BY <3>9, <3>m DEF Tick
    <3>10. CASE GuardMode(w)
      BY <3>10, <3>m DEF GuardMode
    <3>11. CASE GuardRequest(w)
      BY <3>11, <3>m DEF GuardRequest
    <3>12. CASE Send(w)
      BY <3>12, <3>m DEF Send
    <3>13. CASE Crash(w)
      BY <3>13, <3>s DEF Crash
    <3>14. CASE Boot(w)
      BY <3>14, <3>m DEF Boot
    <3>15. CASE LoseLock(w)
      BY <3>15 DEF LoseLock
    <3> QED
      BY <2>1, <3>1, <3>2, <3>3, <3>4, <3>5, <3>6, <3>7, <3>8, <3>9, <3>10, <3>11,
         <3>12, <3>13, <3>14, <3>15 DEF Supervise
  <2>2. ASSUME UNCHANGED <<owner, pc, runs, lost>> PROVE LockInv'
    BY <2>2 DEF LockInv, Running
  <2>3. ASSUME NEW h \in Handlers, Request(h) PROVE UNCHANGED <<owner, pc, runs, lost>>
    BY <2>3 DEF Request, BeginMode, BeginStrategy, BeginStart, Read, CheckSwitch, StopFirst,
       SaveMode, CheckStart, RequestAutomation, Reread, SaveStrategy, Refuse, workers
  <2>4. CASE StopAutomation \/ SaveSettings
    BY <2>2, <2>4 DEF StopAutomation, SaveSettings, workers
  <2>5. CASE UNCHANGED vars
    BY <2>2, <2>5 DEF vars, workers
  <2> QED
    BY <2>1, <2>2, <2>3, <2>4, <2>5 DEF Next
<1>3. LockInv => OneScheduler
  BY DEF LockInv, OneScheduler
<1> QED
  BY <1>1, <1>2, <1>3, TypeCorrect, PTL DEF Spec

-----------------------------------------------------------------------------
\* What the guard of w has read still holds: the configuration while it asks
\* for the switch, both when the order leaves.
GuardInv ==
    \A w \in Workers : pc[w] \in Guarding /\ w \notin stirred =>
        /\ mode = runs[w] /\ started[w] \subseteq eligible
        /\ pc[w] = "send" => desired = runs[w]

\* Orders are permitted, for any number of requests and workers.
THEOREM OrdersStayPermitted == Spec => []OrdersArePermitted
<1>1. Init => GuardInv
  BY DEF Init, GuardInv, Guarding
<1>2. TypeOK /\ GuardInv /\ [Next]_vars => GuardInv'
  <2> SUFFICES ASSUME TypeOK, GuardInv, [Next]_vars PROVE GuardInv'
    OBVIOUS
  <2> USE DEF GuardInv, Guarding
  <2>t. pc \in [Workers -> Places] /\ runs \in [Workers -> Modes \cup {"none"}]
        /\ started \in [Workers -> SUBSET Strategies]
    BY DEF TypeOK
  <2>k. ASSUME UNCHANGED <<rows, workers, stirred>> PROVE GuardInv'
    BY <2>k DEF rows, workers
  <2>s. ASSUME Stir, UNCHANGED workers PROVE GuardInv'
    BY <2>s DEF Stir, workers
  <2>1. ASSUME NEW h \in Handlers, Request(h)
        PROVE  UNCHANGED workers /\ (Stir \/ UNCHANGED <<rows, stirred>>)
    BY <2>1 DEF Request, BeginMode, BeginStrategy, BeginStart, Read, CheckSwitch, StopFirst,
       SaveMode, CheckStart, RequestAutomation, Reread, SaveStrategy, Refuse, WriteSwitch
  <2>2. CASE StopAutomation \/ SaveSettings
    BY <2>2, <2>k, <2>s DEF StopAutomation, SaveSettings, WriteSwitch
  <2>3. ASSUME NEW w \in Workers, Supervise(w) PROVE GuardInv'
    <3> USE DEF Starting, Goto, rows
    <3>s. ASSUME NEW p \in {"wait", "off"}, StopScheduler(w, p),
                 stirred' \in {stirred, stirred \ {w}}
          PROVE  GuardInv'
      BY <3>s, <2>t DEF StopScheduler
    <3>m. ASSUME NEW p, p \notin {"ask", "send"}, Move(w, p),
                 stirred' \in {stirred, stirred \ {w}}
          PROVE  GuardInv'
      BY <3>m, <2>t DEF Move
    <3>1. CASE Halt(w)
      BY <3>1, <3>s DEF Halt
    <3>2. CASE Round(w)
      BY <3>2, <3>m DEF Round
    <3>3. CASE CheckMode(w)
      BY <3>3, <3>s, <3>m DEF CheckMode
    <3>4. CASE CheckRequest(w)
      BY <3>4, <3>s, <3>m DEF CheckRequest
    <3>5. CASE StartMode(w)
      BY <3>5, <2>t DEF StartMode
    <3>6. CASE StartRequest(w)
      BY <3>6, <3>m DEF StartRequest
    <3>7. CASE TakeLock(w)
      BY <3>7, <2>t DEF TakeLock
    <3>8. CASE Block(w)
      BY <3>8, <3>s DEF Block
    <3>9. CASE Tick(w)
      BY <3>9, <3>m DEF Tick
    <3>10. CASE GuardMode(w)
      <4>1. CASE mode = runs[w] /\ started[w] \subseteq eligible /\ Move(w, "ask")
        BY <3>10, <4>1, <2>t DEF GuardMode, Move
      <4> QED
        BY <3>10, <4>1, <3>m DEF GuardMode
    <3>11. CASE GuardRequest(w)
      <4>1. CASE desired = runs[w] /\ Move(w, "send") /\ UNCHANGED stirred
        BY <3>11, <4>1, <2>t DEF GuardRequest, Move
      <4> QED
        BY <3>11, <4>1, <3>m DEF GuardRequest
    <3>12. CASE Send(w)
      BY <3>12, <3>m DEF Send
    <3>13. CASE Crash(w)
      BY <3>13, <3>s DEF Crash
    <3>14. CASE Boot(w)
      BY <3>14, <3>m DEF Boot
    <3>15. CASE LoseLock(w)
      BY <3>15, <2>k DEF LoseLock
    <3> QED
      BY <2>3, <3>1, <3>2, <3>3, <3>4, <3>5, <3>6, <3>7, <3>8, <3>9, <3>10, <3>11,
         <3>12, <3>13, <3>14, <3>15 DEF Supervise
  <2>4. CASE UNCHANGED vars
    BY <2>4, <2>k DEF vars
  <2> QED
    BY <2>1, <2>2, <2>3, <2>4, <2>k, <2>s DEF Next
<1>3. GuardInv => OrdersArePermitted
  BY DEF GuardInv, OrdersArePermitted, Guarding
<1> QED
  BY <1>1, <1>2, <1>3, TypeCorrect, PTL DEF Spec

-----------------------------------------------------------------------------
\* A handler that is about to save a mode found automation stopped, or stopped
\* it; unless the switch was written since, it is stopped still.
SwitchInv ==
    \A h \in Handlers :
        at[h] = "save" /\ ask[h].kind = "mode" /\ h \notin moved => desired = "stopped"

\* A saved mode starts nothing, for any number of requests at the same time.
THEOREM ModeStartsNothing == Spec => ModeNeverStarts
<1>1. Init => SwitchInv
  BY DEF Init, SwitchInv
<1>2. TypeOK /\ SwitchInv /\ [Next]_vars => SwitchInv'
  <2> SUFFICES ASSUME TypeOK, SwitchInv, [Next]_vars PROVE SwitchInv'
    OBVIOUS
  <2> USE DEF SwitchInv
  <2>t. at \in [Handlers -> {"free", "check", "stop", "again", "save"}]
        /\ ask \in [Handlers -> Asks]
    BY DEF TypeOK
  <2>w. ASSUME NEW v, WriteSwitch(v), at' = at, ask' = ask PROVE SwitchInv'
    BY <2>w DEF WriteSwitch
  <2>k. ASSUME UNCHANGED <<desired, at, ask, moved>> PROVE SwitchInv'
    BY <2>k
  <2>1. ASSUME NEW h \in Handlers, Request(h) PROVE SwitchInv'
    <3>f. ASSUME Free(h), UNCHANGED desired, moved' \in {moved, moved \ {h}} PROVE SwitchInv'
      BY <3>f, <2>t DEF Free
    <3>r. ASSUME NEW a, NEW p \in {"check", "again"}, NEW d, Read(h, a, p, d) PROVE SwitchInv'
      BY <3>r, <2>t DEF Read, rows
    <3>1. ASSUME NEW m \in Modes, BeginMode(h, m) PROVE SwitchInv'
      BY <3>1, <3>r DEF BeginMode
    <3>2. ASSUME NEW a, BeginStrategy(h, a) PROVE SwitchInv'
      BY <3>2, <3>r DEF BeginStrategy
    <3>3. CASE CheckSwitch(h)
      BY <3>3, <2>t DEF CheckSwitch, rows
    <3>4. CASE StopFirst(h)
      BY <3>4, <2>t DEF StopFirst, WriteSwitch
    <3>5. CASE SaveMode(h)
      BY <3>5, <3>f DEF SaveMode
    <3>6. CASE BeginStart(h)
      BY <3>6, <3>r DEF BeginStart
    <3>7. CASE CheckStart(h)
      BY <3>7, <2>t DEF CheckStart, rows
    <3>8. CASE RequestAutomation(h)
      BY <3>8, <2>t DEF RequestAutomation, WriteSwitch, Forget, Free
    <3>9. CASE Reread(h)
      BY <3>9, <2>t DEF Reread, rows, TypeOK
    <3>10. CASE SaveStrategy(h)
      BY <3>10, <3>f DEF SaveStrategy
    <3>11. CASE Refuse(h)
      BY <3>11, <3>f DEF Refuse, Forget, rows
    <3> QED
      BY <2>1, <3>1, <3>2, <3>3, <3>4, <3>5, <3>6, <3>7, <3>8, <3>9, <3>10, <3>11
      DEF Request
  <2>2. CASE StopAutomation
    BY <2>2, <2>w DEF StopAutomation, requests
  <2>3. CASE SaveSettings
    BY <2>3, <2>k DEF SaveSettings, rows
  <2>4. ASSUME NEW w \in Workers, Supervise(w) PROVE UNCHANGED <<desired, at, ask, moved>>
    BY <2>4 DEF Supervise, Halt, Round, CheckMode, CheckRequest, StartMode, StartRequest,
       TakeLock, Block, Tick, GuardMode, GuardRequest, Send, Crash, Boot, LoseLock,
       StopScheduler, Move, rows, requests
  <2>5. CASE UNCHANGED vars
    BY <2>5, <2>k DEF vars, rows, requests
  <2> QED
    BY <2>1, <2>2, <2>3, <2>4, <2>5, <2>k DEF Next
<1>3. TypeOK /\ TypeOK' /\ SwitchInv /\ [Next]_vars =>
        [ \A h \in Handlers :
            ask[h].kind = "mode" /\ mode' # mode /\ mode' = desired /\ at'[h] # at[h]
                => h \in moved ]_vars
  <2> SUFFICES ASSUME TypeOK, TypeOK', SwitchInv, Next,
                      NEW h \in Handlers, ask[h].kind = "mode", mode' # mode, mode' = desired,
                      at'[h] # at[h]
               PROVE  h \in moved
    OBVIOUS
  <2>1. PICK g \in Handlers : SaveMode(g)
    BY DEF Next, Request, Supervise, BeginMode, BeginStrategy, BeginStart, Read, CheckSwitch,
       StopFirst, CheckStart, RequestAutomation, Reread, SaveStrategy, Refuse, StopAutomation,
       SaveSettings, Halt, Round, CheckMode, CheckRequest, StartMode, StartRequest, TakeLock,
       Block, Tick, GuardMode, GuardRequest, Send, Crash, Boot, LoseLock, StopScheduler, Move,
       rows
  <2>2. h = g /\ at[h] = "save"
    BY <2>1 DEF SaveMode, Free, TypeOK
  <2>3. desired # "stopped"
    BY DEF TypeOK, Modes
  <2> QED
    BY <2>2, <2>3 DEF SwitchInv
<1> QED
  BY <1>1, <1>2, <1>3, TypeCorrect, PTL DEF Spec, ModeNeverStarts

-----------------------------------------------------------------------------
\* While nothing was saved since h read, its draft is what it asks for, applied
\* to what is stored; a mode request carries the stored strategies along.
DraftInv ==
    \A h \in Handlers : h \notin stale =>
        /\ ask[h].kind = "mode" => draft[h] = eligible
        /\ at[h] = "again" => draft[h] = Applied(ask[h], eligible)
        /\ /\ at[h] = "save" /\ ask[h].kind \in {"permit", "withdraw"}
           /\ h \notin overtaken
           => draft[h] = Applied(ask[h], eligible)

\* No save undoes another one, but for a strategy request whose two reads are
\* apart, for any number of requests at the same time.
THEOREM SavesKeep == Spec => SavesKeepOthers
<1>1. Init => DraftInv
  BY DEF Init, DraftInv, NoAsk
<1>2. TypeOK /\ DraftInv /\ [Next]_vars => DraftInv'
  <2> SUFFICES ASSUME TypeOK, DraftInv, [Next]_vars PROVE DraftInv'
    OBVIOUS
  <2> USE DEF DraftInv
  <2>t. /\ at \in [Handlers -> {"free", "check", "stop", "again", "save"}]
        /\ ask \in [Handlers -> Asks] /\ draft \in [Handlers -> SUBSET Strategies]
        /\ \A h \in Handlers : at[h] = "free" => ask[h].kind = "none"
    BY DEF TypeOK
  <2>k. ASSUME UNCHANGED <<eligible, at, ask, draft, overtaken>>, stale \subseteq stale'
        PROVE  DraftInv'
    BY <2>k DEF Applied
  <2>1. ASSUME NEW h \in Handlers, Request(h) PROVE DraftInv'
    <3>f. ASSUME Free(h), UNCHANGED eligible, overtaken' \in {overtaken, overtaken \ {h}},
                 stale' \in {stale, stale \ {h}}
          PROVE  DraftInv'
      BY <3>f, <2>t DEF Free, NoAsk, Applied
    <3>o. ASSUME Free(h), Outdate(h) PROVE DraftInv'
      BY <3>o, <2>t DEF Free, Outdate, NoAsk
    <3>m. ASSUME at' \in [Handlers -> {"free", "check", "stop", "again", "save"}],
                 \A g \in Handlers : g # h => at'[g] = at[g],
                 ask[h].kind \in {"mode", "start"}, at'[h] # "again",
                 UNCHANGED <<eligible, ask, draft, stale, overtaken>>
          PROVE  DraftInv'
      BY <3>m DEF Applied
    <3>1. ASSUME NEW m \in Modes, BeginMode(h, m) PROVE DraftInv'
      BY <3>1, <2>t DEF BeginMode, Read, rows, Applied
    <3>2. ASSUME NEW a \in [kind : {"permit", "withdraw"}, to : Strategies],
                 BeginStrategy(h, a)
          PROVE  DraftInv'
      BY <3>2, <2>t DEF BeginStrategy, Read, rows, Applied
    <3>3. CASE CheckSwitch(h)
      BY <3>3, <3>m, <2>t DEF CheckSwitch, rows
    <3>4. CASE StopFirst(h)
      BY <3>4, <3>m, <2>t DEF StopFirst, TypeOK
    <3>5. CASE SaveMode(h)
      BY <3>5, <3>o DEF SaveMode
    <3>6. CASE BeginStart(h)
      BY <3>6, <2>t DEF BeginStart, Read, rows, Applied
    <3>7. CASE CheckStart(h)
      BY <3>7, <3>m, <2>t DEF CheckStart, rows
    <3>8. CASE RequestAutomation(h)
      BY <3>8, <3>f DEF RequestAutomation, Forget
    <3>9. CASE Reread(h)
      BY <3>9, <2>t DEF Reread, rows, Applied, TypeOK
    <3>10. CASE SaveStrategy(h)
      BY <3>10, <3>o DEF SaveStrategy
    <3>11. CASE Refuse(h)
      BY <3>11, <3>f DEF Refuse, Forget, rows
    <3> QED
      BY <2>1, <3>1, <3>2, <3>3, <3>4, <3>5, <3>6, <3>7, <3>8, <3>9, <3>10, <3>11
      DEF Request
  <2>2. CASE StopAutomation
    BY <2>2, <2>k DEF StopAutomation, requests
  <2>3. CASE SaveSettings
    BY <2>3, <2>t DEF SaveSettings, rows, NoAsk
  <2>4. ASSUME NEW w \in Workers, Supervise(w)
        PROVE  UNCHANGED <<eligible, at, ask, draft, stale, overtaken>>
    BY <2>4 DEF Supervise, Halt, Round, CheckMode, CheckRequest, StartMode, StartRequest,
       TakeLock, Block, Tick, GuardMode, GuardRequest, Send, Crash, Boot, LoseLock,
       StopScheduler, Move, rows, requests
  <2>5. CASE UNCHANGED vars
    BY <2>5, <2>k DEF vars, rows, requests
  <2> QED
    BY <2>1, <2>2, <2>3, <2>4, <2>5, <2>k DEF Next
<1>3. TypeOK /\ DraftInv /\ [Next]_vars =>
        [ eligible' # eligible =>
            \E h \in Handlers :
                /\ at'[h] # at[h] /\ ask[h].kind \in {"permit", "withdraw"}
                /\ h \in overtaken \/ eligible' = Applied(ask[h], eligible) ]_vars
  <2> SUFFICES ASSUME TypeOK, DraftInv, Next, eligible' # eligible
               PROVE  \E h \in Handlers :
                        /\ at'[h] # at[h] /\ ask[h].kind \in {"permit", "withdraw"}
                        /\ h \in overtaken \/ eligible' = Applied(ask[h], eligible)
    OBVIOUS
  <2>1. PICK h \in Handlers : SaveMode(h) \/ SaveStrategy(h)
    BY DEF Next, Request, Supervise, BeginMode, BeginStrategy, BeginStart, Read, CheckSwitch,
       StopFirst, CheckStart, RequestAutomation, Reread, Refuse, StopAutomation,
       SaveSettings, Halt, Round, CheckMode, CheckRequest, StartMode, StartRequest, TakeLock,
       Block, Tick, GuardMode, GuardRequest, Send, Crash, Boot, LoseLock, StopScheduler, Move,
       rows
  <2>2. ~SaveMode(h)
    BY DEF SaveMode, DraftInv
  <2>3. at'[h] # at[h]
    BY <2>1, <2>2 DEF SaveStrategy, Free, TypeOK
  <2> QED
    BY <2>1, <2>2, <2>3 DEF SaveStrategy, DraftInv
<1> QED
  BY <1>1, <1>2, <1>3, TypeCorrect, PTL DEF Spec, SavesKeepOthers
==============================================================================
