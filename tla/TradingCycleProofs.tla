------------------------- MODULE TradingCycleProofs -------------------------
(***************************************************************************)
(* Theorems about TradingCycle for every schedule and every set of faults. *)
(***************************************************************************)
EXTENDS TradingCycle, TLAPS

\* Every step before the n-th is done.
DoneBefore(n) == \A i \in 1..(n - 1) : status[CycleSteps[i]] = "done"

\* Inside a step the process is at a step without an outcome; between the
\* transactions of the steps that have several it is at the step they belong to.
ControlOK ==
    /\ pc \in {"record", "decide", "plan", "send", "reconcile"}
         => at \in 1..9 /\ status[CycleSteps[at]] = "none"
    /\ pc = "record" => result \in Outcomes
    /\ pc = "decide" => at = 5
    /\ pc \in {"plan", "send"} => at = 7 /\ DoneBefore(7)
    /\ pc = "reconcile" => at = 9

\* Only a running cycle is worked on.
RunningOK == pc # "asleep" => cycle = "running"

TypeInv == TypeOK /\ ControlOK /\ RunningOK

\* Orders leave only when every step before theirs is done.
OrdersInv == sent # {} => DoneBefore(7)

\* Where a warning of the risk step is kept until the gate reads it, and what
\* the permission for more risk says about the warnings of the session.
WarningsInv ==
    /\ "switch_at_risk" \in warned =>
          /\ status["risk"] = "done" => blocked
          /\ pc = "decide" => draft
          /\ pc = "record" /\ at = 5 /\ result = "done" => draft
    /\ pc = "record" /\ at = 6 /\ draft =>
          warned = {} /\ status["risk"] = "done"
    /\ increase => /\ warned = {}
                          /\ status["risk"] = "done" /\ status["portfolio_target"] # "none"
    /\ "increase" \in sent => increase

\* A gate that saw the switch engaged, without the exemption, is not passed.
SwitchInv ==
    ~reducing /\ "switch_at_gate" \in warned =>
        /\ status["portfolio_target"] # "done"
        /\ ~(pc = "record" /\ at = 6 /\ result = "done")

\* The loop has passed over no step without an outcome, a run that reconciled is
\* at its end, and a reconciliation that is done stored a report that passed.
PassedInv ==
    /\ \A i \in 1..9 : i < at => status[CycleSteps[i]] # "none"
    /\ pc = "asleep" => at = 1 /\ ~ran
    /\ ran => at = 10
    /\ pc = "finish" => ran
    /\ pc = "record" /\ at = 9 /\ result = "done" => report = "passed"
    /\ status["reconciliation"] = "done" => report = "passed"
    /\ cycle = "completed" => \A i \in 1..9 : status[CycleSteps[i]] = "done"

USE DEF stored, world, local, history

\* The nine steps by name.
LEMMA StepNames ==
    /\ Len(CycleSteps) = 9 /\ \A i \in 1..9 : CycleSteps[i] \in Steps
    /\ CycleSteps[1] = "health_check" /\ CycleSteps[2] = "market_data_update"
    /\ CycleSteps[3] = "indicators" /\ CycleSteps[4] = "strategies"
    /\ CycleSteps[5] = "risk" /\ CycleSteps[6] = "portfolio_target"
    /\ CycleSteps[7] = "order_submission" /\ CycleSteps[8] = "fill_monitoring"
    /\ CycleSteps[9] = "reconciliation"
BY DEF CycleSteps, Steps

LEMMA StepsDiffer == \A i, j \in 1..9 : CycleSteps[i] = CycleSteps[j] => i = j
BY DEF CycleSteps

\* A step that is reached is the at-th one and has no outcome.
LEMMA AtStep ==
    ASSUME NEW step, TypeOK, Reached(step)
    PROVE  at \in 1..9 /\ CycleSteps[at] = step /\ status[step] = "none" /\ step \in Steps
<1>1. at \in 1..9
  <2>1. at \in 1..(Len(CycleSteps) + 1)
    BY DEF TypeOK, ProcessTypes
  <2>2. at <= Len(CycleSteps)
    BY DEF Reached, IsDue
  <2>3. Len(CycleSteps) = 9
    BY StepNames
  <2> QED
    BY <2>1, <2>2, <2>3
<1>2. CycleSteps[at] = step /\ step \in Steps
  BY <1>1, StepNames DEF Reached
<1>3. status[step] \in Outcomes \cup {"none"}
  BY <1>2 DEF TypeOK, SessionTypes
<1> QED
  BY <1>1, <1>2, <1>3 DEF Reached, Finished

\* A step with a name has its place.
LEMMA AtNamedStep ==
    /\ \A i \in 1..9 : CycleSteps[i] = "health_check" <=> i = 1
    /\ \A i \in 1..9 : CycleSteps[i] = "risk" <=> i = 5
    /\ \A i \in 1..9 : CycleSteps[i] = "portfolio_target" <=> i = 6
    /\ \A i \in 1..9 : CycleSteps[i] = "order_submission" <=> i = 7
    /\ \A i \in 1..9 : CycleSteps[i] = "fill_monitoring" <=> i = 8
    /\ \A i \in 1..9 : CycleSteps[i] = "reconciliation" <=> i = 9
BY StepNames, StepsDiffer

LEMMA TypeInit == Init => TypeInv
<1> SUFFICES ASSUME Init PROVE TypeInv
  OBVIOUS
<1>1. 1 \in 1..(Len(CycleSteps) + 1) /\ 0 \in 0..LastMinute
  BY StepNames, ScheduleAssumption
<1>2. SessionTypes
  BY <1>1 DEF Init, SessionTypes
<1>3. WorldTypes
  BY DEF Init, WorldTypes
<1>4. ProcessTypes
  BY <1>1 DEF Init, ProcessTypes
<1>5. ControlOK
  BY DEF Init, ControlOK
<1>6. RunningOK
  BY DEF Init, RunningOK
<1> QED
  BY <1>2, <1>3, <1>4, <1>5, <1>6 DEF TypeInv, TypeOK

\* What a session stores keeps its type: a step stores its outcome at its place.
LEMMA SessionStep == TypeInv /\ [Next]_vars => SessionTypes'
<1> SUFFICES ASSUME TypeInv, [Next]_vars PROVE SessionTypes'
  OBVIOUS
<1>a. SessionTypes /\ ProcessTypes /\ ControlOK /\ LastMinute \in Nat /\ 0 \in 0..LastMinute
  BY ScheduleAssumption DEF TypeInv, TypeOK
<1>1. CASE Wake
  BY <1>1, <1>a DEF Wake, SessionTypes
<1>2. CASE RecordStep
  BY <1>2, <1>a DEF RecordStep, SessionTypes, ProcessTypes
<1>3. CASE Finish
  BY <1>3, <1>a DEF Finish, SessionTypes
<1>4. CASE RecordDecision
  BY <1>4, <1>a DEF RecordDecision, SessionTypes
<1>5. CASE Clock
  BY <1>5, <1>a DEF Clock, SessionTypes
<1>6. CASE NewSession
  BY <1>6, <1>a DEF NewSession, SessionTypes
<1>7. CASE UNCHANGED <<minute, cycle, status, blocked, increase, decision>>
  BY <1>7, <1>a DEF SessionTypes
<1> QED
  BY <1>1, <1>2, <1>3, <1>4, <1>5, <1>6, <1>7
     DEF Next, Scheduler, Outside, vars, NextStep, SkipStep, EndLoop, HealthCheck, ReadMarket, AssessRisk, PreflightGate, BeginSubmission, PlanOrders, EndSide, FillMonitoring, Compare, RecordReport, SendOrder, Crash, Engage, Release, Acknowledge, OrderEnds, ForeignTrade

\* What outlives a session keeps its type.
LEMMA WorldStep == TypeInv /\ [Next]_vars => WorldTypes'
<1> SUFFICES ASSUME TypeInv, [Next]_vars PROVE WorldTypes'
  OBVIOUS
<1>a. WorldTypes
  BY DEF TypeInv, TypeOK
<1>1. CASE HealthCheck
  BY <1>1, <1>a DEF HealthCheck, WorldTypes
<1>2. CASE AssessRisk
  BY <1>2, <1>a DEF AssessRisk, WorldTypes
<1>3. CASE PreflightGate
  BY <1>3, <1>a DEF PreflightGate, WorldTypes
<1>4. CASE PlanOrders
  BY <1>4, <1>a DEF PlanOrders, WorldTypes, Synced
<1>5. CASE FillMonitoring
  BY <1>5, <1>a DEF FillMonitoring, WorldTypes, Synced
<1>6. CASE Compare
  BY <1>6, <1>a DEF Compare, WorldTypes
<1>7. CASE RecordReport
  BY <1>7, <1>a DEF RecordReport, WorldTypes
<1>8. CASE SendOrder
  BY <1>8, <1>a DEF SendOrder, WorldTypes, Permitted, Kinds
<1>9. CASE Crash
  BY <1>9, <1>a DEF Crash, WorldTypes
<1>10. CASE Engage
  BY <1>10, <1>a DEF Engage, WorldTypes
<1>11. CASE Release
  BY <1>11, <1>a DEF Release, WorldTypes
<1>12. CASE Acknowledge
  BY <1>12, <1>a DEF Acknowledge, WorldTypes
<1>13. CASE OrderEnds
  BY <1>13, <1>a DEF OrderEnds, WorldTypes
<1>14. CASE ForeignTrade
  BY <1>14, <1>a DEF ForeignTrade, WorldTypes
<1>15. CASE NewSession
  BY <1>15, <1>a DEF NewSession, WorldTypes
<1>16. CASE UNCHANGED <<report, orders, reducing, killed, drift, sent, warned>>
  BY <1>16, <1>a DEF WorldTypes
<1> QED
  BY <1>1, <1>2, <1>3, <1>4, <1>5, <1>6, <1>7, <1>8, <1>9, <1>10, <1>11, <1>12, <1>13, <1>14, <1>15, <1>16
     DEF Next, Scheduler, Outside, vars, Wake, NextStep, SkipStep, RecordStep, EndLoop, Finish, ReadMarket, RecordDecision, BeginSubmission, EndSide, Clock

\* The process keeps its type.
LEMMA ProcessStep == TypeInv /\ [Next]_vars => ProcessTypes'
<1> SUFFICES ASSUME TypeInv, [Next]_vars PROVE ProcessTypes'
  OBVIOUS
<1>a. /\ SessionTypes /\ WorldTypes /\ ProcessTypes /\ ControlOK
      /\ Len(CycleSteps) = 9 /\ 0 \in 0..LastMinute /\ 1 \in 1..(Len(CycleSteps) + 1)
  BY StepNames, ScheduleAssumption DEF TypeInv, TypeOK
<1>1. CASE Wake
  BY <1>1, <1>a DEF Wake, ProcessTypes, SessionTypes
<1>2. CASE NextStep
  BY <1>2, <1>a DEF NextStep, ProcessTypes, IsDue
<1>3. CASE SkipStep
  BY <1>3, <1>a DEF SkipStep, ProcessTypes, Outcome, Outcomes
<1>4. CASE RecordStep
  <2>1. ran' \in BOOLEAN
    BY <1>4, <1>a DEF RecordStep, ProcessTypes
  <2>2. at' \in 1..10
    BY <1>4, <1>a DEF RecordStep, ProcessTypes, ControlOK
  <2>3. Len(CycleSteps) + 1 = 10 /\ now' \in 0..LastMinute
    BY <1>4, <1>a DEF RecordStep, ProcessTypes
  <2> QED
    BY <1>4, <2>1, <2>2, <2>3 DEF RecordStep, ProcessTypes
<1>5. CASE EndLoop
  BY <1>5, <1>a DEF EndLoop, ProcessTypes, Sleep
<1>6. CASE Finish
  BY <1>6, <1>a DEF Finish, ProcessTypes, Sleep
<1>7. CASE HealthCheck
  BY <1>7, <1>a DEF HealthCheck, ProcessTypes, Outcome, Outcomes
<1>8. CASE ReadMarket
  BY <1>8, <1>a DEF ReadMarket, ProcessTypes, Outcome, Outcomes
<1>9. CASE AssessRisk
  BY <1>9, <1>a DEF AssessRisk, ProcessTypes, Outcome, Outcomes, WorldTypes
<1>10. CASE RecordDecision
  BY <1>10, <1>a DEF RecordDecision, ProcessTypes, Outcome, Outcomes
<1>11. CASE PreflightGate
  BY <1>11, <1>a DEF PreflightGate, ProcessTypes, Outcome, Outcomes
<1>12. CASE BeginSubmission
  BY <1>12, <1>a DEF BeginSubmission, ProcessTypes, Outcome, Outcomes
<1>13. CASE PlanOrders
  BY <1>13, <1>a DEF PlanOrders, ProcessTypes, Outcome, Outcomes
<1>14. CASE EndSide
  BY <1>14, <1>a DEF EndSide, ProcessTypes, Outcome, Outcomes
<1>15. CASE FillMonitoring
  BY <1>15, <1>a DEF FillMonitoring, ProcessTypes, Outcome, Outcomes
<1>16. CASE Compare
  BY <1>16, <1>a DEF Compare, ProcessTypes, Outcome, Outcomes
<1>17. CASE RecordReport
  BY <1>17, <1>a DEF RecordReport, ProcessTypes, Outcome, Outcomes
<1>18. CASE Crash
  BY <1>18, <1>a DEF Crash, ProcessTypes, Sleep
<1>19. CASE UNCHANGED <<pc, now, at, side, result, draft, ran>>
  BY <1>19, <1>a DEF ProcessTypes
<1> QED
  BY <1>1, <1>2, <1>3, <1>4, <1>5, <1>6, <1>7, <1>8, <1>9, <1>10, <1>11, <1>12, <1>13, <1>14, <1>15, <1>16, <1>17, <1>18, <1>19
     DEF Next, Scheduler, Outside, vars, SendOrder, Engage, Release, Acknowledge, OrderEnds, ForeignTrade, Clock, NewSession

\* Inside a step the process is at that step, which has no outcome yet.
LEMMA ControlStep == TypeInv /\ [Next]_vars => ControlOK'
<1> SUFFICES ASSUME TypeInv, [Next]_vars PROVE ControlOK'
  OBVIOUS
<1>a. TypeOK /\ ControlOK
  BY DEF TypeInv
<1> USE DEF ControlOK
<1>1. CASE Wake
  BY <1>1, <1>a DEF Wake
<1>2. CASE NextStep
  BY <1>2, <1>a DEF NextStep
<1>3. CASE RecordStep
  BY <1>3, <1>a DEF RecordStep
<1>4. CASE EndLoop
  BY <1>4, <1>a DEF EndLoop, Sleep
<1>5. CASE Finish
  BY <1>5, <1>a DEF Finish, Sleep
<1>6. CASE Crash
  BY <1>6, <1>a DEF Crash, Sleep
<1>7. CASE NewSession
  BY <1>7, <1>a DEF NewSession
<1>8. CASE HealthCheck
  <2>1. at \in 1..9 /\ CycleSteps[at] = "health_check" /\ status["health_check"] = "none"
    BY <1>8, <1>a, AtStep DEF HealthCheck
  <2> QED
    BY <1>8, <2>1, AtNamedStep DEF HealthCheck, Outcome, Outcomes, MayRun, DoneBefore
<1>9. CASE AssessRisk
  <2>1. at \in 1..9 /\ CycleSteps[at] = "risk" /\ status["risk"] = "none"
    BY <1>9, <1>a, AtStep DEF AssessRisk
  <2> QED
    BY <1>9, <2>1, AtNamedStep DEF AssessRisk, Outcome, Outcomes, MayRun, DoneBefore
<1>10. CASE PreflightGate
  <2>1. at \in 1..9 /\ CycleSteps[at] = "portfolio_target" /\ status["portfolio_target"] = "none"
    BY <1>10, <1>a, AtStep DEF PreflightGate
  <2> QED
    BY <1>10, <2>1, AtNamedStep DEF PreflightGate, Outcome, Outcomes, MayRun, DoneBefore
<1>11. CASE BeginSubmission
  <2>1. at \in 1..9 /\ CycleSteps[at] = "order_submission" /\ status["order_submission"] = "none"
    BY <1>11, <1>a, AtStep DEF BeginSubmission
  <2> QED
    BY <1>11, <2>1, AtNamedStep DEF BeginSubmission, Outcome, Outcomes, MayRun, DoneBefore
<1>12. CASE FillMonitoring
  <2>1. at \in 1..9 /\ CycleSteps[at] = "fill_monitoring" /\ status["fill_monitoring"] = "none"
    BY <1>12, <1>a, AtStep DEF FillMonitoring
  <2> QED
    BY <1>12, <2>1, AtNamedStep DEF FillMonitoring, Outcome, Outcomes, MayRun, DoneBefore
<1>13. CASE Compare
  <2>1. at \in 1..9 /\ CycleSteps[at] = "reconciliation" /\ status["reconciliation"] = "none"
    BY <1>13, <1>a, AtStep DEF Compare
  <2> QED
    BY <1>13, <2>1, AtNamedStep DEF Compare, Outcome, Outcomes, MayRun, DoneBefore
<1>14. CASE SkipStep
  <2>1. PICK step \in Steps :
          /\ Reached(step) /\ pc' = "record" /\ result' \in Outcomes
          /\ UNCHANGED <<status, at>>
    BY <1>14 DEF SkipStep, Outcome, Outcomes
  <2>2. at \in 1..9 /\ CycleSteps[at] = step /\ status[step] = "none"
    BY <2>1, <1>a, AtStep
  <2> QED
    BY <2>1, <2>2
<1>15. CASE ReadMarket
  <2>1. PICK step \in {"market_data_update", "indicators", "strategies"} :
          /\ Reached(step) /\ pc' = "record" /\ result' \in Outcomes
          /\ UNCHANGED <<status, at>>
    BY <1>15 DEF ReadMarket, Outcome, Outcomes
  <2>2. at \in 1..9 /\ CycleSteps[at] = step /\ status[step] = "none"
    BY <2>1, <1>a, AtStep
  <2> QED
    BY <2>1, <2>2
<1>16. CASE RecordDecision
  BY <1>16, <1>a DEF RecordDecision, Outcome, Outcomes, DoneBefore
<1>17. CASE PlanOrders
  BY <1>17, <1>a DEF PlanOrders, Outcome, Outcomes, DoneBefore
<1>18. CASE EndSide
  BY <1>18, <1>a DEF EndSide, Outcome, Outcomes, DoneBefore
<1>19. CASE RecordReport
  BY <1>19, <1>a DEF RecordReport, Outcome, Outcomes, DoneBefore
<1>20. CASE UNCHANGED <<pc, at, result, status>>
  BY <1>20, <1>a DEF DoneBefore
<1> QED
  BY <1>1, <1>2, <1>3, <1>4, <1>5, <1>6, <1>7, <1>8, <1>9, <1>10, <1>11, <1>12, <1>13, <1>14, <1>15, <1>16, <1>17, <1>18, <1>19, <1>20
     DEF Next, Scheduler, Outside, vars, SendOrder, Engage, Release, Acknowledge, OrderEnds,
         ForeignTrade, Clock

\* A process that is at work works on a running cycle.
LEMMA RunningStep == TypeInv /\ [Next]_vars => RunningOK'
<1> SUFFICES ASSUME TypeInv, [Next]_vars PROVE RunningOK'
  OBVIOUS
<1>a. RunningOK
  BY DEF TypeInv
<1>1. CASE Wake
  BY <1>1 DEF Wake, RunningOK
<1>2. CASE Finish \/ EndLoop \/ Crash
  BY <1>2, <1>a DEF Finish, EndLoop, Crash, Sleep, RunningOK
<1>3. CASE NewSession
  BY <1>3 DEF NewSession, RunningOK
<1>4. CASE UNCHANGED <<pc, cycle>>
  BY <1>4, <1>a DEF RunningOK
<1>5. CASE pc # "asleep" /\ UNCHANGED cycle
  BY <1>5, <1>a DEF RunningOK
<1> QED
  BY <1>1, <1>2, <1>3, <1>4, <1>5
     DEF Next, Scheduler, Outside, vars, NextStep, SkipStep, RecordStep, HealthCheck, Reached,
         ReadMarket, AssessRisk, RecordDecision, PreflightGate, BeginSubmission, PlanOrders,
         EndSide, FillMonitoring, Compare, RecordReport, SendOrder, Engage, Release,
         Acknowledge, OrderEnds, ForeignTrade, Clock

\* Types and control, for every schedule and every set of faults.
LEMMA TypeAlways == Spec => []TypeInv
<1>1. TypeInv /\ [Next]_vars => TypeInv'
  BY SessionStep, WorldStep, ProcessStep, ControlStep, RunningStep DEF TypeInv, TypeOK
<1> QED
  BY <1>1, TypeInit, PTL DEF Spec

\* The variables keep their types whatever fails, crashes or is switched.
THEOREM TypeCorrect == Spec => []TypeOK
<1>1. TypeInv => TypeOK
  BY DEF TypeInv
<1> QED
  BY <1>1, TypeAlways, PTL

-----------------------------------------------------------------------------
\* RecordStep stores an outcome where there is none, and nothing else.
LEMMA RecordedOutcome ==
    ASSUME TypeInv, RecordStep
    PROVE  /\ pc = "record" /\ at \in 1..9 /\ status[CycleSteps[at]] = "none"
           /\ \A i \in 1..9 : status'[CycleSteps[i]]
                                = IF i = at THEN result ELSE status[CycleSteps[i]]
           /\ \A s \in Steps : s # CycleSteps[at] => status'[s] = status[s]
<1>1. pc = "record" /\ at \in 1..9 /\ status[CycleSteps[at]] = "none"
  BY DEF RecordStep, TypeInv, ControlOK
<1>2. /\ \A i \in 1..9 : CycleSteps[i] \in Steps
      /\ status \in [Steps -> Outcomes \cup {"none"}]
  BY StepNames DEF TypeInv, TypeOK, SessionTypes
<1> QED
  BY <1>1, <1>2, StepsDiffer DEF RecordStep

\* The outcomes stored for a session are only added to; a new session starts
\* without any.
LEMMA OutcomesStep ==
    ASSUME TypeInv, [Next]_vars
    PROVE  \/ UNCHANGED status
           \/ /\ RecordStep /\ status[CycleSteps[at]] = "none"
              /\ \A s \in Steps : s # CycleSteps[at] => status'[s] = status[s]
           \/ NewSession
<1>1. CASE RecordStep
  BY <1>1, RecordedOutcome
<1>2. CASE NewSession
  BY <1>2
<1>3. CASE UNCHANGED status
  BY <1>3
<1> QED
  BY <1>1, <1>2, <1>3
     DEF Next, Scheduler, Outside, vars, Wake, NextStep, SkipStep, EndLoop, Finish, HealthCheck,
         ReadMarket, AssessRisk, RecordDecision, PreflightGate, BeginSubmission, PlanOrders,
         EndSide, FillMonitoring, Compare, RecordReport, SendOrder, Crash, Engage, Release,
         Acknowledge, OrderEnds, ForeignTrade, Clock

\* Orders leave only after the steps before theirs, and what is done stays done.
LEMMA OrdersStep == TypeInv /\ OrdersInv /\ [Next]_vars => OrdersInv'
<1> SUFFICES ASSUME TypeInv, OrdersInv, [Next]_vars PROVE OrdersInv'
  OBVIOUS
<1>1. CASE SendOrder
  <2>1. DoneBefore(7) /\ UNCHANGED status
    BY <1>1 DEF SendOrder, TypeInv, ControlOK
  <2> QED
    BY <2>1 DEF OrdersInv, DoneBefore
<1>2. CASE NewSession
  BY <1>2 DEF NewSession, OrdersInv
<1>3. CASE UNCHANGED <<sent, status>>
  BY <1>3 DEF OrdersInv, DoneBefore
<1>4. CASE RecordStep
  <2>1. /\ at \in 1..9 /\ status[CycleSteps[at]] = "none"
        /\ \A i \in 1..9 : i # at => status'[CycleSteps[i]] = status[CycleSteps[i]]
    BY <1>4, RecordedOutcome
  <2>2. sent' = sent
    BY <1>4 DEF RecordStep
  <2> QED
    BY <2>1, <2>2 DEF OrdersInv, DoneBefore
<1>5. CASE Crash
  <2>1. UNCHANGED status /\ sent' = sent
    BY <1>5 DEF Crash
  <2> QED
    BY <2>1 DEF OrdersInv, DoneBefore
<1> QED
  BY <1>1, <1>2, <1>3, <1>4, <1>5
     DEF Next, Scheduler, Outside, vars, Wake, NextStep, SkipStep, EndLoop, Finish, HealthCheck,
         ReadMarket, AssessRisk, RecordDecision, PreflightGate, BeginSubmission, PlanOrders,
         EndSide, FillMonitoring, Compare, RecordReport, Engage, Release,
         Acknowledge, OrderEnds, ForeignTrade, Clock

\* No order leaves in a session unless every step up to the gate is done
\* (_run_step), for every schedule, however often the process dies.
THEOREM OrdersWaitForEveryStep == Spec => []OrdersNeedEveryStep
<1>1. Init => OrdersInv
  BY DEF Init, OrdersInv
<1>2. OrdersInv => OrdersNeedEveryStep
  BY DEF OrdersInv, OrdersNeedEveryStep, DoneBefore
<1> QED
  BY <1>1, <1>2, TypeAlways, OrdersStep, PTL DEF Spec

\* What a session stored as its own outcome is replaced by the next session's only.
LEMMA SessionOutcomeStep ==
    ASSUME TypeInv, [Next]_vars, cycle \in {"completed", "refused"}
    PROVE  UNCHANGED cycle \/ NewSession
<1>1. CASE Finish
  BY <1>1 DEF Finish, TypeInv, RunningOK
<1>2. CASE Wake
  BY <1>2 DEF Wake
<1>3. CASE NewSession
  BY <1>3
<1>4. CASE UNCHANGED cycle
  BY <1>4
<1> QED
  BY <1>1, <1>2, <1>3, <1>4
     DEF Next, Scheduler, Outside, vars, NextStep, SkipStep, RecordStep, EndLoop, HealthCheck,
         ReadMarket, AssessRisk, RecordDecision, PreflightGate, BeginSubmission, PlanOrders,
         EndSide, FillMonitoring, Compare, RecordReport, SendOrder, Crash, Engage, Release,
         Acknowledge, OrderEnds, ForeignTrade, Clock

\* The outcome of a step (FINISHED) and of the whole session (the head of
\* run_due) stands for the rest of the session, over every restart; a session
\* is more than a minute long.
THEOREM OutcomesStay == ASSUME LastMinute # 0 PROVE Spec => OutcomesAreFinal
<1>1. NewSession => minute' < minute
  BY ScheduleAssumption DEF NewSession
<1>2. TypeInv /\ [Next]_vars => [OutcomeStands]_vars
  <2>1. ASSUME TypeInv, [Next]_vars, NEW s \in Steps, status[s] # "none"
        PROVE  status'[s] = status[s] \/ minute' < minute
    BY <1>1, <2>1, OutcomesStep
  <2>2. ASSUME TypeInv, [Next]_vars, cycle \in {"completed", "refused"}
        PROVE  cycle' = cycle \/ minute' < minute
    BY <1>1, <2>2, SessionOutcomeStep
  <2> QED
    BY <2>1, <2>2 DEF OutcomeStands
<1> QED
  BY <1>2, TypeAlways, PTL DEF Spec, OutcomesAreFinal

-----------------------------------------------------------------------------
\* What was seen against more risk is kept with the risk step until the gate, and
\* the permission the gate stores excludes it.
LEMMA WarningsStep == TypeInv /\ WarningsInv /\ [Next]_vars => WarningsInv'
<1> SUFFICES ASSUME TypeInv, WarningsInv, [Next]_vars PROVE WarningsInv'
  OBVIOUS
<1>b. /\ status \in [Steps -> Outcomes \cup {"none"}]
      /\ "risk" \in Steps /\ "portfolio_target" \in Steps
  BY StepNames DEF TypeInv, TypeOK, SessionTypes
<1>a. /\ ControlOK /\ blocked \in BOOLEAN /\ draft \in BOOLEAN
      /\ warned \subseteq {"switch_at_risk", "switch_at_gate", "report_at_gate"}
  BY StepNames DEF TypeInv, TypeOK, SessionTypes, WorldTypes, ProcessTypes
<1>c. at \in 1..10
  BY StepNames DEF TypeInv, TypeOK, ProcessTypes
<1> USE DEF WarningsInv
<1>1. CASE RecordStep
  <2>1. /\ pc = "record" /\ at \in 1..9 /\ status[CycleSteps[at]] = "none"
        /\ pc' = "loop" /\ UNCHANGED <<warned, sent>>
    BY <1>1, <1>a DEF RecordStep, ControlOK
  <2>2. CASE at = 5
    <3>1. /\ CycleSteps[at] = "risk" /\ ~increase /\ UNCHANGED increase
      BY <2>1, <2>2, <1>1, StepNames DEF RecordStep
    <3>2. blocked' = draft /\ status'["risk"] = result
      BY <3>1, <1>1, <1>b, StepNames DEF RecordStep
    <3> QED
      BY <2>1, <2>2, <3>1, <3>2
  <2>3. CASE at = 6
    <3>1. /\ CycleSteps[at] = "portfolio_target" /\ ~increase /\ blocked' = blocked
          /\ increase' = draft
      BY <2>1, <2>3, <1>1, StepNames DEF RecordStep
    <3>2. status'["portfolio_target"] = result /\ status'["risk"] = status["risk"]
      BY <3>1, <1>1, <1>b, StepNames DEF RecordStep
    <3>3. result # "none"
      BY <2>1, <1>a DEF ControlOK, Outcomes
    <3> QED
      BY <2>1, <2>3, <3>1, <3>2, <3>3
  <2>4. CASE at \notin {5, 6}
    <3>1. CycleSteps[at] \notin {"risk", "portfolio_target"}
      BY <2>1, <2>4, AtNamedStep
    <3>2. /\ status'["risk"] = status["risk"]
          /\ status'["portfolio_target"] = status["portfolio_target"]
          /\ UNCHANGED <<blocked, increase>>
      BY <3>1, <1>1, <1>b, StepNames DEF RecordStep
    <3> QED
      BY <2>1, <3>2
  <2> QED
    BY <2>2, <2>3, <2>4
<1>2. CASE AssessRisk
  <2>1. at = 5 /\ status["risk"] = "none"
    BY <1>2, AtStep, AtNamedStep DEF AssessRisk, TypeInv
  <2>2. UNCHANGED <<status, blocked, increase, sent, at>> /\ ~increase
    BY <1>2, <2>1 DEF AssessRisk
  <2>3. \/ pc' = "decide" /\ ("switch_at_risk" \in warned' => draft')
        \/ pc' = "record" /\ result' \in {"refused", "failed"}
    BY <1>2 DEF AssessRisk, Outcome
  <2> QED
    BY <1>c, <2>1, <2>2, <2>3
<1>3. CASE RecordDecision
  <2>1. pc = "decide" /\ at = 5 /\ at' = at /\ draft' = draft
    BY <1>3, <1>a DEF RecordDecision, Outcome, ControlOK
  <2>2. UNCHANGED <<status, blocked, increase, sent, warned>> /\ pc' = "record"
    BY <1>3 DEF RecordDecision, Outcome
  <2> QED
    BY <1>c, <2>1, <2>2
<1>4. CASE PreflightGate
  <2>1. at = 6 /\ status["portfolio_target"] = "none"
    BY <1>4, AtStep, AtNamedStep DEF PreflightGate, TypeInv
  <2>2. status["risk"] = "done"
    <3>1. MayRun("portfolio_target")
      BY <1>4 DEF PreflightGate
    <3> QED
      BY <3>1, <1>c, <2>1, StepNames DEF MayRun
  <2>3. UNCHANGED <<status, blocked, increase, sent, at>> /\ pc' = "record" /\ ~increase
    BY <1>4, <2>1 DEF PreflightGate, Outcome
  <2>4. "switch_at_risk" \in warned' => "switch_at_risk" \in warned
    BY <1>4 DEF PreflightGate
  <2>5. draft' => ~killed /\ ~blocked /\ report # "failed"
    BY <1>4 DEF PreflightGate, Outcome
  <2>6. ASSUME draft' PROVE warned' = {}
    <3>1. "switch_at_risk" \notin warned
      BY <2>2, <2>5, <2>6
    <3> QED
      BY <1>4, <1>a, <2>5, <2>6, <3>1 DEF PreflightGate
  <2> QED
    BY <1>c, <2>1, <2>2, <2>3, <2>4, <2>6
<1>5. CASE SendOrder
  BY <1>5 DEF SendOrder, Permitted
<1>6. CASE NewSession
  <2>1. /\ sent' = {} /\ warned' = {} /\ ~increase' /\ pc = "asleep" /\ pc' = pc
    BY <1>6 DEF NewSession
  <2> QED
    BY <2>1
<1>7. CASE SkipStep \/ ReadMarket
  <2>1. /\ pc' = "record" /\ ~draft'
        /\ UNCHANGED <<status, blocked, increase, sent, warned, at>>
    BY <1>7 DEF SkipStep, ReadMarket, Outcome
  <2>2. SkipStep => result' = "skipped"
    BY DEF SkipStep, Outcome
  <2>3. ASSUME ReadMarket PROVE at # 5
    <3>1. PICK step \in {"market_data_update", "indicators", "strategies"} : Reached(step)
      BY <2>3 DEF ReadMarket
    <3>2. at \in 1..9 /\ CycleSteps[at] = step
      BY <3>1, AtStep DEF TypeInv
    <3> QED
      BY <3>2, AtNamedStep
  <2> QED
    BY <1>7, <2>1, <2>2, <2>3
<1>8. CASE HealthCheck \/ BeginSubmission \/ FillMonitoring \/ Compare
  <2>1. at \in {1, 7, 8, 9}
    BY <1>8, AtStep, AtNamedStep DEF HealthCheck, BeginSubmission, FillMonitoring, Compare, TypeInv
  <2>2. /\ pc' \in {"record", "plan", "reconcile"}
        /\ UNCHANGED <<status, blocked, increase, sent, warned, at>>
    BY <1>8 DEF HealthCheck, BeginSubmission, FillMonitoring, Compare, Outcome
  <2> QED
    BY <1>c, <2>1, <2>2
<1>9. CASE PlanOrders \/ EndSide \/ RecordReport
  <2>1. at \in {7, 9}
    BY <1>9, <1>a DEF PlanOrders, EndSide, RecordReport, ControlOK
  <2>2. /\ pc' \in {"record", "plan", "send", "reconcile"}
        /\ UNCHANGED <<status, blocked, increase, sent, warned, at>>
    BY <1>9 DEF PlanOrders, EndSide, RecordReport, Outcome
  <2> QED
    BY <1>c, <2>1, <2>2
<1>10. CASE Wake \/ NextStep \/ EndLoop \/ Finish \/ Crash
  <2>1. /\ pc' \in {"loop", "finish", "asleep"}
        /\ UNCHANGED <<status, blocked, increase, sent, warned>>
    BY <1>10 DEF Wake, NextStep, EndLoop, Finish, Crash, Sleep
  <2> QED
    BY <2>1
<1>11. CASE UNCHANGED <<status, blocked, increase, sent, warned, pc, at, result, draft>>
  BY <1>11
<1> QED
  BY <1>1, <1>2, <1>3, <1>4, <1>5, <1>6, <1>7, <1>8, <1>9, <1>10, <1>11
     DEF Next, Scheduler, Outside, vars, Engage, Release, Acknowledge, OrderEnds, ForeignTrade,
         Clock

\* No order that adds risk leaves in a session whose risk step or gate saw the
\* kill switch or a failed reconciliation, whatever is released, acknowledged,
\* crashed or restarted in between (_StoredRiskCheck, _filtered).
THEOREM WarningsStand == Spec => []WarningsHold
<1>1. Init => WarningsInv
  BY DEF Init, WarningsInv
<1>2. WarningsInv => WarningsHold
  BY DEF WarningsInv, WarningsHold
<1> QED
  BY <1>1, <1>2, TypeAlways, WarningsStep, PTL DEF Spec

-----------------------------------------------------------------------------
\* A gate that saw the switch engaged, without the exemption, ends refused, and
\* its outcome is the one that is stored.
LEMMA SwitchStep == TypeInv /\ SwitchInv /\ [Next]_vars => SwitchInv'
<1> SUFFICES ASSUME TypeInv, SwitchInv, [Next]_vars PROVE SwitchInv'
  OBVIOUS
<1>a. ControlOK /\ reducing \in BOOLEAN /\ killed \in BOOLEAN
  BY DEF TypeInv, TypeOK, WorldTypes
<1>b. /\ status \in [Steps -> Outcomes \cup {"none"}] /\ "portfolio_target" \in Steps
  BY StepNames DEF TypeInv, TypeOK, SessionTypes
<1> USE DEF SwitchInv
<1>1. CASE RecordStep
  <2>1. /\ pc = "record" /\ at \in 1..9 /\ pc' = "loop" /\ UNCHANGED <<reducing, warned>>
    BY <1>1, <1>a DEF RecordStep, ControlOK
  <2>2. status'["portfolio_target"] = IF at = 6 THEN result ELSE status["portfolio_target"]
    BY <2>1, <1>1, <1>b, AtNamedStep DEF RecordStep
  <2> QED
    BY <2>1, <2>2
<1>2. CASE PreflightGate
  <2>1. at = 6 /\ status["portfolio_target"] = "none"
    BY <1>2, AtStep, AtNamedStep DEF PreflightGate, TypeInv
  <2>2. UNCHANGED <<status, reducing>>
    BY <1>2 DEF PreflightGate
  <2>3. ~reducing /\ "switch_at_gate" \in warned' => killed
    BY <1>2 DEF PreflightGate
  <2>4. ~reducing /\ killed => result' = "refused"
    BY <1>2 DEF PreflightGate, Outcome
  <2> QED
    BY <2>1, <2>2, <2>3, <2>4
<1>3. CASE AssessRisk
  <2>1. "switch_at_gate" \in warned' => "switch_at_gate" \in warned
    <3>1. warned' \in {{"switch_at_risk"}, {}, warned}
      BY <1>3 DEF AssessRisk
    <3> QED
      BY <3>1
  <2>2. at = 5 /\ UNCHANGED <<status, reducing, at>>
    BY <1>3, AtStep, AtNamedStep DEF AssessRisk, TypeInv
  <2> QED
    BY <2>1, <2>2
<1>4. CASE NewSession
  BY <1>4 DEF NewSession
<1>5. CASE SkipStep
  BY <1>5 DEF SkipStep, Outcome
<1>6. CASE ReadMarket
  <2>1. PICK step \in {"market_data_update", "indicators", "strategies"} : Reached(step)
    BY <1>6 DEF ReadMarket
  <2>2. at \in 1..9 /\ CycleSteps[at] = step
    BY <2>1, AtStep DEF TypeInv
  <2>3. at # 6
    BY <2>2, AtNamedStep
  <2>4. UNCHANGED <<status, reducing, warned, at>>
    BY <1>6 DEF ReadMarket
  <2> QED
    BY <2>3, <2>4
<1>7. CASE HealthCheck \/ BeginSubmission \/ FillMonitoring \/ Compare
  <2>1. at \in {1, 7, 8, 9}
    BY <1>7, AtStep, AtNamedStep DEF HealthCheck, BeginSubmission, FillMonitoring, Compare, TypeInv
  <2>2. UNCHANGED <<status, reducing, warned, at>>
    BY <1>7 DEF HealthCheck, BeginSubmission, FillMonitoring, Compare
  <2> QED
    BY <2>1, <2>2
<1>8. CASE RecordDecision \/ PlanOrders \/ EndSide \/ RecordReport
  <2>1. at \in {5, 7, 9} /\ UNCHANGED <<status, reducing, warned, at>>
    BY <1>8, <1>a DEF RecordDecision, PlanOrders, EndSide, RecordReport, ControlOK
  <2> QED
    BY <2>1
<1>9. CASE Wake \/ NextStep \/ EndLoop \/ Finish \/ Crash
  <2>1. pc' \in {"loop", "finish", "asleep"} /\ UNCHANGED <<status, reducing, warned>>
    BY <1>9 DEF Wake, NextStep, EndLoop, Finish, Crash, Sleep
  <2> QED
    BY <2>1
<1>10. CASE UNCHANGED <<status, reducing, warned, pc, at, result>>
  BY <1>10
<1> QED
  BY <1>1, <1>2, <1>3, <1>4, <1>5, <1>6, <1>7, <1>8, <1>9, <1>10
     DEF Next, Scheduler, Outside, vars, SendOrder, Engage, Release, Acknowledge, OrderEnds,
         ForeignTrade, Clock

\* Where risk-reducing orders are not exempt, a switch the gate saw engaged stops
\* every order of the session, wherever the process dies after the gate.
THEOREM SwitchStops == Spec => []SwitchStopsAll
<1>1. Init => SwitchInv /\ OrdersInv
  BY DEF Init, SwitchInv, OrdersInv
<1>2. OrdersInv /\ SwitchInv => SwitchStopsAll
  <2>1. DoneBefore(7) => status["portfolio_target"] = "done"
    BY StepNames DEF DoneBefore
  <2> QED
    BY <2>1 DEF OrdersInv, SwitchInv, SwitchStopsAll
<1> QED
  BY <1>1, <1>2, TypeAlways, OrdersStep, SwitchStep, PTL DEF Spec

-----------------------------------------------------------------------------
\* What stands between an outcome of the reconciliation step and a completed cycle.
LEMMA PassedStep == TypeInv /\ PassedInv /\ [Next]_vars => PassedInv'
<1> SUFFICES ASSUME TypeInv, PassedInv, [Next]_vars PROVE PassedInv'
  OBVIOUS
<1>a. ControlOK /\ at \in 1..10 /\ ran \in BOOLEAN /\ CycleSteps[9] = "reconciliation"
  BY StepNames DEF TypeInv, TypeOK, ProcessTypes
<1>b. /\ \A i \in 1..9 : CycleSteps[i] \in Steps
      /\ status["reconciliation"] = status[CycleSteps[9]]
  BY StepNames
<1> USE DEF PassedInv
<1>1. CASE RecordStep
  <2>1. /\ pc = "record" /\ at \in 1..9 /\ status[CycleSteps[at]] = "none" /\ result # "none"
        /\ \A i \in 1..9 : status'[CycleSteps[i]] = IF i = at THEN result
                                                     ELSE status[CycleSteps[i]]
    BY <1>1, <1>a, RecordedOutcome DEF ControlOK, Outcomes
  <2>2. at' = at + 1 /\ pc' = "loop" /\ UNCHANGED <<report, cycle>>
    BY <1>1 DEF RecordStep
  <2>3. ran' => at = 9
    <3>1. ~ran
      BY <2>1
    <3>2. ran' => CycleSteps[at] = "reconciliation"
      BY <1>1, <3>1 DEF RecordStep
    <3> QED
      BY <2>1, <3>2, AtNamedStep
  <2>4. cycle # "completed"
    BY <2>1
  <2> QED
    BY <2>1, <2>2, <2>3, <2>4, <1>a, <1>b
<1>2. CASE NextStep
  <2>1. /\ pc = "loop" /\ pc' = pc /\ at <= 9 /\ at' = at + 1
        /\ status[CycleSteps[at]] # "none" /\ UNCHANGED <<status, report, cycle, ran>>
    BY <1>2, StepNames DEF NextStep, IsDue, Finished, Outcomes
  <2>2. ~ran
    BY <2>1, <1>a
  <2> QED
    BY <2>1, <2>2, <1>a
<1>3. CASE Finish
  <2>1. /\ pc = "finish" /\ at = 10 /\ pc' = "asleep" /\ at' = 1 /\ ~ran'
        /\ UNCHANGED <<status, report>>
        /\ cycle' = "completed" => \A s \in Recorded : status[s] = "done"
    BY <1>3 DEF Finish, Sleep
  <2>2. \A i \in 1..9 : CycleSteps[i] \in Recorded
    BY <2>1, <1>b DEF Recorded
  <2> QED
    BY <2>1, <2>2
<1>4. CASE NewSession
  <2>1. /\ pc = "asleep" /\ cycle' = "none" /\ UNCHANGED <<pc, at, ran, result, report>>
        /\ \A i \in 1..9 : status'[CycleSteps[i]] = "none"
    BY <1>4, <1>b DEF NewSession
  <2>2. status'["reconciliation"] = "none"
    BY <2>1, <1>a
  <2> QED
    BY <2>1, <2>2
<1>5. CASE RecordReport
  <2>1. /\ at = 9 /\ status["reconciliation"] = "none" /\ cycle # "completed"
    BY <1>5, <1>a, <1>b DEF RecordReport, ControlOK
  <2>2. /\ pc' = "record" /\ UNCHANGED <<status, cycle, at, ran>>
        /\ result' = "done" => report' = "passed"
    BY <1>5 DEF RecordReport, Outcome
  <2> QED
    BY <2>1, <2>2
<1>6. CASE Acknowledge
  <2>1. report' = "passed" /\ UNCHANGED <<status, cycle, at, ran, pc, result>>
    BY <1>6 DEF Acknowledge
  <2> QED
    BY <2>1
<1>7. CASE Wake \/ EndLoop \/ Crash
  <2>1. /\ UNCHANGED <<status, report>> /\ (cycle' = cycle \/ cycle' = "running")
        /\ \/ pc' = "asleep" /\ at' = 1 /\ ~ran'
           \/ pc' \in {"loop", "finish"} /\ UNCHANGED <<at, ran>> /\ (pc' = "finish" => ran)
    BY <1>7 DEF Wake, EndLoop, Crash, Sleep
  <2> QED
    BY <2>1, <1>a
<1>8. CASE Compare
  <2>1. /\ pc' \in {"reconcile", "record"} /\ UNCHANGED <<status, report, cycle, at, ran>>
        /\ pc' = "record" => result' = "failed"
    BY <1>8 DEF Compare, Outcome
  <2> QED
    BY <2>1
<1>9. CASE SkipStep
  <2>1. /\ pc' = "record" /\ UNCHANGED <<status, report, cycle, at, ran>>
        /\ result' = "skipped"
    BY <1>9 DEF SkipStep, Outcome
  <2> QED
    BY <2>1
<1>10. CASE ReadMarket
  <2>1. PICK step \in {"market_data_update", "indicators", "strategies"} : Reached(step)
    BY <1>10 DEF ReadMarket
  <2>2. at \in 1..9 /\ CycleSteps[at] = step
    BY <2>1, AtStep DEF TypeInv
  <2>3. at # 9
    BY <2>2, AtNamedStep
  <2>4. pc' = "record" /\ UNCHANGED <<status, report, cycle, at, ran>>
    BY <1>10 DEF ReadMarket, Outcome
  <2> QED
    BY <2>3, <2>4
<1>11. CASE HealthCheck \/ AssessRisk \/ PreflightGate \/ BeginSubmission \/ FillMonitoring
  <2>1. at \in {1, 5, 6, 7, 8}
    BY <1>11, AtStep, AtNamedStep DEF HealthCheck, AssessRisk, PreflightGate, BeginSubmission,
         FillMonitoring, TypeInv
  <2>2. pc' \in {"record", "decide", "plan"} /\ UNCHANGED <<status, report, cycle, at, ran>>
    BY <1>11 DEF HealthCheck, AssessRisk, PreflightGate, BeginSubmission, FillMonitoring, Outcome
  <2> QED
    BY <2>1, <2>2
<1>12. CASE RecordDecision \/ PlanOrders \/ EndSide
  <2>1. at \in {5, 7}
    BY <1>12, <1>a DEF RecordDecision, PlanOrders, EndSide, ControlOK
  <2>2. pc' \in {"record", "plan", "send"} /\ UNCHANGED <<status, report, cycle, at, ran>>
    BY <1>12 DEF RecordDecision, PlanOrders, EndSide, Outcome
  <2> QED
    BY <2>1, <2>2
<1>13. CASE UNCHANGED <<status, report, cycle, pc, at, ran, result>>
  BY <1>13
<1> QED
  BY <1>1, <1>2, <1>3, <1>4, <1>5, <1>6, <1>7, <1>8, <1>9, <1>10, <1>11, <1>12, <1>13
     DEF Next, Scheduler, Outside, vars, SendOrder, Engage, Release, OrderEnds, ForeignTrade,
         Clock

\* A completed cycle has all nine steps done and the latest report is one that
\* passed, wherever the process died on the way (run_due).
THEOREM CompletedIsReconciled == Spec => []CompletedMeansReconciled
<1>1. Init => PassedInv
  <2>1. Init => \A i \in 1..9 : status[CycleSteps[i]] = "none"
    BY StepNames DEF Init
  <2> QED
    BY <2>1, StepNames DEF Init, PassedInv
<1>2. PassedInv => CompletedMeansReconciled
  <2>1. \A s \in Steps : \E i \in 1..9 : s = CycleSteps[i]
    BY StepNames DEF Steps
  <2> QED
    BY <2>1, StepNames DEF PassedInv, CompletedMeansReconciled
<1> QED
  BY <1>1, <1>2, TypeAlways, PassedStep, PTL DEF Spec

\* Warnings and the kill switch stop what they are meant to stop (_filtered,
\* _StoredRiskCheck, KillSwitchCheck).
THEOREM StopsStand == Spec => []StopsAreObeyed
<1>1. WarningsHold /\ SwitchStopsAll => StopsAreObeyed
  BY DEF StopsAreObeyed
<1> QED
  BY <1>1, WarningsStand, SwitchStops, PTL
=============================================================================
