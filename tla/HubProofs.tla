------------------------------ MODULE HubProofs ------------------------------
(***************************************************************************)
(* Every step of the agent, its gateway and its monitors is a step of      *)
(* ScheduleService or leaves the schedule alone, so the theorems of        *)
(* ScheduleProofs hold of the composed system with every fault and crash   *)
(* of it.  Then what is                                                    *)
(* true of the host and not only of the rows: every run is watched, runs   *)
(* are exclusive, a dispatch is started once, and which faults each of     *)
(* these needs to be absent.                                               *)
(***************************************************************************)
EXTENDS PlayerHub, ScheduleProofs

(* What the step argument needs of the hub's own state: the answer that    *)
(* waits for its transaction is one the scheduler knows, and a monitor     *)
(* watches a session whose status it can report.                           *)
WellAnswered == call.at = "answered" => call.answer \in Answers
WellReported ==
    /\ \A d \in DOMAIN run : run[d] \in RunActive \cup RunEnded
    /\ DOMAIN monitor \subseteq DOMAIN run

HubInv == WellAnswered /\ WellReported

(* The statuses a monitor reports are statuses record_run_status takes.    *)
LEMMA ReportableStatus == RunActive \cup RunEnded \subseteq RunStatus
BY DEF RunActive, RunEnded, RunStatus

(* Only a dispatch the process has reserved is handed over.                *)
LEMMA HandoverIsReserved == NextHandover(hub) \subseteq reserved[hub]
BY DEF NextHandover

(* The agent is the one process of the schedule.                           *)
LEMMA HubIsProcess == hub \in Procs
BY HubAssumption

(* The hub's own state stays fit to be reported to the schedule.           *)
LEMMA HubInvStep == ASSUME HubInv, [HubNext]_allVars PROVE HubInv'
<1> USE DEF HubInv, WellAnswered, WellReported
<1>1. CASE clock \/ edit \/ restart \/ recover_host_restart \/ catch_up \/ run_once \/ reserve
  BY <1>1 DEF clock, edit, restart, recover_host_restart, catch_up, run_once, reserve, hubVars
<1>2. CASE host_stops \/ agent_ends
  <2>1. call' = NoCall /\ run' = Nothing /\ monitor' = Nothing
    BY <1>2 DEF host_stops, agent_ends, process_ends
  <2> QED BY <2>1 DEF NoCall, Nothing
<1>3. ASSUME NEW d, admit(d) PROVE HubInv'
  <2>1. call'.at = "answered" => call'.answer \in Answers
    BY <1>3 DEF admit, Answered, Answers
  <2> QED BY <1>3, <2>1 DEF admit
<1>4. CASE launch
  <2>1. run' = With(run, call.d, "starting") /\ monitor' = With(monitor, call.d, "none")
    BY <1>4 DEF launch
  <2>2. call'.at = "launched"
    BY <1>4 DEF launch
  <2> QED BY <2>1, <2>2 DEF With, RunActive
<1>5. ASSUME NEW answer \in Refusal, NEW d,
             launch_fails(answer) \/ mark_started_fails(answer) \/ admit_fails(d, answer)
      PROVE  HubInv'
  BY <1>5 DEF launch_fails, LaunchFailed, mark_started_fails, admit_fails, Answered, Answers, Refusal
<1>5a. CASE launch_busy
  BY <1>5a DEF launch_busy, LaunchFailed, Answered, Answers
<1>6. CASE mark_started
  BY <1>6 DEF mark_started, Answered, Answers
<1>7. CASE acknowledge \/ acknowledge_fails
  BY <1>7 DEF acknowledge, acknowledge_fails, NoCall
<1>8. ASSUME NEW d, recover_run(d) \/ recover_run_fails(d) \/ release_target(d) \/ orphan_ends(d)
      PROVE  HubInv'
  BY <1>8 DEF recover_run, recover_run_fails, release_target, orphan_ends
<1>9. ASSUME NEW d, NEW status \in RunActive \cup RunEnded, run_changes(d, status) PROVE HubInv'
  <2>1. run' = With(run, d, status) /\ UNCHANGED <<monitor, call>>
    BY <1>9 DEF run_changes
  <2> QED BY <2>1 DEF With
<1>10. ASSUME NEW d, monitor_reports(d) \/ monitor_fails(d) PROVE HubInv'
  <2>1. d \in DOMAIN monitor /\ UNCHANGED <<run, call>>
    BY <1>10 DEF monitor_reports, monitor_fails, NewsOf
  <2>2. monitor' = Seen(d) \/ monitor' = Without(monitor, d)
    BY <1>10 DEF monitor_reports, monitor_fails
  <2>3. DOMAIN monitor' \subseteq DOMAIN monitor
    BY <2>1, <2>2 DEF Seen, With, Without
  <2> QED BY <2>1, <2>3
<1>11. CASE UNCHANGED allVars
  BY <1>11 DEF allVars, hubVars
<1> QED BY <1>1, <1>2, <1>3, <1>4, <1>5, <1>5a, <1>6, <1>7, <1>8, <1>9, <1>10, <1>11, HubAssumption
           DEF HubNext, Agent, Gateway, OfDispatch

(* Every step of the composed system is a step of the schedule service, or *)
(* one it does not notice.                                                 *)
LEMMA HubStep == ASSUME HubInv, [HubNext]_allVars PROVE [Next]_vars
<1> USE HubIsProcess
<1>1. CASE clock \/ edit
  BY <1>1 DEF clock, edit, Next
<1>2. CASE restart \/ recover_host_restart
  BY <1>2 DEF restart, recover_host_restart
<1>3. CASE catch_up \/ run_once
  <2>1. process_due(hub, "recovery") \/ process_due(hub, "timer")
    BY <1>3 DEF catch_up, run_once
  <2> QED BY <2>1 DEF Next
<1>4. CASE host_stops \/ agent_ends
  <2>1. UNCHANGED vars \/ pump_interrupted(hub)
    BY <1>4 DEF host_stops, agent_ends, process_ends
  <2> QED BY <2>1 DEF Next, Pump
<1>5. CASE reserve
  BY <1>5 DEF reserve, Next, Pump
<1>6. ASSUME NEW d, admit(d) PROVE UNCHANGED vars
  BY <1>6 DEF admit
<1>7. CASE launch \/ launch_busy \/ mark_started
  BY <1>7 DEF launch, launch_busy, LaunchFailed, mark_started
<1>8. ASSUME NEW answer, NEW d,
             launch_fails(answer) \/ mark_started_fails(answer) \/ admit_fails(d, answer)
      PROVE  UNCHANGED vars
  BY <1>8 DEF launch_fails, LaunchFailed, mark_started_fails, admit_fails
<1>9. CASE acknowledge
  <2>1. pump_answer(hub, call.d, call.answer)
    BY <1>9 DEF acknowledge
  <2>2. call.d \in reserved[hub]
    BY <2>1, HandoverIsReserved DEF pump_answer
  <2>3. call.answer \in Answers
    BY <1>9 DEF acknowledge, HubInv, WellAnswered
  <2> QED BY <2>1, <2>2, <2>3 DEF Next, Pump
<1>10. CASE acknowledge_fails
  BY <1>10 DEF acknowledge_fails, Next, Pump
<1>11. ASSUME NEW d \in DOMAIN disp, recover_run(d) PROVE Next
  BY <1>11 DEF recover_run, Next, RunStatus
<1>12. ASSUME NEW d, recover_run_fails(d) \/ release_target(d) \/ orphan_ends(d)
       PROVE  UNCHANGED vars
  BY <1>12 DEF recover_run_fails, release_target, orphan_ends
<1>13. ASSUME NEW d, NEW status, run_changes(d, status) PROVE UNCHANGED vars
  BY <1>13 DEF run_changes
<1>14. ASSUME NEW d \in DOMAIN disp, monitor_reports(d) \/ monitor_fails(d) PROVE [Next]_vars
  <2>1. NewsOf(d)
    BY <1>14 DEF monitor_reports, monitor_fails
  <2>2. run[d] \in RunStatus
    BY <2>1, ReportableStatus DEF NewsOf, HubInv, WellReported
  <2>3. \/ record_run_status(hub, d, run[d])
        \/ record_run_status(hub, d, "failed")
        \/ UNCHANGED vars
    BY <1>14 DEF monitor_reports, monitor_fails
  <2> QED BY <2>2, <2>3 DEF Next, RunStatus
<1>15. CASE UNCHANGED allVars
  BY <1>15 DEF allVars
<1> QED BY <1>1, <1>2, <1>3, <1>4, <1>5, <1>6, <1>7, <1>8, <1>9, <1>10, <1>11, <1>12, <1>13,
           <1>14, <1>15 DEF HubNext, Agent, Gateway, OfDispatch

(* Every step of the Player Hub, its gateway, its launches, its monitors    *)
(* and its restarts takes a step of ScheduleService or leaves its tables    *)
(* alone, so what is proved of the schedule can be used of the hub.         *)
LEMMA HubImplementsSchedule == HubSpec => Spec
<1>1. HubInit => HubInv /\ Init
  BY DEF HubInit, HubInv, WellAnswered, WellReported, NoCall, Nothing
<1>2. HubInv /\ [HubNext]_allVars => HubInv'
  BY HubInvStep
<1>3. HubInv /\ [HubNext]_allVars => [Next]_vars
  BY HubStep
<1> QED BY <1>1, <1>2, <1>3, PTL DEF HubSpec, Spec

(* The agent is the only process, so the rows of the composed system never *)
(* have two dispatches in hand-over or executing on one instance, whatever *)
(* fails and whenever it restarts.                                         *)
THEOREM HubRowsAreSerial == HubSpec => []SerialOccupancy
<1>1. \A p, q \in Procs : p = q
  BY HubAssumption
<1>2. Spec => []SerialOccupancy
  BY <1>1, SerialExecution
<1> QED BY <1>2, HubImplementsSchedule, PTL

(* So do the other invariants of the schedule: whatever the agent, its      *)
(* faults and its restarts do, batches and dispatches agree, a schedule has *)
(* one batch in progress, entries run in order and due points are covered.  *)
THEOREM HubScheduleIsSound ==
    HubSpec => [](BatchAgreement /\ OneOccurrenceAtATime /\ BatchOrder /\ DuePointsPartitioned)
<1>1. \A p, q \in Procs : p = q
  BY HubAssumption
<1>2. Spec => []BatchAgreement /\ []OneOccurrenceAtATime /\ []BatchOrder /\ []DuePointsPartitioned
  BY <1>1, BatchesAgree, OverlapIsBounded, EntriesInOrder, DuePointsAreCovered
<1> QED BY <1>2, HubImplementsSchedule, PTL

----------------------------------------------------------------------------
(* Rows and runs.                                                          *)

\* The call in progress is about a dispatch the pump holds, and what is on disk
\* or in memory belongs to a row.
HubRows ==
    /\ call.at \in {"none", "launching", "launched", "answered"}
    /\ call.at # "none" => call.d \in reserved[hub]
    /\ DOMAIN admission \subseteq DOMAIN disp
    /\ DOMAIN run \subseteq DOMAIN disp
    /\ phase = "down" =>
          reserved[hub] = {} /\ ~owesPump[hub] /\ DOMAIN run = {} /\ DOMAIN monitor = {}

\* The schedule's part of the composition, proved in ScheduleProofs.
HubBase == SerialInv /\ HubInv /\ HubRows

(* What a pump holds has no run yet.                                        *)
LEMMA ReservedRows ==
    ASSUME SerialInv
    PROVE  /\ reserved[hub] \subseteq DOMAIN disp
           /\ \A d \in reserved[hub] :
                 disp[d].status = "dispatching" /\ disp[d].has_run = FALSE
<1>1. hub \in Procs
  BY HubIsProcess
<1>2. reserved[hub] \subseteq DOMAIN disp /\ \A d \in reserved[hub] : disp[d].has_run \in BOOLEAN
  BY <1>1 DEF SerialInv, TypeOK, Dispatch
<1> QED BY <1>1, <1>2, RunStatusSplit DEF SerialInv, HandoverInv, HasRunInv

\* Rows are added without a run; all others are what they were.
RowsAdded ==
    /\ \A d \in DOMAIN disp : d \in DOMAIN disp' /\ disp'[d] = disp[d]
    /\ \A d \in DOMAIN disp' \ DOMAIN disp : disp'[d].has_run = FALSE

\* The row of d gets the status; rows are added without a run.
RowReported(d, status) ==
    /\ d \in DOMAIN disp /\ disp[d].has_run /\ disp[d].status \notin TerminalDispatch
    /\ \A c \in DOMAIN disp : c \in DOMAIN disp' /\ c # d => disp'[c] = disp[c]
    /\ \A c \in DOMAIN disp : c \in DOMAIN disp'
    /\ disp'[d].status = status /\ disp'[d].has_run = TRUE
    /\ \A c \in DOMAIN disp' \ DOMAIN disp : disp'[c].has_run = FALSE
    /\ reserved' = reserved /\ reserved[hub] = {}

(* process_due as the hub sees it.                                          *)
LEMMA HubDue ==
    ASSUME SerialInv, NEW source \in {"timer", "recovery"}, process_due(hub, source), SerialInv'
    PROVE  RowsAdded /\ reserved' = reserved
<1>1. hub \in Procs
  BY HubIsProcess
<1>2. /\ DOMAIN disp \subseteq DOMAIN disp' /\ \A d \in DOMAIN disp : disp'[d] = disp[d]
      /\ \A d \in DOMAIN disp' \ DOMAIN disp : disp'[d].status = "pending" /\ ~disp'[d].has_run
  BY <1>1, ProcessDueType DEF SerialInv
<1>3. \A d \in DOMAIN disp' : disp'[d].has_run \in BOOLEAN
  BY DEF SerialInv, TypeOK, Dispatch
<1>4. reserved' = reserved
  BY DEF process_due
<1> QED BY <1>2, <1>3, <1>4 DEF RowsAdded

(* A report as the hub sees it.                                             *)
LEMMA HubReport ==
    ASSUME SerialInv, NEW d \in DOMAIN disp, NEW status \in RunStatus,
           record_run_status(hub, d, status), SerialInv'
    PROVE  RowReported(d, status)
<1>1. hub \in Procs
  BY HubIsProcess
<1>2. /\ DOMAIN disp \subseteq DOMAIN disp'
      /\ disp'[d].status = status /\ disp'[d].has_run
      /\ \A c \in DOMAIN disp \ {d} : disp'[c] = disp[c]
      /\ \A c \in DOMAIN disp' \ DOMAIN disp : disp'[c].status = "pending" /\ ~disp'[c].has_run
  BY <1>1, ReportStep DEF SerialInv
<1>3. \A c \in DOMAIN disp' : disp'[c].has_run \in BOOLEAN
  BY DEF SerialInv, TypeOK, Dispatch
<1>4. /\ disp[d].has_run /\ disp[d].status \notin TerminalDispatch
      /\ reserved' = reserved /\ reserved[hub] = {}
  BY DEF record_run_status, LockFree
<1> QED BY <1>2, <1>3, <1>4 DEF RowReported

(* The first transaction of pump as the hub sees it.                        *)
LEMMA HubReserve ==
    ASSUME SerialInv, pump_reserve(hub), SerialInv'
    PROVE  /\ DOMAIN disp \subseteq DOMAIN disp'
           /\ reserved[hub] = {} /\ owesPump[hub]
           /\ \A d \in DOMAIN disp' : disp'[d].has_run =>
                 d \in DOMAIN disp /\ disp[d].has_run /\ disp'[d] = disp[d]
           /\ \A d \in DOMAIN disp : disp[d].has_run => disp'[d] = disp[d]
<1>1. hub \in Procs
  BY HubIsProcess
<1>2. /\ DOMAIN disp \subseteq DOMAIN disp'
      /\ \A d \in DOMAIN disp' : disp'[d].has_run =>
            d \in DOMAIN disp /\ disp[d].has_run /\ disp'[d] = disp[d]
      /\ \A d \in DOMAIN disp :
            disp[d].status \notin {"pending", "queued", "dispatching"} => disp'[d] = disp[d]
  BY <1>1, ReserveStep DEF SerialInv
<1>3. \A d \in DOMAIN disp : disp[d].has_run => disp'[d] = disp[d]
  BY <1>2, RunStatusSplit DEF SerialInv, HasRunInv
<1> QED BY <1>2, <1>3 DEF pump_reserve, LockFree

(* The answer's transaction as the hub sees it.                             *)
LEMMA HubAnswer ==
    ASSUME SerialInv, NEW d, NEW answer \in Answers, pump_answer(hub, d, answer)
    PROVE  /\ d \in DOMAIN disp /\ d \in reserved[hub] /\ DOMAIN disp' = DOMAIN disp
           /\ disp'[d].status = StatusAfterAnswer(answer)
           /\ disp'[d].has_run = (answer = "accepted")
           /\ \A c \in DOMAIN disp : c # d => disp'[c] = disp[c]
<1>1. d \in reserved[hub]
  BY HandoverIsReserved DEF pump_answer
<1>2. d \in DOMAIN disp /\ disp[d].has_run = FALSE
  BY <1>1, ReservedRows
<1>3. disp[d] \in Dispatch
  BY <1>2 DEF SerialInv, TypeOK
<1> QED BY <1>1, <1>2, <1>3 DEF pump_answer, Dispatch

(* The inductive step of HubRows, with every fault.                         *)
LEMMA HubRowsStep ==
    ASSUME HubBase, [HubNext]_allVars, SerialInv'
    PROVE  HubRows'
<1> USE DEF HubBase, HubRows
<1>0. hub \in Procs /\ reserved \in [Procs -> SUBSET DOMAIN disp]
  BY HubIsProcess DEF SerialInv, TypeOK
<1>1. CASE clock \/ edit \/ UNCHANGED allVars
  BY <1>1 DEF clock, edit, Tick, SetClockBack, Edit, create_plan, update_plan, delete_plan,
             hubVars, allVars, vars, database
<1>2. CASE restart \/ recover_host_restart
  BY <1>2 DEF restart, recover_host_restart, vars
<1>3. CASE catch_up \/ run_once
  <2>1. RowsAdded /\ reserved' = reserved
    BY <1>3, HubDue DEF catch_up, run_once
  <2>2. phase' = "running" /\ UNCHANGED <<admission, call, run, monitor>>
    BY <1>3 DEF catch_up, run_once
  <2> QED BY <2>1, <2>2 DEF RowsAdded
<1>4. CASE host_stops \/ agent_ends
  <2>1. /\ call' = NoCall /\ run' = Nothing /\ monitor' = Nothing /\ admission' = admission
        /\ disp' = disp
    BY <1>4 DEF host_stops, agent_ends, process_ends, pump_interrupted, vars, database
  <2>2. reserved'[hub] = {} /\ ~owesPump'[hub]
    BY <1>0, <1>4 DEF host_stops, agent_ends, process_ends, pump_interrupted, vars, database,
                      LockFree, SerialInv, TypeOK
  <2> QED BY <2>1, <2>2 DEF NoCall, Nothing
<1>5. CASE reserve
  <2>1. DOMAIN disp \subseteq DOMAIN disp' /\ reserved[hub] = {}
    BY <1>5, HubReserve DEF reserve
  <2>2. phase # "down" /\ UNCHANGED <<phase, admission, call, run, monitor>>
    BY <1>5 DEF reserve, hubVars
  <2> QED BY <2>1, <2>2
<1>6. ASSUME NEW d \in reserved[hub], admit(d) PROVE HubRows'
  <2>1. d \in DOMAIN disp /\ phase # "down"
    BY <1>0
  <2>2. DOMAIN admission' \subseteq DOMAIN disp
    BY <1>6, <2>1 DEF admit, With
  <2>3. call'.at \in {"launching", "answered"} /\ call'.d = d
    BY <1>6 DEF admit, Answered
  <2> QED BY <1>6, <2>1, <2>2, <2>3 DEF admit, vars
<1>7. CASE launch
  <2>1. call.d \in reserved[hub] /\ call.d \in DOMAIN disp /\ phase # "down"
    BY <1>0, <1>7 DEF launch
  <2>2. DOMAIN run' \subseteq DOMAIN disp
    BY <1>7, <2>1 DEF launch, With
  <2>3. call'.at = "launched" /\ call'.d = call.d
    BY <1>7 DEF launch
  <2> QED BY <1>7, <2>1, <2>2, <2>3 DEF launch, vars
<1>8. ASSUME NEW answer, LaunchFailed(answer), call.at = "launching" PROVE HubRows'
  <2>1. call.d \in reserved[hub] /\ call.d \in DOMAIN disp /\ phase # "down"
    BY <1>0, <1>8
  <2>2. DOMAIN admission' \subseteq DOMAIN disp
    BY <1>8, <2>1 DEF LaunchFailed, With
  <2>3. call'.at = "answered" /\ call'.d = call.d
    BY <1>8 DEF LaunchFailed, Answered
  <2> QED BY <1>8, <2>1, <2>2, <2>3 DEF LaunchFailed, vars
<1>9. ASSUME NEW answer, mark_started \/ mark_started_fails(answer) PROVE HubRows'
  <2>1. call.d \in reserved[hub] /\ call.d \in DOMAIN disp /\ phase # "down"
    BY <1>0, <1>9 DEF mark_started, mark_started_fails
  <2>2. DOMAIN admission' \subseteq DOMAIN disp
    BY <1>9, <2>1 DEF mark_started, mark_started_fails, With
  <2>3. call'.at = "answered" /\ call'.d = call.d
    BY <1>9 DEF mark_started, mark_started_fails, Answered
  <2> QED BY <1>9, <2>1, <2>2, <2>3 DEF mark_started, mark_started_fails, vars
<1>10. ASSUME NEW answer, NEW d \in reserved[hub], admit_fails(d, answer) PROVE HubRows'
  <2>1. phase # "down"
    BY <1>10
  <2>2. call'.at = "answered" /\ call'.d = d
    BY <1>10 DEF admit_fails, Answered
  <2> QED BY <1>10, <2>1, <2>2 DEF admit_fails, vars
<1>11. CASE acknowledge
  <2>1. DOMAIN disp' = DOMAIN disp /\ call.d \in reserved[hub]
    BY <1>11, HubAnswer DEF acknowledge, HubInv, WellAnswered
  <2>2. phase # "down" /\ phase' = phase /\ call' = NoCall /\ UNCHANGED <<admission, run, monitor>>
    BY <1>11, <2>1 DEF acknowledge
  <2> QED BY <2>1, <2>2 DEF NoCall
<1>12. CASE acknowledge_fails
  <2>1. phase # "down"
    BY <1>12 DEF acknowledge_fails
  <2> QED BY <1>12, <2>1 DEF acknowledge_fails, NoCall, pump_interrupted, database
<1>13. ASSUME NEW d \in DOMAIN disp, NEW status \in RunStatus, RowReported(d, status),
              phase # "down", phase' = phase, UNCHANGED <<admission, call, run>>
       PROVE  HubRows'
  BY <1>13 DEF RowReported
<1>14. ASSUME NEW d \in DOMAIN disp, recover_run(d) PROVE HubRows'
  <2>1. RowReported(d, "failed")
    BY <1>14, HubReport DEF recover_run, RunStatus
  <2> QED BY <1>13, <1>14, <2>1 DEF recover_run, RunStatus
<1>15. ASSUME NEW d, recover_run_fails(d) \/ release_target(d) \/ orphan_ends(d)
       PROVE  HubRows'
  BY <1>15 DEF recover_run_fails, release_target, orphan_ends, vars
<1>16. ASSUME NEW d, NEW status, run_changes(d, status) PROVE HubRows'
  <2>1. d \in DOMAIN run /\ DOMAIN run' = DOMAIN run
    BY <1>16 DEF run_changes, IsActive, With
  <2> QED BY <1>16, <2>1 DEF run_changes, vars
<1>17. ASSUME NEW d \in DOMAIN disp, monitor_reports(d) \/ monitor_fails(d) PROVE HubRows'
  <2>1. /\ d \in DOMAIN monitor /\ phase # "down" /\ run[d] \in RunStatus
        /\ UNCHANGED <<phase, admission, call, run>>
    BY <1>17, ReportableStatus DEF monitor_reports, monitor_fails, NewsOf, HubInv, WellReported
  <2>2. \/ record_run_status(hub, d, run[d])
        \/ record_run_status(hub, d, "failed")
        \/ UNCHANGED vars
    BY <1>17 DEF monitor_reports, monitor_fails
  <2>3. CASE record_run_status(hub, d, run[d])
    BY <1>13, <2>1, <2>3, HubReport
  <2>4. CASE record_run_status(hub, d, "failed")
    BY <1>13, <2>1, <2>4, HubReport DEF RunStatus
  <2>5. CASE UNCHANGED vars
    BY <2>1, <2>5 DEF vars
  <2> QED BY <2>2, <2>3, <2>4, <2>5
<1> QED BY <1>1, <1>2, <1>3, <1>4, <1>5, <1>6, <1>7, <1>8, <1>9, <1>10, <1>11, <1>12, <1>14, <1>15,
           <1>16, <1>17
        DEF HubNext, Agent, Gateway, OfDispatch, launch_busy, launch_fails

(* The base of what follows: the schedule's invariants and the hub's rows.  *)
LEMMA HubBaseInvariant == HubSpec => []HubBase
<1>1. \A p, q \in Procs : p = q
  BY HubAssumption
<1>2. Spec => []SerialInv
  BY <1>1, SerialInvariant
<1>3. HubSpec => []SerialInv
  BY <1>2, HubImplementsSchedule, PTL
<1>4. HubInit => HubInv /\ HubRows
  <2> SUFFICES ASSUME HubInit PROVE HubInv /\ HubRows
    OBVIOUS
  <2>1. call = NoCall /\ run = Nothing /\ monitor = Nothing /\ admission = Nothing /\ phase = "recovering"
    BY DEF HubInit
  <2> QED BY <2>1 DEF HubInv, HubRows, WellAnswered, WellReported, NoCall, Nothing
<1>5. HubInv /\ [HubNext]_allVars => HubInv'
  BY HubInvStep
<1>6. SerialInv /\ SerialInv' /\ HubInv /\ HubRows /\ [HubNext]_allVars => HubRows'
  BY HubRowsStep DEF HubBase
<1> QED BY <1>3, <1>4, <1>5, <1>6, PTL DEF HubSpec, HubBase

----------------------------------------------------------------------------
(* Runs and monitors.                                                      *)

\* The gateway's answer in progress is that the run was started.
CallAccepted == call.at = "answered" /\ call.answer = "accepted"

\* What record_run_status takes a report for.
Unfinished(d) == disp[d].has_run /\ disp[d].status \notin TerminalDispatch

\* The gateway has started d and the schedule does not know the run yet.
Unstored(d) == StartedBefore(d) /\ ~disp[d].has_run

\* Nothing has run since the process stopped, and nothing will before the
\* gateway has forgotten what it started.
Quiet ==
    /\ DOMAIN monitor = {}
    /\ \/ phase = "down"
       \/ phase = "recovering" /\ toFail = {} /\ ~owesPump[hub] /\ reserved[hub] = {}

CrashesCounted ==
    /\ crashes \in Nat
    /\ crashes <= MaxCrashes
    /\ phase = "down" => crashes > 0

\* An unfinished run has a monitor or waits for the recovery to fail it; a
\* start whose answer is not stored has a monitor while the call lasts, and is
\* cut off by a crash only.
WatchInv ==
    /\ CrashesCounted
    /\ \A d \in DOMAIN disp :
          Unfinished(d) =>
             d \in DOMAIN monitor \/ phase = "down" \/ (phase = "recovering" /\ d \in toFail)
    /\ call.at = "launched" \/ CallAccepted => call.d \in DOMAIN monitor
    /\ \A d \in DOMAIN admission :
          Unstored(d) =>
             (CallAccepted /\ call.d = d) \/ (disp[d].status = "dispatching" /\ Quiet)

(* A stop of the process is counted.                                        *)
LEMMA CrashesCountedStep ==
    ASSUME CrashesCounted, [HubNext]_allVars
    PROVE  CrashesCounted'
<1> USE DEF CrashesCounted
<1>1. CASE host_stops \/ agent_ends
  BY <1>1, HubAssumption DEF host_stops, agent_ends, process_ends
<1>2. ASSUME UNCHANGED crashes, phase' = phase \/ phase' # "down" PROVE CrashesCounted'
  BY <1>2
<1>3. CASE clock \/ edit \/ restart \/ recover_host_restart \/ catch_up \/ run_once \/ reserve
           \/ launch \/ launch_busy \/ mark_started \/ acknowledge \/ acknowledge_fails
  BY <1>2, <1>3 DEF clock, edit, restart, recover_host_restart, catch_up, run_once, reserve, launch,
     launch_busy, LaunchFailed, mark_started, acknowledge, acknowledge_fails, hubVars
<1>4. ASSUME NEW d, NEW answer, NEW status,
             \/ admit(d) \/ admit_fails(d, answer) \/ launch_fails(answer)
             \/ mark_started_fails(answer) \/ recover_run(d) \/ recover_run_fails(d)
             \/ run_changes(d, status) \/ release_target(d) \/ orphan_ends(d)
             \/ monitor_reports(d) \/ monitor_fails(d)
      PROVE  CrashesCounted'
  BY <1>2, <1>4 DEF admit, admit_fails, launch_fails, LaunchFailed, mark_started_fails, recover_run,
     recover_run_fails, run_changes, release_target, orphan_ends, monitor_reports, monitor_fails
<1>5. CASE UNCHANGED allVars
  BY <1>2, <1>5 DEF allVars, hubVars
<1> QED BY <1>1, <1>3, <1>4, <1>5 DEF HubNext, Agent, Gateway, OfDispatch

(* With one instance, a dispatch whose answer a crash cut off leaves no     *)
(* interrupted run behind which its hand-over could be retried.             *)
LEMMA CutOffIsAlone ==
    ASSUME HubBase, \A i, j \in Instances : i = j,
           NEW d \in DOMAIN disp, disp[d].status = "dispatching", ~disp[d].has_run
    PROVE  Interrupted = {}
<1> SUFFICES ASSUME NEW c \in Interrupted PROVE FALSE
  OBVIOUS
<1>1. c \in DOMAIN disp /\ disp[c].has_run /\ disp[c].status \in Occupying
  BY DEF Interrupted
<1>2. disp[c].entry \in PlanEntry /\ disp[d].entry \in PlanEntry
  BY <1>1 DEF HubBase, SerialInv, TypeOK, Dispatch
<1>3. Instance(c, disp) \in Instances /\ Instance(d, disp) \in Instances
  BY <1>2 DEF Instance, PlanEntry
<1>4. disp[d].status \in Occupying
  BY DEF Occupying
<1>5. c = d
  BY <1>1, <1>3, <1>4 DEF HubBase, SerialInv, SerialOccupancy
<1> QED BY <1>1, <1>5

(* The inductive step of WatchInv.                                          *)
LEMMA WatchStep ==
    ASSUME HubBase, HubBase', WatchInv, [HubNext]_allVars,
           Faults \cap {"ack", "report"} = {},
           (\A i, j \in Instances : i = j) \/ MaxCrashes = 0
    PROVE  WatchInv'
<1>0. /\ "ack" \notin Faults /\ "report" \notin Faults
      /\ hub \in Procs /\ reserved \in [Procs -> SUBSET DOMAIN disp]
      /\ owesPump \in [Procs -> BOOLEAN]
      /\ SerialInv /\ SerialInv' /\ HubRows /\ HubRows'
  BY HubIsProcess DEF HubBase, SerialInv, TypeOK
<1>c. CrashesCounted /\ CrashesCounted'
  BY CrashesCountedStep DEF WatchInv
<1> USE DEF WatchInv, Unstored, StartedBefore, Unfinished, CallAccepted
<1>h. ASSUME reserved[hub] # {} PROVE ~Quiet
  BY <1>0, <1>h DEF Quiet, HubRows
<1>n. ASSUME ~Quiet, ~CallAccepted PROVE \A d \in DOMAIN admission : ~Unstored(d)
  BY <1>n
<1>l. ASSUME reserved[hub] = {} PROVE call.at = "none"
  BY <1>0, <1>l DEF HubRows
<1>1. CASE clock \/ edit \/ UNCHANGED allVars
  <2>1. UNCHANGED <<disp, reserved, owesPump, hubVars>>
    BY <1>1 DEF clock, edit, Tick, SetClockBack, Edit, create_plan, update_plan, delete_plan,
                allVars, vars, database
  <2> QED BY <1>c, <2>1 DEF hubVars, Quiet
<1>2. CASE restart
  <2>1. /\ phase = "down" /\ phase' = "recovering" /\ toFail' = Interrupted
        /\ UNCHANGED <<disp, reserved, owesPump, admission, call, monitor>>
    BY <1>2 DEF restart, vars
  <2>2. reserved[hub] = {} /\ ~owesPump[hub] /\ DOMAIN monitor = {} /\ call.at = "none"
    BY <1>0, <1>l, <2>1 DEF HubRows
  <2>3. ASSUME NEW d \in DOMAIN disp, Unfinished(d) PROVE d \in Interrupted
    <3>1. disp[d].status \in RunStatus \ TerminalDispatch
      BY <1>0, <2>3 DEF SerialInv, HasRunInv
    <3>2. disp[d].status \in Occupying \ {"dispatching"}
      BY <3>1, RunStatusSplit
    <3> QED BY <2>3, <3>2 DEF Interrupted
  <2>4. ASSUME NEW d \in DOMAIN admission, Unstored(d)
        PROVE  disp[d].status = "dispatching" /\ Interrupted = {}
    <3>1. d \in DOMAIN disp /\ disp[d].status = "dispatching" /\ ~disp[d].has_run
      BY <1>0, <2>2, <2>4 DEF HubRows
    <3>2. \A i, j \in Instances : i = j
      BY <1>c, <2>1, HubAssumption DEF CrashesCounted
    <3> QED BY <3>1, <3>2, CutOffIsAlone
  <2> QED BY <1>c, <2>1, <2>2, <2>3, <2>4 DEF Quiet
<1>3. CASE recover_host_restart
  <2>1. /\ phase = "recovering" /\ toFail = {} /\ call = NoCall
        /\ UNCHANGED <<disp, call, monitor>>
        /\ \A d \in DOMAIN admission' : admission'[d].status = "launch_failed"
    BY <1>3 DEF recover_host_restart, vars
  <2> QED BY <1>c, <2>1 DEF NoCall
<1>4. CASE catch_up \/ run_once
  <2>1. RowsAdded /\ reserved[hub] = {}
    BY <1>0, <1>4, HubDue DEF catch_up, run_once, process_due, LockFree
  <2>2. phase \in {"catching_up", "running"} /\ UNCHANGED <<admission, call, monitor>>
    BY <1>4 DEF catch_up, run_once
  <2>3. \A d \in DOMAIN admission : ~Unstored(d) /\ d \in DOMAIN disp
    BY <1>0, <1>l, <1>n, <2>1, <2>2 DEF Quiet, HubRows
  <2>4. \A d \in DOMAIN admission' : ~Unstored(d)'
    BY <2>1, <2>2, <2>3 DEF RowsAdded
  <2>5. \A d \in DOMAIN disp' : Unfinished(d)' => d \in DOMAIN disp /\ Unfinished(d)
    BY <2>1 DEF RowsAdded
  <2>6. call'.at = "none"
    BY <1>l, <2>1, <2>2
  <2> QED BY <1>c, <2>2, <2>4, <2>5, <2>6
<1>5. CASE host_stops \/ agent_ends
  <2>1. /\ call' = NoCall /\ monitor' = Nothing /\ phase' = "down"
        /\ UNCHANGED <<disp, admission>>
    BY <1>5 DEF host_stops, agent_ends, process_ends, pump_interrupted, vars, database
  <2>2. ASSUME NEW d \in DOMAIN admission, Unstored(d) PROVE disp[d].status = "dispatching"
    <3>1. CASE CallAccepted /\ call.d = d
      BY <1>0, <3>1, ReservedRows DEF HubRows
    <3> QED BY <2>2, <3>1
  <2> QED BY <1>c, <2>1, <2>2 DEF NoCall, Nothing, Quiet
<1>6. CASE reserve
  <2>1. /\ DOMAIN disp \subseteq DOMAIN disp' /\ reserved[hub] = {} /\ owesPump[hub]
        /\ \A d \in DOMAIN disp' : disp'[d].has_run =>
              d \in DOMAIN disp /\ disp[d].has_run /\ disp'[d] = disp[d]
        /\ \A d \in DOMAIN disp : disp[d].has_run => disp'[d] = disp[d]
    BY <1>0, <1>6, HubReserve DEF reserve
  <2>2. phase # "down" /\ UNCHANGED <<phase, toFail, admission, call, monitor>>
    BY <1>6 DEF reserve, hubVars
  <2>3. \A d \in DOMAIN admission : ~Unstored(d) /\ d \in DOMAIN disp
    BY <1>0, <1>l, <1>n, <2>1, <2>2 DEF Quiet, HubRows
  <2>4. \A d \in DOMAIN admission' : ~Unstored(d)'
    BY <2>1, <2>2, <2>3
  <2>5. \A d \in DOMAIN disp' : Unfinished(d)' => d \in DOMAIN disp /\ Unfinished(d)
    BY <2>1
  <2>6. call'.at = "none"
    BY <1>l, <2>1, <2>2
  <2> QED BY <1>c, <2>2, <2>4, <2>5, <2>6

<1>7. ASSUME NEW d \in reserved[hub], admit(d) PROVE WatchInv'
  <2>1. /\ UNCHANGED <<disp, phase, toFail, monitor>> /\ call = NoCall
    BY <1>7 DEF admit, vars
  <2>2. \A c \in DOMAIN admission : ~Unstored(c)
    BY <1>h, <1>n, <2>1 DEF NoCall
  <2>3. ~StartedBefore(d)
    BY <1>0, <2>2, ReservedRows
  <2>4. \/ call' = Answered(d, "transient") /\ UNCHANGED admission
        \/ /\ admission' = With(admission, d, [status |-> "launching", lease_until |-> now + Lease])
           /\ call' = [at |-> "launching", d |-> d]
    BY <1>7, <2>3 DEF admit
  <2>5. \A c \in DOMAIN admission' : ~Unstored(c)'
    BY <2>1, <2>2, <2>4 DEF With
  <2>6. ~(call'.at = "launched") /\ ~CallAccepted'
    BY <2>4 DEF Answered
  <2> QED BY <1>c, <2>1, <2>5, <2>6
<1>8. ASSUME NEW d \in reserved[hub], NEW answer \in Refusal, admit_fails(d, answer) PROVE WatchInv'
  <2>1. UNCHANGED <<disp, phase, toFail, monitor, admission>> /\ call = NoCall
    BY <1>8 DEF admit_fails, vars
  <2>2. \A c \in DOMAIN admission : ~Unstored(c)
    BY <1>h, <1>n, <2>1 DEF NoCall
  <2>3. ~(call'.at = "launched") /\ ~CallAccepted'
    BY <1>8 DEF admit_fails, Answered, Refusal
  <2> QED BY <1>c, <2>1, <2>2, <2>3
<1>9. CASE launch
  <2>1. /\ UNCHANGED <<disp, phase, toFail, admission>> /\ call.at = "launching"
        /\ call' = [at |-> "launched", d |-> call.d]
        /\ DOMAIN monitor' = DOMAIN monitor \cup {call.d}
    BY <1>9 DEF launch, vars, With
  <2>2. reserved[hub] # {}
    BY <1>0, <2>1 DEF HubRows
  <2>3. \A c \in DOMAIN admission : ~Unstored(c)
    BY <1>h, <1>n, <2>1, <2>2
  <2> QED BY <1>c, <2>1, <2>3
<1>10. ASSUME NEW answer \in Refusal, LaunchFailed(answer), call.at = "launching" PROVE WatchInv'
  <2>1. UNCHANGED <<disp, phase, toFail, monitor>> /\ reserved[hub] # {}
    BY <1>0, <1>10 DEF LaunchFailed, vars, HubRows
  <2>2. \A c \in DOMAIN admission : ~Unstored(c)
    BY <1>h, <1>n, <1>10, <2>1
  <2>3. \A c \in DOMAIN admission' : ~Unstored(c)'
    BY <1>10, <2>1, <2>2 DEF LaunchFailed, With
  <2>4. ~(call'.at = "launched") /\ ~CallAccepted'
    BY <1>10 DEF LaunchFailed, Answered, Refusal
  <2> QED BY <1>c, <2>1, <2>3, <2>4
<1>11. ASSUME NEW answer \in Refusal, mark_started \/ mark_started_fails(answer) PROVE WatchInv'
  <2>1. /\ UNCHANGED <<disp, phase, toFail, monitor>> /\ call.at = "launched"
        /\ call'.at = "answered" /\ call'.d = call.d
    BY <1>11 DEF mark_started, mark_started_fails, vars, Answered
  <2>2. reserved[hub] # {} /\ call.d \in DOMAIN monitor
    BY <1>0, <2>1 DEF HubRows
  <2>3. \A c \in DOMAIN admission : ~Unstored(c)
    BY <1>h, <1>n, <2>1, <2>2
  <2>4. \A c \in DOMAIN admission' : Unstored(c)' => mark_started /\ c = call.d
    BY <1>11, <2>1, <2>3 DEF mark_started, mark_started_fails, With
  <2>5. mark_started => CallAccepted'
    BY DEF mark_started, Answered
  <2> QED BY <1>c, <2>1, <2>2, <2>4, <2>5
<1>12. CASE acknowledge
  <2>1. /\ call.at = "answered" /\ pump_answer(hub, call.d, call.answer) /\ call' = NoCall
        /\ UNCHANGED <<phase, toFail, admission, monitor>>
    BY <1>12 DEF acknowledge
  <2>2. call.answer \in Answers
    BY <2>1 DEF HubBase, HubInv, WellAnswered
  <2>3. PICK d : d = call.d
    OBVIOUS
  <2>4. /\ d \in DOMAIN disp /\ d \in reserved[hub] /\ DOMAIN disp' = DOMAIN disp
        /\ disp'[d].has_run = (call.answer = "accepted")
        /\ \A c \in DOMAIN disp : c # d => disp'[c] = disp[c]
    BY <1>0, <2>1, <2>2, <2>3, HubAnswer
  <2>5. disp'[d].has_run <=> CallAccepted
    <3>1. disp'[d].has_run <=> (call.answer = "accepted")
      BY <2>4, Zenon
    <3> QED BY <2>1, <3>1
  <2>6. \A c \in DOMAIN admission : Unstored(c) => CallAccepted /\ c = d
    BY <1>h, <2>3, <2>4
  <2>7. ASSUME NEW c \in DOMAIN admission' PROVE ~Unstored(c)'
    <3>1. CASE c = d
      BY <1>0, <2>1, <2>4, <2>5, <2>6, <2>7, <3>1, ReservedRows
    <3>2. CASE c # d
      BY <1>0, <2>1, <2>4, <2>6, <2>7, <3>2 DEF HubRows
    <3> QED BY <3>1, <3>2
  <2>8. Unfinished(d)' => d \in DOMAIN monitor
    BY <2>3, <2>5
  <2>9. \A c \in DOMAIN disp : c # d /\ Unfinished(c)' => Unfinished(c)
    BY <2>4
  <2> QED BY <1>c, <2>1, <2>4, <2>7, <2>8, <2>9 DEF NoCall
<1>13. ASSUME NEW d \in DOMAIN disp, recover_run(d) PROVE WatchInv'
  <2>1. RowReported(d, "failed")
    BY <1>0, <1>13, HubReport DEF recover_run, RunStatus
  <2>2. d \in toFail /\ toFail' = toFail \ {d} /\ UNCHANGED <<phase, admission, call, monitor>>
    BY <1>13 DEF recover_run
  <2>3. call.at = "none"
    BY <1>l, <2>1 DEF RowReported
  <2>3a. phase # "down"
    BY <1>13 DEF recover_run
  <2>4. \A c \in DOMAIN admission : ~Unstored(c) /\ c \in DOMAIN disp
    BY <1>0, <1>n, <2>2, <2>3, <2>3a DEF Quiet, HubRows
  <2>5. \A c \in DOMAIN admission' : ~Unstored(c)'
    BY <2>1, <2>2, <2>4 DEF RowReported
  <2>6. \A c \in DOMAIN disp' : Unfinished(c)' => c \in DOMAIN disp /\ c # d /\ Unfinished(c)
    BY <2>1 DEF RowReported, TerminalDispatch
  <2> QED BY <1>c, <2>2, <2>3, <2>5, <2>6
<1>14. ASSUME NEW d, release_target(d) \/ orphan_ends(d) PROVE WatchInv'
  <2>1. UNCHANGED <<disp, reserved, owesPump, phase, toFail, admission, call, monitor>>
    BY <1>14 DEF release_target, orphan_ends, vars
  <2> QED BY <1>c, <2>1 DEF Quiet
<1>15. ASSUME NEW d, NEW status, run_changes(d, status) PROVE WatchInv'
  <2>1. UNCHANGED <<disp, reserved, owesPump, phase, toFail, admission, call, monitor>>
    BY <1>15 DEF run_changes, vars
  <2> QED BY <1>c, <2>1 DEF Quiet
<1>16. ASSUME NEW d \in DOMAIN disp, monitor_reports(d) PROVE WatchInv'
  <2>1. /\ d \in DOMAIN monitor /\ reserved[hub] = {} /\ run[d] \in RunActive \cup RunEnded
        /\ UNCHANGED <<phase, toFail, admission, call>>
    BY <1>16 DEF monitor_reports, NewsOf, LockFree, HubBase, HubInv, WellReported
  <2>2. call.at = "none"
    BY <1>l, <2>1
  <2>3. \A c \in DOMAIN admission : ~Unstored(c) /\ c \in DOMAIN disp
    BY <1>0, <1>n, <2>1, <2>2 DEF Quiet, HubRows
  <2>4. /\ Without(monitor, d) = monitor' => DOMAIN monitor' = DOMAIN monitor \ {d}
        /\ monitor' = Seen(d) => DOMAIN monitor' = DOMAIN monitor \ {d} \/ DOMAIN monitor' = DOMAIN monitor
        /\ monitor' = Seen(d) /\ run[d] \notin RunEnded => DOMAIN monitor' = DOMAIN monitor
    BY <2>1 DEF Seen, Without, With
  <2>5. CASE disp[d].has_run /\ disp[d].status \notin TerminalDispatch
    <3>1. record_run_status(hub, d, run[d]) /\ monitor' = Seen(d)
      BY <1>16, <2>5 DEF monitor_reports
    <3>2. RowReported(d, run[d])
      BY <1>0, <2>1, <3>1, HubReport, ReportableStatus
    <3>3. \A c \in DOMAIN admission' : ~Unstored(c)'
      BY <2>1, <2>3, <3>2 DEF RowReported
    <3>4. \A c \in DOMAIN disp' : Unfinished(c)' => c \in DOMAIN disp /\ Unfinished(c)
      BY <2>5, <3>2 DEF RowReported
    <3>5. Unfinished(d)' => d \in DOMAIN monitor'
      <4>1. run[d] \in RunEnded => run[d] \in TerminalDispatch
        BY DEF RunEnded, TerminalDispatch
      <4> QED BY <2>1, <2>4, <3>1, <3>2, <4>1 DEF RowReported
    <3>6. \A c \in DOMAIN monitor : c # d => c \in DOMAIN monitor'
      BY <2>4, <3>1
    <3> QED BY <1>c, <2>1, <2>2, <3>3, <3>4, <3>5, <3>6
  <2>6. CASE ~(disp[d].has_run /\ disp[d].status \notin TerminalDispatch)
    <3>1. UNCHANGED disp /\ (monitor' = Seen(d) \/ monitor' = Without(monitor, d))
      BY <1>16, <2>6 DEF monitor_reports, vars
    <3>2. \A c \in DOMAIN monitor : c # d => c \in DOMAIN monitor'
      BY <2>4, <3>1
    <3>3. \A c \in DOMAIN admission' : ~Unstored(c)'
      BY <2>1, <2>3, <3>1
    <3> QED BY <1>c, <2>1, <2>2, <2>6, <3>1, <3>2, <3>3
  <2> QED BY <2>5, <2>6
<1>17. ASSUME NEW d, recover_run_fails(d) \/ monitor_fails(d) \/ acknowledge_fails PROVE FALSE
  BY <1>0, <1>17 DEF recover_run_fails, monitor_fails, acknowledge_fails
<1>18. launch_busy => LaunchFailed("permanent") /\ call.at = "launching" /\ "permanent" \in Refusal
  BY DEF launch_busy, Refusal
<1>19. \A answer \in LaunchFailures : launch_fails(answer) =>
          LaunchFailed(answer) /\ call.at = "launching" /\ answer \in Refusal
  BY HubAssumption DEF launch_fails
<1>20. "permanent" \in Refusal
  BY DEF Refusal
<1> QED BY <1>1, <1>2, <1>3, <1>4, <1>5, <1>6, <1>7, <1>8, <1>9, <1>10, <1>11, <1>12, <1>13, <1>14,
           <1>15, <1>16, <1>17, <1>18, <1>19, <1>20
        DEF HubNext, Agent, Gateway, OfDispatch

(* While the scheduler's answer and the monitors' reports are written, and  *)
(* one instance is scheduled or the process does not stop, no row stays     *)
(* occupied by a run nobody watches: RunsAreWatched of the Hub's loop, its  *)
(* recovery and its monitors (core/vnext/schedule_hub_v6.py).               *)
THEOREM WatchedRuns ==
    ASSUME Faults \cap {"ack", "report"} = {},
           (\A i, j \in Instances : i = j) \/ MaxCrashes = 0
    PROVE  HubSpec => []RunsAreWatched
<1>1. HubInit => WatchInv
  <2> SUFFICES ASSUME HubInit PROVE WatchInv
    OBVIOUS
  <2>1. /\ call = NoCall /\ admission = Nothing /\ phase = "recovering" /\ crashes = 0
        /\ DOMAIN disp = {}
    BY DEF HubInit, Init
  <2> QED BY <2>1, HubAssumption DEF WatchInv, CrashesCounted, CallAccepted, NoCall, Nothing
<1>2. HubBase /\ HubBase' /\ WatchInv /\ [HubNext]_allVars => WatchInv'
  BY WatchStep
<1>3. WatchInv => RunsAreWatched
  BY DEF WatchInv, Unfinished, RunsAreWatched
<1> QED BY <1>1, <1>2, <1>3, HubBaseInvariant, PTL DEF HubSpec

----------------------------------------------------------------------------
(* Runs on the host.                                                       *)

\* The call in progress has started d.
JustStarted(d) ==
    call.at # "none" /\ call.d = d /\ (call.at = "launched" \/ CallAccepted)

\* Whatever executes is known to the schedule as unfinished, or the call that
\* started it is still to be answered; the recovery never fails a row whose
\* run still executes.
ExclusiveInv ==
    /\ orphans = {}
    /\ \A d \in toFail : d \in DOMAIN disp /\ disp[d].has_run
    /\ \A d \in DOMAIN run :
          IsActive(d) => d \notin toFail /\ (Unfinished(d) \/ JustStarted(d))

(* The inductive step of ExclusiveInv.                                      *)
LEMMA ExclusiveStep ==
    ASSUME HubBase, ExclusiveInv, [HubNext]_allVars, SerialInv', Faults = {}, ~AgentAlone
    PROVE  ExclusiveInv'
<1>0. /\ hub \in Procs /\ reserved \in [Procs -> SUBSET DOMAIN disp]
      /\ SerialInv /\ SerialInv' /\ HubRows
  BY HubIsProcess DEF HubBase, SerialInv, TypeOK
<1> USE DEF ExclusiveInv, JustStarted, CallAccepted
<1>l. ASSUME reserved[hub] = {} PROVE call.at = "none"
  BY <1>0, <1>l DEF HubRows
<1>k. ASSUME call.at = "none", UNCHANGED <<run, toFail, orphans>>,
             \A d \in DOMAIN disp : disp[d].has_run =>
                 d \in DOMAIN disp' /\ disp'[d] = disp[d]
      PROVE  ExclusiveInv'
  <2>1. \A d \in DOMAIN run : IsActive(d)' <=> IsActive(d)
    BY <1>k DEF IsActive
  <2>2. \A d \in DOMAIN run : IsActive(d) => d \notin toFail /\ Unfinished(d) /\ d \in DOMAIN disp
    BY <1>0, <1>k DEF HubRows
  <2>3. \A d \in DOMAIN run : IsActive(d) => Unfinished(d)'
    BY <1>k, <2>2 DEF Unfinished
  <2> QED BY <1>k, <2>1, <2>2, <2>3
<1>s. ASSUME UNCHANGED <<disp, run, toFail, orphans>>,
             \A d : JustStarted(d) => JustStarted(d)'
      PROVE  ExclusiveInv'
  BY <1>s DEF IsActive, Unfinished
<1>1. CASE clock \/ edit \/ UNCHANGED allVars
  <2>1. UNCHANGED <<disp, hubVars>>
    BY <1>1 DEF clock, edit, Tick, SetClockBack, Edit, create_plan, update_plan, delete_plan,
                allVars, vars, database
  <2> QED BY <1>s, <2>1 DEF hubVars
<1>2. CASE restart
  <2>1. /\ phase = "down" /\ toFail' = Interrupted /\ UNCHANGED <<disp, run, orphans>>
    BY <1>2 DEF restart, vars
  <2>2. DOMAIN run = {}
    BY <1>0, <2>1 DEF HubRows
  <2> QED BY <2>1, <2>2 DEF Interrupted
<1>3. CASE recover_host_restart
  BY <1>s, <1>3 DEF recover_host_restart, vars
<1>4. CASE catch_up \/ run_once
  <2>1. RowsAdded /\ reserved[hub] = {}
    BY <1>0, <1>4, HubDue DEF catch_up, run_once, process_due, LockFree
  <2>2. UNCHANGED <<run, toFail, orphans>>
    BY <1>4 DEF catch_up, run_once
  <2> QED BY <1>k, <1>l, <2>1, <2>2 DEF RowsAdded
<1>5. CASE host_stops \/ agent_ends
  <2>1. orphans' = {} /\ toFail' = {} /\ DOMAIN run' = {}
    BY <1>5 DEF host_stops, agent_ends, process_ends, Nothing
  <2> QED BY <2>1
<1>6. CASE reserve
  <2>1. /\ reserved[hub] = {} /\ DOMAIN disp \subseteq DOMAIN disp'
        /\ \A d \in DOMAIN disp : disp[d].has_run => disp'[d] = disp[d]
    BY <1>0, <1>6, HubReserve DEF reserve
  <2>2. UNCHANGED <<run, toFail, orphans>>
    BY <1>6 DEF reserve, hubVars
  <2> QED BY <1>k, <1>l, <2>1, <2>2
<1>7. ASSUME NEW d \in reserved[hub], admit(d) PROVE ExclusiveInv'
  <2>1. call = NoCall /\ UNCHANGED <<disp, run, toFail, orphans>>
    BY <1>7 DEF admit, vars
  <2> QED BY <1>s, <2>1 DEF NoCall
<1>8. CASE launch
  <2>1. PICK d : d = call.d
    OBVIOUS
  <2>2. /\ call.at = "launching" /\ call' = [at |-> "launched", d |-> d]
        /\ run' = With(run, d, "starting") /\ UNCHANGED <<disp, toFail, orphans>>
    BY <1>8, <2>1 DEF launch, vars
  <2>3. d \in reserved[hub] /\ d \notin toFail
    BY <1>0, <2>1, <2>2, ReservedRows DEF HubRows
  <2>4. JustStarted(d)'
    BY <2>2
  <2>5. \A c \in DOMAIN run' : c # d /\ IsActive(c)' => c \in DOMAIN run /\ IsActive(c)
    BY <2>2 DEF IsActive, With
  <2>6. \A c \in DOMAIN run : IsActive(c) => c \notin toFail /\ Unfinished(c)
    BY <2>2
  <2> QED BY <2>2, <2>3, <2>4, <2>5, <2>6 DEF Unfinished
<1>9. ASSUME NEW answer, LaunchFailed(answer), call.at = "launching" PROVE ExclusiveInv'
  <2>1. UNCHANGED <<disp, run, toFail, orphans>>
    BY <1>9 DEF LaunchFailed, vars
  <2> QED BY <1>s, <1>9, <2>1
<1>10. CASE mark_started
  <2>1. /\ UNCHANGED <<disp, run, toFail, orphans>>
        /\ call'.at = "answered" /\ call'.answer = "accepted" /\ call'.d = call.d
    BY <1>10 DEF mark_started, vars, Answered
  <2> QED BY <1>s, <2>1
<1>11. CASE acknowledge
  <2>1. /\ call.at = "answered" /\ pump_answer(hub, call.d, call.answer) /\ call' = NoCall
        /\ UNCHANGED <<run, toFail, orphans>>
    BY <1>11 DEF acknowledge
  <2>2. call.answer \in Answers
    BY <2>1 DEF HubBase, HubInv, WellAnswered
  <2>3. PICK d : d = call.d
    OBVIOUS
  <2>4. /\ d \in DOMAIN disp /\ d \in reserved[hub] /\ DOMAIN disp' = DOMAIN disp
        /\ disp'[d].has_run = (call.answer = "accepted")
        /\ disp'[d].status = StatusAfterAnswer(call.answer)
        /\ \A c \in DOMAIN disp : c # d => disp'[c] = disp[c]
    BY <1>0, <2>1, <2>2, <2>3, HubAnswer
  <2>5. disp'[d].has_run <=> CallAccepted
    <3>1. disp'[d].has_run <=> (call.answer = "accepted")
      BY <2>4, Zenon
    <3> QED BY <2>1, <3>1
  <2>6. CallAccepted => Unfinished(d)'
    BY <2>4, <2>5 DEF Unfinished, StatusAfterAnswer, TerminalDispatch
  <2>7. ~disp[d].has_run
    BY <1>0, <2>4, ReservedRows
  <2>8. \A c \in DOMAIN run : IsActive(c) => c \in DOMAIN disp /\ c \notin toFail
                                  /\ (c = d => CallAccepted) /\ (c # d => Unfinished(c))
    BY <1>0, <2>1, <2>3, <2>7 DEF HubRows, Unfinished
  <2>9. \A c \in DOMAIN run : IsActive(c) => Unfinished(c)'
    BY <2>4, <2>6, <2>8 DEF Unfinished
  <2>10. \A c \in toFail : c # d /\ c \in DOMAIN disp
    BY <2>7
  <2> QED BY <2>1, <2>4, <2>8, <2>9, <2>10 DEF IsActive
<1>12. ASSUME NEW d \in DOMAIN disp, recover_run(d) PROVE ExclusiveInv'
  <2>1. RowReported(d, "failed")
    BY <1>0, <1>12, HubReport DEF recover_run, RunStatus
  <2>2. d \in toFail /\ toFail' = toFail \ {d} /\ UNCHANGED <<run, orphans>>
    BY <1>12 DEF recover_run
  <2>3. call.at = "none"
    BY <1>l, <2>1 DEF RowReported
  <2>4. \A c \in DOMAIN run : IsActive(c) => c # d /\ c \notin toFail /\ Unfinished(c) /\ c \in DOMAIN disp
    BY <1>0, <2>2, <2>3 DEF HubRows
  <2>5. \A c \in DOMAIN run : IsActive(c) => Unfinished(c)'
    BY <2>1, <2>4 DEF RowReported, Unfinished
  <2>6. \A c \in toFail' : c \in DOMAIN disp' /\ disp'[c].has_run
    BY <2>1, <2>2 DEF RowReported
  <2> QED BY <2>2, <2>4, <2>5, <2>6 DEF IsActive
<1>13. ASSUME NEW d, release_target(d) \/ orphan_ends(d) PROVE ExclusiveInv'
  <2>1. UNCHANGED <<disp, run, toFail, call>> /\ orphans' = {}
    BY <1>13 DEF release_target, orphan_ends, vars
  <2> QED BY <1>s, <2>1
<1>14. ASSUME NEW d, NEW status, run_changes(d, status) PROVE ExclusiveInv'
  <2>1. /\ IsActive(d) /\ run' = With(run, d, status) /\ UNCHANGED <<disp, toFail, call, orphans>>
    BY <1>14 DEF run_changes, vars
  <2>2. \A c \in DOMAIN run' : IsActive(c)' => c \in DOMAIN run /\ IsActive(c)
    BY <2>1 DEF IsActive, With
  <2> QED BY <2>1, <2>2 DEF Unfinished
<1>15. ASSUME NEW d \in DOMAIN disp, monitor_reports(d) PROVE ExclusiveInv'
  <2>1. /\ d \in DOMAIN run /\ reserved[hub] = {} /\ run[d] \in RunActive \cup RunEnded
        /\ UNCHANGED <<toFail, run, orphans>>
    BY <1>15 DEF monitor_reports, NewsOf, LockFree, HubBase, HubInv, WellReported
  <2>2. call.at = "none"
    BY <1>l, <2>1
  <2>3. CASE disp[d].has_run /\ disp[d].status \notin TerminalDispatch
    <3>1. record_run_status(hub, d, run[d])
      BY <1>15, <2>3 DEF monitor_reports
    <3>2. RowReported(d, run[d])
      BY <1>0, <2>1, <3>1, HubReport, ReportableStatus
    <3>3. RunActive \cap TerminalDispatch = {}
      BY DEF RunActive, TerminalDispatch
    <3>4. \A c \in DOMAIN run : IsActive(c) => c \notin toFail /\ Unfinished(c) /\ c \in DOMAIN disp
      BY <1>0, <2>2 DEF HubRows
    <3>5. \A c \in DOMAIN run : IsActive(c) => Unfinished(c)'
      BY <3>2, <3>3, <3>4 DEF RowReported, Unfinished, IsActive
    <3>6. \A c \in toFail : c \in DOMAIN disp' /\ disp'[c].has_run
      BY <3>2 DEF RowReported
    <3> QED BY <2>1, <3>4, <3>5, <3>6 DEF IsActive
  <2>4. CASE ~(disp[d].has_run /\ disp[d].status \notin TerminalDispatch)
    <3>1. UNCHANGED disp
      BY <1>15, <2>4 DEF monitor_reports, vars
    <3> QED BY <1>k, <2>1, <2>2, <3>1
  <2> QED BY <2>3, <2>4
<1>16. ASSUME NEW d, NEW answer,
              \/ recover_run_fails(d) \/ monitor_fails(d) \/ acknowledge_fails
              \/ admit_fails(d, answer) \/ mark_started_fails(answer)
       PROVE  FALSE
  BY <1>16 DEF recover_run_fails, monitor_fails, acknowledge_fails, admit_fails, mark_started_fails
<1> QED BY <1>1, <1>2, <1>3, <1>4, <1>5, <1>6, <1>7, <1>8, <1>9, <1>10, <1>11, <1>12, <1>13, <1>14,
           <1>15, <1>16
        DEF HubNext, Agent, Gateway, OfDispatch, launch_busy, launch_fails

(* What executes occupies its instance in the rows.                         *)
LEMMA ExecutingOccupies ==
    ASSUME HubBase, ExclusiveInv
    PROVE  ExclusiveRuns
<1>1. ASSUME NEW d \in DOMAIN run, IsActive(d)
      PROVE  d \in DOMAIN disp /\ disp[d].status \in Occupying
  <2>1. d \in DOMAIN disp
    BY DEF HubBase, HubRows
  <2>2. CASE Unfinished(d)
    <3>1. disp[d].status \in RunStatus \ TerminalDispatch
      BY <2>1, <2>2 DEF Unfinished, HubBase, SerialInv, HasRunInv
    <3> QED BY <2>1, <3>1, RunStatusSplit
  <2>3. CASE JustStarted(d)
    <3>1. d \in reserved[hub]
      BY <2>3 DEF JustStarted, HubBase, HubRows
    <3>2. disp[d].status = "dispatching"
      BY <3>1, ReservedRows DEF HubBase
    <3> QED BY <2>1, <3>2 DEF Occupying
  <2> QED BY <1>1, <2>2, <2>3 DEF ExclusiveInv
<1>2. SerialOccupancy
  BY DEF HubBase, SerialInv
<1>3. \A c, d \in {d \in DOMAIN run : IsActive(d)} :
         Instance(c, disp) = Instance(d, disp) => c = d
  BY <1>1, <1>2 DEF SerialOccupancy
<1> QED BY <1>3 DEF ExclusiveRuns, ExclusiveInv

(* When no write fails and the agent's workers end with it, two runs never  *)
(* execute on one instance, on the host and not only in the rows, whenever  *)
(* the process stops and restarts (pump and _launch,                        *)
(* core/vnext/schedule_v6.py).                                              *)
THEOREM RunsAreExclusive ==
    ASSUME Faults = {}, ~AgentAlone
    PROVE  HubSpec => []ExclusiveRuns
<1>1. HubInit => ExclusiveInv
  BY DEF HubInit, ExclusiveInv, Nothing
<1>2. HubBase /\ HubBase' /\ ExclusiveInv /\ [HubNext]_allVars => ExclusiveInv'
  BY ExclusiveStep DEF HubBase
<1>3. HubBase /\ ExclusiveInv => ExclusiveRuns
  BY ExecutingOccupies
<1> QED BY <1>1, <1>2, <1>3, HubBaseInvariant, PTL DEF HubSpec

----------------------------------------------------------------------------
(* Starts.                                                                 *)

\* Until the process stops or an admission row is not written: what was
\* launched is marked started or about to be, what is about to be launched was
\* not, and the gateway forgets its starts only before the first launch.
StartedInv ==
    /\ CrashesCounted
    /\ \A d \in DOMAIN launches : launches[d] \in Nat
    /\ crashes = 0 /\ ~torn =>
          /\ \A d \in DOMAIN launches : StartedBefore(d) \/ (call.at = "launched" /\ call.d = d)
          /\ call.at = "launching" => call.d \notin DOMAIN launches
          /\ phase = "recovering" =>
                DOMAIN launches = {} /\ DOMAIN disp = {} /\ ~owesPump[hub]

(* The inductive step of StartedInv, with every fault.                      *)
LEMMA StartedStep ==
    ASSUME HubBase, StartedInv, [HubNext]_allVars
    PROVE  StartedInv'
<1>0. /\ hub \in Procs /\ reserved \in [Procs -> SUBSET DOMAIN disp]
      /\ owesPump \in [Procs -> BOOLEAN] /\ SerialInv /\ HubRows
  BY HubIsProcess DEF HubBase, SerialInv, TypeOK
<1>c. CrashesCounted /\ CrashesCounted'
  BY CrashesCountedStep DEF StartedInv
<1> USE DEF StartedInv, StartedBefore
<1>l. ASSUME reserved[hub] = {} PROVE call.at = "none"
  BY <1>0, <1>l DEF HubRows
<1>r. ASSUME reserved[hub] # {}, crashes = 0, ~torn PROVE phase # "recovering"
  BY <1>0, <1>r
<1>k. ASSUME UNCHANGED <<admission, launches, crashes, torn>>,
             call' = call \/ (call.at = "none" /\ call'.at = "answered")
                          \/ (call.at = "answered" /\ call'.at = "none"),
             crashes = 0 /\ ~torn /\ phase' = "recovering" =>
                 phase = "recovering" /\ DOMAIN disp' = {} /\ ~owesPump'[hub]
      PROVE  StartedInv'
  BY <1>c, <1>k
<1>1. CASE clock \/ edit \/ UNCHANGED allVars
  <2>1. UNCHANGED <<disp, owesPump, hubVars>>
    BY <1>1 DEF clock, edit, Tick, SetClockBack, Edit, create_plan, update_plan, delete_plan,
                allVars, vars, database
  <2> QED BY <1>k, <2>1 DEF hubVars
<1>2. CASE restart
  <2>1. crashes # 0
    BY <1>2, <1>c DEF restart, CrashesCounted
  <2> QED BY <1>2, <1>c, <2>1 DEF restart
<1>3. CASE recover_host_restart
  <2>1. /\ phase = "recovering" /\ phase' = "catching_up" /\ call = NoCall
        /\ UNCHANGED <<call, launches, crashes, torn>>
    BY <1>3 DEF recover_host_restart
  <2> QED BY <1>c, <2>1 DEF NoCall
<1>4. CASE catch_up \/ run_once
  BY <1>k, <1>4 DEF catch_up, run_once
<1>5. CASE host_stops \/ agent_ends
  <2>1. crashes' = crashes + 1 /\ launches' = Nothing
    BY <1>5 DEF host_stops, agent_ends, process_ends
  <2>2. crashes' # 0
    BY <1>c, <2>1 DEF CrashesCounted
  <2> QED BY <1>c, <2>1, <2>2 DEF Nothing
<1>6. CASE reserve
  <2>1. owesPump[hub] /\ UNCHANGED hubVars
    BY <1>6 DEF reserve, pump_reserve
  <2> QED BY <1>k, <2>1 DEF hubVars
<1>7. ASSUME NEW d \in reserved[hub], admit(d) PROVE StartedInv'
  <2>1. call = NoCall /\ UNCHANGED <<disp, owesPump, phase, launches, crashes, torn>>
    BY <1>7 DEF admit, vars
  <2>2. CASE UNCHANGED admission /\ call'.at = "answered"
    BY <1>k, <2>1, <2>2 DEF NoCall
  <2>3. CASE /\ ~StartedBefore(d) /\ call' = [at |-> "launching", d |-> d]
             /\ admission' = With(admission, d, [status |-> "launching", lease_until |-> now + Lease])
    <3>1. ASSUME crashes = 0, ~torn
          PROVE  d \notin DOMAIN launches /\ \A c \in DOMAIN launches : StartedBefore(c)'
      <4>1. \A c \in DOMAIN launches : StartedBefore(c)
        BY <2>1, <3>1 DEF NoCall
      <4>2. d \notin DOMAIN launches
        BY <2>3, <4>1
      <4> QED BY <2>1, <2>3, <4>1, <4>2 DEF With
    <3> QED BY <1>c, <1>r, <2>1, <2>3, <3>1
  <2> QED BY <1>7, <2>2, <2>3 DEF admit, Answered
<1>8. ASSUME NEW d \in reserved[hub], NEW answer, admit_fails(d, answer) PROVE StartedInv'
  <2>1. torn' /\ UNCHANGED <<launches, crashes>>
    BY <1>8 DEF admit_fails
  <2> QED BY <1>c, <2>1
<1>9. CASE launch
  <2>1. PICK d : d = call.d
    OBVIOUS
  <2>2. /\ call.at = "launching" /\ call' = [at |-> "launched", d |-> d]
        /\ launches' = With(launches, d, Launches(d) + 1)
        /\ UNCHANGED <<phase, admission, crashes, torn>> /\ reserved[hub] # {}
    BY <1>0, <1>9, <2>1 DEF launch, HubRows
  <2>3. Launches(d) \in Nat
    BY DEF Launches
  <2>4. \A c \in DOMAIN launches' : launches'[c] \in Nat /\ (c = d \/ c \in DOMAIN launches)
    BY <2>2, <2>3 DEF With
  <2> QED BY <1>c, <1>r, <2>2, <2>4
<1>10. ASSUME NEW answer, LaunchFailed(answer), call.at = "launching" PROVE StartedInv'
  <2>1. UNCHANGED <<phase, launches, crashes>> /\ reserved[hub] # {} /\ call'.at = "answered"
    BY <1>0, <1>10 DEF LaunchFailed, HubRows, Answered
  <2>2. CASE /\ UNCHANGED torn
             /\ admission' = With(admission, call.d, [status |-> "launch_failed", lease_until |-> Unset])
    <3>1. ASSUME crashes = 0, ~torn PROVE \A c \in DOMAIN launches : StartedBefore(c)'
      <4>1. \A c \in DOMAIN launches : StartedBefore(c) /\ c # call.d
        BY <1>10, <3>1
      <4> QED BY <2>2, <4>1 DEF With
    <3> QED BY <1>c, <1>r, <2>1, <2>2, <3>1
  <2>3. CASE torn'
    BY <1>c, <2>1, <2>3
  <2> QED BY <1>10, <2>2, <2>3 DEF LaunchFailed
<1>11. CASE mark_started
  <2>1. /\ call.at = "launched" /\ call'.at = "answered" /\ reserved[hub] # {}
        /\ admission' = With(admission, call.d, [status |-> "started", lease_until |-> Unset])
        /\ UNCHANGED <<phase, launches, crashes, torn>>
    BY <1>0, <1>11 DEF mark_started, HubRows, Answered
  <2>2. \A c \in DOMAIN launches : StartedBefore(c) \/ c = call.d => StartedBefore(c)'
    BY <2>1 DEF With
  <2> QED BY <1>c, <1>r, <2>1, <2>2
<1>12. ASSUME NEW answer, mark_started_fails(answer) PROVE StartedInv'
  <2>1. torn' /\ UNCHANGED <<launches, crashes>>
    BY <1>12 DEF mark_started_fails
  <2> QED BY <1>c, <2>1
<1>13. CASE acknowledge \/ acknowledge_fails
  <2>1. /\ call.at = "answered" /\ call'.at = "none" /\ reserved[hub] # {}
        /\ UNCHANGED <<phase, admission, launches, crashes, torn>>
    BY <1>0, <1>13 DEF acknowledge, acknowledge_fails, NoCall, HubRows
  <2> QED BY <1>k, <1>r, <2>1
<1>14. ASSUME NEW d \in DOMAIN disp,
              UNCHANGED <<phase, admission, call, launches, crashes, torn>>
       PROVE  StartedInv'
  BY <1>k, <1>14
<1>15. ASSUME NEW d \in DOMAIN disp, NEW status,
              \/ recover_run(d) \/ recover_run_fails(d) \/ run_changes(d, status)
              \/ release_target(d) \/ orphan_ends(d) \/ monitor_reports(d) \/ monitor_fails(d)
       PROVE  StartedInv'
  BY <1>14, <1>15 DEF recover_run, recover_run_fails, run_changes, release_target, orphan_ends,
                      monitor_reports, monitor_fails
<1> QED BY <1>1, <1>2, <1>3, <1>4, <1>5, <1>6, <1>7, <1>8, <1>9, <1>10, <1>11, <1>12, <1>13, <1>15
        DEF HubNext, Agent, Gateway, OfDispatch, launch_busy, launch_fails

\* What StartedOnce says of a step.
StartsOnceStep ==
    crashes = 0 /\ ~torn =>
        \A d \in DOMAIN launches' :
            d \notin DOMAIN launches \/ launches'[d] > launches[d] =>
                launches'[d] = 1 /\ ~disp[d].has_run

(* The launch is the one step that starts anything.                         *)
LEMMA StartsOnce ==
    ASSUME HubBase, StartedInv, [HubNext]_allVars
    PROVE  StartsOnceStep
<1>1. CASE launch
  <2>1. PICK d : d = call.d
    OBVIOUS
  <2>2. /\ call.at = "launching" /\ launches' = With(launches, d, Launches(d) + 1)
    BY <1>1, <2>1 DEF launch
  <2>3. ~disp[d].has_run
    BY <2>1, <2>2, ReservedRows DEF HubBase, HubRows
  <2>4. ASSUME crashes = 0, ~torn PROVE d \notin DOMAIN launches
    BY <2>1, <2>2, <2>4 DEF StartedInv
  <2>5. ASSUME crashes = 0, ~torn PROVE launches'[d] = 1
    BY <2>2, <2>4, <2>5 DEF With, Launches
  <2>6. \A c \in DOMAIN launches' :
           c # d => c \in DOMAIN launches /\ launches'[c] = launches[c] /\ launches[c] \in Nat
    BY <2>2 DEF With, StartedInv
  <2> QED BY <2>3, <2>5, <2>6 DEF StartsOnceStep
<1>2. ASSUME DOMAIN launches' = {} \/ UNCHANGED launches PROVE StartsOnceStep
  <2>1. \A d \in DOMAIN launches : ~(launches[d] > launches[d])
    BY DEF StartedInv
  <2> QED BY <1>2, <2>1 DEF StartsOnceStep
<1>3. CASE host_stops \/ agent_ends
  BY <1>2, <1>3 DEF host_stops, agent_ends, process_ends, Nothing
<1>4. CASE clock \/ edit \/ restart \/ recover_host_restart \/ catch_up \/ run_once \/ reserve
           \/ launch_busy \/ mark_started \/ acknowledge \/ acknowledge_fails \/ UNCHANGED allVars
  BY <1>2, <1>4 DEF clock, edit, restart, recover_host_restart, catch_up, run_once, reserve,
     launch_busy, LaunchFailed, mark_started, acknowledge, acknowledge_fails, allVars, hubVars
<1>5. ASSUME NEW d, NEW answer, NEW status,
             \/ admit(d) \/ admit_fails(d, answer) \/ launch_fails(answer)
             \/ mark_started_fails(answer) \/ recover_run(d) \/ recover_run_fails(d)
             \/ run_changes(d, status) \/ release_target(d) \/ orphan_ends(d)
             \/ monitor_reports(d) \/ monitor_fails(d)
      PROVE  StartsOnceStep
  BY <1>2, <1>5 DEF admit, admit_fails, launch_fails, LaunchFailed, mark_started_fails, recover_run,
     recover_run_fails, run_changes, release_target, orphan_ends, monitor_reports, monitor_fails
<1> QED BY <1>1, <1>3, <1>4, <1>5 DEF HubNext, Agent, Gateway, OfDispatch

(* Until the process stops or an admission row is not written, a dispatch   *)
(* is started once, and never after the schedule knows its run: accept of   *)
(* the local gateway (core/vnext/schedule_v6.py), under every other fault.  *)
THEOREM StartsAreSingle == HubSpec => StartedOnce
<1>1. HubInit => StartedInv
  <2> SUFFICES ASSUME HubInit PROVE StartedInv
    OBVIOUS
  <2>1. /\ call = NoCall /\ launches = Nothing /\ phase = "recovering" /\ crashes = 0
        /\ DOMAIN disp = {} /\ owesPump[hub] = FALSE
    BY HubIsProcess DEF HubInit, Init
  <2> QED BY <2>1, HubAssumption DEF StartedInv, CrashesCounted, NoCall, Nothing
<1>2. HubBase /\ StartedInv /\ [HubNext]_allVars => StartedInv'
  BY StartedStep
<1>3. HubBase /\ StartedInv /\ [HubNext]_allVars => [StartsOnceStep]_allVars
  BY StartsOnce
<1>4. [][StartsOnceStep]_allVars => StartedOnce
  BY PTL DEF StartsOnceStep, StartedOnce
<1> QED BY <1>1, <1>2, <1>3, <1>4, HubBaseInvariant, PTL DEF HubSpec

=============================================================================
