------------------------------ MODULE PlayerHub ------------------------------
(***************************************************************************)
(* The Player Hub agent (core/vnext/schedule_hub_v6.py, PlayerHubV6): one  *)
(* process that owns the schedule, admits dispatches through the local     *)
(* gateway (core/vnext/schedule_v6.py, SQLiteLocalDispatchGateway), runs   *)
(* them in worker processes and watches every run with a monitor thread.    *)
(*                                                                         *)
(* This module composes the schedule service with the three other parts.   *)
(* Where ScheduleService lets the Execution Service answer anything and    *)
(* anybody report a status, here the answer is what the gateway says and a  *)
(* report is what a monitor saw.  Sessions and monitors end with the        *)
(* process, the two databases stay.  When the agent alone ends, its workers *)
(* go on until their program ends: PlayerHubV6.shutdown does not stop the   *)
(* Runtime, and nothing in a worker watches the parent                      *)
(* (core/vnext/execution_worker.py).                                        *)
(*                                                                         *)
(* Only local instances are modelled: LanDispatchRouterV6 hands every      *)
(* dispatch to the gateway.                                                *)
(***************************************************************************)
EXTENDS ScheduleService

CONSTANTS
    hub,             \* the agent's process
    TargetOf,        \* entry_id -> the target its profile runs on
    NoTarget,        \* the profile needs no target
    LaunchFailures,  \* how a launch may be refused: "transient", "permanent"
    Faults,          \* the database writes that may fail
    AgentAlone,      \* whether the agent may end without its workers
    MaxCrashes       \* bound: how often the process stops

\* "admission": a row of the gateway; "ack": the scheduler's answer row;
\* "report": a monitor's status report.
FaultKind == {"admission", "ack", "report"}

Refusal == {"transient", "permanent"}

ASSUME HubAssumption ==
    /\ Procs = {hub}
    /\ \A v \in PlanSpecs : \A e \in v.entries : e.entry_id \in DOMAIN TargetOf
    /\ LaunchFailures \subseteq Refusal
    /\ Faults \subseteq FaultKind
    /\ AgentAlone \in BOOLEAN
    /\ MaxCrashes \in Nat

VARIABLES
    phase,      \* where run_forever is
    toFail,     \* interrupted runs recover_after_restart has still to fail
    admission,  \* local_dispatch_admissions: dispatch_id -> row
    call,       \* the gateway call of the pump in progress
    pumper,     \* the thread that owes or runs the pump
    run,        \* Runtime sessions of this process: dispatch -> status
    held,       \* dispatches whose session owns its target (_target_owners)
    monitor,    \* monitor threads: dispatch -> last_status
    launches,   \* how often this process has started the dispatch
    orphans,    \* dispatches whose worker has outlived its agent
    crashes,
    torn        \* whether a write of an admission row has failed (history)

hubVars == <<phase, toFail, admission, call, pumper, run, held, monitor, launches, orphans, crashes, torn>>
allVars == <<vars, hubVars>>

Phase == {"down", "recovering", "catching_up", "running"}

\* Runtime statuses, in the words the monitor reports them with.
RunEnded == {"completed", "failed", "stopped"}
RunActive == {"starting", "running", "paused"}

AdmissionStatus == {"launching", "started", "launch_failed"}
Admission == [status : AdmissionStatus, lease_until : Nat \cup {Unset}]

NoCall == [at |-> "none"]
Call ==
    {NoCall}
    \cup [at : {"launching", "launched"}, d : DispatchId]
    \cup [at : {"answered"}, d : DispatchId, answer : Answers]

Answered(d, answer) == [at |-> "answered", d |-> d, answer |-> answer]

\* f with d mapped to v.
With(f, d, v) == [x \in DOMAIN f \cup {d} |-> IF x = d THEN v ELSE f[x]]
Without(f, d) == [x \in DOMAIN f \ {d} |-> f[x]]
Nothing == [d \in {} |-> Unset]

IsActive(d) == d \in DOMAIN run /\ run[d] \in RunActive
Launches(d) == IF d \in DOMAIN launches THEN launches[d] ELSE 0

----------------------------------------------------------------------------
HubInit ==
    /\ Init
    /\ phase = "recovering"
    /\ toFail = {}
    /\ admission = Nothing
    /\ call = NoCall
    /\ pumper = "loop"
    /\ run = Nothing
    /\ held = {}
    /\ monitor = Nothing
    /\ launches = Nothing
    /\ orphans = {}
    /\ crashes = 0
    /\ torn = FALSE

clock ==
    /\ Tick \/ \E n \in 1..MaxRollbacks : SetClockBack(n)
    /\ UNCHANGED hubVars

edit == Edit(hub) /\ UNCHANGED hubVars

----------------------------------------------------------------------------
(* run_forever                                                             *)

\* Mutant: a paused run is not taken for an interrupted one.
InterruptedUnlessPaused ==
    {d \in DOMAIN disp : disp[d].has_run /\ disp[d].status \in {"accepted", "starting", "running"}}

\* Rows that a restarted agent finds with a run (_ACTIVE).
Interrupted ==
    {d \in DOMAIN disp : disp[d].has_run /\ disp[d].status \in Occupying \ {"dispatching"}}

restart ==
    /\ phase = "down"
    /\ phase' = "recovering"
    /\ toFail' = Interrupted
    /\ UNCHANGED <<vars, admission, call, pumper, run, held, monitor, launches, orphans, crashes, torn>>

\* One turn of recover_after_restart's loop; the pump that record_run_status
\* owes comes before the next one.
recover_run(d) ==
    /\ phase = "recovering"
    /\ d \in toFail \cap DOMAIN disp
    /\ ~owesPump[hub]
    /\ record_run_status(hub, d, "failed")
    /\ toFail' = toFail \ {d}
    /\ pumper' = "thread"
    /\ UNCHANGED <<phase, admission, call, run, held, monitor, launches, orphans, crashes, torn>>

\* The report raised; contextlib.suppress goes on with the next row.
recover_run_fails(d) ==
    /\ "report" \in Faults
    /\ phase = "recovering"
    /\ d \in toFail
    /\ ~owesPump[hub] /\ LockFree(hub)
    /\ toFail' = toFail \ {d}
    /\ UNCHANGED <<vars, phase, admission, call, pumper, run, held, monitor, launches, orphans, crashes, torn>>

\* gateway.recover_host_restart, under the gateway's lock.
recover_host_restart ==
    /\ phase = "recovering"
    /\ toFail = {}
    /\ ~owesPump[hub] /\ call = NoCall
    /\ phase' = "catching_up"
    /\ admission' = [d \in DOMAIN admission |-> [status |-> "launch_failed", lease_until |-> Unset]]
    /\ UNCHANGED <<vars, toFail, call, pumper, run, held, monitor, launches, orphans, crashes, torn>>

\* run_once(recovery=True)
catch_up ==
    /\ phase = "catching_up"
    /\ process_due(hub, "recovery")
    /\ phase' = "running"
    /\ pumper' = "loop"
    /\ UNCHANGED <<toFail, admission, call, run, held, monitor, launches, orphans, crashes, torn>>

run_once ==
    /\ phase = "running"
    /\ process_due(hub, "timer")
    /\ pumper' = "loop"
    /\ UNCHANGED <<phase, toFail, admission, call, run, held, monitor, launches, orphans, crashes, torn>>

\* The process stops between any two steps and its memory is gone.
process_ends ==
    /\ phase # "down"
    /\ crashes < MaxCrashes
    /\ IF LockFree(hub) /\ ~owesPump[hub] THEN UNCHANGED vars ELSE pump_interrupted(hub)
    /\ crashes' = crashes + 1
    /\ phase' = "down"
    /\ toFail' = {}
    /\ call' = NoCall
    /\ run' = Nothing
    /\ held' = {}
    /\ monitor' = Nothing
    /\ launches' = Nothing
    /\ UNCHANGED <<admission, pumper, torn>>

\* The user session or the machine ends, and every process with it.
host_stops ==
    /\ process_ends
    /\ UNCHANGED orphans

\* The agent is killed, stopped, or its loop ends with an error of process_due
\* or pump, which run_forever does not catch: the workers go on.
agent_ends ==
    /\ AgentAlone
    /\ process_ends
    /\ orphans' = orphans \cup {d \in DOMAIN run : IsActive(d)}

----------------------------------------------------------------------------
(* pump, and the gateway's accept for each dispatch it has reserved.       *)

reserve ==
    /\ phase # "down"
    /\ pump_reserve(hub)
    /\ UNCHANGED hubVars

StartedBefore(d) == d \in DOMAIN admission /\ admission[d].status = "started"

InProgress(d) ==
    d \in DOMAIN admission /\ admission[d].status = "launching" /\ admission[d].lease_until > now

\* Mutant: a dispatch that was started before is launched again.
AdmitAgain(d) ==
    /\ call = NoCall
    /\ d \in NextHandover(hub)
    /\ admission' = With(admission, d, [status |-> "launching", lease_until |-> now + Lease])
    /\ call' = [at |-> "launching", d |-> d]
    /\ UNCHANGED <<vars, phase, toFail, pumper, run, held, monitor, launches, orphans, crashes, torn>>

\* accept up to the commit of the admission row.
admit(d) ==
    /\ call = NoCall
    /\ d \in NextHandover(hub)
    /\ \/ /\ StartedBefore(d)
          /\ call' = Answered(d, "accepted")
          /\ UNCHANGED admission
       \/ /\ InProgress(d)
          /\ call' = Answered(d, "transient")
          /\ UNCHANGED admission
       \/ /\ ~StartedBefore(d) /\ ~InProgress(d)
          /\ admission' = With(admission, d, [status |-> "launching", lease_until |-> now + Lease])
          /\ call' = [at |-> "launching", d |-> d]
    /\ UNCHANGED <<vars, phase, toFail, pumper, run, held, monitor, launches, orphans, crashes, torn>>

\* The gateway's transaction fails before the row is written.
admit_fails(d, answer) ==
    /\ "admission" \in Faults
    /\ torn' = TRUE
    /\ call = NoCall
    /\ d \in NextHandover(hub)
    /\ call' = Answered(d, answer)
    /\ UNCHANGED <<vars, phase, toFail, admission, pumper, run, held, monitor, launches, orphans, crashes>>

Target(d) == TargetOf[d.entry]
TargetFree(d) == \A c \in held : Target(c) # Target(d)

\* _launch: the Runtime starts the run and a monitor thread watches it.
launch ==
    /\ call.at = "launching"
    /\ TargetFree(call.d)
    /\ run' = With(run, call.d, "starting")
    /\ held' = IF Target(call.d) = NoTarget THEN held ELSE held \cup {call.d}
    /\ monitor' = With(monitor, call.d, "none")
    /\ launches' = With(launches, call.d, Launches(call.d) + 1)
    /\ call' = [at |-> "launched", d |-> call.d]
    /\ UNCHANGED <<vars, phase, toFail, admission, pumper, orphans, crashes, torn>>

\* Nothing was started.
LaunchFailed(answer) ==
    /\ \/ /\ admission' = With(admission, call.d, [status |-> "launch_failed", lease_until |-> Unset])
          /\ UNCHANGED torn
       \/ /\ "admission" \in Faults
          /\ torn' = TRUE
          /\ UNCHANGED admission
    /\ call' = Answered(call.d, answer)
    /\ UNCHANGED <<vars, phase, toFail, pumper, run, held, monitor, launches, orphans, crashes>>

\* Unknown reference, session probe, preflight, signature, worker spawn.
launch_fails(answer) ==
    /\ call.at = "launching"
    /\ LaunchFailed(answer)

\* Runtime.start finds the target taken; its failure has no error_id, so
\* _launch does not call it transient.
launch_busy ==
    /\ call.at = "launching"
    /\ ~TargetFree(call.d)
    /\ LaunchFailed("permanent")

mark_started ==
    /\ call.at = "launched"
    /\ admission' = With(admission, call.d, [status |-> "started", lease_until |-> Unset])
    /\ call' = Answered(call.d, "accepted")
    /\ UNCHANGED <<vars, phase, toFail, pumper, run, held, monitor, launches, orphans, crashes, torn>>

\* The 'started' row is not written: the run goes on, accept raises.
mark_started_fails(answer) ==
    /\ "admission" \in Faults
    /\ torn' = TRUE
    /\ call.at = "launched"
    /\ call' = Answered(call.d, answer)
    /\ UNCHANGED <<vars, phase, toFail, admission, pumper, run, held, monitor, launches, orphans, crashes>>

\* The scheduler's transaction with the answer.
acknowledge ==
    /\ call.at = "answered"
    /\ pump_answer(hub, call.d, call.answer)
    /\ call' = NoCall
    /\ UNCHANGED <<phase, toFail, admission, pumper, run, held, monitor, launches, orphans, crashes, torn>>

\* That transaction fails: pump raises, in a monitor or in the recovery, and
\* the process goes on.
acknowledge_fails ==
    /\ "ack" \in Faults
    /\ pumper = "thread"
    /\ call.at = "answered"
    /\ pump_interrupted(hub)
    /\ call' = NoCall
    /\ UNCHANGED <<phase, toFail, admission, pumper, run, held, monitor, launches, orphans, crashes, torn>>

----------------------------------------------------------------------------
(* The Runtime and the monitor threads.                                    *)

run_changes(d, status) ==
    /\ IsActive(d)
    /\ status \in (RunActive \cup RunEnded) \ {"starting", run[d]}
    /\ run' = With(run, d, status)
    /\ UNCHANGED <<vars, phase, toFail, admission, call, pumper, held, monitor, launches, orphans, crashes, torn>>

\* The worker's last message is read after its last status: until then the
\* target stays taken.
release_target(d) ==
    /\ d \in held
    /\ ~IsActive(d)
    /\ held' = held \ {d}
    /\ UNCHANGED <<vars, phase, toFail, admission, call, pumper, run, monitor, launches, orphans, crashes, torn>>

orphan_ends(d) ==
    /\ d \in orphans
    /\ orphans' = orphans \ {d}
    /\ UNCHANGED <<vars, phase, toFail, admission, call, pumper, run, held, monitor, launches, crashes, torn>>

\* The monitor's thread ends with the run.
Seen(d) == IF run[d] \in RunEnded THEN Without(monitor, d) ELSE With(monitor, d, run[d])

NewsOf(d) == d \in DOMAIN monitor /\ monitor[d] # run[d]

\* record_run_status waits for the pump, so the answer for d is already stored
\* unless its transaction failed: that refusal (run_identity_mismatch) is
\* ignored.  A row that is terminal already ends the monitor.
monitor_reports(d) ==
    /\ d \in DOMAIN disp
    /\ NewsOf(d)
    /\ LockFree(hub)
    /\ \/ /\ disp[d].has_run /\ disp[d].status \notin TerminalDispatch
          /\ record_run_status(hub, d, run[d])
          /\ monitor' = Seen(d)
          /\ pumper' = IF run[d] \in RunEnded THEN "thread" ELSE pumper
       \/ /\ ~disp[d].has_run
          /\ monitor' = Seen(d)
          /\ UNCHANGED <<vars, pumper>>
       \/ /\ disp[d].has_run /\ disp[d].status \in TerminalDispatch
          /\ monitor' = Without(monitor, d)
          /\ UNCHANGED <<vars, pumper>>
    /\ UNCHANGED <<phase, toFail, admission, call, run, held, launches, orphans, crashes, torn>>

\* The report fails: the handler reports "failed" instead, if it can, and the
\* monitor ends.
monitor_fails(d) ==
    /\ "report" \in Faults
    /\ d \in DOMAIN disp
    /\ NewsOf(d)
    /\ LockFree(hub)
    /\ \/ /\ disp[d].has_run /\ disp[d].status \notin TerminalDispatch
          /\ record_run_status(hub, d, "failed")
          /\ pumper' = "thread"
       \/ UNCHANGED <<vars, pumper>>
    /\ monitor' = Without(monitor, d)
    /\ UNCHANGED <<phase, toFail, admission, call, run, held, launches, orphans, crashes, torn>>

----------------------------------------------------------------------------
Agent == restart \/ recover_host_restart \/ catch_up \/ run_once \/ host_stops \/ agent_ends

Gateway ==
    \/ \E d \in reserved[hub] : admit(d)
    \/ launch
    \/ mark_started
    \/ launch_busy
    \/ \E answer \in LaunchFailures : launch_fails(answer)
    \/ \E answer \in Refusal :
          mark_started_fails(answer) \/ \E d \in reserved[hub] : admit_fails(d, answer)
    \/ acknowledge
    \/ acknowledge_fails

OfDispatch(d) ==
    \/ recover_run(d)
    \/ recover_run_fails(d)
    \/ \E status \in RunActive \cup RunEnded : run_changes(d, status)
    \/ release_target(d)
    \/ orphan_ends(d)
    \/ monitor_reports(d)
    \/ monitor_fails(d)

HubNext ==
    \/ clock
    \/ edit
    \/ Agent
    \/ reserve
    \/ Gateway
    \/ \E d \in DOMAIN disp : OfDispatch(d)

HubSpec == HubInit /\ [][HubNext]_allVars

----------------------------------------------------------------------------
(* Properties.                                                             *)

(* The gateway's rows, the call in progress, the sessions and the monitors  *)
(* have their shapes, and a monitor watches a session of this process.      *)
HubTypeOK ==
    /\ TypeOK
    /\ phase \in Phase
    /\ toFail \subseteq DOMAIN disp
    /\ DOMAIN admission \subseteq DOMAIN disp
    /\ \A d \in DOMAIN admission : admission[d] \in Admission
    /\ call \in Call
    /\ pumper \in {"loop", "thread"}
    /\ DOMAIN run \subseteq DOMAIN admission
    /\ \A d \in DOMAIN run : run[d] \in RunActive \cup RunEnded
    /\ held \subseteq DOMAIN run
    /\ DOMAIN monitor \subseteq DOMAIN run
    /\ \A d \in DOMAIN monitor : monitor[d] \in RunActive \cup {"none"}
    /\ DOMAIN launches = DOMAIN run
    /\ \A d \in DOMAIN launches : launches[d] \in Nat
    /\ orphans \subseteq DOMAIN admission
    /\ crashes \in 0..MaxCrashes
    /\ torn \in BOOLEAN

(* Two runs never execute on one instance at the same time, on the host     *)
(* and not only in the rows: what pump's "occupied" query finds free is     *)
(* free.                                                                    *)
ExclusiveRuns ==
    LET executing == {d \in DOMAIN run : IsActive(d)} IN
    /\ \A c, d \in executing \cup orphans : Instance(c, disp) = Instance(d, disp) => c = d
    /\ executing \cap orphans = {}

(* Until the process stops or an admission row is not written, a dispatch   *)
(* is started once, and never after the schedule knows its run: whatever is *)
(* retried after a lost answer, a lost report or an expired lease.          *)
StartedOnce ==
    [][crashes = 0 /\ ~torn =>
          \A d \in DOMAIN launches' :
              d \notin DOMAIN launches \/ launches'[d] > launches[d] =>
                  launches'[d] = 1 /\ ~disp[d].has_run]_allVars

(* While the agent is running, a row that has a run and no result yet has a *)
(* monitor that will report the result: no instance stays occupied by a run *)
(* nobody watches.                                                          *)
RunsAreWatched ==
    phase \in {"catching_up", "running"} =>
        \A d \in DOMAIN disp :
            disp[d].has_run /\ disp[d].status \notin TerminalDispatch => d \in DOMAIN monitor

=============================================================================
