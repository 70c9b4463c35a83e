--------------------------- MODULE ScheduleService ---------------------------
(***************************************************************************)
(* The schedule owner: plans, immutable occurrences and dispatch records   *)
(* kept in one SQLite database (core/vnext/schedule_v6.py,                 *)
(* ScheduleServiceV6).  Every BEGIN IMMEDIATE transaction is one action.   *)
(* process_due turns due points into occurrences; pump reserves one FIFO   *)
(* head per free instance, calls the Execution Service for each reserved   *)
(* dispatch and writes the answer in a transaction of its own;             *)
(* record_run_status stores what the run reports.                          *)
(*                                                                         *)
(* Each member of Procs is a process that owns a ScheduleServiceV6 object  *)
(* on the same database.  Its re-entrant lock is held from the first       *)
(* transaction of pump to the last answer, so a process with reserved      *)
(* dispatches takes no other step; other processes are not excluded.       *)
(*                                                                         *)
(* SHA-256 identities are modelled by the tuples they digest.              *)
(***************************************************************************)
EXTENDS Integers, FiniteSets

CONSTANTS
    Schedules,    \* schedule_id values
    Instances,    \* (host_id, instance_id) pairs
    PlanSpecs,    \* normalized plan contents a user may save
    DailyAt,      \* wall time -> UTC instants it resolves to, one per local day
    Procs,        \* processes with a ScheduleServiceV6 on the database
    Lease,        \* DISPATCH_LEASE_MS
    MaxTime,      \* bound: last clock value
    MaxRevision,  \* bound: last plan revision
    MaxRollbacks, \* bound: how often the wall clock is set back
    Interrupts    \* whether a pump may be cut off (crash, database error)

Unset == -1       \* SQL NULL in an integer column

----------------------------------------------------------------------------
(* Normalized plan contents (_normalize_plan, _normalize_entry,            *)
(* _normalize_trigger).                                                    *)

PlanEntry ==
    {e \in [entry_id : Nat, order : Nat, enabled : BOOLEAN, instance : Instances,
            offset : Nat, deadline : Nat \cup {Unset}] :
        e.deadline = Unset \/ e.deadline >= e.offset}

Trigger == [type : {"once", "interval", "daily"}, at : Nat, every : Nat \ {0}]

SchedulePlan ==
    {v \in [enabled : BOOLEAN, trigger : Trigger, overlap : {"skip", "queue_once"},
            misfire : {"skip", "catch_up_once"}, max_lateness : Nat,
            entries : SUBSET PlanEntry] :
        /\ v.entries # {}
        /\ \A e, f \in v.entries : e.entry_id = f.entry_id \/ e.order = f.order => e = f
        /\ v.misfire = "catch_up_once" => v.max_lateness >= 1}

(* _local_to_first_valid_utc gives one instant per local day, so every     *)
(* instant has a next one and, after the first day, a previous one.        *)
(* max_lateness, offsets and deadlines are seconds in the code and clock   *)
(* units here.                                                             *)
ASSUME ConstantsAssumption ==
    /\ PlanSpecs \subseteq SchedulePlan /\ PlanSpecs # {}
    /\ \A v \in PlanSpecs :
          v.trigger.type = "daily" =>
             /\ v.trigger.at \in DOMAIN DailyAt
             /\ DailyAt[v.trigger.at] \subseteq Nat
             /\ \A t \in 0..MaxTime :
                   /\ \E u \in DailyAt[v.trigger.at] :
                         u > t /\ \A w \in DailyAt[v.trigger.at] : w > t => u <= w
                   /\ (\E u \in DailyAt[v.trigger.at] : u <= t) =>
                         \E u \in DailyAt[v.trigger.at] :
                            u <= t /\ \A w \in DailyAt[v.trigger.at] : w <= t => w <= u
    /\ Lease \in Nat \ {0} /\ MaxTime \in Nat /\ MaxRevision \in Nat
    /\ MaxRollbacks \in Nat /\ Interrupts \in BOOLEAN

TriggerSources == {"timer", "recovery", "recovery_catch_up"}

OccurrenceId == [schedule : Schedules, revision : Nat, due : Nat, source : TriggerSources]
DispatchId == [occurrence : OccurrenceId, entry : Nat]

TerminalDispatch == {"completed", "failed", "stopped", "rejected", "skipped", "expired"}
Occupying == {"dispatching", "accepted", "starting", "running", "paused", "stopping"}
DispatchStatus == {"pending", "queued"} \cup Occupying \cup TerminalDispatch

ActiveOccurrence == {"pending", "dispatching", "accepted", "running", "queued_overlap"}
OccurrenceStatus ==
    ActiveOccurrence \cup {"completed", "failed", "partial_failed", "skipped"}

\* What a caller of record_run_status may report.
RunStatus ==
    {"accepted", "starting", "running", "paused", "stopping", "completed", "failed", "stopped"}

----------------------------------------------------------------------------
VARIABLES
    now,        \* the wall clock, in lease units
    rollbacks,  \* how often the clock was set back
    plan,       \* schedule_plans: schedule -> row (revision 0: no row)
    occ,        \* schedule_occurrences: occurrence_id -> row
    disp,       \* schedule_dispatches: dispatch_id -> row
    reserved,   \* process -> dispatches its pump has reserved and not answered
    owesPump    \* process -> a pump() call follows the transaction just committed

vars == <<now, rollbacks, plan, occ, disp, reserved, owesPump>>
database == <<plan, occ, disp>>

Plan == [revision : Nat, deleted : BOOLEAN, enabled : BOOLEAN,
         next_due : Nat \cup {Unset}, spec : PlanSpecs]
Occurrence == [status : OccurrenceStatus, first_due : Nat, entries : SUBSET PlanEntry]
Dispatch == [status : DispatchStatus, has_run : BOOLEAN, lease_until : Nat \cup {Unset},
             created_at : Nat, entry : PlanEntry]

\* The process's lock is free: no pump of it is between two transactions.
LockFree(p) == reserved[p] = {}

----------------------------------------------------------------------------
(* Trigger arithmetic.                                                     *)

Earliest(S) == CHOOSE t \in S : \A u \in S : t <= u
Latest(S) == CHOOSE t \in S : \A u \in S : u <= t

\* _next_due_after
NextDueAfter(trigger, after) ==
    CASE trigger.type = "once" -> IF trigger.at > after THEN trigger.at ELSE Unset
      [] trigger.type = "interval" ->
            IF after < trigger.at THEN trigger.at
            ELSE trigger.at + ((after - trigger.at) \div trigger.every + 1) * trigger.every
      [] trigger.type = "daily" -> Earliest({t \in DailyAt[trigger.at] : t > after})

\* _initial_next_due: a single-shot time is kept even when it has passed.
InitialNextDue(trigger) ==
    IF trigger.type = "once" THEN trigger.at ELSE NextDueAfter(trigger, now)

\* The last due point not after the clock, counted from the first one
\* (_due_span).
LastDue(trigger, first) ==
    CASE trigger.type = "once" -> first
      [] trigger.type = "interval" ->
            first + ((now - first) \div trigger.every) * trigger.every
      [] trigger.type = "daily" ->
            Latest({first} \cup {t \in DailyAt[trigger.at] : t <= now})

\* Mutant: the next due point is counted from the first one of the span.
DueAfterFirst(trigger, first) == NextDueAfter(trigger, first)

\* The due point after the span (_due_span's fourth result).
DueAfterSpan(trigger, first) ==
    CASE trigger.type = "once" -> Unset
      [] trigger.type = "interval" -> LastDue(trigger, first) + trigger.every
      [] trigger.type = "daily" -> NextDueAfter(trigger, LastDue(trigger, first))

----------------------------------------------------------------------------
(* Rows derived from rows.                                                 *)

NotBefore(d, rows) == d.occurrence.due + rows[d].entry.offset
Deadline(d, rows) == d.occurrence.due + rows[d].entry.deadline
PastDeadline(d, rows) == rows[d].entry.deadline # Unset /\ Deadline(d, rows) < now
Instance(d, rows) == rows[d].entry.instance

\* The rows _insert_dispatches adds for one occurrence.
NewDispatchIds(o, entries) ==
    {[occurrence |-> o, entry |-> e.entry_id] : e \in {x \in entries : x.enabled}}
NewDispatch(d, entries) ==
    [status |-> "pending", has_run |-> FALSE, lease_until |-> Unset, created_at |-> now,
     entry |-> CHOOSE e \in entries : e.entry_id = d.entry]

\* Mutant: a batch without enabled entries waits for dispatches.
AlwaysPending(entries) == "pending"

\* The occurrence's status once its dispatches are inserted.
StatusWithDispatches(entries) ==
    IF \E e \in entries : e.enabled THEN "pending" ELSE "completed"

\* _refresh_occurrence: the batch status its dispatches' statuses add up to.
BatchStatus(statuses) ==
    CASE statuses \cap {"running", "paused", "stopping"} # {} -> "running"
      [] statuses \cap {"running", "paused", "stopping"} = {}
           /\ statuses \cap {"accepted", "starting"} # {} -> "accepted"
      [] statuses \subseteq {"pending", "queued", "dispatching"} \cup TerminalDispatch
           /\ ~(statuses \subseteq TerminalDispatch) -> "pending"
      [] statuses = {"completed"} -> "completed"
      [] statuses \subseteq TerminalDispatch /\ "completed" \notin statuses -> "failed"
      [] statuses \subseteq TerminalDispatch /\ "completed" \in statuses
           /\ statuses # {"completed"} -> "partial_failed"

StatusesOf(o, rows) == {rows[d].status : d \in {x \in DOMAIN rows : x.occurrence = o}}

\* Mutant: a dispatch changes and its batch is not recomputed.
NotRefreshed(batch, rows, O) == batch

Refreshed(batch, rows, O) ==
    [o \in DOMAIN batch |->
        IF o \in O /\ StatusesOf(o, rows) # {}
        THEN [batch[o] EXCEPT !.status = BatchStatus(StatusesOf(o, rows))]
        ELSE batch[o]]

\* _promote_overlap: waiting occurrences whose schedule has nothing active.
\* Its loop sees its own promotions, but a schedule has at most one waiting
\* occurrence (OneOccurrenceAtATime).
Promotable(batch) ==
    {o \in DOMAIN batch :
        /\ batch[o].status = "queued_overlap"
        /\ \A q \in DOMAIN batch : q.schedule = o.schedule /\ q # o =>
              batch[q].status \notin ActiveOccurrence \ {"queued_overlap"}}

PromotedOccurrences(batch) ==
    [o \in DOMAIN batch |->
        IF o \in Promotable(batch)
        THEN [batch[o] EXCEPT !.status = StatusWithDispatches(batch[o].entries)]
        ELSE batch[o]]

PromotedDispatches(batch, rows) ==
    LET added == UNION {NewDispatchIds(o, batch[o].entries) : o \in Promotable(batch)}
    IN  [d \in DOMAIN rows \cup added |->
            IF d \in DOMAIN rows THEN rows[d]
            ELSE NewDispatch(d, batch[d.occurrence].entries)]

----------------------------------------------------------------------------
Init ==
    /\ now = 0
    /\ rollbacks = 0
    /\ plan = [s \in Schedules |->
                  [revision |-> 0, deleted |-> FALSE, enabled |-> FALSE, next_due |-> Unset,
                   spec |-> CHOOSE v \in PlanSpecs : TRUE]]
    /\ occ = [o \in {} |-> {}]
    /\ disp = [d \in {} |-> {}]
    /\ reserved = [p \in Procs |-> {}]
    /\ owesPump = [p \in Procs |-> FALSE]

Tick ==
    /\ now < MaxTime
    /\ now' = now + 1
    /\ UNCHANGED <<rollbacks, database, reserved, owesPump>>

\* The user or time synchronisation sets the clock back, for the n-th time.
SetClockBack(n) ==
    /\ rollbacks = n - 1
    /\ now > 0
    /\ now' \in 0..(now - 1)
    /\ rollbacks' = n
    /\ UNCHANGED <<database, reserved, owesPump>>

Saved(v, revision) ==
    [revision |-> revision, deleted |-> FALSE, enabled |-> v.enabled, spec |-> v,
     next_due |-> IF v.enabled THEN InitialNextDue(v.trigger) ELSE Unset]

create_plan(p, s, v) ==
    /\ LockFree(p)
    /\ plan[s].revision = 0            \* else schedule.identity_conflict
    /\ MaxRevision >= 1
    /\ plan' = [plan EXCEPT ![s] = Saved(v, 1)]
    /\ UNCHANGED <<now, rollbacks, occ, disp, reserved, owesPump>>

\* A stale expected_revision is refused and changes nothing
\* (schedule.revision_conflict); a deleted plan is not found.
update_plan(p, s, expected, v) ==
    /\ LockFree(p)
    /\ plan[s].revision > 0 /\ ~plan[s].deleted
    /\ plan[s].revision = expected
    /\ plan' = [plan EXCEPT ![s] = Saved(v, expected + 1)]
    /\ UNCHANGED <<now, rollbacks, occ, disp, reserved, owesPump>>

delete_plan(p, s, expected) ==
    /\ LockFree(p)
    /\ plan[s].revision > 0 /\ ~plan[s].deleted
    /\ plan[s].revision = expected
    /\ plan' = [plan EXCEPT ![s].revision = expected + 1, ![s].enabled = FALSE,
                            ![s].next_due = Unset, ![s].deleted = TRUE]
    /\ UNCHANGED <<now, rollbacks, occ, disp, reserved, owesPump>>

----------------------------------------------------------------------------
(* process_due: one transaction over every due plan.                       *)

DueSchedules ==
    {s \in Schedules :
        /\ plan[s].enabled /\ ~plan[s].deleted
        /\ plan[s].next_due # Unset /\ plan[s].next_due <= now}

LastDueOf(s) == LastDue(plan[s].spec.trigger, plan[s].next_due)

\* Recovery applies the misfire policy; the timer path does not.
WithinWindow(s, source) ==
    source = "recovery" =>
        /\ plan[s].spec.misfire = "catch_up_once"
        /\ now - LastDueOf(s) <= plan[s].spec.max_lateness

OccurrenceSource(s, source) ==
    IF source = "recovery" /\ WithinWindow(s, source) THEN "recovery_catch_up" ELSE source

NewOccurrenceId(s, source) ==
    [schedule |-> s, revision |-> plan[s].revision, due |-> LastDueOf(s),
     source |-> OccurrenceSource(s, source)]

\* Mutant: an accepted batch does not count as active.
ActiveUnlessAccepted(s) ==
    {o \in DOMAIN occ : o.schedule = s /\ occ[o].status \in ActiveOccurrence \ {"accepted"}}

ActiveOf(s) == {o \in DOMAIN occ : o.schedule = s /\ occ[o].status \in ActiveOccurrence}

\* Mutant: a waiting batch gets the status word of a waiting dispatch.
WaitsAsQueued(s, source) ==
    CASE ~WithinWindow(s, source) -> "skipped"
      [] WithinWindow(s, source) /\ ActiveOf(s) = {} ->
            StatusWithDispatches(plan[s].spec.entries)
      [] WithinWindow(s, source) /\ ActiveOf(s) # {} ->
            IF plan[s].spec.overlap = "queue_once" THEN "queued" ELSE "skipped"

InitialStatus(s, source) ==
    CASE ~WithinWindow(s, source) -> "skipped"
      [] WithinWindow(s, source) /\ ActiveOf(s) = {} ->
            StatusWithDispatches(plan[s].spec.entries)
      [] WithinWindow(s, source) /\ ActiveOf(s) # {} ->
            IF /\ plan[s].spec.overlap = "queue_once"
               /\ \A o \in ActiveOf(s) : occ[o].status # "queued_overlap"
            THEN "queued_overlap" ELSE "skipped"

\* INSERT OR IGNORE: an identity already on disk is left alone.
Materialized(source) ==
    {o \in {NewOccurrenceId(s, source) : s \in DueSchedules} : o \notin DOMAIN occ}

process_due(p, source) ==
    /\ LockFree(p)
    /\ occ' = [o \in DOMAIN occ \cup Materialized(source) |->
                  IF o \in DOMAIN occ THEN occ[o]
                  ELSE [status |-> InitialStatus(o.schedule, source),
                        first_due |-> plan[o.schedule].next_due,
                        entries |-> plan[o.schedule].spec.entries]]
    /\ LET started == {o \in Materialized(source) : InitialStatus(o.schedule, source) = "pending"}
           added == UNION {NewDispatchIds(o, plan[o.schedule].spec.entries) : o \in started}
       IN  disp' = [d \in DOMAIN disp \cup added |->
                       IF d \in DOMAIN disp THEN disp[d]
                       ELSE NewDispatch(d, plan[d.occurrence.schedule].spec.entries)]
    /\ plan' = [s \in Schedules |->
                   IF s \notin DueSchedules THEN plan[s]
                   ELSE LET next == DueAfterSpan(plan[s].spec.trigger, plan[s].next_due)
                        IN  [plan[s] EXCEPT !.next_due = next, !.enabled = next # Unset]]
    /\ owesPump' = [owesPump EXCEPT ![p] = TRUE]
    /\ UNCHANGED <<now, rollbacks, reserved>>

----------------------------------------------------------------------------
(* pump                                                                    *)

\* Mutant: a hand-over that was cut off is never taken up again.
LeasesKept(rows) == rows

\* Expired hand-over leases go back to pending.
LeasesRecovered(rows) ==
    [d \in DOMAIN rows |->
        IF rows[d].status = "dispatching" /\ rows[d].lease_until # Unset
              /\ rows[d].lease_until <= now
        THEN [rows[d] EXCEPT !.status = "pending", !.lease_until = Unset]
        ELSE rows[d]]

\* Mutant: the deadline ends dispatches that already run.
ExpiredUnfinished(rows) ==
    {d \in DOMAIN rows : rows[d].status \notin TerminalDispatch /\ PastDeadline(d, rows)}

ExpiredDispatches(rows) ==
    {d \in DOMAIN rows : rows[d].status \in {"pending", "queued"} /\ PastDeadline(d, rows)}

WithExpired(rows) ==
    [d \in DOMAIN rows |->
        IF d \in ExpiredDispatches(rows) THEN [rows[d] EXCEPT !.status = "expired"]
        ELSE rows[d]]

Candidates(rows) ==
    {d \in DOMAIN rows :
        /\ rows[d].status \in {"pending", "queued"}
        /\ NotBefore(d, rows) <= now
        /\ ~PastDeadline(d, rows)}

\* Mutant: the order of the entries is not part of the sort key.
BeforeWithoutOrder(c, d, rows) ==
    \/ NotBefore(c, rows) < NotBefore(d, rows)
    \/ NotBefore(c, rows) = NotBefore(d, rows) /\ rows[c].created_at < rows[d].created_at

\* ORDER BY not_before, created_at, occurrence_id, entry_order.  The order of
\* two occurrences' digests is arbitrary, so neither precedes the other here.
Before(c, d, rows) ==
    \/ NotBefore(c, rows) < NotBefore(d, rows)
    \/ /\ NotBefore(c, rows) = NotBefore(d, rows)
       /\ \/ rows[c].created_at < rows[d].created_at
          \/ /\ rows[c].created_at = rows[d].created_at
             /\ c.occurrence = d.occurrence
             /\ rows[c].entry.order < rows[d].entry.order

\* Mutant: a paused run does not occupy its instance.
FreeWhilePaused(i, rows) ==
    \A d \in DOMAIN rows :
        Instance(d, rows) = i => rows[d].status \notin Occupying \ {"paused"}

InstanceFree(i, rows) ==
    \A d \in DOMAIN rows : Instance(d, rows) = i => rows[d].status \notin Occupying

\* H holds the FIFO head of every free instance and nothing else.
Heads(H, rows) ==
    /\ \A h \in H : InstanceFree(Instance(h, rows), rows)
    /\ \A c \in Candidates(rows) : InstanceFree(Instance(c, rows), rows) =>
          \E h \in H : Instance(h, rows) = Instance(c, rows)
    /\ \A h, g \in H : Instance(h, rows) = Instance(g, rows) => h = g
    /\ \A h \in H : \A c \in Candidates(rows) :
          Instance(c, rows) = Instance(h, rows) => ~Before(c, h, rows)

WithReserved(rows, H) ==
    [d \in DOMAIN rows |->
        CASE d \in H -> [rows[d] EXCEPT !.status = "dispatching", !.lease_until = now + Lease]
          [] d \in Candidates(rows) \ H -> [rows[d] EXCEPT !.status = "queued"]
          [] d \notin Candidates(rows) \cup H -> rows[d]]

\* The rows the reservation loop of pump sees.
PumpRows == WithExpired(PromotedDispatches(occ, LeasesRecovered(disp)))

\* The first transaction of pump.
pump_reserve(p) ==
    /\ LockFree(p)
    /\ owesPump[p]
    /\ \E H \in SUBSET Candidates(PumpRows) :
          /\ Heads(H, PumpRows)
          /\ disp' = WithReserved(PumpRows, H)
          /\ reserved' = [reserved EXCEPT ![p] = H]
    /\ occ' = Refreshed(PromotedOccurrences(occ), PumpRows,
                 {d.occurrence : d \in
                    ExpiredDispatches(PromotedDispatches(occ, LeasesRecovered(disp)))})
    /\ owesPump' = [owesPump EXCEPT ![p] = FALSE]
    /\ UNCHANGED <<now, rollbacks, plan>>

\* The dispatches pump may hand over next: it follows the candidate order.
NextHandover(p) ==
    {d \in reserved[p] : \A c \in reserved[p] : ~Before(c, d, disp)}

\* What an answer of the Execution Service makes of the dispatch record.
StatusAfterAnswer(answer) ==
    CASE answer = "accepted" -> "accepted"
      [] answer = "transient" -> "pending"
      [] answer = "permanent" -> "rejected"

Answers == {"accepted", "transient", "permanent"}

\* The transaction that stores the answer for one reserved dispatch.
pump_answer(p, d, answer) ==
    /\ d \in NextHandover(p)
    /\ disp' = [disp EXCEPT ![d].status = StatusAfterAnswer(answer),
                            ![d].lease_until = Unset,
                            ![d].has_run = @ \/ answer = "accepted"]
    /\ occ' = Refreshed(occ, disp', {d.occurrence})
    /\ reserved' = [reserved EXCEPT ![p] = @ \ {d}]
    /\ UNCHANGED <<now, rollbacks, plan, owesPump>>

\* The process dies or its database fails between two transactions of pump,
\* or before the pump it owes: what it reserved stays "dispatching".
pump_interrupted(p) ==
    /\ Interrupts
    /\ now + Lease <= MaxTime   \* bound: the lease can run out before the clock stops
    /\ reserved[p] # {} \/ owesPump[p]
    /\ reserved' = [reserved EXCEPT ![p] = {}]
    /\ owesPump' = [owesPump EXCEPT ![p] = FALSE]
    /\ UNCHANGED <<now, rollbacks, database>>

----------------------------------------------------------------------------
\* Mutant: a late report is stored over the terminal status.
RecordAnyReport(p, d, status) ==
    /\ LockFree(p)
    /\ disp[d].has_run
    /\ LET rows == [disp EXCEPT ![d].status = status]
           batch == Refreshed(occ, rows, {d.occurrence})
       IN  /\ disp' = PromotedDispatches(batch, rows)
           /\ occ' = PromotedOccurrences(batch)
    /\ owesPump' = [owesPump EXCEPT ![p] = @ \/ status \in TerminalDispatch]
    /\ UNCHANGED <<now, rollbacks, plan, reserved>>

\* An unknown dispatch, a run_id other than the stored one and a different
\* terminal status are refused; the same terminal status is a no-op.
record_run_status(p, d, status) ==
    /\ LockFree(p)
    /\ disp[d].has_run
    /\ disp[d].status \notin TerminalDispatch
    /\ LET rows == [disp EXCEPT ![d].status = status]
           batch == Refreshed(occ, rows, {d.occurrence})
       IN  /\ disp' = PromotedDispatches(batch, rows)
           /\ occ' = PromotedOccurrences(batch)
    /\ owesPump' = [owesPump EXCEPT ![p] = @ \/ status \in TerminalDispatch]
    /\ UNCHANGED <<now, rollbacks, plan, reserved>>

----------------------------------------------------------------------------
Edit(p) ==
    \E s \in Schedules :
        \/ \E v \in PlanSpecs : create_plan(p, s, v)
        \/ \E expected \in 1..(MaxRevision - 1) :
              (\E v \in PlanSpecs : update_plan(p, s, expected, v)) \/ delete_plan(p, s, expected)

Pump(p) ==
    \/ pump_reserve(p)
    \/ \E d \in reserved[p], answer \in Answers : pump_answer(p, d, answer)
    \/ pump_interrupted(p)

Next ==
    \/ Tick
    \/ \E n \in 1..MaxRollbacks : SetClockBack(n)
    \/ \E p \in Procs :
          \/ Edit(p)
          \/ \E source \in {"timer", "recovery"} : process_due(p, source)
          \/ Pump(p)
          \/ \E d \in DOMAIN disp, status \in RunStatus : record_run_status(p, d, status)

Spec == Init /\ [][Next]_vars

(* The Hub's loop wakes at least every 60 s, a pump that started goes on,   *)
(* the clock moves, a run that was accepted ends and its monitor thread     *)
(* gets the lock, and the launcher does not refuse transiently for ever.    *)
Fairness ==
    /\ WF_vars(Tick)
    /\ \A p \in Procs :
          /\ WF_vars(process_due(p, "timer"))
          /\ WF_vars(pump_reserve(p))
          /\ WF_vars(\E d \in DOMAIN disp, a \in Answers : pump_answer(p, d, a))
          /\ SF_vars(\E d \in DOMAIN disp : pump_answer(p, d, "accepted"))
          /\ SF_vars(\E d \in DOMAIN disp, st \in RunStatus \cap TerminalDispatch :
                       record_run_status(p, d, st))

FairSpec == Spec /\ Fairness

----------------------------------------------------------------------------
(* Properties.                                                             *)

(* Every table has well-formed rows and every dispatch belongs to a stored  *)
(* occurrence.                                                              *)
TypeOK ==
    /\ now \in 0..MaxTime
    /\ rollbacks \in 0..MaxRollbacks
    /\ plan \in [Schedules -> Plan]
    /\ DOMAIN occ \subseteq OccurrenceId
    /\ \A o \in DOMAIN occ : occ[o] \in Occurrence
    /\ DOMAIN disp \subseteq DispatchId
    /\ \A d \in DOMAIN disp : disp[d] \in Dispatch /\ d.occurrence \in DOMAIN occ
    /\ reserved \in [Procs -> SUBSET DOMAIN disp]
    /\ owesPump \in [Procs -> BOOLEAN]

(* One instance never has two dispatches in hand-over or executing, whatever *)
(* the order of pumps, reports, lease recoveries and interruptions (pump's   *)
(* "occupied" query).                                                        *)
SerialOccupancy ==
    \A c, d \in DOMAIN disp :
        /\ Instance(c, disp) = Instance(d, disp)
        /\ disp[c].status \in Occupying /\ disp[d].status \in Occupying
        => c = d

(* The stored batch status is always the one its dispatches add up to,      *)
(* although several transactions change a dispatch without calling          *)
(* _refresh_occurrence; and only skipped, waiting and empty batches have no *)
(* dispatch.                                                                *)
BatchAgreement ==
    \A o \in DOMAIN occ :
        IF StatusesOf(o, disp) # {}
        THEN occ[o].status = BatchStatus(StatusesOf(o, disp))
        ELSE \/ occ[o].status \in {"skipped", "queued_overlap"}
             \/ /\ occ[o].status = "completed"
                /\ \A e \in occ[o].entries : ~e.enabled

(* A schedule has at most one batch in progress and at most one waiting     *)
(* behind it: overlap never accumulates.                                    *)
OneOccurrenceAtATime ==
    \A o, q \in DOMAIN occ :
        o.schedule = q.schedule /\ o # q =>
            /\ ~(occ[o].status = "queued_overlap" /\ occ[q].status = "queued_overlap")
            /\ ~(/\ occ[o].status \in ActiveOccurrence \ {"queued_overlap"}
                 /\ occ[q].status \in ActiveOccurrence \ {"queued_overlap"})

(* A due point of one plan revision lies in the span of at most one         *)
(* occurrence, and none between two occurrences' spans is left out: the     *)
(* clock going back, a restart or two processes neither repeat nor lose one. *)
DuePointsPartitioned ==
    \A o, q \in DOMAIN occ :
        o.schedule = q.schedule /\ o.revision = q.revision /\ o # q =>
            /\ o.due < occ[q].first_due \/ q.due < occ[o].first_due
            /\ o.due < q.due /\ plan[o.schedule].revision = o.revision =>
                  \E r \in DOMAIN occ :
                      /\ r.schedule = o.schedule /\ r.revision = o.revision
                      /\ occ[r].first_due = NextDueAfter(plan[o.schedule].spec.trigger, o.due)

(* Entries of one batch on one instance run in list order: an entry is in   *)
(* hand-over or has a run only when every earlier entry that was due no     *)
(* later has ended (FIFO of pump, through retries and lease recoveries).    *)
BatchOrder ==
    \A c, d \in DOMAIN disp :
        /\ c.occurrence = d.occurrence /\ Instance(c, disp) = Instance(d, disp)
        /\ disp[c].entry.order < disp[d].entry.order
        /\ disp[c].entry.offset <= disp[d].entry.offset
        /\ disp[d].status \in Occupying \/ disp[d].has_run
        => disp[c].status \in TerminalDispatch

(* No transaction turns a finished dispatch into anything else or removes a *)
(* dispatch or an occurrence.                                               *)
TerminalIsFinal ==
    [][/\ DOMAIN occ \subseteq DOMAIN occ'
       /\ \A d \in DOMAIN disp :
             /\ d \in DOMAIN disp'
             /\ disp[d].status \in TerminalDispatch => disp'[d] = disp[d]]_vars

(* A dispatch that holds a run keeps it, and is never taken out of the      *)
(* running again: after the answer only the run's own reports move it.      *)
AdmittedStaysAdmitted ==
    [][\A d \in DOMAIN disp :
          disp[d].has_run => /\ disp'[d].has_run
                             /\ disp'[d].status \in RunStatus]_vars

(* When every due plan has fired, every batch comes to an end: no dispatch  *)
(* is left in hand-over by an interrupted pump and no waiting batch is      *)
(* forgotten.                                                               *)
AllSettle ==
    <>[](/\ \A o \in DOMAIN occ : occ[o].status \notin ActiveOccurrence
         /\ \A d \in DOMAIN disp : disp[d].status \in TerminalDispatch)

=============================================================================
