--------------------------- MODULE ScheduleProofs ---------------------------
(***************************************************************************)
(* Theorems about ScheduleService for every set of schedules, plans,       *)
(* instances and processes and every value of the bounds.                  *)
(***************************************************************************)
EXTENDS ScheduleService, TLAPS

(* The due-point arithmetic stays within the naturals: _next_due_after     *)
(* returns an instant or NULL.                                             *)
LEMMA NextDueAfterType ==
    ASSUME NEW v \in PlanSpecs, NEW t \in 0..MaxTime
    PROVE  NextDueAfter(v.trigger, t) \in Nat \cup {Unset}
<1>0. v.trigger \in Trigger
  BY ConstantsAssumption DEF SchedulePlan
<1>1. CASE v.trigger.type = "once"
  BY <1>0, <1>1 DEF NextDueAfter, Trigger
<1>2. CASE v.trigger.type = "interval"
  <2>1. CASE t < v.trigger.at
    BY <1>0, <1>2, <2>1 DEF NextDueAfter, Trigger
  <2>2. CASE ~(t < v.trigger.at)
    <3>1. ((t - v.trigger.at) \div v.trigger.every + 1) \in Nat
      BY <1>0, <2>2, ConstantsAssumption DEF Trigger
    <3>2. \A a, b \in Nat : a * b \in Nat
      OBVIOUS
    <3>3. ((t - v.trigger.at) \div v.trigger.every + 1) * v.trigger.every \in Nat
      BY <1>0, <3>1, <3>2 DEF Trigger
    <3> QED BY <1>0, <1>2, <2>2, <3>3 DEF NextDueAfter, Trigger
  <2> QED BY <2>1, <2>2
<1>3. CASE v.trigger.type = "daily"
  <2> DEFINE D == DailyAt[v.trigger.at]
  <2>1. D \subseteq Nat
    BY <1>3, ConstantsAssumption
  <2>2. \E u \in {w \in D : w > t} : \A w \in {w \in D : w > t} : u <= w
    BY <1>3, ConstantsAssumption
  <2>3. Earliest({w \in D : w > t}) \in {w \in D : w > t}
    BY <2>2 DEF Earliest
  <2> QED BY <1>3, <2>1, <2>3 DEF NextDueAfter
<1> QED BY <1>0, <1>1, <1>2, <1>3 DEF Trigger

(* The collapsed due point of _due_span never lies in the future.          *)
LEMMA LastDueType ==
    ASSUME NEW v \in PlanSpecs, NEW first \in Nat, first <= now, now \in 0..MaxTime
    PROVE  LastDue(v.trigger, first) \in 0..now
<1>0. v.trigger \in Trigger
  BY ConstantsAssumption DEF SchedulePlan
<1>1. CASE v.trigger.type = "once"
  BY <1>0, <1>1, ConstantsAssumption DEF LastDue, Trigger
<1>2. CASE v.trigger.type = "interval"
  <2> DEFINE k == (now - first) \div v.trigger.every
  <2>1. k \in Nat /\ now - first \in Nat /\ v.trigger.every \in Nat \ {0}
    BY <1>0, ConstantsAssumption DEF Trigger
  <2>2. k * v.trigger.every <= now - first
    BY <2>1
  <2>3. k * v.trigger.every \in Nat
    BY <2>1
  <2>4. LastDue(v.trigger, first) = first + k * v.trigger.every
    BY <1>0, <1>2 DEF LastDue, Trigger
  <2> HIDE DEF k
  <2> QED BY <2>1, <2>2, <2>3, <2>4, ConstantsAssumption
<1>3. CASE v.trigger.type = "daily"
  <2> DEFINE D == DailyAt[v.trigger.at]
             S == {first} \cup {t \in D : t <= now}
  <2>1. D \subseteq Nat
    BY <1>3, ConstantsAssumption
  <2>2. \E u \in S : \A w \in S : w <= u
    <3>1. CASE \E u \in D : u <= now
      <4>1. PICK u \in D : u <= now /\ \A w \in D : w <= now => w <= u
        BY <1>3, <3>1, ConstantsAssumption
      <4>2. CASE first <= u
        BY <2>1, <4>1, <4>2
      <4>3. CASE ~(first <= u)
        BY <2>1, <4>1, <4>3
      <4> QED BY <4>2, <4>3
    <3>2. CASE ~(\E u \in D : u <= now)
      BY <3>2
    <3> QED BY <3>1, <3>2
  <2>3. Latest(S) \in S
    BY <2>2 DEF Latest
  <2>4. LastDue(v.trigger, first) = Latest(S)
    BY <1>0, <1>3 DEF LastDue, Trigger
  <2> QED BY <2>1, <2>3, <2>4, ConstantsAssumption
<1> QED BY <1>0, <1>1, <1>2, <1>3 DEF Trigger

(* The due point that follows a span is an instant or NULL.                *)
LEMMA DueAfterSpanType ==
    ASSUME NEW v \in PlanSpecs, NEW first \in Nat, first <= now, now \in 0..MaxTime
    PROVE  DueAfterSpan(v.trigger, first) \in Nat \cup {Unset}
<1>0. v.trigger \in Trigger
  BY ConstantsAssumption DEF SchedulePlan
<1>1. LastDue(v.trigger, first) \in 0..now
  BY LastDueType
<1>2. LastDue(v.trigger, first) \in 0..MaxTime
  BY <1>1, ConstantsAssumption
<1>3. NextDueAfter(v.trigger, LastDue(v.trigger, first)) \in Nat \cup {Unset}
  BY <1>2, NextDueAfterType
<1>4. CASE v.trigger.type = "once"
  BY <1>4 DEF DueAfterSpan
<1>5. CASE v.trigger.type = "interval"
  BY <1>0, <1>1, <1>5, ConstantsAssumption DEF DueAfterSpan, Trigger
<1>6. CASE v.trigger.type = "daily"
  BY <1>3, <1>6 DEF DueAfterSpan
<1> QED BY <1>0, <1>4, <1>5, <1>6 DEF Trigger

----------------------------------------------------------------------------
(* The tables of the database are well formed.                             *)
RowsOK(batch, rows) ==
    /\ DOMAIN batch \subseteq OccurrenceId
    /\ \A o \in DOMAIN batch : batch[o] \in Occurrence
    /\ DOMAIN rows \subseteq DispatchId
    /\ \A d \in DOMAIN rows : rows[d] \in Dispatch /\ d.occurrence \in DOMAIN batch

(* _insert_dispatches adds well-formed rows of the occurrence.             *)
LEMMA NewDispatchType ==
    ASSUME NEW o \in OccurrenceId, NEW entries \in SUBSET PlanEntry,
           NEW d \in NewDispatchIds(o, entries), now \in Nat
    PROVE  /\ d \in DispatchId
           /\ d.occurrence = o
           /\ NewDispatch(d, entries) \in Dispatch
           /\ NewDispatch(d, entries).status = "pending"
           /\ ~NewDispatch(d, entries).has_run
<1>1. PICK e \in entries : e.enabled /\ d = [occurrence |-> o, entry |-> e.entry_id]
  BY DEF NewDispatchIds
<1>2. e.entry_id \in Nat
  BY <1>1 DEF PlanEntry
<1>3. d \in DispatchId /\ d.occurrence = o /\ d.entry = e.entry_id
  BY <1>1, <1>2 DEF DispatchId
<1>4. (CHOOSE x \in entries : x.entry_id = d.entry) \in entries
  BY <1>1, <1>3
<1>5. (CHOOSE x \in entries : x.entry_id = d.entry) \in PlanEntry
  BY <1>4
<1> QED BY <1>3, <1>5 DEF NewDispatch, Dispatch, DispatchStatus, Unset

(* A batch status computed from dispatch statuses is an occurrence status. *)
LEMMA BatchStatusType ==
    ASSUME NEW st \in SUBSET DispatchStatus, st # {}
    PROVE  BatchStatus(st) \in OccurrenceStatus
<1>1. \/ st \cap {"running", "paused", "stopping"} # {}
      \/ /\ st \cap {"running", "paused", "stopping"} = {}
         /\ st \cap {"accepted", "starting"} # {}
      \/ /\ st \subseteq {"pending", "queued", "dispatching"} \cup TerminalDispatch
         /\ ~(st \subseteq TerminalDispatch)
      \/ st = {"completed"}
      \/ st \subseteq TerminalDispatch /\ "completed" \notin st
      \/ st \subseteq TerminalDispatch /\ "completed" \in st /\ st # {"completed"}
  BY DEF DispatchStatus, Occupying, TerminalDispatch
<1>2. BatchStatus(st) \in {"running", "accepted", "pending", "completed", "failed", "partial_failed"}
  BY <1>1 DEF BatchStatus
<1> QED BY <1>2 DEF OccurrenceStatus, ActiveOccurrence

(* _refresh_occurrence keeps the tables well formed.                       *)
LEMMA RefreshedType ==
    ASSUME NEW batch, NEW rows, NEW O, RowsOK(batch, rows)
    PROVE  RowsOK(Refreshed(batch, rows, O), rows)
<1>1. DOMAIN Refreshed(batch, rows, O) = DOMAIN batch
  BY DEF Refreshed
<1>2. ASSUME NEW o \in DOMAIN batch
      PROVE  Refreshed(batch, rows, O)[o] \in Occurrence
  <2>1. batch[o] \in Occurrence
    BY DEF RowsOK
  <2>2. StatusesOf(o, rows) \in SUBSET DispatchStatus
    BY DEF RowsOK, StatusesOf, Dispatch
  <2>3. CASE o \in O /\ StatusesOf(o, rows) # {}
    <3>1. BatchStatus(StatusesOf(o, rows)) \in OccurrenceStatus
      BY <2>2, <2>3, BatchStatusType
    <3>2. Refreshed(batch, rows, O)[o]
             = [batch[o] EXCEPT !.status = BatchStatus(StatusesOf(o, rows))]
      BY <2>3 DEF Refreshed
    <3> QED BY <2>1, <3>1, <3>2 DEF Occurrence
  <2>4. CASE ~(o \in O /\ StatusesOf(o, rows) # {})
    BY <2>1, <2>4 DEF Refreshed
  <2> QED BY <2>3, <2>4
<1> QED BY <1>1, <1>2 DEF RowsOK

(* _promote_overlap keeps the tables well formed, changes no existing      *)
(* dispatch and inserts only pending ones.                                 *)
LEMMA PromotedType ==
    ASSUME NEW batch, NEW rows, RowsOK(batch, rows), now \in Nat
    PROVE  /\ RowsOK(PromotedOccurrences(batch), PromotedDispatches(batch, rows))
           /\ DOMAIN rows \subseteq DOMAIN PromotedDispatches(batch, rows)
           /\ \A d \in DOMAIN rows : PromotedDispatches(batch, rows)[d] = rows[d]
           /\ \A d \in DOMAIN PromotedDispatches(batch, rows) \ DOMAIN rows :
                 /\ PromotedDispatches(batch, rows)[d].status = "pending"
                 /\ ~PromotedDispatches(batch, rows)[d].has_run
<1> DEFINE new == PromotedDispatches(batch, rows)
<1>1. DOMAIN rows \subseteq DOMAIN new /\ \A d \in DOMAIN rows : new[d] = rows[d]
  BY DEF PromotedDispatches
<1>2. ASSUME NEW d \in DOMAIN new \ DOMAIN rows
      PROVE  d \in DispatchId /\ d.occurrence \in DOMAIN batch
             /\ new[d] \in Dispatch /\ new[d].status = "pending"
             /\ ~new[d].has_run
  <2>1. PICK o \in Promotable(batch) : d \in NewDispatchIds(o, batch[o].entries)
    BY DEF PromotedDispatches
  <2>2. o \in DOMAIN batch /\ o \in OccurrenceId /\ batch[o].entries \in SUBSET PlanEntry
    BY DEF Promotable, RowsOK, Occurrence
  <2>3. /\ d \in DispatchId /\ d.occurrence = o
        /\ NewDispatch(d, batch[o].entries) \in Dispatch
        /\ NewDispatch(d, batch[o].entries).status = "pending"
        /\ NewDispatch(d, batch[o].entries).has_run = FALSE
    BY <2>1, <2>2, NewDispatchType
  <2>4. new[d] = NewDispatch(d, batch[d.occurrence].entries)
    BY DEF PromotedDispatches
  <2> QED BY <2>2, <2>3, <2>4
<1>3. DOMAIN PromotedOccurrences(batch) = DOMAIN batch
  BY DEF PromotedOccurrences
<1>4. ASSUME NEW o \in DOMAIN batch
      PROVE  PromotedOccurrences(batch)[o] \in Occurrence
  BY DEF PromotedOccurrences, RowsOK, Occurrence, StatusWithDispatches, OccurrenceStatus,
         ActiveOccurrence
<1> QED BY <1>1, <1>2, <1>3, <1>4 DEF RowsOK

(* Lease recovery only sends hand-overs back to pending.                   *)
LEMMA LeasesRecoveredType ==
    ASSUME NEW batch, NEW rows, RowsOK(batch, rows)
    PROVE  /\ RowsOK(batch, LeasesRecovered(rows))
           /\ DOMAIN LeasesRecovered(rows) = DOMAIN rows
           /\ \A d \in DOMAIN rows :
                 \/ LeasesRecovered(rows)[d] = rows[d]
                 \/ /\ rows[d].status = "dispatching"
                    /\ LeasesRecovered(rows)[d].status = "pending"
                    /\ LeasesRecovered(rows)[d].has_run = rows[d].has_run
<1>1. ASSUME NEW d \in DOMAIN rows
      PROVE  /\ LeasesRecovered(rows)[d] \in Dispatch
             /\ \/ LeasesRecovered(rows)[d] = rows[d]
                \/ /\ rows[d].status = "dispatching"
                   /\ LeasesRecovered(rows)[d].status = "pending"
                   /\ LeasesRecovered(rows)[d].has_run = rows[d].has_run
  BY DEF RowsOK, LeasesRecovered, Dispatch, DispatchStatus
<1>2. DOMAIN LeasesRecovered(rows) = DOMAIN rows
  BY DEF LeasesRecovered
<1> QED BY <1>1, <1>2 DEF RowsOK

(* Expiry only ends dispatches that wait.                                  *)
LEMMA WithExpiredType ==
    ASSUME NEW batch, NEW rows, RowsOK(batch, rows)
    PROVE  /\ RowsOK(batch, WithExpired(rows))
           /\ DOMAIN WithExpired(rows) = DOMAIN rows
           /\ \A d \in DOMAIN rows :
                 \/ WithExpired(rows)[d] = rows[d]
                 \/ /\ rows[d].status \in {"pending", "queued"}
                    /\ WithExpired(rows)[d].status = "expired"
                    /\ WithExpired(rows)[d].has_run = rows[d].has_run
<1>1. ASSUME NEW d \in DOMAIN rows
      PROVE  /\ WithExpired(rows)[d] \in Dispatch
             /\ \/ WithExpired(rows)[d] = rows[d]
                \/ /\ rows[d].status \in {"pending", "queued"}
                   /\ WithExpired(rows)[d].status = "expired"
                   /\ WithExpired(rows)[d].has_run = rows[d].has_run
  BY DEF RowsOK, WithExpired, ExpiredDispatches, Dispatch, DispatchStatus, TerminalDispatch
<1>2. DOMAIN WithExpired(rows) = DOMAIN rows
  BY DEF WithExpired
<1> QED BY <1>1, <1>2 DEF RowsOK

(* What pump does before it reserves: a dispatch that neither waits nor is *)
(* in hand-over is left alone, and nothing starts to occupy an instance.   *)
LEMMA PumpRowsType ==
    ASSUME RowsOK(occ, disp), now \in Nat
    PROVE  /\ RowsOK(PromotedOccurrences(occ), PumpRows)
           /\ DOMAIN disp \subseteq DOMAIN PumpRows
           /\ \A d \in DOMAIN disp : disp[d].status \notin {"pending", "queued", "dispatching"}
                 => PumpRows[d] = disp[d]
           /\ \A d \in DOMAIN PumpRows : PumpRows[d].status \in Occupying
                 => d \in DOMAIN disp /\ PumpRows[d] = disp[d]
           /\ \A d \in DOMAIN PumpRows : PumpRows[d].has_run
                 => d \in DOMAIN disp /\ disp[d].has_run
<1> DEFINE r1 == LeasesRecovered(disp)
           r2 == PromotedDispatches(occ, r1)
<1>1. /\ RowsOK(occ, r1) /\ DOMAIN r1 = DOMAIN disp
      /\ \A d \in DOMAIN disp :
            \/ r1[d] = disp[d]
            \/ /\ disp[d].status = "dispatching"
               /\ r1[d].status = "pending" /\ r1[d].has_run = disp[d].has_run
  BY LeasesRecoveredType
<1> HIDE DEF r1
<1>2. /\ RowsOK(PromotedOccurrences(occ), r2)
      /\ DOMAIN r1 \subseteq DOMAIN r2
      /\ \A d \in DOMAIN r1 : r2[d] = r1[d]
      /\ \A d \in DOMAIN r2 \ DOMAIN r1 : r2[d].status = "pending" /\ ~r2[d].has_run
  BY <1>1, PromotedType
<1> HIDE DEF r2
<1>3. /\ RowsOK(PromotedOccurrences(occ), WithExpired(r2))
      /\ DOMAIN WithExpired(r2) = DOMAIN r2
      /\ \A d \in DOMAIN r2 :
            \/ WithExpired(r2)[d] = r2[d]
            \/ /\ r2[d].status \in {"pending", "queued"}
               /\ WithExpired(r2)[d].status = "expired"
               /\ WithExpired(r2)[d].has_run = r2[d].has_run
  BY <1>2, WithExpiredType
<1>4. PumpRows = WithExpired(r2)
  BY DEF PumpRows, r1, r2
<1>5. "pending" \notin Occupying /\ "queued" \notin Occupying /\ "expired" \notin Occupying
  BY DEF Occupying
<1> HIDE DEF PumpRows
<1>6. \A d \in DOMAIN disp : disp[d].status \notin {"pending", "queued", "dispatching"}
         => PumpRows[d] = disp[d]
  BY <1>1, <1>2, <1>3, <1>4
<1>7. \A d \in DOMAIN PumpRows : PumpRows[d].status \in Occupying
         => d \in DOMAIN disp /\ PumpRows[d] = disp[d]
  BY <1>1, <1>2, <1>3, <1>4, <1>5
<1>8. \A d \in DOMAIN PumpRows : PumpRows[d].has_run => d \in DOMAIN disp /\ disp[d].has_run
  BY <1>1, <1>2, <1>3, <1>4
<1> QED BY <1>1, <1>2, <1>3, <1>4, <1>6, <1>7, <1>8

(* The reservation only touches waiting candidates, and only the chosen    *)
(* heads start to occupy their instance.                                   *)
LEMMA WithReservedType ==
    ASSUME NEW batch, NEW rows, RowsOK(batch, rows), now \in Nat,
           NEW H \in SUBSET Candidates(rows)
    PROVE  /\ RowsOK(batch, WithReserved(rows, H))
           /\ DOMAIN WithReserved(rows, H) = DOMAIN rows
           /\ H \subseteq DOMAIN rows
           /\ \A d \in DOMAIN rows :
                 /\ WithReserved(rows, H)[d].entry = rows[d].entry
                 /\ WithReserved(rows, H)[d].has_run = rows[d].has_run
                 /\ d \in H => WithReserved(rows, H)[d].status = "dispatching"
                 /\ d \notin H => \/ WithReserved(rows, H)[d] = rows[d]
                                  \/ WithReserved(rows, H)[d].status = "queued"
                 /\ rows[d].status \notin {"pending", "queued"}
                       => WithReserved(rows, H)[d] = rows[d]
<1> DEFINE new == WithReserved(rows, H)
<1>1. DOMAIN new = DOMAIN rows
  BY DEF WithReserved
<1>2. H \subseteq DOMAIN rows /\ \A d \in Candidates(rows) : rows[d].status \in {"pending", "queued"}
  BY DEF Candidates
<1>3. now + Lease \in Nat
  BY ConstantsAssumption
<1>4. ASSUME NEW d \in H
      PROVE  new[d] = [rows[d] EXCEPT !.status = "dispatching", !.lease_until = now + Lease]
  BY <1>2, <1>4 DEF WithReserved
<1>5. ASSUME NEW d \in Candidates(rows) \ H
      PROVE  new[d] = [rows[d] EXCEPT !.status = "queued"]
  BY <1>5 DEF WithReserved, Candidates
<1>6. ASSUME NEW d \in DOMAIN rows \ Candidates(rows)
      PROVE  new[d] = rows[d]
  BY <1>6 DEF WithReserved
<1> HIDE DEF new
<1>7. \A d \in DOMAIN rows : rows[d] \in Dispatch
  BY DEF RowsOK
<1>8. ASSUME NEW d \in DOMAIN rows
      PROVE  /\ new[d] \in Dispatch
             /\ new[d].entry = rows[d].entry
             /\ new[d].has_run = rows[d].has_run
             /\ d \in H => new[d].status = "dispatching"
             /\ d \notin H => new[d] = rows[d] \/ new[d].status = "queued"
             /\ rows[d].status \notin {"pending", "queued"} => new[d] = rows[d]
  <2>1. CASE d \in H
    BY <1>2, <1>3, <1>4, <1>7, <2>1 DEF Dispatch, DispatchStatus, Occupying
  <2>2. CASE d \in Candidates(rows) \ H
    BY <1>2, <1>5, <1>7, <2>2 DEF Dispatch, DispatchStatus
  <2>3. CASE d \notin Candidates(rows)
    BY <1>6, <1>7, <2>3
  <2> QED BY <2>1, <2>2, <2>3
<1>9. RowsOK(batch, new)
  BY <1>1, <1>8 DEF RowsOK
<1> QED BY <1>1, <1>2, <1>8, <1>9 DEF new

----------------------------------------------------------------------------
(* A saved plan is a well-formed row.                                      *)
LEMMA SavedType ==
    ASSUME NEW v \in PlanSpecs, NEW r \in Nat, now \in 0..MaxTime
    PROVE  Saved(v, r) \in Plan
<1>1. v.trigger \in Trigger /\ v.enabled \in BOOLEAN
  BY ConstantsAssumption DEF SchedulePlan
<1>2. InitialNextDue(v.trigger) \in Nat \cup {Unset}
  BY <1>1, NextDueAfterType DEF InitialNextDue, Trigger
<1> QED BY <1>1, <1>2 DEF Saved, Plan, Unset

(* process_due materializes well-formed occurrences and dispatches.        *)
LEMMA ProcessDueType ==
    ASSUME TypeOK, NEW p \in Procs, NEW source \in {"timer", "recovery"},
           process_due(p, source)
    PROVE  /\ RowsOK(occ', disp')
           /\ plan' \in [Schedules -> Plan]
           /\ DOMAIN disp \subseteq DOMAIN disp'
           /\ \A d \in DOMAIN disp : disp'[d] = disp[d]
           /\ \A d \in DOMAIN disp' \ DOMAIN disp :
                 disp'[d].status = "pending" /\ ~disp'[d].has_run
<1> USE DEF TypeOK
<1>1. ASSUME NEW s \in DueSchedules
      PROVE  /\ plan[s] \in Plan /\ plan[s].next_due \in Nat /\ plan[s].next_due <= now
             /\ plan[s].spec \in PlanSpecs
             /\ plan[s].spec.entries \in SUBSET PlanEntry
             /\ NewOccurrenceId(s, source) \in OccurrenceId
             /\ NewOccurrenceId(s, source).schedule = s
  <2>1. s \in Schedules /\ plan[s] \in Plan /\ plan[s].next_due \in Nat
           /\ plan[s].next_due <= now /\ plan[s].spec \in PlanSpecs
    BY DEF DueSchedules, Plan, Unset
  <2>2. plan[s].spec.entries \in SUBSET PlanEntry
    BY <2>1, ConstantsAssumption DEF SchedulePlan
  <2>3. LastDueOf(s) \in Nat
    BY <2>1, LastDueType, ConstantsAssumption DEF LastDueOf
  <2>4. OccurrenceSource(s, source) \in TriggerSources
    BY DEF OccurrenceSource, TriggerSources
  <2> QED BY <2>1, <2>2, <2>3, <2>4 DEF NewOccurrenceId, OccurrenceId, Plan
<1>2. ASSUME NEW o \in Materialized(source)
      PROVE  o \in OccurrenceId /\ o.schedule \in DueSchedules
  BY <1>1 DEF Materialized
<1>3. ASSUME NEW s \in DueSchedules
      PROVE  InitialStatus(s, source) \in OccurrenceStatus
  BY DEF InitialStatus, OccurrenceStatus, ActiveOccurrence, StatusWithDispatches
<1>4. DOMAIN occ' = DOMAIN occ \cup Materialized(source)
  BY DEF process_due
<1>5. ASSUME NEW o \in DOMAIN occ'
      PROVE  o \in OccurrenceId /\ occ'[o] \in Occurrence
  <2>1. CASE o \in DOMAIN occ
    BY <2>1, <1>4 DEF process_due
  <2>2. CASE o \in Materialized(source) \ DOMAIN occ
    <3>1. occ'[o] = [status |-> InitialStatus(o.schedule, source),
                     first_due |-> plan[o.schedule].next_due,
                     entries |-> plan[o.schedule].spec.entries]
      BY <2>2, <1>4 DEF process_due
    <3> QED BY <1>1, <1>2, <1>3, <2>2, <3>1 DEF Occurrence
  <2> QED BY <1>4, <1>5, <2>1, <2>2
<1>6. DOMAIN disp \subseteq DOMAIN disp' /\ \A d \in DOMAIN disp : disp'[d] = disp[d]
  BY DEF process_due
<1>7. ASSUME NEW d \in DOMAIN disp' \ DOMAIN disp
      PROVE  /\ d \in DispatchId /\ d.occurrence \in DOMAIN occ'
             /\ disp'[d] \in Dispatch /\ disp'[d].status = "pending" /\ ~disp'[d].has_run
  <2>1. PICK o \in Materialized(source) : d \in NewDispatchIds(o, plan[o.schedule].spec.entries)
    BY DEF process_due
  <2>2. o \in OccurrenceId /\ plan[o.schedule].spec.entries \in SUBSET PlanEntry
    BY <1>1, <1>2
  <2>3. now \in Nat
    BY ConstantsAssumption
  <2>4. /\ d \in DispatchId /\ d.occurrence = o
        /\ NewDispatch(d, plan[o.schedule].spec.entries) \in Dispatch
        /\ NewDispatch(d, plan[o.schedule].spec.entries).status = "pending"
        /\ NewDispatch(d, plan[o.schedule].spec.entries).has_run = FALSE
    BY <2>1, <2>2, <2>3, NewDispatchType
  <2>5. disp'[d] = NewDispatch(d, plan[d.occurrence.schedule].spec.entries)
    BY DEF process_due
  <2> QED BY <1>4, <2>4, <2>5
<1>8. plan' \in [Schedules -> Plan]
  <2>1. ASSUME NEW s \in DueSchedules
        PROVE  [plan[s] EXCEPT
                  !.next_due = DueAfterSpan(plan[s].spec.trigger, plan[s].next_due),
                  !.enabled = DueAfterSpan(plan[s].spec.trigger, plan[s].next_due) # Unset] \in Plan
    <3>1. DueAfterSpan(plan[s].spec.trigger, plan[s].next_due) \in Nat \cup {Unset}
      BY <1>1, DueAfterSpanType
    <3>2. \A r \in Plan, n \in Nat \cup {Unset}, b \in BOOLEAN :
             [r EXCEPT !.next_due = n, !.enabled = b] \in Plan
      BY DEF Plan
    <3>3. (DueAfterSpan(plan[s].spec.trigger, plan[s].next_due) # Unset) \in BOOLEAN
      OBVIOUS
    <3> HIDE DEF TypeOK
    <3> QED BY <1>1, <3>1, <3>2, <3>3, Zenon
  <2>2. ASSUME NEW s \in Schedules
        PROVE  plan'[s] \in Plan
    <3>1. CASE s \in DueSchedules
      BY <2>1, <3>1 DEF process_due
    <3>2. CASE s \notin DueSchedules
      BY <3>2 DEF process_due
    <3> QED BY <3>1, <3>2
  <2>3. plan' = [s \in Schedules |-> plan'[s]]
    BY DEF process_due
  <2> QED BY <2>2, <2>3
<1>9. RowsOK(occ', disp')
  <2>1. ASSUME NEW d \in DOMAIN disp'
        PROVE  d \in DispatchId /\ disp'[d] \in Dispatch /\ d.occurrence \in DOMAIN occ'
    BY <1>4, <1>6, <1>7
  <2> QED BY <1>5, <2>1 DEF RowsOK
<1> QED BY <1>6, <1>7, <1>8, <1>9

(* A new database has well-formed tables.                                  *)
LEMMA TypeInit == ASSUME Init PROVE TypeOK
<1>1. (CHOOSE v \in PlanSpecs : TRUE) \in PlanSpecs
  BY ConstantsAssumption
<1>2. plan \in [Schedules -> Plan]
  BY <1>1 DEF Init, Plan, Unset
<1> QED BY <1>2, ConstantsAssumption DEF Init, TypeOK

(* Every transaction keeps the tables well formed.                         *)
LEMMA TypeStep == ASSUME TypeOK, [Next]_vars PROVE TypeOK'
<1>0. RowsOK(occ, disp) /\ now \in Nat
  BY ConstantsAssumption DEF TypeOK, RowsOK
<1>a. ASSUME RowsOK(occ', disp'), UNCHANGED <<now, rollbacks, plan>>,
             reserved' \in [Procs -> SUBSET DOMAIN disp'], owesPump' \in [Procs -> BOOLEAN]
      PROVE  TypeOK'
  BY <1>a DEF RowsOK, TypeOK
<1>1. CASE Tick
  BY <1>1, ConstantsAssumption DEF Tick, TypeOK, database
<1>2. ASSUME NEW n \in 1..MaxRollbacks, SetClockBack(n)
      PROVE  TypeOK'
  BY <1>2, ConstantsAssumption DEF SetClockBack, TypeOK, database
<1>3. ASSUME NEW p \in Procs, Edit(p)
      PROVE  TypeOK'
  <2>1. ASSUME NEW s \in Schedules, NEW v \in PlanSpecs, create_plan(p, s, v)
        PROVE  TypeOK'
    <3>1. Saved(v, 1) \in Plan
      BY SavedType DEF TypeOK
    <3> QED BY <2>1, <3>1 DEF create_plan, TypeOK
  <2>2. ASSUME NEW s \in Schedules, NEW v \in PlanSpecs,
               NEW expected \in 1..(MaxRevision - 1), update_plan(p, s, expected, v)
        PROVE  TypeOK'
    <3>1. expected + 1 \in Nat
      OBVIOUS
    <3>2. Saved(v, expected + 1) \in Plan
      BY <3>1, SavedType DEF TypeOK
    <3> QED BY <2>2, <3>2 DEF update_plan, TypeOK
  <2>3. ASSUME NEW s \in Schedules, NEW expected \in 1..(MaxRevision - 1),
               delete_plan(p, s, expected)
        PROVE  TypeOK'
    <3>1. plan[s] \in Plan
      BY DEF TypeOK
    <3>2. plan'[s] \in Plan
      BY <2>3, <3>1 DEF delete_plan, TypeOK, Plan
    <3>3. plan' \in [Schedules -> Plan]
      BY <2>3, <3>2 DEF delete_plan, TypeOK
    <3> QED BY <2>3, <3>3 DEF delete_plan, TypeOK
  <2> QED BY <1>3, <2>1, <2>2, <2>3 DEF Edit
<1>4. ASSUME NEW p \in Procs, NEW source \in {"timer", "recovery"}, process_due(p, source)
      PROVE  TypeOK'
  <2>1. /\ RowsOK(occ', disp') /\ plan' \in [Schedules -> Plan]
        /\ DOMAIN disp \subseteq DOMAIN disp'
    BY <1>4, ProcessDueType
  <2> QED BY <1>4, <2>1 DEF RowsOK, process_due, TypeOK
<1>5. ASSUME NEW p \in Procs, pump_reserve(p)
      PROVE  TypeOK'
  <2>1. PICK H \in SUBSET Candidates(PumpRows) :
           disp' = WithReserved(PumpRows, H) /\ reserved' = [reserved EXCEPT ![p] = H]
    BY <1>5 DEF pump_reserve
  <2> DEFINE b == PromotedOccurrences(occ)
             O == {d.occurrence : d \in
                     ExpiredDispatches(PromotedDispatches(occ, LeasesRecovered(disp)))}
  <2>2. RowsOK(b, PumpRows) /\ DOMAIN disp \subseteq DOMAIN PumpRows
    BY <1>0, PumpRowsType
  <2>3. RowsOK(Refreshed(b, PumpRows, O), PumpRows)
    BY <2>2, RefreshedType
  <2>4. occ' = Refreshed(b, PumpRows, O)
    BY <1>5 DEF pump_reserve
  <2>5. RowsOK(occ', disp') /\ DOMAIN disp' = DOMAIN PumpRows
    BY <1>0, <2>1, <2>3, <2>4, WithReservedType
  <2>6. H \subseteq DOMAIN disp'
    BY <2>5 DEF Candidates
  <2>7. reserved' \in [Procs -> SUBSET DOMAIN disp']
    BY <2>1, <2>2, <2>5, <2>6 DEF TypeOK
  <2> QED BY <1>5, <1>a, <2>5, <2>7 DEF pump_reserve, TypeOK
<1>6. ASSUME NEW p \in Procs, NEW d \in reserved[p], NEW answer \in Answers,
             pump_answer(p, d, answer)
      PROVE  TypeOK'
  <2>1. d \in DOMAIN disp /\ disp[d] \in Dispatch
    BY DEF TypeOK
  <2>2. StatusAfterAnswer(answer) \in DispatchStatus
    BY DEF StatusAfterAnswer, Answers, DispatchStatus, Occupying, TerminalDispatch
  <2>3. disp'[d] \in Dispatch /\ DOMAIN disp' = DOMAIN disp
           /\ \A c \in DOMAIN disp \ {d} : disp'[c] = disp[c]
    BY <1>6, <2>1, <2>2 DEF pump_answer, Dispatch
  <2>4. RowsOK(occ, disp')
    BY <1>0, <2>3 DEF RowsOK
  <2>5. RowsOK(occ', disp')
    BY <1>6, <2>4, RefreshedType DEF pump_answer
  <2>6. reserved' \in [Procs -> SUBSET DOMAIN disp']
    BY <1>6, <2>3 DEF pump_answer, TypeOK
  <2> QED BY <1>6, <1>a, <2>5, <2>6 DEF pump_answer, TypeOK
<1>7. ASSUME NEW p \in Procs, pump_interrupted(p)
      PROVE  TypeOK'
  BY <1>7 DEF pump_interrupted, TypeOK, database
<1>8. ASSUME NEW p \in Procs, NEW d \in DOMAIN disp, NEW status \in RunStatus,
             record_run_status(p, d, status)
      PROVE  TypeOK'
  <2> DEFINE rows == [disp EXCEPT ![d].status = status]
             batch == Refreshed(occ, rows, {d.occurrence})
  <2>1. status \in DispatchStatus
    BY DEF RunStatus, DispatchStatus, Occupying, TerminalDispatch
  <2>2. rows[d] \in Dispatch /\ DOMAIN rows = DOMAIN disp
           /\ \A c \in DOMAIN disp \ {d} : rows[c] = disp[c]
    BY <2>1 DEF TypeOK, Dispatch
  <2>3. disp' = PromotedDispatches(batch, rows) /\ occ' = PromotedOccurrences(batch)
    BY <1>8 DEF record_run_status
  <2> HIDE DEF rows
  <2>4. RowsOK(occ, rows)
    BY <1>0, <2>2 DEF RowsOK
  <2>5. RowsOK(batch, rows)
    BY <2>4, RefreshedType
  <2> HIDE DEF batch
  <2>6. RowsOK(occ', disp') /\ DOMAIN disp \subseteq DOMAIN disp'
    BY <1>0, <2>2, <2>3, <2>5, PromotedType
  <2>7. reserved' \in [Procs -> SUBSET DOMAIN disp'] /\ owesPump' \in [Procs -> BOOLEAN]
    BY <1>8, <2>6 DEF record_run_status, TypeOK
  <2> QED BY <1>8, <1>a, <2>6, <2>7 DEF record_run_status
<1>9. CASE UNCHANGED vars
  BY <1>9 DEF vars, TypeOK
<1> QED BY <1>1, <1>2, <1>3, <1>4, <1>5, <1>6, <1>7, <1>8, <1>9 DEF Next, Pump

(* Every reachable database has well-formed tables.                        *)
THEOREM TypeInvariant == Spec => []TypeOK
<1>1. Init => TypeOK
  BY TypeInit
<1>2. TypeOK /\ [Next]_vars => TypeOK'
  BY TypeStep
<1> QED BY <1>1, <1>2, PTL DEF Spec

----------------------------------------------------------------------------
(* Serial execution with a single process on the database.  With two        *)
(* processes it fails (ScheduleTwoPumps.cfg), so the assumption is needed.  *)

\* What a pump holds reserved is still in hand-over when it is answered.
HandoverInv == \A p \in Procs : \A d \in reserved[p] : disp[d].status = "dispatching"

\* A dispatch that holds a run is where the run's reports put it.
HasRunInv == \A d \in DOMAIN disp : disp[d].has_run => disp[d].status \in RunStatus

SerialInv == TypeOK /\ HandoverInv /\ HasRunInv /\ SerialOccupancy

(* A dispatch is occupying with a run exactly until it ends: what           *)
(* record_run_status accepts a report for already occupies its instance.    *)
LEMMA RunStatusSplit ==
    /\ RunStatus \ TerminalDispatch \subseteq Occupying
    /\ RunStatus \cap {"pending", "queued", "dispatching"} = {}
    /\ TerminalDispatch \cap Occupying = {}
    /\ TerminalDispatch \cap {"pending", "queued", "dispatching"} = {}
    /\ {"pending", "queued"} \cap Occupying = {}
BY DEF RunStatus, TerminalDispatch, Occupying

(* pump's first transaction, seen from the dispatch table: the heads start  *)
(* to occupy, every other occupying row is an old one, and a row that holds *)
(* a run or has ended is not touched.                                       *)
LEMMA ReserveStep ==
    ASSUME TypeOK, HasRunInv, NEW p \in Procs, pump_reserve(p)
    PROVE  \E H \in SUBSET Candidates(PumpRows) :
              /\ Heads(H, PumpRows)
              /\ reserved' = [reserved EXCEPT ![p] = H]
              /\ H \subseteq DOMAIN disp'
              /\ DOMAIN disp \subseteq DOMAIN disp'
              /\ \A d \in H : /\ disp'[d].status = "dispatching"
                              /\ ~disp'[d].has_run
                              /\ Instance(d, disp') = Instance(d, PumpRows)
              /\ \A d \in DOMAIN disp' \ H : disp'[d].status \in Occupying =>
                    /\ d \in DOMAIN disp /\ disp'[d] = disp[d]
                    /\ d \in DOMAIN PumpRows /\ PumpRows[d] = disp[d]
              /\ \A d \in DOMAIN disp' : disp'[d].has_run =>
                    d \in DOMAIN disp /\ disp[d].has_run /\ disp'[d] = disp[d]
              /\ \A d \in DOMAIN disp :
                    disp[d].status \notin {"pending", "queued", "dispatching"} => disp'[d] = disp[d]
<1>0. RowsOK(occ, disp) /\ now \in Nat
  BY ConstantsAssumption DEF TypeOK, RowsOK
<1>1. PICK H \in SUBSET Candidates(PumpRows) :
         /\ Heads(H, PumpRows) /\ disp' = WithReserved(PumpRows, H)
         /\ reserved' = [reserved EXCEPT ![p] = H]
  BY DEF pump_reserve
<1>2. /\ RowsOK(PromotedOccurrences(occ), PumpRows)
      /\ DOMAIN disp \subseteq DOMAIN PumpRows
      /\ \A d \in DOMAIN disp : disp[d].status \notin {"pending", "queued", "dispatching"}
            => PumpRows[d] = disp[d]
      /\ \A d \in DOMAIN PumpRows : PumpRows[d].status \in Occupying
            => d \in DOMAIN disp /\ PumpRows[d] = disp[d]
      /\ \A d \in DOMAIN PumpRows : PumpRows[d].has_run => d \in DOMAIN disp /\ disp[d].has_run
  BY <1>0, PumpRowsType
<1>3. /\ DOMAIN disp' = DOMAIN PumpRows /\ H \subseteq DOMAIN PumpRows
      /\ \A d \in DOMAIN PumpRows :
            /\ disp'[d].entry = PumpRows[d].entry
            /\ disp'[d].has_run = PumpRows[d].has_run
            /\ d \in H => disp'[d].status = "dispatching"
            /\ d \notin H => disp'[d] = PumpRows[d] \/ disp'[d].status = "queued"
            /\ PumpRows[d].status \notin {"pending", "queued"} => disp'[d] = PumpRows[d]
  BY <1>0, <1>1, <1>2, WithReservedType
<1>4. ASSUME NEW d \in DOMAIN disp'
      PROVE  disp'[d].has_run => d \in DOMAIN disp /\ disp[d].has_run /\ disp'[d] = disp[d]
  BY <1>2, <1>3, RunStatusSplit DEF HasRunInv
<1>5. ASSUME NEW d \in H
      PROVE  ~disp'[d].has_run
  <2>1. disp'[d].status = "dispatching" /\ d \in DOMAIN disp'
    BY <1>3
  <2> QED BY <2>1, <1>4, RunStatusSplit DEF HasRunInv
<1>6. ASSUME NEW d \in DOMAIN disp' \ H, disp'[d].status \in Occupying
      PROVE  /\ d \in DOMAIN disp /\ disp'[d] = disp[d]
             /\ d \in DOMAIN PumpRows /\ PumpRows[d] = disp[d]
  BY <1>2, <1>3, <1>6, RunStatusSplit
<1>7. ASSUME NEW d \in DOMAIN disp, disp[d].status \notin {"pending", "queued", "dispatching"}
      PROVE  disp'[d] = disp[d]
  BY <1>2, <1>3, <1>7
<1>8. \A d \in H : Instance(d, disp') = Instance(d, PumpRows)
  BY <1>3 DEF Instance
<1>9. \A d \in H : disp'[d].status = "dispatching" /\ ~disp'[d].has_run
  BY <1>3, <1>5
<1> HIDE DEF PumpRows
<1> QED BY <1>1, <1>2, <1>3, <1>4, <1>6, <1>7, <1>8, <1>9

(* record_run_status, seen from the dispatch table: the reported dispatch   *)
(* moves, promoted batches add pending rows, nothing else changes.          *)
LEMMA ReportStep ==
    ASSUME TypeOK, NEW p \in Procs, NEW d \in DOMAIN disp, NEW status \in RunStatus,
           record_run_status(p, d, status)
    PROVE  /\ DOMAIN disp \subseteq DOMAIN disp'
           /\ disp'[d].status = status /\ disp'[d].has_run
           /\ Instance(d, disp') = Instance(d, disp)
           /\ \A c \in DOMAIN disp \ {d} : disp'[c] = disp[c]
           /\ \A c \in DOMAIN disp' \ DOMAIN disp :
                 disp'[c].status = "pending" /\ ~disp'[c].has_run
           /\ DOMAIN occ' = DOMAIN occ
<1> DEFINE rows == [disp EXCEPT ![d].status = status]
           batch == Refreshed(occ, rows, {d.occurrence})
<1>0. RowsOK(occ, disp) /\ now \in Nat
  BY ConstantsAssumption DEF TypeOK, RowsOK
<1>1. status \in DispatchStatus
  BY DEF RunStatus, DispatchStatus, Occupying, TerminalDispatch
<1>2. /\ rows[d] \in Dispatch /\ DOMAIN rows = DOMAIN disp
      /\ rows[d].status = status /\ rows[d].has_run = disp[d].has_run
      /\ rows[d].entry = disp[d].entry
      /\ \A c \in DOMAIN disp \ {d} : rows[c] = disp[c]
  BY <1>1 DEF TypeOK, Dispatch
<1>3. /\ disp' = PromotedDispatches(batch, rows) /\ occ' = PromotedOccurrences(batch)
      /\ disp[d].has_run
  BY DEF record_run_status
<1>4. DOMAIN occ' = DOMAIN occ
  BY <1>3 DEF PromotedOccurrences, Refreshed
<1> HIDE DEF rows
<1>5. RowsOK(batch, rows)
  BY <1>0, <1>2, RefreshedType DEF RowsOK
<1> HIDE DEF batch
<1>6. /\ DOMAIN rows \subseteq DOMAIN disp'
      /\ \A c \in DOMAIN rows : disp'[c] = rows[c]
      /\ \A c \in DOMAIN disp' \ DOMAIN rows :
            disp'[c].status = "pending" /\ ~disp'[c].has_run
  BY <1>0, <1>3, <1>5, PromotedType
<1> QED BY <1>2, <1>3, <1>4, <1>6 DEF Instance

(* The inductive step of SerialExecution.                                   *)
LEMMA SerialStep ==
    ASSUME SerialInv, [Next]_vars, \A p, q \in Procs : p = q
    PROVE  HandoverInv' /\ HasRunInv' /\ SerialOccupancy'
<1> USE DEF SerialInv
<1>0. ASSUME UNCHANGED disp, \A p \in Procs : reserved'[p] \subseteq reserved[p]
      PROVE  HandoverInv' /\ HasRunInv' /\ SerialOccupancy'
  <2>1. HandoverInv'
    BY <1>0 DEF HandoverInv
  <2>2. HasRunInv'
    BY <1>0 DEF HasRunInv
  <2>3. SerialOccupancy'
    BY <1>0 DEF SerialOccupancy, Instance
  <2> QED BY <2>1, <2>2, <2>3
<1>1. CASE Tick \/ (\E n \in 1..MaxRollbacks : SetClockBack(n)) \/ UNCHANGED vars \/ \E p \in Procs : Edit(p)
  <2>1. UNCHANGED <<disp, reserved>>
    BY <1>1 DEF Tick, SetClockBack, vars, database, Edit, create_plan, update_plan, delete_plan
  <2> QED BY <1>0, <2>1
<1>2. ASSUME NEW p \in Procs, NEW source \in {"timer", "recovery"}, process_due(p, source)
      PROVE  HandoverInv' /\ HasRunInv' /\ SerialOccupancy'
  <2>1. /\ DOMAIN disp \subseteq DOMAIN disp'
        /\ \A d \in DOMAIN disp : disp'[d] = disp[d]
        /\ \A d \in DOMAIN disp' \ DOMAIN disp :
              disp'[d].status = "pending" /\ ~disp'[d].has_run
    BY <1>2, ProcessDueType
  <2>2. reserved' = reserved /\ reserved \in [Procs -> SUBSET DOMAIN disp]
    BY <1>2 DEF process_due, TypeOK
  <2>3. HandoverInv'
    BY <2>1, <2>2 DEF HandoverInv
  <2>4. HasRunInv'
    BY <2>1 DEF HasRunInv
  <2>5. SerialOccupancy'
    BY <2>1, RunStatusSplit DEF SerialOccupancy, Instance
  <2> QED BY <2>3, <2>4, <2>5
<1>3. ASSUME NEW p \in Procs, pump_reserve(p)
      PROVE  HandoverInv' /\ HasRunInv' /\ SerialOccupancy'
  <2>1. PICK H \in SUBSET Candidates(PumpRows) :
           /\ Heads(H, PumpRows)
           /\ reserved' = [reserved EXCEPT ![p] = H]
           /\ H \subseteq DOMAIN disp'
           /\ DOMAIN disp \subseteq DOMAIN disp'
           /\ \A d \in H : /\ disp'[d].status = "dispatching"
                           /\ ~disp'[d].has_run
                           /\ Instance(d, disp') = Instance(d, PumpRows)
           /\ \A d \in DOMAIN disp' \ H : disp'[d].status \in Occupying =>
                 /\ d \in DOMAIN disp /\ disp'[d] = disp[d]
                 /\ d \in DOMAIN PumpRows /\ PumpRows[d] = disp[d]
           /\ \A d \in DOMAIN disp' : disp'[d].has_run =>
                 d \in DOMAIN disp /\ disp[d].has_run /\ disp'[d] = disp[d]
    BY <1>3, ReserveStep
  <2>2. HandoverInv'
    BY <2>1 DEF HandoverInv, TypeOK
  <2>3. HasRunInv'
    BY <2>1 DEF HasRunInv
  <2>4. SerialOccupancy'
    <3> SUFFICES ASSUME NEW c \in DOMAIN disp', NEW d \in DOMAIN disp',
                        Instance(c, disp') = Instance(d, disp'),
                        disp'[c].status \in Occupying, disp'[d].status \in Occupying
                 PROVE  c = d
      BY DEF SerialOccupancy, Instance
    <3>1. ASSUME NEW h \in H, NEW g \in DOMAIN disp' \ H, disp'[g].status \in Occupying,
                 Instance(h, disp') = Instance(g, disp')
          PROVE  FALSE
      <4>1. g \in DOMAIN PumpRows /\ PumpRows[g] = disp'[g]
        BY <2>1, <3>1
      <4>2. Instance(g, PumpRows) = Instance(h, PumpRows)
        BY <2>1, <3>1, <4>1 DEF Instance
      <4>3. InstanceFree(Instance(h, PumpRows), PumpRows)
        BY <2>1 DEF Heads
      <4> QED BY <3>1, <4>1, <4>2, <4>3 DEF InstanceFree
    <3>2. CASE c \in H /\ d \in H
      BY <2>1, <3>2 DEF Heads
    <3>3. CASE c \notin H /\ d \notin H
      BY <2>1, <3>3 DEF SerialOccupancy, Instance
    <3> QED BY <3>1, <3>2, <3>3
  <2> QED BY <2>2, <2>3, <2>4
<1>4. ASSUME NEW p \in Procs, NEW d \in reserved[p], NEW answer \in Answers,
             pump_answer(p, d, answer)
      PROVE  HandoverInv' /\ HasRunInv' /\ SerialOccupancy'
  <2>1. d \in DOMAIN disp /\ disp[d] \in Dispatch /\ disp[d].status = "dispatching"
    BY DEF TypeOK, HandoverInv
  <2>2. /\ DOMAIN disp' = DOMAIN disp
        /\ \A c \in DOMAIN disp \ {d} : disp'[c] = disp[c]
        /\ disp'[d].status = StatusAfterAnswer(answer)
        /\ disp'[d].entry = disp[d].entry
        /\ disp'[d].has_run = (disp[d].has_run \/ answer = "accepted")
        /\ reserved' = [reserved EXCEPT ![p] = @ \ {d}]
    BY <1>4, <2>1 DEF pump_answer, Dispatch
  <2>3. HandoverInv'
    <3>1. \A q \in Procs : reserved'[q] \subseteq reserved[p] \ {d}
      BY <2>2 DEF TypeOK
    <3> QED BY <2>2, <3>1 DEF HandoverInv, TypeOK
  <2>4. HasRunInv'
    <3>1. ~disp[d].has_run
      BY <2>1, RunStatusSplit DEF HasRunInv
    <3>2. disp'[d].has_run => disp'[d].status \in RunStatus
      BY <2>2, <3>1 DEF StatusAfterAnswer, RunStatus
    <3> QED BY <2>2, <3>2 DEF HasRunInv
  <2>5. SerialOccupancy'
    <3>1. disp[d].status \in Occupying
      BY <2>1 DEF Occupying
    <3>2. \A c \in DOMAIN disp : disp'[c].status \in Occupying => disp[c].status \in Occupying
      BY <2>2, <3>1
    <3>3. \A c \in DOMAIN disp : Instance(c, disp') = Instance(c, disp)
      BY <2>2 DEF Instance
    <3> QED BY <2>2, <3>2, <3>3 DEF SerialOccupancy, Instance
  <2> QED BY <2>3, <2>4, <2>5
<1>5. ASSUME NEW p \in Procs, pump_interrupted(p)
      PROVE  HandoverInv' /\ HasRunInv' /\ SerialOccupancy'
  <2>1. UNCHANGED disp /\ \A q \in Procs : reserved'[q] \subseteq reserved[q]
    BY <1>5 DEF pump_interrupted, database, TypeOK
  <2> QED BY <1>0, <2>1
<1>6. ASSUME NEW p \in Procs, NEW d \in DOMAIN disp, NEW status \in RunStatus,
             record_run_status(p, d, status)
      PROVE  HandoverInv' /\ HasRunInv' /\ SerialOccupancy'
  <2>1. /\ DOMAIN disp \subseteq DOMAIN disp'
        /\ disp'[d].status = status /\ disp'[d].has_run
        /\ Instance(d, disp') = Instance(d, disp)
        /\ \A c \in DOMAIN disp \ {d} : disp'[c] = disp[c]
        /\ \A c \in DOMAIN disp' \ DOMAIN disp :
              disp'[c].status = "pending" /\ ~disp'[c].has_run
    BY <1>6, ReportStep
  <2>2. disp[d].has_run /\ disp[d].status \notin TerminalDispatch /\ reserved[p] = {}
           /\ reserved' = reserved
    BY <1>6 DEF record_run_status, LockFree
  <2>3. HandoverInv'
    BY <2>2 DEF HandoverInv
  <2>4. HasRunInv'
    BY <2>1 DEF HasRunInv
  <2>5. SerialOccupancy'
    <3>1. disp[d].status \in Occupying
      BY <2>2, RunStatusSplit DEF HasRunInv
    <3>2. \A c \in DOMAIN disp' : disp'[c].status \in Occupying =>
             c \in DOMAIN disp /\ disp[c].status \in Occupying
      BY <2>1, <3>1, RunStatusSplit
    <3>3. \A c \in DOMAIN disp : Instance(c, disp') = Instance(c, disp)
      BY <2>1 DEF Instance
    <3> QED BY <3>2, <3>3 DEF SerialOccupancy, Instance
  <2> QED BY <2>3, <2>4, <2>5
<1> QED BY <1>1, <1>2, <1>3, <1>4, <1>5, <1>6 DEF Next, Pump

(* The inductive invariant of the single-process schedule owner.            *)
THEOREM SerialInvariant ==
    ASSUME \A p, q \in Procs : p = q
    PROVE  Spec => []SerialInv
<1>1. Init => SerialInv
  <2> SUFFICES ASSUME Init PROVE SerialInv
    OBVIOUS
  <2>1. TypeOK
    BY TypeInit
  <2> QED BY <2>1 DEF Init, SerialInv, HandoverInv, HasRunInv, SerialOccupancy
<1>2. SerialInv /\ [Next]_vars => SerialInv'
  <2> SUFFICES ASSUME SerialInv, [Next]_vars PROVE SerialInv'
    OBVIOUS
  <2>1. TypeOK'
    BY TypeStep DEF SerialInv
  <2>2. HandoverInv' /\ HasRunInv' /\ SerialOccupancy'
    BY SerialStep
  <2> QED BY <2>1, <2>2 DEF SerialInv
<1> QED BY <1>1, <1>2, PTL DEF Spec

(* With one process on the database an instance never has two dispatches in *)
(* hand-over or executing, for any plans, instances, leases and clock.      *)
THEOREM SerialExecution ==
    ASSUME \A p, q \in Procs : p = q
    PROVE  Spec => []SerialOccupancy
<1>1. Spec => []SerialInv
  BY SerialInvariant
<1>2. SerialInv => SerialOccupancy
  BY DEF SerialInv
<1> QED BY <1>1, <1>2, PTL

(* With one process, a finished dispatch never changes again and no record  *)
(* is removed.                                                              *)
THEOREM FinishedIsFinal ==
    ASSUME \A p, q \in Procs : p = q
    PROVE  Spec => TerminalIsFinal
<1> DEFINE Keeps ==
      /\ DOMAIN occ \subseteq DOMAIN occ'
      /\ \A d \in DOMAIN disp :
            /\ d \in DOMAIN disp'
            /\ disp[d].status \in TerminalDispatch => disp'[d] = disp[d]
<1>1. SerialInv /\ [Next]_vars => Keeps
  <2> SUFFICES ASSUME SerialInv, [Next]_vars PROVE Keeps
    OBVIOUS
  <2> USE DEF SerialInv
  <2>1. CASE Tick \/ (\E n \in 1..MaxRollbacks : SetClockBack(n)) \/ UNCHANGED vars \/ \E p \in Procs : Edit(p)
    <3>1. UNCHANGED <<occ, disp>>
      BY <2>1 DEF Tick, SetClockBack, vars, database, Edit, create_plan, update_plan, delete_plan
    <3> QED BY <3>1
  <2>2. ASSUME NEW p \in Procs, NEW source \in {"timer", "recovery"}, process_due(p, source)
        PROVE  Keeps
    <3>1. DOMAIN disp \subseteq DOMAIN disp' /\ \A d \in DOMAIN disp : disp'[d] = disp[d]
      BY <2>2, ProcessDueType
    <3>2. DOMAIN occ \subseteq DOMAIN occ'
      BY <2>2 DEF process_due
    <3> QED BY <3>1, <3>2
  <2>3. ASSUME NEW p \in Procs, pump_reserve(p)
        PROVE  Keeps
    <3>1. /\ DOMAIN disp \subseteq DOMAIN disp'
          /\ \A d \in DOMAIN disp :
                disp[d].status \notin {"pending", "queued", "dispatching"} => disp'[d] = disp[d]
      BY <2>3, ReserveStep
    <3>2. DOMAIN occ \subseteq DOMAIN occ'
      BY <2>3 DEF pump_reserve, Refreshed, PromotedOccurrences
    <3> QED BY <3>1, <3>2, RunStatusSplit
  <2>4. ASSUME NEW p \in Procs, NEW d \in reserved[p], NEW answer \in Answers,
               pump_answer(p, d, answer)
        PROVE  Keeps
    <3>1. disp[d].status = "dispatching"
      BY DEF HandoverInv
    <3>2. DOMAIN disp' = DOMAIN disp /\ \A c \in DOMAIN disp \ {d} : disp'[c] = disp[c]
      BY <2>4 DEF pump_answer
    <3>3. DOMAIN occ \subseteq DOMAIN occ'
      BY <2>4 DEF pump_answer, Refreshed
    <3> QED BY <3>1, <3>2, <3>3, RunStatusSplit
  <2>5. ASSUME NEW p \in Procs, pump_interrupted(p)
        PROVE  Keeps
    BY <2>5 DEF pump_interrupted, database
  <2>6. ASSUME NEW p \in Procs, NEW d \in DOMAIN disp, NEW status \in RunStatus,
               record_run_status(p, d, status)
        PROVE  Keeps
    <3>1. /\ DOMAIN disp \subseteq DOMAIN disp'
          /\ \A c \in DOMAIN disp \ {d} : disp'[c] = disp[c]
          /\ DOMAIN occ' = DOMAIN occ
      BY <2>6, ReportStep
    <3>2. disp[d].status \notin TerminalDispatch
      BY <2>6 DEF record_run_status
    <3> QED BY <3>1, <3>2
  <2> HIDE DEF Keeps
  <2> QED BY <2>1, <2>2, <2>3, <2>4, <2>5, <2>6 DEF Next, Pump
<1>2. Spec => []SerialInv
  BY SerialInvariant
<1> QED BY <1>1, <1>2, PTL DEF Spec, TerminalIsFinal

(* With one process, a dispatch that holds a run keeps it: after the        *)
(* answer only the run's own reports move it.                               *)
THEOREM RunsAreKept ==
    ASSUME \A p, q \in Procs : p = q
    PROVE  Spec => AdmittedStaysAdmitted
<1> DEFINE Keeps ==
      \A d \in DOMAIN disp :
          disp[d].has_run => /\ disp'[d].has_run
                             /\ disp'[d].status \in RunStatus
<1>1. SerialInv /\ [Next]_vars => Keeps
  <2> SUFFICES ASSUME SerialInv, [Next]_vars PROVE Keeps
    OBVIOUS
  <2> USE DEF SerialInv
  <2>0. ASSUME \A d \in DOMAIN disp : disp[d].has_run => disp'[d] = disp[d]
        PROVE  Keeps
    BY <2>0 DEF HasRunInv
  <2>1. CASE Tick \/ (\E n \in 1..MaxRollbacks : SetClockBack(n)) \/ UNCHANGED vars \/ \E p \in Procs : Edit(p)
    <3>1. UNCHANGED disp
      BY <2>1 DEF Tick, SetClockBack, vars, database, Edit, create_plan, update_plan, delete_plan
    <3> QED BY <2>0, <3>1
  <2>2. ASSUME NEW p \in Procs, NEW source \in {"timer", "recovery"}, process_due(p, source)
        PROVE  Keeps
    BY <2>0, <2>2, ProcessDueType
  <2>3. ASSUME NEW p \in Procs, pump_reserve(p)
        PROVE  Keeps
    <3>1. \A d \in DOMAIN disp :
             disp[d].status \notin {"pending", "queued", "dispatching"} => disp'[d] = disp[d]
      BY <2>3, ReserveStep
    <3> QED BY <2>0, <3>1, RunStatusSplit DEF HasRunInv
  <2>4. ASSUME NEW p \in Procs, NEW d \in reserved[p], NEW answer \in Answers,
               pump_answer(p, d, answer)
        PROVE  Keeps
    <3>1. ~disp[d].has_run
      BY RunStatusSplit DEF HandoverInv, HasRunInv, TypeOK
    <3>2. \A c \in DOMAIN disp \ {d} : disp'[c] = disp[c]
      BY <2>4 DEF pump_answer
    <3> QED BY <2>0, <3>1, <3>2
  <2>5. ASSUME NEW p \in Procs, pump_interrupted(p)
        PROVE  Keeps
    BY <2>0, <2>5 DEF pump_interrupted, database
  <2>6. ASSUME NEW p \in Procs, NEW d \in DOMAIN disp, NEW status \in RunStatus,
               record_run_status(p, d, status)
        PROVE  Keeps
    <3>1. /\ disp'[d].status = status /\ disp'[d].has_run
          /\ \A c \in DOMAIN disp \ {d} : disp'[c] = disp[c]
      BY <2>6, ReportStep
    <3> QED BY <3>1 DEF HasRunInv
  <2> HIDE DEF Keeps
  <2> QED BY <2>1, <2>2, <2>3, <2>4, <2>5, <2>6 DEF Next, Pump
<1>2. Spec => []SerialInv
  BY SerialInvariant
<1> QED BY <1>1, <1>2, PTL DEF Spec, AdmittedStaysAdmitted

----------------------------------------------------------------------------
(* Batches: the status of an occurrence and the dispatches it is made of.  *)

\* A dispatch that waits for its instance or for an answer.
Waiting == {"pending", "queued", "dispatching"}

\* BatchAgreement as a statement about any occurrences and dispatches.
AgreesAt(o, row, rows) ==
    IF StatusesOf(o, rows) # {}
    THEN row.status = BatchStatus(StatusesOf(o, rows))
    ELSE \/ row.status \in {"skipped", "queued_overlap"}
         \/ row.status = "completed" /\ \A e \in row.entries : ~e.enabled

Agrees(batch, rows) == \A o \in DOMAIN batch : AgreesAt(o, batch[o], rows)

(* What BatchStatus says of a batch in progress, and that it never says    *)
(* what only a batch without dispatches can be.                            *)
LEMMA BatchStatusCases ==
    ASSUME NEW st \in SUBSET DispatchStatus, st # {}
    PROVE  /\ BatchStatus(st) \in {"running", "accepted", "pending"} <=> ~(st \subseteq TerminalDispatch)
           /\ st \cap {"running", "paused", "stopping"} # {} => BatchStatus(st) = "running"
           /\ st \cap {"running", "paused", "stopping"} = {} /\ st \cap {"accepted", "starting"} # {}
                 => BatchStatus(st) = "accepted"
           /\ /\ st \cap {"running", "paused", "stopping", "accepted", "starting"} = {}
              /\ st \cap Waiting # {}
              => BatchStatus(st) = "pending"
           /\ BatchStatus(st) \notin {"skipped", "queued_overlap"}
<1> DEFINE busy == {"running", "paused", "stopping"}
           begun == {"accepted", "starting"}
<1>0. DispatchStatus = Waiting \cup busy \cup begun \cup TerminalDispatch
  BY DEF DispatchStatus, Occupying, Waiting
<1>1. CASE st \cap busy # {}
  BY <1>0, <1>1 DEF BatchStatus, TerminalDispatch
<1>2. CASE st \cap busy = {} /\ st \cap begun # {}
  BY <1>0, <1>2 DEF BatchStatus, TerminalDispatch
<1>3. CASE st \cap busy = {} /\ st \cap begun = {} /\ ~(st \subseteq TerminalDispatch)
  <2>1. st \subseteq Waiting \cup TerminalDispatch
    BY <1>0, <1>3
  <2>2. BatchStatus(st) = "pending"
    BY <1>3, <2>1 DEF BatchStatus, TerminalDispatch, Waiting
  <2> QED BY <1>3, <2>2 DEF TerminalDispatch
<1>4. CASE st \subseteq TerminalDispatch
  <2>1. st \cap busy = {} /\ st \cap begun = {} /\ st \cap Waiting = {}
    BY <1>4 DEF TerminalDispatch, Waiting
  <2>2. BatchStatus(st) \in {"completed", "failed", "partial_failed"}
    BY <1>4, <2>1 DEF BatchStatus, TerminalDispatch
  <2> QED BY <1>4, <2>1, <2>2
<1> QED BY <1>1, <1>2, <1>3, <1>4

(* No batch is stored as being in hand-over.                               *)
LEMMA BatchStatusRange ==
    ASSUME NEW st \in SUBSET DispatchStatus, st # {}
    PROVE  BatchStatus(st) # "dispatching"
<1>1. CASE ~(st \subseteq TerminalDispatch)
  BY <1>1, BatchStatusCases
<1>2. CASE st \subseteq TerminalDispatch
  BY <1>2 DEF BatchStatus, TerminalDispatch
<1> QED BY <1>1, <1>2

(* The status of a batch does not depend on how its dispatches wait.       *)
LEMMA SameBatchStatus ==
    ASSUME NEW st \in SUBSET DispatchStatus, NEW su \in SUBSET DispatchStatus,
           st \ Waiting = su \ Waiting, st \cap Waiting = {} <=> su \cap Waiting = {},
           st # {}
    PROVE  su # {} /\ BatchStatus(st) = BatchStatus(su)
<1>1. CASE st \cap Waiting = {}
  <2>1. st = su
    BY <1>1
  <2> QED BY <2>1
<1>2. CASE st \cap Waiting # {}
  <2>1. su # {}
    BY <1>2
  <2>2. Waiting \cap {"running", "paused", "stopping", "accepted", "starting"} = {}
    BY DEF Waiting
  <2>3. /\ st \cap {"running", "paused", "stopping"} = su \cap {"running", "paused", "stopping"}
        /\ st \cap {"accepted", "starting"} = su \cap {"accepted", "starting"}
    BY <2>2
  <2>4. CASE st \cap {"running", "paused", "stopping"} # {}
    BY <2>1, <2>3, <2>4, BatchStatusCases
  <2>5. CASE st \cap {"running", "paused", "stopping"} = {} /\ st \cap {"accepted", "starting"} # {}
    BY <2>1, <2>3, <2>5, BatchStatusCases
  <2>6. CASE st \cap {"running", "paused", "stopping"} = {} /\ st \cap {"accepted", "starting"} = {}
    <3>1. /\ st \cap {"running", "paused", "stopping", "accepted", "starting"} = {}
          /\ su \cap {"running", "paused", "stopping", "accepted", "starting"} = {}
      BY <2>3, <2>6
    <3>2. BatchStatus(st) = "pending"
      BY <1>2, <3>1, BatchStatusCases
    <3>3. BatchStatus(su) = "pending"
      BY <1>2, <2>1, <3>1, BatchStatusCases
    <3> QED BY <2>1, <3>2, <3>3
  <2> QED BY <2>4, <2>5, <2>6
<1> QED BY <1>1, <1>2

\* The same dispatches, of which some wait in another way.
SameButWaiting(rows, others) ==
    /\ DOMAIN others = DOMAIN rows
    /\ \A d \in DOMAIN rows : \/ others[d].status = rows[d].status
                              \/ rows[d].status \in Waiting /\ others[d].status \in Waiting

(* Reserving and recovering leases leaves every batch what it was.         *)
LEMMA WaitingAgrees ==
    ASSUME NEW batch, NEW rows, NEW others, RowsOK(batch, rows), RowsOK(batch, others),
           Agrees(batch, rows), SameButWaiting(rows, others)
    PROVE  Agrees(batch, others)
<1> SUFFICES ASSUME NEW o \in DOMAIN batch PROVE AgreesAt(o, batch[o], others)
  BY DEF Agrees
<1> DEFINE st == StatusesOf(o, rows)
           su == StatusesOf(o, others)
<1>1. st \in SUBSET DispatchStatus /\ su \in SUBSET DispatchStatus
  BY DEF RowsOK, StatusesOf, Dispatch
<1>2. st \ Waiting = su \ Waiting
  BY DEF SameButWaiting, StatusesOf
<1>3. st \cap Waiting = {} <=> su \cap Waiting = {}
  BY DEF SameButWaiting, StatusesOf
<1>4. st = {} <=> su = {}
  BY DEF SameButWaiting, StatusesOf
<1>5. AgreesAt(o, batch[o], rows)
  BY DEF Agrees
<1> HIDE DEF st, su
<1>6. CASE st = {}
  BY <1>4, <1>5, <1>6 DEF AgreesAt, st, su
<1>7. CASE st # {}
  <2>1. BatchStatus(st) = BatchStatus(su)
    BY <1>1, <1>2, <1>3, <1>7, SameBatchStatus
  <2> QED BY <1>4, <1>5, <1>7, <2>1 DEF AgreesAt, st, su
<1> QED BY <1>6, <1>7

(* _refresh_occurrence brings the batches of the dispatches that changed   *)
(* back into agreement.                                                    *)
LEMMA RefreshedAgrees ==
    ASSUME NEW batch, NEW rows, NEW others, NEW O,
           Agrees(batch, rows), DOMAIN others = DOMAIN rows,
           \A d \in DOMAIN rows : d.occurrence \notin O => others[d] = rows[d]
    PROVE  Agrees(Refreshed(batch, others, O), others)
<1> DEFINE new == Refreshed(batch, others, O)
<1> SUFFICES ASSUME NEW o \in DOMAIN batch PROVE AgreesAt(o, new[o], others)
  BY DEF Agrees, Refreshed
<1>1. AgreesAt(o, batch[o], rows)
  BY DEF Agrees
<1>2. StatusesOf(o, others) = {} <=> StatusesOf(o, rows) = {}
  BY DEF StatusesOf
<1>3. CASE o \in O /\ StatusesOf(o, others) # {}
  <2>1. new[o] = [batch[o] EXCEPT !.status = BatchStatus(StatusesOf(o, others))]
    BY <1>3 DEF Refreshed
  <2>2. "status" \in DOMAIN batch[o] => new[o].status = BatchStatus(StatusesOf(o, others))
    BY <2>1
  <2> QED BY <1>3, <2>1, <2>2 DEF AgreesAt
<1>4. CASE o \in O /\ StatusesOf(o, others) = {}
  BY <1>1, <1>2, <1>4 DEF AgreesAt, Refreshed
<1>5. CASE o \notin O
  <2>1. new[o] = batch[o]
    BY <1>5 DEF Refreshed
  <2>2. StatusesOf(o, others) = StatusesOf(o, rows)
    BY <1>5 DEF StatusesOf
  <2> QED BY <1>1, <2>1, <2>2 DEF AgreesAt
<1> QED BY <1>3, <1>4, <1>5

(* A batch whose dispatches have just been inserted.                       *)
LEMMA InsertedAgrees ==
    ASSUME NEW o, NEW entries, NEW rows, NEW row,
           {d \in DOMAIN rows : d.occurrence = o} = NewDispatchIds(o, entries),
           \A d \in NewDispatchIds(o, entries) : rows[d].status = "pending",
           row.status = StatusWithDispatches(entries), row.entries = entries
    PROVE  AgreesAt(o, row, rows)
<1> DEFINE added == NewDispatchIds(o, entries)
<1>0. StatusesOf(o, rows) = {rows[d].status : d \in added}
  BY DEF StatusesOf
<1>1. added = {} <=> \A e \in entries : ~e.enabled
  BY DEF NewDispatchIds
<1> HIDE DEF added
<1>2. CASE added = {}
  <2>1. StatusesOf(o, rows) = {}
    BY <1>0, <1>2
  <2> QED BY <1>1, <1>2, <2>1 DEF AgreesAt, StatusWithDispatches
<1>3. CASE added # {}
  <2>1. StatusesOf(o, rows) = {"pending"}
    BY <1>0, <1>3 DEF added
  <2>2. BatchStatus({"pending"}) = "pending"
    BY BatchStatusCases DEF Waiting, DispatchStatus
  <2> QED BY <1>1, <1>3, <2>1, <2>2 DEF AgreesAt, StatusWithDispatches
<1> QED BY <1>2, <1>3

(* What _insert_dispatches writes.                                         *)
LEMMA InsertedRow ==
    ASSUME NEW d, NEW entries
    PROVE  /\ NewDispatch(d, entries).status = "pending"
           /\ NewDispatch(d, entries).created_at = now
           /\ NewDispatch(d, entries).has_run = FALSE
<1> DEFINE e == CHOOSE x \in entries : x.entry_id = d.entry
<1>1. NewDispatch(d, entries) = [status |-> "pending", has_run |-> FALSE, lease_until |-> Unset,
                                 created_at |-> now, entry |-> e]
  BY DEF NewDispatch
<1> HIDE DEF e
<1> QED BY <1>1

(* A waiting batch has no dispatches yet.                                  *)
LEMMA QueuedIsEmpty ==
    ASSUME NEW batch, NEW rows, RowsOK(batch, rows), Agrees(batch, rows),
           NEW o \in DOMAIN batch, batch[o].status = "queued_overlap"
    PROVE  \A d \in DOMAIN rows : d.occurrence # o
<1>1. AgreesAt(o, batch[o], rows)
  BY DEF Agrees
<1>2. StatusesOf(o, rows) \in SUBSET DispatchStatus
  BY DEF RowsOK, StatusesOf, Dispatch
<1>3. StatusesOf(o, rows) = {}
  BY <1>1, <1>2, BatchStatusCases DEF AgreesAt
<1> QED BY <1>3 DEF StatusesOf

(* _promote_overlap inserts the dispatches of what it promotes, and of     *)
(* nothing else.                                                           *)
LEMMA PromotedRows ==
    ASSUME NEW batch, NEW rows, RowsOK(batch, rows), Agrees(batch, rows), now \in Nat
    PROVE  LET new == PromotedDispatches(batch, rows) IN
           /\ \A o \in DOMAIN batch \ Promotable(batch) :
                 {d \in DOMAIN new : d.occurrence = o} = {d \in DOMAIN rows : d.occurrence = o}
           /\ \A o \in Promotable(batch) :
                 /\ {d \in DOMAIN new : d.occurrence = o} = NewDispatchIds(o, batch[o].entries)
                 /\ {d \in DOMAIN rows : d.occurrence = o} = {}
                 /\ \A d \in NewDispatchIds(o, batch[o].entries) :
                       /\ d \notin DOMAIN rows
                       /\ new[d] = NewDispatch(d, batch[o].entries)
<1> DEFINE new == PromotedDispatches(batch, rows)
           added == UNION {NewDispatchIds(o, batch[o].entries) : o \in Promotable(batch)}
<1>1. \A o : \A d \in NewDispatchIds(o, batch[o].entries) : d.occurrence = o
  BY DEF NewDispatchIds
<1>2. DOMAIN new = DOMAIN rows \cup added
  BY DEF PromotedDispatches
<1>3. ASSUME NEW o \in DOMAIN batch \ Promotable(batch)
      PROVE  {d \in DOMAIN new : d.occurrence = o} = {d \in DOMAIN rows : d.occurrence = o}
  BY <1>1, <1>2
<1>4. ASSUME NEW o \in Promotable(batch)
      PROVE  /\ {d \in DOMAIN new : d.occurrence = o} = NewDispatchIds(o, batch[o].entries)
             /\ {d \in DOMAIN rows : d.occurrence = o} = {}
             /\ \A d \in NewDispatchIds(o, batch[o].entries) :
                   d \notin DOMAIN rows /\ new[d] = NewDispatch(d, batch[o].entries)
  <2>1. \A d \in DOMAIN rows : d.occurrence # o
    BY QueuedIsEmpty DEF Promotable
  <2>2. {d \in DOMAIN new : d.occurrence = o} = NewDispatchIds(o, batch[o].entries)
    BY <1>1, <1>2, <2>1
  <2>3. \A d \in NewDispatchIds(o, batch[o].entries) : d \in DOMAIN new /\ d \notin DOMAIN rows
    BY <1>1, <1>2, <2>1
  <2>4. \A d \in NewDispatchIds(o, batch[o].entries) : new[d] = NewDispatch(d, batch[o].entries)
    BY <1>1, <2>3 DEF PromotedDispatches
  <2> QED BY <2>1, <2>2, <2>3, <2>4
<1> QED BY <1>3, <1>4

(* _promote_overlap keeps the batches and the dispatches in agreement.     *)
LEMMA PromotedAgrees ==
    ASSUME NEW batch, NEW rows, RowsOK(batch, rows), Agrees(batch, rows), now \in Nat
    PROVE  Agrees(PromotedOccurrences(batch), PromotedDispatches(batch, rows))
<1> DEFINE new == PromotedDispatches(batch, rows)
           then == PromotedOccurrences(batch)
<1> SUFFICES ASSUME NEW o \in DOMAIN batch PROVE AgreesAt(o, then[o], new)
  BY DEF Agrees, PromotedOccurrences
<1>1. AgreesAt(o, batch[o], rows)
  BY DEF Agrees
<1>2. CASE o \notin Promotable(batch)
  <2>1. then[o] = batch[o]
    BY <1>2 DEF PromotedOccurrences
  <2>2. {d \in DOMAIN new : d.occurrence = o} = {d \in DOMAIN rows : d.occurrence = o}
    BY <1>2, PromotedRows
  <2>3. \A d \in DOMAIN rows : new[d] = rows[d]
    BY PromotedType
  <2> HIDE DEF new
  <2>4. StatusesOf(o, new) = StatusesOf(o, rows)
    BY <2>2, <2>3 DEF StatusesOf
  <2> QED BY <1>1, <2>1, <2>4 DEF AgreesAt
<1>3. CASE o \in Promotable(batch)
  <2>1. then[o] = [batch[o] EXCEPT !.status = StatusWithDispatches(batch[o].entries)]
    BY <1>3 DEF PromotedOccurrences
  <2>2. batch[o] \in Occurrence
    BY DEF RowsOK
  <2>3. then[o].status = StatusWithDispatches(batch[o].entries) /\ then[o].entries = batch[o].entries
    BY <2>1, <2>2 DEF Occurrence
  <2>4. /\ {d \in DOMAIN new : d.occurrence = o} = NewDispatchIds(o, batch[o].entries)
        /\ \A d \in NewDispatchIds(o, batch[o].entries) : new[d] = NewDispatch(d, batch[o].entries)
    BY <1>3, PromotedRows
  <2> HIDE DEF new, then
  <2>5. ASSUME NEW d \in NewDispatchIds(o, batch[o].entries)
        PROVE  new[d].status = "pending"
    <3>1. new[d] = NewDispatch(d, batch[o].entries)
      BY <2>4
    <3>2. NewDispatch(d, batch[o].entries).status = "pending"
      BY InsertedRow
    <3> QED BY <3>1, <3>2
  <2> QED BY <2>3, <2>4, <2>5, InsertedAgrees
<1> QED BY <1>2, <1>3

\* What process_due stores for a new batch: its row and, if it starts at once, its
\* dispatches.
IsInserted(o, source) ==
    /\ o \notin DOMAIN occ /\ o.schedule \in DueSchedules
    /\ o = NewOccurrenceId(o.schedule, source)
    /\ occ'[o] = [status |-> InitialStatus(o.schedule, source),
                  first_due |-> plan[o.schedule].next_due,
                  entries |-> plan[o.schedule].spec.entries]
    /\ {d \in DOMAIN disp' : d.occurrence = o}
         = IF InitialStatus(o.schedule, source) = "pending"
           THEN NewDispatchIds(o, plan[o.schedule].spec.entries) ELSE {}

(* process_due inserts the dispatches of the batches that start at once,   *)
(* and of no other.                                                        *)
LEMMA ProcessDueRows ==
    ASSUME TypeOK, NEW p \in Procs, NEW source \in {"timer", "recovery"},
           process_due(p, source)
    PROVE  /\ DOMAIN occ' = DOMAIN occ \cup Materialized(source)
           /\ \A o \in DOMAIN occ :
                 /\ occ'[o] = occ[o]
                 /\ {d \in DOMAIN disp' : d.occurrence = o} = {d \in DOMAIN disp : d.occurrence = o}
           /\ \A o \in Materialized(source) : IsInserted(o, source)
           /\ \A d \in DOMAIN disp' \ DOMAIN disp :
                 disp'[d] = NewDispatch(d, plan[d.occurrence.schedule].spec.entries)
<1> DEFINE started == {o \in Materialized(source) : InitialStatus(o.schedule, source) = "pending"}
           added == UNION {NewDispatchIds(o, plan[o.schedule].spec.entries) : o \in started}
<1>1. /\ DOMAIN occ' = DOMAIN occ \cup Materialized(source)
      /\ DOMAIN disp' = DOMAIN disp \cup added
      /\ \A d \in DOMAIN disp' \ DOMAIN disp :
            disp'[d] = NewDispatch(d, plan[d.occurrence.schedule].spec.entries)
  BY DEF process_due
<1>2. \A o : \A d \in NewDispatchIds(o, plan[o.schedule].spec.entries) : d.occurrence = o
  BY DEF NewDispatchIds
<1>3. \A d \in DOMAIN disp : d.occurrence \in DOMAIN occ
  BY DEF TypeOK
<1>4. ASSUME NEW o \in DOMAIN occ
      PROVE  /\ occ'[o] = occ[o]
             /\ {d \in DOMAIN disp' : d.occurrence = o} = {d \in DOMAIN disp : d.occurrence = o}
  <2>1. o \notin Materialized(source)
    BY DEF Materialized
  <2>2. \A d \in added : d.occurrence # o
    BY <1>2, <2>1
  <2>3. occ'[o] = occ[o]
    BY DEF process_due
  <2> QED BY <1>1, <2>2, <2>3
<1>5. ASSUME NEW o \in Materialized(source)
      PROVE  IsInserted(o, source)
  <2>1. o \notin DOMAIN occ
    BY DEF Materialized
  <2>2. PICK s \in DueSchedules : o = NewOccurrenceId(s, source)
    BY DEF Materialized
  <2>3. o.schedule = s
    BY <2>2 DEF NewOccurrenceId
  <2>4. occ'[o] = [status |-> InitialStatus(o.schedule, source),
                   first_due |-> plan[o.schedule].next_due,
                   entries |-> plan[o.schedule].spec.entries]
    BY <1>1, <2>1 DEF process_due
  <2>5. \A d \in DOMAIN disp : d.occurrence # o
    BY <1>3, <2>1
  <2>6. {d \in DOMAIN disp' : d.occurrence = o} = {d \in added : d.occurrence = o}
    BY <1>1, <2>5
  <2>7. CASE InitialStatus(o.schedule, source) = "pending"
    <3>1. o \in started
      BY <2>7
    <3>2. {d \in added : d.occurrence = o} = NewDispatchIds(o, plan[o.schedule].spec.entries)
      BY <1>2, <3>1
    <3> QED BY <2>1, <2>2, <2>3, <2>4, <2>6, <2>7, <3>2 DEF IsInserted
  <2>8. CASE InitialStatus(o.schedule, source) # "pending"
    <3>1. o \notin started
      BY <2>8
    <3>2. {d \in added : d.occurrence = o} = {}
      BY <1>2, <3>1
    <3> QED BY <2>1, <2>2, <2>3, <2>4, <2>6, <2>8, <3>2 DEF IsInserted
  <2> QED BY <2>7, <2>8
<1> QED BY <1>1, <1>4, <1>5

(* The tables after process_due agree: a batch starts with all of its       *)
(* dispatches, or with none because it is empty, waits or is left out.      *)
LEMMA ProcessDueAgrees ==
    ASSUME TypeOK, Agrees(occ, disp), NEW p \in Procs, NEW source \in {"timer", "recovery"},
           process_due(p, source)
    PROVE  Agrees(occ', disp')
<1> SUFFICES ASSUME NEW o \in DOMAIN occ' PROVE AgreesAt(o, occ'[o], disp')
  BY DEF Agrees
<1>1. DOMAIN occ' = DOMAIN occ \cup Materialized(source)
  BY ProcessDueRows
<1>2. /\ \A d \in DOMAIN disp : d \in DOMAIN disp' /\ disp'[d] = disp[d]
      /\ \A d \in DOMAIN disp' \ DOMAIN disp : disp'[d].status = "pending"
  BY ProcessDueType
<1>3. CASE o \in DOMAIN occ
  <2>1. /\ occ'[o] = occ[o]
        /\ {d \in DOMAIN disp' : d.occurrence = o} = {d \in DOMAIN disp : d.occurrence = o}
    BY <1>3, ProcessDueRows
  <2>2. StatusesOf(o, disp') = StatusesOf(o, disp)
    BY <1>2, <2>1 DEF StatusesOf
  <2>3. AgreesAt(o, occ[o], disp)
    BY <1>3 DEF Agrees
  <2> QED BY <2>1, <2>2, <2>3 DEF AgreesAt
<1>4. CASE o \in Materialized(source)
  <2> DEFINE s == o.schedule
             entries == plan[s].spec.entries
  <2>0. IsInserted(o, source)
    BY <1>4, ProcessDueRows
  <2>1. /\ o \notin DOMAIN occ
        /\ occ'[o] = [status |-> InitialStatus(s, source), first_due |-> plan[s].next_due,
                      entries |-> entries]
        /\ {d \in DOMAIN disp' : d.occurrence = o}
             = IF InitialStatus(s, source) = "pending" THEN NewDispatchIds(o, entries) ELSE {}
    BY <2>0 DEF IsInserted
  <2>2. occ'[o].status = InitialStatus(s, source) /\ occ'[o].entries = entries
    BY <2>1
  <2>3. \/ InitialStatus(s, source) \in {"skipped", "queued_overlap"}
        \/ InitialStatus(s, source) = StatusWithDispatches(entries)
    BY DEF InitialStatus
  <2>4. \/ StatusWithDispatches(entries) = "pending"
        \/ StatusWithDispatches(entries) = "completed" /\ \A e \in entries : ~e.enabled
    BY DEF StatusWithDispatches
  <2> HIDE DEF s, entries
  <2>5. CASE InitialStatus(s, source) = "pending"
    <3>1. {d \in DOMAIN disp' : d.occurrence = o} = NewDispatchIds(o, entries)
      BY <2>1, <2>5
    <3>2. \A d \in NewDispatchIds(o, entries) : disp'[d].status = "pending"
      <4>1. \A d \in DOMAIN disp : d.occurrence # o
        BY <2>1 DEF TypeOK
      <4> QED BY <1>2, <3>1, <4>1
    <3>3. occ'[o].status = StatusWithDispatches(entries)
      BY <2>2, <2>3, <2>5
    <3> QED BY <2>2, <3>1, <3>2, <3>3, InsertedAgrees
  <2>6. CASE InitialStatus(s, source) # "pending"
    <3>1. StatusesOf(o, disp') = {}
      BY <2>1, <2>6 DEF StatusesOf
    <3> QED BY <2>2, <2>3, <2>4, <2>6, <3>1 DEF AgreesAt
  <2> QED BY <2>5, <2>6
<1> QED BY <1>1, <1>3, <1>4

(* The first transaction of pump, table by table: leases, promotion,        *)
(* expiry, refresh, reservation.                                           *)
LEMMA ReserveTables ==
    ASSUME TypeOK, Agrees(occ, disp), NEW p \in Procs, pump_reserve(p)
    PROVE  \E H \in SUBSET Candidates(PumpRows) :
              LET r1 == LeasesRecovered(disp)
                  r2 == PromotedDispatches(occ, r1)
                  b2 == PromotedOccurrences(occ)
                  O == {d.occurrence : d \in ExpiredDispatches(r2)} IN
              /\ PumpRows = WithExpired(r2)
              /\ RowsOK(occ, r1) /\ Agrees(occ, r1) /\ SameButWaiting(disp, r1)
              /\ RowsOK(b2, r2) /\ Agrees(b2, r2)
              /\ RowsOK(b2, PumpRows) /\ DOMAIN PumpRows = DOMAIN r2
              /\ \A d \in DOMAIN r2 : d.occurrence \notin O => PumpRows[d] = r2[d]
              /\ \A d \in DOMAIN r2 : r2[d].status \in TerminalDispatch => PumpRows[d] = r2[d]
              /\ occ' = Refreshed(b2, PumpRows, O)
              /\ Agrees(occ', PumpRows)
              /\ Heads(H, PumpRows)
              /\ disp' = WithReserved(PumpRows, H)
              /\ RowsOK(occ', disp') /\ SameButWaiting(PumpRows, disp')
              /\ Agrees(occ', disp')
<1> DEFINE r1 == LeasesRecovered(disp)
           r2 == PromotedDispatches(occ, r1)
           b2 == PromotedOccurrences(occ)
           O == {d.occurrence : d \in ExpiredDispatches(r2)}
<1>0. RowsOK(occ, disp) /\ now \in Nat
  BY ConstantsAssumption DEF TypeOK, RowsOK
<1>1. PICK H \in SUBSET Candidates(PumpRows) :
         Heads(H, PumpRows) /\ disp' = WithReserved(PumpRows, H)
  BY DEF pump_reserve
<1>2. occ' = Refreshed(b2, PumpRows, O)
  BY DEF pump_reserve
<1>3. PumpRows = WithExpired(r2)
  BY DEF PumpRows
<1>4. RowsOK(occ, r1) /\ SameButWaiting(disp, r1)
  <2>1. /\ RowsOK(occ, r1) /\ DOMAIN r1 = DOMAIN disp
        /\ \A d \in DOMAIN disp :
              \/ r1[d] = disp[d]
              \/ /\ disp[d].status = "dispatching"
                 /\ r1[d].status = "pending" /\ r1[d].has_run = disp[d].has_run
    BY <1>0, LeasesRecoveredType
  <2> HIDE DEF r1
  <2> QED BY <2>1 DEF SameButWaiting, Waiting
<1>5. Agrees(occ, r1)
  BY <1>0, <1>4, WaitingAgrees
<1> HIDE DEF r1
<1>6. RowsOK(b2, r2) /\ Agrees(b2, r2)
  BY <1>0, <1>4, <1>5, PromotedType, PromotedAgrees
<1> HIDE DEF b2, PumpRows
<1>7. /\ \A d \in DOMAIN r2 : d.occurrence \notin O => PumpRows[d] = r2[d]
      /\ \A d \in DOMAIN r2 : r2[d].status \in TerminalDispatch => PumpRows[d] = r2[d]
  <2> HIDE DEF r2
  <2>1. \A d \in DOMAIN r2 : d \notin ExpiredDispatches(r2) => PumpRows[d] = r2[d]
    BY <1>3 DEF WithExpired
  <2>2. \A d \in ExpiredDispatches(r2) : r2[d].status \notin TerminalDispatch
    BY DEF ExpiredDispatches, TerminalDispatch
  <2> QED BY <2>1, <2>2
<1>8. RowsOK(b2, PumpRows) /\ DOMAIN PumpRows = DOMAIN r2
  BY <1>3, <1>6, WithExpiredType
<1> HIDE DEF r2, O
<1>9. Agrees(occ', PumpRows)
  BY <1>2, <1>6, <1>7, <1>8, RefreshedAgrees
<1>10. RowsOK(occ', PumpRows)
  BY <1>2, <1>8, RefreshedType
<1>11. RowsOK(occ', disp') /\ SameButWaiting(PumpRows, disp')
  <2>1. /\ RowsOK(occ', disp') /\ DOMAIN disp' = DOMAIN PumpRows
        /\ \A d \in DOMAIN PumpRows :
              /\ d \in H => disp'[d].status = "dispatching"
              /\ d \notin H => disp'[d] = PumpRows[d] \/ disp'[d].status = "queued"
              /\ PumpRows[d].status \notin {"pending", "queued"} => disp'[d] = PumpRows[d]
    BY <1>0, <1>1, <1>10, WithReservedType
  <2> QED BY <2>1 DEF SameButWaiting, Waiting
<1>12. Agrees(occ', disp')
  BY <1>9, <1>10, <1>11, WaitingAgrees
<1> QED BY <1>1, <1>2, <1>3, <1>4, <1>5, <1>6, <1>7, <1>8, <1>9, <1>11, <1>12 DEF r1, r2, b2, O

(* A report: the row moves, its batch is refreshed, waiting batches follow. *)
LEMMA ReportTables ==
    ASSUME TypeOK, Agrees(occ, disp), NEW p \in Procs, NEW d \in DOMAIN disp,
           NEW status \in RunStatus, record_run_status(p, d, status)
    PROVE  LET rows == [disp EXCEPT ![d].status = status]
               batch == Refreshed(occ, rows, {d.occurrence}) IN
           /\ DOMAIN rows = DOMAIN disp
           /\ rows[d] = [disp[d] EXCEPT !.status = status]
           /\ \A c \in DOMAIN disp \ {d} : rows[c] = disp[c]
           /\ RowsOK(batch, rows) /\ Agrees(batch, rows)
           /\ disp' = PromotedDispatches(batch, rows) /\ occ' = PromotedOccurrences(batch)
           /\ Agrees(occ', disp')
<1> DEFINE rows == [disp EXCEPT ![d].status = status]
           batch == Refreshed(occ, rows, {d.occurrence})
<1>0. RowsOK(occ, disp) /\ now \in Nat
  BY ConstantsAssumption DEF TypeOK, RowsOK
<1>1. status \in DispatchStatus
  BY DEF RunStatus, DispatchStatus, Occupying, TerminalDispatch
<1>2. /\ DOMAIN rows = DOMAIN disp /\ rows[d] = [disp[d] EXCEPT !.status = status]
      /\ \A c \in DOMAIN disp \ {d} : rows[c] = disp[c]
  OBVIOUS
<1>3. disp' = PromotedDispatches(batch, rows) /\ occ' = PromotedOccurrences(batch)
  BY DEF record_run_status
<1> HIDE DEF rows
<1>4. rows[d] \in Dispatch
  BY <1>1, <1>2 DEF TypeOK, Dispatch
<1>5. RowsOK(occ, rows)
  BY <1>0, <1>2, <1>4 DEF RowsOK
<1>6. Agrees(batch, rows)
  BY <1>2, RefreshedAgrees
<1>7. RowsOK(batch, rows)
  BY <1>5, RefreshedType
<1> HIDE DEF batch
<1>8. Agrees(occ', disp')
  BY <1>0, <1>3, <1>6, <1>7, PromotedAgrees
<1> QED BY <1>2, <1>3, <1>6, <1>7, <1>8 DEF rows, batch

(* The answer to a hand-over, and the refresh of its batch.                *)
LEMMA AnswerTables ==
    ASSUME TypeOK, Agrees(occ, disp), NEW p \in Procs, NEW d \in reserved[p],
           NEW answer \in Answers, pump_answer(p, d, answer)
    PROVE  /\ DOMAIN disp' = DOMAIN disp /\ d \in DOMAIN disp
           /\ disp'[d].status = StatusAfterAnswer(answer) /\ disp'[d].entry = disp[d].entry
           /\ disp'[d].created_at = disp[d].created_at
           /\ disp'[d].has_run = (disp[d].has_run \/ answer = "accepted")
           /\ \A c \in DOMAIN disp \ {d} : disp'[c] = disp[c]
           /\ occ' = Refreshed(occ, disp', {d.occurrence})
           /\ Agrees(occ', disp')
<1>1. d \in DOMAIN disp /\ disp[d] \in Dispatch
  BY DEF TypeOK
<1>2. /\ DOMAIN disp' = DOMAIN disp
      /\ disp'[d].status = StatusAfterAnswer(answer) /\ disp'[d].entry = disp[d].entry
      /\ disp'[d].created_at = disp[d].created_at
      /\ disp'[d].has_run = (disp[d].has_run \/ answer = "accepted")
      /\ \A c \in DOMAIN disp \ {d} : disp'[c] = disp[c]
  BY <1>1 DEF pump_answer, Dispatch
<1>3. occ' = Refreshed(occ, disp', {d.occurrence})
  BY DEF pump_answer
<1>4. Agrees(occ', disp')
  BY <1>2, <1>3, RefreshedAgrees
<1> QED BY <1>1, <1>2, <1>3, <1>4

(* The stored status of every batch is the one its dispatches add up to,    *)
(* with any number of processes.                                           *)
THEOREM BatchesAgree == Spec => []BatchAgreement
<1>1. BatchAgreement <=> Agrees(occ, disp)
  BY DEF BatchAgreement, Agrees, AgreesAt
<1>2. Init => Agrees(occ, disp)
  BY DEF Init, Agrees
<1>3. TypeOK /\ Agrees(occ, disp) /\ [Next]_vars => Agrees(occ, disp)'
  <2> SUFFICES ASSUME TypeOK, Agrees(occ, disp), [Next]_vars PROVE Agrees(occ', disp')
    OBVIOUS
  <2>1. CASE UNCHANGED <<occ, disp>>
    BY <2>1
  <2>2. ASSUME NEW p \in Procs, NEW source \in {"timer", "recovery"}, process_due(p, source)
        PROVE  Agrees(occ', disp')
    BY <2>2, ProcessDueAgrees
  <2>3. ASSUME NEW p \in Procs, pump_reserve(p)
        PROVE  Agrees(occ', disp')
    BY <2>3, ReserveTables
  <2>4. ASSUME NEW p \in Procs, NEW d \in reserved[p], NEW answer \in Answers,
               pump_answer(p, d, answer)
        PROVE  Agrees(occ', disp')
    BY <2>4, AnswerTables
  <2>5. ASSUME NEW p \in Procs, NEW d \in DOMAIN disp, NEW status \in RunStatus,
               record_run_status(p, d, status)
        PROVE  Agrees(occ', disp')
    BY <2>5, ReportTables
  <2> QED BY <2>1, <2>2, <2>3, <2>4, <2>5
      DEF Next, Pump, Edit, Tick, SetClockBack, create_plan, update_plan, delete_plan,
          pump_interrupted, vars, database
<1>4. Spec => []Agrees(occ, disp)
  BY <1>2, <1>3, TypeInvariant, PTL DEF Spec
<1> QED BY <1>1, <1>4, PTL

----------------------------------------------------------------------------
(* One batch of a schedule at a time.                                      *)

Busy == ActiveOccurrence \ {"queued_overlap"}

OneEach(batch) ==
    \A o, q \in DOMAIN batch :
        o.schedule = q.schedule /\ o # q =>
            /\ ~(batch[o].status = "queued_overlap" /\ batch[q].status = "queued_overlap")
            /\ ~(batch[o].status \in Busy /\ batch[q].status \in Busy)

(* _refresh_occurrence neither starts a batch that had ended nor makes one  *)
(* wait, because finished dispatches stay finished.                        *)
LEMMA RefreshedOneEach ==
    ASSUME NEW batch, NEW rows, NEW others, NEW O,
           RowsOK(batch, rows), RowsOK(batch, others), Agrees(batch, rows), OneEach(batch),
           DOMAIN others = DOMAIN rows,
           \A d \in DOMAIN rows : rows[d].status \in TerminalDispatch
                                    => others[d].status \in TerminalDispatch
    PROVE  OneEach(Refreshed(batch, others, O))
<1> DEFINE new == Refreshed(batch, others, O)
<1>1. DOMAIN new = DOMAIN batch
  BY DEF Refreshed
<1>2. ASSUME NEW o \in DOMAIN batch
      PROVE  /\ new[o].status = "queued_overlap" => batch[o].status = "queued_overlap"
             /\ new[o].status \in Busy => batch[o].status \in Busy
  <2>1. CASE new[o] = batch[o]
    BY <2>1
  <2>2. CASE o \in O /\ StatusesOf(o, others) # {}
    <3> DEFINE st == StatusesOf(o, rows)
               su == StatusesOf(o, others)
    <3>1. st \in SUBSET DispatchStatus /\ su \in SUBSET DispatchStatus /\ st # {} /\ su # {}
      BY <2>2 DEF RowsOK, StatusesOf, Dispatch
    <3>2. new[o] = [batch[o] EXCEPT !.status = BatchStatus(su)]
      BY <2>2 DEF Refreshed
    <3>3. batch[o] \in Occurrence
      BY DEF RowsOK
    <3>4. new[o].status = BatchStatus(su)
      BY <3>2, <3>3 DEF Occurrence
    <3>5. batch[o].status = BatchStatus(st)
      BY <3>1 DEF Agrees, AgreesAt
    <3>6. st \subseteq TerminalDispatch => su \subseteq TerminalDispatch
      BY DEF StatusesOf
    <3> HIDE DEF st, su, new
    <3>7. BatchStatus(su) # "queued_overlap"
      BY <3>1, BatchStatusCases
    <3>8. BatchStatus(su) \in Busy => ~(su \subseteq TerminalDispatch)
      <4>1. ASSUME BatchStatus(su) \in Busy PROVE BatchStatus(su) \in {"running", "accepted", "pending"}
        <5>1. SUFFICES BatchStatus(su) # "dispatching"
          BY <4>1 DEF Busy, ActiveOccurrence
        <5> QED BY <3>1, BatchStatusRange
      <4> QED BY <3>1, <4>1, BatchStatusCases
    <3>9. ~(st \subseteq TerminalDispatch) => BatchStatus(st) \in Busy
      <4>1. ASSUME ~(st \subseteq TerminalDispatch)
            PROVE  BatchStatus(st) \in {"running", "accepted", "pending"}
        BY <3>1, <4>1, BatchStatusCases
      <4> QED BY <4>1 DEF Busy, ActiveOccurrence
    <3> QED BY <3>4, <3>5, <3>6, <3>7, <3>8, <3>9
  <2> QED BY <2>1, <2>2 DEF Refreshed
<1> HIDE DEF new
<1> QED BY <1>1, <1>2 DEF OneEach, new

(* _promote_overlap starts a waiting batch only when its schedule has none  *)
(* in progress.                                                            *)
LEMMA PromotedOneEach ==
    ASSUME NEW batch, OneEach(batch), \A o \in DOMAIN batch : batch[o] \in Occurrence
    PROVE  OneEach(PromotedOccurrences(batch))
<1> DEFINE new == PromotedOccurrences(batch)
<1>1. DOMAIN new = DOMAIN batch
  BY DEF PromotedOccurrences
<1>2. ASSUME NEW o \in DOMAIN batch
      PROVE  \/ new[o] = batch[o] /\ o \notin Promotable(batch)
             \/ o \in Promotable(batch) /\ new[o].status \in {"pending", "completed"}
  BY DEF PromotedOccurrences, StatusWithDispatches, Occurrence
<1>3. \A o \in Promotable(batch) :
         /\ batch[o].status = "queued_overlap"
         /\ \A q \in DOMAIN batch : q.schedule = o.schedule /\ q # o => batch[q].status \notin Busy
  BY DEF Promotable, Busy
<1> HIDE DEF new
<1> SUFFICES ASSUME NEW o \in DOMAIN batch, NEW q \in DOMAIN batch,
                    o.schedule = q.schedule, o # q
             PROVE  /\ ~(new[o].status = "queued_overlap" /\ new[q].status = "queued_overlap")
                    /\ ~(new[o].status \in Busy /\ new[q].status \in Busy)
  BY <1>1 DEF OneEach, new
<1>4. /\ ~(batch[o].status = "queued_overlap" /\ batch[q].status = "queued_overlap")
      /\ ~(batch[o].status \in Busy /\ batch[q].status \in Busy)
  BY DEF OneEach
<1>5. CASE o \in Promotable(batch)
  <2>1. q \notin Promotable(batch) /\ batch[q].status \notin Busy
    BY <1>3, <1>4, <1>5
  <2> QED BY <1>2, <1>5, <2>1
<1>6. CASE q \in Promotable(batch)
  <2>1. o \notin Promotable(batch) /\ batch[o].status \notin Busy
    BY <1>3, <1>4, <1>6
  <2> QED BY <1>2, <1>6, <2>1
<1>7. CASE o \notin Promotable(batch) /\ q \notin Promotable(batch)
  BY <1>2, <1>4, <1>7
<1> QED BY <1>5, <1>6, <1>7

(* process_due starts a batch only when its schedule has none, and makes    *)
(* one wait only when none waits.                                          *)
LEMMA ProcessDueOneEach ==
    ASSUME TypeOK, OneEach(occ), NEW p \in Procs, NEW source \in {"timer", "recovery"},
           process_due(p, source)
    PROVE  OneEach(occ')
<1>1. DOMAIN occ' = DOMAIN occ \cup Materialized(source)
  BY ProcessDueRows
<1>2. \A o \in DOMAIN occ : occ'[o] = occ[o]
  BY ProcessDueRows
<1>3. ASSUME NEW o \in Materialized(source)
      PROVE  /\ o \notin DOMAIN occ /\ o = NewOccurrenceId(o.schedule, source)
             /\ occ'[o].status = "queued_overlap" =>
                   \A q \in DOMAIN occ : q.schedule = o.schedule => occ[q].status # "queued_overlap"
             /\ occ'[o].status \in Busy =>
                   \A q \in DOMAIN occ : q.schedule = o.schedule => occ[q].status \notin Busy
  <2> DEFINE s == o.schedule
  <2>1. IsInserted(o, source)
    BY ProcessDueRows
  <2>2. o \notin DOMAIN occ /\ o = NewOccurrenceId(s, source)
    BY <2>1 DEF IsInserted
  <2>3. occ'[o].status = InitialStatus(s, source)
    BY <2>1 DEF IsInserted
  <2>4. \/ InitialStatus(s, source) \in {"skipped", "completed"}
        \/ InitialStatus(s, source) = "pending" /\ ActiveOf(s) = {}
        \/ /\ InitialStatus(s, source) = "queued_overlap"
           /\ \A q \in ActiveOf(s) : occ[q].status # "queued_overlap"
    BY DEF InitialStatus, StatusWithDispatches
  <2>5. \A q \in DOMAIN occ : q.schedule = s /\ occ[q].status \in ActiveOccurrence => q \in ActiveOf(s)
    BY DEF ActiveOf
  <2>6. "queued_overlap" \in ActiveOccurrence /\ Busy \subseteq ActiveOccurrence
           /\ "queued_overlap" \notin Busy /\ "skipped" \notin Busy /\ "completed" \notin Busy
    BY DEF ActiveOccurrence, Busy
  <2> HIDE DEF s
  <2>7. ASSUME occ'[o].status = "queued_overlap", NEW q \in DOMAIN occ, q.schedule = s
        PROVE  occ[q].status # "queued_overlap"
    BY <2>3, <2>4, <2>5, <2>6, <2>7
  <2>8. ASSUME occ'[o].status \in Busy, NEW q \in DOMAIN occ, q.schedule = s
        PROVE  occ[q].status \notin Busy
    BY <2>3, <2>4, <2>5, <2>6, <2>8
  <2> QED BY <2>2, <2>7, <2>8 DEF s
<1> SUFFICES ASSUME NEW o \in DOMAIN occ', NEW q \in DOMAIN occ',
                    o.schedule = q.schedule, o # q
             PROVE  /\ ~(occ'[o].status = "queued_overlap" /\ occ'[q].status = "queued_overlap")
                    /\ ~(occ'[o].status \in Busy /\ occ'[q].status \in Busy)
  BY DEF OneEach
<1>4. CASE o \in DOMAIN occ /\ q \in DOMAIN occ
  BY <1>2, <1>4 DEF OneEach
<1>5. CASE o \in Materialized(source) /\ q \in DOMAIN occ
  BY <1>2, <1>3, <1>5
<1>6. CASE o \in DOMAIN occ /\ q \in Materialized(source)
  BY <1>2, <1>3, <1>6
<1>7. CASE o \in Materialized(source) /\ q \in Materialized(source)
  BY <1>3, <1>7
<1> QED BY <1>1, <1>4, <1>5, <1>6, <1>7

(* With one process a schedule has at most one batch in progress and at     *)
(* most one waiting: no answer and no report starts a batch again that had  *)
(* ended.                                                                  *)
THEOREM OverlapIsBounded ==
    ASSUME \A p, q \in Procs : p = q
    PROVE  Spec => []OneOccurrenceAtATime
<1>1. OneOccurrenceAtATime <=> OneEach(occ)
  BY DEF OneOccurrenceAtATime, OneEach, Busy
<1>2. Init => OneEach(occ)
  BY DEF Init, OneEach
<1>3. /\ SerialInv /\ BatchAgreement /\ OneEach(occ) /\ TypeOK' /\ [Next]_vars
      => OneEach(occ)'
  <2> SUFFICES ASSUME SerialInv, BatchAgreement, OneEach(occ), TypeOK', [Next]_vars
               PROVE  OneEach(occ')
    OBVIOUS
  <2>1. Agrees(occ, disp) /\ TypeOK /\ RowsOK(occ, disp)
    BY DEF BatchAgreement, Agrees, AgreesAt, SerialInv, TypeOK, RowsOK
  <2>2. CASE UNCHANGED occ
    BY <2>2
  <2>3. ASSUME NEW p \in Procs, NEW source \in {"timer", "recovery"}, process_due(p, source)
        PROVE  OneEach(occ')
    BY <2>1, <2>3, ProcessDueOneEach
  <2>4. ASSUME NEW p \in Procs, pump_reserve(p)
        PROVE  OneEach(occ')
    <3> DEFINE r2 == PromotedDispatches(occ, LeasesRecovered(disp))
               b2 == PromotedOccurrences(occ)
               O == {d.occurrence : d \in ExpiredDispatches(r2)}
    <3>1. /\ RowsOK(b2, r2) /\ Agrees(b2, r2) /\ RowsOK(b2, PumpRows)
          /\ DOMAIN PumpRows = DOMAIN r2
          /\ \A d \in DOMAIN r2 : r2[d].status \in TerminalDispatch => PumpRows[d] = r2[d]
          /\ occ' = Refreshed(b2, PumpRows, O)
      BY <2>1, <2>4, ReserveTables
    <3>2. OneEach(b2)
      BY <2>1, PromotedOneEach DEF RowsOK
    <3> HIDE DEF r2, b2, O, PumpRows
    <3>3. \A d \in DOMAIN r2 : r2[d].status \in TerminalDispatch
                                 => PumpRows[d].status \in TerminalDispatch
      BY <3>1
    <3> QED BY <3>1, <3>2, <3>3, RefreshedOneEach
  <2>5. ASSUME NEW p \in Procs, NEW d \in reserved[p], NEW answer \in Answers,
               pump_answer(p, d, answer)
        PROVE  OneEach(occ')
    <3>1. /\ DOMAIN disp' = DOMAIN disp /\ d \in DOMAIN disp
          /\ \A c \in DOMAIN disp \ {d} : disp'[c] = disp[c]
          /\ occ' = Refreshed(occ, disp', {d.occurrence})
      BY <2>1, <2>5, AnswerTables
    <3>2. disp[d].status \notin TerminalDispatch
      BY RunStatusSplit DEF SerialInv, HandoverInv
    <3>3. \A c \in DOMAIN disp : disp[c].status \in TerminalDispatch
                                   => disp'[c].status \in TerminalDispatch
      BY <3>1, <3>2
    <3>4. DOMAIN occ' = DOMAIN occ
      BY <3>1 DEF Refreshed
    <3>5. RowsOK(occ, disp')
      BY <2>1, <3>4 DEF TypeOK, RowsOK
    <3> QED BY <2>1, <3>1, <3>3, <3>5, RefreshedOneEach
  <2>6. ASSUME NEW p \in Procs, NEW d \in DOMAIN disp, NEW status \in RunStatus,
               record_run_status(p, d, status)
        PROVE  OneEach(occ')
    <3> DEFINE rows == [disp EXCEPT ![d].status = status]
               batch == Refreshed(occ, rows, {d.occurrence})
    <3>1. /\ DOMAIN rows = DOMAIN disp
          /\ \A c \in DOMAIN disp \ {d} : rows[c] = disp[c]
          /\ RowsOK(batch, rows)
          /\ occ' = PromotedOccurrences(batch)
      BY <2>1, <2>6, ReportTables
    <3>2. disp[d].status \notin TerminalDispatch
      BY <2>6 DEF record_run_status
    <3> HIDE DEF rows
    <3>3. DOMAIN batch = DOMAIN occ
      BY DEF Refreshed
    <3>4. RowsOK(occ, rows)
      BY <2>1, <3>1, <3>3 DEF RowsOK
    <3>5. \A c \in DOMAIN disp : disp[c].status \in TerminalDispatch
                                   => rows[c].status \in TerminalDispatch
      BY <3>1, <3>2
    <3>6. OneEach(batch)
      BY <2>1, <3>1, <3>4, <3>5, RefreshedOneEach
    <3> HIDE DEF batch
    <3> QED BY <3>1, <3>6, PromotedOneEach DEF RowsOK
  <2> QED BY <2>2, <2>3, <2>4, <2>5, <2>6
      DEF Next, Pump, Edit, Tick, SetClockBack, create_plan, update_plan, delete_plan,
          pump_interrupted, vars, database
<1>4. Spec => []OneEach(occ)
  <2>1. Spec => []SerialInv
    BY SerialInvariant
  <2> QED BY <1>2, <1>3, <2>1, BatchesAgree, TypeInvariant, PTL DEF Spec
<1> QED BY <1>1, <1>4, PTL

----------------------------------------------------------------------------
(* The order of the entries of a batch.                                    *)

\* In hand-over, or with a run: it cannot be overtaken any more.
Begun(d, rows) == rows[d].status \in Occupying \/ rows[d].has_run

\* c comes before d in the list and is due no later, on the same instance.
Precedes(c, d, rows) ==
    /\ c.occurrence = d.occurrence /\ Instance(c, rows) = Instance(d, rows)
    /\ rows[c].entry.order < rows[d].entry.order
    /\ rows[c].entry.offset <= rows[d].entry.offset

InOrder(rows) ==
    \A c, d \in DOMAIN rows :
        Precedes(c, d, rows) /\ Begun(d, rows) => rows[c].status \in TerminalDispatch

\* The dispatches of a batch are inserted by one transaction.
Together(rows) ==
    \A c, d \in DOMAIN rows : c.occurrence = d.occurrence => rows[c].created_at = rows[d].created_at

\* Dispatches move without beginning or coming back, and whole batches are added.
MovesOn(rows, others) ==
    /\ DOMAIN rows \subseteq DOMAIN others
    /\ \A d \in DOMAIN rows :
          /\ others[d].entry = rows[d].entry /\ others[d].created_at = rows[d].created_at
          /\ Begun(d, others) => Begun(d, rows)
          /\ rows[d].status \in TerminalDispatch => others[d].status \in TerminalDispatch
    /\ \A d \in DOMAIN others \ DOMAIN rows :
          /\ others[d].status = "pending" /\ ~others[d].has_run /\ others[d].created_at = now
          /\ \A c \in DOMAIN rows : c.occurrence # d.occurrence

(* Such moves keep the order.                                              *)
LEMMA OrderKept ==
    ASSUME NEW rows, NEW others, MovesOn(rows, others), InOrder(rows), Together(rows)
    PROVE  InOrder(others) /\ Together(others)
<1>1. ASSUME NEW d \in DOMAIN others, Begun(d, others)
      PROVE  d \in DOMAIN rows /\ Begun(d, rows)
  BY <1>1, RunStatusSplit DEF MovesOn, Begun
<1>2. ASSUME NEW c \in DOMAIN others, NEW d \in DOMAIN others, Precedes(c, d, others),
             Begun(d, others)
      PROVE  others[c].status \in TerminalDispatch
  <2>1. d \in DOMAIN rows /\ Begun(d, rows)
    BY <1>1, <1>2
  <2>2. c \in DOMAIN rows
    BY <1>2, <2>1 DEF MovesOn, Precedes
  <2>3. Precedes(c, d, rows)
    BY <1>2, <2>1, <2>2 DEF MovesOn, Precedes, Instance
  <2> QED BY <2>1, <2>2, <2>3 DEF InOrder, MovesOn
<1>3. ASSUME NEW c \in DOMAIN others, NEW d \in DOMAIN others, c.occurrence = d.occurrence
      PROVE  others[c].created_at = others[d].created_at
  <2>1. CASE c \in DOMAIN rows /\ d \in DOMAIN rows
    BY <1>3, <2>1 DEF MovesOn, Together
  <2>2. CASE c \notin DOMAIN rows /\ d \notin DOMAIN rows
    BY <2>2 DEF MovesOn
  <2>3. CASE ~(c \in DOMAIN rows <=> d \in DOMAIN rows)
    BY <1>3, <2>3 DEF MovesOn
  <2> QED BY <2>1, <2>2, <2>3
<1> QED BY <1>2, <1>3 DEF InOrder, Together

(* The dispatches process_due adds are whole batches.                      *)
LEMMA ProcessDueMovesOn ==
    ASSUME TypeOK, NEW p \in Procs, NEW source \in {"timer", "recovery"},
           process_due(p, source)
    PROVE  MovesOn(disp, disp')
<1>1. /\ RowsOK(occ', disp')
      /\ DOMAIN disp \subseteq DOMAIN disp'
      /\ \A d \in DOMAIN disp : disp'[d] = disp[d]
  BY ProcessDueType
<1>2. \A o \in DOMAIN occ :
         {d \in DOMAIN disp' : d.occurrence = o} = {d \in DOMAIN disp : d.occurrence = o}
  BY ProcessDueRows
<1>3. ASSUME NEW d \in DOMAIN disp' \ DOMAIN disp
      PROVE  /\ disp'[d].status = "pending" /\ ~disp'[d].has_run /\ disp'[d].created_at = now
             /\ \A c \in DOMAIN disp : c.occurrence # d.occurrence
  <2>1. disp'[d] = NewDispatch(d, plan[d.occurrence.schedule].spec.entries)
    BY ProcessDueRows
  <2>2. d.occurrence \notin DOMAIN occ
    BY <1>2
  <2>3. \A c \in DOMAIN disp : c.occurrence \in DOMAIN occ
    BY DEF TypeOK
  <2>4. disp'[d].status = "pending" /\ disp'[d].has_run = FALSE /\ disp'[d].created_at = now
    <3> DEFINE entries == plan[d.occurrence.schedule].spec.entries
    <3>1. /\ NewDispatch(d, entries).status = "pending"
          /\ NewDispatch(d, entries).created_at = now
          /\ NewDispatch(d, entries).has_run = FALSE
      BY InsertedRow
    <3> QED BY <2>1, <3>1
  <2> QED BY <2>2, <2>3, <2>4
<1> QED BY <1>1, <1>3 DEF MovesOn, Begun

(* What _promote_overlap adds are whole batches too.                       *)
LEMMA PromotedMovesOn ==
    ASSUME NEW batch, NEW rows, RowsOK(batch, rows), Agrees(batch, rows), now \in Nat
    PROVE  MovesOn(rows, PromotedDispatches(batch, rows))
<1> DEFINE new == PromotedDispatches(batch, rows)
<1>1. /\ DOMAIN rows \subseteq DOMAIN new
      /\ \A d \in DOMAIN rows : new[d] = rows[d]
      /\ \A d \in DOMAIN new : d.occurrence \in DOMAIN batch
  BY PromotedType DEF RowsOK, PromotedOccurrences
<1>2. /\ \A o \in DOMAIN batch \ Promotable(batch) :
            {d \in DOMAIN new : d.occurrence = o} = {d \in DOMAIN rows : d.occurrence = o}
      /\ \A o \in Promotable(batch) :
            /\ {d \in DOMAIN new : d.occurrence = o} = NewDispatchIds(o, batch[o].entries)
            /\ {d \in DOMAIN rows : d.occurrence = o} = {}
            /\ \A d \in NewDispatchIds(o, batch[o].entries) :
                  /\ d \notin DOMAIN rows
                  /\ new[d] = NewDispatch(d, batch[o].entries)
  BY PromotedRows
<1> HIDE DEF new
<1>3. ASSUME NEW d \in DOMAIN new \ DOMAIN rows
      PROVE  /\ new[d].status = "pending" /\ ~new[d].has_run /\ new[d].created_at = now
             /\ \A c \in DOMAIN rows : c.occurrence # d.occurrence
  <2>1. d.occurrence \in Promotable(batch)
    BY <1>1, <1>2
  <2>2. d \in NewDispatchIds(d.occurrence, batch[d.occurrence].entries)
    BY <1>2, <2>1
  <2>3. new[d] = NewDispatch(d, batch[d.occurrence].entries)
    BY <1>2, <2>1, <2>2
  <2>4. \A c \in DOMAIN rows : c.occurrence # d.occurrence
    BY <1>2, <2>1
  <2>5. new[d].status = "pending" /\ new[d].has_run = FALSE /\ new[d].created_at = now
    <3> DEFINE entries == batch[d.occurrence].entries
    <3>1. /\ NewDispatch(d, entries).status = "pending"
          /\ NewDispatch(d, entries).created_at = now
          /\ NewDispatch(d, entries).has_run = FALSE
      BY InsertedRow
    <3> QED BY <2>3, <3>1
  <2> QED BY <2>4, <2>5
<1>4. MovesOn(rows, new)
  BY <1>1, <1>3 DEF MovesOn, Begun
<1> QED BY <1>4 DEF new

(* pump's tables before the reservation.                                   *)
LEMMA PumpRowsMoveOn ==
    ASSUME TypeOK, Agrees(occ, disp), InOrder(disp), Together(disp)
    PROVE  /\ InOrder(PumpRows) /\ Together(PumpRows)
           /\ \A d \in DOMAIN PumpRows : PumpRows[d].status \in {"pending", "queued"}
                 => ~PastDeadline(d, PumpRows)
<1> DEFINE r1 == LeasesRecovered(disp)
           r2 == PromotedDispatches(occ, r1)
<1>0. RowsOK(occ, disp) /\ now \in Nat
  BY ConstantsAssumption DEF TypeOK, RowsOK
<1>1. MovesOn(disp, r1) /\ SameButWaiting(disp, r1) /\ RowsOK(occ, r1)
  <2>1. /\ RowsOK(occ, r1) /\ DOMAIN r1 = DOMAIN disp
        /\ \A d \in DOMAIN disp :
              \/ r1[d] = disp[d]
              \/ /\ disp[d].status = "dispatching"
                 /\ r1[d].status = "pending" /\ r1[d].has_run = disp[d].has_run
    BY <1>0, LeasesRecoveredType
  <2>2. ASSUME NEW d \in DOMAIN disp
        PROVE  r1[d].entry = disp[d].entry /\ r1[d].created_at = disp[d].created_at
    <3>1. disp[d] \in Dispatch
      BY DEF TypeOK
    <3> QED BY <3>1 DEF LeasesRecovered, Dispatch
  <2> HIDE DEF r1
  <2> QED BY <2>1, <2>2, RunStatusSplit DEF MovesOn, Begun, SameButWaiting, Waiting
<1>2. InOrder(r1) /\ Together(r1)
  BY <1>1, OrderKept
<1>3. Agrees(occ, r1)
  BY <1>0, <1>1, WaitingAgrees
<1> HIDE DEF r1
<1>4. MovesOn(r1, r2) /\ RowsOK(PromotedOccurrences(occ), r2)
  BY <1>0, <1>1, <1>3, PromotedMovesOn, PromotedType
<1>5. InOrder(r2) /\ Together(r2)
  BY <1>2, <1>4, OrderKept
<1>6. PumpRows = WithExpired(r2)
  BY DEF PumpRows, r1
<1> HIDE DEF r2, PumpRows
<1>7. /\ DOMAIN PumpRows = DOMAIN r2
      /\ \A d \in DOMAIN r2 :
            \/ PumpRows[d] = r2[d]
            \/ /\ r2[d].status \in {"pending", "queued"}
               /\ PumpRows[d].status = "expired"
               /\ PumpRows[d].has_run = r2[d].has_run
  BY <1>4, <1>6, WithExpiredType
<1>8. ASSUME NEW d \in DOMAIN r2
      PROVE  /\ PumpRows[d].entry = r2[d].entry /\ PumpRows[d].created_at = r2[d].created_at
             /\ d \in ExpiredDispatches(r2) => PumpRows[d].status = "expired"
  <2>1. r2[d] \in Dispatch
    BY <1>4 DEF RowsOK
  <2> QED BY <1>6, <2>1 DEF WithExpired, Dispatch
<1>9. MovesOn(r2, PumpRows)
  <2>1. "expired" \notin Occupying /\ "expired" \in TerminalDispatch
    BY DEF Occupying, TerminalDispatch
  <2> QED BY <1>7, <1>8, <2>1 DEF MovesOn, Begun
<1>10. InOrder(PumpRows) /\ Together(PumpRows)
  BY <1>5, <1>9, OrderKept
<1>11. ASSUME NEW d \in DOMAIN PumpRows, PumpRows[d].status \in {"pending", "queued"}
       PROVE  ~PastDeadline(d, PumpRows)
  <2>1. PumpRows[d] = r2[d] /\ d \notin ExpiredDispatches(r2)
    BY <1>7, <1>8, <1>11
  <2> QED BY <1>7, <1>11, <2>1 DEF ExpiredDispatches, PastDeadline, Deadline
<1> QED BY <1>10, <1>11

(* The heads pump reserves are the first of their batch on their instance.  *)
LEMMA ReserveInOrder ==
    ASSUME TypeOK, Agrees(occ, disp), InOrder(disp), Together(disp),
           NEW p \in Procs, pump_reserve(p)
    PROVE  InOrder(disp') /\ Together(disp')
<1>0. RowsOK(occ, disp) /\ now \in Nat
  BY ConstantsAssumption DEF TypeOK, RowsOK
<1>1. PICK H \in SUBSET Candidates(PumpRows) :
         Heads(H, PumpRows) /\ disp' = WithReserved(PumpRows, H)
  BY DEF pump_reserve
<1>2. RowsOK(PromotedOccurrences(occ), PumpRows)
  BY <1>0, PumpRowsType
<1>3. /\ InOrder(PumpRows) /\ Together(PumpRows)
      /\ \A d \in DOMAIN PumpRows : PumpRows[d].status \in {"pending", "queued"}
            => ~PastDeadline(d, PumpRows)
  BY PumpRowsMoveOn
<1>4. /\ DOMAIN disp' = DOMAIN PumpRows
      /\ \A d \in DOMAIN PumpRows :
            /\ disp'[d].entry = PumpRows[d].entry
            /\ disp'[d].has_run = PumpRows[d].has_run
            /\ d \notin H => disp'[d] = PumpRows[d] \/ disp'[d].status = "queued"
            /\ PumpRows[d].status \notin {"pending", "queued"} => disp'[d] = PumpRows[d]
  BY <1>0, <1>1, <1>2, WithReservedType
<1>5. \A d \in DOMAIN PumpRows : disp'[d].created_at = PumpRows[d].created_at
  BY <1>1, <1>2 DEF WithReserved, RowsOK, Dispatch
<1> HIDE DEF PumpRows
<1>6. Together(disp')
  BY <1>3, <1>4, <1>5 DEF Together
<1>7. ASSUME NEW c \in DOMAIN PumpRows, NEW d \in DOMAIN PumpRows, Precedes(c, d, PumpRows),
             Begun(d, disp')
      PROVE  PumpRows[c].status \in TerminalDispatch
  <2>1. CASE d \notin H
    <3>1. Begun(d, PumpRows)
      BY <1>4, <1>7, <2>1, RunStatusSplit DEF Begun
    <3> QED BY <1>3, <1>7, <3>1 DEF InOrder
  <2>2. CASE d \in H
    <3>1. PumpRows[c] \in Dispatch /\ PumpRows[d] \in Dispatch /\ c \in DispatchId /\ d \in DispatchId
      BY <1>2 DEF RowsOK
    <3>2. PumpRows[c].status \in {"pending", "queued"} \cup Occupying \cup TerminalDispatch
      BY <3>1 DEF Dispatch, DispatchStatus
    <3>3. PumpRows[c].status \notin Occupying
      BY <1>1, <1>7, <2>2 DEF Heads, InstanceFree, Precedes
    <3>4. ASSUME PumpRows[c].status \in {"pending", "queued"} PROVE FALSE
      <4>1. /\ c.occurrence.due \in Nat /\ PumpRows[c].entry.offset \in Nat
            /\ d.occurrence.due \in Nat /\ PumpRows[d].entry.offset \in Nat
        BY <3>1 DEF Dispatch, PlanEntry, DispatchId, OccurrenceId
      <4>2. NotBefore(c, PumpRows) <= NotBefore(d, PumpRows)
        BY <1>7, <4>1 DEF NotBefore, Precedes
      <4>3. NotBefore(d, PumpRows) <= now
        BY <2>2 DEF Candidates
      <4>4. NotBefore(c, PumpRows) \in Nat /\ NotBefore(d, PumpRows) \in Nat
        BY <4>1 DEF NotBefore
      <4>5. c \in Candidates(PumpRows)
        BY <1>0, <1>3, <3>4, <4>2, <4>3, <4>4 DEF Candidates
      <4>6. PumpRows[c].created_at = PumpRows[d].created_at
        BY <1>3, <1>7 DEF Together, Precedes
      <4>7. Before(c, d, PumpRows)
        BY <1>7, <4>2, <4>4, <4>6 DEF Before, Precedes
      <4> QED BY <1>1, <1>7, <2>2, <4>5, <4>7 DEF Heads, Precedes
    <3> QED BY <3>2, <3>3, <3>4
  <2> QED BY <2>1, <2>2
<1>8. InOrder(disp')
  <2> SUFFICES ASSUME NEW c \in DOMAIN disp', NEW d \in DOMAIN disp', Precedes(c, d, disp'),
                      Begun(d, disp')
               PROVE  disp'[c].status \in TerminalDispatch
    BY DEF InOrder
  <2>1. Precedes(c, d, PumpRows)
    BY <1>4 DEF Precedes, Instance
  <2>2. PumpRows[c].status \in TerminalDispatch
    BY <1>4, <1>7, <2>1
  <2> QED BY <1>4, <2>2, RunStatusSplit
<1> QED BY <1>6, <1>8

(* With one process the entries of a batch on one instance run in the order *)
(* of the list, through retries, expired leases and cut-off pumps.          *)
THEOREM EntriesInOrder ==
    ASSUME \A p, q \in Procs : p = q
    PROVE  Spec => []BatchOrder
<1> DEFINE Ordered == InOrder(disp) /\ Together(disp)
<1>1. Ordered => BatchOrder
  BY DEF BatchOrder, InOrder, Precedes, Begun
<1>2. Init => Ordered
  BY DEF Init, InOrder, Together
<1>3. SerialInv /\ BatchAgreement /\ Ordered /\ [Next]_vars => Ordered'
  <2> SUFFICES ASSUME SerialInv, BatchAgreement, Ordered, [Next]_vars
               PROVE  InOrder(disp') /\ Together(disp')
    BY DEF InOrder, Together, Precedes, Begun, Instance
  <2>1. Agrees(occ, disp) /\ TypeOK /\ now \in Nat
    BY ConstantsAssumption DEF BatchAgreement, Agrees, AgreesAt, SerialInv, TypeOK
  <2>2. CASE UNCHANGED disp
    BY <2>2
  <2>3. ASSUME NEW p \in Procs, NEW source \in {"timer", "recovery"}, process_due(p, source)
        PROVE  InOrder(disp') /\ Together(disp')
    BY <2>1, <2>3, ProcessDueMovesOn, OrderKept
  <2>4. ASSUME NEW p \in Procs, pump_reserve(p)
        PROVE  InOrder(disp') /\ Together(disp')
    BY <2>1, <2>4, ReserveInOrder
  <2>5. ASSUME NEW p \in Procs, NEW d \in reserved[p], NEW answer \in Answers,
               pump_answer(p, d, answer)
        PROVE  InOrder(disp') /\ Together(disp')
    <3>1. /\ DOMAIN disp' = DOMAIN disp /\ d \in DOMAIN disp
          /\ disp'[d].entry = disp[d].entry /\ disp'[d].created_at = disp[d].created_at
          /\ \A c \in DOMAIN disp \ {d} : disp'[c] = disp[c]
      BY <2>1, <2>5, AnswerTables
    <3>2. disp[d].status = "dispatching"
      BY DEF SerialInv, HandoverInv
    <3>3. Begun(d, disp) /\ disp[d].status \notin TerminalDispatch
      BY <3>2 DEF Begun, Occupying, TerminalDispatch
    <3>4. \A c \in DOMAIN disp \ {d} : Begun(c, disp') => Begun(c, disp)
      BY <3>1 DEF Begun
    <3>5. MovesOn(disp, disp')
      BY <3>1, <3>3, <3>4 DEF MovesOn
    <3> QED BY <3>5, OrderKept
  <2>6. ASSUME NEW p \in Procs, NEW d \in DOMAIN disp, NEW status \in RunStatus,
               record_run_status(p, d, status)
        PROVE  InOrder(disp') /\ Together(disp')
    <3> DEFINE rows == [disp EXCEPT ![d].status = status]
               batch == Refreshed(occ, rows, {d.occurrence})
    <3>1. /\ DOMAIN rows = DOMAIN disp
          /\ rows[d] = [disp[d] EXCEPT !.status = status]
          /\ \A c \in DOMAIN disp \ {d} : rows[c] = disp[c]
          /\ RowsOK(batch, rows) /\ Agrees(batch, rows)
          /\ disp' = PromotedDispatches(batch, rows)
      BY <2>1, <2>6, ReportTables
    <3>2. disp[d].has_run /\ disp[d].status \notin TerminalDispatch /\ disp[d] \in Dispatch
      BY <2>1, <2>6 DEF record_run_status, TypeOK
    <3> HIDE DEF rows, batch
    <3>3. rows[d].entry = disp[d].entry /\ rows[d].created_at = disp[d].created_at
      BY <3>1, <3>2 DEF Dispatch
    <3>4. \A c \in DOMAIN disp : Begun(c, rows) => Begun(c, disp)
      BY <3>1, <3>2 DEF Begun
    <3>5. MovesOn(disp, rows)
      BY <3>1, <3>2, <3>3, <3>4 DEF MovesOn
    <3>6. InOrder(rows) /\ Together(rows)
      BY <3>5, OrderKept
    <3> QED BY <2>1, <3>1, <3>6, PromotedMovesOn, OrderKept
  <2> QED BY <2>2, <2>3, <2>4, <2>5, <2>6
      DEF Next, Pump, Edit, Tick, SetClockBack, create_plan, update_plan, delete_plan,
          pump_interrupted, vars, database
<1>4. Spec => []SerialInv
  BY SerialInvariant
<1>5. Spec => []Ordered
  BY <1>2, <1>3, <1>4, BatchesAgree, PTL DEF Spec
<1> QED BY <1>1, <1>5, PTL

----------------------------------------------------------------------------
(* Due points.                                                             *)

(* A product divided by one of its factors.                                *)
LEMMA DivideProduct ==
    ASSUME NEW a \in Nat, NEW e \in Nat \ {0}
    PROVE  (a * e) \div e = a
<1> DEFINE q == (a * e) \div e
<1>1. a * e \in Nat
  OBVIOUS
<1>2. q \in Nat /\ q * e <= a * e /\ a * e < (q + 1) * e
  BY <1>1
<1> HIDE DEF q
<1>3. \A x, y \in Nat : x <= y => x * e <= y * e
  <2> SUFFICES ASSUME NEW x \in Nat, NEW y \in Nat, x <= y PROVE x * e <= y * e
    OBVIOUS
  <2>1. (y - x) \in Nat /\ (y - x) * e \in Nat
    OBVIOUS
  <2>2. y * e = x * e + (y - x) * e
    OBVIOUS
  <2>3. x * e \in Nat
    OBVIOUS
  <2> QED BY <2>1, <2>2, <2>3
<1>4. ~(q + 1 <= a)
  <2> SUFFICES ASSUME q + 1 <= a PROVE FALSE
    OBVIOUS
  <2>1. (q + 1) * e <= a * e
    BY <1>2, <1>3
  <2>2. (q + 1) * e \in Nat
    BY <1>2
  <2> QED BY <1>1, <1>2, <2>1, <2>2
<1>5. ~(a + 1 <= q)
  <2> SUFFICES ASSUME a + 1 <= q PROVE FALSE
    OBVIOUS
  <2>1. (a + 1) * e <= q * e
    BY <1>2, <1>3
  <2>2. (a + 1) * e = a * e + e
    OBVIOUS
  <2>3. q * e \in Nat
    BY <1>2
  <2> QED BY <1>1, <1>2, <2>1, <2>2, <2>3
<1>6. a = q
  BY <1>2, <1>4, <1>5
<1> QED BY <1>6 DEF q

\* The instants of a trigger with a start and a step.
OnGrid(trigger, t) ==
    /\ trigger.type = "once" => t = trigger.at
    /\ trigger.type = "interval" => \E k \in Nat : t = trigger.at + k * trigger.every

(* _initial_next_due starts on the grid.                                   *)
LEMMA InitialOnGrid ==
    ASSUME NEW v \in PlanSpecs, now \in 0..MaxTime
    PROVE  OnGrid(v.trigger, InitialNextDue(v.trigger))
<1>0. v.trigger \in Trigger /\ now \in Nat
  BY ConstantsAssumption DEF SchedulePlan
<1>1. CASE v.trigger.type # "interval"
  BY <1>1 DEF OnGrid, InitialNextDue
<1>2. CASE v.trigger.type = "interval" /\ now < v.trigger.at
  <2>1. InitialNextDue(v.trigger) = v.trigger.at
    BY <1>2 DEF InitialNextDue, NextDueAfter
  <2>2. v.trigger.at = v.trigger.at + 0 * v.trigger.every
    BY <1>0 DEF Trigger
  <2> QED BY <1>2, <2>1, <2>2 DEF OnGrid
<1>3. CASE v.trigger.type = "interval" /\ ~(now < v.trigger.at)
  <2> DEFINE k == (now - v.trigger.at) \div v.trigger.every + 1
  <2>1. k \in Nat
    BY <1>0, <1>3 DEF Trigger
  <2>2. InitialNextDue(v.trigger) = v.trigger.at + k * v.trigger.every
    BY <1>3 DEF InitialNextDue, NextDueAfter
  <2> HIDE DEF k
  <2> QED BY <1>3, <2>1, <2>2 DEF OnGrid
<1> QED BY <1>1, <1>2, <1>3

(* _due_span: the span ends not before it starts, and what follows it is    *)
(* the next due point after its end.                                       *)
LEMMA SpanIsFollowed ==
    ASSUME NEW v \in PlanSpecs, NEW first \in Nat, first <= now, now \in 0..MaxTime,
           OnGrid(v.trigger, first)
    PROVE  LET last == LastDue(v.trigger, first)
               next == DueAfterSpan(v.trigger, first) IN
           /\ last \in Nat /\ first <= last
           /\ next = NextDueAfter(v.trigger, last)
           /\ next # Unset => last < next /\ OnGrid(v.trigger, next)
<1> DEFINE trigger == v.trigger
           last == LastDue(trigger, first)
           next == DueAfterSpan(trigger, first)
<1>0. trigger \in Trigger /\ now \in Nat /\ trigger.at \in Nat /\ trigger.every \in Nat \ {0}
  BY ConstantsAssumption DEF SchedulePlan, Trigger
<1>1. last \in 0..now
  BY LastDueType
<1>2. CASE trigger.type = "once"
  <2>1. last = first /\ first = trigger.at /\ next = Unset
    BY <1>2 DEF LastDue, DueAfterSpan, OnGrid
  <2>2. NextDueAfter(trigger, last) = Unset
    BY <1>0, <1>2, <2>1 DEF NextDueAfter
  <2> QED BY <1>1, <2>1, <2>2
<1>3. CASE trigger.type = "interval"
  <2> DEFINE m == (now - first) \div trigger.every
             at == trigger.at
             e == trigger.every
  <2>1. PICK k \in Nat : first = at + k * e
    BY <1>3 DEF OnGrid
  <2>2. m \in Nat
    BY <1>0
  <2>3. last = first + m * e
    BY <1>3 DEF LastDue
  <2>4. next = last + e
    BY <1>3 DEF DueAfterSpan
  <2>5. NextDueAfter(trigger, last)
          = IF last < at THEN at ELSE at + ((last - at) \div e + 1) * e
    BY <1>3 DEF NextDueAfter
  <2>6. OnGrid(trigger, next) <=> \E j \in Nat : next = at + j * e
    BY <1>3 DEF OnGrid
  <2>7. at \in Nat /\ e \in Nat \ {0} /\ last \in Nat
    BY <1>0, <1>1
  <2> HIDE DEF m, at, e, last, next
  <2>8. k * e \in Nat /\ m * e \in Nat /\ (k + m) \in Nat /\ (k + m) * e \in Nat
    BY <2>2, <2>7
  <2>9. (k + m) * e = k * e + m * e /\ (k + m + 1) * e = k * e + m * e + e
    BY <2>2, <2>7
  <2>10. last - at = (k + m) * e /\ ~(last < at)
    BY <2>1, <2>3, <2>7, <2>8, <2>9
  <2>11. (last - at) \div e = k + m
    BY <2>7, <2>8, <2>10, DivideProduct
  <2>12. NextDueAfter(trigger, last) = at + (k + m + 1) * e
    BY <2>5, <2>10, <2>11
  <2>13. next = at + (k + m + 1) * e /\ (k + m + 1) \in Nat
    BY <2>1, <2>2, <2>3, <2>4, <2>7, <2>8, <2>9
  <2>14. first <= last /\ last < next
    BY <2>3, <2>4, <2>7, <2>8
  <2> QED BY <2>6, <2>7, <2>12, <2>13, <2>14 DEF last, next
<1>4. CASE trigger.type = "daily"
  <2> DEFINE D == DailyAt[trigger.at]
             S == {first} \cup {t \in D : t <= now}
  <2>1. D \subseteq Nat
    BY <1>4, ConstantsAssumption
  <2>2. \E u \in S : \A w \in S : w <= u
    <3>1. CASE \E u \in D : u <= now
      <4>1. PICK u \in D : u <= now /\ \A w \in D : w <= now => w <= u
        BY <1>4, <3>1, ConstantsAssumption
      <4>2. CASE first <= u
        BY <2>1, <4>1, <4>2
      <4>3. CASE ~(first <= u)
        BY <2>1, <4>1, <4>3
      <4> QED BY <4>2, <4>3
    <3>2. CASE ~(\E u \in D : u <= now)
      BY <3>2
    <3> QED BY <3>1, <3>2
  <2>3. \A w \in S : w <= Latest(S)
    BY <2>2 DEF Latest
  <2>4. last = Latest(S)
    BY <1>4 DEF LastDue
  <2>5. first <= last
    BY <2>3, <2>4
  <2>6. next = NextDueAfter(trigger, last)
    BY <1>4 DEF DueAfterSpan
  <2>7. last \in 0..MaxTime
    <3>1. \A x \in 0..now : x \in 0..MaxTime
      BY ConstantsAssumption
    <3> QED BY <1>1, <3>1
  <2> DEFINE after == {t \in D : t > last}
  <2>8. \E u \in after : \A w \in after : u <= w
    BY <1>4, <2>7, ConstantsAssumption
  <2>9. Earliest(after) \in after
    BY <2>8 DEF Earliest
  <2>10. next = Earliest(after)
    BY <1>4, <2>6 DEF NextDueAfter
  <2>11. OnGrid(trigger, next)
    BY <1>4 DEF OnGrid
  <2> HIDE DEF next, last
  <2>12. last < next
    BY <2>1, <2>7, <2>9, <2>10
  <2> QED BY <1>1, <2>5, <2>6, <2>11, <2>12 DEF next, last
<1> QED BY <1>0, <1>2, <1>3, <1>4 DEF Trigger

\* The occurrence is the last of its revision and the plan goes on after it, or
\* the span of another one starts at the due point after it.
Followed(o, batch, row) ==
    /\ row.next_due # Unset => o.due < row.next_due
    /\ \/ /\ row.next_due = NextDueAfter(row.spec.trigger, o.due)
          /\ \A q \in DOMAIN batch :
                q.schedule = o.schedule /\ q.revision = o.revision => q.due <= o.due
       \/ \E r \in DOMAIN batch :
             /\ r.schedule = o.schedule /\ r.revision = o.revision
             /\ batch[r].first_due = NextDueAfter(row.spec.trigger, o.due)

\* The spans of one schedule's occurrences, against its plan.
DuesAt(s, batch, row) ==
    /\ \A o \in DOMAIN batch : o.schedule = s => o.revision <= row.revision
    /\ \A o, q \in DOMAIN batch :
          o.schedule = s /\ q.schedule = s /\ o.revision = q.revision /\ o # q =>
             o.due < batch[q].first_due \/ q.due < batch[o].first_due
    /\ \A o \in DOMAIN batch :
          o.schedule = s /\ o.revision = row.revision => Followed(o, batch, row)
    /\ row.next_due # Unset => OnGrid(row.spec.trigger, row.next_due)

Dues(batch, plans) == \A s \in Schedules : DuesAt(s, batch, plans[s])

\* The batches cover the same spans.
SameSpans(batch, new) ==
    /\ DOMAIN new = DOMAIN batch
    /\ \A o \in DOMAIN batch : new[o].first_due = batch[o].first_due

(* No dispatch moves the spans: a refresh and a promotion only set statuses. *)
LEMMA SpansKept ==
    ASSUME NEW batch, NEW rows, RowsOK(batch, rows), NEW O
    PROVE  /\ SameSpans(batch, Refreshed(batch, rows, O))
           /\ SameSpans(batch, PromotedOccurrences(batch))
<1>1. ASSUME NEW o \in DOMAIN batch
      PROVE  /\ Refreshed(batch, rows, O)[o].first_due = batch[o].first_due
             /\ PromotedOccurrences(batch)[o].first_due = batch[o].first_due
  <2>1. batch[o] \in Occurrence
    BY DEF RowsOK
  <2>2. \A st : [batch[o] EXCEPT !.status = st].first_due = batch[o].first_due
    BY <2>1 DEF Occurrence
  <2>3. Refreshed(batch, rows, O)[o].first_due = batch[o].first_due
    BY <2>2 DEF Refreshed
  <2>4. PromotedOccurrences(batch)[o].first_due = batch[o].first_due
    BY <2>2 DEF PromotedOccurrences
  <2> QED BY <2>3, <2>4
<1>2. DOMAIN Refreshed(batch, rows, O) = DOMAIN batch /\ DOMAIN PromotedOccurrences(batch) = DOMAIN batch
  BY DEF Refreshed, PromotedOccurrences
<1> QED BY <1>1, <1>2 DEF SameSpans

(* The same spans and the same plan row.                                    *)
LEMMA DuesKept ==
    ASSUME NEW s, NEW batch, NEW new, NEW row, SameSpans(batch, new), DuesAt(s, batch, row)
    PROVE  DuesAt(s, new, row)
<1>1. \A o \in DOMAIN batch : Followed(o, batch, row) => Followed(o, new, row)
  BY DEF SameSpans, Followed
<1> QED BY <1>1 DEF SameSpans, DuesAt

(* An edit starts a revision that has no occurrence yet.                    *)
LEMMA EditedDues ==
    ASSUME NEW s, NEW batch, NEW row, NEW new, DuesAt(s, batch, row),
           \A o \in DOMAIN batch : o.schedule = s => o.revision \in Nat,
           row.revision \in Nat, new.revision = row.revision + 1,
           new.next_due # Unset => OnGrid(new.spec.trigger, new.next_due)
    PROVE  DuesAt(s, batch, new)
<1>1. \A o \in DOMAIN batch :
         o.schedule = s => o.revision <= new.revision /\ o.revision # new.revision
  BY DEF DuesAt
<1> QED BY <1>1 DEF DuesAt

(* process_due adds one span that starts where the plan had come to.        *)
LEMMA SpanAdded ==
    ASSUME NEW s \in Schedules, NEW batch, NEW new, NEW row \in Plan, NEW then \in Plan,
           DuesAt(s, batch, row), NEW x, x \notin DOMAIN batch,
           \A o \in DOMAIN batch : o.schedule = s => o.due \in Nat,
           \A o \in DOMAIN new : o.schedule = s => o \in DOMAIN batch \/ o = x,
           DOMAIN batch \subseteq DOMAIN new, x \in DOMAIN new,
           \A o \in DOMAIN batch : new[o] = batch[o],
           x.schedule = s, x.revision = row.revision, x.due \in Nat,
           row.next_due # Unset, new[x].first_due = row.next_due,
           row.next_due <= x.due,
           then.revision = row.revision, then.spec = row.spec,
           then.next_due = NextDueAfter(row.spec.trigger, x.due),
           then.next_due # Unset =>
              x.due < then.next_due /\ OnGrid(row.spec.trigger, then.next_due)
    PROVE  DuesAt(s, new, then)
<1>0. row.next_due \in Nat /\ row.revision \in Nat /\ then.next_due \in Nat \cup {Unset}
  BY DEF Plan
<1>1. \A o \in DOMAIN batch :
         o.schedule = s /\ o.revision = row.revision => o.due < row.next_due
  BY DEF DuesAt, Followed
<1>2. \A o \in DOMAIN new : o.schedule = s => o.revision <= then.revision
  BY <1>0 DEF DuesAt
<1>3. ASSUME NEW o \in DOMAIN new, NEW q \in DOMAIN new,
             o.schedule = s, q.schedule = s, o.revision = q.revision, o # q
      PROVE  o.due < new[q].first_due \/ q.due < new[o].first_due
  <2>1. CASE o \in DOMAIN batch /\ q \in DOMAIN batch
    BY <1>3, <2>1 DEF DuesAt
  <2>2. CASE o = x
    <3>1. q \in DOMAIN batch /\ q.revision = row.revision
      BY <1>3, <2>2
    <3> QED BY <1>1, <1>3, <2>2, <3>1
  <2>3. CASE q = x
    <3>1. o \in DOMAIN batch /\ o.revision = row.revision
      BY <1>3, <2>3
    <3> QED BY <1>1, <1>3, <2>3, <3>1
  <2> QED BY <1>3, <2>1, <2>2, <2>3
<1>4. ASSUME NEW o \in DOMAIN new, o.schedule = s, o.revision = row.revision
      PROVE  Followed(o, new, then)
  <2>1. CASE o = x
    <3>1. \A q \in DOMAIN new : q.schedule = s /\ q.revision = row.revision => q.due <= x.due
      BY <1>0, <1>1
    <3> QED BY <2>1, <3>1 DEF Followed
  <2>2. CASE o \in DOMAIN batch
    <3>1. o.due < row.next_due /\ o.due \in Nat
      BY <1>1, <1>4, <2>2
    <3>2. then.next_due # Unset => o.due < then.next_due
      BY <1>0, <3>1
    <3>3. Followed(o, batch, row)
      BY <1>4, <2>2 DEF DuesAt
    <3>4. CASE row.next_due = NextDueAfter(row.spec.trigger, o.due)
      BY <1>4, <3>2, <3>4 DEF Followed
    <3>5. CASE \E r \in DOMAIN batch :
                  /\ r.schedule = o.schedule /\ r.revision = o.revision
                  /\ batch[r].first_due = NextDueAfter(row.spec.trigger, o.due)
      BY <3>2, <3>5 DEF Followed
    <3> QED BY <3>3, <3>4, <3>5 DEF Followed
  <2> QED BY <1>4, <2>1, <2>2
<1> QED BY <1>2, <1>3, <1>4 DEF DuesAt

(* Every due plan gets its occurrence: the identity process_due computes is *)
(* never on disk already.                                                   *)
LEMMA ProcessDueDues ==
    ASSUME TypeOK, Dues(occ, plan), NEW p \in Procs, NEW source \in {"timer", "recovery"},
           process_due(p, source)
    PROVE  Dues(occ', plan')
<1>0. now \in 0..MaxTime /\ now \in Nat /\ plan' \in [Schedules -> Plan]
  BY ProcessDueType, ConstantsAssumption DEF TypeOK
<1>1. /\ DOMAIN occ' = DOMAIN occ \cup Materialized(source)
      /\ \A o \in DOMAIN occ : occ'[o] = occ[o]
      /\ \A o \in Materialized(source) : IsInserted(o, source)
  BY ProcessDueRows
<1> SUFFICES ASSUME NEW s \in Schedules PROVE DuesAt(s, occ', plan'[s])
  BY DEF Dues
<1>2. DuesAt(s, occ, plan[s]) /\ plan[s] \in Plan /\ plan'[s] \in Plan
  BY <1>0 DEF Dues, TypeOK
<1>3. \A o \in Materialized(source) :
         o.schedule = s => s \in DueSchedules /\ o = NewOccurrenceId(s, source)
  BY <1>1 DEF IsInserted
<1>4. CASE s \notin DueSchedules
  <2>1. plan'[s] = plan[s]
    BY <1>4 DEF process_due
  <2>2. \A o \in DOMAIN occ' : o.schedule = s => o \in DOMAIN occ
    BY <1>1, <1>3, <1>4
  <2>3. \A o \in DOMAIN occ : Followed(o, occ, plan[s]) /\ o.schedule = s => Followed(o, occ', plan[s])
    BY <1>1, <2>2 DEF Followed
  <2> QED BY <1>1, <1>2, <2>1, <2>2, <2>3 DEF DuesAt
<1>5. CASE s \in DueSchedules
  <2> DEFINE x == NewOccurrenceId(s, source)
             v == plan[s].spec
             first == plan[s].next_due
             next == DueAfterSpan(v.trigger, first)
  <2>1. v \in PlanSpecs /\ first \in Nat /\ first # Unset /\ first <= now
    BY <1>2, <1>5 DEF DueSchedules, Plan
  <2>2. OnGrid(v.trigger, first)
    BY <1>2, <2>1 DEF DuesAt
  <2>3. plan'[s] = [plan[s] EXCEPT !.next_due = next, !.enabled = next # Unset]
    BY <1>5 DEF process_due
  <2>4. plan'[s].revision = plan[s].revision /\ plan'[s].spec = v /\ plan'[s].next_due = next
    BY <1>2, <2>3 DEF Plan
  <2>5. /\ x.schedule = s /\ x.revision = plan[s].revision
        /\ x.due = LastDue(v.trigger, first)
    BY DEF NewOccurrenceId, LastDueOf
  <2>6. /\ x.due \in Nat /\ first <= x.due
        /\ next = NextDueAfter(v.trigger, x.due)
        /\ next # Unset => x.due < next /\ OnGrid(v.trigger, next)
    BY <1>0, <2>1, <2>2, <2>5, SpanIsFollowed
  <2>7. \A o \in DOMAIN occ : o.due \in Nat
    BY DEF TypeOK, OccurrenceId
  <2> HIDE DEF next
  <2>8. x \notin DOMAIN occ
    <3> SUFFICES ASSUME x \in DOMAIN occ PROVE FALSE
      OBVIOUS
    <3> HIDE DEF x
    <3>1. Followed(x, occ, plan[s])
      BY <1>2, <2>5 DEF DuesAt
    <3>2. x.due < first
      BY <2>1, <3>1 DEF Followed
    <3> QED BY <2>1, <2>6, <3>2
  <2>9. x \in Materialized(source)
    BY <1>5, <2>8 DEF Materialized
  <2>10. occ'[x].first_due = first
    BY <1>1, <2>5, <2>9 DEF IsInserted
  <2>11. \A o \in DOMAIN occ' : o.schedule = s => o \in DOMAIN occ \/ o = x
    BY <1>1, <1>3
  <2> HIDE DEF x, v, first
  <2> DEFINE new == occ'
             then == plan'[s]
             row == plan[s]
  <2>12. /\ row \in Plan /\ then \in Plan /\ DuesAt(s, occ, row)
         /\ then.revision = row.revision /\ then.spec = row.spec /\ then.next_due = next
         /\ row.spec = v /\ row.next_due = first
    BY <1>2, <2>4 DEF v, first
  <2>13. /\ DOMAIN occ \subseteq DOMAIN new /\ x \in DOMAIN new
         /\ \A o \in DOMAIN occ : new[o] = occ[o]
         /\ new[x].first_due = first
         /\ \A o \in DOMAIN new : o.schedule = s => o \in DOMAIN occ \/ o = x
    BY <1>1, <2>9, <2>10, <2>11
  <2> HIDE DEF new, then, row
  <2>14. /\ \A o \in DOMAIN occ : o.schedule = s => o.due \in Nat
         /\ x.schedule = s /\ x.revision = row.revision /\ x.due \in Nat
         /\ row.next_due # Unset /\ new[x].first_due = row.next_due
         /\ row.next_due <= x.due
         /\ then.next_due = NextDueAfter(row.spec.trigger, x.due)
         /\ then.next_due # Unset =>
               x.due < then.next_due /\ OnGrid(row.spec.trigger, then.next_due)
    BY <2>1, <2>5, <2>6, <2>7, <2>12, <2>13 DEF row
  <2>15. DuesAt(s, new, then)
    BY <2>8, <2>12, <2>13, <2>14, SpanAdded, Zenon
  <2> QED BY <2>15 DEF new, then
<1> QED BY <1>4, <1>5

(* With any number of processes, clocks set back and interrupted pumps, the *)
(* due points of one plan revision are partitioned into the spans of its    *)
(* occurrences: none is in two of them and none between two is left out.    *)
THEOREM DuePointsAreCovered == Spec => []DuePointsPartitioned
<1>1. Init => Dues(occ, plan)
  BY DEF Init, Dues, DuesAt
<1>2. TypeOK /\ Agrees(occ, disp) /\ Dues(occ, plan) /\ [Next]_vars => Dues(occ, plan)'
  <2> SUFFICES ASSUME TypeOK, Agrees(occ, disp), Dues(occ, plan), [Next]_vars
               PROVE  Dues(occ', plan')
    OBVIOUS
  <2>0. /\ RowsOK(occ, disp) /\ now \in 0..MaxTime
        /\ \A o \in DOMAIN occ : o.revision \in Nat
        /\ \A s \in Schedules : plan[s] \in Plan /\ plan[s].revision \in Nat
    BY DEF TypeOK, RowsOK, OccurrenceId, Plan
  <2>1. CASE UNCHANGED <<occ, plan>>
    BY <2>1
  <2>2. ASSUME NEW s \in Schedules, NEW row, occ' = occ, plan' = [plan EXCEPT ![s] = row],
               row.revision = plan[s].revision + 1,
               row.next_due # Unset => OnGrid(row.spec.trigger, row.next_due)
        PROVE  Dues(occ', plan')
    <3> SUFFICES ASSUME NEW q \in Schedules PROVE DuesAt(q, occ, plan'[q])
      BY <2>2 DEF Dues
    <3>1. CASE q = s
      <4>1. plan'[q] = row /\ DuesAt(q, occ, plan[q])
        BY <2>2, <3>1 DEF Dues, TypeOK
      <4>2. DuesAt(q, occ, row)
        BY <2>0, <2>2, <3>1, <4>1, EditedDues
      <4> QED BY <4>1, <4>2
    <3>2. CASE q # s
      BY <2>2, <3>2 DEF Dues, TypeOK
    <3> QED BY <3>1, <3>2
  <2>3. ASSUME NEW v \in PlanSpecs, NEW r
        PROVE  /\ Saved(v, r).revision = r
               /\ Saved(v, r).next_due # Unset =>
                     OnGrid(Saved(v, r).spec.trigger, Saved(v, r).next_due)
    BY <2>0, InitialOnGrid DEF Saved
  <2>4. ASSUME NEW p \in Procs, NEW s \in Schedules, NEW v \in PlanSpecs, create_plan(p, s, v)
        PROVE  Dues(occ', plan')
    <3>1. /\ occ' = occ /\ plan' = [plan EXCEPT ![s] = Saved(v, 1)]
          /\ plan[s].revision + 1 = 1
      BY <2>4 DEF create_plan
    <3> QED BY <2>2, <2>3, <3>1
  <2>5. ASSUME NEW p \in Procs, NEW s \in Schedules, NEW e \in 1..(MaxRevision - 1),
               NEW v \in PlanSpecs, update_plan(p, s, e, v)
        PROVE  Dues(occ', plan')
    <3>1. /\ occ' = occ /\ plan' = [plan EXCEPT ![s] = Saved(v, e + 1)]
          /\ plan[s].revision + 1 = e + 1
      BY <2>5 DEF update_plan
    <3> QED BY <2>2, <2>3, <3>1
  <2>6. ASSUME NEW p \in Procs, NEW s \in Schedules, NEW e \in 1..(MaxRevision - 1),
               delete_plan(p, s, e)
        PROVE  Dues(occ', plan')
    <3> DEFINE row == [plan[s] EXCEPT !.revision = e + 1, !.enabled = FALSE,
                                      !.next_due = Unset, !.deleted = TRUE]
    <3>1. /\ occ' = occ /\ plan' = [plan EXCEPT ![s] = row] /\ plan[s].revision = e
      BY <2>6 DEF delete_plan
    <3>2. row.revision = e + 1 /\ row.next_due = Unset
      BY <2>0 DEF Plan
    <3> HIDE DEF row
    <3> QED BY <2>2, <3>1, <3>2
  <2>7. ASSUME plan' = plan, SameSpans(occ, occ')
        PROVE  Dues(occ', plan')
    BY <2>7, DuesKept DEF Dues
  <2>8. ASSUME NEW p \in Procs, pump_reserve(p)
        PROVE  Dues(occ', plan')
    <3>1. PICK rows, O : /\ RowsOK(PromotedOccurrences(occ), rows)
                         /\ occ' = Refreshed(PromotedOccurrences(occ), rows, O)
      BY <2>8, ReserveTables
    <3>2. SameSpans(occ, PromotedOccurrences(occ))
      BY <2>0, SpansKept
    <3> DEFINE batch == PromotedOccurrences(occ)
    <3> HIDE DEF batch
    <3>3. SameSpans(batch, Refreshed(batch, rows, O))
      BY <3>1, SpansKept DEF batch
    <3>4. SameSpans(occ, occ')
      BY <3>1, <3>2, <3>3 DEF SameSpans, batch
    <3>5. plan' = plan
      BY <2>8 DEF pump_reserve
    <3> QED BY <2>7, <3>4, <3>5
  <2>9. ASSUME NEW p \in Procs, NEW d \in reserved[p], NEW answer \in Answers,
               pump_answer(p, d, answer)
        PROVE  Dues(occ', plan')
    <3>1. /\ DOMAIN disp' = DOMAIN disp
          /\ occ' = Refreshed(occ, disp', {d.occurrence})
      BY <2>9, AnswerTables
    <3>2. SameSpans(occ, Refreshed(occ, disp', {d.occurrence}))
      <4>1. TypeOK'
        BY <2>9, TypeStep DEF Next, Pump
      <4>2. RowsOK(occ, disp')
        BY <2>0, <3>1, <4>1 DEF RowsOK, TypeOK
      <4> QED BY <4>2, SpansKept
    <3>3. plan' = plan
      BY <2>9 DEF pump_answer
    <3> QED BY <2>7, <3>1, <3>2, <3>3
  <2>10. ASSUME NEW p \in Procs, NEW d \in DOMAIN disp, NEW status \in RunStatus,
                record_run_status(p, d, status)
         PROVE  Dues(occ', plan')
    <3> DEFINE rows == [disp EXCEPT ![d].status = status]
               batch == Refreshed(occ, rows, {d.occurrence})
    <3>1. RowsOK(batch, rows) /\ occ' = PromotedOccurrences(batch)
      BY <2>10, ReportTables
    <3>2. SameSpans(occ, batch)
      <4>1. rows[d] \in Dispatch /\ \A c \in DOMAIN disp : c # d => rows[c] = disp[c]
        BY <2>0 DEF RowsOK, Dispatch, DispatchStatus, RunStatus, Occupying, TerminalDispatch
      <4>2. RowsOK(occ, rows)
        BY <2>0, <4>1 DEF RowsOK
      <4> HIDE DEF rows
      <4> QED BY <4>2, SpansKept
    <3> HIDE DEF batch, rows
    <3>3. SameSpans(batch, PromotedOccurrences(batch))
      BY <3>1, SpansKept
    <3>4. SameSpans(occ, occ')
      BY <3>1, <3>2, <3>3 DEF SameSpans
    <3>5. plan' = plan
      BY <2>10 DEF record_run_status
    <3> QED BY <2>7, <3>4, <3>5
  <2>11. ASSUME NEW p \in Procs, NEW source \in {"timer", "recovery"}, process_due(p, source)
         PROVE  Dues(occ', plan')
    BY <2>11, ProcessDueDues
  <2> QED BY <2>1, <2>4, <2>5, <2>6, <2>8, <2>9, <2>10, <2>11
      DEF Next, Pump, Edit, Tick, SetClockBack, pump_interrupted, vars, database
<1>3. TypeOK /\ Dues(occ, plan) => DuePointsPartitioned
  <2> SUFFICES ASSUME TypeOK, Dues(occ, plan), NEW o \in DOMAIN occ, NEW q \in DOMAIN occ,
                      o.schedule = q.schedule, o.revision = q.revision, o # q
               PROVE  /\ o.due < occ[q].first_due \/ q.due < occ[o].first_due
                      /\ o.due < q.due /\ plan[o.schedule].revision = o.revision =>
                            \E r \in DOMAIN occ :
                               /\ r.schedule = o.schedule /\ r.revision = o.revision
                               /\ occ[r].first_due
                                     = NextDueAfter(plan[o.schedule].spec.trigger, o.due)
    BY DEF DuePointsPartitioned
  <2>1. o.schedule \in Schedules /\ o.due \in Nat /\ q.due \in Nat
    BY DEF TypeOK, OccurrenceId
  <2>2. DuesAt(o.schedule, occ, plan[o.schedule])
    BY <2>1 DEF Dues
  <2>3. o.due < occ[q].first_due \/ q.due < occ[o].first_due
    BY <2>2 DEF DuesAt
  <2>4. o.revision = plan[o.schedule].revision => Followed(o, occ, plan[o.schedule])
    BY <2>2 DEF DuesAt
  <2>5. o.due < q.due => ~(q.due <= o.due)
    BY <2>1
  <2> QED BY <2>3, <2>4, <2>5 DEF Followed
<1>4. Spec => []TypeOK
  BY TypeInvariant
<1>5. Spec => []Agrees(occ, disp)
  <2>1. BatchAgreement <=> Agrees(occ, disp)
    BY DEF BatchAgreement, Agrees, AgreesAt
  <2> QED BY <2>1, BatchesAgree, PTL
<1>6. Spec => []Dues(occ, plan)
  BY <1>1, <1>2, <1>4, <1>5, PTL DEF Spec
<1> QED BY <1>3, <1>4, <1>6, PTL

=============================================================================
