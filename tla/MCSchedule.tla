----------------------------- MODULE MCSchedule -----------------------------
(* Instances of ScheduleService for TLC: the plans a user may save.        *)
EXTENDS ScheduleService, TLC

CONSTANTS i1, i2

EntryOf(id, instance, offset, deadline) ==
    [entry_id |-> id, order |-> id, enabled |-> TRUE, instance |-> instance,
     offset |-> offset, deadline |-> deadline]

PlanOf(type, at, every, overlap, misfire, entries) ==
    [enabled |-> TRUE, trigger |-> [type |-> type, at |-> at, every |-> every],
     overlap |-> overlap, misfire |-> misfire, max_lateness |-> 1, entries |-> entries]

\* Two ordered entries on one instance, every two units, waiting batch.
QueueTwoEntries ==
    {PlanOf("interval", 1, 2, "queue_once", "skip",
        {EntryOf(1, i1, 0, Unset), EntryOf(2, i1, 0, 2)})}

\* Interval and daily plans, one of them without an enabled entry.
Recurring ==
    {PlanOf("interval", 0, 2, "queue_once", "catch_up_once", {EntryOf(1, i1, 0, Unset)}),
     PlanOf("daily", 1, 1, "skip", "skip", {[EntryOf(1, i1, 0, 1) EXCEPT !.enabled = FALSE]})}

\* One entry per instance; one of them with a start deadline.
Contended ==
    {PlanOf("once", 1, 1, "skip", "skip", {EntryOf(1, i1, 0, 1), EntryOf(2, i2, 0, Unset)})}

\* The processes run the same code.
ProcSymmetry == Permutations(Procs)

\* Days of uneven length: the wall time is resolved at 1, 3 and 6.
Days == 1 :> {1, 3, 6, 9}
=============================================================================
