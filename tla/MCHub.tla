------------------------------- MODULE MCHub -------------------------------
(* Instances of PlayerHub for TLC; the plans are those of MCSchedule.      *)
EXTENDS PlayerHub, MCSchedule

\* Two instances; the second entry starts one unit later.
Staggered ==
    {PlanOf("once", 0, 1, "skip", "skip", {EntryOf(1, i1, 0, Unset), EntryOf(2, i2, 1, Unset)})}

\* Two entries on one instance, once.
Pair == {PlanOf("once", 0, 1, "skip", "skip", {EntryOf(1, i1, 0, Unset), EntryOf(2, i1, 0, 1)})}

\* The profiles of both entries run on one target, or need none.
Shared == [e \in {1, 2} |-> "window"]
Untargeted == [e \in {1, 2} |-> NoTarget]
=============================================================================
