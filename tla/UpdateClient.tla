---------------------------- MODULE UpdateClient ----------------------------
(***************************************************************************)
(* Updates of the project content (core/vnext/update_client_v6.py) and the  *)
(* runs that must not be disturbed by them (core/vnext/player_bundle.py).   *)
(* Processes of one product share trust.json, state.json, the slot pointer, *)
(* the downloads and the lease files; check, download and apply hold one    *)
(* file lock, but what they were called for is read before they have it,    *)
(* and every process keeps the copy of state.json it read when it opened.   *)
(* The feed answers with any version it ever had: a mirror may be behind.   *)
(*                                                                         *)
(* Left out: signatures and expiry (an answer is authentic), the keys'      *)
(* rotation, the bucket of an installation (an offer is for it), platforms, *)
(* the time between checks, partial downloads (a download is whole or has   *)
(* failed), the host's own release number, which is zero by default, and    *)
(* what trust.json keeps of targets and rollouts: an answer of the author's *)
(* own feeds passes those checks, a failed write is operation_fails.        *)
(***************************************************************************)
EXTENDS Naturals, FiniteSets, Sequences, FiniteSetsExt

CONSTANTS
    Players,        \* processes that have the product open
    Hands,          \* threads of each process: the scheduler, requests
    Plays,          \* runs of the product's program
    Newest,         \* bound: releases are 1..Newest, and 1 was installed
    Broken,         \* releases that fail the health check
    MaxFeeds,       \* bound: versions of the feed
    MaxStops        \* bound: processes that end without warning

ASSUME UpdateAssumption ==
    /\ Newest \in Nat \ {0}
    /\ Broken \subseteq 2..Newest
    /\ MaxFeeds \in Nat \ {0}
    /\ MaxStops \in Nat

VARIABLES
    feeds,      \* what the author has published, oldest first
    trust,      \* trust.json: the version of the roles, the accepted policy
    stored,     \* state.json
    memory,     \* _state of each process
    pointer,    \* active-slot.json
    downloads,  \* releases of which the cache holds the file
    holder,     \* thread that holds update.lock, or NoHolder
    hand,       \* what each thread is doing
    lease,      \* each process's lease file
    play,       \* the runs; an unheard one has had its lease marked safe by others
    stops       \* processes ended so far

updateVars ==
    <<feeds, trust, stored, memory, pointer, downloads, holder, hand, lease, play, stops>>

NoHolder == << >>
Threads == Players \X Hands
Slots == {"A", "B"}
Other(slot) == IF slot = "A" THEN "B" ELSE "A"

\* Release 0 stands for none.
NoBundle == [release |-> 0, content |-> 0]
\* state.json of a fresh installation; a process that has ended remembers nothing.
Installed == [state |-> "idle", current |-> 1, selected |-> 0, path |-> 0]
Idle(at) == [at |-> at, player |-> NoHolder, unheard |-> FALSE]
AtRest == [at |-> "idle", release |-> 0, path |-> 0]

States == {"idle", "checking", "available", "downloading", "staged",
           "waiting_safe_point", "applying", "verifying", "complete", "failed",
           "rolled_back"}

LastFeed == feeds[Len(feeds)]

----------------------------------------------------------------------------
UpdateInit ==
    /\ \E offer \in {0} \cup 2..Newest :
           feeds = <<[offer |-> offer, revision |-> 0, minimum |-> 0]>>
    /\ trust = [version |-> 0, revision |-> 0, minimum |-> 0]
    /\ stored = Installed
    /\ memory = [p \in Players |-> stored]
    /\ pointer = [active |-> "A", slots |-> [s \in Slots |-> NoBundle]]
    /\ downloads = {}
    /\ holder = NoHolder
    /\ hand = [t \in Threads |-> AtRest]
    /\ lease = [p \in Players |-> "safe"]
    /\ play = [r \in Plays |-> Idle("none")]
    /\ stops = 0

\* The author: an offer for this installation, or none while it is paused;
\* what is offered may be required, and a requirement revoked.
publish(feed) ==
    /\ Len(feeds) < MaxFeeds
    /\ feeds' = Append(feeds, feed)
    /\ UNCHANGED <<trust, stored, memory, pointer, downloads, holder, hand, lease, play, stops>>

author_offers(offer) == publish([LastFeed EXCEPT !.offer = offer])

NextPolicy(minimum) ==
    [LastFeed EXCEPT !.revision = LastFeed.revision + 1, !.minimum = minimum]

author_requires ==
    /\ LastFeed.offer # 0
    /\ publish(NextPolicy(LastFeed.offer))

author_revokes == publish(NextPolicy(0))

(* The client.  _transition changes the memory and writes all of it.       *)

transition(p, value) ==
    /\ memory' = [memory EXCEPT ![p] = value]
    /\ stored' = value

takes_lock(t, at) ==
    /\ holder = NoHolder
    /\ holder' = t
    /\ hand' = [hand EXCEPT ![t].at = at]

leaves(t) ==
    /\ holder' = NoHolder
    /\ hand' = [hand EXCEPT ![t] = AtRest]

check_feed(t, policyOnly) ==
    LET p == t[1] IN
    /\ hand[t].at = "idle"
    /\ lease[p] # "closed"
    /\ takes_lock(t, IF policyOnly THEN "policy" ELSE "check")
    /\ transition(p, [memory[p] EXCEPT !.state = "checking"])
    /\ UNCHANGED <<feeds, trust, pointer, downloads, lease, play, stops>>

\* verify_role_envelope with minimum_version, against what trust.json has seen.
FreshEnough(v) == v >= trust.version

\* Mutant: an answer that is not newer is taken as read.
OnlyIfNewer(at, v) ==
    CASE v > trust.version -> IF at = "check" THEN "accept_check" ELSE "accept_policy"
      [] v <= trust.version -> IF at = "check" THEN "select" ELSE "policy_done"

\* The policy of every answer is looked at, of a cached or known one too.
Acceptance(at, v) == IF at = "check" THEN "accept_check" ELSE "accept_policy"

\* _fetch_metadata: the versions of the roles are written once all are verified.
trust_answer(t, v) ==
    /\ hand[t].at \in {"policy", "check"}
    /\ FreshEnough(v)
    /\ trust' = [trust EXCEPT !.version = v]
    /\ hand' = [hand EXCEPT ![t].release = v, ![t].at = Acceptance(@, v)]
    /\ UNCHANGED <<feeds, stored, memory, pointer, downloads, holder, lease, play, stops>>

\* A feed without a policy leaves the accepted one, an older one is refused.
Accepted(policy) ==
    CASE policy.revision = 0 -> trust
      [] policy.revision # 0 -> [trust EXCEPT !.revision = policy.revision,
                                              !.minimum = policy.minimum]

accept_required_policy(t) ==
    LET policy == feeds[hand[t].release] IN
    /\ hand[t].at \in {"accept_policy", "accept_check"}
    /\ policy.revision = 0 \/ policy.revision >= trust.revision
    /\ trust' = Accepted(policy)
    /\ hand' = [hand EXCEPT ![t].at = IF @ = "accept_check" THEN "select" ELSE "policy_done"]
    /\ UNCHANGED <<feeds, stored, memory, pointer, downloads, holder, lease, play, stops>>

\* _select_update: the highest of the offer and a required release, if newer.
Chosen(current, required, offer) ==
    LET candidates == {offer} \cup IF current < required THEN {required} ELSE {}
    IN  Max({0} \cup {r \in candidates : r > current})

\* The rest of the check: nothing to install clears what was staged; a release
\* to install leaves the path of an earlier download alone.
finish_check(t) ==
    LET p == t[1]
        chosen == Chosen(memory[p].current, trust.minimum, feeds[hand[t].release].offer) IN
    /\ hand[t].at \in {"select", "policy_done"}
    /\ transition(p,
            CASE hand[t].at = "policy_done" ->
                    [memory[p] EXCEPT !.state = IF memory[p].path # 0 THEN "staged" ELSE "idle"]
              [] hand[t].at = "select" /\ chosen = 0 ->
                    [memory[p] EXCEPT !.state = "idle", !.selected = 0, !.path = 0]
              [] hand[t].at = "select" /\ chosen # 0 ->
                    [memory[p] EXCEPT !.state = "available", !.selected = chosen])
    /\ leaves(t)
    /\ UNCHANGED <<feeds, trust, pointer, downloads, lease, play, stops>>

InCheck == {"policy", "check", "accept_policy", "accept_check", "select", "policy_done"}

\* No answer, or one that is refused, or a write that fails, before or after
\* trust.json has been changed; and a download that does not end well.
operation_fails(t) ==
    /\ hand[t].at \in InCheck \cup {"fetch"}
    /\ transition(t[1], [memory[t[1]] EXCEPT !.state = "failed"])
    /\ leaves(t)
    /\ UNCHANGED <<feeds, trust, pointer, downloads, lease, play, stops>>

\* The release is looked up first; the lock may be some time in coming.
download_call(t) ==
    LET p == t[1] IN
    /\ hand[t].at = "idle"
    /\ lease[p] # "closed"
    /\ memory[p].selected # 0
    /\ hand' = [hand EXCEPT ![t].at = "to_fetch", ![t].release = memory[p].selected]
    /\ UNCHANGED <<feeds, trust, stored, memory, pointer, downloads, holder, lease, play, stops>>

download(t) ==
    /\ hand[t].at = "to_fetch"
    /\ takes_lock(t, "fetch")
    /\ transition(t[1], [memory[t[1]] EXCEPT !.state = "downloading"])
    /\ UNCHANGED <<feeds, trust, pointer, downloads, lease, play, stops>>

download_done(t) ==
    /\ hand[t].at = "fetch"
    /\ downloads' = downloads \cup {hand[t].release}
    /\ transition(t[1], [memory[t[1]] EXCEPT !.state = "staged", !.path = hand[t].release])
    /\ leaves(t)
    /\ UNCHANGED <<feeds, trust, pointer, lease, play, stops>>

\* The cache may be removed at any time.
clear_cache ==
    /\ downloads # {}
    /\ downloads' = {}
    /\ UNCHANGED <<feeds, trust, stored, memory, pointer, holder, hand, lease, play, stops>>

apply_call(t) ==
    LET p == t[1] IN
    /\ hand[t].at = "idle"
    /\ lease[p] # "closed"
    /\ memory[p].selected # 0
    /\ memory[p].path \in downloads
    /\ hand' = [hand EXCEPT ![t] = [at |-> "to_apply", release |-> memory[p].selected,
                                    path |-> memory[p].path]]
    /\ UNCHANGED <<feeds, trust, stored, memory, pointer, downloads, holder, lease, play, stops>>

\* Mutant: only the process that applies is asked.
OwnLease(p) == lease[p] # "unsafe"

\* ProcessLeaseRegistry.all_safe; a lease of an ended process is removed.
all_safe(p) == \A q \in Players : lease[q] # "unsafe"

apply_look(t) ==
    LET p == t[1] IN
    /\ hand[t].at = "to_apply"
    /\ holder = NoHolder
    /\ IF all_safe(p)
       THEN /\ takes_lock(t, "stage")
            /\ transition(p, [memory[p] EXCEPT !.state = "applying"])
       ELSE /\ hand' = [hand EXCEPT ![t] = AtRest]
            /\ transition(p, [memory[p] EXCEPT !.state = "waiting_safe_point"])
            /\ UNCHANGED holder
    /\ UNCHANGED <<feeds, trust, pointer, downloads, lease, play, stops>>

\* AtomicContentSlots.stage: the file goes into the slot that is not active.
apply_stage(t) ==
    /\ hand[t].at = "stage"
    /\ hand[t].path \in downloads
    /\ pointer' = [pointer EXCEPT !.slots[Other(pointer.active)] =
                        [release |-> hand[t].release, content |-> hand[t].path]]
    /\ transition(t[1], [memory[t[1]] EXCEPT !.state = "verifying"])
    /\ hand' = [hand EXCEPT ![t].at = "activate"]
    /\ UNCHANGED <<feeds, trust, downloads, holder, lease, play, stops>>

apply_stage_fails(t) ==
    /\ hand[t].at = "stage"
    /\ hand[t].path \notin downloads
    /\ transition(t[1], [memory[t[1]] EXCEPT !.state = "rolled_back"])
    /\ leaves(t)
    /\ UNCHANGED <<feeds, trust, pointer, downloads, lease, play, stops>>

Switched == [pointer EXCEPT !.active = Other(pointer.active)]

\* activate writes the pointer before the health check.
switch_slot(t) ==
    /\ hand[t].at = "activate"
    /\ pointer' = Switched
    /\ hand' = [hand EXCEPT ![t].at = "health"]
    /\ UNCHANGED <<feeds, trust, stored, memory, downloads, holder, lease, play, stops>>

\* Mutant: the new slot stays.
StaysSwitched == pointer

\* The pointer activate had read.
Restored == Switched

health_check(t) ==
    LET p == t[1]
        healthy == pointer.slots[pointer.active].content \notin Broken IN
    /\ hand[t].at = "health"
    /\ IF healthy
       THEN /\ transition(p, [state |-> "complete", current |-> hand[t].release,
                              selected |-> 0, path |-> 0])
            /\ UNCHANGED pointer
       ELSE /\ transition(p, [memory[p] EXCEPT !.state = "rolled_back"])
            /\ pointer' = Restored
    /\ leaves(t)
    /\ UNCHANGED <<feeds, trust, downloads, lease, play, stops>>

(* Runs of the player's program.                                           *)

\* task_start_block: the policy of trust.json, the release in memory.
Blocked(p) == memory[p].current < trust.minimum

\* The runs after the lease of p has been written: history, for RunsAreSpared.
heard(p) == [r \in Plays |->
    IF play[r].player = p THEN [play[r] EXCEPT !.unheard = FALSE] ELSE play[r]]
unheard(p) == [r \in Plays |->
    IF play[r].player = p THEN [play[r] EXCEPT !.unheard = TRUE] ELSE play[r]]

\* The leases are marked before the runtime is asked to start.
start_play(r, p) ==
    /\ play[r].at = "none"
    /\ lease[p] # "closed"
    /\ ~Blocked(p)
    /\ lease' = [lease EXCEPT ![p] = "unsafe"]
    /\ play' = [heard(p) EXCEPT ![r] = [at |-> "marked", player |-> p, unheard |-> FALSE]]
    /\ UNCHANGED <<feeds, trust, stored, memory, pointer, downloads, holder, hand, stops>>

runtime_starts(r) ==
    /\ play[r].at = "marked"
    /\ play' = [play EXCEPT ![r].at = "started"]
    /\ UNCHANGED <<feeds, trust, stored, memory, pointer, downloads, holder, hand, lease, stops>>

\* Only now does _runtime_busy know of the run.
note_play(r) ==
    /\ play[r].at = "started"
    /\ play' = [play EXCEPT ![r].at = "noted"]
    /\ UNCHANGED <<feeds, trust, stored, memory, pointer, downloads, holder, hand, lease, stops>>

play_ends(r) ==
    /\ play[r].at \in {"noted", "orphan"}
    /\ play' = [play EXCEPT ![r] = IF play[r].at = "noted"
                                   THEN [play[r] EXCEPT !.at = "ended"] ELSE Idle("over")]
    /\ UNCHANGED <<feeds, trust, stored, memory, pointer, downloads, holder, hand, lease, stops>>

_runtime_busy(p) == \E q \in Plays : play[q].player = p /\ play[q].at = "noted"

\* _monitor_update_execution after the end, and the handler of a failed start.
mark_end(r) ==
    LET p == play[r].player IN
    /\ play[r].at \in {"marked", "ended"}
    /\ lease' = [lease EXCEPT ![p] = IF _runtime_busy(p) THEN "unsafe" ELSE "safe"]
    /\ play' = [IF _runtime_busy(p) THEN heard(p) ELSE unheard(p) EXCEPT ![r] = Idle("over")]
    /\ UNCHANGED <<feeds, trust, stored, memory, pointer, downloads, holder, hand, stops>>

\* A page says whether it knows of a run or has a draft; nobody asks the runtime.
mark_update_safe_point(p, busy) ==
    /\ lease[p] # "closed"
    /\ lease' = [lease EXCEPT ![p] = IF busy THEN "unsafe" ELSE "safe"]
    /\ play' = IF busy THEN heard(p) ELSE unheard(p)
    /\ UNCHANGED <<feeds, trust, stored, memory, pointer, downloads, holder, hand, stops>>

(* Processes.                                                              *)

\* What the runtime has started goes on without it, and nobody follows it.
process_stops(p) ==
    /\ stops < MaxStops
    /\ lease[p] # "closed"
    /\ stops' = stops + 1
    /\ lease' = [lease EXCEPT ![p] = "closed"]
    /\ hand' = [t \in Threads |-> IF t[1] = p THEN AtRest ELSE hand[t]]
    /\ holder' = IF holder # NoHolder /\ holder[1] = p THEN NoHolder ELSE holder
    /\ play' = [r \in Plays |->
                    CASE play[r].player # p -> play[r]
                      [] play[r].player = p /\ play[r].at \in {"started", "noted"} -> Idle("orphan")
                      [] play[r].player = p /\ play[r].at \notin {"started", "noted"} -> Idle("over")]
    /\ memory' = [memory EXCEPT ![p] = Installed]
    /\ UNCHANGED <<feeds, trust, stored, pointer, downloads>>

\* UpdateClient.__init__ and the first mark_runtime_state.
process_opens(p) ==
    /\ lease[p] = "closed"
    /\ memory' = [memory EXCEPT ![p] = stored]
    /\ lease' = [lease EXCEPT ![p] = "safe"]
    /\ UNCHANGED <<feeds, trust, stored, pointer, downloads, holder, hand, play, stops>>

UpdateNext ==
    \/ \E offer \in {0} \cup 2..Newest : author_offers(offer)
    \/ author_requires \/ author_revokes
    \/ \E t \in Threads :
        \/ \E policyOnly \in BOOLEAN : check_feed(t, policyOnly)
        \/ \E v \in 1..Len(feeds) : trust_answer(t, v)
        \/ accept_required_policy(t) \/ finish_check(t) \/ operation_fails(t)
        \/ download_call(t) \/ download(t) \/ download_done(t)
        \/ apply_call(t) \/ apply_look(t)
        \/ apply_stage(t) \/ apply_stage_fails(t) \/ switch_slot(t) \/ health_check(t)
    \/ clear_cache
    \/ \E r \in Plays :
        \/ \E p \in Players : start_play(r, p)
        \/ runtime_starts(r) \/ note_play(r) \/ play_ends(r) \/ mark_end(r)
    \/ \E p \in Players :
        \/ \E busy \in BOOLEAN : mark_update_safe_point(p, busy)
        \/ process_stops(p) \/ process_opens(p)

UpdateSpec == UpdateInit /\ [][UpdateNext]_updateVars

----------------------------------------------------------------------------
(* Properties.                                                             *)

UpdateTypeOK ==
    /\ trust \in [version : 0..MaxFeeds, revision : 0..MaxFeeds, minimum : 0..Newest]
    /\ stored \in [state : States, current : 1..Newest, selected : 0..Newest, path : 0..Newest]
    /\ memory \in [Players -> [state : States, current : 1..Newest, selected : 0..Newest,
                               path : 0..Newest]]
    /\ pointer \in [active : Slots, slots : [Slots -> [release : 0..Newest, content : 0..Newest]]]
    /\ downloads \subseteq 1..Newest
    /\ holder \in Threads \cup {NoHolder}
    /\ lease \in [Players -> {"safe", "unsafe", "closed"}]

\* A check has ended well: its state is what a feed or the end of one says.
Checked(t) ==
    /\ hand[t].at \in {"select", "policy_done"}
    /\ stored'.state \in {"idle", "staged", "available"}

\* Whatever an out-of-date mirror answers, whichever process asks, and however
\* many checks have failed or died between the two writes of trust.json: neither
\* the feed nor its policy goes back, the required release changes with a newer
\* policy only, and a check that ends well leaves the policy of the trusted feed.
PolicyMovesForward ==
    [][ /\ trust'.version >= trust.version
        /\ trust'.revision >= trust.revision
        /\ trust'.minimum # trust.minimum => trust'.revision > trust.revision
        /\ \A t \in Threads : Checked(t) => /\ trust.revision = feeds[trust.version].revision
                                            /\ trust.minimum = feeds[trust.version].minimum
      ]_updateVars

\* Between operations the active slot holds a bundle that passes the health
\* check, as long as no process has ended in the middle of one.
ActiveIsHealthy ==
    stops = 0 /\ holder = NoHolder => pointer.slots[pointer.active].content \notin Broken

Underway(r) == play[r].at \in {"marked", "started", "noted"}

\* apply goes past its look at the leases while a Player has a run under way
\* only if the lease was marked safe over that run's head: by a page of the
\* Player, or at the end of another run before this one was noted.  (A run whose
\* Player has died has no lease.)
RunsAreSpared ==
    [][\A t \in Threads : hand[t].at = "to_apply" /\ hand'[t].at = "stage"
            => \A r \in Plays : Underway(r) => play[r].unheard]_updateVars

\* The active slot holds the release it is recorded as.
ActiveIsWhatItSays ==
    pointer.slots[pointer.active].release = pointer.slots[pointer.active].content
=============================================================================
