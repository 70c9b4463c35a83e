----------------------------- MODULE ProgramRun -----------------------------
(***************************************************************************)
(* The interpreter of a program (core/vnext/runtime.py, _run and what it     *)
(* calls).  The Python stack of a run is `frames`: a frame per block, loop,  *)
(* exception region, target scope, function call and listener that is being  *)
(* executed.  `signal` is the exception in flight; "leave" is the return out *)
(* of _execute_block that a cancelled wait, loop or retry interval makes.    *)
(* A cancellation returns normally through blocks and calls, everything else *)
(* is unwound frame by frame.                                               *)
(*                                                                         *)
(* Values, expressions and what an action does are left out: any evaluation  *)
(* and any action may fail.  Pauses and the worker's process are in          *)
(* RuntimeSession, the queue a message is claimed from in MessageRuntime.    *)
(***************************************************************************)
EXTENDS Naturals, Sequences, FiniteSets, SequencesExt

CONSTANTS
    Runs,           \* executions
    Cancellable,    \* the runs that may be cancelled
    EntriesOf,      \* the blocks each run may have as its entry function
    Code,           \* block -> its instructions
    Targets,        \* targets locked into the program
    HomeOf,         \* the default target of each run, or NoTarget
    MaxDepth,       \* nesting of calls (100 in the code)
    MaxMessages     \* bound: how many messages arrive

NoTarget == "no target"
Nobody == "nobody"
Host == "host"      \* the table of owners in the process that starts the runs

ASSUME ProgramRunAssumption ==
    /\ NoTarget \notin Targets
    /\ Nobody \notin Runs /\ Host \notin Runs
    /\ HomeOf \in [Runs -> Targets \cup {NoTarget}]
    /\ Cancellable \subseteq Runs
    /\ MaxDepth \in Nat /\ MaxMessages \in Nat

VARIABLES
    run,        \* each run: its session, frames and target stack
    owners,     \* _target_owners of every process
    arrived,    \* number of messages that have arrived
    isolated    \* use_worker_process: each run is in a worker of its own

executionVars == <<run, owners, arrived, isolated>>

Errors == {"permanent", "transient", "cancelled"}

NotStarted ==
    [at |-> "absent", status |-> "queued", cancel |-> FALSE, frames |-> <<>>, signal |-> "none",
     stack |-> <<>>, listeners |-> <<>>, inbox |-> {}, dispatching |-> FALSE]

\* vnext_runtime keeps a table, and the runtime of a worker has one of its own.
TableOf(r) == IF isolated THEN r ELSE Host

Free(r, table, target) == owners[table][target] \in {Nobody, r}

Taken(r, tables, target) ==
    [t \in DOMAIN owners |-> IF t \in tables /\ target \in Targets
                             THEN [owners[t] EXCEPT ![target] = r] ELSE owners[t]]

Released(r, tables, target) ==
    [t \in DOMAIN owners |-> IF t \in tables /\ target \in Targets /\ owners[t][target] = r
                             THEN [owners[t] EXCEPT ![target] = Nobody] ELSE owners[t]]

----------------------------------------------------------------------------
(* Frames.                                                                 *)

Block(b) == [kind |-> "block", block |-> b, at |-> 1, step |-> "check"]
Call == [kind |-> "call"]

Top(r) == Last(run[r].frames)
Below(r) == Front(run[r].frames)

\* What the rest of an action is about: the top frame, with or without a signal.
In(r, kind) == run[r].frames # <<>> /\ Top(r).kind = kind
Quiet(r) == run[r].signal = "none"

Continues(r, frames, signal) == run' = [run EXCEPT ![r].frames = frames, ![r].signal = signal]
Stops(r, frames, signal) ==
    run' = [run EXCEPT ![r].frames = frames, ![r].signal = signal, ![r].status = "cancelled"]

Depth(r) == Cardinality({i \in DOMAIN run[r].frames : run[r].frames[i].kind = "call"})

Instruction(r) == Code[Top(r).block][Top(r).at]
AtEnd(r) == Top(r).at > Len(Code[Top(r).block])

\* The block, past the instruction that begins.
Advanced(r) == Append(Below(r), [Top(r) EXCEPT !.at = @ + 1, !.step = "check"])

\* _checkpoint: the listeners are looked at, unless one of them is at work.
Checkpointed(r, frames) ==
    IF run[r].inbox = {} \/ run[r].listeners = <<>> \/ run[r].dispatching THEN frames
    ELSE Append(frames, [kind |-> "dispatch", left |-> run[r].listeners, upto |-> run[r].inbox, looked |-> FALSE])

----------------------------------------------------------------------------
ExecutionInit ==
    /\ run = [r \in Runs |-> NotStarted]
    /\ owners = [t \in Runs \cup {Host} |-> [target \in Targets |-> Nobody]]
    /\ arrived = 0
    /\ isolated \in BOOLEAN

\* start: the default target is taken by the starting process, and by the worker.
start_program(r) ==
    /\ run[r].at = "absent"
    /\ HomeOf[r] \in Targets => owners[Host][HomeOf[r]] = Nobody
    /\ owners' = Taken(r, {Host, TableOf(r)}, HomeOf[r])
    /\ run' = [run EXCEPT ![r].at = "running", ![r].status = "running", ![r].frames = <<[kind |-> "opening"]>>]

\* _run: the default driver proves itself with a frame; then the entry function.
open_default(r) ==
    /\ In(r, "opening")
    /\ \/ \E b \in EntriesOf[r] :
            run' = [run EXCEPT ![r].stack = <<HomeOf[r]>>, ![r].frames = <<Call, Block(b)>>]
       \/ Continues(r, <<>>, "permanent")

\* The end of _run, whatever is in flight.
OutcomeOf(r) ==
    IF run[r].signal = "none" THEN IF run[r].status = "cancelled" THEN "cancelled" ELSE "completed"
    ELSE IF run[r].cancel \/ run[r].signal = "cancelled" THEN "cancelled" ELSE "failed"

end_run(r) ==
    /\ run[r].at = "running"
    /\ run[r].frames = <<>>
    /\ run' = [run EXCEPT ![r].at = "ended", ![r].status = OutcomeOf(r), ![r].signal = "none", ![r].stack = <<>>]
    /\ owners' = Taken(Nobody, {Host, TableOf(r)}, HomeOf[r])   \* whoever is named there

cancel_run(r) ==
    /\ r \in Cancellable
    /\ run[r].at = "running"
    /\ ~run[r].cancel
    /\ run' = [run EXCEPT ![r].cancel = TRUE]

\* Before the run listens a message only waits: it then arrives just after.
message_arrives(r) ==
    /\ arrived < MaxMessages
    /\ run[r].at = "running"
    /\ run[r].listeners # <<>>
    /\ arrived' = arrived + 1
    /\ run' = [run EXCEPT ![r].inbox = @ \cup {arrived + 1}]

----------------------------------------------------------------------------
(* _execute_block.                                                         *)

\* Before an instruction and after the last one: cancelled, or a checkpoint.
look_around(r) ==
    /\ In(r, "block") /\ Quiet(r) /\ Top(r).step = "check"
    /\ IF run[r].cancel
       THEN Stops(r, Below(r), "none")
       ELSE Continues(r, Checkpointed(r, Append(Below(r), [Top(r) EXCEPT !.step = "ready"])), "none")

block_ends(r) ==
    /\ In(r, "block") /\ Quiet(r) /\ Top(r).step = "ready" /\ AtEnd(r)
    /\ Continues(r, Below(r), "none")

\* Mutant: the look before the checkpoint is thought to be enough.
NotLookedAgain(r) == FALSE

\* The checkpoint may have taken long: the second look.
CancelledMeanwhile(r) == run[r].cancel

stopped_after_checkpoint(r) ==
    /\ In(r, "block") /\ Quiet(r) /\ Top(r).step = "ready" /\ ~AtEnd(r)
    /\ CancelledMeanwhile(r)
    /\ Stops(r, Below(r), "none")

MayBegin(r) == In(r, "block") /\ Quiet(r) /\ Top(r).step = "ready" /\ ~AtEnd(r) /\ ~CancelledMeanwhile(r)

Begins(r, op) == MayBegin(r) /\ Instruction(r).op = op

\* Any expression of an instruction may fail to be evaluated.
evaluation_fails(r) ==
    /\ MayBegin(r)
    /\ Instruction(r).op \notin {"break", "continue"}
    /\ Continues(r, Advanced(r), "permanent")

begin_action(r) ==
    /\ Begins(r, "act")
    /\ Continues(r, Append(Advanced(r), [kind |-> "act", waits |-> Instruction(r).waits]), "none")

\* An action of a driver, a file, a message, the network, an extension: it is asked
\* to end by itself when the run is cancelled.
action_ends(r) ==
    /\ In(r, "act") /\ Quiet(r) /\ Top(r).waits # "wait"
    /\ \E outcome \in {"none", "permanent", "transient"} \cup (IF run[r].cancel THEN {"cancelled"} ELSE {}) :
          Continues(r, Below(r), outcome)

\* wait.duration, wait.until.
wait_ends(r) ==
    /\ In(r, "act") /\ Quiet(r) /\ Top(r).waits = "wait"
    /\ IF run[r].cancel THEN Stops(r, Below(r), "leave") ELSE Continues(r, Below(r), "none")

\* A wait, a waiting action and a retry interval make checkpoints of their own.
checkpoint_in_wait(r) ==
    /\ Quiet(r)
    /\ \/ In(r, "act") /\ Top(r).waits \in {"wait", "checks"}
       \/ In(r, "try") /\ Top(r).step = "waiting"
    /\ ~run[r].cancel
    /\ Checkpointed(r, <<>>) # <<>>
    /\ Continues(r, Checkpointed(r, run[r].frames), "none")

\* What a checkpoint raises (a handler that fails) goes through the action or the wait.
action_is_left(r) ==
    /\ In(r, "act") /\ ~Quiet(r)
    /\ Continues(r, Below(r), run[r].signal)

begin_if(r) ==
    /\ Begins(r, "if")
    /\ \E b \in Instruction(r).branches : Continues(r, Append(Advanced(r), Block(b)), "none")

\* control.return, break, continue and fail.
raise(r) ==
    /\ \/ Begins(r, "return") /\ Continues(r, Advanced(r), "return")
       \/ Begins(r, "break") /\ Continues(r, Advanced(r), "break")
       \/ Begins(r, "continue") /\ Continues(r, Advanced(r), "continue")
       \/ Begins(r, "fail") /\ Continues(r, Advanced(r), "permanent")

\* An exception leaves the block; so does the return of a cancelled wait, which ends here.
block_is_left(r) ==
    /\ In(r, "block") /\ ~Quiet(r)
    /\ Continues(r, Below(r), IF run[r].signal = "leave" THEN "none" ELSE run[r].signal)

----------------------------------------------------------------------------
(* Functions.                                                              *)

begin_call(r) ==
    /\ Begins(r, "call")
    /\ IF Depth(r) > MaxDepth
       THEN Continues(r, Advanced(r), "permanent")
       ELSE Continues(r, Advanced(r) \o <<Call, Block(Instruction(r).function)>>, "none")

\* A value of the wrong type, or none where one is declared, is a failure, unless the
\* run was cancelled.
call_ends(r) ==
    /\ In(r, "call")
    /\ \/ run[r].signal \in {"none", "return"} /\ Continues(r, Below(r), "none")
       \/ run[r].signal = "return" /\ Continues(r, Below(r), "permanent")
       \/ Quiet(r) /\ ~run[r].cancel /\ run[r].status # "cancelled" /\ Continues(r, Below(r), "permanent")
       \/ run[r].signal \notin {"none", "return"} /\ Continues(r, Below(r), run[r].signal)

----------------------------------------------------------------------------
(* Loops: repeat and for_each do not look for a cancellation themselves,     *)
(* and only repeat has no limit of rounds.                                  *)

begin_loop(r) ==
    /\ Begins(r, "loop")
    /\ Continues(r, Append(Advanced(r), [kind |-> "loop", loop |-> Instruction(r).loop,
                                    body |-> Instruction(r).body, left |-> Instruction(r).rounds]), "none")

next_round(r) ==
    /\ In(r, "loop") /\ run[r].signal \in {"none", "continue"}
    /\ Top(r).left > 0
    /\ IF run[r].cancel /\ Top(r).loop \in {"while", "for_each_map"}
       THEN Stops(r, Below(r), "leave")
       ELSE Continues(r, Below(r) \o <<[Top(r) EXCEPT !.left = @ - 1], Block(Top(r).body)>>, "none")

loop_ends(r) ==
    /\ In(r, "loop")
    /\ \/ run[r].signal \in {"none", "continue"} /\ (Top(r).left = 0 \/ Top(r).loop = "while")
          /\ Continues(r, Below(r), "none")
       \/ run[r].signal \in {"none", "continue"} /\ Top(r).left = 0 /\ Top(r).loop # "repeat"
          /\ Continues(r, Below(r), "permanent")
       \/ run[r].signal = "break" /\ Continues(r, Below(r), "none")
       \/ run[r].signal \notin {"none", "continue", "break"} /\ Continues(r, Below(r), run[r].signal)

----------------------------------------------------------------------------
(* Exception regions.                                                      *)

begin_try(r) ==
    /\ Begins(r, "try")
    /\ Continues(r, Advanced(r) \o <<[kind |-> "try", block |-> Top(r).block, at |-> Top(r).at, step |-> "body",
                                 attempts |-> 0, pending |-> "none"],
                                Block(Instruction(r).body)>>, "none")

RegionOf(r) == Code[Top(r).block][Top(r).at]

\* The branches that name the error, or name none; the first of them counts.
Catchers(region, error) ==
    {i \in DOMAIN region.catches : region.catches[i].errors = {} \/ error \in region.catches[i].errors}

Retried(r) ==
    /\ Top(r).step = "body"
    /\ run[r].signal \in Errors
    /\ Top(r).attempts < RegionOf(r).retries
    /\ RegionOf(r).transient_only => run[r].signal = "transient"

Caught(r) ==
    /\ Top(r).step \in {"body", "waiting"}
    /\ run[r].signal \in Errors
    /\ Catchers(RegionOf(r), run[r].signal) # {}

\* The final branch, with what is to go on after it.
Finally(r, pending) ==
    Continues(r, Below(r) \o <<[Top(r) EXCEPT !.step = "final", !.pending = pending],
                          Block(RegionOf(r).final)>>, "none")

try_retries(r) ==
    /\ In(r, "try") /\ Retried(r)
    /\ Continues(r, Append(Below(r), [Top(r) EXCEPT !.step = "waiting", !.attempts = @ + 1]), "none")

interval_ends(r) ==
    /\ In(r, "try") /\ Quiet(r) /\ Top(r).step = "waiting"
    /\ \/ Continues(r, Below(r) \o <<[Top(r) EXCEPT !.step = "body"], Block(RegionOf(r).body)>>, "none")
       \/ /\ run[r].cancel
          /\ Stops(r, Below(r) \o <<[Top(r) EXCEPT !.step = "final", !.pending = "leave"],
                                    Block(RegionOf(r).final)>>, "none")

try_catches(r) ==
    /\ In(r, "try") /\ ~Retried(r) /\ Caught(r)
    /\ LET first == CHOOSE i \in Catchers(RegionOf(r), run[r].signal) :
                        \A j \in Catchers(RegionOf(r), run[r].signal) : i <= j
       IN Continues(r, Below(r) \o <<[Top(r) EXCEPT !.step = "catch"],
                                      Block(RegionOf(r).catches[first].body)>>, "none")

try_finally(r) ==
    /\ In(r, "try")
    /\ \/ Quiet(r) /\ Top(r).step \in {"body", "catch"}
       \/ ~Quiet(r) /\ Top(r).step # "final" /\ ~Retried(r) /\ ~Caught(r)
    /\ Finally(r, run[r].signal)

\* What the final branch raises takes the place of what was pending.
try_ends(r) ==
    /\ In(r, "try") /\ Top(r).step = "final"
    /\ Continues(r, Below(r), IF Quiet(r) THEN Top(r).pending ELSE run[r].signal)

begin_retry(r) ==
    /\ Begins(r, "retry")
    /\ Continues(r, Advanced(r) \o <<[kind |-> "retry", body |-> Instruction(r).body, left |-> Instruction(r).count],
                                Block(Instruction(r).body)>>, "none")

retry_ends(r) ==
    /\ In(r, "retry")
    /\ IF run[r].signal \in Errors /\ Top(r).left > 1
       THEN Continues(r, Below(r) \o <<[Top(r) EXCEPT !.left = @ - 1], Block(Top(r).body)>>, "none")
       ELSE Continues(r, Below(r), run[r].signal)

----------------------------------------------------------------------------
(* Target scopes: _TargetScopeManager.enter.                                *)

begin_scope(r) ==
    /\ Begins(r, "scope")
    /\ Continues(r, Append(Advanced(r), [kind |-> "entering", target |-> Instruction(r).target,
                                    body |-> Instruction(r).body, acquired |-> FALSE, asked |-> FALSE]), "none")

Scope(r, pushed) ==
    <<[kind |-> "scope", target |-> Top(r).target, acquired |-> Top(r).acquired, pushed |-> pushed],
      Block(Top(r).body)>>

Entering(r) == In(r, "entering") /\ ~Top(r).asked

enter_refused(r) ==
    /\ Entering(r)
    /\ \/ run[r].cancel /\ Continues(r, Below(r), "cancelled")
       \/ ~run[r].cancel /\ Top(r).target \notin Targets /\ Continues(r, Below(r), "permanent")

enter_same(r) ==
    /\ Entering(r) /\ ~run[r].cancel
    /\ Top(r).target \in Targets
    /\ Top(r).target = Last(run[r].stack)
    /\ Continues(r, Below(r) \o Scope(r, FALSE), "none")

\* A target of an outer scope is used again.
enter_again(r) ==
    /\ Entering(r) /\ ~run[r].cancel
    /\ Top(r).target \in ToSet(run[r].stack) \ {Last(run[r].stack), NoTarget}
    /\ Continues(r, Append(Below(r), [Top(r) EXCEPT !.asked = TRUE]), "none")

acquire_target(r) ==
    /\ Entering(r) /\ ~run[r].cancel
    /\ Top(r).target \in Targets \ ToSet(run[r].stack)
    /\ IF Free(r, TableOf(r), Top(r).target)
       THEN /\ owners' = Taken(r, {TableOf(r)}, Top(r).target)
            /\ Continues(r, Append(Below(r), [Top(r) EXCEPT !.asked = TRUE, !.acquired = TRUE]), "none")
       ELSE /\ Continues(r, Below(r), "permanent")
            /\ UNCHANGED owners

\* The first frame: only now is the switch made.
first_frame(r) ==
    /\ In(r, "entering") /\ Top(r).asked
    /\ run' = [run EXCEPT ![r].frames = Below(r) \o Scope(r, TRUE), ![r].stack = Append(@, Top(r).target)]

\* Mutant: a scope that was not entered has nothing to give back.
KeptOnFailure(r) == owners

OwnersAfter(r) == IF Top(r).acquired THEN Released(r, {TableOf(r)}, Top(r).target) ELSE owners

\* No driver, or no frame.
first_frame_fails(r) ==
    /\ In(r, "entering") /\ Top(r).asked
    /\ \E error \in {"permanent", "transient"} : Continues(r, Below(r), error)
    /\ owners' = OwnersAfter(r)

\* The finally of enter: however the body was left.
scope_ends(r) ==
    /\ In(r, "scope")
    /\ run' = [run EXCEPT ![r].frames = Below(r), ![r].stack = IF Top(r).pushed THEN Front(@) ELSE @]
    /\ owners' = OwnersAfter(r)

----------------------------------------------------------------------------
(* Listeners.                                                              *)

begin_listen(r) ==
    /\ Begins(r, "listen")
    /\ LET handler == Instruction(r).handler IN
       run' = [run EXCEPT ![r].frames = Advanced(r),
                          ![r].listeners = IF handler \in ToSet(@) THEN @ ELSE Append(@, handler)]

\* The messages that were there when the checkpoint began, in their order.
Candidates(r) == run[r].inbox \cap Top(r).upto

\* Before each candidate the listener looks for a cancellation.
look_for_message(r) ==
    /\ In(r, "dispatch") /\ Quiet(r) /\ ~Top(r).looked
    /\ IF Top(r).left = <<>> THEN Continues(r, Below(r), "none")
       ELSE IF run[r].cancel THEN Stops(r, Below(r), "none")
       ELSE Continues(r, Append(Below(r), [Top(r) EXCEPT !.looked = TRUE]), "none")

\* No message for this listener, or its condition does not hold.
next_listener(r) ==
    /\ In(r, "dispatch") /\ Quiet(r) /\ Top(r).looked
    /\ Continues(r, Append(Below(r), [Top(r) EXCEPT !.left = Tail(@), !.looked = FALSE]), "none")

\* The claim, and the handler one call deeper; its arguments may fail to be evaluated.
take_message(r) ==
    /\ In(r, "dispatch") /\ Quiet(r) /\ Top(r).looked
    /\ \E m \in Candidates(r) :
          /\ \A other \in Candidates(r) : m <= other
          /\ LET taken == Below(r) \o <<[Top(r) EXCEPT !.looked = FALSE], [kind |-> "handler"]>>
             IN \/ /\ Depth(r) <= MaxDepth
                   /\ run' = [run EXCEPT ![r].inbox = @ \ {m}, ![r].dispatching = TRUE,
                          ![r].frames = taken \o <<Call, Block(Head(Top(r).left))>>]
                \/ run' = [run EXCEPT ![r].inbox = @ \ {m}, ![r].dispatching = TRUE,
                          ![r].frames = taken, ![r].signal = "permanent"]

\* A cancelled handler ends the round of listeners; a failed one fails the program.
handler_ends(r) ==
    /\ In(r, "handler")
    /\ run' = [run EXCEPT ![r].dispatching = FALSE,
           ![r].frames = IF Quiet(r) /\ (run[r].cancel \/ run[r].status = "cancelled")
                         THEN Front(Below(r)) ELSE Below(r)]

\* A handler has failed, or the condition, or the queue cannot be read.
dispatch_fails(r) ==
    /\ In(r, "dispatch")
    /\ \/ ~Quiet(r) /\ Continues(r, Below(r), run[r].signal)
       \/ Quiet(r) /\ Top(r).looked /\ Continues(r, Below(r), "permanent")

----------------------------------------------------------------------------
\* The steps of the program's thread that concern nobody else.
Computes(r) ==
    \/ open_default(r)
    \/ look_around(r) \/ stopped_after_checkpoint(r) \/ block_ends(r) \/ block_is_left(r)
    \/ evaluation_fails(r) \/ begin_action(r) \/ action_ends(r) \/ wait_ends(r) \/ checkpoint_in_wait(r) \/ action_is_left(r)
    \/ begin_if(r) \/ raise(r) \/ begin_call(r) \/ call_ends(r)
    \/ begin_loop(r) \/ next_round(r) \/ loop_ends(r)
    \/ begin_try(r) \/ try_retries(r) \/ interval_ends(r) \/ try_catches(r) \/ try_finally(r) \/ try_ends(r)
    \/ begin_retry(r) \/ retry_ends(r)
    \/ begin_scope(r) \/ enter_refused(r) \/ enter_same(r) \/ enter_again(r) \/ first_frame(r)
    \/ begin_listen(r) \/ look_for_message(r) \/ next_listener(r) \/ take_message(r) \/ handler_ends(r) \/ dispatch_fails(r)

\* Only these change the owners of targets.
Exchanges(r) == start_program(r) \/ acquire_target(r) \/ first_frame_fails(r) \/ scope_ends(r) \/ end_run(r)

ExecutionNext ==
    /\ UNCHANGED isolated
    /\ \E r \in Runs :
           \/ Computes(r) /\ UNCHANGED <<owners, arrived>>
           \/ cancel_run(r) /\ UNCHANGED <<owners, arrived>>
           \/ Exchanges(r) /\ UNCHANGED arrived
           \/ message_arrives(r) /\ UNCHANGED owners

ExecutionSpec == ExecutionInit /\ [][ExecutionNext]_executionVars

----------------------------------------------------------------------------
\* The current target is that of the innermost scope, and the run owns its default
\* target and the targets of the scopes it has entered or is entering, no more: a
\* return, a break, an error, a retry, a failed first frame, a cancellation and the
\* failure of a listener's handler give back what they leave, and an ended run owns
\* nothing (_TargetScopeManager.enter, _acquire_target, _release_target).  In one
\* process this makes the targets exclusive: a table names one owner.
TargetsFollowScopes ==
    \A r \in Runs :
        LET frames == run[r].frames
            scopes == {i \in DOMAIN frames : frames[i].kind = "scope"}
            holding == {f \in ToSet(frames) : f.kind \in {"scope", "entering"} /\ f.acquired}
            own == IF run[r].at = "running" THEN {HomeOf[r]} \ {NoTarget} ELSE {}
        IN /\ {t \in Targets : owners[TableOf(r)][t] = r} = {f.target : f \in holding} \cup own
           /\ run[r].stack # <<>> /\ scopes = {} => Last(run[r].stack) = HomeOf[r]
           /\ \A i \in scopes : (\A j \in scopes : j <= i) =>
                 run[r].stack # <<>> /\ Last(run[r].stack) = frames[i].target

Effects == {"act", "entering"}

\* Once a run is cancelled it begins no action, enters no scope and registers no
\* listener, whatever branch, round, attempt, final branch or handler it was in, even
\* one that takes a message after its look: the looks of _execute_block and enter.
CancelStops ==
    [][\A r \in Runs : run[r].cancel =>
          /\ Len(run'[r].frames) > Len(run[r].frames) => Last(run'[r].frames).kind \notin Effects
          /\ run'[r].listeners = run[r].listeners]_executionVars
=============================================================================
