# A verification project for EasyCode

EasyCode is an automation IDE (Python back end, Vue front end) with a Player that
runs published products, unattended, on a schedule, on this computer or on
another one in the local network. This directory holds TLA+ models of the parts
whose correctness depends on crashes, concurrency and retries, the TLC runs that
check them, and TLAPS proofs about them. Paths such as `core/vnext/mutation.py`
are relative to the repository's root.

## 1. Inventory

| Component | State | Operations | What is hard | What makes it correct |
|---|---|---|---|---|
| **Schedule service** `core/vnext/schedule_v6.py` | SQLite: plans, occurrences, dispatches | create/update/delete plan, `process_due`, `pump`, `record_run_status` | several processes on one database; leases; a `pump` cut off between transactions; clock changes | one run per instance at a time; every due point once; FIFO inside a batch; finished stays finished; everything ends |
| **Local gateway** `schedule_v6.py` (`SQLiteLocalDispatchGateway`) | SQLite: admissions | `accept`, `recover_host_restart` | the launch happens between two transactions | one launch per dispatch |
| **Player Hub agent** `schedule_hub_v6.py` | monitor threads, Runtime sessions, the two databases | `run_forever`, `recover_after_restart`, `_launch`, `_monitor_run` | three stores to agree after a restart; reports racing answers | every run is watched, no two runs on an instance |
| **LAN dispatch** `lan_schedule_v6.py` | the other host's admissions | remote `accept`, inbound `dispatch.start` | lost and late answers; two processes on one database | one run per dispatch across hosts; an accepted row has a run |
| **LAN control** `lan_control_v6.py` | peers, permissions, pairing sessions, remembered responses | pairing, secure request, revocation | confirmation in three transactions; replay; answers nobody waits for | trust only by the user's choice; a request is executed once |
| **Message runtime** `message_runtime_v6.py` | SQLite: outbox and inboxes of two hosts | send, flush, offer, peek, claim, cancel | several flushers and readers; remembered answers; expiry | a message is given once; what the sender is told is true; nothing waits for ever |
| **Idempotency** `core/services/idempotency_service.py`, `api/idempotency.py` | entries by key | claim, complete, fail, wait, cleanup | concurrent duplicates; entries forgotten while in use | one leader per key; an answer belongs to its request |
| **Runtime and workers** `runtime.py`, `execution_worker.py` | sessions, target owners, worker processes, two queues | start, pause, resume, step, cancel, follow | each side acts on an old copy of the other; worker death; time limits | one program per target; the shown end is the real one |
| **Interpreter** `runtime.py` (`_run` … `_execute_block`) | the stack of blocks, calls, loops, regions, scopes; target stack; listeners | one per instruction and per way to leave it | signals, failures and cancellations in any nesting, handlers in the middle of anything | targets follow scopes; a cancelled run begins nothing |
| **Programs** `program_service_v6.py`, `program_repository.py`, `project_variable_service_v6.py` | function documents, variables, history on disk, undo stacks | create, edit, extract, undo, redo, restore, delete | operations of several files that fail or stop in the middle | references resolve; what is replaced is archived |
| **Project mutation** `mutation.py` | project files, transaction directories | `apply`, `recover` | a crash or a failure at any file operation | a change is applied whole or not at all |
| **Workspace** `workspace.py`, `workspace_context.py` | the active project, its lock | `open`, editing commands | recovery beside writers | a closed project is left alone |
| **Triggers** `triggers_v1.py` | runtimes of openings, poll thread, hotkey hosts, the queued signal | dispatch, poll, save, open, close | decisions under a lock, starts outside it; threads replaced and joined with a time limit | `skip_if_running` means one run; a closed project starts nothing |
| **Update repository** `update_repository_v6.py` | the author's feed: five roles, root, keys, artifacts | initialise, publish, rollout, policy, rotation | ten files per commit without a transaction | a client always finds a whole feed |
| **Update client** `update_client_v6.py` | trust, state, slots, downloads, leases | check, download, apply, health check | each process keeps the state it once read; runs under way | a healthy active slot; policies only move forward |
| **Update helper** `windows_update_helper_v6.py` | three directories, receipt, probe | wait, exchange, start, undo | refused renames, power failures | always a version that starts |
| **Recorder** `recorder_v6.py`, `recording_storage_v6.py` | bounded queue, ring, two indexes, manifest | capture, write, mark, stop, recover | a capture thread that never waits | every capture is a frame or a gap |
| **Player console** `player_console_v1.py`, `player.py` | three files, the kept worker | connect, adopt, stop, restart, close | overlapping calls, consoles that end, workers that start late | one worker per instance |

The installed-product registry, bundles, capture sessions, target drivers,
extensions, compiler, HTTP routers, the Android player, the front end and the
legacy executor are in section 7.

**Interaction.** The Hub's loop calls `process_due` and `pump`. `pump` calls the
gateway (or, for an instance elsewhere, the LAN router) for each reserved dispatch
while it holds the service's lock; the gateway calls back `_launch`, which starts a
Runtime session (a worker process) and a monitor thread. The monitor reports with
`record_run_status`, which pumps again when the run ended. `POST /tick` and the
command `once` run the same service object in other processes. The worker runs the
interpreter on a thread; the interpreter enters targets, sends and receives
messages, and calls extensions. Opening a project first runs the journal's
`recover`, then stops the triggers of the project that was open and starts those
of the new one; a trigger starts a Runtime session. The update client asks the
leases of all processes before it switches, and hands the application over to the
helper.

## 2. Modules

| Module | Models | State and actions |
|---|---|---|
| `ScheduleService` | `ScheduleServiceV6` | The three tables as functions from identities to rows, `now`, per process what its pump has reserved and whether a pump is owed. One action per transaction. |
| `PlayerHub` | agent, gateway, sessions, monitors | Extends `ScheduleService`; adds admissions, the gateway call in progress, sessions, target ownership, monitors, workers that outlived their agent. Its actions use those of `ScheduleService`. |
| `LanControl` | secure requests between two hosts | Connections with a client call and a server thread, permissions and trust on both sides, remembered answers. Extended by the next module and by `MessageRuntime`. |
| `LanDispatch` | a dispatch to another host | The coordinator's row and pump, admissions of the other host, the API process and an agent that share them. |
| `LanPairing` | pairing | Sessions, requests, confirmations in their separate transactions, both directories. |
| `MessageRuntime` | reliable messages | Outbox, the receiving host's copies, flushers between request and answer, readers between look and claim. |
| `IdempotencyLedger` | the ledger and its adapter | Entries with their states, requests that lead, wait, are answered or give up. |
| `RuntimeSession` | parent and worker of a run | Sessions, owner of the target, worker process, program thread, two queues. |
| `ProgramRun` | the interpreter | A stack of frames per run, the exception in flight, the target stack, listeners, the owners of targets per process. One action per instruction and per way a frame is left. |
| `ProgramStore` | program service and repository | Documents, archive, undo and redo stacks, locks, and for each request the plan of file operations left. |
| `AtomicProject` | what `apply` promises | A whole change in one step, or nothing. |
| `ProjectMutation` | `mutation.py` and `open`'s recovery | Disk, transaction directories, each writer's position, the recovery. One action per file operation. Implements `AtomicProject`. |
| `ProjectTriggers` | triggers and the opening of projects | Openings with their runtimes, hosts and poll threads, dispatching threads between decision, start and storing of the run. |
| `UpdateRepository` | the author's feed | Files and pointers of each role, roots, keys, publishers in the middle of an operation. |
| `UpdateClient` | content updates | Shared files, each process's memory of them, threads between steps, leases and runs. |
| `UpdateHelper` | exchange of the application | Directories, running program, helpers, receipt and probe. |
| `FrameRecorder` | recording | Capture and writer threads, queue, ring, indexes, seal. |
| `PlayerConsole` | console and worker | Three files, consoles in turn, calls in parallel, workers. |
| `MCSchedule`, `MCHub`, `MCMessages`, `MCProgram` | instances | plans, targets, batches, programs |
| `MCPlayer`, `MCServices`, `MCHost`, `MCProject` | several components in one run | A variable `topic` picks the component a behaviour is about; the others stay in their initial state. The components share no variable except the LAN's. |
| `ScheduleProofs`, `HubProofs`, `LedgerProofs` | theorems about the module of that name | section 5 |
| `MutationProofs` | theorems about `ProjectMutation`, `ProjectTriggers` | section 5 |
| `RuntimeProofs` | theorems about `RuntimeSession`, `FrameRecorder`, `PlayerConsole` | section 5 |
| `UpdateProofs` | theorems about `UpdateHelper`, `UpdateClient`, `UpdateRepository` | section 5 |
| `ProgramProofs` | theorems about `ProgramStore`, `ProgramRun` | section 5 |
| `LanProofs` | theorems about `LanPairing`, and about `LanDispatch` and `MessageRuntime` with `LanControl` | section 5 |

Operators named `Mutant: ...` in a comment are plausible mistakes in the
definition that follows. They are not part of any specification; each one makes
one property fail when it takes the definition's place, which shows that the
property depends on the code.

### Correspondence and abstractions

*Schedule.* Digest identities are the tuples they digest, so two rows have the
same identity exactly when the digests' inputs agree. Digests are ordered
arbitrarily, so where `pump` sorts by `occurrence_id` neither dispatch precedes
the other. `now` is read before the lock is taken in the code; a transaction with
a slightly old clock is a behaviour of the model with `SetClockBack`. Time zones
and daylight saving are the constant `DailyAt` (wall time to the instants it
resolves to). A process with a `pump` between two transactions holds its lock and
takes no other step; another process may. `owesPump` is one flag per process, and
a `pump` somebody else owes for the same process is the same call. Diagnostics,
listings and text checks are left out. `record_run_status` answers a repeated
terminal status without a change: that is stuttering here.

*Hub.* Only local instances. A run is named by its dispatch (`run_id` is its
digest). Reasons for a refused launch are abstracted to transient or permanent,
except the busy target, which has its own action. A target belongs to a session
until the worker's final message has been read, which is after its last status
(`release_target`). `host_stops` ends everything; `agent_ends` leaves the workers
running. The 2-second wait before a monitor's first report is not needed in the
model: `record_run_status` waits for the lock anyway. A run's change of status
between two looks of its monitor is simply not seen.

*Mutation.* A file replacement (`_atomic_write_bytes`: temporary file, `fsync`,
`os.replace`) is one atomic, durable step. Operations are applied and restored in
any order, which contains the code's order. `stage` reads and backs up all paths in
one step, so a change of a file during `stage` itself is not seen; between `stage`
and `commit` it is. Journals that are damaged rather than missing behave like
missing ones. What `open` does between recovery and activation (inspection,
initialisation) only reads, or writes files before the workspace is active.

*LAN.* A request and its answer are one connection with two ends that fail
separately: the caller gives up at any time, the server's thread goes on. Frames of
a wrong key are refused connections. One clock serves both hosts. Permissions are
sets of names; `believed` is the caller's copy, refreshed by a query of its own.
Answers are remembered by request identity and forgotten by time. In `LanDispatch`
the coordinator's lease, the gateway's and the command's time to live are three
constants; the gateway's lock is held over the launch, as in the code. Its two
transactions around the launch fail separately: a start whose second one fails is not
noted and its row stays in hand-over (`command_not_noted`), and an API process that ends
between the launch and that transaction leaves the same row behind. `unwritten` counts
such starts; it is history, read by the property only.

*Messages.* A copy is the unit; a batch is a set of copies sent together. The time to
live is the same for all. `flush` holds the rows a flusher selected before its first
request, so answers of two flushers overtake each other. `peek` and `claim` are two
transactions. Names, schemas and contradictory identities are left out.

*Ledger.* Entries are never reused: a removed entry stays with state `forgotten`, so
a request that still points at it is followed. Age and size limits are constants.

*Runs.* `RuntimeSession` models one target and the two queues with their capacity;
the parent's follower reads one message per step. `terminate_tree` may kill the worker
at once, later (`leave` after a failure), or not at all, and does not say which; the end of
`_follow_worker` is two steps, since it gives the target away before it waits for the
worker (and terminates it again). Priority inside the loop of `_follow_worker` is left to
chance: each of its looks may come next. The program's thread is reduced to
what commands and ends need. `ProgramRun` is its inside: the Python stack is the
sequence `frames`. A Python exception is a `signal` that each frame handles or passes
on; the plain `return` out of `_execute_block` that a cancelled wait or loop makes is
the signal `leave`, which ends at the block. A listener's handler that fails while an
action waits takes the action with it (`action_is_left`) and goes out through the scopes
and regions around it. Evaluations and actions may fail at any
time with a permanent or a transient error. Values are left out, so every branch of an
`if`, and every number of rounds up to the loop's own, may be taken. The checks for
cancellation are separate steps wherever the code can be overtaken between two of
them (before and after a checkpoint, before a candidate and at its claim); an
instruction begins where the second look is made. `isolated` says whether the runs
share one table of owners or each worker has its own, as `use_worker_process` makes it;
both are explored.

*Programs (documents).* A document is the set of functions it calls and variables it
uses. An operation is computed under the locks as a plan, a sequence of file
operations with the plan that replaces the rest when one fails; the process may end
between any two. Requests with an old revision change nothing and are left out.

*Triggers.* One trigger of one project, a second project without any. Windows of time
(debounce, cooldown) are flags that close at any moment. Threads are the poll thread
and one per hotkey host. `QuickStarts` says that a start is shorter than the debounce
and than the two seconds `stop` waits.

*Updates.* A feed is a sequence of versions and a client may be answered with any of
them. A file of the repository stands for its bytes. Signatures, chunks and expiry are
left out. A check writes trust.json twice, the roles' versions first
(`trust_answer`) and the policy after it (`accept_required_policy`); it may fail, and the
process may end, before, between and after the two. What `_accept_targets` and
`_accept_rollout` keep is left out: answers of the author's own feed pass them, and a
failed write is `operation_fails`. A lease has three writers, each with a step of its own:
the start of a run, the end of a run or of a failed start, and the page's
PUT of `/runtime/updates/safe-point`, which stores what the page says. `unheard` is
history: the run's lease has been marked safe by another writer since the run began.
When a Player ends, what its runtime has started goes on as an `orphan`. In the helper a directory whose
program runs cannot be renamed.

*Recorder, console.* Captures are their numbers. Time limits are choices that a
thread may make while what it waits for has not happened; `Prompt` says that workers
answer within them.

## 3. Runs

Passing runs:

| Run | Instance | Shows |
|---|---|---|
| `schedule_core` | 1 process, 1 instance, 2 ordered entries every 2 units (one with a deadline), clock 0..4, lease 1, interrupted pumps, `FairSpec` | at most one occupying row per instance; a batch's status agrees with its rows; at most one active and one waiting batch; FIFO inside the batch; terminal rows final; admitted rows stay admitted; every batch and dispatch ends |
| `hub_core` | 1 instance, 2 entries without target, overlapping batches, 1 host stop; 2 runs on one target, 2 commands, a queue of 1, workers that die or survive a kill | exclusive runs, every run watched; one program per target, true ends |
| `hub_faults` | 2 entries on one target, every write may fail, agent or host stops once | before the first restart, and unless a row of the gateway was lost, a dispatch is launched once |
| `messages` | 2 copies (one abroad), 2 flushers, 3 readers, 2 connections, fixed permissions | a message is given to one reader; under the tick's fairness every copy comes to rest |
| `services` | plans with 2 revisions, 2 processes, the clock set back once; 1 dispatch abroad, lost requests, 1 start that is not noted, 1 restart of the API process, 1 of an agent; 1 pairing session, 2 devices, 2 confirming threads; 1 message while permissions change; 2 functions and 1 variable, 2 requests at a time | due points are partitioned; one remote run; accepted means started; trust is chosen; what a sender is told is true; references resolve; what is replaced is archived |
| `host_services` | journal with 2 files, 2 crashes, failing writes; 3 requests on 2 keys; 5 captures, queue of 1; 2 processes, 2 runs, 3 releases (one broken), 2 feeds, 1 process that ends; 2 helpers, 1 power failure; 2 consoles, 3 workers | refinement of `AtomicProject`, whole versions, markers that nobody takes back; one leader, earned answers; captures accounted for; healthy slot, forward policies, runs spared; previous version kept, healthy means installed; one worker |
| `project_faults` | journal with an unlocked writer and every fault; 2 openings, 1 edit, 2 triggered runs; 2 releases, 4 commits, 1 break, 1 rotation; 6 programs beside a second run, one of them cancelled | a commit marker is not taken back by its writer; one run of a skipping trigger; nothing starts in a closed project; the feed is whole; targets follow scopes; cancelled runs begin nothing |

Runs that TLC refutes. Each checks what a document or comment of the repository
says; `PROJECT.json` quotes the line.

| Run | What happens |
|---|---|
| `schedule_two_pumps` | Process A reserves two dispatches and is slow; B takes an expired lease back, expires or restarts the entry and starts another one; A's late answer is stored without looking at the row. |
| `mutation_reopen` | A crash before the first journal, or while a directory is removed, leaves a directory without `journal.json`; every later `open` fails. |
| `hub_recovery_order` | Recovery pumps before it resets the gateway; a dispatch is accepted with a dead run and blocks its instance. |
| `update_mixed` | A check between a download and its installation selects a newer release and keeps the older file's path; the old bundle is installed under the new number. |
| `update_undone` | The first rename is refused; the roll-back puts the installed version aside, finds no backup and reports `rolled_back`. |

The other properties hold under the faults their run allows, and not under all.
TLC finds a counterexample when the constants of the passing run are changed, or the
named premise of the property is dropped:

| Property | Change | Counterexample |
|---|---|---|
| `WholeWhenIdle` | `RestoreFaults = TRUE` | A file can be neither replaced nor restored; the open project keeps half a change. |
| `Atomic` | `RemoveFaults = TRUE` | A rolled-back transaction's journal cannot be rewritten or removed and says `committing`; the next `open` undoes a later commit. |
| `Atomic` | an unlocked writer | `repair_control_selector` holds no lock; `open` rolls its first files back, it replaces the rest and reports success. |
| `RunsAreWatched` | `Faults = {"ack"}` | A run's only terminal report is refused because its answer was not stored, and is not repeated; the lease then accepts the ended run. |
| `ExclusiveRuns` | `Faults = {"report"}` | One failed report declares a live run failed; the next one starts beside it. |
| `ExclusiveRuns` | `AgentAlone = TRUE` | The agent ends, its workers go on, the new agent starts the next dispatch. |
| `StartedOnce` | without `crashes = 0` | Recovery starts a dispatch itself, loses the answer, then resets the admission: started again. |
| `OneRemoteRun` | without `faults.recoveries` | An agent that starts beside the API process resets the admission of a run the API process still has. |
| `OneRemoteRun` | without `unwritten[d]` | The UPDATE to `started` fails; the lease runs out and the next request launches the dispatch again. |
| `MarkerIsFinal` | without `Unlocked = {}` | `open` reads `committing` of a writer without the lock and goes on restoring after that writer's marker. |
| `OneProgramPerTarget` | without `GivenUp` | The worker of a cancelled run is not killed (or one that refused a command is still leaving); the target is given away while its program goes on. |
| `ActiveIsHealthy` | without `stops = 0` | The process ends between the switch and the health check; nothing looks at the slot again. |
| `RunsAreSpared` | without `unheard` | The monitor of one run marks the lease safe while another run is starting; or a page that knows of no run PUTs its flag while one is under way. |
| `ReferencesResolve` | without its consequent | Undo or restore brings back a call of a function that was deleted since. |
| `SkipMeansOne`, `ClosedStartsNothing` | `QuickStarts = FALSE` | A start outlives the debounce, or the two seconds `stop` waits. |
| `FeedIsWhole` | `Publishers = {a1, a2}`, or without `~Rotating` | Two publishers overwrite each other's releases; a rotation broken off leaves keys the root does not name. |
| `OneWorker` | `Prompt = FALSE` or `EndsStarting = TRUE` | A worker that is late, or whose console has ended, publishes itself beside the next one. |

`TargetsFollowScopes` says that a run owns exactly what it should in its own process.
When the runs are isolated, which is how the product runs them, that does not keep two
of them out of one target: each worker has its own `_target_owners`
(`execution_worker.py:46`), and only the default target is also in the parent's table.
`docs/DECISIONS.md:337` asks for exclusive use on entering a scope, and
`tests/test_vnext_target_scope_runtime_v6.py:253` checks it for two runs of one process.

**Bounds.** One lease unit is one clock unit, so the clock range 0..4 holds two
due points of an interval of two, a hand-over, its lease and a retry: the shortest
time in which a batch waits behind another, is promoted and has an entry expire.
One instance suffices for the serial and FIFO properties, which relate rows of one
instance; two are used where a second instance lets recovery pump something else
(`hub_recovery_order`, `schedule_two_pumps`). Two files are the least for a partial
change; two transaction directories let a leftover and a live one coexist; two
crashes let a recovery be interrupted. On the LAN two connections let an abandoned
thread and a retry coexist; one clock unit lets every lease and time to live run out
once. `HostServices` explores the update client in two halves, each with all of its actions
but those the other is about. *content*: a feed that first offers the broken release and then
anything, every failure and stop, while no lease is
unsafe (leases matter to `apply_look` alone). *leases*: two runs and every writer of the
leases, while one release is offered, one thread at a time is in an operation, whose check
does not fail, and a process that has ended stays away. The constraints are in
`MCHost` (`nobodyRuns`, `oneRelease`); the theorems hold without them. A queue
of one is full at the second packet, five captures let a gap open,
grow and close. Three releases let a broken one lie between two good ones. Two
openings let an old runtime and a new one coexist. The programs of `MCProgram` nest
each pair of constructs that meet in a hard way: a scope in a region with a retry, in
a loop left by break, continue and return, in itself, in a handler beside another
scope; calls to the depth limit; a listener beside a wait. `MaxMessages = 1` is
enough for a handler in the middle of each of these; with 2 the program part was
explored as well (447,000 states). The other bounds are counters in guards.
`pump_interrupted` asks that the lease can still run out before the clock stops:
otherwise the end of the clock, and not the code, would strand the dispatch.

**Symmetry** is used in `host_services` only, for the processes of a product; nothing
there is a liveness property, and no definition tells one from another.

**Fairness.** `FairSpec` (schedule): weak fairness of the clock, of the Hub's loop (it
wakes at least every 60 s) and of each transaction of a pump that has begun. Strong
fairness of an accepting answer and of a terminal report: a launcher that refuses
transiently for ever, or a program that never ends, is not a fault of the
scheduler. It is stated for local runs: nothing reports the end of a remote run.
Interrupted pumps have no fairness and need none: the lease bound makes them finite in
the model. `MessagesSpec`: weak fairness of the maintenance tick, of each flusher's
selection and of the end of each call, which the code's ten-second limit guarantees.
None is assumed for connections, readers or the other host.

**Deadlock** is checked in the schedule and Hub runs. In the others the bounds, and in
the code itself a closed console or a sealed recording, end the behaviour.

## 4. Hazards

`PROJECT.json` lists the hazards that carry a property, or that need one most, at
their lines. Others met while reading the code, not on that list:

*Schedule and Hub.* A single-shot plan that has fired and is saved again fires for the
same instant (`schedule_v6.py:1012`); `DuePointsPartitioned` is therefore about one
revision. The start deadline may pass during a hand-over: the row ends `expired`, the
run goes on (`schedule_v6.py:1569`). `recover_host_restart` resets admissions of the
API process too (`schedule_v6.py:532`). An error in `run_once` ends the agent's loop
(`schedule_hub_v6.py:687`). The end of a run is reported before its target is free, and
a busy target is a permanent refusal (`runtime.py:1612`, `schedule_hub_v6.py:483`). A
worker outlives an agent that ends alone (`execution_worker.py:218`).

*LAN and messages.* Confirming only one side leaves one-sided trust
(`lan_control_v6.py:1590`); wrong codes tried at the same time are counted from one
value (846). Cancelling a copy whose offer is in flight may come too late
(`message_runtime_v6.py:1885`). A claim made just before a cancellation consumes the
message although its handler does nothing (`runtime.py:1949`).

*Runs.* `resume` between the status and the clearing of the gate is lost
(`runtime.py:1805`); a cancellation before the worker reads commands waits for it. The
`finally` branch of a region does not execute when the run is cancelled. A listener
that fails inside a region makes the region's body start again. `return` and `break`
through a scope are logged as failed switches (`runtime.py:321`).

*Projects.* A file changed between `stage` and `commit` refuses the commit
(`mutation.py:127`). The snapshot cache of the repository may be remembered with a
later signature (`program_repository.py:91`). Failed saves push versions out of the
history. Reopening a project forgets its triggers' active runs; a queued signal is
lost to the cooldown; a hotkey host created after `stop` is not stopped.

*Updates, recorder, console.* After a stop between `N.role.json` and `role.json` all
later commits are refused (`UPD-IMMUTABLE-001`). A mirror may lag behind
(`update_client_v6.py:1066`). A run may start between the look at the leases and the
switch (1530). The drain of the recorder's writer has a limit after which the manifest
is written anyway (`recorder_v6.py:806`). Adopting a worker withdraws a stop request
(`player_console_v1.py:236`); a worker that does not answer is not counted when the
console closes.

## 5. Proofs

All for arbitrary constants, subject to the named assumptions.

*`ScheduleProofs`.* `TypeInvariant`: `TypeOK` is inductive; the lemmas show that
the due-point arithmetic yields an instant or NULL and that each derived table
(`Refreshed`, `PromotedDispatches`, `PumpRows`, `WithReserved`) is well formed.
`SerialExecution`, `FinishedIsFinal` and `RunsAreKept` assume one process on the
database. `SerialOccupancy` is not inductive: an answer could make a row occupy its
instance that was not in hand-over, and a report could revive a row. `SerialInv` adds
that what a pump holds reserved is still `dispatching` (`HandoverInv`) and that a row
with a run is where reports put it (`HasRunInv`). The first is exactly what two
processes break, which `schedule_two_pumps` shows.
`BatchesAgree` (`BatchAgreement`) and `DuePointsAreCovered` (`DuePointsPartitioned`)
hold for any number of processes. The first rests on lemmas about tables: `BatchStatus`
does not tell pending, queued and dispatching apart, so the transactions that move rows
among these need no refresh, and rows are inserted only for a batch that has none. The
second has `Dues` as its invariant: the plan's next due point lies after every span of
its revision and is the one that follows the last, so the identity `process_due` computes
is never on disk already (`SpanIsFollowed` is the arithmetic of `_due_span`; for interval
plans it needs that due points stay on the grid of the start time).
`OverlapIsBounded` (`OneOccurrenceAtATime`) and `EntriesInOrder` (`BatchOrder`) assume one
process: a report or answer of a second one can bring a batch back that had ended.
`InOrder` and `Together` say that the rows of a batch were inserted by one transaction
with one `created_at`, so `ORDER BY` decides by offset and list order.

*`HubProofs`.* The lemma `HubImplementsSchedule` says that every step of the composition
is a step of `ScheduleService` or leaves its variables alone. That is how the hub's
actions are written, so it shows nothing about the code; it is there to use the theorems of
`ScheduleProofs` in the composition. `HubInv` says that a waiting
answer is one the scheduler knows and that a monitor watches an existing session.
`HubRowsAreSerial` and `HubScheduleIsSound` carry the theorems of `ScheduleProofs` over.
What is true of the host and not only of the rows rests on `HubBase`: the schedule's
invariants, and that a call in progress is about a dispatch the pump holds, which has no
run yet. `WatchedRuns` (`RunsAreWatched`) excludes the faults of answers and reports, and
wants one instance or no crash: `WatchInv` says that a start the schedule does not know
is either the call in progress or was cut off by a crash, and then nothing runs until the
gateway has forgotten it. With two instances the recovery of one run pumps the other's
dispatch, which `hub_recovery_order` shows. `RunsAreExclusive` (`ExclusiveRuns`) excludes every
fault and an agent that ends alone (section 3 has the gap): what executes is an unfinished
row or the call in progress, so it occupies its instance, and rows are serial.
`StartsAreSingle` (`StartedOnce`) holds with every fault: `StartedInv` says that what was
launched is marked started or about to be, and that the recovery of the gateway comes
before the first launch.

*`MutationProofs`.* `MutationTypes` holds under all faults. `JournalInvariant`,
`AtomicUpdates` and `WholeVersions` assume `Dependable`: no unlocked writer, backups
can be written back, and writes and removals do not both fail. The invariant says
for each directory who owns it (a writer, the recovery, or nobody), that a
`committing` journal without an owner has its backups and its originals on record,
that at most one directory is `committing`, and that outside the paths of that
journal the disk is the recovered version. The refinement maps the disk to
`LogicalDisk`: the files with the unfinished commit taken back. Each conjunct of
`Dependable` is necessary: without it TLC refutes `Atomic` or `WholeWhenIdle`
(section 3). `MarkersStay` (`MarkerIsFinal`) needs none of it: `MarkerInv` says that a
directory has one writer, and that no writer which would still write the journal, or
restores, works on one that says committed; the recovery only removes such a directory,
and while it restores nobody else writes, if every writer takes the lock
(`RecoveryAlone`). Where one does not, a recovery under way is the exception the property
names.

The triggers' theorems are `RunsAreSingle` (`SkipMeansOne`) and `NothingStartsClosed`
(`ClosedStartsNothing`), for any number of openings, hosts, runs and saved triggers. Both
assume `QuickStarts`, without which TLC refutes them (section 3). `Single` says of an
opening that skips: at most one of its threads is between the decision and the storing
of the run, the debounce lasts as long, and no run but the one it has started, or else
the one the runtime calls active, is in progress. `Closing` is about the opening: a
thread that has planned a start belongs to the generation that is served, and an earlier
host is gone, or waits for the lock that the opening holds and then sees the new
generation.

*`LedgerProofs`.* `LedgerIsConsistent`, `LeadersAreAlone` (`OneLeader`) and
`AnswersEarned` (`AnswersAreEarned`). Neither property is inductive: they hold because a
key leads to its entry exactly while the entry is pending or completed, every earlier
entry of the key is over, and a request that leads, waits or was answered knows an
entry with its own payload that no other request leads.

*`RuntimeProofs`.* The invariant of `RuntimeSession` is stated about one run's session,
process, thread, queue and orders as values (`RunInv`), so that each action is one lemma
about its own run; `OwnerInv` joins the runs. It says that the process is there while
the session follows it, that the worker's last word is known (in the queue, or lost with
its process), and that "completed" in a snapshot or in the session comes from a thread
that has completed. From it: `EndsAreReported` (`EndsAreTrue`) and `TargetsAreExclusive`
(`OneProgramPerTarget`), for any size of the queue and with workers that survive a kill:
what keeps a second program out is that the target is given away only after the follower
has left its loop, and it leaves it without a failure only on the worker's final message,
which is sent when the program has let go of its drivers. `RecorderInv` says where each number
is (being handled, waiting, being written, in an index, in a gap still to be told) in
the order of the recorder's end; `CapturesAreAccounted` follows for a ring of any size.
`WorkersAreAlone` (`OneWorker`) assumes `Prompt` and `~EndsStarting`, as the property
does where it is checked: `ConsoleInv` says that the descriptor names the worker that
serves, that a worker that starts is awaited by the one connection under way, and that
no other lives beside it.

*`UpdateProofs`.* `OldVersionKept` and `SuccessIsTrue` follow from `HelperInv`: what the
directories hold at each step of the helper at work (`StepMeans`), that only one helper
is (unless they have crossed), and that the program runs from `install`.
`ActiveSlotIsSound` follows from `ContentInv`: the lock's holder is the thread in the
middle of an operation, and the slot is sound except under a thread that has switched
and not yet checked. `PolicyOnlyForward` is the action property `PolicyMovesForward`. A
check that dies between its two writes leaves the version of a new feed with the policy of
an older one, so the invariant does not say that they agree: it says that the policy is
one of a feed at or before the trusted one, that the answer a thread carries is
the trusted feed, and that a thread past the second write has made them agree. That this
is so again when a check ends well rests on `Acceptance`: the policy is looked at in every
answer, also in one that is not newer. `ARunIsSpared` (`RunsAreSpared`), for any number of
runs, threads and processes, has as its invariant that a run under way whose lease is not
unsafe is `unheard`: the start of a run marks its lease unsafe, and the two kinds of step
that mark it safe say so of the runs they pass over.
`ClientsFindAWholeFeed` (`FeedIsWhole`) assumes `OnePublisher`: the code has no lock on the
tree, and with two TLC refutes it (section 3). `RepositoryBase` says what a commit has in
its hands at each role: the versions it is to write are above those of the pointers, what
it has written is in place under its hash and signed with the keys of its operation, and
the payload lists every release the pointers list. The pointers of a commit that was
broken off need not fit the timestamp, but a payload read from them is closed
(`CurrentIsClosed`), because the targets move first. `KeysUpTo` ties the keys to the roots:
they differ only between the replacement of the keys and the writing of the next root.

*`LanProofs`.* Both uses of `LanControl` share the lemmas about the connections: a step
keeps the type of every call (`LanTypes`), never changes who asked for what
(`CallsKept`), and says nothing new (`NothingNewSaid`, an answer is in a connection, in
the ledger of requests or nowhere), except when the application answers.
`PermissionsAreChosen` (`TrustIsChosen`): every row, offer and confirmation in progress
carries permissions the user chose for that device. `DispatchedOnce` (`OneRemoteRun`) and
`AcceptedWasStarted` (`CoordinatorIsRight`): an admission that is accepted has a run,
and the starts of a dispatch are counted against what the gateway has written: one for a
row that says `started` or for a launch still in the gate, and one for each start that was
not noted or was taken back by an agent. An "accepted" anywhere on the way back has a
start. `MessagesGivenOnce` (`GivenOnce`) and `SenderIsToldTheTruth`
(`ReportsAreTrue`): ids arrive once, "read" and "cancelled" are final there, and a final
status anywhere on its way back is the one of the arrival. These are proved for any
number of connections, clocks and faults.

*`ProgramProofs`.* `ReplacedIsKept` (`ReplacedIsArchived`) and `CallsResolve`
(`ReferencesResolve`), for any failures and restarts. Both are about what a request has
still to do, so the invariants are about the rest of each plan. `StoreBase`: a step that
replaces or removes follows one that archives the same document, in repairs too; where it
is the next one, the archive ends with that document; and what is left is covered by the
locks, so that two requests are at work together only as `delete_variable` and
`restore_history`, which take one lock each. `StoreResolves`, until a version was brought
back and something removed: documents, histories and stacks refer to what exists; what a
plan has still to write refers to what exists or to what it makes before; what it has
still to remove is used by nobody, unless a version is brought back first; and the same
for the repair of each step. A single operation can meet the exception in the
property: taking back an extraction brings a version back and then removes the
companion, whatever else calls it.

The interpreter's theorems are `ScopesOwnTheirTargets` (`TargetsFollowScopes`) and
`CancelledRunsStop` (`CancelStops`), for every program, nesting, set of targets and set of
runs, in one process or in workers. A frame is left in many ways, one step at a time, so
`ProgramBase` is about every frame and not only the top one. A run is not at work, or at
work (`Good`), or has just asked for a target (`EntersScope`). In `Good` there is for each
frame a height of the stack of targets which its scopes account for (`Scoped`), so that
whoever unwinds to that frame finds the stack as it was; and what scopes have acquired are
distinct targets, none of them the default one. `Owns` says that in the table of its
process a run is named at these targets and at its default one, and nowhere else.

What proving showed about the models: `ProgramStore.delete_variable` left its request
without an end when nothing followed the registry's write, so that its lock was never
given back (it now ends like every other request); functions and variables must be
distinct names (`ProgramAssumption`); `UpdateHelper.launch` started a program from a
directory that might be missing, which only a bound had hidden (a guard was added: the
helper raises); the arms of `finish_check` overlapped (now exclusive, in the order of the
code); `NoRun`, and the callers of the LAN in `MessageRuntime`, must differ from the
values they stand beside (`RuntimeAssumption`, `MessageAssumption`).

*Only model-checked:* liveness (`AllSettle`, `CopiesComeToRest`), which is outside what
the prover handles. Every invariant and every action property of the passing runs is a
theorem. Those that carry an assumption (one process, one publisher, quick
starts, dependable faults, prompt workers) name it in their statement, and the run that
shows why it is needed is in section 3 or above.

## 6. Plan for the proofs

What is left would weaken assumptions rather than add properties:

1. What still holds of the feed after a rotation of the keys was broken off.
2. What a recovery beside an unlocked writer leaves behind (`Atomic` without `Unlocked = {}`).

## 7. Not modelled

- **Installed product registry, bundles, publishing, profiles**: revisioned rows and
  transformations of data; what they answer appears as launch failures (`PlayerHub`) and
  as runs that hold leases (`UpdateClient`).
- **Capture sessions, target drivers, window binding, input**: Windows and ADB calls.
  Which run owns a target is in `RuntimeSession` and `ProgramRun`.
- **Extensions**: request and answer with a worker process and a time limit; an action
  that ends or fails in `ProgramRun`.
- **Compiler, type system, validation, standard functions, expressions**: pure functions
  on trees too large to enumerate.
- **HTTP routers**: thin handlers; those that add a process or a writer (`/tick`,
  selector repair) are in the models.
- **Android player**: a second implementation, in Kotlin, of schedules, LAN control and
  updates.
- **Front end, legacy node executor**: presentation, and the execution path of the
  previous format.
- Inside modelled components: the Windows wake-up task and the session probe of the
  agent, discovery and cryptography of the LAN, message schemas, breakpoints and event
  buffers, quota deletion and replay of recordings, the support bundle of the console.
