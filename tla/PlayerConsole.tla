---------------------------- MODULE PlayerConsole ----------------------------
(***************************************************************************)
(* The Player console (core/vnext/player_console_v1.py) and the hidden      *)
(* worker process of one instance (player.py, _run_console_worker).         *)
(*                                                                         *)
(* They share three files: worker.json names the worker, owner.pid the      *)
(* console that keeps it alive, stop.request asks it to leave.  The calls   *)
(* of a console run in parallel threads; connect holds the connection lock  *)
(* of the instance, stop_worker holds no lock.  A console may end and       *)
(* another one adopts the worker it finds.                                  *)
(***************************************************************************)
EXTENDS Naturals, FiniteSets

CONSTANTS
    Consoles,      \* consoles, one after the other: 1..n
    MaxWorkers,    \* bound: worker processes
    Calls,         \* threads of the console
    Prompt,        \* whether workers answer and start within the time limits
    EndsStarting   \* whether a console may end while a worker is starting

ASSUME ConsoleAssumption ==
    /\ Consoles \subseteq Nat \ {0} /\ MaxWorkers \in Nat
    /\ Prompt \in BOOLEAN /\ EndsStarting \in BOOLEAN

VARIABLES
    note,      \* the files: worker.json, owner.pid, stop.request
    console,   \* the console that is open, 0 when none is
    past,      \* the consoles that have ended
    kept,      \* _workers: the worker, and whether its Popen is known
    call,      \* thread -> what it does
    life,      \* worker -> its life
    busy,      \* the workers whose program runs
    deleted    \* the instance is gone from the registry

consoleVars == <<note, console, past, kept, call, life, busy, deleted>>

HostProcs == 1..MaxWorkers
NoWorker == 0
NoneKept == [worker |-> NoWorker, handle |-> FALSE]
Resting == [at |-> "idle", mine |-> NoneKept, then |-> "return"]

ConsoleInit ==
    /\ note = [worker |-> NoWorker, owner |-> 0, stop |-> FALSE]
    /\ console = 0
    /\ past = {}
    /\ kept = NoneKept
    /\ call = [q \in Calls |-> Resting]
    /\ life = [w \in HostProcs |-> "unused"]
    /\ busy = {}
    /\ deleted = FALSE

----------------------------------------------------------------------------
(* The worker.                                                             *)

\* The server answers until the process ends.
Reachable(w) == w # NoWorker /\ life[w] \in {"serving", "leaving", "closing"}

\* The descriptor is written once the server has started.
publish_worker(w) ==
    /\ life[w] = "starting"
    /\ life' = [life EXCEPT ![w] = "serving"]
    /\ note' = [note EXCEPT !.worker = w]
    /\ UNCHANGED <<console, past, kept, call, busy, deleted>>

start_fails(w) ==
    /\ life[w] = "starting"
    /\ life' = [life EXCEPT ![w] = "dead"]
    /\ UNCHANGED <<note, console, past, kept, call, busy, deleted>>

OwnerAlive == note.owner # 0 /\ note.owner = console

\* A stop request, or no owner and no run for the time of grace.
leave_loop(w) ==
    /\ life[w] = "serving"
    /\ note.stop \/ (~OwnerAlive /\ w \notin busy)
    /\ life' = [life EXCEPT ![w] = "leaving"]
    /\ UNCHANGED <<note, console, past, kept, call, busy, deleted>>

\* The finally clause; the server and the run are ended afterwards.
clean_up(w) ==
    /\ life[w] = "leaving"
    /\ life' = [life EXCEPT ![w] = "closing"]
    /\ note' = [note EXCEPT !.worker = IF note.worker = w THEN NoWorker ELSE note.worker,
                            !.stop = FALSE]
    /\ UNCHANGED <<console, past, kept, call, busy, deleted>>

Dead(w) == life' = [life EXCEPT ![w] = "dead"] /\ busy' = busy \ {w}

end_process(w) ==
    /\ life[w] = "closing"
    /\ Dead(w)
    /\ UNCHANGED <<note, console, past, kept, call, deleted>>

program_starts(w) ==
    /\ life[w] = "serving" /\ w \notin busy
    /\ busy' = busy \cup {w}
    /\ UNCHANGED <<note, console, past, kept, call, life, deleted>>

program_ends(w) ==
    /\ w \in busy
    /\ busy' = busy \ {w}
    /\ UNCHANGED <<note, console, past, kept, call, life, deleted>>

----------------------------------------------------------------------------
(* The console.                                                            *)

\* _adopt: the lease is renewed and a stop request withdrawn.
Adopt(s) ==
    /\ note' = [note EXCEPT !.owner = console, !.stop = FALSE]
    /\ kept' = s

\* A request within its time limit: only a slow worker stays silent.
Answers(w) == Reachable(w)
Silent(w) == ~Reachable(w) \/ ~Prompt

\* _worker_from_descriptor
Described(s) == s = [worker |-> note.worker, handle |-> FALSE] /\ Answers(note.worker)

\* Mutant: two calls may connect to one instance.
NoLock == TRUE

ConnectionFree == \A q \in Calls : call[q].at \notin {"connecting", "awaiting"}

\* connect: the connection lock; an instance that is gone is refused.
connect(q) ==
    /\ console # 0 /\ ~deleted
    /\ call[q].at = "idle"
    /\ ConnectionFree
    /\ call' = [call EXCEPT ![q].at = "connecting"]
    /\ UNCHANGED <<note, console, past, kept, life, busy, deleted>>

\* The worker of this console or the one the descriptor names answers.
reconnect(q) ==
    /\ call[q].at = "connecting"
    /\ \/ Answers(kept.worker) /\ Adopt(kept)
       \/ /\ kept = NoneKept \/ Silent(kept.worker)
          /\ \E s \in [worker : HostProcs, handle : {FALSE}] : Described(s) /\ Adopt(s)
    /\ call' = [call EXCEPT ![q] = Resting]
    /\ UNCHANGED <<console, past, life, busy, deleted>>

\* Neither does: the files of an earlier worker are removed.
NeitherAnswers ==
    /\ kept = NoneKept \/ Silent(kept.worker)
    /\ note.worker = NoWorker \/ Silent(note.worker)

launch_worker(q) ==
    /\ call[q].at = "connecting"
    /\ NeitherAnswers
    /\ \E w \in HostProcs :
          /\ life[w] = "unused" /\ \A v \in 1..(w - 1) : life[v] # "unused"
          /\ life' = [life EXCEPT ![w] = "starting"]
          /\ call' = [call EXCEPT ![q].at = "awaiting", ![q].mine = [worker |-> w, handle |-> TRUE]]
    /\ kept' = NoneKept
    /\ note' = [worker |-> NoWorker, owner |-> console, stop |-> FALSE]
    /\ UNCHANGED <<console, past, busy, deleted>>

\* The registry refuses: a changed installation, or no process.
launch_refused(q) ==
    /\ call[q].at = "connecting"
    /\ NeitherAnswers
    /\ call' = [call EXCEPT ![q] = Resting]
    /\ kept' = NoneKept
    /\ note' = [worker |-> NoWorker, owner |-> console, stop |-> FALSE]
    /\ UNCHANGED <<console, past, life, busy, deleted>>

worker_ready(q) ==
    /\ call[q].at = "awaiting"
    /\ note.worker = call[q].mine.worker
    /\ Answers(note.worker)
    /\ Adopt(call[q].mine)
    /\ call' = [call EXCEPT ![q] = Resting]
    /\ UNCHANGED <<console, past, life, busy, deleted>>

\* The process has ended, or does not publish itself in time.
worker_missing(q) ==
    LET w == call[q].mine.worker IN
    /\ call[q].at = "awaiting"
    /\ \/ life[w] = "dead"
       \/ life[w] # "starting" /\ note.worker # w
       \/ ~Prompt
    /\ note' = [note EXCEPT !.stop = TRUE]
    /\ call' = [call EXCEPT ![q] = Resting]
    /\ UNCHANGED <<console, past, kept, life, busy, deleted>>

\* state: what list_instances does for every instance, again and again.
Found ==
    IF kept # NoneKept THEN kept
    ELSE IF Answers(note.worker) THEN [worker |-> note.worker, handle |-> FALSE] ELSE NoneKept

state ==
    /\ console # 0 /\ ~deleted
    /\ Found # NoneKept
    /\ Adopt(Found)
    /\ UNCHANGED <<console, past, call, life, busy, deleted>>

\* The run that the answer shows; a silent worker shows none.
SeesRun(w, seen) == (seen = (w \in busy /\ Reachable(w))) \/ (~Prompt /\ ~seen)

\* stop_worker, restart, delete_instance, prepare_close and shutdown: a run that is
\* seen stops them unless the user confirmed.
stop_worker(q, then, confirmed) ==
    /\ console # 0 /\ ~deleted
    /\ call[q].at = "idle"
    /\ Found # NoneKept
    /\ \E seen \in BOOLEAN : SeesRun(Found.worker, seen) /\ (seen => confirmed)
    /\ Adopt(Found)
    /\ call' = [call EXCEPT ![q] = [at |-> "stopping", mine |-> Found, then |-> then]]
    /\ UNCHANGED <<console, past, life, busy, deleted>>

ask_to_stop(q) ==
    /\ call[q].at = "stopping"
    /\ note' = [note EXCEPT !.owner = 0, !.stop = TRUE]
    /\ call' = [call EXCEPT ![q].at = "waiting"]
    /\ UNCHANGED <<console, past, kept, life, busy, deleted>>

\* The worker went, or is ended by force after five seconds.
WorkerGone(w) == life[w] \in {"closing", "dead"} \/ ~note.stop \/ ~Prompt
Killed(w) == IF life[w] = "dead" THEN UNCHANGED <<life, busy>> ELSE Dead(w)

NoWorkerStarting == \A w \in HostProcs : life[w] # "starting"
MayEnd == EndsStarting \/ NoWorkerStarting

\* The console's process is gone, with its threads.
ConsoleEnded ==
    /\ console' = 0
    /\ past' = past \cup {console}
    /\ kept' = NoneKept
    /\ call' = [p \in Calls |-> Resting]

\* What comes after the worker has stopped.
stopped(q) ==
    LET w == call[q].mine.worker
        then == call[q].then
    IN
    /\ call[q].at = "waiting"
    /\ WorkerGone(w)
    /\ Killed(w)
    /\ IF then = "exit"
       THEN MayEnd /\ ConsoleEnded
       ELSE /\ kept' = NoneKept
            /\ call' = [call EXCEPT ![q] = Resting]
            /\ UNCHANGED <<console, past>>
    /\ deleted' = (deleted \/ then = "delete")
    /\ UNCHANGED note

\* terminate_process_tree fails: the call ends with an error.
not_stopped(q) ==
    /\ call[q].at = "waiting"
    /\ WorkerGone(call[q].mine.worker) /\ life[call[q].mine.worker] # "dead"
    /\ call' = [call EXCEPT ![q] = Resting]
    /\ UNCHANGED <<note, console, past, kept, life, busy, deleted>>

\* shutdown with a run in progress: the lease is given up, the worker stays.
shutdown_leaving_run ==
    /\ console # 0
    /\ kept.worker \in busy
    /\ MayEnd
    /\ note' = [note EXCEPT !.owner = 0, !.stop = FALSE]
    /\ ConsoleEnded
    /\ UNCHANGED <<life, busy, deleted>>

\* The console's process is ended from outside.
console_dies ==
    /\ console # 0
    /\ MayEnd
    /\ ConsoleEnded
    /\ UNCHANGED <<note, life, busy, deleted>>

console_opens ==
    /\ console = 0
    /\ \E c \in Consoles \ past : console' = c /\ \A d \in Consoles \ past : c <= d
    /\ UNCHANGED <<note, past, kept, call, life, busy, deleted>>

----------------------------------------------------------------------------
HostProc(w) ==
    \/ publish_worker(w) \/ start_fails(w) \/ leave_loop(w) \/ clean_up(w) \/ end_process(w)
    \/ program_starts(w) \/ program_ends(w)

ConsoleCall(q) ==
    \/ connect(q) \/ reconnect(q) \/ launch_worker(q) \/ launch_refused(q)
    \/ worker_ready(q) \/ worker_missing(q)
    \/ \E then \in {"return", "delete", "exit"}, confirmed \in BOOLEAN :
          stop_worker(q, then, confirmed)
    \/ ask_to_stop(q) \/ stopped(q) \/ not_stopped(q)

ConsoleNext ==
    \/ \E w \in HostProcs : HostProc(w)
    \/ \E q \in Calls : ConsoleCall(q)
    \/ state
    \/ shutdown_leaving_run \/ console_dies \/ console_opens

ConsoleSpec == ConsoleInit /\ [][ConsoleNext]_consoleVars

----------------------------------------------------------------------------
(* Properties.                                                             *)

(* An instance never has two workers that start or serve, whatever calls of *)
(* one console overlap, which request files one withdraws from another, and *)
(* whether the worker was launched or adopted after the console ended.      *)
OneWorker ==
    Cardinality({w \in HostProcs : life[w] \in {"starting", "serving"}}) <= 1
=============================================================================
