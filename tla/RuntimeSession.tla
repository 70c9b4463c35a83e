--------------------------- MODULE RuntimeSession ---------------------------
(***************************************************************************)
(* A run of a program (core/vnext/runtime.py, execution_worker.py).  The    *)
(* parent process keeps a session and the owner of each target, starts a    *)
(* worker process and follows it; the worker runs the program on a thread   *)
(* of its own and handles the commands it is sent between two snapshots.    *)
(* Two queues connect them, so each acts on what the other was like when    *)
(* the message was put in.                                                  *)
(*                                                                         *)
(* Left out: what the instructions do, events and diagnostics, breakpoints  *)
(* (a step is a breakpoint at the next instruction), listeners, and the     *)
(* removal of old sessions.                                                 *)
(***************************************************************************)
EXTENDS Naturals, Sequences, FiniteSets

CONSTANTS
    Runs,           \* executions
    Controls,       \* the commands users give
    MaxControls,    \* bound: how many commands
    MailSize,       \* capacity of the worker's queue of messages
    WorkersDie      \* whether a worker may die by itself

NoRun == "nobody"

ASSUME RuntimeAssumption ==
    /\ NoRun \notin Runs
    /\ Controls \subseteq {"cancel", "pause", "resume", "step"}
    /\ MaxControls \in Nat
    /\ MailSize \in Nat \ {0}
    /\ WorkersDie \in BOOLEAN

VARIABLES
    session,    \* the parent's sessions, with the step of the thread that follows
    owner,      \* _target_owners of the one target, or NoRun
    process,    \* each worker process
    thread,     \* each worker's program: session and thread in one
    mail,       \* messages of the worker
    orders,     \* commands for the worker
    controls    \* number of commands given

runtimeVars == <<session, owner, process, thread, mail, orders, controls>>

Ended == {"completed", "failed", "cancelled"}
Status == {"queued", "running", "paused"} \cup Ended

NoSession == [at |-> "absent", status |-> "queued", cancel |-> FALSE, deadline |-> FALSE,
              failure |-> FALSE]
NotRun == [at |-> "none", status |-> "queued", gate |-> TRUE, cancel |-> FALSE,
           pause |-> FALSE, step |-> FALSE]

Alive(r) == process[r] \in {"running", "leaving"}

\* The program's thread is at work on the target, or still holds it.
Working(r) == Alive(r) /\ thread[r].at \notin {"none", "finished"}

\* A process that exits or is killed takes its thread and its commands with it;
\* the program's last status is kept for the properties.
Gone(r) ==
    /\ process' = [process EXCEPT ![r] = "gone"]
    /\ thread' = [thread EXCEPT ![r] = [NotRun EXCEPT !.status = thread[r].status]]
    /\ orders' = [orders EXCEPT ![r] = <<>>]

Snapshot(r) == [kind |-> "state", status |-> thread[r].status]

----------------------------------------------------------------------------
RuntimeInit ==
    /\ session = [r \in Runs |-> NoSession]
    /\ owner = NoRun
    /\ process = [r \in Runs |-> "none"]
    /\ thread = [r \in Runs |-> NotRun]
    /\ mail = [r \in Runs |-> <<>>]
    /\ orders = [r \in Runs |-> <<>>]
    /\ controls = 0

(* The parent.                                                             *)

start_session(r) ==
    /\ session[r].at = "absent"
    /\ owner = NoRun
    /\ owner' = r
    /\ session' = [session EXCEPT ![r].at = "spawning"]
    /\ UNCHANGED <<process, thread, mail, orders, controls>>

spawn(r) ==
    /\ session[r].at = "spawning"
    /\ session' = [session EXCEPT ![r].at = "followed"]
    /\ process' = [process EXCEPT ![r] = "running"]
    /\ UNCHANGED <<owner, thread, mail, orders, controls>>

spawn_fails(r) ==
    /\ session[r].at = "spawning"
    /\ session' = [session EXCEPT ![r] = [NoSession EXCEPT !.at = "removed"]]
    /\ owner' = NoRun
    /\ UNCHANGED <<process, thread, mail, orders, controls>>

\* send: to a worker that is alive, from its spawn until its proxy is closed.
HasProxy(r) == session[r].at \in {"followed", "ending", "over"}

Sent(r, order) ==
    IF HasProxy(r) /\ Alive(r) THEN [orders EXCEPT ![r] = Append(@, order)] ELSE orders

\* What cancel, pause, resume and step ask of the parent's own status.
MayOrder(r, order) ==
    CASE order = "cancel" -> TRUE
      [] order = "pause" -> session[r].status \in {"queued", "running"}
      [] order \in {"resume", "step"} -> session[r].status = "paused"

control(r, order) ==
    /\ controls < MaxControls
    /\ session[r].at \notin {"absent", "removed"}
    /\ MayOrder(r, order)
    /\ orders' = Sent(r, order)
    /\ session' = IF order # "cancel" THEN session
                  ELSE [session EXCEPT ![r].cancel = TRUE,
                                       ![r].deadline = @ \/ HasProxy(r)]
    /\ controls' = controls + 1
    /\ UNCHANGED <<owner, process, thread, mail>>

\* Mutant: a worker that is gone without an error has done its work.
CompletedUnlessKnown(r, known) == IF known \in Ended THEN known ELSE "completed"

\* The status after a failure of the worker: what is known already stays.
AfterFailure(r, known) ==
    IF known \in Ended THEN known
    ELSE IF session[r].cancel THEN "cancelled" ELSE "failed"

\* _follow_worker: the next message.
receive(r) ==
    /\ session[r].at = "followed"
    /\ Alive(r)
    /\ mail[r] # <<>>
    /\ LET message == Head(mail[r]) IN
       session' = [session EXCEPT ![r] =
           CASE message.kind = "state" -> [@ EXCEPT !.status = message.status]
             [] message.kind = "final" -> [@ EXCEPT !.status = message.status, !.at = "ending"]
             [] message.kind = "fatal" -> [@ EXCEPT !.status = AfterFailure(r, session[r].status),
                                                    !.at = "ending", !.failure = TRUE]]
    /\ mail' = [mail EXCEPT ![r] = Tail(@)]
    /\ UNCHANGED <<owner, process, thread, orders, controls>>

\* terminate_tree: the worker is killed at once, later (leave) or, when taskkill
\* fails or takes too long, not at all.  Nobody is told which.
terminate_tree(r) == Gone(r) \/ UNCHANGED <<process, thread, orders>>

\* The deadline of a cancellation, the hard timeout, and a worker that sends
\* nothing.
terminate(r) ==
    /\ session[r].at = "followed"
    /\ Alive(r)
    /\ session[r].deadline \/ WorkersDie
    /\ terminate_tree(r)
    /\ session' = [session EXCEPT ![r] = [@ EXCEPT !.status = AfterFailure(r, session[r].status),
                                                  !.at = "ending", !.failure = TRUE]]
    /\ UNCHANGED <<owner, mail, controls>>

\* The worker is gone.  The loop takes at most one message as usual and then one
\* more, of which only a final one counts; the others are lost.
worker_gone(r) ==
    /\ session[r].at = "followed"
    /\ process[r] = "gone"
    /\ LET first == mail[r] # <<>> /\ Head(mail[r]).kind = "state" IN
       \E taken \in {n \in {0, 1} : n = 1 => first} :
       LET known == IF taken = 1 THEN Head(mail[r]).status ELSE session[r].status
           rest == IF taken = 1 THEN Tail(mail[r]) ELSE mail[r]
           final == rest # <<>> /\ Head(rest).kind = "final" IN
       session' = [session EXCEPT ![r] = [@ EXCEPT
                      !.status = IF final THEN Head(rest).status ELSE AfterFailure(r, known),
                      !.at = "ending", !.failure = ~final]]
    /\ mail' = [mail EXCEPT ![r] = <<>>]
    /\ UNCHANGED <<owner, process, thread, orders, controls>>

\* The end of _follow_worker: the target is released whether or not the worker
\* is gone; nobody reads its messages any more.
release(r) ==
    /\ session[r].at = "ending"
    /\ owner' = NoRun
    /\ session' = [session EXCEPT ![r].at = "over"]
    /\ mail' = [mail EXCEPT ![r] = <<>>]
    /\ UNCHANGED <<process, thread, orders, controls>>

\* Only then a worker that does not leave within a second is terminated (again);
\* one that is still alive after that is left to itself.
join(r) ==
    /\ session[r].at = "over"
    /\ IF Alive(r) THEN terminate_tree(r) ELSE UNCHANGED <<process, thread, orders>>
    /\ session' = [session EXCEPT ![r].at = "closed"]
    /\ UNCHANGED <<owner, mail, controls>>

----------------------------------------------------------------------------
(* The worker process.                                                     *)

Put(r, message) == [mail EXCEPT ![r] = IF Len(@) < MailSize THEN Append(@, message) ELSE @]

run_begins(r) ==
    /\ process[r] = "running"
    /\ thread[r].at = "none"
    /\ thread' = [thread EXCEPT ![r].at = "executing", ![r].status = "running"]
    /\ UNCHANGED <<session, owner, process, mail, orders, controls>>

\* A command the program's status does not allow raises in the main loop, which
\* ends the worker with a fatal message.
Refused(r, order) ==
    \/ order = "pause" /\ thread[r].status \notin {"queued", "running"}
    \/ order \in {"resume", "step"} /\ thread[r].status # "paused"

Obeyed(t, order) ==
    CASE order = "cancel" -> [t EXCEPT !.cancel = TRUE, !.gate = TRUE]
      [] order = "pause" -> [t EXCEPT !.pause = TRUE]
      [] order = "resume" -> [t EXCEPT !.gate = TRUE]
      [] order = "step" -> [t EXCEPT !.step = TRUE, !.gate = TRUE]

obey(r) ==
    /\ process[r] = "running"
    /\ thread[r].at # "none"
    /\ orders[r] # <<>>
    /\ orders' = [orders EXCEPT ![r] = Tail(@)]
    /\ LET order == Head(orders[r]) IN
       \/ /\ ~Refused(r, order)
          /\ thread' = [thread EXCEPT ![r] = Obeyed(@, order)]
          /\ UNCHANGED <<process, mail>>
       \/ /\ Refused(r, order)
          /\ process' = [process EXCEPT ![r] = "leaving"]
          /\ mail' = [mail EXCEPT ![r] = Append(@, [kind |-> "fatal"])]
          /\ UNCHANGED thread
    /\ UNCHANGED <<session, owner, controls>>

\* Mutant: a program whose result is known is taken for one that has ended.
KnowsResult(r) == thread[r].status \in Ended

\* The result is known and the drivers are closed: finished_at is set.
terminal(r) == thread[r].at = "finished"

\* A snapshot when something has changed, dropped if the queue is full; the last
\* ones are not dropped, and then the worker leaves.
report(r) ==
    /\ process[r] = "running"
    /\ thread[r].at # "none"
    /\ IF terminal(r)
       THEN /\ mail' = [mail EXCEPT ![r] =
                           Append(IF Len(@) < MailSize THEN Append(@, Snapshot(r)) ELSE @,
                                  [kind |-> "final", status |-> thread[r].status])]
            /\ process' = [process EXCEPT ![r] = "leaving"]
       ELSE /\ IF mail[r] = <<>> THEN session[r].status # thread[r].status
               ELSE mail[r][Len(mail[r])] # Snapshot(r)
            /\ Len(mail[r]) < MailSize
            /\ mail' = Put(r, Snapshot(r))
            /\ UNCHANGED process
    /\ UNCHANGED <<session, owner, thread, orders, controls>>

\* The process exits, its program's thread with it; or it dies, as it may once
\* the parent has tried to kill it.
leave(r) ==
    /\ \/ process[r] = "leaving"
       \/ process[r] = "running" /\ (WorkersDie \/ session[r].failure)
    /\ Gone(r)
    /\ UNCHANGED <<session, owner, mail, controls>>

----------------------------------------------------------------------------
(* The program's thread.                                                   *)

\* _checkpoint before an instruction: the status is set first, the gate closed
\* in a second step.
checkpoint(r) ==
    /\ Alive(r) /\ thread[r].at = "executing"
    /\ thread[r].pause \/ thread[r].step
    /\ thread' = [thread EXCEPT ![r] = [@ EXCEPT !.at = "pausing", !.status = "paused",
                                                 !.pause = FALSE, !.step = FALSE]]
    /\ UNCHANGED <<session, owner, process, mail, orders, controls>>

close_gate(r) ==
    /\ Alive(r) /\ thread[r].at = "pausing"
    /\ thread' = [thread EXCEPT ![r] = [@ EXCEPT !.at = "paused", !.gate = FALSE]]
    /\ UNCHANGED <<session, owner, process, mail, orders, controls>>

pass_gate(r) ==
    /\ Alive(r) /\ thread[r].at = "paused"
    /\ thread[r].gate \/ thread[r].cancel
    /\ thread' = [thread EXCEPT ![r] =
                     IF @.cancel THEN [@ EXCEPT !.at = "closing", !.status = "cancelled"]
                     ELSE [@ EXCEPT !.at = "executing", !.status = "running"]]
    /\ UNCHANGED <<session, owner, process, mail, orders, controls>>

\* The program returns, raises, or notices the cancellation.
run_ends(r, status) ==
    /\ Alive(r) /\ thread[r].at = "executing"
    /\ status = "cancelled" => thread[r].cancel
    /\ status = "failed" => ~thread[r].cancel
    /\ thread' = [thread EXCEPT ![r] = [@ EXCEPT !.at = "closing", !.status = status]]
    /\ UNCHANGED <<session, owner, process, mail, orders, controls>>

\* The drivers are closed, then finished_at is set.
finish(r) ==
    /\ Alive(r) /\ thread[r].at = "closing"
    /\ thread' = [thread EXCEPT ![r].at = "finished"]
    /\ UNCHANGED <<session, owner, process, mail, orders, controls>>

----------------------------------------------------------------------------
Following(r) == receive(r) \/ terminate(r) \/ worker_gone(r) \/ release(r) \/ join(r)

Executing(r) ==
    \/ run_begins(r)
    \/ checkpoint(r)
    \/ close_gate(r)
    \/ pass_gate(r)
    \/ \E status \in Ended : run_ends(r, status)
    \/ finish(r)

RuntimeNext ==
    \E r \in Runs :
        \/ start_session(r) \/ spawn(r) \/ spawn_fails(r)
        \/ \E order \in Controls : control(r, order)
        \/ Following(r)
        \/ Executing(r)
        \/ obey(r)
        \/ report(r)
        \/ leave(r)

RuntimeSpec == RuntimeInit /\ [][RuntimeNext]_runtimeVars

----------------------------------------------------------------------------
(* Properties.                                                             *)

RuntimeTypeOK ==
    /\ owner \in Runs \cup {NoRun}
    /\ \A r \in Runs :
          /\ session[r].status \in Status /\ thread[r].status \in Status
          /\ process[r] \in {"none", "running", "leaving", "gone"}
          /\ Len(mail[r]) <= MailSize + 2

\* The parent has let go of a worker that had not said that its program ended.
GivenUp(r) == session[r].failure /\ session[r].at \in {"over", "closed"}

(* A program at work on the target owns it, so that no second one is let in, *)
(* however its commands, snapshots and last messages are delayed, dropped or *)
(* left behind: the target is given away after the drivers are closed.  The  *)
(* one exception is a worker the parent gave up after a refused command or   *)
(* a kill that did not succeed or took its time: its target is free before   *)
(* it is dead (runtime.py, the end of _follow_worker).                       *)
OneProgramPerTarget == \A r \in Runs : Working(r) => owner = r \/ GivenUp(r)

(* A run is shown as completed only if it has run to its end, and as         *)
(* cancelled only if somebody cancelled it, whatever snapshots were dropped,  *)
(* overtaken by a timeout or left in the queue of a worker that is gone.      *)
EndsAreTrue ==
    \A r \in Runs :
        /\ session[r].status = "completed" => thread[r].status = "completed"
        /\ session[r].status = "cancelled" => session[r].cancel
=============================================================================
