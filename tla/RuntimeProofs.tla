---------------------------- MODULE RuntimeProofs ----------------------------
(***************************************************************************)
(* Theorems about what runs on a Player: the sessions and workers of        *)
(* RuntimeSession, the recordings of FrameRecorder and the consoles of      *)
(* PlayerConsole, for every set of runs, calls and consoles, every capacity *)
(* of a queue and every number of captures, and with workers that may die   *)
(* at any moment.                                                           *)
(***************************************************************************)
EXTENDS RuntimeSession, FrameRecorder, PlayerConsole, FiniteSetTheorems, TLAPS

(***************************************************************************)
(* Sessions, workers and programs.                                         *)
(***************************************************************************)

Sessions ==
    [at : {"absent", "spawning", "followed", "ending", "over", "closed", "removed"},
     status : Status, cancel : BOOLEAN, deadline : BOOLEAN, failure : BOOLEAN]
Lives == {"none", "running", "leaving", "gone"}
Threads ==
    [at : {"none", "executing", "pausing", "paused", "closing", "finished"}, status : Status,
     gate : BOOLEAN, cancel : BOOLEAN, pause : BOOLEAN, step : BOOLEAN]
Messages == [kind : {"state", "final"}, status : Status] \cup [kind : {"fatal"}]
Commands == {"cancel", "pause", "resume", "step"}

\* The invariant of one run is stated over the values of its session s, worker
\* process p, program t, messages m and commands o.
RunTypes(s, p, t, m, o) ==
    /\ s \in Sessions /\ p \in Lives /\ t \in Threads
    /\ m \in Seq(Messages) /\ o \in Seq(Commands)

\* Before its worker is spawned a run has nothing but its session.
NotSpawned == {"absent", "spawning", "removed"}

WorkerFollowsSession(s, p, t, m, o) ==
    /\ s.at \in NotSpawned <=> p = "none"
    /\ p = "none" => t = NotRun /\ m = <<>> /\ o = <<>>

\* A worker that says its last word leaves, its program ended if the word is
\* "final"; the parent ends a session without a failure on nothing else.
Done(p, t) == p = "gone" \/ (p = "leaving" /\ t.at = "finished")
PastFollowed == {"ending", "over", "closed"}
LastWord(s, p, t, m) ==
    /\ s.at \in PastFollowed /\ ~s.failure => Done(p, t)
    /\ \A i \in DOMAIN m :
          /\ m[i].kind # "state" => p \in {"leaving", "gone"}
          /\ m[i].kind = "final" => Done(p, t)

\* Only a worker's last messages go beyond the capacity of its queue.
QueueIsBounded(p, m) ==
    /\ Len(m) <= MailSize + 2
    /\ p = "running" => Len(m) <= MailSize

\* Whoever speaks of a completed run speaks of a program that stays completed.
CompletedIsKnown(s, p, t, m) ==
    /\ s.status = "completed" => t.status = "completed"
    /\ \A i \in DOMAIN m : m[i].kind # "fatal" /\ m[i].status = "completed" => t.status = "completed"
    /\ t.status = "completed" => t.at \in {"closing", "finished"} \/ p = "gone"

\* A cancellation is on record before any trace of it is anywhere.
CancelIsKnown(s, t, m, o) ==
    \/ s.cancel
    \/ /\ s.status # "cancelled" /\ t.status # "cancelled" /\ ~t.cancel
       /\ \A i \in DOMAIN m : m[i].kind # "fatal" => m[i].status # "cancelled"
       /\ \A i \in DOMAIN o : o[i] # "cancel"

RunInv(s, p, t, m, o) ==
    /\ RunTypes(s, p, t, m, o)
    /\ WorkerFollowsSession(s, p, t, m, o)
    /\ LastWord(s, p, t, m)
    /\ QueueIsBounded(p, m)
    /\ CompletedIsKnown(s, p, t, m)
    /\ CancelIsKnown(s, t, m, o)

\* The target belongs to the run the parent has not let go of.
Holds(r) == session[r].at \in {"spawning", "followed", "ending"}

OwnerInv ==
    /\ owner \in Runs \cup {NoRun}
    /\ \A r \in Runs : Holds(r) <=> owner = r

RunFunctions ==
    /\ session \in [Runs -> Sessions] /\ process \in [Runs -> Lives] /\ thread \in [Runs -> Threads]
    /\ mail \in [Runs -> Seq(Messages)] /\ orders \in [Runs -> Seq(Commands)]
    /\ controls \in Nat

RuntimeInv ==
    /\ RunFunctions
    /\ OwnerInv
    /\ \A r \in Runs : RunInv(session[r], process[r], thread[r], mail[r], orders[r])

----------------------------------------------------------------------------
(* What changing two fields of a session does.                             *)
LEMMA SessionFields ==
    ASSUME NEW s \in Sessions, NEW status \in Status, NEW failure \in BOOLEAN,
           NEW at \in {"followed", "ending", "over", "closed"}
    PROVE  LET n == [s EXCEPT !.status = status, !.at = at, !.failure = failure] IN
           /\ n \in Sessions
           /\ n.at = at /\ n.status = status /\ n.failure = failure
           /\ n.cancel = s.cancel /\ n.deadline = s.deadline
BY DEF Sessions

(* The commands cancel and deadline of a session.                          *)
LEMMA SessionCancelled ==
    ASSUME NEW s \in Sessions, NEW late \in BOOLEAN
    PROVE  LET n == [s EXCEPT !.cancel = TRUE, !.deadline = late] IN
           n \in Sessions /\ n.at = s.at /\ n.status = s.status /\ n.failure = s.failure /\ n.cancel
BY DEF Sessions

(* What changing the step and the status of a program does.                *)
LEMMA ThreadFields ==
    ASSUME NEW t \in Threads, NEW status \in Status,
           NEW at \in {"executing", "pausing", "paused", "closing", "finished"}
    PROVE  LET n == [t EXCEPT !.at = at, !.status = status] IN
           n \in Threads /\ n.at = at /\ n.status = status /\ n.cancel = t.cancel
BY DEF Threads

(* _checkpoint: the program pauses and forgets the request.                *)
LEMMA ThreadPauses ==
    ASSUME NEW t \in Threads
    PROVE  LET n == [t EXCEPT !.at = "pausing", !.status = "paused", !.pause = FALSE, !.step = FALSE] IN
           n \in Threads /\ n.at = "pausing" /\ n.status = "paused" /\ n.cancel = t.cancel
BY DEF Threads, Status

(* A command changes neither the step nor the status of a program, and only *)
(* cancel cancels it.                                                       *)
LEMMA ObeyedFields ==
    ASSUME NEW t \in Threads, NEW order \in Commands
    PROVE  LET n == Obeyed(t, order) IN
           /\ n \in Threads /\ n.at = t.at /\ n.status = t.status
           /\ n.cancel => t.cancel \/ order = "cancel"
BY DEF Threads, Obeyed, Commands

(* The remains of a program whose process is gone.                         *)
LEMMA RemainsOfThread ==
    ASSUME NEW t \in Threads
    PROVE  LET n == [NotRun EXCEPT !.status = t.status] IN
           n \in Threads /\ n.at = "none" /\ n.status = t.status /\ ~n.cancel
BY DEF Threads, NotRun, Status

(* Messages and commands in a queue are messages and commands.             *)
LEMMA QueueElements ==
    ASSUME NEW m \in Seq(Messages), NEW i \in DOMAIN m
    PROVE  /\ m[i] \in Messages
           /\ m[i].kind \in {"state", "final", "fatal"}
           /\ m[i].kind # "fatal" => m[i].status \in Status
<1>1. m[i] \in Messages
  OBVIOUS
<1> QED BY <1>1 DEF Messages

(* A session that changes its step or status keeps the invariant of its run *)
(* if the worker bears out what it now says.                                *)
LEMMA SessionMoves ==
    ASSUME NEW s, NEW p, NEW t, NEW m, NEW o, RunInv(s, p, t, m, o),
           NEW n \in Sessions, p # "none", n.at \notin NotSpawned, n.cancel = s.cancel,
           n.at \in PastFollowed /\ ~n.failure => Done(p, t),
           n.status = "completed" => t.status = "completed",
           n.status = "cancelled" => s.cancel
    PROVE  RunInv(n, p, t, m, o)
BY DEF RunInv, RunTypes, WorkerFollowsSession, LastWord, QueueIsBounded, CompletedIsKnown,
       CancelIsKnown

(* A message taken from the front.                                         *)
LEMMA MailTaken ==
    ASSUME NEW s, NEW p, NEW t, NEW m, NEW o, RunInv(s, p, t, m, o), m # <<>>
    PROVE  RunInv(s, p, t, Tail(m), o)
<1> DEFINE n == Tail(m)
<1>1. m \in Seq(Messages)
  BY DEF RunInv, RunTypes
<1>2. n \in Seq(Messages) /\ Len(n) = Len(m) - 1 /\ Len(m) \in Nat \ {0}
  BY <1>1
<1>3. \A i \in DOMAIN n : i + 1 \in DOMAIN m /\ n[i] = m[i + 1]
  BY <1>1, <1>2
<1> HIDE DEF n
<1> QED
  BY <1>2, <1>3, RuntimeAssumption
  DEF RunInv, RunTypes, WorkerFollowsSession, LastWord, QueueIsBounded, CompletedIsKnown, CancelIsKnown

(* Messages nobody will read.                                              *)
LEMMA MailLost ==
    ASSUME NEW s, NEW p, NEW t, NEW m, NEW o, RunInv(s, p, t, m, o)
    PROVE  RunInv(s, p, t, <<>>, o)
BY RuntimeAssumption
DEF RunInv, RunTypes, WorkerFollowsSession, LastWord, QueueIsBounded, CompletedIsKnown, CancelIsKnown

(* A message about the program as it is, or the last one.                  *)
LEMMA MailPut ==
    ASSUME NEW s, NEW p, NEW t, NEW m, NEW o, NEW q, RunInv(s, p, t, m, o), p = "running",
           NEW x \in Messages, q \in {"running", "leaving"},
           x.kind # "state" => q = "leaving",
           x.kind = "final" => t.at = "finished",
           x.kind # "fatal" => x.status = t.status,
           Len(m) + 1 <= MailSize + 2, q = "running" => Len(m) + 1 <= MailSize
    PROVE  RunInv(s, q, t, Append(m, x), o)
<1> DEFINE n == Append(m, x)
<1>1. m \in Seq(Messages)
  BY DEF RunInv, RunTypes
<1>2. n \in Seq(Messages) /\ Len(n) = Len(m) + 1 /\ Len(m) \in Nat
  BY <1>1
<1>3. \A i \in DOMAIN n : (i \in DOMAIN m /\ n[i] = m[i]) \/ n[i] = x
  BY <1>1, <1>2
<1> HIDE DEF n
<1>4. /\ s \in Sessions /\ s.at \notin NotSpawned
      /\ s.at \notin PastFollowed \/ s.failure
      /\ \A i \in DOMAIN m : m[i].kind = "state"
  BY DEF RunInv, RunTypes, WorkerFollowsSession, LastWord, Done
<1>5. LastWord(s, q, t, n)
  BY <1>3, <1>4 DEF LastWord, Done
<1>6. CompletedIsKnown(s, q, t, n)
  BY <1>3 DEF RunInv, CompletedIsKnown
<1>7. CancelIsKnown(s, t, n, o)
  BY <1>3 DEF RunInv, CancelIsKnown
<1>8. WorkerFollowsSession(s, q, t, n, o)
  BY <1>4 DEF RunInv, WorkerFollowsSession
<1>9. QueueIsBounded(q, n)
  BY <1>2 DEF QueueIsBounded
<1>10. RunInv(s, q, t, n, o)
  BY <1>2, <1>5, <1>6, <1>7, <1>8, <1>9 DEF RunInv, RunTypes, Lives
<1> QED BY <1>10 DEF n

(* A command put into the queue by a parent that has noted a cancellation. *)
LEMMA OrderPut ==
    ASSUME NEW s, NEW p, NEW t, NEW m, NEW o, RunInv(s, p, t, m, o), p # "none",
           NEW x \in Commands, x = "cancel" => s.cancel
    PROVE  RunInv(s, p, t, m, Append(o, x))
<1> DEFINE n == Append(o, x)
<1>1. o \in Seq(Commands)
  BY DEF RunInv, RunTypes
<1>2. n \in Seq(Commands)
  BY <1>1
<1>3. \A i \in DOMAIN n : (i \in DOMAIN o /\ n[i] = o[i]) \/ n[i] = x
  BY <1>1
<1> HIDE DEF n
<1> QED
  BY <1>2, <1>3 DEF RunInv, RunTypes, WorkerFollowsSession, CancelIsKnown

(* The first command taken out.                                            *)
LEMMA OrderTaken ==
    ASSUME NEW s, NEW p, NEW t, NEW m, NEW o, RunInv(s, p, t, m, o), o # <<>>
    PROVE  /\ RunInv(s, p, t, m, Tail(o))
           /\ Head(o) \in Commands
           /\ Head(o) = "cancel" => s.cancel
<1> DEFINE n == Tail(o)
<1>1. o \in Seq(Commands)
  BY DEF RunInv, RunTypes
<1>2. n \in Seq(Commands) /\ Head(o) = o[1] /\ 1 \in DOMAIN o /\ Head(o) \in Commands
  BY <1>1
<1>3. \A i \in DOMAIN n : i + 1 \in DOMAIN o /\ n[i] = o[i + 1]
  BY <1>1
<1>4. Head(o) = "cancel" => s.cancel
  BY <1>2 DEF RunInv, CancelIsKnown
<1> HIDE DEF n
<1> QED
  BY <1>2, <1>3, <1>4 DEF RunInv, RunTypes, WorkerFollowsSession, CancelIsKnown

(* A program that takes a step: it never leaves "completed", and it is      *)
(* cancelled only after a command.                                          *)
LEMMA ThreadMoves ==
    ASSUME NEW s, NEW p, NEW t, NEW m, NEW o, RunInv(s, p, t, m, o), p \in {"running", "leaving"},
           NEW n \in Threads,
           t.at = "finished" => n.at = "finished",
           t.status = "completed" => n.status = "completed",
           n.status = "completed" => n.at \in {"closing", "finished"},
           n.status = "cancelled" => s.cancel,
           n.cancel => s.cancel
    PROVE  RunInv(s, p, n, m, o)
BY DEF RunInv, RunTypes, WorkerFollowsSession, LastWord, Done, QueueIsBounded, CompletedIsKnown,
       CancelIsKnown

(* A worker that is gone, with what it was told and what it did.           *)
LEMMA WorkerGoes ==
    ASSUME NEW s, NEW p, NEW t, NEW m, NEW o, RunInv(s, p, t, m, o), p \in {"running", "leaving"}
    PROVE  RunInv(s, "gone", [NotRun EXCEPT !.status = t.status], m, <<>>)
<1> DEFINE n == [NotRun EXCEPT !.status = t.status]
<1>1. n \in Threads /\ n.status = t.status /\ ~n.cancel
  BY RemainsOfThread DEF RunInv, RunTypes
<1> HIDE DEF n
<1>2. RunTypes(s, "gone", n, m, <<>>) /\ WorkerFollowsSession(s, "gone", n, m, <<>>)
  BY <1>1 DEF RunInv, RunTypes, Lives, WorkerFollowsSession
<1>3. LastWord(s, "gone", n, m) /\ QueueIsBounded("gone", m)
  BY DEF RunInv, LastWord, Done, QueueIsBounded
<1>4. CompletedIsKnown(s, "gone", n, m) /\ CancelIsKnown(s, n, m, <<>>)
  BY <1>1 DEF RunInv, CompletedIsKnown, CancelIsKnown
<1>5. RunInv(s, "gone", n, m, <<>>)
  BY <1>2, <1>3, <1>4 DEF RunInv
<1> QED BY <1>5 DEF n

----------------------------------------------------------------------------
(* Every step is about one run.                                            *)
Becomes(r, s, p, t, m, o) ==
    /\ session' = [session EXCEPT ![r] = s]
    /\ process' = [process EXCEPT ![r] = p]
    /\ thread' = [thread EXCEPT ![r] = t]
    /\ mail' = [mail EXCEPT ![r] = m]
    /\ orders' = [orders EXCEPT ![r] = o]

Of(r) == RunInv(session[r], process[r], thread[r], mail[r], orders[r])

(* What a step leaves alone is as it was.                                  *)
LEMMA Same ==
    ASSUME RuntimeInv, NEW r \in Runs
    PROVE  /\ session = [session EXCEPT ![r] = session[r]]
           /\ process = [process EXCEPT ![r] = process[r]]
           /\ thread = [thread EXCEPT ![r] = thread[r]]
           /\ mail = [mail EXCEPT ![r] = mail[r]]
           /\ orders = [orders EXCEPT ![r] = orders[r]]
           /\ Of(r)
           /\ session[r] \in Sessions /\ process[r] \in Lives /\ thread[r] \in Threads
           /\ mail[r] \in Seq(Messages) /\ orders[r] \in Seq(Commands)
BY DEF RuntimeInv, RunFunctions, Of

(* A step that is good for its run is good for all of them.                *)
LEMMA OneRunChanges ==
    ASSUME RuntimeInv, NEW r \in Runs, NEW s, NEW p, NEW t, NEW m, NEW o,
           Becomes(r, s, p, t, m, o), RunInv(s, p, t, m, o), controls' \in Nat, OwnerInv'
    PROVE  RuntimeInv'
<1>1. s \in Sessions /\ p \in Lives /\ t \in Threads /\ m \in Seq(Messages) /\ o \in Seq(Commands)
  BY DEF RunInv, RunTypes
<1>2. RunFunctions'
  BY <1>1 DEF RunFunctions, RuntimeInv, Becomes
<1>3. ASSUME NEW q \in Runs PROVE Of(q)'
  <2>1. CASE q = r
    BY <2>1 DEF Becomes, RuntimeInv, RunFunctions, Of
  <2>2. CASE q # r
    BY <2>2 DEF Becomes, RuntimeInv, RunFunctions, Of
  <2> QED BY <2>1, <2>2
<1> QED BY <1>2, <1>3 DEF RuntimeInv, Of

(* The owner stays when no run starts or ends.                             *)
LEMMA OwnerStays ==
    ASSUME RuntimeInv, NEW r \in Runs, NEW s, session' = [session EXCEPT ![r] = s],
           owner' = owner,
           s.at \in {"spawning", "followed", "ending"} <=> Holds(r)
    PROVE  OwnerInv'
BY DEF OwnerInv, Holds, RuntimeInv, RunFunctions

(* start_session takes the target.                                         *)
LEMMA OwnerTakes ==
    ASSUME RuntimeInv, NEW r \in Runs, NEW s, session' = [session EXCEPT ![r] = s],
           owner = NoRun, owner' = r, s.at = "spawning"
    PROVE  OwnerInv'
BY RuntimeAssumption DEF OwnerInv, Holds, RuntimeInv, RunFunctions

(* The end of a session, or of an attempt to spawn, frees the target.       *)
LEMMA OwnerFrees ==
    ASSUME RuntimeInv, NEW r \in Runs, NEW s, session' = [session EXCEPT ![r] = s],
           Holds(r), owner' = NoRun, s.at \in {"over", "removed"}
    PROVE  OwnerInv'
BY RuntimeAssumption DEF OwnerInv, Holds, RuntimeInv, RunFunctions

----------------------------------------------------------------------------
(* The parent: a session begins, and its worker is spawned or not.         *)
LEMMA BeginningKeeps ==
    ASSUME RuntimeInv, NEW r \in Runs, start_session(r) \/ spawn(r) \/ spawn_fails(r)
    PROVE  RuntimeInv'
<1> USE Same
<1>1. CASE start_session(r)
  <2> DEFINE s == [session[r] EXCEPT !.at = "spawning"]
  <2>1. s \in Sessions /\ s.at = "spawning" /\ s.status = session[r].status /\ s.cancel = session[r].cancel
        /\ s.failure = session[r].failure
    BY DEF Sessions
  <2>2. Becomes(r, s, process[r], thread[r], mail[r], orders[r]) /\ owner = NoRun /\ owner' = r
        /\ controls' = controls /\ session[r].at = "absent"
    BY <1>1 DEF start_session, Becomes
  <2> HIDE DEF s
  <2>3. RunInv(s, process[r], thread[r], mail[r], orders[r])
    BY <2>1, <2>2 DEF Of, RunInv, RunTypes, WorkerFollowsSession, LastWord, CompletedIsKnown,
                      CancelIsKnown, NotSpawned, PastFollowed
  <2>4. OwnerInv'
    BY <2>1, <2>2, OwnerTakes DEF Becomes
  <2> QED BY <2>2, <2>3, <2>4, OneRunChanges DEF RuntimeInv, RunFunctions
<1>2. CASE spawn(r)
  <2> DEFINE s == [session[r] EXCEPT !.at = "followed"]
  <2>1. s \in Sessions /\ s.at = "followed" /\ s.status = session[r].status /\ s.cancel = session[r].cancel
        /\ s.failure = session[r].failure
    BY DEF Sessions
  <2>2. Becomes(r, s, "running", thread[r], mail[r], orders[r]) /\ owner' = owner
        /\ controls' = controls /\ session[r].at = "spawning"
    BY <1>2 DEF spawn, Becomes
  <2> HIDE DEF s
  <2>3. process[r] = "none" /\ thread[r] = NotRun /\ mail[r] = <<>> /\ orders[r] = <<>>
    BY <2>2 DEF Of, RunInv, WorkerFollowsSession, NotSpawned
  <2>4. NotRun.status = "queued" /\ ~NotRun.cancel
    BY DEF NotRun
  <2>5. RunInv(s, "running", thread[r], mail[r], orders[r])
    BY <2>1, <2>2, <2>3, <2>4, RuntimeAssumption
    DEF Of, RunInv, RunTypes, Lives, WorkerFollowsSession, LastWord, QueueIsBounded,
        CompletedIsKnown, CancelIsKnown, NotSpawned, PastFollowed
  <2>6. OwnerInv'
    BY <2>1, <2>2, OwnerStays DEF Becomes, Holds
  <2> QED BY <2>2, <2>5, <2>6, OneRunChanges DEF RuntimeInv, RunFunctions
<1>3. CASE spawn_fails(r)
  <2> DEFINE s == [NoSession EXCEPT !.at = "removed"]
  <2>1. s \in Sessions /\ s.at = "removed" /\ s.status = "queued"
    BY DEF Sessions, NoSession, Status
  <2>2. Becomes(r, s, process[r], thread[r], mail[r], orders[r]) /\ owner' = NoRun
        /\ controls' = controls /\ session[r].at = "spawning"
    BY <1>3 DEF spawn_fails, Becomes
  <2> HIDE DEF s
  <2>3. process[r] = "none" /\ thread[r] = NotRun /\ mail[r] = <<>> /\ orders[r] = <<>>
    BY <2>2 DEF Of, RunInv, WorkerFollowsSession, NotSpawned
  <2>4. NotRun.status = "queued" /\ ~NotRun.cancel
    BY DEF NotRun
  <2>5. RunInv(s, process[r], thread[r], mail[r], orders[r])
    BY <2>1, <2>2, <2>3, <2>4, RuntimeAssumption
    DEF Of, RunInv, RunTypes, Lives, WorkerFollowsSession, LastWord, QueueIsBounded,
        CompletedIsKnown, CancelIsKnown, NotSpawned, PastFollowed
  <2>6. OwnerInv'
    BY <2>1, <2>2, OwnerFrees DEF Becomes, Holds
  <2> QED BY <2>2, <2>5, <2>6, OneRunChanges DEF RuntimeInv, RunFunctions
<1> QED BY <1>1, <1>2, <1>3

(* A command: the cancellation is noted before it is sent.                 *)
LEMMA ControlKeeps ==
    ASSUME RuntimeInv, NEW r \in Runs, NEW order \in Controls, control(r, order)
    PROVE  RuntimeInv'
<1> USE Same
<1> DEFINE s == IF order # "cancel" THEN session[r]
                ELSE [session[r] EXCEPT !.cancel = TRUE,
                                        !.deadline = session[r].deadline \/ HasProxy(r)]
           o == IF HasProxy(r) /\ Alive(r) THEN Append(orders[r], order) ELSE orders[r]
<1>1. order \in Commands
  BY RuntimeAssumption DEF Commands
<1>2. (session[r].deadline \/ HasProxy(r)) \in BOOLEAN
  BY DEF Sessions, HasProxy
<1>3. /\ s \in Sessions /\ s.at = session[r].at /\ s.status = session[r].status
      /\ s.failure = session[r].failure
      /\ session[r].cancel \/ order = "cancel" => s.cancel
  BY <1>2, SessionCancelled
<1>4. session' = [session EXCEPT ![r] = s]
  BY DEF control
<1>5. orders' = [orders EXCEPT ![r] = o]
  BY DEF control, Sent
<1>6. Becomes(r, s, process[r], thread[r], mail[r], o) /\ owner' = owner /\ controls' = controls + 1
  BY <1>4, <1>5 DEF control, Becomes
<1> HIDE DEF s
<1>7. RunInv(s, process[r], thread[r], mail[r], orders[r])
  BY <1>3 DEF Of, RunInv, RunTypes, WorkerFollowsSession, LastWord, CompletedIsKnown, CancelIsKnown
<1>8. RunInv(s, process[r], thread[r], mail[r], o)
  BY <1>1, <1>3, <1>7, OrderPut DEF Alive
<1> HIDE DEF o
<1>9. OwnerInv'
  BY <1>3, <1>6, OwnerStays DEF Becomes, Holds
<1> QED BY <1>6, <1>8, <1>9, OneRunChanges DEF RuntimeInv, RunFunctions

(* What a failure of the worker makes of a status that is known.           *)
LEMMA FailureIsTrue ==
    ASSUME NEW r \in Runs, NEW known \in Status
    PROVE  /\ AfterFailure(r, known) \in Status
           /\ AfterFailure(r, known) = "completed" => known = "completed"
           /\ AfterFailure(r, known) = "cancelled" => known = "cancelled" \/ session[r].cancel
BY DEF AfterFailure, Status, Ended

(* A session that is followed and goes on with another status or step.     *)
LEMMA FollowedMoves ==
    ASSUME RuntimeInv, NEW r \in Runs, NEW status \in Status, NEW at \in {"followed", "ending"},
           NEW failure \in BOOLEAN, NEW p, NEW t, NEW m, NEW o, RunInv(session[r], p, t, m, o),
           session[r].at = "followed", p # "none",
           at = "ending" => failure = TRUE \/ Done(p, t),
           status = "completed" => t.status = "completed",
           status = "cancelled" => session[r].cancel,
           Becomes(r, [session[r] EXCEPT !.status = status, !.at = at, !.failure = failure],
                   p, t, m, o),
           owner' = owner, controls' = controls
    PROVE  RuntimeInv'
<1> DEFINE n == [session[r] EXCEPT !.status = status, !.at = at, !.failure = failure]
<1>0. session[r] \in Sessions
  BY Same
<1>1. /\ n \in Sessions
      /\ n.at = at /\ n.status = status /\ n.cancel = session[r].cancel /\ n.failure = failure
  BY <1>0 DEF Sessions
<1>2. Becomes(r, n, p, t, m, o)
  OBVIOUS
<1> HIDE DEF n
<1>3. RunInv(n, p, t, m, o)
  BY <1>1, SessionMoves DEF NotSpawned, PastFollowed
<1>4. OwnerInv'
  BY <1>1, <1>2, OwnerStays DEF Becomes, Holds
<1> QED BY <1>2, <1>3, <1>4, OneRunChanges DEF RuntimeInv, RunFunctions

(* What the first message of a queue says is so.                           *)
LEMMA FirstMessage ==
    ASSUME NEW s, NEW p, NEW t, NEW m, NEW o, RunInv(s, p, t, m, o), m # <<>>
    PROVE  /\ Head(m) \in Messages
           /\ Head(m).kind \in {"state", "final", "fatal"}
           /\ Head(m).kind # "fatal" =>
                 /\ Head(m).status \in Status
                 /\ Head(m).status = "completed" => t.status = "completed"
                 /\ Head(m).status = "cancelled" => s.cancel
           /\ Head(m).kind = "final" => Done(p, t)
<1>1. m \in Seq(Messages)
  BY DEF RunInv, RunTypes
<1>2. 1 \in DOMAIN m /\ Head(m) = m[1]
  BY <1>1
<1>3. m[1] \in Messages /\ m[1].kind \in {"state", "final", "fatal"}
      /\ (m[1].kind # "fatal" => m[1].status \in Status)
  BY <1>1, <1>2, QueueElements
<1> QED BY <1>2, <1>3 DEF RunInv, LastWord, CompletedIsKnown, CancelIsKnown

(* _follow_worker takes a message.                                         *)
LEMMA ReceiveKeeps ==
    ASSUME RuntimeInv, NEW r \in Runs, receive(r)
    PROVE  RuntimeInv'
<1> USE Same
<1> DEFINE x == Head(mail[r])
           status == IF x.kind = "fatal" THEN AfterFailure(r, session[r].status) ELSE x.status
           at == IF x.kind = "state" THEN "followed" ELSE "ending"
           failure == x.kind = "fatal" \/ session[r].failure
<1>1. mail[r] # <<>> /\ session[r].at = "followed" /\ process[r] \in {"running", "leaving"}
      /\ owner' = owner /\ controls' = controls
  BY DEF receive, Alive
<1>2. RunInv(session[r], process[r], thread[r], Tail(mail[r]), orders[r])
  BY <1>1, MailTaken DEF Of
<1>3. /\ x.kind \in {"state", "final", "fatal"}
      /\ x.kind # "fatal" =>
            /\ x.status \in Status
            /\ x.status = "completed" => thread[r].status = "completed"
            /\ x.status = "cancelled" => session[r].cancel
      /\ x.kind = "final" => Done(process[r], thread[r])
  BY <1>1, FirstMessage DEF Of
<1>4. /\ session[r].status \in Status
      /\ session[r].status = "completed" => thread[r].status = "completed"
      /\ session[r].status = "cancelled" => session[r].cancel
  BY DEF Of, RunInv, CompletedIsKnown, CancelIsKnown, Sessions
<1>5. /\ status \in Status /\ at \in {"followed", "ending"} /\ failure \in BOOLEAN
      /\ at = "ending" => failure = TRUE \/ Done(process[r], thread[r])
      /\ status = "completed" => thread[r].status = "completed"
      /\ status = "cancelled" => session[r].cancel
  BY <1>3, <1>4, FailureIsTrue DEF Sessions
<1>6. session' = [session EXCEPT ![r] =
                     [session[r] EXCEPT !.status = status, !.at = at, !.failure = failure]]
  <2>1. CASE x.kind = "state"
    <3>1. session' = [session EXCEPT ![r] = [session[r] EXCEPT !.status = x.status]]
      BY <2>1 DEF receive
    <3>2. [session[r] EXCEPT !.status = x.status]
             = [session[r] EXCEPT !.status = x.status, !.at = "followed", !.failure = session[r].failure]
      BY <1>1, <1>3, <2>1 DEF Sessions
    <3>3. failure = session[r].failure
      BY <2>1 DEF Sessions
    <3> QED BY <2>1, <3>1, <3>2, <3>3
  <2>2. CASE x.kind = "final"
    <3>1. session' = [session EXCEPT ![r] = [session[r] EXCEPT !.status = x.status, !.at = "ending"]]
      BY <2>2 DEF receive
    <3>2. [session[r] EXCEPT !.status = x.status, !.at = "ending"]
             = [session[r] EXCEPT !.status = x.status, !.at = "ending", !.failure = session[r].failure]
      BY DEF Sessions
    <3>3. failure = session[r].failure
      BY <2>2 DEF Sessions
    <3> QED BY <2>2, <3>1, <3>2, <3>3
  <2>3. CASE x.kind = "fatal"
    BY <2>3 DEF receive
  <2> QED BY <1>3, <2>1, <2>2, <2>3
<1>7. mail' = [mail EXCEPT ![r] = Tail(mail[r])] /\ UNCHANGED <<process, thread, orders>>
  BY DEF receive
<1> HIDE DEF status, at, failure
<1>8. Becomes(r, [session[r] EXCEPT !.status = status, !.at = at, !.failure = failure],
              process[r], thread[r], Tail(mail[r]), orders[r])
  BY <1>6, <1>7 DEF Becomes
<1>9. process[r] # "none" /\ owner' = owner /\ controls' = controls
  BY <1>1
<1>10. PICK f \in BOOLEAN : f = failure
  BY <1>5
<1>11. /\ at = "ending" => f = TRUE \/ Done(process[r], thread[r])
       /\ Becomes(r, [session[r] EXCEPT !.status = status, !.at = at, !.failure = f],
                  process[r], thread[r], Tail(mail[r]), orders[r])
  BY <1>5, <1>8, <1>10
<1> QED BY <1>2, <1>1, <1>5, <1>9, <1>11, FollowedMoves

(* Gone, and the session goes on as it was.                                *)
LEMMA GoneBecomes ==
    ASSUME RuntimeInv, NEW r \in Runs, Gone(r), Alive(r)
    PROVE  /\ process' = [process EXCEPT ![r] = "gone"]
           /\ thread' = [thread EXCEPT ![r] = [NotRun EXCEPT !.status = thread[r].status]]
           /\ orders' = [orders EXCEPT ![r] = <<>>]
           /\ RunInv(session[r], "gone", [NotRun EXCEPT !.status = thread[r].status], mail[r], <<>>)
           /\ [NotRun EXCEPT !.status = thread[r].status].status = thread[r].status
<1>1. RunInv(session[r], "gone", [NotRun EXCEPT !.status = thread[r].status], mail[r], <<>>)
  BY Same, WorkerGoes DEF Alive, Of
<1>2. [NotRun EXCEPT !.status = thread[r].status].status = thread[r].status
  BY Same, RemainsOfThread
<1> QED BY <1>1, <1>2 DEF Gone

(* The parent ends the worker.                                             *)
LEMMA TerminateKeeps ==
    ASSUME RuntimeInv, NEW r \in Runs, terminate(r)
    PROVE  RuntimeInv'
<1> USE Same
<1> DEFINE status == AfterFailure(r, session[r].status)
           t == [NotRun EXCEPT !.status = thread[r].status]
<1>1. /\ session[r].at = "followed" /\ Alive(r) /\ owner' = owner /\ controls' = controls /\ mail' = mail
      /\ session' = [session EXCEPT ![r] =
                        [session[r] EXCEPT !.status = status, !.at = "ending", !.failure = TRUE]]
      /\ Gone(r) \/ UNCHANGED <<process, thread, orders>>
  BY DEF terminate, terminate_tree
<1>2. /\ status \in Status
      /\ status = "completed" => thread[r].status = "completed"
      /\ status = "cancelled" => session[r].cancel
  BY FailureIsTrue DEF Of, RunInv, CompletedIsKnown, CancelIsKnown, Sessions
<1> DEFINE n == [session[r] EXCEPT !.status = status, !.at = "ending", !.failure = TRUE]
<1> HIDE DEF status
<1>3. ASSUME Gone(r) PROVE RuntimeInv'
  <2>1. Becomes(r, n, "gone", t, mail[r], <<>>)
        /\ RunInv(session[r], "gone", t, mail[r], <<>>) /\ t.status = thread[r].status
    BY <1>1, <1>3, GoneBecomes DEF Becomes
  <2> HIDE DEF t
  <2> QED BY <1>1, <1>2, <2>1, FollowedMoves
<1>4. ASSUME UNCHANGED <<process, thread, orders>> PROVE RuntimeInv'
  <2>1. Becomes(r, n, process[r], thread[r], mail[r], orders[r])
    BY <1>1, <1>4 DEF Becomes
  <2> QED BY <1>1, <1>2, <2>1, FollowedMoves DEF Of, Alive
<1> QED BY <1>1, <1>3, <1>4

(* The worker is gone, and its last messages are read or lost.             *)
LEMMA WorkerGoneKeeps ==
    ASSUME RuntimeInv, NEW r \in Runs, worker_gone(r)
    PROVE  RuntimeInv'
<1> USE Same
<1> DEFINE first == mail[r] # <<>> /\ Head(mail[r]).kind = "state"
           known(n) == IF n = 1 THEN Head(mail[r]).status ELSE session[r].status
           rest(n) == IF n = 1 THEN Tail(mail[r]) ELSE mail[r]
           final(n) == rest(n) # <<>> /\ Head(rest(n)).kind = "final"
           status(n) == IF final(n) THEN Head(rest(n)).status ELSE AfterFailure(r, known(n))
<1>1. session[r].at = "followed" /\ process[r] = "gone" /\ owner' = owner /\ controls' = controls
      /\ mail' = [mail EXCEPT ![r] = <<>>] /\ UNCHANGED <<process, thread, orders>>
  BY DEF worker_gone
<1>2. PICK n \in {0, 1} :
         /\ n = 1 => first
         /\ session' = [session EXCEPT ![r] = [session[r] EXCEPT !.status = status(n), !.at = "ending",
                                                               !.failure = ~final(n)]]
  BY DEF worker_gone
<1>3. /\ session[r].status \in Status
      /\ session[r].status = "completed" => thread[r].status = "completed"
      /\ session[r].status = "cancelled" => session[r].cancel
  BY DEF Of, RunInv, CompletedIsKnown, CancelIsKnown, Sessions
<1>4. /\ known(n) \in Status
      /\ known(n) = "completed" => thread[r].status = "completed"
      /\ known(n) = "cancelled" => session[r].cancel
  BY <1>2, <1>3, FirstMessage DEF Of
<1>5. RunInv(session[r], process[r], thread[r], rest(n), orders[r])
  BY <1>2, MailTaken DEF Of
<1>6. /\ status(n) \in Status
      /\ status(n) = "completed" => thread[r].status = "completed"
      /\ status(n) = "cancelled" => session[r].cancel
  <2>1. CASE final(n)
    <3> DEFINE m == rest(n)
    <3>1. RunInv(session[r], process[r], thread[r], m, orders[r]) /\ m # <<>>
      BY <1>5, <2>1
    <3>2. status(n) = Head(m).status /\ Head(m).kind = "final"
      BY <2>1
    <3> HIDE DEF m
    <3> HIDE DEF status
    <3> QED BY <3>1, <3>2, FirstMessage
  <2>2. CASE ~final(n)
    BY <1>4, <2>2, FailureIsTrue
  <2> QED BY <2>1, <2>2
<1>7. RunInv(session[r], process[r], thread[r], <<>>, orders[r])
  BY MailLost DEF Of
<1> DEFINE failure == ~final(n)
<1>8. failure \in BOOLEAN
  OBVIOUS
<1> HIDE DEF status
<1>9. Becomes(r, [session[r] EXCEPT !.status = status(n), !.at = "ending", !.failure = failure],
              process[r], thread[r], <<>>, orders[r])
  BY <1>1, <1>2 DEF Becomes
<1> HIDE DEF failure
<1>10. Done(process[r], thread[r])
  BY <1>1 DEF Done
<1> QED BY <1>1, <1>6, <1>7, <1>8, <1>9, <1>10, FollowedMoves

(* The target is released at the end of the session.                       *)
LEMMA ReleaseKeeps ==
    ASSUME RuntimeInv, NEW r \in Runs, release(r)
    PROVE  RuntimeInv'
<1> USE Same
<1> DEFINE s == [session[r] EXCEPT !.at = "over"]
<1>1. s \in Sessions /\ s.at = "over" /\ s.status = session[r].status /\ s.cancel = session[r].cancel
      /\ s.failure = session[r].failure
  BY DEF Sessions
<1>2. Becomes(r, s, process[r], thread[r], <<>>, orders[r]) /\ owner' = NoRun
      /\ controls' = controls /\ session[r].at = "ending"
  BY DEF release, Becomes
<1> HIDE DEF s
<1>3. RunInv(session[r], process[r], thread[r], <<>>, orders[r])
  BY MailLost DEF Of
<1>4. process[r] # "none"
      /\ (~session[r].failure => Done(process[r], thread[r]))
      /\ (session[r].status = "completed" => thread[r].status = "completed")
      /\ (session[r].status = "cancelled" => session[r].cancel)
  BY <1>2 DEF Of, RunInv, WorkerFollowsSession, NotSpawned, LastWord, PastFollowed, CompletedIsKnown,
              CancelIsKnown
<1>5. RunInv(s, process[r], thread[r], <<>>, orders[r])
  BY <1>1, <1>3, <1>4, SessionMoves DEF NotSpawned, PastFollowed
<1>6. OwnerInv'
  BY <1>1, <1>2, OwnerFrees DEF Becomes, Holds
<1> QED BY <1>2, <1>5, <1>6, OneRunChanges DEF RuntimeInv, RunFunctions

(* A worker leaves or dies.                                                *)
LEMMA GoingKeeps ==
    ASSUME RuntimeInv, NEW r \in Runs, leave(r)
    PROVE  RuntimeInv'
<1> USE Same
<1> DEFINE t == [NotRun EXCEPT !.status = thread[r].status]
<1>1. Alive(r) /\ Gone(r) /\ UNCHANGED <<session, owner, mail, controls>>
  BY DEF leave, Alive
<1>2. Becomes(r, session[r], "gone", t, mail[r], <<>>) /\ RunInv(session[r], "gone", t, mail[r], <<>>)
  BY <1>1, GoneBecomes DEF Becomes
<1> HIDE DEF t
<1>3. OwnerInv'
  BY <1>1, OwnerStays DEF Holds
<1> QED BY <1>1, <1>2, <1>3, OneRunChanges DEF RuntimeInv, RunFunctions

(* The session is closed, its worker terminated again or not.              *)
LEMMA ClosingKeeps ==
    ASSUME RuntimeInv, NEW r \in Runs, join(r)
    PROVE  RuntimeInv'
<1> USE Same
<1> DEFINE s == [session[r] EXCEPT !.at = "closed"]
           t == [NotRun EXCEPT !.status = thread[r].status]
<1>1. /\ session[r].at = "over" /\ session' = [session EXCEPT ![r] = s] /\ UNCHANGED <<owner, mail, controls>>
      /\ (Alive(r) /\ Gone(r)) \/ UNCHANGED <<process, thread, orders>>
  BY DEF join, terminate_tree
<1>2. s \in Sessions /\ s.at = "closed" /\ s.status = session[r].status /\ s.cancel = session[r].cancel
      /\ s.failure = session[r].failure
  BY DEF Sessions
<1> HIDE DEF s
<1>3. ASSUME NEW p, NEW n, NEW o, RunInv(session[r], p, n, mail[r], o)
      PROVE  RunInv(s, p, n, mail[r], o)
  <2>1. /\ p # "none"
        /\ ~session[r].failure => Done(p, n)
        /\ session[r].status = "completed" => n.status = "completed"
        /\ session[r].status = "cancelled" => session[r].cancel
    BY <1>1, <1>3 DEF RunInv, WorkerFollowsSession, NotSpawned, LastWord, PastFollowed, CompletedIsKnown,
                      CancelIsKnown
  <2> QED BY <1>2, <1>3, <2>1, SessionMoves DEF NotSpawned
<1>4. OwnerInv'
  BY <1>1, <1>2, OwnerStays DEF Holds
<1>5. ASSUME Alive(r), Gone(r) PROVE RuntimeInv'
  <2>1. Becomes(r, s, "gone", t, mail[r], <<>>) /\ RunInv(session[r], "gone", t, mail[r], <<>>)
    BY <1>1, <1>5, GoneBecomes DEF Becomes
  <2> HIDE DEF t
  <2> QED BY <1>1, <1>3, <1>4, <2>1, OneRunChanges DEF RuntimeInv, RunFunctions
<1>6. ASSUME UNCHANGED <<process, thread, orders>> PROVE RuntimeInv'
  <2>1. Becomes(r, s, process[r], thread[r], mail[r], orders[r])
    BY <1>1, <1>6 DEF Becomes
  <2> QED BY <1>1, <1>3, <1>4, <2>1, OneRunChanges DEF RuntimeInv, RunFunctions, Of
<1> QED BY <1>1, <1>5, <1>6

----------------------------------------------------------------------------
(* The program takes a step of its own: nothing else changes.              *)
LEMMA ProgramMoves ==
    ASSUME RuntimeInv, NEW r \in Runs, NEW n \in Threads, Alive(r),
           thread' = [thread EXCEPT ![r] = n],
           UNCHANGED <<session, owner, process, mail, orders, controls>>,
           thread[r].at # "finished",
           thread[r].status = "completed" => n.status = "completed",
           n.status = "completed" => n.at \in {"closing", "finished"},
           n.status = "cancelled" => session[r].cancel,
           n.cancel => session[r].cancel
    PROVE  RuntimeInv'
<1> USE Same
<1>1. Becomes(r, session[r], process[r], n, mail[r], orders[r])
  BY DEF Becomes
<1>2. RunInv(session[r], process[r], n, mail[r], orders[r])
  BY ThreadMoves DEF Of, Alive
<1>3. OwnerInv'
  BY OwnerStays DEF Holds
<1> QED BY <1>1, <1>2, <1>3, OneRunChanges DEF RuntimeInv, RunFunctions

(* A program that has not ended is not completed, and its cancellation is  *)
(* on record.                                                              *)
LEMMA ProgramKnown ==
    ASSUME RuntimeInv, NEW r \in Runs, Alive(r)
    PROVE  /\ thread[r].at \notin {"closing", "finished"} => thread[r].status # "completed"
           /\ thread[r].status = "cancelled" \/ thread[r].cancel => session[r].cancel
BY Same DEF Alive, Of, RunInv, CompletedIsKnown, CancelIsKnown

(* The steps of the program's thread.                                      *)
LEMMA ExecutingKeeps ==
    ASSUME RuntimeInv, NEW r \in Runs, Executing(r)
    PROVE  RuntimeInv'
<1> USE Same, ProgramKnown
<1>1. CASE run_begins(r)
  <2> DEFINE n == [thread[r] EXCEPT !.at = "executing", !.status = "running"]
  <2>1. n \in Threads /\ n.at = "executing" /\ n.status = "running" /\ n.cancel = thread[r].cancel
    BY DEF Threads, Status
  <2>2. Alive(r) /\ thread[r].at = "none" /\ UNCHANGED <<session, owner, process, mail, orders, controls>>
        /\ thread' = [thread EXCEPT ![r] = n]
    BY <1>1 DEF run_begins, Alive
  <2> HIDE DEF n
  <2> QED BY <2>1, <2>2, ProgramMoves
<1>2. CASE checkpoint(r)
  <2> DEFINE n == [thread[r] EXCEPT !.at = "pausing", !.status = "paused", !.pause = FALSE, !.step = FALSE]
  <2>1. n \in Threads /\ n.at = "pausing" /\ n.status = "paused" /\ n.cancel = thread[r].cancel
    BY DEF Threads, Status
  <2>2. Alive(r) /\ thread[r].at = "executing" /\ UNCHANGED <<session, owner, process, mail, orders, controls>>
        /\ thread' = [thread EXCEPT ![r] = n]
    BY <1>2 DEF checkpoint
  <2> HIDE DEF n
  <2> QED BY <2>1, <2>2, ProgramMoves
<1>3. CASE close_gate(r)
  <2> DEFINE n == [thread[r] EXCEPT !.at = "paused", !.gate = FALSE]
  <2>1. n \in Threads /\ n.at = "paused" /\ n.status = thread[r].status /\ n.cancel = thread[r].cancel
    BY DEF Threads
  <2>2. Alive(r) /\ thread[r].at = "pausing" /\ UNCHANGED <<session, owner, process, mail, orders, controls>>
        /\ thread' = [thread EXCEPT ![r] = n]
    BY <1>3 DEF close_gate
  <2> HIDE DEF n
  <2> QED BY <2>1, <2>2, ProgramMoves
<1>4. CASE pass_gate(r)
  <2> DEFINE at == IF thread[r].cancel THEN "closing" ELSE "executing"
             status == IF thread[r].cancel THEN "cancelled" ELSE "running"
             n == [thread[r] EXCEPT !.at = at, !.status = status]
  <2>1. n \in Threads /\ n.at = at /\ n.status = status /\ n.cancel = thread[r].cancel
    BY DEF Threads, Status, Ended
  <2>2. Alive(r) /\ thread[r].at = "paused" /\ UNCHANGED <<session, owner, process, mail, orders, controls>>
        /\ thread' = [thread EXCEPT ![r] = n]
    BY <1>4 DEF pass_gate
  <2> HIDE DEF n
  <2> QED BY <2>1, <2>2, ProgramMoves
<1>5. CASE \E status \in Ended : run_ends(r, status)
  <2>0. PICK status \in Ended : run_ends(r, status)
    BY <1>5
  <2> DEFINE n == [thread[r] EXCEPT !.at = "closing", !.status = status]
  <2>1. n \in Threads /\ n.at = "closing" /\ n.status = status /\ n.cancel = thread[r].cancel
    BY DEF Threads, Status
  <2>2. Alive(r) /\ thread[r].at = "executing" /\ UNCHANGED <<session, owner, process, mail, orders, controls>>
        /\ thread' = [thread EXCEPT ![r] = n] /\ (status = "cancelled" => thread[r].cancel)
    BY <2>0 DEF run_ends
  <2> HIDE DEF n
  <2> QED BY <2>1, <2>2, ProgramMoves
<1>6. CASE finish(r)
  <2> DEFINE n == [thread[r] EXCEPT !.at = "finished"]
  <2>1. n \in Threads /\ n.at = "finished" /\ n.status = thread[r].status /\ n.cancel = thread[r].cancel
    BY DEF Threads
  <2>2. Alive(r) /\ thread[r].at = "closing" /\ UNCHANGED <<session, owner, process, mail, orders, controls>>
        /\ thread' = [thread EXCEPT ![r] = n]
    BY <1>6 DEF finish
  <2> HIDE DEF n
  <2> QED BY <2>1, <2>2, ProgramMoves
<1> QED BY <1>1, <1>2, <1>3, <1>4, <1>5, <1>6 DEF Executing

(* The worker's main loop handles a command, or ends over it.              *)
LEMMA ObeyKeeps ==
    ASSUME RuntimeInv, NEW r \in Runs, obey(r)
    PROVE  RuntimeInv'
<1> USE Same
<1> DEFINE order == Head(orders[r])
<1>1. /\ process[r] = "running" /\ thread[r].at # "none" /\ orders[r] # <<>>
      /\ orders' = [orders EXCEPT ![r] = Tail(orders[r])]
      /\ UNCHANGED <<session, owner, controls>>
  BY DEF obey
<1>2. /\ RunInv(session[r], process[r], thread[r], mail[r], Tail(orders[r]))
      /\ order \in Commands /\ (order = "cancel" => session[r].cancel)
  <2> DEFINE o == orders[r]
  <2>1. RunInv(session[r], process[r], thread[r], mail[r], o) /\ o # <<>>
    BY <1>1 DEF Of
  <2>2. /\ RunInv(session[r], process[r], thread[r], mail[r], Tail(o))
        /\ Head(o) \in Commands /\ (Head(o) = "cancel" => session[r].cancel)
    <3> HIDE DEF o
    <3> QED BY <2>1, OrderTaken
  <2> QED BY <2>2
<1>3. OwnerInv'
  BY <1>1, OwnerStays DEF Holds
<1>4. CASE thread' = [thread EXCEPT ![r] = Obeyed(thread[r], order)] /\ UNCHANGED <<process, mail>>
  <2> DEFINE n == Obeyed(thread[r], order)
  <2>1. /\ n \in Threads /\ n.at = thread[r].at /\ n.status = thread[r].status
        /\ n.cancel => thread[r].cancel \/ order = "cancel"
    BY <1>2, ObeyedFields
  <2>2. Becomes(r, session[r], process[r], n, mail[r], Tail(orders[r]))
    BY <1>1, <1>4 DEF Becomes
  <2> HIDE DEF n
  <2>3. RunInv(session[r], process[r], n, mail[r], Tail(orders[r]))
    <3>1. /\ n.status = "completed" => n.at \in {"closing", "finished"}
          /\ n.status = "cancelled" \/ n.cancel => session[r].cancel
      BY <1>1, <1>2, <2>1, ProgramKnown DEF Alive
    <3> QED BY <1>1, <1>2, <2>1, <3>1, ThreadMoves
  <2> QED BY <1>1, <1>3, <2>2, <2>3, OneRunChanges DEF RuntimeInv, RunFunctions
<1>5. CASE /\ process' = [process EXCEPT ![r] = "leaving"]
           /\ mail' = [mail EXCEPT ![r] = Append(mail[r], [kind |-> "fatal"])]
           /\ UNCHANGED thread
  <2> DEFINE x == [kind |-> "fatal"]
  <2>1. x \in Messages /\ x.kind = "fatal"
    BY DEF Messages
  <2>2. Becomes(r, session[r], "leaving", thread[r], Append(mail[r], x), Tail(orders[r]))
    BY <1>1, <1>5 DEF Becomes
  <2> HIDE DEF x
  <2>3. Len(mail[r]) + 1 <= MailSize + 2
    BY <1>1, RuntimeAssumption DEF Of, RunInv, QueueIsBounded
  <2>4. RunInv(session[r], "leaving", thread[r], Append(mail[r], x), Tail(orders[r]))
    BY <1>1, <1>2, <2>1, <2>3, MailPut
  <2> QED BY <1>1, <1>3, <2>2, <2>4, OneRunChanges DEF RuntimeInv, RunFunctions
<1> QED BY <1>4, <1>5 DEF obey

(* The worker sends a snapshot, or its last messages.                      *)
LEMMA ReportKeeps ==
    ASSUME RuntimeInv, NEW r \in Runs, report(r)
    PROVE  RuntimeInv'
<1> USE Same
<1> DEFINE x == Snapshot(r)
           y == [kind |-> "final", status |-> thread[r].status]
<1>1. process[r] = "running" /\ UNCHANGED <<session, owner, thread, orders, controls>>
  BY DEF report
<1>2. /\ x \in Messages /\ x.kind = "state" /\ x.status = thread[r].status
      /\ y \in Messages /\ y.kind = "final" /\ y.status = thread[r].status
  BY DEF Snapshot, Messages, Threads
<1>3. OwnerInv'
  BY <1>1, OwnerStays DEF Holds
<1>4. Len(mail[r]) \in Nat /\ Len(mail[r]) <= MailSize /\ MailSize \in Nat
  BY <1>1, RuntimeAssumption DEF Of, RunInv, QueueIsBounded
<1>5. CASE terminal(r)
  <2> DEFINE m == IF Len(mail[r]) < MailSize THEN Append(mail[r], x) ELSE mail[r]
  <2>1. Becomes(r, session[r], "leaving", thread[r], Append(m, y), orders[r])
        /\ thread[r].at = "finished"
    BY <1>1, <1>5 DEF report, terminal, Becomes
  <2> HIDE DEF x, y
  <2>2. RunInv(session[r], "running", thread[r], m, orders[r]) /\ Len(m) <= MailSize
    <3>1. CASE Len(mail[r]) < MailSize
      <4>1. RunInv(session[r], "running", thread[r], Append(mail[r], x), orders[r])
        BY <1>1, <1>2, <1>4, <3>1, MailPut DEF Of
      <4> QED BY <3>1, <4>1 DEF RunInv, QueueIsBounded
    <3>2. CASE ~(Len(mail[r]) < MailSize)
      BY <1>1, <1>4, <3>2 DEF Of
    <3> QED BY <3>1, <3>2
  <2>3. Len(m) \in Nat
    BY <1>2, <1>4
  <2> HIDE DEF m
  <2>4. Len(m) + 1 <= MailSize + 2
    BY <1>4, <2>2, <2>3
  <2>5. RunInv(session[r], "leaving", thread[r], Append(m, y), orders[r])
    BY <1>2, <2>1, <2>2, <2>4, MailPut
  <2> QED BY <1>1, <1>3, <2>1, <2>5, OneRunChanges DEF RuntimeInv, RunFunctions
<1>6. CASE ~terminal(r)
  <2>1. /\ Len(mail[r]) < MailSize
        /\ Becomes(r, session[r], "running", thread[r], Append(mail[r], x), orders[r])
    BY <1>1, <1>6 DEF report, Put, Becomes
  <2> HIDE DEF x, y
  <2>2. RunInv(session[r], "running", thread[r], Append(mail[r], x), orders[r])
    BY <1>1, <1>2, <1>4, <2>1, MailPut DEF Of
  <2> QED BY <1>1, <1>3, <2>1, <2>2, OneRunChanges DEF RuntimeInv, RunFunctions
<1> QED BY <1>5, <1>6

----------------------------------------------------------------------------
(* Nothing has been started.                                               *)
LEMMA RuntimeStarts == RuntimeInit => RuntimeInv
<1> SUFFICES ASSUME RuntimeInit PROVE RuntimeInv
  OBVIOUS
<1>1. /\ NoSession \in Sessions /\ NoSession.at = "absent" /\ NoSession.status = "queued"
      /\ NotRun \in Threads /\ NotRun.status = "queued" /\ ~NotRun.cancel
  BY DEF NoSession, NotRun, Sessions, Threads, Status
<1>2. RunFunctions
  BY <1>1 DEF RunFunctions, RuntimeInit, Lives
<1>3. OwnerInv
  BY <1>1, RuntimeAssumption DEF OwnerInv, RuntimeInit, Holds
<1>4. RunInv(NoSession, "none", NotRun, <<>>, <<>>)
  BY <1>1, RuntimeAssumption
  DEF RunInv, RunTypes, Lives, WorkerFollowsSession, LastWord, QueueIsBounded, CompletedIsKnown,
      CancelIsKnown, NotSpawned, PastFollowed
<1> QED BY <1>2, <1>3, <1>4 DEF RuntimeInv, RuntimeInit

(* Every step of the parent, of a worker or of a program keeps it.         *)
LEMMA RuntimeKeeps == RuntimeInv /\ [RuntimeNext]_runtimeVars => RuntimeInv'
<1> SUFFICES ASSUME RuntimeInv, [RuntimeNext]_runtimeVars PROVE RuntimeInv'
  OBVIOUS
<1>1. CASE UNCHANGED runtimeVars
  BY <1>1 DEF runtimeVars, RuntimeInv, RunFunctions, OwnerInv, Holds
<1>2. CASE RuntimeNext
  <2>1. PICK r \in Runs :
           \/ start_session(r) \/ spawn(r) \/ spawn_fails(r)
           \/ \E order \in Controls : control(r, order)
           \/ Following(r) \/ Executing(r) \/ obey(r) \/ report(r) \/ leave(r)
    BY <1>2 DEF RuntimeNext
  <2>2. CASE start_session(r) \/ spawn(r) \/ spawn_fails(r)
    BY <2>2, BeginningKeeps
  <2>3. CASE \E order \in Controls : control(r, order)
    BY <2>3, ControlKeeps
  <2>4. CASE Following(r)
    BY <2>4, ReceiveKeeps, TerminateKeeps, WorkerGoneKeeps, ReleaseKeeps, ClosingKeeps DEF Following
  <2>5. CASE Executing(r)
    BY <2>5, ExecutingKeeps
  <2> QED BY <2>1, <2>2, <2>3, <2>4, <2>5, ObeyKeeps, ReportKeeps, GoingKeeps
<1> QED BY <1>1, <1>2

(* The invariant of the sessions, workers and programs, with the types of  *)
(* all of their state.                                                     *)
THEOREM RunsAreConsistent == RuntimeSpec => []RuntimeInv
BY RuntimeStarts, RuntimeKeeps, PTL DEF RuntimeSpec

(* The messages of a worker stay within its queue and its two last ones,   *)
(* and every status is one.                                                *)
THEOREM RuntimeTypes == RuntimeSpec => []RuntimeTypeOK
<1>1. RuntimeInv => RuntimeTypeOK
  BY DEF RuntimeInv, RunFunctions, OwnerInv, RuntimeTypeOK, RunInv, QueueIsBounded, Sessions,
         Threads, Lives
<1> QED BY <1>1, RunsAreConsistent, PTL

(* A run is shown as completed only if its program ran to its end, and as   *)
(* cancelled only if somebody cancelled it, however the snapshots of the   *)
(* worker, its death and the parent's timeouts fall.                        *)
THEOREM EndsAreReported == RuntimeSpec => []EndsAreTrue
<1>1. RuntimeInv => EndsAreTrue
  BY DEF RuntimeInv, RunInv, CompletedIsKnown, CancelIsKnown, EndsAreTrue
<1> QED BY <1>1, RunsAreConsistent, PTL

(* A program at work owns its target, so that no second one is let in:      *)
(* start_session waits for the owner to let go, and the owner lets go when  *)
(* the worker has said that its drivers are closed.  The exception is the   *)
(* worker of a session that ended in a failure: its target is released      *)
(* before it is known to be dead.                                           *)
THEOREM TargetsAreExclusive == RuntimeSpec => []OneProgramPerTarget
<1>1. RuntimeInv => OneProgramPerTarget
  <2> SUFFICES ASSUME RuntimeInv, NEW r \in Runs, Working(r)
               PROVE  owner = r \/ GivenUp(r)
    BY DEF OneProgramPerTarget
  <2>1. process[r] # "none" /\ ~Done(process[r], thread[r])
    BY DEF Working, Alive, Done
  <2>2. session[r].at \in {"followed", "ending", "over", "closed"}
    BY <2>1, Same DEF Of, RunInv, WorkerFollowsSession, NotSpawned, Sessions
  <2>3. CASE session[r].at \in {"followed", "ending"}
    BY <2>3 DEF RuntimeInv, OwnerInv, Holds
  <2>4. CASE session[r].at \in {"over", "closed"}
    <3>1. session[r].failure
      BY <2>1, <2>4, Same DEF Of, RunInv, LastWord, PastFollowed
    <3> QED BY <2>4, <3>1 DEF GivenUp
  <2> QED BY <2>2, <2>3, <2>4
<1> QED BY <1>1, RunsAreConsistent, PTL

----------------------------------------------------------------------------
(***************************************************************************)
(* Recordings.                                                             *)
(***************************************************************************)

\* Where a number is: in the index of frames or on its way to it, in a gap or
\* in a drop that will be one, or in the hands of the capture thread.
InWriter == IF writer.at = "writing" THEN {writer.frame} ELSE {}
OnRecord == ToSet(frames) \cup InWriter \cup (ToSet(waiting) \ {0})
Lost == gaps \cup pending.policy \cup pending.backpressure
InHand == IF capturer.at \in {"handle", "put"} THEN {capturer.frame} ELSE {}

CaptureSteps == {"loop", "handle", "put", "flush", "drain", "join", "finish", "ended"}

FlowTypes ==
    /\ strategy \in {"all_frames", "changed_frames"}
    /\ captured \in Nat
    /\ capturer \in [at : CaptureSteps, frame : Nat, errors : Nat]
    /\ writer \in [at : {"idle", "writing", "ended"}, frame : Nat]
    /\ waiting \in Seq(Nat) /\ frames \in Seq(Nat)
    /\ pending \in [policy : SUBSET Nat, backpressure : SUBSET Nat]

\* Every number is in one of the three places.
NothingForgotten ==
    /\ OnRecord \cup Lost \cup InHand = 1..captured
    /\ OnRecord \cap Lost = {} /\ OnRecord \cap InHand = {} /\ Lost \cap InHand = {}
    /\ submitted \subseteq OnRecord

\* The request to end is the last thing the writer gets, and the recording is
\* sealed after the writer has taken it.
EndInOrder ==
    /\ \A i \in DOMAIN waiting :
          waiting[i] = 0 => i = Len(waiting) /\ capturer.at \in {"join", "finish", "ended"}
    /\ writer.at = "ended" => waiting = <<>> /\ capturer.at \in {"join", "finish", "ended"}
    /\ capturer.at \in {"drain", "join", "finish", "ended"} => pending = NoPending
    /\ capturer.at \in {"finish", "ended"} => writer.at = "ended"
    /\ seal => capturer.at = "ended"

FlowInv == FlowTypes /\ NothingForgotten /\ EndInOrder

RecorderInv == strategy # "diagnostic" /\ trouble = {} => FlowInv

----------------------------------------------------------------------------
(* The numbers in a queue after one is put in or taken out.                *)
LEMMA SetOfAppend ==
    ASSUME NEW s \in Seq(Nat), NEW x \in Nat
    PROVE  ToSet(Append(s, x)) = ToSet(s) \cup {x}
<1> DEFINE n == Append(s, x)
<1>1. n \in Seq(Nat) /\ DOMAIN n = DOMAIN s \cup {Len(s) + 1} /\ n[Len(s) + 1] = x
      /\ \A i \in DOMAIN s : n[i] = s[i]
  OBVIOUS
<1> HIDE DEF n
<1>2. {n[i] : i \in DOMAIN n} = {s[i] : i \in DOMAIN s} \cup {x}
  BY <1>1
<1> QED BY <1>2 DEF ToSet, n

(* The first number of a queue and the others.                             *)
LEMMA SetOfTail ==
    ASSUME NEW s \in Seq(Nat), s # <<>>
    PROVE  ToSet(s) = {Head(s)} \cup ToSet(Tail(s))
<1> DEFINE n == Tail(s)
<1>1. /\ n \in Seq(Nat) /\ Len(n) = Len(s) - 1 /\ Len(s) \in Nat \ {0} /\ Head(s) = s[1]
      /\ DOMAIN n = 1..Len(n) /\ DOMAIN s = 1..Len(s)
      /\ \A i \in DOMAIN n : n[i] = s[i + 1]
  OBVIOUS
<1> HIDE DEF n
<1>2. ASSUME NEW i \in DOMAIN s, i # 1 PROVE i - 1 \in DOMAIN n /\ n[i - 1] = s[i]
  <2>1. i \in 1..Len(s) /\ i - 1 \in 1..Len(n) /\ (i - 1) + 1 = i
    BY <1>1, <1>2
  <2> QED BY <1>1, <2>1
<1>3. \A i \in DOMAIN n : i + 1 \in DOMAIN s /\ n[i] = s[i + 1]
  BY <1>1
<1>4. 1 \in DOMAIN s
  BY <1>1
<1>5. ASSUME NEW i \in DOMAIN s PROVE s[i] \in {Head(s)} \cup {n[j] : j \in DOMAIN n}
  <2>1. CASE i = 1
    BY <1>1, <2>1
  <2>2. CASE i # 1
    <3>1. i - 1 \in DOMAIN n /\ n[i - 1] = s[i]
      BY <1>2, <2>2
    <3>2. s[i] \in {n[j] : j \in DOMAIN n}
      BY <3>1, Zenon
    <3> QED BY <3>2
  <2> QED BY <2>1, <2>2
<1>6. ASSUME NEW i \in DOMAIN n PROVE n[i] \in {s[j] : j \in DOMAIN s}
  <2>1. i + 1 \in DOMAIN s /\ n[i] = s[i + 1]
    BY <1>3
  <2> QED BY <2>1, Zenon
<1>7. Head(s) \in {s[j] : j \in DOMAIN s}
  BY <1>1, <1>4, Zenon
<1>8. {s[j] : j \in DOMAIN s} = {Head(s)} \cup {n[j] : j \in DOMAIN n}
  BY <1>5, <1>6, <1>7
<1> QED BY <1>8 DEF ToSet, n

(* The strategy is chosen once, and trouble is never forgotten.            *)
LEMMA TroubleStays ==
    ASSUME RecorderNext
    PROVE  strategy' = strategy /\ trouble \subseteq trouble'
BY DEF RecorderNext, capture_packet, handle_packet, put_packet, capture_loop_ends, flush_ring,
       drain_writer, join_writer, _finish, writer_takes, write_packet, write_fails, mark_event,
       request_stop, recorder_dies, recover_session

(* A new number is in the hands of the capture thread.                     *)
LEMMA CaptureKeeps ==
    ASSUME FlowInv, capture_packet, trouble' = {}
    PROVE  FlowInv'
<1>1. /\ capturer.at = "loop" /\ captured' = captured + 1 /\ captured \in Nat
      /\ capturer' = [at |-> "handle", frame |-> captured + 1, errors |-> 0]
      /\ UNCHANGED <<strategy, writer, waiting, submitted, pending, frames, gaps, seal>>
  BY DEF capture_packet, FlowInv, FlowTypes, flow
<1>2. OnRecord' = OnRecord /\ Lost' = Lost /\ InHand = {} /\ InHand' = {captured + 1}
  BY <1>1 DEF OnRecord, Lost, InHand, InWriter, ToSet
<1>3. FlowTypes'
  BY <1>1 DEF FlowInv, FlowTypes, CaptureSteps
<1>4. 1..(captured + 1) = (1..captured) \cup {captured + 1} /\ captured + 1 \notin 1..captured
  BY <1>1
<1>5. NothingForgotten'
  BY <1>1, <1>2, <1>4 DEF FlowInv, NothingForgotten
<1>6. EndInOrder'
  BY <1>1 DEF FlowInv, EndInOrder
<1> QED BY <1>3, <1>5, <1>6 DEF FlowInv

(* _handle_packet: the number is kept in hand, or belongs to a drop.       *)
LEMMA HandleKeeps ==
    ASSUME FlowInv, NEW changed \in BOOLEAN, handle_packet(changed)
    PROVE  FlowInv'
<1> DEFINE keep == strategy = "all_frames" \/ (strategy = "changed_frames" /\ changed)
           n == capturer.frame
<1>1. /\ capturer.at = "handle" /\ strategy # "diagnostic" /\ n \in Nat
      /\ capturer \in [at : CaptureSteps, frame : Nat, errors : Nat]
      /\ pending \in [policy : SUBSET Nat, backpressure : SUBSET Nat]
  BY DEF handle_packet, FlowInv, FlowTypes
<1>2. n \notin submitted /\ InHand = {n}
  BY <1>1 DEF FlowInv, NothingForgotten, InHand
<1>3. /\ gaps' = IF keep THEN gaps \cup pending.policy ELSE gaps
      /\ pending' = [pending EXCEPT !.policy = IF keep THEN {} ELSE pending.policy \cup {n}]
      /\ capturer' = [capturer EXCEPT !.at = IF keep THEN "put" ELSE "loop"]
      /\ UNCHANGED <<strategy, captured, writer, waiting, submitted, frames, seal>>
  BY <1>1, <1>2 DEF handle_packet
<1>4. /\ capturer' \in [at : CaptureSteps, frame : Nat, errors : Nat] /\ capturer'.frame = n
      /\ capturer'.at = IF keep THEN "put" ELSE "loop"
  BY <1>1, <1>3 DEF CaptureSteps
<1>5. /\ pending' \in [policy : SUBSET Nat, backpressure : SUBSET Nat]
      /\ pending'.policy = (IF keep THEN {} ELSE pending.policy \cup {n})
      /\ pending'.backpressure = pending.backpressure
  BY <1>1, <1>3
<1>6. OnRecord' = OnRecord
  BY <1>3 DEF OnRecord, InWriter, ToSet
<1>7. Lost' = (IF keep THEN Lost ELSE Lost \cup {n}) /\ InHand' = (IF keep THEN {n} ELSE {})
  BY <1>3, <1>4, <1>5 DEF Lost, InHand
<1>8. NothingForgotten'
  BY <1>2, <1>3, <1>6, <1>7 DEF FlowInv, NothingForgotten
<1>9. FlowTypes'
  BY <1>3, <1>4, <1>5 DEF FlowInv, FlowTypes
<1>10. EndInOrder'
  BY <1>1, <1>3, <1>4 DEF FlowInv, EndInOrder
<1> QED BY <1>8, <1>9, <1>10 DEF FlowInv

(* _submit: the queue takes the number, or it belongs to the drop.         *)
LEMMA PutKeeps ==
    ASSUME FlowInv, put_packet
    PROVE  FlowInv'
<1> DEFINE n == capturer.frame
           takes == Len(waiting) < WriterQueue
<1>1. /\ capturer.at = "put" /\ n \in Nat
      /\ capturer \in [at : CaptureSteps, frame : Nat, errors : Nat]
      /\ pending \in [policy : SUBSET Nat, backpressure : SUBSET Nat]
      /\ waiting \in Seq(Nat)
  BY DEF put_packet, FlowInv, FlowTypes
<1>2. InHand = {n} /\ n # 0
  BY <1>1 DEF FlowInv, FlowTypes, NothingForgotten, InHand
<1>3. /\ capturer' = [capturer EXCEPT !.at = "loop"]
      /\ UNCHANGED <<strategy, captured, writer, frames, seal>>
      /\ PutInto(n)
  BY DEF put_packet
<1>4. capturer' \in [at : CaptureSteps, frame : Nat, errors : Nat] /\ capturer'.at = "loop"
      /\ InHand' = {}
  BY <1>1, <1>3 DEF CaptureSteps, InHand
<1>5. CASE takes
  <2>1. /\ waiting' = Append(waiting, n) /\ submitted' = submitted \cup {n}
        /\ gaps' = gaps \cup pending.backpressure
        /\ pending' = [pending EXCEPT !.backpressure = {}]
    BY <1>3, <1>5 DEF PutInto
  <2>2. /\ pending' \in [policy : SUBSET Nat, backpressure : SUBSET Nat]
        /\ pending'.policy = pending.policy /\ pending'.backpressure = {}
    BY <1>1, <2>1
  <2>3. ToSet(waiting)' = ToSet(waiting) \cup {n} /\ ToSet(frames)' = ToSet(frames)
    BY <1>1, <1>3, <2>1, SetOfAppend
  <2>4. OnRecord' = OnRecord \cup {n} /\ Lost' = Lost
    BY <1>2, <1>3, <2>1, <2>2, <2>3 DEF OnRecord, InWriter, Lost
  <2>5. NothingForgotten'
    BY <1>2, <1>3, <1>4, <2>1, <2>4 DEF FlowInv, NothingForgotten
  <2>6. FlowTypes'
    <3>1. waiting' \in Seq(Nat)
      BY <1>1, <2>1
    <3> QED BY <1>3, <1>4, <2>2, <3>1 DEF FlowInv, FlowTypes
  <2>7. \A i \in DOMAIN waiting' : waiting'[i] # 0
    BY <1>1, <1>2, <2>1 DEF FlowInv, EndInOrder
  <2>8. EndInOrder'
    BY <1>1, <1>3, <1>4, <2>7 DEF FlowInv, EndInOrder
  <2> QED BY <2>5, <2>6, <2>8 DEF FlowInv
<1>6. CASE ~takes
  <2>1. /\ UNCHANGED <<waiting, submitted, gaps>>
        /\ pending' = [pending EXCEPT !.backpressure = pending.backpressure \cup {n}]
    BY <1>3, <1>6 DEF PutInto, Overflowed
  <2>2. /\ pending' \in [policy : SUBSET Nat, backpressure : SUBSET Nat]
        /\ pending'.policy = pending.policy /\ pending'.backpressure = pending.backpressure \cup {n}
    BY <1>1, <2>1
  <2>3. OnRecord' = OnRecord /\ Lost' = Lost \cup {n}
    BY <1>3, <2>1, <2>2 DEF OnRecord, InWriter, Lost, ToSet
  <2>4. NothingForgotten'
    BY <1>2, <1>3, <1>4, <2>1, <2>3 DEF FlowInv, NothingForgotten
  <2>5. FlowTypes'
    BY <1>1, <1>3, <1>4, <2>1, <2>2 DEF FlowInv, FlowTypes
  <2>6. EndInOrder'
    BY <1>1, <1>3, <1>4, <2>1 DEF FlowInv, EndInOrder
  <2> QED BY <2>4, <2>5, <2>6 DEF FlowInv
<1> QED BY <1>5, <1>6

(* The capture thread moves on with nothing in hand.                       *)
LEMMA CapturerMoves ==
    ASSUME FlowInv, NEW at \in CaptureSteps \ {"handle", "put"},
           capturer.at \notin {"handle", "put"}, capturer' = [capturer EXCEPT !.at = at],
           UNCHANGED <<strategy, captured, writer, submitted, frames>>,
           waiting' \in Seq(Nat), ToSet(waiting)' \ {0} = ToSet(waiting) \ {0},
           pending' \in [policy : SUBSET Nat, backpressure : SUBSET Nat], Lost' = Lost
    PROVE  FlowTypes' /\ NothingForgotten' /\ capturer'.at = at
<1>1. capturer \in [at : CaptureSteps, frame : Nat, errors : Nat]
  BY DEF FlowInv, FlowTypes
<1>2. capturer' \in [at : CaptureSteps, frame : Nat, errors : Nat] /\ capturer'.at = at
  BY <1>1
<1>3. FlowTypes'
  BY <1>2 DEF FlowInv, FlowTypes
<1>4. InHand = {} /\ InHand' = {}
  BY <1>2 DEF InHand
<1>5. ToSet(frames)' = ToSet(frames) /\ InWriter' = InWriter
  BY DEF ToSet, InWriter
<1>6. OnRecord' = OnRecord
  BY <1>5 DEF OnRecord
<1>7. NothingForgotten'
  BY <1>4, <1>6 DEF FlowInv, NothingForgotten
<1> QED BY <1>2, <1>3, <1>7

(* The loop of the capture thread ends.                                    *)
LEMMA LoopEndKeeps ==
    ASSUME FlowInv, capture_loop_ends
    PROVE  FlowInv'
<1>1. /\ capturer.at = "loop" /\ capturer' = [capturer EXCEPT !.at = "flush"]
      /\ UNCHANGED <<strategy, captured, writer, waiting, submitted, pending, frames, gaps, seal>>
  BY DEF capture_loop_ends, flow
<1>2. FlowTypes' /\ NothingForgotten' /\ capturer'.at = "flush"
  <2>1. Lost' = Lost /\ ToSet(waiting)' = ToSet(waiting)
    BY <1>1 DEF Lost, ToSet
  <2> QED BY <1>1, <2>1, CapturerMoves DEF CaptureSteps, FlowInv, FlowTypes
<1>3. EndInOrder'
  BY <1>1, <1>2 DEF FlowInv, EndInOrder
<1> QED BY <1>2, <1>3 DEF FlowInv

(* The end of the capture thread's loop: the pending drops become gaps.     *)
LEMMA FlushKeeps ==
    ASSUME FlowInv, flush_ring
    PROVE  FlowInv'
<1>1. /\ capturer.at = "flush" /\ capturer' = [capturer EXCEPT !.at = "drain"]
      /\ gaps' = gaps \cup pending.policy \cup pending.backpressure /\ pending' = NoPending
      /\ UNCHANGED <<strategy, captured, writer, waiting, submitted, frames, seal>>
  BY DEF flush_ring, FlowInv, FlowTypes
<1>2. NoPending \in [policy : SUBSET Nat, backpressure : SUBSET Nat]
      /\ NoPending.policy = {} /\ NoPending.backpressure = {}
  BY DEF NoPending
<1>3. Lost' = Lost
  BY <1>1, <1>2 DEF Lost
<1>4. FlowTypes' /\ NothingForgotten' /\ capturer'.at = "drain"
  <2>1. ToSet(waiting)' = ToSet(waiting) /\ waiting' \in Seq(Nat)
    BY <1>1 DEF ToSet, FlowInv, FlowTypes
  <2> QED BY <1>1, <1>2, <1>3, <2>1, CapturerMoves DEF CaptureSteps
<1>5. EndInOrder'
  BY <1>1, <1>4 DEF FlowInv, EndInOrder
<1> QED BY <1>4, <1>5 DEF FlowInv

(* _drain_writer: the request to end goes behind everything else.          *)
LEMMA DrainKeeps ==
    ASSUME FlowInv, drain_writer, trouble' = {}
    PROVE  FlowInv'
<1>1. writer.at \in {"idle", "writing"}
  BY DEF FlowInv, FlowTypes, EndInOrder, drain_writer
<1>2. /\ capturer.at = "drain" /\ capturer' = [capturer EXCEPT !.at = "join"]
      /\ waiting' = Append(waiting, 0) /\ waiting \in Seq(Nat)
      /\ UNCHANGED <<strategy, captured, writer, submitted, pending, frames, gaps, seal>>
  BY <1>1 DEF drain_writer, WriterDone, FlowInv, FlowTypes
<1>3. waiting' \in Seq(Nat) /\ ToSet(waiting)' = ToSet(waiting) \cup {0}
  BY <1>2, SetOfAppend
<1>4. FlowTypes' /\ NothingForgotten' /\ capturer'.at = "join"
  <2>1. Lost' = Lost
    BY <1>2 DEF Lost
  <2> QED BY <1>2, <1>3, <2>1, CapturerMoves DEF CaptureSteps, FlowInv, FlowTypes
<1>5. \A i \in DOMAIN waiting' : waiting'[i] = 0 => i = Len(waiting')
  BY <1>2 DEF FlowInv, EndInOrder
<1>6. EndInOrder'
  BY <1>1, <1>2, <1>4, <1>5 DEF FlowInv, EndInOrder
<1> QED BY <1>4, <1>6 DEF FlowInv

(* The writer has ended, and the recording is sealed.                      *)
LEMMA JoinKeeps ==
    ASSUME FlowInv, join_writer, trouble' = {}
    PROVE  FlowInv'
<1>1. /\ capturer.at = "join" /\ capturer' = [capturer EXCEPT !.at = "finish"]
      /\ writer.at = "ended"
      /\ UNCHANGED <<strategy, captured, writer, waiting, submitted, pending, frames, gaps, seal>>
  BY DEF join_writer, flow, WriterDone, FlowInv, FlowTypes
<1>2. FlowTypes' /\ NothingForgotten' /\ capturer'.at = "finish"
  <2>1. Lost' = Lost /\ ToSet(waiting)' = ToSet(waiting)
    BY <1>1 DEF Lost, ToSet
  <2> QED BY <1>1, <2>1, CapturerMoves DEF CaptureSteps, FlowInv, FlowTypes
<1>3. EndInOrder'
  BY <1>1, <1>2 DEF FlowInv, EndInOrder
<1> QED BY <1>2, <1>3 DEF FlowInv

(* _finish seals the recording.                                            *)
LEMMA FinishKeeps ==
    ASSUME FlowInv, _finish
    PROVE  FlowInv'
<1>1. /\ capturer.at = "finish" /\ capturer' = [capturer EXCEPT !.at = "ended"]
      /\ UNCHANGED <<strategy, captured, writer, waiting, submitted, pending, frames, gaps>>
  BY DEF _finish, flow
<1>2. FlowTypes' /\ NothingForgotten' /\ capturer'.at = "ended"
  <2>1. Lost' = Lost /\ ToSet(waiting)' = ToSet(waiting)
    BY <1>1 DEF Lost, ToSet
  <2> QED BY <1>1, <2>1, CapturerMoves DEF CaptureSteps, FlowInv, FlowTypes
<1>3. EndInOrder'
  BY <1>1, <1>2 DEF FlowInv, EndInOrder
<1> QED BY <1>2, <1>3 DEF FlowInv

(* The writer moves a number along and drops none.                         *)
LEMMA WriterKeeps ==
    ASSUME FlowInv, writer_takes \/ write_packet
    PROVE  FlowInv'
<1>0. /\ writer \in [at : {"idle", "writing", "ended"}, frame : Nat]
      /\ waiting \in Seq(Nat) /\ frames \in Seq(Nat)
  BY DEF FlowInv, FlowTypes
<1>1. CASE writer_takes
  <2>1. /\ writer.at = "idle" /\ waiting # <<>> /\ waiting' = Tail(waiting)
        /\ writer' = IF Head(waiting) = 0 THEN [at |-> "ended", frame |-> 0]
                     ELSE [at |-> "writing", frame |-> Head(waiting)]
        /\ UNCHANGED <<strategy, captured, capturer, submitted, pending, frames, gaps, seal>>
    BY <1>1 DEF writer_takes
  <2>2. Head(waiting) \in Nat /\ waiting' \in Seq(Nat)
    BY <1>0, <2>1
  <2>3. FlowTypes'
    BY <2>1, <2>2 DEF FlowInv, FlowTypes
  <2>4. ToSet(waiting) = {Head(waiting)} \cup ToSet(waiting)' /\ ToSet(frames)' = ToSet(frames)
    BY <1>0, <2>1, SetOfTail
  <2>5. InWriter = {} /\ InWriter' = IF Head(waiting) = 0 THEN {} ELSE {Head(waiting)}
    BY <2>1 DEF InWriter
  <2>6. OnRecord' = OnRecord
    BY <2>4, <2>5 DEF OnRecord
  <2>7. NothingForgotten'
    BY <2>1, <2>6 DEF FlowInv, NothingForgotten, Lost, InHand
  <2>8. /\ 1 \in DOMAIN waiting /\ Head(waiting) = waiting[1] /\ Len(waiting) \in Nat
        /\ Len(waiting') = Len(waiting) - 1
        /\ \A i \in DOMAIN waiting' : i + 1 \in DOMAIN waiting /\ waiting'[i] = waiting[i + 1]
    BY <1>0, <2>1
  <2>9. Head(waiting) = 0 => waiting' = <<>> /\ capturer.at \in {"join", "finish", "ended"}
    <3> SUFFICES ASSUME Head(waiting) = 0
                 PROVE  waiting' = <<>> /\ capturer.at \in {"join", "finish", "ended"}
      OBVIOUS
    <3>1. Len(waiting) = 1 /\ capturer.at \in {"join", "finish", "ended"}
      BY <2>8 DEF FlowInv, EndInOrder
    <3>2. Len(waiting') = 1 - 1
      BY <2>8, <3>1, Zenon
    <3>3. Len(waiting') = 0
      BY <3>2
    <3> QED BY <2>2, <3>1, <3>3
  <2>10. \A i \in DOMAIN waiting' :
            waiting'[i] = 0 => i = Len(waiting') /\ capturer.at \in {"join", "finish", "ended"}
    <3> SUFFICES ASSUME NEW i \in DOMAIN waiting', waiting'[i] = 0
                 PROVE  i = Len(waiting') /\ capturer.at \in {"join", "finish", "ended"}
      OBVIOUS
    <3>1. i + 1 = Len(waiting) /\ capturer.at \in {"join", "finish", "ended"}
      BY <2>8 DEF FlowInv, EndInOrder
    <3>2. i \in Nat
      BY <2>2
    <3> QED BY <2>8, <3>1, <3>2
  <2>11. EndInOrder'
    BY <2>1, <2>9, <2>10 DEF FlowInv, EndInOrder
  <2> QED BY <2>3, <2>7, <2>11 DEF FlowInv
<1>2. CASE write_packet
  <2>1. /\ writer.at = "writing" /\ frames' = Append(frames, writer.frame)
        /\ submitted' = submitted \cup {writer.frame} /\ writer' = [at |-> "idle", frame |-> 0]
        /\ UNCHANGED <<strategy, captured, capturer, waiting, pending, gaps, seal>>
    BY <1>2 DEF write_packet
  <2>2. writer.frame \in Nat /\ frames' \in Seq(Nat)
    BY <1>0, <2>1
  <2>3. FlowTypes'
    BY <2>1, <2>2 DEF FlowInv, FlowTypes
  <2>4. ToSet(frames)' = ToSet(frames) \cup {writer.frame} /\ ToSet(waiting)' = ToSet(waiting)
    BY <1>0, <2>1, <2>2, SetOfAppend
  <2>5. InWriter = {writer.frame} /\ InWriter' = {}
    BY <2>1 DEF InWriter
  <2>6. OnRecord' = OnRecord /\ writer.frame \in OnRecord
    BY <2>4, <2>5 DEF OnRecord
  <2>7. NothingForgotten'
    BY <2>1, <2>6 DEF FlowInv, NothingForgotten, Lost, InHand
  <2>8. EndInOrder'
    BY <2>1 DEF FlowInv, EndInOrder
  <2> QED BY <2>3, <2>7, <2>8 DEF FlowInv
<1> QED BY <1>1, <1>2

(* A marker or a request to stop takes no number from its place.           *)
LEMMA UserKeeps ==
    ASSUME FlowInv, mark_event \/ request_stop
    PROVE  FlowInv'
<1>1. UNCHANGED <<strategy, captured, capturer, writer, waiting, submitted, pending, frames, gaps, seal>>
  BY DEF mark_event, request_stop, flow, FlowInv, FlowTypes
<1>2. FlowTypes'
  BY <1>1 DEF FlowInv, FlowTypes
<1>3. NothingForgotten'
  BY <1>1 DEF FlowInv, NothingForgotten, OnRecord, InWriter, Lost, InHand, ToSet
<1>4. EndInOrder'
  BY <1>1 DEF FlowInv, EndInOrder
<1> QED BY <1>2, <1>3, <1>4 DEF FlowInv

----------------------------------------------------------------------------
(* The first frame is on record before the threads start.                  *)
LEMMA RecorderStarts == RecorderInit => RecorderInv
<1> SUFFICES ASSUME RecorderInit, strategy # "diagnostic" PROVE FlowInv
  BY DEF RecorderInv
<1>1. /\ captured = 1 /\ capturer = [at |-> "loop", frame |-> 0, errors |-> 0]
      /\ writer = [at |-> "idle", frame |-> 0] /\ waiting = <<>> /\ submitted = {1}
      /\ pending = NoPending /\ frames = <<1>> /\ gaps = {} /\ ~seal
      /\ strategy \in {"all_frames", "changed_frames"}
  BY RecorderAssumption DEF RecorderInit
<1>2. NoPending \in [policy : SUBSET Nat, backpressure : SUBSET Nat]
      /\ NoPending.policy = {} /\ NoPending.backpressure = {}
  BY DEF NoPending
<1>3. FlowTypes
  BY <1>1, <1>2 DEF FlowTypes, CaptureSteps
<1>4. ToSet(frames) = {1} /\ ToSet(waiting) = {}
  BY <1>1 DEF ToSet
<1>5. OnRecord = {1} /\ Lost = {} /\ InHand = {}
  BY <1>1, <1>2, <1>4 DEF OnRecord, InWriter, Lost, InHand
<1>6. 1..captured = {1}
  BY <1>1
<1>7. NothingForgotten
  BY <1>1, <1>5, <1>6 DEF NothingForgotten
<1>8. EndInOrder
  BY <1>1 DEF EndInOrder
<1> QED BY <1>3, <1>7, <1>8 DEF FlowInv

(* Every step keeps it; the steps that fail end its premise.               *)
LEMMA RecorderKeeps == RecorderInv /\ [RecorderNext]_recorderVars => RecorderInv'
<1> SUFFICES ASSUME RecorderInv, [RecorderNext]_recorderVars, strategy' # "diagnostic", trouble' = {}
             PROVE  FlowInv'
  BY DEF RecorderInv
<1>1. CASE UNCHANGED recorderVars
  <2>1. FlowInv
    BY <1>1 DEF RecorderInv, recorderVars
  <2> QED
    BY <1>1, <2>1 DEF recorderVars, FlowInv, FlowTypes, NothingForgotten, OnRecord, InWriter, Lost,
                      InHand, EndInOrder, ToSet
<1>2. CASE RecorderNext
  <2>1. FlowInv
    BY <1>2, TroubleStays DEF RecorderInv
  <2>2. ~write_fails /\ ~recorder_dies /\ ~recover_session
    BY <2>1 DEF write_fails, recorder_dies, recover_session, FlowInv, FlowTypes, CaptureSteps
  <2> QED
    BY <1>2, <2>1, <2>2, CaptureKeeps, HandleKeeps, PutKeeps, LoopEndKeeps, FlushKeeps, DrainKeeps,
       JoinKeeps, FinishKeeps, WriterKeeps, UserKeeps
    DEF RecorderNext
<1> QED BY <1>1, <1>2

(* Where each number is, as long as nothing failed, for the two strategies  *)
(* that promise an account of every capture.                                *)
THEOREM RecordingsAreConsistent == RecorderSpec => []RecorderInv
BY RecorderStarts, RecorderKeeps, PTL DEF RecorderSpec

(* A sealed recording accounts for every capture once, as a frame or in a  *)
(* gap, whatever the writer had done when it was asked to end.              *)
THEOREM CapturesAreAccounted == RecorderSpec => []EveryCaptureAccounted
<1>1. RecorderInv => EveryCaptureAccounted
  <2> SUFFICES ASSUME RecorderInv, seal, strategy # "diagnostic", trouble = {}
               PROVE  ToSet(frames) \cup gaps = 1..captured /\ ToSet(frames) \cap gaps = {}
    BY DEF EveryCaptureAccounted
  <2>1. FlowInv
    BY DEF RecorderInv
  <2>2. capturer.at = "ended" /\ writer.at = "ended" /\ waiting = <<>> /\ pending = NoPending
    BY <2>1 DEF FlowInv, EndInOrder
  <2>3. InWriter = {} /\ InHand = {} /\ ToSet(waiting) = {} /\ Lost = gaps
    BY <2>2 DEF InWriter, InHand, ToSet, Lost, NoPending
  <2>4. OnRecord = ToSet(frames)
    BY <2>3 DEF OnRecord
  <2> QED BY <2>1, <2>3, <2>4 DEF FlowInv, NothingForgotten
<1> QED BY <1>1, RecordingsAreConsistent, PTL

----------------------------------------------------------------------------
(***************************************************************************)
(* Consoles.                                                               *)
(***************************************************************************)
WorkerLives == {"unused", "starting", "serving", "leaving", "closing", "dead"}
Handles == [worker : HostProcs \cup {NoWorker}, handle : BOOLEAN]
CallRecords ==
    [at : {"idle", "connecting", "awaiting", "stopping", "waiting"}, mine : Handles,
     then : {"return", "delete", "exit"}]
Notes == [worker : HostProcs \cup {NoWorker}, owner : Nat, stop : BOOLEAN]

ConsoleTypes ==
    /\ note \in Notes
    /\ console \in Nat
    /\ kept \in Handles
    /\ call \in [Calls -> CallRecords]
    /\ life \in [HostProcs -> WorkerLives]

\* The connection lock.
OneConnection ==
    \A p, q \in Calls : /\ call[p].at \in {"connecting", "awaiting"}
                        /\ call[q].at \in {"connecting", "awaiting"}
                        => p = q

\* A worker that starts is awaited, and the one that serves is described.
StartingIsAwaited ==
    \A w \in HostProcs : life[w] = "starting" =>
       \E q \in Calls : call[q].at = "awaiting" /\ call[q].mine.worker = w

ServingIsDescribed == \A w \in HostProcs : life[w] = "serving" => note.worker = w

Alone ==
    \A v, w \in HostProcs :
       life[v] \in {"starting", "serving"} /\ life[w] \in {"starting", "serving"} => v = w

ConsoleInv ==
    ConsoleTypes /\ OneConnection /\ StartingIsAwaited /\ ServingIsDescribed /\ Alone

----------------------------------------------------------------------------
(* The records the actions write.                                          *)
LEMMA HandleRecords ==
    /\ NoneKept \in Handles /\ NoneKept.worker = NoWorker
    /\ Resting \in CallRecords /\ Resting.at = "idle"
    /\ \A w \in HostProcs \cup {NoWorker}, b \in BOOLEAN :
          [worker |-> w, handle |-> b] \in Handles /\ [worker |-> w, handle |-> b].worker = w
<1>1. NoneKept \in Handles /\ NoneKept.worker = NoWorker
  BY DEF NoneKept, Handles
<1>2. Resting \in CallRecords /\ Resting.at = "idle"
  BY <1>1 DEF Resting, CallRecords
<1> QED BY <1>1, <1>2 DEF Handles

(* Renewing the lease or a stop request leaves the description of the      *)
(* worker.                                                                 *)
LEMMA NoteFields ==
    ASSUME NEW n \in Notes, NEW o \in Nat, NEW b \in BOOLEAN
    PROVE  /\ [n EXCEPT !.owner = o, !.stop = b] \in Notes
           /\ [n EXCEPT !.owner = o, !.stop = b].worker = n.worker
           /\ [n EXCEPT !.stop = b] \in Notes
           /\ [n EXCEPT !.stop = b].worker = n.worker
BY DEF Notes

(* What a worker found or kept is one.                                     *)
LEMMA FoundIsHandle ==
    ASSUME ConsoleTypes
    PROVE  Found \in Handles /\ note.worker \in HostProcs \cup {NoWorker}
<1>1. note.worker \in HostProcs \cup {NoWorker}
  BY DEF ConsoleTypes, Notes
<1> QED BY <1>1, HandleRecords DEF Found, ConsoleTypes

(* The lives of the workers: only a launch starts one, and only publishing  *)
(* makes it serve.                                                         *)
LivesFade ==
    /\ life' \in [HostProcs -> WorkerLives]
    /\ \A w \in HostProcs : life'[w] \in {"starting", "serving"} => life'[w] = life[w]

(* A worker that leaves, closes or dies.                                    *)
LEMMA FadingLives ==
    ASSUME ConsoleTypes, NEW w \in HostProcs, NEW a \in {"leaving", "closing", "dead"},
           life' = life \/ life' = [life EXCEPT ![w] = a]
    PROVE  LivesFade
BY DEF ConsoleTypes, LivesFade, WorkerLives

\* The calls: nobody enters the connection.
CallsLeave ==
    /\ call' \in [Calls -> CallRecords]
    /\ \A q \in Calls : call'[q].at \in {"connecting", "awaiting"} => call'[q] = call[q]

(* A call that does not enter the connection.                               *)
LEMMA LeavingCalls ==
    ASSUME ConsoleTypes, NEW q \in Calls, NEW c \in CallRecords, c.at \notin {"connecting", "awaiting"},
           call' = [call EXCEPT ![q] = c]
    PROVE  CallsLeave
BY DEF ConsoleTypes, CallsLeave

(* A step that starts no worker, lets nobody into the connection and leaves *)
(* the description of the worker that serves.                               *)
LEMMA QuietKeeps ==
    ASSUME ConsoleInv, LivesFade, CallsLeave,
           note' \in Notes, console' \in Nat, kept' \in Handles,
           \A w \in HostProcs : life'[w] = "serving" => note'.worker = note.worker,
           (\A w \in HostProcs : life'[w] # "starting")
              \/ \A q \in Calls : call[q].at = "awaiting" => call'[q] = call[q]
    PROVE  ConsoleInv'
<1>1. ConsoleTypes'
  BY DEF LivesFade, CallsLeave, ConsoleTypes
<1>2. OneConnection'
  BY DEF ConsoleInv, OneConnection, CallsLeave
<1>3. StartingIsAwaited'
  BY DEF ConsoleInv, StartingIsAwaited, LivesFade
<1>4. ServingIsDescribed'
  BY DEF ConsoleInv, ServingIsDescribed, LivesFade
<1>5. Alone'
  BY DEF ConsoleInv, Alone, LivesFade
<1> QED BY <1>1, <1>2, <1>3, <1>4, <1>5 DEF ConsoleInv

(* The worker's own steps.                                                 *)
LEMMA PublishKeeps ==
    ASSUME ConsoleInv, NEW w \in HostProcs, publish_worker(w)
    PROVE  ConsoleInv'
<1>1. /\ life[w] = "starting" /\ life' = [life EXCEPT ![w] = "serving"]
      /\ note' = [note EXCEPT !.worker = w] /\ UNCHANGED <<console, kept, call>>
  BY DEF publish_worker
<1>2. note' \in Notes /\ note'.worker = w
  BY <1>1 DEF ConsoleInv, ConsoleTypes, Notes
<1>3. /\ life' \in [HostProcs -> WorkerLives] /\ life'[w] = "serving"
      /\ \A v \in HostProcs \ {w} : life'[v] = life[v]
  BY <1>1 DEF ConsoleInv, ConsoleTypes, WorkerLives
<1>4. \A v \in HostProcs \ {w} : life[v] \notin {"starting", "serving"}
  BY <1>1 DEF ConsoleInv, Alone
<1>5. ConsoleTypes'
  BY <1>1, <1>2, <1>3 DEF ConsoleInv, ConsoleTypes
<1>6. OneConnection'
  BY <1>1 DEF ConsoleInv, OneConnection
<1>7. StartingIsAwaited' /\ ServingIsDescribed' /\ Alone'
  BY <1>2, <1>3, <1>4 DEF StartingIsAwaited, ServingIsDescribed, Alone
<1> QED BY <1>5, <1>6, <1>7 DEF ConsoleInv

(* The calls and notes of a step that concerns the worker alone.           *)
LEMMA CallsStay ==
    ASSUME ConsoleInv, call' = call
    PROVE  CallsLeave /\ \A q \in Calls : call'[q] = call[q]
BY DEF ConsoleInv, ConsoleTypes, CallsLeave

(* The worker's steps: it publishes itself, leaves, cleans up and ends.      *)
LEMMA WorkerKeeps ==
    ASSUME ConsoleInv, NEW w \in HostProcs, HostProc(w)
    PROVE  ConsoleInv'
<1>0. ConsoleTypes /\ note \in Notes /\ console \in Nat /\ kept \in Handles
  BY DEF ConsoleInv, ConsoleTypes
<1>1. CASE publish_worker(w)
  BY <1>1, PublishKeeps
<1>2. CASE start_fails(w) \/ leave_loop(w) \/ end_process(w)
  <2>1. life' = [life EXCEPT ![w] = "dead"] \/ life' = [life EXCEPT ![w] = "leaving"]
    BY <1>2 DEF start_fails, leave_loop, end_process, Dead
  <2>2. UNCHANGED <<note, console, kept, call>>
    BY <1>2 DEF start_fails, leave_loop, end_process
  <2>3. LivesFade
    BY <1>0, <2>1, FadingLives
  <2> QED BY <1>0, <2>2, <2>3, CallsStay, QuietKeeps
<1>3. CASE clean_up(w)
  <2>1. life[w] = "leaving" /\ life' = [life EXCEPT ![w] = "closing"] /\ UNCHANGED <<console, kept, call>>
    BY <1>3 DEF clean_up
  <2>2. note' = [note EXCEPT !.worker = IF note.worker = w THEN NoWorker ELSE note.worker, !.stop = FALSE]
    BY <1>3 DEF clean_up
  <2>3. note' \in Notes /\ note'.worker = IF note.worker = w THEN NoWorker ELSE note.worker
    BY <1>0, <2>2 DEF Notes
  <2>4. LivesFade
    BY <1>0, <2>1, FadingLives
  <2>5. \A v \in HostProcs : life'[v] = "serving" => note'.worker = note.worker
    <3> SUFFICES ASSUME NEW v \in HostProcs, life'[v] = "serving" PROVE note.worker # w
      BY <2>3
    <3>1. life[v] = "serving"
      BY <2>4 DEF LivesFade
    <3>2. note.worker = v /\ v # w
      BY <2>1, <3>1 DEF ConsoleInv, ServingIsDescribed
    <3> QED BY <3>2
  <2> QED BY <1>0, <2>1, <2>3, <2>4, <2>5, CallsStay, QuietKeeps
<1>4. CASE program_starts(w) \/ program_ends(w)
  <2>1. UNCHANGED <<note, console, kept, call, life>>
    BY <1>4 DEF program_starts, program_ends
  <2>2. LivesFade
    BY <1>0, <2>1, FadingLives
  <2> QED BY <1>0, <2>1, <2>2, CallsStay, QuietKeeps
<1> QED BY <1>1, <1>2, <1>3, <1>4 DEF HostProc

(* connect: the lock is free, so the call is alone.                        *)
LEMMA ConnectKeeps ==
    ASSUME ConsoleInv, NEW q \in Calls, connect(q)
    PROVE  ConsoleInv'
<1>1. /\ call[q].at = "idle" /\ ConnectionFree /\ call' = [call EXCEPT ![q].at = "connecting"]
      /\ UNCHANGED <<note, console, kept, life>>
  BY DEF connect
<1>2. /\ call' \in [Calls -> CallRecords] /\ call'[q].at = "connecting"
      /\ \A p \in Calls \ {q} : call'[p] = call[p]
  BY <1>1 DEF ConsoleInv, ConsoleTypes, CallRecords
<1>3. \A p \in Calls : call[p].at \notin {"connecting", "awaiting"}
  BY <1>1 DEF ConnectionFree
<1>4. ConsoleTypes'
  BY <1>1, <1>2 DEF ConsoleInv, ConsoleTypes
<1>5. OneConnection'
  BY <1>2, <1>3 DEF OneConnection
<1>6. StartingIsAwaited' /\ ServingIsDescribed' /\ Alone'
  BY <1>1, <1>3 DEF ConsoleInv, StartingIsAwaited, ServingIsDescribed, Alone
<1> QED BY <1>4, <1>5, <1>6 DEF ConsoleInv

(* While a call is connecting no worker is starting.                       *)
LEMMA NoneStarts ==
    ASSUME ConsoleInv, NEW q \in Calls, call[q].at = "connecting"
    PROVE  \A w \in HostProcs : life[w] # "starting"
BY DEF ConsoleInv, OneConnection, StartingIsAwaited

(* The worker that serves is the one described, and it would answer.        *)
LEMMA NoneServes ==
    ASSUME ConsoleInv, Prompt, NeitherAnswers
    PROVE  \A w \in HostProcs : life[w] # "serving"
<1> SUFFICES ASSUME NEW w \in HostProcs, life[w] = "serving" PROVE FALSE
  OBVIOUS
<1>1. note.worker = w
  BY DEF ConsoleInv, ServingIsDescribed
<1>2. w # NoWorker
  BY ConsoleAssumption DEF HostProcs, NoWorker
<1> QED BY <1>1, <1>2 DEF NeitherAnswers, Silent, Reachable

(* connect starts a worker.                                                *)
LEMMA LaunchKeeps ==
    ASSUME ConsoleInv, Prompt, NEW q \in Calls, launch_worker(q)
    PROVE  ConsoleInv'
<1>0. ConsoleTypes
  BY DEF ConsoleInv
<1>1. /\ call[q].at = "connecting" /\ NeitherAnswers /\ kept' = NoneKept /\ console' = console
      /\ note' = [worker |-> NoWorker, owner |-> console, stop |-> FALSE]
  BY DEF launch_worker
<1>2. PICK w \in HostProcs :
         /\ life' = [life EXCEPT ![w] = "starting"]
         /\ call' = [call EXCEPT ![q].at = "awaiting", ![q].mine = [worker |-> w, handle |-> TRUE]]
  BY DEF launch_worker
<1> DEFINE mine == [worker |-> w, handle |-> TRUE]
           c == [call[q] EXCEPT !.at = "awaiting", !.mine = mine]
<1>3. mine \in Handles /\ mine.worker = w
  BY HandleRecords
<1>4. call[q] \in CallRecords
  BY <1>0 DEF ConsoleTypes
<1>5. call' = [call EXCEPT ![q] = c]
  BY <1>2
<1>6. c \in CallRecords /\ c.at = "awaiting" /\ c.mine.worker = w
  <2> HIDE DEF mine
  <2> QED BY <1>3, <1>4 DEF CallRecords
<1> HIDE DEF c, mine
<1>7. /\ call' \in [Calls -> CallRecords] /\ call'[q] = c
      /\ \A p \in Calls \ {q} : call'[p] = call[p]
  BY <1>0, <1>5, <1>6 DEF ConsoleTypes
<1>8. /\ life' \in [HostProcs -> WorkerLives] /\ life'[w] = "starting"
      /\ \A v \in HostProcs \ {w} : life'[v] = life[v]
  BY <1>0, <1>2 DEF ConsoleTypes, WorkerLives
<1>9. \A v \in HostProcs : life[v] \notin {"starting", "serving"}
  BY <1>1, NoneStarts, NoneServes
<1>10. note' \in Notes /\ kept' \in Handles /\ console' \in Nat
  BY <1>0, <1>1, HandleRecords DEF ConsoleTypes, Notes
<1>11. ConsoleTypes'
  BY <1>7, <1>8, <1>10 DEF ConsoleTypes
<1>12. OneConnection'
  BY <1>1, <1>7 DEF ConsoleInv, OneConnection
<1>13. StartingIsAwaited'
  <2> SUFFICES ASSUME NEW v \in HostProcs, life'[v] = "starting"
               PROVE  \E p \in Calls : call'[p].at = "awaiting" /\ call'[p].mine.worker = v
    BY DEF StartingIsAwaited
  <2>1. v = w
    BY <1>8, <1>9
  <2> QED BY <1>6, <1>7, <2>1
<1>14. ServingIsDescribed' /\ Alone'
  BY <1>8, <1>9 DEF ServingIsDescribed, Alone
<1> QED BY <1>11, <1>12, <1>13, <1>14 DEF ConsoleInv

(* Every other end of a call, and the steps of stop_worker.                *)
LEMMA CallEndKeeps ==
    ASSUME ConsoleInv, NEW q \in Calls, call' = [call EXCEPT ![q] = Resting],
           LivesFade, note' \in Notes, console' \in Nat, kept' \in Handles,
           \A w \in HostProcs : life'[w] = "serving" => note'.worker = note.worker,
           call[q].at = "awaiting" => \A w \in HostProcs : life[w] # "starting"
    PROVE  ConsoleInv'
<1>1. CallsLeave
  BY HandleRecords, LeavingCalls DEF ConsoleInv
<1>2. CASE call[q].at = "awaiting"
  BY <1>1, <1>2, QuietKeeps DEF LivesFade
<1>3. CASE call[q].at # "awaiting"
  <2>1. \A p \in Calls : call[p].at = "awaiting" => call'[p] = call[p]
    BY <1>3 DEF ConsoleInv, ConsoleTypes
  <2> QED BY <1>1, <2>1, QuietKeeps
<1> QED BY <1>2, <1>3

(* connect finds a worker, or is refused one.                              *)
LEMMA ReconnectKeeps ==
    ASSUME ConsoleInv, Prompt, NEW q \in Calls, reconnect(q) \/ launch_refused(q)
    PROVE  ConsoleInv'
<1>0. ConsoleTypes /\ note \in Notes /\ console \in Nat /\ kept \in Handles
  BY DEF ConsoleInv, ConsoleTypes
<1>1. call[q].at = "connecting" /\ call' = [call EXCEPT ![q] = Resting] /\ UNCHANGED <<console, life>>
  BY DEF reconnect, launch_refused
<1>2. LivesFade
  BY <1>0, <1>1 DEF LivesFade, ConsoleTypes
<1>3. CASE reconnect(q)
  <2>1. \E s \in Handles : Adopt(s)
    BY <1>0, <1>3, HandleRecords DEF reconnect, Handles
  <2>2. note' \in Notes /\ note'.worker = note.worker /\ kept' \in Handles
    BY <1>0, <2>1, NoteFields DEF Adopt
  <2> QED BY <1>0, <1>1, <1>2, <2>2, CallEndKeeps
<1>4. CASE launch_refused(q)
  <2>1. NeitherAnswers /\ kept' = NoneKept
        /\ note' = [worker |-> NoWorker, owner |-> console, stop |-> FALSE]
    BY <1>4 DEF launch_refused
  <2>2. note' \in Notes /\ kept' \in Handles
    BY <1>0, <2>1, HandleRecords DEF Notes
  <2>3. \A w \in HostProcs : life'[w] # "serving"
    BY <1>1, <2>1, NoneServes
  <2> QED BY <1>0, <1>1, <1>2, <2>2, <2>3, CallEndKeeps
<1> QED BY <1>3, <1>4

(* The awaited worker is ready, or is not: in both cases it has started.   *)
LEMMA AwaitedKeeps ==
    ASSUME ConsoleInv, Prompt, NEW q \in Calls, worker_ready(q) \/ worker_missing(q)
    PROVE  ConsoleInv'
<1>0. ConsoleTypes /\ note \in Notes /\ console \in Nat /\ kept \in Handles /\ call[q] \in CallRecords
  BY DEF ConsoleInv, ConsoleTypes
<1>1. call[q].at = "awaiting" /\ call' = [call EXCEPT ![q] = Resting] /\ UNCHANGED <<console, life>>
  BY DEF worker_ready, worker_missing
<1>2. LivesFade
  BY <1>0, <1>1 DEF LivesFade, ConsoleTypes
<1>3. \A w \in HostProcs : life[w] # "starting"
  <2>1. life[call[q].mine.worker] # "starting"
    BY DEF worker_ready, worker_missing, Answers, Reachable
  <2>2. \A w \in HostProcs : life[w] = "starting" => w = call[q].mine.worker
    BY <1>1 DEF ConsoleInv, StartingIsAwaited, OneConnection
  <2> QED BY <2>1, <2>2
<1>4. note' \in Notes /\ note'.worker = note.worker /\ kept' \in Handles
  <2>1. call[q].mine \in Handles
    BY <1>0 DEF CallRecords
  <2>2. CASE worker_ready(q)
    BY <1>0, <2>1, <2>2, NoteFields DEF worker_ready, Adopt
  <2>3. CASE worker_missing(q)
    BY <1>0, <2>3, NoteFields DEF worker_missing
  <2> QED BY <2>2, <2>3
<1> QED BY <1>0, <1>1, <1>2, <1>3, <1>4, CallEndKeeps

(* stop_worker and what follows, as long as the console goes on.           *)
LEMMA StopKeeps ==
    ASSUME ConsoleInv, NEW q \in Calls,
           \/ \E then \in {"return", "delete", "exit"}, confirmed \in BOOLEAN : stop_worker(q, then, confirmed)
           \/ ask_to_stop(q)
    PROVE  ConsoleInv'
<1>0. ConsoleTypes /\ note \in Notes /\ console \in Nat /\ kept \in Handles /\ call[q] \in CallRecords
      /\ call \in [Calls -> CallRecords]
  BY DEF ConsoleInv, ConsoleTypes
<1>1. CASE \E then \in {"return", "delete", "exit"}, confirmed \in BOOLEAN : stop_worker(q, then, confirmed)
  <2>1. PICK then \in {"return", "delete", "exit"}, confirmed \in BOOLEAN : stop_worker(q, then, confirmed)
    BY <1>1
  <2> DEFINE c == [at |-> "stopping", mine |-> Found, then |-> then]
  <2>2. call[q].at = "idle" /\ Adopt(Found) /\ UNCHANGED <<console, life>> /\ call' = [call EXCEPT ![q] = c]
    BY <2>1 DEF stop_worker
  <2>3. Found \in Handles
    BY <1>0, FoundIsHandle
  <2>4. c \in CallRecords /\ c.at = "stopping"
    BY <2>3 DEF CallRecords
  <2> HIDE DEF c
  <2>5. CallsLeave /\ \A p \in Calls : call[p].at = "awaiting" => call'[p] = call[p]
    BY <1>0, <2>2, <2>4, LeavingCalls
  <2>6. note' \in Notes /\ note'.worker = note.worker /\ kept' \in Handles
    BY <1>0, <2>2, <2>3, NoteFields DEF Adopt
  <2>7. LivesFade
    BY <1>0, <2>2 DEF LivesFade, ConsoleTypes
  <2> QED BY <1>0, <2>2, <2>5, <2>6, <2>7, QuietKeeps
<1>2. CASE ask_to_stop(q)
  <2> DEFINE c == [call[q] EXCEPT !.at = "waiting"]
  <2>1. /\ call[q].at = "stopping" /\ call' = [call EXCEPT ![q] = c] /\ UNCHANGED <<console, kept, life>>
        /\ note' = [note EXCEPT !.owner = 0, !.stop = TRUE]
    BY <1>2 DEF ask_to_stop
  <2>2. c \in CallRecords /\ c.at = "waiting"
    BY <1>0 DEF CallRecords
  <2> HIDE DEF c
  <2>3. CallsLeave /\ \A p \in Calls : call[p].at = "awaiting" => call'[p] = call[p]
    BY <1>0, <2>1, <2>2, LeavingCalls
  <2>4. note' \in Notes /\ note'.worker = note.worker
    BY <1>0, <2>1, NoteFields
  <2>5. LivesFade
    BY <1>0, <2>1 DEF LivesFade, ConsoleTypes
  <2> QED BY <1>0, <2>1, <2>3, <2>4, <2>5, QuietKeeps
<1> QED BY <1>1, <1>2

(* The console ends while no worker is starting.                           *)
LEMMA ConsoleEndKeeps ==
    ASSUME ConsoleInv, ~EndsStarting, MayEnd, ConsoleEnded, LivesFade, note' \in Notes,
           note'.worker = note.worker
    PROVE  ConsoleInv'
<1>1. \A w \in HostProcs : life'[w] # "starting"
  BY DEF MayEnd, NoWorkerStarting, LivesFade
<1>2. call' = [p \in Calls |-> Resting] /\ console' = 0 /\ kept' = NoneKept
  BY DEF ConsoleEnded
<1>3. CallsLeave
  BY <1>2, HandleRecords DEF CallsLeave
<1> QED BY <1>1, <1>2, <1>3, HandleRecords, QuietKeeps

(* The worker has stopped, or could not be stopped.                        *)
LEMMA StoppedKeeps ==
    ASSUME ConsoleInv, ~EndsStarting, NEW q \in Calls, stopped(q) \/ not_stopped(q)
    PROVE  ConsoleInv'
<1>0. ConsoleTypes /\ note \in Notes /\ console \in Nat /\ kept \in Handles /\ call[q] \in CallRecords
  BY DEF ConsoleInv, ConsoleTypes
<1>1. call[q].at = "waiting" /\ note' = note
  BY DEF stopped, not_stopped
<1>2. CASE stopped(q)
  <2> DEFINE w == call[q].mine.worker
  <2>1. Killed(w) /\ w \in HostProcs \cup {NoWorker}
    BY <1>0, <1>2 DEF stopped, CallRecords, Handles
  <2>2. life' = life \/ life' = [life EXCEPT ![w] = "dead"]
    BY <2>1 DEF Killed, Dead
  <2>3. LivesFade
    <3>1. CASE w \in HostProcs
      BY <1>0, <2>2, <3>1, FadingLives
    <3>2. CASE w \notin HostProcs
      BY <1>0, <2>2, <3>2 DEF LivesFade, ConsoleTypes
    <3> QED BY <3>1, <3>2
  <2>4. CASE call[q].then = "exit"
    BY <1>0, <1>1, <1>2, <2>3, <2>4, ConsoleEndKeeps DEF stopped
  <2>5. CASE call[q].then # "exit"
    BY <1>0, <1>1, <1>2, <2>3, <2>5, CallEndKeeps, HandleRecords DEF stopped
  <2> QED BY <2>4, <2>5
<1>3. CASE not_stopped(q)
  <2>1. call' = [call EXCEPT ![q] = Resting] /\ UNCHANGED <<console, kept, life>>
    BY <1>3 DEF not_stopped
  <2>2. LivesFade
    BY <1>0, <2>1 DEF LivesFade, ConsoleTypes
  <2> QED BY <1>0, <1>1, <2>1, <2>2, CallEndKeeps
<1> QED BY <1>2, <1>3

(* What the console does beside its calls.                                 *)
LEMMA ConsoleStepKeeps ==
    ASSUME ConsoleInv, ~EndsStarting, state \/ shutdown_leaving_run \/ console_dies \/ console_opens
    PROVE  ConsoleInv'
<1>0. ConsoleTypes /\ note \in Notes /\ console \in Nat /\ kept \in Handles
  BY DEF ConsoleInv, ConsoleTypes
<1>1. life' = life
  BY DEF state, shutdown_leaving_run, console_dies, console_opens
<1>2. LivesFade
  BY <1>0, <1>1 DEF LivesFade, ConsoleTypes
<1>3. CASE state
  <2>1. Adopt(Found) /\ UNCHANGED <<console, call>>
    BY <1>3 DEF state
  <2>2. note' \in Notes /\ note'.worker = note.worker /\ kept' \in Handles
    BY <1>0, <2>1, NoteFields, FoundIsHandle DEF Adopt
  <2> QED BY <1>0, <1>2, <2>1, <2>2, CallsStay, QuietKeeps
<1>4. CASE shutdown_leaving_run
  <2>1. MayEnd /\ ConsoleEnded /\ note' = [note EXCEPT !.owner = 0, !.stop = FALSE]
    BY <1>4 DEF shutdown_leaving_run
  <2>2. note' \in Notes /\ note'.worker = note.worker
    BY <1>0, <2>1, NoteFields
  <2> QED BY <1>2, <2>1, <2>2, ConsoleEndKeeps
<1>5. CASE console_dies
  BY <1>0, <1>2, <1>5, ConsoleEndKeeps DEF console_dies
<1>6. CASE console_opens
  <2>1. console' \in Nat /\ UNCHANGED <<note, kept, call>>
    BY <1>6, ConsoleAssumption DEF console_opens
  <2> QED BY <1>0, <1>2, <2>1, CallsStay, QuietKeeps
<1> QED BY <1>3, <1>4, <1>5, <1>6

(* No console, no call and no worker.                                      *)
LEMMA ConsoleStarts == ConsoleInit => ConsoleInv
<1> SUFFICES ASSUME ConsoleInit PROVE ConsoleInv
  OBVIOUS
<1>1. ConsoleTypes
  BY HandleRecords DEF ConsoleInit, ConsoleTypes, Notes, WorkerLives
<1>2. \A q \in Calls : call[q].at = "idle"
  BY HandleRecords DEF ConsoleInit
<1> QED
  BY <1>1, <1>2 DEF ConsoleInit, ConsoleInv, OneConnection, StartingIsAwaited, ServingIsDescribed, Alone

(* Every step of a worker, a call or a console keeps it.                   *)
LEMMA ConsoleKeeps ==
    ASSUME Prompt, ~EndsStarting
    PROVE  ConsoleInv /\ [ConsoleNext]_consoleVars => ConsoleInv'
<1> SUFFICES ASSUME ConsoleInv, [ConsoleNext]_consoleVars PROVE ConsoleInv'
  OBVIOUS
<1>1. CASE UNCHANGED consoleVars
  BY <1>1 DEF consoleVars, ConsoleInv, ConsoleTypes, OneConnection, StartingIsAwaited,
              ServingIsDescribed, Alone
<1>2. CASE \E w \in HostProcs : HostProc(w)
  BY <1>2, WorkerKeeps
<1>3. CASE \E q \in Calls : ConsoleCall(q)
  <2>1. PICK q \in Calls : ConsoleCall(q)
    BY <1>3
  <2> QED
    BY <2>1, ConnectKeeps, ReconnectKeeps, LaunchKeeps, AwaitedKeeps, StopKeeps, StoppedKeeps
    DEF ConsoleCall
<1> QED BY <1>1, <1>2, <1>3, ConsoleStepKeeps DEF ConsoleNext

(* An instance never has two workers that start or serve, provided that     *)
(* workers answer within the time limits and no console ends while it waits *)
(* for one: connect starts a worker only when the descriptor names none     *)
(* that answers, and the descriptor always names the one that serves.       *)
THEOREM WorkersAreAlone ==
    ASSUME Prompt, ~EndsStarting
    PROVE  ConsoleSpec => []OneWorker
<1>1. ConsoleInv => OneWorker
  <2> SUFFICES ASSUME ConsoleInv PROVE OneWorker
    OBVIOUS
  <2> DEFINE busyOnes == {w \in HostProcs : life[w] \in {"starting", "serving"}}
  <2>1. busyOnes = {} \/ \E w : busyOnes = {w}
    BY DEF ConsoleInv, Alone
  <2> HIDE DEF busyOnes
  <2>2. Cardinality(busyOnes) = 0 \/ Cardinality(busyOnes) = 1
    BY <2>1, FS_EmptySet, FS_Singleton
  <2>3. Cardinality(busyOnes) <= 1
    BY <2>2
  <2> QED BY <2>3 DEF OneWorker, busyOnes
<1> QED BY <1>1, ConsoleStarts, ConsoleKeeps, PTL DEF ConsoleSpec
=============================================================================
