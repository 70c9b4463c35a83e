--------------------------- MODULE ProjectTriggers ---------------------------
(***************************************************************************)
(* Triggers of an open project (core/vnext/triggers_v1.py) and the part of  *)
(* opening a project that starts and stops them (core/vnext/workspace.py).  *)
(*                                                                         *)
(* The project "own" has one trigger; "other" has none.  Every opening has  *)
(* a runtime: a thread that polls (thread 0) and the threads of its hotkey  *)
(* hosts, one host per configuration it has read.  dispatch decides under   *)
(* a lock, then calls the workspace without it, and stores the run it got   *)
(* without it too.  The debounce and the cooldown are windows that close.   *)
(***************************************************************************)
EXTENDS Naturals, FiniteSets

CONSTANTS
    MaxOpens,     \* bound: openings
    MaxHosts,     \* bound: hotkey hosts of one runtime
    MaxEdits,     \* bound: saved configurations
    MaxTriggered, \* bound: runs that triggers start
    QuickStarts   \* whether starting a run takes less than the debounce and than two seconds

ASSUME TriggerAssumption ==
    /\ MaxOpens \in Nat /\ MaxHosts \in Nat /\ MaxEdits \in Nat /\ MaxTriggered \in Nat
    /\ QuickStarts \in BOOLEAN

Openings == 1..MaxOpens
Loop == 0
TriggerThreads == Openings \X (Loop..MaxHosts)

VARIABLES
    triggerConf,  \* automation/triggers.json
    policy,       \* the trigger's concurrency_policy
    opening,      \* the workspace's generation
    projectOf,    \* opening -> project
    opener,       \* what open is waiting for, with the workspace lock
    triggerRt,    \* opening -> TriggerRuntimeV1
    triggerThr,   \* thread -> where it is
    triggered     \* the runs: of which opening, and whether they are active

triggerVars ==
    <<triggerConf, policy, opening, projectOf, opener, triggerRt, triggerThr, triggered>>

NoTriggered == 0
RunOf(g) == {r \in DOMAIN triggered : triggered[r].of = g /\ triggered[r].live}
is_running(r) == r # NoTriggered /\ triggered[r].live

NewRuntime ==
    [stop |-> FALSE, active |-> NoTriggered, queued |-> FALSE, recent |-> FALSE, cooling |-> FALSE,
     kind |-> "none", seen |-> 0, host |-> 0]
Off == [at |-> "off", back |-> "off", run |-> NoTriggered, holds |-> FALSE, quit |-> FALSE]

TriggerInit ==
    /\ triggerConf = [kind |-> "global_hotkey", rev |-> 1]
    /\ policy \in {"skip_if_running", "queue_one"}
    /\ opening = 0
    /\ projectOf = [g \in Openings |-> "none"]
    /\ opener = "none"
    /\ triggerRt = [g \in Openings |-> NewRuntime]
    /\ triggerThr = [t \in TriggerThreads |-> Off]
    /\ triggered = [r \in 1..MaxTriggered |-> [of |-> 0, live |-> FALSE]]

----------------------------------------------------------------------------
(* dispatch                                                                *)

Goes(t, at) == triggerThr' = [triggerThr EXCEPT ![t].at = at]
Returns(t) ==
    triggerThr' = [triggerThr EXCEPT ![t].at = triggerThr[t].back, ![t].run = NoTriggered]

\* A hotkey of the host is pressed.
pressed(t) ==
    /\ triggerThr[t].at = "listening" /\ triggerThr[t].holds
    /\ Goes(t, "called")
    /\ UNCHANGED <<triggerConf, policy, opening, projectOf, opener, triggerRt, triggered>>

ActiveNow(rt) == IF is_running(rt.active) THEN rt.active ELSE NoTriggered

\* Mutant: the run that is in progress is not looked at.
DecisionAlone(rt) ==
    IF rt.recent THEN [rt |-> rt, start |-> FALSE]
    ELSE [rt |-> [rt EXCEPT !.recent = TRUE], start |-> ~rt.cooling]

\* The runtime as the decision leaves it, and whether a run is to be started.
Decision(rt) ==
    IF rt.recent THEN [rt |-> rt, start |-> FALSE]
    ELSE LET seen == [rt EXCEPT !.recent = TRUE, !.active = ActiveNow(rt)] IN
         IF seen.active # NoTriggered
         THEN [rt |-> [seen EXCEPT !.queued = @ \/ policy = "queue_one"], start |-> FALSE]
         ELSE [rt |-> seen, start |-> ~seen.cooling]

decide(t) ==
    LET choice == Decision(triggerRt[t[1]]) IN
    /\ triggerThr[t].at = "called"
    /\ triggerRt' = [triggerRt EXCEPT ![t[1]] = choice.rt]
    /\ IF choice.start THEN Goes(t, "planning") ELSE Returns(t)
    /\ UNCHANGED <<triggerConf, policy, opening, projectOf, opener, triggered>>

\* Mutant: the plan is made for a project that is no longer open.
StillOpen(g) == TRUE

\* require: another generation is refused.
CurrentOpening(g) == g = opening

\* start_from_trigger up to the last check of the workspace, under its lock.
plan(t) ==
    /\ triggerThr[t].at = "planning"
    /\ opener = "none"
    /\ \/ CurrentOpening(t[1]) /\ Goes(t, "planned")
       \/ Returns(t)   \* stale, or the program has errors
    /\ UNCHANGED <<triggerConf, policy, opening, projectOf, opener, triggerRt, triggered>>

\* vnext_runtime.start
start_run(t) ==
    /\ triggerThr[t].at = "planned"
    /\ \/ \E r \in DOMAIN triggered :
             /\ triggered[r].of = 0
             /\ \A q \in 1..(r - 1) : triggered[q].of # 0
             /\ triggered' = [triggered EXCEPT ![r] = [of |-> t[1], live |-> TRUE]]
             /\ triggerThr' = [triggerThr EXCEPT ![t].at = "started", ![t].run = r]
       \/ Returns(t) /\ UNCHANGED triggered
    /\ UNCHANGED <<triggerConf, policy, opening, projectOf, opener, triggerRt>>

remember(t) ==
    /\ triggerThr[t].at = "started"
    /\ triggerRt' = [triggerRt EXCEPT ![t[1]].active = triggerThr[t].run, ![t[1]].cooling = TRUE]
    /\ Returns(t)
    /\ UNCHANGED <<triggerConf, policy, opening, projectOf, opener, triggered>>

triggered_ends(r) ==
    /\ triggered[r].live
    /\ triggered' = [triggered EXCEPT ![r].live = FALSE]
    /\ UNCHANGED <<triggerConf, policy, opening, projectOf, opener, triggerRt, triggerThr>>

Starting(g) ==
    {t \in TriggerThreads : t[1] = g /\ triggerThr[t].at \in {"planning", "planned", "started"}}

debounce_passes(g) ==
    /\ triggerRt[g].recent
    /\ QuickStarts => Starting(g) = {}
    /\ triggerRt' = [triggerRt EXCEPT ![g].recent = FALSE]
    /\ UNCHANGED <<triggerConf, policy, opening, projectOf, opener, triggerThr, triggered>>

cooldown_passes(g) ==
    /\ triggerRt[g].cooling
    /\ triggerRt' = [triggerRt EXCEPT ![g].cooling = FALSE]
    /\ UNCHANGED <<triggerConf, policy, opening, projectOf, opener, triggerThr, triggered>>

----------------------------------------------------------------------------
(* _loop                                                                   *)

\* The queued signal is taken once its trigger has no run; it forgets the debounce.
poll(g) ==
    LET t == <<g, Loop>>
        rt == triggerRt[g]
    IN
    /\ triggerThr[t].at = "waiting"
    /\ IF rt.stop THEN Goes(t, "off") /\ UNCHANGED triggerRt
       ELSE IF rt.queued /\ ~is_running(rt.active)
       THEN /\ triggerRt' = [triggerRt EXCEPT ![g].queued = FALSE, ![g].active = NoTriggered,
                                              ![g].recent = FALSE]
            /\ triggerThr' = [triggerThr EXCEPT ![t].at = "called", ![t].back = "reading"]
       ELSE Goes(t, "reading") /\ UNCHANGED triggerRt
    /\ UNCHANGED <<triggerConf, policy, opening, projectOf, opener, triggered>>

Quit(thr, g) == [thr EXCEPT ![<<g, triggerRt[g].host>>].quit = triggerRt[g].host # 0]

\* The configuration is read; another revision replaces the hotkey host.
read_configuration(g) ==
    LET t == <<g, Loop>> IN
    /\ triggerThr[t].at = "reading"
    /\ triggerRt[g].seen # triggerConf.rev => triggerRt[g].host < MaxHosts   \* bound
    /\ triggerRt' = [triggerRt EXCEPT ![g].kind = triggerConf.kind, ![g].seen = triggerConf.rev]
    /\ IF triggerRt[g].seen = triggerConf.rev
       THEN Goes(t, "scanning")
       ELSE triggerThr' = [Quit(triggerThr, g) EXCEPT ![t].at = "replacing"]
    /\ UNCHANGED <<triggerConf, policy, opening, projectOf, opener, triggered>>

\* join(timeout=2.0) comes back: the thread ended, or it waits for the lock that
\* open holds, or it is slow.
JoinedHost(t) ==
    t[2] = 0 \/ triggerThr[t].at = "off" \/ ~QuickStarts
    \/ (triggerThr[t].at = "planning" /\ opener # "none")

\* The new host registers its hotkey unless another thread holds it.
replace_host(g) ==
    LET t == <<g, Loop>>
        n == triggerRt[g].host
        free == \A u \in TriggerThreads : ~triggerThr[u].holds
    IN
    /\ triggerThr[t].at = "replacing"
    /\ JoinedHost(<<g, n>>)
    /\ triggerRt' = [triggerRt EXCEPT ![g].host = n + 1]
    /\ triggerThr' = [triggerThr EXCEPT
           ![t].at = "scanning",
           ![<<g, n + 1>>] = [at |-> "listening", back |-> "listening", run |-> NoTriggered,
                              holds |-> free /\ triggerRt[g].kind = "global_hotkey",
                              quit |-> FALSE]]
    /\ UNCHANGED <<triggerConf, policy, opening, projectOf, opener, triggered>>

\* WM_QUIT: the thread unregisters its hotkeys and ends.
host_quits(t) ==
    /\ t[2] # Loop
    /\ triggerThr[t].at = "listening" /\ triggerThr[t].quit
    /\ triggerThr' = [triggerThr EXCEPT ![t] = Off]
    /\ UNCHANGED <<triggerConf, policy, opening, projectOf, opener, triggerRt, triggered>>

\* A watched file has changed, or nothing has.
scan(g) ==
    LET t == <<g, Loop>> IN
    /\ triggerThr[t].at = "scanning"
    /\ \/ Goes(t, "waiting")
       \/ /\ triggerRt[g].kind = "filesystem"
          /\ triggerThr' = [triggerThr EXCEPT ![t].at = "called", ![t].back = "waiting"]
    /\ UNCHANGED <<triggerConf, policy, opening, projectOf, opener, triggerRt, triggered>>

----------------------------------------------------------------------------
\* save and delete: "none" is a trigger that is disabled or gone.
save_trigger(kind) ==
    /\ triggerConf.rev <= MaxEdits
    /\ opener = "none"
    /\ opening # 0 /\ projectOf[opening] = "own"
    /\ triggerConf' = [kind |-> kind, rev |-> triggerConf.rev + 1]
    /\ UNCHANGED <<policy, opening, projectOf, opener, triggerRt, triggerThr, triggered>>

HasRuntime(g) == g # 0 /\ projectOf[g] = "own"

\* stop: the event is set and the host is told to quit.
StopRuntime(g) ==
    IF HasRuntime(g)
    THEN /\ triggerRt' = [triggerRt EXCEPT ![g].stop = TRUE]
         /\ triggerThr' = Quit(triggerThr, g)
    ELSE UNCHANGED <<triggerRt, triggerThr>>

\* open: another project's triggers are stopped before the generation changes, the
\* same project's afterwards.
open_project(p) ==
    /\ opener = "none"
    /\ opening < MaxOpens
    /\ opener' = p
    /\ StopRuntime(opening)
    /\ IF opening # 0 /\ projectOf[opening] = p
       THEN /\ opening' = opening + 1
            /\ projectOf' = [projectOf EXCEPT ![opening + 1] = p]
       ELSE UNCHANGED <<opening, projectOf>>
    /\ UNCHANGED <<triggerConf, policy, triggered>>

JoinedLoop(g) == triggerThr[<<g, Loop>>].at \in {"off", "planning"} \/ ~QuickStarts

\* stop has waited for both threads; the new runtime starts.
opened_project ==
    LET g == IF opening # 0 /\ projectOf[opening] = opener THEN opening - 1 ELSE opening
        new == IF opening # 0 /\ projectOf[opening] = opener THEN opening ELSE opening + 1
    IN
    /\ opener # "none"
    /\ HasRuntime(g) => JoinedHost(<<g, triggerRt[g].host>>) /\ JoinedLoop(g)
    /\ opening' = new
    /\ projectOf' = [projectOf EXCEPT ![new] = opener]
    /\ opener' = "none"
    /\ triggerThr' = IF opener = "own"
                     THEN [triggerThr EXCEPT ![<<new, Loop>>].at = "waiting"]
                     ELSE triggerThr
    /\ UNCHANGED <<triggerConf, policy, triggerRt, triggered>>

----------------------------------------------------------------------------
Dispatching(t) ==
    pressed(t) \/ decide(t) \/ plan(t) \/ start_run(t) \/ remember(t) \/ host_quits(t)

Polling(g) ==
    \/ poll(g) \/ read_configuration(g) \/ replace_host(g) \/ scan(g)
    \/ debounce_passes(g) \/ cooldown_passes(g)

TriggerNext ==
    \/ \E t \in TriggerThreads : Dispatching(t)
    \/ \E g \in Openings : Polling(g)
    \/ \E r \in 1..MaxTriggered : triggered_ends(r)
    \/ \E kind \in {"global_hotkey", "filesystem", "none"} : save_trigger(kind)
    \/ \E p \in {"own", "other"} : open_project(p)
    \/ opened_project

TriggerSpec == TriggerInit /\ [][TriggerNext]_triggerVars

----------------------------------------------------------------------------
(* Properties.                                                             *)

(* A trigger that skips while it runs never has two runs of one opening in  *)
(* progress, whichever thread it is dispatched by and however its kind is   *)
(* edited meanwhile.                                                        *)
SkipMeansOne ==
    policy = "skip_if_running" => \A g \in Openings : Cardinality(RunOf(g)) <= 1

(* No run starts from the triggers of a project once another project is     *)
(* open: stop waits for a start that has passed its last check, and one     *)
(* that has not fails it.                                                   *)
ClosedStartsNothing ==
    [][\A r \in 1..MaxTriggered :
          triggered[r].of = 0 /\ triggered'[r].of # 0
          => projectOf[triggered'[r].of] = projectOf[opening]]_triggerVars
=============================================================================
