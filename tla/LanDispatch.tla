---------------------------- MODULE LanDispatch ----------------------------
(***************************************************************************)
(* A dispatch for an instance on another host (core/vnext/                 *)
(* lan_schedule_v6.py).  The coordinator's pump sends dispatch.start with   *)
(* an identity that is the same at every attempt; the other host's gateway  *)
(* (SQLiteLocalDispatchGateway in schedule_v6.py) admits and launches it.   *)
(*                                                                         *)
(* On the other host two processes share the gateway's database: the API    *)
(* process serves the LAN and owns the runs it launches, and the Hub agent  *)
(* resets the admissions when it starts.                                    *)
(*                                                                         *)
(* The coordinator's rows are those of ScheduleService, here only as far as *)
(* pump uses them; nothing ends an accepted row, because the coordinator    *)
(* never asks dispatch.status.                                              *)
(***************************************************************************)
EXTENDS LanControl

CONSTANTS
    Jobs,            \* dispatch_id of the dispatches
    LeaseTicks,      \* DISPATCH_LEASE_MS, of both the pump and the gateway
    CommandTtl,      \* ttl of dispatch.start
    MaxLost,         \* bound: how often a pump is cut off
    MaxApiRestarts,  \* bound: how often the API process restarts
    MaxRecoveries,   \* bound: how often an agent starts
    MaxUnwritten     \* bound: how often a dispatch's started row is not written

ASSUME DispatchAssumption ==
    /\ LeaseTicks \in Nat \ {0}
    /\ CommandTtl \in Nat \ {0}
    /\ MaxLost \in Nat /\ MaxApiRestarts \in Nat
    /\ MaxRecoveries \in Nat /\ MaxUnwritten \in Nat

VARIABLES
    rows,        \* the coordinator's dispatches
    pumping,     \* the dispatch the pump is asking for, or NoJob
    admissions,  \* local_dispatch_admissions of the other host
    gate,        \* the connection that holds the gateway's lock, and its step
    started,     \* how often each dispatch has been launched on the other host
    unwritten,   \* how often the row of such a start was not written (history)
    faults       \* how often each of the other three faults has happened

dispatchVars == <<rows, pumping, admissions, gate, started, unwritten, faults>>

NoJob == "nothing"
NoGate == [step |-> "open"]

RowStatus == {"pending", "dispatching", "accepted", "rejected"}

----------------------------------------------------------------------------
DispatchInit ==
    /\ rows = [d \in Jobs |-> [status |-> "pending", lease |-> 0]]
    /\ pumping = NoJob
    /\ admissions = [d \in {} |-> NoAnswer]
    /\ gate = NoGate
    /\ started = [d \in Jobs |-> 0]
    /\ unwritten = [d \in Jobs |-> 0]
    /\ faults = [lost |-> 0, restarts |-> 0, recoveries |-> 0]

\* A call ends well before the command it carries expires: ten seconds for each
\* of its steps against thirty.
tick ==
    /\ clock_ticks
    /\ \A c \in Conns : Waiting(c) /\ conn[c].server # "finished" => conn[c].expires > time + 1
    /\ UNCHANGED dispatchVars

----------------------------------------------------------------------------
(* The coordinator: pump, through LanDispatchRouterV6.accept.              *)

\* Reserve the dispatch, after taking back a lease that has run out, and ask.
ask(d) ==
    /\ pumping = NoJob
    /\ \/ rows[d].status = "pending"
       \/ rows[d].status = "dispatching" /\ rows[d].lease <= time
    /\ rows' = [rows EXCEPT ![d] = [status |-> "dispatching", lease |-> time + LeaseTicks]]
    /\ pumping' = d
    /\ secure_request("pump", [type |-> "dispatch.start", id |-> d], CommandTtl)
    /\ UNCHANGED <<admissions, gate, started, unwritten, faults>>

\* Mutant: an answer that says "in progress" is taken for an acceptance.
RowOnAnyAnswer(outcome) ==
    CASE outcome \in {"accepted", "transient"} -> "accepted"
      [] outcome = "permanent" -> "rejected"
      [] outcome = "unreachable" -> "pending"

\* Mutant: the answer is stored as it came.
RowIsAnswer(outcome) == outcome

RowOnAnswer(outcome) ==
    CASE outcome = "accepted" -> "accepted"
      [] outcome = "permanent" -> "rejected"
      [] outcome \in {"transient", "unreachable"} -> "pending"

store_answer(c, outcome) ==
    /\ Return(c, outcome)
    /\ Owner(c) = "pump"
    /\ rows' = [rows EXCEPT ![conn[c].req.id] = [status |-> RowOnAnswer(outcome), lease |-> 0]]
    /\ pumping' = NoJob
    /\ UNCHANGED <<time, paired, granted, believed, changes, seen>>
    /\ UNCHANGED <<admissions, gate, started, unwritten, faults>>

\* The coordinator stops, or cannot store the answer: the row stays in
\* hand-over until its lease has run out.
pump_lost(c) ==
    /\ faults.lost < MaxLost
    /\ Return(c, "unreachable")
    /\ Owner(c) = "pump"
    /\ pumping' = NoJob
    /\ faults' = [faults EXCEPT !.lost = @ + 1]
    /\ UNCHANGED <<time, paired, granted, believed, changes, seen>>
    /\ UNCHANGED <<rows, admissions, gate, started, unwritten>>

----------------------------------------------------------------------------
(* The other host: LanScheduleInboundV6._start and the gateway's accept.   *)

At(c, step) == gate = [step |-> step, by |-> c]

Admit(d) ==
    [x \in DOMAIN admissions \cup {d} |->
        IF x = d THEN [status |-> "launching", lease |-> time + LeaseTicks] ELSE admissions[x]]

\* Mutant: only a launch in progress keeps a second one away.
StartedIsForgotten(d) == FALSE

HasStarted(d) == d \in DOMAIN admissions /\ admissions[d].status = "started"

IsLaunching(d) ==
    /\ d \in DOMAIN admissions
    /\ admissions[d].status = "launching"
    /\ admissions[d].lease > time

admit_command(c) ==
    /\ gate = NoGate
    /\ ServerAt(c, "authorised")
    /\ conn[c].req.type = "dispatch.start"
    /\ LET d == conn[c].req.id IN
       \/ /\ HasStarted(d)
          /\ Handle(c, "accepted")
          /\ UNCHANGED <<admissions, gate>>
       \/ /\ ~HasStarted(d) /\ IsLaunching(d)
          /\ Handle(c, "transient")
          /\ UNCHANGED <<admissions, gate>>
       \/ /\ ~HasStarted(d) /\ ~IsLaunching(d)
          /\ admissions' = Admit(d)
          /\ gate' = [step |-> "launching", by |-> c]
          /\ UNCHANGED conn
    /\ UNCHANGED <<time, paired, granted, believed, changes, seen>>
    /\ UNCHANGED <<rows, pumping, started, unwritten, faults>>

\* The transaction of the admission fails: nothing has been done.
admit_fails(c, answer) ==
    /\ gate = NoGate
    /\ ServerAt(c, "authorised")
    /\ conn[c].req.type = "dispatch.start"
    /\ Handle(c, answer)
    /\ UNCHANGED <<time, paired, granted, believed, changes, seen>>
    /\ UNCHANGED dispatchVars

launch_command(c) ==
    /\ At(c, "launching")
    /\ started' = [started EXCEPT ![conn[c].req.id] = @ + 1]
    /\ gate' = [gate EXCEPT !.step = "launched"]
    /\ UNCHANGED <<lanVars, rows, pumping, admissions, unwritten, faults>>

\* Nothing was started.  The row may be tried again; if this cannot be
\* written either, it may be tried after its lease.
launch_refused(c, answer) ==
    /\ At(c, "launching")
    /\ \/ admissions' = [admissions EXCEPT ![conn[c].req.id] = [status |-> "launch_failed", lease |-> 0]]
       \/ UNCHANGED admissions
    /\ gate' = NoGate
    /\ Handle(c, answer)
    /\ UNCHANGED <<time, paired, granted, believed, changes, seen>>
    /\ UNCHANGED <<rows, pumping, started, unwritten, faults>>

command_started(c) ==
    /\ At(c, "launched")
    /\ admissions' = [admissions EXCEPT ![conn[c].req.id] = [status |-> "started", lease |-> 0]]
    /\ gate' = NoGate
    /\ Handle(c, "accepted")
    /\ UNCHANGED <<time, paired, granted, believed, changes, seen>>
    /\ UNCHANGED <<rows, pumping, started, unwritten, faults>>

\* The second transaction fails, the run goes on: the row stays "launching",
\* and once its lease has run out the next request launches the dispatch again.
command_not_noted(c, answer) ==
    /\ At(c, "launched")
    /\ LET d == conn[c].req.id IN
       /\ unwritten[d] < MaxUnwritten
       /\ unwritten' = [unwritten EXCEPT ![d] = @ + 1]
    /\ gate' = NoGate
    /\ Handle(c, answer)
    /\ UNCHANGED <<time, paired, granted, believed, changes, seen>>
    /\ UNCHANGED <<rows, pumping, admissions, started, faults>>

\* The API process ends, with its threads, and is there again.  What it has
\* launched and not yet noted it will not note any more.
api_restarts ==
    /\ faults.restarts < MaxApiRestarts
    /\ faults' = [faults EXCEPT !.restarts = @ + 1]
    /\ conn' = [c \in Conns |->
                   IF ~IsOpen(c) \/ conn[c].server = "finished" THEN conn[c] ELSE EndServe(c, "unreachable")]
    /\ gate' = NoGate
    /\ unwritten' = [d \in Jobs |->
                        IF \E c \in Conns : At(c, "launched") /\ conn[c].req.id = d
                        THEN unwritten[d] + 1 ELSE unwritten[d]]
    /\ UNCHANGED <<time, paired, granted, believed, changes, seen>>
    /\ UNCHANGED <<rows, pumping, admissions, started>>

\* recover_host_restart in an agent that starts: the lock is the agent's own,
\* and the runs of the API process go on.
agent_recovers ==
    /\ faults.recoveries < MaxRecoveries
    /\ faults' = [faults EXCEPT !.recoveries = @ + 1]
    /\ admissions' = [d \in DOMAIN admissions |-> [status |-> "launch_failed", lease |-> 0]]
    /\ UNCHANGED <<lanVars, rows, pumping, gate, started, unwritten>>

----------------------------------------------------------------------------
Commanding(c) ==
    \/ \E outcome \in {"accepted"} \cup Failures : store_answer(c, outcome)
    \/ pump_lost(c)
    \/ admit_command(c)
    \/ launch_command(c)
    \/ command_started(c)
    \/ \E answer \in {"transient", "permanent"} :
          admit_fails(c, answer) \/ launch_refused(c, answer) \/ command_not_noted(c, answer)

\* What may go wrong between the gateway's transactions is in its own actions.
DispatchThread(c) == Thread(c) /\ (gate # NoGate => gate.by # c)

DispatchNext ==
    \/ tick
    \/ PeerDirectory /\ UNCHANGED dispatchVars
    \/ \E c \in Conns : DispatchThread(c) /\ UNCHANGED dispatchVars
    \/ \E c \in Conns : Commanding(c)
    \/ \E d \in Jobs : ask(d)
    \/ api_restarts
    \/ agent_recovers

----------------------------------------------------------------------------
(* Properties.                                                             *)

DispatchTypeOK ==
    /\ \A d \in Jobs : rows[d].status \in RowStatus /\ rows[d].lease \in Nat
    /\ pumping \in Jobs \cup {NoJob}
    /\ DOMAIN admissions \subseteq Jobs
    /\ \A d \in Jobs : started[d] \in Nat /\ unwritten[d] \in Nat

(* However often a command is repeated, after lost answers, expired leases  *)
(* and forgotten responses, the dispatch has one run: the second request    *)
(* gets the first one's result (docs/vnext/SCHEDULES.md).  A further run has *)
(* one of two causes, each once: the row of a start was not written, or an   *)
(* agent started beside the API process and took its runs for interrupted.   *)
OneRemoteRun ==
    \A d \in Jobs : started[d] <= 1 + unwritten[d] + faults.recoveries

(* What the coordinator shows as accepted has been started on the other     *)
(* host.  (The reverse fails in the code: a thread whose call has been given *)
(* up may start what another one has refused for good.)                     *)
CoordinatorIsRight ==
    \A d \in Jobs : rows[d].status = "accepted" => started[d] > 0

=============================================================================
