----------------------------- MODULE MCServices -----------------------------
(* Services for TLC: triggers of schedules, dispatches to another host,      *)
(* pairing, messages while permissions change, and the editing of programs. *)
(* What is asked of each concerns its own state, so each is explored on its  *)
(* own, from one initial state of them all.                                  *)
EXTENDS MCSchedule, LanDispatch, LanPairing, MessageRuntime, ProgramStore

CONSTANTS m1

VARIABLE topic   \* the service this behaviour is about

OneCopy == {{m1}}

Topics == {"triggers", "dispatch", "pairing", "messages", "programs"}

\* Every other service rests.
Only(name) ==
    /\ topic = name
    /\ name # "triggers" => UNCHANGED vars
    /\ name \notin {"dispatch", "messages"} => UNCHANGED lanVars
    /\ name # "dispatch" => UNCHANGED dispatchVars
    /\ name # "pairing" => UNCHANGED pairingVars
    /\ name # "messages" => UNCHANGED messageVars
    /\ name # "programs" => UNCHANGED programVars
    /\ UNCHANGED topic

ServicesInit ==
    /\ topic \in Topics
    /\ Init
    /\ LanInit(0)
    /\ DispatchInit
    /\ PairingInit
    /\ MessageInit
    /\ ProgramInit

ServicesNext ==
    \/ Only("triggers") /\ Next
    \/ Only("dispatch") /\ DispatchNext
    \/ Only("pairing") /\ PairingNext
    \/ Only("messages") /\ MessageNext
    \/ Only("programs") /\ ProgramNext

ServicesVars ==
    <<topic, vars, lanVars, dispatchVars, pairingVars, messageVars, programVars>>

ServicesSpec == ServicesInit /\ [][ServicesNext]_ServicesVars
=============================================================================
