----------------------------- MODULE MCProject -----------------------------
(* What the IDE does for an open project, for TLC: the journal under every   *)
(* fault, the triggers, the feed its author publishes, and the programs that *)
(* run.  They share no state, so each is explored on its own from the same   *)
(* initial state.                                                            *)
EXTENDS ProjectMutation, ProjectTriggers, UpdateRepository, MCProgram

VARIABLE topic   \* the part this behaviour is about

Only(name) ==
    /\ topic = name
    /\ name # "journal" => UNCHANGED vars
    /\ name # "triggers" => UNCHANGED triggerVars
    /\ name # "feed" => UNCHANGED repositoryVars
    /\ name # "program" => UNCHANGED executionVars
    /\ UNCHANGED topic

ProjectInit ==
    /\ topic \in {"journal", "triggers", "feed", "program"}
    /\ Init
    /\ TriggerInit
    /\ RepositoryInit
    /\ ExecutionInit
    /\ topic # "journal" => disk = [f \in Files |-> Absent]
    /\ topic # "triggers" => policy = "queue_one"
    /\ topic # "program" => isolated

ProjectNext ==
    \/ Only("journal") /\ Next
    \/ Only("triggers") /\ TriggerNext
    \/ Only("feed") /\ RepositoryNext
    \/ Only("program") /\ ExecutionNext

ProjectVars == <<topic, vars, triggerVars, repositoryVars, executionVars>>

ProjectSpec == ProjectInit /\ [][ProjectNext]_ProjectVars
=============================================================================
