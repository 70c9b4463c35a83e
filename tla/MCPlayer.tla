------------------------------ MODULE MCPlayer ------------------------------
(* The player for TLC: the hub with its gateway, and below it the sessions   *)
(* and workers that runs are made of, each on its own from the same state.   *)
EXTENDS MCHub, RuntimeSession

VARIABLE topic   \* the part this behaviour is about

PlayerInit ==
    /\ topic \in {"hub", "runtime"}
    /\ HubInit
    /\ RuntimeInit

\* Every execution has come and gone: nothing more is to happen.
executionsOver == \A r \in Runs : session[r].at \in {"closed", "removed"} /\ ~Alive(r)

PlayerNext ==
    /\ UNCHANGED topic
    /\ \/ topic = "hub" /\ HubNext /\ UNCHANGED runtimeVars
       \/ topic = "runtime" /\ RuntimeNext /\ UNCHANGED allVars
       \/ topic = "runtime" /\ executionsOver /\ UNCHANGED <<allVars, runtimeVars>>

PlayerSpec == PlayerInit /\ [][PlayerNext]_<<topic, allVars, runtimeVars>>
=============================================================================
