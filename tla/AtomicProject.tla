---------------------------- MODULE AtomicProject ----------------------------
(***************************************************************************)
(* What ProjectMutationTransaction.apply promises its callers               *)
(* (core/vnext/mutation.py: "apply a set of project-relative replacements   *)
(* as one recoverable change"): a requested change reaches the project's    *)
(* files as a whole, in one step, or not at all, also when the process      *)
(* stops; apply returns only after that step.                               *)
(***************************************************************************)
CONSTANTS Files, Contents, Absent, Writers

VARIABLES
    content,  \* the version of every file that a reopened project shows
    request   \* writer -> the change it applies

vars == <<content, request>>

Value == Contents \cup {Absent}
NoChange == [f \in {} |-> Absent]
Idle == [phase |-> "idle", change |-> NoChange]

Init ==
    /\ content \in [Files -> Value]
    /\ request = [w \in Writers |-> Idle]

Begin(w) ==
    /\ request[w] = Idle
    /\ \E S \in SUBSET Files : \E change \in [S -> Value] :
          request' = [request EXCEPT ![w] = [phase |-> "working", change |-> change]]
    /\ UNCHANGED content

Commit(w) ==
    /\ request[w].phase = "working"
    /\ content' = [f \in Files |-> IF f \in DOMAIN request[w].change
                                   THEN request[w].change[f] ELSE content[f]]
    /\ request' = [request EXCEPT ![w].phase = "committed"]

\* apply returns after the change, or raises without it.
Return(w) ==
    /\ request[w].phase \in {"working", "committed"}
    /\ request' = [request EXCEPT ![w] = Idle]
    /\ UNCHANGED content

\* The process stops.
Stop ==
    /\ request' = [w \in Writers |-> Idle]
    /\ UNCHANGED content

Next == Stop \/ \E w \in Writers : Begin(w) \/ Commit(w) \/ Return(w)

Spec == Init /\ [][Next]_vars
=============================================================================
