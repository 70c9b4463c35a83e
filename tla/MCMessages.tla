----------------------------- MODULE MCMessages -----------------------------
(* The instance of MessageRuntime for TLC.                                 *)
EXTENDS MessageRuntime

CONSTANTS m1, m2

\* A batch for this host and one for the other; m1 goes abroad.
OneCopyEach == {{m1}, {m2}}

MessagesInit == MessageInit /\ LanInit(0)

AnyAnswer == Closed \cup {"waiting_read"} \cup Failures

\* Permissions, trust and the recipient's registration stay as they are (MCServices
\* changes them).  The maintenance tick runs flush_outbox again and again, every call
\* ends with an answer or after ten seconds, and time passes.
MessagesSpec ==
    /\ MessagesInit
    /\ [][MessageStep]_<<lanVars, messageVars>>
    /\ WF_<<lanVars, messageVars>>(message_tick)
    /\ \A f \in Flushers :
          /\ WF_<<lanVars, messageVars>>(select(f))
          /\ WF_<<lanVars, messageVars>>(\E row \in flush[f].rows : pass_over(f, row))
          /\ WF_<<lanVars, messageVars>>(\E c \in Conns : \E outcome \in AnyAnswer : use_answer(f, c, outcome))
=============================================================================
