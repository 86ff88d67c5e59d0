---------------------------- MODULE StatusTopic -----------------------------
(***************************************************************************)
(* What the retained <base_topic>/status message promises to subscribers,  *)
(* whatever the agent, the network and the broker do: it says "online"     *)
(* only while the broker holds a session of the agent, and when the        *)
(* session ends, cleanly or not, the topic already says "offline" or       *)
(* becomes it in the same step.                                            *)
(***************************************************************************)
VARIABLES
    present,    \* the broker holds a session of the agent
    status      \* the retained message: "none" before the first, "online", "offline"

topicVars == <<present, status>>

TopicInit == ~present /\ status = "none"

\* The agent connects; a session it takes over counts as lost.
Opens ==
    /\ present' = TRUE
    /\ status' = IF present THEN "offline" ELSE status

Announces ==
    /\ present
    /\ status' \in {"online", "offline"}
    /\ UNCHANGED present

\* The connection is gone: the broker publishes the last will.
Dies ==
    /\ present
    /\ present' = FALSE
    /\ status' = "offline"

\* A clean DISCONNECT discards the will, so the agent must have said goodbye.
Leaves ==
    /\ present
    /\ status = "offline"
    /\ present' = FALSE
    /\ UNCHANGED status

TopicNext == Opens \/ Announces \/ Dies \/ Leaves

TopicSpec == TopicInit /\ [][TopicNext]_topicVars

=============================================================================
