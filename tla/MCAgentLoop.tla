---------------------------- MODULE MCAgentLoop ----------------------------
(***************************************************************************)
(* Values for the constants of AgentLoop.  Each configuration slices the    *)
(* alphabet of the model's replies, so that one question at a time is asked *)
(* of a space TLC enumerates completely.                                    *)
(***************************************************************************)
EXTENDS AgentLoop

AllVerdicts == {"passed", "skipped", "failed", "couldnotrun"}

\* A provider error and a tool error that classify_error does not tell apart
\* except by their text, an operator-actionable one, and a gated tool call.
RetriedErrors == [kind : {"other"}, sig : Sigs]
AllErrors == RetriedErrors \cup [kind : {"config", "approval"}, sig : {CHOOSE s \in Sigs : TRUE}]
=============================================================================
