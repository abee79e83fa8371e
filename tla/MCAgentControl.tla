--------------------------- MODULE MCAgentControl ---------------------------
(***************************************************************************)
(* An instance of AgentControl: three agents, one of which an earlier      *)
(* process left behind, and two calls at a time.                           *)
(***************************************************************************)
EXTENDS AgentControl, TLC

CONSTANTS a1, a2, a3, p1, p2, c1, c2

MCStored == [a \in Agents |-> CASE a = a1 -> p1 [] OTHER -> NoPath]
=============================================================================
