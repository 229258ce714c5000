------------------------- MODULE MCAgentConnections -------------------------
(* AgentConnections for TLC: one or two remote servers beside the local one. *)
EXTENDS AgentConnections
=============================================================================
