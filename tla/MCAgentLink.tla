----------------------------- MODULE MCAgentLink -----------------------------
(* AgentLink for TLC. *)
EXTENDS AgentLink
=============================================================================
