---------------------------- MODULE MCServerTabs ----------------------------
(* ServerTabs for TLC. *)
EXTENDS ServerTabs
=============================================================================
