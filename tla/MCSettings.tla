----------------------------- MODULE MCSettings -----------------------------
(* Settings for TLC.  The identities of refreshes and of changes do not        *)
(* matter.                                                                     *)
EXTENDS Settings, TLC

Identities == Permutations(Refreshes) \cup Permutations(Changes)
=============================================================================
