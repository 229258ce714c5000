------------------------- MODULE MCTerminalSessions -------------------------
(* TerminalSessions for TLC: symmetry, for a run without liveness. *)
EXTENDS TerminalSessions, TLC

Symmetric == Permutations(Browsers) \cup Permutations(Loops)
=============================================================================
