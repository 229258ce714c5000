-------------------------- MODULE MCTerminalPanel --------------------------
(* TerminalPanel for TLC: one suggestion for the server of the panel, one for  *)
(* another.                                                                    *)
EXTENDS TerminalPanel

CONSTANTS local, remote, h1, h2

MCHintServer == [h \in {h1, h2} |-> IF h = h1 THEN local ELSE remote]
=============================================================================
