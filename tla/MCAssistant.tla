---------------------------- MODULE MCAssistant ----------------------------
(* Assistant for TLC: the pages are alike, and so are the ids the hub mints    *)
(* and the calls.                                                              *)
EXTENDS Assistant, TLC

PageOrId == Permutations(Pages) \cup Permutations(Convs) \cup Permutations(Calls)
=============================================================================
