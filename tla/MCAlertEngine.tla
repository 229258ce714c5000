--------------------------- MODULE MCAlertEngine ---------------------------
(* AlertEngine for TLC: an instant rule and a rule with a duration and an   *)
(* allow-list, on two servers that report two metrics.                      *)
EXTENDS AlertEngine

CONSTANTS A, B  \* the two servers

TwoServers == {A, B}

TwoRules == <<
  [metric |-> "cpu", cond |-> ">", threshold |-> 0, duration |-> 0,
   cooldown |-> 2, servers |-> {}],
  [metric |-> "mem", cond |-> ">=", threshold |-> 1, duration |-> 1,
   cooldown |-> 0, servers |-> {A}] >>
=============================================================================
