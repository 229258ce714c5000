-------------------------- MODULE ServerDirectory --------------------------
(***************************************************************************)
(* What the hub promises about the servers an operator registers, with no  *)
(* connection, lock or table in sight.  An ID is minted at most once, a    *)
(* revoked ID never comes back (not through a late heartbeat, not through  *)
(* a restart), only a live ID can be shown online, and a restart forgets   *)
(* every "online".  AgentConnections is shown to implement it.             *)
(***************************************************************************)
CONSTANT Servers    \* the IDs Mint may ever hand out

VARIABLES
  phase,    \* phase[x]: "fresh" (never minted), "live" or "revoked"
  online    \* the IDs shown online

vars == <<phase, online>>

TypeOK ==
  /\ phase \in [Servers -> {"fresh", "live", "revoked"}]
  /\ online \subseteq Servers

Init ==
  /\ phase = [x \in Servers |-> "fresh"]
  /\ online = {}

Mint(x) ==
  /\ phase[x] = "fresh"
  /\ phase' = [phase EXCEPT ![x] = "live"]
  /\ UNCHANGED online

Revoke(x) ==
  /\ phase[x] = "live"
  /\ phase' = [phase EXCEPT ![x] = "revoked"]
  /\ online' = online \ {x}

SeenOnline(x) ==
  /\ phase[x] = "live"
  /\ online' = online \cup {x}
  /\ UNCHANGED phase

SeenOffline(x) ==
  /\ online' = online \ {x}
  /\ UNCHANGED phase

Restart ==
  /\ online' = {}
  /\ UNCHANGED phase

Next ==
  \/ \E x \in Servers : Mint(x) \/ Revoke(x) \/ SeenOnline(x) \/ SeenOffline(x)
  \/ Restart

Spec == Init /\ [][Next]_vars
=============================================================================
