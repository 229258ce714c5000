---------------------------- MODULE MCDashboard ----------------------------
(* Dashboard for TLC: the hub's machine reports disks and services, the other  *)
(* server does not.                                                            *)
EXTENDS Dashboard

CONSTANTS local, remote

MCCarries ==
  [s \in {local, remote} |->
     [t \in TELEMETRY_TYPES |->
        CASE t = "SYSTEM_METRICS" -> IF s = local THEN {"cpu", "disk"} ELSE {"cpu"}
          [] t = "SERVICE_STATUS" -> IF s = local THEN {"services"} ELSE {}
          [] OTHER -> {}]]
=============================================================================
