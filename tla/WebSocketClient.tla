-------------------------- MODULE WebSocketClient --------------------------
(***************************************************************************)
(* The browser's connection to the hub (frontend/js/utils/websocket.js):   *)
(* connect, the retry with a growing delay, and the filter in front of the *)
(* listeners.  A socket closes once and the next one is made by the timer  *)
(* its close has set, so one variable follows the whole chain.             *)
(***************************************************************************)
EXTENDS Naturals

CONSTANTS
  Servers,               \* serverIds of envelopes
  NoFilter,              \* serverFilter = null
  MaxReconnectAttempts   \* 5

ASSUME ClientConstants ==
  /\ NoFilter \notin Servers
  /\ MaxReconnectAttempts \in Nat

VARIABLES
  socket,             \* "connecting", "open", "waiting" for the timer, "stopped"
  reconnectAttempts,
  serverFilter,
  reachable,          \* the hub answers and accepts the token
  failures            \* history: closes in a row since the last open

wsVars == <<socket, reconnectAttempts, serverFilter, reachable, failures>>

TELEMETRY_TYPES == {"SYSTEM_METRICS", "SERVICE_STATUS", "DATABASE_STATUS"}

WsInit ==
  /\ socket = "connecting"
  /\ reconnectAttempts = 0
  /\ serverFilter \in Servers \cup {NoFilter}
  /\ reachable \in BOOLEAN
  /\ failures = 0

SetServerFilter(id) ==
  /\ serverFilter' = id
  /\ UNCHANGED <<socket, reconnectAttempts, reachable, failures>>

\* The hub goes away or comes back; a page is told of neither.
NetworkChanges ==
  /\ reachable' = ~reachable
  /\ UNCHANGED <<socket, reconnectAttempts, serverFilter, failures>>

\* Mutant: the attempts of an earlier outage still count.
OnOpenKeepsAttempts ==
  /\ socket = "connecting" /\ reachable
  /\ socket' = "open"
  /\ failures' = 0
  /\ UNCHANGED <<reconnectAttempts, serverFilter, reachable>>

OnOpen ==
  /\ socket = "connecting" /\ reachable
  /\ socket' = "open"
  /\ reconnectAttempts' = 0
  /\ failures' = 0
  /\ UNCHANGED <<serverFilter, reachable>>

HandleReconnect ==
  IF reconnectAttempts < MaxReconnectAttempts
  THEN socket' = "waiting" /\ reconnectAttempts' = reconnectAttempts + 1
  ELSE socket' = "stopped" /\ UNCHANGED reconnectAttempts

\* An open socket may be closed at any time, by the hub too when the browser is
\* slow; one that is connecting fails when the hub cannot be reached.
OnClose ==
  /\ \/ socket = "open"
     \/ socket = "connecting" /\ ~reachable
  /\ HandleReconnect
  /\ failures' = failures + 1
  /\ UNCHANGED <<serverFilter, reachable>>

\* The timer fires, after 3 s times the number of attempts.
Connect ==
  /\ socket = "waiting"
  /\ socket' = "connecting"
  /\ UNCHANGED <<reconnectAttempts, serverFilter, reachable, failures>>

\* The gate of onmessage: telemetry of another server stops here.
Passes(type, s) ==
  \/ serverFilter = NoFilter
  \/ type \notin TELEMETRY_TYPES
  \/ s = serverFilter

-----------------------------------------------------------------------------
\* The client by itself, whatever page uses it.
WsNext ==
  \/ OnOpen \/ OnClose \/ Connect \/ NetworkChanges
  \/ \E id \in Servers \cup {NoFilter} : SetServerFilter(id)

WsSpec == WsInit /\ [][WsNext]_wsVars

-----------------------------------------------------------------------------
(* Properties. *)

\* Type invariant: the socket, its counters and the filter.
WsTypeOK ==
  /\ socket \in {"connecting", "open", "waiting", "stopped"}
  /\ reconnectAttempts \in 0..MaxReconnectAttempts
  /\ serverFilter \in Servers \cup {NoFilter}
  /\ reachable \in BOOLEAN
  /\ failures \in 0..(MaxReconnectAttempts + 1)

\* The client stops for good only when the connection and every one of the
\* MaxReconnectAttempts retries closed with none open in between, however often it
\* was opened and closed before (onopen, handleReconnect).
GivesUpLate == socket = "stopped" => failures = MaxReconnectAttempts + 1
=============================================================================
