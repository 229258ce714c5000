-------------------------- MODULE AgentConnections --------------------------
(***************************************************************************)
(* The hub's side of the agent link: the server registry (hub/registry.go),*)
(* the table of attached agents (hub/connections.go), the /agent WebSocket *)
(* handler (hub/agent_ws.go), the server endpoints that mint and delete    *)
(* (api/v2_servers.go), and a restart of the hub.                          *)
(*                                                                         *)
(* Every request runs in a goroutine of its own and the code takes two     *)
(* separate locks, conns.mu and registry.mu, one after the other and never *)
(* together: an action here is one critical section, or one step between   *)
(* two of them.  A member of Sessions is one /agent request, its handler   *)
(* goroutine and its WebSocket; a member of Deleters is one DELETE         *)
(* /servers/{id} request.                                                  *)
(***************************************************************************)
CONSTANTS
  Servers,      \* IDs that Mint may hand out (uuid.NewString)
  LocalServer,  \* realtime.LocalServerID
  Sessions,     \* /agent requests in flight, each with its WebSocket
  Deleters,     \* DELETE /servers/{id} requests in flight
  NoServer,     \* "works for no server"
  NoSession     \* "no connection"

ASSUME ConnectionConstants ==
  /\ LocalServer \notin Servers
  /\ NoServer \notin Servers \cup {LocalServer}
  /\ NoSession \notin Sessions
  /\ Sessions \cap Deleters = {}

AllServers == Servers \cup {LocalServer}
Procs == Sessions \cup Deleters

VARIABLES
  rows,     \* IDs with a row in the SQLite table `servers`
  minted,   \* history: IDs that Mint has handed out
  cache,    \* Registry.cache: the Status of each ID, "none" when not cached
  byID,     \* Connections.byID: the attached connection of each ID
  open,     \* the connections whose Close has not run
  pc,       \* where each goroutine stands
  srv,      \* the server ID it works for
  victim    \* Detach's local `a`: unlinked from byID, its Close still to come

vars == <<rows, minted, cache, byID, open, pc, srv, victim>>

\* "serving": the read loop is in Read; "relaying": it is in
\* DeliverFromAgent's write to a browser, which has no deadline.
HandlerSteps == {"idle", "cached", "authed", "attached", "serving", "relaying",
                 "detaching", "closing", "marking"}
DeleterSteps == {"idle", "detaching", "closing", "marking", "deleting"}

\* NewRegistry and load: every stored server comes up offline, the local one
\* online; its row is inserted when the table has none.
Loaded(stored) ==
  [x \in AllServers |-> IF x = LocalServer THEN "online"
                        ELSE IF x \in stored THEN "offline" ELSE "none"]

Init ==
  /\ rows = {LocalServer}
  /\ minted = {}
  /\ cache = Loaded({})
  /\ byID = [x \in AllServers |-> NoSession]
  /\ open = {}
  /\ pc = [p \in Procs |-> "idle"]
  /\ srv = [p \in Procs |-> NoServer]
  /\ victim = [p \in Procs |-> NoSession]

Goto(p, step) == pc' = [pc EXCEPT ![p] = step]

\* The goroutine returns; its identity is free for another request.
Return(p) ==
  /\ Goto(p, "idle")
  /\ srv' = [srv EXCEPT ![p] = NoServer]

-----------------------------------------------------------------------------
(* The registry. *)

\* upsert: insert the row, or update everything in it but the token.
Upsert(x) == rows' = rows \cup {x}

\* Registry.Mint under registry.mu: row with a token hash, then the cache.
Mint(x) ==
  /\ x \notin minted
  /\ minted' = minted \cup {x}
  /\ Upsert(x)
  /\ cache' = [cache EXCEPT ![x] = "offline"]
  /\ UNCHANGED <<byID, open, pc, srv, victim>>

\* Mutant: the upsert runs for an ID that is no longer cached.
MarkOnlineUnchecked(x) ==
  /\ cache' = [cache EXCEPT ![x] = "online"]
  /\ Upsert(x)

\* Registry.MarkOnline: nothing for an ID that is not cached; otherwise the
\* status, and an upsert that leaves the stored token alone.
MarkOnline(x) ==
  IF cache[x] = "none" THEN UNCHANGED <<cache, rows>>
  ELSE /\ cache' = [cache EXCEPT ![x] = "online"]
       /\ Upsert(x)

\* Registry.MarkOffline: memory only.
MarkOffline(x) ==
  cache' = [cache EXCEPT ![x] = IF @ = "none" THEN @ ELSE "offline"]

-----------------------------------------------------------------------------
(* The /agent handler. *)

\* First half of Authenticate: the cache lookup under registry.mu.  A session's
\* name is used again only when no Detach still holds its old connection.
LookUp(h, x) ==
  /\ pc[h] = "idle"
  /\ \A p \in Procs : victim[p] # h
  /\ cache[x] # "none"
  /\ Goto(h, "cached")
  /\ srv' = [srv EXCEPT ![h] = x]
  /\ UNCHANGED <<rows, minted, cache, byID, open, victim>>

\* Second half, outside the lock: the token hash is read from the table and
\* compared.
CheckToken(h) ==
  /\ pc[h] = "cached"
  /\ srv[h] \in rows
  /\ Goto(h, "authed")
  /\ UNCHANGED <<rows, minted, cache, byID, open, srv, victim>>

\* The row is gone, the query fails or the token is wrong (401); or the
\* upgrade of an authenticated request fails.
Refuse(h) ==
  /\ pc[h] \in {"cached", "authed"}
  /\ Return(h)
  /\ UNCHANGED <<rows, minted, cache, byID, open, victim>>

\* Mutant: the old connection is replaced and not closed.
AttachKeepsOld(h) ==
  /\ pc[h] = "authed"
  /\ open' = open \cup {h}
  /\ byID' = [byID EXCEPT ![srv[h]] = h]
  /\ Goto(h, "attached")
  /\ UNCHANGED <<rows, minted, cache, srv, victim>>

\* Attach under conns.mu: closes the connection found under the ID and takes
\* its place.
Attach(h) ==
  /\ pc[h] = "authed"
  /\ open' = (open \ {byID[srv[h]]}) \cup {h}
  /\ byID' = [byID EXCEPT ![srv[h]] = h]
  /\ Goto(h, "attached")
  /\ UNCHANGED <<rows, minted, cache, srv, victim>>

\* Attach after conns.mu is released: MarkOnline, and the write pump starts.
ReportAttached(h) ==
  /\ pc[h] = "attached"
  /\ MarkOnline(srv[h])
  /\ Goto(h, "serving")
  /\ UNCHANGED <<minted, byID, open, srv, victim>>

\* Mutant: a heartbeat is read and ignored.
HeartbeatIgnored(h) ==
  /\ pc[h] = "serving"
  /\ UNCHANGED vars

\* The read loop takes a HEARTBEAT.  A frame that was already buffered is still
\* read after Close.
Heartbeat(h) ==
  /\ pc[h] = "serving"
  /\ MarkOnline(srv[h])
  /\ UNCHANGED <<minted, byID, open, pc, srv, victim>>

\* The read loop takes a TERMINAL_OUTPUT or a TERMINAL_EXIT of a session with a
\* browser: it writes to that browser before it reads again.
Relay(h) ==
  /\ pc[h] = "serving"
  /\ Goto(h, "relaying")
  /\ UNCHANGED <<rows, minted, cache, byID, open, srv, victim>>

\* The write returns, in time or with an error.  Nothing makes it: closing the
\* agent's own connection does not reach the browser's.
Relayed(h) ==
  /\ pc[h] = "relaying"
  /\ Goto(h, "serving")
  /\ UNCHANGED <<rows, minted, cache, byID, open, srv, victim>>

\* The write meets another goroutine's write to the same browser and panics:
\* the handler unwinds into its deferred Detach, and net/http recovers.
RelayPanics(h) ==
  /\ pc[h] = "relaying"
  /\ Goto(h, "detaching")
  /\ UNCHANGED <<rows, minted, cache, byID, open, srv, victim>>

\* The write pump's WriteJSON or ping fails: it closes the connection.
WriteFails(h) ==
  /\ pc[h] \in {"serving", "relaying", "detaching"}
  /\ open' = open \ {h}
  /\ UNCHANGED <<rows, minted, cache, byID, pc, srv, victim>>

\* Mutant: the deferred Detach is missing.
ReadFailsNoDefer(h) ==
  /\ pc[h] = "serving"
  /\ Return(h)
  /\ open' = open \ {h}
  /\ UNCHANGED <<rows, minted, cache, byID, victim>>

\* Mutant: Close does not wake the reader.
ReadFailsOnlyOpen(h) ==
  /\ h \in open
  /\ pc[h] = "serving"
  /\ Goto(h, "detaching")
  /\ UNCHANGED <<rows, minted, cache, byID, open, srv, victim>>

\* Read returns an error: the peer left, the 60 s deadline passed, or the
\* connection was closed.  The handler returns into its deferred Detach.
ReadFails(h) ==
  /\ pc[h] = "serving"
  /\ Goto(h, "detaching")
  /\ UNCHANGED <<rows, minted, cache, byID, open, srv, victim>>

-----------------------------------------------------------------------------
(* Detach(serverID), called by a handler that ends and by a delete request. *)

\* Mutant: nothing under the ID, so Detach returns early and marks nothing.
DetachUnlinkEarlyReturn(p) ==
  /\ pc[p] = "detaching"
  /\ victim' = [victim EXCEPT ![p] = byID[srv[p]]]
  /\ byID' = [byID EXCEPT ![srv[p]] = NoSession]
  /\ IF byID[srv[p]] = NoSession /\ p \in Sessions THEN Return(p)
     ELSE Goto(p, "closing") /\ UNCHANGED srv
  /\ UNCHANGED <<rows, minted, cache, open>>

\* Under conns.mu: whatever connection is under the ID is taken out.
DetachUnlink(p) ==
  /\ pc[p] = "detaching"
  /\ victim' = [victim EXCEPT ![p] = byID[srv[p]]]
  /\ byID' = [byID EXCEPT ![srv[p]] = NoSession]
  /\ Goto(p, "closing")
  /\ UNCHANGED <<rows, minted, cache, open, srv>>

DetachClose(p) ==
  /\ pc[p] = "closing"
  /\ open' = open \ {victim[p]}
  /\ victim' = [victim EXCEPT ![p] = NoSession]
  /\ Goto(p, "marking")
  /\ UNCHANGED <<rows, minted, cache, byID, srv>>

DetachMark(p) ==
  /\ pc[p] = "marking"
  /\ MarkOffline(srv[p])
  /\ IF p \in Sessions THEN Return(p)
     ELSE Goto(p, "deleting") /\ UNCHANGED srv
  /\ UNCHANGED <<rows, minted, byID, open, victim>>

-----------------------------------------------------------------------------
(* The delete handler. *)

\* The request names any ID, the local one included, and Detach comes first.
DeleteRequest(d, x) ==
  /\ pc[d] = "idle"
  /\ srv' = [srv EXCEPT ![d] = x]
  /\ Goto(d, "detaching")
  /\ UNCHANGED <<rows, minted, cache, byID, open, victim>>

\* Mutant: the row goes and the cache entry stays.
RemoveRowOnly(d) ==
  /\ pc[d] = "deleting"
  /\ srv[d] # LocalServer
  /\ cache[srv[d]] # "none"
  /\ rows' = rows \ {srv[d]}
  /\ Return(d)
  /\ UNCHANGED <<minted, cache, byID, open, victim>>

\* Registry.Delete under registry.mu: table first, then cache.
Remove(d) ==
  /\ pc[d] = "deleting"
  /\ srv[d] # LocalServer
  /\ cache[srv[d]] # "none"
  /\ rows' = rows \ {srv[d]}
  /\ cache' = [cache EXCEPT ![srv[d]] = "none"]
  /\ Return(d)
  /\ UNCHANGED <<minted, byID, open, victim>>

\* Delete refuses the local server and an unknown ID, and the statement may fail.
RefuseDelete(d) ==
  /\ pc[d] = "deleting"
  /\ Return(d)
  /\ UNCHANGED <<rows, minted, cache, byID, open, victim>>

-----------------------------------------------------------------------------
\* The hub process dies and starts again: the table is all that survives.
Restart ==
  /\ cache' = Loaded(rows)
  /\ byID' = [x \in AllServers |-> NoSession]
  /\ open' = {}
  /\ pc' = [p \in Procs |-> "idle"]
  /\ srv' = [p \in Procs |-> NoServer]
  /\ victim' = [p \in Procs |-> NoSession]
  /\ UNCHANGED <<rows, minted>>

RelayNext(h) == Relay(h) \/ Relayed(h) \/ RelayPanics(h)

HandlerNext(h) ==
  \/ \E x \in Servers : LookUp(h, x)
  \/ CheckToken(h)
  \/ Refuse(h)
  \/ Attach(h)
  \/ ReportAttached(h)
  \/ Heartbeat(h)
  \/ RelayNext(h)
  \/ WriteFails(h)
  \/ ReadFails(h)

DetachNext(p) == DetachUnlink(p) \/ DetachClose(p) \/ DetachMark(p)

DeleterNext(d) ==
  \/ \E x \in AllServers : DeleteRequest(d, x)
  \/ Remove(d)
  \/ RefuseDelete(d)

Next ==
  \/ \E x \in Servers : Mint(x)
  \/ \E h \in Sessions : HandlerNext(h)
  \/ \E p \in Procs : DetachNext(p)
  \/ \E d \in Deleters : DeleterNext(d)
  \/ Restart

\* A started handler or request is scheduled until it returns.  A connected
\* agent sends its 10 s heartbeat in the same stream as its output, so a loop
\* that goes on reading reads one; a loop that goes on reading a closed
\* connection runs out of buffered frames and gets the error.  A write to a
\* browser is not assumed to return.
Fairness ==
  /\ \A h \in Sessions :
       /\ WF_vars(CheckToken(h) \/ Refuse(h))
       /\ WF_vars(Attach(h) \/ Refuse(h))
       /\ WF_vars(ReportAttached(h))
       /\ SF_vars(h \in open /\ Heartbeat(h))
       /\ SF_vars(h \notin open /\ ReadFails(h))
  /\ \A p \in Procs : WF_vars(DetachNext(p))
  /\ \A d \in Deleters : WF_vars(Remove(d) \/ RefuseDelete(d))

Spec == Init /\ [][Next]_vars
FairSpec == Spec /\ Fairness
-----------------------------------------------------------------------------
(* Properties. *)

\* Type invariant: what each variable of the registry, the connection table
\* and the goroutines may hold.
TypeOK ==
  /\ rows \subseteq AllServers
  /\ minted \subseteq Servers
  /\ cache \in [AllServers -> {"none", "offline", "online"}]
  /\ byID \in [AllServers -> Sessions \cup {NoSession}]
  /\ open \subseteq Sessions
  /\ pc \in [Procs -> HandlerSteps \cup DeleterSteps]
  /\ \A h \in Sessions : pc[h] \in HandlerSteps
  /\ \A d \in Deleters : pc[d] \in DeleterSteps
  /\ srv \in [Procs -> AllServers \cup {NoServer}]
  /\ \A p \in Procs : pc[p] # "idle" => srv[p] \in AllServers
  /\ victim \in [Procs -> Sessions \cup {NoSession}]

\* No connection leaks and none is orphaned: a connection whose Close has not
\* run is the one under its ID in byID, or some Detach holds it and is about to
\* close it.  So two open connections of one server exist only while a Detach
\* stands between its unlock and its Close, and a handler that returned left no
\* open WebSocket behind, whoever kicked whom (connections.go Attach, Detach).
OpenIsReachable ==
  \A h \in open :
    \/ \E p \in Procs : victim[p] = h
    \/ srv[h] \in AllServers /\ byID[srv[h]] = h

\* Every connection in byID is being served: its own handler is between Attach
\* and its deferred Detach, so SendTo never queues for a connection that nobody
\* will ever take out (connections.go, agent_ws.go).
RegisteredIsServed ==
  \A x \in AllServers : byID[x] # NoSession =>
    /\ srv[byID[x]] = x
    /\ pc[byID[x]] \in {"attached", "serving", "relaying", "detaching"}

\* A remote server is shown online only while some handler of it has still to
\* run its final MarkOffline: after the last handler returned, in whatever order
\* kicked and kicking handlers interleaved, it is offline (registry.go,
\* connections.go Detach).
OnlineHasHandler ==
  \A x \in Servers : cache[x] = "online" =>
    \E h \in Sessions :
      /\ srv[h] = x
      /\ pc[h] \in {"serving", "relaying", "detaching", "closing", "marking"}

\* The registry's cache and its table name the same servers in every state,
\* although heartbeats of deleted servers keep arriving (registry.go MarkOnline,
\* Delete, load).
CacheIsTable == rows = {x \in AllServers : cache[x] # "none"}

Phase ==
  [x \in Servers |-> IF x \notin minted THEN "fresh"
                     ELSE IF x \in rows THEN "live" ELSE "revoked"]

ShownOnline == {x \in Servers : cache[x] = "online"}

Directory == INSTANCE ServerDirectory WITH phase <- Phase, online <- ShownOnline

\* The registry implements ServerDirectory: no late heartbeat, detach or restart
\* revives a revoked server or shows it online.
DirectorySpec == Directory!Spec

InLoop(h) == pc[h] \in {"serving", "relaying"}

\* No write of this handler to a browser lasts for ever.
WritesReturn(h) == []<>(pc[h] # "relaying")

\* A kicked handler does not linger, unless a browser holds it in a write: once
\* its connection is closed it leaves its read loop, whatever it was relaying,
\* runs its Detach and returns (agent_ws.go).
KickedFinishes ==
  \A h \in Sessions :
    WritesReturn(h) => ((InLoop(h) /\ h \notin open) ~> pc[h] = "idle")

\* The wrong "offline" that a late Detach leaves on a connected server is
\* repaired by a later heartbeat, unless the connection or the server goes
\* first or a browser holds the handler in a write (agent_ws.go HEARTBEAT,
\* registry.go MarkOnline).
StatusHeals ==
  \A h \in Sessions :
    WritesReturn(h) =>
      ((InLoop(h) /\ h \in open /\ cache[srv[h]] = "offline")
         ~> (~InLoop(h) \/ h \notin open \/ cache[srv[h]] # "offline"))

\* What connections.go:13 promises, "a new connection for the same ID kicks the
\* old one": a handler that ends closes its own connection, never a newer one.
HandlerClosesOwn ==
  \A h \in Sessions : victim[h] \in {h, NoSession}

\* What registry.go:36 promises of the local server, "always considered online".
LocalAlwaysOnline == cache[LocalServer] = "online"
=============================================================================
