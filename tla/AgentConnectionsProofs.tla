----------------------- MODULE AgentConnectionsProofs -----------------------
(***************************************************************************)
(* Proofs about AgentConnections, for any number of servers, sessions and  *)
(* delete requests.                                                        *)
(***************************************************************************)
EXTENDS AgentConnections, TLAPS

USE DEF Upsert

\* Type correctness: every variable keeps its type in every reachable state.
THEOREM TypeCorrect == Spec => []TypeOK
<1> USE ConnectionConstants DEF TypeOK, Procs, AllServers, HandlerSteps, DeleterSteps
<1>1. Init => TypeOK
  BY DEF Init, Loaded
<1>2. ASSUME TypeOK, [Next]_vars PROVE TypeOK'
  <2>1. ASSUME NEW x \in Servers, Mint(x) PROVE TypeOK'
    BY <1>2, <2>1 DEF Mint
  <2>2. ASSUME NEW h \in Sessions, NEW x \in Servers, LookUp(h, x) PROVE TypeOK'
    BY <1>2, <2>2 DEF LookUp, Goto
  <2>3. ASSUME NEW h \in Sessions, CheckToken(h) \/ Refuse(h) PROVE TypeOK'
    BY <1>2, <2>3 DEF CheckToken, Refuse, Goto, Return
  <2>4. ASSUME NEW h \in Sessions, Attach(h) PROVE TypeOK'
    BY <1>2, <2>4 DEF Attach, Goto
  <2>5. ASSUME NEW h \in Sessions, ReportAttached(h) PROVE TypeOK'
    BY <1>2, <2>5 DEF ReportAttached, MarkOnline, Goto
  <2>6. ASSUME NEW h \in Sessions, Heartbeat(h) PROVE TypeOK'
    BY <1>2, <2>6 DEF Heartbeat, MarkOnline
  <2>7. ASSUME NEW h \in Sessions, WriteFails(h) PROVE TypeOK'
    BY <1>2, <2>7 DEF WriteFails
  <2>8. ASSUME NEW h \in Sessions, ReadFails(h) PROVE TypeOK'
    BY <1>2, <2>8 DEF ReadFails, Goto
  <2>9. ASSUME NEW p \in Procs, DetachUnlink(p) PROVE TypeOK'
    BY <1>2, <2>9 DEF DetachUnlink, Goto
  <2>10. ASSUME NEW p \in Procs, DetachClose(p) PROVE TypeOK'
    BY <1>2, <2>10 DEF DetachClose, Goto
  <2>11. ASSUME NEW p \in Procs, DetachMark(p) PROVE TypeOK'
    BY <1>2, <2>11 DEF DetachMark, MarkOffline, Goto, Return
  <2>12. ASSUME NEW d \in Deleters, NEW x \in AllServers, DeleteRequest(d, x) PROVE TypeOK'
    BY <1>2, <2>12 DEF DeleteRequest, Goto
  <2>13. ASSUME NEW d \in Deleters, Remove(d) PROVE TypeOK'
    BY <1>2, <2>13 DEF Remove, Goto, Return
  <2>14. ASSUME NEW d \in Deleters, RefuseDelete(d) PROVE TypeOK'
    BY <1>2, <2>14 DEF RefuseDelete, Goto, Return
  <2>15. ASSUME Restart PROVE TypeOK'
    BY <1>2, <2>15 DEF Restart, Loaded
  <2>16. ASSUME UNCHANGED vars PROVE TypeOK'
    BY <1>2, <2>16 DEF vars
  <2>17. ASSUME NEW h \in Sessions, RelayNext(h) PROVE TypeOK'
    BY <1>2, <2>17 DEF RelayNext, Relay, Relayed, RelayPanics, Goto
  <2> HIDE DEF TypeOK
  <2>18. QED
    BY <1>2, <2>1, <2>2, <2>3, <2>4, <2>5, <2>6, <2>7, <2>8, <2>9, <2>10, <2>11,
       <2>12, <2>13, <2>14, <2>15, <2>16, <2>17
       DEF Next, HandlerNext, DetachNext, DeleterNext
<1>3. QED
  BY <1>1, <1>2, PTL DEF Spec

-----------------------------------------------------------------------------
(* Connections. *)

\* A goroutine holds an unlinked connection only between Detach's unlock and
\* its Close.
VictimWhileClosing == \A p \in Procs : pc[p] # "closing" => victim[p] = NoSession

\* The inductive invariant behind both facts about connections.
ConnInv == TypeOK /\ VictimWhileClosing /\ RegisteredIsServed /\ OpenIsReachable

LEMMA ConnInvInit == Init => ConnInv
  BY ConnectionConstants
     DEF Init, Loaded, ConnInv, TypeOK, VictimWhileClosing, RegisteredIsServed,
         OpenIsReachable, Procs, AllServers, HandlerSteps, DeleterSteps

LEMMA ConnInvStep ==
  ASSUME ConnInv, TypeOK', [Next]_vars
  PROVE  (VictimWhileClosing /\ RegisteredIsServed /\ OpenIsReachable)'
<1> DEFINE Goal == VictimWhileClosing /\ RegisteredIsServed /\ OpenIsReachable
<1> USE ConnectionConstants DEF ConnInv, TypeOK, Procs, AllServers, HandlerSteps, DeleterSteps,
        VictimWhileClosing, RegisteredIsServed, OpenIsReachable
<1>1. ASSUME NEW x \in Servers, Mint(x) PROVE Goal'
  BY ConnInv, <1>1 DEF Mint
<1>2. ASSUME NEW h \in Sessions, NEW x \in Servers, LookUp(h, x) PROVE Goal'
  BY ConnInv, <1>2 DEF LookUp, Goto
<1>3. ASSUME NEW h \in Sessions, CheckToken(h) PROVE Goal'
  BY ConnInv, <1>3 DEF CheckToken, Goto
<1>4. ASSUME NEW h \in Sessions, Refuse(h) PROVE Goal'
  BY ConnInv, <1>4 DEF Refuse, Goto, Return
<1>5. ASSUME NEW h \in Sessions, Attach(h) PROVE Goal'
  BY ConnInv, <1>5 DEF Attach, Goto
<1>6. ASSUME NEW h \in Sessions, ReportAttached(h) PROVE Goal'
  BY ConnInv, <1>6 DEF ReportAttached, MarkOnline, Goto
<1>7. ASSUME NEW h \in Sessions, Heartbeat(h) PROVE Goal'
  BY ConnInv, <1>7 DEF Heartbeat, MarkOnline
<1>8. ASSUME NEW h \in Sessions, WriteFails(h) PROVE Goal'
  BY ConnInv, <1>8 DEF WriteFails
<1>9. ASSUME NEW h \in Sessions, ReadFails(h) PROVE Goal'
  BY ConnInv, <1>9 DEF ReadFails, Goto
<1>10. ASSUME NEW p \in Procs, DetachUnlink(p) PROVE Goal'
  BY ConnInv, <1>10 DEF DetachUnlink, Goto
<1>11. ASSUME NEW p \in Procs, DetachClose(p) PROVE Goal'
  BY ConnInv, <1>11 DEF DetachClose, Goto
<1>12. ASSUME NEW p \in Procs, DetachMark(p) PROVE Goal'
  BY ConnInv, <1>12 DEF DetachMark, MarkOffline, Goto, Return
<1>13. ASSUME NEW d \in Deleters, NEW x \in AllServers, DeleteRequest(d, x) PROVE Goal'
  BY ConnInv, <1>13 DEF DeleteRequest, Goto
<1>14. ASSUME NEW d \in Deleters, Remove(d) PROVE Goal'
  BY ConnInv, <1>14 DEF Remove, Goto, Return
<1>15. ASSUME NEW d \in Deleters, RefuseDelete(d) PROVE Goal'
  BY ConnInv, <1>15 DEF RefuseDelete, Goto, Return
<1>16. ASSUME Restart PROVE Goal'
  BY ConnInv, <1>16 DEF Restart, Loaded
<1>17. ASSUME UNCHANGED vars PROVE Goal'
  BY ConnInv, <1>17 DEF vars
<1>18. ASSUME NEW h \in Sessions, RelayNext(h) PROVE Goal'
  BY ConnInv, <1>18 DEF RelayNext, Relay, Relayed, RelayPanics, Goto
<1>19. QED
  BY ConnInv, <1>1, <1>2, <1>3, <1>4, <1>5, <1>6, <1>7, <1>8, <1>9, <1>10, <1>11, <1>12, <1>13, <1>14, <1>15, <1>16, <1>17, <1>18
       DEF Next, HandlerNext, DetachNext, DeleterNext

\* No open connection leaks or is out of reach, and every registered connection
\* has its handler: the inductive invariant holds in every reachable state.
THEOREM ConnectionsSafe == Spec => [](RegisteredIsServed /\ OpenIsReachable)
<1>1. Init => ConnInv
  BY ConnInvInit
<1>2. ConnInv /\ TypeOK' /\ [Next]_vars => ConnInv'
  BY ConnInvStep DEF ConnInv
<1>3. ConnInv => RegisteredIsServed /\ OpenIsReachable
  BY DEF ConnInv
<1>4. QED
  BY <1>1, <1>2, <1>3, TypeCorrect, PTL DEF Spec

\* A connection in the table has a handler that reads it, whatever reconnects,
\* deletions and restarts went before (AgentWSHandler, Attach, Detach).
THEOREM RegisteredServed == Spec => []RegisteredIsServed
  BY ConnectionsSafe, PTL

-----------------------------------------------------------------------------
(* Registry. *)

\* Handlers work for remote servers; the local server's row is never deleted;
\* every other row was minted.  With the agreement of cache and table, this is
\* inductive, and it is what the refinement below needs.
RegInv ==
  /\ TypeOK
  /\ CacheIsTable
  /\ LocalServer \in rows
  /\ rows \ {LocalServer} \subseteq minted
  /\ \A h \in Sessions : pc[h] # "idle" => srv[h] \in Servers

LEMMA RegInvInit == Init => RegInv
<1> SUFFICES ASSUME Init PROVE RegInv
  OBVIOUS
<1> USE ConnectionConstants DEF Init, Loaded, Procs, AllServers, HandlerSteps, DeleterSteps
<1>1. TypeOK
  BY DEF TypeOK
<1>2. \A x \in AllServers : cache[x] # "none" <=> x = LocalServer
  OBVIOUS
<1>3. CacheIsTable
  BY <1>2 DEF CacheIsTable
<1>4. QED
  BY <1>1, <1>3 DEF RegInv

LEMMA RegInvStep ==
  ASSUME RegInv, TypeOK', [Next]_vars
  PROVE  RegInv'
<1> USE ConnectionConstants DEF RegInv, TypeOK, Procs, AllServers, HandlerSteps, DeleterSteps,
        CacheIsTable
<1>1. ASSUME NEW x \in Servers, Mint(x) PROVE RegInv'
  BY TypeOK', <1>1 DEF Mint
<1>2. ASSUME NEW h \in Sessions, NEW x \in Servers, LookUp(h, x) PROVE RegInv'
  BY TypeOK', <1>2 DEF LookUp, Goto
<1>3. ASSUME NEW h \in Sessions, CheckToken(h) PROVE RegInv'
  BY TypeOK', <1>3 DEF CheckToken, Goto
<1>4. ASSUME NEW h \in Sessions, Refuse(h) PROVE RegInv'
  BY TypeOK', <1>4 DEF Refuse, Goto, Return
<1>5. ASSUME NEW h \in Sessions, Attach(h) PROVE RegInv'
  BY TypeOK', <1>5 DEF Attach, Goto
<1>6. ASSUME NEW h \in Sessions, ReportAttached(h) PROVE RegInv'
  BY TypeOK', <1>6 DEF ReportAttached, MarkOnline, Goto
<1>7. ASSUME NEW h \in Sessions, Heartbeat(h) PROVE RegInv'
  BY TypeOK', <1>7 DEF Heartbeat, MarkOnline
<1>8. ASSUME NEW h \in Sessions, WriteFails(h) PROVE RegInv'
  BY TypeOK', <1>8 DEF WriteFails
<1>9. ASSUME NEW h \in Sessions, ReadFails(h) PROVE RegInv'
  BY TypeOK', <1>9 DEF ReadFails, Goto
<1>10. ASSUME NEW p \in Procs, DetachUnlink(p) PROVE RegInv'
  BY TypeOK', <1>10 DEF DetachUnlink, Goto
<1>11. ASSUME NEW p \in Procs, DetachClose(p) PROVE RegInv'
  BY TypeOK', <1>11 DEF DetachClose, Goto
<1>12. ASSUME NEW p \in Procs, DetachMark(p) PROVE RegInv'
  BY TypeOK', <1>12 DEF DetachMark, MarkOffline, Goto, Return
<1>13. ASSUME NEW d \in Deleters, NEW x \in AllServers, DeleteRequest(d, x) PROVE RegInv'
  BY TypeOK', <1>13 DEF DeleteRequest, Goto
<1>14. ASSUME NEW d \in Deleters, Remove(d) PROVE RegInv'
  BY TypeOK', <1>14 DEF Remove, Goto, Return
<1>15. ASSUME NEW d \in Deleters, RefuseDelete(d) PROVE RegInv'
  BY TypeOK', <1>15 DEF RefuseDelete, Goto, Return
<1>16. ASSUME Restart PROVE RegInv'
  BY TypeOK', <1>16 DEF Restart, Loaded
<1>17. ASSUME UNCHANGED vars PROVE RegInv'
  BY TypeOK', <1>17 DEF vars
<1>18. ASSUME NEW h \in Sessions, RelayNext(h) PROVE RegInv'
  BY TypeOK', <1>18 DEF RelayNext, Relay, Relayed, RelayPanics, Goto
<1>19. QED
  BY TypeOK', <1>1, <1>2, <1>3, <1>4, <1>5, <1>6, <1>7, <1>8, <1>9, <1>10, <1>11, <1>12, <1>13, <1>14, <1>15, <1>16, <1>17, <1>18
     DEF Next, HandlerNext, DetachNext, DeleterNext

\* The cache and the table of the registry name the same servers, always.
THEOREM RegistryAgrees == Spec => []CacheIsTable
<1>1. RegInv /\ TypeOK' /\ [Next]_vars => RegInv'
  BY RegInvStep
<1>2. RegInv => CacheIsTable
  BY DEF RegInv
<1>3. QED
  BY <1>1, <1>2, RegInvInit, TypeCorrect, PTL DEF Spec

LEMMA OnlineStep ==
  ASSUME TypeOK, TypeOK', OnlineHasHandler, [Next]_vars
  PROVE  OnlineHasHandler'
<1> USE ConnectionConstants DEF TypeOK, Procs, AllServers, HandlerSteps, DeleterSteps,
        OnlineHasHandler
<1>1. ASSUME NEW x \in Servers, Mint(x) PROVE OnlineHasHandler'
  BY OnlineHasHandler, <1>1 DEF Mint
<1>2. ASSUME NEW h \in Sessions, NEW x \in Servers, LookUp(h, x) PROVE OnlineHasHandler'
  BY OnlineHasHandler, <1>2 DEF LookUp, Goto
<1>3. ASSUME NEW h \in Sessions, CheckToken(h) PROVE OnlineHasHandler'
  BY OnlineHasHandler, <1>3 DEF CheckToken, Goto
<1>4. ASSUME NEW h \in Sessions, Refuse(h) PROVE OnlineHasHandler'
  BY OnlineHasHandler, <1>4 DEF Refuse, Goto, Return
<1>5. ASSUME NEW h \in Sessions, Attach(h) PROVE OnlineHasHandler'
  BY OnlineHasHandler, <1>5 DEF Attach, Goto
<1>6. ASSUME NEW h \in Sessions, ReportAttached(h) PROVE OnlineHasHandler'
  BY OnlineHasHandler, <1>6 DEF ReportAttached, MarkOnline, Goto
<1>7. ASSUME NEW h \in Sessions, Heartbeat(h) PROVE OnlineHasHandler'
  BY OnlineHasHandler, <1>7 DEF Heartbeat, MarkOnline
<1>8. ASSUME NEW h \in Sessions, WriteFails(h) PROVE OnlineHasHandler'
  BY OnlineHasHandler, <1>8 DEF WriteFails
<1>9. ASSUME NEW h \in Sessions, ReadFails(h) PROVE OnlineHasHandler'
  BY OnlineHasHandler, <1>9 DEF ReadFails, Goto
<1>10. ASSUME NEW p \in Procs, DetachUnlink(p) PROVE OnlineHasHandler'
  BY OnlineHasHandler, <1>10 DEF DetachUnlink, Goto
<1>11. ASSUME NEW p \in Procs, DetachClose(p) PROVE OnlineHasHandler'
  BY OnlineHasHandler, <1>11 DEF DetachClose, Goto
<1>12. ASSUME NEW p \in Procs, DetachMark(p) PROVE OnlineHasHandler'
  BY OnlineHasHandler, <1>12 DEF DetachMark, MarkOffline, Goto, Return
<1>13. ASSUME NEW d \in Deleters, NEW x \in AllServers, DeleteRequest(d, x) PROVE OnlineHasHandler'
  BY OnlineHasHandler, <1>13 DEF DeleteRequest, Goto
<1>14. ASSUME NEW d \in Deleters, Remove(d) PROVE OnlineHasHandler'
  BY OnlineHasHandler, <1>14 DEF Remove, Goto, Return
<1>15. ASSUME NEW d \in Deleters, RefuseDelete(d) PROVE OnlineHasHandler'
  BY OnlineHasHandler, <1>15 DEF RefuseDelete, Goto, Return
<1>16. ASSUME Restart PROVE OnlineHasHandler'
  BY OnlineHasHandler, <1>16 DEF Restart, Loaded
<1>17. ASSUME UNCHANGED vars PROVE OnlineHasHandler'
  BY OnlineHasHandler, <1>17 DEF vars
<1>18. ASSUME NEW h \in Sessions, RelayNext(h) PROVE OnlineHasHandler'
  BY OnlineHasHandler, <1>18 DEF RelayNext, Relay, Relayed, RelayPanics, Goto
<1>19. QED
  BY OnlineHasHandler, <1>1, <1>2, <1>3, <1>4, <1>5, <1>6, <1>7, <1>8, <1>9, <1>10, <1>11, <1>12, <1>13, <1>14, <1>15, <1>16, <1>17, <1>18
     DEF Next, HandlerNext, DetachNext, DeleterNext

\* A remote server that no handler works for any more is shown offline.
THEOREM OnlineIsServed == Spec => []OnlineHasHandler
<1>1. Init => OnlineHasHandler
  BY ConnectionConstants DEF Init, Loaded, OnlineHasHandler, AllServers
<1>2. TypeOK /\ TypeOK' /\ OnlineHasHandler /\ [Next]_vars => OnlineHasHandler'
  BY OnlineStep
<1>3. QED
  BY <1>1, <1>2, TypeCorrect, PTL DEF Spec

-----------------------------------------------------------------------------
(* Refinement. *)

\* A step that leaves the registry alone is a stutter of ServerDirectory.
LEMMA RegistryStutter ==
  ASSUME UNCHANGED <<rows, minted, cache>>
  PROVE  UNCHANGED Directory!vars
  BY DEF Directory!vars, Phase, ShownOnline

LEMMA DirectoryInit == Init => Directory!Init
<1> SUFFICES ASSUME Init PROVE Directory!Init
  OBVIOUS
<1>1. Phase = [x \in Servers |-> "fresh"]
  BY DEF Init, Phase
<1>2. ShownOnline = {}
  BY ConnectionConstants DEF Init, Loaded, ShownOnline, AllServers
<1>3. QED
  BY <1>1, <1>2 DEF Directory!Init

LEMMA DirectoryMint ==
  ASSUME RegInv, NEW x \in Servers, Mint(x)
  PROVE  Directory!Mint(x)
<1> USE ConnectionConstants DEF RegInv, TypeOK, AllServers
<1>1. Phase[x] = "fresh"
  BY DEF Mint, Phase
<1>2. Phase' = [Phase EXCEPT ![x] = "live"]
  BY DEF Mint, Phase
<1>3. x \notin rows /\ cache[x] = "none"
  BY DEF Mint, CacheIsTable
<1>4. ShownOnline' = ShownOnline
  BY <1>3 DEF Mint, ShownOnline
<1>5. QED
  BY <1>1, <1>2, <1>4 DEF Directory!Mint

LEMMA DirectorySeenOnline ==
  ASSUME RegInv, NEW h \in Sessions, ReportAttached(h) \/ Heartbeat(h)
  PROVE  srv[h] \in Servers /\ (Directory!SeenOnline(srv[h]) \/ UNCHANGED Directory!vars)
<1> USE ConnectionConstants DEF RegInv, TypeOK, AllServers
<1>1. srv[h] \in Servers
  BY DEF ReportAttached, Heartbeat
<1>2. CASE cache[srv[h]] = "none"
  BY <1>1, <1>2, RegistryStutter DEF ReportAttached, Heartbeat, MarkOnline
<1>3. CASE cache[srv[h]] # "none"
  <2>1. srv[h] \in rows /\ srv[h] \in minted
    BY <1>1, <1>3 DEF CacheIsTable
  <2>2. rows' = rows /\ minted' = minted
    <3>1. rows' = rows \cup {srv[h]} /\ minted' = minted
      BY <1>3 DEF ReportAttached, Heartbeat, MarkOnline
    <3>2. QED
      BY <2>1, <3>1
  <2>3. cache' = [cache EXCEPT ![srv[h]] = "online"]
    BY <1>3 DEF ReportAttached, Heartbeat, MarkOnline
  <2>4. ShownOnline' = ShownOnline \cup {srv[h]}
    BY <1>1, <2>3 DEF ShownOnline
  <2>5. Phase[srv[h]] = "live" /\ Phase' = Phase
    BY <1>1, <2>1, <2>2 DEF Phase
  <2>6. QED
    BY <1>1, <2>4, <2>5 DEF Directory!SeenOnline
<1>4. QED
  BY <1>2, <1>3

LEMMA DirectorySeenOffline ==
  ASSUME RegInv, NEW p \in Procs, DetachMark(p)
  PROVE  (\E x \in Servers : Directory!SeenOffline(x)) \/ UNCHANGED Directory!vars
<1> USE ConnectionConstants DEF RegInv, TypeOK, AllServers
<1>1. srv[p] \in AllServers /\ Phase' = Phase
  BY DEF DetachMark, Phase
<1>2. cache' = [cache EXCEPT ![srv[p]] = IF @ = "none" THEN @ ELSE "offline"]
  BY DEF DetachMark, MarkOffline
<1>3. ShownOnline' = ShownOnline \ {srv[p]}
  BY <1>1, <1>2 DEF ShownOnline
<1>4. CASE srv[p] \in Servers
  BY <1>1, <1>3, <1>4 DEF Directory!SeenOffline
<1>5. CASE srv[p] = LocalServer
  <2>1. ShownOnline' = ShownOnline
    BY <1>3, <1>5 DEF ShownOnline
  <2>2. QED
    BY <1>1, <2>1 DEF Directory!vars
<1>6. QED
  BY <1>1, <1>4, <1>5

LEMMA DirectoryRevoke ==
  ASSUME RegInv, NEW d \in Deleters, Remove(d)
  PROVE  srv[d] \in Servers /\ Directory!Revoke(srv[d])
<1> USE ConnectionConstants DEF RegInv, TypeOK, AllServers, Procs
<1>1. srv[d] \in Servers /\ srv[d] \in rows /\ srv[d] \in minted
  BY DEF Remove, CacheIsTable
<1>2. rows' = rows \ {srv[d]} /\ minted' = minted
  BY DEF Remove
<1>3. ShownOnline' = ShownOnline \ {srv[d]}
  BY <1>1 DEF Remove, ShownOnline
<1>4. Phase[srv[d]] = "live"
  BY <1>1 DEF Phase
<1>5. Phase' = [Phase EXCEPT ![srv[d]] = "revoked"]
  BY <1>1, <1>2 DEF Phase
<1>6. QED
  BY <1>1, <1>3, <1>4, <1>5 DEF Directory!Revoke

LEMMA DirectoryRestart ==
  ASSUME RegInv, Restart
  PROVE  Directory!Restart
<1>1. ShownOnline' = {}
  BY ConnectionConstants DEF Restart, Loaded, ShownOnline, AllServers
<1>2. QED
  BY <1>1 DEF Restart, Phase, Directory!Restart

LEMMA DirectoryStep ==
  ASSUME RegInv, [Next]_vars
  PROVE  [Directory!Next]_(Directory!vars)
<1>1. ASSUME NEW x \in Servers, Mint(x) PROVE Directory!Next
  BY <1>1, DirectoryMint DEF Directory!Next
<1>2. ASSUME NEW h \in Sessions, HandlerNext(h)
      PROVE  [Directory!Next]_(Directory!vars)
  <2>1. CASE ReportAttached(h) \/ Heartbeat(h)
    BY <2>1, DirectorySeenOnline DEF Directory!Next
  <2>2. CASE \/ \E x \in Servers : LookUp(h, x)
             \/ CheckToken(h) \/ Refuse(h) \/ Attach(h) \/ RelayNext(h)
             \/ WriteFails(h) \/ ReadFails(h)
    <3>1. UNCHANGED <<rows, minted, cache>>
      BY <2>2 DEF LookUp, CheckToken, Refuse, Attach, WriteFails, ReadFails,
                  RelayNext, Relay, Relayed, RelayPanics
    <3>2. QED
      BY <3>1, RegistryStutter
  <2>3. QED
    BY <1>2, <2>1, <2>2 DEF HandlerNext
<1>3. ASSUME NEW p \in Procs, DetachNext(p)
      PROVE  [Directory!Next]_(Directory!vars)
  <2>1. CASE DetachMark(p)
    BY <2>1, DirectorySeenOffline DEF Directory!Next
  <2>2. CASE DetachUnlink(p) \/ DetachClose(p)
    <3>1. UNCHANGED <<rows, minted, cache>>
      BY <2>2 DEF DetachUnlink, DetachClose
    <3>2. QED
      BY <3>1, RegistryStutter
  <2>3. QED
    BY <1>3, <2>1, <2>2 DEF DetachNext
<1>4. ASSUME NEW d \in Deleters, DeleterNext(d)
      PROVE  [Directory!Next]_(Directory!vars)
  <2>1. CASE Remove(d)
    BY <2>1, DirectoryRevoke DEF Directory!Next
  <2>2. CASE (\E x \in AllServers : DeleteRequest(d, x)) \/ RefuseDelete(d)
    <3>1. UNCHANGED <<rows, minted, cache>>
      BY <2>2 DEF DeleteRequest, RefuseDelete
    <3>2. QED
      BY <3>1, RegistryStutter
  <2>3. QED
    BY <1>4, <2>1, <2>2 DEF DeleterNext
<1>5. CASE Restart
  BY <1>5, DirectoryRestart DEF Directory!Next
<1>6. CASE UNCHANGED vars
  BY <1>6, RegistryStutter DEF vars
<1>7. QED
  BY <1>1, <1>2, <1>3, <1>4, <1>5, <1>6 DEF Next

\* The registry, with its locks, goroutines, heartbeats and restarts, implements
\* ServerDirectory: revocation is final and a restart forgets every "online".
THEOREM Refinement == Spec => DirectorySpec
<1>1. RegInv /\ TypeOK' /\ [Next]_vars => RegInv'
  BY RegInvStep
<1>2. RegInv /\ [Next]_vars => [Directory!Next]_(Directory!vars)
  BY DirectoryStep
<1>3. QED
  BY <1>1, <1>2, RegInvInit, TypeCorrect, DirectoryInit, PTL
     DEF Spec, DirectorySpec, Directory!Spec
=============================================================================
