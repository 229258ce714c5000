\* Two remote servers, two agent sessions and one delete request: a session can
\* be kicked, kick, or be cut off by the delete, for the same server or not.
SPECIFICATION FairSpec
CONSTANTS
  Servers = {s1, s2}
  LocalServer = local
  Sessions = {h1, h2}
  Deleters = {d1}
  NoServer = NoServer
  NoSession = NoSession
INVARIANTS
  OpenIsReachable
  RegisteredIsServed
  OnlineHasHandler
  CacheIsTable
PROPERTIES
  DirectorySpec
  KickedFinishes
  StatusHeals
