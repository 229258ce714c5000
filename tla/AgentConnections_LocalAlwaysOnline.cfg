SPECIFICATION Spec
CONSTANTS
  Servers = {s1}
  LocalServer = local
  Sessions = {h1, h2}
  Deleters = {d1}
  NoServer = NoServer
  NoSession = NoSession
INVARIANT LocalAlwaysOnline
