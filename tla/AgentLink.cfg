SPECIFICATION FairSpec
CONSTANTS
  Conns = {c1, c2, c3}
  None = None
  HeartbeatEvery = 1
  PingEvery = 2
  HubDeadline = 6
  AgentDeadline = 9
  HandshakeTimeout = 1
  InitialBackoff = 1
  MaxBackoff = 6
  MaxHeld = 1
INVARIANTS
  TypeOK
  OnlineIsRecent
  OutageBounded
PROPERTIES
  Reconnects
