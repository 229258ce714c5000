SPECIFICATION FairSpec
CONSTANTS
  Clients = {c1, c2}
  BroadcastCap = 1
  SendCap = 1
  MaxMessages = 3
INVARIANTS
  TypeOK
  NoHoles
  ClosedOnce
PROPERTIES
  PumpsEnd
CHECK_DEADLOCK FALSE
