SPECIFICATION Spec
CONSTANTS
  Clients = {c1}
  BroadcastCap = 2
  SendCap = 2
  MaxMessages = 3
INVARIANTS
  SlowConsumerHarmless
CHECK_DEADLOCK FALSE
