SPECIFICATION Spec
CONSTANTS
  Ids = {t1}
  Browsers = {b1, b2}
  Loops = {l1, l2}
  NoBrowser = NoBrowser
  NoId = NoId
  NoLoop = NoLoop
  Ptys = {y1, y2}
  NoPty = NoPty
  RunOnce = RunOnce
  QueueCap = 1
SYMMETRY Symmetric
INVARIANTS
  TypeOK
  HeldHasKeeper
  AuditMatchesSessions
  ShellsDieWithLink
