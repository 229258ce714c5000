SPECIFICATION Spec
CONSTANTS
  Ids = {t1}
  Browsers = {b1}
  Loops = {l1}
  NoBrowser = NoBrowser
  NoId = NoId
  NoLoop = NoLoop
  Ptys = {y1}
  NoPty = NoPty
  RunOnce = RunOnce
  QueueCap = 1
INVARIANTS
  OneWriter
