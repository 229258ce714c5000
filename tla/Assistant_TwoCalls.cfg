SPECIFICATION Spec
CONSTANTS
  Pages = {p1, p2}
  Convs = {a, b}
  None = None
  Sent = Sent
  Failed = Failed
  MaxTurns = 2
  Calls = {k1, k2}
SYMMETRY PageOrId
INVARIANTS
  ShownIsStored
  TurnsOnce
