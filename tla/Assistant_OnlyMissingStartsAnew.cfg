SPECIFICATION Spec
CONSTANTS
  Pages = {p1, p2}
  Convs = {a, b}
  None = None
  Sent = Sent
  Failed = Failed
  MaxTurns = 3
  Calls = {k1}
SYMMETRY PageOrId
INVARIANTS
  OnlyMissingStartsAnew
