SPECIFICATION SettingsSpec
CONSTANTS
  Providers = {claude, gemini}
  Configured = {"telegram"}
  Refreshes = {r1, r2}
  Changes = {c1, c2}
SYMMETRY Identities
INVARIANTS
  PillsTrue
