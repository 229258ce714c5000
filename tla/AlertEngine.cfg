SPECIFICATION Spec
CONSTANTS
  A = A
  B = B
  Rules <- TwoRules
  Servers <- TwoServers
  Metrics = {"cpu", "mem"}
  Values = {0, 1}
  Absent = Absent
  NoServer = NoServer
  DefaultCooldown = 2
  HistoryCap = 2
  MaxTime = 4
  MaxHistory = 4
INVARIANTS
  TypeOK
  ActiveMatchesEvents
  AlertedIffSustained
PROPERTIES
  ServersIndependent
  HistoryKeepsRecent
CHECK_DEADLOCK FALSE
