SPECIFICATION Spec
CONSTANTS
  A = A
  B = B
  Rules <- TwoRules
  Servers <- TwoServers
  Metrics = {"cpu", "mem"}
  Values = {0, 1}
  Absent = Absent
  NoServer = NoServer
  DefaultCooldown = 2
  HistoryCap = 2
  MaxTime = 4
  MaxHistory = 6
PROPERTIES
  CooldownHonoured
CHECK_DEADLOCK FALSE
