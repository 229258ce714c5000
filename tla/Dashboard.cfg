SPECIFICATION FairSpec
CONSTANTS
  local = local
  remote = remote
  Servers = {local, remote}
  Local = local
  NoFilter = NoFilter
  None = None
  VirtualTabs = {All}
  MaxReconnectAttempts = 2
  Charts = {"cpu", "disk"}
  Sections = {"cpu", "disk", "services"}
  Gauges = {"cpu"}
  SPARK_POINTS = 2
  Carries <- MCCarries
  Windows = {1, 2}
  HistoryLen = 3
  Ranges = {"6h"}
  RangeLen = 1
  ANOMALY_MIN = 2
  MaxAsked = 2
  MaxFetches = 1
INVARIANTS
  SeriesSound
PROPERTIES
  PointsOfTab
  Converges
  Reconnects
