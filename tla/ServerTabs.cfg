SPECIFICATION FairTabsSpec
CONSTANTS
  Ids = {local, r1}
  Local = local
  ALL_SERVERS = all
  GITHUB_TAB = github
  MaxPolls = 2
  Requests = {q1, q2}
INVARIANTS
  SelectionListed
PROPERTIES
  Reconciles
  PanelCatchesUp
