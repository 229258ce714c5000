SPECIFICATION PanelSpec
CONSTANTS
  local = local
  remote = remote
  h1 = h1
  h2 = h2
  Openings = {1, 2}
  Server = local
  Hints = {h1, h2}
  HintServer <- MCHintServer
  Sizes = {small, large}
  None = None
PROPERTIES
  HintKept
