SPECIFICATION FairSignInSpec
CONSTANTS
  Tabs = {t1, t2}
  NoToken = NoToken
  MaxTokens = 3
  MaxActs = 5
PROPERTIES
  Settles
  RedirectsEnd
CHECK_DEADLOCK FALSE
