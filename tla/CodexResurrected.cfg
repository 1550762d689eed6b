SPECIFICATION CodexSpec
CONSTANTS
  Tabs = {b1}
  CodexTasks = {t1}
  HostLogin = FALSE
  MaxGrants = 1
  MaxRotations = 1
  MaxTurns = 1
  MaxRequests = 2
  MaxDeaths = 0
  MaxActs = 4
CHECK_DEADLOCK FALSE
PROPERTIES
  NeverResurrected
