\* The acknowledgement of an installation arrives after the app was removed.
SPECIFICATION Spec
CONSTANTS
  Names <- MCOne
  PortMin = 1
  PortMax = 2
  MissingUnitFails = FALSE
  MaxRequests = 3
  MaxCrashes = 0
  MaxFaults = 0
CHECK_DEADLOCK FALSE
PROPERTIES
  RemovalSticks
