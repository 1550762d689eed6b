\* Two apps are registered at once.
SPECIFICATION Spec
CONSTANTS
  Names <- MCNames
  PortMin = 1
  PortMax = 2
  MissingUnitFails = FALSE
  MaxRequests = 2
  MaxCrashes = 0
  MaxFaults = 0
CHECK_DEADLOCK FALSE
INVARIANTS
  OwnPort
