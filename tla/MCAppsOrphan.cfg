\* An install in flight when its app is removed.
SPECIFICATION Spec
CONSTANTS
  Names <- MCOne
  PortMin = 1
  PortMax = 2
  MissingUnitFails = FALSE
  MaxRequests = 3
  MaxCrashes = 0
  MaxFaults = 0
CHECK_DEADLOCK FALSE
INVARIANTS
  UnitsOwned
