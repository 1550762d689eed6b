\* Requests in any interleaving, a process death and a failing effect.
SPECIFICATION FairSpec
CONSTANTS
  Names <- MCNames
  PortMin = 1
  PortMax = 2
  MissingUnitFails = FALSE
  MaxRequests = 3
  MaxCrashes = 1
  MaxFaults = 1
CHECK_DEADLOCK FALSE
INVARIANTS
  TypeOK
  UnitMatches
PROPERTIES
  RemovalStands
  Reconciled
