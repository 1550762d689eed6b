SPECIFICATION MCSpec
CONSTANTS
  Msg <- MCMsg
  Handled <- MCHandled
  External <- MCExternal
  State <- MCState
  Zero = "none"
  Step <- MCStep
  Effect <- MCEffect
  Cmds <- MCCmds
  Source <- MCSource
  AwaitSource <- MCAwait
  Desired <- MCDesired
  Prompt <- MCPrompt
  Reports <- MCReports
  Callers <- MCCallers
  Capacity = 3
  MaxCrashes = 2
  MaxFaults = 1
  MaxLogFaults = 1
CHECK_DEADLOCK FALSE
INVARIANTS
  TypeOK
  Convergence
  LogExplainsItself
  PendingExact
  SourcesMatch
PROPERTIES
  RefinesDurableModel
  SendReturnsApplied
  WaitsEnd
