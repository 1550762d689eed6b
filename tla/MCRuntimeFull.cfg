SPECIFICATION Spec
CONSTANTS
  Msg <- MCMsg
  Handled <- MCHandled
  External <- MCExternal
  State <- MCState
  Zero = "none"
  Step <- MCStep
  Effect <- MCEffect
  Cmds <- MCCmds
  Source <- MCSource
  AwaitSource <- MCAwait
  Desired <- MCDesired
  Prompt <- MCPrompt
  Reports <- MCReports
  Callers = {c1, c2, c3}
  Capacity = 2
  MaxCrashes = 0
  MaxFaults = 0
  MaxLogFaults = 0
CHECK_DEADLOCK FALSE
INVARIANTS
  ReducerNeverBlocks
