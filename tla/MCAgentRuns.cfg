\* Runs of two tasks under a cap that is lifted, a stop, a death, a fault.
SPECIFICATION FairSpec
CONSTANTS
  Tasks <- MCTasks
  MaxRuns = 2
  OnePerTask = TRUE
  FirstCap = 1
  Caps <- MCLifted
  FirstHarness = "codex"
  Harnesses = {"claude"}
  MaxTrouble = 2
CHECK_DEADLOCK FALSE
INVARIANTS
  TypeOK
  LaunchedOnce
  CapHolds
  HandedOverOnce
  OneThread
PROPERTIES
  RunsEnd
