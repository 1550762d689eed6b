\* A death between the end of a run and tasks hearing of it.
SPECIFICATION FairSpec
CONSTANTS
  Tasks <- MCTasks
  MaxRuns = 2
  OnePerTask = TRUE
  FirstCap = 1
  Caps = {}
  FirstHarness = "claude"
  Harnesses = {}
  MaxTrouble = 1
CHECK_DEADLOCK FALSE
PROPERTIES
  HandedOver
