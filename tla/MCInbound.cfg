\* A poller, a guard of one run, a human, a death and a mail that fails.
SPECIFICATION FairSpec
CONSTANTS
  Mechanisms = {"fastmail"}
  Envelopes <- MCEnvelopes
  Allowed = {"owner"}
  Outcomes = {"reply", "request", "failed"}
  LoopGuard = 1
  Twice = FALSE
  MaxMails = 2
  MaxAnswers = 1
  MaxCrashes = 1
  MaxFaults = 1
CHECK_DEADLOCK FALSE
INVARIANTS
  TypeOK
  TakenUpOnce
  GuardHolds
PROPERTIES
  TurnsEnd
