SPECIFICATION FairSpec
CONSTANTS
  MaxTurns = 1
  Plans <- MCMail
  Notes <- MCNotes
  Lesson = "lesson"
  Domains = {"a.test", "b.test"}
  FirstDomain = "a.test"
  Overlap = FALSE
CHECK_DEADLOCK FALSE
INVARIANTS
  OutboxBacked
PROPERTIES
  EverythingSettles
