SPECIFICATION Spec
CONSTANTS
  MaxTurns = 2
  Plans <- MCUndisturbed
  Notes <- MCNotes
  Lesson = "lesson"
  Domains = {"a.test"}
  FirstDomain = "a.test"
  Overlap = TRUE
CHECK_DEADLOCK FALSE
INVARIANTS
  ReplyIsTheTurns
