SPECIFICATION Spec
CONSTANTS
  MaxTurns = 2
  Plans <- MCTurns
  Notes <- MCNotes
  Lesson = "lesson"
  Domains = {"a.test"}
  FirstDomain = "a.test"
  Overlap = FALSE
CHECK_DEADLOCK FALSE
INVARIANTS
  TypeOK
  NothingOwedIsLost
  ReplyIsTheTurns
  RepliesThread
  NotesOnlyDropped
PROPERTIES
  RefinesDelivery
  LosesOnlyLateWrites
