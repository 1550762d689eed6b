SPECIFICATION Spec
CONSTANTS
  MaxTurns = 1
  Plans <- MCTranscript
  Notes <- MCNotes
  Lesson = "lesson"
  Domains = {"a.test"}
  FirstDomain = "a.test"
  Overlap = FALSE
CHECK_DEADLOCK FALSE
PROPERTIES
  TranscriptsArchived
