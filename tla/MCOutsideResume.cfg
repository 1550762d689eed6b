SPECIFICATION OutsideSpec
CONSTANTS
  Notes = {a}
  Apps = {p}
  Skills = {s}
  Mails = {1}
  Attached <- Attachments
  MaxRuns = 1
  MaxEdits = 1
  MaxEnds = 1
  SkillNames = {k1}
  Authors = {r1}
  MaxRemovals = 0
  MaxStops = 0
  Tabs = {b1}
  CodexTasks = {t1}
  HostLogin = FALSE
  MaxGrants = 1
  MaxRotations = 0
  MaxTurns = 1
  MaxRequests = 0
  MaxDeaths = 0
  MaxActs = 1
  Callers = {c1}
  MailKeys <- MCMailKeys
  FileKeys <- MCFileKeys
  Bytes = {"x"}
  MaxCalls = 1
  MaxMails = 1
  MaxChanges = 1
  MaxFaults = 0
  MaxStimuli = 1
  MaxTapeRuns = 1
CHECK_DEADLOCK FALSE
PROPERTIES
  ResumedKeepsOut
