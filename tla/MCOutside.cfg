SPECIFICATION OutsideSpec
CONSTANTS
  Notes = {a}
  Apps = {p}
  Skills = {s}
  Mails = {1, 2}
  Attached <- Attachments
  MaxRuns = 2
  MaxEdits = 3
  MaxEnds = 1
  SkillNames = {k1, k2}
  Authors = {r1, r2}
  MaxRemovals = 1
  MaxStops = 1
  Tabs = {b1, b2}
  CodexTasks = {t1}
  HostLogin = TRUE
  MaxGrants = 2
  MaxRotations = 1
  MaxTurns = 2
  MaxRequests = 2
  MaxDeaths = 1
  MaxActs = 4
  Callers = {c1, c2}
  MailKeys <- MCMailKeys
  FileKeys <- MCFileKeys
  Bytes = {"x", "y"}
  MaxCalls = 3
  MaxMails = 3
  MaxChanges = 2
  MaxFaults = 2
  MaxStimuli = 4
  MaxTapeRuns = 2
CHECK_DEADLOCK FALSE
INVARIANTS
  HandedExactly
  TwinsAgree
  AuditFollowsVault
  HomesFaithful
  SkillHomesAgree
  RowsFaithful
  CursorExact
  TurnSettled
  ReplayIsReality
