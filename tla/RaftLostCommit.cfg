SPECIFICATION CrashSpec
CONSTANTS
  s1 = s1
  s2 = s2
  s3 = s3
  Server = {s1, s2, s3}
  Command = {a}
  None = None
  MaxTerm = 2
  MaxLog = 1
  MaxCalls = 4
  MaxDue = 0
  MaxCrashes = 1
  Campaigners <- S1ThenS3
  Links <- S2ThenGone
CONSTRAINT Candidates
ACTION_CONSTRAINT Directed
INVARIANTS
  StateMachineSafety
CHECK_DEADLOCK FALSE
