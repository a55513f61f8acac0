SPECIFICATION ThirdTermSpec
CONSTANTS
  s1 = s1
  s2 = s2
  s3 = s3
  Server = {s1, s2, s3}
  Command = {a}
  None = None
  MaxTerm = 4
  MaxLog = 2
  MaxCalls = 3
  MaxDue = 1000
  MaxCrashes = 0
  Campaigners <- S2Last
  Links <- S1ThenS2S3
VIEW NoCrashView
CONSTRAINT Candidates
ACTION_CONSTRAINT Directed
INVARIANTS
  LogMatching
  LeaderIndicesInLog
PROPERTIES
  CommittedPrefixStable
CHECK_DEADLOCK FALSE
