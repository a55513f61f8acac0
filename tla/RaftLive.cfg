SPECIFICATION LiveSpec
CONSTANTS
  s1 = s1
  s2 = s2
  s3 = s3
  Server = {s1, s2, s3}
  Command = {a}
  None = None
  MaxTerm = 3
  MaxLog = 2
  MaxCalls = 2
  MaxDue = 0
  MaxCrashes = 0
  Campaigners <- InTurns
  Links <- AllLinked
PROPERTIES
  LeaderLogReachesAll
CHECK_DEADLOCK FALSE
