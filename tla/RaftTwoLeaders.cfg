SPECIFICATION CrashSpec
CONSTANTS
  s1 = s1
  s2 = s2
  s3 = s3
  Server = {s1, s2, s3}
  Command = {a}
  None = None
  MaxTerm = 1
  MaxLog = 0
  MaxCalls = 0
  MaxDue = 0
  MaxCrashes = 1
  Campaigners <- Everyone
  Links <- AllLinked
INVARIANTS
  ElectionSafety
CHECK_DEADLOCK FALSE
