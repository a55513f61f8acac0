SPECIFICATION Spec
CONSTANTS
  s1 = s1
  s2 = s2
  s3 = s3
  Server = {s1, s2, s3}
  Command = {a}
  None = None
  MaxTerm = 2
  MaxLog = 0
  MaxCalls = 0
  MaxDue = 1000
  MaxCrashes = 0
  Campaigners <- Everyone
  Links <- AllLinked
SYMMETRY Symmetry
VIEW NoCrashView
INVARIANTS
  OneVotePerTerm
  ElectionSafety
CHECK_DEADLOCK FALSE
