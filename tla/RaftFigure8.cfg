SPECIFICATION Spec
CONSTANTS
  s1 = s1
  s2 = s2
  s3 = s3
  Server = {s1, s2, s3}
  Command = {a}
  None = None
  MaxTerm = 4
  MaxLog = 1
  MaxCalls = 3
  MaxDue = 1000
  MaxCrashes = 0
  Campaigners <- TwoOfThem
  Links <- OnlyViaS3
SYMMETRY SwapS1S2
VIEW NoCrashView
CONSTRAINT Candidates
ACTION_CONSTRAINT Directed
INVARIANTS
  StateMachineSafety
  LeaderCompleteness
CHECK_DEADLOCK FALSE
