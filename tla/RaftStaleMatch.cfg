SPECIFICATION Spec
CONSTANTS
  s1 = s1
  s2 = s2
  s3 = s3
  Server = {s1, s2, s3}
  Command = {a}
  None = None
  MaxTerm = 6
  MaxLog = 3
  MaxCalls = 8
  MaxDue = 1000
  MaxCrashes = 0
  Campaigners <- Leaders
  Links <- AllLinked
VIEW NoCrashView
CONSTRAINT Candidates
ACTION_CONSTRAINT Guided
INVARIANTS
  StateMachineSafety
CHECK_DEADLOCK FALSE
