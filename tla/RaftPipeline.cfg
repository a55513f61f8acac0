SPECIFICATION Spec
CONSTANTS
  s1 = s1
  s2 = s2
  s3 = s3
  Server = {s1, s2, s3}
  Command = {a}
  None = None
  MaxTerm = 1
  MaxLog = 2
  MaxCalls = 3
  MaxDue = 1000
  MaxCrashes = 0
  Campaigners <- InTurns
  Links <- AllLinked
VIEW NoCrashView
CONSTRAINT Candidates
ACTION_CONSTRAINT Directed
INVARIANTS
  CommittedOnMajority
CHECK_DEADLOCK FALSE
