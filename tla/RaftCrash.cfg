SPECIFICATION CrashSpec
CONSTANTS
  s1 = s1
  s2 = s2
  s3 = s3
  Server = {s1, s2, s3}
  Command = {a}
  None = None
  MaxTerm = 2
  MaxLog = 1
  MaxCalls = 2
  MaxDue = 0
  MaxCrashes = 1
  Campaigners <- TwoOfThem
  Links <- OnlyViaS3
SYMMETRY SwapS1S2
CONSTRAINT Candidates
ACTION_CONSTRAINT DirectedSaves
INVARIANTS
  TypeOK
  UnsavedIsOwn
PROPERTIES
  StoredTermMonotonic
CHECK_DEADLOCK FALSE
