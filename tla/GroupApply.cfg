SPECIFICATION Spec
CONSTANTS
  v1 = v1
  v2 = v2
  None = None
  Vals <- MCVals
  MaxPages = 2
  MaxBatchPages = 3
  GroupCommitPages = 3
  DoubleWriteSlots = 2
  OldImages <- MCOldImages
  GroupModes = {TRUE}
  DoubleWriteModes = {FALSE}
  FuzzyModes = {FALSE}
  Crashes = {"process"}
  CrashPoints = {}
  IoFaults = TRUE
  Savepoints = FALSE
  MaxLsn = 2
  MaxGen = 3
  MaxCrashes = 0
INVARIANTS
  ReadsCommitted
