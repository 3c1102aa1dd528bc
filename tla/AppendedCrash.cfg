SPECIFICATION Spec
CONSTANTS
  v1 = v1
  v2 = v2
  None = None
  Vals <- OneVal
  MaxPages = 2
  MaxBatchPages = 3
  GroupCommitPages = 3
  DoubleWriteSlots = 2
  OldImages <- MCOldImages
  GroupModes = {FALSE}
  DoubleWriteModes = {FALSE}
  FuzzyModes = {FALSE}
  Crashes = {"process"}
  CrashPoints = {"appended"}
  IoFaults = FALSE
  Savepoints = FALSE
  MaxLsn = 2
  MaxGen = 3
  MaxCrashes = 1
INVARIANTS
  NeverRefused
