SPECIFICATION Spec
CONSTANTS
  v1 = v1
  v2 = v2
  None = None
  Vals <- MCVals
  MaxPages = 3
  MaxBatchPages = 2
  GroupCommitPages = 4
  DoubleWriteSlots = 2
  OldImages <- MCOldImages
  GroupModes = {FALSE}
  DoubleWriteModes = {TRUE}
  FuzzyModes = {FALSE}
  Crashes = {"process", "power"}
  CrashPoints <- AnyPoint
  IoFaults = TRUE
  Savepoints = FALSE
  MaxLsn = 2
  MaxGen = 3
  MaxCrashes = 1
SYMMETRY Symmetry
INVARIANTS
  ReadsCommitted
  AllocationMatchesPages
PROPERTIES
  GenerationsAdvance
  ImplementsStore
