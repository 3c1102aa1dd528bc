SPECIFICATION Spec
CONSTANTS
  v1 = v1
  v2 = v2
  None = None
  Vals <- MCVals
  MaxPages = 3
  MaxBatchPages = 3
  GroupCommitPages = 5
  DoubleWriteSlots = 2
  OldImages <- MCOldImages
  GroupModes = {TRUE}
  DoubleWriteModes = {FALSE}
  FuzzyModes = {FALSE}
  Crashes = {"process", "power"}
  CrashPoints <- AnyPoint
  IoFaults = FALSE
  Savepoints = FALSE
  MaxLsn = 2
  MaxGen = 3
  MaxCrashes = 1
SYMMETRY Symmetry
INVARIANTS
  ReadsCommitted
  JournalCutWhenApplied
