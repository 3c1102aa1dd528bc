SPECIFICATION Spec
CONSTANTS
  v1 = v1
  v2 = v2
  None = None
  Vals <- MCVals
  MaxPages = 2
  MaxBatchPages = 3
  GroupCommitPages = 4
  DoubleWriteSlots = 2
  OldImages <- MCOldImages
  GroupModes = {FALSE}
  DoubleWriteModes = {TRUE}
  FuzzyModes = {TRUE, FALSE}
  Crashes = {"process", "power"}
  CrashPoints <- WholePoints
  IoFaults = FALSE
  Savepoints = TRUE
  MaxLsn = 3
  MaxGen = 3
  MaxCrashes = 2
SYMMETRY Symmetry
INVARIANTS
  BatchReadsPromised
  LsnFresh
  NeverRefused
  Durability
