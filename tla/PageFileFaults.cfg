SPECIFICATION FairSpec
CONSTANTS
  v1 = v1
  v2 = v2
  None = None
  Vals <- OneVal
  MaxPages = 2
  MaxBatchPages = 3
  GroupCommitPages = 3
  DoubleWriteSlots = 2
  OldImages <- MCOldImages
  GroupModes = {TRUE, FALSE}
  DoubleWriteModes = {TRUE}
  FuzzyModes = {TRUE, FALSE}
  Crashes = {"process", "power"}
  CrashPoints <- AnyPoint
  IoFaults = TRUE
  Savepoints = FALSE
  MaxLsn = 2
  MaxGen = 3
  MaxCrashes = 0
INVARIANTS
  IInv
PROPERTIES
  RollbackKeepsJournal
  HandlersReturn
