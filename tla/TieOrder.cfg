SPECIFICATION MCSpec
CONSTANTS
  Tables <- SmallTables
  MaxInt <- MCMaxInt
  Queries <- TiedQueries
  MaxIterations = 16
  CountWidth = 100
  True = True
  False = False
  Null = Null
  Error = Error
  None = None
  Subjects = {"optimizer"}
  Inputs <- MCInputs
  Consumers <- MCConsumers
  Lefts <- MCLefts
  Rights <- MCRights
INVARIANTS
  SameAnswers
CHECK_DEADLOCK FALSE
