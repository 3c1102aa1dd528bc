SPECIFICATION MCSpec
CONSTANTS
  Tables <- SmallTables
  MaxInt <- MCMaxInt
  Queries <- WrappedQueries
  MaxIterations = 16
  CountWidth = 8
  True = True
  False = False
  Null = Null
  Error = Error
  None = None
  Subjects = {"optimizer"}
  Inputs <- MCInputs
  Consumers <- MCConsumers
  Lefts <- MCLefts
  Rights <- MCRights
INVARIANTS
  SameAnswers
CHECK_DEADLOCK FALSE
