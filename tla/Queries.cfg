SPECIFICATION MCSpec
CONSTANTS
  Tables <- SmallTables
  MaxInt <- MCMaxInt
  Queries <- SoundQueries
  MaxIterations = 16
  CountWidth = 100
  True = True
  False = False
  Null = Null
  Error = Error
  None = None
  Subjects = {"optimizer", "sort", "join"}
  Inputs <- MCInputs
  Consumers <- MCConsumers
  Lefts <- MCLefts
  Rights <- MCRights
INVARIANTS
  OptimizerAnswersAlike
  ServesTheQuery
  JoinsLikeTheLoop
  NothingLeaks
PROPERTIES
  StreamEnds
CHECK_DEADLOCK FALSE
