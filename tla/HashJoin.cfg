SPECIFICATION MCSpec
CONSTANTS
  Tables <- SmallTables
  MaxInt <- MCMaxInt
  Queries <- SoundQueries
  MaxIterations = 16
  CountWidth = 100
  True = True
  False = False
  Null = Null
  Error = Error
  None = None
  Subjects = {"join"}
  Inputs <- MCInputs
  Consumers <- MCConsumers
  Lefts <- SpelledLefts
  Rights <- SpelledRights
INVARIANTS
  JoinsLikeTheLoop
CHECK_DEADLOCK FALSE
