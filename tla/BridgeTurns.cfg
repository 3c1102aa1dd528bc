SPECIFICATION FairSpec
CONSTANTS
  Sessions = {a, b, c}
  Scripts = {}
  Backups = {}
  MaxRequests = 3
  MaxSessions = 2
  QueueLimit = 2
  Habits <- SerialClients
  EngineFaults = TRUE
  None = None
INVARIANTS
  TypeOK
  TransactionExclusive
  LockMatchesEngine
  LockHolderCanRelease
  WorkKeepsSession
PROPERTIES
  LockIsReleased
