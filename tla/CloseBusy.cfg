SPECIFICATION FairSpec
CONSTANTS
  Sessions = {a, b}
  Scripts = {}
  Backups = {}
  MaxRequests = 2
  MaxSessions = 2
  QueueLimit = 3
  Habits = {"closeBusy"}
  EngineFaults = FALSE
  None = None
INVARIANTS
  LockHolderCanRelease
