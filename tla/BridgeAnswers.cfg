SPECIFICATION FairSpec
CONSTANTS
  Sessions = {a, b}
  Scripts = {y}
  Backups = {x}
  MaxRequests = 2
  MaxSessions = 2
  QueueLimit = 3
  Habits <- ClientHabits
  EngineFaults = TRUE
  None = None
INVARIANTS
  TurnIsReleased
PROPERTIES
  Answered
