SPECIFICATION Spec
CONSTANTS
  Sessions <- OneSession
  Requests <- NoRequest
  Action <- NoFunction
  Source <- NoFunction
  Deletes <- NoFunction
  FailAction <- FailKick
  MaxTries = 1
  MaxAttempts = 3
  Protections <- Never
  Listings <- Never
  Moves = {}
  MaxFaults = 1
  MaxRevokes = 1
INVARIANTS NoOrphanBan
CHECK_DEADLOCK FALSE
