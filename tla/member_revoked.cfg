SPECIFICATION Spec
CONSTANTS
  Sessions <- NoSessions
  Requests <- OneRequest
  Action <- Kick
  Source <- Automatic
  Deletes <- DropMessage
  FailAction <- NoFunction
  MaxTries = 1
  MaxAttempts = 3
  Protections <- Never
  Listings <- Never
  Moves = {}
  MaxFaults = 3
  MaxRevokes = 2
INVARIANTS RevokedIsLifted FailedLeavesNothing
CHECK_DEADLOCK FALSE
