SPECIFICATION Spec
CONSTANTS
  Sessions <- TwoSessions
  Requests <- NoRequest
  Action <- NoFunction
  Source <- NoFunction
  Deletes <- NoFunction
  FailAction <- FailKickThenMute
  MaxTries = 1
  MaxAttempts = 3
  Protections <- Never
  Listings <- Both
  Moves = {"leave", "switch"}
  MaxFaults = 2
  MaxRevokes = 1
INVARIANTS TypeOK NoOrphanMute KickIsLifted
PROPERTIES SessionsMoveOn
