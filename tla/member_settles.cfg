SPECIFICATION FairSpec
CONSTANTS
  Sessions <- OneSession
  Requests <- OneRequest
  Action <- Mute
  Source <- Automatic
  Deletes <- KeepMessage
  FailAction <- FailKick
  MaxTries = 1
  MaxAttempts = 3
  Protections <- Never
  Listings <- Never
  Moves = {"switch"}
  MaxFaults = 1
  MaxRevokes = 0
PROPERTIES SessionsSettle ReleasesSettle
