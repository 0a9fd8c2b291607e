SPECIFICATION Spec
CONSTANTS
  Sessions <- OneSession
  Requests <- TwoRequests
  Action <- BanAndUnmute
  Source <- AutomaticAndManual
  Deletes <- DropFirst
  FailAction <- FailBan
  MaxTries = 1
  MaxAttempts = 3
  Protections <- Both
  Listings <- Never
  Moves = {}
  MaxFaults = 1
  MaxRevokes = 1
INVARIANTS BegunUnderAuthority VerificationWaits OldRequestYields
CHECK_DEADLOCK FALSE
