SPECIFICATION FairSpec
CONSTANTS
  Updates <- TwoUpdates
  Messages <- OneMessage
  Contents <- AdvertOrWorst
  Policies <- OnePolicy
  AIs <- NoAnswers
  Standings <- JustPlain
  Answering = FALSE
  MaxAttempts = 2
  MaxFaults = 2
  MaxMoves = 0
PROPERTIES EveryRowSettles
CHECK_DEADLOCK FALSE
