SPECIFICATION Spec
CONSTANTS
  Updates <- ThreeUpdates
  Messages <- TwoMessages
  Contents <- TwoContents
  Policies <- ThreePolicies
  AIs <- Answers
  Standings <- AnyStanding
  Answering = TRUE
  MaxAttempts = 1
  MaxFaults = 1
  MaxMoves = 1
INVARIANTS TypeOK OneVerdict OnePenalty RepeatNeedsWarning EscalationEarned
CHECK_DEADLOCK FALSE
