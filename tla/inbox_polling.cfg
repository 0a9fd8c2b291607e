SPECIFICATION FairSpec
CONSTANTS
  w1 = w1
  w2 = w2
  Workers <- MCWorkers
  Updates <- PairUpdates
  Chat <- PairChat
  MaxAttempts = 2
  Polling = TRUE
  Stalls = FALSE
  MaxFaults = 2
  MaxRetries = 1
INVARIANTS TypeOK NothingLost OneRunner ChatSerialUntilRetried
PROPERTIES EveryUpdateSettles
CHECK_DEADLOCK FALSE
