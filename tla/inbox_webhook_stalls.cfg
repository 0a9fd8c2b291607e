SPECIFICATION Spec
CONSTANTS
  w1 = w1
  w2 = w2
  Workers <- MCWorkers
  Updates <- MCUpdates
  Chat <- MCChat
  MaxAttempts = 2
  Polling = FALSE
  Stalls = TRUE
  MaxFaults = 2
  MaxRetries = 0
PROPERTIES OnlyNewestClaimSettles KeepsPromise
CHECK_DEADLOCK FALSE
