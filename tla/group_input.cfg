SPECIFICATION Spec
CONSTANTS
  Updates <- FourUpdates
  Prompts <- TwoPrompts
  MaxCancels = 1
  MaxFaults = 1
  MaxLost = 1
  MaxMoves = 1
INVARIANTS TypeOK OncePerPrompt
PROPERTIES CancelHolds SettingsOfApproved PressIsExact
CHECK_DEADLOCK FALSE
