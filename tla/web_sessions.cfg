SPECIFICATION Spec
CONSTANTS
  q1 = q1
  q2 = q2
  s1 = s1
  s2 = s2
  Users <- OneUser
  Requests <- TwoRequests
  Sessions <- TwoSessions
  Tickets <- OneTicket
  MaxSecrets = 1
  MaxSaves = 2
  MaxFaults = 1
  MaxGenerations = 1
SYMMETRY Symmetry
INVARIANTS TypeOK DeadSecretsStayDead OnlyAdminsHaveSecrets RevokedStaysRevoked OneSessionPerTicket
PROPERTIES SavesKeepEachOther
CHECK_DEADLOCK FALSE
