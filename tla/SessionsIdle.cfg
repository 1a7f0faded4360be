SPECIFICATION LiveSpec
CONSTANTS
  MaxTime = 4
  MaxBack = 0
  NumSessions = 2
  SessionTtl = 1
  MaxLogins = 2
  MaxIds = 1
PROPERTY IdleSessionsEnd
CHECK_DEADLOCK FALSE
