SPECIFICATION LiveSpec
CONSTANTS
  MaxTime = 5
  MaxBack = 2
  NumSessions = 2
  SessionTtl = 1
  MaxLogins = 3
  MaxIds = 3
INVARIANTS TypeOK SessionsLast SlotsAgree
PROPERTIES IdsIncrease CallReturns
CHECK_DEADLOCK FALSE
