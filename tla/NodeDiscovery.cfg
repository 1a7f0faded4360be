SPECIFICATION PairSpec
CONSTANTS
  n1 = n1
  n2 = n2
  web = web
  Nodes = {n1, n2}
  Admins <- OneServes
  NoAdmin = NoAdmin
  MaxStarts <- OneRestarts
  MaxInFlight = 2
INVARIANTS TypeOK EntriesWereSent OncePerAddress
PROPERTIES PairListed
CHECK_DEADLOCK FALSE
