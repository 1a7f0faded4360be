SPECIFICATION FairSpec
CONSTANTS
  c1 = c1
  c2 = c2
  NoJob = NoJob
  NoOne = NoOne
  Workers = {w1, w2}
  Clients = {c1, c2}
  Jobs = {j1, j2, j3}
  Calls <- PlainCalls
PROPERTIES EveryJobRuns WaitReturns DestroyReturns
CHECK_DEADLOCK FALSE
