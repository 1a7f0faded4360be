SPECIFICATION Spec
CONSTANTS
  c1 = c1
  c2 = c2
  NoJob = NoJob
  NoOne = NoOne
  Workers = {w1, w2}
  Clients = {c1, c2}
  Jobs = {j1}
  Calls <- PlainCalls
INVARIANT NoUseAfterFree
CHECK_DEADLOCK FALSE
