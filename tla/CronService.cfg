SPECIFICATION FairSpec
CONSTANTS
  a = a
  b = b
  c = c
  CronJobs = {a, b, c}
  Files <- SomeFiles
  JobSize = 2
  NoJob = NoJob
  MaxTime = 4
  MaxBack = 1
  MaxRuns = 4
  Fires <- FireTimes
  Timers <- TimerAnswers
  OnLoad = {}
  CountGarbage <- StartAtZero
INVARIANTS TypeOK NoInstantMissed NoScriptAfterFree
PROPERTIES OncePerInstant EveryRunFinishes EndsOnSignal
CHECK_DEADLOCK FALSE
