SPECIFICATION FairSpec
CONSTANTS
  a = a
  b = b
  c = c
  CronJobs = {a, b, c}
  Files <- OneFile
  JobSize = 2
  NoJob = NoJob
  MaxTime = 3
  MaxBack = 0
  MaxRuns = 4
  Fires <- FireTimes
  Timers <- TimerAnswers
  OnLoad = {}
  CountGarbage <- StartAnywhere
PROPERTY EveryRunFinishes
CHECK_DEADLOCK FALSE
