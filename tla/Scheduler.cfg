SPECIFICATION Spec
CONSTANTS
  t1 = t1  t2 = t2
  Tasks = {t1, t2}
  NoTask = NoTask
  Crons <- AllCrons
  Limit = 1
  Day = 3
  QuietFrom = 2
  QuietTill = 1
  MaxTime = 3
PROPERTIES DueServed StopReturns
INVARIANTS OneRunPerDueTime PutOffPastQuiet
