SPECIFICATION Spec
CONSTANTS
  t1 = t1  t2 = t2  own = own  taken = taken
  Tools = {t1, t2}
  Starter = Starter
  Free = Free
  ToolNames = {own, taken}
  BuiltIn = {taken}
  MaxTools = 1
  MaxPages = 2
  PipeSize = 1
  MaxCalls = 5
INVARIANTS NobodyWaitsForTheDead
PROPERTIES ImplementsRpc StartDecided OnlyWritesBlock
CHECK_DEADLOCK FALSE
