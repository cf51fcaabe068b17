SPECIFICATION Spec
CONSTANTS
  a = a  b = b  x1 = x1  x2 = x2
  Contents = {a, b}
  NoContent = NoContent
  Extractors = {x1, x2}
  Panel = Panel
  Top = 1
  Floor = 1
  MinRecall = 1
  HalfLife = 0
  MaxPerOwner = 1
  ListMax = 2
  ListDefault = 1
  MaxIds = 2
  MaxTime = 2
INVARIANTS AutoRowsDistinct LimitKept
PROPERTIES PruneSparesUsed GateReopens
