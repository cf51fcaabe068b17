SPECIFICATION Spec
CONSTANTS
  k1 = k1  k2 = k2  h1 = h1  h2 = h2
  NoKey = NoKey
  Keys = {k1, k2}
  Handlers = {h1, h2}
  GuestTurns = 1
  OwnerTurns = 2
  PersistTurns = 1
  MaxSessions = 1
  MaxTurns = 2
CHECK_DEADLOCK FALSE
INVARIANTS NoTurnLost ClearedStaysCleared CleanMeansSaved
PROPERTIES TurnsReachDisk
