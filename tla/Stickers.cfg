SPECIFICATION StickersSpec
CONSTANTS
  i1 = i1  i2 = i2  f1 = f1  f2 = f2  r1 = r1  r2 = r2
  Ids = {i1}
  Files = {f1, f2}
  Fingerprint <- Alike
  Requests = {r1}
  External = External
  None = None
  MaxStickers = 2
  MaxSends = 2
  MaxCached = 2
SYMMETRY Symmetry
CHECK_DEADLOCK FALSE
INVARIANTS FilesKept CacheShowsPicked OneCopyUnlessLost
