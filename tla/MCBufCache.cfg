CONSTANTS
  Proc = {p1, p2}
  Writer = p1
  Sector = {s1, s2, s3}
  NBUF = 2
  Val = {v1, v2}
  NoSector = NoSector
  NoProc = NoProc
  MayFail = FALSE
SPECIFICATION FairSpec
INVARIANTS OneBufferPerSector SleeperHasWaker
PROPERTIES CacheIsStore TransferEnds
