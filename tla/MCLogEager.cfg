CONSTANTS
  Proc = {p1, p2}
  Block = {b1}
  Val = {v1, v2}
  NoBuf = NoBuf
  LOGSIZE = 1
SPECIFICATION EagerSpec
PROPERTIES StoreChangesAtCommit
