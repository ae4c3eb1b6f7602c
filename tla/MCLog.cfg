CONSTANTS
  Proc = {p1, p2}
  Block = {b1, b2}
  Val = {v1, v2}
  NoBuf = NoBuf
  LOGSIZE = 2
SPECIFICATION FairSpec
INVARIANTS OneTransaction
PROPERTIES CrashAtomic WaiterWoken
