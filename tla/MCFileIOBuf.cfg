CONSTANTS
  p1 = p1
  p2 = p2
  Proc = {p1, p2}
  NoProc = NoProc
  NInum = 2
  NBlock = 8
  NDIRECT = 1
  NINDIRECT = 2
  BSIZE = 2
  LOGSIZE = 6
  Workload <- TwoFiles
  Byte <- OwnByte
SPECIFICATION Spec
INVARIANT OnlyWritersData
