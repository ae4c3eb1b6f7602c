CONSTANTS
  BSIZE = 4
  NDIRECT = 2
  NINDIRECT = 4
  IPB = 4
  BPB = 30
  size = 26
  nblocks = 14
  ninodes = 20
  nlog = 3
  Args <- Lists
  DIRSIZ = 14
  MaxBytes = 24
  MaxTrans = 4
  KernBuf = 14
  NInum = 19
  NINODE = 4
  NFILE = 3
  NOFILE = 2
  NUM_IDS = 2
  BufLen = 12
  SmallWrites = 3
  WordLen = 2
  Creates = 4
  BigWrites = 2
  HalfLen = 3
  IrefRounds = 5
  Links = 9
SPECIFICATION Spec
INVARIANTS TestsPass FsExact ImageSound
CHECK_DEADLOCK FALSE
