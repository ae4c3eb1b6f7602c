CONSTANTS
  NUM_IDS = 7
  Chan = {c1, c2}
  NoChan = NoChan
  SCHED_SLICE = 1
  MAX_CHILDREN = 3
  SYS_NUM_IDS = 40
  SYS_MAX_CHILDREN = 16
  MaxSpawn = 3
SPECIFICATION FairSpec
INVARIANTS ReadyQueueExact CuridValid
PROPERTIES WakeupWakesAll ImplementsFifo ReadyEventuallyRuns
