CONSTANTS
  NUM_IDS = 8
  MAX_CHILDREN = 2
  SYS_NUM_IDS = 10
  SYS_MAX_CHILDREN = 3
  Norm = {2, 3, 4, 5, 6, 7, 8}
  KERN_LOW = 2
  PDE = {1, 2}
  PTE = {1, 2}
  ElfPages <- OnePage
  BootQuota = 4
  Quotas = {0, 2}
  MaxSpawn = 2
  MaxUsage = 4
  Workload = {"spawn", "layer"}
SPECIFICATION Spec
INVARIANTS PageOwnership UsageCovers
PROPERTIES MappingsPersist
