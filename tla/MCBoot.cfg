CONSTANTS
  PAGESIZE = 2
  MAXADDR = 7
  Entries <- MapEntries
  MaxEntries = 4
  NSLOTS = 3
  VM_USERLO_PI = 1
  VM_USERHI_PI = 3
  SECTOR_SIZE = 4
  MemSize = 32
  KSTACK = 2
  Disks <- KernelDisks
  NUM_CPUS = 3
  MAX_IOAPIC = 2
  Firmware <- AllMachines
  Thread = {t1, t2}
  Irq = {0, 1, 14, 15}
  MaxRaise = 1
  Lines = 1
  CAL_LATCH = 40
  CAL_MS = 2
  CAL_PIT_LOOPS = 20
  Tries = 2
  Assumed = 50
  Steps = {1, 60}
SPECIFICATION BootSpec
INVARIANTS NormIsRam UsablePagesExact KernelLoaded CpusFound UserContext NotTooSlow
PROPERTIES IrqServed
