CONSTANTS
  Proc = {p1, p2}
  MAX_ORDER = 2
  num_pages = 9
  BaseAligned = TRUE
  MetaPages = 1
  PAGE_SIZE = 2
  MaxBrk <- HeapBound
  Growth = {1, 2, 4}
  MaxCalls <- CallBound
  MaxFail = 1
  Flags <- AllFlags
  Workload = {"kernel", "pages", "bytes", "any"}
SYMMETRY ProcSymmetry
SPECIFICATION Spec
INVARIANTS LinksIntact 
