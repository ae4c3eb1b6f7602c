CONSTANTS
  Proc = {p1, p2}
  NoProc = NoProc
  NInum = 3
  NOFILE = 1
  NFILE = 1
  Name = {"a", "b"}
  Workload <- Workloads
SYMMETRY ProcSymmetry
SPECIFICATION Spec
INVARIANTS RefsExact IdleHoldsNothing NamesAllocated NlinkExact AssertionsHold
