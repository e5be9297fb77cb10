\* forkn, waitall, wait and exit, with forkn arguments inside and outside its
\* range and every allocation failing. A CPU may panic, and then it stops.
CONSTANTS
  NPROC = 3
  CPU = {c1, c2}
  NoCpu = NoCpu
  Ops = {"forkn", "exit", "waitall", "wait"}
  Status = {0}
  ForkNs = {0, 1, 2, 3}
  MaxKids = 2
  KillPids = {}
  MaxPid = 4
  Fails = {"kalloc", "uvmcopy", "copyout"}
SYMMETRY CpuSymmetry
CHECK_DEADLOCK FALSE
SPECIFICATION Spec
INVARIANTS
  ProcInv
  
  StopsOnlyByLeak
  NoLostWakeup
  TableSound
