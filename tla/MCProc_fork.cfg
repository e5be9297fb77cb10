\* fork, exit, wait, kill and faults on three slots and two CPUs, with every
\* failure fork and wait handle.
CONSTANTS
  NPROC = 3
  CPU = {c1, c2}
  NoCpu = NoCpu
  Ops = {"fork", "exit", "wait", "kill", "fault"}
  Status = {0}
  ForkNs = {1}
  MaxKids = 2
  KillPids = {3}
  MaxPid = 3
  Fails = {"kalloc", "uvmcopy", "copyout"}
SYMMETRY CpuSymmetry
SPECIFICATION Spec
INVARIANTS
  TableSound
  KernelStackExclusive
  NoStop
  NoLostWakeup
PROPERTIES
  ZombieFate
