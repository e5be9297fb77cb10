\* forkn when uvmcopy fails for the second child.
CONSTANTS
  NPROC = 3
  CPU = {c1, c2}
  NoCpu = NoCpu
  Ops = {"forkn", "exit", "wait"}
  Status = {0}
  ForkNs = {2}
  MaxKids = 2
  KillPids = {}
  MaxPid = 3
  Fails = {"uvmcopy"}
CHECK_DEADLOCK FALSE
SPECIFICATION Spec
INVARIANT NoPanic
