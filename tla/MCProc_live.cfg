\* Liveness of exit, wait and kill, with a process that has children of its
\* own to give to init.
CONSTANTS
  NPROC = 3
  CPU = {c1}
  NoCpu = NoCpu
  Ops = {"fork", "wait", "kill"}
  Status = {0}
  ForkNs = {1}
  MaxKids = 2
  KillPids = {2}
  MaxPid = 3
  Fails = {}
SPECIFICATION FairSpec
PROPERTIES
  
  KillCompletes
