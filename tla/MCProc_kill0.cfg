\* kill(0), the pid of every free slot.
CONSTANTS
  NPROC = 3
  CPU = {c1, c2}
  NoCpu = NoCpu
  Ops = {"fork", "exit", "wait", "kill"}
  Status = {0}
  ForkNs = {1}
  MaxKids = 2
  KillPids = {0}
  MaxPid = 3
  Fails = {}
SPECIFICATION Spec
PROPERTY NewbornNotKilled
