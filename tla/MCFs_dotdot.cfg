SPECIFICATION Spec
CONSTANTS
  Procs = {p1}
  NoProc = NoProc
  Ninodes = 3
  NINODE = 3
  Nblocks = 4
  NDIRECT = 1
  NINDIRECT = 1
  BSIZE = 3
  Paths <- MCDeepPaths
  Ops = {"open", "unlink", "chdir"}
  Disks <- MCDeepDisks
  MaxOps = 4
INVARIANT NoFsPanic
