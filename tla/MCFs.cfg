SPECIFICATION Spec
CONSTANTS
  Procs = {p1, p2}
  NoProc = NoProc
  Ninodes = 3
  NINODE = 3
  Nblocks = 6
  NDIRECT = 1
  NINDIRECT = 1
  BSIZE = 3
  Paths <- MCPaths
  Ops = {"open", "creat", "mkdir", "mknod", "unlink", "chdir", "link", "write"}
  Disks <- MCDisks
  MaxOps = 3
SYMMETRY ProcSymmetry
INVARIANTS
  ItableSound
  CurrentSound
  DurableSound
  IputNeverBlocks
  NoFsPanic
