\* Three processes whose operations write two blocks, and two crashes: the
\* second may hit the recovery from the first.
CONSTANTS
  Procs = {p1, p2, p3}
  Blocks = {b1, b2}
  Vals = {v0, v1}
  InitVal = v0
  NoVal = NoVal
  MAXOPBLOCKS = 3
  LOGSIZE = 9
  Nlog = 9
  OpWrites = 2
  MaxCrash = 2
SYMMETRY LogSymmetry
SPECIFICATION Spec
INVARIANTS
  CommitSafe
  QuiescentDurable
PROPERTIES
  AtomicDurable
