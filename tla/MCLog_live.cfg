\* A log that admits two operations of one block, so that begin_op sleeps for
\* want of space as well as during a commit; operations write one block fewer
\* than MAXOPBLOCKS.
CONSTANTS
  Procs = {p1, p2, p3}
  Blocks = {b1, b2, b3}
  Vals = {v0}
  InitVal = v0
  NoVal = NoVal
  MAXOPBLOCKS = 2
  LOGSIZE = 4
  Nlog = 4
  OpWrites = 1
  MaxCrash = 1
SPECIFICATION FairSpec
INVARIANTS
  NoLogPanic
PROPERTIES
  LogProgress
