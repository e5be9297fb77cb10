SPECIFICATION MCFtSpec
CONSTANTS
  FtNPROC = 3
  NFILE = 3
  NOFILE = 2
  NPipes = 1
  ForknFails = TRUE
INVARIANTS
  RefsExact
