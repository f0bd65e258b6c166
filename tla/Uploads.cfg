SPECIFICATION UploadsSpec
CONSTANTS
  Elfs <- MCOneElf
  OldElf <- MCOld
  Blank = "blank"
  MaxRuns = 2
  MAX_WRITE_PASSES = 2
  WRITE_STALL_LIMIT = 2
INVARIANTS
  ExecutableIsWhole
  
PROPERTY
  RunEnds
CHECK_DEADLOCK FALSE
