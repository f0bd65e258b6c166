SPECIFICATION UploadsSpec
CONSTANTS
  Elfs <- MCTwoElfs
  OldElf <- MCOld
  Blank = "blank"
  MaxRuns = 2
  MAX_WRITE_PASSES = 2
  WRITE_STALL_LIMIT = 2
INVARIANTS
  ShortWriteNeverExecutable
CHECK_DEADLOCK FALSE
