SPECIFICATION DownloadSpec
CONSTANTS
  MaxSize = 4
  Wants = {2}
  Cap = 3
  NarrowLimit = 2
INVARIANT
  ResumesWithoutHole
CHECK_DEADLOCK FALSE
