SPECIFICATION CliSpec
CONSTANTS
  OptionalObjects = {3, 4}
  MaxFaults = 0
  MaxOthers = 0
  MaxDim = 0
INVARIANT
  ReplaceIsAsked
CHECK_DEADLOCK FALSE
