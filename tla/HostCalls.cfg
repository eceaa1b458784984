SPECIFICATION HostSpec
CONSTANTS
  w1 = w1
  w2 = w2
  Writers <- MCWriters
  ItemNames = {"a", "A", "b"}
  LongNames = {"b"}
  Fold <- MCFold
  Places = {0, 8}
  Seeds <- MCSeeds
  CopyStyles = {"refuses", "android", "echoes"}
  JobKinds = {"upload", "folder", "copy", "delete", "move", "rename"}
  PhonyHandle = 7
  MaxItem = 4
  MaxPhone = 1
  MaxJobs = 1
  OptionalObjects = {3, 4, 5, 7}
  MaxFaults = 2
  MaxOthers = 1
  MaxDim = 1
  MaxInterfaces = 2
  MaxAttached = 2
  Base = 8
  ObjectNames <- MCNames
  RawStrings <- MCRawStrings
  Spans <- MCSpans
  Seconds = {0, 1, 43200, 86399}
  OffsetMins <- MCOffsets
INVARIANTS
  ObjectsTypeOK
  UploadsAreTruthful
  CopiesAreTruthful
  RemoteIsSafe
  LocalIsSafe
  OpensWhatWasAsked
  DatasetsAreRead
  DatesAreReal
CHECK_DEADLOCK FALSE
