SPECIFICATION UnwatchedSpec
CONSTANTS
  Storages = {1, 2}
  ReadOnly = {2}
  Names = {"a"}
  Data <- TwoSizes
  Ops = {"OpenSession", "CloseSession", "Read", "GetObjectHandles", "GetObjectPropList", "SendObjectInfo", "SendObject", "DeleteObject", "SetObjectPropValue", "MoveObject", "CopyObject"}
  Outsiders = {"t"}
  Watching = FALSE
  FreshNames = FALSE
  DirMoves = TRUE
  Disciplined = FALSE
  DroppedCap = 2
  MaxHandle = 3
  MaxDepth = 2
  MaxQueued = 0
  MaxNotes = 0
INVARIANT
  VirtualTypeOK
PROPERTIES
  HandlesAreTruthful
  RefusalsAreClean
CHECK_DEADLOCK FALSE
