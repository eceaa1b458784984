SPECIFICATION WatchSpec
CONSTANTS
  Storages = {1}
  ReadOnly = {}
  Names = {"a", "b"}
  Data <- OneBlock
  Ops = {"OpenSession", "GetObjectHandles", "SendObjectInfo", "SendObject", "DeleteObject", "SetObjectPropValue", "Rescan"}
  Outsiders = {"t"}
  Watching = TRUE
  FreshNames = TRUE
  DirMoves = FALSE
  Disciplined = FALSE
  DroppedCap = 1
  MaxHandle = 3
  MaxDepth = 1
  MaxQueued = 0
  MaxNotes = 2
INVARIANTS
  WatcherLeavesNoPhantoms
  PausedHarnessesCompose
CHECK_DEADLOCK FALSE
