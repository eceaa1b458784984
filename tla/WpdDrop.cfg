SPECIFICATION WpdFairSpec
CONSTANTS
  Clients = {"c1", "c2"}
  Kinds = {"plain"}
  Reads <- OneDownload
  FileSize = 3
  Bound = 1
  MaxCalls = 2
PROPERTIES
  DropReturns
CHECK_DEADLOCK FALSE
