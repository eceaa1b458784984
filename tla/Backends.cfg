SPECIFICATION BackendSpec
CONSTANTS
  Folders = {3, 4}
  Files = {1, 2}
  Huge = {2}
  AllHandle = 10
  ListedDevices <- MCDevices
  ListedTrees <- MCTrees
  ListingModes = {"collect", "stream", "walk"}
  MaxChanges = 1
  MaxListings = 1
  Clients = {"c1", "c2"}
  Kinds = {"plain", "upload"}
  Reads <- MixedReads
  FileSize = 3
  Bound = 1
  MaxCalls = 2
INVARIANTS
  BackendTypeOK
  ListingIsExact
  CancelIsPrompt
  WalkReportsTree
  ReadsAreServed
  UploadVerdict
PROPERTIES
  FastPathSurvives
  BackendsProgress
CHECK_DEADLOCK FALSE
