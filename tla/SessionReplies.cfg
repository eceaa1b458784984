SPECIFICATION RepliesSpec
CONSTANTS
  t1 = t1
  t2 = t2
  Tasks <- MCTasks
  NoTask = NoTask
  UsedKinds <- ExecuteAndReceive
  IdModulus = 8
  StartId = 5
  MaxRequests = 4
  MaxMore = 1
  MaxStaleReplies = 2
  SplitHeaderData = FALSE
  DrainOnCancel = TRUE
  ThoroughDrain = FALSE
  DropsInRecovery = TRUE
SYMMETRY Symmetry
INVARIANTS
  TypeOK
  OwnReply
  OwnData
  RecoveryNamesLast
  SessionHeals
PROPERTY
  ImplementsSerialRpc
CHECK_DEADLOCK FALSE
