SPECIFICATION FairSpec
CONSTANTS
  t1 = t1
  t2 = t2
  Tasks <- MCTasks
  NoTask = NoTask
  UsedKinds <- StreamAndSend
  IdModulus = 8
  StartId = 6
  MaxRequests = 2
  MaxMore = 1
  MaxStaleReplies = 4
  SplitHeaderData = TRUE
  DrainOnCancel = FALSE
  ThoroughDrain = FALSE
  DropsInRecovery = TRUE
PROPERTY
  LockIsReleased
CHECK_DEADLOCK FALSE
