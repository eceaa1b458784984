SPECIFICATION Spec
CONSTANTS
  t1 = t1
  t2 = t2
  Tasks <- MCTasks
  NoTask = NoTask
  UsedKinds <- StreamAndExecute
  IdModulus = 8
  StartId = 1
  MaxRequests = 3
  MaxMore = 1
  MaxStaleReplies = 4
  SplitHeaderData = FALSE
  DrainOnCancel = FALSE
  ThoroughDrain = TRUE
  DropsInRecovery = TRUE
INVARIANT
  HealedBeforeUse
CHECK_DEADLOCK FALSE
