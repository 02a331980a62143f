SPECIFICATION FairSpec
CONSTANTS
  t1 = t1
  t2 = t2
  Task = {t1, t2}
  TaskType <- MCTaskType
  Sizes <- MCSizes
  Provider = {"a", "b", "z"}
  Model = {"", "bare", "x"}
  Registered = {"a", "b"}
  Limited = {"a"}
  Gap = 2
  Burst = 4
  Routings <- MCRoutings
  Default = "a"
  MaxTime = 3
CHECK_DEADLOCK FALSE
INVARIANT TypeOK
INVARIANT FallbackInOrder
INVARIANT TokenBudget
INVARIANT RequestBudget
PROPERTY CompleteReturns
