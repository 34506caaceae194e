SPECIFICATION FairSpec
CONSTANTS
  h1 = h1
  h2 = h2
  h3 = h3
  b1 = b1
  NoTask = NoTask
  Tasks <- MixedTasks
  BT <- BTTasks
  Limits <- TwoLimits
  RetryLimits <- OneRetry
  Stamps <- TwoStamps
  MaxTime = 1
  StoreFails = TRUE
INVARIANTS
  RunsAccounted
  RetryArmed
  QuietAfterClose
PROPERTIES
  RetryOnlyOnDeadline
  OnlyUserCancels
  LifecycleSpec
  OperationReturns
  RetryEnds
