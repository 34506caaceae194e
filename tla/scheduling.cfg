SPECIFICATION Spec
CONSTANTS
  h1 = h1
  h2 = h2
  h3 = h3
  b1 = b1
  NoTask = NoTask
  Tasks <- ThreeTasks
  BT <- NoBT
  Limits <- TwoLimits
  RetryLimits <- JustOneRetry
  Stamps <- OneStamp
  MaxTime = 2
  StoreFails = TRUE
SYMMETRY Symmetry3
INVARIANTS
  TypeOK
  QueueExact
  WorkConserving
  TimerCoversFuture
PROPERTIES
  NoOvertaking
