SPECIFICATION FairSpec
CONSTANTS
  h1 = h1
  h2 = h2
  h3 = h3
  b1 = b1
  NoTask = NoTask
  Tasks <- HttpTasks
  BT <- NoBT
  Limits <- OneLimit
  RetryLimits <- NoRetry
  Stamps <- OneStamp
  MaxTime = 2
  StoreFails = FALSE
PROPERTIES
  ScheduledStarts
