SPECIFICATION FairSpec
CONSTANTS
  s1 = s1
  s2 = s2
  s3 = s3
  NoCheckpoint = NoCheckpoint
  Segments <- TwoSegments
  Length <- OneCell
  StoreFails = TRUE
  PowerFails = TRUE
INVARIANTS
  CanceledByUser
PROPERTIES
  OperationEnds
  ErrorEndsRun
