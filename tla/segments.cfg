SPECIFICATION Spec
CONSTANTS
  s1 = s1
  s2 = s2
  s3 = s3
  NoCheckpoint = NoCheckpoint
  Segments <- ThreeSegments
  Length <- UnevenCells
  StoreFails = FALSE
  PowerFails = FALSE
SYMMETRY Symmetry
INVARIANTS
  ClaimsWritten
  NeverHoles
PROPERTIES
  PauseKeepsAll
  ContractKept
