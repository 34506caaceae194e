SPECIFICATION Spec
CONSTANTS
  Last = 3
  Paths <- OnePath
  Size = 2
  Sized <- FirstTwo
  Validated <- Outer
  Inodes <- FourInodes
  Faults = 2
VIEW Visible
CONSTRAINT Exclusive
INVARIANTS
  OnePathOneTask
  NoGhosts
PROPERTIES
  FinalsKept
  PublishesOwn
  RestoredIsOwn
  RestartAgrees
