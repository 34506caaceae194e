SPECIFICATION Spec
CONSTANTS
  Last = 2
  Paths <- OnePath
  Size = 2
  Sized <- FirstTwo
  Validated <- FirstTwo
  Inodes <- FourInodes
  Faults = 0
PROPERTIES
  NeverSpliced
