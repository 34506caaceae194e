SPECIFICATION FairSpec
CONSTANTS
  c1 = c1
  c2 = c2
  Conns <- TwoConns
  Rates <- ThreeRates
  Floor = 2
  MaxBytes = 4
  AgeCap = 2
INVARIANTS
  SleepsForThisRate
PROPERTIES
  RateKept
  BytesFlow
  StoppedCallReturns
