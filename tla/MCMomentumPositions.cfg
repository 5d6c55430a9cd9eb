CONSTANTS
  None = None
  MaxBuys = 2
  SellIds = {s1, s2}
  Liquidation = Liquidation
  MaxFaults = 1
SPECIFICATION FairSpec
INVARIANTS NoDoubleFill
PROPERTIES GraceProtects EventuallyFlat
CHECK_DEADLOCK FALSE
