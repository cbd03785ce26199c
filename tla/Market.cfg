CONSTANTS
  Takers <- TwoTakers
  Maker = "m"
  NoTaker = "none"
  Imported <- OneOfThem
  MaxLost = 1
  MaxCrashes = 1
SPECIFICATION Spec
CHECK_DEADLOCK FALSE
INVARIANTS
  ToldTruly
PROPERTIES
  TradeImplemented
  SealedEnds
