SPECIFICATION Spec
CONSTANTS
  o1 = o1  o2 = o2  s1 = s1  s2 = s2  w1 = w1  w2 = w2
  Orders <- OneOrder
  Sales <- TwoSales
  Workers <- TwoWorkers
  NoSale = NoSale
  StockKg = 5
  LotKg = 4
  OrderKgs <- Three
  Carriage <- Either
  Weights <- OneOrThree
  TolPct = 0
  MaxTrucks = 2
  MaxErrors = 0
  MaxDeaths = 0
  MaxOpsKg = 0
  MaxOpsLoads = 0
PROPERTIES ClosedAtWhatWasLoaded
CHECK_DEADLOCK FALSE
