SPECIFICATION Spec
CONSTANTS
  o1 = o1  o2 = o2  s1 = s1  s2 = s2  w1 = w1  w2 = w2
  Orders <- OneOrder
  Sales <- TwoSales
  Workers <- OneWorker
  NoSale = NoSale
  StockKg = 3
  LotKg = 4
  OrderKgs <- Three
  Carriage <- Either
  Weights <- OneOrThree
  TolPct = 34
  MaxTrucks = 2
  MaxErrors = 0
  MaxDeaths = 0
  MaxOpsKg = 1
  MaxOpsLoads = 1
INVARIANTS ReservationsCannotOversell
CHECK_DEADLOCK FALSE
