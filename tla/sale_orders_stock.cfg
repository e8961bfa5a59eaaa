SPECIFICATION Spec
CONSTANTS
  o1 = o1  o2 = o2  s1 = s1  s2 = s2  w1 = w1  w2 = w2
  Orders <- TwoOrders
  Sales <- TwoSales
  Workers <- OneWorker
  NoSale = NoSale
  StockKg = 4
  LotKg = 4
  OrderKgs <- TwoOrThree
  Carriage <- Collected
  Weights <- OneOrThree
  TolPct = 50
  MaxTrucks = 2
  MaxErrors = 0
  MaxDeaths = 1
  MaxOpsKg = 1
  MaxOpsLoads = 2
SYMMETRY Symmetry
INVARIANTS NeverOversoldBySaleOrders AllocationsStayCovered LotNotOversold HoldMatchesOrder
CHECK_DEADLOCK FALSE
