SPECIFICATION FairSpec
CONSTANTS
  o1 = o1  o2 = o2  s1 = s1  s2 = s2  w1 = w1  w2 = w2
  Orders <- OneOrder
  Sales <- TwoSales
  Workers <- TwoWorkers
  NoSale = NoSale
  StockKg = 5
  LotKg = 4
  OrderKgs <- Three
  Carriage <- Either
  Weights <- OneOrFour
  TolPct = 34
  MaxTrucks = 2
  MaxErrors = 1
  MaxDeaths = 0
  MaxOpsKg = 0
  MaxOpsLoads = 0
INVARIANTS TypeOK HoldMatchesOrder SaleMatchesOrder OneSalePerConfirmation CompletedMeansDelivered CancelledIsClean
PROPERTIES TrucksAreAllowed ReservationsEnd
CHECK_DEADLOCK FALSE
