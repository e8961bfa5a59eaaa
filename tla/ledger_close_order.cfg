SPECIFICATION Spec
CONSTANTS
  t1 = t1  t2 = t2  a1 = a1  a2 = a2  s1 = s1
  cash = cash  sales = sales  stock = stock  cost = cost
  Txs <- TwoTxs
  Admins <- TwoAdmins
  Sources <- OneSource
  Uuids <- NoUuids
  NoUuid = 0
  Accounts <- FourAccounts
  Postings <- OnePosting
  Today = 3
  MonthEnds <- TwoDays
  DaysPerYear = 3
  MaxJournals = 2
PROPERTY ClosingMovesForward
