SPECIFICATION FairSpec
CONSTANTS
  t1 = t1  t2 = t2  a1 = a1  a2 = a2  s1 = s1
  cash = cash  sales = sales  stock = stock  cost = cost
  Txs <- TwoTxs
  Admins <- OneAdmin
  Sources <- OneSource
  Uuids <- ThreeUuids
  NoUuid = 0
  Accounts <- FourAccounts
  Postings <- TwoPostings
  Today = 2
  MonthEnds <- TwoDays
  DaysPerYear = 1
  MaxJournals = 3
INVARIANTS TypeOK NumbersGapFree RevisionsInOrder ReversedAtMostOnce
PROPERTIES ImplementsBooks EveryJournalCounts PostingsEnd
