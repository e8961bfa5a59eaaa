CONSTANTS
    i1 = i1
    i2 = i2
    slip = slip
    prompt = prompt
    transfer = transfer
    c1 = c1
    c2 = c2
    None = None
    Job = Job
    Invoices <- MCInvoices
    Slips <- MCSlips
    Prompts <- MCPrompts
    Transfers <- MCTransfers
    Amount <- MCAmount
    Totals <- MCTotals
    Clerks <- MCClerks
    Cases <- MCCases
SPECIFICATION FairSpec
INVARIANTS
    TypeOK
    TotalsAgree
    EachPaymentCountsOnce
    OrderShowsItsMoney
    ReleasedIsPaid
    OneInvoiceInForce
    BooksFollow
PROPERTY PendingIsSettled
CHECK_DEADLOCK FALSE
