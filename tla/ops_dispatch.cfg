CONSTANTS
    o1 = o1
    o2 = o2
    o3 = o3
    batch = batch
    d1 = d1
    d2 = d2
    c1 = c1
    c2 = c2
    None = None
    Orders <- MCOrders
    Batches <- MCBatches
    Required <- MCRequired
    Allocations <- MCAllocations
    Loads <- MCLoads
    Clerks <- MCClerks
    Days <- MCDays
SYMMETRY Symmetry
SPECIFICATION Spec
INVARIANTS
    TypeOK
    LoadsLeaveOnce
    SetAsideIsThere
    OrderInBounds
    ClosedHoldsNothing
    CompletedIsDelivered
CHECK_DEADLOCK FALSE
