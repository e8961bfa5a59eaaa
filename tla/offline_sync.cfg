CONSTANTS
    farmer = farmer
    farm = farm
    visit = visit
    correction = correction
    r1 = r1
    r2 = r2
    none = none
    synced = synced
    None = none
    Synced = synced
    Creates <- MCCreates
    Edits <- MCEdits
    Parent <- MCParent
    Bad <- MCBad
    Slots <- MCSlots
    Days <- MCDays
SPECIFICATION FairSpec
INVARIANTS
    TypeOK
    NothingLost
    AppearsOnce
    PendingRowsAreQueued
PROPERTIES
    ReplaysInOrder
    QueueDrains
CHECK_DEADLOCK FALSE
