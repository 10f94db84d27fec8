SPECIFICATION AddrSpec
CONSTANTS
    Addr <- ThreeAddr
    Source <- TwoSource
    Bucket = {0, 1}
    Slots = 2
    GetNewBucket <- NewBuckets
    GetNewPosition <- Positions
    TriedSlot = {0, 1}
    GetTriedSlot <- TriedSlots
    MaxRefs = 2
    MaxId = 3
INVARIANTS TablesExact SavedLoads
PROPERTY ForgottenLast
CHECK_DEADLOCK FALSE
