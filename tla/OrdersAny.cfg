\* One order, two retry requests at once, clients that retry anything.
SPECIFICATION Spec
CONSTANTS
    o1 = o1
    o2 = o2
    v1 = v1
    NoCall = NoCall
    NoKey = NoKey
    Orders <- OneOrder
    Variants <- OneBook
    Demand <- OneDemand
    OpeningStock <- TwoOnTheShelf
    MaxStock = 2
    MaxTries = 3
    Calls = {c1, c2}
    Keys = {k1, k2}
    OfferedOnly = FALSE
SYMMETRY Symmetry
INVARIANTS
    TypeOK
    LedgerMatchesRows
    PendingAttempt
    HoldHasOwner
    PaidIsBacked
    FulfilmentFunded
PROPERTIES
    EndedAttemptIsFinal
    ImplementsStockHolds
CHECK_DEADLOCK FALSE
