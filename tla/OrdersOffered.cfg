\* Two orders competing for stock, one retry request at a time.
SPECIFICATION FairSpec
CONSTANTS
    o1 = o1
    o2 = o2
    v1 = v1
    NoCall = NoCall
    NoKey = NoKey
    Orders <- TwoOrders
    Variants <- OneBook
    Demand <- SharedDemand
    OpeningStock <- TwoOnTheShelf
    MaxStock = 2
    MaxTries = 2
    Calls = {c1}
    Keys = {k1}
    OfferedOnly = TRUE
INVARIANTS
    NoDuplicateDeduction
    CancelReturnsStock
    TimestampsAccountForStock
PROPERTIES
    HoldsEnd
CHECK_DEADLOCK FALSE
