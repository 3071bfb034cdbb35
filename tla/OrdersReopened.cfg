\* A failed attempt reported after the cancellation.
SPECIFICATION Spec
CONSTANTS
    o1 = o1
    o2 = o2
    v1 = v1
    NoCall = NoCall
    NoKey = NoKey
    Orders <- OneOrder
    Variants <- OneBook
    Demand <- OneDemand
    OpeningStock <- TwoOnTheShelf
    MaxStock = 2
    MaxTries = 2
    Calls = {c1}
    Keys = {k1}
    OfferedOnly = TRUE
PROPERTY
    TerminalOutcomeIsFinal
CHECK_DEADLOCK FALSE
