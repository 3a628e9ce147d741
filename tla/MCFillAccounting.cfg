SPECIFICATION Spec
CONSTANTS
    MaxAmount = 12
    Wad = 7
    MaxMakerOrders = 1
    DemoMaker = 2
    Orders <- MCOrders
    Terms <- MCTerms
    OrderHash <- MCOrderHash
INVARIANTS
    ExactPrice
    RemainderFillable
    FreshOrderCountered
\* a filled order takes no further fill
CHECK_DEADLOCK FALSE
