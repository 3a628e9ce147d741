SPECIFICATION Spec
CONSTANTS
    Wad = 100
    MaxMakerOrders = 2
    Orders <- MCOrders
    Terms <- MCTerms
    Makers <- MCMakers
    Takers <- MCTakers
    MaxBook = 3
    MaxFilled = 2
INVARIANTS
    BestMakersFirst
    TakesAllItCan
    PlanSettles
    FailsOnlyOnDust
\* the matcher runs once
CHECK_DEADLOCK FALSE
