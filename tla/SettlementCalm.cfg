SPECIFICATION FairSystemSpec
CONSTANTS
    sellA = sellA
    buyB = buyB
    buyC = buyC
    sellD = sellD
    SellSize = 2
    None = None
    Wad = 100
    MaxMakerOrders = 1
    Orders <- FourOrders
    Terms <- MCTerms
    Commands <- LastingCommands
    Times <- MCTimes
    Faults = {"Crash", "Revert"}
    DryRun = FALSE
    ReleaseOnSimulationFailure = TRUE
    ListLimit = 2
    Unsigned = {sellD}
    MaxTransactions = 2
CHECK_DEADLOCK FALSE
INVARIANTS
    InFlightIsHeld
    FilledAgreesWhenIdle
PROPERTIES
    EveryReservationEnds
