SPECIFICATION FairSystemSpec
CONSTANTS
    sellA = sellA
    buyB = buyB
    buyC = buyC
    sellD = sellD
    SellSize = 1
    None = None
    Wad = 100
    MaxMakerOrders = 1
    Orders <- TwoOrders
    Terms <- MCTerms
    Commands <- LastingCommands
    Times <- MCTimes
    Faults = {"Drop"}
    DryRun = FALSE
    ReleaseOnSimulationFailure = TRUE
    ListLimit = 1
    Unsigned = {}
    MaxTransactions = 2
CHECK_DEADLOCK FALSE
PROPERTIES
    FailedTransactionReleases
