SPECIFICATION SystemSpec
CONSTANTS
    sellA = sellA
    buyB = buyB
    buyC = buyC
    sellD = sellD
    SellSize = 1
    None = None
    Wad = 100
    MaxMakerOrders = 1
    Orders <- ThreeOrders
    Terms <- MCTerms
    Commands <- ExpiringCommands
    Times <- MCTimes
    Faults = {"WriteFails", "Crash", "ExecutorCrash", "HttpError", "RpcError", "Revert", "Drop"}
    DryRun = FALSE
    ReleaseOnSimulationFailure = TRUE
    ListLimit = 2
    Unsigned = {}
    MaxTransactions = 2
VIEW MCView
SYMMETRY MCSymmetry
CHECK_DEADLOCK FALSE
INVARIANTS
    SystemTypeOK
    CommittedOnChain
    FilledOnChain
    WaitingIsHeld
    CommittedHashSucceeded
