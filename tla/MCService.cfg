SPECIFICATION ApiSpec
CONSTANTS
    sellA = sellA
    buyB = buyB
    sellD = sellD
    None = None
    Wad = 100
    MaxMakerOrders = 1
    Orders <- MCOrders
    Terms <- MCTerms
    Commands <- MCCommands
    Times <- MCTimes
    Faults = {"WriteFails", "CommitUnheard", "Crash"}
    DemoMaker = 2
    OrderHash <- MCOrderHash
    ClientOrders <- MCClientOrders
    AutoCommit = TRUE
    DemoTtl = 1
    MaxSalt = 1
VIEW MCView
CHECK_DEADLOCK FALSE
INVARIANTS
    ApiTypeOK
    AnsweredIsDurable
    StoreConsistent
    EventLogAligned
    RoutesComplete
    DemoTradesWhole
    DemoNeverRefused
