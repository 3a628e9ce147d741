SPECIFICATION Spec
CONSTANTS
    None = None
    Wad = 100
    MaxMakerOrders = 2
    Orders <- MCOrders
    Terms <- MCTerms
    Commands <- MCCommands
    Times <- MCTimes
INVARIANTS
    TypeOK
    NoOvercommit
    NoDoubleMatch
    LocksAgree
    ReservedExact
    SnapshotAlwaysValid
    RestingOnBook
PROPERTIES
    OnlyCommitFills
    LifecycleRespected
