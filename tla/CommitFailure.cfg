SPECIFICATION ExchangeSpec
CONSTANTS
    None = None
    Wad = 100
    MaxMakerOrders = 2
    Orders <- PartFilledOrders
    Terms <- PartFilledTerms
    Commands <- PartFilledCommands
    Times <- MCTimes
    HashRank <- PartFilledHashRank
PROPERTY
    CommitFillsEveryLeg
