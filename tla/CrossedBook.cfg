SPECIFICATION ExchangeSpec
CONSTANTS
    None = None
    Wad = 100
    MaxMakerOrders = 2
    Orders <- MCOrders
    Terms <- MCTerms
    Commands <- FreshCommands
    Times <- MCTimes
    HashRank <- MCHashRank
INVARIANT
    BookNeverCrossed
