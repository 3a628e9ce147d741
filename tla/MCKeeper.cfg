SPECIFICATION KeeperSpec
CONSTANTS
    None = None
    EndOf <- MCEndOf
    Interval = 2
    RetryInterval = 1
    MaxTime = 3
INVARIANTS
    KeeperTypeOK
    PokedOnceAfterEnd
    LongSleepWhenAllPoked
PROPERTIES
    HealthyKeepBeingPoked
