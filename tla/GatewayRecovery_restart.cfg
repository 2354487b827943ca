\* Two engines, two accounts and two orders of one of them; a crash anywhere and a restart.
CONSTANTS
    NumAccounts = 2
    BuyingPower = 3
    NumEngines = 2
    Orders <- TwoBuys
    OwnSymbol = TRUE
    SnapshotTicks = 2
    MaxTicks = 2
    MaxStarts = 2
    MaxCrashes = 1
    MaxFaults = 1
    MaxInbox = 1
    MaxOrders = 2
SPECIFICATION FairSpec
CHECK_DEADLOCK FALSE
INVARIANTS
    TypeOK
    
    
    AccountsPersist
PROPERTY StartUpEnds
