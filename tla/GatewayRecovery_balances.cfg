\* One order of one account, a snapshot after its fill, and a restart.
CONSTANTS
    NumAccounts = 1
    BuyingPower = 4
    NumEngines = 1
    Orders <- OneBuy
    OwnSymbol = TRUE
    SnapshotTicks = 1
    MaxTicks = 1
    MaxStarts = 2
    MaxCrashes = 0
    MaxFaults = 0
    MaxInbox = 1
    MaxOrders = 1
SPECIFICATION Spec
CHECK_DEADLOCK FALSE
PROPERTY BalancesSurvive
