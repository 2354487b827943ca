\* A restart from a snapshot that was taken after slots were reused.
CONSTANTS
    Ids = {i1, i2, i3}
    Accounts = {a1}
    Prices = {1, 2}
    MaxQty = 2
    MaxSlots = 3
    Nil = Nil
    Flags = {FALSE}
    Symbols = {1}
    Limits <- MCNoLimits
    DefaultLimits <- MCDefaultLimits
    UniqueIds = TRUE
SPECIFICATION RestartSpec
PROPERTY PriceTimePriority
