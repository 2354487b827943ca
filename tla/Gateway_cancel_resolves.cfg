\* Every command, connections that come and go, routing that fails.
CONSTANTS
    i1 = i1
    i2 = i2
    i3 = i3
    a1 = a1
    a2 = a2
    c1 = c1
    c2 = c2
    Ids = {i1, i3}
    Accounts = {a1}
    Conns = {c1, c2}
    Prices = {1}
    MaxQty = 1
    NewOrders <- OwnTrade
    Zero = i1
    UniqueIds = FALSE
    Commands = {"NewOrder", "Cancel", "Replace", "SetRiskLimits", "Disconnect"}
    MaxCommands = 3
    IngressCap = 3
    RoutingFails = TRUE
    BuyingPower = 2
    Limits <- MCLimits
    Nil = Nil
SPECIFICATION FairSpec
CHECK_DEADLOCK FALSE
INVARIANTS
    TypeOK
PROPERTIES
    CancelResolved
