\* New orders and cancels of two connections, partial fills, Ioc orders and engine rejects.
CONSTANTS
    i1 = i1
    i2 = i2
    i3 = i3
    a1 = a1
    a2 = a2
    c1 = c1
    c2 = c2
    Ids = {i1, i2, i3}
    Accounts = {a1, a2}
    Conns = {c1, c2}
    Prices = {1, 2}
    MaxQty = 2
    NewOrders <- MixedOrders
    Zero = i1
    UniqueIds = TRUE
    Commands = {"NewOrder", "Cancel"}
    MaxCommands = 4
    IngressCap = 4
    RoutingFails = FALSE
    BuyingPower = 4
    Limits <- MCLimits
    Nil = Nil
SPECIFICATION AnswersSpec
SYMMETRY Symmetry
CHECK_DEADLOCK FALSE
INVARIANTS
    ReservationsTracked
    Solvent
