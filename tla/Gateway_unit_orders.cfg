\* Gtc orders of one lot: every fill is the whole order.
CONSTANTS
    i1 = i1
    i2 = i2
    i3 = i3
    a1 = a1
    a2 = a2
    c1 = c1
    c2 = c2
    Ids = {i1, i2, i3}
    Accounts = {a1, a2}
    Conns = {c1, c2}
    Prices = {1, 2}
    MaxQty = 1
    NewOrders <- UnitOrders
    Zero = i1
    UniqueIds = TRUE
    Commands = {"NewOrder"}
    MaxCommands = 3
    IngressCap = 4
    RoutingFails = FALSE
    BuyingPower = 3
    Limits <- MCLimits
    Nil = Nil
SPECIFICATION AnswersSpec
CHECK_DEADLOCK FALSE
INVARIANTS
    OrdersCovered
    ReservationsReturn
    PositionsAgree
