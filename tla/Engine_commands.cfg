\* Every command of two accounts, a foreign symbol, limits that tighten while orders rest, and
\* restarts from a snapshot.  All orders have one id, which is used again while they rest: three
\* slots let a taker meet several makers, and a replace meet another resting order.
CONSTANTS
    Ids = {i1}
    Accounts = {a1, a2}
    Prices = {1, 2}
    MaxQty = 2
    MaxSlots = 3
    Nil = Nil
    Flags = {FALSE}
    Symbols = {1, 2}
    Limits <- MCLimits
    DefaultLimits <- MCNarrowLimits
    UniqueIds = FALSE
SPECIFICATION RestartSpec
SYMMETRY Symmetry
INVARIANTS
    TypeOK
    PositionsBalance
    TakerWithinLimits
    QueuesExact
PROPERTY RestartReclaims
