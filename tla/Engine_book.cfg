\* Three ids, two prices: enough for tombstones in front of and behind live makers, slot
\* reuse, partial fills, self-trades and a taker that sweeps two levels; for the refinement,
\* a queue of two and a taker.  Who owns an order plays no part in any of it.
CONSTANTS
    Ids = {i1, i2, i3}
    Accounts = {a1}
    Prices = {1, 2}
    MaxQty = 2
    MaxSlots = 3
    Nil = Nil
    Flags = {TRUE, FALSE}
    Symbols = {1}
    Limits <- MCNoLimits
    DefaultLimits <- MCDefaultLimits
    UniqueIds = TRUE
SPECIFICATION Spec
SYMMETRY Symmetry
INVARIANTS
    FreeListExact
    IndexExact
    QueuesExact
    LevelTotals
    Uncrossed
    QuantityConserved
    PostOnlyNeverTakes
PROPERTY PriceTimePriority
