SPECIFICATION Spec

CONSTANTS
    None = None
    p1 = p1
    p2 = p2
    Products = {p1, p2}
    InitialStock <- TwoAndOne
    Unprintable = {p2}
    Deltas <- OutAndIn
    Workers = {w1, w2}
    Readers = {r1}
    Limits = {1, 2}
    Ids = {1, 2, 3}
    MaxClock = 1
    MaxCrashes = 1

SYMMETRY Interchangeable

INVARIANTS
    TypeOK
    StockIsExplained
    WalkIsExact

PROPERTIES
    LedgerGrowsForward
