SPECIFICATION Spec

CONSTANTS
    None = None
    o1 = o1
    o2 = o2
    p1 = p1
    p2 = p2
    Orders = {o1, o2}
    SubscriptionOrders = {}
    Products = {p1}
    Workers = {w1, w2}
    Events = {e1, e2}
    Cart <- TwiceCart
    Total <- Totals
    InitialStock <- ThreeOfEach
    Unprintable = {}
    RailEnds = {"paid", "failed", "expired", "cancelled"}
    WebhookOrders = {}
    HandedOrders = {}
    StockChanges <- Changes
    MaxMovements = 4
    FaultKinds = {"crash", "automation"}
    MaxFaults = 1

SYMMETRY Interchangeable

INVARIANTS
    MovementsBalance
    SalesAccountForStock

PROPERTIES
    SettlesAtomically
