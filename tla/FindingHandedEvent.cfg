SPECIFICATION Spec

CONSTANTS
    None = None
    o1 = o1
    o2 = o2
    p1 = p1
    p2 = p2
    Orders = {o1, o2}
    SubscriptionOrders = {o2}
    Products = {p1}
    Workers = {w1, w2}
    Events = {e1, e2, e3}
    Cart <- CartAndPlan
    Total <- Totals
    InitialStock <- ThreeOfEach
    Unprintable = {}
    RailEnds = {"paid", "failed", "expired", "cancelled"}
    WebhookOrders = {}
    HandedOrders = {o1}
    StockChanges <- NoChanges
    MaxMovements = 0
    FaultKinds = {}
    MaxFaults = 1

SYMMETRY Interchangeable

INVARIANTS
    OneSaleEvenHanded
