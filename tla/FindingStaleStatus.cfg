SPECIFICATION Spec

CONSTANTS
    None = None
    o1 = o1
    o2 = o2
    p1 = p1
    p2 = p2
    Orders = {o1, o2}
    SubscriptionOrders = {}
    Products = {p1, p2}
    Workers = {w1, w2}
    Events = {e1, e2}
    Cart <- OppositeCarts
    Total <- Totals
    InitialStock <- TwoOfEach
    Unprintable = {}
    RailEnds = {"paid", "failed", "expired", "cancelled"}
    WebhookOrders = {}
    HandedOrders = {}
    StockChanges <- NoChanges
    MaxMovements = 0
    FaultKinds = {}
    MaxFaults = 1

SYMMETRY Interchangeable

PROPERTIES
    PaidStaysPaid
