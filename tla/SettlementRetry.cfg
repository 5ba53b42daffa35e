SPECIFICATION FairSpec

CONSTANTS
    None = None
    o1 = o1
    o2 = o2
    p1 = p1
    p2 = p2
    Orders = {o1, o2}
    SubscriptionOrders = {}
    Products = {p1, p2}
    Workers = {w1, w2}
    Events = {e1, e2}
    Cart <- OppositeCarts
    Total <- Totals
    InitialStock <- ThreeOfEach
    Unprintable = {}
    RailEnds = {"paid", "expired"}
    WebhookOrders = {}
    HandedOrders = {}
    StockChanges <- NoChanges
    MaxMovements = 0
    FaultKinds = {"crash", "automation"}
    MaxFaults = 1

PROPERTIES
    RequestsEnd
    RetriedOrdersSettle
