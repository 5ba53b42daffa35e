SPECIFICATION Spec

CONSTANTS
    None = None
    Nothing = Nothing
    p1 = p1
    p2 = p2
    Callers = {w1}
    Watchers = {w1}
    Invoices = {i1}
    Offramps = {f1}
    Onramps = {n1}
    HttpErrors = {403, 429, 500}
    MaxCalls = 3
    MaxFrames = 2
    Payments = {p1, p2}
    Price <- Prices
    Cost <- Costs
    MaxDays = 1
    Keys = {k1}
    Codes = {x, y}
    Threads = {t1, t2}
    MaxIssues = 2

SYMMETRY Interchangeable

INVARIANTS
    TypeOK
    DefiniteErrorsDidNothing
    ResultsWereServed
    ReportsAreTrue
    VerdictIsFinal
    OneCodePaysOneOrder
    ProfitIsNotOverstated
    FiguresAreInOrder

PROPERTIES
    CodesAreOneTime
