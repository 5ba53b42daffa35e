SPECIFICATION Spec

CONSTANTS
    None = None
    a = a
    aa = aa
    b = b
    c = c
    o1 = o1
    Owners = {o1, o2}
    Settled = {o1}
    Cashiers = {c1}
    Addresses = {a, aa, b, c}
    Mailbox <- Spellings
    Home <- Homes
    Workers = {w1, w2}
    Readers = {r1}
    Payments = {p1, p2}
    Offers = {year}
    Months = {0, 1, 2}
    TrialDays = 1
    Month = 2
    Span = 1
    MaxClock = 4
    MaxRequests = 3

SYMMETRY Interchangeable

INVARIANTS
    TypeOK
    OneAccountPerAddress
    TokensFollowLinks
    AccessWasPaidFor
    PaidMonthIsServed
    ConfirmedIsActivated
    CompleteOrCut

PROPERTIES
    OnlyTimeTakesAccess
