------------------------------- MODULE Dashboard -------------------------------
(***************************************************************************)
(* GET /dashboard of an owner beside the confirmations of payments.  It    *)
(* runs in no transaction: each figure is a query of its own, over the     *)
(* rows of one day, and sees what was committed when it ran.  A confirmed  *)
(* payment has its sale and both ledger entries at once, as Settlement     *)
(* shows, but each of the three rows has the time it was made at, and a    *)
(* confirmation may wait for locks in between.                             *)
(***************************************************************************)
EXTENDS Onramp, Sequences, FiniteSets, Functions

CONSTANTS
    Price,      \* total_amount of a payment's sale
    Cost,       \* cost of the goods in it
    MaxDays     \* bound: nights

\* Days of the rows of a sale, by created_at.
Booking == [sale : 0..MaxDays, credit : 0..MaxDays, debit : 0..MaxDays]

ASSUME DashboardAssumption ==
    /\ Price \in [Payments -> Nat]
    /\ Cost \in [Payments -> Nat]
    /\ MaxDays \in Nat
    /\ Nothing \notin Booking

VARIABLES
    day,        \* the date
    books,      \* the rows of a confirmed payment
    report,     \* the figures of the request that is under way
    at,         \* its next statement, 0 between requests
    today,      \* its date
    truth       \* history: the day's profit there was at its first statement

requestVars == <<report, at, today, truth>>

dashboardVars == <<day, books, requestVars>>

-------------------------------------------------------------------------------
(* Slips a change of the code could make *)

\* The two sums of the profit the other way round.
CostFirst == <<"cogs", "revenue", "credits", "debits", "count", "amount">>

\* The cash flow from the profit's own sums, and credits before them.
CreditsFirst == <<"credits", "revenue", "cogs", "debits", "count", "amount">>

-------------------------------------------------------------------------------

\* DashboardView.get, in the order in which its queries are evaluated.
Statements == <<"revenue", "cogs", "credits", "debits", "count", "amount">>

Figures == {Statements[i] : i \in DOMAIN Statements}

DashboardTypeOK ==
    /\ day \in 0..MaxDays
    /\ books \in [Payments -> Booking \cup {Nothing}]
    /\ report \in [Figures -> Nat]
    /\ at \in 0..Len(Statements) + 1
    /\ today \in 0..MaxDays
    /\ truth \in Int

Blank == [f \in Figures |-> 0]

DashboardInit ==
    /\ day = 0
    /\ books = [p \in Payments |-> Nothing]
    /\ report = Blank
    /\ at = 0
    /\ today = 0
    /\ truth = 0

-------------------------------------------------------------------------------
(* The days *)

Midnight ==
    /\ day < MaxDays
    /\ day' = day + 1
    /\ UNCHANGED <<books, requestVars, onrampVars>>

\* The sale is made first, then the entry of the revenue, then that of the cost;
\* a confirmation lasts less than a day (bound).
Bookings ==
    {b \in Booking : /\ b.sale =< b.credit /\ b.credit =< b.debit /\ b.debit =< day
                     /\ day - 1 =< b.sale}

\* process_confirmed_event within confirm_payment: whoever becomes PAID is booked.
Book ==
    /\ \E b \in Bookings :
         books' = [p \in Payments |-> IF p \in paid' \ paid THEN b ELSE books[p]]
    /\ UNCHANGED <<day, requestVars>>

-------------------------------------------------------------------------------
(* The view *)

\* created_at__date=today.
Dated(row) == {p \in paid : books[p][row] = today}

\* _sum, and sum over the sales: of no rows it is zero.
SumOf(amount, row) == SumFunctionOnSet(amount, Dated(row))

\* Credits are booked to REVENUE only, and debits to COGS only.
Query(figure) ==
    IF figure \in {"cogs", "debits"} THEN SumOf(Cost, "debit")
    ELSE IF figure \in {"revenue", "credits"} THEN SumOf(Price, "credit")
    ELSE IF figure = "count" THEN Cardinality(Dated("sale")) ELSE SumOf(Price, "sale")

Profit == SumOf(Price, "credit") - SumOf(Cost, "debit")

\* timezone.localdate(), once.
AskDashboard ==
    /\ at = 0
    /\ today' = day
    /\ at' = 1
    /\ UNCHANGED <<day, books, report, truth, onrampVars>>

ReadFigure ==
    /\ at \in DOMAIN Statements
    /\ report' = [report EXCEPT ![Statements[at]] = Query(Statements[at])]
    /\ truth' = IF at = 1 THEN Profit ELSE truth
    /\ at' = at + 1
    /\ UNCHANGED <<day, books, today, onrampVars>>

Answering == at > Len(Statements)

Answer ==
    /\ Answering
    /\ at' = 0
    /\ report' = Blank
    /\ today' = 0
    /\ truth' = 0
    /\ UNCHANGED <<day, books, onrampVars>>

-------------------------------------------------------------------------------
(* Properties *)

\* Whatever is sold while the dashboard is put together, its profit is at most
\* the profit the day's books had when it was asked for: a sale may add its cost
\* without its revenue, never the other way round (ledger/views.py:91-98).
ProfitIsNotOverstated ==
    Answering => report["revenue"] - report["cogs"] =< truth

\* Sales whose revenue was booked on the day, but not the sale itself.
Overnight == SumFunctionOnSet(Price, Dated("credit") \ Dated("sale"))

\* The figures may be of different moments, but the later the statement the more
\* it has seen, down to the number and amount of the sales: these explain the
\* credits, but for what was confirmed across midnight (ledger/views.py:91-134).
FiguresAreInOrder ==
    Answering =>
        /\ report["revenue"] =< report["credits"]
        /\ report["credits"] =< report["amount"] + Overnight
        /\ report["cogs"] =< report["debits"]
        /\ report["count"] = 0 => report["revenue"] =< Overnight

===============================================================================
