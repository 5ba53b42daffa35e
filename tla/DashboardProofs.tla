---------------------------- MODULE DashboardProofs ----------------------------
(***************************************************************************)
(* Theorems about the figures of GET /dashboard, for any payments with any *)
(* prices and costs, and with them the types of all of Rails.              *)
(***************************************************************************)
EXTENDS RailsProofs, SumLemmas

-------------------------------------------------------------------------------
(* The inductive invariant of the dashboard *)

\* The sums of the day.
Credits == SumOf(Price, "credit")
Debits == SumOf(Cost, "debit")
Amount == SumOf(Price, "sale")

\* Each figure was the sum when its statement ran, and sums have only grown since:
\* a figure is at most the sum of now, and at most any figure read after it.
FiguresGrow ==
    LET r == report IN
        /\ at >= 2 => r["revenue"] =< Credits /\ r["revenue"] =< truth + Debits
        /\ at >= 3 => r["revenue"] - r["cogs"] =< truth /\ r["cogs"] =< Debits
        /\ at >= 4 => r["revenue"] =< r["credits"] /\ r["credits"] =< Credits
        /\ at >= 5 => r["cogs"] =< r["debits"]
        /\ at >= 6 => (r["count"] = 0 => r["revenue"] =< Overnight)
        /\ at >= 7 => r["credits"] =< r["amount"] + Overnight

DashboardInv ==
    /\ DashboardTypeOK
    /\ IsFiniteSet(paid) /\ paid \subseteq Payments
    /\ FiguresGrow

-------------------------------------------------------------------------------
(* The sums, and the statements by their places *)

LEMMA DatedRows ==
    ASSUME IsFiniteSet(paid), paid \subseteq Payments, NEW row
    PROVE  /\ IsFiniteSet(Dated(row)) /\ Dated(row) \subseteq Payments
           /\ IsFiniteSet(Dated("credit") \ Dated(row))
BY FS_Subset DEF Dated

LEMMA SumsNat ==
    ASSUME IsFiniteSet(paid), paid \subseteq Payments
    PROVE  Credits \in Nat /\ Debits \in Nat /\ Amount \in Nat /\ Overnight \in Nat
<1>1. \A p \in Payments : Price[p] \in Nat /\ Cost[p] \in Nat
  BY DashboardAssumption
<1>. QED
  BY <1>1, DatedRows, SumNat DEF Credits, Debits, Amount, Overnight, SumOf

\* What is confirmed stays confirmed and booked, so that no sum of the day shrinks.
LEMMA SumsGrow ==
    ASSUME IsFiniteSet(paid), paid \subseteq Payments,
           paid \subseteq paid', IsFiniteSet(paid'), paid' \subseteq Payments,
           \A p \in paid : books'[p] = books[p], today' = today
    PROVE  /\ Credits =< Credits' /\ Debits =< Debits' /\ Overnight =< Overnight'
           /\ Credits' \in Nat /\ Debits' \in Nat /\ Overnight' \in Nat
<1>. DEFINE night == Dated("credit") \ Dated("sale")
<1>1. \A p \in Payments : Price[p] \in Nat /\ Cost[p] \in Nat
  BY DashboardAssumption
<1>2. /\ IsFiniteSet(Dated("credit")') /\ Dated("credit")' \subseteq Payments
      /\ IsFiniteSet(Dated("debit")') /\ Dated("debit")' \subseteq Payments
      /\ IsFiniteSet(night') /\ night' \subseteq Payments
  BY FS_Subset DEF Dated
<1>3. /\ Dated("credit") \subseteq Dated("credit")' /\ Dated("debit") \subseteq Dated("debit")'
      /\ night \subseteq night'
  BY DEF Dated
<1>4. Credits' \in Nat /\ Debits' \in Nat /\ Overnight' \in Nat
  BY <1>1, <1>2, SumNat DEF Credits, Debits, Overnight, SumOf
<1>. QED  BY <1>1, <1>2, <1>3, <1>4, SumMonotone DEF Credits, Debits, Overnight, SumOf

\* The credits of the day are explained by its sales, but for those of the night.
LEMMA CreditsAreExplained ==
    ASSUME IsFiniteSet(paid), paid \subseteq Payments
    PROVE  /\ Credits =< Amount + Overnight
           /\ Cardinality(Dated("sale")) = 0 => Credits = Overnight
<1>. DEFINE both == Dated("credit") \cap Dated("sale")
            night == Dated("credit") \ Dated("sale")
<1>1. \A p \in Payments : Price[p] \in Nat
  BY DashboardAssumption
<1>2. /\ IsFiniteSet(both) /\ IsFiniteSet(night) /\ IsFiniteSet(Dated("sale"))
      /\ both \subseteq Payments /\ night \subseteq Payments /\ Dated("sale") \subseteq Payments
  BY FS_Subset DEF Dated
<1>3. both \cap night = {} /\ both \cup night = Dated("credit")
  OBVIOUS
<1>4. SumFunctionOnSet(Price, both \cup night)
        = SumFunctionOnSet(Price, both) + SumFunctionOnSet(Price, night)
  <2>1. \A p \in both \cup night : Price[p] \in Int
    BY <1>1, <1>2
  <2>. HIDE DEF both, night
  <2>. QED  BY <1>2, <1>3, <2>1, SumSplit
<1>5. SumFunctionOnSet(Price, both) =< SumFunctionOnSet(Price, Dated("sale"))
  <2>1. both \in SUBSET Dated("sale")
    OBVIOUS
  <2>. HIDE DEF both
  <2>. QED  BY <1>1, <1>2, <2>1, SumMonotone
<1>6. SumFunctionOnSet(Price, both) \in Nat
  BY <1>1, <1>2, SumNat
<1>7. ASSUME Cardinality(Dated("sale")) = 0
      PROVE  Credits = Overnight
  <2>1. Dated("sale") = {}
    BY <1>2, <1>7, FS_EmptySet
  <2>. QED  BY <2>1 DEF Credits, SumOf, Overnight
<1>. QED
  BY <1>3, <1>4, <1>5, <1>6, <1>7, SumsNat DEF Credits, Amount, Overnight, SumOf

LEMMA StatementPlaces ==
    /\ Len(Statements) = 6 /\ DOMAIN Statements = 1..6
    /\ Statements[1] = "revenue" /\ Statements[2] = "cogs" /\ Statements[3] = "credits"
    /\ Statements[4] = "debits" /\ Statements[5] = "count" /\ Statements[6] = "amount"
  BY DEF Statements

LEMMA FigureNames ==
    Figures = {"revenue", "cogs", "credits", "debits", "count", "amount"}
<1>1. Figures = {Statements[1], Statements[2], Statements[3], Statements[4], Statements[5], Statements[6]}
  BY StatementPlaces DEF Figures
<1>. QED  BY <1>1, StatementPlaces

-------------------------------------------------------------------------------
(* Steps *)

LEMMA InitDashboard ==
    ASSUME Init
    PROVE  DashboardInv
<1>1. DashboardTypeOK
  BY StatementPlaces, DashboardAssumption DEF Init, DashboardInit, DashboardTypeOK, Blank
<1>2. paid = {} /\ at = 0
  BY DEF Init, DashboardInit, OnrampInit
<1>. QED  BY <1>1, <1>2, FS_EmptySet DEF DashboardInv, FiguresGrow

\* Whatever the rest of Rails does, the sums of the day only grow.
LEMMA ConfirmationsAdd ==
    ASSUME DashboardInv, UNCHANGED requestVars, DashboardTypeOK', paid \subseteq paid',
           \A p \in paid : books'[p] = books[p], IsFiniteSet(paid'), paid' \subseteq Payments
    PROVE  DashboardInv'
<1>1. report' = report /\ at' = at /\ truth' = truth /\ today' = today
  BY DEF requestVars
<1>2. /\ Credits =< Credits' /\ Debits =< Debits' /\ Overnight =< Overnight'
      /\ Credits' \in Nat /\ Debits' \in Nat /\ Overnight' \in Nat
      /\ Credits \in Nat /\ Debits \in Nat /\ Overnight \in Nat
  BY <1>1, SumsGrow, SumsNat DEF DashboardInv
<1>3. /\ report["revenue"] \in Nat /\ report["cogs"] \in Nat /\ report["credits"] \in Nat
      /\ report["amount"] \in Nat /\ truth \in Int
  BY FigureNames DEF DashboardInv, DashboardTypeOK
<1>4. FiguresGrow'
  BY <1>1, <1>2, <1>3 DEF DashboardInv, FiguresGrow
<1>. QED  BY <1>4 DEF DashboardInv

\* A payment is confirmed and booked, or nothing is.
LEMMA PaidGrows ==
    ASSUME DashboardInv, CodesInv, OnrampStep
    PROVE  DashboardInv'
<1>1. paid' = paid \/ \E p \in Payments : paid' = paid \cup {p}
  <2>1. ASSUME NEW t \in Threads, ConfirmPayment(t)
        PROVE  \E p \in Payments : paid' = paid \cup {p}
    BY <2>1 DEF ConfirmPayment, Confirming, CodesInv, OnrampTypeOK, Request
  <2>. QED
    BY <2>1
       DEF OnrampStep, RequestOtp, BeginConfirm, TakeOtp, ConfirmFails, PollDemo, Restart
<1>2. paid \subseteq paid' /\ IsFiniteSet(paid') /\ paid' \subseteq Payments
  BY <1>1, FS_AddElement DEF DashboardInv
<1>3. PICK b \in Booking : books' = [p \in Payments |-> IF p \in paid' \ paid THEN b ELSE books[p]]
  BY DEF OnrampStep, Book, Bookings
<1>4. \A p \in paid : books'[p] = books[p]
  BY <1>3 DEF DashboardInv
<1>5. UNCHANGED requestVars /\ UNCHANGED day
  BY DEF OnrampStep, Book
<1>6. DashboardTypeOK'
  BY <1>3, <1>5 DEF DashboardInv, DashboardTypeOK, requestVars
<1>. QED  BY <1>2, <1>4, <1>5, <1>6, ConfirmationsAdd

LEMMA MidnightSteps ==
    ASSUME DashboardInv, Midnight
    PROVE  DashboardInv'
<1>1. UNCHANGED <<requestVars, books, paid>>
  BY DEF Midnight, onrampVars
<1>2. DashboardTypeOK'
  BY <1>1, DashboardAssumption DEF Midnight, DashboardInv, DashboardTypeOK, requestVars
<1>. QED  BY <1>1, <1>2, ConfirmationsAdd DEF DashboardInv

\* The next statement runs: one figure is the sum of now.
LEMMA ReadFigureSteps ==
    ASSUME DashboardInv, ReadFigure
    PROVE  DashboardInv'
<1>. DEFINE figure == Statements[at]
<1>1. /\ at \in 1..6 /\ at' = at + 1
      /\ report' = [report EXCEPT ![figure] = Query(figure)]
      /\ truth' = IF at = 1 THEN Profit ELSE truth
  BY StatementPlaces DEF ReadFigure
<1>2. UNCHANGED <<paid, books, today, day>>
  BY DEF ReadFigure, onrampVars
<1>3. /\ Credits' = Credits /\ Debits' = Debits /\ Amount' = Amount /\ Overnight' = Overnight
  BY <1>2 DEF Credits, Debits, Amount, Overnight, SumOf, Dated
<1>4. /\ Credits \in Nat /\ Debits \in Nat /\ Amount \in Nat /\ Overnight \in Nat
      /\ Cardinality(Dated("sale")) \in Nat
  BY SumsNat, DatedRows, FS_CardinalityType DEF DashboardInv
<1>5. figure \in Figures /\ Query(figure) \in Nat /\ report \in [Figures -> Nat] /\ truth \in Int
  BY <1>1, <1>4, StatementPlaces, FigureNames
     DEF Query, Credits, Debits, Amount, DashboardInv, DashboardTypeOK
<1>6. DashboardTypeOK'
  <2>1. report' \in [Figures -> Nat]
    BY <1>1, <1>5
  <2>2. truth' \in Int
    BY <1>1, <1>4, <1>5 DEF Profit, Credits, Debits
  <2>3. at' \in 0..7
    BY <1>1
  <2>. QED
    BY <1>2, <2>1, <2>2, <2>3, StatementPlaces DEF DashboardTypeOK, DashboardInv
<1>7. \A g \in Figures : report'[g] = IF g = figure THEN Query(figure) ELSE report[g]
  BY <1>1, <1>5
<1>8. \A g \in {"revenue", "cogs", "credits", "debits", "count", "amount"} :
          /\ report[g] \in Nat
          /\ report'[g] = IF g = figure THEN Query(figure) ELSE report[g]
  BY <1>5, <1>7, FigureNames
<1>9. FiguresGrow'
  <2>. HIDE DEF figure
  <2>1. FiguresGrow
    BY DEF DashboardInv
  <2>2. CASE at = 1
    <3>1. figure = "revenue" /\ Query(figure) = Credits /\ at' = 2 /\ truth' = Credits - Debits
      BY <1>1, <2>2, StatementPlaces DEF Query, figure, Profit, Credits, Debits
    <3>. QED  BY <1>3, <1>4, <1>8, <3>1 DEF FiguresGrow
  <2>3. CASE at = 2
    <3>1. figure = "cogs" /\ Query(figure) = Debits /\ at' = 3 /\ truth' = truth
      BY <1>1, <2>3, StatementPlaces DEF Query, figure, Debits
    <3>. QED  BY <1>3, <1>4, <1>5, <1>8, <2>1, <2>3, <3>1 DEF FiguresGrow
  <2>4. CASE at = 3
    <3>1. figure = "credits" /\ Query(figure) = Credits /\ at' = 4 /\ truth' = truth
      BY <1>1, <2>4, StatementPlaces DEF Query, figure, Credits
    <3>. QED  BY <1>3, <1>4, <1>5, <1>8, <2>1, <2>4, <3>1 DEF FiguresGrow
  <2>5. CASE at = 4
    <3>1. figure = "debits" /\ Query(figure) = Debits /\ at' = 5 /\ truth' = truth
      BY <1>1, <2>5, StatementPlaces DEF Query, figure, Debits
    <3>. QED  BY <1>3, <1>4, <1>5, <1>8, <2>1, <2>5, <3>1 DEF FiguresGrow
  <2>6. CASE at = 5
    <3>1. figure = "count" /\ Query(figure) = Cardinality(Dated("sale")) /\ at' = 6 /\ truth' = truth
      BY <1>1, <2>6, StatementPlaces DEF Query, figure
    <3>2. Cardinality(Dated("sale")) = 0 => Credits = Overnight
      BY CreditsAreExplained DEF DashboardInv
    <3>. QED  BY <1>3, <1>4, <1>5, <1>8, <2>1, <2>6, <3>1, <3>2 DEF FiguresGrow
  <2>7. CASE at = 6
    <3>1. figure = "amount" /\ Query(figure) = Amount /\ at' = 7 /\ truth' = truth
      BY <1>1, <2>7, StatementPlaces DEF Query, figure, Amount
    <3>2. Credits =< Amount + Overnight
      BY CreditsAreExplained DEF DashboardInv
    <3>. QED  BY <1>3, <1>4, <1>5, <1>8, <2>1, <2>7, <3>1, <3>2 DEF FiguresGrow
  <2>. QED  BY <1>1, <2>2, <2>3, <2>4, <2>5, <2>6, <2>7
<1>. QED  BY <1>2, <1>6, <1>9 DEF DashboardInv

\* A request begins or ends.
LEMMA RequestSteps ==
    ASSUME DashboardInv, AskDashboard \/ Answer
    PROVE  DashboardInv'
<1>1. UNCHANGED <<paid, books, day>> /\ at' \in {0, 1}
  BY DEF AskDashboard, Answer, onrampVars
<1>2. /\ report' = report \/ report' = Blank
      /\ truth' = truth \/ truth' = 0
      /\ today' = day \/ today' = 0
  BY DEF AskDashboard, Answer
<1>3. DashboardTypeOK'
  BY <1>1, <1>2, StatementPlaces, DashboardAssumption DEF DashboardInv, DashboardTypeOK, Blank
<1>. QED  BY <1>1, <1>3 DEF DashboardInv, FiguresGrow

-------------------------------------------------------------------------------
(* Theorems *)

\* The figures keep their order whatever is confirmed between the statements and
\* whichever midnights pass, for all payments, prices and costs.
THEOREM DashboardInvariant == Spec => []DashboardInv
<1>1. Init => DashboardInv
  BY InitDashboard
<1>2. DashboardInv /\ CodesInv /\ [Next]_vars => DashboardInv'
  <2>. SUFFICES ASSUME DashboardInv, CodesInv, [Next]_vars
                PROVE  DashboardInv'
    OBVIOUS
  <2>1. CASE OnrampStep
    BY <2>1, PaidGrows
  <2>2. CASE DashboardStep
    BY <2>2, ReadFigureSteps, RequestSteps, MidnightSteps DEF DashboardStep
  <2>3. CASE ~OnrampStep /\ ~DashboardStep
    <3>1. UNCHANGED dashboardVars /\ UNCHANGED onrampVars
      BY <2>3 DEF Next, CallStep, ProviderStep, WatchStep, Quiescent, vars, localVars
    <3>2. UNCHANGED <<paid, books, requestVars>>
      BY <3>1 DEF onrampVars, dashboardVars
    <3>3. DashboardTypeOK'
      BY <3>1 DEF dashboardVars, requestVars, DashboardInv, DashboardTypeOK
    <3>. QED  BY <3>2, <3>3, ConfirmationsAdd DEF DashboardInv
  <2>. QED  BY <2>1, <2>2, <2>3
<1>. QED  BY <1>1, <1>2, CodesInvariant, PTL DEF Spec

\* All variables of Rails keep their types (the figures are natural numbers, too).
THEOREM RailsType == Spec => []TypeOK
<1>1. IInv /\ CodesInv /\ DashboardInv => TypeOK
  BY DEF IInv, CodesInv, DashboardInv, TypeOK
<1>. QED  BY <1>1, ClientsInvariant, CodesInvariant, DashboardInvariant, PTL

\* The profit of the dashboard is at most the profit the day's books had when it was
\* asked for (ledger/views.py:91-98).
THEOREM ProfitTheorem == Spec => []ProfitIsNotOverstated
<1>1. DashboardInv => ProfitIsNotOverstated
  BY StatementPlaces
     DEF DashboardInv, DashboardTypeOK, FiguresGrow, ProfitIsNotOverstated, Answering
<1>. QED  BY <1>1, DashboardInvariant, PTL

\* A figure read later has seen at least what one read earlier has, and the sales of
\* the day explain its credits, but for those confirmed across midnight
\* (ledger/views.py:91-134).
THEOREM FiguresTheorem == Spec => []FiguresAreInOrder
<1>1. DashboardInv => FiguresAreInOrder
  BY StatementPlaces
     DEF DashboardInv, DashboardTypeOK, FiguresGrow, FiguresAreInOrder, Answering
<1>. QED  BY <1>1, DashboardInvariant, PTL

===============================================================================
