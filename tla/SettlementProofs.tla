--------------------------- MODULE SettlementProofs ---------------------------
(***************************************************************************)
(* What Settlement guarantees for every set of orders, products, workers,  *)
(* carts and stocks.                                                       *)
(***************************************************************************)
EXTENDS Settlement, TLAPS

-------------------------------------------------------------------------------
(* Type correctness *)

\* What a transaction sees of a product's stock is a natural number.
LEMMA SeenStockNat ==
    ASSUME TypeOK, NEW w \in Workers, NEW p \in Products
    PROVE  SeenStock(w, p) \in Nat
<1>1. pending[w][p] \in Seq(Movement)
    BY DEF TypeOK
<1>2. CASE pending[w][p] = <<>>
    BY <1>2 DEF TypeOK, SeenStock, QtyAfter
<1>3. CASE pending[w][p] # <<>>
    <2>1. Len(pending[w][p]) \in 1..Len(pending[w][p])
        BY <1>1, <1>3
    <2>2. pending[w][p][Len(pending[w][p])] \in Movement
        BY <1>1, <2>1
    <2> QED
        BY <1>3, <2>2 DEF SeenStock, QtyAfter, Movement
<1> QED
    BY <1>2, <1>3

THEOREM InitTypeOK == Init => TypeOK
<1> SUFFICES ASSUME Init PROVE TypeOK
    OBVIOUS
<1>1. \A p \in Products : InitialMovements(p) \in Seq(Movement)
    <2> SUFFICES ASSUME NEW p \in Products PROVE InitialMovements(p) \in Seq(Movement)
        OBVIOUS
    <2>1. InitialStock[p] \in Nat
        BY StockAssumption
    <2>2. [qty_delta |-> InitialStock[p], qty_after |-> InitialStock[p], reference |-> None]
              \in Movement
        BY <2>1 DEF Movement
    <2> QED
        BY <2>2 DEF InitialMovements
<1>2. NoMovements \in [Products -> Seq(Movement)]
    BY DEF NoMovements
<1> QED
    BY <1>1, <1>2, StockAssumption DEF Init, TypeOK, Statuses, Steps, RailStates

\* The end of a request leaves the request variables and the locks well typed.
LEMMA FinishTypeOK ==
    ASSUME TypeOK, NEW w \in Workers, Finish(w)
    PROVE  /\ payment_lock' \in [Orders -> Workers \cup {None}]
           /\ product_lock' \in [Products -> Workers \cup {None}]
           /\ pc' \in [Workers -> Steps]
           /\ job' \in [Workers -> Orders \cup {None}]
           /\ amount_bif' \in [Workers -> Nat]
           /\ event' \in [Workers -> Events \cup {None}]
           /\ line' \in [Workers -> Nat]
           /\ pending' \in [Workers -> [Products -> Seq(Movement)]]
           /\ total_cogs' \in [Workers -> Nat]
<1>1. NoMovements \in [Products -> Seq(Movement)]
    BY DEF NoMovements
<1>2. payment_lock' \in [Orders -> Workers \cup {None}]
    BY DEF TypeOK, Finish, Freed
<1>3. product_lock' \in [Products -> Workers \cup {None}]
    BY DEF TypeOK, Finish, Freed
<1> QED
    BY <1>1, <1>2, <1>3 DEF TypeOK, Finish, Goto, Steps

LEMMA RollbackTypeOK ==
    ASSUME TypeOK, NEW w \in Workers, Rollback(w), faults' \in Nat
    PROVE  TypeOK'
BY FinishTypeOK DEF Rollback, TypeOK, tables

\* What a commit publishes of a sale is well typed.
LEMMA PublishSaleTypeOK ==
    ASSUME TypeOK, NEW w \in Workers, PublishSale(w),
           job[w] \in Orders, event[w] \in Events
    PROVE  /\ sale' \in [Events -> SaleRow \cup {None}]
           /\ ledger' \in [Events -> [REVENUE : Nat, COGS : Nat]]
           /\ stock_qty' \in [Products -> Nat]
           /\ movements' \in [Products -> Seq(Movement)]
<1>1. Total[job[w]] \in Nat /\ total_cogs[w] \in Nat
    BY OrdersAssumption DEF TypeOK
<1>2. sale' \in [Events -> SaleRow \cup {None}]
    BY <1>1 DEF PublishSale, TypeOK, SaleRow
<1>3. ledger' \in [Events -> [REVENUE : Nat, COGS : Nat]]
    BY <1>1 DEF PublishSale, TypeOK
<1>4. stock_qty' \in [Products -> Nat]
    BY SeenStockNat DEF PublishSale
<1>5. movements' \in [Products -> Seq(Movement)]
    BY DEF PublishSale, TypeOK
<1> QED
    BY <1>2, <1>3, <1>4, <1>5

LEMMA PublishConfirmationTypeOK ==
    ASSUME TypeOK, NEW w \in Workers, PublishConfirmation(w),
           job[w] \in Orders, event[w] \in Events
    PROVE  /\ event_row' \in [Events -> EventRow \cup {None}]
           /\ financial_event' \in [Orders -> Events \cup {None}]
           /\ status' \in [Orders -> Statuses]
BY DEF PublishConfirmation, TypeOK, EventRow, Statuses

\* A request under way has an order, and a FinancialEvent from the moment
\* handle_financial_event may run for it.
RequestOK ==
    \A w \in Workers :
        /\ pc[w] # "idle" => job[w] \in Orders
        /\ pc[w] \in {"handed", "lines", "record"} => event[w] \in Events
        /\ pc[w] \notin {"handed", "lines", "record"} => event[w] = None

TypeInv == TypeOK /\ RequestOK

\* Only a worker's own request variables change in its steps.
LEMMA FinishRequestOK ==
    ASSUME TypeInv, NEW w \in Workers, Finish(w)
    PROVE  RequestOK'
BY DEF TypeInv, TypeOK, RequestOK, Finish, Goto

LEMMA RollbackTypeInv ==
    ASSUME TypeInv, NEW w \in Workers, Rollback(w), faults' \in Nat
    PROVE  TypeInv'
BY RollbackTypeOK, FinishRequestOK DEF Rollback, TypeInv

LEMMA BeginTypeInv ==
    ASSUME TypeInv, NEW w \in Workers, NEW o \in Orders,
           NEW step \in {"insert", "poll", "otp", "webhook", "confirm"}, Begin(w, o, step)
    PROVE  /\ pc' \in [Workers -> Steps]
           /\ job' \in [Workers -> Orders \cup {None}]
           /\ event' = event => RequestOK'
BY DEF TypeInv, TypeOK, RequestOK, Begin, Steps

LEMMA ArriveTypeInv ==
    ASSUME TypeInv, NEW w \in Workers, Arrive(w)
    PROVE  TypeInv'
<1>1. PICK o \in Orders : \/ CreateInvoice(w, o)
                          \/ PollRead(w, o)
                          \/ OnrampRead(w, o)
                          \/ RailPosts(w, o)
                          \/ Webhook(w, o)
                          \/ HandEvent(w, o)
    BY DEF Arrive
<1>2. CASE CreateInvoice(w, o)
    <2>1. rail' \in [Orders -> RailStates]
        BY <1>2 DEF CreateInvoice, TypeInv, TypeOK, RailStates
    <2> QED
        BY <1>2, <2>1, BeginTypeInv DEF CreateInvoice, TypeInv, TypeOK, tables, locks
<1>3. CASE PollRead(w, o)
    BY <1>3, BeginTypeInv DEF PollRead, TypeInv, TypeOK, tables, locks, environment
<1>4. CASE OnrampRead(w, o)
    BY <1>4, BeginTypeInv DEF OnrampRead, TypeInv, TypeOK, tables, locks, environment
<1>5. CASE Webhook(w, o)
    BY <1>5, BeginTypeInv DEF Webhook, TypeInv, TypeOK, tables, locks, environment
<1>6. CASE RailPosts(w, o)
    BY <1>6, BeginTypeInv DEF RailPosts, TypeInv, TypeOK, tables, locks, environment
<1>7. CASE HandEvent(w, o)
    <2>1. PICK e \in Events :
             /\ event' = [event EXCEPT ![w] = e]
             /\ event_row' = [event_row EXCEPT ![e] =
                                 [order |-> o, amount |-> Total[o], handed |-> TRUE]]
        BY <1>7 DEF HandEvent
    <2>2. event_row' \in [Events -> EventRow \cup {None}]
        BY <2>1, OrdersAssumption DEF TypeInv, TypeOK, EventRow
    <2>3. RequestOK'
        BY <1>7, <2>1 DEF HandEvent, Begin, TypeInv, TypeOK, RequestOK
    <2>4. /\ pc' \in [Workers -> Steps]
          /\ job' \in [Workers -> Orders \cup {None}]
          /\ event' \in [Workers -> Events \cup {None}]
        BY <1>7, <2>1 DEF HandEvent, Begin, TypeInv, TypeOK, Steps
    <2> QED
        BY <1>7, <2>2, <2>3, <2>4 DEF HandEvent, TypeInv, TypeOK, locks, environment
<1> QED
    BY <1>1, <1>2, <1>3, <1>4, <1>5, <1>6, <1>7

LEMMA ProceedTypeInv ==
    ASSUME TypeInv, NEW w \in Workers, Proceed(w)
    PROVE  TypeInv'
<1>1. CASE InsertPayment(w)
    <2>1. status' \in [Orders -> Statuses]
        BY <1>1 DEF InsertPayment, TypeInv, TypeOK, Statuses
    <2> QED
        BY <1>1, <2>1, FinishTypeOK, FinishRequestOK
        DEF InsertPayment, TypeInv, TypeOK, environment
<1>2. CASE PollPaid(w)
    <2>1. amount_bif' \in [Workers -> Nat]
        BY <1>2, OrdersAssumption DEF PollPaid, TypeInv, TypeOK, RequestOK
    <2> QED
        BY <1>2, <2>1
        DEF PollPaid, Goto, TypeInv, TypeOK, RequestOK, Steps, tables, locks, environment
<1>3. CASE PollExhausted(w)
    <2>1. pc' = [pc EXCEPT ![w] = "expire"] \/ pc' = [pc EXCEPT ![w] = "fail"]
        BY <1>3 DEF PollExhausted, Goto
    <2> QED
        BY <1>3, <2>1
        DEF PollExhausted, TypeInv, TypeOK, RequestOK, Steps, tables, locks, environment
<1>4. CASE PollUndecided(w)
    BY <1>4, RollbackTypeInv DEF PollUndecided, TypeInv, TypeOK
<1>5. CASE OtpAccepted(w)
    <2>1. amount_bif' \in [Workers -> Nat]
        BY <1>5, OrdersAssumption DEF OtpAccepted, TypeInv, TypeOK, RequestOK
    <2> QED
        BY <1>5, <2>1
        DEF OtpAccepted, Goto, TypeInv, TypeOK, RequestOK, Steps, tables, locks, environment
<1>6. CASE OtpRejected(w) \/ PostRefused(w)
    BY <1>6, RollbackTypeInv DEF OtpRejected, PostRefused, TypeInv, TypeOK
<1>7. CASE CommitConfirmation(w)
    <2>1. job[w] \in Orders /\ event[w] \in Events
        BY <1>7 DEF CommitConfirmation, SaleReady, TypeInv, RequestOK
    <2> QED
        BY <1>7, <2>1, FinishTypeOK, FinishRequestOK, PublishSaleTypeOK, PublishConfirmationTypeOK
        DEF CommitConfirmation, TypeInv, TypeOK, environment
<1>8. CASE CommitWithoutSale(w)
    <2>1. job[w] \in Orders /\ event[w] \in Events
        BY <1>8 DEF CommitWithoutSale, TypeInv, RequestOK
    <2>2. activated' \in [Orders -> Nat]
        BY <1>8, <2>1 DEF CommitWithoutSale, Activation, TypeInv, TypeOK
    <2> QED
        BY <1>8, <2>1, <2>2, FinishTypeOK, FinishRequestOK, PublishConfirmationTypeOK
        DEF CommitWithoutSale, TypeInv, TypeOK, environment
<1>9. CASE CommitHanded(w)
    <2>1. job[w] \in Orders /\ event[w] \in Events
        BY <1>9 DEF CommitHanded, SaleReady, TypeInv, RequestOK
    <2> QED
        BY <1>9, <2>1, FinishTypeOK, FinishRequestOK, PublishSaleTypeOK
        DEF CommitHanded, TypeInv, TypeOK, environment
<1> QED
    BY <1>1, <1>2, <1>3, <1>4, <1>5, <1>6, <1>7, <1>8, <1>9 DEF Proceed

LEMMA LockPaymentTypeInv ==
    ASSUME TypeInv, NEW w \in Workers, LockPayment(w)
    PROVE  TypeInv'
<1>1. CASE PollSave(w)
    <2>1. status' \in [Orders -> Statuses]
        BY <1>1 DEF PollSave, TypeInv, TypeOK, Statuses
    <2> QED
        BY <1>1, <2>1, FinishTypeOK, FinishRequestOK
        DEF PollSave, TypeInv, TypeOK, environment
<1>2. CASE ConfirmAgain(w)
    BY <1>2, RollbackTypeInv DEF ConfirmAgain, TypeInv, TypeOK
<1>3. CASE ConfirmNew(w)
    <2>1. PICK e \in Events :
             /\ event' = [event EXCEPT ![w] = e]
             /\ Goto(w, IF NoSaleToMake(job[w], e) THEN "record" ELSE "lines")
        BY <1>3 DEF ConfirmNew
    <2>2. pc' = [pc EXCEPT ![w] = "record"] \/ pc' = [pc EXCEPT ![w] = "lines"]
        BY <2>1 DEF Goto
    <2>3. RequestOK'
        BY <1>3, <2>1, <2>2 DEF ConfirmNew, TypeInv, TypeOK, RequestOK
    <2>4. /\ pc' \in [Workers -> Steps]
          /\ event' \in [Workers -> Events \cup {None}]
          /\ line' \in [Workers -> Nat]
          /\ payment_lock' \in [Orders -> Workers \cup {None}]
        BY <1>3, <2>1, <2>2 DEF ConfirmNew, TypeInv, TypeOK, Steps
    <2> QED
        BY <1>3, <2>3, <2>4 DEF ConfirmNew, TypeInv, TypeOK, tables, environment
<1>4. CASE HandedSkip(w)
    BY <1>4, RollbackTypeInv DEF HandedSkip, TypeInv, TypeOK
<1>5. CASE HandedBegin(w)
    <2>1. RequestOK'
        BY <1>5 DEF HandedBegin, Goto, TypeInv, TypeOK, RequestOK
    <2>2. /\ pc' \in [Workers -> Steps]
          /\ line' \in [Workers -> Nat]
          /\ payment_lock' \in [Orders -> Workers \cup {None}]
        BY <1>5 DEF HandedBegin, Goto, TypeInv, TypeOK, Steps
    <2> QED
        BY <1>5, <2>1, <2>2 DEF HandedBegin, TypeInv, TypeOK, tables, environment
<1> QED
    BY <1>1, <1>2, <1>3, <1>4, <1>5 DEF LockPayment

\* The line a handler is at is one of the cart's.
LEMMA LineOfType ==
    ASSUME TypeInv, NEW w \in Workers, AtLine(w)
    PROVE  LineOf(w) \in Line
<1>1. job[w] \in Orders
    BY DEF TypeInv, RequestOK, AtLine
<1>2. Cart[job[w]] \in Seq(Line)
    BY <1>1, OrdersAssumption
<1> QED
    BY <1>2 DEF AtLine, LineOf

\* A covered line leaves a stock that is again a natural number.
LEMMA TakenMovementType ==
    ASSUME TypeInv, NEW w \in Workers, AtLine(w), Covers(w)
    PROVE  MovementOf(SeenStock(w, LineOf(w).product), -LineOf(w).quantity, job[w]) \in Movement
<1>1. /\ LineOf(w).product \in Products
      /\ LineOf(w).quantity \in Nat
    BY LineOfType DEF Line
<1>2. SeenStock(w, LineOf(w).product) \in Nat
    BY <1>1, SeenStockNat DEF TypeInv
<1>3. job[w] \in Orders
    BY DEF TypeInv, RequestOK, AtLine
<1> QED
    BY <1>1, <1>2, <1>3 DEF Covers, MovementOf, Movement

LEMMA LockProductTypeInv ==
    ASSUME TypeInv, NEW w \in Workers, LockProduct(w)
    PROVE  TypeInv'
<1>1. CASE TakeLine(w)
    <2> DEFINE l == LineOf(w)
               m == MovementOf(SeenStock(w, l.product), -l.quantity, job[w])
    <2>1. AtLine(w) /\ Covers(w)
        BY <1>1 DEF TakeLine
    <2>2. l \in Line /\ m \in Movement
        BY <2>1, LineOfType, TakenMovementType
    <2>3. /\ product_lock' = [product_lock EXCEPT ![l.product] = w]
          /\ pending' = [pending EXCEPT ![w][l.product] = Append(@, m)]
          /\ total_cogs' = [total_cogs EXCEPT ![w] = @ + l.quantity * l.unit_cost]
          /\ line' = [line EXCEPT ![w] = @ + 1]
        BY <1>1 DEF TakeLine
    <2> HIDE DEF l, m
    <2>4. l.product \in Products /\ l.quantity \in Nat /\ l.unit_cost \in Nat
        BY <2>2 DEF Line
    <2>5. Append(pending[w][l.product], m) \in Seq(Movement)
        BY <2>2, <2>4 DEF TypeInv, TypeOK
    <2>6. pending' \in [Workers -> [Products -> Seq(Movement)]]
        BY <2>3, <2>4, <2>5 DEF TypeInv, TypeOK
    <2>7. l.quantity * l.unit_cost \in Nat
        BY <2>4
    <2>8. total_cogs' \in [Workers -> Nat]
        BY <2>3, <2>7 DEF TypeInv, TypeOK
    <2>9. product_lock' \in [Products -> Workers \cup {None}] /\ line' \in [Workers -> Nat]
        BY <2>3, <2>4 DEF TypeInv, TypeOK
    <2> QED
        BY <1>1, <2>6, <2>8, <2>9
        DEF TakeLine, TypeInv, TypeOK, RequestOK, tables, environment
<1>2. CASE InsufficientStock(w) \/ BarcodeFails(w)
    BY <1>2, RollbackTypeInv DEF InsufficientStock, BarcodeFails, TypeInv, TypeOK
<1> QED
    BY <1>1, <1>2 DEF LockProduct

LEMMA StockMutationTypeInv ==
    ASSUME TypeInv, NEW p \in Products, StockMutation(p)
    PROVE  TypeInv'
<1>1. PICK delta \in StockChanges :
         /\ stock_qty[p] + delta >= 0
         /\ stock_qty' = [stock_qty EXCEPT ![p] = MovementOf(stock_qty[p], delta, None).qty_after]
         /\ movements' = [movements EXCEPT ![p] = Append(@, MovementOf(stock_qty[p], delta, None))]
    BY DEF StockMutation
<1>2. MovementOf(stock_qty[p], delta, None) \in Movement
    BY <1>1, StockAssumption DEF MovementOf, Movement, TypeInv, TypeOK
<1>3. MovementOf(stock_qty[p], delta, None).qty_after \in Nat
    BY <1>2 DEF Movement
<1>4. stock_qty' \in [Products -> Nat]
    BY <1>1, <1>3 DEF TypeInv, TypeOK
<1>5. movements' \in [Products -> Seq(Movement)]
    BY <1>1, <1>2 DEF TypeInv, TypeOK
<1> QED
    BY <1>4, <1>5 DEF StockMutation, TypeInv, TypeOK, RequestOK, locks, request, environment

LEMMA NextTypeInv == TypeInv /\ [Next]_vars => TypeInv'
<1> SUFFICES ASSUME TypeInv, [Next]_vars PROVE TypeInv'
    OBVIOUS
<1>1. CASE UNCHANGED vars
    BY <1>1 DEF TypeInv, TypeOK, RequestOK, vars, tables, locks, request, environment
<1>2. ASSUME NEW w \in Workers, Arrive(w) PROVE TypeInv'
    BY <1>2, ArriveTypeInv
<1>3. ASSUME NEW w \in Workers, Proceed(w) PROVE TypeInv'
    BY <1>3, ProceedTypeInv
<1>4. ASSUME NEW w \in Workers, LockPayment(w) PROVE TypeInv'
    BY <1>4, LockPaymentTypeInv
<1>5. ASSUME NEW w \in Workers, LockProduct(w) PROVE TypeInv'
    BY <1>5, LockProductTypeInv
<1>6. ASSUME NEW w \in Workers, DeadlockVictim(w) PROVE TypeInv'
    BY <1>6, RollbackTypeInv DEF DeadlockVictim, TypeInv, TypeOK
<1>7. ASSUME NEW w \in Workers, Crash(w) PROVE TypeInv'
    <2>1. faults' \in Nat
        BY <1>7 DEF Crash, Fault, TypeInv, TypeOK
    <2>2. Rollback(w)
        BY <1>7 DEF Crash
    <2> QED
        BY <2>1, <2>2, RollbackTypeInv
<1>8. ASSUME NEW w \in Workers, AutomationBreaks(w) PROVE TypeInv'
    <2>1. faults' \in Nat
        BY <1>8 DEF AutomationBreaks, Fault, TypeInv, TypeOK
    <2>2. Rollback(w)
        BY <1>8 DEF AutomationBreaks
    <2> QED
        BY <2>1, <2>2, RollbackTypeInv
<1>9. ASSUME NEW o \in Orders, RailResolves(o) PROVE TypeInv'
    <2>1. \E r \in RailStates : rail' = [rail EXCEPT ![o] = r]
        BY <1>9, OrdersAssumption DEF RailResolves, RailStates
    <2>2. rail' \in [Orders -> RailStates]
        BY <2>1 DEF TypeInv, TypeOK
    <2> QED
        BY <1>9, <2>2 DEF RailResolves, TypeInv, TypeOK, RequestOK, tables, locks, request
<1>10. ASSUME NEW p \in Products, StockMutation(p) PROVE TypeInv'
    BY <1>10, StockMutationTypeInv
<1>11. CASE Quiescent
    BY <1>1, <1>11 DEF Quiescent
<1> QED
    BY <1>1, <1>2, <1>3, <1>4, <1>5, <1>6, <1>7, <1>8, <1>9, <1>10, <1>11 DEF Next

LEMMA TypeInvariant == Spec => []TypeInv
<1>1. Init => TypeInv
    BY InitTypeOK DEF Init, TypeInv, RequestOK
<1> QED
    BY <1>1, NextTypeInv, PTL DEF Spec

\* Every row keeps the type of its column, in particular stock_qty and qty_after
\* never leave the range of their PositiveIntegerField (products/models.py:51, 97).
THEOREM TypeCorrect == Spec => []TypeOK
<1>1. TypeInv => TypeOK
    BY DEF TypeInv
<1> QED
    BY <1>1, TypeInvariant, PTL

-------------------------------------------------------------------------------
(* One sale per order *)

\* A worker inside confirm_payment or the handler holds its payment's row.
LockInv ==
    \A w \in Workers : pc[w] \in {"lines", "record"} => payment_lock[job[w]] = w

\* The FinancialEvent of a request is its own, has no sale yet, and while the
\* payment's row is held the payment points to no event.
InFlight(w) ==
    /\ pc[w] \in {"lines", "record"} => financial_event[job[w]] = None
    /\ pc[w] = "lines" => job[w] \notin SubscriptionOrders
    /\ pc[w] = "record" => /\ job[w] \in SubscriptionOrders
                           /\ event_row[event[w]] = None
    /\ pc[w] = "handed" => event_row[event[w]] # None
    /\ event[w] # None => /\ sale[event[w]] = None
                          /\ \A v \in Workers : event[v] = event[w] => v = w
    /\ event[w] # None /\ event_row[event[w]] # None =>
           /\ event_row[event[w]].order = job[w]
           /\ event_row[event[w]].handed

InFlightInv == \A w \in Workers : InFlight(w)

EventInv ==
    \A e \in Events :
        event_row[e] # None /\ event_row[e].handed => event_row[e].order \in HandedOrders

\* A sale has its event's row and no subscription; unless it was handed in, its
\* order points to its event.  Without a sale nothing is in the ledger.
SaleOK(e) ==
    /\ sale[e] = None => ledger[e] = [REVENUE |-> 0, COGS |-> 0]
    /\ sale[e] # None => /\ event_row[e] # None
                         /\ sale[e].order \notin SubscriptionOrders
                         /\ sale[e].order \notin HandedOrders =>
                                financial_event[sale[e].order] = e

SaleInv == \A e \in Events : SaleOK(e)

\* A payment points to an event that confirm_payment created for it.
PointerInv ==
    \A o \in Orders : financial_event[o] # None =>
        /\ event_row[financial_event[o]] # None
        /\ ~event_row[financial_event[o]].handed

IInv ==
    /\ TypeInv
    /\ LockInv
    /\ InFlightInv
    /\ EventInv
    /\ SaleInv
    /\ PointerInv
    /\ ConfirmedIsWhole

LEMMA InitIInv == Init => IInv
<1> SUFFICES ASSUME Init PROVE IInv
    OBVIOUS
<1>1. TypeInv
    BY InitTypeOK DEF Init, TypeInv, RequestOK
<1>2. LockInv /\ InFlightInv /\ EventInv /\ SaleInv /\ PointerInv
    BY DEF Init, LockInv, InFlightInv, InFlight, EventInv, SaleInv, SaleOK, PointerInv
<1>3. ConfirmedIsWhole
    BY DEF Init, ConfirmedIsWhole, IsWhole, HasSale
<1> QED
    BY <1>1, <1>2, <1>3 DEF IInv

\* A step of w that writes no row but perhaps a status that is not PAID, and takes
\* no lock, and after which w holds no event.
QuietStep(w) ==
    /\ UNCHANGED <<financial_event, event_row, sale, ledger, activated>>
    /\ \A o \in Orders : status'[o] = "PAID" => status[o] = "PAID"
    /\ \A v \in Workers \ {w} : pc'[v] = pc[v] /\ job'[v] = job[v] /\ event'[v] = event[v]
    /\ \A v \in Workers \ {w}, o \in Orders : payment_lock[o] = v => payment_lock'[o] = v
    /\ pc'[w] \notin {"handed", "lines", "record"}

LEMMA QuietStepIInv ==
    ASSUME IInv, TypeInv', NEW w \in Workers, QuietStep(w)
    PROVE  IInv'
<1>1. event'[w] = None
    BY DEF QuietStep, TypeInv, RequestOK
<1>2. LockInv'
    BY DEF QuietStep, IInv, LockInv, TypeInv, RequestOK
<1>3. InFlightInv'
    BY <1>1 DEF QuietStep, IInv, InFlightInv, InFlight
<1>4. EventInv' /\ SaleInv' /\ PointerInv'
    BY DEF QuietStep, IInv, EventInv, SaleInv, SaleOK, PointerInv
<1>5. ConfirmedIsWhole'
    BY DEF QuietStep, IInv, ConfirmedIsWhole, IsWhole, HasSale
<1> QED
    BY <1>2, <1>3, <1>4, <1>5 DEF IInv

\* Requests that begin without an event, and those that end without a trace.
LEMMA BeginQuiet ==
    ASSUME TypeInv, NEW w \in Workers, NEW o \in Orders,
           NEW step \in {"insert", "poll", "otp", "webhook", "confirm"}, Begin(w, o, step),
           UNCHANGED <<tables, locks, event>>
    PROVE  QuietStep(w)
BY DEF Begin, QuietStep, TypeInv, TypeOK, tables, locks

LEMMA FinishQuiet ==
    ASSUME TypeInv, NEW w \in Workers, Finish(w),
           UNCHANGED <<financial_event, event_row, sale, ledger, activated>>,
           \A o \in Orders : status'[o] = "PAID" => status[o] = "PAID"
    PROVE  QuietStep(w)
<1>1. \A v \in Workers \ {w}, o \in Orders : payment_lock[o] = v => payment_lock'[o] = v
    BY DEF Finish, Freed, TypeInv, TypeOK
<1> QED
    BY <1>1 DEF Finish, Goto, QuietStep, TypeInv, TypeOK

LEMMA RollbackQuiet ==
    ASSUME TypeInv, NEW w \in Workers, Rollback(w)
    PROVE  QuietStep(w)
<1>1. /\ Finish(w)
      /\ UNCHANGED <<financial_event, event_row, sale, ledger, activated>>
      /\ \A o \in Orders : status'[o] = "PAID" => status[o] = "PAID"
    BY DEF Rollback, tables
<1> QED
    BY <1>1, FinishQuiet

\* A row is never None.
LEMMA RowsAreNotNone ==
    /\ \A r \in EventRow : r # None
    /\ \A r \in SaleRow : r # None
BY NoneAssumption DEF EventRow, SaleRow

\* Facts about an event no row and no open transaction uses.
LEMMA UnusedEvent ==
    ASSUME IInv, NEW e \in Events, Unused(e)
    PROVE  /\ event_row[e] = None
           /\ sale[e] = None
           /\ \A v \in Workers : event[v] # e
           /\ \A o \in Orders : financial_event[o] # e
<1>1. event_row[e] = None /\ \A v \in Workers : event[v] # e
    BY DEF Unused
<1>2. sale[e] = None
    BY <1>1 DEF IInv, SaleInv, SaleOK
<1>3. ASSUME NEW o \in Orders, financial_event[o] = e PROVE FALSE
    BY <1>1, <1>3, NoneAssumption DEF IInv, PointerInv
<1> QED
    BY <1>1, <1>2, <1>3

\* Handing an event in adds its row and nothing else.
LEMMA HandEventIInv ==
    ASSUME IInv, TypeInv', NEW w \in Workers, NEW o \in Orders, HandEvent(w, o)
    PROVE  IInv'
<1> DEFINE row == [order |-> o, amount |-> Total[o], handed |-> TRUE]
<1>1. PICK e \in Events :
         /\ Unused(e)
         /\ event' = [event EXCEPT ![w] = e]
         /\ event_row' = [event_row EXCEPT ![e] = row]
    BY DEF HandEvent
<1>2. row # None
    <2>1. row \in EventRow
        BY OrdersAssumption DEF EventRow
    <2> QED
        BY <2>1, RowsAreNotNone
<1>3. /\ event_row'[e] # None /\ event_row'[e].order = o /\ event_row'[e].handed
      /\ \A f \in Events \ {e} : event_row'[f] = event_row[f]
    BY <1>1, <1>2 DEF IInv, TypeInv, TypeOK
<1>4. /\ pc'[w] = "handed" /\ job'[w] = o /\ event'[w] = e
      /\ \A v \in Workers \ {w} : pc'[v] = pc[v] /\ job'[v] = job[v] /\ event'[v] = event[v]
      /\ o \in HandedOrders
      /\ UNCHANGED <<status, financial_event, sale, ledger, activated, payment_lock>>
    BY <1>1 DEF HandEvent, Begin, IInv, TypeInv, TypeOK, locks
<1>5. /\ event_row[e] = None /\ sale[e] = None
      /\ \A v \in Workers : event[v] # e
      /\ \A q \in Orders : financial_event[q] # e
    BY <1>1, UnusedEvent
<1> HIDE DEF row
<1>6. LockInv'
    BY <1>4 DEF IInv, LockInv
<1>7. ASSUME NEW v \in Workers PROVE InFlight(v)'
    <2>1. CASE v = w
        BY <2>1, <1>3, <1>4, <1>5 DEF InFlight
    <2>2. CASE v # w
        <3>1. InFlight(v) /\ event[v] # e /\ (event[v] # None => event[v] \in Events)
            BY <1>5 DEF IInv, InFlightInv, TypeInv, TypeOK
        <3>2. event[v] # None => event_row'[event[v]] = event_row[event[v]]
            BY <3>1, <1>3
        <3>3. pc[v] \in {"handed", "lines", "record"} => event[v] # None
            BY NoneAssumption DEF IInv, TypeInv, RequestOK
        <3> QED
            BY <2>2, <3>1, <3>2, <3>3, <1>4 DEF InFlight
    <2> QED
        BY <2>1, <2>2
<1>8. EventInv'
    BY <1>3, <1>4 DEF IInv, EventInv
<1>9. SaleInv'
    BY <1>3, <1>4, <1>5 DEF IInv, SaleInv, SaleOK
<1>10. PointerInv'
    BY <1>3, <1>4, <1>5 DEF IInv, PointerInv, TypeInv, TypeOK
<1>11. ConfirmedIsWhole'
    <2> SUFFICES ASSUME NEW q \in Orders PROVE IsWhole(q)'
        BY DEF ConfirmedIsWhole
    <2>1. financial_event[q] # None => event_row'[financial_event[q]] = event_row[financial_event[q]]
        BY <1>3, <1>5 DEF IInv, TypeInv, TypeOK
    <2> QED
        BY <2>1, <1>4 DEF IInv, ConfirmedIsWhole, IsWhole, HasSale
<1> QED
    BY <1>6, <1>7, <1>8, <1>9, <1>10, <1>11 DEF IInv, InFlightInv

\* A row lock is granted when nobody has it, so nobody else is between its
\* confirmation's check and its commit.
LEMMA NobodyHolds ==
    ASSUME IInv, NEW o \in Orders, PaymentRowFree(o),
           NEW v \in Workers, pc[v] \in {"lines", "record"}
    PROVE  job[v] # o
BY NoneAssumption DEF IInv, LockInv, PaymentRowFree

LEMMA ConfirmNewIInv ==
    ASSUME IInv, TypeInv', NEW w \in Workers, ConfirmNew(w)
    PROVE  IInv'
<1>1. PICK e \in Events :
         /\ Unused(e)
         /\ event' = [event EXCEPT ![w] = e]
         /\ Goto(w, IF NoSaleToMake(job[w], e) THEN "record" ELSE "lines")
    BY DEF ConfirmNew
<1>2. /\ event_row[e] = None /\ sale[e] = None
      /\ \A v \in Workers : event[v] # e
    BY <1>1, UnusedEvent
<1>3. /\ job[w] \in Orders /\ PaymentRowFree(job[w]) /\ financial_event[job[w]] = None
      /\ payment_lock' = [payment_lock EXCEPT ![job[w]] = w]
      /\ UNCHANGED <<tables, job>>
    BY DEF ConfirmNew, AlreadyConfirmed, IInv, TypeInv, RequestOK
<1>4. NoSaleToMake(job[w], e) <=> job[w] \in SubscriptionOrders
    BY <1>2, <1>3 DEF NoSaleToMake, SettledByAnother
<1>5. /\ event'[w] = e
      /\ pc'[w] = IF job[w] \in SubscriptionOrders THEN "record" ELSE "lines"
      /\ \A v \in Workers \ {w} : pc'[v] = pc[v] /\ event'[v] = event[v]
    BY <1>1, <1>4 DEF Goto, IInv, TypeInv, TypeOK
<1>6. LockInv'
    <2> SUFFICES ASSUME NEW v \in Workers, pc'[v] \in {"lines", "record"}
                 PROVE  payment_lock'[job'[v]] = v
        BY DEF LockInv
    <2>1. CASE v = w
        BY <2>1, <1>3 DEF IInv, TypeInv, TypeOK
    <2>2. CASE v # w
        <3>1. pc[v] \in {"lines", "record"} /\ payment_lock[job[v]] = v
            BY <2>2, <1>5 DEF IInv, LockInv
        <3>2. job[v] # job[w]
            BY <3>1, <1>3, NobodyHolds
        <3>3. job[v] \in Orders
            BY <3>1 DEF IInv, TypeInv, RequestOK
        <3> QED
            BY <3>1, <3>2, <3>3, <1>3 DEF IInv, TypeInv, TypeOK
    <2> QED
        BY <2>1, <2>2
<1>7. ASSUME NEW v \in Workers PROVE InFlight(v)'
    <2>1. CASE v = w
        BY <2>1, <1>2, <1>3, <1>5 DEF InFlight, tables
    <2>2. CASE v # w
        BY <2>2, <1>2, <1>3, <1>5 DEF InFlight, IInv, InFlightInv, tables
    <2> QED
        BY <2>1, <2>2
<1>8. EventInv' /\ SaleInv' /\ PointerInv' /\ ConfirmedIsWhole'
    BY <1>3 DEF IInv, EventInv, SaleInv, SaleOK, PointerInv, ConfirmedIsWhole, IsWhole, HasSale, tables
<1> QED
    BY <1>6, <1>7, <1>8 DEF IInv, InFlightInv

LEMMA HandedBeginIInv ==
    ASSUME IInv, TypeInv', NEW w \in Workers, HandedBegin(w)
    PROVE  IInv'
<1>1. /\ job[w] \in Orders /\ event[w] \in Events /\ pc[w] = "handed"
      /\ PaymentRowFree(job[w]) /\ ~NoSaleToMake(job[w], event[w])
      /\ payment_lock' = [payment_lock EXCEPT ![job[w]] = w]
      /\ pc'[w] = "lines"
      /\ \A v \in Workers \ {w} : pc'[v] = pc[v]
      /\ UNCHANGED <<tables, job, event>>
    BY DEF HandedBegin, Goto, IInv, TypeInv, TypeOK, RequestOK
<1>2. /\ job[w] \notin SubscriptionOrders
      /\ financial_event[job[w]] # None => financial_event[job[w]] = event[w]
    BY <1>1 DEF NoSaleToMake, SettledByAnother
<1>3. event_row[event[w]] # None /\ event_row[event[w]].handed
    BY <1>1, NoneAssumption DEF IInv, InFlightInv, InFlight
<1>4. financial_event[job[w]] = None
    BY <1>1, <1>2, <1>3 DEF IInv, PointerInv
<1>5. LockInv'
    <2> SUFFICES ASSUME NEW v \in Workers, pc'[v] \in {"lines", "record"}
                 PROVE  payment_lock'[job'[v]] = v
        BY DEF LockInv
    <2>1. CASE v = w
        BY <2>1, <1>1 DEF IInv, TypeInv, TypeOK
    <2>2. CASE v # w
        <3>1. pc[v] \in {"lines", "record"} /\ payment_lock[job[v]] = v
            BY <2>2, <1>1 DEF IInv, LockInv
        <3>2. job[v] # job[w]
            BY <3>1, <1>1, NobodyHolds
        <3>3. job[v] \in Orders
            BY <3>1 DEF IInv, TypeInv, RequestOK
        <3> QED
            BY <3>1, <3>2, <3>3, <1>1 DEF IInv, TypeInv, TypeOK
    <2> QED
        BY <2>1, <2>2
<1>6. ASSUME NEW v \in Workers PROVE InFlight(v)'
    <2>1. CASE v = w
        BY <2>1, <1>1, <1>2, <1>4 DEF InFlight, IInv, InFlightInv, tables
    <2>2. CASE v # w
        BY <2>2, <1>1 DEF InFlight, IInv, InFlightInv, tables
    <2> QED
        BY <2>1, <2>2
<1>7. EventInv' /\ SaleInv' /\ PointerInv' /\ ConfirmedIsWhole'
    BY <1>1 DEF IInv, EventInv, SaleInv, SaleOK, PointerInv, ConfirmedIsWhole, IsWhole, HasSale, tables
<1> QED
    BY <1>5, <1>6, <1>7 DEF IInv, InFlightInv

\* Steps that touch neither the requests' standing nor what the orders own.
LEMMA IdleStepIInv ==
    ASSUME IInv, TypeInv',
           UNCHANGED <<status, financial_event, event_row, sale, ledger, activated,
                       payment_lock, pc, job, event>>
    PROVE  IInv'
<1>1. LockInv' /\ InFlightInv'
    BY DEF IInv, LockInv, InFlightInv, InFlight
<1>2. EventInv' /\ SaleInv' /\ PointerInv' /\ ConfirmedIsWhole'
    BY DEF IInv, EventInv, SaleInv, SaleOK, PointerInv, ConfirmedIsWhole, IsWhole, HasSale
<1> QED
    BY <1>1, <1>2 DEF IInv

\* What is known when a transaction commits: who holds the row, that the payment
\* points nowhere, and that no other request works on the same order or event.
LEMMA AtCommit ==
    ASSUME IInv, NEW w \in Workers, pc[w] \in {"lines", "record"}
    PROVE  /\ job[w] \in Orders /\ event[w] \in Events
           /\ financial_event[job[w]] = None
           /\ sale[event[w]] = None
           /\ ledger[event[w]] = [REVENUE |-> 0, COGS |-> 0]
           /\ \A q \in Orders : financial_event[q] # None => event_row[financial_event[q]] # None
           /\ \A v \in Workers \ {w} :
                  /\ event[v] # event[w]
                  /\ pc[v] \in {"lines", "record"} => job[v] # job[w]
<1>1. job[w] \in Orders /\ event[w] \in Events /\ event[w] # None
    BY NoneAssumption DEF IInv, TypeInv, RequestOK
<1>2. financial_event[job[w]] = None /\ sale[event[w]] = None
    BY <1>1 DEF IInv, InFlightInv, InFlight
<1>3. \A v \in Workers \ {w} : event[v] # event[w]
    BY <1>1 DEF IInv, InFlightInv, InFlight
<1>4. \A v \in Workers \ {w} : pc[v] \in {"lines", "record"} => job[v] # job[w]
    BY DEF IInv, LockInv
<1> QED
    BY <1>1, <1>2, <1>3, <1>4 DEF IInv, SaleInv, SaleOK, PointerInv

\* After a request ended, the others are where they were and hold what they held.
LEMMA AfterFinish ==
    ASSUME IInv, TypeInv', NEW w \in Workers, Finish(w)
    PROVE  /\ pc'[w] = "idle" /\ event'[w] = None
           /\ \A v \in Workers \ {w} : pc'[v] = pc[v] /\ job'[v] = job[v] /\ event'[v] = event[v]
           /\ LockInv'
<1>1. pc'[w] = "idle" /\ event'[w] = None
    BY DEF Finish, Goto, IInv, TypeInv, TypeOK
<1>2. \A v \in Workers \ {w} : pc'[v] = pc[v] /\ job'[v] = job[v] /\ event'[v] = event[v]
    BY DEF Finish, Goto, IInv, TypeInv, TypeOK
<1>3. \A v \in Workers \ {w}, o \in Orders : payment_lock[o] = v => payment_lock'[o] = v
    BY DEF Finish, Freed, IInv, TypeInv, TypeOK
<1>4. LockInv'
    BY <1>1, <1>2, <1>3 DEF IInv, LockInv, TypeInv, RequestOK
<1> QED
    BY <1>1, <1>2, <1>4

\* The records of a sale whose event had none.
LEMMA SalePublished ==
    ASSUME IInv, NEW w \in Workers, PublishSale(w), pc[w] = "lines"
    PROVE  /\ sale'[event[w]] = [order |-> job[w], total_amount |-> Total[job[w]]]
           /\ sale'[event[w]] # None
           /\ ledger'[event[w]].REVENUE = Total[job[w]]
           /\ \A f \in Events \ {event[w]} : sale'[f] = sale[f] /\ ledger'[f] = ledger[f]
<1>1. /\ job[w] \in Orders /\ event[w] \in Events
      /\ Total[job[w]] \in Nat /\ ledger[event[w]].REVENUE = 0
    BY AtCommit, OrdersAssumption
<1>2. sale' = [sale EXCEPT ![event[w]] = [order |-> job[w], total_amount |-> Total[job[w]]]]
    BY DEF PublishSale
<1>3. ledger' = [ledger EXCEPT ![event[w]] =
                    [REVENUE |-> ledger[event[w]].REVENUE + Total[job[w]],
                     COGS |-> ledger[event[w]].COGS + total_cogs[w]]]
    BY DEF PublishSale
<1>4. sale'[event[w]] = [order |-> job[w], total_amount |-> Total[job[w]]]
    BY <1>1, <1>2 DEF IInv, TypeInv, TypeOK
<1>5. ledger'[event[w]].REVENUE = ledger[event[w]].REVENUE + Total[job[w]]
    BY <1>1, <1>3 DEF IInv, TypeInv, TypeOK
<1>6. sale'[event[w]] \in SaleRow
    BY <1>1, <1>4 DEF SaleRow
<1>7. \A f \in Events \ {event[w]} : sale'[f] = sale[f] /\ ledger'[f] = ledger[f]
    BY <1>2, <1>3 DEF IInv, TypeInv, TypeOK
<1> QED
    BY <1>1, <1>4, <1>5, <1>6, <1>7, RowsAreNotNone

LEMMA CommitConfirmationIInv ==
    ASSUME IInv, TypeInv', NEW w \in Workers, CommitConfirmation(w)
    PROVE  IInv'
<1> DEFINE o == job[w]
           e == event[w]
<1>1. pc[w] = "lines" /\ event_row[e] = None
    BY DEF CommitConfirmation, SaleReady, OwnEvent
<1>2. o \in Orders /\ e \in Events /\ o \notin SubscriptionOrders /\ Total[o] \in Nat
    BY <1>1, AtCommit, OrdersAssumption DEF IInv, InFlightInv, InFlight
<1>3. /\ sale'[e] = [order |-> o, total_amount |-> Total[o]]
      /\ ledger'[e].REVENUE = Total[o]
      /\ \A f \in Events \ {e} : sale'[f] = sale[f] /\ ledger'[f] = ledger[f]
    BY <1>1, SalePublished DEF CommitConfirmation
<1>4. /\ event_row'[e] = [order |-> o, amount |-> amount_bif[w], handed |-> FALSE]
      /\ \A f \in Events \ {e} : event_row'[f] = event_row[f]
      /\ financial_event'[o] = e
      /\ \A q \in Orders \ {o} : financial_event'[q] = financial_event[q] /\ status'[q] = status[q]
      /\ UNCHANGED activated
    BY <1>2 DEF CommitConfirmation, PublishConfirmation, IInv, TypeInv, TypeOK
<1>5. event_row'[e] # None /\ sale'[e] # None
    <2>1. amount_bif[w] \in Nat
        BY DEF IInv, TypeInv, TypeOK
    <2>2. event_row'[e] \in EventRow /\ sale'[e] \in SaleRow
        BY <1>2, <1>3, <1>4, <2>1 DEF EventRow, SaleRow
    <2> QED
        BY <2>2, RowsAreNotNone
<1>6. /\ financial_event[o] = None /\ sale[e] = None
      /\ \A q \in Orders : financial_event[q] # e
      /\ \A v \in Workers \ {w} : /\ event[v] # e
                                  /\ pc[v] \in {"lines", "record"} => job[v] # o
    BY <1>1, <1>2, AtCommit, NoneAssumption
<1>7. /\ LockInv'
      /\ pc'[w] = "idle" /\ event'[w] = None
      /\ \A v \in Workers \ {w} : pc'[v] = pc[v] /\ job'[v] = job[v] /\ event'[v] = event[v]
    BY AfterFinish DEF CommitConfirmation
<1> HIDE DEF o, e
<1>8. ASSUME NEW v \in Workers PROVE InFlight(v)'
    <2>1. CASE v = w
        BY <2>1, <1>7 DEF InFlight
    <2>2. CASE v # w
        <3>1. InFlight(v) /\ event[v] \in Events \cup {None}
              /\ (pc[v] \in {"handed", "lines", "record"} => event[v] \in Events)
              /\ (pc[v] # "idle" => job[v] \in Orders)
            BY DEF IInv, InFlightInv, TypeInv, TypeOK, RequestOK
        <3>2. event[v] # None => /\ event_row'[event[v]] = event_row[event[v]]
                                 /\ sale'[event[v]] = sale[event[v]]
            BY <3>1, <2>2, <1>3, <1>4, <1>6
        <3>3. pc[v] \in {"handed", "lines", "record"} => event[v] # None
            BY <3>1, NoneAssumption
        <3>4. pc[v] \in {"lines", "record"} => financial_event'[job[v]] = financial_event[job[v]]
            BY <3>1, <2>2, <1>4, <1>6
        <3> QED
            BY <2>2, <3>1, <3>2, <3>3, <3>4, <1>7 DEF InFlight
    <2> QED
        BY <2>1, <2>2
<1>9. EventInv'
    BY <1>3, <1>4 DEF IInv, EventInv
<1>10. SaleInv'
    <2> SUFFICES ASSUME NEW f \in Events PROVE SaleOK(f)'
        BY DEF SaleInv
    <2>1. CASE f = e
        BY <2>1, <1>2, <1>3, <1>4, <1>5 DEF SaleOK
    <2>2. CASE f # e
        <3>1. SaleOK(f) /\ (sale[f] # None => sale[f].order \in Orders)
            BY DEF IInv, SaleInv, TypeInv, TypeOK, SaleRow
        <3>2. sale[f] # None /\ sale[f].order \notin HandedOrders => sale[f].order # o
            BY <3>1, <1>2, <1>6, NoneAssumption DEF SaleOK
        <3> QED
            BY <2>2, <3>1, <3>2, <1>3, <1>4 DEF SaleOK
    <2> QED
        BY <2>1, <2>2
<1>11. PointerInv'
    <2> SUFFICES ASSUME NEW q \in Orders, financial_event'[q] # None
                 PROVE  /\ event_row'[financial_event'[q]] # None
                        /\ ~event_row'[financial_event'[q]].handed
        BY DEF PointerInv
    <2>1. CASE q = o
        BY <2>1, <1>4, <1>5
    <2>2. CASE q # o
        BY <2>2, <1>4, <1>6 DEF IInv, PointerInv, TypeInv, TypeOK
    <2> QED
        BY <2>1, <2>2
<1>12. ConfirmedIsWhole'
    <2> SUFFICES ASSUME NEW q \in Orders PROVE IsWhole(q)'
        BY DEF ConfirmedIsWhole
    <2>0. IsWhole(q)
        BY DEF IInv, ConfirmedIsWhole
    <2>1. CASE q = o
        BY <2>0, <2>1, <1>2, <1>3, <1>4, <1>5, <1>6 DEF IsWhole, HasSale
    <2>2. CASE q # o
        <3>1. financial_event'[q] = financial_event[q] /\ status'[q] = status[q]
            BY <2>2, <1>4
        <3>2. financial_event[q] # None =>
                 /\ event_row'[financial_event[q]] = event_row[financial_event[q]]
                 /\ sale'[financial_event[q]] = sale[financial_event[q]]
                 /\ ledger'[financial_event[q]] = ledger[financial_event[q]]
            BY <1>3, <1>4, <1>6 DEF IInv, TypeInv, TypeOK
        <3>3. ASSUME NEW f \in Events PROVE HasSale(f, q)' <=> HasSale(f, q)
            BY <2>2, <1>3, <1>6 DEF HasSale
        <3> QED
            BY <2>0, <3>1, <3>2, <3>3, <1>4 DEF IsWhole, HasSale
    <2> QED
        BY <2>1, <2>2
<1> QED
    BY <1>7, <1>8, <1>9, <1>10, <1>11, <1>12 DEF IInv, InFlightInv

LEMMA CommitWithoutSaleIInv ==
    ASSUME IInv, TypeInv', NEW w \in Workers, CommitWithoutSale(w)
    PROVE  IInv'
<1> DEFINE o == job[w]
           e == event[w]
<1>1. pc[w] = "record"
    BY DEF CommitWithoutSale
<1>2. o \in Orders /\ e \in Events /\ e # None /\ o \in SubscriptionOrders /\ event_row[e] = None
    BY <1>1, AtCommit, NoneAssumption DEF IInv, InFlightInv, InFlight
<1>3. /\ event_row'[e] = [order |-> o, amount |-> amount_bif[w], handed |-> FALSE]
      /\ \A f \in Events \ {e} : event_row'[f] = event_row[f]
      /\ financial_event'[o] = e
      /\ \A q \in Orders \ {o} : financial_event'[q] = financial_event[q] /\ status'[q] = status[q]
      /\ UNCHANGED <<sale, ledger>>
    BY <1>2 DEF CommitWithoutSale, PublishConfirmation, IInv, TypeInv, TypeOK
<1>4. /\ financial_event[o] = None /\ sale[e] = None
      /\ \A q \in Orders : financial_event[q] # e
      /\ \A v \in Workers \ {w} : /\ event[v] # e
                                  /\ pc[v] \in {"lines", "record"} => job[v] # o
    BY <1>1, <1>2, AtCommit, NoneAssumption
<1>5. activated'[o] = 1 /\ \A q \in Orders \ {o} : activated'[q] = activated[q]
    <2>1. activated[o] = 0
        BY <1>2, <1>4 DEF IInv, ConfirmedIsWhole, IsWhole
    <2> QED
        BY <1>2, <2>1 DEF CommitWithoutSale, Activation, IInv, TypeInv, TypeOK
<1>6. event_row'[e] # None
    <2>1. amount_bif[w] \in Nat
        BY DEF IInv, TypeInv, TypeOK
    <2>2. event_row'[e] \in EventRow
        BY <1>2, <1>3, <2>1 DEF EventRow
    <2> QED
        BY <2>2, RowsAreNotNone
<1>7. /\ LockInv'
      /\ pc'[w] = "idle" /\ event'[w] = None
      /\ \A v \in Workers \ {w} : pc'[v] = pc[v] /\ job'[v] = job[v] /\ event'[v] = event[v]
    BY AfterFinish DEF CommitWithoutSale
<1> HIDE DEF o, e
<1>8. ASSUME NEW v \in Workers PROVE InFlight(v)'
    <2>1. CASE v = w
        BY <2>1, <1>7 DEF InFlight
    <2>2. CASE v # w
        <3>1. InFlight(v) /\ event[v] \in Events \cup {None}
              /\ (pc[v] \in {"handed", "lines", "record"} => event[v] \in Events)
              /\ (pc[v] # "idle" => job[v] \in Orders)
            BY DEF IInv, InFlightInv, TypeInv, TypeOK, RequestOK
        <3>2. event[v] # None => event_row'[event[v]] = event_row[event[v]]
            BY <3>1, <2>2, <1>3, <1>4
        <3>3. pc[v] \in {"handed", "lines", "record"} => event[v] # None
            BY <3>1, NoneAssumption
        <3>4. pc[v] \in {"lines", "record"} => financial_event'[job[v]] = financial_event[job[v]]
            BY <3>1, <2>2, <1>3, <1>4
        <3> QED
            BY <2>2, <3>1, <3>2, <3>3, <3>4, <1>3, <1>7 DEF InFlight
    <2> QED
        BY <2>1, <2>2
<1>9. EventInv'
    BY <1>3 DEF IInv, EventInv
<1>10. SaleInv'
    <2> SUFFICES ASSUME NEW f \in Events PROVE SaleOK(f)'
        BY DEF SaleInv
    <2>1. SaleOK(f) /\ (sale[f] # None => sale[f].order \in Orders)
        BY DEF IInv, SaleInv, TypeInv, TypeOK, SaleRow
    <2>2. sale[f] # None => sale[f].order # o
        BY <2>1, <1>2 DEF SaleOK
    <2>3. sale[f] # None => event_row'[f] # None
        BY <2>1, <1>3, <1>6 DEF SaleOK
    <2> QED
        BY <2>1, <2>2, <2>3, <1>3 DEF SaleOK
<1>11. PointerInv'
    <2> SUFFICES ASSUME NEW q \in Orders, financial_event'[q] # None
                 PROVE  /\ event_row'[financial_event'[q]] # None
                        /\ ~event_row'[financial_event'[q]].handed
        BY DEF PointerInv
    <2>1. CASE q = o
        BY <2>1, <1>3, <1>6
    <2>2. CASE q # o
        BY <2>2, <1>3, <1>4 DEF IInv, PointerInv, TypeInv, TypeOK
    <2> QED
        BY <2>1, <2>2
<1>12. ConfirmedIsWhole'
    <2> SUFFICES ASSUME NEW q \in Orders PROVE IsWhole(q)'
        BY DEF ConfirmedIsWhole
    <2>0. IsWhole(q)
        BY DEF IInv, ConfirmedIsWhole
    <2>1. CASE q = o
        BY <2>0, <2>1, <1>2, <1>3, <1>5, <1>6 DEF IsWhole, HasSale
    <2>2. CASE q # o
        <3>1. financial_event'[q] = financial_event[q] /\ status'[q] = status[q]
            BY <2>2, <1>3
        <3>2. financial_event[q] # None =>
                 event_row'[financial_event[q]] = event_row[financial_event[q]]
            BY <1>3, <1>4 DEF IInv, TypeInv, TypeOK
        <3> QED
            BY <2>0, <2>2, <3>1, <3>2, <1>3, <1>5 DEF IsWhole, HasSale
    <2> QED
        BY <2>1, <2>2
<1> QED
    BY <1>7, <1>8, <1>9, <1>10, <1>11, <1>12 DEF IInv, InFlightInv

LEMMA CommitHandedIInv ==
    ASSUME IInv, TypeInv', NEW w \in Workers, CommitHanded(w)
    PROVE  IInv'
<1> DEFINE o == job[w]
           e == event[w]
<1>1. pc[w] = "lines" /\ event_row[e] # None
    BY DEF CommitHanded, SaleReady, OwnEvent
<1>2. o \in Orders /\ e \in Events /\ e # None /\ o \notin SubscriptionOrders
    BY <1>1, AtCommit, NoneAssumption DEF IInv, InFlightInv, InFlight
<1>3. event_row[e].order = o /\ event_row[e].handed /\ o \in HandedOrders
    BY <1>1, <1>2 DEF IInv, InFlightInv, InFlight, EventInv
<1>4. /\ sale'[e] = [order |-> o, total_amount |-> Total[o]] /\ sale'[e] # None
      /\ \A f \in Events \ {e} : sale'[f] = sale[f] /\ ledger'[f] = ledger[f]
      /\ UNCHANGED <<status, financial_event, event_row, activated>>
    BY <1>1, SalePublished DEF CommitHanded
<1>5. /\ \A q \in Orders : financial_event[q] # e
      /\ \A v \in Workers \ {w} : event[v] # e
    BY <1>1, <1>2, <1>3, AtCommit DEF IInv, PointerInv
<1>6. /\ LockInv'
      /\ pc'[w] = "idle" /\ event'[w] = None
      /\ \A v \in Workers \ {w} : pc'[v] = pc[v] /\ job'[v] = job[v] /\ event'[v] = event[v]
    BY AfterFinish DEF CommitHanded
<1> HIDE DEF o, e
<1>7. ASSUME NEW v \in Workers PROVE InFlight(v)'
    <2>1. CASE v = w
        BY <2>1, <1>6 DEF InFlight
    <2>2. CASE v # w
        <3>1. InFlight(v) /\ event[v] \in Events \cup {None}
            BY DEF IInv, InFlightInv, TypeInv, TypeOK
        <3>2. event[v] # None => sale'[event[v]] = sale[event[v]]
            BY <3>1, <2>2, <1>4, <1>5
        <3> QED
            BY <2>2, <3>1, <3>2, <1>4, <1>6 DEF InFlight
    <2> QED
        BY <2>1, <2>2
<1>8. EventInv' /\ PointerInv'
    BY <1>4 DEF IInv, EventInv, PointerInv
<1>9. SaleInv'
    <2> SUFFICES ASSUME NEW f \in Events PROVE SaleOK(f)'
        BY DEF SaleInv
    <2>1. CASE f = e
        BY <2>1, <1>1, <1>2, <1>3, <1>4 DEF SaleOK
    <2>2. CASE f # e
        BY <2>2, <1>4 DEF IInv, SaleInv, SaleOK
    <2> QED
        BY <2>1, <2>2
<1>10. ConfirmedIsWhole'
    <2> SUFFICES ASSUME NEW q \in Orders PROVE IsWhole(q)'
        BY DEF ConfirmedIsWhole
    <2>1. IsWhole(q)
        BY DEF IInv, ConfirmedIsWhole
    <2>2. financial_event[q] # None =>
             /\ sale'[financial_event[q]] = sale[financial_event[q]]
             /\ ledger'[financial_event[q]] = ledger[financial_event[q]]
        BY <1>4, <1>5 DEF IInv, TypeInv, TypeOK
    <2>3. q \in SubscriptionOrders => \A f \in Events : HasSale(f, q)' <=> HasSale(f, q)
        BY <1>2, <1>4, <2>1 DEF HasSale, IsWhole
    <2> QED
        BY <2>1, <2>2, <2>3, <1>4 DEF IsWhole, HasSale
<1> QED
    BY <1>6, <1>7, <1>8, <1>9, <1>10 DEF IInv, InFlightInv

\* Requests that end without a trace, whatever ends them.
LEMMA TracelessSteps ==
    ASSUME IInv, NEW w \in Workers,
           \/ InsertPayment(w) \/ PollPaid(w) \/ PollExhausted(w) \/ PollUndecided(w)
           \/ OtpAccepted(w) \/ OtpRejected(w) \/ PostRefused(w)
           \/ PollSave(w) \/ ConfirmAgain(w) \/ HandedSkip(w)
           \/ InsufficientStock(w) \/ BarcodeFails(w)
           \/ DeadlockVictim(w) \/ Crash(w) \/ AutomationBreaks(w)
    PROVE  QuietStep(w)
<1>0. TypeInv
    BY DEF IInv
<1>1. CASE InsertPayment(w)
    <2>1. job[w] \in Orders
        BY <1>1 DEF InsertPayment, IInv, TypeInv, RequestOK
    <2>2. \A o \in Orders : status'[o] = "PAID" => status[o] = "PAID"
        BY <1>1, <2>1 DEF InsertPayment, IInv, TypeInv, TypeOK
    <2> QED
        BY <1>0, <1>1, <2>2, FinishQuiet DEF InsertPayment
<1>2. CASE PollSave(w)
    <2>1. job[w] \in Orders
        BY <1>2 DEF PollSave, IInv, TypeInv, RequestOK
    <2>2. \A o \in Orders : status'[o] = "PAID" => status[o] = "PAID"
        BY <1>2, <2>1 DEF PollSave, IInv, TypeInv, TypeOK
    <2> QED
        BY <1>0, <1>2, <2>2, FinishQuiet DEF PollSave
<1>3. CASE PollPaid(w) \/ PollExhausted(w) \/ OtpAccepted(w)
    <2>1. \E step \in {"confirm", "expire", "fail"} : pc' = [pc EXCEPT ![w] = step]
        BY <1>3 DEF PollPaid, PollExhausted, OtpAccepted, Goto
    <2>2. UNCHANGED <<tables, locks, job, event>>
        BY <1>3 DEF PollPaid, PollExhausted, OtpAccepted
    <2> QED
        BY <2>1, <2>2 DEF QuietStep, tables, locks, IInv, TypeInv, TypeOK
<1>4. CASE Rollback(w)
    BY <1>0, <1>4, RollbackQuiet
<1>5. \/ InsertPayment(w) \/ PollSave(w)
      \/ PollPaid(w) \/ PollExhausted(w) \/ OtpAccepted(w)
      \/ Rollback(w)
    BY DEF PollUndecided, OtpRejected, PostRefused, ConfirmAgain, HandedSkip, InsufficientStock, BarcodeFails,
           DeadlockVictim, Crash, AutomationBreaks
<1> QED
    BY <1>1, <1>2, <1>3, <1>4, <1>5

LEMMA ArriveIInv ==
    ASSUME IInv, TypeInv', NEW w \in Workers, Arrive(w)
    PROVE  IInv'
<1>1. PICK o \in Orders : \/ CreateInvoice(w, o)
                          \/ PollRead(w, o)
                          \/ OnrampRead(w, o)
                          \/ RailPosts(w, o)
                          \/ Webhook(w, o)
                          \/ HandEvent(w, o)
    BY DEF Arrive
<1>2. CASE HandEvent(w, o)
    BY <1>2, HandEventIInv
<1>3. CASE \/ CreateInvoice(w, o) \/ PollRead(w, o) \/ OnrampRead(w, o)
            \/ RailPosts(w, o) \/ Webhook(w, o)
    <2>1. /\ \E step \in {"insert", "poll", "otp", "webhook", "confirm"} : Begin(w, o, step)
          /\ UNCHANGED <<tables, locks, event>>
        BY <1>3 DEF CreateInvoice, PollRead, OnrampRead, RailPosts, Webhook
    <2>2. QuietStep(w)
        BY <2>1, BeginQuiet DEF IInv
    <2> QED
        BY <2>2, QuietStepIInv
<1> QED
    BY <1>1, <1>2, <1>3

LEMMA NextIInv == IInv /\ [Next]_vars => IInv'
<1> SUFFICES ASSUME IInv, [Next]_vars PROVE IInv'
    OBVIOUS
<1>0. TypeInv'
    BY NextTypeInv DEF IInv
<1>1. CASE UNCHANGED vars
    BY <1>0, <1>1, IdleStepIInv DEF vars, tables, locks, request
<1>2. ASSUME NEW w \in Workers, Arrive(w) PROVE IInv'
    BY <1>0, <1>2, ArriveIInv
<1>3. ASSUME NEW w \in Workers, Proceed(w) PROVE IInv'
    BY <1>0, <1>3, TracelessSteps, QuietStepIInv,
       CommitConfirmationIInv, CommitWithoutSaleIInv, CommitHandedIInv DEF Proceed
<1>4. ASSUME NEW w \in Workers, LockPayment(w) PROVE IInv'
    BY <1>0, <1>4, TracelessSteps, QuietStepIInv, ConfirmNewIInv, HandedBeginIInv DEF LockPayment
<1>5. ASSUME NEW w \in Workers, LockProduct(w) PROVE IInv'
    <2>1. CASE TakeLine(w)
        BY <1>0, <2>1, IdleStepIInv DEF TakeLine, tables
    <2> QED
        BY <1>0, <1>5, <2>1, TracelessSteps, QuietStepIInv DEF LockProduct
<1>6. ASSUME NEW w \in Workers, DeadlockVictim(w) \/ Crash(w) \/ AutomationBreaks(w) PROVE IInv'
    BY <1>0, <1>6, TracelessSteps, QuietStepIInv
<1>7. ASSUME NEW o \in Orders, RailResolves(o) PROVE IInv'
    BY <1>0, <1>7, IdleStepIInv DEF RailResolves, tables, locks, request
<1>8. ASSUME NEW p \in Products, StockMutation(p) PROVE IInv'
    BY <1>0, <1>8, IdleStepIInv DEF StockMutation, locks, request
<1>9. CASE Quiescent
    BY <1>1, <1>9 DEF Quiescent
<1> QED
    BY <1>1, <1>2, <1>3, <1>4, <1>5, <1>6, <1>7, <1>8, <1>9 DEF Next

LEMMA SettlementInvariant == Spec => []IInv
BY InitIInv, NextIInv, PTL DEF Spec

\* Any number of workers, polls, webhooks, OTP confirmations, crashes and deadlocks
\* make at most one sale of an order that confirm_payment alone confirms.
THEOREM AtMostOneSale == Spec => []OneSalePerOrder
<1>1. IInv => OneSalePerOrder
    BY DEF IInv, SaleInv, SaleOK, OneSalePerOrder, HasSale
<1> QED
    BY <1>1, SettlementInvariant, PTL

\* A confirmed payment has its event, its sale with the payment's total and its
\* REVENUE entry, or its one activation, in every reachable state.
THEOREM ConfirmationIsWhole == Spec => []ConfirmedIsWhole
<1>1. IInv => ConfirmedIsWhole
    BY DEF IInv
<1> QED
    BY <1>1, SettlementInvariant, PTL

\* The only steps that write financial_event or sale are the three commits.
LEMMA WhoWrites ==
    ASSUME IInv, [Next]_vars
    PROVE  \/ UNCHANGED <<financial_event, sale>>
           \/ \E w \in Workers :
                 CommitConfirmation(w) \/ CommitWithoutSale(w) \/ CommitHanded(w)
<1>1. CASE UNCHANGED vars
    BY <1>1 DEF vars, tables
<1>2. ASSUME NEW w \in Workers, Arrive(w) PROVE UNCHANGED <<financial_event, sale>>
    BY <1>2 DEF Arrive, CreateInvoice, PollRead, OnrampRead, RailPosts, Webhook, HandEvent, tables
<1>3. ASSUME NEW w \in Workers, Proceed(w)
      PROVE  \/ UNCHANGED <<financial_event, sale>>
             \/ CommitConfirmation(w) \/ CommitWithoutSale(w) \/ CommitHanded(w)
    BY <1>3, TracelessSteps DEF Proceed, QuietStep
<1>4. ASSUME NEW w \in Workers, LockPayment(w) PROVE UNCHANGED <<financial_event, sale>>
    BY <1>4, TracelessSteps DEF LockPayment, ConfirmNew, HandedBegin, QuietStep, tables
<1>5. ASSUME NEW w \in Workers, LockProduct(w) PROVE UNCHANGED <<financial_event, sale>>
    BY <1>5, TracelessSteps DEF LockProduct, TakeLine, QuietStep, tables
<1>6. ASSUME NEW w \in Workers, DeadlockVictim(w) \/ Crash(w) \/ AutomationBreaks(w)
      PROVE  UNCHANGED <<financial_event, sale>>
    BY <1>6, TracelessSteps DEF QuietStep
<1>7. ASSUME NEW o \in Orders, RailResolves(o) PROVE UNCHANGED <<financial_event, sale>>
    BY <1>7 DEF RailResolves, tables
<1>8. ASSUME NEW p \in Products, StockMutation(p) PROVE UNCHANGED <<financial_event, sale>>
    BY <1>8 DEF StockMutation
<1>9. CASE Quiescent
    BY <1>1, <1>9 DEF Quiescent
<1> QED
    BY <1>1, <1>2, <1>3, <1>4, <1>5, <1>6, <1>7, <1>8, <1>9 DEF Next

\* The event an order was confirmed with is never replaced.
THEOREM ConfirmationIsFinal == Spec => ConfirmedOnce
<1>1. IInv /\ [Next]_vars =>
          [\A o \in Orders :
              financial_event[o] # None => financial_event'[o] = financial_event[o]]_vars
    <2> SUFFICES ASSUME IInv, [Next]_vars, NEW o \in Orders, financial_event[o] # None
                 PROVE  financial_event'[o] = financial_event[o]
        OBVIOUS
    <2>1. ASSUME NEW w \in Workers, CommitConfirmation(w) \/ CommitWithoutSale(w)
          PROVE  financial_event'[o] = financial_event[o]
        <3>1. pc[w] \in {"lines", "record"}
            BY <2>1 DEF CommitConfirmation, SaleReady, CommitWithoutSale
        <3>2. job[w] # o
            BY <3>1, AtCommit
        <3> QED
            BY <2>1, <3>2 DEF CommitConfirmation, CommitWithoutSale, PublishConfirmation,
                              IInv, TypeInv, TypeOK
    <2>2. ASSUME NEW w \in Workers, CommitHanded(w)
          PROVE  financial_event'[o] = financial_event[o]
        BY <2>2 DEF CommitHanded
    <2> QED
        BY <2>1, <2>2, WhoWrites
<1> QED
    BY <1>1, SettlementInvariant, PTL DEF Spec, ConfirmedOnce

\* No sale is made for an order that is confirmed, whoever hands in what.
THEOREM ConfirmationEndsSales == Spec => NoSaleAfterConfirmation
<1>1. IInv /\ [Next]_vars =>
          [\A o \in Orders : financial_event[o] # None =>
              \A e \in Events : HasSale(e, o)' => HasSale(e, o)]_vars
    <2> SUFFICES ASSUME IInv, [Next]_vars, NEW o \in Orders, financial_event[o] # None,
                        NEW e \in Events, HasSale(e, o)'
                 PROVE  HasSale(e, o)
        OBVIOUS
    <2>1. ASSUME NEW w \in Workers, CommitConfirmation(w) \/ CommitHanded(w)
          PROVE  HasSale(e, o)
        <3>1. pc[w] = "lines" /\ PublishSale(w)
            BY <2>1 DEF CommitConfirmation, SaleReady, CommitHanded
        <3>2. job[w] # o
            BY <3>1, AtCommit
        <3>3. sale'[event[w]] = [order |-> job[w], total_amount |-> Total[job[w]]]
            BY <3>1, SalePublished
        <3>4. \A f \in Events \ {event[w]} : sale'[f] = sale[f]
            BY <3>1, SalePublished
        <3> QED
            BY <3>2, <3>3, <3>4 DEF HasSale
    <2>2. ASSUME NEW w \in Workers, CommitWithoutSale(w) PROVE HasSale(e, o)
        BY <2>2 DEF CommitWithoutSale, HasSale
    <2> QED
        BY <2>1, <2>2, WhoWrites DEF HasSale
<1> QED
    BY <1>1, SettlementInvariant, PTL DEF Spec, NoSaleAfterConfirmation

===============================================================================
