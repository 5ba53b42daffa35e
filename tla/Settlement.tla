------------------------------ MODULE Settlement ------------------------------
(***************************************************************************)
(* From a checkout to the books: how an order of FOBOS is created, polled, *)
(* confirmed and turned into a sale.  Workers are the request threads of   *)
(* the Django server; the tables are PostgreSQL rows under READ COMMITTED. *)
(*                                                                         *)
(* A request outside transaction.atomic() commits each statement.  Inside  *)
(* one, a worker keeps its writes in its own variables until the commit    *)
(* step publishes them all; select_for_update is payment_lock and          *)
(* product_lock.  A row that is not locked is read as last committed.      *)
(***************************************************************************)
EXTENDS Integers, Sequences, FiniteSets, Functions

CONSTANTS
    Orders,              \* Payment rows, by order_id
    SubscriptionOrders,  \* those with purpose = subscription
    Products,
    Workers,             \* request threads
    Events,              \* pool of FinancialEvent primary keys (bound)
    Cart,                \* Payment.lines: order -> sequence of lines
    Total,               \* Payment.total_amount
    InitialStock,        \* Product.stock_qty at creation
    Unprintable,         \* products whose barcode image may fail to be rendered or stored
    RailEnds,            \* what a rail may say became of an invoice (bound)
    WebhookOrders,       \* orders whose rail reports a payment to the webhook
    HandedOrders,        \* orders a FinancialEvent may be handed in for directly
    StockChanges,        \* signed quantities an owner may restock or adjust by
    MaxMovements,        \* bound: movements of a product before no more of these
    FaultKinds,          \* the faults that may happen: "crash", "automation"
    MaxFaults,           \* bound: how many of them
    None

Line == [product : Products, quantity : Nat \ {0}, unit_cost : Nat]

ASSUME OrdersAssumption ==
    /\ SubscriptionOrders \subseteq Orders
    /\ HandedOrders \subseteq Orders
    /\ WebhookOrders \subseteq Orders
    /\ RailEnds \subseteq {"paid", "failed", "expired", "cancelled"}
    /\ Cart \in [Orders -> Seq(Line)]
    /\ Total \in [Orders -> Nat]
    /\ \A o \in SubscriptionOrders : Cart[o] = <<>>

ASSUME StockAssumption ==
    /\ InitialStock \in [Products -> Nat]
    /\ Unprintable \subseteq Products
    /\ StockChanges \subseteq Int
    /\ MaxMovements \in Nat
    /\ MaxFaults \in Nat

ASSUME NoneAssumption == /\ None \notin Events
                         /\ None \notin Workers
                         /\ None \notin Orders
                         /\ None \notin [order : Orders, amount : Nat, handed : BOOLEAN]
                         /\ None \notin [order : Orders, total_amount : Nat]

VARIABLES
    \* committed tables
    status,          \* Payment.status, "absent" while there is no row
    financial_event, \* Payment.financial_event
    event_row,       \* FinancialEvent, None while there is no row
    sale,            \* Sale and its Receipt, by FinancialEvent (OneToOne)
    ledger,          \* sums of the LedgerEntry rows of an event, per account
    activated,       \* how many Subscriptions a payment activated
    stock_qty,       \* Product.stock_qty
    movements,       \* StockMovement rows of a product, oldest first
    \* row locks
    payment_lock,
    product_lock,
    \* request threads
    pc,
    job,             \* the order the request is about
    amount_bif,      \* what the request will tell confirm_payment, 0 if nothing
    event,           \* the FinancialEvent being processed
    line,            \* next cart line of handle_financial_event
    pending,         \* movements inserted and not yet committed
    total_cogs,
    \* environment
    rail,            \* what the payment rail knows of the order
    faults

tables == <<status, financial_event, event_row, sale, ledger, activated, stock_qty, movements>>
locks == <<payment_lock, product_lock>>
request == <<pc, job, amount_bif, event, line, pending, total_cogs>>
environment == <<rail, faults>>
vars == <<tables, locks, request, environment>>

Statuses == {"absent", "PENDING", "PAID", "FAILED", "EXPIRED"}
RailStates == {"none", "pending", "paid", "failed", "expired", "cancelled"}
Steps == {"idle", "insert", "poll", "expire", "fail", "otp", "webhook", "confirm", "handed",
          "lines", "record"}
EventRow == [order : Orders, amount : Nat, handed : BOOLEAN]
SaleRow == [order : Orders, total_amount : Nat]
Movement == [qty_delta : Int, qty_after : Nat, reference : Orders \cup {None}]
NoMovements == [p \in Products |-> <<>>]

TypeOK ==
    /\ status \in [Orders -> Statuses]
    /\ financial_event \in [Orders -> Events \cup {None}]
    /\ event_row \in [Events -> EventRow \cup {None}]
    /\ sale \in [Events -> SaleRow \cup {None}]
    /\ ledger \in [Events -> [REVENUE : Nat, COGS : Nat]]
    /\ activated \in [Orders -> Nat]
    /\ stock_qty \in [Products -> Nat]
    /\ movements \in [Products -> Seq(Movement)]
    /\ payment_lock \in [Orders -> Workers \cup {None}]
    /\ product_lock \in [Products -> Workers \cup {None}]
    /\ pc \in [Workers -> Steps]
    /\ job \in [Workers -> Orders \cup {None}]
    /\ amount_bif \in [Workers -> Nat]
    /\ event \in [Workers -> Events \cup {None}]
    /\ line \in [Workers -> Nat]
    /\ pending \in [Workers -> [Products -> Seq(Movement)]]
    /\ total_cogs \in [Workers -> Nat]
    /\ rail \in [Orders -> RailStates]
    /\ faults \in Nat

\* products.post_save: a product created with stock gets one initial movement.
InitialMovements(p) ==
    IF InitialStock[p] = 0 THEN <<>>
    ELSE <<[qty_delta |-> InitialStock[p], qty_after |-> InitialStock[p], reference |-> None]>>

Init ==
    /\ status = [o \in Orders |-> "absent"]
    /\ financial_event = [o \in Orders |-> None]
    /\ event_row = [e \in Events |-> None]
    /\ sale = [e \in Events |-> None]
    /\ ledger = [e \in Events |-> [REVENUE |-> 0, COGS |-> 0]]
    /\ activated = [o \in Orders |-> 0]
    /\ stock_qty = InitialStock
    /\ movements = [p \in Products |-> InitialMovements(p)]
    /\ payment_lock = [o \in Orders |-> None]
    /\ product_lock = [p \in Products |-> None]
    /\ pc = [w \in Workers |-> "idle"]
    /\ job = [w \in Workers |-> None]
    /\ amount_bif = [w \in Workers |-> 0]
    /\ event = [w \in Workers |-> None]
    /\ line = [w \in Workers |-> 0]
    /\ pending = [w \in Workers |-> NoMovements]
    /\ total_cogs = [w \in Workers |-> 0]
    /\ rail = [o \in Orders |-> "none"]
    /\ faults = 0

-------------------------------------------------------------------------------
(* Slips a change of the code could make, each in the place of one definition *)
(* below; no specification uses them.                                         *)

\* confirm_payment reads the row with get() instead of select_for_update().
NoPaymentLock(o) == TRUE

\* _locked_product without select_for_update().
NoProductLock(w, p) == TRUE

\* confirm_payment without its early return.
NeverConfirmed(o) == FALSE

\* handle_financial_event without the duplicate guard.
NoDuplicateGuard(o, e) == FALSE

\* confirm_payment's early return looks at the status instead of the event.
NotPending(o) == status[o] # "PENDING"

-------------------------------------------------------------------------------
(* Requests begin, move on and end *)

\* An idle worker takes a request about o.
Begin(w, o, step) ==
    /\ pc[w] = "idle"
    /\ pc' = [pc EXCEPT ![w] = step]
    /\ job' = [job EXCEPT ![w] = o]

Goto(w, step) ==
    pc' = [pc EXCEPT ![w] = step]

Freed(lock, w) ==
    [r \in DOMAIN lock |-> IF lock[r] = w THEN None ELSE lock[r]]

\* The response is sent (or the exception is); the transaction, if one is open,
\* is over and its row locks with it.
Finish(w) ==
    /\ Goto(w, "idle")
    /\ job' = [job EXCEPT ![w] = None]
    /\ amount_bif' = [amount_bif EXCEPT ![w] = 0]
    /\ event' = [event EXCEPT ![w] = None]
    /\ line' = [line EXCEPT ![w] = 0]
    /\ pending' = [pending EXCEPT ![w] = NoMovements]
    /\ total_cogs' = [total_cogs EXCEPT ![w] = 0]
    /\ payment_lock' = Freed(payment_lock, w)
    /\ product_lock' = Freed(product_lock, w)

\* The request ends and nothing it did inside its transaction is kept.
Rollback(w) ==
    /\ Finish(w)
    /\ UNCHANGED <<tables, rail>>

\* Payment.objects.select_for_update() need not wait.
PaymentRowFree(o) == payment_lock[o] = None

\* Product.objects.select_for_update() need not wait.
ProductRowFree(w, p) == product_lock[p] \in {None, w}

-------------------------------------------------------------------------------
(* Checkout *)

\* _resolve_cart looks at each line alone and reserves nothing.
StockCovers(o) ==
    \A i \in DOMAIN Cart[o] : stock_qty[Cart[o][i].product] >= Cart[o][i].quantity

\* create_checkout_payment, create_subscription_payment: the rail issues the
\* invoice before the Payment row exists.
CreateInvoice(w, o) ==
    /\ rail[o] = "none"
    /\ StockCovers(o)
    /\ Begin(w, o, "insert")
    /\ rail' = [rail EXCEPT ![o] = "pending"]
    /\ UNCHANGED <<tables, locks, amount_bif, event, line, pending, total_cogs, faults>>

InsertPayment(w) ==
    /\ pc[w] = "insert"
    /\ status' = [status EXCEPT ![job[w]] = "PENDING"]
    /\ Finish(w)
    /\ UNCHANGED <<financial_event, event_row, sale, ledger, activated, stock_qty,
                   movements, environment>>

\* The rail settles or gives up on an invoice in its own time; a payment may still
\* arrive for one it has reported as failed or expired.
RailResolves(o) ==
    /\ \/ /\ rail[o] = "pending"
          /\ \E r \in RailEnds : rail' = [rail EXCEPT ![o] = r]
       \/ /\ rail[o] \in {"failed", "expired"} /\ "paid" \in RailEnds
          /\ rail' = [rail EXCEPT ![o] = "paid"]
    /\ UNCHANGED <<tables, locks, request, faults>>

-------------------------------------------------------------------------------
(* The ways into a confirmation *)

\* GET /payments/<id>/status: only a PENDING row makes the view ask the rail.
PollRead(w, o) ==
    /\ status[o] = "PENDING"
    /\ Begin(w, o, "poll")
    /\ UNCHANGED <<tables, locks, amount_bif, event, line, pending, total_cogs, environment>>

PollPaid(w) ==
    /\ pc[w] = "poll"
    /\ rail[job[w]] = "paid"
    /\ Goto(w, "confirm")
    /\ amount_bif' = [amount_bif EXCEPT ![w] = Total[job[w]]]
    /\ UNCHANGED <<tables, locks, job, event, line, pending, total_cogs, environment>>

PollExhausted(w) ==
    /\ pc[w] = "poll"
    /\ rail[job[w]] \in {"failed", "expired"}
    /\ Goto(w, IF rail[job[w]] = "expired" THEN "expire" ELSE "fail")
    /\ UNCHANGED <<tables, locks, job, amount_bif, event, line, pending, total_cogs, environment>>

PollUndecided(w) ==
    /\ pc[w] = "poll"
    /\ rail[job[w]] \in {"pending", "cancelled"}
    /\ Rollback(w)
    /\ UNCHANGED faults

\* payment.save(update_fields=["status"]) on the row read before the rail was
\* asked: the UPDATE waits for the row lock and looks at nothing else.
PollSave(w) ==
    /\ pc[w] \in {"expire", "fail"}
    /\ PaymentRowFree(job[w])
    /\ status' = [status EXCEPT ![job[w]] = IF pc[w] = "expire" THEN "EXPIRED" ELSE "FAILED"]
    /\ Finish(w)
    /\ UNCHANGED <<financial_event, event_row, sale, ledger, activated, stock_qty,
                   movements, environment>>

\* POST /payments/onramp/confirm: a PAID row is answered at once.
OnrampRead(w, o) ==
    /\ status[o] \notin {"absent", "PAID"}
    /\ Begin(w, o, "otp")
    /\ UNCHANGED <<tables, locks, amount_bif, event, line, pending, total_cogs, environment>>

\* The provider accepts the OTP whatever the order's invoice has become.
OtpAccepted(w) ==
    /\ pc[w] = "otp"
    /\ Goto(w, "confirm")
    /\ amount_bif' = [amount_bif EXCEPT ![w] = Total[job[w]]]
    /\ UNCHANGED <<tables, locks, job, event, line, pending, total_cogs, environment>>

OtpRejected(w) ==
    /\ pc[w] = "otp"
    /\ Rollback(w)
    /\ UNCHANGED faults

\* The rail reports the payment to POST /payments/webhooks/blink, as often as it likes.
RailPosts(w, o) ==
    /\ o \in WebhookOrders
    /\ rail[o] = "paid"
    /\ Begin(w, o, "webhook")
    /\ UNCHANGED <<tables, locks, amount_bif, event, line, pending, total_cogs, environment>>

\* BlinkWebhookView names no permission, so the default, IsAuthenticated by JWT, is
\* the answer to a rail, which has no user: 401, before post() runs.
PostRefused(w) ==
    /\ pc[w] = "webhook"
    /\ Rollback(w)
    /\ UNCHANGED faults

\* The same report posted by a client that carries a token of FOBOS; 404 without a
\* Payment row; it names no amount.
Webhook(w, o) ==
    /\ rail[o] = "paid"
    /\ status[o] # "absent"
    /\ Begin(w, o, "confirm")
    /\ UNCHANGED <<tables, locks, amount_bif, event, line, pending, total_cogs, environment>>

\* A primary key no row and no open transaction uses.
Unused(e) ==
    /\ event_row[e] = None
    /\ \A v \in Workers : event[v] # e

\* A confirmed FinancialEvent is created outside confirm_payment: its row is
\* committed before post_save calls the handler.  At most one per order (bound).
HandEvent(w, o) ==
    /\ o \in HandedOrders
    /\ status[o] # "absent"
    /\ \A e \in Events : event_row[e] # None => ~(event_row[e].order = o /\ event_row[e].handed)
    /\ Begin(w, o, "handed")
    /\ \E e \in Events :
         /\ Unused(e)
         /\ event' = [event EXCEPT ![w] = e]
         /\ event_row' = [event_row EXCEPT ![e] =
                             [order |-> o, amount |-> Total[o], handed |-> TRUE]]
    /\ UNCHANGED <<status, financial_event, sale, ledger, activated, stock_qty, movements,
                   locks, amount_bif, line, pending, total_cogs, environment>>

-------------------------------------------------------------------------------
(* confirm_payment and handle_financial_event *)

AlreadyConfirmed(o) == financial_event[o] # None

\* confirm_payment finds the order confirmed and returns the event it has.
ConfirmAgain(w) ==
    /\ pc[w] = "confirm"
    /\ PaymentRowFree(job[w])
    /\ AlreadyConfirmed(job[w])
    /\ Rollback(w)
    /\ UNCHANGED faults

\* "Duplicate confirmation must never create duplicate financial records."
SettledByAnother(o, e) ==
    /\ financial_event[o] # None
    /\ financial_event[o] # e

\* handle_financial_event stops before it creates a sale.
NoSaleToMake(o, e) ==
    \/ sale[e] # None
    \/ o \in SubscriptionOrders
    \/ SettledByAnother(o, e)

\* confirm_payment locks the row and creates the event, whose post_save runs the
\* handler inside the transaction.
ConfirmNew(w) ==
    /\ pc[w] = "confirm"
    /\ PaymentRowFree(job[w])
    /\ ~AlreadyConfirmed(job[w])
    /\ payment_lock' = [payment_lock EXCEPT ![job[w]] = w]
    /\ \E e \in Events :
         /\ Unused(e)
         /\ event' = [event EXCEPT ![w] = e]
         /\ Goto(w, IF NoSaleToMake(job[w], e) THEN "record" ELSE "lines")
    /\ line' = [line EXCEPT ![w] = 1]
    /\ UNCHANGED <<tables, product_lock, job, amount_bif, pending, total_cogs, environment>>

\* The handler of a handed event has no sale to make: it returns, or raises.
HandedSkip(w) ==
    /\ pc[w] = "handed"
    /\ PaymentRowFree(job[w])
    /\ NoSaleToMake(job[w], event[w])
    /\ Rollback(w)
    /\ UNCHANGED faults

HandedBegin(w) ==
    /\ pc[w] = "handed"
    /\ PaymentRowFree(job[w])
    /\ ~NoSaleToMake(job[w], event[w])
    /\ payment_lock' = [payment_lock EXCEPT ![job[w]] = w]
    /\ Goto(w, "lines")
    /\ line' = [line EXCEPT ![w] = 1]
    /\ UNCHANGED <<tables, product_lock, job, amount_bif, event, pending, total_cogs, environment>>

\* The stock after a run of movements that found qty.
QtyAfter(rows, qty) == IF rows = <<>> THEN qty ELSE rows[Len(rows)].qty_after

\* Product.stock_qty as the worker's own transaction sees it.
SeenStock(w, p) == QtyAfter(pending[w][p], stock_qty[p])

\* apply_stock_movement: the new stock and the row that records it.
MovementOf(qty, delta, reference) ==
    [qty_delta |-> delta, qty_after |-> qty + delta, reference |-> reference]

\* The line the handler is about to settle.
AtLine(w) ==
    /\ pc[w] = "lines"
    /\ line[w] \in DOMAIN Cart[job[w]]

LineOf(w) == Cart[job[w]][line[w]]

\* Slip: each line is held against the stock the transaction began with.
CoversLineAlone(w) == stock_qty[LineOf(w).product] >= LineOf(w).quantity

\* Slip: the check is dropped.
AlwaysCovers(w) == TRUE

\* product.stock_qty >= quantity, on the locked row.
Covers(w) == SeenStock(w, LineOf(w).product) >= LineOf(w).quantity

TakeLine(w) ==
    /\ AtLine(w)
    /\ ProductRowFree(w, LineOf(w).product)
    /\ Covers(w)
    /\ LET l == LineOf(w)
           m == MovementOf(SeenStock(w, l.product), -l.quantity, job[w])
       IN  /\ product_lock' = [product_lock EXCEPT ![l.product] = w]
           /\ pending' = [pending EXCEPT ![w][l.product] = Append(@, m)]
           /\ total_cogs' = [total_cogs EXCEPT ![w] = @ + l.quantity * l.unit_cost]
    /\ line' = [line EXCEPT ![w] = @ + 1]
    /\ UNCHANGED <<tables, payment_lock, pc, job, amount_bif, event, environment>>

\* Slip: a line the stock cannot cover is left out and the sale goes on.
SkipShortLine(w) ==
    /\ AtLine(w)
    /\ ProductRowFree(w, LineOf(w).product)
    /\ ~Covers(w)
    /\ line' = [line EXCEPT ![w] = @ + 1]
    /\ UNCHANGED <<tables, locks, pc, job, amount_bif, event, pending, total_cogs, environment>>

\* The save of the stock runs _sync_barcode_image, which renders and may store the
\* image again: what it raises rolls everything back.
BarcodeFails(w) ==
    /\ AtLine(w)
    /\ ProductRowFree(w, LineOf(w).product)
    /\ Covers(w)
    /\ LineOf(w).product \in Unprintable
    /\ Rollback(w)
    /\ UNCHANGED faults

\* InsufficientStockError rolls everything back.
InsufficientStock(w) ==
    /\ AtLine(w)
    /\ ProductRowFree(w, LineOf(w).product)
    /\ ~Covers(w)
    /\ Rollback(w)
    /\ UNCHANGED faults

\* Every line is settled: what is left is the ledger, the receipt and the commit.
SaleReady(w) ==
    /\ pc[w] = "lines"
    /\ line[w] \notin DOMAIN Cart[job[w]]

\* Sale, LedgerEntry, Product.stock_qty and StockMovement rows become visible.
PublishSale(w) ==
    LET o == job[w]
        e == event[w]
    IN  /\ sale' = [sale EXCEPT ![e] = [order |-> o, total_amount |-> Total[o]]]
        /\ ledger' = [ledger EXCEPT ![e] = [REVENUE |-> @.REVENUE + Total[o],
                                            COGS |-> @.COGS + total_cogs[w]]]
        /\ stock_qty' = [p \in Products |-> SeenStock(w, p)]
        /\ movements' = [p \in Products |-> movements[p] \o pending[w][p]]

\* The FinancialEvent row and the Payment that now points to it.
PublishConfirmation(w) ==
    LET o == job[w]
        e == event[w]
    IN  /\ event_row' = [event_row EXCEPT ![e] =
                            [order |-> o, amount |-> amount_bif[w], handed |-> FALSE]]
        /\ financial_event' = [financial_event EXCEPT ![o] = e]
        /\ status' = [status EXCEPT ![o] = "PAID"]

\* The event was created by this worker's own transaction, in confirm_payment.
OwnEvent(w) == event_row[event[w]] = None

CommitConfirmation(w) ==
    /\ SaleReady(w)
    /\ OwnEvent(w)
    /\ PublishSale(w)
    /\ PublishConfirmation(w)
    /\ Finish(w)
    /\ UNCHANGED <<activated, environment>>

\* No sale was made: a subscription payment, which its post_save activates.
Activation(o) == IF o \in SubscriptionOrders /\ activated[o] = 0 THEN 1 ELSE activated[o]

CommitWithoutSale(w) ==
    /\ pc[w] = "record"
    /\ PublishConfirmation(w)
    /\ activated' = [activated EXCEPT ![job[w]] = Activation(job[w])]
    /\ Finish(w)
    /\ UNCHANGED <<sale, ledger, stock_qty, movements, environment>>

\* The handler's own transaction commits; the Payment row is not written.
CommitHanded(w) ==
    /\ SaleReady(w)
    /\ ~OwnEvent(w)
    /\ PublishSale(w)
    /\ Finish(w)
    /\ UNCHANGED <<status, financial_event, event_row, activated, environment>>

-------------------------------------------------------------------------------
(* Stock changed by hand, and what can go wrong *)

\* POST /inventory/restock and /inventory/adjustments: one transaction that locks
\* the row, and 409 when the stock would turn negative.
StockMutation(p) ==
    /\ product_lock[p] = None
    /\ Len(movements[p]) < MaxMovements
    /\ \E delta \in StockChanges :
         /\ stock_qty[p] + delta >= 0
         /\ LET m == MovementOf(stock_qty[p], delta, None)
            IN  /\ stock_qty' = [stock_qty EXCEPT ![p] = m.qty_after]
                /\ movements' = [movements EXCEPT ![p] = Append(@, m)]
    /\ UNCHANGED <<status, financial_event, event_row, sale, ledger, activated,
                   locks, request, environment>>

\* v waits for a row that u holds.
WaitsFor(v, u) ==
    /\ u # v
    /\ \/ pc[v] \in {"confirm", "handed", "expire", "fail"} /\ payment_lock[job[v]] = u
       \/ AtLine(v) /\ product_lock[LineOf(v).product] = u

\* w is on a cycle of the waits-for graph.
Deadlocked(w) ==
    \E S \in SUBSET Workers :
        /\ w \in S
        /\ \A v \in S : (\E u \in S : WaitsFor(v, u)) /\ (\E u \in S : WaitsFor(u, v))

\* Slip: the error of the statement is caught inside the transaction and the line is
\* tried again, with the locks of the lines before it still held.
RetriesTheLine(w) ==
    /\ Deadlocked(w)
    /\ UNCHANGED vars

\* PostgreSQL cancels a transaction on the cycle; the view answers 500.
DeadlockVictim(w) ==
    /\ Deadlocked(w)
    /\ Rollback(w)
    /\ UNCHANGED faults

Fault(kind) ==
    /\ kind \in FaultKinds
    /\ faults < MaxFaults
    /\ faults' = faults + 1

\* The server process dies, or anything raises, before the request commits.
Crash(w) ==
    /\ pc[w] # "idle"
    /\ Fault("crash")
    /\ Rollback(w)

\* run_automation_for_event hits a database error: the except clause swallows the
\* exception, but the surrounding atomic block can only be rolled back.
AutomationBreaks(w) ==
    /\ SaleReady(w)
    /\ OwnEvent(w)
    /\ Fault("automation")
    /\ Rollback(w)

\* Nothing is in flight: the server may stay idle for ever.
Quiescent ==
    /\ \A w \in Workers : pc[w] = "idle"
    /\ UNCHANGED vars

-------------------------------------------------------------------------------
Arrive(w) ==
    \E o \in Orders :
        \/ CreateInvoice(w, o)
        \/ PollRead(w, o)
        \/ OnrampRead(w, o)
        \/ RailPosts(w, o)
        \/ Webhook(w, o)
        \/ HandEvent(w, o)

\* The steps of a request that wait for nobody.
Proceed(w) ==
    \/ InsertPayment(w)
    \/ PollPaid(w) \/ PollExhausted(w) \/ PollUndecided(w)
    \/ OtpAccepted(w) \/ OtpRejected(w) \/ PostRefused(w)
    \/ CommitConfirmation(w) \/ CommitWithoutSale(w) \/ CommitHanded(w)

\* The steps that take a row lock.
LockPayment(w) ==
    \/ PollSave(w) \/ ConfirmAgain(w) \/ ConfirmNew(w)
    \/ HandedSkip(w) \/ HandedBegin(w)

LockProduct(w) == TakeLine(w) \/ InsufficientStock(w) \/ BarcodeFails(w)

Next ==
    \/ \E w \in Workers :
         \/ Arrive(w) \/ Proceed(w) \/ LockPayment(w) \/ LockProduct(w)
         \/ DeadlockVictim(w) \/ Crash(w) \/ AutomationBreaks(w)
    \/ \E o \in Orders : RailResolves(o)
    \/ \E p \in Products : StockMutation(p)
    \/ Quiescent

Spec == Init /\ [][Next]_vars

\* Threads keep running; PostgreSQL gives a released row to a waiter before any
\* newcomer, so a cart line that can get its row again and again does, and it breaks
\* every deadlock.  Nothing is assumed of customers, rails and polls.
Fairness ==
    /\ \A w \in Workers :
         /\ WF_vars(Proceed(w))
         /\ SF_vars(LockPayment(w))
         /\ \A i \in UNION {DOMAIN Cart[o] : o \in Orders} :
              SF_vars(line[w] = i /\ LockProduct(w))
    /\ WF_vars(\E w \in Workers : DeadlockVictim(w))

FairSpec == Spec /\ Fairness

-------------------------------------------------------------------------------
(* What must hold *)

HasSale(e, o) == sale[e] # None /\ sale[e].order = o

\* One order, one sale, however many polls, webhooks, OTP confirmations and
\* retries race for it (confirm_payment's docstring, sales/services.py:63).
\* Orders a FinancialEvent is handed in for are the exception: see OneSaleEvenHanded.
OneSalePerOrder ==
    \A o \in Orders \ HandedOrders : \A e, f \in Events :
        HasSale(e, o) /\ HasSale(f, o) => e = f

\* The same of every order, also of those whose first FinancialEvent does not come
\* from confirm_payment, as ledger/models.py:25 and the comment at
\* sales/services.py:63 have it.
OneSaleEvenHanded ==
    \A o \in Orders : \A e, f \in Events : HasSale(e, o) /\ HasSale(f, o) => e = f

\* A confirmed order has all of its records and an order with none is not
\* confirmed: the event, the sale with the payment's total, its REVENUE entry, or
\* for a subscription the one activation and no sale.
IsWhole(o) ==
    LET e == financial_event[o] IN
        /\ status[o] = "PAID" => e # None
        /\ e # None => event_row[e] # None /\ event_row[e].order = o
        /\ e # None /\ o \notin SubscriptionOrders =>
               /\ HasSale(e, o)
               /\ sale[e].total_amount = Total[o]
               /\ ledger[e].REVENUE = Total[o]
        /\ o \in SubscriptionOrders => \A f \in Events : ~HasSale(f, o)
        /\ activated[o] = IF o \in SubscriptionOrders /\ e # None THEN 1 ELSE 0

ConfirmedIsWhole == \A o \in Orders : IsWhole(o)

\* Each movement starts from the stock the one before it left, and none leaves
\* less than nothing.
Balanced(rows, qty) ==
    \A i \in 1..Len(rows) :
        /\ rows[i].qty_after = (IF i = 1 THEN qty ELSE rows[i - 1].qty_after) + rows[i].qty_delta
        /\ rows[i].qty_after >= 0

\* Rules 1, 2 and 5 of products/movements.py: the stock is the running sum of the
\* movements, row by row, and it is never negative.
MovementsBalance ==
    \A p \in Products :
        /\ Balanced(movements[p], 0)
        /\ stock_qty[p] = QtyAfter(movements[p], 0)

SalesOf(o) == {e \in Events : HasSale(e, o)}

\* Units of p in the cart of o, line by line, and what each line of it cost.
LineUnits(o, p) ==
    [i \in DOMAIN Cart[o] |-> IF Cart[o][i].product = p THEN Cart[o][i].quantity ELSE 0]

LineCosts(o) == [i \in DOMAIN Cart[o] |-> Cart[o][i].quantity * Cart[o][i].unit_cost]

UnitsOf(o, p) == SumFunction(LineUnits(o, p))

CostOf(o) == SumFunction(LineCosts(o))

\* What the movements of a run took in the name of an order.
Takings(rows, o) ==
    [i \in DOMAIN rows |-> IF rows[i].reference = o THEN -rows[i].qty_delta ELSE 0]

\* What left the shelves in the name of an order.
UnitsMoved(o, p) == SumFunction(Takings(movements[p], o))

\* Rules 1 and 3: stock leaves in an order's name exactly as its sales account
\* for, and every sale books the cost of its whole cart.
SalesAccountForStock ==
    \A o \in Orders :
        /\ \A p \in Products : UnitsMoved(o, p) = Cardinality(SalesOf(o)) * UnitsOf(o, p)
        /\ \A e \in SalesOf(o) : ledger[e].COGS = CostOf(o)

\* What an open transaction has computed from a product row is still true of the
\* row: nobody wrote it in between, so no update is lost at the commit.
NoLostUpdate ==
    \A w \in Workers, p \in Products : Balanced(pending[w][p], stock_qty[p])

\* An order is confirmed once: its event never changes and never goes away.
ConfirmedOnce ==
    [][\A o \in Orders :
          financial_event[o] # None => financial_event'[o] = financial_event[o]]_vars

\* Once an order is confirmed it makes no further sale, also when FinancialEvents
\* for it are handed in before, during or after the confirmation
\* (sales/tests.py:148-175 tries the last).
NoSaleAfterConfirmation ==
    [][\A o \in Orders : financial_event[o] # None =>
          \A e \in Events : HasSale(e, o)' => HasSale(e, o)]_vars

\* A status that says PAID keeps saying it: "expired" and "failed" are what a poll
\* records of an order that was not confirmed, "aucune ecriture financiere"
\* (docs/api-contract-clarifications.md:137-138).
PaidStaysPaid ==
    [][\A o \in Orders : status[o] = "PAID" => status'[o] = "PAID"]_vars

\* sales/services.py:150-152: "a failing rule must never undo a recorded, confirmed
\* sale".  A sale ready to commit is committed by the step that ends its request.
RecordedSaleIsKept ==
    [][\A w \in Workers : SaleReady(w) /\ pc'[w] = "idle" => sale'[event[w]] # None]_vars

\* Every request is answered: neither a row lock nor a cycle of them holds one up
\* for ever.
RequestsEnd == \A w \in Workers : []<>(pc[w] = "idle")

\* A confirmation of o is about to run or running.
Confirming(w, o) ==
    /\ job[w] = o
    /\ \/ pc[w] = "confirm"
       \/ pc[w] \in {"lines", "record"} /\ OwnEvent(w)

\* The stock does not cover the cart, or one of its products may fail to be saved.
Unsellable(o) ==
    \/ \E p \in Products : stock_qty[p] < UnitsOf(o, p)
    \/ \E i \in DOMAIN Cart[o] : Cart[o][i].product \in Unprintable

\* An order whose confirmation is tried again as long as it takes is confirmed in the
\* end, whatever crashed, was rolled back or deadlocked on the way and whatever a poll
\* wrote over its status, unless it cannot be sold.
RetriedOrdersSettle ==
    \A o \in Orders :
        []<>(\E w \in Workers : Confirming(w, o))
            => []<>(financial_event[o] # None \/ Unsellable(o))

\* The orders, the stock and who took it, with every row, lock and thread
\* forgotten.
Placed == {o \in Orders : status[o] # "absent"}
Settled == {o \in Orders : financial_event[o] # None}
Abstract == INSTANCE OrderSettlement
    WITH Units <- [o \in Orders |-> [p \in Products |-> UnitsOf(o, p)]],
         placed <- Placed, settled <- Settled, stock <- stock_qty

\* Without handed events, every interleaving looks from outside like orders that
\* are settled one at a time, each at once, each at most once.
SettlesAtomically == Abstract!Spec

===============================================================================
