------------------------------- MODULE Inventory -------------------------------
(***************************************************************************)
(* Products, their stock and the append-only movement ledger of FOBOS, as  *)
(* owners create products, change stock and page through the ledger.       *)
(*                                                                         *)
(* A movement row carries the time at which Python built it and becomes    *)
(* visible when its transaction commits, so rows of different products can *)
(* commit in another order than their times.  Sales are Settlement's; here *)
(* they are one more transaction that locks a product.                     *)
(***************************************************************************)
EXTENDS Integers, Sequences, FiniteSets, Functions

CONSTANTS
    Products,
    InitialStock,   \* the stock a product is created with
    Unprintable,    \* products whose barcode image may fail to be rendered or stored
    Deltas,         \* signed quantities a transaction moves
    Workers,        \* request threads that write
    Readers,        \* clients that page through the ledger, once each (bound)
    Limits,         \* page sizes they ask for
    Ids,            \* primary keys of movements, a pool (bound)
    MaxClock,       \* bound: the last instant
    MaxCrashes,     \* bound
    None

ASSUME InventoryAssumption ==
    /\ InitialStock \in [Products -> Nat]
    /\ Unprintable \subseteq Products
    /\ Deltas \subseteq Int
    /\ Limits \subseteq Nat \ {0}
    /\ Ids \subseteq Nat
    /\ MaxClock \in Nat
    /\ MaxCrashes \in Nat

Row == [id : Ids, product : Products, created_at : 0..MaxClock,
        qty_delta : Int, qty_after : Nat, initial : BOOLEAN]

ASSUME InventoryNoneAssumption ==
    /\ None \notin Products
    /\ None \notin Workers
    /\ None \notin Nat
    /\ None \notin Row

VARIABLES
    stock_qty,     \* Product.stock_qty, None while there is no row
    movements,     \* committed StockMovement rows
    product_lock,
    pc,            \* "idle", "created" (the product's row is committed), "stamped"
    job,           \* the product the request is about
    row,           \* the movement built and not yet committed
    clock,
    crashes,
    wanted,        \* the product a reader filters by, None for all
    baseline,      \* the rows that matched when its first page was asked for
    cursor,        \* the last row of its last page, None without a next_cursor
    pages          \* the pages it got

writers == <<stock_qty, movements, product_lock, pc, job, row>>
readers == <<wanted, baseline, cursor, pages>>
vars == <<writers, clock, crashes, readers>>

TypeOK ==
    /\ stock_qty \in [Products -> Nat \cup {None}]
    /\ movements \subseteq Row
    /\ product_lock \in [Products -> Workers \cup {None}]
    /\ pc \in [Workers -> {"idle", "created", "stamped"}]
    /\ job \in [Workers -> Products \cup {None}]
    /\ row \in [Workers -> Row \cup {None}]
    /\ clock \in 0..MaxClock
    /\ crashes \in 0..MaxCrashes
    /\ wanted \in [Readers -> Products \cup {None}]
    /\ baseline \in [Readers -> SUBSET Row]
    /\ cursor \in [Readers -> Row \cup {None}]
    /\ pages \in [Readers -> Seq(SUBSET Row)]

Init ==
    /\ stock_qty = [p \in Products |-> None]
    /\ movements = {}
    /\ product_lock = [p \in Products |-> None]
    /\ pc = [w \in Workers |-> "idle"]
    /\ job = [w \in Workers |-> None]
    /\ row = [w \in Workers |-> None]
    /\ clock = 0
    /\ crashes = 0
    /\ wanted = [r \in Readers |-> None]
    /\ baseline = [r \in Readers |-> {}]
    /\ cursor = [r \in Readers |-> None]
    /\ pages = [r \in Readers |-> <<>>]

-------------------------------------------------------------------------------
(* Slips a change of the code could make *)

\* The view reads the product with get() instead of select_for_update().
NoLock(p) == TRUE

\* apply_stock_movement without its check.
AnyStock(p, delta) == TRUE

-------------------------------------------------------------------------------
(* Creating a product *)

\* The pool of keys still has one for another request (bound).
KeyLeft ==
    Cardinality(movements) + Cardinality({v \in Workers : pc[v] # "idle"}) < Cardinality(Ids)

\* POST /products: the row commits on its own, then its post_save handlers run.
CreateProduct(w, p) ==
    /\ pc[w] = "idle"
    /\ KeyLeft
    /\ stock_qty[p] = None
    /\ stock_qty' = [stock_qty EXCEPT ![p] = InitialStock[p]]
    /\ pc' = [pc EXCEPT ![w] = "created"]
    /\ job' = [job EXCEPT ![w] = p]
    /\ UNCHANGED <<movements, product_lock, row, clock, crashes, readers>>

Finish(w) ==
    /\ pc' = [pc EXCEPT ![w] = "idle"]
    /\ job' = [job EXCEPT ![w] = None]
    /\ row' = [row EXCEPT ![w] = None]
    /\ product_lock' = [p \in Products |-> IF product_lock[p] = w THEN None ELSE product_lock[p]]

\* _sync_barcode_image runs first and raises, or there is no stock to record.
EndUnrecorded(w) ==
    /\ pc[w] = "created"
    /\ job[w] \in Unprintable \/ InitialStock[job[w]] = 0
    /\ Finish(w)
    /\ UNCHANGED <<stock_qty, movements, clock, crashes, readers>>

\* A movement is built: created_at is now, its key is fresh.
Stamp(w, p, delta, after, initial) ==
    /\ \E i \in Ids :
         /\ \A m \in movements : m.id # i
         /\ \A v \in Workers : row[v] # None => row[v].id # i
         /\ row' = [row EXCEPT ![w] = [id |-> i, product |-> p, created_at |-> clock,
                                       qty_delta |-> delta, qty_after |-> after,
                                       initial |-> initial]]
    /\ pc' = [pc EXCEPT ![w] = "stamped"]

\* _record_initial_stock, with the stock the instance in memory was created with.
RecordInitialStock(w) ==
    /\ pc[w] = "created"
    /\ InitialStock[job[w]] # 0
    /\ Stamp(w, job[w], InitialStock[job[w]], InitialStock[job[w]], TRUE)
    /\ UNCHANGED <<stock_qty, movements, product_lock, job, clock, crashes, readers>>

-------------------------------------------------------------------------------
(* Changing stock: restock, adjustment, sale *)

RowFree(p) == product_lock[p] = None

\* Otherwise NegativeStockError, 409, and nothing changes.
StaysCovered(p, delta) == stock_qty[p] + delta >= 0

BeginMutation(w, p) ==
    /\ pc[w] = "idle"
    /\ KeyLeft
    /\ stock_qty[p] # None
    /\ RowFree(p)
    /\ \E delta \in Deltas :
         /\ StaysCovered(p, delta)
         /\ Stamp(w, p, delta, stock_qty[p] + delta, FALSE)
    /\ product_lock' = [product_lock EXCEPT ![p] = w]
    /\ job' = [job EXCEPT ![w] = p]
    /\ UNCHANGED <<stock_qty, movements, clock, crashes, readers>>

\* Only apply_stock_movement writes the product.
Commit(w) ==
    /\ pc[w] = "stamped"
    /\ movements' = movements \cup {row[w]}
    /\ stock_qty' = [stock_qty EXCEPT ![job[w]] = IF row[w].initial THEN @ ELSE row[w].qty_after]
    /\ Finish(w)
    /\ UNCHANGED <<clock, crashes, readers>>

\* Every save of a product runs _sync_barcode_image, also the one that changes its
\* stock: it raises, and the transaction of the change is rolled back.
BarcodeFails(w) ==
    /\ pc[w] = "stamped"
    /\ ~row[w].initial
    /\ job[w] \in Unprintable
    /\ Finish(w)
    /\ UNCHANGED <<stock_qty, movements, clock, crashes, readers>>

Crash(w) ==
    /\ pc[w] # "idle"
    /\ crashes < MaxCrashes
    /\ crashes' = crashes + 1
    /\ Finish(w)
    /\ UNCHANGED <<stock_qty, movements, clock, readers>>

Tick ==
    /\ clock < MaxClock
    /\ clock' = clock + 1
    /\ UNCHANGED <<writers, crashes, readers>>

-------------------------------------------------------------------------------
(* GET /inventory/movements, newest first *)

\* Meta.ordering = ["-created_at", "-id"], read from the old end.
Older(m, n) ==
    \/ m.created_at < n.created_at
    \/ m.created_at = n.created_at /\ m.id < n.id

Matching(f) == {m \in movements : f = None \/ m.product = f}

\* Slip: a cursor that is a time alone.
PastTime(c, rows) == {m \in rows : m.created_at < c.created_at}

\* What the query of a later page keeps.
PastCursor(c, rows) == {m \in rows : Older(m, c)}

\* qs[:limit]
Items(rows, limit) == {m \in rows : Cardinality({n \in rows : Older(m, n)}) < limit}

LastOf(items) == CHOOSE m \in items : \A n \in items \ {m} : Older(m, n)

\* The response: the items, and a next_cursor when there is one row more.
Answer(r, rows, limit) ==
    LET items == Items(rows, limit) IN
        /\ pages' = [pages EXCEPT ![r] = Append(@, items)]
        /\ cursor' = [cursor EXCEPT ![r] = IF items = rows THEN None ELSE LastOf(items)]

FirstPage(r) ==
    /\ pages[r] = <<>>
    /\ \E f \in Products \cup {None}, limit \in Limits :
         /\ wanted' = [wanted EXCEPT ![r] = f]
         /\ baseline' = [baseline EXCEPT ![r] = Matching(f)]
         /\ Answer(r, Matching(f), limit)
    /\ UNCHANGED <<writers, clock, crashes>>

NextPage(r) ==
    /\ cursor[r] # None
    /\ \E limit \in Limits : Answer(r, PastCursor(cursor[r], Matching(wanted[r])), limit)
    /\ UNCHANGED <<writers, clock, crashes, wanted, baseline>>

-------------------------------------------------------------------------------
\* No request is in flight: the server may stay idle for ever.
Quiescent ==
    /\ \A w \in Workers : pc[w] = "idle"
    /\ UNCHANGED vars

Next ==
    \/ \E w \in Workers :
         \/ \E p \in Products : CreateProduct(w, p) \/ BeginMutation(w, p)
         \/ EndUnrecorded(w) \/ RecordInitialStock(w)
         \/ Commit(w) \/ BarcodeFails(w) \/ Crash(w)
    \/ \E r \in Readers : FirstPage(r) \/ NextPage(r)
    \/ Tick
    \/ Quiescent

Spec == Init /\ [][Next]_vars

-------------------------------------------------------------------------------
(* What must hold *)

RowsOf(p) == {m \in movements : m.product = p}

Moved(p) == SumFunctionOnSet([m \in movements |-> m.qty_delta], RowsOf(p))

Recorded(p) == \E m \in RowsOf(p) : m.initial

\* Rules 1 and 3 of products/movements.py: stock never changes without its movement.
\* Whatever interleaves with the creation and with one another, the stock is what
\* the movements say, but for an initial stock that is not recorded yet.
StockIsExplained ==
    \A p \in Products : stock_qty[p] # None =>
        stock_qty[p] = Moved(p) + (IF Recorded(p) THEN 0 ELSE InitialStock[p])

\* Rule 5 as products/signals.py:5-7 has it: the stock is the sum of the movements
\* "no matter how the product entered the system"; here once its creation is over.
StockIsSumOfMovements ==
    \A p \in Products :
        stock_qty[p] # None /\ (\A w \in Workers : job[w] # p) => stock_qty[p] = Moved(p)

\* The ledger of a product only grows at its new end: a movement that commits is
\* not older than one already there, the initial one apart (products/models.py:108).
LedgerGrowsForward ==
    [][\A m \in movements' \ movements, n \in movements :
          m.product = n.product /\ ~m.initial /\ ~n.initial => n.created_at <= m.created_at]_vars

\* Paging by cursor is exact while rows commit between the pages, late or with equal
\* times: each page is older than the pages before it, so that no row comes twice,
\* and at the end no row is missing that was there at the start.
WalkIsExact ==
    \A r \in Readers :
        /\ \A i, j \in DOMAIN pages[r] : i < j =>
               \A m \in pages[r][j], n \in pages[r][i] : Older(m, n)
        /\ pages[r] # <<>> /\ cursor[r] = None =>
               \A m \in baseline[r] : \E i \in DOMAIN pages[r] : m \in pages[r][i]

===============================================================================
