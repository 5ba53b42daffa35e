------------------------------ MODULE StockProofs ------------------------------
(***************************************************************************)
(* The stock of Settlement always equals the running sum of its movements: *)
(* no commit overwrites another's, for every set of orders and workers.    *)
(***************************************************************************)
EXTENDS SettlementProofs

-------------------------------------------------------------------------------
(* Runs of movements *)

\* A movement that starts from the last stock extends a balanced run.
LEMMA BalancedAppend ==
    ASSUME NEW rows \in Seq(Movement), NEW qty \in Nat, NEW m \in Movement,
           Balanced(rows, qty),
           m.qty_after = QtyAfter(rows, qty) + m.qty_delta
    PROVE  /\ Balanced(Append(rows, m), qty)
           /\ QtyAfter(Append(rows, m), qty) = m.qty_after
<1> DEFINE new == Append(rows, m)
<1>1. /\ new \in Seq(Movement) /\ Len(new) = Len(rows) + 1 /\ Len(rows) \in Nat
      /\ \A i \in 1..Len(rows) : new[i] = rows[i]
      /\ new[Len(rows) + 1] = m
    OBVIOUS
<1>2. m.qty_after >= 0
    BY DEF Movement
<1> HIDE DEF new
<1>3. QtyAfter(new, qty) = m.qty_after
    <2>1. new # <<>>
        BY <1>1
    <2> QED
        BY <1>1, <2>1 DEF QtyAfter
<1>4. ASSUME NEW i \in 1..Len(new)
      PROVE  /\ new[i].qty_after = (IF i = 1 THEN qty ELSE new[i - 1].qty_after) + new[i].qty_delta
             /\ new[i].qty_after >= 0
    <2>1. CASE i \in 1..Len(rows)
        <3>1. i # 1 => i - 1 \in 1..Len(rows)
            BY <2>1, <1>1
        <3> QED
            BY <2>1, <3>1, <1>1 DEF Balanced
    <2>2. CASE i = Len(rows) + 1
        <3>1. CASE rows = <<>>
            BY <2>2, <3>1, <1>1, <1>2 DEF QtyAfter
        <3>2. CASE rows # <<>>
            <4>1. i # 1 /\ i - 1 = Len(rows) /\ Len(rows) \in 1..Len(rows)
                BY <2>2, <3>2, <1>1
            <4> QED
                BY <2>2, <3>2, <4>1, <1>1, <1>2 DEF QtyAfter
        <3> QED
            BY <3>1, <3>2
    <2> QED
        BY <2>1, <2>2, <1>1
<1>5. Balanced(new, qty)
    BY <1>4 DEF Balanced
<1> QED
    BY <1>3, <1>5 DEF new

\* A balanced run that starts where another ended extends it.
LEMMA BalancedConcat ==
    ASSUME NEW s \in Seq(Movement), NEW t \in Seq(Movement), NEW qty \in Nat,
           Balanced(s, qty), Balanced(t, QtyAfter(s, qty))
    PROVE  /\ Balanced(s \o t, qty)
           /\ QtyAfter(s \o t, qty) = QtyAfter(t, QtyAfter(s, qty))
<1> DEFINE u == s \o t
<1>1. /\ Len(u) = Len(s) + Len(t) /\ Len(s) \in Nat /\ Len(t) \in Nat
      /\ \A i \in 1..Len(s) : u[i] = s[i]
      /\ \A i \in 1..Len(t) : u[Len(s) + i] = t[i]
    OBVIOUS
<1>2. (t = <<>> => u = s) /\ (t # <<>> => u # <<>> /\ Len(t) \in 1..Len(t))
    OBVIOUS
<1>3. s # <<>> => Len(s) \in 1..Len(s)
    OBVIOUS
<1>4. s = <<>> => Len(s) = 0
    OBVIOUS
<1> HIDE DEF u
<1>5. QtyAfter(u, qty) = QtyAfter(t, QtyAfter(s, qty))
    <2>1. CASE t = <<>>
        BY <2>1, <1>2 DEF QtyAfter
    <2>2. CASE t # <<>>
        <3>1. u[Len(u)] = t[Len(t)]
            BY <2>2, <1>1, <1>2
        <3> QED
            BY <2>2, <3>1, <1>2 DEF QtyAfter
    <2> QED
        BY <2>1, <2>2
<1>6. ASSUME NEW i \in 1..Len(u)
      PROVE  /\ u[i].qty_after = (IF i = 1 THEN qty ELSE u[i - 1].qty_after) + u[i].qty_delta
             /\ u[i].qty_after >= 0
    <2>1. CASE i \in 1..Len(s)
        <3>1. i # 1 => i - 1 \in 1..Len(s)
            BY <2>1, <1>1
        <3> QED
            BY <2>1, <3>1, <1>1 DEF Balanced
    <2>2. CASE i \notin 1..Len(s)
        <3> DEFINE j == i - Len(s)
        <3>1. j \in 1..Len(t) /\ i = Len(s) + j
            BY <2>2, <1>1
        <3>2. u[i] = t[j]
            BY <3>1, <1>1
        <3>3. /\ t[j].qty_after = (IF j = 1 THEN QtyAfter(s, qty) ELSE t[j - 1].qty_after) + t[j].qty_delta
              /\ t[j].qty_after >= 0
            BY <3>1 DEF Balanced
        <3>4. (IF i = 1 THEN qty ELSE u[i - 1].qty_after)
                  = IF j = 1 THEN QtyAfter(s, qty) ELSE t[j - 1].qty_after
            <4>1. CASE j # 1
                <5>1. j - 1 \in 1..Len(t) /\ i # 1 /\ i - 1 = Len(s) + (j - 1)
                    BY <4>1, <3>1, <1>1
                <5> QED
                    BY <4>1, <5>1, <1>1
            <4>2. CASE j = 1 /\ s = <<>>
                BY <4>2, <3>1, <1>4 DEF QtyAfter
            <4>3. CASE j = 1 /\ s # <<>>
                <5>1. i # 1 /\ i - 1 = Len(s) /\ u[i - 1] = s[Len(s)]
                    BY <4>3, <3>1, <1>1, <1>3
                <5> QED
                    BY <4>3, <5>1 DEF QtyAfter
            <4> QED
                BY <4>1, <4>2, <4>3
        <3> QED
            BY <3>2, <3>3, <3>4
    <2> QED
        BY <2>1, <2>2
<1>7. Balanced(u, qty)
    BY <1>6 DEF Balanced
<1> QED
    BY <1>5, <1>7 DEF u

-------------------------------------------------------------------------------
(* The invariant *)

\* Only a worker in the handler has uncommitted movements, and only of products
\* whose rows it holds.
ShelfLockInv ==
    \A w \in Workers, p \in Products :
        pending[w][p] # <<>> => pc[w] = "lines" /\ product_lock[p] = w

StockInv ==
    /\ ShelfLockInv
    /\ NoLostUpdate
    /\ MovementsBalance

LEMMA InitStockInv == Init => StockInv
<1> SUFFICES ASSUME Init PROVE StockInv
    OBVIOUS
<1>1. ShelfLockInv
    BY DEF Init, ShelfLockInv, NoMovements
<1>2. NoLostUpdate
    BY DEF Init, NoLostUpdate, NoMovements, Balanced
<1>3. ASSUME NEW p \in Products
      PROVE  Balanced(movements[p], 0) /\ stock_qty[p] = QtyAfter(movements[p], 0)
    <2>1. movements[p] = InitialMovements(p) /\ stock_qty[p] = InitialStock[p] /\ InitialStock[p] \in Nat
        BY StockAssumption DEF Init
    <2>2. CASE InitialStock[p] = 0
        BY <2>1, <2>2 DEF InitialMovements, Balanced, QtyAfter
    <2>3. CASE InitialStock[p] # 0
        BY <2>1, <2>3 DEF InitialMovements, Balanced, QtyAfter
    <2> QED
        BY <2>2, <2>3
<1> QED
    BY <1>1, <1>2, <1>3 DEF StockInv, MovementsBalance

\* A step of a worker that is not in the handler and leaves stock alone.
LEMMA OutsideStockInv ==
    ASSUME StockInv, NEW w \in Workers, pc[w] # "lines",
           \A v \in Workers \ {w} : pc'[v] = pc[v],
           UNCHANGED <<stock_qty, movements, pending, product_lock>>
    PROVE  StockInv'
<1>1. ShelfLockInv'
    BY DEF StockInv, ShelfLockInv
<1> QED
    BY <1>1 DEF StockInv, NoLostUpdate, MovementsBalance

\* The end of a request, with or without a sale.
LEMMA FinishShelfLock ==
    ASSUME TypeInv, StockInv, NEW w \in Workers, Finish(w)
    PROVE  /\ ShelfLockInv'
           /\ \A v \in Workers \ {w} : pending'[v] = pending[v]
           /\ \A p \in Products : pending'[w][p] = <<>>
<1>1. \A v \in Workers \ {w} : pending'[v] = pending[v] /\ pc'[v] = pc[v]
    BY DEF Finish, Goto, TypeInv, TypeOK
<1>2. \A p \in Products : pending'[w][p] = <<>>
    BY DEF Finish, NoMovements, TypeInv, TypeOK
<1>3. \A v \in Workers \ {w}, p \in Products : product_lock[p] = v => product_lock'[p] = v
    BY DEF Finish, Freed, TypeInv, TypeOK
<1>4. ShelfLockInv'
    BY <1>1, <1>2, <1>3 DEF StockInv, ShelfLockInv
<1> QED
    BY <1>1, <1>2, <1>4

\* A run of no movements is balanced.
LEMMA NothingBalances == \A qty : Balanced(<<>>, qty)
BY DEF Balanced

LEMMA FinishStockInv ==
    ASSUME TypeInv, StockInv, NEW w \in Workers, Finish(w), UNCHANGED <<stock_qty, movements>>
    PROVE  StockInv'
<1>1. ASSUME NEW v \in Workers, NEW p \in Products PROVE Balanced(pending'[v][p], stock_qty'[p])
    <2>1. CASE v = w
        BY <2>1, FinishShelfLock, NothingBalances
    <2>2. CASE v # w
        BY <2>2, FinishShelfLock DEF StockInv, NoLostUpdate
    <2> QED
        BY <2>1, <2>2
<1>2. NoLostUpdate'
    BY <1>1 DEF NoLostUpdate, Balanced
<1>3. MovementsBalance'
    BY DEF StockInv, MovementsBalance
<1> QED
    BY <1>2, <1>3, FinishShelfLock DEF StockInv

LEMMA TakeLineStockInv ==
    ASSUME TypeInv, StockInv, NEW w \in Workers, TakeLine(w)
    PROVE  StockInv'
<1> DEFINE l == LineOf(w)
           m == MovementOf(SeenStock(w, l.product), -l.quantity, job[w])
<1>1. AtLine(w) /\ Covers(w) /\ ProductRowFree(w, l.product)
    BY DEF TakeLine
<1>2. l.product \in Products /\ m \in Movement
    BY <1>1, LineOfType, TakenMovementType DEF Line
<1>3. /\ product_lock' = [product_lock EXCEPT ![l.product] = w]
      /\ pending' = [pending EXCEPT ![w][l.product] = Append(@, m)]
      /\ UNCHANGED <<pc, stock_qty, movements>>
    BY DEF TakeLine, tables
<1>4. m.qty_after = QtyAfter(pending[w][l.product], stock_qty[l.product]) + m.qty_delta
    <2>1. m.qty_after = SeenStock(w, l.product) + m.qty_delta
        BY DEF MovementOf
    <2> QED
        BY <2>1 DEF SeenStock
<1>5. pc[w] = "lines" /\ product_lock[l.product] \in {None, w}
    BY <1>1 DEF AtLine, ProductRowFree
<1> HIDE DEF l, m
<1>6. Balanced(Append(pending[w][l.product], m), stock_qty[l.product])
    <2>1. pending[w][l.product] \in Seq(Movement) /\ stock_qty[l.product] \in Nat
        BY <1>2 DEF TypeInv, TypeOK
    <2>2. Balanced(pending[w][l.product], stock_qty[l.product])
        BY <1>2 DEF StockInv, NoLostUpdate
    <2> QED
        BY <2>1, <2>2, <1>2, <1>4, BalancedAppend
<1>7. /\ pending'[w][l.product] = Append(pending[w][l.product], m)
      /\ \A p \in Products \ {l.product} : pending'[w][p] = pending[w][p]
      /\ \A v \in Workers \ {w} : pending'[v] = pending[v]
    BY <1>2, <1>3 DEF TypeInv, TypeOK
<1>8. ShelfLockInv'
    <2> SUFFICES ASSUME NEW v \in Workers, NEW p \in Products, pending'[v][p] # <<>>
                 PROVE  pc'[v] = "lines" /\ product_lock'[p] = v
        BY DEF ShelfLockInv
    <2>1. CASE p = l.product /\ v = w
        BY <2>1, <1>2, <1>3, <1>5 DEF TypeInv, TypeOK
    <2>2. CASE p = l.product /\ v # w
        BY <2>2, <1>5, <1>7, NoneAssumption DEF StockInv, ShelfLockInv
    <2>3. CASE p # l.product
        <3>1. pending[v][p] # <<>>
            BY <2>3, <1>7
        <3> QED
            BY <2>3, <3>1, <1>3 DEF StockInv, ShelfLockInv, TypeInv, TypeOK
    <2> QED
        BY <2>1, <2>2, <2>3
<1>9. NoLostUpdate'
    <2>1. ASSUME NEW v \in Workers, NEW p \in Products
          PROVE  Balanced(pending'[v][p], stock_qty'[p])
        BY <1>3, <1>6, <1>7 DEF StockInv, NoLostUpdate
    <2> QED
        BY <2>1 DEF NoLostUpdate, Balanced
<1>10. MovementsBalance'
    BY <1>3 DEF StockInv, MovementsBalance
<1> QED
    BY <1>8, <1>9, <1>10 DEF StockInv

\* The commit of a sale writes the rows it holds and no other.
LEMMA PublishStockInv ==
    ASSUME TypeInv, StockInv, NEW w \in Workers, PublishSale(w), Finish(w)
    PROVE  StockInv'
<1>1. \A p \in Products : /\ stock_qty'[p] = QtyAfter(pending[w][p], stock_qty[p])
                         /\ movements'[p] = movements[p] \o pending[w][p]
    BY DEF PublishSale, SeenStock
<1>2. ASSUME NEW p \in Products
      PROVE  /\ Balanced(movements'[p], 0)
             /\ stock_qty'[p] = QtyAfter(movements'[p], 0)
    <2>1. /\ movements[p] \in Seq(Movement) /\ pending[w][p] \in Seq(Movement)
          /\ Balanced(movements[p], 0) /\ stock_qty[p] = QtyAfter(movements[p], 0)
          /\ Balanced(pending[w][p], stock_qty[p])
        BY DEF TypeInv, TypeOK, StockInv, MovementsBalance, NoLostUpdate
    <2>2. Balanced(pending[w][p], QtyAfter(movements[p], 0))
        BY <2>1
    <2>3. /\ Balanced(movements[p] \o pending[w][p], 0)
          /\ QtyAfter(movements[p] \o pending[w][p], 0)
                 = QtyAfter(pending[w][p], QtyAfter(movements[p], 0))
        BY <2>1, <2>2, BalancedConcat
    <2> QED
        BY <1>1, <2>1, <2>3
<1>3. MovementsBalance'
    BY <1>2 DEF MovementsBalance, Balanced, QtyAfter
<1>4. ASSUME NEW v \in Workers, NEW p \in Products PROVE Balanced(pending'[v][p], stock_qty'[p])
    <2>1. CASE v = w \/ pending[v][p] = <<>>
        BY <2>1, FinishShelfLock, NothingBalances
    <2>2. CASE v # w /\ pending[v][p] # <<>>
        <3>1. pending[w][p] = <<>>
            BY <2>2 DEF StockInv, ShelfLockInv
        <3>2. stock_qty'[p] = stock_qty[p]
            BY <3>1, <1>1 DEF QtyAfter
        <3> QED
            BY <2>2, <3>2, FinishShelfLock DEF StockInv, NoLostUpdate
    <2> QED
        BY <2>1, <2>2
<1>5. NoLostUpdate'
    BY <1>4 DEF NoLostUpdate, Balanced
<1> QED
    BY <1>3, <1>5, FinishShelfLock DEF StockInv

\* An owner's restock or adjustment takes the row when no sale holds it.
LEMMA StockMutationStockInv ==
    ASSUME TypeInv, StockInv, NEW p \in Products, StockMutation(p)
    PROVE  StockInv'
<1>1. PICK delta \in StockChanges :
         /\ stock_qty[p] + delta >= 0
         /\ stock_qty' = [stock_qty EXCEPT ![p] = MovementOf(stock_qty[p], delta, None).qty_after]
         /\ movements' = [movements EXCEPT ![p] = Append(@, MovementOf(stock_qty[p], delta, None))]
    BY DEF StockMutation
<1> DEFINE m == MovementOf(stock_qty[p], delta, None)
<1>2. m \in Movement /\ m.qty_after = stock_qty[p] + m.qty_delta
    BY <1>1, StockAssumption DEF MovementOf, Movement, TypeInv, TypeOK
<1>3. /\ stock_qty'[p] = m.qty_after /\ movements'[p] = Append(movements[p], m)
      /\ \A q \in Products \ {p} : stock_qty'[q] = stock_qty[q] /\ movements'[q] = movements[q]
      /\ UNCHANGED <<pc, pending, product_lock>>
      /\ product_lock[p] = None
    BY <1>1 DEF StockMutation, TypeInv, TypeOK, locks, request
<1> HIDE DEF m
<1>4. \A v \in Workers : pending[v][p] = <<>>
    BY <1>3, NoneAssumption DEF StockInv, ShelfLockInv
<1>5. ShelfLockInv'
    BY <1>3 DEF StockInv, ShelfLockInv
<1>6. ASSUME NEW v \in Workers, NEW q \in Products PROVE Balanced(pending'[v][q], stock_qty'[q])
    BY <1>3, <1>4, NothingBalances DEF StockInv, NoLostUpdate
<1>7. NoLostUpdate'
    BY <1>6 DEF NoLostUpdate, Balanced
<1>8. ASSUME NEW q \in Products
      PROVE  Balanced(movements'[q], 0) /\ stock_qty'[q] = QtyAfter(movements'[q], 0)
    <2>1. /\ movements[q] \in Seq(Movement) /\ Balanced(movements[q], 0)
          /\ stock_qty[q] = QtyAfter(movements[q], 0)
        BY DEF TypeInv, TypeOK, StockInv, MovementsBalance
    <2>2. CASE q = p
        BY <2>1, <2>2, <1>2, <1>3, BalancedAppend
    <2>3. CASE q # p
        BY <2>1, <2>3, <1>3
    <2> QED
        BY <2>2, <2>3
<1>9. MovementsBalance'
    BY <1>8 DEF MovementsBalance, Balanced, QtyAfter
<1> QED
    BY <1>5, <1>7, <1>9 DEF StockInv

LEMMA NextStockInv == TypeInv /\ StockInv /\ [Next]_vars => StockInv'
<1> SUFFICES ASSUME TypeInv, StockInv, [Next]_vars PROVE StockInv'
    OBVIOUS
<1>1. CASE UNCHANGED vars
    BY <1>1 DEF vars, tables, locks, request, StockInv, ShelfLockInv, NoLostUpdate, MovementsBalance
<1>2. ASSUME NEW w \in Workers, Rollback(w) PROVE StockInv'
    BY <1>2, FinishStockInv DEF Rollback, tables
<1>3. ASSUME NEW w \in Workers, Arrive(w) PROVE StockInv'
    <2>1. PICK o \in Orders : \/ CreateInvoice(w, o)
                              \/ PollRead(w, o)
                              \/ OnrampRead(w, o)
                              \/ RailPosts(w, o)
                              \/ Webhook(w, o)
                              \/ HandEvent(w, o)
        BY <1>3 DEF Arrive
    <2>2. /\ \E step \in Steps : Begin(w, o, step)
          /\ UNCHANGED <<stock_qty, movements, pending, product_lock>>
        BY <2>1
        DEF CreateInvoice, PollRead, OnrampRead, RailPosts, Webhook, HandEvent, tables, locks, Steps
    <2>3. pc[w] # "lines" /\ \A v \in Workers \ {w} : pc'[v] = pc[v]
        BY <2>2 DEF Begin, TypeInv, TypeOK
    <2> QED
        BY <2>2, <2>3, OutsideStockInv
<1>4. ASSUME NEW w \in Workers, Proceed(w) PROVE StockInv'
    <2>1. CASE InsertPayment(w) \/ CommitWithoutSale(w)
        BY <2>1, FinishStockInv DEF InsertPayment, CommitWithoutSale
    <2>2. CASE PollUndecided(w) \/ OtpRejected(w) \/ PostRefused(w)
        BY <1>2, <2>2 DEF PollUndecided, OtpRejected, PostRefused
    <2>3. CASE PollPaid(w) \/ PollExhausted(w) \/ OtpAccepted(w)
        BY <2>3, OutsideStockInv
        DEF PollPaid, PollExhausted, OtpAccepted, Goto, tables, locks, TypeInv, TypeOK
    <2>4. CASE CommitConfirmation(w) \/ CommitHanded(w)
        BY <2>4, PublishStockInv DEF CommitConfirmation, CommitHanded
    <2> QED
        BY <1>4, <2>1, <2>2, <2>3, <2>4 DEF Proceed
<1>5. ASSUME NEW w \in Workers, LockPayment(w) PROVE StockInv'
    <2>1. CASE PollSave(w)
        BY <2>1, FinishStockInv DEF PollSave
    <2>2. CASE ConfirmAgain(w) \/ HandedSkip(w)
        BY <1>2, <2>2 DEF ConfirmAgain, HandedSkip
    <2>3. CASE ConfirmNew(w)
        BY <2>3, OutsideStockInv DEF ConfirmNew, Goto, tables, TypeInv, TypeOK
    <2>4. CASE HandedBegin(w)
        BY <2>4, OutsideStockInv DEF HandedBegin, Goto, tables, TypeInv, TypeOK
    <2> QED
        BY <1>5, <2>1, <2>2, <2>3, <2>4 DEF LockPayment
<1>6. ASSUME NEW w \in Workers, LockProduct(w) PROVE StockInv'
    BY <1>2, <1>6, TakeLineStockInv DEF LockProduct, InsufficientStock, BarcodeFails
<1>7. ASSUME NEW w \in Workers, DeadlockVictim(w) \/ Crash(w) \/ AutomationBreaks(w) PROVE StockInv'
    BY <1>2, <1>7 DEF DeadlockVictim, Crash, AutomationBreaks
<1>8. ASSUME NEW o \in Orders, RailResolves(o) PROVE StockInv'
    BY <1>8 DEF RailResolves, tables, locks, request,
                StockInv, ShelfLockInv, NoLostUpdate, MovementsBalance
<1>9. ASSUME NEW p \in Products, StockMutation(p) PROVE StockInv'
    BY <1>9, StockMutationStockInv
<1>10. CASE Quiescent
    BY <1>1, <1>10 DEF Quiescent
<1> QED
    BY <1>1, <1>3, <1>4, <1>5, <1>6, <1>7, <1>8, <1>9, <1>10 DEF Next

LEMMA StockInvariant == Spec => []StockInv
BY InitStockInv, NextStockInv, TypeInvariant, PTL DEF Spec

\* Rules 1, 2 and 5 of products/movements.py for every instance: Product.stock_qty is
\* the running sum of the product's movements and never negative.
THEOREM StockIsItsMovements == Spec => []MovementsBalance
<1>1. StockInv => MovementsBalance
    BY DEF StockInv
<1> QED
    BY <1>1, StockInvariant, PTL

\* What an open transaction computed from a product row still holds of the row when
\* it commits, because the row's lock kept every other writer out.
THEOREM NoUpdateIsLost == Spec => []NoLostUpdate
<1>1. StockInv => NoLostUpdate
    BY DEF StockInv
<1> QED
    BY <1>1, StockInvariant, PTL

===============================================================================
