------------------------------ MODULE SaleProofs ------------------------------
(***************************************************************************)
(* Stock leaves the shelves of Settlement exactly as its sales account for *)
(* it, and seen from outside its orders are settled at once, for every set *)
(* of orders, carts, products and workers.                                 *)
(***************************************************************************)
EXTENDS StockProofs, SumLemmas

-------------------------------------------------------------------------------
(* Runs of movements, carts and their sums *)

\* A line of a run of movements, in an order's name or not, is a number.
LEMMA TakingsType ==
    ASSUME NEW rows \in Seq(Movement), NEW o
    PROVE  /\ DOMAIN Takings(rows, o) = 1..Len(rows) /\ Len(rows) \in Nat
           /\ \A i \in 1..Len(rows) : Takings(rows, o)[i] \in Int
<1>1. \A i \in 1..Len(rows) : rows[i] \in Movement
    OBVIOUS
<1>2. \A i \in 1..Len(rows) : rows[i].qty_delta \in Int
    BY <1>1 DEF Movement
<1> QED
    BY <1>2 DEF Takings

\* What a run took in an order's name, as a sum over the places of its rows.
LEMMA TakenIsSum ==
    ASSUME NEW rows \in Seq(Movement), NEW o
    PROVE  /\ SumFunction(Takings(rows, o)) = SumFunctionOnSet(Takings(rows, o), 1..Len(rows))
           /\ SumFunction(Takings(rows, o)) \in Int
<1>1. /\ DOMAIN Takings(rows, o) = 1..Len(rows) /\ Len(rows) \in Nat
      /\ \A i \in 1..Len(rows) : Takings(rows, o)[i] \in Int
    BY TakingsType
<1>2. SumFunction(Takings(rows, o)) = SumFunctionOnSet(Takings(rows, o), 1..Len(rows))
    BY <1>1 DEF SumFunction
<1>3. IsFiniteSet(1..Len(rows))
    BY <1>1, FS_Interval
<1> DEFINE f == Takings(rows, o)
           S == 1..Len(rows)
<1>4. SumFunctionOnSet(f, S) \in Int
    <2> HIDE DEF f, S
    <2>1. IsFiniteSet(S) /\ \A i \in S : f[i] \in Int
        BY <1>1, <1>3 DEF f, S
    <2> QED
        BY <2>1, SumInt
<1> QED
    BY <1>2, <1>4

LEMMA NothingTaken == \A o : SumFunction(Takings(<<>>, o)) = 0
<1> TAKE o
<1>1. DOMAIN Takings(<<>>, o) = {}
    BY DEF Takings
<1> QED
    BY <1>1, SumEmpty DEF SumFunction

\* Two runs in a row took what each of them took.
LEMMA TakingsConcat ==
    ASSUME NEW s \in Seq(Movement), NEW t \in Seq(Movement), NEW o
    PROVE  SumFunction(Takings(s \o t, o)) = SumFunction(Takings(s, o)) + SumFunction(Takings(t, o))
<1> DEFINE u == s \o t
           m == Len(s)
           n == Len(t)
           f == Takings(u, o)
           g == Takings(t, o)
           h == Takings(s, o)
<1>1. /\ u \in Seq(Movement) /\ m \in Nat /\ n \in Nat /\ Len(u) = m + n
      /\ \A i \in 1..m : u[i] = s[i]
      /\ \A i \in 1..n : u[m + i] = t[i] /\ m + i \in 1..m + n
    OBVIOUS
<1>2. /\ SumFunction(f) = SumFunctionOnSet(f, 1..m + n)
      /\ SumFunction(g) = SumFunctionOnSet(g, 1..n)
      /\ SumFunction(h) = SumFunctionOnSet(h, 1..m)
    BY <1>1, TakenIsSum
<1>3. \A i \in 1..m + n : f[i] \in Int
    BY <1>1, TakingsType
<1>4. \A i \in 1..n : g[i] = f[m + i]
    <2>1. DOMAIN u = 1..m + n /\ DOMAIN t = 1..n
        BY <1>1
    <2> HIDE DEF u, m, n
    <2> QED
        BY <1>1, <2>1 DEF Takings
<1>5. \A i \in 1..m : f[i] = h[i]
    <2>1. DOMAIN u = 1..m + n /\ DOMAIN s = 1..m /\ \A i \in 1..m : i \in 1..m + n
        BY <1>1
    <2> HIDE DEF u, m, n
    <2> QED
        BY <1>1, <2>1 DEF Takings
<1>9. m \in Nat /\ n \in Nat
    BY <1>1
<1> HIDE DEF u, m, n, f, g, h
<1>6. SumFunctionOnSet(f, 1..m + n) = SumFunctionOnSet(f, 1..m) + SumFunctionOnSet(g, 1..n)
    BY <1>9, <1>3, <1>4, SumConcat, SMTT(40)
<1>7. IsFiniteSet(1..m)
    BY <1>1, FS_Interval
<1>8. SumFunctionOnSet(f, 1..m) = SumFunctionOnSet(h, 1..m)
    BY <1>5, <1>7, SumSame
<1> QED
    BY <1>2, <1>6, <1>8 DEF f, g, h, u

\* One movement more takes what it says, if it is in the order's name.
LEMMA TakingsAppend ==
    ASSUME NEW rows \in Seq(Movement), NEW m \in Movement, NEW o
    PROVE  SumFunction(Takings(Append(rows, m), o))
             = SumFunction(Takings(rows, o)) + (IF m.reference = o THEN -m.qty_delta ELSE 0)
<1> DEFINE t == <<m>>
           f == Takings(t, o)
<1>1. t \in Seq(Movement) /\ Append(rows, m) = rows \o t
    OBVIOUS
<1>2. SumFunction(Takings(rows \o t, o)) = SumFunction(Takings(rows, o)) + SumFunction(f)
    <2> HIDE DEF t
    <2> QED
        BY <1>1, TakingsConcat
<1>3. DOMAIN f = 1..0 + 1 /\ f[1] = IF m.reference = o THEN -m.qty_delta ELSE 0
    BY DEF Takings
<1>4. f[1] \in Int /\ 0 \in Nat /\ \A i \in 1..0 + 1 : f[i] \in Int
    BY <1>3 DEF Movement
<1>5. SumFunction(f) = SumFunctionOnSet(f, 1..0 + 1)
    BY <1>3 DEF SumFunction
<1> HIDE DEF t, f
<1>6. SumFunctionOnSet(f, 1..0 + 1) = SumFunctionOnSet(f, 1..0) + f[0 + 1]
    BY <1>4, SumNext
<1>7. SumFunctionOnSet(f, 1..0) = 0
    BY SumEmpty
<1> QED
    BY <1>1, <1>2, <1>3, <1>4, <1>5, <1>6, <1>7

\* A run in another order's name took nothing in this one's.
LEMMA TakingsOfOthers ==
    ASSUME NEW rows \in Seq(Movement), NEW o, \A i \in DOMAIN rows : rows[i].reference # o
    PROVE  SumFunction(Takings(rows, o)) = 0
<1>1. \A i \in DOMAIN rows : Takings(rows, o)[i] = 0
    BY DEF Takings
<1>2. IsFiniteSet(DOMAIN rows) /\ DOMAIN Takings(rows, o) = DOMAIN rows
    <2>1. DOMAIN rows = 1..Len(rows) /\ Len(rows) \in Nat
        OBVIOUS
    <2> QED
        BY <2>1, FS_Interval DEF Takings
<1> QED
    BY <1>1, <1>2, SumZero DEF SumFunction

\* A balanced run ends at where it started and what its movements add.
LEMMA BalancedSum ==
    ASSUME NEW rows \in Seq(Movement), NEW qty \in Nat, Balanced(rows, qty)
    PROVE  /\ QtyAfter(rows, qty) = qty + SumFunction([i \in DOMAIN rows |-> rows[i].qty_delta])
           /\ SumFunction([i \in DOMAIN rows |-> rows[i].qty_delta]) \in Int
<1> DEFINE f == [i \in DOMAIN rows |-> rows[i].qty_delta]
           After(n) == IF n = 0 THEN qty ELSE rows[n].qty_after
           Good == {n \in Nat : n <= Len(rows) => After(n) = qty + SumFunctionOnSet(f, 1..n)}
<1>1. /\ Len(rows) \in Nat /\ DOMAIN rows = 1..Len(rows)
      /\ \A i \in 1..Len(rows) : rows[i] \in Movement
    OBVIOUS
<1>2. \A i \in 1..Len(rows) : f[i] = rows[i].qty_delta /\ f[i] \in Int /\ rows[i].qty_after \in Nat
    BY <1>1 DEF Movement
<1>3. 0 \in Good
    <2>1. SumFunctionOnSet(f, 1..0) = 0
        BY SumEmpty
    <2> HIDE DEF f
    <2> QED
        BY <2>1
<1>4. ASSUME NEW n \in Nat, n \in Good PROVE n + 1 \in Good
    <2> SUFFICES ASSUME n + 1 <= Len(rows)
                 PROVE  After(n + 1) = qty + SumFunctionOnSet(f, 1..n + 1)
        OBVIOUS
    <2>1. n + 1 \in 1..Len(rows) /\ (n # 0 => n \in 1..Len(rows)) /\ \A i \in 1..n + 1 : i \in 1..Len(rows)
        BY <1>1
    <2>2. rows[n + 1].qty_after = After(n) + f[n + 1]
        BY <1>2, <2>1 DEF Balanced
    <2>3. After(n) = qty + SumFunctionOnSet(f, 1..n)
        BY <1>1, <1>4
    <2>4. SumFunctionOnSet(f, 1..n + 1) = SumFunctionOnSet(f, 1..n) + f[n + 1]
        <3>1. \A i \in 1..n + 1 : f[i] \in Int
            BY <1>2, <2>1
        <3> HIDE DEF f
        <3> QED
            BY <3>1, SumNext
    <2>5. SumFunctionOnSet(f, 1..n) \in Int /\ f[n + 1] \in Int
        <3>0. 1 \in Int /\ n \in Int /\ \A i \in 1..n : i \in 1..n + 1
            OBVIOUS
        <3>1. IsFiniteSet(1..n) /\ \A i \in 1..n : f[i] \in Int
            BY <1>2, <2>1, <3>0, FS_Interval
        <3>2. f[n + 1] \in Int
            BY <1>2, <2>1
        <3> HIDE DEF f
        <3> QED
            BY <3>1, <3>2, SumInt
    <2> HIDE DEF f
    <2> QED
        BY <2>2, <2>3, <2>4, <2>5
<1>5. Len(rows) \in Good
    <2> HIDE DEF Good
    <2> QED
        BY <1>1, <1>3, <1>4, NumberInduction
<1>6. QtyAfter(rows, qty) = After(Len(rows))
    <2>1. rows = <<>> <=> Len(rows) = 0
        OBVIOUS
    <2> QED
        BY <2>1 DEF QtyAfter
<1>7. SumFunction(f) = SumFunctionOnSet(f, 1..Len(rows))
    BY <1>1 DEF SumFunction
<1>8. SumFunctionOnSet(f, 1..Len(rows)) \in Int
    <2>1. IsFiniteSet(1..Len(rows))
        BY <1>1, FS_Interval
    <2> HIDE DEF f
    <2> QED
        BY <1>2, <2>1, SumInt
<1> QED
    BY <1>1, <1>5, <1>6, <1>7, <1>8

\* The lines of a cart are numbers, and its sums are over all of them.
LEMMA CartTerms ==
    ASSUME NEW o \in Orders, NEW p
    PROVE  /\ Len(Cart[o]) \in Nat /\ DOMAIN Cart[o] = 1..Len(Cart[o])
           /\ \A i \in 1..Len(Cart[o]) : LineUnits(o, p)[i] \in Nat /\ LineCosts(o)[i] \in Nat
           /\ UnitsOf(o, p) = SumFunctionOnSet(LineUnits(o, p), 1..Len(Cart[o]))
           /\ CostOf(o) = SumFunctionOnSet(LineCosts(o), 1..Len(Cart[o]))
<1>1. Cart[o] \in Seq(Line)
    BY OrdersAssumption
<1>2. Len(Cart[o]) \in Nat /\ DOMAIN Cart[o] = 1..Len(Cart[o])
    BY <1>1
<1>3. \A i \in 1..Len(Cart[o]) : Cart[o][i].quantity \in Nat /\ Cart[o][i].unit_cost \in Nat
    <2>1. \A i \in 1..Len(Cart[o]) : Cart[o][i] \in Line
        BY <1>1
    <2> QED
        BY <2>1 DEF Line
<1>4. ASSUME NEW i \in 1..Len(Cart[o])
      PROVE  LineUnits(o, p)[i] \in Nat /\ LineCosts(o)[i] \in Nat
    <2>1. LineUnits(o, p)[i] \in {Cart[o][i].quantity, 0}
        BY <1>2 DEF LineUnits
    <2>2. LineCosts(o)[i] = Cart[o][i].quantity * Cart[o][i].unit_cost
        BY <1>2 DEF LineCosts
    <2> QED
        BY <1>3, <2>1, <2>2
<1> QED
    BY <1>2, <1>4 DEF UnitsOf, CostOf, LineUnits, LineCosts, SumFunction

\* One line more of a cart adds its units and its cost.
LEMMA CartNext ==
    ASSUME NEW o \in Orders, NEW p, NEW i \in 1..Len(Cart[o])
    PROVE  /\ SumFunctionOnSet(LineUnits(o, p), 1..i)
                = SumFunctionOnSet(LineUnits(o, p), 1..i - 1) + LineUnits(o, p)[i]
           /\ SumFunctionOnSet(LineCosts(o), 1..i)
                = SumFunctionOnSet(LineCosts(o), 1..i - 1) + LineCosts(o)[i]
<1> DEFINE n == i - 1
           f == LineUnits(o, p)
           g == LineCosts(o)
<1>1. n \in Nat /\ i = n + 1 /\ \A k \in 1..n + 1 : k \in 1..Len(Cart[o])
    BY CartTerms
<1>2. \A k \in 1..n + 1 : f[k] \in Int /\ g[k] \in Int
    BY <1>1, CartTerms
<1> HIDE DEF n, f, g
<1>3. SumFunctionOnSet(f, 1..n + 1) = SumFunctionOnSet(f, 1..n) + f[n + 1]
    BY <1>1, <1>2, SumNext
<1>4. SumFunctionOnSet(g, 1..n + 1) = SumFunctionOnSet(g, 1..n) + g[n + 1]
    BY <1>1, <1>2, SumNext
<1> QED
    BY <1>1, <1>3, <1>4 DEF n, f, g

LEMMA CartNumbers ==
    ASSUME NEW o \in Orders, NEW p, NEW n \in 0..Len(Cart[o])
    PROVE  /\ SumFunctionOnSet(LineUnits(o, p), 1..n) \in Nat
           /\ SumFunctionOnSet(LineCosts(o), 1..n) \in Nat
<1> DEFINE f == LineUnits(o, p)
           g == LineCosts(o)
           S == 1..n
<1>1. \A i \in S : f[i] \in Nat /\ g[i] \in Nat
    BY CartTerms
<1>2. IsFiniteSet(S)
    BY CartTerms, FS_Interval
<1> HIDE DEF f, g, S
<1>3. SumFunctionOnSet(f, S) \in Nat /\ SumFunctionOnSet(g, S) \in Nat
    BY <1>1, <1>2, SumNat
<1> QED
    BY <1>3 DEF f, g, S

-------------------------------------------------------------------------------
(* The invariant *)

\* What the open transaction of w took of p.
UnitsPending(w, p) == SumFunction(Takings(pending[w][p], job[w]))

\* At a line of the cart the handler has moved and booked the lines before it.
Progress(w) ==
    /\ line[w] \in 1..Len(Cart[job[w]]) + 1
    /\ \A p \in Products :
           UnitsPending(w, p) = SumFunctionOnSet(LineUnits(job[w], p), 1..line[w] - 1)
    /\ total_cogs[w] = SumFunctionOnSet(LineCosts(job[w]), 1..line[w] - 1)

HandlerInv ==
    \A w \in Workers :
        /\ pc[w] = "lines" => Progress(w)
        /\ pc[w] # "lines" => total_cogs[w] = 0

\* A transaction moves stock in the name of its own order only.
ReferenceInv ==
    \A w \in Workers, p \in Products : \A i \in DOMAIN pending[w][p] :
        pending[w][p][i].reference = job[w]

FiniteInv == \A o \in Orders : IsFiniteSet(SalesOf(o))

BooksInv ==
    /\ HandlerInv
    /\ ReferenceInv
    /\ FiniteInv
    /\ SalesAccountForStock

\* Before its first line a handler has moved and booked nothing.
LEMMA ProgressBegins ==
    ASSUME NEW w \in Workers, job[w] \in Orders, line[w] = 1, total_cogs[w] = 0,
           \A p \in Products : pending[w][p] = <<>>
    PROVE  Progress(w)
<1>1. line[w] \in 1..Len(Cart[job[w]]) + 1 /\ 1..line[w] - 1 = {}
    BY CartTerms
<1> QED
    BY <1>1, NothingTaken, SumEmpty DEF Progress, UnitsPending

LEMMA InitBooks == Init => BooksInv
<1> SUFFICES ASSUME Init PROVE BooksInv
    OBVIOUS
<1>1. HandlerInv /\ ReferenceInv
    BY DEF Init, HandlerInv, ReferenceInv, NoMovements
<1>2. \A o \in Orders : SalesOf(o) = {}
    BY DEF Init, SalesOf, HasSale
<1>3. ASSUME NEW o \in Orders, NEW p \in Products PROVE UnitsMoved(o, p) = 0
    <2>1. movements[p] = InitialMovements(p) /\ movements[p] \in Seq(Movement)
        BY InitTypeOK DEF Init, TypeOK
    <2>2. \A i \in DOMAIN movements[p] : movements[p][i].reference # o
        BY <2>1, NoneAssumption DEF InitialMovements
    <2> QED
        BY <2>1, <2>2, TakingsOfOthers DEF UnitsMoved
<1>4. SalesAccountForStock
    <2>1. ASSUME NEW o \in Orders, NEW p \in Products
          PROVE  Cardinality(SalesOf(o)) * UnitsOf(o, p) = 0
        <3>1. UnitsOf(o, p) \in Nat
            BY CartTerms, CartNumbers
        <3>2. Cardinality(SalesOf(o)) = 0
            BY <1>2, FS_EmptySet
        <3> QED
            BY <3>1, <3>2
    <2> QED
        BY <1>2, <1>3, <2>1 DEF SalesAccountForStock
<1> QED
    BY <1>1, <1>2, <1>4, FS_EmptySet DEF BooksInv, FiniteInv

-------------------------------------------------------------------------------
(* What the steps of a request do to it *)

\* Books nobody writes stay right.
LEMMA BooksUnwritten ==
    ASSUME BooksInv, UNCHANGED <<sale, ledger, movements>>
    PROVE  FiniteInv' /\ SalesAccountForStock'
<1>1. \A o : SalesOf(o)' = SalesOf(o)
    BY DEF SalesOf, HasSale
<1>2. \A o, p : UnitsMoved(o, p)' = UnitsMoved(o, p)
    BY DEF UnitsMoved
<1> QED
    BY <1>1, <1>2 DEF BooksInv, FiniteInv, SalesAccountForStock

\* The request variables of the other workers are not w's to write.
OthersWait(w) ==
    \A v \in Workers \ {w} :
        /\ pc'[v] = pc[v] /\ job'[v] = job[v] /\ line'[v] = line[v]
        /\ pending'[v] = pending[v] /\ total_cogs'[v] = total_cogs[v]

LEMMA OthersProgress ==
    ASSUME BooksInv, NEW w \in Workers, OthersWait(w), NEW v \in Workers \ {w}
    PROVE  /\ pc'[v] = "lines" => Progress(v)'
           /\ pc'[v] # "lines" => total_cogs'[v] = 0
           /\ \A p \in Products : \A i \in DOMAIN pending'[v][p] :
                  pending'[v][p][i].reference = job'[v]
<1>1. /\ pc'[v] = pc[v] /\ job'[v] = job[v] /\ line'[v] = line[v]
      /\ pending'[v] = pending[v] /\ total_cogs'[v] = total_cogs[v]
    BY DEF OthersWait
<1>2. Progress(v)' <=> Progress(v)
    BY <1>1 DEF Progress, UnitsPending
<1> QED
    BY <1>1, <1>2 DEF BooksInv, HandlerInv, ReferenceInv

\* A request that has moved nothing, before its first line or outside the handler.
LEMMA EmptyHanded ==
    ASSUME BooksInv, TypeInv', NEW w \in Workers, OthersWait(w),
           total_cogs'[w] = 0, \A p \in Products : pending'[w][p] = <<>>,
           pc'[w] = "lines" => line'[w] = 1
    PROVE  HandlerInv' /\ ReferenceInv'
<1>1. pc'[w] = "lines" => Progress(w)'
    <2> SUFFICES ASSUME pc'[w] = "lines" PROVE Progress(w)'
        OBVIOUS
    <2>1. job'[w] \in Orders
        BY DEF TypeInv, RequestOK
    <2>2. line'[w] \in 1..Len(Cart[job'[w]]) + 1 /\ 1..line'[w] - 1 = {}
        BY <2>1, CartTerms
    <2> QED
        BY <2>2, NothingTaken, SumEmpty DEF Progress, UnitsPending
<1> QED
    BY <1>1, OthersProgress DEF HandlerInv, ReferenceInv

\* The end of a request.
LEMMA FinishBooks ==
    ASSUME IInv, TypeInv', BooksInv, NEW w \in Workers, Finish(w)
    PROVE  HandlerInv' /\ ReferenceInv'
<1>1. /\ OthersWait(w) /\ pc'[w] = "idle" /\ total_cogs'[w] = 0
      /\ \A p \in Products : pending'[w][p] = <<>>
    BY DEF Finish, Goto, NoMovements, OthersWait, IInv, TypeInv, TypeOK
<1> QED
    BY <1>1, EmptyHanded

\* A step of a request that is not in the handler, into the handler or not.
LEMMA OutsideBooks ==
    ASSUME IInv, StockInv, TypeInv', BooksInv, NEW w \in Workers, pc[w] # "lines",
           OthersWait(w), UNCHANGED <<pending, total_cogs, sale, ledger, movements>>,
           pc'[w] = "lines" => line'[w] = 1
    PROVE  BooksInv'
<1>1. /\ total_cogs'[w] = 0
      /\ \A p \in Products : pending'[w][p] = <<>>
    BY DEF BooksInv, HandlerInv, StockInv, ShelfLockInv
<1> QED
    BY <1>1, EmptyHanded, BooksUnwritten DEF BooksInv

LEMMA TakeLineBooks ==
    ASSUME IInv, TypeInv', BooksInv, NEW w \in Workers, TakeLine(w)
    PROVE  BooksInv'
<1> DEFINE o == job[w]
           i == line[w]
           l == LineOf(w)
           m == MovementOf(SeenStock(w, l.product), -l.quantity, o)
<1>1. /\ AtLine(w) /\ Covers(w)
      /\ pending' = [pending EXCEPT ![w][l.product] = Append(@, m)]
      /\ total_cogs' = [total_cogs EXCEPT ![w] = @ + l.quantity * l.unit_cost]
      /\ line' = [line EXCEPT ![w] = @ + 1]
      /\ UNCHANGED <<pc, job, sale, ledger, movements>>
    BY DEF TakeLine, tables
<1>2. /\ l \in Line /\ m \in Movement /\ o \in Orders
      /\ i \in 1..Len(Cart[o]) /\ l = Cart[o][i] /\ DOMAIN Cart[o] = 1..Len(Cart[o])
      /\ Len(Cart[o]) \in Nat
    <2>1. o \in Orders
        BY <1>1 DEF AtLine, IInv, TypeInv, RequestOK
    <2> QED
        BY <1>1, <2>1, LineOfType, TakenMovementType, CartTerms DEF AtLine, LineOf, IInv
<1>3. m.reference = o /\ -m.qty_delta = l.quantity
    <2>1. l.quantity \in Nat
        BY <1>2 DEF Line
    <2> HIDE DEF l
    <2> QED
        BY <2>1 DEF MovementOf
<1>4. pc[w] = "lines" /\ Progress(w)
    BY <1>1 DEF AtLine, BooksInv, HandlerInv
<1> HIDE DEF l, m
<1>5. l.product \in Products /\ l.quantity \in Nat /\ l.unit_cost \in Nat
    BY <1>2 DEF Line
<1>6. /\ pending'[w][l.product] = Append(pending[w][l.product], m)
      /\ \A p \in Products \ {l.product} : pending'[w][p] = pending[w][p]
      /\ \A v \in Workers \ {w} : pending'[v] = pending[v]
    BY <1>1, <1>5 DEF IInv, TypeInv, TypeOK
<1>7. /\ total_cogs'[w] = total_cogs[w] + l.quantity * l.unit_cost
      /\ line'[w] = i + 1 /\ job'[w] = o
      /\ OthersWait(w)
    BY <1>1, <1>6 DEF OthersWait, IInv, TypeInv, TypeOK
<1> HIDE DEF o, i
<1>8. \A p \in Products : pending[w][p] \in Seq(Movement)
    BY DEF IInv, TypeInv, TypeOK
<1>9. i - 1 \in 0..Len(Cart[o]) /\ (i + 1) - 1 = i /\ i + 1 \in 1..Len(Cart[o]) + 1
    BY <1>2
<1>10. ASSUME NEW p \in Products
       PROVE  UnitsPending(w, p)' = SumFunctionOnSet(LineUnits(o, p), 1..i)
    <2>1. UnitsPending(w, p) = SumFunctionOnSet(LineUnits(o, p), 1..i - 1)
        BY <1>4 DEF Progress, o, i
    <2>2. UnitsPending(w, p)' = SumFunction(Takings(pending'[w][p], o))
        BY <1>7 DEF UnitsPending
    <2>3. UnitsPending(w, p) = SumFunction(Takings(pending[w][p], o))
        BY DEF UnitsPending, o
    <2>4. LineUnits(o, p)[i] = IF l.product = p THEN l.quantity ELSE 0
        BY <1>2 DEF LineUnits
    <2>5. SumFunctionOnSet(LineUnits(o, p), 1..i)
            = SumFunctionOnSet(LineUnits(o, p), 1..i - 1) + LineUnits(o, p)[i]
        BY <1>2, CartNext
    <2>6. SumFunctionOnSet(LineUnits(o, p), 1..i - 1) \in Nat
        BY <1>2, <1>9, CartNumbers
    <2>7. CASE p = l.product
        <3>1. SumFunction(Takings(Append(pending[w][p], m), o))
                = SumFunction(Takings(pending[w][p], o)) + l.quantity
            BY <1>2, <1>3, <1>8, TakingsAppend
        <3> QED
            BY <1>6, <2>1, <2>2, <2>3, <2>4, <2>5, <2>7, <3>1
    <2>8. CASE p # l.product
        BY <1>6, <2>1, <2>2, <2>3, <2>4, <2>5, <2>6, <2>8
    <2> QED
        BY <2>7, <2>8
<1>11. total_cogs'[w] = SumFunctionOnSet(LineCosts(o), 1..i)
    <2>1. total_cogs[w] = SumFunctionOnSet(LineCosts(o), 1..i - 1)
        BY <1>4 DEF Progress, o, i
    <2>2. LineCosts(o)[i] = l.quantity * l.unit_cost
        BY <1>2 DEF LineCosts
    <2>3. SumFunctionOnSet(LineCosts(o), 1..i)
            = SumFunctionOnSet(LineCosts(o), 1..i - 1) + LineCosts(o)[i]
        BY <1>2, CartNext
    <2> QED
        BY <1>7, <2>1, <2>2, <2>3
<1>12. Progress(w)'
    <2>1. line'[w] \in 1..Len(Cart[job'[w]]) + 1 /\ line'[w] - 1 = i
        BY <1>7, <1>9
    <2> QED
        BY <1>7, <1>10, <1>11, <2>1 DEF Progress
<1>13. ASSUME NEW p \in Products, NEW k \in DOMAIN pending'[w][p]
       PROVE  pending'[w][p][k].reference = job'[w]
    <2>1. \A j \in DOMAIN pending[w][p] : pending[w][p][j].reference = o
        BY DEF BooksInv, ReferenceInv, o
    <2>2. CASE p = l.product
        <3>1. \/ pending'[w][p][k] = m
              \/ k \in DOMAIN pending[w][p] /\ pending'[w][p][k] = pending[w][p][k]
            <4> DEFINE rows == pending[w][p]
            <4>1. rows \in Seq(Movement) /\ pending'[w][p] = Append(rows, m)
                BY <1>6, <1>8, <2>2
            <4> HIDE DEF rows
            <4>2. \A j \in DOMAIN Append(rows, m) :
                     Append(rows, m)[j] = m \/ (j \in DOMAIN rows /\ Append(rows, m)[j] = rows[j])
                BY <1>2, <4>1
            <4> QED
                BY <1>13, <4>1, <4>2 DEF rows
        <3> QED
            BY <1>3, <1>7, <2>1, <3>1
    <2>3. CASE p # l.product
        BY <1>6, <1>7, <1>13, <2>1, <2>3
    <2> QED
        BY <2>2, <2>3
<1>14. HandlerInv'
    BY <1>1, <1>4, <1>7, <1>12, OthersProgress DEF HandlerInv
<1>15. ReferenceInv'
    BY <1>7, <1>13, OthersProgress DEF ReferenceInv
<1> QED
    BY <1>1, <1>14, <1>15, BooksUnwritten DEF BooksInv

\* A handler at the end of the cart has moved and booked the whole of it.
LEMMA SaleIsWhole ==
    ASSUME IInv, BooksInv, NEW w \in Workers, SaleReady(w)
    PROVE  /\ \A p \in Products : UnitsPending(w, p) = UnitsOf(job[w], p)
           /\ total_cogs[w] = CostOf(job[w])
<1>1. job[w] \in Orders /\ Progress(w)
    BY DEF SaleReady, BooksInv, HandlerInv, IInv, TypeInv, RequestOK
<1>2. DOMAIN Cart[job[w]] = 1..Len(Cart[job[w]]) /\ Len(Cart[job[w]]) \in Nat
    BY <1>1, CartTerms
<1>3. line[w] - 1 = Len(Cart[job[w]])
    BY <1>1, <1>2 DEF SaleReady, Progress
<1> QED
    BY <1>1, <1>3, CartTerms DEF Progress

LEMMA PublishBooks ==
    ASSUME IInv, TypeInv', BooksInv, NEW w \in Workers, SaleReady(w), PublishSale(w), Finish(w)
    PROVE  BooksInv'
<1> DEFINE o == job[w]
           e == event[w]
<1>1. /\ o \in Orders /\ e \in Events /\ sale[e] = None
      /\ ledger[e] = [REVENUE |-> 0, COGS |-> 0]
    BY AtCommit DEF SaleReady
<1>2. /\ sale'[e] # None /\ sale'[e].order = o
      /\ \A f \in Events \ {e} : sale'[f] = sale[f] /\ ledger'[f] = ledger[f]
    <2>1. sale'[e] = [order |-> o, total_amount |-> Total[o]] /\ sale'[e] # None
        BY SalePublished DEF SaleReady
    <2> QED
        BY <2>1, SalePublished DEF SaleReady
<1>3. ledger'[e].COGS = total_cogs[w]
    <2>1. ledger' = [ledger EXCEPT ![e] = [REVENUE |-> ledger[e].REVENUE + Total[o],
                                           COGS |-> ledger[e].COGS + total_cogs[w]]]
        BY DEF PublishSale
    <2>2. ledger'[e].COGS = ledger[e].COGS + total_cogs[w]
        BY <1>1, <2>1 DEF IInv, TypeInv, TypeOK
    <2>3. ledger[e].COGS = 0 /\ total_cogs[w] \in Nat
        BY <1>1 DEF IInv, TypeInv, TypeOK
    <2> QED
        BY <2>2, <2>3
<1>4. /\ \A p \in Products : UnitsPending(w, p) = UnitsOf(o, p)
      /\ total_cogs[w] = CostOf(o)
    BY SaleIsWhole
<1>5. ASSUME NEW p \in Products, NEW q \in Orders
      PROVE  UnitsMoved(q, p)' = UnitsMoved(q, p) + (IF q = o THEN UnitsOf(o, p) ELSE 0)
    <2> DEFINE s == movements[p]
               t == pending[w][p]
    <2>1. s \in Seq(Movement) /\ t \in Seq(Movement) /\ movements'[p] = s \o t
        <3>1. movements'[p] = s \o t
            BY DEF PublishSale
        <3>2. s \in Seq(Movement) /\ t \in Seq(Movement)
            BY DEF IInv, TypeInv, TypeOK
        <3> QED
            BY <3>1, <3>2
    <2>2. \A i \in DOMAIN t : t[i].reference = o
        BY DEF BooksInv, ReferenceInv
    <2>3. /\ UnitsMoved(q, p)' = SumFunction(Takings(movements'[p], q))
          /\ UnitsMoved(q, p) = SumFunction(Takings(s, q))
          /\ UnitsPending(w, p) = SumFunction(Takings(t, o))
        BY DEF UnitsMoved, UnitsPending
    <2> HIDE DEF s, t
    <2>4. SumFunction(Takings(s \o t, q)) = SumFunction(Takings(s, q)) + SumFunction(Takings(t, q))
        BY <2>1, TakingsConcat
    <2>5. q # o => SumFunction(Takings(t, q)) = 0
        BY <2>1, <2>2, TakingsOfOthers
    <2>6. q = o => SumFunction(Takings(t, q)) = UnitsOf(o, p)
        BY <1>4, <2>3
    <2> QED
        BY <2>1, <2>3, <2>4, <2>5, <2>6
<1>6. \A q \in Orders : SalesOf(q)' = IF q = o THEN SalesOf(q) \cup {e} ELSE SalesOf(q)
    BY <1>1, <1>2 DEF SalesOf, HasSale
<1>7. e \notin SalesOf(o) /\ \A q \in Orders : IsFiniteSet(SalesOf(q))
    BY <1>1 DEF SalesOf, HasSale, BooksInv, FiniteInv
<1>8. FiniteInv'
    BY <1>6, <1>7, FS_AddElement DEF FiniteInv
<1>9. /\ Cardinality(SalesOf(o) \cup {e}) = Cardinality(SalesOf(o)) + 1
      /\ Cardinality(SalesOf(o)) \in Nat
    BY <1>1, <1>7, FS_AddElement, FS_CardinalityType
<1> HIDE DEF o, e
<1>10. SalesAccountForStock'
    <2> SUFFICES ASSUME NEW q \in Orders
                 PROVE  /\ \A p \in Products :
                              UnitsMoved(q, p)' = Cardinality(SalesOf(q)') * UnitsOf(q, p)
                        /\ \A f \in SalesOf(q)' : ledger'[f].COGS = CostOf(q)
        BY DEF SalesAccountForStock
    <2>1. /\ \A p \in Products : UnitsMoved(q, p) = Cardinality(SalesOf(q)) * UnitsOf(q, p)
          /\ \A f \in SalesOf(q) : ledger[f].COGS = CostOf(q)
        BY DEF BooksInv, SalesAccountForStock
    <2>2. ASSUME NEW p \in Products
          PROVE  UnitsMoved(q, p)' = Cardinality(SalesOf(q)') * UnitsOf(q, p)
        <3>1. CASE q = o
            <4> DEFINE n == Cardinality(SalesOf(o))
                       u == UnitsOf(o, p)
            <4>1. u \in Nat
                BY <1>1, CartTerms, CartNumbers
            <4>2. /\ UnitsMoved(q, p)' = n * u + u
                  /\ Cardinality(SalesOf(q)') = n + 1
                  /\ n \in Nat
                BY <1>5, <1>6, <1>9, <2>1, <3>1
            <4>3. UnitsOf(q, p) = u
                BY <3>1
            <4> HIDE DEF n, u
            <4>4. n * u + u = (n + 1) * u
                BY <4>1, <4>2
            <4> QED
                BY <4>2, <4>3, <4>4
        <3>2. CASE q # o
            <4>1. Cardinality(SalesOf(q)) * UnitsOf(q, p) \in Int
                <5>1. UnitsOf(q, p) \in Nat /\ Cardinality(SalesOf(q)) \in Nat
                    BY <1>7, CartTerms, CartNumbers, FS_CardinalityType
                <5> QED
                    BY <5>1
            <4> QED
                BY <1>5, <1>6, <2>1, <3>2, <4>1
        <3> QED
            BY <3>1, <3>2
    <2>3. ASSUME NEW f \in SalesOf(q)'
          PROVE  ledger'[f].COGS = CostOf(q)
        <3>1. CASE f = e
            <4>1. q = o
                BY <1>2, <2>3, <3>1 DEF SalesOf, HasSale
            <4> QED
                BY <1>3, <1>4, <3>1, <4>1
        <3>2. CASE f # e
            <4>1. f \in Events /\ f \in SalesOf(q)
                BY <1>6, <2>3, <3>2 DEF SalesOf
            <4> QED
                BY <1>2, <2>1, <3>2, <4>1
        <3> QED
            BY <3>1, <3>2
    <2> QED
        BY <2>2, <2>3
<1> QED
    BY <1>8, <1>10, FinishBooks DEF BooksInv

\* A movement by hand is in no order's name.
LEMMA StockMutationBooks ==
    ASSUME IInv, BooksInv, NEW p \in Products, StockMutation(p)
    PROVE  BooksInv'
<1>1. PICK delta \in StockChanges :
         /\ stock_qty[p] + delta >= 0
         /\ movements' = [movements EXCEPT ![p] = Append(@, MovementOf(stock_qty[p], delta, None))]
    BY DEF StockMutation
<1> DEFINE m == MovementOf(stock_qty[p], delta, None)
<1>2. m \in Movement /\ m.reference = None
    BY <1>1, StockAssumption DEF MovementOf, Movement, IInv, TypeInv, TypeOK
<1>3. UNCHANGED <<sale, ledger, pc, job, line, pending, total_cogs>>
    BY DEF StockMutation, request
<1>4. /\ movements'[p] = Append(movements[p], m)
      /\ \A q \in Products \ {p} : movements'[q] = movements[q]
      /\ \A q \in Products : movements[q] \in Seq(Movement)
    BY <1>1 DEF IInv, TypeInv, TypeOK
<1> HIDE DEF m
<1>5. ASSUME NEW o \in Orders, NEW q \in Products
      PROVE  UnitsMoved(o, q)' = UnitsMoved(o, q)
    <2>1. CASE q = p
        <3>1. m.reference # o
            BY <1>2, NoneAssumption
        <3>2. SumFunction(Takings(Append(movements[p], m), o)) = SumFunction(Takings(movements[p], o)) + 0
            BY <1>2, <1>4, <3>1, TakingsAppend
        <3>3. SumFunction(Takings(movements[p], o)) \in Int
            BY <1>4, TakenIsSum
        <3>4. /\ UnitsMoved(o, q)' = SumFunction(Takings(Append(movements[p], m), o))
              /\ UnitsMoved(o, q) = SumFunction(Takings(movements[p], o))
            BY <1>4, <2>1 DEF UnitsMoved
        <3> QED
            BY <3>2, <3>3, <3>4
    <2>2. CASE q # p
        BY <1>4, <2>2 DEF UnitsMoved
    <2> QED
        BY <2>1, <2>2
<1>6. \A o : SalesOf(o)' = SalesOf(o)
    BY <1>3 DEF SalesOf, HasSale
<1>7. FiniteInv' /\ SalesAccountForStock'
    BY <1>3, <1>5, <1>6 DEF BooksInv, FiniteInv, SalesAccountForStock
<1>8. HandlerInv' /\ ReferenceInv'
    BY <1>3 DEF BooksInv, HandlerInv, Progress, UnitsPending, ReferenceInv
<1> QED
    BY <1>7, <1>8 DEF BooksInv

LEMMA NextBooks == IInv /\ StockInv /\ BooksInv /\ [Next]_vars => BooksInv'
<1> SUFFICES ASSUME IInv, StockInv, BooksInv, [Next]_vars PROVE BooksInv'
    OBVIOUS
<1>0. TypeInv'
    BY NextTypeInv DEF IInv
<1>1. CASE UNCHANGED <<request, sale, ledger, movements>>
    <2>1. HandlerInv' /\ ReferenceInv'
        BY <1>1 DEF request, BooksInv, HandlerInv, Progress, UnitsPending, ReferenceInv
    <2> QED
        BY <1>1, <2>1, BooksUnwritten DEF BooksInv
<1>2. ASSUME NEW w \in Workers, Rollback(w) PROVE BooksInv'
    BY <1>0, <1>2, FinishBooks, BooksUnwritten DEF Rollback, tables, BooksInv
<1>3. ASSUME NEW w \in Workers, Arrive(w) PROVE BooksInv'
    <2>1. PICK o \in Orders : \/ CreateInvoice(w, o)
                              \/ PollRead(w, o)
                              \/ OnrampRead(w, o)
                              \/ RailPosts(w, o)
                              \/ Webhook(w, o)
                              \/ HandEvent(w, o)
        BY <1>3 DEF Arrive
    <2>2. /\ \E step \in {"insert", "poll", "otp", "webhook", "confirm", "handed"} : Begin(w, o, step)
          /\ UNCHANGED <<sale, ledger, movements, line, pending, total_cogs>>
        BY <2>1 DEF CreateInvoice, PollRead, OnrampRead, RailPosts, Webhook, HandEvent, tables, Steps
    <2>3. pc[w] # "lines" /\ pc'[w] # "lines" /\ OthersWait(w)
        BY <2>2 DEF Begin, OthersWait, IInv, TypeInv, TypeOK
    <2> QED
        BY <1>0, <2>2, <2>3, OutsideBooks
<1>4. ASSUME NEW w \in Workers, Proceed(w) PROVE BooksInv'
    <2>1. CASE InsertPayment(w) \/ CommitWithoutSale(w)
        BY <1>0, <2>1, FinishBooks, BooksUnwritten DEF InsertPayment, CommitWithoutSale, BooksInv
    <2>2. CASE PollUndecided(w) \/ OtpRejected(w) \/ PostRefused(w)
        BY <1>2, <2>2 DEF PollUndecided, OtpRejected, PostRefused
    <2>3. CASE PollPaid(w) \/ PollExhausted(w) \/ OtpAccepted(w)
        <3>1. /\ pc[w] # "lines" /\ pc'[w] # "lines" /\ OthersWait(w)
              /\ UNCHANGED <<sale, ledger, movements, pending, total_cogs>>
            BY <2>3 DEF PollPaid, PollExhausted, OtpAccepted, Goto, tables, OthersWait,
                        IInv, TypeInv, TypeOK
        <3> QED
            BY <1>0, <3>1, OutsideBooks
    <2>4. CASE CommitConfirmation(w) \/ CommitHanded(w)
        BY <1>0, <2>4, PublishBooks DEF CommitConfirmation, CommitHanded
    <2> QED
        BY <1>4, <2>1, <2>2, <2>3, <2>4 DEF Proceed
<1>5. ASSUME NEW w \in Workers, LockPayment(w) PROVE BooksInv'
    <2>1. CASE PollSave(w)
        BY <1>0, <2>1, FinishBooks, BooksUnwritten DEF PollSave, BooksInv
    <2>2. CASE ConfirmAgain(w) \/ HandedSkip(w)
        BY <1>2, <2>2 DEF ConfirmAgain, HandedSkip
    <2>3. CASE ConfirmNew(w) \/ HandedBegin(w)
        <3>1. /\ pc[w] # "lines" /\ OthersWait(w) /\ line'[w] = 1
              /\ UNCHANGED <<sale, ledger, movements, pending, total_cogs>>
            BY <2>3 DEF ConfirmNew, HandedBegin, Goto, tables, OthersWait, IInv, TypeInv, TypeOK
        <3> QED
            BY <1>0, <3>1, OutsideBooks
    <2> QED
        BY <1>5, <2>1, <2>2, <2>3 DEF LockPayment
<1>6. ASSUME NEW w \in Workers, LockProduct(w) PROVE BooksInv'
    BY <1>0, <1>2, <1>6, TakeLineBooks DEF LockProduct, InsufficientStock, BarcodeFails
<1>7. ASSUME NEW w \in Workers, DeadlockVictim(w) \/ Crash(w) \/ AutomationBreaks(w) PROVE BooksInv'
    BY <1>2, <1>7 DEF DeadlockVictim, Crash, AutomationBreaks
<1>8. ASSUME NEW o \in Orders, RailResolves(o) PROVE BooksInv'
    BY <1>1, <1>8 DEF RailResolves, tables
<1>9. ASSUME NEW p \in Products, StockMutation(p) PROVE BooksInv'
    BY <1>9, StockMutationBooks
<1>10. CASE UNCHANGED vars
    BY <1>1, <1>10 DEF vars, tables
<1> QED
    BY <1>3, <1>4, <1>5, <1>6, <1>7, <1>8, <1>9, <1>10 DEF Next, Quiescent

LEMMA BooksInvariant == Spec => []BooksInv
BY InitBooks, NextBooks, SettlementInvariant, StockInvariant, PTL DEF Spec

\* Rules 1 and 3 of products/movements.py for every cart: what left the stock in an
\* order's name is its cart once for each of its sales, and each sale booked the cost
\* of the whole cart, wherever handlers crash, deadlock or run out of stock.
THEOREM StockLeavesWithSales == Spec => []SalesAccountForStock
<1>1. BooksInv => SalesAccountForStock
    BY DEF BooksInv
<1> QED
    BY <1>1, BooksInvariant, PTL

\* Rule 5 as a sum: the stock of a product is what its movements add up to.
THEOREM StockIsTheSum ==
    Spec => [](\A p \in Products :
        stock_qty[p] = SumFunction([i \in DOMAIN movements[p] |-> movements[p][i].qty_delta]))
<1>1. ASSUME TypeInv, StockInv, NEW p \in Products
      PROVE  stock_qty[p] = SumFunction([i \in DOMAIN movements[p] |-> movements[p][i].qty_delta])
    <2> DEFINE rows == movements[p]
               sum == SumFunction([i \in DOMAIN rows |-> rows[i].qty_delta])
    <2>1. /\ rows \in Seq(Movement) /\ Balanced(rows, 0) /\ stock_qty[p] = QtyAfter(rows, 0)
          /\ stock_qty[p] \in Nat
        BY <1>1 DEF TypeInv, TypeOK, StockInv, MovementsBalance
    <2>2. QtyAfter(rows, 0) = 0 + sum /\ sum \in Int
        <3> HIDE DEF rows
        <3> QED
            BY <2>1, BalancedSum
    <2> HIDE DEF sum
    <2>3. stock_qty[p] = sum
        BY <2>1, <2>2
    <2> QED
        BY <2>3 DEF sum
<1>2. TypeInv /\ StockInv => \A p \in Products :
        stock_qty[p] = SumFunction([i \in DOMAIN movements[p] |-> movements[p][i].qty_delta])
    BY <1>1
<1> QED
    BY <1>2, TypeInvariant, StockInvariant, PTL

-------------------------------------------------------------------------------
(* Settlement implements OrderSettlement *)

\* A request that is past its checkout is about an order that has a row.
PlacedInv ==
    \A w \in Workers : pc[w] \notin {"idle", "insert", "webhook"} => status[job[w]] # "absent"

\* The only steps that write a status, the pointer of a payment or a stock.
LEMMA WhoWritesOrders ==
    ASSUME [Next]_vars
    PROVE  \/ UNCHANGED <<status, financial_event, stock_qty>>
           \/ \E w \in Workers : \/ InsertPayment(w) \/ PollSave(w)
                                 \/ CommitConfirmation(w) \/ CommitWithoutSale(w) \/ CommitHanded(w)
           \/ \E p \in Products : StockMutation(p)
<1> DEFINE Quiet == UNCHANGED <<status, financial_event, stock_qty>>
           Writes(w) == \/ InsertPayment(w) \/ PollSave(w)
                        \/ CommitConfirmation(w) \/ CommitWithoutSale(w) \/ CommitHanded(w)
<1>1. CASE UNCHANGED vars
    BY <1>1 DEF vars, tables
<1>2. ASSUME NEW w \in Workers, Arrive(w) PROVE Quiet
    BY <1>2 DEF Arrive, CreateInvoice, PollRead, OnrampRead, RailPosts, Webhook, HandEvent, tables
<1>3. ASSUME NEW w \in Workers, Proceed(w) PROVE Quiet \/ Writes(w)
    BY <1>3 DEF Proceed, PollPaid, PollExhausted, PollUndecided, OtpAccepted, OtpRejected, PostRefused,
                Rollback, tables
<1>4. ASSUME NEW w \in Workers, LockPayment(w) PROVE Quiet \/ Writes(w)
    BY <1>4 DEF LockPayment, ConfirmAgain, ConfirmNew, HandedSkip, HandedBegin, Rollback, tables
<1>5. ASSUME NEW w \in Workers, LockProduct(w) PROVE Quiet
    BY <1>5 DEF LockProduct, TakeLine, InsufficientStock, BarcodeFails, Rollback, tables
<1>6. ASSUME NEW w \in Workers, DeadlockVictim(w) \/ Crash(w) \/ AutomationBreaks(w) PROVE Quiet
    BY <1>6 DEF DeadlockVictim, Crash, AutomationBreaks, Rollback, tables
<1>7. ASSUME NEW o \in Orders, RailResolves(o) PROVE Quiet
    BY <1>7 DEF RailResolves, tables
<1> QED
    BY <1>1, <1>2, <1>3, <1>4, <1>5, <1>6, <1>7 DEF Next, Quiescent

\* What these steps write in a status, and of which order.
LEMMA StatusWritten ==
    ASSUME TypeInv, NEW w \in Workers,
           \/ InsertPayment(w) \/ PollSave(w)
           \/ CommitConfirmation(w) \/ CommitWithoutSale(w) \/ CommitHanded(w)
    PROVE  /\ job[w] \in Orders /\ Finish(w)
           /\ \A o \in Orders : status'[o] # status[o] => o = job[w] /\ status'[o] # "absent"
<1>1. job[w] \in Orders /\ Finish(w)
    BY DEF InsertPayment, PollSave, CommitConfirmation, CommitWithoutSale, CommitHanded,
           SaleReady, TypeInv, RequestOK
<1>2. CASE CommitHanded(w)
    BY <1>1, <1>2 DEF CommitHanded
<1>3. CASE InsertPayment(w)
    BY <1>1, <1>3 DEF InsertPayment, TypeInv, TypeOK
<1>4. CASE PollSave(w)
    BY <1>1, <1>4 DEF PollSave, TypeInv, TypeOK
<1>5. CASE CommitConfirmation(w) \/ CommitWithoutSale(w)
    <2>1. status' = [status EXCEPT ![job[w]] = "PAID"]
        BY <1>5 DEF CommitConfirmation, CommitWithoutSale, PublishConfirmation
    <2> QED
        BY <1>1, <2>1 DEF TypeInv, TypeOK
<1> QED
    BY <1>2, <1>3, <1>4, <1>5

LEMMA RowsStay ==
    ASSUME TypeInv, [Next]_vars, NEW o \in Orders, status[o] # "absent"
    PROVE  status'[o] # "absent"
<1>1. \A p \in Products : StockMutation(p) => UNCHANGED status
    BY DEF StockMutation
<1> QED
    BY <1>1, WhoWritesOrders, StatusWritten

\* A step of one request leaves the others where they are.
LEMMA OthersStay ==
    ASSUME TypeInv, NEW w \in Workers, NEW v \in Workers, v # w,
           Arrive(w) \/ Proceed(w) \/ LockPayment(w) \/ LockProduct(w)
              \/ DeadlockVictim(w) \/ Crash(w) \/ AutomationBreaks(w)
    PROVE  pc'[v] = pc[v] /\ job'[v] = job[v]
<1>1. CASE Finish(w)
    BY <1>1 DEF Finish, Goto, TypeInv, TypeOK
<1>2. CASE \E o \in Orders, step \in Steps : Begin(w, o, step)
    BY <1>2 DEF Begin, TypeInv, TypeOK
<1>3. CASE UNCHANGED job /\ ((\E step \in Steps : Goto(w, step)) \/ UNCHANGED pc)
    BY <1>3 DEF Goto, TypeInv, TypeOK
<1>4. Arrive(w) => \E o \in Orders, step \in Steps : Begin(w, o, step)
    BY DEF Arrive, CreateInvoice, PollRead, OnrampRead, RailPosts, Webhook, HandEvent, Steps
<1>5. ~Arrive(w) => \/ Finish(w)
                    \/ UNCHANGED job /\ ((\E step \in Steps : Goto(w, step)) \/ UNCHANGED pc)
    BY DEF Proceed, InsertPayment, PollPaid, PollExhausted, PollUndecided, OtpAccepted,
                OtpRejected, PostRefused, CommitConfirmation, CommitWithoutSale, CommitHanded,
                LockPayment, PollSave, ConfirmAgain, ConfirmNew, HandedSkip, HandedBegin, LockProduct,
                TakeLine, InsufficientStock, BarcodeFails, DeadlockVictim, Crash, AutomationBreaks,
                Rollback, Steps
<1> QED
    BY <1>1, <1>2, <1>3, <1>4, <1>5

LEMMA NextPlaced == TypeInv /\ PlacedInv /\ [Next]_vars => PlacedInv'
<1> SUFFICES ASSUME TypeInv, PlacedInv, [Next]_vars PROVE PlacedInv'
    OBVIOUS
<1>1. ASSUME NEW v \in Workers, pc'[v] = pc[v], job'[v] = job[v],
             pc'[v] \notin {"idle", "insert", "webhook"}
      PROVE  status'[job'[v]] # "absent"
    BY <1>1, RowsStay DEF PlacedInv, TypeInv, RequestOK
<1>2. ASSUME NEW w \in Workers, NEW v \in Workers,
             Arrive(w) \/ Proceed(w) \/ LockPayment(w) \/ LockProduct(w)
                \/ DeadlockVictim(w) \/ Crash(w) \/ AutomationBreaks(w),
             v # w
      PROVE  pc'[v] = pc[v] /\ job'[v] = job[v]
    BY <1>2, OthersStay
<1>3. ASSUME NEW w \in Workers, pc'[w] \notin {"idle", "insert", "webhook"},
             Arrive(w) \/ Proceed(w) \/ LockPayment(w) \/ LockProduct(w)
                \/ DeadlockVictim(w) \/ Crash(w) \/ AutomationBreaks(w)
      PROVE  status'[job'[w]] # "absent"
    <2>1. ~Finish(w)
        BY <1>3 DEF Finish, Goto, TypeInv, TypeOK
    <2>2. CASE Arrive(w)
        <3>1. PICK o \in Orders, step \in Steps : Begin(w, o, step) /\ status[o] # "absent"
            BY <1>3, <2>2 DEF Arrive, CreateInvoice, PollRead, OnrampRead, RailPosts, Webhook, HandEvent,
                              Begin, Steps, TypeInv, TypeOK
        <3>2. job'[w] = o
            BY <3>1 DEF Begin, TypeInv, TypeOK
        <3> QED
            BY <3>1, <3>2, RowsStay
    <2>3. CASE ~Arrive(w)
        <3>1. job'[w] = job[w] /\ pc[w] \notin {"idle", "insert", "webhook"}
            BY <1>3, <2>1, <2>3
            DEF Proceed, InsertPayment, PollPaid, PollExhausted, PollUndecided, OtpAccepted,
                OtpRejected, PostRefused, CommitConfirmation, CommitWithoutSale, CommitHanded,
                LockPayment, PollSave, ConfirmAgain, ConfirmNew, HandedSkip, HandedBegin, LockProduct,
                TakeLine, InsufficientStock, BarcodeFails, AtLine, DeadlockVictim, Crash,
                AutomationBreaks, Rollback
        <3> QED
            BY <3>1, RowsStay DEF PlacedInv, TypeInv, RequestOK
    <2> QED
        BY <2>2, <2>3
<1>4. CASE UNCHANGED <<pc, job>>
    BY <1>1, <1>4 DEF PlacedInv
<1>5. ASSUME NEW w \in Workers,
             Arrive(w) \/ Proceed(w) \/ LockPayment(w) \/ LockProduct(w)
                \/ DeadlockVictim(w) \/ Crash(w) \/ AutomationBreaks(w)
      PROVE  PlacedInv'
    BY <1>1, <1>2, <1>3, <1>5 DEF PlacedInv
<1>6. (\E o \in Orders : RailResolves(o)) \/ (\E p \in Products : StockMutation(p)) \/ UNCHANGED vars
         => UNCHANGED <<pc, job>>
    BY DEF RailResolves, StockMutation, vars, request
<1> QED
    BY <1>4, <1>5, <1>6 DEF Next, Quiescent

LEMMA PlacedInvariant == Spec => []PlacedInv
<1>1. Init => PlacedInv
    BY DEF Init, PlacedInv
<1> QED
    BY <1>1, NextPlaced, TypeInvariant, PTL DEF Spec

\* Settling an order of the cart, as the stock sees it.
LEMMA StockTaken ==
    ASSUME IInv, StockInv, BooksInv, NEW w \in Workers, SaleReady(w), PublishSale(w),
           NEW p \in Products
    PROVE  /\ stock_qty'[p] = stock_qty[p] - UnitsOf(job[w], p)
           /\ stock_qty[p] >= UnitsOf(job[w], p)
<1> DEFINE o == job[w]
           rows == pending[w][p]
           f == [i \in DOMAIN rows |-> rows[i].qty_delta]
<1>1. /\ rows \in Seq(Movement) /\ stock_qty[p] \in Nat /\ Balanced(rows, stock_qty[p])
      /\ \A i \in DOMAIN rows : rows[i].reference = o
    BY DEF IInv, TypeInv, TypeOK, StockInv, NoLostUpdate, BooksInv, ReferenceInv
<1>2. stock_qty'[p] = QtyAfter(rows, stock_qty[p]) /\ stock_qty'[p] \in Nat
    BY SeenStockNat DEF PublishSale, SeenStock, IInv, TypeInv
<1>3. SumFunction(Takings(rows, o)) = UnitsOf(o, p)
    BY SaleIsWhole DEF UnitsPending
<1> HIDE DEF rows, o
<1>4. QtyAfter(rows, stock_qty[p]) = stock_qty[p] + SumFunction(f) /\ SumFunction(f) \in Int
    BY <1>1, BalancedSum
<1>5. SumFunction(Takings(rows, o)) = -SumFunction(f)
    <2> DEFINE S == DOMAIN rows
               g == Takings(rows, o)
    <2>1. S = 1..Len(rows) /\ Len(rows) \in Nat /\ \A i \in S : rows[i] \in Movement
        BY <1>1
    <2>2. IsFiniteSet(S)
        BY <2>1, FS_Interval
    <2>3. DOMAIN g = S /\ DOMAIN f = S
        BY DEF Takings
    <2>4. \A i \in S : f[i] \in Int /\ g[i] = -f[i]
        BY <1>1, <2>1 DEF Takings, Movement
    <2>5. SumFunction(g) = SumFunctionOnSet(g, S) /\ SumFunction(f) = SumFunctionOnSet(f, S)
        BY <2>3 DEF SumFunction
    <2> HIDE DEF S, f, g
    <2>6. SumFunctionOnSet(g, S) = -SumFunctionOnSet(f, S)
        BY <2>2, <2>4, SumNegated
    <2> QED
        BY <2>5, <2>6 DEF g
<1> HIDE DEF f
<1>6. stock_qty'[p] = stock_qty[p] - UnitsOf(o, p) /\ UnitsOf(o, p) \in Int
    BY <1>1, <1>2, <1>3, <1>4, <1>5
<1> QED
    BY <1>1, <1>2, <1>6 DEF o

\* The commit of a sale settles its order.
LEMMA ConfirmationSettles ==
    ASSUME IInv, StockInv, BooksInv, PlacedInv, TypeInv', NEW w \in Workers, CommitConfirmation(w)
    PROVE  Abstract!Settle(job[w])
<1> DEFINE o == job[w]
<1>1. /\ SaleReady(w) /\ PublishSale(w) /\ pc[w] = "lines"
      /\ o \in Orders /\ event[w] \in Events /\ financial_event[o] = None /\ status[o] # "absent"
      /\ financial_event' = [financial_event EXCEPT ![o] = event[w]]
      /\ status' = [status EXCEPT ![o] = "PAID"]
    BY AtCommit DEF CommitConfirmation, PublishConfirmation, SaleReady, PlacedInv
<1>2. event[w] # None
    BY <1>1, NoneAssumption
<1>3. o \in Placed \ Settled /\ Settled' = Settled \cup {o} /\ Placed' = Placed
    BY <1>1, <1>2 DEF Placed, Settled, IInv, TypeInv, TypeOK
<1>4. \A p \in Products : /\ stock_qty'[p] = stock_qty[p] - UnitsOf(o, p)
                         /\ stock_qty[p] >= UnitsOf(o, p)
    BY <1>1, StockTaken
<1>5. stock_qty' = [p \in Products |-> stock_qty[p] - UnitsOf(o, p)]
    BY <1>4 DEF TypeInv, TypeOK
<1> HIDE DEF o
<1>6. \A p \in Products :
        [q \in Orders |-> [r \in Products |-> UnitsOf(q, r)]][o][p] = UnitsOf(o, p)
    BY <1>1 DEF o
<1> QED
    BY <1>3, <1>4, <1>5, <1>6 DEF Abstract!Settle, o

\* A subscription's confirmation settles an order that takes nothing.
LEMMA ActivationSettles ==
    ASSUME IInv, PlacedInv, TypeInv', NEW w \in Workers, CommitWithoutSale(w)
    PROVE  Abstract!Settle(job[w])
<1> DEFINE o == job[w]
<1>1. /\ pc[w] = "record" /\ o \in Orders /\ event[w] \in Events
      /\ financial_event[o] = None /\ status[o] # "absent" /\ o \in SubscriptionOrders
      /\ financial_event' = [financial_event EXCEPT ![o] = event[w]]
      /\ status' = [status EXCEPT ![o] = "PAID"]
      /\ stock_qty' = stock_qty
    BY AtCommit DEF CommitWithoutSale, PublishConfirmation, PlacedInv, IInv, InFlightInv, InFlight
<1>2. event[w] # None
    BY <1>1, NoneAssumption
<1>3. o \in Placed \ Settled /\ Settled' = Settled \cup {o} /\ Placed' = Placed
    BY <1>1, <1>2 DEF Placed, Settled, IInv, TypeInv, TypeOK
<1>4. \A p : UnitsOf(o, p) = 0
    <2>1. Len(Cart[o]) = 0
        BY <1>1, OrdersAssumption
    <2>2. 1..Len(Cart[o]) = {}
        BY <2>1
    <2> QED
        BY <1>1, <2>2, CartTerms, SumEmpty
<1> HIDE DEF o
<1>5. \A p \in Products : stock_qty[p] \in Nat
    BY DEF IInv, TypeInv, TypeOK
<1>6. \A p \in Products : stock_qty[p] - UnitsOf(o, p) = stock_qty[p] /\ stock_qty[p] >= UnitsOf(o, p)
    BY <1>4, <1>5
<1>7. stock_qty' = [p \in Products |-> stock_qty[p] - UnitsOf(o, p)]
    BY <1>1, <1>6 DEF IInv, TypeInv, TypeOK
<1>8. \A p \in Products :
        [q \in Orders |-> [r \in Products |-> UnitsOf(q, r)]][o][p] = UnitsOf(o, p)
    BY <1>1
<1> QED
    BY <1>3, <1>6, <1>7, <1>8 DEF Abstract!Settle, o

LEMMA InsertPlaces ==
    ASSUME TypeInv, NEW w \in Workers, InsertPayment(w)
    PROVE  Abstract!Place(job[w])
<1>1. /\ job[w] \in Orders /\ status' = [status EXCEPT ![job[w]] = "PENDING"]
      /\ UNCHANGED <<financial_event, stock_qty>>
    BY DEF InsertPayment, TypeInv, RequestOK
<1>2. Placed' = Placed \cup {job[w]} /\ Settled' = Settled
    BY <1>1 DEF Placed, Settled, TypeInv, TypeOK
<1> QED
    BY <1>1, <1>2 DEF Abstract!Place

\* Every step is one of the abstract specification, or none of its concern.
LEMMA StepIsAbstract ==
    ASSUME HandedOrders = {}, IInv, StockInv, BooksInv, PlacedInv, [Next]_vars
    PROVE  [Abstract!Next]_(Abstract!avars)
<1>0. TypeInv /\ TypeInv'
    BY NextTypeInv DEF IInv
<1>1. CASE UNCHANGED <<status, financial_event, stock_qty>>
    <2>1. Placed' = Placed /\ Settled' = Settled
        BY <1>1 DEF Placed, Settled
    <2> QED
        BY <1>1, <2>1 DEF Abstract!avars
<1>2. ASSUME NEW w \in Workers, PollSave(w) PROVE UNCHANGED Abstract!avars
    <2>1. /\ job[w] \in Orders /\ pc[w] \in {"expire", "fail"} /\ UNCHANGED <<financial_event, stock_qty>>
          /\ \A o \in Orders : status'[o] # status[o] => o = job[w] /\ status'[o] # "absent"
        BY <1>0, <1>2, StatusWritten DEF PollSave
    <2>2. status[job[w]] # "absent"
        BY <2>1 DEF PlacedInv
    <2>3. Placed' = Placed /\ Settled' = Settled
        BY <2>1, <2>2 DEF Placed, Settled
    <2> QED
        BY <2>1, <2>3 DEF Abstract!avars
<1>3. ASSUME NEW w \in Workers, InsertPayment(w) PROVE Abstract!Next
    <2>1. job[w] \in Orders
        BY <1>0, <1>3 DEF InsertPayment, TypeInv, RequestOK
    <2> QED
        BY <1>0, <1>3, <2>1, InsertPlaces DEF Abstract!Next
<1>4. ASSUME NEW w \in Workers, CommitConfirmation(w) \/ CommitWithoutSale(w) PROVE Abstract!Next
    <2>1. job[w] \in Orders
        BY <1>0, <1>4, StatusWritten
    <2> QED
        BY <1>0, <1>4, <2>1, ConfirmationSettles, ActivationSettles DEF Abstract!Next
<1>5. ASSUME NEW w \in Workers, CommitHanded(w) PROVE FALSE
    <2>1. /\ pc[w] = "lines" /\ event[w] \in Events /\ event_row[event[w]] # None
        BY <1>0, <1>5 DEF CommitHanded, SaleReady, OwnEvent, TypeInv, RequestOK
    <2>2. event_row[event[w]].handed
        BY <2>1, NoneAssumption DEF IInv, InFlightInv, InFlight
    <2> QED
        BY <2>1, <2>2 DEF IInv, EventInv
<1>6. ASSUME NEW p \in Products, StockMutation(p) PROVE Abstract!Next
    <2>1. PICK delta \in StockChanges :
             /\ stock_qty[p] + delta >= 0
             /\ stock_qty' = [stock_qty EXCEPT ![p] = MovementOf(stock_qty[p], delta, None).qty_after]
        BY <1>6 DEF StockMutation
    <2>2. stock_qty' = [stock_qty EXCEPT ![p] = stock_qty[p] + delta]
        BY <2>1 DEF MovementOf
    <2>3. Placed' = Placed /\ Settled' = Settled
        BY <1>6 DEF StockMutation, Placed, Settled
    <2>4. Abstract!ChangeStock(p)
        BY <2>1, <2>2, <2>3 DEF Abstract!ChangeStock
    <2> QED
        BY <2>4 DEF Abstract!Next
<1> QED
    BY <1>1, <1>2, <1>3, <1>4, <1>5, <1>6, WhoWritesOrders

\* Tech Spec section 3, "all succeed or all fail together": whatever polls, webhooks,
\* OTP confirmations, restocks, crashes and deadlocks interleave, an order is settled
\* at most once, at one instant, and takes from a stock that covers it what its cart
\* holds.  Events handed in past confirm_payment are the exception.
THEOREM SettlementIsAtomic ==
    ASSUME HandedOrders = {}
    PROVE  Spec => SettlesAtomically
<1>1. Init => Abstract!Init
    BY NoneAssumption DEF Init, Abstract!Init, Placed, Settled
<1>2. IInv /\ StockInv /\ BooksInv /\ PlacedInv /\ [Next]_vars => [Abstract!Next]_(Abstract!avars)
    BY StepIsAbstract
<1> QED
    BY <1>1, <1>2, SettlementInvariant, StockInvariant, BooksInvariant, PlacedInvariant, PTL
    DEF Spec, SettlesAtomically, Abstract!Spec

-------------------------------------------------------------------------------
(* What the findings leave standing *)

\* One checkout inserts the row of an order, and before any other request reads it.
CheckoutInv ==
    /\ \A o \in Orders : status[o] # "absent" => rail[o] # "none"
    /\ \A w \in Workers : pc[w] = "insert" => status[job[w]] = "absent" /\ rail[job[w]] # "none"
    /\ \A v, w \in Workers : pc[v] = "insert" /\ pc[w] = "insert" /\ job[v] = job[w] => v = w

LEMMA InvoicesStay ==
    ASSUME TypeInv, [Next]_vars, NEW o \in Orders, rail[o] # "none"
    PROVE  rail'[o] # "none"
<1>1. CASE UNCHANGED rail
    BY <1>1
<1>2. ASSUME NEW q \in Orders, RailResolves(q) PROVE rail'[o] # "none"
    BY <1>2, OrdersAssumption DEF RailResolves, TypeInv, TypeOK
<1>3. ASSUME NEW w \in Workers, Arrive(w) PROVE rail'[o] # "none"
    BY <1>1, <1>3 DEF Arrive, CreateInvoice, PollRead, OnrampRead, RailPosts, Webhook, HandEvent,
                      environment, TypeInv, TypeOK
<1>4. ASSUME NEW w \in Workers,
             Proceed(w) \/ LockPayment(w) \/ LockProduct(w)
                \/ DeadlockVictim(w) \/ Crash(w) \/ AutomationBreaks(w)
      PROVE  UNCHANGED rail
    BY <1>4 DEF Proceed, InsertPayment, PollPaid, PollExhausted, PollUndecided, OtpAccepted,
                OtpRejected, PostRefused, CommitConfirmation, CommitWithoutSale, CommitHanded,
                LockPayment, PollSave, ConfirmAgain, ConfirmNew, HandedSkip, HandedBegin, LockProduct,
                TakeLine, InsufficientStock, BarcodeFails, DeadlockVictim, Crash, AutomationBreaks,
                Rollback, environment
<1>5. (\E p \in Products : StockMutation(p)) \/ UNCHANGED vars => UNCHANGED rail
    BY DEF StockMutation, vars, environment
<1> QED
    BY <1>1, <1>2, <1>3, <1>4, <1>5 DEF Next, Quiescent

\* Whoever is about to insert a row was already, or has just asked the rail.
LEMMA WhoInserts ==
    ASSUME TypeInv, [Next]_vars, NEW v \in Workers, pc'[v] = "insert"
    PROVE  \/ pc[v] = "insert" /\ job'[v] = job[v]
           \/ \E o \in Orders : CreateInvoice(v, o)
<1>1. CASE UNCHANGED <<pc, job>>
    BY <1>1
<1>2. ASSUME NEW w \in Workers, Arrive(w) \/ Proceed(w) \/ LockPayment(w) \/ LockProduct(w)
                \/ DeadlockVictim(w) \/ Crash(w) \/ AutomationBreaks(w)
      PROVE  \/ pc[v] = "insert" /\ job'[v] = job[v]
             \/ \E o \in Orders : CreateInvoice(v, o)
    <2>1. CASE v # w
        BY <1>2, <2>1, OthersStay
    <2>2. CASE v = w
        <3>1. ~Finish(v)
            BY DEF Finish, Goto, TypeInv, TypeOK
        <3>2. CASE Arrive(v)
            BY <3>2 DEF Arrive, PollRead, OnrampRead, RailPosts, Webhook, HandEvent, Begin, TypeInv, TypeOK
        <3>3. CASE ~Arrive(v)
            BY <1>2, <2>2, <3>1, <3>3
            DEF Proceed, InsertPayment, PollPaid, PollExhausted, PollUndecided, OtpAccepted,
                OtpRejected, PostRefused, CommitConfirmation, CommitWithoutSale, CommitHanded,
                LockPayment, PollSave, ConfirmAgain, ConfirmNew, HandedSkip, HandedBegin, LockProduct, TakeLine,
                InsufficientStock, BarcodeFails, DeadlockVictim, Crash, AutomationBreaks, Rollback, Goto,
                TypeInv, TypeOK
        <3> QED
            BY <3>2, <3>3
    <2> QED
        BY <2>1, <2>2
<1>3. (\E o \in Orders : RailResolves(o)) \/ (\E p \in Products : StockMutation(p)) \/ UNCHANGED vars
         => UNCHANGED <<pc, job>>
    BY DEF RailResolves, StockMutation, vars, request
<1> QED
    BY <1>1, <1>2, <1>3 DEF Next, Quiescent

\* A status that changes belongs to the order of the request that writes it, which
\* inserts the row or has found it.
LEMMA StatusOfOwnOrder ==
    ASSUME TypeInv, PlacedInv, [Next]_vars, NEW o \in Orders, status'[o] # status[o]
    PROVE  \E w \in Workers :
              /\ job[w] = o /\ pc'[w] = "idle"
              /\ \/ InsertPayment(w) /\ pc[w] = "insert"
                 \/ PollSave(w) /\ status[o] # "absent"
                 \/ status'[o] = "PAID" /\ status[o] # "absent"
<1>1. PICK w \in Workers : \/ InsertPayment(w) \/ PollSave(w)
                           \/ CommitConfirmation(w) \/ CommitWithoutSale(w) \/ CommitHanded(w)
    BY WhoWritesOrders DEF StockMutation
<1>2. job[w] = o /\ Finish(w)
    BY <1>1, StatusWritten
<1>3. pc'[w] = "idle"
    BY <1>2 DEF Finish, Goto, TypeInv, TypeOK
<1>4. CASE InsertPayment(w)
    BY <1>2, <1>3, <1>4 DEF InsertPayment
<1>5. CASE PollSave(w)
    BY <1>2, <1>3, <1>5 DEF PollSave, PlacedInv
<1>6. CASE CommitConfirmation(w) \/ CommitWithoutSale(w)
    <2>1. status' = [status EXCEPT ![o] = "PAID"] /\ pc[w] \in {"lines", "record"}
        BY <1>2, <1>6 DEF CommitConfirmation, CommitWithoutSale, PublishConfirmation, SaleReady
    <2> QED
        BY <1>2, <1>3, <2>1 DEF PlacedInv, TypeInv, TypeOK
<1>7. CASE CommitHanded(w)
    BY <1>7 DEF CommitHanded
<1> QED
    BY <1>1, <1>4, <1>5, <1>6, <1>7

LEMMA NextCheckout == TypeInv /\ PlacedInv /\ CheckoutInv /\ [Next]_vars => CheckoutInv'
<1> SUFFICES ASSUME TypeInv, PlacedInv, CheckoutInv, [Next]_vars PROVE CheckoutInv'
    OBVIOUS
<1>1. ASSUME NEW o \in Orders, status'[o] # "absent" PROVE rail'[o] # "none"
    <2>1. rail[o] # "none"
        BY <1>1, StatusOfOwnOrder DEF CheckoutInv
    <2> QED
        BY <2>1, InvoicesStay
<1>2. ASSUME NEW v \in Workers, NEW o \in Orders, CreateInvoice(v, o)
      PROVE  /\ job'[v] = o /\ status'[o] = "absent" /\ rail'[o] # "none" /\ rail[o] = "none"
             /\ \A u \in Workers : u # v => pc'[u] = pc[u] /\ job'[u] = job[u]
    <2>1. rail[o] = "none" /\ rail' = [rail EXCEPT ![o] = "pending"] /\ UNCHANGED status
        BY <1>2 DEF CreateInvoice, tables
    <2>2. status[o] = "absent"
        BY <2>1 DEF CheckoutInv
    <2> QED
        BY <1>2, <2>1, <2>2 DEF CreateInvoice, Begin, TypeInv, TypeOK
<1>3. ASSUME NEW v \in Workers, pc[v] = "insert", pc'[v] = "insert", job'[v] = job[v]
      PROVE  status'[job'[v]] = "absent" /\ rail'[job'[v]] # "none"
    <2>1. job[v] \in Orders /\ status[job[v]] = "absent" /\ rail[job[v]] # "none"
        BY <1>3 DEF CheckoutInv, TypeInv, RequestOK
    <2>2. ASSUME status'[job[v]] # status[job[v]] PROVE FALSE
        <3>1. PICK w \in Workers : job[w] = job[v] /\ pc'[w] = "idle" /\ pc[w] = "insert"
            BY <2>1, <2>2, StatusOfOwnOrder
        <3> QED
            BY <1>3, <3>1 DEF CheckoutInv
    <2> QED
        BY <1>3, <2>1, <2>2, InvoicesStay
<1>4. ASSUME NEW v \in Workers, pc'[v] = "insert"
      PROVE  status'[job'[v]] = "absent" /\ rail'[job'[v]] # "none"
    BY <1>2, <1>3, <1>4, WhoInserts
<1>5. ASSUME NEW u \in Workers, NEW v \in Workers, NEW o \in Orders, CreateInvoice(v, o),
             pc'[u] = "insert", job'[u] = job'[v]
      PROVE  u = v
    BY <1>2, <1>5 DEF CheckoutInv
<1>6. ASSUME NEW u \in Workers, NEW v \in Workers, pc'[u] = "insert", pc'[v] = "insert",
             job'[u] = job'[v]
      PROVE  u = v
    <2>1. CASE \E o \in Orders : CreateInvoice(u, o) \/ CreateInvoice(v, o)
        BY <1>5, <1>6, <2>1
    <2>2. CASE pc[u] = "insert" /\ job'[u] = job[u] /\ pc[v] = "insert" /\ job'[v] = job[v]
        BY <1>6, <2>2 DEF CheckoutInv
    <2> QED
        BY <1>6, <2>1, <2>2, WhoInserts
<1> QED
    BY <1>1, <1>4, <1>6 DEF CheckoutInv

\* A payment that is PAID loses its status to nothing but the unconditional save of a
\* poll (payments/views.py:76): not to its checkout, to a webhook, an OTP, a second
\* confirmation or a rollback.
PaidIsLostToPolls ==
    [][\A o \in Orders : status[o] = "PAID" /\ status'[o] # "PAID" =>
          \E w \in Workers : PollSave(w) /\ job[w] = o]_vars

THEOREM OnlyPollsTakePaid == Spec => PaidIsLostToPolls
<1>1. Init => CheckoutInv
    BY DEF Init, CheckoutInv
<1>2. TypeInv /\ PlacedInv /\ CheckoutInv /\ [Next]_vars =>
        [\A o \in Orders : status[o] = "PAID" /\ status'[o] # "PAID" =>
            \E w \in Workers : PollSave(w) /\ job[w] = o]_vars
    BY StatusOfOwnOrder DEF CheckoutInv
<1> QED
    BY <1>1, <1>2, NextCheckout, TypeInvariant, PlacedInvariant, PTL DEF Spec, PaidIsLostToPolls

\* A sale of an event that confirm_payment created is the one its payment points to.
OwnSaleInv ==
    \A e \in Events :
        sale[e] # None /\ ~event_row[e].handed => financial_event[sale[e].order] = e

\* An event's row is written once, before its sale.
LEMMA EventRowsStay ==
    ASSUME IInv, [Next]_vars, NEW e \in Events, event_row[e] # None
    PROVE  event_row'[e] = event_row[e]
<1>1. CASE UNCHANGED event_row
    BY <1>1
<1>2. ASSUME NEW w \in Workers, Arrive(w) PROVE event_row'[e] = event_row[e]
    <2>1. CASE \E o \in Orders : HandEvent(w, o)
        BY <2>1 DEF HandEvent, Unused, IInv, TypeInv, TypeOK
    <2> QED
        BY <1>2, <2>1 DEF Arrive, CreateInvoice, PollRead, OnrampRead, RailPosts, Webhook, tables
<1>3. ASSUME NEW w \in Workers, CommitConfirmation(w) \/ CommitWithoutSale(w)
      PROVE  event_row'[e] = event_row[e]
    <2>1. PublishConfirmation(w) /\ event_row[event[w]] = None
        BY <1>3 DEF CommitConfirmation, OwnEvent, CommitWithoutSale, IInv, InFlightInv, InFlight
    <2>2. event_row' = [event_row EXCEPT ![event[w]] =
                           [order |-> job[w], amount |-> amount_bif[w], handed |-> FALSE]]
        BY <2>1 DEF PublishConfirmation
    <2> QED
        BY <2>1, <2>2 DEF IInv, TypeInv, TypeOK
<1>4. ASSUME NEW w \in Workers,
             Proceed(w) \/ LockPayment(w) \/ LockProduct(w)
                \/ DeadlockVictim(w) \/ Crash(w) \/ AutomationBreaks(w)
      PROVE  UNCHANGED event_row \/ CommitConfirmation(w) \/ CommitWithoutSale(w)
    BY <1>4 DEF Proceed, InsertPayment, PollPaid, PollExhausted, PollUndecided, OtpAccepted,
                OtpRejected, PostRefused, CommitHanded, LockPayment, PollSave, ConfirmAgain, ConfirmNew,
                HandedSkip, HandedBegin, LockProduct, TakeLine, InsufficientStock, BarcodeFails,
                DeadlockVictim, Crash, AutomationBreaks, Rollback, tables
<1>5. (\E o \in Orders : RailResolves(o)) \/ (\E p \in Products : StockMutation(p)) \/ UNCHANGED vars
         => UNCHANGED event_row
    BY DEF RailResolves, StockMutation, vars, tables
<1> QED
    BY <1>1, <1>2, <1>3, <1>4, <1>5 DEF Next, Quiescent

LEMMA NextOwnSale == IInv /\ OwnSaleInv /\ [Next]_vars => OwnSaleInv'
<1> SUFFICES ASSUME IInv, OwnSaleInv, [Next]_vars, NEW e \in Events,
                    sale'[e] # None, ~event_row'[e].handed
             PROVE  financial_event'[sale'[e].order] = e
    BY DEF OwnSaleInv
<1>1. ASSUME sale[e] # None, sale'[e] = sale[e]
      PROVE  financial_event[sale[e].order] = e /\ sale[e].order \in Orders
    <2>1. event_row[e] # None /\ sale[e] \in SaleRow
        BY <1>1 DEF IInv, SaleInv, SaleOK, TypeInv, TypeOK
    <2>2. event_row'[e] = event_row[e]
        BY <2>1, EventRowsStay
    <2> QED
        BY <1>1, <2>1, <2>2 DEF OwnSaleInv, SaleRow
<1>2. CASE UNCHANGED <<financial_event, sale>>
    BY <1>1, <1>2
<1>3. ASSUME NEW w \in Workers, CommitConfirmation(w) \/ CommitWithoutSale(w), sale'[e] = sale[e]
      PROVE  financial_event'[sale'[e].order] = e
    <2>1. /\ pc[w] \in {"lines", "record"}
          /\ financial_event' = [financial_event EXCEPT ![job[w]] = event[w]]
        BY <1>3 DEF CommitConfirmation, CommitWithoutSale, SaleReady, PublishConfirmation
    <2>2. financial_event[job[w]] = None /\ e # None
        BY <2>1, AtCommit, NoneAssumption
    <2> QED
        BY <1>1, <1>3, <2>1, <2>2 DEF IInv, TypeInv, TypeOK
<1>4. ASSUME NEW w \in Workers, CommitConfirmation(w), sale'[e] # sale[e]
      PROVE  financial_event'[sale'[e].order] = e
    <2>1. pc[w] = "lines" /\ PublishSale(w) /\ PublishConfirmation(w)
        BY <1>4 DEF CommitConfirmation, SaleReady
    <2>2. e = event[w] /\ sale'[e] = [order |-> job[w], total_amount |-> Total[job[w]]]
        BY <1>4, <2>1, SalePublished
    <2> QED
        BY <2>1, <2>2, AtCommit DEF PublishConfirmation, IInv, TypeInv, TypeOK
<1>5. ASSUME NEW w \in Workers, CommitHanded(w)
      PROVE  financial_event'[sale'[e].order] = e
    <2>1. pc[w] = "lines" /\ PublishSale(w) /\ UNCHANGED <<financial_event, event_row>>
          /\ event_row[event[w]] # None
        BY <1>5 DEF CommitHanded, SaleReady, OwnEvent
    <2>2. event[w] \in Events /\ event_row[event[w]].handed
        BY <2>1, AtCommit, NoneAssumption DEF IInv, InFlightInv, InFlight
    <2>3. sale'[e] = sale[e]
        BY <2>1, <2>2, SalePublished
    <2> QED
        BY <1>1, <2>1, <2>3
<1> QED
    BY <1>2, <1>3, <1>4, <1>5, WhoWrites DEF CommitWithoutSale

\* A second sale of an order is always of an event that was handed in: however many
\* confirmations race, confirm_payment makes one sale of it, with or without events
\* from other code (sales/services.py:63-64).
SecondSalesAreHanded ==
    \A o \in Orders, e, f \in Events :
        HasSale(e, o) /\ HasSale(f, o) /\ e # f => event_row[e].handed \/ event_row[f].handed

THEOREM DoubleSalesAreHanded == Spec => []SecondSalesAreHanded
<1>1. Init => OwnSaleInv
    BY DEF Init, OwnSaleInv
<1>2. OwnSaleInv => SecondSalesAreHanded
    BY DEF OwnSaleInv, SecondSalesAreHanded, HasSale
<1> QED
    BY <1>1, <1>2, NextOwnSale, SettlementInvariant, PTL DEF Spec

===============================================================================
