--------------------------- MODULE InventoryProofs ---------------------------
(***************************************************************************)
(* For every set of products, workers, page sizes and times: paging through *)
(* the movement ledger of Inventory is exact, whatever commits meanwhile,  *)
(* and the movements of a product sum to its stock.                        *)
(***************************************************************************)
EXTENDS Inventory, SumLemmas, WellFoundedInduction

-------------------------------------------------------------------------------
(* The order of the ledger *)

\* Two movements of a set of rows are told apart by their keys.
KeysApart(rows) == \A m, n \in rows : m.id = n.id => m = n

LEMMA KeysAreNumbers == \A m \in Row : m.created_at \in Int /\ m.id \in Int
<1>1. Ids \subseteq Int /\ 0..MaxClock \subseteq Int
    BY InventoryAssumption
<1> QED
    BY <1>1 DEF Row

\* Older is a strict order of movements, total where keys are apart.
LEMMA OlderIsStrict ==
    /\ \A m \in Row : ~Older(m, m)
    /\ \A k, m, n \in Row : Older(k, m) /\ Older(m, n) => Older(k, n)
BY KeysAreNumbers DEF Older

LEMMA OlderIsTotal ==
    ASSUME NEW rows \in SUBSET Row, KeysApart(rows), NEW m \in rows, NEW n \in rows, m # n
    PROVE  Older(m, n) \/ Older(n, m)
BY KeysAreNumbers DEF Older, KeysApart

\* A non-empty set of numbers has a least one.
LEMMA LeastNumber ==
    ASSUME NEW S \in SUBSET Nat, S # {}
    PROVE  \E x \in S : \A y \in S : x <= y
<1> DEFINE Less == OpToRel(<, Nat)
<1>1. \E x \in S : \A y \in S : ~(<<y, x>> \in Less)
    <2>1. IsWellFoundedOn(Less, Nat)
        BY NatLessThanWellFounded
    <2> HIDE DEF Less
    <2> QED
        BY <2>1, WFMin
<1>2. \A x, y \in Nat : y < x => <<y, x>> \in Less
    BY DEF OpToRel
<1>3. PICK x \in S : \A y \in S : ~(<<y, x>> \in Less)
    BY <1>1
<1>4. \A y \in S : ~(y < x)
    BY <1>2, <1>3
<1> HIDE DEF Less
<1> QED
    BY <1>4

\* Fewer rows are newer than a newer row.
LEMMA NewerCounts ==
    ASSUME NEW rows \in SUBSET Row, IsFiniteSet(rows), NEW m \in rows, NEW n \in rows, Older(m, n)
    PROVE  Cardinality({k \in rows : Older(n, k)}) < Cardinality({k \in rows : Older(m, k)})
<1> DEFINE Newer(x) == {k \in rows : Older(x, k)}
<1>1. Newer(n) \subseteq Newer(m) /\ n \in Newer(m) /\ n \notin Newer(n)
    BY OlderIsStrict
<1>2. IsFiniteSet(Newer(m)) /\ IsFiniteSet(Newer(n))
    BY FS_Subset
<1>3. /\ Cardinality(Newer(n)) <= Cardinality(Newer(m))
      /\ Cardinality(Newer(n)) # Cardinality(Newer(m))
      /\ Cardinality(Newer(n)) \in Nat /\ Cardinality(Newer(m)) \in Nat
    <2> HIDE DEF Newer
    <2>1. Newer(n) \in SUBSET Newer(m)
        BY <1>1
    <2>2. /\ Cardinality(Newer(n)) <= Cardinality(Newer(m))
          /\ Cardinality(Newer(m)) = Cardinality(Newer(n)) => Newer(m) = Newer(n)
        BY <1>2, <2>1, FS_Subset
    <2>3. Newer(m) # Newer(n)
        BY <1>1
    <2> QED
        BY <1>2, <2>2, <2>3, FS_CardinalityType
<1> QED
    BY <1>3

\* A non-empty finite set of rows has a newest row, newer than which there is none.
LEMMA NewestExists ==
    ASSUME NEW rows \in SUBSET Row, IsFiniteSet(rows), rows # {}
    PROVE  \E m \in rows : {k \in rows : Older(m, k)} = {}
<1> DEFINE Count(x) == Cardinality({k \in rows : Older(x, k)})
           Counts == {Count(x) : x \in rows}
<1>1. \A x \in rows : Count(x) \in Nat
    BY FS_Subset, FS_CardinalityType
<1>2. Counts \in SUBSET Nat /\ Counts # {}
    BY <1>1
<1>3. PICK c \in Counts : \A d \in Counts : c <= d
    <2> HIDE DEF Counts
    <2> QED
        BY <1>2, LeastNumber
<1>4. PICK m \in rows : c = Count(m)
    BY <1>3
<1>5. \A n \in rows : ~Older(m, n)
    <2> SUFFICES ASSUME NEW n \in rows, Older(m, n)
                 PROVE  FALSE
        OBVIOUS
    <2>1. Count(n) < Count(m)
        BY NewerCounts
    <2>2. Count(m) <= Count(n)
        BY <1>3, <1>4
    <2> HIDE DEF Count
    <2> QED
        BY <2>1, <2>2, <1>1
<1> QED
    BY <1>5

\* It has an oldest row too: the one with the most newer rows.
LEMMA OldestExists ==
    ASSUME NEW rows \in SUBSET Row, IsFiniteSet(rows), rows # {}, KeysApart(rows)
    PROVE  \E m \in rows : \A n \in rows \ {m} : Older(m, n)
<1> DEFINE Count(x) == Cardinality({k \in rows : Older(x, k)})
           Gaps == {Cardinality(rows) - Count(x) : x \in rows}
<1>1. \A x \in rows : Count(x) \in Nat /\ Count(x) <= Cardinality(rows)
    BY FS_Subset, FS_CardinalityType
<1>2. Cardinality(rows) \in Nat
    BY FS_CardinalityType
<1> HIDE DEF Count
<1>3. Gaps \in SUBSET Nat /\ Gaps # {}
    BY <1>1, <1>2
<1>4. PICK g \in Gaps : \A h \in Gaps : g <= h
    <2> HIDE DEF Gaps
    <2> QED
        BY <1>3, LeastNumber
<1>5. PICK m \in rows : g = Cardinality(rows) - Count(m)
    BY <1>4
<1>6. ASSUME NEW n \in rows \ {m}
      PROVE  Older(m, n)
    <2>1. Cardinality(rows) - Count(m) <= Cardinality(rows) - Count(n)
        BY <1>4, <1>5
    <2>2. Count(n) <= Count(m)
        BY <2>1, <1>1, <1>2
    <2>3. Older(n, m) => Count(m) < Count(n)
        BY NewerCounts DEF Count
    <2>4. ~Older(n, m)
        BY <2>2, <2>3, <1>1
    <2> QED
        BY <2>4, OlderIsTotal
<1> QED
    BY <1>6

-------------------------------------------------------------------------------
(* One page *)

\* A page holds the newest of the rows it is asked from, and its last row is the
\* oldest of them.
LEMMA PageIsNewest ==
    ASSUME NEW rows \in SUBSET Row, IsFiniteSet(rows), KeysApart(rows), NEW limit \in Nat \ {0}
    PROVE  /\ Items(rows, limit) \subseteq rows
           /\ \A m \in Items(rows, limit), n \in rows \ Items(rows, limit) : Older(n, m)
           /\ Items(rows, limit) # rows =>
                /\ LastOf(Items(rows, limit)) \in Items(rows, limit)
                /\ \A m \in Items(rows, limit) \ {LastOf(Items(rows, limit))} :
                       Older(LastOf(Items(rows, limit)), m)
<1> DEFINE items == Items(rows, limit)
           Count(x) == Cardinality({k \in rows : Older(x, k)})
<1>1. items = {m \in rows : Count(m) < limit}
    BY DEF Items
<1>2. \A x \in rows : Count(x) \in Nat
    BY FS_Subset, FS_CardinalityType
<1>3. ASSUME NEW m \in items, NEW n \in rows \ items
      PROVE  Older(n, m)
    <2>1. Older(m, n) => Count(n) < Count(m)
        BY <1>1, NewerCounts
    <2> HIDE DEF Count
    <2>2. Count(m) < limit /\ ~(Count(n) < limit) /\ m \in rows /\ m # n
        BY <1>1
    <2>3. ~Older(m, n)
        BY <2>1, <2>2, <1>2
    <2> QED
        BY <2>2, <2>3, OlderIsTotal
<1>4. ASSUME items # rows
      PROVE  /\ LastOf(items) \in items
             /\ \A m \in items \ {LastOf(items)} : Older(LastOf(items), m)
    <2>1. rows # {}
        BY <1>1, <1>4
    <2>2. PICK m \in rows : {k \in rows : Older(m, k)} = {}
        BY <2>1, NewestExists
    <2>3. Count(m) = 0
        BY <2>2, FS_EmptySet
    <2>4. m \in items
        BY <1>1, <2>3
    <2>5. items \in SUBSET Row /\ IsFiniteSet(items) /\ KeysApart(items)
        BY <1>1, FS_Subset DEF KeysApart
    <2>6. \E x \in items : \A n \in items \ {x} : Older(x, n)
        <3> HIDE DEF items
        <3> QED
            BY <2>4, <2>5, OldestExists
    <2> HIDE DEF items
    <2> QED
        BY <2>6 DEF LastOf
<1> QED
    BY <1>1, <1>3, <1>4

-------------------------------------------------------------------------------
(* The inductive invariant *)

\* Keys of movements, committed or not, are apart.
KeyInv ==
    /\ IsFiniteSet(movements)
    /\ KeysApart(movements)
    /\ \A w \in Workers : row[w] # None => \A m \in movements : m.id # row[w].id
    /\ \A v, w \in Workers : v # w /\ row[v] # None /\ row[w] # None => row[v].id # row[w].id

\* A request has a row exactly when it is stamped, and a stock change holds its lock.
RequestInv ==
    \A w \in Workers :
        /\ pc[w] = "stamped" <=> row[w] # None
        /\ pc[w] # "idle" => job[w] \in Products
        /\ pc[w] = "stamped" => row[w].product = job[w]
        /\ pc[w] = "stamped" /\ ~row[w].initial => product_lock[job[w]] = w

\* Nothing is from the future, and a stock change about to commit is not older than
\* what its product already has.
TimeInv ==
    /\ \A m \in movements : m.created_at <= clock
    /\ \A w \in Workers : row[w] # None => row[w].created_at <= clock
    /\ \A w \in Workers : row[w] # None /\ ~row[w].initial =>
           \A n \in movements :
               n.product = row[w].product /\ ~n.initial => n.created_at <= row[w].created_at

\* Between two pages: what was returned is the cursor or newer, and what is still to
\* come of the baseline is older than the cursor.
WalkInv(r) ==
    /\ \A i \in DOMAIN pages[r] : pages[r][i] \subseteq movements
    /\ baseline[r] \subseteq Matching(wanted[r])
    /\ pages[r] = <<>> => cursor[r] = None
    /\ \A i, j \in DOMAIN pages[r] : i < j =>
           \A m \in pages[r][j], n \in pages[r][i] : Older(m, n)
    /\ cursor[r] # None =>
           /\ cursor[r] \in movements
           /\ \A i \in DOMAIN pages[r] : \A m \in pages[r][i] : m = cursor[r] \/ Older(cursor[r], m)
           /\ \A m \in baseline[r] :
                  Older(m, cursor[r]) \/ \E i \in DOMAIN pages[r] : m \in pages[r][i]
    /\ pages[r] # <<>> /\ cursor[r] = None =>
           \A m \in baseline[r] : \E i \in DOMAIN pages[r] : m \in pages[r][i]

IInv ==
    /\ TypeOK
    /\ KeyInv
    /\ RequestInv
    /\ TimeInv
    /\ \A r \in Readers : WalkInv(r)

\* The same, but for the walks, which only readers change.
WriterInv == TypeOK /\ KeyInv /\ RequestInv /\ TimeInv

LEMMA InitIInv == Init => IInv
<1> SUFFICES ASSUME Init
             PROVE  IInv
    OBVIOUS
<1> USE DEF Init
<1>1. TypeOK
    BY InventoryAssumption, FS_EmptySet DEF TypeOK
<1>2. KeyInv
    BY FS_EmptySet DEF KeyInv, KeysApart
<1>3. RequestInv /\ TimeInv
    BY DEF RequestInv, TimeInv
<1>4. ASSUME NEW r \in Readers
      PROVE  WalkInv(r)
    BY DEF WalkInv
<1> QED
    BY <1>1, <1>2, <1>3, <1>4 DEF IInv

-------------------------------------------------------------------------------
(* Writers *)

LEMMA FinishTypes ==
    ASSUME TypeOK, NEW w \in Workers, Finish(w)
    PROVE  /\ product_lock' \in [Products -> Workers \cup {None}]
           /\ pc' \in [Workers -> {"idle", "created", "stamped"}]
           /\ job' \in [Workers -> Products \cup {None}]
           /\ row' \in [Workers -> Row \cup {None}]
BY DEF TypeOK, Finish

\* A request builds m: no row has its key, and its time is now.
Builds(w, m) ==
    /\ pc' = [pc EXCEPT ![w] = "stamped"]
    /\ row' = [row EXCEPT ![w] = m]
    /\ \A n \in movements : n.id # m.id
    /\ \A v \in Workers : row[v] # None => row[v].id # m.id
    /\ m.created_at = clock

LEMMA StampBuilds ==
    ASSUME TypeOK, NEW w \in Workers, NEW p \in Products, NEW delta \in Int, NEW after \in Nat,
           NEW initial \in BOOLEAN, Stamp(w, p, delta, after, initial)
    PROVE  \E m \in Row : /\ Builds(w, m) /\ m.product = p /\ m.initial = initial
                        /\ m.qty_delta = delta /\ m.qty_after = after
<1>1. PICK i \in Ids :
         /\ \A m \in movements : m.id # i
         /\ \A v \in Workers : row[v] # None => row[v].id # i
         /\ row' = [row EXCEPT ![w] = [id |-> i, product |-> p, created_at |-> clock,
                                       qty_delta |-> delta, qty_after |-> after,
                                       initial |-> initial]]
    BY DEF Stamp
<1> DEFINE m == [id |-> i, product |-> p, created_at |-> clock,
                 qty_delta |-> delta, qty_after |-> after, initial |-> initial]
<1>2. m \in Row
    BY DEF TypeOK, Row
<1>3. /\ m.id = i /\ m.product = p /\ m.created_at = clock /\ m.initial = initial
      /\ m.qty_delta = delta /\ m.qty_after = after
    OBVIOUS
<1> HIDE DEF m
<1>4. row' = [row EXCEPT ![w] = m]
    BY <1>1 DEF m
<1>5. Builds(w, m)
    BY <1>1, <1>3, <1>4 DEF Builds, Stamp
<1> QED
    BY <1>2, <1>3, <1>5

\* A row that is built has the type of one.
LEMMA BuildsTypes ==
    ASSUME TypeOK, NEW w \in Workers, NEW m \in Row, Builds(w, m)
    PROVE  /\ pc' \in [Workers -> {"idle", "created", "stamped"}]
           /\ row' \in [Workers -> Row \cup {None}]
BY DEF TypeOK, Builds

LEMMA RecordBuilds ==
    ASSUME TypeOK, RequestInv, NEW w \in Workers, RecordInitialStock(w)
    PROVE  /\ job[w] \in Products
           /\ \E m \in Row : /\ Builds(w, m) /\ m.product = job[w] /\ m.initial
                            /\ m.qty_delta = InitialStock[job[w]]
<1> DEFINE p == job[w]
<1>1. /\ p \in Products
      /\ Stamp(w, p, InitialStock[p], InitialStock[p], TRUE)
      /\ InitialStock[p] \in Nat
    BY InventoryAssumption DEF RecordInitialStock, RequestInv
<1> HIDE DEF p
<1> DEFINE initial == TRUE
           stock == InitialStock[p]
<1>2. Stamp(w, p, stock, stock, initial) /\ stock \in Nat
    BY <1>1
<1>3. initial \in BOOLEAN
    OBVIOUS
<1> HIDE DEF stock, initial
<1>4. stock \in Int
    BY <1>2
<1>5. \E m \in Row : /\ Builds(w, m) /\ m.product = p /\ m.initial = initial
                     /\ m.qty_delta = stock
    BY <1>1, <1>2, <1>3, <1>4, StampBuilds
<1> QED
    BY <1>1, <1>5 DEF p, stock, initial

LEMMA MutationBuilds ==
    ASSUME TypeOK, NEW w \in Workers, NEW p \in Products, BeginMutation(w, p)
    PROVE  \E m \in Row : /\ Builds(w, m) /\ m.product = p /\ ~m.initial
                        /\ m.qty_after = stock_qty[p] + m.qty_delta
<1>1. stock_qty[p] \in Nat
    BY DEF TypeOK, BeginMutation
<1>2. PICK delta \in Deltas :
         StaysCovered(p, delta) /\ Stamp(w, p, delta, stock_qty[p] + delta, FALSE)
    BY DEF BeginMutation
<1> DEFINE after == stock_qty[p] + delta
           initial == FALSE
<1>3. delta \in Int /\ after \in Nat
    BY <1>1, <1>2, InventoryAssumption DEF StaysCovered
<1>4. Stamp(w, p, delta, after, initial) /\ initial \in BOOLEAN
    BY <1>2
<1> HIDE DEF after, initial
<1>5. \E m \in Row : /\ Builds(w, m) /\ m.product = p /\ m.initial = initial
                     /\ m.qty_delta = delta /\ m.qty_after = after
    BY <1>3, <1>4, StampBuilds
<1> QED
    BY <1>5 DEF after, initial

\* Types are kept by every step.
LEMMA TypeStep == TypeOK /\ KeyInv /\ RequestInv /\ [Next]_vars => TypeOK'
<1> SUFFICES ASSUME TypeOK, KeyInv, RequestInv, [Next]_vars
             PROVE  TypeOK'
    OBVIOUS
<1>1. CASE UNCHANGED vars
    BY <1>1 DEF TypeOK, vars, writers, readers
<1>2. ASSUME NEW w \in Workers, NEW p \in Products, CreateProduct(w, p)
      PROVE  TypeOK'
    BY <1>2, InventoryAssumption DEF TypeOK, CreateProduct, readers
<1>3. ASSUME NEW w \in Workers, NEW p \in Products, BeginMutation(w, p)
      PROVE  TypeOK'
    <2>2. /\ pc' \in [Workers -> {"idle", "created", "stamped"}]
          /\ row' \in [Workers -> Row \cup {None}]
        BY <1>3, MutationBuilds, BuildsTypes
    <2> QED
        BY <1>3, <2>2 DEF TypeOK, BeginMutation, readers
<1>4. ASSUME NEW w \in Workers, EndUnrecorded(w) \/ BarcodeFails(w)
      PROVE  TypeOK'
    BY <1>4, FinishTypes DEF TypeOK, EndUnrecorded, BarcodeFails, readers
<1>5. ASSUME NEW w \in Workers, RecordInitialStock(w)
      PROVE  TypeOK'
    <2>1. /\ pc' \in [Workers -> {"idle", "created", "stamped"}]
          /\ row' \in [Workers -> Row \cup {None}]
        BY <1>5, RecordBuilds, BuildsTypes
    <2> QED
        BY <1>5, <2>1 DEF TypeOK, RecordInitialStock, readers
<1>6. ASSUME NEW w \in Workers, Commit(w)
      PROVE  TypeOK'
    <2>1. row[w] \in Row /\ job[w] \in Products
        BY <1>6 DEF TypeOK, RequestInv, Commit
    <2>2. row[w].qty_after \in Nat /\ row[w].initial \in BOOLEAN
        BY <2>1 DEF Row
    <2>3. stock_qty' \in [Products -> Nat \cup {None}]
        BY <1>6, <2>1, <2>2 DEF TypeOK, Commit
    <2>4. movements' \subseteq Row
        BY <1>6, <2>1 DEF TypeOK, Commit
    <2> QED
        BY <1>6, <2>3, <2>4, FinishTypes DEF TypeOK, Commit, readers
<1>7. ASSUME NEW w \in Workers, Crash(w)
      PROVE  TypeOK'
    <2>1. crashes' \in 0..MaxCrashes
        BY <1>7, InventoryAssumption DEF TypeOK, Crash
    <2> QED
        BY <1>7, <2>1, FinishTypes DEF TypeOK, Crash, readers
<1>8. ASSUME NEW r \in Readers, FirstPage(r) \/ NextPage(r)
      PROVE  TypeOK'
    <2>1. PICK f \in Products \cup {None}, limit \in Limits, rows \in SUBSET movements :
             /\ Answer(r, rows, limit)
             /\ wanted' \in [Readers -> Products \cup {None}]
             /\ baseline' \in [Readers -> SUBSET Row]
             /\ UNCHANGED <<writers, clock, crashes>>
        <3>1. CASE FirstPage(r)
            <4>1. PICK f \in Products \cup {None}, limit \in Limits :
                     /\ wanted' = [wanted EXCEPT ![r] = f]
                     /\ baseline' = [baseline EXCEPT ![r] = Matching(f)]
                     /\ Answer(r, Matching(f), limit)
                BY <3>1 DEF FirstPage
            <4>2. Matching(f) \in SUBSET movements
                BY DEF Matching
            <4>3. /\ wanted' \in [Readers -> Products \cup {None}]
                  /\ baseline' \in [Readers -> SUBSET Row]
                BY <4>1, <4>2 DEF TypeOK
            <4> QED
                BY <3>1, <4>1, <4>2, <4>3 DEF FirstPage
        <3>2. CASE NextPage(r)
            <4>1. PICK limit \in Limits :
                     Answer(r, PastCursor(cursor[r], Matching(wanted[r])), limit)
                BY <3>2 DEF NextPage
            <4>2. PastCursor(cursor[r], Matching(wanted[r])) \in SUBSET movements
                BY DEF PastCursor, Matching
            <4> QED
                BY <3>2, <4>1, <4>2 DEF NextPage, TypeOK
        <3> QED
            BY <1>8, <3>1, <3>2
    <2>2. rows \in SUBSET Row /\ Items(rows, limit) \in SUBSET Row
        BY DEF TypeOK, Items
    <2>3. pages' \in [Readers -> Seq(SUBSET Row)]
        <3> DEFINE items == Items(rows, limit)
        <3>1. pages' = [pages EXCEPT ![r] = Append(pages[r], items)]
            BY <2>1 DEF Answer
        <3> HIDE DEF items
        <3>2. items \in SUBSET Row
            BY <2>2 DEF items
        <3>3. pages[r] \in Seq(SUBSET Row)
            BY DEF TypeOK
        <3>4. Append(pages[r], items) \in Seq(SUBSET Row)
            BY <3>2, <3>3
        <3> QED
            BY <3>1, <3>4 DEF TypeOK
    <2>4. cursor' \in [Readers -> Row \cup {None}]
        <3>1. Items(rows, limit) # rows => LastOf(Items(rows, limit)) \in Row
            <4>1. IsFiniteSet(rows) /\ KeysApart(rows) /\ limit \in Nat \ {0}
                BY FS_Subset, InventoryAssumption DEF KeyInv, KeysApart
            <4>2. Items(rows, limit) # rows => LastOf(Items(rows, limit)) \in Items(rows, limit)
                BY <4>1, <2>2, PageIsNewest
            <4> QED
                BY <4>2, <2>2
        <3> QED
            BY <2>1, <3>1 DEF TypeOK, Answer
    <2> QED
        BY <2>1, <2>3, <2>4 DEF TypeOK, writers
<1>9. ASSUME Tick
      PROVE  TypeOK'
    BY <1>9, InventoryAssumption DEF TypeOK, Tick, writers, readers
<1> QED
    BY <1>1, <1>2, <1>3, <1>4, <1>5, <1>6, <1>7, <1>8, <1>9 DEF Next, Quiescent

\* What every step does to the rows: a request builds one, drops what it has, commits
\* it, or touches neither.
LEMMA StepsOnRows ==
    ASSUME TypeOK, RequestInv, [Next]_vars
    PROVE  \/ UNCHANGED <<movements, row>>
           \/ \E w \in Workers : Finish(w) /\ UNCHANGED movements
           \/ \E w \in Workers : Commit(w)
           \/ \E w \in Workers, m \in Row : Builds(w, m) /\ UNCHANGED movements
<1>1. CASE UNCHANGED vars
    BY <1>1 DEF vars, writers
<1>2. ASSUME NEW w \in Workers, NEW p \in Products, CreateProduct(w, p)
      PROVE  UNCHANGED <<movements, row>>
    BY <1>2 DEF CreateProduct
<1>3. ASSUME NEW w \in Workers, NEW p \in Products, BeginMutation(w, p)
      PROVE  \E m \in Row : Builds(w, m) /\ UNCHANGED movements
    BY <1>3, MutationBuilds DEF BeginMutation
<1>4. ASSUME NEW w \in Workers, EndUnrecorded(w) \/ BarcodeFails(w) \/ Crash(w)
      PROVE  Finish(w) /\ UNCHANGED movements
    BY <1>4 DEF EndUnrecorded, BarcodeFails, Crash
<1>5. ASSUME NEW w \in Workers, RecordInitialStock(w)
      PROVE  \E m \in Row : Builds(w, m) /\ UNCHANGED movements
    BY <1>5, RecordBuilds DEF RecordInitialStock
<1>6. ASSUME NEW r \in Readers, FirstPage(r) \/ NextPage(r)
      PROVE  UNCHANGED <<movements, row>>
    BY <1>6 DEF FirstPage, NextPage, writers
<1>7. ASSUME Tick
      PROVE  UNCHANGED <<movements, row>>
    BY <1>7 DEF Tick, writers
<1> QED
    BY <1>1, <1>2, <1>3, <1>4, <1>5, <1>6, <1>7 DEF Next, Quiescent

LEMMA KeyStep == TypeOK /\ KeyInv /\ RequestInv /\ [Next]_vars => KeyInv'
<1> SUFFICES ASSUME TypeOK, KeyInv, RequestInv, [Next]_vars
             PROVE  KeyInv'
    OBVIOUS
<1>1. CASE UNCHANGED <<movements, row>>
    BY <1>1 DEF KeyInv, KeysApart
<1>2. ASSUME NEW w \in Workers, Finish(w), UNCHANGED movements
      PROVE  KeyInv'
    BY <1>2 DEF KeyInv, KeysApart, Finish, TypeOK
<1>3. ASSUME NEW w \in Workers, Commit(w)
      PROVE  KeyInv'
    <2>1. row[w] # None /\ movements' = movements \cup {row[w]}
          /\ row' = [row EXCEPT ![w] = None]
        BY <1>3 DEF Commit, Finish, RequestInv
    <2>2. IsFiniteSet(movements')
        BY <2>1, FS_AddElement DEF KeyInv
    <2> QED
        BY <2>1, <2>2 DEF KeyInv, KeysApart, TypeOK
<1>4. ASSUME NEW w \in Workers, NEW m \in Row, Builds(w, m), UNCHANGED movements
      PROVE  KeyInv'
    BY <1>4 DEF KeyInv, KeysApart, Builds, TypeOK
<1> QED
    BY <1>1, <1>2, <1>3, <1>4, StepsOnRows

LEMMA RequestStep == TypeOK /\ RequestInv /\ [Next]_vars => RequestInv'
<1> SUFFICES ASSUME TypeOK, RequestInv, [Next]_vars
             PROVE  RequestInv'
    OBVIOUS
<1> USE InventoryNoneAssumption
<1>1. CASE UNCHANGED vars
    BY <1>1 DEF RequestInv, vars, writers
<1>2. ASSUME NEW w \in Workers, NEW p \in Products, CreateProduct(w, p)
      PROVE  RequestInv'
    BY <1>2 DEF RequestInv, CreateProduct, TypeOK
<1>3. ASSUME NEW w \in Workers, NEW p \in Products, BeginMutation(w, p)
      PROVE  RequestInv'
    <2>0. PICK m \in Row : Builds(w, m) /\ m.product = p /\ ~m.initial
        BY <1>3, MutationBuilds
    <2>1. /\ product_lock[p] = None
          /\ product_lock' = [product_lock EXCEPT ![p] = w]
          /\ job' = [job EXCEPT ![w] = p]
          /\ pc[w] = "idle"
        BY <1>3 DEF BeginMutation, RowFree
    <2>2. /\ pc' = [pc EXCEPT ![w] = "stamped"]
          /\ row' = [row EXCEPT ![w] = m]
        BY <2>0 DEF Builds
    <2>3. m # None
        OBVIOUS
    <2>4. ASSUME NEW v \in Workers, v # w, pc[v] = "stamped", ~row[v].initial
          PROVE  job[v] # p
        BY <2>1, <2>4 DEF RequestInv
    <2> QED
        BY <2>0, <2>1, <2>2, <2>3, <2>4 DEF RequestInv, TypeOK
<1>4. ASSUME NEW w \in Workers, Finish(w)
      PROVE  RequestInv'
    <2>1. ASSUME NEW v \in Workers, v # w
          PROVE  pc'[v] = pc[v] /\ job'[v] = job[v] /\ row'[v] = row[v]
        BY <1>4, <2>1 DEF Finish, TypeOK
    <2>2. pc'[w] = "idle" /\ row'[w] = None
        BY <1>4 DEF Finish, TypeOK
    <2>3. \A v \in Workers, p \in Products :
              v # w /\ product_lock[p] = v => product_lock'[p] = v
        BY <1>4 DEF Finish, TypeOK
    <2> QED
        BY <2>1, <2>2, <2>3 DEF RequestInv
<1>5. ASSUME NEW w \in Workers, RecordInitialStock(w)
      PROVE  RequestInv'
    <2>1. PICK m \in Row : Builds(w, m) /\ m.product = job[w] /\ m.initial
        BY <1>5, RecordBuilds
    <2>2. job[w] \in Products /\ UNCHANGED <<job, product_lock>>
        BY <1>5, RecordBuilds DEF RecordInitialStock
    <2> QED
        BY <2>1, <2>2 DEF RequestInv, Builds, TypeOK
<1>6. ASSUME NEW r \in Readers, FirstPage(r) \/ NextPage(r)
      PROVE  RequestInv'
    BY <1>6 DEF RequestInv, FirstPage, NextPage, writers
<1>7. ASSUME Tick
      PROVE  RequestInv'
    BY <1>7 DEF RequestInv, Tick, writers
<1>8. ASSUME NEW w \in Workers, EndUnrecorded(w) \/ Commit(w) \/ BarcodeFails(w) \/ Crash(w)
      PROVE  Finish(w)
    BY <1>8 DEF EndUnrecorded, Commit, BarcodeFails, Crash
<1> QED
    BY <1>1, <1>2, <1>3, <1>4, <1>5, <1>6, <1>7, <1>8 DEF Next, Quiescent

LEMMA TimeStep == TypeOK /\ RequestInv /\ TimeInv /\ [Next]_vars => TimeInv'
<1> SUFFICES ASSUME TypeOK, RequestInv, TimeInv, [Next]_vars
             PROVE  TimeInv'
    OBVIOUS
<1>0. /\ clock \in Int
      /\ \A m \in Row : m.created_at \in Int
      /\ \A m \in movements : m \in Row
      /\ \A v \in Workers : row[v] # None => row[v] \in Row
    BY KeysAreNumbers DEF TypeOK
<1>1. CASE UNCHANGED <<movements, row, clock>>
    BY <1>1 DEF TimeInv
<1>2. CASE UNCHANGED <<movements, row>> /\ clock' = clock + 1
    BY <1>0, <1>2 DEF TimeInv
<1>3. ASSUME NEW w \in Workers, Finish(w), UNCHANGED <<movements, clock>>
      PROVE  TimeInv'
    BY <1>3 DEF TimeInv, Finish, TypeOK
<1>4. ASSUME NEW w \in Workers, Commit(w)
      PROVE  TimeInv'
    <2>1. /\ movements' = movements \cup {row[w]} /\ row[w] # None
          /\ row' = [row EXCEPT ![w] = None] /\ clock' = clock
        BY <1>4 DEF Commit, Finish, RequestInv
    <2>2. ASSUME NEW v \in Workers, v # w, row[v] # None, ~row[v].initial, ~row[w].initial
          PROVE  row[v].product # row[w].product
        BY <2>1, <2>2 DEF RequestInv
    <2> QED
        BY <1>0, <2>1, <2>2 DEF TimeInv, TypeOK
<1>5. ASSUME NEW w \in Workers, NEW m \in Row, Builds(w, m), UNCHANGED <<movements, clock>>
      PROVE  TimeInv'
    BY <1>0, <1>5 DEF TimeInv, Builds, TypeOK
<1>6. ASSUME NEW w \in Workers, NEW p \in Products, CreateProduct(w, p) \/ BeginMutation(w, p)
      PROVE  TimeInv'
    <2>1. CASE CreateProduct(w, p)
        BY <1>1, <2>1 DEF CreateProduct
    <2>2. CASE BeginMutation(w, p)
        BY <1>5, <2>2, MutationBuilds DEF BeginMutation
    <2> QED
        BY <1>6, <2>1, <2>2
<1>7. ASSUME NEW w \in Workers, RecordInitialStock(w)
      PROVE  TimeInv'
    BY <1>5, <1>7, RecordBuilds DEF RecordInitialStock
<1>8. ASSUME NEW w \in Workers, EndUnrecorded(w) \/ BarcodeFails(w) \/ Crash(w)
      PROVE  TimeInv'
    BY <1>3, <1>8 DEF EndUnrecorded, BarcodeFails, Crash
<1>9. CASE UNCHANGED vars \/ Tick \/ \E r \in Readers : FirstPage(r) \/ NextPage(r)
    BY <1>1, <1>2, <1>9 DEF vars, writers, Tick, FirstPage, NextPage
<1> QED
    BY <1>4, <1>6, <1>7, <1>8, <1>9 DEF Next, Quiescent

-------------------------------------------------------------------------------
(* Readers *)

\* Rows that commit between two pages change nothing of what a walk has or awaits.
LEMMA WalksOutliveGrowth ==
    ASSUME NEW r \in Readers, WalkInv(r), movements \subseteq movements',
           UNCHANGED <<wanted[r], baseline[r], cursor[r], pages[r]>>
    PROVE  WalkInv(r)'
<1>1. /\ wanted'[r] = wanted[r] /\ baseline'[r] = baseline[r]
      /\ cursor'[r] = cursor[r] /\ pages'[r] = pages[r]
    OBVIOUS
<1>2. Matching(wanted[r]) \subseteq Matching(wanted[r])'
    BY <1>1 DEF Matching
<1>3. (\A i \in DOMAIN pages[r] : pages[r][i] \subseteq movements)'
    BY <1>1 DEF WalkInv
<1>4. (baseline[r] \subseteq Matching(wanted[r]))'
    BY <1>1, <1>2 DEF WalkInv
<1>5. (cursor[r] # None => cursor[r] \in movements)'
    BY <1>1 DEF WalkInv
<1>6. (pages[r] = <<>> => cursor[r] = None)'
    BY <1>1 DEF WalkInv
<1>7. (\A i, j \in DOMAIN pages[r] : i < j =>
           \A m \in pages[r][j], n \in pages[r][i] : Older(m, n))'
    BY <1>1 DEF WalkInv, Older
<1>8. (cursor[r] # None =>
         /\ \A i \in DOMAIN pages[r] : \A m \in pages[r][i] : m = cursor[r] \/ Older(cursor[r], m)
         /\ \A m \in baseline[r] :
                Older(m, cursor[r]) \/ \E i \in DOMAIN pages[r] : m \in pages[r][i])'
    BY <1>1 DEF WalkInv, Older
<1>9. (pages[r] # <<>> /\ cursor[r] = None =>
           \A m \in baseline[r] : \E i \in DOMAIN pages[r] : m \in pages[r][i])'
    BY <1>1 DEF WalkInv
<1> QED
    BY <1>3, <1>4, <1>5, <1>6, <1>7, <1>8, <1>9 DEF WalkInv

LEMMA FirstPageStep ==
    ASSUME TypeOK, KeyInv, NEW r \in Readers, FirstPage(r)
    PROVE  WalkInv(r)'
<1>1. PICK f \in Products \cup {None}, limit \in Limits :
         /\ wanted' = [wanted EXCEPT ![r] = f]
         /\ baseline' = [baseline EXCEPT ![r] = Matching(f)]
         /\ Answer(r, Matching(f), limit)
    BY DEF FirstPage
<1>2. pages[r] = <<>> /\ movements' = movements
    BY DEF FirstPage, writers
<1> DEFINE rows == Matching(f)
           items == Items(rows, limit)
<1>3. rows \in SUBSET Row /\ rows \subseteq movements
    BY DEF Matching, TypeOK
<1>4. IsFiniteSet(rows) /\ KeysApart(rows) /\ limit \in Nat \ {0}
    <2>1. rows \in SUBSET movements
        BY <1>3
    <2> HIDE DEF rows
    <2> QED
        BY <2>1, FS_Subset, InventoryAssumption DEF KeyInv, KeysApart
<1>5. /\ items \subseteq rows
      /\ \A m \in items, n \in rows \ items : Older(n, m)
      /\ items # rows =>
            /\ LastOf(items) \in items
            /\ \A m \in items \ {LastOf(items)} : Older(LastOf(items), m)
    <2> HIDE DEF rows
    <2> QED
        BY <1>3, <1>4, PageIsNewest
<1>6. /\ pages'[r] = <<items>>
      /\ cursor'[r] = IF items = rows THEN None ELSE LastOf(items)
      /\ baseline'[r] = rows
      /\ wanted'[r] = f
    <2>1. Append(<<>>, items) = <<items>>
        OBVIOUS
    <2>2. /\ pages' = [pages EXCEPT ![r] = Append(pages[r], items)]
          /\ cursor' = [cursor EXCEPT ![r] = IF items = rows THEN None ELSE LastOf(items)]
        BY <1>1 DEF Answer
    <2> HIDE DEF items, rows
    <2>3. pages'[r] = <<items>>
        BY <2>1, <2>2, <1>2 DEF TypeOK
    <2>4. cursor'[r] = IF items = rows THEN None ELSE LastOf(items)
        BY <2>2 DEF TypeOK
    <2>5. baseline'[r] = rows /\ wanted'[r] = f
        BY <1>1 DEF TypeOK, rows
    <2> QED
        BY <2>3, <2>4, <2>5
<1>7. Matching(wanted[r])' = rows
    BY <1>2, <1>6 DEF Matching
<1> HIDE DEF items, rows
<1>8. DOMAIN pages'[r] = {1} /\ pages'[r][1] = items /\ pages'[r] # <<>>
    BY <1>6
<1>9. ASSUME items # rows
      PROVE  cursor'[r] = LastOf(items) /\ LastOf(items) \in items /\ cursor'[r] # None
    BY <1>3, <1>5, <1>6, <1>9, InventoryNoneAssumption
<1>10. ASSUME cursor'[r] # None
       PROVE  /\ cursor'[r] \in movements'
              /\ \A m \in items : m = cursor'[r] \/ Older(cursor'[r], m)
              /\ \A m \in rows : Older(m, cursor'[r]) \/ m \in items
    <2>1. items # rows
        BY <1>6, <1>10
    <2> QED
        BY <2>1, <1>2, <1>3, <1>5, <1>9
<1>11. cursor'[r] = None => items = rows
    BY <1>9
<1> QED
    BY <1>2, <1>3, <1>5, <1>6, <1>7, <1>8, <1>10, <1>11 DEF WalkInv, Older

LEMMA NextPageStep ==
    ASSUME TypeOK, KeyInv, NEW r \in Readers, WalkInv(r), NextPage(r)
    PROVE  WalkInv(r)'
<1> DEFINE c == cursor[r]
           got == pages[r]
           f == wanted[r]
           rows == PastCursor(c, Matching(f))
<1>1. PICK limit \in Limits : Answer(r, rows, limit)
    BY DEF NextPage
<1> DEFINE items == Items(rows, limit)
<1>2. c # None /\ c \in movements /\ c \in Row
    BY DEF NextPage, WalkInv, TypeOK
<1>3. /\ movements' = movements /\ wanted'[r] = f /\ baseline'[r] = baseline[r]
    BY DEF NextPage, writers
<1>4. rows = {m \in movements : (f = None \/ m.product = f) /\ Older(m, c)}
    BY DEF PastCursor, Matching
<1>5. rows \in SUBSET Row /\ rows \in SUBSET movements
    BY <1>4 DEF TypeOK
<1> HIDE DEF rows, f, c
<1>6. IsFiniteSet(rows) /\ KeysApart(rows) /\ limit \in Nat \ {0}
    BY <1>5, FS_Subset, InventoryAssumption DEF KeyInv, KeysApart
<1>7. /\ items \subseteq rows
      /\ \A m \in items, n \in rows \ items : Older(n, m)
      /\ items # rows =>
            /\ LastOf(items) \in items
            /\ \A m \in items \ {LastOf(items)} : Older(LastOf(items), m)
    BY <1>5, <1>6, PageIsNewest
<1>8. /\ pages' = [pages EXCEPT ![r] = Append(got, items)]
      /\ cursor' = [cursor EXCEPT ![r] = IF items = rows THEN None ELSE LastOf(items)]
    BY <1>1 DEF Answer
<1> HIDE DEF items
<1>9. cursor'[r] = IF items = rows THEN None ELSE LastOf(items)
    BY <1>8 DEF TypeOK
<1>10. /\ got \in Seq(SUBSET Row) /\ items \in SUBSET Row
       /\ pages'[r] = Append(got, items)
    BY <1>5, <1>7, <1>8 DEF TypeOK
<1> DEFINE n == Len(got)
           new == pages'[r]
<1>11. /\ n \in Nat /\ DOMAIN got = 1..n /\ DOMAIN new = 1..(n + 1)
       /\ new # <<>>
       /\ \A i \in 1..n : new[i] = got[i]
       /\ new[n + 1] = items
    BY <1>10
<1>12. /\ \A i \in 1..n : got[i] \subseteq movements
       /\ \A i \in 1..n : \A m \in got[i] : m = c \/ Older(c, m)
       /\ \A i, j \in 1..n : i < j => \A m \in got[j], k \in got[i] : Older(m, k)
       /\ \A m \in baseline[r] : Older(m, c) \/ \E i \in 1..n : m \in got[i]
       /\ baseline[r] \subseteq Matching(f)
    BY <1>2, <1>11 DEF WalkInv, c, f
<1> HIDE DEF got, n, new
<1>13. ASSUME NEW i \in 1..(n + 1), NEW j \in 1..(n + 1), i < j,
              NEW m \in new[j], NEW k \in new[i]
       PROVE  Older(m, k)
    <2>1. i \in 1..n /\ k \in got[i]
        BY <1>11, <1>13
    <2>2. CASE j \in 1..n
        BY <1>11, <1>12, <1>13, <2>1, <2>2
    <2>3. CASE j = n + 1
        <3>1. m \in rows /\ Older(m, c) /\ m \in Row
            BY <1>4, <1>5, <1>7, <1>11, <1>13, <2>3
        <3>2. k \in Row /\ (k = c \/ Older(c, k))
            BY <1>12, <2>1 DEF TypeOK
        <3> QED
            BY <1>2, <3>1, <3>2, OlderIsStrict
    <2> QED
        BY <1>11, <2>2, <2>3
<1>14. \A i \in 1..(n + 1) : new[i] \subseteq movements
    <2>1. items \subseteq movements
        BY <1>5, <1>7
    <2> QED
        BY <1>11, <1>12, <2>1
<1>15. ASSUME NEW m \in baseline[r]
       PROVE  m \in rows \/ \E i \in 1..(n + 1) : m \in new[i]
    <2>1. CASE Older(m, c)
        BY <1>4, <1>12, <2>1 DEF Matching
    <2>2. CASE \E i \in 1..n : m \in got[i]
        BY <1>11, <2>2
    <2> QED
        BY <1>12, <2>1, <2>2
<1>16. CASE items = rows
    <2>1. \A m \in baseline[r] : \E i \in 1..(n + 1) : m \in new[i]
        BY <1>11, <1>15, <1>16
    <2>2. cursor'[r] = None
        BY <1>9, <1>16
    <2> QED
        BY <1>3, <1>11, <1>12, <1>13, <1>14, <2>1, <2>2 DEF WalkInv, Matching, new
<1>17. CASE items # rows
    <2> DEFINE last == LastOf(items)
    <2>1. /\ cursor'[r] = last /\ last \in items /\ last \in movements /\ last \in Row
          /\ \A m \in items \ {last} : Older(last, m)
          /\ Older(last, c)
        BY <1>4, <1>5, <1>7, <1>9, <1>17
    <2> HIDE DEF last
    <2>2. last # None
        BY <2>1, InventoryNoneAssumption
    <2>3. ASSUME NEW i \in 1..(n + 1), NEW m \in new[i]
          PROVE  m = last \/ Older(last, m)
        <3>1. CASE i = n + 1
            BY <1>11, <2>1, <2>3, <3>1
        <3>2. CASE i \in 1..n
            <4>1. m \in Row /\ (m = c \/ Older(c, m))
                BY <1>11, <1>12, <2>3, <3>2 DEF TypeOK
            <4> QED
                BY <1>2, <2>1, <4>1, OlderIsStrict
        <3> QED
            BY <1>11, <3>1, <3>2
    <2>4. ASSUME NEW m \in baseline[r]
          PROVE  Older(m, last) \/ \E i \in 1..(n + 1) : m \in new[i]
        <3>1. m \in rows => m \in items \/ Older(m, last)
            BY <1>7, <2>1
        <3> QED
            BY <1>11, <1>15, <3>1
    <2> QED
        BY <1>3, <1>11, <1>12, <1>13, <1>14, <2>1, <2>2, <2>3, <2>4 DEF WalkInv, Matching, new
<1> QED
    BY <1>16, <1>17

LEMMA WalkStep ==
    TypeOK /\ KeyInv /\ (\A r \in Readers : WalkInv(r)) /\ [Next]_vars
        => (\A r \in Readers : WalkInv(r))'
<1> SUFFICES ASSUME TypeOK, KeyInv, \A r \in Readers : WalkInv(r), [Next]_vars,
                    NEW r \in Readers
             PROVE  WalkInv(r)'
    OBVIOUS
<1>1. CASE movements \subseteq movements' /\ UNCHANGED readers
    BY <1>1, WalksOutliveGrowth DEF readers
<1>2. ASSUME NEW w \in Workers, NEW p \in Products, CreateProduct(w, p) \/ BeginMutation(w, p)
      PROVE  WalkInv(r)'
    BY <1>1, <1>2 DEF CreateProduct, BeginMutation
<1>3. ASSUME NEW w \in Workers,
             EndUnrecorded(w) \/ RecordInitialStock(w) \/ Commit(w)
                 \/ BarcodeFails(w) \/ Crash(w)
      PROVE  WalkInv(r)'
    BY <1>1, <1>3 DEF EndUnrecorded, RecordInitialStock, Commit, BarcodeFails, Crash
<1>4. CASE UNCHANGED vars \/ Tick
    BY <1>1, <1>4 DEF vars, writers, Tick
<1>5. ASSUME NEW q \in Readers, FirstPage(q) \/ NextPage(q)
      PROVE  WalkInv(r)'
    <2>1. CASE q = r
        BY <1>5, <2>1, FirstPageStep, NextPageStep
    <2>2. CASE q # r
        <3>1. UNCHANGED <<movements, cursor[r], pages[r]>>
            BY <1>5, <2>2 DEF FirstPage, NextPage, Answer, writers, TypeOK
        <3>2. UNCHANGED <<wanted[r], baseline[r]>>
            BY <1>5, <2>2 DEF FirstPage, NextPage, TypeOK
        <3> QED
            BY <3>1, <3>2, WalksOutliveGrowth
    <2> QED
        BY <2>1, <2>2
<1> QED
    BY <1>2, <1>3, <1>4, <1>5 DEF Next, Quiescent

-------------------------------------------------------------------------------
(* The movements sum to the stock *)

\* The request that created a product has not recorded its initial stock yet.
Recording(w) == pc[w] = "created" \/ (pc[w] = "stamped" /\ row[w].initial)

\* Nothing is about a product without a row.
BirthInv ==
    /\ \A m \in movements : stock_qty[m.product] # None
    /\ \A w \in Workers : pc[w] # "idle" => stock_qty[job[w]] # None

\* A product's initial stock is recorded once at most, by the request that created it.
RecordingInv ==
    /\ \A w \in Workers : Recording(w) => ~Recorded(job[w])
    /\ \A v, w \in Workers : Recording(v) /\ Recording(w) /\ v # w => job[v] # job[w]

\* What a row about to commit says of the stock is still true.
PendingInv ==
    \A w \in Workers : pc[w] = "stamped" =>
        /\ row[w].initial => row[w].qty_delta = InitialStock[job[w]]
        /\ ~row[w].initial => row[w].qty_after = stock_qty[job[w]] + row[w].qty_delta

StockInv == BirthInv /\ RecordingInv /\ PendingInv /\ StockIsExplained

\* What a movement adds to its product and leaves of every other.
LEMMA MovedGrows ==
    ASSUME TypeOK, KeyInv, NEW m \in Row, m \notin movements, movements' = movements \cup {m},
           NEW p \in Products
    PROVE  /\ Moved(p)' = Moved(p) + (IF m.product = p THEN m.qty_delta ELSE 0)
           /\ Recorded(p)' <=> Recorded(p) \/ (m.product = p /\ m.initial)
           /\ Moved(p) \in Int
<1> DEFINE S == RowsOf(p)
           f == [k \in movements |-> k.qty_delta]
           g == [k \in movements' |-> k.qty_delta]
<1>1. Moved(p) = SumFunctionOnSet(f, S) /\ Moved(p)' = SumFunctionOnSet(g, RowsOf(p)')
    BY DEF Moved
<1>2. /\ S \subseteq movements /\ IsFiniteSet(S) /\ m \notin S
      /\ RowsOf(p)' = IF m.product = p THEN S \cup {m} ELSE S
    BY FS_Subset DEF RowsOf, KeyInv
<1>3. /\ \A k \in S : f[k] \in Int /\ f[k] = g[k]
      /\ \A k \in S \cup {m} : g[k] \in Int
      /\ g[m] = m.qty_delta
    BY <1>2 DEF TypeOK, Row
<1> HIDE DEF S, f, g
<1>4. SumFunctionOnSet(f, S) = SumFunctionOnSet(g, S)
    BY <1>2, <1>3, SumSame
<1>5. SumFunctionOnSet(g, S \cup {m}) = SumFunctionOnSet(g, S) + g[m]
    BY <1>2, <1>3, SumAdd
<1>6. SumFunctionOnSet(f, S) \in Int
    BY <1>2, <1>3, SumInt
<1>7. Recorded(p)' <=> Recorded(p) \/ (m.product = p /\ m.initial)
    BY <1>2 DEF Recorded, S
<1> QED
    BY <1>1, <1>2, <1>3, <1>4, <1>5, <1>6, <1>7

LEMMA MovedIsNumber ==
    ASSUME TypeOK, KeyInv, NEW p \in Products
    PROVE  Moved(p) \in Int
<1> DEFINE S == RowsOf(p)
           f == [k \in movements |-> k.qty_delta]
<1>1. IsFiniteSet(S) /\ \A k \in S : f[k] \in Int
    BY FS_Subset DEF RowsOf, KeyInv, TypeOK, Row
<1> HIDE DEF S, f
<1>2. SumFunctionOnSet(f, S) \in Int
    BY <1>1, SumInt
<1> QED
    BY <1>2 DEF Moved, S, f

LEMMA NothingMoves ==
    ASSUME movements' = movements, NEW p \in Products
    PROVE  Moved(p)' = Moved(p) /\ (Recorded(p)' <=> Recorded(p))
BY DEF Moved, Recorded, RowsOf

\* Before its first movement a product has moved nothing.
LEMMA NothingMoved ==
    ASSUME BirthInv, NEW p \in Products, stock_qty[p] = None
    PROVE  Moved(p) = 0 /\ ~Recorded(p) /\ \A w \in Workers : pc[w] # "idle" => job[w] # p
<1>1. RowsOf(p) = {}
    BY DEF BirthInv, RowsOf
<1>2. Moved(p) = 0
    BY <1>1, SumEmpty DEF Moved
<1> QED
    BY <1>1, <1>2 DEF Recorded, BirthInv

\* A request that ends without a commit leaves the books as they are.
LEMMA FinishKeepsStock ==
    ASSUME TypeOK, StockInv, NEW w \in Workers, Finish(w), UNCHANGED <<stock_qty, movements>>
    PROVE  StockInv'
<1>1. /\ pc'[w] = "idle"
      /\ \A v \in Workers : v # w => pc'[v] = pc[v] /\ job'[v] = job[v] /\ row'[v] = row[v]
    BY DEF Finish, TypeOK
<1>2. \A v \in Workers : Recording(v)' => v # w /\ Recording(v)
    BY <1>1 DEF Recording
<1>3. BirthInv'
    BY <1>1 DEF StockInv, BirthInv
<1>4. RecordingInv'
    BY <1>1, <1>2 DEF StockInv, RecordingInv, Recorded, RowsOf
<1>5. PendingInv'
    BY <1>1 DEF StockInv, PendingInv
<1>6. StockIsExplained'
    BY NothingMoves DEF StockInv, StockIsExplained
<1> QED
    BY <1>3, <1>4, <1>5, <1>6 DEF StockInv

LEMMA CreateKeepsStock ==
    ASSUME TypeOK, RequestInv, StockInv, NEW w \in Workers, NEW p \in Products, CreateProduct(w, p)
    PROVE  StockInv'
<1>1. /\ stock_qty[p] = None /\ pc[w] = "idle"
      /\ stock_qty' = [stock_qty EXCEPT ![p] = InitialStock[p]]
      /\ pc' = [pc EXCEPT ![w] = "created"] /\ job' = [job EXCEPT ![w] = p]
      /\ UNCHANGED <<movements, row>>
    BY DEF CreateProduct
<1>2. InitialStock[p] \in Nat /\ InitialStock[p] # None
    BY InventoryAssumption, InventoryNoneAssumption
<1>3. Moved(p) = 0 /\ ~Recorded(p) /\ \A v \in Workers : pc[v] # "idle" => job[v] # p
    BY <1>1, NothingMoved DEF StockInv
<1>4. /\ pc'[w] = "created" /\ job'[w] = p
      /\ \A v \in Workers : v # w => pc'[v] = pc[v] /\ job'[v] = job[v]
      /\ stock_qty'[p] = InitialStock[p]
      /\ \A q \in Products : q # p => stock_qty'[q] = stock_qty[q]
    BY <1>1 DEF TypeOK
<1>5. \A v \in Workers : v # w => (Recording(v)' <=> Recording(v))
    BY <1>1, <1>4 DEF Recording
<1>6. BirthInv'
    <2>1. \A m \in movements : m.product \in Products
        BY DEF TypeOK, Row
    <2>2. \A v \in Workers : v # w /\ pc[v] # "idle" => job[v] \in Products
        BY DEF RequestInv
    <2> QED
        BY <1>1, <1>2, <1>4, <2>1, <2>2 DEF StockInv, BirthInv
<1>7. RecordingInv'
    <2>1. \A q : Recorded(q)' <=> Recorded(q)
        BY <1>1 DEF Recorded, RowsOf
    <2>2. \A v \in Workers : v # w /\ Recording(v) => job[v] # p
        BY <1>3 DEF Recording
    <2>3. ASSUME NEW v \in Workers, Recording(v)'
          PROVE  (~Recorded(job[v]))'
        BY <1>3, <1>4, <1>5, <2>1, <2>3 DEF StockInv, RecordingInv
    <2>4. ASSUME NEW u \in Workers, NEW v \in Workers, Recording(u)', Recording(v)', u # v
          PROVE  job'[u] # job'[v]
        BY <1>4, <1>5, <2>2, <2>4 DEF StockInv, RecordingInv
    <2> QED
        BY <2>3, <2>4 DEF RecordingInv
<1>8. PendingInv'
    <2>1. \A v \in Workers : pc'[v] = "stamped" => v # w /\ pc[v] = "stamped" /\ job[v] # p /\ job[v] \in Products
        BY <1>3, <1>4 DEF RequestInv
    <2> QED
        BY <1>1, <1>4, <2>1 DEF StockInv, PendingInv
<1>9. StockIsExplained'
    BY <1>1, <1>2, <1>3, <1>4, NothingMoves DEF StockInv, StockIsExplained
<1> QED
    BY <1>6, <1>7, <1>8, <1>9 DEF StockInv

LEMMA RecordKeepsStock ==
    ASSUME TypeOK, RequestInv, StockInv, NEW w \in Workers, RecordInitialStock(w)
    PROVE  StockInv'
<1>1. PICK m \in Row : Builds(w, m) /\ m.initial /\ m.qty_delta = InitialStock[job[w]]
    BY RecordBuilds
<1>2. pc[w] = "created" /\ UNCHANGED <<stock_qty, movements, job>>
    BY DEF RecordInitialStock
<1>3. /\ pc'[w] = "stamped" /\ row'[w] = m
      /\ \A v \in Workers : v # w => pc'[v] = pc[v] /\ row'[v] = row[v]
    BY <1>1 DEF Builds, TypeOK
<1>4. \A v \in Workers : Recording(v)' <=> Recording(v)
    BY <1>1, <1>2, <1>3 DEF Recording
<1>5. BirthInv'
    BY <1>2, <1>3 DEF StockInv, BirthInv
<1>6. RecordingInv'
    BY <1>2, <1>4 DEF StockInv, RecordingInv, Recorded, RowsOf
<1>7. PendingInv'
    BY <1>1, <1>2, <1>3 DEF StockInv, PendingInv
<1>8. StockIsExplained'
    BY <1>2, NothingMoves DEF StockInv, StockIsExplained
<1> QED
    BY <1>5, <1>6, <1>7, <1>8 DEF StockInv

LEMMA MutationKeepsStock ==
    ASSUME TypeOK, StockInv, NEW w \in Workers, NEW p \in Products, BeginMutation(w, p)
    PROVE  StockInv'
<1>1. PICK m \in Row : Builds(w, m) /\ ~m.initial /\ m.qty_after = stock_qty[p] + m.qty_delta
    BY MutationBuilds
<1>2. /\ pc[w] = "idle" /\ stock_qty[p] # None /\ UNCHANGED <<stock_qty, movements>>
      /\ job' = [job EXCEPT ![w] = p]
    BY DEF BeginMutation
<1>3. /\ pc'[w] = "stamped" /\ row'[w] = m /\ job'[w] = p
      /\ \A v \in Workers : v # w => pc'[v] = pc[v] /\ row'[v] = row[v] /\ job'[v] = job[v]
    BY <1>1, <1>2 DEF Builds, TypeOK
<1>4. \A v \in Workers : Recording(v)' => v # w /\ Recording(v)
    BY <1>1, <1>3 DEF Recording
<1>5. BirthInv'
    BY <1>2, <1>3 DEF StockInv, BirthInv
<1>6. RecordingInv'
    BY <1>2, <1>3, <1>4 DEF StockInv, RecordingInv, Recorded, RowsOf
<1>7. PendingInv'
    BY <1>1, <1>2, <1>3 DEF StockInv, PendingInv
<1>8. StockIsExplained'
    BY <1>2, NothingMoves DEF StockInv, StockIsExplained
<1> QED
    BY <1>5, <1>6, <1>7, <1>8 DEF StockInv

LEMMA CommitKeepsStock ==
    ASSUME TypeOK, KeyInv, RequestInv, StockInv, NEW w \in Workers, Commit(w)
    PROVE  StockInv'
<1> DEFINE m == row[w]
           p == job[w]
<1>1. /\ pc[w] = "stamped" /\ movements' = movements \cup {m} /\ Finish(w)
      /\ stock_qty' = [stock_qty EXCEPT ![p] = IF m.initial THEN stock_qty[p] ELSE m.qty_after]
    BY DEF Commit
<1>2. /\ m \in Row /\ m.product = p /\ m \notin movements /\ p \in Products
      /\ m.qty_delta \in Int /\ m.qty_after \in Nat /\ m.initial \in BOOLEAN
    <2>1. m # None /\ m.product = p /\ p \in Products
        BY <1>1 DEF RequestInv
    <2>2. m \in Row /\ m \notin movements
        BY <2>1 DEF TypeOK, KeyInv
    <2> HIDE DEF m
    <2> QED
        BY <2>1, <2>2 DEF Row
<1>3. /\ pc'[w] = "idle"
      /\ \A v \in Workers : v # w => pc'[v] = pc[v] /\ job'[v] = job[v] /\ row'[v] = row[v]
    BY <1>1 DEF Finish, TypeOK
<1>4. /\ stock_qty[p] \in Nat /\ stock_qty[p] # None
      /\ m.initial => m.qty_delta = InitialStock[p] /\ ~Recorded(p)
      /\ ~m.initial => m.qty_after = stock_qty[p] + m.qty_delta
    BY <1>1, <1>2 DEF StockInv, BirthInv, RecordingInv, Recording, PendingInv, TypeOK
<1>5. \A v \in Workers : Recording(v)' => v # w /\ Recording(v)
    BY <1>3 DEF Recording
<1>6. \* No other request changes the stock of this product, or records it.
      \A v \in Workers : v # w /\ pc[v] = "stamped" /\ ~row[v].initial /\ ~m.initial => job[v] # p
    BY <1>1, <1>2 DEF RequestInv
<1>7. \A v \in Workers : Recording(v) /\ v # w /\ m.initial => job[v] # p
    BY <1>1 DEF StockInv, RecordingInv, Recording
<1>8. \A q \in Products : /\ q # p => stock_qty'[q] = stock_qty[q]
                          /\ stock_qty'[q] = None <=> stock_qty[q] = None
    BY <1>1, <1>2, <1>4, InventoryNoneAssumption DEF TypeOK
<1>9. stock_qty'[p] = IF m.initial THEN stock_qty[p] ELSE stock_qty[p] + m.qty_delta
    BY <1>1, <1>2, <1>4 DEF TypeOK
<1>10. \A q \in Products :
          /\ Moved(q)' = Moved(q) + (IF p = q THEN m.qty_delta ELSE 0)
          /\ Recorded(q)' <=> Recorded(q) \/ (p = q /\ m.initial)
          /\ Moved(q) \in Int
    <2> HIDE DEF m
    <2> QED
        BY <1>1, <1>2, MovedGrows
<1> HIDE DEF m, p
<1>11. BirthInv'
    <2>1. \A n \in movements' : n.product \in Products /\ (n \in movements \/ n.product = p)
        BY <1>1, <1>2 DEF TypeOK, Row
    <2>2. \A v \in Workers : v # w /\ pc[v] # "idle" => job[v] \in Products
        BY DEF RequestInv
    <2>3. ASSUME NEW n \in movements'
          PROVE  stock_qty'[n.product] # None
        BY <1>4, <1>8, <2>1 DEF StockInv, BirthInv
    <2>4. ASSUME NEW v \in Workers, pc'[v] # "idle"
          PROVE  stock_qty'[job'[v]] # None
        BY <1>3, <1>8, <2>2, <2>4 DEF StockInv, BirthInv
    <2> QED
        BY <2>3, <2>4 DEF BirthInv
<1>12. RecordingInv'
    <2>1. ASSUME NEW v \in Workers, Recording(v)'
          PROVE  (~Recorded(job[v]))'
        <3>1. v # w /\ Recording(v) /\ job'[v] = job[v] /\ job[v] \in Products
            BY <1>3, <1>5, <2>1 DEF Recording, RequestInv
        <3>2. ~Recorded(job[v]) /\ ~(p = job[v] /\ m.initial)
            BY <1>7, <3>1 DEF StockInv, RecordingInv
        <3>3. PICK q \in Products : q = job[v]
            BY <3>1
        <3>4. ~Recorded(q)'
            BY <1>10, <3>2, <3>3
        <3> QED
            BY <3>1, <3>3, <3>4 DEF Recorded, RowsOf
    <2>2. ASSUME NEW u \in Workers, NEW v \in Workers, Recording(u)', Recording(v)', u # v
          PROVE  job'[u] # job'[v]
        BY <1>3, <1>5, <2>2 DEF StockInv, RecordingInv
    <2> QED
        BY <2>1, <2>2 DEF RecordingInv
<1>13. PendingInv'
    <2> SUFFICES ASSUME NEW v \in Workers, pc'[v] = "stamped"
                 PROVE  /\ row'[v].initial => row'[v].qty_delta = InitialStock[job'[v]]
                        /\ ~row'[v].initial =>
                              row'[v].qty_after = stock_qty'[job'[v]] + row'[v].qty_delta
        BY DEF PendingInv
    <2>1. v # w /\ pc[v] = "stamped" /\ row'[v] = row[v] /\ job'[v] = job[v] /\ job[v] \in Products
        BY <1>3 DEF RequestInv
    <2>2. /\ row[v].initial => row[v].qty_delta = InitialStock[job[v]]
          /\ ~row[v].initial => row[v].qty_after = stock_qty[job[v]] + row[v].qty_delta
        BY <2>1 DEF StockInv, PendingInv
    <2>3. ~row[v].initial => stock_qty'[job[v]] = stock_qty[job[v]]
        BY <1>6, <1>8, <1>9, <2>1
    <2> QED
        BY <2>1, <2>2, <2>3
<1>14. StockIsExplained'
    <2> SUFFICES ASSUME NEW q \in Products, stock_qty'[q] # None
                 PROVE  stock_qty'[q] = Moved(q)' + (IF Recorded(q)' THEN 0 ELSE InitialStock[q])
        BY DEF StockIsExplained
    <2>1. stock_qty[q] = Moved(q) + (IF Recorded(q) THEN 0 ELSE InitialStock[q])
        BY <1>8 DEF StockInv, StockIsExplained
    <2>2. InitialStock[q] \in Nat
        BY InventoryAssumption
    <2>3. CASE q = p
        BY <1>2, <1>4, <1>9, <1>10, <2>1, <2>2, <2>3
    <2>4. CASE q # p
        BY <1>8, <1>10, <2>1, <2>2, <2>4
    <2> QED
        BY <2>3, <2>4
<1> QED
    BY <1>11, <1>12, <1>13, <1>14 DEF StockInv

LEMMA StockStep == IInv /\ StockInv /\ [Next]_vars => StockInv'
<1> SUFFICES ASSUME TypeOK, KeyInv, RequestInv, StockInv, [Next]_vars
             PROVE  StockInv'
    BY DEF IInv
<1>1. CASE UNCHANGED writers
    <2>1. StockIsExplained'
        BY <1>1, NothingMoves DEF writers, StockInv, StockIsExplained
    <2>2. BirthInv' /\ RecordingInv' /\ PendingInv'
        BY <1>1 DEF writers, StockInv, BirthInv, RecordingInv, Recording, Recorded, RowsOf, PendingInv
    <2> QED
        BY <2>1, <2>2 DEF StockInv
<1>2. ASSUME NEW w \in Workers, NEW p \in Products, CreateProduct(w, p) \/ BeginMutation(w, p)
      PROVE  StockInv'
    BY <1>2, CreateKeepsStock, MutationKeepsStock
<1>3. ASSUME NEW w \in Workers, EndUnrecorded(w) \/ BarcodeFails(w) \/ Crash(w)
      PROVE  StockInv'
    BY <1>3, FinishKeepsStock DEF EndUnrecorded, BarcodeFails, Crash
<1>4. ASSUME NEW w \in Workers, RecordInitialStock(w) \/ Commit(w)
      PROVE  StockInv'
    BY <1>4, RecordKeepsStock, CommitKeepsStock
<1>5. CASE UNCHANGED vars \/ Tick \/ \E r \in Readers : FirstPage(r) \/ NextPage(r)
    BY <1>1, <1>5 DEF vars, Tick, FirstPage, NextPage
<1> QED
    BY <1>2, <1>3, <1>4, <1>5 DEF Next, Quiescent

-------------------------------------------------------------------------------
(* What follows *)

LEMMA StepIInv == IInv /\ [Next]_vars => IInv'
BY TypeStep, KeyStep, RequestStep, TimeStep, WalkStep DEF IInv

LEMMA IInvAlways == Spec => []IInv
BY InitIInv, StepIInv, PTL DEF Spec

\* Every reachable state is well typed, negative stock included.
THEOREM InventoryTypeCorrect == Spec => []TypeOK
<1>1. IInv => TypeOK
    BY DEF IInv
<1> QED
    BY <1>1, IInvAlways, PTL

\* Paging by cursor returns every movement that was there at the start exactly once,
\* newest first, whatever the page sizes, the filter, and the rows that commit between
\* the pages, however late and with whatever time.
THEOREM PagingIsExact == Spec => []WalkIsExact
<1>1. IInv => WalkIsExact
    BY DEF IInv, WalkInv, WalkIsExact
<1> QED
    BY <1>1, IInvAlways, PTL

\* select_for_update held from the read of the stock to the commit keeps the ledger of
\* every product in the order of its times.
THEOREM LedgerIsInOrder == Spec => LedgerGrowsForward
<1>1. IInv /\ [Next]_vars =>
        [\A m \in movements' \ movements, n \in movements :
            m.product = n.product /\ ~m.initial /\ ~n.initial => n.created_at <= m.created_at]_vars
    <2> SUFFICES ASSUME IInv, [Next]_vars, NEW m \in movements' \ movements, NEW n \in movements,
                        m.product = n.product, ~m.initial, ~n.initial
                 PROVE  n.created_at <= m.created_at
        OBVIOUS
    <2>1. PICK w \in Workers : Commit(w)
        BY StepsOnRows DEF IInv
    <2>2. m = row[w] /\ row[w] # None
        BY <2>1 DEF Commit, IInv, RequestInv
    <2> QED
        BY <2>2 DEF IInv, TimeInv
<1> QED
    BY <1>1, IInvAlways, PTL DEF Spec, LedgerGrowsForward

\* However requests that create a product, record its first stock and change it
\* interleave, and wherever they crash, the stock of a product is the sum of its
\* movements, but for a first stock that is not recorded.
THEOREM StockExplained == Spec => []StockIsExplained
<1>1. Init => StockInv
    BY DEF Init, StockInv, BirthInv, RecordingInv, Recording, PendingInv, StockIsExplained
<1>2. StockInv => StockIsExplained
    BY DEF StockInv
<1> QED
    BY <1>1, <1>2, IInvAlways, StockStep, PTL DEF Spec

-------------------------------------------------------------------------------
(* Where an initial stock can stay unrecorded *)

\* A stock that is not recorded is about to be.
OwedInv ==
    \A p \in Products : stock_qty[p] # None /\ ~Recorded(p) /\ InitialStock[p] # 0 =>
        \E w \in Workers : Recording(w) /\ job[w] = p

\* A step of w other than the two ends leaves whoever else records a stock at it.
LEMMA RecordersStay ==
    ASSUME TypeOK, NEW w \in Workers, NEW v \in Workers, v # w, Recording(v),
           \/ \E p \in Products : CreateProduct(w, p) \/ BeginMutation(w, p)
           \/ EndUnrecorded(w) \/ RecordInitialStock(w) \/ Commit(w)
    PROVE  Recording(v)' /\ job'[v] = job[v]
<1>1. CASE Finish(w)
    BY <1>1 DEF Finish, Recording, TypeOK
<1>2. ASSUME NEW p \in Products, CreateProduct(w, p)
      PROVE  Recording(v)' /\ job'[v] = job[v]
    BY <1>2 DEF CreateProduct, Recording, TypeOK
<1>3. ASSUME NEW p \in Products, BeginMutation(w, p)
      PROVE  Recording(v)' /\ job'[v] = job[v]
    BY <1>3 DEF BeginMutation, Stamp, Recording, TypeOK
<1>4. CASE RecordInitialStock(w)
    BY <1>4 DEF RecordInitialStock, Stamp, Recording, TypeOK
<1> QED
    BY <1>1, <1>2, <1>3, <1>4 DEF EndUnrecorded, Commit

LEMMA OwedStep ==
    ASSUME Unprintable = {}, MaxCrashes = 0, IInv, StockInv, OwedInv, [Next]_vars
    PROVE  OwedInv'
<1>0. TypeOK /\ KeyInv /\ RequestInv
    BY DEF IInv
<1> SUFFICES ASSUME NEW p \in Products, stock_qty'[p] # None, ~Recorded(p)', InitialStock[p] # 0
             PROVE  \E v \in Workers : Recording(v)' /\ job'[v] = p
    BY DEF OwedInv, Recorded, RowsOf
<1> DEFINE Owed == stock_qty[p] # None /\ ~Recorded(p)
<1>1. ASSUME Owed PROVE \E v \in Workers : Recording(v) /\ job[v] = p
    BY <1>1 DEF OwedInv
<1>2. CASE UNCHANGED writers
    BY <1>1, <1>2 DEF writers, Recorded, RowsOf, Recording
<1>3. ASSUME NEW w \in Workers, NEW q \in Products, CreateProduct(w, q)
      PROVE  \E v \in Workers : Recording(v)' /\ job'[v] = p
    <2>1. CASE p = q
        BY <1>0, <1>3, <2>1 DEF CreateProduct, TypeOK, Recording
    <2>2. CASE p # q
        <3>1. Owed
            BY <1>0, <1>3, <2>2 DEF CreateProduct, TypeOK, Recorded, RowsOf
        <3>2. pc[w] = "idle"
            BY <1>3 DEF CreateProduct
        <3> QED
            BY <1>0, <1>1, <1>3, <3>1, <3>2, RecordersStay DEF Recording
    <2> QED
        BY <2>1, <2>2
<1>4. ASSUME NEW w \in Workers, NEW q \in Products, BeginMutation(w, q)
      PROVE  \E v \in Workers : Recording(v)' /\ job'[v] = p
    <2>1. Owed /\ pc[w] = "idle"
        BY <1>4 DEF BeginMutation, Recorded, RowsOf
    <2> QED
        BY <1>0, <1>1, <1>4, <2>1, RecordersStay DEF Recording
<1>5. ASSUME NEW w \in Workers, EndUnrecorded(w)
      PROVE  \E v \in Workers : Recording(v)' /\ job'[v] = p
    <2>1. Owed
        BY <1>5 DEF EndUnrecorded, Recorded, RowsOf
    <2>2. InitialStock[job[w]] = 0
        BY <1>5 DEF EndUnrecorded
    <2> QED
        BY <1>0, <1>1, <1>5, <2>1, <2>2, RecordersStay
<1>6. ASSUME NEW w \in Workers, RecordInitialStock(w)
      PROVE  \E v \in Workers : Recording(v)' /\ job'[v] = p
    <2>1. Owed
        BY <1>6 DEF RecordInitialStock, Recorded, RowsOf
    <2>2. PICK v \in Workers : Recording(v) /\ job[v] = p
        BY <1>1, <2>1
    <2>3. Recording(w)' /\ job'[w] = job[w]
        BY <1>0, <1>6, RecordBuilds DEF RecordInitialStock, Builds, Recording, TypeOK
    <2> QED
        BY <1>0, <1>6, <2>2, <2>3, RecordersStay
<1>7. ASSUME NEW w \in Workers, Commit(w)
      PROVE  \E v \in Workers : Recording(v)' /\ job'[v] = p
    <2>1. /\ pc[w] = "stamped" /\ row[w] # None /\ row[w].product = job[w] /\ job[w] \in Products
          /\ row[w] \notin movements /\ row[w] \in Row /\ movements' = movements \cup {row[w]}
        BY <1>0, <1>7 DEF Commit, RequestInv, KeyInv, TypeOK
    <2>2. ~Recorded(p) /\ ~(row[w].initial /\ job[w] = p)
        BY <1>0, <2>1, MovedGrows
    <2>3. stock_qty[p] # None
        BY <1>0, <1>7, <2>1 DEF Commit, TypeOK, StockInv, BirthInv
    <2>4. PICK v \in Workers : Recording(v) /\ job[v] = p
        BY <1>1, <2>2, <2>3
    <2>5. v # w
        BY <2>1, <2>2, <2>4 DEF Recording
    <2> QED
        BY <1>0, <1>7, <2>4, <2>5, RecordersStay
<1>8. ASSUME NEW w \in Workers, BarcodeFails(w) \/ Crash(w) PROVE FALSE
    BY <1>0, <1>8 DEF BarcodeFails, Crash, TypeOK
<1>9. CASE UNCHANGED vars \/ Tick \/ \E r \in Readers : FirstPage(r) \/ NextPage(r)
    BY <1>2, <1>9 DEF vars, Tick, FirstPage, NextPage
<1> QED
    BY <1>3, <1>4, <1>5, <1>6, <1>7, <1>8, <1>9 DEF Next, Quiescent

\* The stock of a product that is being created by nobody is the sum of its movements
\* (products/signals.py:5-7), provided that every barcode can be drawn and no request
\* dies: an exception between the two commits of a creation is the only way to a stock
\* that no movement explains.
THEOREM StockIsTheSumOfMovements ==
    ASSUME Unprintable = {}, MaxCrashes = 0
    PROVE  Spec => []StockIsSumOfMovements
<1>1. Init => StockInv /\ OwedInv
    BY DEF Init, StockInv, BirthInv, RecordingInv, Recording, PendingInv, StockIsExplained, OwedInv
<1>2. IInv /\ StockInv /\ OwedInv => StockIsSumOfMovements
    <2> SUFFICES ASSUME IInv, StockInv, OwedInv, NEW p \in Products, stock_qty[p] # None,
                        \A w \in Workers : job[w] # p
                 PROVE  stock_qty[p] = Moved(p)
        BY DEF StockIsSumOfMovements
    <2>1. Recorded(p) \/ InitialStock[p] = 0
        BY DEF OwedInv
    <2>2. Moved(p) \in Int
        BY MovedIsNumber DEF IInv
    <2> QED
        BY <2>1, <2>2 DEF StockInv, StockIsExplained
<1>3. IInv /\ StockInv /\ OwedInv /\ [Next]_vars => OwedInv'
    BY OwedStep
<1> QED
    BY <1>1, <1>2, <1>3, IInvAlways, StockStep, PTL DEF Spec

===============================================================================
