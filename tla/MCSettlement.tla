------------------------------ MODULE MCSettlement ------------------------------
(* Small instances of Settlement for TLC. *)
EXTENDS Settlement, TLC

CONSTANTS o1, o2, p1, p2

Of(p, n, cost) == [product |-> p, quantity |-> n, unit_cost |-> cost]

\* Two carts that take the same two products in opposite orders.  Of two of each,
\* o1 could be sold twice, o2 only once, and not both.
OppositeCarts == o1 :> <<Of(p1, 1, 2), Of(p2, 1, 1)>> @@ o2 :> <<Of(p2, 2, 1), Of(p1, 1, 2)>>

\* A cart that names a product twice, and a cart that takes one more.
TwiceCart == o1 :> <<Of(p1, 1, 2), Of(p1, 1, 2)>> @@ o2 :> <<Of(p1, 1, 2)>>

\* A cart and a subscription.
CartAndPlan == o1 :> <<Of(p1, 1, 2)>> @@ o2 :> <<>>

Totals == o1 :> 5 @@ o2 :> 7

ThreeOfEach == [p \in Products |-> 3]
TwoOfEach == [p \in Products |-> 2]

NoChanges == {}
Changes == {-1, 2}

Interchangeable == Permutations(Events) \cup Permutations(Workers)

===============================================================================
