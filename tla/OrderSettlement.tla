---------------------------- MODULE OrderSettlement ----------------------------
(***************************************************************************)
(* What the checkout-to-ledger flow of FOBOS promises (Tech Spec section 3  *)
(* as sales/services.py states it: "all succeed or all fail together",      *)
(* "idempotent"): a placed order is settled at most once, at once, and      *)
(* takes from the stock what its cart holds; stock is never negative.       *)
(***************************************************************************)
EXTENDS Integers

CONSTANTS Orders, Products, Units, InitialStock, StockChanges

VARIABLES placed, settled, stock

avars == <<placed, settled, stock>>

Init ==
    /\ placed = {}
    /\ settled = {}
    /\ stock = InitialStock

\* A checkout reserves nothing.
Place(o) ==
    /\ placed' = placed \cup {o}
    /\ UNCHANGED <<settled, stock>>

Settle(o) ==
    /\ o \in placed \ settled
    /\ \A p \in Products : stock[p] >= Units[o][p]
    /\ settled' = settled \cup {o}
    /\ stock' = [p \in Products |-> stock[p] - Units[o][p]]
    /\ UNCHANGED placed

\* Restock, or adjust by hand.
ChangeStock(p) ==
    /\ \E delta \in StockChanges :
         /\ stock[p] + delta >= 0
         /\ stock' = [stock EXCEPT ![p] = @ + delta]
    /\ UNCHANGED <<placed, settled>>

Next ==
    \/ \E o \in Orders : Place(o) \/ Settle(o)
    \/ \E p \in Products : ChangeStock(p)

Spec == Init /\ [][Next]_avars

===============================================================================
