----------------------------- MODULE MCInventory -----------------------------
(* Small instances of Inventory for TLC. *)
EXTENDS Inventory, TLC

CONSTANTS p1, p2

TwoAndOne == p1 :> 2 @@ p2 :> 1

OutAndIn == {-2, 1}

Interchangeable == Permutations(Workers)

===============================================================================
