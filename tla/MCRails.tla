-------------------------------- MODULE MCRails --------------------------------
(* A small instance of Rails for TLC. *)
EXTENDS Rails, TLC

CONSTANTS p1, p2

\* The second sale makes a loss.
Prices == p1 :> 5 @@ p2 :> 2
Costs == p1 :> 2 @@ p2 :> 3

\* Threads and codes are only compared with each other.
Interchangeable == Permutations(Threads) \cup Permutations(Codes)

===============================================================================
