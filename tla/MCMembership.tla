------------------------------ MODULE MCMembership ------------------------------
(* A small instance of Membership for TLC. *)
EXTENDS Membership, TLC

CONSTANTS a, aa, b, c, o1

\* Two spellings of one mailbox, and two other mailboxes.
Spellings == a :> "a" @@ aa :> "a" @@ b :> "b" @@ c :> "c"

\* The owner who is there already.
Homes == o1 :> b

Interchangeable ==
    Permutations(Workers) \cup Permutations(Payments)
      \cup Permutations({a, aa})

===============================================================================
