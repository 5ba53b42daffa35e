---------------------------- MODULE OneTimeCodes ----------------------------
(***************************************************************************)
(* What paying with a one-time code promises (payments/demo.py: "validates *)
(* it"; confirm_payment: "idempotent"): a payment is paid with a code that *)
(* was issued and is still good, the code is no good from then on, and the *)
(* payment keeps the code it was paid with.                                *)
(***************************************************************************)
EXTENDS Naturals

CONSTANT Payments

VARIABLES
    issued,     \* codes are numbered as they are issued
    open,       \* codes that may still pay
    spent       \* the code that paid for a payment, 0 if none

codeVars == <<issued, open, spent>>

Init ==
    /\ issued = 0
    /\ open = {}
    /\ spent = [p \in Payments |-> 0]

\* A code that is asked for may take the place of others.
Issue ==
    /\ issued' = issued + 1
    /\ \E kept \in SUBSET open : open' = kept \cup {issued'}
    /\ UNCHANGED spent

\* Codes are refused, forgotten or used in vain.
Lapse ==
    /\ open' \in SUBSET open
    /\ UNCHANGED <<issued, spent>>

Redeem(p, n) ==
    /\ spent[p] = 0
    /\ n \in open
    /\ open' = open \ {n}
    /\ spent' = [spent EXCEPT ![p] = n]
    /\ UNCHANGED issued

Next ==
    \/ Issue
    \/ Lapse
    \/ \E p \in Payments : \E n \in open : Redeem(p, n)

Spec == Init /\ [][Next]_codeVars

=============================================================================
