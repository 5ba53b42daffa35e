-------------------------------- MODULE Onramp --------------------------------
(***************************************************************************)
(* Paying with Lumicash through the demo adapters: the codes the on-ramp   *)
(* stand-in keeps in the memory of the server, and the views that ask for  *)
(* a code and confirm an order with it.                                    *)
(*                                                                         *)
(* A code belongs to a phone and an amount, a key here, as the request     *)
(* names them; the order is named beside them and has its own amount.      *)
(* What confirm_payment does in its transaction is Settlement's subject.   *)
(***************************************************************************)
EXTENDS Integers

CONSTANTS
    Payments,       \* Payment rows, by order_id
    Keys,           \* pairs of phone and amount
    Codes,
    Threads,        \* request threads
    MaxIssues,      \* bound: codes asked for
    Nothing

ASSUME OnrampAssumption ==
    /\ MaxIssues \in Nat
    /\ Nothing \notin [code : Codes, nth : Nat]
    /\ Nothing \notin [payment : Payments, key : Keys, code : Codes, nth : Nat]

VARIABLES
    demo,           \* settings.FOBOS_USE_DEMO_ADAPTERS
    registry,       \* rails that have an adapter
    paid,           \* payments with the status PAID
    otps,           \* _otps, by key
    issued,         \* history: codes issued
    request,        \* what a thread is confirming, nth 0 before its code is taken
    spent           \* history: which issue paid for a payment, 0 if none

onrampVars == <<demo, registry, paid, otps, issued, request, spent>>

Adapters == {"bitlibera_offramp", "blink_direct", "bitlibera_onramp"}

Otp == [code : Codes, nth : Nat]
Request == [payment : Payments, key : Keys, code : Codes, nth : Nat]

OnrampTypeOK ==
    /\ demo \in BOOLEAN
    /\ registry \subseteq Adapters
    /\ paid \subseteq Payments
    /\ otps \in [Keys -> Otp \cup {Nothing}]
    /\ issued \in 0..MaxIssues
    /\ request \in [Threads -> Request \cup {Nothing}]
    /\ spent \in [Payments -> Nat]

\* PaymentsConfig.ready registers the stand-ins, or nothing.
OnrampInit ==
    /\ demo \in BOOLEAN
    /\ registry = IF demo THEN Adapters ELSE {}
    /\ paid = {}
    /\ otps = [k \in Keys |-> Nothing]
    /\ issued = 0
    /\ request = [t \in Threads |-> Nothing]
    /\ spent = [p \in Payments |-> 0]

\* A slip: confirm_otp looks with get() and leaves the code where it is.
LeftThere(k) == otps

-------------------------------------------------------------------------------

\* get_adapter, get_onramp_adapter: without an adapter the views answer 503.
Installed(rail) == rail \in registry

\* POST /payments/onramp/request-otp: a new code takes the place of the old one.
RequestOtp(k, code) ==
    /\ Installed("bitlibera_onramp")
    /\ issued < MaxIssues
    /\ issued' = issued + 1
    /\ otps' = [otps EXCEPT ![k] = [code |-> code, nth |-> issued']]
    /\ UNCHANGED <<demo, registry, paid, request, spent>>

\* POST /payments/onramp/confirm: a payment that is PAID is answered at once.
BeginConfirm(t, p, k, code) ==
    /\ Installed("bitlibera_onramp")
    /\ request[t] = Nothing
    /\ p \notin paid
    /\ request' = [request EXCEPT ![t] = [payment |-> p, key |-> k, code |-> code, nth |-> 0]]
    /\ UNCHANGED <<demo, registry, paid, otps, issued, spent>>

\* The store after confirm_otp: pop, whether the code fits or not.
Popped(k) == [otps EXCEPT ![k] = Nothing]

Fits(k, code) == otps[k] # Nothing /\ otps[k].code = code

TakeOtp(t) ==
    /\ request[t] # Nothing /\ request[t].nth = 0
    /\ LET k == request[t].key IN
         /\ otps' = Popped(k)
         /\ request' = [request EXCEPT ![t] =
                           IF Fits(k, request[t].code)
                           THEN [request[t] EXCEPT !.nth = otps[k].nth] ELSE Nothing]
    /\ UNCHANGED <<demo, registry, paid, issued, spent>>

Confirming(t) == request[t] # Nothing /\ request[t].nth # 0

\* A slip: confirm_payment trusts the view's look at the status, and pays again.
PaysAgain(t) ==
    /\ Confirming(t)
    /\ paid' = paid \cup {request[t].payment}
    /\ spent' = [spent EXCEPT ![request[t].payment] = request[t].nth]
    /\ request' = [request EXCEPT ![t] = Nothing]
    /\ UNCHANGED <<demo, registry, otps, issued>>

\* confirm_payment; a payment that is PAID by now stays as it is.
ConfirmPayment(t) ==
    /\ Confirming(t)
    /\ LET p == request[t].payment IN
         /\ paid' = paid \cup {p}
         /\ spent' = [spent EXCEPT ![p] = IF p \in paid THEN @ ELSE request[t].nth]
    /\ request' = [request EXCEPT ![t] = Nothing]
    /\ UNCHANGED <<demo, registry, otps, issued>>

\* confirm_payment raises and rolls back; the code is gone.
ConfirmFails(t) ==
    /\ Confirming(t)
    /\ request' = [request EXCEPT ![t] = Nothing]
    /\ UNCHANGED <<demo, registry, paid, otps, issued, spent>>

\* GET /payments/<id>/status: the stand-ins of both rails say "confirmed" at once.
PollDemo(p, rail) ==
    /\ Installed(rail)
    /\ rail # "bitlibera_onramp"
    /\ p \notin paid
    /\ paid' = paid \cup {p}
    /\ UNCHANGED <<demo, registry, otps, issued, request, spent>>

\* The server restarts: the store is empty, requests are gone, ready() runs again.
Restart ==
    /\ \E k \in Keys : otps[k] # Nothing
    /\ otps' = [k \in Keys |-> Nothing]
    /\ request' = [t \in Threads |-> Nothing]
    /\ UNCHANGED <<demo, registry, paid, issued, spent>>

-------------------------------------------------------------------------------
(* Properties *)

Pays(p) == p \in paid /\ spent[p] # 0

\* One code pays at most one order, however many threads confirm with it at
\* once (payments/demo.py: confirm_otp pops).
OneCodePaysOneOrder ==
    \A p, q \in Payments : Pays(p) /\ spent[p] = spent[q] => p = q

\* What may still pay: the codes in the store and those taken from it.
OpenCodes ==
    {otps[k].nth : k \in {l \in Keys : otps[l] # Nothing}}
        \cup {request[t].nth : t \in {u \in Threads : Confirming(u)}}

OneTime == INSTANCE OneTimeCodes WITH open <- OpenCodes

\* The store, the views and confirm_payment together implement one-time codes:
\* no step opens a code again, and a payment keeps the code it was paid with.
CodesAreOneTime == OneTime!Spec

===============================================================================
