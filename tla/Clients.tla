-------------------------------- MODULE Clients --------------------------------
(***************************************************************************)
(* The HTTP clients of the two providers, Blink and BitLibera: what a call *)
(* may do at the provider, what comes back, and what the caller is told.   *)
(*                                                                         *)
(* A call is one request and at most one reply.  The client gives up after *)
(* its timeout while the request may still be on its way, so the provider  *)
(* may serve it later.  Who calls, and in which order, is up to adapters   *)
(* that are not part of the repository.                                    *)
(***************************************************************************)
EXTENDS Integers, Sequences

CONSTANTS
    Callers,    \* threads that use a client
    Invoices,   \* BOLT11 invoices of Blink
    Offramps,   \* BitLibera orders, by order_id
    Onramps,
    HttpErrors, \* HTTP codes the providers answer with when they do not say 200
    MaxCalls,   \* bound: calls begun, polls of a watcher not counted
    None

Orders == Invoices \cup Offramps \cup Onramps

BlinkCalls == {"create_invoice", "invoice_status", "cancel_invoice", "pay_invoice"}
BitLiberaCalls == {"request_onramp_otp", "execute_onramp", "create_offramp_invoice", "order_status"}
StatusCalls == {"invoice_status", "order_status"}

\* What the calls are made about; FOBOS pays invoices that BitLibera gave out.
Subjects ==
    Invoices \X {"create_invoice", "invoice_status", "cancel_invoice"}
      \cup Offramps \X {"create_offramp_invoice", "order_status", "pay_invoice"}
      \cup Onramps \X {"request_onramp_otp", "execute_onramp", "order_status"}

Provider(op) == IF op \in BlinkCalls THEN "blink" ELSE "bitlibera"

OrderStates == {"none", "PENDING", "PENDING_PAYMENT", "ON_HOLD", "PAID", "COMPLETED",
                "SETTLED", "EXPIRED", "FAILED", "CANCELLED"}

\* What Blink says of a payment it was asked to send, beside PENDING, and of an
\* invoice it was asked to cancel.
SendResults == {"SUCCESS", "FAILURE", "ALREADY_PAID"}

Canonical == {"pending", "paid", "expired", "failed", "cancelled"}

\* Errors after which the provider certainly did nothing, and the others.
Definite == {"config", "auth", "rate_limit", "graphql", "mutation", "order"}
Ambiguous == {"timeout", "transport", "api"}

\* "data": what was asked for; "errors": of GraphQL; "refused": errors of the
\* mutation, or BitLibera's success = false; "empty": JSON with none of it;
\* "junk": no JSON.
Reply == [code : {200} \cup HttpErrors,
          body : {"data", "errors", "refused", "empty", "junk"},
          state : OrderStates \cup SendResults]

Values == Canonical \cup {"", "ok", "success", "failure", "already_paid", "other"}

Call == [op : BlinkCalls \cup BitLiberaCalls, order : Orders,
         before : OrderStates, did : BOOLEAN, reply : Reply \cup {None},
         outcome : {"sent", "returned"} \cup Definite \cup Ambiguous,
         value : Values]

ASSUME ClientsAssumption ==
    /\ MaxCalls \in Nat
    /\ HttpErrors \subseteq 300..599
    /\ None \notin Reply
    /\ None \notin Call
    /\ Invoices \cap (Offramps \cup Onramps) = {}

VARIABLES
    configured,     \* providers whose keys and wallets are in the environment
    state,          \* what the provider has of an order
    call,           \* the last call of a caller
    adrift,         \* requests on their way whose callers have given up
    calls

clientVars == <<configured, state, call, adrift, calls>>

ClientsTypeOK ==
    /\ configured \subseteq {"blink", "bitlibera"}
    /\ state \in [Orders -> OrderStates]
    /\ call \in [Callers -> Call \cup {None}]
    /\ adrift \subseteq Subjects
    /\ calls \in 0..MaxCalls

ClientsInit ==
    /\ configured \in SUBSET {"blink", "bitlibera"}
    /\ state = [o \in Orders |-> "none"]
    /\ call = [c \in Callers |-> None]
    /\ adrift = {}
    /\ calls = 0

-------------------------------------------------------------------------------
(* Slips a change of the code could make *)

\* execute with ">= 429" for the rate limit.
EagerRateLimit(r) ==
    IF r.code \in {401, 403} THEN "auth"
    ELSE IF r.code >= 429 THEN "rate_limit"
    ELSE IF r.body = "junk" THEN "api"
    ELSE IF r.body = "errors" THEN "graphql"
    ELSE "returned"

\* _parse without its look at "success".
ParseAnyBody(r) ==
    IF r.code \in {401, 403} THEN "auth"
    ELSE IF r.code = 429 THEN "rate_limit"
    ELSE IF r.code \notin 200..299 \/ r.body = "junk" THEN "api"
    ELSE "returned"

\* translate_invoice_status without its map.
Untranslated(s) == s

\* ORDER_STATUS_MAP without COMPLETED and SETTLED.
OnlyPaidIsPaid(s) ==
    IF s \in {"PENDING", "PENDING_PAYMENT"} THEN "pending"
    ELSE IF s = "PAID" THEN "paid" ELSE "other"

-------------------------------------------------------------------------------
(* What a caller is told *)

\* BlinkClient.execute.
Execute(r) ==
    IF r.code \in {401, 403} THEN "auth"
    ELSE IF r.code = 429 THEN "rate_limit"
    ELSE IF r.code \notin 200..299 \/ r.body = "junk" THEN "api"
    ELSE IF r.body = "errors" THEN "graphql"
    ELSE "returned"

\* BitLiberaClient._parse.
Parse(r) ==
    IF r.code \in {401, 403} THEN "auth"
    ELSE IF r.code = 429 THEN "rate_limit"
    ELSE IF r.code \notin 200..299 \/ r.body = "junk" THEN "api"
    ELSE IF r.body = "refused" THEN "order"
    ELSE "returned"

\* _raise_mutation_errors: all of Blink's mutations, not the status query.
MutationErrors(op, r) == op # "invoice_status" /\ r.body = "refused"

Outcome(op, r) ==
    IF op \notin BlinkCalls THEN Parse(r)
    ELSE IF Execute(r) = "returned" /\ MutationErrors(op, r) THEN "mutation"
    ELSE Execute(r)

\* translate_invoice_status: PENDING, PAID, EXPIRED; anything else lowercased.
InvoiceStatus(s) ==
    IF s = "PENDING" THEN "pending"
    ELSE IF s = "PAID" THEN "paid"
    ELSE IF s = "EXPIRED" THEN "expired"
    ELSE IF s = "SUCCESS" THEN "success"
    ELSE IF s = "FAILURE" THEN "failure"
    ELSE IF s = "ALREADY_PAID" THEN "already_paid" ELSE "other"

\* translate_order_status.
OrderStatus(s) ==
    IF s \in {"PENDING", "PENDING_PAYMENT"} THEN "pending"
    ELSE IF s \in {"PAID", "COMPLETED", "SETTLED"} THEN "paid"
    ELSE IF s = "EXPIRED" THEN "expired"
    ELSE IF s = "FAILED" THEN "failed"
    ELSE IF s = "CANCELLED" THEN "cancelled" ELSE "other"

\* Bodies in which what was asked for is missing.  BitLibera's are returned whole.
Lacks(op, r) ==
    IF op \in BitLiberaCalls \ StatusCalls THEN r.body = "empty" ELSE r.body # "data"

\* The returned value: a translated status or result, or that there is something;
\* what is missing becomes an empty value without an error, and so does an
\* invoice that was not cancelled.
Value(op, r) ==
    IF Lacks(op, r) THEN ""
    ELSE IF op \in {"invoice_status", "pay_invoice"} THEN InvoiceStatus(r.state)
    ELSE IF op = "order_status" THEN OrderStatus(r.state)
    ELSE IF op = "cancel_invoice" /\ r.state # "SUCCESS" THEN "" ELSE "ok"

-------------------------------------------------------------------------------
(* The provider *)

\* External: when a provider does what it is asked.
Ready(o, op) ==
    IF op \in {"create_invoice", "create_offramp_invoice", "execute_onramp"} THEN state[o] = "none"
    ELSE IF op = "cancel_invoice" THEN state[o] = "PENDING"
    ELSE IF op = "pay_invoice" THEN state[o] = "PENDING_PAYMENT"
    ELSE op \in StatusCalls => state[o] # "none"

\* External: what becomes of the order then; a payment may take its time.
Effects(o, op) ==
    IF op = "create_invoice" THEN {"PENDING"}
    ELSE IF op \in {"create_offramp_invoice", "execute_onramp"} THEN {"PENDING_PAYMENT"}
    ELSE IF op = "pay_invoice" THEN {"PAID", "PENDING_PAYMENT"}
    ELSE IF op = "cancel_invoice" THEN {"EXPIRED"}
    ELSE {state[o]}

\* External: what is said of an order that is s now.
Result(op, s) ==
    IF op \in StatusCalls THEN s
    ELSE IF op = "pay_invoice" /\ s # "PAID" THEN "PENDING"
    ELSE IF op \in {"pay_invoice", "cancel_invoice"} THEN "SUCCESS" ELSE "none"

\* External: the answer to a call that was served, spoilt on the way or not.
Answers(s) ==
    {[code |-> 200, body |-> b, state |-> s] : b \in {"data", "empty", "junk"}}
      \cup {[code |-> n, body |-> "junk", state |-> s] : n \in HttpErrors \ {401, 403, 429}}

\* External: how a provider says no within a success, as no result ...
RefusalBodies(op) ==
    {"empty"} \cup IF op = "invoice_status" THEN {"errors"}
                   ELSE IF op \in BlinkCalls THEN {"errors", "refused"} ELSE {"refused"}

\* ... or as a result.
RefusalResults(op) ==
    IF op = "pay_invoice" THEN {"FAILURE", "ALREADY_PAID"}
    ELSE IF op = "cancel_invoice" THEN {"FAILURE"} ELSE {}

\* External: the answer to a call that was not served.
Refusals(op) ==
    {[code |-> n, body |-> "junk", state |-> "none"] : n \in HttpErrors}
      \cup {[code |-> 200, body |-> b, state |-> "none"] : b \in RefusalBodies(op)}
      \cup {[code |-> 200, body |-> "data", state |-> s] : s \in RefusalResults(op)}

\* External: customers and FOBOS pay, orders run out, are held, paid out, settled
\* or fail; what is paid stays paid.
Moves ==
    {"PENDING"} \X {"PAID", "EXPIRED"}
      \cup {"PENDING_PAYMENT"} \X {"PAID", "ON_HOLD", "EXPIRED", "FAILED", "CANCELLED"}
      \cup {<<"ON_HOLD", "PAID">>, <<"PAID", "COMPLETED">>, <<"PAID", "SETTLED">>}

-------------------------------------------------------------------------------
(* Calls *)

Busy(c) == call[c] # None /\ call[c].outcome = "sent"

Ask(c, op, o, outcome) ==
    call' = [call EXCEPT ![c] =
                [op |-> op, order |-> o, before |-> IF op \in StatusCalls THEN state[o] ELSE "none", did |-> FALSE,
                 reply |-> None, outcome |-> outcome, value |-> ""]]

\* A missing key or wallet is noticed before anything is sent.
Begin(c, op, o) ==
    /\ ~Busy(c)
    /\ Ask(c, op, o, IF Provider(op) \in configured THEN "sent" ELSE "config")
    /\ UNCHANGED <<configured, state, adrift>>

Use(c, op, o) ==
    /\ calls < MaxCalls
    /\ calls' = calls + 1
    /\ Begin(c, op, o)

Unanswered(c) == Busy(c) /\ call[c].reply = None

\* The order of the call becomes s.
Serve(c, s) ==
    /\ Unanswered(c)
    /\ LET o == call[c].order
           op == call[c].op
       IN  /\ Ready(o, op)
           /\ s \in Effects(o, op)
           /\ state' = [state EXCEPT ![o] = s]
           /\ \E r \in Answers(Result(op, s)) :
                 call' = [call EXCEPT ![c].reply = r, ![c].did = TRUE]
    /\ UNCHANGED <<configured, adrift, calls>>

Refuse(c) ==
    /\ Unanswered(c)
    /\ \E r \in Refusals(call[c].op) :
         /\ r.state = "ALREADY_PAID" => state[call[c].order] \in {"PAID", "COMPLETED", "SETTLED"}
         /\ call' = [call EXCEPT ![c].reply = r]
    /\ UNCHANGED <<configured, state, adrift, calls>>

\* The reply is read in time.
Return(c) ==
    /\ Busy(c) /\ call[c].reply # None
    /\ LET r == call[c].reply
           op == call[c].op
       IN call' = [call EXCEPT ![c].reply = None,
                               ![c].outcome = Outcome(op, r),
                               ![c].value = IF Outcome(op, r) = "returned" THEN Value(op, r) ELSE ""]
    /\ UNCHANGED <<configured, state, adrift, calls>>

\* requests.Timeout or another RequestException, before or after the provider
\* has acted; a status that is asked for too late matters to nobody.
GiveUp(c) ==
    /\ Busy(c)
    /\ \E e \in {"timeout", "transport"} :
         call' = [call EXCEPT ![c].reply = None, ![c].outcome = e]
    /\ adrift' = IF Unanswered(c) /\ call[c].op \notin StatusCalls
                 THEN adrift \cup {<<call[c].order, call[c].op>>} ELSE adrift
    /\ UNCHANGED <<configured, state, calls>>

\* A request arrives whose caller no longer waits, or never does.
ServeLate(o, op, s) ==
    /\ <<o, op>> \in adrift
    /\ Ready(o, op)
    /\ s \in Effects(o, op)
    /\ state' = [state EXCEPT ![o] = s]
    /\ adrift' = adrift \ {<<o, op>>}
    /\ UNCHANGED <<configured, call, calls>>

LoseRequest(o, op) ==
    /\ <<o, op>> \in adrift
    /\ adrift' = adrift \ {<<o, op>>}
    /\ UNCHANGED <<configured, state, call, calls>>

Resolve(o, s) ==
    /\ <<state[o], s>> \in Moves
    /\ o \in Invoices => s \notin {"COMPLETED", "SETTLED"}
    /\ state' = [state EXCEPT ![o] = s]
    /\ UNCHANGED <<configured, call, adrift, calls>>

-------------------------------------------------------------------------------
(* Properties *)

Over(c) == call[c] # None /\ call[c].outcome # "sent"

\* An error other than a timeout, a broken transport or an unusable answer
\* means that the call did nothing, so that it may be repeated (the error
\* classes of blink/client.py and bitlibera/client.py keep the two apart).
DefiniteErrorsDidNothing ==
    \A c \in Callers : Over(c) /\ call[c].outcome \in Definite => ~call[c].did

\* Results that promise something was done or is under way.
Promises(v) == v \notin {"", "failure", "already_paid"}

\* A call whose result promises something was served.  A provider says no in
\* many ways within a success: GraphQL errors and the errors of a mutation,
\* success = false of BitLibera (errors of the clients), of a cancellation
\* (False), and FAILURE or ALREADY_PAID for a payment (returned by pay_invoice
\* as what they are); none of them looks like a yes.
ResultsWereServed ==
    \A c \in Callers :
        Over(c) /\ call[c].outcome = "returned" /\ Promises(call[c].value) => call[c].did

\* The ends an order can come to, as the documents name them (doc 24).
Ended(s, v) ==
    \/ v = "paid" /\ s \in {"PAID", "COMPLETED", "SETTLED"}
    \/ v = "expired" /\ s = "EXPIRED"
    \/ v = "failed" /\ s = "FAILED"
    \/ v = "cancelled" /\ s = "CANCELLED"

\* Paid, expired, failed or cancelled is reported of an order only when it is
\* so, and stays so; an order that had ended before the question is reported
\* with its end (translate_invoice_status, translate_order_status).
ReportsAreTrue ==
    \A c \in Callers : Over(c) /\ call[c].op \in StatusCalls /\ call[c].value # "" =>
        /\ call[c].value \notin {"pending", "other"} => Ended(state[call[c].order], call[c].value)
        /\ \A v \in Canonical : Ended(call[c].before, v) => call[c].value = v

===============================================================================
