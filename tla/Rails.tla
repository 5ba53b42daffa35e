--------------------------------- MODULE Rails ---------------------------------
(***************************************************************************)
(* The payment rails of one deployment: the demo adapters with their       *)
(* codes, and the dashboard that counts what they confirm, or the clients  *)
(* of the providers and the watchers of invoices.                          *)
(***************************************************************************)
EXTENDS InvoiceWatch, Dashboard

vars == <<clientVars, watchVars, onrampVars, dashboardVars>>

localVars == <<onrampVars, dashboardVars>>

TypeOK ==
    /\ ClientsTypeOK
    /\ WatchTypeOK
    /\ OnrampTypeOK
    /\ DashboardTypeOK

\* The clients are used where the demo adapters are not.
Init ==
    /\ ClientsInit
    /\ WatchInit
    /\ OnrampInit
    /\ DashboardInit
    /\ demo => configured = {}

-------------------------------------------------------------------------------
(* Steps of the clients; those who listen hear of every change of an invoice *)

CallStep ==
    /\ ~demo
    /\ \/ \E c \in Callers, s \in Subjects : ~Waits(c) /\ Use(c, s[2], s[1])
       \/ \E c \in Callers : Refuse(c) \/ Return(c) \/ GiveUp(c)
       \/ \E s \in adrift : LoseRequest(s[1], s[2])
    /\ UNCHANGED <<watchVars, localVars>>

ProviderStep ==
    /\ \/ \E c \in Callers, s \in OrderStates : Serve(c, s) /\ Announce(call[c].order, s)
       \/ \E a \in adrift, s \in OrderStates : ServeLate(a[1], a[2], s) /\ Announce(a[1], s)
       \/ \E o \in Orders, s \in OrderStates : Resolve(o, s) /\ Announce(o, s)
    /\ UNCHANGED localVars

SocketStep(w) ==
    \/ HearOn(w) \/ HearEnd(w) \/ HearError(w)
    \/ ConnectionBreaks(w) \/ ConnectionCloses(w) \/ SendFrame(w)

WatchStep ==
    /\ \/ (\E w \in Watchers : SocketStep(w)) /\ UNCHANGED clientVars
       \/ \E w \in Watchers, i \in Invoices : Subscribe(w, i) \/ CannotSubscribe(w, i)
    /\ UNCHANGED localVars

OnrampStep ==
    /\ \/ \E k \in Keys, code \in Codes : RequestOtp(k, code)
       \/ \E t \in Threads, p \in Payments, k \in Keys, code \in Codes : BeginConfirm(t, p, k, code)
       \/ \E t \in Threads : TakeOtp(t) \/ ConfirmPayment(t) \/ ConfirmFails(t)
       \/ \E p \in Payments, rail \in Adapters : PollDemo(p, rail)
       \/ Restart
    /\ Book
    /\ UNCHANGED <<clientVars, watchVars>>

DashboardStep ==
    /\ demo
    /\ Midnight \/ AskDashboard \/ ReadFigure \/ Answer
    /\ UNCHANGED <<clientVars, watchVars, onrampVars>>

\* Nothing is under way, and nobody has to call or confirm again.
Quiescent ==
    /\ \A c \in Callers : ~Busy(c)
    /\ \A w \in Watchers : ~Listens(w)
    /\ \A t \in Threads : request[t] = Nothing
    /\ at = 0
    /\ UNCHANGED vars

Next == CallStep \/ ProviderStep \/ WatchStep \/ OnrampStep \/ DashboardStep \/ Quiescent

Spec == Init /\ [][Next]_vars

===============================================================================
