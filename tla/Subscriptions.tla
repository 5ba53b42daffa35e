----------------------------- MODULE Subscriptions -----------------------------
(***************************************************************************)
(* Trials, purchases of offers, their activation and what they open, over  *)
(* time.  How a payment comes to be confirmed is Settlement's subject;     *)
(* here a confirmation is one transaction under the payment's lock, that   *)
(* reads the clock when it begins and commits later.  What a payment's row *)
(* says is another thing than whether it is confirmed: a poll may write    *)
(* over PAID.                                                              *)
(***************************************************************************)
EXTENDS Server

CONSTANTS
    Payments,   \* primary keys, a pool (bound)
    Offers,
    Months,     \* durations an offer can have, in months
    TrialDays,  \* the trial, in instants
    Month,      \* thirty days, in instants
    Span        \* bound: instants a confirmation takes, less than a month

ASSUME SubscriptionsAssumption ==
    /\ Months \subseteq Nat
    /\ TrialDays \in Nat
    /\ Month \in Nat
    /\ Span \in Nat
    /\ Span < Month
    /\ None \notin Nat
    /\ None \notin Businesses
    /\ None \notin Offers
    /\ None \notin Payments

Purchase == [business : Businesses, offer : Offers,
             status : {"pending", "paid", "exhausted"},     \* EXPIRED and FAILED in one
             event : {"none", "confirming", "confirmed"},   \* financial_event, or the lock
             now : Instants]

Subscription == [business : Businesses, payment : Payments \cup {None},
                 status : {"trial", "active"}, started_at : Nat, expires_at : Nat]

ASSUME SubscriptionsNoneAssumption == None \notin Purchase

VARIABLES
    duration,       \* SubscriptionOffer.duration_months, None for a deleted offer
    purchases,      \* Payment rows with purpose "subscription"
    subscriptions,
    trial_at        \* now of a create_trial that found no subscription

subscriptionVars == <<duration, purchases, subscriptions, trial_at>>

SubscriptionsTypeOK ==
    /\ duration \in [Offers -> Months \cup {None}]
    /\ purchases \in [Payments -> Purchase \cup {None}]
    /\ subscriptions \subseteq Subscription
    /\ trial_at \in [Businesses -> Instants \cup {None}]

Trial(b, now) == [business |-> b, payment |-> None, status |-> "trial",
                  started_at |-> now, expires_at |-> now + TrialDays]

SubscriptionsInit ==
    /\ duration \in [Offers -> Months \ {0}]
    /\ purchases = [p \in Payments |-> None]
    /\ subscriptions = {Trial(b, 0) : b \in Settled}
    /\ trial_at = [b \in Businesses |-> None]

-------------------------------------------------------------------------------
(* Slips a change of the code could make *)

\* activate_from_payment without its "or 1".
MonthsAsOffered(o) == IF duration[o] = None THEN 1 ELSE duration[o]

\* has_business_feature without its look at is_expired.
NeverExpired(s) == FALSE

\* Meta.ordering without the minus sign.
OldestOf(b) ==
    {s \in subscriptions : /\ s.business = b
                           /\ \A t \in subscriptions : t.business = b => t.started_at >= s.started_at}

-------------------------------------------------------------------------------
(* Trial and purchase *)

SubscriptionsOf(b) == {s \in subscriptions : s.business = b}

\* create_trial, now and the check: nothing ever writes EXPIRED or CANCELLED.
LookForTrial(b) ==
    /\ SubscriptionsOf(b) = {}
    /\ trial_at' = [trial_at EXCEPT ![b] = clock]
    /\ UNCHANGED <<duration, purchases, subscriptions>>

GrantTrial(b) ==
    /\ subscriptions' = subscriptions \cup {Trial(b, trial_at[b])}
    /\ UNCHANGED <<duration, purchases, trial_at>>

\* SubscriptionOffer.final_price is positive: there is such an offer, for some months.
Priced(o) == duration[o] \notin {None, 0}

\* create_subscription_payment.
Buy(b, p, o) ==
    /\ purchases[p] = None
    /\ Priced(o)
    /\ purchases' = [purchases EXCEPT ![p] = [business |-> b, offer |-> o,
                                              status |-> "pending", event |-> "none",
                                              now |-> clock]]
    /\ Arrives
    /\ UNCHANGED <<duration, subscriptions, trial_at>>

\* External: an administrator changes or deletes an offer, also one being bought.
EditOffer(o) ==
    /\ duration[o] # None
    /\ duration' \in {[duration EXCEPT ![o] = n] : n \in Months \cup {None}}
    /\ Arrives
    /\ UNCHANGED <<purchases, subscriptions, trial_at>>

-------------------------------------------------------------------------------
(* Activation *)

HasEvent(p, e) == purchases[p] # None /\ purchases[p].event = e

\* The payment is locked, whatever its status, and now is read.
BeginConfirmation(p) ==
    /\ HasEvent(p, "none")
    /\ purchases' = [purchases EXCEPT ![p].event = "confirming", ![p].now = clock]
    /\ UNCHANGED <<duration, subscriptions, trial_at, serverVars>>

\* The months bought: the offer's of today, one if it is gone or says zero.
MonthsOf(o) == IF Priced(o) THEN duration[o] ELSE 1

ActivatedBy(p) == {s \in subscriptions : s.payment = p}

Paid(p, now) ==
    [business |-> purchases[p].business, payment |-> p, status |-> "active",
     started_at |-> now, expires_at |-> now + MonthsOf(purchases[p].offer) * Month]

\* A slip: activate_from_payment does not look for an earlier activation.
ActivateAnew(p, now) == subscriptions' = subscriptions \cup {Paid(p, now)}

\* activate_from_payment.
Activate(p, now) ==
    subscriptions' =
        IF ActivatedBy(p) # {} THEN subscriptions ELSE subscriptions \cup {Paid(p, now)}

CommitConfirmation(p) ==
    /\ HasEvent(p, "confirming")
    /\ Activate(p, purchases[p].now)
    /\ purchases' = [purchases EXCEPT ![p].status = "paid", ![p].event = "confirmed"]
    /\ UNCHANGED <<duration, trial_at, serverVars>>

RollBack(p) ==
    /\ HasEvent(p, "confirming")
    /\ purchases' = [purchases EXCEPT ![p].event = "none"]
    /\ UNCHANGED <<duration, subscriptions, trial_at, serverVars>>

\* PaymentStatusView: a poll that read the row when it was PENDING saves EXPIRED or
\* FAILED whatever it is by now; only the lock of a confirmation makes it wait.
SaveExhausted(p) ==
    /\ purchases[p] # None
    /\ ~HasEvent(p, "confirming")
    /\ purchases' = [purchases EXCEPT ![p].status = "exhausted"]
    /\ UNCHANGED <<duration, subscriptions, trial_at, serverVars>>

\* Any later save of the paid payment runs the signal once more.
SaveAgain(p) ==
    /\ HasEvent(p, "confirmed") /\ purchases[p].status = "paid"
    /\ Activate(p, clock)
    /\ Arrives
    /\ UNCHANGED <<duration, purchases, trial_at>>

\* A transaction does not outlast Span.
NoneOverdue ==
    \A p \in Payments : HasEvent(p, "confirming") => clock < purchases[p].now + Span

-------------------------------------------------------------------------------
(* Access *)

\* Rows .first() may return: ordered by -started_at, in no order among equals.
NewestOf(b) ==
    {s \in subscriptions : /\ s.business = b
                           /\ \A t \in subscriptions : t.business = b => t.started_at =< s.started_at}

IsExpired(s) == s.expires_at =< clock

\* has_business_feature for a feature of the full set, asked of the row s.
Opens(s) == ~IsExpired(s) /\ s.status = "active"

FullAccess(b) == SubscriptionsOf(b) # {} /\ \A s \in NewestOf(b) : Opens(s)

-------------------------------------------------------------------------------
(* Properties *)

\* Everything is open only for as long as some purchase of the business runs
\* whose payment was confirmed, whatever a poll has made of its status since
\* (subscriptions/permissions.py: has_business_feature).
AccessWasPaidFor ==
    \A b \in Businesses : FullAccess(b) =>
        \E s \in subscriptions : /\ s.business = b
                                 /\ s.payment # None
                                 /\ purchases[s.payment].event = "confirmed"
                                 /\ s.started_at =< clock /\ clock < s.expires_at

\* In the month that follows a paid purchase everything is open, whatever else
\* is bought and however the offer is edited meanwhile, unless a trial began no
\* earlier (subscriptions/services.py: activate_from_payment, permissions.py).
PaidMonthIsServed ==
    \A s \in subscriptions :
        /\ s.status = "active"
        /\ clock < s.started_at + Month
        /\ \A t \in subscriptions : t.business = s.business /\ t.status = "trial"
                                      => t.started_at < s.started_at
        => FullAccess(s.business)

\* A purchase whose payment was confirmed has activated exactly one subscription,
\* of the business that bought, for at least a month; any other has activated
\* none and is not PAID.  Neither a repeated save of the paid row nor a poll that
\* writes EXPIRED over it changes that (activate_from_payment).
ConfirmedIsActivated ==
    \A p \in Payments : purchases[p] # None =>
        IF purchases[p].event = "confirmed"
        THEN \E s \in subscriptions :
                /\ ActivatedBy(p) = {s}
                /\ s.business = purchases[p].business
                /\ s.expires_at >= s.started_at + Month
        ELSE ActivatedBy(p) = {} /\ purchases[p].status # "paid"

===============================================================================
