------------------------------ MODULE Membership ------------------------------
(***************************************************************************)
(* Accounts, automation rules and subscriptions together.  A signup passes *)
(* through all three, one commit at a time, and what an owner may do with  *)
(* rules and purchases depends on the account.                             *)
(***************************************************************************)
EXTENDS Accounts, Automation, Subscriptions

vars == <<serverVars, accountVars, automationVars, subscriptionVars>>

TypeOK ==
    /\ ServerTypeOK
    /\ AccountsTypeOK
    /\ AutomationTypeOK
    /\ SubscriptionsTypeOK

Init ==
    /\ ServerInit
    /\ AccountsInit
    /\ AutomationInit
    /\ SubscriptionsInit

-------------------------------------------------------------------------------
(* The middle of a signup *)

Reach(o, from, to) ==
    /\ stage[o] = from
    /\ stage' = [stage EXCEPT ![o] = to]
    /\ UNCHANGED <<serverVars, users, businesses, links, asked, job, tokens, proven>>

\* ensure_default_rule finds a rule of the new business, or none.
SignupFindsRule(o) ==
    /\ Reach(o, "linked", "seeded")
    /\ ~NoDefaultRule(o)
    /\ UNCHANGED <<automationVars, subscriptionVars>>

SignupMissesRule(o) ==
    /\ Reach(o, "linked", "seeding")
    /\ NoDefaultRule(o)
    /\ UNCHANGED <<automationVars, subscriptionVars>>

SignupSeedsRule(o) ==
    /\ Reach(o, "seeding", "seeded")
    /\ AddRule(o)
    /\ UNCHANGED <<missing, subscriptionVars>>

\* create_trial: the business has a subscription already, or gets a trial.
SignupFindsSubscription(o) ==
    /\ Reach(o, "seeded", "granted")
    /\ SubscriptionsOf(o) # {}
    /\ UNCHANGED <<automationVars, subscriptionVars>>

SignupLooksForTrial(o) ==
    /\ Reach(o, "seeded", "trial")
    /\ LookForTrial(o)
    /\ UNCHANGED automationVars

SignupGrantsTrial(o) ==
    /\ Reach(o, "trial", "granted")
    /\ GrantTrial(o)
    /\ UNCHANGED automationVars

SignupStep(o) ==
    \/ SignupFindsRule(o) \/ SignupMissesRule(o) \/ SignupSeedsRule(o)
    \/ SignupFindsSubscription(o) \/ SignupLooksForTrial(o) \/ SignupGrantsTrial(o)

-------------------------------------------------------------------------------
(* What the users of a business do *)

\* Rules are the owner's; an offer is bought by anybody of the business who holds a token.
Member(u, b) == Authenticated(u) /\ users[u].business = b

MemberStep(u, b) ==
    /\ Member(u, b)
    /\ \/ /\ u \in Owners
          /\ (\E r \in Readers : LookForRule(r, b)) \/ PostRule(b)
          /\ UNCHANGED <<accountVars, subscriptionVars>>
       \/ /\ \E p \in Payments, o \in Offers : Buy(b, p, o)
          /\ UNCHANGED <<accountVars, automationVars>>

AccountStep ==
    /\ AccountsNext
    /\ UNCHANGED <<automationVars, subscriptionVars>>

RuleStep ==
    /\ \E r \in Readers : CreateMissingRule(r) \/ AbandonRule(r)
    /\ UNCHANGED <<accountVars, subscriptionVars>>

PaymentStep ==
    /\ \/ \E p \in Payments :
            \/ BeginConfirmation(p) \/ CommitConfirmation(p) \/ RollBack(p)
            \/ SaveAgain(p) \/ SaveExhausted(p)
       \/ \E o \in Offers : EditOffer(o)
    /\ UNCHANGED <<accountVars, automationVars>>

Tick ==
    /\ TimePasses
    /\ NoneOverdue
    /\ UNCHANGED <<accountVars, automationVars, subscriptionVars>>

\* The idle server may rest for ever.
Quiescent ==
    /\ \A u \in Users : stage[u] \notin UnderWay
    /\ \A w \in Workers : job[w] = None
    /\ \A r \in Readers : missing[r] = None
    /\ \A p \in Payments : ~HasEvent(p, "confirming")
    /\ UNCHANGED vars

Next ==
    \/ AccountStep
    \/ \E o \in Owners : SignupStep(o)
    \/ \E u \in Users, b \in Businesses : MemberStep(u, b)
    \/ RuleStep
    \/ PaymentStep
    \/ Tick
    \/ Quiescent

Spec == Init /\ [][Next]_vars

-------------------------------------------------------------------------------
(* Properties *)

\* An owner's account is being made, or its making was cut, or it has all a
\* signup promises: business, link to it, default rule and a subscription
\* (accounts/serializers.py: SignupSerializer.create commits them one by one).
CompleteOrCut ==
    \A o \in Owners : Exists(o) /\ stage[o] \notin UnderWay \cup {"cut"} =>
        /\ o \in businesses
        /\ users[o].business = o
        /\ rules[o] > 0
        /\ SubscriptionsOf(o) # {}

\* Only the passing of time takes a paid access away, never a purchase, an edit
\* of an offer or an account; but a signup that is still granting its trial may.
OnlyTimeTakesAccess ==
    [][\A b \in Businesses :
          FullAccess(b) /\ ~FullAccess(b)' => clock' # clock \/ stage[b] = "trial"]_vars

===============================================================================
