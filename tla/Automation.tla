------------------------------ MODULE Automation ------------------------------
(***************************************************************************)
(* The automation rules of a business, counted: only whether there is one  *)
(* with the default trigger matters to ensure_default_rule, which looks in *)
(* one statement and creates in another.                                   *)
(***************************************************************************)
EXTENDS Server

CONSTANT Readers   \* request threads that list rules or executions

VARIABLES
    rules,      \* rules with the default trigger, by business
    missing     \* the business a reader found without such a rule

automationVars == <<rules, missing>>

AutomationTypeOK ==
    /\ rules \in [Businesses -> Nat]
    /\ missing \in [Readers -> Businesses \cup {None}]

AutomationInit ==
    /\ rules = [b \in Businesses |-> IF b \in Settled THEN 1 ELSE 0]
    /\ missing = [r \in Readers |-> None]

\* A slip: the lookup without its filter by business.
NoRuleAtAll(b) == \A c \in Businesses : rules[c] = 0

\* The lookup of ensure_default_rule.
NoDefaultRule(b) == rules[b] = 0

AddRule(b) == rules' = [rules EXCEPT ![b] = @ + 1]

\* GET /automations and GET /automations/executions of an owner's business.
LookForRule(r, b) ==
    /\ missing[r] = None
    /\ NoDefaultRule(b)
    /\ missing' = [missing EXCEPT ![r] = b]
    /\ Arrives
    /\ UNCHANGED rules

CreateMissingRule(r) ==
    /\ missing[r] # None
    /\ AddRule(missing[r])
    /\ missing' = [missing EXCEPT ![r] = None]
    /\ UNCHANGED serverVars

\* POST /automations with the default trigger.
PostRule(b) ==
    /\ AddRule(b)
    /\ Arrives
    /\ UNCHANGED missing

AbandonRule(r) ==
    /\ missing[r] # None
    /\ missing' = [missing EXCEPT ![r] = None]
    /\ UNCHANGED <<rules, serverVars>>

===============================================================================
