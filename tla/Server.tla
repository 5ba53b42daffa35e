-------------------------------- MODULE Server --------------------------------
(***************************************************************************)
(* What the components of a Membership share: the businesses, the server's *)
(* clock, and the number of requests that were begun, which bounds the     *)
(* model.                                                                  *)
(***************************************************************************)
EXTENDS Integers

CONSTANTS
    Owners,         \* primary keys of owners, a pool (bound)
    Settled,        \* those who have signed up and verified before the start
    MaxClock,       \* bound: the last instant
    MaxRequests,    \* bound: requests begun, clicks on links not counted
    None

ASSUME ServerAssumption ==
    /\ Settled \subseteq Owners
    /\ MaxClock \in Nat
    /\ MaxRequests \in Nat

VARIABLES clock, requests

\* A business has one owner, by whose key it goes here.
Businesses == Owners

serverVars == <<clock, requests>>

Instants == 0..MaxClock

ServerTypeOK ==
    /\ clock \in Instants
    /\ requests \in 0..MaxRequests

ServerInit ==
    /\ clock = 0
    /\ requests = 0

\* A request arrives (bound).
Arrives ==
    /\ requests < MaxRequests
    /\ requests' = requests + 1
    /\ UNCHANGED clock

TimePasses ==
    /\ clock < MaxClock
    /\ clock' = clock + 1
    /\ UNCHANGED requests

===============================================================================
