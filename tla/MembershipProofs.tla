---------------------------- MODULE MembershipProofs ----------------------------
(***************************************************************************)
(* Theorems about Membership, one part of the inductive invariant for each *)
(* component and one for what a signup has reached.                        *)
(***************************************************************************)
EXTENDS Membership, WellFoundedInduction, TLAPS

-------------------------------------------------------------------------------
(* The inductive invariant *)

\* A creation that goes on knows what it was asked for.
AskedInv == \A u \in Users : stage[u] \in UnderWay => asked[u] # None

\* Only users who followed a link are verified, ...
VerifiedInv == \A u \in Users : CanLogIn(u) => Followed(u)

\* ... and only they will be.
Verifies(j) == j.kind = "verify" \/ (j.kind = "update" /\ j.row.email_verified)

JobInv == \A w \in Workers : job[w] # None /\ Verifies(job[w]) => Followed(job[w].user)

Linked == {"linked", "seeding", "seeded", "trial", "granted", "done"}

\* Owners are never deleted, and only their signup writes their business.
OwnersInv ==
    \A o \in Owners :
        /\ stage[o] \in {"none", "checked", "refused"} => ~Exists(o)
        /\ stage[o] \in {"user", "business"} \cup Linked => Exists(o)
        /\ stage[o] \in {"business"} \cup Linked => o \in businesses
        /\ stage[o] \in Linked => users[o].business = o

AccountsInv ==
    /\ ServerTypeOK
    /\ AccountsTypeOK
    /\ AskedInv
    /\ OneAccountPerAddress
    /\ VerifiedInv
    /\ TokensFollowLinks
    /\ JobInv
    /\ OwnersInv

\* A payment activates once, when it is confirmed; a confirmation is not overdue.
PurchasesInv ==
    \A p \in Payments :
        /\ HasEvent(p, "confirmed") =>
              \E s \in subscriptions : ActivatedBy(p) = {s} /\ s.business = purchases[p].business
        /\ ~HasEvent(p, "confirmed") => ActivatedBy(p) = {}
        /\ HasEvent(p, "confirming") =>
              purchases[p].now =< clock /\ clock =< purchases[p].now + Span
        /\ purchases[p] # None /\ purchases[p].status = "paid" => HasEvent(p, "confirmed")

\* Paid subscriptions have begun, and last a month at least.
RunningInv ==
    \A s \in subscriptions :
        /\ s.payment # None <=> s.status = "active"
        /\ s.started_at =< MaxClock
        /\ s.status = "active" => s.started_at =< clock /\ s.expires_at >= s.started_at + Month

SubscriptionsInv ==
    /\ SubscriptionsTypeOK
    /\ PurchasesInv
    /\ RunningInv

\* What a signup has created when it has come so far.
SignupInv ==
    \A o \in Owners :
        /\ stage[o] \in {"seeded", "trial", "granted", "done"} => rules[o] > 0
        /\ stage[o] = "trial" => trial_at[o] # None
        /\ stage[o] \in {"granted", "done"} => SubscriptionsOf(o) # {}

IInv ==
    /\ AccountsInv
    /\ AutomationTypeOK
    /\ SubscriptionsInv
    /\ SignupInv

-------------------------------------------------------------------------------
(* Numbers *)

\* A purchase lasts a month at least.
LEMMA MonthsLast ==
    ASSUME NEW m \in Nat \ {0}
    PROVE  m * Month \in Nat /\ m * Month >= Month
<1>1. Month \in Nat
  BY SubscriptionsAssumption
<1>2. (m - 1) * Month \in Nat /\ m * Month = (m - 1) * Month + Month
  BY <1>1
<1>. QED  BY <1>1, <1>2

LEMMA MonthsOfOffers ==
    ASSUME SubscriptionsTypeOK, NEW o \in Offers
    PROVE  MonthsOf(o) \in Nat \ {0}
<1>1. duration[o] \in Nat \cup {None}
  BY SubscriptionsAssumption DEF SubscriptionsTypeOK
<1>2. CASE Priced(o)
  <2>1. duration[o] \in Nat /\ duration[o] # 0
    BY <1>1, <1>2 DEF Priced
  <2>. QED  BY <1>2, <2>1 DEF MonthsOf
<1>3. CASE ~Priced(o)
  BY <1>3 DEF MonthsOf
<1>. QED  BY <1>2, <1>3

\* Among naturals there is a least one.
LEMMA LeastOne ==
    ASSUME NEW T, T \subseteq Nat, T # {}
    PROVE  \E x \in T : \A y \in T : x =< y
<1>. DEFINE R == OpToRel(<, Nat)
<1>1. IsWellFoundedOn(R, Nat)
  BY NatLessThanWellFounded
<1>2. \A x, y \in Nat : <<x, y>> \in R <=> x < y
  BY DEF OpToRel
<1>. HIDE DEF R
<1>3. \E x \in T : \A y \in T : ~(<<y, x>> \in R)
  BY <1>1, WFMin
<1>4. ASSUME NEW x \in T, \A y \in T : ~(<<y, x>> \in R), NEW y \in T
      PROVE  x =< y
  <2>1. x \in Nat /\ y \in Nat /\ ~(y < x)
    BY <1>2, <1>4
  <2>. QED  BY <2>1
<1>. QED  BY <1>3, <1>4

-------------------------------------------------------------------------------
(* Accounts *)

LEMMA InitAccounts ==
    ASSUME Init
    PROVE  AccountsInv
<1>. USE DEF Init, AccountsInit, ServerInit
<1>1. ServerTypeOK
  BY ServerAssumption DEF ServerTypeOK, Instants
<1>2. AccountsTypeOK
  BY ServerAssumption, AccountsAssumption
     DEF AccountsTypeOK, Users, UserRow, Stages, Mailboxes
<1>3. AskedInv /\ JobInv
  BY DEF AskedInv, JobInv, UnderWay
<1>4. OneAccountPerAddress
  BY AccountsAssumption DEF OneAccountPerAddress, Exists
<1>5. VerifiedInv /\ TokensFollowLinks
  <2>1. \A o \in Settled : Followed(o)
    BY AccountsAssumption DEF Followed, Mailboxes
  <2>. QED  BY <2>1, AccountsAssumption DEF VerifiedInv, TokensFollowLinks, CanLogIn, Exists
<1>6. OwnersInv
  <2>1. ASSUME NEW o \in Settled
        PROVE  users[o] # None /\ users[o].business = o /\ stage[o] = "done" /\ o \in businesses
    <3>1. o \in Owners /\ o \in Users
      BY ServerAssumption DEF Users
    <3>2. users[o] = [email |-> Home[o], email_verified |-> TRUE, business |-> o]
      BY <3>1
    <3>3. users[o] \in UserRow
      BY <3>1, <3>2, AccountsAssumption DEF UserRow
    <3>. QED  BY <3>1, <3>2, <3>3, AccountsAssumption
  <2>2. ASSUME NEW o \in Owners \ Settled
        PROVE  users[o] = None /\ stage[o] = "none"
    BY DEF Users
  <2>. QED  BY <2>1, <2>2 DEF OwnersInv, Exists, Linked
<1>. QED  BY <1>1, <1>2, <1>3, <1>4, <1>5, <1>6 DEF AccountsInv

\* Nobody's proof and nobody's token goes.
LEMMA TokensStay ==
    ASSUME AccountsInv, UNCHANGED <<tokens, proven>>
    PROVE  TokensFollowLinks' /\ \A u \in Users : Followed(u)' = Followed(u)
BY DEF AccountsInv, TokensFollowLinks, Followed

\* A row is written with an address that is nobody else's, verified if a link was followed.
LEMMA RowWritten ==
    ASSUME AccountsInv, NEW u \in Users, NEW row \in UserRow, users' = [users EXCEPT ![u] = row],
           ~Refused(u, row.email), UNCHANGED <<tokens, proven>>,
           row.email_verified => Followed(u)
    PROVE  /\ users' \in [Users -> UserRow \cup {None}]
           /\ OneAccountPerAddress'
           /\ VerifiedInv' /\ TokensFollowLinks'
<1>1. \A v \in Users : users'[v] = IF v = u THEN row ELSE users[v]
  BY DEF AccountsInv, AccountsTypeOK
<1>2. users' \in [Users -> UserRow \cup {None}]
  BY DEF AccountsInv, AccountsTypeOK
<1>3. OneAccountPerAddress'
  BY <1>1 DEF AccountsInv, OneAccountPerAddress, Exists, Refused
<1>4. VerifiedInv'
  BY <1>1, TokensStay DEF AccountsInv, VerifiedInv, CanLogIn, Exists
<1>. QED  BY <1>2, <1>3, <1>4, TokensStay

\* Rows, businesses, tokens and proofs stay as they are.
LEMMA RowsStay ==
    ASSUME AccountsInv, UNCHANGED <<users, businesses, tokens, proven>>
    PROVE  /\ users' \in [Users -> UserRow \cup {None}]
           /\ OneAccountPerAddress'
           /\ VerifiedInv' /\ TokensFollowLinks'
           /\ businesses' \subseteq Owners
           /\ tokens' \subseteq Users
           /\ proven' \subseteq Users \X Mailboxes
BY TokensStay
   DEF AccountsInv, AccountsTypeOK, OneAccountPerAddress, VerifiedInv, CanLogIn, Exists

\* Requests that begin: nothing is written yet.
LEMMA ArrivalsTyped ==
    ASSUME ServerTypeOK, Arrives \/ UNCHANGED serverVars
    PROVE  ServerTypeOK'
BY ServerAssumption DEF ServerTypeOK, Arrives, serverVars, Instants

LEMMA JobsStay ==
    ASSUME AccountsInv, UNCHANGED <<job, tokens, proven>>
    PROVE  JobInv'
BY TokensStay DEF AccountsInv, AccountsTypeOK, JobInv, Job, Users

LEMMA AskSteps ==
    ASSUME AccountsInv, NEW u \in Users, NEW e \in Addresses,
           \/ u \in Owners /\ SignUp(u, e)
           \/ u \in Cashiers /\ \E o \in Owners : AskCashier(o, u, e)
    PROVE  AccountsInv'
<1>1. PICK b \in Owners \cup {None} : asked' = [asked EXCEPT ![u] = [email |-> e, business |-> b]]
  <2>1. \A o \in Owners : OwnsBusiness(o) => users[o].business \in Owners
    BY DEF AccountsInv, AccountsTypeOK, OwnsBusiness, Authenticated, Exists, Users, UserRow
  <2>. QED  BY <2>1 DEF SignUp, AskCashier
<1>2. /\ stage[u] = "none" /\ stage' = [stage EXCEPT ![u] = "checked"]
      /\ Arrives
      /\ UNCHANGED <<users, businesses, links, job, tokens, proven>>
  BY DEF SignUp, AskCashier
<1>3. [email |-> e, business |-> b] \in Entry /\ [email |-> e, business |-> b] # None
  BY AccountsAssumption DEF Entry
<1>4. ServerTypeOK' /\ JobInv'
  BY <1>2, ArrivalsTyped, JobsStay DEF AccountsInv
<1>5. AccountsTypeOK'
  BY <1>1, <1>2, <1>3 DEF AccountsInv, AccountsTypeOK, Stages
<1>6. AskedInv'
  BY <1>1, <1>2, <1>3 DEF AccountsInv, AccountsTypeOK, AskedInv, UnderWay, Stages
<1>7. OwnersInv'
  BY <1>2 DEF AccountsInv, AccountsTypeOK, OwnersInv, Exists, Linked
<1>. QED  BY <1>2, <1>4, <1>5, <1>6, <1>7, RowsStay DEF AccountsInv

LEMMA CreateUserSteps ==
    ASSUME AccountsInv, NEW u \in Users, CreateUser(u)
    PROVE  AccountsInv'
<1>. DEFINE row == [email |-> asked[u].email, email_verified |-> FALSE, business |-> asked[u].business]
<1>1. asked[u] \in Entry
  BY DEF CreateUser, AccountsInv, AskedInv, AccountsTypeOK, UnderWay, Stages
<1>2. row \in UserRow /\ row # None /\ row.email = asked[u].email /\ ~row.email_verified
  <2>1. row \in UserRow
    BY <1>1 DEF Entry, UserRow
  <2>. QED  BY <2>1, AccountsAssumption
<1>3. /\ users' = [users EXCEPT ![u] = row] /\ ~Refused(u, row.email)
      /\ stage[u] = "checked" /\ stage' = [stage EXCEPT ![u] = "user"]
      /\ UNCHANGED <<businesses, links, asked, job, tokens, proven, serverVars>>
  BY DEF CreateUser
<1>. HIDE DEF row
<1>4. users' \in [Users -> UserRow \cup {None}] /\ OneAccountPerAddress' /\ VerifiedInv' /\ TokensFollowLinks'
  BY <1>2, <1>3, RowWritten
<1>5. ServerTypeOK' /\ JobInv'
  BY <1>3, ArrivalsTyped, JobsStay DEF AccountsInv
<1>6. AccountsTypeOK'
  BY <1>3, <1>4 DEF AccountsInv, AccountsTypeOK, Stages
<1>7. AskedInv'
  BY <1>3 DEF AccountsInv, AccountsTypeOK, AskedInv, UnderWay, Stages
<1>8. OwnersInv'
  BY <1>2, <1>3 DEF AccountsInv, AccountsTypeOK, OwnersInv, Exists, Linked, Users
<1>. QED  BY <1>4, <1>5, <1>6, <1>7, <1>8 DEF AccountsInv

\* A creation goes on or ends, but the insert and the link to the business.
LEMMA StageSteps ==
    ASSUME AccountsInv, NEW u \in Users,
           RefuseUser(u) \/ SendLink(u) \/ CutCreation(u) \/ (u \in Owners /\ CreateBusiness(u))
    PROVE  AccountsInv'
<1>1. /\ UNCHANGED <<users, job, tokens, proven, serverVars>>
      /\ \/ asked' = [asked EXCEPT ![u] = None]
         \/ UNCHANGED asked /\ u \in Owners /\ CreateBusiness(u)
      /\ businesses' = businesses \/ (stage[u] = "user" /\ u \in Owners /\ businesses' = businesses \cup {u})
      /\ UNCHANGED links \/ SendLink(u)
  BY DEF RefuseUser, SendLink, CutCreation, CreateBusiness
<1>2. PICK to \in {"refused", "done", "cut", "business"} : stage' = [stage EXCEPT ![u] = to]
  BY DEF RefuseUser, SendLink, CutCreation, CreateBusiness
<1>3. ServerTypeOK' /\ JobInv'
  BY <1>1, ArrivalsTyped, JobsStay DEF AccountsInv
<1>4. AccountsTypeOK'
  <2>1. CASE SendLink(u)
    <3>1. asked[u] \in Entry
      BY <2>1 DEF SendLink, AccountsInv, AccountsTypeOK, AskedInv, UnderWay, Stages
    <3>2. links' \subseteq Users \X Mailboxes
      BY <2>1, <3>1 DEF SendLink, Mail, Entry, Mailboxes, AccountsInv, AccountsTypeOK
    <3>. QED  BY <1>1, <1>2, <3>2 DEF AccountsInv, AccountsTypeOK, Stages
  <2>2. CASE UNCHANGED links
    BY <1>1, <1>2, <2>2 DEF AccountsInv, AccountsTypeOK, Stages
  <2>. QED  BY <1>1, <2>1, <2>2
<1>5. AskedInv'
  <2>1. CASE asked' = [asked EXCEPT ![u] = None]
    <3>1. stage'[u] \notin UnderWay
      BY <1>2, <2>1 DEF RefuseUser, SendLink, CutCreation, CreateBusiness, AccountsInv, AccountsTypeOK,
                        AskedInv, UnderWay, Stages
    <3>. QED  BY <1>2, <2>1, <3>1 DEF AccountsInv, AccountsTypeOK, AskedInv
  <2>2. CASE UNCHANGED asked /\ u \in Owners /\ CreateBusiness(u)
    BY <1>2, <2>2 DEF CreateBusiness, AccountsInv, AccountsTypeOK, AskedInv, UnderWay, Stages
  <2>. QED  BY <1>1, <2>1, <2>2
<1>6. OneAccountPerAddress' /\ VerifiedInv' /\ TokensFollowLinks'
  BY <1>1, TokensStay DEF AccountsInv, OneAccountPerAddress, VerifiedInv, CanLogIn, Exists
<1>7. OwnersInv'
  <2>1. ASSUME NEW o \in Owners, o # u
        PROVE  stage'[o] = stage[o] /\ users'[o] = users[o] /\ (o \in businesses => o \in businesses')
    BY <1>1, <1>2, <2>1 DEF AccountsInv, AccountsTypeOK, Users
  <2>2. ASSUME u \in Owners
        PROVE  /\ stage'[u] = "refused" => stage[u] = "checked"
               /\ stage'[u] = "done" => stage[u] = "granted"
               /\ stage'[u] = "business" => stage[u] = "user" /\ u \in businesses'
               /\ stage'[u] \in {"refused", "done", "cut", "business"}
               /\ users'[u] = users[u] /\ (u \in businesses => u \in businesses')
    BY <1>1, <2>2 DEF RefuseUser, SendLink, CutCreation, CreateBusiness, AccountsInv, AccountsTypeOK
  <2>. QED
    BY <2>1, <2>2 DEF AccountsInv, OwnersInv, Exists, Linked
<1>. QED  BY <1>3, <1>4, <1>5, <1>6, <1>7 DEF AccountsInv

LEMMA LinkBusinessSteps ==
    ASSUME AccountsInv, NEW o \in Owners, LinkBusiness(o)
    PROVE  AccountsInv'
<1>. DEFINE row == [users[o] EXCEPT !.business = o]
<1>1. users[o] \in UserRow /\ users[o] # None /\ o \in Users
  BY DEF LinkBusiness, AccountsInv, OwnersInv, Exists, AccountsTypeOK, Users
<1>2. /\ row \in UserRow /\ row # None /\ row.business = o
      /\ row.email = users[o].email /\ row.email_verified = users[o].email_verified
  BY <1>1, AccountsAssumption DEF UserRow
<1>3. /\ users' = [users EXCEPT ![o] = row]
      /\ stage[o] = "business" /\ stage' = [stage EXCEPT ![o] = "linked"]
      /\ UNCHANGED <<businesses, links, asked, job, tokens, proven, serverVars>>
  BY <1>1 DEF LinkBusiness, AccountsInv, AccountsTypeOK
<1>4. ~Refused(o, row.email)
  BY <1>1, <1>2 DEF Refused, AccountsInv, OneAccountPerAddress, Exists
<1>5. row.email_verified => Followed(o)
  BY <1>1, <1>2 DEF AccountsInv, VerifiedInv, CanLogIn, Exists
<1>. HIDE DEF row
<1>6. users' \in [Users -> UserRow \cup {None}] /\ OneAccountPerAddress' /\ VerifiedInv' /\ TokensFollowLinks'
  BY <1>1, <1>2, <1>3, <1>4, <1>5, RowWritten
<1>7. ServerTypeOK' /\ JobInv'
  BY <1>3, ArrivalsTyped, JobsStay DEF AccountsInv
<1>8. AccountsTypeOK'
  BY <1>1, <1>3, <1>6 DEF AccountsInv, AccountsTypeOK, Stages
<1>9. AskedInv'
  BY <1>1, <1>3 DEF AccountsInv, AccountsTypeOK, AskedInv, UnderWay, Stages
<1>10. OwnersInv'
  BY <1>1, <1>2, <1>3 DEF AccountsInv, AccountsTypeOK, OwnersInv, Exists, Linked, Users
<1>. QED  BY <1>6, <1>7, <1>8, <1>9, <1>10 DEF AccountsInv

\* A link is mailed once more.
LEMMA ResendSteps ==
    ASSUME AccountsInv, NEW u \in Users, Resend(u)
    PROVE  AccountsInv'
<1>1. UNCHANGED <<users, businesses, stage, asked, job, tokens, proven>>
  BY DEF Resend
<1>2. links' \subseteq Users \X Mailboxes
  BY DEF Resend, Mail, Exists, AccountsInv, AccountsTypeOK, UserRow, Mailboxes
<1>3. ServerTypeOK'
  BY ArrivalsTyped DEF AccountsInv, Resend
<1>. QED
  BY <1>1, <1>2, <1>3, RowsStay, JobsStay
     DEF AccountsInv, AccountsTypeOK, AskedInv, OwnersInv, Exists

\* A token is given only to a verified user.
LEMMA LogInSteps ==
    ASSUME AccountsInv, NEW u \in Users, LogIn(u)
    PROVE  AccountsInv'
<1>1. UNCHANGED <<users, businesses, links, stage, asked, job, proven>> /\ tokens' = tokens \cup {u}
  BY DEF LogIn
<1>2. Followed(u) /\ \A v \in Users : Followed(v)' = Followed(v)
  BY <1>1 DEF LogIn, AccountsInv, VerifiedInv, Followed
<1>3. AccountsTypeOK' /\ TokensFollowLinks'
  BY <1>1, <1>2 DEF AccountsInv, AccountsTypeOK, TokensFollowLinks
<1>4. ServerTypeOK'
  BY ArrivalsTyped DEF AccountsInv, LogIn
<1>5. JobInv'
  BY <1>1, <1>2 DEF AccountsInv, AccountsTypeOK, JobInv, Job, Users
<1>. QED
  BY <1>1, <1>2, <1>3, <1>4, <1>5
     DEF AccountsInv, AskedInv, OwnersInv, OneAccountPerAddress, VerifiedInv, CanLogIn, Exists

\* A thread gets something to save, or nothing, for a user who followed a link.
LEMMA JobTaken ==
    ASSUME AccountsInv, NEW w \in Workers, NEW j \in Job \cup {None}, job' = [job EXCEPT ![w] = j],
           UNCHANGED <<users, businesses, links, stage, asked, tokens>>, ServerTypeOK',
           proven \subseteq proven', proven' \subseteq Users \X Mailboxes,
           j # None /\ Verifies(j) => Followed(j.user)'
    PROVE  AccountsInv'
<1>1. \A u \in Users : Followed(u) => Followed(u)'
  BY DEF Followed
<1>2. AccountsTypeOK' /\ TokensFollowLinks'
  BY <1>1 DEF AccountsInv, AccountsTypeOK, TokensFollowLinks
<1>3. JobInv'
  <2>1. ASSUME NEW v \in Workers, job'[v] # None, Verifies(job'[v])
        PROVE  Followed(job[v].user)'
    <3>1. CASE v = w
      BY <2>1, <3>1 DEF AccountsInv, AccountsTypeOK
    <3>2. CASE v # w
      <4>1. job'[v] = job[v] /\ job[v] # None /\ job[v].user \in Users
        BY <2>1, <3>2 DEF AccountsInv, AccountsTypeOK, Job, Users
      <4>. QED  BY <1>1, <2>1, <4>1 DEF AccountsInv, JobInv
    <3>. QED  BY <3>1, <3>2
  <2>. QED  BY <2>1 DEF JobInv
<1>. QED
  BY <1>1, <1>2, <1>3
     DEF AccountsInv, AskedInv, OwnersInv, OneAccountPerAddress, VerifiedInv, CanLogIn, Exists

LEMMA FollowSteps ==
    ASSUME AccountsInv, NEW w \in Workers, NEW u \in Users, NEW m \in Mailboxes, FollowLink(w, u, m)
    PROVE  AccountsInv'
<1>. DEFINE j == [kind |-> "verify", user |-> u]
<1>1. j \in Job /\ j.user = u
  BY DEF Job
<1>2. /\ job' = [job EXCEPT ![w] = j]
      /\ UNCHANGED <<users, businesses, links, stage, asked, tokens>>
      /\ proven' = proven \cup {<<u, m>>}
  BY DEF FollowLink
<1>3. ServerTypeOK'
  BY ArrivalsTyped DEF AccountsInv, FollowLink
<1>4. Followed(u)' /\ proven' \subseteq Users \X Mailboxes
  BY <1>2 DEF Followed, AccountsInv, AccountsTypeOK
<1>. HIDE DEF j
<1>. QED  BY <1>1, <1>2, <1>3, <1>4, JobTaken

LEMMA ReadCashierSteps ==
    ASSUME AccountsInv, NEW w \in Workers, NEW o \in Owners, NEW c \in Cashiers, NEW e \in Addresses,
           ReadCashier(w, o, c, e)
    PROVE  AccountsInv'
<1>. DEFINE row == Updated(users[c], e)
            j == [kind |-> "update", user |-> c, row |-> row,
                  moved |-> Mailbox[e] # Mailbox[users[c].email]]
<1>1. users[c] \in UserRow /\ users[c] # None /\ c \in Users
  BY DEF ReadCashier, Manages, Exists, AccountsInv, AccountsTypeOK, Users
<1>2. row \in UserRow /\ (row.email_verified => users[c].email_verified)
  BY <1>1 DEF Updated, UserRow
<1>3. row.email_verified => Followed(c)
  BY <1>1, <1>2 DEF AccountsInv, VerifiedInv, CanLogIn, Exists
<1>4. /\ job' = [job EXCEPT ![w] = j]
      /\ UNCHANGED <<users, businesses, links, stage, asked, tokens, proven>>
  BY DEF ReadCashier
<1>. HIDE DEF row
<1>5. j \in Job /\ j.kind = "update" /\ j.user = c /\ j.row = row
  BY <1>2 DEF Job
<1>6. ServerTypeOK' /\ proven' \subseteq Users \X Mailboxes
  BY <1>4, ArrivalsTyped DEF AccountsInv, AccountsTypeOK, ReadCashier
<1>7. Verifies(j) => Followed(c)'
  BY <1>1, <1>3, <1>4, <1>5, TokensStay DEF Verifies
<1>. HIDE DEF j
<1>. QED  BY <1>4, <1>5, <1>6, <1>7, JobTaken

LEMMA DropSteps ==
    ASSUME AccountsInv, NEW w \in Workers, DropJob(w)
    PROVE  AccountsInv'
<1>1. ServerTypeOK'
  BY ArrivalsTyped DEF AccountsInv, DropJob
<1>. QED  BY <1>1, JobTaken DEF DropJob, AccountsInv, AccountsTypeOK

\* A thread that has saved has nothing left to save.
LEMMA JobDone ==
    ASSUME AccountsInv, NEW w \in Workers, job' = [job EXCEPT ![w] = None], UNCHANGED <<tokens, proven>>
    PROVE  JobInv'
<1>1. ASSUME NEW v \in Workers, job'[v] # None, Verifies(job'[v])
      PROVE  Followed(job[v].user)'
  <2>1. job'[v] = job[v] /\ job[v].user \in Users
    BY <1>1 DEF AccountsInv, AccountsTypeOK, Job, Users
  <2>. QED  BY <1>1, <2>1, TokensStay DEF AccountsInv, JobInv
<1>. QED  BY <1>1 DEF JobInv

LEMMA SaveVerifiedSteps ==
    ASSUME AccountsInv, NEW w \in Workers, SaveVerified(w)
    PROVE  AccountsInv'
<1>. DEFINE u == job[w].user
            row == [users[u] EXCEPT !.email_verified = TRUE]
<1>1. u \in Users
  BY DEF SaveVerified, AccountsInv, AccountsTypeOK, Job, Users
<1>2. users[u] \in UserRow /\ users[u] # None
  BY <1>1 DEF SaveVerified, Exists, AccountsInv, AccountsTypeOK
<1>. HIDE DEF u
<1>3. /\ row \in UserRow /\ row # None
      /\ row.email = users[u].email /\ row.business = users[u].business
  BY <1>2, AccountsAssumption DEF UserRow
<1>4. /\ users' = [users EXCEPT ![u] = row]
      /\ job' = [job EXCEPT ![w] = None]
      /\ UNCHANGED <<businesses, links, stage, asked, tokens, proven, serverVars>>
  BY <1>1 DEF SaveVerified, AccountsInv, AccountsTypeOK, u
<1>5. ~Refused(u, row.email)
  BY <1>1, <1>2, <1>3 DEF Refused, AccountsInv, OneAccountPerAddress, Exists
<1>6. Followed(u)
  BY DEF SaveVerified, AccountsInv, JobInv, Verifies, u
<1>. HIDE DEF row
<1>7. users' \in [Users -> UserRow \cup {None}] /\ OneAccountPerAddress' /\ VerifiedInv' /\ TokensFollowLinks'
  BY <1>1, <1>3, <1>4, <1>5, <1>6, RowWritten
<1>8. AccountsTypeOK'
  BY <1>4, <1>7 DEF AccountsInv, AccountsTypeOK
<1>9. ServerTypeOK' /\ JobInv' /\ AskedInv'
  BY <1>4, ArrivalsTyped, JobDone DEF AccountsInv, AskedInv
<1>10. OwnersInv'
  BY <1>1, <1>2, <1>3, <1>4 DEF AccountsInv, AccountsTypeOK, OwnersInv, Exists, Users
<1>. QED  BY <1>7, <1>8, <1>9, <1>10 DEF AccountsInv

LEMMA SaveCashierSteps ==
    ASSUME AccountsInv, NEW w \in Workers, SaveCashier(w)
    PROVE  AccountsInv'
<1>. DEFINE u == job[w].user
            row == job[w].row
<1>1. u \in Cashiers /\ u \in Users /\ row \in UserRow
  BY DEF SaveCashier, AccountsInv, AccountsTypeOK, Job, Users
<1>2. row.email_verified => Followed(u)
  BY DEF SaveCashier, AccountsInv, JobInv, Verifies
<1>3. /\ users' = [users EXCEPT ![u] = row] /\ ~Refused(u, row.email)
      /\ job' = [job EXCEPT ![w] = None]
      /\ UNCHANGED <<businesses, stage, asked, tokens, proven, serverVars>>
      /\ links' \in {links, links \cup {<<u, Mailbox[row.email]>>}}
  BY DEF SaveCashier, Mail
<1>. HIDE DEF u, row
<1>4. users' \in [Users -> UserRow \cup {None}] /\ OneAccountPerAddress' /\ VerifiedInv' /\ TokensFollowLinks'
  BY <1>1, <1>2, <1>3, RowWritten
<1>5. AccountsTypeOK'
  <2>1. links' \subseteq Users \X Mailboxes
    BY <1>1, <1>3 DEF AccountsInv, AccountsTypeOK, Mailboxes, UserRow
  <2>. QED  BY <1>3, <1>4, <2>1 DEF AccountsInv, AccountsTypeOK
<1>6. ServerTypeOK' /\ JobInv' /\ AskedInv'
  BY <1>3, ArrivalsTyped, JobDone DEF AccountsInv, AskedInv
<1>7. OwnersInv'
  BY <1>1, <1>3, AccountsAssumption DEF AccountsInv, AccountsTypeOK, OwnersInv, Exists, Users
<1>. QED  BY <1>4, <1>5, <1>6, <1>7 DEF AccountsInv

LEMMA DeleteSteps ==
    ASSUME AccountsInv, NEW o \in Owners, NEW c \in Cashiers, DeleteCashier(o, c)
    PROVE  AccountsInv'
<1>1. c \in Users /\ \A v \in Users : users'[v] = IF v = c THEN None ELSE users[v]
  BY DEF DeleteCashier, AccountsInv, AccountsTypeOK, Users
<1>2. AccountsTypeOK'
  BY DEF DeleteCashier, AccountsInv, AccountsTypeOK
<1>3. ServerTypeOK' /\ JobInv' /\ AskedInv'
  BY ArrivalsTyped, JobsStay DEF DeleteCashier, AccountsInv, AskedInv
<1>4. OneAccountPerAddress' /\ VerifiedInv' /\ TokensFollowLinks'
  BY <1>1, TokensStay DEF DeleteCashier, AccountsInv, OneAccountPerAddress, VerifiedInv, CanLogIn, Exists
<1>5. OwnersInv'
  BY <1>1, AccountsAssumption DEF DeleteCashier, AccountsInv, OwnersInv, Exists, Users
<1>. QED  BY <1>2, <1>3, <1>4, <1>5 DEF AccountsInv

LEMMA AccountSteps ==
    ASSUME AccountsInv, AccountsNext
    PROVE  AccountsInv'
<1>1. Owners \subseteq Users /\ Cashiers \subseteq Users
  BY DEF Users
<1>2. CASE \E o \in Owners, e \in Addresses : SignUp(o, e)
  BY <1>1, <1>2, AskSteps
<1>3. CASE \E o \in Owners, c \in Cashiers, e \in Addresses : AskCashier(o, c, e)
  <2>1. PICK o \in Owners, c \in Cashiers, e \in Addresses : AskCashier(o, c, e)
    BY <1>3
  <2>2. c \in Users
    BY <1>1
  <2>3. c \in Cashiers /\ \E q \in Owners : AskCashier(q, c, e)
    BY <2>1
  <2>. QED  BY <2>2, <2>3, AskSteps
<1>4. CASE \E u \in Users : CreateUser(u) \/ RefuseUser(u) \/ SendLink(u) \/ CutCreation(u) \/ Resend(u)
  BY <1>4, CreateUserSteps, StageSteps, ResendSteps
<1>5. CASE \E o \in Owners : CreateBusiness(o) \/ LinkBusiness(o)
  <2>1. PICK o \in Owners : CreateBusiness(o) \/ LinkBusiness(o)
    BY <1>5
  <2>2. CASE CreateBusiness(o)
    <3>1. o \in Users /\ CreateBusiness(o) /\ o \in Owners
      BY <1>1, <2>2
    <3>. QED  BY <3>1, StageSteps
  <2>3. CASE LinkBusiness(o)
    BY <2>3, LinkBusinessSteps
  <2>. QED  BY <2>1, <2>2, <2>3
<1>6. CASE \E u \in Users : LogIn(u)
  BY <1>6, LogInSteps
<1>7. CASE \E w \in Workers, u \in Users, m \in Mailboxes : FollowLink(w, u, m)
  BY <1>7, FollowSteps
<1>8. CASE \E w \in Workers : SaveVerified(w) \/ SaveCashier(w) \/ DropJob(w)
  BY <1>8, SaveVerifiedSteps, SaveCashierSteps, DropSteps
<1>9. CASE \E w \in Workers, o \in Owners, c \in Cashiers, e \in Addresses : ReadCashier(w, o, c, e)
  BY <1>9, ReadCashierSteps
<1>10. CASE \E o \in Owners, c \in Cashiers : DeleteCashier(o, c)
  BY <1>10, DeleteSteps
<1>. QED
  BY <1>2, <1>3, <1>4, <1>5, <1>6, <1>7, <1>8, <1>9, <1>10 DEF AccountsNext

-------------------------------------------------------------------------------
(* Subscriptions *)

LEMMA InitSubscriptions ==
    ASSUME Init
    PROVE  SubscriptionsInv
<1>. USE DEF Init, SubscriptionsInit, ServerInit
<1>1. ASSUME NEW b \in Settled
      PROVE  /\ Trial(b, 0) \in Subscription
             /\ Trial(b, 0).payment = None /\ Trial(b, 0).status = "trial"
             /\ Trial(b, 0).started_at = 0
  BY ServerAssumption, SubscriptionsAssumption DEF Trial, Subscription, Businesses
<1>2. SubscriptionsTypeOK
  BY <1>1 DEF SubscriptionsTypeOK
<1>3. \A s \in subscriptions : s.payment = None /\ s.status = "trial" /\ s.started_at = 0
  BY <1>1
<1>4. PurchasesInv
  BY <1>3, SubscriptionsAssumption DEF PurchasesInv, HasEvent, ActivatedBy
<1>5. RunningInv
  BY <1>3, ServerAssumption DEF RunningInv
<1>. QED  BY <1>2, <1>4, <1>5 DEF SubscriptionsInv

\* Whatever happens to accounts and rules.
LEMMA SubscriptionsStay ==
    ASSUME SubscriptionsInv, UNCHANGED <<duration, purchases, subscriptions>>, UNCHANGED clock,
           trial_at' \in [Businesses -> Instants \cup {None}]
    PROVE  SubscriptionsInv'
<1>1. SubscriptionsTypeOK'
  BY DEF SubscriptionsInv, SubscriptionsTypeOK
<1>2. PurchasesInv' /\ RunningInv'
  BY DEF SubscriptionsInv, PurchasesInv, RunningInv, HasEvent, ActivatedBy
<1>. QED  BY <1>1, <1>2 DEF SubscriptionsInv

\* A trial says nothing of payments.
LEMMA TrialSteps ==
    ASSUME SubscriptionsInv, NEW b \in Businesses, trial_at[b] # None, GrantTrial(b), UNCHANGED clock
    PROVE  SubscriptionsInv'
<1>. DEFINE new == Trial(b, trial_at[b])
<1>1. trial_at[b] \in Nat /\ trial_at[b] =< MaxClock
  BY ServerAssumption DEF SubscriptionsInv, SubscriptionsTypeOK, Instants
<1>2. new \in Subscription /\ new.payment = None /\ new.status = "trial" /\ new.started_at =< MaxClock
  BY <1>1, SubscriptionsAssumption DEF Trial, Subscription
<1>3. subscriptions' = subscriptions \cup {new} /\ UNCHANGED <<duration, purchases, trial_at>>
  BY DEF GrantTrial
<1>. HIDE DEF new
<1>4. SubscriptionsTypeOK'
  BY <1>2, <1>3 DEF SubscriptionsInv, SubscriptionsTypeOK
<1>5. \A p \in Payments : ActivatedBy(p)' = ActivatedBy(p)
  BY <1>2, <1>3, SubscriptionsAssumption DEF ActivatedBy
<1>7. PurchasesInv'
  BY <1>3, <1>5 DEF SubscriptionsInv, PurchasesInv, HasEvent
<1>8. RunningInv'
  BY <1>2, <1>3 DEF SubscriptionsInv, RunningInv
<1>. QED  BY <1>4, <1>7, <1>8 DEF SubscriptionsInv

\* A row is written and nothing activated: it is confirmed if it was before.
LEMMA RowSteps ==
    ASSUME SubscriptionsInv, NEW p \in Payments, NEW r \in Purchase,
           r.event = "confirmed" <=> HasEvent(p, "confirmed"),
           HasEvent(p, "confirmed") => r.business = purchases[p].business,
           r.event = "confirming" => r.now = clock,
           r.status = "paid" => r.event = "confirmed",
           purchases' = [purchases EXCEPT ![p] = r],
           clock \in Nat, UNCHANGED <<clock, duration, subscriptions, trial_at>>
    PROVE  SubscriptionsInv'
<1>1. SubscriptionsTypeOK'
  BY DEF SubscriptionsInv, SubscriptionsTypeOK
<1>2. /\ \A q \in Payments : purchases'[q] = IF q = p THEN r ELSE purchases[q]
      /\ \A q \in Payments : ActivatedBy(q)' = ActivatedBy(q)
      /\ r # None
  BY SubscriptionsNoneAssumption DEF SubscriptionsInv, SubscriptionsTypeOK, ActivatedBy
<1>3. ASSUME NEW q \in Payments
      PROVE  /\ HasEvent(q, "confirmed")' <=> HasEvent(q, "confirmed")
             /\ HasEvent(q, "confirmed") => purchases'[q].business = purchases[q].business
             /\ HasEvent(q, "confirming")' =>
                   \/ q # p /\ HasEvent(q, "confirming")
                   \/ q = p /\ r.now = clock
  BY <1>2 DEF HasEvent
<1>4. PurchasesInv'
  <2>1. ASSUME NEW q \in Payments, HasEvent(q, "confirmed")'
        PROVE  \E s \in subscriptions : ActivatedBy(q)' = {s} /\ s.business = purchases'[q].business
    BY <1>2, <1>3, <2>1 DEF SubscriptionsInv, PurchasesInv
  <2>2. ASSUME NEW q \in Payments, ~HasEvent(q, "confirmed")'
        PROVE  ActivatedBy(q)' = {}
    BY <1>2, <1>3, <2>2 DEF SubscriptionsInv, PurchasesInv
  <2>3. ASSUME NEW q \in Payments, HasEvent(q, "confirming")'
        PROVE  purchases'[q].now =< clock /\ clock =< purchases'[q].now + Span
    BY <1>2, <1>3, <2>3, SubscriptionsAssumption DEF SubscriptionsInv, PurchasesInv
  <2>4. ASSUME NEW q \in Payments, purchases'[q] # None, purchases'[q].status = "paid"
        PROVE  HasEvent(q, "confirmed")'
    BY <1>2, <1>3, <2>4 DEF SubscriptionsInv, PurchasesInv, HasEvent
  <2>. QED  BY <2>1, <2>2, <2>3, <2>4 DEF PurchasesInv
<1>5. RunningInv'
  BY DEF SubscriptionsInv, RunningInv
<1>. QED  BY <1>1, <1>4, <1>5 DEF SubscriptionsInv

LEMMA BuySteps ==
    ASSUME SubscriptionsInv, ServerTypeOK, NEW b \in Businesses, NEW p \in Payments, NEW o \in Offers,
           Buy(b, p, o)
    PROVE  SubscriptionsInv'
<1>. DEFINE r == [business |-> b, offer |-> o, status |-> "pending", event |-> "none", now |-> clock]
<1>1. r \in Purchase /\ r.status = "pending" /\ r.event = "none" /\ clock \in Nat
  BY ServerAssumption DEF Purchase, ServerTypeOK, Instants
<1>2. purchases' = [purchases EXCEPT ![p] = r] /\ UNCHANGED <<clock, duration, subscriptions, trial_at>>
  BY DEF Buy, Arrives
<1>3. ~HasEvent(p, "confirmed")
  BY DEF Buy, HasEvent
<1>. HIDE DEF r
<1>. QED  BY <1>1, <1>2, <1>3, RowSteps

LEMMA ConfirmingSteps ==
    ASSUME SubscriptionsInv, ServerTypeOK, NEW p \in Payments,
           BeginConfirmation(p) \/ RollBack(p) \/ SaveExhausted(p)
    PROVE  SubscriptionsInv'
<1>1. /\ purchases[p] \in Purchase /\ purchases[p] # None
      /\ clock \in Instants /\ clock \in Nat
      /\ purchases[p].status = "paid" => HasEvent(p, "confirmed")
  BY ServerAssumption
     DEF BeginConfirmation, RollBack, SaveExhausted, HasEvent, SubscriptionsInv, SubscriptionsTypeOK,
         PurchasesInv, ServerTypeOK, Instants
<1>2. CASE BeginConfirmation(p)
  <2>. DEFINE r == [purchases[p] EXCEPT !.event = "confirming", !.now = clock]
  <2>1. /\ r \in Purchase /\ r.event = "confirming" /\ r.now = clock
        /\ r.status = purchases[p].status
    BY <1>1 DEF Purchase
  <2>2. purchases' = [purchases EXCEPT ![p] = r] /\ UNCHANGED <<clock, duration, subscriptions, trial_at>>
    BY <1>2 DEF BeginConfirmation, serverVars, SubscriptionsInv, SubscriptionsTypeOK
  <2>3. ~HasEvent(p, "confirmed")
    BY <1>2 DEF BeginConfirmation, HasEvent
  <2>. HIDE DEF r
  <2>. QED  BY <1>1, <2>1, <2>2, <2>3, RowSteps
<1>3. CASE RollBack(p)
  <2>. DEFINE r == [purchases[p] EXCEPT !.event = "none"]
  <2>1. r \in Purchase /\ r.event = "none" /\ r.status = purchases[p].status
    BY <1>1 DEF Purchase
  <2>2. purchases' = [purchases EXCEPT ![p] = r] /\ UNCHANGED <<clock, duration, subscriptions, trial_at>>
    BY <1>3 DEF RollBack, serverVars, SubscriptionsInv, SubscriptionsTypeOK
  <2>3. ~HasEvent(p, "confirmed")
    BY <1>3 DEF RollBack, HasEvent
  <2>. HIDE DEF r
  <2>. QED  BY <1>1, <2>1, <2>2, <2>3, RowSteps
<1>4. CASE SaveExhausted(p)
  <2>. DEFINE r == [purchases[p] EXCEPT !.status = "exhausted"]
  <2>1. /\ r \in Purchase /\ r.status = "exhausted" /\ r.event = purchases[p].event
        /\ r.business = purchases[p].business
    BY <1>1 DEF Purchase
  <2>2. purchases' = [purchases EXCEPT ![p] = r] /\ UNCHANGED <<clock, duration, subscriptions, trial_at>>
    BY <1>4 DEF SaveExhausted, serverVars, SubscriptionsInv, SubscriptionsTypeOK
  <2>3. r.event # "confirming" /\ (r.event = "confirmed" <=> HasEvent(p, "confirmed"))
    BY <1>1, <1>4, <2>1 DEF SaveExhausted, HasEvent
  <2>. HIDE DEF r
  <2>. QED  BY <1>1, <2>1, <2>2, <2>3, RowSteps
<1>. QED  BY <1>2, <1>3, <1>4

\* The one transaction that activates.
LEMMA CommitSteps ==
    ASSUME SubscriptionsInv, ServerTypeOK, NEW p \in Payments, CommitConfirmation(p)
    PROVE  SubscriptionsInv'
<1>. DEFINE now == purchases[p].now
            m == MonthsOf(purchases[p].offer)
            new == [business |-> purchases[p].business, payment |-> p, status |-> "active",
                    started_at |-> now, expires_at |-> now + m * Month]
            r == [purchases[p] EXCEPT !.status = "paid", !.event = "confirmed"]
<1>1. /\ purchases[p] \in Purchase /\ HasEvent(p, "confirming") /\ ~HasEvent(p, "confirmed")
      /\ now \in Nat /\ now =< clock /\ now =< MaxClock
  BY ServerAssumption
     DEF CommitConfirmation, HasEvent, SubscriptionsInv, SubscriptionsTypeOK, PurchasesInv, Purchase, Instants
<1>2. m \in Nat \ {0}
  BY <1>1, MonthsOfOffers DEF SubscriptionsInv, Purchase
<1>3. m * Month \in Nat /\ m * Month >= Month
  <2>. HIDE DEF m
  <2>. QED  BY <1>2, MonthsLast
<1>4. now + m * Month \in Nat /\ now + m * Month >= now + Month
  <2>. HIDE DEF m, now
  <2>. QED  BY <1>1, <1>3, SubscriptionsAssumption
<1>5. /\ new \in Subscription
      /\ new.payment = p /\ new.status = "active" /\ new.business = purchases[p].business
      /\ new.started_at = now /\ new.expires_at >= now + Month
  <2>1. purchases[p].business \in Businesses
    BY <1>1 DEF Purchase
  <2>. HIDE DEF m, now
  <2>. QED  BY <1>1, <1>4, <2>1 DEF Subscription
<1>6. r \in Purchase /\ r.event = "confirmed" /\ r.business = purchases[p].business
  BY <1>1 DEF Purchase
<1>7. /\ subscriptions' = subscriptions \cup {new}
      /\ purchases' = [purchases EXCEPT ![p] = r]
      /\ UNCHANGED <<clock, duration, trial_at>>
  <2>1. ActivatedBy(p) = {}
    BY <1>1 DEF SubscriptionsInv, PurchasesInv
  <2>. QED
    BY <2>1 DEF CommitConfirmation, Activate, Paid, serverVars, SubscriptionsInv, SubscriptionsTypeOK
<1>. HIDE DEF new, r
<1>8. SubscriptionsTypeOK'
  BY <1>5, <1>6, <1>7 DEF SubscriptionsInv, SubscriptionsTypeOK
<1>9. /\ \A q \in Payments : purchases'[q] = IF q = p THEN r ELSE purchases[q]
      /\ \A q \in Payments : ActivatedBy(q)' = IF q = p THEN {new} ELSE ActivatedBy(q)
  <2>1. ActivatedBy(p) = {}
    BY <1>1 DEF SubscriptionsInv, PurchasesInv
  <2>. QED
    BY <1>5, <1>7, <2>1 DEF SubscriptionsInv, SubscriptionsTypeOK, ActivatedBy
<1>10. PurchasesInv'
  <2>1. ASSUME NEW q \in Payments, q # p
        PROVE  /\ HasEvent(q, "confirmed")' = HasEvent(q, "confirmed")
               /\ HasEvent(q, "confirming")' = HasEvent(q, "confirming")
               /\ purchases'[q] = purchases[q] /\ ActivatedBy(q)' = ActivatedBy(q)
    BY <1>9, <2>1 DEF HasEvent
  <2>2. /\ HasEvent(p, "confirmed")' /\ ~HasEvent(p, "confirming")'
        /\ new \in subscriptions' /\ ActivatedBy(p)' = {new} /\ new.business = purchases'[p].business
    BY <1>5, <1>6, <1>7, <1>9, SubscriptionsNoneAssumption DEF HasEvent
  <2>. QED  BY <1>7, <2>1, <2>2 DEF SubscriptionsInv, PurchasesInv
<1>11. RunningInv'
  BY <1>1, <1>5, <1>7, SubscriptionsAssumption DEF SubscriptionsInv, RunningInv
<1>. QED  BY <1>8, <1>10, <1>11 DEF SubscriptionsInv

\* A second activation finds the first.
LEMMA SaveAgainSteps ==
    ASSUME SubscriptionsInv, NEW p \in Payments, SaveAgain(p)
    PROVE  UNCHANGED <<clock, duration, purchases, subscriptions, trial_at>>
<1>1. ActivatedBy(p) # {}
  BY DEF SaveAgain, SubscriptionsInv, PurchasesInv
<1>. QED  BY <1>1 DEF SaveAgain, Activate, Arrives

LEMMA EditSteps ==
    ASSUME SubscriptionsInv, NEW o \in Offers, EditOffer(o)
    PROVE  SubscriptionsInv'
<1>1. SubscriptionsTypeOK'
  BY DEF EditOffer, SubscriptionsInv, SubscriptionsTypeOK
<1>2. PurchasesInv' /\ RunningInv'
  BY DEF EditOffer, Arrives, SubscriptionsInv, PurchasesInv, RunningInv, HasEvent, ActivatedBy
<1>. QED  BY <1>1, <1>2 DEF SubscriptionsInv

LEMMA TickSteps ==
    ASSUME SubscriptionsInv, ServerTypeOK, Tick
    PROVE  SubscriptionsInv' /\ ServerTypeOK'
<1>1. clock \in Nat /\ clock' = clock + 1 /\ clock < MaxClock /\ UNCHANGED <<requests, subscriptionVars>>
  BY ServerAssumption DEF Tick, TimePasses, ServerTypeOK, Instants
<1>2. ServerTypeOK'
  BY <1>1, ServerAssumption DEF ServerTypeOK, Instants
<1>3. SubscriptionsTypeOK'
  BY <1>1 DEF SubscriptionsInv, SubscriptionsTypeOK, subscriptionVars
<1>4. RunningInv'
  <2>1. \A s \in subscriptions : s.started_at \in Nat
    BY DEF SubscriptionsInv, SubscriptionsTypeOK, Subscription
  <2>. QED  BY <1>1, <2>1 DEF SubscriptionsInv, RunningInv, subscriptionVars
<1>5. PurchasesInv'
  <2>1. ASSUME NEW p \in Payments, HasEvent(p, "confirming")
        PROVE  purchases[p].now =< clock' /\ clock' =< purchases[p].now + Span
    <3>1. purchases[p].now \in Nat /\ purchases[p].now =< clock /\ clock < purchases[p].now + Span
      BY <2>1, ServerAssumption
         DEF Tick, NoneOverdue, SubscriptionsInv, SubscriptionsTypeOK, PurchasesInv, HasEvent, Purchase, Instants
    <3>. QED  BY <1>1, <3>1, SubscriptionsAssumption
  <2>. QED
    BY <1>1, <2>1 DEF SubscriptionsInv, PurchasesInv, HasEvent, ActivatedBy, subscriptionVars
<1>. QED  BY <1>2, <1>3, <1>4, <1>5 DEF SubscriptionsInv

-------------------------------------------------------------------------------
(* Signups *)

LEMMA InitSignup ==
    ASSUME Init
    PROVE  SignupInv /\ AutomationTypeOK
<1>. USE DEF Init, AccountsInit, AutomationInit, SubscriptionsInit
<1>1. \A o \in Owners : o \in Users /\ stage[o] \in {"none", "done"} /\ (stage[o] = "done" => o \in Settled)
  BY DEF Users
<1>2. \A o \in Settled : Trial(o, 0) \in SubscriptionsOf(o) /\ rules[o] = 1
  BY ServerAssumption DEF SubscriptionsOf, Trial, Businesses
<1>3. SignupInv
  <2>1. ASSUME NEW o \in Owners
        PROVE  /\ stage[o] \in {"seeded", "trial", "granted", "done"} => rules[o] > 0
               /\ stage[o] # "trial"
               /\ stage[o] \in {"granted", "done"} => SubscriptionsOf(o) # {}
    <3>. HIDE DEF Init, AccountsInit, AutomationInit, SubscriptionsInit
    <3>. QED  BY <1>1, <1>2
  <2>. QED  BY <2>1 DEF SignupInv
<1>. QED  BY <1>3 DEF AutomationTypeOK, Businesses

\* Rules and subscriptions never go, and no signup leaps.
SignupGoesOn ==
    /\ AutomationTypeOK'
    /\ \A o \in Owners : rules[o] > 0 => rules'[o] > 0
    /\ subscriptions \subseteq subscriptions'
    /\ \A o \in Owners : trial_at[o] # None => trial_at'[o] # None
    /\ \A o \in Owners :
          \/ stage'[o] = stage[o]
          \/ stage'[o] \notin {"seeded", "trial", "granted", "done"}
          \/ stage'[o] = "seeded" /\ rules'[o] > 0
          \/ stage'[o] = "trial" /\ stage[o] = "seeded" /\ trial_at'[o] # None
          \/ stage'[o] = "granted" /\ stage[o] \in {"seeded", "trial"} /\ SubscriptionsOf(o)' # {}
          \/ stage'[o] = "done" /\ stage[o] = "granted"

LEMMA SignupHolds ==
    ASSUME IInv, SignupGoesOn
    PROVE  AutomationTypeOK' /\ SignupInv'
<1>1. \A o \in Owners : SubscriptionsOf(o) # {} => SubscriptionsOf(o)' # {}
  BY DEF SignupGoesOn, SubscriptionsOf
<1>. QED  BY <1>1 DEF IInv, SignupInv, SignupGoesOn

LEMMA AccountsSignup ==
    ASSUME IInv, AccountStep
    PROVE  SignupGoesOn
<1>1. UNCHANGED <<automationVars, subscriptionVars>> /\ AutomationTypeOK'
  BY DEF AccountStep, automationVars, IInv, AutomationTypeOK
<1>2. \A o \in Owners : \/ stage'[o] = stage[o]
                        \/ stage'[o] \notin {"seeded", "trial", "granted", "done"}
                        \/ stage'[o] = "done" /\ stage[o] = "granted"
  <2>1. stage \in [Users -> Stages] /\ Owners \subseteq Users
    BY DEF IInv, AccountsInv, AccountsTypeOK, Users
  <2>2. \/ UNCHANGED stage
        \/ \E u \in Users, to \in {"checked", "user", "refused", "cut", "business", "linked"} :
              stage' = [stage EXCEPT ![u] = to]
        \/ \E u \in Users : SendLink(u)
    BY <2>1
       DEF AccountStep, AccountsNext, SignUp, AskCashier, CreateUser, RefuseUser, CutCreation, Resend,
           CreateBusiness, LinkBusiness, LogIn, FollowLink, SaveVerified, SaveCashier, DropJob,
           ReadCashier, DeleteCashier, Users
  <2>3. ASSUME NEW u \in Users, SendLink(u), NEW o \in Owners
        PROVE  stage'[o] = stage[o] \/ (stage'[o] = "done" /\ stage[o] = "granted")
    BY <2>1, <2>3 DEF SendLink
  <2>. QED  BY <2>1, <2>2, <2>3
<1>. QED  BY <1>1, <1>2 DEF SignupGoesOn, automationVars, subscriptionVars

\* A signup in its middle.
LEMMA SignupSteps ==
    ASSUME IInv, NEW o \in Owners, SignupStep(o)
    PROVE  IInv'
<1>1. PICK to \in {"seeding", "seeded", "trial", "granted"} :
         /\ stage[o] \in {"linked", "seeding", "seeded", "trial"}
         /\ stage' = [stage EXCEPT ![o] = to]
         /\ UNCHANGED <<serverVars, users, businesses, links, asked, job, tokens, proven>>
  BY DEF SignupStep, SignupFindsRule, SignupMissesRule, SignupSeedsRule, SignupFindsSubscription,
         SignupLooksForTrial, SignupGrantsTrial, Reach
<1>2. stage \in [Users -> Stages] /\ o \in Users /\ o \in Businesses
  BY DEF IInv, AccountsInv, AccountsTypeOK, Users, Businesses
<1>3. \A q \in Users : stage'[q] = IF q = o THEN to ELSE stage[q]
  BY <1>1, <1>2
<1>4. AccountsInv'
  <2>1. ServerTypeOK' /\ JobInv'
    BY <1>1, ArrivalsTyped, JobsStay DEF IInv, AccountsInv
  <2>2. AccountsTypeOK'
    BY <1>1, <1>2 DEF IInv, AccountsInv, AccountsTypeOK, Stages
  <2>3. AskedInv'
    BY <1>1, <1>2, <1>3 DEF IInv, AccountsInv, AskedInv, UnderWay, Stages
  <2>4. OwnersInv'
    BY <1>1, <1>2, <1>3 DEF IInv, AccountsInv, OwnersInv, Exists, Linked, Users
  <2>. QED  BY <1>1, <2>1, <2>2, <2>3, <2>4, RowsStay DEF IInv, AccountsInv
<1>5. clock \in Instants /\ UNCHANGED clock
  BY <1>1 DEF IInv, AccountsInv, ServerTypeOK, serverVars
<1>6. rules \in [Businesses -> Nat] /\ trial_at \in [Businesses -> Instants \cup {None}]
  BY DEF IInv, AutomationTypeOK, SubscriptionsInv, SubscriptionsTypeOK
<1>7. SubscriptionsInv' /\ SignupGoesOn
  <2>1. CASE SignupFindsRule(o) \/ SignupMissesRule(o) \/ SignupFindsSubscription(o)
    <3>1. UNCHANGED <<automationVars, subscriptionVars>>
      BY <2>1 DEF SignupFindsRule, SignupMissesRule, SignupFindsSubscription
    <3>2. SubscriptionsInv' /\ AutomationTypeOK'
      BY <1>5, <1>6, <3>1, SubscriptionsStay DEF IInv, AutomationTypeOK, automationVars, subscriptionVars
    <3>3. \/ to = "seeding"
          \/ to = "seeded" /\ rules[o] > 0
          \/ to = "granted" /\ stage[o] = "seeded" /\ SubscriptionsOf(o) # {}
      <4>1. to = stage'[o]
        BY <1>2, <1>3
      <4>2. CASE SignupFindsRule(o)
        BY <1>2, <1>6, <4>1, <4>2 DEF SignupFindsRule, Reach, NoDefaultRule
      <4>3. CASE SignupMissesRule(o)
        BY <1>2, <4>1, <4>3 DEF SignupMissesRule, Reach
      <4>4. CASE SignupFindsSubscription(o)
        BY <1>2, <4>1, <4>4 DEF SignupFindsSubscription, Reach
      <4>. QED  BY <2>1, <4>2, <4>3, <4>4
    <3>4. \A b \in Owners : SubscriptionsOf(b)' = SubscriptionsOf(b)
      BY <3>1 DEF SubscriptionsOf, subscriptionVars
    <3>. QED
      BY <1>2, <1>3, <3>1, <3>2, <3>3, <3>4 DEF SignupGoesOn, automationVars, subscriptionVars, Users
  <2>2. CASE SignupSeedsRule(o)
    <3>1. rules' = [rules EXCEPT ![o] = @ + 1] /\ to = "seeded" /\ UNCHANGED <<missing, subscriptionVars>>
      BY <1>2, <1>3, <2>2 DEF SignupSeedsRule, Reach, AddRule
    <3>2. SubscriptionsInv'
      BY <1>5, <1>6, <3>1, SubscriptionsStay DEF IInv, subscriptionVars
    <3>3. AutomationTypeOK' /\ rules'[o] > 0 /\ \A b \in Owners : rules[b] > 0 => rules'[b] > 0
      BY <1>2, <1>6, <3>1 DEF IInv, AutomationTypeOK, Businesses
    <3>. QED  BY <1>3, <3>1, <3>2, <3>3 DEF SignupGoesOn, subscriptionVars, Users
  <2>3. CASE SignupLooksForTrial(o)
    <3>1. /\ trial_at' = [trial_at EXCEPT ![o] = clock] /\ to = "trial" /\ stage[o] = "seeded"
          /\ UNCHANGED <<automationVars, duration, purchases, subscriptions>>
      BY <1>2, <1>3, <2>3 DEF SignupLooksForTrial, Reach, LookForTrial
    <3>2. /\ trial_at' \in [Businesses -> Instants \cup {None}]
          /\ trial_at'[o] = clock /\ \A b \in Owners : trial_at[b] # None => trial_at'[b] # None
          /\ clock # None
      BY <1>2, <1>5, <1>6, <3>1, ServerAssumption, SubscriptionsAssumption DEF Instants, Businesses
    <3>3. SubscriptionsInv' /\ AutomationTypeOK'
      BY <1>5, <3>1, <3>2, SubscriptionsStay DEF IInv, AutomationTypeOK, automationVars
    <3>. QED  BY <1>3, <3>1, <3>2, <3>3 DEF SignupGoesOn, automationVars, Users
  <2>4. CASE SignupGrantsTrial(o)
    <3>1. /\ GrantTrial(o) /\ to = "granted" /\ stage[o] = "trial"
          /\ UNCHANGED automationVars
      BY <1>2, <1>3, <2>4 DEF SignupGrantsTrial, Reach
    <3>2. trial_at[o] # None
      BY <3>1 DEF IInv, SignupInv
    <3>3. SubscriptionsInv' /\ AutomationTypeOK'
      BY <1>2, <1>5, <3>1, <3>2, TrialSteps DEF IInv, AutomationTypeOK, automationVars
    <3>4. subscriptions \subseteq subscriptions' /\ SubscriptionsOf(o)' # {} /\ UNCHANGED trial_at
      <4>1. Trial(o, trial_at[o]).business = o
        BY DEF Trial
      <4>2. Trial(o, trial_at[o]) \in subscriptions'
        BY <3>1 DEF GrantTrial
      <4>. QED  BY <3>1, <4>1, <4>2 DEF GrantTrial, SubscriptionsOf
    <3>. QED  BY <1>3, <3>1, <3>3, <3>4 DEF SignupGoesOn, automationVars, Users
  <2>. QED  BY <2>1, <2>2, <2>3, <2>4 DEF SignupStep
<1>. QED  BY <1>4, <1>7, SignupHolds DEF IInv

-------------------------------------------------------------------------------
(* Every step *)

\* Steps that leave accounts alone, but for the count of requests.
LEMMA AccountsStay ==
    ASSUME IInv, UNCHANGED accountVars, ServerTypeOK'
    PROVE  AccountsInv'
<1>1. AccountsTypeOK' /\ AskedInv' /\ OwnersInv' /\ JobInv'
  BY JobsStay DEF accountVars, IInv, AccountsInv, AccountsTypeOK, AskedInv, OwnersInv, Exists
<1>. QED  BY <1>1, RowsStay DEF accountVars, IInv, AccountsInv

\* A step that changes no stage, and neither drops a rule nor a subscription.
LEMMA SignupStays ==
    ASSUME IInv, UNCHANGED <<stage, trial_at>>, AutomationTypeOK',
           \A o \in Owners : rules[o] > 0 => rules'[o] > 0,
           subscriptions \subseteq subscriptions'
    PROVE  SignupInv'
BY SignupHolds DEF SignupGoesOn

LEMMA RulesGrow ==
    ASSUME IInv, NEW b \in Businesses, AddRule(b)
    PROVE  /\ rules' \in [Businesses -> Nat]
           /\ \A o \in Owners : rules[o] > 0 => rules'[o] > 0
BY DEF IInv, AutomationTypeOK, AddRule, Businesses

LEMMA AutomationSteps ==
    ASSUME IInv,
           \/ \E r \in Readers, b \in Businesses : LookForRule(r, b)
           \/ \E b \in Businesses : PostRule(b)
           \/ \E r \in Readers : CreateMissingRule(r) \/ AbandonRule(r),
           UNCHANGED <<accountVars, subscriptionVars>>
    PROVE  IInv'
<1>1. ServerTypeOK' /\ UNCHANGED clock
  BY ArrivalsTyped
     DEF IInv, AccountsInv, LookForRule, PostRule, CreateMissingRule, AbandonRule, Arrives, serverVars
<1>2. AutomationTypeOK' /\ \A o \in Owners : rules[o] > 0 => rules'[o] > 0
  <2>1. ASSUME NEW r \in Readers, NEW b \in Businesses, LookForRule(r, b)
        PROVE  AutomationTypeOK' /\ UNCHANGED rules
    BY <2>1 DEF LookForRule, IInv, AutomationTypeOK
  <2>2. ASSUME NEW b \in Businesses, PostRule(b)
        PROVE  AutomationTypeOK' /\ \A o \in Owners : rules[o] > 0 => rules'[o] > 0
    BY <2>2, RulesGrow DEF PostRule, IInv, AutomationTypeOK
  <2>3. ASSUME NEW r \in Readers, CreateMissingRule(r)
        PROVE  AutomationTypeOK' /\ \A o \in Owners : rules[o] > 0 => rules'[o] > 0
    <3>1. missing[r] \in Businesses
      BY <2>3 DEF CreateMissingRule, IInv, AutomationTypeOK
    <3>. QED  BY <2>3, <3>1, RulesGrow DEF CreateMissingRule, IInv, AutomationTypeOK
  <2>4. ASSUME NEW r \in Readers, AbandonRule(r)
        PROVE  AutomationTypeOK' /\ UNCHANGED rules
    BY <2>4 DEF AbandonRule, IInv, AutomationTypeOK
  <2>. QED  BY <2>1, <2>2, <2>3, <2>4
<1>3. SubscriptionsInv'
  BY <1>1, SubscriptionsStay DEF subscriptionVars, IInv, SubscriptionsInv, SubscriptionsTypeOK
<1>4. SignupInv'
  BY <1>2, SignupStays DEF accountVars, subscriptionVars
<1>. QED  BY <1>1, <1>2, <1>3, <1>4, AccountsStay DEF IInv

\* Purchases, activations, edits of offers and time.
LEMMA PurchaseSteps ==
    ASSUME IInv, SubscriptionsInv', ServerTypeOK', UNCHANGED <<accountVars, automationVars, trial_at>>,
           subscriptions \subseteq subscriptions'
    PROVE  IInv'
<1>1. AutomationTypeOK'
  BY DEF IInv, automationVars, AutomationTypeOK
<1>2. SignupInv'
  BY <1>1, SignupStays DEF accountVars, automationVars
<1>. QED  BY <1>1, <1>2, AccountsStay DEF IInv

LEMMA MemberSteps ==
    ASSUME IInv, NEW u \in Users, NEW b \in Businesses, MemberStep(u, b)
    PROVE  IInv'
<1>1. CASE /\ (\E r \in Readers : LookForRule(r, b)) \/ PostRule(b)
           /\ UNCHANGED <<accountVars, subscriptionVars>>
  BY <1>1, AutomationSteps
<1>2. ASSUME NEW p \in Payments, NEW o \in Offers, Buy(b, p, o), UNCHANGED <<accountVars, automationVars>>
      PROVE  IInv'
  <2>1. SubscriptionsInv' /\ ServerTypeOK'
    BY <1>2, BuySteps, ArrivalsTyped DEF IInv, AccountsInv, Buy
  <2>. QED  BY <1>2, <2>1, PurchaseSteps DEF Buy
<1>. QED  BY <1>1, <1>2 DEF MemberStep

LEMMA PaymentSteps ==
    ASSUME IInv, PaymentStep
    PROVE  IInv'
<1>1. UNCHANGED <<accountVars, automationVars>> /\ SubscriptionsInv /\ ServerTypeOK
  BY DEF PaymentStep, IInv, AccountsInv
<1>2. ASSUME NEW p \in Payments, BeginConfirmation(p) \/ RollBack(p) \/ SaveExhausted(p)
      PROVE  IInv'
  <2>1. SubscriptionsInv' /\ ServerTypeOK'
    BY <1>1, <1>2, ConfirmingSteps, ArrivalsTyped DEF BeginConfirmation, RollBack, SaveExhausted
  <2>. QED  BY <1>1, <1>2, <2>1, PurchaseSteps DEF BeginConfirmation, RollBack, SaveExhausted
<1>3. ASSUME NEW p \in Payments, CommitConfirmation(p)
      PROVE  IInv'
  <2>1. SubscriptionsInv' /\ ServerTypeOK'
    BY <1>1, <1>3, CommitSteps, ArrivalsTyped DEF CommitConfirmation
  <2>. QED  BY <1>1, <1>3, <2>1, PurchaseSteps DEF CommitConfirmation, Activate
<1>4. ASSUME NEW p \in Payments, SaveAgain(p)
      PROVE  IInv'
  <2>1. UNCHANGED <<clock, duration, purchases, subscriptions, trial_at>>
    BY <1>1, <1>4, SaveAgainSteps
  <2>2. SubscriptionsInv' /\ ServerTypeOK'
    BY <1>1, <1>4, <2>1, SubscriptionsStay, ArrivalsTyped DEF SaveAgain, SubscriptionsInv, SubscriptionsTypeOK
  <2>. QED  BY <1>1, <2>1, <2>2, PurchaseSteps
<1>5. ASSUME NEW o \in Offers, EditOffer(o)
      PROVE  IInv'
  <2>1. SubscriptionsInv' /\ ServerTypeOK'
    BY <1>1, <1>5, EditSteps, ArrivalsTyped DEF EditOffer
  <2>. QED  BY <1>1, <1>5, <2>1, PurchaseSteps DEF EditOffer
<1>. QED  BY <1>2, <1>3, <1>4, <1>5 DEF PaymentStep

\* The invariant, for all users, addresses, threads, payments and offers.
THEOREM MembershipInvariant == Spec => []IInv
<1>1. Init => IInv
  BY InitAccounts, InitSubscriptions, InitSignup DEF IInv
<1>2. IInv /\ [Next]_vars => IInv'
  <2>. SUFFICES ASSUME IInv, [Next]_vars
                PROVE  IInv'
    OBVIOUS
  <2>1. CASE AccountStep
    <3>1. AccountsInv'
      BY <2>1, AccountSteps DEF AccountStep, IInv
    <3>2. UNCHANGED <<duration, purchases, subscriptions, trial_at, clock>>
      BY <2>1
         DEF AccountStep, subscriptionVars, AccountsNext, SignUp, AskCashier, CreateUser, RefuseUser, SendLink,
             CutCreation, Resend, CreateBusiness, LinkBusiness, LogIn, FollowLink, SaveVerified,
             SaveCashier, DropJob, ReadCashier, DeleteCashier, Arrives, serverVars
    <3>3. SubscriptionsInv'
      BY <3>2, SubscriptionsStay DEF IInv, SubscriptionsInv, SubscriptionsTypeOK
    <3>. QED  BY <2>1, <3>1, <3>3, AccountsSignup, SignupHolds DEF IInv
  <2>2. CASE \E o \in Owners : SignupStep(o)
    BY <2>2, SignupSteps
  <2>3. CASE \E u \in Users, b \in Businesses : MemberStep(u, b)
    BY <2>3, MemberSteps
  <2>4. CASE RuleStep
    BY <2>4, AutomationSteps DEF RuleStep
  <2>5. CASE PaymentStep
    BY <2>5, PaymentSteps
  <2>6. CASE Tick
    <3>1. SubscriptionsInv' /\ ServerTypeOK'
      BY <2>6, TickSteps DEF IInv, AccountsInv
    <3>. QED  BY <2>6, <3>1, PurchaseSteps DEF Tick, subscriptionVars
  <2>7. CASE Quiescent \/ UNCHANGED vars
    <3>1. UNCHANGED vars
      BY <2>7 DEF Quiescent
    <3>2. SubscriptionsInv' /\ ServerTypeOK'
      BY <3>1, SubscriptionsStay, ArrivalsTyped
         DEF vars, serverVars, subscriptionVars, IInv, AccountsInv, SubscriptionsInv, SubscriptionsTypeOK
    <3>. QED  BY <3>1, <3>2, PurchaseSteps DEF vars, subscriptionVars
  <2>. QED  BY <2>1, <2>2, <2>3, <2>4, <2>5, <2>6, <2>7 DEF Next
<1>. QED  BY <1>1, <1>2, PTL DEF Spec

\* Every variable of Membership has its type, for all values of the constants.
THEOREM MembershipType == Spec => []TypeOK
<1>1. IInv => TypeOK
  BY DEF IInv, AccountsInv, SubscriptionsInv, TypeOK
<1>. QED  BY <1>1, MembershipInvariant, PTL

\* No two users ever have the same address (accounts/models.py).
THEOREM AddressTheorem == Spec => []OneAccountPerAddress
<1>1. IInv => OneAccountPerAddress
  BY DEF IInv, AccountsInv
<1>. QED  BY <1>1, MembershipInvariant, PTL

\* Nobody holds a token who never followed a link mailed for the account
\* (accounts/serializers.py: FobosTokenObtainPairSerializer.validate).
THEOREM TokenTheorem == Spec => []TokensFollowLinks
<1>1. IInv => TokensFollowLinks
  BY DEF IInv, AccountsInv
<1>. QED  BY <1>1, MembershipInvariant, PTL

\* A signup that was not cut has created all it promises
\* (accounts/serializers.py: SignupSerializer.create).
THEOREM SignupTheorem == Spec => []CompleteOrCut
<1>1. IInv => CompleteOrCut
  <2>. SUFFICES ASSUME IInv, NEW o \in Owners, Exists(o), stage[o] \notin UnderWay \cup {"cut"}
                PROVE  /\ o \in businesses
                       /\ users[o].business = o
                       /\ rules[o] > 0
                       /\ SubscriptionsOf(o) # {}
    BY DEF CompleteOrCut
  <2>1. stage[o] \in Stages
    BY DEF IInv, AccountsInv, AccountsTypeOK, Users
  <2>2. stage[o] = "done"
    BY <2>1 DEF IInv, AccountsInv, OwnersInv, UnderWay, Stages
  <2>. QED  BY <2>2 DEF IInv, AccountsInv, OwnersInv, SignupInv, Linked
<1>. QED  BY <1>1, MembershipInvariant, PTL

\* A payment activates exactly one subscription, when it is confirmed, and none
\* before (subscriptions/services.py: activate_from_payment).
THEOREM ActivationTheorem == Spec => []ConfirmedIsActivated
<1>1. IInv => ConfirmedIsActivated
  <2>. SUFFICES ASSUME IInv, NEW p \in Payments, purchases[p] # None
                PROVE  IF purchases[p].event = "confirmed"
                       THEN \E s \in subscriptions : /\ ActivatedBy(p) = {s}
                                                     /\ s.business = purchases[p].business
                                                     /\ s.expires_at >= s.started_at + Month
                       ELSE ActivatedBy(p) = {} /\ purchases[p].status # "paid"
    BY DEF ConfirmedIsActivated
  <2>1. CASE HasEvent(p, "confirmed")
    <3>1. PICK s \in subscriptions : ActivatedBy(p) = {s} /\ s.business = purchases[p].business
      BY <2>1 DEF IInv, SubscriptionsInv, PurchasesInv
    <3>2. s.payment = p /\ p # None
      BY <3>1, SubscriptionsAssumption DEF ActivatedBy
    <3>3. s.expires_at >= s.started_at + Month
      BY <3>2 DEF IInv, SubscriptionsInv, RunningInv
    <3>. QED  BY <2>1, <3>1, <3>3 DEF HasEvent
  <2>2. CASE ~HasEvent(p, "confirmed")
    BY <2>2 DEF IInv, SubscriptionsInv, PurchasesInv, HasEvent
  <2>. QED  BY <2>1, <2>2
<1>. QED  BY <1>1, MembershipInvariant, PTL

\* In the month after a paid purchase everything is open
\* (subscriptions/permissions.py: has_business_feature).
THEOREM PaidMonthTheorem == Spec => []PaidMonthIsServed
<1>1. IInv => PaidMonthIsServed
  <2>. SUFFICES ASSUME IInv, NEW s \in subscriptions, s.status = "active", clock < s.started_at + Month,
                       \A t \in subscriptions : t.business = s.business /\ t.status = "trial"
                                                   => t.started_at < s.started_at
                PROVE  FullAccess(s.business)
    BY DEF PaidMonthIsServed
  <2>1. ASSUME NEW t \in NewestOf(s.business)
        PROVE  Opens(t)
    <3>1. t \in Subscription /\ s \in Subscription /\ t \in subscriptions
      BY DEF NewestOf, IInv, SubscriptionsInv, SubscriptionsTypeOK
    <3>2. t.started_at \in Nat /\ s.started_at \in Nat /\ t.expires_at \in Nat
      BY <3>1 DEF Subscription
    <3>3. t.business = s.business /\ s.started_at =< t.started_at
      BY DEF NewestOf
    <3>4. t.status = "active"
      BY <3>1, <3>2, <3>3 DEF Subscription
    <3>5. t.expires_at >= t.started_at + Month
      BY <3>1, <3>4 DEF IInv, SubscriptionsInv, RunningInv
    <3>6. clock \in Nat
      BY ServerAssumption DEF IInv, AccountsInv, ServerTypeOK, Instants
    <3>. QED  BY <3>2, <3>3, <3>4, <3>5, <3>6, SubscriptionsAssumption DEF Opens, IsExpired
  <2>. QED  BY <2>1 DEF FullAccess, SubscriptionsOf
<1>. QED  BY <1>1, MembershipInvariant, PTL

\* Among the subscriptions of a business one has begun last.
LEMMA SomeNewest ==
    ASSUME IInv, NEW b \in Businesses, SubscriptionsOf(b) # {}
    PROVE  NewestOf(b) # {}
<1>. DEFINE age(s) == MaxClock - s.started_at
            ages == {age(s) : s \in SubscriptionsOf(b)}
<1>1. \A s \in SubscriptionsOf(b) : s.started_at \in Nat /\ s.started_at =< MaxClock /\ s.business = b
  BY DEF SubscriptionsOf, IInv, SubscriptionsInv, SubscriptionsTypeOK, Subscription, RunningInv
<1>2. \A s \in SubscriptionsOf(b) : age(s) \in Nat
  BY <1>1, ServerAssumption
<1>3. ages \subseteq Nat /\ ages # {}
  BY <1>2
<1>. HIDE DEF ages
<1>4. PICK x \in ages : \A y \in ages : x =< y
  BY <1>3, LeastOne
<1>. USE DEF ages
<1>5. PICK s \in SubscriptionsOf(b) : x = age(s)
  BY <1>4
<1>6. \A t \in SubscriptionsOf(b) : age(s) =< age(t)
  BY <1>4, <1>5
<1>7. \A t \in SubscriptionsOf(b) : t.started_at =< s.started_at
  BY <1>1, <1>6, ServerAssumption
<1>8. s \in NewestOf(b)
  BY <1>7 DEF NewestOf, SubscriptionsOf
<1>. QED  BY <1>8

\* Full access is somebody's running paid subscription
\* (subscriptions/permissions.py: has_business_feature).
THEOREM AccessTheorem == Spec => []AccessWasPaidFor
<1>1. IInv => AccessWasPaidFor
  <2>. SUFFICES ASSUME IInv, NEW b \in Businesses, FullAccess(b)
                PROVE  \E s \in subscriptions : /\ s.business = b
                                                /\ s.payment # None
                                                /\ purchases[s.payment].event = "confirmed"
                                                /\ s.started_at =< clock /\ clock < s.expires_at
    BY DEF AccessWasPaidFor
  <2>1. PICK s \in NewestOf(b) : Opens(s)
    BY SomeNewest DEF FullAccess
  <2>2. s \in subscriptions /\ s \in Subscription /\ s.business = b
    BY DEF NewestOf, IInv, SubscriptionsInv, SubscriptionsTypeOK
  <2>3. s.status = "active" /\ ~(s.expires_at =< clock) /\ s.expires_at \in Nat /\ clock \in Nat
    BY <2>1, <2>2, ServerAssumption
       DEF Opens, IsExpired, Subscription, IInv, AccountsInv, ServerTypeOK, Instants
  <2>4. s.payment \in Payments /\ s.payment # None /\ s.started_at =< clock
    BY <2>2, <2>3 DEF Subscription, IInv, SubscriptionsInv, RunningInv
  <2>5. HasEvent(s.payment, "confirmed")
    BY <2>2, <2>4 DEF ActivatedBy, IInv, SubscriptionsInv, PurchasesInv
  <2>. QED  BY <2>2, <2>3, <2>4, <2>5 DEF HasEvent
<1>. QED  BY <1>1, MembershipInvariant, PTL

\* A step that keeps the time and grants b no trial keeps what is open to b.
LEMMA AccessStays ==
    ASSUME IInv, NEW b \in Businesses, FullAccess(b), UNCHANGED clock,
           NEW s, subscriptions' = subscriptions \cup {s},
           s.business # b \/ Opens(s)
    PROVE  FullAccess(b)'
<1>1. ASSUME NEW t \in NewestOf(b)'
      PROVE  Opens(t)
  <2>1. CASE t \in subscriptions
    <3>1. t \in NewestOf(b)
      BY <2>1 DEF NewestOf
    <3>. QED  BY <3>1 DEF FullAccess
  <2>2. CASE t = s
    BY <2>2 DEF NewestOf
  <2>. QED  BY <2>1, <2>2 DEF NewestOf
<1>2. SubscriptionsOf(b)' # {}
  BY DEF FullAccess, SubscriptionsOf
<1>. QED  BY <1>1, <1>2 DEF FullAccess, Opens, IsExpired

LEMMA AccessUntouched ==
    ASSUME NEW b \in Businesses, FullAccess(b), UNCHANGED <<clock, subscriptions>>
    PROVE  FullAccess(b)'
BY DEF FullAccess, SubscriptionsOf, NewestOf, Opens, IsExpired

\* Nothing but time, and a trial granted late, takes a paid access away.
THEOREM OnlyTimeTheorem == Spec => OnlyTimeTakesAccess
<1>1. IInv /\ [Next]_vars =>
         [\A b \in Businesses :
             FullAccess(b) /\ ~FullAccess(b)' => clock' # clock \/ stage[b] = "trial"]_vars
  <2>. SUFFICES ASSUME IInv, Next, NEW b \in Businesses, FullAccess(b), UNCHANGED clock, stage[b] # "trial"
                PROVE  FullAccess(b)'
    OBVIOUS
  <2>1. CASE UNCHANGED subscriptions
    BY <2>1, AccessUntouched
  <2>2. ASSUME NEW o \in Owners, SignupStep(o), ~UNCHANGED subscriptions
        PROVE  FullAccess(b)'
    <3>1. GrantTrial(o) /\ stage[o] = "trial"
      BY <2>2
         DEF SignupStep, SignupFindsRule, SignupMissesRule, SignupSeedsRule, SignupFindsSubscription,
             SignupLooksForTrial, SignupGrantsTrial, LookForTrial, Reach, subscriptionVars
    <3>2. Trial(o, trial_at[o]).business # b
      BY <3>1 DEF Trial
    <3>. QED  BY <3>1, <3>2, AccessStays DEF GrantTrial
  <2>3. ASSUME NEW p \in Payments, CommitConfirmation(p)
        PROVE  FullAccess(b)'
    <3>. DEFINE now == purchases[p].now
                m == MonthsOf(purchases[p].offer)
                new == [business |-> purchases[p].business, payment |-> p, status |-> "active",
                        started_at |-> now, expires_at |-> now + m * Month]
    <3>1. purchases[p] \in Purchase /\ HasEvent(p, "confirming") /\ now \in Nat /\ clock =< now + Span
      BY <2>3, ServerAssumption
         DEF CommitConfirmation, HasEvent, IInv, SubscriptionsInv, SubscriptionsTypeOK, PurchasesInv, Purchase, Instants
    <3>2. m \in Nat \ {0}
      BY <3>1, MonthsOfOffers DEF IInv, SubscriptionsInv, Purchase
    <3>3. m * Month \in Nat /\ m * Month >= Month
      <4>. HIDE DEF m
      <4>. QED  BY <3>2, MonthsLast
    <3>4. ~(now + m * Month =< clock)
      <4>1. clock \in Nat
        BY ServerAssumption DEF IInv, AccountsInv, ServerTypeOK, Instants
      <4>. HIDE DEF m, now
      <4>. QED  BY <3>1, <3>3, <4>1, SubscriptionsAssumption
    <3>5. Opens(new)
      BY <3>4 DEF Opens, IsExpired
    <3>6. subscriptions' \in {subscriptions, subscriptions \cup {new}}
      BY <2>3 DEF CommitConfirmation, Activate, Paid
    <3>. HIDE DEF new
    <3>. QED  BY <2>1, <3>5, <3>6, AccessStays
  <2>4. ASSUME NEW p \in Payments, SaveAgain(p)
        PROVE  FullAccess(b)'
    BY <2>1, <2>4, SaveAgainSteps DEF IInv
  <2>5. CASE Tick
    <3>1. clock' # clock
      BY <2>5 DEF Tick, TimePasses, IInv, AccountsInv, ServerTypeOK, Instants
    <3>. QED  BY <3>1
  <2>6. CASE \/ AccountStep \/ RuleStep \/ Quiescent
             \/ \E u \in Users, c \in Businesses : MemberStep(u, c)
             \/ \E p \in Payments : BeginConfirmation(p) \/ RollBack(p) \/ SaveExhausted(p)
             \/ \E o \in Offers : EditOffer(o)
    <3>1. UNCHANGED subscriptions
      BY <2>6 DEF AccountStep, RuleStep, Quiescent, MemberStep, Buy, BeginConfirmation, RollBack, SaveExhausted, EditOffer,
                  subscriptionVars, vars
    <3>. QED  BY <2>1, <3>1
  <2>. QED  BY <2>1, <2>2, <2>3, <2>4, <2>5, <2>6 DEF Next, PaymentStep
<1>. QED  BY <1>1, MembershipInvariant, PTL DEF Spec, OnlyTimeTakesAccess

===============================================================================
