------------------------------- MODULE Accounts -------------------------------
(***************************************************************************)
(* Users of FOBOS: owners who sign up, the cashiers they manage, and the   *)
(* verification links without which nobody logs in.                        *)
(*                                                                         *)
(* Nothing here runs in a transaction: every statement commits alone, so a *)
(* signup is a row of commits (stage), and a request that reads a row and  *)
(* saves it later (job) saves what it read.  A link names a user and not   *)
(* the address it was mailed to, which only the model remembers; one that  *)
(* has expired is one that nobody follows.                                 *)
(***************************************************************************)
EXTENDS Server

CONSTANTS
    Cashiers,   \* primary keys, a pool (bound)
    Addresses,  \* e-mail addresses as they are spelled
    Mailbox,    \* the same, letter case aside
    Home,       \* the addresses of the settled owners
    Workers     \* request threads

Users == Owners \cup Cashiers

Mailboxes == {Mailbox[e] : e \in Addresses}

UserRow == [email : Addresses, email_verified : BOOLEAN, business : Owners \cup {None}]

\* What a request will write: the address and business of a new user, ...
Entry == [email : Addresses, business : Owners \cup {None}]

\* ... the verification of a user, or all fields of a cashier that was read.
Job == [kind : {"verify"}, user : Users]
         \cup [kind : {"update"}, user : Cashiers, row : UserRow, moved : BOOLEAN]

ASSUME AccountsAssumption ==
    /\ Owners \cap Cashiers = {}
    /\ DOMAIN Mailbox = Addresses
    /\ Home \in [Settled -> Addresses]
    /\ \A o, q \in Settled : Home[o] = Home[q] => o = q
    /\ None \notin Owners
    /\ None \notin UserRow
    /\ None \notin Entry
    /\ None \notin Job

VARIABLES
    users,          \* User rows, None where there is none
    businesses,     \* Business rows
    links,          \* links that were mailed: for which user, to which mailbox
    stage,          \* how far the creation of a user has come
    asked,          \* what that creation was asked for, while it goes on
    job,            \* what a thread has read and will save
    tokens,         \* users who have logged in and hold a token
    proven          \* history: the links that were followed

accountVars == <<users, businesses, links, stage, asked, job, tokens, proven>>

\* The stages between "linked" and "granted" belong to other components.
Stages == {"none", "checked", "user", "business", "linked", "seeding", "seeded",
           "trial", "granted", "done", "cut", "refused"}

UnderWay == Stages \ {"none", "done", "cut", "refused"}

AccountsTypeOK ==
    /\ users \in [Users -> UserRow \cup {None}]
    /\ businesses \subseteq Owners
    /\ links \subseteq Users \X Mailboxes
    /\ stage \in [Users -> Stages]
    /\ asked \in [Users -> Entry \cup {None}]
    /\ job \in [Workers -> Job \cup {None}]
    /\ tokens \subseteq Users
    /\ proven \subseteq Users \X Mailboxes

AccountsInit ==
    /\ users = [u \in Users |->
                   IF u \in Settled
                   THEN [email |-> Home[u], email_verified |-> TRUE, business |-> u]
                   ELSE None]
    /\ businesses = Settled
    /\ links = {}
    /\ stage = [u \in Users |-> IF u \in Settled THEN "done" ELSE "none"]
    /\ asked = [u \in Users |-> None]
    /\ job = [w \in Workers |-> None]
    /\ tokens = Settled
    /\ proven = {<<o, Mailbox[Home[o]]>> : o \in Settled}

-------------------------------------------------------------------------------
(* Slips a change of the code could make *)

\* User.email without unique=True: only the check of the serializer is left.
NotUnique(u, e) == FALSE

\* CashierSerializer.update with the address in lower case.
LowerCase(row, e) == [row EXCEPT !.email = Mailbox[e],
                                 !.email_verified = @ /\ Mailbox[e] = Mailbox[row.email]]

\* FobosTokenObtainPairSerializer without its look at email_verified.
AnyoneLogsIn(u) == users[u] # None

-------------------------------------------------------------------------------
(* Rows *)

Exists(u) == users[u] # None

\* What the serializers look for before they accept an address.
Taken(u, e) ==
    \E v \in Users \ {u} : Exists(v) /\ users[v].email = e

\* The unique constraint, when the row of u is written with the address e.
Refused(u, e) ==
    \E v \in Users \ {u} : Exists(v) /\ users[v].email = e

\* FobosTokenObtainPairSerializer: nobody logs in before the address is verified.
CanLogIn(u) == Exists(u) /\ users[u].email_verified

\* A token stays good when the address changes, but not when the user is gone.
Authenticated(u) == u \in tokens /\ Exists(u)

\* IsOwner: an owner whose signup was cut before the link has no business.
OwnsBusiness(o) == Authenticated(o) /\ users[o].business # None

\* CashierDetailView.get_queryset.
Manages(o, c) ==
    /\ OwnsBusiness(o)
    /\ Exists(c)
    /\ users[c].business = users[o].business

\* send_verification_email; a mail that is lost is a link that nobody follows.
Mail(u, e) == links' = links \cup {<<u, Mailbox[e]>>}

-------------------------------------------------------------------------------
(* Creation of owners and cashiers *)

\* SignupSerializer.validate.
SignUp(o, e) ==
    /\ stage[o] = "none"
    /\ ~Taken(o, e)
    /\ stage' = [stage EXCEPT ![o] = "checked"]
    /\ asked' = [asked EXCEPT ![o] = [email |-> e, business |-> None]]
    /\ Arrives
    /\ UNCHANGED <<users, businesses, links, job, tokens, proven>>

\* POST /auth/cashiers: the new cashier gets the business its owner has now.
AskCashier(o, c, e) ==
    /\ OwnsBusiness(o)
    /\ stage[c] = "none"
    /\ ~Taken(c, e)
    /\ stage' = [stage EXCEPT ![c] = "checked"]
    /\ asked' = [asked EXCEPT ![c] = [email |-> e, business |-> users[o].business]]
    /\ Arrives
    /\ UNCHANGED <<users, businesses, links, job, tokens, proven>>

\* UserManager.create_user.
CreateUser(u) ==
    /\ stage[u] = "checked"
    /\ ~Refused(u, asked[u].email)
    /\ users' = [users EXCEPT ![u] = [email |-> asked[u].email, email_verified |-> FALSE,
                                      business |-> asked[u].business]]
    /\ stage' = [stage EXCEPT ![u] = "user"]
    /\ UNCHANGED <<businesses, links, asked, job, tokens, proven, serverVars>>

\* The address was taken between the check and the insert: IntegrityError.
RefuseUser(u) ==
    /\ stage[u] = "checked"
    /\ Refused(u, asked[u].email)
    /\ stage' = [stage EXCEPT ![u] = "refused"]
    /\ asked' = [asked EXCEPT ![u] = None]
    /\ UNCHANGED <<users, businesses, links, job, tokens, proven, serverVars>>

CreateBusiness(o) ==
    /\ stage[o] = "user"
    /\ businesses' = businesses \cup {o}
    /\ stage' = [stage EXCEPT ![o] = "business"]
    /\ UNCHANGED <<users, links, asked, job, tokens, proven, serverVars>>

\* user.save(update_fields=["business"]).
LinkBusiness(o) ==
    /\ stage[o] = "business"
    /\ users' = [users EXCEPT ![o].business = o]
    /\ stage' = [stage EXCEPT ![o] = "linked"]
    /\ UNCHANGED <<businesses, links, asked, job, tokens, proven, serverVars>>

\* The link is sent last, to an owner after all that the signup creates; the
\* request mails the address it was asked for.
SendLink(u) ==
    /\ stage[u] = IF u \in Owners THEN "granted" ELSE "user"
    /\ Mail(u, asked[u].email)
    /\ stage' = [stage EXCEPT ![u] = "done"]
    /\ asked' = [asked EXCEPT ![u] = None]
    /\ UNCHANGED <<users, businesses, job, tokens, proven, serverVars>>

\* The process dies or anything raises: what was committed stays.
CutCreation(u) ==
    /\ stage[u] \in UnderWay
    /\ stage' = [stage EXCEPT ![u] = "cut"]
    /\ asked' = [asked EXCEPT ![u] = None]
    /\ UNCHANGED <<users, businesses, links, job, tokens, proven, serverVars>>

-------------------------------------------------------------------------------
(* Verification *)

\* ResendVerificationView: .first() of the unverified users with that mailbox, any of them.
Resend(u) ==
    /\ Exists(u)
    /\ ~users[u].email_verified
    /\ Mail(u, users[u].email)
    /\ Arrives
    /\ UNCHANGED <<users, businesses, stage, asked, job, tokens, proven>>

\* VerifyEmailView.get up to the save; a verified user is left as it is.
FollowLink(w, u, m) ==
    /\ job[w] = None
    /\ <<u, m>> \in links
    /\ Exists(u)
    /\ ~users[u].email_verified
    /\ job' = [job EXCEPT ![w] = [kind |-> "verify", user |-> u]]
    /\ proven' = proven \cup {<<u, m>>}
    /\ UNCHANGED <<users, businesses, links, stage, asked, tokens, serverVars>>

\* save(update_fields=...): writes the two fields into whatever the row is by now.
SaveVerified(w) ==
    /\ job[w] # None /\ job[w].kind = "verify"
    /\ Exists(job[w].user)
    /\ users' = [users EXCEPT ![job[w].user].email_verified = TRUE]
    /\ job' = [job EXCEPT ![w] = None]
    /\ UNCHANGED <<businesses, links, stage, asked, tokens, proven, serverVars>>

\* POST /auth/login.
LogIn(u) ==
    /\ u \notin tokens
    /\ CanLogIn(u)
    /\ tokens' = tokens \cup {u}
    /\ UNCHANGED <<users, businesses, links, stage, asked, job, proven, serverVars>>

-------------------------------------------------------------------------------
(* Management of cashiers *)

\* The row a cashier will have: a new mailbox is unverified, another spelling is not.
Updated(row, e) ==
    [row EXCEPT !.email = e,
                !.email_verified = @ /\ Mailbox[e] = Mailbox[row.email]]

\* PUT or PATCH: the row is read and the new address checked against the others.
ReadCashier(w, o, c, e) ==
    /\ job[w] = None
    /\ Manages(o, c)
    /\ ~Taken(c, e)
    /\ job' = [job EXCEPT ![w] = [kind |-> "update", user |-> c, row |-> Updated(users[c], e),
                                  moved |-> Mailbox[e] # Mailbox[users[c].email]]]
    /\ Arrives
    /\ UNCHANGED <<users, businesses, links, stage, asked, tokens, proven>>

\* instance.save(): all fields as they were read, inserted again if the row is gone;
\* a new mailbox gets a link.
SaveCashier(w) ==
    /\ job[w] # None /\ job[w].kind = "update"
    /\ ~Refused(job[w].user, job[w].row.email)
    /\ users' = [users EXCEPT ![job[w].user] = job[w].row]
    /\ IF job[w].moved THEN Mail(job[w].user, job[w].row.email) ELSE UNCHANGED links
    /\ job' = [job EXCEPT ![w] = None]
    /\ UNCHANGED <<businesses, stage, asked, tokens, proven, serverVars>>

\* DELETE is hard.
DeleteCashier(o, c) ==
    /\ Manages(o, c)
    /\ users' = [users EXCEPT ![c] = None]
    /\ Arrives
    /\ UNCHANGED <<businesses, links, stage, asked, job, tokens, proven>>

\* A thread ends without a write: crash, IntegrityError, or no row left to verify.
DropJob(w) ==
    /\ job[w] # None
    /\ job' = [job EXCEPT ![w] = None]
    /\ UNCHANGED <<users, businesses, links, stage, asked, tokens, proven, serverVars>>

AccountsNext ==
    \/ \E o \in Owners, e \in Addresses : SignUp(o, e)
    \/ \E o \in Owners, c \in Cashiers, e \in Addresses : AskCashier(o, c, e)
    \/ \E u \in Users : CreateUser(u) \/ RefuseUser(u) \/ SendLink(u) \/ CutCreation(u) \/ Resend(u)
    \/ \E o \in Owners : CreateBusiness(o) \/ LinkBusiness(o)
    \/ \E u \in Users : LogIn(u)
    \/ \E w \in Workers, u \in Users, m \in Mailboxes : FollowLink(w, u, m)
    \/ \E w \in Workers : SaveVerified(w) \/ SaveCashier(w) \/ DropJob(w)
    \/ \E w \in Workers, o \in Owners, c \in Cashiers, e \in Addresses : ReadCashier(w, o, c, e)
    \/ \E o \in Owners, c \in Cashiers : DeleteCashier(o, c)

-------------------------------------------------------------------------------
(* Properties *)

\* Two users never have one address, whichever requests check, insert and save
\* at once (accounts/models.py: unique; the serializers only look).
OneAccountPerAddress ==
    \A u, v \in Users : Exists(u) /\ Exists(v) /\ u # v => users[u].email # users[v].email

Followed(u) == \E m \in Mailboxes : <<u, m>> \in proven

\* Whoever holds a token once followed a link that was mailed for the account:
\* no update that writes an old row back, and no row that is inserted again
\* after its deletion, lets in a user who never did (accounts/serializers.py:
\* FobosTokenObtainPairSerializer.validate, CashierSerializer.update).
TokensFollowLinks == \A u \in tokens : Followed(u)

\* "An owner cannot skip email verification" (accounts/serializers.py,
\* CashierSerializer): a verified user followed a link mailed to the mailbox
\* of the account.  The code breaks it: a link names the account alone, so
\* one mailed to the old address verifies the new one (accounts/views.py).
VerifiedAtTheAddress ==
    \A u \in Users : CanLogIn(u) => <<u, Mailbox[users[u].email]>> \in proven

===============================================================================
