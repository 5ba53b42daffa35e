# FOBOS: a specification of its core, model-checked and proved

FOBOS is a Django server for small shops in Burundi: a cashier checks a cart out, the
customer pays over a mobile-money or Lightning rail, and the confirmed payment becomes a
sale, ledger entries, stock movements and a receipt. The server runs request threads over
one PostgreSQL database under READ COMMITTED; there is no queue and no background worker.
Everything hard about it is therefore the same question asked in different places: what
happens when two requests, a retry, a crash or a failing hook fall between two statements.

Paths below are relative to the repository.

## 1. Inventory of the system

| Component | State it keeps | Operations | What makes it correct |
|---|---|---|---|
| **Payments** (`payments/`) | `Payment` rows: order_id, frozen cart, status, financial_event | checkout and subscription purchase create an invoice at the rail, then the row; `GET /payments/<id>/status` polls the rail; `POST /payments/onramp/confirm` validates an OTP; the rail's webhook; all end in `confirm_payment` | an order is confirmed once, whole or not at all; a status never contradicts the books; an order whose confirmation is tried again is confirmed in the end |
| **Rail adapters** (`payments/adapters.py`, `payments/demo.py`) | registry, OTPs of the demo adapter (in memory) | create_invoice, get_status, request_otp, confirm_otp | an OTP pays for one order at most |
| **Ledger** (`ledger/`) | `FinancialEvent`, `LedgerEntry` | `post_save` of a confirmed event calls the sales handler in the same thread; the dashboard reads sums | one REVENUE and one COGS entry per sale, equal to the sale |
| **Sales** (`sales/`) | `Sale`, `SaleLine`, `Receipt` | `handle_financial_event`, one transaction over payment, products, movements, entries and receipt | all or nothing, one sale per order |
| **Stock** (`products/movements.py`, `products/movement_views.py`) | `Product.stock_qty`, append-only `StockMovement` | restock, adjustment, sale; a paged listing | the stock is the sum of its movements, never negative, no update lost; paging is exact |
| **Products** (`products/views.py`, `signals.py`, `services.py`) | `Product`, its barcode and image | create, scan, list; `post_save` stores the barcode image and then records the initial stock | stock is explained from the first moment on |
| **Subscriptions** (`subscriptions/`) | `Plan`, `SubscriptionOffer`, `Subscription` | 3-day trial at signup, purchase, activation when the payment is PAID, feature access | one activation per payment; access is what was paid for |
| **Accounts** (`accounts/`) | `User`, `Business` | signup, e-mail verification by signed link, cashiers, login | an address is one user's; who logs in followed a link, mailed to the address of the account; a signup is complete or visibly cut |
| **Automation** (`automation/`) | `AutomationRule`, `AutomationExecution` | default rule created lazily, rules run after each sale | a rule never undoes a sale; no business that signed up lacks the default rule |
| **Integrations** (`integrations/blink`, `integrations/bitlibera`) | none (clients of remote APIs; the repository has no adapter that calls them yet) | create, pay and cancel invoices, on-ramp and off-ramp orders, statuses and their translation, a status websocket | an error says whether something may have happened; a result promises only what was done; a reported end is the end; a watcher comes back at a stop value or with an error |
| **Dashboard** (`ledger/views.py`) | none | `GET /dashboard`: six sums and counts of the day, a statement each | the figures of one answer may be of different moments, but never flatter |
| **Configuration, admin, migrations** | none of their own | declare | |

How they interact: views call services directly; `FinancialEvent.post_save` calls
`handle_financial_event`, `Payment.post_save` calls `activate_from_payment`,
`Product.post_save` calls the barcode and initial-stock receivers, all synchronously in the
caller's transaction if one is open. The shared state is the database, and the only
synchronisation is `select_for_update` on a `Payment` or `Product` row. The rails are
outside, answer late, repeat webhooks, and may be paid for an invoice they have reported as failed or expired.

What is hard here, and where it bites, is the list `hazards` of `PROJECT.json`.

## 2. Modules

| Module | What it is |
|---|---|
| `OrderSettlement` | abstract specification: orders are placed, then settled at once and at most once against the stock |
| `Settlement` | payments, sales, ledger, stock and activation as the code has them |
| `Inventory` | creation of products, stock changes and the paged movement ledger, with times and keys |
| `Server` | what the next three share: businesses, the clock, the bound on requests |
| `Accounts` | signup, verification links, cashiers, login |
| `Automation` | how the rules of a business come to be |
| `Subscriptions` | trials, purchases, activation, expiry and access over time |
| `Membership` | the three together: a signup passes through all of them, and an account decides who may buy |
| `Clients` | a call to Blink or BitLibera: request, reply, timeout, error, translation |
| `InvoiceWatch` | waiting for a Blink invoice on a socket; extends `Clients` |
| `OneTimeCodes` | abstract specification: codes are issued, lapse, or pay for one payment each |
| `Onramp` | the demo adapters, their codes and the on-ramp views |
| `Dashboard` | the queries of `GET /dashboard` over the rows of a day, beside confirmations; extends `Onramp` |
| `Rails` | the four together: one deployment, with demo adapters or with providers |
| `MCSettlement`, `MCInventory`, `MCMembership`, `MCRails` | carts, stocks, addresses, prices and symmetries of the small instances |
| `SettlementProofs`, `StockProofs`, `SaleProofs` | theorems of `Settlement`, each module on top of the one before: confirmations, then locks and movements of stock, then what sales take, the refinement, and what the findings leave standing |
| `InventoryProofs`, `MembershipProofs`, `RailsProofs` | theorems of the module each is named after |
| `DashboardProofs` | theorems of `Dashboard` inside `Rails`, on top of `RailsProofs` |
| `SumLemmas` | lemmas about finite sums, with no variable of the system: what adding, removing, negating a term or joining two sequences does to a sum |

### Settlement and the code

A worker is a request thread; `pc` says which statement it is about to run and `job` which
order it is about. The variables called tables hold committed rows. Inside a transaction a
worker's writes are in `event`, `pending` and `total_cogs` and become visible together in a
commit action (`CommitConfirmation`, `CommitWithoutSale`, `CommitHanded`), which is also where
rows are inserted that no other transaction can see before (sale, entries, receipt).
`payment_lock` and `product_lock` are the rows locked by `select_for_update`; reads without it
see committed rows only.

| Actions | Code |
|---|---|
| `CreateInvoice`, `InsertPayment` | `create_checkout_payment`, `create_subscription_payment`: the rail is asked before the row is inserted |
| `PollRead`, `PollPaid`, `PollExhausted`, `PollUndecided`, `PollSave` | `PaymentStatusView.get`: row read, rail asked, then `confirm_payment` or an unconditional save of the status |
| `OnrampRead`, `OtpAccepted`, `OtpRejected` | `OnrampConfirmView.post` |
| `RailPosts`, `PostRefused` | the rail's POST to `BlinkWebhookView`, which names no permission: the default of `config/settings.py` (IsAuthenticated by JWT) answers 401 |
| `Webhook` | `BlinkWebhookView.post` with a paid status, called by a client with a token of FOBOS; any other status is answered without a change |
| `ConfirmAgain`, `ConfirmNew` | `confirm_payment` up to and including the creation of the event, whose `post_save` enters the handler |
| `HandEvent`, `HandedSkip`, `HandedBegin` | a confirmed `FinancialEvent` created by other code ("Backend Dev B hands us a confirmed event through this model"), and the handler run for it |
| `TakeLine`, `InsufficientStock`, `BarcodeFails` | one turn of the handler's loop over the cart: lock, check, move; the save of the stock runs `_sync_barcode_image`, which may raise |
| `CommitConfirmation`, `CommitWithoutSale`, `CommitHanded` | the end of the transaction |
| `StockMutation` | restock or adjustment, one transaction that takes one row and so one step |
| `Crash`, `AutomationBreaks`, `DeadlockVictim` | the transaction is rolled back: the process dies or anything raises; a rule fails in the database; PostgreSQL breaks a deadlock |
| `RailResolves` | the rail decides about the invoice; one that failed or expired may be paid later (external) |

`Inventory` sees the same stock from the side of its rows. A movement is stamped with a time
and a key when Python builds it (`Stamp`) and becomes visible at `Commit`; between the two,
rows of other products may commit. `CreateProduct` commits the product's row on its own, and
`RecordInitialStock` or `EndUnrecorded` is what the receivers do next: `_sync_barcode_image`
comes first, and for an `Unprintable` product it may raise, then and at each later save of the
stock (`BarcodeFails`). A 409 changes nothing and is a guard.
`FirstPage` and `NextPage` are `GET /inventory/movements`; the cursor text is reduced to the
row whose time and key it carries. The two modules are not composed: a sale is to `Inventory`
one more transaction that locks a product, and to `Settlement` times and pages are invisible.

### Membership and the code

Nothing in `accounts/` runs in a transaction, so every statement that writes is an action.
`stage[u]` is how far the request that creates `u` has come; `CutCreation` is its end by a crash
or any exception, at each point. `job[w]` is what a thread has read and will save. A link names
a user and not an address (`build_verification_token`): `links` also remembers the mailbox it was
sent to and `proven` which links were followed, but `FollowLink` and `SaveVerified` look at the
user alone. A link that has expired, or whose mail never arrives, is one that nobody follows.
`tokens` are the users who have logged in; a token stays good when the address changes
(JWT), and not when the user is gone. A purchase keeps apart what its row says (`status`, EXPIRED and
FAILED in one) from whether it was confirmed (`event`), because a poll may overwrite the first.

| Actions | Code |
|---|---|
| `SignUp`, `CreateUser`, `RefuseUser`, `CreateBusiness`, `LinkBusiness`, `SendLink` | `SignupSerializer.validate` and `create`; `RefuseUser` is the unique constraint |
| `SignupFindsRule`, `SignupMissesRule`, `SignupSeedsRule` | `ensure_default_rule`, called by the signup |
| `SignupFindsSubscription`, `SignupLooksForTrial`, `SignupGrantsTrial` | `create_trial`: the clock and the lookup, then the insert |
| `AskCashier`, `CreateUser`, `SendLink` | `POST /auth/cashiers` |
| `ReadCashier`, `SaveCashier`, `DeleteCashier` | `CashierDetailView`: a full-row save of what was read, a hard delete |
| `Resend`, `FollowLink`, `SaveVerified` | `ResendVerificationView`, `VerifyEmailView` |
| `LogIn` | `FobosTokenObtainPairSerializer.validate` |
| `LookForRule`, `CreateMissingRule`, `PostRule`, `AbandonRule` | `ensure_default_rule` from the list views, `POST /automations` |
| `Buy` | `create_subscription_payment`, by anybody of a business who holds a token |
| `BeginConfirmation`, `CommitConfirmation`, `RollBack` | `confirm_payment` as seen from here: `now` is read after the lock, the subscription appears at the commit |
| `SaveExhausted` | `PaymentStatusView`: a poll that read the row when it was PENDING saves EXPIRED or FAILED over whatever it is by now |
| `SaveAgain` | any later save of a PAID payment, whose `post_save` activates again |
| `EditOffer` | an administrator edits or deletes an offer (external) |
| `Tick` | time, which a transaction does not outlast by more than `Span` |

Letter case matters to the unique constraint and not to the mail: `Mailbox` maps spellings to
mailboxes. `FullAccess(b)` asks whichever row `.first()` may return among equal `started_at`.

### Rails and the code

`configured` is what the environment has keys for, `state[o]` what the provider has of an order.
A call is `sent`, may be served or refused, and ends in a value or an error class; a refusal may
itself be a value (FAILURE or ALREADY_PAID of `pay_invoice`, False of `cancel_invoice`). `adrift` are
requests whose callers gave up before the provider saw them: they may be served later or lost.

| Actions | Code |
|---|---|
| `Use`, `Begin` | a method of `BlinkService` or `BitLiberaService`; a missing key is noticed before anything is sent |
| `Return` (`Execute`, `Parse`, `MutationErrors`, `Outcome`, `Value`) | `BlinkClient.execute`, `BitLiberaClient._parse`, `_raise_mutation_errors`, `translate_invoice_status`, `translate_order_status` |
| `GiveUp` | `requests.Timeout` and the other `RequestException`s |
| `Serve`, `Refuse`, `ServeLate`, `LoseRequest`, `Resolve`, `SendFrame`, `Announce` | the providers and the network (external) |
| `Subscribe`, `CannotSubscribe`, `HearOn`, `HearEnd`, `HearError`, `ConnectionBreaks`, `ConnectionCloses` | `subscriptions.py`: `iter_statuses`, `parse_status_message`, `on_status_change` with any `stop_on` (none, or both ends) |
| `RequestOtp`, `BeginConfirm`, `TakeOtp`, `ConfirmPayment`, `ConfirmFails`, `PollDemo`, `Restart` | the on-ramp views, `DemoBitLiberaOnrampAdapter` and its `_otps`, a restart of the server |
| `AskDashboard`, `ReadFigure`, `Answer` | `DashboardView.get`: the date, then a query at a time over the rows of that date |
| `Book`, `Midnight` | the days of the sale and the two entries of a confirmation (`created_at`), stamped one after the other; the clock (external) |

What is assumed of the providers, since their code is elsewhere: a refusal means that nothing
was done (a 4xx, a 5xx without effect, errors inside a 200); a 5xx after the effect is possible
too, and then carries no such promise; an order moves as `Moves` says, and what is paid stays
paid. An answer of `execute_onramp` or `pay_invoice` may leave the order pending. Because no adapter in the repository uses the clients, any caller may make any call at any
time, except that a caller that waits for an invoice does nothing else.

What the data is reduced to in `Settlement` and `Inventory`: one business (all queries filter by it), amounts and quantities
as small naturals in one currency, names, reasons and contents left out, primary keys taken
from a pool where the code draws random UUIDs.

## 3. Runs

| Run | Instance | What it shows |
|---|---|---|
| `SettlementRace` | 2 orders with the carts (p1, p2) and (2 p2, p1), stock 2 of each; 3 threads; 1 fault | no double or half settlement, no lost update, whatever mixture of polls, webhooks, OTPs, retries, crash and deadlock |
| `SettlementStock` | a cart that names one product twice, another cart, stock 3, changes by -1 and +2; 2 threads; 1 fault | movements balance, stock leaves exactly for sales, and `Settlement` implements `OrderSettlement` |
| `SettlementHanded` | a cart and a subscription, each may have an event handed in once; 2 threads; 4 events; 1 fault | no sale after a confirmation, confirmations stay whole, subscriptions make no sale |
| `SettlementRetry` | 2 orders, opposite carts, stock for both, 2 threads, 1 fault; fair | requests end, although they deadlock, and an order whose confirmation is tried again as long as it takes is confirmed, after crashes, deadlocks, failing rules and polls that wrote EXPIRED |
| `Inventory` | 2 products, one unprintable; 2 writers, 1 reader, 3 keys, 2 instants, page sizes 1 and 2, 1 crash | stock is explained, the ledger grows forward, paging is exact |
| `Membership` | a settled owner and one who signs up, a cashier, 4 addresses of which 2 are one mailbox, 2 threads, 2 payments for one offer of 1 or 2 months (0 or none after an edit), month 2, trial 1, span 1, 5 instants, 3 requests | addresses stay apart, nobody logs in who never followed a link, signups are complete or cut, a confirmed purchase is activated once and served whatever polls write over its status, access is paid for |
| `Rails` | 1 caller that is also the watcher, 1 order of each kind, codes 403, 429 and 500, 3 calls, 2 unread frames; 2 payments, 2 threads, 2 codes for one phone and amount, 2 issues, 1 midnight | errors and results mean what they say, verdicts are final, a code pays one order (`Onramp` implements `OneTimeCodes`), the dashboard does not flatter |
| `FindingHandedEvent`, `FindingStaleStatus`, `FindingAutomation`, `FindingInitialStock`, `FindingOldLink` | instances as above, without what they do not need | the disagreements of section 6, one property each |

Why the bounds suffice. Two requests are enough for each race on a row; three let a third
arrive between the two and meet what both left. Two orders with opposite carts give every lock
order on two products. Two of each product would cover one order twice, so that a double sale
is not hidden by a shortage, but not both orders, so that lines run short. The event pool (`Events`) is at least the number
of confirmations and handed events that can be open or kept at once, so it never blocks a
request that the code would serve. `MaxMovements` stops only the owner's stock changes,
`MaxFaults` only faults. `RailEnds` is every end a rail can report; in
`SettlementRetry` it is "paid" and "expired", since "failed" differs from the latter in name only. In `Inventory`, `Ids` and `KeyLeft` bound the rows to three, enough
for two pages with a row arriving between them, and `MaxClock` = 1 gives equal and different
times. In `Membership` three requests suffice for any two to race with a third that prepares
them (a cashier is created, read by one thread and changed by another; two purchases, one
edited offer), while clicks on links, mails, crashes, steps of requests and time are not
counted; `Span` is less than `Month` because no transaction lasts for thirty days, and 5
instants hold a trial, two purchases and the end of both. In `Rails` a caller and its own late
requests race for an order, so that one caller shows what two do; two frames hold an answer and
one more, the frames Blink announces come on top. One midnight suffices, since a confirmation is
shorter than a day and an answer is of one date. Each reader walks once. `SYMMETRY` permutes
threads, events and codes in safety runs only; no property names one of them.

Deadlock is checked in every run. `Quiescent` is the idle server, which may rest for ever.

Fairness (`FairSpec`, used by `SettlementRetry`): a thread
that can run a statement runs it; PostgreSQL serves a freed row to a waiter before a newcomer, so a
thread whose row is free again and again gets it (`SF` on `LockPayment` and, line by line, on
`LockProduct`; with fairness for the whole cart only, two requests could take turns in
locking the first row of the other for ever); the deadlock detector runs. Customers, owners, rails,
polls and faults are not fair. That somebody confirms at all is therefore not assumed but is the
premise of the properties: `RetriedOrdersSettle` is about orders for which a confirmation is running
again and again, whoever asked for it, and says that one of them goes through; `Unsellable` excepts
orders whose stock is gone or whose product cannot be saved. The rail's own retries are no such
confirmation: they are refused (section 6). `Rails` has no fairness: nothing in the repository calls the
watcher or bounds its socket, so nothing is promised of when it comes back, only of how.

Each property of a passing run comes with a mutant in `PROJECT.json`: a slip of the code, kept
as a definition next to the one it replaces, under which TLC finds the property violated.

## 4. Theorems

Proved by TLAPS for all orders, carts, products, threads, stocks and bounds that satisfy the
named assumptions of the modules (carts hold positive quantities of known products, a
subscription has no cart, `None` is none of the values it stands beside):

| Theorem | States |
|---|---|
| `SettlementProofs!TypeCorrect` | `Spec => []TypeOK`: in particular no stock is negative |
| `SettlementProofs!AtMostOneSale` | `Spec => []OneSalePerOrder` |
| `SettlementProofs!ConfirmationIsWhole` | `Spec => []ConfirmedIsWhole` |
| `SettlementProofs!ConfirmationIsFinal` | `Spec => ConfirmedOnce` |
| `SettlementProofs!ConfirmationEndsSales` | `Spec => NoSaleAfterConfirmation` |
| `StockProofs!StockIsItsMovements` | `Spec => []MovementsBalance` |
| `StockProofs!NoUpdateIsLost` | `Spec => []NoLostUpdate` |
| `SaleProofs!StockLeavesWithSales` | `Spec => []SalesAccountForStock` |
| `SaleProofs!StockIsTheSum` | `Spec => []` the stock of a product is the sum of `qty_delta` over its movements |
| `SaleProofs!SettlementIsAtomic` | `HandedOrders = {}` implies `Spec => SettlesAtomically`: `Settlement` implements `OrderSettlement` |
| `SaleProofs!OnlyPollsTakePaid` | `Spec => PaidIsLostToPolls`: a PAID payment loses its status to the save of a poll or not at all |
| `SaleProofs!DoubleSalesAreHanded` | `Spec => []SecondSalesAreHanded`: one of two sales of an order is of an event handed in |
| `InventoryProofs!InventoryTypeCorrect` | `Spec => []TypeOK` |
| `InventoryProofs!PagingIsExact` | `Spec => []WalkIsExact` |
| `InventoryProofs!LedgerIsInOrder` | `Spec => LedgerGrowsForward` |
| `InventoryProofs!StockExplained` | `Spec => []StockIsExplained` |
| `InventoryProofs!StockIsTheSumOfMovements` | `Unprintable = {}` and `MaxCrashes = 0` imply `Spec => []StockIsSumOfMovements` |
| `MembershipProofs!MembershipType` | `Spec => []TypeOK` |
| `MembershipProofs!AddressTheorem` | `Spec => []OneAccountPerAddress` |
| `MembershipProofs!TokenTheorem` | `Spec => []TokensFollowLinks` |
| `MembershipProofs!SignupTheorem` | `Spec => []CompleteOrCut` |
| `MembershipProofs!ActivationTheorem` | `Spec => []ConfirmedIsActivated` |
| `MembershipProofs!PaidMonthTheorem` | `Spec => []PaidMonthIsServed` |
| `MembershipProofs!AccessTheorem` | `Spec => []AccessWasPaidFor` |
| `MembershipProofs!OnlyTimeTheorem` | `Spec => OnlyTimeTakesAccess` |
| `RailsProofs!DefiniteErrorsTheorem` | `Spec => []DefiniteErrorsDidNothing` |
| `RailsProofs!ResultsTheorem` | `Spec => []ResultsWereServed` |
| `RailsProofs!ReportsTheorem` | `Spec => []ReportsAreTrue` |
| `RailsProofs!VerdictTheorem` | `Spec => []VerdictIsFinal` |
| `RailsProofs!CodesRefinement` | `Spec => CodesAreOneTime`: `Rails` implements `OneTimeCodes` |
| `RailsProofs!CodesTheorem` | `Spec => []OneCodePaysOneOrder` |
| `DashboardProofs!RailsType` | `Spec => []TypeOK` |
| `DashboardProofs!ProfitTheorem` | `Spec => []ProfitIsNotOverstated` |
| `DashboardProofs!FiguresTheorem` | `Spec => []FiguresAreInOrder` |

The argument for `Settlement`. `ConfirmedIsWhole` is not inductive: that a commit leaves the
order whole depends on what the worker knew when it began. `IInv` adds that a worker between
`ConfirmNew` or `HandedBegin` and its commit holds the payment's lock (`LockInv`), that what it
found then is still so, because only holders of the lock change it (`InFlightInv`), that events
in use are apart (`EventInv`), and that a sale belongs to its event and a confirmed order to
its event and sale (`SaleInv`, `PointerInv`). Locks of two workers on one row are impossible,
and so are two confirmations. `StockInv` does the same for products: a worker with pending
movements of a product holds its lock (`ShelfLockInv`), hence the committed stock does not move
under it, and balanced runs of movements concatenate (`BalancedAppend`, `BalancedConcat`).

`SalesAccountForStock` is about sums, over the lines of a cart and over the movements of a
product, and says nothing of a handler half way through its cart. `HandlerInv` does: after `n`
lines, the pending movements add up to the first `n` lines and `total_cogs` to their cost
(`Progress`), whichever of them name the same product. `ReferenceInv` says that a transaction
moves stock in the name of its own order only, `FiniteInv` that an order's sales can be counted.
A commit then adds one sale and one cart, and every other step leaves an order's takings alone.

The refinement maps an order to placed when its payment row exists and to settled when its event
is set. Its steps are four: `InsertPayment` is `Place`, `CommitConfirmation` and
`CommitWithoutSale` are `Settle`, `StockMutation` is `ChangeStock`, and each of the others,
crashes and deadlocks included, is a stutter (`WhoWritesOrders`, `StepIsAbstract`). That `Settle`
takes the whole cart from a stock that covers it is `Progress` at the last line. `PlacedInv`
excludes a confirmation or a saved status of an order that is not there. The hypothesis
`HandedOrders = {}` says that only `confirm_payment` creates events, which is all the repository
itself does; without it the statement is false, as `FindingHandedEvent` shows.

The argument for `Inventory`. `KeyInv`: keys are apart, so that `Older` is a total order of the
rows. `TimeInv`: a stock change stamped under the product's lock is not older than anything its
product already has, since nobody else commits one before it ends. `WalkInv`: between two
pages, everything returned is the cursor or newer and everything still owed is older; a row
that commits later, wherever its time puts it, disturbs neither half (`WalksOutliveGrowth`).
`StockIsExplained` is kept with three facts about requests under way: a product that has movements
or a request exists (`BirthInv`); whoever is to record a first stock is alone with its product,
which has none recorded (`RecordingInv`); and a row about to commit is the initial stock, or leads
from the stock its product has to the one it will have (`PendingInv`).

The argument for `Membership`. `IInv` has one part for each component. `VerifiedInv` and
`JobInv` are what makes `TokensFollowLinks` inductive: a user becomes verified by a link or by a row
that is written back or inserted again, and a thread may hold such a row for as long as it likes, so
whoever it verifies must have followed a link before; `proven` only grows.
`OwnersInv` and `SignupInv` say what each stage of a signup has left behind, and rest on owners
being neither deleted nor saved by anybody else. `PurchasesInv` ties the confirmation of a payment, and
not its status, to its subscriptions, lets only confirmed ones be PAID, and keeps a confirmation's clock reading less than a month old, without which a
purchase committed late could be over at once and take access away (`AccessStays`).
`AccessWasPaidFor` needs that some subscription is the newest: start times are bounded by the
last instant, and the naturals are well founded (`LeastOne`).

The argument for `Rails`. `Kept(s, t)` says that whatever end `s` is, `t` is too: orders move only
forward in that sense (`ServiceKeeps`, `ResolveKeeps`). What is known of a call (`CallFits`) is put
together so that it survives any move of its order (`FitsOn`): a reply under way tells of a past
state that the present one keeps. A frame on a socket is the same kind of old news (`WatchFits`).
That a refusal promises nothing, in any of its forms, is `RefusalsPromiseNothing`.
Every step is then a move of calls and orders (`CallsMove`) and says separately what it does to
watchers. For the codes, `CodesAreInOnePlace`: an issue is in the store, in one thread or spent, and
never in two of these. For the refinement a code is open while it is in the store or in a thread
that has taken it: `TakeOtp` stutters or lets it lapse, a restart lets all lapse, and
`ConfirmPayment` redeems it unless the payment is PAID by then, which `SpentArePaid` ties to what
the payment was paid with.

The argument for the dashboard. Between two queries payments are only added, with the days of their
rows, and a booked payment keeps its days, so every sum over the rows of one day only grows
(`SumsGrow`). What the entries of the day have and its sales have not is `Overnight`
(`CreditsAreExplained`, which splits a sum in two by `SumSplit`). `FiguresGrow` says for each number of queries done how the figures
so far compare with one another, with the profit at the start (`truth`) and with the sums as they
are now; the next query replaces "as they are now" by its result.

The argument for sums. `SumFunction` of the community modules folds over a set in an order nobody
knows, and no theorem of the installed library speaks of it. `SumLemmas` unfolds the definition:
a function that satisfies the fold's equation on all subsets of a finite set exists
(`TableExists`) and is unique (`TablesAgree`), so that a sum is the term that
the fold picks plus the sum of the rest (`SumPicks`), and, since addition commutes, the same for
any other term (`SumRemove`). The inductions are over cardinalities. The library's induction rules take
an operator as a parameter, which these provers cannot instantiate; so each is stated of the set
of naturals for which the claim holds, and follows from the existence of a least one outside of
it (`LeastOne`, `NumberInduction`, `SubsetInduction`).

Only model-checked: liveness (`RequestsEnd`, `RetriedOrdersSettle`), which the
prover does not reach: it needs fairness and ENABLED. Every invariant, action property and
refinement that a passing run checks is a theorem above. The properties of the `Finding` runs do
not hold as they stand. Three theorems say how far some of them fail. `OnlyPollsTakePaid` rests on
`CheckoutInv`: an order has one checkout, which inserts its row before anything else can find it.
`DoubleSalesAreHanded` rests on `OwnSaleInv`: what `confirm_payment` sold, its payment points to.
`StockIsTheSumOfMovements` excludes what its run injects, and crashes; it rests on `OwedInv`, by
which a stock that is not recorded is about to be. What is left of
verification beside the old link is `TokenTheorem`.

## 5. What is left

The modules are written in the order in which money passes: settlement, stock, membership, rails.
Of what could still be added, in this order:

1. The composition of `Settlement` with `Membership`: today a confirmation is the same transaction
   seen twice, with its locks and records in one module and its clock in the other.
2. The runs of automation rules with their executions, once something reads executions.
3. Adapters that call the clients of `Rails`, once the repository has them.

## 6. What the runs found

- **A handed event makes a second sale** (`FindingHandedEvent`). The guard at
  `sales/services.py:64` compares `Payment.financial_event`, which only `confirm_payment` sets.
  An event created before the confirmation makes a sale and leaves the field empty.
- **A poll overwrites PAID** (`FindingStaleStatus`). `payments/views.py:76` saves a status decided on
  a row read before the rail was asked. The books stay right (`ConfirmedIsWhole` holds), the
  status does not.
- **A failing rule takes the sale with it** (`FindingAutomation`). The `except` at
  `sales/services.py:155` is inside the caller's atomic block. The order stays unconfirmed and a
  retry may settle it (`SettlementRetry`).
- **An old link verifies a new address** (`FindingOldLink`). The token names the account; a link mailed
  before a change of address and followed after it verifies an address nobody has shown to hold.
- **Stock without a movement** (`FindingInitialStock`). The barcode receiver runs before the one
  that records the initial stock, after the row is committed.

Three more disagreements have no run, because they are plain from the text of one function:

- `BlinkWebhookView` (`payments/webhooks.py:44`) declares no permission, so the default of
  `config/settings.py:113` asks the rail for a JWT and answers 401 before `post` runs; an order is then
  confirmed by a poll or an OTP only. The model has the refusal (`RailPosts`, `PostRefused`).
- `on_status_change` (`integrations/blink/subscriptions.py:171`) returns `None` when Blink closes the
  socket in order, as it does at a stop value, although its callers are told to poll after an error
  or an exhausted iterator. The model has the return (`ConnectionCloses`).
- `my/plan` (`subscriptions/views.py:63`, `serializers.py:56`) goes by the status, which nothing sets
  to expired, and shows the features of a subscription that `has_business_feature` no longer grants.

## 7. Not modelled

Wording, HTML and serializers, the view of `POST /cart/checkout` (it maps exceptions to HTTP
statuses); barcode encoding and product lists; migrations, settings and admin sites, among them
the product form that writes `stock_qty`; GraphQL documents, `default_wallet`, `realtime_price` and
`pay_lightning_address`, which takes the path of `pay_invoice` without an order of ours; passwords
and the claims of tokens; the domain part of an address, which `normalize_email` writes in lower case (`Addresses` are spelled as
stored); what a poll makes of `cancelled`, which it leaves PENDING; of the dashboard the stock warnings, alerts and margin, lists and arithmetic on rows
read once; automation executions, which only lists read. Several businesses meet only where
accounts and subscriptions do (`Membership`); in `Settlement` and `Inventory` there is one, since no
query crosses them. No Decimal rounding: every amount is added and copied but never divided
except for display.
Of currencies only the reference currency is modelled: for it `amount_bif` is the total of the
sale. The webhook names no amount, so the event it leads to has amount 0
(`payments/services.py:223`); the model keeps that, and no property relies on that field.
