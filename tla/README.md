# Bookora API: specifications, checks and proofs

TLA+ specifications of the Bookora bookstore API (a NestJS application over PostgreSQL through
Prisma), the TLC configurations that check them on small instances, and theorems about them that the
TLAPS proof system checks for every instance. Paths below are relative to the repository.

Contents

1. [The system](#1-the-system)
2. [Modules and how they correspond to the code](#2-modules-and-how-they-correspond-to-the-code)
3. [Runs, bounds and fairness](#3-runs-bounds-and-fairness)
4. [Where the documentation and the code part](#4-where-the-documentation-and-the-code-part)
5. [Proofs](#5-proofs)
6. [What is not modelled](#6-what-is-not-modelled)
7. [Observations](#7-observations)
8. [Plan](#8-plan)
9. [Running the tools](#9-running-the-tools)

## 1. The system

The API is one stateless process, started any number of times, in front of one database. All state
that matters is in rows; all concurrency is between requests (of customers, of branch staff, of the
payment provider VNPAY) whose statements and transactions interleave. Two kinds of atomicity occur:

- **Serializable transactions** (`src/database/serializable-transaction.util.ts`, Prisma's
  `$transaction`): all or nothing, as if alone, retried a few times on a conflict, and then refused.
- **Single statements.** A conditional `updateMany` re-evaluates its `where` on the current row, so it
  is a compare-and-set. A `findUnique` followed by an `update` is not.

The interesting behaviour is in the code that reads with one statement, decides in JavaScript, and
writes with another; in long sequences of legal edits to related rows; and in pages that compute one
thing (a price, a count, what is visible) several times over in queries of their own.

### Inventory

| Component | State it keeps | Operations that change it | Interacts with | What is hard about it | What makes it correct |
|---|---|---|---|---|---|
| checkout | orders, payments, attempts, order lines | preview, `placeCod`, `placeVnpay` (idempotent by key) | cart, inventory, shipping, VNPAY | what was resolved is written by a later transaction; competing orders; replay | an order is what was previewed; a key places once |
| cart | cart lines per branch | add, update, remove, switch branch, validate | checkout, products | changed while an order is placed or paid | what is ordered leaves the cart once |
| payments | `PaymentTransaction` attempts, `Payment` | IPN, browser return, expiry on the status poll, `retry` | orders, inventory, cart | repeated, late and reordered reports; expiry racing a charge; retries that checked an old state | one attempt at a time, one charge counted, reserved stock ends sold or returned |
| orders, customer-orders, admin-orders | order status, stock timestamps, history | cancel (both sides), transition, confirm receipt | payments, inventory | cancellation racing callbacks and the branch | only funded orders move on; cancelled orders return their goods |
| inventory | branch stock, movement ledger | `adjustQuantity`, thresholds | orders, stock-receipts | stale expected quantity | the ledger explains the shelf |
| stock-receipts | receipts with lines | draft, edit, confirm, cancel | inventory | two confirmations; edit racing confirmation; retried transactions | a receipt is booked once, with its final lines |
| auth | sessions, refresh-token hashes, attempts | login, Google sign-in, refresh, logout, password change | users, password recovery | rotation races; revocation racing a login; concurrent guesses | a token is spent once; a revoked session stays dead; guesses are bounded |
| password recovery | reset links, attempts | forgot, reset, mail failure | auth, users, mail | one link presented twice; failing mail racing a newer link | one link sets one password and ends all sessions |
| users | accounts | disable, activate, profile | auth, authorization | disabling in the middle of other requests | a disabled account is frozen |
| authorization, auth guards | roles, permissions, branches, staff assignments; the guards of every route | grants, assignments, closing of branches | users | a principal read before a change and used after it; a primary branch replaced by a stale choice | delegation stays within the caller; nobody enabled is without a branch; who gets through was entitled |
| products, product-attributes, suppliers, publishers, authors | products, variants, combinations, registers | CRUD, bulk creation | inventory, cart, receipts | keys and columns stored from rows that are renamed, retyped and removed | what is stored resolves and reads back |
| product-media, customer-account (avatar), shared storage and images | rows, stored objects | upload, reorder, delete, clean-up | object storage | an object stored and its row not, or the reverse | no row without its object |
| categories | the tree and its slugs | create, move, rename, delete | products | slugs built from two names | slugs follow the tree and are unique |
| customer-addresses | addresses | CRUD, set default | checkout | the mark moved by five operations | one default address |
| reviews, wishlists, account-dashboard | reviews, wish list | write, moderate, toggle | orders, products | check and write apart; counted in several queries | a review per received line; pages agree |
| shipping | none | weight, box, route, fee | checkout | boundaries and rounding | one more book never makes it cheaper |
| storefront-catalog, storefront-branches | none | queries | products, categories, orders | one rule in many queries | pages agree on visibility, price, order and number |
| dashboard, analytics, revenue-reports | none | queries | orders, history | time zones, ranges, several sources | figures add up |
| integrations (VNPAY, VietMap), mail | none (external services) | signing, calls | payments, checkout, password recovery | unreliable delivery | modelled as outcomes where they matter |
| core, common, config, health, database, schema, seed, scripts | wiring, transactions | transaction retry | everything | retry of an aborted transaction | a retried transaction takes effect once |

`PROJECT.json` lists each of them with its sources and its status, and the hazards at their lines.

## 2. Modules and how they correspond to the code

| Module | What it is |
|---|---|
| `StockHolds` | abstract: every source of a stock movement takes its goods at most once, and then sells them or gives them back, never both |
| `OrderPayments` | placement, VNPAY attempts, retry, cancellation and fulfilment with the branch stock; implements `StockHolds` |
| `StockReceipts` | abstract: receipts, adjustments and orders on a branch's stock, each as one step, with the ledger |
| `StockTransactions` | the same by overlapping serializable transactions with snapshots, conflicts and retries; implements `StockReceipts` |
| `CheckoutFlow` | cart, preview, placement, its replay and payment, while the shop changes |
| `ShippingFees` | box, chargeable weight, route and fee as operators |
| `ProductCatalog` | one product: options, values, variants, combination keys, galleries |
| `CategoryTree` | two-level category tree and its slugs |
| `ImageStorage` | stored objects and the rows that show them |
| `Storefront` | the public pages as operators on a catalog that changes |
| `Registers` | suppliers, publishers, authors and attributes, and what products and receipts refer to |
| `OrderReports` | revenue reports and dashboard as operators on orders and their history |
| `AuthSessions` | sign-in, refresh rotation, logout, password change, reset links, disabling |
| `LoginThrottle` | the counters that bound logins and password resets |
| `AddressBook` | addresses of a customer and the default mark |
| `CustomerAccount` | reviews, wishes, the order tabs and the customer's dashboard |
| `StaffRoles` | vocabulary of the next two |
| `StaffAssignments` | accounts, assignments, primary branches, roles and branches |
| `StaffRequests` | who may give whom which role and permission, with the policies, the offers and the transactions apart |
| `AccessRoutes` | every route of every controller: guards, scope, permissions, audience; the seed's catalog and roles |
| `AccessControl` | the guards of a route, one after the other, while assignments and branches change |
| `MCOrderPayments`, `MCStaff`, `MCStore`, `MCAccounts` | instances for TLC, symmetry, and the parts put together |
| `OrderPaymentsProofs` | theorems about orders, with `MCOrderPayments` |
| `AuthSessionsProofs`, `AccountsProofs` | theorems about sessions; about throttling, addresses, account pages, access, and `MCAccounts` |
| `StaffProofs` | theorems about assignments, requests, registers, figures, and `MCStaff` |
| `StockTransactionsProofs`, `CatalogProofs`, `StoreProofs` | theorems about stock; about products, categories, images; about checkout, fees, public pages, and `MCStore` |
| `SumTheorems` | lemmas on sums over finite sets |

In every module a serializable transaction, or a single statement with its condition, is one action; an
aborted transaction is the action not being taken (`StockTransactions` shows for the stock why that is
right). A request that reads before it writes is two actions, and what it has read is kept in a slot
(`call`, `request`, `click`, `pending`, `saving`, `moderating`, `job`), so that everything else may happen
in between. A request may also end at any point, which covers refusals, crashes and time-outs.
Definitions that begin with a comment "Mutant" are variants of the definition after them, with a
plausible bug; they show that each property can be broken, and nothing else uses them.

Modules that share no table are put together in one run by a variable (`side`, `part`) that picks, at
the start, whose operations a behaviour shows, so a run explores the union of the parts and not their
product. Where parts do share a table, each names the other in its header and models what the other
does to it as an action (`Sell`, `Advance`, `ShopChange`).

### Orders and payments

`order`, `payment`, `attempt[o][n]` are the rows `Order`, `Payment` and `PaymentTransaction` with
their status and stock timestamps; `stock` and `moves` are `BranchProductStock.quantity` and the
movements by source and direction; `call` holds retry requests between their read and their
transaction; `outcome` and `answered` are VNPAY's. Its reports come any number of times, in any
order and as late as it likes, through the server (`IpnSuccess`, `IpnSuccessNotApplied`, `IpnFailure`) or
the browser (`ReturnSuccess`). `ExpirePayment` is the status poll, `CancelOrderInTransaction` is
`orders/order-cancellation.ts`, called by both sides with their own sets of statuses. `OfferedOnly` is a
switch for the environment: `FALSE` lets clients send a retry for any order they own, `TRUE` only where
`allowedActions` offers it.

### The checkout

`CheckoutFlow` shows one customer. `Resolved` is what `resolveCheckout` computes from cart, catalog and
address; `Reference` is the preview reference (a digest of fields, here the tuple of those fields).
`PlaceBegin` is the reads of `placeCod` and `placeVnpay` (kept in `click`), `Place` the transaction that
writes what was read, re-reading only stock and key, and `PlaceNothing` the one that finds its key used. Line ids are never used again (a history variable, `spent`). A
property of the model says that an order, once written, equals something the customer was shown.

### Stock

`StockReceipts` is the abstract specification. `StockTransactions` gives each operation a begin (with a
snapshot), reads, and a commit that fails when a row it wrote was written by another since, or when it is
both ends of a read-write conflict; `MaxAttempts` bounds retries (three in the code). `ActsAtomically` is the
refinement.

### The catalog

`ProductCatalog` keeps the option codes and values that a combination key is made of, because a key is a
copy: `CatalogResolves` says that the key still says what it is linked to, that keys are unique, and that
galleries have their order without gaps and one primary image. `CategoryTree` builds slugs from
names through a table of what the slug function does to them, chosen so that two names put together may
read like a third. `ImageStorage` is one protocol for four users (categories, option values,
galleries, avatars); a failing delete, a lost answer and a stop half way are outcomes of its steps.
`Registers` shows one kind of register per behaviour; a product's `uses` are pairs of an entry and the
column that keeps it. `Storefront` has no writes of its own: the catalog is edited (`SetStanding`,
`Reprice`, `ToggleShelf`), sold from (`Sell`) and grows older (`PassTime`), and `Listed`, `SortKey`, `Page`,
`AuthorFacet`, `TraitFacet`, `Suggestions`, `Related`, `Detail` and the three home shelves are the queries.
A text is represented by the rank the search gives it, a name by two ranks: in the collation of the database
(`collated`) and in the alphabet of the server (`alphabetic`), which disagree in the instance. A value of an
attribute (`traits`) has what facets show of it and what the filter compares, which are not the same thing.
A sale's first and last instant are both instants of the model.

### Back office

`StaffAssignments`: `account`, `assignment[u][b]` and the branches; the operations of
`authorization.repository.ts` that create staff, convert, assign, transfer, deactivate and remove, with
the replacement of a primary branch as two steps. A login is two steps as well (`CheckLogin` reads the
account, `OpenSession` opens the session without reading it again); a session is `LATE` when the account was
disabled in between. `StaffRequests`: a request is *resolved* (`Resolve`, the
principal is read), *judged* (the policies, `CheckCreate` and the `...Allowed` operators) and *written*
(the `Commit...` actions, transactions that repeat part of the checks), while a Super Admin changes roles, permissions and seats. `OfferedRoles` and `OfferedPerms` are the lists a
form is filled from, by the action they are asked for, and `AcceptedRoles` what can be given. `OrderReports`: `VietnamDay`, `Midnight`,
`PresetRange`, `Comparison` and `BucketDay` are the time arithmetic, in hours; the constant `SessionOffset` is
the time zone of the database session. Midnights of Vietnam are at 17:00 UTC, and the moments of an
instance lie around them.

### Accounts and access

`AuthSessions`: a refresh token is a JWT over user, session and the second of its signature, so a
session's token *is* its second; two tokens signed within a second are equal. `LoginVerify` /
`GoogleVerify`, `LoginCreate`, `LoginIssue`, `LoginFail` are the statements of a login; `RefreshRead` and
`RefreshRotate`, `RefreshLost` or `RefreshRevoke` those of a refresh; `ChangeRead` / `ChangeCommit`, `ForgotRead` /
`ForgotCreate` / `MailFailed` and `ResetRead` / `ResetCommit` those of the password operations. Expiry is not
told apart from nobody using a session or link any more: the code only ever refuses what has expired.

`LoginThrottle`: check, work and count are separate statements; windows and locks begin, run and are over.
`tried` counts what the properties bound, `lost` what a crash did not count.

`AccessRoutes` is a table: a controller is a record with a field per handler, and a handler is a record
of its guards in Nest's order (class, then method), `@BranchScope`, `@Permissions` and `@AnyPermissions` of both,
`@SuperAdminOnly`, and the check its service makes first. `AccessControl` runs one request at a time through
its guards. The abstract side is `Rightful`: sign-in, audience, scope and permissions told from the
tables, without guards. `RequestsDecided` says that who is served was entitled when he was
authenticated; that nobody who was entitled all along is turned away; that no write is served without its
CSRF token; that what is dangerous is done by Super Admins only; and that no route asks for a code
that the seed does not create.

## 3. Runs, bounds and fairness

| Run | States | What it shows |
|---|---|---|
| `orders_any` | 144 thousand | One order, one book, up to three VNPAY attempts and two retry requests at once, from clients that retry anything. The ledger agrees with the rows (`LedgerMatchesRows`), attempts wait one at a time (`PendingAttempt`), stock is reserved exactly for a waiting attempt (`HoldHasOwner`), nobody is recorded as paying twice (`PaidIsBacked`), only funded orders are fulfilled (`FulfilmentFunded`), ended attempts stay ended (`EndedAttemptIsFinal`), and `StockHolds` is implemented. |
| `orders_offered` | 276 thousand | Two orders that compete for two copies (one buys one, the other both), one retry at a time, only where offered. No double deduction, cancelled orders return everything (`CancelReturnsStock`), timestamps account for every copy (`TimestampsAccountForStock`), and every reservation ends (`HoldsEnd`). |
| `accounts` | 1.3 million | Sessions (`NoSessionOutlivesRevocation`, `SpentTokenBuysNothing`, `RevokedSessionIsDead`, `DisabledAccountIsFrozen`, `OnlyLastLinkWorks`, `PasswordsAccountedFor`), guesses (`GuessesAreBounded`), the address book and the customer's pages (`AccountPagesAgree`), and access (`RequestsDecided`). |
| `staff` | 720 thousand | Assignments (`PrimaryIsUnique`, `EnabledIsPlaced`), requests (`DangerousIsSuperAdminOnly`, `OffersMatchPolicies`, `RequestsStayWithinCaller`), registers (`ReferencesResolve`) and figures (`FiguresAddUp`). |
| `store` | 537 thousand | Stock (`LedgerChains`, `ReceivedOnce`, `ActsAtomically`), catalog (`CatalogResolves`, `SlugsFollowTree`, `ShownIsStored`), fees (`FeeNeverFalls`), checkout (`OrdersAsPreviewed`) and public pages (`ShopPagesAgree`). |
| seven runs ending in a counterexample | | section 4 |

**Bounds.** Constants named `Max...` bound counters and are guards of the actions that count.

- *Orders.* Three attempts are enough for one with an earlier and a later one; two retry requests for one
  that overtakes another; demands one and two on a shelf of two for each order to starve the other.
- *Sessions.* Two requests are enough for any two operations to race between a check and a write, with
  logout, disabling and activation as third parties that need no slot; two sessions for the one that acts
  and another; two links for an older and a newer; two eras for a session created between two
  revocations; two seconds for equal and for different tokens.
- *Throttle.* Two attempters; locks at two failures for the address and three for the IP (so the one
  locks first, as in the code); one try lost.
- *Addresses.* Four ids and a limit of three (ten in the code): the limit is reached and an address
  follows a removed one. *Customer.* Two buyers, orders, books and reviews, three writes.
- *Access.* All routes, four kinds of caller, two branches, three of the seed's branch roles (one with
  everything a branch may have, one with orders, one with stock), every assignment of them to the
  two branches, two changes in the middle (taking somebody off a branch and closing it). One request is enough: requests only share the tables.
- *Staff.* One account over two branches with one custom role: nothing relates the rows of two accounts,
  and one login under way is enough for a disabling to fall into it.
  In the requests, two colleagues, six permission rows with seven codes of which two are
  dangerous, two levels, one change: every policy has a case on either side. Registers: two entries, two
  products, a receipt, three labels of which two read alike and two give one slug, two
  types, four writes. Reports: two orders, two branches, moments before and after a midnight of
  Vietnam, ranges of up to two days.
- *Store.* One receipt and one variant, two connections, two attempts each (three in the code): two
  transactions are enough for either conflict and a retry. One option with two values, two variants, three
  images, gallery limits of two and one (12 and 8 in the code). Three categories and names. One owner with
  three images and two jobs. Parcels of books of 150, 700 and 1200 grams up to fourteen books, past
  the last box. Two branches, one book, two prices, two lines, keys and requests, one change
  of the shop in between. Three titles on two shelves, three edits, three instants; two of them are as
  prominent and have names that the two orders rank differently, and a cover spelled in two ways, a number and
  a list of choices as attributes.

Interchangeable ids are reduced by symmetry, except in the run with a liveness property. Deadlock is not
checked: when all bounds are used up, or all orders are over, the system really may stop.

**Fairness.** The one liveness property, `HoldsEnd`, assumes `Polling`: weak fairness of
`ExpirePayment` for each order. There is no scheduler in the API; an attempt that has run out is expired
by `GET` of the payment's status and by nothing else (`payments.service.ts`, `getStatus`), and the
result page of the customer's application repeats that request. So a reservation ends *if* its customer
keeps asking; without the assumption it need not, which is the behaviour of the code.

## 4. Where the documentation and the code part

Each of these runs states what the repository says of itself, and TLC shows how the code departs.

| Run | Property | Said in | What happens |
|---|---|---|---|
| `orders_cod_retry` | `NoDuplicateDeduction` | `prisma/schema/99-service-rules.prisma:7` | `retry` of a COD order takes its goods off the shelf a second time |
| `orders_stale_retry` | `PaidStaysPaid` | `payments.service.ts:312` (`VNPAY_RETRY_NOT_ALLOWED`) | a retry that read the payment before it was paid sets it back to PENDING |
| `orders_reopened` | `TerminalOutcomeIsFinal` | `revenue-reports.repository.ts:92` | a late failure report moves a cancelled order to PAYMENT_FAILED; a later cancellation is then counted in a second range of the report |
| `orders_lost_charge` | `AnsweredChargeIsRecorded` | `payments.service.ts:103` ("already confirmed") | a charge after the cancellation gets a final answer and is recorded nowhere |
| `sessions_late_login` | `LoginsUseCurrentPassword` | `docs/openapi.json:19248` | a login that compared the old password before a reset gets a session after it |
| `product_default` | `OneActiveDefault` | `products.constants.ts:24` | an ordinary update takes the only default variant from a product on sale; it stays on sale and no page lists it |
| `reports_by_utc_day` | `TrendAddsUp` | `analytics-date-range.spec.ts:4` | what was completed in the morning of a Vietnamese day is in that day's summary and in the trend of the day before |

Divergences that need no run: `auth-contract.md:521` and `docs/openapi.json:18694` say that logout
revokes all sessions (`auth.service.ts:138` revokes the one its cookies name), and `auth-contract.md:343`
that a login revokes earlier ones (`startSession` does not). The models follow the code.

## 5. Proofs

Every invariant and every action property that a passing run checks, and the refinements, are also
theorems; only the liveness property is not. The theorems hold for every value of the constants that
satisfies the named assumptions of the modules: any sets of orders, users, sessions, branches, roles,
receipts, categories, requests, titles, and any bounds. No theorem assumes fairness.

The assumptions say what tables and inputs are: types of constants, that a special value (`NoCall`,
`Unsold`, "GLOBAL") is none of the others, that hours have a first and a last one, that
the tables which are counted or numbered (images of a gallery, titles, orders and branches of a
report, a customer's books) are finite, that branches are ranked by distinct ids, that a default category is among those of the
product. Three theorems assume more, about the clients, and say so in their statement:
`NoDuplicateDeductionCorrect` and `CancelReturnsStockCorrect` assume `OfferedOnly` and one retry request at a
time, `StockIsAccountedFor` assumes `OfferedOnly` (and finitely many orders). Without
`OfferedOnly`, the runs of section 4 show the first to be false.

### OrderPaymentsProofs

That an attempt is applied only with its stock reserved needs the relation between its status, its
timestamps, its order and its payment. `IInv` is `TypeOK`, "a retry request names an order that was placed",
and `OrderInv(o)` for every order: the ledger, the waiting attempt, the hold, the paid attempt and the
shape of the attempts. One lemma per action, since every action changes the rows of one order.

- `FundedInv` adds what a fulfilled order has besides: its lines out of the cart, its goods
  deducted, money that is certain, and nothing that a late report could still undo.
- `OfferInv` is what clients that retry only what is offered add: a COD order never has an attempt, a
  request in flight is for a VNPAY order that nobody can pay before it ends, and consumed goods belong to a
  fulfilled order. From it, no double deduction and no goods kept by a cancelled order.
- `StockIsAccountedFor` classifies every step by what it does to the rows that hold stock (`ShelfStep`:
  a COD order's or an attempt's goods leave the shelf, or come back, or neither), and lets
  `SumTheorems` do the arithmetic. `VnpayOnly` is why: only then is the `restored` mark of a COD order
  never cleared again. Unlike the two before, it holds for any number of simultaneous requests.
- `StockHoldsImplemented`: a source's hold is read from its movements (`HoldRead`); every handler changes it for
  at most one source, in the way the abstract specification allows.

### AuthSessionsProofs and AccountsProofs

*Sessions.* One part per table. `SessionOf(s)`: an active session was born in its user's current era, its
hash is never a spent token. `LinkInv`: only the last link is active. `RequestOf(row)`: what a request has
read stays true as far as its later steps rely on it, notably that the session it will rotate is its
user's and, *if still active*, its account is active too. This is the step that makes
`RotateIfCurrent` sufficient although it does not look at the account.

*Throttle.* Guesses of a window are those counted, those lost in a crash, and those
of requests that passed the check and have not counted yet; the invariant bounds the sum, which
no single counter shows. *Addresses.* Exactly one address has the mark whenever there is one; the mark of a
removed default goes to the one the query picks. *Account pages.* A review belongs to a received line of its
writer; tabs and counters are the same sets, counted by bijections. *Access.* The argument
is one lemma per list of guards, from a table of what each kind of guard lets pass: what a handler sees is what `Rightful`
allows, told from the tables as they were when the caller was authenticated.

### StaffProofs

*Assignments.* The invariant speaks of one account and its rows at a time (`Consistent`): at most one
primary row, which is active, and, if the account is an enabled one of a branch, a row in force; a disabled
one has only late sessions, those of logins that had read it before. Lemmas on
rows say what each operation writes; `AccountWrite` turns them into the invariant. The stale replacement
does no harm because the transaction that writes it counts again what stays in force, and disables the
account when nothing does.

*Requests.* A permission in use, by a role or directly, exists and is harmless. So a permission created
later under a dangerous code is not in use, and one that is in use cannot be renamed to it.
`RequestsStayWithin` then follows from the checks the transaction repeats. It says what the code
guarantees: what is allowed directly is the caller's own, and what else a colleague gains comes with the roles
he is given, whose level is judged and whose permissions are not. `OffersStayMatched` covers the caller with
`staff.create` alone: nothing of what he is offered is accepted (section 7).

*Registers.* What a product stores is a pair of an entry and the column that its type reads
(`UsesStored`), a register's names are apart after folding (`NamesTellApart`), a slug's suffix is the
product's own (`SuffixesOwned`); from these three everything stored resolves.

*Figures.* `CompletedRows`: a completed order has exactly one history row that says so, since nothing leaves
COMPLETED. With the arithmetic of Vietnam's days it is counted on one day of all. `PlacedRows`: an order that was placed
has a branch and a method. So days, branches, rows and methods each divide what is counted
(`DaysDivide`, `OutletsDivide`, `RowsDivide`, `MethodsDivide`), and `FigureOfParts` adds up every figure of the
summary at once. The leading branch is the first in a total order of a finite set (`FirstRow`).

### StockTransactionsProofs

The three properties of the abstract ledger are inductive together. `UpToDate` says what a running
transaction may still rely on: what it read holds unless the row is marked as changed; `Crossed` that a row
of its own receipt is only changed by one that also read what it will write, the pair of conflicts that
serializable isolation refuses. From it follows the refinement `TransactionsActAtomically`, and with it
everything proved of `StockReceipts`.

### CatalogProofs

*Products.* A combination key is the copy of the codes of the values it is linked to, and codes in use do not
change; a gallery's numbers are one to its length, each once, through every edit, reordering and
removal, and the primary image is the first. *Categories.* Slugs are determined by the names on the way to the root, and a
rename rewrites exactly the children. *Images.* An old object belongs to its job (`OldIsOwn`), an uploaded one is
nobody else's (`NewIsFresh`), what a job will delete is shown by no row that was answered (`VictimIsUnseen`),
and no two rows show one object (`ShownApart`).

### StoreProofs

*Checkout.* Between the reads and the writes of a placement, its content was shown, and its lines were in
the cart once; ids of lines are never used twice, so a line that an order has consumed does not come back.

*Fees.* Each stage is monotone in the stage before: weight, box, chargeable weight, rate, fee. Boxes are the hard part,
since the next one may be lighter than the volume it stands for.

*Public pages.* `StorefrontInv` is only that stored prices are accepted ones; the rest is about the
queries. Lists are sequences that hold each title once, in the order of their keys (`Keys`, `Lists`, `Once`);
pages cut them without loss or repetition for any page size. The facets of authors and publishers count what
their filter selects; those of texts and of the menu's categories never more, and less only for other
spellings and for categories below. The home page has another order of names than the list: as the keys of both
begin with sales and prominence, these agree place by place (`PlacesAlike`), since otherwise more titles would
be ahead of one place than it has before it. Prices agree in all four readings but for the
instant at which a sale ends, where related products still compare by it. The
suggestions are found by the search; related products come in tiers that exclude what came before.

### SumTheorems

`SumFunctionOnSet` of the community modules is a recursive function with a `CHOOSE` in it. The lemmas show that
the function exists, that the sum does not depend on the order (`SumTake`), and that the sums of the
parts of a partition add up to the sum of the whole (`SumOfParts`, `CountOfParts`). The inductions are
written with sets (a set of counterexamples without a least element is empty), because induction theorems that
take an operator cannot be instantiated with the provers at hand.

### Compositions

`SidesImplemented` (`MCAccounts`), `StaffSidesImplemented` and `StoreSidesImplemented`: each part behaves in
the composition as its own specification says, since it takes one of its steps or none. So what is proved of
the parts holds of the compositions that the runs check.

### Only model-checked

Liveness (`HoldsEnd`): the provers at hand do not reason about fairness and `ENABLED`. The seven properties of
section 4 are false, so they are only run. That the constants of the instances satisfy the
assumptions is evaluated by TLC in every run.

## 6. What is not modelled

- *I/O and external services*: HTTP, cookies, signatures, Turnstile, mail, VNPAY signing, VietMap lookups
  and the location proof of an address, image processing. Their failures are outcomes where code reacts.
- *Data*: names, texts, telephone numbers, barcodes, dimensions, order numbers and snapshots, colors and
  labels of charts, sibling order of categories. No decision depends on them.
- *Queries of the back office* that list rows with filters, the order table and CSV file of the reports:
  they read what the models write, and nothing takes them for granted.
- *Writes left out*: creating roles, deleting permissions and branches, `updateInternalNote`, profile
  fields, creating a customer from the back office, and the CONFIRMED receipt of type ADJUSTMENT that
  `adjustQuantity` writes next to its movement (`inventory.repository.ts:444`). Each is one transaction
  that nothing modelled reads.
- *Direct permissions of an assignment in `AccessControl`*: a branch user there has what his role gives.
  `StaffRequests` has the ALLOW and DENY rows and the principal they give.
- *Wiring*: configuration, Swagger, DTO transformation, the seed's products and orders, one-off scripts,
  the bounded cache and lookup tables of administrative units.

## 7. Observations

What reading the code for the models brought up, besides section 4; the models show the code as it is.

*Orders.* The idempotency key is unique in the database and looked up per user. Two placements of one
cart on delivery, under two keys and at the same time, order the lines twice. A preview reference leaves
out original prices and the note. A cart addition that is refused for its quantity has already moved
the cart to the other branch. The 20 kg limit of a shipment cannot
be reached: the last box takes 15 kg and weighs less than one.

*Catalog.* A list by a category's slug replaces the category part of the visibility filter
(`storefront-catalog.repository.ts:838`), so the slug of an active child of an inactive root lists products
visible nowhere else. Related products treat the last instant of a sale as inside it; the filter for
offers also finds a sale at the original price. The category facet counts closed categories too and leaves
out what is below an open one; the facet of a text counts each spelling, the filter ignores capitals. Facets offer the values
of number, date and truth value attributes, and lists of choices as their JSON text
(`storefront-catalog.repository.ts:981`); the filter reads texts and elements of lists only (`:829`) and finds
none of them by what is offered. The home
page sorts names with `localeCompare('vi')` (`storefront-catalog.service.ts:412`) and the list with the
database's collation (`storefront-catalog.repository.ts:938`), so among equally good sellers they may show
different titles. `updateProduct` with a primary category
but without the categories is validated and answered, and not stored; an ACTIVE product can be updated
to have no category. A wish list calls a product available when all its categories are closed.

*Customer pages.* A hidden review that is removed and written again is visible again. The order page
offers to cancel a paid VNPAY order, which the command refuses.

*Back office.* The list of roles for a new account asks for `staff.create` alone
(`authorization-management.service.ts:124`), the policy that judges the form for `staff.assign_role` too
(`role-level.policy.ts:121`): a caller with the first only is listed roles and refused every one of
them. A role hands its permissions on whether or not the giver has them: `assignUserRole` and
`createStaff` judge its level only (`authorization-management.service.ts:810`). A login that has read an account
as enabled opens its session although the account was disabled meanwhile (`auth.service.ts:123`); the
session is useless while the account is disabled, since every request and refresh reads it again. Today's cancelled orders are counted from the history alone, the completion rate also from
the current status; a dashboard's figures come from separate queries without one snapshot. A permission
created through the API is mapped to SUPER_ADMIN at once, so its deletion is always refused
(`authorization-management.service.ts:299`, `:346`). `assertCanAssignUserPermission`, `assertCanAssignRole`
and two repository operations (`disableUser`, `updateBranch`) have no caller. When no other assignment is in force, the transaction that moves a primary mark checks
nothing about the replacement that was resolved before it.

*Access.* A branch user has no permissions in a request that selects no branch, so the branch contexts
`ALLOWED_SET` and `NONE` never reach a handler that asks for a permission, and the routes of authors,
publishers, attributes and categories, which have no branch scope, are open to Super Admins only in
effect. `STAFF_DELEGATABLE_PERMISSION_CODES` holds four codes that the seed never creates
(`inventory.update`, `stock_movements.read`, `stock_movements.create`, `branch_returns.read`), and several
codes of the catalog guard no route (`orders.create`, `payments.create`, `reviews.read`, `reviews.moderate`,
`super_admin.assign`, the `*_own` codes). The seed keeps order commands from SUPER_ADMIN, the permission
guard lets a Super Admin pass all the same, and `AdminOrdersService.assertMutation` is what refuses him.

## 8. Plan

All parts of the inventory that carry behaviour have a module, and all properties of the passing runs but
the liveness one a theorem. What remains worth doing, in order:

1. Two receipts and two variants in the store run, for deadlocks across rows (the theorems are about any
   number of them, the run about one).
2. Direct permissions in `AccessControl`, which multiplies its initial states.
3. An abstract specification of the sessions (a token buys one successor, a user's era ends all) that
   `AuthSessions` implements, as `StockHolds` is for the orders.

## 9. Running the tools

In this directory, for each configuration and its module:

    tlc -workers 2 -config OrdersAny.cfg MCOrderPayments.tla
    tlc -workers 2 -config OrdersOffered.cfg MCOrderPayments.tla
    tlc -workers 2 -config Accounts.cfg MCAccounts.tla
    tlc -workers 2 -config Staff.cfg MCStaff.tla
    tlc -workers 2 -config Store.cfg MCStore.tla
    tlapm OrderPaymentsProofs.tla        (and the other six named ...Proofs, and SumTheorems.tla)

A run takes between half a minute and two and a half minutes, a proof module between half a minute and several
minutes from nothing.
