# Koz online store: formal model

TLA+ modules, TLC configurations and TLAPS proofs for the store in `src/`: a
paid club that sells groceries from dark stores, with orders that reserve
goods, hold 80% of their price online and collect the rest at the door by the
actual weight.

The repository holds two backends over one PostgreSQL schema. `src/src` is the
Node one; `src/backend-dotnet` is its port to ASP.NET Core, which serves
production, with the Node one kept for rollback and parity
(`src/docs/dotnet/PRODUCTION_HANDOFF.md`). Two React applications (`src/apps`)
call either through `src/packages/api`. The models are translated from the Node
code and from the applications. For orders the statements were read in both
backends, and the two differ in one place, the subscription gate, which the
model tells apart; for the rest the .NET repositories are not modelled on their
own.

No state is kept between requests outside PostgreSQL, but for the one-time
codes of the Node backend and what the browsers keep. What is hard is how
transactions, pages and answers interleave.

## 1. Inventory

| Component | State | Operations | Interacts with | What is hard | What makes it correct |
|---|---|---|---|---|---|
| Order placement (`orders.service.js`, `PostgresOrderRepository.cs`) | `orders`, `order_items`, `store_inventory`, `first_order_discounts`, `promo_code_usage` | one transaction of some fifteen statements | reads subscription columns, prices, codes and settings that others write | row locks in the order of the cart, an unlocked read before a conditional update, rollback of a half-reserved cart | no oversell, all or nothing, a discount spent once, gate and code valid at the commit |
| Store manager (`my-store.*`) | `orders`, `payments`, `store_inventory` | pick, status, weight; edits and receipts; analytics | races the operations admin and other managers | check under the order's row lock, return of many rows | status machine, goods come back once, one terminal payment, frozen sum |
| Operations admin (`admin/operations`) | the same | status move; revenue, delivery and store reports | as the manager, with other SQL | two implementations of one rule | as the manager; reports agree |
| Subscriptions (`subscriptions.*`) and admin customers (`admin/customers`) | `subscriptions`, the `subscription_*` columns of `customers` | create, renew, pause, cancel at once or at the end | order gate, paywall | `FOR UPDATE` over no row, a date computed before the transaction, state kept in two tables | the account is backed by a row, no time is given away |
| Admin catalog (`admin/catalog`) | `stores`, `products`, `store_inventory`, `promo_codes`, settings | create, edit, switch off | placements, pages | edits from a stale list | a code switched off is not used |
| Sign-in (`auth.*`, `middleware/auth.js`) | the codes in memory, `users`, `customers`, `user_sessions` | send and verify a code, register, log in, refresh | every call | one-time use, rotation races, half-done registrations | a code and a refresh token work once |
| API client (`packages/api`) | tokens in memory and `localStorage` | requests, shared refresh, logout | all pages | tabs that share one storage, joined promises | no call is stranded, a stored pair is a pair |
| Cart and checkout (`apps/client`: `cart`, `CartPage`, `CheckoutPage`) | cart and code in `localStorage`, result in `sessionStorage` | change the cart, apply a code, the chain address, order, payment | addresses, promo codes, orders, payments | a chain that outlives its page, stale discounts, lost answers | thanked truthfully, never dearer than shown |
| Payments and webhook (`payments.*`, `webhooks/kaspi.*`) | `payments`, `orders.payment_status` | initiate, confirm | checkout, delivery | repeated, overlapping and late confirmations | paid online once |
| Lists of the customer (`ShopPage`, `OrdersPage`, `ProfilePage`) | what is shown | load, expand, delete an address | public reads, orders | answers out of order | every loader ends |
| Manager pages (`ManagerOrdersPage`, `ManagerStockPage`, `ManagerDashboardPage`) | lists, filter, timer, dialog, the action in progress | load, filter, act | `my-store` | a poll, a click and a reload that overtake one another | own work is never shown undone, nothing older replaces what is shown |
| Administrator pages (`Admin*Page`) | lists, reports, the card of a customer, dialogs | load, filter, page, act | the three admin modules | answers about what is no longer selected | what is shown is about what is selected |
| Notifications, public reads, addresses' default flag, operator endpoints, host, deployment, service worker | their rows | single statements | | | |

`PROJECT.json` lists every component with its status, and under `hazards` the
places of this code that are hard to test, each with the property that watches
it or the reason why none does.

## 2. Modules

| Module | Role |
|---|---|
| `OrderRules` | Pure operators: quantities, money and rounding, discounts, hold, reweighing, ordering window, subscription gate, status machine, inventory status. |
| `KozOrders` | The core: sessions that run placements, status moves and weighings as transactions over row locks, beside single-statement edits by staff. |
| `StoreReports` | The reports of both consoles as queries over the state of `KozOrders`. |
| `OrderLedger` | The abstract specification: an order takes all its goods in one step, moves along the status machine, and gives them back in one step. `KozOrders` refines it. |
| `MCKozOrders` | Small stores for TLC, and the properties that the code violates. |
| `OrderRulesTable` | `OrderRules` applied to every input of a small range, against formulas written without it. |
| `Subscriptions` | The subscriptions of one customer: requests of the customer and of an administrator as transactions, days that pass, the paywall of a tab. |
| `Accounts`, `MCAccounts` | One-time codes, registration, refresh sessions, and tabs with their `AuthManager` over one `localStorage`. |
| `Purchase`, `MCPurchase` | Cart, promo code, checkout chains, address, order, payment and webhook, composed over `OrderRules`. |
| `Pages` | What all pages share: numbered requests, answers in any order, a dialog, one action with its reload, mounting and leaving. |
| `ManagerPages`, `AdminPages`, `ClientPages` | The pages of the three kinds of user. |
| `AdminCatalog` | What the server does for the administrators' pages. |
| `Screens` | Composes the pages with a server changed by others, and states their properties. |
| `KozOrdersProofs`, `KozOrdersSafety`, `KozOrdersStock` | TLAPS: types and the inductive invariant of `KozOrders`; gate, money, codes and discounts; tallies, labels, the refinement of `OrderLedger`, the conservation of goods and the balance of `StoreReports`. |
| `OrderRulesProofs` | TLAPS: the formulas of `OrderRulesTable` for all amounts, weights and hours. |
| `SubscriptionsProofs` | TLAPS: the safety properties of `Subscriptions`. |
| `AccountsProofs` | TLAPS: the invariants of `Accounts`. |
| `PurchaseProofs` | TLAPS: the safety properties of `Purchase`. |
| `ScreensProofs` | TLAPS: the safety properties and the action property of `Screens`. |

### `KozOrders`

*Time and rows.* A session is one request on its own connection. `pc` says
which statement it runs next; each action is one statement with the code up to
the next one. A `SELECT ... FOR UPDATE` or an `UPDATE` takes the row in `locks`
and is enabled only while the row is free or the session's own, which is how
PostgreSQL blocks. At READ COMMITTED a statement sees the committed row
versions and the transaction's own: `View` is that rule, `draft` holds the
uncommitted version of a locked inventory row, `CommitInventory` publishes it
and `Rollback` drops it. The other tables are written only by the last
statements of a transaction, under a lock taken earlier, so these writes are
one action with the commit.

| Code | Action |
|---|---|
| `findCustomerForOrder`, `ensureActiveSubscription` | `LockCustomer`, with the gate of the session's backend in `MayOrder` |
| `findStoreProductForOrder` and the checks after it, no lock | `FindProduct` |
| `reserveInventory` (`quantity >= $3`) and the totals of the line | `Reserve` |
| `findFirstOrderDiscount`, `validatePromoCode` without or with a code | `SkipPromo`, `LockPromo` |
| fee, total, hold, inserts, marks and commit of `createOrder` | `CommitOrder` |
| `findOrderForStore` and the check after it, of both staff roles | `LockOrder` |
| `returnOrderInventory` of the manager and of the admin | `ReturnProduct`, once per row, in any order |
| `updateOrderStatus`, `completeDeliveredOrder`, commit | `CommitMove` |
| `recordActualWeight`, `updateActualWeight` | `CommitWeight` |
| every `catch` with its `ROLLBACK` for a reason outside the model | `Fail` |
| the deadlock detector of PostgreSQL | `AbortVictim` |
| the manager's `updateInventory` and `receiveInventory` | `UpdateInventory`, `ReceiveInventory` |
| pause, cancellation, promo deactivation by administrators | `PauseSubscription`, `CancelSubscription`, `DeletePromo` |
| midnight in Almaty | `NextDay` |

*The two gates.* The .NET gate admits an active subscription until three days
after its last day. The Node gate compares a `Date` with a date string, which
is never true, so it never refuses an active one. `NodeSessions` says which
requests the Node backend serves.

*Data.* Money is in tiyn and quantities in tenths, the smallest weighted step,
so `NUMERIC` arithmetic is exact integer arithmetic; the only quotients, a
percentage and a weight ratio, are rounded from the exact rational, where the
code rounds a number of many digits. Orders keep per product the sum of their
items and the sum of the items rounded up, the two sums that the two return
statements compute. `max_uses` NULL is a limit the run cannot reach. `supply`
is an auxiliary variable: what the store put on the shelf.

*Left out.* Address checks and malformed items end in `Fail`. The history rows,
the order number, texts and timestamps have no reader in the modelled code. One
store is modelled: every statement is scoped by the store of its customer or of
its manager. `online_paid` is the subject of `Purchase`. A session holds the
row of the welcome discount only while it holds its customer's row, so that row
needs no lock of its own.

### `Subscriptions`

A request first reads what its date is computed from (`Plan`), outside the
transaction; then its `SELECT ... FOR UPDATE` picks candidates from its
snapshot (`Select`), passes over those that changed while it waited
(`PassOver`), and with the row locked writes the row and the customer's account
(`Create`, `Renew`, `Pause`, `Cancel`, `Stop`, `AlreadyActive`, `NotFound`).
Row locks are held to the commit and taken in the same order by all, so the
writes are one step. `Abort` is a lost connection. The tab of the customer
shows the paywall, waits, is told an outcome or times out. Dates are days.

### `Accounts`

One customer, one telephone. A code, and a pair of tokens, is the number it was
issued under. `Verify` is `verifyOtpCode` on the codes in memory; `FindAccount`
the transaction that finds or makes the customer with his welcome discount;
`Issue` the new refresh session; `LockSession`, `Lapsed` and `Rotate` the
transaction of a refresh. `Fail` lets any of them fail after what went before
was done. In a tab, `memory` is the token of `MirroredStorage`, `shown` what
React renders by, `refreshes` the shared promise, and `call` a request that was
answered 401 or 403. `ForcedOut` is the logout with its reload, `Logout` the
one of the profile page without. Staff sign in by password and get an access
token only, which changes no state of the server: it is `SignIn` of `Screens`.

### `Purchase`

A chain is one `handleSubmit`: it captures the cart, makes an address, places
the order and asks for a payment, each step only if the answer before was
heard. A chain does not end with its page. `Timeout`, `Reload` and `Leave` make
the tab stop waiting, not the server. `Place` recomputes prices, discounts and
fee from the database with the operators of `OrderRules`; whether goods and
subscription allow the order is the subject of `KozOrders`, here it is
`Refuse`. `Notified` takes the locks of a payment and of its order, `Complete`,
`Dismiss` and `Drop` end the transaction. The cart has one line and there is
one tab.

### Pages

`list` is what the page shows and what it is about, `loads` the requests in
progress, `newest` the one a numbering page listens to (`*RequestIdRef`),
`held` the one that keeps the timer of the orders from polling again, `act` the
action in progress, `own` the last change of each row that the page was told
about. A row is the number of its last change and its status. The server's part
is `Read` and `Change`, with a name for each endpoint; `Elsewhere` of `Screens`
is whoever else changes the table. A page that does not number its requests
takes every answer, as its code does.

Simplifications: a section of a page that shares no state with the others is a
page; each visit starts with a table of its own; pagination is part of the
filter; the rows of the inventory page are goods, whichever store is asked
about; a modal dialog covers the page, which is thereby out of reach of clicks
(the keyboard is not considered); on the catalog pages one mutation is in
flight at a time; drafts of forms keep only the status they send back, and the
courier's terminal checkbox is part of the confirmation.

*Mutants.* Beside definitions stand forms of them with a plausible bug (a lost
`FOR UPDATE`, a lost clamp, a limit off by one, an answer that is listened to
too long). Every property is listed in `PROJECT.json` with one that breaks it
in the same run. No specification uses them.

## 3. Runs

| Run | Bounds | Shows |
|---|---|---|
| `stock` | 2 sessions, 3 orders, 2 products in opposite orders, two units of milk, cancel by the manager and fail by the admin; fairness | `GoodsConserved`: shelf, live orders and supply always add up, also after rollbacks and deadlocks. `Tally`: uncommitted rows differ from committed ones by what the session took or put back. `LedgerSpec`: the transactions implement `OrderLedger`. `RequestsEnd`: no request waits for good. |
| `placing` | 2 sessions, one of each backend, 2 orders, 2 customers, a code for one use and one per customer; deactivation, pause, cancellation, four days | `PromoHolds`, `PromoLimits`, `DiscountBacked`, `GateHolds` |
| `handling` | 2 sessions, 2 orders of piece and weighted goods, every move by both roles, weights below and above the estimate, one edit | `TypeOK`, `OutOfStockIffEmpty`, `OnlineWithinHold`, `PaidOnDelivery`, `Checked`, `ReportsBalance`, `SumFrozenForCourier` |
| `rules` | every combination of 7 subtotals, 3 gifts, 4 percentages, 2 fees, 5 by 5 weights; 5 by 5 by 5 hours | `HoldIsFourFifths`, `SpentIsDeducted`, `WeighingIsFair`, `WindowIsNextOpening` |
| `subscriptions` | 2 overlapping requests, 3 rows, periods of one and two days, 2 days, time sold up to 3; fairness | `TypeOK`, `AccountBacked`, `NoFreeTime`, `PaywallReturns` |
| `accounts` | 2 tabs, 2 requests, 2 codes, 2 token pairs, one expiry | `TypeOK`, `OneLiveSession`, `OneWelcome`, `StoredPairAgrees`, `BlockedAwaitsRefresh` |
| `purchase` | 2 checkouts of one or two units at 10, free delivery from 20, fee 3, gift 6, a quarter off from 10; 2 payments, 2 notifications; fairness | `TypeOK`, `PaidOnce`, `ThankedForOrder`, `NeverDearer`, `CheckoutReturns` |
| `screens` | 2 rows, 3 changes, 2 clicks, 3 requests, 2 periods, 2 stores; fairness | `TypeOK`, `OwnWorkShown`, `ShownIsAsked`, `NeverOlder`, `FilterAnswered`, `LoaderEnds`, `ActionEnds` |
| `stock_drift` | 1 session | the code violates `StockQuantityRestored` (finding) |
| `capture_gap` | 1 session | the code violates `FullyPaidIsCollected` (finding) |
| `already_active` | 1 request, 3 rows | the code violates `AlreadyActiveAdmits` (finding) |
| `token_expiry` | 1 tab, 1 expiry | the code violates `ExpiredIsRefreshed` (finding) |

*Why the bounds are enough.* Every lock conflict is between two transactions,
and two sessions reach all of them; a third order keeps a placement waiting
while two others decide over the last two units. Two products are the least for
a lock cycle. Quantities lie around the thresholds 0 and 2 units, prices are
odd so that sums need rounding, and each limited code can be exceeded by one
more order than it allows. `LastDay = 4` is the first day outside the grace
period. Two rows of one customer with a third to come are what a wrongly chosen
latest row needs, and two periods of different length what a renewal of the
wrong one would sell. Two tabs race one refresh token, and a second code is
what a second registration needs. Two chains are one more than the page shows,
two payments and two notifications of one order are what could pay it twice,
and carts of one and two units lie on both sides of free delivery and of the
minimum of the code. Three requests are a poll, an action's reload and one
superseded by both; three changes are the action's and two overtaking it.

`OrderBound`, `Room`, `MaxSubmits`, `MaxPayments`, `MaxCodes`, `MaxTokens`,
`MaxExpired`, `MaxChanges`, `MaxClicks`, `MaxLoads`, `LastDay` and `Horizon`
bound the models and not the code. `MaxExpired = 1` lets the first pair expire;
`Offered = {"refresh"}` adds the refresh that `AuthContextValue` offers to the
applications. `rules` has a single step per input and stops, hence its
`CHECK_DEADLOCK FALSE`; no other run may stop.

*Symmetry* permutes sessions and orders in `handling`, orders in `placing` and
tabs in `accounts`, which no definition tells apart; runs with liveness use
none.

*Fairness.*

* Orders: `SF(Step(s))` and `WF(AbortVictim(s))`. PostgreSQL queues the waiters
  of a row and wakes them in order, so a session whose statement becomes
  runnable again and again runs it; and it looks for a cycle after every
  `deadlock_timeout`.
* Subscriptions: `WF(Serve(s))`. The server goes on with what it has taken; a
  request holds its row from finding it to the commit in one step, so nothing
  disables another again and again.
* Purchase: `WF(Serve(c) \/ Timeout(c))`. Each request of the tab is answered
  or ended by the timer of `client.ts`, which aborts every request.
* Screens: `WF(Finished(s))`, `WF(Told)` and `WF(\E s : Tick(s))`. The same
  timer ends a load and an action, and `setInterval` goes on.

No fairness is assumed of customers, staff, failures or the provider.

## 4. Findings

* `stock_drift`: a reservation takes `CEIL` of each line off `stock_quantity`
  and clamps at 0; a return adds `CEIL` of the summed lines (admin) or the sum
  of `CEIL` of the lines (manager). Two lines of 0.5 kg cancelled by the admin
  leave the column one unit short for good, although the product document
  promises that a cancellation returns the goods. `quantity`, which
  reservations check, does not drift: `GoodsConserved`.
* `capture_gap`: `online_capture_amount` is written only by the weighing, which
  needs weighted goods and is optional for those too. Delivered orders that
  were never weighed are `fully_paid` with nothing captured of their hold.
* `already_active`: a customer with two active rows who is paused on the latest
  is told "already active" by the paywall and may not order.
* `token_expiry`: the server answers 403 to an expired access token and the
  client refreshes on 401, so the refresh the document describes never happens.

Each is quoted with its lines in `PROJECT.json`.

## 5. Proofs

Every safety and action property that a passing run checks is also a theorem:
TLC shows it on the small instance of section 3, the theorem for every value of
the constants.

| Theorems about | hold for | under the assumptions |
|---|---|---|
| `KozOrders`, `StoreReports` | any sets of sessions, customers, products and codes, any finite set of orders, any carts, prices and terms | `RowsAreDistinct`, `NoneIsApart`, `ConstantTypes`: rows of different tables differ, amounts are natural numbers; `OrdersAreBounded`: a store has finitely many orders |
| `OrderRulesTable` | any sets of amounts, percentages, fees, weights and hours | `RangesAreNatural`: amounts, percentages and hours are natural numbers, weights are positive |
| `Subscriptions` | any number of rows and days, any finite set of requests, any periods | `PeriodsAssumption`: a period is at least a day |
| `Accounts` | any tabs and requests, any number of codes and tokens | `AccountsAssumption` |
| `Purchase` | any carts, price, discount and fee, any number of checkouts, payments and notifications | `PurchaseAssumption`: the price is positive, amounts are natural numbers |
| `Screens` | any finite set of rows, any number of requests, clicks and changes, any periods and stores | `PagesAssumption`: a bound of at least one request and one change; `NoneIsApart` of `Screens`: nobody and nothing are no name of a row, role, page or action |

### Orders

No property of `KozOrders` is inductive: that no handler moves an order twice
depends on what it checked statements earlier, which depends on the lock it
holds since. The inductive invariant (`KozOrdersProofs`) adds those links:

    Inv == TypeOK /\ Phases /\ LocksHeld /\ Checked

* `Phases`: at each `pc` a session serves a request of the right kind, reads a
  line its cart has, and has a promo amount only after checking a code;
* `LocksHeld`: at each `pc` it holds the rows it selected `FOR UPDATE`;
* `Checked`: what `LockOrder` checked still holds, since only the holder of the
  order's lock changes its status (`LockedOrderKept`).

`TypeOK` is the heart of "no oversell" here: `quantity` is a natural number
because `Reserve` evaluates its condition on the version it locks. Each action
has its lemma; `ActsKeepsOthers` says that a session's step leaves the locks
and phases of the others alone, which every later proof uses.

Three properties need more. The limits of a code follow from `PromoHolds`,
since a commit adds at most one use to a count below the limit. A discount is
backed because the welcome discount on offer is still unused while the
customer's row is locked (`WelcomeKept`) and no right is spent on an order that
does not exist (`Unspent`). The refinement rests on `Tally`, which relates the
session's version of each row to its basket or to its order, so that the one
step that publishes the rows is `Place` or `Move` of the ledger.

### Sums over orders

`GoodsAreConserved` and `ReportsAgree` are about sums over all orders, which
the prover cannot unfold. `KozOrdersStock` first proves what the two need of
`SumFunctionOnSet`: that changing the value of one element changes the sum by
the difference (`SumChange`), that the sum of two columns is the column of
their sums (`SumPlus`), that a smaller column has a smaller sum (`SumAtMost`),
and that the sizes of the classes of a set add up to its size (`SumClasses`).
They go by induction over finite sets in a form without an operator parameter:
a set of subsets of `S` that holds every subset all of whose strict subsets it
holds, holds all of them (`BySubsets`), from the well-foundedness of strict
inclusion.

`GoodsConserved` is not inductive: a placement must not overwrite what an order
holds already. `Conserved` adds that an order holds nothing until it is placed
(`EmptyUntilPlaced`), and each step is then a change of one term by what
`Tally` says the session took or put back. `ReportsBalance` follows from
`PaidOnDelivery`, `OnlineWithinHold`, `OutOfStockIffEmpty` and the types, order
by order.

### Rules

`Answered` says that the answer is what the rules make of its input. The rest
is about quotients: `RoundDivNearest` bounds a rounded quotient from both
sides, and `NearestBounds` compares two of them, which is why less weight never
costs more although both sums are rounded.

### Subscriptions

The rows a request works on are those of its snapshot. The inductive invariant
`IInv` (`SubscriptionsProofs`) says what of them is still true: they exist and
were looked up on a day that has come (`Sound`), the table is filled from its
first row and has room for every request in progress (`Roomy`), so that a new
row replaces none, and the date still to be written is no later than the
periods sold allow. `AccountBacked` holds because every commit leaves the
account either not admitting or with the day of the row it wrote, and because
a row is closed only together with an account that stops.

### Sign-in

That a code lives on in one session needs to know who is still entitled to make
one. The invariant (`AccountsProofs`) says that a spent code belongs to one
request or to one line of sessions (`Spent`), that a locked session and the
refresh that rotates it name each other and the row is still live (`Locked`),
that nobody is issued a token before the customer exists (`Welcomed`), and that
an awaited request is busy, of the right kind and awaited by one tab
(`Awaited`); `Phases` says what a request works on.

### Purchase

`PaidOnce` rests on `Noticed`: a notification saw the payment and the order as
they still are, and nobody else has their rows. `NeverDearer` rests on
`Priced`: what was shown is what the goods and the code of the chain come to,
and the server can only grant a larger discount - the welcome discount if it
is greater than the code - than the one shown; that the code is still granted
is a guard of `Place`. `ThankedForOrder` rests on `Progress`: a chain places
its order once, and the address of an order stays.

### Pages

Most of the seventy actions of the pages differ only in their guards. What they
do is one of eight kinds (`Step`): the page asks, gives up or starts something
and lists nothing (`Quiet`), the server reads rows for a request (`Listing`), a
row changes (`TableMoves`), a visit begins, ends, or somebody signs in, an
answer arrives (`Answer`), the answer of an action is merged (`MergeDone`), or
details are added (`DetailsShown`). `NextSteps` sorts every action into one of
them, and the invariant is proved once for each. It needs four links beyond the
types: nothing a page has is newer than the server (`Dated`); once an own
change was told, the rows shown and the answer listened to are at least as new
(`OwnKept`), which holds because only a request that was sent after the
acknowledgement is listened to; the answer listened to is no older than what is
shown (`Newer`), which yields the action property `NeverOlder`; and it is about
what the page is about (`AskedFor`).

| Theorem | Module | States |
|---|---|---|
| `TypeCorrect` | `KozOrdersProofs` | `TypeOK`: Every reachable state is typed; in particular no interleaving of carts makes a quantity, a rounded quantity, a total, a hold or a top-up negative, nor stores an order in an unknown status. |
| `Invariance` | `KozOrdersProofs` | The inductive invariant: phases of transactions, the row locks each phase holds, and what was checked under a lock stays true while it is held, for any number of sessions, products, customers and codes. |
| `CheckedOrders` | `KozOrdersProofs` | `Checked`: What a handler checked of the order it locked is still true when it commits. |
| `GateCorrect` | `KozOrdersSafety` | `GateHolds`: No pause or cancellation slips between the gate of a placement and its commit, in either backend. |
| `MoneyCorrect` | `KozOrdersSafety` | `OnlineWithinHold`: Online never takes more than the 80% hold, and delivery is always charged. |
| `PaymentCorrect` | `KozOrdersSafety` | `PaidOnDelivery`: The terminal is charged once for each delivered order and for no other. |
| `SumCorrect` | `KozOrdersSafety` | `SumFrozenForCourier`: The total of an order changes only while it is picked. |
| `PromoCorrect` | `KozOrdersSafety` | `PromoHolds`: An accepted promo code is still applicable at the commit. |
| `LimitsCorrect` | `KozOrdersSafety` | `PromoLimits`: However many orders race for a code, it is used at most max_uses times, and at most usage_per_customer times by one customer. |
| `DiscountsCorrect` | `KozOrdersSafety` | `DiscountBacked`: Every discount is backed by exactly one right, the welcome discount of its own customer or one recorded use of a code, that no other order spends. |
| `TallyCorrect` | `KozOrdersStock` | `Tally`: The uncommitted rows of a session differ from the committed ones by exactly what it took or put back, and no order is empty. |
| `LabelsCorrect` | `KozOrdersStock` | `OutOfStockIffEmpty`: A product is out of stock exactly when none is left, whichever of the statements with their different rules wrote its row last. |
| `LedgerCorrect` | `KozOrdersStock` | `LedgerSpec`: Refinement: every behaviour of the interleaved transactions is one of OrderLedger, where an order takes all its goods in one step or none and returns exactly them once. |
| `GoodsAreConserved` | `KozOrdersStock` | `GoodsConserved`: The shelf, what running requests have taken off it and what live orders hold add up to what the store put on it, after every statement of every interleaving, rollbacks and deadlocks included, for any number of orders. |
| `ReportsAgree` | `KozOrdersStock` | `ReportsBalance`: The manager's analytics and the three reports of the operations admin balance at every moment: terminal payments are the terminal part, online and terminal part make up the turnover, the holds cover the online part, and the funnel counts every order once. |
| `HoldIsAlwaysFourFifths` | `OrderRulesProofs` | `HoldIsFourFifths`: For all sums, rights and fees the hold is four fifths of the final total to the nearest tiyn and within it, the discount is the better of the two rights, and delivery is paid in full. |
| `SpentIsAlwaysDeducted` | `OrderRulesProofs` | `SpentIsDeducted`: For all amounts the right that is marked as spent is the one that was deducted, and none is spent for nothing. |
| `WeighingIsAlwaysFair` | `OrderRulesProofs` | `WeighingIsFair`: For all sums and weights the goods scale to the nearest tiyn, an order that weighs what was estimated keeps its sum, one that weighs less is not dearer, capture and terminal add up to the new total, and the capture stays within the hold. |
| `WindowIsAlwaysNextOpening` | `OrderRulesProofs` | `WindowIsNextOpening`: For all hours an order placed inside the window is promised for the same day, and any other for the next opening, today before the store closes and tomorrow after. |
| `SubscriptionsInductive` | `SubscriptionsProofs` | The inductive invariant of the subscriptions: what a request planned outside its transaction and found in it, which rows its queue still holds, and how the account follows the rows. |
| `SubscriptionsTyped` | `SubscriptionsProofs` | `TypeOK`: Every variable of the subscriptions keeps its type, for any number of requests, rows and days. |
| `AccountIsBacked` | `SubscriptionsProofs` | `AccountBacked`: However creations, renewals, pauses and cancellations overlap, what the account grants is backed by a row of subscriptions. |
| `NoTimeGivenAway` | `SubscriptionsProofs` | `NoFreeTime`: No overlap of requests leaves a customer with more days than were sold to him. |
| `AccountsInductive` | `AccountsProofs` | The inductive invariant of sign-in: what a job holds and may still issue, which sessions descend from which code, and what the tabs wait for, for any number of tabs, requests, codes and tokens. |
| `AccountsTyped` | `AccountsProofs` | `TypeOK`: Every variable of sign-in keeps its type, and the lock of a session belongs to the refresh that rotates it. |
| `OneSessionPerCode` | `AccountsProofs` | `OneLiveSession`: A sign-in by one code lives on in at most one refresh session, however refreshes race, fail or are repeated. |
| `OneWelcomeEver` | `AccountsProofs` | `OneWelcome`: A telephone gets at most one welcome discount, and nobody holds a token without a customer. |
| `PairsStayPaired` | `AccountsProofs` | `StoredPairAgrees`: The access and the refresh token of localStorage were issued together, whatever the tabs do. |
| `NoCallStranded` | `AccountsProofs` | `BlockedAwaitsRefresh`: A call that waits for a refresh waits for a request that is still awaited by its tab. |
| `PurchaseInductive` | `PurchaseProofs` | The inductive invariant of a purchase: what the tab remembers of its cart and checkouts agrees with the orders and addresses stored, and a notification still sees the rows it locked. |
| `PurchaseTyped` | `PurchaseProofs` | `TypeOK`: Every variable of a purchase keeps its type, for all prices, discounts and fees. |
| `OrderPaidOnce` | `PurchaseProofs` | `PaidOnce`: However confirmations are repeated and overlap with one another and with the courier, an order is paid online once. |
| `ThanksAreDue` | `PurchaseProofs` | `ThankedForOrder`: The page of thanks shows an order that is stored, with its own amounts, at an address that still exists. |
| `NoDearerThanShown` | `PurchaseProofs` | `NeverDearer`: An order never costs more than the checkout showed when it was submitted, for all prices and discounts, and although other checkouts spend the discounts meanwhile. |
| `ScreensInductive` | `ScreensProofs` | The inductive invariant of the pages: what is shown, what is listened to and what was told of a row are versions the server had, ordered as they were told, for any number of rows, requests, clicks and changes. |
| `ScreensTyped` | `ScreensProofs` | `TypeOK`: Every variable of the pages keeps its type, and an action that waits for its list names the request it waits for. |
| `OwnWorkIsShown` | `ScreensProofs` | `OwnWorkShown`: A manager who was told that an order or an item was changed never sees its row as it was before, in whatever order older lists arrive. |
| `ShownIsWhatWasAsked` | `ScreensProofs` | `ShownIsAsked`: A report and the card of a customer never show an answer about a period, a store or a customer that was selected before. |
| `NeverOlderShown` | `ScreensProofs` | `NeverOlder`: No step of a page that numbers its requests replaces a row by an older version, but for the answer of an action that a list overtook. |

### Checked by TLC only

Liveness: `RequestsEnd`, `PaywallReturns`, `CheckoutReturns`, `FilterAnswered`,
`LoaderEnds` and `ActionEnds` rest on fairness, that is on `ENABLED`, which is
out of reach of the prover. The four properties that the code violates are
refuted by TLC with a counterexample.

## 6. Not modelled

* Notifications (a list and a read mark of one row), the offline page and the
  service worker.
* The earlier versions of Node modules that no route of `app.js` reaches, and
  the operator endpoints, whose statements use columns that the schema does not
  have.
* The HTTP host, error translation, and the deployment scripts, which move
  traffic between processes and proxies outside the repository.
* The one-time codes of the .NET backend, which live in a table with an attempt
  counter and not in memory; its subscriptions, payments and sessions, which
  port the statements modelled here.
* The default flag of addresses and the edit of the profile; the values of
  prices and terms edited by the catalog during a placement; a cart of several
  lines, and a second tab of the checkout over the same `localStorage`; drafts
  typed and not sent; printing, wording and layout.

## 7. What is left

1. The facts that liveness rests on, as theorems: that no cycle of waiting
   sessions outlives `AbortVictim`, and that every awaited request of a page is
   in progress.
2. A ledger for the payments, with `Purchase` as its implementation.
3. The codes table of the .NET backend, and a cutover between the backends
   while sessions live on.
4. Two tabs of one cart.
