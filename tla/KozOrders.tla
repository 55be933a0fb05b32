----------------------------- MODULE KozOrders -----------------------------
(***************************************************************************)
(* Orders of one store under concurrent requests.  A session is a request  *)
(* being served over its own database connection: it runs one PostgreSQL   *)
(* transaction at READ COMMITTED, whose statements take row locks and wait *)
(* for the rows other transactions hold.  A session either places an order *)
(* (createOrder), moves an order to another status (updateOrderStatus of   *)
(* the store's manager and of the operations admin), or records its actual *)
(* weight (recordActualWeight).  Both backends run the same statements     *)
(* over the same tables, the Node repositories and the .NET ones translated*)
(* from them (PostgresOrderRepository and its neighbours); NodeSessions    *)
(* marks the requests where the two differ.                                *)
(*                                                                         *)
(* Statements that touch a single row and commit at once (edits of the     *)
(* inventory, of a subscription, of a promo code) are single actions that  *)
(* wait for the row to be unlocked.  The row of first_order_discounts is   *)
(* only ever locked by a session that already holds its customer's row, so *)
(* it has no lock of its own here.                                         *)
(***************************************************************************)
EXTENDS OrderRules, FiniteSets, Functions, Sequences

CONSTANTS
    Customers, Products, Promos,
    Orders,          \* bound: the orders that may ever be placed
    Sessions,        \* bound: the requests served at the same time
    None,
    Carts,           \* the carts customers submit: sequences of [product, qty]
    Moves,           \* the <<status, staff role>> pairs staff submit
    Weights,         \* the actual weights managers record
    Weighted,        \* the products sold by weight
    Shelf, Price,    \* initial quantity and price of each product
    WelcomeGift,     \* amount of each customer's first_order_discounts row
    Terms,           \* type, value and limits of each promo code
    Threshold, Fee,  \* delivery_settings of the store
    PaidUntil,       \* the day every subscription is initially paid until
    LastDay,         \* bound: the last day of the run
    Patches,         \* inventory edits: [visible, price, quantity], None = absent
    Receipts,        \* received quantities
    Unstable,        \* customers and promo codes the administrators change
    NodeSessions     \* the sessions served by the Node backend

Rows == Customers \cup Products \cup Promos \cup Orders

CartLine == [product : Products, qty : Nat \ {0}]
PromoTerms == [type : {"percentage", "fixed_amount"}, value : Nat, min : Nat,
               maxUses : Nat, perCustomer : Nat]
Patch == [visible : BOOLEAN \cup {None}, price : Nat \cup {None},
          quantity : Nat \cup {None}]
Staff == {"manager", "admin"}

ASSUME RowsAreDistinct ==
    /\ Customers \cap (Products \cup Promos \cup Orders) = {}
    /\ Products \cap (Promos \cup Orders) = {}
    /\ Promos \cap Orders = {}

ASSUME NoneIsApart == None \notin Sessions \cup Orders \cup Promos \cup Customers

ASSUME OrdersAreBounded == IsFiniteSet(Orders)

ASSUME ConstantTypes ==
    /\ Carts \subseteq Seq(CartLine) \ {<<>>}
    /\ Moves \subseteq (Statuses \ {"new"}) \X Staff
    /\ Weights \subseteq Nat \ {0}
    /\ Weighted \subseteq Products
    /\ Shelf \in [Products -> Nat]
    /\ Price \in [Products -> Nat]
    /\ WelcomeGift \in [Customers -> Nat]
    /\ Terms \in [Promos -> PromoTerms]
    /\ Threshold \in Nat
    /\ Fee \in Nat
    /\ PaidUntil \in Nat
    /\ LastDay \in Nat
    /\ Patches \subseteq Patch
    /\ Receipts \subseteq Nat \ {0}
    /\ Unstable \subseteq Customers \cup Promos
    /\ NodeSessions \subseteq Sessions

VARIABLES
    inv,         \* store_inventory: the committed row of each product
    draft,       \* the uncommitted version of a row, in the locking transaction
    supply,      \* auxiliary: what the store ever put on the shelf of a product
    customer,    \* the subscription columns of each customers row
    welcome,     \* first_order_discounts.order_id, None while is_used is false
    promoActive, \* promo_codes.is_active
    uses,        \* promo_code_usage
    orders,      \* orders with the sums of their order_items
    posPaid,     \* amounts of the completed pos_terminal payments of an order
    today,       \* the day in Almaty
    locks,       \* the session that holds each row, or None
    pc,          \* where each session is in its transaction
    req,         \* the request a session serves
    work         \* what an order placement has gathered so far

tables == <<inv, supply, customer, welcome, promoActive, uses, orders, posPaid, today>>
sessionVars == <<locks, pc, req, work>>
vars == <<inv, draft, supply, customer, welcome, promoActive, uses, orders, posPaid,
          today, locks, pc, req, work>>

-----------------------------------------------------------------------------
(* Types. *)

InventoryRow == [quantity : Nat, stock : Nat,
                 status : {"available", "low_stock", "out_of_stock"},
                 visible : BOOLEAN, price : Nat]

Subscription == [status : {"active", "paused", "cancelled"}, end : Nat]

(* An order, or the place of one not yet inserted (status "absent"); goods *)
(* and pieces are, per product, the sums of the quantities of its items    *)
(* and of those quantities rounded up to whole units.                      *)
OrderRow == [customer : Customers \cup {None}, status : Statuses \cup {"absent"},
             goods : [Products -> Nat], pieces : [Products -> Nat],
             subtotal : Nat, discount : Nat, fee : Nat, estimated : Nat,
             final : Nat, hold : Nat, capture : Nat, pos : Nat,
             payment : {"pending", "fully_paid"}]

NoGoods == [p \in Products |-> 0]

NoOrder == [customer |-> None, status |-> "absent",
            goods |-> NoGoods, pieces |-> NoGoods,
            subtotal |-> 0, discount |-> 0, fee |-> 0, estimated |-> 0,
            final |-> 0, hold |-> 0, capture |-> 0, pos |-> 0,
            payment |-> "pending"]

Usage == [promo : Promos, customer : Customers, order : Orders]

CreateRequest == [kind : {"create"}, customer : Customers, cart : Carts,
                  code : Promos \cup {None}]
MoveRequest == [kind : {"move"}, order : Orders, next : Statuses, by : Staff]
WeighRequest == [kind : {"weigh"}, order : Orders, weight : Weights]
NoRequest == [kind |-> "none"]

Basket == [goods : [Products -> Nat], pieces : [Products -> Nat],
           subtotal : Nat, weight : Nat, line : Nat \ {0}, price : Nat,
           first : Nat, promo : Nat, day : Nat]

EmptyBasket == [goods |-> NoGoods, pieces |-> NoGoods,
                subtotal |-> 0, weight |-> 0, line |-> 1, price |-> 0,
                first |-> 0, promo |-> 0, day |-> 0]

Placing == {"customer", "find", "reserve", "discount", "commit"}
Handling == {"order", "return", "settle"}

TypeOK ==
    /\ inv \in [Products -> InventoryRow]
    /\ draft \in [Products -> InventoryRow]
    /\ supply \in [Products -> Int]
    /\ customer \in [Customers -> Subscription]
    /\ welcome \in [Customers -> Orders \cup {None}]
    /\ promoActive \in [Promos -> BOOLEAN]
    /\ uses \subseteq Usage
    /\ orders \in [Orders -> OrderRow]
    /\ posPaid \in [Orders -> Seq(Nat)]
    /\ today \in Nat
    /\ locks \in [Rows -> Sessions \cup {None}]
    /\ pc \in [Sessions -> Placing \cup Handling \cup {"idle"}]
    /\ req \in [Sessions -> CreateRequest \cup MoveRequest \cup WeighRequest \cup {NoRequest}]
    /\ work \in [Sessions -> Basket]

Init ==
    /\ inv = [p \in Products |->
                [quantity |-> Shelf[p], stock |-> Ceil(Shelf[p]),
                 status |-> StockStatus(Shelf[p]), visible |-> TRUE,
                 price |-> Price[p]]]
    /\ draft = inv
    /\ supply = Shelf
    /\ customer = [c \in Customers |-> [status |-> "active", end |-> PaidUntil]]
    /\ welcome = [c \in Customers |-> None]
    /\ promoActive = [q \in Promos |-> TRUE]
    /\ uses = {}
    /\ orders = [o \in Orders |-> NoOrder]
    /\ posPaid = [o \in Orders |-> <<>>]
    /\ today = 0
    /\ locks = [r \in Rows |-> None]
    /\ pc = [s \in Sessions |-> "idle"]
    /\ req = [s \in Sessions |-> NoRequest]
    /\ work = [s \in Sessions |-> EmptyBasket]

-----------------------------------------------------------------------------
(* Transactions and row locks. *)

Free(s, r) == locks[r] \in {None, s}

(* Mutants: a SELECT that lost its FOR UPDATE.                             *)
TakeButCustomers(s, r) == locks' = IF r \in Customers THEN locks ELSE [locks EXCEPT ![r] = s]
TakeButPromos(s, r) == locks' = IF r \in Promos THEN locks ELSE [locks EXCEPT ![r] = s]
TakeButOrders(s, r) == locks' = IF r \in Orders THEN locks ELSE [locks EXCEPT ![r] = s]

Take(s, r) == locks' = [locks EXCEPT ![r] = s]

(* The version of a product's row that the statements of session s see.    *)
View(s, p) == IF locks[p] = s THEN draft[p] ELSE inv[p]

(* Mutant: a transaction that is left open keeps its locks.                *)
EndSessionLocked(s) ==
    /\ pc' = [pc EXCEPT ![s] = "idle"]
    /\ req' = [req EXCEPT ![s] = NoRequest]
    /\ work' = [work EXCEPT ![s] = EmptyBasket]
    /\ UNCHANGED locks

EndSession(s) ==
    /\ locks' = [r \in Rows |-> IF locks[r] = s THEN None ELSE locks[r]]
    /\ pc' = [pc EXCEPT ![s] = "idle"]
    /\ req' = [req EXCEPT ![s] = NoRequest]
    /\ work' = [work EXCEPT ![s] = EmptyBasket]

(* Mutant: statements that ran outside the transaction stay done.          *)
RollbackNothing(s) ==
    /\ inv' = [p \in Products |-> View(s, p)]
    /\ EndSession(s)
    /\ UNCHANGED <<draft, supply, customer, welcome, promoActive, uses, orders, posPaid, today>>

(* The catch block: the transaction's row versions are discarded and its   *)
(* locks released.                                                         *)
Rollback(s) ==
    /\ draft' = [p \in Products |-> IF locks[p] = s THEN inv[p] ELSE draft[p]]
    /\ EndSession(s)
    /\ UNCHANGED tables

(* The inventory half of a commit.                                         *)
CommitInventory(s) ==
    /\ inv' = [p \in Products |-> View(s, p)]
    /\ UNCHANGED draft

Proceed(s, label) == pc' = [pc EXCEPT ![s] = label]

(* Any failure that depends on nothing modelled: the client disconnects, a *)
(* statement times out, the address or a quantity is rejected.             *)
Fail(s) == pc[s] # "idle" /\ Rollback(s)

-----------------------------------------------------------------------------
(* Placing an order. *)

(* As many orders are being placed as may still be inserted (bound).       *)
OrderBound == Cardinality({s \in Sessions : pc[s] \in Placing})
                < Cardinality({o \in Orders : orders[o].status = "absent"})

SubmitOrder(s, r) ==
    /\ pc[s] = "idle"
    /\ OrderBound
    /\ req' = [req EXCEPT ![s] = r]
    /\ Proceed(s, "customer")
    /\ UNCHANGED <<tables, draft, locks, work>>

(* The gate of the backend that serves s.  The .NET backend counts three   *)
(* days of grace; the Node backend compares a Date with a date string,     *)
(* which is never true, and so never refuses an active subscription.       *)
MayOrder(s, sub, day) ==
    IF s \in NodeSessions THEN sub.status = "active"
    ELSE AllowsOrdering(sub.status, sub.end, day)

(* findCustomerForOrder ... FOR UPDATE, then ensureActiveSubscription.     *)
LockCustomer(s) ==
    LET c == req[s].customer IN
    /\ pc[s] = "customer"
    /\ Free(s, c)
    /\ IF MayOrder(s, customer[c], today)
       THEN /\ Take(s, c)
            /\ work' = [work EXCEPT ![s].day = today]
            /\ Proceed(s, "find")
            /\ UNCHANGED <<tables, draft, req>>
       ELSE Rollback(s)

Line(s) == req[s].cart[work[s].line]

(* findStoreProductForOrder reads without a lock.                          *)
FindProduct(s) ==
    LET p == Line(s).product
        row == View(s, p) IN
    /\ pc[s] = "find"
    /\ IF row.visible /\ ValidQuantity(p \in Weighted, Line(s).qty)
       THEN /\ work' = [work EXCEPT ![s].price = row.price]
            /\ Proceed(s, "reserve")
            /\ UNCHANGED <<tables, draft, locks, req>>
       ELSE Rollback(s)

(* Mutants: stock_quantity without GREATEST(0, ..); the status derived from*)
(* the quantity before the reservation.                                    *)
ReservedUnclamped(row, q) ==
    [row EXCEPT !.quantity = row.quantity - q, !.stock = row.stock - Ceil(q),
                !.status = StockStatus(row.quantity - q)]
ReservedStale(row, q) ==
    [row EXCEPT !.quantity = row.quantity - q,
                !.stock = Greatest(0, row.stock - Ceil(q)),
                !.status = StockStatus(row.quantity)]

Reserved(row, q) ==
    [row EXCEPT !.quantity = row.quantity - q,
                !.stock = Greatest(0, row.stock - Ceil(q)),
                !.status = IF row.quantity - q > LowStock THEN row.status
                           ELSE StockStatus(row.quantity - q)]

(* The cart line joins the basket at the price that was found.             *)
WithLine(b, p, q) ==
    [b EXCEPT !.goods[p] = @ + q,
              !.pieces[p] = @ + Ceil(q),
              !.subtotal = @ + LineTotal(q, b.price),
              !.weight = @ + IF p \in Weighted THEN q ELSE 0,
              !.line = @ + 1]

(* reserveInventory: UPDATE ... WHERE quantity >= q, which waits for the   *)
(* row and is evaluated on the version it finds then.                      *)
Reserve(s) ==
    LET p == Line(s).product
        q == Line(s).qty
        row == View(s, p) IN
    /\ pc[s] = "reserve"
    /\ IF row.quantity >= q
       THEN /\ Free(s, p)
            /\ Take(s, p)
            /\ draft' = [draft EXCEPT ![p] = Reserved(row, q)]
            /\ work' = [work EXCEPT ![s] = WithLine(@, p, q)]
            /\ Proceed(s, IF work[s].line = Len(req[s].cart) THEN "discount" ELSE "find")
            /\ UNCHANGED <<tables, req>>
       ELSE Rollback(s)

UsesOf(q) == {u \in uses : u.promo = q}
UsesBy(q, c) == {u \in UsesOf(q) : u.customer = c}

(* Mutant: the limits are off by one.                                      *)
PromoAppliesOnceMore(q, c, subtotal) ==
    /\ promoActive[q]
    /\ Terms[q].min <= subtotal
    /\ Cardinality(UsesOf(q)) <= Terms[q].maxUses
    /\ Cardinality(UsesBy(q, c)) <= Terms[q].perCustomer

(* The code can be applied by this customer to goods of this amount.       *)
PromoApplies(q, c, subtotal) ==
    /\ promoActive[q]
    /\ Terms[q].min <= subtotal
    /\ Cardinality(UsesOf(q)) < Terms[q].maxUses
    /\ Cardinality(UsesBy(q, c)) < Terms[q].perCustomer

FirstAmount(s) == WelcomeAmount(WelcomeGift[req[s].customer],
                                welcome[req[s].customer] # None, work[s].subtotal)

(* findFirstOrderDiscount and, without a code, the end of validatePromoCode. *)
SkipPromo(s) ==
    /\ pc[s] = "discount"
    /\ req[s].code = None
    /\ work' = [work EXCEPT ![s].first = FirstAmount(s)]
    /\ Proceed(s, "commit")
    /\ UNCHANGED <<tables, draft, locks, req>>

(* findFirstOrderDiscount, then findPromoCodeForOrder: FOR UPDATE; a code  *)
(* that does not apply refuses the whole order.                            *)
LockPromo(s) ==
    LET q == req[s].code IN
    /\ pc[s] = "discount"
    /\ q # None
    /\ Free(s, q)
    /\ IF PromoApplies(q, req[s].customer, work[s].subtotal)
       THEN /\ Take(s, q)
            /\ work' = [work EXCEPT ![s].first = FirstAmount(s),
                                    ![s].promo = PromoAmount(Terms[q], work[s].subtotal)]
            /\ Proceed(s, "commit")
            /\ UNCHANGED <<tables, draft, req>>
       ELSE Rollback(s)

(* The order row that insertOrder writes.                                  *)
NewOrder(s) ==
    LET b == work[s]
        discount == DiscountTotal(b.first, b.promo)
        fee == DeliveryFee(b.subtotal, Threshold, Fee)
        final == FinalTotal(b.subtotal, discount, fee) IN
    [customer |-> req[s].customer, status |-> "new",
     goods |-> b.goods, pieces |-> b.pieces,
     subtotal |-> b.subtotal, discount |-> discount, fee |-> fee,
     estimated |-> b.weight, final |-> final,
     hold |-> Hold(final), capture |-> 0, pos |-> final - Hold(final),
     payment |-> "pending"]

(* The inserts, MarkFirstDiscount or InsertPromoUsage, and COMMIT.         *)
CommitOrder(s, o) ==
    LET c == req[s].customer
        benefit == Benefit(work[s].first, work[s].promo) IN
    /\ pc[s] = "commit"
    /\ orders[o].status = "absent"
    /\ orders' = [orders EXCEPT ![o] = NewOrder(s)]
    /\ welcome' = IF benefit = "welcome" THEN [welcome EXCEPT ![c] = o] ELSE welcome
    /\ uses' = IF benefit = "promo"
               THEN uses \cup {[promo |-> req[s].code, customer |-> c, order |-> o]}
               ELSE uses
    /\ CommitInventory(s)
    /\ EndSession(s)
    /\ UNCHANGED <<supply, customer, promoActive, posPaid, today>>

-----------------------------------------------------------------------------
(* Staff requests on an order. *)

SubmitStaff(s, r) ==
    /\ pc[s] = "idle"
    /\ orders[r.order].status # "absent"
    /\ req' = [req EXCEPT ![s] = r]
    /\ Proceed(s, "order")
    /\ UNCHANGED <<tables, draft, locks, work>>

(* Mutant: a courier's order is weighed too.                               *)
CanWeighLate(o) == orders[o].status \in {"picked", "in_delivery"} /\ orders[o].estimated > 0

CanWeigh(o) == orders[o].status = "picked" /\ orders[o].estimated > 0

(* SELECT ... FROM orders ... FOR UPDATE, then the check of the handler.   *)
LockOrder(s) ==
    LET o == req[s].order IN
    /\ pc[s] = "order"
    /\ Free(s, o)
    /\ IF \/ req[s].kind = "move" /\ TransitionAllowed(orders[o].status, req[s].next)
          \/ req[s].kind = "weigh" /\ CanWeigh(o)
       THEN /\ Take(s, o)
            /\ Proceed(s, IF req[s].kind = "move" /\ req[s].next \in Returning
                          THEN "return" ELSE "settle")
            /\ UNCHANGED <<tables, draft, req, work>>
       ELSE Rollback(s)

(* ReturnInventory adds back the sums over the items of the order.  The    *)
(* manager's statement sums the rounded items and always writes            *)
(* 'available'; the admin's rounds the sum and derives the status.         *)
Returned(row, order, p, by) ==
    LET back == row.quantity + order.goods[p] IN
    [row EXCEPT !.quantity = back,
                !.stock = row.stock + IF by = "manager" THEN order.pieces[p]
                                      ELSE Ceil(order.goods[p]),
                !.status = IF by = "manager" THEN "available" ELSE StockStatus(back)]

(* Mutant: only one of the order's products is joined.                     *)
UnreturnedFirst(s) ==
    {p \in Products : orders[req[s].order].goods[p] > 0 /\ \A r \in Products : locks[r] # s}

Unreturned(s) == {p \in Products : orders[req[s].order].goods[p] > 0 /\ locks[p] # s}

(* The UPDATE reaches the rows of the order's products in an order the     *)
(* planner chooses, waiting for each.                                      *)
ReturnProduct(s, p) ==
    /\ pc[s] = "return"
    /\ p \in Unreturned(s)
    /\ Free(s, p)
    /\ Take(s, p)
    /\ draft' = [draft EXCEPT ![p] = Returned(inv[p], orders[req[s].order], p, req[s].by)]
    /\ UNCHANGED <<tables, pc, req, work>>

(* Every row the handler has to write is written.                          *)
ReadyToSettle(s) ==
    \/ pc[s] = "settle"
    \/ pc[s] = "return" /\ Unreturned(s) = {}

Moved(row, next) ==
    [row EXCEPT !.status = next,
                !.payment = IF next = "delivered" THEN "fully_paid" ELSE @]

(* UpdateStatus, history, CompleteDelivered and COMMIT.                    *)
CommitMove(s) ==
    LET o == req[s].order
        next == req[s].next IN
    /\ ReadyToSettle(s)
    /\ req[s].kind = "move"
    /\ orders' = [orders EXCEPT ![o] = Moved(@, next)]
    /\ posPaid' = IF next = "delivered" /\ orders[o].pos > 0
                  THEN [posPaid EXCEPT ![o] = Append(@, orders[o].pos)] ELSE posPaid
    /\ CommitInventory(s)
    /\ EndSession(s)
    /\ UNCHANGED <<supply, customer, welcome, promoActive, uses, today>>

Weighed(row, actual) ==
    LET goods == Reweighed(row.subtotal, actual, row.estimated)
        final == FinalTotal(goods, row.discount, row.fee)
        capture == Capture(row.hold, final) IN
    [row EXCEPT !.final = final, !.capture = capture, !.pos = PosTopup(final, capture)]

(* updateActualWeight and COMMIT.                                          *)
CommitWeight(s) ==
    LET o == req[s].order IN
    /\ ReadyToSettle(s)
    /\ req[s].kind = "weigh"
    /\ orders' = [orders EXCEPT ![o] = Weighed(@, req[s].weight)]
    /\ CommitInventory(s)
    /\ EndSession(s)
    /\ UNCHANGED <<supply, customer, welcome, promoActive, uses, posPaid, today>>

-----------------------------------------------------------------------------
(* Statements that write one row and commit: they wait for its lock.       *)

Put(p, row) ==
    /\ inv' = [inv EXCEPT ![p] = row]
    /\ draft' = [draft EXCEPT ![p] = row]
    /\ supply' = [supply EXCEPT ![p] = @ + row.quantity - inv[p].quantity]
    /\ UNCHANGED <<customer, welcome, promoActive, uses, orders, posPaid, today, sessionVars>>

Patched(row, patch) ==
    LET q == IF patch.quantity = None THEN row.quantity ELSE patch.quantity IN
    [quantity |-> q,
     stock    |-> IF patch.quantity = None THEN row.stock ELSE Ceil(q),
     status   |-> IF patch.quantity = None THEN row.status ELSE StockStatus(q),
     visible  |-> IF patch.visible = None THEN row.visible ELSE patch.visible,
     price    |-> IF patch.price = None THEN row.price ELSE patch.price]

UpdateInventory(p, patch) ==
    /\ locks[p] = None
    /\ Put(p, Patched(inv[p], patch))

Received(row, q) ==
    [row EXCEPT !.quantity = @ + q, !.stock = @ + Ceil(q), !.status = "available"]

(* bound: a product is received only while its shelf holds at most what it *)
(* started with.                                                           *)
ReceiveInventory(p, q) ==
    /\ locks[p] = None
    /\ inv[p].quantity <= Shelf[p]
    /\ Put(p, Received(inv[p], q))

SetSubscription(c, sub) ==
    /\ c \in Unstable
    /\ locks[c] = None
    /\ customer' = [customer EXCEPT ![c] = sub]
    /\ UNCHANGED <<inv, draft, supply, welcome, promoActive, uses, orders, posPaid,
                   today, sessionVars>>

PauseSubscription(c) == SetSubscription(c, [customer[c] EXCEPT !.status = "paused"])

CancelSubscription(c) ==
    /\ customer[c].status = "active"
    /\ SetSubscription(c, [status |-> "cancelled", end |-> today])

DeletePromo(q) ==
    /\ q \in Unstable
    /\ locks[q] = None
    /\ promoActive' = [promoActive EXCEPT ![q] = FALSE]
    /\ UNCHANGED <<inv, draft, supply, customer, welcome, uses, orders, posPaid,
                   today, sessionVars>>

NextDay ==
    /\ today < LastDay
    /\ today' = today + 1
    /\ UNCHANGED <<inv, draft, supply, customer, welcome, promoActive, uses, orders,
                   posPaid, sessionVars>>

-----------------------------------------------------------------------------
(* PostgreSQL aborts a transaction that waits in a cycle.                  *)

Wanted(s) ==
    CASE pc[s] = "customer" -> {req[s].customer}
      [] pc[s] = "reserve"  -> {Line(s).product}
      [] pc[s] = "discount" -> {req[s].code} \ {None}
      [] pc[s] = "order"    -> {req[s].order}
      [] pc[s] = "return"   -> Unreturned(s)
      [] OTHER              -> {}

Blockers(s) == IF \E r \in Wanted(s) : Free(s, r) THEN {} ELSE {locks[r] : r \in Wanted(s)}

Deadlocked(s) ==
    \E C \in SUBSET Sessions :
        /\ s \in C
        /\ \A t \in C : Blockers(t) \cap C # {}
        /\ \A t \in C : \E u \in C : t \in Blockers(u)

AbortVictim(s) == Deadlocked(s) /\ Rollback(s)

-----------------------------------------------------------------------------
(* What a session does once its request is submitted.                      *)
Step(s) ==
    \/ LockCustomer(s) \/ FindProduct(s) \/ Reserve(s)
    \/ SkipPromo(s) \/ LockPromo(s)
    \/ \E o \in Orders : CommitOrder(s, o)
    \/ LockOrder(s)
    \/ \E p \in Products : ReturnProduct(s, p)
    \/ CommitMove(s) \/ CommitWeight(s)

Submit(s) ==
    \/ \E c \in Customers, cart \in Carts, code \in Promos \cup {None} :
          SubmitOrder(s, [kind |-> "create", customer |-> c, cart |-> cart, code |-> code])
    \/ \E o \in Orders, m \in Moves :
          SubmitStaff(s, [kind |-> "move", order |-> o, next |-> m[1], by |-> m[2]])
    \/ \E o \in Orders, w \in Weights :
          SubmitStaff(s, [kind |-> "weigh", order |-> o, weight |-> w])

Administer ==
    \/ \E p \in Products, patch \in Patches : UpdateInventory(p, patch)
    \/ \E p \in Products, q \in Receipts : ReceiveInventory(p, q)
    \/ \E c \in Customers : PauseSubscription(c) \/ CancelSubscription(c)
    \/ \E q \in Promos : DeletePromo(q)
    \/ NextDay

Next ==
    \/ \E s \in Sessions : Submit(s) \/ Step(s) \/ AbortVictim(s) \/ Fail(s)
    \/ Administer

Spec == Init /\ [][Next]_vars

(* Lock queues are first come first served, and the deadlock detector runs *)
(* on every wait: a session whose next statement can run time and again    *)
(* runs it.  Nobody has to submit a request or fail.                       *)
Fairness == \A s \in Sessions : SF_vars(Step(s)) /\ WF_vars(AbortVictim(s))

FairSpec == Spec /\ Fairness

-----------------------------------------------------------------------------
(* What holds of a session at each point of its transaction.               *)

(* A session serves a request of the kind its transaction is for, reads a  *)
(* line its cart has, and has a promo amount only after locking a code.    *)
InPhase(s) ==
    /\ pc[s] = "idle" => work[s] = EmptyBasket
    /\ pc[s] \in Placing => req[s] \in CreateRequest
    /\ pc[s] \in Handling => req[s] \in MoveRequest \cup WeighRequest
    /\ pc[s] \in {"customer", "find", "reserve"} => work[s].line \in 1 .. Len(req[s].cart)
    /\ work[s].promo > 0 => pc[s] = "commit" /\ req[s].code \in Promos
    /\ pc[s] = "return" => req[s].kind = "move"

(* A session holds the rows it has selected FOR UPDATE so far.             *)
HoldsLocks(s) ==
    /\ pc[s] \in Placing \ {"customer"} => locks[req[s].customer] = s
    /\ pc[s] = "commit" /\ req[s].code # None => locks[req[s].code] = s
    /\ pc[s] \in Handling \ {"order"} => locks[req[s].order] = s

(* What LockOrder checked of the locked order still holds.                 *)
StillAllowed(s) ==
    pc[s] \in Handling \ {"order"} =>
        \/ req[s].kind = "move" /\ TransitionAllowed(orders[req[s].order].status, req[s].next)
        \/ req[s].kind = "weigh" /\ CanWeigh(req[s].order)

(* A session has taken from its own version of a row exactly what its      *)
(* basket holds, or put back exactly what its order holds, and a handler   *)
(* that returns nothing has written no row.                                *)
Tallied(s) ==
    /\ pc[s] \in Placing =>
          \A p \in Products : View(s, p).quantity + work[s].goods[p] = inv[p].quantity
    /\ pc[s] = "return" =>
          \A p \in Products : locks[p] = s =>
              draft[p].quantity = inv[p].quantity + orders[req[s].order].goods[p]
    /\ pc[s] \in {"idle", "order", "settle"} => \A p \in Products : locks[p] # s

(* Goods are returned by the moves that return them, and no order is empty.*)
Purposeful(s) ==
    /\ pc[s] \in {"discount", "commit"} => \E p \in Products : work[s].goods[p] > 0
    /\ pc[s] = "return" => req[s].next \in Returning
    /\ pc[s] = "settle" /\ req[s].kind = "move" => req[s].next \notin Returning

Phases == \A s \in Sessions : InPhase(s)
LocksHeld == \A s \in Sessions : HoldsLocks(s)

(* What a handler checked of its order under the row lock is still true at *)
(* every point up to its commit, whatever other handlers do meanwhile.     *)
Checked == \A s \in Sessions : StillAllowed(s)

(* The uncommitted rows of every session differ from the committed ones by *)
(* exactly what it took for its basket or put back from its order, however *)
(* sessions commit, fail and abort around it; no empty order is placed.    *)
Tally == \A s \in Sessions : Tallied(s) /\ Purposeful(s)

-----------------------------------------------------------------------------
(* Properties. *)

Present(o) == orders[o].status # "absent"

(* A hidden or empty shelf is told from a full one by its status: after    *)
(* any mix of reservations, returns, receipts and edits a product is       *)
(* out_of_stock exactly when none is left.                                 *)
OutOfStockIffEmpty ==
    \A p \in Products : inv[p].status = "out_of_stock" <=> inv[p].quantity = 0

(* No goods appear or vanish: what is on the shelf and what live and       *)
(* delivered orders took is what the store put there.                      *)
GoodsConserved ==
    \A p \in Products :
        inv[p].quantity
          + SumFunctionOnSet([o \in Orders |-> orders[o].goods[p]],
                             {o \in Orders : orders[o].status \notin Returning})
        = supply[p]

(* The subscription checked when a placement began still allows the order  *)
(* when it commits: no pause or cancellation slips in between.             *)
GateHolds ==
    \A s \in Sessions :
        pc[s] \in Placing \ {"customer"} =>
            MayOrder(s, customer[req[s].customer], work[s].day)

(* A promo code that was accepted is still applicable when the order that  *)
(* uses it commits: not deleted, nor used up by a concurrent order.        *)
PromoHolds ==
    \A s \in Sessions :
        pc[s] = "commit" /\ req[s].code # None =>
            PromoApplies(req[s].code, req[s].customer, work[s].subtotal)

(* max_uses and usage_per_customer are never exceeded.                     *)
PromoLimits ==
    \A q \in Promos :
        /\ Cardinality(UsesOf(q)) <= Terms[q].maxUses
        /\ \A c \in Customers : Cardinality(UsesBy(q, c)) <= Terms[q].perCustomer

ByWelcome(o) == \E c \in Customers : welcome[c] = o
ByPromo(o) == \E u \in uses : u.order = o

(* Every discount is backed by exactly one right to it: the customer's     *)
(* welcome discount, spent on this order and no other, or one recorded use *)
(* of a promo code; an order without a discount spends neither.            *)
DiscountBacked ==
    \A o \in Orders :
        /\ ~(ByWelcome(o) /\ ByPromo(o))
        /\ (orders[o].discount > 0) <=> (ByWelcome(o) \/ ByPromo(o))
        /\ ByWelcome(o) => welcome[orders[o].customer] = o

(* Online never takes more than the hold and the discount never eats the   *)
(* delivery fee: at any time the part not left to the courier's terminal,  *)
(* and any capture, is within the 80% held when the order was placed.      *)
OnlineWithinHold ==
    \A o \in Orders :
        LET order == orders[o] IN
        /\ order.capture <= order.hold
        /\ order.pos <= order.final
        /\ order.final - order.pos <= order.hold
        /\ order.fee <= order.final

(* The courier's terminal charges a delivered order once, for the top-up   *)
(* the order shows, and no other order; fully_paid means delivered.        *)
PaidOnDelivery ==
    \A o \in Orders :
        LET order == orders[o] IN
        /\ posPaid[o] = IF order.status = "delivered" /\ order.pos > 0
                        THEN <<order.pos>> ELSE <<>>
        /\ order.payment = "fully_paid" <=> order.status = "delivered"

(* What the customer owes changes only while the order is picked: a weight *)
(* recorded late never changes the sum the courier already left with.      *)
SumFrozenForCourier ==
    [][\A o \in Orders :
          Present(o) /\ orders'[o].final # orders[o].final =>
              orders[o].status = "picked" /\ orders'[o].status = "picked"]_vars

(* Reservations behind row locks implement the ledger, where an order      *)
(* takes and returns its goods in one step.                                *)
Ledger == INSTANCE OrderLedger WITH
    shelf  <- [p \in Products |-> inv[p].quantity],
    status <- [o \in Orders |-> orders[o].status],
    goods  <- [o \in Orders |-> orders[o].goods]

LedgerSpec == Ledger!Spec

(* Every request ends, also when two of them wait for each other's rows.   *)
RequestsEnd == \A s \in Sessions : pc[s] # "idle" ~> pc[s] = "idle"
=============================================================================
