------------------------------ MODULE Purchase ------------------------------
(***************************************************************************)
(* From the cart to the payment: the cart, promo code and checkout of one  *)
(* tab of the client application, and what they ask of the Node backend -  *)
(* the validation of a promo code, an address, an order, a payment - until *)
(* the provider's webhook confirms it.                                     *)
(*                                                                         *)
(* The checkout is a chain of three requests.  A chain does not end with   *)
(* its page: the customer may go back to the shop, change the cart and     *)
(* submit another one meanwhile.  A request the tab no longer waits for is *)
(* still carried out.  An address and an order have the number of the      *)
(* chain that made them.  The cart has one line; how the goods are reserved*)
(* and the gate of the subscription is the subject of KozOrders, here an   *)
(* order is simply refused.                                                *)
(***************************************************************************)
EXTENDS OrderRules, Sequences, FiniteSets, Functions

CONSTANTS
    MaxSubmits,   \* bound of the checkouts submitted
    Carts,        \* quantities of the shop's product
    MaxPayments,  \* bound of the payments asked for
    Hooks,        \* notifications of the provider worked on at a time
    Price, FreeFrom, Fee,
    Gift,         \* amount of the welcome discount
    Promo,        \* the promo code, one use for each customer
    None

ASSUME PurchaseAssumption ==
    /\ MaxSubmits \in Nat /\ Carts \subseteq Nat /\ MaxPayments \in Nat
    /\ Price \in Nat \ {0} /\ FreeFrom \in Nat /\ Fee \in Nat /\ Gift \in Nat
    /\ Promo \in [type : {"fixed_amount", "percentage"}, value : Nat, min : Nat]
    /\ None \notin Nat

VARIABLES
    cart,         \* the units of its line, and the promo code applied to it
    asked,        \* the units a promo code is being validated for
    chain,        \* the checkouts
    busy,         \* the one whose progress the checkout page shows; 0: none
    result,       \* sessionStorage: what the customer was thanked for
    addresses, orders, spent,
    hook          \* the notifications of the provider

client == <<cart, asked, busy, result>>
vars == <<client, chain, addresses, orders, spent, hook>>

Submits == 1..MaxSubmits
Units == Carts \cup {None}

NoOrder == [total |-> 0, pay |-> "absent", payments |-> <<>>]
EmptyCart == [units |-> None, promo |-> None, stale |-> FALSE]
NoResult == [order |-> 0, total |-> 0, held |-> 0]
Unused == [step |-> "unused", heard |-> FALSE, units |-> 0,
           code |-> FALSE, shown |-> None]
Ended == [Unused EXCEPT !.step = "ended"]
Idle == [order |-> 0, nth |-> 0, status |-> "pending", pay |-> "pending"]

Init ==
    /\ cart = EmptyCart /\ asked = None
    /\ chain = [c \in Submits |-> Unused]
    /\ busy = 0 /\ result = NoResult
    /\ addresses = [c \in Submits |-> "absent"]
    /\ orders = [c \in Submits |-> NoOrder]
    /\ spent = {}
    /\ hook = [w \in Hooks |-> Idle]

-----------------------------------------------------------------------------
(* The cart.                                                               *)

Subtotal(units) == Price * units

(* Mutant: a changed quantity leaves the promo code as it was.             *)
ChangeUnits(units) ==
    /\ cart' = [cart EXCEPT !.units = units]
    /\ UNCHANGED <<asked, chain, busy, result, addresses, orders, spent, hook>>

(* Whatever is done to the line, and be it the quantity it has: the promo  *)
(* code is to be applied anew.                                             *)
Change(units) ==
    /\ cart' = [EmptyCart EXCEPT !.units = units]
    /\ UNCHANGED <<asked, chain, busy, result, addresses, orders, spent, hook>>

(* The shop's button, as far as the stock goes.                            *)
AddProduct ==
    LET units == IF cart.units = None THEN 1 ELSE cart.units + 1 IN
    units \in Carts /\ Change(units)

(* What the control of a line asks for; None: nothing, or less.  A quantity*)
(* typed below half a step is rounded to nothing, and leaves the line.     *)
Requested == Carts \cup {None}

UpdateQuantity(units) ==
    /\ cart.units # None /\ units \in Requested
    /\ Change(units)

RemoveProduct == cart.units # None /\ Change(None)

(* Another code typed into the field.                                      *)
Retype ==
    /\ cart.promo # None
    /\ cart' = [EmptyCart EXCEPT !.units = cart.units]
    /\ UNCHANGED <<asked, chain, busy, result, addresses, orders,
                   spent, hook>>

(* An empty cart has no field for a code.                                  *)
MayApply == cart.units # None /\ asked = None

Apply ==
    /\ MayApply
    /\ asked' = cart.units
    /\ UNCHANGED <<cart, chain, busy, result, addresses, orders, spent, hook>>

(* validatePromoForCustomer counts the uses, and reserves none.            *)
Granted(units) == "promo" \notin spent /\ Subtotal(units) >= Promo.min

(* The answer is about the cart it was asked for, stale or not.            *)
Validated ==
    /\ asked # None /\ asked' = None
    /\ cart' = IF Granted(asked)
               THEN [cart EXCEPT !.promo = PromoAmount(Promo, Subtotal(asked)),
                                 !.stale = asked # cart.units]
               ELSE [cart EXCEPT !.promo = None, !.stale = FALSE]
    /\ UNCHANGED <<chain, busy, result, addresses, orders, spent, hook>>

(* It was an error, or did not come in time.                               *)
NotValidated ==
    /\ asked # None /\ asked' = None
    /\ UNCHANGED <<cart, chain, busy, result, addresses, orders, spent, hook>>

-----------------------------------------------------------------------------
(* The checkout page.                                                      *)

Total(units, promo) ==
    Subtotal(units) - (IF promo = None THEN 0 ELSE promo)
        + DeliveryFee(Subtotal(units), FreeFrom, Fee)

(* The total it shows.                                                     *)
Shown == Total(cart.units, cart.promo)

(* Its fields and its button wait for the checkout in progress.            *)
MaySubmit == cart.units # None /\ busy = 0

(* What the checkout goes on with, whatever the cart becomes.              *)
Captured ==
    [step |-> "address", heard |-> TRUE,
     units |-> cart.units, code |-> cart.promo # None,
     shown |-> IF cart.stale THEN None ELSE Shown]

Submit(c) ==
    /\ MaySubmit
    /\ chain[c].step = "unused" /\ \A d \in 1..(c - 1) : chain[d].step # "unused"
    /\ chain' = [chain EXCEPT ![c] = Captured]
    /\ busy' = c
    /\ UNCHANGED <<cart, asked, result, addresses, orders, spent, hook>>

Proceeding(c) == chain[c].step \in {"address", "order", "pay"}

Leave ==
    /\ busy # 0 /\ busy' = 0
    /\ UNCHANGED <<cart, asked, chain, result, addresses, orders,
                   spent, hook>>

(* finally: the label of the page that submitted is removed.               *)
Release(c) == busy' = IF busy = c THEN 0 ELSE busy

(* The tab stops waiting; the request goes on.                             *)
Timeout(c) ==
    /\ Proceeding(c) /\ chain[c].heard
    /\ chain' = [chain EXCEPT ![c].heard = FALSE]
    /\ Release(c)
    /\ UNCHANGED <<cart, asked, result, addresses, orders, spent, hook>>

(* The cart and its promo code are read back from localStorage.            *)
Reload ==
    /\ asked' = None /\ busy' = 0
    /\ chain' = [c \in Submits |-> [chain[c] EXCEPT !.heard = FALSE]]
    /\ UNCHANGED <<cart, result, addresses, orders, spent, hook>>

-----------------------------------------------------------------------------
(* The requests of a chain, at the server.                                 *)

(* The next request of a chain is only made if the answer is heard.        *)
GoOn(c, next) == chain' = [chain EXCEPT ![c] = IF chain[c].heard THEN next ELSE Ended]

(* Mutant: the error leaves the label of the page.                         *)
RefuseSilently(c) ==
    /\ Proceeding(c)
    /\ chain' = [chain EXCEPT ![c] = Ended]
    /\ UNCHANGED <<cart, asked, busy, result, addresses, orders, spent, hook>>

Refuse(c) ==
    /\ Proceeding(c)
    /\ chain' = [chain EXCEPT ![c] = Ended]
    /\ Release(c)
    /\ UNCHANGED <<cart, asked, result, addresses, orders, spent, hook>>

AddAddress(c) ==
    /\ chain[c].step = "address"
    /\ addresses' = [addresses EXCEPT ![c] = "stored"]
    /\ GoOn(c, [chain[c] EXCEPT !.step = "order"])
    /\ UNCHANGED <<client, orders, spent, hook>>

(* The profile's list of addresses; orders keep the ones they go to.       *)
RemoveAddress(a) ==
    /\ addresses[a] = "stored"
    /\ orders[a].pay = "absent"
    /\ addresses' = [addresses EXCEPT ![a] = "removed"]
    /\ UNCHANGED <<client, chain, orders, spent, hook>>

(* The order takes its prices and its discount from the database, and of   *)
(* the checkout nothing but the goods and the code.                        *)
Place(c) ==
    /\ chain[c].step = "order"
    /\ chain[c].units > 0
    /\ addresses[c] = "stored"
    /\ chain[c].code => Granted(chain[c].units)
    /\ LET goods == Subtotal(chain[c].units)
           first == WelcomeAmount(Gift, "welcome" \in spent, goods)
           promo == IF chain[c].code THEN PromoAmount(Promo, goods) ELSE 0
           total == FinalTotal(goods, DiscountTotal(first, promo),
                               DeliveryFee(goods, FreeFrom, Fee)) IN
       /\ orders' = [orders EXCEPT ![c] = [total |-> total, pay |-> "pending",
                                           payments |-> <<>>]]
       /\ spent' = spent \cup ({Benefit(first, promo)} \ {"none"})
    /\ GoOn(c, [Unused EXCEPT !.step = "pay", !.heard = TRUE])
    /\ UNCHANGED <<client, addresses, hook>>

(* Mutant: only the payment's row is locked.                               *)
LockedNever(o) == o = 0

Locked(o) == \E w \in Hooks : hook[w].order = o

(* initiateOrderPayment asks only that the order be the customer's.        *)
NewPayment(o) ==
    /\ orders[o].pay # "absent" /\ ~Locked(o)
    /\ Hold(orders[o].total) > 0
    /\ FoldFunctionOnSet(LAMBDA q, n : Len(q.payments) + n, 0, orders, Submits)
        < MaxPayments
    /\ orders' = [orders EXCEPT ![o].payments = Append(@, "pending")]

(* Mutant: the customer is shown the totals of the page.                   *)
PayShowing(c) ==
    /\ chain[c].step = "pay" /\ chain[c].heard
    /\ NewPayment(c)
    /\ chain' = [chain EXCEPT ![c] = Ended]
    /\ result' = [order |-> c, total |-> Greatest(0, Shown), held |-> Hold(orders[c].total)]
    /\ cart' = EmptyCart
    /\ Release(c)
    /\ UNCHANGED <<asked, addresses, spent, hook>>

Thank(c) ==
    result' = [order |-> c, total |-> orders[c].total,
               held |-> Hold(orders[c].total)]

(* The widget opens and the customer is thanked, wherever in the shop he   *)
(* has gone; whatever the cart holds by now is cleared.                    *)
Pay(c) ==
    /\ chain[c].step = "pay" /\ chain[c].heard
    /\ NewPayment(c)
    /\ chain' = [chain EXCEPT ![c] = Ended]
    /\ Thank(c)
    /\ cart' = EmptyCart
    /\ Release(c)
    /\ UNCHANGED <<asked, addresses, spent, hook>>

PayUnheard(c) ==
    /\ chain[c].step = "pay" /\ ~chain[c].heard
    /\ NewPayment(c)
    /\ chain' = [chain EXCEPT ![c] = Ended]
    /\ UNCHANGED <<client, addresses, spent, hook>>

(* The route takes a second payment for an order.                          *)
PayAgain(o) ==
    /\ orders[o].payments # <<>>
    /\ NewPayment(o)
    /\ UNCHANGED <<client, chain, addresses, spent, hook>>

-----------------------------------------------------------------------------
(* The provider's notifications, repeated and overlapping as they may be.  *)

(* SELECT ... FOR UPDATE OF p, o: the payment and its order, as they are   *)
(* when both locks are had.                                                *)
Notified(w, o, nth) ==
    /\ hook[w] = Idle /\ w = CHOOSE v \in Hooks : hook[v] = Idle
    /\ nth \in DOMAIN orders[o].payments /\ ~Locked(o)
    /\ hook' = [hook EXCEPT ![w] = [order |-> o, nth |-> nth, pay |-> orders[o].pay,
                                    status |-> orders[o].payments[nth]]]
    /\ UNCHANGED <<client, chain, addresses, orders, spent>>

Complete(w) ==
    /\ hook[w] # Idle
    /\ hook[w].status = "pending" /\ hook[w].pay = "pending"
    /\ orders' = [orders EXCEPT ![hook[w].order].payments[hook[w].nth] = "completed",
                                ![hook[w].order].pay = "online_paid"]
    /\ hook' = [hook EXCEPT ![w] = Idle]
    /\ UNCHANGED <<client, chain, addresses, spent>>

(* Processed before, or refused.                                           *)
Dismiss(w) ==
    /\ hook[w] # Idle
    /\ hook[w].status # "pending" \/ hook[w].pay # "pending"
    /\ hook' = [hook EXCEPT ![w] = Idle]
    /\ UNCHANGED <<client, chain, addresses, orders, spent>>

(* The connection is lost and the transaction rolled back.                 *)
Drop(w) ==
    /\ hook[w] # Idle
    /\ hook' = [hook EXCEPT ![w] = Idle]
    /\ UNCHANGED <<client, chain, addresses, orders, spent>>

(* Mutant: the order gets the status of its payment.                       *)
DeliverCompleted(o) ==
    /\ orders[o].pay \in {"pending", "online_paid"} /\ ~Locked(o)
    /\ orders' = [orders EXCEPT ![o].pay = "completed"]
    /\ UNCHANGED <<client, chain, addresses, spent, hook>>

(* completeDeliveredOrder: the courier's terminal settles the order.       *)
Deliver(o) ==
    /\ orders[o].pay \in {"pending", "online_paid"} /\ ~Locked(o)
    /\ orders' = [orders EXCEPT ![o].pay = "fully_paid"]
    /\ UNCHANGED <<client, chain, addresses, spent, hook>>

-----------------------------------------------------------------------------
(* The page of thanks shows what is stored, or nothing.                    *)
Thanked == result.order # 0

Serve(c) ==
    AddAddress(c) \/ Place(c) \/ Pay(c) \/ PayUnheard(c)

Next ==
    \/ AddProduct \/ RemoveProduct
    \/ \E units \in Requested : UpdateQuantity(units)
    \/ Retype \/ Apply \/ Validated \/ NotValidated \/ Leave \/ Reload
    \/ \E c \in Submits :
        \/ Submit(c) \/ Timeout(c) \/ Refuse(c) \/ Serve(c)
        \/ RemoveAddress(c) \/ PayAgain(c) \/ Deliver(c)
    \/ \E w \in Hooks :
        \/ \E o \in Submits, nth \in 1..MaxPayments : Notified(w, o, nth)
        \/ Complete(w) \/ Dismiss(w) \/ Drop(w)

Spec == Init /\ [][Next]_vars

(* Every request of the tab is answered, or ended by the client's timer.   *)
FairSpec == Spec /\ \A c \in Submits : WF_vars(Serve(c) \/ Timeout(c))

-----------------------------------------------------------------------------
TypeOK ==
    /\ cart \in [units : Units, promo : Nat \cup {None}, stale : BOOLEAN]
    /\ asked \in Units
    /\ chain \in [Submits -> [step : {"unused", "address", "order", "pay", "ended"},
                              heard : BOOLEAN, units : Carts \cup {0},
                              code : BOOLEAN, shown : Int \cup {None}]]
    /\ busy \in {0} \cup Submits
    /\ result \in [order : {0} \cup Submits, total : Nat, held : Nat]
    /\ addresses \in [Submits -> {"absent", "stored", "removed"}]
    /\ orders \in [Submits -> [total : Nat,
                               pay : {"absent", "pending", "online_paid", "fully_paid"},
                               payments : Seq({"pending", "completed"})]]
    /\ spent \subseteq {"welcome", "promo"}
    /\ hook \in [Hooks -> [order : {0} \cup Submits, nth : 0..MaxPayments,
                           status : {"pending", "completed"},
                           pay : {"pending", "online_paid", "fully_paid"}]]

Completed(o) == {n \in DOMAIN orders[o].payments : orders[o].payments[n] = "completed"}

(* However often a confirmation is repeated, and however those of two      *)
(* payments of an order overlap with one another and with the courier: an  *)
(* order is paid online once, and a payment is not completed without it.   *)
PaidOnce ==
    \A o \in Submits :
        /\ Cardinality(Completed(o)) <= 1
        /\ orders[o].pay = "online_paid" => Completed(o) # {}
        /\ orders[o].pay = "pending" => Completed(o) = {}

(* The customer is thanked for an order that exists, at an address that    *)
(* exists, with a payment asked for it, and reads the order's own amounts  *)
(* - also if the cart, its promo code or another checkout went on          *)
(* meanwhile.                                                              *)
ThankedForOrder ==
    Thanked =>
        LET o == orders[result.order] IN
        /\ o.pay # "absent" /\ o.payments # <<>>
        /\ addresses[result.order] = "stored"
        /\ result.total = o.total /\ result.held = Hold(o.total)

(* The order never costs more than the checkout showed when it was         *)
(* submitted, unless the promo code shown had been granted for another     *)
(* cart - although orders of other checkouts, which spend the discounts,   *)
(* may have been placed since.                                             *)
Placed(c) == orders[c].pay = "absent" /\ orders'[c].pay # "absent"
NeverDearer ==
    [][\A c \in Submits : Placed(c) => \/ chain[c].shown = None
                                       \/ orders'[c].total <= chain[c].shown]_vars

(* The checkout page does not stay on its label: every answer, refusal and *)
(* timeout of any of its requests returns it to the customer.              *)
CheckoutReturns == \A c \in Submits : busy = c ~> busy # c
=============================================================================
