---------------------------- MODULE MCKozOrders ----------------------------
(* Small stores for TLC, and what comments and columns of the code promise *)
(* that it does not keep.                                                  *)
EXTENDS StoreReports, TLC

CONSTANTS milk, rice, c1, c2, once, each

Item(p, q) == [product |-> p, qty |-> q]
Cart1(p, q) == <<Item(p, q)>>
Cart2(p, q, r, n) == <<Item(p, q), Item(r, n)>>

Edit == [visible |-> None, price |-> None, quantity |-> None]

NoGift == [c \in Customers |-> 0]
Gifts == [c \in Customers |-> IF c = c1 THEN 300 ELSE 0]

PromoOf(type, value, min, max, per) ==
    [type |-> type, value |-> value, min |-> min, maxUses |-> max, perCustomer |-> per]
NoTerms == [q \in Promos |-> PromoOf("fixed_amount", 0, 0, 0, 0)]

(* stock: the same two products in opposite orders, so that placements     *)
(* deadlock; two units of milk for up to three orders.                     *)
OppositeCarts == {Cart2(milk, 10, rice, 10), Cart2(rice, 10, milk, 10)}
ScarceMilk == [p \in Products |-> IF p = milk THEN 20 ELSE 40]
FlatPrice == [p \in Products |-> 50]
Returns == {<<"cancelled", "manager">>, <<"failed", "admin">>}

(* stock_drift: weighted rice in one or two lines of a cart.               *)
RiceCarts == {Cart2(rice, 5, rice, 5), Cart1(rice, 15)}
RiceShelf == [p \in Products |-> 30]

(* placing: once may be used a single time and each once per customer;   *)
(* c1's welcome discount ties with a code on one cart and loses on another.*)
DiscountCarts == {Cart1(milk, 10), Cart1(milk, 20)}
PlentyMilk == [p \in Products |-> 100]
DiscountPrice == [p \in Products |-> 1000]
CodeTerms == [q \in Promos |->
    IF q = once THEN PromoOf("percentage", 30, 1000, 1, 1)
                ELSE PromoOf("fixed_amount", 300, 1500, 3, 1)]

(* handling: milk by the piece (never by halves) and rice by weight, every *)
(* move and weight; two lines of rice that are rounded up beyond the shelf.*)
MixedCarts == {<<Item(milk, 10), Item(rice, 15), Item(rice, 5)>>,
               Cart1(milk, 10), Cart1(milk, 5)}
MixedShelf == [p \in Products |-> 20]
MixedPrice == [p \in Products |-> IF p = milk THEN 333 ELSE 41]
AllMoves == {<<n, b>> : n \in Statuses \ {"new"}, b \in Staff}
FewEdits == {[Edit EXCEPT !.quantity = 0, !.visible = FALSE]}
ManagerMoves == {<<n, "manager">> : n \in {"picked", "in_delivery", "delivered"}}

(* "Cancelling and failing return the goods to the remainder": with no order *)
(* left alive and no edit, both columns of the remainder agree again.      *)
StockQuantityRestored ==
    (\A o \in Orders : orders[o].status \in Returning \cup {"absent"})
        => \A p \in Products : inv[p].stock = Ceil(inv[p].quantity)

(* "Fully paid": the captured hold and the courier's terminal together     *)
(* collected the final total.                                              *)
FullyPaidIsCollected ==
    \A o \in Orders :
        orders[o].payment = "fully_paid" =>
            orders[o].capture + orders[o].pos = orders[o].final

SessionSymmetry == Permutations(Sessions) \cup Permutations(Orders)
OrderSymmetry == Permutations(Orders)
=============================================================================
