--------------------------- MODULE PurchaseProofs ---------------------------
(***************************************************************************)
(* The invariants of Purchase, and that no order is dearer than what the   *)
(* checkout showed, proved for every price, discount and number of         *)
(* checkouts, payments and notifications.                                  *)
(***************************************************************************)
EXTENDS Purchase, FiniteSetTheorems, TLAPS

CartRow == [units : Units, promo : Nat \cup {None}, stale : BOOLEAN]
ChainRow == [step : {"unused", "address", "order", "pay", "ended"},
             heard : BOOLEAN, units : Carts \cup {0},
             code : BOOLEAN, shown : Int \cup {None}]
OrderRow == [total : Nat,
             pay : {"absent", "pending", "online_paid", "fully_paid"},
             payments : Seq({"pending", "completed"})]
HookRow == [order : {0} \cup Submits, nth : 0..MaxPayments,
            status : {"pending", "completed"},
            pay : {"pending", "online_paid", "fully_paid"}]
ResultRow == [order : {0} \cup Submits, total : Nat, held : Nat]

Typed ==
    /\ cart \in CartRow
    /\ asked \in Units
    /\ chain \in [Submits -> ChainRow]
    /\ busy \in {0} \cup Submits
    /\ result \in ResultRow
    /\ addresses \in [Submits -> {"absent", "stored", "removed"}]
    /\ orders \in [Submits -> OrderRow]
    /\ spent \subseteq {"welcome", "promo"}
    /\ hook \in [Hooks -> HookRow]

(* A chain places its order once, and the address of an order stays.       *)
Progress ==
    \A c \in Submits :
        /\ chain[c].step \in {"unused", "address", "order"} => orders[c].pay = "absent"
        /\ chain[c].step = "pay" => orders[c].pay # "absent"
        /\ orders[c].pay = "absent" => orders[c].payments = <<>>
        /\ orders[c].pay # "absent" => addresses[c] = "stored"

(* A notification saw the payment and the order as they still are, and     *)
(* nobody else has their rows.                                             *)
Noticed ==
    /\ \A w \in Hooks : hook[w].order = 0 => hook[w] = Idle
    /\ \A w \in Hooks : hook[w].order # 0 =>
          LET o == orders[hook[w].order] IN
          /\ hook[w].nth \in DOMAIN o.payments
          /\ hook[w].status = o.payments[hook[w].nth] /\ hook[w].pay = o.pay
    /\ \A v, w \in Hooks : hook[v].order = hook[w].order /\ hook[v].order # 0 => v = w

Settled ==
    \A o \in Submits :
        /\ \A m, n \in Completed(o) : m = n
        /\ orders[o].pay = "online_paid" => Completed(o) # {}
        /\ orders[o].pay = "pending" => Completed(o) = {}

Promised(units, code) ==
    Total(units, IF code THEN PromoAmount(Promo, Subtotal(units)) ELSE None)

(* What was shown is what the goods and the code of the chain come to.     *)
Priced ==
    /\ cart.promo # None /\ ~cart.stale =>
          cart.units # None /\ cart.promo = PromoAmount(Promo, Subtotal(cart.units))
    /\ \A c \in Submits :
          chain[c].step \in {"address", "order"} /\ chain[c].shown # None =>
              chain[c].units \in Carts
              /\ chain[c].shown = Promised(chain[c].units, chain[c].code)

IInv == Typed /\ Progress /\ Noticed /\ Settled /\ Priced /\ ThankedForOrder

-----------------------------------------------------------------------------
(* Money.                                                                  *)

(* Goods cost a natural amount.                                            *)
LEMMA SubtotalFacts ==
  ASSUME NEW u \in Nat
  PROVE  Subtotal(u) \in Nat
  BY PurchaseAssumption DEF Subtotal

(* A quotient rounded half away from zero is natural.                      *)
LEMMA RoundFacts ==
  ASSUME NEW a \in Nat
  PROVE  RoundDiv(a, 100) \in Nat
  BY DEF RoundDiv

(* A promo code takes no more than the goods cost.                         *)
LEMMA PromoFacts ==
  ASSUME NEW g \in Nat
  PROVE  PromoAmount(Promo, g) \in Nat /\ PromoAmount(Promo, g) <= g
  <1> DEFINE v == Promo.value
             x == RoundDiv(g * v, 100)
  <1>1. v \in Nat
    BY PurchaseAssumption
  <1>2. g * v \in Nat
    BY <1>1
  <1>3. x \in Nat
    BY <1>2, RoundFacts
  <1>4. PromoAmount(Promo, g) \in {Least(g, x), Least(g, v)}
    BY DEF PromoAmount
  <1> HIDE DEF v, x
  <1> QED BY <1>1, <1>3, <1>4 DEF Least

(* The larger of the two discounts is deducted, so an order is no dearer   *)
(* than its goods less its promo code, and its delivery.                   *)
LEMMA FinalFacts ==
  ASSUME NEW g \in Nat, NEW first \in Nat, NEW promo \in Nat, NEW fee \in Nat,
         first <= g, promo <= g
  PROVE  LET total == FinalTotal(g, DiscountTotal(first, promo), fee) IN
         total \in Nat /\ total <= (g - promo) + fee
  BY DEF FinalTotal, DiscountTotal, Benefit, Greatest

(* What is held of a total is natural.                                     *)
LEMMA HoldFacts ==
  ASSUME NEW total \in Nat
  PROVE  Hold(total) \in Nat
  BY DEF Hold

(* So is the fee of a delivery.                                            *)
LEMMA FeeFacts ==
  ASSUME NEW g \in Nat
  PROVE  DeliveryFee(g, FreeFrom, Fee) \in Nat
  BY PurchaseAssumption DEF DeliveryFee

(* The welcome discount takes no more than the goods cost.                 *)
LEMMA WelcomeFacts ==
  ASSUME NEW g \in Nat, NEW used
  PROVE  LET welcome == WelcomeAmount(Gift, "welcome" \in used, g) IN
         welcome \in Nat /\ welcome <= g
  BY PurchaseAssumption DEF WelcomeAmount, Least

(* What the checkout shows is an amount.                                   *)
LEMMA TotalFacts ==
  ASSUME NEW u \in Nat, NEW p \in Nat \cup {None}
  PROVE  Total(u, p) \in Int
  BY SubtotalFacts, FeeFacts, PurchaseAssumption DEF Total

-----------------------------------------------------------------------------
(* Payments of an order.                                                   *)

OrderKept(o) ==
    /\ orders'[o].total = orders[o].total /\ orders'[o].pay = orders[o].pay
    /\ orders[o].payments # <<>> => orders'[o].payments # <<>>

(* A new payment is pending, and changes nothing of the order.             *)
LEMMA NewPaymentFacts ==
  ASSUME Typed, NEW o \in Submits, NewPayment(o)
  PROVE  /\ orders' \in [Submits -> OrderRow]
         /\ \A p \in Submits \ {o} : orders'[p] = orders[p]
         /\ OrderKept(o) /\ orders'[o].payments # <<>>
         /\ Completed(o)' = Completed(o)
         /\ orders[o].pay # "absent" /\ ~Locked(o)
  <1> DEFINE ps == orders[o].payments
             qs == Append(ps, "pending")
  <1>1. orders[o] \in OrderRow /\ ps \in Seq({"pending", "completed"})
    BY DEF Typed, OrderRow
  <1>2. /\ qs \in Seq({"pending", "completed"}) /\ qs # <<>>
        /\ Len(qs) = Len(ps) + 1 /\ qs[Len(qs)] = "pending"
        /\ \A n \in 1..Len(ps) : qs[n] = ps[n]
    BY <1>1
  <1>3. orders' = [orders EXCEPT ![o].payments = qs]
          /\ orders[o].pay # "absent" /\ ~Locked(o)
    BY DEF NewPayment
  <1> HIDE DEF qs
  <1>4. /\ orders' \in [Submits -> OrderRow]
        /\ \A p \in Submits \ {o} : orders'[p] = orders[p]
        /\ orders'[o].total = orders[o].total /\ orders'[o].pay = orders[o].pay
        /\ orders'[o].payments = qs
    BY <1>1, <1>2, <1>3 DEF Typed, OrderRow
  <1>5. Completed(o)' = Completed(o)
    <2>1. DOMAIN qs = 1..Len(qs) /\ DOMAIN ps = 1..Len(ps) /\ Len(ps) \in Nat
      BY <1>1, <1>2
    <2>2. Completed(o)' = {n \in DOMAIN qs : qs[n] = "completed"}
      BY <1>4 DEF Completed
    <2>3. Completed(o) = {n \in DOMAIN ps : ps[n] = "completed"}
      BY DEF Completed
    <2> HIDE DEF ps
    <2> QED BY <1>2, <2>1, <2>2, <2>3
  <1> QED BY <1>2, <1>3, <1>4, <1>5 DEF OrderKept

(* A confirmation completes one payment of a pending order.                *)
LEMMA CompleteFacts ==
  ASSUME Typed, Noticed, NEW w \in Hooks, Complete(w),
         NEW o, o = hook[w].order, NEW n, n = hook[w].nth
  PROVE  /\ o \in Submits /\ o # 0
         /\ orders' \in [Submits -> OrderRow]
         /\ \A p \in Submits \ {o} : orders'[p] = orders[p]
         /\ orders[o].pay = "pending" /\ orders'[o].pay = "online_paid"
         /\ orders'[o].total = orders[o].total
         /\ orders'[o].payments = [orders[o].payments EXCEPT ![n] = "completed"]
         /\ orders'[o].payments # <<>>
         /\ n \in DOMAIN orders[o].payments
  <1> DEFINE ps == orders[o].payments
             qs == [ps EXCEPT ![n] = "completed"]
  <1>1. o \in Submits /\ o # 0 /\ n \in DOMAIN ps /\ orders[o].pay = "pending"
    BY DEF Typed, HookRow, Noticed, Complete
  <1>2. orders[o] \in OrderRow /\ ps \in Seq({"pending", "completed"})
    BY <1>1 DEF Typed, OrderRow
  <1>3. /\ qs \in Seq({"pending", "completed"}) /\ qs # <<>>
        /\ DOMAIN qs = DOMAIN ps
        /\ \A k \in DOMAIN ps : qs[k] = IF k = n THEN "completed" ELSE ps[k]
    BY <1>1, <1>2
  <1>4. orders' = [orders EXCEPT ![o].payments[n] = "completed", ![o].pay = "online_paid"]
    BY DEF Complete
  <1>5. orders' = [orders EXCEPT ![o] = [orders[o] EXCEPT !.payments = qs,
                                                           !.pay = "online_paid"]]
    BY <1>1, <1>2, <1>4 DEF Typed, OrderRow
  <1> HIDE DEF qs
  <1>6. /\ orders' \in [Submits -> OrderRow]
        /\ \A p \in Submits \ {o} : orders'[p] = orders[p]
        /\ orders'[o].total = orders[o].total /\ orders'[o].pay = "online_paid"
        /\ orders'[o].payments = qs
    <2> DEFINE row == [orders[o] EXCEPT !.payments = qs, !.pay = "online_paid"]
    <2>1. /\ row \in OrderRow /\ row.total = orders[o].total
          /\ row.pay = "online_paid" /\ row.payments = qs
      BY <1>2, <1>3 DEF OrderRow
    <2>2. orders \in [Submits -> OrderRow]
      BY DEF Typed
    <2> HIDE DEF row
    <2> QED BY <1>1, <1>5, <2>1, <2>2 DEF row
  <1> QED BY <1>1, <1>3, <1>6 DEF qs

-----------------------------------------------------------------------------
(* The cart and the checkout page.                                         *)

(* What the server knows is untouched while it is not asked.               *)
LEMMA ServerKept ==
  ASSUME IInv, UNCHANGED <<result, addresses, orders, hook>>
  PROVE  Noticed' /\ Settled' /\ ThankedForOrder'
  BY DEF IInv, Noticed, Settled, ThankedForOrder, Thanked, Completed

(* A step of the shop.                                                     *)
LEMMA ShopKept ==
  ASSUME IInv, UNCHANGED <<chain, result, addresses, orders, spent, hook>>,
         cart' \in CartRow, asked' \in Units, busy' \in {0} \cup Submits,
         cart'.promo # None /\ ~cart'.stale =>
            cart'.units # None /\ cart'.promo = PromoAmount(Promo, Subtotal(cart'.units))
  PROVE  IInv'
  <1>1. Typed' /\ Progress'
    BY DEF IInv, Typed, Progress
  <1>2. Priced'
    BY DEF IInv, Priced, Promised, Total, Subtotal
  <1> QED BY <1>1, <1>2, ServerKept DEF IInv

(* An emptied line has no code.                                            *)
LEMMA EmptyFacts ==
  ASSUME NEW u \in Units
  PROVE  /\ [EmptyCart EXCEPT !.units = u] \in CartRow
         /\ [EmptyCart EXCEPT !.units = u].promo = None
  <1>0. EmptyCart \in CartRow /\ EmptyCart.promo = None
    BY DEF EmptyCart, CartRow, Units
  <1>1. PICK r \in CartRow : r = EmptyCart /\ r.promo = None
    BY <1>0
  <1>2. [r EXCEPT !.units = u] \in CartRow /\ [r EXCEPT !.units = u].promo = None
    BY <1>1 DEF CartRow
  <1> QED BY <1>1, <1>2

(* Every operation of the cart keeps the invariant.                        *)
LEMMA ShopStep ==
  ASSUME IInv,
         \/ AddProduct \/ RemoveProduct
         \/ \E units \in Requested : UpdateQuantity(units)
         \/ Retype \/ Apply \/ Validated \/ NotValidated \/ Leave
  PROVE  IInv'
  <1>0. cart \in CartRow /\ asked \in Units /\ busy \in {0} \cup Submits /\ cart.units \in Units
    BY DEF IInv, Typed, CartRow
  <1>a. ASSUME NEW u \in Units, Change(u)
        PROVE  IInv'
    BY <1>0, <1>a, EmptyFacts, ShopKept DEF Change
  <1>1. CASE AddProduct
    BY <1>1, <1>a DEF AddProduct, Units
  <1>2. CASE RemoveProduct
    BY <1>2, <1>a DEF RemoveProduct, Units
  <1>3. CASE \E units \in Requested : UpdateQuantity(units)
    BY <1>3, <1>a DEF UpdateQuantity, Requested, Units
  <1>4. CASE Retype
    BY <1>0, <1>4, EmptyFacts, ShopKept DEF Retype
  <1>5. CASE Apply
    BY <1>0, <1>5, ShopKept DEF Apply, IInv, Priced
  <1>6. CASE Validated
    <2> DEFINE amount == PromoAmount(Promo, Subtotal(asked))
    <2>1. asked \in Nat /\ asked # None /\ asked' \in Units
      BY <1>0, <1>6, PurchaseAssumption DEF Validated, Units
    <2>2. amount \in Nat /\ amount # None
      BY <2>1, SubtotalFacts, PromoFacts, PurchaseAssumption
    <2>3. UNCHANGED <<chain, busy, result, addresses, orders, spent, hook>>
      BY <1>6 DEF Validated
    <2>4. CASE cart' = [cart EXCEPT !.promo = amount, !.stale = asked # cart.units]
      <3>1. /\ cart' \in CartRow /\ cart'.promo = amount
            /\ cart'.units = cart.units /\ cart'.stale = (asked # cart.units)
        BY <1>0, <2>2, <2>4 DEF CartRow
      <3> HIDE DEF amount
      <3>2. ~cart'.stale => cart'.units = asked
        BY <3>1
      <3> QED BY <1>0, <2>1, <2>3, <3>1, <3>2, ShopKept DEF amount
    <2>5. CASE cart' = [cart EXCEPT !.promo = None, !.stale = FALSE]
      <3>1. cart' \in CartRow /\ cart'.promo = None
        BY <1>0, <2>5 DEF CartRow
      <3> QED BY <1>0, <2>1, <2>3, <3>1, ShopKept
    <2> QED BY <1>6, <2>4, <2>5 DEF Validated
  <1>7. CASE NotValidated
    BY <1>0, <1>7, ShopKept DEF NotValidated, IInv, Priced, Units
  <1>8. CASE Leave
    BY <1>0, <1>8, ShopKept DEF Leave, IInv, Priced
  <1> QED BY <1>1, <1>2, <1>3, <1>4, <1>5, <1>6, <1>7, <1>8

(* Steps of a chain that the server does not see.                          *)
LEMMA ChainKept ==
  ASSUME IInv, UNCHANGED <<cart, result, addresses, orders, spent, hook>>,
         asked' \in Units, busy' \in {0} \cup Submits,
         chain' \in [Submits -> ChainRow],
         \A c \in Submits :
            \/ /\ chain'[c].step = chain[c].step /\ chain'[c].shown = chain[c].shown
               /\ chain'[c].units = chain[c].units /\ chain'[c].code = chain[c].code
            \/ chain'[c].step = "ended"
            \/ /\ chain[c].step = "unused" /\ chain'[c].step = "address"
               /\ chain'[c].shown # None =>
                    chain'[c].units \in Carts
                    /\ chain'[c].shown = Promised(chain'[c].units, chain'[c].code)
  PROVE  IInv'
  <1>1. Typed'
    BY DEF IInv, Typed
  <1>2. Progress'
    BY DEF IInv, Progress
  <1>3. Priced'
    BY DEF IInv, Priced, Promised, Total, Subtotal
  <1> QED BY <1>1, <1>2, <1>3, ServerKept DEF IInv

(* What a submitted checkout is shown comes from its own goods and code.   *)
LEMMA CapturedFacts ==
  ASSUME IInv, MaySubmit
  PROVE  /\ Captured \in ChainRow /\ Captured.step = "address"
         /\ Captured.shown # None =>
               Captured.units \in Carts
               /\ Captured.shown = Promised(Captured.units, Captured.code)
  <1>1. cart \in CartRow /\ cart.units \in Carts /\ cart.units \in Nat
    BY PurchaseAssumption DEF IInv, Typed, CartRow, Units, MaySubmit
  <1>2. cart.promo \in Nat \cup {None} /\ cart.stale \in BOOLEAN
    BY <1>1 DEF CartRow
  <1>3. Shown \in Int
    BY <1>1, <1>2, TotalFacts DEF Shown
  <1>4. ~cart.stale => Shown = Promised(cart.units, cart.promo # None)
    BY DEF Shown, Promised, IInv, Priced
  <1> DEFINE units == cart.units
             code == cart.promo # None
             shown == IF cart.stale THEN None ELSE Shown
  <1>5. code \in BOOLEAN /\ shown \in Int \cup {None}
    BY <1>3
  <1>6. shown # None => shown = Promised(units, code)
    BY <1>4
  <1>7. Captured = [step |-> "address", heard |-> TRUE, units |-> units,
                    code |-> code, shown |-> shown]
    BY DEF Captured
  <1> HIDE DEF units, code, shown
  <1>8. units \in Carts
    BY <1>1 DEF units
  <1> QED BY <1>5, <1>6, <1>7, <1>8 DEF ChainRow

(* A chain that ended is a chain.                                          *)
LEMMA EndedFacts ==
  Ended \in ChainRow /\ Ended.step = "ended"
  BY DEF Ended, Unused, ChainRow

(* Every step of the checkout page keeps the invariant.                    *)
LEMMA PageStep ==
  ASSUME IInv, Reload \/ \E c \in Submits : Submit(c) \/ Timeout(c) \/ Refuse(c)
  PROVE  IInv'
  <1>0. /\ chain \in [Submits -> ChainRow] /\ asked \in Units /\ busy \in {0} \cup Submits
        /\ None \in Units
    BY DEF IInv, Typed, Units
  <1>1. CASE Reload
    <2>1. /\ chain' \in [Submits -> ChainRow]
          /\ \A c \in Submits :
                /\ chain'[c].step = chain[c].step /\ chain'[c].shown = chain[c].shown
                /\ chain'[c].units = chain[c].units /\ chain'[c].code = chain[c].code
      BY <1>0, <1>1 DEF Reload, ChainRow
    <2> QED BY <1>0, <1>1, <2>1, ChainKept DEF Reload
  <1>2. ASSUME NEW c \in Submits, Submit(c)
        PROVE  IInv'
    <2>1. chain' = [chain EXCEPT ![c] = Captured] /\ MaySubmit /\ chain[c].step = "unused"
      BY <1>2 DEF Submit
    <2>2. chain' \in [Submits -> ChainRow] /\ chain'[c] = Captured
            /\ \A d \in Submits \ {c} : chain'[d] = chain[d]
      BY <1>0, <2>1, CapturedFacts
    <2> QED BY <1>0, <1>2, <2>1, <2>2, CapturedFacts, ChainKept DEF Submit
  <1>3. ASSUME NEW c \in Submits, Timeout(c)
        PROVE  IInv'
    <2>1. /\ chain' \in [Submits -> ChainRow]
          /\ \A d \in Submits :
                /\ chain'[d].step = chain[d].step /\ chain'[d].shown = chain[d].shown
                /\ chain'[d].units = chain[d].units /\ chain'[d].code = chain[d].code
      BY <1>0, <1>3 DEF Timeout, ChainRow
    <2> QED BY <1>0, <1>3, <2>1, ChainKept DEF Timeout, Release
  <1>4. ASSUME NEW c \in Submits, Refuse(c)
        PROVE  IInv'
    <2>1. /\ chain' \in [Submits -> ChainRow] /\ chain'[c].step = "ended"
          /\ \A d \in Submits \ {c} : chain'[d] = chain[d]
      BY <1>0, <1>4, EndedFacts DEF Refuse
    <2> QED BY <1>0, <1>4, <2>1, ChainKept DEF Refuse, Release
  <1> QED BY <1>1, <1>2, <1>3, <1>4

-----------------------------------------------------------------------------
(* The server.                                                             *)

(* A chain that goes on or ends leaves the others alone.                   *)
LEMMA GoOnFacts ==
  ASSUME Typed, NEW c \in Submits, NEW next \in ChainRow, GoOn(c, next)
  PROVE  /\ chain' \in [Submits -> ChainRow]
         /\ chain'[c] = next \/ chain'[c].step = "ended"
         /\ \A d \in Submits \ {c} : chain'[d] = chain[d]
  BY EndedFacts DEF GoOn, Typed

(* The address of a checkout is stored; the chain goes on or ends.         *)
LEMMA AddAddressStep ==
  ASSUME IInv, NEW c \in Submits, AddAddress(c)
  PROVE  IInv'
  <1> DEFINE next == [chain[c] EXCEPT !.step = "order"]
  <1>1. chain[c] \in ChainRow /\ Typed
    BY DEF IInv, Typed
  <1>2. /\ next \in ChainRow /\ next.step = "order" /\ next.shown = chain[c].shown
        /\ next.units = chain[c].units /\ next.code = chain[c].code
    BY <1>1 DEF ChainRow
  <1>3. /\ GoOn(c, next) /\ chain[c].step = "address"
        /\ addresses' = [addresses EXCEPT ![c] = "stored"]
        /\ UNCHANGED <<cart, asked, busy, result, orders, spent, hook>>
    BY DEF AddAddress, client
  <1> HIDE DEF next
  <1>4. /\ chain' \in [Submits -> ChainRow]
        /\ chain'[c] = next \/ chain'[c].step = "ended"
        /\ \A d \in Submits \ {c} : chain'[d] = chain[d]
    BY <1>1, <1>2, <1>3, GoOnFacts
  <1>5. Typed'
    BY <1>1, <1>3, <1>4 DEF Typed
  <1>6. Progress'
    BY <1>2, <1>3, <1>4 DEF IInv, Typed, Progress
  <1>7. Priced'
    BY <1>2, <1>3, <1>4 DEF IInv, Priced, Promised, Total, Subtotal
  <1>8. Noticed' /\ Settled'
    BY <1>3 DEF IInv, Noticed, Settled, Completed
  <1>9. ThankedForOrder'
    BY <1>1, <1>3 DEF IInv, Typed, ThankedForOrder, Thanked, ResultRow
  <1> QED BY <1>5, <1>6, <1>7, <1>8, <1>9 DEF IInv

(* An address that is removed is that of no order.                         *)
LEMMA RemoveAddressStep ==
  ASSUME IInv, NEW c \in Submits, RemoveAddress(c)
  PROVE  IInv'
  <1>1. /\ orders[c].pay = "absent" /\ addresses' = [addresses EXCEPT ![c] = "removed"]
        /\ UNCHANGED <<cart, asked, busy, result, chain, orders, spent, hook>>
    BY DEF RemoveAddress, client
  <1>2. Typed' /\ Progress'
    BY <1>1 DEF IInv, Typed, Progress
  <1>3. Priced'
    BY <1>1 DEF IInv, Priced, Promised, Total, Subtotal
  <1>4. Noticed' /\ Settled'
    BY <1>1 DEF IInv, Noticed, Settled, Completed
  <1>5. ThankedForOrder'
    BY <1>1 DEF IInv, Typed, ThankedForOrder, Thanked, ResultRow
  <1> QED BY <1>2, <1>3, <1>4, <1>5 DEF IInv

(* The order that Place inserts.                                           *)
LEMMA PlaceFacts ==
  ASSUME IInv, NEW c \in Submits, Place(c)
  PROVE  \E total \in Nat :
            /\ orders' = [orders EXCEPT ![c] = [total |-> total, pay |-> "pending",
                                                payments |-> <<>>]]
            /\ chain[c].shown # None => total <= chain[c].shown
  <1> DEFINE units == chain[c].units
             goods == Subtotal(units)
             first == WelcomeAmount(Gift, "welcome" \in spent, goods)
             promo == IF chain[c].code THEN PromoAmount(Promo, goods) ELSE 0
             fee == DeliveryFee(goods, FreeFrom, Fee)
             total == FinalTotal(goods, DiscountTotal(first, promo), fee)
  <1>1. units \in Nat /\ goods \in Nat
    <2>1. chain[c] \in ChainRow
      BY DEF IInv, Typed
    <2>2. units \in Carts \cup {0}
      BY <2>1 DEF ChainRow
    <2> HIDE DEF units
    <2>3. units \in Nat
      BY <2>2, PurchaseAssumption
    <2>4. Price * units \in Nat
      BY <2>3, PurchaseAssumption
    <2>5. goods = Price * units
      BY DEF Subtotal
    <2> QED BY <2>3, <2>4, <2>5
  <1>2. /\ first \in Nat /\ first <= goods /\ promo \in Nat /\ promo <= goods
        /\ fee \in Nat
    <2>1. PICK g \in Nat : g = goods
      BY <1>1
    <2> HIDE DEF goods
    <2>2. PICK used : used = spent
      OBVIOUS
    <2>3. /\ WelcomeAmount(Gift, "welcome" \in used, g) \in Nat
          /\ WelcomeAmount(Gift, "welcome" \in used, g) <= g
      BY WelcomeFacts
    <2>4. PromoAmount(Promo, g) \in Nat /\ PromoAmount(Promo, g) <= g
      BY PromoFacts
    <2>5. DeliveryFee(g, FreeFrom, Fee) \in Nat
      BY FeeFacts
    <2>6. first \in Nat /\ first <= goods
      BY <2>1, <2>2, <2>3
    <2>7. promo \in Nat /\ promo <= goods
      BY <2>1, <2>4
    <2>8. fee \in Nat
      BY <2>1, <2>5
    <2> QED BY <2>6, <2>7, <2>8
  <1>3. orders' = [orders EXCEPT ![c] = [total |-> total, pay |-> "pending",
                                         payments |-> <<>>]]
    BY DEF Place
  <1>4. chain[c].shown # None => chain[c].shown = (goods - promo) + fee
    <2>1. chain[c].shown # None => chain[c].shown = Promised(units, chain[c].code)
      BY DEF IInv, Priced, Place
    <2>2. chain[c].code => PromoAmount(Promo, goods) # None
      BY <1>1, PromoFacts, PurchaseAssumption
    <2>3. Promised(units, chain[c].code) = (goods - promo) + fee
      BY <2>2 DEF Promised, Total
    <2> QED BY <2>1, <2>3
  <1>5. total \in Nat /\ total <= (goods - promo) + fee
    <2> HIDE DEF goods, first, promo, fee, units
    <2> QED BY <1>1, <1>2, FinalFacts
  <1> HIDE DEF total, goods, first, promo, fee, units
  <1> QED BY <1>3, <1>4, <1>5

(* A placed order was absent, so nothing referred to it.                   *)
LEMMA PlaceStep ==
  ASSUME IInv, NEW c \in Submits, Place(c)
  PROVE  IInv'
  <1>1. PICK total \in Nat :
           orders' = [orders EXCEPT ![c] = [total |-> total, pay |-> "pending",
                                            payments |-> <<>>]]
    BY PlaceFacts
  <1> DEFINE order == [total |-> total, pay |-> "pending", payments |-> <<>>]
             next == [Unused EXCEPT !.step = "pay", !.heard = TRUE]
  <1>2. order \in OrderRow /\ order.pay = "pending" /\ order.payments = <<>>
    BY DEF OrderRow
  <1>3. next \in ChainRow /\ next.step = "pay"
    BY DEF ChainRow, Unused
  <1>4. /\ GoOn(c, next) /\ chain[c].step = "order" /\ addresses[c] = "stored"
        /\ spent' \subseteq {"welcome", "promo"}
        /\ UNCHANGED <<cart, asked, busy, result, addresses, hook>>
    BY DEF Place, client, IInv, Typed, Benefit
  <1> HIDE DEF order, next
  <1>5. /\ chain' \in [Submits -> ChainRow]
        /\ chain'[c] = next \/ chain'[c].step = "ended"
        /\ \A d \in Submits \ {c} : chain'[d] = chain[d]
    BY <1>3, <1>4, GoOnFacts DEF IInv
  <1>6. /\ orders' \in [Submits -> OrderRow] /\ orders'[c] = order
        /\ \A d \in Submits \ {c} : orders'[d] = orders[d]
    BY <1>1, <1>2 DEF IInv, Typed, order
  <1>7. orders[c].pay = "absent" /\ orders[c].payments = <<>>
    BY <1>4 DEF IInv, Progress
  <1>8. Typed'
    BY <1>4, <1>5, <1>6 DEF IInv, Typed
  <1>9. Progress'
    BY <1>2, <1>3, <1>4, <1>5, <1>6 DEF IInv, Progress
  <1>10. Priced'
    BY <1>3, <1>4, <1>5 DEF IInv, Priced, Promised, Total, Subtotal
  <1>11. Noticed'
    <2>1. \A w \in Hooks : hook[w].order # c \/ hook[w].order = 0
      BY <1>7 DEF IInv, Noticed
    <2>2. 0 \notin Submits
      BY DEF Submits
    <2> QED BY <1>4, <1>6, <2>1, <2>2 DEF IInv, Noticed, Typed, HookRow
  <1>12. Settled'
    BY <1>2, <1>6 DEF IInv, Settled, Completed
  <1>13. ThankedForOrder'
    BY <1>4, <1>6, <1>7 DEF IInv, Typed, ThankedForOrder, Thanked, ResultRow
  <1> QED BY <1>8, <1>9, <1>10, <1>11, <1>12, <1>13 DEF IInv

(* A new payment keeps what is known of orders and notifications.          *)
LEMMA PaymentKept ==
  ASSUME IInv, NEW o \in Submits, NewPayment(o), UNCHANGED <<addresses, hook>>
  PROVE  Noticed' /\ Settled'
  <1>1. /\ orders' \in [Submits -> OrderRow]
        /\ \A p \in Submits \ {o} : orders'[p] = orders[p]
        /\ orders'[o].pay = orders[o].pay
        /\ Completed(o)' = Completed(o) /\ ~Locked(o)
    BY NewPaymentFacts DEF IInv, OrderKept
  <1>2. Settled'
    <2>1. \A p \in Submits : Completed(p)' = Completed(p) /\ orders'[p].pay = orders[p].pay
      BY <1>1 DEF Completed
    <2> QED BY <2>1 DEF IInv, Settled
  <1>3. \A w \in Hooks : hook[w].order # o
    BY <1>1 DEF Locked
  <1>4. Noticed'
    BY <1>1, <1>3 DEF IInv, Noticed, Typed, HookRow
  <1> QED BY <1>2, <1>4

(* The customer is thanked, or the payment is made unseen, or once more.   *)
LEMMA PayStep ==
  ASSUME IInv, NEW c \in Submits, Pay(c) \/ PayUnheard(c) \/ PayAgain(c)
  PROVE  IInv'
  <1>1. /\ NewPayment(c) /\ UNCHANGED <<addresses, hook, spent>>
        /\ chain' = chain \/ chain' = [chain EXCEPT ![c] = Ended]
    BY DEF Pay, PayUnheard, PayAgain
  <1>2. /\ orders' \in [Submits -> OrderRow]
        /\ \A p \in Submits \ {c} : orders'[p] = orders[p]
        /\ OrderKept(c) /\ orders'[c].payments # <<>> /\ orders[c].pay # "absent"
    BY <1>1, NewPaymentFacts DEF IInv
  <1>3. Noticed' /\ Settled'
    BY <1>1, PaymentKept
  <1>4. /\ chain' \in [Submits -> ChainRow]
        /\ \A d \in Submits : chain'[d] = chain[d] \/ chain'[d].step = "ended"
    BY <1>1, EndedFacts DEF IInv, Typed
  <1>5. Progress'
    BY <1>1, <1>2, <1>4 DEF IInv, Progress, OrderKept
  <1>6. \A d \in Submits :
            /\ orders'[d].pay = orders[d].pay /\ orders'[d].total = orders[d].total
            /\ orders[d].payments # <<>> => orders'[d].payments # <<>>
    BY <1>2 DEF OrderKept
  <1>7. CASE Pay(c)
    <2>1. /\ Thank(c) /\ cart' = EmptyCart /\ Release(c) /\ UNCHANGED asked
      BY <1>7 DEF Pay
    <2>2. EmptyCart \in CartRow /\ EmptyCart.promo = None
      BY DEF EmptyCart, CartRow, Units
    <2>3. orders[c].total \in Nat /\ Hold(orders[c].total) \in Nat
      <3>1. PICK total \in Nat : total = orders[c].total
        BY DEF IInv, Typed, OrderRow
      <3>2. Hold(total) \in Nat
        BY HoldFacts
      <3> QED BY <3>1, <3>2
    <2>4. result' \in ResultRow /\ result'.order = c /\ result'.total = orders[c].total
            /\ result'.held = Hold(orders[c].total)
      BY <2>1, <2>3 DEF Thank, ResultRow
    <2>5. Typed'
      BY <1>1, <1>2, <1>4, <2>1, <2>2, <2>4 DEF IInv, Typed, Release
    <2>6. Priced'
      BY <1>4, <2>1, <2>2 DEF IInv, Priced, Promised, Total, Subtotal
    <2>7. ThankedForOrder'
      BY <1>1, <1>2, <1>6, <2>4 DEF IInv, Progress, ThankedForOrder, Thanked
    <2> QED BY <1>3, <1>5, <2>5, <2>6, <2>7 DEF IInv
  <1>8. CASE PayUnheard(c) \/ PayAgain(c)
    <2>1. UNCHANGED <<cart, asked, busy, result>>
      BY <1>8 DEF PayUnheard, PayAgain, client
    <2>2. Typed'
      BY <1>1, <1>2, <1>4, <2>1 DEF IInv, Typed
    <2>3. Priced'
      BY <1>4, <2>1 DEF IInv, Priced, Promised, Total, Subtotal
    <2>4. ThankedForOrder'
      BY <1>1, <1>6, <2>1 DEF IInv, Typed, ThankedForOrder, Thanked, ResultRow
    <2> QED BY <1>3, <1>5, <2>2, <2>3, <2>4 DEF IInv
  <1> QED BY <1>7, <1>8

-----------------------------------------------------------------------------
(* The notifications, and the courier.                                     *)

(* What is told of notifications and orders is not the pages' concern.     *)
LEMMA PagesKept ==
  ASSUME IInv, UNCHANGED <<cart, asked, busy, result, chain, addresses, spent>>,
         orders' \in [Submits -> OrderRow], hook' \in [Hooks -> HookRow],
         \A o \in Submits :
            \/ orders'[o] = orders[o]
            \/ /\ orders[o].pay # "absent" /\ orders'[o].pay # "absent"
               /\ orders'[o].total = orders[o].total
               /\ orders[o].payments # <<>> => orders'[o].payments # <<>>
  PROVE  Typed' /\ Progress' /\ Priced' /\ ThankedForOrder'
  <1>1. Typed'
    BY DEF IInv, Typed
  <1>2. Progress'
    BY DEF IInv, Progress
  <1>3. Priced'
    BY DEF IInv, Priced, Promised, Total, Subtotal
  <1>4. ThankedForOrder'
    <2>1. result.order \in {0} \cup Submits
      BY DEF IInv, Typed, ResultRow
    <2> QED BY <2>1 DEF IInv, ThankedForOrder, Thanked
  <1> QED BY <1>1, <1>2, <1>3, <1>4

(* A worker that is idle again frees the rows it had.                      *)
LEMMA FreedStep ==
  ASSUME IInv, NEW w \in Hooks, hook' = [hook EXCEPT ![w] = Idle],
         UNCHANGED <<client, chain, addresses, orders, spent>>
  PROVE  IInv'
  <1>1. Idle \in HookRow /\ Idle.order = 0
    BY PurchaseAssumption DEF Idle, HookRow
  <1>2. /\ hook' \in [Hooks -> HookRow] /\ hook'[w] = Idle
        /\ \A v \in Hooks \ {w} : hook'[v] = hook[v]
    BY <1>1 DEF IInv, Typed
  <1>3. Noticed'
    BY <1>1, <1>2 DEF IInv, Noticed
  <1>4. Settled'
    BY DEF IInv, Settled, Completed
  <1>5. Typed' /\ Progress' /\ Priced' /\ ThankedForOrder'
    BY <1>2, PagesKept DEF client, IInv, Typed
  <1> QED BY <1>3, <1>4, <1>5 DEF IInv

(* A notification gets the rows that nobody has.                           *)
LEMMA NotifiedStep ==
  ASSUME IInv, NEW w \in Hooks, NEW o \in Submits, NEW nth \in 1..MaxPayments,
         Notified(w, o, nth)
  PROVE  IInv'
  <1> DEFINE ps == orders[o].payments
             row == [order |-> o, nth |-> nth, pay |-> orders[o].pay, status |-> ps[nth]]
  <1>1. /\ hook[w] = Idle /\ nth \in DOMAIN ps /\ ~Locked(o)
        /\ hook' = [hook EXCEPT ![w] = row]
        /\ UNCHANGED <<cart, asked, busy, result, chain, addresses, orders, spent>>
    BY DEF Notified, client
  <1>2. ps \in Seq({"pending", "completed"}) /\ orders[o] \in OrderRow
    BY DEF IInv, Typed, OrderRow
  <1>3. ps[nth] \in {"pending", "completed"}
    BY <1>1, <1>2
  <1>4. orders[o].pay # "absent"
    <2>1. ps # <<>>
      BY <1>1
    <2> QED BY <2>1 DEF IInv, Progress
  <1>5. /\ row \in HookRow /\ row.order = o /\ row.nth = nth /\ row.pay = orders[o].pay
        /\ row.status = ps[nth]
    BY <1>2, <1>3, <1>4, PurchaseAssumption DEF HookRow, OrderRow
  <1>6. o # 0
    BY DEF Submits
  <1> HIDE DEF row
  <1>7. /\ hook' \in [Hooks -> HookRow] /\ hook'[w] = row
        /\ \A v \in Hooks \ {w} : hook'[v] = hook[v]
    BY <1>1, <1>5 DEF IInv, Typed
  <1>8. Noticed'
    <2>1. \A v \in Hooks \ {w} : hook'[v].order # o
      BY <1>1, <1>7 DEF Locked
    <2>2. \A v \in Hooks : hook'[v].order = 0 => hook'[v] = Idle
      BY <1>5, <1>6, <1>7 DEF IInv, Noticed
    <2>3. \A v \in Hooks : hook'[v].order # 0 =>
             LET q == orders[hook'[v].order] IN
             /\ hook'[v].nth \in DOMAIN q.payments
             /\ hook'[v].status = q.payments[hook'[v].nth] /\ hook'[v].pay = q.pay
      BY <1>1, <1>5, <1>7 DEF IInv, Noticed
    <2>4. \A v, x \in Hooks : hook'[v].order = hook'[x].order /\ hook'[v].order # 0 => v = x
      BY <1>5, <1>7, <2>1 DEF IInv, Noticed
    <2> QED BY <1>1, <2>2, <2>3, <2>4 DEF Noticed
  <1>9. Settled'
    BY <1>1 DEF IInv, Settled, Completed
  <1>10. Typed' /\ Progress' /\ Priced' /\ ThankedForOrder'
    BY <1>1, <1>7, PagesKept DEF IInv, Typed
  <1> QED BY <1>8, <1>9, <1>10 DEF IInv

(* The first confirmation of an order completes its only payment: the      *)
(* others find the order paid.                                             *)
LEMMA CompleteStep ==
  ASSUME IInv, NEW w \in Hooks, Complete(w)
  PROVE  IInv'
  <1>1. PICK o, n : o = hook[w].order /\ n = hook[w].nth
    OBVIOUS
  <1>2. /\ o \in Submits /\ o # 0
        /\ orders' \in [Submits -> OrderRow]
        /\ \A p \in Submits \ {o} : orders'[p] = orders[p]
        /\ orders[o].pay = "pending" /\ orders'[o].pay = "online_paid"
        /\ orders'[o].total = orders[o].total
        /\ orders'[o].payments # <<>>
        /\ Completed(o)' = Completed(o) \cup {n}
    <2>1. Typed /\ Noticed /\ Complete(w)
      BY DEF IInv
    <2>2. o \in Submits /\ o # 0 /\ orders[o].pay = "pending"
      BY <1>1, <2>1, CompleteFacts
    <2>3. /\ orders' \in [Submits -> OrderRow]
          /\ \A p \in Submits \ {o} : orders'[p] = orders[p]
          /\ orders'[o].pay = "online_paid" /\ orders'[o].total = orders[o].total
          /\ orders'[o].payments # <<>>
      BY <1>1, <2>1, CompleteFacts
    <2>4. /\ orders'[o].payments = [orders[o].payments EXCEPT ![n] = "completed"]
          /\ n \in DOMAIN orders[o].payments
      BY <1>1, <2>1, CompleteFacts
    <2>5. orders[o].payments \in Seq({"pending", "completed"})
      BY <2>1, <2>2 DEF Typed, OrderRow
    <2>6. Completed(o)' = Completed(o) \cup {n}
      BY <2>4, <2>5 DEF Completed
    <2> QED BY <2>2, <2>3, <2>6
  <1>3. /\ hook' = [hook EXCEPT ![w] = Idle]
        /\ UNCHANGED <<cart, asked, busy, result, chain, addresses, spent>>
    BY DEF Complete, client
  <1>4. Idle \in HookRow /\ Idle.order = 0
    BY PurchaseAssumption DEF Idle, HookRow
  <1>5. /\ hook' \in [Hooks -> HookRow] /\ hook'[w] = Idle
        /\ \A v \in Hooks \ {w} : hook'[v] = hook[v] /\ (hook[v].order = 0 \/ hook[v].order # o)
    BY <1>1, <1>2, <1>3, <1>4 DEF IInv, Typed, Noticed
  <1>6. Noticed'
    <2>1. \A v \in Hooks \ {w} : hook[v].order # 0 =>
              hook[v].order \in Submits /\ orders'[hook[v].order] = orders[hook[v].order]
      BY <1>2, <1>5 DEF IInv, Typed, HookRow
    <2> QED BY <1>4, <1>5, <2>1 DEF IInv, Noticed
  <1>7. Settled'
    <2>1. Completed(o)' = {n}
      BY <1>2 DEF IInv, Settled
    <2>2. \A p \in Submits \ {o} : Completed(p)' = Completed(p)
      BY <1>2 DEF Completed
    <2> QED BY <1>2, <2>1, <2>2 DEF IInv, Settled
  <1>8. Typed' /\ Progress' /\ Priced' /\ ThankedForOrder'
    BY <1>2, <1>3, <1>5, PagesKept
  <1> QED BY <1>6, <1>7, <1>8 DEF IInv

(* A delivered order is paid, and nobody was waiting to confirm it.        *)
LEMMA DeliverStep ==
  ASSUME IInv, NEW o \in Submits, Deliver(o)
  PROVE  IInv'
  <1>1. /\ orders[o].pay # "absent" /\ ~Locked(o)
        /\ orders' = [orders EXCEPT ![o].pay = "fully_paid"]
        /\ UNCHANGED <<cart, asked, busy, result, chain, addresses, spent, hook>>
    BY DEF Deliver, client
  <1>2. /\ orders' \in [Submits -> OrderRow]
        /\ \A p \in Submits \ {o} : orders'[p] = orders[p]
        /\ orders'[o].pay = "fully_paid" /\ orders'[o].total = orders[o].total
        /\ orders'[o].payments = orders[o].payments
    BY <1>1 DEF IInv, Typed, OrderRow
  <1>3. \A w \in Hooks : hook[w].order # o
    BY <1>1 DEF Locked
  <1>4. Noticed'
    BY <1>1, <1>2, <1>3 DEF IInv, Noticed, Typed, HookRow
  <1>5. Settled'
    <2>1. \A p \in Submits : Completed(p)' = Completed(p)
      BY <1>2 DEF Completed
    <2> QED BY <1>2, <2>1 DEF IInv, Settled
  <1>6. Typed' /\ Progress' /\ Priced' /\ ThankedForOrder'
    BY <1>1, <1>2, PagesKept DEF IInv, Typed
  <1> QED BY <1>4, <1>5, <1>6 DEF IInv

-----------------------------------------------------------------------------
(* The invariant.                                                          *)

(* A shop nobody has visited satisfies it.                                 *)
LEMMA InitFacts == Init => IInv
  <1> SUFFICES ASSUME Init PROVE IInv
    OBVIOUS
  <1>1. Typed
    <2>1. EmptyCart \in CartRow /\ NoResult \in ResultRow /\ Unused \in ChainRow
      BY DEF EmptyCart, CartRow, Units, NoResult, ResultRow, Unused, ChainRow
    <2>2. NoOrder \in OrderRow
      BY DEF NoOrder, OrderRow
    <2>3. Idle \in HookRow
      BY PurchaseAssumption DEF Idle, HookRow
    <2> QED BY <2>1, <2>2, <2>3 DEF Init, Typed, Units
  <1>2. \A c \in Submits : orders[c].pay = "absent" /\ orders[c].payments = <<>>
                           /\ chain[c].step = "unused"
    BY DEF Init, NoOrder, Unused
  <1>3. Progress
    BY <1>2 DEF Progress
  <1>4. Noticed
    BY DEF Init, Noticed, Idle
  <1>5. Settled
    BY <1>2 DEF Settled, Completed
  <1>6. Priced
    BY <1>2 DEF Init, Priced, EmptyCart
  <1>7. ThankedForOrder
    BY DEF Init, ThankedForOrder, Thanked, NoResult
  <1> QED BY <1>1, <1>3, <1>4, <1>5, <1>6, <1>7 DEF IInv

(* Every step keeps it.                                                    *)
LEMMA NextFacts == IInv /\ [Next]_vars => IInv'
  <1> SUFFICES ASSUME IInv, [Next]_vars PROVE IInv'
    OBVIOUS
  <1>1. CASE \/ AddProduct \/ RemoveProduct
             \/ \E units \in Requested : UpdateQuantity(units)
             \/ Retype \/ Apply \/ Validated \/ NotValidated \/ Leave
    BY <1>1, ShopStep
  <1>2. CASE Reload \/ \E c \in Submits : Submit(c) \/ Timeout(c) \/ Refuse(c)
    BY <1>2, PageStep
  <1>3. CASE \E c \in Submits : Serve(c)
    BY <1>3, AddAddressStep, PlaceStep, PayStep DEF Serve
  <1>4. CASE \E c \in Submits : RemoveAddress(c) \/ PayAgain(c) \/ Deliver(c)
    BY <1>4, RemoveAddressStep, PayStep, DeliverStep
  <1>5. CASE \E w \in Hooks : \E o \in Submits, nth \in 1..MaxPayments : Notified(w, o, nth)
    BY <1>5, NotifiedStep
  <1>6. CASE \E w \in Hooks : Complete(w)
    BY <1>6, CompleteStep
  <1>7. CASE \E w \in Hooks : Dismiss(w) \/ Drop(w)
    BY <1>7, FreedStep DEF Dismiss, Drop
  <1>8. CASE UNCHANGED vars
    BY <1>8, ServerKept DEF vars, client, IInv, Typed, Progress, Priced, Promised, Total, Subtotal
  <1> QED BY <1>1, <1>2, <1>3, <1>4, <1>5, <1>6, <1>7, <1>8 DEF Next

(* Whatever is submitted, paid, repeated or lost: what the tab remembers   *)
(* of its cart and checkouts agrees with what the server stored.           *)
THEOREM PurchaseInductive == Spec => []IInv
  BY InitFacts, NextFacts, PTL DEF Spec

(* Every variable of the purchase keeps its type.                          *)
THEOREM PurchaseTyped == Spec => []TypeOK
  <1>1. IInv => TypeOK
    BY DEF IInv, Typed, TypeOK, CartRow, ChainRow, OrderRow, HookRow, ResultRow
  <1> QED BY <1>1, PurchaseInductive, PTL

(* However confirmations are repeated and overlap with one another and     *)
(* with the courier, an order is paid online once.                         *)
THEOREM OrderPaidOnce == Spec => []PaidOnce
  <1>1. ASSUME NEW S, \A m, n \in S : m = n
        PROVE  Cardinality(S) <= 1
    <2>1. CASE S = {}
      BY <2>1, FS_EmptySet
    <2>2. ASSUME NEW n \in S
          PROVE  Cardinality(S) <= 1
      <3>1. S = {n}
        BY <1>1
      <3>2. Cardinality({n}) = 1
        BY FS_Singleton
      <3> QED BY <3>1, <3>2
    <2> QED BY <2>1, <2>2
  <1>2. IInv => PaidOnce
    <2> SUFFICES ASSUME IInv, NEW o \in Submits
                 PROVE  /\ Cardinality(Completed(o)) <= 1
                        /\ orders[o].pay = "online_paid" => Completed(o) # {}
                        /\ orders[o].pay = "pending" => Completed(o) = {}
      BY DEF PaidOnce
    <2>1. \A m, n \in Completed(o) : m = n
      BY DEF IInv, Settled
    <2>2. Cardinality(Completed(o)) <= 1
      BY <1>1, <2>1
    <2> QED BY <2>2 DEF IInv, Settled
  <1> QED BY <1>2, PurchaseInductive, PTL

(* The page of thanks shows an order that is stored, its own amounts and   *)
(* an address that still exists, whatever the tab did meanwhile.           *)
THEOREM ThanksAreDue == Spec => []ThankedForOrder
  <1>1. IInv => ThankedForOrder
    BY DEF IInv
  <1> QED BY <1>1, PurchaseInductive, PTL

(* Only Place makes an order.                                              *)
LEMMA PlacedByPlace ==
  ASSUME IInv, [Next]_vars, NEW c \in Submits, Placed(c)
  PROVE  Place(c)
  <1>1. orders[c].pay = "absent" /\ orders'[c].pay # "absent" /\ orders' # orders
    BY DEF Placed
  <1>2. ASSUME NEW d \in Submits, NewPayment(d)
        PROVE  FALSE
    <2>1. /\ \A p \in Submits \ {d} : orders'[p] = orders[p]
          /\ orders[d].pay # "absent"
      BY <1>2, NewPaymentFacts DEF IInv
    <2> QED BY <1>1, <2>1
  <1>3. ASSUME NEW d \in Submits, Place(d)
        PROVE  Place(c)
    <2>1. PICK total \in Nat :
             orders' = [orders EXCEPT ![d] = [total |-> total, pay |-> "pending",
                                              payments |-> <<>>]]
      BY <1>3, PlaceFacts
    <2>2. \A p \in Submits \ {d} : orders'[p] = orders[p]
      BY <2>1 DEF IInv, Typed
    <2>3. c = d
      BY <1>1, <2>2
    <2> QED BY <1>3, <2>3
  <1>4. ASSUME NEW d \in Submits, Deliver(d)
        PROVE  FALSE
    <2>1. orders[d].pay # "absent" /\ orders' = [orders EXCEPT ![d].pay = "fully_paid"]
      BY <1>4 DEF Deliver
    <2>2. \A p \in Submits \ {d} : orders'[p] = orders[p]
      BY <2>1 DEF IInv, Typed
    <2> QED BY <1>1, <2>1, <2>2
  <1>5. ASSUME NEW w \in Hooks, Complete(w)
        PROVE  FALSE
    <2>1. PICK o, n : o = hook[w].order /\ n = hook[w].nth
      OBVIOUS
    <2>2. /\ \A p \in Submits \ {o} : orders'[p] = orders[p]
          /\ orders[o].pay = "pending"
      BY <1>5, <2>1, CompleteFacts DEF IInv
    <2> QED BY <1>1, <2>2
  <1>6. ASSUME UNCHANGED orders
        PROVE  FALSE
    BY <1>1, <1>6
  <1>7. CASE \/ AddProduct \/ RemoveProduct
             \/ \E units \in Requested : UpdateQuantity(units)
             \/ Retype \/ Apply \/ Validated \/ NotValidated \/ Leave \/ Reload
    BY <1>6, <1>7 DEF AddProduct, RemoveProduct, UpdateQuantity, Change, Retype, Apply,
                      Validated, NotValidated, Leave, Reload
  <1>8. CASE \E d \in Submits : \/ Submit(d) \/ Timeout(d) \/ Refuse(d)
                                \/ AddAddress(d) \/ RemoveAddress(d)
    BY <1>6, <1>8 DEF Submit, Timeout, Refuse, AddAddress, RemoveAddress
  <1>9. CASE \E d \in Submits : Place(d)
    BY <1>3, <1>9
  <1>10. CASE \E d \in Submits : Pay(d) \/ PayUnheard(d) \/ PayAgain(d)
    BY <1>2, <1>10 DEF Pay, PayUnheard, PayAgain
  <1>11. CASE \E d \in Submits : Deliver(d)
    BY <1>4, <1>11
  <1>12. CASE \E w \in Hooks :
                \/ \E o \in Submits, nth \in 1..MaxPayments : Notified(w, o, nth)
                \/ Dismiss(w) \/ Drop(w)
    BY <1>6, <1>12 DEF Notified, Dismiss, Drop
  <1>13. CASE \E w \in Hooks : Complete(w)
    BY <1>5, <1>13
  <1>14. CASE UNCHANGED vars
    BY <1>6, <1>14 DEF vars
  <1> QED BY <1>7, <1>8, <1>9, <1>10, <1>11, <1>12, <1>13, <1>14 DEF Next, Serve

(* An order never costs more than the checkout showed, for any prices and  *)
(* discounts, and although other checkouts spend the discounts meanwhile.  *)
THEOREM NoDearerThanShown == Spec => NeverDearer
  <1>1. IInv /\ [Next]_vars =>
          [(\A c \in Submits : Placed(c) => \/ chain[c].shown = None
                                            \/ orders'[c].total <= chain[c].shown)]_vars
    <2> SUFFICES ASSUME IInv, [Next]_vars,
                        NEW c \in Submits, Placed(c), chain[c].shown # None
                 PROVE  orders'[c].total <= chain[c].shown
      OBVIOUS
    <2>1. PICK total \in Nat :
            /\ orders' = [orders EXCEPT ![c] = [total |-> total, pay |-> "pending",
                                                payments |-> <<>>]]
            /\ total <= chain[c].shown
      BY PlacedByPlace, PlaceFacts
    <2>2. orders'[c].total = total
      BY <2>1 DEF IInv, Typed
    <2> QED BY <2>1, <2>2
  <1> QED BY <1>1, PurchaseInductive, PTL DEF Spec, NeverDearer
=============================================================================
