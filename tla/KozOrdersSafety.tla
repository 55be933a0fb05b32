-------------------------- MODULE KozOrdersSafety --------------------------
(***************************************************************************)
(* Proofs of the safety properties of KozOrders from its inductive         *)
(* invariant: the subscription gate, the limits of promo codes, the money  *)
(* of an order and its payment.                                            *)
(***************************************************************************)
EXTENDS KozOrdersProofs

(* What the steps of a session do to the tables, commits aside.            *)
LEMMA ActsTables ==
  ASSUME NEW s \in Sessions, Acts(s)
  PROVE  \/ UNCHANGED tables
         \/ \E o \in Orders : CommitOrder(s, o)
         \/ CommitMove(s) \/ CommitWeight(s)
  BY DEF Acts, Submit, SubmitOrder, SubmitStaff, Step, LockCustomer, FindProduct, Reserve,
         SkipPromo, LockPromo, LockOrder, ReturnProduct, AbortVictim, Fail, Rollback

(* What the administration leaves alone.                                   *)
LEMMA AdministerFrame ==
  ASSUME Administer \/ UNCHANGED vars
  PROVE  UNCHANGED <<welcome, uses, orders, posPaid, sessionVars>>
  BY DEF Administer, UpdateInventory, ReceiveInventory, Put, PauseSubscription,
         CancelSubscription, SetSubscription, DeletePromo, NextDay, sessionVars, vars

(* What a commit of a move or of a weight knows of its order.              *)
LEMMA MoveFacts ==
  ASSUME Inv, NEW s \in Sessions, CommitMove(s)
  PROVE  /\ req[s] \in MoveRequest
         /\ TransitionAllowed(orders[req[s].order].status, req[s].next)
  <1>1. pc[s] \in {"return", "settle"} /\ req[s].kind = "move"
    BY DEF CommitMove, ReadyToSettle
  <1>2. req[s] \in MoveRequest
    BY <1>1 DEF Inv, Typed, Phases, InPhase, Handling, MoveRequest, WeighRequest
  <1>3. TransitionAllowed(orders[req[s].order].status, req[s].next)
    BY <1>1 DEF Inv, Checked, StillAllowed, Handling
  <1> QED BY <1>2, <1>3

(* A weight is only ever committed for a picked order with weighted goods. *)
LEMMA WeighingFacts ==
  ASSUME Inv, NEW s \in Sessions, CommitWeight(s)
  PROVE  /\ req[s] \in WeighRequest
         /\ orders[req[s].order].status = "picked"
         /\ orders[req[s].order].estimated > 0
  <1>1. pc[s] \in {"return", "settle"} /\ req[s].kind = "weigh"
    BY DEF CommitWeight, ReadyToSettle
  <1>2. req[s] \in WeighRequest
    BY <1>1 DEF Inv, Typed, Phases, InPhase, Handling, MoveRequest, WeighRequest
  <1>3. CanWeigh(req[s].order)
    BY <1>1 DEF Inv, Checked, StillAllowed, Handling
  <1> QED BY <1>2, <1>3 DEF CanWeigh

-----------------------------------------------------------------------------
(* The subscription gate.                                                  *)

(* A cart line does not change the day the gate was passed. *)
LEMMA WithLineDay ==
  ASSUME NEW b \in Basket, NEW p, NEW q
  PROVE  WithLine(b, p, q).day = b.day
  BY DEF WithLine, Basket

(* No placement has begun initially. *)
LEMMA GateInit == Init => GateHolds
  BY DEF Init, GateHolds, Placing

(* A pause or cancellation waits for the customer row of a placement. *)
LEMMA GateNext == Inv /\ GateHolds /\ [Next]_vars => GateHolds'
  <1> SUFFICES ASSUME Inv, GateHolds, [Next]_vars,
                      NEW t \in Sessions, pc'[t] \in Placing \ {"customer"}
               PROVE  MayOrder(t, customer'[req'[t].customer], work'[t].day)
    BY DEF GateHolds
  <1> USE DEF Inv, Typed, TypeOK
  <1> DEFINE c == req[t].customer
  <1>1. CASE UNCHANGED <<customer, pc, req, work>>
    BY <1>1 DEF GateHolds
  <1>2. CASE Administer /\ ~UNCHANGED customer
    <2>1. PICK x \in Customers : locks[x] = None /\ UNCHANGED <<pc, req, work>>
                                /\ \E sub : customer' = [customer EXCEPT ![x] = sub]
      BY <1>2 DEF Administer, UpdateInventory, ReceiveInventory, Put, PauseSubscription,
         CancelSubscription, SetSubscription, DeletePromo, NextDay, sessionVars
    <2>2. locks[c] = t
      BY <2>1 DEF LocksHeld, HoldsLocks
    <2>3. c # x
      BY <2>1, <2>2, NoneIsApart
    <2>4. customer'[c] = customer[c]
      <3>1. c \in Customers BY <2>1 DEF Phases, InPhase, CreateRequest
      <3> QED BY <2>1, <2>3, <3>1
    <2> QED BY <2>1, <2>4 DEF GateHolds
  <1>3. CASE Administer /\ UNCHANGED customer
    BY <1>1, <1>3, AdministerFrame DEF sessionVars
  <1>4. ASSUME NEW s \in Sessions, Acts(s) PROVE UNCHANGED customer
    BY <1>4, ActsTables DEF tables, CommitOrder, CommitMove, CommitWeight
  <1>5. ASSUME NEW s \in Sessions, Acts(s), t # s
        PROVE  pc'[t] = pc[t] /\ req'[t] = req[t] /\ work'[t] = work[t]
    BY <1>5, ActsKeepsOthers DEF KeepsOthers
  <1>6. ASSUME NEW s \in Sessions, Acts(s), t # s
        PROVE  MayOrder(t, customer'[req'[t].customer], work'[t].day)
    BY <1>4, <1>5, <1>6 DEF GateHolds
  <1>7. ASSUME Acts(t)
        PROVE  MayOrder(t, customer'[req'[t].customer], work'[t].day)
    <2>1. ~EndSession(t)
      BY DEF EndSession, Placing
    <2>2. CASE LockCustomer(t)
      <3>1. /\ MayOrder(t, customer[c], today)
            /\ work' = [work EXCEPT ![t].day = today] /\ req' = req
        BY <2>1, <2>2 DEF LockCustomer, Rollback
      <3>2. work'[t].day = today
        BY <3>1 DEF Basket
      <3> QED BY <1>4, <1>7, <3>1, <3>2
    <2>3. CASE FindProduct(t) \/ Reserve(t) \/ SkipPromo(t) \/ LockPromo(t)
      <3>1. req' = req /\ pc[t] \in Placing \ {"customer"}
        BY <2>1, <2>3 DEF FindProduct, Reserve, SkipPromo, LockPromo, Rollback, Placing
      <3>2. work'[t].day = work[t].day
        <4>1. work \in [Sessions -> Basket] OBVIOUS
        <4> HIDE DEF TypeOK, Typed, Inv
        <4>2. CASE FindProduct(t)
          BY <2>1, <4>1, <4>2 DEF FindProduct, Rollback, Basket
        <4>3. CASE Reserve(t)
          <5>1. work' = [work EXCEPT ![t] = WithLine(work[t], Line(t).product, Line(t).qty)]
            BY <2>1, <4>3 DEF Reserve, Rollback
          <5> QED BY <4>1, <5>1, WithLineDay
        <4>4. CASE SkipPromo(t)
          BY <4>1, <4>4 DEF SkipPromo, Basket
        <4>5. CASE LockPromo(t)
          BY <2>1, <4>1, <4>5 DEF LockPromo, Rollback, Basket
        <4> QED BY <2>3, <4>2, <4>3, <4>4, <4>5
      <3> QED BY <1>4, <1>7, <3>1, <3>2 DEF GateHolds
    <2>4. ASSUME Submit(t) \/ LockOrder(t) PROVE FALSE
      BY <2>4, <2>1 DEF Submit, SubmitOrder, SubmitStaff, LockOrder, Rollback, Proceed, Placing
    <2>5. ASSUME \E p \in Products : ReturnProduct(t, p) PROVE FALSE
      BY <2>5 DEF ReturnProduct, Placing
    <2>6. ASSUME \/ AbortVictim(t) \/ Fail(t) \/ CommitMove(t) \/ CommitWeight(t)
                 \/ \E o \in Orders : CommitOrder(t, o)
          PROVE  FALSE
      BY <2>1, <2>6 DEF AbortVictim, Fail, Rollback, CommitMove, CommitWeight, CommitOrder
    <2> QED BY <1>7, <2>2, <2>3, <2>4, <2>5, <2>6 DEF Acts, Step
  <1> QED
    BY <1>1, <1>2, <1>3, <1>6, <1>7, NextActs DEF vars

(* An order is only ever committed while the subscription that was checked *)
(* still allows it: the row lock of the customer outlasts every pause.     *)
THEOREM GateCorrect == Spec => []GateHolds
  BY GateInit, GateNext, Invariance, PTL DEF Spec

-----------------------------------------------------------------------------
(* The money of an order.                                                  *)

WithinHold(order) ==
    /\ order.capture <= order.hold
    /\ order.pos <= order.final
    /\ order.final - order.pos <= order.hold
    /\ order.fee <= order.final

(* A new order leaves exactly the unheld part to the terminal. *)
LEMMA NewOrderWithinHold ==
  ASSUME Typed, NEW s \in Sessions, req[s] \in CreateRequest
  PROVE  WithinHold(NewOrder(s))
  <1> DEFINE b == work[s]
             discount == DiscountTotal(b.first, b.promo)
             fee == DeliveryFee(b.subtotal, Threshold, Fee)
             final == FinalTotal(b.subtotal, discount, fee)
  <1>1. b \in Basket
    BY DEF Typed, TypeOK
  <1>2. discount \in Nat
    BY <1>1 DEF DiscountTotal, Basket
  <1>3. fee \in Nat
    BY ConstantTypes DEF DeliveryFee
  <1>4. final \in Nat /\ fee <= final
    BY <1>1, <1>2, <1>3, FinalTotalNat DEF Basket
  <1>5. /\ NewOrder(s).final = final /\ NewOrder(s).fee = fee
        /\ NewOrder(s).hold = Hold(final) /\ NewOrder(s).capture = 0
        /\ NewOrder(s).pos = final - Hold(final)
    BY DEF NewOrder
  <1> HIDE DEF final, fee, discount, b
  <1>6. Hold(final) \in Nat /\ Hold(final) <= final
    BY <1>4, HoldNat
  <1> QED BY <1>4, <1>5, <1>6 DEF WithinHold

(* A weighed order keeps its capture within its hold. *)
LEMMA WeighedWithinHold ==
  ASSUME NEW row \in OrderRow, row.estimated > 0, NEW w \in Nat \ {0}
  PROVE  WithinHold(Weighed(row, w))
  <1> DEFINE goods == Reweighed(row.subtotal, w, row.estimated)
             final == FinalTotal(goods, row.discount, row.fee)
             capture == Capture(row.hold, final)
  <1>1. goods \in Nat
    <2>1. row.subtotal \in Nat /\ row.estimated \in Nat \ {0} BY DEF OrderRow
    <2>2. row.subtotal * w \in Nat BY <2>1
    <2> QED BY <2>1, <2>2, RoundDivNat DEF Reweighed
  <1> HIDE DEF goods
  <1>2. final \in Nat /\ row.fee <= final
    BY <1>1, FinalTotalNat DEF OrderRow
  <1>3. /\ Weighed(row, w).final = final /\ Weighed(row, w).capture = capture
        /\ Weighed(row, w).pos = PosTopup(final, capture)
        /\ Weighed(row, w).hold = row.hold /\ Weighed(row, w).fee = row.fee
    BY DEF Weighed, goods, OrderRow
  <1> HIDE DEF final
  <1> QED BY <1>2, <1>3 DEF WithinHold, Capture, Least, PosTopup, Greatest, OrderRow

(* No order is placed initially. *)
LEMMA MoneyInit == Init => OnlineWithinHold
  BY DEF Init, OnlineWithinHold, NoOrder

(* Every step keeps the online part of each order within its hold. *)
LEMMA MoneyNext == Inv /\ OnlineWithinHold /\ [Next]_vars => OnlineWithinHold'
  <1> SUFFICES ASSUME Inv, OnlineWithinHold, [Next]_vars, NEW o \in Orders
               PROVE  WithinHold(orders'[o])
    BY DEF OnlineWithinHold, WithinHold
  <1> USE DEF Inv, Typed, TypeOK
  <1>0. WithinHold(orders[o]) BY DEF OnlineWithinHold, WithinHold
  <1>1. CASE UNCHANGED orders
    BY <1>0, <1>1
  <1>2. ASSUME NEW s \in Sessions, NEW x \in Orders, CommitOrder(s, x)
        PROVE  WithinHold(orders'[o])
    <2>1. req[s] \in CreateRequest
      BY <1>2 DEF CommitOrder, Phases, InPhase, Placing
    <2>2. WithinHold(NewOrder(s)) BY <2>1, NewOrderWithinHold
    <2> QED BY <1>0, <1>2, <2>2 DEF CommitOrder
  <1>3. ASSUME NEW s \in Sessions, CommitMove(s)
        PROVE  WithinHold(orders'[o])
    <2>1. WithinHold(Moved(orders[o], req[s].next))
      BY <1>0 DEF Moved, WithinHold, OrderRow
    <2> QED BY <1>0, <1>3, <2>1 DEF CommitMove
  <1>4. ASSUME NEW s \in Sessions, CommitWeight(s)
        PROVE  WithinHold(orders'[o])
    <2>1. CASE req[s].order = o
      <3>1. req[s] \in WeighRequest /\ orders[o].estimated > 0
        BY <1>4, <2>1, WeighingFacts
      <3>2. WithinHold(Weighed(orders[o], req[s].weight))
        BY <3>1, ConstantTypes, WeighedWithinHold DEF WeighRequest
      <3> QED BY <1>4, <2>1, <3>2 DEF CommitWeight
    <2>2. CASE req[s].order # o
      BY <1>0, <1>4, <2>2 DEF CommitWeight
    <2> QED BY <2>1, <2>2
  <1> QED BY <1>1, <1>2, <1>3, <1>4, NextActs, ActsTables, AdministerFrame DEF tables

(* The online part of every order stays within the 80% held for it, and    *)
(* the discount never eats the delivery fee, for any prices and weights.   *)
THEOREM MoneyCorrect == Spec => []OnlineWithinHold
  BY MoneyInit, MoneyNext, Invariance, PTL DEF Spec

-----------------------------------------------------------------------------
(* Payment on delivery.                                                    *)

(* Nothing is charged initially. *)
LEMMA PaidInit == Init => PaidOnDelivery
  BY DEF Init, PaidOnDelivery, NoOrder

(* Every step keeps charges and deliveries together. *)
LEMMA PaidNext == Inv /\ PaidOnDelivery /\ [Next]_vars => PaidOnDelivery'
  <1> SUFFICES ASSUME Inv, PaidOnDelivery, [Next]_vars
               PROVE  PaidOnDelivery'
    OBVIOUS
  <1> USE DEF Inv, Typed, TypeOK
  <1>1. CASE UNCHANGED <<orders, posPaid>>
    BY <1>1 DEF PaidOnDelivery
  <1>2. ASSUME NEW s \in Sessions, NEW x \in Orders, CommitOrder(s, x)
        PROVE  PaidOnDelivery'
    BY <1>2 DEF CommitOrder, NewOrder, PaidOnDelivery
  <1>3. ASSUME NEW s \in Sessions, CommitMove(s)
        PROVE  PaidOnDelivery'
    <2> DEFINE o == req[s].order
               next == req[s].next
    <2>1. o \in Orders /\ TransitionAllowed(orders[o].status, next)
      BY <1>3, MoveFacts DEF MoveRequest
    <2>2. orders[o].status # "delivered" /\ posPaid[o] = <<>>
          /\ orders[o].payment # "fully_paid"
      BY <2>1 DEF PaidOnDelivery, TransitionAllowed
    <2>3. /\ orders' = [orders EXCEPT ![o] = Moved(orders[o], next)]
          /\ posPaid' = IF next = "delivered" /\ orders[o].pos > 0
                        THEN [posPaid EXCEPT ![o] = Append(posPaid[o], orders[o].pos)]
                        ELSE posPaid
      BY <1>3 DEF CommitMove
    <2>4. /\ Moved(orders[o], next).status = next
          /\ Moved(orders[o], next).pos = orders[o].pos
          /\ Moved(orders[o], next).payment = "fully_paid" <=> next = "delivered"
      BY <2>1, <2>2 DEF Moved, OrderRow
    <2>5. orders[o].pos \in Nat
      BY <2>1 DEF OrderRow
    <2>6. Append(posPaid[o], orders[o].pos) = <<orders[o].pos>>
      BY <2>2, <2>5
    <2>7. ASSUME NEW y \in Orders, y = o
          PROVE  /\ posPaid'[y] = IF orders'[y].status = "delivered" /\ orders'[y].pos > 0
                                  THEN <<orders'[y].pos>> ELSE <<>>
                 /\ orders'[y].payment = "fully_paid" <=> orders'[y].status = "delivered"
      BY <2>1, <2>2, <2>3, <2>4, <2>6, <2>7
    <2>8. ASSUME NEW y \in Orders, y # o
          PROVE  orders'[y] = orders[y] /\ posPaid'[y] = posPaid[y]
      <3>1. orders \in [Orders -> OrderRow \cup {None}] /\ DOMAIN posPaid = Orders
        OBVIOUS
      <3> HIDE DEF Inv, Typed, TypeOK, o, next
      <3> QED BY <2>3, <2>8, <3>1
    <2> HIDE DEF o, next
    <2> QED BY <2>7, <2>8 DEF PaidOnDelivery
  <1>4. ASSUME NEW s \in Sessions, CommitWeight(s)
        PROVE  PaidOnDelivery'
    <2> DEFINE o == req[s].order
    <2>1. o \in Orders /\ orders[o].status = "picked"
      BY <1>4, WeighingFacts DEF WeighRequest
    <2>2. /\ Weighed(orders[o], req[s].weight).status = "picked"
          /\ Weighed(orders[o], req[s].weight).payment = orders[o].payment
      BY <2>1 DEF Weighed, OrderRow
    <2>3. /\ orders' = [orders EXCEPT ![o] = Weighed(orders[o], req[s].weight)]
          /\ posPaid' = posPaid
      BY <1>4 DEF CommitWeight
    <2> HIDE DEF o
    <2> QED BY <2>1, <2>2, <2>3 DEF PaidOnDelivery
  <1> QED BY <1>1, <1>2, <1>3, <1>4, NextActs, ActsTables, AdministerFrame DEF tables

(* The courier's terminal charges each delivered order exactly once and no *)
(* other order, however many staff members confirm deliveries at once.     *)
THEOREM PaymentCorrect == Spec => []PaidOnDelivery
  BY PaidInit, PaidNext, Invariance, PTL DEF Spec

FrozenStep ==
    \A o \in Orders :
        Present(o) /\ orders'[o].final # orders[o].final =>
            orders[o].status = "picked" /\ orders'[o].status = "picked"

(* No single step changes the total of an order that is not picked. *)
LEMMA FrozenNext == Inv /\ [Next]_vars => [FrozenStep]_vars
  <1> SUFFICES ASSUME Inv, [Next]_vars PROVE FrozenStep OBVIOUS
  <1> USE DEF Inv, Typed, TypeOK
  <1>1. CASE UNCHANGED orders
    BY <1>1 DEF FrozenStep
  <1>2. ASSUME NEW s \in Sessions, NEW x \in Orders, CommitOrder(s, x) PROVE FrozenStep
    BY <1>2 DEF CommitOrder, FrozenStep, Present
  <1>3. ASSUME NEW s \in Sessions, CommitMove(s) PROVE FrozenStep
    <2>1. Moved(orders[req[s].order], req[s].next).final = orders[req[s].order].final
      BY <1>3, MoveFacts DEF Moved, MoveRequest, OrderRow
    <2> QED BY <1>3, <2>1 DEF CommitMove, FrozenStep
  <1>4. ASSUME NEW s \in Sessions, CommitWeight(s) PROVE FrozenStep
    <2>1. /\ req[s].order \in Orders /\ orders[req[s].order].status = "picked"
          /\ Weighed(orders[req[s].order], req[s].weight).status = "picked"
      <3>1. req[s].order \in Orders /\ orders[req[s].order].status = "picked"
        BY <1>4, WeighingFacts DEF WeighRequest
      <3>2. orders[req[s].order] \in OrderRow
        BY <3>1
      <3> HIDE DEF Inv, Typed, TypeOK
      <3> QED BY <3>1, <3>2 DEF Weighed, OrderRow
    <2>2. orders' = [orders EXCEPT ![req[s].order] =
                         Weighed(orders[req[s].order], req[s].weight)]
      BY <1>4 DEF CommitWeight
    <2>3. DOMAIN orders = Orders
      OBVIOUS
    <2> HIDE DEF Inv, Typed, TypeOK
    <2>4. ASSUME NEW o \in Orders, orders'[o].final # orders[o].final
          PROVE  orders[o].status = "picked" /\ orders'[o].status = "picked"
      <3>1. o = req[s].order
        BY <2>2, <2>3, <2>4
      <3>2. orders'[o] = Weighed(orders[o], req[s].weight)
        BY <2>2, <2>3, <3>1
      <3> QED BY <2>1, <3>1, <3>2
    <2> QED BY <2>4 DEF FrozenStep
  <1> QED BY <1>1, <1>2, <1>3, <1>4, NextActs, ActsTables, AdministerFrame DEF tables

(* The total of an order only ever changes while it is picked: weighing    *)
(* never races the courier's departure.                                    *)
THEOREM SumCorrect == Spec => SumFrozenForCourier
  <1>1. Inv /\ [Next]_vars => [FrozenStep]_vars BY FrozenNext
  <1>2. Spec => [][FrozenStep]_vars BY <1>1, Invariance, PTL DEF Spec
  <1> QED BY <1>2 DEF SumFrozenForCourier, FrozenStep

-----------------------------------------------------------------------------
(* Promo codes.                                                            *)

(* No placement has accepted a code initially. *)
LEMMA PromoInit == Init => PromoHolds
  BY DEF Init, PromoHolds

(* No step of another session or administrator undoes an accepted code. *)
LEMMA PromoNext == Inv /\ PromoHolds /\ [Next]_vars => PromoHolds'
  <1> SUFFICES ASSUME Inv, PromoHolds, [Next]_vars,
                      NEW t \in Sessions, pc'[t] = "commit", req'[t].code # None
               PROVE  PromoApplies(req[t].code, req[t].customer, work[t].subtotal)'
    BY DEF PromoHolds
  <1> USE DEF Inv, Typed, TypeOK
  <1> DEFINE q == req[t].code
             c == req[t].customer
  <1>1. CASE UNCHANGED <<promoActive, uses, pc, req, work>>
    BY <1>1 DEF PromoHolds, PromoApplies, UsesOf, UsesBy
  <1>2. ASSUME NEW x \in Promos, DeletePromo(x)
        PROVE  PromoApplies(req[t].code, req[t].customer, work[t].subtotal)'
    <2>1. UNCHANGED <<uses, pc, req, work>> /\ locks[x] = None
          /\ promoActive' = [promoActive EXCEPT ![x] = FALSE]
      BY <1>2 DEF DeletePromo, sessionVars
    <2>2. q # x
      BY <2>1, NoneIsApart DEF LocksHeld, HoldsLocks
    <2>3. q \in Promos
      BY <2>1 DEF Phases, InPhase, Placing, CreateRequest
    <2> QED BY <2>1, <2>2, <2>3 DEF PromoHolds, PromoApplies, UsesOf, UsesBy
  <1>3. ASSUME Administer, ~\E x \in Promos : DeletePromo(x)
        PROVE  UNCHANGED <<promoActive, uses, pc, req, work>>
    BY <1>3 DEF Administer, UpdateInventory, ReceiveInventory, Put, PauseSubscription,
         CancelSubscription, SetSubscription, NextDay, sessionVars
  <1>4. ASSUME NEW s \in Sessions, Acts(s), t # s
        PROVE  PromoApplies(req[t].code, req[t].customer, work[t].subtotal)'
    <2>1. pc'[t] = pc[t] /\ req'[t] = req[t] /\ work'[t] = work[t]
      BY <1>4, ActsKeepsOthers DEF KeepsOthers
    <2>2. PromoApplies(q, c, work[t].subtotal)
      BY <2>1 DEF PromoHolds
    <2>3. UNCHANGED promoActive
      BY <1>4, ActsTables DEF tables, CommitOrder, CommitMove, CommitWeight
    <2>4. UNCHANGED UsesOf(q)
      <3>1. CASE UNCHANGED uses
        BY <2>1, <3>1 DEF UsesOf
      <3>2. ASSUME NEW o \in Orders, CommitOrder(s, o), ~UNCHANGED uses PROVE UNCHANGED UsesOf(q)
        <4>1. Benefit(work[s].first, work[s].promo) = "promo"
          BY <3>2 DEF CommitOrder
        <4>2. work[s].promo > 0
          BY <4>1 DEF Benefit, Basket
        <4>3. pc[s] = "commit" /\ req[s].code \in Promos
          BY <4>2 DEF Phases, InPhase
        <4>4. locks[req[s].code] = s /\ locks[q] = t
          BY <2>1, <4>3, NoneIsApart DEF LocksHeld, HoldsLocks
        <4>5. uses' = uses \cup {[promo |-> req[s].code, customer |-> req[s].customer, order |-> o]}
          BY <3>2, <4>1 DEF CommitOrder
        <4>6. req[s].code # q
          BY <1>4, <4>4
        <4> DEFINE v == [promo |-> req[s].code, customer |-> req[s].customer, order |-> o]
        <4>7. uses' = uses \cup {v} /\ v.promo # q /\ UNCHANGED q
          BY <2>1, <4>5, <4>6
        <4> HIDE DEF q, v, Inv, Typed, TypeOK
        <4> QED BY <4>7 DEF UsesOf
      <3> QED
        BY <1>4, <3>1, <3>2, ActsTables DEF tables, CommitMove, CommitWeight
    <2> QED BY <2>1, <2>2, <2>3, <2>4 DEF PromoApplies, UsesBy
  <1>5. ASSUME Acts(t)
        PROVE  PromoApplies(req[t].code, req[t].customer, work[t].subtotal)'
    <2>1. ~EndSession(t)
      BY DEF EndSession
    <2>2. CASE LockPromo(t)
      <3> DEFINE a == FirstAmount(t)
                 b == PromoAmount(Terms[q], work[t].subtotal)
      <3>1. /\ PromoApplies(q, c, work[t].subtotal)
            /\ work' = [work EXCEPT ![t].first = a, ![t].promo = b]
            /\ UNCHANGED <<req, promoActive, uses>>
        BY <2>1, <2>2 DEF LockPromo, Rollback, tables
      <3> HIDE DEF a, b
      <3>2. work'[t].subtotal = work[t].subtotal
        BY <3>1 DEF Basket
      <3> QED BY <3>1, <3>2 DEF PromoApplies, UsesOf, UsesBy
    <2>3. CASE SkipPromo(t)
      BY <2>3 DEF SkipPromo
    <2>4. ASSUME Submit(t) \/ LockCustomer(t) \/ FindProduct(t) \/ Reserve(t) \/ LockOrder(t)
          PROVE  FALSE
      BY <2>4, <2>1 DEF Submit, SubmitOrder, SubmitStaff, LockCustomer, FindProduct, Reserve,
                        LockOrder, Rollback, Proceed
    <2>5. ASSUME \E p \in Products : ReturnProduct(t, p) PROVE FALSE
      BY <2>5 DEF ReturnProduct
    <2>6. ASSUME \/ AbortVictim(t) \/ Fail(t) \/ CommitMove(t) \/ CommitWeight(t)
                 \/ \E o \in Orders : CommitOrder(t, o)
          PROVE  FALSE
      BY <2>1, <2>6 DEF AbortVictim, Fail, Rollback, CommitMove, CommitWeight, CommitOrder
    <2> QED BY <1>5, <2>2, <2>3, <2>4, <2>5, <2>6 DEF Acts, Step
  <1> QED BY <1>1, <1>2, <1>3, <1>4, <1>5, NextActs DEF vars

(* An accepted code is still applicable at the commit of the order that    *)
(* uses it: the row lock of the code serialises its orders and its removal.*)
THEOREM PromoCorrect == Spec => []PromoHolds
  BY PromoInit, PromoNext, Invariance, PTL DEF Spec

(* Only commits of orders with a promo code record a use.                  *)
LEMMA ActsUses ==
  ASSUME NEW s \in Sessions, Acts(s), uses' # uses
  PROVE  \E o \in Orders :
            /\ CommitOrder(s, o)
            /\ Benefit(work[s].first, work[s].promo) = "promo"
            /\ uses' = uses \cup {[promo |-> req[s].code, customer |-> req[s].customer,
                                   order |-> o]}
  BY ActsTables DEF tables, CommitOrder, CommitMove, CommitWeight

(* An order that spends a promo code has locked and accepted one.          *)
LEMMA SpendsCode ==
  ASSUME Inv, NEW s \in Sessions, Benefit(work[s].first, work[s].promo) = "promo"
  PROVE  /\ pc[s] = "commit" /\ req[s] \in CreateRequest /\ req[s].code \in Promos
         /\ req[s].code # None
  <1> USE DEF Inv, Typed, TypeOK
  <1>1. work[s].promo > 0
    BY DEF Benefit, Basket
  <1>2. pc[s] = "commit" /\ req[s].code \in Promos
    BY <1>1 DEF Phases, InPhase
  <1> QED BY <1>2, NoneIsApart DEF Phases, InPhase, Placing

FiniteUses == IsFiniteSet(uses) /\ PromoLimits

(* No code is used initially. *)
LEMMA UsesInit == Init => FiniteUses
  <1> SUFFICES ASSUME Init PROVE FiniteUses OBVIOUS
  <1>1. IsFiniteSet({}) /\ Cardinality({}) = 0
    BY FS_EmptySet
  <1>2. uses = {} BY DEF Init
  <1>3. ASSUME NEW q \in Promos
        PROVE  /\ Cardinality(UsesOf(q)) <= Terms[q].maxUses
               /\ \A c \in Customers : Cardinality(UsesBy(q, c)) <= Terms[q].perCustomer
    <2>1. Terms[q].maxUses \in Nat /\ Terms[q].perCustomer \in Nat
      BY ConstantTypes DEF PromoTerms
    <2>2. UsesOf(q) = {} /\ \A c \in Customers : UsesBy(q, c) = {}
      BY <1>2 DEF UsesOf, UsesBy
    <2> QED BY <1>1, <2>1, <2>2
  <1> QED BY <1>1, <1>2, <1>3 DEF FiniteUses, PromoLimits

(* A set that gets one element grows by at most one.                       *)
LEMMA AtMostOneMore ==
  ASSUME NEW S, NEW T, NEW x, IsFiniteSet(S), T \subseteq S \cup {x},
         NEW max \in Nat, Cardinality(S) < max
  PROVE  Cardinality(T) <= max
  <1>1. /\ IsFiniteSet(S \cup {x}) /\ Cardinality(S) \in Nat
        /\ Cardinality(S \cup {x}) <= Cardinality(S) + 1
    BY FS_AddElement, FS_CardinalityType
  <1>2. Cardinality(T) <= Cardinality(S \cup {x}) /\ IsFiniteSet(T)
    BY <1>1, FS_Subset
  <1>3. Cardinality(T) \in Nat /\ Cardinality(S \cup {x}) \in Nat
    BY <1>1, <1>2, FS_CardinalityType
  <1> QED BY <1>1, <1>2, <1>3

(* The use that a commit records is the last one the limits allow.         *)
LEMMA UsesNext == Inv /\ PromoHolds /\ FiniteUses /\ [Next]_vars => FiniteUses'
  <1> SUFFICES ASSUME Inv, PromoHolds, FiniteUses, [Next]_vars PROVE FiniteUses'
    OBVIOUS
  <1>1. CASE uses' = uses
    BY <1>1 DEF FiniteUses, PromoLimits, UsesOf, UsesBy
  <1>2. ASSUME NEW s \in Sessions, Acts(s), uses' # uses PROVE FiniteUses'
    <2> DEFINE code == req[s].code
               buyer == req[s].customer
    <2>1. PICK o \in Orders :
             /\ Benefit(work[s].first, work[s].promo) = "promo"
             /\ uses' = uses \cup {[promo |-> code, customer |-> buyer, order |-> o]}
      BY <1>2, ActsUses
    <2> DEFINE use == [promo |-> code, customer |-> buyer, order |-> o]
    <2>2. PromoApplies(code, buyer, work[s].subtotal)
      BY <2>1, SpendsCode DEF PromoHolds
    <2>3. use.promo = code /\ use.customer = buyer /\ uses' = uses \cup {use}
      BY <2>1
    <2> HIDE DEF use, code, buyer
    <2>4. IsFiniteSet(uses')
      BY <2>3, FS_AddElement DEF FiniteUses
    <2>5. ASSUME NEW q \in Promos
          PROVE  Cardinality(UsesOf(q)') <= Terms[q].maxUses
      <3>1. Terms[q].maxUses \in Nat
        BY ConstantTypes DEF PromoTerms
      <3>2. CASE q = code
        <4>1. IsFiniteSet(UsesOf(q))
          BY FS_Subset DEF FiniteUses, UsesOf
        <4>2. UsesOf(q)' \subseteq UsesOf(q) \cup {use}
          BY <2>3 DEF UsesOf
        <4> QED BY <2>2, <3>1, <3>2, <4>1, <4>2, AtMostOneMore DEF PromoApplies
      <3>3. CASE q # code
        <4>1. UsesOf(q)' = UsesOf(q)
          BY <2>3, <3>3 DEF UsesOf
        <4> QED BY <4>1 DEF FiniteUses, PromoLimits
      <3> QED BY <3>2, <3>3
    <2>6. ASSUME NEW q \in Promos, NEW c \in Customers
          PROVE  Cardinality(UsesBy(q, c)') <= Terms[q].perCustomer
      <3>1. Terms[q].perCustomer \in Nat
        BY ConstantTypes DEF PromoTerms
      <3>2. CASE q = code /\ c = buyer
        <4>1. IsFiniteSet(UsesBy(q, c))
          BY FS_Subset DEF FiniteUses, UsesBy, UsesOf
        <4>2. UsesBy(q, c)' \subseteq UsesBy(q, c) \cup {use}
          BY <2>3 DEF UsesBy, UsesOf
        <4> QED BY <2>2, <3>1, <3>2, <4>1, <4>2, AtMostOneMore DEF PromoApplies
      <3>3. CASE q # code \/ c # buyer
        <4>1. UsesBy(q, c)' = UsesBy(q, c)
          BY <2>3, <3>3 DEF UsesBy, UsesOf
        <4> QED BY <4>1 DEF FiniteUses, PromoLimits
      <3> QED BY <3>2, <3>3
    <2> QED BY <2>4, <2>5, <2>6 DEF FiniteUses, PromoLimits
  <1> QED BY <1>1, <1>2, NextActs, AdministerFrame DEF vars

(* However many orders race for a code, it is never used more often than   *)
(* its limits allow, overall or by one customer.                           *)
THEOREM LimitsCorrect == Spec => []PromoLimits
  <1>1. Spec => []FiniteUses
    BY UsesInit, UsesNext, PromoCorrect, Invariance, PTL DEF Spec
  <1>2. FiniteUses => PromoLimits BY DEF FiniteUses
  <1> QED BY <1>1, <1>2, PTL

-----------------------------------------------------------------------------
(* Discounts.                                                              *)

(* A welcome discount on offer is still unused.                            *)
WelcomeKept ==
    \A s \in Sessions :
        work[s].first > 0 => pc[s] = "commit" /\ welcome[req[s].customer] = None

(* The welcome discount of a customer is read where the placement of the   *)
(* customer's order is about to commit; other steps do not offer one.      *)
LEMMA ActsFirst ==
  ASSUME Typed, NEW s \in Sessions, Acts(s), work'[s].first > 0
  PROVE  \/ work'[s].first = work[s].first /\ pc[s] # "commit"
         \/ /\ pc'[s] = "commit" /\ UNCHANGED <<req, welcome>>
            /\ welcome[req[s].customer] = None
  <1> USE DEF Typed, TypeOK
  <1>1. ~EndSession(s)
    BY DEF EndSession, EmptyBasket
  <1>2. CASE Submit(s)
    BY <1>2 DEF Submit, SubmitOrder, SubmitStaff
  <1>3. CASE LockCustomer(s)
    <2>1. work' = [work EXCEPT ![s].day = today] /\ pc[s] = "customer"
      BY <1>1, <1>3 DEF LockCustomer, Rollback
    <2> QED BY <2>1 DEF Basket
  <1>4. CASE FindProduct(s)
    <2>1. work' = [work EXCEPT ![s].price = View(s, Line(s).product).price] /\ pc[s] = "find"
      BY <1>1, <1>4 DEF FindProduct, Rollback
    <2> QED BY <2>1 DEF Basket
  <1>5. CASE Reserve(s)
    <2>1. work' = [work EXCEPT ![s] = WithLine(work[s], Line(s).product, Line(s).qty)]
          /\ pc[s] = "reserve"
      BY <1>1, <1>5 DEF Reserve, Rollback
    <2>2. ASSUME NEW b \in Basket, NEW p, NEW q PROVE WithLine(b, p, q).first = b.first
      BY DEF WithLine, Basket
    <2> QED BY <2>1, <2>2
  <1>6. ASSUME SkipPromo(s) \/ LockPromo(s)
        PROVE  /\ pc'[s] = "commit" /\ UNCHANGED <<req, welcome>>
               /\ welcome[req[s].customer] = None
    <2>1. pc'[s] = "commit" /\ UNCHANGED <<req, welcome>> /\ work'[s].first = FirstAmount(s)
      <3> DEFINE a == FirstAmount(s)
                 b == PromoAmount(Terms[req[s].code], work[s].subtotal)
      <3>1. /\ pc'[s] = "commit" /\ UNCHANGED <<req, welcome>>
            /\ \/ work' = [work EXCEPT ![s].first = a]
               \/ work' = [work EXCEPT ![s].first = a, ![s].promo = b]
        BY <1>1, <1>6 DEF SkipPromo, LockPromo, Rollback, Proceed, tables
      <3> HIDE DEF a, b
      <3>2. work'[s].first = a
        BY <3>1 DEF Basket
      <3> QED BY <3>1, <3>2 DEF a
    <2> QED BY <2>1 DEF FirstAmount, WelcomeAmount
  <1>7. ASSUME LockOrder(s) \/ \E p \in Products : ReturnProduct(s, p)
        PROVE  work'[s].first = work[s].first /\ pc[s] # "commit"
    BY <1>1, <1>7 DEF LockOrder, Rollback, ReturnProduct
  <1>8. ASSUME \/ AbortVictim(s) \/ Fail(s) \/ CommitMove(s) \/ CommitWeight(s)
               \/ \E o \in Orders : CommitOrder(s, o)
        PROVE  FALSE
    BY <1>1, <1>8 DEF AbortVictim, Fail, Rollback, CommitMove, CommitWeight, CommitOrder
  <1> QED BY <1>2, <1>3, <1>4, <1>5, <1>6, <1>7, <1>8 DEF Acts, Step

(* Only the commit of an order spends a welcome discount, its customer's.  *)
LEMMA ActsWelcome ==
  ASSUME Typed, NEW s \in Sessions, Acts(s), welcome' # welcome
  PROVE  /\ pc[s] = "commit"
         /\ \E o \in Orders : welcome' = [welcome EXCEPT ![req[s].customer] = o]
  BY ActsTables DEF tables, CommitOrder, CommitMove, CommitWeight

(* No discount is on offer initially. *)
LEMMA KeptInit == Init => WelcomeKept
  BY DEF Init, WelcomeKept, EmptyBasket

(* Two orders of one customer never both offer the welcome discount.       *)
LEMMA KeptNext == Inv /\ WelcomeKept /\ [Next]_vars => WelcomeKept'
  <1> SUFFICES ASSUME Inv, WelcomeKept, [Next]_vars, NEW t \in Sessions,
                      (work[t].first > 0)'
               PROVE  (pc[t] = "commit" /\ welcome[req[t].customer] = None)'
    BY DEF WelcomeKept
  <1>1. CASE UNCHANGED <<welcome, pc, req, work>>
    BY <1>1 DEF WelcomeKept
  <1>2. ASSUME NEW s \in Sessions, Acts(s), t # s
        PROVE  (pc[t] = "commit" /\ welcome[req[t].customer] = None)'
    <2>1. pc'[t] = pc[t] /\ req'[t] = req[t] /\ work'[t] = work[t]
      BY <1>2, ActsKeepsOthers DEF KeepsOthers, Inv
    <2>2. pc[t] = "commit" /\ welcome[req[t].customer] = None
      BY <2>1 DEF WelcomeKept
    <2>3. ASSUME welcome' # welcome PROVE req[s].customer # req[t].customer
      BY <1>2, <2>2, <2>3, ActsWelcome DEF Inv, LocksHeld, HoldsLocks, Placing
    <2>4. req[t].customer \in Customers
      BY <2>2 DEF Inv, Typed, Phases, InPhase, Placing, CreateRequest
    <2>5. welcome'[req[t].customer] = welcome[req[t].customer]
      BY <1>2, <2>3, <2>4, ActsWelcome DEF Inv, Typed, TypeOK
    <2> QED BY <2>1, <2>2, <2>5
  <1>3. ASSUME Acts(t)
        PROVE  (pc[t] = "commit" /\ welcome[req[t].customer] = None)'
    BY <1>3, ActsFirst DEF Inv, WelcomeKept
  <1> QED BY <1>1, <1>2, <1>3, NextActs, AdministerFrame DEF vars, sessionVars

(* The benefit is spent exactly when something is deducted for it.         *)
LEMMA BenefitSpent ==
  ASSUME NEW first \in Nat, NEW promo \in Nat
  PROVE  /\ Benefit(first, promo) \in {"welcome", "promo", "none"}
         /\ DiscountTotal(first, promo) > 0 <=> Benefit(first, promo) # "none"
         /\ Benefit(first, promo) = "welcome" => first > 0
  BY DEF Benefit, DiscountTotal

(* Orders not yet placed have no discount and no right is spent on them; a *)
(* welcome discount is spent on an order of its own customer.              *)
Unspent(o) ==
    /\ orders[o].discount = 0
    /\ ~ByWelcome(o)
    /\ ~ByPromo(o)
OwnWelcome == \A c \in Customers : welcome[c] # None => orders[welcome[c]].customer = c
Backing ==
    /\ \A o \in Orders : orders[o].status = "absent" => Unspent(o)
    /\ OwnWelcome
    /\ DiscountBacked

(* Nothing is spent initially. *)
LEMMA BackingInit == Init => Backing
  BY NoneIsApart DEF Init, Backing, Unspent, OwnWelcome, DiscountBacked, ByWelcome, ByPromo,
                     NoOrder

(* A new order spends the right it was given the discount for, and no      *)
(* other order loses its own.                                              *)
LEMMA BackingCommit ==
  ASSUME Inv, WelcomeKept, Backing, NEW s \in Sessions, NEW x \in Orders, CommitOrder(s, x)
  PROVE  Backing'
  <1> DEFINE c == req[s].customer
             row == NewOrder(s)
             benefit == Benefit(work[s].first, work[s].promo)
             use == [promo |-> req[s].code, customer |-> c, order |-> x]
  <1>1. pc[s] = "commit" /\ orders[x].status = "absent"
    BY DEF CommitOrder
  <1>2. c \in Customers /\ work[s].first \in Nat /\ work[s].promo \in Nat
    BY <1>1 DEF Inv, Typed, TypeOK, Phases, InPhase, Placing, CreateRequest, Basket
  <1>3. /\ benefit \in {"welcome", "promo", "none"}
        /\ row.discount > 0 <=> benefit # "none"
        /\ row.discount \in Nat /\ row.customer = c /\ row.status = "new"
        /\ benefit = "welcome" => welcome[c] = None
    <2>1. row.discount = DiscountTotal(work[s].first, work[s].promo)
      BY DEF NewOrder
    <2>2. row.customer = c /\ row.status = "new" BY DEF NewOrder
    <2>3. row.discount \in Nat BY <1>2, <2>1 DEF DiscountTotal
    <2> HIDE DEF row
    <2> QED BY <1>2, <2>1, <2>2, <2>3, BenefitSpent DEF WelcomeKept
  <1>4. /\ orders' = [orders EXCEPT ![x] = row]
        /\ welcome' = IF benefit = "welcome" THEN [welcome EXCEPT ![c] = x] ELSE welcome
        /\ uses' = IF benefit = "promo" THEN uses \cup {use} ELSE uses
    BY DEF CommitOrder
  <1>5. use.order = x OBVIOUS
  <1>6. /\ orders \in [Orders -> OrderRow] /\ welcome \in [Customers -> Orders \cup {None}]
        /\ None \notin Orders
    BY NoneIsApart DEF Inv, Typed, TypeOK
  <1> HIDE DEF c, row, benefit, use
  <1>7. ~ByWelcome(x) /\ ~ByPromo(x)
    BY <1>1 DEF Backing, Unspent
  <1>8. ASSUME NEW o \in Orders, o # x
        PROVE  orders'[o] = orders[o] /\ (ByWelcome(o)' <=> ByWelcome(o))
                 /\ (ByPromo(o)' <=> ByPromo(o))
    <2>1. orders'[o] = orders[o] BY <1>4, <1>6, <1>8
    <2>2. ByWelcome(o)' <=> ByWelcome(o) BY <1>2, <1>3, <1>4, <1>6, <1>8 DEF ByWelcome
    <2>3. ByPromo(o)' <=> ByPromo(o) BY <1>4, <1>5, <1>8 DEF ByPromo
    <2> QED BY <2>1, <2>2, <2>3
  <1>9. /\ orders'[x] = row
        /\ ByWelcome(x)' <=> benefit = "welcome"
        /\ ByPromo(x)' <=> benefit = "promo"
    <2>1. orders'[x] = row BY <1>4, <1>6
    <2>2. ByWelcome(x)' <=> benefit = "welcome"
      BY <1>2, <1>4, <1>6, <1>7 DEF ByWelcome
    <2>3. ByPromo(x)' <=> benefit = "promo"
      BY <1>4, <1>5, <1>7 DEF ByPromo
    <2> QED BY <2>1, <2>2, <2>3
  <1>10. OwnWelcome'
    <2> SUFFICES ASSUME NEW d \in Customers, welcome'[d] # None
                 PROVE  orders'[welcome'[d]].customer = d
      BY DEF OwnWelcome
    <2>1. CASE benefit = "welcome" /\ d = c
      BY <1>2, <1>3, <1>4, <1>6, <1>9, <2>1
    <2>2. CASE ~(benefit = "welcome" /\ d = c)
      <3>1. welcome'[d] = welcome[d] /\ welcome[d] \in Orders
        BY <1>2, <1>4, <1>6, <2>2
      <3>2. welcome[d] # x
        BY <1>7, <3>1 DEF ByWelcome
      <3> QED BY <1>8, <3>1, <3>2 DEF Backing, OwnWelcome
    <2> QED BY <2>1, <2>2
  <1>11. ASSUME NEW o \in Orders
         PROVE  /\ ~(ByWelcome(o)' /\ ByPromo(o)')
                /\ (orders'[o].discount > 0) <=> (ByWelcome(o)' \/ ByPromo(o)')
    <2>1. CASE o = x BY <1>3, <1>9, <2>1
    <2>2. CASE o # x BY <1>8, <2>2 DEF Backing, DiscountBacked
    <2> QED BY <2>1, <2>2
  <1>12. ASSUME NEW o \in Orders, ByWelcome(o)' PROVE welcome'[orders'[o].customer] = o
    BY <1>6, <1>10, <1>12 DEF ByWelcome, OwnWelcome
  <1>13. ASSUME NEW o \in Orders, orders'[o].status = "absent" PROVE Unspent(o)'
    <2>1. o # x BY <1>3, <1>9, <1>13
    <2> QED BY <1>8, <1>13, <2>1 DEF Backing, Unspent
  <1> QED BY <1>10, <1>11, <1>12, <1>13 DEF Backing, DiscountBacked

(* Moving or weighing an order leaves its discount and its customer alone. *)
LEMMA BackingKept ==
  ASSUME Inv, Backing, UNCHANGED <<welcome, uses>>,
         NEW x \in Orders, NEW row, orders' = [orders EXCEPT ![x] = row],
         orders[x].status # "absent", row.status # "absent",
         row.discount = orders[x].discount, row.customer = orders[x].customer
  PROVE  Backing'
  <1>1. \A o \in Orders : ByWelcome(o)' = ByWelcome(o) /\ ByPromo(o)' = ByPromo(o)
    BY DEF ByWelcome, ByPromo
  <1>2. \A o \in Orders : /\ orders'[o].discount = orders[o].discount
                          /\ orders'[o].customer = orders[o].customer
                          /\ orders'[o].status = "absent" => orders[o].status = "absent"
    BY DEF Inv, Typed, TypeOK
  <1>3. welcome \in [Customers -> Orders \cup {None}]
    BY DEF Inv, Typed, TypeOK
  <1>4. OwnWelcome'
    BY <1>2, <1>3 DEF Backing, OwnWelcome
  <1>5. ASSUME NEW o \in Orders, orders'[o].status = "absent" PROVE Unspent(o)'
    BY <1>1, <1>2, <1>5 DEF Backing, Unspent
  <1>6. DiscountBacked'
    BY <1>1, <1>2 DEF Backing, DiscountBacked
  <1> QED BY <1>4, <1>5, <1>6 DEF Backing

(* Every step keeps discounts and the rights to them together. *)
LEMMA BackingNext == Inv /\ WelcomeKept /\ Backing /\ [Next]_vars => Backing'
  <1> SUFFICES ASSUME Inv, WelcomeKept, Backing, [Next]_vars PROVE Backing'
    OBVIOUS
  <1>1. CASE UNCHANGED <<orders, welcome, uses>>
    BY <1>1 DEF Backing, Unspent, OwnWelcome, DiscountBacked, ByWelcome, ByPromo
  <1>2. ASSUME NEW s \in Sessions, NEW x \in Orders, CommitOrder(s, x) PROVE Backing'
    BY <1>2, BackingCommit
  <1>3. ASSUME NEW s \in Sessions, CommitMove(s) PROVE Backing'
    <2> DEFINE o == req[s].order
               row == Moved(orders[o], req[s].next)
    <2>1. /\ o \in Orders /\ orders[o].status # "absent" /\ req[s].next \in Statuses
          /\ orders[o] \in OrderRow
      BY <1>3, MoveFacts DEF MoveRequest, TransitionAllowed, Inv, Typed, TypeOK
    <2>2. row.status # "absent" /\ row.discount = orders[o].discount
            /\ row.customer = orders[o].customer
      BY <2>1 DEF Moved, OrderRow, Statuses
    <2>3. UNCHANGED <<welcome, uses>> /\ orders' = [orders EXCEPT ![o] = row]
      BY <1>3 DEF CommitMove
    <2> HIDE DEF o, row
    <2> QED BY <2>1, <2>2, <2>3, BackingKept
  <1>4. ASSUME NEW s \in Sessions, CommitWeight(s) PROVE Backing'
    <2> DEFINE o == req[s].order
               row == Weighed(orders[o], req[s].weight)
    <2>1. o \in Orders /\ orders[o].status = "picked" /\ orders[o] \in OrderRow
      BY <1>4, WeighingFacts DEF WeighRequest, Inv, Typed, TypeOK
    <2>2. row.status = "picked" /\ row.discount = orders[o].discount
            /\ row.customer = orders[o].customer
      BY <2>1 DEF Weighed, OrderRow
    <2>3. UNCHANGED <<welcome, uses>> /\ orders' = [orders EXCEPT ![o] = row]
      BY <1>4 DEF CommitWeight
    <2> HIDE DEF o, row
    <2> QED BY <2>1, <2>2, <2>3, BackingKept
  <1> QED BY <1>1, <1>2, <1>3, <1>4, NextActs, ActsTables, AdministerFrame DEF tables

(* Every discount is backed by exactly one right to it, which no other     *)
(* order spends, although placements of a customer and of a code race.     *)
THEOREM DiscountsCorrect == Spec => []DiscountBacked
  <1>1. Spec => []WelcomeKept
    BY KeptInit, KeptNext, Invariance, PTL DEF Spec
  <1>2. Spec => []Backing
    BY <1>1, BackingInit, BackingNext, Invariance, PTL DEF Spec
  <1>3. Backing => DiscountBacked BY DEF Backing
  <1> QED BY <1>2, <1>3, PTL
=============================================================================
