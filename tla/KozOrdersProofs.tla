--------------------------- MODULE KozOrdersProofs ---------------------------
(***************************************************************************)
(* Proofs about KozOrders, for any customers, products, promo codes, carts,*)
(* sessions and orders: type correctness, the discipline of row locks, and *)
(* what it protects.                                                       *)
(***************************************************************************)
EXTENDS KozOrders, FiniteSetTheorems, SequenceTheorems, TLAPS

-----------------------------------------------------------------------------
(* The arithmetic of an order yields natural numbers.                      *)

(* A rounded quotient of naturals (RoundMoney) is a natural number.        *)
LEMMA RoundDivNat == ASSUME NEW a \in Nat, NEW b \in Nat \ {0} PROVE RoundDiv(a, b) \in Nat
  <1>1. (2 * a + b) \div (2 * b) \in Nat
    <2>1. \A m \in Nat, n \in Nat \ {0} : m \div n \in Nat OBVIOUS
    <2> QED BY <2>1
  <1> QED BY <1>1 DEF RoundDiv

(* Rounding a quantity up to whole units gives a natural number.           *)
LEMMA CeilNat == ASSUME NEW q \in Nat PROVE Ceil(q) \in Nat
  BY DEF Ceil, Unit

(* The total of a cart line is a natural number.                           *)
LEMMA LineTotalNat == ASSUME NEW q \in Nat, NEW p \in Nat PROVE LineTotal(q, p) \in Nat
  <1>1. q * p \in Nat OBVIOUS
  <1> QED BY <1>1, RoundDivNat DEF LineTotal, Unit

(* The amount of a promo code is a natural number, no larger than the goods.*)
LEMMA PromoAmountNat ==
  ASSUME NEW t \in PromoTerms, NEW n \in Nat
  PROVE  PromoAmount(t, n) \in Nat /\ PromoAmount(t, n) <= n
  <1>1. t.value \in Nat BY DEF PromoTerms
  <1>2. n * t.value \in Nat BY <1>1
  <1>3. RoundDiv(n * t.value, 100) \in Nat BY <1>2, RoundDivNat
  <1> QED BY <1>1, <1>3 DEF PromoAmount, Least

(* Holding 80% of a total, and the top-up left to the courier's terminal.  *)
LEMMA HoldNat == ASSUME NEW f \in Nat PROVE Hold(f) \in Nat /\ Hold(f) <= f
  BY DEF Hold

(* A final total is a natural number and pays at least the delivery fee.   *)
LEMMA FinalTotalNat ==
  ASSUME NEW g \in Nat, NEW d \in Nat, NEW f \in Nat
  PROVE  FinalTotal(g, d, f) \in Nat /\ f <= FinalTotal(g, d, f)
  BY DEF FinalTotal, Greatest

(* Every quantity has one of the three inventory statuses.                 *)
LEMMA StockStatusType ==
  ASSUME NEW q \in Nat
  PROVE  StockStatus(q) \in {"available", "low_stock", "out_of_stock"}
  BY DEF StockStatus

-----------------------------------------------------------------------------
(* Type correctness.                                                       *)

Typed == TypeOK /\ Phases

(* The initial tables are typed and every session idles. *)
LEMMA InitTyped == Init => Typed
  <1> SUFFICES ASSUME Init PROVE Typed OBVIOUS
  <1> USE DEF Init
  <1>1. inv \in [Products -> InventoryRow]
    <2> SUFFICES ASSUME NEW p \in Products
                 PROVE  [quantity |-> Shelf[p], stock |-> Ceil(Shelf[p]),
                         status |-> StockStatus(Shelf[p]), visible |-> TRUE,
                         price |-> Price[p]] \in InventoryRow
      OBVIOUS
    <2>1. Shelf[p] \in Nat /\ Price[p] \in Nat BY ConstantTypes
    <2> QED BY <2>1, CeilNat, StockStatusType DEF InventoryRow
  <1>2. NoOrder \in OrderRow
    BY DEF NoOrder, OrderRow, NoGoods, Statuses
  <1>3. EmptyBasket \in Basket
    BY DEF EmptyBasket, Basket, NoGoods
  <1>4. customer \in [Customers -> Subscription]
    BY ConstantTypes DEF Subscription
  <1>5. posPaid \in [Orders -> Seq(Nat)]
    OBVIOUS
  <1>6. TypeOK
    BY <1>1, <1>2, <1>3, <1>4, <1>5, ConstantTypes DEF TypeOK
  <1>7. Phases
    BY DEF Phases, InPhase, Placing, Handling, EmptyBasket
  <1> QED BY <1>6, <1>7 DEF Typed

(* Ending a session, whatever else the action does.                        *)
LEMMA EndSessionTyped ==
  ASSUME Typed, NEW s \in Sessions, EndSession(s)
  PROVE  /\ locks' \in [Rows -> Sessions \cup {None}]
         /\ pc' \in [Sessions -> Placing \cup Handling \cup {"idle"}]
         /\ req' \in [Sessions -> CreateRequest \cup MoveRequest \cup WeighRequest \cup {NoRequest}]
         /\ work' \in [Sessions -> Basket]
         /\ Phases'
  <1> USE DEF Typed, TypeOK, EndSession
  <1>1. EmptyBasket \in Basket
    BY DEF EmptyBasket, Basket, NoGoods
  <1>2. Phases'
    <2> SUFFICES ASSUME NEW t \in Sessions PROVE InPhase(t)'
      BY DEF Phases
    <2>1. CASE t = s
      BY <2>1 DEF InPhase, Placing, Handling, EmptyBasket
    <2>2. CASE t # s
      BY <2>2 DEF Phases, InPhase
    <2> QED BY <2>1, <2>2
  <1> QED BY <1>1, <1>2

(* A rollback keeps the types and leaves its session idle. *)
LEMMA RollbackTyped ==
  ASSUME Typed, NEW s \in Sessions, Rollback(s)
  PROVE  Typed'
  BY EndSessionTyped DEF Typed, TypeOK, Rollback, tables

(* Placing an order: the cart line that is found and reserved.             *)
LEMMA LineTyped ==
  ASSUME Typed, NEW s \in Sessions, pc[s] \in {"find", "reserve"}
  PROVE  /\ Line(s).product \in Products
         /\ Line(s).qty \in Nat \ {0}
         /\ req[s] \in CreateRequest
  <1>1. req[s] \in CreateRequest /\ work[s].line \in 1 .. Len(req[s].cart)
    BY DEF Typed, Phases, InPhase, Placing
  <1>2. req[s].cart \in Seq(CartLine)
    BY <1>1, ConstantTypes DEF CreateRequest
  <1>3. Line(s) \in CartLine
    BY <1>1, <1>2, ElementOfSeq DEF Line
  <1> QED BY <1>1, <1>3 DEF CartLine

(* The row version a session sees is an inventory row.                     *)
LEMMA ViewTyped ==
  ASSUME Typed, NEW s \in Sessions, NEW p \in Products
  PROVE  View(s, p) \in InventoryRow
  BY DEF Typed, TypeOK, View

(* A basket stays a basket when a line joins it.                           *)
LEMMA WithLineTyped ==
  ASSUME NEW b \in Basket, NEW p \in Products, NEW q \in Nat \ {0}
  PROVE  WithLine(b, p, q) \in Basket
  <1>1. LineTotal(q, b.price) \in Nat
    BY LineTotalNat DEF Basket
  <1>2. Ceil(q) \in Nat
    BY CeilNat
  <1>3. [b.goods EXCEPT ![p] = b.goods[p] + q] \in [Products -> Nat]
    BY DEF Basket
  <1>4. [b.pieces EXCEPT ![p] = b.pieces[p] + Ceil(q)] \in [Products -> Nat]
    BY <1>2 DEF Basket
  <1>5. b.subtotal + LineTotal(q, b.price) \in Nat
    BY <1>1 DEF Basket
  <1>6. b.weight + (IF p \in Weighted THEN q ELSE 0) \in Nat
    BY DEF Basket
  <1>7. b.line + 1 \in Nat \ {0}
    BY DEF Basket
  <1>8. WithLine(b, p, q) =
          [b EXCEPT !.goods = [b.goods EXCEPT ![p] = b.goods[p] + q],
                    !.pieces = [b.pieces EXCEPT ![p] = b.pieces[p] + Ceil(q)],
                    !.subtotal = b.subtotal + LineTotal(q, b.price),
                    !.weight = b.weight + (IF p \in Weighted THEN q ELSE 0),
                    !.line = b.line + 1]
    BY DEF WithLine, Basket
  <1> QED BY <1>3, <1>4, <1>5, <1>6, <1>7, <1>8, ZenonT(30) DEF Basket

(* A submitted request puts its session at the start of its transaction. *)
LEMMA SubmitTyped ==
  ASSUME Typed, NEW s \in Sessions, Submit(s)
  PROVE  Typed'
  <1> USE DEF Typed, TypeOK
  <1>1. ASSUME NEW c \in Customers, NEW cart \in Carts, NEW code \in Promos \cup {None},
               SubmitOrder(s, [kind |-> "create", customer |-> c, cart |-> cart, code |-> code])
        PROVE  Typed'
    <2> DEFINE r == [kind |-> "create", customer |-> c, cart |-> cart, code |-> code]
    <2>1. r \in CreateRequest BY DEF CreateRequest
    <2>2. Len(cart) \in Nat /\ Len(cart) > 0
      BY ConstantTypes, EmptySeq, LenProperties
    <2>3. TypeOK'
      BY <1>1, <2>1 DEF SubmitOrder, Proceed, tables, Placing
    <2>4. ASSUME NEW t \in Sessions PROVE InPhase(t)'
      <3>1. CASE t = s
        BY <1>1, <2>1, <2>2, <3>1 DEF SubmitOrder, Proceed, Phases, InPhase, Placing, Handling,
              EmptyBasket
      <3>2. CASE t # s
        BY <1>1, <3>2 DEF SubmitOrder, Proceed, Phases, InPhase
      <3> QED BY <3>1, <3>2
    <2> QED BY <2>3, <2>4 DEF Phases
  <1>2. ASSUME NEW r \in MoveRequest \cup WeighRequest, SubmitStaff(s, r)
        PROVE  Typed'
    <2>1. TypeOK'
      BY <1>2 DEF SubmitStaff, Proceed, tables, Handling
    <2>2. ASSUME NEW t \in Sessions PROVE InPhase(t)'
      <3>1. CASE t = s
        BY <1>2, <3>1 DEF SubmitStaff, Proceed, Phases, InPhase, Placing, Handling,
              EmptyBasket
      <3>2. CASE t # s
        BY <1>2, <3>2 DEF SubmitStaff, Proceed, Phases, InPhase
      <3> QED BY <3>1, <3>2
    <2> QED BY <2>1, <2>2 DEF Phases
  <1>3. ASSUME NEW o \in Orders, NEW m \in Moves
        PROVE  [kind |-> "move", order |-> o, next |-> m[1], by |-> m[2]] \in MoveRequest
    <2>1. m[1] \in Statuses /\ m[2] \in Staff BY ConstantTypes
    <2> QED BY <2>1 DEF MoveRequest
  <1>4. ASSUME NEW o \in Orders, NEW w \in Weights
        PROVE  [kind |-> "weigh", order |-> o, weight |-> w] \in WeighRequest
    BY DEF WeighRequest
  <1> QED BY <1>1, <1>2, <1>3, <1>4 DEF Submit

(* A basket that is given its day is a basket. *)
LEMMA DatedBasket ==
  ASSUME NEW b \in Basket, NEW d \in Nat
  PROVE  [b EXCEPT !.day = d] \in Basket
  BY DEF Basket

(* Locking the customer row keeps the types and the phases. *)
LEMMA LockCustomerTyped ==
  ASSUME Typed, NEW s \in Sessions, LockCustomer(s)
  PROVE  Typed'
  <1> USE DEF Typed, TypeOK
  <1>1. CASE Rollback(s) BY <1>1, RollbackTyped
  <1>2. CASE ~Rollback(s)
    <2>1. work' = [work EXCEPT ![s].day = today] /\ UNCHANGED <<tables, draft, req>>
          /\ pc' = [pc EXCEPT ![s] = "find"] /\ Take(s, req[s].customer) /\ pc[s] = "customer"
      BY <1>2 DEF LockCustomer, Proceed
    <2>2. work' \in [Sessions -> Basket]
      <3>1. [work[s] EXCEPT !.day = today] \in Basket
        BY DatedBasket
      <3> QED BY <2>1, <3>1
    <2>3. TypeOK'
      BY <2>1, <2>2 DEF Take, tables, Placing
    <2>4. ASSUME NEW t \in Sessions PROVE InPhase(t)'
      <3>1. CASE t = s
        BY <2>1, <3>1 DEF Phases, InPhase, Placing, Handling
      <3>2. CASE t # s
        BY <2>1, <3>2 DEF Phases, InPhase
      <3> QED BY <3>1, <3>2
    <2> QED BY <2>3, <2>4 DEF Phases
  <1> QED BY <1>1, <1>2

(* Reading a product keeps the types and the phases. *)
LEMMA FindProductTyped ==
  ASSUME Typed, NEW s \in Sessions, FindProduct(s)
  PROVE  Typed'
  <1> USE DEF Typed, TypeOK
  <1>1. CASE Rollback(s) BY <1>1, RollbackTyped
  <1>2. CASE ~Rollback(s)
    <2> DEFINE row == View(s, Line(s).product)
    <2>1. work' = [work EXCEPT ![s].price = row.price] /\ UNCHANGED <<tables, draft, locks, req>>
          /\ pc' = [pc EXCEPT ![s] = "reserve"] /\ pc[s] = "find"
      BY <1>2 DEF FindProduct, Proceed
    <2>2. row \in InventoryRow
      BY <2>1, LineTyped, ViewTyped
    <2>3. [work[s] EXCEPT !.price = row.price] \in Basket
      <3>1. row.price \in Nat BY <2>2 DEF InventoryRow
      <3>2. work[s] \in Basket OBVIOUS
      <3> HIDE DEF row, TypeOK
      <3> QED BY <3>1, <3>2 DEF Basket
    <2>4. TypeOK'
      BY <2>1, <2>3 DEF tables, Placing
    <2>5. ASSUME NEW t \in Sessions PROVE InPhase(t)'
      <3>1. CASE t = s
        BY <2>1, <3>1 DEF Phases, InPhase, Placing, Handling
      <3>2. CASE t # s
        BY <2>1, <3>2 DEF Phases, InPhase
      <3> QED BY <3>1, <3>2
    <2> QED BY <2>4, <2>5 DEF Phases
  <1> QED BY <1>1, <1>2

(* A reservation keeps quantities natural: it is refused beyond the row. *)
LEMMA ReserveTyped ==
  ASSUME Typed, NEW s \in Sessions, Reserve(s)
  PROVE  Typed'
  <1> USE DEF Typed, TypeOK
  <1> DEFINE p == Line(s).product
             q == Line(s).qty
             row == View(s, p)
             label == IF work[s].line = Len(req[s].cart) THEN "discount" ELSE "find"
  <1>0. pc[s] = "reserve" BY DEF Reserve
  <1>1. CASE Rollback(s) BY <1>1, RollbackTyped
  <1>2. CASE ~Rollback(s)
    <2>1. /\ row.quantity >= q
          /\ Take(s, p)
          /\ draft' = [draft EXCEPT ![p] = Reserved(row, q)]
          /\ work' = [work EXCEPT ![s] = WithLine(work[s], p, q)]
          /\ pc' = [pc EXCEPT ![s] = label]
          /\ UNCHANGED <<tables, req>>
      BY <1>2 DEF Reserve, Proceed
    <2>2. p \in Products /\ q \in Nat \ {0} /\ row \in InventoryRow /\ req[s] \in CreateRequest
      BY <1>0, LineTyped, ViewTyped
    <2>3. Ceil(q) \in Nat
      BY <2>2, CeilNat
    <2>4. Reserved(row, q) \in InventoryRow
      <3>1. row.quantity - q \in Nat BY <2>1, <2>2 DEF InventoryRow
      <3>2. StockStatus(row.quantity - q) \in {"available", "low_stock", "out_of_stock"}
        BY <3>1, StockStatusType
      <3>3. Greatest(0, row.stock - Ceil(q)) \in Nat
        BY <2>2, <2>3 DEF InventoryRow, Greatest
      <3> HIDE DEF p, q, row
      <3> QED BY <2>2, <3>1, <3>2, <3>3 DEF Reserved, InventoryRow
    <2>5. WithLine(work[s], p, q) \in Basket
      BY <2>2, WithLineTyped
    <2>6. TypeOK'
      BY <2>1, <2>4, <2>5 DEF Take, tables, Placing
    <2>7. work'[s].line = work[s].line + 1 /\ work'[s].promo = work[s].promo
      <3>1. work[s] \in Basket OBVIOUS
      <3> QED BY <2>1, <3>1 DEF WithLine, Basket
    <2>8. Len(req[s].cart) \in Nat
      BY <2>2, ConstantTypes, LenProperties DEF CreateRequest
    <2>9. ASSUME NEW t \in Sessions PROVE InPhase(t)'
      <3>1. CASE t = s
        BY <1>0, <2>1, <2>2, <2>7, <2>8, <3>1 DEF Phases, InPhase, Placing, Handling
      <3>2. CASE t # s
        BY <2>1, <3>2 DEF Phases, InPhase
      <3> QED BY <3>1, <3>2
    <2> QED BY <2>6, <2>9 DEF Phases
  <1> QED BY <1>1, <1>2

(* The welcome discount offered to an order is a natural number.           *)
LEMMA FirstAmountNat ==
  ASSUME Typed, NEW s \in Sessions, req[s] \in CreateRequest
  PROVE  FirstAmount(s) \in Nat
  <1>1. WelcomeGift[req[s].customer] \in Nat
    BY ConstantTypes DEF CreateRequest
  <1>2. work[s].subtotal \in Nat
    BY DEF Typed, TypeOK, Basket
  <1> QED BY <1>1, <1>2 DEF FirstAmount, WelcomeAmount, Least

(* The order row that is inserted is well formed.                          *)
LEMMA NewOrderTyped ==
  ASSUME Typed, NEW s \in Sessions, req[s] \in CreateRequest
  PROVE  NewOrder(s) \in OrderRow
  <1> DEFINE b == work[s]
             discount == DiscountTotal(b.first, b.promo)
             fee == DeliveryFee(b.subtotal, Threshold, Fee)
             final == FinalTotal(b.subtotal, discount, fee)
  <1>1. b \in Basket
    BY DEF Typed, TypeOK
  <1>2. discount \in Nat
    BY <1>1 DEF DiscountTotal, Basket
  <1>3. fee \in Nat
    BY ConstantTypes DEF DeliveryFee
  <1>4. final \in Nat
    BY <1>1, <1>2, <1>3, FinalTotalNat DEF Basket
  <1>5. Hold(final) \in Nat /\ final - Hold(final) \in Nat
    <2> HIDE DEF final
    <2> QED BY <1>4, HoldNat
  <1>6. req[s].customer \in Customers
    BY DEF CreateRequest
  <1>7. NewOrder(s) =
          [customer |-> req[s].customer, status |-> "new",
           goods |-> b.goods, pieces |-> b.pieces,
           subtotal |-> b.subtotal, discount |-> discount, fee |-> fee,
           estimated |-> b.weight, final |-> final,
           hold |-> Hold(final), capture |-> 0, pos |-> final - Hold(final),
           payment |-> "pending"]
    BY DEF NewOrder
  <1>8. /\ b.goods \in [Products -> Nat] /\ b.pieces \in [Products -> Nat]
        /\ b.subtotal \in Nat /\ b.weight \in Nat
    BY <1>1 DEF Basket
  <1> HIDE DEF b, discount, fee, final
  <1> QED BY <1>2, <1>3, <1>4, <1>5, <1>6, <1>7, <1>8 DEF OrderRow, Statuses

(* A placement without a code keeps the types and the phases. *)
LEMMA SkipPromoTyped ==
  ASSUME Typed, NEW s \in Sessions, SkipPromo(s)
  PROVE  Typed'
  <1> USE DEF Typed, TypeOK
  <1>1. req[s] \in CreateRequest
    BY DEF SkipPromo, Phases, InPhase, Placing
  <1>2. FirstAmount(s) \in Nat
    BY <1>1, ConstantTypes, FirstAmountNat
  <1>3. [work[s] EXCEPT !.first = FirstAmount(s)] \in Basket
    <2>1. work[s] \in Basket OBVIOUS
    <2> HIDE DEF TypeOK
    <2> QED BY <1>2, <2>1 DEF Basket
  <1>4. TypeOK'
    BY <1>3 DEF SkipPromo, Proceed, tables, Placing
  <1>5. ASSUME NEW t \in Sessions PROVE InPhase(t)'
    <2>1. work[s].promo = 0
      <3>1. work[s].promo \in Nat BY DEF Basket
      <3>2. InPhase(s) BY DEF Phases
      <3>3. ~(work[s].promo > 0) BY <3>2 DEF InPhase, SkipPromo
      <3> HIDE DEF TypeOK
      <3> QED BY <3>1, <3>3
    <2>2. work'[s].promo = 0
      BY <2>1 DEF SkipPromo, Basket
    <2> QED BY <2>2, <1>1 DEF SkipPromo, Proceed, Phases, InPhase, Placing, Handling
  <1> QED BY <1>4, <1>5 DEF Phases

(* Locking and checking a code keeps the types and the phases. *)
LEMMA LockPromoTyped ==
  ASSUME Typed, NEW s \in Sessions, LockPromo(s)
  PROVE  Typed'
  <1> USE DEF Typed, TypeOK
  <1> DEFINE first == FirstAmount(s)
             promo == PromoAmount(Terms[req[s].code], work[s].subtotal)
  <1>1. CASE Rollback(s) BY <1>1, RollbackTyped
  <1>2. CASE ~Rollback(s)
    <2>1. /\ pc[s] = "discount"
          /\ req[s].code # None
          /\ Take(s, req[s].code)
          /\ work' = [work EXCEPT ![s] = [work[s] EXCEPT !.first = first, !.promo = promo]]
          /\ pc' = [pc EXCEPT ![s] = "commit"]
          /\ UNCHANGED <<tables, draft, req>>
      BY <1>2 DEF LockPromo, Proceed
    <2>2. req[s] \in CreateRequest
      BY <2>1 DEF Phases, InPhase, Placing
    <2>3. req[s].code \in Promos
      BY <2>1, <2>2 DEF CreateRequest
    <2>4. work[s] \in Basket
      OBVIOUS
    <2>5. first \in Nat
      BY <2>2, FirstAmountNat
    <2>6. promo \in Nat
      BY <2>3, <2>4, ConstantTypes, PromoAmountNat DEF Basket
    <2>7. [work[s] EXCEPT !.first = first, !.promo = promo] \in Basket
      <3> HIDE DEF first, promo, TypeOK
      <3> QED BY <2>4, <2>5, <2>6 DEF Basket
    <2>8. TypeOK'
      BY <2>1, <2>7 DEF Take, tables, Placing
    <2>9. ASSUME NEW t \in Sessions PROVE InPhase(t)'
      BY <2>1, <2>2, <2>3 DEF Phases, InPhase, Placing, Handling
    <2> QED BY <2>8, <2>9 DEF Phases
  <1> QED BY <1>1, <1>2

(* The inserted order row is typed: its amounts are natural numbers. *)
LEMMA CommitOrderTyped ==
  ASSUME Typed, NEW s \in Sessions, NEW o \in Orders, CommitOrder(s, o)
  PROVE  Typed'
  <1> USE DEF Typed, TypeOK
  <1>1. req[s] \in CreateRequest /\ req[s].customer \in Customers
    BY DEF CommitOrder, Phases, InPhase, Placing, CreateRequest
  <1>2. NewOrder(s) \in OrderRow
    BY <1>1, NewOrderTyped
  <1>3. inv' \in [Products -> InventoryRow]
    BY ViewTyped DEF CommitOrder, CommitInventory
  <1>4. uses' \subseteq Usage
    <2>1. CASE Benefit(work[s].first, work[s].promo) = "promo"
      <3>1. work[s].first \in Nat /\ work[s].promo \in Nat
        BY DEF Basket
      <3>2. work[s].promo > 0
        BY <2>1, <3>1 DEF Benefit
      <3>3. req[s].code \in Promos
        BY <3>2 DEF Phases, InPhase
      <3> QED BY <1>1, <3>3 DEF CommitOrder, Usage
    <2>2. CASE Benefit(work[s].first, work[s].promo) # "promo"
      BY <2>2 DEF CommitOrder
    <2> QED BY <2>1, <2>2
  <1>5. welcome' \in [Customers -> Orders \cup {None}]
    BY DEF CommitOrder
  <1>6. orders' \in [Orders -> OrderRow]
    BY <1>2 DEF CommitOrder
  <1> QED
    BY <1>3, <1>4, <1>5, <1>6, EndSessionTyped DEF CommitOrder, CommitInventory

(* Staff requests.                                                         *)
LEMMA LockOrderTyped ==
  ASSUME Typed, NEW s \in Sessions, LockOrder(s)
  PROVE  Typed'
  <1> USE DEF Typed, TypeOK
  <1>1. CASE Rollback(s) BY <1>1, RollbackTyped
  <1>2. CASE ~Rollback(s)
    <2> DEFINE label == IF req[s].kind = "move" /\ req[s].next \in Returning
                        THEN "return" ELSE "settle"
    <2>1. /\ pc[s] = "order"
          /\ Take(s, req[s].order)
          /\ pc' = [pc EXCEPT ![s] = label]
          /\ UNCHANGED <<tables, draft, req, work>>
      BY <1>2 DEF LockOrder, Proceed
    <2>2. label \in {"return", "settle"} /\ (label = "return" => req[s].kind = "move")
      OBVIOUS
    <2> HIDE DEF label
    <2>3. TypeOK'
      BY <2>1, <2>2 DEF Take, tables, Handling
    <2>4. ASSUME NEW t \in Sessions PROVE InPhase(t)'
      <3>1. CASE t = s
        BY <2>1, <2>2, <3>1 DEF Phases, InPhase, Placing, Handling
      <3>2. CASE t # s
        BY <2>1, <3>2 DEF Phases, InPhase
      <3> QED BY <3>1, <3>2
    <2> QED BY <2>3, <2>4 DEF Phases
  <1> QED BY <1>1, <1>2

(* The row that gets an order's goods back is an inventory row. *)
LEMMA ReturnedTyped ==
  ASSUME NEW row \in InventoryRow, NEW order \in OrderRow, NEW p \in Products, NEW by \in Staff
  PROVE  Returned(row, order, p, by) \in InventoryRow
  <1>1. row.quantity + order.goods[p] \in Nat
    BY DEF InventoryRow, OrderRow
  <1>2. Ceil(order.goods[p]) \in Nat
    BY CeilNat DEF OrderRow
  <1>3. row.stock + (IF by = "manager" THEN order.pieces[p] ELSE Ceil(order.goods[p])) \in Nat
    BY <1>2 DEF InventoryRow, OrderRow
  <1>4. (IF by = "manager" THEN "available" ELSE StockStatus(row.quantity + order.goods[p]))
          \in {"available", "low_stock", "out_of_stock"}
    BY <1>1, StockStatusType
  <1> QED BY <1>1, <1>3, <1>4 DEF Returned, InventoryRow

(* Returning the goods of a row keeps the types and the phases. *)
LEMMA ReturnProductTyped ==
  ASSUME Typed, NEW s \in Sessions, NEW p \in Products, ReturnProduct(s, p)
  PROVE  Typed'
  <1> USE DEF Typed, TypeOK
  <1> DEFINE row == Returned(inv[p], orders[req[s].order], p, req[s].by)
  <1>1. row \in InventoryRow
    <2>1. req[s] \in MoveRequest
      BY DEF ReturnProduct, Phases, InPhase, Handling, MoveRequest, WeighRequest
    <2> QED BY <2>1, ReturnedTyped DEF MoveRequest
  <1>2. TypeOK'
    BY <1>1 DEF ReturnProduct, Take, tables
  <1>3. Phases'
    BY DEF ReturnProduct, tables, Phases, InPhase
  <1> QED BY <1>2, <1>3

(* Committing a status move keeps the types and the phases. *)
LEMMA CommitMoveTyped ==
  ASSUME Typed, NEW s \in Sessions, CommitMove(s)
  PROVE  Typed'
  <1> USE DEF Typed, TypeOK
  <1>1. req[s] \in MoveRequest
    BY DEF CommitMove, ReadyToSettle, Phases, InPhase, Handling, MoveRequest, WeighRequest
  <1>2. inv' \in [Products -> InventoryRow]
    BY ViewTyped DEF CommitMove, CommitInventory
  <1>3. ASSUME NEW row \in OrderRow, NEW next \in Statuses
        PROVE  Moved(row, next) \in OrderRow
    BY DEF Moved, OrderRow
  <1>4. orders' \in [Orders -> OrderRow]
    BY <1>1, <1>3 DEF CommitMove, MoveRequest
  <1>5. posPaid' \in [Orders -> Seq(Nat)]
    <2>1. ASSUME NEW o \in Orders PROVE Append(posPaid[o], orders[o].pos) \in Seq(Nat)
      BY DEF OrderRow
    <2> QED BY <1>1, <2>1 DEF CommitMove, MoveRequest
  <1> QED
    BY <1>2, <1>4, <1>5, EndSessionTyped DEF CommitMove, CommitInventory

(* Weighing keeps an order well formed.                                    *)
LEMMA WeighedTyped ==
  ASSUME NEW row \in OrderRow, row.estimated > 0, NEW w \in Nat \ {0}
  PROVE  Weighed(row, w) \in OrderRow
  <1> DEFINE goods == Reweighed(row.subtotal, w, row.estimated)
             final == FinalTotal(goods, row.discount, row.fee)
             capture == Capture(row.hold, final)
  <1>1. goods \in Nat
    <2>1. row.subtotal \in Nat /\ row.estimated \in Nat \ {0} BY DEF OrderRow
    <2>2. row.subtotal * w \in Nat BY <2>1
    <2> QED BY <2>1, <2>2, RoundDivNat DEF Reweighed
  <1> HIDE DEF goods
  <1>2. final \in Nat
    BY <1>1, FinalTotalNat DEF OrderRow
  <1> HIDE DEF final
  <1>3. capture \in Nat
    BY <1>2 DEF Capture, Least, OrderRow
  <1> HIDE DEF capture
  <1>4. PosTopup(final, capture) \in Nat
    BY <1>2, <1>3 DEF PosTopup, Greatest
  <1>5. Weighed(row, w) = [row EXCEPT !.final = final, !.capture = capture,
                                      !.pos = PosTopup(final, capture)]
    BY DEF Weighed, goods, final, capture
  <1> QED BY <1>2, <1>3, <1>4, <1>5, ZenonT(30) DEF OrderRow

(* Committing a weight divides by a positive estimate: amounts stay natural. *)
LEMMA CommitWeightTyped ==
  ASSUME Typed, Checked, NEW s \in Sessions, CommitWeight(s)
  PROVE  Typed'
  <1> USE DEF Typed, TypeOK
  <1>1. pc[s] \in {"return", "settle"} /\ req[s].kind = "weigh"
    BY DEF CommitWeight, ReadyToSettle
  <1>2. req[s] \in WeighRequest
    BY <1>1 DEF Phases, InPhase, Handling, MoveRequest, WeighRequest
  <1>3. orders[req[s].order].estimated > 0
    BY <1>1 DEF Checked, StillAllowed, CanWeigh, Handling
  <1>4. inv' \in [Products -> InventoryRow]
    BY ViewTyped DEF CommitWeight, CommitInventory
  <1>5. Weighed(orders[req[s].order], req[s].weight) \in OrderRow
    BY <1>2, <1>3, ConstantTypes, WeighedTyped DEF WeighRequest
  <1>6. orders' \in [Orders -> OrderRow]
    BY <1>5 DEF CommitWeight
  <1> QED
    BY <1>4, <1>6, EndSessionTyped DEF CommitWeight, CommitInventory

(* The single statements of the administration.                            *)
LEMMA PatchedTyped ==
  ASSUME NEW row \in InventoryRow, NEW patch \in Patch
  PROVE  Patched(row, patch) \in InventoryRow
  <1> DEFINE q == IF patch.quantity = None THEN row.quantity ELSE patch.quantity
  <1>1. q \in Nat
    BY DEF InventoryRow, Patch
  <1>2. Ceil(q) \in Nat /\ StockStatus(q) \in {"available", "low_stock", "out_of_stock"}
    BY <1>1, CeilNat, StockStatusType
  <1> HIDE DEF q
  <1>3. (IF patch.visible = None THEN row.visible ELSE patch.visible) \in BOOLEAN
    BY DEF InventoryRow, Patch
  <1>4. (IF patch.price = None THEN row.price ELSE patch.price) \in Nat
    BY DEF InventoryRow, Patch
  <1>5. (IF patch.quantity = None THEN row.stock ELSE Ceil(q)) \in Nat
    BY <1>2 DEF InventoryRow
  <1>6. (IF patch.quantity = None THEN row.status ELSE StockStatus(q))
          \in {"available", "low_stock", "out_of_stock"}
    BY <1>2 DEF InventoryRow
  <1>7. Patched(row, patch) =
          [quantity |-> q,
           stock    |-> IF patch.quantity = None THEN row.stock ELSE Ceil(q),
           status   |-> IF patch.quantity = None THEN row.status ELSE StockStatus(q),
           visible  |-> IF patch.visible = None THEN row.visible ELSE patch.visible,
           price    |-> IF patch.price = None THEN row.price ELSE patch.price]
    BY DEF Patched, q
  <1> QED BY <1>1, <1>3, <1>4, <1>5, <1>6, <1>7 DEF InventoryRow

(* Writing an inventory row in one statement keeps the types. *)
LEMMA PutTyped ==
  ASSUME Typed, NEW p \in Products, NEW row \in InventoryRow, Put(p, row)
  PROVE  Typed'
  <1> USE DEF Typed, TypeOK
  <1>1. supply[p] + row.quantity - inv[p].quantity \in Int
    BY DEF InventoryRow
  <1>2. TypeOK'
    BY <1>1 DEF Put, sessionVars
  <1>3. Phases'
    BY DEF Put, sessionVars, Phases, InPhase
  <1> QED BY <1>2, <1>3

(* The statements of administrators keep the types and the phases. *)
LEMMA AdministerTyped ==
  ASSUME Typed, Administer
  PROVE  Typed'
  <1> USE DEF Typed, TypeOK
  <1>1. ASSUME NEW p \in Products, NEW patch \in Patches, UpdateInventory(p, patch)
        PROVE  Typed'
    <2>1. Patched(inv[p], patch) \in InventoryRow
      BY ConstantTypes, PatchedTyped
    <2> QED BY <1>1, <2>1, PutTyped DEF UpdateInventory
  <1>2. ASSUME NEW p \in Products, NEW q \in Receipts, ReceiveInventory(p, q)
        PROVE  Typed'
    <2> DEFINE row == [inv[p] EXCEPT !.quantity = @ + q, !.stock = @ + Ceil(q),
                                     !.status = "available"]
    <2>1. inv[p] \in InventoryRow OBVIOUS
    <2>2. q \in Nat /\ Ceil(q) \in Nat
      BY ConstantTypes, CeilNat
    <2>3. inv[p].quantity + q \in Nat /\ inv[p].stock + Ceil(q) \in Nat
      BY <2>1, <2>2 DEF InventoryRow
    <2>4. row \in InventoryRow
      <3> HIDE DEF TypeOK
      <3> QED BY <2>1, <2>3 DEF InventoryRow
    <2> QED BY <1>2, <2>4, PutTyped DEF ReceiveInventory, Received
  <1>3. ASSUME NEW c \in Customers, NEW sub \in Subscription, SetSubscription(c, sub)
        PROVE  Typed'
    BY <1>3 DEF SetSubscription, sessionVars, Phases, InPhase
  <1>4. ASSUME NEW c \in Customers, PauseSubscription(c)
        PROVE  Typed'
    <2>1. [customer[c] EXCEPT !.status = "paused"] \in Subscription
      BY ZenonT(30) DEF Subscription
    <2> QED BY <1>3, <1>4, <2>1 DEF PauseSubscription
  <1>5. ASSUME NEW c \in Customers, CancelSubscription(c)
        PROVE  Typed'
    <2>1. [status |-> "cancelled", end |-> today] \in Subscription BY DEF Subscription
    <2> QED BY <1>3, <1>5, <2>1 DEF CancelSubscription
  <1>6. ASSUME NEW q \in Promos, DeletePromo(q)
        PROVE  Typed'
    BY <1>6 DEF DeletePromo, sessionVars, Phases, InPhase
  <1>7. ASSUME NextDay PROVE Typed'
    BY <1>7 DEF NextDay, sessionVars, Phases, InPhase
  <1> QED BY <1>1, <1>2, <1>4, <1>5, <1>6, <1>7 DEF Administer

(* Every step keeps the state typed.                                       *)
LEMMA NextTyped ==
  ASSUME Typed, Checked, [Next]_vars
  PROVE  Typed'
  <1>1. CASE UNCHANGED vars
    BY <1>1 DEF vars, Typed, TypeOK, Phases, InPhase
  <1>2. CASE Administer
    BY <1>2, AdministerTyped
  <1>3. ASSUME NEW s \in Sessions, Submit(s) PROVE Typed'
    BY <1>3, SubmitTyped
  <1>4. ASSUME NEW s \in Sessions, Step(s) PROVE Typed'
    BY <1>4, LockCustomerTyped, FindProductTyped, ReserveTyped, SkipPromoTyped,
       LockPromoTyped, CommitOrderTyped, LockOrderTyped, ReturnProductTyped,
       CommitMoveTyped, CommitWeightTyped DEF Step
  <1>5. ASSUME NEW s \in Sessions, AbortVictim(s) \/ Fail(s) PROVE Typed'
    BY <1>5, RollbackTyped DEF AbortVictim, Fail
  <1> QED BY <1>1, <1>2, <1>3, <1>4, <1>5 DEF Next

-----------------------------------------------------------------------------
(* Row locks.                                                              *)

Acts(s) == Submit(s) \/ Step(s) \/ AbortVictim(s) \/ Fail(s)

(* Nothing that belongs to another session changes.                        *)
KeepsOthers(s) ==
    \A t \in Sessions \ {s} :
        /\ pc'[t] = pc[t] /\ req'[t] = req[t] /\ work'[t] = work[t]
        /\ \A r \in Rows : locks[r] = t => locks'[r] = t

(* Taking a free row takes it from no other session. *)
LEMMA TakeKeepsOthers ==
  ASSUME Typed, NEW s \in Sessions, NEW r, Free(s, r), Take(s, r),
         \A t \in Sessions \ {s} : pc'[t] = pc[t] /\ req'[t] = req[t] /\ work'[t] = work[t]
  PROVE  KeepsOthers(s)
  BY NoneIsApart DEF Typed, TypeOK, Free, Take, KeepsOthers

(* The end of a session releases none of the others' rows. *)
LEMMA EndKeepsOthers ==
  ASSUME Typed, NEW s \in Sessions, EndSession(s)
  PROVE  KeepsOthers(s)
  BY DEF Typed, TypeOK, EndSession, KeepsOthers

(* No step of a session disturbs the phase or the locks of another. *)
LEMMA ActsKeepsOthers ==
  ASSUME Typed, NEW s \in Sessions, Acts(s)
  PROVE  KeepsOthers(s)
  <1> USE DEF Typed, TypeOK
  <1>1. CASE EndSession(s)
    BY <1>1, EndKeepsOthers
  <1>2. CASE UNCHANGED locks /\ Submit(s)
    BY <1>2 DEF Submit, SubmitOrder, SubmitStaff, Proceed, KeepsOthers
  <1>3. CASE UNCHANGED locks /\ (FindProduct(s) \/ SkipPromo(s)) /\ ~EndSession(s)
    BY <1>3 DEF FindProduct, SkipPromo, Proceed, KeepsOthers, Rollback
  <1>4. CASE LockCustomer(s) /\ ~EndSession(s)
    BY <1>4, TakeKeepsOthers DEF LockCustomer, Proceed, Rollback
  <1>5. CASE Reserve(s) /\ ~EndSession(s)
    BY <1>5, TakeKeepsOthers DEF Reserve, Proceed, Rollback
  <1>6. CASE LockPromo(s) /\ ~EndSession(s)
    BY <1>6, TakeKeepsOthers DEF LockPromo, Proceed, Rollback
  <1>7. CASE LockOrder(s) /\ ~EndSession(s)
    BY <1>7, TakeKeepsOthers DEF LockOrder, Proceed, Rollback
  <1>8. ASSUME NEW p \in Products, ReturnProduct(s, p) PROVE KeepsOthers(s)
    BY <1>8, TakeKeepsOthers DEF ReturnProduct
  <1>9. ASSUME Submit(s) PROVE UNCHANGED locks
    BY <1>9 DEF Submit, SubmitOrder, SubmitStaff
  <1>10. ASSUME FindProduct(s) \/ SkipPromo(s) PROVE UNCHANGED locks \/ EndSession(s)
    BY <1>10 DEF FindProduct, SkipPromo, Rollback
  <1>11. ASSUME AbortVictim(s) \/ Fail(s) PROVE EndSession(s)
    BY <1>11 DEF AbortVictim, Fail, Rollback
  <1>12. ASSUME NEW o \in Orders, CommitOrder(s, o) PROVE EndSession(s)
    BY <1>12 DEF CommitOrder
  <1>13. ASSUME CommitMove(s) \/ CommitWeight(s) PROVE EndSession(s)
    BY <1>13 DEF CommitMove, CommitWeight
  <1> QED
    BY <1>1, <1>2, <1>3, <1>4, <1>5, <1>6, <1>7, <1>8, <1>9, <1>10, <1>11, <1>12, <1>13
       DEF Acts, Step

(* The rows a session has selected FOR UPDATE are rows.                    *)
LEMMA RequestRows ==
  ASSUME Typed, NEW s \in Sessions
  PROVE  /\ pc[s] \in Placing => req[s].customer \in Rows
         /\ pc[s] \in Placing /\ req[s].code # None => req[s].code \in Rows
         /\ pc[s] \in Handling => req[s].order \in Rows
  BY DEF Typed, Phases, InPhase, CreateRequest, MoveRequest, WeighRequest, Rows

(* After every step of a session each session holds the rows it selected. *)
LEMMA ActsLocks ==
  ASSUME Typed, LocksHeld, NEW s \in Sessions, Acts(s)
  PROVE  LocksHeld'
  <1>1. ASSUME NEW t \in Sessions, t # s PROVE HoldsLocks(t)'
    <2>1. HoldsLocks(t) BY DEF LocksHeld
    <2>2. KeepsOthers(s) BY ActsKeepsOthers
    <2> QED BY <1>1, <2>1, <2>2, RequestRows DEF HoldsLocks, KeepsOthers, Placing, Handling
  <1>2. HoldsLocks(s)'
    <2> USE DEF Typed, TypeOK
    <2>0. HoldsLocks(s) BY DEF LocksHeld
    <2>1. CASE EndSession(s)
      BY <2>1 DEF EndSession, HoldsLocks, Placing, Handling
    <2>2. CASE Submit(s)
      BY <2>2 DEF Submit, SubmitOrder, SubmitStaff, Proceed, HoldsLocks, Placing, Handling
    <2>3. CASE LockCustomer(s) /\ ~EndSession(s)
      <3>1. /\ pc[s] = "customer" /\ pc' = [pc EXCEPT ![s] = "find"]
            /\ locks' = [locks EXCEPT ![req[s].customer] = s] /\ req' = req
        BY <2>3 DEF LockCustomer, Proceed, Rollback, Take
      <3>2. req[s].customer \in Rows
        BY <3>1, RequestRows DEF Placing
      <3> QED BY <3>1, <3>2 DEF HoldsLocks, Placing, Handling
    <2>4. CASE FindProduct(s) /\ ~EndSession(s)
      BY <2>0, <2>4 DEF FindProduct, Proceed, Rollback, HoldsLocks, Placing, Handling
    <2>5. CASE Reserve(s) /\ ~EndSession(s)
      <3>1. /\ pc[s] = "reserve" /\ pc'[s] \in {"discount", "find"}
            /\ locks' = [locks EXCEPT ![Line(s).product] = s] /\ req' = req
        BY <2>5 DEF Reserve, Proceed, Rollback, Take
      <3> QED BY <2>0, <3>1 DEF HoldsLocks, Placing, Handling
    <2>6. CASE SkipPromo(s)
      BY <2>0, <2>6 DEF SkipPromo, Proceed, HoldsLocks, Placing, Handling
    <2>7. CASE LockPromo(s) /\ ~EndSession(s)
      <3>1. /\ pc[s] = "discount" /\ pc' = [pc EXCEPT ![s] = "commit"] /\ req[s].code # None
            /\ locks' = [locks EXCEPT ![req[s].code] = s] /\ req' = req
        BY <2>7 DEF LockPromo, Proceed, Rollback, Take
      <3>2. req[s].code \in Rows
        BY <3>1, RequestRows DEF Placing
      <3> QED BY <2>0, <3>1, <3>2 DEF HoldsLocks, Placing, Handling
    <2>8. CASE LockOrder(s) /\ ~EndSession(s)
      <3>1. /\ pc[s] = "order" /\ pc'[s] \in {"return", "settle"}
            /\ locks' = [locks EXCEPT ![req[s].order] = s] /\ req' = req
        BY <2>8 DEF LockOrder, Proceed, Rollback, Take
      <3>2. req[s].order \in Rows
        BY <3>1, RequestRows DEF Handling
      <3> QED BY <3>1, <3>2 DEF HoldsLocks, Placing, Handling
    <2>9. ASSUME NEW p \in Products, ReturnProduct(s, p) PROVE HoldsLocks(s)'
      BY <2>0, <2>9 DEF ReturnProduct, Take, HoldsLocks, Placing, Handling
    <2>10. ASSUME AbortVictim(s) \/ Fail(s) PROVE EndSession(s)
      BY <2>10 DEF AbortVictim, Fail, Rollback
    <2>11. ASSUME NEW o \in Orders, CommitOrder(s, o) PROVE EndSession(s)
      BY <2>11 DEF CommitOrder
    <2>12. ASSUME CommitMove(s) \/ CommitWeight(s) PROVE EndSession(s)
      BY <2>12 DEF CommitMove, CommitWeight
    <2> QED
      BY <2>1, <2>2, <2>3, <2>4, <2>5, <2>6, <2>7, <2>8, <2>9, <2>10, <2>11, <2>12
         DEF Acts, Step
  <1> QED BY <1>1, <1>2 DEF LocksHeld

(* The order a handler has locked is not changed by another session.       *)
LEMMA LockedOrderKept ==
  ASSUME Typed, LocksHeld, Checked, NEW s \in Sessions, Acts(s),
         NEW t \in Sessions \ {s}, pc[t] \in Handling \ {"order"}
  PROVE  orders'[req[t].order] = orders[req[t].order]
  <1> USE DEF Typed, TypeOK
  <1> DEFINE mine == req[t].order
  <1>1. mine \in Orders /\ mine \in Rows /\ locks[mine] = t
    BY RequestRows DEF Phases, InPhase, MoveRequest, WeighRequest, LocksHeld, HoldsLocks
  <1>2. orders[mine].status # "absent"
    BY DEF Checked, StillAllowed, TransitionAllowed, CanWeigh
  <1>3. ASSUME NEW o \in Orders, CommitOrder(s, o) PROVE o # mine
    BY <1>2, <1>3 DEF CommitOrder
  <1>4. ASSUME CommitMove(s) \/ CommitWeight(s) PROVE req[s].order # mine
    BY <1>1, <1>4 DEF CommitMove, CommitWeight, ReadyToSettle, LocksHeld, HoldsLocks, Handling
  <1>5. ASSUME Submit(s) \/ AbortVictim(s) \/ Fail(s) PROVE UNCHANGED orders
    BY <1>5 DEF Submit, SubmitOrder, SubmitStaff, AbortVictim, Fail, Rollback, tables
  <1>6. ASSUME LockCustomer(s) \/ FindProduct(s) \/ Reserve(s) \/ SkipPromo(s) \/ LockPromo(s)
               \/ LockOrder(s) \/ \E p \in Products : ReturnProduct(s, p)
        PROVE  UNCHANGED orders
    BY <1>6 DEF LockCustomer, FindProduct, Reserve, SkipPromo, LockPromo, LockOrder,
                ReturnProduct, Rollback, tables
  <1>7. ASSUME NEW o \in Orders, CommitOrder(s, o) PROVE orders'[mine] = orders[mine]
    BY <1>1, <1>3, <1>7 DEF CommitOrder
  <1>8. ASSUME CommitMove(s) PROVE orders'[mine] = orders[mine]
    BY <1>1, <1>4, <1>8 DEF CommitMove
  <1>9. ASSUME CommitWeight(s) PROVE orders'[mine] = orders[mine]
    BY <1>1, <1>4, <1>9 DEF CommitWeight
  <1> HIDE DEF mine
  <1> QED BY <1>5, <1>6, <1>7, <1>8, <1>9 DEF Acts, Step, mine

(* What a session checked of its order outlives the steps of the others. *)
LEMMA ActsChecked ==
  ASSUME Typed, LocksHeld, Checked, NEW s \in Sessions, Acts(s)
  PROVE  Checked'
  <1>1. ASSUME NEW t \in Sessions, t # s PROVE StillAllowed(t)'
    <2>1. StillAllowed(t) BY DEF Checked
    <2>2. pc'[t] = pc[t] /\ req'[t] = req[t]
      BY <1>1, ActsKeepsOthers DEF KeepsOthers
    <2>3. CASE pc[t] \in Handling \ {"order"}
      BY <1>1, <2>1, <2>2, <2>3, LockedOrderKept DEF StillAllowed, CanWeigh
    <2>4. CASE pc[t] \notin Handling \ {"order"}
      BY <2>2, <2>4 DEF StillAllowed
    <2> QED BY <2>3, <2>4
  <1>2. StillAllowed(s)'
    <2> USE DEF Typed, TypeOK
    <2>0. StillAllowed(s) BY DEF Checked
    <2>1. CASE pc'[s] \notin Handling \ {"order"}
      BY <2>1 DEF StillAllowed
    <2>2. CASE LockOrder(s) /\ pc'[s] # "idle"
      BY <2>2 DEF LockOrder, Proceed, Rollback, EndSession, tables, StillAllowed, CanWeigh
    <2>3. ASSUME NEW p \in Products, ReturnProduct(s, p) PROVE StillAllowed(s)'
      BY <2>0, <2>3 DEF ReturnProduct, tables, StillAllowed, CanWeigh
    <2>4. ASSUME Submit(s) PROVE pc'[s] \notin Handling \ {"order"}
      BY <2>4 DEF Submit, SubmitOrder, SubmitStaff, Proceed, Handling
    <2>5. ASSUME LockCustomer(s) \/ FindProduct(s) \/ Reserve(s) \/ SkipPromo(s) \/ LockPromo(s)
          PROVE  pc'[s] \notin Handling \ {"order"}
      BY <2>5 DEF LockCustomer, FindProduct, Reserve, SkipPromo, LockPromo, Proceed,
                  Rollback, EndSession, Handling
    <2>6. ASSUME EndSession(s) PROVE pc'[s] \notin Handling \ {"order"}
      BY <2>6 DEF EndSession, Handling
    <2>7. ASSUME AbortVictim(s) \/ Fail(s) PROVE EndSession(s)
      BY <2>7 DEF AbortVictim, Fail, Rollback
    <2>8. ASSUME CommitMove(s) \/ CommitWeight(s) \/ \E o \in Orders : CommitOrder(s, o)
          PROVE  EndSession(s)
      BY <2>8 DEF CommitMove, CommitWeight, CommitOrder
    <2>9. CASE LockOrder(s) /\ pc'[s] = "idle"
      BY <2>9 DEF StillAllowed, Handling
    <2> QED BY <2>1, <2>2, <2>3, <2>4, <2>5, <2>6, <2>7, <2>8, <2>9 DEF Acts, Step
  <1> QED BY <1>1, <1>2 DEF Checked

(* The inductive invariant: types, requests that fit their phase, locks of *)
(* everything read for update, and checks that locks keep true.            *)
Inv == Typed /\ LocksHeld /\ Checked

(* The inductive invariant holds initially. *)
LEMMA InitInv == Init => Inv
  <1> SUFFICES ASSUME Init PROVE Inv OBVIOUS
  <1>1. Typed BY InitTyped
  <1>2. LocksHeld BY DEF Init, LocksHeld, HoldsLocks, Placing, Handling
  <1>3. Checked BY DEF Init, Checked, StillAllowed, Handling
  <1> QED BY <1>1, <1>2, <1>3 DEF Inv

(* A step is of the administration, of a session, or a stutter. *)
LEMMA NextActs == [Next]_vars => Administer \/ (\E s \in Sessions : Acts(s)) \/ UNCHANGED vars
  BY DEF Next, Acts

(* The inductive invariant is kept by every step. *)
LEMMA NextInv == Inv /\ [Next]_vars => Inv'
  <1> SUFFICES ASSUME Inv, [Next]_vars PROVE Inv' OBVIOUS
  <1>1. Typed' BY NextTyped DEF Inv
  <1>2. CASE Administer \/ UNCHANGED vars
    <2>1. UNCHANGED <<locks, pc, req, orders>>
      BY <1>2 DEF Administer, UpdateInventory, ReceiveInventory, Put, PauseSubscription,
         CancelSubscription, SetSubscription, DeletePromo, NextDay, sessionVars, vars
    <2>2. LocksHeld' BY <2>1 DEF Inv, LocksHeld, HoldsLocks
    <2>3. Checked' BY <2>1 DEF Inv, Checked, StillAllowed, CanWeigh
    <2> QED BY <1>1, <2>2, <2>3 DEF Inv
  <1>3. ASSUME NEW s \in Sessions, Acts(s) PROVE Inv'
    BY <1>1, <1>3, ActsLocks, ActsChecked DEF Inv
  <1> QED BY <1>2, <1>3, NextActs

(* Typed rows, phases of transactions, the row locks they hold and what they
   checked under those locks hold in every reachable state. *)
THEOREM Invariance == Spec => []Inv
  BY InitInv, NextInv, PTL DEF Spec

(* Every reachable state is well typed: no quantity, price or sum is ever  *)
(* negative, whatever requests race.                                       *)
THEOREM TypeCorrect == Spec => []TypeOK
  <1>1. Inv => TypeOK BY DEF Inv, Typed
  <1> QED BY <1>1, Invariance, PTL

(* What a handler checked of the order it locked, the transition or the    *)
(* weighing, is still allowed when it commits.                             *)
THEOREM CheckedOrders == Spec => []Checked
  <1>1. Inv => Checked BY DEF Inv
  <1> QED BY <1>1, Invariance, PTL
=============================================================================
