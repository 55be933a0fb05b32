--------------------------- MODULE KozOrdersStock ---------------------------
(***************************************************************************)
(* Proofs about the goods in KozOrders and what adds up over its orders:   *)
(* the label of every shelf fits its quantity; transactions with row locks *)
(* implement OrderLedger, where an order takes and returns all its goods in*)
(* one step; the goods are conserved; and the reports of the two consoles  *)
(* balance.                                                                *)
(***************************************************************************)
EXTENDS StoreReports, KozOrdersSafety

RowFits(row) == row.status = "out_of_stock" <=> row.quantity = 0

Labelled == \A p \in Products : RowFits(inv[p]) /\ RowFits(draft[p])

(* A session locks and unlocks rows for itself only, and leaves alone the  *)
(* versions of the rows that others have locked.                           *)
LEMMA ActsRows ==
  ASSUME Typed, NEW s \in Sessions, Acts(s), NEW p \in Products
  PROVE  /\ locks'[p] \in {locks[p], s, None}
         /\ locks[p] \notin {s, None} => inv'[p] = inv[p] /\ draft'[p] = draft[p]
  <1> USE DEF Typed, TypeOK
  <1>1. p \in Rows BY DEF Rows
  <1>2. CASE Rollback(s)
    BY <1>1, <1>2 DEF Rollback, EndSession, tables
  <1>3. CASE UNCHANGED <<inv, draft, locks>>
    BY <1>3
  <1>4. ASSUME NEW r \in Rows, Take(s, r), UNCHANGED <<inv, draft>>
        PROVE  /\ locks'[p] \in {locks[p], s, None}
               /\ inv'[p] = inv[p] /\ draft'[p] = draft[p]
    BY <1>1, <1>4 DEF Take
  <1>5. ASSUME NEW r \in Products, NEW row, Free(s, r), Take(s, r), inv' = inv,
               draft' = [draft EXCEPT ![r] = row]
        PROVE  /\ locks'[p] \in {locks[p], s, None}
               /\ locks[p] \notin {s, None} => inv'[p] = inv[p] /\ draft'[p] = draft[p]
    BY <1>1, <1>5 DEF Take, Free, Rows
  <1>6. ASSUME CommitInventory(s), EndSession(s)
        PROVE  /\ locks'[p] \in {locks[p], s, None}
               /\ locks[p] \notin {s, None} => inv'[p] = inv[p] /\ draft'[p] = draft[p]
    BY <1>1, <1>6 DEF CommitInventory, EndSession, View
  <1>7. ASSUME Submit(s) PROVE UNCHANGED <<inv, draft, locks>>
    BY <1>7 DEF Submit, SubmitOrder, SubmitStaff, tables
  <1>8. ASSUME FindProduct(s) \/ SkipPromo(s), ~Rollback(s) PROVE UNCHANGED <<inv, draft, locks>>
    BY <1>8 DEF FindProduct, SkipPromo, tables
  <1>9. ASSUME LockCustomer(s) \/ LockPromo(s) \/ LockOrder(s), ~Rollback(s)
        PROVE  \E r \in Rows : Take(s, r) /\ UNCHANGED <<inv, draft>>
    BY <1>9, RequestRows DEF LockCustomer, LockPromo, LockOrder, tables, Placing, Handling
  <1>10. ASSUME Reserve(s), ~Rollback(s)
         PROVE  \E r \in Products : \E row :
                   /\ Free(s, r) /\ Take(s, r) /\ inv' = inv
                   /\ draft' = [draft EXCEPT ![r] = row]
    BY <1>10, LineTyped DEF Reserve, tables
  <1>11. ASSUME NEW r \in Products, ReturnProduct(s, r)
         PROVE  \E row : /\ Free(s, r) /\ Take(s, r) /\ inv' = inv
                         /\ draft' = [draft EXCEPT ![r] = row]
    BY <1>11 DEF ReturnProduct, tables
  <1>12. ASSUME CommitMove(s) \/ CommitWeight(s) \/ \E o \in Orders : CommitOrder(s, o)
         PROVE  CommitInventory(s) /\ EndSession(s)
    BY <1>12 DEF CommitMove, CommitWeight, CommitOrder
  <1>13. ASSUME AbortVictim(s) \/ Fail(s) PROVE Rollback(s)
    BY <1>13 DEF AbortVictim, Fail
  <1> QED
    BY <1>2, <1>3, <1>4, <1>5, <1>6, <1>7, <1>8, <1>9, <1>10, <1>11, <1>12, <1>13
       DEF Acts, Step

(* Quantities of rows and of baskets are natural numbers.                  *)
LEMMA Quantities ==
  ASSUME Typed, NEW s \in Sessions, NEW p \in Products
  PROVE  /\ inv[p].quantity \in Nat /\ draft[p].quantity \in Nat
         /\ View(s, p).quantity \in Nat
         /\ work[s].goods \in [Products -> Nat] /\ work[s].goods[p] \in Nat
  <1>1. inv[p] \in InventoryRow /\ draft[p] \in InventoryRow /\ work[s] \in Basket
    BY DEF Typed, TypeOK
  <1> QED BY <1>1 DEF InventoryRow, Basket, View

(* Every session has begun with nothing. *)
LEMMA TallyInit == Init => Tally
  BY NoneIsApart DEF Init, Tally, Tallied, Purposeful, Placing, Rows

(* What another session gathered stays true while it waits.                *)
LEMMA TallyOthers ==
  ASSUME Inv, Tally, NEW s \in Sessions, Acts(s), NEW t \in Sessions \ {s}
  PROVE  Tallied(t)' /\ Purposeful(t)'
  <1> USE DEF Inv, Typed, TypeOK
  <1>1. pc'[t] = pc[t] /\ req'[t] = req[t] /\ work'[t] = work[t]
    BY ActsKeepsOthers DEF KeepsOthers
  <1>2. \A p \in Products : /\ locks'[p] = t <=> locks[p] = t
                            /\ locks[p] = t => inv'[p] = inv[p] /\ draft'[p] = draft[p]
    BY ActsRows, ActsKeepsOthers, NoneIsApart DEF KeepsOthers, Rows
  <1>3. Tallied(t) /\ Purposeful(t)
    BY DEF Tally
  <1>4. Purposeful(t)'
    BY <1>1, <1>3 DEF Purposeful
  <1>5. ASSUME pc'[t] \in Placing, NEW p \in Products
        PROVE  View(t, p)'.quantity + work'[t].goods[p] = inv'[p].quantity
    <2>1. View(t, p).quantity + work[t].goods[p] = inv[p].quantity
      BY <1>1, <1>3, <1>5 DEF Tallied
    <2>2. CASE locks[p] = t
      BY <1>1, <1>2, <2>1, <2>2 DEF View
    <2>3. CASE locks[p] # t
      <3>1. work[t].goods[p] = 0
        BY <2>1, <2>3, Quantities DEF View
      <3>2. inv'[p].quantity \in Nat
        <4>1. Next BY DEF Next, Acts
        <4>2. Inv' BY <4>1, NextInv
        <4> QED BY <4>2 DEF InventoryRow
      <3> QED BY <1>1, <1>2, <2>3, <3>1, <3>2 DEF View
    <2> QED BY <2>2, <2>3
  <1>6. ASSUME pc'[t] = "return", NEW p \in Products, locks'[p] = t
        PROVE  draft'[p].quantity = inv'[p].quantity + orders'[req'[t].order].goods[p]
    <2>1. orders'[req[t].order] = orders[req[t].order]
      BY <1>1, <1>6, LockedOrderKept DEF Handling
    <2> QED BY <1>1, <1>2, <1>3, <1>6, <2>1 DEF Tallied
  <1>7. ASSUME pc'[t] \in {"idle", "order", "settle"}, NEW p \in Products
        PROVE  locks'[p] # t
    BY <1>1, <1>2, <1>3, <1>7 DEF Tallied
  <1> QED BY <1>4, <1>5, <1>6, <1>7 DEF Tallied
(* A cart line adds its quantity to its product in the basket.             *)
LEMMA WithLineGoods ==
  ASSUME NEW b \in Basket, NEW p \in Products, NEW q \in Nat
  PROVE  WithLine(b, p, q).goods = [b.goods EXCEPT ![p] = b.goods[p] + q]
  BY DEF WithLine, Basket

(* What a session gathers adds up after each of its own statements.        *)
LEMMA TallyOwn ==
  ASSUME Inv, Tally, NEW s \in Sessions, Acts(s)
  PROVE  Tallied(s)' /\ Purposeful(s)'
  <1> USE DEF Inv, Typed, TypeOK
  <1>0. Tallied(s) /\ Purposeful(s) BY DEF Tally
  <1>1. CASE EndSession(s)
    <2>1. pc'[s] = "idle" BY <1>1 DEF EndSession
    <2>2. \A p \in Products : locks'[p] # s
      BY <1>1, NoneIsApart DEF EndSession, Rows
    <2> QED BY <2>1, <2>2 DEF Tallied, Purposeful, Placing
  <1>2. CASE Submit(s)
    <2>1. /\ pc[s] = "idle" /\ pc'[s] \in {"customer", "order"}
          /\ UNCHANGED <<inv, draft, locks, work>>
      BY <1>2 DEF Submit, SubmitOrder, SubmitStaff, Proceed, tables
    <2>2. work[s].goods = NoGoods
      BY <2>1 DEF Phases, InPhase, EmptyBasket
    <2> QED BY <1>0, <2>1, <2>2 DEF Tallied, Purposeful, View, NoGoods, InventoryRow
  <1>3. ASSUME LockCustomer(s) \/ FindProduct(s), ~EndSession(s)
        PROVE  Tallied(s)' /\ Purposeful(s)'
    <2>1. /\ pc[s] \in {"customer", "find"} /\ pc'[s] \in {"find", "reserve"}
          /\ UNCHANGED <<inv, draft, req>>
      BY <1>3 DEF LockCustomer, FindProduct, Proceed, Rollback, tables
    <2>2. work'[s].goods = work[s].goods
      <3>1. \E n : work' = [work EXCEPT ![s].day = n] \/ work' = [work EXCEPT ![s].price = n]
        BY <1>3 DEF LockCustomer, FindProduct, Rollback
      <3> QED BY <3>1 DEF Basket
    <2>3. \A p \in Products : locks'[p] = locks[p]
      <3>1. UNCHANGED locks \/ (Take(s, req[s].customer) /\ req[s].customer \in Customers)
        BY <1>3 DEF LockCustomer, FindProduct, Rollback, Phases, InPhase, Placing, CreateRequest
      <3> QED BY <3>1, RowsAreDistinct DEF Take, Rows
    <2> QED BY <1>0, <2>1, <2>2, <2>3 DEF Tallied, Purposeful, View, Placing
  <1>4. ASSUME Reserve(s), ~EndSession(s)
        PROVE  Tallied(s)' /\ Purposeful(s)'
    <2> PICK p, q : p = Line(s).product /\ q = Line(s).qty OBVIOUS
    <2>1. /\ pc[s] = "reserve" /\ pc'[s] \in {"find", "discount"}
          /\ UNCHANGED <<inv, req>>
          /\ locks' = [locks EXCEPT ![p] = s]
          /\ draft' = [draft EXCEPT ![p] = Reserved(View(s, p), q)]
          /\ work' = [work EXCEPT ![s] = WithLine(work[s], p, q)]
          /\ View(s, p).quantity >= q
      BY <1>4 DEF Reserve, Proceed, Rollback, Take, tables
    <2>2. p \in Products /\ q \in Nat \ {0} /\ p \in Rows
      BY <2>1, LineTyped DEF Rows
    <2>3. View(s, p) \in InventoryRow
      BY <2>2, ViewTyped
    <2>4. work'[s].goods = [work[s].goods EXCEPT ![p] = work[s].goods[p] + q]
      BY <2>1, <2>2, WithLineGoods
    <2>5. View(s, p)'.quantity = View(s, p).quantity - q
      <3>1. View(s, p)' = Reserved(View(s, p), q)
        BY <2>1, <2>2 DEF View
      <3> QED BY <2>3, <3>1 DEF Reserved, InventoryRow
    <2>6. \A r \in Products \ {p} : View(s, r)' = View(s, r)
      BY <2>1, <2>2 DEF View, Rows
    <2>7. work[s].goods \in [Products -> Nat]
      BY DEF Basket
    <2>8. \A r \in Products : View(s, r).quantity + work[s].goods[r] = inv[r].quantity
      BY <1>0, <2>1 DEF Tallied, Placing
    <2>9. \A r \in Products : View(s, r)'.quantity + work'[s].goods[r] = inv'[r].quantity
      <3> SUFFICES ASSUME NEW r \in Products
                   PROVE  View(s, r)'.quantity + work'[s].goods[r] = inv'[r].quantity
        OBVIOUS
      <3>1. CASE r = p
        <4>1. /\ View(s, p).quantity \in Nat /\ work[s].goods[p] \in Nat
              /\ View(s, p).quantity + work[s].goods[p] = inv[p].quantity
          BY <2>2, <2>8, Quantities
        <4>2. work'[s].goods[p] = work[s].goods[p] + q
          BY <2>2, <2>4, <2>7
        <4>3. View(s, p)'.quantity + work'[s].goods[p] = inv[p].quantity
          BY <2>2, <2>5, <4>1, <4>2
        <4> QED BY <2>1, <3>1, <4>3
      <3>2. CASE r # p
        BY <2>1, <2>4, <2>6, <2>7, <2>8, <3>2
      <3> QED BY <3>1, <3>2
    <2>10. work'[s].goods[p] > 0
      BY <2>2, <2>4, <2>7
    <2> QED BY <2>1, <2>2, <2>9, <2>10 DEF Tallied, Purposeful
  <1>5. ASSUME SkipPromo(s) \/ LockPromo(s), ~EndSession(s)
        PROVE  Tallied(s)' /\ Purposeful(s)'
    <2>1. /\ pc[s] = "discount" /\ pc'[s] = "commit" /\ UNCHANGED <<inv, draft, req>>
      BY <1>5 DEF SkipPromo, LockPromo, Proceed, Rollback, tables
    <2>2. work'[s].goods = work[s].goods
      <3>1. \E m, n : \/ work' = [work EXCEPT ![s].first = m]
                     \/ work' = [work EXCEPT ![s].first = m, ![s].promo = n]
        BY <1>5 DEF SkipPromo, LockPromo, Rollback
      <3> QED BY <3>1 DEF Basket
    <2>3. \A p \in Products : locks'[p] = locks[p]
      <3>1. UNCHANGED locks \/ (Take(s, req[s].code) /\ req[s].code \in Promos)
        BY <1>5, <2>1 DEF SkipPromo, LockPromo, Rollback, Phases, InPhase, Placing, CreateRequest
      <3> QED BY <3>1, RowsAreDistinct DEF Take, Rows
    <2> QED BY <1>0, <2>1, <2>2, <2>3 DEF Tallied, Purposeful, View, Placing
  <1>6. ASSUME LockOrder(s), ~EndSession(s)
        PROVE  Tallied(s)' /\ Purposeful(s)'
    <2>1. /\ pc[s] = "order" /\ Take(s, req[s].order) /\ UNCHANGED req
          /\ pc'[s] = IF req[s].kind = "move" /\ req[s].next \in Returning
                      THEN "return" ELSE "settle"
      BY <1>6 DEF LockOrder, Proceed, Rollback
    <2>2. req[s].order \in Orders
      BY <2>1 DEF Phases, InPhase, Handling, MoveRequest, WeighRequest
    <2>3. \A p \in Products : locks'[p] = locks[p]
      BY <2>1, <2>2, RowsAreDistinct DEF Take, Rows
    <2> QED BY <1>0, <2>1, <2>3 DEF Tallied, Purposeful, Placing
  <1>7. ASSUME NEW p \in Products, ReturnProduct(s, p)
        PROVE  Tallied(s)' /\ Purposeful(s)'
    <2> DEFINE o == orders[req[s].order]
    <2>1. /\ pc[s] = "return" /\ UNCHANGED <<inv, orders, pc, req, work>>
          /\ locks' = [locks EXCEPT ![p] = s]
          /\ draft' = [draft EXCEPT ![p] = Returned(inv[p], o, p, req[s].by)]
      BY <1>7 DEF ReturnProduct, Take, tables
    <2> HIDE DEF o
    <2>2. draft'[p].quantity = inv[p].quantity + o.goods[p]
      BY <2>1 DEF Returned, InventoryRow
    <2>3. \A r \in Products : locks'[r] = s =>
              draft'[r].quantity = inv[r].quantity + o.goods[r]
      BY <1>0, <2>1, <2>2 DEF Tallied, Rows, o
    <2> QED BY <1>0, <2>1, <2>3 DEF Tallied, Purposeful, Placing, o
  <1>8. ASSUME \/ AbortVictim(s) \/ Fail(s) \/ CommitMove(s) \/ CommitWeight(s)
               \/ \E o \in Orders : CommitOrder(s, o)
        PROVE  EndSession(s)
    BY <1>8 DEF AbortVictim, Fail, Rollback, CommitMove, CommitWeight, CommitOrder
  <1> QED BY <1>1, <1>2, <1>3, <1>4, <1>5, <1>6, <1>7, <1>8 DEF Acts, Step

(* Sessions keep their tallies through every step.                         *)
LEMMA TallyNext == Inv /\ Tally /\ [Next]_vars => Tally'
  <1> SUFFICES ASSUME Inv, Tally, [Next]_vars PROVE Tally' OBVIOUS
  <1>1. ASSUME NEW s \in Sessions, Acts(s) PROVE Tally'
    BY <1>1, TallyOthers, TallyOwn DEF Tally
  <1>2. CASE UNCHANGED <<inv, draft, orders, sessionVars>>
    BY <1>2 DEF Tally, Tallied, Purposeful, View, sessionVars
  <1>3. ASSUME NEW p \in Products, NEW row, locks[p] = None, Put(p, row),
               row \in InventoryRow
        PROVE  Tally'
    <2> SUFFICES ASSUME NEW t \in Sessions PROVE Tallied(t)' /\ Purposeful(t)'
      BY DEF Tally
    <2> USE DEF Inv, Typed, TypeOK
    <2>1. /\ UNCHANGED <<orders, locks, pc, req, work>> /\ locks[p] # t
          /\ inv' = [inv EXCEPT ![p] = row] /\ draft' = [draft EXCEPT ![p] = row]
      BY <1>3, NoneIsApart DEF Put, sessionVars
    <2>2. Tallied(t) /\ Purposeful(t) BY DEF Tally
    <2>3. ASSUME pc[t] \in Placing, NEW r \in Products
          PROVE  View(t, r)'.quantity + work'[t].goods[r] = inv'[r].quantity
      <3>1. View(t, r).quantity + work[t].goods[r] = inv[r].quantity
        BY <2>2, <2>3 DEF Tallied
      <3>2. CASE r = p
        <4>1. work[t].goods[p] = 0
          BY <2>1, <3>1, <3>2, Quantities DEF View
        <4> QED BY <1>3, <2>1, <3>2, <4>1 DEF View, InventoryRow
      <3>3. CASE r # p
        BY <2>1, <3>1, <3>3 DEF View
      <3> QED BY <3>2, <3>3
    <2>4. \A r \in Products : locks[r] = t => inv'[r] = inv[r] /\ draft'[r] = draft[r]
      BY <2>1
    <2>5. Purposeful(t)' BY <2>1, <2>2 DEF Purposeful
    <2> QED BY <2>1, <2>2, <2>3, <2>4, <2>5 DEF Tallied
  <1>4. CASE Administer
    <2>1. ASSUME NEW p \in Products, NEW patch \in Patches, UpdateInventory(p, patch)
          PROVE  Tally'
      <3>1. Patched(inv[p], patch) \in InventoryRow
        BY PatchedTyped, ConstantTypes DEF Inv, Typed, TypeOK
      <3> QED BY <1>3, <2>1, <3>1 DEF UpdateInventory
    <2>2. ASSUME NEW p \in Products, NEW q \in Receipts, ReceiveInventory(p, q)
          PROVE  Tally'
      <3> DEFINE row == [inv[p] EXCEPT !.quantity = inv[p].quantity + q,
                                       !.stock = inv[p].stock + Ceil(q),
                                       !.status = "available"]
      <3>1. row \in InventoryRow
        <4>1. q \in Nat /\ Ceil(q) \in Nat /\ inv[p] \in InventoryRow
          BY CeilNat, ConstantTypes DEF Inv, Typed, TypeOK
        <4>2. inv[p].quantity + q \in Nat /\ inv[p].stock + Ceil(q) \in Nat
          BY <4>1 DEF InventoryRow
        <4> QED BY <4>1, <4>2 DEF InventoryRow
      <3>2. locks[p] = None /\ Put(p, row)
        BY <2>2 DEF ReceiveInventory, Received
      <3> HIDE DEF row
      <3> QED BY <1>3, <3>1, <3>2
    <2>3. ASSUME \/ NextDay \/ \E q \in Promos : DeletePromo(q)
                 \/ \E c \in Customers : PauseSubscription(c) \/ CancelSubscription(c)
          PROVE  UNCHANGED <<inv, draft, orders, sessionVars>>
      BY <2>3 DEF NextDay, DeletePromo, PauseSubscription, CancelSubscription, SetSubscription
    <2> QED BY <1>2, <1>4, <2>1, <2>2, <2>3 DEF Administer
  <1> QED BY <1>1, <1>2, <1>4, NextActs DEF vars, sessionVars

(* At every moment the uncommitted rows of each session differ from the    *)
(* committed ones by exactly what it took or put back.                     *)
THEOREM TallyCorrect == Spec => []Tally
  BY TallyInit, TallyNext, Invariance, PTL DEF Spec
-----------------------------------------------------------------------------
(* Labels of shelves.                                                      *)

(* A derived status fits its quantity. *)
LEMMA StatusFits ==
  ASSUME NEW q \in Nat
  PROVE  StockStatus(q) = "out_of_stock" <=> q = 0
  BY DEF StockStatus

(* A reservation keeps the label above the threshold and derives it below. *)
LEMMA ReservedFits ==
  ASSUME NEW row \in InventoryRow, RowFits(row), NEW q \in Nat, q <= row.quantity
  PROVE  RowFits(Reserved(row, q))
  <1> DEFINE left == row.quantity - q
  <1>1. left \in Nat BY DEF InventoryRow
  <1>2. /\ Reserved(row, q).quantity = left
        /\ Reserved(row, q).status = IF left > LowStock THEN row.status ELSE StockStatus(left)
    BY DEF Reserved, InventoryRow
  <1>3. left > LowStock => left # 0 /\ row.quantity # 0
    BY <1>1 DEF LowStock, Unit, InventoryRow
  <1> QED BY <1>1, <1>2, <1>3, StatusFits DEF RowFits

(* The manager may force 'available', for some goods do come back.         *)
LEMMA ReturnedFits ==
  ASSUME NEW row \in InventoryRow, NEW order \in OrderRow, NEW p \in Products, NEW by,
         order.goods[p] > 0
  PROVE  RowFits(Returned(row, order, p, by))
  <1> DEFINE back == row.quantity + order.goods[p]
  <1>1. back \in Nat /\ back # 0 BY DEF InventoryRow, OrderRow
  <1>2. /\ Returned(row, order, p, by).quantity = back
        /\ Returned(row, order, p, by).status = IF by = "manager" THEN "available"
                                                ELSE StockStatus(back)
    BY DEF Returned, InventoryRow
  <1> QED BY <1>1, <1>2, StatusFits DEF RowFits

(* An edit without a quantity keeps the label, one with a quantity derives it.*)
LEMMA PatchedFits ==
  ASSUME NEW row \in InventoryRow, RowFits(row), NEW patch \in Patch
  PROVE  RowFits(Patched(row, patch))
  <1>1. CASE patch.quantity = None
    BY <1>1 DEF RowFits, Patched
  <1>2. CASE patch.quantity # None
    <2>1. patch.quantity \in Nat BY <1>2 DEF Patch
    <2>2. /\ Patched(row, patch).quantity = patch.quantity
          /\ Patched(row, patch).status = StockStatus(patch.quantity)
      BY <1>2 DEF Patched
    <2> QED BY <2>1, <2>2, StatusFits DEF RowFits
  <1> QED BY <1>1, <1>2

(* The store opens with labels that fit. *)
LEMMA LabelledInit == Init => Labelled
  <1> SUFFICES ASSUME Init, NEW p \in Products PROVE RowFits(inv[p]) /\ RowFits(draft[p])
    BY DEF Labelled
  <1>1. Shelf[p] \in Nat BY ConstantTypes
  <1>2. inv[p].quantity = Shelf[p] /\ inv[p].status = StockStatus(Shelf[p]) /\ draft = inv
    BY DEF Init
  <1> QED BY <1>1, <1>2, StatusFits DEF RowFits

(* Every statement that writes a row leaves it with a label that fits.     *)
LEMMA LabelledNext == Inv /\ Labelled /\ [Next]_vars => Labelled'
  <1> SUFFICES ASSUME Inv, Labelled, [Next]_vars, NEW p \in Products
               PROVE  RowFits(inv'[p]) /\ RowFits(draft'[p])
    BY DEF Labelled
  <1> USE DEF Inv, Typed, TypeOK
  <1>0. RowFits(inv[p]) /\ RowFits(draft[p]) BY DEF Labelled
  <1>1. CASE UNCHANGED <<inv, draft>>
    BY <1>0, <1>1
  <1>2. ASSUME NEW s \in Sessions, Rollback(s) \/ CommitInventory(s)
        PROVE  RowFits(inv'[p]) /\ RowFits(draft'[p])
    BY <1>0, <1>2 DEF Rollback, CommitInventory, View, tables
  <1>3. ASSUME NEW s \in Sessions, Reserve(s), ~Rollback(s)
        PROVE  RowFits(inv'[p]) /\ RowFits(draft'[p])
    <2> PICK r, q : r = Line(s).product /\ q = Line(s).qty OBVIOUS
    <2>1. /\ pc[s] = "reserve" /\ View(s, r).quantity >= q /\ UNCHANGED inv
          /\ draft' = [draft EXCEPT ![r] = Reserved(View(s, r), q)]
      BY <1>3 DEF Reserve, tables
    <2>2. r \in Products /\ q \in Nat
      BY <2>1, LineTyped
    <2>3. View(s, r) \in InventoryRow /\ RowFits(View(s, r))
      BY <2>2, ViewTyped DEF Labelled, View
    <2>4. View(s, r).quantity \in Nat
      BY <2>2, Quantities
    <2>5. RowFits(Reserved(View(s, r), q))
      BY <2>1, <2>2, <2>3, <2>4, ReservedFits
    <2> QED BY <1>0, <2>1, <2>2, <2>5
  <1>4. ASSUME NEW s \in Sessions, NEW r \in Products, ReturnProduct(s, r)
        PROVE  RowFits(inv'[p]) /\ RowFits(draft'[p])
    <2> DEFINE order == orders[req[s].order]
               by == req[s].by
    <2>1. /\ pc[s] = "return" /\ UNCHANGED inv /\ order.goods[r] > 0
          /\ draft' = [draft EXCEPT ![r] = Returned(inv[r], order, r, by)]
      BY <1>4 DEF ReturnProduct, Unreturned, tables
    <2>2. order \in OrderRow
      BY <2>1 DEF Phases, InPhase, Handling, MoveRequest, WeighRequest
    <2> HIDE DEF order, by
    <2>3. RowFits(Returned(inv[r], order, r, by))
      BY <2>1, <2>2, ReturnedFits
    <2> QED BY <1>0, <2>1, <2>3
  <1>5. ASSUME NEW r \in Products, NEW row, RowFits(row), Put(r, row)
        PROVE  RowFits(inv'[p]) /\ RowFits(draft'[p])
    BY <1>0, <1>5 DEF Put
  <1>6. ASSUME NEW r \in Products, NEW patch \in Patches, UpdateInventory(r, patch)
        PROVE  RowFits(inv'[p]) /\ RowFits(draft'[p])
    <2>1. RowFits(Patched(inv[r], patch))
      BY PatchedFits, ConstantTypes DEF Labelled
    <2> QED BY <1>5, <1>6, <2>1 DEF UpdateInventory
  <1>7. ASSUME NEW r \in Products, NEW q \in Receipts, ReceiveInventory(r, q)
        PROVE  RowFits(inv'[p]) /\ RowFits(draft'[p])
    <2> DEFINE row == [inv[r] EXCEPT !.quantity = inv[r].quantity + q,
                                     !.stock = inv[r].stock + Ceil(q),
                                     !.status = "available"]
    <2>1. RowFits(row)
      <3>1. inv[r] \in InventoryRow /\ q \in Nat \ {0}
        BY ConstantTypes
      <3>2. row.quantity = inv[r].quantity + q /\ row.status = "available"
        BY <3>1 DEF InventoryRow
      <3>3. inv[r].quantity \in Nat BY <3>1 DEF InventoryRow
      <3> QED BY <3>1, <3>2, <3>3 DEF RowFits
    <2>2. Put(r, row)
      BY <1>7 DEF ReceiveInventory, Received
    <2> HIDE DEF row
    <2> QED BY <1>5, <2>1, <2>2
  <1>8. ASSUME Administer
        PROVE  \/ UNCHANGED <<inv, draft>>
               \/ \E r \in Products, patch \in Patches : UpdateInventory(r, patch)
               \/ \E r \in Products, q \in Receipts : ReceiveInventory(r, q)
    BY <1>8 DEF Administer, NextDay, DeletePromo, PauseSubscription, CancelSubscription,
                SetSubscription
  <1>9. ASSUME NEW s \in Sessions, Acts(s)
        PROVE  \/ UNCHANGED <<inv, draft>>
               \/ Rollback(s) \/ CommitInventory(s)
               \/ Reserve(s) /\ ~Rollback(s)
               \/ \E r \in Products : ReturnProduct(s, r)
    BY <1>9 DEF Acts, Submit, SubmitOrder, SubmitStaff, Step, LockCustomer, FindProduct,
                SkipPromo, LockPromo, LockOrder, CommitOrder, CommitMove, CommitWeight,
                AbortVictim, Fail, tables
  <1> QED BY <1>1, <1>2, <1>3, <1>4, <1>6, <1>7, <1>8, <1>9, NextActs DEF vars

(* A product is out of stock exactly when none is left, whichever of the   *)
(* six statements with their four rules wrote its row last.                *)
THEOREM LabelsCorrect == Spec => []OutOfStockIffEmpty
  <1>1. Spec => []Labelled
    BY LabelledInit, LabelledNext, Invariance, PTL DEF Spec
  <1>2. Labelled => OutOfStockIffEmpty BY DEF Labelled, RowFits, OutOfStockIffEmpty
  <1> QED BY <1>1, <1>2, PTL

-----------------------------------------------------------------------------
(* The ledger.                                                             *)

(* The shelves and orders of the opening store are an opening ledger. *)
LEMMA LedgerInit == Init => Ledger!Init
  BY ConstantTypes DEF Init, Ledger!Init, NoOrder, NoGoods

(* The commit of an order takes its whole basket off the shelf.            *)
LEMMA LedgerPlace ==
  ASSUME Inv, Tally, NEW s \in Sessions, NEW o \in Orders, CommitOrder(s, o)
  PROVE  Ledger!Place(o)
  <1> USE DEF Inv, Typed, TypeOK
  <1> DEFINE g == work[s].goods
             row == NewOrder(s)
  <1>1. /\ pc[s] = "commit" /\ orders[o].status = "absent"
        /\ orders' = [orders EXCEPT ![o] = row]
        /\ inv' = [p \in Products |-> View(s, p)]
    BY DEF CommitOrder, CommitInventory
  <1>2. g \in [Products -> Nat] /\ \E p \in Products : g[p] > 0
    BY <1>1 DEF Basket, Tally, Purposeful
  <1>3. \A p \in Products : inv'[p].quantity = inv[p].quantity - g[p] /\ g[p] <= inv[p].quantity
    <2> SUFFICES ASSUME NEW p \in Products
                 PROVE  inv'[p].quantity = inv[p].quantity - g[p] /\ g[p] <= inv[p].quantity
      OBVIOUS
    <2>1. View(s, p).quantity + g[p] = inv[p].quantity
      BY <1>1 DEF Tally, Tallied, Placing
    <2>2. View(s, p).quantity \in Nat /\ g[p] \in Nat
      BY Quantities
    <2>3. inv'[p].quantity = View(s, p).quantity
      BY <1>1
    <2> QED BY <2>1, <2>2, <2>3
  <1>4. row.status = "new" /\ row.goods = g
    BY DEF NewOrder
  <1> HIDE DEF g, row
  <1>5. \A x \in Orders : /\ orders'[x].goods = IF x = o THEN g ELSE orders[x].goods
                          /\ orders'[x].status = IF x = o THEN "new" ELSE orders[x].status
    BY <1>1, <1>4
  <1>6. [x \in Orders |-> orders'[x].goods]
          = [[x \in Orders |-> orders[x].goods] EXCEPT ![o] = g]
    BY <1>5
  <1>7. [x \in Orders |-> orders'[x].status]
          = [[x \in Orders |-> orders[x].status] EXCEPT ![o] = "new"]
    BY <1>5
  <1>8. [p \in Products |-> inv'[p].quantity]
          = [p \in Products |-> [r \in Products |-> inv[r].quantity][p] - g[p]]
    BY <1>3
  <1> QED BY <1>1, <1>2, <1>3, <1>5, <1>6, <1>7, <1>8 DEF Ledger!Place

(* The commit of a move is the move, and returns all goods or none.        *)
LEMMA LedgerMove ==
  ASSUME Inv, Tally, NEW s \in Sessions, CommitMove(s)
  PROVE  \E o \in Orders, next \in Statuses : Ledger!Move(o, next)
  <1> USE DEF Inv, Typed, TypeOK
  <1> PICK o, next : o = req[s].order /\ next = req[s].next OBVIOUS
  <1>1. o \in Orders /\ next \in Statuses /\ TransitionAllowed(orders[o].status, next)
    BY MoveFacts DEF MoveRequest
  <1>2. /\ orders' = [orders EXCEPT ![o] = Moved(orders[o], next)]
        /\ inv' = [p \in Products |-> View(s, p)]
        /\ pc[s] = "settle" \/ (pc[s] = "return" /\ Unreturned(s) = {})
        /\ req[s].kind = "move"
    BY DEF CommitMove, CommitInventory, ReadyToSettle
  <1>3. Moved(orders[o], next).status = next /\ Moved(orders[o], next).goods = orders[o].goods
    BY <1>1 DEF Moved, OrderRow
  <1>4. \A p \in Products :
           inv'[p].quantity = IF next \in Returning THEN inv[p].quantity + orders[o].goods[p]
                              ELSE inv[p].quantity
    <2> SUFFICES ASSUME NEW p \in Products
                 PROVE  inv'[p].quantity = IF next \in Returning
                                           THEN inv[p].quantity + orders[o].goods[p]
                                           ELSE inv[p].quantity
      OBVIOUS
    <2>1. Tallied(s) /\ Purposeful(s) BY DEF Tally
    <2>2. CASE pc[s] = "settle"
      BY <1>2, <2>1, <2>2 DEF Tallied, Purposeful, View
    <2>3. CASE pc[s] = "return" /\ locks[p] = s
      BY <1>2, <2>1, <2>3 DEF Tallied, Purposeful, View
    <2>4. CASE pc[s] = "return" /\ locks[p] # s
      <3>1. orders[o].goods[p] \in Nat /\ inv[p].quantity \in Nat
        BY <1>1, Quantities DEF OrderRow
      <3>2. orders[o].goods[p] = 0
        BY <1>2, <2>4, <3>1 DEF Unreturned
      <3> QED BY <1>2, <2>1, <2>4, <3>1, <3>2 DEF Purposeful, View
    <2> QED BY <1>2, <2>2, <2>3, <2>4
  <1>5. \A x \in Orders : /\ orders'[x].goods = orders[x].goods
                          /\ orders'[x].status = IF x = o THEN next ELSE orders[x].status
    BY <1>1, <1>2, <1>3
  <1>6. [x \in Orders |-> orders'[x].status]
          = [[x \in Orders |-> orders[x].status] EXCEPT ![o] = next]
    BY <1>1, <1>5
  <1>7. [p \in Products |-> inv'[p].quantity]
          = IF next \in Returning
            THEN [p \in Products |-> [r \in Products |-> inv[r].quantity][p]
                                       + [x \in Orders |-> orders[x].goods][o][p]]
            ELSE [p \in Products |-> inv[p].quantity]
    BY <1>1, <1>4
  <1>8. Ledger!Move(o, next)
    BY <1>1, <1>5, <1>6, <1>7 DEF Ledger!Move, Ledger!TransitionAllowed, TransitionAllowed,
                                  Ledger!Returning, Returning
  <1> QED BY <1>1, <1>8
(* A recorded weight moves no goods and no order.                          *)
LEMMA LedgerWeigh ==
  ASSUME Inv, Tally, NEW s \in Sessions, CommitWeight(s)
  PROVE  UNCHANGED Ledger!ledger
  <1> USE DEF Inv, Typed, TypeOK
  <1> PICK o : o = req[s].order OBVIOUS
  <1>1. /\ orders' = [orders EXCEPT ![o] = Weighed(orders[o], req[s].weight)]
        /\ inv' = [p \in Products |-> View(s, p)]
        /\ pc[s] = "settle" \/ pc[s] = "return"
    BY DEF CommitWeight, CommitInventory, ReadyToSettle
  <1>2. pc[s] = "settle"
    BY <1>1 DEF CommitWeight, Phases, InPhase
  <1>3. \A p \in Products : inv'[p] = inv[p]
    BY <1>1, <1>2 DEF Tally, Tallied, View
  <1>4. \A x \in Orders : orders'[x].goods = orders[x].goods /\ orders'[x].status = orders[x].status
    <2>1. o \in Orders BY WeighingFacts DEF WeighRequest
    <2>2. LET row == Weighed(orders[o], req[s].weight) IN
          row.goods = orders[o].goods /\ row.status = orders[o].status
      BY <2>1 DEF Weighed, OrderRow
    <2> QED BY <1>1, <2>1, <2>2
  <1> QED BY <1>3, <1>4 DEF Ledger!ledger

(* An edit or a receipt restocks its product.                              *)
LEMMA LedgerRestock ==
  ASSUME Inv, NEW p \in Products, NEW row, row.quantity \in Nat, Put(p, row)
  PROVE  Ledger!Restock(p)
  <1> USE DEF Inv, Typed, TypeOK
  <1>1. inv' = [inv EXCEPT ![p] = row] /\ orders' = orders
    BY DEF Put
  <1>2. \A r \in Products : inv'[r].quantity = IF r = p THEN row.quantity ELSE inv[r].quantity
    BY <1>1
  <1>3. [r \in Products |-> inv'[r].quantity]
          = [[r \in Products |-> inv[r].quantity] EXCEPT ![p] = inv'[p].quantity]
    BY <1>2
  <1> QED BY <1>1, <1>2, <1>3 DEF Ledger!Restock

(* Every step of the store is a step of the ledger or leaves it alone.     *)
LEMMA LedgerNext == Inv /\ Tally /\ [Next]_vars => [Ledger!Next]_(Ledger!ledger)
  <1> SUFFICES ASSUME Inv, Tally, [Next]_vars PROVE Ledger!Next \/ UNCHANGED Ledger!ledger
    OBVIOUS
  <1>1. CASE UNCHANGED <<inv, orders>>
    BY <1>1 DEF Ledger!ledger
  <1>2. ASSUME NEW s \in Sessions, NEW o \in Orders, CommitOrder(s, o)
        PROVE  Ledger!Next
    BY <1>2, LedgerPlace DEF Ledger!Next
  <1>3. ASSUME NEW s \in Sessions, CommitMove(s) PROVE Ledger!Next
    BY <1>3, LedgerMove DEF Ledger!Next, Ledger!Statuses, Statuses
  <1>4. ASSUME NEW s \in Sessions, CommitWeight(s) PROVE UNCHANGED Ledger!ledger
    BY <1>4, LedgerWeigh
  <1>5. ASSUME NEW p \in Products, NEW patch \in Patches, UpdateInventory(p, patch)
        PROVE  Ledger!Next
    <2>1. Patched(inv[p], patch) \in InventoryRow
      BY PatchedTyped, ConstantTypes DEF Inv, Typed, TypeOK
    <2>2. Patched(inv[p], patch).quantity \in Nat
      BY <2>1 DEF InventoryRow
    <2> QED BY <1>5, <2>2, LedgerRestock DEF UpdateInventory, Ledger!Next
  <1>6. ASSUME NEW p \in Products, NEW q \in Receipts, ReceiveInventory(p, q)
        PROVE  Ledger!Next
    <2> DEFINE row == [inv[p] EXCEPT !.quantity = inv[p].quantity + q,
                                     !.stock = inv[p].stock + Ceil(q),
                                     !.status = "available"]
    <2>1. row.quantity \in Nat
      <3>1. inv[p] \in InventoryRow /\ q \in Nat
        BY ConstantTypes DEF Inv, Typed, TypeOK
      <3> QED BY <3>1 DEF InventoryRow
    <2>2. Put(p, row)
      BY <1>6 DEF ReceiveInventory, Received
    <2> HIDE DEF row
    <2> QED BY <2>1, <2>2, LedgerRestock DEF Ledger!Next
  <1>7. ASSUME Administer
        PROVE  \/ UNCHANGED <<inv, orders>>
               \/ \E r \in Products, patch \in Patches : UpdateInventory(r, patch)
               \/ \E r \in Products, q \in Receipts : ReceiveInventory(r, q)
    BY <1>7 DEF Administer, NextDay, DeletePromo, PauseSubscription, CancelSubscription,
                SetSubscription
  <1> QED
    BY <1>1, <1>2, <1>3, <1>4, <1>5, <1>6, <1>7, NextActs, ActsTables DEF vars, tables

(* Requests that interleave behind row locks, fail half-way or are aborted *)
(* implement the ledger: an order takes all its goods or none, and returns *)
(* exactly them once.                                                      *)
THEOREM LedgerCorrect == Spec => LedgerSpec
  <1>1. Spec => Ledger!Init
    BY LedgerInit, PTL DEF Spec
  <1>2. Spec => [][Ledger!Next]_(Ledger!ledger)
    BY LedgerNext, TallyCorrect, Invariance, PTL DEF Spec
  <1> QED BY <1>1, <1>2, PTL DEF LedgerSpec, Ledger!Spec

-----------------------------------------------------------------------------
(* Sums.  The lemmas are proved by induction over finite sets in the form  *)
(* of BySubsets, where the induction hypothesis is a set.                  *)

(* The values of v at the elements of S, added up.                         *)
Sum(v, S) == SumFunctionOnSet(v, S)

(* A set of subsets of the finite set S that holds every subset all of     *)
(* whose strict subsets it holds, holds them all.                          *)
LEMMA BySubsets ==
  ASSUME NEW S, IsFiniteSet(S), NEW Good,
         \A s \in SUBSET S : (\A t \in SUBSET s : t # s => t \in Good) => s \in Good
  PROVE  \A s \in SUBSET S : s \in Good
  <1> DEFINE R == StrictSubsetOrdering(S)
             Bad == {s \in SUBSET S : s \notin Good}
  <1>1. IsWellFoundedOn(R, SUBSET S)
    BY FS_StrictSubsetOrderingWellFounded, FS_FiniteSubsetsOfFinite
  <1>2. ASSUME Bad # {} PROVE FALSE
    <2>1. PICK s \in Bad : \A t \in Bad : ~ (<<t, s>> \in R)
      <3>1. Bad \subseteq SUBSET S
        OBVIOUS
      <3> HIDE DEF Bad, R
      <3> QED BY <1>1, <1>2, <3>1, WFMin
    <2>2. ASSUME NEW t \in SUBSET s, t # s PROVE t \in Good
      <3>1. <<t, s>> \in R
        BY <2>2 DEF StrictSubsetOrdering
      <3> QED BY <2>1, <2>2, <3>1
    <2> QED BY <2>2
  <1> QED BY <1>2

-----------------------------------------------------------------------------
Pick(s) == CHOOSE x \in s : TRUE

Next1(v, g, s) == IF s = {} THEN 0 ELSE v[Pick(s)] + g[s \ {Pick(s)}]

(* g adds up v over every subset of S.                                     *)
Adds(g, v, S) == g = [s \in SUBSET S |-> Next1(v, g, s)]

(* The fold of the library is a function that adds up.                     *)
LEMMA SumDef == ASSUME NEW v, NEW S PROVE Sum(v, S) = (CHOOSE g : Adds(g, v, S))[S]
  BY Zenon DEF Sum, SumFunctionOnSet, FoldFunctionOnSet, MapThenFoldSet, Adds, Next1, Pick

(* The element that is added last is one of the set.                       *)
LEMMA Picked == ASSUME NEW s, s # {} PROVE Pick(s) \in s
  BY DEF Pick

(* Functions that add up values that agree, agree.                         *)
LEMMA AddsUnique ==
  ASSUME NEW S, IsFiniteSet(S), NEW T \in SUBSET S, NEW v, NEW w,
         \A x \in T : v[x] = w[x], NEW g, NEW h, Adds(g, v, S), Adds(h, w, T)
  PROVE  \A s \in SUBSET T : g[s] = h[s]
  <1> DEFINE Good == {s \in SUBSET T : g[s] = h[s]}
  <1>1. ASSUME NEW s \in SUBSET T, \A t \in SUBSET s : t # s => t \in Good
        PROVE  s \in Good
    <2>1. g[s] = Next1(v, g, s) /\ h[s] = Next1(w, h, s)
      BY DEF Adds
    <2>2. CASE s = {}
      BY <2>1, <2>2 DEF Next1
    <2>3. CASE s # {}
      <3>1. Pick(s) \in s
        BY <2>3, Picked
      <3>2. s \ {Pick(s)} \in Good
        BY <1>1, <3>1
      <3> QED BY <2>1, <2>3, <3>1, <3>2 DEF Next1
    <2> QED BY <2>2, <2>3
  <1>2. IsFiniteSet(T)
    BY FS_Subset
  <1>3. \A s \in SUBSET T : s \in Good
    <2> HIDE DEF Good
    <2> QED BY <1>1, <1>2, BySubsets
  <1> QED BY <1>3

(* There is a function that adds up: the sum is defined.                   *)
LEMMA AddsExists ==
  ASSUME NEW S, IsFiniteSet(S), NEW v
  PROVE  \E g : Adds(g, v, S)
  <1> DEFINE Good == {s \in SUBSET S : \E g : Adds(g, v, s)}
  <1>1. ASSUME NEW s \in SUBSET S, \A t \in SUBSET s : t # s => t \in Good
        PROVE  s \in Good
    <2> DEFINE f[t \in SUBSET s] == (CHOOSE g : Adds(g, v, t))[t]
               u == Next1(v, f, s)
               g == [t \in SUBSET s |-> IF t = s THEN u ELSE f[t]]
    <2>0. IsFiniteSet(s) /\ \A t \in SUBSET s : IsFiniteSet(t)
      BY FS_Subset
    <2>1. ASSUME NEW t \in SUBSET s, t # s
          PROVE  f[t] = Next1(v, f, t)
      <3>1. \E k : Adds(k, v, t)
        BY <1>1, <2>1
      <3> DEFINE k == CHOOSE k : Adds(k, v, t)
      <3>2. Adds(k, v, t)
        BY <3>1
      <3>3. f[t] = k[t]
        OBVIOUS
      <3> HIDE DEF k
      <3>4. k[t] = Next1(v, k, t)
        BY <3>2 DEF Adds
      <3>5. ASSUME t # {} PROVE k[t \ {Pick(t)}] = f[t \ {Pick(t)}]
        <4> DEFINE r == t \ {Pick(t)}
        <4>1. Pick(t) \in t
          BY <3>5, Picked
        <4>2. r \in SUBSET s /\ r # s /\ r \in SUBSET t
          BY <4>1
        <4>3. \E j : Adds(j, v, r)
          BY <1>1, <4>2
        <4> DEFINE j == CHOOSE j : Adds(j, v, r)
        <4>4. Adds(j, v, r)
          BY <4>3
        <4>5. f[r] = j[r]
          BY <4>2
        <4> HIDE DEF j, r, f
        <4>6. IsFiniteSet(t) /\ \A x \in r : v[x] = v[x]
          BY <2>0
        <4>7. \A z \in SUBSET r : k[z] = j[z]
          BY <3>2, <4>2, <4>4, <4>6, AddsUnique
        <4>8. k[r] = j[r]
          BY <4>7
        <4> QED BY <4>5, <4>8 DEF r
      <3> QED BY <3>3, <3>4, <3>5 DEF Next1
    <2> HIDE DEF f
    <2>2. ASSUME NEW t \in SUBSET s PROVE g[t] = Next1(v, g, t)
      <3>1. ASSUME t # {} PROVE g[t \ {Pick(t)}] = f[t \ {Pick(t)}]
        <4>1. Pick(t) \in t
          BY <3>1, Picked
        <4> QED BY <4>1
      <3>2. Next1(v, g, t) = Next1(v, f, t)
        BY <3>1 DEF Next1
      <3>3. CASE t = s
        BY <3>2, <3>3
      <3>4. CASE t # s
        BY <2>1, <3>2, <3>4
      <3> QED BY <3>3, <3>4
    <2>3. g = [t \in SUBSET s |-> Next1(v, g, t)]
      BY <2>2
    <2> HIDE DEF g
    <2> QED BY <2>3 DEF Adds
  <1>2. \A s \in SUBSET S : s \in Good
    <2> HIDE DEF Good
    <2> QED BY <1>1, BySubsets
  <1> QED BY <1>2

(* In particular, over a subset as over the whole.                         *)
LEMMA AddsSame ==
  ASSUME NEW S, IsFiniteSet(S), NEW T \in SUBSET S, NEW v, NEW g, NEW h,
         Adds(g, v, S), Adds(h, v, T)
  PROVE  g[T] = h[T]
  <1>1. \A x \in T : v[x] = v[x]
    OBVIOUS
  <1>2. \A s \in SUBSET T : g[s] = h[s]
    BY <1>1, AddsUnique
  <1> QED BY <1>2

-----------------------------------------------------------------------------
(* Nothing adds up to zero, and a sum is that of all elements but a picked *)
(* one, and the picked one.                                                *)
LEMMA SumStep ==
  ASSUME NEW S, IsFiniteSet(S), NEW v
  PROVE  /\ Sum(v, {}) = 0
         /\ S # {} => Sum(v, S) = v[Pick(S)] + Sum(v, S \ {Pick(S)})
  <1> DEFINE g(T) == CHOOSE h : Adds(h, v, T)
  <1>1. ASSUME NEW T \in SUBSET S
        PROVE  /\ Sum(v, T) = g(T)[T] /\ Adds(g(T), v, T)
    <2>1. IsFiniteSet(T)
      BY FS_Subset
    <2>2. \E h : Adds(h, v, T)
      BY <2>1, AddsExists
    <2> QED BY <2>2, SumDef
  <1> HIDE DEF g
  <1>2. Sum(v, {}) = 0
    <2>1. Adds(g({}), v, {}) /\ Sum(v, {}) = g({})[{}]
      BY <1>1
    <2>2. g({})[{}] = Next1(v, g({}), {})
      BY <2>1 DEF Adds
    <2> QED BY <2>1, <2>2 DEF Next1
  <1>3. ASSUME S # {} PROVE Sum(v, S) = v[Pick(S)] + Sum(v, S \ {Pick(S)})
    <2> DEFINE r == S \ {Pick(S)}
    <2>1. r \in SUBSET S /\ S \in SUBSET S
      OBVIOUS
    <2>2. Adds(g(S), v, S) /\ Sum(v, S) = g(S)[S] /\ Adds(g(r), v, r) /\ Sum(v, r) = g(r)[r]
      BY <1>1, <2>1
    <2>3. g(S)[S] = Next1(v, g(S), S)
      BY <2>1, <2>2 DEF Adds
    <2> HIDE DEF r
    <2>4. g(S)[r] = g(r)[r]
      BY <2>1, <2>2, AddsSame
    <2> QED BY <1>3, <2>2, <2>3, <2>4 DEF Next1, r
  <1> QED BY <1>2, <1>3

(* Sums of integers are integers.                                          *)
LEMMA SumInt ==
  ASSUME NEW S, IsFiniteSet(S), NEW v, \A x \in S : v[x] \in Int
  PROVE  \A s \in SUBSET S : Sum(v, s) \in Int
  <1> DEFINE Good == {s \in SUBSET S : Sum(v, s) \in Int}
  <1>1. ASSUME NEW s \in SUBSET S, \A t \in SUBSET s : t # s => t \in Good
        PROVE  s \in Good
    <2>0. IsFiniteSet(s)
      BY FS_Subset
    <2>1. CASE s = {}
      BY <2>0, <2>1, SumStep
    <2>2. CASE s # {}
      <3>1. Pick(s) \in s
        BY <2>2, Picked
      <3>2. Sum(v, s) = v[Pick(s)] + Sum(v, s \ {Pick(s)})
        BY <2>0, <2>2, SumStep
      <3>3. s \ {Pick(s)} \in Good
        BY <1>1, <3>1
      <3>4. v[Pick(s)] \in Int /\ Sum(v, s \ {Pick(s)}) \in Int
        BY <3>1, <3>3
      <3> QED BY <3>2, <3>4
    <2> QED BY <2>1, <2>2
  <1>2. \A s \in SUBSET S : s \in Good
    <2> HIDE DEF Good
    <2> QED BY <1>1, BySubsets
  <1> QED BY <1>2

(* It does not matter which element is added last.                         *)
LEMMA SumRemove ==
  ASSUME NEW S, IsFiniteSet(S), NEW v, \A x \in S : v[x] \in Int
  PROVE  \A x \in S : Sum(v, S) = v[x] + Sum(v, S \ {x})
  <1> DEFINE Good == {s \in SUBSET S : \A x \in s : Sum(v, s) = v[x] + Sum(v, s \ {x})}
  <1>1. ASSUME NEW s \in SUBSET S, \A t \in SUBSET s : t # s => t \in Good, NEW x \in s
        PROVE  Sum(v, s) = v[x] + Sum(v, s \ {x})
    <2> DEFINE p == Pick(s)
    <2>0. IsFiniteSet(s) /\ p \in s /\ s # {}
      BY FS_Subset, Picked
    <2>1. Sum(v, s) = v[p] + Sum(v, s \ {p})
      BY <2>0, SumStep
    <2>2. CASE p = x
      BY <2>1, <2>2
    <2>3. CASE p # x
      <3>1. s \ {p} \in Good /\ s \ {x} \in Good
        BY <1>1, <2>0
      <3> DEFINE r == s \ {p, x}
      <3>2. (s \ {p}) \ {x} = r /\ (s \ {x}) \ {p} = r /\ x \in s \ {p} /\ p \in s \ {x}
        BY <2>0, <2>3
      <3>3. /\ Sum(v, s \ {p}) = v[x] + Sum(v, r)
            /\ Sum(v, s \ {x}) = v[p] + Sum(v, r)
        BY <3>1, <3>2
      <3>4. v[x] \in Int /\ v[p] \in Int /\ Sum(v, r) \in Int
        BY <2>0, SumInt
      <3> QED BY <2>1, <3>3, <3>4
    <2> QED BY <2>2, <2>3
  <1>2. \A s \in SUBSET S : s \in Good
    <2>1. ASSUME NEW s \in SUBSET S, \A t \in SUBSET s : t # s => t \in Good
          PROVE  s \in Good
      BY <1>1, <2>1
    <2> HIDE DEF Good
    <2> QED BY <2>1, BySubsets
  <1> QED BY <1>2

(* Functions that agree on a set have the same sum over it.                *)
LEMMA SumEqual ==
  ASSUME NEW S, IsFiniteSet(S), NEW v, NEW w, \A x \in S : v[x] = w[x]
  PROVE  Sum(v, S) = Sum(w, S)
  <1>1. PICK g : Adds(g, v, S) BY AddsExists
  <1> DEFINE a == CHOOSE h : Adds(h, v, S)
             b == CHOOSE h : Adds(h, w, S)
  <1>2. Adds(a, v, S) /\ Adds(b, w, S)
    BY AddsExists
  <1>3. Sum(v, S) = a[S] /\ Sum(w, S) = b[S]
    BY SumDef
  <1> HIDE DEF a, b
  <1>4. \A s \in SUBSET S : a[s] = b[s]
    BY <1>2, AddsUnique
  <1> QED BY <1>3, <1>4

(* Changing one element changes the sum by the difference.                 *)
LEMMA SumChange ==
  ASSUME NEW S, IsFiniteSet(S), NEW v, NEW w, NEW x \in S,
         \A y \in S : v[y] \in Int /\ w[y] \in Int,
         \A y \in S \ {x} : v[y] = w[y]
  PROVE  Sum(w, S) = Sum(v, S) + w[x] - v[x]
  <1>1. Sum(v, S) = v[x] + Sum(v, S \ {x}) /\ Sum(w, S) = w[x] + Sum(w, S \ {x})
    BY SumRemove
  <1>2. IsFiniteSet(S \ {x})
    BY FS_Subset
  <1>3. Sum(v, S \ {x}) = Sum(w, S \ {x})
    BY <1>2, SumEqual
  <1>4. Sum(v, S \ {x}) \in Int
    BY SumInt
  <1> QED BY <1>1, <1>3, <1>4

(* The sum of sums.                                                        *)
LEMMA SumPlus ==
  ASSUME NEW S, IsFiniteSet(S), NEW u, NEW v, NEW w,
         \A x \in S : v[x] \in Int /\ w[x] \in Int /\ u[x] = v[x] + w[x]
  PROVE  Sum(u, S) = Sum(v, S) + Sum(w, S)
  <1> DEFINE Good == {s \in SUBSET S : Sum(u, s) = Sum(v, s) + Sum(w, s)}
  <1>1. ASSUME NEW s \in SUBSET S, \A t \in SUBSET s : t # s => t \in Good
        PROVE  s \in Good
    <2>0. IsFiniteSet(s)
      BY FS_Subset
    <2>1. CASE s = {}
      <3>1. Sum(u, s) = 0 /\ Sum(v, s) = 0 /\ Sum(w, s) = 0
        BY <2>0, <2>1, SumStep
      <3> QED BY <3>1
    <2>2. CASE s # {}
      <3> DEFINE p == Pick(s)
                 r == s \ {Pick(s)}
      <3>1. p \in s
        BY <2>2, Picked
      <3>2. /\ Sum(u, s) = u[p] + Sum(u, r)
            /\ Sum(v, s) = v[p] + Sum(v, r)
            /\ Sum(w, s) = w[p] + Sum(w, r)
        BY <2>0, <2>2, SumStep
      <3>3. r \in Good
        BY <1>1, <3>1
      <3>4. Sum(v, r) \in Int /\ Sum(w, r) \in Int
        BY <3>1, SumInt
      <3>5. v[p] \in Int /\ w[p] \in Int /\ u[p] = v[p] + w[p]
        BY <3>1
      <3>6. Sum(u, r) = Sum(v, r) + Sum(w, r)
        BY <3>3
      <3> HIDE DEF p, r
      <3>7. Sum(u, s) = Sum(v, s) + Sum(w, s)
        BY <3>2, <3>4, <3>5, <3>6
      <3> QED BY <3>7
    <2> QED BY <2>1, <2>2
  <1>2. \A s \in SUBSET S : s \in Good
    <2> HIDE DEF Good
    <2> QED BY <1>1, BySubsets
  <1> QED BY <1>2

(* Larger values have a larger sum.                                        *)
LEMMA SumAtMost ==
  ASSUME NEW S, IsFiniteSet(S), NEW v, NEW w,
         \A x \in S : v[x] \in Int /\ w[x] \in Int /\ v[x] <= w[x]
  PROVE  Sum(v, S) <= Sum(w, S)
  <1> DEFINE Good == {s \in SUBSET S : Sum(v, s) <= Sum(w, s)}
  <1>1. ASSUME NEW s \in SUBSET S, \A t \in SUBSET s : t # s => t \in Good
        PROVE  s \in Good
    <2>0. IsFiniteSet(s)
      BY FS_Subset
    <2>1. CASE s = {}
      <3>1. Sum(v, s) = 0 /\ Sum(w, s) = 0
        BY <2>0, <2>1, SumStep
      <3> QED BY <3>1
    <2>2. CASE s # {}
      <3> DEFINE p == Pick(s)
                 r == s \ {Pick(s)}
      <3>1. p \in s
        BY <2>2, Picked
      <3>2. /\ Sum(v, s) = v[p] + Sum(v, r)
            /\ Sum(w, s) = w[p] + Sum(w, r)
        BY <2>0, <2>2, SumStep
      <3>3. r \in Good
        BY <1>1, <3>1
      <3>4. Sum(v, r) \in Int /\ Sum(w, r) \in Int
        BY <3>1, SumInt
      <3>5. v[p] \in Int /\ w[p] \in Int /\ v[p] <= w[p]
        BY <3>1
      <3>6. Sum(v, r) <= Sum(w, r)
        BY <3>3
      <3> HIDE DEF p, r
      <3>7. Sum(v, s) <= Sum(w, s)
        BY <3>2, <3>4, <3>5, <3>6
      <3> QED BY <3>7
    <2> QED BY <2>1, <2>2
  <1>2. \A s \in SUBSET S : s \in Good
    <2> HIDE DEF Good
    <2> QED BY <1>1, BySubsets
  <1> QED BY <1>2

(* Zeros do not count.                                                     *)
LEMMA SumNonzero ==
  ASSUME NEW S, IsFiniteSet(S), NEW T \in SUBSET S, NEW v, \A x \in S : v[x] \in Int,
         \A x \in S \ T : v[x] = 0
  PROVE  Sum(v, S) = Sum(v, T)
  <1> DEFINE Good == {s \in SUBSET S : Sum(v, s) = Sum(v, s \cap T)}
  <1>1. ASSUME NEW s \in SUBSET S, \A t \in SUBSET s : t # s => t \in Good
        PROVE  s \in Good
    <2>0. IsFiniteSet(s) /\ IsFiniteSet(s \cap T)
      BY FS_Subset
    <2>1. CASE s = {}
      <3>1. s \cap T = s
        BY <2>1
      <3> QED BY <3>1
    <2>2. CASE s # {}
      <3> DEFINE p == Pick(s)
                 r == s \ {Pick(s)}
      <3>1. p \in s
        BY <2>2, Picked
      <3>2. Sum(v, s) = v[p] + Sum(v, r)
        BY <2>0, <2>2, SumStep
      <3>3. Sum(v, r) = Sum(v, r \cap T)
        BY <1>1, <3>1
      <3>4. CASE p \in T
        <4>1. Sum(v, s \cap T) = v[p] + Sum(v, (s \cap T) \ {p})
          <5>1. \A x \in s \cap T : v[x] \in Int
            OBVIOUS
          <5>2. p \in s \cap T
            BY <3>1, <3>4
          <5> HIDE DEF p
          <5> QED BY <2>0, <5>1, <5>2, SumRemove
        <4>2. (s \cap T) \ {p} = r \cap T
          OBVIOUS
        <4> QED BY <3>2, <3>3, <4>1, <4>2
      <3>5. CASE p \notin T
        <4>1. s \cap T = r \cap T
          BY <3>5
        <4>2. v[p] = 0
          BY <3>1, <3>5
        <4>3. Sum(v, r) \in Int
          BY <3>1, SumInt
        <4> HIDE DEF p, r
        <4>4. Sum(v, s) = Sum(v, r)
          BY <3>2, <4>2, <4>3
        <4> QED BY <3>3, <4>1, <4>4
      <3> QED BY <3>4, <3>5
    <2> QED BY <2>1, <2>2
  <1>2. \A s \in SUBSET S : s \in Good
    <2> HIDE DEF Good
    <2> QED BY <1>1, BySubsets
  <1>3. S \cap T = T
    OBVIOUS
  <1> QED BY <1>2, <1>3

(* The sizes of two disjoint sets add up.                                  *)
LEMMA DisjointSizes ==
  ASSUME NEW A, NEW B, IsFiniteSet(A), IsFiniteSet(B), A \cap B = {}
  PROVE  Cardinality(A \cup B) = Cardinality(A) + Cardinality(B)
  <1>1. Cardinality(A \cap B) = 0
    BY Zenon, FS_EmptySet
  <1>2. Cardinality(A) \in Nat /\ Cardinality(B) \in Nat
    BY FS_CardinalityType
  <1>3. Cardinality(A \cup B) = Cardinality(A) + Cardinality(B) - Cardinality(A \cap B)
    BY FS_Union
  <1> QED BY <1>1, <1>2, <1>3

(* The sizes of the classes of a set add up to the size of the set.        *)
LEMMA SumClasses ==
  ASSUME NEW S, IsFiniteSet(S), NEW K, IsFiniteSet(K), NEW c, NEW v,
         \A k \in K : v[k] = Cardinality({x \in S : c[x] = k}),
         \A x \in S : c[x] \in K
  PROVE  Sum(v, K) = Cardinality(S)
  <1> DEFINE Class(s) == {x \in S : c[x] \in s}
             Good == {s \in SUBSET K : Sum(v, s) = Cardinality(Class(s))}
  <1>0. \A s : IsFiniteSet(Class(s))
    BY FS_Subset
  <1>1. ASSUME NEW s \in SUBSET K, \A t \in SUBSET s : t # s => t \in Good
        PROVE  s \in Good
    <2>0. IsFiniteSet(s)
      BY FS_Subset
    <2>1. CASE s = {}
      <3>1. Class(s) = {}
        BY <2>1
      <3>2. Sum(v, s) = 0
        BY <2>0, <2>1, SumStep
      <3>3. Cardinality(Class(s)) = 0
        BY <3>1, FS_EmptySet
      <3> QED BY <3>2, <3>3
    <2>2. CASE s # {}
      <3> DEFINE p == Pick(s)
                 r == s \ {Pick(s)}
      <3>1. p \in s
        BY <2>2, Picked
      <3>2. Sum(v, s) = v[p] + Sum(v, r)
        BY <2>0, <2>2, SumStep
      <3>3. Sum(v, r) = Cardinality(Class(r))
        BY <1>1, <3>1
      <3>4. v[p] = Cardinality(Class({p}))
        <4>1. Class({p}) = {x \in S : c[x] = p}
          OBVIOUS
        <4> QED BY <3>1, <4>1
      <3>5. Class(s) = Class({p}) \cup Class(r) /\ Class({p}) \cap Class(r) = {}
        BY <3>1
      <3>6. IsFiniteSet(Class({p})) /\ IsFiniteSet(Class(r))
        BY <1>0
      <3> HIDE DEF Class, p, r
      <3>7. Cardinality(Class(s)) = Cardinality(Class({p})) + Cardinality(Class(r))
        BY <3>6, <3>5, DisjointSizes
      <3>8. Cardinality(Class({p})) \in Nat /\ Cardinality(Class(r)) \in Nat
        BY <3>6, FS_CardinalityType
      <3>9. Sum(v, s) = Cardinality(Class(s))
        BY <3>2, <3>3, <3>4, <3>7, <3>8
      <3> QED BY <3>9
    <2> QED BY <2>1, <2>2
  <1>2. \A s \in SUBSET K : s \in Good
    <2> HIDE DEF Good
    <2> QED BY <1>1, <1>0, BySubsets
  <1>3. Class(K) = S
    OBVIOUS
  <1>4. Sum(v, K) = Cardinality(Class(K))
    BY <1>2
  <1> QED BY <1>3, <1>4

-----------------------------------------------------------------------------
(* The goods.                                                              *)

GoodsOf(p) == [o \in Orders |-> orders[o].goods[p]]
Holding == {o \in Orders : orders[o].status \notin Returning}
Taken(p) == Sum(GoodsOf(p), Holding)

(* An order that is not yet placed has taken nothing.                      *)
EmptyUntilPlaced ==
    \A o \in Orders : orders[o].status = "absent" => orders[o].goods = NoGoods

Conserved == GoodsConserved /\ EmptyUntilPlaced

(* Shelf, orders and supply as numbers.                                    *)
LEMMA TakenTyped ==
  ASSUME Typed, NEW p \in Products
  PROVE  /\ \A o \in Orders : GoodsOf(p)[o] \in Nat
         /\ Taken(p) \in Int /\ inv[p].quantity \in Nat /\ supply[p] \in Int
         /\ IsFiniteSet(Holding)
  <1> USE DEF Typed, TypeOK
  <1>1. \A o \in Orders : GoodsOf(p)[o] \in Nat
    BY DEF GoodsOf, OrderRow
  <1>2. IsFiniteSet(Holding) /\ Holding \in SUBSET Orders
    BY OrdersAreBounded, FS_Subset DEF Holding
  <1>3. \A o \in Orders : GoodsOf(p)[o] \in Int
    BY <1>1
  <1>4. Taken(p) \in Int
    <2> HIDE DEF Typed, TypeOK
    <2> QED BY <1>2, <1>3, OrdersAreBounded, SumInt DEF Taken
  <1> QED BY <1>1, <1>2, <1>4 DEF InventoryRow

(* The property speaks of what is taken.                                   *)
LEMMA ConservedTaken ==
  GoodsConserved <=> \A p \in Products : inv[p].quantity + Taken(p) = supply[p]
  BY DEF GoodsConserved, Taken, Sum, GoodsOf, Holding

(* The opening store has all its goods on the shelf.                       *)
LEMMA ConservedInit == Init => Conserved
  <1> SUFFICES ASSUME Init PROVE Conserved
    OBVIOUS
  <1>1. EmptyUntilPlaced
    BY DEF Init, EmptyUntilPlaced, NoOrder
  <1>2. ASSUME NEW p \in Products PROVE inv[p].quantity + Taken(p) = supply[p]
    <2>1. IsFiniteSet(Holding) /\ {} \in SUBSET Holding
      BY OrdersAreBounded, FS_Subset DEF Holding
    <2>2. \A o \in Holding \ {} : GoodsOf(p)[o] = 0
      BY DEF Init, GoodsOf, Holding, NoOrder, NoGoods
    <2>3. \A o \in Holding : GoodsOf(p)[o] \in Int
      BY <2>2
    <2>4. Taken(p) = Sum(GoodsOf(p), {})
      BY <2>1, <2>2, <2>3, SumNonzero DEF Taken
    <2>5. Sum(GoodsOf(p), {}) = 0
      BY <2>1, SumStep
    <2>6. inv[p].quantity = Shelf[p] /\ supply[p] = Shelf[p] /\ Shelf[p] \in Int
      BY ConstantTypes DEF Init
    <2> QED BY <2>4, <2>5, <2>6
  <1> QED BY <1>1, <1>2, ConservedTaken DEF Conserved

(* A placed order takes from the shelf what its row says.                  *)
LEMMA PlaceConserves ==
  ASSUME Inv, Typed', Tally, Conserved, NEW s \in Sessions, NEW o \in Orders, CommitOrder(s, o)
  PROVE  Conserved'
  <1>1. Ledger!Place(o) /\ supply' = supply /\ orders[o].status = "absent"
    BY LedgerPlace DEF CommitOrder
  <1>2. /\ [x \in Orders |-> orders'[x].status]
             = [[x \in Orders |-> orders[x].status] EXCEPT ![o] = "new"]
        /\ \E g : [x \in Orders |-> orders'[x].goods]
                    = [[x \in Orders |-> orders[x].goods] EXCEPT ![o] = g]
        /\ [p \in Products |-> inv'[p].quantity]
             = [p \in Products |-> [r \in Products |-> inv[r].quantity][p]
                                   - [x \in Orders |-> orders'[x].goods][o][p]]
    BY <1>1 DEF Ledger!Place
  <1>3. /\ \A x \in Orders : orders'[x].status = IF x = o THEN "new" ELSE orders[x].status
        /\ \A x \in Orders \ {o} : orders'[x].goods = orders[x].goods
    BY <1>2
  <1>4. \A p \in Products : inv'[p].quantity = inv[p].quantity - orders'[o].goods[p]
    BY <1>2
  <1>5. Holding' = Holding /\ o \in Holding
    BY <1>1, <1>3 DEF Holding, Returning
  <1>6. EmptyUntilPlaced'
    BY <1>3 DEF Conserved, EmptyUntilPlaced
  <1>7. ASSUME NEW p \in Products PROVE inv'[p].quantity + Taken(p)' = supply'[p]
    <2> DEFINE v == GoodsOf(p)
               w == GoodsOf(p)'
    <2>1. v[o] = 0 /\ w[o] = orders'[o].goods[p]
      BY <1>1, <1>7 DEF GoodsOf, Conserved, EmptyUntilPlaced, NoGoods
    <2>2. \A x \in Holding \ {o} : v[x] = w[x]
      BY <1>3 DEF GoodsOf, Holding
    <2>3. /\ \A x \in Orders : v[x] \in Nat
          /\ Taken(p) \in Int /\ inv[p].quantity \in Nat /\ supply[p] \in Int
          /\ IsFiniteSet(Holding)
      BY <1>7, TakenTyped DEF Inv
    <2>4. \A x \in Orders : w[x] \in Nat
      BY <1>7 DEF Typed, TypeOK, OrderRow, GoodsOf
    <2>5. \A x \in Holding : v[x] \in Int /\ w[x] \in Int
      BY <2>3, <2>4 DEF Holding
    <2>6. Taken(p) = Sum(v, Holding) /\ Taken(p)' = Sum(w, Holding)
      BY <1>5 DEF Taken
    <2>7. inv[p].quantity + Taken(p) = supply[p]
      BY <1>7, ConservedTaken DEF Conserved
    <2>8. w[o] \in Int
      BY <1>5, <2>5
    <2> HIDE DEF v, w
    <2>9. Sum(w, Holding) = Sum(v, Holding) + w[o] - v[o]
      BY <1>5, <2>2, <2>3, <2>5, SumChange
    <2>10. inv'[p].quantity = inv[p].quantity - w[o]
      BY <1>4, <1>7, <2>1
    <2> QED BY <1>1, <2>1, <2>3, <2>6, <2>7, <2>8, <2>9, <2>10
  <1>8. GoodsConserved'
    BY <1>7 DEF GoodsConserved, Taken, Sum, GoodsOf, Holding
  <1> QED BY <1>6, <1>8 DEF Conserved

(* A move keeps its order's goods, or gives them back and the order no     *)
(* longer counts.                                                          *)
LEMMA MoveConserves ==
  ASSUME Inv, Typed', Tally, Conserved, NEW s \in Sessions, CommitMove(s)
  PROVE  Conserved'
  <1>1. PICK o \in Orders, next \in Statuses : Ledger!Move(o, next)
    BY LedgerMove
  <1>2. /\ supply' = supply
        /\ TransitionAllowed(orders[o].status, next)
        /\ [x \in Orders |-> orders'[x].status]
             = [[x \in Orders |-> orders[x].status] EXCEPT ![o] = next]
        /\ [x \in Orders |-> orders'[x].goods] = [x \in Orders |-> orders[x].goods]
        /\ [p \in Products |-> inv'[p].quantity]
             = IF next \in Returning
               THEN [p \in Products |-> [r \in Products |-> inv[r].quantity][p]
                                          + [x \in Orders |-> orders[x].goods][o][p]]
               ELSE [p \in Products |-> inv[p].quantity]
    BY <1>1 DEF CommitMove, Ledger!Move, Ledger!TransitionAllowed, TransitionAllowed,
                Ledger!Returning, Returning
  <1>3. /\ \A x \in Orders : orders'[x].status = IF x = o THEN next ELSE orders[x].status
        /\ \A x \in Orders : orders'[x].goods = orders[x].goods
    BY <1>2
  <1>4. o \in Holding
    BY <1>2 DEF Holding, TransitionAllowed, Returning
  <1>5. \A p \in Products : GoodsOf(p)' = GoodsOf(p)
    BY <1>3 DEF GoodsOf
  <1>6. EmptyUntilPlaced'
    BY <1>3, <1>2 DEF Conserved, EmptyUntilPlaced, Statuses
  <1>7. ASSUME NEW p \in Products PROVE inv'[p].quantity + Taken(p)' = supply'[p]
    <2>1. /\ \A x \in Holding : GoodsOf(p)[x] \in Int
          /\ Taken(p) \in Int /\ inv[p].quantity \in Nat /\ supply[p] \in Int
          /\ IsFiniteSet(Holding)
      <3>1. /\ \A x \in Orders : GoodsOf(p)[x] \in Nat
            /\ Taken(p) \in Int /\ inv[p].quantity \in Nat /\ supply[p] \in Int
            /\ IsFiniteSet(Holding)
        BY TakenTyped DEF Inv
      <3>2. \A x \in Holding : GoodsOf(p)[x] \in Nat
        BY <3>1 DEF Holding
      <3> QED BY <3>1, <3>2
    <2>2. inv[p].quantity + Taken(p) = supply[p]
      BY ConservedTaken DEF Conserved
    <2>3. Taken(p)' = Sum(GoodsOf(p), Holding')
      BY <1>5 DEF Taken
    <2>4. CASE next \in Returning
      <3>1. Holding' = Holding \ {o}
        BY <1>3, <2>4 DEF Holding
      <3>2. Taken(p) = GoodsOf(p)[o] + Sum(GoodsOf(p), Holding \ {o})
        BY <1>4, <2>1, SumRemove DEF Taken
      <3>3. inv'[p].quantity = inv[p].quantity + GoodsOf(p)[o]
        BY <1>2, <2>4 DEF GoodsOf
      <3>4. GoodsOf(p)[o] \in Int /\ Sum(GoodsOf(p), Holding \ {o}) \in Int
        BY <1>4, <2>1, SumInt
      <3> QED BY <1>2, <2>1, <2>2, <2>3, <3>1, <3>2, <3>3, <3>4
    <2>5. CASE next \notin Returning
      <3>1. Holding' = Holding
        BY <1>3, <1>4, <2>5 DEF Holding
      <3>2. inv'[p].quantity = inv[p].quantity
        BY <1>2, <2>5
      <3> QED BY <1>2, <2>2, <2>3, <3>1, <3>2 DEF Taken
    <2> QED BY <2>4, <2>5
  <1>8. GoodsConserved'
    BY <1>7 DEF GoodsConserved, Taken, Sum, GoodsOf, Holding
  <1> QED BY <1>6, <1>8 DEF Conserved

(* What the store puts on a shelf or takes from it is its supply.          *)
LEMMA PutConserves ==
  ASSUME Inv, Conserved, NEW r \in Products, NEW row, row.quantity \in Nat, Put(r, row)
  PROVE  Conserved'
  <1>1. /\ inv' = [inv EXCEPT ![r] = row] /\ orders' = orders
        /\ supply' = [supply EXCEPT ![r] = supply[r] + row.quantity - inv[r].quantity]
    BY DEF Put
  <1>2. ASSUME NEW p \in Products PROVE inv'[p].quantity + Taken(p)' = supply'[p]
    <2>1. /\ Taken(p) \in Int /\ inv[p].quantity \in Nat /\ supply[p] \in Int
          /\ inv[r].quantity \in Nat /\ supply[r] \in Int
      BY TakenTyped DEF Inv
    <2>2. inv[p].quantity + Taken(p) = supply[p]
      BY ConservedTaken DEF Conserved
    <2>3. Taken(p)' = Taken(p)
      BY <1>1 DEF Taken, GoodsOf, Holding
    <2>4. inv \in [Products -> InventoryRow] /\ supply \in [Products -> Int]
      BY DEF Inv, Typed, TypeOK
    <2>5. CASE p = r
      BY <1>1, <2>1, <2>2, <2>3, <2>4, <2>5
    <2>6. CASE p # r
      BY <1>1, <2>2, <2>3, <2>4, <2>6
    <2> QED BY <2>5, <2>6
  <1>3. GoodsConserved'
    BY <1>2 DEF GoodsConserved, Taken, Sum, GoodsOf, Holding
  <1> QED BY <1>1, <1>3 DEF Conserved, EmptyUntilPlaced

(* A step that leaves shelf, goods, stages and supply alone.               *)
LEMMA StillConserves ==
  ASSUME Conserved, UNCHANGED Ledger!ledger, UNCHANGED supply
  PROVE  Conserved'
  <1>1. /\ [p \in Products |-> inv'[p].quantity] = [p \in Products |-> inv[p].quantity]
        /\ [x \in Orders |-> orders'[x].status] = [x \in Orders |-> orders[x].status]
        /\ [x \in Orders |-> orders'[x].goods] = [x \in Orders |-> orders[x].goods]
    BY DEF Ledger!ledger
  <1>2. /\ \A p \in Products : inv'[p].quantity = inv[p].quantity
        /\ \A x \in Orders : orders'[x].status = orders[x].status
                             /\ orders'[x].goods = orders[x].goods
    BY <1>1
  <1>3. Holding' = Holding /\ \A p \in Products : GoodsOf(p)' = GoodsOf(p)
    BY <1>2 DEF Holding, GoodsOf
  <1>4. \A p \in Products : inv[p].quantity + Taken(p) = supply[p]
    BY ConservedTaken DEF Conserved
  <1>5. \A p \in Products : inv'[p].quantity + Taken(p)' = supply'[p]
    BY <1>2, <1>3, <1>4 DEF Taken
  <1>6. GoodsConserved'
    BY <1>5 DEF GoodsConserved, Taken, Sum, GoodsOf, Holding
  <1> QED BY <1>2, <1>6 DEF Conserved, EmptyUntilPlaced

(* Every step conserves the goods.                                         *)
LEMMA ConservedNext == Inv /\ Tally /\ Conserved /\ [Next]_vars => Conserved'
  <1> SUFFICES ASSUME Inv, Tally, Conserved, [Next]_vars PROVE Conserved'
    OBVIOUS
  <1>0. Typed'
    BY NextInv DEF Inv
  <1>1. CASE UNCHANGED <<inv, orders, supply>>
    BY <1>1, StillConserves DEF Ledger!ledger
  <1>2. ASSUME NEW s \in Sessions, NEW o \in Orders, CommitOrder(s, o)
        PROVE  Conserved'
    BY <1>0, <1>2, PlaceConserves
  <1>3. ASSUME NEW s \in Sessions, CommitMove(s) PROVE Conserved'
    BY <1>0, <1>3, MoveConserves
  <1>4. ASSUME NEW s \in Sessions, CommitWeight(s) PROVE Conserved'
    BY <1>4, LedgerWeigh, StillConserves DEF CommitWeight
  <1>5. ASSUME NEW p \in Products, NEW patch \in Patches, UpdateInventory(p, patch)
        PROVE  Conserved'
    <2>1. Patched(inv[p], patch) \in InventoryRow
      BY PatchedTyped, ConstantTypes DEF Inv, Typed, TypeOK
    <2>2. Patched(inv[p], patch).quantity \in Nat
      BY <2>1 DEF InventoryRow
    <2> QED BY <1>5, <2>2, PutConserves DEF UpdateInventory
  <1>6. ASSUME NEW p \in Products, NEW q \in Receipts, ReceiveInventory(p, q)
        PROVE  Conserved'
    <2> DEFINE row == [inv[p] EXCEPT !.quantity = inv[p].quantity + q,
                                     !.stock = inv[p].stock + Ceil(q),
                                     !.status = "available"]
    <2>1. row.quantity \in Nat
      <3>1. inv[p] \in InventoryRow /\ q \in Nat
        BY ConstantTypes DEF Inv, Typed, TypeOK
      <3> QED BY <3>1 DEF InventoryRow
    <2>2. Put(p, row)
      BY <1>6 DEF ReceiveInventory, Received
    <2> HIDE DEF row
    <2> QED BY <2>1, <2>2, PutConserves
  <1>7. ASSUME Administer
        PROVE  \/ UNCHANGED <<inv, orders, supply>>
               \/ \E r \in Products, patch \in Patches : UpdateInventory(r, patch)
               \/ \E r \in Products, q \in Receipts : ReceiveInventory(r, q)
    BY <1>7 DEF Administer, NextDay, DeletePromo, PauseSubscription, CancelSubscription,
                SetSubscription
  <1> QED
    BY <1>1, <1>2, <1>3, <1>4, <1>5, <1>6, <1>7, NextActs, ActsTables DEF vars, tables

(* No goods appear or vanish, whatever fails half way: shelf and orders    *)
(* together always hold what the store put on its shelf.                   *)
THEOREM GoodsAreConserved == Spec => []GoodsConserved
  <1>1. Spec => []Conserved
    BY ConservedInit, ConservedNext, TallyCorrect, Invariance, PTL DEF Spec
  <1>2. Conserved => GoodsConserved BY DEF Conserved
  <1> QED BY <1>1, <1>2, PTL

-----------------------------------------------------------------------------
(* The reports.                                                            *)

Finals == [o \in Orders |-> orders[o].final]
Charges == [o \in Orders |-> orders[o].pos]
Online == [o \in Orders |-> orders[o].final - orders[o].pos]
Holds == [o \in Orders |-> orders[o].hold]
Terminal == [o \in Orders |-> IF posPaid[o] = <<>> THEN 0 ELSE posPaid[o][1]]
Stages == [o \in Orders |-> orders[o].status]

(* What the terminal took of each order, from the rule about its payments. *)
LEMMA TerminalTook ==
  ASSUME Typed, PaidOnDelivery, NEW o \in Orders
  PROVE  Terminal[o] = IF orders[o].status = "delivered" THEN orders[o].pos ELSE 0
  <1>1. posPaid[o] = IF orders[o].status = "delivered" /\ orders[o].pos > 0
                     THEN <<orders[o].pos>> ELSE <<>>
    BY DEF PaidOnDelivery
  <1>2. orders[o].pos \in Nat
    BY DEF Typed, TypeOK, OrderRow
  <1>3. CASE orders[o].status = "delivered" /\ orders[o].pos > 0
    <2>1. posPaid[o] = <<orders[o].pos>>
      BY <1>1, <1>3
    <2>2. posPaid[o] # <<>> /\ posPaid[o][1] = orders[o].pos
      BY <2>1
    <2> QED BY <1>3, <2>2 DEF Terminal
  <1>4. CASE ~(orders[o].status = "delivered" /\ orders[o].pos > 0)
    <2>1. posPaid[o] = <<>>
      BY <1>1, <1>4
    <2>2. Terminal[o] = 0
      BY <2>1 DEF Terminal
    <2> QED BY <1>2, <1>4, <2>2
  <1> QED BY <1>3, <1>4

(* The terminal payments add up to the top-ups of the delivered orders.    *)
LEMMA TerminalBalances ==
  ASSUME Typed, PaidOnDelivery
  PROVE  TerminalPayments = PosTotal
  <1>1. \A o \in Orders : orders[o].pos \in Nat
    BY DEF Typed, TypeOK, OrderRow
  <1>2. Delivered \in SUBSET Orders
        /\ \A o \in Orders : o \in Delivered <=> orders[o].status = "delivered"
    BY DEF Delivered, In, Placed
  <1>3. /\ \A o \in Orders : Terminal[o] \in Int
        /\ \A o \in Orders \ Delivered : Terminal[o] = 0
        /\ \A o \in Delivered : Terminal[o] = Charges[o]
    BY <1>1, <1>2, TerminalTook DEF Charges
  <1>4. IsFiniteSet(Orders) /\ IsFiniteSet(Delivered)
    BY <1>2, OrdersAreBounded, FS_Subset
  <1>5. Sum(Terminal, Orders) = Sum(Terminal, Delivered)
    BY <1>2, <1>3, <1>4, SumNonzero
  <1>6. Sum(Terminal, Delivered) = Sum(Charges, Delivered)
    BY <1>3, <1>4, SumEqual
  <1> QED BY <1>5, <1>6 DEF Sum, Terminal, Charges, TerminalPayments, PosTotal

(* Online and terminal add up to the turnover, and the holds cover online. *)
LEMMA MoneyBalances ==
  ASSUME Typed, OnlineWithinHold
  PROVE  OnlineTotal + PosTotal = Turnover /\ OnlineTotal <= Sum(Holds, Delivered)
  <1>1. ASSUME NEW o \in Orders
        PROVE  /\ Online[o] \in Int /\ Charges[o] \in Int /\ Holds[o] \in Int
               /\ Finals[o] = Online[o] + Charges[o] /\ Online[o] <= Holds[o]
    <2>1. orders[o].final \in Nat /\ orders[o].pos \in Nat /\ orders[o].hold \in Nat
      BY DEF Typed, TypeOK, OrderRow
    <2>2. orders[o].final - orders[o].pos <= orders[o].hold
      BY DEF OnlineWithinHold
    <2> QED BY <2>1, <2>2 DEF Online, Charges, Holds, Finals
  <1>2. Delivered \in SUBSET Orders
    BY DEF Delivered, In, Placed
  <1>3. IsFiniteSet(Delivered)
    BY <1>2, OrdersAreBounded, FS_Subset
  <1>4. \A o \in Delivered :
           /\ Online[o] \in Int /\ Charges[o] \in Int /\ Holds[o] \in Int
           /\ Finals[o] = Online[o] + Charges[o] /\ Online[o] <= Holds[o]
    BY <1>1, <1>2
  <1>5. Sum(Finals, Delivered) = Sum(Online, Delivered) + Sum(Charges, Delivered)
    BY <1>3, <1>4, SumPlus
  <1>6. Sum(Online, Delivered) <= Sum(Holds, Delivered)
    BY <1>3, <1>4, SumAtMost
  <1> QED BY <1>5, <1>6 DEF Sum, Finals, Online, Charges, OnlineTotal, PosTotal, Turnover

(* Every placed order is in exactly one stage of the funnel.               *)
LEMMA FunnelBalances ==
  ASSUME Typed
  PROVE  Cardinality(Placed) = Sum([st \in Statuses |-> Cardinality(In(st))], Statuses)
  <1> DEFINE funnel == [st \in Statuses |-> Cardinality(In(st))]
  <1>1. IsFiniteSet(Placed)
    BY OrdersAreBounded, FS_Subset DEF Placed
  <1>2. IsFiniteSet(Statuses)
    <2>1. Statuses = ((((({} \cup {"new"}) \cup {"picked"}) \cup {"in_delivery"})
                        \cup {"delivered"}) \cup {"failed"}) \cup {"cancelled"}
      BY DEF Statuses
    <2>2. ASSUME NEW T, IsFiniteSet(T), NEW x PROVE IsFiniteSet(T \cup {x})
      BY <2>2, FS_AddElement
    <2>3. IsFiniteSet({})
      BY FS_EmptySet
    <2> QED BY Zenon, <2>1, <2>2, <2>3
  <1>3. \A o \in Placed : Stages[o] \in Statuses
    BY DEF Typed, TypeOK, OrderRow, Placed, Stages
  <1>4. \A st \in Statuses : funnel[st] = Cardinality({o \in Placed : Stages[o] = st})
    <2>1. ASSUME NEW st \in Statuses PROVE In(st) = {o \in Placed : Stages[o] = st}
      BY DEF In, Stages, Placed
    <2> QED BY <2>1
  <1> HIDE DEF funnel
  <1>5. Sum(funnel, Statuses) = Cardinality(Placed)
    BY <1>1, <1>2, <1>3, <1>4, SumClasses
  <1> QED BY <1>5 DEF funnel

(* What the two consoles report agrees at every moment: no report counts   *)
(* money that no terminal and no hold covers, or loses an order.           *)
THEOREM ReportsAgree == Spec => []ReportsBalance
  <1>1. Typed /\ PaidOnDelivery /\ OnlineWithinHold /\ OutOfStockIffEmpty => ReportsBalance
    <2> SUFFICES ASSUME Typed, PaidOnDelivery, OnlineWithinHold, OutOfStockIffEmpty
                 PROVE  ReportsBalance
      OBVIOUS
    <2>1. {p \in Products : inv[p].status = "out_of_stock"}
            = {p \in Products : inv[p].quantity = 0}
      BY DEF OutOfStockIffEmpty
    <2>2. StoreReport.pos = TerminalPayments
      BY TerminalBalances DEF StoreReport
    <2>3. StoreReport.online + StoreReport.pos = Analytics.gmv
      BY MoneyBalances DEF StoreReport, Analytics
    <2>4. StoreReport.online <= SumFunctionOnSet([o \in Orders |-> orders[o].hold], Delivered)
      BY MoneyBalances DEF StoreReport, Holds, Sum
    <2>5. Revenue.gmv = Analytics.gmv /\ Revenue.orders = StoreReport.delivered
      BY DEF StoreReport, Analytics, Revenue
    <2>6. Delivery.totals = SumFunctionOnSet(Analytics.funnel, Statuses)
      BY FunnelBalances DEF Delivery, Analytics, Sum
    <2>7. Analytics.out = Cardinality({p \in Products : inv[p].quantity = 0})
      BY <2>1 DEF Analytics
    <2> QED BY <2>2, <2>3, <2>4, <2>5, <2>6, <2>7 DEF ReportsBalance
  <1>2. Inv => Typed BY DEF Inv
  <1> QED BY <1>1, <1>2, Invariance, PaymentCorrect, MoneyCorrect, LabelsCorrect, PTL
=============================================================================
