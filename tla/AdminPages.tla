----------------------------- MODULE AdminPages -----------------------------
(***************************************************************************)
(* The pages of the administrators.  The reports and the customers number  *)
(* their requests; the catalog - stores, goods, promo codes, the goods of a*)
(* store - shows whatever answer comes last.                               *)
(***************************************************************************)
EXTENDS AdminCatalog

CONSTANTS Periods, Stores

-----------------------------------------------------------------------------
(* The reports: of a store, of the revenue, of the delivery, of the        *)
(* payments.  They are loaded on demand, and blank from the click on.      *)

OpenReports(p, a) == p \in Reports /\ MountIdle(p, a, "active")

LoadBlank(s, a) ==
    /\ Issue(s, a, TRUE, {})
    /\ list' = Blank /\ loading' = TRUE /\ failed' = FALSE

LoadStoreReport(s) ==
    /\ page = "report" /\ ~loading /\ Click
    /\ LoadBlank(s, about)
    /\ UNCHANGED <<role, page, about, held, dialog, act, own, server>>

LoadRevenue(s) ==
    /\ page = "revenue" /\ ~loading /\ Click
    /\ LoadBlank(s, about)
    /\ UNCHANGED <<role, page, about, held, dialog, act, own, server>>

LoadDelivery(s) ==
    /\ page = "delivery" /\ ~loading /\ Click
    /\ LoadBlank(s, about)
    /\ UNCHANGED <<role, page, about, held, dialog, act, own, server>>

(* Also by the pagination, with what is selected now.                      *)
LoadPayments(s) ==
    /\ page = "payments" /\ ~loading /\ Click
    /\ LoadBlank(s, about)
    /\ UNCHANGED <<role, page, about, held, dialog, act, own, server>>

(* Mutant: the request in progress is listened to.                         *)
ResetListening ==
    /\ list' = Blank /\ loading' = FALSE /\ failed' = FALSE
    /\ UNCHANGED <<loads, newest>>

(* resetStoreReport, resetRevenue, resetDelivery, resetPayments            *)
Reset ==
    /\ list' = Blank /\ loading' = FALSE /\ failed' = FALSE
    /\ Supersede

(* The fields of the store's report are disabled while it is loaded, but a *)
(* period may be changed while the others are.                             *)
SetPeriod(a) ==
    /\ page \in Reports /\ a # about /\ (page = "report" => ~loading)
    /\ about' = a /\ Click /\ Reset
    /\ UNCHANGED <<role, page, held, dialog, act, own, server>>

-----------------------------------------------------------------------------
(* The customers, by filter and page.                                      *)

OpenCustomers(a) == MountLoading("customers", a, "active")

LoadCustomers(s, a) ==
    /\ Issue(s, a, TRUE, {act.slot})
    /\ loading' = TRUE /\ failed' = FALSE
    /\ UNCHANGED list

(* Also if the filter is what it was.                                      *)
ApplyFilters(a, s) ==
    /\ page = "customers" /\ Uncovered
    /\ about' = a /\ Click
    /\ LoadCustomers(s, a)
    /\ UNCHANGED <<role, page, held, dialog, act, own, server>>

RetryCustomers(s) ==
    /\ page = "customers" /\ Uncovered /\ failed /\ ~loading
    /\ LoadCustomers(s, about)
    /\ UNCHANGED <<user, held, dialog, act, own, server>>

(* The card of one of them.                                                *)
OpenCards == MountIdle("card", None, "active")

(* The card is there at once, its contents come later.                     *)
OpenDetails(r, s) ==
    /\ page = "card" /\ Uncovered
    /\ about = None /\ about' = r /\ Click
    /\ Issue(s, r, TRUE, {act.slot})
    /\ list' = Blank /\ loading' = TRUE /\ failed' = FALSE
    /\ UNCHANGED <<role, page, held, dialog, act, own, server>>

RetryDetails(s) ==
    /\ page = "card" /\ Uncovered /\ about # None /\ failed /\ ~loading
    /\ Issue(s, about, TRUE, {act.slot})
    /\ list' = Blank /\ loading' = TRUE /\ failed' = FALSE
    /\ UNCHANGED <<user, held, dialog, act, own, server>>

(* The loader is left as it is: it is not to be seen.                      *)
CloseDetails ==
    /\ page = "card" /\ Uncovered
    /\ about # None /\ about' = None
    /\ Supersede
    /\ list' = Blank /\ failed' = FALSE
    /\ UNCHANGED <<role, page, clicks, loading, held, dialog, act, own, server>>

ChooseAction(r) ==
    /\ Uncovered /\ ~loading
    /\ \/ page = "customers" /\ list.rows[r] # Absent /\ ~failed
       \/ page = "card" /\ about = r /\ ~failed
    /\ Choose(r, "subscription")

(* The dialog may be dismissed, and the card closed, before the answer.    *)
RunSubscriptionAction ==
    /\ page \in {"customers", "card"} /\ ~Uncovered /\ act = Idle
    /\ Submit(about, None) /\ UNCHANGED <<loads, newest>>

(* The list is loaded again, with the filter of the click; the card of the *)
(* customer the action was for is opened again.                            *)
SubscriptionDone(s) ==
    /\ act.step = "done" /\ Acknowledge /\ Close /\ Reloading(s)
    /\ \/ page = "customers" /\ LoadCustomers(s, act.about)
          /\ UNCHANGED about
       \/ page = "card" /\ about' = act.row
          /\ Issue(s, act.row, TRUE, {})
          /\ list' = Blank /\ loading' = TRUE /\ failed' = FALSE
    /\ UNCHANGED <<role, page, clicks, held, server>>

-----------------------------------------------------------------------------
(* The catalog.                                                            *)

OpenStores == MountLoading("stores", None, "active")
OpenProducts == MountLoading("products", None, "active")
OpenPromos == MountLoading("promos", None, "active")

StoreDialogs == {"create", "cover", "settle"}
ProductDialogs == {"create", "edit", "deactivate"}
PromoDialogs == {"create", "edit", "deactivate"}

LoadAny(s, a) ==
    /\ Issue(s, a, TRUE, Slots)
    /\ loading' = TRUE /\ failed' = FALSE
    /\ UNCHANGED list

RetryAny(p, s) ==
    /\ page = p /\ Uncovered /\ failed /\ ~loading
    /\ LoadAny(s, about)
    /\ UNCHANGED <<user, held, dialog, act, own, server>>

RetryStores(s) == RetryAny("stores", s)
RetryProducts(s) == RetryAny("products", s)
RetryPromos(s) == RetryAny("promos", s)

(* Between two actions, or while the list of the first is loaded; the promo*)
(* codes wait for it.                                                      *)
MayChoose ==
    /\ Uncovered
    /\ act = Idle \/ (act.step = "reload" /\ page # "promos")

(* Something new can be made before the list is there.                     *)
ChooseNew(p, r) ==
    /\ page = p /\ MayChoose
    /\ list.rows[r] = Absent
    /\ Choose(r, "create")

NewStore(r) == ChooseNew("stores", r)
NewProduct(r) == ChooseNew("products", r)
NewPromo(r) == ChooseNew("promos", r)

ChooseStore(r, kind) ==
    /\ page = "stores" /\ MayChoose /\ ~loading /\ ~failed
    /\ list.rows[r] # Absent
    /\ Choose(r, kind)

(* An item that was switched off is offered nothing.                       *)
ChooseProduct(r, kind) ==
    /\ page = "products" /\ MayChoose /\ ~loading /\ ~failed
    /\ list.rows[r].status = "active"
    /\ Choose(r, kind)

(* One that was switched off can still be edited.                          *)
ChoosePromo(r, kind) ==
    /\ page = "promos" /\ MayChoose /\ ~loading /\ ~failed
    /\ list.rows[r] # Absent
    /\ kind = "deactivate" => list.rows[r].status = "active"
    /\ Choose(r, kind)

(* An action of the catalog leaves the requests sent before alone.         *)
SubmitDraft(p, kind, draft) ==
    /\ page = p /\ dialog.kind = kind /\ act.step \in {"idle", "reload"}
    /\ Start(kind, dialog.row, draft, None, None)
    /\ UNCHANGED <<loads, newest>>

SubmitShown(p, kind) == SubmitDraft(p, kind, dialog.draft)

(* The form of a promo code has a switch for its activity.                 *)
PromoForm == {"active", "inactive"}

SubmitStore == SubmitShown("stores", "create")
SubmitCoverage == SubmitShown("stores", "cover")
SubmitSettings == SubmitShown("stores", "settle")
SubmitProduct == SubmitShown("products", "create")
SubmitProductEdit == SubmitShown("products", "edit")
ConfirmDeactivation == SubmitShown("products", "deactivate")
SubmitPromo ==
    \E status \in PromoForm : SubmitDraft("promos", "create", status)
SubmitPromoEdit ==
    \E status \in PromoForm : SubmitDraft("promos", "edit", status)
DeactivatePromocode == SubmitShown("promos", "deactivate")

ActivatePromocode(r) ==
    /\ page = "promos" /\ MayChoose /\ ~loading /\ ~failed
    /\ list.rows[r].status = "inactive"
    /\ Start("activate", r, None, None, None)
    /\ UNCHANGED <<loads, newest>>

CatalogDone(s) ==
    /\ page \in {"stores", "products", "promos"} /\ act.step = "done"
    /\ Acknowledge /\ Close /\ LoadAny(s, None) /\ Reloading(s)
    /\ UNCHANGED <<user, held, server>>

-----------------------------------------------------------------------------
(* The goods of a store.                                                   *)

OpenInventory == MountIdle("inventory", None, "active")

(* An answer for another store is shown like any other.                    *)
SelectStore(a, s) ==
    /\ page = "inventory" /\ Uncovered
    /\ a # about /\ about' = a /\ Click
    /\ LoadAny(s, a)
    /\ UNCHANGED <<role, page, held, dialog, act, own, server>>

RetryInventory(s) == about # None /\ RetryAny("inventory", s)

DeselectStore ==
    /\ page = "inventory" /\ Uncovered /\ about # None /\ about' = None
    /\ list' = Blank
    /\ UNCHANGED <<role, page, clicks, loading, failed, net, dialog, act,
                   own, server>>

(* Any item of the catalog; the store of the form need not be the selected.*)
ChooseInventory(r) ==
    /\ page = "inventory" /\ Uncovered /\ act = Idle
    /\ Choose(r, "attach")

SubmitInventory(a) ==
    /\ page = "inventory" /\ ~Uncovered /\ act = Idle
    /\ Submit(about, a) /\ UNCHANGED <<loads, newest>>

(* The store selected at the click is loaded anew, another one is selected.*)
InventoryDone(s) ==
    /\ page = "inventory" /\ act.step = "done" /\ Acknowledge /\ Close
    /\ IF act.to = act.about
       THEN LoadAny(s, act.to) /\ Reloading(s) /\ UNCHANGED about
       ELSE /\ act' = Idle /\ about' = act.to
            /\ IF act.to # about THEN LoadAny(s, act.to)
               ELSE s = 1 /\ UNCHANGED <<loads, newest, shown>>
    /\ UNCHANGED <<role, page, clicks, held, server>>

-----------------------------------------------------------------------------
AdminNext ==
    \/ \E a \in Periods :
          \/ \E p \in Reports : OpenReports(p, a)
          \/ SetPeriod(a) \/ OpenCustomers(a)
    \/ OpenCards \/ CloseDetails \/ RunSubscriptionAction
    \/ OpenStores \/ OpenProducts \/ OpenPromos \/ OpenInventory
    \/ DeselectStore
    \/ \E s \in Slots :
          \/ LoadStoreReport(s) \/ LoadRevenue(s) \/ LoadDelivery(s)
          \/ LoadPayments(s)
          \/ \E a \in Periods : ApplyFilters(a, s)
          \/ \E r \in Rows : OpenDetails(r, s)
          \/ RetryCustomers(s) \/ RetryDetails(s) \/ SubscriptionDone(s)
          \/ RetryStores(s) \/ RetryProducts(s) \/ RetryPromos(s)
          \/ RetryInventory(s) \/ CatalogDone(s)
          \/ \E a \in Stores : SelectStore(a, s)
          \/ InventoryDone(s)
    \/ \E r \in Rows :
          \/ ChooseAction(r)
          \/ NewStore(r) \/ NewProduct(r) \/ NewPromo(r)
          \/ \E kind \in StoreDialogs \ {"create"} : ChooseStore(r, kind)
          \/ \E kind \in ProductDialogs \ {"create"} : ChooseProduct(r, kind)
          \/ \E kind \in PromoDialogs \ {"create"} : ChoosePromo(r, kind)
          \/ ActivatePromocode(r) \/ ChooseInventory(r)
    \/ \E a \in Stores : SubmitInventory(a)
    \/ SubmitStore \/ SubmitCoverage \/ SubmitSettings
    \/ SubmitProduct \/ SubmitProductEdit \/ ConfirmDeactivation
    \/ SubmitPromo \/ SubmitPromoEdit \/ DeactivatePromocode
    \/ CatalogNext
=============================================================================
