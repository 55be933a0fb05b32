---------------------------- MODULE ManagerPages ----------------------------
(***************************************************************************)
(* The pages of a store's manager: the orders, read again every 30 s, the  *)
(* stock, and the figures of the day.  While a manager works on an order   *)
(* the requests sent before are superseded; the answer is merged into the  *)
(* list, which is then loaded anew - with the filter of the moment of the  *)
(* click, whatever it is by now.                                           *)
(***************************************************************************)
EXTENDS Pages, OrderRules

Filters == {"all", "new"}

-----------------------------------------------------------------------------
(* The orders.                                                             *)

OpenOrders == MountLoading("orders", "all", "new")

(* Mutant: the loader is taken away by the request that showed it.         *)
LoadOrdersQuietly(s, a, keep) ==
    /\ Issue(s, a, list = Blank /\ ~loading, keep)
    /\ loading' = (loading \/ list = Blank)
    /\ UNCHANGED list

(* The loader is there for the first list only, and whichever of the       *)
(* requests sent before it is heard takes it away.                         *)
LoadOrders(s, a, keep) ==
    /\ Issue(s, a, list = Blank, keep)
    /\ loading' = (loading \/ list = Blank)
    /\ UNCHANGED list

(* A tick sends nothing while a request of another one is in progress.     *)
Tick(s) ==
    /\ page = "orders" /\ held = 0 /\ held' = s
    /\ LoadOrders(s, about, {act.slot})
    /\ UNCHANGED <<user, failed, dialog, act, own, server>>

(* The effect of the former filter is cleaned up.                          *)
SetFilter(a, s) ==
    /\ page = "orders" /\ Uncovered
    /\ a # about /\ about' = a /\ Click
    /\ held' = 0 /\ failed' = FALSE
    /\ LoadOrders(s, a, {act.slot})
    /\ UNCHANGED <<role, page, dialog, act, own, server>>

RetryOrders(s) ==
    /\ page = "orders" /\ Uncovered /\ failed /\ ~loading /\ list.rows = Nothing
    /\ LoadOrders(s, about, {held, act.slot}) /\ failed' = FALSE
    /\ UNCHANGED <<user, held, dialog, act, own, server>>

(* What the buttons of a row offer.                                        *)
Offered ==
    [new |-> {"picked", "cancelled"},
     picked |-> {"weighed", "in_delivery", "cancelled"},
     in_delivery |-> {"delivered", "failed"},
     delivered |-> {}, failed |-> {}, cancelled |-> {}, absent |-> {}]

(* A dialog for each, but for an order that leaves.                        *)
OrderDialogs == {"picked", "weighed", "delivered", "failed", "cancelled"}

ChooseOrder(r, kind) ==
    /\ page = "orders" /\ Uncovered /\ ~loading /\ act = Idle
    /\ kind \in Offered[list.rows[r].status]
    /\ Choose(r, kind)

(* The buttons of the three dialogs: the checklist of an order, its weight *)
(* and the confirmation.                                                   *)
CanConfirmPick == dialog.kind = "picked" /\ act = Idle
CanSubmitWeight == dialog.kind = "weighed" /\ act = Idle
CanConfirm == dialog.kind \in {"delivered", "failed", "cancelled"} /\ act = Idle

(* One action at a time; the requests sent before are superseded.          *)
Work(p, a) ==
    /\ page = p /\ ~Uncovered /\ act = Idle
    /\ Submit(a, None) /\ Supersede

(* A confirmed status runs the handler of the moment it was asked for.     *)
UpdateStatus ==
    /\ CanConfirm
    /\ Work("orders", dialog.about)

SendOut(r) ==
    /\ page = "orders" /\ Uncovered /\ ~loading /\ act = Idle
    /\ list.rows[r].status = "picked"
    /\ Start("in_delivery", r, None, about, None) /\ Supersede

PickOrder == CanConfirmPick /\ Work("orders", about)
SubmitWeight == CanSubmitWeight /\ Work("orders", about)

ListOrders(s) ==
    Read("orders", s, LET a == loads[s].about
                          Wanted(row) == a \in {"all", row.status}
                      IN Where(Wanted))

(* The server looks at the order as it is now.                             *)
Moved ==
    act.row # None /\ \E to \in {"picked", "in_delivery", "delivered", "failed", "cancelled"} :
        /\ TransitionAllowed(table[act.row].status, to)
        /\ Change("orders", to, Changed(to))

Weighed ==
    /\ act.row # None /\ table[act.row].status = "picked"
    /\ Change("orders", "weighed", Changed("picked"))

(* mergeOrder                                                              *)
Merged ==
    IF list.rows[act.row] = Absent THEN list
    ELSE [list EXCEPT !.rows[act.row] = act.result]

(* Mutant: a request of the timer in progress is taken for the new list.   *)
OrderDoneYielding(s) ==
    /\ page = "orders" /\ act.step = "done"
    /\ list' = Merged /\ Acknowledge /\ Close
    /\ IF held = 0
       THEN Issue(s, act.about, FALSE, {}) /\ held' = s /\ Reloading(s)
       ELSE s = 1 /\ act' = Idle /\ UNCHANGED net
    /\ UNCHANGED <<user, loading, failed, server>>

(* Its own request is sent whatever the timer holds.  A confirmation stays *)
(* until that is answered.                                                 *)
OrderDone(s) ==
    /\ page = "orders" /\ act.step = "done"
    /\ list' = Merged /\ Acknowledge
    /\ dialog' = IF act.kind \in {"picked", "weighed"} THEN NoDialog ELSE dialog
    /\ Issue(s, act.about, FALSE, {}) /\ held' = s /\ Reloading(s)
    /\ UNCHANGED <<user, loading, failed, server>>

-----------------------------------------------------------------------------
(* The stock.                                                              *)

OpenStock == MountLoading("stock", None, "active")

LoadInventory(s, keep) == LoadOrders(s, None, keep)

RetryStock(s) ==
    /\ page = "stock" /\ Uncovered /\ failed /\ ~loading /\ list.rows = Nothing
    /\ LoadInventory(s, {held, act.slot}) /\ failed' = FALSE
    /\ UNCHANGED <<user, held, dialog, act, own, server>>

(* The stop switch, the price and the quantity are changed in the list.    *)
UpdateInventory(r) ==
    /\ page = "stock" /\ Uncovered /\ ~loading /\ act = Idle
    /\ list.rows[r] # Absent
    /\ Start("set", r, None, None, None) /\ Supersede

ChooseIncoming(r) ==
    /\ page = "stock" /\ Uncovered /\ ~loading /\ act = Idle
    /\ list.rows[r] # Absent
    /\ Choose(r, "receive")

CanSubmitIncoming == dialog.kind = "receive" /\ act = Idle
SubmitIncoming == CanSubmitIncoming /\ Work("stock", None)

ListStock(s) == Read("stock", s, table)

ItemSet == Change("stock", "set", Changed("active"))
ItemReceived == Change("stock", "receive", Changed("active"))

ItemDone(s) ==
    /\ page = "stock" /\ act.step = "done"
    /\ list' = Merged /\ Acknowledge /\ UNCHANGED dialog
    /\ Issue(s, None, FALSE, {}) /\ held' = s /\ Reloading(s)
    /\ UNCHANGED <<user, loading, failed, server>>

-----------------------------------------------------------------------------
(* The figures of the day.                                                 *)

OpenDashboard == MountLoading("dashboard", None, "active")

GetAnalytics(s) == Read("dashboard", s, table)

(* One request at a time.                                                  *)
RetryDashboard(s) ==
    /\ page = "dashboard" /\ failed /\ ~loading /\ newest = 0
    /\ Issue(s, None, TRUE, {}) /\ loading' = TRUE /\ failed' = FALSE
    /\ UNCHANGED <<user, list, held, dialog, act, own, server>>

-----------------------------------------------------------------------------
ManagerNext ==
    \/ OpenOrders \/ OpenStock \/ OpenDashboard
    \/ \E s \in Slots :
          \/ ListOrders(s) \/ ListStock(s) \/ GetAnalytics(s)
          \/ Tick(s) \/ RetryOrders(s) \/ OrderDone(s)
          \/ \E a \in Filters : SetFilter(a, s)
          \/ RetryStock(s) \/ ItemDone(s) \/ RetryDashboard(s)
    \/ \E r \in Rows :
          \/ \E kind \in OrderDialogs : ChooseOrder(r, kind)
          \/ SendOut(r) \/ UpdateInventory(r) \/ ChooseIncoming(r)
    \/ UpdateStatus \/ PickOrder \/ SubmitWeight \/ SubmitIncoming
    \/ Moved \/ Weighed \/ ItemSet \/ ItemReceived
=============================================================================
