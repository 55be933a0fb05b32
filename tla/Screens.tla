------------------------------ MODULE Screens ------------------------------
(***************************************************************************)
(* The pages of both applications behind their routes: who signs in opens  *)
(* the pages of his role, one at a time, and leaves them at any moment.    *)
(* Meanwhile others change what the page lists.                            *)
(***************************************************************************)
EXTENDS ManagerPages, AdminPages, ClientPages

Roles == DOMAIN Route

SignIn(r) ==
    /\ role = None /\ role' = r
    /\ UNCHANGED <<page, about, clicks, shown, net, dialog, act, own, server>>

Leave == page # None /\ Left /\ UNCHANGED role

(* An expired or removed token sends the visitor to the login page.        *)
SignOut == role # None /\ role' = None /\ Left

(* What somebody else can make of a row: managers and customers of orders, *)
(* administrators of the rest.                                             *)
Elsewhere(r) ==
    /\ page # None /\ clock < MaxChanges /\ clock' = clock + 1
    /\ \E status \in {"new", "picked", "in_delivery", "delivered", "failed",
                      "cancelled", "active", "inactive"} :
          /\ table' = [table EXCEPT ![r] = Changed(status)]
          /\ IF page \in {"orders", "history", "details"}
             THEN \/ TransitionAllowed(table[r].status, status)
                  \/ table[r] = Absent /\ status = "new"
                  \/ table[r].status = "picked" /\ status = "picked"
             ELSE \/ status = "active"
                  \/ page \in {"products", "promos", "shop"} /\ status = "inactive"
    /\ UNCHANGED <<user, shown, net, dialog, act, own>>

Next ==
    \/ \E r \in Roles : SignIn(r)
    \/ Leave \/ SignOut \/ Dismiss \/ Fail
    \/ \E s \in Slots : Answer(s) \/ Lose(s)
    \/ \E r \in Rows : Elsewhere(r)
    \/ ManagerNext \/ AdminNext \/ ClientNext

Spec == Init /\ [][Next]_vars

Finished(s) == Answer(s) \/ Lose(s) \/ DetailsShown(s) \/ DetailsLost(s)

Told ==
    Fail \/ \E s \in Slots : \/ OrderDone(s) \/ ItemDone(s)
                             \/ SubscriptionDone(s) \/ CatalogDone(s)
                             \/ InventoryDone(s) \/ AddressDone(s)

(* A request ends with its answer, an error or its timeout, an action is   *)
(* told its outcome, and the timer of the orders goes on.                  *)
FairSpec ==
    /\ Spec
    /\ \A s \in Slots : WF_vars(Finished(s))
    /\ WF_vars(Told) /\ WF_vars(\E s \in Slots : Tick(s))

-----------------------------------------------------------------------------
RowStatuses == Statuses \cup {"absent", "active", "inactive"}
RowType == [at : 0..MaxChanges, status : RowStatuses]
Subjects == Filters \cup Periods \cup Stores \cup Rows \cup {None}
Kinds == OrderDialogs \cup {"in_delivery", "set", "receive", "subscription", "attach", "remove"}
         \cup StoreDialogs \cup ProductDialogs \cup PromoDialogs \cup {"activate"}
PageNames == UNION {Route[r] : r \in Roles}

ASSUME NoneIsApart == None \notin Rows \cup Roles \cup PageNames \cup Kinds

(* Every variable keeps its shape; what a page shows is about a subject of *)
(* its own and is a version the table had.                                 *)
TypeOK ==
    /\ role \in Roles \cup {None} /\ page \in PageNames \cup {None}
    /\ page # None => role # None /\ page \in Route[role]
    /\ about \in Subjects /\ clicks \in 0..MaxClicks
    /\ list.about \in Subjects /\ list.rows \in [Rows -> RowType]
    /\ loading \in BOOLEAN /\ failed \in BOOLEAN
    /\ newest \in Slots \cup {0} /\ held \in Slots \cup {0}
    /\ \A s \in Slots :
          /\ loads[s].step \in {"free", "asked", "served"}
          /\ loads[s].about \in Subjects /\ loads[s].first \in BOOLEAN
          /\ \A r \in Rows : loads[s].rows[r].at <= table[r].at
    /\ act.step \in {"idle", "sent", "done", "reload"} /\ act.kind \in Kinds \cup {None}
    /\ act.slot \in Slots \cup {0} /\ (act.step = "reload") = (act.slot # 0)
    /\ dialog.kind \in Kinds \cup {None}
    /\ table \in [Rows -> RowType] /\ clock \in 0..MaxChanges
    /\ \A r \in Rows : list.rows[r].at <= table[r].at

(* A manager who was told that an order or an item was changed never sees  *)
(* that row again as it was before, however late older lists arrive: the   *)
(* click supersedes them, the answer is merged, and only then is the list  *)
(* loaded anew.                                                            *)
OwnWorkShown ==
    page \in {"orders", "stock"} =>
        \A r \in Rows : list.rows[r] # Absent => list.rows[r].at >= own[r]

(* What a report or the card of a customer shows is about the period, the  *)
(* store or the customer selected, never an answer about a former one.     *)
ShownIsAsked ==
    page \in Reports \cup {"card"} /\ list # Blank => list.about = about

(* A page that numbers its requests never replaces what it shows by an     *)
(* older state of the server, in whatever order the answers come.  Only the*)
(* answer of an action, which is merged into its row, may be older than a  *)
(* list that overtook it; then the list is on its way.                     *)
NeverOlder ==
    [][(page \in Numbered /\ page' = page) =>
          \A r \in Rows :
             \/ list.rows[r] = Absent \/ list'.rows[r] = Absent
             \/ list'.rows[r].at >= list.rows[r].at
             \/ act.step = "done" /\ act'.step = "reload" /\ r = act.row]_vars

(* The list of orders is at last the one of the filter selected, even when *)
(* an action loaded that of a former filter over it: the timer, which skips*)
(* its turn while a request of its own is in progress, is never blocked.   *)
FilterAnswered ==
    page = "orders" /\ list.about # about
        ~> list.about = about \/ failed \/ page # "orders"

(* No loader stays for good, though the request it was shown for may have  *)
(* been superseded.  The card that was closed may keep it: it is not seen. *)
LoaderEnds ==
    loading ~> ~loading \/ (page = "card" /\ about = None)

(* A manager is never kept from the next action for good, though the list  *)
(* the action waits for was superseded, refused or lost.                   *)
ActionEnds == act # Idle ~> act = Idle
=============================================================================
