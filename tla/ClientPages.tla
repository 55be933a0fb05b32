---------------------------- MODULE ClientPages ----------------------------
(***************************************************************************)
(* The lists of the customer's application: the shop, the orders with the  *)
(* details of the one that is expanded, and the profile with its addresses.*)
(* A list is loaded once, and nobody listens when the page is left.  The   *)
(* details are kept for as long as the page is there.                      *)
(***************************************************************************)
EXTENDS Pages

OpenShop == MountLoading("shop", None, "active")
OpenHistory == MountLoading("history", None, "new")
OpenProfile == MountLoading("profile", None, "active")

(* The shop shows what is sold; an item that was switched off is not.      *)
StoreProducts(s) ==
    Read("shop", s, LET Sold(row) == row.status = "active" IN Where(Sold))

MyOrders(s) == Read("history", s, table)
MyProfile(s) == Read("profile", s, table)

-----------------------------------------------------------------------------
(* The addresses of the profile.                                           *)

ChooseAddress(r) ==
    /\ page = "profile" /\ Uncovered /\ ~loading /\ act = Idle
    /\ list.rows[r].status = "active"
    /\ Choose(r, "remove")

DeleteAddress ==
    /\ page = "profile" /\ ~Uncovered /\ act = Idle
    /\ Submit(None, None) /\ UNCHANGED <<loads, newest>>

AddressDeleted ==
    /\ act.row # None /\ table[act.row].status = "active"
    /\ Change("profile", "remove", Changed("absent"))

(* The dialog stays until the list is there.                               *)
AddressDone(s) ==
    /\ page = "profile" /\ act.step = "done" /\ Acknowledge
    /\ Issue(s, None, FALSE, Slots) /\ Reloading(s)
    /\ UNCHANGED <<user, shown, held, dialog, server>>

-----------------------------------------------------------------------------
(* The details of the orders.                                              *)

OpenToggle == MountIdle("details", None, "new")

(* Details that are there already are not asked for again.  Here the list  *)
(* is about the order whose details are loading.                           *)
ToggleDetails(r, s) ==
    /\ page = "details" /\ Click
    /\ about' = IF about = r THEN None ELSE r
    /\ IF about # r /\ list.rows[r] = Absent
       THEN Issue(s, r, FALSE, Slots) /\ list' = [list EXCEPT !.about = r]
       ELSE s = 1 /\ UNCHANGED <<loads, newest, list>>
    /\ UNCHANGED <<role, page, loading, failed, held, dialog, act, own, server>>

DetailsShown(s) ==
    /\ page = "details" /\ loads[s] # Free
    /\ LET r == loads[s].about IN
       list' = [about |-> None, rows |-> [list.rows EXCEPT ![r] = table[r]]]
    /\ loads' = [loads EXCEPT ![s] = Free]
    /\ UNCHANGED <<user, loading, failed, newest, held, dialog, act, own, server>>

(* Whatever is expanded by now is closed.                                  *)
DetailsLost(s) ==
    /\ page = "details" /\ loads[s] # Free
    /\ about' = None /\ list' = [list EXCEPT !.about = None]
    /\ loads' = [loads EXCEPT ![s] = Free]
    /\ UNCHANGED <<role, page, clicks, loading, failed, newest, held, dialog,
                   act, own, server>>

-----------------------------------------------------------------------------
ClientNext ==
    \/ OpenShop \/ OpenHistory \/ OpenProfile \/ OpenToggle
    \/ DeleteAddress \/ AddressDeleted
    \/ \E r \in Rows : ChooseAddress(r)
    \/ \E s \in Slots :
          \/ \E r \in Rows : ToggleDetails(r, s)
          \/ StoreProducts(s) \/ MyOrders(s) \/ MyProfile(s)
          \/ DetailsShown(s) \/ DetailsLost(s) \/ AddressDone(s)
=============================================================================
