---------------------------- MODULE AdminCatalog ----------------------------
(***************************************************************************)
(* What the server does for the pages of the administrators: the stores    *)
(* with their houses and delivery settings, the goods, what a store stocks *)
(* of them, the promo codes, and the subscription of a customer.  Nothing  *)
(* is deleted: a store, an item or a code is switched off.                 *)
(***************************************************************************)
EXTENDS Pages

-----------------------------------------------------------------------------
(* Stores.                                                                 *)

ListStores(s) == Read("stores", s, table)

(* One transaction, with the delivery settings of a new store.             *)
StoreCreated ==
    /\ act.row # None /\ table[act.row] = Absent
    /\ Change("stores", "create", Changed("active"))

CoverageUpserted ==
    /\ act.row # None /\ table[act.row] # Absent
    /\ Change("stores", "cover", Changed(table[act.row].status))

SettingsUpserted ==
    /\ act.row # None /\ table[act.row] # Absent
    /\ Change("stores", "settle", Changed(table[act.row].status))

-----------------------------------------------------------------------------
(* Goods.                                                                  *)

(* Also those that were switched off.                                      *)
ListProducts(s) == Read("products", s, table)
ListStoreInventory(s) == Read("inventory", s, table)

Inserted == Changed("active")

(* The fields that were sent are overwritten.                              *)
Updated(sent) == Changed(sent)

SoftDeleted == Changed("inactive")

ProductCreated ==
    /\ act.row # None /\ table[act.row] = Absent
    /\ Change("products", "create", Inserted)

(* The form has no field for the activity: that of the item as it was      *)
(* shown is sent back with it.                                             *)
ProductUpdated ==
    /\ act.row # None /\ table[act.row] # Absent
    /\ Change("products", "edit", Updated(act.draft))

ProductDeleted ==
    /\ act.row # None /\ table[act.row] # Absent
    /\ Change("products", "deactivate", SoftDeleted)

(* A row of the store that exists is overwritten.                          *)
InventoryUpserted == Change("inventory", "attach", Changed("active"))

-----------------------------------------------------------------------------
(* Promo codes.                                                            *)

ListPromoCodes(s) == Read("promos", s, table)

PromoCreated ==
    /\ act.row # None /\ table[act.row] = Absent
    /\ Change("promos", "create", Updated(act.draft))

PromoUpdated ==
    /\ act.row # None /\ table[act.row] # Absent
    /\ Change("promos", "edit", Updated(act.draft))

(* Only the activity is sent.                                              *)
PromoActivated ==
    /\ act.row # None /\ table[act.row] # Absent
    /\ Change("promos", "activate", Changed("active"))

PromoDeleted ==
    /\ act.row # None /\ table[act.row] # Absent
    /\ Change("promos", "deactivate", SoftDeleted)

-----------------------------------------------------------------------------
(* The reports, and the customers: one of them is the row of his card.     *)

GetStoreReport(s) == Read("report", s, table)
GetRevenueAnalytics(s) == Read("revenue", s, table)
GetDeliveryAnalytics(s) == Read("delivery", s, table)
ListPayments(s) == Read("payments", s, table)
ListCustomers(s) == Read("customers", s, table)

GetCustomer(s) ==
    Read("card", s, [Nothing EXCEPT ![loads[s].about] = table[loads[s].about]])

(* His subscription: renewed, paused or cancelled.                         *)

SubscriptionChanged ==
    \E p \in {"customers", "card"} :
        Change(p, "subscription", Changed("active"))

-----------------------------------------------------------------------------
CatalogNext ==
    \/ \E s \in Slots :
          \/ ListStores(s) \/ ListProducts(s) \/ ListStoreInventory(s)
          \/ ListPromoCodes(s) \/ ListCustomers(s) \/ GetCustomer(s)
          \/ GetStoreReport(s) \/ GetRevenueAnalytics(s)
          \/ GetDeliveryAnalytics(s) \/ ListPayments(s)
    \/ StoreCreated \/ CoverageUpserted \/ SettingsUpserted
    \/ ProductCreated \/ ProductUpdated \/ ProductDeleted
    \/ InventoryUpserted
    \/ PromoCreated \/ PromoUpdated \/ PromoActivated \/ PromoDeleted
    \/ SubscriptionChanged
=============================================================================
