---------------------------- MODULE OrderLedger ----------------------------
(***************************************************************************)
(* What ordering promises, without sessions, locks or row versions: an     *)
(* order takes all its goods off the shelf in one step or does not exist,  *)
(* moves along the status machine, and gives back exactly its goods in the *)
(* one step that cancels or fails it.                                      *)
(***************************************************************************)
EXTENDS OrderRules

CONSTANTS Products, Orders

VARIABLES
    shelf,    \* the goods of each product that can still be ordered
    status,   \* the delivery status of each order, "absent" before it exists
    goods     \* what each order took

ledger == <<shelf, status, goods>>

Init ==
    /\ shelf \in [Products -> Nat]
    /\ status = [o \in Orders |-> "absent"]
    /\ goods = [o \in Orders |-> [p \in Products |-> 0]]

(* All goods of the order are on the shelf and leave it together.          *)
Place(o) ==
    LET g == goods'[o] IN
    /\ status[o] = "absent"
    /\ g \in [Products -> Nat]
    /\ \A p \in Products : g[p] <= shelf[p]
    /\ \E p \in Products : g[p] > 0
    /\ goods' = [goods EXCEPT ![o] = g]
    /\ shelf' = [p \in Products |-> shelf[p] - g[p]]
    /\ status' = [status EXCEPT ![o] = "new"]

Move(o, next) ==
    /\ TransitionAllowed(status[o], next)
    /\ status' = [status EXCEPT ![o] = next]
    /\ shelf' = IF next \in Returning
                THEN [p \in Products |-> shelf[p] + goods[o][p]]
                ELSE shelf
    /\ UNCHANGED goods

(* The store corrects the shelf of a product or receives a delivery.       *)
Restock(p) ==
    /\ shelf'[p] \in Nat
    /\ shelf' = [shelf EXCEPT ![p] = shelf'[p]]
    /\ UNCHANGED <<status, goods>>

Next ==
    \/ \E o \in Orders : Place(o) \/ \E next \in Statuses : Move(o, next)
    \/ \E p \in Products : Restock(p)

Spec == Init /\ [][Next]_ledger
=============================================================================
