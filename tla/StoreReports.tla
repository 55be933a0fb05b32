---------------------------- MODULE StoreReports ----------------------------
(***************************************************************************)
(* What the two consoles show of a store: the manager's analytics and the  *)
(* operations admin's revenue, delivery and store reports, computed by     *)
(* queries of their own over the orders and the shelf of KozOrders.  The   *)
(* model has one store and one reporting period.                           *)
(***************************************************************************)
EXTENDS KozOrders

Placed == {o \in Orders : orders[o].status # "absent"}
In(status) == {o \in Placed : orders[o].status = status}
Delivered == In("delivered")

(* SUMs of the columns of the delivered orders.                            *)
Turnover == SumFunctionOnSet([o \in Orders |-> orders[o].final], Delivered)
PosTotal == SumFunctionOnSet([o \in Orders |-> orders[o].pos], Delivered)
OnlineTotal == SumFunctionOnSet([o \in Orders |-> orders[o].final - orders[o].pos], Delivered)
FeeTotal == SumFunctionOnSet([o \in Orders |-> orders[o].fee], Delivered)
DiscountSum == SumFunctionOnSet([o \in Orders |-> orders[o].discount], Delivered)

(* The manager's screen: a funnel by status, the money, the shelf.         *)
Analytics ==
    [funnel  |-> [status \in Statuses |-> Cardinality(In(status))],
     gmv     |-> Turnover,
     pos     |-> PosTotal,
     stopped |-> Cardinality({p \in Products : ~inv[p].visible}),
     out     |-> Cardinality({p \in Products : inv[p].status = "out_of_stock"}),
     low     |-> Cardinality({p \in Products : inv[p].status = "low_stock"})]

Revenue ==
    [orders    |-> Cardinality(Delivered),
     gmv       |-> Turnover,
     fees      |-> FeeTotal,
     discounts |-> DiscountSum]

Delivery ==
    [totals    |-> Cardinality(Placed),
     delivered |-> Cardinality(Delivered),
     failed    |-> Cardinality(In("failed"))]

StoreReport ==
    [totals    |-> Cardinality(Placed),
     delivered |-> Cardinality(Delivered),
     failed    |-> Cardinality(In("failed")),
     gmv       |-> Turnover,
     online    |-> OnlineTotal,
     pos       |-> PosTotal]

(* The completed terminal payments the admin's list of payments adds up.   *)
TerminalPayments ==
    SumFunctionOnSet([o \in Orders |-> IF posPaid[o] = <<>> THEN 0 ELSE posPaid[o][1]], Orders)

-----------------------------------------------------------------------------
(* The reports of both consoles balance at every moment, whatever staff do *)
(* meanwhile: the terminal's part is the sum of the terminal payments that *)
(* the delivering statements recorded, online and terminal add up to the   *)
(* turnover the manager sees too, the online part is covered by the holds, *)
(* and every order is in exactly one stage of the funnel.                  *)
ReportsBalance ==
    LET report == StoreReport
        screen == Analytics
        holds == SumFunctionOnSet([o \in Orders |-> orders[o].hold], Delivered) IN
    /\ report.pos = TerminalPayments
    /\ report.online + report.pos = screen.gmv
    /\ report.online <= holds
    /\ Revenue.gmv = screen.gmv /\ Revenue.orders = report.delivered
    /\ Delivery.totals = SumFunctionOnSet(screen.funnel, Statuses)
    /\ screen.out = Cardinality({p \in Products : inv[p].quantity = 0})
=============================================================================
