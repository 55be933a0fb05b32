----------------------------- MODULE OrderRules -----------------------------
(***************************************************************************)
(* The arithmetic and the decision tables of an order: quantities, money,  *)
(* discounts, the 80% online hold, the recalculation by actual weight, the *)
(* ordering window, the status machine and the subscription gate.  Nothing *)
(* here has state; KozOrders applies these operators inside transactions.  *)
(*                                                                         *)
(* Money is a natural number of tiyn (1/100 tenge, NUMERIC(12,2)), and a   *)
(* quantity is a natural number of tenths of a kilogram or of a piece, the *)
(* step in which weighted goods are sold.  The code's decimal quotient is  *)
(* an exact rational here.                                                 *)
(***************************************************************************)
EXTENDS Integers

Unit == 10       \* tenths in one kilogram or one piece
LowStock == 2 * Unit
GraceDays == 3

Least(a, b) == IF a <= b THEN a ELSE b
Greatest(a, b) == IF a >= b THEN a ELSE b

(* RoundMoney of a / b: half away from zero, for a >= 0 and b > 0.         *)
RoundDiv(a, b) == (2 * a + b) \div (2 * b)

(* CEIL(quantity)::int, whole units that hold a quantity.                  *)
Ceil(q) == (q + Unit - 1) \div Unit

(* Pieces are sold whole; weighted goods in any number of tenths.          *)
ValidQuantity(weighted, q) == q > 0 /\ (~weighted => q % Unit = 0)

LineTotal(q, price) == RoundDiv(q * price, Unit)

-----------------------------------------------------------------------------
(* A welcome discount or a promo code, never both: the larger amount wins  *)
(* and the welcome discount wins a tie.                                    *)
WelcomeAmount(amount, used, subtotal) ==
    IF used THEN 0 ELSE Least(amount, subtotal)

PromoAmount(terms, subtotal) ==
    IF terms.type = "percentage"
    THEN Least(subtotal, RoundDiv(subtotal * terms.value, 100))
    ELSE Least(subtotal, terms.value)

(* Mutant: an empty welcome discount is spent too.                         *)
BenefitOfNothing(first, promo) == IF first >= promo THEN "welcome" ELSE "promo"

Benefit(first, promo) ==
    IF first >= promo /\ first > 0 THEN "welcome"
    ELSE IF promo > first /\ promo > 0 THEN "promo"
    ELSE "none"

DiscountTotal(first, promo) ==
    IF Benefit(first, promo) = "welcome" THEN first ELSE promo

DeliveryFee(subtotal, threshold, fee) == IF subtotal < threshold THEN fee ELSE 0

FinalTotal(goods, discount, fee) == Greatest(0, goods - discount) + fee

(* Mutant: the hold is truncated to whole tiyn.                            *)
HoldTruncated(final) == (8 * final) \div 10

(* RoundMoney(final * 0.8).                                                *)
Hold(final) == (8 * final + 5) \div 10

-----------------------------------------------------------------------------
(* Mutants: truncated goods; a capture not limited by the hold.            *)
ReweighedTruncated(subtotal, actual, estimated) == (subtotal * actual) \div estimated
CaptureUnlimited(hold, final) == final

(* Recalculation by actual weight, before the courier leaves.              *)
Reweighed(subtotal, actual, estimated) == RoundDiv(subtotal * actual, estimated)

Capture(hold, final) == Least(hold, final)
PosTopup(final, capture) == Greatest(0, final - capture)

-----------------------------------------------------------------------------
(* Mutant: the closing hour still belongs to the window.                   *)
FulfillmentAtClose(hour, open, close) ==
    [window |-> IF hour >= open /\ hour <= close THEN "same_day" ELSE "next_morning",
     ahead  |-> IF hour > close THEN 1 ELSE 0]

(* The ordering window in Almaty hours, and how many days ahead delivery is.*)
Fulfillment(hour, open, close) ==
    [window |-> IF hour >= open /\ hour < close THEN "same_day" ELSE "next_morning",
     ahead  |-> IF hour >= close THEN 1 ELSE 0]

(* Orders are taken while the subscription is active, up to three days     *)
(* after the day it is paid until.                                         *)
AllowsOrdering(status, end, today) == status = "active" /\ today <= end + GraceDays

-----------------------------------------------------------------------------
Statuses == {"new", "picked", "in_delivery", "delivered", "failed", "cancelled"}

TransitionAllowed(from, to) ==
    \/ from = "new"         /\ to \in {"picked", "failed", "cancelled"}
    \/ from = "picked"      /\ to \in {"in_delivery", "failed", "cancelled"}
    \/ from = "in_delivery" /\ to \in {"delivered", "failed"}

Returning == {"failed", "cancelled"}

(* The inventory status the admin and the manager's edits derive from a    *)
(* quantity.                                                               *)
StockStatus(q) ==
    IF q <= 0 THEN "out_of_stock"
    ELSE IF q <= LowStock THEN "low_stock" ELSE "available"
=============================================================================
