-------------------------- MODULE OrderRulesTable --------------------------
(***************************************************************************)
(* The rules of OrderRules applied to every input of a small range, and    *)
(* what the product's invariants and formulas say of the results, written  *)
(* without the operators they check.                                       *)
(***************************************************************************)
EXTENDS OrderRules

CONSTANTS
    Subtotals, Amounts,   \* goods of an order, amounts of a discount
    Percentages, Fees,
    WeightRange,          \* estimated and actual weights
    Hours                 \* the hours of a day and of the ordering window

ASSUME RangesAreNatural ==
    /\ Subtotals \cup Amounts \cup Percentages \cup Fees \cup Hours \subseteq Nat
    /\ WeightRange \subseteq Nat \ {0}

VARIABLES input, answer

NoAnswer == [kind |-> "none"]

(* The money of an order placed with these amounts and weighed once.       *)
Priced(i) ==
    LET first == WelcomeAmount(i.gift, i.giftUsed, i.subtotal)
        promo == PromoAmount([type |-> "percentage", value |-> i.percent], i.subtotal)
        discount == DiscountTotal(first, promo)
        final == FinalTotal(i.subtotal, discount, i.fee)
        hold == Hold(final)
        goods == Reweighed(i.subtotal, i.actual, i.estimated)
        weighed == FinalTotal(goods, discount, i.fee)
        capture == Capture(hold, weighed) IN
    [kind |-> "priced", first |-> first, promo |-> promo, discount |-> discount,
     benefit |-> Benefit(first, promo), final |-> final, hold |-> hold,
     goods |-> goods, weighed |-> weighed, capture |-> capture,
     pos |-> PosTopup(weighed, capture)]

(* When an order placed in this hour is due.                               *)
Scheduled(i) ==
    LET due == Fulfillment(i.hour, i.open, i.close) IN
    [kind |-> "window", window |-> due.window, ahead |-> due.ahead]

MoneyInput == [subtotal : Subtotals, gift : Amounts, giftUsed : BOOLEAN,
               percent : Percentages, fee : Fees,
               estimated : WeightRange, actual : WeightRange]
HourInput == [hour : Hours, open : Hours, close : Hours]

Init ==
    /\ input \in MoneyInput \cup HourInput
    /\ answer = NoAnswer

Price ==
    /\ answer = NoAnswer /\ input \in MoneyInput
    /\ answer' = Priced(input)
    /\ UNCHANGED input

Schedule ==
    /\ answer = NoAnswer /\ input \in HourInput
    /\ answer' = Scheduled(input)
    /\ UNCHANGED input

Next == Price \/ Schedule

Spec == Init /\ [][Next]_<<input, answer>>

-----------------------------------------------------------------------------
(* m is the nearest integer to a / b, the upper one of two equally near.   *)
IsNearest(m, a, b) == 2 * a - b < 2 * b * m /\ 2 * b * m <= 2 * a + b

(* The hold is 80% of the total to the nearest tiyn and leaves a top-up    *)
(* that is never negative; the discount is the better of the two rights    *)
(* and stays within the goods, so delivery is always paid in full.         *)
HoldIsFourFifths ==
    answer.kind = "priced" =>
        /\ IsNearest(answer.hold, 8 * answer.final, 10)
        /\ answer.hold \in 0 .. answer.final
        /\ answer.discount \in {answer.first, answer.promo}
        /\ answer.first <= answer.discount /\ answer.promo <= answer.discount
        /\ answer.final = input.fee + (input.subtotal - answer.discount)
        /\ answer.discount <= input.subtotal

(* The benefit that is marked as spent is the one that was deducted, and   *)
(* nothing is spent for nothing.                                           *)
SpentIsDeducted ==
    answer.kind = "priced" =>
        CASE answer.benefit = "welcome" -> answer.discount = answer.first /\ answer.first > 0
          [] answer.benefit = "promo"   -> answer.discount = answer.promo /\ answer.promo > 0
          [] OTHER                      -> answer.discount = 0

(* Weighing: the goods scale with the weight to the nearest tiyn, a weight *)
(* as estimated changes nothing, less weight never costs more, the capture *)
(* stays within the hold, and capture and top-up add up to the new total;  *)
(* when the total fits in the hold the courier collects nothing.           *)
WeighingIsFair ==
    answer.kind = "priced" =>
        /\ IsNearest(answer.goods, input.subtotal * input.actual, input.estimated)
        /\ (input.actual = input.estimated => answer.weighed = answer.final)
        /\ (input.actual <= input.estimated => answer.weighed <= answer.final)
        /\ answer.capture <= answer.hold
        /\ answer.capture + answer.pos = answer.weighed
        /\ (answer.weighed <= answer.hold => answer.pos = 0)
        /\ input.fee <= answer.weighed

(* Same-day delivery is promised exactly inside the window, and an order   *)
(* outside it is due at the next opening: today before the store closes,   *)
(* tomorrow after.                                                         *)
WindowIsNextOpening ==
    answer.kind = "window" =>
        /\ (answer.window = "same_day" <=> input.hour \in input.open .. (input.close - 1))
        /\ answer.ahead \in {0, 1}
        /\ (answer.ahead = 1 <=> input.close <= input.hour)
=============================================================================
