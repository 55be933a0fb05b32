-------------------------- MODULE OrderRulesProofs --------------------------
(***************************************************************************)
(* Proofs that the rules of an order keep the product's formulas for all   *)
(* amounts, percentages, fees, weights and hours, not only for the small   *)
(* ranges that OrderRulesTable is run with.                                *)
(***************************************************************************)
EXTENDS OrderRulesTable, TLAPS

(* A quotient rounded down, by its remainder.                              *)
LEMMA Quotient ==
  ASSUME NEW n \in Nat, NEW d \in Nat \ {0}
  PROVE  /\ n \div d \in Nat
         /\ d * (n \div d) <= n
         /\ n < d * (n \div d) + d
  <1>1. n = d * (n \div d) + (n % d) /\ n % d \in 0 .. d - 1 /\ n \div d \in Nat
    OBVIOUS
  <1>2. d * (n \div d) \in Int
    BY <1>1
  <1> QED BY <1>1, <1>2

(* RoundMoney rounds to the nearest tiyn, half up.                         *)
LEMMA RoundDivNearest ==
  ASSUME NEW a \in Nat, NEW b \in Nat \ {0}
  PROVE  RoundDiv(a, b) \in Nat /\ IsNearest(RoundDiv(a, b), a, b)
  <1> DEFINE m == (2 * a + b) \div (2 * b)
  <1>1. 2 * a + b \in Nat /\ 2 * b \in Nat \ {0}
    OBVIOUS
  <1>2. m \in Nat /\ 2 * b * m <= 2 * a + b /\ 2 * a + b < 2 * b * m + 2 * b
    BY <1>1, Quotient
  <1>3. 2 * b * m \in Int
    BY <1>2
  <1> HIDE DEF m
  <1>4. 2 * a - b < 2 * b * m
    BY <1>2, <1>3
  <1> QED BY <1>2, <1>4 DEF RoundDiv, IsNearest, m

(* A nearest integer is no larger than an integer that is no smaller than  *)
(* the quotient, and conversely.                                           *)
LEMMA NearestBounds ==
  ASSUME NEW m \in Nat, NEW a \in Nat, NEW b \in Nat \ {0}, NEW k \in Nat,
         IsNearest(m, a, b)
  PROVE  /\ a <= k * b => m <= k
         /\ k * b <= a => k <= m
  <1>1. 2 * a - b < 2 * b * m /\ 2 * b * m <= 2 * a + b
    BY DEF IsNearest
  <1>2. ASSUME a <= k * b, k < m PROVE FALSE
    <2>1. k + 1 <= m
      BY <1>2
    <2>2. 2 * b * (k + 1) <= 2 * b * m
      BY <2>1
    <2>3. 2 * b * (k + 1) = 2 * (k * b) + 2 * b
      OBVIOUS
    <2>4. k * b \in Int /\ 2 * b * m \in Int
      OBVIOUS
    <2>5. 2 * (k * b) + 2 * b <= 2 * a + b
      BY <1>1, <2>2, <2>3, <2>4
    <2> QED BY <1>2, <2>4, <2>5
  <1>3. ASSUME k * b <= a, m < k PROVE FALSE
    <2>1. m + 1 <= k
      BY <1>3
    <2>2. 2 * b * (m + 1) <= 2 * b * k
      BY <2>1
    <2>3. 2 * b * (m + 1) = 2 * b * m + 2 * b /\ 2 * b * k = 2 * (k * b)
      OBVIOUS
    <2>4. k * b \in Int /\ 2 * b * m \in Int
      OBVIOUS
    <2>5. 2 * b * m + 2 * b <= 2 * a
      BY <1>3, <2>2, <2>3, <2>4
    <2> QED BY <1>1, <2>4, <2>5
  <1> QED BY <1>2, <1>3

-----------------------------------------------------------------------------
(* The inductive invariant: an answer is the rules' answer to its input.   *)
Answered ==
    \/ answer = NoAnswer
    \/ input \in MoneyInput /\ answer = Priced(input)
    \/ input \in HourInput /\ answer = Scheduled(input)

(* Every answer is given by the rules.                                     *)
LEMMA AlwaysAnswered == Spec => []Answered
  <1>1. Init => Answered
    BY DEF Init, Answered
  <1>2. Answered /\ [Next]_<<input, answer>> => Answered'
    BY DEF Answered, Next, Price, Schedule
  <1> QED BY <1>1, <1>2, PTL DEF Spec

(* A priced answer belongs to an order.                                    *)
LEMMA PricedAnswer ==
  ASSUME Answered, answer.kind = "priced"
  PROVE  input \in MoneyInput /\ answer = Priced(input)
  BY DEF Answered, NoAnswer, Scheduled

(* A window answer belongs to an hour.                                     *)
LEMMA WindowAnswer ==
  ASSUME Answered, answer.kind = "window"
  PROVE  input \in HourInput /\ answer = Scheduled(input)
  BY DEF Answered, NoAnswer, Priced

(* The amounts of an order are natural numbers and weights are positive.   *)
LEMMA Amounted ==
  ASSUME NEW i \in MoneyInput
  PROVE  /\ i.subtotal \in Nat /\ i.gift \in Nat /\ i.percent \in Nat /\ i.fee \in Nat
         /\ i.estimated \in Nat \ {0} /\ i.actual \in Nat \ {0}
         /\ i.giftUsed \in BOOLEAN
  BY RangesAreNatural DEF MoneyInput

(* Both rights to a discount stay within the goods.                        *)
LEMMA Rights ==
  ASSUME NEW i \in MoneyInput
  PROVE  /\ Priced(i).first \in Nat /\ Priced(i).first <= i.subtotal
         /\ Priced(i).promo \in Nat /\ Priced(i).promo <= i.subtotal
  <1>1. /\ i.subtotal \in Nat /\ i.gift \in Nat /\ i.percent \in Nat
        /\ i.subtotal * i.percent \in Nat
    BY Amounted
  <1>2. RoundDiv(i.subtotal * i.percent, 100) \in Nat
    BY <1>1, RoundDivNearest
  <1>3. Priced(i).first = WelcomeAmount(i.gift, i.giftUsed, i.subtotal)
    BY DEF Priced
  <1>4. Priced(i).promo = Least(i.subtotal, RoundDiv(i.subtotal * i.percent, 100))
    BY DEF Priced, PromoAmount
  <1> QED BY <1>1, <1>2, <1>3, <1>4 DEF WelcomeAmount, Least

(* The discount is the better of the two rights, and the total pays for    *)
(* delivery and what the discount leaves of the goods.                     *)
LEMMA Totals ==
  ASSUME NEW i \in MoneyInput
  PROVE  LET a == Priced(i) IN
         /\ a.discount \in Nat /\ a.discount <= i.subtotal
         /\ a.discount \in {a.first, a.promo}
         /\ a.first <= a.discount /\ a.promo <= a.discount
         /\ a.final \in Nat
         /\ a.final = i.fee + (i.subtotal - a.discount)
         /\ a.hold \in Nat /\ a.hold <= a.final
         /\ IsNearest(a.hold, 8 * a.final, 10)
  <1> DEFINE first == Priced(i).first
             promo == Priced(i).promo
             discount == Priced(i).discount
             final == Priced(i).final
             hold == Priced(i).hold
  <1>1. /\ first \in Nat /\ first <= i.subtotal /\ promo \in Nat /\ promo <= i.subtotal
        /\ i.subtotal \in Nat /\ i.fee \in Nat
    BY Rights, Amounted
  <1>2. /\ discount = DiscountTotal(first, promo)
        /\ final = FinalTotal(i.subtotal, discount, i.fee)
        /\ hold = Hold(final)
    BY DEF Priced
  <1> HIDE DEF first, promo, discount, final, hold
  <1>3. /\ discount \in {first, promo} /\ first <= discount /\ promo <= discount
    BY <1>1, <1>2 DEF DiscountTotal, Benefit
  <1>4. discount \in Nat /\ discount <= i.subtotal
    BY <1>1, <1>3
  <1>5. final = i.fee + (i.subtotal - discount) /\ final \in Nat
    BY <1>1, <1>2, <1>4 DEF FinalTotal, Greatest
  <1>6. 10 * hold <= 8 * final + 5 /\ 8 * final + 5 < 10 * hold + 10 /\ hold \in Nat
    <2>1. hold = (8 * final + 5) \div 10
      BY <1>2 DEF Hold
    <2>2. 8 * final + 5 \in Nat /\ 10 \in Nat \ {0}
      BY <1>5
    <2> QED BY <2>1, <2>2, Quotient
  <1>7. hold <= final /\ IsNearest(hold, 8 * final, 10)
    BY <1>5, <1>6 DEF IsNearest
  <1> QED BY <1>3, <1>4, <1>5, <1>6, <1>7 DEF first, promo, discount, final, hold

(* The online hold is 80% of the total to the nearest tiyn, whatever the   *)
(* amounts, and the discount never eats into the delivery fee.             *)
THEOREM HoldIsAlwaysFourFifths == Spec => []HoldIsFourFifths
  <1>1. Answered => HoldIsFourFifths
    <2> SUFFICES ASSUME Answered, answer.kind = "priced" PROVE HoldIsFourFifths
      BY DEF HoldIsFourFifths
    <2>1. input \in MoneyInput /\ answer = Priced(input)
      BY PricedAnswer
    <2>2. answer.hold \in Nat /\ answer.final \in Nat /\ answer.hold <= answer.final
      BY <2>1, Totals
    <2>3. answer.hold \in 0 .. answer.final
      BY <2>2
    <2> QED BY <2>1, <2>3, Totals DEF HoldIsFourFifths
  <1> QED BY <1>1, AlwaysAnswered, PTL

(* The discount that is deducted is the one that is spent, for all amounts.*)
THEOREM SpentIsAlwaysDeducted == Spec => []SpentIsDeducted
  <1>1. Answered => SpentIsDeducted
    <2> SUFFICES ASSUME Answered, answer.kind = "priced" PROVE SpentIsDeducted
      BY DEF SpentIsDeducted
    <2>1. input \in MoneyInput /\ answer = Priced(input)
      BY PricedAnswer
    <2>2. /\ answer.benefit = Benefit(answer.first, answer.promo)
          /\ answer.discount = DiscountTotal(answer.first, answer.promo)
      BY <2>1 DEF Priced
    <2>3. answer.first \in Nat /\ answer.promo \in Nat
      BY <2>1, Rights
    <2>4. CASE answer.benefit = "welcome"
      BY <2>2, <2>3, <2>4 DEF SpentIsDeducted, Benefit, DiscountTotal
    <2>5. CASE answer.benefit = "promo"
      BY <2>2, <2>3, <2>5 DEF SpentIsDeducted, Benefit, DiscountTotal
    <2>6. CASE answer.benefit = "none"
      <3>1. answer.discount = answer.promo /\ answer.promo = 0
        BY <2>2, <2>3, <2>6 DEF Benefit, DiscountTotal
      <3> QED BY <2>6, <3>1 DEF SpentIsDeducted
    <2> QED BY <2>2, <2>4, <2>5, <2>6 DEF Benefit
  <1> QED BY <1>1, AlwaysAnswered, PTL

(* The goods, the total and its two parts after weighing.                  *)
LEMMA Weighing ==
  ASSUME NEW i \in MoneyInput
  PROVE  LET a == Priced(i) IN
         /\ IsNearest(a.goods, i.subtotal * i.actual, i.estimated)
         /\ i.actual = i.estimated => a.weighed = a.final
         /\ i.actual <= i.estimated => a.weighed <= a.final
         /\ a.capture <= a.hold
         /\ a.capture + a.pos = a.weighed
         /\ a.weighed <= a.hold => a.pos = 0
         /\ i.fee <= a.weighed
  <1> DEFINE goods == Priced(i).goods
             discount == Priced(i).discount
             final == Priced(i).final
             hold == Priced(i).hold
             weighed == Priced(i).weighed
             capture == Priced(i).capture
             pos == Priced(i).pos
  <1>1. /\ i.subtotal \in Nat /\ i.fee \in Nat
        /\ i.estimated \in Nat \ {0} /\ i.actual \in Nat \ {0}
    BY Amounted
  <1>2. /\ discount \in Nat /\ discount <= i.subtotal
        /\ final = i.fee + (i.subtotal - discount) /\ final \in Nat /\ hold \in Nat
    BY Totals
  <1>3. /\ goods = RoundDiv(i.subtotal * i.actual, i.estimated)
        /\ weighed = FinalTotal(goods, discount, i.fee)
        /\ capture = Least(hold, weighed)
        /\ pos = Greatest(0, weighed - capture)
    BY DEF Priced, Reweighed, Capture, PosTopup
  <1> HIDE DEF goods, discount, final, hold, weighed, capture, pos
  <1>4. i.subtotal * i.actual \in Nat
    BY <1>1
  <1>5. goods \in Nat /\ IsNearest(goods, i.subtotal * i.actual, i.estimated)
    BY <1>1, <1>3, <1>4, RoundDivNearest
  <1>6. ASSUME i.actual <= i.estimated PROVE goods <= i.subtotal
    <2> DEFINE value == i.subtotal * i.actual
    <2>1. value \in Nat /\ value <= i.subtotal * i.estimated
      BY <1>1, <1>4, <1>6
    <2>2. IsNearest(goods, value, i.estimated)
      BY <1>5
    <2> HIDE DEF value
    <2> QED BY <1>1, <1>5, <2>1, <2>2, NearestBounds
  <1>7. ASSUME i.actual = i.estimated PROVE i.subtotal <= goods
    <2>1. i.subtotal * i.estimated <= i.subtotal * i.actual
      BY <1>1, <1>4, <1>7
    <2> QED BY <1>1, <1>4, <1>5, <2>1, NearestBounds
  <1>8. weighed \in Nat /\ i.fee <= weighed
    BY <1>1, <1>2, <1>3, <1>5 DEF FinalTotal, Greatest
  <1>9. i.actual <= i.estimated => weighed <= final
    BY <1>1, <1>2, <1>3, <1>5, <1>6 DEF FinalTotal, Greatest
  <1>10. i.actual = i.estimated => weighed = final
    <2> SUFFICES ASSUME i.actual = i.estimated PROVE weighed = final
      OBVIOUS
    <2>1. goods = i.subtotal
      BY <1>1, <1>5, <1>6, <1>7
    <2> QED BY <1>1, <1>2, <1>3, <2>1 DEF FinalTotal, Greatest
  <1>11. /\ capture <= hold /\ capture + pos = weighed
         /\ weighed <= hold => pos = 0
    BY <1>2, <1>3, <1>8 DEF Least, Greatest
  <1> QED BY <1>5, <1>8, <1>9, <1>10, <1>11
             DEF goods, discount, final, hold, weighed, capture, pos

(* Weighing is fair for all weights and prices: nearest tiyn, no change for*)
(* the estimated weight, never dearer for less, and within the hold.       *)
THEOREM WeighingIsAlwaysFair == Spec => []WeighingIsFair
  <1>1. Answered => WeighingIsFair
    <2> SUFFICES ASSUME Answered, answer.kind = "priced" PROVE WeighingIsFair
      BY DEF WeighingIsFair
    <2>1. input \in MoneyInput /\ answer = Priced(input)
      BY PricedAnswer
    <2> QED BY <2>1, Weighing DEF WeighingIsFair
  <1> QED BY <1>1, AlwaysAnswered, PTL

(* An order outside the window is due at the next opening, at all hours.   *)
THEOREM WindowIsAlwaysNextOpening == Spec => []WindowIsNextOpening
  <1>1. Answered => WindowIsNextOpening
    <2> SUFFICES ASSUME Answered, answer.kind = "window" PROVE WindowIsNextOpening
      BY DEF WindowIsNextOpening
    <2>1. input \in HourInput /\ answer = Scheduled(input)
      BY WindowAnswer
    <2>2. input.hour \in Nat /\ input.open \in Nat /\ input.close \in Nat
      BY <2>1, RangesAreNatural DEF HourInput
    <2>3. /\ answer.window = IF input.hour >= input.open /\ input.hour < input.close
                             THEN "same_day" ELSE "next_morning"
          /\ answer.ahead = IF input.hour >= input.close THEN 1 ELSE 0
      BY <2>1 DEF Scheduled, Fulfillment
    <2>4. answer.window = "same_day" <=> input.hour \in input.open .. (input.close - 1)
      BY <2>2, <2>3
    <2>5. answer.ahead \in {0, 1} /\ (answer.ahead = 1 <=> input.close <= input.hour)
      BY <2>2, <2>3
    <2> QED BY <2>4, <2>5 DEF WindowIsNextOpening
  <1> QED BY <1>1, AlwaysAnswered, PTL
=============================================================================
