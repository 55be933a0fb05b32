\* Two checkouts of a cart of one or two units, 10 each, with a welcome discount and a promo
\* code; two payments for an order and two notifications of the provider at a time.
SPECIFICATION FairSpec
CONSTANTS
    None = None
    MaxSubmits = 2
    Carts = {1, 2}
    MaxPayments = 2
    Hooks = {w1, w2}
    Price = 10
    FreeFrom = 20
    Fee = 3
    Gift = 6
    Promo <- QuarterOff
INVARIANTS TypeOK PaidOnce ThankedForOrder
PROPERTIES  CheckoutReturns
