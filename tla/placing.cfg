\* Codes at their limits, the welcome discount, and subscriptions and codes withdrawn or out of grace meanwhile.
SPECIFICATION Spec
CONSTANTS
    None = None
    milk = milk
    rice = rice
    c1 = c1
    c2 = c2
    once = once
    each = each
    Customers = {c1, c2}
    Products = {milk}
    Promos = {once, each}
    Orders = {o1, o2}
    Sessions = {s1, s2}
    Carts <- DiscountCarts
    Moves = {}
    Weights = {}
    Weighted = {}
    Shelf <- PlentyMilk
    Price <- DiscountPrice
    WelcomeGift <- Gifts
    Terms <- CodeTerms
    Threshold = 0
    Fee = 0
    PaidUntil = 0
    LastDay = 4
    Patches = {}
    Receipts = {10}
    Unstable = {c1, once}
    NodeSessions = {s1}
SYMMETRY OrderSymmetry
INVARIANTS PromoHolds PromoLimits DiscountBacked 
