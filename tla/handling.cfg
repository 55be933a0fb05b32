\* Weighing races every move of two orders of piece and weighted goods, beside an edit of a shelf.
SPECIFICATION Spec
CONSTANTS
    None = None
    milk = milk
    rice = rice
    c1 = c1
    c2 = c2
    once = once
    each = each
    Customers = {c1}
    Products = {milk, rice}
    Promos = {}
    Orders = {o1, o2}
    Sessions = {s1, s2}
    Carts <- MixedCarts
    Moves <- AllMoves
    Weights = {15, 25}
    Weighted = {rice}
    Shelf <- MixedShelf
    Price <- MixedPrice
    WelcomeGift <- NoGift
    Terms <- NoTerms
    Threshold = 350
    Fee = 50
    PaidUntil = 0
    LastDay = 0
    Patches <- FewEdits
    Receipts = {}
    Unstable = {}
    NodeSessions = {s1, s2}
SYMMETRY SessionSymmetry
INVARIANTS TypeOK OutOfStockIffEmpty OnlineWithinHold PaidOnDelivery Checked 
PROPERTIES SumFrozenForCourier
