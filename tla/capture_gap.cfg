\* A fully paid order whose online part was never captured.
SPECIFICATION Spec
CONSTANTS
    None = None
    milk = milk
    rice = rice
    c1 = c1
    c2 = c2
    once = once
    each = each
    Customers = {c1}
    Products = {milk, rice}
    Promos = {}
    Orders = {o1, o2}
    Sessions = {s1}
    Carts <- MixedCarts
    Moves <- ManagerMoves
    Weights = {15}
    Weighted = {rice}
    Shelf <- MixedShelf
    Price <- MixedPrice
    WelcomeGift <- NoGift
    Terms <- NoTerms
    Threshold = 0
    Fee = 0
    PaidUntil = 0
    LastDay = 0
    Patches = {}
    Receipts = {}
    Unstable = {}
    NodeSessions = {s1}
INVARIANTS FullyPaidIsCollected
