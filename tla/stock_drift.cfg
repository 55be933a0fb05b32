\* A cancelled order leaves stock_quantity different from the goods on the shelf.
SPECIFICATION Spec
CONSTANTS
    None = None
    milk = milk
    rice = rice
    c1 = c1
    c2 = c2
    once = once
    each = each
    Customers = {c1}
    Products = {rice}
    Promos = {}
    Orders = {o1, o2}
    Sessions = {s1}
    Carts <- RiceCarts
    Moves <- Returns
    Weights = {}
    Weighted = {rice}
    Shelf <- RiceShelf
    Price <- FlatPrice
    WelcomeGift <- NoGift
    Terms <- NoTerms
    Threshold = 0
    Fee = 0
    PaidUntil = 0
    LastDay = 0
    Patches = {}
    Receipts = {}
    Unstable = {}
    NodeSessions = {s1}
INVARIANTS StockQuantityRestored
