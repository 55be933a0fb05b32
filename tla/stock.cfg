\* Three orders of two products, placed in opposite orders by two connections that
\* deadlock, race each other and the cancellations; every request ends.
SPECIFICATION FairSpec
CONSTANTS
    None = None
    milk = milk
    rice = rice
    c1 = c1
    c2 = c2
    once = once
    each = each
    Customers = {c1, c2}
    Products = {milk, rice}
    Promos = {}
    Orders = {o1, o2, o3}
    Sessions = {s1, s2}
    Carts <- OppositeCarts
    Moves <- Returns
    Weights = {}
    Weighted = {}
    Shelf <- ScarceMilk
    Price <- FlatPrice
    WelcomeGift <- NoGift
    Terms <- NoTerms
    Threshold = 0
    Fee = 0
    PaidUntil = 0
    LastDay = 0
    Patches = {}
    Receipts = {}
    Unstable = {}
    NodeSessions = {s1, s2}
INVARIANTS GoodsConserved Tally
PROPERTIES LedgerSpec RequestsEnd
