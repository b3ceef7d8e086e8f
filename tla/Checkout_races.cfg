CONSTANTS
    r1 = r1
    r2 = r2
    k1 = k1
    k2 = k2
    c1 = c1
    b1 = b1
    Empty = Empty
    NoCart = NoCart
    Requests = {r1, r2}
    CheckoutKeys = {k1, k2}
    PlaceKeys = {k1}
    Carts = {c1}
    Baskets = {b1, Empty}
    Attempts = 2
    MaxIntents = 1
SPECIFICATION FairSpec
INVARIANTS
    AnswersAgree
    OrderIsWhole
PROPERTIES
    RetriesSuffice
    Answered
CHECK_DEADLOCK FALSE
