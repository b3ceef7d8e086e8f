SPECIFICATION CheckoutPageSpec
CONSTANTS
    lt = lt
    de = de
    b1 = b1
    b2 = b2
    nothing = nothing
    v1 = v1
    novat = novat
    Countries = {lt, de}
    Home = lt
    Baskets = {b1, b2}
    Empty = nothing
    VatIds = {v1}
    NoVat = novat
    MaxOrders = 2
    MaxActs = 4
INVARIANTS
    
    LockersFollow
    ReviewHasOrder
CHECK_DEADLOCK FALSE
