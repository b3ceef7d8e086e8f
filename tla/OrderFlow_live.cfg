CONSTANTS
    o1 = o1
    ok = ok
    bad = bad
    hub = hub
    w1 = w1
    w2 = w2
    t1 = t1
    NoOrder = NoOrder
    Orders = {o1}
    Events = {ok}
    EventType <- OkType
    EventOrder <- OkOrder
    Workers = {w1}
    Threads = {t1}
    MaxCopies = 1
    CarrierStatuses = {"delivered"}
    Dispatched = {o1}
SPECIFICATION FairSpec
PROPERTIES
    EventHandled
    StaleOrderSwept
    
CHECK_DEADLOCK FALSE
