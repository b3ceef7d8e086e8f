CONSTANTS
    o1 = o1
    ok = ok
    bad = bad
    hub = hub
    w1 = w1
    w2 = w2
    t1 = t1
    NoOrder = NoOrder
    Orders = {o1}
    Events = {ok, bad, hub}
    EventType <- HubType
    EventOrder <- HubOrder
    Workers = {w1}
    Threads = {t1}
    MaxCopies = 1
    CarrierStatuses = {}
    Dispatched = {}
SPECIFICATION Spec
INVARIANTS
    NoLostEvent
    PaymentHasEvidence
CHECK_DEADLOCK FALSE
