SPECIFICATION ForwardingFairSpec
CONSTANTS
    i1 = i1
    t1 = t1
    w1 = w1
    new = new
    part = part
    rest = rest
    kNew = kNew
    kPart = kPart
    Intents = {i1}
    Requests = {new, part, rest}
    Keys = {kNew, kPart}
    Kind <- TheKinds
    Key <- TheKeys
    Target <- TheTargets
    Amount <- TheAmounts
    MaxAmount = 3
    Threads = {t1}
    Mortal = {t1}
    MaxSends = 2
    Couriers = {w1}
    MaxRetries = 1
    MaxLosses = 2
INVARIANTS
    StatusMatchesRefunded
    ToldIsTrue

    
    
CHECK_DEADLOCK FALSE
