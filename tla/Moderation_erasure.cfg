SPECIFICATION PagesOrTasks
CONSTANTS
    t1 = t1
    t2 = t2
    Targets = {t1, t2}
    MaxActs = 5
    u1 = u1
    u2 = u2
    r1 = r1
    o1 = o1
    o2 = o2
    w1 = w1
    w2 = w2
    Users = {u1, u2}
    Requests = {r1}
    Orders = {o1, o2}
    RequestUser <- TheUser
    OrderBuyer <- TheBuyers
    Executors = {w1, w2}
    MaxRetries = 2
    MaxLosses = 1
INVARIANTS
    ClaimsAreTrue
    DestructiveIsGiven
    CompletedIsErased

    
CHECK_DEADLOCK FALSE
