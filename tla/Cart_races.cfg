CONSTANTS
    p1 = p1
    p2 = p2
    c1 = c1
    c2 = c2
    Products = {p1, p2}
    Calls = {c1, c2}
    Cap = 2
    MaxLines = 3
    MaxActs = 5
SPECIFICATION Spec
SYMMETRY CallSymmetry
INVARIANTS
    
    CartInv
CHECK_DEADLOCK FALSE
