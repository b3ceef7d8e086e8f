------------------------------- MODULE MCCart -------------------------------
EXTENDS Cart, TLC
CONSTANTS p1, p2, c1, c2
CallSymmetry == Permutations(Calls)
=============================================================================
