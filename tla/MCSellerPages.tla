---------------------------- MODULE MCSellerPages ----------------------------
(* Model values of SellerPages for TLC.                                     *)
EXTENDS SellerPages, TLC

CONSTANTS lt, lv        \* two countries

CountrySymmetry == Permutations({lt, lv})
=============================================================================
