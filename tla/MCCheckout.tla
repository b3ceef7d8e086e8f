---------------------------- MODULE MCCheckout ----------------------------
(* Small instances of Checkout for TLC. *)
EXTENDS Checkout, TLC

CONSTANTS r1, r2, k1, k2, c1, b1
===========================================================================
