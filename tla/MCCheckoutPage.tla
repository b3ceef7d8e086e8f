--------------------------- MODULE MCCheckoutPage ---------------------------
(* Model values of CheckoutPage for TLC.                                    *)
EXTENDS CheckoutPage, TLC

CONSTANTS lt, de,   \* two countries; the form opens on the first
          b1, b2, nothing, v1, novat
=============================================================================
