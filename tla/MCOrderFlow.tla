---------------------------- MODULE MCOrderFlow ----------------------------
(* Small instances of OrderFlow for TLC. *)
EXTENDS OrderFlow, TLC

CONSTANTS o1, ok, bad, hub, w1, w2, t1

OkType == ok :> "succeeded"
OkOrder == ok :> o1

\* One order whose intent first failed and then succeeded, and a refund
\* reported for an intent no order carries.
HubType == (ok :> "succeeded") @@ (bad :> "payment_failed") @@ (hub :> "charge_refunded")
HubOrder == (ok :> o1) @@ (bad :> o1) @@ (hub :> NoOrder)

WorkerSymmetry == Permutations(Workers)
=============================================================================
