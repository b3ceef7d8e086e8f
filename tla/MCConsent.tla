------------------------------ MODULE MCConsent ------------------------------
(* Model values of Consent for TLC.                                         *)
EXTENDS Consent

CONSTANTS tab1, tab2    \* two tabs

TheCategories == {Analytics, "marketing"}
TheVersions == {1, 2}
=============================================================================
