------------------------------ MODULE MCSession ------------------------------
(* Model values of Session for TLC.                                         *)
EXTENDS Session

CONSTANTS tab1, tab2, ada, ben      \* two tabs, two accounts
=============================================================================
