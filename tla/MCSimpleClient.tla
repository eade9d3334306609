--------------------------- MODULE MCSimpleClient ---------------------------
(* Small instances of SimpleClient for TLC: the configurations name the    *)
(* bounds of each run.                                                     *)
EXTENDS SimpleClient

Plain    == {"plain"}
AllKinds == {"plain", "pushlike", "rejected"}
=============================================================================
