----------------------------- MODULE MCSession -----------------------------
(* An instance of Session: the server may leave compression off or on.     *)
EXTENDS Session

OffOrOn == {-1, 256}
=============================================================================
