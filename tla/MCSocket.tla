------------------------------ MODULE MCSocket ------------------------------
(* Instances of Socket, with errors and the end of the stream.             *)
EXTENDS Socket

EofOrError == {-1, 0}
=============================================================================
