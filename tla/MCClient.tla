------------------------------ MODULE MCClient ------------------------------
(* Instances of Client: all packets, or those whose effects interleave.    *)
EXTENDS Client

Replied == {"chat", "posLook", "faint", "splash"}
Awaited == {"posLook", "splash"}
=============================================================================
