--------------------------- MODULE PacketChannel ---------------------------
(***************************************************************************)
(* What Network promises its owner about the packets it receives: they are *)
(* returned one by one, in the order they were sent, none skipped and none *)
(* twice, each as one of the results its content allows.                   *)
(*                                                                         *)
(* The connection may break.  Then what is still under way may be lost,    *)
(* but nothing in front of it, and the reader gets an exception; if the    *)
(* break is an error, one packet that nobody sent, made of zeros, may come *)
(* before the exception.  After an exception nothing is read any more.     *)
(***************************************************************************)
EXTENDS Integers, Sequences

CONSTANTS Exception,        \* what ReceivePacket returns when it throws
          Allowed(_, _),    \* may this packet, as it was sent, be returned so?
          IsGhost(_)        \* a packet made of zeros

VARIABLES underWay,         \* the packets sent and not read
          returned,         \* what ReceivePacket returned or threw
          phase             \* "open", "closed", "reset" or "over"

chanVars == <<underWay, returned, phase>>

ChanInit == underWay = << >> /\ returned = << >> /\ phase = "open"

Returns(p) == returned' = Append(returned, p)

\* The result of the step under way.
Result == returned'[Len(returned')]

Put == /\ phase = "open"
       /\ Len(underWay') = Len(underWay) + 1
       /\ SubSeq(underWay', 1, Len(underWay)) = underWay
       /\ UNCHANGED <<returned, phase>>

Get == /\ phase # "over" /\ underWay # << >>
       /\ Len(returned') = Len(returned) + 1 /\ Returns(Result)
       /\ Allowed(Head(underWay), Result)
       /\ underWay' = Tail(underWay)
       /\ phase' = IF Result = Exception THEN "over" ELSE phase

Break == /\ phase = "open" /\ phase' \in {"closed", "reset"}
         /\ UNCHANGED <<underWay, returned>>

Ghost == /\ phase = "reset" /\ phase' = "closed"
         /\ Len(returned') = Len(returned) + 1 /\ Returns(Result)
         /\ IsGhost(Result)
         /\ underWay' = << >>

End == /\ phase \in {"closed", "reset"} /\ phase' = "over"
       /\ Returns(Exception)
       /\ underWay' = << >>

\* The owner stops: a packet could not be sent.
Abandon == phase # "over" /\ phase' = "over" /\ UNCHANGED <<underWay, returned>>

ChanNext == Put \/ Get \/ Break \/ Ghost \/ End \/ Abandon

ChanSpec == ChanInit /\ [][ChanNext]_chanVars
=============================================================================
