----------------------------- MODULE MCFraming -----------------------------
(* Instances of Framing.  With Radix 4 a VarInt has a second byte from 4 on *)
(* and a third from 16 on, so that lengths, ids and counts take one to     *)
(* three bytes.  Below the threshold 24 a chat message of 18 characters    *)
(* is the largest packet that is not refused.  Of the texts of the server  *)
(* that is empty and that of five characters are none for Chat.  What      *)
(* inflate makes of damaged data may begin with a string that never ends,  *)
(* or with an id of three bytes.                                           *)
EXTENDS Framing

Never == -1
PlainOrCompressed == {-1, 24}
AllReceived == UNION {Parsed(s) : s \in {"Status", "Login", "Play"}} \cup {"EntityAnimationCB"}
SomeChat(text) == Len(text) \notin {0, 5}
Rubbish == {<<0, 7, 7, 3>>, <<5, 4, 2, 7, 1, 6, 0, 3>>}
PlaySendable == DOMAIN (ActionFields ++ AnswerFields ++ UseItemFields)
=============================================================================
