------------------------------ MODULE Packets ------------------------------
(***************************************************************************)
(* Packets as bytes: the reads and writes of src/src/stream.cpp and the    *)
(* field layouts of the packet classes of src/include/packet.hpp.          *)
(*                                                                         *)
(* A byte is a number below 2 * Radix (Radix is 128 in the code); the upper *)
(* half carries the flag "another byte follows" of a VarInt.  The value of *)
(* a field of fixed width, of a string or of a slot is the sequence of its *)
(* bytes, in the order of the stream: the numbers they stand for, and what *)
(* a position and a chat text become, are in Conversions.  The value of a  *)
(* VarInt is a natural number of any number of groups.  ReadVarInt has room *)
(* for five bytes and an int, and no limit: a server sends to the classes  *)
(* modelled here no number that is negative or longer, Framing assumes as  *)
(* much of data nobody sent, and Conversions has what becomes of others.   *)
(***************************************************************************)
EXTENDS Integers, SequencesExt

CONSTANTS Radix,
          ReadsChat(_)  \* is the text one Chat's constructor does not throw at?

ASSUME RadixAssumption == Radix \in Nat \ {0, 1}

\* Nothing is not JSON.
ASSUME ChatAssumption == ~ReadsChat(<< >>)

-----------------------------------------------------------------------------
(* Writing.                                                                *)

Bytes == 0..(2 * Radix - 1)

\* WriteVarInt: seven bits at a time, the least significant first.
VarInt[n \in Nat] ==
    IF n < Radix THEN <<n>> ELSE <<Radix + (n % Radix)>> \o VarInt[n \div Radix]

Width == [Bool |-> 1, Byte |-> 1, UByte |-> 1, Angle |-> 1, Short |-> 2, UShort |-> 2,
          Int |-> 4, Float |-> 4, Long |-> 8, Double |-> 8, Position |-> 8, UUID |-> 16]

\* A slot without an item is the number -1; another is followed by the
\* count, the damage and, when it is written, the end of the NBT data.
NoItem == <<2 * Radix - 1, 2 * Radix - 1>>

Write(kind, value) ==
    CASE kind = "VarInt" -> VarInt[value]
      [] kind \in {"String", "ByteArray"} -> VarInt[Len(value)] \o value
      [] kind = "SlotAndNbt" -> IF value = NoItem THEN value ELSE Append(value, 0)
      [] OTHER -> value

WriteFields(kinds, values) == FlattenSeq([i \in DOMAIN kinds |-> Write(kinds[i], values[i])])

-----------------------------------------------------------------------------
(* Reading, from a StreamBuffer: what is left of it, the values got so far, *)
(* and whether none of them threw.                                         *)

Reader(bytes) == [ok |-> TRUE, left |-> bytes, got |-> << >>]

OutOfData(r) == [r EXCEPT !.ok = FALSE]

Skip(r, n) == [r EXCEPT !.left = SubSeq(r.left, n + 1, Len(r.left))]
WithValues(r, values) == [r EXCEPT !.got = values]
Got(r, value) == WithValues(r, Append(r.got, value))

ReadData(r, n) ==
    IF Len(r.left) < n THEN OutOfData(r) ELSE Got(Skip(r, n), SubSeq(r.left, 1, n))

\* The groups of seven bits put together.
Value[bytes \in Seq(Nat)] ==
    IF bytes = << >> THEN 0 ELSE (Head(bytes) % Radix) + Radix * Value[Tail(bytes)]

ReadVarInt(r) ==
    LET ends == {i \in DOMAIN r.left : r.left[i] < Radix}
        n == Min(ends)
    IN IF ends = {} THEN OutOfData(r) ELSE Got(Skip(r, n), Value[SubSeq(r.left, 1, n)])

\* A length and that many bytes.
ReadCounted(r) ==
    LET l == ReadVarInt(r)
    IN IF l.ok THEN ReadData(WithValues(l, Front(l.got)), Last(l.got)) ELSE l

\* The string ends at its first zero byte: it is made from a char pointer.
UpToZero(bytes) ==
    LET zeros == {i \in DOMAIN bytes : bytes[i] = 0}
    IN IF zeros = {} THEN bytes ELSE SubSeq(bytes, 1, Min(zeros) - 1)

ReadString(r) ==
    LET s == ReadCounted(r)
    IN IF s.ok THEN WithValues(s, Append(Front(s.got), UpToZero(Last(s.got)))) ELSE s

ReadSlot(r) ==
    LET id == ReadData(r, 2)
        rest == ReadData(id, 3)
    IN CASE ~id.ok \/ Last(id.got) = NoItem -> id
         [] OTHER -> IF rest.ok THEN WithValues(rest, Append(r.got, Last(id.got) \o Last(rest.got)))
                     ELSE rest

\* The server's: behind an item it also reads the byte 0 of empty NBT data.
ReadSlotAndNbt(r) ==
    LET slot == ReadSlot(r)
    IN IF slot.ok /\ Last(slot.got) # NoItem THEN Skip(slot, 1) ELSE slot

Read(r, kind) ==
    CASE ~r.ok -> r
      [] r.ok /\ kind \in DOMAIN Width -> ReadData(r, Width[kind])
      [] r.ok /\ kind = "VarInt" -> ReadVarInt(r)
      [] r.ok /\ kind = "String" -> ReadString(r)
      [] r.ok /\ kind = "ByteArray" -> ReadCounted(r)
      [] r.ok /\ kind = "Slot" -> ReadSlot(r)
      [] r.ok /\ kind = "SlotAndNbt" -> ReadSlotAndNbt(r)

\* One field after the other.
ReadFields(r, kinds) ==
    LET read[i \in 0..Len(kinds)] == IF i = 0 THEN r ELSE Read(read[i - 1], kinds[i])
    IN read[Len(kinds)]

-----------------------------------------------------------------------------
(* What FromStream reads, class by class, the classes in the order of      *)
(* packet.hpp.  BossBar and OpenWindow, whose layout depends on a value,   *)
(* are not built by anything.                                              *)

\* The layouts of two headers together.
f ++ g == [c \in DOMAIN f \cup DOMAIN g |-> IF c \in DOMAIN f THEN f[c] ELSE g[c]]

LoginFields ==
    [Response |-> <<"VarInt", "String">>, Pong |-> <<"Long">>,
     LoginSuccess |-> <<"String", "String">>, Disconnect |-> <<"String">>,
     SetCompression |-> <<"VarInt">>]

SpawnFields ==
    [SpawnEntity |-> <<"VarInt", "UUID", "Byte", "Double", "Double", "Double", "Angle", "Angle",
                       "Int", "Short", "Short", "Short">>,
     SpawnLivingEntity |-> <<"VarInt", "UUID", "VarInt", "Double", "Double", "Double", "Angle",
                             "Angle", "Angle", "Short", "Short", "Short">>,
     SpawnPlayer |-> <<"VarInt", "UUID", "Double", "Double", "Double", "Angle", "Angle">>,
     BlockChange |-> <<"Position", "VarInt">>]

WorldFields ==
    [ServerDifficulty |-> <<"UByte", "Bool">>, ChatMessageCB |-> <<"String", "Byte">>,
     MultiBlockChange |-> <<"Int", "Int", "VarInt">>, DisconnectPlay |-> <<"String">>,
     KeepAliveCB |-> <<"Long">>,
     ChunkData |-> <<"Int", "Int", "Bool", "VarInt", "ByteArray", "VarInt">>,
     Effect |-> <<"Int", "Position", "Int", "Bool">>]

PlayerFields ==
    [JoinGame |-> <<"Int", "UByte", "Int", "Long", "UByte", "String", "Bool", "Bool">>,
     EntityPosition |-> <<"VarInt", "Short", "Short", "Short", "Bool">>,
     EntityPositionAndRotation |-> <<"VarInt", "Short", "Short", "Short", "Angle", "Angle", "Bool">>,
     EntityRotation |-> <<"VarInt", "Angle", "Angle", "Bool">>,
     PlayerPositionAndLookCB |-> <<"Double", "Double", "Double", "Float", "Float", "UByte", "VarInt">>,
     UpdateHealth |-> <<"Float", "VarInt", "Float">>]

WindowFields ==
    [SpawnPosition |-> <<"Position">>, UnloadChunk |-> <<"Int", "Int">>,
     WindowConfirmationCB |-> <<"Byte", "Short", "Bool">>, CloseWindowCB |-> <<"UByte">>,
     WindowItems |-> <<"UByte", "Short">>, WindowProperty |-> <<"UByte", "Short", "Short">>,
     SetSlot |-> <<"Byte", "Short", "Slot">>, SetCooldown |-> <<"VarInt", "VarInt">>]

EntityFields ==
    [DestroyEntities |-> <<"VarInt">>, EntityVelocity |-> <<"VarInt", "Short", "Short", "Short">>,
     TimeUpdate |-> <<"Long", "Long">>,
     SoundEffect |-> <<"VarInt", "VarInt", "Int", "Int", "Int", "Float", "Float">>,
     EntityTeleport |-> <<"VarInt", "Double", "Double", "Double", "Angle", "Angle", "Bool">>]

Fields == LoginFields ++ SpawnFields ++ WorldFields ++ PlayerFields ++ WindowFields ++ EntityFields

\* The classes that go on with a list: the last field says how long it is.
Element == [MultiBlockChange |-> <<"UByte", "UByte", "VarInt">>,
            WindowItems |-> <<"Slot">>, DestroyEntities |-> <<"VarInt">>]

\* The count of WindowItems is a signed short: a negative one means nothing.
Count(class, value) ==
    CASE class # "WindowItems" -> value
      [] class = "WindowItems" /\ value[1] >= Radix -> 0
      [] OTHER -> 2 * Radix * value[1] + value[2]

Repeat(n, kinds) == FlattenSeq([i \in 1..n |-> kinds])

AllFields(class, bytes) ==
    LET fixed == ReadFields(Reader(bytes), Fields[class])
    IN IF fixed.ok /\ class \in DOMAIN Element
       THEN ReadFields(fixed, Repeat(Count(class, Last(fixed.got)), Element[class]))
       ELSE fixed

\* The classes whose first field is read by ReadChat.
WithChat == {"ChatMessageCB", "Disconnect", "DisconnectPlay"}

Rejected(class, values) == class \in WithChat /\ ~ReadsChat(values[1])

\* An int made of a long, and a long again: the low four bytes, with their sign.
ToInt(long) == LET sign == IF long[5] >= Radix THEN 2 * Radix - 1 ELSE 0
               IN <<sign, sign, sign, sign>> \o SubSeq(long, 5, 8)

\* The payload of a ping and of a pong is an int.
Kept(class, values) == IF class \in {"Ping", "Pong"} THEN <<ToInt(values[1])>> ELSE values

\* The members of the packet, from what was read.
Assigned(class, r) ==
    CASE ~r.ok -> r
      [] r.ok /\ Rejected(class, r.got) -> OutOfData(r)
      [] OTHER -> WithValues(r, Kept(class, r.got))

FromStream(class, bytes) == Assigned(class, AllFields(class, bytes))

-----------------------------------------------------------------------------
(* What ToStream writes, for the packets of the client.                    *)

HelloFields == [Handshake |-> <<"VarInt", "String", "UShort", "VarInt">>]

StatusRequestFields == [Request |-> << >>, Ping |-> <<"Long">>]

LoginStartFields == [LoginStart |-> <<"String">>]

AnswerFields ==
    [KeepAliveSB |-> <<"Long">>, TeleportConfirm |-> <<"VarInt">>, ClientStatus |-> <<"VarInt">>,
     PlayerPositionAndRotationSB |-> <<"Double", "Double", "Double", "Float", "Float", "Bool">>,
     PlayerPosition |-> <<"Double", "Double", "Double", "Bool">>,
     PlayerRotation |-> <<"Float", "Float", "Bool">>]

ActionFields ==
    [WindowConfirmationSB |-> <<"Byte", "Short", "Bool">>,
     ClickWindow |-> <<"UByte", "Short", "Byte", "Short", "VarInt", "SlotAndNbt">>,
     CloseWindowSB |-> <<"UByte">>, ChatMessageSB |-> <<"String">>,
     PlayerDigging |-> <<"VarInt", "Position", "Byte">>,
     PlayerBlockPlacement |-> <<"Position", "Byte", "Byte", "Float", "Float", "Float">>]

UseItemFields == [UseItem |-> <<"VarInt">>]

Written == HelloFields ++ StatusRequestFields ++ LoginStartFields ++ AnswerFields
               ++ ActionFields ++ UseItemFields

ToStream(class, values) == WriteFields(Written[class], values)

-----------------------------------------------------------------------------
(* GetPacketId, and the class of an id in a state of the connection.       *)

Id == [Handshake |-> 0, Response |-> 0, Pong |-> 1, Request |-> 0, Ping |-> 1,
       Disconnect |-> 0, LoginSuccess |-> 2, SetCompression |-> 3, LoginStart |-> 0,
       SpawnEntity |-> 0, SpawnLivingEntity |-> 3, SpawnPlayer |-> 5, EntityAnimationCB |-> 6,
       BlockChange |-> 12, ServerDifficulty |-> 14, ChatMessageCB |-> 15, MultiBlockChange |-> 16,
       WindowConfirmationCB |-> 19, CloseWindowCB |-> 20, WindowItems |-> 21,
       WindowProperty |-> 22, SetSlot |-> 23, SetCooldown |-> 24, DisconnectPlay |-> 27,
       UnloadChunk |-> 30, KeepAliveCB |-> 33, ChunkData |-> 34, Effect |-> 35, JoinGame |-> 38,
       EntityPosition |-> 41, EntityPositionAndRotation |-> 42, EntityRotation |-> 43,
       PlayerPositionAndLookCB |-> 54, DestroyEntities |-> 56, EntityVelocity |-> 70,
       UpdateHealth |-> 73, SpawnPosition |-> 78, TimeUpdate |-> 79, SoundEffect |-> 82,
       EntityTeleport |-> 87,
       TeleportConfirm |-> 0, ChatMessageSB |-> 2, ClientStatus |-> 3, WindowConfirmationSB |-> 6,
       ClickWindow |-> 8, CloseWindowSB |-> 9, KeepAliveSB |-> 14, PlayerPosition |-> 16,
       PlayerPositionAndRotationSB |-> 17, PlayerRotation |-> 18, PlayerDigging |-> 25,
       PlayerBlockPlacement |-> 44, UseItem |-> 45]

ParsePacketPlay ==
    {"SpawnEntity", "SpawnPlayer", "BlockChange", "ChatMessageCB", "MultiBlockChange",
     "WindowConfirmationCB", "CloseWindowCB", "WindowItems", "WindowProperty", "SetSlot",
     "SetCooldown", "DisconnectPlay", "UnloadChunk", "KeepAliveCB", "ChunkData", "Effect",
     "JoinGame", "EntityPosition", "EntityPositionAndRotation", "EntityRotation",
     "PlayerPositionAndLookCB", "DestroyEntities", "EntityVelocity", "UpdateHealth",
     "SpawnPosition", "TimeUpdate", "SoundEffect", "EntityTeleport"}

\* The switch over the state of ReceivePacketByPacketId.
Parsed(state) == CASE state = "Status" -> {"Response", "Pong"}
                   [] state = "Login" -> {"LoginSuccess", "SetCompression", "Disconnect"}
                   [] state = "Play" -> ParsePacketPlay
=============================================================================
