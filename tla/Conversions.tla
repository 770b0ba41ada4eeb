---------------------------- MODULE Conversions ----------------------------
(***************************************************************************)
(* The fields of a packet that are not copied but converted: the loops of  *)
(* StreamInput::ReadVarInt and StreamOutput::WriteVarInt on an int of      *)
(* fixed width, ReadPosition and WritePosition, which pack three numbers   *)
(* with signs into a long (src/src/stream.cpp), and the text that Chat     *)
(* takes out of the JSON of a message (src/src/chat.cpp).                  *)
(*                                                                         *)
(* The server puts one field on the wire.  The client reads it, and writes *)
(* a VarInt back, as it does with the id of a teleport.                    *)
(***************************************************************************)
EXTENDS Integers, SequencesExt

CONSTANTS IntBits, GroupBits, MaxLength,    \* 32, 7 and MAX_VARINT_LENGTH = 5
          BitsXZ, BitsY,                    \* of a position: 26 and 12
          Components                        \* the messages the server may send

ASSUME ConversionsAssumption ==
    /\ {IntBits, GroupBits, MaxLength, BitsXZ, BitsY} \subseteq Nat \ {0}
    /\ GroupBits * (MaxLength - 1) < IntBits /\ IntBits <= GroupBits * MaxLength

VARIABLES kind, value,  \* what the server sends: a field and what it means
          layout,       \* of a position: "XYZ" or, since protocol 477, "XZY"
          wire,         \* its bytes, its long or its JSON
          pc,           \* where the client is
          data,         \* ReadVarInt: the bytes; Chat: the text so far
          readed, result, \* ReadVarInt: bytes decoded, and to what; a position
          rest, buff,   \* WriteVarInt: what is left to write, and the bytes
          todo          \* Chat: the JSON values to visit, with their keys

vars == <<kind, value, layout, wire, pc, data, readed, result, rest, buff, todo>>

-----------------------------------------------------------------------------
(* Numbers.                                                                *)

\* What one is when it is shifted to the left.
TwoTo[n \in Nat] == IF n = 0 THEN 1 ELSE 2 * TwoTo[n - 1]

Radix == TwoTo[GroupBits]

Ints(bits) == -TwoTo[bits - 1] .. TwoTo[bits - 1] - 1

\* The low bits of a number in two's complement.
Signed(n, bits) == LET low == n % TwoTo[bits]
                   IN IF low >= TwoTo[bits - 1] THEN low - TwoTo[bits] ELSE low

\* The int without its sign, and the weight of what is behind k groups.
Unsigned(n) == n % TwoTo[IntBits]
Weight(k) == TwoTo[GroupBits * k]

\* The server's VarInt of an int in the given number of groups.
Groups(n, length) ==
    [i \in 1..length |-> ((Unsigned(n) \div Weight(i - 1)) % Radix) + (IF i < length THEN Radix ELSE 0)]

Needed(n) == CHOOSE k \in 1..MaxLength : /\ Unsigned(n) < Weight(k)
                                         /\ k > 1 => Unsigned(n) >= Weight(k - 1)

Positions == [x : Ints(BitsXZ), y : Ints(BitsY), z : Ints(BitsXZ)]

Pack(high, middle, low, middleBits, lowBits) ==
    (high % TwoTo[BitsXZ]) * TwoTo[middleBits + lowBits] + (middle % TwoTo[middleBits]) * TwoTo[lowBits]
        + (low % TwoTo[lowBits])

WritePosition(v) == Pack(v.x, v.y, v.z, BitsY, BitsXZ)

\* A plausible bug: only x has a sign.
ReadPositionUnsigned(long) == [x |-> Signed(long \div TwoTo[BitsY + BitsXZ], BitsXZ),
                               y |-> (long \div TwoTo[BitsXZ]) % TwoTo[BitsY],
                               z |-> long % TwoTo[BitsXZ]]

\* z is what is left of the long after shifts to the left and back.
ReadPosition(long) == [x |-> Signed(long \div TwoTo[BitsY + BitsXZ], BitsXZ),
                       y |-> Signed(long \div TwoTo[BitsXZ], BitsY),
                       z |-> Signed(long, BitsXZ)]

-----------------------------------------------------------------------------
(* JSON: [string |-> s], [number |-> s], [items |-> a sequence] or         *)
(* [members |-> a function on keys].  nlohmann keeps the members of an     *)
(* object sorted by their key.                                             *)
Is(type, node) == type \in DOMAIN node

KeyOrder == <<"color", "extra", "hoverEvent", "text", "translate", "value", "with">>

Has(node, key) == Is("members", node) /\ key \in DOMAIN node.members

Member(node, key) == IF Has(node, key) THEN << <<key, node.members[key]>> >> ELSE << >>

Members(node) == FlattenSeq([i \in DOMAIN KeyOrder |-> Member(node, KeyOrder[i])])

\* A plausible bug: what is inside a list is not visited.
ChildrenOfObject(node) == CASE Is("members", node) -> Members(node)
                            [] OTHER -> << >>

\* The elements of a list have no key.
Children(node) == CASE Is("members", node) -> Members(node)
                    [] Is("items", node) -> [i \in DOMAIN node.items |-> <<"", node.items[i]>>]
                    [] OTHER -> << >>

IsPlayerChat(node) == Has(node, "translate")
                          /\ node.members["translate"] = [string |-> "chat.type.text"]

\* The name is the text of the first argument, the message the second one.
NamedMessage(node) ==
    /\ Has(node, "with") /\ Is("items", node.members["with"])
    /\ LET args == node.members["with"].items
       IN /\ Len(args) >= 2
          /\ Has(args[1], "text") /\ Is("string", args[1].members["text"])
          /\ Is("string", args[2])

-----------------------------------------------------------------------------
Wires == [VarInt |-> Ints(IntBits), Position |-> Positions, Chat |-> Components]

\* A VarInt may be padded with groups of zeros.
Init == /\ kind \in DOMAIN Wires /\ value \in Wires[kind]
        /\ layout \in IF kind = "Position" THEN {"XYZ", "XZY"} ELSE {"none"}
        /\ \/ kind = "VarInt" /\ \E l \in Needed(value)..MaxLength : wire = Groups(value, l)
           \/ kind = "Position" /\ wire = IF layout = "XYZ"
                                          THEN Pack(value.x, value.y, value.z, BitsY, BitsXZ)
                                          ELSE Pack(value.x, value.z, value.y, BitsXZ, BitsY)
           \/ kind = "Chat" /\ wire = value
        /\ pc = "start"
        /\ data = << >> /\ readed = 0 /\ result = 0 /\ rest = 0 /\ buff = << >> /\ todo = << >>

(* ReadVarInt: the bytes are read as far as one without the flag; nothing  *)
(* looks at the room there is for them.                                    *)
ReadByte == /\ kind = "VarInt" /\ pc = "start" /\ wire # << >>
            /\ IF Len(data) = MaxLength THEN pc' = "readOverrun" /\ UNCHANGED data
               ELSE /\ data' = Append(data, Head(wire))
                    /\ pc' = IF Head(wire) >= Radix THEN "start" ELSE "decode"
            /\ wire' = Tail(wire)
            /\ UNCHANGED <<kind, value, layout, readed, result, rest, buff, todo>>

\* A plausible bug: a group is put where a byte with its flag would be.
AtBytes(group, i) == group * TwoTo[(GroupBits + 1) * i]

At(group, i) == group * Weight(i)

\* The bits the shift pushes out of the int are lost.
DecodeByte ==
    /\ pc = "decode"
    /\ LET byte == data[readed + 1]
       IN /\ result' = Signed(result + At(byte % Radix, readed), IntBits)
          /\ readed' = readed + 1
          /\ IF byte >= Radix THEN UNCHANGED <<pc, rest>> ELSE pc' = "write" /\ rest' = result'
    /\ UNCHANGED <<kind, value, layout, wire, data, buff, todo>>

-----------------------------------------------------------------------------
\* A plausible bug: the flag is set when the byte is full.
FlagOf(n) == IF n % Radix = Radix - 1 THEN Radix ELSE 0

\* Another byte follows when the shift leaves something.
Flag(n) == IF n \div Radix # 0 THEN Radix ELSE 0

(* WriteVarInt: the shift of a negative number keeps its sign, so that it  *)
(* never becomes zero, and the sixth byte has no room.                     *)
WriteGroup == /\ pc = "write"
              /\ IF Len(buff) = MaxLength THEN pc' = "writeOverrun" /\ UNCHANGED <<rest, buff>>
                 ELSE /\ buff' = Append(buff, (rest % Radix) + Flag(rest))
                      /\ rest' = rest \div Radix
                      /\ pc' = IF rest' # 0 THEN "write" ELSE "written"
              /\ UNCHANGED <<kind, value, layout, wire, data, readed, result, todo>>

ReceivePosition == /\ kind = "Position" /\ pc = "start"
                   /\ result' = ReadPosition(wire)
                   /\ pc' = "read"
                   /\ UNCHANGED <<kind, value, layout, wire, data, readed, rest, buff, todo>>

SendPosition == /\ kind = "Position" /\ pc = "read"
                /\ rest' = WritePosition(result)
                /\ pc' = "written"
                /\ UNCHANGED <<kind, value, layout, wire, data, readed, result, buff, todo>>

-----------------------------------------------------------------------------
(* Chat::Chat.  The key "translate" is asked of the top value, which must  *)
(* be an object for that.                                                  *)
ChatStart ==
    /\ kind = "Chat" /\ pc = "start"
    /\ \/ /\ \/ ~Is("members", wire)
             \/ IsPlayerChat(wire) /\ ~NamedMessage(wire)
          /\ pc' = "thrown"
          /\ UNCHANGED <<data, todo>>
       \/ /\ Is("members", wire) /\ IsPlayerChat(wire) /\ NamedMessage(wire)
          /\ pc' = "shown"
          /\ LET args == wire.members["with"].items
             IN data' = <<args[1].members["text"].string, args[2].string>>
          /\ UNCHANGED todo
       \/ /\ Is("members", wire) /\ ~IsPlayerChat(wire)
          /\ pc' = "visit"
          /\ todo' = Members(wire)
          /\ UNCHANGED data
    /\ UNCHANGED <<kind, value, layout, wire, readed, result, rest, buff>>

\* Recursive: what is to be done for the inner values comes first.
ChatVisit ==
    /\ pc = "visit" /\ todo # << >>
    /\ LET key == Head(todo)[1]
           node == Head(todo)[2]
       IN IF key = "text" /\ ~Is("string", node)
          THEN pc' = "thrown" /\ UNCHANGED <<data, todo>>
          ELSE /\ data' = IF key = "text" THEN Append(data, node.string) ELSE data
               /\ todo' = Children(node) \o Tail(todo)
               /\ UNCHANGED pc
    /\ UNCHANGED <<kind, value, layout, wire, readed, result, rest, buff>>

ChatDone == /\ pc = "visit" /\ todo = << >>
            /\ pc' = "shown"
            /\ UNCHANGED <<kind, value, layout, wire, data, readed, result, rest, buff, todo>>

Next == \/ ReadByte \/ DecodeByte \/ WriteGroup
        \/ ReceivePosition \/ SendPosition
        \/ ChatStart \/ ChatVisit \/ ChatDone

Spec == Init /\ [][Next]_vars

-----------------------------------------------------------------------------
(***************************************************************************)
(* Properties                                                              *)
(***************************************************************************)

(* A VarInt of the server is read as the int it means, negative or not,    *)
(* padded or not, by a loop that has no end of its own and sums up groups  *)
(* of which the last does not fit the int; and the buffer of five bytes is *)
(* enough for it (stream.cpp:356-374).                                     *)
VarIntsRead == kind = "VarInt" => /\ pc \in {"write", "written", "writeOverrun"} => result = value
                                  /\ pc # "readOverrun"

(* A VarInt that is sent back is the server's own shortest form of it, and *)
(* WriteVarInt ends for exactly the numbers that are not negative: for a   *)
(* negative one the five bytes of its buffer are not enough, whatever the  *)
(* number (stream.cpp:577-590).                                            *)
VarIntsEchoed == kind = "VarInt" =>
                     /\ pc = "written" => value >= 0 /\ buff = Groups(value, Needed(value))
                     /\ pc = "writeOverrun" => value < 0

(* A position with y in the middle is read with its three signs, and what  *)
(* is written is the long that was read.  In the layout of protocol 578,   *)
(* which the client asks for, y is at the end: then x is right, but y and  *)
(* z only if the same bits mean the same in both layouts                   *)
(* (stream.cpp:485-500, 626-629).                                          *)
PositionsRead ==
    (kind = "Position" /\ pc \in {"read", "written"}) =>
        /\ result.x = value.x
        /\ (result = value) <=> (wire = Pack(value.x, value.y, value.z, BitsY, BitsXZ))
        /\ pc = "written" => rest = wire
=============================================================================
