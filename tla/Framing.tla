------------------------------ MODULE Framing ------------------------------
(***************************************************************************)
(* Network::ReceivePacket and Network::SendPacket (src/src/network.cpp):   *)
(* packets cut out of a stream of bytes and written to one, with and       *)
(* without the compressed format.  One thread reads and writes, a packet   *)
(* at a time; the server at the other end is outside.                      *)
(*                                                                         *)
(* The server may send any packet, also one the client has no class for,   *)
(* one with more or less data than the class reads, one with a text Chat   *)
(* cannot read, and in the compressed format one whose zlib data is damaged *)
(* or announced with a wrong length.                                       *)
(* It may close the connection, or the connection may break, in the middle *)
(* of a packet.  Socket::Read then throws at the end of the stream; but an *)
(* error, which TCP reports once before the end, it takes for data unless  *)
(* it has received some before (see Socket), and returns a buffer that it  *)
(* left as it was, all zeros.                                              *)
(***************************************************************************)
EXTENDS Packets

CONSTANTS Ns,           \* values of VarInts and lengths of strings and lists
          States,       \* states of the connection to start in
          Thresholds,   \* -1 for the plain format, or the compression threshold
          First, Later, \* classes of the first and of later packets of the server
          Sendable,     \* classes the client sends in these states
          Contents,     \* of {"whole", "cut", "extra"}
          Packings,     \* of {"plain", "zlib", "damaged", "tooShort", "tooLong"}
          Scraps,       \* what inflate may make of damaged data
          MaxFrames, MaxSends,  \* bounds on the packets either way
          BreakAfter,   \* bound on the packets sent before the connection ends
          CutWithin     \* it ends within so many bytes, or in the last one

\* The number of slots is sent as a signed short.  In a state of the
\* connection the ids of the packets are different.  Nothing in Scraps is a
\* VarInt of five bytes, which may be negative, or of more, which overrun the
\* array of ReadVarInt.
ASSUME FramingAssumption ==
    /\ Ns \subseteq 0..(2 * Radix * Radix - 1)
    /\ {MaxFrames, MaxSends, CutWithin} \subseteq Nat /\ BreakAfter \in Int
    /\ States \subseteq {"Status", "Login", "Play"}
    /\ Thresholds \subseteq Int
    /\ Contents \subseteq {"whole", "cut", "extra"}
    /\ Packings \subseteq {"plain", "zlib", "damaged", "tooShort", "tooLong"}
    /\ \A bytes \in Scraps : /\ bytes \in Seq(Bytes)
                            /\ \A i \in 1..(Len(bytes) - 3) : \E j \in i..(i + 3) : bytes[j] < Radix
    /\ Sendable \subseteq DOMAIN Written
    /\ \A c, d \in Sendable : Id[c] = Id[d] => c = d
    /\ "Play" \in States => "KeepAliveSB" \in Sendable

VARIABLES state, threshold,     \* of the connection
          pc,                   \* "length", "body", "reply" or "ended"
          length,               \* the length that was read
          toClient, toServer,   \* the bytes under way
          conn,                 \* "open", "closed", "reset" or "reported"
          frames,               \* history: what the server sent
          received,             \* history: what ReceivePacket returned or threw
          afterEnd,             \* history: the same, when it met the end of the stream
          sent,                 \* history: what SendPacket was given, and its outcome
          serverGot             \* history: what the server made of toServer

vars == <<state, threshold, pc, length, toClient, toServer, conn, frames, received, afterEnd, sent,
          serverGot>>

\* ServerListPing never asks for the compressed format.
Init == /\ state \in States /\ threshold \in Thresholds
        /\ state = "Status" => threshold < 0
        /\ pc = "length" /\ length = 0
        /\ toClient = << >> /\ toServer = << >> /\ conn = "open" /\ afterEnd = << >>
        /\ frames = << >> /\ received = << >> /\ sent = << >> /\ serverGot = << >>

-----------------------------------------------------------------------------
(* The server.  A packet has a value for every field; n is that of its     *)
(* VarInts and the length of its strings, and 0 for a list is no element.  *)
Pattern(i, n) == [j \in 1..n |-> (i + j) % (2 * Radix)]

Sample(kind, i, n) ==
    CASE kind = "VarInt" -> n
      [] kind \in {"String", "ByteArray"} -> [j \in 1..n |-> 1 + ((i + j) % (Radix - 1))]
      [] kind = "Bool" -> <<i % 2>>
      [] kind \in {"Slot", "SlotAndNbt"} -> IF n = 0 \/ i % 3 = 2 THEN NoItem ELSE Pattern(i, 5)
      [] kind = "Long" -> (IF n < Radix * Radix THEN <<0, 0, 0, 0>> ELSE Pattern(i, 4))
                              \o Pattern(i + n, 4)
      [] OTHER -> Pattern(i, Width[kind])

Samples(kinds, n) == [i \in DOMAIN kinds |-> Sample(kinds[i], i, n)]

\* The number of elements is the last of the fixed fields.
Values(class, n) ==
    CASE class \notin DOMAIN Fields -> <<Pattern(1, n)>>
      [] class \in DOMAIN Fields /\ class \notin DOMAIN Element -> Samples(Fields[class], n)
      [] class = "WindowItems" -> <<Pattern(1, 1), <<n \div (2 * Radix), n % (2 * Radix)>>>>
                                      \o Samples(Repeat(n, Element[class]), n)
      [] OTHER -> Samples(Fields[class] \o Repeat(n, Element[class]), n)

Kinds(class, n) == CASE class \notin DOMAIN Fields -> <<"Raw">>
                     [] class \in DOMAIN Element -> Fields[class] \o Repeat(n, Element[class])
                     [] OTHER -> Fields[class]

\* A slot of the protocol ends with its NBT data.
ServerKinds(class, n) ==
    LET kinds == Kinds(class, n)
    IN [i \in DOMAIN kinds |-> IF kinds[i] = "Slot" THEN "SlotAndNbt" ELSE kinds[i]]

\* A stand-in for zlib: self-checking, and the other way round Inflated.
Deflate(bytes, intact) == <<IF intact THEN 1 ELSE 0>> \o bytes

Body(class, n, content) ==
    LET bytes == VarInt[Id[class]] \o WriteFields(ServerKinds(class, n), Values(class, n))
    IN CASE content = "whole" -> bytes
         [] content = "cut" -> Front(bytes)
         [] content = "extra" -> bytes \o <<1, Radix>>

Counted(bytes) == VarInt[Len(bytes)] \o bytes

Frame(bytes, packing) ==
    CASE threshold < 0 -> Counted(bytes)
      [] threshold >= 0 /\ packing = "plain" -> Counted(<<0>> \o bytes)
      [] OTHER -> LET announced == CASE packing = "tooShort" -> Len(bytes) - 1
                                     [] packing = "tooLong" -> Len(bytes) + 2
                                     [] OTHER -> Len(bytes)
                  IN Counted(VarInt[announced] \o Deflate(bytes, packing # "damaged"))

ServerSend(class, n, content, packing) ==
    /\ Len(frames) < MaxFrames /\ pc # "ended" /\ conn = "open"
    /\ class \in IF frames = << >> THEN First ELSE Later
    /\ class \in Parsed(state) \cup {"EntityAnimationCB"}
    /\ threshold < 0 => packing = "plain"
    /\ content # "whole" => packing \in {"plain", "zlib"}
    /\ class = "EntityAnimationCB" => content = "whole"
    \* A length of 0 announces data that is not compressed.
    /\ packing = "tooShort" => Len(Body(class, n, content)) > 1
    /\ LET bytes == Frame(Body(class, n, content), packing)
       IN /\ toClient' = toClient \o bytes
          /\ frames' = Append(frames, [class |-> class, values |-> Values(class, n), bytes |-> bytes,
                                       content |-> content, packing |-> packing])
    /\ UNCHANGED <<state, threshold, pc, length, toServer, conn, received, afterEnd, sent, serverGot>>

\* The stream ends in front of a byte that is under way.
ConnectionEnds(how) ==
    /\ conn = "open" /\ pc # "ended" /\ Len(frames) <= BreakAfter
    /\ conn' = how
    /\ \E k \in 0..Len(toClient) : /\ k <= CutWithin \/ k >= Len(toClient) - 1
                                 /\ toClient' = SubSeq(toClient, 1, k)
    /\ UNCHANGED <<state, threshold, pc, length, toServer, frames, received, afterEnd, sent,
                   serverGot>>

-----------------------------------------------------------------------------
(* ReceivePacket.                                                          *)

\* The length is read byte by byte from the socket, which waits for them.
ReceiveLength ==
    /\ pc = "length"
    /\ LET r == ReadVarInt(Reader(toClient))
       IN /\ r.ok
          /\ length' = Last(r.got)
          /\ toClient' = r.left
    /\ pc' = "body"
    /\ UNCHANGED <<state, threshold, toServer, conn, frames, received, afterEnd, sent, serverGot>>

Padded(bytes, n) == bytes \o [j \in 1..(n - Len(bytes)) |-> 0]

\* inflate into announced zero bytes: all that the data holds, and an error
\* when there is no room.  The status of damaged data is not in the switch:
\* the packet is read from what inflate had written, a part of the data or
\* anything else.
Inflated(data, announced) ==
    LET bytes == Tail(data)
        parts == {SubSeq(bytes, 1, k) : k \in 0..Len(bytes)}
    IN CASE Head(data) = 0 -> {Padded(b, announced) : b \in {c \in parts \cup Scraps : Len(c) <= announced}}
         [] Head(data) = 1 /\ Len(bytes) <= announced -> {Padded(bytes, announced)}
         [] OTHER -> {}

\* A plausible bug: what is left is measured as if dataLength were one byte.
UnpackedOneByte(body) ==
    LET dataLength == ReadVarInt(Reader(body))
    IN CASE threshold < 0 -> {body}
         [] threshold >= 0 /\ ~dataLength.ok -> {}
         [] OTHER -> IF dataLength.got = <<0>> THEN {dataLength.left}
                     ELSE Inflated(Tail(body), dataLength.got[1])

\* The id and fields of a packet; no outcome when ReceivePacket throws.
Unpacked(body) ==
    LET dataLength == ReadVarInt(Reader(body))
    IN CASE threshold < 0 -> {body}
         [] threshold >= 0 /\ ~dataLength.ok -> {}
         [] OTHER -> IF dataLength.got = <<0>> THEN {dataLength.left}
                     ELSE Inflated(dataLength.left, dataLength.got[1])

NoPacket == [class |-> "null", values |-> << >>]
Exception == [class |-> "exception", values |-> << >>]

ReceivePacketByPacketId(bytes) ==
    LET id == ReadVarInt(Reader(bytes))
        classes == {c \in Parsed(state) : Id[c] = id.got[1]}
        class == CHOOSE c \in classes : TRUE
        fields == FromStream(class, id.left)
    IN CASE ~id.ok -> Exception
         [] id.ok /\ classes = {} -> NoPacket
         [] OTHER -> IF fields.ok THEN [class |-> class, values |-> fields.got] ELSE Exception

\* What ExecNs answers before it receives the next packet.  The answers of
\* UpdatePacket, to a position or a death, come later, by the event queues
\* (see Client), and are like any packet here.
Answered == {"KeepAliveCB"}

After(p) == CASE p = Exception -> "ended"
              [] p.class \in Answered -> "reply"
              [] OTHER -> "length"

\* An exception ends the reading.
Outcome(p) ==
    /\ pc' = After(p)
    /\ IF conn = "reported" THEN afterEnd' = Append(afterEnd, p) /\ UNCHANGED received
       ELSE received' = Append(received, p) /\ UNCHANGED afterEnd

\* A plausible bug: the rest of a packet nobody has a class for stays in the
\* stream.
BodyUnread == /\ pc = "body" /\ Len(toClient) >= length
              /\ LET body == SubSeq(toClient, 1, length)
                     rest == SubSeq(toClient, length + 1, Len(toClient))
                 IN \E bytes \in Unpacked(body) :
                      LET p == ReceivePacketByPacketId(bytes)
                      IN /\ Outcome(p)
                         /\ toClient' = IF p = NoPacket THEN Tail(body) \o rest ELSE rest
              /\ UNCHANGED <<state, threshold, length, toServer, conn, frames, sent, serverGot>>

ReceiveBody == /\ pc = "body" /\ Len(toClient) >= length
               /\ toClient' = SubSeq(toClient, length + 1, Len(toClient))
               /\ LET all == Unpacked(SubSeq(toClient, 1, length))
                  IN \/ all = {} /\ Outcome(Exception)
                     \/ \E bytes \in all : Outcome(ReceivePacketByPacketId(bytes))
               /\ UNCHANGED <<state, threshold, length, toServer, conn, frames, sent, serverGot>>

\* ReceivePacket at the end of the stream, when it misses bytes.
Missing == \/ pc = "length" /\ ~ReadVarInt(Reader(toClient)).ok
           \/ pc = "body" /\ Len(toClient) < length

OutcomeAtEnd(p) == afterEnd' = Append(afterEnd, p) /\ pc' = After(p)

\* Socket::Read has received nothing when it gets the error: the byte of the
\* length is 0, or the body is all zeros.
ReceiveAtError ==
    /\ conn = "reset" /\ Missing
    /\ conn' = "reported" /\ toClient' = << >>
    /\ \/ /\ pc = "length" /\ pc' = "body"
          /\ length' = Last(ReadVarInt(Reader(Append(toClient, 0))).got)
          /\ UNCHANGED afterEnd
       \/ /\ pc = "body" /\ toClient = << >>
          /\ LET all == Unpacked([j \in 1..length |-> 0])
             IN \/ all = {} /\ OutcomeAtEnd(Exception)
                \/ \E bytes \in all : OutcomeAtEnd(ReceivePacketByPacketId(bytes))
          /\ UNCHANGED length
    /\ UNCHANGED <<state, threshold, toServer, frames, received, sent, serverGot>>

\* It gets the end, or the error when it has received a part and then the end.
ReceiveAtEnd ==
    /\ Missing
    /\ conn \in {"closed", "reported"} \/ (conn = "reset" /\ pc = "body" /\ toClient # << >>)
    /\ OutcomeAtEnd(Exception)
    /\ toClient' = << >>
    /\ UNCHANGED <<state, threshold, length, toServer, conn, frames, received, sent, serverGot>>

-----------------------------------------------------------------------------
(* SendPacket.                                                             *)

\* A plausible bug: the size in front does not count the empty data length.
PiecesUncounted(class, values) ==
    LET id == VarInt[Id[class]]
        fields == ToStream(class, values)
    IN IF threshold < 0 THEN <<VarInt[Len(id) + Len(fields)], id, fields>>
       ELSE <<VarInt[Len(id) + Len(fields)], VarInt[0], id, fields>>

\* A plausible bug: the size is written as one byte.
PiecesOneByte(class, values) ==
    LET id == VarInt[Id[class]]
        fields == ToStream(class, values)
    IN IF threshold < 0 THEN <<<<Len(id) + Len(fields)>>, id, fields>>
       ELSE <<<<Len(id) + 1 + Len(fields)>>, VarInt[0], id, fields>>

\* The writes of a packet; StreamCounter counts what is behind the size.
Pieces(class, values) ==
    LET id == VarInt[Id[class]]
        fields == ToStream(class, values)
    IN IF threshold < 0 THEN <<VarInt[Len(id) + Len(fields)], id, fields>>
       ELSE <<VarInt[Len(id) + 1 + Len(fields)], VarInt[0], id, fields>>

CountedSize(class, values) == Len(VarInt[Id[class]]) + 1 + Len(ToStream(class, values))

\* A plausible bug: a packet that should be compressed is sent as it is.
TooLargeNever(class, values) == FALSE

TooLarge(class, values) == threshold >= 0 /\ CountedSize(class, values) >= threshold

\* What is sent only to answer.
Answers == {"KeepAliveSB"}

Packet(class, values) == [class |-> class, values |-> values]

\* A large packet throws before anything is written; a write that fails
\* leaves what was written before it.  The exception ends the reading too.
SendPacket(class, values, next) ==
    LET bytes == FlattenSeq(Pieces(class, values))
    IN /\ \/ /\ ~TooLarge(class, values)
             /\ toServer' = toServer \o bytes
             /\ sent' = Append(sent, [packet |-> Packet(class, values), outcome |-> "sent"])
             /\ pc' = next
          \/ /\ TooLarge(class, values)
             /\ sent' = Append(sent, [packet |-> Packet(class, values), outcome |-> "refused"])
             /\ pc' = "ended"
             /\ UNCHANGED toServer
          \/ /\ ~TooLarge(class, values)
             /\ \E k \in 0..(Len(bytes) - 1) : toServer' = toServer \o SubSeq(bytes, 1, k)
             /\ sent' = Append(sent, [packet |-> Packet(class, values), outcome |-> "failed"])
             /\ pc' = "ended"
       /\ UNCHANGED <<state, threshold, length, toClient, conn, frames, received, afterEnd, serverGot>>

Send(class, n) == /\ pc = "length" /\ Len(sent) < MaxSends
                  /\ class \notin Answers    \* see Reply
                  /\ SendPacket(class, Kept(class, Samples(Written[class], n)), "length")

\* A plausible bug: the answer holds the low bytes of the id and no sign.
AnswerUnsigned(p) == Packet("KeepAliveSB", <<<<0, 0, 0, 0>> \o SubSeq(p.values[1], 5, 8)>>)

\* PacketKeepAliveSB takes an int.
Answer(p) == Packet("KeepAliveSB", <<ToInt(p.values[1])>>)

Reply == /\ pc = "reply"
         /\ LET a == Answer(Last(received)) IN SendPacket(a.class, a.values, "length")

-----------------------------------------------------------------------------
(* The server takes a packet out of what it was sent: the size, in the     *)
(* compressed format a zero, the id and the fields of the class.  It does  *)
(* not accept one it asked to compress: the threshold counts id and fields. *)
ServerClass(id) == CHOOSE c \in DOMAIN Written : c \in Sendable /\ Id[c] = id

ServerReceive ==
    LET size == ReadVarInt(Reader(toServer))
        body == Reader(SubSeq(size.left, 1, Last(size.got)))
        packet == IF threshold < 0 THEN body ELSE ReadVarInt(body)
        head == ReadVarInt(packet)
        small == threshold < 0 \/ Len(packet.left) < threshold
        class == ServerClass(Last(head.got))
        fields == ReadFields(Reader(head.left), Written[class])
    IN /\ size.ok /\ Last(size.got) <= Len(size.left)
       /\ toServer' = SubSeq(size.left, Last(size.got) + 1, Len(size.left))
       /\ serverGot' = Append(serverGot,
                              IF small /\ fields.ok /\ fields.left = << >> THEN Packet(class, fields.got)
                              ELSE Exception)
       /\ UNCHANGED <<state, threshold, pc, length, toClient, conn, frames, received, afterEnd, sent>>

-----------------------------------------------------------------------------
Client == \/ ReceiveLength \/ ReceiveBody \/ ReceiveAtError \/ ReceiveAtEnd \/ Reply
          \/ \E class \in Sendable, n \in Ns : Send(class, n)

Server == \/ ServerReceive
          \/ \E how \in {"closed", "reset"} : ConnectionEnds(how)
          \/ \E class \in First \cup Later, n \in Ns, content \in Contents, packing \in Packings :
                 ServerSend(class, n, content, packing)

Next == Client \/ Server

Spec == Init /\ [][Next]_vars

-----------------------------------------------------------------------------
(***************************************************************************)
(* Properties                                                              *)
(***************************************************************************)

(* Every variable has its type, and bytes are bytes.                       *)
TypeOK ==
    /\ state \in States /\ threshold \in Thresholds
    /\ pc \in {"length", "body", "reply", "ended"} /\ length \in Nat
    /\ {toClient, toServer} \subseteq Seq(Bytes)
    /\ \A k \in DOMAIN received :
          received[k].class \in Parsed(state) \cup {"null", "exception"}
    /\ \A k \in DOMAIN sent : sent[k].outcome \in {"sent", "refused", "failed"}
    /\ Len(received) <= Len(frames)
    /\ conn \in {"open", "closed", "reset", "reported"}
    /\ \A k \in DOMAIN afterEnd : afterEnd[k].class \in Parsed(state) \cup {"exception"}

(* Whatever is in a packet, the next one is read from its first byte: after *)
(* an unknown id, after more data than the class reads, after damaged zlib *)
(* data, and also after an exception the stream stands between two packets *)
(* (network.cpp:21-76).                                                    *)
FrameAligned ==
    (pc # "body" /\ afterEnd = << >>) =>
        LET left == FlattenSeq([k \in 1..(Len(frames) - Len(received)) |->
                                    frames[Len(received) + k].bytes])
        IN IF conn = "open" THEN toClient = left ELSE IsPrefix(toClient, left)

\* A list of slots that holds an item.
HasItem(f) == f.class \in {"WindowItems", "SetSlot"}
                  /\ \E i \in DOMAIN f.values : Len(f.values[i]) = 5

\* What is read of a packet: of a list of slots, whose NBT data ReadSlot does
\* not read, only as far as the first item; and as the last field, the NBT
\* data of a slot is not missed.
ReadAs(f, values) ==
    IF f.class = "WindowItems" /\ HasItem(f)
    THEN LET first == Min({i \in DOMAIN f.values : Len(f.values[i]) = 5})
         IN Len(values) = Len(f.values) /\ IsPrefix(SubSeq(f.values, 1, first), values)
    ELSE values = Kept(f.class, f.values)

\* The data ends before what the class reads.
EndsEarly(f) == f.packing = "tooShort" \/ (f.content = "cut" /\ ~HasItem(f))

\* A list of slots read from the wrong byte on may also run out of data.
Expected(f, p) ==
    CASE EndsEarly(f) \/ Rejected(f.class, f.values) -> p = Exception
      [] ~EndsEarly(f) /\ f.class = "EntityAnimationCB" -> p = NoPacket
      [] OTHER -> \/ p.class = f.class /\ ReadAs(f, p.values)
                  \/ p = Exception /\ f.class = "WindowItems" /\ HasItem(f)

\* Of damaged zlib data a packet may become anything.
Allowed(f, p) == f.packing = "damaged" \/ Expected(f, p)

\* A packet of zeros: the one with the id 0, all its fields zero or empty.
Zeros(p) == /\ p.class \in DOMAIN Fields /\ Id[p.class] = 0
            /\ LET bytes == WriteFields(Fields[p.class], p.values)
               IN \A i \in DOMAIN bytes : bytes[i] = 0

Channel == INSTANCE PacketChannel WITH
    Exception <- Exception, Allowed <- Allowed, IsGhost <- Zeros,
    underWay <- IF afterEnd # << >> THEN << >> ELSE SubSeq(frames, Len(received) + 1, Len(frames)),
    returned <- received \o afterEnd,
    phase <- CASE pc = "ended" -> "over"
               [] pc # "ended" /\ conn = "reported" -> IF afterEnd = << >> THEN "reset" ELSE "closed"
               [] OTHER -> conn

(* Network implements the channel of packets its owner relies on.  The k-th *)
(* packet the caller gets is the k-th the server sent, field by field, in  *)
(* both formats, with data to spare or announced too long; null is exactly *)
(* for an id without a class, and an exception for data that ends too      *)
(* early and for a text Chat throws at.  The payload of a pong is cut to   *)
(* an int.  Of damaged zlib data it may be something else, and a list      *)
(* of slots is right as far as the first item: the NBT data behind it is   *)
(* taken for the next slot, and the list may then run out of the packet,   *)
(* which is an exception.  When the connection ends the reader is told     *)
(* by an exception, after at most one packet of zeros that nobody sent and *)
(* only if it broke with an error (network.cpp:21-145, the FromStream of   *)
(* packet.hpp, stream.cpp:336-398, chat.cpp:19-28, socket.cpp:23-32).      *)
ImplementsChannel == Channel!ChanSpec

(* The size in front of a packet, counted in a pass of its own, is what is *)
(* then written: the server cuts the stream into exactly the packets that  *)
(* were sent, all of them, reads each completely, and finds none that is   *)
(* not compressed but as large as the threshold.  After a write that       *)
(* failed there is only a piece it never completes (network.cpp:78-102).   *)
SentIsFramed ==
    /\ \A k \in DOMAIN serverGot : /\ k \in DOMAIN sent /\ sent[k].outcome = "sent"
                                  /\ serverGot[k] = sent[k].packet
    /\ toServer = << >> =>
          \A k \in DOMAIN sent : sent[k].outcome = "sent" => k \in DOMAIN serverGot

FitsInt(long) == long = ToInt(long)

\* Those of a list of packets that are of some classes, in their order.
OfClasses(packets, classes) ==
    FlattenSeq([k \in DOMAIN packets |-> IF packets[k].class \in classes THEN <<packets[k]>>
                                         ELSE << >>])

(* Through the packets sent between them, the k-th keep-alive the server   *)
(* gets back answers the k-th one the client received, with its id if that *)
(* fits an int; of another it gets an id that is not the one it sent       *)
(* (networkclient.cpp:126-132; packet.hpp:1084-1099).                      *)
IdsEchoed ==
    LET answers == OfClasses(serverGot, Answers)
        asked == OfClasses(received, Answered)
    IN \A k \in DOMAIN answers :
         answers[k].values = asked[k].values <=> FitsInt(asked[k].values[1])
=============================================================================
