# Verification of cpp-mc-client

This directory holds TLA+ models of the Minecraft client in `src/`, the TLC
configurations that check them on small instances, and proofs, checked by
TLAPS, of the results that do not depend on the size of the instance. The
models are translated from the code; the line numbers in the comments of the
modules and in `PROJECT.json` (`map`) say from where.

## The system

The client logs in to a server of protocol 578, answers keep-alives and
position updates, prints chat, sends typed lines as chat, and reels in a
fishing rod when it hears a splash. It runs three threads.

| part | state it keeps | operations | talks to |
|---|---|---|---|
| **main thread** (`src/src/main.cpp`) | `isRunning` of `main`, the pointer to the client, a listener | construct the listener, `Connect`, register four handlers, spin on `HandleAllEvents` | event system; the client object |
| **input thread** (`handleInput`) | none | read a line, push an event | event system |
| **network thread** (`NetworkClient::ExecNs`, `UpdatePacket`) | `state`, `compressionThreshold`, `isRunning`, `timeOfLastKeepAlivePacket`, a listener | loop: handle events, receive one packet, answer a keep-alive or push the packet, test the timeout; catch an exception and end | event system; `Network` |
| **NetworkClient** (owner's side) | the same members | `ServerListPing`, `Connect`, the destructor that joins the thread | `Network`; the network thread |
| **event system** (`event.hpp`, `event.cpp`) | the static list of listeners and its mutex; in each listener two queues, the handlers and three mutexes | `PushEvent`, constructor, destructor, `RegisterHandler`, `HandleAllEvents`, `PollEvents`, `NotEmpty`; `HandleEvent` and `DirectEventCall` are never called | all threads |
| **Network** (`network.cpp`) | socket and stream | `ReceivePacket`, `SendPacket` in the plain and the compressed format | packet classes, streams, zlib |
| **streams and packet classes** (`stream.cpp`, `packet.hpp`) | position in a buffer, a count | field reads and writes; `ToStream`, `FromStream` | socket |
| **Socket** (`socket.cpp`) | the SDL_net socket | `Read` (a loop), `Write` (one call) | SDL_net |
| **chat and field conversions** (`chat.cpp`, parts of `stream.cpp`) | none | the text out of a chat's JSON; VarInts and positions to and from bits | packet classes |

Left aside: the arithmetic of the vector templates, `conn.hpp` (included
nowhere), and the vendored libraries.

### What is hard about it

* Three threads share one list of listeners and the queues in them, under four
  kinds of mutex, taken in different orders by `PollEvents` and by handlers
  that push. A deadlock, a dangling pointer to a destroyed listener or a lost
  event would show only in rare interleavings.
* A packet crosses up to three queues and two threads between the socket and
  its effect. Replies are pushed to the listener of the thread that is about
  to block in the next receive, so they wait for the server.
* The thread ends by an exception, from a handler too; what it pushes then, and
  what is left in its queues, goes nowhere.
* The format of packets changes in the middle of the login and the reader of
  the connection changes from one thread to another; the destructor joins a
  thread that blocks.
* Below, lengths are counted in a pass separate from the one that writes, data
  is read in pieces of any size, and an `int` result is stored in a `size_t`.
* The conversions have boundaries: VarInts of negative numbers, five bytes of
  room, signs packed into bits, JSON of a shape the code does not expect.

`PROJECT.json` lists each of these with its line, as `hazards`, and the
properties that cover it.

### What makes each part correct

* event system: every event is handled by every listener registered for it,
  once, in the order of the pushes; no deadlock; no pointer to a destroyed
  listener is used; mutexes are released on every path.
* threads: chats are printed, positions confirmed and lines sent once and in
  order, eventually, and late by a bounded number of packets only.
* NetworkClient: both ends agree on state and format of every packet; `Connect`
  returns only when the server accepted the name; the thread lives inside the
  object and the destructor returns.
* Network, streams, packets: packets are delivered as they were sent, whatever
  is in one of them does not shift the next; what is sent can be read.
* Socket: `Read` returns with the bytes asked for, and takes no others; `Write`
  throws unless all bytes went out.
* Conversions: what is read is what the server meant, and a message a server
  may send does not end the client. (The second half does not hold; the model
  says exactly for which messages.)

## The modules

| module | models | state ↔ code |
|---|---|---|
| `EventBus` | what the event system promises: one log of events, a cursor in it per listener | abstract: `PushEvent` is atomic, handlers run for the oldest event due |
| `EventSystem` | the event system lock by lock | `listeners`, `listenersMutex` are the static members; `handlers`, `events`, `rawEvents` and their mutexes those of each listener; `pc`, `pushAt`, `pushRest` are the program counters; `log` and `cursor` are history |
| `Client` | the three threads in the play state, with the server and the connection | `mainInbox`/`netInbox` are the raw queues, `mainBatch`/`netBatch` the queues of the `HandleAllEvents` under way, `mainPushes`/`netPushes` the pushes a handler has still to make; `netPc` is the place in `ExecNs`; `repeating` is the line `handleInput` pushes over and over after the end of its input; the logs and lags are history |
| `Session` | ping, login, start and join of the network thread against the protocol's server | `mainPc` is the place in `ServerListPing`, `Connect` or the destructor; `state`, `compressionThreshold`, `isRunning` are the members; `serverState`, `serverThreshold` what the other end believes |
| `PacketChannel` | what `Network` promises of the packets received: one by one, in order, each as one of the results its content allows; how it may end | abstract |
| `Packets` | the bytes: VarInts, strings, slots, the layout and id of the packet classes | no variables; functions and tables |
| `Framing` | `ReceivePacket` and `SendPacket` over those bytes, on a connection that may be closed or break between any two of them | `toClient`, `toServer` are the bytes under way, `length` the length read; `frames`, `received`, `afterEnd`, `sent`, `serverGot` are history |
| `Socket` | `Socket::Read`, `Socket::Write` and the errors of SDL_net | `buffer`, `totalReceived` are the caller's buffer and the local; a byte is its position in the stream |
| `Conversions` | `ReadVarInt` and `WriteVarInt` group by group on an int of fixed width, `ReadPosition` and `WritePosition`, the walk of `Chat` through the JSON | `data`, `readed`, `result`, `buff` are the locals; `todo` is the stack of the function `Recursive` |
| `ChatText` | what a message means, by recursive functions over its JSON, and what `Conversions` makes of it | no variables |

The proofs are in modules of their own:

| module | proves about |
|---|---|
| `Basics` | numbers, recursion and sequences, see below; the others rest on it |
| `EventSystemProofs` | `EventSystem`, and that it implements `EventBus` |
| `SocketProofs` | `Socket` |
| `SessionProofs` | `Session`: who reads the connection and how far the login is; then which format each packet under way will be read in |
| `ClientProofs` | `Client`: where an event is and how many packets that makes it wait; then order and completeness of the chats, the lines and the replies |
| `PacketsProofs` | the functions of `Packets`: a reader undoes its writer |
| `FramingProofs` | `Framing`, on top of `PacketsProofs` |
| `ConversionsProofs` | `Conversions`: VarInts and positions; the walk of `Chat`, with `ChatText` |

How they fit together: `EventSystem` is shown, by TLC and by proof, to
implement `EventBus`; `Client` uses the event system at the level of `EventBus`
(a push is one step), which that result justifies. `Client` and `Session` take
packets as names in FIFO channels; `Framing` is shown to implement such a
channel, `PacketChannel` (`ImplementsChannel`): a step of the bytes is a packet
put or got, the end of the channel, or nothing. `Socket` shows that the reads
`Framing` takes as whole are, and what an error makes of them. `Conversions` is
below `Packets`, which takes the value of a field for its bytes. Modules named
`MC...` give the constants for TLC.

Definitions named after a property's opposite and commented "a plausible bug"
are variants of the definition after them. They are used by no specification;
putting one in the place of the definition it varies makes TLC report the
property that `PROJECT.json` lists with it (`mutants`).

## What the runs check

| run | instance | shows |
|---|---|---|
| `event_system` | 3 threads, 2 of them with listeners, 2 event ids, 3 pushes | no wait cycle, no dangling listener, nothing lost, push order, mutexes released on all paths; every step is a step of `EventBus` |
| `event_system_live` | 2 threads, 1 listener, pushes without end of which 4 are remembered | an event is handled although another thread, and the handlers themselves, push for ever |
| `client_replies` | 2 packets of those that cause replies, 1 line | chats printed, positions confirmed and a health below one answered, once and in order; a reply waits for exactly one more packet |
| `client_lines` | 1 packet of any kind, 2 lines, any packet refused | lines in order; none lost before the thread ends; late by one or two packets; main never hears of the end of the thread |
| `client_live` | 1 packet, 1 line, and a line repeated for ever after the end of the input | a line heard is sent, a position confirmed and a keep-alive answered, unless the thread ends |
| `session` | compression off or on, 3 packets under way, exceptions on an open connection | both ends agree on state and format; login only when accepted; a pinged connection cannot log in; the thread lives inside the object; the login ends and the destructor returns |
| `framing` | every class that can be parsed, in 3 states, both formats; whole, short, long, damaged data and texts `Chat` rejects; then a second packet; the connection closed or broken anywhere | the byte stream implements the channel of packets and stays aligned |
| `framing_send` | every class written in the play state around the threshold, failing writes, two keep-alives | the size counted is the size written; the server reads what was sent and would have none of it compressed; ids echoed |
| `socket` | buffers up to 4, stream of 8, errors, 2 writes | a call without an error is complete and aligned for every way the data is cut; an error makes the count fall behind the data, never run ahead |
| `socket_doc` | buffers up to 3, stream of 6, errors | expected to fail, see below |
| `conversions` | every int of 9 bits in all its encodings, every position of 4 + 3 + 4 bits in both layouts, messages of up to six levels of JSON | what each field is read as, what is written back, and exactly where the conversions go wrong |

`CHECK_DEADLOCK FALSE` is in every configuration because the bounded models may
stop: pushes, packets and lines are used up, the program ends, or a receive
blocks. Deadlock of the mutexes is the invariant `NoWaitCycle` instead, which
also finds a circle of two threads while a third runs on.

### Bounds

* `MaxPush` (3): the events that exist. Two events show an order; the third is
  needed for one event in each queue with one on its way.
* `MaxPush` (4) of `event_system_live`: there the pushes never end. A push that
  no queue, handler or push under way still holds is forgotten and the others
  are renumbered (`Forget`), so the bound is on those remembered at a time, and
  one event at a time is marked and followed. A bound on all pushes would take
  the starvation out that the property is about.
* `MaxPackets`, `MaxLines` (1 or 2), `Capacity` of `Client` (1 or 2): the
  packets, other than keep-alives, and lines. Keep-alives are not bounded, so
  the loop of the network thread goes round for ever. Two packets show
  overtaking and delay, two lines show what follows a line that is refused;
  `SendPacket` may refuse, or fail to write, any packet.
  The proofs remove these bounds for all safety properties.
* `MaxRepeats` (0 or 1): the inbox of the network thread while a line is
  repeated. The code has no such bound; with 1 there is a new line in every
  round of the thread, which is what could starve it. That the queue grows
  without a limit as long as the input repeats is cut by this bound and is no
  result of the runs.
* `TimeoutAge` (0): ticks after which the 60 s are over. With 0 the timeout is
  possible at any receive.
* `Capacity` of `Session` (3): the ping and the login have at most two packets
  of the client under way; three allow packets of the next state behind them.
* `Radix` (4, in the code 128): the flag bit of a VarInt. Lengths up to 3 take
  one byte, up to 15 two and above three, so all paths of `ReadVarInt` and
  every position of a length are met with short packets. `Ns` are chosen on
  each side of these steps and of the threshold (24); a list of two slots is one
  that runs out of its packet. `ReadsChat`: which texts `Chat` accepts; here
  the empty text and one length are rejected, so that each class with a text
  meets both. `Scraps`: two contents that damaged zlib data may leave besides
  every start of the true one.
* `MaxFrames` (2), `MaxSends` (0 or 2): one packet and the next, which shows a
  stream that has shifted. `BreakAfter` (1), `CutWithin` (3): the connection
  ends after at most one packet was sent, and of the bytes under way it lets
  through three at most, or all, or all but the last: it ends in the length, in
  the data length, in the body or behind it.
* `SizeLimit` (8, in the code 2^64), `MaxBuffLen`, `MaxStream`, `MaxWrites`
  (2): wrap-around is met as soon as the limit is above the buffer length.
* `IntBits` 9, `GroupBits` 2, `MaxLength` 5 (in the code 32, 7 and 5): the ratio
  is kept in that five groups are more than the int and four are less.
  `BitsXZ` 4, `BitsY` 3 (26 and 12): y is the narrower, all signs occur.
* `Messages`: a plain string, a list, and components with each key `Chat` looks
  at, whose two parts are of seven shapes each and may share a text; lines of
  players with every pair of these shapes as their arguments. With the lists,
  the objects and the strings in them that makes six levels of JSON; `Levels`
  (6) is the first number below which there is nothing.

### Fairness

* Event system: a thread in its loop keeps running `HandleAllEvents` and a push
  under way goes on. A thread that waits for a mutex others take and release
  gets it in the end, against a thread that pushes for ever (strong fairness of
  the steps that take a mutex, and so of `HandleAllEvents` as a whole;
  `std::mutex` gives no such guarantee, common implementations do). Nobody has
  to push, to leave the loop or to throw.
* `Client`: main and network thread run; a server that has not closed the
  connection goes on sending keep-alives. That is the protocol's server, and
  the liveness properties need it: the loop of the network thread is driven by
  packets only. Lines, other packets, closing and time are not fair.
* `Session`: the join, the owner's receive, the network thread, and the
  server's reads and keep-alives are fair. A server closes a connection that
  does not get through its login (the protocol's server gives up after 30 s);
  the client has no timeout there. The owner need not destroy the object.

## What is proved

All constants are arbitrary within the assumptions named in the modules.

**Event system** (`EventSystemProofs`), for any set of threads, any subset of
owners, any handlers and any number of pushes, from `ThreadAssumption` and
`KindAssumption`:

1. `TypeCorrect`: `TypeOK` is inductive.
2. `LockInv` says which program counters hold which mutexes and what a push
   under way has still to visit. From it follow `LocksDisciplined`,
   `ListenersAlive` and `DeadlockFree`. The last argument: a thread that polls
   or handles waits only for mutexes nobody else takes, a push that goes
   through the list waits at most for a thread that polls, and the others wait
   at most for the holder of the list; so no set of threads waits in itself.
3. `NothingLost` is not inductive: it compares sets, and moving an event needs
   that the queues are sorted and that both are beyond the cursor.
   `QueueInv` adds that, and `SetupInv` that a listener past its setup has all
   its handlers (otherwise a poll would drop events). `IInv` is their
   conjunction (`InductiveInvariant`), from which `NothingIsLost`,
   `HandledInPushOrder` and `Refinement` follow.
4. `Refinement`: `Spec => ImplementsBus`. A handler call is `Deliver`, the
   constructor's push_back is `Join`, taking `listenersMutex` in a push is
   `Publish`, the destructor's remove is `Leave`, all else stutters.

**Socket** (`SocketProofs`), for any buffer length, stream, cut of the data and
set of errors: `ReadReturnsAll`, `ReadsAreAligned` (a call in which no error was
reported, after any earlier calls) and `CountStaysBehind` (whatever is
reported). The invariant relates the count to the buffer and the stream, with
the wrap as a case of its own.

**Session** (`SessionProofs`), for any thresholds and any
capacity of at least two, from `SessionAssumption`:

1. `OwnerInv` says that there is no thread and `isRunning` is false before the
   login is over; `LoginInv` that a server that has left the handshake never
   goes back to it, and that a success with the right name under way was sent
   by a server that has accepted it. With `TypeOK` they are inductive
   (`SessionInvariant`); `TypeCorrect`, `ThreadStaysInside` and
   `LoginIsAccepted` follow.
2. `ReadAsWritten` speaks of the first packet only and is not inductive. `FlowInv`
   describes all packets under way to the client: a chain of states and formats
   that begins with what the client expects now, changes behind the packets
   that change it, and ends with what the server writes in. `SentInv` lists what
   can be under way to the server in each place of the login, `PingInv` the
   same for a ping; `PhaseInv`, `StampInv` and `EarlyInv` tie the members and
   the server to these places. Together they are inductive (`FlowInvariant`),
   and `ClientReadsAsWritten`, `ServerReadsAsWritten` and `PingExcludesLogin`
   follow.

**Client** (`ClientProofs`), for any number of packets and lines, any capacity
and repertoire, whichever packets are refused, from `ClientAssumption`:

1. `ReplyLag` and `LineLag` are about the step that sends. They follow from
   `QueueInv`: the queue an event is in, together with the place of the network
   thread in its loop, tells how many packets were read since its cause.
   `ThreadInv` and `ChannelInv` add the types and which ids can be in which
   queue. `TypeCorrect`, `EndIsUnheard`, `RepliesWait` and `LinesWait` follow.
2. `ChatsInOrder`: `WireInv` says that the connection holds just the packets
   behind the one read last, `KindInv` that an event's number belongs to a
   packet of its kind, `ChatInv` that the stages a chat passes (printed, main's
   batch and inbox, the pushes of the handler, the thread's batch and inbox)
   are each increasing, each below the next, and together all the chats read.
   Every step moves events from the front of a stage to the end of the one
   before it, or removes what the property does not count. When the thread ends
   its stages are dropped, and what is left is a start of all.
3. `LinesInOrder`, `RepliesInOrder`: a line and a reply pass the same six stages
   (written; queued as `SendPacket` in the batch, the inbox, the pushes; asked
   for in the batch and the inbox), so one set of lemmas on that pipe serves
   both, with `LineInv` and `ReplyInv` (with `QuestionInv`, which a position
   needs since it has two replies) for what is in it.

The properties on order are stated by the numbers at the places of a queue
(`Increasing`, `Below`, `StartOf`) and not by filtered sequences, and the lemmas
of `Basics` on taking from the front and adding at the end serve all of them.

**Packets** (`PacketsProofs`), for any radix above 1, from `RadixAssumption`:

1. `ReadUndoesWrite`: of each of the kinds of fields, whatever its value and
   whatever follows it, a read gives the value that was written and stops
   behind its last byte. `FieldsUndone` extends it to the fields of a packet.
2. They rest on the VarInt: its last byte and no other is below `Radix`, and the
   groups put together are the number. Both are inductions over the number.
   The library's induction theorems take an operator as a parameter, which the
   installed provers cannot instantiate; `Basics` does without them: the set
   of the numbers for which a fact fails has a least member
   (`WellFoundedInduction`, stated for sets), which is then refuted. In the
   same way `Recursion` shows that a function defined by recursion on a rank
   exists, which is what justifies unfolding `VarInt`, `Value`, the fields read
   so far and the concatenation of a sequence of sequences.

**Framing** (`FramingProofs`), for any packets of any lengths, any thresholds
and any bounds, from `FramingAssumption`:

1. `FrameAligned` speaks of the moments between two packets and is not
   inductive. `ReceivingInv` also covers the moment in which a length was read
   and its body is still to come: with that length put back in front, what is
   unread is the frames behind the packets returned, of which only the end of
   the connection may have cut the rest off; each frame is a body behind its
   own length (`ReceivingInvariant`). A step takes one frame from the front,
   because a VarInt that was read is the one that was written and the first
   so many bytes of two equal sequences are equal. `StandsBetweenFrames` is
   the case between two packets.
2. `SendingInv` is the other direction: the packets sent and not yet got, each
   behind its size, and behind them at most the piece of the one whose write
   failed, which is the last since its exception ended the thread
   (`SendingInvariant`). A reader that waits for the whole of a packet never
   takes a piece, because a piece of a number is not a number. `SentArrives`
   follows with `FieldsUndone`. The server there has a threshold of its own: a
   packet whose id and fields reach it must be compressed. None does, because
   what `SendPacket` compares with the threshold is one byte more.
3. `IdsEchoed` compares the k-th keep-alive the server got back with the k-th
   one the client received. `AnswersGiven` adds that the answers sent are those to
   the keep-alives received, in their order, except the one under way
   in place "reply"; the answers got are a start of the answers sent
   (`AnswersEchoIds`). `FramingTyped` collects the types. Positions are not in
   it: their confirmations come through the event queues, a keep-alive received
   in between is answered before them, and their order is a matter of `Client`
   (`RepliesInOrder`).
4. `ImplementsChannel`: `ReceivingInv` gives the frame a body belongs to, and
   `FramesMade` that the server may send that frame: its bytes are the id and
   values of a class, whole, cut or with data to spare, packed as it says.
   `FrameAllowed` is then about this one frame. Whether `Chat` throws at a text
   is any predicate that rejects the empty one (`ChatAssumption`). What is
   unpacked of it is what was packed, perhaps with zeros behind it, or nothing
   (`Unpacking`). Without an item in a slot the server writes what the client
   reads (`NoItemServed`); with one they agree up to it (`FirstItemServed`).
   Fields that are all there are read whatever follows (`FieldsUndone`), and of
   data that lacks its last byte not all of them are, as reads that succeed on
   a part of some data give the same on all of it (`PartRead`, `CutRead`). The
   packet behind an error is one of zeros because a class with the id 0 has
   plain fields, and reads of zeros give values that are written as zeros
   (`GhostIsZeros`). With one lemma for each step of the channel,
   `DeliversPackets` follows: every step of `Framing` is one of them or changes
   nothing the channel sees. Two mistakes of the models came to light in this
   way: an announced length of 0, which in the protocol says that the data is
   not compressed, was sent for data that is too short, and `Expected` did not
   let a list of slots run out of data.

**Conversions** (`ConversionsProofs`), for every width of an int and of a group
of which the last is cut by the int or just fits (`ConversionsAssumption`; in
the code 32 bits, 7, and 5 groups), and every width of the parts of a position:

1. `VarIntsRead` is about the end of a loop. `VarIntInv` adds that the bytes in
   the buffer and on the wire are an encoding of the value, and that behind
   `readed` groups the result is the value modulo their weight, both taken
   modulo the int; the last group, which the int cuts, is why both are needed.
   For `WriteVarInt` it adds that the rest is the value divided by the weight
   of what is written, and that the rest of a negative number stays negative.
   `VarIntsAreRead` and `VarIntsAreEchoed` follow.
2. `PositionInv` says what the long on the wire is made of. `PositionsAreRead`
   is arithmetic on its three parts. The proof system has no facts on products
   and remainders, so those that are needed are proved first.
3. `ChatsAreRead` is about messages of any number, size, depth and shape, from
   `MessagesAssumption`: a message has an end (the packet that carries it has
   one; `Levels` is any number its levels stay below), a value is plain, a list
   or an object with keys of `KeyOrder`, and as in the messages of the protocol
   a color and the key of a translation are plain and what is shown under the
   pointer is alone in its object. `Down` exists by induction over the levels,
   and the lowest level a value is found at is a rank by which `Displayed` and
   `Inside` exist (`Recursion`). They are then unfolded one level at a time
   only, as the walk does: `Pending` is what the visits on the stack will show,
   and `PendingChildren` that putting the visits of the parts in the place of a
   visit changes neither how often each text is in it (`Times`, a count which
   is added up over concatenations), nor, where nothing belongs to a text, the
   order. `Walking`, the invariant, says that what is printed and what is
   pending together are what is displayed, in that sense, and that the walk
   will meet a text it throws at (`Odd`) exactly if there is one in the message
   (`Numbered`). At the end nothing is pending.

   An earlier statement of this property could not be proved because it was
   wrong, and the messages TLC was given did not show it: a line of a player
   has the first text of the name only, and neither what is appended to the
   name or shown under it, as servers do send, nor a number among that, which
   the walk would throw at. `ChatsRead` says so now, and counts a text that is
   there twice twice, which it did not.

With these, every safety invariant, action property and refinement the passing
runs check is a theorem. Only model-checked is the liveness, which is out of
the reach of the installed provers: `EventuallyHandled`, `DestructionEnds`,
`LoginEnds`, `LineEventuallySent`, `TeleportEventuallyConfirmed` and
`KeepAliveAnswered`.

## What was found

* `socket.cpp:26`: the `int` result of `SDLNet_TCP_Recv` is stored in a
  `size_t`, so an error (-1) is not noticed; when nothing was received yet the
  count wraps and `Read` returns normally with nothing in the buffer, where
  `socket.hpp:33` promises that it does not return before all data is there
  (run `socket_doc`).

Facts the models state that a maintainer may not expect:

* the network thread's end, the 60 s timeout and a kick reach nobody
  (`EndUnheard`);
* a confirmation of a position waits for another packet (`ReplyLag`);
* a connection used for a ping cannot be used to log in (`PingSpoilsConnect`);
* at the end of its input `handleInput` pushes its last line for ever; the
  network thread still gets to its connection (`KeepAliveAnswered`), but sends
  that line in every round;
* a health between 0 and 1 is answered by a respawn (`RepliesInOrder`);
* a keep-alive id that does not fit an `int` is answered with another id
  (`IdsEchoed`);
* a packet is refused one byte below the server's threshold, which is the safe
  side (`SentIsFramed`);
* the payload of a pong is cut to an `int` (`ImplementsChannel`);
* after a connection reset one packet of zeros that nobody sent may be returned
  before the exception (`ImplementsChannel`);
* a list of slots is right as far as its first item only, and if few slots
  follow that item, the reader runs out of the packet and throws, which ends
  the network thread (`ImplementsChannel`);
* `WriteVarInt` never ends for a negative number: it runs past its five bytes
  (`VarIntsEchoed`); `ReadVarInt` reads what a server writes of one
  (`VarIntsRead`);
* positions are read and written with y in the middle, where protocol 578 has
  it at the end (`PositionsRead`);
* a message that is a plain string or a list, one with a number for a text, and
  a player's line whose message has parts throw in the network thread, which
  ends by it; what is appended to a text is printed before it, what a display
  shows under the pointer only is printed too, and of a player's name only its
  first text is (`ChatsRead`).

## Abstractions

* `EventSystem`: the order of the list of listeners (a push visits a set); the
  payload of events; critical sections without an inner lock are one step. A
  mutex is never taken twice by one thread: `NoWaitCycle` covers it.
* `Client`: a malformed packet is one whose parsing throws; the packets
  `UpdatePacket` does nothing with are the name "other"; a health is one of 0,
  1 and 2 halves, named "dead", "faint" and "hurt"; `isRunning` is read as it
  was last written (it is a plain `bool`). The destructor of the client runs in
  `Session`; here a dropped client ends the loop. It need not be composed with
  `Session`: main drops the client only at a `Disconnect`, which never reaches
  it (`EndUnheard`, proved).
* `Session`: one threshold per connection; other play packets are "unknown".
  An exception may end the network thread at any packet, also on an open
  connection: one too large to send, one whose bytes run out, a text `Chat`
  rejects. The cast of another packet to `PacketLoginSuccess` is undefined:
  either it ends the program or the client goes on as if logged in (`miscast`),
  and `ReadAsWritten`, `ServerUnderstands` and `AcceptedBeforePlay` say nothing
  of a client that went on that way. `isRunning` is read as last written; a
  build that takes the load out of the loop, as the data race on it allows, is
  not covered.
* `Packets`: the bytes of a field stand for its value, cut to an `int` in the
  payload of a ping and a pong; which texts `Chat` throws at is a constant
  (`ReadsChat`), since `Conversions` is what says which. The VarInts of the
  classes modelled are natural numbers, as servers send them. `ReadVarInt` has
  room for five bytes and no limit on them, and puts them into an `int`: what
  negative numbers become is in `Conversions`; longer ones overrun its array,
  which is undefined, and are outside of the models.
* The server writes a slot with the end of its NBT data, as `WriteSlot` does;
  `ReadSlot` does not read it. Deflate is a stand-in that can be undone and
  detects damage. The buffer damaged data leaves is any start of the true bytes
  or one of `Scraps`, with zeros behind it; `Scraps` is any set of sequences in
  which no VarInt has five bytes or more, for the reason just given.
* `Framing`: what it answers by itself are keep-alives, in `ExecNs`. The
  confirmation of a position and the respawns go through the event queues, so
  that a keep-alive may overtake them; `Client` has that, and here they are
  packets sent at any time between two receives. A receive is two steps, the
  length and the body, since `Socket` gives whole reads; an error is reported
  once, as TCP does, and met by the read under way; an exception ends the use
  of the connection, as it does in both callers; `StreamCounter` is the length
  of what is written.
* `Conversions`: JSON is a tree with the seven keys that matter; a width is a
  constant. `Chat` puts spaces between the texts; here they are a sequence.

Not modelled: `HandleEvent`, `DirectEventCall`, `signalHandler` and `doStuff`
(nothing calls them), the logger, the constructors and destructors that are
library calls, `ReadVarLong`, `EntityMetadata` and the NBT reads (stubs that
return or throw), `PacketBossBar` and `PacketOpenWindow` (nothing builds them),
the arithmetic of vectors (nothing built calls it), the byte order of numbers
(it permutes the bytes of one field), `conn.hpp`, vendored code.

## Plan

In this order; what is done is marked.

1. **done** `EventBus`, `EventSystem`, the refinement, its proofs.
2. **done** `Client`, composing the threads over `EventBus`; the end of the
   input and the health below one.
3. **done** `Socket` with its errors and `Write`, and its proofs.
4. **done** `Session`, with the end of a login that is not answered.
5. **done** `Packets`, `Framing`, on a connection that may end anywhere.
6. **done** `PacketChannel`, and that `Framing` implements it.
7. **done** `Conversions`: VarInts and positions with widths and signs, chat.
8. **done** Proofs: all safety properties of `Session` and `Client`.
9. **done** Proofs: `Packets`, the invariants of `Framing`, VarInts and
   positions of `Conversions`.
10. **done** Proof: `Framing` implements `PacketChannel`, for packets of any length.
11. **done** Proof: `ChatsRead`, for messages of any size and shape.
