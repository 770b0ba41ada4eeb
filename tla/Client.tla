------------------------------- MODULE Client -------------------------------
(***************************************************************************)
(* The running client after a successful login: the main thread            *)
(* (src/src/main.cpp), the input thread (handleInput), the network thread  *)
(* (NetworkClient::ExecNs and UpdatePacket, src/src/networkclient.cpp), the *)
(* two listeners they talk through, and the server at the other end.       *)
(*                                                                         *)
(* The event system is used at the level of EventBus, which EventSystem    *)
(* implements: a push reaches the registered listeners that handle its id  *)
(* at once.  HandleAllEvents is kept as the code has it: what is in the    *)
(* inbox when it polls becomes the batch it handles, and what a handler    *)
(* pushes waits for the next call.                                         *)
(*                                                                         *)
(* A packet or a line is a name and the number that identifies it: packets *)
(* other than keep-alives are numbered in the order the server sends them, *)
(* lines in the order they are typed.  A line handleInput repeats after    *)
(* the end of the input has the number 0 and leaves no trace in the        *)
(* history.                                                                *)
(***************************************************************************)
EXTENDS Integers, SequencesExt

CONSTANTS MaxPackets,   \* bound on the packets, other than keep-alives, sent
          MaxLines,     \* bound on the lines typed
          Capacity,     \* bound on the packets under way to the client
          TimeoutAge,   \* the 60 s without a keep-alive, in ticks
          Repertoire,   \* the packets the server may send
          MaxRepeats    \* bound on the inbox while a line is repeated; 0: the
                        \* input does not end

\* The packets named for the health they set, in halves.
Health == [dead |-> 0, faint |-> 1, hurt |-> 2]

PacketNames == {"chat", "posLook", "sound", "splash", "disconnect", "other", "unparsed",
                "malformed"} \cup DOMAIN Health

ASSUME ClientAssumption == /\ {MaxPackets, MaxLines, MaxRepeats} \subseteq Nat
                           /\ TimeoutAge \in Nat /\ Capacity \in Nat \ {0}
                           /\ Repertoire \subseteq PacketNames

VARIABLES
    mainInbox, mainBatch, mainPushes,   \* listener of main, pushes of its handler
    clientAlive, mainRunning,           \* network_client, isRunning of main()
    repeating,                          \* at the end of the input: the last line
    netPc,                              \* where the network thread is
    netInbox, netBatch, netPushes,      \* its listener, pushes of its handler
    age,                                \* ticks since timeOfLastKeepAlivePacket
    toClient, closed,                   \* the connection
    serverLog, read,                    \* history: names sent, how many were read
    lineLog, missed,                    \* history: lines typed, before the listener
    written, printed,                   \* history: packets sent, chats logged
    lag, lineLag                        \* history: packets read since

mainVars == <<mainInbox, mainBatch, mainPushes, clientAlive, mainRunning, repeating>>
netVars == <<netPc, netInbox, netBatch, netPushes, age>>
connVars == <<toClient, closed>>
history == <<serverLog, read, lineLog, missed, written, printed, lag, lineLag>>
vars == <<mainVars, netVars, connVars, history>>

Item(name, n) == [name |-> name, n |-> n]
Event(id, arg) == [id |-> id, arg |-> arg]
None == Item("none", 0)

-----------------------------------------------------------------------------
(* PUSH_EVENT, as EventBus has it: the listener of main lives as long as   *)
(* the program; that of the network thread from its start to its end.      *)
MainHandles == {"Exit", "Disconnect", "ReceivedChatMessage", "SoundEffect"}
NetHandles == {"SendPacket", "ReceivedPacket", "SendChatMessage", "NetworkClientException"}

NetListens == netPc \notin {"off", "gone"}

Push(e) ==
    /\ mainInbox' = IF e.id \in MainHandles THEN Append(mainInbox, e) ELSE mainInbox
    /\ netInbox' = IF e.id \in NetHandles /\ NetListens THEN Append(netInbox, e) ELSE netInbox

Init == /\ mainInbox = << >> /\ mainBatch = << >> /\ mainPushes = << >>
        /\ clientAlive = TRUE /\ mainRunning = TRUE /\ repeating = "none"
        /\ netPc = "off" /\ netInbox = << >> /\ netBatch = << >> /\ netPushes = << >>
        /\ age = 0
        /\ toClient = << >> /\ closed = FALSE
        /\ serverLog = << >> /\ read = 0 /\ lineLog = << >> /\ missed = 0
        /\ written = << >> /\ printed = << >>
        /\ lag = [n \in 1 .. MaxPackets |-> 0]
        /\ lineLag = [n \in 1 .. MaxLines |-> 0]

-----------------------------------------------------------------------------
\* A plausible bug: the events polled are copied, not moved.
MainPollCopies == /\ mainRunning
                  /\ mainBatch = << >> /\ mainPushes = << >>
                  /\ mainInbox # << >>
                  /\ mainBatch' = mainInbox
                  /\ UNCHANGED <<mainInbox, mainPushes, clientAlive, mainRunning, repeating, netVars,
                                 connVars, history>>

(* The main thread spins on HandleAllEvents.                               *)
MainPoll == /\ mainRunning
            /\ mainBatch = << >> /\ mainPushes = << >>
            /\ mainInbox # << >>
            /\ mainBatch' = mainInbox
            /\ mainInbox' = << >>
            /\ UNCHANGED <<mainPushes, clientAlive, mainRunning, repeating, netVars, connVars, history>>

\* The four handlers main registers; a splash makes it use the fishing rod.
MainHandle == /\ mainBatch # << >> /\ mainPushes = << >>
              /\ mainBatch' = Tail(mainBatch)
              /\ LET e == Head(mainBatch) IN
                   /\ mainRunning' = (mainRunning /\ e.id # "Exit")
                   /\ clientAlive' = (clientAlive /\ e.id # "Disconnect")
                   /\ printed' = IF e.id = "ReceivedChatMessage"
                                   THEN Append(printed, e.arg.n) ELSE printed
                   /\ mainPushes' = IF e.id = "SoundEffect" /\ e.arg.name = "splash"
                                      THEN <<Event("SendPacket", Item("UseItem", e.arg.n))>>
                                      ELSE << >>
              /\ UNCHANGED <<mainInbox, repeating, netVars, connVars, serverLog, read, lineLog, missed,
                             written, lag, lineLag>>

MainPush == /\ mainPushes # << >>
            /\ Push(Head(mainPushes))
            /\ mainPushes' = Tail(mainPushes)
            /\ UNCHANGED <<mainBatch, clientAlive, mainRunning, repeating, netPc, netBatch, netPushes, age,
                           connVars, history>>

(* The input thread: handleInput pushes one event per line.  A line        *)
(* "!useitem" is a packet at once, any other command is nothing, and the   *)
(* rest is chat.                                                           *)
PushLine(name, n) ==
    \/ name = "chat" /\ Push(Event("SendChatMessage", Item("line", n)))
    \/ name = "useItem" /\ Push(Event("SendPacket", Item("typedUseItem", n)))

TypeLine(name) ==
    /\ mainRunning /\ repeating = "none" /\ Len(lineLog) < MaxLines
    /\ lineLog' = Append(lineLog, name)
    /\ missed' = IF netPc = "off" THEN Len(lineLog') ELSE missed
    /\ PushLine(name, Len(lineLog) + 1)
    /\ UNCHANGED <<mainBatch, mainPushes, clientAlive, mainRunning, repeating, netPc, netBatch,
                   netPushes, age, connVars, serverLog, read, written, printed, lag, lineLag>>

\* At the end of the input getline leaves an empty line, which is chat, and
\* after a last line without a newline that line.
EndOfInput ==
    /\ repeating = "none" /\ MaxRepeats > 0
    /\ repeating' \in {"chat"} \cup (IF lineLog = << >> THEN {} ELSE {Last(lineLog)})
    /\ UNCHANGED <<mainInbox, mainBatch, mainPushes, clientAlive, mainRunning, netVars, connVars,
                   history>>

\* From then on getline fails at once and handleInput pushes the same again.
RepeatLine ==
    /\ mainRunning /\ repeating # "none" /\ Len(netInbox) < MaxRepeats
    /\ PushLine(repeating, 0)
    /\ UNCHANGED <<mainBatch, mainPushes, clientAlive, mainRunning, repeating, netPc, netBatch,
                   netPushes, age, connVars, history>>

-----------------------------------------------------------------------------
(* The network thread: ExecNs.                                             *)
NetStart == /\ netPc = "off"
            /\ netPc' = "loop"
            /\ UNCHANGED <<mainVars, netInbox, netBatch, netPushes, age, connVars, history>>

NetPoll == /\ netPc = "loop" /\ clientAlive
           /\ netBatch' = netInbox
           /\ netInbox' = << >>
           /\ netPc' = "handle"
           /\ UNCHANGED <<mainVars, netPushes, age, connVars, history>>

\* PacketUpdateHealth as an int: a health below one is zero.
PlayerHealth(p) == Health[p.name] \div 2

\* A plausible bug: the answer to a position is the respawn only.
UpdatePacketUnconfirmed(p) ==
    CASE p.name = "chat" -> <<Event("ReceivedChatMessage", p)>>
      [] p.name = "disconnect" -> <<Event("Disconnected", p)>>
      [] p.name = "posLook" -> <<Event("SendPacket", Item("ClientStatus", p.n))>>
      [] p.name \in DOMAIN Health -> IF PlayerHealth(p) <= 0
                                       THEN <<Event("SendPacket", Item("ClientStatus", p.n))>>
                                       ELSE << >>
      [] p.name \in {"sound", "splash"} -> <<Event("SoundEffect", p)>>
      [] OTHER -> << >>

\* UpdatePacket: the events it pushes for a packet.
UpdatePacket(p) ==
    CASE p.name = "chat" -> <<Event("ReceivedChatMessage", p)>>
      [] p.name = "disconnect" -> <<Event("Disconnected", p)>>
      [] p.name = "posLook" -> <<Event("SendPacket", Item("TeleportConfirm", p.n)),
                                 Event("SendPacket", Item("ClientStatus", p.n))>>
      [] p.name \in DOMAIN Health -> IF PlayerHealth(p) <= 0
                                       THEN <<Event("SendPacket", Item("ClientStatus", p.n))>>
                                       ELSE << >>
      [] p.name \in {"sound", "splash"} -> <<Event("SoundEffect", p)>>
      [] OTHER -> << >>

\* A plausible bug: a line goes to a handler that sends nothing.
NetReactionNoChat(e) ==
    CASE e.id = "ReceivedPacket" -> UpdatePacket(e.arg)
      [] e.id = "SendChatMessage" -> << >>
      [] e.id = "NetworkClientException" -> <<Event("Disconnect", e.arg)>>

\* The events the handlers of the listener push, those that send aside.
NetReaction(e) ==
    CASE e.id = "ReceivedPacket" -> UpdatePacket(e.arg)
      [] e.id = "SendChatMessage" -> <<Event("SendPacket", Item("ChatMessage", e.arg.n))>>
      [] e.id = "NetworkClientException" -> <<Event("Disconnect", e.arg)>>

AtHandler == netPc = "handle" /\ netPushes = << >>

NetHandle == /\ AtHandler /\ netBatch # << >>
             /\ Head(netBatch).id # "SendPacket"
             /\ netBatch' = Tail(netBatch)
             /\ netPushes' = NetReaction(Head(netBatch))
             /\ UNCHANGED <<mainVars, netPc, netInbox, age, connVars, history>>

NetPush == /\ netPushes # << >>
           /\ Push(Head(netPushes))
           /\ netPushes' = Tail(netPushes)
           /\ UNCHANGED <<mainBatch, mainPushes, clientAlive, mainRunning, repeating, netPc, netBatch, age,
                          connVars, history>>

\* Network::SendPacket throws for a packet whose size reaches the threshold
\* of the server, and when the connection is gone (a write may still succeed
\* then: the peer's close is not noticed at once).  Sizes and threshold are
\* abstracted: any packet may be refused, also the small ones the client
\* sends by itself when the threshold is low.
\* A plausible bug: the event is sent and left at the front of the queue.
NetSendKeeps == /\ AtHandler /\ netBatch # << >>
                /\ Head(netBatch).id = "SendPacket"
                /\ Len(written) < 2 * MaxPackets + MaxLines
                /\ written' = Append(written, Head(netBatch).arg)
                /\ UNCHANGED <<mainVars, netVars, connVars, serverLog, read, lineLog, missed,
                               printed, lag, lineLag>>

NetSend == /\ AtHandler /\ netBatch # << >>
           /\ Head(netBatch).id = "SendPacket"
           /\ netBatch' = Tail(netBatch)
           /\ written' = IF Head(netBatch).arg.n = 0 THEN written
                          ELSE Append(written, Head(netBatch).arg)
           /\ UNCHANGED <<mainVars, netPc, netInbox, netPushes, age, connVars, serverLog, read,
                          lineLog, missed, printed, lag, lineLag>>

\* A plausible bug: the exception of a packet is swallowed.
NetSendSwallows == /\ AtHandler /\ netBatch # << >>
                   /\ Head(netBatch).id = "SendPacket"
                   /\ netBatch' = Tail(netBatch)
                   /\ UNCHANGED <<mainVars, netPc, netInbox, netPushes, age, connVars, history>>

NetSendThrows == /\ AtHandler /\ netBatch # << >>
                 /\ Head(netBatch).id = "SendPacket"
                 /\ netBatch' = Tail(netBatch)
                 /\ netPc' = "catch"
                 /\ UNCHANGED <<mainVars, netInbox, netPushes, age, connVars, history>>

\* A plausible bug: the events are handled until none is left.
NetHandleAll == /\ AtHandler /\ netBatch = << >>
                /\ netPc' = IF netInbox = << >> THEN "receive" ELSE "loop"
                /\ UNCHANGED <<mainVars, netInbox, netBatch, netPushes, age, connVars, history>>

NetHandleDone == /\ AtHandler /\ netBatch = << >>
                 /\ netPc' = "receive"
                 /\ UNCHANGED <<mainVars, netInbox, netBatch, netPushes, age, connVars, history>>

\* The packets read since a packet or a line was pushed to the listener, up
\* to 3 of them.
Count(f, pushed) == [n \in DOMAIN f |-> IF n \in pushed /\ f[n] < 3 THEN f[n] + 1 ELSE f[n]]

\* ReceivePacket blocks until a packet arrives.  A keep-alive is answered by
\* the thread itself, a packet the parser knows is pushed to its own
\* listener, any other is dropped.
NetReceive ==
    /\ netPc = "receive" /\ toClient # << >>
    /\ Head(toClient).name # "malformed"
    /\ toClient' = Tail(toClient)
    /\ LET p == Head(toClient) IN
         /\ lag' = Count(lag, 1 .. read)
         /\ lineLag' = Count(lineLag, 1 .. Len(lineLog))
         /\ read' = IF p.name = "keepAlive" THEN read ELSE p.n
         /\ \/ /\ p.name = "keepAlive"
               /\ age' = 0
               /\ netPc' = "reply"
               /\ UNCHANGED <<mainInbox, netInbox>>
            \/ /\ p.name = "unparsed"
               /\ netPc' = "check"
               /\ UNCHANGED <<mainInbox, netInbox, age>>
            \/ /\ p.name \notin {"keepAlive", "unparsed"}
               /\ Push(Event("ReceivedPacket", p))
               /\ netPc' = "check"
               /\ UNCHANGED age
    /\ UNCHANGED <<mainBatch, mainPushes, clientAlive, mainRunning, repeating, netBatch, netPushes, closed,
                   serverLog, lineLog, missed, written, printed>>

\* A packet whose fields run out of data, or the end of the stream.
NetReceiveThrows ==
    /\ netPc = "receive"
    /\ \/ toClient # << >> /\ Head(toClient).name = "malformed"
       \/ toClient = << >> /\ closed
    /\ netPc' = "catch"
    /\ UNCHANGED <<mainVars, netInbox, netBatch, netPushes, age, connVars, history>>

\* The answer to a keep-alive is written, or refused as any other packet.
NetReply == /\ netPc = "reply"
            /\ netPc' \in {"check", "catch"}
            /\ UNCHANGED <<mainVars, netInbox, netBatch, netPushes, age, connVars, history>>

\* The 60 s are looked at only after a packet; the thread then pushes itself
\* a disconnect packet and goes on.
NetCheckTimeout ==
    /\ netPc = "check"
    /\ netPc' = "loop"
    /\ \/ age > TimeoutAge /\ Push(Event("ReceivedPacket", Item("disconnect", 0)))
       \/ age <= TimeoutAge /\ UNCHANGED <<mainInbox, netInbox>>
    /\ UNCHANGED <<mainBatch, mainPushes, clientAlive, mainRunning, repeating, netBatch, netPushes, age,
                   connVars, history>>

\* A plausible bug: the end of the thread is told to main directly.
NetCatchDisconnects ==
    /\ netPc = "catch"
    /\ netPc' = "leaving"
    /\ Push(Event("Disconnect", None))
    /\ UNCHANGED <<mainBatch, mainPushes, clientAlive, mainRunning, repeating, netBatch, netPushes,
                   age, connVars, history>>

NetCatch == /\ netPc = "catch"
            /\ netPc' = "leaving"
            /\ Push(Event("NetworkClientException", None))
            /\ UNCHANGED <<mainBatch, mainPushes, clientAlive, mainRunning, repeating, netBatch, netPushes,
                           age, connVars, history>>

\* A plausible bug: the queues outlive the thread.
NetLeaveQueues == /\ netPc = "leaving"
                  /\ netPc' = "gone"
                  /\ UNCHANGED <<mainVars, netInbox, netBatch, netPushes, age, connVars, history>>

\* The listener is destroyed with whatever its queues still hold.
NetDestroyListener == /\ netPc = "leaving"
                      /\ netPc' = "gone"
                      /\ netInbox' = << >> /\ netBatch' = << >> /\ netPushes' = << >>
                      /\ UNCHANGED <<mainVars, age, connVars, history>>

-----------------------------------------------------------------------------
(* The server and the clock.                                               *)
ServerSend(name) == /\ ~closed /\ Len(toClient) < Capacity
                    /\ Len(serverLog) < MaxPackets
                    /\ serverLog' = Append(serverLog, name)
                    /\ toClient' = Append(toClient, Item(name, Len(serverLog) + 1))
                    /\ UNCHANGED <<mainVars, netVars, closed, read, lineLog, missed, written,
                                   printed, lag, lineLag>>

ServerKeepAlive == /\ ~closed /\ Len(toClient) < Capacity
                   /\ toClient' = Append(toClient, Item("keepAlive", 0))
                   /\ UNCHANGED <<mainVars, netVars, closed, history>>

ServerClose == /\ ~closed
               /\ closed' = TRUE
               /\ UNCHANGED <<mainVars, netVars, toClient, history>>

Tick == /\ age <= TimeoutAge
        /\ age' = age + 1
        /\ UNCHANGED <<mainVars, netPc, netInbox, netBatch, netPushes, connVars, history>>

-----------------------------------------------------------------------------
Main == MainPoll \/ MainHandle \/ MainPush

Network == \/ NetStart \/ NetPoll \/ NetHandle \/ NetPush \/ NetSend \/ NetSendThrows
           \/ NetHandleDone \/ NetReceive \/ NetReceiveThrows \/ NetReply
           \/ NetCheckTimeout \/ NetCatch \/ NetDestroyListener

Next == \/ Main
        \/ \E name \in {"chat", "useItem"} : TypeLine(name)
        \/ EndOfInput \/ RepeatLine
        \/ Network
        \/ \E name \in Repertoire : ServerSend(name)
        \/ ServerKeepAlive \/ ServerClose \/ Tick

Spec == Init /\ [][Next]_vars

(* The threads of the program run; a server that has not closed the        *)
(* connection goes on sending keep-alives (it disconnects clients that do  *)
(* not answer them).  Nobody has to type, to send anything else or to      *)
(* close, and time need not pass.                                          *)
FairSpec == Spec /\ WF_vars(Main) /\ WF_vars(Network) /\ WF_vars(ServerKeepAlive)

-----------------------------------------------------------------------------
(***************************************************************************)
(* Properties                                                              *)
(***************************************************************************)

EventIds == MainHandles \cup NetHandles \cup {"Disconnected"}
ItemNames == PacketNames \cup {"none", "line", "typedUseItem", "UseItem", "ChatMessage",
                                "TeleportConfirm", "ClientStatus"}
Items == [name : ItemNames, n : Nat]
Events == [id : EventIds, arg : Items]

(* Every variable has its type; the network thread pushes from handlers    *)
(* only, and its listener is empty outside its life.                       *)
TypeOK ==
    /\ {mainInbox, mainBatch, mainPushes, netInbox, netBatch, netPushes} \subseteq Seq(Events)
    /\ {clientAlive, mainRunning, closed} \subseteq BOOLEAN
    /\ repeating \in {"none", "chat", "useItem"}
    /\ netPc \in {"off", "loop", "handle", "receive", "reply", "check", "catch", "leaving", "gone"}
    /\ netPc \in {"off", "gone"} => netInbox \o netBatch \o netPushes = << >>
    /\ netPushes # << >> => netPc = "handle"
    /\ age \in 0 .. TimeoutAge + 1
    /\ toClient \in Seq([name : PacketNames \cup {"keepAlive"}, n : Nat]) /\ Len(toClient) <= Capacity
    /\ serverLog \in Seq(PacketNames) /\ read \in 0 .. Len(serverLog)
    /\ lineLog \in Seq({"chat", "useItem"}) /\ missed \in 0 .. Len(lineLog)
    /\ written \in Seq(Items) /\ printed \in Seq(Nat)
    /\ lag \in [1 .. MaxPackets -> 0 .. 3] /\ lineLag \in [1 .. MaxLines -> 0 .. 3]

Alive == netPc \notin {"catch", "leaving", "gone"}

(* The elements of a queue that matter to a property are those at some of  *)
(* its places: each gets a number.                                         *)
Increasing(f) == \A i, j \in DOMAIN f : i < j => f[i] < f[j]
Below(f, g) == \A i \in DOMAIN f, j \in DOMAIN g : f[i] < g[j]
StartOf(S, all) == S \subseteq all /\ \A m \in S, n \in all : n < m => n \in S

IsChat(e) == e.id \in {"ReceivedChatMessage", "ReceivedPacket"} /\ e.arg.name = "chat"
Chats(s) == [i \in {i \in DOMAIN s : IsChat(s[i])} |-> s[i].arg.n]

(* What the server says reaches the screen in the order it was said: the   *)
(* chat messages read from the connection are those printed, followed by   *)
(* those on their way through the three queues and two handlers.  While    *)
(* the network thread runs none is missing or doubled; when it ends, those *)
(* still in its own queues are lost, and only those                        *)
(* (networkclient.cpp:101-104, 124, 191; main.cpp:98-101).                 *)
ChatsInOrder ==
    LET way == Chats(mainBatch \o mainInbox \o netPushes \o netBatch \o netInbox)
        chats == Range(printed) \cup Range(way)
        all == {n \in 1 .. read : serverLog[n] = "chat"}
    IN /\ Increasing(printed) /\ Increasing(way) /\ Below(printed, way)
       /\ IF netPc = "gone" THEN StartOf(chats, all) ELSE chats = all

\* The replies to a packet, counted two to a packet: the confirmation first.
IsReply(p) == p.name \in {"TeleportConfirm", "ClientStatus"}
Place(p) == IF p.name = "TeleportConfirm" THEN 2 * p.n ELSE 2 * p.n + 1
RepliesTo(n) == CASE serverLog[n] = "posLook" -> {2 * n, 2 * n + 1}
                  [] serverLog[n] \in {"dead", "faint"} -> {2 * n + 1}
                  [] OTHER -> {}

IsSendReply(e) == e.id = "SendPacket" /\ IsReply(e.arg)
IsQuestion(e) == e.id = "ReceivedPacket" /\ e.arg.name \in {"posLook", "dead", "faint"}
Replies(s) == [i \in {i \in DOMAIN s : IsReply(s[i])} |-> Place(s[i])]
RepliesQueued(s) == [i \in {i \in DOMAIN s : IsSendReply(s[i])} |-> Place(s[i].arg)]
Questions(s) == [i \in {i \in DOMAIN s : IsQuestion(s[i])} |-> 2 * s[i].arg.n]

(* Every position the server sets is confirmed once, with a respawn behind *)
(* the confirmation, and every health below one, not only zero, is         *)
(* answered by one respawn, all in the order of the packets: the replies   *)
(* written are followed by those queued as SendPacket, then by those to    *)
(* the packets whose handler has not run                                   *)
(* (networkclient.cpp:96-104, 283-293, 326-335).                           *)
RepliesInOrder ==
    LET replies == Replies(written)
        queued == RepliesQueued(netBatch \o netInbox \o netPushes)
        open == Questions(netBatch \o netInbox)
        all == UNION {RepliesTo(n) : n \in 1 .. read}
    IN /\ Increasing(replies)
       /\ IF Alive
            THEN /\ Increasing(queued) /\ Increasing(open)
                 /\ Below(replies, queued) /\ Below(replies, open) /\ Below(queued, open)
                 /\ Range(replies) \cup Range(queued)
                        \cup UNION {RepliesTo(k \div 2) : k \in Range(open)} = all
            ELSE StartOf(Range(replies), all)

IsLine(e) == e.id = "SendChatMessage" /\ e.arg.n # 0
IsSendLine(e) == e.id = "SendPacket" /\ e.arg.name = "ChatMessage" /\ e.arg.n # 0
LinesSent(s) == [i \in {i \in DOMAIN s : s[i].name = "ChatMessage"} |-> s[i].n]
LinesQueued(s) == [i \in {i \in DOMAIN s : IsSendLine(s[i])} |-> s[i].arg.n]
LinesHeard(s) == [i \in {i \in DOMAIN s : IsLine(s[i])} |-> s[i].arg.n]

(* The chat lines typed since the network thread has its listener are sent *)
(* in the order they were typed, none skipped and none twice; those left   *)
(* when it ends, and those typed before it, are lost                       *)
(* (main.cpp:44-61, networkclient.cpp:92-110).                             *)
LinesInOrder ==
    LET sent == LinesSent(written)
        queued == LinesQueued(netBatch \o netInbox \o netPushes)
        heard == LinesHeard(netBatch \o netInbox)
        all == {n \in missed + 1 .. Len(lineLog) : lineLog[n] = "chat"}
    IN /\ Increasing(sent)
       /\ IF Alive
            THEN /\ Increasing(queued) /\ Increasing(heard)
                 /\ Below(sent, queued) /\ Below(sent, heard) /\ Below(queued, heard)
                 /\ Range(sent) \cup Range(queued) \cup Range(heard) = all
            ELSE StartOf(Range(sent), all)

LastWritten == written'[Len(written')]

(* The reply to a packet waits for the server: a handler only pushes it,   *)
(* and the thread reads the next packet before it handles events again.    *)
(* So a teleport confirmation or a respawn is written after exactly one    *)
(* more packet has been read, neither before nor later, and a reaction of  *)
(* main after at least one (networkclient.cpp:118-124, 290-291, 332).      *)
ReplyLag ==
    [][written' # written =>
          /\ LastWritten.name \in {"TeleportConfirm", "ClientStatus"} => lag[LastWritten.n] = 1
          /\ LastWritten.name = "UseItem" => lag[LastWritten.n] >= 1]_vars

(* A line typed waits for the server too: a chat line takes two rounds of  *)
(* the network thread, so one or two packets are read before it is sent,   *)
(* and "!useitem" takes one round, so none or one                          *)
(* (networkclient.cpp:96-110, 118-121; main.cpp:48-57).                    *)
LineLag ==
    [][written' # written =>
          /\ LastWritten.name = "ChatMessage" => lineLag[LastWritten.n] \in {1, 2}
          /\ LastWritten.name = "typedUseItem" => lineLag[LastWritten.n] \in {0, 1}]_vars

(* The end of the network thread, a kick by the server and the timeout     *)
(* reach nobody: no event main reacts to by leaving its loop or dropping   *)
(* the client is ever on its way to it, so it goes on taking input for a   *)
(* connection that is dead (networkclient.cpp:112-115, 135-143, 233;       *)
(* main.cpp:88-96).                                                        *)
EndUnheard ==
    /\ clientAlive /\ mainRunning
    /\ \A e \in ToSet(mainInbox \o mainBatch) : e.id \notin {"Exit", "Disconnect"}

(* A chat line that reached the network thread is sent, unless the thread  *)
(* ends: the keep-alives of the server keep its loop going.                *)
LineEventuallySent ==
    \A n \in 1 .. MaxLines :
        n \in Range(LinesHeard(netInbox)) ~> (n \in Range(LinesSent(written)) \/ ~Alive)

(* A position the client was told is confirmed, unless the thread ends.    *)
TeleportEventuallyConfirmed ==
    \A n \in 1 .. MaxPackets :
        (read >= n /\ serverLog[n] = "posLook")
            ~> (2 * n \in Range(Replies(written)) \/ ~Alive)

(* A keep-alive of the server is answered, unless the thread ends, also    *)
(* when handleInput repeats its last line at full speed: what it pushes    *)
(* while the listener handles a batch waits for the next one, so that the  *)
(* thread always gets back to the connection                               *)
(* (main.cpp:44-61; event.cpp:29-42; networkclient.cpp:117-131).           *)
KeepAliveAnswered ==
    (\E k \in DOMAIN toClient : toClient[k].name = "keepAlive") ~> (netPc = "reply" \/ ~Alive)
=============================================================================
