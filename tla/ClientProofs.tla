---------------------------- MODULE ClientProofs ----------------------------
(***************************************************************************)
(* Proofs about Client, for any number of packets and lines, any repertoire*)
(* of the server and any lines it refuses: types, that the end of the      *)
(* network thread is not heard of, and how long replies and lines wait.    *)
(***************************************************************************)
EXTENDS Client, Basics

-----------------------------------------------------------------------------
(***************************************************************************)
(* The inductive invariant.  How long something has waited follows from    *)
(* the queue it is in and from the place in ExecNs: the thread empties its *)
(* batch before it blocks in ReceivePacket, and polls after it.            *)
(***************************************************************************)

\* From the poll to the next packet, and from the packet to the next poll.
Handling == netPc \in {"handle", "receive"}
Returning == netPc \in {"reply", "check", "loop"}
Leaving == netPc \in {"catch", "leaving"}

ReadPackets == 1 .. read
Lines == 1 .. Len(lineLog)

\* A packet none was read after.
Fresh(p) == p.n \in ReadPackets /\ lag[p.n] = 0

\* A line, or a repeated one.
Typed(p) == p.n \in Lines \cup {0}
WaitsIn(p, s) == p.n # 0 => lineLag[p.n] \in s

NetInboxOK(e) ==
    /\ e.id \in NetHandles
    /\ e.id = "NetworkClientException" => netPc = "leaving"
    /\ e.id = "ReceivedPacket" =>
          (Leaving \/ netPc \in {"check", "loop"}) /\ (Fresh(e.arg) \/ e.arg.name = "disconnect")
    /\ e.id = "SendChatMessage" => /\ Typed(e.arg)
                                   /\ Handling => WaitsIn(e.arg, {0})
                                   /\ Returning => WaitsIn(e.arg, {0, 1})
    /\ e.id = "SendPacket" =>
          /\ IsReply(e.arg) => /\ e.arg.n \in ReadPackets
                               /\ Handling => lag[e.arg.n] = 0
                               /\ Returning => lag[e.arg.n] = 1
          /\ e.arg.name = "UseItem" => /\ e.arg.n \in ReadPackets
                                       /\ Returning => lag[e.arg.n] >= 1
          /\ e.arg.name = "typedUseItem" => /\ Typed(e.arg)
                                            /\ Handling => WaitsIn(e.arg, {0})
                                            /\ Returning => WaitsIn(e.arg, {0, 1})
          /\ e.arg.name = "ChatMessage" => /\ Typed(e.arg)
                                           /\ Handling => WaitsIn(e.arg, {0, 1})
                                           /\ Returning => WaitsIn(e.arg, {1, 2})

NetBatchOK(e) ==
    /\ e.id \in NetHandles \ {"NetworkClientException"}
    /\ e.id = "ReceivedPacket" => Fresh(e.arg) \/ e.arg.name = "disconnect"
    /\ e.id = "SendChatMessage" => Typed(e.arg) /\ WaitsIn(e.arg, {0, 1})
    /\ e.id = "SendPacket" =>
          /\ IsReply(e.arg) => e.arg.n \in ReadPackets /\ lag[e.arg.n] = 1
          /\ e.arg.name = "UseItem" => e.arg.n \in ReadPackets /\ lag[e.arg.n] >= 1
          /\ e.arg.name = "typedUseItem" => Typed(e.arg) /\ WaitsIn(e.arg, {0, 1})
          /\ e.arg.name = "ChatMessage" => Typed(e.arg) /\ WaitsIn(e.arg, {1, 2})

\* What the handlers of the network thread push.
NetPushOK(e) ==
    /\ e.id \in {"ReceivedChatMessage", "Disconnected", "SoundEffect", "SendPacket"}
    /\ e.id = "SoundEffect" /\ e.arg.name = "splash" => e.arg.n \in ReadPackets
    /\ e.id = "SendPacket" =>
          /\ e.arg.name \in {"TeleportConfirm", "ClientStatus", "ChatMessage"}
          /\ IsReply(e.arg) => Fresh(e.arg)
          /\ e.arg.name = "ChatMessage" => Typed(e.arg) /\ WaitsIn(e.arg, {0, 1})

\* What main still has to react to, or to push.
MainOK(e) ==
    /\ e.id \notin {"Exit", "Disconnect"}
    /\ (e.id = "SoundEffect" /\ e.arg.name = "splash") \/ e.id = "SendPacket" =>
          e.arg.n \in ReadPackets /\ (Returning => lag[e.arg.n] >= 1)

QueueInv ==
    /\ \A e \in Content(netInbox) : NetInboxOK(e)
    /\ \A e \in Content(netBatch) : NetBatchOK(e)
    /\ \A e \in Content(netPushes) : NetPushOK(e)
    /\ \A e \in Content(mainInbox) \cup Content(mainBatch) \cup Content(mainPushes) : MainOK(e)
    /\ \A e \in Content(mainPushes) : e.id = "SendPacket" /\ e.arg.name = "UseItem"

\* The connection delivers the packets in the order of their numbers.
Numbered(p) == p.name # "keepAlive"

ChannelInv ==
    /\ Len(serverLog) <= MaxPackets /\ Len(lineLog) <= MaxLines
    /\ \A i \in DOMAIN toClient : Numbered(toClient[i]) => toClient[i].n \in read + 1 .. Len(serverLog)
    /\ \A i, j \in DOMAIN toClient :
          i < j /\ Numbered(toClient[i]) /\ Numbered(toClient[j]) => toClient[i].n < toClient[j].n
    /\ \A n \in 1 .. MaxPackets : n > read => lag[n] = 0
    /\ \A n \in 1 .. MaxLines : n > Len(lineLog) => lineLag[n] = 0

ThreadInv ==
    /\ netBatch # << >> => netPc = "handle" \/ Leaving
    /\ netPc = "off" => read = 0
    /\ clientAlive /\ mainRunning

IInv == TypeOK /\ ThreadInv /\ ChannelInv /\ QueueInv

-----------------------------------------------------------------------------
(* What the operations do to the queues.                                   *)

(* A push reaches the listeners that handle the event, and nothing else.   *)
LEMMA PushEffect ==
    ASSUME TypeOK, NEW e \in Events, Push(e)
    PROVE  /\ mainInbox' \in Seq(Events) /\ netInbox' \in Seq(Events)
           /\ Content(mainInbox') \subseteq Content(mainInbox) \cup {e}
           /\ Content(netInbox') \subseteq Content(netInbox) \cup {e}
           /\ e.id \notin MainHandles => UNCHANGED mainInbox
           /\ ~(e.id \in NetHandles /\ NetListens) => UNCHANGED netInbox
<1>1. mainInbox \in Seq(Events) /\ netInbox \in Seq(Events) BY DEF TypeOK
<1>2. mainInbox' \in {mainInbox, Append(mainInbox, e)} /\ netInbox' \in {netInbox, Append(netInbox, e)}
  BY DEF Push
<1>3. QED BY <1>1, <1>2, AppendIn DEF Push

(* Events and their arguments.                                             *)
LEMMA EventIn ==
    ASSUME NEW id \in EventIds, NEW arg \in Items
    PROVE  Event(id, arg) \in Events /\ Event(id, arg).id = id /\ Event(id, arg).arg = arg
BY DEF Event, Events

(* Packets and lines as items.                                            *)
LEMMA ItemIn ==
    ASSUME NEW name \in ItemNames, NEW n \in Nat
    PROVE  Item(name, n) \in Items /\ Item(name, n).name = name /\ Item(name, n).n = n
BY DEF Item, Items

(* What the handlers of the network thread push for an event of the batch. *)
LEMMA ReactionIn ==
    ASSUME NEW e \in Events, e.id \in {"ReceivedPacket", "SendChatMessage"}
    PROVE  /\ NetReaction(e) \in Seq(Events)
           /\ \A x \in Content(NetReaction(e)) :
                 /\ x.arg.n = e.arg.n
                 /\ \/ /\ e.id = "ReceivedPacket"
                       /\ x.id \in {"ReceivedChatMessage", "Disconnected", "SoundEffect"} /\ x.arg = e.arg
                    \/ /\ e.id = "ReceivedPacket" /\ e.arg.name # "disconnect"
                       /\ x.id = "SendPacket" /\ x.arg.name \in {"TeleportConfirm", "ClientStatus"}
                    \/ /\ e.id = "SendChatMessage"
                       /\ x.id = "SendPacket" /\ x.arg.name = "ChatMessage"
<1> DEFINE OK(x) == /\ x.arg.n = e.arg.n
                    /\ \/ /\ e.id = "ReceivedPacket"
                          /\ x.id \in {"ReceivedChatMessage", "Disconnected", "SoundEffect"} /\ x.arg = e.arg
                       \/ /\ e.id = "ReceivedPacket" /\ e.arg.name # "disconnect"
                          /\ x.id = "SendPacket" /\ x.arg.name \in {"TeleportConfirm", "ClientStatus"}
                       \/ /\ e.id = "SendChatMessage"
                          /\ x.id = "SendPacket" /\ x.arg.name = "ChatMessage"
<1>0. "SendPacket" \in EventIds /\ {"ChatMessage", "TeleportConfirm", "ClientStatus"} \subseteq ItemNames
  BY DEF EventIds, NetHandles, ItemNames
<1>1. e.arg \in Items /\ e.arg.n \in Nat BY DEF Events, Items
<1>2. ASSUME NEW x \in Events, OK(x)
      PROVE  <<x>> \in Seq(Events) /\ \A y \in Content(<<x>>) : OK(y)
  <2>1. Content(<<x>>) = {x} BY DEF Content
  <2>2. QED BY <1>2, <2>1
<1>3. << >> \in Seq(Events) /\ Content(<< >>) = {} BY DEF Content
<1>4. CASE e.id = "SendChatMessage"
  <2> DEFINE x == Event("SendPacket", Item("ChatMessage", e.arg.n))
  <2>1. /\ x \in Events /\ x.id = "SendPacket" /\ x.arg.name = "ChatMessage" /\ x.arg.n = e.arg.n
    BY <1>1, <1>0, EventIn, ItemIn
  <2>2. NetReaction(e) = <<x>> BY <1>4 DEF NetReaction
  <2> HIDE DEF x
  <2>3. OK(x) BY <1>4, <2>1
  <2>4. QED BY <1>2, <2>1, <2>2, <2>3
<1>5. CASE e.id = "ReceivedPacket"
  <2> DEFINE confirm == Event("SendPacket", Item("TeleportConfirm", e.arg.n))
             respawn == Event("SendPacket", Item("ClientStatus", e.arg.n))
  <2>1. /\ confirm \in Events /\ confirm.id = "SendPacket"
        /\ confirm.arg.name = "TeleportConfirm" /\ confirm.arg.n = e.arg.n
        /\ respawn \in Events /\ respawn.id = "SendPacket"
        /\ respawn.arg.name = "ClientStatus" /\ respawn.arg.n = e.arg.n
    BY <1>1, <1>0, EventIn, ItemIn
  <2>2. ASSUME NEW id \in {"ReceivedChatMessage", "Disconnected", "SoundEffect"}
        PROVE  Event(id, e.arg) \in Events /\ OK(Event(id, e.arg))
    <3>1. id \in EventIds BY DEF EventIds, MainHandles
    <3>2. Event(id, e.arg) \in Events /\ Event(id, e.arg).id = id /\ Event(id, e.arg).arg = e.arg
      BY <1>1, <3>1, EventIn
    <3>3. QED BY <1>5, <3>2
  <2>3. NetReaction(e) = UpdatePacket(e.arg) BY <1>5 DEF NetReaction
  <2>4. \/ \E id \in {"ReceivedChatMessage", "Disconnected", "SoundEffect"} :
              NetReaction(e) = <<Event(id, e.arg)>>
        \/ e.arg.name # "disconnect" /\ NetReaction(e) \in {<<confirm, respawn>>, <<respawn>>}
        \/ NetReaction(e) = << >>
    BY <2>3 DEF UpdatePacket, Health
  <2> HIDE DEF confirm, respawn
  <2>5. ASSUME e.arg.name # "disconnect" PROVE OK(confirm) /\ OK(respawn)
    BY <1>5, <2>1, <2>5
  <2>6. <<confirm, respawn>> \in Seq(Events) /\ Content(<<confirm, respawn>>) = {confirm, respawn}
    BY <2>1 DEF Content
  <2>7. CASE \E id \in {"ReceivedChatMessage", "Disconnected", "SoundEffect"} :
                NetReaction(e) = <<Event(id, e.arg)>>
    BY <1>2, <2>2, <2>7
  <2>8. CASE e.arg.name # "disconnect" /\ NetReaction(e) \in {<<confirm, respawn>>, <<respawn>>}
    BY <1>2, <2>1, <2>5, <2>6, <2>8
  <2>9. CASE NetReaction(e) = << >> BY <1>3, <2>9
  <2>10. QED BY <2>4, <2>7, <2>8, <2>9
<1>6. QED BY <1>4, <1>5

(* The events the actions push.                                            *)
LEMMA PushedEvents ==
    ASSUME IInv
    PROVE  /\ \A name \in {"chat", "useItem"}, n \in Nat : PushLine(name, n) =>
                 \E e \in Events : /\ Push(e) /\ e.arg.n = n
                                   /\ \/ e.id = "SendChatMessage"
                                      \/ e.id = "SendPacket" /\ e.arg.name = "typedUseItem"
           /\ \A p \in Items : Event("ReceivedPacket", p) \in Events
           /\ Event("NetworkClientException", None) \in Events
           /\ Item("disconnect", 0) \in Items
           /\ mainPushes # << >> => Head(mainPushes) \in Events /\ Head(mainPushes) \in Content(mainPushes)
           /\ netPushes # << >> => Head(netPushes) \in Events /\ Head(netPushes) \in Content(netPushes)
<1>1. /\ {"ReceivedPacket", "NetworkClientException", "SendChatMessage", "SendPacket"} \subseteq EventIds
      /\ {"disconnect", "none", "line", "typedUseItem"} \subseteq ItemNames
  BY DEF EventIds, NetHandles, ItemNames, PacketNames
<1>2. /\ Event("NetworkClientException", None) \in Events /\ Item("disconnect", 0) \in Items
      /\ \A p \in Items : Event("ReceivedPacket", p) \in Events
  BY <1>1, EventIn, ItemIn DEF None
<1>3. ASSUME NEW name \in {"chat", "useItem"}, NEW n \in Nat, PushLine(name, n)
      PROVE  \E e \in Events : /\ Push(e) /\ e.arg.n = n
                               /\ \/ e.id = "SendChatMessage"
                                  \/ e.id = "SendPacket" /\ e.arg.name = "typedUseItem"
  <2>1. Item("line", n) \in Items /\ Item("typedUseItem", n) \in Items
        /\ Item("line", n).n = n /\ Item("typedUseItem", n).n = n
        /\ Item("typedUseItem", n).name = "typedUseItem"
    BY <1>1, ItemIn
  <2>2. CASE Push(Event("SendChatMessage", Item("line", n)))
    <3>1. /\ Event("SendChatMessage", Item("line", n)) \in Events
          /\ Event("SendChatMessage", Item("line", n)).id = "SendChatMessage"
          /\ Event("SendChatMessage", Item("line", n)).arg = Item("line", n)
      BY <1>1, <2>1, EventIn
    <3>2. QED BY <2>1, <2>2, <3>1
  <2>3. CASE Push(Event("SendPacket", Item("typedUseItem", n)))
    <3>1. /\ Event("SendPacket", Item("typedUseItem", n)) \in Events
          /\ Event("SendPacket", Item("typedUseItem", n)).id = "SendPacket"
          /\ Event("SendPacket", Item("typedUseItem", n)).arg = Item("typedUseItem", n)
      BY <1>1, <2>1, EventIn
    <3>2. QED BY <2>1, <2>3, <3>1
  <2>4. QED BY <1>3, <2>2, <2>3 DEF PushLine
<1>4. /\ mainPushes # << >> => Head(mainPushes) \in Events /\ Head(mainPushes) \in Content(mainPushes)
      /\ netPushes # << >> => Head(netPushes) \in Events /\ Head(netPushes) \in Content(netPushes)
  BY HeadIn DEF IInv, TypeOK
<1>5. QED BY <1>2, <1>3, <1>4

\* TypeOK in the parts the actions can disturb.
QueuesTyped == {mainInbox, mainBatch, mainPushes, netInbox, netBatch, netPushes} \subseteq Seq(Events)
PlacesTyped == /\ {clientAlive, mainRunning, closed} \subseteq BOOLEAN
               /\ repeating \in {"none", "chat", "useItem"}
               /\ netPc \in {"off", "loop", "handle", "receive", "reply", "check", "catch",
                             "leaving", "gone"}
               /\ age \in 0 .. TimeoutAge + 1
ThreadTyped == /\ netPc \in {"off", "gone"} => netInbox = << >> /\ netBatch = << >> /\ netPushes = << >>
               /\ netPushes # << >> => netPc = "handle"
ConnTyped == /\ toClient \in Seq([name : PacketNames \cup {"keepAlive"}, n : Nat])
             /\ Len(toClient) <= Capacity
HistoryTyped == /\ serverLog \in Seq(PacketNames) /\ read \in 0 .. Len(serverLog)
                /\ lineLog \in Seq({"chat", "useItem"}) /\ missed \in 0 .. Len(lineLog)
                /\ written \in Seq(Items) /\ printed \in Seq(Nat)
                /\ lag \in [1 .. MaxPackets -> 0 .. 3] /\ lineLag \in [1 .. MaxLines -> 0 .. 3]

(* Three queues are empty when nothing is in any of them.                  *)
LEMMA AllEmpty == ASSUME NEW S, NEW a \in Seq(S), NEW b \in Seq(S), NEW c \in Seq(S)
                  PROVE  a \o b \o c = << >> <=> a = << >> /\ b = << >> /\ c = << >>
<1>1. /\ Len(a) \in Nat /\ Len(b) \in Nat /\ Len(c) \in Nat
      /\ a \o b \in Seq(S) /\ a \o b \o c \in Seq(S)
      /\ Len(a \o b \o c) = Len(a) + Len(b) + Len(c)
  BY ConcatIn
<1>2. \A q \in Seq(S) : q = << >> <=> Len(q) = 0 OBVIOUS
<1>3. QED BY <1>1, <1>2

(* The type invariant is the conjunction of its parts.                     *)
LEMMA Typing == TypeOK <=> QueuesTyped /\ PlacesTyped /\ ThreadTyped /\ ConnTyped /\ HistoryTyped
BY AllEmpty DEF TypeOK, QueuesTyped, PlacesTyped, ThreadTyped, ConnTyped, HistoryTyped

(* So it is after a step.                                                  *)
LEMMA TypingNext ==
    ASSUME QueuesTyped', PlacesTyped', ThreadTyped', ConnTyped', HistoryTyped'
    PROVE  TypeOK'
BY AllEmpty, SMTT(30) DEF TypeOK, QueuesTyped, PlacesTyped, ThreadTyped, ConnTyped, HistoryTyped

-----------------------------------------------------------------------------
(* Types.                                                                  *)

(* A push keeps the types, when the listener it reaches is there.          *)
LEMMA PushTyped ==
    ASSUME TypeOK, NEW e \in Events, Push(e),
           {mainBatch, mainPushes, netBatch, netPushes}' \subseteq Seq(Events)
    PROVE  /\ QueuesTyped'
           /\ netPc \in {"off", "gone"} => netInbox' = << >>
<1>1. mainInbox' \in Seq(Events) /\ netInbox' \in Seq(Events) BY PushEffect
<1>2. netPc \in {"off", "gone"} => netInbox' = netInbox /\ netInbox = << >>
  BY PushEffect, Typing DEF NetListens, ThreadTyped
<1>3. QED BY <1>1, <1>2 DEF QueuesTyped

(* What is left of a queue has the type of the queue.                      *)
LEMMA RestTyped ==
    ASSUME TypeOK
    PROVE  \A q \in {mainInbox, mainBatch, mainPushes, netInbox, netBatch, netPushes} :
              q # << >> => Tail(q) \in Seq(Events) /\ Content(Tail(q)) \subseteq Content(q)
BY TailIn DEF TypeOK

(* The main thread keeps the types.                                        *)
LEMMA MainTyped == ASSUME IInv, Main PROVE TypeOK'
<1>1. TypeOK /\ QueuesTyped /\ PlacesTyped /\ ThreadTyped /\ ConnTyped /\ HistoryTyped
  BY Typing DEF IInv
<1>2. CASE MainPoll
  <2>1. << >> \in Seq(Events) OBVIOUS
  <2>2. QueuesTyped' BY <1>1, <1>2, <2>1 DEF MainPoll, QueuesTyped, netVars
  <2>3. PlacesTyped' /\ ThreadTyped' /\ ConnTyped' /\ HistoryTyped'
    BY <1>1, <1>2 DEF MainPoll, PlacesTyped, ThreadTyped, ConnTyped, HistoryTyped, netVars, connVars,
                      history
  <2>4. QED BY <2>2, <2>3, TypingNext
<1>3. CASE MainHandle
  <2> DEFINE e == Head(mainBatch)
             u == Event("SendPacket", Item("UseItem", e.arg.n))
  <2>1. e \in Events /\ Tail(mainBatch) \in Seq(Events)
    BY <1>1, <1>3, HeadIn, RestTyped DEF MainHandle, QueuesTyped
  <2>2. e.arg.n \in Nat BY <2>1 DEF Events, Items
  <2>3. u \in Events
    <3>1. "SendPacket" \in EventIds /\ "UseItem" \in ItemNames BY DEF EventIds, NetHandles, ItemNames
    <3>2. QED BY <2>2, <3>1, EventIn, ItemIn
  <2>4. <<u>> \in Seq(Events) /\ << >> \in Seq(Events) BY <2>3
  <2> HIDE DEF u
  <2>5. mainPushes' \in Seq(Events) BY <1>3, <2>4 DEF MainHandle, u
  <2>6. QueuesTyped' BY <1>1, <1>3, <2>1, <2>5 DEF MainHandle, QueuesTyped, netVars
  <2>7. clientAlive' \in BOOLEAN /\ mainRunning' \in BOOLEAN BY <1>3 DEF MainHandle
  <2>8. PlacesTyped' BY <1>1, <1>3, <2>7 DEF MainHandle, PlacesTyped, netVars, connVars
  <2>9. printed' \in Seq(Nat) BY <1>1, <1>3, <2>2 DEF MainHandle, HistoryTyped
  <2>10. HistoryTyped' BY <1>1, <1>3, <2>9 DEF MainHandle, HistoryTyped
  <2>11. ThreadTyped' /\ ConnTyped' BY <1>1, <1>3 DEF MainHandle, ThreadTyped, ConnTyped, netVars, connVars
  <2>12. QED BY <2>6, <2>8, <2>10, <2>11, TypingNext
<1>4. CASE MainPush
  <2>1. Head(mainPushes) \in Events /\ Tail(mainPushes) \in Seq(Events) /\ Push(Head(mainPushes))
    BY <1>1, <1>4, PushedEvents, RestTyped DEF MainPush
  <2>2. {mainBatch, mainPushes, netBatch, netPushes}' \subseteq Seq(Events)
    BY <1>1, <1>4, <2>1 DEF MainPush, QueuesTyped
  <2>3. QueuesTyped' /\ (netPc \in {"off", "gone"} => netInbox' = << >>) BY <1>1, <2>1, <2>2, PushTyped
  <2>4. PlacesTyped' /\ ThreadTyped' /\ ConnTyped' /\ HistoryTyped'
    BY <1>1, <1>4, <2>3 DEF MainPush, PlacesTyped, ThreadTyped, ConnTyped, HistoryTyped, connVars, history
  <2>5. QED BY <2>3, <2>4, TypingNext
<1>5. QED BY <1>2, <1>3, <1>4 DEF Main

\* The steps of the input thread.
Input == (\E name \in {"chat", "useItem"} : TypeLine(name)) \/ EndOfInput \/ RepeatLine

(* The input thread keeps the types.                                       *)
LEMMA InputTyped == ASSUME IInv, Input PROVE TypeOK'
<1>1. TypeOK /\ QueuesTyped /\ PlacesTyped /\ ThreadTyped /\ ConnTyped /\ HistoryTyped
  BY Typing DEF IInv
<1>2. ASSUME NEW name \in {"chat", "useItem"}, NEW n \in Nat, PushLine(name, n),
             UNCHANGED <<mainBatch, mainPushes, netBatch, netPushes, netPc>>
      PROVE  QueuesTyped' /\ ThreadTyped'
  <2>1. PICK e \in Events : Push(e) BY <1>2, PushedEvents
  <2>2. {mainBatch, mainPushes, netBatch, netPushes}' \subseteq Seq(Events) BY <1>1, <1>2 DEF QueuesTyped
  <2>3. QueuesTyped' /\ (netPc \in {"off", "gone"} => netInbox' = << >>) BY <1>1, <2>1, <2>2, PushTyped
  <2>4. QED BY <1>1, <1>2, <2>3 DEF ThreadTyped
<1>3. ASSUME NEW name \in {"chat", "useItem"}, TypeLine(name) PROVE TypeOK'
  <2>1. /\ lineLog' = Append(lineLog, name) /\ lineLog \in Seq({"chat", "useItem"})
        /\ Len(lineLog) \in Nat
    BY <1>1, <1>3 DEF TypeLine, HistoryTyped
  <2>2. lineLog' \in Seq({"chat", "useItem"}) /\ Len(lineLog') = Len(lineLog) + 1
    BY <2>1, AppendIn
  <2>3. missed' \in 0 .. Len(lineLog') BY <1>1, <1>3, <2>1, <2>2 DEF TypeLine, HistoryTyped
  <2>4. QueuesTyped' /\ ThreadTyped' BY <1>2, <1>3, <2>1 DEF TypeLine
  <2>5. PlacesTyped' /\ ConnTyped' BY <1>1, <1>3 DEF TypeLine, PlacesTyped, ConnTyped, connVars
  <2>6. HistoryTyped' BY <1>1, <1>3, <2>2, <2>3 DEF TypeLine, HistoryTyped
  <2>7. QED BY <2>4, <2>5, <2>6, TypingNext
<1>4. CASE EndOfInput
  <2>1. lineLog # << >> => Last(lineLog) \in {"chat", "useItem"} BY <1>1 DEF HistoryTyped, Last
  <2>2. repeating' \in {"chat", "useItem"} BY <1>4, <2>1 DEF EndOfInput
  <2>3. PlacesTyped' BY <1>1, <1>4, <2>2 DEF EndOfInput, PlacesTyped, netVars, connVars
  <2>4. QueuesTyped' /\ ThreadTyped' /\ ConnTyped' /\ HistoryTyped'
    BY <1>1, <1>4 DEF EndOfInput, QueuesTyped, ThreadTyped, ConnTyped, HistoryTyped, netVars, connVars,
                      history
  <2>5. QED BY <2>3, <2>4, TypingNext
<1>5. CASE RepeatLine
  <2>1. repeating \in {"chat", "useItem"} BY <1>1, <1>5 DEF RepeatLine, PlacesTyped
  <2>2. QueuesTyped' /\ ThreadTyped' BY <1>2, <1>5, <2>1 DEF RepeatLine
  <2>3. PlacesTyped' /\ ConnTyped' /\ HistoryTyped'
    BY <1>1, <1>5 DEF RepeatLine, PlacesTyped, ConnTyped, HistoryTyped, connVars, history
  <2>4. QED BY <2>2, <2>3, TypingNext
<1>6. QED BY <1>3, <1>4, <1>5 DEF Input

(* The counts of packets read stay counts.                                 *)
LEMMA CountTyped == ASSUME NEW S, NEW f \in [S -> 0 .. 3], NEW P
                    PROVE  Count(f, P) \in [S -> 0 .. 3]
BY DEF Count

(* The network thread keeps the types.                                     *)
LEMMA NetTyped == ASSUME IInv, Network PROVE TypeOK'
<1>1. TypeOK /\ QueuesTyped /\ PlacesTyped /\ ThreadTyped /\ ConnTyped /\ HistoryTyped
  BY Typing DEF IInv
<1> USE <1>1
<1>2. CASE NetStart \/ NetHandleDone \/ NetReceiveThrows \/ NetReply
  <2>1. QueuesTyped' /\ ThreadTyped'
    BY <1>2 DEF NetStart, NetHandleDone, NetReceiveThrows, NetReply, AtHandler, QueuesTyped, ThreadTyped,
                mainVars
  <2>2. PlacesTyped' /\ ConnTyped' /\ HistoryTyped'
    BY <1>2 DEF NetStart, NetHandleDone, NetReceiveThrows, NetReply, PlacesTyped, ConnTyped, HistoryTyped,
                mainVars, connVars, history
  <2>3. QED BY <2>1, <2>2, TypingNext
<1>3. CASE NetPoll \/ NetDestroyListener
  <2>1. << >> \in Seq(Events) OBVIOUS
  <2>2. QueuesTyped' BY <1>3, <2>1 DEF NetPoll, NetDestroyListener, QueuesTyped, mainVars
  <2>3. ThreadTyped' BY <1>3 DEF NetPoll, NetDestroyListener, ThreadTyped
  <2>4. PlacesTyped' /\ ConnTyped' /\ HistoryTyped'
    BY <1>3 DEF NetPoll, NetDestroyListener, PlacesTyped, ConnTyped, HistoryTyped, mainVars, connVars,
                history
  <2>5. QED BY <2>2, <2>3, <2>4, TypingNext
<1>4. CASE NetHandle
  <2>1. Head(netBatch) \in Events /\ Head(netBatch) \in Content(netBatch) /\ Tail(netBatch) \in Seq(Events)
    BY <1>4, HeadIn, RestTyped DEF NetHandle, QueuesTyped
  <2>2. Head(netBatch).id \in {"ReceivedPacket", "SendChatMessage"}
    BY <1>4, <2>1 DEF NetHandle, IInv, QueueInv, NetBatchOK, NetHandles
  <2>3. netPushes' \in Seq(Events) BY <1>4, <2>1, <2>2, ReactionIn DEF NetHandle
  <2>4. QueuesTyped' BY <1>4, <2>1, <2>3 DEF NetHandle, QueuesTyped, mainVars
  <2>5. ThreadTyped' BY <1>4 DEF NetHandle, AtHandler, ThreadTyped
  <2>6. PlacesTyped' /\ ConnTyped' /\ HistoryTyped'
    BY <1>4 DEF NetHandle, PlacesTyped, ConnTyped, HistoryTyped, mainVars, connVars, history
  <2>7. QED BY <2>4, <2>5, <2>6, TypingNext
<1>5. CASE NetPush
  <2>1. Head(netPushes) \in Events /\ Tail(netPushes) \in Seq(Events) /\ Push(Head(netPushes))
    BY <1>5, PushedEvents, RestTyped DEF NetPush
  <2>2. {mainBatch, mainPushes, netBatch, netPushes}' \subseteq Seq(Events)
    BY <1>5, <2>1 DEF NetPush, QueuesTyped
  <2>3. QueuesTyped' BY <2>1, <2>2, PushTyped
  <2>4. ThreadTyped' BY <1>5 DEF NetPush, ThreadTyped
  <2>5. PlacesTyped' /\ ConnTyped' /\ HistoryTyped'
    BY <1>5 DEF NetPush, PlacesTyped, ConnTyped, HistoryTyped, connVars, history
  <2>6. QED BY <2>3, <2>4, <2>5, TypingNext
<1>6. CASE NetSend \/ NetSendThrows
  <2>1. Head(netBatch) \in Events /\ Tail(netBatch) \in Seq(Events)
    BY <1>6, HeadIn, RestTyped DEF NetSend, NetSendThrows, QueuesTyped
  <2>2. Head(netBatch).arg \in Items BY <2>1 DEF Events
  <2>3. written' \in Seq(Items)
    <3>1. written \in Seq(Items) BY DEF HistoryTyped
    <3>2. Append(written, Head(netBatch).arg) \in Seq(Items) BY <2>2, <3>1, AppendIn
    <3>3. written' \in {written, Append(written, Head(netBatch).arg)}
      BY <1>6 DEF NetSend, NetSendThrows, history
    <3>4. QED BY <3>1, <3>2, <3>3
  <2>4. QueuesTyped' BY <1>6, <2>1 DEF NetSend, NetSendThrows, QueuesTyped, mainVars
  <2>5. ThreadTyped' BY <1>6 DEF NetSend, NetSendThrows, AtHandler, ThreadTyped
  <2>6. HistoryTyped' BY <1>6, <2>3 DEF NetSend, NetSendThrows, HistoryTyped, history
  <2>7. PlacesTyped' /\ ConnTyped'
    BY <1>6 DEF NetSend, NetSendThrows, PlacesTyped, ConnTyped, mainVars, connVars
  <2>8. QED BY <2>4, <2>5, <2>6, <2>7, TypingNext
<1>7. CASE NetReceive
  <2> DEFINE p == Head(toClient)
  <2>1. /\ p \in [name : PacketNames \cup {"keepAlive"}, n : Nat] /\ p = toClient[1] /\ 1 \in DOMAIN toClient
        /\ Tail(toClient) \in Seq([name : PacketNames \cup {"keepAlive"}, n : Nat])
        /\ Len(Tail(toClient)) <= Capacity
    <3>1. toClient # << >> /\ toClient \in Seq([name : PacketNames \cup {"keepAlive"}, n : Nat])
          /\ Len(toClient) <= Capacity /\ Capacity \in Nat
      BY <1>7, ClientAssumption DEF NetReceive, ConnTyped, ClientAssumption
    <3>2. Len(Tail(toClient)) = Len(toClient) - 1 /\ Len(toClient) \in Nat BY <3>1, TailIn
    <3>3. Len(Tail(toClient)) <= Capacity BY <3>1, <3>2
    <3>4. p = toClient[1] /\ 1 \in DOMAIN toClient BY <3>1
    <3>5. QED BY <3>1, <3>3, <3>4, HeadIn, TailIn
  <2> HIDE DEF p
  <2>2. read' \in 0 .. Len(serverLog)
    <3>1. p.name # "keepAlive" => p.n \in read + 1 .. Len(serverLog)
      BY <2>1 DEF IInv, ChannelInv, Numbered
    <3>2. read' = IF p.name = "keepAlive" THEN read ELSE p.n BY <1>7 DEF NetReceive, p
    <3>3. Len(serverLog) \in Nat BY DEF HistoryTyped
    <3>4. QED BY <3>1, <3>2, <3>3 DEF HistoryTyped
  <2>3. lag' \in [1 .. MaxPackets -> 0 .. 3] /\ lineLag' \in [1 .. MaxLines -> 0 .. 3]
    BY <1>7, CountTyped DEF NetReceive, HistoryTyped
  <2>4. HistoryTyped' BY <1>7, <2>2, <2>3 DEF NetReceive, HistoryTyped
  <2>5. ConnTyped' BY <1>7, <2>1 DEF NetReceive, ConnTyped, p
  <2>6. p.name # "keepAlive" => p \in Items BY <2>1 DEF Items, ItemNames
  <2>7. \/ UNCHANGED <<mainInbox, netInbox>>
        \/ Push(Event("ReceivedPacket", p)) /\ p \in Items
    <3>1. \/ UNCHANGED <<mainInbox, netInbox>>
          \/ Push(Event("ReceivedPacket", p)) /\ p.name # "keepAlive"
      <4>1. CASE p.name \in {"keepAlive", "unparsed"} BY <1>7, <4>1 DEF NetReceive, p
      <4>2. \/ p.name \in {"keepAlive", "unparsed"}
            \/ p.name # "keepAlive" /\ Push(Event("ReceivedPacket", p))
        BY <1>7, Zenon DEF NetReceive, p
      <4>3. QED BY <4>1, <4>2
    <3>2. QED BY <2>6, <3>1
  <2>8. {mainBatch, mainPushes, netBatch, netPushes}' \subseteq Seq(Events)
    BY <1>7 DEF NetReceive, QueuesTyped
  <2>9. QueuesTyped'
    <3>1. CASE UNCHANGED <<mainInbox, netInbox>> BY <2>8, <3>1 DEF QueuesTyped
    <3>2. CASE Push(Event("ReceivedPacket", p)) /\ p \in Items BY <2>8, <3>2, PushTyped, PushedEvents
    <3>3. QED BY <2>7, <3>1, <3>2
  <2>10. /\ netPc' \in {"reply", "check"} /\ netPc = "receive" /\ age' \in {0, age}
         /\ UNCHANGED <<clientAlive, mainRunning, repeating, closed, netPushes>>
    BY <1>7 DEF NetReceive
  <2>11. PlacesTyped' /\ ThreadTyped'
    <3>1. TimeoutAge \in Nat BY ClientAssumption DEF ClientAssumption
    <3>2. QED BY <2>10, <3>1 DEF PlacesTyped, ThreadTyped
  <2>12. QED BY <2>4, <2>5, <2>9, <2>11, TypingNext
<1>8. CASE NetCheckTimeout
  <2>1. UNCHANGED <<mainInbox, netInbox>> \/ Push(Event("ReceivedPacket", Item("disconnect", 0)))
    BY <1>8 DEF NetCheckTimeout
  <2>2. {mainBatch, mainPushes, netBatch, netPushes}' \subseteq Seq(Events)
    BY <1>8 DEF NetCheckTimeout, QueuesTyped
  <2>3. QueuesTyped'
    <3>1. CASE UNCHANGED <<mainInbox, netInbox>> BY <2>2, <3>1 DEF QueuesTyped
    <3>2. CASE Push(Event("ReceivedPacket", Item("disconnect", 0))) BY <2>2, <3>2, PushTyped, PushedEvents
    <3>3. QED BY <2>1, <3>1, <3>2
  <2>4. PlacesTyped' /\ ThreadTyped' /\ ConnTyped' /\ HistoryTyped'
    BY <1>8 DEF NetCheckTimeout, PlacesTyped, ThreadTyped, ConnTyped, HistoryTyped, connVars, history
  <2>5. QED BY <2>3, <2>4, TypingNext
<1>9. CASE NetCatch
  <2>1. {mainBatch, mainPushes, netBatch, netPushes}' \subseteq Seq(Events) BY <1>9 DEF NetCatch, QueuesTyped
  <2>2. QueuesTyped' BY <1>9, <2>1, PushTyped, PushedEvents DEF NetCatch
  <2>3. PlacesTyped' /\ ThreadTyped' /\ ConnTyped' /\ HistoryTyped'
    BY <1>9 DEF NetCatch, PlacesTyped, ThreadTyped, ConnTyped, HistoryTyped, connVars, history
  <2>4. QED BY <2>2, <2>3, TypingNext
<1>10. QED BY <1>2, <1>3, <1>4, <1>5, <1>6, <1>7, <1>8, <1>9 DEF Network

\* The steps of the server and of the clock.
Surroundings == (\E name \in Repertoire : ServerSend(name)) \/ ServerKeepAlive \/ ServerClose \/ Tick

(* The server and the clock keep the types.                                *)
LEMMA SurroundingsTyped == ASSUME IInv, Surroundings PROVE TypeOK'
<1>1. TypeOK /\ QueuesTyped /\ PlacesTyped /\ ThreadTyped /\ ConnTyped /\ HistoryTyped
  BY Typing DEF IInv
<1> USE <1>1
<1>2. ASSUME NEW name \in PacketNames \cup {"keepAlive"}, NEW n \in Nat,
             Len(toClient) < Capacity, toClient' = Append(toClient, Item(name, n))
      PROVE  ConnTyped'
  <2>1. Item(name, n) \in [name : PacketNames \cup {"keepAlive"}, n : Nat] BY DEF Item
  <2>2. Capacity \in Nat BY ClientAssumption DEF ClientAssumption
  <2>3. Len(toClient) \in Nat BY DEF ConnTyped
  <2>4. QED BY <1>2, <2>1, <2>2, <2>3, AppendIn DEF ConnTyped
<1>3. ASSUME NEW name \in Repertoire, ServerSend(name) PROVE TypeOK'
  <2>1. name \in PacketNames BY ClientAssumption DEF ClientAssumption
  <2>2. Len(serverLog) \in Nat /\ serverLog' \in Seq(PacketNames) /\ Len(serverLog') = Len(serverLog) + 1
    BY <1>3, <2>1, AppendIn DEF ServerSend, HistoryTyped
  <2>3. ConnTyped' BY <1>2, <1>3, <2>1, <2>2 DEF ServerSend
  <2>4. HistoryTyped' BY <1>3, <2>2 DEF ServerSend, HistoryTyped
  <2>5. QueuesTyped' /\ PlacesTyped' /\ ThreadTyped'
    BY <1>3 DEF ServerSend, QueuesTyped, PlacesTyped, ThreadTyped, mainVars, netVars
  <2>6. QED BY <2>3, <2>4, <2>5, TypingNext
<1>4. CASE ServerKeepAlive
  <2>1. ConnTyped' BY <1>2, <1>4 DEF ServerKeepAlive
  <2>2. QueuesTyped' /\ PlacesTyped' /\ ThreadTyped' /\ HistoryTyped'
    BY <1>4 DEF ServerKeepAlive, QueuesTyped, PlacesTyped, ThreadTyped, HistoryTyped, mainVars, netVars,
                history
  <2>3. QED BY <2>1, <2>2, TypingNext
<1>5. CASE ServerClose \/ Tick
  <2>1. PlacesTyped'
    <3>1. TimeoutAge \in Nat BY ClientAssumption DEF ClientAssumption
    <3>2. age' \in 0 .. TimeoutAge + 1 BY <1>5, <3>1 DEF ServerClose, Tick, PlacesTyped, netVars
    <3>3. closed' \in BOOLEAN BY <1>5 DEF ServerClose, Tick, PlacesTyped, connVars
    <3>4. UNCHANGED <<clientAlive, mainRunning, repeating, netPc>>
      BY <1>5 DEF ServerClose, Tick, mainVars, netVars
    <3>5. QED BY <3>2, <3>3, <3>4 DEF PlacesTyped
  <2>2. QueuesTyped' /\ ThreadTyped' /\ ConnTyped' /\ HistoryTyped'
    BY <1>5 DEF ServerClose, Tick, QueuesTyped, ThreadTyped, ConnTyped, HistoryTyped, mainVars, netVars,
                connVars, history
  <2>3. QED BY <2>1, <2>2, TypingNext
<1>6. QED BY <1>3, <1>4, <1>5 DEF Surroundings

-----------------------------------------------------------------------------
(* The connection and the place of the thread.                             *)

(* The thread blocks with an empty batch, and main goes on.                *)
LEMMA ThreadStep == ASSUME IInv, Next PROVE ThreadInv'
<1> USE DEF ThreadInv, Leaving
<1>1. ThreadInv /\ QueuesTyped BY Typing DEF IInv
<1>2. CASE Main
  <2>1. CASE MainPoll BY <1>1, <2>1 DEF MainPoll, netVars, history
  <2>2. CASE MainHandle
    <3>1. Head(mainBatch) \in Content(mainBatch) BY <1>1, <2>2, HeadIn DEF MainHandle, QueuesTyped
    <3>2. Head(mainBatch).id \notin {"Exit", "Disconnect"} BY <3>1 DEF IInv, QueueInv, MainOK
    <3>3. QED BY <1>1, <2>2, <3>2 DEF MainHandle, netVars
  <2>3. CASE MainPush BY <1>1, <2>3 DEF MainPush, history
  <2>4. QED BY <1>2, <2>1, <2>2, <2>3 DEF Main
<1>3. CASE Input BY <1>1, <1>3 DEF Input, TypeLine, EndOfInput, RepeatLine, netVars, history
<1>4. CASE Network
  BY <1>1, <1>4 DEF Network, NetStart, NetPoll, NetHandle, NetPush, NetSend, NetSendThrows, NetHandleDone,
                    NetReceive, NetReceiveThrows, NetReply, NetCheckTimeout, NetCatch, NetDestroyListener,
                    AtHandler, mainVars, history
<1>5. CASE Surroundings
  BY <1>1, <1>5 DEF Surroundings, ServerSend, ServerKeepAlive, ServerClose, Tick, mainVars, netVars,
                  history
<1>6. QED BY <1>2, <1>3, <1>4, <1>5 DEF Next, Input, Surroundings

(* Steps that do not touch what the invariant of the connection is about.  *)
LEMMA ChannelKept ==
    ASSUME ChannelInv, UNCHANGED <<toClient, serverLog, read, lineLog, lag, lineLag>>
    PROVE  ChannelInv'
BY DEF ChannelInv, Numbered

(* Every step keeps the connection in order, and a number not used yet has *)
(* no packet counted for it.                                               *)
LEMMA ChannelStep == ASSUME IInv, Next PROVE ChannelInv'
<1>1. ChannelInv /\ ConnTyped /\ HistoryTyped /\ Len(lineLog) \in Nat /\ Len(serverLog) \in Nat
      /\ Len(toClient) \in Nat
  BY Typing DEF IInv, ConnTyped, HistoryTyped
<1>2. CASE Main
  BY <1>1, <1>2, ChannelKept DEF Main, MainPoll, MainHandle, MainPush, connVars, history
<1>3. CASE EndOfInput \/ RepeatLine
  BY <1>1, <1>3, ChannelKept DEF EndOfInput, RepeatLine, connVars, history
<1>4. ASSUME NEW name \in {"chat", "useItem"}, TypeLine(name) PROVE ChannelInv'
  <2>1. Len(lineLog') = Len(lineLog) + 1 /\ Len(lineLog) < MaxLines /\ MaxLines \in Nat
    BY <1>1, <1>4, AppendIn, ClientAssumption DEF TypeLine, HistoryTyped, ClientAssumption
  <2>2. QED BY <1>1, <1>4, <2>1 DEF TypeLine, ChannelInv, Numbered, connVars
<1>5. CASE NetStart \/ NetPoll \/ NetHandle \/ NetPush \/ NetSend \/ NetSendThrows \/ NetHandleDone
           \/ NetReceiveThrows \/ NetReply \/ NetCheckTimeout \/ NetCatch \/ NetDestroyListener
  BY <1>1, <1>5, ChannelKept
     DEF NetStart, NetPoll, NetHandle, NetPush, NetSend, NetSendThrows, NetHandleDone, NetReceiveThrows,
         NetReply, NetCheckTimeout, NetCatch, NetDestroyListener, connVars, history
<1>6. CASE NetReceive
  <2>1. /\ toClient # << >> /\ toClient' = Tail(toClient)
        /\ lag' = Count(lag, 1 .. read) /\ lineLag' = Count(lineLag, 1 .. Len(lineLog))
        /\ read' = IF Numbered(Head(toClient)) THEN Head(toClient).n ELSE read
        /\ UNCHANGED <<serverLog, lineLog>>
    BY <1>6 DEF NetReceive, Numbered
  <2>2. /\ Len(toClient') = Len(toClient) - 1
        /\ \A i \in DOMAIN toClient' : i + 1 \in DOMAIN toClient /\ toClient'[i] = toClient[i + 1]
        /\ DOMAIN toClient' \subseteq Int
        /\ 1 \in DOMAIN toClient /\ Head(toClient) = toClient[1]
    BY <1>1, <2>1 DEF ConnTyped
  <2>3. read' \in read .. Len(serverLog)
    BY <1>1, <2>1, <2>2, SMTT(30) DEF ChannelInv, HistoryTyped
  <2>4. \A i \in DOMAIN toClient' :
           Numbered(toClient'[i]) => toClient'[i].n \in read' + 1 .. Len(serverLog')
    <3>1. ASSUME NEW i \in DOMAIN toClient', Numbered(toClient'[i])
          PROVE  toClient'[i].n \in read' + 1 .. Len(serverLog')
      <4>1. toClient[i + 1].n \in read + 1 .. Len(serverLog) BY <1>1, <2>2, <3>1 DEF ChannelInv
      <4>2. Numbered(toClient[1]) => toClient[1].n < toClient[i + 1].n
        <5>1. 1 < i + 1 BY <1>1, <2>1, <2>2 DEF ConnTyped
        <5>2. QED BY <1>1, <2>2, <3>1, <5>1 DEF ChannelInv
      <4>3. toClient[i + 1].n > read'
        BY <1>1, <2>1, <2>2, <4>1, <4>2 DEF HistoryTyped
      <4>4. QED BY <1>1, <2>1, <2>2, <2>3, <4>1, <4>3 DEF HistoryTyped
    <3>2. QED BY <3>1
  <2>5. \A i, j \in DOMAIN toClient' :
           i < j /\ Numbered(toClient'[i]) /\ Numbered(toClient'[j]) => toClient'[i].n < toClient'[j].n
    BY <1>1, <2>2 DEF ChannelInv
  <2>6. /\ \A n \in 1 .. MaxPackets : n > read' => lag'[n] = 0
        /\ \A n \in 1 .. MaxLines : n > Len(lineLog') => lineLag'[n] = 0
    BY <1>1, <2>1, <2>3 DEF ChannelInv, Count, HistoryTyped
  <2>7. QED BY <1>1, <2>1, <2>4, <2>5, <2>6 DEF ChannelInv, Numbered
<1>7. ASSUME NEW p, toClient' = Append(toClient, p), UNCHANGED <<read, lineLog, lag, lineLag>>,
             \/ ~Numbered(p) /\ UNCHANGED serverLog
             \/ p.n = Len(serverLog) + 1 /\ Len(serverLog') = Len(serverLog) + 1 /\ Len(serverLog) < MaxPackets
      PROVE  ChannelInv'
  <2>1. /\ DOMAIN toClient = 1 .. Len(toClient) /\ DOMAIN toClient' = 1 .. Len(toClient) + 1
        /\ \A i \in DOMAIN toClient : toClient'[i] = toClient[i]
        /\ toClient'[Len(toClient) + 1] = p
    BY <1>1, <1>7 DEF ConnTyped
  <2>2. \A i \in DOMAIN toClient : Numbered(toClient[i]) => toClient[i].n \in read + 1 .. Len(serverLog)
    BY <1>1 DEF ChannelInv
  <2>3. read \in 0 .. Len(serverLog) /\ MaxPackets \in Nat
    BY <1>1, ClientAssumption DEF HistoryTyped, ClientAssumption
  <2>4. \A i \in DOMAIN toClient' :
           Numbered(toClient'[i]) => toClient'[i].n \in read' + 1 .. Len(serverLog')
    BY <1>1, <1>7, <2>1, <2>2, <2>3
  <2>5. \A i, j \in DOMAIN toClient' :
           i < j /\ Numbered(toClient'[i]) /\ Numbered(toClient'[j]) => toClient'[i].n < toClient'[j].n
    BY <1>1, <1>7, <2>1, <2>2, <2>3 DEF ChannelInv
  <2>6. Len(serverLog') <= MaxPackets BY <1>1, <1>7, <2>3 DEF ChannelInv
  <2>7. QED BY <1>1, <1>7, <2>4, <2>5, <2>6 DEF ChannelInv, Numbered
<1>8. ASSUME NEW name \in Repertoire, ServerSend(name) PROVE ChannelInv'
  <2>1. Len(serverLog') = Len(serverLog) + 1 BY <1>1, <1>8 DEF ServerSend, HistoryTyped
  <2>2. QED BY <1>7, <1>8, <2>1 DEF ServerSend, Item
<1>9. CASE ServerKeepAlive
  BY <1>7, <1>9 DEF ServerKeepAlive, Item, Numbered, history
<1>10. CASE ServerClose \/ Tick
  BY <1>1, <1>10, ChannelKept DEF ServerClose, Tick, connVars, history
<1>11. QED BY <1>2, <1>3, <1>4, <1>5, <1>6, <1>8, <1>9, <1>10 DEF Next, Network

-----------------------------------------------------------------------------
(* How long what is in the queues has waited.                              *)

(* An event that is right where it is stays right while no packet is read  *)
(* and the thread does not come back to its handlers.                      *)
LEMMA StillOK ==
    ASSUME UNCHANGED <<read, lag, lineLag>>, Lines \subseteq Lines', Returning' => Returning, NEW e
    PROVE  /\ NetBatchOK(e) => NetBatchOK(e)'
           /\ NetPushOK(e) => NetPushOK(e)'
           /\ MainOK(e) => MainOK(e)'
<1> USE DEF Fresh, Typed, WaitsIn, ReadPackets
<1>1. NetBatchOK(e) => NetBatchOK(e)' BY DEF NetBatchOK
<1>2. NetPushOK(e) => NetPushOK(e)' BY DEF NetPushOK
<1>3. MainOK(e) => MainOK(e)' BY DEF MainOK
<1>4. QED BY <1>1, <1>2, <1>3

(* So does one in the inbox of the network thread, until it is polled.     *)
LEMMA StillInbox ==
    ASSUME UNCHANGED <<read, lag, lineLag>>, Lines \subseteq Lines', Returning' => Returning,
           Handling' => Handling, netPc = "leaving" => netPc' = "leaving",
           Leaving \/ netPc \in {"check", "loop"} => Leaving' \/ netPc' \in {"check", "loop"},
           NEW e, NetInboxOK(e)
    PROVE  NetInboxOK(e)'
BY DEF Fresh, Typed, WaitsIn, ReadPackets, NetInboxOK

(* A step that reads no packet and brings nothing to the queues but pushes *)
(* that are right keeps them right.                                        *)
LEMMA QueueKept ==
    ASSUME QueueInv, UNCHANGED <<read, lag, lineLag>>, Lines \subseteq Lines', Returning' => Returning,
           \/ netInbox' = << >>
           \/ /\ Handling' => Handling
              /\ netPc = "leaving" => netPc' = "leaving"
              /\ Leaving \/ netPc \in {"check", "loop"} => Leaving' \/ netPc' \in {"check", "loop"}
              /\ \A e \in Content(netInbox') : e \in Content(netInbox) \/ NetInboxOK(e)',
           Content(netBatch') \subseteq Content(netBatch),
           Content(netPushes') \subseteq Content(netPushes),
           \A e \in Content(mainInbox') : e \in Content(mainInbox) \/ MainOK(e)',
           Content(mainBatch') \subseteq Content(mainBatch) \cup Content(mainInbox),
           Content(mainPushes') \subseteq Content(mainPushes)
    PROVE  QueueInv'
<1>1. \A e \in Content(netInbox') : NetInboxOK(e)'
  <2>1. CASE netInbox' = << >> BY <2>1 DEF Content
  <2>2. CASE netInbox' # << >> BY <2>2, StillInbox DEF QueueInv
  <2>3. QED BY <2>1, <2>2
<1>2. \A e \in Content(netBatch') : NetBatchOK(e)' BY StillOK DEF QueueInv
<1>3. \A e \in Content(netPushes') : NetPushOK(e)' BY StillOK DEF QueueInv
<1>4. \A e \in Content(mainInbox') \cup Content(mainBatch') \cup Content(mainPushes') : MainOK(e)'
  BY StillOK DEF QueueInv
<1>5. \A e \in Content(mainPushes') : e.id = "SendPacket" /\ e.arg.name = "UseItem" BY DEF QueueInv
<1>6. QED BY <1>1, <1>2, <1>3, <1>4, <1>5 DEF QueueInv

(* In particular one that leaves the thread where it is.                   *)
LEMMA QueuePushed ==
    ASSUME QueueInv, UNCHANGED <<netPc, read, lag, lineLag>>, Lines \subseteq Lines',
           \A e \in Content(netInbox') : e \in Content(netInbox) \/ NetInboxOK(e)',
           Content(netBatch') \subseteq Content(netBatch),
           Content(netPushes') \subseteq Content(netPushes),
           \A e \in Content(mainInbox') : e \in Content(mainInbox) \/ MainOK(e)',
           Content(mainBatch') \subseteq Content(mainBatch) \cup Content(mainInbox),
           Content(mainPushes') \subseteq Content(mainPushes)
    PROVE  QueueInv'
BY QueueKept DEF Returning, Handling, Leaving

(* The steps of main.                                                      *)
LEMMA MainQueues == ASSUME IInv, Main PROVE QueueInv'
<1>1. TypeOK /\ QueuesTyped /\ QueueInv BY Typing DEF IInv
<1>2. Content(<< >>) = {} /\ \A x : Content(<<x>>) = {x} BY DEF Content
<1>3. CASE MainPoll
  <2>1. /\ UNCHANGED <<netPc, read, lag, lineLag, lineLog, netInbox, netBatch, netPushes, mainPushes>>
        /\ mainInbox' = << >> /\ mainBatch' = mainInbox
    BY <1>3 DEF MainPoll, netVars, history
  <2>2. Lines \subseteq Lines' BY <2>1 DEF Lines
  <2>3. QED BY <1>1, <1>2, <2>1, <2>2, QueuePushed
<1>4. CASE MainHandle
  <2>0. PICK e, u : e = Head(mainBatch) /\ u = Event("SendPacket", Item("UseItem", e.arg.n))
    OBVIOUS
  <2>1. /\ UNCHANGED <<netPc, read, lag, lineLag, lineLog, netInbox, netBatch, netPushes, mainInbox>>
        /\ mainBatch # << >> /\ mainBatch' = Tail(mainBatch)
        /\ \/ mainPushes' = << >>
           \/ e.id = "SoundEffect" /\ e.arg.name = "splash" /\ mainPushes' = <<u>>
    BY <1>4, <2>0 DEF MainHandle, netVars
  <2>2. e \in Events /\ MainOK(e) /\ e.arg.n \in Nat
    <3>1. e \in Events /\ e \in Content(mainBatch) BY <1>1, <2>0, <2>1, HeadIn DEF QueuesTyped
    <3>2. QED BY <1>1, <3>1 DEF QueueInv, Events, Items
  <2>3. u.id = "SendPacket" /\ u.arg.name = "UseItem" /\ u.arg.n = e.arg.n
    <3>1. "SendPacket" \in EventIds /\ "UseItem" \in ItemNames BY DEF EventIds, NetHandles, ItemNames
    <3>2. QED BY <2>0, <2>2, <3>1, EventIn, ItemIn
  <2>4. e.id = "SoundEffect" /\ e.arg.name = "splash" => MainOK(u)
    BY <2>2, <2>3 DEF MainOK
  <2>5. Content(mainBatch') \subseteq Content(mainBatch) BY <1>1, <2>1, RestTyped
  <2>6. Lines' = Lines /\ Content(mainInbox') = Content(mainInbox) BY <2>1 DEF Lines
  <2>7. \A x \in Content(mainPushes') : MainOK(x)' /\ x.id = "SendPacket" /\ x.arg.name = "UseItem"
    <3>1. CASE mainPushes' = << >> BY <1>2, <3>1
    <3>2. CASE e.id = "SoundEffect" /\ e.arg.name = "splash" /\ mainPushes' = <<u>>
      <4>1. MainOK(u)' BY <2>1, <2>4, <3>2 DEF MainOK, ReadPackets, Returning
      <4>2. QED BY <1>2, <2>3, <3>2, <4>1
    <3>3. QED BY <2>1, <3>1, <3>2
  <2>8. \A x \in Content(netInbox') : NetInboxOK(x)'
    BY <1>1, <2>1, <2>6, StillInbox DEF QueueInv, Returning, Handling, Leaving
  <2>9. /\ \A x \in Content(netBatch') : NetBatchOK(x)'
        /\ \A x \in Content(netPushes') : NetPushOK(x)'
        /\ \A x \in Content(mainInbox') \cup Content(mainBatch') : MainOK(x)'
    BY <1>1, <2>1, <2>5, <2>6, StillOK DEF QueueInv, Returning
  <2>10. QED BY <2>7, <2>8, <2>9 DEF QueueInv
<1>5. CASE MainPush
  <2>0. PICK e : e = Head(mainPushes) OBVIOUS
  <2>1. /\ UNCHANGED <<netPc, read, lag, lineLag, lineLog, netBatch, netPushes, mainBatch>>
        /\ mainPushes # << >> /\ mainPushes' = Tail(mainPushes) /\ Push(e)
    BY <1>5, <2>0 DEF MainPush, history
  <2>2. /\ e \in Events /\ MainOK(e) /\ e.id = "SendPacket" /\ e.arg.name = "UseItem"
    BY <1>1, <2>0, <2>1, PushedEvents DEF QueueInv
  <2>3. /\ Content(netInbox') \subseteq Content(netInbox) \cup {e} /\ UNCHANGED mainInbox
    BY <1>1, <2>1, <2>2, PushEffect DEF MainHandles
  <2>4. NetInboxOK(e)'
    <3>1. e.arg.n \in ReadPackets' /\ (Returning' => lag'[e.arg.n] >= 1)
      BY <2>1, <2>2 DEF MainOK, ReadPackets, Returning
    <3>2. QED BY <2>2, <3>1 DEF NetInboxOK, NetHandles, IsReply
  <2>5. Lines \subseteq Lines' BY <2>1 DEF Lines
  <2>6. Content(mainPushes') \subseteq Content(mainPushes) BY <1>1, <2>1, RestTyped
  <2>7. \A x \in Content(netInbox') : x \in Content(netInbox) \/ NetInboxOK(x)' BY <2>3, <2>4
  <2>8. QED BY <1>1, <2>1, <2>3, <2>5, <2>6, <2>7, QueuePushed
<1>6. QED BY <1>3, <1>4, <1>5 DEF Main

(* The steps of the input thread.                                          *)
LEMMA InputQueues == ASSUME IInv, Input PROVE QueueInv'
<1>1. TypeOK /\ QueuesTyped /\ HistoryTyped /\ QueueInv BY Typing DEF IInv
<1>2. ASSUME NEW name \in {"chat", "useItem"}, NEW n \in Nat, PushLine(name, n),
             n \in Lines' \cup {0}, n # 0 => lineLag[n] = 0, Lines \subseteq Lines',
             UNCHANGED <<netPc, read, lag, lineLag, netBatch, netPushes, mainBatch, mainPushes>>
      PROVE  QueueInv'
  <2>1. PICK e \in Events : /\ Push(e) /\ e.arg.n = n
                            /\ \/ e.id = "SendChatMessage"
                               \/ e.id = "SendPacket" /\ e.arg.name = "typedUseItem"
    BY <1>2, PushedEvents
  <2>2. /\ Content(netInbox') \subseteq Content(netInbox) \cup {e} /\ UNCHANGED mainInbox
    BY <1>1, <2>1, PushEffect DEF MainHandles
  <2>3. NetInboxOK(e)'
    BY <1>2, <2>1 DEF NetInboxOK, NetHandles, IsReply, Typed, WaitsIn
  <2>4. \A x \in Content(netInbox') : x \in Content(netInbox) \/ NetInboxOK(x)' BY <2>2, <2>3
  <2>5. QED BY <1>1, <1>2, <2>2, <2>4, QueuePushed
<1>3. ASSUME NEW name \in {"chat", "useItem"}, TypeLine(name) PROVE QueueInv'
  <2>1. /\ Len(lineLog) \in Nat /\ Len(lineLog') = Len(lineLog) + 1
        /\ Len(lineLog) < MaxLines /\ MaxLines \in Nat
    BY <1>1, <1>3, AppendIn, ClientAssumption DEF TypeLine, HistoryTyped, ClientAssumption
  <2>2. Lines \subseteq Lines' /\ Len(lineLog) + 1 \in Lines' BY <2>1 DEF Lines
  <2>3. lineLag[Len(lineLog) + 1] = 0 BY <2>1 DEF IInv, ChannelInv
  <2>4. QED BY <1>2, <1>3, <2>1, <2>2, <2>3 DEF TypeLine
<1>4. CASE RepeatLine
  <2>1. repeating \in {"chat", "useItem"} BY <1>1, <1>4 DEF RepeatLine, TypeOK
  <2>2. Lines \subseteq Lines' BY <1>4 DEF RepeatLine, history, Lines
  <2>3. QED BY <1>2, <1>4, <2>1, <2>2 DEF RepeatLine, history
<1>5. CASE EndOfInput
  <2>1. UNCHANGED <<netPc, read, lag, lineLag, lineLog, netInbox, netBatch, netPushes, mainInbox,
                    mainBatch, mainPushes>>
    BY <1>5 DEF EndOfInput, netVars, history
  <2>2. Lines \subseteq Lines' BY <2>1 DEF Lines
  <2>3. QED BY <1>1, <2>1, <2>2, QueuePushed
<1>6. QED BY <1>3, <1>4, <1>5 DEF Input

(* The steps of the server and of the clock.                               *)
LEMMA SurroundingsQueues == ASSUME IInv, Surroundings PROVE QueueInv'
<1>1. UNCHANGED <<netPc, read, lag, lineLag, lineLog, netInbox, netBatch, netPushes, mainInbox,
                  mainBatch, mainPushes>>
  BY DEF Surroundings, ServerSend, ServerKeepAlive, ServerClose, Tick, mainVars, netVars, history
<1>2. Lines \subseteq Lines' BY <1>1 DEF Lines
<1>3. QED BY <1>1, <1>2, QueuePushed DEF IInv

(* ReceivePacket counts for everything that waits, and what it pushes is   *)
(* fresh.                                                                  *)
LEMMA ReceiveQueues == ASSUME IInv, NetReceive PROVE QueueInv'
<1>1. TypeOK /\ QueuesTyped /\ ThreadTyped /\ ConnTyped /\ HistoryTyped /\ QueueInv /\ ThreadInv /\ ChannelInv
  BY Typing DEF IInv
<1>2. Content(<< >>) = {} BY DEF Content
<1>3. PICK p : p = Head(toClient) OBVIOUS
<1>4. /\ netPc = "receive" /\ netPc' \in {"reply", "check"} /\ toClient # << >>
      /\ lag' = Count(lag, 1 .. read) /\ lineLag' = Count(lineLag, 1 .. Len(lineLog))
      /\ read' = IF p.name = "keepAlive" THEN read ELSE p.n
      /\ UNCHANGED <<lineLog, netBatch, netPushes, mainBatch, mainPushes>>
  BY <1>3 DEF NetReceive
<1>5. \/ UNCHANGED <<mainInbox, netInbox>>
      \/ p.name # "keepAlive" /\ Push(Event("ReceivedPacket", p)) /\ netPc' = "check"
  <2>1. CASE p.name \in {"keepAlive", "unparsed"} BY <1>3, <2>1 DEF NetReceive
  <2>2. \/ p.name \in {"keepAlive", "unparsed"}
        \/ p.name # "keepAlive" /\ Push(Event("ReceivedPacket", p)) /\ netPc' = "check"
    BY <1>3, Zenon DEF NetReceive
  <2>3. QED BY <2>1, <2>2
<1>6. netBatch = << >> /\ netPushes = << >> BY <1>1, <1>4 DEF ThreadInv, ThreadTyped, Leaving
<1>7. /\ p \in [name : PacketNames \cup {"keepAlive"}, n : Nat]
      /\ p.name # "keepAlive" => p.n \in read + 1 .. Len(serverLog)
  <2>1. p = toClient[1] /\ 1 \in DOMAIN toClient BY <1>1, <1>3, <1>4 DEF ConnTyped
  <2>2. p \in [name : PacketNames \cup {"keepAlive"}, n : Nat]
    BY <1>1, <1>3, <1>4, HeadIn DEF ConnTyped
  <2>3. p.name # "keepAlive" => p.n \in read + 1 .. Len(serverLog)
    BY <1>1, <2>1 DEF ChannelInv, Numbered
  <2>4. QED BY <2>2, <2>3
<1>8. /\ read \in Nat /\ read' \in Nat /\ read <= read' /\ read <= MaxPackets /\ read' <= MaxPackets
      /\ MaxPackets \in Nat
  <2>1. Len(serverLog) \in Nat /\ Len(serverLog) <= MaxPackets /\ MaxPackets \in Nat
    BY <1>1, ClientAssumption DEF HistoryTyped, ChannelInv, ClientAssumption
  <2>2. QED BY <1>1, <1>4, <1>7, <2>1 DEF HistoryTyped
\* What the counts become.
<1>9. /\ \A n \in 1 .. read : n \in ReadPackets' /\ lag'[n] = (IF lag[n] < 3 THEN lag[n] + 1 ELSE lag[n])
      /\ \A n \in 1 .. MaxPackets : lag[n] \in 0 .. 3
      /\ \A n \in ReadPackets : n \in ReadPackets' /\ lag'[n] >= 1 /\ (lag[n] = 0 => lag'[n] = 1)
  <2>1. \A n \in 1 .. read : n \in DOMAIN lag BY <1>1, <1>8 DEF HistoryTyped
  <2>2. \A n \in 1 .. read : n \in ReadPackets' BY <1>8 DEF ReadPackets
  <2>3. \A n \in 1 .. read : lag'[n] = (IF lag[n] < 3 THEN lag[n] + 1 ELSE lag[n])
    BY <1>4, <2>1 DEF Count
  <2>4. \A n \in 1 .. MaxPackets : lag[n] \in 0 .. 3 BY <1>1 DEF HistoryTyped
  <2>5. \A n \in 1 .. read : n \in 1 .. MaxPackets BY <1>8
  <2>6. QED BY <2>2, <2>3, <2>4, <2>5 DEF ReadPackets
<1>10. /\ Lines' = Lines
       /\ \A n \in Lines : (lineLag[n] = 0 => lineLag'[n] = 1) /\ (lineLag[n] = 1 => lineLag'[n] = 2)
  <2>1. Len(lineLog) \in Nat /\ Len(lineLog) <= MaxLines /\ MaxLines \in Nat
    BY <1>1, ClientAssumption DEF HistoryTyped, ChannelInv, ClientAssumption
  <2>2. \A n \in Lines : n \in DOMAIN lineLag BY <1>1, <2>1 DEF HistoryTyped, Lines
  <2>3. QED BY <1>4, <2>2 DEF Count, Lines
<1>11. ~Handling' /\ Returning' /\ Handling /\ ~Leaving BY <1>4 DEF Handling, Returning, Leaving
<1>12. ASSUME NEW e, NetInboxOK(e) PROVE NetInboxOK(e)'
  <2>1. e.id # "ReceivedPacket" /\ e.id # "NetworkClientException" /\ e.id \in NetHandles
    BY <1>4, <1>11, <1>12 DEF NetInboxOK
  <2>2. e.id = "SendChatMessage" => Typed(e.arg)' /\ WaitsIn(e.arg, {0, 1})'
    <3>1. e.id = "SendChatMessage" => Typed(e.arg) /\ WaitsIn(e.arg, {0}) BY <1>11, <1>12 DEF NetInboxOK
    <3>2. QED BY <1>10, <3>1 DEF Typed, WaitsIn
  <2>3. CASE e.id = "SendPacket"
    <3>1. IsReply(e.arg) => e.arg.n \in ReadPackets' /\ lag'[e.arg.n] = 1
      BY <1>9, <1>11, <1>12, <2>3 DEF NetInboxOK
    <3>2. e.arg.name = "UseItem" => e.arg.n \in ReadPackets' /\ lag'[e.arg.n] >= 1
      BY <1>9, <1>12, <2>3 DEF NetInboxOK
    <3>3. e.arg.name = "typedUseItem" => Typed(e.arg)' /\ WaitsIn(e.arg, {0, 1})'
      <4>1. e.arg.name = "typedUseItem" => Typed(e.arg) /\ WaitsIn(e.arg, {0})
        BY <1>11, <1>12, <2>3 DEF NetInboxOK
      <4>2. QED BY <1>10, <4>1 DEF Typed, WaitsIn
    <3>4. e.arg.name = "ChatMessage" => Typed(e.arg)' /\ WaitsIn(e.arg, {1, 2})'
      <4>1. e.arg.name = "ChatMessage" => Typed(e.arg) /\ WaitsIn(e.arg, {0, 1})
        BY <1>11, <1>12, <2>3 DEF NetInboxOK
      <4>2. QED BY <1>10, <4>1 DEF Typed, WaitsIn
    <3>5. QED BY <1>11, <2>1, <2>3, <3>1, <3>2, <3>3, <3>4 DEF NetInboxOK
  <2>4. CASE e.id # "SendPacket" BY <1>11, <2>1, <2>2, <2>4 DEF NetInboxOK
  <2>5. QED BY <2>3, <2>4
<1>13. ASSUME NEW e, MainOK(e) PROVE MainOK(e)'
  BY <1>9, <1>13 DEF MainOK
<1>14. ASSUME p.name # "keepAlive", Push(Event("ReceivedPacket", p)), netPc' = "check"
       PROVE  /\ UNCHANGED mainInbox
              /\ \A e \in Content(netInbox') : e \in Content(netInbox) \/ NetInboxOK(e)'
  <2>0. PICK r : r = Event("ReceivedPacket", p) OBVIOUS
  <2>1. p \in Items BY <1>7, <1>14 DEF Items, ItemNames
  <2>2. r \in Events /\ r.id = "ReceivedPacket" /\ r.arg = p
    BY <1>1, <2>0, <2>1, PushedEvents, EventIn DEF Event, IInv
  <2>3. Content(netInbox') \subseteq Content(netInbox) \cup {r} /\ UNCHANGED mainInbox
    BY <1>1, <1>14, <2>0, <2>2, PushEffect DEF MainHandles
  <2>4. Fresh(p)'
    <3>1. p.n = read' /\ p.n > read /\ p.n \in 1 .. MaxPackets BY <1>4, <1>7, <1>8, <1>14
    <3>2. lag[p.n] = 0 /\ p.n \notin 1 .. read /\ p.n \in DOMAIN lag
      BY <1>1, <1>8, <3>1 DEF ChannelInv, HistoryTyped
    <3>3. lag'[p.n] = 0 BY <1>4, <3>2 DEF Count
    <3>4. p.n \in ReadPackets' BY <1>8, <3>1 DEF ReadPackets
    <3>5. QED BY <3>3, <3>4 DEF Fresh
  <2>5. NetInboxOK(r)' BY <1>14, <2>2, <2>4 DEF NetInboxOK, NetHandles
  <2>6. QED BY <2>3, <2>5
<1>15. /\ \A e \in Content(netInbox') : e \in Content(netInbox) \/ NetInboxOK(e)'
       /\ UNCHANGED mainInbox
  BY <1>5, <1>14
<1>16. \A e \in Content(netInbox') : NetInboxOK(e)' BY <1>1, <1>12, <1>15 DEF QueueInv
<1>17. \A e \in Content(mainInbox') \cup Content(mainBatch') \cup Content(mainPushes') : MainOK(e)'
  BY <1>1, <1>4, <1>13, <1>15 DEF QueueInv
<1>18. QED BY <1>1, <1>2, <1>4, <1>6, <1>16, <1>17 DEF QueueInv

(* The other steps of the network thread.                                  *)
LEMMA NetQueues == ASSUME IInv, Network PROVE QueueInv'
<1>1. TypeOK /\ QueuesTyped /\ ThreadTyped /\ QueueInv /\ ThreadInv BY Typing DEF IInv
<1>2. Content(<< >>) = {} BY DEF Content
<1>3. CASE NetStart
  <2>1. /\ netInbox = << >> /\ netBatch = << >> /\ netPushes = << >> /\ read = 0
        /\ UNCHANGED <<netInbox, netBatch, netPushes, mainInbox, mainBatch, mainPushes, read>>
    BY <1>1, <1>3 DEF NetStart, ThreadTyped, ThreadInv, mainVars, history
  <2>2. \A e : MainOK(e) => MainOK(e)' BY <2>1 DEF MainOK, ReadPackets
  <2>3. QED BY <1>1, <1>2, <2>1, <2>2 DEF QueueInv
<1>4. CASE NetPoll
  <2>1. /\ netPc = "loop" /\ netPc' = "handle" /\ netBatch' = netInbox /\ netInbox' = << >>
        /\ UNCHANGED <<netPushes, mainInbox, mainBatch, mainPushes, read, lag, lineLag, lineLog>>
    BY <1>4 DEF NetPoll, mainVars, history
  <2>2. netPushes = << >> BY <1>1, <2>1 DEF ThreadTyped
  <2>3. Returning /\ ~Returning' /\ Lines' = Lines BY <2>1 DEF Returning, Lines
  <2>4. \A e : NetInboxOK(e) => NetBatchOK(e)'
    BY <2>1, <2>3 DEF NetInboxOK, NetBatchOK, Fresh, Typed, WaitsIn, ReadPackets
  <2>5. \A e : MainOK(e) => MainOK(e)' BY <2>1, <2>3, StillOK
  <2>6. QED BY <1>1, <1>2, <2>1, <2>2, <2>4, <2>5 DEF QueueInv
<1>5. CASE NetHandle
  <2>0. PICK e : e = Head(netBatch) OBVIOUS
  <2>1. /\ netBatch # << >> /\ e.id # "SendPacket"
        /\ netBatch' = Tail(netBatch) /\ netPushes' = NetReaction(e)
        /\ UNCHANGED <<netPc, netInbox, mainInbox, mainBatch, mainPushes, read, lag, lineLag, lineLog>>
    BY <1>5, <2>0 DEF NetHandle, mainVars, history
  <2>2. e \in Events /\ NetBatchOK(e)
    <3>1. e \in Content(netBatch) /\ e \in Events BY <1>1, <2>0, <2>1, HeadIn DEF QueuesTyped
    <3>2. QED BY <1>1, <3>1 DEF QueueInv
  <2>3. e.id \in {"ReceivedPacket", "SendChatMessage"} BY <2>1, <2>2 DEF NetBatchOK, NetHandles
  <2>4. Content(netBatch') \subseteq Content(netBatch) BY <1>1, <2>1, RestTyped
  <2>5. Lines' = Lines BY <2>1 DEF Lines
  <2>6. ASSUME NEW x \in Content(netPushes') PROVE NetPushOK(x)'
    <3>1. /\ x.arg.n = e.arg.n
          /\ \/ /\ e.id = "ReceivedPacket"
                /\ x.id \in {"ReceivedChatMessage", "Disconnected", "SoundEffect"} /\ x.arg = e.arg
             \/ /\ e.id = "ReceivedPacket" /\ e.arg.name # "disconnect"
                /\ x.id = "SendPacket" /\ x.arg.name \in {"TeleportConfirm", "ClientStatus"}
             \/ /\ e.id = "SendChatMessage"
                /\ x.id = "SendPacket" /\ x.arg.name = "ChatMessage"
      BY <2>1, <2>2, <2>3, <2>6, ReactionIn
    <3>2. CASE e.id = "ReceivedPacket" /\ x.arg = e.arg
               /\ x.id \in {"ReceivedChatMessage", "Disconnected", "SoundEffect"}
      <4>1. Fresh(e.arg) \/ e.arg.name = "disconnect" BY <2>2, <3>2 DEF NetBatchOK
      <4>2. x.arg.name = "splash" => x.arg.n \in ReadPackets BY <3>2, <4>1 DEF Fresh
      <4>3. QED BY <2>1, <3>2, <4>2 DEF NetPushOK, ReadPackets
    <3>3. CASE e.id = "ReceivedPacket" /\ e.arg.name # "disconnect"
               /\ x.id = "SendPacket" /\ x.arg.name \in {"TeleportConfirm", "ClientStatus"}
      <4>1. Fresh(x.arg) BY <2>2, <3>1, <3>3 DEF NetBatchOK, Fresh
      <4>2. QED BY <2>1, <3>3, <4>1 DEF NetPushOK, Fresh, ReadPackets
    <3>4. CASE e.id = "SendChatMessage" /\ x.id = "SendPacket" /\ x.arg.name = "ChatMessage"
      <4>1. Typed(x.arg) /\ WaitsIn(x.arg, {0, 1})
        BY <2>2, <3>1, <3>4 DEF NetBatchOK, Typed, WaitsIn
      <4>2. QED BY <2>1, <2>5, <3>4, <4>1 DEF NetPushOK, Typed, WaitsIn, IsReply
    <3>5. QED BY <3>1, <3>2, <3>3, <3>4
  <2>7. \A x \in Content(netInbox') : NetInboxOK(x)'
    BY <1>1, <2>1, <2>5, StillInbox DEF QueueInv, Returning, Handling, Leaving
  <2>8. /\ \A x \in Content(netBatch') : NetBatchOK(x)'
        /\ \A x \in Content(mainInbox') \cup Content(mainBatch') \cup Content(mainPushes') : MainOK(x)'
    BY <1>1, <2>1, <2>4, <2>5, StillOK DEF QueueInv, Returning
  <2>9. QED BY <1>1, <2>1, <2>6, <2>7, <2>8 DEF QueueInv
<1>6. CASE NetPush
  <2>0. PICK e : e = Head(netPushes) OBVIOUS
  <2>1. /\ netPushes # << >> /\ Push(e) /\ netPushes' = Tail(netPushes)
        /\ UNCHANGED <<netPc, netBatch, mainBatch, mainPushes, read, lag, lineLag, lineLog>>
    BY <1>6, <2>0 DEF NetPush, history
  <2>2. e \in Events /\ NetPushOK(e) BY <1>1, <2>0, <2>1, PushedEvents DEF QueueInv
  <2>3. netPc = "handle" BY <1>1, <2>1 DEF ThreadTyped
  <2>4. Lines' = Lines /\ Handling /\ ~Returning BY <2>1, <2>3 DEF Lines, Handling, Returning
  <2>5. /\ Content(netInbox') \subseteq Content(netInbox) \cup {e}
        /\ Content(mainInbox') \subseteq Content(mainInbox) \cup {e}
        /\ e.id \notin MainHandles => UNCHANGED mainInbox
        /\ e.id \notin NetHandles => UNCHANGED netInbox
    BY <1>1, <2>1, <2>2, PushEffect
  <2>6. NetPushOK(e)' /\ ~Returning' BY <2>1, <2>2, <2>4, StillOK DEF Returning
  <2>7. e.id \in NetHandles => NetInboxOK(e)'
    <3>1. e.id \in NetHandles => e.id = "SendPacket" BY <2>2 DEF NetPushOK, NetHandles
    <3>2. QED BY <2>2, <2>6, <3>1 DEF NetPushOK, NetInboxOK, Fresh, IsReply
  <2>8. e.id \in MainHandles => MainOK(e)'
    <3>1. e.id \in MainHandles => e.id \in {"ReceivedChatMessage", "SoundEffect"}
      BY <2>2 DEF NetPushOK, MainHandles
    <3>2. QED BY <2>6, <3>1 DEF NetPushOK, MainOK
  <2>9. /\ \A x \in Content(netInbox') : x \in Content(netInbox) \/ NetInboxOK(x)'
        /\ \A x \in Content(mainInbox') : x \in Content(mainInbox) \/ MainOK(x)'
    BY <2>5, <2>7, <2>8
  <2>10. Content(netPushes') \subseteq Content(netPushes) BY <1>1, <2>1, RestTyped
  <2>11. QED BY <1>1, <2>1, <2>4, <2>9, <2>10, QueuePushed
<1>7. CASE NetSend \/ NetSendThrows
  <2>1. /\ netPc = "handle" /\ netPc' \in {"handle", "catch"}
        /\ netBatch # << >> /\ netBatch' = Tail(netBatch)
        /\ UNCHANGED <<netInbox, netPushes, mainInbox, mainBatch, mainPushes, read, lag, lineLag, lineLog>>
    BY <1>7 DEF NetSend, NetSendThrows, AtHandler, mainVars, history
  <2>2. Content(netBatch') \subseteq Content(netBatch) BY <1>1, <2>1, RestTyped
  <2>3. Lines' = Lines /\ (Returning' => Returning) /\ (Handling' => Handling)
    BY <2>1 DEF Lines, Returning, Handling
  <2>4. QED BY <1>1, <2>1, <2>2, <2>3, QueueKept DEF Leaving
<1>8. CASE NetHandleDone \/ NetReceiveThrows \/ NetReply
  <2>1. /\ \/ netPc = "handle" /\ netPc' = "receive"
           \/ netPc = "receive" /\ netPc' = "catch"
           \/ netPc = "reply" /\ netPc' \in {"check", "catch"}
        /\ UNCHANGED <<netInbox, netBatch, netPushes, mainInbox, mainBatch, mainPushes, read, lag,
                       lineLag, lineLog>>
    BY <1>8 DEF NetHandleDone, NetReceiveThrows, NetReply, AtHandler, mainVars, netVars, history
  <2>2. Lines' = Lines /\ (Returning' => Returning) /\ (Handling' => Handling)
    BY <2>1 DEF Lines, Returning, Handling
  <2>3. QED BY <1>1, <2>1, <2>2, QueueKept DEF Leaving
<1>9. CASE NetReceive BY <1>9, ReceiveQueues
<1>10. CASE NetCheckTimeout
  <2>0. PICK e : e = Event("ReceivedPacket", Item("disconnect", 0)) OBVIOUS
  <2>1. /\ netPc = "check" /\ netPc' = "loop" /\ (Push(e) \/ UNCHANGED <<mainInbox, netInbox>>)
        /\ UNCHANGED <<netBatch, netPushes, mainBatch, mainPushes, read, lag, lineLag, lineLog>>
    BY <1>10, <2>0 DEF NetCheckTimeout, history
  <2>2. e \in Events /\ e.id = "ReceivedPacket" /\ e.arg.name = "disconnect"
    BY <2>0, PushedEvents DEF Event, Item
  <2>3. NetInboxOK(e)' BY <2>1, <2>2 DEF NetInboxOK, NetHandles
  <2>4. /\ \A x \in Content(netInbox') : x \in Content(netInbox) \/ NetInboxOK(x)'
        /\ UNCHANGED mainInbox
    BY <1>1, <2>1, <2>2, <2>3, PushEffect DEF MainHandles
  <2>5. Lines' = Lines /\ Returning /\ ~Handling' BY <2>1 DEF Lines, Returning, Handling
  <2>6. QED BY <1>1, <2>1, <2>4, <2>5, QueueKept DEF Leaving
<1>11. CASE NetCatch
  <2>0. PICK e : e = Event("NetworkClientException", None) OBVIOUS
  <2>1. /\ netPc = "catch" /\ netPc' = "leaving" /\ Push(e)
        /\ UNCHANGED <<netBatch, netPushes, mainBatch, mainPushes, read, lag, lineLag, lineLog>>
    BY <1>11, <2>0 DEF NetCatch, history
  <2>2. e \in Events /\ e.id = "NetworkClientException" BY <2>0, PushedEvents DEF Event
  <2>3. NetInboxOK(e)' BY <2>1, <2>2 DEF NetInboxOK, NetHandles
  <2>4. /\ \A x \in Content(netInbox') : x \in Content(netInbox) \/ NetInboxOK(x)'
        /\ UNCHANGED mainInbox
    BY <1>1, <2>1, <2>2, <2>3, PushEffect DEF MainHandles
  <2>5. Lines' = Lines /\ ~Returning' /\ ~Handling' BY <2>1 DEF Lines, Returning, Handling
  <2>6. QED BY <1>1, <2>1, <2>4, <2>5, QueueKept DEF Leaving
<1>12. CASE NetDestroyListener
  <2>1. /\ netPc' = "gone" /\ netInbox' = << >> /\ netBatch' = << >> /\ netPushes' = << >>
        /\ UNCHANGED <<mainInbox, mainBatch, mainPushes, read, lag, lineLag, lineLog>>
    BY <1>12 DEF NetDestroyListener, mainVars, history
  <2>2. Lines' = Lines /\ ~Returning' BY <2>1 DEF Lines, Returning
  <2>3. QED BY <1>1, <1>2, <2>1, <2>2, QueueKept
<1>13. QED
  BY <1>3, <1>4, <1>5, <1>6, <1>7, <1>8, <1>9, <1>10, <1>11, <1>12 DEF Network

-----------------------------------------------------------------------------
(* The theorems.                                                           *)

(* The client starts with empty queues and nothing read.                   *)
LEMMA InitInv == Init => IInv
<1> SUFFICES ASSUME Init PROVE IInv OBVIOUS
<1>1. Content(<< >>) = {} /\ \A S : << >> \in Seq(S) BY DEF Content
<1>2. MaxPackets \in Nat /\ MaxLines \in Nat /\ TimeoutAge \in Nat /\ Capacity \in Nat
  BY ClientAssumption DEF ClientAssumption
<1>3. QueuesTyped /\ ThreadTyped BY <1>1 DEF Init, QueuesTyped, ThreadTyped
<1>4. PlacesTyped
  <2>1. clientAlive \in BOOLEAN /\ mainRunning \in BOOLEAN /\ closed \in BOOLEAN BY Zenon DEF Init
  <2>2. age \in 0 .. TimeoutAge + 1 BY <1>2 DEF Init
  <2>3. repeating = "none" /\ netPc = "off" BY DEF Init
  <2>4. QED BY <2>1, <2>2, <2>3 DEF PlacesTyped
<1>5. ConnTyped BY <1>1, <1>2 DEF Init, ConnTyped
<1>6. HistoryTyped BY <1>1, <1>2 DEF Init, HistoryTyped
<1>7. TypeOK BY <1>3, <1>4, <1>5, <1>6, Typing
<1>8. ThreadInv BY DEF Init, ThreadInv
<1>9. ChannelInv BY <1>2 DEF Init, ChannelInv
<1>10. QueueInv BY <1>1 DEF Init, QueueInv
<1>11. QED BY <1>7, <1>8, <1>9, <1>10 DEF IInv

(* Every step keeps the invariant.                                         *)
LEMMA NextInv == IInv /\ [Next]_vars => IInv'
<1>1. ASSUME IInv, Next PROVE IInv'
  <2>1. Main \/ Input \/ Network \/ Surroundings BY <1>1, Zenon DEF Next, Input, Surroundings
  <2>2. TypeOK' BY <1>1, <2>1, MainTyped, InputTyped, NetTyped, SurroundingsTyped
  <2>3. QueueInv' BY <1>1, <2>1, MainQueues, InputQueues, NetQueues, SurroundingsQueues
  <2>4. QED BY <1>1, <2>2, <2>3, ThreadStep, ChannelStep DEF IInv
<1>2. ASSUME IInv, UNCHANGED vars PROVE IInv'
  <2>1. UNCHANGED <<mainInbox, mainBatch, mainPushes, clientAlive, mainRunning, repeating, netPc, netInbox,
                    netBatch, netPushes, age, toClient, closed, serverLog, read, lineLog, missed, written,
                    printed, lag, lineLag>>
    BY <1>2 DEF vars, mainVars, netVars, connVars, history
  <2>2. TypeOK' BY <1>2, <2>1 DEF IInv, TypeOK
  <2>3. ThreadInv' /\ ChannelInv'
    BY <1>2, <2>1 DEF IInv, ThreadInv, ChannelInv, Numbered, Leaving
  <2>4. Lines \subseteq Lines' BY <2>1 DEF Lines
  <2>5. QueueInv' BY <1>2, <2>1, <2>4, QueuePushed DEF IInv
  <2>6. QED BY <2>2, <2>3, <2>5 DEF IInv
<1>3. QED BY <1>1, <1>2

(* The invariant holds in every state of every run of the client.          *)
THEOREM ClientInvariant == Spec => []IInv
BY InitInv, NextInv, PTL DEF Spec

(* Every variable has its type, and the queues of the network thread are   *)
(* empty outside its life (networkclient.cpp:112-143).                     *)
THEOREM TypeCorrect == Spec => []TypeOK
<1>1. IInv => TypeOK BY DEF IInv
<1>2. QED BY <1>1, ClientInvariant, PTL

(* Nothing that would end main or drop the client is ever under way to it, *)
(* whatever the server sends, whoever types and however the network thread *)
(* ends (networkclient.cpp:112-115, 135-143, 233; main.cpp:88-96).         *)
THEOREM EndIsUnheard == Spec => []EndUnheard
<1>1. IInv => EndUnheard
  <2> SUFFICES ASSUME IInv PROVE EndUnheard OBVIOUS
  <2>1. mainInbox \in Seq(Events) /\ mainBatch \in Seq(Events) BY DEF IInv, TypeOK
  <2>2. ToSet(mainInbox \o mainBatch) \subseteq Content(mainInbox) \cup Content(mainBatch)
    BY <2>1, ConcatIn DEF ToSet, Content
  <2>3. QED BY <2>2 DEF IInv, ThreadInv, QueueInv, MainOK, EndUnheard
<1>2. QED BY <1>1, ClientInvariant, PTL

(* What a step writes comes from the batch of the network thread.          *)
LEMMA WrittenFromBatch ==
    ASSUME IInv, [Next]_vars, written' # written
    PROVE  /\ NetBatchOK(Head(netBatch)) /\ Head(netBatch).id = "SendPacket"
           /\ LastWritten = Head(netBatch).arg /\ Head(netBatch).arg.n # 0
<1>1. NetSend
  <2>1. ~UNCHANGED vars BY DEF vars, history
  <2>2. Next BY <2>1
  <2>3. ~Main BY DEF Main, MainPoll, MainHandle, MainPush, history
  <2>4. ~Input BY DEF Input, TypeLine, EndOfInput, RepeatLine, history
  <2>5. ~Surroundings BY DEF Surroundings, ServerSend, ServerKeepAlive, ServerClose, Tick, history
  <2>6. Network BY <2>2, <2>3, <2>4, <2>5, Zenon DEF Next, Input, Surroundings
  <2>7. ~(\/ NetStart \/ NetPoll \/ NetHandle \/ NetPush \/ NetSendThrows \/ NetHandleDone \/ NetReceive
          \/ NetReceiveThrows \/ NetReply \/ NetCheckTimeout \/ NetCatch \/ NetDestroyListener)
    BY DEF NetStart, NetPoll, NetHandle, NetPush, NetSendThrows, NetHandleDone, NetReceive,
           NetReceiveThrows, NetReply, NetCheckTimeout, NetCatch, NetDestroyListener, history
  <2>8. QED BY <2>6, <2>7 DEF Network
<1>2. netBatch # << >> /\ Head(netBatch).id = "SendPacket" BY <1>1 DEF NetSend
<1>3. Head(netBatch) \in Content(netBatch) BY <1>2, HeadIn DEF IInv, TypeOK
<1>4. written' = Append(written, Head(netBatch).arg) /\ Head(netBatch).arg.n # 0 BY <1>1 DEF NetSend
<1>5. LastWritten = Head(netBatch).arg
  <2>1. written \in Seq(Items) BY DEF IInv, TypeOK
  <2>2. Len(written) \in Nat /\ Len(written') = Len(written) + 1 BY <1>4, <2>1
  <2>3. written'[Len(written) + 1] = Head(netBatch).arg BY <1>4, <2>1, <2>2
  <2>4. QED BY <2>2, <2>3 DEF LastWritten
<1>6. QED BY <1>2, <1>3, <1>4, <1>5 DEF IInv, QueueInv

(* However many packets there are and whatever they are, a confirmation or *)
(* a respawn is written after exactly one more packet has been read, and a *)
(* reaction of main after at least one (networkclient.cpp:118-124,         *)
(* 290-291, 332).                                                          *)
THEOREM RepliesWait == Spec => ReplyLag
<1>1. ASSUME IInv, [Next]_vars, written' # written
      PROVE  /\ LastWritten.name \in {"TeleportConfirm", "ClientStatus"} => lag[LastWritten.n] = 1
             /\ LastWritten.name = "UseItem" => lag[LastWritten.n] >= 1
  BY <1>1, WrittenFromBatch DEF NetBatchOK, IsReply
<1>2. QED BY <1>1, ClientInvariant, PTL DEF Spec, ReplyLag

(* However many lines are typed and whatever the server sends meanwhile, a *)
(* chat line is sent after one or two more packets, and "!useitem" after   *)
(* none or one (networkclient.cpp:96-110, 118-121; main.cpp:48-57).        *)
THEOREM LinesWait == Spec => LineLag
<1>1. ASSUME IInv, [Next]_vars, written' # written
      PROVE  /\ LastWritten.name = "ChatMessage" => lineLag[LastWritten.n] \in {1, 2}
             /\ LastWritten.name = "typedUseItem" => lineLag[LastWritten.n] \in {0, 1}
  BY <1>1, WrittenFromBatch DEF NetBatchOK, WaitsIn
<1>2. QED BY <1>1, ClientInvariant, PTL DEF Spec, LineLag

-----------------------------------------------------------------------------
(***************************************************************************)
(* What goes through the queues comes out once and in order, for any       *)
(* number of packets and lines.                                            *)
(***************************************************************************)

(***************************************************************************)
(* The connection and the kinds of events in the queues.                   *)
(***************************************************************************)

\* The connection holds all the packets not read yet, as they were sent.
WireInv ==
    /\ \A i \in DOMAIN toClient :
          Numbered(toClient[i]) => toClient[i].name = serverLog[toClient[i].n]
    /\ \A n \in read + 1 .. Len(serverLog) :
          \E i \in DOMAIN toClient : Numbered(toClient[i]) /\ toClient[i].n = n

\* The listener of main gets what it handles, and its chats are chats.
KindInv ==
    /\ \A e \in Content(mainInbox) \cup Content(mainBatch) : e.id \in MainHandles
    /\ \A e \in Content(mainInbox) \cup Content(mainBatch) \cup Content(netPushes) :
          e.id = "ReceivedChatMessage" => e.arg.name = "chat"

\* A packet in the queues is the one the server sent with its number.
QuestionInv ==
    \A e \in Content(netInbox) \cup Content(netBatch) :
       e.id = "ReceivedPacket" /\ e.arg.name # "disconnect" => e.arg.name = serverLog[e.arg.n]

(* What ReceivePacket takes from the connection is the next packet.        *)
LEMMA NextPacket ==
    ASSUME IInv, WireInv, NetReceive
    PROVE  /\ Len(serverLog) \in Nat /\ read \in Nat
           /\ ~Numbered(Head(toClient)) => read' = read
           /\ Numbered(Head(toClient)) => /\ Head(toClient).n = read + 1 /\ read' = read + 1
                                          /\ read' <= Len(serverLog)
                                          /\ Head(toClient).name = serverLog[read']
<1>1. ConnTyped /\ HistoryTyped /\ ChannelInv BY Typing DEF IInv
<1>2. /\ toClient # << >>
      /\ read' = IF Numbered(Head(toClient)) THEN Head(toClient).n ELSE read
  BY DEF NetReceive, Numbered
<1>3. /\ Len(serverLog) \in Nat /\ read \in 0 .. Len(serverLog)
      /\ Len(toClient) \in Nat /\ DOMAIN toClient = 1 .. Len(toClient)
      /\ 1 \in DOMAIN toClient /\ Head(toClient) = toClient[1]
  BY <1>1, <1>2 DEF ConnTyped, HistoryTyped
<1>4. CASE Numbered(Head(toClient))
  <2>1. Head(toClient).n \in read + 1 .. Len(serverLog) BY <1>1, <1>3, <1>4 DEF ChannelInv
  <2>2. Head(toClient).name = serverLog[Head(toClient).n] BY <1>3, <1>4 DEF WireInv
  <2>3. read + 1 \in read + 1 .. Len(serverLog) BY <1>3, <2>1
  <2>4. PICK i \in DOMAIN toClient : Numbered(toClient[i]) /\ toClient[i].n = read + 1
    BY <2>3 DEF WireInv
  <2>5. i # 1 => Head(toClient).n < read + 1
    <3>1. i # 1 => 1 < i BY <1>3
    <3>2. QED BY <1>1, <1>3, <1>4, <2>4, <3>1 DEF ChannelInv
  <2>6. Head(toClient).n = read + 1 BY <1>3, <2>1, <2>4, <2>5
  <2>7. QED BY <1>2, <1>3, <1>4, <2>1, <2>2, <2>6
<1>5. CASE ~Numbered(Head(toClient)) BY <1>2, <1>3, <1>5
<1>6. QED BY <1>4, <1>5

(* Every step leaves the connection complete.                              *)
LEMMA WireStep == ASSUME IInv, WireInv, Next PROVE WireInv'
<1>1. ConnTyped /\ HistoryTyped /\ ChannelInv /\ Len(toClient) \in Nat /\ Len(serverLog) \in Nat
  BY Typing DEF IInv, ConnTyped, HistoryTyped
<1>2. ASSUME UNCHANGED <<toClient, serverLog, read>> PROVE WireInv'
  BY <1>2 DEF WireInv, Numbered
<1>3. CASE Main BY <1>2, <1>3 DEF Main, MainPoll, MainHandle, MainPush, connVars, history
<1>4. CASE Input BY <1>2, <1>4 DEF Input, TypeLine, EndOfInput, RepeatLine, connVars, history
<1>5. CASE NetStart \/ NetPoll \/ NetHandle \/ NetPush \/ NetSend \/ NetSendThrows \/ NetHandleDone
           \/ NetReceiveThrows \/ NetReply \/ NetCheckTimeout \/ NetCatch \/ NetDestroyListener
  BY <1>2, <1>5
     DEF NetStart, NetPoll, NetHandle, NetPush, NetSend, NetSendThrows, NetHandleDone, NetReceiveThrows,
         NetReply, NetCheckTimeout, NetCatch, NetDestroyListener, connVars, history
<1>6. CASE NetReceive
  <2>1. toClient # << >> /\ toClient' = Tail(toClient) /\ serverLog' = serverLog
    BY <1>6 DEF NetReceive
  <2>2. /\ DOMAIN toClient = 1 .. Len(toClient) /\ DOMAIN toClient' = 1 .. Len(toClient) - 1
        /\ \A i \in DOMAIN toClient' : i + 1 \in DOMAIN toClient /\ toClient'[i] = toClient[i + 1]
        /\ Head(toClient) = toClient[1]
    BY <1>1, <2>1 DEF ConnTyped
  <2>3. \A i \in DOMAIN toClient' :
           Numbered(toClient'[i]) => toClient'[i].name = serverLog'[toClient'[i].n]
    BY <2>1, <2>2 DEF WireInv
  <2>4. ASSUME NEW n \in read' + 1 .. Len(serverLog')
        PROVE  \E i \in DOMAIN toClient' : Numbered(toClient'[i]) /\ toClient'[i].n = n
    <3>1. n \in read + 1 .. Len(serverLog) /\ n > read' BY <1>6, <2>1, <2>4, NextPacket
    <3>2. PICK i \in DOMAIN toClient : Numbered(toClient[i]) /\ toClient[i].n = n
      BY <3>1 DEF WireInv
    <3>3. i # 1 BY <1>6, <2>2, <3>1, <3>2, NextPacket
    <3>4. i - 1 \in DOMAIN toClient' /\ toClient'[i - 1] = toClient[i] BY <1>1, <2>2, <3>3
    <3>5. QED BY <3>2, <3>4
  <2>5. QED BY <2>3, <2>4 DEF WireInv, Numbered
<1>7. ASSUME NEW p, toClient' = Append(toClient, p), UNCHANGED read,
             \/ ~Numbered(p) /\ UNCHANGED serverLog
             \/ /\ p.n = Len(serverLog) + 1 /\ Numbered(p)
                /\ serverLog' = Append(serverLog, p.name)
      PROVE  WireInv'
  <2>1. /\ DOMAIN toClient = 1 .. Len(toClient) /\ DOMAIN toClient' = 1 .. Len(toClient) + 1
        /\ \A i \in DOMAIN toClient : i \in DOMAIN toClient' /\ toClient'[i] = toClient[i]
        /\ toClient'[Len(toClient) + 1] = p
    BY <1>1, <1>7 DEF ConnTyped
  <2>2. /\ \A n \in 1 .. Len(serverLog) : serverLog'[n] = serverLog[n]
        /\ \/ ~Numbered(p) /\ Len(serverLog') = Len(serverLog)
           \/ Numbered(p) /\ p.n = Len(serverLog) + 1 /\ Len(serverLog') = Len(serverLog) + 1
              /\ serverLog'[Len(serverLog) + 1] = p.name
    <3>1. serverLog \in Seq(PacketNames) /\ Len(serverLog) \in Nat BY <1>1 DEF HistoryTyped
    <3>2. CASE ~Numbered(p) /\ UNCHANGED serverLog BY <3>2
    <3>3. CASE p.n = Len(serverLog) + 1 /\ Numbered(p) /\ serverLog' = Append(serverLog, p.name)
      <4>1. PICK a : a = p.name OBVIOUS
      <4>2. /\ Len(Append(serverLog, a)) = Len(serverLog) + 1
            /\ Append(serverLog, a)[Len(serverLog) + 1] = a
            /\ \A n \in 1 .. Len(serverLog) : Append(serverLog, a)[n] = serverLog[n]
        BY <3>1
      <4>3. QED BY <3>3, <4>1, <4>2
    <3>4. QED BY <1>7, <3>2, <3>3
  <2>3. ASSUME NEW i \in DOMAIN toClient', Numbered(toClient'[i])
        PROVE  toClient'[i].name = serverLog'[toClient'[i].n]
    <3>1. CASE i \in DOMAIN toClient
      <4>1. toClient[i].n \in read + 1 .. Len(serverLog) BY <1>1, <2>1, <2>3, <3>1 DEF ChannelInv
      <4>2. toClient[i].n \in 1 .. Len(serverLog) BY <1>1, <4>1 DEF HistoryTyped
      <4>3. QED BY <2>1, <2>2, <2>3, <3>1, <4>2 DEF WireInv
    <3>2. CASE i \notin DOMAIN toClient
      <4>1. toClient'[i] = p BY <1>1, <2>1, <3>2
      <4>2. QED BY <2>2, <2>3, <4>1
    <3>3. QED BY <3>1, <3>2
  <2>4. ASSUME NEW n \in read' + 1 .. Len(serverLog')
        PROVE  \E i \in DOMAIN toClient' : Numbered(toClient'[i]) /\ toClient'[i].n = n
    <3>1. CASE n \in read + 1 .. Len(serverLog) BY <2>1, <3>1 DEF WireInv
    <3>2. CASE n \notin read + 1 .. Len(serverLog)
      <4>1. Numbered(p) /\ p.n = n BY <1>1, <1>7, <2>2, <2>4, <3>2 DEF HistoryTyped
      <4>2. Len(toClient) + 1 \in DOMAIN toClient' BY <1>1, <2>1
      <4>3. QED BY <2>1, <4>1, <4>2
    <3>3. QED BY <3>1, <3>2
  <2>5. QED BY <2>3, <2>4 DEF WireInv, Numbered
<1>8. ASSUME NEW name \in Repertoire, ServerSend(name) PROVE WireInv'
  <2>1. name # "keepAlive" BY ClientAssumption DEF ClientAssumption, PacketNames, Health
  <2>2. QED BY <1>7, <1>8, <2>1 DEF ServerSend, Item, Numbered
<1>9. CASE ServerKeepAlive BY <1>7, <1>9 DEF ServerKeepAlive, Item, Numbered, history
<1>10. CASE ServerClose \/ Tick BY <1>2, <1>10 DEF ServerClose, Tick, connVars, history
<1>11. QED BY <1>3, <1>4, <1>5, <1>6, <1>8, <1>9, <1>10 DEF Next, Network, Input

(* A push brings an event to the listeners that handle it.                 *)
LEMMA PushExact ==
    ASSUME TypeOK, NEW e \in Events, Push(e)
    PROVE  /\ mainInbox' = IF e.id \in MainHandles THEN Append(mainInbox, e) ELSE mainInbox
           /\ netInbox' = IF e.id \in NetHandles /\ NetListens THEN Append(netInbox, e) ELSE netInbox
BY DEF Push

(* The handler of a packet or a line pushes an event of its kind.          *)
LEMMA ReactionKinds ==
    ASSUME NEW e \in Events, e.id \in {"ReceivedPacket", "SendChatMessage"},
           NEW x \in Content(NetReaction(e)), x.id = "ReceivedChatMessage"
    PROVE  x.arg.name = "chat"
<1>1. CASE e.id = "SendChatMessage" BY <1>1, ReactionIn
<1>2. CASE e.id = "ReceivedPacket"
  <2>1. NetReaction(e) = UpdatePacket(e.arg) BY <1>2 DEF NetReaction
  <2>2. CASE e.arg.name = "chat"
    <3>1. x.arg = e.arg BY ReactionIn
    <3>2. QED BY <2>2, <3>1
  <2>3. CASE e.arg.name = "disconnect"
    <3>1. NetReaction(e) = <<Event("Disconnected", e.arg)>> BY <2>1, <2>3 DEF UpdatePacket, Health
    <3>2. x = Event("Disconnected", e.arg) BY <3>1 DEF Content
    <3>3. QED BY <3>2 DEF Event
  <2>4. CASE e.arg.name \in {"sound", "splash"}
    <3>1. NetReaction(e) = <<Event("SoundEffect", e.arg)>> BY <2>1, <2>4 DEF UpdatePacket, Health
    <3>2. x = Event("SoundEffect", e.arg) BY <3>1 DEF Content
    <3>3. QED BY <3>2 DEF Event
  <2>5. CASE e.arg.name \notin {"chat", "disconnect", "sound", "splash"}
    <3>1. NetReaction(e) \in {<<Event("SendPacket", Item("TeleportConfirm", e.arg.n)),
                               Event("SendPacket", Item("ClientStatus", e.arg.n))>>,
                             <<Event("SendPacket", Item("ClientStatus", e.arg.n))>>, << >>}
      BY <2>1, <2>5 DEF UpdatePacket
    <3>2. x \in {Event("SendPacket", Item("TeleportConfirm", e.arg.n)),
                 Event("SendPacket", Item("ClientStatus", e.arg.n))}
      BY <3>1 DEF Content
    <3>3. QED BY <3>2 DEF Event
  <2>6. QED BY <2>2, <2>3, <2>4, <2>5
<1>3. QED BY <1>1, <1>2

\* Events that are neither on the way of a chat nor of a reply.
Aside(e) ==
    \/ e.id = "SendPacket" /\ e.arg.name \in {"UseItem", "typedUseItem"}
    \/ e.id = "ReceivedPacket" /\ e.arg.name = "disconnect"
    \/ e.id \in {"NetworkClientException", "SendChatMessage"}

(* What main, the timeout and the end of the network thread push is such   *)
(* an event, for the network thread.                                       *)
LEMMA AsidePushed ==
    ASSUME IInv, MainPush \/ NetCheckTimeout \/ NetCatch
    PROVE  /\ UNCHANGED <<mainInbox, mainBatch, netBatch, netPushes, written, printed, read, serverLog>>
           /\ \/ UNCHANGED netInbox
              \/ \E e \in Events : /\ Aside(e) /\ e.id # "SendChatMessage"
                                   /\ netInbox' = Append(netInbox, e)
           /\ netPc' = "gone" <=> netPc = "gone"
<1>1. TypeOK BY DEF IInv
<1>2. /\ UNCHANGED <<mainBatch, netBatch, netPushes, written, printed, read, serverLog>>
      /\ netPc' = "gone" <=> netPc = "gone"
  BY DEF MainPush, NetCheckTimeout, NetCatch, history
<1>3. ASSUME NEW e \in Events, Push(e), Aside(e), e.id # "SendChatMessage"
      PROVE  /\ UNCHANGED mainInbox
             /\ \/ UNCHANGED netInbox
                \/ \E x \in Events : /\ Aside(x) /\ x.id # "SendChatMessage"
                                     /\ netInbox' = Append(netInbox, x)
  <2>1. e.id \notin MainHandles BY <1>3 DEF Aside, MainHandles
  <2>2. QED BY <1>1, <1>3, <2>1, PushExact
<1>4. CASE MainPush
  <2>0. PICK e : e = Head(mainPushes) OBVIOUS
  <2>1. e \in Events /\ e \in Content(mainPushes) /\ Push(e) BY <1>4, <2>0, PushedEvents DEF MainPush
  <2>2. Aside(e) /\ e.id # "SendChatMessage" BY <2>1 DEF IInv, QueueInv, Aside
  <2>3. QED BY <1>2, <1>3, <2>1, <2>2
<1>5. CASE NetCheckTimeout
  <2>1. PICK e : e = Event("ReceivedPacket", Item("disconnect", 0)) OBVIOUS
  <2>2. e \in Events /\ Aside(e) /\ e.id # "SendChatMessage" BY <2>1, PushedEvents DEF Event, Item, Aside
  <2>3. UNCHANGED <<mainInbox, netInbox>> \/ Push(e) BY <1>5, <2>1 DEF NetCheckTimeout
  <2>4. QED BY <1>2, <1>3, <2>2, <2>3
<1>6. CASE NetCatch
  <2>1. PICK e : e = Event("NetworkClientException", None) OBVIOUS
  <2>2. e \in Events /\ Aside(e) /\ e.id # "SendChatMessage" BY <2>1, PushedEvents DEF Event, Aside
  <2>3. Push(e) BY <1>6, <2>1 DEF NetCatch
  <2>4. QED BY <1>2, <1>3, <2>2, <2>3
<1>7. QED BY <1>4, <1>5, <1>6

(* So is what the input thread pushes.                                     *)
LEMMA InputPushed ==
    ASSUME IInv, Input
    PROVE  /\ UNCHANGED <<mainInbox, mainBatch, netBatch, netPushes, netPc, written, printed, read,
                          serverLog>>
           /\ \/ UNCHANGED netInbox
              \/ \E e \in Events : Aside(e) /\ netInbox' = Append(netInbox, e)
<1>1. TypeOK BY DEF IInv
<1>2. UNCHANGED <<mainBatch, netBatch, netPushes, netPc, written, printed, read, serverLog>>
  BY DEF Input, TypeLine, EndOfInput, RepeatLine, netVars, history
<1>3. ASSUME NEW name \in {"chat", "useItem"}, NEW n \in Nat, PushLine(name, n)
      PROVE  /\ UNCHANGED mainInbox
             /\ \/ UNCHANGED netInbox
                \/ \E e \in Events : Aside(e) /\ netInbox' = Append(netInbox, e)
  <2>1. PICK e \in Events : Push(e) /\ Aside(e) BY <1>3, PushedEvents DEF Aside
  <2>2. e.id \notin MainHandles BY <2>1 DEF Aside, MainHandles
  <2>3. QED BY <1>1, <2>1, <2>2, PushExact
<1>4. ASSUME NEW name \in {"chat", "useItem"}, TypeLine(name)
      PROVE  PushLine(name, Len(lineLog) + 1) /\ Len(lineLog) + 1 \in Nat
  BY <1>1, <1>4 DEF TypeLine, TypeOK
<1>5. RepeatLine => PushLine(repeating, 0) /\ repeating \in {"chat", "useItem"}
  BY <1>1 DEF RepeatLine, TypeOK
<1>6. EndOfInput => UNCHANGED <<mainInbox, netInbox>> BY DEF EndOfInput, netVars
<1>7. QED BY <1>2, <1>3, <1>4, <1>5, <1>6 DEF Input

(* What ReceivePacket brings to the queues: the next packet, or nothing.   *)
LEMMA Received ==
    ASSUME IInv, WireInv, NetReceive
    PROVE  /\ UNCHANGED <<mainInbox, mainBatch, netBatch, netPushes, written, printed, serverLog>>
           /\ netPc # "gone" /\ netPc' # "gone" /\ read \in Nat
           /\ \/ UNCHANGED <<netInbox, read>>
              \/ /\ read' = read + 1 /\ serverLog[read'] = "unparsed"
                 /\ UNCHANGED netInbox
              \/ /\ read' = read + 1
                 /\ \E e \in Events : /\ netInbox' = Append(netInbox, e)
                                      /\ e.id = "ReceivedPacket"
                                      /\ e.arg.name = serverLog[read'] /\ e.arg.n = read'
<1>1. TypeOK /\ ConnTyped BY Typing DEF IInv
<1>2. PICK p : p = Head(toClient) OBVIOUS
<1>3. /\ UNCHANGED <<mainBatch, netBatch, netPushes, written, printed, serverLog>>
      /\ netPc = "receive" /\ netPc' \in {"reply", "check"} /\ toClient # << >>
  BY DEF NetReceive
<1>4. /\ read \in Nat /\ (~Numbered(p) => read' = read)
      /\ Numbered(p) => p.n = read + 1 /\ read' = read + 1 /\ p.name = serverLog[read']
  BY <1>2, NextPacket
<1>5. p \in [name : PacketNames \cup {"keepAlive"}, n : Nat]
  BY <1>1, <1>2, <1>3, HeadIn DEF ConnTyped
<1>6. CASE p.name \in {"keepAlive", "unparsed"}
  <2>1. UNCHANGED <<mainInbox, netInbox>> BY <1>2, <1>6 DEF NetReceive
  <2>2. QED BY <1>3, <1>4, <1>6, <2>1 DEF Numbered
<1>7. CASE p.name \notin {"keepAlive", "unparsed"}
  <2>0. PICK e : e = Event("ReceivedPacket", p) OBVIOUS
  <2>1. Push(e)
    <3>1. p.name \in {"keepAlive", "unparsed"} \/ Push(Event("ReceivedPacket", p))
      BY <1>2, Zenon DEF NetReceive
    <3>2. QED BY <1>7, <2>0, <3>1
  <2>2. p \in Items BY <1>5, <1>7 DEF Items, ItemNames
  <2>3. e \in Events /\ e.id = "ReceivedPacket" /\ e.arg = p BY <2>0, <2>2, PushedEvents DEF Event
  <2>4. mainInbox' = mainInbox /\ netInbox' = Append(netInbox, e)
    BY <1>1, <1>3, <2>1, <2>3, PushExact DEF MainHandles, NetHandles, NetListens
  <2>5. QED BY <1>3, <1>4, <1>7, <2>3, <2>4 DEF Numbered
<1>8. QED BY <1>6, <1>7

(* Every step keeps the kinds of events.                                   *)
LEMMA KindStep == ASSUME IInv, WireInv, KindInv, Next PROVE KindInv'
<1>1. TypeOK /\ QueuesTyped BY Typing DEF IInv
<1>2. Content(<< >>) = {} BY DEF Content
<1>3. ASSUME Content(mainInbox') \subseteq Content(mainInbox),
             Content(mainBatch') \subseteq Content(mainInbox) \cup Content(mainBatch),
             Content(netPushes') \subseteq Content(netPushes)
      PROVE  KindInv'
  BY <1>3 DEF KindInv
<1>4. CASE MainPoll BY <1>2, <1>3, <1>4 DEF MainPoll, netVars
<1>5. CASE MainHandle BY <1>1, <1>3, <1>5, RestTyped DEF MainHandle, netVars
<1>6. CASE MainPush \/ Input \/ NetCheckTimeout \/ NetCatch
  BY <1>3, <1>6, AsidePushed, InputPushed
<1>7. CASE NetReceive BY <1>3, <1>7, Received
<1>8. CASE NetHandle
  <2>1. netBatch # << >> /\ UNCHANGED <<mainInbox, mainBatch>> /\ netPushes' = NetReaction(Head(netBatch))
    BY <1>8 DEF NetHandle, mainVars
  <2>2. Head(netBatch) \in Events /\ Head(netBatch) \in Content(netBatch)
    BY <1>1, <2>1, HeadIn DEF QueuesTyped
  <2>3. Head(netBatch).id \in {"ReceivedPacket", "SendChatMessage"}
    BY <1>8, <2>2 DEF NetHandle, IInv, QueueInv, NetBatchOK, NetHandles
  <2>4. \A x \in Content(netPushes') : x.id = "ReceivedChatMessage" => x.arg.name = "chat"
    BY <2>1, <2>2, <2>3, ReactionKinds
  <2>5. QED BY <2>1, <2>4 DEF KindInv
<1>9. CASE NetPush
  <2>0. PICK e : e = Head(netPushes) OBVIOUS
  <2>1. /\ netPushes # << >> /\ netPushes' = Tail(netPushes) /\ UNCHANGED mainBatch
        /\ e \in Events /\ e \in Content(netPushes) /\ Push(e)
    BY <1>9, <2>0, PushedEvents DEF NetPush
  <2>2. Content(netPushes') \subseteq Content(netPushes) BY <1>1, <2>1, RestTyped
  <2>3. CASE e.id \in MainHandles
    <3>1. Content(mainInbox') \subseteq Content(mainInbox) \cup {e} BY <1>1, <2>1, PushEffect
    <3>2. QED BY <2>1, <2>2, <2>3, <3>1 DEF KindInv
  <2>4. CASE e.id \notin MainHandles
    <3>1. mainInbox' = mainInbox BY <1>1, <2>1, <2>4, PushExact
    <3>2. QED BY <1>3, <2>1, <2>2, <3>1
  <2>5. QED BY <2>3, <2>4
<1>10. CASE NetDestroyListener
  BY <1>2, <1>3, <1>10 DEF NetDestroyListener, mainVars
<1>11. CASE NetStart \/ NetPoll \/ NetSend \/ NetSendThrows \/ NetHandleDone \/ NetReceiveThrows \/ NetReply
  BY <1>3, <1>11 DEF NetStart, NetPoll, NetSend, NetSendThrows, NetHandleDone, NetReceiveThrows, NetReply,
                     mainVars
<1>12. CASE Surroundings
  BY <1>3, <1>12 DEF Surroundings, ServerSend, ServerKeepAlive, ServerClose, Tick, mainVars, netVars
<1>13. QED
  BY <1>4, <1>5, <1>6, <1>7, <1>8, <1>9, <1>10, <1>11, <1>12 DEF Next, Main, Input, Network, Surroundings

-----------------------------------------------------------------------------
(***************************************************************************)
(* Six stages a number goes through, the first the furthest.               *)
(***************************************************************************)
InOrder(A, B, C, D, E, F) ==
    /\ Before(A, B \cup C \cup D \cup E \cup F)
    /\ Before(B, C \cup D \cup E \cup F)
    /\ Before(C, D \cup E \cup F)
    /\ Before(D, E \cup F)
    /\ Before(E, F)

(* Steps that leave the numbers in order: the first of B goes on to A, all *)
(* of C to B, the first of D to C, the first of E to D, all of F to E; or  *)
(* something greater than all of them enters, or the last stages are       *)
(* dropped.                                                                *)
LEMMA Stages ==
    ASSUME NEW A, NEW B, NEW C, NEW D, NEW E, NEW F, InOrder(A, B, C, D, E, F)
    PROVE  /\ \A X, Y : B = X \cup Y /\ Before(X, Y) => InOrder(A \cup X, Y, C, D, E, F)
           /\ B = {} => InOrder(A, C, {}, D, E, F)
           /\ \A X, Y : D = X \cup Y /\ Before(X, Y) => InOrder(A, B, C \cup X, Y, E, F)
           /\ \A X, Y : D = {} /\ E = X \cup Y /\ Before(X, Y) => InOrder(A, B, C, X, Y, F)
           /\ E = {} => InOrder(A, B, C, D, F, {})
           /\ \A X : Before(A \cup B \cup C \cup D \cup E \cup F, X) => InOrder(A, B, C, D, E, F \cup X)
           /\ InOrder(A, B, C, {}, {}, {})
BY DEF InOrder, Before

Itself == [n \in Nat |-> n]

(* A sequence of numbers is sorted when it increases.                      *)
LEMMA SortedNumbers ==
    ASSUME NEW s \in Seq(Nat)
    PROVE  /\ Sorted(s, Itself) <=> Increasing(s)
           /\ Numbers(s, Itself) = Range(s)
           /\ \A n \in Nat : Number(n, Itself) = {n}
<1>1. DOMAIN Itself = Nat /\ (\A n \in Nat : Itself[n] = n) /\ \A i \in DOMAIN s : s[i] \in Nat
  BY DEF Itself
<1>2. Sorted(s, Itself) <=> Increasing(s) BY <1>1 DEF Sorted, Increasing
<1>3. Numbers(s, Itself) = Range(s) BY <1>1 DEF Numbers, Content, Range
<1>4. QED BY <1>1, <1>2, <1>3 DEF Number

(* What has no number changes nothing.                                     *)
LEMMA AppendAside ==
    ASSUME NEW S, NEW s \in Seq(S), NEW x \in S, NEW f, Sorted(s, f), x \notin DOMAIN f
    PROVE  Sorted(Append(s, x), f) /\ Numbers(Append(s, x), f) = Numbers(s, f)
<1>1. Number(x, f) = {} BY DEF Number
<1>2. Before(Numbers(s, f), Number(x, f)) BY <1>1 DEF Before
<1>3. Sorted(Append(s, x), f) /\ Numbers(Append(s, x), f) = Numbers(s, f) \cup Number(x, f)
  BY <1>2, AppendSorted
<1>4. QED BY <1>1, <1>3

-----------------------------------------------------------------------------
(***************************************************************************)
(* Chat messages.                                                          *)
(***************************************************************************)
ChatNumber == [e \in {e \in Events : IsChat(e)} |-> e.arg.n]
ChatsOf(q) == Numbers(q, ChatNumber)

AllChats == {n \in 1 .. read : serverLog[n] = "chat"}
ChatsHere == Range(printed) \cup ChatsOf(mainBatch) \cup ChatsOf(mainInbox)
                \cup ChatsOf(netPushes) \cup ChatsOf(netBatch) \cup ChatsOf(netInbox)

ChatsSorted == /\ Sorted(printed, Itself)
               /\ Sorted(mainBatch, ChatNumber) /\ Sorted(mainInbox, ChatNumber)
               /\ Sorted(netPushes, ChatNumber) /\ Sorted(netBatch, ChatNumber)
               /\ Sorted(netInbox, ChatNumber)
ChatsOrdered == InOrder(Range(printed), ChatsOf(mainBatch), ChatsOf(mainInbox),
                        ChatsOf(netPushes), ChatsOf(netBatch), ChatsOf(netInbox))
ChatsWhole == IF netPc = "gone" THEN StartOf(ChatsHere, AllChats) ELSE ChatsHere = AllChats

ChatInv == ChatsSorted /\ ChatsOrdered /\ ChatsWhole

(* The number of a chat event is that of the packet.                       *)
LEMMA ChatNumbers ==
    /\ \A e \in Events : Number(e, ChatNumber) = IF IsChat(e) THEN {e.arg.n} ELSE {}
    /\ \A e \in Events : e \in DOMAIN ChatNumber <=> IsChat(e)
BY DEF ChatNumber, Number

(* Sequences of events as the properties look at them.                     *)
LEMMA ChatSequence ==
    ASSUME NEW s \in Seq(Events)
    PROVE  /\ Sorted(s, ChatNumber) <=> Increasing(Chats(s))
           /\ ChatsOf(s) = Range(Chats(s))
<1>1. \A i \in DOMAIN s : s[i] \in Events OBVIOUS
<1>2. /\ \A i \in DOMAIN s : s[i] \in DOMAIN ChatNumber <=> IsChat(s[i])
      /\ \A i \in DOMAIN s : IsChat(s[i]) => ChatNumber[s[i]] = s[i].arg.n
  BY <1>1 DEF ChatNumber
<1>3. /\ \A i \in DOMAIN Chats(s) : i \in DOMAIN s /\ IsChat(s[i]) /\ Chats(s)[i] = s[i].arg.n
      /\ \A i \in DOMAIN s : IsChat(s[i]) => i \in DOMAIN Chats(s)
  BY DEF Chats
<1>4. Sorted(s, ChatNumber) <=> Increasing(Chats(s)) BY <1>2, <1>3 DEF Sorted, Increasing
<1>5. ChatsOf(s) = Range(Chats(s))
  <2>1. ChatsOf(s) = {ChatNumber[s[i]] : i \in {i \in DOMAIN s : s[i] \in DOMAIN ChatNumber}}
    BY DEF ChatsOf, Numbers, Content
  <2>2. Range(Chats(s)) = {s[i].arg.n : i \in {i \in DOMAIN s : IsChat(s[i])}}
    BY <1>3 DEF Range
  <2>3. QED BY <1>2, <2>1, <2>2
<1>6. QED BY <1>4, <1>5

(* The handler of a chat packet pushes the chat, and no other does.        *)
LEMMA ChatReaction ==
    ASSUME NEW e \in Events, e.id \in {"ReceivedPacket", "SendChatMessage"}
    PROVE  /\ NetReaction(e) \in Seq(Events)
           /\ Sorted(NetReaction(e), ChatNumber)
           /\ ChatsOf(NetReaction(e)) = Number(e, ChatNumber)
<1>1. NetReaction(e) \in Seq(Events) BY ReactionIn
<1>2. CASE e.id = "ReceivedPacket" /\ e.arg.name = "chat"
  <2>1. PICK x : x = Event("ReceivedChatMessage", e.arg) OBVIOUS
  <2>2. NetReaction(e) = <<x>>
    <3>1. NetReaction(e) = UpdatePacket(e.arg) BY <1>2 DEF NetReaction
    <3>2. UpdatePacket(e.arg) = <<Event("ReceivedChatMessage", e.arg)>>
      BY <1>2 DEF UpdatePacket, Health
    <3>3. QED BY <2>1, <3>1, <3>2
  <2>3. Content(NetReaction(e)) = {x} /\ \A i, j \in DOMAIN NetReaction(e) : ~(i < j)
    BY <2>2 DEF Content
  <2>4. x \in Events /\ IsChat(x) /\ x.arg.n = e.arg.n /\ IsChat(e)
    <3>1. x \in Content(NetReaction(e)) BY <2>3
    <3>2. x \in Events BY <1>1, <2>2
    <3>3. x.id = "ReceivedChatMessage" /\ x.arg = e.arg BY <2>1 DEF Event
    <3>4. QED BY <1>2, <3>2, <3>3 DEF IsChat
  <2>5. ChatsOf(NetReaction(e)) = Number(x, ChatNumber) BY <2>3 DEF ChatsOf, Numbers, Number
  <2>6. QED BY <1>1, <2>3, <2>4, <2>5, ChatNumbers DEF Sorted
<1>3. CASE ~(e.id = "ReceivedPacket" /\ e.arg.name = "chat")
  <2>1. ~IsChat(e) BY <1>3 DEF IsChat
  <2>2. ASSUME NEW x \in Content(NetReaction(e)) PROVE ~IsChat(x)
    <3>1. SUFFICES ASSUME IsChat(x) PROVE FALSE OBVIOUS
    <3>2. x.id = "ReceivedChatMessage" /\ x.arg.name = "chat" BY <3>1, ReactionIn DEF IsChat
    <3>3. e.id = "ReceivedPacket" /\ x.arg = e.arg BY <3>2, ReactionIn
    <3>4. QED BY <1>3, <3>2, <3>3
  <2>3. \A x \in Content(NetReaction(e)) : x \notin DOMAIN ChatNumber BY <2>2 DEF ChatNumber
  <2>4. \A i \in DOMAIN NetReaction(e) : NetReaction(e)[i] \in Content(NetReaction(e)) BY DEF Content
  <2>5. QED BY <1>1, <2>1, <2>3, <2>4, ChatNumbers DEF Sorted, ChatsOf, Numbers
<1>4. QED BY <1>2, <1>3

(* Every step keeps the chats in order and loses none before the end.      *)
LEMMA ChatStep == ASSUME IInv, WireInv, KindInv, ChatInv, Next PROVE ChatInv'
<1>0. /\ TypeOK /\ QueuesTyped /\ ThreadTyped /\ HistoryTyped /\ ConnTyped /\ ThreadInv
      /\ read \in Nat /\ printed \in Seq(Nat)
  BY Typing DEF IInv, HistoryTyped
<1>1. Sorted(<< >>, ChatNumber) /\ ChatsOf(<< >>) = {} BY EmptySorted DEF ChatsOf
<1>2. ASSUME UNCHANGED <<mainInbox, mainBatch, netInbox, netBatch, netPushes, printed, read, serverLog>>,
             netPc' = "gone" <=> netPc = "gone"
      PROVE  ChatInv'
  BY <1>2 DEF ChatInv, ChatsSorted, ChatsOrdered, ChatsWhole, ChatsHere, AllChats, ChatsOf, IsChat
<1>3. ASSUME UNCHANGED <<read, serverLog>>, netPc' = "gone" <=> netPc = "gone", ChatsHere' = ChatsHere
      PROVE  ChatsWhole'
  BY <1>3 DEF ChatInv, ChatsWhole, AllChats
<1>4. CASE MainPoll
  <2>1. /\ mainBatch = << >> /\ mainBatch' = mainInbox /\ mainInbox' = << >>
        /\ UNCHANGED <<netPc, netInbox, netBatch, netPushes, printed, read, serverLog>>
    BY <1>4 DEF MainPoll, netVars, history
  <2>2. ChatsSorted' BY <1>1, <2>1 DEF ChatInv, ChatsSorted
  <2>3. ChatsOrdered'
    <3>1. InOrder(Range(printed), ChatsOf(mainInbox), {}, ChatsOf(netPushes), ChatsOf(netBatch),
                  ChatsOf(netInbox))
      BY <1>1, <2>1, Stages DEF ChatInv, ChatsOrdered
    <3>2. QED BY <1>1, <2>1, <3>1 DEF ChatsOrdered
  <2>4. ChatsHere' = ChatsHere BY <1>1, <2>1 DEF ChatsHere
  <2>5. QED BY <1>3, <2>1, <2>2, <2>3, <2>4 DEF ChatInv
<1>5. CASE MainHandle
  <2>0. PICK e : e = Head(mainBatch) OBVIOUS
  <2>1. /\ mainBatch # << >> /\ mainBatch' = Tail(mainBatch)
        /\ e \in Events /\ e \in Content(mainBatch)
        /\ printed' = IF e.id = "ReceivedChatMessage" THEN Append(printed, e.arg.n) ELSE printed
        /\ UNCHANGED <<netPc, mainInbox, netInbox, netBatch, netPushes, read, serverLog>>
    BY <1>0, <1>5, <2>0, HeadIn DEF MainHandle, netVars, QueuesTyped
  <2>2. /\ Sorted(Tail(mainBatch), ChatNumber)
        /\ ChatsOf(mainBatch) = Number(e, ChatNumber) \cup ChatsOf(Tail(mainBatch))
        /\ Before(Number(e, ChatNumber), ChatsOf(Tail(mainBatch)))
    BY <1>0, <2>0, <2>1, TailSorted DEF ChatInv, ChatsSorted, ChatsOf, QueuesTyped
  <2>3. Number(e, ChatNumber) = IF e.id = "ReceivedChatMessage" THEN {e.arg.n} ELSE {}
    <3>1. e.id \in MainHandles /\ (e.id = "ReceivedChatMessage" => e.arg.name = "chat")
      BY <2>1 DEF KindInv
    <3>2. IsChat(e) <=> e.id = "ReceivedChatMessage" BY <3>1 DEF IsChat, MainHandles
    <3>3. QED BY <2>1, <3>2, ChatNumbers
  <2>4. /\ Sorted(printed', Itself) /\ printed' \in Seq(Nat)
        /\ Range(printed') = Range(printed) \cup Number(e, ChatNumber)
    <3>1. CASE e.id # "ReceivedChatMessage" BY <1>0, <2>1, <2>3, <3>1 DEF ChatInv, ChatsSorted
    <3>2. CASE e.id = "ReceivedChatMessage"
      <4>1. e.arg.n \in Nat BY <2>1 DEF Events, Items
      <4>2. PICK p : p = Append(printed, e.arg.n) OBVIOUS
      <4>3. p \in Seq(Nat) BY <1>0, <4>1, <4>2
      <4>4. Range(printed) = Numbers(printed, Itself) /\ Range(p) = Numbers(p, Itself)
            /\ Number(e.arg.n, Itself) = {e.arg.n}
        BY <1>0, <4>1, <4>3, SortedNumbers
      <4>5. Before(Range(printed), {e.arg.n}) BY <2>2, <2>3, <3>2 DEF ChatInv, ChatsOrdered, InOrder, Before
      <4>6. Sorted(p, Itself) /\ Numbers(p, Itself) = Numbers(printed, Itself) \cup {e.arg.n}
        <5>1. Sorted(printed, Itself) /\ Before(Numbers(printed, Itself), Number(e.arg.n, Itself))
          BY <4>4, <4>5 DEF ChatInv, ChatsSorted
        <5>2. /\ Sorted(Append(printed, e.arg.n), Itself)
              /\ Numbers(Append(printed, e.arg.n), Itself)
                    = Numbers(printed, Itself) \cup Number(e.arg.n, Itself)
          BY <1>0, <4>1, <5>1, AppendSorted
        <5>3. QED BY <4>2, <4>4, <5>2
      <4>7. QED BY <2>1, <2>3, <3>2, <4>2, <4>3, <4>4, <4>6
    <3>3. QED BY <3>1, <3>2
  <2>5. ChatsSorted' BY <2>1, <2>2, <2>4 DEF ChatInv, ChatsSorted
  <2>6. ChatsOrdered'
    <3>1. InOrder(Range(printed) \cup Number(e, ChatNumber), ChatsOf(Tail(mainBatch)),
                  ChatsOf(mainInbox), ChatsOf(netPushes), ChatsOf(netBatch), ChatsOf(netInbox))
      BY <2>2, Stages DEF ChatInv, ChatsOrdered
    <3>2. QED BY <2>1, <2>4, <3>1 DEF ChatsOrdered
  <2>7. ChatsHere' = ChatsHere BY <2>1, <2>2, <2>4 DEF ChatsHere
  <2>8. QED BY <1>3, <2>1, <2>5, <2>6, <2>7 DEF ChatInv
<1>6. CASE MainPush \/ Input \/ NetCheckTimeout \/ NetCatch
  <2>1. /\ UNCHANGED <<mainInbox, mainBatch, netBatch, netPushes, printed, read, serverLog>>
        /\ netPc' = "gone" <=> netPc = "gone"
    BY <1>6, AsidePushed, InputPushed
  <2>2. Sorted(netInbox', ChatNumber) /\ ChatsOf(netInbox') = ChatsOf(netInbox)
    <3>1. CASE UNCHANGED netInbox BY <3>1 DEF ChatInv, ChatsSorted
    <3>2. ASSUME NEW e \in Events, Aside(e), netInbox' = Append(netInbox, e)
          PROVE  Sorted(netInbox', ChatNumber) /\ ChatsOf(netInbox') = ChatsOf(netInbox)
      <4>1. e \notin DOMAIN ChatNumber BY <3>2, ChatNumbers DEF Aside, IsChat
      <4>2. QED BY <1>0, <3>2, <4>1, AppendAside DEF ChatInv, ChatsSorted, QueuesTyped, ChatsOf
    <3>3. QED BY <1>6, <3>1, <3>2, AsidePushed, InputPushed
  <2>3. ChatsSorted' /\ ChatsOrdered' /\ ChatsHere' = ChatsHere
    BY <2>1, <2>2 DEF ChatInv, ChatsSorted, ChatsOrdered, ChatsHere
  <2>4. QED BY <1>3, <2>1, <2>3 DEF ChatInv
<1>7. CASE NetReceive
  <2>1. /\ UNCHANGED <<mainInbox, mainBatch, netBatch, netPushes, printed, serverLog>>
        /\ netPc # "gone" /\ netPc' # "gone"
    BY <1>7, Received
  <2>2. ChatsHere = AllChats BY <2>1 DEF ChatInv, ChatsWhole
  <2>3. CASE UNCHANGED <<netInbox, read>> BY <1>2, <2>1, <2>3
  <2>4. CASE read' = read + 1 /\ serverLog[read'] = "unparsed" /\ UNCHANGED netInbox
    <3>1. AllChats' = AllChats
      <4>1. 1 .. read' = 1 .. read \cup {read'} BY <1>0, <2>4
      <4>2. serverLog' = serverLog /\ serverLog[read'] # "chat" BY <2>1, <2>4
      <4>3. QED BY <4>1, <4>2 DEF AllChats
    <3>2. ChatsSorted' /\ ChatsOrdered' /\ ChatsHere' = ChatsHere
      BY <2>1, <2>4 DEF ChatInv, ChatsSorted, ChatsOrdered, ChatsHere
    <3>3. QED BY <2>1, <2>2, <3>1, <3>2 DEF ChatInv, ChatsWhole
  <2>5. ASSUME NEW e \in Events, read' = read + 1, netInbox' = Append(netInbox, e),
               e.id = "ReceivedPacket", e.arg.name = serverLog[read'], e.arg.n = read'
        PROVE  ChatInv'
    <3>1. Number(e, ChatNumber) = IF serverLog[read'] = "chat" THEN {read'} ELSE {}
      BY <2>5, ChatNumbers DEF IsChat
    <3>2. AllChats' = AllChats \cup Number(e, ChatNumber)
      <4>1. 1 .. read' = 1 .. read \cup {read'} BY <1>0, <2>5
      <4>2. serverLog' = serverLog BY <2>1
      <4>3. QED BY <3>1, <4>1, <4>2 DEF AllChats
    <3>3. Before(ChatsHere, Number(e, ChatNumber))
      BY <1>0, <2>2, <2>5, <3>1 DEF AllChats, Before
    <3>4. Before(ChatsOf(netInbox), Number(e, ChatNumber)) BY <3>3 DEF ChatsHere, Before
    <3>5. /\ Sorted(netInbox', ChatNumber)
          /\ ChatsOf(netInbox') = ChatsOf(netInbox) \cup Number(e, ChatNumber)
      BY <1>0, <2>5, <3>4, AppendSorted DEF ChatInv, ChatsSorted, QueuesTyped, ChatsOf
    <3>6. ChatsSorted' BY <2>1, <3>5 DEF ChatInv, ChatsSorted
    <3>7. ChatsOrdered' BY <2>1, <3>3, <3>5, Stages, SMTT(30) DEF ChatInv, ChatsOrdered, ChatsHere
    <3>8. ChatsHere' = ChatsHere \cup Number(e, ChatNumber) BY <2>1, <3>5 DEF ChatsHere
    <3>9. QED BY <2>1, <2>2, <3>2, <3>6, <3>7, <3>8 DEF ChatInv, ChatsWhole
  <2>6. QED BY <1>7, <2>3, <2>4, <2>5, Received
<1>8. CASE NetHandle
  <2>0. PICK e : e = Head(netBatch) OBVIOUS
  <2>1. /\ netBatch # << >> /\ netBatch' = Tail(netBatch) /\ netPushes = << >>
        /\ netPushes' = NetReaction(e) /\ e \in Events
        /\ e.id \in {"ReceivedPacket", "SendChatMessage"}
        /\ UNCHANGED <<netPc, mainInbox, mainBatch, netInbox, printed, read, serverLog>>
    <3>1. netBatch # << >> /\ e.id # "SendPacket" BY <1>8, <2>0 DEF NetHandle
    <3>2. e \in Events /\ e \in Content(netBatch) BY <1>0, <2>0, <3>1, HeadIn DEF QueuesTyped
    <3>3. NetBatchOK(e) BY <3>2 DEF IInv, QueueInv
    <3>4. e.id \in {"ReceivedPacket", "SendChatMessage"} BY <3>1, <3>3 DEF NetBatchOK, NetHandles
    <3>5. QED BY <1>8, <2>0, <3>2, <3>4 DEF NetHandle, AtHandler, mainVars, history
  <2>2. /\ Sorted(Tail(netBatch), ChatNumber)
        /\ ChatsOf(netBatch) = Number(e, ChatNumber) \cup ChatsOf(Tail(netBatch))
        /\ Before(Number(e, ChatNumber), ChatsOf(Tail(netBatch)))
    BY <1>0, <2>0, <2>1, TailSorted DEF ChatInv, ChatsSorted, ChatsOf, QueuesTyped
  <2>3. Sorted(netPushes', ChatNumber) /\ ChatsOf(netPushes') = Number(e, ChatNumber)
    BY <2>1, ChatReaction
  <2>4. ChatsSorted' BY <2>1, <2>2, <2>3 DEF ChatInv, ChatsSorted
  <2>5. ChatsOrdered' BY <1>1, <2>1, <2>2, <2>3, Stages DEF ChatInv, ChatsOrdered
  <2>6. ChatsHere' = ChatsHere BY <1>1, <2>1, <2>2, <2>3 DEF ChatsHere
  <2>7. QED BY <1>3, <2>1, <2>4, <2>5, <2>6 DEF ChatInv
<1>9. CASE NetPush
  <2>0. PICK e : e = Head(netPushes) OBVIOUS
  <2>1. /\ netPushes # << >> /\ netPushes' = Tail(netPushes)
        /\ e \in Events /\ e \in Content(netPushes) /\ Push(e)
        /\ UNCHANGED <<netPc, mainBatch, netBatch, printed, read, serverLog>>
    BY <1>9, <2>0, PushedEvents DEF NetPush, history
  <2>2. /\ Sorted(Tail(netPushes), ChatNumber)
        /\ ChatsOf(netPushes) = Number(e, ChatNumber) \cup ChatsOf(Tail(netPushes))
        /\ Before(Number(e, ChatNumber), ChatsOf(Tail(netPushes)))
    BY <1>0, <2>0, <2>1, TailSorted DEF ChatInv, ChatsSorted, ChatsOf, QueuesTyped
  <2>3. /\ Sorted(netInbox', ChatNumber) /\ ChatsOf(netInbox') = ChatsOf(netInbox)
        /\ Sorted(mainInbox', ChatNumber)
        /\ ChatsOf(mainInbox') = ChatsOf(mainInbox) \cup Number(e, ChatNumber)
    <3>1. NetPushOK(e) BY <2>1 DEF IInv, QueueInv
    <3>2. CASE IsChat(e)
      <4>1. e.id = "ReceivedChatMessage" BY <3>1, <3>2 DEF IsChat, NetPushOK
      <4>2. mainInbox' = Append(mainInbox, e) /\ netInbox' = netInbox
        BY <1>0, <2>1, <4>1, PushExact DEF MainHandles, NetHandles
      <4>3. Before(ChatsOf(mainInbox), Number(e, ChatNumber))
        BY <2>2 DEF ChatInv, ChatsOrdered, InOrder, Before
      <4>4. QED BY <1>0, <2>1, <4>2, <4>3, AppendSorted DEF ChatInv, ChatsSorted, QueuesTyped, ChatsOf
    <3>3. CASE ~IsChat(e)
      <4>1. e \notin DOMAIN ChatNumber /\ Number(e, ChatNumber) = {} BY <2>1, <3>3, ChatNumbers
      <4>2. /\ mainInbox' \in {mainInbox, Append(mainInbox, e)}
            /\ netInbox' \in {netInbox, Append(netInbox, e)}
        BY <1>0, <2>1, PushExact
      <4>3. ASSUME NEW q \in Seq(Events), NEW r \in {q, Append(q, e)}, Sorted(q, ChatNumber)
            PROVE  Sorted(r, ChatNumber) /\ ChatsOf(r) = ChatsOf(q)
        <5>1. /\ Sorted(Append(q, e), ChatNumber)
              /\ ChatsOf(Append(q, e)) = ChatsOf(q)
          BY <2>1, <4>1, <4>3, AppendAside DEF ChatsOf
        <5>2. QED BY <4>3, <5>1
      <4>4. QED BY <1>0, <4>1, <4>2, <4>3 DEF ChatInv, ChatsSorted, QueuesTyped
    <3>4. QED BY <3>2, <3>3
  <2>4. ChatsSorted' BY <2>1, <2>2, <2>3 DEF ChatInv, ChatsSorted
  <2>5. ChatsOrdered'
    <3>1. InOrder(Range(printed), ChatsOf(mainBatch), ChatsOf(mainInbox) \cup Number(e, ChatNumber),
                  ChatsOf(Tail(netPushes)), ChatsOf(netBatch), ChatsOf(netInbox))
      BY <2>2, Stages DEF ChatInv, ChatsOrdered
    <3>2. QED BY <2>1, <2>3, <3>1 DEF ChatsOrdered
  <2>6. ChatsHere' = ChatsHere BY <2>1, <2>2, <2>3 DEF ChatsHere
  <2>7. QED BY <1>3, <2>1, <2>4, <2>5, <2>6 DEF ChatInv
<1>10. CASE NetPoll
  <2>1. /\ netBatch = << >> /\ netPushes = << >> /\ netBatch' = netInbox /\ netInbox' = << >>
        /\ netPc # "gone" /\ netPc' # "gone"
        /\ UNCHANGED <<mainInbox, mainBatch, netPushes, printed, read, serverLog>>
    BY <1>0, <1>10 DEF NetPoll, ThreadInv, ThreadTyped, Leaving, mainVars, history
  <2>2. ChatsSorted' BY <1>1, <2>1 DEF ChatInv, ChatsSorted
  <2>3. ChatsOrdered' BY <1>1, <2>1, Stages DEF ChatInv, ChatsOrdered
  <2>4. ChatsHere' = ChatsHere BY <1>1, <2>1 DEF ChatsHere
  <2>5. QED BY <1>3, <2>1, <2>2, <2>3, <2>4 DEF ChatInv
<1>11. CASE NetSend \/ NetSendThrows
  <2>0. PICK e : e = Head(netBatch) OBVIOUS
  <2>1. /\ netBatch # << >> /\ netBatch' = Tail(netBatch) /\ e.id = "SendPacket"
        /\ netPc # "gone" /\ netPc' # "gone"
        /\ UNCHANGED <<mainInbox, mainBatch, netInbox, netPushes, printed, read, serverLog>>
    BY <1>11, <2>0 DEF NetSend, NetSendThrows, AtHandler, mainVars, history
  <2>2. /\ Sorted(Tail(netBatch), ChatNumber)
        /\ ChatsOf(netBatch) = Number(e, ChatNumber) \cup ChatsOf(Tail(netBatch))
    BY <1>0, <2>0, <2>1, TailSorted DEF ChatInv, ChatsSorted, ChatsOf, QueuesTyped
  <2>3. e \in Events BY <1>0, <2>0, <2>1, HeadIn DEF QueuesTyped
  <2>4. Number(e, ChatNumber) = {} BY <2>1, <2>3, ChatNumbers DEF IsChat
  <2>5. ChatsOf(netBatch') = ChatsOf(netBatch) BY <2>1, <2>2, <2>4
  <2>6. ChatsSorted' /\ ChatsOrdered' /\ ChatsHere' = ChatsHere
    BY <2>1, <2>2, <2>5 DEF ChatInv, ChatsSorted, ChatsOrdered, ChatsHere
  <2>7. QED BY <1>3, <2>1, <2>6 DEF ChatInv
<1>12. CASE NetDestroyListener
  <2>1. /\ netInbox' = << >> /\ netBatch' = << >> /\ netPushes' = << >>
        /\ netPc = "leaving" /\ netPc' = "gone"
        /\ UNCHANGED <<mainInbox, mainBatch, printed, read, serverLog>>
    BY <1>12 DEF NetDestroyListener, mainVars, history
  <2>2. ChatsHere = AllChats BY <2>1 DEF ChatInv, ChatsWhole
  <2>3. ChatsSorted' BY <1>1, <2>1 DEF ChatInv, ChatsSorted
  <2>4. ChatsOrdered' BY <1>1, <2>1, Stages DEF ChatInv, ChatsOrdered
  <2>5. StartOf(ChatsHere', AllChats')
    <3>1. ChatsHere' = Range(printed) \cup ChatsOf(mainBatch) \cup ChatsOf(mainInbox)
      BY <1>1, <2>1 DEF ChatsHere
    <3>2. AllChats' = AllChats BY <2>1 DEF AllChats
    <3>3. ASSUME NEW m \in ChatsHere', NEW n \in AllChats, n < m PROVE n \in ChatsHere'
      <4>1. n \in ChatsHere /\ n \in Nat /\ m \in AllChats /\ m \in Nat
        BY <2>2, <3>1, <3>3 DEF ChatsHere, AllChats
      <4>2. CASE n \notin ChatsHere'
        <5>1. n \in ChatsOf(netPushes) \cup ChatsOf(netBatch) \cup ChatsOf(netInbox)
          BY <3>1, <4>1, <4>2 DEF ChatsHere
        <5>2. m < n BY <3>1, <3>3, <5>1 DEF ChatInv, ChatsOrdered, InOrder, Before
        <5>3. QED BY <3>3, <4>1, <5>2
      <4>3. QED BY <4>2
    <3>4. ChatsHere' \subseteq AllChats BY <2>2, <3>1 DEF ChatsHere
    <3>5. QED BY <3>2, <3>3, <3>4 DEF StartOf
  <2>6. QED BY <2>1, <2>3, <2>4, <2>5 DEF ChatInv, ChatsWhole
<1>13. CASE NetStart \/ NetHandleDone \/ NetReceiveThrows \/ NetReply
  BY <1>2, <1>13 DEF NetStart, NetHandleDone, NetReceiveThrows, NetReply, AtHandler, mainVars, history
<1>14. ASSUME NEW name \in Repertoire, ServerSend(name) PROVE ChatInv'
  <2>1. /\ serverLog' = Append(serverLog, name)
        /\ UNCHANGED <<netPc, mainInbox, mainBatch, netInbox, netBatch, netPushes, printed, read>>
    BY <1>14 DEF ServerSend, mainVars, netVars
  <2>2. \A n \in 1 .. read : serverLog'[n] = serverLog[n] BY <1>0, <2>1 DEF HistoryTyped
  <2>3. AllChats' = AllChats BY <2>1, <2>2 DEF AllChats
  <2>4. ChatsSorted' /\ ChatsOrdered' /\ ChatsHere' = ChatsHere
    BY <2>1 DEF ChatInv, ChatsSorted, ChatsOrdered, ChatsHere
  <2>5. QED BY <2>1, <2>3, <2>4 DEF ChatInv, ChatsWhole
<1>15. CASE ServerKeepAlive \/ ServerClose \/ Tick
  BY <1>2, <1>15 DEF ServerKeepAlive, ServerClose, Tick, mainVars, netVars, history
<1>16. QED
  BY <1>4, <1>5, <1>6, <1>7, <1>8, <1>9, <1>10, <1>11, <1>12, <1>13, <1>14, <1>15
     DEF Next, Main, Input, Network

(* Two queues in a row.                                                    *)
LEMMA ChatsJoined ==
    ASSUME NEW s \in Seq(Events), NEW t \in Seq(Events), Sorted(s, ChatNumber), Sorted(t, ChatNumber),
           Before(ChatsOf(s), ChatsOf(t))
    PROVE  /\ s \o t \in Seq(Events) /\ Sorted(s \o t, ChatNumber)
           /\ ChatsOf(s \o t) = ChatsOf(s) \cup ChatsOf(t)
BY ConcatIn, ConcatSorted DEF ChatsOf

(* The chats the property looks at are in order when those of every stage  *)
(* are.                                                                    *)
LEMMA ChatsShown == ASSUME IInv, ChatInv PROVE ChatsInOrder
<1>0. /\ QueuesTyped /\ printed \in Seq(Nat) /\ ThreadTyped
  BY Typing DEF IInv, HistoryTyped
<1>1. PICK a : a = mainBatch \o mainInbox OBVIOUS
<1>2. a \in Seq(Events) /\ Sorted(a, ChatNumber) /\ ChatsOf(a) = ChatsOf(mainBatch) \cup ChatsOf(mainInbox)
  <2>1. Before(ChatsOf(mainBatch), ChatsOf(mainInbox)) BY DEF ChatInv, ChatsOrdered, InOrder, Before
  <2>2. QED BY <1>0, <1>1, <2>1, ChatsJoined DEF ChatInv, ChatsSorted, QueuesTyped
<1>3. PICK b : b = a \o netPushes OBVIOUS
<1>4. b \in Seq(Events) /\ Sorted(b, ChatNumber) /\ ChatsOf(b) = ChatsOf(a) \cup ChatsOf(netPushes)
  <2>1. Before(ChatsOf(a), ChatsOf(netPushes)) BY <1>2 DEF ChatInv, ChatsOrdered, InOrder, Before
  <2>2. QED BY <1>0, <1>2, <1>3, <2>1, ChatsJoined DEF ChatInv, ChatsSorted, QueuesTyped
<1>5. PICK c : c = b \o netBatch OBVIOUS
<1>6. c \in Seq(Events) /\ Sorted(c, ChatNumber) /\ ChatsOf(c) = ChatsOf(b) \cup ChatsOf(netBatch)
  <2>1. Before(ChatsOf(b), ChatsOf(netBatch)) BY <1>2, <1>4 DEF ChatInv, ChatsOrdered, InOrder, Before
  <2>2. QED BY <1>0, <1>4, <1>5, <2>1, ChatsJoined DEF ChatInv, ChatsSorted, QueuesTyped
<1>7. PICK way : way = c \o netInbox OBVIOUS
<1>8. way \in Seq(Events) /\ Sorted(way, ChatNumber) /\ ChatsOf(way) = ChatsOf(c) \cup ChatsOf(netInbox)
  <2>1. Before(ChatsOf(c), ChatsOf(netInbox)) BY <1>2, <1>4, <1>6 DEF ChatInv, ChatsOrdered, InOrder, Before
  <2>2. QED BY <1>0, <1>6, <1>7, <2>1, ChatsJoined DEF ChatInv, ChatsSorted, QueuesTyped
<1>9. way = mainBatch \o mainInbox \o netPushes \o netBatch \o netInbox
  BY <1>1, <1>3, <1>5, <1>7
<1>10. Increasing(Chats(way)) /\ Range(Chats(way)) = ChatsOf(way) BY <1>8, ChatSequence
<1>11. Increasing(printed) BY <1>0, SortedNumbers DEF ChatInv, ChatsSorted
<1>12. Range(printed) \cup Range(Chats(way)) = ChatsHere
  BY <1>2, <1>4, <1>6, <1>8, <1>10 DEF ChatsHere
<1>13. Below(printed, Chats(way))
  <2>1. Before(Range(printed), Range(Chats(way)))
    BY <1>2, <1>4, <1>6, <1>8, <1>10 DEF ChatInv, ChatsOrdered, InOrder, Before
  <2>2. QED BY <2>1 DEF Below, Before, Range
<1>14. QED BY <1>9, <1>10, <1>11, <1>12, <1>13 DEF ChatInv, ChatsWhole, ChatsInOrder, AllChats

-----------------------------------------------------------------------------
(***************************************************************************)
(* The theorems.                                                           *)
(***************************************************************************)
OrderInv == WireInv /\ KindInv /\ ChatInv

(* At first nothing has been sent.                                         *)
LEMMA OrderInit == Init => OrderInv
<1> SUFFICES ASSUME Init PROVE OrderInv OBVIOUS
<1>1. Content(<< >>) = {} /\ Sorted(<< >>, ChatNumber) /\ ChatsOf(<< >>) = {}
  BY EmptySorted DEF ChatsOf, Content
<1>2. Sorted(<< >>, Itself) /\ Range(<< >>) = {} BY EmptySorted DEF Range
<1>3. WireInv BY DEF Init, WireInv
<1>4. KindInv BY <1>1 DEF Init, KindInv
<1>5. ChatsSorted BY <1>1, <1>2 DEF Init, ChatsSorted
<1>6. ChatsOrdered BY <1>1, <1>2 DEF Init, ChatsOrdered, InOrder, Before
<1>7. ChatsWhole BY <1>1, <1>2 DEF Init, ChatsWhole, ChatsHere, AllChats
<1>8. QED BY <1>3, <1>4, <1>5, <1>6, <1>7 DEF OrderInv, ChatInv

(* Every step keeps the order.                                             *)
LEMMA OrderNext == IInv /\ OrderInv /\ [Next]_vars => OrderInv'
<1>1. ASSUME IInv, OrderInv, Next PROVE OrderInv'
  BY <1>1, WireStep, KindStep, ChatStep DEF OrderInv
<1>2. ASSUME OrderInv, UNCHANGED vars PROVE OrderInv'
  <2>1. UNCHANGED <<mainInbox, mainBatch, netPc, netInbox, netBatch, netPushes, toClient, serverLog, read,
                    written, printed>>
    BY <1>2 DEF vars, mainVars, netVars, connVars, history
  <2>2. WireInv' /\ KindInv' BY <1>2, <2>1 DEF OrderInv, WireInv, KindInv, Numbered
  <2>3. ChatInv'
    BY <1>2, <2>1 DEF OrderInv, ChatInv, ChatsSorted, ChatsOrdered, ChatsWhole, ChatsHere, AllChats
  <2>4. QED BY <2>2, <2>3 DEF OrderInv
<1>3. QED BY <1>1, <1>2

(* The order is kept in every run of the client.                           *)
LEMMA OrderKept == Spec => []OrderInv
BY ClientInvariant, OrderInit, OrderNext, PTL DEF Spec

(* However many chat messages the server sends, between whatever other     *)
(* packets, they are printed in the order they were sent, each once; none  *)
(* is lost while the network thread runs, and when it ends only those in   *)
(* its own queues are (networkclient.cpp:101-104, 124, 191;                *)
(* main.cpp:98-101).                                                       *)
THEOREM ChatsKeepOrder == Spec => []ChatsInOrder
<1>1. IInv /\ OrderInv => ChatsInOrder BY ChatsShown DEF OrderInv
<1>2. QED BY <1>1, ClientInvariant, OrderKept, PTL

-----------------------------------------------------------------------------
(***************************************************************************)
(* The lines typed and the replies to the packets of the server go the     *)
(* same way: what is asked waits in the inbox and the batch of the network *)
(* thread, its handler pushes the packets to be sent, and these go through *)
(* the same inbox and batch once more.                                     *)
(***************************************************************************)

\* h numbers the packets written, f those to be sent, g what is asked.
PipeSorted(h, f, g) == /\ Sorted(written, h)
                       /\ Sorted(netBatch, f) /\ Sorted(netInbox, f) /\ Sorted(netPushes, f)
                       /\ Sorted(netBatch, g) /\ Sorted(netInbox, g)
PipeOrdered(h, f, g) == InOrder(Numbers(written, h), Numbers(netBatch, f), Numbers(netInbox, f),
                                Numbers(netPushes, f), Numbers(netBatch, g), Numbers(netInbox, g))
Pipe(h, f, g) == PipeSorted(h, f, g) /\ PipeOrdered(h, f, g)

PipeDone(h, f) == Numbers(written, h) \cup Numbers(netBatch, f) \cup Numbers(netInbox, f)
                     \cup Numbers(netPushes, f)
PipeOpen(g) == Numbers(netBatch, g) \cup Numbers(netInbox, g)

\* A packet written keeps the number it had as an event.
IsPipe(h, f, g) ==
    /\ \A e \in Events : e.id = "SendPacket" /\ e.arg.n # 0 => Number(e.arg, h) = Number(e, f)
    /\ \A e \in Events : e.id # "SendPacket" => e \notin DOMAIN f
    /\ \A e \in Events : e.id \notin {"ReceivedPacket", "SendChatMessage"} => e \notin DOMAIN g

-----------------------------------------------------------------------------
(* A step that touches none of the queues.                                 *)
LEMMA PipeKept ==
    ASSUME NEW h, NEW f, NEW g, Pipe(h, f, g),
           UNCHANGED <<written, netBatch, netInbox, netPushes>>
    PROVE  /\ Pipe(h, f, g)'
           /\ PipeDone(h, f)' = PipeDone(h, f) /\ PipeOpen(g)' = PipeOpen(g)
BY DEF Pipe, PipeSorted, PipeOrdered, PipeDone, PipeOpen

(* An event that is neither asked nor to be sent.                          *)
LEMMA PipeAside ==
    ASSUME TypeOK, NEW h, NEW f, NEW g, Pipe(h, f, g), UNCHANGED <<written, netBatch, netPushes>>,
           NEW e \in Events, netInbox' = Append(netInbox, e), e \notin DOMAIN f, e \notin DOMAIN g
    PROVE  /\ Pipe(h, f, g)'
           /\ PipeDone(h, f)' = PipeDone(h, f) /\ PipeOpen(g)' = PipeOpen(g)
<1>1. netInbox \in Seq(Events) BY DEF TypeOK
<1>2. /\ Sorted(netInbox', f) /\ Numbers(netInbox', f) = Numbers(netInbox, f)
      /\ Sorted(netInbox', g) /\ Numbers(netInbox', g) = Numbers(netInbox, g)
  BY <1>1, AppendAside DEF Pipe, PipeSorted
<1>3. QED BY <1>2 DEF Pipe, PipeSorted, PipeOrdered, PipeDone, PipeOpen

(* Something new is asked.                                                 *)
LEMMA PipeEnter ==
    ASSUME TypeOK, NEW h, NEW f, NEW g, Pipe(h, f, g), UNCHANGED <<written, netBatch, netPushes>>,
           NEW e \in Events, netInbox' = Append(netInbox, e), e \notin DOMAIN f,
           Before(PipeDone(h, f) \cup PipeOpen(g), Number(e, g))
    PROVE  /\ Pipe(h, f, g)'
           /\ PipeDone(h, f)' = PipeDone(h, f) /\ PipeOpen(g)' = PipeOpen(g) \cup Number(e, g)
<1>1. netInbox \in Seq(Events) BY DEF TypeOK
<1>2. Before(Numbers(netInbox, g), Number(e, g)) BY DEF PipeOpen, Before
<1>3. Sorted(netInbox', f) /\ Numbers(netInbox', f) = Numbers(netInbox, f)
  BY <1>1, AppendAside DEF Pipe, PipeSorted
<1>4. Sorted(netInbox', g) /\ Numbers(netInbox', g) = Numbers(netInbox, g) \cup Number(e, g)
  BY <1>1, <1>2, AppendSorted DEF Pipe, PipeSorted
<1>5. PipeSorted(h, f, g)' BY <1>3, <1>4 DEF Pipe, PipeSorted
<1>6. PipeOrdered(h, f, g)'
  <2>1. InOrder(Numbers(written, h), Numbers(netBatch, f), Numbers(netInbox, f), Numbers(netPushes, f),
                Numbers(netBatch, g), Numbers(netInbox, g) \cup Number(e, g))
    BY Stages DEF Pipe, PipeOrdered, PipeDone, PipeOpen, Before
  <2>2. QED BY <1>3, <1>4, <2>1 DEF PipeOrdered
<1>7. QED BY <1>3, <1>4, <1>5, <1>6 DEF Pipe, PipeDone, PipeOpen

(* Handling what was asked first.                                          *)
LEMMA PipeHandle ==
    ASSUME TypeOK, NEW h, NEW f, NEW g, Pipe(h, f, g), UNCHANGED <<written, netInbox>>,
           netBatch # << >>, netBatch' = Tail(netBatch), netPushes = << >>,
           Head(netBatch) \notin DOMAIN f,
           Sorted(netPushes', f), Before(PipeDone(h, f), Numbers(netPushes', f)),
           Before(Numbers(netPushes', f), Numbers(Tail(netBatch), g) \cup Numbers(netInbox, g))
    PROVE  /\ Pipe(h, f, g)'
           /\ PipeDone(h, f)' = PipeDone(h, f) \cup Numbers(netPushes', f)
           /\ PipeOpen(g) = Number(Head(netBatch), g) \cup PipeOpen(g)'
<1>1. netBatch \in Seq(Events) BY DEF TypeOK
<1>2. /\ Sorted(netBatch', g) /\ Numbers(netBatch, g) = Number(Head(netBatch), g) \cup Numbers(netBatch', g)
      /\ Sorted(netBatch', f) /\ Numbers(netBatch, f) = Number(Head(netBatch), f) \cup Numbers(netBatch', f)
  BY <1>1, TailSorted DEF Pipe, PipeSorted
<1>3. Number(Head(netBatch), f) = {} BY DEF Number
<1>4. Numbers(netPushes, f) = {} BY EmptySorted
<1>5. PipeSorted(h, f, g)' BY <1>2 DEF Pipe, PipeSorted
<1>6. PipeOrdered(h, f, g)' BY <1>2, <1>3, <1>4 DEF Pipe, PipeOrdered, InOrder, Before, PipeDone
<1>7. QED BY <1>2, <1>3, <1>4, <1>5, <1>6 DEF Pipe, PipeDone, PipeOpen

(* Polling, pushing and sending.                                           *)
LEMMA PipeMove ==
    ASSUME IInv, NEW h, NEW f, NEW g, IsPipe(h, f, g), Pipe(h, f, g),
           \A e \in Content(netBatch) : e.id = "SendPacket" /\ e.arg.n = 0 => e \notin DOMAIN f,
           NetPoll \/ NetPush \/ NetSend
    PROVE  /\ Pipe(h, f, g)'
           /\ PipeDone(h, f)' = PipeDone(h, f) /\ PipeOpen(g)' = PipeOpen(g)
<1>0. /\ TypeOK /\ QueuesTyped /\ ThreadTyped /\ ThreadInv /\ written \in Seq(Items)
  BY Typing DEF IInv, HistoryTyped
<1>1. /\ Sorted(<< >>, f) /\ Numbers(<< >>, f) = {}
      /\ Sorted(<< >>, g) /\ Numbers(<< >>, g) = {}
  BY EmptySorted
<1>2. CASE NetPoll
  <2>1. /\ netBatch = << >> /\ netPushes = << >> /\ netBatch' = netInbox /\ netInbox' = << >>
        /\ UNCHANGED <<netPushes, written>>
    BY <1>0, <1>2 DEF NetPoll, ThreadInv, ThreadTyped, Leaving, mainVars, history
  <2>2. PipeSorted(h, f, g)' BY <1>1, <2>1 DEF Pipe, PipeSorted
  <2>3. PipeOrdered(h, f, g)' BY <1>1, <2>1 DEF Pipe, PipeOrdered, InOrder, Before
  <2>4. QED BY <1>1, <2>1, <2>2, <2>3 DEF Pipe, PipeDone, PipeOpen
<1>3. CASE NetPush
  <2>0. PICK e : e = Head(netPushes) OBVIOUS
  <2>1. /\ netPushes # << >> /\ netPushes' = Tail(netPushes)
        /\ e \in Events /\ e \in Content(netPushes) /\ Push(e) /\ NetListens
        /\ UNCHANGED <<netBatch, written>>
    <3>1. netPushes # << >> /\ netPc = "handle" BY <1>0, <1>3 DEF NetPush, ThreadTyped
    <3>2. QED BY <1>3, <2>0, <3>1, PushedEvents DEF NetPush, history, NetListens
  <2>2. /\ Sorted(Tail(netPushes), f)
        /\ Numbers(netPushes, f) = Number(e, f) \cup Numbers(Tail(netPushes), f)
        /\ Before(Number(e, f), Numbers(Tail(netPushes), f))
    BY <1>0, <2>0, <2>1, TailSorted DEF Pipe, PipeSorted, QueuesTyped
  <2>3. e.id \notin {"ReceivedPacket", "SendChatMessage"} /\ e \notin DOMAIN g
    BY <2>1 DEF IInv, QueueInv, NetPushOK, IsPipe
  <2>4. /\ Sorted(netInbox', f) /\ Numbers(netInbox', f) = Numbers(netInbox, f) \cup Number(e, f)
    <3>1. CASE e.id = "SendPacket"
      <4>1. netInbox' = Append(netInbox, e) BY <1>0, <2>1, <3>1, PushExact DEF NetHandles
      <4>2. Before(Numbers(netInbox, f), Number(e, f)) BY <2>2 DEF Pipe, PipeOrdered, InOrder, Before
      <4>3. QED BY <1>0, <2>1, <4>1, <4>2, AppendSorted DEF Pipe, PipeSorted, QueuesTyped
    <3>2. CASE e.id # "SendPacket"
      <4>1. e \notin DOMAIN f /\ Number(e, f) = {} BY <2>1, <3>2 DEF IsPipe, Number
      <4>2. netInbox' \in {netInbox, Append(netInbox, e)} BY <1>0, <2>1, PushExact
      <4>3. Sorted(Append(netInbox, e), f) /\ Numbers(Append(netInbox, e), f) = Numbers(netInbox, f)
        BY <1>0, <2>1, <4>1, AppendAside DEF Pipe, PipeSorted, QueuesTyped
      <4>4. QED BY <4>1, <4>2, <4>3 DEF Pipe, PipeSorted
    <3>3. QED BY <3>1, <3>2
  <2>5. Sorted(netInbox', g) /\ Numbers(netInbox', g) = Numbers(netInbox, g)
    <3>1. netInbox' \in {netInbox, Append(netInbox, e)} BY <1>0, <2>1, PushExact
    <3>2. Sorted(Append(netInbox, e), g) /\ Numbers(Append(netInbox, e), g) = Numbers(netInbox, g)
      BY <1>0, <2>1, <2>3, AppendAside DEF Pipe, PipeSorted, QueuesTyped
    <3>3. QED BY <3>1, <3>2 DEF Pipe, PipeSorted
  <2>6. PipeSorted(h, f, g)' BY <2>1, <2>2, <2>4, <2>5 DEF Pipe, PipeSorted
  <2>7. PipeOrdered(h, f, g)'
    <3>1. InOrder(Numbers(written, h), Numbers(netBatch, f), Numbers(netInbox, f) \cup Number(e, f),
                  Numbers(Tail(netPushes), f), Numbers(netBatch, g), Numbers(netInbox, g))
      BY <2>2, Stages DEF Pipe, PipeOrdered
    <3>2. QED BY <2>1, <2>4, <2>5, <3>1 DEF PipeOrdered
  <2>8. QED BY <2>1, <2>2, <2>4, <2>5, <2>6, <2>7 DEF Pipe, PipeDone, PipeOpen
<1>4. CASE NetSend
  <2>0. PICK e : e = Head(netBatch) OBVIOUS
  <2>1. /\ netBatch # << >> /\ netBatch' = Tail(netBatch) /\ e.id = "SendPacket"
        /\ written' = IF e.arg.n = 0 THEN written ELSE Append(written, e.arg)
        /\ UNCHANGED <<netInbox, netPushes>>
    BY <1>4, <2>0 DEF NetSend
  <2>2. e \in Events /\ e \in Content(netBatch) /\ e.arg \in Items
    <3>1. e \in Events /\ e \in Content(netBatch) BY <1>0, <2>0, <2>1, HeadIn DEF QueuesTyped
    <3>2. QED BY <3>1 DEF Events
  <2>3. /\ Sorted(Tail(netBatch), f) /\ Sorted(Tail(netBatch), g)
        /\ Numbers(netBatch, f) = Number(e, f) \cup Numbers(Tail(netBatch), f)
        /\ Before(Number(e, f), Numbers(Tail(netBatch), f))
        /\ Numbers(netBatch, g) = Number(e, g) \cup Numbers(Tail(netBatch), g)
    BY <1>0, <2>0, <2>1, TailSorted DEF Pipe, PipeSorted, QueuesTyped
  <2>4. Number(e, g) = {} BY <2>1, <2>2 DEF IsPipe, Number
  <2>5. Sorted(written', h) /\ Numbers(written', h) = Numbers(written, h) \cup Number(e, f)
    <3>1. CASE e.arg.n = 0
      <4>1. Number(e, f) = {} BY <2>1, <2>2, <3>1 DEF Number
      <4>2. QED BY <2>1, <3>1, <4>1 DEF Pipe, PipeSorted
    <3>2. CASE e.arg.n # 0
      <4>1. Number(e.arg, h) = Number(e, f) BY <2>1, <2>2, <3>2 DEF IsPipe
      <4>2. Before(Numbers(written, h), Number(e.arg, h))
        BY <2>3, <4>1 DEF Pipe, PipeOrdered, InOrder, Before
      <4>3. QED BY <1>0, <2>1, <2>2, <3>2, <4>1, <4>2, AppendSorted DEF Pipe, PipeSorted
    <3>3. QED BY <3>1, <3>2
  <2>6. PipeSorted(h, f, g)' BY <2>1, <2>3, <2>5 DEF Pipe, PipeSorted
  <2>7. Numbers(netBatch', g) = Numbers(netBatch, g) BY <2>1, <2>3, <2>4
  <2>8. PipeOrdered(h, f, g)'
    <3>1. InOrder(Numbers(written, h) \cup Number(e, f), Numbers(Tail(netBatch), f), Numbers(netInbox, f),
                  Numbers(netPushes, f), Numbers(netBatch, g), Numbers(netInbox, g))
      BY <2>3, Stages DEF Pipe, PipeOrdered
    <3>2. QED BY <2>1, <2>5, <2>7, <3>1 DEF PipeOrdered
  <2>9. QED BY <2>1, <2>3, <2>5, <2>6, <2>7, <2>8 DEF Pipe, PipeDone, PipeOpen
<1>5. QED BY <1>2, <1>3, <1>4

(* What the property shows of a queue.                                     *)
LEMMA Shown ==
    ASSUME NEW S, NEW s \in Seq(S), NEW f, NEW k,
           k = [i \in {i \in DOMAIN s : s[i] \in DOMAIN f} |-> f[s[i]]]
    PROVE  (Sorted(s, f) <=> Increasing(k)) /\ Numbers(s, f) = Range(k)
<1>1. /\ \A i \in DOMAIN k : i \in DOMAIN s /\ s[i] \in DOMAIN f /\ k[i] = f[s[i]]
      /\ \A i \in DOMAIN s : s[i] \in DOMAIN f => i \in DOMAIN k
  OBVIOUS
<1>2. Sorted(s, f) <=> Increasing(k) BY <1>1 DEF Sorted, Increasing
<1>3. Numbers(s, f) = Range(k) BY <1>1 DEF Numbers, Content, Range
<1>4. QED BY <1>2, <1>3

(* Every number of one before every number of the other.                   *)
LEMMA BelowRanges == ASSUME NEW f, NEW g, Before(Range(f), Range(g)) PROVE Below(f, g)
BY DEF Below, Before, Range

(* Three queues in a row.                                                  *)
LEMMA ThreeJoined ==
    ASSUME NEW S, NEW s \in Seq(S), NEW t \in Seq(S), NEW u \in Seq(S), NEW f,
           Sorted(s, f), Sorted(t, f), Sorted(u, f),
           Before(Numbers(s, f), Numbers(t, f) \cup Numbers(u, f)), Before(Numbers(t, f), Numbers(u, f))
    PROVE  /\ s \o t \o u \in Seq(S) /\ Sorted(s \o t \o u, f)
           /\ Numbers(s \o t \o u, f) = Numbers(s, f) \cup Numbers(t, f) \cup Numbers(u, f)
<1>1. PICK a : a = s \o t OBVIOUS
<1>2. Before(Numbers(s, f), Numbers(t, f)) BY DEF Before
<1>3. a \in Seq(S) BY <1>1, ConcatIn
<1>4. Sorted(a, f) BY <1>1, <1>2, ConcatSorted
<1>5. Numbers(a, f) = Numbers(s, f) \cup Numbers(t, f) BY <1>1, <1>2, ConcatSorted
<1>6. Before(Numbers(a, f), Numbers(u, f)) BY <1>5 DEF Before
<1>7. a \o u \in Seq(S) BY <1>3, ConcatIn
<1>8. Sorted(a \o u, f) /\ Numbers(a \o u, f) = Numbers(a, f) \cup Numbers(u, f)
  BY <1>3, <1>4, <1>6, ConcatSorted
<1>9. QED BY <1>1, <1>5, <1>7, <1>8

-----------------------------------------------------------------------------
(***************************************************************************)
(* Lines.                                                                  *)
(***************************************************************************)
LineSent == [p \in {p \in Items : p.name = "ChatMessage"} |-> p.n]
LineQueued == [e \in {e \in Events : IsSendLine(e)} |-> e.arg.n]
LineHeard == [e \in {e \in Events : IsLine(e)} |-> e.arg.n]

AllLines == {n \in missed + 1 .. Len(lineLog) : lineLog[n] = "chat"}

LineInv ==
    /\ netPc = "off" => missed = Len(lineLog)
    /\ IF Alive
         THEN /\ Pipe(LineSent, LineQueued, LineHeard)
              /\ PipeDone(LineSent, LineQueued) \cup PipeOpen(LineHeard) = AllLines
         ELSE Sorted(written, LineSent) /\ StartOf(Numbers(written, LineSent), AllLines)

(* The numbers of the events a line becomes.                               *)
LEMMA LineNumbers ==
    /\ IsPipe(LineSent, LineQueued, LineHeard)
    /\ \A e \in Events : Number(e, LineQueued) = IF IsSendLine(e) THEN {e.arg.n} ELSE {}
    /\ \A e \in Events : Number(e, LineHeard) = IF IsLine(e) THEN {e.arg.n} ELSE {}
    /\ \A e \in Events : /\ e \in DOMAIN LineQueued <=> IsSendLine(e)
                         /\ e \in DOMAIN LineHeard <=> IsLine(e)
<1>1. \A e \in Events : /\ e \in DOMAIN LineQueued <=> IsSendLine(e)
                        /\ e \in DOMAIN LineHeard <=> IsLine(e)
  BY DEF LineQueued, LineHeard
<1>2. \A e \in Events : Number(e, LineQueued) = IF IsSendLine(e) THEN {e.arg.n} ELSE {}
  BY DEF LineQueued, Number
<1>3. \A e \in Events : Number(e, LineHeard) = IF IsLine(e) THEN {e.arg.n} ELSE {}
  BY DEF LineHeard, Number
<1>4. ASSUME NEW e \in Events, e.id = "SendPacket", e.arg.n # 0
      PROVE  Number(e.arg, LineSent) = Number(e, LineQueued)
  <2>1. e.arg \in Items BY DEF Events
  <2>2. Number(e.arg, LineSent) = IF e.arg.name = "ChatMessage" THEN {e.arg.n} ELSE {}
    BY <2>1 DEF LineSent, Number
  <2>3. QED BY <1>2, <1>4, <2>2 DEF IsSendLine
<1>5. \A e \in Events : e.id # "SendPacket" => e \notin DOMAIN LineQueued BY <1>1 DEF IsSendLine
<1>6. \A e \in Events : e.id \notin {"ReceivedPacket", "SendChatMessage"} => e \notin DOMAIN LineHeard
  BY <1>1 DEF IsLine
<1>7. QED BY <1>1, <1>2, <1>3, <1>4, <1>5, <1>6 DEF IsPipe

(* The handler of a line pushes its packet, and no other handler does.     *)
LEMMA LineReaction ==
    ASSUME NEW e \in Events, e.id \in {"ReceivedPacket", "SendChatMessage"}
    PROVE  /\ Sorted(NetReaction(e), LineQueued)
           /\ Numbers(NetReaction(e), LineQueued) = Number(e, LineHeard)
<1>1. NetReaction(e) \in Seq(Events) BY ReactionIn
<1>2. CASE e.id = "SendChatMessage"
  <2>1. PICK x : x = Event("SendPacket", Item("ChatMessage", e.arg.n)) OBVIOUS
  <2>2. NetReaction(e) = <<x>> BY <1>2, <2>1 DEF NetReaction
  <2>3. Content(NetReaction(e)) = {x} /\ \A i, j \in DOMAIN NetReaction(e) : ~(i < j)
    BY <2>2 DEF Content
  <2>4. x \in Events /\ x.id = "SendPacket" /\ x.arg.name = "ChatMessage" /\ x.arg.n = e.arg.n
    <3>1. x \in Events BY <1>1, <2>2
    <3>2. QED BY <2>1, <3>1 DEF Event, Item
  <2>5. Numbers(NetReaction(e), LineQueued) = Number(x, LineQueued) BY <2>3 DEF Numbers, Number
  <2>6. Number(x, LineQueued) = Number(e, LineHeard)
    BY <1>2, <2>4, LineNumbers DEF IsSendLine, IsLine
  <2>7. QED BY <2>3, <2>5, <2>6 DEF Sorted
<1>3. CASE e.id = "ReceivedPacket"
  <2>1. Number(e, LineHeard) = {} BY <1>3, LineNumbers DEF IsLine
  <2>2. \A x \in Content(NetReaction(e)) : ~IsSendLine(x) BY <1>3, ReactionIn DEF IsSendLine
  <2>3. \A x \in Content(NetReaction(e)) : x \notin DOMAIN LineQueued BY <2>2 DEF LineQueued
  <2>4. \A i \in DOMAIN NetReaction(e) : NetReaction(e)[i] \in Content(NetReaction(e)) BY DEF Content
  <2>5. QED BY <2>1, <2>3, <2>4 DEF Sorted, Numbers
<1>4. QED BY <1>2, <1>3

(* What typing a line or repeating the last one pushes.                    *)
LEMMA LinePushed ==
    ASSUME IInv, NEW name \in {"chat", "useItem"}, NEW n \in Nat, PushLine(name, n)
    PROVE  \/ ~NetListens /\ UNCHANGED netInbox
           \/ /\ NetListens
              /\ \E e \in Events : /\ netInbox' = Append(netInbox, e) /\ ~IsSendLine(e) /\ ~IsQuestion(e)
                                   /\ ~IsSendReply(e) /\ e.arg.n = n
                                   /\ e.id = "SendChatMessage" <=> name = "chat"
<1>1. TypeOK BY DEF IInv
<1>2. /\ "SendChatMessage" \in EventIds /\ "SendPacket" \in EventIds
      /\ {"line", "typedUseItem"} \subseteq ItemNames
  BY DEF EventIds, NetHandles, ItemNames
<1>3. PICK e : e = IF name = "chat" THEN Event("SendChatMessage", Item("line", n))
                   ELSE Event("SendPacket", Item("typedUseItem", n))
  OBVIOUS
<1>4. /\ e \in Events /\ e.arg.n = n /\ e.id \in NetHandles
      /\ IF name = "chat" THEN e.id = "SendChatMessage"
                          ELSE e.id = "SendPacket" /\ e.arg.name = "typedUseItem"
  <2>1. CASE name = "chat"
    <3>1. Item("line", n) \in Items BY <1>2, ItemIn
    <3>2. e \in Events BY <1>2, <1>3, <2>1, <3>1, EventIn
    <3>3. QED BY <1>3, <2>1, <3>2 DEF Event, Item, NetHandles
  <2>2. CASE name # "chat"
    <3>1. Item("typedUseItem", n) \in Items BY <1>2, ItemIn
    <3>2. e \in Events BY <1>2, <1>3, <2>2, <3>1, EventIn
    <3>3. QED BY <1>3, <2>2, <3>2 DEF Event, Item, NetHandles
  <2>3. QED BY <2>1, <2>2
<1>5. Push(e) BY <1>3 DEF PushLine
<1>6. netInbox' = IF NetListens THEN Append(netInbox, e) ELSE netInbox BY <1>1, <1>4, <1>5, PushExact
<1>7. ~IsSendLine(e) /\ ~IsQuestion(e) /\ ~IsSendReply(e)
  BY <1>4 DEF IsSendLine, IsQuestion, IsSendReply, IsReply
<1>8. QED BY <1>4, <1>6, <1>7

(* When the thread ends, what is left in the queues comes after what was   *)
(* written.                                                                *)
LEMMA LinesEnd ==
    ASSUME IInv, LineInv, UNCHANGED <<written, lineLog, missed>>, ~Alive', netPc' # "off"
    PROVE  LineInv'
<1>1. AllLines' = AllLines BY DEF AllLines
<1>2. CASE ~Alive BY <1>1, <1>2 DEF LineInv
<1>3. CASE Alive
  <2>1. PipeDone(LineSent, LineQueued) \cup PipeOpen(LineHeard) = AllLines
    BY <1>3 DEF LineInv
  <2>2. ASSUME NEW m \in Numbers(written, LineSent), NEW n \in AllLines, n < m
        PROVE  n \in Numbers(written, LineSent)
    <3>1. m \in AllLines BY <2>1 DEF PipeDone
    <3>2. m \in Nat /\ n \in Nat
      <4>1. Len(lineLog) \in Nat /\ missed \in Nat BY DEF IInv, TypeOK
      <4>2. QED BY <3>1, <4>1 DEF AllLines
    <3>3. n \notin Numbers(written, LineSent) => m < n
      BY <1>3, <2>1 DEF LineInv, Pipe, PipeOrdered, InOrder, Before, PipeDone, PipeOpen
    <3>4. QED BY <2>2, <3>2, <3>3
  <2>3. StartOf(Numbers(written, LineSent), AllLines) BY <2>1, <2>2 DEF StartOf, PipeDone
  <2>4. QED BY <1>1, <1>3, <2>3 DEF LineInv, Pipe, PipeSorted
<1>4. QED BY <1>2, <1>3

(* Every step keeps the lines in order and loses none before the end.      *)
LEMMA LineStep == ASSUME IInv, WireInv, LineInv, Next PROVE LineInv'
<1>0. /\ TypeOK /\ QueuesTyped /\ ThreadTyped /\ HistoryTyped /\ ThreadInv
      /\ Len(lineLog) \in Nat /\ missed \in Nat
  BY Typing DEF IInv, HistoryTyped
<1>1. ASSUME UNCHANGED <<lineLog, missed>>, Alive, Alive', netPc' = "off" => netPc = "off",
             Pipe(LineSent, LineQueued, LineHeard)',
             PipeDone(LineSent, LineQueued)' \cup PipeOpen(LineHeard)'
                = PipeDone(LineSent, LineQueued) \cup PipeOpen(LineHeard)
      PROVE  LineInv'
  BY <1>1 DEF LineInv, AllLines
<1>2. ASSUME UNCHANGED <<written, netBatch, netInbox, netPushes, lineLog, missed>>, Alive' <=> Alive,
             netPc' = "off" => netPc = "off"
      PROVE  LineInv'
  <2>1. CASE Alive
    <3>1. Pipe(LineSent, LineQueued, LineHeard) BY <2>1 DEF LineInv
    <3>2. QED BY <1>1, <1>2, <2>1, <3>1, PipeKept
  <2>2. CASE ~Alive BY <1>2, <2>2, LinesEnd DEF Alive
  <2>3. QED BY <2>1, <2>2
<1>3. ASSUME UNCHANGED <<written, netBatch, netPushes, lineLog, missed>>, Alive' <=> Alive,
             netPc' = "off" => netPc = "off",
             NEW e \in Events, netInbox' = Append(netInbox, e), ~IsSendLine(e), ~IsLine(e)
      PROVE  LineInv'
  <2>1. CASE Alive
    <3>1. Pipe(LineSent, LineQueued, LineHeard) BY <2>1 DEF LineInv
    <3>2. e \notin DOMAIN LineQueued /\ e \notin DOMAIN LineHeard BY <1>3, LineNumbers
    <3>3. QED BY <1>0, <1>1, <1>3, <2>1, <3>1, <3>2, PipeAside
  <2>2. CASE ~Alive BY <1>3, <2>2, LinesEnd DEF Alive
  <2>3. QED BY <2>1, <2>2
<1>4. CASE MainPoll \/ MainHandle \/ NetStart \/ NetHandleDone \/ Surroundings \/ EndOfInput
  <2>1. UNCHANGED <<written, netBatch, netInbox, netPushes, lineLog, missed>>
    BY <1>4 DEF MainPoll, MainHandle, NetStart, NetHandleDone, AtHandler, Surroundings, ServerSend,
                ServerKeepAlive, ServerClose, Tick, EndOfInput, netVars, mainVars, history
  <2>2. (Alive' <=> Alive) /\ (netPc' = "off" => netPc = "off")
    BY <1>4 DEF MainPoll, MainHandle, NetStart, NetHandleDone, AtHandler, Surroundings, ServerSend,
                ServerKeepAlive, ServerClose, Tick, EndOfInput, netVars, Alive
  <2>3. QED BY <1>2, <2>1, <2>2
<1>5. CASE MainPush \/ NetCheckTimeout \/ NetCatch
  <2>1. /\ UNCHANGED <<written, netBatch, netPushes, lineLog, missed>>
        /\ (Alive' <=> Alive) /\ (netPc' = "off" => netPc = "off")
    BY <1>5 DEF MainPush, NetCheckTimeout, NetCatch, history, Alive
  <2>2. QED BY <1>2, <1>3, <1>5, <2>1, AsidePushed DEF Aside, IsSendLine, IsLine
<1>6. ASSUME NEW name \in {"chat", "useItem"}, TypeLine(name) PROVE LineInv'
  <2>0. PICK n : n = Len(lineLog) + 1 OBVIOUS
  <2>1. /\ UNCHANGED <<written, netBatch, netPushes, netPc>> /\ n \in Nat /\ n > Len(lineLog)
        /\ missed' = IF netPc = "off" THEN n ELSE missed
        /\ lineLog' = Append(lineLog, name) /\ PushLine(name, n)
    <3>1. lineLog \in Seq({"chat", "useItem"}) BY <1>0 DEF HistoryTyped
    <3>2. Len(Append(lineLog, name)) = n BY <2>0, <3>1
    <3>3. QED BY <1>0, <1>6, <2>0, <3>2 DEF TypeLine
  <2>2. /\ Len(lineLog') = n /\ lineLog'[n] = name
        /\ \A k \in 1 .. Len(lineLog) : lineLog'[k] = lineLog[k]
    <3>1. lineLog \in Seq({"chat", "useItem"}) BY <1>0 DEF HistoryTyped
    <3>2. QED BY <2>0, <2>1, <3>1
  <2>3. CASE netPc = "off"
    <3>1. UNCHANGED netInbox BY <1>6, <2>1, <2>3, LinePushed DEF NetListens, IInv
    <3>2. Alive /\ Alive' /\ AllLines = {} /\ AllLines' = {}
      BY <1>0, <2>1, <2>2, <2>3 DEF Alive, AllLines, LineInv
    <3>3. Pipe(LineSent, LineQueued, LineHeard) BY <3>2 DEF LineInv
    <3>4. /\ Pipe(LineSent, LineQueued, LineHeard)'
          /\ PipeDone(LineSent, LineQueued)' = PipeDone(LineSent, LineQueued)
          /\ PipeOpen(LineHeard)' = PipeOpen(LineHeard)
      BY <2>1, <3>1, <3>3, PipeKept
    <3>5. QED BY <2>1, <2>2, <2>3, <3>2, <3>4 DEF LineInv
  <2>4. CASE netPc # "off"
    <3> DEFINE new == IF name = "chat" THEN {n} ELSE {}
    <3>1. AllLines' = AllLines \cup new
      <4>1. missed' = missed BY <2>1, <2>4
      <4>2. missed + 1 .. n = (missed + 1 .. Len(lineLog)) \cup {n}
        BY <1>0, <2>0 DEF HistoryTyped
      <4>3. QED BY <1>0, <2>2, <4>1, <4>2 DEF AllLines
    <3>2. Before(AllLines, new) BY <1>0, <2>1 DEF AllLines, Before
    <3>3. CASE Alive
      <4>0. Alive' /\ netPc' # "off" /\ NetListens BY <2>1, <2>4, <3>3 DEF Alive, NetListens
      <4>1. PICK e \in Events : /\ netInbox' = Append(netInbox, e) /\ ~IsSendLine(e) /\ e.arg.n = n
                                /\ e.id = "SendChatMessage" <=> name = "chat"
        BY <2>1, <4>0, LinePushed
      <4>2. /\ Pipe(LineSent, LineQueued, LineHeard)
            /\ PipeDone(LineSent, LineQueued) \cup PipeOpen(LineHeard) = AllLines
        BY <3>3 DEF LineInv
      <4>3. Number(e, LineHeard) = new /\ e \notin DOMAIN LineQueued
        BY <2>1, <4>1, LineNumbers DEF IsLine
      <4>4. /\ Pipe(LineSent, LineQueued, LineHeard)'
            /\ PipeDone(LineSent, LineQueued)' = PipeDone(LineSent, LineQueued)
            /\ PipeOpen(LineHeard)' = PipeOpen(LineHeard) \cup new
        <5>1. Before(PipeDone(LineSent, LineQueued) \cup PipeOpen(LineHeard), Number(e, LineHeard))
          BY <3>2, <4>2, <4>3
        <5>2. QED BY <1>0, <2>1, <4>1, <4>2, <4>3, <5>1, PipeEnter
      <4>5. QED BY <3>1, <4>0, <4>2, <4>4 DEF LineInv
    <3>4. CASE ~Alive
      <4>0. StartOf(Numbers(written, LineSent), AllLines) BY <3>4 DEF LineInv
      <4>1. StartOf(Numbers(written, LineSent), AllLines')
        <5>1. \A m \in AllLines, k \in new : m < k /\ ~(k < m)
          BY <1>0, <2>1, <3>2 DEF Before, AllLines
        <5>2. QED BY <3>1, <4>0, <5>1 DEF StartOf
      <4>2. QED BY <2>1, <2>4, <3>4, <4>1 DEF LineInv, Alive
    <3>5. QED BY <3>3, <3>4
  <2>5. QED BY <2>3, <2>4
<1>7. CASE RepeatLine
  <2>1. /\ UNCHANGED <<written, netBatch, netPushes, netPc, lineLog, missed>>
        /\ repeating \in {"chat", "useItem"} /\ PushLine(repeating, 0)
    BY <1>0, <1>7 DEF RepeatLine, history, TypeOK
  <2>2. \/ UNCHANGED netInbox
        \/ \E e \in Events : netInbox' = Append(netInbox, e) /\ ~IsSendLine(e) /\ e.arg.n = 0
    BY <2>1, LinePushed
  <2>3. QED BY <1>2, <1>3, <2>1, <2>2 DEF IsLine, Alive
<1>8. CASE NetPoll \/ NetPush \/ NetSend
  <2>1. /\ UNCHANGED <<lineLog, missed>> /\ Alive /\ Alive' /\ netPc' # "off"
    BY <1>0, <1>8 DEF NetPoll, NetPush, NetSend, AtHandler, ThreadTyped, Alive, history
  <2>2. Pipe(LineSent, LineQueued, LineHeard) BY <2>1 DEF LineInv
  <2>3. \A e \in Content(netBatch) : e.id = "SendPacket" /\ e.arg.n = 0 => e \notin DOMAIN LineQueued
    BY DEF LineQueued, IsSendLine
  <2>4. QED BY <1>1, <1>8, <2>1, <2>2, <2>3, LineNumbers, PipeMove
<1>9. CASE NetHandle
  <2>0. PICK e : e = Head(netBatch) OBVIOUS
  <2>1. /\ netBatch # << >> /\ netBatch' = Tail(netBatch) /\ netPushes = << >>
        /\ netPushes' = NetReaction(e) /\ netPc = "handle" /\ netPc' = "handle" /\ e.id # "SendPacket"
        /\ UNCHANGED <<netInbox, written, lineLog, missed>>
    BY <1>9, <2>0 DEF NetHandle, AtHandler, history
  <2>2. e \in Events /\ e.id \in {"ReceivedPacket", "SendChatMessage"}
    <3>1. e \in Events /\ e \in Content(netBatch) BY <1>0, <2>0, <2>1, HeadIn DEF QueuesTyped
    <3>2. NetBatchOK(e) BY <3>1 DEF IInv, QueueInv
    <3>3. QED BY <2>1, <3>1, <3>2 DEF NetBatchOK, NetHandles
  <2>3. /\ Sorted(netPushes', LineQueued) /\ Numbers(netPushes', LineQueued) = Number(e, LineHeard)
        /\ e \notin DOMAIN LineQueued
    BY <2>1, <2>2, LineReaction, LineNumbers DEF IsSendLine
  <2>4. Alive /\ Alive' /\ Pipe(LineSent, LineQueued, LineHeard)
    BY <2>1 DEF Alive, LineInv
  <2>5. /\ Numbers(netBatch, LineHeard) = Number(e, LineHeard) \cup Numbers(Tail(netBatch), LineHeard)
        /\ Before(Number(e, LineHeard), Numbers(Tail(netBatch), LineHeard))
    BY <1>0, <2>0, <2>1, <2>4, TailSorted DEF Pipe, PipeSorted, QueuesTyped
  <2>6. /\ Before(PipeDone(LineSent, LineQueued), Number(e, LineHeard))
        /\ Before(Number(e, LineHeard), Numbers(Tail(netBatch), LineHeard) \cup Numbers(netInbox, LineHeard))
    BY <2>4, <2>5 DEF Pipe, PipeOrdered, InOrder, Before, PipeDone
  <2>7. /\ Pipe(LineSent, LineQueued, LineHeard)'
        /\ PipeDone(LineSent, LineQueued)' = PipeDone(LineSent, LineQueued) \cup Number(e, LineHeard)
        /\ PipeOpen(LineHeard) = Number(e, LineHeard) \cup PipeOpen(LineHeard)'
    BY <1>0, <2>0, <2>1, <2>3, <2>4, <2>6, PipeHandle
  <2>8. QED BY <1>1, <2>1, <2>4, <2>7
<1>10. CASE NetReceive
  <2>1. /\ UNCHANGED <<written, netBatch, netPushes, lineLog, missed>>
        /\ Alive /\ Alive' /\ netPc' # "off"
    BY <1>10 DEF NetReceive, Alive
  <2>2. \/ UNCHANGED netInbox
        \/ \E e \in Events : netInbox' = Append(netInbox, e) /\ e.id = "ReceivedPacket"
    BY <1>10, Received
  <2>3. QED BY <1>2, <1>3, <2>1, <2>2 DEF IsSendLine, IsLine
<1>11. CASE NetSendThrows \/ NetReceiveThrows \/ NetDestroyListener
  BY <1>11, LinesEnd DEF NetSendThrows, NetReceiveThrows, NetDestroyListener, history, Alive
<1>12. CASE NetReply
  <2>1. /\ UNCHANGED <<written, netBatch, netInbox, netPushes, lineLog, missed>>
        /\ Alive /\ netPc' # "off"
    BY <1>12 DEF NetReply, history, Alive
  <2>2. QED BY <1>2, <2>1, LinesEnd
<1>13. QED
  BY <1>4, <1>5, <1>6, <1>7, <1>8, <1>9, <1>10, <1>11, <1>12
     DEF Next, Main, Network, Surroundings

(* The property follows when the lines of every queue are in order.        *)
LEMMA LinesShown == ASSUME IInv, LineInv PROVE LinesInOrder
<1>0. QueuesTyped /\ written \in Seq(Items) BY Typing DEF IInv, HistoryTyped
<1>1. ASSUME NEW s \in Seq(Events)
      PROVE  /\ Sorted(s, LineQueued) => Increasing(LinesQueued(s))
             /\ Numbers(s, LineQueued) = Range(LinesQueued(s))
             /\ Sorted(s, LineHeard) => Increasing(LinesHeard(s))
             /\ Numbers(s, LineHeard) = Range(LinesHeard(s))
  <2>1. LinesQueued(s) = [i \in {i \in DOMAIN s : s[i] \in DOMAIN LineQueued} |-> LineQueued[s[i]]]
    BY DEF LinesQueued, LineQueued
  <2>2. LinesHeard(s) = [i \in {i \in DOMAIN s : s[i] \in DOMAIN LineHeard} |-> LineHeard[s[i]]]
    BY DEF LinesHeard, LineHeard
  <2>3. /\ Sorted(s, LineQueued) <=> Increasing(LinesQueued(s))
        /\ Numbers(s, LineQueued) = Range(LinesQueued(s))
    BY <2>1, Shown
  <2>4. /\ Sorted(s, LineHeard) <=> Increasing(LinesHeard(s))
        /\ Numbers(s, LineHeard) = Range(LinesHeard(s))
    BY <2>2, Shown
  <2>5. QED BY <2>3, <2>4
<1>2. /\ Sorted(written, LineSent) => Increasing(LinesSent(written))
      /\ Numbers(written, LineSent) = Range(LinesSent(written))
  <2>1. LinesSent(written) = [i \in {i \in DOMAIN written : written[i] \in DOMAIN LineSent}
                                 |-> LineSent[written[i]]]
    BY <1>0 DEF LinesSent, LineSent
  <2>2. QED BY <1>0, <2>1, Shown
<1>3. CASE ~Alive BY <1>2, <1>3 DEF LineInv, LinesInOrder, AllLines
<1>4. CASE Alive
  <2>1. /\ PipeSorted(LineSent, LineQueued, LineHeard) /\ PipeOrdered(LineSent, LineQueued, LineHeard)
        /\ PipeDone(LineSent, LineQueued) \cup PipeOpen(LineHeard) = AllLines
    BY <1>4 DEF LineInv, Pipe
  <2>2. PICK q : q = netBatch \o netInbox \o netPushes OBVIOUS
  <2>3. /\ q \in Seq(Events) /\ Sorted(q, LineQueued)
        /\ Numbers(q, LineQueued) = Numbers(netBatch, LineQueued) \cup Numbers(netInbox, LineQueued)
                                       \cup Numbers(netPushes, LineQueued)
    <3>1. /\ Before(Numbers(netBatch, LineQueued),
                    Numbers(netInbox, LineQueued) \cup Numbers(netPushes, LineQueued))
          /\ Before(Numbers(netInbox, LineQueued), Numbers(netPushes, LineQueued))
      BY <2>1 DEF PipeOrdered, InOrder, Before
    <3>2. QED BY <1>0, <2>1, <2>2, <3>1, ThreeJoined DEF PipeSorted, QueuesTyped
  <2>4. PICK o : o = netBatch \o netInbox OBVIOUS
  <2>5. /\ o \in Seq(Events) /\ Sorted(o, LineHeard)
        /\ Numbers(o, LineHeard) = PipeOpen(LineHeard)
    <3>1. Before(Numbers(netBatch, LineHeard), Numbers(netInbox, LineHeard))
      BY <2>1 DEF PipeOrdered, InOrder, Before
    <3>2. o \in Seq(Events) BY <1>0, <2>4, ConcatIn DEF QueuesTyped
    <3>3. QED BY <1>0, <2>1, <2>4, <3>1, <3>2, ConcatSorted DEF PipeSorted, QueuesTyped, PipeOpen
  <2>6. /\ Increasing(LinesSent(written)) /\ Increasing(LinesQueued(q)) /\ Increasing(LinesHeard(o))
    BY <1>1, <1>2, <2>1, <2>3, <2>5 DEF PipeSorted
  <2>7. Range(LinesSent(written)) \cup Range(LinesQueued(q)) \cup Range(LinesHeard(o)) = AllLines
    BY <1>1, <1>2, <2>1, <2>3, <2>5 DEF PipeDone
  <2>8. /\ Before(Range(LinesSent(written)), Range(LinesQueued(q)))
        /\ Before(Range(LinesSent(written)), Range(LinesHeard(o)))
        /\ Before(Range(LinesQueued(q)), Range(LinesHeard(o)))
    BY <1>1, <1>2, <2>1, <2>3, <2>5 DEF PipeOrdered, InOrder, Before, PipeOpen
  <2>9. QED BY <1>4, <2>2, <2>4, <2>6, <2>7, <2>8, BelowRanges DEF LinesInOrder, AllLines
<1>5. QED BY <1>3, <1>4

-----------------------------------------------------------------------------
(***************************************************************************)
(* Replies.                                                                *)
(***************************************************************************)
ReplySent == [p \in {p \in Items : IsReply(p)} |-> Place(p)]
ReplyQueued == [e \in {e \in Events : IsSendReply(e)} |-> Place(e.arg)]
Question == [e \in {e \in Events : IsQuestion(e)} |-> 2 * e.arg.n]

AllReplies == UNION {RepliesTo(n) : n \in 1 .. read}
\* The replies the questions in the queues will get.
Due == UNION {RepliesTo(k \div 2) : k \in PipeOpen(Question)}

ReplyInv ==
    IF Alive
      THEN Pipe(ReplySent, ReplyQueued, Question) /\ PipeDone(ReplySent, ReplyQueued) \cup Due = AllReplies
      ELSE Sorted(written, ReplySent) /\ StartOf(Numbers(written, ReplySent), AllReplies)

(* Replies have the places 2n and 2n + 1.                                  *)
LEMMA ReplyPlaces ==
    /\ \A n \in Nat : RepliesTo(n) \subseteq {2 * n, 2 * n + 1}
    /\ \A n \in Nat : serverLog[n] \notin {"posLook", "dead", "faint"} => RepliesTo(n) = {}
    /\ \A n \in Nat : (2 * n) \div 2 = n
BY DEF RepliesTo

(* The places of the events a question becomes.                            *)
LEMMA ReplyNumbers ==
    /\ IsPipe(ReplySent, ReplyQueued, Question)
    /\ \A e \in Events : Number(e, ReplyQueued) = IF IsSendReply(e) THEN {Place(e.arg)} ELSE {}
    /\ \A e \in Events : Number(e, Question) = IF IsQuestion(e) THEN {2 * e.arg.n} ELSE {}
    /\ \A e \in Events : /\ e \in DOMAIN ReplyQueued <=> IsSendReply(e)
                         /\ e \in DOMAIN Question <=> IsQuestion(e)
<1>1. \A e \in Events : /\ e \in DOMAIN ReplyQueued <=> IsSendReply(e)
                        /\ e \in DOMAIN Question <=> IsQuestion(e)
  BY DEF ReplyQueued, Question
<1>2. \A e \in Events : Number(e, ReplyQueued) = IF IsSendReply(e) THEN {Place(e.arg)} ELSE {}
  BY DEF ReplyQueued, Number
<1>3. \A e \in Events : Number(e, Question) = IF IsQuestion(e) THEN {2 * e.arg.n} ELSE {}
  BY DEF Question, Number
<1>4. ASSUME NEW e \in Events, e.id = "SendPacket", e.arg.n # 0
      PROVE  Number(e.arg, ReplySent) = Number(e, ReplyQueued)
  <2>1. e.arg \in Items BY DEF Events
  <2>2. Number(e.arg, ReplySent) = IF IsReply(e.arg) THEN {Place(e.arg)} ELSE {}
    BY <2>1 DEF ReplySent, Number
  <2>3. QED BY <1>2, <1>4, <2>2 DEF IsSendReply
<1>5. \A e \in Events : e.id # "SendPacket" => e \notin DOMAIN ReplyQueued BY <1>1 DEF IsSendReply
<1>6. \A e \in Events : e.id \notin {"ReceivedPacket", "SendChatMessage"} => e \notin DOMAIN Question
  BY <1>1 DEF IsQuestion
<1>7. QED BY <1>1, <1>2, <1>3, <1>4, <1>5, <1>6 DEF IsPipe

(* The handler of a packet pushes its replies, in order.                   *)
LEMMA ReplyReaction ==
    ASSUME NEW e \in Events, e.id \in {"ReceivedPacket", "SendChatMessage"},
           IsQuestion(e) => e.arg.name = serverLog[e.arg.n]
    PROVE  /\ Sorted(NetReaction(e), ReplyQueued)
           /\ Numbers(NetReaction(e), ReplyQueued) = IF IsQuestion(e) THEN RepliesTo(e.arg.n) ELSE {}
<1>0. /\ NetReaction(e) \in Seq(Events) /\ e.arg \in Items /\ e.arg.n \in Nat
      /\ \A i \in DOMAIN NetReaction(e) : NetReaction(e)[i] \in Content(NetReaction(e))
  BY ReactionIn DEF Events, Items, Content
<1>1. PICK confirm, respawn : /\ confirm = Event("SendPacket", Item("TeleportConfirm", e.arg.n))
                              /\ respawn = Event("SendPacket", Item("ClientStatus", e.arg.n))
  OBVIOUS
<1>2. /\ confirm \in Events /\ respawn \in Events /\ confirm # respawn
      /\ IsSendReply(confirm) /\ Place(confirm.arg) = 2 * e.arg.n
      /\ IsSendReply(respawn) /\ Place(respawn.arg) = 2 * e.arg.n + 1
  <2>1. "SendPacket" \in EventIds /\ {"TeleportConfirm", "ClientStatus"} \subseteq ItemNames
    BY DEF EventIds, NetHandles, ItemNames
  <2>2. confirm \in Events /\ respawn \in Events BY <1>0, <1>1, <2>1, EventIn, ItemIn
  <2>3. QED BY <1>1, <2>2 DEF Event, Item, IsSendReply, IsReply, Place
<1>3. CASE ~IsQuestion(e)
  <2>1. ASSUME NEW x \in Content(NetReaction(e)), IsSendReply(x) PROVE FALSE
    <3>1. e.id = "ReceivedPacket" BY <2>1, ReactionIn DEF IsSendReply, IsReply
    <3>2. NetReaction(e) = UpdatePacket(e.arg) /\ e.arg.name \notin {"posLook", "dead", "faint"}
      BY <1>3, <3>1 DEF NetReaction, IsQuestion
    <3>3. \/ NetReaction(e) \in {<<Event("ReceivedChatMessage", e.arg)>>, <<Event("Disconnected", e.arg)>>,
                                 <<Event("SoundEffect", e.arg)>>}
          \/ NetReaction(e) = << >>
      BY <3>2 DEF UpdatePacket, PlayerHealth, Health
    <3>4. x \in {Event("ReceivedChatMessage", e.arg), Event("Disconnected", e.arg),
                 Event("SoundEffect", e.arg)}
      BY <2>1, <3>3 DEF Content
    <3>5. QED BY <2>1, <3>4 DEF Event, IsSendReply
  <2>2. \A x \in Content(NetReaction(e)) : x \notin DOMAIN ReplyQueued BY <2>1 DEF ReplyQueued
  <2>3. QED BY <1>0, <1>3, <2>2 DEF Sorted, Numbers
<1>4. CASE IsQuestion(e) /\ e.arg.name = "posLook"
  <2>1. NetReaction(e) = <<confirm, respawn>>
    <3>1. NetReaction(e) = UpdatePacket(e.arg) BY <1>4 DEF NetReaction, IsQuestion
    <3>2. QED BY <1>1, <1>4, <3>1 DEF UpdatePacket, Health
  <2>2. Content(NetReaction(e)) = {confirm, respawn} BY <2>1 DEF Content
  <2>3. DOMAIN NetReaction(e) = 1 .. 2 /\ NetReaction(e)[1] = confirm /\ NetReaction(e)[2] = respawn
    BY <2>1
  <2>4. /\ confirm \in DOMAIN ReplyQueued /\ ReplyQueued[confirm] = 2 * e.arg.n
        /\ respawn \in DOMAIN ReplyQueued /\ ReplyQueued[respawn] = 2 * e.arg.n + 1
    BY <1>2 DEF ReplyQueued
  <2>5. Sorted(NetReaction(e), ReplyQueued)
    <3>1. \A i, j \in 1 .. 2 : i < j => i = 1 /\ j = 2 OBVIOUS
    <3>2. QED BY <1>0, <2>3, <2>4, <3>1 DEF Sorted
  <2>6. Numbers(NetReaction(e), ReplyQueued) = {2 * e.arg.n, 2 * e.arg.n + 1}
    BY <2>2, <2>4 DEF Numbers
  <2>7. RepliesTo(e.arg.n) = {2 * e.arg.n, 2 * e.arg.n + 1} BY <1>4 DEF RepliesTo
  <2>8. QED BY <1>4, <2>5, <2>6, <2>7
<1>5. CASE IsQuestion(e) /\ e.arg.name # "posLook"
  <2>1. NetReaction(e) = <<respawn>>
    <3>1. NetReaction(e) = UpdatePacket(e.arg) /\ e.arg.name \in {"dead", "faint"}
      BY <1>5 DEF NetReaction, IsQuestion
    <3>2. QED BY <1>1, <3>1 DEF UpdatePacket, PlayerHealth, Health
  <2>2. Content(NetReaction(e)) = {respawn} /\ \A i, j \in DOMAIN NetReaction(e) : ~(i < j)
    BY <2>1 DEF Content
  <2>3. respawn \in DOMAIN ReplyQueued /\ ReplyQueued[respawn] = 2 * e.arg.n + 1
    BY <1>2 DEF ReplyQueued
  <2>4. RepliesTo(e.arg.n) = {2 * e.arg.n + 1} BY <1>5 DEF RepliesTo, IsQuestion
  <2>5. QED BY <1>5, <2>2, <2>3, <2>4 DEF Sorted, Numbers
<1>6. QED BY <1>3, <1>4, <1>5

(* The questions in the queues are packets read.                           *)
LEMMA OpenRead ==
    ASSUME IInv, QuestionInv
    PROVE  /\ \A e \in Content(netInbox) \cup Content(netBatch) :
                 IsQuestion(e) => e.arg.n \in 1 .. read /\ e.arg.name = serverLog[e.arg.n]
           /\ \A k \in PipeOpen(Question) : \E n \in 1 .. read : k = 2 * n /\ k \div 2 = n
<1>1. read \in Nat BY DEF IInv, TypeOK
<1>2. ASSUME NEW e \in Content(netInbox) \cup Content(netBatch), IsQuestion(e)
      PROVE  e.arg.n \in 1 .. read /\ e.arg.name = serverLog[e.arg.n]
  <2>1. Fresh(e.arg) BY <1>2 DEF IInv, QueueInv, NetInboxOK, NetBatchOK, IsQuestion
  <2>2. QED BY <1>2, <2>1 DEF Fresh, ReadPackets, QuestionInv, IsQuestion
<1>3. ASSUME NEW k \in PipeOpen(Question) PROVE \E n \in 1 .. read : k = 2 * n /\ k \div 2 = n
  <2>1. PICK e \in Content(netInbox) \cup Content(netBatch) : e \in DOMAIN Question /\ k = Question[e]
    BY DEF PipeOpen, Numbers
  <2>2. IsQuestion(e) /\ k = 2 * e.arg.n BY <2>1 DEF Question
  <2>3. e.arg.n \in 1 .. read BY <1>2, <2>2
  <2>4. QED BY <1>1, <2>2, <2>3, ReplyPlaces
<1>4. QED BY <1>2, <1>3

(* Every step keeps the packets in the queues those of the server.         *)
LEMMA QuestionStep == ASSUME IInv, WireInv, QuestionInv, Next PROVE QuestionInv'
<1>0. TypeOK /\ QueuesTyped /\ ThreadTyped /\ HistoryTyped BY Typing DEF IInv
<1>1. Content(<< >>) = {} BY DEF Content
<1>2. ASSUME UNCHANGED serverLog, Content(netBatch') \subseteq Content(netBatch) \cup Content(netInbox),
             Content(netInbox') \subseteq Content(netInbox)
      PROVE  QuestionInv'
  BY <1>2 DEF QuestionInv
<1>3. ASSUME UNCHANGED <<serverLog, netBatch>>, NEW e \in Events,
             netInbox' \in {netInbox, Append(netInbox, e)},
             e.id = "ReceivedPacket" /\ e.arg.name # "disconnect" => e.arg.name = serverLog[e.arg.n]
      PROVE  QuestionInv'
  <2>1. Content(netInbox') \subseteq Content(netInbox) \cup {e} BY <1>0, <1>3, AppendIn DEF QueuesTyped
  <2>2. QED BY <1>3, <2>1 DEF QuestionInv
<1>4. CASE MainPush \/ NetCheckTimeout \/ NetCatch \/ Input
  <2>1. UNCHANGED <<serverLog, netBatch>> BY <1>4, AsidePushed, InputPushed
  <2>2. UNCHANGED netInbox \/ \E e \in Events : Aside(e) /\ netInbox' = Append(netInbox, e)
    BY <1>4, AsidePushed, InputPushed
  <2>3. QED BY <1>2, <1>3, <2>1, <2>2 DEF Aside
<1>5. CASE NetReceive
  <2>1. UNCHANGED <<serverLog, netBatch>> BY <1>5, Received
  <2>2. \/ UNCHANGED netInbox
        \/ \E e \in Events : /\ netInbox' = Append(netInbox, e)
                             /\ e.arg.name = serverLog[e.arg.n]
    BY <1>5, Received
  <2>3. QED BY <1>2, <1>3, <2>1, <2>2
<1>6. CASE NetPush
  <2>0. PICK e : e = Head(netPushes) OBVIOUS
  <2>1. /\ e \in Events /\ e \in Content(netPushes) /\ Push(e)
        /\ UNCHANGED <<serverLog, netBatch>>
    BY <1>6, <2>0, PushedEvents DEF NetPush, history
  <2>2. NetPushOK(e) BY <2>1 DEF IInv, QueueInv
  <2>3. e.id # "ReceivedPacket" BY <2>2 DEF NetPushOK
  <2>4. netInbox' \in {netInbox, Append(netInbox, e)} BY <1>0, <2>1, PushExact
  <2>5. QED BY <1>3, <2>1, <2>3, <2>4
<1>7. CASE NetPoll \/ NetDestroyListener
  BY <1>1, <1>2, <1>7 DEF NetPoll, NetDestroyListener, history
<1>8. CASE NetHandle \/ NetSend \/ NetSendThrows
  <2>1. netBatch # << >> /\ netBatch' = Tail(netBatch) /\ UNCHANGED <<netInbox, serverLog>>
    BY <1>8 DEF NetHandle, NetSend, NetSendThrows, history
  <2>2. QED BY <1>0, <1>2, <2>1, RestTyped
<1>9. CASE MainPoll \/ MainHandle \/ NetStart \/ NetHandleDone \/ NetReceiveThrows \/ NetReply
             \/ ServerKeepAlive \/ ServerClose \/ Tick
  BY <1>2, <1>9 DEF MainPoll, MainHandle, NetStart, NetHandleDone, NetReceiveThrows, NetReply,
                    ServerKeepAlive, ServerClose, Tick, netVars, history
<1>10. ASSUME NEW name \in Repertoire, ServerSend(name) PROVE QuestionInv'
  <2>1. serverLog' = Append(serverLog, name) /\ UNCHANGED <<netInbox, netBatch>>
    BY <1>10 DEF ServerSend, netVars
  <2>2. \A n \in 1 .. read : serverLog'[n] = serverLog[n]
    BY <1>0, <2>1 DEF HistoryTyped
  <2>3. ASSUME NEW e \in Content(netInbox) \cup Content(netBatch), e.id = "ReceivedPacket",
               e.arg.name # "disconnect"
        PROVE  e.arg.n \in 1 .. read
    BY <2>3 DEF IInv, QueueInv, NetInboxOK, NetBatchOK, Fresh, ReadPackets
  <2>4. QED BY <2>1, <2>2, <2>3 DEF QuestionInv
<1>11. QED
  BY <1>4, <1>5, <1>6, <1>7, <1>8, <1>9, <1>10 DEF Next, Main, Network, Input

(* When the thread ends, what is left in the queues comes after what was   *)
(* written.                                                                *)
LEMMA RepliesEnd ==
    ASSUME IInv, QuestionInv, ReplyInv, UNCHANGED <<written, AllReplies>>, ~Alive'
    PROVE  ReplyInv'
<1>1. CASE ~Alive BY <1>1 DEF ReplyInv
<1>2. CASE Alive
  <2>1. /\ Pipe(ReplySent, ReplyQueued, Question)
        /\ PipeDone(ReplySent, ReplyQueued) \cup Due = AllReplies
    BY <1>2 DEF ReplyInv
  <2>2. ASSUME NEW m \in Numbers(written, ReplySent), NEW r \in AllReplies, r < m
        PROVE  r \in Numbers(written, ReplySent)
    <3>1. m \in AllReplies BY <2>1 DEF PipeDone
    <3>2. m \in Nat /\ r \in Nat
      <4>1. read \in Nat BY DEF IInv, TypeOK
      <4>2. \A n \in 1 .. read : \A x \in RepliesTo(n) : x \in Nat BY <4>1, ReplyPlaces
      <4>3. QED BY <3>1, <4>2 DEF AllReplies
    <3>3. CASE r \in PipeDone(ReplySent, ReplyQueued)
      <4>1. r \notin Numbers(written, ReplySent) => m < r
        BY <2>1, <3>3 DEF Pipe, PipeOrdered, InOrder, Before, PipeDone
      <4>2. QED BY <2>2, <3>2, <4>1
    <3>4. CASE r \in Due
      <4>1. PICK k \in PipeOpen(Question) : r \in RepliesTo(k \div 2) BY <3>4 DEF Due
      <4>2. PICK n \in 1 .. read : k = 2 * n /\ k \div 2 = n BY <4>1, OpenRead
      <4>3. n \in Nat /\ r \in {2 * n, 2 * n + 1} BY <4>1, <4>2, ReplyPlaces DEF IInv, TypeOK
      <4>4. m < k BY <2>1, <4>1 DEF Pipe, PipeOrdered, InOrder, Before, PipeOpen
      <4>5. QED BY <2>2, <3>2, <4>2, <4>3, <4>4
    <3>5. QED BY <2>1, <3>3, <3>4
  <2>3. StartOf(Numbers(written, ReplySent), AllReplies) BY <2>1, <2>2 DEF StartOf, PipeDone
  <2>4. QED BY <2>1, <2>3 DEF ReplyInv, Pipe, PipeSorted
<1>3. QED BY <1>1, <1>2

(* A packet of the server is a question with its replies, or none.         *)
LEMMA RepliesReceived ==
    ASSUME IInv, WireInv, QuestionInv, ReplyInv, NetReceive PROVE ReplyInv'
<1>0. /\ TypeOK /\ read \in Nat /\ Alive /\ Alive'
      /\ UNCHANGED <<written, netBatch, netPushes, serverLog>>
  BY Received DEF IInv, TypeOK, NetReceive, Alive
<1>1. /\ Pipe(ReplySent, ReplyQueued, Question)
      /\ PipeDone(ReplySent, ReplyQueued) \cup Due = AllReplies
  BY <1>0 DEF ReplyInv
<1>2. \A n : RepliesTo(n)' = RepliesTo(n) BY <1>0 DEF RepliesTo
<1>3. CASE UNCHANGED <<netInbox, read>>
  <2>1. /\ Pipe(ReplySent, ReplyQueued, Question)'
        /\ PipeDone(ReplySent, ReplyQueued)' = PipeDone(ReplySent, ReplyQueued)
        /\ PipeOpen(Question)' = PipeOpen(Question)
    BY <1>0, <1>1, <1>3, PipeKept
  <2>2. Due' = Due /\ AllReplies' = AllReplies BY <1>2, <1>3, <2>1 DEF Due, AllReplies
  <2>3. QED BY <1>0, <1>1, <2>1, <2>2 DEF ReplyInv
<1>4. ASSUME read' = read + 1 PROVE AllReplies' = AllReplies \cup RepliesTo(read')
  <2>1. 1 .. read' = 1 .. read \cup {read'} BY <1>0, <1>4
  <2>2. QED BY <1>2, <2>1 DEF AllReplies
<1>5. CASE read' = read + 1 /\ serverLog[read'] = "unparsed" /\ UNCHANGED netInbox
  <2>1. /\ Pipe(ReplySent, ReplyQueued, Question)'
        /\ PipeDone(ReplySent, ReplyQueued)' = PipeDone(ReplySent, ReplyQueued)
        /\ PipeOpen(Question)' = PipeOpen(Question)
    BY <1>0, <1>1, <1>5, PipeKept
  <2>2. RepliesTo(read') = {} BY <1>0, <1>5, ReplyPlaces
  <2>3. Due' = Due /\ AllReplies' = AllReplies BY <1>2, <1>4, <1>5, <2>1, <2>2 DEF Due
  <2>4. QED BY <1>0, <1>1, <2>1, <2>3 DEF ReplyInv
<1>6. ASSUME NEW e \in Events, read' = read + 1, netInbox' = Append(netInbox, e),
             e.id = "ReceivedPacket", e.arg.name = serverLog[read'], e.arg.n = read'
      PROVE  ReplyInv'
  <2>1. e \notin DOMAIN ReplyQueued BY <1>6, ReplyNumbers DEF IsSendReply
  <2>2. Number(e, Question) = IF IsQuestion(e) THEN {2 * read'} ELSE {} BY <1>6, ReplyNumbers
  <2>3. RepliesTo(read') # {} => IsQuestion(e)
    BY <1>0, <1>6, ReplyPlaces DEF IsQuestion
  <2>4. \A m \in PipeDone(ReplySent, ReplyQueued) \cup PipeOpen(Question) : m < 2 * read'
    <3>1. ASSUME NEW m \in AllReplies PROVE m < 2 * read'
      <4>1. PICK n \in 1 .. read : m \in RepliesTo(n) BY DEF AllReplies
      <4>2. n \in Nat /\ m \in {2 * n, 2 * n + 1} BY <1>0, <4>1, ReplyPlaces
      <4>3. QED BY <1>0, <1>6, <4>2
    <3>2. ASSUME NEW m \in PipeOpen(Question) PROVE m < 2 * read'
      <4>1. PICK n \in 1 .. read : m = 2 * n BY OpenRead
      <4>2. QED BY <1>0, <1>6, <4>1
    <3>3. QED BY <1>1, <3>1, <3>2
  <2>5. Before(PipeDone(ReplySent, ReplyQueued) \cup PipeOpen(Question), Number(e, Question))
    BY <2>2, <2>4 DEF Before
  <2>6. /\ Pipe(ReplySent, ReplyQueued, Question)'
        /\ PipeDone(ReplySent, ReplyQueued)' = PipeDone(ReplySent, ReplyQueued)
        /\ PipeOpen(Question)' = PipeOpen(Question) \cup Number(e, Question)
    BY <1>0, <1>1, <1>6, <2>1, <2>5, PipeEnter
  <2>7. Due' = Due \cup RepliesTo(read')
    <3>1. Due' = UNION {RepliesTo(k \div 2) : k \in PipeOpen(Question) \cup Number(e, Question)}
      BY <1>2, <2>6 DEF Due
    <3>2. CASE IsQuestion(e)
      <4>1. (2 * read') \div 2 = read' BY <1>0, <1>6, ReplyPlaces
      <4>2. QED BY <2>2, <3>1, <3>2, <4>1 DEF Due
    <3>3. CASE ~IsQuestion(e) BY <2>2, <2>3, <3>1, <3>3 DEF Due
    <3>4. QED BY <3>2, <3>3
  <2>8. QED BY <1>0, <1>1, <1>4, <1>6, <2>6, <2>7 DEF ReplyInv
<1>7. QED BY <1>3, <1>5, <1>6, Received

(* The handler of a question pushes what was due to it.                    *)
LEMMA RepliesHandled ==
    ASSUME IInv, QuestionInv, ReplyInv, NetHandle PROVE ReplyInv'
<1>0. /\ TypeOK /\ QueuesTyped /\ read \in Nat /\ Alive /\ Alive'
      /\ UNCHANGED <<written, netInbox, serverLog, read>>
      /\ netBatch # << >> /\ netBatch' = Tail(netBatch) /\ netPushes = << >>
      /\ netPushes' = NetReaction(Head(netBatch)) /\ Head(netBatch).id # "SendPacket"
  BY Typing DEF IInv, TypeOK, NetHandle, AtHandler, Alive, history
<1>1. /\ Pipe(ReplySent, ReplyQueued, Question)
      /\ PipeDone(ReplySent, ReplyQueued) \cup Due = AllReplies
  BY <1>0 DEF ReplyInv
<1>2. PICK e : e = Head(netBatch) OBVIOUS
<1>3. /\ e \in Events /\ e.id \in {"ReceivedPacket", "SendChatMessage"} /\ e.arg.n \in Nat
      /\ IsQuestion(e) => e.arg.n \in 1 .. read /\ e.arg.name = serverLog[e.arg.n]
  <2>1. e \in Events /\ e \in Content(netBatch) BY <1>0, <1>2, HeadIn DEF QueuesTyped
  <2>2. NetBatchOK(e) BY <2>1 DEF IInv, QueueInv
  <2>3. e.id \in {"ReceivedPacket", "SendChatMessage"}
    BY <1>0, <1>2, <2>2 DEF NetBatchOK, NetHandles
  <2>4. QED BY <2>1, <2>3, OpenRead DEF Events, Items
<1>4. PICK new : new = IF IsQuestion(e) THEN RepliesTo(e.arg.n) ELSE {} OBVIOUS
<1>5. Sorted(netPushes', ReplyQueued) /\ Numbers(netPushes', ReplyQueued) = new
  BY <1>0, <1>2, <1>3, <1>4, ReplyReaction
<1>6. /\ Numbers(netBatch, Question) = Number(e, Question) \cup Numbers(Tail(netBatch), Question)
      /\ Before(Number(e, Question), Numbers(Tail(netBatch), Question))
      /\ Number(e, Question) = IF IsQuestion(e) THEN {2 * e.arg.n} ELSE {}
  <2>1. Number(e, Question) = IF IsQuestion(e) THEN {2 * e.arg.n} ELSE {} BY <1>3, ReplyNumbers
  <2>2. QED BY <1>0, <1>1, <1>2, <2>1, TailSorted DEF Pipe, PipeSorted, QueuesTyped
<1>7. IsQuestion(e) => new \subseteq {2 * e.arg.n, 2 * e.arg.n + 1} BY <1>3, <1>4, ReplyPlaces
<1>8. Before(PipeDone(ReplySent, ReplyQueued), new)
  <2>1. ASSUME NEW m \in PipeDone(ReplySent, ReplyQueued), NEW r \in new PROVE m < r
    <3>1. IsQuestion(e) /\ r \in {2 * e.arg.n, 2 * e.arg.n + 1} BY <1>4, <1>7, <2>1
    <3>2. m < 2 * e.arg.n
      BY <1>1, <1>6, <3>1 DEF Pipe, PipeOrdered, InOrder, Before, PipeDone
    <3>3. m \in Nat
      <4>1. PICK n \in 1 .. read : m \in RepliesTo(n) BY <1>1 DEF AllReplies
      <4>2. n \in Nat /\ m \in {2 * n, 2 * n + 1} BY <1>0, <4>1, ReplyPlaces
      <4>3. QED BY <4>2
    <3>4. QED BY <1>3, <3>1, <3>2, <3>3
  <2>2. QED BY <2>1 DEF Before
<1>9. Before(new, Numbers(Tail(netBatch), Question) \cup Numbers(netInbox, Question))
  <2>1. ASSUME NEW r \in new, NEW k \in Numbers(Tail(netBatch), Question) \cup Numbers(netInbox, Question)
        PROVE  r < k
    <3>1. IsQuestion(e) /\ r \in {2 * e.arg.n, 2 * e.arg.n + 1} BY <1>4, <1>7, <2>1
    <3>2. k \in PipeOpen(Question) BY <1>6, <2>1 DEF PipeOpen
    <3>3. PICK n \in 1 .. read : k = 2 * n BY <3>2, OpenRead
    <3>4. 2 * e.arg.n < k BY <1>1, <1>6, <2>1, <3>1 DEF Pipe, PipeOrdered, InOrder, Before
    <3>5. QED BY <1>0, <1>3, <3>1, <3>3, <3>4
  <2>2. QED BY <2>1 DEF Before
<1>10. /\ Pipe(ReplySent, ReplyQueued, Question)'
       /\ PipeDone(ReplySent, ReplyQueued)' = PipeDone(ReplySent, ReplyQueued) \cup new
       /\ PipeOpen(Question) = Number(e, Question) \cup PipeOpen(Question)'
  <2>1. Head(netBatch) \notin DOMAIN ReplyQueued BY <1>0, <1>2, <1>3, ReplyNumbers DEF IsSendReply
  <2>2. QED BY <1>0, <1>1, <1>2, <1>5, <1>8, <1>9, <2>1, PipeHandle
<1>11. Due = new \cup Due'
  <2>1. \A n : RepliesTo(n)' = RepliesTo(n) BY <1>0 DEF RepliesTo
  <2>2. Due' = UNION {RepliesTo(k \div 2) : k \in PipeOpen(Question)'} BY <2>1 DEF Due
  <2>3. CASE IsQuestion(e)
    <3>1. (2 * e.arg.n) \div 2 = e.arg.n BY <1>3, ReplyPlaces
    <3>2. QED BY <1>4, <1>6, <1>10, <2>2, <2>3, <3>1 DEF Due
  <2>4. CASE ~IsQuestion(e) BY <1>4, <1>6, <1>10, <2>2, <2>4 DEF Due
  <2>5. QED BY <2>3, <2>4
<1>12. AllReplies' = AllReplies BY <1>0 DEF AllReplies, RepliesTo
<1>13. QED BY <1>0, <1>1, <1>10, <1>11, <1>12 DEF ReplyInv

(* Every step keeps the replies in order and loses none before the end.    *)
LEMMA ReplyStep == ASSUME IInv, WireInv, QuestionInv, ReplyInv, Next PROVE ReplyInv'
<1>0. /\ TypeOK /\ QueuesTyped /\ ThreadTyped /\ HistoryTyped /\ read \in Nat
  BY Typing DEF IInv, HistoryTyped
<1>1. ASSUME UNCHANGED <<serverLog, read>>
      PROVE  AllReplies' = AllReplies /\ \A n : RepliesTo(n)' = RepliesTo(n)
  BY <1>1 DEF AllReplies, RepliesTo
<1>2. ASSUME UNCHANGED <<serverLog, read>>, Alive, Alive', Pipe(ReplySent, ReplyQueued, Question)',
             PipeDone(ReplySent, ReplyQueued)' = PipeDone(ReplySent, ReplyQueued),
             PipeOpen(Question)' = PipeOpen(Question)
      PROVE  ReplyInv'
  <2>1. Due' = Due BY <1>1, <1>2 DEF Due
  <2>2. QED BY <1>1, <1>2, <2>1 DEF ReplyInv
<1>3. ASSUME UNCHANGED <<written, netBatch, netInbox, netPushes, serverLog, read>>, Alive' <=> Alive
      PROVE  ReplyInv'
  <2>1. CASE Alive
    <3>1. Pipe(ReplySent, ReplyQueued, Question) BY <2>1 DEF ReplyInv
    <3>2. QED BY <1>2, <1>3, <2>1, <3>1, PipeKept
  <2>2. CASE ~Alive BY <1>1, <1>3, <2>2, RepliesEnd
  <2>3. QED BY <2>1, <2>2
<1>4. ASSUME UNCHANGED <<written, netBatch, netPushes, serverLog, read>>, Alive' <=> Alive,
             NEW e \in Events, netInbox' = Append(netInbox, e), Aside(e)
      PROVE  ReplyInv'
  <2>1. CASE Alive
    <3>1. Pipe(ReplySent, ReplyQueued, Question) BY <2>1 DEF ReplyInv
    <3>2. e \notin DOMAIN ReplyQueued /\ e \notin DOMAIN Question
      BY <1>4, ReplyNumbers DEF Aside, IsSendReply, IsReply, IsQuestion
    <3>3. QED BY <1>0, <1>2, <1>4, <2>1, <3>1, <3>2, PipeAside
  <2>2. CASE ~Alive BY <1>1, <1>4, <2>2, RepliesEnd
  <2>3. QED BY <2>1, <2>2
<1>5. CASE MainPush \/ Input \/ NetCheckTimeout \/ NetCatch
  <2>1. UNCHANGED <<written, netBatch, netPushes, serverLog, read>>
    BY <1>5, AsidePushed, InputPushed
  <2>2. Alive' <=> Alive
    BY <1>5 DEF MainPush, Input, TypeLine, EndOfInput, RepeatLine, NetCheckTimeout, NetCatch, netVars,
                Alive
  <2>3. UNCHANGED netInbox \/ \E e \in Events : Aside(e) /\ netInbox' = Append(netInbox, e)
    BY <1>5, AsidePushed, InputPushed
  <2>4. QED BY <1>3, <1>4, <2>1, <2>2, <2>3
<1>6. CASE MainPoll \/ MainHandle \/ NetStart \/ NetHandleDone \/ ServerKeepAlive \/ ServerClose \/ Tick
  <2>1. UNCHANGED <<written, netBatch, netInbox, netPushes, serverLog, read>>
    BY <1>6 DEF MainPoll, MainHandle, NetStart, NetHandleDone, ServerKeepAlive, ServerClose, Tick, netVars,
                history
  <2>2. Alive' <=> Alive
    BY <1>6 DEF MainPoll, MainHandle, NetStart, NetHandleDone, AtHandler, ServerKeepAlive, ServerClose, Tick,
                netVars, Alive
  <2>3. QED BY <1>3, <2>1, <2>2
<1>7. CASE NetReceive BY <1>7, RepliesReceived
<1>8. CASE NetHandle BY <1>8, RepliesHandled
<1>9. CASE NetPoll \/ NetPush \/ NetSend
  <2>1. UNCHANGED <<serverLog, read>> /\ Alive /\ Alive'
    BY <1>0, <1>9 DEF NetPoll, NetPush, NetSend, AtHandler, ThreadTyped, Alive, history
  <2>2. Pipe(ReplySent, ReplyQueued, Question) BY <2>1 DEF ReplyInv
  <2>3. \A e \in Content(netBatch) : e.id = "SendPacket" /\ e.arg.n = 0 => e \notin DOMAIN ReplyQueued
    <3>1. ASSUME NEW e \in Content(netBatch), e.id = "SendPacket", e.arg.n = 0, e \in DOMAIN ReplyQueued
          PROVE  FALSE
      <4>1. IsReply(e.arg) BY <3>1 DEF ReplyQueued, IsSendReply
      <4>2. e.arg.n \in 1 .. read BY <3>1, <4>1 DEF IInv, QueueInv, NetBatchOK, ReadPackets
      <4>3. QED BY <1>0, <3>1, <4>2
    <3>2. QED BY <3>1
  <2>4. QED BY <1>2, <1>9, <2>1, <2>2, <2>3, ReplyNumbers, PipeMove
<1>10. CASE NetSendThrows \/ NetReceiveThrows \/ NetDestroyListener
  <2>1. UNCHANGED <<written, serverLog, read>> /\ ~Alive'
    BY <1>10 DEF NetSendThrows, NetReceiveThrows, NetDestroyListener, history, Alive
  <2>2. QED BY <1>1, <2>1, RepliesEnd
<1>11. CASE NetReply
  <2>1. UNCHANGED <<written, netBatch, netInbox, netPushes, serverLog, read>> /\ Alive
    BY <1>11 DEF NetReply, history, Alive
  <2>2. QED BY <1>1, <1>3, <2>1, RepliesEnd
<1>12. ASSUME NEW name \in Repertoire, ServerSend(name) PROVE ReplyInv'
  <2>1. /\ serverLog' = Append(serverLog, name)
        /\ UNCHANGED <<written, netBatch, netInbox, netPushes, read, netPc>>
    BY <1>12 DEF ServerSend, netVars
  <2>2. \A n \in 1 .. read : serverLog'[n] = serverLog[n] BY <1>0, <2>1 DEF HistoryTyped
  <2>3. \A n \in 1 .. read : RepliesTo(n)' = RepliesTo(n) BY <2>2 DEF RepliesTo
  <2>4. AllReplies' = AllReplies BY <2>1, <2>3 DEF AllReplies
  <2>5. CASE ~Alive BY <2>1, <2>4, <2>5, RepliesEnd DEF Alive
  <2>6. CASE Alive
    <3>1. Pipe(ReplySent, ReplyQueued, Question) BY <2>6 DEF ReplyInv
    <3>2. /\ Pipe(ReplySent, ReplyQueued, Question)'
          /\ PipeDone(ReplySent, ReplyQueued)' = PipeDone(ReplySent, ReplyQueued)
          /\ PipeOpen(Question)' = PipeOpen(Question)
      BY <2>1, <3>1, PipeKept
    <3>3. \A k \in PipeOpen(Question) : RepliesTo(k \div 2)' = RepliesTo(k \div 2)
      BY <2>3, OpenRead
    <3>4. Due' = Due BY <3>2, <3>3 DEF Due
    <3>5. QED BY <2>1, <2>4, <2>6, <3>2, <3>4 DEF ReplyInv, Alive
  <2>7. QED BY <2>5, <2>6
<1>13. QED
  BY <1>5, <1>6, <1>7, <1>8, <1>9, <1>10, <1>11, <1>12 DEF Next, Main, Network, Input

(* The property follows when the replies of every queue are in order.      *)
LEMMA RepliesShown == ASSUME IInv, ReplyInv PROVE RepliesInOrder
<1>0. QueuesTyped /\ written \in Seq(Items) BY Typing DEF IInv, HistoryTyped
<1>1. ASSUME NEW s \in Seq(Events)
      PROVE  /\ Sorted(s, ReplyQueued) => Increasing(RepliesQueued(s))
             /\ Numbers(s, ReplyQueued) = Range(RepliesQueued(s))
             /\ Sorted(s, Question) => Increasing(Questions(s))
             /\ Numbers(s, Question) = Range(Questions(s))
  <2>1. RepliesQueued(s) = [i \in {i \in DOMAIN s : s[i] \in DOMAIN ReplyQueued} |-> ReplyQueued[s[i]]]
    BY DEF RepliesQueued, ReplyQueued
  <2>2. Questions(s) = [i \in {i \in DOMAIN s : s[i] \in DOMAIN Question} |-> Question[s[i]]]
    BY DEF Questions, Question
  <2>3. /\ Sorted(s, ReplyQueued) <=> Increasing(RepliesQueued(s))
        /\ Numbers(s, ReplyQueued) = Range(RepliesQueued(s))
    BY <2>1, Shown
  <2>4. /\ Sorted(s, Question) <=> Increasing(Questions(s))
        /\ Numbers(s, Question) = Range(Questions(s))
    BY <2>2, Shown
  <2>5. QED BY <2>3, <2>4
<1>2. /\ Sorted(written, ReplySent) => Increasing(Replies(written))
      /\ Numbers(written, ReplySent) = Range(Replies(written))
  <2>1. Replies(written) = [i \in {i \in DOMAIN written : written[i] \in DOMAIN ReplySent}
                               |-> ReplySent[written[i]]]
    BY <1>0 DEF Replies, ReplySent
  <2>2. QED BY <1>0, <2>1, Shown
<1>3. CASE ~Alive BY <1>2, <1>3 DEF ReplyInv, RepliesInOrder, AllReplies
<1>4. CASE Alive
  <2>1. /\ PipeSorted(ReplySent, ReplyQueued, Question) /\ PipeOrdered(ReplySent, ReplyQueued, Question)
        /\ PipeDone(ReplySent, ReplyQueued) \cup Due = AllReplies
    BY <1>4 DEF ReplyInv, Pipe
  <2>2. PICK q : q = netBatch \o netInbox \o netPushes OBVIOUS
  <2>3. /\ q \in Seq(Events) /\ Sorted(q, ReplyQueued)
        /\ Numbers(q, ReplyQueued) = Numbers(netBatch, ReplyQueued) \cup Numbers(netInbox, ReplyQueued)
                                        \cup Numbers(netPushes, ReplyQueued)
    <3>1. /\ Before(Numbers(netBatch, ReplyQueued),
                    Numbers(netInbox, ReplyQueued) \cup Numbers(netPushes, ReplyQueued))
          /\ Before(Numbers(netInbox, ReplyQueued), Numbers(netPushes, ReplyQueued))
      BY <2>1 DEF PipeOrdered, InOrder, Before
    <3>2. QED BY <1>0, <2>1, <2>2, <3>1, ThreeJoined DEF PipeSorted, QueuesTyped
  <2>4. PICK o : o = netBatch \o netInbox OBVIOUS
  <2>5. /\ o \in Seq(Events) /\ Sorted(o, Question)
        /\ Numbers(o, Question) = PipeOpen(Question)
    <3>1. Before(Numbers(netBatch, Question), Numbers(netInbox, Question))
      BY <2>1 DEF PipeOrdered, InOrder, Before
    <3>2. o \in Seq(Events) BY <1>0, <2>4, ConcatIn DEF QueuesTyped
    <3>3. QED BY <1>0, <2>1, <2>4, <3>1, <3>2, ConcatSorted DEF PipeSorted, QueuesTyped, PipeOpen
  <2>6. /\ Increasing(Replies(written)) /\ Increasing(RepliesQueued(q)) /\ Increasing(Questions(o))
    BY <1>1, <1>2, <2>1, <2>3, <2>5 DEF PipeSorted
  <2>7. Range(Replies(written)) \cup Range(RepliesQueued(q))
           \cup UNION {RepliesTo(k \div 2) : k \in Range(Questions(o))} = AllReplies
    <3>1. PipeDone(ReplySent, ReplyQueued) = Range(Replies(written)) \cup Range(RepliesQueued(q))
      BY <1>1, <1>2, <2>3 DEF PipeDone
    <3>2. PipeOpen(Question) = Range(Questions(o)) BY <1>1, <2>5
    <3>3. QED BY <2>1, <3>1, <3>2 DEF Due
  <2>8. /\ Before(Range(Replies(written)), Range(RepliesQueued(q)))
        /\ Before(Range(Replies(written)), Range(Questions(o)))
        /\ Before(Range(RepliesQueued(q)), Range(Questions(o)))
    BY <1>1, <1>2, <2>1, <2>3, <2>5 DEF PipeOrdered, InOrder, Before, PipeOpen
  <2>9. QED BY <1>4, <2>2, <2>4, <2>6, <2>7, <2>8, BelowRanges DEF RepliesInOrder, AllReplies
<1>5. QED BY <1>3, <1>4

-----------------------------------------------------------------------------
(***************************************************************************)
(* The theorems.                                                           *)
(***************************************************************************)
AnswerInv == QuestionInv /\ LineInv /\ ReplyInv

(* At first nothing has been asked.                                        *)
LEMMA AnswerInit == Init => AnswerInv
<1> SUFFICES ASSUME Init PROVE AnswerInv OBVIOUS
<1>1. Content(<< >>) = {} /\ \A f : Sorted(<< >>, f) /\ Numbers(<< >>, f) = {}
  BY EmptySorted DEF Content
<1>2. ASSUME NEW h, NEW f, NEW g
      PROVE  Pipe(h, f, g) /\ PipeDone(h, f) = {} /\ PipeOpen(g) = {}
  <2>1. PipeSorted(h, f, g) BY <1>1 DEF Init, PipeSorted
  <2>2. PipeOrdered(h, f, g) BY <1>1 DEF Init, PipeOrdered, InOrder, Before
  <2>3. QED BY <1>1, <2>1, <2>2 DEF Init, Pipe, PipeDone, PipeOpen
<1>3. Alive /\ AllLines = {} /\ AllReplies = {} BY DEF Init, Alive, AllLines, AllReplies
<1>4. Due = {} BY <1>2 DEF Due
<1>5. QuestionInv BY <1>1 DEF Init, QuestionInv
<1>6. LineInv BY <1>2, <1>3 DEF Init, LineInv
<1>7. ReplyInv BY <1>2, <1>3, <1>4 DEF ReplyInv
<1>8. QED BY <1>5, <1>6, <1>7 DEF AnswerInv

(* Every step keeps the order.                                             *)
LEMMA AnswerNext == IInv /\ WireInv /\ AnswerInv /\ [Next]_vars => AnswerInv'
<1>1. ASSUME IInv, WireInv, AnswerInv, Next PROVE AnswerInv'
  BY <1>1, QuestionStep, LineStep, ReplyStep DEF AnswerInv
<1>2. ASSUME IInv, AnswerInv, UNCHANGED vars PROVE AnswerInv'
  <2>1. UNCHANGED <<netPc, netInbox, netBatch, netPushes, serverLog, read, lineLog, missed, written>>
    BY <1>2 DEF vars, netVars, history
  <2>2. QuestionInv' BY <1>2, <2>1 DEF AnswerInv, QuestionInv
  <2>3. ASSUME NEW h, NEW f, NEW g
        PROVE  /\ Pipe(h, f, g)' <=> Pipe(h, f, g)
               /\ PipeDone(h, f)' = PipeDone(h, f) /\ PipeOpen(g)' = PipeOpen(g)
    BY <2>1 DEF Pipe, PipeSorted, PipeOrdered, PipeDone, PipeOpen
  <2>4. (Alive' <=> Alive) /\ AllLines' = AllLines BY <2>1 DEF Alive, AllLines
  <2>5. AllReplies' = AllReplies /\ Due' = Due BY <2>1, <2>3 DEF AllReplies, RepliesTo, Due
  <2>6. LineInv' BY <1>2, <2>1, <2>3, <2>4 DEF AnswerInv, LineInv
  <2>7. ReplyInv' BY <1>2, <2>1, <2>3, <2>4, <2>5 DEF AnswerInv, ReplyInv
  <2>8. QED BY <2>2, <2>6, <2>7 DEF AnswerInv
<1>3. QED BY <1>1, <1>2

(* The order is kept in every run of the client.                           *)
LEMMA AnswersKept == Spec => []AnswerInv
<1>1. OrderInv => WireInv BY DEF OrderInv
<1>2. QED BY <1>1, ClientInvariant, OrderKept, AnswerInit, AnswerNext, PTL DEF Spec

(* However many lines are typed and whatever the server sends meanwhile,   *)
(* the chat lines the network thread heard of are sent in the order they   *)
(* were typed, none skipped and none twice; only those left when it ends   *)
(* are lost (main.cpp:44-61, networkclient.cpp:92-110).                    *)
THEOREM LinesKeepOrder == Spec => []LinesInOrder
<1>1. IInv /\ AnswerInv => LinesInOrder BY LinesShown DEF AnswerInv
<1>2. QED BY <1>1, ClientInvariant, AnswersKept, PTL

(* However many packets the server sends, each position is confirmed once, *)
(* with a respawn behind it, and each health below one is answered by one  *)
(* respawn, in the order of the packets (networkclient.cpp:96-104,         *)
(* 283-293, 326-335).                                                      *)
THEOREM RepliesKeepOrder == Spec => []RepliesInOrder
<1>1. IInv /\ AnswerInv => RepliesInOrder BY RepliesShown DEF AnswerInv
<1>2. QED BY <1>1, ClientInvariant, AnswersKept, PTL
=============================================================================
