--------------------------- MODULE SessionProofs ---------------------------
(***************************************************************************)
(* Proofs about Session, for any thresholds and any number of packets      *)
(* under way: types, the life of the network thread inside the object, and *)
(* that a login means that the server accepted the name.                   *)
(***************************************************************************)
EXTENDS Session, Basics

-----------------------------------------------------------------------------
(* What the actions do to the channels.                                    *)
LEMMA ReceiveEffect ==
    ASSUME TypeOK, Receive
    PROVE  /\ toClient # << >>
           /\ Head(toClient) \in Content(toClient) /\ Head(toClient) \in Packets
           /\ toClient' \in Seq(Packets) /\ Len(toClient') <= Capacity
           /\ Content(toClient') \subseteq Content(toClient)
           /\ UNCHANGED <<toServer, closed, serverVars>>
<1>1. toClient \in Seq(Packets) /\ Len(toClient) <= Capacity /\ toClient # << >>
      /\ toClient' = Tail(toClient) /\ UNCHANGED <<toServer, closed, serverVars>>
  BY DEF TypeOK, Receive
<1>2. Capacity \in Nat BY SessionAssumption DEF SessionAssumption
<1>3. Len(toClient) \in Nat /\ Len(Tail(toClient)) = Len(toClient) - 1 BY <1>1, TailIn
<1>4. QED BY <1>1, <1>2, <1>3, HeadIn, TailIn

(* A client that sends adds to toServer, unless the connection is closed.  *)
LEMMA SendEffect ==
    ASSUME TypeOK, NEW ps \in Seq(Packets), Send(ps)
    PROVE  /\ toServer' \in Seq(Packets) /\ Len(toServer') <= Capacity
           /\ Content(toServer') \subseteq Content(toServer) \cup Content(ps)
           /\ UNCHANGED <<toClient, closed>>
<1>1. toServer \in Seq(Packets) /\ Len(toServer) <= Capacity
      /\ Len(toServer) + Len(ps) <= Capacity
      /\ toServer' = (IF closed THEN toServer ELSE toServer \o ps) /\ UNCHANGED <<toClient, closed>>
  BY DEF TypeOK, Send
<1>2. Len(toServer \o ps) = Len(toServer) + Len(ps) BY <1>1, ConcatIn
<1>3. QED BY <1>1, <1>2, ConcatIn

(* A server that sends adds one packet to toClient.                        *)
LEMMA ServerSendEffect ==
    ASSUME TypeOK, NEW name \in PacketNames, NEW arg \in Thresholds \cup {0, 1}, ServerSend(name, arg)
    PROVE  LET p == Packet(name, serverState, serverThreshold, arg)
           IN /\ p \in Packets
              /\ toClient' = Append(toClient, p)
              /\ toClient' \in Seq(Packets) /\ Len(toClient') <= Capacity
              /\ Content(toClient') \subseteq Content(toClient) \cup {p}
              /\ ~closed /\ UNCHANGED <<mainPc, pinged, miscast, clientVars, threadPc, closed>>
<1> DEFINE p == Packet(name, serverState, serverThreshold, arg)
<1>1. p \in Packets BY DEF Packet, Packets, TypeOK
<1>2. toClient \in Seq(Packets) /\ Len(toClient) < Capacity /\ toClient' = Append(toClient, p)
      /\ ~closed /\ UNCHANGED <<mainPc, pinged, miscast, clientVars, threadPc, closed>>
  BY DEF TypeOK, ServerSend
<1>3. Capacity \in Nat BY SessionAssumption DEF SessionAssumption
<1>4. Len(toClient) \in Nat /\ Len(Append(toClient, p)) = Len(toClient) + 1
  BY <1>1, <1>2, AppendIn
<1>5. QED BY <1>1, <1>2, <1>3, <1>4, AppendIn

-----------------------------------------------------------------------------
(* The inductive invariant.                                                *)

\* There is no thread before the login is over, and from then on until the
\* destructor isRunning says so.
OwnerInv ==
    /\ mainPc \in {"constructed", "pingWait", "helloSent", "loginWait", "compressedWait"}
          => threadPc = "none" /\ ~isRunning
    /\ mainPc = "running" => isRunning
    /\ ThreadInside

\* Handshakes are sent in their own state only, so a server that has left it
\* never goes back; a success with the right name is sent once, by a server
\* that accepted it.
LoginInv ==
    /\ \A p \in Content(toServer) : p.name \in {"status", "login"} => p.state = "Handshaking"
    /\ \A p \in Content(toClient) : p.name = "setCompression" => p.arg \in Thresholds
    /\ \A p \in Content(toClient) : p.name = "loginSuccess" /\ p.arg = 1 => accepted
    /\ accepted => serverState = "Play"
    /\ AcceptedBeforePlay

IInv == TypeOK /\ OwnerInv /\ LoginInv

(* The invariant holds at the start.                                       *)
LEMMA InitInv == Init => IInv
<1> SUFFICES ASSUME Init PROVE IInv
  OBVIOUS
<1>1. Capacity \in Nat BY SessionAssumption DEF SessionAssumption
<1>2. Content(toServer) = {} /\ Content(toClient) = {} BY DEF Init, Content
<1>3. /\ {toServer, toClient} \subseteq Seq(Packets)
      /\ Len(toServer) <= Capacity /\ Len(toClient) <= Capacity
  <2>1. << >> \in Seq(Packets) /\ Len(<< >>) = 0 OBVIOUS
  <2>2. toServer = << >> /\ toClient = << >> BY DEF Init
  <2>3. QED BY <1>1, <2>1, <2>2
<1>4. /\ {pinged, miscast, isRunning, closed, asked, accepted} \subseteq BOOLEAN
      /\ (threadPc # "none") <=> (state = "Play")
  BY DEF Init
<1>5. TypeOK BY <1>3, <1>4 DEF Init, TypeOK, States
<1>6. QED BY <1>2, <1>5 DEF Init, IInv, OwnerInv, LoginInv, ThreadInside, AcceptedBeforePlay

(* A step of the owner that sends or receives nothing.                     *)
LEMMA QuietStep ==
    ASSUME IInv, MainThrows \/ Destroy \/ JoinThread \/ ServerClose
    PROVE  IInv'
<1> USE DEF IInv, OwnerInv, LoginInv, ThreadInside, AcceptedBeforePlay, TypeOK
<1>1. CASE MainThrows BY <1>1 DEF MainThrows, MainEnds, connVars, clientVars, serverVars
<1>2. CASE Destroy BY <1>2 DEF Destroy, serverVars
<1>3. CASE JoinThread BY <1>3 DEF JoinThread, clientVars, serverVars
<1>4. CASE ServerClose BY <1>4 DEF ServerClose, clientVars, serverVars
<1>5. QED BY <1>1, <1>2, <1>3, <1>4

(* A step of the owner that receives.                                      *)
LEMMA ReceiveStep ==
    ASSUME IInv, ReceiveUnknown \/ PingResponse \/ ReceiveSetCompression \/ LoggedIn \/ LoginFails
           \/ CastToSuccess
    PROVE  IInv'
<1>1. Receive BY DEF ReceiveUnknown, PingResponse, ReceiveSetCompression, LoggedIn, StartThread, LoginFails, CastToSuccess
<1> DEFINE p == Head(toClient)
<1>2. /\ p \in Content(toClient) /\ p \in Packets
      /\ toClient' \in Seq(Packets) /\ Len(toClient') <= Capacity
      /\ Content(toClient') \subseteq Content(toClient)
      /\ UNCHANGED <<toServer, closed, serverVars>>
  BY <1>1, ReceiveEffect DEF IInv
<1> HIDE DEF p
<1> USE <1>2 DEF IInv, OwnerInv, LoginInv, ThreadInside, AcceptedBeforePlay, TypeOK, serverVars, clientVars
<1>3. CASE ReceiveUnknown BY <1>3 DEF ReceiveUnknown
<1>4. CASE PingResponse BY <1>4 DEF PingResponse, States
<1>5. CASE ReceiveSetCompression BY <1>5 DEF ReceiveSetCompression, p
<1>6. CASE LoggedIn BY <1>6 DEF LoggedIn, StartThread, States, p
<1>7. CASE LoginFails BY <1>7 DEF LoginFails
<1>8. CASE CastToSuccess BY <1>8 DEF CastToSuccess, StartThread, States
<1>9. QED BY <1>3, <1>4, <1>5, <1>6, <1>7, <1>8

(* A step of the client that sends.                                        *)
LEMMA SendStep ==
    ASSUME IInv, \/ PingSend \/ ConnectHandshake \/ ConnectLoginStart
                 \/ ThreadSend("handle", "handle") \/ ThreadSend("reply", "loop")
    PROVE  IInv'
<1> DEFINE Allowed(ps) == \A q \in Content(ps) :
                             q.name \in {"status", "login"} => q.state = "Handshaking"
<1>1. ASSUME NEW ps \in Seq(Packets), Send(ps), Allowed(ps), UNCHANGED serverVars
      PROVE  /\ toServer' \in Seq(Packets) /\ Len(toServer') <= Capacity
             /\ UNCHANGED <<toClient, closed>>
             /\ \A q \in Content(toServer') :
                   q.name \in {"status", "login"} => q.state = "Handshaking"
  BY <1>1, SendEffect DEF IInv, LoginInv
<1>2. \A n \in {"status", "request", "login", "loginStart", "play"}, st \in States :
        Packet(n, st, -1, 0) \in Packets /\ Packet(n, st, compressionThreshold, 0) \in Packets
  BY DEF Packet, Packets, PacketNames, TypeOK, IInv
<1> USE DEF IInv, OwnerInv, LoginInv, ThreadInside, AcceptedBeforePlay, TypeOK, serverVars, clientVars
<1>3. CASE PingSend
  <2> DEFINE ps == <<Packet("status", "Handshaking", -1, 0), Packet("request", "Status", -1, 0)>>
  <2>1. ps \in Seq(Packets) BY <1>2 DEF States
  <2>2. Allowed(ps) BY DEF Content, Packet
  <2>3. Send(ps) /\ UNCHANGED serverVars BY <1>3 DEF PingSend
  <2> HIDE DEF ps
  <2>4. QED BY <1>1, <1>3, <2>1, <2>2, <2>3 DEF PingSend, States
<1>4. CASE ConnectHandshake
  <2> DEFINE ps == <<Packet("login", "Handshaking", -1, 0)>>
  <2>1. ps \in Seq(Packets) BY <1>2 DEF States
  <2>2. Allowed(ps) BY DEF Content, Packet
  <2>3. Send(ps) /\ UNCHANGED serverVars BY <1>4 DEF ConnectHandshake
  <2> HIDE DEF ps
  <2>4. QED BY <1>1, <1>4, <2>1, <2>2, <2>3 DEF ConnectHandshake, States
<1>5. CASE ConnectLoginStart
  <2> DEFINE ps == <<Packet("loginStart", "Login", -1, 0)>>
  <2>1. ps \in Seq(Packets) BY <1>2 DEF States
  <2>2. Allowed(ps) BY DEF Content, Packet
  <2>3. Send(ps) /\ UNCHANGED serverVars BY <1>5 DEF ConnectLoginStart
  <2> HIDE DEF ps
  <2>4. QED BY <1>1, <1>5, <2>1, <2>2, <2>3 DEF ConnectLoginStart, States
<1>6. ASSUME NEW from \in {"handle", "reply"}, NEW to \in {"handle", "loop"}, ThreadSend(from, to)
      PROVE  IInv'
  <2> DEFINE ps == <<Packet("play", state, compressionThreshold, 0)>>
  <2>1. ps \in Seq(Packets) BY <1>2
  <2>2. Allowed(ps) BY DEF Content, Packet
  <2>3. Send(ps) /\ UNCHANGED serverVars BY <1>6 DEF ThreadSend
  <2> HIDE DEF ps
  <2>4. QED BY <1>1, <1>6, <2>1, <2>2, <2>3 DEF ThreadSend, ThreadGoto
<1>7. QED BY <1>3, <1>4, <1>5, <1>6

(* The other steps of the network thread.                                  *)
LEMMA ThreadStep ==
    ASSUME IInv, ThreadTest \/ ThreadHandled \/ ThreadReceive \/ ThreadThrows \/ ThreadRejects
    PROVE  IInv'
<1> USE DEF IInv, OwnerInv, LoginInv, ThreadInside, AcceptedBeforePlay, TypeOK, serverVars, clientVars,
            connVars
<1>1. CASE ThreadTest BY <1>1 DEF ThreadTest, ThreadGoto
<1>2. CASE ThreadHandled BY <1>2 DEF ThreadHandled, ThreadGoto
<1>3. CASE ThreadReceive
  <2>1. Receive BY <1>3 DEF ThreadReceive
  <2>2. /\ toClient' \in Seq(Packets) /\ Len(toClient') <= Capacity
        /\ Content(toClient') \subseteq Content(toClient)
        /\ UNCHANGED <<toServer, closed, serverVars>>
    BY <2>1, ReceiveEffect
  <2>3. QED BY <1>3, <2>2 DEF ThreadReceive, ThreadGoto
<1>4. CASE ThreadThrows BY <1>4 DEF ThreadThrows
<1>5. CASE ThreadRejects
  <2>1. /\ threadPc \in {"handle", "receive", "reply"} /\ threadPc' = "ended"
        /\ UNCHANGED <<mainPc, pinged, miscast, clientVars>>
        /\ Receive \/ UNCHANGED <<connVars, serverVars>>
    BY <1>5 DEF ThreadRejects
  <2>2. CASE Receive
    <3>1. /\ toClient' \in Seq(Packets) /\ Len(toClient') <= Capacity
          /\ Content(toClient') \subseteq Content(toClient)
          /\ UNCHANGED <<toServer, closed, serverVars>>
      BY <2>2, ReceiveEffect
    <3>2. QED BY <2>1, <3>1
  <2>3. CASE UNCHANGED <<connVars, serverVars>> BY <2>1, <2>3
  <2>4. QED BY <2>1, <2>2, <2>3
<1>6. QED BY <1>1, <1>2, <1>3, <1>4, <1>5

(* A step of the server that sends.                                        *)
LEMMA ServerSendStep ==
    ASSUME IInv,
           \/ ServerResponse \/ ServerUnknown \/ ServerRefuse \/ ServerEncryptionRequest
           \/ ServerKeepAlive
           \/ \E t \in Thresholds : ServerSetCompression(t)
           \/ \E arg \in {0, 1} : ServerAccept(arg)
    PROVE  IInv'
<1>1. ASSUME NEW name \in PacketNames, NEW arg \in Thresholds \cup {0, 1}, ServerSend(name, arg),
             name = "setCompression" => arg \in Thresholds
      PROVE  /\ toClient' \in Seq(Packets) /\ Len(toClient') <= Capacity
             /\ UNCHANGED <<mainPc, pinged, miscast, clientVars, threadPc, closed>>
             /\ \A p \in Content(toClient') : p.name = "setCompression" => p.arg \in Thresholds
             /\ \A p \in Content(toClient') :
                   p.name = "loginSuccess" /\ p.arg = 1 => accepted \/ (name = "loginSuccess" /\ arg = 1)
  <2> DEFINE p == Packet(name, serverState, serverThreshold, arg)
  <2>1. p.name = name /\ p.arg = arg BY DEF Packet
  <2>2. /\ toClient' \in Seq(Packets) /\ Len(toClient') <= Capacity
        /\ Content(toClient') \subseteq Content(toClient) \cup {p}
        /\ UNCHANGED <<mainPc, pinged, miscast, clientVars, threadPc, closed>>
    BY <1>1, ServerSendEffect DEF IInv
  <2> HIDE DEF p
  <2>3. QED BY <1>1, <2>1, <2>2 DEF IInv, LoginInv
<1> USE DEF IInv, OwnerInv, LoginInv, ThreadInside, AcceptedBeforePlay, TypeOK, serverVars, clientVars,
            PacketNames
<1>2. CASE ServerResponse BY <1>1, <1>2 DEF ServerResponse
<1>3. CASE ServerUnknown BY <1>1, <1>3 DEF ServerUnknown
<1>4. CASE ServerRefuse BY <1>1, <1>4 DEF ServerRefuse
<1>5. CASE ServerEncryptionRequest BY <1>1, <1>5 DEF ServerEncryptionRequest
<1>6. CASE ServerKeepAlive BY <1>1, <1>6 DEF ServerKeepAlive
<1>7. ASSUME NEW t \in Thresholds, ServerSetCompression(t) PROVE IInv'
  BY <1>1, <1>7 DEF ServerSetCompression
<1>8. ASSUME NEW arg \in {0, 1}, ServerAccept(arg) PROVE IInv'
  <2>1. ~accepted /\ accepted' \in BOOLEAN /\ (accepted' <=> arg = 1) /\ serverState' = "Play"
        /\ UNCHANGED <<toServer, serverThreshold, asked>>
    BY <1>8 DEF ServerAccept
  <2>2. /\ toClient' \in Seq(Packets) /\ Len(toClient') <= Capacity
        /\ UNCHANGED <<mainPc, pinged, miscast, clientVars, threadPc, closed>>
        /\ \A p \in Content(toClient') : p.name = "setCompression" => p.arg \in Thresholds
        /\ \A p \in Content(toClient') : p.name = "loginSuccess" /\ p.arg = 1 => accepted \/ arg = 1
    BY <1>1, <1>8 DEF ServerAccept
  <2>3. LoginInv' BY <2>1, <2>2
  <2>4. OwnerInv' BY <2>1, <2>2
  <2>5. TypeOK' BY <2>1, <2>2 DEF States
  <2>6. QED BY <2>3, <2>4, <2>5
<1>9. QED BY <1>2, <1>3, <1>4, <1>5, <1>6, <1>7, <1>8

(* A step of the server that receives.                                     *)
LEMMA ServerReceiveStep == ASSUME IInv, ServerReceive PROVE IInv'
<1> DEFINE p == Head(toServer)
<1>1. /\ p \in Content(toServer) /\ toServer' \in Seq(Packets) /\ Len(toServer') <= Capacity
      /\ Content(toServer') \subseteq Content(toServer)
  <2>1. toServer \in Seq(Packets) /\ Len(toServer) <= Capacity /\ toServer # << >>
        /\ toServer' = Tail(toServer)
    BY DEF IInv, TypeOK, ServerReceive
  <2>2. Capacity \in Nat BY SessionAssumption DEF SessionAssumption
  <2>3. Len(toServer) \in Nat /\ Len(Tail(toServer)) = Len(toServer) - 1 BY <2>1, TailIn
  <2>4. QED BY <2>1, <2>2, <2>3, HeadIn, TailIn
<1>2. /\ UNCHANGED <<mainPc, pinged, miscast, clientVars, threadPc, toClient, serverThreshold, accepted>>
      /\ closed' \in BOOLEAN /\ asked' \in BOOLEAN
      /\ \/ serverState' = serverState
         \/ p.name \in {"status", "login"} /\ p.state = serverState /\ serverState' \in States
  BY DEF IInv, TypeOK, ServerReceive, ServerReads, States
<1> HIDE DEF p
<1>3. accepted => serverState' = "Play"
  BY <1>1, <1>2 DEF IInv, LoginInv
<1>4. OwnerInv' BY <1>2 DEF IInv, OwnerInv, ThreadInside, clientVars
<1>5. LoginInv'
  BY <1>1, <1>2, <1>3 DEF IInv, LoginInv, AcceptedBeforePlay
<1>6. TypeOK'
  BY <1>1, <1>2 DEF IInv, TypeOK, clientVars
<1>7. QED BY <1>4, <1>5, <1>6 DEF IInv

(* Every step keeps the invariant.                                         *)
LEMMA NextInv == IInv /\ [Next]_vars => IInv'
<1> SUFFICES ASSUME IInv, [Next]_vars PROVE IInv'
  OBVIOUS
<1>1. CASE Main BY <1>1, QuietStep, ReceiveStep, SendStep DEF Main, MainReceive
<1>2. CASE ExecNs BY <1>2, ThreadStep, SendStep DEF ExecNs
<1>3. CASE Server BY <1>3, QuietStep, ServerSendStep, ServerReceiveStep DEF Server
<1>4. CASE UNCHANGED vars
  BY <1>4 DEF vars, clientVars, connVars, serverVars, IInv, OwnerInv, LoginInv, ThreadInside,
              AcceptedBeforePlay, TypeOK
<1>5. QED BY <1>1, <1>2, <1>3, <1>4 DEF Next

(* The invariant holds in every state of every behaviour.                  *)
THEOREM SessionInvariant == Spec => []IInv
<1>1. Init => IInv BY InitInv
<1>2. IInv /\ [Next]_vars => IInv' BY NextInv
<1>3. QED BY <1>1, <1>2, PTL DEF Spec

(* The members of NetworkClient, the packets and the server's side have    *)
(* their types, and there is a thread exactly in the state Play.           *)
THEOREM TypeCorrect == Spec => []TypeOK
<1>1. IInv => TypeOK BY DEF IInv
<1>2. QED BY <1>1, SessionInvariant, PTL

(* The network thread uses the object only while it exists: the destructor *)
(* joins it, and a destructor that finds no thread has none to join        *)
(* (networkclient.cpp:80-90).                                              *)
THEOREM ThreadStaysInside == Spec => []ThreadInside
<1>1. IInv => ThreadInside BY DEF IInv, OwnerInv
<1>2. QED BY <1>1, SessionInvariant, PTL

(* Connect returns only when the server accepted the name that was sent,   *)
(* or after the undefined cast of another packet (networkclient.cpp:54-82). *)
THEOREM LoginIsAccepted == Spec => []AcceptedBeforePlay
<1>1. IInv => AcceptedBeforePlay BY DEF IInv, LoginInv
<1>2. QED BY <1>1, SessionInvariant, PTL

-----------------------------------------------------------------------------
(***************************************************************************)
(* The packets of a session: each end reads every packet in the state and  *)
(* in the format it was written in, and a connection that was used for a   *)
(* ping is of no use for a login.                                          *)
(***************************************************************************)
(* The two directions, in terms of what a reader has to know.              *)

\* What a packet makes of the state and of the format of the next one.
StateAfter(p) == IF p.name = "loginSuccess" THEN "Play" ELSE p.state
FormatAfter(p) == IF p.name = "setCompression" THEN p.arg >= 0 ELSE p.compressed

\* A server that still waits for the handshake will talk in the login.
ServerTalks == IF serverState = "Handshaking" THEN "Login" ELSE serverState

\* At each place of toClient, and behind the last packet: what the client
\* expects there, and what was, or will be, written there.
ExpectedState(i) == IF i = 1 THEN state ELSE StateAfter(toClient[i - 1])
ExpectedFormat(i) == IF i = 1 THEN compressionThreshold >= 0 ELSE FormatAfter(toClient[i - 1])
WrittenState(i) == IF i <= Len(toClient) THEN toClient[i].state ELSE ServerTalks
WrittenFormat(i) == IF i <= Len(toClient) THEN toClient[i].compressed ELSE serverThreshold >= 0

Chain == \A i \in 1 .. Len(toClient) + 1 :
            /\ ExpectedState(i) = WrittenState(i)
            /\ ExpectedFormat(i) <=> WrittenFormat(i)

InDialogue == ~pinged /\ ~miscast
                 /\ mainPc \in {"helloSent", "loginWait", "compressedWait", "running", "joining"}

\* Where the owner is, the members say so.
PhaseInv ==
    /\ mainPc \in {"constructed", "pingWait", "helloSent", "loginWait"} => compressionThreshold = -1
    /\ mainPc \in {"helloSent", "loginWait", "compressedWait"} => state = "Login"
    /\ mainPc \in {"running", "joining"} => state = "Play"

\* What the login dialogue decides is said in the login, and holds from then on.
StampInv ==
    /\ \A p \in Content(toClient) : p.name \in {"loginSuccess", "setCompression"} => p.state = "Login"
    /\ \A p \in Content(toClient) : p.state = "Play"
          => serverState = "Play" /\ (p.compressed <=> serverThreshold >= 0)

\* From the server to the client.
FlowInv == InDialogue => Chain

\* From the client to the server, when it did not ping.
Hello == Packet("login", "Handshaking", -1, 0)
Start == Packet("loginStart", "Login", -1, 0)

EarlyInv ==
    /\ serverState = "Handshaking" => serverThreshold = -1
    /\ ~pinged => mainPc # "pingWait"
    /\ mainPc = "destroyed" => closed
    /\ ~pinged /\ mainPc = "constructed"
          => toServer = << >> /\ toClient = << >> /\ serverState = "Handshaking" /\ ~asked

HelloSent == /\ ~asked /\ serverThreshold = -1
             /\ \/ serverState = "Handshaking" /\ toServer = <<Hello>>
                \/ serverState = "Login" /\ toServer = << >>

LoginSent == \/ serverState = "Handshaking" /\ toServer = <<Hello, Start>> /\ ~asked
             \/ serverState = "Login" /\ toServer = <<Start>> /\ ~asked /\ serverThreshold = -1
             \/ serverState \in {"Login", "Play"} /\ toServer = << >>

PlaySent == /\ serverState = "Play"
            /\ \A p \in Content(toServer) :
                  p.name = "play" /\ p.state = "Play" /\ (p.compressed <=> serverThreshold >= 0)

SentInv == ~pinged /\ ~miscast /\ ~closed =>
    /\ mainPc = "helloSent" => HelloSent
    /\ mainPc \in {"loginWait", "compressedWait", "ended"} => LoginSent
    /\ mainPc \in {"running", "joining"} => PlaySent

\* A ping.
Status == Packet("status", "Handshaking", -1, 0)
Request == Packet("request", "Status", -1, 0)

\* Of the two packets of a ping the server has yet to read some, or to answer.
Unanswered(ps) == /\ toClient = << >>
                  /\ closed \/ (toServer = ps /\ mainPc \in {"pingWait", "ended"})

\* The ping is answered, or nothing will come any more.
Answered == /\ serverState = "Status" /\ ~asked
            /\ \A p \in Content(toServer) : p.state # "Status"
            /\ Len(toClient) <= 1
            /\ mainPc \notin {"pingWait", "ended"} => toClient = << >>

PingInv ==
    pinged =>
    /\ mainPc \notin {"compressedWait", "running", "joining"} /\ state # "Play"
    /\ serverThreshold = -1
    /\ \A p \in Content(toClient) : p.state = "Status" /\ ~p.compressed /\ p.name = "response"
    /\ \/ serverState = "Handshaking" /\ ~asked /\ Unanswered(<<Status, Request>>)
       \/ serverState = "Status" /\ ~asked /\ Unanswered(<<Request>>)
       \/ serverState = "Status" /\ asked /\ Unanswered(<< >>)
       \/ Answered

FullInv == IInv /\ PhaseInv /\ StampInv /\ FlowInv /\ EarlyInv /\ SentInv /\ PingInv

-----------------------------------------------------------------------------
(* One packet behind another, and behind nothing.                          *)
LEMMA OneAndOne == ASSUME NEW a, NEW b
                   PROVE  <<a>> \o <<b>> = <<a, b>> /\ << >> \o <<b>> = <<b>>
<1> DEFINE S == {a, b}
<1>1. <<a>> \in Seq(S) /\ <<b>> \in Seq(S) /\ <<a, b>> \in Seq(S) OBVIOUS
<1>2. Len(<<a>>) = 1 /\ Len(<<b>>) = 1 /\ Len(<<a, b>>) = 2
      /\ <<a>>[1] = a /\ <<b>>[1] = b /\ <<a, b>>[1] = a /\ <<a, b>>[2] = b
  OBVIOUS
<1> HIDE DEF S
<1>3. /\ <<a>> \o <<b>> \in Seq(S) /\ Len(<<a>> \o <<b>>) = 2
      /\ \A i \in 1 .. 2 : (<<a>> \o <<b>>)[i] = IF i <= 1 THEN a ELSE <<b>>[i - 1]
  BY <1>1, <1>2, ConcatProperties
<1>4. \A i \in 1 .. 2 : (<<a>> \o <<b>>)[i] = <<a, b>>[i] BY <1>2, <1>3
<1>5. <<a>> \o <<b>> = <<a, b>> BY <1>1, <1>2, <1>3, <1>4, SeqEqual
<1>6. QED BY <1>1, <1>5, ConcatEmptySeq

(* Taking a packet and doing with state and format what it says keeps the  *)
(* chain.                                                                  *)
LEMMA ChainReceive ==
    ASSUME TypeOK, Chain, Receive,
           state' = StateAfter(Head(toClient)),
           compressionThreshold' >= 0 <=> FormatAfter(Head(toClient))
    PROVE  Chain'
<1>1. /\ toClient \in Seq(Packets) /\ toClient # << >> /\ toClient' = Tail(toClient)
      /\ UNCHANGED serverVars
  BY DEF TypeOK, Receive
<1>2. /\ Len(toClient) \in Nat /\ Len(toClient') = Len(toClient) - 1
      /\ Head(toClient) = toClient[1]
      /\ \A i \in 1 .. Len(toClient') : toClient'[i] = toClient[i + 1]
  BY <1>1
<1> SUFFICES ASSUME NEW i \in 1 .. Len(toClient') + 1
             PROVE  /\ ExpectedState(i)' = WrittenState(i)'
                    /\ ExpectedFormat(i)' <=> WrittenFormat(i)'
  BY DEF Chain
<1>3. i + 1 \in 1 .. Len(toClient) + 1 BY <1>2
<1>4. ExpectedState(i + 1) = WrittenState(i + 1) /\ (ExpectedFormat(i + 1) <=> WrittenFormat(i + 1))
  BY <1>3 DEF Chain
<1>5. WrittenState(i)' = WrittenState(i + 1) /\ (WrittenFormat(i)' <=> WrittenFormat(i + 1))
  BY <1>1, <1>2 DEF WrittenState, WrittenFormat, ServerTalks, serverVars
<1>6. ExpectedState(i)' = ExpectedState(i + 1) /\ (ExpectedFormat(i)' <=> ExpectedFormat(i + 1))
  <2>1. CASE i = 1 BY <1>2, <2>1 DEF ExpectedState, ExpectedFormat
  <2>2. CASE i # 1
    <3>1. i - 1 \in 1 .. Len(toClient') /\ toClient'[i - 1] = toClient[i] BY <1>2, <2>2
    <3>2. QED BY <2>2, <3>1 DEF ExpectedState, ExpectedFormat, StateAfter, FormatAfter
  <2>3. QED BY <2>1, <2>2
<1>7. QED BY <1>4, <1>5, <1>6

(* Sending a packet and doing with state and format what it says keeps it. *)
LEMMA ChainSend ==
    ASSUME TypeOK, Chain, NEW p \in Packets,
           toClient' = Append(toClient, p), UNCHANGED <<state, compressionThreshold>>,
           p.state = serverState, p.compressed <=> serverThreshold >= 0,
           serverState # "Handshaking",
           serverState' = StateAfter(p), serverState' # "Handshaking",
           serverThreshold' >= 0 <=> FormatAfter(p)
    PROVE  Chain'
<1>1. /\ Len(toClient) \in Nat /\ Len(toClient') = Len(toClient) + 1
      /\ \A i \in 1 .. Len(toClient) : toClient'[i] = toClient[i]
      /\ toClient'[Len(toClient) + 1] = p
  BY DEF TypeOK
<1> SUFFICES ASSUME NEW i \in 1 .. Len(toClient') + 1
             PROVE  /\ ExpectedState(i)' = WrittenState(i)'
                    /\ ExpectedFormat(i)' <=> WrittenFormat(i)'
  BY DEF Chain
<1>2. CASE i <= Len(toClient) + 1
  <2>1. ExpectedState(i) = WrittenState(i) /\ (ExpectedFormat(i) <=> WrittenFormat(i))
    BY <1>1, <1>2 DEF Chain
  <2>2. WrittenState(i)' = WrittenState(i) /\ (WrittenFormat(i)' <=> WrittenFormat(i))
    BY <1>1, <1>2 DEF WrittenState, WrittenFormat, ServerTalks
  <2>3. ExpectedState(i)' = ExpectedState(i) /\ (ExpectedFormat(i)' <=> ExpectedFormat(i))
    <3>1. CASE i = 1 BY <3>1 DEF ExpectedState, ExpectedFormat
    <3>2. CASE i # 1
      <4>1. toClient'[i - 1] = toClient[i - 1] BY <1>1, <1>2, <3>2
      <4>2. QED BY <3>2, <4>1 DEF ExpectedState, ExpectedFormat, StateAfter, FormatAfter
    <3>3. QED BY <3>1, <3>2
  <2>4. QED BY <2>1, <2>2, <2>3
<1>3. CASE i = Len(toClient) + 2
  <2>1. i # 1 /\ toClient'[i - 1] = p /\ ~(i <= Len(toClient')) BY <1>1, <1>3
  <2>2. QED BY <2>1 DEF ExpectedState, ExpectedFormat, WrittenState, WrittenFormat, ServerTalks,
                        StateAfter, FormatAfter
<1>4. QED BY <1>1, <1>2, <1>3

(* Steps that change neither the packets nor what both ends expect.        *)
LEMMA ChainKept ==
    ASSUME Chain, UNCHANGED <<toClient, state, compressionThreshold, serverThreshold>>,
           ServerTalks' = ServerTalks
    PROVE  Chain'
BY DEF Chain, ExpectedState, ExpectedFormat, WrittenState, WrittenFormat, StateAfter, FormatAfter

(* The first packet is what the client expects.                            *)
LEMMA ChainHead ==
    ASSUME TypeOK, Chain, toClient # << >>
    PROVE  /\ Head(toClient).state = state
           /\ Head(toClient).compressed <=> compressionThreshold >= 0
<1>1. Len(toClient) \in Nat /\ 1 <= Len(toClient) /\ Head(toClient) = toClient[1] BY DEF TypeOK
<1>2. 1 \in 1 .. Len(toClient) + 1 BY <1>1
<1>3. ExpectedState(1) = WrittenState(1) /\ (ExpectedFormat(1) <=> WrittenFormat(1))
  BY <1>2 DEF Chain
<1>4. QED BY <1>1, <1>3 DEF ExpectedState, ExpectedFormat, WrittenState, WrittenFormat

-----------------------------------------------------------------------------
(* Each part of the invariant is kept by every step.                       *)

(* Each phase of the owner has its state and threshold.                    *)
LEMMA PhaseStep == ASSUME FullInv, Next PROVE PhaseInv'
<1> USE DEF PhaseInv
<1> SUFFICES ASSUME PhaseInv, TypeOK, OwnerInv PROVE PhaseInv'
  BY DEF FullInv, IInv
<1>1. CASE Main
  <2>1. CASE MainReceive
    BY <2>1 DEF MainReceive, MainThrows, MainEnds, ReceiveUnknown, PingResponse, ReceiveSetCompression,
                LoggedIn, StartThread, LoginFails, CastToSuccess, clientVars
  <2>2. CASE PingSend \/ ConnectHandshake \/ ConnectLoginStart
    BY <2>2 DEF PingSend, ConnectHandshake, ConnectLoginStart, clientVars
  <2>3. CASE Destroy BY <2>3 DEF Destroy, OwnerInv
  <2>4. CASE JoinThread BY <2>4 DEF JoinThread
  <2>5. QED BY <1>1, <2>1, <2>2, <2>3, <2>4 DEF Main
<1>2. CASE ExecNs
  BY <1>2 DEF ExecNs, ThreadTest, ThreadHandled, ThreadReceive, ThreadThrows, ThreadRejects, ThreadSend, clientVars
<1>3. CASE Server
  BY <1>3 DEF Server, ServerReceive, ServerResponse, ServerUnknown, ServerRefuse, ServerKeepAlive,
              ServerClose, ServerEncryptionRequest, ServerSetCompression, ServerAccept, ServerSend,
              clientVars
<1>4. QED BY <1>1, <1>2, <1>3 DEF Next

(* The steps of the owner and of the network thread take packets from      *)
(* toClient at most, and leave the server alone.                           *)
LEMMA ClientStep ==
    ASSUME TypeOK, Main \/ ExecNs
    PROVE  Content(toClient') \subseteq Content(toClient) /\ UNCHANGED serverVars
<1>1. CASE Receive BY <1>1, ReceiveEffect
<1>2. CASE UNCHANGED <<toClient, serverVars>> BY <1>2
<1>3. Receive \/ UNCHANGED <<toClient, serverVars>>
  BY DEF Main, MainReceive, MainThrows, MainEnds, ReceiveUnknown, PingResponse, ReceiveSetCompression,
         LoggedIn, StartThread, LoginFails, CastToSuccess, PingSend, ConnectHandshake, ConnectLoginStart, Destroy, JoinThread, Send,
         ExecNs, ThreadTest, ThreadHandled, ThreadReceive, ThreadThrows, ThreadRejects, ThreadSend, connVars
<1>4. QED BY <1>1, <1>2, <1>3

\* A step of the server that sends p, and what it makes of the server.
Writes(p) ==
    /\ toClient' = Append(toClient, p)
    /\ Content(toClient') \subseteq Content(toClient) \cup {p}
    /\ p.state = serverState /\ (p.compressed <=> serverThreshold >= 0)
    /\ serverState # "Handshaking"
    /\ serverState' = StateAfter(p) /\ (serverThreshold' >= 0 <=> FormatAfter(p))
    /\ serverState' \in {serverState, "Play"}
    /\ p.name \in {"loginSuccess", "setCompression"} => serverState = "Login"
    /\ p.name # "setCompression" => UNCHANGED serverThreshold
    /\ p.name # "response" => serverState # "Status"
    /\ p.name \in {"loginSuccess", "setCompression"} => asked
    /\ p.name = "response" => asked /\ ~asked'
    /\ asked' => asked
    /\ ~closed
    /\ UNCHANGED <<mainPc, pinged, miscast, clientVars, threadPc, toServer, closed>>

(* Every step of the server that sends is one.                             *)
LEMMA ServerSends ==
    ASSUME IInv,
           \/ ServerResponse \/ ServerUnknown \/ ServerRefuse \/ ServerEncryptionRequest
           \/ ServerKeepAlive
           \/ \E t \in Thresholds : ServerSetCompression(t)
           \/ \E arg \in {0, 1} : ServerAccept(arg)
    PROVE  \E p \in Packets : Writes(p)
<1>1. ASSUME NEW name \in PacketNames, NEW arg \in Thresholds \cup {0, 1}, ServerSend(name, arg),
             serverState # "Handshaking",
             serverState' = IF name = "loginSuccess" THEN "Play" ELSE serverState,
             serverThreshold' = IF name = "setCompression" THEN arg ELSE serverThreshold,
             name \in {"loginSuccess", "setCompression"} => serverState = "Login",
             name # "response" => serverState # "Status",
             name \in {"loginSuccess", "setCompression"} => asked,
             name = "response" => asked /\ ~asked',
             asked' => asked,
             UNCHANGED toServer
      PROVE  \E p \in Packets : Writes(p)
  <2> DEFINE p == Packet(name, serverState, serverThreshold, arg)
  <2>1. /\ p \in Packets /\ toClient' = Append(toClient, p)
        /\ Content(toClient') \subseteq Content(toClient) \cup {p}
        /\ ~closed /\ UNCHANGED <<mainPc, pinged, miscast, clientVars, threadPc, closed>>
    BY <1>1, ServerSendEffect DEF IInv
  <2>2. /\ p.name = name /\ p.state = serverState /\ p.arg = arg
        /\ p.compressed <=> serverThreshold >= 0
    BY DEF Packet
  <2> HIDE DEF p
  <2>3. StateAfter(p) = serverState' BY <1>1, <2>2 DEF StateAfter
  <2>4. FormatAfter(p) <=> serverThreshold' >= 0 BY <1>1, <2>2 DEF FormatAfter
  <2>5. Writes(p) BY <1>1, <2>1, <2>2, <2>3, <2>4 DEF Writes
  <2>6. QED BY <2>1, <2>5
<1> USE DEF IInv, TypeOK, PacketNames, serverVars, States
<1>2. CASE ServerResponse
  <2>1. /\ serverState = "Status" /\ asked /\ ~asked' /\ ServerSend("response", 0)
        /\ UNCHANGED <<toServer, serverState, serverThreshold>>
    BY <1>2 DEF ServerResponse
  <2>2. QED BY <1>1, <2>1
<1>3. CASE ServerUnknown
  <2>1. /\ serverState \in {"Login", "Play"} /\ ServerSend("unknown", 0)
        /\ UNCHANGED <<toServer, serverState, serverThreshold, asked>>
    BY <1>3 DEF ServerUnknown
  <2>2. QED BY <1>1, <2>1
<1>4. CASE ServerRefuse
  <2>1. /\ serverState = "Login" /\ ~asked' /\ ServerSend("disconnect", 0)
        /\ UNCHANGED <<toServer, serverState, serverThreshold>>
    BY <1>4 DEF ServerRefuse
  <2>2. QED BY <1>1, <2>1
<1>5. CASE ServerEncryptionRequest
  <2>1. /\ serverState = "Login" /\ ~asked' /\ ServerSend("encryptionRequest", 0)
        /\ UNCHANGED <<toServer, serverState, serverThreshold>>
    BY <1>5 DEF ServerEncryptionRequest
  <2>2. QED BY <1>1, <2>1
<1>6. CASE ServerKeepAlive
  <2>1. /\ serverState = "Play" /\ ServerSend("keepAlive", 0)
        /\ UNCHANGED <<toServer, serverState, serverThreshold, asked>>
    BY <1>6 DEF ServerKeepAlive
  <2>2. QED BY <1>1, <2>1
<1>7. ASSUME NEW t \in Thresholds, ServerSetCompression(t) PROVE \E p \in Packets : Writes(p)
  <2>1. /\ serverState = "Login" /\ asked /\ ServerSend("setCompression", t)
        /\ serverThreshold' = t /\ UNCHANGED <<toServer, serverState, asked>>
    BY <1>7 DEF ServerSetCompression
  <2>2. QED BY <1>1, <2>1
<1>8. ASSUME NEW arg \in {0, 1}, ServerAccept(arg) PROVE \E p \in Packets : Writes(p)
  <2>1. /\ serverState = "Login" /\ asked /\ ServerSend("loginSuccess", arg)
        /\ serverState' = "Play" /\ UNCHANGED <<toServer, serverThreshold, asked>>
    BY <1>8 DEF ServerAccept
  <2>2. QED BY <1>1, <2>1
<1>9. QED BY <1>2, <1>3, <1>4, <1>5, <1>6, <1>7, <1>8

(* The server talks of the login in the login only, and of the play state *)
(* in the format of the play state.                                        *)
LEMMA StampStep == ASSUME FullInv, Next PROVE StampInv'
<1> USE DEF FullInv, StampInv
<1>1. CASE Main \/ ExecNs
  BY <1>1, ClientStep DEF IInv, serverVars
<1>2. ASSUME NEW p \in Packets, Writes(p) PROVE StampInv'
  BY <1>2 DEF Writes, StateAfter, FormatAfter
<1>3. CASE ServerReceive
  <2>1. /\ UNCHANGED <<toClient, serverThreshold>>
        /\ serverState = "Play" => serverState' = "Play"
    <3>1. toServer # << >> /\ toServer \in Seq(Packets) BY <1>3 DEF ServerReceive, IInv, TypeOK
    <3>2. Head(toServer) \in Content(toServer) BY <3>1, HeadIn
    <3>3. QED BY <1>3, <3>2 DEF ServerReceive, ServerReads, IInv, LoginInv
  <2>2. QED BY <2>1
<1>4. CASE ServerClose BY <1>4 DEF ServerClose, serverVars
<1>5. QED BY <1>1, <1>2, <1>3, <1>4, ServerSends DEF Next, Server

(* What the server makes of a packet it receives.                          *)
LEMMA ServerReceives ==
    ASSUME IInv, ServerReceive
    PROVE  /\ ~closed /\ toServer # << >> /\ toServer' = Tail(toServer)
           /\ Head(toServer) \in Content(toServer) /\ Head(toServer) \in Packets
           /\ Content(toServer') \subseteq Content(toServer)
           /\ UNCHANGED <<mainPc, pinged, miscast, clientVars, threadPc, toClient, serverThreshold, accepted>>
           /\ IF ServerReads(Head(toServer))
              THEN /\ serverState' = CASE Head(toServer).name = "status" -> "Status"
                                       [] Head(toServer).name = "login" -> "Login"
                                       [] OTHER -> serverState
                   /\ asked' <=> Head(toServer).name \in {"request", "loginStart"} \/ asked
                   /\ ~closed'
              ELSE closed' /\ UNCHANGED <<serverState, asked>>
<1>1. toServer # << >> /\ toServer \in Seq(Packets) BY DEF ServerReceive, IInv, TypeOK
<1>2. Head(toServer) \in Content(toServer) /\ Head(toServer) \in Packets
      /\ Content(Tail(toServer)) \subseteq Content(toServer)
  BY <1>1, HeadIn, TailIn
<1>3. QED BY <1>1, <1>2 DEF ServerReceive, clientVars

(* What the client expects and what is written stay the same.              *)
LEMMA FlowStep == ASSUME FullInv, Next PROVE FlowInv'
<1> SUFFICES ASSUME InDialogue' PROVE Chain'
  BY DEF FlowInv
<1> USE DEF InDialogue
<1>1. ASSUME InDialogue, Receive, state' = StateAfter(Head(toClient)),
             compressionThreshold' >= 0 <=> FormatAfter(Head(toClient))
      PROVE  Chain'
  BY <1>1, ChainReceive DEF FullInv, IInv, FlowInv
<1>2. ASSUME InDialogue, UNCHANGED <<toClient, state, compressionThreshold, serverThreshold>>,
             ServerTalks' = ServerTalks
      PROVE  Chain'
  BY <1>2, ChainKept DEF FullInv, FlowInv
<1>3. ASSUME InDialogue, Receive
      PROVE  /\ Head(toClient).state = state
             /\ Head(toClient).compressed <=> compressionThreshold >= 0
             /\ Head(toClient) \in Content(toClient)
  BY <1>3, ChainHead, ReceiveEffect DEF FullInv, IInv, FlowInv
<1>4. CASE MainThrows BY <1>4 DEF MainThrows, MainEnds
<1>5. CASE ReceiveUnknown
  <2>1. InDialogue /\ Receive BY <1>5 DEF ReceiveUnknown
  <2>2. Head(toClient).name \notin {"loginSuccess", "setCompression"} BY <1>5 DEF ReceiveUnknown, Known
  <2>3. UNCHANGED <<state, compressionThreshold>> BY <1>5 DEF ReceiveUnknown, clientVars
  <2>4. QED BY <1>1, <1>3, <2>1, <2>2, <2>3 DEF StateAfter, FormatAfter
<1>6. CASE PingResponse BY <1>6 DEF PingResponse
<1>7. CASE ReceiveSetCompression
  <2>1. InDialogue /\ Receive BY <1>7 DEF ReceiveSetCompression
  <2>2. Head(toClient).name = "setCompression" /\ compressionThreshold' = Head(toClient).arg
        /\ UNCHANGED state
    BY <1>7 DEF ReceiveSetCompression
  <2>3. QED BY <1>1, <1>3, <2>1, <2>2 DEF StateAfter, FormatAfter
<1>8. CASE LoggedIn
  <2>1. InDialogue /\ Receive BY <1>8 DEF LoggedIn
  <2>2. Head(toClient).name = "loginSuccess" /\ state' = "Play" /\ UNCHANGED compressionThreshold
    BY <1>8 DEF LoggedIn, StartThread
  <2>3. QED BY <1>1, <1>3, <2>1, <2>2 DEF StateAfter, FormatAfter
<1>9. CASE LoginFails \/ CastToSuccess BY <1>9 DEF LoginFails, CastToSuccess
<1>10. CASE PingSend BY <1>10 DEF PingSend
<1>11. CASE ConnectHandshake
  <2>1. /\ toClient = << >> /\ serverState = "Handshaking" /\ serverThreshold = -1
        /\ compressionThreshold = -1
    BY <1>11 DEF ConnectHandshake, FullInv, EarlyInv, PhaseInv
  <2>2. toClient' = << >> /\ state' = "Login"
        /\ UNCHANGED <<compressionThreshold, serverState, serverThreshold>>
    BY <1>11, <2>1 DEF ConnectHandshake, Send, serverVars
  <2>3. QED BY <2>1, <2>2 DEF Chain, ExpectedState, ExpectedFormat, WrittenState, WrittenFormat,
                              ServerTalks
<1>12. CASE ConnectLoginStart \/ Destroy \/ JoinThread
  <2>1. InDialogue /\ UNCHANGED <<toClient, state, compressionThreshold, serverThreshold, serverState>>
    BY <1>12 DEF ConnectLoginStart, Destroy, JoinThread, Send, clientVars, serverVars, FullInv, IInv,
                 OwnerInv
  <2>2. QED BY <1>2, <2>1 DEF ServerTalks
<1>13. CASE ThreadReceive \/ (ThreadRejects /\ Receive)
  <2>1. InDialogue /\ Receive /\ state = "Play" /\ UNCHANGED <<state, compressionThreshold>>
    BY <1>13 DEF ThreadReceive, ThreadRejects, ThreadGoto, clientVars, FullInv, IInv, OwnerInv, ThreadInside, PhaseInv
  <2>2. Head(toClient).name \notin {"loginSuccess", "setCompression"}
    BY <1>3, <2>1 DEF FullInv, StampInv
  <2>3. QED BY <1>1, <1>3, <2>1, <2>2 DEF StateAfter, FormatAfter
<1>14. CASE \/ ThreadTest \/ ThreadHandled \/ ThreadThrows
            \/ ThreadRejects /\ UNCHANGED <<connVars, serverVars>>
            \/ ThreadSend("handle", "handle") \/ ThreadSend("reply", "loop")
  <2>1. InDialogue /\ UNCHANGED <<toClient, state, compressionThreshold, serverThreshold, serverState>>
    BY <1>14 DEF ThreadTest, ThreadHandled, ThreadThrows, ThreadRejects, ThreadSend, Send, clientVars, connVars,
                 serverVars
  <2>2. QED BY <1>2, <2>1 DEF ServerTalks
<1>15. ASSUME NEW p \in Packets, Writes(p) PROVE Chain'
  <2>1. InDialogue BY <1>15 DEF Writes
  <2>2. serverState' # "Handshaking" BY <1>15 DEF Writes
  <2>3. UNCHANGED <<state, compressionThreshold>> BY <1>15 DEF Writes, clientVars
  <2>4. TypeOK /\ Chain BY <2>1 DEF FullInv, IInv, FlowInv
  <2>5. QED BY <1>15, <2>2, <2>3, <2>4, ChainSend DEF Writes
<1>16. CASE ServerReceive
  <2>1. InDialogue /\ UNCHANGED <<toClient, state, compressionThreshold, serverThreshold>>
    BY <1>16, ServerReceives DEF FullInv, clientVars
  <2>2. ~closed BY <1>16, ServerReceives DEF FullInv
  <2>3. \A q \in Content(toServer) : q.name = "status" => FALSE
    BY <2>1, <2>2 DEF FullInv, SentInv, HelloSent, LoginSent, PlaySent, Content, Hello, Start, Packet
  <2>4. ServerTalks' = ServerTalks
    BY <1>16, <2>3, ServerReceives DEF FullInv, IInv, LoginInv, ServerReads, ServerTalks
  <2>5. QED BY <1>2, <2>1, <2>4
<1>17. CASE ServerClose
  <2>1. InDialogue /\ UNCHANGED <<toClient, state, compressionThreshold, serverThreshold, serverState>>
    BY <1>17 DEF ServerClose, clientVars, serverVars
  <2>2. QED BY <1>2, <2>1 DEF ServerTalks
<1>18. QED
  BY <1>4, <1>5, <1>6, <1>7, <1>8, <1>9, <1>10, <1>11, <1>12, <1>13, <1>14, <1>15, <1>16, <1>17,
     ServerSends DEF Next, Main, MainReceive, ExecNs, ThreadRejects, Server, FullInv

(* Nothing leads from a ping to a login.                                   *)
LEMMA PingStep == ASSUME FullInv, Next PROVE PingInv'
<1> SUFFICES ASSUME pinged' PROVE PingInv'
  BY DEF PingInv, Unanswered, Answered
<1>1. CASE MainReceive
  <2>1. pinged /\ PingInv BY <1>1 DEF MainReceive, MainThrows, MainEnds, ReceiveUnknown, PingResponse,
                ReceiveSetCompression, LoggedIn, StartThread, LoginFails, CastToSuccess, FullInv
  <2>2. CASE MainThrows
    BY <2>1, <2>2 DEF MainThrows, MainEnds, PingInv, Unanswered, Answered, clientVars, serverVars, connVars
  <2>3. CASE PingResponse
    <3>1. /\ toClient \in Seq(Packets) /\ toClient # << >> /\ toClient' = Tail(toClient)
          /\ UNCHANGED <<toServer, closed, serverVars, pinged, miscast>>
          /\ mainPc' \in {"constructed", "ended"} /\ state' \in {"Handshaking", state}
      BY <2>3 DEF PingResponse, Receive, FullInv, IInv, TypeOK
    <3>2. toClient' = << >>
      <4>1. Len(toClient) <= 1 BY <2>1, <3>1 DEF PingInv, Unanswered, Answered
      <4>2. QED BY <3>1, <4>1
    <3>3. Content(toClient') = {} BY <3>2 DEF Content
    <3>4. QED BY <2>1, <3>1, <3>2, <3>3 DEF PingInv, Unanswered, Answered, serverVars
  <2>4. CASE ReceiveUnknown \/ ReceiveSetCompression \/ LoggedIn \/ LoginFails \/ CastToSuccess
    <3>1. Receive BY <2>4 DEF ReceiveUnknown, ReceiveSetCompression, LoggedIn, StartThread, LoginFails, CastToSuccess
    <3>2. toClient # << >> /\ Head(toClient) \in Content(toClient)
      BY <3>1, ReceiveEffect DEF FullInv, IInv
    <3>3. Head(toClient).name = "response" BY <2>1, <3>2 DEF PingInv, Unanswered, Answered
    <3>4. mainPc \notin {"loginWait", "compressedWait"}
      <4>1. Answered BY <2>1, <3>2 DEF PingInv, Unanswered
      <4>2. QED BY <3>2, <4>1 DEF Answered
    <3>5. QED
      BY <2>4, <3>3, <3>4 DEF ReceiveUnknown, Known, ReceiveSetCompression, LoggedIn, StartThread, LoginFails, CastToSuccess
  <2>5. QED BY <1>1, <2>2, <2>3, <2>4 DEF MainReceive
<1>2. CASE PingSend
  <2>1. /\ toServer = << >> /\ toClient = << >> /\ serverState = "Handshaking" /\ ~asked
        /\ serverThreshold = -1
    BY <1>2 DEF PingSend, FullInv, EarlyInv
  <2>2. /\ toServer' = IF closed THEN toServer ELSE toServer \o <<Status, Request>>
        /\ mainPc' = "pingWait" /\ state' = "Status"
        /\ UNCHANGED <<toClient, closed, serverVars>>
    BY <1>2 DEF PingSend, Send, Status, Request
  <2>3. << >> \o <<Status, Request>> = <<Status, Request>> OBVIOUS
  <2>4. Content(toClient) = {} BY <2>1 DEF Content
  <2>5. QED BY <2>1, <2>2, <2>3, <2>4 DEF PingInv, Unanswered, Answered, serverVars
<1>3. CASE ConnectHandshake \/ ConnectLoginStart
  <2>1. \E p \in {Hello, Start} : Send(<<p>>)
    BY <1>3 DEF ConnectHandshake, ConnectLoginStart, Hello, Start
  <2>2. PICK p \in {Hello, Start} : Send(<<p>>) BY <2>1
  <2>3. /\ UNCHANGED <<pinged, miscast, serverVars, toClient, closed>>
        /\ mainPc \in {"constructed", "helloSent"} /\ mainPc' \in {"helloSent", "loginWait"}
        /\ state' # "Play"
    BY <1>3 DEF ConnectHandshake, ConnectLoginStart, Send, PingInv, Unanswered, Answered, FullInv, clientVars
  <2>4. pinged /\ PingInv BY <2>3 DEF FullInv
  <2>5. p \in Packets /\ p.state # "Status"
    <3>1. Hello \in Packets /\ Start \in Packets
      BY DEF Hello, Start, Packet, Packets, PacketNames, States
    <3>2. Hello.state # "Status" /\ Start.state # "Status" BY DEF Hello, Start, Packet
    <3>3. QED BY <3>1, <3>2
  <2>6. /\ closed => toServer' = toServer
        /\ Content(toServer') \subseteq Content(toServer) \cup {p}
    <3>1. <<p>> \in Seq(Packets) /\ Content(<<p>>) = {p} BY <2>5 DEF Content
    <3>2. QED BY <2>2, <3>1, SendEffect DEF Send, FullInv, IInv
  <2>7. QED BY <2>3, <2>4, <2>5, <2>6 DEF PingInv, Unanswered, Answered, serverVars
<1>4. CASE Destroy \/ JoinThread
  BY <1>4 DEF Destroy, JoinThread, PingInv, Unanswered, Answered, FullInv, IInv, OwnerInv, clientVars, serverVars
<1>5. CASE ExecNs
  <2>1. pinged /\ state # "Play" /\ threadPc = "none"
    BY <1>5 DEF ExecNs, ThreadTest, ThreadHandled, ThreadReceive, ThreadThrows, ThreadRejects, ThreadSend,
                FullInv, PingInv, Unanswered, Answered, IInv, TypeOK
  <2>2. QED
    BY <1>5, <2>1 DEF ExecNs, ThreadTest, ThreadHandled, ThreadReceive, ThreadThrows, ThreadRejects, ThreadSend,
                      ThreadGoto
<1>6. ASSUME NEW p \in Packets, Writes(p) PROVE PingInv'
  <2>1. pinged /\ PingInv BY <1>6 DEF Writes, FullInv
  <2>2. serverState = "Status" /\ p.name = "response" /\ asked /\ ~asked' BY <1>6, <2>1 DEF Writes, PingInv, Unanswered, Answered
  <2>3. toClient = << >> /\ toServer = << >> /\ mainPc \in {"pingWait", "ended"}
    BY <1>6, <2>1, <2>2 DEF Writes, PingInv, Unanswered, Answered
  <2>4. toClient' = <<p>> /\ Content(toClient') \subseteq {p} /\ Len(toClient') = 1
    BY <1>6, <2>3 DEF Writes, Content
  <2>5. p.state = "Status" /\ ~p.compressed /\ serverState' = "Status" /\ UNCHANGED serverThreshold
    BY <1>6, <2>1, <2>2 DEF Writes, StateAfter, PingInv, Unanswered, Answered
  <2>6. Content(toServer) = {} BY <2>3 DEF Content
  <2>7. UNCHANGED <<mainPc, pinged, miscast, state, toServer, closed>> BY <1>6 DEF Writes, clientVars
  <2>8. QED BY <2>1, <2>2, <2>3, <2>4, <2>5, <2>6, <2>7 DEF PingInv, Unanswered, Answered
<1>7. CASE ServerReceive
  <2>1. UNCHANGED <<mainPc, pinged, miscast, state, toClient, serverThreshold>>
    BY <1>7, ServerReceives DEF FullInv, clientVars
  <2>2. pinged /\ PingInv /\ ~closed /\ toServer # << >> /\ toServer' = Tail(toServer)
    BY <1>7, <2>1, ServerReceives DEF FullInv
  <2>3. CASE serverState = "Handshaking"
    <3>1. toServer = <<Status, Request>> /\ ~asked /\ toClient = << >>
          /\ mainPc \in {"pingWait", "ended"}
      BY <2>2, <2>3 DEF PingInv, Unanswered, Answered
    <3>2. Head(toServer) = Status /\ toServer' = <<Request>> BY <2>2, <3>1
    <3>3. ServerReads(Status) BY <2>2, <2>3 DEF ServerReads, Status, Packet, PingInv, Unanswered, Answered
    <3>4. serverState' = "Status" /\ ~asked'
      BY <1>7, <3>1, <3>2, <3>3, ServerReceives DEF FullInv, Status, Packet
    <3>5. QED BY <2>1, <2>2, <3>1, <3>2, <3>4 DEF PingInv, Unanswered, Answered
  <2>4. CASE serverState = "Status" /\ toServer = <<Request>> /\ toClient = << >>
             /\ mainPc \in {"pingWait", "ended"}
    <3>1. Head(toServer) = Request /\ toServer' = << >> BY <2>2, <2>4
    <3>2. ServerReads(Request) BY <2>2, <2>4 DEF ServerReads, Request, Packet, PingInv, Unanswered, Answered
    <3>3. serverState' = "Status" /\ asked'
      BY <1>7, <2>4, <3>1, <3>2, ServerReceives DEF FullInv, Request, Packet
    <3>4. QED BY <2>1, <2>2, <2>4, <3>1, <3>3 DEF PingInv, Unanswered, Answered
  <2>5. CASE serverState = "Status" /\ ~asked /\ \A q \in Content(toServer) : q.state # "Status"
    <3>1. ~ServerReads(Head(toServer)) BY <1>7, <2>5, ServerReceives DEF FullInv, ServerReads
    <3>2. closed' /\ UNCHANGED <<serverState, asked>> /\ Content(toServer') \subseteq Content(toServer)
      BY <1>7, <3>1, ServerReceives DEF FullInv
    <3>3. QED BY <2>1, <2>2, <2>5, <3>2 DEF PingInv, Unanswered, Answered
  <2>6. QED BY <2>2, <2>3, <2>4, <2>5 DEF PingInv, Unanswered, Answered
<1>8. CASE ServerClose
  BY <1>8 DEF ServerClose, PingInv, Unanswered, Answered, FullInv, clientVars, serverVars
<1>9. QED
  BY <1>1, <1>2, <1>3, <1>4, <1>5, <1>6, <1>7, <1>8, ServerSends
     DEF Next, Main, Server, FullInv

(* Before it is spoken to, the server says nothing.                        *)
LEMMA EarlyStep == ASSUME FullInv, Next PROVE EarlyInv'
<1> USE DEF FullInv, EarlyInv
<1>1. CASE Main
  <2>1. UNCHANGED serverVars BY <1>1, ClientStep DEF IInv
  <2>2. CASE MainReceive
    BY <2>1, <2>2 DEF MainReceive, MainThrows, MainEnds, ReceiveUnknown, PingResponse,
                      ReceiveSetCompression, LoggedIn, StartThread, LoginFails, CastToSuccess, Receive, clientVars, connVars, serverVars
  <2>3. CASE PingSend \/ ConnectHandshake \/ ConnectLoginStart
    BY <2>1, <2>3 DEF PingSend, ConnectHandshake, ConnectLoginStart, clientVars, serverVars
  <2>4. CASE Destroy BY <2>4 DEF Destroy, serverVars
  <2>5. CASE JoinThread BY <2>5 DEF JoinThread, serverVars
  <2>6. QED BY <1>1, <2>2, <2>3, <2>4, <2>5 DEF Main
<1>2. CASE ExecNs
  <2>1. threadPc # "none" /\ UNCHANGED <<mainPc, pinged, miscast, closed>>
    BY <1>2 DEF ExecNs, ThreadTest, ThreadHandled, ThreadReceive, ThreadThrows, ThreadRejects, ThreadSend, ThreadGoto,
                Receive, Send, connVars
  <2>2. mainPc # "constructed" /\ UNCHANGED serverVars BY <1>2, <2>1, ClientStep DEF IInv, OwnerInv
  <2>3. QED BY <2>1, <2>2 DEF serverVars
<1>3. ASSUME NEW p \in Packets, Writes(p) PROVE EarlyInv'
  BY <1>3 DEF Writes
<1>4. CASE ServerReceive
  <2>1. /\ toServer # << >> /\ ~closed /\ UNCHANGED <<mainPc, pinged, miscast, serverThreshold>>
        /\ serverState' = "Handshaking" => serverState = "Handshaking"
    BY <1>4, ServerReceives
  <2>2. mainPc # "destroyed" /\ (~pinged => mainPc # "constructed") BY <2>1
  <2>3. QED BY <2>1, <2>2
<1>5. CASE ServerClose BY <1>5 DEF ServerClose, serverVars
<1>6. QED BY <1>1, <1>2, <1>3, <1>4, <1>5, ServerSends DEF Next, Server

(* What is under way to the server is what the owner has sent so far.      *)
LEMMA SentStep == ASSUME FullInv, Next PROVE SentInv'
<1> SUFFICES ASSUME ~pinged', ~miscast', ~closed' PROVE SentInv'
  BY DEF SentInv
<1> USE DEF FullInv, SentInv
<1>1. CASE MainReceive
  <2>1. CASE MainThrows BY <2>1 DEF MainThrows, MainEnds, connVars
  <2>2. CASE PingResponse BY <2>2 DEF PingResponse, EarlyInv
  <2>3. CASE ReceiveUnknown \/ ReceiveSetCompression \/ LoginFails \/ CastToSuccess
    <3>1. /\ UNCHANGED <<pinged, miscast, closed, toServer, serverVars>>
          /\ mainPc \in {"loginWait", "compressedWait"}
          /\ mainPc' \in {"loginWait", "compressedWait", "ended"}
      BY <2>3 DEF ReceiveUnknown, ReceiveSetCompression, LoginFails, CastToSuccess, Receive, EarlyInv
    <3>2. QED BY <3>1 DEF LoginSent, serverVars
  <2>4. CASE LoggedIn
    <3>1. Receive /\ Head(toClient) \in Content(toClient)
      BY <2>4, ReceiveEffect DEF LoggedIn, IInv
    <3>2. serverState = "Play" BY <2>4, <3>1 DEF LoggedIn, IInv, LoginInv
    <3>3. UNCHANGED <<pinged, miscast, closed, toServer, serverVars>> /\ mainPc' = "running"
          /\ mainPc \in {"loginWait", "compressedWait"}
      BY <2>4, <3>1 DEF LoggedIn, StartThread, Receive
    <3>4. toServer' = << >> BY <3>2, <3>3 DEF LoginSent
    <3>5. QED BY <3>2, <3>3, <3>4 DEF PlaySent, Content, serverVars
  <2>5. QED BY <1>1, <2>1, <2>2, <2>3, <2>4 DEF MainReceive
<1>2. CASE PingSend BY <1>2 DEF PingSend
<1>3. CASE ConnectHandshake
  <2>1. /\ toServer = << >> /\ serverState = "Handshaking" /\ ~asked /\ serverThreshold = -1
    BY <1>3 DEF ConnectHandshake, EarlyInv
  <2>2. toServer' = << >> \o <<Hello>> /\ mainPc' = "helloSent" /\ UNCHANGED serverVars
    BY <1>3, <2>1 DEF ConnectHandshake, Send, Hello
  <2>3. toServer' = <<Hello>> BY <2>2
  <2>4. QED BY <2>1, <2>2, <2>3 DEF HelloSent, serverVars
<1>4. CASE ConnectLoginStart
  <2>1. HelloSent BY <1>4 DEF ConnectLoginStart, Send
  <2>2. toServer' = toServer \o <<Start>> /\ mainPc' = "loginWait" /\ UNCHANGED serverVars
    BY <1>4 DEF ConnectLoginStart, Send, Start
  <2>3. <<Hello>> \o <<Start>> = <<Hello, Start>> /\ << >> \o <<Start>> = <<Start>>
    BY OneAndOne
  <2>4. QED BY <2>1, <2>2, <2>3 DEF HelloSent, LoginSent, serverVars
<1>5. CASE Destroy BY <1>5 DEF Destroy, IInv, OwnerInv, PlaySent, serverVars
<1>6. CASE JoinThread BY <1>6 DEF JoinThread
<1>7. CASE ThreadTest \/ ThreadHandled \/ ThreadReceive \/ ThreadThrows \/ ThreadRejects
  <2>1. UNCHANGED <<mainPc, pinged, miscast, closed, toServer, serverVars>>
    BY <1>7 DEF ThreadTest, ThreadHandled, ThreadReceive, ThreadThrows, ThreadRejects, Receive, connVars
  <2>2. QED BY <2>1 DEF HelloSent, LoginSent, PlaySent, serverVars
<1>8. CASE ThreadSend("handle", "handle") \/ ThreadSend("reply", "loop")
  <2> DEFINE p == Packet("play", state, compressionThreshold, 0)
  <2>1. /\ Send(<<p>>) /\ UNCHANGED <<mainPc, pinged, miscast, serverVars, closed>>
        /\ threadPc \in {"handle", "reply"}
    BY <1>8 DEF ThreadSend, ThreadGoto, Send
  <2>2. ~pinged /\ ~miscast /\ ~closed /\ mainPc \in {"running", "joining"} /\ state = "Play"
    BY <2>1 DEF IInv, OwnerInv, ThreadInside, PhaseInv
  <2>3. PlaySent /\ Chain BY <2>2 DEF FlowInv, InDialogue
  <2>4. compressionThreshold >= 0 <=> serverThreshold >= 0
    <3>1. CASE toClient = << >>
      <4>1. Len(toClient) = 0 /\ 1 \in 1 .. Len(toClient) + 1 BY <3>1
      <4>2. QED BY <2>3, <4>1 DEF Chain, ExpectedFormat, WrittenFormat
    <3>2. CASE toClient # << >>
      <4>1. /\ Head(toClient).state = "Play" /\ Head(toClient) \in Content(toClient)
            /\ Head(toClient).compressed <=> compressionThreshold >= 0
        BY <2>2, <2>3, <3>2, ChainHead, HeadIn DEF IInv, TypeOK
      <4>2. QED BY <4>1 DEF StampInv
    <3>3. QED BY <3>1, <3>2
  <2>5. /\ p \in Packets /\ p.name = "play" /\ p.state = "Play"
        /\ p.compressed <=> serverThreshold >= 0
    <3>1. p \in Packets BY <2>2 DEF Packet, Packets, PacketNames, States
    <3>2. p.name = "play" /\ p.state = "Play" BY <2>2 DEF Packet
    <3>3. p.compressed <=> compressionThreshold >= 0 BY DEF Packet
    <3>4. QED BY <2>4, <3>1, <3>2, <3>3
  <2> HIDE DEF p
  <2>6. Content(toServer') \subseteq Content(toServer) \cup {p}
    <3>1. <<p>> \in Seq(Packets) /\ Content(<<p>>) = {p} BY <2>5 DEF Content
    <3>2. QED BY <2>1, <3>1, SendEffect DEF IInv
  <2>7. QED BY <2>1, <2>2, <2>3, <2>5, <2>6 DEF PlaySent, serverVars
<1>9. ASSUME NEW p \in Packets, Writes(p) PROVE SentInv'
  <2>1. ~pinged /\ ~miscast /\ ~closed /\ UNCHANGED <<mainPc, toServer>> BY <1>9 DEF Writes
  <2>2. ASSUME HelloSent PROVE HelloSent' BY <1>9, <2>2 DEF HelloSent, Writes, StateAfter
  <2>3. ASSUME LoginSent PROVE LoginSent' BY <1>9, <2>3 DEF LoginSent, Writes, StateAfter
  <2>4. ASSUME PlaySent PROVE PlaySent' BY <1>9, <2>4 DEF PlaySent, Writes, StateAfter
  <2>5. QED BY <2>1, <2>2, <2>3, <2>4
<1>10. CASE ServerReceive
  <2> DEFINE p == Head(toServer)
  <2>1. /\ ~pinged /\ ~miscast /\ ~closed /\ UNCHANGED <<mainPc, serverThreshold>>
        /\ toServer # << >> /\ toServer' = Tail(toServer) /\ p \in Content(toServer)
        /\ Content(toServer') \subseteq Content(toServer)
        /\ ServerReads(p)
        /\ serverState' = CASE p.name = "status" -> "Status" [] p.name = "login" -> "Login"
                            [] OTHER -> serverState
        /\ asked' <=> p.name \in {"request", "loginStart"} \/ asked
    BY <1>10, ServerReceives DEF IInv
  <2>2. ASSUME HelloSent PROVE HelloSent'
    <3>1. toServer = <<Hello>> BY <2>1, <2>2 DEF HelloSent
    <3>2. p = Hello /\ toServer' = << >> BY <2>1, <3>1
    <3>3. QED BY <2>1, <2>2, <3>2 DEF HelloSent, Hello, Packet
  <2>3. ASSUME LoginSent PROVE LoginSent'
    <3>1. CASE serverState = "Handshaking" /\ toServer = <<Hello, Start>> /\ ~asked
      <4>1. p = Hello /\ toServer' = <<Start>> BY <2>1, <3>1
      <4>2. QED BY <2>1, <3>1, <4>1 DEF LoginSent, Hello, Packet, EarlyInv
    <3>2. CASE serverState = "Login" /\ toServer = <<Start>>
      <4>1. p = Start /\ toServer' = << >> BY <2>1, <3>2
      <4>2. QED BY <2>1, <3>2, <4>1 DEF LoginSent, Start, Packet
    <3>3. QED BY <2>1, <2>3, <3>1, <3>2 DEF LoginSent
  <2>4. ASSUME PlaySent PROVE PlaySent' BY <2>1, <2>4 DEF PlaySent
  <2>5. QED BY <2>1, <2>2, <2>3, <2>4
<1>11. CASE ServerClose BY <1>11 DEF ServerClose
<1>12. QED
  BY <1>1, <1>2, <1>3, <1>4, <1>5, <1>6, <1>7, <1>8, <1>9, <1>10, <1>11, ServerSends
     DEF Next, Main, ExecNs, Server

(* The invariant holds at the start, and every step keeps it.              *)
LEMMA FullInit == Init => FullInv
<1> SUFFICES ASSUME Init PROVE FullInv
  OBVIOUS
<1>1. IInv BY InitInv
<1>2. Content(toClient) = {} BY DEF Init, Content
<1>3. PhaseInv /\ EarlyInv /\ ~pinged /\ ~miscast /\ mainPc = "constructed" BY DEF Init, PhaseInv, EarlyInv
<1>4. QED BY <1>1, <1>2, <1>3 DEF FullInv, StampInv, FlowInv, InDialogue, SentInv, PingInv

(* The invariant is inductive.                                             *)
LEMMA FullStep == FullInv /\ [Next]_vars => FullInv'
<1> SUFFICES ASSUME FullInv, [Next]_vars PROVE FullInv'
  OBVIOUS
<1>1. IInv' BY NextInv DEF FullInv
<1>2. CASE Next
  BY <1>1, <1>2, PhaseStep, StampStep, FlowStep, EarlyStep, SentStep, PingStep DEF FullInv
<1>3. CASE UNCHANGED vars
  <2>1. UNCHANGED <<mainPc, pinged, miscast, state, compressionThreshold, isRunning, threadPc, toServer,
                    toClient, closed, serverState, serverThreshold, asked, accepted>>
    BY <1>3 DEF vars, clientVars, connVars, serverVars
  <2>2. PhaseInv' /\ EarlyInv' BY <2>1 DEF FullInv, PhaseInv, EarlyInv
  <2>3. StampInv' BY <2>1 DEF FullInv, StampInv
  <2>4. SentInv' BY <2>1 DEF FullInv, SentInv, HelloSent, LoginSent, PlaySent
  <2>5. PingInv' BY <2>1 DEF FullInv, PingInv, Unanswered, Answered
  <2>6. FlowInv'
    <3>1. ServerTalks' = ServerTalks BY <2>1 DEF ServerTalks
    <3>2. InDialogue' => Chain BY <2>1 DEF FullInv, FlowInv, InDialogue
    <3>3. QED BY <2>1, <3>1, <3>2, ChainKept DEF FlowInv
  <2>7. QED BY <1>1, <2>2, <2>3, <2>4, <2>5, <2>6 DEF FullInv
<1>4. QED BY <1>2, <1>3

(* The parts hold in every state of every behaviour.                       *)
THEOREM FlowInvariant == Spec => []FullInv
<1>1. Init => FullInv BY FullInit
<1>2. FullInv /\ [Next]_vars => FullInv' BY FullStep
<1>3. QED BY <1>1, <1>2, PTL DEF Spec

-----------------------------------------------------------------------------
(* Whenever the client waits for a packet, the next one was written in the *)
(* state and in the format the call of ReceivePacket asks for, through the *)
(* change of the format and the change of the reader in the login          *)
(* (networkclient.cpp:54-66, 78-80, 121).                                  *)
THEOREM ClientReadsAsWritten == Spec => []ReadAsWritten
<1>1. ASSUME FullInv, ~miscast, Reading, toClient # << >>
      PROVE  ReadsAs = <<Head(toClient).state, Head(toClient).compressed>>
  <2> DEFINE p == Head(toClient)
  <2>1. p \in Content(toClient) /\ p.compressed \in BOOLEAN
    <3>1. p \in Content(toClient) /\ p \in Packets BY <1>1, HeadIn DEF FullInv, IInv, TypeOK
    <3> HIDE DEF p
    <3>2. QED BY <3>1 DEF Packets
  <2>2. CASE pinged
    <3>1. p.state = "Status" /\ ~p.compressed BY <1>1, <2>1, <2>2 DEF FullInv, PingInv
    <3>2. mainPc = "pingWait"
      BY <1>1, <2>2 DEF Reading, FullInv, PingInv, Unanswered, Answered, IInv, TypeOK
    <3>3. p.compressed = FALSE BY <2>1, <3>1
    <3>4. QED BY <3>1, <3>2, <3>3 DEF ReadsAs
  <2>3. CASE ~pinged
    <3>1. InDialogue /\ mainPc # "pingWait"
      BY <1>1, <2>3 DEF Reading, InDialogue, FullInv, EarlyInv, IInv, OwnerInv, ThreadInside
    <3>2. p.state = state /\ (p.compressed <=> compressionThreshold >= 0)
      BY <1>1, <3>1, ChainHead DEF FullInv, IInv, FlowInv
    <3>3. p.compressed = (compressionThreshold >= 0) BY <2>1, <3>2
    <3>4. CASE mainPc = "loginWait"
      <4>1. compressionThreshold = -1 /\ state = "Login" BY <1>1, <3>4 DEF FullInv, PhaseInv
      <4>2. ~(compressionThreshold >= 0) BY <4>1
      <4>3. p.compressed = FALSE BY <2>1, <3>2, <4>2
      <4>4. QED BY <3>2, <3>4, <4>1, <4>3 DEF ReadsAs
    <3>5. CASE mainPc = "compressedWait"
      <4>1. state = "Login" BY <1>1, <3>5 DEF FullInv, PhaseInv
      <4>2. QED BY <3>2, <3>3, <3>5, <4>1 DEF ReadsAs
    <3>6. CASE mainPc \notin {"loginWait", "compressedWait"}
      BY <3>1, <3>2, <3>3, <3>6 DEF ReadsAs
    <3>7. QED BY <3>4, <3>5, <3>6
  <2>4. QED BY <2>2, <2>3
<1>2. FullInv => ReadAsWritten BY <1>1 DEF ReadAsWritten
<1>3. QED BY <1>2, FlowInvariant, PTL

(* The server can read every packet of a client that did not ping it       *)
(* (networkclient.cpp:38-51, 96-99, 129).                                  *)
THEOREM ServerReadsAsWritten == Spec => []ServerUnderstands
<1>1. ASSUME FullInv, ~pinged, ~miscast, ~closed, toServer # << >>
      PROVE  ServerReads(Head(toServer))
  <2>1. Head(toServer) \in Content(toServer) BY <1>1, HeadIn DEF FullInv, IInv, TypeOK
  <2>2. mainPc \notin {"constructed", "pingWait", "destroyed"} BY <1>1 DEF FullInv, EarlyInv
  <2>3. CASE mainPc = "helloSent"
    <3>1. toServer = <<Hello>> /\ serverState = "Handshaking" /\ serverThreshold = -1
      BY <1>1, <2>3 DEF FullInv, SentInv, HelloSent
    <3>2. Head(toServer) = Hello BY <3>1
    <3>3. QED BY <3>1, <3>2 DEF ServerReads, Hello, Packet
  <2>4. CASE mainPc \in {"loginWait", "compressedWait", "ended"}
    <3>1. LoginSent BY <1>1, <2>4 DEF FullInv, SentInv
    <3>2. CASE serverState = "Handshaking" /\ toServer = <<Hello, Start>>
      <4>1. Head(toServer) = Hello /\ serverThreshold = -1 BY <1>1, <3>2 DEF FullInv, EarlyInv
      <4>2. QED BY <3>2, <4>1 DEF ServerReads, Hello, Packet
    <3>3. CASE serverState = "Login" /\ toServer = <<Start>> /\ serverThreshold = -1
      <4>1. Head(toServer) = Start BY <3>3
      <4>2. QED BY <3>3, <4>1 DEF ServerReads, Start, Packet
    <3>4. QED BY <1>1, <3>1, <3>2, <3>3 DEF LoginSent
  <2>5. CASE mainPc \in {"running", "joining"}
    <3>1. /\ Head(toServer).state = serverState
          /\ Head(toServer).compressed <=> serverThreshold >= 0
      BY <1>1, <2>1, <2>5 DEF FullInv, SentInv, PlaySent
    <3>2. Head(toServer).compressed \in BOOLEAN
      <4>1. Head(toServer) \in Packets BY <1>1, HeadIn DEF FullInv, IInv, TypeOK
      <4>2. QED BY <4>1 DEF Packets
    <3>3. QED BY <3>1, <3>2 DEF ServerReads
  <2>6. QED BY <1>1, <2>2, <2>3, <2>4, <2>5 DEF FullInv, IInv, TypeOK
<1>2. FullInv => ServerUnderstands BY <1>1 DEF ServerUnderstands
<1>3. QED BY <1>2, FlowInvariant, PTL

(* A client that pinged can never log in on the same connection            *)
(* (networkclient.cpp:36, 38-46).                                          *)
THEOREM PingExcludesLogin == Spec => []PingSpoilsConnect
<1>1. FullInv => PingSpoilsConnect BY DEF FullInv, PingInv, Unanswered, Answered, PingSpoilsConnect
<1>2. QED BY <1>1, FlowInvariant, PTL
=============================================================================
