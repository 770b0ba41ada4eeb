------------------------------ MODULE Session ------------------------------
(***************************************************************************)
(* The life of a NetworkClient (src/src/networkclient.cpp), seen from the  *)
(* thread that owns it: ServerListPing, Connect with its login dialogue,   *)
(* the network thread it starts, and the destructor that joins it.  At the *)
(* other end is a server that speaks protocol 578.                         *)
(*                                                                         *)
(* A packet is written in a connection state and in a format (with or      *)
(* without the extra length of the compressed protocol), and means         *)
(* something only to a reader in the same state that expects that format.  *)
(* The network thread is the loop of ExecNs as far as it touches the       *)
(* connection and isRunning; Client has its events.                        *)
(***************************************************************************)
EXTENDS Integers, Sequences

CONSTANTS Thresholds,   \* what the server may send in SetCompression
          Capacity      \* bound on the packets under way in one direction

ASSUME SessionAssumption == Thresholds \subseteq Int /\ Capacity \in Nat \ {0, 1}

VARIABLES mainPc,                     \* where the owner is
    pinged, miscast,                  \* history: it pinged, it took another packet
                                      \* for the LoginSuccess
          state, compressionThreshold, isRunning,       \* NetworkClient's members
          threadPc,                   \* where the network thread is
          toServer, toClient, closed, \* the connection
          serverState, serverThreshold, asked, accepted \* the server

clientVars == <<state, compressionThreshold, isRunning>>
serverVars == <<serverState, serverThreshold, asked, accepted>>
connVars == <<toServer, toClient, closed>>
vars == <<mainPc, pinged, miscast, clientVars, threadPc, connVars, serverVars>>

Packet(name, st, threshold, arg) ==
    [name |-> name, state |-> st, compressed |-> threshold >= 0, arg |-> arg]

Init == /\ mainPc = "constructed" /\ pinged = FALSE /\ miscast = FALSE
        /\ state = "Handshaking" /\ compressionThreshold = -1 /\ isRunning = FALSE
        /\ threadPc = "none"
        /\ toServer = << >> /\ toClient = << >> /\ closed = FALSE
        /\ serverState = "Handshaking" /\ serverThreshold = -1
        /\ asked = FALSE /\ accepted = FALSE

-----------------------------------------------------------------------------
(* Network::SendPacket: on a closed connection the bytes are lost or the   *)
(* write throws; the handshakes are sent before the threshold is known.    *)
Send(ps) == /\ Len(toServer) + Len(ps) <= Capacity
            /\ toServer' = IF closed THEN toServer ELSE toServer \o ps
            /\ UNCHANGED <<toClient, closed>>

\* An exception that leaves ServerListPing or Connect ends the program:
\* main does not catch it.
MainEnds == /\ mainPc' = "ended"
            /\ UNCHANGED <<pinged, miscast, clientVars, threadPc, connVars, serverVars>>

\* A plausible bug: the loop that waits for the login catches the exception
\* and goes on.
MainThrowsPing == mainPc = "pingWait" /\ closed /\ toClient = << >> /\ MainEnds

MainThrows == /\ mainPc \in {"pingWait", "helloSent", "loginWait", "compressedWait"}
              /\ closed
              /\ mainPc # "helloSent" => toClient = << >>
              /\ MainEnds

(* ServerListPing: the handshake and the request, then the response.       *)
PingSend == /\ mainPc = "constructed" /\ ~pinged
            /\ Send(<<Packet("status", "Handshaking", -1, 0), Packet("request", "Status", -1, 0)>>)
            /\ mainPc' = "pingWait"
            /\ pinged' = TRUE
            /\ state' = "Status"
            /\ UNCHANGED <<miscast, compressionThreshold, isRunning, threadPc, serverVars>>

\* Connect: the handshake and the login start.
ConnectHandshake == /\ mainPc = "constructed"
                    /\ Send(<<Packet("login", "Handshaking", -1, 0)>>)
                    /\ mainPc' = "helloSent"
                    /\ state' = "Login"
                    /\ UNCHANGED <<pinged, miscast, compressionThreshold, isRunning, threadPc, serverVars>>

ConnectLoginStart == /\ mainPc = "helloSent"
                     /\ Send(<<Packet("loginStart", "Login", -1, 0)>>)
                     /\ mainPc' = "loginWait"
                     /\ UNCHANGED <<pinged, miscast, clientVars, threadPc, serverVars>>

\* A plausible bug: the second call of ReceivePacket without its second argument.
ReadsAsPlain == CASE mainPc = "pingWait" -> <<"Status", FALSE>>
                  [] mainPc \in {"loginWait", "compressedWait"} -> <<"Login", FALSE>>
                  [] OTHER -> <<state, compressionThreshold >= 0>>

\* The arguments the callers give ReceivePacket: a state and a format.
ReadsAs == CASE mainPc = "pingWait" -> <<"Status", FALSE>>
             [] mainPc = "loginWait" -> <<"Login", FALSE>>
             [] mainPc = "compressedWait" -> <<"Login", compressionThreshold >= 0>>
             [] OTHER -> <<state, compressionThreshold >= 0>>

\* The packets ReceivePacketByPacketId has a class for; any other is null.
Known(p) == p.name \in {"response", "setCompression", "loginSuccess", "disconnect", "keepAlive"}

Receive == /\ toClient # << >>
           /\ toClient' = Tail(toClient)
           /\ UNCHANGED <<toServer, closed, serverVars>>

\* The loops while (!packet).
ReceiveUnknown == /\ mainPc \in {"pingWait", "loginWait", "compressedWait"}
                  /\ Receive
                  /\ ~Known(Head(toClient))
                  /\ UNCHANGED <<mainPc, pinged, miscast, clientVars, threadPc>>

\* A plausible bug: the ping ends on a connection of its own.
PingResponseReconnects ==
    /\ mainPc = "pingWait"
    /\ toClient # << >> /\ Known(Head(toClient))
    /\ toClient' = << >> /\ toServer' = << >> /\ closed' = FALSE
    /\ serverState' = "Handshaking"
    /\ mainPc' = "constructed"
    /\ state' = "Handshaking"
    /\ UNCHANGED <<pinged, miscast, compressionThreshold, isRunning, threadPc, serverThreshold, asked,
                   accepted>>

\* PacketStatusResponse reads the length of the JSON text twice, so a short
\* text is out of data.
PingResponse == /\ mainPc = "pingWait"
                /\ Receive
                /\ Known(Head(toClient))
                /\ \/ mainPc' = "constructed" /\ state' = "Handshaking"
                   \/ mainPc' = "ended" /\ UNCHANGED state
                /\ UNCHANGED <<pinged, miscast, compressionThreshold, isRunning, threadPc>>

ReceiveSetCompression == /\ mainPc = "loginWait"
                         /\ Receive
                         /\ Head(toClient).name = "setCompression"
                         /\ compressionThreshold' = Head(toClient).arg
                         /\ mainPc' = "compressedWait"
                         /\ UNCHANGED <<pinged, miscast, state, isRunning, threadPc>>

\* The end of Connect.
StartThread == /\ state' = "Play"
               /\ isRunning' = TRUE
               /\ threadPc' = "loop"
               /\ mainPc' = "running"

\* A plausible bug: any LoginSuccess will do.
LoggedInUnchecked == /\ mainPc \in {"loginWait", "compressedWait"}
                     /\ Receive
                     /\ Head(toClient).name = "loginSuccess"
                     /\ StartThread
                     /\ UNCHANGED <<pinged, miscast, compressionThreshold>>

\* A plausible bug: the thread is started in the state of the login.
LoggedInEarly == /\ mainPc \in {"loginWait", "compressedWait"}
                 /\ Receive
                 /\ Head(toClient).name = "loginSuccess" /\ Head(toClient).arg = 1
                 /\ isRunning' = TRUE
                 /\ threadPc' = "loop"
                 /\ mainPc' = "running"
                 /\ UNCHANGED <<pinged, miscast, state, compressionThreshold>>

\* LoginSuccess with the name that was sent: the network thread starts.
LoggedIn == /\ mainPc \in {"loginWait", "compressedWait"}
            /\ Receive
            /\ Head(toClient).name = "loginSuccess" /\ Head(toClient).arg = 1
            /\ StartThread
            /\ UNCHANGED <<pinged, miscast, compressionThreshold>>

\* Another name throws.
LoginFails == /\ mainPc \in {"loginWait", "compressedWait"}
              /\ Receive
              /\ Head(toClient).name = "loginSuccess" /\ Head(toClient).arg # 1
              /\ mainPc' = "ended"
              /\ UNCHANGED <<pinged, miscast, clientVars, threadPc>>

\* A Disconnect, or a second SetCompression, is cast to PacketLoginSuccess
\* and the name is read from the memory behind it: undefined behaviour.  The
\* program ends, by an exception or a fault, or what it reads compares equal
\* and it goes on as if it were logged in.
CastToSuccess == /\ mainPc \in {"loginWait", "compressedWait"}
                 /\ Receive
                 /\ \/ Head(toClient).name = "disconnect"
                    \/ Head(toClient).name = "setCompression" /\ mainPc = "compressedWait"
                 /\ \/ mainPc' = "ended" /\ UNCHANGED <<miscast, state, isRunning, threadPc>>
                    \/ StartThread /\ miscast' = TRUE
                 /\ UNCHANGED <<pinged, compressionThreshold>>

-----------------------------------------------------------------------------
(* ~NetworkClient: the thread is joined only when it was started; then the *)
(* members go, and with them the connection.                               *)
\* A plausible bug: the flag is left set.
DestroyKeepsRunning == /\ mainPc \in {"constructed", "running"}
                       /\ mainPc' = IF isRunning THEN "joining" ELSE "destroyed"
                       /\ closed' = (closed \/ ~isRunning)
                       /\ UNCHANGED <<pinged, miscast, clientVars, threadPc, toServer, toClient, serverVars>>

Destroy == /\ mainPc \in {"constructed", "running"}
           /\ mainPc' = IF isRunning THEN "joining" ELSE "destroyed"
           /\ isRunning' = FALSE
           /\ closed' = (closed \/ ~isRunning)
           /\ UNCHANGED <<pinged, miscast, state, compressionThreshold, threadPc, toServer, toClient,
                          serverVars>>

\* A plausible bug: the thread is detached, not joined.
DetachThread == /\ mainPc = "joining"
                /\ mainPc' = "destroyed"
                /\ closed' = TRUE
                /\ UNCHANGED <<pinged, miscast, clientVars, threadPc, toServer, toClient, serverVars>>

JoinThread == /\ mainPc = "joining"
              /\ threadPc = "ended"
              /\ mainPc' = "destroyed"
              /\ closed' = TRUE
              /\ UNCHANGED <<pinged, miscast, clientVars, threadPc, toServer, toClient, serverVars>>

-----------------------------------------------------------------------------
(* ExecNs: test isRunning, send what the events ask for, block in          *)
(* ReceivePacket, answer a keep-alive; an exception ends the loop.         *)
ThreadGoto(from, to) == threadPc = from /\ threadPc' = to

ThreadTest == /\ ThreadGoto("loop", IF isRunning THEN "handle" ELSE "ended")
              /\ UNCHANGED <<mainPc, pinged, miscast, clientVars, connVars, serverVars>>

\* A plausible bug: SendPacket with its default threshold.
ThreadSendPlain(from, to) ==
    /\ ThreadGoto(from, to)
    /\ Send(<<Packet("play", state, -1, 0)>>)
    /\ UNCHANGED <<mainPc, pinged, miscast, clientVars, serverVars>>

ThreadSend(from, to) ==
    /\ ThreadGoto(from, to)
    /\ Send(<<Packet("play", state, compressionThreshold, 0)>>)
    /\ UNCHANGED <<mainPc, pinged, miscast, clientVars, serverVars>>

ThreadHandled == /\ ThreadGoto("handle", "receive")
                 /\ UNCHANGED <<mainPc, pinged, miscast, clientVars, connVars, serverVars>>

ThreadReceive == /\ Receive
                 /\ ThreadGoto("receive", IF Known(Head(toClient)) THEN "reply" ELSE "loop")
                 /\ UNCHANGED <<mainPc, pinged, miscast, clientVars>>

\* The connection is closed: the write fails, or the read when nothing is left.
ThreadThrows == /\ threadPc \in {"handle", "receive", "reply"}
                /\ closed
                /\ threadPc = "receive" => toClient = << >>
                /\ threadPc' = "ended"
                /\ UNCHANGED <<mainPc, pinged, miscast, clientVars, connVars, serverVars>>

\* An exception on an open connection ends the thread as well: a packet to
\* send that is too large, a packet received whose bytes run out or whose
\* text Chat rejects.
ThreadRejects == /\ threadPc \in {"handle", "receive", "reply"}
                 /\ IF threadPc = "receive" THEN Receive ELSE UNCHANGED <<connVars, serverVars>>
                 /\ threadPc' = "ended"
                 /\ UNCHANGED <<mainPc, pinged, miscast, clientVars>>

-----------------------------------------------------------------------------
(* The server.                                                             *)
ServerSend(name, arg) ==
    /\ ~closed /\ Len(toClient) < Capacity
    /\ toClient' = Append(toClient, Packet(name, serverState, serverThreshold, arg))
    /\ UNCHANGED <<mainPc, pinged, miscast, clientVars, threadPc, closed>>

\* A packet that is not for its state, or in the wrong format, makes it
\* close the connection.
ServerReads(p) == p.state = serverState /\ p.compressed = (serverThreshold >= 0)

ServerReceive ==
    /\ ~closed /\ toServer # << >>
    /\ toServer' = Tail(toServer)
    /\ LET p == Head(toServer) IN
         IF ~ServerReads(p) THEN closed' = TRUE /\ UNCHANGED <<serverState, asked>>
         ELSE /\ serverState' = CASE p.name = "status" -> "Status"
                                  [] p.name = "login" -> "Login"
                                  [] OTHER -> serverState
              /\ asked' = (p.name \in {"request", "loginStart"} \/ asked)
              /\ UNCHANGED closed
    /\ UNCHANGED <<mainPc, pinged, miscast, clientVars, threadPc, toClient, serverThreshold, accepted>>

ServerResponse == /\ serverState = "Status" /\ asked
                  /\ ServerSend("response", 0)
                  /\ asked' = FALSE
                  /\ UNCHANGED <<toServer, serverState, serverThreshold, accepted>>

\* A packet the client has no class for, in any state.
ServerUnknown == /\ serverState \in {"Login", "Play"}
                 /\ ServerSend("unknown", 0)
                 /\ UNCHANGED <<toServer, serverVars>>

\* It waits for the answer, which the client has no packet for.
ServerEncryptionRequest == /\ serverState = "Login" /\ asked
                           /\ ServerSend("encryptionRequest", 0)
                           /\ asked' = FALSE
                           /\ UNCHANGED <<toServer, serverState, serverThreshold, accepted>>

ServerSetCompression(t) == /\ serverState = "Login" /\ asked
                           /\ serverThreshold = -1
                           /\ ServerSend("setCompression", t)
                           /\ serverThreshold' = t
                           /\ UNCHANGED <<toServer, serverState, asked, accepted>>

\* The name of the account may differ from the one sent (arg 0).
ServerAccept(arg) == /\ serverState = "Login" /\ asked
                     /\ ServerSend("loginSuccess", arg)
                     /\ serverState' = "Play"
                     /\ accepted' = (arg = 1)
                     /\ UNCHANGED <<toServer, serverThreshold, asked>>

ServerRefuse == /\ serverState = "Login" /\ asked
                /\ ServerSend("disconnect", 0)
                /\ asked' = FALSE
                /\ UNCHANGED <<toServer, serverState, serverThreshold, accepted>>

ServerKeepAlive == /\ serverState = "Play"
                   /\ ServerSend("keepAlive", 0)
                   /\ UNCHANGED <<toServer, serverVars>>

ServerClose == /\ ~closed
               /\ closed' = TRUE
               /\ UNCHANGED <<mainPc, pinged, miscast, clientVars, threadPc, toServer, toClient, serverVars>>

-----------------------------------------------------------------------------
MainReceive == \/ MainThrows \/ ReceiveUnknown \/ PingResponse
               \/ ReceiveSetCompression \/ LoggedIn \/ LoginFails
               \/ CastToSuccess

Main == MainReceive \/ PingSend \/ ConnectHandshake \/ ConnectLoginStart \/ Destroy \/ JoinThread

ExecNs == \/ ThreadTest \/ ThreadHandled \/ ThreadReceive \/ ThreadThrows \/ ThreadRejects
          \/ ThreadSend("handle", "handle") \/ ThreadSend("reply", "loop")

Server == \/ ServerReceive \/ ServerResponse \/ ServerUnknown \/ ServerRefuse
          \/ ServerKeepAlive \/ ServerClose \/ ServerEncryptionRequest
          \/ \E t \in Thresholds : ServerSetCompression(t)
          \/ \E arg \in {0, 1} : ServerAccept(arg)

Next == Main \/ ExecNs \/ Server

Spec == Init /\ [][Next]_vars

ServerTimeout == serverState # "Play" /\ ServerClose

(* The join, the reading and the thread run; events are handled in finite  *)
(* time; the server reads what it is sent, closes a connection that takes  *)
(* too long to log in, and goes on sending keep-alives to one that did as  *)
(* long as it is open.                                                     *)
FairSpec == /\ Spec
            /\ WF_vars(JoinThread) /\ WF_vars(MainReceive)
            /\ WF_vars(ThreadTest) /\ WF_vars(ThreadHandled) /\ WF_vars(ThreadReceive)
            /\ WF_vars(ThreadThrows) /\ WF_vars(ThreadSend("reply", "loop"))
            /\ WF_vars(ServerReceive) /\ WF_vars(ServerKeepAlive) /\ WF_vars(ServerTimeout)

-----------------------------------------------------------------------------
(***************************************************************************)
(* Properties                                                              *)
(***************************************************************************)

States == {"Handshaking", "Status", "Login", "Play"}
PacketNames == {"status", "request", "login", "loginStart", "play", "response", "unknown",
                "setCompression", "encryptionRequest", "loginSuccess", "disconnect", "keepAlive"}
Packets == [name : PacketNames,
            state : States, compressed : BOOLEAN, arg : Thresholds \cup {0, 1}]

(* Every variable has its type; there is a thread exactly in the states    *)
(* Connect leaves the object in when it succeeds.                          *)
TypeOK ==
    /\ mainPc \in {"constructed", "pingWait", "helloSent", "loginWait", "compressedWait",
                   "running", "joining", "destroyed", "ended"}
    /\ {pinged, miscast, isRunning, closed, asked, accepted} \subseteq BOOLEAN
    /\ {state, serverState} \subseteq States
    /\ {compressionThreshold, serverThreshold} \subseteq Thresholds \cup {-1}
    /\ threadPc \in {"none", "loop", "handle", "receive", "reply", "ended"}
    /\ (threadPc # "none") <=> (state = "Play")
    /\ {toServer, toClient} \subseteq Seq(Packets)
    /\ Len(toServer) <= Capacity /\ Len(toClient) <= Capacity

Reading == mainPc \in {"pingWait", "loginWait", "compressedWait"} \/ threadPc = "receive"

(* The client reads every packet as it was written: whenever it waits for  *)
(* one, the next of the connection was sent in the state and in the format *)
(* it asks ReceivePacket for.  The format changes between two packets of   *)
(* the login, and the reader changes from the owner to the network thread  *)
(* (networkclient.cpp:54-66, 78-80, 121).  Nothing is said of a client     *)
(* that took another packet for the LoginSuccess.                          *)
ReadAsWritten ==
    (~miscast /\ Reading /\ toClient # << >>)
        => ReadsAs = <<Head(toClient).state, Head(toClient).compressed>>

(* The server can read every packet of the client, unless the client pings *)
(* it first: no packet is written in a format or for a state the server    *)
(* has left or not reached (networkclient.cpp:38-51, 96-99, 129).  Nothing *)
(* is said of a client that took another packet for the LoginSuccess.      *)
ServerUnderstands ==
    (~pinged /\ ~miscast /\ ~closed /\ toServer # << >>) => ServerReads(Head(toServer))

(* Connect returns only when the server accepted the very name that was    *)
(* sent, or after the undefined cast of a refusal or of a second           *)
(* SetCompression; a LoginSuccess for another name and a packet without a  *)
(* class never end it well (networkclient.cpp:54-82).                      *)
AcceptedBeforePlay == mainPc \in {"running", "joining"} => accepted \/ miscast

(* A connection that was used for ServerListPing cannot be used for        *)
(* Connect: the client goes back to Handshaking, the server does not       *)
(* (networkclient.cpp:36, 38-46; the commented call of main.cpp:82).       *)
PingSpoilsConnect == pinged => state # "Play" /\ serverState \notin {"Login", "Play"}

(* The network thread, which uses the object through this, runs only while *)
(* the object exists (networkclient.cpp:80-90).                            *)
ThreadInside == threadPc \in {"loop", "handle", "receive", "reply"}
                    => mainPc \in {"running", "joining"}

(* The destructor returns, although the thread it joins is blocked in      *)
(* ReceivePacket: the next packet, or the end of the connection, makes it  *)
(* look at isRunning again (networkclient.cpp:85-90, 118-143).             *)
DestructionEnds == (mainPc = "joining") ~> (mainPc = "destroyed")

(* Connect ends, although it waits without a timeout of its own and does   *)
(* not know the packet of a server that asks for encryption: with the      *)
(* answer it waits for, or with an exception when the server gives up      *)
(* (networkclient.cpp:54-83).                                              *)
LoginEnds == (mainPc \in {"loginWait", "compressedWait"})
                 ~> (mainPc \notin {"loginWait", "compressedWait"})
=============================================================================
