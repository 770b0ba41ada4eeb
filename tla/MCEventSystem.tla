---------------------------- MODULE MCEventSystem ----------------------------
(* Instances of EventSystem: the three threads of the program.             *)
EXTENDS EventSystem

CONSTANTS main, network, input, chat, packet

MCThread == {main, network, input}
MCOwner == {main, network}
MCKind == {chat, packet}

\* chat stands for what main handles, packet for what only the network
\* thread handles; the network thread is given both, so that one push is
\* delivered twice and another is dropped by one of the listeners.
MCHandles == [l \in MCOwner |-> IF l = main THEN {chat} ELSE {chat, packet}]
=============================================================================
