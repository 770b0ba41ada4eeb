------------------------------ MODULE EventBus ------------------------------
(***************************************************************************)
(* What the event system promises its users, without locks or queues: the  *)
(* pushed events form one log, and a listener is a cursor into that log.   *)
(* A listener sees every event pushed while it is registered and whose id  *)
(* it handles, once, in the order of the pushes; it never sees an event    *)
(* pushed before it was constructed.                                       *)
(*                                                                         *)
(* EventSystem, the lock-level model of src/include/event.hpp and          *)
(* src/src/event.cpp, implements this module.                              *)
(***************************************************************************)
EXTENDS Integers, Sequences

CONSTANTS Listener,     \* the EventListener objects
          Kind,         \* the event ids (StrHash of the event names)
          Handles       \* the ids each listener has a handler for

VARIABLES log,          \* the ids of the pushed events, oldest first
          listening,    \* the registered listeners
          gone,         \* the destroyed listeners
          cursor        \* the last position of the log a listener is past

busVars == <<log, listening, gone, cursor>>

\* The positions of the log that listener l has still to handle.
Due(l) == {n \in cursor[l] + 1 .. Len(log) : log[n] \in Handles[l]}

BusInit == /\ log = << >>
           /\ listening = {}
           /\ gone = {}
           /\ cursor = [l \in Listener |-> 0]

\* PushEvent: the event reaches every registered listener at once.
Publish(k) == /\ log' = Append(log, k)
              /\ UNCHANGED <<listening, gone, cursor>>

\* The constructor: what was pushed before is not for this listener.
Join(l) == /\ l \notin listening \cup gone
           /\ listening' = listening \cup {l}
           /\ cursor' = [cursor EXCEPT ![l] = Len(log)]
           /\ UNCHANGED <<log, gone>>

\* A handler runs for the oldest event still due.
Deliver(l) == /\ l \in listening
              /\ \E n \in Due(l) :
                   /\ \A m \in Due(l) : n <= m
                   /\ cursor' = [cursor EXCEPT ![l] = n]
              /\ UNCHANGED <<log, listening, gone>>

\* The destructor: what is still due is dropped with the listener.
Leave(l) == /\ l \in listening
            /\ listening' = listening \ {l}
            /\ gone' = gone \cup {l}
            /\ UNCHANGED <<log, cursor>>

BusNext == \/ \E k \in Kind : Publish(k)
           \/ \E l \in Listener : Join(l) \/ Deliver(l) \/ Leave(l)

BusSpec == BusInit /\ [][BusNext]_busVars
=============================================================================
