-------------------------- MODULE MCEventSystemLive --------------------------
(***************************************************************************)
(* The instance of EventSystem for liveness: the network thread with its   *)
(* listener, and the input thread, which only pushes.  Both push for ever, *)
(* the network thread from its handlers and between two calls of           *)
(* HandleAllEvents.  What is bounded is the history alone: a push that no  *)
(* queue holds any more is forgotten and the later ones are renumbered, so *)
(* that MaxPush bounds the pushes remembered at a time.                    *)
(***************************************************************************)
EXTENDS EventSystem

CONSTANTS network, input, marked, chat, other

MCThread == {network, input}
MCOwner == {network}
MCKind == {marked, chat, other}
MCHandles == [l \in MCOwner |-> {marked, chat}]

\* Position i of the history once position n is cut out of it.
Renumbered(i, n) == IF i > n THEN i - 1 ELSE i

\* The positions that a queue, a handler or a push under way still needs.
Needed == UNION {Elements(events[l]) \cup Elements(rawEvents[l]) \cup {cursor[l]} : l \in Owner}
              \cup {n \in {Len(log)} : \E t \in Thread : pushAt[t] = "visit"}

Forget(n) ==
    /\ n \notin Needed
    /\ log' = SubSeq(log, 1, n - 1) \o SubSeq(log, n + 1, Len(log))
    /\ LET Queue(q) == [i \in DOMAIN q |-> Renumbered(q[i], n)]
       IN /\ events' = [l \in Owner |-> Queue(events[l])]
          /\ rawEvents' = [l \in Owner |-> Queue(rawEvents[l])]
    /\ cursor' = [l \in Owner |-> Renumbered(cursor[l], n)]
    /\ UNCHANGED <<listeners, listenersMutex, handlers, handlersMutex, eventsMutex,
                   rawEventsMutex, pc, pushVars>>

\* The event that is followed: one at a time is remembered or being pushed.
OneMarked == Cardinality({n \in DOMAIN log : log[n] = marked})
                 + Cardinality({t \in Thread : pushAt[t] = "wait" /\ pushId[t] = marked}) <= 1

LiveNext == \/ Next /\ OneMarked'
            \/ \E n \in DOMAIN log : Forget(n)

LiveSpec == Init /\ [][LiveNext]_vars /\ Fairness

(* An event pushed to a listener whose thread is in its loop is handled,   *)
(* unless the thread leaves the loop first: neither a thread that pushes   *)
(* for ever nor handlers that push again and again can hold it back        *)
(* (event.cpp:29-69, event.hpp:100-109).                                   *)
EventuallyHandled ==
    \A l \in Owner :
        (l \in listeners /\ pc[l] # "setup" /\ \E n \in Pending(l) : log[n] = marked)
            ~> (\/ cursor[l] > 0 /\ log[cursor[l]] = marked
                \/ pc[l] \in {"leaving", "dtor", "gone"})
=============================================================================
