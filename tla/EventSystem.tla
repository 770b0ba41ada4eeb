----------------------------- MODULE EventSystem -----------------------------
(***************************************************************************)
(* The event system of the client, lock by lock: EventListener and         *)
(* EventSystem of src/include/event.hpp and src/src/event.cpp.             *)
(*                                                                         *)
(* Every thread of Owner has a listener on its stack, named by the thread  *)
(* (main in main(), the network thread in ExecNs); the other threads only  *)
(* push (the input thread).  A thread constructs its listener, registers   *)
(* all its handlers, and then runs HandleAllEvents in a loop until it      *)
(* leaves the loop or a handler throws; then the destructor runs.          *)
(*                                                                         *)
(* An event is the position of its push in log, a history variable with    *)
(* the ids in the order the pushes took listenersMutex.  The order of the  *)
(* list of listeners is abstracted: a push visits them in any order.       *)
(* A critical section that takes no other lock inside is one step.         *)
(***************************************************************************)
EXTENDS Integers, Sequences, FiniteSets

CONSTANTS Thread, Owner,        \* the threads, those that own a listener
          Kind, Handles,        \* event ids, the ids each owner handles
          NoThread, NoKind,     \* "unlocked", "no push under way"
          MaxPush               \* bound on the number of pushes log remembers

ASSUME ThreadAssumption == Owner \subseteq Thread /\ NoThread \notin Thread
ASSUME KindAssumption == Handles \in [Owner -> SUBSET Kind] /\ NoKind \notin Kind
ASSUME MaxPushAssumption == MaxPush \in Nat

VARIABLES
    listeners, listenersMutex,                  \* EventSystem's static members
    handlers, handlersMutex,                    \* EventListener's members
    events, eventsMutex, rawEvents, rawEventsMutex,
    pc,                                         \* where each thread is
    pushAt, pushId, pushRest,                   \* its call of PushEvent
    log, cursor                                 \* history

listenerVars == <<handlers, handlersMutex, events, eventsMutex, rawEvents, rawEventsMutex>>
pushVars == <<pushAt, pushId, pushRest>>
vars == <<listeners, listenersMutex, listenerVars, pc, pushVars, log, cursor>>

Init == /\ listeners = {}
        /\ listenersMutex = NoThread
        /\ handlers = [l \in Owner |-> {}]
        /\ handlersMutex = [l \in Owner |-> NoThread]
        /\ events = [l \in Owner |-> << >>]
        /\ eventsMutex = [l \in Owner |-> NoThread]
        /\ rawEvents = [l \in Owner |-> << >>]
        /\ rawEventsMutex = [l \in Owner |-> NoThread]
        /\ pc = [t \in Thread |-> IF t \in Owner THEN "born" ELSE "idle"]
        /\ pushAt = [t \in Thread |-> "none"]
        /\ pushId = [t \in Thread |-> NoKind]
        /\ pushRest = [t \in Thread |-> {}]
        /\ log = << >>
        /\ cursor = [l \in Owner |-> 0]

-----------------------------------------------------------------------------
(* A thread between two steps of its own code, with no PushEvent under way. *)
At(t, label) == pc[t] = label /\ pushAt[t] = "none"
Goto(t, label) == pc' = [pc EXCEPT ![t] = label]

(* EventListener::EventListener *)
CtorLock(t) == /\ At(t, "born") /\ t \in Owner
               /\ listenersMutex = NoThread
               /\ listenersMutex' = t
               /\ Goto(t, "ctor")
               /\ UNCHANGED <<listeners, listenerVars, pushVars, log, cursor>>

CtorPushBack(t) == /\ At(t, "ctor")
                   /\ listeners' = listeners \cup {t}
                   /\ listenersMutex' = NoThread
                   /\ cursor' = [cursor EXCEPT ![t] = Len(log)]
                   /\ Goto(t, "setup")
                   /\ UNCHANGED <<listenerVars, pushVars, log>>

(* EventListener::RegisterHandler, called for every id before the loop *)
RegisterHandler(t, k) ==
    /\ At(t, "setup")
    /\ k \in Handles[t] \ handlers[t]
    /\ handlersMutex[t] = NoThread
    /\ handlers' = [handlers EXCEPT ![t] = @ \cup {k}]
    /\ UNCHANGED <<listeners, listenersMutex, handlersMutex, events, eventsMutex,
                   rawEvents, rawEventsMutex, pc, pushVars, log, cursor>>

\* A plausible bug: the loop starts before the handlers are registered.
EnterLoopEarly(t) == /\ At(t, "setup")
                     /\ Goto(t, "idle")
                     /\ UNCHANGED <<listeners, listenersMutex, listenerVars, pushVars, log, cursor>>

EnterLoop(t) == /\ At(t, "setup")
                /\ handlers[t] = Handles[t]
                /\ Goto(t, "idle")
                /\ UNCHANGED <<listeners, listenersMutex, listenerVars, pushVars, log, cursor>>

-----------------------------------------------------------------------------
(* EventListener::PollEvents, called by NotEmpty, called by HandleAllEvents *)
PollLockRaw(t) == /\ At(t, "idle") /\ t \in Owner
                  /\ rawEventsMutex[t] = NoThread
                  /\ rawEventsMutex' = [rawEventsMutex EXCEPT ![t] = t]
                  /\ Goto(t, "poll")
                  /\ UNCHANGED <<listeners, listenersMutex, handlers, handlersMutex, events,
                                 eventsMutex, rawEvents, pushVars, log, cursor>>

\* The early return: nothing was pushed since the last poll.
PollNothing(t) == /\ At(t, "poll")
                  /\ rawEvents[t] = << >>
                  /\ rawEventsMutex' = [rawEventsMutex EXCEPT ![t] = NoThread]
                  /\ Goto(t, "check")
                  /\ UNCHANGED <<listeners, listenersMutex, handlers, handlersMutex, events,
                                 eventsMutex, rawEvents, pushVars, log, cursor>>

PollLockEvents(t) == /\ At(t, "poll")
                     /\ rawEvents[t] # << >>
                     /\ eventsMutex[t] = NoThread
                     /\ eventsMutex' = [eventsMutex EXCEPT ![t] = t]
                     /\ Goto(t, "pollLocked")
                     /\ UNCHANGED <<listeners, listenersMutex, handlers, handlersMutex, events,
                                    rawEvents, rawEventsMutex, pushVars, log, cursor>>

PollLockHandlers(t) == /\ At(t, "pollLocked")
                       /\ handlersMutex[t] = NoThread
                       /\ handlersMutex' = [handlersMutex EXCEPT ![t] = t]
                       /\ Goto(t, "polling")
                       /\ UNCHANGED <<listeners, listenersMutex, handlers, events, eventsMutex,
                                      rawEvents, rawEventsMutex, pushVars, log, cursor>>

\* A plausible bug: the queue takes new events at the wrong end.
PollOneToFront(t) == /\ At(t, "polling")
                     /\ rawEvents[t] # << >>
                     /\ rawEvents' = [rawEvents EXCEPT ![t] = Tail(@)]
                     /\ events' = [events EXCEPT ![t] = <<Head(rawEvents[t])>> \o @]
                     /\ UNCHANGED <<listeners, listenersMutex, handlers, handlersMutex,
                                    eventsMutex, rawEventsMutex, pc, pushVars, log, cursor>>

\* One round of the loop: an event no handler is registered for is dropped.
PollOne(t) == /\ At(t, "polling")
              /\ rawEvents[t] # << >>
              /\ rawEvents' = [rawEvents EXCEPT ![t] = Tail(@)]
              /\ \/ /\ log[Head(rawEvents[t])] \in handlers[t]
                    /\ events' = [events EXCEPT ![t] = Append(@, Head(rawEvents[t]))]
                 \/ /\ log[Head(rawEvents[t])] \notin handlers[t]
                    /\ UNCHANGED events
              /\ UNCHANGED <<listeners, listenersMutex, handlers, handlersMutex, eventsMutex,
                             rawEventsMutex, pc, pushVars, log, cursor>>

PollUnlock(t) == /\ At(t, "polling")
                 /\ rawEvents[t] = << >>
                 /\ rawEventsMutex' = [rawEventsMutex EXCEPT ![t] = NoThread]
                 /\ eventsMutex' = [eventsMutex EXCEPT ![t] = NoThread]
                 /\ handlersMutex' = [handlersMutex EXCEPT ![t] = NoThread]
                 /\ Goto(t, "check")
                 /\ UNCHANGED <<listeners, listenersMutex, handlers, events, rawEvents,
                                pushVars, log, cursor>>

-----------------------------------------------------------------------------
(* EventListener::NotEmpty after the poll: the early return of             *)
(* HandleAllEvents when it is false.                                       *)
NotEmpty(t) == /\ At(t, "check")
               /\ eventsMutex[t] = NoThread
               /\ Goto(t, IF events[t] = << >> THEN "idle" ELSE "handle")
               /\ UNCHANGED <<listeners, listenersMutex, listenerVars, pushVars, log, cursor>>

(* EventListener::HandleAllEvents *)
HandleLockEvents(t) == /\ At(t, "handle")
                       /\ eventsMutex[t] = NoThread
                       /\ eventsMutex' = [eventsMutex EXCEPT ![t] = t]
                       /\ Goto(t, "handleLocked")
                       /\ UNCHANGED <<listeners, listenersMutex, handlers, handlersMutex, events,
                                      rawEvents, rawEventsMutex, pushVars, log, cursor>>

HandleLockHandlers(t) == /\ At(t, "handleLocked")
                         /\ handlersMutex[t] = NoThread
                         /\ handlersMutex' = [handlersMutex EXCEPT ![t] = t]
                         /\ Goto(t, "handling")
                         /\ UNCHANGED <<listeners, listenersMutex, handlers, events, eventsMutex,
                                        rawEvents, rawEventsMutex, pushVars, log, cursor>>

\* A plausible bug: the events are popped from the back, as from a stack.
HandleNewest(t) == /\ At(t, "handling")
                   /\ events[t] # << >>
                   /\ events' = [events EXCEPT ![t] = SubSeq(@, 1, Len(@) - 1)]
                   /\ cursor' = [cursor EXCEPT ![t] = events[t][Len(events[t])]]
                   /\ Goto(t, "handler")
                   /\ UNCHANGED <<listeners, listenersMutex, handlers, handlersMutex, eventsMutex,
                                  rawEvents, rawEventsMutex, pushVars, log>>

\* One round of the loop: pop the front, call its handler if there is one.
HandleOne(t) == /\ At(t, "handling")
                /\ events[t] # << >>
                /\ events' = [events EXCEPT ![t] = Tail(@)]
                /\ \/ /\ log[Head(events[t])] \in handlers[t]
                      /\ cursor' = [cursor EXCEPT ![t] = Head(events[t])]
                      /\ Goto(t, "handler")
                   \/ /\ log[Head(events[t])] \notin handlers[t]
                      /\ UNCHANGED <<cursor, pc>>
                /\ UNCHANGED <<listeners, listenersMutex, handlers, handlersMutex, eventsMutex,
                               rawEvents, rawEventsMutex, pushVars, log>>

\* The handler runs with eventsMutex and handlersMutex held; it may push.
HandlerReturns(t) == /\ At(t, "handler")
                     /\ Goto(t, "handling")
                     /\ UNCHANGED <<listeners, listenersMutex, listenerVars, pushVars, log, cursor>>

\* A plausible bug: lock() and unlock() in place of the lock guards.
HandlerThrowsLocked(t) == /\ At(t, "handler")
                          /\ Goto(t, "leaving")
                          /\ UNCHANGED <<listeners, listenersMutex, listenerVars, pushVars, log,
                                         cursor>>

\* An exception unwinds the two lock guards and ends the loop of the thread.
HandlerThrows(t) == /\ At(t, "handler")
                    /\ eventsMutex' = [eventsMutex EXCEPT ![t] = NoThread]
                    /\ handlersMutex' = [handlersMutex EXCEPT ![t] = NoThread]
                    /\ Goto(t, "leaving")
                    /\ UNCHANGED <<listeners, listenersMutex, handlers, events, rawEvents,
                                   rawEventsMutex, pushVars, log, cursor>>

HandleDone(t) == /\ At(t, "handling")
                 /\ events[t] = << >>
                 /\ eventsMutex' = [eventsMutex EXCEPT ![t] = NoThread]
                 /\ handlersMutex' = [handlersMutex EXCEPT ![t] = NoThread]
                 /\ Goto(t, "idle")
                 /\ UNCHANGED <<listeners, listenersMutex, handlers, events, rawEvents,
                                rawEventsMutex, pushVars, log, cursor>>

-----------------------------------------------------------------------------
(* EventSystem::PushEvent, from the loop, from a handler, or from the code  *)
(* that runs after the loop (the catch clause of ExecNs).                  *)
PushCall(t, k) == /\ pc[t] \in {"idle", "handler", "leaving"}
                  /\ pushAt[t] = "none"
                  /\ Len(log) + Cardinality({u \in Thread : pushAt[u] = "wait"}) < MaxPush
                  /\ pushAt' = [pushAt EXCEPT ![t] = "wait"]
                  /\ pushId' = [pushId EXCEPT ![t] = k]
                  /\ UNCHANGED <<listeners, listenersMutex, listenerVars, pc, pushRest, log, cursor>>

PushLock(t) == /\ pushAt[t] = "wait"
               /\ listenersMutex = NoThread
               /\ listenersMutex' = t
               /\ log' = Append(log, pushId[t])
               /\ pushAt' = [pushAt EXCEPT ![t] = "visit"]
               /\ pushRest' = [pushRest EXCEPT ![t] = listeners]
               /\ UNCHANGED <<listeners, listenerVars, pc, pushId, cursor>>

\* A plausible bug: the visit takes the mutex of the handlers as well, as
\* DirectEventCall does.
VisitOwnersDirect(l) == {rawEventsMutex[l], handlersMutex[l]}

\* A plausible bug: the visit does not lock the queue it pushes to.
VisitOwnersNone(l) == {NoThread}

\* The owners of the mutexes a visit to listener l has to take.
VisitOwners(l) == {rawEventsMutex[l]}

PushOne(t, l) == /\ pushAt[t] = "visit"
                 /\ l \in pushRest[t]
                 /\ VisitOwners(l) = {NoThread}
                 /\ rawEvents' = [rawEvents EXCEPT ![l] = Append(@, Len(log))]
                 /\ pushRest' = [pushRest EXCEPT ![t] = @ \ {l}]
                 /\ UNCHANGED <<listeners, listenersMutex, handlers, handlersMutex, events,
                                eventsMutex, rawEventsMutex, pc, pushAt, pushId, log, cursor>>

PushUnlock(t) == /\ pushAt[t] = "visit"
                 /\ pushRest[t] = {}
                 /\ listenersMutex' = NoThread
                 /\ pushAt' = [pushAt EXCEPT ![t] = "none"]
                 /\ pushId' = [pushId EXCEPT ![t] = NoKind]
                 /\ UNCHANGED <<listeners, listenerVars, pc, pushRest, log, cursor>>

-----------------------------------------------------------------------------
\* The thread leaves its loop between two calls of HandleAllEvents.
LeaveLoop(t) == /\ At(t, "idle") /\ t \in Owner
                /\ Goto(t, "leaving")
                /\ UNCHANGED <<listeners, listenersMutex, listenerVars, pushVars, log, cursor>>

\* A plausible bug: the destructor does not lock the list.
DtorNoLock(t) == /\ At(t, "leaving")
                 /\ Goto(t, "dtor")
                 /\ UNCHANGED <<listeners, listenersMutex, listenerVars, pushVars, log, cursor>>

(* EventListener::~EventListener *)
DtorLock(t) == /\ At(t, "leaving")
               /\ listenersMutex = NoThread
               /\ listenersMutex' = t
               /\ Goto(t, "dtor")
               /\ UNCHANGED <<listeners, listenerVars, pushVars, log, cursor>>

\* A plausible bug: the pointer stays in the list, as with a defaulted destructor.
DtorForgets(t) == /\ At(t, "dtor")
                  /\ listenersMutex' = NoThread
                  /\ Goto(t, "gone")
                  /\ UNCHANGED <<listeners, listenerVars, pushVars, log, cursor>>

DtorRemove(t) == /\ At(t, "dtor")
                 /\ listeners' = listeners \ {t}
                 /\ listenersMutex' = NoThread
                 /\ Goto(t, "gone")
                 /\ UNCHANGED <<listenerVars, pushVars, log, cursor>>

-----------------------------------------------------------------------------
\* The steps of HandleAllEvents, as far as the thread takes them by itself.
HandleAllEvents(t) ==
    \/ PollLockRaw(t) \/ PollNothing(t) \/ PollLockEvents(t) \/ PollLockHandlers(t)
    \/ PollOne(t) \/ PollUnlock(t) \/ NotEmpty(t) \/ HandleLockEvents(t)
    \/ HandleLockHandlers(t) \/ HandleOne(t) \/ HandlerReturns(t) \/ HandleDone(t)

Lifetime(t) ==
    \/ CtorLock(t) \/ CtorPushBack(t) \/ EnterLoop(t)
    \/ LeaveLoop(t) \/ HandlerThrows(t) \/ DtorLock(t) \/ DtorRemove(t)
    \/ \E k \in Kind : RegisterHandler(t, k)

PushEvent(t) ==
    \/ \E k \in Kind : PushCall(t, k)
    \/ PushLock(t)
    \/ \E l \in Owner : PushOne(t, l)
    \/ PushUnlock(t)

\* Every thread may end up with nothing left to do in the bounded model.
Next == \E t \in Thread : HandleAllEvents(t) \/ Lifetime(t) \/ PushEvent(t)

Spec == Init /\ [][Next]_vars

(***************************************************************************)
(* Fairness: a thread in its loop keeps running HandleAllEvents, a thread  *)
(* that holds a mutex goes on to release it, and a thread that wants a     *)
(* mutex which is free again and again gets it (strong fairness of the     *)
(* locks other threads take too).  HandleAllEvents is interrupted by the   *)
(* pushes of the same thread, from a handler and between two calls; its    *)
(* fairness is strong because neither pushes for ever: a handler pushes at *)
(* most a few events, and so does a round of the loop.  No thread has to   *)
(* construct a listener, finish its setup (main connects in between),      *)
(* push, leave its loop, throw, or destroy its listener (main joins the    *)
(* input thread first).                                                    *)
(***************************************************************************)
Fairness ==
    \A t \in Thread :
        /\ SF_vars(HandleAllEvents(t))
        /\ WF_vars(CtorPushBack(t) \/ DtorRemove(t))
        /\ SF_vars(PushLock(t))
        /\ \A l \in Owner : SF_vars(PushOne(t, l))
        /\ WF_vars(PushUnlock(t))
-----------------------------------------------------------------------------
(***************************************************************************)
(* Properties                                                              *)
(***************************************************************************)

Maybe(S) == S \cup {NoThread}

(* Every variable has its type: the list holds exactly the listeners whose *)
(* constructor is done and whose destructor is not, an event in a queue is *)
(* a position of log, only owners run HandleAllEvents, a push under way    *)
(* has an id (event.cpp:6-14).                                             *)
TypeOK ==
    /\ listeners = {l \in Owner : pc[l] \notin {"born", "ctor", "gone"}}
    /\ listenersMutex \in Maybe(Thread)
    /\ handlers \in [Owner -> SUBSET Kind]
    /\ handlersMutex \in [Owner -> Maybe(Owner)]
    /\ events \in [Owner -> Seq(Nat)]
    /\ eventsMutex \in [Owner -> Maybe(Owner)]
    /\ rawEvents \in [Owner -> Seq(Nat)]
    /\ rawEventsMutex \in [Owner -> Maybe(Owner)]
    /\ pc \in [Thread -> {"born", "ctor", "setup", "idle", "poll", "pollLocked", "polling",
                          "check", "handle", "handleLocked", "handling", "handler",
                          "leaving", "dtor", "gone"}]
    /\ \A t \in Thread \ Owner : pc[t] = "idle"
    /\ pushAt \in [Thread -> {"none", "wait", "visit"}]
    /\ pushId \in [Thread -> Kind \cup {NoKind}]
    /\ \A t \in Thread : (pushAt[t] = "none") <=> (pushId[t] = NoKind)
    /\ pushRest \in [Thread -> SUBSET Owner]
    /\ log \in Seq(Kind)
    /\ cursor \in [Owner -> Nat]

(* The owners of the mutexes thread t is about to lock where it stands.    *)
Holders(t) ==
    (IF pushAt[t] = "wait" \/ At(t, "born") \/ At(t, "leaving") THEN {listenersMutex} ELSE {})
    \cup (IF pushAt[t] = "visit" THEN UNION {VisitOwners(l) : l \in pushRest[t]} ELSE {})
    \cup (IF t \in Owner /\ At(t, "idle") THEN {rawEventsMutex[t]} ELSE {})
    \cup (IF t \in Owner /\ (\E a \in {"poll", "check", "handle"} : At(t, a))
             THEN {eventsMutex[t]} ELSE {})
    \cup (IF t \in Owner /\ (\E a \in {"setup", "pollLocked", "handleLocked"} : At(t, a))
             THEN {handlersMutex[t]} ELSE {})

(* No set of threads waits in a circle for mutexes that only the set can   *)
(* release, and no thread waits for itself.  PollEvents takes rawEvents,   *)
(* events, handlers; a handler that pushes takes events, handlers,         *)
(* listeners, rawEvents: the two orders are opposite, and only the fact    *)
(* that each listener is polled by the one thread that owns it keeps them  *)
(* from deadlocking (event.cpp:29-42 and 56-69, event.hpp:100-109).        *)
NoWaitCycle == ~\E S \in SUBSET Thread :
                     /\ S # {}
                     /\ \A t \in S : S \cap Holders(t) # {}

(* A push that goes through the list only ever reaches listeners that are  *)
(* constructed and not yet destroyed: the pointers of the list never       *)
(* dangle, although threads create and destroy listeners while others push *)
(* (event.cpp:6-14, event.hpp:105-108).                                    *)
NoDanglingListener ==
    \A t \in Thread, l \in Owner :
        (pushAt[t] = "visit" /\ l \in pushRest[t])
            => /\ l \in listeners
               /\ pc[l] \notin {"born", "ctor", "gone"}

(* The push that is on its way to listener l and has not reached it.       *)
InFlight(l) == {n \in {Len(log)} : \E t \in Thread : l \in pushRest[t]}

Elements(s) == {s[i] : i \in DOMAIN s}

(* Nothing is lost between the three places an event can be: whatever was  *)
(* pushed while the listener is registered, is of an id it handles and has *)
(* not been handled is in its queue, in its raw queue or on its way, and   *)
(* what is in the queues is still to be handled (event.cpp:29-69).         *)
Pending(l) == Elements(events[l]) \cup Elements(rawEvents[l]) \cup InFlight(l)

NothingLost ==
    \A l \in listeners :
        {n \in Pending(l) : log[n] \in Handles[l]}
            = {n \in cursor[l] + 1 .. Len(log) : log[n] \in Handles[l]}

(* A listener never goes back in the log, and each call of a handler is    *)
(* for an event pushed after the last one it handled: the order is that of *)
(* the pushes and no event is handled twice (event.cpp:35-40, 63-67).      *)
InPushOrder ==
    [][\A l \in Owner :
          /\ cursor'[l] >= cursor[l]
          /\ (pc[l] # "handler" /\ pc'[l] = "handler") => cursor'[l] > cursor[l]]_vars

(* Mutual exclusion as the code uses it: between two calls of              *)
(* HandleAllEvents, and after an exception left one, a thread holds no     *)
(* mutex of its listener; while a handler runs it holds exactly the two of *)
(* the queue and the handlers (event.cpp:33-41).                           *)
LockDiscipline ==
    \A l \in Owner :
        /\ (pc[l] \in {"idle", "leaving", "dtor", "gone"})
               => {rawEventsMutex[l], eventsMutex[l], handlersMutex[l]} = {NoThread}
        /\ (pc[l] = "handler")
               => rawEventsMutex[l] = NoThread /\ {eventsMutex[l], handlersMutex[l]} = {l}

(* The lock-level event system implements the broadcast log.               *)
Bus == INSTANCE EventBus
         WITH Listener <- Owner,
              listening <- listeners,
              gone <- {l \in Owner : pc[l] = "gone"}

ImplementsBus == Bus!BusSpec
=============================================================================
