-------------------------- MODULE EventSystemProofs --------------------------
(***************************************************************************)
(* Proofs about EventSystem for any number of threads, listeners, events   *)
(* and handlers.  The argument: TypeOK, then LockInv (the program counters *)
(* say who holds which mutex, and the list of listeners is that of the     *)
(* living ones), then QueueInv (the queues hold ascending positions of the *)
(* log, and every due position is in one of them or on its way).           *)
(***************************************************************************)
EXTENDS EventSystem, TLAPS

USE ThreadAssumption, KindAssumption

-----------------------------------------------------------------------------
(* TypeOK is inductive: no step of any thread takes a variable out of its  *)
(* type, whatever the threads and the handlers.                            *)
LEMMA TypeInit == Init => TypeOK
BY DEF Init, TypeOK, Maybe

(* No step of any thread takes a variable out of its type.                 *)
LEMMA TypeNext == TypeOK /\ [Next]_vars => TypeOK'
<1> SUFFICES ASSUME TypeOK, [Next]_vars PROVE TypeOK'
  OBVIOUS
<1> USE DEF TypeOK, Maybe, At, Goto, listenerVars, pushVars
<1>1. ASSUME NEW t \in Thread, HandleAllEvents(t) PROVE TypeOK'
  <2>1. CASE PollLockRaw(t) BY <2>1 DEF PollLockRaw
  <2>2. CASE PollNothing(t) BY <2>2 DEF PollNothing
  <2>3. CASE PollLockEvents(t) BY <2>3 DEF PollLockEvents
  <2>4. CASE PollLockHandlers(t) BY <2>4 DEF PollLockHandlers
  <2>5. CASE PollOne(t)
    <3>1. t \in Owner /\ rawEvents[t] \in Seq(Nat) /\ events[t] \in Seq(Nat)
      BY <2>5 DEF PollOne
    <3>2. Head(rawEvents[t]) \in Nat /\ Tail(rawEvents[t]) \in Seq(Nat)
      BY <2>5, <3>1 DEF PollOne
    <3>3. rawEvents' \in [Owner -> Seq(Nat)]
      BY <2>5, <3>1, <3>2 DEF PollOne
    <3>4. Append(events[t], Head(rawEvents[t])) \in Seq(Nat)
      BY <3>1, <3>2
    <3>5. events' \in [Owner -> Seq(Nat)]
      <4>1. PICK s \in Seq(Nat) : events' = events \/ events' = [events EXCEPT ![t] = s]
        BY <2>5, <3>4 DEF PollOne
      <4>2. CASE events' = events BY <4>2
      <4>3. CASE events' = [events EXCEPT ![t] = s] BY <4>3
      <4>4. QED BY <4>1, <4>2, <4>3
    <3>6. UNCHANGED <<listeners, listenersMutex, handlers, handlersMutex, eventsMutex,
                      rawEventsMutex, pc, pushAt, pushId, pushRest, log, cursor>>
      BY <2>5 DEF PollOne
    <3>7. QED BY <3>3, <3>5, <3>6
  <2>6. CASE PollUnlock(t) BY <2>6 DEF PollUnlock
  <2>7. CASE NotEmpty(t) BY <2>7 DEF NotEmpty
  <2>8. CASE HandleLockEvents(t) BY <2>8 DEF HandleLockEvents
  <2>9. CASE HandleLockHandlers(t) BY <2>9 DEF HandleLockHandlers
  <2>10. CASE HandleOne(t)
    <3>1. t \in Owner /\ events[t] \in Seq(Nat)
      BY <2>10 DEF HandleOne
    <3>2. Head(events[t]) \in Nat /\ Tail(events[t]) \in Seq(Nat)
      BY <2>10, <3>1 DEF HandleOne
    <3>3. events' \in [Owner -> Seq(Nat)]
      BY <2>10, <3>1, <3>2 DEF HandleOne
    <3>4. cursor' \in [Owner -> Nat]
      <4>1. cursor' = cursor \/ cursor' = [cursor EXCEPT ![t] = Head(events[t])]
        BY <2>10 DEF HandleOne
      <4>2. QED BY <3>2, <4>1
    <3>5. /\ UNCHANGED <<listeners, listenersMutex, handlers, handlersMutex, eventsMutex,
                         rawEvents, rawEventsMutex, pushAt, pushId, pushRest, log>>
          /\ pc[t] = "handling"
          /\ pc' = pc \/ pc' = [pc EXCEPT ![t] = "handler"]
      BY <2>10 DEF HandleOne
    <3>6. QED BY <3>1, <3>3, <3>4, <3>5
  <2>11. CASE HandlerReturns(t) BY <2>11 DEF HandlerReturns
  <2>12. CASE HandleDone(t) BY <2>12 DEF HandleDone
  <2>13. QED BY <1>1, <2>1, <2>2, <2>3, <2>4, <2>5, <2>6, <2>7, <2>8, <2>9, <2>10, <2>11, <2>12
            DEF HandleAllEvents
<1>2. ASSUME NEW t \in Thread, Lifetime(t) PROVE TypeOK'
  <2>1. CASE CtorLock(t) BY <2>1 DEF CtorLock
  <2>2. CASE CtorPushBack(t) BY <2>2 DEF CtorPushBack
  <2>3. CASE EnterLoop(t) BY <2>3 DEF EnterLoop
  <2>4. CASE LeaveLoop(t) BY <2>4 DEF LeaveLoop
  <2>5. CASE HandlerThrows(t) BY <2>5 DEF HandlerThrows
  <2>6. CASE DtorLock(t) BY <2>6 DEF DtorLock
  <2>7. CASE DtorRemove(t) BY <2>7 DEF DtorRemove
  <2>8. ASSUME NEW k \in Kind, RegisterHandler(t, k) PROVE TypeOK'
    BY <2>8 DEF RegisterHandler
  <2>9. QED BY <1>2, <2>1, <2>2, <2>3, <2>4, <2>5, <2>6, <2>7, <2>8 DEF Lifetime
<1>3. ASSUME NEW t \in Thread, PushEvent(t) PROVE TypeOK'
  <2>1. ASSUME NEW k \in Kind, PushCall(t, k) PROVE TypeOK'
    BY <2>1 DEF PushCall
  <2>2. CASE PushLock(t) BY <2>2 DEF PushLock
  <2>3. ASSUME NEW l \in Owner, PushOne(t, l) PROVE TypeOK'
    BY <2>3 DEF PushOne
  <2>4. CASE PushUnlock(t) BY <2>4 DEF PushUnlock
  <2>5. QED BY <1>3, <2>1, <2>2, <2>3, <2>4 DEF PushEvent
<1>4. CASE UNCHANGED vars BY <1>4 DEF vars
<1>5. QED BY <1>1, <1>2, <1>3, <1>4 DEF Next

(* In every reachable state every variable has its type.                   *)
THEOREM TypeCorrect == Spec => []TypeOK
BY TypeInit, TypeNext, PTL DEF Spec

-----------------------------------------------------------------------------
(***************************************************************************)
(* The lock invariant: the program counters say who holds which mutex, the *)
(* list holds the constructed and not yet destroyed listeners, and a push  *)
(* on its way visits some of them.                                         *)
(***************************************************************************)
ListenerLocks ==
    \A l \in Owner :
        /\ rawEventsMutex[l] = IF pc[l] \in {"poll", "pollLocked", "polling"}
                                  THEN l ELSE NoThread
        /\ eventsMutex[l] = IF pc[l] \in {"pollLocked", "polling",
                                           "handleLocked", "handling", "handler"}
                               THEN l ELSE NoThread
        /\ handlersMutex[l] = IF pc[l] \in {"polling", "handling", "handler"}
                                 THEN l ELSE NoThread

Listening == \A l \in Owner : (l \in listeners) <=> (pc[l] \notin {"born", "ctor", "gone"})

HoldsListeners ==
    \A t \in Thread :
        (listenersMutex = t) <=> (pushAt[t] = "visit" \/ pc[t] \in {"ctor", "dtor"})

PushOnItsWay ==
    \A t \in Thread :
        /\ pushAt[t] # "none" => pc[t] \in {"idle", "handler", "leaving"}
        /\ pushAt[t] # "visit" => pushRest[t] = {}
        /\ pushRest[t] \subseteq listeners

LockInv == ListenerLocks /\ Listening /\ HoldsListeners /\ PushOnItsWay

(* Initially no mutex is held and the list of listeners is empty.          *)
LEMMA LockInit == Init => LockInv
BY DEF Init, LockInv, ListenerLocks, Listening, HoldsListeners, PushOnItsWay

(* Every step keeps the books of who holds which mutex, of who is in the   *)
(* list and of which listeners a push has still to visit (event.cpp:6-69,  *)
(* event.hpp:100-109).                                                     *)
LEMMA LockNext == TypeOK /\ LockInv /\ [Next]_vars => LockInv'
<1> SUFFICES ASSUME TypeOK, LockInv, [Next]_vars PROVE LockInv'
  OBVIOUS
<1> USE DEF TypeOK, Maybe, At, Goto, listenerVars, pushVars,
            LockInv, ListenerLocks, Listening, HoldsListeners, PushOnItsWay
<1>1. ASSUME NEW t \in Thread, HandleAllEvents(t) PROVE LockInv'
  <2>1. CASE PollLockRaw(t) BY <2>1 DEF PollLockRaw
  <2>2. CASE PollNothing(t) BY <2>2 DEF PollNothing
  <2>3. CASE PollLockEvents(t) BY <2>3 DEF PollLockEvents
  <2>4. CASE PollLockHandlers(t) BY <2>4 DEF PollLockHandlers
  <2>5. CASE PollOne(t) BY <2>5 DEF PollOne
  <2>6. CASE PollUnlock(t) BY <2>6 DEF PollUnlock
  <2>7. CASE NotEmpty(t) BY <2>7 DEF NotEmpty
  <2>8. CASE HandleLockEvents(t) BY <2>8 DEF HandleLockEvents
  <2>9. CASE HandleLockHandlers(t) BY <2>9 DEF HandleLockHandlers
  <2>10. CASE HandleOne(t)
    <3>1. /\ UNCHANGED <<listeners, listenersMutex, handlersMutex, eventsMutex,
                         rawEventsMutex, pushAt, pushRest>>
          /\ pc[t] = "handling"
          /\ pc' = pc \/ pc' = [pc EXCEPT ![t] = "handler"]
      BY <2>10 DEF HandleOne
    <3>2. CASE pc' = pc BY <3>1, <3>2
    <3>3. CASE pc' = [pc EXCEPT ![t] = "handler"] BY <3>1, <3>3
    <3>4. QED BY <3>1, <3>2, <3>3
  <2>11. CASE HandlerReturns(t) BY <2>11 DEF HandlerReturns
  <2>12. CASE HandleDone(t) BY <2>12 DEF HandleDone
  <2>13. QED BY <1>1, <2>1, <2>2, <2>3, <2>4, <2>5, <2>6, <2>7, <2>8, <2>9, <2>10, <2>11, <2>12
            DEF HandleAllEvents
<1>2. ASSUME NEW t \in Thread, Lifetime(t) PROVE LockInv'
  <2>1. CASE CtorLock(t) BY <2>1 DEF CtorLock
  <2>2. CASE CtorPushBack(t) BY <2>2 DEF CtorPushBack
  <2>3. CASE EnterLoop(t) BY <2>3 DEF EnterLoop
  <2>4. CASE LeaveLoop(t) BY <2>4 DEF LeaveLoop
  <2>5. CASE HandlerThrows(t) BY <2>5 DEF HandlerThrows
  <2>6. CASE DtorLock(t) BY <2>6 DEF DtorLock
  <2>7. CASE DtorRemove(t) BY <2>7 DEF DtorRemove
  <2>8. ASSUME NEW k \in Kind, RegisterHandler(t, k) PROVE LockInv'
    BY <2>8 DEF RegisterHandler
  <2>9. QED BY <1>2, <2>1, <2>2, <2>3, <2>4, <2>5, <2>6, <2>7, <2>8 DEF Lifetime
<1>3. ASSUME NEW t \in Thread, PushEvent(t) PROVE LockInv'
  <2>1. ASSUME NEW k \in Kind, PushCall(t, k) PROVE LockInv'
    BY <2>1 DEF PushCall
  <2>2. CASE PushLock(t) BY <2>2 DEF PushLock
  <2>3. ASSUME NEW l \in Owner, PushOne(t, l) PROVE LockInv'
    BY <2>3 DEF PushOne
  <2>4. CASE PushUnlock(t)
    <3>1. ListenerLocks' /\ Listening' BY <2>4 DEF PushUnlock
    <3>2. HoldsListeners'
      <4>1. \A u \in Thread \ {t} : pushAt[u] # "visit" /\ pc[u] \notin {"ctor", "dtor"}
        BY <2>4 DEF PushUnlock
      <4>2. pc[t] \notin {"ctor", "dtor"}
        BY <2>4 DEF PushUnlock
      <4>3. QED BY <2>4, <4>1, <4>2 DEF PushUnlock
    <3>3. PushOnItsWay' BY <2>4 DEF PushUnlock
    <3>4. QED BY <3>1, <3>2, <3>3
  <2>5. QED BY <1>3, <2>1, <2>2, <2>3, <2>4 DEF PushEvent
<1>4. CASE UNCHANGED vars BY <1>4 DEF vars
<1>5. QED BY <1>1, <1>2, <1>3, <1>4 DEF Next

(* The bookkeeping of mutexes and listeners holds in every reachable state. *)
THEOREM LockInvariant == Spec => [](TypeOK /\ LockInv)
<1>1. Init => TypeOK /\ LockInv
  BY TypeInit, LockInit
<1>2. TypeOK /\ LockInv /\ [Next]_vars => (TypeOK /\ LockInv)'
  BY TypeNext, LockNext
<1>3. QED BY <1>1, <1>2, PTL DEF Spec

(* Between two calls of HandleAllEvents a thread holds no mutex of its     *)
(* listener, also when an exception ended the call; a handler runs with    *)
(* exactly the mutexes of the queue and of the handlers.                   *)
THEOREM LocksDisciplined == Spec => []LockDiscipline
<1>1. TypeOK /\ LockInv => LockDiscipline
  BY DEF LockInv, ListenerLocks, LockDiscipline
<1>2. QED BY <1>1, LockInvariant, PTL

(* A push never visits a listener that is not constructed or already       *)
(* destroyed.                                                              *)
THEOREM ListenersAlive == Spec => []NoDanglingListener
<1>1. TypeOK /\ LockInv => NoDanglingListener
  BY DEF LockInv, Listening, PushOnItsWay, NoDanglingListener
<1>2. QED BY <1>1, LockInvariant, PTL

(* However many threads push, handle, create and destroy listeners, no set *)
(* of them waits in a circle.  A thread that polls or handles only waits   *)
(* for mutexes nobody else takes; a push waits at most for a polling       *)
(* thread; the others wait at most for a push.                             *)
THEOREM DeadlockFree == Spec => []NoWaitCycle
<1>1. ASSUME TypeOK, LockInv PROVE NoWaitCycle
  <2> SUFFICES ASSUME NEW S \in SUBSET Thread, S # {},
                      \A t \in S : S \cap Holders(t) # {}
               PROVE FALSE
    BY DEF NoWaitCycle
  <2> USE <1>1 DEF TypeOK, Maybe, At, LockInv
  <2>1. ASSUME NEW t \in S PROVE t \notin Owner \/ pc[t] \notin {"poll", "pollLocked", "polling"}
    <3> SUFFICES ASSUME t \in Owner, pc[t] \in {"poll", "pollLocked", "polling"} PROVE FALSE
      OBVIOUS
    <3>1. pushAt[t] = "none" BY DEF PushOnItsWay
    <3>2. Holders(t) \subseteq {NoThread} BY <3>1 DEF Holders, ListenerLocks
    <3>3. QED BY <3>2
  <2>2. ASSUME NEW t \in S PROVE pushAt[t] # "visit"
    <3> SUFFICES ASSUME pushAt[t] = "visit" PROVE FALSE
      OBVIOUS
    <3>1. Holders(t) = UNION {VisitOwners(l) : l \in pushRest[t]} BY DEF Holders
    <3>2. PICK l \in pushRest[t] : rawEventsMutex[l] \in S BY <3>1 DEF VisitOwners
    <3>3. l \in Owner /\ rawEventsMutex[l] = l /\ pc[l] \in {"poll", "pollLocked", "polling"}
      BY <3>2 DEF ListenerLocks
    <3>4. QED BY <2>1, <3>2, <3>3
  <2>3. ASSUME NEW t \in S PROVE pc[t] \notin {"ctor", "dtor"}
    <3> SUFFICES ASSUME pc[t] \in {"ctor", "dtor"} PROVE FALSE
      OBVIOUS
    <3>1. Holders(t) = {} BY DEF Holders, PushOnItsWay
    <3>2. QED BY <3>1
  <2>4. listenersMutex \notin S BY <2>2, <2>3 DEF HoldsListeners
  <2>5. PICK t \in S : TRUE OBVIOUS
  <2>6. Holders(t) \subseteq {listenersMutex, NoThread}
    BY <2>2, <2>5 DEF Holders, ListenerLocks
  <2>7. PICK u \in Holders(t) : u \in S BY <2>5
  <2>8. NoThread \notin S OBVIOUS
  <2>9. QED BY <2>4, <2>6, <2>7, <2>8
<1>2. QED BY <1>1, LockInvariant, PTL

-----------------------------------------------------------------------------
(* What the two operations of std::queue do to the elements and the order. *)
Ascending(s) == \A i, j \in DOMAIN s : i < j => s[i] < s[j]

(* std::queue::push adds one element.                                      *)
LEMMA PushElements ==
  ASSUME NEW s \in Seq(Nat), NEW x \in Nat
  PROVE  Elements(Append(s, x)) = Elements(s) \cup {x}
<1>1. /\ Len(Append(s, x)) = Len(s) + 1
      /\ \A i \in 1 .. Len(s) : Append(s, x)[i] = s[i]
      /\ Append(s, x)[Len(s) + 1] = x
  OBVIOUS
<1>2. DOMAIN Append(s, x) = 1 .. Len(s) + 1 /\ DOMAIN s = 1 .. Len(s)
  OBVIOUS
<1>3. 1 .. Len(s) + 1 = (1 .. Len(s)) \cup {Len(s) + 1}
  OBVIOUS
<1>4. QED BY <1>1, <1>2, <1>3 DEF Elements

(* std::queue::pop takes away the front element.                           *)
LEMMA PopElements ==
  ASSUME NEW s \in Seq(Nat), s # << >>
  PROVE  /\ Head(s) \in Nat
         /\ Tail(s) \in Seq(Nat)
         /\ Elements(s) = Elements(Tail(s)) \cup {Head(s)}
<1>1. /\ Len(s) \in Nat \ {0}
      /\ Len(Tail(s)) = Len(s) - 1
      /\ \A i \in 1 .. Len(s) - 1 : Tail(s)[i] = s[i + 1]
      /\ Head(s) = s[1]
  OBVIOUS
<1>2. DOMAIN s = 1 .. Len(s) /\ DOMAIN Tail(s) = 1 .. Len(s) - 1
  OBVIOUS
<1>3. ASSUME NEW i \in 1 .. Len(s) PROVE s[i] \in Elements(Tail(s)) \cup {Head(s)}
  <2>1. CASE i = 1 BY <1>1, <2>1
  <2>2. CASE i # 1
    <3>1. i - 1 \in 1 .. Len(s) - 1 /\ Tail(s)[i - 1] = s[i] BY <1>1, <2>2
    <3>2. QED BY <1>2, <3>1 DEF Elements
  <2>3. QED BY <2>1, <2>2
<1>4. ASSUME NEW i \in 1 .. Len(s) - 1 PROVE Tail(s)[i] \in Elements(s)
  BY <1>1, <1>2 DEF Elements
<1>5. Head(s) \in Elements(s) BY <1>1, <1>2 DEF Elements
<1>6. Elements(s) = Elements(Tail(s)) \cup {Head(s)}
  BY <1>2, <1>3, <1>4, <1>5 DEF Elements
<1>7. QED BY <1>6

(* Pushing a greater element keeps a queue ascending.                      *)
LEMMA PushAscending ==
  ASSUME NEW s \in Seq(Nat), NEW x \in Nat, Ascending(s), \A y \in Elements(s) : y < x
  PROVE  Ascending(Append(s, x))
<1>1. /\ Len(Append(s, x)) = Len(s) + 1
      /\ \A i \in 1 .. Len(s) : Append(s, x)[i] = s[i]
      /\ Append(s, x)[Len(s) + 1] = x
      /\ DOMAIN Append(s, x) = 1 .. Len(s) + 1 /\ DOMAIN s = 1 .. Len(s)
  OBVIOUS
<1>2. \A i \in 1 .. Len(s) : s[i] < x BY <1>1 DEF Elements
<1>3. QED BY <1>1, <1>2 DEF Ascending

(* Popping the front keeps a queue ascending, and the front was the least  *)
(* element.                                                                *)
LEMMA PopAscending ==
  ASSUME NEW s \in Seq(Nat), s # << >>, Ascending(s)
  PROVE  /\ Ascending(Tail(s))
         /\ \A y \in Elements(Tail(s)) : Head(s) < y
<1>1. /\ Len(s) \in Nat \ {0}
      /\ \A i \in 1 .. Len(s) - 1 : Tail(s)[i] = s[i + 1]
      /\ Head(s) = s[1]
      /\ DOMAIN s = 1 .. Len(s) /\ DOMAIN Tail(s) = 1 .. Len(s) - 1
  OBVIOUS
<1>2. \A i \in 1 .. Len(s) - 1 : Head(s) < Tail(s)[i] BY <1>1 DEF Ascending
<1>3. ASSUME NEW i \in DOMAIN Tail(s), NEW j \in DOMAIN Tail(s), i < j
      PROVE  Tail(s)[i] < Tail(s)[j]
  <2>1. i + 1 \in DOMAIN s /\ j + 1 \in DOMAIN s /\ i + 1 < j + 1 BY <1>1, <1>3
  <2>2. s[i + 1] < s[j + 1] BY <2>1 DEF Ascending
  <2>3. QED BY <1>1, <1>3, <2>2
<1>4. QED BY <1>1, <1>2, <1>3 DEF Ascending, Elements

-----------------------------------------------------------------------------
(* A listener polls only once all its handlers are registered, and nothing *)
(* is in the queues of one that is not in the list yet.                    *)
SetupInv ==
    \A l \in Owner :
        /\ pc[l] \in {"born", "ctor"} => events[l] = << >> /\ rawEvents[l] = << >>
        /\ pc[l] \notin {"born", "ctor", "setup"} => handlers[l] = Handles[l]

(* The queue invariant, for one listener: both queues ascend, the handled  *)
(* events come before the queue, the queue before the raw queue, the raw   *)
(* queue before the push on its way, and every due event is in one of them. *)
Queued(l) == Elements(events[l]) \cup Elements(rawEvents[l])

QueueOf(l) ==
    /\ Ascending(events[l]) /\ Ascending(rawEvents[l])
    /\ cursor[l] <= Len(log)
    /\ \A n \in Queued(l) : cursor[l] < n /\ n <= Len(log)
    /\ \A n \in Elements(events[l]) : log[n] \in Handles[l]
    /\ \A m \in Elements(events[l]), n \in Elements(rawEvents[l]) : m < n
    /\ \A n \in InFlight(l) : cursor[l] < n /\ n \notin Queued(l)
    /\ l \in listeners => \A n \in cursor[l] + 1 .. Len(log) :
                              log[n] \in Handles[l] => n \in Queued(l) \cup InFlight(l)

QueueInv == \A l \in Owner : QueueOf(l)

(* Initially the queues of every listener are empty.                       *)
LEMMA SetupInit == Init => SetupInv
BY DEF Init, SetupInv

(* A listener leaves its setup with all its handlers registered, and no    *)
(* push reaches it before it is in the list.                               *)
LEMMA SetupNext == TypeOK /\ LockInv /\ SetupInv /\ [Next]_vars => SetupInv'
<1> SUFFICES ASSUME TypeOK, LockInv, SetupInv, [Next]_vars PROVE SetupInv'
  OBVIOUS
<1> USE DEF TypeOK, Maybe, At, Goto, listenerVars, pushVars, SetupInv
<1>1. ASSUME NEW t \in Thread, HandleAllEvents(t) PROVE SetupInv'
  <2>1. CASE PollLockRaw(t) BY <2>1 DEF PollLockRaw
  <2>2. CASE PollNothing(t) BY <2>2 DEF PollNothing
  <2>3. CASE PollLockEvents(t) BY <2>3 DEF PollLockEvents
  <2>4. CASE PollLockHandlers(t) BY <2>4 DEF PollLockHandlers
  <2>5. CASE PollOne(t) BY <2>5 DEF PollOne
  <2>6. CASE PollUnlock(t) BY <2>6 DEF PollUnlock
  <2>7. CASE NotEmpty(t) BY <2>7 DEF NotEmpty
  <2>8. CASE HandleLockEvents(t) BY <2>8 DEF HandleLockEvents
  <2>9. CASE HandleLockHandlers(t) BY <2>9 DEF HandleLockHandlers
  <2>10. CASE HandleOne(t) BY <2>10 DEF HandleOne
  <2>11. CASE HandlerReturns(t) BY <2>11 DEF HandlerReturns
  <2>12. CASE HandleDone(t) BY <2>12 DEF HandleDone
  <2>13. QED BY <1>1, <2>1, <2>2, <2>3, <2>4, <2>5, <2>6, <2>7, <2>8, <2>9, <2>10, <2>11, <2>12
            DEF HandleAllEvents
<1>2. ASSUME NEW t \in Thread, Lifetime(t) PROVE SetupInv'
  <2>1. CASE CtorLock(t) BY <2>1 DEF CtorLock
  <2>2. CASE CtorPushBack(t) BY <2>2 DEF CtorPushBack
  <2>3. CASE EnterLoop(t) BY <2>3 DEF EnterLoop
  <2>4. CASE LeaveLoop(t) BY <2>4 DEF LeaveLoop
  <2>5. CASE HandlerThrows(t) BY <2>5 DEF HandlerThrows
  <2>6. CASE DtorLock(t) BY <2>6 DEF DtorLock
  <2>7. CASE DtorRemove(t) BY <2>7 DEF DtorRemove
  <2>8. ASSUME NEW k \in Kind, RegisterHandler(t, k) PROVE SetupInv'
    BY <2>8 DEF RegisterHandler
  <2>9. QED BY <1>2, <2>1, <2>2, <2>3, <2>4, <2>5, <2>6, <2>7, <2>8 DEF Lifetime
<1>3. ASSUME NEW t \in Thread, PushEvent(t) PROVE SetupInv'
  <2>1. ASSUME NEW k \in Kind, PushCall(t, k) PROVE SetupInv'
    BY <2>1 DEF PushCall
  <2>2. CASE PushLock(t) BY <2>2 DEF PushLock
  <2>3. ASSUME NEW l \in Owner, PushOne(t, l) PROVE SetupInv'
    BY <2>3 DEF PushOne, LockInv, Listening, PushOnItsWay
  <2>4. CASE PushUnlock(t) BY <2>4 DEF PushUnlock
  <2>5. QED BY <1>3, <2>1, <2>2, <2>3, <2>4 DEF PushEvent
<1>4. CASE UNCHANGED vars BY <1>4 DEF vars
<1>5. QED BY <1>1, <1>2, <1>3, <1>4 DEF Next

(* Initially the queue invariant holds: there are no events.               *)
LEMMA QueueInit == Init => QueueInv
BY DEF Init, QueueInv, QueueOf, Queued, InFlight, Ascending, Elements

(* The steps that touch no queue, no cursor and no push on its way.        *)
queueVars == <<events, rawEvents, cursor, log, pushRest>>

(* A step that changes neither the queues of a listener nor what is on     *)
(* its way keeps its queue invariant.                                      *)
LEMMA QueueFrame ==
  ASSUME NEW l \in Owner, QueueOf(l),
         events'[l] = events[l], rawEvents'[l] = rawEvents[l], cursor'[l] = cursor[l],
         log' = log, \A t \in Thread : l \in pushRest'[t] <=> l \in pushRest[t],
         l \in listeners' => l \in listeners
  PROVE  QueueOf(l)'
BY DEF QueueOf, Queued, InFlight

(* A listener that enters the list is due nothing (event.cpp:6-9).         *)
LEMMA QueueCtorPushBack ==
  ASSUME TypeOK, LockInv, SetupInv, QueueInv, NEW t \in Thread, CtorPushBack(t)
  PROVE  QueueInv'
<1> USE DEF TypeOK, Maybe
<1>1. t \in Owner /\ pc[t] = "ctor" /\ pushAt[t] = "none" /\ listenersMutex = t
  BY DEF CtorPushBack, At, LockInv, HoldsListeners
<1>2. events[t] = << >> /\ rawEvents[t] = << >> BY <1>1 DEF SetupInv
<1>3. \A u \in Thread : t \notin pushRest[u]
  BY <1>1 DEF LockInv, PushOnItsWay, Listening
<1>4. QueueOf(t)'
  <2>1. /\ events'[t] = << >> /\ rawEvents'[t] = << >> /\ cursor'[t] = Len(log) /\ log' = log
        /\ pushRest' = pushRest
    BY <1>1, <1>2 DEF CtorPushBack, listenerVars, pushVars
  <2>2. Queued(t)' = {} /\ InFlight(t)' = {} /\ Elements(events'[t]) = {}
    BY <1>3, <2>1 DEF Queued, InFlight, Elements
  <2>3. Ascending(events'[t]) /\ Ascending(rawEvents'[t]) BY <2>1 DEF Ascending
  <2>4. Len(log) \in Nat OBVIOUS
  <2>5. QED BY <2>1, <2>2, <2>3, <2>4 DEF QueueOf
<1>5. ASSUME NEW l \in Owner, l # t PROVE QueueOf(l)'
  BY <1>1, <1>5, QueueFrame DEF QueueInv, CtorPushBack, listenerVars, pushVars
<1>6. QED BY <1>4, <1>5 DEF QueueInv

(* Moving the oldest raw event to the queue, or dropping it when no        *)
(* handler is registered for it, keeps every due event somewhere           *)
(* (event.cpp:63-68).                                                      *)
LEMMA QueuePollOne ==
  ASSUME TypeOK, LockInv, SetupInv, QueueInv, NEW t \in Thread, PollOne(t)
  PROVE  QueueInv'
<1> USE DEF TypeOK, Maybe
<1>1. t \in Owner /\ pc[t] = "polling" /\ rawEvents[t] # << >> /\ QueueOf(t)
  BY DEF PollOne, At, QueueInv
<1> DEFINE s == rawEvents[t]
           q == events[t]
           n == Head(s)
<1>2. handlers[t] = Handles[t] BY <1>1 DEF SetupInv
<1>3. s \in Seq(Nat) /\ q \in Seq(Nat) BY <1>1
<1>4. n \in Nat /\ Tail(s) \in Seq(Nat) /\ Elements(s) = Elements(Tail(s)) \cup {n}
  BY <1>1, <1>3, PopElements
<1>5. Ascending(Tail(s)) /\ \A y \in Elements(Tail(s)) : n < y
  BY <1>1, <1>3, PopAscending DEF QueueOf
<1>6. rawEvents'[t] = Tail(s) /\ UNCHANGED <<cursor, log, listeners, pushRest>>
  BY <1>1 DEF PollOne, pushVars
<1>7. InFlight(t)' = InFlight(t) BY <1>6 DEF InFlight
<1>8. ASSUME log[n] \in handlers[t] /\ events'[t] = Append(q, n) PROVE QueueOf(t)'
  <2>1. Elements(Append(q, n)) = Elements(q) \cup {n} BY <1>3, <1>4, PushElements
  <2>2. Ascending(Append(q, n))
    <3>1. \A y \in Elements(q) : y < n BY <1>1, <1>4 DEF QueueOf
    <3>2. QED BY <1>1, <1>3, <1>4, <3>1, PushAscending DEF QueueOf
  <2>3. Queued(t)' = Queued(t) BY <1>4, <1>6, <1>8, <2>1 DEF Queued
  <2>4. QueueOf(t)'
    <3>1. Elements(events[t])' = Elements(q) \cup {n} BY <1>8, <2>1
    <3>2. Elements(rawEvents[t])' = Elements(Tail(s)) BY <1>6
    <3>3. \A m \in Elements(events[t])' : log'[m] \in Handles[t]
      BY <1>1, <1>2, <1>6, <1>8, <3>1 DEF QueueOf
    <3>4. \A m \in Elements(events[t])', k \in Elements(rawEvents[t])' : m < k
      BY <1>1, <1>4, <1>5, <3>1, <3>2 DEF QueueOf
    <3>5. Ascending(events'[t]) /\ Ascending(rawEvents'[t]) BY <1>5, <1>6, <1>8, <2>2
    <3>6. QED BY <1>1, <1>6, <1>7, <2>3, <3>3, <3>4, <3>5 DEF QueueOf
  <2>5. QED BY <2>4
<1>9. ASSUME log[n] \notin handlers[t] /\ events'[t] = q PROVE QueueOf(t)'
  <2>1. Queued(t) = Queued(t)' \cup {n} BY <1>4, <1>6, <1>9 DEF Queued
  <2>2. Elements(rawEvents[t])' = Elements(Tail(s)) BY <1>6
  <2>3. log[n] \notin Handles[t] BY <1>2, <1>9
  <2>4. \A m \in Elements(events[t])', k \in Elements(rawEvents[t])' : m < k
    BY <1>1, <1>4, <1>9, <2>2 DEF QueueOf
  <2>5. t \in listeners' => \A m \in cursor'[t] + 1 .. Len(log') :
                              log'[m] \in Handles[t] => m \in Queued(t)' \cup InFlight(t)'
    BY <1>1, <1>6, <1>7, <2>1, <2>3 DEF QueueOf
  <2>6. \A m \in Queued(t)' : m \in Queued(t) BY <2>1
  <2>7. Ascending(events'[t]) /\ Ascending(rawEvents'[t]) BY <1>1, <1>5, <1>6, <1>9 DEF QueueOf
  <2>8. QED BY <1>1, <1>6, <1>7, <1>9, <2>4, <2>5, <2>6, <2>7 DEF QueueOf
<1>10. QueueOf(t)'
  <2>1. \/ log[n] \in handlers[t] /\ events'[t] = Append(q, n)
        \/ log[n] \notin handlers[t] /\ events'[t] = q
    BY <1>1 DEF PollOne
  <2>2. QED BY <1>8, <1>9, <2>1
<1>11. ASSUME NEW l \in Owner, l # t PROVE QueueOf(l)'
  <2>1. events'[l] = events[l] /\ rawEvents'[l] = rawEvents[l] BY <1>1, <1>11 DEF PollOne
  <2>2. QED BY <1>6, <2>1, QueueFrame DEF QueueInv
<1>12. QED BY <1>10, <1>11 DEF QueueInv

(* Popping the front event moves the cursor to the oldest event that is    *)
(* due (event.cpp:35-40).                                                  *)
LEMMA QueueHandleOne ==
  ASSUME TypeOK, LockInv, SetupInv, QueueInv, NEW t \in Thread, HandleOne(t)
  PROVE  /\ QueueInv'
         /\ t \in Owner
         /\ log[Head(events[t])] \in Handles[t]
         /\ cursor' = [cursor EXCEPT ![t] = Head(events[t])]
         /\ Head(events[t]) \in cursor[t] + 1 .. Len(log)
         /\ \A n \in cursor[t] + 1 .. Head(events[t]) - 1 :
                t \in listeners => log[n] \notin Handles[t]
<1> USE DEF TypeOK, Maybe
<1>1. t \in Owner /\ pc[t] = "handling" /\ events[t] # << >> /\ QueueOf(t)
  BY DEF HandleOne, At, QueueInv
<1> DEFINE s == rawEvents[t]
           q == events[t]
           n == Head(q)
<1>2. handlers[t] = Handles[t] BY <1>1 DEF SetupInv
<1>3. s \in Seq(Nat) /\ q \in Seq(Nat) /\ cursor[t] \in Nat /\ Len(log) \in Nat BY <1>1
<1>4. n \in Nat /\ Tail(q) \in Seq(Nat) /\ Elements(q) = Elements(Tail(q)) \cup {n}
  BY <1>1, <1>3, PopElements
<1>5. Ascending(Tail(q)) /\ \A y \in Elements(Tail(q)) : n < y
  BY <1>1, <1>3, PopAscending DEF QueueOf
<1>6. log[n] \in Handles[t] /\ n \in cursor[t] + 1 .. Len(log)
  BY <1>1, <1>3, <1>4 DEF QueueOf, Queued
<1>7. /\ events'[t] = Tail(q) /\ cursor' = [cursor EXCEPT ![t] = n] /\ cursor'[t] = n
      /\ UNCHANGED <<rawEvents, log, listeners, pushRest>>
  BY <1>1, <1>2, <1>6 DEF HandleOne, pushVars
<1>8. InFlight(t)' = InFlight(t) BY <1>7 DEF InFlight
<1>9. Queued(t) = Queued(t)' \cup {n} BY <1>4, <1>7 DEF Queued
<1>10. \A y \in Queued(t)' : n < y
  BY <1>1, <1>4, <1>5, <1>7 DEF QueueOf, Queued
<1>11. \A y \in InFlight(t) : n < y
  BY <1>1, <1>3, <1>6, <1>9 DEF QueueOf, InFlight
<1>12. QueueOf(t)'
  <2>1. Ascending(events'[t]) /\ Ascending(rawEvents'[t]) BY <1>1, <1>5, <1>7 DEF QueueOf
  <2>2. cursor'[t] <= Len(log') BY <1>6, <1>7
  <2>3. \A m \in Queued(t)' : cursor'[t] < m /\ m <= Len(log')
    BY <1>1, <1>7, <1>9, <1>10 DEF QueueOf
  <2>4. Elements(events[t])' = Elements(Tail(q)) BY <1>7
  <2>5. \A m \in Elements(events[t])' : log'[m] \in Handles[t]
    BY <1>1, <1>4, <1>7, <2>4 DEF QueueOf
  <2>6. \A m \in Elements(events[t])', k \in Elements(rawEvents[t])' : m < k
    BY <1>1, <1>4, <1>7, <2>4 DEF QueueOf
  <2>7. \A m \in InFlight(t)' : cursor'[t] < m /\ m \notin Queued(t)'
    BY <1>1, <1>7, <1>8, <1>9, <1>11 DEF QueueOf
  <2>8. t \in listeners' => \A m \in cursor'[t] + 1 .. Len(log') :
                              log'[m] \in Handles[t] => m \in Queued(t)' \cup InFlight(t)'
    <3> SUFFICES ASSUME t \in listeners, NEW m \in n + 1 .. Len(log), log[m] \in Handles[t]
                 PROVE  m \in Queued(t)' \cup InFlight(t)
      BY <1>7, <1>8
    <3>1. m \in cursor[t] + 1 .. Len(log) /\ m # n BY <1>3, <1>6
    <3>2. QED BY <1>1, <1>9, <3>1 DEF QueueOf
  <2>9. QED BY <2>1, <2>2, <2>3, <2>5, <2>6, <2>7, <2>8 DEF QueueOf
<1>13. ASSUME NEW l \in Owner, l # t PROVE QueueOf(l)'
  <2>1. events'[l] = events[l] /\ cursor'[l] = cursor[l] BY <1>1, <1>7, <1>13 DEF HandleOne
  <2>2. QED BY <1>7, <2>1, QueueFrame DEF QueueInv
<1>14. ASSUME NEW m \in cursor[t] + 1 .. n - 1, t \in listeners PROVE log[m] \notin Handles[t]
  <2>1. m \in cursor[t] + 1 .. Len(log) /\ m < n BY <1>3, <1>6, <1>14
  <2>2. m \in Int /\ ~(n < m) /\ m # n BY <1>3, <1>4, <2>1
  <2>3. m \notin Queued(t) \cup InFlight(t) BY <1>9, <1>10, <1>11, <2>2
  <2>4. QED BY <1>1, <1>14, <2>1, <2>3 DEF QueueOf
<1>15. QED BY <1>1, <1>6, <1>7, <1>12, <1>13, <1>14 DEF QueueInv

(* The event of a push that has got the mutex of the list is the newest,   *)
(* and is on its way to every listener (event.hpp:104).                    *)
LEMMA QueuePushLock ==
  ASSUME TypeOK, LockInv, QueueInv, NEW t \in Thread, PushLock(t)
  PROVE  QueueInv'
<1> USE DEF TypeOK, Maybe
<1> SUFFICES ASSUME NEW l \in Owner PROVE QueueOf(l)'
  BY DEF QueueInv
<1>1. pushId[t] \in Kind /\ log' = Append(log, pushId[t]) BY DEF PushLock
<1>2. /\ Len(log) \in Nat /\ Len(log') = Len(log) + 1
      /\ \A n \in 1 .. Len(log) : log'[n] = log[n]
  BY <1>1
<1>3. /\ UNCHANGED <<listeners, events, rawEvents, cursor>>
      /\ pushRest' = [pushRest EXCEPT ![t] = listeners]
  BY DEF PushLock, listenerVars
<1>4. \A u \in Thread : pushRest[u] = {}
  BY DEF PushLock, LockInv, HoldsListeners, PushOnItsWay
<1>5. InFlight(l) = {} BY <1>4 DEF InFlight
<1>6. InFlight(l)' = IF l \in listeners THEN {Len(log) + 1} ELSE {}
  BY <1>2, <1>3, <1>4 DEF InFlight
<1>7. Queued(l)' = Queued(l) BY <1>3 DEF Queued
<1>8. QueueOf(l) /\ cursor[l] \in Nat BY DEF QueueInv
<1>9. \A n \in Queued(l) : n \in 1 .. Len(log)
  <2>1. ASSUME NEW n \in Queued(l) PROVE n \in Nat
    BY DEF Queued, Elements
  <2>2. QED BY <1>2, <1>8, <2>1 DEF QueueOf
<1>10. \A n \in InFlight(l)' : cursor'[l] < n /\ n \notin Queued(l)'
  BY <1>2, <1>3, <1>6, <1>7, <1>8, <1>9 DEF QueueOf
<1>11. \A n \in Elements(events[l])' : log'[n] \in Handles[l]
  BY <1>2, <1>3, <1>8, <1>9 DEF QueueOf, Queued
<1>12. l \in listeners' => \A n \in cursor'[l] + 1 .. Len(log') :
                             log'[n] \in Handles[l] => n \in Queued(l)' \cup InFlight(l)'
  <2> SUFFICES ASSUME l \in listeners, NEW n \in cursor[l] + 1 .. Len(log) + 1,
                      log'[n] \in Handles[l]
               PROVE  n \in Queued(l) \cup {Len(log) + 1}
    BY <1>2, <1>3, <1>6, <1>7
  <2>1. CASE n \in cursor[l] + 1 .. Len(log)
    <3>1. n \in 1 .. Len(log) BY <1>2, <1>8, <2>1
    <3>2. log[n] \in Handles[l] BY <1>2, <3>1
    <3>3. n \in Queued(l) \cup InFlight(l) BY <1>8, <2>1, <3>2 DEF QueueOf
    <3>4. QED BY <1>5, <3>3
  <2>2. CASE n = Len(log) + 1 BY <2>2
  <2>3. QED BY <1>2, <1>8, <2>1, <2>2
<1>13. /\ cursor'[l] <= Len(log')
       /\ \A n \in Queued(l)' : cursor'[l] < n /\ n <= Len(log')
  BY <1>2, <1>3, <1>7, <1>8, <1>9 DEF QueueOf
<1>14. /\ Ascending(events[l])' /\ Ascending(rawEvents[l])'
       /\ \A m \in Elements(events[l])', n \in Elements(rawEvents[l])' : m < n
  BY <1>3, <1>8 DEF QueueOf
<1>15. QED BY <1>10, <1>11, <1>12, <1>13, <1>14 DEF QueueOf

(* A visit puts the newest event behind all others of a listener           *)
(* (event.hpp:106-107).                                                    *)
LEMMA QueuePushOne ==
  ASSUME TypeOK, LockInv, QueueInv, NEW t \in Thread, NEW l \in Owner, PushOne(t, l)
  PROVE  QueueInv'
<1> USE DEF TypeOK, Maybe
<1> DEFINE s == rawEvents[l]
           n == Len(log)
<1>1. l \in pushRest[t] /\ listenersMutex = t /\ QueueOf(l)
  BY DEF PushOne, LockInv, HoldsListeners, QueueInv
<1>2. n \in Nat /\ s \in Seq(Nat) OBVIOUS
<1>3. InFlight(l) = {n} BY <1>1 DEF InFlight
<1>4. /\ rawEvents'[l] = Append(s, n) /\ pushRest' = [pushRest EXCEPT ![t] = @ \ {l}]
      /\ UNCHANGED <<events, cursor, log, listeners>>
  BY DEF PushOne
<1>5. \A u \in Thread \ {t} : pushRest[u] = {}
  BY <1>1 DEF LockInv, HoldsListeners, PushOnItsWay
<1>6. InFlight(l)' = {} BY <1>4, <1>5 DEF InFlight
<1>7. Elements(rawEvents[l])' = Elements(s) \cup {n} BY <1>2, <1>4, PushElements
<1>8. Queued(l)' = Queued(l) \cup {n} BY <1>4, <1>7 DEF Queued
<1>9. cursor[l] < n /\ n \notin Queued(l) BY <1>1, <1>3 DEF QueueOf
<1>10. \A m \in Queued(l) : m < n
  <2>1. ASSUME NEW m \in Queued(l) PROVE m \in Nat BY DEF Queued, Elements
  <2>2. QED BY <1>1, <1>2, <1>9, <2>1 DEF QueueOf
<1>11. QueueOf(l)'
  <2>1. Ascending(rawEvents[l])'
    <3>1. Ascending(s) /\ \A m \in Elements(s) : m < n BY <1>1, <1>10 DEF QueueOf, Queued
    <3>2. Ascending(Append(s, n)) BY <1>2, <3>1, PushAscending
    <3>3. QED BY <1>4, <3>2
  <2>2. \A m \in Elements(events[l])', k \in Elements(rawEvents[l])' : m < k
    BY <1>1, <1>4, <1>7, <1>10 DEF QueueOf, Queued
  <2>3. \A m \in Queued(l)' : cursor'[l] < m /\ m <= Len(log')
    BY <1>1, <1>2, <1>4, <1>8, <1>9 DEF QueueOf
  <2>4. l \in listeners' => \A m \in cursor'[l] + 1 .. Len(log') :
                              log'[m] \in Handles[l] => m \in Queued(l)' \cup InFlight(l)'
    BY <1>1, <1>3, <1>4, <1>8 DEF QueueOf
  <2>5. QED BY <1>1, <1>4, <1>6, <2>1, <2>2, <2>3, <2>4 DEF QueueOf
<1>12. ASSUME NEW k \in Owner, k # l PROVE QueueOf(k)'
  <2>1. rawEvents'[k] = rawEvents[k] BY <1>12 DEF PushOne
  <2>2. \A u \in Thread : k \in pushRest'[u] <=> k \in pushRest[u] BY <1>4, <1>12
  <2>3. QED BY <1>4, <2>1, <2>2, QueueFrame DEF QueueInv
<1>13. QED BY <1>11, <1>12 DEF QueueInv

(* Every step keeps the queue invariant of every listener.                 *)
LEMMA QueueNext == TypeOK /\ LockInv /\ SetupInv /\ QueueInv /\ [Next]_vars => QueueInv'
<1> SUFFICES ASSUME TypeOK, LockInv, SetupInv, QueueInv, [Next]_vars PROVE QueueInv'
  OBVIOUS
<1>1. ASSUME UNCHANGED queueVars, listeners' \subseteq listeners PROVE QueueInv'
  BY <1>1, QueueFrame DEF QueueInv, queueVars
<1>2. ASSUME NEW t \in Thread, HandleAllEvents(t) PROVE QueueInv'
  <2>1. CASE PollOne(t) BY <2>1, QueuePollOne
  <2>2. CASE HandleOne(t) BY <2>2, QueueHandleOne
  <2>3. CASE ~PollOne(t) /\ ~HandleOne(t)
    BY <1>1, <1>2, <2>3
       DEF HandleAllEvents, PollLockRaw, PollNothing, PollLockEvents, PollLockHandlers,
           PollUnlock, NotEmpty, HandleLockEvents, HandleLockHandlers, HandlerReturns,
           HandleDone, listenerVars, pushVars, queueVars
  <2>4. QED BY <2>1, <2>2, <2>3
<1>3. ASSUME NEW t \in Thread, Lifetime(t) PROVE QueueInv'
  <2>1. CASE CtorPushBack(t) BY <2>1, QueueCtorPushBack
  <2>2. CASE ~CtorPushBack(t)
    BY <1>1, <1>3, <2>2
       DEF Lifetime, CtorLock, EnterLoop, LeaveLoop, HandlerThrows, DtorLock, DtorRemove,
           RegisterHandler, listenerVars, pushVars, queueVars
  <2>3. QED BY <2>1, <2>2
<1>4. ASSUME NEW t \in Thread, PushEvent(t) PROVE QueueInv'
  <2>1. ASSUME NEW k \in Kind, PushCall(t, k) PROVE QueueInv'
    BY <1>1, <2>1 DEF PushCall, listenerVars, queueVars
  <2>2. CASE PushLock(t) BY <2>2, QueuePushLock
  <2>3. ASSUME NEW l \in Owner, PushOne(t, l) PROVE QueueInv'
    BY <2>3, QueuePushOne
  <2>4. CASE PushUnlock(t) BY <1>1, <2>4 DEF PushUnlock, listenerVars, queueVars
  <2>5. QED BY <1>4, <2>1, <2>2, <2>3, <2>4 DEF PushEvent
<1>5. CASE UNCHANGED vars BY <1>1, <1>5 DEF vars, listenerVars, pushVars, queueVars
<1>6. QED BY <1>2, <1>3, <1>4, <1>5 DEF Next

(* The inductive invariant of the event system.                            *)
IInv == TypeOK /\ LockInv /\ SetupInv /\ QueueInv

(* The conjunction of the four invariants holds in every reachable state   *)
(* (event.cpp:6-69, event.hpp:100-109).                                    *)
THEOREM InductiveInvariant == Spec => []IInv
<1>1. Init => IInv BY TypeInit, LockInit, SetupInit, QueueInit DEF IInv
<1>2. IInv /\ [Next]_vars => IInv'
  BY TypeNext, LockNext, SetupNext, QueueNext DEF IInv
<1>3. QED BY <1>1, <1>2, PTL DEF Spec

(* Every event a registered listener is due is in one of its queues or on  *)
(* its way to it, and nothing else it handles is there.                    *)
THEOREM NothingIsLost == Spec => []NothingLost
<1>1. ASSUME IInv PROVE NothingLost
  <2> SUFFICES ASSUME NEW l \in listeners
               PROVE  {n \in Pending(l) : log[n] \in Handles[l]}
                        = {n \in cursor[l] + 1 .. Len(log) : log[n] \in Handles[l]}
    BY DEF NothingLost
  <2>1. l \in Owner /\ QueueOf(l) /\ cursor[l] \in Nat /\ Len(log) \in Nat
    BY <1>1 DEF IInv, TypeOK, QueueInv
  <2>2. Pending(l) = Queued(l) \cup InFlight(l) BY DEF Pending, Queued
  <2>3. \A n \in Queued(l) : n \in Nat
    BY <1>1, <2>1 DEF IInv, TypeOK, Queued, Elements
  <2>4. \A n \in Pending(l) : n \in cursor[l] + 1 .. Len(log)
    BY <2>1, <2>2, <2>3 DEF QueueOf, InFlight
  <2>5. \A n \in cursor[l] + 1 .. Len(log) : log[n] \in Handles[l] => n \in Pending(l)
    BY <2>1, <2>2 DEF QueueOf
  <2>6. QED BY <2>4, <2>5
<1>2. QED BY <1>1, InductiveInvariant, PTL

-----------------------------------------------------------------------------
(* Each step of the locks and queues is one step of the broadcast log, or  *)
(* none: Publish where a push takes listenersMutex, Deliver where a        *)
(* handler is called, Join and Leave where the list changes.               *)

(* A step to any place but the end destroys no listener.                   *)
LEMMA GoneUnchanged ==
  ASSUME TypeOK, NEW t \in Thread, pc[t] # "gone",
         pc' = pc \/ (\E label \in {"ctor", "setup", "idle", "poll", "pollLocked", "polling",
                                    "check", "handle", "handleLocked", "handling", "handler",
                                    "leaving", "dtor"} : Goto(t, label))
  PROVE  {l \in Owner : pc'[l] = "gone"} = {l \in Owner : pc[l] = "gone"}
BY DEF TypeOK, Goto

(* Every step of the lock-level system is a step of EventBus or leaves     *)
(* its variables alone.                                                    *)
LEMMA BusStep == IInv /\ [Next]_vars => [Bus!BusNext]_(Bus!busVars)
<1> SUFFICES ASSUME IInv, [Next]_vars PROVE [Bus!BusNext]_(Bus!busVars)
  OBVIOUS
<1> USE DEF IInv, Bus!busVars
<1> DEFINE Gone == {l \in Owner : pc[l] = "gone"}
<1>1. ASSUME NEW t \in Thread, HandleAllEvents(t) PROVE [Bus!BusNext]_(Bus!busVars)
  <2>1. Gone' = Gone
    <3>1. pc[t] # "gone"
      BY <1>1 DEF HandleAllEvents, PollLockRaw, PollNothing, PollLockEvents, PollLockHandlers,
           PollOne, PollUnlock, NotEmpty, HandleLockEvents, HandleLockHandlers, HandleOne,
           HandlerReturns, HandleDone, At
    <3>2. pc' = pc \/ (\E label \in {"idle", "poll", "pollLocked", "polling", "check", "handle",
                                     "handleLocked", "handling", "handler"} : Goto(t, label))
      BY <1>1 DEF HandleAllEvents, PollLockRaw, PollNothing, PollLockEvents, PollLockHandlers,
           PollOne, PollUnlock, NotEmpty, HandleLockEvents, HandleLockHandlers, HandleOne,
           HandlerReturns, HandleDone
    <3>3. QED BY <3>1, <3>2, GoneUnchanged
  <2>2. CASE HandleOne(t)
    <3>1. /\ t \in Owner /\ log[Head(events[t])] \in Handles[t]
          /\ cursor' = [cursor EXCEPT ![t] = Head(events[t])]
          /\ Head(events[t]) \in cursor[t] + 1 .. Len(log)
          /\ \A n \in cursor[t] + 1 .. Head(events[t]) - 1 :
                t \in listeners => log[n] \notin Handles[t]
      BY <2>2, QueueHandleOne
    <3>2. t \in listeners BY <2>2, <3>1 DEF HandleOne, At, LockInv, Listening
    <3>3. Head(events[t]) \in Bus!Due(t) BY <3>1 DEF Bus!Due
    <3>4. \A m \in Bus!Due(t) : Head(events[t]) <= m
      <4>1. SUFFICES ASSUME NEW m \in Bus!Due(t), ~(Head(events[t]) <= m) PROVE FALSE
        OBVIOUS
      <4>2. cursor[t] \in Nat /\ Len(log) \in Nat BY <3>1 DEF TypeOK
      <4>3. m \in cursor[t] + 1 .. Head(events[t]) - 1 BY <3>1, <4>1, <4>2 DEF Bus!Due
      <4>4. QED BY <3>1, <3>2, <4>1, <4>3 DEF Bus!Due
    <3>5. UNCHANGED <<log, listeners>> BY <2>2 DEF HandleOne
    <3>6. Bus!Deliver(t) BY <2>1, <3>1, <3>2, <3>3, <3>4, <3>5 DEF Bus!Deliver
    <3>7. QED BY <3>1, <3>6 DEF Bus!BusNext
  <2>3. CASE ~HandleOne(t)
    <3>1. UNCHANGED <<log, listeners, cursor>>
      BY <1>1, <2>3 DEF HandleAllEvents, PollLockRaw, PollNothing, PollLockEvents,
           PollLockHandlers, PollOne, PollUnlock, NotEmpty, HandleLockEvents,
           HandleLockHandlers, HandlerReturns, HandleDone
    <3>2. QED BY <2>1, <3>1
  <2>4. QED BY <2>2, <2>3
<1>2. ASSUME NEW t \in Thread, Lifetime(t) PROVE [Bus!BusNext]_(Bus!busVars)
  <2>1. CASE CtorPushBack(t)
    <3>1. t \in Owner /\ t \notin listeners \cup Gone
      BY <2>1 DEF CtorPushBack, At, TypeOK, LockInv, Listening
    <3>2. Gone' = Gone BY <2>1, GoneUnchanged DEF CtorPushBack, At
    <3>3. Bus!Join(t) BY <2>1, <3>1, <3>2 DEF CtorPushBack, Bus!Join
    <3>4. QED BY <3>1, <3>3 DEF Bus!BusNext
  <2>2. CASE DtorRemove(t)
    <3>1. t \in Owner /\ t \in listeners
      BY <2>2 DEF DtorRemove, At, TypeOK, LockInv, Listening
    <3>2. Gone' = Gone \cup {t} BY <2>2, <3>1 DEF DtorRemove, Goto, TypeOK
    <3>3. Bus!Leave(t) BY <2>2, <3>1, <3>2 DEF DtorRemove, Bus!Leave
    <3>4. QED BY <3>1, <3>3 DEF Bus!BusNext
  <2>3. CASE ~CtorPushBack(t) /\ ~DtorRemove(t)
    <3>1. UNCHANGED <<log, listeners, cursor>>
      BY <1>2, <2>3 DEF Lifetime, CtorLock, EnterLoop, LeaveLoop, HandlerThrows, DtorLock,
           RegisterHandler
    <3>2. pc[t] # "gone"
      BY <1>2, <2>3 DEF Lifetime, CtorLock, EnterLoop, LeaveLoop, HandlerThrows, DtorLock,
           RegisterHandler, At
    <3>3. pc' = pc \/ (\E label \in {"ctor", "idle", "leaving", "dtor"} : Goto(t, label))
      BY <1>2, <2>3 DEF Lifetime, CtorLock, EnterLoop, LeaveLoop, HandlerThrows, DtorLock,
           RegisterHandler
    <3>4. Gone' = Gone BY <3>2, <3>3, GoneUnchanged
    <3>5. QED BY <3>1, <3>4
  <2>4. QED BY <2>1, <2>2, <2>3
<1>3. ASSUME NEW t \in Thread, PushEvent(t) PROVE [Bus!BusNext]_(Bus!busVars)
  <2>1. UNCHANGED <<pc, listeners, cursor>>
    BY <1>3 DEF PushEvent, PushCall, PushLock, PushOne, PushUnlock
  <2>2. CASE PushLock(t)
    <3>1. pushId[t] \in Kind BY <2>2 DEF PushLock, TypeOK
    <3>2. Bus!Publish(pushId[t]) BY <2>1, <2>2 DEF PushLock, Bus!Publish
    <3>3. QED BY <3>1, <3>2 DEF Bus!BusNext
  <2>3. CASE ~PushLock(t)
    <3>1. log' = log BY <1>3, <2>3 DEF PushEvent, PushCall, PushOne, PushUnlock
    <3>2. QED BY <2>1, <3>1
  <2>4. QED BY <2>2, <2>3
<1>4. CASE UNCHANGED vars BY <1>4 DEF vars
<1>5. QED BY <1>1, <1>2, <1>3, <1>4 DEF Next

(* Only HandleOne calls a handler.                                         *)
LEMMA HandlerCall ==
  ASSUME IInv, [Next]_vars, NEW l \in Owner, pc[l] # "handler", pc'[l] = "handler"
  PROVE  HandleOne(l)
<1> USE DEF IInv, TypeOK, Goto
<1>1. ASSUME NEW t \in Thread, HandleAllEvents(t) PROVE HandleOne(l)
  <2>1. HandleOne(t)
    BY <1>1 DEF HandleAllEvents, PollLockRaw, PollNothing, PollLockEvents, PollLockHandlers,
         PollOne, PollUnlock, NotEmpty, HandleLockEvents, HandleLockHandlers, HandlerReturns,
         HandleDone
  <2>2. t = l BY <2>1 DEF HandleOne
  <2>3. QED BY <2>1, <2>2
<1>2. ASSUME NEW t \in Thread, Lifetime(t) PROVE FALSE
  BY <1>2 DEF Lifetime, CtorLock, CtorPushBack, EnterLoop, LeaveLoop, HandlerThrows, DtorLock,
       DtorRemove, RegisterHandler
<1>3. ASSUME NEW t \in Thread, PushEvent(t) PROVE FALSE
  BY <1>3 DEF PushEvent, PushCall, PushLock, PushOne, PushUnlock
<1>4. CASE UNCHANGED vars BY <1>4 DEF vars
<1>5. QED BY <1>1, <1>2, <1>3, <1>4 DEF Next

(* A listener handles events in the order of the pushes, and none twice.   *)
THEOREM HandledInPushOrder == Spec => InPushOrder
<1> DEFINE Order == \A l \in Owner :
                      /\ cursor'[l] >= cursor[l]
                      /\ (pc[l] # "handler" /\ pc'[l] = "handler") => cursor'[l] > cursor[l]
<1>1. ASSUME IInv, [Next]_vars, NEW l \in Owner PROVE cursor'[l] >= cursor[l]
  <2> USE <1>1 DEF IInv, TypeOK
  <2>1. cursor[l] \in Nat /\ cursor[l] <= Len(log) /\ Len(log) \in Nat
    BY <1>1 DEF QueueInv, QueueOf
  <2>2. ASSUME NEW k \in Owner, Bus!Join(k) PROVE cursor'[l] >= cursor[l]
    BY <2>1, <2>2 DEF Bus!Join
  <2>3. ASSUME NEW k \in Owner, Bus!Deliver(k) PROVE cursor'[l] >= cursor[l]
    <3>1. PICK n \in Bus!Due(k) : cursor' = [cursor EXCEPT ![k] = n]
      BY <2>3 DEF Bus!Deliver
    <3>2. QED BY <2>1, <3>1 DEF Bus!Due
  <2>4. CASE cursor' = cursor BY <2>1, <2>4
  <2>5. QED BY <1>1, BusStep, <2>2, <2>3, <2>4
           DEF Bus!BusNext, Bus!busVars, Bus!Publish, Bus!Leave
<1>2. ASSUME IInv, [Next]_vars, NEW l \in Owner, pc[l] # "handler", pc'[l] = "handler"
      PROVE  cursor'[l] > cursor[l]
  <2>1. HandleOne(l) BY <1>2, HandlerCall
  <2>2. /\ cursor' = [cursor EXCEPT ![l] = Head(events[l])]
        /\ Head(events[l]) \in cursor[l] + 1 .. Len(log)
    BY <1>2, <2>1, QueueHandleOne, ThreadAssumption DEF IInv
  <2>3. cursor'[l] = Head(events[l]) /\ cursor[l] \in Nat /\ Len(log) \in Nat
    BY <1>2, <2>2 DEF IInv, TypeOK
  <2>4. QED BY <2>2, <2>3
<1>3. IInv /\ [Next]_vars => [Order]_vars
  BY <1>1, <1>2
<1>4. QED BY <1>3, InductiveInvariant, PTL DEF Spec, InPushOrder

(* The lock-level event system implements the broadcast log: no event is   *)
(* lost, duplicated or reordered by the three queues and four mutexes it   *)
(* goes through.                                                           *)
THEOREM Refinement == Spec => ImplementsBus
<1>1. Init => Bus!BusInit BY DEF Init, Bus!BusInit
<1>2. QED BY <1>1, BusStep, InductiveInvariant, PTL DEF Spec, ImplementsBus, Bus!BusSpec
=============================================================================
