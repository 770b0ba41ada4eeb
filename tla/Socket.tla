------------------------------- MODULE Socket -------------------------------
(***************************************************************************)
(* Socket::Read and Socket::Write of src/src/socket.cpp: the loop that     *)
(* fills a buffer from the connection, called again and again on one       *)
(* stream of bytes, and the single call that hands a buffer to SDL_net.    *)
(*                                                                         *)
(* A byte is its position in the stream.  What SDLNet_TCP_Recv returns is  *)
(* an int (the bytes received, 0 at the end of the stream, -1 for an       *)
(* error), stored in a size_t and added to one: both are numbers below     *)
(* SizeLimit, which stands for 2^64.                                       *)
(***************************************************************************)
EXTENDS Integers

CONSTANTS MaxBuffLen,   \* bound on the length asked for
          MaxStream,    \* bound on the bytes the server sends
          SizeLimit,    \* size_t counts modulo this
          RecvResults,  \* what SDLNet_TCP_Recv may return besides a count
          MaxWrites     \* bound on the calls of Write

ASSUME SocketAssumption == /\ {MaxBuffLen, MaxStream, SizeLimit, MaxWrites} \subseteq Nat
                           /\ MaxBuffLen < SizeLimit
                           /\ RecvResults \subseteq {-1, 0}

VARIABLES pc,               \* "idle", "loop", "threw"
          buffLen, buffer,  \* the caller's buffer; 0 is a byte not written
          totalReceived,
          taken,            \* bytes taken from the stream
          base, failed,     \* history: taken when Read was called, and
                            \* whether Recv reported an error since then
          writes, handed, sent  \* history: the calls of Write that returned, the
                            \* bytes they were given, the bytes SDL_net sent

readVars == <<buffLen, buffer, totalReceived, taken, base, failed>>
writeVars == <<writes, handed, sent>>
vars == <<pc, readVars, writeVars>>

\* The conversion to size_t, and its addition.
\* ToSizeAbs is a plausible bug: the sign is lost.
ToSizeAbs(i) == IF i < 0 THEN -i ELSE i
ToSize(i) == IF i < 0 THEN SizeLimit + i ELSE i
Add(a, b) == IF a + b < SizeLimit THEN a + b ELSE a + b - SizeLimit

Init == /\ pc = "idle"
        /\ buffLen = 0 /\ buffer = [i \in 1 .. MaxBuffLen |-> 0]
        /\ totalReceived = 0
        /\ taken = 0 /\ base = 0 /\ failed = FALSE
        /\ writes = 0 /\ handed = 0 /\ sent = 0

ReadCall(n) == /\ pc = "idle"
               /\ pc' = "loop"
               /\ buffLen' = n
               /\ buffer' = [i \in 1 .. MaxBuffLen |-> 0]
               /\ totalReceived' = 0
               /\ base' = taken
               /\ failed' = FALSE
               /\ UNCHANGED <<taken, writeVars>>

\* A plausible bug: the data is received at the start of the buffer again.
ReadSomeAtStart(n) == /\ pc = "loop"
                      /\ buffLen > totalReceived
                      /\ n <= buffLen - totalReceived
                      /\ taken + n <= MaxStream
                      /\ buffer' = [i \in 1 .. MaxBuffLen |->
                                      IF i \in 1 .. n THEN taken + i ELSE buffer[i]]
                      /\ taken' = taken + n
                      /\ totalReceived' = Add(totalReceived, ToSize(n))
                      /\ UNCHANGED <<pc, buffLen, base, failed, writeVars>>

\* SDLNet_TCP_Recv puts n bytes at buffPtr + totalReceived.
ReadSome(n) == /\ pc = "loop"
               /\ buffLen > totalReceived
               /\ n <= buffLen - totalReceived
               /\ taken + n <= MaxStream
               /\ buffer' = [i \in 1 .. MaxBuffLen |->
                               IF i \in totalReceived + 1 .. totalReceived + n
                               THEN taken + (i - totalReceived) ELSE buffer[i]]
               /\ taken' = taken + n
               /\ totalReceived' = Add(totalReceived, ToSize(n))
               /\ UNCHANGED <<pc, buffLen, base, failed, writeVars>>

\* No data: the test received <= 0 is one of a size_t.
ReadNothing(r) == /\ pc = "loop"
                  /\ buffLen > totalReceived
                  /\ \/ ToSize(r) <= 0 /\ pc' = "threw" /\ UNCHANGED totalReceived
                     \/ ToSize(r) > 0 /\ UNCHANGED pc
                        /\ totalReceived' = Add(totalReceived, ToSize(r))
                  /\ failed' = (failed \/ r = -1)
                  /\ UNCHANGED <<buffLen, buffer, taken, base, writeVars>>

ReadReturn == /\ pc = "loop"
              /\ buffLen <= totalReceived
              /\ pc' = "idle"
              /\ UNCHANGED <<readVars, writeVars>>

\* A plausible bug: a write that was cut short is taken for a whole one.
WriteUnchecked(n) == /\ pc = "idle" /\ writes < MaxWrites
                     /\ \E k \in 0 .. n :
                          /\ sent' = sent + k
                          /\ handed' = handed + n
                          /\ writes' = writes + 1
                     /\ UNCHANGED <<pc, readVars>>

\* SDLNet_TCP_Send sends all of the buffer, or, when the connection fails,
\* what it could.
Write(n) == /\ pc = "idle" /\ writes < MaxWrites
            /\ \E k \in 0 .. n :
                 /\ sent' = sent + k
                 /\ \/ ToSize(k) < n /\ pc' = "threw" /\ UNCHANGED <<writes, handed>>
                    \/ ToSize(k) >= n /\ UNCHANGED pc
                       /\ writes' = writes + 1 /\ handed' = handed + n
            /\ UNCHANGED readVars

Next == \/ \E n \in 1 .. MaxBuffLen : ReadCall(n) \/ ReadSome(n) \/ Write(n)
        \/ \E r \in RecvResults : ReadNothing(r)
        \/ ReadReturn

Spec == Init /\ [][Next]_vars

-----------------------------------------------------------------------------
(* Every variable has its type; a size_t is below SizeLimit.               *)
TypeOK == /\ pc \in {"idle", "loop", "threw"}
          /\ buffLen \in 0 .. MaxBuffLen
          /\ buffer \in [1 .. MaxBuffLen -> 0 .. MaxStream]
          /\ totalReceived \in 0 .. SizeLimit - 1
          /\ {taken, base} \subseteq 0 .. MaxStream
          /\ failed \in BOOLEAN
          /\ writes \in 0 .. MaxWrites /\ {handed, sent} \subseteq Nat

BufferFilled == \A i \in 1 .. buffLen : buffer[i] = base + i

(* When Read returns, the buffer holds all the bytes asked for, the next   *)
(* of the stream in their order (socket.hpp:33: "execution flow will not   *)
(* be returned until all required data is sended").  The code breaks this  *)
(* promise when Recv reports an error.                                     *)
ReadComplete == pc = "idle" => BufferFilled

(* It keeps the promise in every call in which Recv reported no error,     *)
(* whatever the pieces arrive in and wherever the stream ends, also after  *)
(* calls that went wrong (socket.cpp:23-32).                               *)
ReadUnlessError == (pc = "idle" /\ ~failed) => BufferFilled

(* The next call goes on where the last one stopped: a call without an     *)
(* error takes from the stream exactly what it was asked for, and what     *)
(* calls of Write were given before one throws went out in full            *)
(* (socket.cpp:23-38).                                                     *)
StreamAligned == pc = "idle" => /\ ~failed => taken = base + buffLen
                                /\ sent = handed

(* Whatever Recv reports, the loop never counts a byte the stream has not  *)
(* given: an error makes it count fewer, so a byte that was received is    *)
(* overwritten by a later one, or, when nothing is counted yet, wraps the  *)
(* count and ends the loop (socket.cpp:25-30).                             *)
CountBehindStream ==
    pc = "loop" => totalReceived <= taken - base \/ totalReceived = SizeLimit - 1
=============================================================================
