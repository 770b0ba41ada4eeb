---------------------------- MODULE SocketProofs ----------------------------
(***************************************************************************)
(* Proofs about Socket, for buffers, streams and pieces of every size: a   *)
(* call of Read in which SDLNet_TCP_Recv reports no error keeps its        *)
(* promise, and no error makes it count a byte that was not received.      *)
(***************************************************************************)
EXTENDS Socket, TLAPS

(* The constants one by one.                                               *)
LEMMA Constants ==
    /\ MaxBuffLen \in Nat /\ MaxStream \in Nat /\ SizeLimit \in Nat /\ MaxWrites \in Nat
    /\ MaxBuffLen < SizeLimit /\ RecvResults \subseteq {-1, 0}
BY SocketAssumption DEF SocketAssumption

USE Constants

(* The part of the buffer that is counted holds the next bytes of the      *)
(* stream.                                                                 *)
Filled(n) == taken = base + n /\ \A i \in 1 .. n : buffer[i] = base + i

WholeWrites == pc # "threw" => sent = handed

ReadInv == /\ TypeOK
           /\ CountBehindStream
           /\ WholeWrites
           /\ (pc = "loop" /\ ~failed) => totalReceived <= buffLen /\ Filled(totalReceived)
           /\ (pc = "idle" /\ ~failed) => Filled(buffLen)

(* Initially nothing has been read or written.                             *)
LEMMA ReadInit == Init => ReadInv
<1> SUFFICES ASSUME Init PROVE ReadInv
  OBVIOUS
<1>1. TypeOK
  <2>1. buffer \in [1 .. MaxBuffLen -> 0 .. MaxStream] BY DEF Init
  <2>2. failed \in BOOLEAN BY DEF Init
  <2>3. QED BY <2>1, <2>2 DEF Init, TypeOK
<1>2. QED BY <1>1 DEF Init, ReadInv, Filled, CountBehindStream, WholeWrites

(* A piece of data extends the counted part of the buffer by the next      *)
(* bytes of the stream (socket.cpp:26-30).                                 *)
LEMMA PieceExtends ==
    ASSUME NEW n \in 1 .. MaxBuffLen, ReadInv, ReadSome(n) PROVE ReadInv'
<1> USE DEF ReadInv, TypeOK, Filled
<1>1. /\ pc = "loop" /\ pc' = "loop" /\ UNCHANGED <<buffLen, base, failed, writeVars>>
      /\ taken' = taken + n /\ taken + n <= MaxStream
      /\ totalReceived + n <= buffLen
  BY DEF ReadSome
<1>2. totalReceived' = totalReceived + n BY <1>1 DEF ReadSome, ToSize, Add
<1>3. \A i \in 1 .. MaxBuffLen :
        buffer'[i] = IF i \in totalReceived + 1 .. totalReceived + n
                     THEN taken + (i - totalReceived) ELSE buffer[i]
  BY DEF ReadSome
<1>4. buffer' \in [1 .. MaxBuffLen -> 0 .. MaxStream]
  BY <1>1 DEF ReadSome
<1>5. ~failed' => Filled(totalReceived)'
  <2> SUFFICES ASSUME ~failed PROVE Filled(totalReceived)'
    BY <1>1
  <2>1. taken' = base' + totalReceived' BY <1>1, <1>2
  <2>2. ASSUME NEW i \in 1 .. totalReceived' PROVE buffer'[i] = base' + i
    <3>1. i \in 1 .. MaxBuffLen BY <1>1, <1>2
    <3>2. CASE i <= totalReceived
      <4>1. buffer'[i] = buffer[i] BY <1>3, <3>1, <3>2
      <4>2. QED BY <1>1, <3>1, <3>2, <4>1
    <3>3. CASE i > totalReceived
      <4>1. i \in totalReceived + 1 .. totalReceived + n BY <1>1, <1>2, <3>3
      <4>2. buffer'[i] = taken + (i - totalReceived) BY <1>3, <3>1, <4>1
      <4>3. QED BY <1>1, <4>2
    <3>4. QED BY <1>1, <3>1, <3>2, <3>3
  <2>3. QED BY <2>1, <2>2
<1>6. CountBehindStream' BY <1>1, <1>2 DEF CountBehindStream
<1>7. WholeWrites' BY <1>1 DEF WholeWrites, writeVars
<1>8. TypeOK' BY <1>1, <1>2, <1>4 DEF writeVars
<1>9. QED BY <1>1, <1>2, <1>5, <1>6, <1>7, <1>8

(* An error takes one from the count or wraps it, and from then on nothing *)
(* is promised of this call (socket.cpp:26-30).                            *)
LEMMA NothingReceived ==
    ASSUME NEW r \in RecvResults, ReadInv, ReadNothing(r) PROVE ReadInv'
<1> USE DEF ReadInv, TypeOK, Filled
<1>1. r \in {-1, 0} OBVIOUS
<1>2. CASE r = 0
  BY <1>2 DEF ReadNothing, ToSize, CountBehindStream, WholeWrites, writeVars
<1>3. CASE r = -1
  <2>1. pc = "loop" /\ failed' /\ UNCHANGED <<buffLen, buffer, taken, base, writes, handed, sent>>
    BY <1>3 DEF ReadNothing, writeVars
  <2>2. CASE pc' = "threw" /\ UNCHANGED totalReceived
    BY <2>1, <2>2 DEF CountBehindStream, WholeWrites
  <2>3. CASE pc' = "loop" /\ totalReceived' = Add(totalReceived, SizeLimit - 1)
    <3>1. totalReceived' = IF totalReceived = 0 THEN SizeLimit - 1 ELSE totalReceived - 1
      BY <2>3 DEF Add
    <3>2. buffLen > totalReceived BY DEF ReadNothing
    <3>3. totalReceived' \in 0 .. SizeLimit - 1 BY <3>1
    <3>4. CountBehindStream' BY <2>1, <2>3, <3>1, <3>2 DEF CountBehindStream
    <3>5. QED BY <2>1, <2>3, <3>3, <3>4 DEF WholeWrites
  <2>4. QED BY <1>3, <2>1, <2>2, <2>3 DEF ReadNothing, ToSize
<1>4. QED BY <1>1, <1>2, <1>3

(* Every step keeps the counted part of the buffer equal to the next part  *)
(* of the stream, unless Recv reported an error (socket.cpp:23-38).        *)
LEMMA ReadNext == ReadInv /\ [Next]_vars => ReadInv'
<1> SUFFICES ASSUME ReadInv, [Next]_vars PROVE ReadInv'
  OBVIOUS
<1> USE DEF ReadInv, TypeOK, Filled, CountBehindStream, WholeWrites, writeVars
<1>1. ASSUME NEW n \in 1 .. MaxBuffLen, ReadCall(n) PROVE ReadInv'
  <2>1. failed' \in BOOLEAN BY <1>1 DEF ReadCall
  <2>2. buffer' \in [1 .. MaxBuffLen -> 0 .. MaxStream] BY <1>1 DEF ReadCall
  <2>3. TypeOK' BY <1>1, <2>1, <2>2 DEF ReadCall
  <2>4. QED BY <1>1, <2>3 DEF ReadCall
<1>2. ASSUME NEW n \in 1 .. MaxBuffLen, ReadSome(n) PROVE ReadInv'
  BY <1>2, PieceExtends
<1>3. ASSUME NEW n \in 1 .. MaxBuffLen, Write(n) PROVE ReadInv'
  <2>1. PICK k \in 0 .. n :
          /\ sent' = sent + k
          /\ \/ k < n /\ pc' = "threw" /\ UNCHANGED <<writes, handed>>
             \/ k >= n /\ UNCHANGED pc /\ writes' = writes + 1 /\ handed' = handed + n
    BY <1>3 DEF Write, ToSize
  <2>2. /\ pc = "idle" /\ writes < MaxWrites
        /\ UNCHANGED <<buffLen, buffer, totalReceived, taken, base, failed>>
    BY <1>3 DEF Write, readVars
  <2>3. QED BY <2>1, <2>2, SMTT(30)
<1>4. ASSUME NEW r \in RecvResults, ReadNothing(r) PROVE ReadInv'
  BY <1>4, NothingReceived
<1>5. CASE ReadReturn BY <1>5 DEF ReadReturn, readVars
<1>6. CASE UNCHANGED vars BY <1>6 DEF vars, readVars
<1>7. QED BY <1>1, <1>2, <1>3, <1>4, <1>5, <1>6 DEF Next

(* In every reachable state every variable has its type, and in a call     *)
(* without errors the counted part of the buffer is the next part of the   *)
(* stream.                                                                 *)
THEOREM ReadInvariant == Spec => []ReadInv
BY ReadInit, ReadNext, PTL DEF Spec

(* When Read returns without an error, the buffer holds all the bytes      *)
(* asked for, in order.                                                    *)
THEOREM ReadReturnsAll == Spec => []ReadUnlessError
<1>1. ReadInv => ReadUnlessError BY DEF ReadInv, Filled, ReadUnlessError, BufferFilled
<1>2. QED BY <1>1, ReadInvariant, PTL

(* Each call without an error takes from the stream what it was asked for, *)
(* and writes that return went out in full.                                *)
THEOREM ReadsAreAligned == Spec => []StreamAligned
<1>1. ReadInv => StreamAligned
  BY DEF ReadInv, Filled, StreamAligned, WholeWrites
<1>2. QED BY <1>1, ReadInvariant, PTL

(* Whatever Recv reports, the count stays behind the bytes received, or    *)
(* wraps and ends the loop.                                                *)
THEOREM CountStaysBehind == Spec => []CountBehindStream
<1>1. ReadInv => CountBehindStream BY DEF ReadInv
<1>2. QED BY <1>1, ReadInvariant, PTL
=============================================================================
