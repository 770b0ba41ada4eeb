---------------------------- MODULE PacketsProofs ----------------------------
(***************************************************************************)
(* Proofs about Packets, for every Radix: that VarInt and Value are defined *)
(* everywhere and undo each other, and that what is written of a field is  *)
(* read back, to the last byte, whatever follows it.                       *)
(***************************************************************************)
EXTENDS Packets, Basics

-----------------------------------------------------------------------------
(* VarInt is defined for every number, as a sequence of bytes.             *)
LEMMA VarIntDef ==
    /\ VarInt \in [Nat -> Seq(Bytes)]
    /\ \A n \in Nat : VarInt[n] = IF n < Radix THEN <<n>>
                                  ELSE <<Radix + (n % Radix)>> \o VarInt[n \div Radix]
<1> DEFINE T == Seq(Bytes)
           Step(n, g) == IF n < Radix THEN <<n>> ELSE <<Radix + (n % Radix)>> \o g[n \div Radix]
           F == [n \in Nat |-> [g \in [Nat -> T] |-> Step(n, g)]]
           rank == [n \in Nat |-> n]
           P(g) == g = [n \in Nat |-> IF n < Radix THEN <<n>>
                                      ELSE <<Radix + (n % Radix)>> \o g[n \div Radix]]
<1>1. ASSUME NEW n \in Nat, ~(n < Radix) PROVE n \div Radix \in Nat /\ n \div Radix < n
  BY <1>1, QuotientBelow, RadixAssumption
<1>2. ASSUME NEW n \in Nat, NEW g \in [Nat -> T] PROVE Step(n, g) \in T
  <2>1. CASE n < Radix BY <2>1, RadixAssumption DEF Bytes
  <2>2. CASE ~(n < Radix)
    <3>1. g[n \div Radix] \in Seq(Bytes) BY <1>1, <2>2
    <3>2. Radix + (n % Radix) \in Bytes BY RadixAssumption, DivMod DEF Bytes
    <3>3. <<Radix + (n % Radix)>> \in Seq(Bytes) BY <3>2
    <3>4. QED BY <2>2, <3>1, <3>3
  <2>3. QED BY <2>1, <2>2
<1>3. ASSUME NEW n \in Nat, NEW g \in [Nat -> T], NEW h \in [Nat -> T],
             \A k \in Nat : rank[k] < rank[n] => g[k] = h[k]
      PROVE  Step(n, g) = Step(n, h)
  <2>1. CASE n < Radix BY <2>1
  <2>2. CASE ~(n < Radix)
    <3>1. g[n \div Radix] = h[n \div Radix] BY <1>1, <1>3, <2>2
    <3>2. QED BY <2>2, <3>1
  <2>3. QED BY <2>1, <2>2
<1>4. PICK f : Solves(f, Nat, T, F)
  <2>1. T # {} /\ rank \in [Nat -> Nat]
    <3>1. << >> \in T OBVIOUS
    <3>2. rank \in [Nat -> Nat] OBVIOUS
    <3>3. QED BY <3>1, <3>2
  <2>2. F \in [Nat -> [[Nat -> T] -> T]]
    <3> HIDE DEF Step, T
    <3> QED BY <1>2
  <2>3. \A n \in Nat : \A g, h \in [Nat -> T] :
          (\A k \in Nat : rank[k] < rank[n] => g[k] = h[k]) => F[n][g] = F[n][h]
    <3> HIDE DEF Step, T, rank
    <3> QED BY <1>3
  <2> HIDE DEF F, T, rank
  <2>4. RecursionStep(Nat, T, rank, F) BY <2>1, <2>2, <2>3 DEF RecursionStep
  <2>5. QED BY <2>4, Recursion
<1>5. f \in [Nat -> T] /\ \A n \in Nat : f[n] = Step(n, f)
  <2> HIDE DEF Step, T
  <2> QED BY <1>4 DEF Solves
<1>6. P(f) BY <1>5
<1>7. VarInt = CHOOSE g : P(g) BY DEF VarInt
<1>8. P(VarInt)
  <2> HIDE DEF P
  <2> QED BY <1>6, <1>7
<1>9. \A n \in Nat : VarInt[n] = Step(n, VarInt) BY <1>8
<1>10. VarInt = f
  <2> DEFINE N == {n \in Nat : \A k \in 0..n : VarInt[k] = f[k]}
  <2>1. 0 \in N
    <3>1. 0 < Radix BY RadixAssumption
    <3>2. Step(0, VarInt) = Step(0, f) BY <3>1
    <3> HIDE DEF Step
    <3>3. VarInt[0] = f[0] BY <1>5, <1>9, <3>2
    <3>4. QED BY <3>3
  <2>2. ASSUME NEW n \in Nat, n \in N PROVE n + 1 \in N
    <3>1. VarInt[n + 1] = f[n + 1]
      <4>1. CASE n + 1 < Radix
        <5>1. Step(n + 1, VarInt) = Step(n + 1, f) BY <4>1
        <5> HIDE DEF Step
        <5>2. QED BY <1>5, <1>9, <5>1
      <4>2. CASE ~(n + 1 < Radix)
        <5>1. (n + 1) \div Radix \in 0..n
          <6>1. n + 1 \in Nat OBVIOUS
          <6>2. (n + 1) \div Radix \in Nat /\ (n + 1) \div Radix < n + 1 BY <1>1, <4>2, <6>1
          <6>3. QED BY <6>2
        <5>2. VarInt[(n + 1) \div Radix] = f[(n + 1) \div Radix] BY <2>2, <5>1
        <5>3. Step(n + 1, VarInt) = Step(n + 1, f) BY <5>2
        <5> HIDE DEF Step
        <5>4. QED BY <1>5, <1>9, <5>3
      <4>3. QED BY <4>1, <4>2
    <3>2. QED BY <2>2, <3>1
  <2> HIDE DEF N
  <2>3. Nat \subseteq N BY <2>1, <2>2, Induction
  <2>4. \A n \in Nat : VarInt[n] = f[n] BY <2>3 DEF N
  <2>5. VarInt = [n \in Nat |-> VarInt[n]] BY <1>8
  <2>6. f = [n \in Nat |-> f[n]] BY <1>5
  <2>7. QED BY <2>4, <2>5, <2>6
<1>11. QED BY <1>5, <1>9, <1>10

(* Value is defined for every sequence, as a number.                       *)
LEMMA ValueDef ==
    /\ Value \in [Seq(Nat) -> Nat]
    /\ \A s \in Seq(Nat) : Value[s] = IF s = << >> THEN 0
                                      ELSE (Head(s) % Radix) + Radix * Value[Tail(s)]
<1> DEFINE X == Seq(Nat)
           Step(s, g) == IF s = << >> THEN 0 ELSE (Head(s) % Radix) + Radix * g[Tail(s)]
           F == [s \in X |-> [g \in [X -> Nat] |-> Step(s, g)]]
           rank == [s \in X |-> Len(s)]
           P(g) == g = [s \in Seq(Nat) |-> IF s = << >> THEN 0
                                           ELSE (Head(s) % Radix) + Radix * g[Tail(s)]]
<1>1. ASSUME NEW s \in X, s # << >>
      PROVE  Head(s) \in Nat /\ Tail(s) \in X /\ Len(Tail(s)) = Len(s) - 1 /\ Len(s) \in Nat
  BY <1>1
<1>2. ASSUME NEW s \in X, NEW g \in [X -> Nat] PROVE Step(s, g) \in Nat
  <2>1. CASE s = << >> BY <2>1
  <2>2. CASE s # << >>
    <3>1. g[Tail(s)] \in Nat BY <1>1, <2>2
    <3>2. Head(s) % Radix \in Nat
      <4>1. Head(s) \in Int /\ Radix \in Nat \ {0} BY <1>1, <2>2, RadixAssumption
      <4>2. \A a \in Int : a % Radix \in Nat BY RadixAssumption, DivMod
      <4>3. QED BY <4>1, <4>2
    <3>3. QED BY <2>2, <3>1, <3>2, RadixAssumption
  <2>3. QED BY <2>1, <2>2
<1>3. ASSUME NEW s \in X, NEW g \in [X -> Nat], NEW h \in [X -> Nat],
             \A t \in X : rank[t] < rank[s] => g[t] = h[t]
      PROVE  Step(s, g) = Step(s, h)
  <2>1. CASE s = << >> BY <2>1
  <2>2. CASE s # << >>
    <3>1. Tail(s) \in X /\ rank[Tail(s)] < rank[s] BY <1>1, <2>2
    <3>2. g[Tail(s)] = h[Tail(s)] BY <1>3, <3>1
    <3>3. QED BY <2>2, <3>2
  <2>3. QED BY <2>1, <2>2
<1>4. PICK f : Solves(f, X, Nat, F)
  <2>1. rank \in [X -> Nat] OBVIOUS
  <2>2. F \in [X -> [[X -> Nat] -> Nat]]
    <3> HIDE DEF Step, X
    <3> QED BY <1>2
  <2>3. \A s \in X : \A g, h \in [X -> Nat] :
          (\A t \in X : rank[t] < rank[s] => g[t] = h[t]) => F[s][g] = F[s][h]
    <3> HIDE DEF Step, X, rank
    <3> QED BY <1>3
  <2>4. Nat # {} OBVIOUS
  <2> HIDE DEF F, X, rank
  <2>5. RecursionStep(X, Nat, rank, F) BY <2>1, <2>2, <2>3, <2>4 DEF RecursionStep
  <2>6. QED BY <2>5, Recursion
<1>5. f \in [X -> Nat] /\ \A s \in X : f[s] = Step(s, f)
  <2> HIDE DEF Step, X
  <2> QED BY <1>4 DEF Solves
<1>6. P(f) BY <1>5
<1>7. Value = CHOOSE g : P(g) BY DEF Value
<1>8. P(Value)
  <2> HIDE DEF P
  <2> QED BY <1>6, <1>7
<1>9. \A s \in X : Value[s] = Step(s, Value) BY <1>8
<1>10. Value = f
  <2> DEFINE N == {n \in Nat : \A s \in X : Len(s) = n => Value[s] = f[s]}
  <2>1. 0 \in N
    <3>1. ASSUME NEW s \in X, Len(s) = 0 PROVE Value[s] = f[s]
      <4>1. s = << >> BY <3>1
      <4>2. Step(s, Value) = Step(s, f) BY <4>1
      <4> HIDE DEF Step
      <4>3. QED BY <1>5, <1>9, <4>2
    <3>2. QED BY <3>1
  <2>2. ASSUME NEW n \in Nat, n \in N PROVE n + 1 \in N
    <3>1. ASSUME NEW s \in X, Len(s) = n + 1 PROVE Value[s] = f[s]
      <4>1. s # << >> BY <3>1
      <4>2. Tail(s) \in X /\ Len(Tail(s)) = n BY <1>1, <3>1, <4>1
      <4>3. Value[Tail(s)] = f[Tail(s)] BY <2>2, <4>2
      <4>4. Step(s, Value) = Step(s, f) BY <4>3
      <4> HIDE DEF Step
      <4>5. QED BY <1>5, <1>9, <4>4
    <3>2. QED BY <3>1
  <2> HIDE DEF N
  <2>3. Nat \subseteq N BY <2>1, <2>2, Induction
  <2>4. \A s \in X : Value[s] = f[s]
    <3> TAKE s \in X
    <3>1. Len(s) \in N BY <2>3
    <3>2. QED BY <3>1 DEF N
  <2>5. Value = [s \in X |-> Value[s]] BY <1>8
  <2>6. f = [s \in X |-> f[s]] BY <1>5
  <2>7. QED
    <3> HIDE DEF X
    <3> QED BY <2>4, <2>5, <2>6
<1>11. QED BY <1>5, <1>9, <1>10

-----------------------------------------------------------------------------
\* The bytes of one number: the last of them, and no other, lacks the flag.
Complete(bytes) == /\ bytes \in Seq(Bytes) /\ bytes # << >>
                   /\ bytes[Len(bytes)] < Radix
                   /\ \A i \in 1..(Len(bytes) - 1) : bytes[i] >= Radix

(* Bytes are numbers.                                                      *)
LEMMA BytesAreNat == Bytes \subseteq Nat /\ Seq(Bytes) \subseteq Seq(Nat)
<1>1. Bytes \subseteq Nat BY RadixAssumption DEF Bytes
<1>2. ASSUME NEW s \in Seq(Bytes) PROVE s \in Seq(Nat) BY <1>1, SeqMonotonic
<1>3. QED BY <1>1, <1>2

(* Two beginnings of the same stream that are equally long.                *)
LEMMA SameLength ==
    ASSUME NEW a \in Seq(Bytes), NEW b \in Seq(Bytes), NEW s \in Seq(Bytes), NEW t \in Seq(Bytes),
           Len(a) = Len(s), a \o b = s \o t
    PROVE  a = s /\ b = t
<1>1. \A u, v \in Seq(Bytes) : /\ SubSeq(u \o v, 1, Len(u)) = u
                               /\ SubSeq(u \o v, Len(u) + 1, Len(u \o v)) = v
  OBVIOUS
<1>2. /\ SubSeq(a \o b, 1, Len(a)) = a /\ SubSeq(s \o t, 1, Len(s)) = s
      /\ SubSeq(a \o b, Len(a) + 1, Len(a \o b)) = b /\ SubSeq(s \o t, Len(s) + 1, Len(s \o t)) = t
  BY <1>1
<1>3. QED BY <1>2

(* The empty sequence adds nothing, and a sequence is its elements.         *)
LEMMA Neutral ==
    /\ << >> \in Seq(Bytes)
    /\ \A u \in Seq(Bytes) : u \o << >> = u /\ << >> \o u = u
OBVIOUS

(* A list is the function from its indices to its elements.                *)
LEMMA ByIndex ==
    \A w \in Seq(Seq(Bytes)) : w = [k \in 1..Len(w) |-> w[k]]
OBVIOUS

(* Sequences of bytes one behind the other, in two groupings.              *)
LEMMA Associative ==
    ASSUME NEW a \in Seq(Bytes), NEW b \in Seq(Bytes), NEW c \in Seq(Bytes)
    PROVE  a \o b \in Seq(Bytes) /\ (a \o b) \o c = a \o (b \o c) /\ Len(a \o b) = Len(a) + Len(b)
<1>1. \A u, v, w \in Seq(Bytes) : /\ u \o v \in Seq(Bytes) /\ (u \o v) \o w = u \o (v \o w)
                                  /\ Len(u \o v) = Len(u) + Len(v)
  OBVIOUS
<1>2. QED BY <1>1

(* The same without a context, to be cited for long sequences.             *)
LEMMA AnyThree == \A r, s, t \in Seq(Bytes) : (r \o s) \o t = r \o (s \o t)
BY Associative

(* Four sequences one behind the other are one sequence however they are   *)
(* grouped; named, so that the fact can be cited for long sequences.       *)
Regrouped(a, b, c, d) == ((a \o b) \o c) \o d = a \o (b \o (c \o d))

(* Four are the same in both groupings.                                    *)
LEMMA FourPieces ==
    ASSUME NEW a \in Seq(Bytes), NEW b \in Seq(Bytes), NEW c \in Seq(Bytes), NEW d \in Seq(Bytes)
    PROVE  Regrouped(a, b, c, d)
<1>1. (a \o b) \o c = a \o (b \o c) BY AnyThree, ZenonT(30)
<1>2. PICK m \in Seq(Bytes) : m = b \o c BY Associative
<1>3. (a \o m) \o d = a \o (m \o d) BY Associative
<1>4. (b \o c) \o d = b \o (c \o d) BY Associative
<1>5. QED BY <1>1, <1>2, <1>3, <1>4 DEF Regrouped

(* A byte in front of the groups of a number.                              *)
LEMMA ValueOfCons ==
    ASSUME NEW x \in Nat, NEW v \in Seq(Nat)
    PROVE  Value[<<x>> \o v] = (x % Radix) + Radix * Value[v]
<1>1. <<x>> \o v \in Seq(Nat) /\ <<x>> \o v # << >> OBVIOUS
<1>2. Head(<<x>> \o v) = x /\ Tail(<<x>> \o v) = v OBVIOUS
<1>3. QED BY <1>1, <1>2, ValueDef

(* What WriteVarInt writes ends with its only byte without the flag, and   *)
(* its groups put together are the number (stream.cpp:356-374, 577-590).   *)
LEMMA VarIntComplete == ASSUME NEW n \in Nat PROVE Complete(VarInt[n]) /\ Value[VarInt[n]] = n
<1> DEFINE Right(k) == Complete(VarInt[k]) /\ Value[VarInt[k]] = k
           N == {m \in Nat : \A k \in 0..m : Right(k)}
<1>1. ASSUME NEW k \in Nat, k < Radix PROVE Right(k)
  <2>1. VarInt[k] = <<k>> BY <1>1, VarIntDef
  <2>2. k \in Bytes BY <1>1, RadixAssumption DEF Bytes
  <2>3. Complete(<<k>>) BY <1>1, <2>2 DEF Complete
  <2>4. Value[<<k>>] = k
    <3>1. <<k>> \o << >> = <<k>> /\ << >> \in Seq(Nat) OBVIOUS
    <3>2. Value[<< >>] = 0 BY <3>1, ValueDef
    <3>3. Value[<<k>> \o << >>] = (k % Radix) + Radix * Value[<< >>] BY <3>1, ValueOfCons
    <3>4. k % Radix = k
      <4>1. k = Radix * 0 + k /\ k \in 0 .. Radix - 1 BY <1>1, RadixAssumption
      <4>2. QED BY <4>1, DivUnique, RadixAssumption
    <3>5. QED BY <3>1, <3>2, <3>3, <3>4, RadixAssumption
  <2>5. QED BY <2>1, <2>3, <2>4
<1>2. ASSUME NEW k \in Nat, ~(k < Radix), Right(k \div Radix) PROVE Right(k)
  <2> DEFINE q == k \div Radix
             m == k % Radix
             v == VarInt[q]
             x == Radix + m
  <2>1. k = Radix * q + m /\ m \in 0 .. Radix - 1 /\ q \in Nat
    <3>1. k \in Int /\ Radix \in Nat \ {0} /\ Radix \in Nat /\ Radix > 1 BY RadixAssumption
    <3>2. k = Radix * q + m /\ m \in 0 .. Radix - 1 BY <3>1, DivMod
    <3>3. q \in Nat BY <1>2, <3>1, QuotientBelow
    <3>4. QED BY <3>2, <3>3
  <2>2. VarInt[k] = <<x>> \o v BY <1>2, VarIntDef
  <2>3. Complete(v) /\ Value[v] = q BY <1>2
  <2> HIDE DEF q, m, v
  <2>4. x \in Bytes /\ x >= Radix /\ x \in Nat BY <2>1, RadixAssumption DEF Bytes
  <2>5. Complete(<<x>> \o v)
    <3>1. /\ v \in Seq(Bytes) /\ Len(v) \in Nat /\ Len(v) > 0 /\ v[Len(v)] < Radix
          /\ \A i \in 1..(Len(v) - 1) : v[i] >= Radix
      BY <2>3 DEF Complete
    <3>2. /\ <<x>> \o v \in Seq(Bytes) /\ Len(<<x>> \o v) = Len(v) + 1
          /\ (<<x>> \o v)[1] = x /\ \A i \in 2..(Len(v) + 1) : (<<x>> \o v)[i] = v[i - 1]
      BY <2>4, <3>1
    <3> HIDE DEF x
    <3>3. (<<x>> \o v)[Len(v) + 1] < Radix BY <3>1, <3>2
    <3>4. ASSUME NEW i \in 1..Len(v) PROVE (<<x>> \o v)[i] >= Radix
      <4>1. CASE i = 1 BY <2>4, <3>2, <4>1
      <4>2. CASE i # 1
        <5>1. i - 1 \in 1..(Len(v) - 1) /\ i \in 2..(Len(v) + 1) BY <3>1, <4>2
        <5>2. QED BY <3>1, <3>2, <5>1
      <4>3. QED BY <4>1, <4>2
    <3>5. QED BY <3>1, <3>2, <3>3, <3>4 DEF Complete
  <2>6. Value[<<x>> \o v] = k
    <3>1. v \in Seq(Nat) BY <2>3, BytesAreNat DEF Complete
    <3>2. Value[<<x>> \o v] = (x % Radix) + Radix * Value[v] BY <2>4, <3>1, ValueOfCons
    <3>3. x % Radix = m
      <4>1. x = Radix * 1 + m BY <2>1, RadixAssumption
      <4>2. x \in Int /\ Radix \in Nat \ {0} /\ 1 \in Int BY <2>4, RadixAssumption
      <4> HIDE DEF x
      <4>3. QED BY <2>1, <4>1, <4>2, DivUnique
    <3> HIDE DEF x
    <3>4. QED BY <2>1, <2>3, <3>2, <3>3, RadixAssumption
  <2>7. QED BY <2>2, <2>5, <2>6
<1> HIDE DEF Right
<1>3. 0 \in N
  <2>1. 0 < Radix BY RadixAssumption
  <2>2. Right(0) BY <1>1, <2>1
  <2>3. QED BY <2>2
<1>4. ASSUME NEW m \in Nat, m \in N PROVE m + 1 \in N
  <2>1. Right(m + 1)
    <3>1. CASE m + 1 < Radix BY <1>1, <3>1
    <3>2. CASE ~(m + 1 < Radix)
      <4>1. m + 1 \in Nat /\ Radix \in Nat /\ Radix > 1 BY RadixAssumption
      <4>2. (m + 1) \div Radix \in Nat /\ (m + 1) \div Radix < m + 1 BY <3>2, <4>1, QuotientBelow
      <4>3. (m + 1) \div Radix \in 0..m BY <4>2
      <4>4. Right((m + 1) \div Radix) BY <1>4, <4>3
      <4>5. QED BY <1>2, <3>2, <4>1, <4>4
    <3>3. QED BY <3>1, <3>2
  <2>2. QED BY <1>4, <2>1
<1> HIDE DEF N
<1>5. Nat \subseteq N BY <1>3, <1>4, Induction
<1>6. Right(n) BY <1>5 DEF N
<1>7. QED BY <1>6 DEF Right

-----------------------------------------------------------------------------
(* Readers.                                                                *)
FieldValues == Nat \cup Seq(Bytes)

Readers == [ok : BOOLEAN, left : Seq(Bytes), got : Seq(FieldValues)]

\* A value more, and what is left behind it.
Took(r, left, value) == [ok |-> r.ok, left |-> left, got |-> Append(r.got, value)]

(* Behind so many bytes.                                                   *)
LEMMA GotIsTook == ASSUME NEW r \in Readers, NEW n, NEW value
                   PROVE  Got(Skip(r, n), value) = Took(r, SubSeq(r.left, n + 1, Len(r.left)), value)
<1>1. PICK ok, left, got : r = [ok |-> ok, left |-> left, got |-> got] BY DEF Readers
<1> DEFINE s == SubSeq(left, n + 1, Len(left))
           t == [ok |-> ok, left |-> s, got |-> got]
<1> DEFINE u == [ok |-> ok, left |-> left, got |-> got]
<1>2. Skip(u, n) = t
  <2>1. u.left = left OBVIOUS
  <2>2. Skip(u, n) = [u EXCEPT !.left = s] BY <2>1 DEF Skip
  <2> HIDE DEF s
  <2>3. QED BY <2>2
<1> HIDE DEF s
<1>3. Got(t, value) = [ok |-> ok, left |-> s, got |-> Append(got, value)] BY DEF Got, WithValues
<1>4. QED BY <1>1, <1>2, <1>3 DEF s, Took

(* Values exchanged for others.                                            *)
LEMMA WithGot ==
    ASSUME NEW r, NEW s, NEW v, NEW w
    PROVE  WithValues(Took(r, s, v), w) = [ok |-> r.ok, left |-> s, got |-> w]
<1>1. PICK ok, left, got : Took(r, s, v) = [ok |-> ok, left |-> left, got |-> got] /\ ok = r.ok /\ left = s
  BY DEF Took
<1>2. WithValues([ok |-> ok, left |-> left, got |-> got], w) = [ok |-> ok, left |-> left, got |-> w]
  BY DEF WithValues
<1>3. QED BY <1>1, <1>2

(* A complete number in front is read whole, whatever follows.             *)
LEMMA ReadComplete ==
    ASSUME NEW r \in Readers, NEW b, Complete(b), NEW s \in Seq(Bytes), r.left = b \o s
    PROVE  ReadVarInt(r) = Took(r, s, Value[b])
<1> DEFINE ends == {i \in DOMAIN r.left : r.left[i] < Radix}
           n == Len(b)
<1>1. /\ b \in Seq(Bytes) /\ n \in Nat /\ n > 0 /\ b[n] < Radix
      /\ \A i \in 1..(n - 1) : b[i] >= Radix
  BY DEF Complete
<1>2. /\ b \o s \in Seq(Bytes) /\ DOMAIN (b \o s) = 1..(n + Len(s)) /\ Len(s) \in Nat
      /\ \A i \in 1..n : (b \o s)[i] = b[i]
  BY <1>1
<1>3. n \in ends BY <1>1, <1>2
<1>4. ASSUME NEW i \in ends PROVE i \in Nat /\ n <= i
  <2>1. i \in Nat /\ i >= 1 /\ (b \o s)[i] < Radix BY <1>2
  <2>2. CASE i <= n - 1
    <3>1. i \in 1..(n - 1) /\ i \in 1..n BY <1>1, <2>1, <2>2
    <3>2. b[i] >= Radix /\ b[i] \in Nat BY <1>1, <3>1, BytesAreNat
    <3>3. QED BY <1>2, <2>1, <3>1, <3>2, RadixAssumption
  <2>3. CASE i > n - 1 BY <1>1, <2>1, <2>3
  <2>4. QED BY <1>1, <2>1, <2>2, <2>3
<1>5. Min(ends) = n
  <2>1. n \in ends /\ \A y \in ends : n <= y BY <1>3, <1>4
  <2>2. \A x \in ends : (\A y \in ends : x <= y) => x = n BY <1>1, <1>3, <1>4
  <2> HIDE DEF ends, n
  <2>3. QED BY <2>1, <2>2 DEF Min
<1>6. SubSeq(r.left, 1, n) = b /\ SubSeq(r.left, n + 1, Len(r.left)) = s BY <1>1
<1>7. ends # {} BY <1>3
<1> HIDE DEF ends, n
<1>8. ReadVarInt(r) = Got(Skip(r, n), Value[SubSeq(r.left, 1, n)])
  BY <1>5, <1>7 DEF ReadVarInt, ends
<1>9. QED BY <1>6, <1>8, GotIsTook

(* In particular what WriteVarInt wrote.                                   *)
LEMMA ReadWrittenVarInt ==
    ASSUME NEW r \in Readers, NEW n \in Nat, NEW s \in Seq(Bytes), r.left = VarInt[n] \o s
    PROVE  ReadVarInt(r) = Took(r, s, n)
<1>1. Complete(VarInt[n]) /\ Value[VarInt[n]] = n BY VarIntComplete
<1>2. ReadVarInt(r) = Took(r, s, Value[VarInt[n]]) BY <1>1, ReadComplete
<1>3. QED BY <1>1, <1>2

(* Either no byte lacks the flag, or what is left begins with a number.    *)
LEMMA ReadVarIntCases ==
    ASSUME NEW r \in Readers
    PROVE  \/ ReadVarInt(r) = OutOfData(r) /\ \A i \in DOMAIN r.left : r.left[i] >= Radix
           \/ \E b, s \in Seq(Bytes) :
                 /\ Complete(b) /\ r.left = b \o s
                 /\ ReadVarInt(r) = Took(r, s, Value[b])
<1> DEFINE ends == {i \in DOMAIN r.left : r.left[i] < Radix}
<1>1. r.left \in Seq(Bytes) /\ DOMAIN r.left = 1..Len(r.left) /\ Len(r.left) \in Nat BY DEF Readers
<1>2. CASE ends = {}
  <2>1. ReadVarInt(r) = OutOfData(r) BY <1>2 DEF ReadVarInt
  <2>2. \A i \in DOMAIN r.left : r.left[i] \in Nat BY <1>1, BytesAreNat
  <2>3. QED BY <1>2, <2>1, <2>2, RadixAssumption
<1>3. CASE ends # {}
  <2>1. ends \in SUBSET Nat BY <1>1
  <2>2. PICK n \in ends : \A i \in ends : n <= i BY <1>3, <2>1, Smallest
  <2> DEFINE b == SubSeq(r.left, 1, n)
             s == SubSeq(r.left, n + 1, Len(r.left))
  <2>3. n \in 1..Len(r.left) /\ r.left[n] < Radix BY <1>1, <2>2
  <2>4. /\ b \in Seq(Bytes) /\ s \in Seq(Bytes) /\ r.left = b \o s /\ Len(b) = n
        /\ \A i \in 1..n : b[i] = r.left[i]
    <3>1. \A t \in Seq(Bytes), k \in Nat : k \in 1..Len(t) =>
             /\ SubSeq(t, 1, k) \in Seq(Bytes) /\ SubSeq(t, k + 1, Len(t)) \in Seq(Bytes)
             /\ t = SubSeq(t, 1, k) \o SubSeq(t, k + 1, Len(t)) /\ Len(SubSeq(t, 1, k)) = k
             /\ \A i \in 1..k : SubSeq(t, 1, k)[i] = t[i]
      OBVIOUS
    <3>2. n \in Nat BY <2>3
    <3>3. QED BY <1>1, <2>3, <3>1, <3>2
  <2>5. ASSUME NEW i \in 1..(n - 1) PROVE r.left[i] >= Radix
    <3>1. i \in DOMAIN r.left /\ i \in Nat /\ i < n BY <1>1, <2>3
    <3>2. i \notin ends BY <2>1, <2>2, <3>1
    <3>3. r.left[i] \in Nat BY <1>1, <3>1, BytesAreNat
    <3>4. QED BY <3>1, <3>2, <3>3, RadixAssumption
  <2> HIDE DEF b, s
  <2>6. b # << >> /\ n \in 1..n /\ \A i \in 1..(n - 1) : i \in 1..n BY <2>3, <2>4
  <2>7. Complete(b) BY <2>3, <2>4, <2>5, <2>6 DEF Complete
  <2>8. QED BY <2>4, <2>7, ReadComplete
<1>4. QED BY <1>2, <1>3

-----------------------------------------------------------------------------
(* What a field may be.                                                    *)
Kind == DOMAIN Width \cup {"VarInt", "String", "ByteArray", "Slot", "SlotAndNbt"}

Wide(n) == {b \in Seq(Bytes) : Len(b) = n}

\* What is read of it.
FieldOf(kind) == CASE kind \in DOMAIN Width -> Wide(Width[kind])
                   [] kind = "VarInt" -> Nat
                   [] OTHER -> Seq(Bytes)

\* What one read makes of a reader.
Reads(r, q, V) == /\ q \in Readers
                  /\ q.ok => /\ r.ok
                             /\ \E v \in V, s \in Seq(Bytes) : q = Took(r, s, v)

(* A value more makes a reader of a reader.                                *)
LEMMA TookType ==
    ASSUME NEW r \in Readers, NEW s \in Seq(Bytes), NEW v \in FieldValues
    PROVE  /\ Took(r, s, v) \in Readers /\ Took(r, s, v).ok = r.ok /\ Took(r, s, v).left = s
           /\ Took(r, s, v).got = Append(r.got, v) /\ Last(Took(r, s, v).got) = v
           /\ Front(Took(r, s, v).got) = r.got
<1>1. r.ok \in BOOLEAN /\ r.got \in Seq(FieldValues) BY DEF Readers
<1>2. Append(r.got, v) \in Seq(FieldValues) BY <1>1
<1>3. Took(r, s, v) \in Readers BY <1>1, <1>2 DEF Took, Readers
<1>4. \A S : \A g \in Seq(S), x \in S : Last(Append(g, x)) = x /\ Front(Append(g, x)) = g
  BY DEF Last, Front
<1>5. QED BY <1>1, <1>3, <1>4 DEF Took

(* A read that is out of data changes nothing else.                        *)
LEMMA OutOfDataType ==
    ASSUME NEW r \in Readers
    PROVE  OutOfData(r) \in Readers /\ ~OutOfData(r).ok /\ OutOfData(r).left = r.left
<1>1. OutOfData(r) \in Readers BY DEF OutOfData, Readers
<1>2. ~OutOfData(r).ok BY DEF OutOfData, Readers
<1>3. OutOfData(r).left = r.left BY DEF OutOfData, Readers
<1>4. QED BY <1>1, <1>2, <1>3

(* Widths are numbers.                                                     *)
LEMMA WidthType == \A kind \in DOMAIN Width : Width[kind] \in Nat \ {0}
BY DEF Width

(* A fixed number of bytes.                                                *)
LEMMA ReadDataType ==
    ASSUME NEW r \in Readers, r.ok, NEW n \in Nat
    PROVE  /\ Reads(r, ReadData(r, n), Wide(n))
           /\ ReadData(r, n).ok <=> Len(r.left) >= n
           /\ Len(r.left) >= n =>
                 ReadData(r, n) = Took(r, SubSeq(r.left, n + 1, Len(r.left)), SubSeq(r.left, 1, n))
<1>1. r.left \in Seq(Bytes) /\ Len(r.left) \in Nat BY DEF Readers
<1>2. CASE Len(r.left) < n
  <2>1. ReadData(r, n) = OutOfData(r) BY <1>2 DEF ReadData
  <2>2. QED BY <1>1, <1>2, <2>1, OutOfDataType DEF Reads
<1>3. CASE ~(Len(r.left) < n)
  <2> DEFINE b == SubSeq(r.left, 1, n)
             s == SubSeq(r.left, n + 1, Len(r.left))
  <2>1. ReadData(r, n) = Took(r, s, b) BY <1>3, GotIsTook DEF ReadData
  <2>2. \A t \in Seq(Bytes) : n <= Len(t) => /\ SubSeq(t, 1, n) \in Seq(Bytes) /\ Len(SubSeq(t, 1, n)) = n
                                             /\ SubSeq(t, n + 1, Len(t)) \in Seq(Bytes)
    OBVIOUS
  <2>3. b \in Seq(Bytes) /\ Len(b) = n /\ s \in Seq(Bytes) BY <1>1, <1>3, <2>2
  <2> HIDE DEF b, s
  <2>4. b \in FieldValues BY <2>3 DEF FieldValues
  <2>5. Took(r, s, b) \in Readers /\ Took(r, s, b).ok BY <2>3, <2>4, TookType
  <2>6. Reads(r, ReadData(r, n), Wide(n)) BY <2>1, <2>3, <2>5 DEF Reads, Wide
  <2>7. QED BY <1>1, <1>3, <2>1, <2>5, <2>6 DEF b, s
<1>4. QED BY <1>2, <1>3

(* A VarInt.                                                               *)
LEMMA ReadVarIntType ==
    ASSUME NEW r \in Readers, r.ok
    PROVE  Reads(r, ReadVarInt(r), Nat)
<1>1. CASE ReadVarInt(r) = OutOfData(r) BY <1>1, OutOfDataType DEF Reads
<1>2. CASE \E b, s \in Seq(Bytes) : Complete(b) /\ ReadVarInt(r) = Took(r, s, Value[b])
  <2>1. PICK b \in Seq(Bytes), s \in Seq(Bytes) : ReadVarInt(r) = Took(r, s, Value[b]) BY <1>2
  <2>2. Value[b] \in Nat BY ValueDef, BytesAreNat
  <2>3. Value[b] \in FieldValues BY <2>2 DEF FieldValues
  <2>4. Took(r, s, Value[b]) \in Readers BY <2>3, TookType
  <2>5. QED BY <2>1, <2>2, <2>4 DEF Reads
<1>3. QED BY <1>1, <1>2, ReadVarIntCases

(* A length and that many bytes, and what becomes of a counted field when  *)
(* it is all there.                                                        *)
LEMMA ReadCountedType ==
    ASSUME NEW r \in Readers, r.ok
    PROVE  Reads(r, ReadCounted(r), Seq(Bytes))
<1> DEFINE l == ReadVarInt(r)
<1>1. Reads(r, l, Nat) BY ReadVarIntType
<1>2. CASE ~l.ok
  <2>1. ReadCounted(r) = l BY <1>2 DEF ReadCounted
  <2>2. QED BY <1>1, <1>2, <2>1 DEF Reads
<1>3. CASE l.ok
  <2>1. PICK n \in Nat, s \in Seq(Bytes) : l = Took(r, s, n) BY <1>1, <1>3 DEF Reads
  <2>2. n \in FieldValues BY DEF FieldValues
  <2>3. Front(l.got) = r.got /\ Last(l.got) = n /\ l.left = s BY <2>1, <2>2, TookType
  <2> DEFINE q == [ok |-> r.ok, left |-> s, got |-> r.got]
  <2>4. WithValues(l, Front(l.got)) = q
    <3>1. WithValues(Took(r, s, n), r.got) = q BY WithGot
    <3>2. QED BY <2>1, <2>3, <3>1
  <2>5. q \in Readers /\ q.ok BY DEF Readers
  <2>6. ReadCounted(r) = ReadData(q, n) BY <1>3, <2>3, <2>4 DEF ReadCounted
  <2>7. Reads(q, ReadData(q, n), Wide(n)) BY <2>5, ReadDataType
  <2>8. \A t \in Seq(Bytes) : \A v : Took(q, t, v) = Took(r, t, v) BY DEF Took
  <2> HIDE DEF q
  <2>9. QED BY <2>6, <2>7, <2>8 DEF Reads, Wide
<1>4. QED BY <1>2, <1>3

(* A zero byte ends a string.                                              *)
LEMMA UpToZeroType ==
    ASSUME NEW b \in Seq(Bytes)
    PROVE  UpToZero(b) \in Seq(Bytes) /\ ((\A i \in DOMAIN b : b[i] # 0) => UpToZero(b) = b)
<1> DEFINE zeros == {i \in DOMAIN b : b[i] = 0}
<1>1. CASE zeros = {}
  <2>1. UpToZero(b) = b BY <1>1 DEF UpToZero
  <2>2. QED BY <2>1
<1>2. CASE zeros # {}
  <2>1. zeros \in SUBSET Nat OBVIOUS
  <2>2. PICK n \in zeros : \A i \in zeros : n <= i BY <1>2, <2>1, Smallest
  <2>3. Min(zeros) \in zeros
    <3> HIDE DEF zeros
    <3>1. QED BY <2>2 DEF Min
  <2>4. PICK m \in DOMAIN b : m = Min(zeros) BY <2>3
  <2>5. UpToZero(b) = SubSeq(b, 1, m - 1) BY <1>2, <2>4 DEF UpToZero
  <2>6. SubSeq(b, 1, m - 1) \in Seq(Bytes)
    <3>1. m \in 1..Len(b) /\ Len(b) \in Nat OBVIOUS
    <3>2. \A i \in 1..(m - 1) : b[i] \in Bytes BY <3>1
    <3>3. 1 \in Int /\ m - 1 \in Int BY <3>1
    <3>4. QED BY <3>2, <3>3, SubSeqProperties
  <2>7. ~(\A i \in DOMAIN b : b[i] # 0) BY <1>2
  <2>8. QED BY <2>5, <2>6, <2>7
<1>3. QED BY <1>1, <1>2

(* A string.                                                               *)
LEMMA ReadStringType ==
    ASSUME NEW r \in Readers, r.ok
    PROVE  /\ Reads(r, ReadString(r), Seq(Bytes))
           /\ \A b, s \in Seq(Bytes) : ReadCounted(r) = Took(r, s, b) =>
                 ReadString(r) = Took(r, s, UpToZero(b))
<1> DEFINE c == ReadCounted(r)
<1>1. Reads(r, c, Seq(Bytes)) BY ReadCountedType
<1>2. ASSUME NEW b \in Seq(Bytes), NEW s \in Seq(Bytes), c = Took(r, s, b)
      PROVE  ReadString(r) = Took(r, s, UpToZero(b))
  <2>1. b \in FieldValues BY DEF FieldValues
  <2>2. Front(c.got) = r.got /\ Last(c.got) = b /\ c.ok BY <1>2, <2>1, TookType
  <2>3. ReadString(r) = WithValues(c, Append(Front(c.got), UpToZero(Last(c.got))))
    BY <2>2 DEF ReadString
  <2>4. WithValues(Took(r, s, b), Append(r.got, UpToZero(b))) = Took(r, s, UpToZero(b))
    BY WithGot DEF Took
  <2> HIDE DEF c
  <2>5. QED BY <1>2, <2>2, <2>3, <2>4
<1>3. CASE ~c.ok
  <2>1. ReadString(r) = c BY <1>3 DEF ReadString
  <2>2. QED BY <1>1, <1>2, <1>3, <2>1 DEF Reads
<1>4. CASE c.ok
  <2>1. PICK b \in Seq(Bytes), s \in Seq(Bytes) : c = Took(r, s, b) BY <1>1, <1>4 DEF Reads
  <2>2. ReadString(r) = Took(r, s, UpToZero(b)) BY <1>2, <2>1
  <2>3. UpToZero(b) \in Seq(Bytes) BY UpToZeroType
  <2>4. UpToZero(b) \in FieldValues BY <2>3 DEF FieldValues
  <2>5. Reads(r, ReadString(r), Seq(Bytes)) BY <2>2, <2>3, <2>4, TookType DEF Reads
  <2>6. QED BY <1>2, <2>5
<1>5. QED BY <1>3, <1>4

(* A slot: two bytes, and three more for an item.                          *)
LEMMA ReadSlotType ==
    ASSUME NEW r \in Readers, r.ok
    PROVE  Reads(r, ReadSlot(r), Seq(Bytes))
<1> DEFINE id == ReadData(r, 2)
           rest == ReadData(id, 3)
<1>1. Reads(r, id, Wide(2)) BY ReadDataType
<1>2. CASE ~id.ok \/ Last(id.got) = NoItem
  <2>1. ReadSlot(r) = id BY <1>2 DEF ReadSlot
  <2>2. QED BY <1>1, <2>1 DEF Reads, Wide
<1>3. CASE id.ok /\ Last(id.got) # NoItem
  <2>1. id \in Readers /\ Reads(id, rest, Wide(3))
    <3>1. id \in Readers BY <1>1 DEF Reads
    <3> HIDE DEF id
    <3>2. QED BY <1>3, <3>1, ReadDataType
  <2>2. PICK b \in Seq(Bytes), s \in Seq(Bytes) : id = Took(r, s, b) BY <1>1, <1>3 DEF Reads, Wide
  <2>3. b \in FieldValues BY DEF FieldValues
  <2>4. Last(id.got) = b BY <2>2, <2>3, TookType
  <2>5. CASE ~rest.ok
    <3>1. ReadSlot(r) = rest BY <1>3, <2>5 DEF ReadSlot
    <3>2. QED BY <2>1, <2>5, <3>1 DEF Reads
  <2>6. CASE rest.ok
    <3>1. PICK c \in Seq(Bytes), t \in Seq(Bytes) : rest = Took(id, t, c) BY <2>1, <2>6 DEF Reads, Wide
    <3>2. c \in FieldValues BY DEF FieldValues
    <3>3. Last(rest.got) = c BY <2>1, <3>1, <3>2, TookType
    <3>4. ReadSlot(r) = WithValues(rest, Append(r.got, Last(id.got) \o Last(rest.got)))
      BY <1>3, <2>6 DEF ReadSlot
    <3>5. WithValues(Took(id, t, c), Append(r.got, b \o c)) = Took(r, t, b \o c)
      <4> HIDE DEF id
      <4>1. id.ok = r.ok BY <2>2, <2>3, TookType
      <4>2. WithValues(Took(id, t, c), Append(r.got, b \o c))
               = [ok |-> id.ok, left |-> t, got |-> Append(r.got, b \o c)]
        BY WithGot
      <4>3. QED BY <4>1, <4>2 DEF Took
    <3>6. ReadSlot(r) = Took(r, t, b \o c)
      <4> HIDE DEF rest, id
      <4>1. QED BY <2>4, <3>1, <3>3, <3>4, <3>5
    <3>7. b \o c \in Seq(Bytes) OBVIOUS
    <3>8. b \o c \in FieldValues BY <3>7 DEF FieldValues
    <3>9. QED BY <3>6, <3>7, <3>8, TookType DEF Reads
  <2>7. QED BY <2>5, <2>6
<1>4. QED BY <1>2, <1>3

(* A slot as the server reads it, with the NBT data behind an item.        *)
LEMMA SkipType ==
    ASSUME NEW r \in Readers, NEW n \in Nat
    PROVE  Skip(r, n) = [ok |-> r.ok, left |-> SubSeq(r.left, n + 1, Len(r.left)), got |-> r.got]
<1>1. PICK ok, left, got : r = [ok |-> ok, left |-> left, got |-> got] BY DEF Readers
<1> DEFINE s == SubSeq(left, n + 1, Len(left))
           u == [ok |-> ok, left |-> left, got |-> got]
<1>2. Skip(u, n) = [ok |-> ok, left |-> s, got |-> got]
  <2>1. u.left = left OBVIOUS
  <2>2. Skip(u, n) = [u EXCEPT !.left = s] BY <2>1 DEF Skip
  <2> HIDE DEF s
  <2>3. QED BY <2>2
<1>3. QED BY <1>1, <1>2

(* ReadSlotAndNbt appends a sequence of bytes, or is out of data.          *)
LEMMA ReadSlotAndNbtType ==
    ASSUME NEW r \in Readers, r.ok
    PROVE  Reads(r, ReadSlotAndNbt(r), Seq(Bytes))
<1> DEFINE slot == ReadSlot(r)
<1>1. Reads(r, slot, Seq(Bytes)) BY ReadSlotType
<1>2. CASE ~(slot.ok /\ Last(slot.got) # NoItem)
  <2>1. ReadSlotAndNbt(r) = slot BY <1>2 DEF ReadSlotAndNbt
  <2>2. QED BY <1>1, <2>1
<1>3. CASE slot.ok /\ Last(slot.got) # NoItem
  <2>1. slot \in Readers /\ ReadSlotAndNbt(r) = Skip(slot, 1) BY <1>1, <1>3 DEF ReadSlotAndNbt, Reads
  <2>2. PICK b \in Seq(Bytes), s \in Seq(Bytes) : slot = Took(r, s, b) BY <1>1, <1>3 DEF Reads
  <2> HIDE DEF slot
  <2>3. Skip(slot, 1) = [ok |-> slot.ok, left |-> SubSeq(slot.left, 1 + 1, Len(slot.left)), got |-> slot.got]
    BY <2>1, SkipType
  <2>4. b \in FieldValues BY DEF FieldValues
  <2>5. slot.left = s /\ slot.ok = r.ok /\ slot.got = Append(r.got, b) BY <2>2, <2>4, TookType
  <2>6. PICK t : t = SubSeq(s, 1 + 1, Len(s)) OBVIOUS
  <2>7. t \in Seq(Bytes) BY <2>6
  <2>8. Skip(slot, 1) = Took(r, t, b) BY <2>3, <2>5, <2>6 DEF Took
  <2>9. QED BY <2>1, <2>4, <2>7, <2>8, TookType DEF Reads
<1>4. QED BY <1>2, <1>3

(* Every read is one of these.                                             *)
LEMMA ReadCases ==
    ASSUME NEW r, NEW kind \in Kind
    PROVE  /\ ~r.ok => Read(r, kind) = r
           /\ r.ok /\ kind \in DOMAIN Width => Read(r, kind) = ReadData(r, Width[kind])
           /\ r.ok /\ kind = "VarInt" => Read(r, kind) = ReadVarInt(r)
           /\ r.ok /\ kind = "String" => Read(r, kind) = ReadString(r)
           /\ r.ok /\ kind = "ByteArray" => Read(r, kind) = ReadCounted(r)
           /\ r.ok /\ kind = "Slot" => Read(r, kind) = ReadSlot(r)
           /\ r.ok /\ kind = "SlotAndNbt" => Read(r, kind) = ReadSlotAndNbt(r)
           /\ {"VarInt", "String", "ByteArray", "Slot", "SlotAndNbt"} \cap DOMAIN Width = {}
<1>1. {"VarInt", "String", "ByteArray", "Slot", "SlotAndNbt"} \cap DOMAIN Width = {} BY DEF Width
<1>2. QED BY <1>1 DEF Read

(* A read appends a value of its kind, or is out of data.                  *)
LEMMA ReadType == ASSUME NEW r \in Readers, NEW kind \in Kind
                  PROVE  Reads(r, Read(r, kind), FieldOf(kind))
<1>1. CASE ~r.ok BY <1>1, ReadCases DEF Reads
<1>2. CASE r.ok /\ kind \in DOMAIN Width
  <2>1. Width[kind] \in Nat /\ Read(r, kind) = ReadData(r, Width[kind]) BY <1>2, WidthType, ReadCases
  <2>2. FieldOf(kind) = Wide(Width[kind]) BY <1>2, ReadCases DEF FieldOf
  <2>3. QED BY <1>2, <2>1, <2>2, ReadDataType
<1>3. CASE r.ok /\ kind = "VarInt"
  <2>1. FieldOf(kind) = Nat BY <1>3, ReadCases DEF FieldOf
  <2>2. QED BY <1>3, <2>1, ReadCases, ReadVarIntType
<1>4. CASE r.ok /\ kind \in {"String", "ByteArray", "Slot", "SlotAndNbt"}
  <2>1. FieldOf(kind) = Seq(Bytes) BY <1>4, ReadCases DEF FieldOf
  <2>2. Reads(r, Read(r, kind), Seq(Bytes))
    BY <1>4, ReadCases, ReadStringType, ReadCountedType, ReadSlotType, ReadSlotAndNbtType
  <2>3. QED BY <2>1, <2>2
<1>5. QED BY <1>1, <1>2, <1>3, <1>4 DEF Kind

-----------------------------------------------------------------------------
(* One field after the other.                                              *)
ReadsFields(f, r, kinds) ==
    /\ f \in [0..Len(kinds) -> Readers] /\ f[0] = r
    /\ \A i \in 1..Len(kinds) : f[i] = Read(f[i - 1], kinds[i])

(* ReadFields is the last of a sequence of readers, each one field         *)
(* further.                                                                *)
LEMMA ReadFieldsDef ==
    ASSUME NEW r \in Readers, NEW kinds \in Seq(Kind)
    PROVE  \E f : ReadsFields(f, r, kinds) /\ ReadFields(r, kinds) = f[Len(kinds)]
<1> DEFINE X == 0..Len(kinds)
           Step(i, g) == IF i = 0 THEN r ELSE Read(g[i - 1], kinds[i])
           F == [i \in X |-> [g \in [X -> Readers] |-> Step(i, g)]]
           rank == [i \in X |-> i]
           P(g) == g = [i \in X |-> IF i = 0 THEN r ELSE Read(g[i - 1], kinds[i])]
<1>1. Len(kinds) \in Nat /\ \A i \in 1..Len(kinds) : kinds[i] \in Kind OBVIOUS
<1>2. ASSUME NEW i \in X, NEW g \in [X -> Readers] PROVE Step(i, g) \in Readers
  <2>1. CASE i = 0 BY <2>1
  <2>2. CASE i # 0
    <3>1. i - 1 \in X /\ kinds[i] \in Kind BY <1>1, <2>2
    <3>2. g[i - 1] \in Readers BY <3>1
    <3>3. Read(g[i - 1], kinds[i]) \in Readers BY <3>1, <3>2, ReadType DEF Reads
    <3>4. QED BY <2>2, <3>3
  <2>3. QED BY <2>1, <2>2
<1>3. ASSUME NEW i \in X, NEW g \in [X -> Readers], NEW h \in [X -> Readers],
             \A j \in X : rank[j] < rank[i] => g[j] = h[j]
      PROVE  Step(i, g) = Step(i, h)
  <2>1. CASE i = 0 BY <2>1
  <2>2. CASE i # 0
    <3>1. i - 1 \in X /\ rank[i - 1] < rank[i] BY <1>1, <2>2
    <3>2. g[i - 1] = h[i - 1] BY <1>3, <3>1
    <3>3. QED BY <2>2, <3>2
  <2>3. QED BY <2>1, <2>2
<1>4. PICK f : Solves(f, X, Readers, F)
  <2>1. rank \in [X -> Nat] /\ Readers # {} BY <1>1
  <2>2. F \in [X -> [[X -> Readers] -> Readers]]
    <3> HIDE DEF Step, X
    <3> QED BY <1>2
  <2>3. \A i \in X : \A g, h \in [X -> Readers] :
          (\A j \in X : rank[j] < rank[i] => g[j] = h[j]) => F[i][g] = F[i][h]
    <3> HIDE DEF Step, X, rank
    <3> QED BY <1>3
  <2> HIDE DEF F, X, rank
  <2>4. RecursionStep(X, Readers, rank, F) BY <2>1, <2>2, <2>3 DEF RecursionStep
  <2>5. QED BY <2>4, Recursion
<1>5. f \in [X -> Readers] /\ \A i \in X : f[i] = Step(i, f)
  <2> HIDE DEF Step, X
  <2> QED BY <1>4 DEF Solves
<1>6. P(f) BY <1>5
<1>7. ReadFields(r, kinds) = (CHOOSE g : P(g))[Len(kinds)] BY DEF ReadFields
<1>8. P(CHOOSE g : P(g))
  <2> HIDE DEF P
  <2> QED BY <1>6
<1> DEFINE c == CHOOSE g : P(g)
<1>9. c = f
  <2>1. c = [i \in X |-> Step(i, c)] BY <1>8
  <2> HIDE DEF c, P
  <2> DEFINE N == {n \in Nat : n \in X => c[n] = f[n]}
  <2>2. 0 \in N
    <3>1. 0 \in X BY <1>1
    <3>2. QED BY <1>5, <2>1, <3>1
  <2>3. ASSUME NEW n \in Nat, n \in N PROVE n + 1 \in N
    <3> SUFFICES ASSUME n + 1 \in X PROVE c[n + 1] = f[n + 1] OBVIOUS
    <3>1. n \in X /\ (n + 1) - 1 = n /\ n + 1 # 0 BY <1>1
    <3>2. c[n] = f[n] BY <2>3, <3>1
    <3>3. c[n + 1] = Step(n + 1, c) /\ f[n + 1] = Step(n + 1, f) BY <2>1, <1>5
    <3>4. Step(n + 1, c) = Step(n + 1, f) BY <3>1, <3>2
    <3> HIDE DEF Step
    <3>5. QED BY <3>3, <3>4
  <2> HIDE DEF N
  <2>4. Nat \subseteq N BY <2>2, <2>3, Induction
  <2>5. \A i \in X : c[i] = f[i] BY <1>1, <2>4 DEF N
  <2>6. c = [i \in X |-> c[i]] BY <2>1
  <2>7. f = [i \in X |-> f[i]] BY <1>5
  <2>8. QED
    <3> HIDE DEF X
    <3> QED BY <2>5, <2>6, <2>7
<1>10. ReadsFields(f, r, kinds) BY <1>1, <1>5 DEF ReadsFields
<1>11. QED BY <1>7, <1>9, <1>10

(* As many values are got as there are fields, each of its kind.           *)
LEMMA ReadFieldsType ==
    ASSUME NEW r \in Readers, r.got = << >>, NEW kinds \in Seq(Kind)
    PROVE  /\ ReadFields(r, kinds) \in Readers
           /\ ReadFields(r, kinds).ok =>
                 /\ Len(ReadFields(r, kinds).got) = Len(kinds)
                 /\ \A i \in 1..Len(kinds) : ReadFields(r, kinds).got[i] \in FieldOf(kinds[i])
<1>1. PICK f : ReadsFields(f, r, kinds) /\ ReadFields(r, kinds) = f[Len(kinds)] BY ReadFieldsDef
<1> DEFINE n == Len(kinds)
           Typed(i) == f[i].ok => /\ Len(f[i].got) = i
                                  /\ \A j \in 1..i : f[i].got[j] \in FieldOf(kinds[j])
           N == {i \in Nat : i \in 0..n => Typed(i)}
<1>2. n \in Nat /\ \A i \in 1..n : kinds[i] \in Kind OBVIOUS
<1>3. f[0] = r /\ \A i \in 0..n : f[i] \in Readers BY <1>1 DEF ReadsFields
<1>4. 0 \in N BY <1>3
<1>5. ASSUME NEW i \in Nat, i \in N PROVE i + 1 \in N
  <2> SUFFICES ASSUME i + 1 \in 0..n, f[i + 1].ok PROVE Typed(i + 1) OBVIOUS
  <2>1. i \in 0..n /\ i + 1 \in 1..n /\ (i + 1) - 1 = i BY <1>2
  <2>2. kinds[i + 1] \in Kind /\ f[i] \in Readers /\ f[i + 1] = Read(f[i], kinds[i + 1])
    BY <1>1, <1>2, <1>3, <2>1 DEF ReadsFields
  <2>3. Reads(f[i], f[i + 1], FieldOf(kinds[i + 1])) BY <2>2, ReadType
  <2>4. PICK v \in FieldOf(kinds[i + 1]), s \in Seq(Bytes) : f[i + 1] = Took(f[i], s, v)
    BY <2>3 DEF Reads
  <2>5. f[i].ok BY <2>3 DEF Reads
  <2>6. Typed(i) BY <1>5, <2>1
  <2>7. f[i].got \in Seq(FieldValues) /\ f[i + 1].got \in Seq(FieldValues) BY <1>3, <2>1 DEF Readers
  <2>8. f[i + 1].got = Append(f[i].got, v) BY <2>4 DEF Took
  <2>9. \A g : g \in Seq(FieldValues) /\ Len(g) = i =>
           /\ Len(Append(g, v)) = i + 1 /\ Append(g, v)[i + 1] = v
           /\ \A j \in 1..i : Append(g, v)[j] = g[j]
    OBVIOUS
  <2> HIDE DEF n
  <2>10. Len(f[i].got) = i /\ \A j \in 1..i : f[i].got[j] \in FieldOf(kinds[j]) BY <2>5, <2>6
  <2>11. Len(f[i + 1].got) = i + 1 BY <2>7, <2>8, <2>9, <2>10
  <2>12. ASSUME NEW j \in 1..(i + 1) PROVE f[i + 1].got[j] \in FieldOf(kinds[j])
    <3>1. CASE j = i + 1 BY <2>4, <2>7, <2>8, <2>9, <2>10, <3>1
    <3>2. CASE j # i + 1
      <4>1. j \in 1..i BY <3>2
      <4>2. QED BY <2>7, <2>8, <2>9, <2>10, <4>1
    <3>3. QED BY <3>1, <3>2
  <2>13. QED BY <2>11, <2>12
<1> HIDE DEF N
<1>6. Nat \subseteq N BY <1>4, <1>5, Induction
<1>7. Typed(n) BY <1>2, <1>6 DEF N
<1>8. QED BY <1>1, <1>2, <1>3, <1>7

-----------------------------------------------------------------------------
(* Writing.  What may be written of a kind: a string has no zero byte, and *)
(* an item's id is not that of no item.                                    *)
Items == {b \in Wide(5) : SubSeq(b, 1, 2) # NoItem}

ValuesOf(kind) ==
    CASE kind = "String" -> {b \in Seq(Bytes) : \A i \in DOMAIN b : b[i] # 0}
      [] kind \in {"Slot", "SlotAndNbt"} -> {NoItem} \cup Items
      [] OTHER -> FieldOf(kind)

Fitting(kinds, values) ==
    /\ values \in Seq(FieldValues) /\ Len(values) = Len(kinds)
    /\ \A i \in 1..Len(kinds) : values[i] \in ValuesOf(kinds[i])

(* No item is two bytes.                                                   *)
LEMMA NoItemType == NoItem \in Wide(2)
<1>1. 2 * Radix - 1 \in Bytes BY RadixAssumption DEF Bytes
<1>2. QED BY <1>1 DEF NoItem, Wide

(* Values that may be written are values that may be read.                 *)
LEMMA ValuesOfType ==
    ASSUME NEW kind \in Kind
    PROVE  /\ ValuesOf(kind) \subseteq FieldOf(kind)
           /\ FieldOf(kind) \subseteq FieldValues
           /\ kind \in DOMAIN Width => ValuesOf(kind) = Wide(Width[kind])
           /\ kind = "VarInt" => ValuesOf(kind) = Nat
           /\ kind # "VarInt" => FieldOf(kind) \subseteq Seq(Bytes)
<1>1. Wide(5) \subseteq Seq(Bytes) /\ NoItem \in Seq(Bytes) BY NoItemType DEF Wide
<1>2. CASE kind \in DOMAIN Width
  <2>1. FieldOf(kind) = Wide(Width[kind]) /\ ValuesOf(kind) = FieldOf(kind)
    BY <1>2, ReadCases DEF FieldOf, ValuesOf
  <2>2. Wide(Width[kind]) \subseteq Seq(Bytes) BY DEF Wide
  <2>3. QED BY <1>2, <2>1, <2>2, ReadCases DEF FieldValues
<1>3. CASE kind = "VarInt"
  <2>1. FieldOf(kind) = Nat /\ ValuesOf(kind) = Nat BY <1>3, ReadCases DEF FieldOf, ValuesOf
  <2>2. QED BY <1>3, <2>1, ReadCases DEF FieldValues
<1>4. CASE kind \in {"String", "ByteArray", "Slot", "SlotAndNbt"}
  <2>1. FieldOf(kind) = Seq(Bytes) BY <1>4, ReadCases DEF FieldOf
  <2>2. CASE kind = "String"
    <3>1. ValuesOf(kind) = {b \in Seq(Bytes) : \A i \in DOMAIN b : b[i] # 0} BY <2>2 DEF ValuesOf
    <3>2. ValuesOf(kind) \subseteq Seq(Bytes) BY <3>1
    <3>3. QED BY <1>4, <2>1, <2>2, <3>2, ReadCases DEF FieldValues
  <2>3. CASE kind = "ByteArray"
    <3>1. ValuesOf(kind) = FieldOf(kind) BY <2>3 DEF ValuesOf
    <3>2. QED BY <1>4, <2>1, <2>3, <3>1, ReadCases DEF FieldValues
  <2>4. CASE kind \in {"Slot", "SlotAndNbt"}
    <3>1. ValuesOf(kind) = {NoItem} \cup Items BY <2>4 DEF ValuesOf
    <3>2. Items \subseteq Seq(Bytes) BY <1>1 DEF Items
    <3>3. ValuesOf(kind) \subseteq Seq(Bytes) BY <1>1, <3>1, <3>2
    <3>4. QED BY <1>4, <2>1, <2>4, <3>3, ReadCases DEF FieldValues
  <2>5. QED BY <1>4, <2>2, <2>3, <2>4
<1>5. QED BY <1>2, <1>3, <1>4 DEF Kind

(* Every write is one of these.                                            *)
LEMMA WriteCases ==
    ASSUME NEW kind \in Kind, NEW v
    PROVE  /\ kind = "VarInt" => Write(kind, v) = VarInt[v]
           /\ kind \in {"String", "ByteArray"} => Write(kind, v) = VarInt[Len(v)] \o v
           /\ kind = "SlotAndNbt" => Write(kind, v) = IF v = NoItem THEN v ELSE Append(v, 0)
           /\ kind \in DOMAIN Width \cup {"Slot"} => Write(kind, v) = v
<1>1. kind \in DOMAIN Width => kind \notin {"VarInt", "String", "ByteArray", "SlotAndNbt"}
  BY ReadCases
<1>2. QED BY <1>1 DEF Write

(* What is written of a field is bytes, and so is what is of all.          *)
LEMMA WriteType ==
    ASSUME NEW kind \in Kind, NEW v \in ValuesOf(kind)
    PROVE  Write(kind, v) \in Seq(Bytes)
<1>1. CASE kind = "VarInt"
  <2>1. v \in Nat BY <1>1, ValuesOfType
  <2>2. QED BY <1>1, <2>1, WriteCases, VarIntDef
<1>2. CASE kind # "VarInt"
  <2>1. v \in Seq(Bytes) BY <1>2, ValuesOfType
  <2>2. Len(v) \in Nat BY <2>1
  <2>3. VarInt[Len(v)] \in Seq(Bytes) BY <2>2, VarIntDef
  <2>4. VarInt[Len(v)] \o v \in Seq(Bytes) BY <2>1, <2>3
  <2>5. 0 \in Bytes BY RadixAssumption DEF Bytes
  <2>6. Append(v, 0) \in Seq(Bytes) BY <2>1, <2>5
  <2>7. CASE kind \in {"String", "ByteArray"} BY <2>4, <2>7, WriteCases
  <2>8. CASE kind = "SlotAndNbt" BY <2>1, <2>6, <2>8, WriteCases
  <2>9. CASE kind \in DOMAIN Width \cup {"Slot"} BY <2>1, <2>9, WriteCases
  <2>10. QED BY <1>2, <2>7, <2>8, <2>9 DEF Kind
<1>3. QED BY <1>1, <1>2

(* What is written of the fields is bytes.                                 *)
LEMMA WriteFieldsType ==
    ASSUME NEW kinds \in Seq(Kind), NEW values, Fitting(kinds, values)
    PROVE  /\ [i \in 1..Len(kinds) |-> Write(kinds[i], values[i])] \in Seq(Seq(Bytes))
           /\ WriteFields(kinds, values) = FlattenSeq([i \in 1..Len(kinds) |-> Write(kinds[i], values[i])])
           /\ WriteFields(kinds, values) \in Seq(Bytes)
<1> DEFINE W == [i \in 1..Len(kinds) |-> Write(kinds[i], values[i])]
<1>1. \A i \in 1..Len(kinds) : Write(kinds[i], values[i]) \in Seq(Bytes)
  <2>1. ASSUME NEW i \in 1..Len(kinds) PROVE Write(kinds[i], values[i]) \in Seq(Bytes)
    <3>1. kinds[i] \in Kind /\ values[i] \in ValuesOf(kinds[i]) BY DEF Fitting
    <3>2. QED BY <3>1, WriteType
  <2>2. QED BY <2>1
<1>2. W \in Seq(Seq(Bytes))
  <2>1. Len(kinds) \in Nat OBVIOUS
  <2>2. QED BY <1>1, <2>1
<1>3. DOMAIN kinds = 1..Len(kinds) OBVIOUS
<1>4. WriteFields(kinds, values) = FlattenSeq(W) BY <1>3 DEF WriteFields
<1> HIDE DEF W
<1>5. FlattenSeq(W) \in Seq(Bytes) BY <1>2, FlattenType
<1>6. QED BY <1>2, <1>4, <1>5 DEF W

-----------------------------------------------------------------------------
(* Reading what was written.  A counted field: the bytes behind their      *)
(* number.                                                                 *)
LEMMA ReadDataOf ==
    ASSUME NEW r \in Readers, r.ok, NEW b \in Seq(Bytes), NEW s \in Seq(Bytes), r.left = b \o s
    PROVE  ReadData(r, Len(b)) = Took(r, s, b)
<1>1. Len(b) \in Nat /\ Len(r.left) >= Len(b) /\ r.left \in Seq(Bytes) BY DEF Readers
<1>2. SubSeq(b \o s, 1, Len(b)) = b /\ SubSeq(b \o s, Len(b) + 1, Len(b \o s)) = s OBVIOUS
<1>3. QED BY <1>1, <1>2, ReadDataType

(* A length and that many bytes are read as those bytes.                   *)
LEMMA ReadCountedOf ==
    ASSUME NEW r \in Readers, r.ok, NEW b \in Seq(Bytes), NEW s \in Seq(Bytes),
           r.left = (VarInt[Len(b)] \o b) \o s
    PROVE  ReadCounted(r) = Took(r, s, b)
<1> DEFINE n == Len(b)
           t == b \o s
           q == [ok |-> r.ok, left |-> t, got |-> r.got]
<1>1. n \in Nat /\ VarInt[n] \in Seq(Bytes) /\ t \in Seq(Bytes) BY VarIntDef
<1>2. r.left = VarInt[n] \o t
  <2>1. \A u, v, w \in Seq(Bytes) : (u \o v) \o w = u \o (v \o w) OBVIOUS
  <2>2. QED BY <1>1, <2>1
<1>3. n \in FieldValues BY <1>1 DEF FieldValues
<1> HIDE DEF n, t
<1>4. ReadVarInt(r) = Took(r, t, n) BY <1>1, <1>2, ReadWrittenVarInt
<1>5. Took(r, t, n).ok /\ Last(Took(r, t, n).got) = n /\ Front(Took(r, t, n).got) = r.got
  BY <1>1, <1>3, TookType
<1>6. WithValues(Took(r, t, n), r.got) = q BY WithGot
<1>7. ReadCounted(r) = ReadData(q, n) BY <1>4, <1>5, <1>6 DEF ReadCounted
<1>8. q \in Readers /\ q.ok /\ q.left = b \o s BY <1>1 DEF Readers, t
<1>9. ReadData(q, n) = Took(q, s, b)
  <2> HIDE DEF q
  <2>1. QED BY <1>8, ReadDataOf DEF n
<1>10. Took(q, s, b) = Took(r, s, b) BY DEF Took
<1>11. QED BY <1>7, <1>9, <1>10

(* A slot without an item.                                                 *)
LEMMA ReadNoSlotOf ==
    ASSUME NEW r \in Readers, r.ok, NEW s \in Seq(Bytes), r.left = NoItem \o s
    PROVE  ReadSlot(r) = Took(r, s, NoItem) /\ ReadSlotAndNbt(r) = Took(r, s, NoItem)
<1>1. NoItem \in Seq(Bytes) /\ Len(NoItem) = 2 BY NoItemType DEF Wide
<1>2. ReadData(r, 2) = Took(r, s, NoItem) BY <1>1, ReadDataOf
<1>3. NoItem \in FieldValues BY <1>1 DEF FieldValues
<1>4. Last(Took(r, s, NoItem).got) = NoItem BY <1>3, TookType
<1>5. ReadSlot(r) = Took(r, s, NoItem) BY <1>2, <1>4 DEF ReadSlot
<1>6. ReadSlotAndNbt(r) = Took(r, s, NoItem) BY <1>4, <1>5 DEF ReadSlotAndNbt
<1>7. QED BY <1>5, <1>6

(* A slot with one, and with the NBT data behind it.                       *)
LEMMA ReadItemOf ==
    ASSUME NEW r \in Readers, r.ok, NEW b \in Items, NEW s \in Seq(Bytes), r.left = b \o s
    PROVE  ReadSlot(r) = Took(r, s, b)
<1> DEFINE c == SubSeq(b, 1, 2)
           d == SubSeq(b, 3, 5)
           t == d \o s
           id == ReadData(r, 2)
           rest == ReadData(id, 3)
<1>1. b \in Seq(Bytes) /\ Len(b) = 5 /\ c # NoItem BY DEF Items, Wide
<1>2. \A e \in Seq(Bytes) : Len(e) = 5 =>
         /\ SubSeq(e, 1, 2) \in Seq(Bytes) /\ Len(SubSeq(e, 1, 2)) = 2
         /\ SubSeq(e, 3, 5) \in Seq(Bytes) /\ Len(SubSeq(e, 3, 5)) = 3
         /\ e = SubSeq(e, 1, 2) \o SubSeq(e, 3, 5)
  <2>1. \A e \in Seq(Bytes) : \A k \in 1..Len(e) :
           /\ SubSeq(e, 1, k) \in Seq(Bytes) /\ Len(SubSeq(e, 1, k)) = k
           /\ SubSeq(e, k + 1, Len(e)) \in Seq(Bytes) /\ Len(SubSeq(e, k + 1, Len(e))) = Len(e) - k
           /\ e = SubSeq(e, 1, k) \o SubSeq(e, k + 1, Len(e))
    OBVIOUS
  <2>2. ASSUME NEW e \in Seq(Bytes), Len(e) = 5
        PROVE  /\ SubSeq(e, 1, 2) \in Seq(Bytes) /\ Len(SubSeq(e, 1, 2)) = 2
               /\ SubSeq(e, 2 + 1, Len(e)) \in Seq(Bytes) /\ Len(SubSeq(e, 2 + 1, Len(e))) = Len(e) - 2
               /\ e = SubSeq(e, 1, 2) \o SubSeq(e, 2 + 1, Len(e))
    <3>1. 2 \in 1..Len(e) BY <2>2
    <3>2. QED BY <2>1, <3>1
  <2> SUFFICES ASSUME NEW e \in Seq(Bytes), Len(e) = 5
               PROVE  /\ SubSeq(e, 1, 2) \in Seq(Bytes) /\ Len(SubSeq(e, 1, 2)) = 2
                      /\ SubSeq(e, 3, 5) \in Seq(Bytes) /\ Len(SubSeq(e, 3, 5)) = 3
                      /\ e = SubSeq(e, 1, 2) \o SubSeq(e, 3, 5)
    OBVIOUS
  <2>3. SubSeq(e, 2 + 1, Len(e)) = SubSeq(e, 3, 5) /\ Len(e) - 2 = 3 OBVIOUS
  <2>4. QED BY <2>2, <2>3
<1>3. c \in Seq(Bytes) /\ Len(c) = 2 /\ d \in Seq(Bytes) /\ Len(d) = 3 /\ b = c \o d BY <1>1, <1>2
<1> HIDE DEF c, d
<1>4. t \in Seq(Bytes) /\ r.left = c \o t BY <1>3
<1>5. c \in FieldValues /\ d \in FieldValues BY <1>3 DEF FieldValues
<1>6. id = Took(r, t, c)
  <2> HIDE DEF t
  <2>1. QED BY <1>3, <1>4, ReadDataOf
<1>7. id \in Readers /\ id.ok /\ id.left = t /\ Last(id.got) = c
  <2> HIDE DEF t, id
  <2>1. QED BY <1>4, <1>5, <1>6, TookType
<1>8. rest = Took(id, s, d)
  <2> HIDE DEF id
  <2>1. QED BY <1>3, <1>7, ReadDataOf
<1>9. rest.ok /\ Last(rest.got) = d
  <2> HIDE DEF id, rest
  <2>1. QED BY <1>5, <1>7, <1>8, TookType
<1>10. ReadSlot(r) = WithValues(rest, Append(r.got, Last(id.got) \o Last(rest.got)))
  <2>1. ~(~id.ok \/ Last(id.got) = NoItem) BY <1>1, <1>7 DEF c
  <2>2. QED BY <1>9, <2>1 DEF ReadSlot
<1>11. WithValues(Took(id, s, d), Append(r.got, b)) = [ok |-> id.ok, left |-> s, got |-> Append(r.got, b)]
  BY WithGot
<1>12. ReadSlot(r) = [ok |-> id.ok, left |-> s, got |-> Append(r.got, b)]
  <2> HIDE DEF id, rest
  <2>1. QED BY <1>3, <1>7, <1>8, <1>9, <1>10, <1>11
<1>13. id.ok = r.ok
  <2> HIDE DEF t, id
  <2>1. QED BY <1>4, <1>5, <1>6, TookType
<1> HIDE DEF id
<1>14. QED BY <1>12, <1>13 DEF Took

(* The server reads an item and skips the zero behind it.                  *)
LEMMA ReadItemAndNbtOf ==
    ASSUME NEW r \in Readers, r.ok, NEW b \in Items, NEW s \in Seq(Bytes), r.left = Append(b, 0) \o s
    PROVE  ReadSlotAndNbt(r) = Took(r, s, b)
<1> DEFINE t == <<0>> \o s
<1>1. b \in Seq(Bytes) /\ Len(b) = 5 /\ SubSeq(b, 1, 2) # NoItem BY DEF Items, Wide
<1>2. 0 \in Bytes BY RadixAssumption DEF Bytes
<1>3. <<0>> \in Seq(Bytes) BY <1>2
<1>4. t \in Seq(Bytes) /\ SubSeq(t, 1 + 1, Len(t)) = s BY <1>3
<1>5. r.left = b \o t
  <2>1. Append(b, 0) = b \o <<0>> BY <1>1, <1>2, AppendIsConcat
  <2>2. (b \o <<0>>) \o s = b \o (<<0>> \o s) BY <1>1, <1>3
  <2>3. QED BY <2>1, <2>2
<1> HIDE DEF t
<1>6. ReadSlot(r) = Took(r, t, b) BY <1>4, <1>5, ReadItemOf
<1>7. b \in FieldValues BY <1>1 DEF FieldValues
<1>8. /\ Took(r, t, b) \in Readers /\ Took(r, t, b).ok = r.ok /\ Took(r, t, b).left = t
      /\ Took(r, t, b).got = Append(r.got, b) /\ Last(Took(r, t, b).got) = b
  BY <1>4, <1>7, TookType
<1>9. b # NoItem BY <1>1, NoItemType DEF Wide
<1>10. ReadSlotAndNbt(r) = Skip(Took(r, t, b), 1) BY <1>6, <1>8, <1>9 DEF ReadSlotAndNbt
<1>11. Skip(Took(r, t, b), 1) = [ok |-> r.ok, left |-> s, got |-> Append(r.got, b)]
  <2>1. PICK q : q = Took(r, t, b) OBVIOUS
  <2>2. Skip(q, 1) = [ok |-> q.ok, left |-> SubSeq(q.left, 1 + 1, Len(q.left)), got |-> q.got]
    BY <1>8, <2>1, SkipType
  <2>3. QED BY <1>4, <1>8, <2>1, <2>2
<1>12. QED BY <1>10, <1>11 DEF Took

(* Every field that is written is read back, to its last byte, whatever    *)
(* follows it (stream.cpp, the pairs of Read and Write).                   *)
THEOREM ReadUndoesWrite ==
    ASSUME NEW r \in Readers, r.ok, NEW kind \in Kind, NEW v \in ValuesOf(kind),
           NEW s \in Seq(Bytes), r.left = Write(kind, v) \o s
    PROVE  Read(r, kind) = Took(r, s, v)
<1>1. CASE kind \in DOMAIN Width
  <2>1. v \in Seq(Bytes) /\ Len(v) = Width[kind] BY <1>1, ValuesOfType DEF Wide
  <2>2. Write(kind, v) = v BY <1>1, WriteCases
  <2>3. ReadData(r, Len(v)) = Took(r, s, v) BY <2>1, <2>2, ReadDataOf
  <2>4. QED BY <1>1, <2>1, <2>3, ReadCases
<1>2. CASE kind = "VarInt"
  <2>1. v \in Nat /\ Write(kind, v) = VarInt[v] BY <1>2, ValuesOfType, WriteCases
  <2>2. ReadVarInt(r) = Took(r, s, v) BY <2>1, ReadWrittenVarInt
  <2>3. QED BY <1>2, <2>2, ReadCases
<1>3. CASE kind \in {"String", "ByteArray"}
  <2>1. v \in Seq(Bytes) BY <1>3, ValuesOfType
  <2>2. Write(kind, v) = VarInt[Len(v)] \o v BY <1>3, WriteCases
  <2>3. ReadCounted(r) = Took(r, s, v) BY <2>1, <2>2, ReadCountedOf
  <2>4. CASE kind = "ByteArray" BY <2>3, <2>4, ReadCases
  <2>5. CASE kind = "String"
    <3>1. \A i \in DOMAIN v : v[i] # 0 BY <2>5 DEF ValuesOf
    <3>2. UpToZero(v) = v BY <2>1, <3>1, UpToZeroType
    <3>3. ReadString(r) = Took(r, s, UpToZero(v)) BY <2>1, <2>3, ReadStringType
    <3>4. QED BY <2>5, <3>2, <3>3, ReadCases
  <2>6. QED BY <1>3, <2>4, <2>5
<1>4. CASE kind \in {"Slot", "SlotAndNbt"}
  <2>1. v = NoItem \/ v \in Items BY <1>4 DEF ValuesOf
  <2>2. v = NoItem \/ v # NoItem OBVIOUS
  <2>3. CASE v = NoItem
    <3>1. Write(kind, v) = NoItem BY <1>4, <2>3, WriteCases
    <3>2. QED BY <1>4, <2>3, <3>1, ReadNoSlotOf, ReadCases
  <2>4. CASE v # NoItem
    <3>1. v \in Items BY <2>1, <2>4
    <3>2. CASE kind = "Slot"
      <4>1. Write(kind, v) = v BY <3>2, WriteCases
      <4>2. ReadSlot(r) = Took(r, s, v) BY <3>1, <4>1, ReadItemOf
      <4>3. QED BY <3>2, <4>2, ReadCases
    <3>3. CASE kind = "SlotAndNbt"
      <4>1. Write(kind, v) = Append(v, 0) BY <2>4, <3>3, WriteCases
      <4>2. ReadSlotAndNbt(r) = Took(r, s, v) BY <3>1, <4>1, ReadItemAndNbtOf
      <4>3. QED BY <3>3, <4>2, ReadCases
    <3>4. QED BY <1>4, <3>2, <3>3
  <2>5. QED BY <2>2, <2>3, <2>4
<1>5. QED BY <1>1, <1>2, <1>3, <1>4 DEF Kind

(* A packet that is written field by field is read field by field: every   *)
(* value as it was, and nothing of what follows it.                        *)
THEOREM FieldsUndone ==
    ASSUME NEW kinds \in Seq(Kind), NEW values, Fitting(kinds, values), NEW s \in Seq(Bytes)
    PROVE  ReadFields(Reader(WriteFields(kinds, values) \o s), kinds)
              = [ok |-> TRUE, left |-> s, got |-> values]
<1> DEFINE n == Len(kinds)
           W == [i \in 1..n |-> Write(kinds[i], values[i])]
           behind(i) == FlattenSeq(SubSeq(W, i + 1, n)) \o s
           r == Reader(FlattenSeq(W) \o s)
           Has(f, i) == f[i] = [ok |-> TRUE, left |-> behind(i), got |-> SubSeq(values, 1, i)]
<1>1. /\ W \in Seq(Seq(Bytes)) /\ WriteFields(kinds, values) = FlattenSeq(W)
      /\ FlattenSeq(W) \in Seq(Bytes)
  BY WriteFieldsType
<1>2. /\ n \in Nat /\ Len(W) = n /\ values \in Seq(FieldValues) /\ Len(values) = n
      /\ \A i \in 1..n : kinds[i] \in Kind /\ values[i] \in ValuesOf(kinds[i]) /\ W[i] = Write(kinds[i], values[i])
  BY DEF Fitting
<1> HIDE DEF n, W
<1>3. r \in Readers
  <2>1. FlattenSeq(W) \o s \in Seq(Bytes) /\ << >> \in Seq(FieldValues) BY <1>1
  <2>2. QED BY <2>1 DEF Reader, Readers
<1>4. PICK f : ReadsFields(f, r, kinds) /\ ReadFields(r, kinds) = f[Len(kinds)]
  <2> HIDE DEF r
  <2>1. QED BY <1>3, ReadFieldsDef
<1>5. f[0] = r /\ \A i \in 0..n : f[i] \in Readers BY <1>4 DEF ReadsFields, n
<1>6. \A i \in 0..n : SubSeq(W, i + 1, n) \in Seq(Seq(Bytes))
  <2>1. \A i \in 0..n : \A j \in (i + 1)..n : j \in 1..Len(W) /\ W[j] \in Seq(Bytes) BY <1>1, <1>2
  <2>2. \A i \in 0..n : i + 1 \in Int /\ n \in Int BY <1>2
  <2>3. QED BY <2>1, <2>2, SubSeqProperties
<1>7. \A i \in 0..n : behind(i) \in Seq(Bytes)
  <2>1. \A i \in 0..n : FlattenSeq(SubSeq(W, i + 1, n)) \in Seq(Bytes) BY <1>6, FlattenType
  <2>2. QED BY <2>1
<1>8. Has(f, 0)
  <2>1. SubSeq(W, 0 + 1, n) = W BY <1>1, <1>2
  <2>2. SubSeq(values, 1, 0) = << >> BY <1>2
  <2>3. QED BY <1>5, <2>1, <2>2 DEF Reader
<1>9. ASSUME NEW i \in Nat, i + 1 \in 1..n, Has(f, i) PROVE Has(f, i + 1)
  <2> DEFINE v == values[i + 1]
             kind == kinds[i + 1]
  <2>1. i \in 0..n /\ i + 1 \in 0..n /\ (i + 1) - 1 = i BY <1>2, <1>9
  <2>2. kind \in Kind /\ v \in ValuesOf(kind) /\ W[i + 1] = Write(kind, v) BY <1>2, <1>9
  <2>3. f[i + 1] = Read(f[i], kind) BY <1>4, <1>9, <2>1 DEF ReadsFields, n
  <2>4. behind(i) = Write(kind, v) \o behind(i + 1)
    <3>1. SubSeq(W, i + 1, n) = <<W[i + 1]>> \o SubSeq(W, (i + 1) + 1, n)
      <4>1. \A S : \A w \in Seq(S) : \A k \in 1..Len(w) :
               SubSeq(w, k, Len(w)) = <<w[k]>> \o SubSeq(w, k + 1, Len(w))
        OBVIOUS
      <4>2. i + 1 \in 1..Len(W) BY <1>2, <1>9
      <4>3. QED BY <1>1, <1>2, <4>1, <4>2
    <3>2. W[i + 1] \in Seq(Bytes) BY <1>1, <1>2, <1>9
    <3>3. <<W[i + 1]>> \in Seq(Seq(Bytes)) BY <3>2
    <3>4. SubSeq(W, (i + 1) + 1, n) \in Seq(Seq(Bytes)) BY <1>6, <2>1
    <3>5. FlattenSeq(SubSeq(W, i + 1, n)) = FlattenSeq(<<W[i + 1]>>) \o FlattenSeq(SubSeq(W, (i + 1) + 1, n))
      BY <3>1, <3>3, <3>4, FlattenConcat
    <3>6. FlattenSeq(<<W[i + 1]>>) = W[i + 1] BY <3>2, FlattenOne
    <3>7. FlattenSeq(SubSeq(W, (i + 1) + 1, n)) \in Seq(Bytes) BY <3>4, FlattenType
    <3>8. \A a, b, c \in Seq(Bytes) : (a \o b) \o c = a \o (b \o c) OBVIOUS
    <3>9. (W[i + 1] \o FlattenSeq(SubSeq(W, (i + 1) + 1, n))) \o s
             = W[i + 1] \o (FlattenSeq(SubSeq(W, (i + 1) + 1, n)) \o s)
      BY <3>2, <3>7, <3>8
    <3>10. QED BY <2>2, <3>5, <3>6, <3>9
  <2>5. SubSeq(values, 1, i + 1) = Append(SubSeq(values, 1, i), v)
    <3>1. \A g \in Seq(FieldValues), k \in Nat : k + 1 \in 1..Len(g) =>
             SubSeq(g, 1, k + 1) = Append(SubSeq(g, 1, k), g[k + 1])
      OBVIOUS
    <3>2. QED BY <1>2, <1>9, <3>1
  <2>6. f[i] \in Readers /\ f[i].ok /\ f[i].left = behind(i) /\ f[i].got = SubSeq(values, 1, i)
    BY <1>5, <1>9, <2>1
  <2>7. behind(i + 1) \in Seq(Bytes) BY <1>7, <2>1
  <2> HIDE DEF v, kind, behind
  <2>8. Read(f[i], kind) = Took(f[i], behind(i + 1), v)
    <3>1. PICK q \in Readers, t \in Seq(Bytes) : q = f[i] /\ t = behind(i + 1) BY <2>6, <2>7
    <3>2. q.ok /\ q.left = Write(kind, v) \o t BY <2>4, <2>6, <3>1
    <3>3. Read(q, kind) = Took(q, t, v) BY <2>2, <3>2, ReadUndoesWrite
    <3>4. QED BY <3>1, <3>3
  <2>9. Took(f[i], behind(i + 1), v) = [ok |-> TRUE, left |-> behind(i + 1), got |-> SubSeq(values, 1, i + 1)]
    <3>1. f[i].ok = TRUE BY <2>6 DEF Readers
    <3>2. QED BY <2>5, <2>6, <3>1 DEF Took
  <2>10. QED BY <2>3, <2>8, <2>9
<1> DEFINE N == {i \in Nat : i \in 0..n => Has(f, i)}
<1>10. 0 \in N BY <1>8
<1>11. \A i \in Nat : i \in N => i + 1 \in N
  <2> SUFFICES ASSUME NEW i \in Nat, i \in 0..n => Has(f, i), i + 1 \in 0..n PROVE Has(f, i + 1)
    <3> HIDE DEF Has
    <3>1. QED OBVIOUS
  <2> HIDE DEF Has
  <2>1. i \in 0..n /\ i + 1 \in 1..n BY <1>2
  <2>2. QED BY <1>9, <2>1
<1> HIDE DEF N
<1>12. Nat \subseteq N BY <1>10, <1>11, Induction
<1>13. Has(f, n)
  <2> HIDE DEF Has
  <2>1. QED BY <1>2, <1>12 DEF N
<1>14. behind(n) = s
  <2>1. SubSeq(W, n + 1, n) = << >> BY <1>1, <1>2
  <2>2. << >> \o s = s OBVIOUS
  <2>3. QED BY <2>1, <2>2, FlattenEmpty
<1>15. SubSeq(values, 1, n) = values BY <1>2
<1>16. QED BY <1>1, <1>4, <1>13, <1>14, <1>15 DEF n

-----------------------------------------------------------------------------
(* A reader at the beginning of some bytes.                                *)
LEMMA ReaderType == ASSUME NEW b \in Seq(Bytes)
                    PROVE  /\ Reader(b) \in Readers /\ Reader(b).ok /\ Reader(b).left = b
                           /\ Reader(b).got = << >>
BY DEF Reader, Readers

-----------------------------------------------------------------------------
(* Nothing is read of no fields, and one field more is one read more.      *)
LEMMA ReadNone == ASSUME NEW r \in Readers PROVE ReadFields(r, << >>) = r
<1>1. << >> \in Seq(Kind) /\ Len(<< >>) = 0 OBVIOUS
<1>2. PICK f : ReadsFields(f, r, << >>) /\ ReadFields(r, << >>) = f[Len(<< >>)] BY <1>1, ReadFieldsDef
<1>3. QED BY <1>1, <1>2 DEF ReadsFields

(* With one field more, that field is read last.                           *)
LEMMA ReadMore ==
    ASSUME NEW r \in Readers, NEW kinds \in Seq(Kind), NEW kind \in Kind
    PROVE  /\ ReadFields(r, kinds) \in Readers
           /\ ReadFields(r, Append(kinds, kind)) = Read(ReadFields(r, kinds), kind)
<1> DEFINE n == Len(kinds)
           more == Append(kinds, kind)
<1>1. n \in Nat /\ more \in Seq(Kind) /\ Len(more) = n + 1 /\ more[n + 1] = kind
      /\ \A i \in 1..n : more[i] = kinds[i]
  OBVIOUS
<1> HIDE DEF more
<1>2. PICK f : ReadsFields(f, r, kinds) /\ ReadFields(r, kinds) = f[Len(kinds)] BY ReadFieldsDef
<1>3. PICK g : ReadsFields(g, r, more) /\ ReadFields(r, more) = g[Len(more)] BY <1>1, ReadFieldsDef
<1>4. /\ \A i \in 0..n : f[i] \in Readers
      /\ f[0] = r /\ \A i \in 1..n : f[i] = Read(f[i - 1], kinds[i])
  BY <1>2 DEF ReadsFields
<1>5. g[0] = r /\ \A i \in 1..(n + 1) : g[i] = Read(g[i - 1], more[i]) BY <1>1, <1>3 DEF ReadsFields
<1> HIDE DEF n
<1> DEFINE N == {i \in Nat : i \in 0..n => g[i] = f[i]}
<1>6. 0 \in N BY <1>4, <1>5
<1>7. ASSUME NEW i \in Nat, i \in N PROVE i + 1 \in N
  <2> SUFFICES ASSUME i + 1 \in 0..n PROVE g[i + 1] = f[i + 1] OBVIOUS
  <2>1. i \in 0..n /\ i + 1 \in 1..n /\ i + 1 \in 1..(n + 1) /\ (i + 1) - 1 = i BY <1>1
  <2>2. g[i] = f[i] BY <1>7, <2>1
  <2>3. QED BY <1>1, <1>4, <1>5, <2>1, <2>2
<1>8. \A i \in Nat : i \in N => i + 1 \in N BY <1>7
<1> HIDE DEF N
<1>9. Nat \subseteq N BY <1>6, <1>8, Induction
<1>10. g[n] = f[n] BY <1>1, <1>9 DEF N
<1>11. g[n + 1] = Read(g[n], kind)
  <2>1. n + 1 \in 1..(n + 1) /\ (n + 1) - 1 = n BY <1>1
  <2>2. QED BY <1>1, <1>5, <2>1
<1>12. f[n] \in Readers BY <1>1, <1>4
<1>13. QED BY <1>1, <1>2, <1>3, <1>10, <1>11, <1>12 DEF n, more

(* The fields of two lists are read one list after the other.              *)
LEMMA ReadRest ==
    ASSUME NEW r \in Readers, NEW k \in Seq(Kind), NEW l \in Seq(Kind)
    PROVE  ReadFields(r, k \o l) = ReadFields(ReadFields(r, k), l)
<1> DEFINE q == ReadFields(r, k)
           T == {m \in Seq(Kind) : ReadFields(r, k \o m) = ReadFields(q, m)}
<1>1. q \in Readers
  <2>1. PICK f : ReadsFields(f, r, k) /\ q = f[Len(k)] BY ReadFieldsDef
  <2>2. Len(k) \in 0..Len(k) OBVIOUS
  <2>3. QED BY <2>1, <2>2 DEF ReadsFields
<1> HIDE DEF q
<1>2. << >> \in T
  <2>1. << >> \in Seq(Kind) /\ k \o << >> = k OBVIOUS
  <2>2. ReadFields(q, << >>) = q BY <1>1, ReadNone
  <2>3. QED BY <2>1, <2>2 DEF q
<1>3. ASSUME NEW m \in Seq(Kind), NEW e \in Kind, m \in T PROVE Append(m, e) \in T
  <2>1. k \o Append(m, e) = Append(k \o m, e) /\ k \o m \in Seq(Kind) /\ Append(m, e) \in Seq(Kind)
    OBVIOUS
  <2>2. ReadFields(r, Append(k \o m, e)) = Read(ReadFields(r, k \o m), e) BY <2>1, ReadMore
  <2>3. ReadFields(q, Append(m, e)) = Read(ReadFields(q, m), e) BY <1>1, ReadMore
  <2>4. QED BY <1>3, <2>1, <2>2, <2>3
<1>4. \A m \in Seq(Kind) : \A e \in Kind : m \in T => Append(m, e) \in T BY <1>3
<1> HIDE DEF T
<1>5. Seq(Kind) \subseteq T BY <1>2, <1>4, ListInduction
<1>6. QED BY <1>5 DEF T, q

(* A read that failed is the last, and what is got stays.                  *)
Grown(r, q, n) ==
    /\ q \in Readers
    /\ ~r.ok => q = r
    /\ q.ok => /\ r.ok /\ Len(q.got) = Len(r.got) + n
               /\ SubSeq(q.got, 1, Len(r.got)) = r.got

(* Reading the fields keeps the values there were and adds one for each.   *)
LEMMA ReadGrows ==
    ASSUME NEW r \in Readers, NEW kinds \in Seq(Kind)
    PROVE  Grown(r, ReadFields(r, kinds), Len(kinds))
<1> DEFINE T == {m \in Seq(Kind) : Grown(r, ReadFields(r, m), Len(m))}
<1>1. r.got \in Seq(FieldValues) /\ Len(r.got) \in Nat BY DEF Readers
<1>2. << >> \in T
  <2>1. << >> \in Seq(Kind) /\ Len(<< >>) = 0 OBVIOUS
  <2>2. SubSeq(r.got, 1, Len(r.got)) = r.got /\ Len(r.got) + 0 = Len(r.got) BY <1>1
  <2>3. ReadFields(r, << >>) = r BY ReadNone
  <2>4. QED BY <2>1, <2>2, <2>3 DEF Grown
<1>3. ASSUME NEW m \in Seq(Kind), NEW e \in Kind, m \in T PROVE Append(m, e) \in T
  <2>1. PICK q \in Readers : q = ReadFields(r, m) BY ReadMore
  <2>2. Append(m, e) \in Seq(Kind) /\ Len(Append(m, e)) = Len(m) + 1 /\ Len(m) \in Nat OBVIOUS
  <2>3. ReadFields(r, Append(m, e)) = Read(q, e) BY <2>1, ReadMore
  <2>4. Reads(q, Read(q, e), FieldOf(e)) BY ReadType
  <2>5. Grown(r, q, Len(m)) BY <1>3, <2>1
  <2>6. Grown(r, Read(q, e), Len(m) + 1)
    <3>1. Read(q, e) \in Readers BY <2>4 DEF Reads
    <3>2. ~r.ok => Read(q, e) = r
      <4>1. ~r.ok => q = r BY <2>5 DEF Grown
      <4>2. ~q.ok => Read(q, e) = q BY ReadCases
      <4>3. QED BY <4>1, <4>2
    <3>3. ASSUME Read(q, e).ok
          PROVE  /\ r.ok /\ Len(Read(q, e).got) = Len(r.got) + (Len(m) + 1)
                 /\ SubSeq(Read(q, e).got, 1, Len(r.got)) = r.got
      <4>1. q.ok /\ \E v \in FieldOf(e), s \in Seq(Bytes) : Read(q, e) = Took(q, s, v)
        BY <2>4, <3>3 DEF Reads
      <4>2. PICK v, s : Read(q, e) = Took(q, s, v) BY <4>1
      <4>3. Read(q, e).got = Append(q.got, v) BY <4>2 DEF Took
      <4>4. PICK g \in Seq(FieldValues) : g = q.got BY DEF Readers
      <4>5. r.ok /\ Len(g) = Len(r.got) + Len(m) /\ SubSeq(g, 1, Len(r.got)) = r.got
        BY <2>5, <4>1, <4>4 DEF Grown
      <4>6. PICK n \in Nat : n = Len(r.got) BY <1>1
      <4>7. n \in 0..Len(g) BY <2>2, <4>5, <4>6
      <4>8. Len(Append(g, v)) = Len(g) + 1 /\ SubSeq(Append(g, v), 1, n) = SubSeq(g, 1, n) BY <4>7
      <4>9. Len(Append(g, v)) = n + (Len(m) + 1)
        <5>1. PICK k \in Nat : k = Len(m) BY <2>2
        <5>2. Len(g) = n + k BY <4>5, <4>6, <5>1
        <5>3. \A l : l = n + k => l + 1 = n + (k + 1) OBVIOUS
        <5>4. QED BY <4>8, <5>1, <5>2, <5>3
      <4>10. QED BY <4>3, <4>4, <4>5, <4>6, <4>8, <4>9
    <3>4. QED BY <3>1, <3>2, <3>3 DEF Grown
  <2>7. QED BY <2>2, <2>3, <2>6
<1>4. \A m \in Seq(Kind) : \A e \in Kind : m \in T => Append(m, e) \in T BY <1>3
<1> HIDE DEF T
<1>5. Seq(Kind) \subseteq T BY <1>2, <1>4, ListInduction
<1>6. QED BY <1>5 DEF T

-----------------------------------------------------------------------------
\* Bytes that are read as this value, whatever follows them.
Consumes(kind, c, v) ==
    \A r \in Readers, s \in Seq(Bytes) : r.ok /\ r.left = c \o s => Read(r, kind) = Took(r, s, v)

\* Every kind but that of the server, which does not miss the NBT data.
ReadKind == Kind \ {"SlotAndNbt"}

\* A read that was not out of data took such bytes.
TakesSome(r, q, kind) ==
    \E c, s \in Seq(Bytes) : \E v \in FieldOf(kind) :
        r.left = c \o s /\ q = Took(r, s, v) /\ Consumes(kind, c, v)

(* A complete number, and the bytes it counts.                             *)
LEMMA ReadCountedBehind ==
    ASSUME NEW r \in Readers, r.ok, NEW u, Complete(u), NEW b \in Seq(Bytes), NEW s \in Seq(Bytes),
           Value[u] = Len(b), r.left = (u \o b) \o s
    PROVE  ReadCounted(r) = Took(r, s, b)
<1> DEFINE n == Len(b)
           t == b \o s
           q == [ok |-> r.ok, left |-> t, got |-> r.got]
<1>1. n \in Nat /\ u \in Seq(Bytes) /\ t \in Seq(Bytes) BY DEF Complete
<1>2. r.left = u \o t
  <2>1. \A a, v, w \in Seq(Bytes) : (a \o v) \o w = a \o (v \o w) OBVIOUS
  <2>2. QED BY <1>1, <2>1
<1>3. n \in FieldValues BY <1>1 DEF FieldValues
<1> HIDE DEF t
<1>4. ReadVarInt(r) = Took(r, t, n) BY <1>1, <1>2, ReadComplete
<1> HIDE DEF n
<1>5. Took(r, t, n).ok /\ Last(Took(r, t, n).got) = n /\ Front(Took(r, t, n).got) = r.got
  BY <1>1, <1>3, TookType
<1>6. WithValues(Took(r, t, n), r.got) = q BY WithGot
<1>7. ReadCounted(r) = ReadData(q, n) BY <1>4, <1>5, <1>6 DEF ReadCounted
<1>8. q \in Readers /\ q.ok /\ q.left = b \o s BY <1>1 DEF Readers, t
<1>9. ReadData(q, n) = Took(q, s, b)
  <2> HIDE DEF q
  <2>1. QED BY <1>8, ReadDataOf DEF n
<1>10. Took(q, s, b) = Took(r, s, b) BY DEF Took
<1>11. QED BY <1>7, <1>9, <1>10

(* What ReadCounted reads is a length and that many bytes.                 *)
LEMMA CountedConsumes ==
    ASSUME NEW r \in Readers, r.ok, ReadCounted(r).ok
    PROVE  \E u, b, s \in Seq(Bytes) :
              /\ Complete(u) /\ Value[u] = Len(b) /\ r.left = (u \o b) \o s
              /\ ReadCounted(r) = Took(r, s, b)
<1>1. ReadVarInt(r).ok BY DEF ReadCounted
<1>2. PICK u, t \in Seq(Bytes) : Complete(u) /\ r.left = u \o t /\ ReadVarInt(r) = Took(r, t, Value[u])
  BY <1>1, ReadVarIntCases, OutOfDataType
<1>3. PICK n \in Nat : n = Value[u] BY ValueDef, BytesAreNat
<1> DEFINE q == [ok |-> r.ok, left |-> t, got |-> r.got]
<1>4. n \in FieldValues BY DEF FieldValues
<1>5. Last(Took(r, t, n).got) = n /\ Front(Took(r, t, n).got) = r.got BY <1>4, TookType
<1>6. WithValues(Took(r, t, n), r.got) = q
  <2>1. \A v, w : WithValues(Took(r, t, v), w) = [ok |-> r.ok, left |-> t, got |-> w] BY WithGot
  <2>2. QED BY <2>1
<1>7. ReadCounted(r) = ReadData(q, n) BY <1>1, <1>2, <1>3, <1>5, <1>6 DEF ReadCounted
<1>8. q \in Readers /\ q.ok /\ q.left = t BY DEF Readers
<1> HIDE DEF q
<1>9. Len(t) >= n BY <1>7, <1>8, ReadDataType
<1>10. PICK b, s \in Seq(Bytes) : t = b \o s /\ Len(b) = n BY <1>9, CutAt
<1>11. r.left = (u \o b) \o s
  <2>1. \A a, v, w \in Seq(Bytes) : (a \o v) \o w = a \o (v \o w) OBVIOUS
  <2>2. QED BY <1>2, <1>10, <2>1
<1>12. ReadCounted(r) = Took(r, s, b)
  <2>1. Value[u] = Len(b) BY <1>3, <1>10
  <2>2. QED BY <1>2, <1>11, <2>1, ReadCountedBehind
<1>13. QED BY <1>2, <1>3, <1>10, <1>11, <1>12

(* What ReadSlot reads is an empty slot or an item.                        *)
LEMMA SlotConsumes ==
    ASSUME NEW r \in Readers, r.ok, ReadSlot(r).ok
    PROVE  \E b \in {NoItem} \cup Items, s \in Seq(Bytes) : r.left = b \o s
<1> DEFINE id == ReadData(r, 2)
           rest == ReadData(id, 3)
<1>1. PICK l \in Seq(Bytes) : l = r.left BY DEF Readers
<1>2. id.ok
  <2>1. ~id.ok => ReadSlot(r) = id BY DEF ReadSlot
  <2>2. QED BY <2>1
<1>3. Len(l) >= 2 /\ id = Took(r, SubSeq(l, 3, Len(l)), SubSeq(l, 1, 2)) BY <1>1, <1>2, ReadDataType
<1>4. /\ SubSeq(l, 1, 2) \in Seq(Bytes) /\ SubSeq(l, 3, Len(l)) \in Seq(Bytes)
      /\ l = SubSeq(l, 1, 2) \o SubSeq(l, 3, Len(l)) /\ Len(SubSeq(l, 3, Len(l))) = Len(l) - 2
  <2>1. 2 \in 0..Len(l) /\ 2 + 1 = 3 BY <1>3
  <2>2. /\ SubSeq(l, 1, 2) \in Seq(Bytes) /\ SubSeq(l, 2 + 1, Len(l)) \in Seq(Bytes)
        /\ l = SubSeq(l, 1, 2) \o SubSeq(l, 2 + 1, Len(l)) /\ Len(SubSeq(l, 2 + 1, Len(l))) = Len(l) - 2
    BY <2>1, Cut
  <2>3. QED BY <2>1, <2>2
<1>5. SubSeq(l, 1, 2) \in FieldValues BY <1>4 DEF FieldValues
<1>6. /\ id \in Readers /\ Last(id.got) = SubSeq(l, 1, 2) /\ id.left = SubSeq(l, 3, Len(l))
  <2> HIDE DEF id
  <2>1. PICK a, b \in Seq(Bytes) : a = SubSeq(l, 1, 2) /\ b = SubSeq(l, 3, Len(l)) BY <1>4
  <2>2. id = Took(r, b, a) /\ a \in FieldValues BY <1>3, <1>5, <2>1
  <2>3. QED BY <2>1, <2>2, TookType
<1>7. CASE SubSeq(l, 1, 2) = NoItem BY <1>1, <1>4, <1>7
<1>8. CASE SubSeq(l, 1, 2) # NoItem
  <2>1. rest.ok
    <3>1. ~rest.ok => ReadSlot(r) = rest BY <1>2, <1>6, <1>8 DEF ReadSlot
    <3>2. QED BY <3>1
  <2> HIDE DEF id
  <2>2. Len(id.left) >= 3 BY <1>2, <1>6, <2>1, ReadDataType
  <2>3. Len(l) >= 5 BY <1>3, <1>4, <1>6, <2>2
  <2>4. /\ SubSeq(l, 1, 5) \in Seq(Bytes) /\ Len(SubSeq(l, 1, 5)) = 5
        /\ SubSeq(l, 6, Len(l)) \in Seq(Bytes) /\ l = SubSeq(l, 1, 5) \o SubSeq(l, 6, Len(l))
    <3>1. 5 \in 0..Len(l) /\ 5 + 1 = 6 BY <2>3
    <3>2. QED BY <3>1, Cut
  <2>5. SubSeq(SubSeq(l, 1, 5), 1, 2) = SubSeq(l, 1, 2) BY <2>3
  <2>6. SubSeq(l, 1, 5) \in Items BY <1>8, <2>4, <2>5 DEF Items, Wide
  <2>7. QED BY <1>1, <2>4, <2>6
<1>9. QED BY <1>7, <1>8

(* What is read of a field does not depend on what follows it.             *)
LEMMA ReadConsumes ==
    ASSUME NEW r \in Readers, r.ok, NEW kind \in ReadKind, Read(r, kind).ok
    PROVE  TakesSome(r, Read(r, kind), kind)
<1>1. kind \in Kind /\ kind # "SlotAndNbt" BY DEF ReadKind
<1>2. SUFFICES ASSUME NEW c \in Seq(Bytes), NEW s \in Seq(Bytes), NEW v, r.left = c \o s, Consumes(kind, c, v)
               PROVE  TakesSome(r, Read(r, kind), kind)
  <2>1. SUFFICES \E c, s \in Seq(Bytes) : \E v : r.left = c \o s /\ Consumes(kind, c, v) BY <1>2
  <2>2. CASE kind \in DOMAIN Width
    <3>1. PICK n \in Nat : n = Width[kind] BY <2>2, WidthType
    <3>2. Read(r, kind) = ReadData(r, n) BY <1>1, <2>2, <3>1, ReadCases
    <3>3. PICK l \in Seq(Bytes) : l = r.left BY DEF Readers
    <3>4. Len(l) >= n BY <3>2, <3>3, ReadDataType
    <3>5. \E c, s \in Seq(Bytes) : l = c \o s /\ Len(c) = n BY <3>4, CutAt
    <3>6. PICK c, s \in Seq(Bytes) : Len(c) = n /\ l = c \o s BY <3>5
    <3>7. Consumes(kind, c, c)
      <4> SUFFICES ASSUME NEW q \in Readers, NEW t \in Seq(Bytes), q.ok, q.left = c \o t
                   PROVE  Read(q, kind) = Took(q, t, c)
        BY DEF Consumes
      <4>1. ReadData(q, Len(c)) = Took(q, t, c) BY ReadDataOf
      <4>2. QED BY <1>1, <2>2, <3>1, <3>6, <4>1, ReadCases
    <3>8. QED BY <3>3, <3>6, <3>7
  <2>3. CASE kind = "VarInt"
    <3>1. Read(r, kind) = ReadVarInt(r) BY <1>1, <2>3, ReadCases
    <3>2. PICK c, s \in Seq(Bytes) : Complete(c) /\ r.left = c \o s
      BY <3>1, ReadVarIntCases, OutOfDataType
    <3>3. Consumes(kind, c, Value[c]) BY <1>1, <2>3, <3>2, ReadCases, ReadComplete DEF Consumes
    <3>4. QED BY <3>2, <3>3
  <2>4. CASE kind \in {"String", "ByteArray"}
    <3>1. ReadCounted(r).ok
      <4>1. ~ReadCounted(r).ok => ReadString(r) = ReadCounted(r) BY DEF ReadString
      <4>2. QED BY <1>1, <2>4, <4>1, ReadCases
    <3>2. PICK u, b, s \in Seq(Bytes) : Complete(u) /\ Value[u] = Len(b) /\ r.left = (u \o b) \o s
      BY <3>1, CountedConsumes
    <3>3. u \o b \in Seq(Bytes) OBVIOUS
    <3>4. \A q \in Readers, t \in Seq(Bytes) : q.ok /\ q.left = (u \o b) \o t => ReadCounted(q) = Took(q, t, b)
      BY <3>2, ReadCountedBehind
    <3>5. CASE kind = "ByteArray"
      <4>1. Consumes(kind, u \o b, b) BY <1>1, <3>4, <3>5, ReadCases DEF Consumes
      <4>2. QED BY <3>2, <3>3, <4>1
    <3>6. CASE kind = "String"
      <4>1. \A q \in Readers, t \in Seq(Bytes) : q.ok /\ q.left = (u \o b) \o t =>
               ReadString(q) = Took(q, t, UpToZero(b))
        BY <3>4, ReadStringType
      <4>2. Consumes(kind, u \o b, UpToZero(b)) BY <1>1, <3>6, <4>1, ReadCases DEF Consumes
      <4>3. QED BY <3>2, <3>3, <4>2
    <3>7. QED BY <2>4, <3>5, <3>6
  <2>5. CASE kind = "Slot"
    <3>1. ReadSlot(r).ok BY <1>1, <2>5, ReadCases
    <3>2. PICK b \in {NoItem} \cup Items, s \in Seq(Bytes) : r.left = b \o s BY <3>1, SlotConsumes
    <3>3. b \in Seq(Bytes) BY NoItemType DEF Items, Wide
    <3>4. Consumes(kind, b, b)
      <4>1. CASE b = NoItem BY <1>1, <2>5, <4>1, ReadCases, ReadNoSlotOf DEF Consumes
      <4>2. CASE b \in Items BY <1>1, <2>5, <4>2, ReadCases, ReadItemOf DEF Consumes
      <4>3. QED BY <4>1, <4>2
    <3>5. QED BY <3>2, <3>3, <3>4
  <2>6. QED BY <1>1, <2>2, <2>3, <2>4, <2>5 DEF Kind
<1>3. Read(r, kind) = Took(r, s, v) BY <1>2 DEF Consumes
<1>4. PICK w \in FieldOf(kind), t \in Seq(Bytes) : Read(r, kind) = Took(r, t, w)
  BY <1>1, ReadType DEF Reads
<1>5. v = w
  <2>1. Took(r, s, v).got = Append(r.got, v) /\ Took(r, t, w).got = Append(r.got, w) BY DEF Took
  <2>2. \A g \in Seq(FieldValues) : \A x, y : Append(g, x) = Append(g, y) => x = y
    <3> SUFFICES ASSUME NEW g \in Seq(FieldValues), NEW x, NEW y, Append(g, x) = Append(g, y) PROVE x = y
      OBVIOUS
    <3>1. Append(g, x)[Len(g) + 1] = x /\ Append(g, y)[Len(g) + 1] = y OBVIOUS
    <3>2. QED BY <3>1
  <2>3. r.got \in Seq(FieldValues) BY DEF Readers
  <2>4. QED BY <1>3, <1>4, <2>1, <2>2, <2>3
<1>6. QED BY <1>2, <1>3, <1>4, <1>5 DEF TakesSome

\* Bytes in front that the fields are read of, whatever follows them.
TakesFields(b, kinds, c, s) ==
    /\ b = c \o s
    /\ \A t \in Seq(Bytes) : ReadFields(Reader(c \o t), kinds)
                                = [ok |-> TRUE, left |-> t, got |-> ReadFields(Reader(b), kinds).got]

(* Neither do several fields depend on what follows them.                  *)
LEMMA FieldsConsume ==
    ASSUME NEW b \in Seq(Bytes), NEW kinds \in Seq(ReadKind), ReadFields(Reader(b), kinds).ok
    PROVE  \E c, s \in Seq(Bytes) : TakesFields(b, kinds, c, s)
<1> DEFINE Some(m) == ReadFields(Reader(b), m).ok => \E c, s \in Seq(Bytes) : TakesFields(b, m, c, s)
           T == {m \in Seq(ReadKind) : Some(m)}
<1>1. << >> \in T
  <2>1. \A t \in Seq(Bytes) : ReadFields(Reader(t), << >>) = Reader(t) BY ReaderType, ReadNone
  <2>2. << >> \in Seq(Bytes) /\ \A t \in Seq(Bytes) : << >> \o t = t OBVIOUS
  <2>3. TakesFields(b, << >>, << >>, b)
    <3>1. \A t \in Seq(Bytes) : ReadFields(Reader(t), << >>) = [ok |-> TRUE, left |-> t, got |-> << >>]
      BY <2>1 DEF Reader
    <3>2. ReadFields(Reader(b), << >>).got = << >> BY <3>1
    <3>3. QED BY <2>2, <3>1, <3>2 DEF TakesFields
  <2>4. << >> \in Seq(ReadKind) OBVIOUS
  <2>5. QED BY <2>2, <2>3, <2>4
<1>2. ASSUME NEW m \in Seq(ReadKind), NEW e \in ReadKind, m \in T PROVE Append(m, e) \in T
  <2>1. Append(m, e) \in Seq(ReadKind) OBVIOUS
  <2>2. SUFFICES ASSUME ReadFields(Reader(b), Append(m, e)).ok
                 PROVE  \E c, s \in Seq(Bytes) : TakesFields(b, Append(m, e), c, s)
    BY <2>1
  <2>3. m \in Seq(Kind) /\ e \in Kind BY DEF ReadKind
  <2>4. \A t \in Seq(Bytes) : ReadFields(Reader(t), Append(m, e)) = Read(ReadFields(Reader(t), m), e)
    BY <2>3, ReaderType, ReadMore
  <2>5. PICK q \in Readers : q = ReadFields(Reader(b), m) BY <2>3, ReaderType, ReadMore
  <2>6. Read(q, e).ok BY <2>2, <2>4, <2>5
  <2>7. q.ok BY <2>3, <2>6, ReadType DEF Reads
  <2>8. PICK c, s \in Seq(Bytes) : TakesFields(b, m, c, s) BY <1>2, <2>5, <2>7
  <2>9. q = [ok |-> TRUE, left |-> s, got |-> q.got] BY <2>5, <2>8 DEF TakesFields
  <2>10. PICK d, u \in Seq(Bytes), v \in FieldOf(e) :
            q.left = d \o u /\ Read(q, e) = Took(q, u, v) /\ Consumes(e, d, v)
    BY <2>6, <2>7, ReadConsumes DEF TakesSome
  <2>11. Read(q, e).got = Append(q.got, v) BY <2>10 DEF Took
  <2> DEFINE x == c \o d
  <2>12. x \in Seq(Bytes) BY Associative
  <2>13. ASSUME NEW t \in Seq(Bytes) PROVE x \o t = c \o (d \o t) /\ d \o t \in Seq(Bytes)
    <3>1. (c \o d) \o t = c \o (d \o t) BY AnyThree, ZenonT(30)
    <3>2. d \o t \in Seq(Bytes) BY Associative
    <3>3. QED BY <3>1, <3>2
  <2> HIDE DEF x
  <2>14. b = x \o u
    <3>1. s = d \o u BY <2>9, <2>10
    <3>2. QED BY <2>8, <2>13, <3>1 DEF TakesFields
  <2>15. ASSUME NEW t \in Seq(Bytes)
         PROVE  ReadFields(Reader(x \o t), Append(m, e)) = [ok |-> TRUE, left |-> t, got |-> Append(q.got, v)]
    <3> DEFINE p == [ok |-> TRUE, left |-> d \o t, got |-> q.got]
    <3>1. ReadFields(Reader(x \o t), m) = p BY <2>5, <2>8, <2>13 DEF TakesFields
    <3>2. p \in Readers /\ p.ok /\ p.left = d \o t BY <2>13 DEF Readers
    <3>3. Took(p, t, v) = [ok |-> TRUE, left |-> t, got |-> Append(q.got, v)] BY DEF Took
    <3>4. x \o t \in Seq(Bytes) BY <2>12, Associative
    <3> HIDE DEF p
    <3>5. Read(p, e) = Took(p, t, v) BY <2>10, <3>2 DEF Consumes
    <3>6. QED BY <2>4, <3>1, <3>3, <3>4, <3>5
  <2>16. ReadFields(Reader(b), Append(m, e)).got = Append(q.got, v) BY <2>4, <2>5, <2>11
  <2>17. TakesFields(b, Append(m, e), x, u) BY <2>14, <2>15, <2>16 DEF TakesFields
  <2>18. QED BY <2>12, <2>17
<1>3. \A m \in Seq(ReadKind) : \A e \in ReadKind : m \in T => Append(m, e) \in T BY <1>2
<1> HIDE DEF T
<1>4. Seq(ReadKind) \subseteq T BY <1>1, <1>3, ListInduction
<1>5. QED BY <1>4 DEF T

(* When a part of a stream is enough to read the fields, they are those of *)
(* the stream.                                                             *)
LEMMA PartRead ==
    ASSUME NEW b \in Seq(Bytes), NEW t \in Seq(Bytes), NEW kinds \in Seq(ReadKind),
           ReadFields(Reader(b), kinds).ok
    PROVE  \E s \in Seq(Bytes) :
              ReadFields(Reader(b \o t), kinds)
                 = [ok |-> TRUE, left |-> s \o t, got |-> ReadFields(Reader(b), kinds).got]
<1>1. PICK c, s \in Seq(Bytes) : TakesFields(b, kinds, c, s) BY FieldsConsume
<1>2. b \o t = c \o (s \o t) /\ s \o t \in Seq(Bytes) BY <1>1, Associative DEF TakesFields
<1>3. QED BY <1>1, <1>2 DEF TakesFields

-----------------------------------------------------------------------------
(* The fields of two lists are written one list after the other.           *)
LEMMA WriteRest ==
    ASSUME NEW k \in Seq(Kind), NEW l \in Seq(Kind), NEW v, NEW w, Fitting(k, v), Fitting(l, w)
    PROVE  WriteFields(k \o l, v \o w) = WriteFields(k, v) \o WriteFields(l, w)
<1> DEFINE a == [i \in 1..Len(k) |-> Write(k[i], v[i])]
           b == [i \in 1..Len(l) |-> Write(l[i], w[i])]
           c == [i \in 1..Len(k \o l) |-> Write((k \o l)[i], (v \o w)[i])]
<1>1. a \in Seq(Seq(Bytes)) /\ WriteFields(k, v) = FlattenSeq(a) BY WriteFieldsType
<1>2. b \in Seq(Seq(Bytes)) /\ WriteFields(l, w) = FlattenSeq(b) BY WriteFieldsType
<1>3. PICK m, n \in Nat : m = Len(k) /\ n = Len(l) OBVIOUS
<1>4. /\ v \in Seq(FieldValues) /\ w \in Seq(FieldValues) /\ Len(v) = m /\ Len(w) = n
  BY <1>3 DEF Fitting
<1>5. /\ k \o l \in Seq(Kind) /\ Len(k \o l) = m + n
      /\ \A i \in 1..m : (k \o l)[i] = k[i]
      /\ \A i \in 1..n : (k \o l)[m + i] = l[i]
  BY <1>3
<1>6. /\ \A i \in 1..m : (v \o w)[i] = v[i]
      /\ \A i \in 1..n : (v \o w)[m + i] = w[i]
  BY <1>4
<1>7. WriteFields(k \o l, v \o w) = FlattenSeq(c)
  <2>1. DOMAIN (k \o l) = 1..Len(k \o l) OBVIOUS
  <2>2. QED BY <2>1 DEF WriteFields
<1>8. c = a \o b
  <2>1. Len(a) = m /\ Len(b) = n /\ Len(a \o b) = m + n BY <1>1, <1>2, <1>3
  <2>2. a \o b = [i \in 1..(m + n) |-> (a \o b)[i]]
    <3>1. a \o b \in Seq(Seq(Bytes)) BY <1>1, <1>2
    <3>2. QED BY <2>1, <3>1, ByIndex
  <2>3. \A i \in 1..m : (a \o b)[i] = a[i] BY <1>1, <1>2, <2>1
  <2>4. \A i \in 1..n : (a \o b)[m + i] = b[i] BY <1>1, <1>2, <2>1
  <2>5. ASSUME NEW i \in 1..(m + n) PROVE c[i] = (a \o b)[i]
    <3>1. c[i] = Write((k \o l)[i], (v \o w)[i]) BY <1>5
    <3>2. CASE i \in 1..m
      <4>1. a[i] = Write(k[i], v[i]) BY <1>3, <3>2
      <4>2. QED BY <1>5, <1>6, <2>3, <3>1, <3>2, <4>1
    <3>3. CASE i \notin 1..m
      <4>1. PICK j \in 1..n : i = m + j
        <5>1. i - m \in 1..n /\ i = m + (i - m) BY <3>3
        <5>2. QED BY <5>1
      <4>2. b[j] = Write(l[j], w[j]) BY <1>3
      <4>3. QED BY <1>5, <1>6, <2>4, <3>1, <4>1, <4>2
    <3>4. QED BY <3>2, <3>3
  <2>6. c = [i \in 1..(m + n) |-> c[i]] BY <1>5
  <2> HIDE DEF a, b, c
  <2>7. QED BY <2>2, <2>5, <2>6
<1> HIDE DEF a, b, c
<1>9. FlattenSeq(a \o b) = FlattenSeq(a) \o FlattenSeq(b) BY <1>1, <1>2, FlattenConcat
<1>10. QED BY <1>1, <1>2, <1>7, <1>8, <1>9

(* A layout cut in two, and its values with it.                            *)
LEMMA FittingCut ==
    ASSUME NEW k \in Seq(Kind), NEW v, Fitting(k, v), NEW n \in 0..Len(k)
    PROVE  /\ SubSeq(k, 1, n) \in Seq(Kind) /\ Len(SubSeq(k, 1, n)) = n
           /\ SubSeq(k, n + 1, Len(k)) \in Seq(Kind) /\ k = SubSeq(k, 1, n) \o SubSeq(k, n + 1, Len(k))
           /\ v = SubSeq(v, 1, n) \o SubSeq(v, n + 1, Len(k))
           /\ Fitting(SubSeq(k, 1, n), SubSeq(v, 1, n))
           /\ Fitting(SubSeq(k, n + 1, Len(k)), SubSeq(v, n + 1, Len(k)))
<1>1. v \in Seq(FieldValues) /\ Len(v) = Len(k) /\ Len(k) \in Nat
      /\ \A i \in 1..Len(k) : v[i] \in ValuesOf(k[i])
  BY DEF Fitting
<1>2. /\ SubSeq(k, 1, n) \in Seq(Kind) /\ Len(SubSeq(k, 1, n)) = n
      /\ SubSeq(k, n + 1, Len(k)) \in Seq(Kind) /\ Len(SubSeq(k, n + 1, Len(k))) = Len(k) - n
      /\ k = SubSeq(k, 1, n) \o SubSeq(k, n + 1, Len(k))
  BY Cut
<1>3. /\ SubSeq(v, 1, n) \in Seq(FieldValues) /\ Len(SubSeq(v, 1, n)) = n
      /\ SubSeq(v, n + 1, Len(k)) \in Seq(FieldValues) /\ Len(SubSeq(v, n + 1, Len(k))) = Len(k) - n
      /\ v = SubSeq(v, 1, n) \o SubSeq(v, n + 1, Len(k))
  <2>1. PICK m \in Nat : m = Len(k) /\ m = Len(v) BY <1>1
  <2>2. n \in 0..Len(v) /\ v \in Seq(FieldValues) BY <1>1
  <2>3. /\ SubSeq(v, 1, n) \in Seq(FieldValues) /\ Len(SubSeq(v, 1, n)) = n
        /\ SubSeq(v, n + 1, Len(v)) \in Seq(FieldValues) /\ Len(SubSeq(v, n + 1, Len(v))) = Len(v) - n
        /\ v = SubSeq(v, 1, n) \o SubSeq(v, n + 1, Len(v))
    BY <2>2, Cut
  <2>4. QED BY <2>1, <2>3
<1>4. Fitting(SubSeq(k, 1, n), SubSeq(v, 1, n))
  <2>1. \A i \in 1..n : SubSeq(k, 1, n)[i] = k[i] /\ SubSeq(v, 1, n)[i] = v[i] /\ i \in 1..Len(k)
    BY <1>1
  <2>2. QED BY <1>1, <1>2, <1>3, <2>1 DEF Fitting
<1>5. Fitting(SubSeq(k, n + 1, Len(k)), SubSeq(v, n + 1, Len(k)))
  <2>1. \A i \in 1..(Len(k) - n) : /\ SubSeq(k, n + 1, Len(k))[i] = k[n + i]
                                   /\ SubSeq(v, n + 1, Len(k))[i] = v[n + i] /\ n + i \in 1..Len(k)
    BY <1>1
  <2>2. QED BY <1>1, <1>2, <1>3, <2>1 DEF Fitting
<1>6. QED BY <1>2, <1>3, <1>4, <1>5

-----------------------------------------------------------------------------
(* Zeros are read as zeros.                                                *)
LEMMA ZeroNumber ==
    ASSUME NEW b, Complete(b), NEW s \in Seq(Bytes), b \o s \in Seq({0})
    PROVE  b = <<0>> /\ Value[b] = 0 /\ VarInt[0] = <<0>> /\ s \in Seq({0})
<1>1. b \in Seq(Bytes) /\ b # << >> BY DEF Complete
<1>2. PICK n \in Nat : n = Len(b) /\ n # 0 BY <1>1
<1>3. \A i \in 1..n : b[i] = 0
  <2>1. Len(b \o s) = Len(b) + Len(s) /\ \A i \in 1..Len(b) : (b \o s)[i] = b[i] BY <1>1
  <2>2. \A i \in 1..Len(b \o s) : (b \o s)[i] = 0 OBVIOUS
  <2>3. Len(s) \in Nat OBVIOUS
  <2>4. \A i \in 1..n : i \in 1..Len(b \o s) BY <1>2, <2>1, <2>3
  <2>5. QED BY <1>2, <2>1, <2>2, <2>4
<1>4. n = 1
  <2>1. n > 1 => 1 \in 1..(n - 1) /\ 1 \in 1..n OBVIOUS
  <2>2. \A i \in 1..(n - 1) : b[i] >= Radix BY <1>2 DEF Complete
  <2>3. QED BY <1>2, <1>3, <2>1, <2>2, RadixAssumption
<1>5. b = <<0>>
  <2>1. b = [i \in 1..n |-> b[i]] BY <1>1, <1>2
  <2>2. QED BY <1>3, <1>4, <2>1
<1>6. VarInt[0] = <<0>>
  <2>1. 0 \in Nat /\ 0 < Radix BY RadixAssumption
  <2>2. QED BY <2>1, VarIntDef
<1>7. Value[b] = 0 BY <1>5, <1>6, VarIntComplete
<1>8. s \in Seq({0})
  <2>1. Len(b \o s) = 1 + Len(s) /\ \A i \in 1..Len(s) : (b \o s)[1 + i] = s[i]
    <3>1. Len(b \o s) = n + Len(s) /\ \A i \in 1..Len(s) : (b \o s)[n + i] = s[i] BY <1>1, <1>2
    <3>2. QED BY <1>4, <3>1
  <2>2. \A i \in 1..Len(b \o s) : (b \o s)[i] = 0 OBVIOUS
  <2>3. \A i \in 1..Len(s) : 1 + i \in 1..(1 + Len(s)) OBVIOUS
  <2>4. \A i \in 1..Len(s) : s[i] = 0 BY <2>1, <2>2, <2>3
  <2>5. s = [i \in 1..Len(s) |-> s[i]] /\ Len(s) \in Nat OBVIOUS
  <2>6. QED BY <2>4, <2>5
<1>9. QED BY <1>5, <1>6, <1>7, <1>8

\* The kinds without slots.
PlainKind == Kind \ {"Slot", "SlotAndNbt"}

(* A field that is not a slot, read of zeros, is written as zeros.         *)
LEMMA ZeroRead ==
    ASSUME NEW r \in Readers, r.ok, r.left \in Seq({0}), NEW kind \in PlainKind, Read(r, kind).ok
    PROVE  \E v \in FieldOf(kind), s \in Seq({0}) :
              Read(r, kind) = Took(r, s, v) /\ Write(kind, v) \in Seq({0})
<1>1. kind \in Kind /\ kind \notin {"Slot", "SlotAndNbt"} BY DEF PlainKind
<1>2. << >> \in Seq(Bytes) /\ << >> \in Seq({0}) /\ <<0>> \in Seq({0}) /\ <<0>> \o << >> = <<0>> OBVIOUS
<1>3. r.left \in Seq(Bytes) BY DEF Readers
<1>4. CASE kind \in DOMAIN Width
  <2>1. PICK n \in Nat : n = Width[kind] BY <1>4, WidthType
  <2>2. Read(r, kind) = ReadData(r, n) BY <1>1, <1>4, <2>1, ReadCases
  <2>3. PICK l \in Seq({0}) : l = r.left OBVIOUS
  <2>4. Len(l) >= n /\ Read(r, kind) = Took(r, SubSeq(l, n + 1, Len(l)), SubSeq(l, 1, n))
    BY <2>2, <2>3, ReadDataType
  <2>5. n \in 0..Len(l) BY <2>4
  <2>6. SubSeq(l, 1, n) \in Seq({0}) /\ Len(SubSeq(l, 1, n)) = n /\ SubSeq(l, n + 1, Len(l)) \in Seq({0})
    BY <2>5, Cut
  <2>7. SubSeq(l, 1, n) \in FieldOf(kind)
    <3>1. l \in Seq(Bytes) BY <1>3, <2>3
    <3>2. SubSeq(l, 1, n) \in Seq(Bytes) BY <2>5, <3>1, Cut
    <3>3. SubSeq(l, 1, n) \in Wide(n) BY <2>6, <3>2 DEF Wide
    <3>4. Wide(n) \subseteq FieldOf(kind) BY <1>1, <1>4, <2>1, ValuesOfType
    <3>5. QED BY <3>3, <3>4
  <2>8. \A w : Write(kind, w) = w BY <1>1, <1>4, WriteCases
  <2>9. QED BY <2>4, <2>6, <2>7, <2>8
<1>5. CASE kind = "VarInt"
  <2>1. Read(r, kind) = ReadVarInt(r) BY <1>1, <1>5, ReadCases
  <2>2. PICK c, s \in Seq(Bytes) : Complete(c) /\ r.left = c \o s /\ ReadVarInt(r) = Took(r, s, Value[c])
    BY <2>1, ReadVarIntCases, OutOfDataType
  <2>3. Value[c] = 0 /\ VarInt[0] = <<0>> /\ s \in Seq({0}) BY <2>2, ZeroNumber
  <2>4. Write(kind, 0) = VarInt[0] BY <1>1, <1>5, WriteCases
  <2>5. 0 \in FieldOf(kind) BY <1>5, ReadCases DEF FieldOf
  <2>6. QED BY <1>2, <2>1, <2>2, <2>3, <2>4, <2>5
<1>6. CASE kind \in {"String", "ByteArray"}
  <2>1. ReadCounted(r).ok
    <3>1. ~ReadCounted(r).ok => ReadString(r) = ReadCounted(r) BY DEF ReadString
    <3>2. QED BY <1>1, <1>6, <3>1, ReadCases
  <2>2. PICK u, b, s \in Seq(Bytes) :
           /\ Complete(u) /\ Value[u] = Len(b) /\ r.left = (u \o b) \o s /\ ReadCounted(r) = Took(r, s, b)
    BY <2>1, CountedConsumes
  <2>3. r.left = u \o (b \o s) /\ b \o s \in Seq(Bytes)
    <3>1. \A x, y, z \in Seq(Bytes) : (x \o y) \o z = x \o (y \o z) /\ y \o z \in Seq(Bytes) OBVIOUS
    <3>2. u \in Seq(Bytes) BY <2>2
    <3>3. QED BY <2>2, <3>1, <3>2
  <2>4. Value[u] = 0 /\ VarInt[0] = <<0>> /\ b \o s \in Seq({0}) BY <2>2, <2>3, ZeroNumber
  <2>5. b = << >>
    <3>1. Len(b) = 0 BY <2>2, <2>4
    <3>2. QED BY <3>1
  <2>6. s \in Seq({0}) BY <2>4, <2>5
  <2>7. Write(kind, << >>) = <<0>>
    <3>1. Write(kind, << >>) = VarInt[Len(<< >>)] \o << >> BY <1>1, <1>6, WriteCases
    <3>2. Len(<< >>) = 0 OBVIOUS
    <3>3. QED BY <1>2, <2>4, <3>1, <3>2
  <2>8. << >> \in FieldOf(kind)
    <3>1. kind \notin DOMAIN Width /\ kind # "VarInt" BY <1>1, <1>6, ReadCases
    <3>2. FieldOf(kind) = Seq(Bytes) BY <3>1 DEF FieldOf
    <3>3. QED BY <1>2, <3>2
  <2>9. Read(r, kind) = Took(r, s, << >>)
    <3>1. UpToZero(<< >>) = << >>
      <4>1. \A i \in DOMAIN << >> : << >>[i] # 0 OBVIOUS
      <4>2. QED BY <1>2, <4>1, UpToZeroType
    <3>2. ReadString(r) = Took(r, s, UpToZero(b)) BY <2>2, ReadStringType
    <3>3. QED BY <1>1, <1>6, <2>2, <2>5, <3>1, <3>2, ReadCases
  <2>10. QED BY <1>2, <2>6, <2>7, <2>8, <2>9
<1>7. QED BY <1>1, <1>4, <1>5, <1>6 DEF Kind

\* Every field that was read of zeros is written as zeros.
ZerosRead(q, kinds) ==
    q.ok => /\ q.left \in Seq({0}) /\ Len(q.got) = Len(kinds)
            /\ \A i \in 1..Len(kinds) : Write(kinds[i], q.got[i]) \in Seq({0})

(* So are all the fields of a list.                                        *)
LEMMA ZeroFields ==
    ASSUME NEW b \in Seq(Bytes), b \in Seq({0}), NEW kinds \in Seq(PlainKind)
    PROVE  ZerosRead(ReadFields(Reader(b), kinds), kinds)
<1> DEFINE T == {m \in Seq(PlainKind) : ZerosRead(ReadFields(Reader(b), m), m)}
<1>1. << >> \in T
  <2>1. ReadFields(Reader(b), << >>) = Reader(b) BY ReaderType, ReadNone
  <2>2. << >> \in Seq(PlainKind) /\ Len(<< >>) = 0 OBVIOUS
  <2>3. QED BY <2>1, <2>2, ReaderType DEF ZerosRead
<1>2. ASSUME NEW m \in Seq(PlainKind), NEW e \in PlainKind, m \in T PROVE Append(m, e) \in T
  <2>1. m \in Seq(Kind) /\ e \in Kind BY DEF PlainKind
  <2>2. PICK q \in Readers : q = ReadFields(Reader(b), m) BY <2>1, ReaderType, ReadMore
  <2>3. ReadFields(Reader(b), Append(m, e)) = Read(q, e) BY <2>1, <2>2, ReaderType, ReadMore
  <2>4. PICK n \in Nat : n = Len(m) OBVIOUS
  <2>5. /\ Append(m, e) \in Seq(PlainKind) /\ Len(Append(m, e)) = n + 1 /\ Append(m, e)[n + 1] = e
        /\ \A i \in 1..n : Append(m, e)[i] = m[i]
    BY <2>4
  <2>6. SUFFICES ASSUME Read(q, e).ok PROVE ZerosRead(Read(q, e), Append(m, e))
    BY <2>3, <2>5 DEF ZerosRead
  <2>7. q.ok BY <2>1, <2>6, ReadType DEF Reads
  <2>8. q.left \in Seq({0}) /\ Len(q.got) = n /\ \A i \in 1..n : Write(m[i], q.got[i]) \in Seq({0})
    BY <1>2, <2>2, <2>4, <2>7 DEF ZerosRead
  <2>9. PICK v \in FieldOf(e), s \in Seq({0}) : Read(q, e) = Took(q, s, v) /\ Write(e, v) \in Seq({0})
    BY <2>6, <2>7, <2>8, ZeroRead
  <2>10. Read(q, e).left = s /\ Read(q, e).got = Append(q.got, v) BY <2>9 DEF Took
  <2>11. PICK g \in Seq(FieldValues) : g = q.got BY DEF Readers
  <2>12. /\ Len(Append(g, v)) = n + 1 /\ Append(g, v)[n + 1] = v
         /\ \A i \in 1..n : Append(g, v)[i] = g[i]
    <3>1. Len(g) = n BY <2>8, <2>11
    <3>2. QED BY <3>1
  <2>13. ASSUME NEW i \in 1..(n + 1) PROVE Write(Append(m, e)[i], Append(g, v)[i]) \in Seq({0})
    <3>1. CASE i = n + 1 BY <2>5, <2>9, <2>12, <3>1
    <3>2. CASE i # n + 1
      <4>1. i \in 1..n BY <3>2
      <4>2. QED BY <2>5, <2>8, <2>11, <2>12, <4>1
    <3>3. QED BY <3>1, <3>2
  <2>14. QED BY <2>5, <2>10, <2>11, <2>12, <2>13 DEF ZerosRead
<1>3. \A m \in Seq(PlainKind) : \A e \in PlainKind : m \in T => Append(m, e) \in T BY <1>2
<1> HIDE DEF T
<1>4. Seq(PlainKind) \subseteq T BY <1>1, <1>3, ListInduction
<1>5. QED BY <1>4 DEF T

(* What was read of zeros is written as zeros.                             *)
LEMMA ZerosWritten ==
    ASSUME NEW b \in Seq(Bytes), b \in Seq({0}), NEW kinds \in Seq(PlainKind),
           ReadFields(Reader(b), kinds).ok
    PROVE  WriteFields(kinds, ReadFields(Reader(b), kinds).got) \in Seq({0})
<1>1. PICK g : g = ReadFields(Reader(b), kinds).got OBVIOUS
<1>2. \A i \in 1..Len(kinds) : Write(kinds[i], g[i]) \in Seq({0}) BY <1>1, ZeroFields DEF ZerosRead
<1>3. [i \in DOMAIN kinds |-> Write(kinds[i], g[i])] \in Seq(Seq({0})) BY <1>2
<1>4. QED BY <1>1, <1>3, FlattenType DEF WriteFields
=============================================================================
