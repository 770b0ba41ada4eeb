------------------------------- MODULE Basics -------------------------------
(***************************************************************************)
(* The facts about queues, numbers and recursion that the proofs of the    *)
(* other modules rest on: what the operations on a queue do to the set and *)
(* the order of its elements, when a quotient is the quotient, that a set  *)
(* closed under successor holds every number, that a function defined by   *)
(* its values at smaller arguments exists, and what FlattenSeq does.       *)
(***************************************************************************)
EXTENDS Integers, SequencesExt, SequenceTheorems, WellFoundedInduction, TLAPS

\* The elements of a queue, whatever their order.
Content(s) == {s[i] : i \in DOMAIN s}

(* The head of a queue is one of its elements.                             *)
LEMMA HeadIn == ASSUME NEW S, NEW s \in Seq(S), s # << >>
                PROVE  Head(s) \in Content(s) /\ Head(s) \in S
<1>1. Len(s) \in Nat /\ Len(s) > 0 /\ 1 \in DOMAIN s OBVIOUS
<1>2. Head(s) = s[1] OBVIOUS
<1>3. QED BY <1>1, <1>2 DEF Content

(* Taking one leaves others only.                                          *)
LEMMA TailIn == ASSUME NEW S, NEW s \in Seq(S), s # << >>
                PROVE  /\ Tail(s) \in Seq(S) /\ Len(Tail(s)) = Len(s) - 1
                       /\ Content(Tail(s)) \subseteq Content(s)
<1>1. Tail(s) \in Seq(S) /\ Len(Tail(s)) = Len(s) - 1 OBVIOUS
<1>2. ASSUME NEW i \in DOMAIN Tail(s) PROVE Tail(s)[i] \in Content(s)
  <2>1. i \in 1 .. Len(s) - 1 BY <1>1
  <2>2. i + 1 \in DOMAIN s /\ Tail(s)[i] = s[i + 1] BY <2>1
  <2>3. QED BY <2>2 DEF Content
<1>3. QED BY <1>1, <1>2 DEF Content

(* Sending adds what is sent.                                              *)
LEMMA ConcatIn == ASSUME NEW S, NEW s \in Seq(S), NEW t \in Seq(S)
                  PROVE  /\ s \o t \in Seq(S) /\ Len(s \o t) = Len(s) + Len(t)
                         /\ Content(s \o t) \subseteq Content(s) \cup Content(t)
<1>1. s \o t \in Seq(S) /\ Len(s \o t) = Len(s) + Len(t) OBVIOUS
<1>2. ASSUME NEW i \in DOMAIN (s \o t) PROVE (s \o t)[i] \in Content(s) \cup Content(t)
  <2>1. i \in 1 .. Len(s) + Len(t) BY <1>1
  <2>2. CASE i <= Len(s)
    <3>1. i \in DOMAIN s /\ (s \o t)[i] = s[i] BY <2>1, <2>2
    <3>2. QED BY <3>1 DEF Content
  <2>3. CASE i > Len(s)
    <3>1. i - Len(s) \in DOMAIN t /\ (s \o t)[i] = t[i - Len(s)] BY <2>1, <2>3
    <3>2. QED BY <3>1 DEF Content
  <2>4. QED BY <2>1, <2>2, <2>3
<1>3. QED BY <1>1, <1>2 DEF Content

(* So does appending.                                                      *)
LEMMA AppendIn == ASSUME NEW S, NEW s \in Seq(S), NEW e \in S
                  PROVE  /\ Append(s, e) \in Seq(S) /\ Len(Append(s, e)) = Len(s) + 1
                         /\ Content(Append(s, e)) \subseteq Content(s) \cup {e}
<1>1. Append(s, e) \in Seq(S) /\ Len(Append(s, e)) = Len(s) + 1 OBVIOUS
<1>2. ASSUME NEW i \in DOMAIN Append(s, e) PROVE Append(s, e)[i] \in Content(s) \cup {e}
  <2>1. i \in 1 .. Len(s) + 1 BY <1>1
  <2>2. CASE i <= Len(s)
    <3>1. i \in DOMAIN s /\ Append(s, e)[i] = s[i] BY <2>1, <2>2
    <3>2. QED BY <3>1 DEF Content
  <2>3. CASE i > Len(s)
    <3>1. Append(s, e)[i] = e BY <2>1, <2>3
    <3>2. QED BY <3>1
  <2>4. QED BY <2>1, <2>2, <2>3
<1>3. QED BY <1>1, <1>2 DEF Content

-----------------------------------------------------------------------------
(* The order of the elements that f gives a number.                        *)
Numbers(s, f) == {f[x] : x \in Content(s) \cap DOMAIN f}
Number(x, f) == {f[y] : y \in {x} \cap DOMAIN f}
Sorted(s, f) == \A i, j \in DOMAIN s :
                   i < j /\ s[i] \in DOMAIN f /\ s[j] \in DOMAIN f => f[s[i]] < f[s[j]]
Before(A, B) == \A a \in A, b \in B : a < b

(* A queue that is empty is sorted.                                        *)
LEMMA EmptySorted == ASSUME NEW f PROVE Sorted(<< >>, f) /\ Numbers(<< >>, f) = {}
BY DEF Sorted, Numbers, Content

(* The head of a sorted queue has the least of its numbers.                *)
LEMMA TailSorted == ASSUME NEW S, NEW s \in Seq(S), s # << >>, NEW f, Sorted(s, f)
                    PROVE  /\ Sorted(Tail(s), f)
                           /\ Numbers(s, f) = Number(Head(s), f) \cup Numbers(Tail(s), f)
                           /\ Before(Number(Head(s), f), Numbers(Tail(s), f))
<1>1. /\ Len(s) \in Nat /\ Len(s) > 0 /\ DOMAIN Tail(s) = 1 .. Len(s) - 1 /\ DOMAIN s = 1 .. Len(s)
      /\ Head(s) = s[1] /\ \A i \in 1 .. Len(s) - 1 : Tail(s)[i] = s[i + 1]
  BY TailIn
<1>2. Sorted(Tail(s), f)
  <2>1. ASSUME NEW i \in DOMAIN Tail(s), NEW j \in DOMAIN Tail(s), i < j,
               Tail(s)[i] \in DOMAIN f, Tail(s)[j] \in DOMAIN f
        PROVE  f[Tail(s)[i]] < f[Tail(s)[j]]
    <3>1. i + 1 \in DOMAIN s /\ j + 1 \in DOMAIN s /\ i + 1 < j + 1 BY <1>1, <2>1
    <3>2. Tail(s)[i] = s[i + 1] /\ Tail(s)[j] = s[j + 1] BY <1>1, <2>1
    <3>3. QED BY <2>1, <3>1, <3>2 DEF Sorted
  <2>2. QED BY <2>1 DEF Sorted
<1>3. Content(s) = {Head(s)} \cup Content(Tail(s))
  <2>1. ASSUME NEW i \in DOMAIN s PROVE s[i] \in {Head(s)} \cup Content(Tail(s))
    <3>1. CASE i = 1 BY <1>1, <3>1
    <3>2. CASE i # 1
      <4>1. i - 1 \in DOMAIN Tail(s) /\ Tail(s)[i - 1] = s[i] BY <1>1, <3>2
      <4>2. QED BY <4>1 DEF Content
    <3>3. QED BY <3>1, <3>2
  <2>2. Content(s) \subseteq {Head(s)} \cup Content(Tail(s)) BY <2>1 DEF Content
  <2>3. QED BY <2>2, HeadIn, TailIn
<1>4. Numbers(s, f) = Number(Head(s), f) \cup Numbers(Tail(s), f) BY <1>3 DEF Numbers, Number
<1>5. ASSUME Head(s) \in DOMAIN f, NEW x \in Content(Tail(s)) \cap DOMAIN f PROVE f[Head(s)] < f[x]
  <2>1. PICK i \in DOMAIN Tail(s) : x = Tail(s)[i] BY <1>5 DEF Content
  <2>2. i + 1 \in DOMAIN s /\ 1 \in DOMAIN s /\ 1 < i + 1 /\ x = s[i + 1] BY <1>1, <2>1
  <2>3. QED BY <1>1, <1>5, <2>2 DEF Sorted
<1>6. Before(Number(Head(s), f), Numbers(Tail(s), f)) BY <1>5 DEF Before, Number, Numbers
<1>7. QED BY <1>2, <1>4, <1>6

(* Two sorted queues, one before the other, are a sorted queue.            *)
LEMMA ConcatSorted ==
    ASSUME NEW S, NEW s \in Seq(S), NEW t \in Seq(S), NEW f, Sorted(s, f), Sorted(t, f),
           Before(Numbers(s, f), Numbers(t, f))
    PROVE  Sorted(s \o t, f) /\ Numbers(s \o t, f) = Numbers(s, f) \cup Numbers(t, f)
<1>1. /\ Len(s) \in Nat /\ Len(t) \in Nat /\ DOMAIN s = 1 .. Len(s) /\ DOMAIN t = 1 .. Len(t)
      /\ DOMAIN (s \o t) = 1 .. Len(s) + Len(t)
      /\ \A i \in DOMAIN s : i \in DOMAIN (s \o t) /\ (s \o t)[i] = s[i]
      /\ \A i \in DOMAIN t : Len(s) + i \in DOMAIN (s \o t) /\ (s \o t)[Len(s) + i] = t[i]
      /\ \A i \in DOMAIN (s \o t) :
            i \in DOMAIN s \/ (i > Len(s) /\ i - Len(s) \in DOMAIN t /\ (s \o t)[i] = t[i - Len(s)])
  BY ConcatIn
<1>2. Content(s \o t) = Content(s) \cup Content(t)
  <2>1. Content(s) \subseteq Content(s \o t)
    <3>1. ASSUME NEW i \in DOMAIN s PROVE s[i] \in Content(s \o t) BY <1>1 DEF Content
    <3>2. QED BY <3>1 DEF Content
  <2>2. Content(t) \subseteq Content(s \o t)
    <3>1. ASSUME NEW i \in DOMAIN t PROVE t[i] \in Content(s \o t) BY <1>1 DEF Content
    <3>2. QED BY <3>1 DEF Content
  <2>3. QED BY <2>1, <2>2, ConcatIn
<1>3. ASSUME NEW i \in DOMAIN (s \o t), NEW j \in DOMAIN (s \o t), i < j,
             (s \o t)[i] \in DOMAIN f, (s \o t)[j] \in DOMAIN f
      PROVE  f[(s \o t)[i]] < f[(s \o t)[j]]
  <2>1. CASE i \in DOMAIN s /\ j \in DOMAIN s BY <1>1, <1>3, <2>1 DEF Sorted
  <2>2. CASE i \in DOMAIN s /\ j \notin DOMAIN s
    <3>1. j - Len(s) \in DOMAIN t /\ (s \o t)[j] = t[j - Len(s)] /\ (s \o t)[i] = s[i] BY <1>1, <2>2
    <3>2. f[s[i]] \in Numbers(s, f) /\ f[t[j - Len(s)]] \in Numbers(t, f)
      BY <1>3, <2>2, <3>1 DEF Numbers, Content
    <3>3. QED BY <3>1, <3>2 DEF Before
  <2>3. CASE i \notin DOMAIN s
    <3>1. /\ i - Len(s) \in DOMAIN t /\ (s \o t)[i] = t[i - Len(s)]
          /\ j - Len(s) \in DOMAIN t /\ (s \o t)[j] = t[j - Len(s)]
          /\ i - Len(s) < j - Len(s)
      BY <1>1, <1>3, <2>3
    <3>2. QED BY <1>3, <3>1 DEF Sorted
  <2>4. QED BY <2>1, <2>2, <2>3
<1>4. QED BY <1>2, <1>3 DEF Sorted, Numbers

(* A queue stays sorted when what is appended has a greater number.        *)
LEMMA AppendSorted ==
    ASSUME NEW S, NEW s \in Seq(S), NEW x \in S, NEW f, Sorted(s, f),
           Before(Numbers(s, f), Number(x, f))
    PROVE  Sorted(Append(s, x), f) /\ Numbers(Append(s, x), f) = Numbers(s, f) \cup Number(x, f)
<1>0. <<x>> \in Seq(S) OBVIOUS
<1>1. PICK t : t \in Seq(S) /\ t = <<x>> BY <1>0
<1>2. Append(s, x) = s \o t BY <1>1
<1>3. Content(t) = {x} /\ \A i, j \in DOMAIN t : ~(i < j) BY <1>1 DEF Content
<1>4. Sorted(t, f) /\ Numbers(t, f) = Number(x, f) BY <1>3 DEF Sorted, Numbers, Number
<1>5. Sorted(s \o t, f) /\ Numbers(s \o t, f) = Numbers(s, f) \cup Numbers(t, f)
  <2>1. t \in Seq(S) /\ Sorted(t, f) /\ Before(Numbers(s, f), Numbers(t, f)) BY <1>1, <1>4
  <2>2. QED BY <2>1, ConcatSorted
<1>6. QED BY <1>2, <1>4, <1>5

-----------------------------------------------------------------------------
(* Division by a positive number leaves a remainder below it.              *)
LEMMA DivMod == ASSUME NEW a \in Int, NEW m \in Nat \ {0}
                PROVE  /\ a = m * (a \div m) + (a % m)
                       /\ a % m \in 0 .. m - 1 /\ a \div m \in Int
OBVIOUS

(* There is one such quotient and remainder.                               *)
LEMMA DivUnique == ASSUME NEW a \in Int, NEW m \in Nat \ {0}, NEW q \in Int, NEW r \in 0 .. m - 1,
                          a = m * q + r
                   PROVE  a \div m = q /\ a % m = r
<1> DEFINE p == a \div m
           s == a % m
<1>1. p \in Int /\ s \in 0 .. m - 1 /\ a = m * p + s BY DivMod
<1> HIDE DEF p, s
<1>2. m * (p - q) = r - s BY <1>1
<1>3. ~(p - q >= 1)
  <2> SUFFICES ASSUME p - q >= 1 PROVE FALSE OBVIOUS
  <2>1. PICK d \in Nat : p - q = d + 1 BY <1>1
  <2>2. m * (d + 1) = r - s BY <1>2, <2>1
  <2>3. m * (d + 1) >= m
     <3>1. m * d >= 0 OBVIOUS
     <3>2. m * (d + 1) = m * d + m OBVIOUS
     <3>3. QED BY <3>1, <3>2
  <2>4. QED BY <2>2, <2>3, <1>1
<1>4. ~(p - q <= -1)
  <2> SUFFICES ASSUME p - q <= -1 PROVE FALSE OBVIOUS
  <2>1. PICK d \in Nat : q - p = d + 1 BY <1>1
  <2>2. m * (d + 1) = s - r
     <3>1. m * (q - p) = m * q - m * p BY <1>1
     <3>2. m * q - m * p = s - r BY <1>1
     <3>3. QED BY <2>1, <3>1, <3>2
  <2>3. m * (d + 1) >= m
     <3>1. m * d >= 0 OBVIOUS
     <3>2. m * (d + 1) = m * d + m OBVIOUS
     <3>3. QED BY <3>1, <3>2
  <2>4. QED BY <2>2, <2>3, <1>1
<1>5. p = q BY <1>1, <1>3, <1>4
<1>6. s = r BY <1>1, <1>5
<1>7. QED BY <1>5, <1>6 DEF p, s

(* A quotient is smaller than what is divided.                             *)
LEMMA QuotientBelow == ASSUME NEW n \in Nat, NEW m \in Nat, m > 1, ~(n < m)
                       PROVE  n \div m \in Nat /\ n \div m < n /\ n \div m > 0
<1> DEFINE q == n \div m
           r == n % m
<1>1. n = m * q + r /\ r \in 0 .. m - 1 /\ q \in Int BY DivMod
<1> HIDE DEF q, r
<1>2. q > 0
  <2> SUFFICES ASSUME q <= 0 PROVE FALSE BY <1>1
  <2>1. PICK d \in Nat : q = -d
    <3>1. -q \in Nat /\ q = -(-q) BY <1>1
    <3>2. QED BY <3>1
  <2>2. m * d >= 0 /\ m * q = -(m * d) BY <2>1
  <2>3. QED BY <1>1, <2>2
<1>3. q < n
  <2>1. PICK d \in Nat : m = d + 2
    <3>1. m - 2 \in Nat /\ m = (m - 2) + 2 OBVIOUS
    <3>2. QED BY <3>1
  <2>2. q \in Nat BY <1>1, <1>2
  <2>3. d * q >= 0 BY <2>1, <2>2
  <2>4. m * q = d * q + 2 * q BY <2>1, <2>2
  <2>5. d * q \in Int BY <2>1, <2>2
  <2>6. QED BY <1>1, <1>2, <2>3, <2>4, <2>5
<1>4. QED BY <1>1, <1>2, <1>3 DEF q

-----------------------------------------------------------------------------
(* A set of numbers that is not empty has a smallest one.                  *)
LEMMA Smallest == ASSUME NEW T \in SUBSET Nat, T # {}
                  PROVE  \E m \in T : \A n \in T : m <= n
<1> DEFINE R == OpToRel(<, Nat)
<1>1. IsWellFoundedOn(R, Nat) BY NatLessThanWellFounded
<1>2. \A x, y \in Nat : x < y => <<x, y>> \in R BY DEF OpToRel
<1> HIDE DEF R
<1>3. \E x \in T : \A y \in T : ~(<<y, x>> \in R) BY <1>1, WFMin
<1>4. PICK x \in T : \A y \in T : ~(<<y, x>> \in R) BY <1>3
<1>5. ASSUME NEW y \in T PROVE x <= y
  <2>1. x \in Nat /\ y \in Nat OBVIOUS
  <2>2. ~(y < x) BY <1>2, <1>4, <2>1
  <2>3. QED BY <2>1, <2>2
<1>6. QED BY <1>5

(* A set that holds 0 and, with a number, the next, holds them all.  A     *)
(* proof by induction applies it to the set of the numbers in question.    *)
LEMMA Induction == ASSUME NEW T, 0 \in T, \A n \in Nat : n \in T => n + 1 \in T
                   PROVE  Nat \subseteq T
<1> DEFINE U == Nat \ T
<1>1. SUFFICES ASSUME U # {} PROVE FALSE OBVIOUS
<1>2. PICK m \in U : \A n \in U : m <= n BY <1>1, Smallest
<1>3. m - 1 \in Nat /\ m - 1 \in T BY <1>2
<1>4. QED BY <1>2, <1>3

(* A list is the empty one or another with an element behind it.           *)
LEMMA ListInduction ==
    ASSUME NEW S, NEW T, << >> \in T,
           \A s \in Seq(S) : \A e \in S : s \in T => Append(s, e) \in T
    PROVE  Seq(S) \subseteq T
<1> DEFINE N == {n \in Nat : \A s \in Seq(S) : Len(s) = n => s \in T}
<1>1. 0 \in N
  <2>1. \A s \in Seq(S) : Len(s) = 0 => s = << >> OBVIOUS
  <2>2. QED BY <2>1
<1>2. ASSUME NEW n \in Nat, n \in N PROVE n + 1 \in N
  <2> SUFFICES ASSUME NEW s \in Seq(S), Len(s) = n + 1 PROVE s \in T OBVIOUS
  <2>1. PICK a \in Seq(S), e \in S : s = Append(a, e) /\ Len(a) = n
    <3>1. SubSeq(s, 1, n) \in Seq(S) /\ Len(SubSeq(s, 1, n)) = n /\ s[n + 1] \in S
      OBVIOUS
    <3>2. s = Append(SubSeq(s, 1, n), s[n + 1]) OBVIOUS
    <3>3. QED BY <3>1, <3>2
  <2>2. QED BY <1>2, <2>1
<1>3. \A n \in Nat : n \in N => n + 1 \in N BY <1>2
<1> HIDE DEF N
<1>4. Nat \subseteq N BY <1>1, <1>3, Induction
<1>5. \A s \in Seq(S) : Len(s) \in Nat OBVIOUS
<1>6. QED BY <1>4, <1>5 DEF N

(* A part that is cut out of a list,   and what is behind it.              *)
LEMMA Cut ==
    ASSUME NEW S, NEW b \in Seq(S), NEW n \in 0..Len(b)
    PROVE  /\ SubSeq(b, 1, n) \in Seq(S) /\ Len(SubSeq(b, 1, n)) = n
           /\ SubSeq(b, n + 1, Len(b)) \in Seq(S) /\ Len(SubSeq(b, n + 1, Len(b))) = Len(b) - n
           /\ b = SubSeq(b, 1, n) \o SubSeq(b, n + 1, Len(b))
<1>1. PICK l \in Nat : l = Len(b) OBVIOUS
<1>2. \A i \in 1..l : b[i] \in S BY <1>1
<1>3. SubSeq(b, 1, n) \in Seq(S) /\ Len(SubSeq(b, 1, n)) = n
  <2>1. \A i \in 1..n : b[i] \in S BY <1>1, <1>2
  <2>2. n \in Int /\ 1 \in Int /\ n \in Nat BY <1>1
  <2>3. QED BY <2>1, <2>2, SubSeqProperties
<1>4. SubSeq(b, n + 1, l) \in Seq(S) /\ Len(SubSeq(b, n + 1, l)) = l - n
  <2>1. \A i \in (n + 1)..l : b[i] \in S BY <1>1, <1>2
  <2>2. n + 1 \in Int /\ l \in Int BY <1>1
  <2>3. (IF n + 1 <= l THEN l - (n + 1) + 1 ELSE 0) = l - n BY <1>1
  <2>4. QED BY <2>1, <2>2, <2>3, SubSeqProperties
<1>5. SubSeq(b, 1, n) \o SubSeq(b, n + 1, l) = SubSeq(b, 1, l)
  <2>1. 1 \in 1..(Len(b) + 1) /\ n \in (1 - 1)..Len(b) /\ l \in n..Len(b) BY <1>1
  <2>2. QED BY <2>1, ConcatAdjacentSubSeq
<1>6. SubSeq(b, 1, l) = b BY <1>1, SubSeqFull
<1>7. QED BY <1>1, <1>3, <1>4, <1>5, <1>6

(* A sequence that is long enough is a piece of a given length and a rest. *)
LEMMA CutAt ==
    ASSUME NEW S, NEW b \in Seq(S), NEW n \in Nat, n <= Len(b)
    PROVE  \E c, s \in Seq(S) : b = c \o s /\ Len(c) = n
<1> DEFINE c == SubSeq(b, 1, n)
           s == SubSeq(b, n + 1, Len(b))
<1>1. n \in 0..Len(b) OBVIOUS
<1>2. c \in Seq(S) /\ s \in Seq(S) /\ b = c \o s /\ Len(c) = n BY <1>1, Cut
<1> HIDE DEF c, s
<1>3. QED BY <1>2

\* A step of a recursion: the value at x is F[x][g], where g gives the values
\* at the arguments of lower rank, and only those matter.
RecursionStep(X, T, rank, F) ==
    /\ T # {} /\ rank \in [X -> Nat] /\ F \in [X -> [[X -> T] -> T]]
    /\ \A x \in X : \A g, h \in [X -> T] :
          (\A y \in X : rank[y] < rank[x] => g[y] = h[y]) => F[x][g] = F[x][h]

Solves(f, X, T, F) == f \in [X -> T] /\ \A x \in X : f[x] = F[x][f]

(* There is a function that every step agrees with.                        *)
LEMMA Recursion == ASSUME NEW X, NEW T, NEW rank, NEW F, RecursionStep(X, T, rank, F)
                   PROVE  \E f : Solves(f, X, T, F)
<1> USE DEF RecursionStep
<1> PICK t \in T : TRUE OBVIOUS
<1> DEFINE Good(g, n) == \A x \in X : rank[x] < n => g[x] = F[x][g]
<1>1. \A n \in Nat : \E g \in [X -> T] : Good(g, n)
  <2> DEFINE N == {n \in Nat : \E g \in [X -> T] : Good(g, n)}
  <2>1. 0 \in N
    <3>1. [x \in X |-> t] \in [X -> T] OBVIOUS
    <3>2. Good([x \in X |-> t], 0) OBVIOUS
    <3>3. QED BY <3>1, <3>2
  <2>2. ASSUME NEW n \in Nat, n \in N PROVE n + 1 \in N
    <3>1. PICK g \in [X -> T] : Good(g, n) BY <2>2
    <3> DEFINE h == [x \in X |-> F[x][g]]
    <3>2. h \in [X -> T] OBVIOUS
    <3>3. \A y \in X : rank[y] < n => h[y] = g[y] BY <3>1
    <3> HIDE DEF h
    <3>4. ASSUME NEW x \in X, rank[x] < n + 1 PROVE h[x] = F[x][h]
      <4>1. \A y \in X : rank[y] < rank[x] => g[y] = h[y] BY <3>3, <3>4
      <4>2. F[x][g] = F[x][h] BY <4>1, <3>2
      <4>3. QED BY <4>2 DEF h
    <3>5. QED BY <3>2, <3>4
  <2> HIDE DEF N
  <2>3. Nat \subseteq N BY <2>1, <2>2, Induction
  <2>4. QED BY <2>3 DEF N
<1>2. \A n \in Nat : \A g, h \in [X -> T] : Good(g, n) /\ Good(h, n) =>
         \A x \in X : rank[x] < n => g[x] = h[x]
  <2> SUFFICES ASSUME NEW g \in [X -> T], NEW h \in [X -> T]
               PROVE  \A n \in Nat : Good(g, n) /\ Good(h, n) =>
                         \A x \in X : rank[x] < n => g[x] = h[x]
    OBVIOUS
  <2> DEFINE N == {n \in Nat : Good(g, n) /\ Good(h, n) => \A x \in X : rank[x] < n => g[x] = h[x]}
  <2>1. 0 \in N OBVIOUS
  <2>2. ASSUME NEW n \in Nat, n \in N PROVE n + 1 \in N
    <3> SUFFICES ASSUME Good(g, n + 1), Good(h, n + 1), NEW x \in X, rank[x] < n + 1
                 PROVE  g[x] = h[x]
      OBVIOUS
    <3>1. \A y \in X : rank[y] < n => g[y] = h[y]
      <4>1. Good(g, n) /\ Good(h, n) OBVIOUS
      <4>2. QED BY <2>2, <4>1
    <3>2. \A y \in X : rank[y] < rank[x] => g[y] = h[y] BY <3>1
    <3> HIDE DEF Good
    <3>6. F[x][g] = F[x][h] BY <3>2
    <3> USE DEF Good
    <3>3. g[x] = F[x][g] OBVIOUS
    <3>4. h[x] = F[x][h] OBVIOUS
    <3>5. QED BY <3>6, <3>3, <3>4
  <2> HIDE DEF N
  <2>3. Nat \subseteq N BY <2>1, <2>2, Induction
  <2>4. QED BY <2>3 DEF N
<1> DEFINE G(n) == CHOOSE g \in [X -> T] : Good(g, n)
           f == [x \in X |-> G(rank[x] + 1)[x]]
<1>3. \A n \in Nat : G(n) \in [X -> T] /\ Good(G(n), n) BY <1>1
<1> HIDE DEF G
<1>4. f \in [X -> T]
  <2>1. ASSUME NEW x \in X PROVE G(rank[x] + 1)[x] \in T
    <3>1. rank[x] + 1 \in Nat OBVIOUS
    <3>2. G(rank[x] + 1) \in [X -> T] BY <1>3, <3>1
    <3>3. QED BY <3>2
  <2>2. QED BY <2>1
<1>5. ASSUME NEW x \in X PROVE f[x] = F[x][f]
  <2> DEFINE n == rank[x] + 1
             g == G(n)
  <2>1. n \in Nat /\ g \in [X -> T] /\ Good(g, n) BY <1>3
  <2>2. ASSUME NEW y \in X, rank[y] < rank[x] PROVE f[y] = g[y]
    <3> DEFINE k == rank[y] + 1
    <3>1. k \in Nat /\ G(k) \in [X -> T] /\ Good(G(k), k) BY <1>3
    <3>2. Good(g, k) BY <2>1, <2>2
    <3>3. G(k)[y] = g[y]
      <4>1. rank[y] < k BY <3>1
      <4> HIDE DEF k, g, n, Good
      <4>2. QED BY <1>2, <2>1, <3>1, <3>2, <4>1
    <3>4. QED BY <3>3
  <2>3. F[x][f] = F[x][g] BY <1>4, <2>1, <2>2
  <2>4. g[x] = F[x][g] BY <2>1
  <2>5. QED BY <2>3, <2>4
<1>6. QED BY <1>4, <1>5 DEF Solves

-----------------------------------------------------------------------------
(* The sums that FlattenSeq is made of: the i-th is the first i sequences  *)
(* one after the other.                                                    *)
Flattens(f, ss, S) == /\ f \in [1..Len(ss) -> Seq(S)]
                      /\ \A i \in 1..Len(ss) : f[i] = IF i = 1 THEN ss[i] ELSE f[i - 1] \o ss[i]

(* FlattenSeq is the last of them.                                         *)
LEMMA FlattenDef == ASSUME NEW S, NEW ss \in Seq(Seq(S)), ss # << >>
                    PROVE  \E f : Flattens(f, ss, S) /\ FlattenSeq(ss) = f[Len(ss)]
<1> DEFINE X == 1..Len(ss)
           T == Seq(S)
           Step(i, g) == IF i = 1 THEN ss[i] ELSE g[i - 1] \o ss[i]
           F == [i \in X |-> [g \in [X -> T] |-> Step(i, g)]]
           rank == [i \in X |-> i]
           P(g) == g = [i \in X |-> IF i = 1 THEN ss[i] ELSE g[i - 1] \o ss[i]]
<1>1. Len(ss) \in Nat \ {0} /\ \A i \in X : ss[i] \in T OBVIOUS
<1>2. ASSUME NEW i \in X, NEW g \in [X -> T] PROVE Step(i, g) \in T
  <2>1. CASE i = 1 BY <1>1, <2>1
  <2>2. CASE i # 1
    <3>1. i - 1 \in X BY <2>2
    <3>2. g[i - 1] \in Seq(S) /\ ss[i] \in Seq(S) BY <1>1, <3>1
    <3>3. QED BY <2>2, <3>2
  <2>3. QED BY <2>1, <2>2
<1>3. ASSUME NEW i \in X, NEW g \in [X -> T], NEW h \in [X -> T],
             \A j \in X : rank[j] < rank[i] => g[j] = h[j]
      PROVE  Step(i, g) = Step(i, h)
  <2>1. CASE i = 1 BY <2>1
  <2>2. CASE i # 1
    <3>1. i - 1 \in X BY <2>2
    <3>2. g[i - 1] = h[i - 1] BY <1>3, <3>1
    <3>3. QED BY <2>2, <3>2
  <2>3. QED BY <2>1, <2>2
<1>4. PICK f : Solves(f, X, T, F)
  <2>1. T # {} OBVIOUS
  <2>2. rank \in [X -> Nat] OBVIOUS
  <2>3. F \in [X -> [[X -> T] -> T]]
    <3> HIDE DEF Step, T, X
    <3> QED BY <1>2
  <2>4. \A i \in X : \A g, h \in [X -> T] :
          (\A j \in X : rank[j] < rank[i] => g[j] = h[j]) => F[i][g] = F[i][h]
    <3> HIDE DEF Step, T, X, rank
    <3> QED BY <1>3
  <2>5. RecursionStep(X, T, rank, F)
    <3> HIDE DEF F, T, X, rank
    <3> QED BY <2>1, <2>2, <2>3, <2>4 DEF RecursionStep
  <2>6. QED
    <3> HIDE DEF F, T, X, rank
    <3> QED BY <2>5, Recursion
<1>5. f \in [X -> T] /\ \A i \in X : f[i] = Step(i, f)
  <2> HIDE DEF Step, T, X
  <2> QED BY <1>4 DEF Solves
<1>6. P(f) BY <1>5
<1>7. FlattenSeq(ss) = (CHOOSE g : P(g))[Len(ss)]
  <2>1. Len(ss) # 0 BY <1>1
  <2>2. QED BY <2>1 DEF FlattenSeq
<1>8. P(CHOOSE g : P(g))
  <2> HIDE DEF P
  <2> QED BY <1>6
<1> DEFINE c == CHOOSE g : P(g)
<1>9. c = f
  <2>1. c = [i \in X |-> Step(i, c)] BY <1>8
  <2> HIDE DEF c, P
  <2> DEFINE N == {n \in Nat : n \in X => c[n] = f[n]}
  <2>2. 0 \in N OBVIOUS
  <2>3. ASSUME NEW n \in Nat, n \in N PROVE n + 1 \in N
    <3> SUFFICES ASSUME n + 1 \in X PROVE c[n + 1] = f[n + 1] OBVIOUS
    <3>1. CASE n + 1 = 1 BY <2>1, <1>5, <3>1
    <3>2. CASE n + 1 # 1
      <4>1. n \in X /\ (n + 1) - 1 = n BY <3>2
      <4>2. c[n] = f[n] BY <2>3, <4>1
      <4>3. c[n + 1] = Step(n + 1, c) /\ f[n + 1] = Step(n + 1, f) BY <2>1, <1>5
      <4>4. QED BY <3>2, <4>1, <4>2, <4>3
    <3>3. QED BY <3>1, <3>2
  <2> HIDE DEF N
  <2>4. Nat \subseteq N BY <2>2, <2>3, Induction
  <2>5. \A i \in X : c[i] = f[i] BY <2>4 DEF N
  <2>6. DOMAIN c = X /\ c = [i \in X |-> c[i]] BY <2>1
  <2>7. f = [i \in X |-> f[i]] BY <1>5
  <2>8. QED BY <2>5, <2>6, <2>7
<1>10. Flattens(f, ss, S) BY <1>5 DEF Flattens
<1>11. QED BY <1>7, <1>9, <1>10

(* One sequence flattened is itself.                                       *)
LEMMA FlattenOne == ASSUME NEW S, NEW s \in Seq(S) PROVE FlattenSeq(<<s>>) = s
<1>1. <<s>> \in Seq(Seq(S)) /\ <<s>> # << >> /\ Len(<<s>>) = 1 /\ <<s>>[1] = s OBVIOUS
<1>2. PICK f : Flattens(f, <<s>>, S) /\ FlattenSeq(<<s>>) = f[Len(<<s>>)] BY <1>1, FlattenDef
<1>3. QED BY <1>1, <1>2 DEF Flattens

(* None flattened is empty.                                                *)
LEMMA FlattenEmpty == FlattenSeq(<< >>) = << >>
BY DEF FlattenSeq

(* What is appended comes behind.                                          *)
LEMMA FlattenAppend == ASSUME NEW S, NEW ss \in Seq(Seq(S)), NEW s \in Seq(S)
                       PROVE  FlattenSeq(Append(ss, s)) = FlattenSeq(ss) \o s
<1>1. CASE ss = << >>
  <2>1. Append(ss, s) = <<s>> BY <1>1
  <2>2. FlattenSeq(ss) \o s = s BY <1>1, FlattenEmpty, ConcatEmptySeq
  <2>3. QED BY <2>1, <2>2, FlattenOne
<1>2. CASE ss # << >>
  <2> DEFINE tt == Append(ss, s)
             n == Len(ss)
  <2>1. /\ n \in Nat \ {0} /\ tt \in Seq(Seq(S)) /\ tt # << >> /\ Len(tt) = n + 1 /\ tt[n + 1] = s
        /\ \A i \in 1..n : tt[i] = ss[i]
    BY <1>2
  <2>2. PICK f : Flattens(f, ss, S) /\ FlattenSeq(ss) = f[n] BY <1>2, FlattenDef
  <2>3. PICK g : Flattens(g, tt, S) /\ FlattenSeq(tt) = g[n + 1] BY <2>1, FlattenDef
  <2> HIDE DEF tt, n
  <2>9. Len(ss) = n BY DEF n
  <2> DEFINE N == {k \in Nat : k \in 1..n => g[k] = f[k]}
  <2>4. 0 \in N OBVIOUS
  <2>5. ASSUME NEW k \in Nat, k \in N PROVE k + 1 \in N
    <3> SUFFICES ASSUME k + 1 \in 1..n PROVE g[k + 1] = f[k + 1] OBVIOUS
    <3>1. k + 1 \in 1..Len(tt) /\ k + 1 \in 1..Len(ss) /\ tt[k + 1] = ss[k + 1] BY <2>1, <2>9
    <3>2. /\ f[k + 1] = IF k + 1 = 1 THEN ss[k + 1] ELSE f[(k + 1) - 1] \o ss[k + 1]
          /\ g[k + 1] = IF k + 1 = 1 THEN tt[k + 1] ELSE g[(k + 1) - 1] \o tt[k + 1]
      BY <2>2, <2>3, <3>1 DEF Flattens
    <3>3. (k + 1) - 1 = k OBVIOUS
    <3>4. CASE k + 1 = 1 BY <3>1, <3>2, <3>4
    <3>5. CASE k + 1 # 1
      <4>1. k \in 1..n BY <3>5, <2>1
      <4>2. g[k] = f[k] BY <2>5, <4>1
      <4>3. QED BY <3>1, <3>2, <3>3, <3>5, <4>2
    <3>6. QED BY <3>4, <3>5
  <2> HIDE DEF N
  <2>6. Nat \subseteq N BY <2>4, <2>5, Induction
  <2>7. g[n] = f[n] BY <2>1, <2>6 DEF N
  <2>8. g[n + 1] = g[n] \o s
    <3>1. n + 1 \in 1..Len(tt) /\ n + 1 # 1 /\ (n + 1) - 1 = n BY <2>1
    <3>2. g[n + 1] = g[(n + 1) - 1] \o tt[n + 1] BY <2>3, <3>1 DEF Flattens
    <3>3. QED BY <2>1, <3>1, <3>2
  <2>10. QED BY <2>2, <2>3, <2>7, <2>8 DEF tt
<1>3. QED BY <1>1, <1>2

(* What is flattened is a sequence again.                                  *)
LEMMA FlattenType == ASSUME NEW S, NEW ss \in Seq(Seq(S)) PROVE FlattenSeq(ss) \in Seq(S)
<1>1. CASE ss = << >>
  <2>1. FlattenSeq(ss) = << >> BY <1>1, FlattenEmpty
  <2>2. QED BY <2>1
<1>2. CASE ss # << >>
  <2>1. PICK f : Flattens(f, ss, S) /\ FlattenSeq(ss) = f[Len(ss)] BY <1>2, FlattenDef
  <2>2. Len(ss) \in 1..Len(ss) BY <1>2
  <2>3. QED BY <2>1, <2>2 DEF Flattens
<1>3. QED BY <1>1, <1>2

(* Of two lists one behind the other.                                      *)
LEMMA FlattenConcat == ASSUME NEW S, NEW ss \in Seq(Seq(S)), NEW tt \in Seq(Seq(S))
                       PROVE  FlattenSeq(ss \o tt) = FlattenSeq(ss) \o FlattenSeq(tt)
<1> DEFINE N == {n \in Nat : \A uu \in Seq(Seq(S)) : Len(uu) = n =>
                                FlattenSeq(ss \o uu) = FlattenSeq(ss) \o FlattenSeq(uu)}
<1>1. 0 \in N
  <2> SUFFICES ASSUME NEW uu \in Seq(Seq(S)), Len(uu) = 0
               PROVE  FlattenSeq(ss \o uu) = FlattenSeq(ss) \o FlattenSeq(uu)
    OBVIOUS
  <2>1. uu = << >> OBVIOUS
  <2>2. ss \o uu = ss BY <2>1, ConcatEmptySeq
  <2>3. FlattenSeq(ss) \o << >> = FlattenSeq(ss) BY FlattenType, ConcatEmptySeq
  <2>4. QED BY <2>1, <2>2, <2>3, FlattenEmpty
<1>2. ASSUME NEW n \in Nat, n \in N PROVE n + 1 \in N
  <2> SUFFICES ASSUME NEW uu \in Seq(Seq(S)), Len(uu) = n + 1
               PROVE  FlattenSeq(ss \o uu) = FlattenSeq(ss) \o FlattenSeq(uu)
    OBVIOUS
  <2>1. uu # << >> OBVIOUS
  <2>2. PICK vv \in Seq(Seq(S)), v \in Seq(S) : uu = Append(vv, v) BY <2>1, SequenceEmptyOrAppend
  <2>3. Len(vv) = n BY <2>2
  <2>4. FlattenSeq(ss \o vv) = FlattenSeq(ss) \o FlattenSeq(vv) BY <1>2, <2>3
  <2>5. ss \o vv \in Seq(Seq(S)) OBVIOUS
  <2>6. ss \o uu = Append(ss \o vv, v)
    <3>1. <<v>> \in Seq(Seq(S)) OBVIOUS
    <3>2. uu = vv \o <<v>> BY <2>2, AppendIsConcat
    <3>3. Append(ss \o vv, v) = (ss \o vv) \o <<v>> BY <2>5, AppendIsConcat
    <3>4. (ss \o vv) \o <<v>> = ss \o (vv \o <<v>>) BY <3>1, SMTT(30)
    <3>5. QED BY <3>2, <3>3, <3>4
  <2>7. FlattenSeq(ss \o uu) = FlattenSeq(ss \o vv) \o v BY <2>5, <2>6, FlattenAppend
  <2>8. FlattenSeq(uu) = FlattenSeq(vv) \o v BY <2>2, FlattenAppend
  <2>9. (FlattenSeq(ss) \o FlattenSeq(vv)) \o v = FlattenSeq(ss) \o (FlattenSeq(vv) \o v)
    <3>1. FlattenSeq(ss) \in Seq(S) /\ FlattenSeq(vv) \in Seq(S) BY FlattenType
    <3>2. QED BY <3>1
  <2>10. QED BY <2>4, <2>7, <2>8, <2>9
<1> HIDE DEF N
<1>3. Nat \subseteq N BY <1>1, <1>2, Induction
<1>4. QED BY <1>3 DEF N

(* What is appended is the last element.                                   *)
LEMMA LastOfAppend ==
    ASSUME NEW S, NEW s \in Seq(S), NEW p \in S, NEW t, t = Append(s, p)
    PROVE  Len(t) = Len(s) + 1 /\ t[Len(t)] = p /\ t = Append(s, t[Len(t)])
OBVIOUS

(* What is behind the first r of a list grows with the list.               *)
LEMMA OneMore ==
    ASSUME NEW S, NEW s \in Seq(S), NEW e \in S, NEW r \in Nat, r <= Len(s)
    PROVE  LET a == SubSeq(s, r + 1, Len(s))
               b == SubSeq(Append(s, e), r + 1, Len(Append(s, e)))
           IN Len(b) = Len(a) + 1 /\ SubSeq(b, 1, Len(a)) = a
<1>1. PICK n \in Nat : n = Len(s) OBVIOUS
<1>2. PICK t \in Seq(S) : t = Append(s, e)
  <2>1. Append(s, e) \in Seq(S) OBVIOUS
  <2>2. QED BY <2>1
<1>3. Len(t) = n + 1 /\ (\A i \in 1..n : t[i] = s[i]) /\ n \in Nat BY <1>1, <1>2
<1>4. PICK a \in Seq(S) : a = SubSeq(s, r + 1, n)
  <2>1. SubSeq(s, r + 1, n) \in Seq(S) BY <1>1
  <2>2. QED BY <2>1
<1>5. PICK b \in Seq(S) : b = SubSeq(t, r + 1, n + 1)
  <2>1. SubSeq(t, r + 1, n + 1) \in Seq(S) BY <1>1, <1>3
  <2>2. QED BY <2>1
<1>6. Len(a) = n - r /\ \A i \in 1..(n - r) : a[i] = s[r + i] BY <1>1, <1>4
<1>7. Len(b) = n + 1 - r /\ \A i \in 1..(n + 1 - r) : b[i] = t[r + i] BY <1>1, <1>3, <1>5
<1>8. n - r \in Nat BY <1>1
<1>9. \A i \in 1..(n - r) : a[i] = b[i]
  <2>1. \A i \in 1..(n - r) : i \in 1..(n + 1 - r) /\ r + i \in 1..n BY <1>1, <1>8
  <2>2. QED BY <1>3, <1>6, <1>7, <2>1
<1>10. PICK c \in Seq(S) : c = SubSeq(b, 1, n - r)
  <2>1. SubSeq(b, 1, n - r) \in Seq(S) BY <1>7, <1>8
  <2>2. QED BY <2>1
<1>11. Len(c) = n - r /\ \A i \in 1..(n - r) : c[i] = b[i] BY <1>7, <1>8, <1>10
<1>12. c = a BY <1>6, <1>8, <1>9, <1>11
<1>13. Len(b) = Len(a) + 1 BY <1>6, <1>7, <1>8
<1>14. QED BY <1>1, <1>2, <1>3, <1>4, <1>5, <1>6, <1>10, <1>12, <1>13

(* Without its first element, what is behind the first r is what is behind *)
(* the first r + 1.                                                        *)
LEMMA FirstAway ==
    ASSUME NEW S, NEW s \in Seq(S), NEW r \in Nat, r < Len(s)
    PROVE  LET a == SubSeq(s, r + 1, Len(s))
           IN a # << >> /\ Head(a) = s[r + 1] /\ Tail(a) = SubSeq(s, r + 2, Len(s))
<1>1. PICK n \in Nat : n = Len(s) OBVIOUS
<1>2. PICK a \in Seq(S) : a = SubSeq(s, r + 1, n)
  <2>1. SubSeq(s, r + 1, n) \in Seq(S) BY <1>1
  <2>2. QED BY <2>1
<1>3. PICK b \in Seq(S) : b = SubSeq(s, r + 2, n)
  <2>1. SubSeq(s, r + 2, n) \in Seq(S) BY <1>1
  <2>2. QED BY <2>1
<1>4. Len(a) = n - r /\ \A i \in 1..(n - r) : a[i] = s[r + i] BY <1>1, <1>2
<1>5. PICK m \in Nat : m = n - r - 1
  <2>1. n - r - 1 \in Nat BY <1>1
  <2>2. QED BY <2>1
<1>6. Len(b) = m /\ \A i \in 1..m : b[i] = s[r + 1 + i]
  <2>1. n = r + 1 + m BY <1>1, <1>5
  <2>2. QED BY <1>1, <1>3, <2>1
<1>7. Len(a) = m + 1 BY <1>1, <1>4, <1>5
<1>8. a # << >> /\ Head(a) = s[r + 1]
  <2>1. a # << >> BY <1>7
  <2>2. 1 \in 1..(n - r) BY <1>1, <1>5
  <2>3. QED BY <1>4, <2>1, <2>2
<1>9. PICK c \in Seq(S) : c = Tail(a)
  <2>1. Tail(a) \in Seq(S) BY <1>8
  <2>2. QED BY <2>1
<1>10. Len(c) = m /\ \A i \in 1..m : c[i] = a[i + 1] BY <1>7, <1>8, <1>9
<1>11. \A i \in 1..m : c[i] = b[i]
  <2>1. \A i \in 1..m : i + 1 \in 1..(n - r) /\ r + (i + 1) = r + 1 + i BY <1>1, <1>5
  <2>2. QED BY <1>4, <1>6, <1>10, <2>1
<1>12. c = b BY <1>6, <1>10, <1>11
<1>13. QED BY <1>1, <1>2, <1>3, <1>8, <1>9, <1>12

(* Appending to the second of two sequences is appending to both.          *)
LEMMA AppendBehind ==
    ASSUME NEW S, NEW s \in Seq(S), NEW t \in Seq(S), NEW e \in S
    PROVE  s \o Append(t, e) = Append(s \o t, e)
<1>1. PICK m \in Nat, n \in Nat : m = Len(s) /\ n = Len(t) OBVIOUS
<1>2. PICK a \in Seq(S) : a = Append(t, e)
  <2>1. Append(t, e) \in Seq(S) OBVIOUS
  <2>2. QED BY <2>1
<1>3. PICK b \in Seq(S) : b = s \o t BY ConcatIn
<1>4. PICK x \in Seq(S) : x = s \o a BY ConcatIn
<1>5. PICK y \in Seq(S) : y = Append(b, e)
  <2>1. Append(b, e) \in Seq(S) OBVIOUS
  <2>2. QED BY <2>1
<1>6. Len(a) = n + 1 /\ Len(b) = m + n /\ Len(x) = m + (n + 1) /\ Len(y) = (m + n) + 1
  BY <1>1, <1>2, <1>3, <1>4, <1>5
<1>7. \A i \in 1..m : x[i] = s[i] /\ b[i] = s[i] BY <1>1, <1>3, <1>4
<1>8. \A i \in 1..(m + n) : y[i] = b[i] BY <1>5, <1>6
<1>9. y[m + n + 1] = e BY <1>1, <1>5, <1>6
<1>10. \A i \in 1..n : a[i] = t[i] BY <1>1, <1>2
<1>11. a[n + 1] = e BY <1>1, <1>2
<1>12. \A i \in (m + 1)..(m + n) : b[i] = t[i - m] BY <1>1, <1>3, <1>6
<1>13. \A i \in (m + 1)..(m + n + 1) : x[i] = a[i - m] BY <1>1, <1>4, <1>6
<1>14. \A i \in 1..(m + n + 1) : x[i] = y[i]
  <2> TAKE i \in 1..(m + n + 1)
  <2>1. CASE i <= m
    <3>1. i \in 1..m /\ i \in 1..(m + n) BY <2>1
    <3>2. QED BY <1>7, <1>8, <3>1
  <2>2. CASE i > m /\ i <= m + n
    <3>1. i \in (m + 1)..(m + n) /\ i \in (m + 1)..(m + n + 1) /\ i \in 1..(m + n) /\ i - m \in 1..n BY <2>2
    <3>2. QED BY <1>8, <1>10, <1>12, <1>13, <3>1
  <2>3. CASE i = m + n + 1
    <3>1. i \in (m + 1)..(m + n + 1) /\ i - m = n + 1 BY <2>3
    <3>2. QED BY <1>9, <1>11, <1>13, <2>3, <3>1
  <2>4. QED BY <2>1, <2>2, <2>3
<1>15. x = y BY <1>6, <1>14
<1>16. QED BY <1>2, <1>3, <1>4, <1>5, <1>15

(* A beginning that is one longer.                                         *)
LEMMA PieceMore ==
    ASSUME NEW S, NEW p \in Seq(S), NEW i \in 1..Len(p)
    PROVE  SubSeq(p, 1, i) = Append(SubSeq(p, 1, i - 1), p[i])
<1>a. i \in 0..Len(p) /\ i - 1 \in 0..Len(p) OBVIOUS
<1>b. SubSeq(p, 1, i) \in Seq(S) /\ Len(SubSeq(p, 1, i)) = i BY <1>a, Cut
<1>c. SubSeq(p, 1, i - 1) \in Seq(S) /\ Len(SubSeq(p, 1, i - 1)) = i - 1 BY <1>a, Cut
<1>1. PICK x \in Seq(S) : x = SubSeq(p, 1, i) /\ Len(x) = i BY <1>b
<1>3. PICK y \in Seq(S) : y = SubSeq(p, 1, i - 1) /\ Len(y) = i - 1 BY <1>c
<1>4. \A j \in 1..i : x[j] = p[j] BY <1>1
<1>5. \A j \in 1..(i - 1) : y[j] = p[j] BY <1>3
<1>6. Append(y, p[i]) \in Seq(S) /\ Len(Append(y, p[i])) = i BY <1>3
<1>7. \A j \in 1..i : Append(y, p[i])[j] = p[j]
  <2>1. Append(y, p[i])[i] = p[i] BY <1>3
  <2>2. \A j \in 1..(i - 1) : Append(y, p[i])[j] = y[j] BY <1>3
  <2>3. \A j \in 1..i : j = i \/ j \in 1..(i - 1) OBVIOUS
  <2>4. QED BY <1>5, <2>1, <2>2, <2>3
<1>8. QED BY <1>1, <1>3, <1>4, <1>6, <1>7

(* Two lists of pieces that begin with the same ones.                      *)
LEMMA SameBeginning ==
    ASSUME NEW S, NEW p \in Seq(S), NEW q \in Seq(S), Len(p) = Len(q), NEW i \in 0..Len(p),
           \A j \in 1..i : p[j] = q[j]
    PROVE  SubSeq(p, 1, i) = SubSeq(q, 1, i)
<1>a. SubSeq(p, 1, i) \in Seq(S) /\ Len(SubSeq(p, 1, i)) = i BY Cut
<1>b. i \in 0..Len(q) OBVIOUS
<1>c. SubSeq(q, 1, i) \in Seq(S) /\ Len(SubSeq(q, 1, i)) = i BY <1>b, Cut
<1>1. PICK x \in Seq(S) : x = SubSeq(p, 1, i) /\ Len(x) = i BY <1>a
<1>2. PICK y \in Seq(S) : y = SubSeq(q, 1, i) /\ Len(y) = i BY <1>c
<1>3. \A j \in 1..i : x[j] = p[j] /\ y[j] = q[j] BY <1>1, <1>2
<1>4. \A j \in 1..i : x[j] = y[j] BY <1>3
<1>5. QED BY <1>1, <1>2, <1>4
=============================================================================
