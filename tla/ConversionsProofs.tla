------------------------- MODULE ConversionsProofs -------------------------
(***************************************************************************)
(* Proofs about Conversions, for every width of an int and of a group, for *)
(* every length of the buffers that holds the groups of an int, and every  *)
(* layout of a position: the loops of VarInts and the arithmetic of        *)
(* positions give what they are to give.  And about ChatText, for messages *)
(* of any size and shape: the walk of Chat prints the texts they have.     *)
(***************************************************************************)
EXTENDS ChatText, Basics, FiniteSetTheorems

-----------------------------------------------------------------------------
(* The powers of two.                                                      *)
LEMMA TwoToDef == /\ TwoTo \in [Nat -> Nat \ {0}]
                  /\ \A n \in Nat : TwoTo[n] = IF n = 0 THEN 1 ELSE 2 * TwoTo[n - 1]
<1> DEFINE T == Nat \ {0}
           Step(n, g) == IF n = 0 THEN 1 ELSE 2 * g[n - 1]
           F == [n \in Nat |-> [g \in [Nat -> T] |-> Step(n, g)]]
           rank == [n \in Nat |-> n]
           P(g) == g = [n \in Nat |-> IF n = 0 THEN 1 ELSE 2 * g[n - 1]]
<1>1. ASSUME NEW n \in Nat, NEW g \in [Nat -> T] PROVE Step(n, g) \in T
  <2>1. CASE n = 0 BY <2>1
  <2>2. CASE n # 0
    <3>1. n - 1 \in Nat BY <2>2
    <3>2. g[n - 1] \in Nat /\ g[n - 1] > 0 BY <3>1
    <3>3. QED BY <2>2, <3>2
  <2>3. QED BY <2>1, <2>2
<1>2. ASSUME NEW n \in Nat, NEW g \in [Nat -> T], NEW h \in [Nat -> T],
             \A k \in Nat : rank[k] < rank[n] => g[k] = h[k]
      PROVE  Step(n, g) = Step(n, h)
  <2>1. CASE n = 0 BY <2>1
  <2>2. CASE n # 0
    <3>1. n - 1 \in Nat /\ n - 1 < n BY <2>2
    <3>2. g[n - 1] = h[n - 1] BY <1>2, <3>1
    <3>3. QED BY <2>2, <3>2
  <2>3. QED BY <2>1, <2>2
<1>3. PICK f : Solves(f, Nat, T, F)
  <2>1. T # {} /\ rank \in [Nat -> Nat]
    <3>1. 1 \in T OBVIOUS
    <3>2. rank \in [Nat -> Nat] OBVIOUS
    <3>3. QED BY <3>1, <3>2
  <2>2. F \in [Nat -> [[Nat -> T] -> T]]
    <3> HIDE DEF Step, T
    <3> QED BY <1>1
  <2>3. \A n \in Nat : \A g, h \in [Nat -> T] :
          (\A k \in Nat : rank[k] < rank[n] => g[k] = h[k]) => F[n][g] = F[n][h]
    <3> HIDE DEF Step, T, rank
    <3> QED BY <1>2
  <2> HIDE DEF F, T, rank
  <2>4. RecursionStep(Nat, T, rank, F) BY <2>1, <2>2, <2>3 DEF RecursionStep
  <2>5. QED BY <2>4, Recursion
<1>4. f \in [Nat -> T] /\ \A n \in Nat : f[n] = Step(n, f)
  <2> HIDE DEF Step, T
  <2> QED BY <1>3 DEF Solves
<1>5. P(f) BY <1>4
<1>6. TwoTo = CHOOSE g : P(g) BY DEF TwoTo
<1>7. P(TwoTo)
  <2> HIDE DEF P
  <2> QED BY <1>5, <1>6
<1>8. \A n \in Nat : TwoTo[n] = Step(n, TwoTo) BY <1>7
<1>9. \A n \in Nat : TwoTo[n] \in T
  <2> DEFINE N == {n \in Nat : TwoTo[n] \in T}
  <2>1. 0 \in N
    <3>1. TwoTo[0] = 1 BY <1>8
    <3>2. QED BY <3>1
  <2>2. ASSUME NEW n \in Nat, n \in N PROVE n + 1 \in N
    <3>1. n + 1 \in Nat /\ n + 1 # 0 /\ (n + 1) - 1 = n OBVIOUS
    <3>2. TwoTo[n + 1] = 2 * TwoTo[n] BY <1>8, <3>1
    <3>3. TwoTo[n] \in Nat /\ TwoTo[n] # 0 BY <2>2
    <3>4. 2 * TwoTo[n] \in Nat /\ 2 * TwoTo[n] # 0 BY <3>3
    <3>5. QED BY <3>1, <3>2, <3>4
  <2> HIDE DEF N
  <2>3. Nat \subseteq N BY <2>1, <2>2, Induction
  <2>4. QED BY <2>3 DEF N
<1>10. TwoTo = [n \in Nat |-> TwoTo[n]] BY <1>7
<1>11. QED BY <1>8, <1>9, <1>10

(* The powers of two, one after the other.                                 *)
LEMMA TwoToNext == /\ TwoTo[0] = 1
                   /\ \A n \in Nat : TwoTo[n] \in Nat \ {0} /\ TwoTo[n + 1] = 2 * TwoTo[n]
<1>1. \A n \in Nat : n + 1 \in Nat /\ n + 1 # 0 /\ (n + 1) - 1 = n OBVIOUS
<1>2. QED BY <1>1, TwoToDef

(* A shift after a shift.                                                  *)
LEMMA TwoToSum == ASSUME NEW a \in Nat, NEW b \in Nat PROVE TwoTo[a + b] = TwoTo[a] * TwoTo[b]
<1> DEFINE N == {n \in Nat : TwoTo[a + n] = TwoTo[a] * TwoTo[n]}
<1>1. 0 \in N
  <2>1. a + 0 = a /\ TwoTo[a] * 1 = TwoTo[a] BY TwoToNext
  <2>2. QED BY <2>1, TwoToNext
<1>2. ASSUME NEW n \in Nat, n \in N PROVE n + 1 \in N
  <2>1. PICK x \in Nat, y \in Nat : x = TwoTo[a] /\ y = TwoTo[n] /\ TwoTo[a + n] = x * y
    BY <1>2, TwoToNext
  <2>2. a + (n + 1) = (a + n) + 1 /\ a + n \in Nat OBVIOUS
  <2>3. TwoTo[a + (n + 1)] = 2 * (x * y) BY <2>1, <2>2, TwoToNext
  <2>4. TwoTo[n + 1] = 2 * y BY <2>1, TwoToNext
  <2>5. 2 * (x * y) = x * (2 * y) OBVIOUS
  <2>6. QED BY <2>1, <2>3, <2>4, <2>5
<1> HIDE DEF N
<1>3. Nat \subseteq N BY <1>1, <1>2, Induction
<1>4. QED BY <1>3 DEF N

(* A product grows with its factors.                                       *)
LEMMA ProductGrows == ASSUME NEW a \in Nat, NEW b \in Nat, NEW c \in Nat, b <= c PROVE a * b <= a * c
<1>1. PICK d \in Nat : c = b + d
  <2>1. c - b \in Nat /\ c = b + (c - b) OBVIOUS
  <2>2. QED BY <2>1
<1>2. a * c = a * b + a * d BY <1>1
<1>3. a * d \in Nat /\ a * b \in Nat OBVIOUS
<1>4. QED BY <1>2, <1>3

(* A higher power is not smaller.                                          *)
LEMMA TwoToGrows == ASSUME NEW a \in Nat, NEW b \in Nat, a <= b PROVE TwoTo[a] <= TwoTo[b]
<1>1. PICK d \in Nat : b = a + d
  <2>1. b - a \in Nat /\ b = a + (b - a) OBVIOUS
  <2>2. QED BY <2>1
<1>2. TwoTo[b] = TwoTo[a] * TwoTo[d] BY <1>1, TwoToSum
<1>3. PICK x \in Nat, y \in Nat : x = TwoTo[a] /\ y = TwoTo[d] /\ 1 <= y BY TwoToNext
<1>4. x * 1 <= x * y BY <1>3, ProductGrows
<1>5. x * 1 = x OBVIOUS
<1>6. QED BY <1>2, <1>3, <1>4, <1>5

-----------------------------------------------------------------------------
(* Division by a product is one after the other.                           *)
LEMMA DivModProduct ==
    ASSUME NEW n \in Int, NEW a \in Nat \ {0}, NEW b \in Nat \ {0}
    PROVE  /\ a * b \in Nat \ {0}
           /\ n \div (a * b) = (n \div a) \div b
           /\ n % (a * b) = a * ((n \div a) % b) + (n % a)
<1>1. PICK q \in Int, r \in 0..(a - 1) : q = n \div a /\ r = n % a /\ n = a * q + r BY DivMod
<1>2. PICK p \in Int, s \in 0..(b - 1) : p = q \div b /\ s = q % b /\ q = b * p + s BY DivMod
<1>3. PICK m \in Nat \ {0} : m = a * b
  <2>1. a * b \in Nat /\ a * b # 0
    <3>1. a * 1 <= a * b BY ProductGrows
    <3>2. a * 1 = a /\ a * b \in Nat OBVIOUS
    <3>3. QED BY <3>1, <3>2
  <2>2. QED BY <2>1
<1>4. PICK t \in Nat : t = a * s BY <1>2
<1>5. t + r \in 0..(m - 1)
  <2>1. a * s <= a * (b - 1)
    <3>1. s \in Nat /\ b - 1 \in Nat /\ s <= b - 1 BY <1>2
    <3>2. QED BY <3>1, ProductGrows
  <2>2. a * (b - 1) = m - a BY <1>3
  <2>3. t <= m - a BY <1>4, <2>1, <2>2
  <2>4. QED BY <1>1, <1>3, <1>4, <2>3
<1>6. n = m * p + (t + r)
  <2>1. a * q = a * (b * p) + a * s BY <1>2
  <2>2. a * (b * p) = m * p BY <1>3
  <2>3. PICK aq \in Int, mp \in Int : aq = a * q /\ mp = m * p OBVIOUS
  <2>4. n = aq + r /\ aq = mp + t BY <1>1, <1>4, <2>1, <2>2, <2>3
  <2>5. n = mp + (t + r) BY <2>3, <2>4
  <2>6. QED BY <2>3, <2>5
<1>7. n \div m = p /\ n % m = t + r BY <1>5, <1>6, DivUnique
<1>8. a * b \in Nat \ {0} /\ n \div (a * b) = p /\ n % (a * b) = t + r BY <1>3, <1>7
<1>9. p = (n \div a) \div b /\ (n \div a) % b = s
  <2>1. q \div b = (n \div a) \div b /\ q % b = (n \div a) % b BY <1>1
  <2>2. QED BY <1>2, <2>1
<1>10. a * ((n \div a) % b) = t BY <1>4, <1>9
<1>11. a * ((n \div a) % b) + (n % a) = t + r
  <2>1. n % a = r BY <1>1
  <2>2. QED BY <1>10, <2>1
<1>12. QED BY <1>8, <1>9, <1>11

(* A division by a product is one after the other.                         *)
LEMMA DivDiv == ASSUME NEW n \in Int, NEW a \in Nat \ {0}, NEW b \in Nat \ {0}
                PROVE  n \div (a * b) = (n \div a) \div b
BY DivModProduct

(* What is below the divisor is the remainder.                             *)
LEMMA SmallMod == ASSUME NEW m \in Nat \ {0}, NEW n \in 0..(m - 1) PROVE n % m = n /\ n \div m = 0
<1>1. n = m * 0 + n OBVIOUS
<1>2. QED BY <1>1, DivUnique

(* A multiple of the divisor does not change the remainder.                *)
LEMMA ModMore == ASSUME NEW m \in Nat \ {0}, NEW n \in Int, NEW k \in Int PROVE (n + m * k) % m = n % m
<1>1. PICK q \in Int, r \in 0..(m - 1) : r = n % m /\ n = m * q + r BY DivMod
<1>2. n + m * k = m * (q + k) + r
  <2>1. m * (q + k) = m * q + m * k OBVIOUS
  <2>2. m * q \in Int /\ m * k \in Int OBVIOUS
  <2>3. QED BY <1>1, <2>1, <2>2
<1>3. n + m * k \in Int /\ q + k \in Int OBVIOUS
<1>4. QED BY <1>1, <1>2, <1>3, DivUnique

(* Remainders may be taken before a sum.                                   *)
LEMMA ModSum ==
    ASSUME NEW m \in Nat \ {0}, NEW a \in Int, NEW b \in Int, NEW c \in Int, a % m = b % m
    PROVE  (a + c) % m = (b + c) % m
<1>1. PICK p \in Int, q \in Int, r \in Int : a = m * p + r /\ b = m * q + r
  <2>1. PICK p \in Int, r \in 0..(m - 1) : r = a % m /\ a = m * p + r BY DivMod
  <2>2. PICK q \in Int, s \in 0..(m - 1) : s = b % m /\ b = m * q + s BY DivMod
  <2>3. r = s BY <2>1, <2>2
  <2>4. r \in Int OBVIOUS
  <2>5. QED BY <2>1, <2>2, <2>3, <2>4
<1>2. a + c = (b + c) + m * (p - q)
  <2>1. m * (p - q) = m * p - m * q OBVIOUS
  <2>2. m * p \in Int /\ m * q \in Int OBVIOUS
  <2>3. QED BY <1>1, <2>1, <2>2
<1>3. PICK d \in Int, k \in Int : d = b + c /\ k = p - q OBVIOUS
<1>4. (d + m * k) % m = d % m BY ModMore
<1>5. a + c = d + m * k BY <1>2, <1>3
<1>6. QED BY <1>3, <1>4, <1>5

-----------------------------------------------------------------------------
(* Numbers with a sign.                                                    *)
LEMMA Halves == ASSUME NEW bits \in Nat \ {0}
                PROVE  \E h \in Nat \ {0} : TwoTo[bits - 1] = h /\ TwoTo[bits] = 2 * h
<1>1. bits - 1 \in Nat /\ (bits - 1) + 1 = bits OBVIOUS
<1>2. QED BY <1>1, TwoToNext

(* What the low bits mean has the same low bits.                           *)
LEMMA SignedOf == ASSUME NEW bits \in Nat \ {0}, NEW n \in Int
                  PROVE  /\ Signed(n, bits) \in Int
                         /\ Signed(n, bits) % TwoTo[bits] = n % TwoTo[bits]
<1>1. PICK h \in Nat \ {0} : TwoTo[bits - 1] = h /\ TwoTo[bits] = 2 * h BY Halves
<1>2. PICK m \in Nat \ {0} : m = TwoTo[bits] /\ m = 2 * h BY <1>1
<1>3. PICK low \in 0..(m - 1) : low = n % m BY <1>2, DivMod
<1>4. Signed(n, bits) = IF low >= h THEN low - m ELSE low BY <1>1, <1>2, <1>3 DEF Signed
<1>5. low % m = low BY SmallMod
<1>6. (low - m) % m = low % m
  <2>1. low - m = low + m * (-1) /\ low \in Int /\ -1 \in Int OBVIOUS
  <2>2. (low + m * (-1)) % m = low % m BY <2>1, ModMore
  <2>3. QED BY <2>1, <2>2
<1>7. QED BY <1>2, <1>3, <1>4, <1>5, <1>6

(* There is one such number that fits.                                     *)
LEMMA SignedIs == ASSUME NEW bits \in Nat \ {0}, NEW n \in Int, NEW v \in Ints(bits),
                         n % TwoTo[bits] = v % TwoTo[bits]
                  PROVE  Signed(n, bits) = v
<1>1. PICK h \in Nat \ {0} : TwoTo[bits - 1] = h /\ TwoTo[bits] = 2 * h BY Halves
<1>2. PICK m \in Nat \ {0} : m = TwoTo[bits] /\ m = 2 * h BY <1>1
<1>3. v \in Int /\ -h <= v /\ v < h BY <1>1 DEF Ints
<1>4. Signed(n, bits) = IF n % m >= h THEN (n % m) - m ELSE n % m BY <1>1, <1>2 DEF Signed
<1>5. CASE v >= 0
  <2>1. v \in 0..(m - 1) BY <1>2, <1>3, <1>5
  <2>2. n % m = v BY <1>2, <2>1, SmallMod
  <2>3. QED BY <1>3, <1>4, <2>2
<1>6. CASE v < 0
  <2>1. v + m \in 0..(m - 1) BY <1>2, <1>3, <1>6
  <2>2. PICK u \in 0..(m - 1) : u = v + m BY <2>1
  <2>3. u % m = u BY SmallMod
  <2>4. (v + m * 1) % m = v % m
    <3>1. 1 \in Int /\ v \in Int BY <1>3
    <3>2. QED BY <3>1, ModMore
  <2>5. v + m * 1 = u BY <2>2
  <2>6. n % m = u BY <1>2, <2>3, <2>4, <2>5
  <2>7. u >= h /\ u - m = v BY <1>2, <1>3, <2>2
  <2>8. QED BY <1>4, <2>6, <2>7
<1>7. QED BY <1>3, <1>5, <1>6

-----------------------------------------------------------------------------
(* Positions: three numbers in a long.                                     *)
Three(high, middle, low, b, c) == high * (b * c) + middle * c + low

(* Three numbers put together are taken apart again.                       *)
LEMMA ThreeParts ==
    ASSUME NEW b \in Nat \ {0}, NEW c \in Nat \ {0},
           NEW high \in Nat, NEW middle \in 0..(b - 1), NEW low \in 0..(c - 1),
           NEW w, w = Three(high, middle, low, b, c)
    PROVE  /\ w \in Nat /\ w % c = low /\ (w \div c) % b = middle
           /\ w \div (b * c) = high /\ w \div (c * b) = high
<1>1. PICK q \in Nat : q = b * high + middle OBVIOUS
<1>2. w = c * q + low
  <2>1. c * q = c * (b * high) + c * middle BY <1>1
  <2>2. c * (b * high) = high * (b * c) /\ c * middle = middle * c OBVIOUS
  <2>3. PICK x \in Nat, y \in Nat : x = high * (b * c) /\ y = middle * c OBVIOUS
  <2>4. w = x + y + low /\ c * q = x + y BY <2>1, <2>2, <2>3 DEF Three
  <2>5. QED BY <2>3, <2>4
<1>3. w \in Nat BY <1>2
<1>4. w \div c = q /\ w % c = low BY <1>2, <1>3, DivUnique
<1>5. q \div b = high /\ q % b = middle
  <2>1. q \in Int /\ high \in Int OBVIOUS
  <2>2. QED BY <1>1, <2>1, DivUnique
<1>6. w \div (c * b) = (w \div c) \div b
  <2>1. w \in Int BY <1>3
  <2>2. QED BY <2>1, DivDiv
<1>7. c * b = b * c OBVIOUS
<1>8. QED BY <1>3, <1>4, <1>5, <1>6, <1>7

(* The widths of the fields of a position.                                 *)
LEMMA FieldWidths == {BitsXZ, BitsY} \subseteq Nat \ {0} /\ {BitsXZ, BitsY} \subseteq Nat
BY ConversionsAssumption

(* What Pack puts into a long is where ReadPosition shifts it from.        *)
LEMMA Packed ==
    ASSUME NEW high \in Int, NEW middle \in Int, NEW low \in Int,
           NEW middleBits \in {BitsXZ, BitsY}, NEW lowBits \in {BitsXZ, BitsY},
           NEW w, w = Pack(high, middle, low, middleBits, lowBits)
    PROVE  /\ w \in Nat
           /\ w % TwoTo[lowBits] = low % TwoTo[lowBits]
           /\ (w \div TwoTo[lowBits]) % TwoTo[middleBits] = middle % TwoTo[middleBits]
           /\ w \div TwoTo[middleBits + lowBits] = high % TwoTo[BitsXZ]
           /\ w \div TwoTo[lowBits + middleBits] = high % TwoTo[BitsXZ]
<1>1. PICK a \in Nat \ {0}, b \in Nat \ {0}, c \in Nat \ {0} :
         a = TwoTo[BitsXZ] /\ b = TwoTo[middleBits] /\ c = TwoTo[lowBits]
  BY FieldWidths, TwoToNext
<1>2. TwoTo[middleBits + lowBits] = b * c /\ TwoTo[lowBits + middleBits] = c * b
  <2>1. middleBits \in Nat /\ lowBits \in Nat BY FieldWidths
  <2>2. QED BY <1>1, <2>1, TwoToSum
<1>3. PICK h \in 0..(a - 1), m \in 0..(b - 1), l \in 0..(c - 1) : h = high % a /\ m = middle % b /\ l = low % c
  BY DivMod
<1>4. w = Three(h, m, l, b, c) BY <1>1, <1>2, <1>3 DEF Pack, Three
<1>5. h \in Nat OBVIOUS
<1>6. w \in Nat /\ w % c = l /\ (w \div c) % b = m /\ w \div (b * c) = h /\ w \div (c * b) = h
  BY <1>4, <1>5, ThreeParts
<1>7. QED BY <1>1, <1>2, <1>3, <1>6

(* A position is three numbers that fit their fields.                      *)
LEMMA PositionType == ASSUME NEW v \in Positions
                      PROVE  /\ v.x \in Ints(BitsXZ) /\ v.y \in Ints(BitsY) /\ v.z \in Ints(BitsXZ)
                             /\ v.x \in Int /\ v.y \in Int /\ v.z \in Int
                             /\ v = [x |-> v.x, y |-> v.y, z |-> v.z]
<1>1. \A n \in {BitsXZ, BitsY} : Ints(n) \subseteq Int
  <2>1. \A n \in {BitsXZ, BitsY} : TwoTo[n - 1] \in Nat BY FieldWidths, Halves
  <2>2. QED BY <2>1 DEF Ints
<1>2. QED BY <1>1 DEF Positions

(* A position that was written is read, with its three signs.              *)
LEMMA PositionWritten == ASSUME NEW v \in Positions PROVE ReadPosition(WritePosition(v)) = v
<1>1. PICK w : w = WritePosition(v) OBVIOUS
<1>2. w = Pack(v.x, v.y, v.z, BitsY, BitsXZ) BY <1>1 DEF WritePosition
<1>3. /\ w \in Nat /\ w % TwoTo[BitsXZ] = v.z % TwoTo[BitsXZ]
      /\ (w \div TwoTo[BitsXZ]) % TwoTo[BitsY] = v.y % TwoTo[BitsY]
      /\ w \div TwoTo[BitsY + BitsXZ] = v.x % TwoTo[BitsXZ]
  BY <1>2, PositionType, Packed
<1>4. PICK a \in Nat \ {0} : a = TwoTo[BitsXZ] BY FieldWidths, TwoToNext
<1>5. Signed(w \div TwoTo[BitsY + BitsXZ], BitsXZ) = v.x
  <2>1. PICK h \in 0..(a - 1) : h = v.x % a BY PositionType, DivMod
  <2>2. h % a = h BY SmallMod
  <2>3. h \in Int /\ h % TwoTo[BitsXZ] = v.x % TwoTo[BitsXZ] BY <1>4, <2>1, <2>2
  <2>4. Signed(h, BitsXZ) = v.x BY <2>3, PositionType, SignedIs, FieldWidths
  <2>5. QED BY <1>3, <1>4, <2>1, <2>4
<1>6. Signed(w \div TwoTo[BitsXZ], BitsY) = v.y
  <2>1. w \div a \in Int BY <1>3, DivMod
  <2>2. PICK q \in Int : q = w \div TwoTo[BitsXZ] BY <1>4, <2>1
  <2>3. q % TwoTo[BitsY] = v.y % TwoTo[BitsY] BY <1>3, <2>2
  <2>4. Signed(q, BitsY) = v.y BY <2>3, PositionType, SignedIs, FieldWidths
  <2>5. QED BY <2>2, <2>4
<1>7. Signed(w, BitsXZ) = v.z
  <2>1. w \in Int BY <1>3
  <2>2. QED BY <1>3, <2>1, PositionType, SignedIs, FieldWidths
<1>8. ReadPosition(w) = [x |-> v.x, y |-> v.y, z |-> v.z] BY <1>5, <1>6, <1>7 DEF ReadPosition
<1>9. QED BY <1>1, <1>8, PositionType

(* Every long of three numbers is what is written of the position that is  *)
(* read of it.                                                             *)
LEMMA LongWritten ==
    ASSUME NEW w \in Nat, w \div TwoTo[BitsY + BitsXZ] < TwoTo[BitsXZ]
    PROVE  WritePosition(ReadPosition(w)) = w
<1>1. PICK a \in Nat \ {0}, b \in Nat \ {0} : a = TwoTo[BitsXZ] /\ b = TwoTo[BitsY]
  BY FieldWidths, TwoToNext
<1>2. TwoTo[BitsY + BitsXZ] = b * a BY <1>1, FieldWidths, TwoToSum
<1>3. PICK q \in Int, l \in 0..(a - 1) : q = w \div a /\ l = w % a /\ w = a * q + l
  <2>1. w \in Int OBVIOUS
  <2>2. QED BY <2>1, DivMod
<1>4. PICK h \in Int, m \in 0..(b - 1) : h = q \div b /\ m = q % b /\ q = b * h + m BY DivMod
<1>5. w \div (b * a) = h
  <2>1. w \div (a * b) = (w \div a) \div b
    <3>1. w \in Int OBVIOUS
    <3>2. QED BY <3>1, DivDiv
  <2>2. a * b = b * a OBVIOUS
  <2>3. QED BY <1>3, <1>4, <2>1, <2>2
<1>6. h \in 0..(a - 1)
  <2>1. h < a BY <1>1, <1>2, <1>5
  <2>2. q >= 0
    <3> SUFFICES ASSUME q <= -1 PROVE FALSE OBVIOUS
    <3>1. PICK d \in Nat : -q = d + 1
      <4>1. -q - 1 \in Nat /\ -q = (-q - 1) + 1 OBVIOUS
      <4>2. QED BY <4>1
    <3>2. a * q = -(a * d) - a BY <3>1
    <3>3. a * d \in Nat OBVIOUS
    <3>4. QED BY <1>3, <3>2, <3>3
  <2>3. h >= 0
    <3> SUFFICES ASSUME h <= -1 PROVE FALSE OBVIOUS
    <3>1. PICK d \in Nat : -h = d + 1
      <4>1. -h - 1 \in Nat /\ -h = (-h - 1) + 1 OBVIOUS
      <4>2. QED BY <4>1
    <3>2. b * h = -(b * d) - b BY <3>1
    <3>3. b * d \in Nat OBVIOUS
    <3>4. QED BY <1>4, <2>2, <3>2, <3>3
  <2>4. QED BY <2>1, <2>3
<1>7. PICK x : x = Signed(h, BitsXZ) OBVIOUS
<1>8. PICK y : y = Signed(q, BitsY) OBVIOUS
<1>9. PICK z : z = Signed(w, BitsXZ) OBVIOUS
<1>10. x % a = h
  <2>1. h \in Int /\ h % a = h BY <1>6, SmallMod
  <2>2. x % a = h % a BY <1>1, <1>7, <2>1, SignedOf, FieldWidths
  <2>3. QED BY <2>1, <2>2
<1>11. y % b = m BY <1>1, <1>4, <1>8, SignedOf, FieldWidths
<1>12. z % a = l
  <2>1. w \in Int OBVIOUS
  <2>2. z % a = w % a BY <1>1, <1>9, <2>1, SignedOf, FieldWidths
  <2>3. QED BY <1>3, <2>2
<1>13. ReadPosition(w) = [x |-> x, y |-> y, z |-> z]
  BY <1>1, <1>2, <1>3, <1>5, <1>7, <1>8, <1>9 DEF ReadPosition
<1>14. WritePosition(ReadPosition(w)) = h * (b * a) + m * a + l
  <2>1. PICK v : v = [x |-> x, y |-> y, z |-> z] OBVIOUS
  <2>2. v.x = x /\ v.y = y /\ v.z = z BY <2>1
  <2>3. WritePosition(v) = Pack(x, y, z, BitsY, BitsXZ) BY <2>2 DEF WritePosition
  <2>4. Pack(x, y, z, BitsY, BitsXZ) = h * (b * a) + m * a + l
    BY <1>1, <1>2, <1>10, <1>11, <1>12 DEF Pack
  <2>5. QED BY <1>13, <2>1, <2>3, <2>4
<1>15. h * (b * a) + m * a + l = w
  <2>1. a * q = a * (b * h) + a * m BY <1>4
  <2>2. a * (b * h) = h * (b * a) /\ a * m = m * a OBVIOUS
  <2>3. PICK u \in Int, v \in Int : u = h * (b * a) /\ v = m * a OBVIOUS
  <2>4. a * q = u + v BY <2>1, <2>2, <2>3
  <2>5. w = u + v + l BY <1>3, <2>3, <2>4
  <2>6. QED BY <2>3, <2>5
<1>16. QED BY <1>14, <1>15

-----------------------------------------------------------------------------
(* Groups of bits.                                                         *)
LEMMA IntWidth == /\ IntBits \in Nat \ {0} /\ GroupBits \in Nat \ {0} /\ MaxLength \in Nat \ {0}
                  /\ IntBits <= GroupBits * MaxLength
BY ConversionsAssumption

(* The weights of the groups, one after the other.                         *)
LEMMA WeightNext == /\ Radix \in Nat /\ Radix >= 2 /\ Weight(0) = 1
                    /\ \A k \in Nat : Weight(k) \in Nat \ {0} /\ Weight(k + 1) = Weight(k) * Radix
<1>1. Radix \in Nat /\ Radix >= 2
  <2>1. PICK h \in Nat \ {0} : TwoTo[GroupBits] = 2 * h BY IntWidth, Halves
  <2>2. QED BY <2>1 DEF Radix
<1>2. Weight(0) = 1
  <2>1. GroupBits * 0 = 0 BY IntWidth
  <2>2. QED BY <2>1, TwoToNext DEF Weight
<1>3. ASSUME NEW k \in Nat PROVE Weight(k) \in Nat \ {0} /\ Weight(k + 1) = Weight(k) * Radix
  <2>1. PICK n \in Nat : n = GroupBits * k BY IntWidth
  <2>2. GroupBits * (k + 1) = n + GroupBits BY <2>1, IntWidth
  <2>3. TwoTo[n + GroupBits] = TwoTo[n] * TwoTo[GroupBits] BY <2>1, IntWidth, TwoToSum
  <2>4. TwoTo[n] \in Nat \ {0} BY TwoToNext
  <2>5. QED BY <2>1, <2>2, <2>3, <2>4 DEF Weight, Radix
<1>4. QED BY <1>1, <1>2, <1>3

(* A higher group does not weigh less.                                     *)
LEMMA WeightGrows == ASSUME NEW j \in Nat, NEW k \in Nat, j <= k PROVE Weight(j) <= Weight(k)
<1>1. GroupBits * j <= GroupBits * k /\ GroupBits * j \in Nat /\ GroupBits * k \in Nat
  <2>1. GroupBits \in Nat BY IntWidth
  <2>2. QED BY <2>1, ProductGrows
<1>2. QED BY <1>1, TwoToGrows DEF Weight

(* An int fits the groups there is room for.                               *)
LEMMA UnsignedType == ASSUME NEW n \in Int
                      PROVE  Unsigned(n) \in Nat /\ Unsigned(n) < TwoTo[IntBits] /\ Unsigned(n) < Weight(MaxLength)
<1>1. PICK m \in Nat \ {0} : m = TwoTo[IntBits] BY IntWidth, TwoToNext
<1>2. n % m \in 0..(m - 1) BY DivMod
<1>3. TwoTo[IntBits] <= TwoTo[GroupBits * MaxLength]
  <2>1. IntBits \in Nat /\ GroupBits * MaxLength \in Nat BY IntWidth
  <2>2. QED BY <2>1, IntWidth, TwoToGrows
<1>4. Weight(MaxLength) \in Nat BY IntWidth, WeightNext
<1>5. m <= Weight(MaxLength) BY <1>1, <1>3 DEF Weight
<1>6. QED BY <1>1, <1>2, <1>4, <1>5 DEF Unsigned

IsNeeded(n, k) == Unsigned(n) < Weight(k) /\ (k > 1 => Unsigned(n) >= Weight(k - 1))

(* The shortest form of an int has one length.                             *)
LEMMA NeededIs == ASSUME NEW n \in Int
                  PROVE  /\ Needed(n) \in 1..MaxLength /\ IsNeeded(n, Needed(n))
                         /\ \A k \in 1..MaxLength : IsNeeded(n, k) => k = Needed(n)
<1>1. PICK u \in Nat : u = Unsigned(n) /\ u < Weight(MaxLength) BY UnsignedType
<1>2. MaxLength \in Nat \ {0} BY IntWidth
<1> DEFINE T == {k \in 1..MaxLength : u < Weight(k)}
<1>3. PICK k \in T : \A j \in T : k <= j
  <2>1. T \in SUBSET Nat BY <1>2
  <2>2. MaxLength \in T BY <1>1, <1>2
  <2>3. T # {} BY <2>2
  <2> HIDE DEF T
  <2>4. QED BY <2>1, <2>3, Smallest
<1>4. k \in 1..MaxLength /\ IsNeeded(n, k)
  <2>1. k \in 1..MaxLength /\ u < Weight(k) OBVIOUS
  <2>2. ASSUME k > 1 PROVE u >= Weight(k - 1)
    <3>1. k - 1 \in 1..MaxLength /\ k - 1 \in Nat BY <1>2, <2>1, <2>2
    <3>2. k - 1 \notin T BY <1>2, <1>3, <2>1
    <3>3. Weight(k - 1) \in Nat BY <3>1, WeightNext
    <3>4. QED BY <3>1, <3>2, <3>3
  <2>3. QED BY <1>1, <2>1, <2>2 DEF IsNeeded
<1>5. ASSUME NEW i \in 1..MaxLength, NEW j \in 1..MaxLength, IsNeeded(n, i), IsNeeded(n, j)
      PROVE  ~(i < j)
  <2> SUFFICES ASSUME i < j PROVE FALSE OBVIOUS
  <2>1. i \in Nat /\ j \in Nat /\ j - 1 \in Nat /\ i <= j - 1 /\ j > 1 BY <1>2
  <2>2. Weight(i) <= Weight(j - 1) BY <2>1, WeightGrows
  <2>3. u < Weight(i) /\ u >= Weight(j - 1) BY <1>1, <1>5, <2>1 DEF IsNeeded
  <2>4. Weight(i) \in Nat /\ Weight(j - 1) \in Nat BY <2>1, WeightNext
  <2>5. QED BY <2>2, <2>3, <2>4
<1>6. Needed(n) = CHOOSE i \in 1..MaxLength : IsNeeded(n, i) BY DEF Needed, IsNeeded
<1>7. Needed(n) \in 1..MaxLength /\ IsNeeded(n, Needed(n)) BY <1>4, <1>6
<1>8. ASSUME NEW i \in 1..MaxLength, IsNeeded(n, i) PROVE i = Needed(n)
  <2>1. ~(i < Needed(n)) /\ ~(Needed(n) < i) BY <1>5, <1>7, <1>8
  <2>2. QED BY <1>2, <1>7, <2>1
<1>9. QED BY <1>7, <1>8

(* Every byte of a VarInt but the last has the flag.                       *)
LEMMA GroupsType ==
    ASSUME NEW n \in Int, NEW l \in 1..MaxLength
    PROVE  /\ Groups(n, l) \in Seq(Int) /\ Len(Groups(n, l)) = l
           /\ \A i \in 1..l : /\ Groups(n, l)[i] >= Radix <=> i < l
                              /\ Groups(n, l)[i] % Radix = (Unsigned(n) \div Weight(i - 1)) % Radix
<1>1. l \in Nat BY IntWidth
<1>2. PICK r \in Nat \ {0} : r = Radix BY WeightNext
<1>3. ASSUME NEW i \in 1..l
      PROVE  LET g == Groups(n, l)[i]
             IN /\ g \in Int /\ (g >= Radix <=> i < l)
                /\ g % Radix = (Unsigned(n) \div Weight(i - 1)) % Radix
  <2>1. i - 1 \in Nat /\ i \in Nat BY <1>1
  <2>2. PICK w \in Nat \ {0} : w = Weight(i - 1) BY <2>1, WeightNext
  <2>3. PICK q \in Int : q = Unsigned(n) \div w
    <3>1. Unsigned(n) \in Int BY UnsignedType
    <3>2. QED BY <3>1, DivMod
  <2>4. PICK a \in 0..(r - 1) : a = q % r BY DivMod
  <2>5. Groups(n, l)[i] = a + (IF i < l THEN r ELSE 0) BY <1>2, <2>2, <2>3, <2>4 DEF Groups
  <2>6. (a + r) % r = a
    <3>1. (a + r * 1) % r = a % r
      <4>1. a \in Int /\ 1 \in Int OBVIOUS
      <4>2. QED BY <4>1, ModMore
    <3>2. a % r = a BY SmallMod
    <3>3. a + r * 1 = a + r OBVIOUS
    <3>4. QED BY <3>1, <3>2, <3>3
  <2>7. a % r = a BY SmallMod
  <2>8. CASE i < l BY <1>2, <2>2, <2>3, <2>4, <2>5, <2>6, <2>8
  <2>9. CASE ~(i < l) BY <1>2, <2>2, <2>3, <2>4, <2>5, <2>7, <2>9
  <2>10. QED BY <2>8, <2>9
<1>4. Groups(n, l) = [i \in 1..l |-> Groups(n, l)[i]] BY DEF Groups
<1>5. Groups(n, l) \in Seq(Int) /\ Len(Groups(n, l)) = l
  <2>1. PICK g : g = Groups(n, l) OBVIOUS
  <2>2. g = [i \in 1..l |-> g[i]] BY <1>4, <2>1
  <2>3. \A i \in 1..l : g[i] \in Int BY <1>3, <2>1
  <2>4. g \in Seq(Int) /\ Len(g) = l BY <1>1, <2>2, <2>3
  <2>5. QED BY <2>1, <2>4
<1>6. QED BY <1>3, <1>5

(* The low groups are put together one by one.                             *)
LEMMA NextGroup ==
    ASSUME NEW u \in Nat, NEW k \in Nat
    PROVE  u % Weight(k + 1) = (u % Weight(k)) + ((u \div Weight(k)) % Radix) * Weight(k)
<1>1. PICK w \in Nat \ {0}, r \in Nat \ {0} : w = Weight(k) /\ r = Radix /\ Weight(k + 1) = w * r
  BY WeightNext
<1>2. u % (w * r) = w * ((u \div w) % r) + (u % w)
  <2>1. u \in Int OBVIOUS
  <2>2. QED BY <2>1, DivModProduct
<1>3. PICK a \in Int, b \in Int : a = (u \div w) % r /\ b = u % w
  <2>1. u \in Int OBVIOUS
  <2>2. u \div w \in Int /\ u % w \in Int BY <2>1, DivMod
  <2>3. PICK q \in Int : q = u \div w BY <2>2
  <2>4. q % r \in Int BY DivMod
  <2>5. QED BY <2>2, <2>3, <2>4
<1>4. w * a + b = b + a * w OBVIOUS
<1>5. QED BY <1>1, <1>2, <1>3, <1>4

-----------------------------------------------------------------------------
(* The inductive invariants.  A VarInt is read to where the bytes without  *)
(* a flag begin; what is decoded of it are the low bits of the int, and    *)
(* what is left to write the high ones.                                    *)
Reading == /\ readed = 0 /\ result = 0
           /\ data \in Seq(Int) /\ wire \in Seq(Int)
           /\ \E l \in Needed(value)..MaxLength : data \o wire = Groups(value, l) /\ Len(data) < l

Decoding ==
    /\ result \in Int
    /\ \E l \in Needed(value)..MaxLength :
          /\ data = Groups(value, l) /\ readed \in 0..(l - 1)
          /\ result % TwoTo[IntBits] = (Unsigned(value) % Weight(readed)) % TwoTo[IntBits]

Writing ==
    /\ rest \in Int /\ buff \in Seq(Int) /\ Len(buff) <= MaxLength
    /\ value < 0 => rest < 0
    /\ value >= 0 => /\ rest = value \div Weight(Len(buff))
                     /\ Len(buff) > 0 => rest # 0
                     /\ \A i \in 1..Len(buff) :
                           buff[i] = ((value \div Weight(i - 1)) % Radix) + Radix

VarIntInv ==
    kind = "VarInt" =>
        /\ value \in Ints(IntBits)
        /\ pc \in {"start", "decode", "write", "written", "writeOverrun"}
        /\ pc = "start" => Reading
        /\ pc = "decode" => Decoding
        /\ pc \in {"start", "decode"} => buff = << >>
        /\ pc \in {"write", "written", "writeOverrun"} => result = value
        /\ pc = "write" => Writing
        /\ pc = "written" => value >= 0 /\ buff = Groups(value, Needed(value))
        /\ pc = "writeOverrun" => value < 0

PositionInv ==
    kind = "Position" =>
        /\ value \in Positions
        /\ \/ wire = Pack(value.x, value.y, value.z, BitsY, BitsXZ)
           \/ wire = Pack(value.x, value.z, value.y, BitsXZ, BitsY)
        /\ pc \in {"start", "read", "written"}
        /\ pc \in {"read", "written"} => result = ReadPosition(wire)
        /\ pc = "written" => rest = WritePosition(result)

-----------------------------------------------------------------------------
(* The steps preserve them.                                                *)
LEMMA IntsType == /\ Ints(IntBits) \subseteq Int /\ TwoTo[IntBits] \in Nat \ {0}
                  /\ \A v \in Ints(IntBits) : v >= 0 => Unsigned(v) = v /\ v < Weight(MaxLength)
<1>1. PICK h \in Nat \ {0} : TwoTo[IntBits - 1] = h /\ TwoTo[IntBits] = 2 * h BY IntWidth, Halves
<1>2. Ints(IntBits) \subseteq Int BY <1>1 DEF Ints
<1>3. TwoTo[IntBits] \in Nat \ {0} BY <1>1
<1>4. ASSUME NEW v \in Ints(IntBits), v >= 0 PROVE Unsigned(v) = v /\ v < Weight(MaxLength)
  <2>1. PICK m \in Nat \ {0} : m = TwoTo[IntBits] BY <1>3
  <2>2. v \in 0..(m - 1) BY <1>1, <1>2, <1>4, <2>1 DEF Ints
  <2>3. v % m = v BY <2>2, SmallMod
  <2>4. Unsigned(v) = v BY <2>1, <2>3 DEF Unsigned
  <2>5. v \in Int BY <1>2
  <2>6. QED BY <2>4, <2>5, UnsignedType
<1>5. QED BY <1>2, <1>3, <1>4

(* It holds in the beginning.                                              *)
LEMMA VarIntInit == Init => VarIntInv
<1> SUFFICES ASSUME Init, kind = "VarInt" PROVE VarIntInv BY DEF VarIntInv
<1>1. value \in Ints(IntBits) BY DEF Init, Wires
<1>2. value \in Int BY <1>1, IntsType
<1>3. PICK l \in Needed(value)..MaxLength : wire = Groups(value, l) BY DEF Init
<1>4. l \in 1..MaxLength BY <1>2, NeededIs, IntWidth
<1>5. wire \in Seq(Int) /\ Len(wire) = l BY <1>2, <1>3, <1>4, GroupsType
<1>6. data = << >> /\ readed = 0 /\ result = 0 /\ pc = "start" /\ buff = << >> BY DEF Init
<1>7. data \in Seq(Int) /\ data \o wire = wire /\ Len(data) = 0
  <2>1. << >> \in Seq(Int) /\ Len(<< >>) = 0 OBVIOUS
  <2>2. \A s \in Seq(Int) : << >> \o s = s OBVIOUS
  <2>3. QED BY <1>5, <1>6, <2>1, <2>2
<1>8. Reading
  <2>1. data \o wire = Groups(value, l) /\ Len(data) < l BY <1>3, <1>4, <1>7
  <2>2. QED BY <1>5, <1>6, <1>7, <2>1 DEF Reading
<1>9. QED BY <1>1, <1>6, <1>8 DEF VarIntInv

(* The byte that is read next is the next group.                           *)
LEMMA ByteRead == ASSUME VarIntInv, kind = "VarInt", ReadByte PROVE VarIntInv'
<1>1. pc = "start" /\ wire # << >> /\ Reading /\ value \in Ints(IntBits) /\ buff = << >>
  BY DEF ReadByte, VarIntInv
<1>2. value \in Int BY <1>1, IntsType
<1>3. PICK l \in Needed(value)..MaxLength : data \o wire = Groups(value, l) /\ Len(data) < l
  BY <1>1 DEF Reading
<1>4. PICK d \in Seq(Int), w \in Seq(Int) : d = data /\ w = wire BY <1>1 DEF Reading
<1>5. l \in 1..MaxLength BY <1>2, NeededIs, IntWidth
<1>6. PICK g \in Seq(Int) :
         /\ g = Groups(value, l) /\ Len(g) = l /\ g = d \o w
         /\ \A i \in 1..l : g[i] >= Radix <=> i < l
  BY <1>2, <1>3, <1>4, <1>5, GroupsType
<1>7. Len(data) # MaxLength BY <1>3, <1>4, <1>5
<1>8. UNCHANGED <<kind, value, readed, result, buff>> /\ wire' = Tail(w)
  BY <1>4 DEF ReadByte
<1>9. data' = Append(d, Head(w)) /\ pc' = IF Head(w) >= Radix THEN "start" ELSE "decode"
  BY <1>4, <1>7 DEF ReadByte
<1>10. /\ Head(w) \in Int /\ Tail(w) \in Seq(Int) /\ Append(d, Head(w)) \in Seq(Int)
       /\ Len(Append(d, Head(w))) = Len(d) + 1 /\ Append(d, Head(w)) \o Tail(w) = d \o w
       /\ (d \o w)[Len(d) + 1] = Head(w)
  <2>1. \A s, t \in Seq(Int) : t # << >> =>
           /\ Head(t) \in Int /\ Tail(t) \in Seq(Int) /\ Append(s, Head(t)) \in Seq(Int)
           /\ Len(Append(s, Head(t))) = Len(s) + 1 /\ Append(s, Head(t)) \o Tail(t) = s \o t
    BY SMTT(30)
  <2>2. \A s, t \in Seq(Int) : t # << >> => (s \o t)[Len(s) + 1] = Head(t) OBVIOUS
  <2>3. QED BY <1>1, <1>4, <2>1, <2>2
<1>11. Len(d) + 1 \in 1..l /\ Len(d) \in Nat BY <1>3, <1>4, <1>5
<1>12. Head(w) >= Radix <=> Len(d) + 1 < l BY <1>6, <1>10, <1>11
<1>13. CASE Head(w) >= Radix
  <2>1. Len(data') < l BY <1>9, <1>10, <1>12, <1>13
  <2>2. data' \in Seq(Int) /\ wire' \in Seq(Int) /\ data' \o wire' = Groups(value', l)
    BY <1>6, <1>8, <1>9, <1>10
  <2>3. readed' = 0 /\ result' = 0 BY <1>1, <1>8 DEF Reading
  <2>4. Reading' BY <1>8, <2>1, <2>2, <2>3 DEF Reading
  <2>5. QED BY <1>1, <1>8, <1>9, <1>13, <2>4 DEF VarIntInv
<1>14. CASE ~(Head(w) >= Radix)
  <2>1. Len(d) + 1 = l BY <1>11, <1>12, <1>14
  <2>2. Tail(w) = << >>
    <3>1. \A s, t \in Seq(Int) : t # << >> /\ Len(s \o t) = Len(s) + 1 => Tail(t) = << >> OBVIOUS
    <3>2. QED BY <1>1, <1>4, <1>6, <2>1, <3>1
  <2>3. data' = Groups(value, l)
    <3>1. \A s \in Seq(Int) : s \o << >> = s OBVIOUS
    <3>2. QED BY <1>6, <1>9, <1>10, <2>2, <3>1
  <2>4. readed' = 0 /\ result' = 0 BY <1>1, <1>8 DEF Reading
  <2>5. Unsigned(value) % Weight(0) = 0
    <3>1. PICK u \in Nat : u = Unsigned(value) BY <1>2, UnsignedType
    <3>2. u = 1 * u + 0 /\ 0 \in 0..(1 - 1) /\ 1 \in Nat \ {0} OBVIOUS
    <3>3. u % 1 = 0 BY <3>2, DivUnique
    <3>4. QED BY <3>1, <3>3, WeightNext
  <2>6. 0 \in 0..(l - 1) BY <1>5
  <2>7. Decoding' BY <1>8, <2>3, <2>4, <2>5, <2>6 DEF Decoding
  <2>8. QED BY <1>1, <1>8, <1>9, <1>14, <2>7 DEF VarIntInv
<1>15. QED BY <1>13, <1>14

(* A group more is decoded; the last one completes the int.                *)
LEMMA ByteDecoded == ASSUME VarIntInv, kind = "VarInt", DecodeByte PROVE VarIntInv'
<1>1. pc = "decode" /\ Decoding /\ value \in Ints(IntBits) /\ buff = << >>
  BY DEF DecodeByte, VarIntInv
<1>2. value \in Int /\ TwoTo[IntBits] \in Nat \ {0} BY <1>1, IntsType
<1>3. PICK m \in Nat \ {0}, u \in Nat, k \in Nat, old \in Int, l \in Needed(value)..MaxLength :
         /\ m = TwoTo[IntBits] /\ u = Unsigned(value) /\ k = readed /\ old = result
         /\ data = Groups(value, l) /\ k \in 0..(l - 1) /\ old % m = (u % Weight(k)) % m
  <2>1. PICK l \in Needed(value)..MaxLength :
           /\ data = Groups(value, l) /\ readed \in 0..(l - 1)
           /\ result % TwoTo[IntBits] = (Unsigned(value) % Weight(readed)) % TwoTo[IntBits]
    BY <1>1 DEF Decoding
  <2>2. result \in Int /\ readed \in Nat BY <1>1, <2>1 DEF Decoding
  <2>3. QED BY <1>2, <2>1, <2>2, UnsignedType
<1>4. l \in 1..MaxLength /\ k + 1 \in 1..l BY <1>2, <1>3, NeededIs, IntWidth
<1> DEFINE byte == data[readed + 1]
<1>5. /\ byte >= Radix <=> k + 1 < l
      /\ byte % Radix = (u \div Weight(k)) % Radix
  <2>1. /\ data[k + 1] >= Radix <=> k + 1 < l
        /\ data[k + 1] % Radix = (Unsigned(value) \div Weight((k + 1) - 1)) % Radix
    BY <1>2, <1>3, <1>4, GroupsType
  <2>2. (k + 1) - 1 = k OBVIOUS
  <2>3. QED BY <1>3, <2>1, <2>2
<1>6. /\ result' = Signed(result + At(byte % Radix, readed), IntBits) /\ readed' = readed + 1
      /\ IF byte >= Radix THEN UNCHANGED <<pc, rest>> ELSE pc' = "write" /\ rest' = result'
      /\ UNCHANGED <<kind, value, data, buff>>
  BY DEF DecodeByte
<1> HIDE DEF byte
<1>7. PICK w \in Nat \ {0} : w = Weight(k) BY WeightNext
<1>8. PICK a \in Int, b \in Int : a = u % w /\ b = ((u \div w) % Radix) * w
  <2>1. u \in Int /\ u % w \in Int /\ u \div w \in Int
    <3>1. u \in Int OBVIOUS
    <3>2. QED BY <3>1, DivMod
  <2>2. PICK q \in Int, r \in Nat \ {0} : q = u \div w /\ r = Radix
    <3>1. Radix \in Nat \ {0} BY WeightNext
    <3>2. QED BY <2>1, <3>1
  <2>3. q % r \in Int BY DivMod
  <2>4. (q % r) * w \in Int BY <2>3
  <2>5. QED BY <2>1, <2>2, <2>4
<1>9. At(byte % Radix, readed) = b BY <1>3, <1>5, <1>7, <1>8 DEF At
<1>10. u % Weight(k + 1) = a + b BY <1>7, <1>8, NextGroup
<1>11. (old + b) % m = (a + b) % m
  <2>1. old % m = a % m BY <1>3, <1>7, <1>8
  <2>2. QED BY <2>1, ModSum
<1>12. result' \in Int /\ result' % m = (u % Weight(k + 1)) % m /\ result' = Signed(old + b, IntBits)
  <2>1. result' = Signed(old + b, IntBits) BY <1>3, <1>6, <1>9
  <2>2. old + b \in Int OBVIOUS
  <2>3. Signed(old + b, IntBits) \in Int /\ Signed(old + b, IntBits) % m = (old + b) % m
    BY <1>3, <2>2, SignedOf, IntWidth
  <2>4. QED BY <1>10, <1>11, <2>1, <2>3
<1>13. CASE k + 1 < l
  <2>1. pc' = "decode" BY <1>1, <1>5, <1>6, <1>13
  <2>2. readed' = k + 1 /\ k + 1 \in 0..(l - 1) BY <1>3, <1>6, <1>13
  <2>3. Decoding' BY <1>3, <1>6, <1>12, <2>2 DEF Decoding
  <2>4. QED BY <1>1, <1>6, <2>1, <2>3 DEF VarIntInv
<1>14. CASE ~(k + 1 < l)
  <2>1. pc' = "write" /\ rest' = result' BY <1>5, <1>6, <1>14
  <2>2. k + 1 = l BY <1>3, <1>4, <1>14
  <2>3. u % Weight(l) = u
    <3>1. Weight(Needed(value)) <= Weight(l)
      <4>1. Needed(value) \in Nat /\ l \in Nat /\ Needed(value) <= l BY <1>2, <1>4, NeededIs, IntWidth
      <4>2. QED BY <4>1, WeightGrows
    <3>2. u < Weight(Needed(value)) BY <1>2, <1>3, NeededIs DEF IsNeeded
    <3>3. Weight(l) \in Nat \ {0} /\ Weight(Needed(value)) \in Nat
      <4>1. Needed(value) \in Nat /\ l \in Nat BY <1>2, <1>4, NeededIs, IntWidth
      <4>2. QED BY <4>1, WeightNext
    <3>4. PICK x \in Nat \ {0} : x = Weight(l) /\ u \in 0..(x - 1) BY <3>1, <3>2, <3>3
    <3>5. u % x = u BY <3>4, SmallMod
    <3>6. QED BY <3>4, <3>5
  <2>4. (old + b) % m = value % m
    <3>1. (old + b) % m = u % m BY <1>10, <1>11, <2>2, <2>3
    <3>2. u = value % m BY <1>3 DEF Unsigned
    <3>3. PICK x \in 0..(m - 1) : x = value % m BY <1>2, DivMod
    <3>4. x % m = x BY SmallMod
    <3>5. QED BY <3>1, <3>2, <3>3, <3>4
  <2>5. Signed(old + b, IntBits) = value
    <3>1. old + b \in Int OBVIOUS
    <3>2. QED BY <1>1, <1>3, <2>4, <3>1, SignedIs, IntWidth
  <2>6. rest' = value /\ result' = value BY <1>12, <2>1, <2>5
  <2>7. Writing'
    <3>1. buff' = << >> /\ Len(<< >>) = 0 /\ << >> \in Seq(Int) BY <1>1, <1>6
    <3>2. value \div Weight(0) = value
      <4>1. value = 1 * value + 0 /\ 0 \in 0..(1 - 1) /\ 1 \in Nat \ {0} BY <1>2
      <4>2. value \div 1 = value BY <1>2, <4>1, DivUnique
      <4>3. QED BY <4>2, WeightNext
    <3>3. value' = value BY <1>6
    <3>4. QED BY <1>2, <2>6, <3>1, <3>2, <3>3, IntWidth DEF Writing
  <2>8. QED BY <1>1, <1>6, <2>1, <2>6, <2>7 DEF VarIntInv
<1>15. QED BY <1>13, <1>14

(* What is left of an int that is not negative becomes zero behind its last *)
(* group; what is left of a negative one never does.                       *)
LEMMA GroupWritten == ASSUME VarIntInv, kind = "VarInt", WriteGroup PROVE VarIntInv'
<1>1. pc = "write" /\ Writing /\ value \in Ints(IntBits) /\ result = value
  BY DEF WriteGroup, VarIntInv
<1>2. value \in Int BY <1>1, IntsType
<1>3. UNCHANGED <<kind, value, data, result>> BY DEF WriteGroup
<1>4. PICK s \in Seq(Int), j \in Nat, n \in Int : s = buff /\ j = Len(buff) /\ n = rest /\ j <= MaxLength
  BY <1>1 DEF Writing
<1>5. PICK r \in Nat \ {0} : r = Radix /\ r >= 2 BY WeightNext
<1>6. PICK w \in Nat \ {0} : w = Weight(j) /\ Weight(j + 1) = w * r BY <1>5, WeightNext
<1>7. value >= 0 => /\ n = value \div w /\ (j > 0 => n # 0)
                    /\ \A i \in 1..j : s[i] = ((value \div Weight(i - 1)) % Radix) + Radix
  BY <1>1, <1>4, <1>6 DEF Writing
<1>8. CASE j = MaxLength
  <2>1. pc' = "writeOverrun" BY <1>4, <1>8 DEF WriteGroup
  <2>2. value < 0
    <3> SUFFICES ASSUME value >= 0 PROVE FALSE BY <1>2
    <3>1. value \in 0..(w - 1) BY <1>1, <1>2, <1>6, <1>8, IntsType
    <3>2. value \div w = 0 BY <3>1, SmallMod
    <3>3. j > 0 BY <1>8, IntWidth
    <3>4. QED BY <1>7, <3>2, <3>3
  <2>3. QED BY <1>1, <1>3, <2>1, <2>2 DEF VarIntInv
<1>9. CASE j # MaxLength
  <2>1. j + 1 <= MaxLength /\ j + 1 \in 1..MaxLength BY <1>4, <1>9, IntWidth
  <2>2. PICK next \in Int, low \in 0..(r - 1) : next = n \div r /\ low = n % r /\ n = r * next + low
    BY DivMod
  <2> DEFINE byte == low + (IF next # 0 THEN r ELSE 0)
  <2>3. buff' = Append(s, byte) /\ rest' = next /\ pc' = IF next # 0 THEN "write" ELSE "written"
    BY <1>4, <1>5, <1>9, <2>2 DEF WriteGroup, Flag
  <2>4. byte \in Int OBVIOUS
  <2>5. byte = IF next # 0 THEN low + r ELSE low OBVIOUS
  <2> HIDE DEF byte
  <2>6. /\ Append(s, byte) \in Seq(Int) /\ Len(Append(s, byte)) = j + 1
        /\ Append(s, byte)[j + 1] = byte /\ \A i \in 1..j : Append(s, byte)[i] = s[i]
    BY <1>4, <2>4
  <2>7. CASE value < 0
    <3>1. n < 0 BY <1>1, <1>4, <2>7 DEF Writing
    <3>2. next < 0
      <4> SUFFICES ASSUME next >= 0 PROVE FALSE OBVIOUS
      <4>1. r * next >= 0 OBVIOUS
      <4>2. QED BY <2>2, <3>1, <4>1
    <3>3. pc' = "write" BY <2>3, <3>2
    <3>4. ~(value >= 0) BY <1>2, <2>7
    <3>5. Writing' BY <1>3, <2>1, <2>3, <2>6, <3>2, <3>4 DEF Writing
    <3>6. buff' \in Seq(Int) BY <2>3, <2>6
    <3>7. QED BY <1>1, <1>3, <3>3, <3>5 DEF VarIntInv
  <2>8. CASE value >= 0
    <3>1. n = value \div w /\ next = value \div Weight(j + 1) /\ low = (value \div w) % r
      <4>1. value \div (w * r) = (value \div w) \div r BY <1>2, DivDiv
      <4>2. QED BY <1>6, <1>7, <2>2, <2>8, <4>1
    <3>2. CASE next # 0
      <4>1. pc' = "write" BY <2>3, <3>2
      <4>2. \A i \in 1..(j + 1) : Append(s, byte)[i] = ((value \div Weight(i - 1)) % Radix) + Radix
        <5> SUFFICES ASSUME NEW i \in 1..(j + 1)
                     PROVE  Append(s, byte)[i] = ((value \div Weight(i - 1)) % Radix) + Radix
          OBVIOUS
        <5>1. CASE i \in 1..j BY <1>7, <2>6, <2>8, <5>1
        <5>2. CASE i = j + 1
          <6>1. i - 1 = j BY <5>2
          <6>2. QED BY <1>5, <1>6, <2>5, <2>6, <3>1, <3>2, <5>2, <6>1
        <5>3. i \in 1..j \/ i = j + 1 OBVIOUS
        <5>4. QED BY <5>1, <5>2, <5>3
      <4>3. ~(value < 0) BY <1>2, <2>8
      <4>4. Writing' BY <1>3, <2>1, <2>3, <2>6, <3>1, <3>2, <4>2, <4>3 DEF Writing
      <4>5. QED BY <1>1, <1>3, <4>1, <4>4 DEF VarIntInv
    <3>3. CASE next = 0
      <4>1. pc' = "written" BY <2>3, <3>3
      <4>2. Unsigned(value) = value BY <1>1, <2>8, IntsType
      <4>3. value < Weight(j + 1)
        <5>1. PICK x \in Nat \ {0} : x = Weight(j + 1)
          <6>1. j + 1 \in Nat OBVIOUS
          <6>2. QED BY <6>1, WeightNext
        <5>2. PICK q \in Int, t \in 0..(x - 1) : q = value \div x /\ value = x * q + t BY <1>2, DivMod
        <5>3. q = 0 BY <3>1, <3>3, <5>1, <5>2
        <5>4. QED BY <5>1, <5>2, <5>3
      <4>4. j + 1 > 1 => value >= Weight((j + 1) - 1)
        <5> SUFFICES ASSUME j > 0, value < w PROVE FALSE BY <1>2, <1>6
        <5>1. value \in 0..(w - 1) BY <1>2, <2>8
        <5>2. value \div w = 0 BY <5>1, SmallMod
        <5>3. QED BY <1>7, <2>8, <5>2
      <4>5. IsNeeded(value, j + 1) BY <4>2, <4>3, <4>4 DEF IsNeeded
      <4>6. Needed(value) = j + 1 BY <1>2, <2>1, <4>5, NeededIs
      <4>7. Append(s, byte) = Groups(value, j + 1)
        <5>1. PICK b \in Seq(Int) : b = Append(s, byte) /\ Len(b) = j + 1 BY <2>6
        <5>2. b = [i \in 1..(j + 1) |-> b[i]]
          <6>1. \A x \in Seq(Int) : x = [i \in 1..Len(x) |-> x[i]] OBVIOUS
          <6>2. QED BY <5>1, <6>1
        <5>3. \A i \in 1..(j + 1) :
                 b[i] = ((value \div Weight(i - 1)) % Radix) + (IF i < j + 1 THEN Radix ELSE 0)
          <6> SUFFICES ASSUME NEW i \in 1..(j + 1)
                       PROVE  b[i] = ((value \div Weight(i - 1)) % Radix) + (IF i < j + 1 THEN Radix ELSE 0)
            OBVIOUS
          <6>1. CASE i \in 1..j BY <1>7, <2>6, <2>8, <5>1, <6>1
          <6>2. CASE i = j + 1
            <7>1. i - 1 = j /\ ~(i < j + 1) BY <6>2
            <7>2. b[i] = low BY <2>5, <2>6, <3>3, <5>1, <6>2
            <7>3. (value \div Weight(i - 1)) % Radix = low BY <1>5, <1>6, <3>1, <7>1
            <7>4. low + 0 = low OBVIOUS
            <7>5. QED BY <7>1, <7>2, <7>3, <7>4
          <6>3. i \in 1..j \/ i = j + 1 OBVIOUS
          <6>4. QED BY <6>1, <6>2, <6>3
        <5>4. Groups(value, j + 1) =
                 [i \in 1..(j + 1) |-> ((value \div Weight(i - 1)) % Radix)
                                          + (IF i < j + 1 THEN Radix ELSE 0)]
          BY <4>2 DEF Groups
        <5>5. QED BY <5>1, <5>2, <5>3, <5>4
      <4>8. buff' = Groups(value', Needed(value')) /\ value' >= 0 BY <1>3, <2>3, <2>8, <4>6, <4>7
      <4>9. QED BY <1>1, <1>3, <4>1, <4>8 DEF VarIntInv
    <3>4. QED BY <3>2, <3>3
  <2>9. QED BY <1>2, <2>7, <2>8
<1>10. QED BY <1>8, <1>9

(* Every step preserves it.                                                *)
LEMMA VarIntStep == VarIntInv /\ [Next]_vars => VarIntInv'
<1> SUFFICES ASSUME VarIntInv, [Next]_vars PROVE VarIntInv' OBVIOUS
<1>1. kind' = kind
  BY DEF Next, ReadByte, DecodeByte, WriteGroup, ReceivePosition, SendPosition, ChatStart, ChatVisit,
         ChatDone, vars
<1>2. CASE kind # "VarInt" BY <1>1, <1>2 DEF VarIntInv
<1>3. CASE kind = "VarInt" /\ UNCHANGED vars
  BY <1>3 DEF VarIntInv, Reading, Decoding, Writing, vars
<1>4. CASE kind = "VarInt" /\ Next
  <2>1. ReadByte \/ DecodeByte \/ WriteGroup
    BY <1>4 DEF VarIntInv, Next, ReceivePosition, SendPosition, ChatStart, ChatVisit, ChatDone
  <2>2. QED BY <1>4, <2>1, ByteRead, ByteDecoded, GroupWritten
<1>5. QED BY <1>2, <1>3, <1>4

(* It holds in the beginning.                                              *)
LEMMA PositionInit == Init => PositionInv
BY DEF Init, Wires, PositionInv

(* Every step preserves it.                                                *)
LEMMA PositionStep == PositionInv /\ [Next]_vars => PositionInv'
<1> SUFFICES ASSUME PositionInv, [Next]_vars PROVE PositionInv' OBVIOUS
<1>1. kind' = kind
  BY DEF Next, ReadByte, DecodeByte, WriteGroup, ReceivePosition, SendPosition, ChatStart, ChatVisit,
         ChatDone, vars
<1>2. CASE kind # "Position" BY <1>1, <1>2 DEF PositionInv
<1>3. CASE kind = "Position" /\ UNCHANGED vars BY <1>3 DEF PositionInv, vars
<1>4. CASE kind = "Position" /\ Next
  <2>1. CASE ReceivePosition BY <1>4, <2>1 DEF PositionInv, ReceivePosition
  <2>2. CASE SendPosition BY <1>4, <2>2 DEF PositionInv, SendPosition
  <2>3. ReceivePosition \/ SendPosition
    BY <1>4 DEF PositionInv, Next, ReadByte, DecodeByte, WriteGroup, ChatStart, ChatVisit, ChatDone
  <2>4. QED BY <2>1, <2>2, <2>3
<1>5. QED BY <1>2, <1>3, <1>4

-----------------------------------------------------------------------------
(* What they say.                                                          *)

(* A VarInt of the server is read as the int it means, negative or not,    *)
(* padded or not, and never more of it than there is room for              *)
(* (stream.cpp:356-374).                                                   *)
THEOREM VarIntsAreRead == Spec => []VarIntsRead
<1>1. VarIntInv => VarIntsRead BY DEF VarIntInv, VarIntsRead
<1>2. QED BY <1>1, VarIntInit, VarIntStep, PTL DEF Spec

(* WriteVarInt gives the shortest form of a number that is not negative;   *)
(* of a negative one it overruns its buffer and never ends                 *)
(* (stream.cpp:577-590).                                                   *)
THEOREM VarIntsAreEchoed == Spec => []VarIntsEchoed
<1>1. VarIntInv => VarIntsEchoed BY DEF VarIntInv, VarIntsEchoed
<1>2. QED BY <1>1, VarIntInit, VarIntStep, PTL DEF Spec

(* Of a position x is always right, y and z are exactly when the same bits *)
(* mean the same in both layouts, and what is written is the long that was *)
(* read (stream.cpp:485-500, 626-629).                                     *)
THEOREM PositionsAreRead == Spec => []PositionsRead
<1>1. PositionInv => PositionsRead
  <2> SUFFICES ASSUME PositionInv, kind = "Position", pc \in {"read", "written"}
               PROVE  /\ result.x = value.x
                      /\ (result = value) <=> (wire = Pack(value.x, value.y, value.z, BitsY, BitsXZ))
                      /\ pc = "written" => rest = wire
    BY DEF PositionsRead
  <2>1. value \in Positions /\ result = ReadPosition(wire) BY DEF PositionInv
  <2>2. /\ value.x \in Ints(BitsXZ) /\ value.x \in Int /\ value.y \in Int /\ value.z \in Int
    BY <2>1, PositionType
  <2>3. PICK a \in Nat \ {0} : a = TwoTo[BitsXZ] BY FieldWidths, TwoToNext
  <2>4. PICK h \in 0..(a - 1) : h = value.x % a BY <2>2, DivMod
  <2>5. wire \in Nat /\ wire \div TwoTo[BitsY + BitsXZ] = h
    <3> PICK w : w = wire OBVIOUS
    <3>1. PICK x \in Int, y \in Int, z \in Int : x = value.x /\ y = value.y /\ z = value.z /\ w = wire
      BY <2>2
    <3>2. CASE w = Pack(x, y, z, BitsY, BitsXZ)
      <4>1. w \in Nat /\ w \div TwoTo[BitsY + BitsXZ] = x % TwoTo[BitsXZ] BY <3>2, Packed
      <4>2. QED BY <2>3, <2>4, <3>1, <4>1
    <3>3. CASE w = Pack(x, z, y, BitsXZ, BitsY)
      <4>1. w \in Nat /\ w \div TwoTo[BitsY + BitsXZ] = x % TwoTo[BitsXZ] BY <3>3, Packed
      <4>2. QED BY <2>3, <2>4, <3>1, <4>1
    <3>4. QED BY <3>1, <3>2, <3>3 DEF PositionInv
  <2>6. result.x = value.x
    <3>1. h % a = h BY SmallMod
    <3>2. h \in Int /\ h % TwoTo[BitsXZ] = value.x % TwoTo[BitsXZ] BY <2>3, <2>4, <3>1
    <3>3. Signed(h, BitsXZ) = value.x BY <2>2, <3>2, SignedIs, FieldWidths
    <3>4. ReadPosition(wire).x = Signed(wire \div TwoTo[BitsY + BitsXZ], BitsXZ) BY DEF ReadPosition
    <3>5. QED BY <2>1, <2>5, <3>3, <3>4
  <2>7. WritePosition(result) = wire
    <3>1. wire \div TwoTo[BitsY + BitsXZ] < TwoTo[BitsXZ] BY <2>3, <2>5
    <3>2. QED BY <2>1, <2>5, <3>1, LongWritten
  <2>8. WritePosition(value) = Pack(value.x, value.y, value.z, BitsY, BitsXZ) BY DEF WritePosition
  <2>9. ReadPosition(WritePosition(value)) = value BY <2>1, PositionWritten
  <2>10. (result = value) <=> (wire = Pack(value.x, value.y, value.z, BitsY, BitsXZ))
    BY <2>1, <2>7, <2>8, <2>9
  <2>11. pc = "written" => rest = wire BY <2>7 DEF PositionInv
  <2>12. QED BY <2>6, <2>10, <2>11
<1>2. QED BY <1>1, PositionInit, PositionStep, PTL DEF Spec

-----------------------------------------------------------------------------
(* What the next level down is made of: the parts of the values of this.   *)
Below1(S) == UNION {Inner(node) : node \in S}

\* The first levels of the messages.
Downto(g, n) == g = [k \in 0..n |-> IF k = 0 THEN Components ELSE Below1(g[k - 1])]

(* The first levels exist, as many as one likes, and are the same in all   *)
(* their beginnings.                                                       *)
LEMMA DownExists == \A n \in Nat : \E g : Downto(g, n)
<1> DEFINE N == {n \in Nat : \E g : Downto(g, n)}
<1>1. 0 \in N
  <2>1. Downto([k \in 0..0 |-> Components], 0) BY DEF Downto
  <2>2. QED BY <2>1
<1>2. ASSUME NEW n \in Nat, n \in N PROVE n + 1 \in N
  <2>1. PICK g : Downto(g, n) BY <1>2
  <2> DEFINE h == [k \in 0..(n + 1) |-> IF k = n + 1 THEN Below1(g[n]) ELSE g[k]]
  <2>2. ASSUME NEW k \in 0..(n + 1)
        PROVE  h[k] = IF k = 0 THEN Components ELSE Below1(h[k - 1])
    <3>1. CASE k = n + 1
      <4>1. k # 0 /\ k - 1 = n /\ n \in 0..(n + 1) /\ n # n + 1 BY <3>1
      <4>2. h[k] = Below1(g[n]) /\ h[n] = g[n] BY <3>1, <4>1
      <4>3. QED BY <4>1, <4>2
    <3>2. CASE k # n + 1
      <4>1. k \in 0..n BY <3>2
      <4>2. g[k] = IF k = 0 THEN Components ELSE Below1(g[k - 1]) BY <2>1, <4>1 DEF Downto
      <4>3. h[k] = g[k] BY <3>2
      <4>4. CASE k = 0 BY <4>2, <4>3, <4>4
      <4>5. CASE k # 0
        <5>1. k - 1 \in 0..(n + 1) /\ k - 1 # n + 1 BY <4>1, <4>5
        <5>2. h[k - 1] = g[k - 1] BY <5>1
        <5>3. QED BY <4>2, <4>3, <4>5, <5>2
      <4>6. QED BY <4>4, <4>5
    <3>3. QED BY <3>1, <3>2
  <2>3. DOMAIN h = 0..(n + 1) /\ h = [k \in 0..(n + 1) |-> h[k]] OBVIOUS
  <2> HIDE DEF h
  <2>4. Downto(h, n + 1) BY <2>2, <2>3 DEF Downto
  <2>5. QED BY <2>4
<1> HIDE DEF N
<1>3. Nat \subseteq N BY <1>1, <1>2, Induction
<1>4. QED BY <1>3 DEF N

(* Two beginnings of different length agree.                               *)
LEMMA DownAgrees == ASSUME NEW m \in Nat, NEW n \in Nat, NEW g, NEW h, Downto(g, m), Downto(h, n)
                    PROVE  \A k \in Nat : k <= m /\ k <= n => g[k] = h[k]
<1> DEFINE N == {k \in Nat : k <= m /\ k <= n => g[k] = h[k]}
<1>1. 0 \in N
  <2>1. g[0] = Components /\ h[0] = Components BY DEF Downto
  <2>2. QED BY <2>1
<1>2. ASSUME NEW k \in Nat, k \in N PROVE k + 1 \in N
  <2> SUFFICES ASSUME k + 1 <= m, k + 1 <= n PROVE g[k + 1] = h[k + 1] OBVIOUS
  <2>1. k + 1 # 0 /\ (k + 1) - 1 = k /\ k + 1 \in 0..m /\ k + 1 \in 0..n OBVIOUS
  <2>2. g[k] = h[k] BY <1>2
  <2>3. g[k + 1] = Below1(g[k]) BY <2>1 DEF Downto
  <2>4. h[k + 1] = Below1(h[k]) BY <2>1 DEF Downto
  <2>5. QED BY <2>2, <2>3, <2>4
<1> HIDE DEF N
<1>3. Nat \subseteq N BY <1>1, <1>2, Induction
<1>4. QED BY <1>3 DEF N

(* The levels of the messages, one below the other.                        *)
LEMMA DownNext == Down[0] = Components /\ \A k \in Nat : Down[k + 1] = Below1(Down[k])
<1> DEFINE P(f) == f = [k \in Nat |-> IF k = 0 THEN Components ELSE Below1(f[k - 1])]
           upto == [n \in Nat |-> CHOOSE g : Downto(g, n)]
           f == [n \in Nat |-> upto[n][n]]
<1>1. \A n \in Nat : Downto(upto[n], n) BY DownExists
<1>2. ASSUME NEW n \in Nat, n # 0 PROVE f[n] = Below1(f[n - 1])
  <2>1. n - 1 \in Nat /\ n - 1 <= n /\ n \in 0..n /\ n - 1 <= n - 1 BY <1>2
  <2> HIDE DEF upto
  <2>2. upto[n][n] = Below1(upto[n][n - 1])
    <3>1. PICK g : g = upto[n] /\ Downto(g, n) BY <1>1
    <3>2. g[n] = Below1(g[n - 1]) BY <1>2, <2>1, <3>1 DEF Downto
    <3>3. QED BY <3>1, <3>2
  <2>3. upto[n][n - 1] = upto[n - 1][n - 1] BY <1>1, <2>1, DownAgrees
  <2>4. f[n] = upto[n][n] /\ f[n - 1] = upto[n - 1][n - 1] BY <2>1
  <2>5. QED BY <2>2, <2>3, <2>4
<1>3. f[0] = Components
  <2>1. Downto(upto[0], 0) BY <1>1
  <2>2. upto[0][0] = Components
    <3> HIDE DEF upto
    <3> QED BY <2>1 DEF Downto
  <2>3. QED BY <2>2
<1>4. f = [n \in Nat |-> f[n]] OBVIOUS
<1>5. P(f)
  <2> HIDE DEF f
  <2>1. \A n \in Nat : f[n] = IF n = 0 THEN Components ELSE Below1(f[n - 1]) BY <1>2, <1>3
  <2>2. QED BY <1>4, <2>1
<1>6. Down = CHOOSE g : P(g) BY DEF Down, Below1
<1>7. P(Down)
  <2> HIDE DEF P
  <2> QED BY <1>5, <1>6
<1>8. \A k \in Nat : k + 1 \in Nat /\ k + 1 # 0 /\ (k + 1) - 1 = k OBVIOUS
<1>9. QED BY <1>7, <1>8

-----------------------------------------------------------------------------
(* What a message may be made of.                                          *)
LEMMA Kinds == ASSUME NEW node \in JSON PROVE Plain(node) \/ List(node) \/ Object(node)
BY MessagesAssumption

(* The parts of a value are values.                                        *)
LEMMA PartsIn == ASSUME NEW node \in JSON, NEW part \in Inner(node) PROVE part \in JSON
<1>1. PICK k \in 0..Levels : node \in Down[k] BY DEF JSON
<1>2. Levels \in Nat /\ k # Levels BY <1>1, MessagesAssumption
<1>3. k + 1 \in 0..Levels /\ k \in Nat BY <1>2
<1>4. part \in Down[k + 1] BY <1>1, <1>3, DownNext DEF Below1
<1>5. QED BY <1>3, <1>4 DEF JSON

(* A message is a value.                                                   *)
LEMMA MessagesIn == Components \subseteq JSON
<1>1. 0 \in 0..Levels BY MessagesAssumption
<1>2. QED BY <1>1, DownNext DEF JSON

(* How many levels there can be below a value, at the lowest level it is   *)
(* found at.                                                               *)
Rank(node) == {r \in 0..Levels : node \in Down[Levels - r]}

Least(r, S) == r \in S /\ \A s \in S : r <= s

(* Parts have a lower rank, so that recursion over them is well-founded.   *)
LEMMA Ranked == \E rank \in [JSON -> Nat] :
                    \A node \in JSON : \A part \in Inner(node) : rank[part] < rank[node]
<1> DEFINE rank == [node \in JSON |-> CHOOSE r \in Nat : Least(r, Rank(node))]
<1>0. Levels \in Nat BY MessagesAssumption
<1>1. ASSUME NEW node \in JSON PROVE rank[node] \in Nat /\ Least(rank[node], Rank(node))
  <2>1. PICK k \in 0..Levels : node \in Down[k] BY DEF JSON
  <2>2. Levels - k \in 0..Levels /\ Levels - (Levels - k) = k BY <1>0
  <2>3. Levels - k \in Rank(node) BY <2>1, <2>2 DEF Rank
  <2>4. Rank(node) \in SUBSET Nat /\ Rank(node) # {}
    <3>1. \A r \in 0..Levels : r \in Nat BY <1>0
    <3>2. QED BY <2>3, <3>1 DEF Rank
  <2>5. \E r \in Nat : Least(r, Rank(node)) BY <2>4, Smallest DEF Least
  <2>6. QED BY <2>5
<1>2. rank \in [JSON -> Nat]
  <2>1. \A node \in JSON : rank[node] \in Nat BY <1>1
  <2>2. rank = [node \in JSON |-> rank[node]] OBVIOUS
  <2> HIDE DEF rank
  <2>3. QED BY <2>1, <2>2
<1> HIDE DEF rank
<1>3. ASSUME NEW node \in JSON, NEW part \in Inner(node) PROVE rank[part] < rank[node]
  <2>1. PICK r : r = rank[node] OBVIOUS
  <2>2. r \in 0..Levels /\ node \in Down[Levels - r] BY <1>1, <2>1 DEF Least, Rank
  <2>3. r # 0
    <3>1. CASE r = 0
      <4>1. Levels - r = Levels BY <1>0, <3>1
      <4>2. QED BY <2>2, <4>1, MessagesAssumption
    <3>2. QED BY <3>1
  <2>4. r - 1 \in 0..Levels /\ Levels - (r - 1) = (Levels - r) + 1 /\ Levels - r \in Nat
    BY <1>0, <2>2, <2>3
  <2>5. part \in Down[(Levels - r) + 1] BY <2>2, <2>4, DownNext DEF Below1
  <2>6. r - 1 \in Rank(part) BY <2>4, <2>5 DEF Rank
  <2>7. part \in JSON BY PartsIn
  <2>8. rank[part] \in Nat /\ rank[part] <= r - 1 BY <1>1, <2>6, <2>7 DEF Least
  <2>9. QED BY <2>1, <2>2, <2>8
<1>4. QED BY <1>2, <1>3

-----------------------------------------------------------------------------
\* The texts at a key of an object, and of a value, by those of its parts.
PartOf(node, key, g) == IF Has(node, key) THEN g[node.members[key]] ELSE << >>

Shows(node, g) ==
    CASE Is("members", node) -> Own(node) \o PartOf(node, "with", g) \o PartOf(node, "extra", g)
                                   \o PartOf(node, "hoverEvent", g) \o PartOf(node, "value", g)
      [] Is("items", node) -> FlattenSeq([i \in DOMAIN node.items |-> g[node.items[i]]])
      [] OTHER -> << >>

(* Which kind a value is of is seen in its only field.                     *)
LEMMA KindFields == ASSUME NEW node
                    PROVE  /\ Plain(node) => ~Is("members", node) /\ ~Is("items", node)
                           /\ List(node) => ~Is("members", node) /\ Is("items", node)
                           /\ Object(node) => Is("members", node) /\ ~Is("items", node)
<1>1. Plain(node) => DOMAIN node = {"string"} \/ DOMAIN node = {"number"} BY DEF Plain
<1>2. List(node) => DOMAIN node = {"items"} BY DEF List
<1>3. Object(node) => DOMAIN node = {"members"} BY DEF Object
<1>4. QED BY <1>1, <1>2, <1>3 DEF Is

(* The parts of each kind.                                                 *)
LEMMA KindParts == ASSUME NEW node
                   PROVE  /\ Plain(node) => Inner(node) = {}
                          /\ List(node) => /\ node.items \in Seq(JSON)
                                           /\ \A i \in DOMAIN node.items : node.items[i] \in Inner(node)
                          /\ Object(node) => \A key \in DOMAIN node.members : node.members[key] \in Inner(node)
<1>1. Plain(node) => Inner(node) = {} BY KindFields DEF Inner
<1>2. List(node) => node.items \in Seq(JSON) BY DEF List
<1>3. List(node) => Inner(node) = {node.items[i] : i \in DOMAIN node.items} BY KindFields DEF Inner, ToSet
<1>4. Object(node) => Inner(node) = {node.members[key] : key \in DOMAIN node.members} BY KindFields DEF Inner
<1>5. QED BY <1>1, <1>2, <1>3, <1>4

(* A text of a component is a text.                                        *)
LEMMA OwnType == ASSUME NEW node \in JSON PROVE Own(node) \in Seq(STRING)
<1>1. CASE Has(node, "text") /\ Is("string", node.members["text"])
  <2>1. Object(node) BY <1>1, Kinds, KindFields DEF Has
  <2> DEFINE m == node.members["text"]
  <2>2. m \in JSON BY <1>1, <2>1, KindParts, PartsIn DEF Has
  <2>3. Plain(m)
    <3>1. List(m) => DOMAIN m = {"items"} BY DEF List
    <3>2. Object(m) => DOMAIN m = {"members"} BY DEF Object
    <3>3. QED BY <1>1, <2>2, <3>1, <3>2, Kinds DEF Is
  <2>4. m \in [string : STRING]
    <3>1. m \in [number : STRING] => DOMAIN m = {"number"} OBVIOUS
    <3>2. QED BY <1>1, <2>3, <3>1 DEF Plain, Is
  <2>5. m.string \in STRING BY <2>4
  <2>6. QED BY <1>1, <2>5 DEF Own
<1>2. CASE ~(Has(node, "text") /\ Is("string", node.members["text"]))
  <2>1. Own(node) = << >> BY <1>2 DEF Own
  <2>2. QED BY <2>1
<1>3. QED BY <1>1, <1>2

(* What is shown at a key is what is shown of a part.                      *)
LEMMA PartShown == ASSUME NEW node \in JSON, NEW key,
                          NEW g, \A part \in Inner(node) : g[part] \in Seq(STRING)
                   PROVE  PartOf(node, key, g) \in Seq(STRING)
<1>1. CASE Has(node, key)
  <2>1. Object(node) BY <1>1, Kinds, KindFields DEF Has
  <2>2. node.members[key] \in Inner(node) BY <1>1, <2>1, KindParts DEF Has
  <2>3. QED BY <1>1, <2>2 DEF PartOf
<1>2. CASE ~Has(node, key)
  <2>1. PartOf(node, key, g) = << >> BY <1>2 DEF PartOf
  <2>2. QED BY <2>1
<1>3. QED BY <1>1, <1>2

(* What is shown of a value is texts if that of its parts is.              *)
LEMMA ShowsType == ASSUME NEW node \in JSON, NEW g, \A part \in Inner(node) : g[part] \in Seq(STRING)
                   PROVE  Shows(node, g) \in Seq(STRING)
<1>1. CASE Plain(node)
  <2>1. Shows(node, g) = << >> BY <1>1, KindFields DEF Shows
  <2>2. QED BY <2>1
<1>2. CASE List(node)
  <2>1. Shows(node, g) = FlattenSeq([i \in DOMAIN node.items |-> g[node.items[i]]])
    BY <1>2, KindFields DEF Shows
  <2>2. [i \in DOMAIN node.items |-> g[node.items[i]]] \in Seq(Seq(STRING))
    <3>1. \A i \in DOMAIN node.items : g[node.items[i]] \in Seq(STRING) BY <1>2, KindParts
    <3>2. DOMAIN node.items = 1..Len(node.items) /\ Len(node.items) \in Nat BY <1>2, KindParts
    <3>3. QED BY <3>1, <3>2
  <2>3. QED BY <2>1, <2>2, FlattenType
<1>3. CASE Object(node)
  <2>1. PICK o \in Seq(STRING), a \in Seq(STRING), b \in Seq(STRING), c \in Seq(STRING), d \in Seq(STRING) :
           /\ o = Own(node) /\ a = PartOf(node, "with", g) /\ b = PartOf(node, "extra", g)
           /\ c = PartOf(node, "hoverEvent", g) /\ d = PartOf(node, "value", g)
    BY PartShown, OwnType
  <2>2. Shows(node, g) = o \o a \o b \o c \o d BY <1>3, <2>1, KindFields DEF Shows
  <2>3. o \o a \in Seq(STRING) BY ConcatIn
  <2>4. (o \o a) \o b \in Seq(STRING) BY <2>3, ConcatIn
  <2>5. ((o \o a) \o b) \o c \in Seq(STRING) BY <2>4, ConcatIn
  <2>6. (((o \o a) \o b) \o c) \o d \in Seq(STRING) BY <2>5, ConcatIn
  <2>7. QED BY <2>2, <2>6
<1>4. QED BY <1>1, <1>2, <1>3, Kinds

(* It depends on the parts only.                                           *)
LEMMA ShowsSame == ASSUME NEW node \in JSON, NEW g, NEW h, \A part \in Inner(node) : g[part] = h[part]
                   PROVE  Shows(node, g) = Shows(node, h)
<1>1. CASE Plain(node) BY <1>1, KindFields DEF Shows
<1>2. CASE List(node)
  <2>1. \A i \in DOMAIN node.items : g[node.items[i]] = h[node.items[i]] BY <1>2, KindParts
  <2>2. [i \in DOMAIN node.items |-> g[node.items[i]]] = [i \in DOMAIN node.items |-> h[node.items[i]]]
    BY <2>1
  <2>3. QED BY <1>2, <2>2, KindFields DEF Shows
<1>3. CASE Object(node)
  <2>1. \A key : PartOf(node, key, g) = PartOf(node, key, h) BY <1>3, KindParts DEF PartOf, Has
  <2>2. QED BY <1>3, <2>1, KindFields DEF Shows
<1>4. QED BY <1>1, <1>2, <1>3, Kinds

(* What a display shows of a value is what it shows of its parts, in their *)
(* order.                                                                  *)
LEMMA DisplayedDef == \A node \in JSON : Displayed[node] = Shows(node, Displayed)
<1> DEFINE T == Seq(STRING)
           F == [node \in JSON |-> [g \in [JSON -> T] |-> Shows(node, g)]]
           P(g) == g = [node \in JSON |-> Shows(node, g)]
<1>1. PICK rank \in [JSON -> Nat] : \A node \in JSON : \A part \in Inner(node) : rank[part] < rank[node]
  BY Ranked
<1>2. PICK f : Solves(f, JSON, T, F)
  <2>1. T # {}
    <3>1. << >> \in T OBVIOUS
    <3>2. QED BY <3>1
  <2>2. F \in [JSON -> [[JSON -> T] -> T]]
    <3>1. ASSUME NEW node \in JSON, NEW g \in [JSON -> T] PROVE Shows(node, g) \in T
      <4>1. \A part \in Inner(node) : g[part] \in T BY PartsIn
      <4>2. QED BY <4>1, ShowsType
    <3> HIDE DEF T
    <3>2. QED BY <3>1
  <2>3. \A node \in JSON : \A g, h \in [JSON -> T] :
          (\A part \in JSON : rank[part] < rank[node] => g[part] = h[part]) => F[node][g] = F[node][h]
    <3> SUFFICES ASSUME NEW node \in JSON, NEW g \in [JSON -> T], NEW h \in [JSON -> T],
                        \A part \in JSON : rank[part] < rank[node] => g[part] = h[part]
                 PROVE  F[node][g] = F[node][h]
      OBVIOUS
    <3>1. \A part \in Inner(node) : g[part] = h[part] BY <1>1, PartsIn
    <3>2. Shows(node, g) = Shows(node, h) BY <3>1, ShowsSame
    <3> HIDE DEF T
    <3>3. QED BY <3>2
  <2> HIDE DEF F, T
  <2>4. RecursionStep(JSON, T, rank, F) BY <2>1, <2>2, <2>3 DEF RecursionStep
  <2>5. QED BY <2>4, Recursion
<1>3. f \in [JSON -> T] /\ \A node \in JSON : f[node] = Shows(node, f)
  <2> HIDE DEF T
  <2> QED BY <1>2 DEF Solves
<1>4. P(f)
  <2>1. f = [node \in JSON |-> f[node]] BY <1>3
  <2>2. QED BY <1>3, <2>1
<1>5. Displayed = CHOOSE g : P(g) BY DEF Displayed, Shows, PartOf
<1>6. P(Displayed)
  <2> HIDE DEF P
  <2> QED BY <1>4, <1>5
<1>7. QED BY <1>6

(* What is displayed is texts: no value is the lowest of those of which it *)
(* is not.                                                                 *)
LEMMA DisplayedType == \A node \in JSON : Displayed[node] \in Seq(STRING)
<1>1. PICK rank \in [JSON -> Nat] : \A node \in JSON : \A part \in Inner(node) : rank[part] < rank[node]
  BY Ranked
<1> DEFINE N == {n \in Nat : \A node \in JSON : rank[node] < n => Displayed[node] \in Seq(STRING)}
<1>2. 0 \in N OBVIOUS
<1>3. ASSUME NEW n \in Nat, n \in N PROVE n + 1 \in N
  <2> SUFFICES ASSUME NEW node \in JSON, rank[node] < n + 1 PROVE Displayed[node] \in Seq(STRING)
    OBVIOUS
  <2>1. ASSUME NEW part \in Inner(node) PROVE Displayed[part] \in Seq(STRING)
    <3>1. part \in JSON /\ rank[part] \in Nat /\ rank[node] \in Nat /\ rank[part] < rank[node]
      BY <1>1, PartsIn
    <3>2. rank[part] < n BY <3>1
    <3>3. QED BY <1>3, <3>1, <3>2
  <2>2. Shows(node, Displayed) \in Seq(STRING) BY <2>1, ShowsType
  <2>3. QED BY <2>2, DisplayedDef
<1> HIDE DEF N
<1>4. Nat \subseteq N BY <1>2, <1>3, Induction
<1>5. ASSUME NEW node \in JSON PROVE Displayed[node] \in Seq(STRING)
  <2>1. rank[node] + 1 \in Nat /\ rank[node] < rank[node] + 1 OBVIOUS
  <2>2. rank[node] + 1 \in N BY <1>4, <2>1
  <2>3. QED BY <2>1, <2>2 DEF N
<1>6. QED BY <1>5

(* What is in a value is the value and what is in its parts.               *)
LEMMA InsideDef == \A node \in JSON : Inside[node] = {node} \cup UNION {Inside[part] : part \in Inner(node)}
<1> DEFINE T == SUBSET JSON
           Step(node, g) == {node} \cup UNION {g[part] : part \in Inner(node)}
           F == [node \in JSON |-> [g \in [JSON -> T] |-> Step(node, g)]]
           P(g) == g = [node \in JSON |-> {node} \cup UNION {g[part] : part \in Inner(node)}]
<1>1. PICK rank \in [JSON -> Nat] : \A node \in JSON : \A part \in Inner(node) : rank[part] < rank[node]
  BY Ranked
<1>2. PICK f : Solves(f, JSON, T, F)
  <2>1. T # {} OBVIOUS
  <2>2. F \in [JSON -> [[JSON -> T] -> T]]
    <3>1. ASSUME NEW node \in JSON, NEW g \in [JSON -> T] PROVE Step(node, g) \in T
      <4>1. \A part \in Inner(node) : g[part] \in T BY PartsIn
      <4>2. QED BY <4>1
    <3> HIDE DEF T, Step
    <3>2. QED BY <3>1
  <2>3. \A node \in JSON : \A g, h \in [JSON -> T] :
          (\A part \in JSON : rank[part] < rank[node] => g[part] = h[part]) => F[node][g] = F[node][h]
    <3> SUFFICES ASSUME NEW node \in JSON, NEW g \in [JSON -> T], NEW h \in [JSON -> T],
                        \A part \in JSON : rank[part] < rank[node] => g[part] = h[part]
                 PROVE  F[node][g] = F[node][h]
      OBVIOUS
    <3>1. \A part \in Inner(node) : g[part] = h[part] BY <1>1, PartsIn
    <3>2. Step(node, g) = Step(node, h)
      <4>1. {g[part] : part \in Inner(node)} = {h[part] : part \in Inner(node)} BY <3>1
      <4>2. QED BY <4>1
    <3> HIDE DEF T, Step
    <3>3. QED BY <3>2
  <2> HIDE DEF F, T
  <2>4. RecursionStep(JSON, T, rank, F) BY <2>1, <2>2, <2>3 DEF RecursionStep
  <2>5. QED BY <2>4, Recursion
<1>3. f \in [JSON -> T] /\ \A node \in JSON : f[node] = Step(node, f)
  <2> HIDE DEF T, Step
  <2> QED BY <1>2 DEF Solves
<1>4. P(f)
  <2>1. f = [node \in JSON |-> f[node]] BY <1>3
  <2>2. QED BY <1>3, <2>1
<1>5. Inside = CHOOSE g : P(g) BY DEF Inside
<1>6. P(Inside)
  <2> HIDE DEF P
  <2> QED BY <1>4, <1>5
<1>7. QED BY <1>6

-----------------------------------------------------------------------------
(* How often a text occurs is a number.                                    *)
LEMMA TimesType == ASSUME NEW S, NEW s \in Seq(S), NEW t
                   PROVE  IsFiniteSet({i \in DOMAIN s : s[i] = t}) /\ Times(t, s) \in Nat
<1> DEFINE A == {i \in DOMAIN s : s[i] = t}
<1>1. Len(s) \in Nat /\ DOMAIN s = 1..Len(s) OBVIOUS
<1>2. IsFiniteSet(1..Len(s)) BY <1>1, FS_Interval
<1>3. A \subseteq 1..Len(s) BY <1>1
<1>4. IsFiniteSet(A) BY <1>2, <1>3, FS_Subset
<1>5. Cardinality(A) \in Nat
  <2> HIDE DEF A
  <2> QED BY <1>4, FS_CardinalityType
<1>6. QED BY <1>4, <1>5 DEF Times

(* A text occurs in a sequence with one more text once more or as often.   *)
LEMMA TimesAppend == ASSUME NEW S, NEW s \in Seq(S), NEW e \in S, NEW t
                     PROVE  Times(t, Append(s, e)) = Times(t, s) + (IF e = t THEN 1 ELSE 0)
<1> DEFINE n == Len(s)
           A == {i \in DOMAIN s : s[i] = t}
           B == {i \in DOMAIN Append(s, e) : Append(s, e)[i] = t}
<1>1. n \in Nat /\ DOMAIN s = 1..n /\ DOMAIN Append(s, e) = 1..(n + 1) OBVIOUS
<1>2. IsFiniteSet(A) /\ Cardinality(A) \in Nat BY TimesType DEF Times
<1>4. Append(s, e)[n + 1] = e /\ \A i \in 1..n : Append(s, e)[i] = s[i] OBVIOUS
<1>5. n + 1 \notin A BY <1>1
<1>6. CASE e = t
  <2>1. B = A \cup {n + 1} BY <1>1, <1>4, <1>6
  <2>2. Cardinality(A \cup {n + 1}) = Cardinality(A) + 1
    <3> HIDE DEF A
    <3> QED BY <1>2, <1>5, FS_AddElement
  <2> HIDE DEF A, B
  <2>3. Cardinality(B) = Cardinality(A) + 1 BY <2>1, <2>2
  <2>4. QED BY <1>2, <1>6, <2>3 DEF Times, A, B
<1>7. CASE e # t
  <2>1. B = A BY <1>1, <1>4, <1>7
  <2>2. Times(t, Append(s, e)) = Times(t, s) BY <2>1 DEF Times
  <2>3. Times(t, s) \in Nat BY <1>2 DEF Times
  <2>4. QED BY <1>7, <2>2, <2>3
<1>8. QED BY <1>6, <1>7

(* In two sequences together it occurs as often as in both.                *)
LEMMA TimesConcat == ASSUME NEW S, NEW s \in Seq(S), NEW u \in Seq(S), NEW t
                     PROVE  /\ Times(t, s) \in Nat /\ Times(t, u) \in Nat
                            /\ Times(t, s \o u) = Times(t, s) + Times(t, u)
<1>1. \A v \in Seq(S) : Times(t, v) \in Nat BY TimesType
<1> DEFINE T == {v \in Seq(S) : Times(t, s \o v) = Times(t, s) + Times(t, v)}
<1>2. << >> \in T
  <2>1. s \o << >> = s /\ << >> \in Seq(S) BY ConcatEmptySeq
  <2>2. Times(t, << >>) = 0
    <3>1. {i \in DOMAIN << >> : << >>[i] = t} = {} OBVIOUS
    <3>2. QED BY <3>1, FS_EmptySet DEF Times
  <2>3. Times(t, s) + 0 = Times(t, s) BY <1>1
  <2>4. QED BY <2>1, <2>2, <2>3
<1>3. ASSUME NEW v \in Seq(S), NEW e \in S, v \in T PROVE Append(v, e) \in T
  <2>1. s \o Append(v, e) = Append(s \o v, e) BY AppendBehind
  <2>2. s \o v \in Seq(S) /\ Append(v, e) \in Seq(S) BY ConcatIn, AppendIn
  <2>3. Times(t, Append(s \o v, e)) = Times(t, s \o v) + (IF e = t THEN 1 ELSE 0) BY <2>2, TimesAppend
  <2>4. Times(t, Append(v, e)) = Times(t, v) + (IF e = t THEN 1 ELSE 0) BY TimesAppend
  <2>5. Times(t, s \o v) = Times(t, s) + Times(t, v) BY <1>3
  <2>6. Times(t, s) \in Nat /\ Times(t, v) \in Nat BY <1>1
  <2>7. Times(t, s \o Append(v, e)) = Times(t, s) + Times(t, Append(v, e))
    <3>1. CASE e = t BY <2>1, <2>3, <2>4, <2>5, <2>6, <3>1
    <3>2. CASE e # t BY <2>1, <2>3, <2>4, <2>5, <2>6, <3>2
    <3>3. QED BY <3>1, <3>2
  <2>8. QED BY <2>2, <2>7
<1> HIDE DEF T
<1>4. Seq(S) \subseteq T BY <1>2, <1>3, ListInduction
<1>5. QED BY <1>1, <1>4 DEF T

(* Three sequences are the same sequence in both groupings.                *)
LEMMA TextsRegroup == \A a, b, c \in Seq(STRING) : (a \o b) \o c = a \o (b \o c)
OBVIOUS

-----------------------------------------------------------------------------
(* The walk: what it has still to visit, and what that will print.         *)
Visits == (ToSet(KeyOrder) \cup {""}) \X JSON

\* The texts of a value with its key; of a text it is the text itself.
Face(visit) == IF visit[1] = "text"
               THEN (IF Is("string", visit[2]) THEN <<visit[2].string>> ELSE << >>)
               ELSE Displayed[visit[2]]

Pending(visits) == FlattenSeq([i \in DOMAIN visits |-> Face(visits[i])])

\* What the walk throws at, now or further in.
Odd(visit) == (visit[1] = "text" /\ ~Is("string", visit[2])) \/ Numbered(visit[2])

(* No text is a sequence of texts.                                         *)
LEMMA NoTexts == << >> \in Seq(STRING)
OBVIOUS

(* One element is a sequence.                                              *)
LEMMA OneElement == ASSUME NEW S, NEW e \in S PROVE <<e>> \in Seq(S)
OBVIOUS

(* A string is a text, without parts.                                      *)
LEMMA StringText == ASSUME NEW node \in JSON, Is("string", node)
                    PROVE  Plain(node) /\ node.string \in STRING
<1>1. Plain(node)
  <2>1. List(node) => DOMAIN node = {"items"} BY DEF List
  <2>2. Object(node) => DOMAIN node = {"members"} BY DEF Object
  <2>3. QED BY <2>1, <2>2, Kinds DEF Is
<1>2. node \in [string : STRING]
  <2>1. node \in [number : STRING] => DOMAIN node = {"number"} OBVIOUS
  <2>2. QED BY <1>1, <2>1 DEF Plain, Is
<1>3. node.string \in STRING BY <1>2
<1>4. QED BY <1>1, <1>3

(* What a visit prints is texts.                                           *)
LEMMA FaceType == ASSUME NEW visit \in Visits PROVE Face(visit) \in Seq(STRING)
<1> DEFINE K == ToSet(KeyOrder) \cup {""}
<1>1. PICK key \in K, node \in JSON : visit = <<key, node>>
  <2> HIDE DEF K
  <2>1. visit \in K \X JSON BY DEF Visits, K
  <2>2. QED BY <2>1
<1>2. visit[1] = key /\ visit[2] = node BY <1>1
<1>3. CASE key = "text"
  <2>1. CASE Is("string", node)
    <3>1. node.string \in STRING BY <2>1, StringText
    <3>2. Face(visit) = <<node.string>> BY <1>2, <1>3, <2>1 DEF Face
    <3>3. <<node.string>> \in Seq(STRING) BY <3>1, OneElement
    <3>4. QED BY <3>2, <3>3
  <2>2. CASE ~Is("string", node)
    <3>1. Face(visit) = << >> BY <1>2, <1>3, <2>2 DEF Face
    <3>2. QED BY <3>1, NoTexts
  <2>3. QED BY <2>1, <2>2
<1>4. CASE key # "text" BY <1>2, <1>4, DisplayedType DEF Face
<1>5. QED BY <1>3, <1>4

(* What each visit prints, as a list of texts.                             *)
LEMMA FacesType == ASSUME NEW s \in Seq(Visits)
                   PROVE  [i \in DOMAIN s |-> Face(s[i])] \in Seq(Seq(STRING))
<1>1. DOMAIN s = 1..Len(s) /\ Len(s) \in Nat OBVIOUS
<1>2. \A i \in DOMAIN s : Face(s[i]) \in Seq(STRING)
  <2>1. \A i \in DOMAIN s : s[i] \in Visits OBVIOUS
  <2>2. QED BY <2>1, FaceType
<1>3. QED BY <1>1, <1>2

(* What is pending is texts.                                               *)
LEMMA PendingType == ASSUME NEW s \in Seq(Visits) PROVE Pending(s) \in Seq(STRING)
BY FacesType, FlattenType DEF Pending

(* Two lists of visits print one behind the other.                         *)
LEMMA PendingConcat == ASSUME NEW s \in Seq(Visits), NEW u \in Seq(Visits)
                       PROVE  Pending(s \o u) = Pending(s) \o Pending(u)
<1> DEFINE a == [i \in DOMAIN s |-> Face(s[i])]
           b == [i \in DOMAIN u |-> Face(u[i])]
           c == [i \in DOMAIN (s \o u) |-> Face((s \o u)[i])]
<1>1. a \in Seq(Seq(STRING)) /\ b \in Seq(Seq(STRING)) BY FacesType
<1>2. c = a \o b
  <2>1. s \o u \in Seq(Visits) /\ Len(s \o u) = Len(s) + Len(u) BY ConcatIn
  <2>2. c \in Seq(Seq(STRING)) BY <2>1, FacesType
  <2>3. Len(a) = Len(s) /\ Len(b) = Len(u) /\ Len(c) = Len(s) + Len(u)
    <3>1. /\ DOMAIN a = 1..Len(s) /\ DOMAIN b = 1..Len(u) /\ DOMAIN c = 1..(Len(s) + Len(u))
          /\ Len(s) \in Nat /\ Len(u) \in Nat /\ Len(s) + Len(u) \in Nat
      BY <2>1
    <3>2. a \in Seq(Seq(STRING)) /\ b \in Seq(Seq(STRING)) /\ c \in Seq(Seq(STRING)) BY <1>1, <2>2
    <3> HIDE DEF a, b, c
    <3>3. QED BY <3>1, <3>2
  <2>4. ASSUME NEW i \in 1..(Len(s) + Len(u)) PROVE c[i] = (a \o b)[i]
    <3>1. CASE i <= Len(s)
      <4>1. i \in DOMAIN s /\ i \in DOMAIN (s \o u) /\ (s \o u)[i] = s[i] BY <3>1, <2>1
      <4>2. c[i] = a[i] BY <4>1
      <4>3. (a \o b)[i] = a[i]
        <5> HIDE DEF a, b, c
        <5> QED BY <1>1, <2>3, <3>1
      <4>4. QED BY <4>2, <4>3
    <3>2. CASE ~(i <= Len(s))
      <4>1. /\ i - Len(s) \in DOMAIN u /\ i \in DOMAIN (s \o u) /\ (s \o u)[i] = u[i - Len(s)]
        BY <3>2, <2>1
      <4>2. c[i] = b[i - Len(s)] BY <4>1
      <4>3. (a \o b)[i] = b[i - Len(s)]
        <5> HIDE DEF a, b, c
        <5> QED BY <1>1, <2>3, <3>2
      <4>4. QED BY <4>2, <4>3
    <3>3. QED BY <3>1, <3>2
  <2> HIDE DEF a, b, c
  <2>5. a \o b \in Seq(Seq(STRING)) /\ Len(a \o b) = Len(a) + Len(b) BY <1>1, ConcatIn
  <2>6. Len(c) = Len(a \o b) /\ \A i \in 1..Len(c) : c[i] = (a \o b)[i] BY <2>3, <2>4, <2>5
  <2>7. QED BY <2>2, <2>5, <2>6, SeqEqual
<1>3. FlattenSeq(a \o b) = FlattenSeq(a) \o FlattenSeq(b) BY <1>1, FlattenConcat
<1>4. QED BY <1>2, <1>3 DEF Pending

(* Nothing to visit prints nothing; one visit prints its face.             *)
LEMMA PendingFew == Pending(<< >>) = << >> /\ \A v \in Visits : Pending(<<v>>) = Face(v)
<1>1. Pending(<< >>) = << >>
  <2>1. [i \in DOMAIN << >> |-> Face(<< >>[i])] = << >> OBVIOUS
  <2>2. QED BY <2>1, FlattenEmpty DEF Pending
<1>2. ASSUME NEW v \in Visits PROVE Pending(<<v>>) = Face(v)
  <2>1. [i \in DOMAIN <<v>> |-> Face(<<v>>[i])] = <<Face(v)>> OBVIOUS
  <2>2. QED BY <2>1, FaceType, FlattenOne DEF Pending
<1>3. QED BY <1>1, <1>2

(* What is visited first prints first.                                     *)
LEMMA PendingHead == ASSUME NEW s \in Seq(Visits), s # << >>
                     PROVE  /\ Head(s) \in Visits /\ Tail(s) \in Seq(Visits)
                            /\ Pending(s) = Face(Head(s)) \o Pending(Tail(s))
<1>1. Head(s) \in Visits /\ Tail(s) \in Seq(Visits) BY HeadIn, TailIn
<1>2. s = <<Head(s)>> \o Tail(s) OBVIOUS
<1>3. <<Head(s)>> \in Seq(Visits) BY <1>1
<1>4. Pending(<<Head(s)>> \o Tail(s)) = Pending(<<Head(s)>>) \o Pending(Tail(s))
  BY <1>1, <1>3, PendingConcat
<1>5. QED BY <1>1, <1>2, <1>4, PendingFew

-----------------------------------------------------------------------------
(* The elements of two lists one behind the other are those of both.       *)
LEMMA ConcatContent == ASSUME NEW S, NEW s \in Seq(S), NEW t \in Seq(S)
                       PROVE  s \o t \in Seq(S) /\ Content(s \o t) = Content(s) \cup Content(t)
<1>1. s \o t \in Seq(S) /\ Content(s \o t) \subseteq Content(s) \cup Content(t) BY ConcatIn
<1>2. ASSUME NEW i \in DOMAIN s PROVE s[i] \in Content(s \o t)
  <2>1. i \in DOMAIN (s \o t) /\ (s \o t)[i] = s[i] OBVIOUS
  <2>2. QED BY <2>1 DEF Content
<1>3. ASSUME NEW i \in DOMAIN t PROVE t[i] \in Content(s \o t)
  <2>1. i + Len(s) \in DOMAIN (s \o t) /\ (s \o t)[i + Len(s)] = t[i] OBVIOUS
  <2>2. QED BY <2>1 DEF Content
<1>4. QED BY <1>1, <1>2, <1>3 DEF Content

(* The first element and the rest are all elements.                        *)
LEMMA HeadContent == ASSUME NEW S, NEW s \in Seq(S), s # << >>
                     PROVE  Content(s) = {Head(s)} \cup Content(Tail(s))
<1>1. Head(s) \in S /\ Tail(s) \in Seq(S) BY HeadIn, TailIn
<1>2. s = <<Head(s)>> \o Tail(s) OBVIOUS
<1>3. <<Head(s)>> \in Seq(S) BY <1>1, OneElement
<1>4. Content(<<Head(s)>>) = {Head(s)} BY DEF Content
<1>5. Content(<<Head(s)>> \o Tail(s)) = Content(<<Head(s)>>) \cup Content(Tail(s))
  <2>1. \A p, q \in Seq(S) : Content(p \o q) = Content(p) \cup Content(q) BY ConcatContent
  <2>2. QED BY <1>1, <1>3, <2>1
<1>6. QED BY <1>2, <1>4, <1>5

(* The keys an object can have.                                            *)
LEMMA KeysAre == ToSet(KeyOrder) = {"color", "extra", "hoverEvent", "text", "translate", "value", "with"}
BY DEF KeyOrder, ToSet

(* The member at a key is a list of at most one visit.                     *)
LEMMA MemberType == ASSUME NEW node \in JSON, NEW key \in ToSet(KeyOrder)
                    PROVE  /\ Member(node, key) \in Seq(Visits)
                           /\ Has(node, key) => /\ <<key, node.members[key]>> \in Visits
                                                /\ node.members[key] \in Inner(node) \cap JSON
                                                /\ Object(node)
                                                /\ Content(Member(node, key)) = {<<key, node.members[key]>>}
                           /\ ~Has(node, key) => Content(Member(node, key)) = {}
<1>1. CASE Has(node, key)
  <2>1. Object(node) BY <1>1, Kinds, KindFields DEF Has
  <2>2. PICK m : m = node.members[key] OBVIOUS
  <2>3. m \in Inner(node) /\ m \in JSON BY <1>1, <2>1, <2>2, KindParts, PartsIn DEF Has
  <2>4. <<key, m>> \in Visits BY <2>3 DEF Visits
  <2>5. Member(node, key) = << <<key, m>> >> BY <1>1, <2>2 DEF Member
  <2>6. << <<key, m>> >> \in Seq(Visits) BY <2>4, OneElement
  <2>7. Content(<< <<key, m>> >>) = {<<key, m>>} BY DEF Content
  <2>8. QED BY <1>1, <2>1, <2>2, <2>3, <2>4, <2>5, <2>6, <2>7
<1>2. CASE ~Has(node, key)
  <2>1. Member(node, key) = << >> BY <1>2 DEF Member
  <2>2. << >> \in Seq(Visits) /\ Content(<< >>) = {} BY DEF Content
  <2>3. QED BY <1>2, <2>1, <2>2
<1>3. QED BY <1>1, <1>2

(* The visits of an object, key by key.                                    *)
LEMMA MembersAre ==
    ASSUME NEW node \in JSON
    PROVE  LET M(key) == Member(node, key)
           IN Members(node) = (((((M("color") \o M("extra")) \o M("hoverEvent")) \o M("text"))
                                  \o M("translate")) \o M("value")) \o M("with")
<1> DEFINE M(key) == Member(node, key)
<1>1. [i \in DOMAIN KeyOrder |-> Member(node, KeyOrder[i])]
         = <<M("color"), M("extra"), M("hoverEvent"), M("text"), M("translate"), M("value"), M("with")>>
  BY DEF KeyOrder
<1>2. \A key \in ToSet(KeyOrder) : M(key) \in Seq(Visits) BY MemberType
<1>3. /\ M("color") \in Seq(Visits) /\ M("extra") \in Seq(Visits) /\ M("hoverEvent") \in Seq(Visits)
      /\ M("text") \in Seq(Visits) /\ M("translate") \in Seq(Visits) /\ M("value") \in Seq(Visits)
      /\ M("with") \in Seq(Visits)
  BY <1>2, KeysAre
<1> HIDE DEF M
<1>4. PICK a, b, c, d, e, f, g \in Seq(Visits) :
         /\ a = M("color") /\ b = M("extra") /\ c = M("hoverEvent") /\ d = M("text")
         /\ e = M("translate") /\ f = M("value") /\ g = M("with")
  BY <1>3
<1>5. Members(node) = FlattenSeq(<<a, b, c, d, e, f, g>>) BY <1>1, <1>4 DEF Members
<1>6. FlattenSeq(<<a, b, c, d, e, f, g>>) = (((((a \o b) \o c) \o d) \o e) \o f) \o g
  <2> DEFINE T == Seq(Visits)
  <2>1. /\ <<a>> \in Seq(T) /\ <<a, b>> \in Seq(T) /\ <<a, b, c>> \in Seq(T) /\ <<a, b, c, d>> \in Seq(T)
        /\ <<a, b, c, d, e>> \in Seq(T) /\ <<a, b, c, d, e, f>> \in Seq(T)
    <3> HIDE DEF T
    <3>1. {a, b, c, d, e, f} \subseteq T BY DEF T
    <3>2. QED BY <3>1
  <2>2. /\ <<a, b>> = Append(<<a>>, b) /\ <<a, b, c>> = Append(<<a, b>>, c)
        /\ <<a, b, c, d>> = Append(<<a, b, c>>, d) /\ <<a, b, c, d, e>> = Append(<<a, b, c, d>>, e)
        /\ <<a, b, c, d, e, f>> = Append(<<a, b, c, d, e>>, f)
        /\ <<a, b, c, d, e, f, g>> = Append(<<a, b, c, d, e, f>>, g)
    OBVIOUS
  <2>3. FlattenSeq(<<a>>) = a BY FlattenOne
  <2>4. FlattenSeq(<<a, b>>) = a \o b BY <2>1, <2>2, <2>3, FlattenAppend
  <2>5. FlattenSeq(<<a, b, c>>) = (a \o b) \o c BY <2>1, <2>2, <2>4, FlattenAppend
  <2>6. FlattenSeq(<<a, b, c, d>>) = ((a \o b) \o c) \o d BY <2>1, <2>2, <2>5, FlattenAppend
  <2>7. FlattenSeq(<<a, b, c, d, e>>) = (((a \o b) \o c) \o d) \o e BY <2>1, <2>2, <2>6, FlattenAppend
  <2>8. FlattenSeq(<<a, b, c, d, e, f>>) = ((((a \o b) \o c) \o d) \o e) \o f
    BY <2>1, <2>2, <2>7, FlattenAppend
  <2>9. QED BY <2>1, <2>2, <2>8, FlattenAppend
<1>7. QED BY <1>4, <1>5, <1>6 DEF M

(* The visits of a value: a part each, with its key, and all of them.      *)
LEMMA ChildrenType ==
    ASSUME NEW node \in JSON
    PROVE  /\ Children(node) \in Seq(Visits)
           /\ Plain(node) => Children(node) = << >> /\ Content(Children(node)) = {}
           /\ List(node) => Content(Children(node)) = {<<"", node.items[i]>> : i \in DOMAIN node.items}
           /\ Object(node) => Content(Children(node)) = {<<key, node.members[key]>> : key \in DOMAIN node.members}
<1>1. CASE Plain(node)
  <2>1. Children(node) = << >> BY <1>1, KindFields DEF Children
  <2>2. << >> \in Seq(Visits) /\ Content(<< >>) = {} BY DEF Content
  <2>3. ~List(node) /\ ~Object(node) BY <1>1, KindFields
  <2>4. QED BY <2>1, <2>2, <2>3
<1>2. CASE List(node)
  <2>1. Children(node) = [i \in DOMAIN node.items |-> <<"", node.items[i]>>]
    BY <1>2, KindFields DEF Children
  <2>2. ASSUME NEW i \in DOMAIN node.items PROVE <<"", node.items[i]>> \in Visits
    <3>1. node.items[i] \in JSON BY <1>2, KindParts, PartsIn
    <3>2. QED BY <3>1 DEF Visits
  <2>3. Len(node.items) \in Nat /\ DOMAIN node.items = 1..Len(node.items) BY <1>2, KindParts
  <2>4. Children(node) \in Seq(Visits)
    <3>1. PICK n \in Nat : DOMAIN node.items = 1..n BY <2>3
    <3>2. PICK f : f = Children(node) OBVIOUS
    <3>3. f = [i \in 1..n |-> f[i]] /\ \A i \in 1..n : f[i] \in Visits BY <2>1, <2>2, <3>1, <3>2
    <3>4. f \in Seq(Visits) BY <3>3
    <3>5. QED BY <3>2, <3>4
  <2>5. Content(Children(node)) = {<<"", node.items[i]>> : i \in DOMAIN node.items} BY <2>1 DEF Content
  <2>6. ~Plain(node) /\ ~Object(node) BY <1>2, KindFields
  <2>7. QED BY <2>4, <2>5, <2>6
<1>3. CASE Object(node)
  <2> DEFINE M(key) == Member(node, key)
  <2>1. Children(node) = Members(node) BY <1>3, KindFields DEF Children
  <2>2. PICK a, b, c, d, e, f, g \in Seq(Visits) :
           /\ a = M("color") /\ b = M("extra") /\ c = M("hoverEvent") /\ d = M("text")
           /\ e = M("translate") /\ f = M("value") /\ g = M("with")
    <3>1. \A key \in ToSet(KeyOrder) : M(key) \in Seq(Visits) BY MemberType
    <3> HIDE DEF M
    <3>2. QED BY <3>1, KeysAre
  <2>3. Members(node) = (((((a \o b) \o c) \o d) \o e) \o f) \o g BY <2>2, MembersAre
  <2>4. Children(node) = (((((a \o b) \o c) \o d) \o e) \o f) \o g BY <2>1, <2>3
  <2>5. /\ Children(node) \in Seq(Visits)
        /\ Content(Children(node)) = Content(a) \cup Content(b) \cup Content(c) \cup Content(d)
                                        \cup Content(e) \cup Content(f) \cup Content(g)
    <3>1. PICK o : o = a \o b OBVIOUS
    <3>2. o \in Seq(Visits) /\ Content(o) = Content(a) \cup Content(b) BY <3>1, ConcatContent
    <3>3. PICK p : p = o \o c OBVIOUS
    <3>4. p \in Seq(Visits) /\ Content(p) = Content(o) \cup Content(c) BY <3>2, <3>3, ConcatContent
    <3>5. PICK q : q = p \o d OBVIOUS
    <3>6. q \in Seq(Visits) /\ Content(q) = Content(p) \cup Content(d) BY <3>4, <3>5, ConcatContent
    <3>7. PICK r : r = q \o e OBVIOUS
    <3>8. r \in Seq(Visits) /\ Content(r) = Content(q) \cup Content(e) BY <3>6, <3>7, ConcatContent
    <3>9. PICK s : s = r \o f OBVIOUS
    <3>10. s \in Seq(Visits) /\ Content(s) = Content(r) \cup Content(f) BY <3>8, <3>9, ConcatContent
    <3>11. s \o g \in Seq(Visits) /\ Content(s \o g) = Content(s) \cup Content(g) BY <3>10, ConcatContent
    <3>12. s \o g = Children(node) BY <2>4, <3>1, <3>3, <3>5, <3>7, <3>9
    <3>13. QED BY <3>2, <3>4, <3>6, <3>8, <3>10, <3>11, <3>12
  <2>6. Content(Children(node)) = UNION {Content(M(key)) : key \in ToSet(KeyOrder)}
    <3>1. Content(Children(node)) = Content(M("color")) \cup Content(M("extra")) \cup Content(M("hoverEvent"))
                               \cup Content(M("text")) \cup Content(M("translate"))
                               \cup Content(M("value")) \cup Content(M("with"))
      BY <2>2, <2>5
    <3> HIDE DEF M
    <3>2. QED BY <3>1, KeysAre
  <2>7. DOMAIN node.members \subseteq ToSet(KeyOrder) BY <1>3 DEF Object
  <2>8. \A key : Has(node, key) <=> key \in DOMAIN node.members BY <1>3, KindFields DEF Has
  <2>9. \A key \in ToSet(KeyOrder) :
            /\ key \in DOMAIN node.members => Content(M(key)) = {<<key, node.members[key]>>}
            /\ key \notin DOMAIN node.members => Content(M(key)) = {}
    BY <2>8, MemberType
  <2> HIDE DEF M
  <2>10. Content(Children(node)) = {<<key, node.members[key]>> : key \in DOMAIN node.members}
    <3> DEFINE V(key) == <<key, node.members[key]>>
    <3>1. \A key \in DOMAIN node.members : Content(M(key)) = {V(key)} BY <2>7, <2>9
    <3>2. \A key \in ToSet(KeyOrder) : key \notin DOMAIN node.members => Content(M(key)) = {} BY <2>9
    <3> HIDE DEF V
    <3>3. UNION {Content(M(key)) : key \in ToSet(KeyOrder)} = {V(key) : key \in DOMAIN node.members}
      <4>1. ASSUME NEW key \in ToSet(KeyOrder), NEW v \in Content(M(key))
            PROVE  v \in {V(k) : k \in DOMAIN node.members}
        <5>1. key \in DOMAIN node.members BY <3>2, <4>1
        <5>2. v = V(key) BY <3>1, <5>1, <4>1
        <5>3. QED BY <5>1, <5>2
      <4>2. ASSUME NEW key \in DOMAIN node.members
            PROVE  V(key) \in UNION {Content(M(k)) : k \in ToSet(KeyOrder)}
        <5>1. key \in ToSet(KeyOrder) /\ V(key) \in Content(M(key)) BY <2>7, <3>1
        <5>2. QED BY <5>1
      <4>3. QED BY <4>1, <4>2
    <3>4. QED BY <2>6, <3>3 DEF V
  <2>11. ~Plain(node) /\ ~List(node) BY <1>3, KindFields
  <2>12. QED BY <2>5, <2>10, <2>11
<1>4. QED BY <1>1, <1>2, <1>3, Kinds

(* The parts that are visited are the parts there are, and a text is       *)
(* visited as a text.                                                      *)
LEMMA VisitsAreParts ==
    ASSUME NEW node \in JSON
    PROVE  /\ \A v \in Content(Children(node)) :
                 /\ v[2] \in Inner(node) \cap JSON
                 /\ v[1] = "text" => Has(node, "text") /\ v[2] = node.members["text"]
           /\ \A part \in Inner(node) : \E v \in Content(Children(node)) : v[2] = part
           /\ Has(node, "text") => <<"text", node.members["text"]>> \in Content(Children(node))
<1>1. CASE Plain(node) BY <1>1, ChildrenType, KindParts, KindFields DEF Has
<1>2. CASE List(node)
  <2>1. Content(Children(node)) = {<<"", node.items[i]>> : i \in DOMAIN node.items} BY <1>2, ChildrenType
  <2>2. Inner(node) = {node.items[i] : i \in DOMAIN node.items} BY <1>2, KindFields DEF Inner, ToSet
  <2>3. ~Has(node, "text") BY <1>2, KindFields DEF Has
  <2>4. ASSUME NEW v \in Content(Children(node)) PROVE v[1] = "" /\ v[2] \in Inner(node)
    <3>1. PICK i \in DOMAIN node.items : v = <<"", node.items[i]>> BY <2>1
    <3>2. QED BY <3>1, <2>2
  <2>5. ASSUME NEW part \in Inner(node) PROVE \E v \in Content(Children(node)) : v[2] = part
    <3>1. PICK i \in DOMAIN node.items : part = node.items[i] BY <2>2
    <3>2. <<"", part>> \in Content(Children(node)) BY <2>1, <3>1
    <3>3. QED BY <3>2
  <2>6. QED BY <2>3, <2>4, <2>5, PartsIn
<1>3. CASE Object(node)
  <2>1. Content(Children(node)) = {<<key, node.members[key]>> : key \in DOMAIN node.members}
    BY <1>3, ChildrenType
  <2>2. Inner(node) = {node.members[key] : key \in DOMAIN node.members} BY <1>3, KindFields DEF Inner
  <2>3. \A key : Has(node, key) <=> key \in DOMAIN node.members BY <1>3, KindFields DEF Has
  <2>4. \A v \in Content(Children(node)) :
           v[1] \in DOMAIN node.members /\ v[2] = node.members[v[1]] /\ v[2] \in Inner(node)
    BY <2>1, <2>2
  <2>5. ASSUME NEW part \in Inner(node) PROVE \E v \in Content(Children(node)) : v[2] = part
    <3>1. PICK key \in DOMAIN node.members : part = node.members[key] BY <2>2
    <3>2. <<key, part>> \in Content(Children(node)) BY <2>1, <3>1
    <3>3. QED BY <3>2
  <2>6. Has(node, "text") => <<"text", node.members["text"]>> \in Content(Children(node)) BY <2>1, <2>3
  <2>7. QED BY <2>3, <2>4, <2>5, <2>6, PartsIn
<1>4. QED BY <1>1, <1>2, <1>3, Kinds

(* Something is odd about a value exactly when it is about a visit of one  *)
(* of its parts.                                                           *)
LEMMA OddChildren == ASSUME NEW node \in JSON
                     PROVE  Numbered(node) <=> \E v \in Content(Children(node)) : Odd(v)
<1>1. Inside[node] = {node} \cup UNION {Inside[part] : part \in Inner(node)} BY InsideDef
<1>2. Numbered(node) <=> \/ Has(node, "text") /\ ~Is("string", node.members["text"])
                         \/ \E part \in Inner(node) : Numbered(part)
  BY <1>1 DEF Numbered
<1>3. ASSUME Has(node, "text"), ~Is("string", node.members["text"])
      PROVE  \E v \in Content(Children(node)) : Odd(v)
  <2>1. <<"text", node.members["text"]>> \in Content(Children(node)) BY <1>3, VisitsAreParts
  <2>2. Odd(<<"text", node.members["text"]>>) BY <1>3 DEF Odd
  <2>3. QED BY <2>1, <2>2
<1>4. ASSUME NEW part \in Inner(node), Numbered(part) PROVE \E v \in Content(Children(node)) : Odd(v)
  <2>1. PICK v \in Content(Children(node)) : v[2] = part BY VisitsAreParts
  <2>2. QED BY <1>4, <2>1 DEF Odd
<1>5. ASSUME NEW v \in Content(Children(node)), Odd(v) PROVE Numbered(node)
  <2>1. CASE v[1] = "text" /\ ~Is("string", v[2]) BY <1>2, <2>1, VisitsAreParts
  <2>2. CASE Numbered(v[2]) BY <1>2, <2>2, VisitsAreParts
  <2>3. QED BY <1>5, <2>1, <2>2 DEF Odd
<1>6. QED BY <1>2, <1>3, <1>4, <1>5

(* What is in a value without parts that belong to a text has none.        *)
LEMMA CalmChildren == ASSUME NEW node \in JSON, ~Nested(node)
                      PROVE  /\ ~((Has(node, "extra") \/ Has(node, "hoverEvent"))
                                     /\ (Has(node, "text") \/ Has(node, "with")))
                             /\ \A v \in Content(Children(node)) : ~Nested(v[2])
<1>1. Inside[node] = {node} \cup UNION {Inside[part] : part \in Inner(node)} BY InsideDef
<1>2. \A part \in Inner(node) : ~Nested(part) BY <1>1 DEF Nested
<1>3. QED BY <1>1, <1>2, VisitsAreParts DEF Nested

-----------------------------------------------------------------------------
\* What a display shows at the key of an object.
Shown(node, key) == IF key = "text" THEN Own(node) ELSE PartOf(node, key, Displayed)

(* The visit of a member prints what is shown at its key.                  *)
LEMMA FaceAt == ASSUME NEW node \in JSON, NEW key \in ToSet(KeyOrder)
                PROVE  /\ Pending(Member(node, key)) = Shown(node, key)
                       /\ Shown(node, key) \in Seq(STRING)
<1>1. CASE Has(node, key)
  <2>1. PICK m : m = node.members[key] OBVIOUS
  <2>2. <<key, m>> \in Visits BY <1>1, <2>1, MemberType
  <2>3. Member(node, key) = << <<key, m>> >> BY <1>1, <2>1 DEF Member
  <2>4. Pending(Member(node, key)) = Face(<<key, m>>) BY <2>2, <2>3, PendingFew
  <2>5. Face(<<key, m>>) = Shown(node, key)
    <3>1. <<key, m>>[1] = key /\ <<key, m>>[2] = m OBVIOUS
    <3>2. CASE key = "text" BY <1>1, <2>1, <3>1, <3>2 DEF Face, Shown, Own
    <3>3. CASE key # "text" BY <1>1, <2>1, <3>1, <3>3 DEF Face, Shown, PartOf
    <3>4. QED BY <3>2, <3>3
  <2>6. QED BY <2>2, <2>4, <2>5, FaceType
<1>2. CASE ~Has(node, key)
  <2>1. Member(node, key) = << >> BY <1>2 DEF Member
  <2>2. Shown(node, key) = << >> BY <1>2 DEF Shown, Own, PartOf
  <2>3. QED BY <2>1, <2>2, PendingFew, NoTexts
<1>3. QED BY <1>1, <1>2

(* A color and a translation show nothing.                                 *)
LEMMA PlainShown == ASSUME NEW node \in JSON, NEW key \in {"color", "translate"}
                    PROVE  Shown(node, key) = << >>
<1>1. CASE Has(node, key)
  <2>1. key \in ToSet(KeyOrder) BY KeysAre
  <2>2. PICK m : m = node.members[key] OBVIOUS
  <2>3. m \in JSON /\ Object(node) BY <1>1, <2>1, <2>2, MemberType
  <2>4. Plain(m) BY <1>1, <2>2, <2>3 DEF Object, Has
  <2>5. Displayed[m] = << >> BY <2>3, <2>4, DisplayedDef, KindFields DEF Shows
  <2>6. key # "text" OBVIOUS
  <2>7. QED BY <1>1, <2>2, <2>5, <2>6 DEF Shown, PartOf
<1>2. CASE ~Has(node, key)
  <2>1. key # "text" OBVIOUS
  <2>2. QED BY <1>2, <2>1 DEF Shown, PartOf
<1>3. QED BY <1>1, <1>2

(* An empty list of texts changes nothing.                                 *)
LEMMA NoMore == ASSUME NEW s \in Seq(STRING) PROVE s \o << >> = s /\ << >> \o s = s
BY ConcatEmptySeq

(* Keys are visited in their alphabetical order, with text between what    *)
(* belongs to it and its arguments.                                        *)
LEMMA PendingMembers ==
    ASSUME NEW node \in JSON, Object(node)
    PROVE  LET S(key) == Shown(node, key)
           IN Pending(Members(node)) = (((S("extra") \o S("hoverEvent")) \o S("text")) \o S("value")) \o S("with")
<1> DEFINE M(key) == Member(node, key)
           S(key) == Shown(node, key)
<1>1. PICK a, b, c, d, e, f, g \in Seq(Visits) :
         /\ a = M("color") /\ b = M("extra") /\ c = M("hoverEvent") /\ d = M("text")
         /\ e = M("translate") /\ f = M("value") /\ g = M("with")
  <2>1. \A key \in ToSet(KeyOrder) : M(key) \in Seq(Visits) BY MemberType
  <2> HIDE DEF M
  <2>2. QED BY <2>1, KeysAre
<1>2. Members(node) = (((((a \o b) \o c) \o d) \o e) \o f) \o g BY <1>1, MembersAre
<1>3. /\ Pending(a) = << >> /\ Pending(b) = S("extra") /\ Pending(c) = S("hoverEvent")
      /\ Pending(d) = S("text") /\ Pending(e) = << >> /\ Pending(f) = S("value") /\ Pending(g) = S("with")
  <2>1. \A key \in ToSet(KeyOrder) : Pending(M(key)) = S(key) BY FaceAt
  <2>2. S("color") = << >> /\ S("translate") = << >> BY PlainShown
  <2> HIDE DEF M, S
  <2>3. QED BY <1>1, <2>1, <2>2, KeysAre
<1>4. /\ S("extra") \in Seq(STRING) /\ S("hoverEvent") \in Seq(STRING) /\ S("text") \in Seq(STRING)
      /\ S("value") \in Seq(STRING) /\ S("with") \in Seq(STRING)
  <2>1. \A key \in ToSet(KeyOrder) : S(key) \in Seq(STRING) BY FaceAt
  <2> HIDE DEF S
  <2>2. QED BY <2>1, KeysAre
<1> HIDE DEF M, S
<1>5. PICK p \in Seq(Visits) : p = a \o b /\ Pending(p) = S("extra")
  <2>1. a \o b \in Seq(Visits) /\ Pending(a \o b) = Pending(a) \o Pending(b) BY ConcatIn, PendingConcat
  <2>2. QED BY <1>3, <1>4, <2>1, NoMore
<1>6. PICK q \in Seq(Visits) : q = p \o c /\ Pending(q) = S("extra") \o S("hoverEvent")
  <2>1. p \o c \in Seq(Visits) /\ Pending(p \o c) = Pending(p) \o Pending(c) BY ConcatIn, PendingConcat
  <2>2. QED BY <1>3, <1>5, <2>1
<1>7. PICK r \in Seq(Visits) : r = q \o d /\ Pending(r) = (S("extra") \o S("hoverEvent")) \o S("text")
  <2>1. q \o d \in Seq(Visits) /\ Pending(q \o d) = Pending(q) \o Pending(d) BY ConcatIn, PendingConcat
  <2>2. QED BY <1>3, <1>6, <2>1
<1>8. PICK s \in Seq(Visits) : s = r \o e /\ Pending(s) = (S("extra") \o S("hoverEvent")) \o S("text")
  <2>1. r \o e \in Seq(Visits) /\ Pending(r \o e) = Pending(r) \o Pending(e) BY ConcatIn, PendingConcat
  <2>2. Pending(r) \in Seq(STRING) BY PendingType
  <2>3. QED BY <1>3, <1>7, <2>1, <2>2, NoMore
<1>9. PICK t \in Seq(Visits) :
         t = s \o f /\ Pending(t) = ((S("extra") \o S("hoverEvent")) \o S("text")) \o S("value")
  <2>1. s \o f \in Seq(Visits) /\ Pending(s \o f) = Pending(s) \o Pending(f) BY ConcatIn, PendingConcat
  <2>2. QED BY <1>3, <1>8, <2>1
<1>10. Pending(t \o g) = Pending(t) \o Pending(g) BY PendingConcat
<1>11. Members(node) = t \o g BY <1>2, <1>5, <1>6, <1>7, <1>8, <1>9
<1>12. QED BY <1>3, <1>9, <1>10, <1>11 DEF S

(* The visits of the parts of a value print what a display shows of it:    *)
(* the same texts as often, and in the same order where nothing belongs to *)
(* a text.                                                                 *)
LEMMA PendingChildren ==
    ASSUME NEW node \in JSON
    PROVE  /\ \A t : Times(t, Pending(Children(node))) = Times(t, Displayed[node])
           /\ ~Nested(node) => Pending(Children(node)) = Displayed[node]
<1>1. CASE Plain(node)
  <2>1. Children(node) = << >> BY <1>1, ChildrenType
  <2>2. Displayed[node] = << >> BY <1>1, DisplayedDef, KindFields DEF Shows
  <2>3. QED BY <2>1, <2>2, PendingFew
<1>2. CASE List(node)
  <2>1. Children(node) = [i \in DOMAIN node.items |-> <<"", node.items[i]>>]
    BY <1>2, KindFields DEF Children
  <2>2. [i \in DOMAIN Children(node) |-> Face(Children(node)[i])]
           = [i \in DOMAIN node.items |-> Displayed[node.items[i]]]
    <3>1. \A i \in DOMAIN node.items : Face(<<"", node.items[i]>>) = Displayed[node.items[i]] BY DEF Face
    <3>2. QED BY <2>1, <3>1
  <2>3. Displayed[node] = FlattenSeq([i \in DOMAIN node.items |-> Displayed[node.items[i]]])
    BY <1>2, DisplayedDef, KindFields DEF Shows
  <2>4. Pending(Children(node)) = Displayed[node] BY <2>2, <2>3 DEF Pending
  <2>5. QED BY <2>4
<1>3. CASE Object(node)
  <2>1. PICK e \in Seq(STRING), h \in Seq(STRING), o \in Seq(STRING), v \in Seq(STRING), w \in Seq(STRING) :
           /\ e = Shown(node, "extra") /\ h = Shown(node, "hoverEvent") /\ o = Shown(node, "text")
           /\ v = Shown(node, "value") /\ w = Shown(node, "with")
    <3>1. \A key \in ToSet(KeyOrder) : Shown(node, key) \in Seq(STRING) BY FaceAt
    <3>2. QED BY <3>1, KeysAre
  <2>2. Children(node) = Members(node) BY <1>3, KindFields DEF Children
  <2>3. Pending(Children(node)) = (((e \o h) \o o) \o v) \o w BY <1>3, <2>1, <2>2, PendingMembers
  <2>4. Displayed[node] = (((o \o w) \o e) \o h) \o v
    <3>1. Displayed[node] = Own(node) \o PartOf(node, "with", Displayed) \o PartOf(node, "extra", Displayed)
                               \o PartOf(node, "hoverEvent", Displayed) \o PartOf(node, "value", Displayed)
      BY <1>3, DisplayedDef, KindFields DEF Shows
    <3>2. QED BY <2>1, <3>1 DEF Shown
  <2>5. ASSUME NEW t PROVE Times(t, Pending(Children(node))) = Times(t, Displayed[node])
    <3> DEFINE n(s) == Times(t, s)
    <3>1. \A x, y \in Seq(STRING) : n(x) \in Nat /\ x \o y \in Seq(STRING) /\ n(x \o y) = n(x) + n(y)
      BY TimesConcat, ConcatIn
    <3> HIDE DEF n
    <3>2. n((((e \o h) \o o) \o v) \o w) = (((n(e) + n(h)) + n(o)) + n(v)) + n(w)
      <4>1. PICK a \in Seq(STRING) : a = e \o h /\ n(a) = n(e) + n(h) BY <3>1
      <4>2. PICK b \in Seq(STRING) : b = a \o o /\ n(b) = n(a) + n(o) BY <3>1
      <4>3. PICK c \in Seq(STRING) : c = b \o v /\ n(c) = n(b) + n(v) BY <3>1
      <4>4. n(c \o w) = n(c) + n(w) BY <3>1
      <4>5. QED BY <4>1, <4>2, <4>3, <4>4
    <3>3. n((((o \o w) \o e) \o h) \o v) = (((n(o) + n(w)) + n(e)) + n(h)) + n(v)
      <4>1. PICK a \in Seq(STRING) : a = o \o w /\ n(a) = n(o) + n(w) BY <3>1
      <4>2. PICK b \in Seq(STRING) : b = a \o e /\ n(b) = n(a) + n(e) BY <3>1
      <4>3. PICK c \in Seq(STRING) : c = b \o h /\ n(c) = n(b) + n(h) BY <3>1
      <4>4. n(c \o v) = n(c) + n(v) BY <3>1
      <4>5. QED BY <4>1, <4>2, <4>3, <4>4
    <3>4. n(e) \in Nat /\ n(h) \in Nat /\ n(o) \in Nat /\ n(v) \in Nat /\ n(w) \in Nat BY <3>1
    <3>5. (((n(e) + n(h)) + n(o)) + n(v)) + n(w) = (((n(o) + n(w)) + n(e)) + n(h)) + n(v) BY <3>4
    <3>6. QED BY <2>3, <2>4, <3>2, <3>3, <3>5 DEF n
  <2>6. ASSUME ~Nested(node) PROVE Pending(Children(node)) = Displayed[node]
    <3>1. \A key : ~Has(node, key) => Shown(node, key) = << >> BY DEF Shown, Own, PartOf
    <3>2. CASE Has(node, "value")
      <4>1. DOMAIN node.members = {"value"} BY <1>3, <3>2 DEF Object
      <4>2. \A key : key # "value" => ~Has(node, key) BY <4>1 DEF Has
      <4>3. e = << >> /\ h = << >> /\ o = << >> /\ w = << >>
        <5>1. ~Has(node, "extra") /\ ~Has(node, "hoverEvent") /\ ~Has(node, "text") /\ ~Has(node, "with")
          BY <4>2
        <5>2. QED BY <2>1, <3>1, <5>1
      <4>4. Pending(Children(node)) = v BY <2>3, <4>3, NoMore
      <4>5. Displayed[node] = v BY <2>4, <4>3, NoMore
      <4>6. QED BY <4>4, <4>5
    <3>3. CASE ~Has(node, "value") /\ ~Has(node, "extra") /\ ~Has(node, "hoverEvent")
      <4>1. e = << >> /\ h = << >> /\ v = << >> BY <2>1, <3>1, <3>3
      <4>2. o \o w \in Seq(STRING) BY ConcatIn
      <4>3. Pending(Children(node)) = o \o w BY <2>3, <4>1, NoMore
      <4>4. Displayed[node] = o \o w BY <2>4, <4>1, <4>2, NoMore
      <4>5. QED BY <4>3, <4>4
    <3>4. CASE ~Has(node, "value") /\ ~Has(node, "text") /\ ~Has(node, "with")
      <4>1. o = << >> /\ w = << >> /\ v = << >> BY <2>1, <3>1, <3>4
      <4>2. e \o h \in Seq(STRING) BY ConcatIn
      <4>3. Pending(Children(node)) = e \o h BY <2>3, <4>1, <4>2, NoMore
      <4>4. Displayed[node] = e \o h BY <2>4, <4>1, <4>2, NoMore
      <4>5. QED BY <4>3, <4>4
    <3>5. QED BY <2>6, <3>2, <3>3, <3>4, CalmChildren
  <2>7. QED BY <2>5, <2>6
<1>4. QED BY <1>1, <1>2, <1>3, Kinds

-----------------------------------------------------------------------------
(***************************************************************************)
(* The walk.  What is printed, with what the visits to come will print,    *)
(* has the texts of the message as often as a display, in its order where  *)
(* nothing belongs to a text; and a visit to come is odd exactly when the  *)
(* message has a text that is not a string.                                *)
(***************************************************************************)
Walking ==
    /\ Is("members", value) /\ ~IsPlayerChat(value)
    /\ todo \in Seq(Visits) /\ data \in Seq(STRING)
    /\ \A t : Times(t, data \o Pending(todo)) = Times(t, Displayed[value])
    /\ ~Nested(value) => /\ \A v \in Content(todo) : ~Nested(v[2])
                         /\ data \o Pending(todo) = Displayed[value]
    /\ Numbered(value) <=> \E v \in Content(todo) : Odd(v)

ChatInv ==
    kind = "Chat" =>
        /\ value \in Components /\ wire = value
        /\ pc \in {"start", "visit", "shown", "thrown"}
        /\ pc = "start" => data = << >>
        /\ pc = "visit" => Walking
        /\ ChatsRead

(* At first nothing is printed.                                            *)
LEMMA ChatInit == Init => ChatInv
BY DEF Init, Wires, ChatInv, ChatsRead

(* What comes behind changes nothing at the front.                         *)
LEMMA FirstStays == ASSUME NEW S, NEW x \in Seq(S), NEW y \in Seq(S), x # << >>
                    PROVE  x \o y \in Seq(S) /\ x \o y # << >> /\ Head(x \o y) = Head(x)
<1>1. Len(x) \in Nat /\ Len(x) > 0 /\ x \o y \in Seq(S) /\ Len(x \o y) = Len(x) + Len(y) OBVIOUS
<1>2. Len(y) \in Nat OBVIOUS
<1>3. x \o y # << >> BY <1>1, <1>2
<1>4. Head(x \o y) = (x \o y)[1] /\ Head(x) = x[1] OBVIOUS
<1>5. (x \o y)[1] = x[1] BY <1>1
<1>6. QED BY <1>1, <1>3, <1>4, <1>5

(* Of a line of a player the first text of the name is its own text.       *)
LEMMA NameShown == ASSUME NEW node \in JSON, Has(node, "text"), Is("string", node.members["text"])
                   PROVE  Head(Displayed[node]) = node.members["text"].string
<1>1. Object(node) BY Kinds, KindFields DEF Has
<1>2. PICK m \in JSON : m = node.members["text"] BY <1>1, KindParts, PartsIn DEF Has
<1>3. PICK s \in STRING : s = m.string BY <1>2, StringText
<1>4. Own(node) = <<s>> BY <1>2, <1>3 DEF Own
<1>5. PICK a \in Seq(STRING), b \in Seq(STRING), c \in Seq(STRING), d \in Seq(STRING) :
         /\ a = PartOf(node, "with", Displayed) /\ b = PartOf(node, "extra", Displayed)
         /\ c = PartOf(node, "hoverEvent", Displayed) /\ d = PartOf(node, "value", Displayed)
  <2>1. \A part \in Inner(node) : Displayed[part] \in Seq(STRING) BY PartsIn, DisplayedType
  <2>2. QED BY <2>1, PartShown
<1>6. Displayed[node] = (((<<s>> \o a) \o b) \o c) \o d
  BY <1>1, <1>4, <1>5, DisplayedDef, KindFields DEF Shows
<1>7. <<s>> \in Seq(STRING) BY OneElement
<1>8. \A x, y \in Seq(STRING) : x # << >> =>
         x \o y \in Seq(STRING) /\ x \o y # << >> /\ Head(x \o y) = Head(x)
  BY FirstStays
<1>9. <<s>> # << >> /\ Head(<<s>>) = s OBVIOUS
<1>10. PICK x \in Seq(STRING) : x = <<s>> \o a /\ x # << >> /\ Head(x) = s BY <1>7, <1>8, <1>9
<1>11. PICK y \in Seq(STRING) : y = x \o b /\ y # << >> /\ Head(y) = s BY <1>8, <1>10
<1>12. PICK z \in Seq(STRING) : z = y \o c /\ z # << >> /\ Head(z) = s BY <1>8, <1>11
<1>13. Head(z \o d) = s BY <1>8, <1>12
<1>14. QED BY <1>2, <1>3, <1>6, <1>10, <1>11, <1>12, <1>13

(* The first step: what throws at once, a line of a player, or the walk.   *)
LEMMA ChatStarted == ASSUME ChatInv, ChatStart PROVE ChatInv'
<1>1. kind = "Chat" /\ pc = "start" /\ value \in Components /\ wire = value /\ data = << >>
  BY DEF ChatStart, ChatInv
<1>2. kind' = kind /\ value' = value /\ wire' = wire BY DEF ChatStart
<1>3. value \in JSON BY <1>1, MessagesIn
<1>4. CASE pc' = "thrown" /\ (~Is("members", wire) \/ (IsPlayerChat(wire) /\ ~NamedMessage(wire)))
  <2>1. ChatsRead' BY <1>1, <1>2, <1>4 DEF ChatsRead
  <2>2. QED BY <1>1, <1>2, <1>4, <2>1 DEF ChatInv
<1>5. CASE /\ Is("members", wire) /\ IsPlayerChat(wire) /\ NamedMessage(wire)
           /\ pc' = "shown"
           /\ LET args == wire.members["with"].items
              IN data' = <<args[1].members["text"].string, args[2].string>>
  <2>1. PICK list : list = value.members["with"] OBVIOUS
  <2>2. Object(value) BY <1>1, <1>3, <1>5, Kinds, KindFields
  <2>3. Is("items", list) /\ Len(list.items) >= 2 /\ Has(value, "with")
    BY <1>1, <1>5, <2>1 DEF NamedMessage
  <2>4. list \in JSON BY <1>3, <2>1, <2>2, <2>3, KindParts, PartsIn DEF Has
  <2>5. List(list) BY <2>3, <2>4, Kinds, KindFields
  <2>6. 1 \in DOMAIN list.items BY <2>3, <2>5, KindParts
  <2>7. PICK name : name = list.items[1] OBVIOUS
  <2>8. name \in JSON BY <2>4, <2>5, <2>6, <2>7, KindParts, PartsIn
  <2>9. Has(name, "text") /\ Is("string", name.members["text"])
    BY <1>1, <1>5, <2>1, <2>7 DEF NamedMessage
  <2>10. Head(Displayed[name]) = name.members["text"].string BY <2>8, <2>9, NameShown
  <2>11. data' = <<Head(Displayed[value.members["with"].items[1]]), value.members["with"].items[2].string>>
    BY <1>1, <1>5, <2>1, <2>7, <2>10
  <2>12. ChatsRead' BY <1>1, <1>2, <1>5, <2>11 DEF ChatsRead
  <2>13. QED BY <1>1, <1>2, <1>5, <2>12 DEF ChatInv
<1>6. CASE /\ Is("members", wire) /\ ~IsPlayerChat(wire)
           /\ pc' = "visit" /\ todo' = Members(wire) /\ UNCHANGED data
  <2>1. todo' = Children(value)
    <3>1. Object(value) BY <1>1, <1>3, <1>6, Kinds, KindFields
    <3>2. Children(value) = Members(value) BY <3>1, KindFields DEF Children
    <3>3. QED BY <1>1, <1>6, <3>2
  <2>2. Children(value) \in Seq(Visits) BY <1>3, ChildrenType
  <2>3. Pending(Children(value)) \in Seq(STRING) BY <2>2, PendingType
  <2>4. data' = << >> /\ data' \o Pending(todo') = Pending(Children(value)) BY <1>1, <1>6, <2>1, <2>3, NoMore
  <2>5. Walking'
    <3>1. \A t : Times(t, data' \o Pending(todo')) = Times(t, Displayed[value])
      BY <1>3, <2>4, PendingChildren
    <3>2. ~Nested(value) => data' \o Pending(todo') = Displayed[value] BY <1>3, <2>4, PendingChildren
    <3>3. ~Nested(value) => \A v \in Content(todo') : ~Nested(v[2]) BY <1>3, <2>1, CalmChildren
    <3>4. Numbered(value) <=> \E v \in Content(todo') : Odd(v) BY <1>3, <2>1, OddChildren
    <3>5. data' \in Seq(STRING) BY <2>4, NoTexts
    <3>6. QED BY <1>1, <1>2, <1>6, <2>1, <2>2, <3>1, <3>2, <3>3, <3>4, <3>5 DEF Walking
  <2>6. ChatsRead' BY <1>6 DEF ChatsRead
  <2>7. QED BY <1>1, <1>2, <1>6, <2>5, <2>6 DEF ChatInv
<1>7. QED BY <1>4, <1>5, <1>6 DEF ChatStart

(* A visit prints a text or puts the visits of the parts in its place.     *)
LEMMA ChatVisited == ASSUME ChatInv, kind = "Chat", ChatVisit PROVE ChatInv'
<1>1. /\ pc = "visit" /\ todo # << >> /\ Walking /\ value \in Components /\ wire = value
      /\ kind' = kind /\ value' = value /\ wire' = wire
  BY DEF ChatVisit, ChatInv
<1>2. PICK v \in Visits : v = Head(todo) BY <1>1, PendingHead DEF Walking
<1>3. PICK later \in Seq(Visits) : later = Tail(todo) BY <1>1, PendingHead DEF Walking
<1>4. Pending(todo) = Face(v) \o Pending(later) BY <1>1, <1>2, <1>3, PendingHead DEF Walking
<1>5. Content(todo) = {v} \cup Content(later) BY <1>1, <1>2, <1>3, HeadContent DEF Walking
<1>6. v[2] \in JSON
  <2> DEFINE K == ToSet(KeyOrder) \cup {""}
  <2> HIDE DEF K
  <2>1. v \in K \X JSON BY DEF Visits, K
  <2>2. QED BY <2>1
<1>7. PICK d \in Seq(STRING) : d = data BY <1>1 DEF Walking
<1>8. PICK p \in Seq(STRING) : p = Pending(later) BY PendingType
<1>9. CASE v[1] = "text" /\ ~Is("string", v[2])
  <2>1. pc' = "thrown" BY <1>2, <1>9 DEF ChatVisit
  <2>2. Odd(v) BY <1>9 DEF Odd
  <2>3. Numbered(value) BY <1>1, <1>5, <2>2 DEF Walking
  <2>4. ChatsRead' BY <1>1, <2>1, <2>3 DEF ChatsRead, Walking
  <2>5. QED BY <1>1, <2>1, <2>4 DEF ChatInv
<1>10. CASE ~(v[1] = "text" /\ ~Is("string", v[2]))
  <2>1. /\ pc' = pc /\ todo' = Children(v[2]) \o later
        /\ data' = IF v[1] = "text" THEN Append(data, v[2].string) ELSE data
    BY <1>2, <1>3, <1>10 DEF ChatVisit
  <2>2. /\ data' \in Seq(STRING) /\ todo' \in Seq(Visits)
        /\ \A t : Times(t, data' \o Pending(todo')) = Times(t, d \o (Face(v) \o p))
        /\ ~Nested(v[2]) => data' \o Pending(todo') = d \o (Face(v) \o p)
        /\ Content(todo') = Content(Children(v[2])) \cup Content(later)
        /\ Odd(v) <=> \E w \in Content(Children(v[2])) : Odd(w)
    <3>1. Children(v[2]) \in Seq(Visits) BY <1>6, ChildrenType
    <3>2. todo' \in Seq(Visits) /\ Content(todo') = Content(Children(v[2])) \cup Content(later)
      BY <2>1, <3>1, ConcatContent
    <3>3. PICK c \in Seq(STRING) : c = Pending(Children(v[2])) BY <3>1, PendingType
    <3>4. Pending(todo') = c \o p BY <1>8, <2>1, <3>1, <3>3, PendingConcat
    <3>5. CASE v[1] = "text"
      <4>1. Plain(v[2]) /\ v[2].string \in STRING BY <1>6, <1>10, <3>5, StringText
      <4>2. Children(v[2]) = << >> /\ Content(Children(v[2])) = {} BY <1>6, <4>1, ChildrenType
      <4>3. PICK s \in STRING : s = v[2].string BY <4>1
      <4>4. c = << >> BY <3>3, <4>2, PendingFew
      <4>5. Pending(todo') = p BY <3>4, <4>4, NoMore
      <4>6. Face(v) = <<s>> BY <1>10, <3>5, <4>3 DEF Face
      <4>7. data' = d \o <<s>> /\ d \o <<s>> \in Seq(STRING) /\ <<s>> \in Seq(STRING)
        BY <1>7, <2>1, <3>5, <4>3, AppendIsConcat, OneElement, ConcatIn
      <4>8. data' \o Pending(todo') = d \o (Face(v) \o p) BY <4>5, <4>6, <4>7, TextsRegroup
      <4>9. ~Odd(v)
        <5>1. Inner(v[2]) = {} /\ ~Has(v[2], "text") BY <4>1, KindParts, KindFields DEF Has
        <5>2. Inside[v[2]] = {v[2]} BY <1>6, <5>1, InsideDef
        <5>3. ~Numbered(v[2]) BY <5>1, <5>2 DEF Numbered
        <5>4. QED BY <1>10, <3>5, <5>3 DEF Odd
      <4>10. QED BY <3>2, <4>2, <4>7, <4>8, <4>9
    <3>6. CASE v[1] # "text"
      <4>1. data' = d BY <1>7, <2>1, <3>6
      <4>2. PICK f \in Seq(STRING) : f = Face(v) /\ f = Displayed[v[2]]
        BY <1>6, <3>6, DisplayedType DEF Face
      <4>3. ASSUME NEW t PROVE Times(t, d \o (c \o p)) = Times(t, d \o (f \o p))
        <5>1. Times(t, c) = Times(t, f) BY <1>6, <3>3, <4>2, PendingChildren
        <5>2. c \o p \in Seq(STRING) /\ f \o p \in Seq(STRING) BY ConcatIn
        <5>3. Times(t, c \o p) = Times(t, c) + Times(t, p) BY TimesConcat
        <5>4. Times(t, f \o p) = Times(t, f) + Times(t, p) BY TimesConcat
        <5>5. Times(t, d \o (c \o p)) = Times(t, d) + Times(t, c \o p) BY <5>2, TimesConcat
        <5>6. Times(t, d \o (f \o p)) = Times(t, d) + Times(t, f \o p) BY <5>2, TimesConcat
        <5>7. QED BY <5>1, <5>3, <5>4, <5>5, <5>6
      <4>4. ~Nested(v[2]) => c = f BY <1>6, <3>3, <4>2, PendingChildren
      <4>5. Odd(v) <=> \E w \in Content(Children(v[2])) : Odd(w) BY <1>6, <3>6, OddChildren DEF Odd
      <4>6. QED BY <3>2, <3>4, <4>1, <4>2, <4>3, <4>4, <4>5
    <3>7. QED BY <3>5, <3>6
  <2>3. Walking'
    <3>1. \A t : Times(t, d \o (Face(v) \o p)) = Times(t, Displayed[value])
      BY <1>1, <1>4, <1>7, <1>8 DEF Walking
    <3>2. \A t : Times(t, data' \o Pending(todo')) = Times(t, Displayed[value]) BY <2>2, <3>1
    <3>3. ASSUME ~Nested(value)
          PROVE  data' \o Pending(todo') = Displayed[value] /\ \A w \in Content(todo') : ~Nested(w[2])
      <4>1. d \o (Face(v) \o p) = Displayed[value] BY <1>1, <1>4, <1>7, <1>8, <3>3 DEF Walking
      <4>2. \A w \in Content(todo) : ~Nested(w[2]) BY <1>1, <3>3 DEF Walking
      <4>3. ~Nested(v[2]) BY <1>5, <4>2
      <4>4. \A w \in Content(Children(v[2])) : ~Nested(w[2]) BY <1>6, <4>3, CalmChildren
      <4>5. QED BY <1>5, <2>2, <4>1, <4>2, <4>3, <4>4
    <3>4. Numbered(value) <=> \E w \in Content(todo') : Odd(w)
      <4>1. Numbered(value) <=> \E w \in Content(todo) : Odd(w) BY <1>1 DEF Walking
      <4>2. (\E w \in Content(todo) : Odd(w)) <=> Odd(v) \/ \E w \in Content(later) : Odd(w) BY <1>5
      <4>3. (\E w \in Content(todo') : Odd(w))
               <=> (\E w \in Content(Children(v[2])) : Odd(w)) \/ \E w \in Content(later) : Odd(w)
        BY <2>2
      <4>4. QED BY <2>2, <4>1, <4>2, <4>3
    <3>5. Is("members", value) /\ ~IsPlayerChat(value) BY <1>1 DEF Walking
    <3>6. QED BY <1>1, <2>2, <3>2, <3>3, <3>4, <3>5 DEF Walking
  <2>4. ChatsRead' BY <1>1, <2>1 DEF ChatsRead
  <2>5. QED BY <1>1, <2>1, <2>3, <2>4 DEF ChatInv
<1>11. QED BY <1>9, <1>10

(* The end of the walk.                                                    *)
LEMMA ChatEnded == ASSUME ChatInv, kind = "Chat", ChatDone PROVE ChatInv'
<1>1. /\ pc = "visit" /\ todo = << >> /\ pc' = "shown" /\ Walking /\ value \in Components /\ wire = value
      /\ kind' = kind /\ value' = value /\ wire' = wire /\ data' = data
  BY DEF ChatDone, ChatInv
<1>2. data \o Pending(todo) = data
  <2>1. data \in Seq(STRING) BY <1>1 DEF Walking
  <2>2. Pending(todo) = << >> BY <1>1, PendingFew
  <2>3. QED BY <2>1, <2>2, NoMore
<1>3. \A t : Times(t, data) = Times(t, Displayed[value]) BY <1>1, <1>2 DEF Walking
<1>4. ~Nested(value) => data = Displayed[value] BY <1>1, <1>2 DEF Walking
<1>5. ~Numbered(value)
  <2>1. Content(todo) = {} BY <1>1 DEF Content
  <2>2. QED BY <1>1, <2>1 DEF Walking
<1>6. Is("members", value) /\ ~IsPlayerChat(value) BY <1>1 DEF Walking
<1>7. ChatsRead' BY <1>1, <1>3, <1>4, <1>5, <1>6 DEF ChatsRead
<1>8. QED BY <1>1, <1>7 DEF ChatInv

(* Every step of the client keeps the invariant of the walk.               *)
LEMMA ChatStep == ChatInv /\ [Next]_vars => ChatInv'
<1> SUFFICES ASSUME ChatInv, [Next]_vars PROVE ChatInv' OBVIOUS
<1>1. CASE UNCHANGED vars BY <1>1 DEF vars, ChatInv, ChatsRead, Walking
<1>2. CASE kind # "Chat"
  <2>1. kind' = kind
    BY DEF Next, vars, ReadByte, DecodeByte, WriteGroup, ReceivePosition, SendPosition,
           ChatStart, ChatVisit, ChatDone
  <2>2. QED BY <1>2, <2>1 DEF ChatInv
<1>3. CASE kind = "Chat" /\ Next
  <2>1. pc \in {"start", "visit", "shown", "thrown"} BY <1>3 DEF ChatInv
  <2>2. ~ReadByte /\ ~DecodeByte /\ ~WriteGroup /\ ~ReceivePosition /\ ~SendPosition
    BY <1>3, <2>1 DEF ReadByte, DecodeByte, WriteGroup, ReceivePosition, SendPosition
  <2>3. QED BY <1>3, <2>2, ChatStarted, ChatVisited, ChatEnded DEF Next
<1>4. QED BY <1>1, <1>2, <1>3

(* What Chat makes of a message of any size and shape: every text as often *)
(* as a display shows it, in that order unless something belongs to a      *)
(* text; the name and the message of a player; and it throws for exactly   *)
(* the four kinds of messages (chat.cpp:7-28).                             *)
THEOREM ChatsAreRead == Spec => []ChatsRead
<1>1. ChatInv => ChatsRead BY DEF ChatInv, ChatsRead
<1>2. QED BY <1>1, ChatInit, ChatStep, PTL DEF Spec

=============================================================================
