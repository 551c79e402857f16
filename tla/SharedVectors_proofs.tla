------------------------- MODULE SharedVectors_proofs -------------------------
(***************************************************************************)
(* The comparisons, the adders and the division of shared vectors are      *)
(* right for words of every width and operands of any size.                *)
(***************************************************************************)
EXTENDS SharedVectors, Division_proofs, FiniteSetTheorems

DP == INSTANCE Shares_proofs

\* The numbers of a word.
Numbers == -(2 ^ digits) .. 2 ^ digits - 1

LEMMA WidthFacts ==
  /\ Width \in Nat
  /\ Width >= 2
  /\ digits \in Nat
  /\ digits + 1 = Width
  /\ Bits = 0 .. digits
  /\ 2 ^ 0 = 1
  /\ \A n \in 0 .. Width : 2 ^ n \in Nat \ {0} /\ 2 ^ (n + 1) = 2 * 2 ^ n
<1>1. Width \in Nat /\ \E k \in 1 .. 6 : Width = 2 ^ k
  BY WordsAssumption
<1>2. PICK k \in 1 .. 6 : Width = 2 ^ k
  BY <1>1
<1>3. 2 ^ 0 = 1 /\ \A n \in 0 .. 5 : 2 ^ n \in Nat \ {0} /\ 2 ^ (n + 1) = 2 * 2 ^ n
  BY <1>1, PowersAssumption
<1>4. 2 ^ 1 = 2 /\ 2 ^ 2 = 4 /\ 2 ^ 3 = 8 /\ 2 ^ 4 = 16 /\ 2 ^ 5 = 32 /\ 2 ^ 6 = 64
  BY <1>3
<1>5. Width >= 2
  <2>1. k \in {1, 2, 3, 4, 5, 6}
    OBVIOUS
  <2>2. Width \in {2 ^ 1, 2 ^ 2, 2 ^ 3, 2 ^ 4, 2 ^ 5, 2 ^ 6}
    BY <1>2, <2>1, Zenon
  <2> QED
    BY <1>4, <2>2
<1>6. \A n \in 0 .. Width : 2 ^ n \in Nat \ {0} /\ 2 ^ (n + 1) = 2 * 2 ^ n
  BY <1>1, PowersAssumption
<1> QED
  BY <1>1, <1>3, <1>5, <1>6 DEF digits, Bits

\* A bit is what the quotients of consecutive powers differ in.
LEMMA WordBit ==
  ASSUME NEW n \in Int, NEW b \in Bits
  PROVE  /\ n \div 2 ^ b \in Int
         /\ n \div 2 ^ (b + 1) \in Int
         /\ n \div 2 ^ b = 2 * (n \div 2 ^ (b + 1)) + (IF Word(n)[b] THEN 1 ELSE 0)
<1>1. 2 ^ b \in Nat \ {0} /\ 2 ^ (b + 1) = 2 * 2 ^ b /\ 2 ^ (b + 1) \in Nat \ {0}
  <2>1. b \in 0 .. Width /\ b + 1 \in 0 .. Width
    BY WidthFacts
  <2> QED
    BY <2>1, WidthFacts
<1>2. n \div 2 ^ b \in Int /\ n \div 2 ^ (b + 1) \in Int
  BY <1>1, DivModInt
<1>3. /\ n \div 2 ^ b = 2 * (n \div 2 ^ (b + 1)) + ((n \div 2 ^ b) % 2)
      /\ (n \div 2 ^ b) % 2 \in {0, 1}
  BY <1>1, ModDouble
<1>4. Word(n)[b] <=> (n \div 2 ^ b) % 2 = 1
  BY DEF Word
<1> QED
  BY <1>2, <1>3, <1>4

\* The highest bit is the sign.
LEMMA SignBit ==
  ASSUME NEW n \in Numbers
  PROVE  /\ n \in Int
         /\ n \div 2 ^ digits = (IF n < 0 THEN -1 ELSE 0)
         /\ Word(n)[digits] <=> n < 0
<1> DEFINE P == 2 ^ digits
<1>1. P \in Nat \ {0} /\ digits \in Bits
  BY WidthFacts
<1>2. n \in Int /\ n >= -P /\ n < P
  BY <1>1 DEF Numbers
<1>3. n \div P = (IF n < 0 THEN -1 ELSE 0)
  <2> HIDE DEF P
  <2>1. CASE n < 0
    <3>1. n = P * (-1) + (n + P) /\ n + P \in 0 .. P - 1
      BY <1>1, <1>2, <2>1
    <3> QED
      BY <1>1, <1>2, <2>1, <3>1, DivUnique
  <2>2. CASE n >= 0
    <3>1. n = P * 0 + n /\ n \in 0 .. P - 1
      BY <1>1, <1>2, <2>2
    <3> QED
      BY <1>1, <1>2, <2>2, <3>1, DivUnique
  <2> QED
    BY <1>2, <2>1, <2>2
<1>4. (n \div P) % 2 = (IF n < 0 THEN 1 ELSE 0)
  BY <1>2, <1>3
<1>5. Word(n)[digits] <=> (n \div P) % 2 = 1
  BY <1>1 DEF Word
<1> QED
  BY <1>2, <1>3, <1>4, <1>5

\* Words that agree from a bit on have the same quotient there.
LEMMA SameAbove ==
  ASSUME NEW x \in Numbers, NEW y \in Numbers, NEW c \in Bits,
         \A d \in c .. digits : (Word(x)[d] <=> Word(y)[d])
  PROVE  x \div 2 ^ c = y \div 2 ^ c
<1> DEFINE S == {d \in c .. digits : x \div 2 ^ d # y \div 2 ^ d}
<1>0. x \in Int /\ y \in Int
  BY SignBit
<1>1. c \in Nat /\ c <= digits /\ digits \in Nat /\ x \in Int /\ y \in Int
  BY <1>0, WidthFacts
<1>2. SUFFICES ASSUME S # {} PROVE FALSE
  <2>1. c \in c .. digits
    BY <1>1
  <2> QED
    BY <2>1
<1>3. PICK m \in S : \A d \in S : d <= m
  <2>1. S \subseteq 0 .. digits
    BY <1>1
  <2> HIDE DEF S
  <2> QED
    BY <1>1, <1>2, <2>1, Greatest
<1>4. m \in Bits /\ m \in c .. digits /\ x \div 2 ^ m # y \div 2 ^ m
  BY <1>1, WidthFacts
<1>5. m # digits
  <2>1. digits \in c .. digits
    BY <1>1
  <2>2. Word(x)[digits] <=> Word(y)[digits]
    BY <2>1
  <2> QED
    BY <1>4, <2>2, SignBit
<1>6. m + 1 \in c .. digits /\ m + 1 \notin S
  <2>1. ~(m + 1 <= m)
    BY <1>1, <1>4
  <2> HIDE DEF S
  <2> QED
    BY <1>1, <1>3, <1>4, <1>5, <2>1
<1>7. x \div 2 ^ (m + 1) = y \div 2 ^ (m + 1)
  BY <1>6
<1>8. Word(x)[m] <=> Word(y)[m]
  BY <1>4
<1>9. \A n \in {x, y} :
        n \div 2 ^ m = 2 * (n \div 2 ^ (m + 1)) + (IF Word(n)[m] THEN 1 ELSE 0)
  BY <1>1, <1>4, WordBit
<1> QED
  BY <1>4, <1>7, <1>8, <1>9

\* Signed numbers are ordered by the first bit, from the highest on, in which
\* they differ.
LEMMA Order ==
  ASSUME NEW x \in Numbers, NEW y \in Numbers
  PROVE  /\ (\A d \in Bits : (Word(x)[d] <=> Word(y)[d])) => x = y
         /\ \A c \in Bits :
              /\ \A d \in c + 1 .. digits : (Word(x)[d] <=> Word(y)[d])
              /\ Word(x)[c]
              /\ ~Word(y)[c]
              => IF c = digits THEN x < y ELSE x > y
<1>0. x \in Int /\ y \in Int /\ digits \in Nat /\ Bits = 0 .. digits
  BY WidthFacts, SignBit
<1>1. (\A d \in Bits : (Word(x)[d] <=> Word(y)[d])) => x = y
  <2> SUFFICES ASSUME \A d \in Bits : (Word(x)[d] <=> Word(y)[d]) PROVE x = y
    OBVIOUS
  <2>1. 0 \in Bits
    BY <1>0
  <2>2. x \div 2 ^ 0 = y \div 2 ^ 0
    BY <1>0, <2>1, SameAbove
  <2>3. x \div 1 = x /\ y \div 1 = y
    BY <1>0
  <2> QED
    BY <2>2, <2>3, WidthFacts
<1>2. ASSUME NEW c \in Bits,
             \A d \in c + 1 .. digits : (Word(x)[d] <=> Word(y)[d]),
             Word(x)[c],
             ~Word(y)[c]
      PROVE  IF c = digits THEN x < y ELSE x > y
  <2>1. CASE c = digits
    <3>1. x < 0 /\ ~(y < 0)
      BY <1>2, <2>1, SignBit
    <3> QED
      BY <1>0, <2>1, <3>1
  <2>2. CASE c # digits
    <3>1. c + 1 \in Bits /\ c \in Nat
      BY <1>0, <2>2
    <3>2. x \div 2 ^ (c + 1) = y \div 2 ^ (c + 1)
      BY <1>2, <3>1, SameAbove
    <3>3. x \div 2 ^ c > y \div 2 ^ c
      <4>1. /\ x \div 2 ^ c = 2 * (x \div 2 ^ (c + 1)) + (IF Word(x)[c] THEN 1 ELSE 0)
            /\ y \div 2 ^ c = 2 * (y \div 2 ^ (c + 1)) + (IF Word(y)[c] THEN 1 ELSE 0)
            /\ y \div 2 ^ (c + 1) \in Int
        BY <1>0, WordBit
      <4> QED
        BY <1>2, <3>2, <4>1
    <3>4. 2 ^ c \in Nat \ {0}
      BY <1>0, WidthFacts
    <3> QED
      BY <1>0, <2>2, <3>3, <3>4, DivMonotone
  <2> QED
    BY <2>1, <2>2
<1> QED
  BY <1>1, <1>2

\* Powers add their exponents.
LEMMA PowerSum ==
  ASSUME NEW a \in 0 .. Width, NEW b \in 0 .. Width, a + b <= Width
  PROVE  2 ^ a * 2 ^ b = 2 ^ (a + b)
<1> DEFINE T == {n \in 0 .. b : 2 ^ a * 2 ^ n # 2 ^ (a + n)}
<1>1. \A n \in 0 .. Width : 2 ^ n \in Nat \ {0} /\ 2 ^ (n + 1) = 2 * 2 ^ n
  BY WidthFacts
<1>2. SUFFICES ASSUME T # {} PROVE FALSE
  <2>1. b \in 0 .. b
    OBVIOUS
  <2> QED
    BY <2>1
<1>3. PICK m \in T : \A n \in T : ~(n < m)
  <2>1. T \subseteq Nat
    OBVIOUS
  <2> HIDE DEF T
  <2> QED
    BY <1>2, <2>1, Least
<1>4. m \in 0 .. b /\ 2 ^ a * 2 ^ m # 2 ^ (a + m)
  OBVIOUS
<1>5. m # 0
  <2>1. 2 ^ a * 1 = 2 ^ a /\ a + 0 = a
    BY <1>1
  <2> QED
    BY <1>4, <2>1, WidthFacts
<1>6. m - 1 \in 0 .. b /\ m - 1 \notin T
  BY <1>3, <1>4, <1>5
<1>7. 2 ^ a * 2 ^ (m - 1) = 2 ^ (a + (m - 1))
  BY <1>6
<1>8. 2 ^ m = 2 * 2 ^ (m - 1)
  <2>1. m - 1 \in 0 .. Width /\ (m - 1) + 1 = m
    BY <1>4, <1>6, WidthFacts
  <2> QED
    BY <1>1, <2>1
<1>9. 2 ^ (a + m) = 2 * 2 ^ (a + (m - 1))
  <2>1. a + (m - 1) \in 0 .. Width /\ (a + (m - 1)) + 1 = a + m
    BY <1>4, <1>6, WidthFacts
  <2> QED
    BY <1>1, <2>1
<1>10. 2 ^ a \in Nat /\ 2 ^ (m - 1) \in Nat
  BY <1>1, <1>4, <1>6, WidthFacts
<1>11. 2 ^ a * (2 * 2 ^ (m - 1)) = 2 * (2 ^ a * 2 ^ (m - 1))
  BY <1>10
<1> QED
  BY <1>4, <1>7, <1>8, <1>9, <1>11

\* The word of a power has one bit.
LEMMA PowerBit ==
  ASSUME NEW a \in Bits, NEW b \in Bits
  PROVE  Word(2 ^ a)[b] <=> b = a
<1>0. /\ Width \in Nat /\ Bits = 0 .. Width - 1
      /\ \A n \in 0 .. Width : 2 ^ n \in Nat \ {0} /\ 2 ^ (n + 1) = 2 * 2 ^ n
      /\ 2 ^ 0 = 1
  BY WidthFacts
<1>1. 2 ^ a \in Nat \ {0} /\ 2 ^ b \in Nat \ {0}
  BY <1>0
<1>2. Word(2 ^ a)[b] <=> (2 ^ a \div 2 ^ b) % 2 = 1
  BY DEF Word
<1>3. CASE b = a
  <2>1. 2 ^ a = 2 ^ b * 1 + 0 /\ 0 \in 0 .. 2 ^ b - 1
    BY <1>1, <1>3
  <2>2. 2 ^ a \div 2 ^ b = 1
    BY <1>1, <2>1, DivUnique
  <2> QED
    BY <1>2, <1>3, <2>2
<1>4. CASE b < a
  <2> DEFINE h == 2 ^ (a - b - 1)
  <2>1. a - b - 1 \in 0 .. Width /\ a - b \in 0 .. Width /\ (a - b - 1) + 1 = a - b
    BY <1>0, <1>4
  <2>2. h \in Nat /\ 2 ^ (a - b) = 2 * h
    BY <1>0, <2>1
  <2>3. 2 ^ b * 2 ^ (a - b) = 2 ^ a
    <3>1. b + (a - b) = a /\ b \in 0 .. Width /\ a <= Width
      BY <1>0
    <3> QED
      BY <2>1, <3>1, PowerSum
  <2> HIDE DEF h
  <2>4. 2 ^ a = 2 ^ b * (2 * h) + 0 /\ 0 \in 0 .. 2 ^ b - 1 /\ 2 * h \in Int
    BY <1>1, <2>2, <2>3
  <2>5. 2 ^ a \div 2 ^ b = 2 * h
    BY <1>1, <2>4, DivUnique
  <2>6. (2 * h) % 2 = 0
    BY <2>2
  <2> QED
    BY <1>0, <1>2, <1>4, <2>5, <2>6
<1>5. CASE b > a
  <2> DEFINE h == 2 ^ (b - a - 1)
  <2>1. b - a - 1 \in 0 .. Width /\ b - a \in 0 .. Width /\ (b - a - 1) + 1 = b - a
    BY <1>0, <1>5
  <2>2. h \in Nat \ {0} /\ 2 ^ (b - a) = 2 * h
    BY <1>0, <2>1
  <2>3. 2 ^ a * 2 ^ (b - a) = 2 ^ b
    <3>1. a + (b - a) = b /\ a \in 0 .. Width /\ b <= Width
      BY <1>0
    <3> QED
      BY <2>1, <3>1, PowerSum
  <2> HIDE DEF h
  <2>4. 2 ^ a * (2 * h) >= 2 * 2 ^ a
    <3>1. h - 1 \in Nat
      BY <2>2
    <3>2. 2 ^ a * (h - 1) \in Nat
      BY <1>1, <3>1, TimesNat
    <3>3. 2 ^ a * (2 * h) = 2 * (2 ^ a * (h - 1)) + 2 * 2 ^ a
      BY <1>1, <2>2
    <3> QED
      BY <1>1, <3>2, <3>3
  <2>5. 2 ^ a < 2 ^ b
    BY <1>1, <2>2, <2>3, <2>4
  <2>6. 2 ^ a = 2 ^ b * 0 + 2 ^ a /\ 2 ^ a \in 0 .. 2 ^ b - 1
    BY <1>1, <2>5
  <2>7. 2 ^ a \div 2 ^ b = 0
    BY <1>1, <2>6, DivUnique
  <2> QED
    BY <1>0, <1>2, <1>5, <2>7
<1> QED
  BY <1>0, <1>3, <1>4, <1>5

-----------------------------------------------------------------------------
(* Words of one bit, and bit_xor.                                          *)

LEMMA SameOneBit ==
  ASSUME NEW a, NEW b, a <=> b
  PROVE  OneBit(a) = OneBit(b)
<1>1. \A c \in Bits : (c = 0 /\ a) = (c = 0 /\ b)
  BY Zenon
<1> QED
  BY <1>1, Zenon DEF OneBit

LEMMA OneBits ==
  ASSUME NEW a \in BOOLEAN, NEW b \in BOOLEAN
  PROVE  /\ xor_b(OneBit(a), OneBit(b)) = OneBit(~(a <=> b))
         /\ and_b(OneBit(a), OneBit(b)) = OneBit(a /\ b)
         /\ not_b_1(OneBit(a)) = OneBit(~a)
<1>1. 0 \in Bits
  BY WidthFacts
<1>2. xor_b(OneBit(a), OneBit(b)) = OneBit(~(a <=> b))
  <2>1. \A c \in Bits : (OneBit(a)[c] # OneBit(b)[c]) = (c = 0 /\ ~(a <=> b))
    BY Zenon DEF OneBit
  <2> QED
    BY <2>1, Zenon DEF xor_b, OneBit
<1>3. and_b(OneBit(a), OneBit(b)) = OneBit(a /\ b)
  <2>1. \A c \in Bits : (OneBit(a)[c] /\ OneBit(b)[c]) = (c = 0 /\ (a /\ b))
    BY Zenon DEF OneBit
  <2> QED
    BY <2>1, Zenon DEF and_b, OneBit
<1>4. not_b_1(OneBit(a)) = OneBit(~a)
  <2>1. \A c \in Bits : (IF c = 0 THEN ~OneBit(a)[0] ELSE OneBit(a)[c]) = (c = 0 /\ ~a)
    BY <1>1, Zenon DEF OneBit
  <2>2. DOMAIN OneBit(a) = Bits
    BY DEF OneBit
  <2>3. not_b_1(OneBit(a)) = [c \in Bits |-> IF c = 0 THEN ~OneBit(a)[0] ELSE OneBit(a)[c]]
    BY <2>2, Zenon DEF not_b_1
  <2> QED
    BY <2>1, <2>3, Zenon DEF OneBit
<1> QED
  BY <1>2, <1>3, <1>4

\* The parity of a word of which one bit below the sign may be set.
LEMMA Parity ==
  ASSUME NEW w \in [Bits -> BOOLEAN], NEW c \in 0 .. digits - 1,
         \A b \in 0 .. digits - 1 : w[b] => b = c
  PROVE  bit_xor(w) = OneBit(w[c])
<1> DEFINE S == {b \in 0 .. digits - 1 : w[b]}
<1>1. (Cardinality(S) % 2 = 1) <=> w[c]
  <2>1. CASE w[c]
    <3>1. S = {c}
      BY <2>1
    <3>2. Cardinality(S) = 1
      BY <3>1, FS_Singleton
    <3> QED
      BY <2>1, <3>2
  <2>2. CASE ~w[c]
    <3>1. S = {}
      BY <2>2
    <3>2. Cardinality(S) = 0
      BY <3>1, FS_EmptySet
    <3> QED
      BY <2>2, <3>2
  <2> QED
    BY <2>1, <2>2
<1>2. bit_xor(w) = [b \in Bits |-> b = 0 /\ Cardinality(S) % 2 = 1]
  BY DEF bit_xor
<1> HIDE DEF S
<1>3. \A b \in Bits : (b = 0 /\ Cardinality(S) % 2 = 1) = (b = 0 /\ w[c])
  BY <1>1, Zenon
<1> QED
  BY <1>2, <1>3, Zenon DEF OneBit

-----------------------------------------------------------------------------
(* Comparison.                                                             *)

\* What bit_same says when it is done: a bit is set if the operands agree from
\* it up to the sign.
AgreeFrom(x, y, b) == \A c \in b .. digits : Word(x)[c] <=> Word(y)[c]
PrefixDone(x, y) == \A b \in Bits : sameBit[b] <=> AgreeFrom(x, y, b)

\* c is the highest bit in which the operands differ.
FirstDifference(x, y, c) ==
  /\ c \in Bits
  /\ \A b \in Bits : AgreeFrom(x, y, b) <=> b > c
  /\ c = digits <=> ~(x < 0 <=> y < 0)
  /\ c # digits => (x > y <=> Word(x)[c])

LEMMA Differ ==
  ASSUME NEW x \in Numbers, NEW y \in Numbers, x # y
  PROVE  \E c \in Bits : FirstDifference(x, y, c)
<1>0. digits \in Nat /\ Bits = 0 .. digits /\ x \in Int /\ y \in Int
  BY WidthFacts, SignBit
<1> DEFINE S == {d \in Bits : ~(Word(x)[d] <=> Word(y)[d])}
<1>1. S \subseteq 0 .. digits /\ S # {}
  BY <1>0, Order
<1>2. PICK c \in S : \A d \in S : d <= c
  <2> HIDE DEF S
  <2> QED
    BY <1>0, <1>1, Greatest
<1>3. c \in Bits /\ ~(Word(x)[c] <=> Word(y)[c])
  OBVIOUS
<1>4. \A d \in c + 1 .. digits : Word(x)[d] <=> Word(y)[d]
  <2> TAKE d \in c + 1 .. digits
  <2>1. d \in Bits /\ ~(d <= c)
    BY <1>0, <1>3
  <2>2. d \notin S
    BY <1>2, <2>1
  <2> QED
    BY <2>1, <2>2
<1> HIDE DEF S
<1>5. ASSUME NEW b \in Bits
      PROVE  AgreeFrom(x, y, b) <=> b > c
  <2>1. CASE b > c
    <3>1. \A d \in b .. digits : d \in c + 1 .. digits
      BY <1>0, <1>3, <2>1
    <3> QED
      BY <1>4, <2>1, <3>1 DEF AgreeFrom
  <2>2. CASE ~(b > c)
    <3>1. c \in b .. digits
      BY <1>0, <1>3, <2>2
    <3> QED
      BY <1>3, <2>2, <3>1 DEF AgreeFrom
  <2> QED
    BY <2>1, <2>2
<1>6. c = digits <=> ~(x < 0 <=> y < 0)
  <2>1. CASE c = digits
    BY <1>3, <2>1, SignBit
  <2>2. CASE c # digits
    <3>1. digits \in c + 1 .. digits
      BY <1>0, <1>3, <2>2
    <3> QED
      BY <1>4, <2>2, <3>1, SignBit
  <2> QED
    BY <2>1, <2>2
<1>7. c # digits => (x > y <=> Word(x)[c])
  <2>1. SUFFICES ASSUME c # digits PROVE x > y <=> Word(x)[c]
    OBVIOUS
  <2>2. CASE Word(x)[c]
    <3>1. ~Word(y)[c]
      BY <1>3, <2>2
    <3>2. x > y
      BY <1>3, <1>4, <2>1, <2>2, <3>1, Order
    <3> QED
      BY <2>2, <3>2
  <2>3. CASE ~Word(x)[c]
    <3>1. Word(y)[c]
      BY <1>3, <2>3
    <3>2. y > x
      BY <1>3, <1>4, <2>1, <2>3, <3>1, Order
    <3> QED
      BY <1>0, <2>3, <3>2
  <2> QED
    BY <2>2, <2>3
<1> QED
  BY <1>3, <1>5, <1>6, <1>7 DEF FirstDifference

\* bit_xor always gives a word of one bit, and Signed decides by the signs if
\* they differ.
LEMMA SignedIsOneBit ==
  ASSUME NEW x \in Numbers, NEW y \in Numbers, NEW t \in BOOLEAN
  PROVE  Signed(Word(x), Word(y), OneBit(t))
           = OneBit(IF x < 0 <=> y < 0 THEN t ELSE y < 0)
<1>0. digits \in Nat /\ digits >= 1 /\ Bits = 0 .. digits
  BY WidthFacts
<1>1. ASSUME NEW n \in Numbers
      PROVE  bit_right_shift(Word(n), digits) = OneBit(n < 0)
  <2>1. ASSUME NEW b \in Bits
        PROVE  (b + digits \in Bits /\ Word(n)[b + digits]) <=> (b = 0 /\ n < 0)
    <3>1. CASE b = 0
      BY <1>0, <3>1, SignBit
    <3>2. CASE b # 0
      BY <1>0, <3>2
    <3> QED
      BY <3>1, <3>2
  <2>2. \A b \in Bits : (b + digits \in Bits /\ Word(n)[b + digits]) = (b = 0 /\ n < 0)
    BY <2>1, Zenon
  <2> QED
    BY <2>2, Zenon DEF bit_right_shift, OneBit
<1> DEFINE s == x < 0
           u == y < 0
           differ == ~(s <=> u)
<1>2. s \in BOOLEAN /\ u \in BOOLEAN /\ differ \in BOOLEAN
  OBVIOUS
<1>3. Signed(Word(x), Word(y), OneBit(t))
        = xor_b(and_b(xor_b(OneBit(s), OneBit(u)), OneBit(u)),
                and_b(not_b_1(xor_b(OneBit(s), OneBit(u))), OneBit(t)))
  BY <1>1 DEF Signed
<1> HIDE DEF s, u, differ
<1>4. xor_b(OneBit(s), OneBit(u)) = OneBit(differ)
  BY <1>2, OneBits DEF differ
<1>5. /\ and_b(OneBit(differ), OneBit(u)) = OneBit(differ /\ u)
      /\ not_b_1(OneBit(differ)) = OneBit(~differ)
      /\ and_b(OneBit(~differ), OneBit(t)) = OneBit(~differ /\ t)
  BY <1>2, OneBits
<1>6. xor_b(OneBit(differ /\ u), OneBit(~differ /\ t))
        = OneBit(~((differ /\ u) <=> (~differ /\ t)))
  BY OneBits
<1>7. ~((differ /\ u) <=> (~differ /\ t)) <=> (IF s <=> u THEN t ELSE u)
  BY <1>2 DEF differ
<1>8. OneBit(~((differ /\ u) <=> (~differ /\ t))) = OneBit(IF s <=> u THEN t ELSE u)
  BY <1>7, SameOneBit
<1> QED
  BY <1>3, <1>4, <1>5, <1>6, <1>8 DEF s, u

\* operator >, which shifts no bit into the prefix.
LEMMA GreaterRight ==
  ASSUME NEW x \in Numbers, NEW y \in Numbers,
         sameBit \in [Bits -> BOOLEAN], PrefixDone(x, y)
  PROVE  greater(Word(x), Word(y)) = OneBit(x > y)
<1>0. digits \in Nat /\ digits >= 1 /\ Bits = 0 .. digits /\ x \in Int /\ y \in Int
  BY WidthFacts, SignBit
<1> DEFINE edge == and_b(and_b(bit_right_shift(sameBit, 1), not_b(sameBit)), Word(x))
<1>1. edge \in [Bits -> BOOLEAN]
  BY DEF and_b
<1>2. \A b \in 0 .. digits - 1 : edge[b] <=> sameBit[b + 1] /\ ~sameBit[b] /\ Word(x)[b]
  <2> TAKE b \in 0 .. digits - 1
  <2>1. b \in Bits /\ b + 1 \in Bits
    BY <1>0
  <2> QED
    BY <2>1, Zenon DEF and_b, not_b, bit_right_shift
<1>3. greater(Word(x), Word(y)) = Signed(Word(x), Word(y), bit_xor(edge))
  BY DEF greater
<1> HIDE DEF edge
<1>4. CASE x = y
  <2>1. \A b \in Bits : sameBit[b]
    BY <1>4 DEF PrefixDone, AgreeFrom
  <2>2. \A b \in 0 .. digits - 1 : ~edge[b]
    BY <1>0, <1>2, <2>1
  <2>3. bit_xor(edge) = OneBit(edge[0]) /\ edge[0] \in BOOLEAN /\ ~edge[0]
    BY <1>0, <1>1, <2>2, Parity
  <2>4. Signed(Word(x), Word(y), bit_xor(edge)) = OneBit(edge[0])
    BY <1>4, <2>3, SignedIsOneBit
  <2>5. OneBit(edge[0]) = OneBit(x > y)
    BY <1>0, <1>4, <2>3, SameOneBit
  <2> QED
    BY <1>3, <2>4, <2>5
<1>5. CASE x # y
  <2>1. PICK c \in Bits : FirstDifference(x, y, c)
    BY <1>5, Differ
  <2>2. \A b \in Bits : sameBit[b] <=> b > c
    BY <2>1 DEF PrefixDone, FirstDifference
  <2>3. \A b \in 0 .. digits - 1 : edge[b] => b = c
    BY <1>0, <1>2, <2>2
  <2> DEFINE e == IF c = digits THEN 0 ELSE c
  <2>4. e \in 0 .. digits - 1 /\ (\A b \in 0 .. digits - 1 : edge[b] => b = e)
    BY <1>0, <2>3
  <2>5. bit_xor(edge) = OneBit(edge[e]) /\ edge[e] \in BOOLEAN
    BY <1>0, <1>1, <2>4, Parity
  <2>6. Signed(Word(x), Word(y), bit_xor(edge))
          = OneBit(IF x < 0 <=> y < 0 THEN edge[e] ELSE y < 0)
    BY <2>5, SignedIsOneBit
  <2>7. (IF x < 0 <=> y < 0 THEN edge[e] ELSE y < 0) <=> x > y
    <3>1. CASE c = digits
      BY <1>0, <2>1, <3>1 DEF FirstDifference
    <3>2. CASE c # digits
      <4>1. c \in 0 .. digits - 1 /\ c + 1 \in Bits /\ c \in Bits
        BY <1>0, <3>2
      <4>2. edge[c] <=> Word(x)[c]
        BY <1>0, <1>2, <2>2, <4>1
      <4> QED
        BY <2>1, <3>2, <4>2 DEF FirstDifference
    <3> QED
      BY <3>1, <3>2
  <2> DEFINE t == IF x < 0 <=> y < 0 THEN edge[e] ELSE y < 0
             u == x > y
  <2>8. t <=> u
    BY <2>7
  <2> HIDE DEF t, u
  <2>9. OneBit(t) = OneBit(u)
    BY <2>8, SameOneBit
  <2> QED
    BY <1>3, <2>6, <2>9 DEF t, u
<1> QED
  BY <1>4, <1>5

\* operator ==, which takes the lowest bit of the prefix.
LEMMA EqualRight ==
  ASSUME NEW x \in Numbers, NEW y \in Numbers,
         sameBit \in [Bits -> BOOLEAN], PrefixDone(x, y)
  PROVE  equal_to = OneBit(x = y)
<1>0. digits \in Nat /\ Bits = 0 .. digits /\ 0 \in Bits /\ 2 ^ 0 = 1
  BY WidthFacts
<1>1. sameBit[0] <=> x = y
  <2>1. AgreeFrom(x, y, 0) <=> x = y
    BY <1>0, Order DEF AgreeFrom
  <2> QED
    BY <1>0, <2>1 DEF PrefixDone
<1>2. \A b \in Bits : Word(1)[b] <=> b = 0
  BY <1>0, PowerBit
<1>3. \A b \in Bits : (sameBit[b] /\ Word(1)[b]) = (b = 0 /\ x = y)
  <2> TAKE b \in Bits
  <2>1. (sameBit[b] /\ Word(1)[b]) <=> (b = 0 /\ x = y)
    BY <1>1, <1>2
  <2> QED
    BY <2>1, Zenon
<1> QED
  BY <1>3, Zenon DEF equal_to, mask, and_b, OneBit

\* compare, which sets the bit below the sign in what it shifts: then there is
\* an edge if and only if the operands differ, if the shares are odd.
LEMMA EdgeIsDifference ==
  ASSUME Shares % 2 = 1,
         NEW x \in Numbers, NEW y \in Numbers,
         sameBit \in [Bits -> BOOLEAN], PrefixDone(x, y)
  PROVE  /\ xEdgeBit_eq \in [Bits -> BOOLEAN]
         /\ x = y => \A b \in 0 .. digits - 1 : ~xEdgeBit_eq[b]
         /\ \A c \in Bits : FirstDifference(x, y, c) =>
              \A b \in 0 .. digits - 1 :
                xEdgeBit_eq[b] <=> b = (IF c = digits THEN digits - 1 ELSE c)
<1>0. digits \in Nat /\ digits >= 1 /\ Bits = 0 .. digits /\ digits - 1 \in Bits
  BY WidthFacts
<1>1. \A b \in 0 .. digits - 1 :
        xEdgeBit_eq[b] <=> (b = digits - 1 \/ sameBit[b + 1]) /\ ~sameBit[b]
  <2> TAKE b \in 0 .. digits - 1
  <2>1. b \in Bits /\ b + 1 \in Bits
    BY <1>0
  <2>2. Word(2 ^ (digits - 1))[b] <=> b = digits - 1
    BY <1>0, <2>1, PowerBit
  <2>3. xEdgeBit_eq[b] <=> shifted[b] /\ ~sameBit[b]
    BY <2>1, Zenon DEF xEdgeBit_eq, and_b, not_b
  <2>4. shifted[b] <=> IF Word(2 ^ (digits - 1))[b] THEN Shares % 2 = 1
                       ELSE bit_right_shift(sameBit, 1)[b]
    BY <2>1, Zenon DEF shifted, set_bits
  <2>5. bit_right_shift(sameBit, 1)[b] <=> sameBit[b + 1]
    BY <2>1, Zenon DEF bit_right_shift
  <2> QED
    BY <2>2, <2>3, <2>4, <2>5
<1>2. xEdgeBit_eq \in [Bits -> BOOLEAN]
  BY DEF xEdgeBit_eq, and_b
<1>3. x = y => \A b \in 0 .. digits - 1 : ~xEdgeBit_eq[b]
  <2>1. x = y => \A b \in Bits : sameBit[b]
    BY DEF PrefixDone, AgreeFrom
  <2> QED
    BY <1>0, <1>1, <2>1
<1>4. ASSUME NEW c \in Bits, FirstDifference(x, y, c), NEW b \in 0 .. digits - 1
      PROVE  xEdgeBit_eq[b] <=> b = (IF c = digits THEN digits - 1 ELSE c)
  <2>1. \A d \in Bits : sameBit[d] <=> d > c
    BY <1>4 DEF PrefixDone, FirstDifference
  <2>2. b \in Bits /\ b + 1 \in Bits
    BY <1>0
  <2>3. (sameBit[b] <=> b > c) /\ (sameBit[b + 1] <=> b + 1 > c)
    BY <2>1, <2>2
  <2> QED
    BY <1>0, <1>1, <2>3
<1> QED
  BY <1>2, <1>3, <1>4

LEMMA CompareBothRight ==
  ASSUME Shares % 2 = 1,
         x_vec \in Numbers, y_vec \in Numbers,
         sameBit \in [Bits -> BOOLEAN], PrefixDone(x_vec, y_vec)
  PROVE  /\ eq_bits = OneBit(x_vec = y_vec)
         /\ gt_bits = OneBit(x_vec > y_vec)
<1>0. /\ digits \in Nat /\ digits >= 1 /\ Bits = 0 .. digits
      /\ x_vec \in Int /\ y_vec \in Int
  BY WidthFacts, SignBit
<1> DEFINE edge == xEdgeBit_eq
           both == and_b(edge, Word(x_vec))
<1>1. /\ edge \in [Bits -> BOOLEAN]
      /\ x_vec = y_vec => \A b \in 0 .. digits - 1 : ~edge[b]
      /\ \A c \in Bits : FirstDifference(x_vec, y_vec, c) =>
           \A b \in 0 .. digits - 1 : edge[b] <=> b = (IF c = digits THEN digits - 1 ELSE c)
  BY EdgeIsDifference
<1>2. both \in [Bits -> BOOLEAN] /\ \A b \in Bits : both[b] <=> edge[b] /\ Word(x_vec)[b]
  BY Zenon DEF and_b
<1>3. /\ eq_bits = not_b_1(bit_xor(edge))
      /\ gt_bits = Signed(Word(x_vec), Word(y_vec), bit_xor(both))
  BY DEF eq_bits, gt_bits
<1> HIDE DEF edge, both
<1>4. CASE x_vec = y_vec
  <2>1. \A b \in 0 .. digits - 1 : ~edge[b] /\ ~both[b]
    BY <1>0, <1>1, <1>2, <1>4
  <2>2. bit_xor(edge) = OneBit(edge[0]) /\ edge[0] \in BOOLEAN /\ ~edge[0]
    BY <1>0, <1>1, <2>1, Parity
  <2>3. bit_xor(both) = OneBit(both[0]) /\ both[0] \in BOOLEAN /\ ~both[0]
    BY <1>0, <1>2, <2>1, Parity
  <2>4. eq_bits = OneBit(~edge[0])
    BY <1>3, <2>2, OneBits
  <2>5. gt_bits = OneBit(both[0])
    BY <1>3, <1>4, <2>3, SignedIsOneBit
  <2>6. OneBit(~edge[0]) = OneBit(x_vec = y_vec)
    BY <1>4, <2>2, SameOneBit
  <2>7. OneBit(both[0]) = OneBit(x_vec > y_vec)
    BY <1>0, <1>4, <2>3, SameOneBit
  <2> QED
    BY <2>4, <2>5, <2>6, <2>7
<1>5. CASE x_vec # y_vec
  <2>1. PICK c \in Bits : FirstDifference(x_vec, y_vec, c)
    BY <1>5, Differ
  <2> DEFINE e == IF c = digits THEN digits - 1 ELSE c
  <2>2. e \in 0 .. digits - 1 /\ \A b \in 0 .. digits - 1 : edge[b] <=> b = e
    BY <1>0, <1>1, <2>1
  <2>3. (c # digits => e = c) /\ e \in Bits
    BY <1>0
  <2> HIDE DEF e
  <2>4. bit_xor(edge) = OneBit(edge[e]) /\ edge[e] \in BOOLEAN /\ edge[e]
    BY <1>0, <1>1, <2>2, <2>3, Parity
  <2>5. bit_xor(both) = OneBit(both[e]) /\ both[e] \in BOOLEAN /\ (both[e] <=> Word(x_vec)[e])
    <3>1. \A b \in 0 .. digits - 1 : both[b] => b = e
      BY <1>0, <1>2, <2>2
    <3> QED
      BY <1>0, <1>2, <2>2, <2>3, <3>1, Parity
  <2>6. eq_bits = OneBit(x_vec = y_vec)
    <3>1. eq_bits = OneBit(~edge[e])
      BY <1>3, <2>4, OneBits
    <3> QED
      BY <1>5, <2>4, <3>1, SameOneBit
  <2>7. gt_bits = OneBit(x_vec > y_vec)
    <3> DEFINE t == IF x_vec < 0 <=> y_vec < 0 THEN both[e] ELSE y_vec < 0
               u == x_vec > y_vec
    <3>1. gt_bits = OneBit(t)
      BY <1>3, <2>5, SignedIsOneBit
    <3>2. t <=> u
      <4>1. CASE c = digits
        BY <1>0, <2>1, <4>1 DEF FirstDifference
      <4>2. CASE c # digits
        BY <2>1, <2>3, <2>5, <4>2 DEF FirstDifference
      <4> QED
        BY <4>1, <4>2
    <3> HIDE DEF t, u
    <3>3. OneBit(t) = OneBit(u)
      BY <3>2, SameOneBit
    <3> QED
      BY <3>1, <3>3 DEF u
  <2> QED
    BY <2>6, <2>7
<1> QED
  BY <1>4, <1>5

\* What all comparisons return when bit_same is done.
ResultsRight(res) ==
  /\ res.eq_bits = OneBit(x_vec = y_vec)
  /\ res.equal_to = res.eq_bits
  /\ res.not_equal_to = OneBit(x_vec # y_vec)
  /\ res.gt_bits = OneBit(x_vec > y_vec)
  /\ res.greater_than = res.gt_bits
  /\ res.less_than = OneBit(x_vec < y_vec)
  /\ res.greater_equal = OneBit(x_vec >= y_vec)
  /\ res.less_equal = OneBit(x_vec <= y_vec)

LEMMA CompareRight ==
  ASSUME Shares % 2 = 1,
         x_vec \in Numbers, y_vec \in Numbers,
         sameBit \in [Bits -> BOOLEAN], PrefixDone(x_vec, y_vec)
  PROVE  ResultsRight([equal_to |-> equal_to, not_equal_to |-> not_equal_to,
                       greater_than |-> greater_than, less_than |-> less_than,
                       greater_equal |-> greater_equal, less_equal |-> less_equal,
                       eq_bits |-> eq_bits, gt_bits |-> gt_bits])
<1>0. x_vec \in Int /\ y_vec \in Int
  BY SignBit
<1>1. eq_bits = OneBit(x_vec = y_vec) /\ gt_bits = OneBit(x_vec > y_vec)
  BY CompareBothRight
<1>2. equal_to = OneBit(x_vec = y_vec)
  BY EqualRight
<1>3. greater_than = OneBit(x_vec > y_vec)
  BY GreaterRight DEF greater_than
<1>4. less_than = OneBit(y_vec > x_vec)
  <2>1. PrefixDone(y_vec, x_vec)
    BY DEF PrefixDone, AgreeFrom
  <2> QED
    BY <2>1, GreaterRight DEF less_than
<1>5. /\ not_equal_to = OneBit(~(x_vec = y_vec))
      /\ greater_equal = OneBit(~(y_vec > x_vec))
      /\ less_equal = OneBit(~(x_vec > y_vec))
  <2>1. \A a \in BOOLEAN : not_b_1(OneBit(a)) = OneBit(~a)
    BY OneBits
  <2>2. /\ (x_vec = y_vec) \in BOOLEAN
        /\ (y_vec > x_vec) \in BOOLEAN
        /\ (x_vec > y_vec) \in BOOLEAN
    BY <1>0
  <2> QED
    BY <1>2, <1>3, <1>4, <2>1, <2>2, Zenon DEF not_equal_to, greater_equal, less_equal
<1>6. /\ OneBit(~(x_vec = y_vec)) = OneBit(x_vec # y_vec)
      /\ OneBit(y_vec > x_vec) = OneBit(x_vec < y_vec)
      /\ OneBit(~(y_vec > x_vec)) = OneBit(x_vec >= y_vec)
      /\ OneBit(~(x_vec > y_vec)) = OneBit(x_vec <= y_vec)
  <2>1. /\ y_vec > x_vec <=> x_vec < y_vec
        /\ ~(y_vec > x_vec) <=> x_vec >= y_vec
        /\ ~(x_vec > y_vec) <=> x_vec <= y_vec
    BY <1>0
  <2>2. OneBit(y_vec > x_vec) = OneBit(x_vec < y_vec)
    BY <2>1, SameOneBit, Zenon
  <2>3. OneBit(~(y_vec > x_vec)) = OneBit(x_vec >= y_vec)
    BY <2>1, SameOneBit, Zenon
  <2>4. OneBit(~(x_vec > y_vec)) = OneBit(x_vec <= y_vec)
    BY <2>1, SameOneBit, Zenon
  <2>5. OneBit(~(x_vec = y_vec)) = OneBit(x_vec # y_vec)
    BY SameOneBit, Zenon
  <2> QED
    BY <2>2, <2>3, <2>4, <2>5
<1> QED
  BY <1>1, <1>2, <1>3, <1>4, <1>5, <1>6 DEF ResultsRight

-----------------------------------------------------------------------------
(* The parts of a word that the rounds work on, which double in size.      *)

Powers == {2 ^ n : n \in 0 .. 6}
Halving(part) == part \in Nat \ {0} /\ \E f \in Powers : part * f = Width

LEMMA PowersHalve ==
  /\ Width \in Powers
  /\ \A f \in Powers : f \in Nat \ {0} /\ (f = 1 \/ \E h \in Powers : f = 2 * h)
<1>0. 2 ^ 0 = 1 /\ \A n \in 0 .. 6 : 2 ^ n \in Nat \ {0} /\ 2 ^ (n + 1) = 2 * 2 ^ n
  BY WidthFacts, PowersAssumption
<1>1. Width \in Powers
  <2>1. PICK k \in 1 .. 6 : Width = 2 ^ k
    BY WordsAssumption
  <2>2. k \in 0 .. 6
    OBVIOUS
  <2> QED
    BY <2>1, <2>2, Zenon DEF Powers
<1>2. ASSUME NEW f \in Powers
      PROVE  f \in Nat \ {0} /\ (f = 1 \/ \E h \in Powers : f = 2 * h)
  <2>1. PICK n \in 0 .. 6 : f = 2 ^ n
    BY DEF Powers
  <2>2. CASE n = 0
    BY <1>0, <2>1, <2>2
  <2>3. CASE n # 0
    <3>1. n - 1 \in 0 .. 6 /\ (n - 1) + 1 = n
      BY <2>3
    <3>2. 2 ^ (n - 1) \in Powers
      BY <3>1 DEF Powers
    <3>3. 2 ^ n = 2 * 2 ^ (n - 1)
      BY <1>0, <3>1
    <3> QED
      BY <1>0, <2>1, <3>2, <3>3
  <2> QED
    BY <2>2, <2>3
<1> QED
  BY <1>1, <1>2

\* The parts of a round are halves of parts of the next, until they are the word.
LEMMA Doubling ==
  /\ Halving(1)
  /\ \A part : Halving(part) =>
       IF 2 * part <= Width
       THEN Halving(2 * part) /\ \E m \in Nat \ {0} : (2 * part) * m = Width
       ELSE part = Width
<1>1. Halving(1)
  <2>1. 1 * Width = Width
    BY WidthFacts
  <2> QED
    BY <2>1, PowersHalve DEF Halving
<1>2. ASSUME NEW part, Halving(part)
      PROVE  IF 2 * part <= Width
             THEN Halving(2 * part) /\ \E m \in Nat \ {0} : (2 * part) * m = Width
             ELSE part = Width
  <2>1. part \in Nat \ {0}
    BY <1>2 DEF Halving
  <2>2. PICK f \in Powers : part * f = Width
    BY <1>2 DEF Halving
  <2>3. CASE f = 1
    <3>1. part = Width /\ ~(2 * part <= Width)
      BY <2>1, <2>2, <2>3
    <3> QED
      BY <3>1
  <2>4. CASE f # 1
    <3>1. PICK m \in Powers : f = 2 * m
      BY <2>4, PowersHalve
    <3>2. m \in Nat \ {0}
      BY PowersHalve
    <3>3. (2 * part) * m = Width
      BY <2>1, <2>2, <3>1, <3>2
    <3>4. 2 * part <= Width /\ 2 * part \in Nat \ {0}
      <4>1. (2 * part) * m >= 2 * part
        BY <2>1, <3>2, TimesSign
      <4> QED
        BY <2>1, <3>3, <4>1
    <3>5. Halving(2 * part)
      BY <3>3, <3>4 DEF Halving
    <3> QED
      BY <3>2, <3>3, <3>4, <3>5
  <2> QED
    BY <2>3, <2>4
<1> QED
  BY <1>1, <1>2

\* A bit lies in a part of twice the size that begins at s.
InPart(b, part, s) ==
  /\ s \in Nat /\ s <= b /\ b < s + 2 * part /\ s + 2 * part <= Width
  /\ b % (2 * part) = b - s
  /\ (b \div (2 * part)) * (2 * part) = s
  /\ (b \div part) * part = (IF b < s + part THEN s ELSE s + part)
  /\ ((s + part) \div part) * part = s + part
  /\ ((s + part - 1) \div part) * part = s

LEMMA PartOfBit ==
  ASSUME NEW part \in Nat \ {0}, NEW m \in Nat \ {0}, (2 * part) * m = Width, NEW b \in Bits
  PROVE  \E s \in Nat : InPart(b, part, s)
<1> DEFINE q == b \div (2 * part)
           r == b % (2 * part)
           s == (2 * part) * q
<1>0. b \in Nat /\ b < Width /\ Width \in Nat /\ 2 * part \in Nat \ {0}
  BY WidthFacts
<1>1. q \in Nat /\ r \in 0 .. (2 * part) - 1 /\ b = s + r
  BY <1>0, DivMod
<1>2. s \in Nat /\ q * (2 * part) = s
  BY <1>0, <1>1, TimesNat
<1>3. /\ part * (2 * q) = s
      /\ (2 * q) * part = s
      /\ part * (2 * q + 1) = s + part
      /\ (2 * q + 1) * part = s + part
  <2> HIDE DEF q
  <2> QED
    BY <1>1
<1> HIDE DEF q, r
<1>4. s + 2 * part <= Width
  <2>1. q < m
    <3>1. SUFFICES ASSUME m <= q PROVE FALSE
      BY <1>1
    <3>2. m * (2 * part) <= q * (2 * part)
      BY <1>0, <1>1, <3>1, TimesMono
    <3>3. m * (2 * part) = Width
      OBVIOUS
    <3> HIDE DEF s
    <3> QED
      BY <1>0, <1>1, <1>2, <3>2, <3>3
  <2>2. q + 1 \in Nat /\ q + 1 <= m
    BY <1>1, <2>1
  <2>3. (q + 1) * (2 * part) <= m * (2 * part)
    BY <1>0, <2>2, TimesMono
  <2>4. (q + 1) * (2 * part) = s + 2 * part /\ m * (2 * part) = Width
    BY <1>1
  <2> QED
    BY <2>3, <2>4
<1> DEFINE h == 2 * q
<1>5. h \in Nat /\ part * h = s /\ h * part = s /\ part * (h + 1) = s + part /\ (h + 1) * part = s + part
  BY <1>1, <1>3
<1>6. /\ s \in Nat /\ b = s + r /\ r \in Nat /\ r < 2 * part /\ b - s = r
      /\ s + part - 1 = s + (part - 1)
  BY <1>0, <1>1, <1>2
<1> HIDE DEF h, s
<1>7. (b \div part) * part = (IF b < s + part THEN s ELSE s + part)
  <2>1. CASE r < part
    <3>1. b = part * h + r /\ r \in 0 .. part - 1
      BY <1>5, <1>6, <2>1
    <3>2. b \div part = h
      BY <1>0, <1>5, <3>1, DivUnique
    <3> QED
      BY <1>5, <1>6, <2>1, <3>2
  <2>2. CASE ~(r < part)
    <3>1. b = part * (h + 1) + (r - part) /\ r - part \in 0 .. part - 1 /\ h + 1 \in Int
      BY <1>5, <1>6, <2>2
    <3>2. b \div part = h + 1
      BY <1>0, <3>1, DivUnique
    <3> QED
      BY <1>5, <1>6, <2>2, <3>2
  <2> QED
    BY <2>1, <2>2
<1>8. ((s + part) \div part) * part = s + part
  <2>1. s + part = part * (h + 1) + 0 /\ 0 \in 0 .. part - 1 /\ h + 1 \in Int /\ s + part \in Int
    BY <1>5, <1>6
  <2>2. (s + part) \div part = h + 1
    BY <2>1, DivUnique
  <2> QED
    BY <1>5, <2>2
<1>9. ((s + part - 1) \div part) * part = s
  <2>1. s + part - 1 = part * h + (part - 1) /\ part - 1 \in 0 .. part - 1 /\ s + part - 1 \in Int
    BY <1>5, <1>6
  <2>2. (s + part - 1) \div part = h
    BY <1>5, <2>1, DivUnique
  <2> QED
    BY <1>5, <2>2
<1>10. b % (2 * part) = b - s /\ (b \div (2 * part)) * (2 * part) = s
  BY <1>2, <1>6 DEF q, r
<1>11. InPart(b, part, s)
  BY <1>4, <1>6, <1>7, <1>8, <1>9, <1>10 DEF InPart
<1> QED
  BY <1>6, <1>11

-----------------------------------------------------------------------------
(* Carries.                                                                *)

\* The bits of n from b up to below c, as a number.
Lower(n, b, c) == (n \div 2 ^ b) % 2 ^ (c - b)

LEMMA LowerStep ==
  ASSUME NEW n \in Int, NEW c \in Bits, NEW b \in 0 .. c
  PROVE  /\ 2 ^ (c - b) \in Nat \ {0}
         /\ 2 ^ ((c + 1) - b) = 2 * 2 ^ (c - b)
         /\ Lower(n, b, c) \in 0 .. 2 ^ (c - b) - 1
         /\ Lower(n, b, c + 1) = Lower(n, b, c) + (IF Word(n)[c] THEN 2 ^ (c - b) ELSE 0)
<1> DEFINE N == n \div 2 ^ b
           M == 2 ^ (c - b)
<1>0. /\ Width \in Nat /\ c \in 0 .. Width - 1
      /\ \A k \in 0 .. Width : 2 ^ k \in Nat \ {0} /\ 2 ^ (k + 1) = 2 * 2 ^ k
  BY WidthFacts
<1>1. /\ b \in 0 .. Width /\ c - b \in 0 .. Width /\ (c - b) + 1 = (c + 1) - b
      /\ b + (c - b) = c /\ c <= Width
  BY <1>0
<1>2. M \in Nat \ {0} /\ 2 ^ ((c + 1) - b) = 2 * M /\ 2 ^ b \in Nat \ {0}
  BY <1>0, <1>1
<1>3. N \in Int
  BY <1>2, DivModInt
<1>4. N \div M = n \div 2 ^ c
  <2>1. 2 ^ b * 2 ^ (c - b) = 2 ^ c
    BY <1>1, PowerSum
  <2>2. (n \div 2 ^ b) \div 2 ^ (c - b) = n \div (2 ^ b * 2 ^ (c - b))
    BY <1>2, DivDiv
  <2> QED
    BY <2>1, <2>2
<1>5. Word(n)[c] <=> (N \div M) % 2 = 1
  BY <1>0, <1>4, WidthFacts DEF Word
<1> HIDE DEF N, M
<1>6. N % (2 * M) = (N % M) + M * ((N \div M) % 2) /\ (N \div M) % 2 \in {0, 1}
  BY <1>2, <1>3, ModDouble
<1>7. N % M \in 0 .. M - 1
  BY <1>2, <1>3, DivModInt
<1>8. N % (2 * M) = (N % M) + (IF Word(n)[c] THEN M ELSE 0)
  <2>1. CASE (N \div M) % 2 = 1
    <3>1. M * 1 = M
      BY <1>2
    <3> QED
      BY <1>5, <1>6, <2>1, <3>1
  <2>2. CASE (N \div M) % 2 = 0
    <3>1. M * 0 = 0
      BY <1>2
    <3> QED
      BY <1>5, <1>6, <2>2, <3>1
  <2> QED
    BY <1>6, <2>1, <2>2
<1>9. Lower(n, b, c) = N % M /\ Lower(n, b, c + 1) = N % (2 * M)
  BY <1>2, Zenon DEF Lower, N, M
<1> QED
  BY <1>2, <1>7, <1>8, <1>9 DEF M

\* The operands differ in all bits from b up to below c.
AllDiffer(b, c) == \A d \in b .. c - 1 : ~(Word(x_vec)[d] <=> Word(y_vec)[d])

\* No bits carry nothing; a bit carries if both are set, or if it propagates
\* what the lower ones carry.
LEMMA CarryStep ==
  ASSUME x_vec \in Int, y_vec \in Int
  PROVE  /\ \A b \in 0 .. Width : ~Carries(b, b)
         /\ \A c \in Bits : \A b \in 0 .. c :
              Carries(b, c + 1) <=> \/ Word(x_vec)[c] /\ Word(y_vec)[c]
                                    \/ /\ ~(Word(x_vec)[c] <=> Word(y_vec)[c])
                                       /\ Carries(b, c)
<1>1. \A b, c : Carries(b, c) <=> Lower(x_vec, b, c) + Lower(y_vec, b, c) >= 2 ^ (c - b)
  BY DEF Carries, Lower
<1>2. ASSUME NEW b \in 0 .. Width
      PROVE  ~Carries(b, b)
  <2>1. b - b = 0 /\ 2 ^ 0 = 1 /\ 2 ^ b \in Nat \ {0}
    BY WidthFacts
  <2>2. x_vec \div 2 ^ b \in Int /\ y_vec \div 2 ^ b \in Int
    BY <2>1, DivModInt
  <2>3. \A n \in Int : n % 1 = 0
    OBVIOUS
  <2>4. Lower(x_vec, b, b) = 0 /\ Lower(y_vec, b, b) = 0
    BY <2>1, <2>2, <2>3 DEF Lower
  <2>5. Carries(b, b) <=> 0 + 0 >= 1
    <3>1. Carries(b, b) <=> Lower(x_vec, b, b) + Lower(y_vec, b, b) >= 2 ^ (b - b)
      BY <1>1, Zenon
    <3> QED
      BY <2>1, <2>4, <3>1, Zenon
  <2> QED
    BY <2>5
<1>3. ASSUME NEW c \in Bits, NEW b \in 0 .. c
      PROVE  Carries(b, c + 1) <=> \/ Word(x_vec)[c] /\ Word(y_vec)[c]
                                   \/ /\ ~(Word(x_vec)[c] <=> Word(y_vec)[c])
                                      /\ Carries(b, c)
  <2> DEFINE M == 2 ^ (c - b)
             u == Lower(x_vec, b, c)
             v == Lower(y_vec, b, c)
             s == Word(x_vec)[c]
             t == Word(y_vec)[c]
  <2>1. /\ M \in Nat \ {0}
        /\ u \in 0 .. M - 1
        /\ Lower(x_vec, b, c + 1) = u + (IF s THEN M ELSE 0)
        /\ 2 ^ ((c + 1) - b) = 2 * M
    BY LowerStep
  <2>2. /\ v \in 0 .. M - 1
        /\ Lower(y_vec, b, c + 1) = v + (IF t THEN M ELSE 0)
    BY LowerStep
  <2>3. Carries(b, c) <=> u + v >= M
    BY <1>1, Zenon
  <2>4. Carries(b, c + 1) <=> (u + (IF s THEN M ELSE 0)) + (v + (IF t THEN M ELSE 0)) >= 2 * M
    <3>1. Carries(b, c + 1)
            <=> Lower(x_vec, b, c + 1) + Lower(y_vec, b, c + 1) >= 2 ^ ((c + 1) - b)
      BY <1>1, Zenon
    <3> QED
      BY <2>1, <2>2, <3>1, Zenon
  <2> HIDE DEF M, u, v, s, t
  <2>5. (u + (IF s THEN M ELSE 0)) + (v + (IF t THEN M ELSE 0)) >= 2 * M
          <=> (s /\ t) \/ (~(s <=> t) /\ u + v >= M)
    <3>1. CASE s /\ t
      BY <2>1, <2>2, <3>1
    <3>2. CASE s /\ ~t
      BY <2>1, <2>2, <3>2
    <3>3. CASE ~s /\ t
      BY <2>1, <2>2, <3>3
    <3>4. CASE ~s /\ ~t
      BY <2>1, <2>2, <3>4
    <3> QED
      BY <3>1, <3>2, <3>3, <3>4
  <2> QED
    BY <2>3, <2>4, <2>5 DEF s, t
<1> QED
  BY <1>2, <1>3

\* What is carried out of two adjacent runs of bits: what the upper one
\* carries, or what the lower one carries if the upper one propagates it.
LEMMA CarryJoin ==
  ASSUME x_vec \in Int, y_vec \in Int,
         NEW s \in Nat, NEW h \in Nat, NEW c \in Nat, s <= h, h <= c, c <= Width
  PROVE  Carries(s, c) <=> Carries(h, c) \/ (AllDiffer(h, c) /\ Carries(s, h))
<1> DEFINE Joins(n) == Carries(s, n) <=> Carries(h, n) \/ (AllDiffer(h, n) /\ Carries(s, h))
           T == {n \in h .. c : ~Joins(n)}
<1>0. Width \in Nat /\ Bits = 0 .. Width - 1
  BY WidthFacts
<1>1. SUFFICES ASSUME T # {} PROVE FALSE
  <2>1. c \in h .. c
    OBVIOUS
  <2> QED
    BY <2>1
<1>2. PICK m \in T : \A n \in T : ~(n < m)
  <2>1. T \subseteq Nat
    OBVIOUS
  <2> HIDE DEF T
  <2> QED
    BY <1>1, <2>1, Least
<1>3. m \in h .. c /\ ~Joins(m)
  OBVIOUS
<1>4. m # h
  <2>1. ~Carries(h, h)
    BY <1>0, CarryStep
  <2>2. AllDiffer(h, h)
    BY DEF AllDiffer
  <2>3. Joins(h)
    BY <2>1, <2>2
  <2> QED
    BY <1>3, <2>3
<1> DEFINE k == m - 1
<1>5. k \in h .. c /\ k \in Bits /\ s \in 0 .. k /\ h \in 0 .. k /\ m = k + 1
  BY <1>0, <1>3, <1>4
<1>6. Joins(k)
  <2>1. k < m
    BY <1>3, <1>5
  <2>2. k \notin T
    BY <1>2, <2>1
  <2> QED
    BY <1>5, <2>2
<1> HIDE DEF k
<1>7. /\ Carries(s, k + 1) <=> \/ Word(x_vec)[k] /\ Word(y_vec)[k]
                               \/ ~(Word(x_vec)[k] <=> Word(y_vec)[k]) /\ Carries(s, k)
      /\ Carries(h, k + 1) <=> \/ Word(x_vec)[k] /\ Word(y_vec)[k]
                               \/ ~(Word(x_vec)[k] <=> Word(y_vec)[k]) /\ Carries(h, k)
  BY <1>5, CarryStep
<1>8. AllDiffer(h, k + 1) <=> AllDiffer(h, k) /\ ~(Word(x_vec)[k] <=> Word(y_vec)[k])
  <2>1. \A d : d \in h .. (k + 1) - 1 <=> d \in h .. k - 1 \/ d = k
    BY <1>5
  <2> QED
    BY <2>1 DEF AllDiffer
<1>9. Joins(k + 1)
  BY <1>6, <1>7, <1>8
<1> QED
  BY <1>3, <1>5, <1>9

\* A bit of the sum.
LEMMA SumBit ==
  ASSUME x_vec \in Int, y_vec \in Int, NEW b \in Bits
  PROVE  Word(x_vec + y_vec)[b]
           <=> ~(~(Word(x_vec)[b] <=> Word(y_vec)[b]) <=> Carries(0, b))
<1> DEFINE M == 2 ^ b
           x == x_vec
           y == y_vec
           k == IF Carries(0, b) THEN 1 ELSE 0
<1>1. M \in Nat \ {0} /\ 2 ^ 0 = 1 /\ b \in Nat
  BY WidthFacts
<1>2. Carries(0, b) <=> (x % M) + (y % M) >= M
  <2>1. x \div 1 = x /\ y \div 1 = y /\ b - 0 = b
    BY <1>1
  <2> QED
    BY <1>1, <2>1 DEF Carries
<1>3. (x + y) \div M = (x \div M) + (y \div M) + k
  BY <1>1, <1>2, DivSum
<1>4. /\ x \div M \in Int /\ y \div M \in Int
      /\ Word(x)[b] <=> (x \div M) % 2 = 1
      /\ Word(y)[b] <=> (y \div M) % 2 = 1
      /\ Word(x + y)[b] <=> ((x + y) \div M) % 2 = 1
  BY <1>1, DivModInt DEF Word
<1>5. \A u, v \in Int, c \in {0, 1} :
        (u + v + c) % 2 = 1 <=> ~(~(u % 2 = 1 <=> v % 2 = 1) <=> c = 1)
  OBVIOUS
<1>6. k \in {0, 1} /\ (k = 1 <=> Carries(0, b))
  OBVIOUS
<1> DEFINE qx == x \div M
           qy == y \div M
<1>7. Word(x + y)[b] <=> (qx + qy + k) % 2 = 1
  BY <1>3, <1>4
<1> HIDE DEF k, qx, qy
<1>8. (qx + qy + k) % 2 = 1 <=> ~(~(qx % 2 = 1 <=> qy % 2 = 1) <=> k = 1)
  BY <1>4, <1>5, <1>6 DEF qx, qy
<1> QED
  BY <1>4, <1>6, <1>7, <1>8 DEF qx, qy

-----------------------------------------------------------------------------
(* The inductive invariant.                                                *)

TypeInv ==
  /\ operation \in Adders \cup {"comparison", "division"}
  /\ x_vec \in Numbers
  /\ y_vec \in Numbers
  /\ sameBit \in [Bits -> BOOLEAN]
  /\ g \in [Bits -> BOOLEAN]
  /\ p \in [Bits -> BOOLEAN]
  /\ sum \in [Bits -> BOOLEAN]
  /\ carry_i \in BOOLEAN

\* After a round of bit_same, whose parts have this size.
SameParts(part) ==
  \A b \in Bits :
    sameBit[b] <=> \A c \in b .. (b \div part) * part + part - 1 :
                     Word(x_vec)[c] <=> Word(y_vec)[c]

\* What set_bits does shows in a secret only if the number of shares is odd.
CompareInv ==
  /\ operation = "comparison" =>
       \E part \in 1 .. Width : Halving(part) /\ i = 2 * part /\ SameParts(part)
  /\ results # <<>> =>
       operation = "comparison" /\ (Shares % 2 = 1 => ResultsRight(results))

\* After a round of the parallel adder: what is carried out of a bit, and that
\* all bits up to it propagate, counting from the beginning of its part.
AddedParts(part) ==
  \A b \in Bits :
    LET s == (b \div part) * part
    IN  /\ g[b] <=> Carries(s, b + 1)
        /\ p[b] <=> AllDiffer(s, b + 1)

PrefixInv ==
  operation = "prefix_adder" =>
    \/ \E part \in 1 .. Width : Halving(part) /\ i = 2 * part /\ AddedParts(part)
    \/ i = 4 * Width /\ sum = Word(x_vec + y_vec)

RippleInv ==
  operation = "ripple_adder" =>
    /\ i \in 0 .. Width
    /\ p = Propagate(x_vec, y_vec)
    /\ g = Generate(x_vec, y_vec)
    /\ i < Width => (carry_i <=> Carries(0, i))
    /\ \A b \in 0 .. i - 1 : sum[b] <=> Word(x_vec + y_vec)[b]

\* What the adder adds and the correction corrects are the parts of a division.
DividedParts ==
  LET parts == D!DivisionParts(division.parties, division.a, division.b, division.c)
  IN  /\ quotients = <<Narrow(parts[1].quotient), Narrow(parts[2].quotient)>>
      /\ x_vec = Narrow(parts[1].error)
      /\ y_vec = Narrow(parts[2].error)

DivisionInv ==
  /\ operation = "division" => division # NoDivision /\ carry_i = FALSE /\ quotient = <<>>
  /\ division = NoDivision => quotient = <<>>
  /\ division # NoDivision =>
       /\ division \in [parties : {3, 4}, a : Addends, b : Addends, c : Divisors]
       /\ operation \in Adders \cup {"division"}
       /\ operation \in Adders => DividedParts

IInv == TypeInv /\ CompareInv /\ PrefixInv /\ RippleInv /\ DivisionInv /\ DividesRight

LEMMA WordTypes ==
  /\ \A n : Word(n) \in [Bits -> BOOLEAN]
  /\ \A v, w : xor_b(v, w) \in [Bits -> BOOLEAN] /\ and_b(v, w) \in [Bits -> BOOLEAN]
  /\ \A w : not_b(w) \in [Bits -> BOOLEAN]
  /\ Zero \in [Bits -> BOOLEAN]
<1>1. \A n : Word(n) \in [Bits -> BOOLEAN]
  BY DEF Word
<1>2. \A v, w : xor_b(v, w) \in [Bits -> BOOLEAN] /\ and_b(v, w) \in [Bits -> BOOLEAN]
  BY DEF xor_b, and_b
<1>3. \A w : not_b(w) \in [Bits -> BOOLEAN]
  BY DEF not_b
<1> QED
  BY <1>1, <1>2, <1>3 DEF Zero

LEMMA PropagateGenerate ==
  ASSUME NEW x, NEW y, NEW b \in Bits
  PROVE  /\ Propagate(x, y)[b] <=> ~(Word(x)[b] <=> Word(y)[b])
         /\ Generate(x, y)[b] <=> Word(x)[b] /\ Word(y)[b]
<1>1. Word(x)[b] \in BOOLEAN /\ Word(y)[b] \in BOOLEAN
  BY Zenon DEF Word
<1>2. Propagate(x, y)[b] = (Word(x)[b] # Word(y)[b])
  BY Zenon DEF Propagate, xor_b
<1>3. Generate(x, y)[b] = (Word(x)[b] /\ Word(y)[b])
  BY Zenon DEF Generate, and_b
<1> QED
  BY <1>1, <1>2, <1>3, Zenon

\* Before its first round an adder has parts of one bit.
FirstRound ==
  /\ x_vec \in Numbers
  /\ y_vec \in Numbers
  /\ p = Propagate(x_vec, y_vec)
  /\ g = Generate(x_vec, y_vec)
  /\ carry_i = FALSE
  /\ i = FirstLoop(operation)

LEMMA FirstRoundRight == FirstRound => PrefixInv /\ RippleInv
<1> SUFFICES ASSUME FirstRound PROVE PrefixInv /\ RippleInv
  OBVIOUS
<1>0. /\ x_vec \in Int /\ y_vec \in Int
      /\ Width \in Nat /\ Width >= 2 /\ Bits = 0 .. Width - 1
  BY WidthFacts, SignBit DEF FirstRound
<1>1. CASE operation = "prefix_adder"
  <2>1. i = 2 * 1 /\ 1 \in 1 .. Width /\ Halving(1)
    BY <1>0, <1>1, Doubling DEF FirstRound, FirstLoop
  <2>2. ASSUME NEW b \in Bits
        PROVE  /\ g[b] <=> Carries((b \div 1) * 1, b + 1)
               /\ p[b] <=> AllDiffer((b \div 1) * 1, b + 1)
    <3>1. (b \div 1) * 1 = b /\ b \in 0 .. b /\ b \in 0 .. Width
      BY <1>0
    <3>2. g[b] <=> Carries(b, b + 1)
      <4>1. Carries(b, b + 1) <=> \/ Word(x_vec)[b] /\ Word(y_vec)[b]
                                  \/ ~(Word(x_vec)[b] <=> Word(y_vec)[b]) /\ Carries(b, b)
        BY <1>0, <3>1, CarryStep
      <4>2. ~Carries(b, b)
        BY <1>0, <3>1, CarryStep
      <4> QED
        BY <4>1, <4>2, PropagateGenerate DEF FirstRound
    <3>3. p[b] <=> AllDiffer(b, b + 1)
      <4>1. \A d : d \in b .. (b + 1) - 1 <=> d = b
        BY <3>1
      <4> QED
        BY <4>1, PropagateGenerate DEF FirstRound, AllDiffer
    <3> QED
      BY <3>1, <3>2, <3>3
  <2>3. AddedParts(1)
    BY <2>2 DEF AddedParts
  <2> QED
    BY <1>1, <2>1, <2>3 DEF PrefixInv, RippleInv
<1>2. CASE operation = "ripple_adder"
  <2>1. i = 0 /\ i \in 0 .. Width
    BY <1>0, <1>2 DEF FirstRound, FirstLoop
  <2>2. ~Carries(0, 0)
    BY <1>0, CarryStep
  <2>3. RippleInv
    BY <2>1, <2>2 DEF FirstRound, RippleInv
  <2> QED
    BY <1>2, <2>3 DEF PrefixInv
<1>3. CASE operation \notin Adders
  BY <1>3 DEF Adders, PrefixInv, RippleInv
<1> QED
  BY <1>1, <1>2, <1>3 DEF Adders

LEMMA InitIInv == Init => IInv
<1> SUFFICES ASSUME Init PROVE IInv
  OBVIOUS
<1>0. Width \in Nat /\ Width >= 2 /\ Bits = 0 .. Width - 1 /\ 2 ^ digits \in Nat \ {0}
  BY WidthFacts
<1>1. x_vec \in Numbers /\ y_vec \in Numbers
  <2>1. 0 \in Numbers
    BY <1>0 DEF Numbers
  <2>2. Operands \subseteq Numbers
    BY OperandsAssumption DEF Numbers, digits
  <2> QED
    BY <2>1, <2>2 DEF Init
<1>2. TypeInv
  <2>1. operation \in Adders \cup {"comparison", "division"} /\ carry_i \in BOOLEAN
    BY DEF Init, BooleanInit
  <2>2. /\ p \in [Bits -> BOOLEAN] /\ g \in [Bits -> BOOLEAN]
        /\ sameBit \in [Bits -> BOOLEAN] /\ sum \in [Bits -> BOOLEAN]
    BY WordTypes DEF Init, BooleanInit, Propagate, Generate
  <2> QED
    BY <1>1, <2>1, <2>2 DEF TypeInv
<1>3. CompareInv
  <2>1. results = <<>>
    BY DEF Init, BooleanInit
  <2>2. SUFFICES ASSUME operation = "comparison"
                 PROVE  \E part \in 1 .. Width : Halving(part) /\ i = 2 * part /\ SameParts(part)
    BY <2>1 DEF CompareInv
  <2>3. i = 2 * 1 /\ Halving(1) /\ 1 \in 1 .. Width
    BY <1>0, <2>2, Doubling DEF Init, BooleanInit, FirstLoop
  <2>4. SameParts(1)
    <3>1. ASSUME NEW b \in Bits
          PROVE  sameBit[b] <=> \A c \in b .. (b \div 1) * 1 + 1 - 1 :
                                  Word(x_vec)[c] <=> Word(y_vec)[c]
      <4>1. \A c : c \in b .. (b \div 1) * 1 + 1 - 1 <=> c = b
        BY <1>0
      <4>2. sameBit[b] <=> ~Propagate(x_vec, y_vec)[b]
        BY Zenon DEF Init, BooleanInit, not_b
      <4> QED
        BY <4>1, <4>2, PropagateGenerate
    <3> QED
      BY <3>1 DEF SameParts
  <2> QED
    BY <2>3, <2>4
<1>4. PrefixInv /\ RippleInv
  BY <1>1, FirstRoundRight DEF FirstRound, Init, BooleanInit
<1>5. DivisionInv
  <2>1. carry_i = FALSE /\ quotient = <<>>
    BY DEF Init, BooleanInit
  <2>2. CASE operation \in Adders \cup {"comparison"} /\ division = NoDivision
    BY <2>1, <2>2 DEF DivisionInv, Adders
  <2>3. CASE /\ operation = "division"
             /\ division \in [parties : {3, 4}, a : Addends, b : Addends, c : Divisors]
    <3>1. division # NoDivision
      BY <2>3 DEF NoDivision
    <3> QED
      BY <2>1, <2>3, <3>1 DEF DivisionInv, Adders
  <2> QED
    BY <2>2, <2>3 DEF Init
<1>6. DividesRight
  BY DEF Init, DividesRight
<1> QED
  BY <1>2, <1>3, <1>4, <1>5, <1>6 DEF IInv

-----------------------------------------------------------------------------
(* The steps.                                                              *)

LEMMA StepBitSameRound ==
  ASSUME IInv, BitSameRound, UNCHANGED divisionVars
  PROVE  IInv'
<1>0. /\ operation = "comparison" /\ i <= Width
      /\ sameBit' = and_b(bit_level_shift(sameBit, i), sameBit)
      /\ i' = 2 * i
      /\ UNCHANGED <<operation, x_vec, y_vec, g, p, carry_i, sum, results>>
  BY DEF BitSameRound
<1>1. TypeInv'
  BY <1>0, WordTypes DEF IInv, TypeInv
<1>2. PICK part \in 1 .. Width : Halving(part) /\ i = 2 * part /\ SameParts(part)
  BY <1>0 DEF IInv, CompareInv
<1>3. PICK m \in Nat \ {0} : (2 * part) * m = Width
  BY <1>0, <1>2, Doubling
<1>4. Halving(2 * part) /\ part \in Nat \ {0} /\ 2 * part \in 1 .. Width /\ i \div 2 = part
  <2>1. part \in Nat \ {0} /\ 2 * part \in 1 .. Width /\ i \div 2 = part
    BY <1>0, <1>2, WidthFacts
  <2>2. Halving(2 * part)
    BY <1>0, <1>2, Doubling
  <2> QED
    BY <2>1, <2>2
<1>5. ASSUME NEW b \in Bits
      PROVE  sameBit'[b] <=>
               \A c \in b .. (b \div (2 * part)) * (2 * part) + 2 * part - 1 :
                 Word(x_vec)[c] <=> Word(y_vec)[c]
  <2>1. PICK s \in Nat : InPart(b, part, s)
    BY <1>3, <1>4, PartOfBit
  <2>2. b \in Nat /\ Width \in Nat /\ Bits = 0 .. Width - 1 /\ s + part \in Bits
    BY <1>4, <2>1, WidthFacts DEF InPart
  <2>3. bit_level_shift(sameBit, i)[b]
          = IF b < s + part THEN sameBit[s + part] ELSE sameBit[b]
    <3>1. bit_level_shift(sameBit, i)[b]
            = IF b % i < i \div 2 THEN sameBit[b - (b % i) + i \div 2] ELSE sameBit[b]
      BY DEF bit_level_shift
    <3>2. b % i = b - s /\ (b - s < part <=> b < s + part) /\ b - (b - s) + part = s + part
      BY <1>2, <1>4, <2>1, <2>2 DEF InPart
    <3> QED
      BY <1>4, <3>1, <3>2
  <2>4. sameBit'[b] <=> bit_level_shift(sameBit, i)[b] /\ sameBit[b]
    BY <1>0, Zenon DEF and_b
  <2>5. sameBit[b] <=> \A c \in b .. (IF b < s + part THEN s ELSE s + part) + part - 1 :
                         Word(x_vec)[c] <=> Word(y_vec)[c]
    BY <1>2, <2>1 DEF SameParts, InPart
  <2>6. sameBit[s + part] <=> \A c \in s + part .. s + part + part - 1 :
                                Word(x_vec)[c] <=> Word(y_vec)[c]
    BY <1>2, <2>1, <2>2 DEF SameParts, InPart
  <2>7. (b \div (2 * part)) * (2 * part) = s
    BY <2>1 DEF InPart
  <2>8. CASE b < s + part
    <3>1. \A c : c \in b .. s + 2 * part - 1
                   <=> c \in b .. s + part - 1 \/ c \in s + part .. s + part + part - 1
      BY <1>4, <2>2, <2>8
    <3>2. sameBit'[b] <=> sameBit[s + part] /\ sameBit[b]
      BY <2>3, <2>4, <2>8
    <3>3. sameBit[b] <=> \A c \in b .. s + part - 1 : Word(x_vec)[c] <=> Word(y_vec)[c]
      BY <2>5, <2>8
    <3> QED
      BY <2>6, <2>7, <3>1, <3>2, <3>3
  <2>9. CASE ~(b < s + part)
    <3>1. s + part + part - 1 = s + 2 * part - 1
      BY <1>4
    <3>2. sameBit'[b] <=> sameBit[b]
      BY <2>3, <2>4, <2>9
    <3>3. sameBit[b] <=> \A c \in b .. s + part + part - 1 : Word(x_vec)[c] <=> Word(y_vec)[c]
      BY <2>5, <2>9
    <3> QED
      BY <2>7, <3>1, <3>2, <3>3
  <2> QED
    BY <2>8, <2>9
<1>6. SameParts(2 * part)'
  BY <1>0, <1>5 DEF SameParts
<1>7. CompareInv'
  <2>1. i' = 2 * (2 * part)
    BY <1>0, <1>2
  <2>2. (results # <<>> =>
          operation = "comparison" /\ (Shares % 2 = 1 => ResultsRight(results)))'
    BY <1>0 DEF IInv, CompareInv, ResultsRight
  <2>3. \E q \in 1 .. Width : Halving(q) /\ i' = 2 * q /\ SameParts(q)'
    BY <1>4, <1>6, <2>1
  <2> QED
    BY <2>2, <2>3 DEF CompareInv
<1>8. PrefixInv' /\ RippleInv'
  BY <1>0 DEF PrefixInv, RippleInv
<1>9. DivisionInv' /\ DividesRight'
  BY <1>0 DEF IInv, DivisionInv, DividedParts, DividesRight, divisionVars, Adders
<1> QED
  BY <1>1, <1>7, <1>8, <1>9 DEF IInv

LEMMA StepCompare ==
  ASSUME IInv, Compare, UNCHANGED divisionVars
  PROVE  IInv'
<1>0. /\ operation = "comparison" /\ i > Width
      /\ results' = [equal_to |-> equal_to, not_equal_to |-> not_equal_to,
                     greater_than |-> greater_than, less_than |-> less_than,
                     greater_equal |-> greater_equal, less_equal |-> less_equal,
                     eq_bits |-> eq_bits, gt_bits |-> gt_bits]
      /\ UNCHANGED <<operation, x_vec, y_vec, sameBit, g, p, carry_i, i, sum>>
  BY DEF Compare
<1>1. TypeInv'
  BY <1>0 DEF IInv, TypeInv
<1>2. PICK part \in 1 .. Width : Halving(part) /\ i = 2 * part /\ SameParts(part)
  BY <1>0 DEF IInv, CompareInv
<1>3. part = Width
  <2>1. ~(2 * part <= Width)
    BY <1>0, <1>2, WidthFacts
  <2> QED
    BY <1>2, <2>1, Doubling, Zenon
<1>4. PrefixDone(x_vec, y_vec)
  <2>1. ASSUME NEW b \in Bits
        PROVE  sameBit[b] <=> AgreeFrom(x_vec, y_vec, b)
    <3>1. b \div Width = 0
      <4>1. b = Width * 0 + b /\ b \in 0 .. Width - 1 /\ Width \in Nat \ {0} /\ b \in Int
        BY WidthFacts
      <4> QED
        BY <4>1, DivUnique
    <3>2. (b \div part) * part + part - 1 = digits
      BY <1>3, <3>1, WidthFacts
    <3> QED
      BY <1>2, <3>2 DEF SameParts, AgreeFrom
  <2> QED
    BY <2>1 DEF PrefixDone
<1>5. Shares % 2 = 1 => ResultsRight(results')
  BY <1>0, <1>4, CompareRight DEF IInv, TypeInv
<1>6. Shares % 2 = 1 => ResultsRight(results)'
  <2>1. x_vec' = x_vec /\ y_vec' = y_vec
    BY <1>0
  <2> QED
    BY <1>5, <2>1, Zenon DEF ResultsRight
<1>7. CompareInv'
  <2>1. SameParts(part)'
    BY <1>0, <1>2 DEF SameParts
  <2> QED
    BY <1>0, <1>2, <1>6, <2>1 DEF CompareInv
<1>8. PrefixInv' /\ RippleInv'
  BY <1>0 DEF PrefixInv, RippleInv
<1>9. DivisionInv' /\ DividesRight'
  BY <1>0 DEF IInv, DivisionInv, DividedParts, DividesRight, divisionVars, Adders
<1> QED
  BY <1>1, <1>6, <1>7, <1>8, <1>9 DEF IInv

LEMMA StepPrefixRound ==
  ASSUME IInv, PrefixRound, UNCHANGED divisionVars
  PROVE  IInv'
<1> DEFINE G == reverse_bit_level_shift(g, i)
           P == reverse_bit_level_shift(p, i)
<1>0. /\ operation = "prefix_adder" /\ i <= Width
      /\ g' = or_b(g, and_b(p, G)) /\ p' = and_b(p, P)
      /\ i' = 2 * i
      /\ UNCHANGED <<operation, x_vec, y_vec, sameBit, carry_i, sum, results>>
  BY DEF PrefixRound, prefix_sum
<1>1. TypeInv'
  <2>1. g' \in [Bits -> BOOLEAN] /\ p' \in [Bits -> BOOLEAN]
    BY <1>0, WordTypes DEF or_b
  <2> QED
    BY <1>0, <2>1 DEF IInv, TypeInv
<1>2. /\ x_vec \in Int /\ y_vec \in Int
      /\ Width \in Nat /\ Width >= 2 /\ Bits = 0 .. Width - 1
      /\ g \in [Bits -> BOOLEAN] /\ p \in [Bits -> BOOLEAN]
  BY WidthFacts, SignBit DEF IInv, TypeInv
<1>3. PICK part \in 1 .. Width : Halving(part) /\ i = 2 * part /\ AddedParts(part)
  <2>1. ~(i = 4 * Width)
    BY <1>0, <1>2
  <2> QED
    BY <1>0, <2>1 DEF IInv, PrefixInv
<1>4. PICK m \in Nat \ {0} : (2 * part) * m = Width
  BY <1>0, <1>3, Doubling
<1>5. Halving(2 * part) /\ part \in Nat \ {0} /\ 2 * part \in 1 .. Width /\ i \div 2 = part
  <2>1. part \in Nat \ {0} /\ 2 * part \in 1 .. Width /\ i \div 2 = part
    BY <1>0, <1>2, <1>3
  <2>2. Halving(2 * part)
    BY <1>0, <1>3, Doubling
  <2> QED
    BY <2>1, <2>2
<1>6. ASSUME NEW b \in Bits
      PROVE  LET s == (b \div (2 * part)) * (2 * part)
             IN  /\ g'[b] <=> Carries(s, b + 1)
                 /\ p'[b] <=> AllDiffer(s, b + 1)
  <2>1. PICK s \in Nat : InPart(b, part, s)
    BY <1>4, <1>5, PartOfBit
  <2> DEFINE h == s + part
             e == h - 1
  <2>2. /\ b \in Nat /\ h \in Nat /\ s <= h /\ e \in Bits /\ e + 1 = h
        /\ b + 1 \in Nat /\ b + 1 <= Width
    BY <1>2, <1>5, <2>1 DEF InPart
  <2>3. \A w : reverse_bit_level_shift(w, i)[b] = IF b < h THEN w[b] ELSE w[e]
    <3>1. \A w : reverse_bit_level_shift(w, i)[b]
                   = IF b % i >= i \div 2 THEN w[b - (b % i) + i \div 2 - 1] ELSE w[b]
      BY DEF reverse_bit_level_shift
    <3>2. b % i = b - s /\ (b - s >= part <=> ~(b < h)) /\ b - (b - s) + part - 1 = e
      BY <1>3, <1>5, <2>1, <2>2 DEF InPart
    <3> HIDE DEF h, e
    <3> QED
      BY <1>5, <3>1, <3>2
  <2>4. /\ g'[b] <=> g[b] \/ (p[b] /\ G[b])
        /\ p'[b] <=> p[b] /\ P[b]
    <3>1. g'[b] = ~(~g[b] /\ ~(p[b] /\ G[b]))
      BY <1>0, Zenon DEF or_b, not_b, and_b
    <3>2. p'[b] = (p[b] /\ P[b])
      BY <1>0, Zenon DEF and_b
    <3> QED
      BY <3>1, <3>2, Zenon
  <2>5. (b \div (2 * part)) * (2 * part) = s
    BY <2>1 DEF InPart
  <2>6. /\ g[b] <=> Carries(IF b < h THEN s ELSE h, b + 1)
        /\ p[b] <=> AllDiffer(IF b < h THEN s ELSE h, b + 1)
        /\ g[e] <=> Carries(s, h)
        /\ p[e] <=> AllDiffer(s, h)
    <3>1. /\ (b \div part) * part = (IF b < h THEN s ELSE h)
          /\ (e \div part) * part = s
      BY <2>1 DEF InPart
    <3> HIDE DEF h, e
    <3> QED
      BY <1>3, <2>2, <3>1 DEF AddedParts
  <2>7. G[b] = (IF b < h THEN g[b] ELSE g[e]) /\ P[b] = (IF b < h THEN p[b] ELSE p[e])
    BY <2>3
  <2> HIDE DEF G, P, h, e
  <2>8. CASE b < h
    BY <2>4, <2>5, <2>6, <2>7, <2>8
  <2>9. CASE ~(b < h)
    <3>1. h <= b + 1
      BY <2>2, <2>9
    <3>2. Carries(s, b + 1) <=> Carries(h, b + 1) \/ (AllDiffer(h, b + 1) /\ Carries(s, h))
      BY <1>2, <2>2, <3>1, CarryJoin
    <3>3. AllDiffer(s, b + 1) <=> AllDiffer(h, b + 1) /\ AllDiffer(s, h)
      <4>1. \A d : d \in s .. (b + 1) - 1 <=> d \in h .. (b + 1) - 1 \/ d \in s .. h - 1
        BY <2>2, <3>1
      <4> QED
        BY <4>1 DEF AllDiffer
    <3> QED
      BY <2>4, <2>5, <2>6, <2>7, <2>9, <3>2, <3>3
  <2> QED
    BY <2>8, <2>9
<1>7. AddedParts(2 * part)'
  <2>1. \A a, c : (Carries(a, c)' <=> Carries(a, c)) /\ (AllDiffer(a, c)' <=> AllDiffer(a, c))
    BY <1>0, Zenon DEF Carries, AllDiffer
  <2> QED
    BY <1>6, <2>1 DEF AddedParts
<1>8. PrefixInv'
  <2>1. i' = 2 * (2 * part)
    BY <1>0, <1>3
  <2> QED
    BY <1>5, <1>7, <2>1 DEF PrefixInv
<1>9. CompareInv' /\ RippleInv'
  BY <1>0 DEF IInv, CompareInv, ResultsRight, RippleInv
<1>10. DivisionInv' /\ DividesRight'
  BY <1>0 DEF IInv, DivisionInv, DividedParts, DividesRight, divisionVars, Adders
<1> QED
  BY <1>1, <1>8, <1>9, <1>10 DEF IInv

LEMMA StepPrefixSum ==
  ASSUME IInv, PrefixSum, UNCHANGED divisionVars
  PROVE  IInv'
<1>0. /\ operation = "prefix_adder" /\ i = 2 * Width
      /\ sum' = xor_b(xor_b(Word(x_vec), Word(y_vec)), bit_left_shift(g, 1))
      /\ i' = 2 * i
      /\ UNCHANGED <<operation, x_vec, y_vec, sameBit, g, p, carry_i, results>>
  BY DEF PrefixSum
<1>1. TypeInv'
  BY <1>0, WordTypes DEF IInv, TypeInv
<1>2. /\ x_vec \in Int /\ y_vec \in Int
      /\ Width \in Nat /\ Width >= 2 /\ Bits = 0 .. Width - 1
      /\ g \in [Bits -> BOOLEAN]
  BY WidthFacts, SignBit DEF IInv, TypeInv
<1>3. AddedParts(Width)
  <2>1. ~(i = 4 * Width)
    BY <1>0, <1>2
  <2>2. PICK part \in 1 .. Width : Halving(part) /\ i = 2 * part /\ AddedParts(part)
    BY <1>0, <2>1 DEF IInv, PrefixInv
  <2>3. part = Width
    BY <1>0, <1>2, <2>2
  <2> QED
    BY <2>2, <2>3
<1>4. ASSUME NEW b \in Bits
      PROVE  sum'[b] <=> Word(x_vec + y_vec)[b]
  <2> DEFINE left == bit_left_shift(g, 1)
  <2>1. left[b] <=> Carries(0, b)
    <3>1. left[b] = (b - 1 \in Bits /\ g[b - 1])
      BY Zenon DEF bit_left_shift
    <3>2. CASE b = 0
      <4>1. ~(b - 1 \in Bits)
        BY <1>2, <3>2
      <4>2. ~Carries(0, 0)
        BY <1>2, CarryStep
      <4> QED
        BY <3>1, <3>2, <4>1, <4>2
    <3>3. CASE b # 0
      <4>1. b - 1 \in Bits /\ (b - 1) + 1 = b
        BY <1>2, <3>3
      <4>2. ((b - 1) \div Width) * Width = 0
        <5>1. b - 1 = Width * 0 + (b - 1) /\ b - 1 \in 0 .. Width - 1
          BY <1>2, <4>1
        <5>2. (b - 1) \div Width = 0
          BY <1>2, <5>1, DivUnique
        <5> QED
          BY <1>2, <5>2
      <4>3. g[b - 1] <=> Carries(0, b)
        BY <1>3, <4>1, <4>2 DEF AddedParts
      <4> QED
        BY <3>1, <4>1, <4>3
    <3> QED
      BY <3>2, <3>3
  <2>2. sum'[b] <=> ~(~(Word(x_vec)[b] <=> Word(y_vec)[b]) <=> left[b])
    <3>1. sum'[b] = ((Word(x_vec)[b] # Word(y_vec)[b]) # left[b])
      BY <1>0, Zenon DEF xor_b
    <3>2. Word(x_vec)[b] \in BOOLEAN /\ Word(y_vec)[b] \in BOOLEAN
      BY Zenon DEF Word
    <3>3. left[b] \in BOOLEAN
      BY DEF bit_left_shift
    <3> HIDE DEF left
    <3> QED
      BY <3>1, <3>2, <3>3, Zenon
  <2> HIDE DEF left
  <2> QED
    BY <1>2, <2>1, <2>2, SumBit
<1>5. sum' = Word(x_vec + y_vec)
  <2>1. sum' \in [Bits -> BOOLEAN]
    BY <1>1 DEF TypeInv
  <2>2. Word(x_vec + y_vec) \in [Bits -> BOOLEAN]
    BY WordTypes
  <2> QED
    BY <1>4, <2>1, <2>2
<1>6. PrefixInv'
  BY <1>0, <1>2, <1>5 DEF PrefixInv
<1>7. CompareInv' /\ RippleInv'
  BY <1>0 DEF IInv, CompareInv, ResultsRight, RippleInv
<1>8. DivisionInv' /\ DividesRight'
  BY <1>0 DEF IInv, DivisionInv, DividedParts, DividesRight, divisionVars, Adders
<1> QED
  BY <1>1, <1>6, <1>7, <1>8 DEF IInv

LEMMA StepRippleBit ==
  ASSUME IInv, RippleBit, UNCHANGED divisionVars
  PROVE  IInv'
<1>0. /\ operation = "ripple_adder" /\ i < Width
      /\ sum' = [sum EXCEPT ![i] = p[i] # carry_i]
      /\ carry_i' = (IF i < Width - 1 THEN g[i] \/ (carry_i /\ p[i]) ELSE carry_i)
      /\ i' = i + 1
      /\ UNCHANGED <<operation, x_vec, y_vec, sameBit, g, p, results>>
  BY DEF RippleBit
<1>1. /\ x_vec \in Int /\ y_vec \in Int
      /\ Width \in Nat /\ Width >= 2 /\ Bits = 0 .. Width - 1
      /\ sum \in [Bits -> BOOLEAN] /\ carry_i \in BOOLEAN
      /\ g \in [Bits -> BOOLEAN] /\ p \in [Bits -> BOOLEAN]
  BY WidthFacts, SignBit DEF IInv, TypeInv
<1>2. /\ i \in Bits
      /\ p = Propagate(x_vec, y_vec) /\ g = Generate(x_vec, y_vec)
      /\ carry_i <=> Carries(0, i)
      /\ \A b \in 0 .. i - 1 : sum[b] <=> Word(x_vec + y_vec)[b]
  BY <1>0, <1>1 DEF IInv, RippleInv
<1>3. /\ p[i] \in BOOLEAN /\ g[i] \in BOOLEAN
      /\ p[i] <=> ~(Word(x_vec)[i] <=> Word(y_vec)[i])
      /\ g[i] <=> Word(x_vec)[i] /\ Word(y_vec)[i]
  BY <1>1, <1>2, PropagateGenerate
<1>4. TypeInv'
  <2>1. sum' \in [Bits -> BOOLEAN] /\ carry_i' \in BOOLEAN
    BY <1>0, <1>1, <1>3
  <2> QED
    BY <1>0, <2>1 DEF IInv, TypeInv
<1>5. carry_i' <=> Carries(0, IF i < Width - 1 THEN i + 1 ELSE i)
  <2>1. CASE i < Width - 1
    <3>1. 0 \in 0 .. i
      BY <1>1, <1>2
    <3>2. Carries(0, i + 1) <=> \/ Word(x_vec)[i] /\ Word(y_vec)[i]
                                \/ ~(Word(x_vec)[i] <=> Word(y_vec)[i]) /\ Carries(0, i)
      BY <1>1, <1>2, <3>1, CarryStep
    <3>3. carry_i' <=> g[i] \/ (carry_i /\ p[i])
      BY <1>0, <2>1, Zenon
    <3> QED
      BY <1>2, <1>3, <2>1, <3>2, <3>3
  <2>2. CASE ~(i < Width - 1)
    BY <1>0, <1>2, <2>2
  <2> QED
    BY <2>1, <2>2
<1>6. ASSUME NEW b \in 0 .. i
      PROVE  sum'[b] <=> Word(x_vec + y_vec)[b]
  <2>1. CASE b = i
    <3>1. sum'[b] = (p[i] # carry_i)
      BY <1>0, <1>1, <1>2, <2>1, Zenon
    <3>2. sum'[b] <=> ~(p[i] <=> carry_i)
      BY <1>1, <1>3, <3>1, Zenon
    <3> QED
      BY <1>1, <1>2, <1>3, <2>1, <3>2, SumBit
  <2>2. CASE b # i
    <3>1. b \in 0 .. i - 1 /\ b \in Bits
      BY <1>1, <1>2, <2>2
    <3>2. sum'[b] = sum[b]
      BY <1>0, <1>1, <2>2, <3>1, Zenon
    <3> QED
      BY <1>2, <3>1, <3>2
  <2> QED
    BY <2>1, <2>2
<1>7. RippleInv'
  <2>1. (i \in 0 .. Width)' /\ i' - 1 = i
    BY <1>0, <1>1, <1>2
  <2>2. (i < Width => (carry_i <=> Carries(0, i)))'
    <3>1. Carries(0, i)' <=> Carries(0, i + 1)
      BY <1>0, Zenon DEF Carries
    <3>2. i' < Width => i < Width - 1
      BY <1>0, <1>1, <1>2
    <3> QED
      BY <1>5, <3>1, <3>2, Zenon
  <2>3. (\A b \in 0 .. i - 1 : sum[b] <=> Word(x_vec + y_vec)[b])'
    BY <1>0, <1>6, <2>1
  <2>4. (p = Propagate(x_vec, y_vec))' /\ (g = Generate(x_vec, y_vec))'
    BY <1>0, <1>2
  <2> QED
    BY <2>1, <2>2, <2>3, <2>4 DEF RippleInv
<1>8. CompareInv' /\ PrefixInv'
  BY <1>0 DEF IInv, CompareInv, ResultsRight, PrefixInv
<1>9. DivisionInv' /\ DividesRight'
  BY <1>0 DEF IInv, DivisionInv, DividedParts, DividesRight, divisionVars, Adders
<1> QED
  BY <1>4, <1>7, <1>8, <1>9 DEF IInv

\* The addends and the divisors are what DivisionTheorem is about.
LEMMA DivisionFacts ==
  ASSUME IInv, division # NoDivision
  PROVE  /\ division.parties \in {3, 4}
         /\ division.a \in DP!Range
         /\ division.b \in DP!Range
         /\ division.c \in DP!Divisor
<1>1. /\ division \in [parties : {3, 4}, a : Addends, b : Addends, c : Divisors]
  BY DEF IInv, DivisionInv
<1>2. Addends \subseteq DP!Range /\ Divisors \subseteq DP!Divisor
  BY DivisionAssumption DEF DP!Range, DP!Divisor
<1> QED
  BY <1>1, <1>2

\* What is proved of divisions is about these.
LEMMA SameDivision ==
  /\ \A n : Narrow(n) = DP!Signed(DP!Wrap(n))
  /\ \A truth : D!Truth(truth) = DP!Truth(truth)
  /\ \A parties, a, b, c :
       /\ D!DivisionParts(parties, a, b, c) = DP!DivisionParts(parties, a, b, c)
       /\ D!Fit(parties, a, b, c) <=> DP!Fit(parties, a, b, c)
       /\ D!BothExact(a, b, c) <=> DP!BothExact(a, b, c)
<1>1. \A n : Narrow(n) = DP!Signed(DP!Wrap(n))
  BY Zenon DEF Narrow, D!Signed, D!Wrap, D!Modulus, DP!Signed, DP!Wrap, DP!Modulus
<1>2. \A truth : D!Truth(truth) = DP!Truth(truth)
  BY Zenon DEF D!Truth, DP!Truth
<1>3. \A n : D!Negative(n) = DP!Negative(n)
  BY Zenon DEF D!Negative, D!Truth, DP!Negative, DP!Truth
<1>4. \A n, c, less : D!RoundedDown(n, c, less) = DP!RoundedDown(n, c, less)
  BY <1>3, Zenon DEF D!RoundedDown, D!Quotient, D!Remainder,
                     DP!RoundedDown, DP!Quotient, DP!Remainder
<1>5. \A n, c : D!LoweredFirst(n, c) = DP!LoweredFirst(n, c)
  <2>1. \A n, c : D!Quotient(n, c) = DP!Quotient(n, c)
    BY Zenon DEF D!Quotient, DP!Quotient
  <2>2. \A n, c : D!Remainder(n, c) = DP!Remainder(n, c)
    BY <2>1, Zenon DEF D!Remainder, DP!Remainder
  <2>3. \A n, c : D!Signed(D!Wrap(n - D!Negative(n) * c)) = DP!Signed(DP!Wrap(n - DP!Negative(n) * c))
    BY <1>1, <1>3, Zenon DEF Narrow
  <2> QED
    BY <1>3, <2>1, <2>2, <2>3, Zenon DEF D!LoweredFirst, DP!LoweredFirst
<1>6. \A parties, a, b, c :
        D!DivisionParts(parties, a, b, c) = DP!DivisionParts(parties, a, b, c)
  BY <1>4, <1>5, Zenon DEF D!DivisionParts, DP!DivisionParts
<1>7. \A parties, a, b, c :
        /\ D!Fit(parties, a, b, c) <=> DP!Fit(parties, a, b, c)
        /\ D!BothExact(a, b, c) <=> DP!BothExact(a, b, c)
  BY Zenon DEF D!Fit, D!BothExact, DP!Fit, DP!BothExact
<1> QED
  BY <1>1, <1>2, <1>6, <1>7

LEMMA PowerFacts ==
  /\ Width \in Nat \ {0}
  /\ 2 ^ 0 = 1
  /\ \A n \in 0 .. Width : 2 ^ n \in Nat \ {0} /\ 2 ^ (n + 1) = 2 * 2 ^ n
<1>1. Width \in Nat \ {0}
  BY WidthFacts
<1> QED
  BY <1>1, WidthFacts

LEMMA StepDivideConst ==
  ASSUME IInv, DivideConst
  PROVE  IInv'
<1> DEFINE parts == D!DivisionParts(division.parties, division.a, division.b, division.c)
<1>0. /\ operation = "division"
      /\ quotients' = <<Narrow(parts[1].quotient), Narrow(parts[2].quotient)>>
      /\ x_vec' = Narrow(parts[1].error)
      /\ y_vec' = Narrow(parts[2].error)
      /\ operation' \in Adders
      /\ p' = Propagate(x_vec', y_vec')
      /\ g' = Generate(x_vec', y_vec')
      /\ i' = FirstLoop(operation')
      /\ UNCHANGED <<sameBit, carry_i, sum, results, division, quotient>>
  BY DEF DivideConst
<1>1. /\ division # NoDivision /\ carry_i = FALSE /\ quotient = <<>> /\ results = <<>>
      /\ division \in [parties : {3, 4}, a : Addends, b : Addends, c : Divisors]
  BY <1>0 DEF IInv, DivisionInv, CompareInv
<1>2. x_vec' \in Numbers /\ y_vec' \in Numbers
  <2>1. parts[1].error \in Int /\ parts[2].error \in Int
    <3>1. \A k \in {1, 2} : parts[k].error \in Int
      BY <1>1, DivisionFacts, PowerFacts, SameDivision, DP!PartsAreNumbers
    <3> QED
      BY <3>1
  <2>2. \A n \in Int : Narrow(n) \in Numbers
    BY PowerFacts, SameDivision, DP!SignedCongruent DEF Numbers, digits, DP!Range
  <2> QED
    BY <1>0, <2>1, <2>2
<1>3. TypeInv'
  <2>1. p' \in [Bits -> BOOLEAN] /\ g' \in [Bits -> BOOLEAN]
    BY <1>0, WordTypes DEF Propagate, Generate
  <2> QED
    BY <1>0, <1>2, <2>1 DEF IInv, TypeInv, Adders
<1>4. PrefixInv' /\ RippleInv'
  <2>1. FirstRound'
    BY <1>0, <1>1, <1>2 DEF FirstRound
  <2>2. (FirstRound => PrefixInv /\ RippleInv)'
    BY FirstRoundRight, PTL
  <2> QED
    BY <2>1, <2>2
<1>5. CompareInv'
  BY <1>0, <1>1 DEF CompareInv, Adders
<1>6. DivisionInv'
  <2>1. DividedParts'
    BY <1>0 DEF DividedParts
  <2> QED
    BY <1>0, <1>1, <2>1 DEF DivisionInv, Adders
<1>7. DividesRight'
  BY <1>0, <1>1 DEF DividesRight
<1> QED
  BY <1>3, <1>4, <1>5, <1>6, <1>7 DEF IInv

LEMMA StepCorrect ==
  ASSUME IInv, Correct
  PROVE  IInv'
<1> DEFINE parts == D!DivisionParts(division.parties, division.a, division.b, division.c)
           a == division.a
           b == division.b
           c == division.c
           e1 == parts[1].error
           e2 == parts[2].error
           q1 == parts[1].quotient
           q2 == parts[2].quotient
<1>0. /\ division # NoDivision /\ quotient = <<>> /\ BooleanReturned
      /\ quotient' = <<Narrow(quotients[1] + quotients[2] + Correction)>>
      /\ UNCHANGED <<booleanVars, division, quotients>>
  BY DEF Correct
<1>1. operation \in Adders /\ DividedParts
  <2>1. operation # "division"
    BY <1>0 DEF BooleanReturned
  <2> QED
    BY <1>0, <2>1 DEF IInv, DivisionInv
<1>2. Width \in Nat /\ Width >= 2 /\ Bits = 0 .. digits /\ digits \in Nat /\ 0 \in Bits
  BY WidthFacts
<1>3. sum = Word(x_vec + y_vec)
  <2>1. CASE operation = "prefix_adder"
    <3>1. i > 2 * Width
      BY <1>0, <2>1 DEF BooleanReturned
    <3>2. ~\E part \in 1 .. Width : i = 2 * part
      BY <1>2, <3>1
    <3> QED
      BY <2>1, <3>2 DEF IInv, PrefixInv
  <2>2. CASE operation = "ripple_adder"
    <3>1. i = Width
      BY <1>0, <2>2 DEF BooleanReturned
    <3>2. \A d \in Bits : sum[d] <=> Word(x_vec + y_vec)[d]
      BY <2>2, <3>1 DEF IInv, RippleInv, Bits
    <3>3. sum \in [Bits -> BOOLEAN] /\ Word(x_vec + y_vec) \in [Bits -> BOOLEAN]
      BY WordTypes DEF IInv, TypeInv
    <3> QED
      BY <3>2, <3>3
  <2> QED
    BY <1>1, <2>1, <2>2 DEF Adders
<1>4. Correction = D!Truth(~Word(x_vec + y_vec)[digits])
  <2>1. not_b_1(ltz(sum))[0] = ~ltz(sum)[0]
    <3>1. ltz(sum) \in [Bits -> BOOLEAN]
      BY DEF ltz, bit_right_shift
    <3> QED
      BY <1>2, <3>1, Zenon DEF not_b_1
  <2>2. ltz(sum)[0] <=> sum[digits]
    <3>1. ltz(sum)[0] = (0 + digits \in Bits /\ sum[0 + digits])
      BY <1>2, Zenon DEF ltz, bit_right_shift
    <3>2. 0 + digits = digits /\ digits \in Bits
      BY <1>2
    <3> QED
      BY <3>1, <3>2, Zenon
  <2>3. not_b_1(ltz(sum))[0] <=> ~Word(x_vec + y_vec)[digits]
    BY <1>3, <2>1, <2>2
  <2> QED
    BY <2>3, Zenon DEF Correction, b2a_bit, D!Truth
<1>5. /\ quotients[1] = Narrow(q1) /\ quotients[2] = Narrow(q2)
      /\ x_vec = Narrow(e1) /\ y_vec = Narrow(e2)
  BY <1>1 DEF DividedParts
<1>6. /\ division.parties \in {3, 4} /\ a \in DP!Range /\ b \in DP!Range /\ c \in DP!Divisor
  BY <1>0, DivisionFacts
<1>7. parts = DP!DivisionParts(division.parties, a, b, c)
  BY SameDivision, Zenon
<1>8. /\ q1 \in Int /\ q2 \in Int /\ e1 \in Int /\ e2 \in Int
  <2>1. \A k \in {1, 2} : parts[k].quotient \in Int /\ parts[k].error \in Int
    BY <1>6, <1>7, PowerFacts, DP!PartsAreNumbers
  <2> QED
    BY <2>1
<1>9. ASSUME D!Fit(division.parties, a, b, c)
      PROVE  quotient'[1] = Narrow(((a + b) \div c) - D!Truth(D!BothExact(a, b, c)))
  <2>0. DP!Fit(division.parties, a, b, c)
    BY <1>9, SameDivision, Zenon
  <2>1. e1 \in DP!Range /\ e2 \in DP!Range /\ e1 + e2 \in DP!Range
    BY <1>6, <1>7, <2>0, PowerFacts, DP!ErrorsInRange
  <2>2. x_vec = e1 /\ y_vec = e2
    BY <1>5, <2>1, PowerFacts, SameDivision, DP!SignedWrap
  <2>3. Word(x_vec + y_vec)[digits] <=> e1 + e2 < 0
    <3>1. DP!Range = Numbers
      BY DEF DP!Range, Numbers, digits
    <3> QED
      BY <2>1, <2>2, <3>1, SignBit
  <2>4. Correction = DP!Truth(e1 + e2 >= 0)
    <3>1. ~Word(x_vec + y_vec)[digits] <=> e1 + e2 >= 0
      BY <1>8, <2>3
    <3> HIDE DEF e1, e2
    <3> QED
      BY <1>4, <3>1, Zenon DEF D!Truth, DP!Truth
  <2>5. q1 + q2 + DP!Truth(e1 + e2 >= 0)
          = ((a + b) \div c) - DP!Truth(DP!BothExact(a, b, c))
    <3>1. DP!DivisionRight(division.parties, a, b, c)
      BY <1>6, PowerFacts, DP!DivisionTheorem
    <3> QED
      BY <1>7, <2>0, <3>1, Zenon DEF DP!DivisionRight, DP!Corrected
  <2>6. Narrow(Narrow(q1) + Narrow(q2) + DP!Truth(e1 + e2 >= 0))
          = Narrow(q1 + q2 + DP!Truth(e1 + e2 >= 0))
    <3>1. DP!Truth(e1 + e2 >= 0) \in Int
      BY DEF DP!Truth
    <3>2. \A n \in Int :
            DP!Signed(DP!Wrap(DP!Signed(DP!Wrap(q1)) + DP!Signed(DP!Wrap(q2)) + n))
              = DP!Signed(DP!Wrap(q1 + q2 + n))
      BY <1>8, PowerFacts, DP!SignedOfSum
    <3> HIDE DEF q1, q2, e1, e2
    <3> QED
      BY <3>1, <3>2, SameDivision, Zenon
  <2>7. DP!Truth(DP!BothExact(a, b, c)) = D!Truth(D!BothExact(a, b, c))
    BY SameDivision, Zenon DEF D!Truth, DP!Truth
  <2> HIDE DEF q1, q2, e1, e2, a, b, c
  <2> QED
    BY <1>0, <1>5, <2>4, <2>5, <2>6, <2>7
<1>10. DividesRight'
  BY <1>0, <1>9 DEF DividesRight
<1>11. TypeInv' /\ CompareInv' /\ PrefixInv' /\ RippleInv'
  BY <1>0 DEF IInv, TypeInv, CompareInv, ResultsRight, SameParts, PrefixInv, AddedParts,
              AllDiffer, Carries, RippleInv, booleanVars
<1>12. DivisionInv'
  BY <1>0, <1>1 DEF IInv, DivisionInv, DividedParts, booleanVars, Adders
<1> QED
  BY <1>10, <1>11, <1>12 DEF IInv

\* The rounds keep what they have found about the parts of the words, and what
\* has been returned stays right.
THEOREM Invariance == Spec => []IInv
<1>1. Init => IInv
  BY InitIInv
<1>2. IInv /\ [Next]_vars => IInv'
  <2> SUFFICES ASSUME IInv, [Next]_vars PROVE IInv'
    OBVIOUS
  <2>1. CASE BooleanNext /\ UNCHANGED divisionVars
    BY <2>1, StepBitSameRound, StepCompare, StepPrefixRound, StepPrefixSum, StepRippleBit
       DEF BooleanNext
  <2>2. CASE DivideConst
    BY <2>2, StepDivideConst
  <2>3. CASE Correct
    BY <2>3, StepCorrect
  <2>4. CASE UNCHANGED vars
    <3>1. UNCHANGED <<booleanVars, division, quotients, quotient>>
      BY <2>4 DEF vars, divisionVars
    <3>2. TypeInv' /\ CompareInv' /\ PrefixInv' /\ RippleInv'
      BY <3>1 DEF IInv, TypeInv, CompareInv, ResultsRight, SameParts, PrefixInv, AddedParts,
                  AllDiffer, Carries, RippleInv, booleanVars
    <3>3. DivisionInv' /\ DividesRight'
      BY <3>1 DEF IInv, DivisionInv, DividedParts, DividesRight, booleanVars
    <3> QED
      BY <3>2, <3>3 DEF IInv
  <2> QED
    BY <2>1, <2>2, <2>3, <2>4 DEF Next, Done
<1> QED
  BY <1>1, <1>2, PTL DEF Spec

-----------------------------------------------------------------------------
(* The theorems.                                                           *)

LEMMA PartInWord ==
  ASSUME NEW part, Halving(part), NEW b \in Bits
  PROVE  /\ (b \div part) * part \in Nat
         /\ (b \div part) * part + part <= Width
<1>1. part \in Nat \ {0} /\ \E f \in Powers : part * f = Width
  BY DEF Halving
<1>2. PICK f \in Nat : part * f = Width
  BY <1>1, PowersHalve
<1> DEFINE q == b \div part
           r == b % part
<1>3. q \in Nat /\ r \in 0 .. part - 1 /\ b = part * q + r /\ b \in Nat /\ b < Width
  <2>1. b \in Nat /\ b < Width
    BY WidthFacts
  <2> QED
    BY <1>1, <2>1, DivMod
<1> HIDE DEF q, r
<1>4. q < f
  <2>1. SUFFICES ASSUME f <= q PROVE FALSE
    BY <1>2, <1>3
  <2>2. f * part <= q * part
    BY <1>1, <1>2, <1>3, <2>1, TimesMono
  <2>3. f * part = Width /\ q * part = part * q
    BY <1>1, <1>2, <1>3
  <2> QED
    BY <1>1, <1>3, <2>2, <2>3, WidthFacts
<1>5. q + 1 \in Nat /\ q + 1 <= f
  BY <1>2, <1>3, <1>4
<1>6. (q + 1) * part <= f * part
  BY <1>1, <1>2, <1>5, TimesMono
<1>7. (q + 1) * part = q * part + part /\ f * part = Width /\ q * part \in Nat
  BY <1>1, <1>2, <1>3, TimesNat
<1> QED
  BY <1>6, <1>7 DEF q

\* Whatever the operands, bit_same finds the equal bits in every round, and
\* operators ==, >, <, >= and <=, their negations and compare of sorting tell
\* the truth about signed operands, provided that the number of shares is odd,
\* since compare sets a bit in every share.
THEOREM ComparisonTheorem ==
  ASSUME Shares % 2 = 1
  PROVE  Spec => []ComparesRight
<1>1. ASSUME IInv
      PROVE  ComparesRight
  <2>1. SamePrefix
    <3>1. SUFFICES ASSUME operation = "comparison" PROVE SamePrefix
      BY DEF SamePrefix
    <3>2. PICK part \in 1 .. Width : Halving(part) /\ i = 2 * part /\ SameParts(part)
      BY <1>1, <3>1 DEF IInv, CompareInv
    <3>3. i \div 2 = part
      BY <3>2, WidthFacts
    <3>4. ASSUME NEW b \in Bits
          PROVE  sameBit[b] <=> \A c \in b .. (b \div part) * part + part - 1 :
                                  Word(x_vec)[c] = Word(y_vec)[c]
      <4>1. \A c \in b .. (b \div part) * part + part - 1 : c \in Bits
        <5>1. /\ (b \div part) * part \in Nat
              /\ (b \div part) * part + part <= Width
          BY <3>2, PartInWord
        <5>2. Width \in Nat /\ Bits = 0 .. Width - 1
          BY WidthFacts
        <5> DEFINE s == (b \div part) * part
        <5>3. s \in Nat /\ s + part <= Width
          BY <5>1
        <5> HIDE DEF s
        <5>4. \A c \in b .. s + part - 1 : c \in Bits
          BY <5>2, <5>3
        <5> QED
          BY <5>4 DEF s
      <4>2. \A c \in Bits : Word(x_vec)[c] \in BOOLEAN /\ Word(y_vec)[c] \in BOOLEAN
        BY WordTypes
      <4>3. \A c \in Bits : (Word(x_vec)[c] <=> Word(y_vec)[c])
                              <=> Word(x_vec)[c] = Word(y_vec)[c]
        BY <4>2, Zenon
      <4>4. sameBit[b] <=> \A c \in b .. (b \div part) * part + part - 1 :
                             Word(x_vec)[c] <=> Word(y_vec)[c]
        BY <3>2, Zenon DEF SameParts
      <4> QED
        BY <4>1, <4>3, <4>4, Zenon
    <3> QED
      BY <3>3, <3>4, Zenon DEF SamePrefix
  <2>2. results # <<>> => ResultsRight(results)
    BY <1>1 DEF IInv, CompareInv
  <2> QED
    BY <2>1, <2>2, Zenon DEF ComparesRight, EqBitsAreEquality, ResultsRight
<1> QED
  BY <1>1, Invariance, PTL

\* Both adders are right about every carry they have found and every bit they
\* have added, and what they return is the sum modulo 2 ^ Width.
THEOREM AdditionTheorem == Spec => []AddsRight
<1>1. ASSUME IInv
      PROVE  AddsRight
  <2>0. Width \in Nat /\ Width >= 2 /\ Bits = 0 .. Width - 1
    BY WidthFacts
  <2>1. ASSUME operation = "prefix_adder", ~BooleanReturned
        PROVE  \A b \in Bits :
                 LET part == i \div 2
                 IN  g[b] <=> Carries((b \div part) * part, b + 1)
    <3>1. ~(i = 4 * Width)
      BY <2>0, <2>1 DEF BooleanReturned
    <3>2. PICK part \in 1 .. Width : i = 2 * part /\ AddedParts(part)
      BY <1>1, <2>1, <3>1 DEF IInv, PrefixInv
    <3>3. i \div 2 = part
      BY <3>2
    <3> QED
      BY <3>2, <3>3, Zenon DEF AddedParts
  <2>2. \A b \in Bits : sum[b] \in BOOLEAN /\ Word(x_vec + y_vec)[b] \in BOOLEAN
    BY <1>1, WordTypes DEF IInv, TypeInv
  <2>3. ASSUME operation = "ripple_adder"
        PROVE  \A b \in 0 .. i - 1 : sum[b] = Word(x_vec + y_vec)[b]
    <3>1. /\ i \in 0 .. Width
          /\ \A b \in 0 .. i - 1 : sum[b] <=> Word(x_vec + y_vec)[b]
      BY <1>1, <2>3 DEF IInv, RippleInv
    <3>2. \A b \in 0 .. i - 1 : b \in Bits
      BY <2>0, <3>1
    <3> QED
      BY <2>2, <3>1, <3>2, Zenon
  <2>4. ASSUME operation \in Adders, BooleanReturned
        PROVE  sum = Word(x_vec + y_vec)
    <3>1. CASE operation = "prefix_adder"
      <4>1. i > 2 * Width
        BY <2>4, <3>1 DEF BooleanReturned
      <4>2. ~\E part \in 1 .. Width : i = 2 * part
        BY <2>0, <4>1
      <4> QED
        BY <1>1, <3>1, <4>2 DEF IInv, PrefixInv
    <3>2. CASE operation = "ripple_adder"
      <4>1. i = Width
        BY <2>4, <3>2 DEF BooleanReturned
      <4>2. \A d \in Bits : sum[d] = Word(x_vec + y_vec)[d]
        BY <2>3, <3>2, <4>1 DEF Bits
      <4>3. sum \in [Bits -> BOOLEAN] /\ Word(x_vec + y_vec) \in [Bits -> BOOLEAN]
        BY <1>1, WordTypes DEF IInv, TypeInv
      <4> QED
        BY <4>2, <4>3
    <3> QED
      BY <2>4, <3>1, <3>2 DEF Adders
  <2> QED
    BY <2>1, <2>3, <2>4 DEF AddsRight
<1> QED
  BY <1>1, Invariance, PTL

\* Division by a public constant, with either adder and for every divisor and
\* all addends that fit, is the division rounded down, but for two negative
\* multiples of the divisor.
THEOREM ConstantDivisionTheorem == Spec => []DividesRight
<1>1. IInv => DividesRight
  BY DEF IInv
<1> QED
  BY <1>1, Invariance, PTL
===============================================================================
