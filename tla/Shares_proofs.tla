----------------------------- MODULE Shares_proofs -----------------------------
(***************************************************************************)
(* What the proofs about the protocols and about shared vectors need to    *)
(* know of words and of lists of messages.  The division of a secret by a  *)
(* public constant is right for words of every width, for all addends that *)
(* fit and all divisors.                                                   *)
(***************************************************************************)
EXTENDS ConstantDivision, Sequences, Division_proofs

Range == -(2^(Width - 1)) .. 2^(Width - 1) - 1
Divisor == 1 .. 2^(Width - 1) - 1

LEMMA HalfPower ==
  /\ Width \in Nat \ {0}
  /\ 2^(Width - 1) \in Nat \ {0}
  /\ 2^Width = 2 * 2^(Width - 1)
<1>1. Width \in Nat /\ Width - 1 \in 0 .. Width /\ (Width - 1) + 1 = Width
  BY WidthAssumption
<1> QED
  BY <1>1, WidthAssumption, PowerAssumption

\* C's division rounds to zero: what is left has the sign of the dividend.
LEMMA Truncates ==
  ASSUME NEW n \in Int, NEW c \in Nat \ {0}
  PROVE  /\ Quotient(n, c) \in Int
         /\ Remainder(n, c) \in Int
         /\ n = c * Quotient(n, c) + Remainder(n, c)
         /\ n >= 0 => Remainder(n, c) \in 0 .. c - 1
         /\ n < 0 => -Remainder(n, c) \in 0 .. c - 1
<1>1. CASE n >= 0
  <2>1. n \in Nat
    BY <1>1
  <2>2. n \div c \in Nat /\ n % c \in 0 .. c - 1 /\ n = c * (n \div c) + (n % c)
    BY <2>1, DivMod
  <2>3. Quotient(n, c) = n \div c
    BY <1>1 DEF Quotient
  <2>4. Remainder(n, c) = n % c
    BY <2>2, <2>3 DEF Remainder
  <2> QED
    BY <1>1, <2>2, <2>3, <2>4
<1>2. CASE n < 0
  <2>1. -n \in Nat
    BY <1>2
  <2>2. /\ (-n) \div c \in Nat
        /\ (-n) % c \in 0 .. c - 1
        /\ -n = c * ((-n) \div c) + ((-n) % c)
    BY <2>1, DivMod
  <2>3. Quotient(n, c) = -((-n) \div c)
    BY <1>2 DEF Quotient
  <2> DEFINE q == (-n) \div c
             m == (-n) % c
  <2>4. q \in Int /\ m \in 0 .. c - 1 /\ -n = c * q + m /\ Quotient(n, c) = -q
    BY <2>2, <2>3
  <2> HIDE DEF q, m
  <2>5. c * q \in Int /\ c * (-q) = -(c * q)
    BY <2>4
  <2>6. Remainder(n, c) = n - c * (-q)
    BY <2>4 DEF Remainder
  <2>7. Remainder(n, c) = -m
    BY <2>4, <2>5, <2>6
  <2> QED
    BY ONLY <1>2, <2>4, <2>5, <2>7, n \in Int, c \in Nat \ {0}
<1> QED
  BY <1>1, <1>2

-----------------------------------------------------------------------------
\* Both parties leave less than the divisor or, of a negative multiple of it,
\* the divisor itself.
Rounded(part, n, c, less) ==
  /\ part.quotient \in Int
  /\ part.error \in Int
  /\ n = c * part.quotient + (part.error + less)
  /\ part.error + less \in 0 .. c
  /\ part.error + less = c <=> (n < 0 /\ n % c = 0)

LEMMA RoundedDownRounds ==
  ASSUME NEW n \in Int, NEW c \in Nat \ {0}, NEW less \in {0, c}
  PROVE  Rounded(RoundedDown(n, c, less), n, c, less)
<1> DEFINE q == Quotient(n, c)
           m == Remainder(n, c)
           part == RoundedDown(n, c, less)
<1>1. /\ q \in Int /\ m \in Int
      /\ n = c * q + m
      /\ n >= 0 => m \in 0 .. c - 1
      /\ n < 0 => -m \in 0 .. c - 1
  BY Truncates
<1>2. CASE n >= 0
  <2>1. part.quotient = q /\ part.error = m - less
    BY <1>1, <1>2 DEF RoundedDown, Negative, Truth
  <2> HIDE DEF q, m, part
  <2>2. part.error + less = m /\ part.error \in Int
    BY <1>1, <2>1
  <2>3. m \in 0 .. c /\ m # c
    BY <1>1, <1>2
  <2>4. Rounded(part, n, c, less)
    BY <1>1, <1>2, <2>1, <2>2, <2>3 DEF Rounded
  <2> QED
    BY <2>4 DEF part
<1>3. CASE n < 0
  <2>1. part.quotient = q - 1 /\ part.error = m + 1 * c - less
    BY <1>3 DEF RoundedDown, Negative, Truth
  <2> HIDE DEF q, m, part
  <2>2. part.error + less = m + c
    BY <1>1, <2>1
  <2>3. c * (q - 1) = c * q - c /\ c * q \in Int
    BY <1>1
  <2>4. n = c * (q - 1) + (m + c)
    BY <1>1, <2>3
  <2>5. m = 0 => n % c = 0
    <3>1. SUFFICES ASSUME m = 0 PROVE n % c = 0
      OBVIOUS
    <3>2. n = c * q + 0 /\ 0 \in 0 .. c - 1
      BY <1>1, <3>1
    <3> QED
      BY <1>1, <3>2, DivUnique
  <2>6. m # 0 => n % c = m + c
    <3>1. SUFFICES ASSUME m # 0 PROVE n % c = m + c
      OBVIOUS
    <3>2. m + c \in 0 .. c - 1 /\ q - 1 \in Int
      BY <1>1, <1>3, <3>1
    <3> QED
      BY <2>4, <3>2, DivUnique
  <2>7. m + c \in 0 .. c /\ (m + c = c <=> n % c = 0)
    BY <1>1, <1>3, <2>5, <2>6
  <2>8. part.quotient \in Int /\ part.error \in Int /\ part.quotient = q - 1
    BY <1>1, <2>1
  <2>9. Rounded(part, n, c, less)
    BY <1>3, <2>2, <2>4, <2>7, <2>8 DEF Rounded
  <2> QED
    BY <2>9 DEF part
<1> QED
  BY <1>2, <1>3

\* A number of the range of a word is the same as a word.
LEMMA SignedWrap ==
  ASSUME NEW n \in Range
  PROVE  Signed(Wrap(n)) = n
<1> DEFINE P == 2^(Width - 1)
<1>1. P \in Nat \ {0} /\ Modulus = 2 * P /\ n \in -P .. P - 1
  BY HalfPower DEF Modulus, Range
<1>2. Signed(Wrap(n)) = IF n % Modulus < P THEN n % Modulus ELSE (n % Modulus) - Modulus
  BY DEF Signed, Wrap
<1> HIDE DEF P
<1>3. CASE n >= 0
  <2>1. n = (2 * P) * 0 + n /\ n \in 0 .. (2 * P) - 1
    BY <1>1, <1>3
  <2>2. n % (2 * P) = n
    BY <1>1, <2>1, DivUnique
  <2> QED
    BY <1>1, <1>2, <1>3, <2>2
<1>4. CASE n < 0
  <2>1. n = (2 * P) * (-1) + (n + 2 * P) /\ n + 2 * P \in 0 .. (2 * P) - 1
    BY <1>1, <1>4
  <2>2. n % (2 * P) = n + 2 * P
    BY <1>1, <2>1, DivUnique
  <2> QED
    BY <1>1, <1>2, <1>4, <2>2
<1> QED
  BY <1>1, <1>3, <1>4

\* Lowering a number before dividing it gives what lowering the quotient does,
\* unless the number wraps around.
LEMMA LoweredFirstRounds ==
  ASSUME NEW n \in Range, NEW c \in Divisor, n < 0 => n - c \in Range
  PROVE  Rounded(LoweredFirst(n, c), n, c, 0)
<1>0. n \in Int /\ c \in Nat \ {0}
  BY HalfPower DEF Range, Divisor
<1> DEFINE part == LoweredFirst(n, c)
<1>1. CASE n >= 0
  <2>1. n - Negative(n) * c = n
    BY <1>0, <1>1 DEF Negative, Truth
  <2>2. Signed(Wrap(n)) = n
    BY SignedWrap
  <2>3. part = RoundedDown(n, c, 0)
    <3>1. Negative(n) = 0
      BY <1>0, <1>1 DEF Negative, Truth
    <3>2. Quotient(n, c) \in Int /\ Remainder(n, c) \in Int
      BY <1>0, Truncates
    <3>3. /\ Quotient(n, c) - Negative(n) = Quotient(n, c)
          /\ Remainder(n, c) + Negative(n) * c - 0 = Remainder(n, c) + Negative(n) * c
      BY <1>0, <3>1, <3>2
    <3> QED
      BY <2>1, <2>2, <3>3 DEF LoweredFirst, RoundedDown
  <2> QED
    BY <1>0, <2>3, RoundedDownRounds
<1>2. CASE n < 0
  <2> DEFINE q == Quotient(n - c, c)
             m == Remainder(n - c, c)
  <2>1. n - Negative(n) * c = n - c /\ Negative(n) * c = c
    BY <1>0, <1>2 DEF Negative, Truth
  <2>2. Signed(Wrap(n - c)) = n - c
    BY <1>2, SignedWrap
  <2>3. part.quotient = q /\ part.error = m + c
    BY <2>1, <2>2 DEF LoweredFirst
  <2>4. /\ q \in Int /\ m \in Int
        /\ n - c = c * q + m
        /\ -m \in 0 .. c - 1
    <3>1. n - c \in Int /\ n - c < 0
      BY <1>0, <1>2
    <3> QED
      BY <1>0, <3>1, Truncates
  <2> HIDE DEF q, m, part
  <2>5. c * q \in Int /\ n = c * q + (m + c) /\ c * (q + 1) = c * q + c
    BY <1>0, <2>4
  <2>6. m = 0 => n % c = 0
    <3>1. SUFFICES ASSUME m = 0 PROVE n % c = 0
      OBVIOUS
    <3>2. n = c * (q + 1) + 0 /\ q + 1 \in Int /\ 0 \in 0 .. c - 1
      BY <1>0, <2>4, <2>5, <3>1
    <3> QED
      BY <1>0, <3>2, DivUnique
  <2>7. m # 0 => n % c = m + c
    <3>1. SUFFICES ASSUME m # 0 PROVE n % c = m + c
      OBVIOUS
    <3>2. m + c \in 0 .. c - 1
      BY <1>0, <2>4, <3>1
    <3> QED
      BY <1>0, <2>4, <2>5, <3>2, DivUnique
  <2>8. m + c \in 0 .. c /\ (m + c = c <=> n % c = 0)
    BY <1>0, <2>4, <2>6, <2>7
  <2>9. part.error + 0 = m + c /\ part.error \in Int
    BY <1>0, <2>3, <2>4
  <2>10. Rounded(part, n, c, 0)
    BY <1>2, <2>3, <2>4, <2>5, <2>8, <2>9 DEF Rounded
  <2> QED
    BY <2>10 DEF part
<1> QED
  BY <1>0, <1>1, <1>2

-----------------------------------------------------------------------------
\* The sum of the errors tells whether the sum of the quotients is one too low.
LEMMA CorrectionRounds ==
  ASSUME NEW a \in Int, NEW b \in Int, NEW c \in Nat \ {0},
         NEW first, NEW second, NEW less \in {0, c},
         Rounded(first, a, c, less), Rounded(second, b, c, c - less)
  PROVE  Corrected(<<first, second>>) = ((a + b) \div c) - Truth(BothExact(a, b, c))
<1> DEFINE q == first.quotient + second.quotient
           r == first.error + second.error + c
           ra == first.error + less
           rb == second.error + (c - less)
<1>1. /\ first.quotient \in Int /\ second.quotient \in Int
      /\ first.error \in Int /\ second.error \in Int
      /\ a = c * first.quotient + ra
      /\ b = c * second.quotient + rb
      /\ ra \in 0 .. c /\ rb \in 0 .. c
      /\ ra = c <=> (a < 0 /\ a % c = 0)
      /\ rb = c <=> (b < 0 /\ b % c = 0)
  BY DEF Rounded
<1>2. /\ q = first.quotient + second.quotient
      /\ r = ra + rb
      /\ first.error + second.error = r - c
  <2>1. less \in Int /\ c \in Int
    OBVIOUS
  <2>2. \A x, y \in Int : /\ x + y + c = (x + less) + (y + (c - less))
                          /\ x + y = (x + y + c) - c
    BY <2>1
  <2>3. r = ra + rb /\ first.error + second.error = r - c
    BY <1>1, <2>2
  <2> QED
    BY <2>3
<1> HIDE DEF q, r, ra, rb
<1>3. r \in 0 .. 2 * c /\ q \in Int /\ r - c \in Int
  BY <1>1, <1>2
<1>4. a + b = c * q + r
  <2>1. /\ c * first.quotient \in Int
        /\ c * second.quotient \in Int
        /\ c * (first.quotient + second.quotient) = c * first.quotient + c * second.quotient
    BY <1>1
  <2> QED
    BY <1>1, <1>2, <2>1
<1>5. /\ BothExact(a, b, c) <=> r = 2 * c
      /\ Corrected(<<first, second>>) = q + Truth(r >= c)
  <2>1. ra = c /\ rb = c <=> r = 2 * c
    BY <1>1, <1>2
  <2>2. BothExact(a, b, c) <=> ra = c /\ rb = c
    BY <1>1 DEF BothExact
  <2>3. first.error + second.error >= 0 <=> r >= c
    BY <1>2, <1>3
  <2>4. Corrected(<<first, second>>)
          = q + Truth(first.error + second.error >= 0)
    BY <1>2 DEF Corrected
  <2> QED
    BY <2>1, <2>2, <2>3, <2>4 DEF Truth
<1>6. a + b \in Int /\ c * q \in Int /\ c * (q + 1) = c * q + c /\ c * (q + 2) = c * q + 2 * c
  BY <1>3
<1> HIDE DEF q, r, ra, rb
<1>7. CASE r < c
  <2>1. r \in 0 .. c - 1
    BY <1>3, <1>7
  <2>2. (a + b) \div c = q
    BY <1>3, <1>4, <1>6, <2>1, DivUnique
  <2> QED
    BY <1>3, <1>5, <1>7, <2>2 DEF Truth
<1>8. CASE r >= c /\ r < 2 * c
  <2>1. a + b = c * (q + 1) + (r - c) /\ r - c \in 0 .. c - 1 /\ q + 1 \in Int
    BY <1>3, <1>4, <1>6, <1>8
  <2>2. (a + b) \div c = q + 1
    BY <1>6, <2>1, DivUnique
  <2> QED
    BY <1>3, <1>5, <1>8, <2>2 DEF Truth
<1>9. CASE r = 2 * c
  <2>1. a + b = c * (q + 2) + 0 /\ q + 2 \in Int /\ 0 \in 0 .. c - 1
    BY <1>3, <1>4, <1>6, <1>9
  <2>2. (a + b) \div c = q + 2
    BY <1>6, <2>1, DivUnique
  <2> QED
    BY <1>3, <1>5, <1>9, <2>2 DEF Truth
<1> QED
  BY <1>3, <1>7, <1>8, <1>9

\* What is shared for two addends that fit, by either protocol: c is taken from
\* the error of one of them.
LEMMA PartsRounded ==
  ASSUME NEW parties \in {3, 4}, NEW a \in Range, NEW b \in Range, NEW c \in Divisor,
         Fit(parties, a, b, c)
  PROVE  \E first, second : \E less \in {0, c} :
           /\ DivisionParts(parties, a, b, c) = <<first, second>>
           /\ Rounded(first, a, c, less)
           /\ Rounded(second, b, c, c - less)
<1>0. a \in Int /\ b \in Int /\ c \in Nat \ {0} /\ c - 0 = c /\ c - c = 0
  BY HalfPower DEF Range, Divisor
<1>1. CASE parties = 3
  <2>1. a < 0 => a - c \in Range
    BY <1>0, <1>1, HalfPower DEF Fit, Range
  <2>2. Rounded(LoweredFirst(a, c), a, c, 0)
    BY <2>1, LoweredFirstRounds
  <2>3. Rounded(RoundedDown(b, c, c), b, c, c - 0)
    BY <1>0, RoundedDownRounds
  <2>4. DivisionParts(parties, a, b, c) = <<LoweredFirst(a, c), RoundedDown(b, c, c)>>
    BY <1>1 DEF DivisionParts
  <2> QED
    BY <2>2, <2>3, <2>4
<1>2. CASE parties = 4
  <2>1. Rounded(RoundedDown(a, c, c), a, c, c)
    BY <1>0, RoundedDownRounds
  <2>2. Rounded(RoundedDown(b, c, 0), b, c, c - c)
    BY <1>0, RoundedDownRounds
  <2>3. DivisionParts(parties, a, b, c) = <<RoundedDown(a, c, c), RoundedDown(b, c, 0)>>
    BY <1>2 DEF DivisionParts
  <2> QED
    BY <2>1, <2>2, <2>3
<1> QED
  BY <1>1, <1>2

\* The errors of addends that fit add up to a number of a word, as they are.
LEMMA ErrorsInRange ==
  ASSUME NEW parties \in {3, 4}, NEW a \in Range, NEW b \in Range, NEW c \in Divisor,
         Fit(parties, a, b, c)
  PROVE  LET parts == DivisionParts(parties, a, b, c)
         IN  /\ parts[1].error \in Range
             /\ parts[2].error \in Range
             /\ parts[1].error + parts[2].error \in Range
<1> DEFINE P == 2^(Width - 1)
<1>0. P \in Nat \ {0} /\ c \in Nat \ {0} /\ c < P /\ Range = -P .. P - 1
  BY HalfPower DEF Range, Divisor
<1>1. PICK first, second : \E less \in {0, c} :
        /\ DivisionParts(parties, a, b, c) = <<first, second>>
        /\ Rounded(first, a, c, less)
        /\ Rounded(second, b, c, c - less)
  BY PartsRounded
<1>2. /\ first.error \in -c .. c /\ second.error \in -c .. c
      /\ first.error + second.error \in -c .. c
  <2>1. PICK less \in {0, c} : Rounded(first, a, c, less) /\ Rounded(second, b, c, c - less)
    BY <1>1
  <2>2. /\ first.error \in Int /\ first.error + less \in 0 .. c
        /\ second.error \in Int /\ second.error + (c - less) \in 0 .. c
    BY <2>1 DEF Rounded
  <2>3. \A u, v \in Int : u + less \in 0 .. c /\ v + (c - less) \in 0 .. c =>
          u \in -c .. c /\ v \in -c .. c /\ u + v \in -c .. c
    <3>1. c \in Nat /\ (less = 0 \/ less = c)
      BY <1>0
    <3> QED
      BY ONLY <3>1
  <2> QED
    BY <2>2, <2>3
<1> HIDE DEF P
<1>3. -c .. c \subseteq Range
  BY <1>0
<1> QED
  BY <1>1, <1>2, <1>3

\* Without any condition, what is shared are numbers.
LEMMA PartsAreNumbers ==
  ASSUME NEW parties \in {3, 4}, NEW a \in Range, NEW b \in Range, NEW c \in Divisor
  PROVE  LET parts == DivisionParts(parties, a, b, c)
         IN  \A k \in {1, 2} : parts[k].quotient \in Int /\ parts[k].error \in Int
<1>0. a \in Int /\ b \in Int /\ c \in Nat \ {0} /\ Modulus \in Nat \ {0}
  BY HalfPower DEF Range, Divisor, Modulus
<1>1. ASSUME NEW n \in Int
      PROVE  Negative(n) \in Int /\ Negative(n) * c \in Int
  BY <1>0 DEF Negative, Truth
<1>2. ASSUME NEW n \in Int, NEW less \in Int
      PROVE  /\ RoundedDown(n, c, less).quotient \in Int
             /\ RoundedDown(n, c, less).error \in Int
  <2>1. Quotient(n, c) \in Int /\ Remainder(n, c) \in Int
    BY <1>0, Truncates
  <2> QED
    BY <1>0, <1>1, <2>1 DEF RoundedDown
<1>3. /\ LoweredFirst(a, c).quotient \in Int
      /\ LoweredFirst(a, c).error \in Int
  <2> DEFINE lowered == a - Negative(a) * c
             dividend == Signed(Wrap(lowered))
  <2>1. lowered \in Int
    BY <1>0, <1>1
  <2> HIDE DEF lowered
  <2>2. dividend \in Int
    <3>1. Wrap(lowered) \in Int
      BY <1>0, <2>1, DivModInt DEF Wrap
    <3> QED
      BY <1>0, <3>1 DEF Signed
  <2>3. Quotient(dividend, c) \in Int /\ Remainder(dividend, c) \in Int
    BY <1>0, <2>2, Truncates
  <2> QED
    BY <1>0, <1>1, <2>3 DEF LoweredFirst, lowered
<1> QED
  BY <1>0, <1>2, <1>3 DEF DivisionParts

\* A number of a word and the number it comes from are the same words.
LEMMA SignedCongruent ==
  ASSUME NEW n \in Int
  PROVE  /\ Signed(Wrap(n)) \in Range
         /\ \E k \in Int : Signed(Wrap(n)) = n + Modulus * k
<1> DEFINE P == 2^(Width - 1)
<1>1. P \in Nat \ {0} /\ Modulus = 2 * P /\ Modulus \in Nat \ {0} /\ Range = -P .. P - 1
  BY HalfPower DEF Modulus, Range
<1> DEFINE q == n \div Modulus
           m == n % Modulus
<1>2. q \in Int /\ m \in 0 .. Modulus - 1 /\ n = Modulus * q + m
  BY <1>1, DivModInt
<1>3. Signed(Wrap(n)) = IF m < P THEN m ELSE m - Modulus
  BY DEF Signed, Wrap
<1> HIDE DEF P, q, m
<1>4. Signed(Wrap(n)) \in Range
  BY <1>1, <1>2, <1>3
<1>5. /\ Modulus * (-q) = -(Modulus * q)
      /\ Modulus * (-q - 1) = -(Modulus * q) - Modulus
      /\ Modulus * q \in Int
  BY <1>1, <1>2
<1> DEFINE t == Modulus * q
<1>6. m = n + Modulus * (-q) /\ m - Modulus = n + Modulus * (-q - 1)
  <2>1. /\ t \in Int /\ n = t + m /\ m \in Int /\ Modulus \in Int
        /\ Modulus * (-q) = -t
        /\ Modulus * (-q - 1) = -t - Modulus
    BY <1>1, <1>2, <1>5
  <2> HIDE DEF t
  <2>2. m = n + (-t) /\ m - Modulus = n + (-t - Modulus)
    BY <2>1
  <2> QED
    BY <2>1, <2>2
<1>7. -q \in Int /\ -q - 1 \in Int
  BY <1>2
<1> QED
  BY <1>3, <1>4, <1>6, <1>7

LEMMA SignedOfSum ==
  ASSUME NEW a \in Int, NEW b \in Int, NEW n \in Int
  PROVE  Signed(Wrap(Signed(Wrap(a)) + Signed(Wrap(b)) + n)) = Signed(Wrap(a + b + n))
<1>1. Modulus \in Nat \ {0}
  BY HalfPower DEF Modulus
<1>2. PICK k \in Int : Signed(Wrap(a)) = a + Modulus * k
  BY SignedCongruent
<1>3. PICK l \in Int : Signed(Wrap(b)) = b + Modulus * l
  BY SignedCongruent
<1>4. Modulus * (k + l) = Modulus * k + Modulus * l /\ Modulus * k \in Int /\ Modulus * l \in Int
  BY <1>1
<1>5. Signed(Wrap(a)) + Signed(Wrap(b)) + n = (a + b + n) + Modulus * (k + l)
  BY <1>2, <1>3, <1>4
<1>6. ASSUME NEW u \in Int, NEW j \in Int
      PROVE  (u + Modulus * j) % Modulus = u % Modulus
  <2> DEFINE q == u \div Modulus
             m == u % Modulus
  <2>1. q \in Int /\ m \in 0 .. Modulus - 1 /\ u = Modulus * q + m
    BY <1>1, DivModInt
  <2> HIDE DEF q, m
  <2>2. /\ Modulus * (q + j) = Modulus * q + Modulus * j
        /\ Modulus * q \in Int /\ Modulus * j \in Int /\ q + j \in Int
    BY <1>1, <2>1
  <2>3. u + Modulus * j = Modulus * (q + j) + m
    BY <2>1, <2>2
  <2>4. u + Modulus * j \in Int
    BY <2>2
  <2>5. (u + Modulus * j) % Modulus = m
    BY ONLY <1>1, <2>1, <2>2, <2>3, <2>4, DivUnique
  <2> QED
    BY <2>5 DEF m
<1>7. a + b + n \in Int /\ k + l \in Int
  OBVIOUS
<1>8. ((a + b + n) + Modulus * (k + l)) % Modulus = (a + b + n) % Modulus
  BY <1>6, <1>7
<1> QED
  BY <1>5, <1>8 DEF Wrap

\* ASharedVector::div after div_const_a of either protocol: for words of every
\* width, addends that fit and a positive divisor, the quotient is rounded
\* down, but for two negative multiples of the divisor.
THEOREM DivisionTheorem ==
  \A parties \in {3, 4}, a \in Range, b \in Range, c \in Divisor :
    DivisionRight(parties, a, b, c)
<1> SUFFICES ASSUME NEW parties \in {3, 4}, NEW a \in Range, NEW b \in Range, NEW c \in Divisor,
                    Fit(parties, a, b, c)
             PROVE  Corrected(DivisionParts(parties, a, b, c))
                      = ((a + b) \div c) - Truth(BothExact(a, b, c))
  BY DEF DivisionRight
<1>0. a \in Int /\ b \in Int /\ c \in Nat \ {0}
  BY HalfPower DEF Range, Divisor
<1>1. PICK first, second : \E less \in {0, c} :
        /\ DivisionParts(parties, a, b, c) = <<first, second>>
        /\ Rounded(first, a, c, less)
        /\ Rounded(second, b, c, c - less)
  BY PartsRounded
<1> QED
  BY <1>0, <1>1, CorrectionRounds

-----------------------------------------------------------------------------
(* The bitwise operators, and that words are closed under all of them.     *)

\* What a table is built by: b[0] + 2 * b[1] + 4 * b[2] and so on.
Summed(f, b, N) == f = [n \in 0 .. N |-> IF n = 0 THEN 0 ELSE f[n - 1] + b[n - 1] * 2^(n - 1)]

LEMMA SummedExists ==
  ASSUME NEW N \in Nat, NEW b
  PROVE  \E f : Summed(f, b, N)
<1> DEFINE T == {n \in 0 .. N : ~\E f : Summed(f, b, n)}
<1>1. SUFFICES ASSUME T # {} PROVE FALSE
  <2>1. N \in 0 .. N
    OBVIOUS
  <2> QED
    BY <2>1
<1>2. PICK m \in T : \A n \in T : ~(n < m)
  <2>1. T \subseteq Nat
    OBVIOUS
  <2> HIDE DEF T
  <2> QED
    BY <1>1, <2>1, Least
<1>3. m \in 0 .. N /\ ~\E f : Summed(f, b, m)
  OBVIOUS
<1>4. m # 0
  <2> DEFINE z == [n \in 0 .. 0 |-> 0]
  <2>1. z = [n \in 0 .. 0 |-> IF n = 0 THEN 0 ELSE z[n - 1] + b[n - 1] * 2^(n - 1)]
    BY \A n \in 0 .. 0 : n = 0
  <2> HIDE DEF z
  <2>2. Summed(z, b, 0)
    BY <2>1 DEF Summed
  <2> QED
    BY <1>3, <2>2
<1>5. PICK f : Summed(f, b, m - 1)
  <2>1. m - 1 \in 0 .. N /\ m - 1 < m
    BY <1>3, <1>4
  <2>2. m - 1 \notin T
    BY <1>2, <2>1
  <2> QED
    BY <2>1, <2>2
<1> DEFINE h == [n \in 0 .. m |-> IF n = 0 THEN 0 ELSE f[n - 1] + b[n - 1] * 2^(n - 1)]
<1>6. \A n \in 0 .. m - 1 : h[n] = f[n]
  <2>1. \A n \in 0 .. m - 1 : f[n] = IF n = 0 THEN 0 ELSE f[n - 1] + b[n - 1] * 2^(n - 1)
    BY <1>5, Zenon DEF Summed
  <2>2. \A n \in 0 .. m - 1 : n \in 0 .. m
    BY <1>3
  <2> QED
    BY <2>1, <2>2, Zenon
<1>7. Summed(h, b, m)
  <2>1. \A n \in 0 .. m : n # 0 => n - 1 \in 0 .. m - 1
    BY <1>3
  <2>2. \A n \in 0 .. m : h[n] = IF n = 0 THEN 0 ELSE h[n - 1] + b[n - 1] * 2^(n - 1)
    BY <1>6, <2>1, Zenon
  <2>3. h = [n \in 0 .. m |-> h[n]]
    BY Zenon
  <2> HIDE DEF h
  <2> QED
    BY <2>2, <2>3, Zenon DEF Summed
<1> QED
  BY <1>3, <1>7

LEMMA FromBitsSums ==
  ASSUME NEW b
  PROVE  \E f : Summed(f, b, Width) /\ FromBits(b) = f[Width]
<1>1. \E f : Summed(f, b, Width)
  BY WidthAssumption, SummedExists
<1> DEFINE u == CHOOSE f : Summed(f, b, Width)
<1>2. Summed(u, b, Width)
  BY <1>1
<1>3. FromBits(b) = u[Width]
  BY Zenon DEF FromBits, Summed
<1> HIDE DEF u
<1> QED
  BY <1>2, <1>3

LEMMA SumsAreWords ==
  ASSUME NEW b \in [0 .. Width - 1 -> {0, 1}], NEW f, Summed(f, b, Width), NEW N \in 0 .. Width
  PROVE  f[N] \in 0 .. 2^N - 1
<1> DEFINE T == {n \in 0 .. N : ~(f[n] \in 0 .. 2^n - 1)}
<1>0. Width \in Nat /\ 2^0 = 1 /\ \A n \in 0 .. Width : 2^n \in Nat \ {0} /\ 2^(n + 1) = 2 * 2^n
  BY WidthAssumption, PowerAssumption
<1>1. SUFFICES ASSUME T # {} PROVE FALSE
  <2>1. N \in 0 .. N
    BY <1>0
  <2> QED
    BY <2>1
<1>2. PICK m \in T : \A n \in T : ~(n < m)
  <2>1. T \subseteq Nat
    OBVIOUS
  <2> HIDE DEF T
  <2> QED
    BY <1>1, <2>1, Least
<1>3. m \in 0 .. N /\ ~(f[m] \in 0 .. 2^m - 1)
  OBVIOUS
<1>4. \A n \in 0 .. Width : f[n] = IF n = 0 THEN 0 ELSE f[n - 1] + b[n - 1] * 2^(n - 1)
  BY Zenon DEF Summed
<1>5. m # 0
  <2>1. f[0] = 0
    BY <1>0, <1>4
  <2> QED
    BY <1>0, <1>3, <2>1
<1>6. m - 1 \in 0 .. N /\ m - 1 \in 0 .. Width /\ (m - 1) + 1 = m /\ m - 1 \in 0 .. Width - 1 /\ m \in 0 .. Width
  BY <1>0, <1>3, <1>5
<1>7. f[m - 1] \in 0 .. 2^(m - 1) - 1
  <2>1. m - 1 < m
    BY <1>6
  <2>2. m - 1 \notin T
    BY <1>2, <2>1
  <2> QED
    BY <1>6, <2>2
<1>8. f[m] = f[m - 1] + b[m - 1] * 2^(m - 1)
  BY <1>4, <1>5, <1>6
<1>9. 2^m = 2 * 2^(m - 1) /\ 2^(m - 1) \in Nat \ {0} /\ b[m - 1] \in {0, 1}
  BY <1>0, <1>6
<1> DEFINE P == 2^(m - 1)
           bit == b[m - 1]
<1>10. bit * P = 0 \/ bit * P = P
  BY <1>9
<1>11. f[m] \in 0 .. 2 * P - 1
  <2> HIDE DEF P, bit
  <2> QED
    BY <1>7, <1>8, <1>9, <1>10 DEF P, bit
<1> QED
  BY <1>3, <1>9, <1>11

LEMMA WordsAreClosed ==
  /\ Modulus \in Nat \ {0, 1}
  /\ \A n \in Int : Wrap(n) \in WordSet
  /\ \A u, v \in WordSet : Xor(u, v) \in WordSet /\ And(u, v) \in WordSet
  /\ \A u \in WordSet : Not(u) \in WordSet
  /\ \A truth : Truth(truth) \in WordSet
<1>1. Modulus \in Nat \ {0, 1}
  BY HalfPower DEF Modulus
<1>2. \A n \in Int : Wrap(n) \in WordSet
  BY <1>1, DivModInt DEF Wrap, WordSet
<1>3. ASSUME NEW b \in [0 .. Width - 1 -> {0, 1}]
      PROVE  FromBits(b) \in WordSet
  <2>1. PICK f : Summed(f, b, Width) /\ FromBits(b) = f[Width]
    BY FromBitsSums
  <2>2. Width \in 0 .. Width
    BY WidthAssumption
  <2> QED
    BY <2>1, <2>2, SumsAreWords DEF WordSet, Modulus
<1>4. ASSUME NEW u \in WordSet, NEW n \in 0 .. Width - 1
      PROVE  Bit(u, n) \in {0, 1}
  <2>1. 2^n \in Nat \ {0} /\ u \in Nat
    BY WidthAssumption, PowerAssumption DEF WordSet
  <2>2. u \div 2^n \in Nat
    BY <2>1, DivMod
  <2> QED
    BY <2>2 DEF Bit
<1>5. ASSUME NEW u \in WordSet, NEW v \in WordSet
      PROVE  Xor(u, v) \in WordSet /\ And(u, v) \in WordSet
  <2> DEFINE x == [n \in 0 .. Width - 1 |-> (Bit(u, n) + Bit(v, n)) % 2]
             a == [n \in 0 .. Width - 1 |-> Bit(u, n) * Bit(v, n)]
  <2>1. x \in [0 .. Width - 1 -> {0, 1}] /\ a \in [0 .. Width - 1 -> {0, 1}]
    <3>1. \A n \in 0 .. Width - 1 : (Bit(u, n) + Bit(v, n)) % 2 \in {0, 1}
      BY <1>4
    <3>2. \A n \in 0 .. Width - 1 : Bit(u, n) * Bit(v, n) \in {0, 1}
      BY <1>4
    <3> QED
      BY <3>1, <3>2
  <2>2. Xor(u, v) = FromBits(x) /\ And(u, v) = FromBits(a)
    BY Zenon DEF Xor, And, XorTable, AndTable
  <2> HIDE DEF x, a
  <2> QED
    BY <1>3, <2>1, <2>2
<1>6. \A u \in WordSet : Not(u) \in WordSet
  BY <1>1 DEF Not, WordSet
<1>7. \A truth : Truth(truth) \in WordSet
  BY <1>1 DEF Truth, WordSet
<1> QED
  BY <1>1, <1>2, <1>5, <1>6, <1>7

-----------------------------------------------------------------------------
(* Sums, differences and products of words.                                *)

LEMMA WrapShift ==
  ASSUME NEW n \in Int, NEW k \in Int
  PROVE  Wrap(n + Modulus * k) = Wrap(n)
<1>1. Modulus \in Nat \ {0}
  BY WordsAreClosed
<1> DEFINE q == n \div Modulus
           m == n % Modulus
<1>2. q \in Int /\ m \in 0 .. Modulus - 1 /\ n = Modulus * q + m
  BY <1>1, DivModInt
<1> HIDE DEF q, m
<1>3. /\ Modulus * (q + k) = Modulus * q + Modulus * k
      /\ Modulus * q \in Int /\ Modulus * k \in Int /\ q + k \in Int
  BY <1>1, <1>2
<1>4. n + Modulus * k = Modulus * (q + k) + m /\ n + Modulus * k \in Int
  BY <1>2, <1>3
<1>5. (n + Modulus * k) % Modulus = m
  BY ONLY <1>1, <1>2, <1>3, <1>4, DivUnique
<1> QED
  BY <1>5 DEF m, Wrap

\* A number and its word differ by a multiple of the modulus.
LEMMA WrapIs ==
  ASSUME NEW n \in Int
  PROVE  \E k \in Int : Wrap(n) = n + Modulus * k
<1>1. Modulus \in Nat \ {0}
  BY WordsAreClosed
<1> DEFINE q == n \div Modulus
           m == n % Modulus
<1>2. q \in Int /\ m \in 0 .. Modulus - 1 /\ n = Modulus * q + m
  BY <1>1, DivModInt
<1> HIDE DEF q, m
<1>3. Modulus * (-q) = -(Modulus * q) /\ Modulus * q \in Int /\ -q \in Int
  BY <1>1, <1>2
<1>4. m = n + Modulus * (-q)
  BY <1>2, <1>3
<1> QED
  BY <1>3, <1>4 DEF m, Wrap

LEMMA WrapWord ==
  ASSUME NEW u \in WordSet
  PROVE  Wrap(u) = u /\ u \in Nat
<1>1. Modulus \in Nat \ {0} /\ u \in 0 .. Modulus - 1
  BY WordsAreClosed DEF WordSet
<1>2. u = Modulus * 0 + u /\ u \in Int
  BY <1>1
<1> QED
  BY <1>1, <1>2, DivUnique DEF Wrap

\* Wrapping a term early or late is the same.
LEMMA WrapTerms ==
  ASSUME NEW a \in Int, NEW b \in Int
  PROVE  /\ Wrap(Wrap(a) + b) = Wrap(a + b) /\ Wrap(a + Wrap(b)) = Wrap(a + b)
         /\ Wrap(Wrap(a) - b) = Wrap(a - b) /\ Wrap(a - Wrap(b)) = Wrap(a - b)
         /\ Wrap(Wrap(a) * b) = Wrap(a * b) /\ Wrap(a * Wrap(b)) = Wrap(a * b)
<1>1. Modulus \in Nat \ {0}
  BY WordsAreClosed
<1>2. PICK i \in Int : Wrap(a) = a + Modulus * i
  BY WrapIs
<1>3. PICK j \in Int : Wrap(b) = b + Modulus * j
  BY WrapIs
<1>4. /\ Modulus * i \in Int /\ Modulus * j \in Int /\ Modulus * (-j) = -(Modulus * j)
      /\ a * b \in Int /\ i * b \in Int /\ a * j \in Int /\ -j \in Int
      /\ a + b \in Int /\ a - b \in Int
  BY <1>1
<1>5. /\ Wrap(a) + b = (a + b) + Modulus * i /\ a + Wrap(b) = (a + b) + Modulus * j
      /\ Wrap(a) - b = (a - b) + Modulus * i /\ a - Wrap(b) = (a - b) + Modulus * (-j)
  BY <1>1, <1>2, <1>3, <1>4
<1>6. /\ (a + Modulus * i) * b = a * b + Modulus * (i * b)
      /\ a * (b + Modulus * j) = a * b + Modulus * (a * j)
  BY <1>1
<1> QED
  BY <1>2, <1>3, <1>4, <1>5, <1>6, WrapShift

-----------------------------------------------------------------------------
(* The bits of words.                                                      *)

Places == 0 .. Width - 1

\* From the last place down to the first.
LEMMA Downward ==
  ASSUME NEW N \in Nat, NEW S, N \in S, \A i \in 0 .. N - 1 : i + 1 \in S => i \in S
  PROVE  \A i \in 0 .. N : i \in S
<1> DEFINE T == (0 .. N) \ S
<1>1. SUFFICES ASSUME T # {} PROVE FALSE
  OBVIOUS
<1>2. PICK i \in T : \A k \in T : k <= i
  <2>1. T \subseteq 0 .. N
    OBVIOUS
  <2> HIDE DEF T
  <2> QED
    BY <1>1, <2>1, Greatest
<1>3. i \in 0 .. N /\ i \notin S /\ i # N
  OBVIOUS
<1>4. i \in 0 .. N - 1 /\ i + 1 \in 0 .. N /\ ~(i + 1 <= i)
  BY <1>3
<1>5. i + 1 \notin T
  BY <1>2, <1>4
<1> QED
  BY <1>3, <1>4, <1>5

LEMMA Powers ==
  /\ Width \in Nat \ {0} /\ 2^0 = 1 /\ Modulus = 2^Width
  /\ \A i \in 0 .. Width : 2^i \in Nat \ {0}
  /\ \A i \in Places : /\ 2^i \in Nat \ {0} /\ 2^(i + 1) = 2 * 2^i
                       /\ i \in 0 .. Width /\ i + 1 \in 0 .. Width
BY WidthAssumption, PowerAssumption DEF Places, Modulus

\* Every power divides the modulus, and all but the last twice.
LEMMA PowersDivide ==
  \A i \in Places : \E t \in Nat : Modulus = 2^i * (2 * t)
<1> DEFINE S == {i \in 0 .. Width : \E t \in Nat : Modulus = 2^i * t}
<1>1. Width \in S
  <2>1. Modulus = 2^Width * 1 /\ 1 \in Nat /\ Width \in 0 .. Width
    BY Powers
  <2> QED
    BY <2>1
<1>2. ASSUME NEW i \in Places, i + 1 \in S
      PROVE  \E t \in Nat : Modulus = 2^i * (2 * t)
  <2>1. PICK t \in Nat : Modulus = 2^(i + 1) * t
    BY <1>2
  <2> DEFINE P == 2^i
  <2>2. P \in Nat /\ 2^(i + 1) = 2 * P
    BY Powers
  <2> HIDE DEF P
  <2>3. (2 * P) * t = P * (2 * t)
    BY <2>2
  <2> QED
    BY <2>1, <2>2, <2>3 DEF P
<1>3. ASSUME NEW i \in 0 .. Width - 1, i + 1 \in S
      PROVE  i \in S
  <2>1. PICK t \in Nat : Modulus = 2^i * (2 * t)
    BY <1>2, <1>3 DEF Places
  <2>2. 2 * t \in Nat /\ i \in 0 .. Width
    BY Powers
  <2> QED
    BY <2>1, <2>2
<1> HIDE DEF S
<1>4. \A i \in 0 .. Width : i \in S
  BY <1>1, <1>3, Downward, Powers
<1> QED
  BY <1>2, <1>4, Powers

\* A number without its lowest places: those above, and the lowest of them.
LEMMA Halved ==
  ASSUME NEW u \in Nat, NEW P \in Nat \ {0}
  PROVE  /\ u \div (2 * P) \in Nat /\ u \div P \in Nat
         /\ u \div P = 2 * (u \div (2 * P)) + ((u \div P) % 2)
<1> DEFINE q == u \div P
           m == u % P
           h == q \div 2
           b == q % 2
<1>1. q \in Nat /\ m \in 0 .. P - 1 /\ u = P * q + m
  BY DivMod
<1>2. h \in Nat /\ b \in 0 .. 1 /\ q = 2 * h + b
  BY <1>1, DivMod
<1> HIDE DEF q, m, h, b
<1>3. P * q = (2 * P) * h + P * b /\ P * b \in {0, P} /\ (2 * P) * h \in Int
  <2>1. P * (2 * h + b) = (2 * P) * h + P * b
    BY <1>2
  <2>2. b = 0 \/ b = 1
    BY <1>2
  <2>3. P * 0 = 0 /\ P * 1 = P
    OBVIOUS
  <2>4. (2 * P) * h \in Int
    BY <1>2
  <2> QED
    BY <1>2, <2>1, <2>2, <2>3, <2>4
<1>4. u = (2 * P) * h + (P * b + m) /\ P * b + m \in 0 .. 2 * P - 1 /\ 2 * P \in Nat \ {0}
  BY <1>1, <1>3
<1>5. u \div (2 * P) = h
  BY <1>2, <1>4, DivUnique
<1> QED
  BY <1>1, <1>2, <1>5 DEF q, b

LEMMA BitsAre ==
  ASSUME NEW u \in WordSet, NEW i \in Places
  PROVE  Bit(u, i) \in {0, 1}
<1>1. 2^i \in Nat \ {0} /\ u \in Nat
  BY Powers DEF WordSet
<1>2. u \div 2^i \in Nat
  BY <1>1, DivMod
<1> QED
  BY <1>2 DEF Bit

\* Words of the same bits are the same.
LEMMA SameBits ==
  ASSUME NEW u \in WordSet, NEW v \in WordSet, \A i \in Places : Bit(u, i) = Bit(v, i)
  PROVE  u = v
<1> DEFINE S == {i \in 0 .. Width : u \div 2^i = v \div 2^i}
<1>1. u \in Nat /\ v \in Nat /\ u \in 0 .. Modulus - 1 /\ v \in 0 .. Modulus - 1
      /\ Modulus \in Nat \ {0}
  BY WordsAreClosed DEF WordSet
<1>2. Width \in S
  <2>1. u = Modulus * 0 + u /\ v = Modulus * 0 + v
    BY <1>1
  <2>2. u \div Modulus = 0 /\ v \div Modulus = 0
    BY <1>1, <2>1, DivUnique
  <2>3. Modulus = 2^Width /\ Width \in 0 .. Width
    BY Powers
  <2> HIDE DEF S
  <2> QED
    BY <2>2, <2>3 DEF S
<1>3. ASSUME NEW i \in 0 .. Width - 1, i + 1 \in S
      PROVE  i \in S
  <2>1. u \div 2^(i + 1) = v \div 2^(i + 1)
    BY <1>3
  <2>2. 2^i \in Nat \ {0} /\ 2^(i + 1) = 2 * 2^i /\ i \in 0 .. Width /\ i \in Places
    BY <1>3, Powers DEF Places
  <2> DEFINE P == 2^i
  <2>3. Bit(u, i) = (u \div P) % 2 /\ Bit(v, i) = (v \div P) % 2 /\ Bit(u, i) = Bit(v, i)
    BY <2>2 DEF Bit
  <2>4. u \div (2 * P) = v \div (2 * P)
    BY <2>1, <2>2
  <2> HIDE DEF P
  <2>5. u \div P = v \div P
    <3>1. P \in Nat \ {0}
      BY <2>2 DEF P
    <3>2. u \div P = 2 * (u \div (2 * P)) + ((u \div P) % 2)
      BY <1>1, <3>1, Halved
    <3>3. v \div P = 2 * (v \div (2 * P)) + ((v \div P) % 2)
      BY <1>1, <3>1, Halved
    <3> QED
      BY <2>3, <2>4, <3>2, <3>3
  <2> QED
    BY <2>2, <2>5 DEF P
<1> HIDE DEF S
<1>4. 0 \in S
  <2>1. Width \in Nat /\ 0 \in 0 .. Width
    BY Powers
  <2> QED
    BY <1>2, <1>3, <2>1, Downward
<1>5. u \div 1 = v \div 1
  BY <1>4, Powers DEF S
<1>6. \A n \in Nat : n \div 1 = n
  OBVIOUS
<1> QED
  BY <1>1, <1>5, <1>6

\* The bits of the word a table is built by are those it is built from.
LEMMA BitsOfSum ==
  ASSUME NEW b \in [Places -> {0, 1}]
  PROVE  FromBits(b) \in WordSet /\ \A i \in Places : Bit(FromBits(b), i) = b[i]
<1>1. PICK f : Summed(f, b, Width) /\ FromBits(b) = f[Width]
  BY FromBitsSums
<1>2. b \in [0 .. Width - 1 -> {0, 1}]
  BY DEF Places
<1>3. \A n \in 0 .. Width : f[n] \in 0 .. 2^n - 1
  BY <1>1, <1>2, SumsAreWords
<1>4. \A n \in 0 .. Width : f[n] = IF n = 0 THEN 0 ELSE f[n - 1] + b[n - 1] * 2^(n - 1)
  BY <1>1, Zenon DEF Summed
<1> DEFINE S == {i \in 0 .. Width : \E t \in Nat : f[Width] = f[i] + 2^i * t}
<1>5. Width \in S
  <2>1. f[Width] \in Nat /\ 2^Width * 0 = 0 /\ Width \in 0 .. Width /\ 0 \in Nat
    BY <1>3, Powers
  <2>2. f[Width] = f[Width] + 2^Width * 0
    BY <2>1
  <2> QED
    BY <2>1, <2>2
<1>6. ASSUME NEW i \in Places, i + 1 \in S
      PROVE  /\ i \in S
             /\ Bit(f[Width], i) = b[i]
  <2>1. PICK t \in Nat : f[Width] = f[i + 1] + 2^(i + 1) * t
    BY <1>6
  <2> DEFINE P == 2^i
             c == b[i]
             q == c + 2 * t
  <2>2. P \in Nat \ {0} /\ 2^(i + 1) = 2 * P /\ i \in 0 .. Width /\ i + 1 \in 0 .. Width
        /\ i + 1 # 0 /\ (i + 1) - 1 = i
    BY Powers DEF Places
  <2>3. f[i + 1] = f[i] + c * P
    BY <1>4, <2>2
  <2>4. c \in {0, 1} /\ f[i] \in 0 .. P - 1
    BY <1>3, <2>2
  <2> HIDE DEF P, c
  <2>5. c * P + (2 * P) * t = P * q /\ q \in Nat /\ q \in Int /\ P * q \in Int
    BY <2>2, <2>4
  <2> HIDE DEF q
  <2>6. f[Width] = f[i] + P * q /\ f[Width] = P * q + f[i] /\ f[Width] \in Int
    <3>1. c * P \in Int /\ (2 * P) * t \in Int /\ f[i] \in Int
      BY <2>2, <2>4
    <3>2. f[Width] = (f[i] + c * P) + (2 * P) * t
      BY <2>1, <2>2, <2>3
    <3>3. f[Width] = f[i] + (c * P + (2 * P) * t)
      BY <3>1, <3>2
    <3> QED
      BY <2>4, <2>5, <3>3
  <2>7. i \in S
    BY <2>2, <2>5, <2>6 DEF P
  <2>8. f[Width] \div P = q
    BY <2>2, <2>4, <2>5, <2>6, DivUnique
  <2>9. q % 2 = c
    <3>1. q = 2 * t + c /\ c \in 0 .. 2 - 1 /\ q \in Int /\ t \in Int
      BY <2>4 DEF q
    <3> QED
      BY <3>1, DivUnique
  <2> QED
    BY <2>7, <2>8, <2>9 DEF Bit, P, c
<1> HIDE DEF S
<1>7. \A i \in 0 .. Width : i \in S
  <2>1. \A i \in 0 .. Width - 1 : i + 1 \in S => i \in S
    BY <1>6 DEF Places
  <2> QED
    BY <1>5, <2>1, Downward, Powers
<1>8. \A i \in Places : Bit(f[Width], i) = b[i]
  BY <1>6, <1>7, Powers
<1>9. f[Width] \in WordSet
  <2>1. Width \in 0 .. Width
    BY Powers
  <2> QED
    BY <1>3, <2>1, Powers DEF WordSet
<1> QED
  BY <1>1, <1>8, <1>9

LEMMA XorBits ==
  ASSUME NEW u \in WordSet, NEW v \in WordSet
  PROVE  Xor(u, v) \in WordSet /\ \A i \in Places : Bit(Xor(u, v), i) = (Bit(u, i) + Bit(v, i)) % 2
<1> DEFINE b == [i \in Places |-> (Bit(u, i) + Bit(v, i)) % 2]
<1>1. b \in [Places -> {0, 1}]
  <2>1. \A i \in Places : (Bit(u, i) + Bit(v, i)) % 2 \in {0, 1}
    BY BitsAre
  <2> QED
    BY <2>1
<1>2. Xor(u, v) = FromBits(b)
  BY Zenon DEF Xor, XorTable, Places
<1>3. \A i \in Places : b[i] = (Bit(u, i) + Bit(v, i)) % 2
  OBVIOUS
<1> HIDE DEF b
<1> QED
  BY <1>1, <1>2, <1>3, BitsOfSum

LEMMA AndBits ==
  ASSUME NEW u \in WordSet, NEW v \in WordSet
  PROVE  And(u, v) \in WordSet /\ \A i \in Places : Bit(And(u, v), i) = Bit(u, i) * Bit(v, i)
<1> DEFINE b == [i \in Places |-> Bit(u, i) * Bit(v, i)]
<1>1. b \in [Places -> {0, 1}]
  <2>1. \A i \in Places : Bit(u, i) * Bit(v, i) \in {0, 1}
    BY BitsAre
  <2> QED
    BY <2>1
<1>2. And(u, v) = FromBits(b)
  BY Zenon DEF And, AndTable, Places
<1>3. \A i \in Places : b[i] = Bit(u, i) * Bit(v, i)
  OBVIOUS
<1> HIDE DEF b
<1> QED
  BY <1>1, <1>2, <1>3, BitsOfSum

LEMMA NotBits ==
  ASSUME NEW u \in WordSet
  PROVE  Not(u) \in WordSet /\ \A i \in Places : Bit(Not(u), i) = 1 - Bit(u, i)
<1>1. Not(u) \in WordSet /\ u \in Nat
  BY WordsAreClosed DEF WordSet
<1>2. ASSUME NEW i \in Places
      PROVE  Bit(Not(u), i) = 1 - Bit(u, i)
  <2> DEFINE P == 2^i
             q == u \div P
             m == u % P
  <2>1. P \in Nat \ {0}
    BY Powers
  <2>2. q \in Nat /\ m \in 0 .. P - 1 /\ u = P * q + m
    BY <1>1, <2>1, DivMod
  <2>3. PICK t \in Nat : Modulus = P * (2 * t)
    BY PowersDivide
  <2>4. Bit(u, i) = q % 2 /\ Bit(Not(u), i) = (Not(u) \div P) % 2
    BY DEF Bit
  <2> HIDE DEF P, q, m
  <2> DEFINE r == (2 * t - 1) - q
  <2>5. P * r = (P * (2 * t) - P) - P * q /\ r \in Int /\ P * (2 * t) \in Int /\ P * q \in Int
    BY <2>1, <2>2
  <2>6. Not(u) = P * r + (P - 1 - m) /\ P - 1 - m \in 0 .. P - 1 /\ Not(u) \in Int
    BY <2>1, <2>2, <2>3, <2>5 DEF Not
  <2>7. Not(u) \div P = r
    BY <2>1, <2>5, <2>6, DivUnique
  <2>8. (r % 2) = 1 - (q % 2)
    <3>1. (q % 2) \in 0 .. 1 /\ q = 2 * (q \div 2) + (q % 2) /\ q \div 2 \in Nat
      BY <2>2, DivMod
    <3>2. r = 2 * (t - 1 - (q \div 2)) + (1 - (q % 2))
      BY <3>1
    <3>3. t - 1 - (q \div 2) \in Int /\ 1 - (q % 2) \in 0 .. 2 - 1
      BY <3>1
    <3> QED
      BY <2>5, <3>2, <3>3, DivUnique
  <2> QED
    BY <2>4, <2>7, <2>8
<1> QED
  BY <1>1, <1>2

LEMMA ZeroBits ==
  0 \in WordSet /\ \A i \in Places : Bit(0, i) = 0
<1>1. 0 \in WordSet
  BY WordsAreClosed DEF WordSet
<1>2. ASSUME NEW i \in Places
      PROVE  Bit(0, i) = 0
  <2>1. PICK P \in Nat \ {0} : P = 2^i
    BY Powers
  <2>2. 0 = P * 0 + 0 /\ 0 \in 0 .. P - 1
    BY <2>1
  <2>3. 0 \div P = 0
    BY <2>1, <2>2, DivUnique
  <2> QED
    BY <2>1, <2>3 DEF Bit
<1> QED
  BY <1>1, <1>2

\* The arithmetic of single bits, by cases.
LEMMA BitArithmetic ==
  \A a, b, c \in {0, 1} :
    /\ (a + b) % 2 = (b + a) % 2 /\ (a + b) % 2 \in {0, 1}
    /\ (((a + b) % 2) + c) % 2 = (a + ((b + c) % 2)) % 2
    /\ (a + 0) % 2 = a /\ (a + a) % 2 = 0 /\ a * a = a /\ a * 0 = 0 /\ a * b = b * a
    /\ a * ((b + c) % 2) = (a * b + a * c) % 2 /\ a * b \in {0, 1}
    /\ ((((1 - a) + (1 - b)) % 2) + (1 - c)) % 2 = 1 - ((((a + b) % 2) + c) % 2)
OBVIOUS

LEMMA XorCommutes ==
  ASSUME NEW u \in WordSet, NEW v \in WordSet
  PROVE  Xor(u, v) = Xor(v, u)
<1>1. Xor(u, v) \in WordSet /\ Xor(v, u) \in WordSet
  BY XorBits
<1>2. ASSUME NEW i \in Places
      PROVE  Bit(Xor(u, v), i) = Bit(Xor(v, u), i)
  <2>1. Bit(u, i) \in {0, 1} /\ Bit(v, i) \in {0, 1}
    BY BitsAre
  <2>2. Bit(Xor(u, v), i) = (Bit(u, i) + Bit(v, i)) % 2 /\ Bit(Xor(v, u), i) = (Bit(v, i) + Bit(u, i)) % 2
    BY XorBits
  <2> QED
    BY <2>1, <2>2, BitArithmetic
<1> QED
  BY <1>1, <1>2, SameBits

LEMMA XorAssociates ==
  ASSUME NEW u \in WordSet, NEW v \in WordSet, NEW w \in WordSet
  PROVE  Xor(Xor(u, v), w) = Xor(u, Xor(v, w))
<1>1. Xor(u, v) \in WordSet /\ Xor(v, w) \in WordSet
  BY XorBits
<1>2. Xor(Xor(u, v), w) \in WordSet /\ Xor(u, Xor(v, w)) \in WordSet
  BY <1>1, XorBits
<1>3. ASSUME NEW i \in Places
      PROVE  Bit(Xor(Xor(u, v), w), i) = Bit(Xor(u, Xor(v, w)), i)
  <2>1. Bit(u, i) \in {0, 1} /\ Bit(v, i) \in {0, 1} /\ Bit(w, i) \in {0, 1}
    BY BitsAre
  <2>2. Bit(Xor(u, v), i) = (Bit(u, i) + Bit(v, i)) % 2 /\ Bit(Xor(v, w), i) = (Bit(v, i) + Bit(w, i)) % 2
    BY XorBits
  <2>3. /\ Bit(Xor(Xor(u, v), w), i) = (Bit(Xor(u, v), i) + Bit(w, i)) % 2
        /\ Bit(Xor(u, Xor(v, w)), i) = (Bit(u, i) + Bit(Xor(v, w), i)) % 2
    BY <1>1, XorBits
  <2> QED
    BY <2>1, <2>2, <2>3, BitArithmetic
<1> QED
  BY <1>2, <1>3, SameBits

LEMMA XorCancels ==
  ASSUME NEW u \in WordSet
  PROVE  Xor(u, 0) = u /\ Xor(0, u) = u /\ Xor(u, u) = 0
<1>1. 0 \in WordSet /\ Xor(u, 0) \in WordSet /\ Xor(u, u) \in WordSet
  BY ZeroBits, XorBits
<1>2. ASSUME NEW i \in Places
      PROVE  Bit(Xor(u, 0), i) = Bit(u, i) /\ Bit(Xor(u, u), i) = Bit(0, i)
  <2>1. Bit(u, i) \in {0, 1} /\ Bit(0, i) = 0
    BY BitsAre, ZeroBits
  <2>2. Bit(Xor(u, 0), i) = (Bit(u, i) + Bit(0, i)) % 2 /\ Bit(Xor(u, u), i) = (Bit(u, i) + Bit(u, i)) % 2
    BY <1>1, XorBits
  <2> QED
    BY <2>1, <2>2, BitArithmetic
<1>3. Xor(u, 0) = u /\ Xor(u, u) = 0
  BY <1>1, <1>2, SameBits
<1> QED
  BY <1>1, <1>3, XorCommutes

LEMMA AndCommutes ==
  ASSUME NEW u \in WordSet, NEW v \in WordSet
  PROVE  And(u, v) = And(v, u)
<1>1. And(u, v) \in WordSet /\ And(v, u) \in WordSet
  BY AndBits
<1>2. ASSUME NEW i \in Places
      PROVE  Bit(And(u, v), i) = Bit(And(v, u), i)
  <2>1. Bit(u, i) \in {0, 1} /\ Bit(v, i) \in {0, 1}
    BY BitsAre
  <2>2. Bit(And(u, v), i) = Bit(u, i) * Bit(v, i) /\ Bit(And(v, u), i) = Bit(v, i) * Bit(u, i)
    BY AndBits
  <2> QED
    BY <2>1, <2>2, BitArithmetic
<1> QED
  BY <1>1, <1>2, SameBits

LEMMA AndDistributes ==
  ASSUME NEW u \in WordSet, NEW v \in WordSet, NEW w \in WordSet
  PROVE  And(u, Xor(v, w)) = Xor(And(u, v), And(u, w))
<1>1. Xor(v, w) \in WordSet /\ And(u, v) \in WordSet /\ And(u, w) \in WordSet
  BY XorBits, AndBits
<1>2. And(u, Xor(v, w)) \in WordSet /\ Xor(And(u, v), And(u, w)) \in WordSet
  BY <1>1, XorBits, AndBits
<1>3. ASSUME NEW i \in Places
      PROVE  Bit(And(u, Xor(v, w)), i) = Bit(Xor(And(u, v), And(u, w)), i)
  <2>1. Bit(u, i) \in {0, 1} /\ Bit(v, i) \in {0, 1} /\ Bit(w, i) \in {0, 1}
    BY BitsAre
  <2>2. /\ Bit(Xor(v, w), i) = (Bit(v, i) + Bit(w, i)) % 2
        /\ Bit(And(u, v), i) = Bit(u, i) * Bit(v, i) /\ Bit(And(u, w), i) = Bit(u, i) * Bit(w, i)
    BY XorBits, AndBits
  <2>3. /\ Bit(And(u, Xor(v, w)), i) = Bit(u, i) * Bit(Xor(v, w), i)
        /\ Bit(Xor(And(u, v), And(u, w)), i) = (Bit(And(u, v), i) + Bit(And(u, w), i)) % 2
    BY <1>1, XorBits, AndBits
  <2> QED
    BY <2>1, <2>2, <2>3, BitArithmetic
<1> QED
  BY <1>2, <1>3, SameBits

\* And of single bits is one.
LEMMA AndOfBits ==
  ASSUME NEW u \in WordSet
  PROVE  And(u, 0) = 0 /\ And(u, u) = u
<1>1. 0 \in WordSet /\ And(u, 0) \in WordSet /\ And(u, u) \in WordSet
  BY ZeroBits, AndBits
<1>2. ASSUME NEW i \in Places
      PROVE  Bit(And(u, 0), i) = Bit(0, i) /\ Bit(And(u, u), i) = Bit(u, i)
  <2>1. Bit(u, i) \in {0, 1} /\ Bit(0, i) = 0
    BY BitsAre, ZeroBits
  <2>2. Bit(And(u, 0), i) = Bit(u, i) * Bit(0, i) /\ Bit(And(u, u), i) = Bit(u, i) * Bit(u, i)
    BY <1>1, AndBits
  <2> QED
    BY <2>1, <2>2, BitArithmetic
<1> QED
  BY <1>1, <1>2, SameBits

LEMMA SingleBits ==
  /\ 0 \in WordSet /\ 1 \in WordSet
  /\ \A u, v \in {0, 1} : /\ Xor(u, v) = (u + v) % 2 /\ Xor(u, v) \in {0, 1}
                          /\ And(u, v) = u * v /\ And(u, v) \in {0, 1}
<1>1. 0 \in WordSet /\ 1 \in WordSet
  BY WordsAreClosed DEF WordSet
<1>2. Xor(0, 0) = 0 /\ Xor(0, 1) = 1 /\ Xor(1, 0) = 1 /\ Xor(1, 1) = 0
  BY <1>1, XorCancels
<1>3. And(0, 0) = 0 /\ And(1, 0) = 0 /\ And(0, 1) = 0 /\ And(1, 1) = 1
  BY <1>1, AndOfBits, AndCommutes
<1> QED
  BY <1>1, <1>2, <1>3

\* What is done to the three terms of a xor is done to the word they make up.
LEMMA NotOfXor ==
  ASSUME NEW u \in WordSet, NEW v \in WordSet, NEW w \in WordSet
  PROVE  Xor(Xor(Not(u), Not(v)), Not(w)) = Not(Xor(Xor(u, v), w))
<1>1. Not(u) \in WordSet /\ Not(v) \in WordSet /\ Not(w) \in WordSet /\ Xor(u, v) \in WordSet
  BY NotBits, XorBits
<1>2. Xor(Not(u), Not(v)) \in WordSet /\ Xor(Xor(u, v), w) \in WordSet
  BY <1>1, XorBits
<1>3. Xor(Xor(Not(u), Not(v)), Not(w)) \in WordSet /\ Not(Xor(Xor(u, v), w)) \in WordSet
  BY <1>1, <1>2, XorBits, NotBits
<1>4. ASSUME NEW i \in Places
      PROVE  Bit(Xor(Xor(Not(u), Not(v)), Not(w)), i) = Bit(Not(Xor(Xor(u, v), w)), i)
  <2>1. Bit(u, i) \in {0, 1} /\ Bit(v, i) \in {0, 1} /\ Bit(w, i) \in {0, 1}
    BY BitsAre
  <2>2. /\ Bit(Not(u), i) = 1 - Bit(u, i) /\ Bit(Not(v), i) = 1 - Bit(v, i)
        /\ Bit(Not(w), i) = 1 - Bit(w, i) /\ Bit(Xor(u, v), i) = (Bit(u, i) + Bit(v, i)) % 2
    BY NotBits, XorBits
  <2>3. /\ Bit(Xor(Not(u), Not(v)), i) = (Bit(Not(u), i) + Bit(Not(v), i)) % 2
        /\ Bit(Xor(Xor(u, v), w), i) = (Bit(Xor(u, v), i) + Bit(w, i)) % 2
    BY <1>1, XorBits
  <2>4. /\ Bit(Xor(Xor(Not(u), Not(v)), Not(w)), i) = (Bit(Xor(Not(u), Not(v)), i) + Bit(Not(w), i)) % 2
        /\ Bit(Not(Xor(Xor(u, v), w)), i) = 1 - Bit(Xor(Xor(u, v), w), i)
    BY <1>1, <1>2, XorBits, NotBits
  <2> QED
    BY <2>1, <2>2, <2>3, <2>4, BitArithmetic
<1> QED
  BY <1>3, <1>4, SameBits

LEMMA BitOfXor ==
  ASSUME NEW u \in WordSet, NEW v \in WordSet, NEW w \in WordSet, NEW i \in Places
  PROVE  Xor(Xor(Bit(u, i), Bit(v, i)), Bit(w, i)) = Bit(Xor(Xor(u, v), w), i)
<1>1. Bit(u, i) \in {0, 1} /\ Bit(v, i) \in {0, 1} /\ Bit(w, i) \in {0, 1}
  BY BitsAre
<1>2. Xor(u, v) \in WordSet
  BY XorBits
<1>3. /\ Bit(Xor(u, v), i) = (Bit(u, i) + Bit(v, i)) % 2
      /\ Bit(Xor(Xor(u, v), w), i) = (Bit(Xor(u, v), i) + Bit(w, i)) % 2
  BY <1>2, XorBits
<1>4. /\ Xor(Bit(u, i), Bit(v, i)) = (Bit(u, i) + Bit(v, i)) % 2
      /\ Xor(Bit(u, i), Bit(v, i)) \in {0, 1}
  BY <1>1, SingleBits
<1>5. Xor(Xor(Bit(u, i), Bit(v, i)), Bit(w, i)) = (Xor(Bit(u, i), Bit(v, i)) + Bit(w, i)) % 2
  BY <1>1, <1>4, SingleBits
<1> QED
  BY <1>3, <1>4, <1>5

\* Negative words are those with the top bit.
LEMMA SignBit ==
  ASSUME NEW u \in WordSet
  PROVE  Width - 1 \in Places /\ Truth(Signed(u) < 0) = Bit(u, Width - 1)
<1>1. Width - 1 \in Places /\ 2^Width = 2 * 2^(Width - 1) /\ 2^(Width - 1) \in Nat \ {0}
  BY HalfPower DEF Places
<1> DEFINE P == 2^(Width - 1)
<1>2. u \in 0 .. 2 * P - 1 /\ Modulus = 2 * P
  BY <1>1 DEF WordSet, Modulus
<1>3. Signed(u) = IF u < P THEN u ELSE u - 2 * P
  BY <1>2 DEF Signed
<1>4. Bit(u, Width - 1) = (u \div P) % 2
  BY DEF Bit
<1>5. P \in Nat \ {0}
  BY <1>1
<1> HIDE DEF P
<1>6. CASE u < P
  <2>1. u = P * 0 + u /\ u \in 0 .. P - 1 /\ u \in Int
    BY <1>2, <1>5, <1>6
  <2>2. u \div P = 0
    BY <1>5, <2>1, DivUnique
  <2>3. ~(Signed(u) < 0)
    BY <1>3, <1>6, <2>1
  <2> QED
    BY <1>1, <1>4, <2>2, <2>3 DEF Truth
<1>7. CASE ~(u < P)
  <2>1. u = P * 1 + (u - P) /\ u - P \in 0 .. P - 1 /\ u \in Int
    BY <1>2, <1>5, <1>7
  <2>2. u \div P = 1
    BY <1>5, <2>1, DivUnique
  <2>3. Signed(u) < 0
    BY <1>2, <1>3, <1>5, <1>7
  <2> QED
    BY <1>1, <1>4, <2>2, <2>3 DEF Truth
<1> QED
  BY <1>6, <1>7

LEMMA FirstBit ==
  ASSUME NEW u \in WordSet
  PROVE  0 \in Places /\ u % 2 = Bit(u, 0)
<1>1. 0 \in Places /\ 2^0 = 1 /\ u \in Nat
  BY Powers DEF Places, WordSet
<1>2. u \div 1 = u
  BY <1>1
<1> QED
  BY <1>1, <1>2 DEF Bit

-----------------------------------------------------------------------------
(* Sums of shares.                                                         *)

LEMMA Closure ==
  /\ 0 \in WordSet
  /\ \A kind : \A u, v \in WordSet : /\ Plus(kind, u, v) \in WordSet
                                     /\ Minus(kind, u, v) \in WordSet
                                     /\ Times(kind, u, v) \in WordSet
  /\ \A u \in WordSet : LowBit(u) \in WordSet /\ u \in Nat
<1>1. /\ Modulus \in Nat \ {0, 1}
      /\ \A n \in Int : Wrap(n) \in WordSet
      /\ \A u, v \in WordSet : Xor(u, v) \in WordSet /\ And(u, v) \in WordSet
  BY WordsAreClosed
<1>2. 0 \in WordSet /\ 1 \in WordSet /\ \A u \in WordSet : u \in Nat
  BY <1>1 DEF WordSet
<1>3. \A u \in WordSet : LowBit(u) \in WordSet
  BY <1>2 DEF LowBit
<1>4. ASSUME NEW u \in WordSet, NEW v \in WordSet
      PROVE  u + v \in Int /\ u - v \in Int /\ u * v \in Int
  BY <1>2
<1>5. ASSUME NEW kind, NEW u \in WordSet, NEW v \in WordSet
      PROVE  /\ Plus(kind, u, v) \in WordSet
             /\ Minus(kind, u, v) \in WordSet
             /\ Times(kind, u, v) \in WordSet
  <2>1. Wrap(u + v) \in WordSet /\ Wrap(u - v) \in WordSet /\ Wrap(u * v) \in WordSet
    BY <1>1, <1>4
  <2>2. Xor(u, v) \in WordSet /\ And(u, v) \in WordSet
    BY <1>1
  <2> QED
    BY <2>1, <2>2, Zenon DEF Plus, Minus, Times
<1> QED
  BY <1>2, <1>3, <1>5

LEMMA SignedWord ==
  ASSUME NEW u \in WordSet
  PROVE  Signed(u) \in Range
<1> DEFINE P == 2 ^ (Width - 1)
<1>1. P \in Nat \ {0} /\ Modulus = 2 * P
  BY HalfPower DEF Modulus
<1>2. Signed(u) = IF u < P THEN u ELSE u - Modulus
  BY Zenon DEF Signed
<1>3. Range = -P .. P - 1
  BY Zenon DEF Range
<1> HIDE DEF P
<1>4. u \in Nat /\ u <= 2 * P - 1
  BY <1>1 DEF WordSet
<1>5. CASE u < P
  BY <1>1, <1>2, <1>3, <1>4, <1>5
<1>6. CASE ~(u < P)
  <2>1. Signed(u) = u - 2 * P
    BY <1>1, <1>2, <1>6
  <2> QED
    BY <1>1, <1>3, <1>4, <1>6, <2>1
<1> QED
  BY <1>5, <1>6

Total(kind, u, v, w) == Plus(kind, Plus(kind, u, v), w)

LEMMA PlusRules ==
  ASSUME NEW kind, NEW u \in WordSet, NEW v \in WordSet, NEW w \in WordSet
  PROVE  /\ Plus(kind, u, v) \in WordSet /\ Total(kind, u, v, w) \in WordSet
         /\ Plus(kind, u, v) = Plus(kind, v, u)
         /\ Plus(kind, Plus(kind, u, v), w) = Plus(kind, u, Plus(kind, v, w))
<1>1. Plus(kind, u, v) \in WordSet /\ Total(kind, u, v, w) \in WordSet
  BY Closure DEF Total
<1>2. CASE kind = "a"
  <2>1. u \in Nat /\ v \in Nat /\ w \in Nat /\ u + v \in Int /\ v + w \in Int
    BY Closure
  <2>2. /\ Plus(kind, u, v) = Wrap(u + v) /\ Plus(kind, v, u) = Wrap(v + u)
        /\ Plus(kind, v, w) = Wrap(v + w)
        /\ Plus(kind, Plus(kind, u, v), w) = Wrap(Wrap(u + v) + w)
        /\ Plus(kind, u, Plus(kind, v, w)) = Wrap(u + Wrap(v + w))
    BY <1>2 DEF Plus
  <2>3. Wrap(Wrap(u + v) + w) = Wrap((u + v) + w) /\ Wrap(u + Wrap(v + w)) = Wrap(u + (v + w))
    BY <2>1, WrapTerms
  <2>4. (u + v) + w = u + (v + w) /\ u + v = v + u
    BY <2>1
  <2> QED
    BY <1>1, <2>2, <2>3, <2>4
<1>3. CASE kind # "a"
  <2>1. /\ Plus(kind, u, v) = Xor(u, v) /\ Plus(kind, v, u) = Xor(v, u)
        /\ Plus(kind, v, w) = Xor(v, w)
        /\ Plus(kind, Plus(kind, u, v), w) = Xor(Xor(u, v), w)
        /\ Plus(kind, u, Plus(kind, v, w)) = Xor(u, Xor(v, w))
    BY <1>3 DEF Plus
  <2> QED
    BY <1>1, <2>1, XorCommutes, XorAssociates
<1> QED
  BY <1>2, <1>3

LEMMA PlusZero ==
  ASSUME NEW kind, NEW u \in WordSet
  PROVE  Plus(kind, u, 0) = u /\ Plus(kind, 0, u) = u
<1>1. u \in Nat /\ u + 0 = u /\ 0 \in WordSet /\ Wrap(u) = u
  BY Closure, WrapWord
<1>2. Plus(kind, u, 0) = u
  BY <1>1, XorCancels DEF Plus
<1> QED
  BY <1>1, <1>2, PlusRules

\* The order in which shares are added does not matter.
LEMMA TotalTurns ==
  ASSUME NEW kind, NEW u \in WordSet, NEW v \in WordSet, NEW w \in WordSet
  PROVE  /\ Total(kind, u, v, w) = Total(kind, v, w, u)
         /\ Total(kind, u, v, w) = Total(kind, v, u, w)
         /\ Total(kind, u, v, w) = Total(kind, w, v, u)
         /\ Total(kind, u, v, w) = Total(kind, u, w, v)
<1>1. /\ Plus(kind, u, v) \in WordSet /\ Plus(kind, v, w) \in WordSet
      /\ Plus(kind, u, v) = Plus(kind, v, u) /\ Plus(kind, w, v) = Plus(kind, v, w)
      /\ Plus(kind, Plus(kind, u, v), w) = Plus(kind, u, Plus(kind, v, w))
      /\ Plus(kind, Plus(kind, u, w), v) = Plus(kind, u, Plus(kind, w, v))
  BY PlusRules
<1>2. Plus(kind, u, Plus(kind, v, w)) = Plus(kind, Plus(kind, v, w), u)
  BY <1>1, PlusRules
<1> QED
  BY <1>1, <1>2 DEF Total

LEMMA SumsAreInt ==
  \A a, b, c \in Int : a + b \in Int /\ (a + b) + c \in Int /\ a - b \in Int
OBVIOUS

LEMMA WrapIsInt ==
  \A n \in Int : Wrap(n) \in WordSet /\ Wrap(n) \in Int
<1>1. \A n \in Int : Wrap(n) \in WordSet
  BY WordsAreClosed
<1>2. \A u \in WordSet : u \in Int
  BY Closure
<1> QED
  BY <1>1, <1>2

LEMMA TwoTerms ==
  ASSUME NEW i \in Int, NEW j \in Int
  PROVE  /\ Wrap(Wrap(i) + Wrap(j)) = Wrap(i + j)
         /\ Wrap(Wrap(i) - Wrap(j)) = Wrap(i - j)
         /\ Wrap(Wrap(i) * Wrap(j)) = Wrap(i * j)
<1>1. PICK m \in Int : m = Wrap(i)
  BY WrapIsInt
<1>2. Wrap(m + Wrap(j)) = Wrap(m + j) /\ Wrap(m - Wrap(j)) = Wrap(m - j)
      /\ Wrap(m * Wrap(j)) = Wrap(m * j)
  BY WrapTerms
<1>3. Wrap(m + j) = Wrap(i + j) /\ Wrap(m - j) = Wrap(i - j) /\ Wrap(m * j) = Wrap(i * j)
  BY <1>1, WrapTerms
<1> QED
  BY <1>1, <1>2, <1>3

LEMMA ThreeTerms ==
  ASSUME NEW i \in Int, NEW j \in Int, NEW k \in Int
  PROVE  Wrap(Wrap(Wrap(i) + Wrap(j)) + Wrap(k)) = Wrap((i + j) + k)
<1>1. Wrap(Wrap(i) + Wrap(j)) = Wrap(i + j) /\ i + j \in Int
  BY TwoTerms
<1> QED
  BY <1>1, TwoTerms

LEMMA FourTerms ==
  ASSUME NEW kind, NEW u \in WordSet, NEW v \in WordSet, NEW a \in WordSet, NEW b \in WordSet
  PROVE  Plus(kind, Plus(kind, u, a), Plus(kind, v, b))
           = Plus(kind, Plus(kind, u, v), Plus(kind, a, b))
<1> DEFINE x(s, t) == Plus(kind, s, t)
<1>1. /\ x(u, a) \in WordSet /\ x(v, b) \in WordSet /\ x(u, v) \in WordSet /\ x(a, b) \in WordSet
      /\ x(a, v) \in WordSet /\ x(a, v) = x(v, a)
  BY PlusRules
<1>2. x(x(u, a), x(v, b)) = x(x(x(u, a), v), b)
  BY <1>1, PlusRules
<1>3. x(x(u, a), v) = x(u, x(a, v)) /\ x(u, x(v, a)) = x(x(u, v), a)
  BY PlusRules
<1>4. x(x(x(u, v), a), b) = x(x(u, v), x(a, b))
  BY <1>1, PlusRules
<1> QED
  BY <1>1, <1>2, <1>3, <1>4

-----------------------------------------------------------------------------
(* Lists of messages.                                                      *)

\* The slots of the messages are w[1], w[2], ...: those of the set in order, and
\* the messages are what m has for them.
Lists(w, n, messages, m, slots) ==
  /\ w \in [1 .. n -> slots]
  /\ \A a, b \in 1 .. n : a < b => w[a] < w[b]
  /\ \A s \in slots : \E a \in 1 .. n : w[a] = s
  /\ \A a \in 1 .. n : messages[a] = m[w[a]]

InOrder(messages, m, slots) == \E w : Lists(w, Len(messages), messages, m, slots)

LEMMA InOrderAppend ==
  ASSUME NEW V, NEW messages \in Seq(V), NEW m, NEW slots, NEW s \in Int,
         slots \subseteq Int, \A t \in slots : t < s, m[s] \in V,
         InOrder(messages, m, slots)
  PROVE  InOrder(Append(messages, m[s]), m, slots \cup {s})
<1> DEFINE N == Len(messages)
           longer == Append(messages, m[s])
           L == Len(longer)
<1>1. N \in Nat /\ L = N + 1 /\ longer[L] = m[s]
  OBVIOUS
<1>2. \A a \in 1 .. N : longer[a] = messages[a]
  OBVIOUS
<1>3. PICK w : Lists(w, N, messages, m, slots)
  BY DEF InOrder
<1> DEFINE w2 == [a \in 1 .. L |-> IF a = L THEN s ELSE w[a]]
<1> HIDE DEF N, L, longer
<1>4. \A a \in 1 .. N : a \in 1 .. L /\ a < L /\ w2[a] = w[a] /\ w[a] \in slots /\ w[a] < s
  <2>1. \A a \in 1 .. N : a \in 1 .. L /\ a < L
    BY <1>1
  <2>2. \A a \in 1 .. N : w[a] \in slots
    BY <1>3 DEF Lists
  <2>3. \A a \in 1 .. N : w[a] < s
    BY <2>2
  <2>4. \A a \in 1 .. N : w2[a] = w[a]
    BY <1>1, <2>1
  <2> QED
    BY <2>1, <2>2, <2>3, <2>4
<1>5. L \in 1 .. L /\ w2[L] = s
  BY <1>1
<1>6. \A a \in 1 .. L : a = L \/ a \in 1 .. N
  BY <1>1
<1>7. w2 \in [1 .. L -> slots \cup {s}]
  BY <1>4, <1>5, <1>6
<1> HIDE DEF w2
<1>8. ASSUME NEW a \in 1 .. L, NEW b \in 1 .. L, a < b
      PROVE  w2[a] < w2[b]
  <2>1. a \in 1 .. N
    BY <1>1, <1>6, <1>8
  <2>2. CASE b = L
    BY <1>4, <1>5, <2>1, <2>2
  <2>3. CASE b # L
    <3>1. b \in 1 .. N
      BY <1>6, <2>3
    <3>2. w[a] < w[b]
      BY <1>3, <1>8, <2>1, <3>1 DEF Lists
    <3> QED
      BY <1>4, <2>1, <3>1, <3>2
  <2> QED
    BY <2>2, <2>3
<1>9. ASSUME NEW t \in slots \cup {s}
      PROVE  \E a \in 1 .. L : w2[a] = t
  <2>1. CASE t = s
    BY <1>5, <2>1
  <2>2. CASE t \in slots
    <3>1. PICK a \in 1 .. N : w[a] = t
      BY <1>3, <2>2 DEF Lists
    <3> QED
      BY <1>4, <3>1
  <2> QED
    BY <2>1, <2>2
<1>10. ASSUME NEW a \in 1 .. L
       PROVE  longer[a] = m[w2[a]]
  <2>1. CASE a = L
    BY <1>1, <1>5, <2>1
  <2>2. CASE a \in 1 .. N
    <3>1. longer[a] = messages[a] /\ messages[a] = m[w[a]]
      BY <1>2, <1>3, <2>2 DEF Lists
    <3>2. w2[a] = w[a]
      BY <1>4, <2>2
    <3> QED
      BY <3>1, <3>2
  <2> QED
    BY <1>6, <2>1, <2>2
<1>11. Lists(w2, L, longer, m, slots \cup {s})
  BY <1>7, <1>8, <1>9, <1>10 DEF Lists
<1> QED
  BY <1>11 DEF InOrder, L, longer

LEMMA InOrderTail ==
  ASSUME NEW V, NEW messages \in Seq(V), messages # <<>>, NEW m, NEW slots, NEW s \in slots,
         slots \subseteq Int, \A t \in slots : s <= t,
         InOrder(messages, m, slots)
  PROVE  /\ Head(messages) = m[s]
         /\ InOrder(Tail(messages), m, slots \ {s})
<1> DEFINE N == Len(messages)
           rest == Tail(messages)
           L == Len(rest)
<1>1. L \in Nat /\ N = L + 1 /\ Head(messages) = messages[1]
  OBVIOUS
<1>2. \A a \in 1 .. L : rest[a] = messages[a + 1]
  OBVIOUS
<1>3. PICK w : Lists(w, N, messages, m, slots)
  BY DEF InOrder
<1> HIDE DEF N, rest, L
<1>4. 1 \in 1 .. N /\ w[1] \in slots
  BY <1>1, <1>3 DEF Lists
<1>5. \A a \in 1 .. N : a = 1 \/ (1 < a /\ w[1] < w[a])
  BY <1>3, <1>4 DEF Lists
<1>6. w[1] = s
  <2>1. PICK a \in 1 .. N : w[a] = s
    BY <1>3 DEF Lists
  <2>2. s <= w[1] /\ s \in Int /\ w[1] \in Int
    BY <1>4
  <2> QED
    BY <1>5, <2>1, <2>2
<1> DEFINE w2 == [a \in 1 .. L |-> w[a + 1]]
<1>7. \A a \in 1 .. L : a + 1 \in 1 .. N /\ 1 < a + 1
  BY <1>1
<1>8. ASSUME NEW a \in 1 .. L
      PROVE  w2[a] = w[a + 1] /\ w[a + 1] \in slots \ {s}
  <2>1. w[a + 1] \in slots
    BY <1>3, <1>7 DEF Lists
  <2>2. w[1] < w[a + 1]
    BY <1>3, <1>4, <1>7 DEF Lists
  <2>3. w[a + 1] # s
    BY <1>6, <2>1, <2>2
  <2> QED
    BY <2>1, <2>3
<1>9. w2 \in [1 .. L -> slots \ {s}]
  BY <1>8
<1> HIDE DEF w2
<1>10. ASSUME NEW a \in 1 .. L, NEW b \in 1 .. L, a < b
       PROVE  w2[a] < w2[b]
  <2>1. a + 1 < b + 1
    BY <1>1, <1>10
  <2>2. w[a + 1] < w[b + 1]
    BY <1>3, <1>7, <2>1 DEF Lists
  <2> QED
    BY <1>8, <2>2
<1>11. ASSUME NEW t \in slots \ {s}
       PROVE  \E a \in 1 .. L : w2[a] = t
  <2>1. PICK b \in 1 .. N : w[b] = t
    BY <1>3 DEF Lists
  <2>2. b # 1
    BY <1>6, <2>1
  <2>3. b - 1 \in 1 .. L /\ (b - 1) + 1 = b
    BY <1>1, <2>2
  <2>4. w2[b - 1] = t
    BY <1>8, <2>1, <2>3
  <2> QED
    BY <2>3, <2>4
<1>12. ASSUME NEW a \in 1 .. L
       PROVE  rest[a] = m[w2[a]]
  <2>1. messages[a + 1] = m[w[a + 1]]
    BY <1>3, <1>7 DEF Lists
  <2> QED
    BY <1>2, <1>8, <2>1
<1>13. Lists(w2, L, rest, m, slots \ {s})
  BY <1>9, <1>10, <1>11, <1>12 DEF Lists
<1>14. Head(messages) = m[s]
  BY <1>1, <1>3, <1>4, <1>6 DEF Lists
<1>15. InOrder(Tail(messages), m, slots \ {s})
  BY <1>13 DEF InOrder, L, rest
<1> QED
  BY <1>14, <1>15

LEMMA InOrderEmpty ==
  ASSUME NEW V, NEW messages \in Seq(V), NEW m, NEW slots, InOrder(messages, m, slots)
  PROVE  messages = <<>> <=> slots = {}
<1>1. PICK w : Lists(w, Len(messages), messages, m, slots)
  BY DEF InOrder
<1>2. messages # <<>> => 1 \in 1 .. Len(messages)
  OBVIOUS
<1>3. messages = <<>> => 1 .. Len(messages) = {}
  OBVIOUS
<1> QED
  BY <1>1, <1>2, <1>3 DEF Lists
==============================================================================
