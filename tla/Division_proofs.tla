---------------------------- MODULE Division_proofs ----------------------------
(***************************************************************************)
(* What the other proofs need to know of numbers: products, division with  *)
(* a remainder, and least elements, by which they do induction; and the    *)
(* theorems about getThreadBatchBoundary, for every size, batch size and   *)
(* number of threads.                                                      *)
(***************************************************************************)
EXTENDS BatchBoundary, TLAPS, WellFoundedInduction

\* A product of naturals is a natural, and multiplying preserves the order.
LEMMA TimesNat ==
  ASSUME NEW a \in Nat, NEW b \in Nat
  PROVE  a * b \in Nat
OBVIOUS

LEMMA TimesMono ==
  ASSUME NEW a \in Nat, NEW b \in Nat, NEW c \in Nat, a <= b
  PROVE  a * c <= b * c
<1>1. PICK k \in Nat : b = a + k
  <2>1. b - a \in Nat /\ b = a + (b - a)
    OBVIOUS
  <2> QED
    BY <2>1
<1>2. b * c = a * c + k * c
  BY <1>1
<1>3. k * c \in Nat /\ a * c \in Nat
  BY TimesNat
<1> QED
  BY <1>2, <1>3

\* The division of a natural number by a positive one, as the provers need it.
LEMMA DivMod ==
  ASSUME NEW n \in Nat, NEW c \in Nat \ {0}
  PROVE  /\ n \div c \in Nat
         /\ n % c \in 0 .. c - 1
         /\ n = c * (n \div c) + (n % c)
OBVIOUS

LEMMA DivModInt ==
  ASSUME NEW n \in Int, NEW c \in Nat \ {0}
  PROVE  /\ n \div c \in Int
         /\ n % c \in 0 .. c - 1
         /\ n = c * (n \div c) + (n % c)
OBVIOUS

LEMMA TimesInt ==
  ASSUME NEW a \in Int, NEW b \in Int
  PROVE  a * b \in Int
OBVIOUS

\* A multiple of a positive number is positive, or not, as the factor is.
LEMMA TimesSign ==
  ASSUME NEW c \in Nat \ {0}, NEW k \in Int
  PROVE  /\ k >= 1 => c * k >= c
         /\ k <= -1 => c * k <= -c
<1>1. CASE k >= 1
  <2>1. c * k = c + c * (k - 1) /\ k - 1 \in Nat
    BY <1>1
  <2>2. c * (k - 1) \in Nat
    BY <2>1
  <2> QED
    BY <1>1, <2>1, <2>2
<1>2. CASE k <= -1
  <2>1. c * k = -c - c * (-k - 1) /\ -k - 1 \in Nat
    BY <1>2
  <2>2. c * (-k - 1) \in Nat
    BY <2>1
  <2> QED
    BY <1>2, <2>1, <2>2
<1>3. CASE k = 0
  BY <1>3
<1> QED
  BY <1>1, <1>2, <1>3

\* Quotient and remainder are unique.
LEMMA DivUnique ==
  ASSUME NEW n \in Int, NEW c \in Nat \ {0}, NEW q \in Int, NEW r \in 0 .. c - 1,
         n = c * q + r
  PROVE  n \div c = q /\ n % c = r
<1> DEFINE d == n \div c
           m == n % c
<1>1. d \in Int /\ m \in 0 .. c - 1 /\ n = c * d + m
  BY DivModInt
<1> HIDE DEF d, m
<1>2. c * (d - q) = c * d - c * q /\ c * d \in Int /\ c * q \in Int
  BY <1>1
<1>3. c * (d - q) = r - m
  BY <1>1, <1>2
<1>4. d - q \in Int /\ r - m < c /\ r - m > -c
  BY <1>1
<1>5. /\ d - q >= 1 => c * (d - q) >= c
      /\ d - q <= -1 => c * (d - q) <= -c
  BY <1>4, TimesSign
<1>6. d = q
  BY <1>1, <1>3, <1>4, <1>5
<1>7. m = r
  BY <1>1, <1>2, <1>6
<1> QED
  BY <1>6, <1>7 DEF d, m

\* Dividing twice is dividing by the product.
LEMMA DivDiv ==
  ASSUME NEW n \in Int, NEW a \in Nat \ {0}, NEW b \in Nat \ {0}
  PROVE  a * b \in Nat \ {0} /\ (n \div a) \div b = n \div (a * b)
<1> DEFINE q == n \div a
           r == n % a
           q2 == q \div b
           r2 == q % b
<1>1. q \in Int /\ r \in 0 .. a - 1 /\ n = a * q + r
  BY DivModInt
<1>2. q2 \in Int /\ r2 \in 0 .. b - 1 /\ q = b * q2 + r2
  BY <1>1, DivModInt
<1> HIDE DEF q, r, q2, r2
<1>3. /\ a * b \in Nat
      /\ a * r2 \in Nat
      /\ a * (b * q2) = (a * b) * q2
      /\ a * (b * q2 + r2) = a * (b * q2) + a * r2
  BY <1>2
<1>4. n = (a * b) * q2 + (a * r2 + r)
  <2>1. (a * b) * q2 \in Int /\ a * (b * q2) \in Int
    BY <1>2, <1>3
  <2> QED
    BY <1>1, <1>2, <1>3, <2>1
<1>5. a * r2 + a <= a * b /\ a * b >= 1
  <2>1. b - r2 \in Int /\ b - r2 >= 1
    BY <1>2
  <2>2. a * (b - r2) >= a
    BY <2>1, TimesSign
  <2>3. a * (b - r2) = a * b - a * r2
    BY <1>2
  <2>4. a * b >= a
    BY TimesSign
  <2> QED
    BY <1>3, <2>2, <2>3, <2>4
<1>6. a * r2 + r \in 0 .. (a * b) - 1
  BY <1>1, <1>3, <1>5
<1>7. a * b \in Nat \ {0}
  BY <1>3, <1>5
<1>8. n \div (a * b) = q2
  BY <1>2, <1>4, <1>6, <1>7, DivUnique
<1> QED
  BY <1>7, <1>8 DEF q, q2

\* The remainder of twice a number has one digit more.
LEMMA ModDouble ==
  ASSUME NEW n \in Int, NEW m \in Nat \ {0}
  PROVE  /\ n \div (2 * m) = (n \div m) \div 2
         /\ n % (2 * m) = (n % m) + m * ((n \div m) % 2)
         /\ n \div m = 2 * (n \div (2 * m)) + ((n \div m) % 2)
         /\ (n \div m) % 2 \in {0, 1}
<1> DEFINE q == n \div m
           r == n % m
           q2 == q \div 2
           r2 == q % 2
<1>1. q \in Int /\ r \in 0 .. m - 1 /\ n = m * q + r
  BY DivModInt
<1>2. q2 \in Int /\ r2 \in 0 .. 1 /\ q = 2 * q2 + r2
  BY <1>1, DivModInt
<1> HIDE DEF q, r, q2, r2
<1>3. r2 = 0 \/ r2 = 1
  BY <1>2
<1>4. m * q = (2 * m) * q2 + (IF r2 = 0 THEN 0 ELSE m)
  <2>1. /\ m * q2 \in Int
        /\ m * (2 * q2) = (2 * m) * q2
        /\ m * (2 * q2 + 1) = (2 * m) * q2 + m
    BY <1>2
  <2>2. CASE r2 = 0
    <3>1. q = 2 * q2
      BY <1>2, <2>2
    <3> QED
      BY <2>1, <2>2, <3>1
  <2>3. CASE r2 = 1
    <3>1. q = 2 * q2 + 1
      BY <1>2, <2>3
    <3> QED
      BY <2>1, <2>3, <3>1
  <2> QED
    BY <1>3, <2>2, <2>3
<1>5. m * r2 = (IF r2 = 0 THEN 0 ELSE m)
  BY <1>3
<1> DEFINE s == (2 * m) * q2
           t == m * r2
<1>6. n = (2 * m) * q2 + (r + m * r2) /\ r + m * r2 \in 0 .. (2 * m) - 1
  <2>1. s \in Int /\ t = (IF r2 = 0 THEN 0 ELSE m) /\ m * q = s + t
    BY <1>2, <1>4, <1>5
  <2> HIDE DEF s, t
  <2>2. n = s + t + r
    BY <1>1, <2>1
  <2>3. n = s + (r + t) /\ r + t \in 0 .. (2 * m) - 1
    BY <1>1, <1>3, <2>1, <2>2
  <2> QED
    BY <2>3 DEF s, t
<1>7. n \div (2 * m) = q2 /\ n % (2 * m) = r + m * r2
  <2>1. 2 * m \in Nat \ {0}
    OBVIOUS
  <2> QED
    BY ONLY n \in Int, <1>2, <1>6, <2>1, DivUnique
<1> QED
  BY <1>2, <1>3, <1>7 DEF q, r, q2, r2

\* The quotients add up, but for what the remainders carry.
LEMMA DivSum ==
  ASSUME NEW x \in Int, NEW y \in Int, NEW m \in Nat \ {0}
  PROVE  (x + y) \div m
           = (x \div m) + (y \div m) + (IF (x % m) + (y % m) >= m THEN 1 ELSE 0)
<1> DEFINE qx == x \div m
           rx == x % m
           qy == y \div m
           ry == y % m
<1>1. /\ qx \in Int /\ rx \in 0 .. m - 1 /\ x = m * qx + rx
      /\ qy \in Int /\ ry \in 0 .. m - 1 /\ y = m * qy + ry
  BY DivModInt
<1> HIDE DEF qx, rx, qy, ry
<1>2. /\ m * qx \in Int /\ m * qy \in Int
      /\ m * (qx + qy) = m * qx + m * qy
      /\ m * (qx + qy + 1) = m * qx + m * qy + m
  BY <1>1
<1>3. CASE rx + ry >= m
  <2>1. x + y = m * (qx + qy + 1) + (rx + ry - m) /\ rx + ry - m \in 0 .. m - 1
    BY <1>1, <1>2, <1>3
  <2>2. (x + y) \div m = qx + qy + 1
    BY <1>1, <2>1, DivUnique
  <2> QED
    BY <1>3, <2>2 DEF qx, rx, qy, ry
<1>4. CASE ~(rx + ry >= m)
  <2>1. x + y = m * (qx + qy) + (rx + ry) /\ rx + ry \in 0 .. m - 1
    BY <1>1, <1>2, <1>4
  <2>2. (x + y) \div m = qx + qy
    BY <1>1, <2>1, DivUnique
  <2>3. qx + qy + 0 = qx + qy
    BY <1>1
  <2> QED
    BY <1>4, <2>2, <2>3 DEF qx, rx, qy, ry
<1> QED
  BY <1>3, <1>4

\* What has the larger quotient is larger.
LEMMA DivMonotone ==
  ASSUME NEW x \in Int, NEW y \in Int, NEW m \in Nat \ {0}, x \div m > y \div m
  PROVE  x > y
<1> DEFINE qx == x \div m
           rx == x % m
           qy == y \div m
           ry == y % m
<1>1. /\ qx \in Int /\ rx \in 0 .. m - 1 /\ x = m * qx + rx
      /\ qy \in Int /\ ry \in 0 .. m - 1 /\ y = m * qy + ry
  BY DivModInt
<1>2. qx > qy
  OBVIOUS
<1> HIDE DEF qx, rx, qy, ry
<1>3. m * (qx - qy) >= m /\ m * (qx - qy) = m * qx - m * qy
  BY <1>1, <1>2, TimesSign
<1>4. m * qx \in Int /\ m * qy \in Int
  BY <1>1
<1> QED
  BY <1>1, <1>3, <1>4

-----------------------------------------------------------------------------
\* A set of naturals has a least element, and one that has a bound a greatest.
LEMMA Least ==
  ASSUME NEW T, T \subseteq Nat, T # {}
  PROVE  \E x \in T : \A y \in T : ~(y < x)
<1> DEFINE R == OpToRel(<, Nat)
<1>1. IsWellFoundedOn(R, Nat)
  BY NatLessThanWellFounded
<1>2. PICK x \in T : \A y \in T : ~(<<y, x>> \in R)
  <2> HIDE DEF R
  <2> QED
    BY <1>1, WFMin
<1>3. \A y \in T : ~(y < x)
  BY <1>2 DEF OpToRel
<1> QED
  BY <1>3

LEMMA Greatest ==
  ASSUME NEW bound \in Nat, NEW S, S \subseteq 0 .. bound, S # {}
  PROVE  \E m \in S : \A k \in S : k <= m
<1> DEFINE T == {bound - k : k \in S}
<1>1. T \subseteq Nat /\ T # {}
  <2>1. \A k \in S : bound - k \in Nat
    OBVIOUS
  <2>2. PICK k \in S : TRUE
    OBVIOUS
  <2>3. bound - k \in T
    OBVIOUS
  <2> QED
    BY <2>1, <2>3
<1>2. PICK x \in T : \A y \in T : ~(y < x)
  BY <1>1, Least
<1>3. PICK m \in S : x = bound - m
  OBVIOUS
<1>4. ASSUME NEW k \in S
      PROVE  k <= m
  <2>1. bound - k \in T
    OBVIOUS
  <2>2. k \in Nat /\ m \in Nat
    OBVIOUS
  <2>3. ~(bound - k < bound - m)
    BY <1>2, <1>3, <2>1
  <2> HIDE DEF T
  <2> QED
    BY <2>2, <2>3
<1> QED
  BY <1>4

-----------------------------------------------------------------------------
(* The division of a vector among the threads.                             *)

\* The number of full batches, split over the threads.
LEMMA Batches ==
  ASSUME NEW total \in Nat, NEW batch \in Nat \ {0}, NEW n \in Nat \ {0}
  PROVE  /\ ThreadBatches(total, batch, n) \in Nat
         /\ RemainingBatches(total, batch, n) \in 0 .. n - 1
         /\ total \div batch \in Nat
         /\ total \div batch = n * ThreadBatches(total, batch, n)
                                 + RemainingBatches(total, batch, n)
         /\ (total \div batch) * batch <= total
<1>1. /\ total \div batch \in Nat
      /\ total % batch \in 0 .. batch - 1
      /\ total = batch * (total \div batch) + (total % batch)
  BY DivMod
<1>2. (total \div batch) * batch <= total
  BY <1>1
<1>3. /\ (total \div batch) \div n \in Nat
      /\ (total \div batch) % n \in 0 .. n - 1
      /\ total \div batch = n * ((total \div batch) \div n) + ((total \div batch) % n)
  BY <1>1, DivMod
<1> QED
  BY <1>1, <1>2, <1>3 DEF ThreadBatches, RemainingBatches

\* Threads get consecutive runs of batches: the next thread begins where this
\* one stops, and no thread begins after the last full batch.
LEMMA PreviousStep ==
  ASSUME NEW total \in Nat, NEW batch \in Nat \ {0}, NEW n \in Nat \ {0},
         NEW i \in 0 .. n - 1
  PROVE  /\ PreviousBatches(total, batch, i, n) \in Nat
         /\ ThisThreadBatches(total, batch, i, n) \in Nat
         /\ PreviousBatches(total, batch, i, n) + ThisThreadBatches(total, batch, i, n)
              = PreviousBatches(total, batch, i + 1, n)
<1> DEFINE q == ThreadBatches(total, batch, n)
           r == RemainingBatches(total, batch, n)
<1>1. q \in Nat /\ r \in 0 .. n - 1
  BY Batches
<1> HIDE DEF q, r
<1>2. i * q \in Nat /\ (i + 1) * q = i * q + q
  BY <1>1, TimesNat
<1>3. PreviousBatches(total, batch, i, n) = i * q + (IF i >= r THEN r ELSE i)
  BY DEF PreviousBatches, q, r
<1>4. PreviousBatches(total, batch, i + 1, n)
        = (i + 1) * q + (IF i + 1 >= r THEN r ELSE i + 1)
  BY DEF PreviousBatches, q, r
<1>5. ThisThreadBatches(total, batch, i, n) = IF i >= r THEN q ELSE q + 1
  BY DEF ThisThreadBatches, q, r
<1> QED
  BY <1>1, <1>2, <1>3, <1>4, <1>5

LEMMA PreviousMono ==
  ASSUME NEW total \in Nat, NEW batch \in Nat \ {0}, NEW n \in Nat \ {0},
         NEW i \in 0 .. n, NEW j \in 0 .. n, i <= j
  PROVE  /\ PreviousBatches(total, batch, i, n) \in Nat
         /\ PreviousBatches(total, batch, j, n) \in Nat
         /\ PreviousBatches(total, batch, i, n) <= PreviousBatches(total, batch, j, n)
         /\ PreviousBatches(total, batch, n, n) = total \div batch
<1> DEFINE q == ThreadBatches(total, batch, n)
           r == RemainingBatches(total, batch, n)
<1>1. /\ q \in Nat /\ r \in 0 .. n - 1
      /\ total \div batch = n * q + r
  BY Batches
<1>2. /\ PreviousBatches(total, batch, i, n) = i * q + (IF i >= r THEN r ELSE i)
      /\ PreviousBatches(total, batch, j, n) = j * q + (IF j >= r THEN r ELSE j)
      /\ PreviousBatches(total, batch, n, n) = n * q + (IF n >= r THEN r ELSE n)
  BY DEF PreviousBatches
<1> HIDE DEF q, r
<1>3. i * q \in Nat /\ j * q \in Nat /\ i * q <= j * q
  BY <1>1, TimesNat, TimesMono
<1> QED
  BY <1>1, <1>2, <1>3

\* Where a part begins and ends: in order, inside the vector, each part
\* beginning where the part before it ends.
THEOREM PartBounds ==
  ASSUME NEW total \in Nat, NEW batch \in Nat \ {0}, NEW n \in Nat \ {0},
         NEW i \in 0 .. n - 1
  PROVE  /\ StartInd(total, batch, i, n) \in Nat
         /\ EndInd(total, batch, i, n) \in Nat
         /\ StartInd(total, batch, i, n) <= EndInd(total, batch, i, n)
         /\ EndInd(total, batch, i, n) <= total
         /\ i # n - 1 => EndInd(total, batch, i, n) = StartInd(total, batch, i + 1, n)
<1> DEFINE p == PreviousBatches(total, batch, i, n)
           p1 == PreviousBatches(total, batch, i + 1, n)
           this == ThisThreadBatches(total, batch, i, n)
           all == total \div batch
<1>1. p \in Nat /\ this \in Nat /\ p1 = p + this
  BY PreviousStep
<1>2. all \in Nat /\ all * batch <= total
  BY Batches
<1>3. p1 \in Nat /\ p1 <= all /\ p <= all
  <2>1. i + 1 \in 0 .. n /\ n \in 0 .. n /\ i + 1 <= n
    OBVIOUS
  <2>2. /\ p1 \in Nat
        /\ p1 <= PreviousBatches(total, batch, n, n)
        /\ PreviousBatches(total, batch, n, n) = all
    BY <2>1, PreviousMono
  <2> HIDE DEF p, p1, this, all
  <2> QED
    BY <1>1, <1>2, <2>2
<1>4. /\ StartInd(total, batch, i, n) = p * batch
      /\ StartInd(total, batch, i + 1, n) = p1 * batch
      /\ EndInd(total, batch, i, n) =
           IF i = n - 1 THEN total ELSE p * batch + this * batch
  BY DEF StartInd, EndInd
<1> HIDE DEF p, p1, this, all
<1>5. p1 * batch = p * batch + this * batch
  BY <1>1
<1>6. /\ p * batch \in Nat /\ this * batch \in Nat /\ p1 * batch \in Nat
      /\ p * batch <= all * batch /\ p1 * batch <= all * batch
      /\ all * batch \in Nat
  BY <1>1, <1>2, <1>3, TimesNat, TimesMono
<1> QED
  BY <1>2, <1>4, <1>5, <1>6

\* A thread's part ends no later than the part of any later thread begins.
THEOREM PartsOrdered ==
  ASSUME NEW total \in Nat, NEW batch \in Nat \ {0}, NEW n \in Nat \ {0},
         NEW i \in 0 .. n - 1, NEW j \in 0 .. n - 1, i < j
  PROVE  EndInd(total, batch, i, n) <= StartInd(total, batch, j, n)
<1> DEFINE p == PreviousBatches(total, batch, i + 1, n)
           pj == PreviousBatches(total, batch, j, n)
<1>1. p \in Nat /\ pj \in Nat /\ p <= pj
  BY PreviousMono, i + 1 \in 0 .. n, j \in 0 .. n, i + 1 <= j
<1>2. p * batch <= pj * batch
  BY <1>1, TimesMono
<1>3. EndInd(total, batch, i, n) = StartInd(total, batch, i + 1, n)
  BY PartBounds, i # n - 1
<1> QED
  BY <1>2, <1>3 DEF StartInd

LEMMA PartsDisjoint ==
  ASSUME NEW total \in Nat, NEW batch \in Nat \ {0}, NEW n \in Nat \ {0},
         NEW i \in 0 .. n - 1, NEW j \in 0 .. n - 1, i # j
  PROVE  Part(total, batch, i, n) \cap Part(total, batch, j, n) = {}
<1>1. /\ StartInd(total, batch, i, n) \in Nat /\ EndInd(total, batch, i, n) \in Nat
      /\ StartInd(total, batch, j, n) \in Nat /\ EndInd(total, batch, j, n) \in Nat
  BY PartBounds
<1>2. CASE i < j
  BY <1>1, <1>2, PartsOrdered DEF Part
<1>3. CASE j < i
  BY <1>1, <1>3, PartsOrdered DEF Part
<1> QED
  BY <1>2, <1>3

\* Division bounds its dividend from both sides, and a bound on the dividend
\* bounds the quotient.
LEMMA DivBounds ==
  ASSUME NEW a \in Nat, NEW d \in Nat \ {0}, NEW m \in Nat, a < m * d
  PROVE  /\ a \div d \in Nat
         /\ (a \div d) * d <= a
         /\ a < (a \div d + 1) * d
         /\ a \div d < m
<1> DEFINE k == a \div d
<1>1. /\ k \in Nat
      /\ a % d \in 0 .. d - 1
      /\ a = d * k + (a % d)
  BY DivMod
<1> HIDE DEF k
<1>2. /\ d * k = k * d /\ (k + 1) * d = k * d + d
      /\ k * d \in Nat
  BY <1>1, TimesNat
<1>3. k * d <= a /\ a < (k + 1) * d
  BY <1>1, <1>2
<1>4. k < m
  <2> SUFFICES ASSUME m <= k PROVE FALSE
    BY <1>1
  <2>1. m * d <= k * d /\ m * d \in Nat
    BY <1>1, TimesMono, TimesNat
  <2> QED
    BY <1>2, <1>3, <2>1
<1> QED
  BY <1>1, <1>3, <1>4 DEF k

\* Every full batch belongs to a thread.
LEMMA BatchHasThread ==
  ASSUME NEW total \in Nat, NEW batch \in Nat \ {0}, NEW n \in Nat \ {0},
         NEW b \in Nat, b < total \div batch
  PROVE  \E i \in 0 .. n - 1 : /\ PreviousBatches(total, batch, i, n) <= b
                               /\ b < PreviousBatches(total, batch, i + 1, n)
<1> DEFINE q == ThreadBatches(total, batch, n)
           r == RemainingBatches(total, batch, n)
           Prev(i) == PreviousBatches(total, batch, i, n)
<1>1. /\ q \in Nat /\ r \in 0 .. n - 1
      /\ total \div batch = n * q + r
  BY Batches
<1>2. \A i \in 0 .. n : Prev(i) = i * q + (IF i >= r THEN r ELSE i)
  BY DEF PreviousBatches
<1>3. b < n * q + r
  BY <1>1
<1> HIDE DEF q, r, Prev
<1>4. CASE b < r * (q + 1)
  <2> DEFINE i == b \div (q + 1)
  <2>1. /\ i \in Nat /\ i * (q + 1) <= b
        /\ b < (i + 1) * (q + 1) /\ i < r
    BY <1>1, <1>4, DivBounds, q + 1 \in Nat \ {0}, r \in Nat
  <2> HIDE DEF i
  <2>2. /\ i * q + i = i * (q + 1)
        /\ (i + 1) * q + (i + 1) = (i + 1) * (q + 1)
    BY <1>1, <2>1
  <2>3. i \in 0 .. n - 1 /\ i + 1 \in 0 .. n /\ ~(i >= r)
    BY <1>1, <2>1
  <2>4. i + 1 >= r => i + 1 = r
    BY <1>1, <2>1
  <2>5. Prev(i) = i * (q + 1)
    BY <1>2, <2>2, <2>3
  <2>6. Prev(i + 1) = (i + 1) * (q + 1)
    BY <1>2, <2>2, <2>3, <2>4
  <2> QED
    BY <2>1, <2>3, <2>5, <2>6 DEF Prev
<1>5. CASE ~(b < r * (q + 1))
  <2> DEFINE c == b - r * (q + 1)
             k == c \div q
  <2>1. r * (q + 1) = r * q + r /\ r * q \in Nat /\ n * q \in Nat
    BY <1>1, TimesNat
  <2>2. c \in Nat /\ c = b - (r * q + r)
    BY <1>1, <1>5, <2>1
  <2>3. n * q = (n - r) * q + r * q
    BY <1>1
  <2>4. n - r \in Nat /\ c < (n - r) * q
    <3>1. (n - r) * q \in Int
      BY <1>1
    <3> QED
      BY <1>1, <1>3, <2>1, <2>2, <2>3, <3>1
  <2>5. q \in Nat \ {0}
    <3>1. q = 0 => (n - r) * q = 0
      BY <1>1
    <3> QED
      BY <1>1, <2>2, <2>4, <3>1
  <2> HIDE DEF c
  <2>6. /\ k \in Nat /\ k * q <= c /\ c < (k + 1) * q /\ k < n - r
    BY <2>2, <2>4, <2>5, DivBounds
  <2> HIDE DEF k
  <2>7. /\ r + k \in 0 .. n - 1 /\ (r + k) + 1 \in 0 .. n
        /\ r + k >= r /\ (r + k) + 1 >= r
    BY <1>1, <2>6
  <2>8. /\ (r + k) * q = r * q + k * q
        /\ ((r + k) + 1) * q = r * q + (k + 1) * q
        /\ k * q \in Nat /\ (k + 1) * q \in Nat
    BY <1>1, <2>6, TimesNat
  <2>9. Prev(r + k) = (r * q + k * q) + r
    BY <1>2, <2>7, <2>8
  <2>10. Prev((r + k) + 1) = (r * q + (k + 1) * q) + r
    BY <1>2, <2>7, <2>8
  <2>11. Prev(r + k) <= b /\ b < Prev((r + k) + 1)
    BY <1>1, <2>1, <2>2, <2>6, <2>8, <2>9, <2>10
  <2> QED
    BY <2>7, <2>11 DEF Prev
<1> QED
  BY <1>4, <1>5

\* Every element belongs to a thread: its batch does, or it comes after the
\* last full batch and belongs to the last thread.
LEMMA PartsCover ==
  ASSUME NEW total \in Nat, NEW batch \in Nat \ {0}, NEW n \in Nat \ {0},
         NEW e \in 0 .. total - 1
  PROVE  \E i \in 0 .. n - 1 : e \in Part(total, batch, i, n)
<1> DEFINE all == total \div batch
           b == e \div batch
<1>1. all \in Nat /\ all * batch <= total /\ all * batch \in Nat
  BY Batches, TimesNat
<1>2. CASE e < all * batch
  <2>1. /\ b \in Nat /\ b * batch <= e /\ e < (b + 1) * batch /\ b < all
    BY <1>1, <1>2, DivBounds, e \in Nat
  <2>2. PICK i \in 0 .. n - 1 : /\ PreviousBatches(total, batch, i, n) <= b
                                /\ b < PreviousBatches(total, batch, i + 1, n)
    BY <2>1, BatchHasThread
  <2> DEFINE p == PreviousBatches(total, batch, i, n)
             p1 == PreviousBatches(total, batch, i + 1, n)
  <2>3. p \in Nat /\ p1 \in Nat
    BY PreviousMono, i \in 0 .. n, i + 1 \in 0 .. n, i <= i + 1
  <2>4. StartInd(total, batch, i, n) = p * batch
    BY DEF StartInd
  <2>5. i # n - 1 => EndInd(total, batch, i, n) = p1 * batch
    BY PartBounds DEF StartInd
  <2>6. i = n - 1 => EndInd(total, batch, i, n) = total
    BY DEF EndInd
  <2>7. /\ StartInd(total, batch, i, n) \in Nat /\ EndInd(total, batch, i, n) \in Nat
    BY PartBounds
  <2> HIDE DEF b, p, p1, all
  <2>8. p * batch <= b * batch /\ b * batch \in Nat
    BY <2>1, <2>2, <2>3, TimesMono, TimesNat DEF p
  <2>9. (b + 1) * batch <= p1 * batch /\ (b + 1) * batch \in Nat /\ p1 * batch \in Nat
    <3>1. b + 1 \in Nat /\ b + 1 <= p1
      BY <2>1, <2>2, <2>3 DEF p1
    <3> QED
      BY <2>3, <3>1, TimesMono, TimesNat
  <2>10. StartInd(total, batch, i, n) <= e
    BY <2>1, <2>4, <2>7, <2>8
  <2>11. e < EndInd(total, batch, i, n)
    BY <2>1, <2>5, <2>6, <2>7, <2>9
  <2> QED
    BY <2>7, <2>10, <2>11 DEF Part
<1>3. CASE ~(e < all * batch)
  <2> DEFINE p == PreviousBatches(total, batch, n - 1, n)
  <2>1. n - 1 \in 0 .. n - 1 /\ n - 1 \in 0 .. n /\ n \in 0 .. n /\ n - 1 <= n
    OBVIOUS
  <2>2. /\ p \in Nat
        /\ p <= PreviousBatches(total, batch, n, n)
        /\ PreviousBatches(total, batch, n, n) = all
    BY <2>1, PreviousMono
  <2>3. StartInd(total, batch, n - 1, n) = p * batch
    BY DEF StartInd
  <2>4. EndInd(total, batch, n - 1, n) = total
    BY DEF EndInd
  <2> HIDE DEF p, all
  <2>5. p * batch <= all * batch /\ p * batch \in Nat
    BY <1>1, <2>2, TimesMono, TimesNat
  <2>6. e \in Part(total, batch, n - 1, n)
    BY <1>1, <1>3, <2>3, <2>4, <2>5 DEF Part
  <2> QED
    BY <2>1, <2>6
<1> QED
  BY <1>2, <1>3

\* getThreadBatchBoundary divides a vector of any size: the parts lie inside
\* the vector and every element is in the part of exactly one thread.
THEOREM PartitionTheorem ==
  \A total \in Nat, batch \in Nat \ {0}, n \in Nat \ {0} :
    PartsPartition(total, batch, n)
<1> SUFFICES ASSUME NEW total \in Nat, NEW batch \in Nat \ {0}, NEW n \in Nat \ {0}
             PROVE  PartsPartition(total, batch, n)
  OBVIOUS
<1>1. ASSUME NEW i \in 0 .. n - 1
      PROVE  Part(total, batch, i, n) \subseteq 0 .. total - 1
  <2>1. /\ StartInd(total, batch, i, n) \in Nat
        /\ EndInd(total, batch, i, n) \in Nat
        /\ EndInd(total, batch, i, n) <= total
    BY PartBounds
  <2> QED
    BY <2>1 DEF Part
<1>2. ASSUME NEW e \in 0 .. total - 1
      PROVE  \E i \in 0 .. n - 1 :
               /\ e \in Part(total, batch, i, n)
               /\ \A j \in 0 .. n - 1 : e \in Part(total, batch, j, n) => j = i
  BY PartsCover, PartsDisjoint
<1> QED
  BY <1>1, <1>2 DEF PartsPartition

\* How many elements a thread gets: full batches, one more or less than others,
\* and the last thread what is left of the vector.
LEMMA PartLength ==
  ASSUME NEW total \in Nat, NEW batch \in Nat \ {0}, NEW n \in Nat \ {0},
         NEW i \in 0 .. n - 1
  PROVE  LET length == EndInd(total, batch, i, n) - StartInd(total, batch, i, n)
             full == ThreadBatches(total, batch, n) * batch
         IN  /\ full \in Nat /\ length \in Nat
             /\ full <= length /\ length < full + 2 * batch
             /\ i # n - 1 => length = full \/ length = full + batch
<1> DEFINE q == ThreadBatches(total, batch, n)
           r == RemainingBatches(total, batch, n)
           p == PreviousBatches(total, batch, i, n)
           this == ThisThreadBatches(total, batch, i, n)
           all == total \div batch
<1>1. q \in Nat /\ r \in 0 .. n - 1
  BY Batches
<1>2. p \in Nat /\ this \in Nat /\ p + this = PreviousBatches(total, batch, i + 1, n)
  BY PreviousStep
<1>3. this = IF i >= r THEN q ELSE q + 1
  BY DEF ThisThreadBatches
<1>4. /\ StartInd(total, batch, i, n) = p * batch
      /\ EndInd(total, batch, i, n) =
           IF i = n - 1 THEN total ELSE p * batch + this * batch
  BY DEF StartInd, EndInd
<1>5. /\ all \in Nat /\ total % batch \in 0 .. batch - 1
      /\ total = batch * all + (total % batch)
  BY DivMod
<1>6. i = n - 1 => p + this = all
  <2>1. n \in 0 .. n /\ n <= n
    OBVIOUS
  <2>2. PreviousBatches(total, batch, n, n) = all
    BY <2>1, PreviousMono
  <2> QED
    BY <1>2, <2>2
<1> HIDE DEF q, r, p, this, all
<1>7. /\ p * batch \in Nat /\ q * batch \in Nat
      /\ (q + 1) * batch = q * batch + batch
      /\ (p + this) * batch = p * batch + this * batch
  BY <1>1, <1>2, TimesNat
<1>8. this * batch = q * batch \/ this * batch = q * batch + batch
  BY <1>3, <1>7
<1>9. CASE i # n - 1
  BY <1>4, <1>7, <1>8, <1>9 DEF q
<1>10. CASE i = n - 1
  <2>1. this = q
    BY <1>1, <1>3, <1>10
  <2>2. total = p * batch + q * batch + (total % batch)
    <3>1. batch * all = (p + this) * batch
      BY <1>2, <1>5, <1>6, <1>10
    <3> QED
      BY <1>5, <1>7, <2>1, <3>1
  <2> QED
    BY <1>4, <1>5, <1>7, <1>10, <2>2 DEF q
<1> QED
  BY <1>9, <1>10

\* getThreadBatchBoundary is fair to the threads, whatever the size: all but the
\* last get full batches, and none two batches more than another.
THEOREM BalanceTheorem ==
  \A total \in Nat, batch \in Nat \ {0}, n \in Nat \ {0} :
    PartsBalanced(total, batch, n)
<1> SUFFICES ASSUME NEW total \in Nat, NEW batch \in Nat \ {0}, NEW n \in Nat \ {0},
                    NEW i \in 0 .. n - 1, NEW j \in 0 .. n - 1
             PROVE  /\ i # n - 1 =>
                         (EndInd(total, batch, i, n) - StartInd(total, batch, i, n)) % batch = 0
                    /\ EndInd(total, batch, i, n) - StartInd(total, batch, i, n)
                         < EndInd(total, batch, j, n) - StartInd(total, batch, j, n) + 2 * batch
  BY DEF PartsBalanced
<1> DEFINE q == ThreadBatches(total, batch, n)
           length(k) == EndInd(total, batch, k, n) - StartInd(total, batch, k, n)
<1>1. \A k \in 0 .. n - 1 :
        /\ q * batch \in Nat /\ length(k) \in Nat
        /\ q * batch <= length(k) /\ length(k) < q * batch + 2 * batch
        /\ k # n - 1 => length(k) = q * batch \/ length(k) = q * batch + batch
  BY PartLength
<1>2. q \in Nat
  BY Batches
<1> HIDE DEF q, length
<1>3. length(i) < length(j) + 2 * batch
  BY <1>1
<1>4. i # n - 1 => length(i) % batch = 0
  <2>1. /\ (q * batch) % batch = 0
        /\ (q * batch + batch) % batch = 0
    <3>1. /\ q * batch = batch * q + 0
          /\ q * batch + batch = batch * (q + 1) + 0
          /\ 0 \in 0 .. batch - 1 /\ q + 1 \in Int /\ q \in Int
          /\ q * batch \in Int /\ q * batch + batch \in Int
      BY <1>1, <1>2
    <3> QED
      BY <3>1, DivUnique
  <2> QED
    BY <1>1, <2>1
<1> QED
  BY <1>3, <1>4 DEF length
==============================================================================
