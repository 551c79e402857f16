---------------------------- MODULE Vectors_proofs ----------------------------
(***************************************************************************)
(* What views show and the threads assign to them, and the bits of a       *)
(* message, for vectors, batches, threads and views of views of any        *)
(* number.                                                                 *)
(***************************************************************************)
EXTENDS Vectors, Division_proofs, FiniteSetTheorems

\* An assignment to a part of a view leaves in every element what it held, if
\* the part does not show it, and otherwise what was assigned to an index that
\* shows it.
LEMMA Written ==
  ASSUME NEW vector, NEW v, NEW a \in Nat, NEW b \in Nat, NEW e \in DOMAIN vector
  PROVE  LET written == Write(vector, [n \in a .. b - 1 |-> v[n]], [n \in a .. b - 1 |-> n])
             shown == {n \in a .. b - 1 : v[n] = e}
         IN  /\ DOMAIN written = DOMAIN vector
             /\ shown = {} => written[e] = vector[e]
             /\ shown # {} => written[e] \in shown
<1> DEFINE window == a .. b - 1
           shown == {n \in window : v[n] = e}
           written == Write(vector, [n \in window |-> v[n]], [n \in window |-> n])
           last == CHOOSE n \in shown : \A other \in shown : other <= n
<1>1. {k \in DOMAIN [n \in window |-> v[n]] : [n \in window |-> v[n]][k] = e} = shown
  OBVIOUS
<1>2. DOMAIN written = DOMAIN vector
  BY DEF Write
<1>3. written[e] = IF shown = {} THEN vector[e] ELSE [n \in window |-> n][last]
  <2> DEFINE part == [n \in window |-> v[n]]
             values == [n \in window |-> n]
             at(x) == {n \in DOMAIN part : part[n] = x}
  <2>1. written = [x \in DOMAIN vector |->
                     IF at(x) = {} THEN vector[x]
                     ELSE values[CHOOSE n \in at(x) : \A other \in at(x) : other <= n]]
    BY DEF Write
  <2>2. at(e) = shown
    BY <1>1
  <2> HIDE DEF written, part, values, at
  <2>3. written[e] = IF at(e) = {} THEN vector[e]
                     ELSE values[CHOOSE n \in at(e) : \A other \in at(e) : other <= n]
    BY <2>1
  <2> HIDE DEF shown, window
  <2> QED
    BY <2>2, <2>3 DEF values
<1>4. shown # {} => last \in shown
  <2>1. shown \subseteq 0 .. b
    OBVIOUS
  <2> HIDE DEF shown
  <2>2. shown # {} => \E m \in shown : \A k \in shown : k <= m
    BY <2>1, Greatest
  <2> QED
    BY <2>2
<1>5. shown \subseteq window
  OBVIOUS
<1> HIDE DEF written, last
<1> QED
  BY <1>2, <1>3, <1>4, <1>5 DEF written

-----------------------------------------------------------------------------
\* A view has indices from zero up.
Indexed(v) == \E size \in Nat : DOMAIN v = 0 .. size - 1

LEMMA IndexedSize ==
  ASSUME NEW v, Indexed(v)
  PROVE  Size(v) \in Nat /\ DOMAIN v = 0 .. Size(v) - 1
<1>1. PICK size \in Nat : DOMAIN v = 0 .. size - 1
  BY DEF Indexed
<1>2. Cardinality(0 .. size - 1) = IF 0 > size - 1 THEN 0 ELSE (size - 1) - 0 + 1
  BY FS_Interval
<1> QED
  BY <1>1, <1>2 DEF Size

LEMMA IntervalIndexed ==
  ASSUME NEW size \in Int, NEW v, DOMAIN v = 0 .. size - 1
  PROVE  Indexed(v)
<1>1. CASE size >= 0
  BY <1>1 DEF Indexed
<1>2. CASE size < 0
  <2>1. 0 .. size - 1 = 0 .. 0 - 1
    BY <1>2
  <2> QED
    BY <2>1 DEF Indexed
<1> QED
  BY <1>1, <1>2

\* A view of a view has indices from zero up, too.
LEMMA TakeIndexed ==
  ASSUME NEW v, Indexed(v)
  PROVE  /\ \A start, end \in Int, step \in Nat \ {0} :
              Indexed(simple_subset_reference(v, start, step, end))
         /\ \A included \in Nat \ {0}, excluded \in Nat :
              /\ Indexed(alternating_subset_reference(v, included, excluded))
              /\ Indexed(reversed_alternating_subset_reference(v, included, excluded))
         /\ Indexed(directed_subset_reference(v))
         /\ \A times \in Nat : /\ Indexed(repeated_subset_reference(v, times))
                               /\ Indexed(cyclic_subset_reference(v, times))
<1>0. Size(v) \in Nat /\ DOMAIN v = 0 .. Size(v) - 1
  BY IndexedSize
<1>1. ASSUME NEW start \in Int, NEW end \in Int, NEW step \in Nat \ {0}
      PROVE  Indexed(simple_subset_reference(v, start, step, end))
  <2>1. (end - start) \div step \in Int
    BY DivModInt
  <2>2. Smaller(Size(v), (end - start) \div step + 1) \in Int
    BY <1>0, <2>1 DEF Smaller
  <2> QED
    BY <2>2, IntervalIndexed DEF simple_subset_reference
<1>2. ASSUME NEW included \in Nat \ {0}, NEW excluded \in Nat
      PROVE  /\ Indexed(alternating_subset_reference(v, included, excluded))
             /\ Indexed(reversed_alternating_subset_reference(v, included, excluded))
  <2>1. Included(Size(v), included, excluded) \in Int
    <3>1. included + excluded \in Nat \ {0}
      OBVIOUS
    <3>2. /\ Size(v) \div (included + excluded) \in Nat
          /\ Size(v) % (included + excluded) \in 0 .. (included + excluded) - 1
      BY <1>0, <3>1, DivMod
    <3>3. (Size(v) \div (included + excluded)) * included \in Nat
      BY <3>2, TimesNat
    <3> QED
      BY <3>2, <3>3 DEF Included, Smaller
  <2> QED
    BY <2>1, IntervalIndexed
    DEF alternating_subset_reference, reversed_alternating_subset_reference
<1>3. Indexed(directed_subset_reference(v))
  BY <1>0, IntervalIndexed DEF directed_subset_reference
<1>4. ASSUME NEW times \in Nat
      PROVE  /\ Indexed(repeated_subset_reference(v, times))
             /\ Indexed(cyclic_subset_reference(v, times))
  <2>1. Size(v) * times \in Nat
    BY <1>0, TimesNat
  <2> QED
    BY <2>1, IntervalIndexed DEF repeated_subset_reference, cyclic_subset_reference
<1> QED
  BY <1>1, <1>2, <1>3, <1>4

-----------------------------------------------------------------------------
(* What a view of a view shows.                                            *)

\* The view next has the elements that v has at the indices in S, each once and
\* in the order R.
Rearranges(next, v, S, R) ==
  \E at \in [DOMAIN next -> S] :
    /\ \A n \in DOMAIN next : next[n] = v[at[n]]
    /\ \A s \in S : \E n \in DOMAIN next : at[n] = s
    /\ \A n, m \in DOMAIN next : n < m => <<at[n], at[m]>> \in R

Ascending == {pair \in Nat \X Nat : pair[1] < pair[2]}
Descending == {pair \in Nat \X Nat : pair[1] > pair[2]}

\* Descending in a chunk of c elements, ascending from chunk to chunk.
ByChunks(c) ==
  {pair \in Nat \X Nat : IF pair[1] \div c = pair[2] \div c THEN pair[1] > pair[2]
                                                            ELSE pair[1] < pair[2]}

OneToOne(v) == \A n, m \in DOMAIN v : v[n] = v[m] => n = m

LEMMA Rearranged ==
  ASSUME NEW v, OneToOne(v), NEW next, DOMAIN next \subseteq Int, NEW S, S \subseteq DOMAIN v,
         NEW R, \A s \in S : <<s, s>> \notin R, Rearranges(next, v, S, R)
  PROVE  /\ OneToOne(next)
         /\ {next[n] : n \in DOMAIN next} = {v[s] : s \in S}
         /\ \A n, m \in DOMAIN next, s, t \in S :
              n < m /\ v[s] = next[n] /\ v[t] = next[m] => <<s, t>> \in R
<1>1. PICK at \in [DOMAIN next -> S] :
        /\ \A n \in DOMAIN next : next[n] = v[at[n]]
        /\ \A s \in S : \E n \in DOMAIN next : at[n] = s
        /\ \A n, m \in DOMAIN next : n < m => <<at[n], at[m]>> \in R
  BY DEF Rearranges
<1>2. \A n, m \in DOMAIN next : n < m => at[n] # at[m]
  BY <1>1
<1>3. \A n, m \in DOMAIN next : next[n] = next[m] => at[n] = at[m]
  BY <1>1 DEF OneToOne
<1>4. OneToOne(next)
  <2> SUFFICES ASSUME NEW n \in DOMAIN next, NEW m \in DOMAIN next, next[n] = next[m]
               PROVE  n = m
    BY DEF OneToOne
  <2>1. n \in Int /\ m \in Int
    OBVIOUS
  <2>2. ~(n < m) /\ ~(m < n)
    BY <1>2, <1>3
  <2> QED
    BY <2>1, <2>2
<1>5. \A n \in DOMAIN next, s \in S : v[s] = next[n] => s = at[n]
  BY <1>1 DEF OneToOne
<1> QED
  BY <1>1, <1>4, <1>5

\* The places of a number with digits in base c.
LEMMA Digits ==
  ASSUME NEW c \in Nat \ {0}, NEW a \in Nat, NEW b \in Nat, NEW i \in 0 .. c - 1, NEW j \in Nat
  PROVE  /\ a < b => a * c + i < b * c + j
         /\ a * c + i \in Nat
         /\ (a * c + i) \div c = a /\ (a * c + i) % c = i
<1>1. a * c \in Nat /\ b * c \in Nat /\ c * a = a * c
  BY TimesNat
<1>2. a < b => a * c + i < b * c + j
  <2> SUFFICES ASSUME a < b PROVE a * c + i < b * c + j
    OBVIOUS
  <2>1. (a + 1) * c <= b * c
    BY TimesMono
  <2>2. (a + 1) * c = a * c + c
    OBVIOUS
  <2> QED
    BY <1>1, <2>1, <2>2
<1>3. a * c + i \in Int /\ a * c + i = c * a + i
  BY <1>1
<1> QED
  BY <1>1, <1>2, <1>3, DivUnique

LEMMA SimpleRearranges ==
  ASSUME NEW v, Indexed(v), NEW start \in DOMAIN v, NEW end \in DOMAIN v, start <= end,
         NEW step \in Nat \ {0}
  PROVE  Rearranges(simple_subset_reference(v, start, step, end), v,
                    {n \in DOMAIN v : /\ n >= start /\ n <= end /\ (n - start) % step = 0},
                    Ascending)
<1> DEFINE last == (end - start) \div step
           S == {n \in DOMAIN v : /\ n >= start /\ n <= end /\ (n - start) % step = 0}
           next == simple_subset_reference(v, start, step, end)
           at == [n \in 0 .. last |-> start + n * step]
<1>1. Size(v) \in Nat /\ DOMAIN v = 0 .. Size(v) - 1
  BY IndexedSize
<1>2. start \in Nat /\ end \in Nat /\ end < Size(v) /\ end - start \in Nat
  BY <1>1
<1>3. last \in Nat /\ last * step <= end - start /\ end - start < last * step + step
  <2>1. last \in Nat /\ (end - start) % step \in 0 .. step - 1
        /\ end - start = step * last + ((end - start) % step)
    BY <1>2, DivMod
  <2>2. last * step = step * last /\ last * step \in Nat
    BY <2>1, TimesNat
  <2>3. PICK d \in Nat, r \in 0 .. step - 1, t \in Nat :
          d = last /\ r = (end - start) % step /\ t = last * step
    BY <2>1, <2>2
  <2> HIDE DEF last
  <2>4. end - start = t + r /\ r < step
    BY <2>1, <2>2, <2>3
  <2> QED
    BY <1>2, <2>1, <2>2, <2>3, <2>4
<1>4. last + 1 <= Size(v)
  <2>1. 1 * last <= step * last
    BY <1>3, TimesMono
  <2>2. step * last = last * step /\ 1 * last = last /\ last * step \in Nat
    BY <1>3, TimesNat
  <2>3. PICK d \in Nat, t \in Nat : d = last /\ t = last * step
    BY <1>3, <2>2
  <2> HIDE DEF last
  <2>4. d <= t /\ t <= end - start
    BY <1>3, <2>1, <2>2, <2>3
  <2>5. d + 1 <= Size(v)
    BY <1>1, <1>2, <2>4
  <2> QED
    BY <2>3, <2>5
<1> HIDE DEF last
<1>5. DOMAIN next = 0 .. last /\ \A n \in 0 .. last : next[n] = v[start + n * step]
  <2>1. Smaller(Size(v), last + 1) = last + 1
    BY <1>1, <1>3, <1>4 DEF Smaller
  <2>2. next = [n \in 0 .. (last + 1) - 1 |-> v[start + n * step]]
    BY <2>1 DEF last, simple_subset_reference
  <2> QED
    BY <1>3, <2>2
<1>6. ASSUME NEW n \in 0 .. last
      PROVE  start + n * step \in S
  <2>1. n \in Nat /\ n <= last /\ n * step \in Nat
    BY <1>3, TimesNat
  <2>2. n * step <= last * step
    BY <1>3, <2>1, TimesMono
  <2>3. (n * step) % step = 0
    <3>1. 0 \in 0 .. step - 1 /\ n * step + 0 = n * step
      BY <2>1
    <3> QED
      BY <2>1, <3>1, Digits
  <2>4. (start + n * step) - start = n * step /\ start + n * step <= end /\ start + n * step >= start
        /\ start + n * step \in Nat
    <3>1. last * step \in Nat
      BY <1>3, TimesNat
    <3> QED
      BY <1>2, <1>3, <2>1, <2>2, <3>1
  <2> QED
    BY <1>1, <1>2, <2>3, <2>4
<1>7. ASSUME NEW s \in S PROVE \E n \in 0 .. last : start + n * step = s
  <2>1. s \in Nat /\ s - start \in Nat /\ s <= end /\ (s - start) % step = 0
    BY <1>1, <1>2
  <2>2. PICK n \in Nat : n = (s - start) \div step
    BY <2>1, DivMod
  <2>3. s - start = n * step
    <3>1. s - start = step * n + 0
      BY <2>1, <2>2, DivMod
    <3> QED
      BY <2>1, <3>1
  <2>4. n <= last
    <3> SUFFICES ASSUME n > last PROVE FALSE
      BY <1>3, <2>2
    <3>1. (last + 1) * step <= n * step
      BY <1>3, <2>2, TimesMono
    <3>2. (last + 1) * step = last * step + step /\ last * step \in Nat
      BY <1>3, TimesNat
    <3> QED
      BY <1>2, <1>3, <2>1, <2>3, <3>1, <3>2
  <2> QED
    BY <1>2, <2>1, <2>2, <2>3, <2>4
<1>8. ASSUME NEW n \in 0 .. last, NEW m \in 0 .. last, n < m
      PROVE  <<start + n * step, start + m * step>> \in Ascending
  <2>1. n * step + 0 < m * step + 0
    BY <1>3, <1>8, Digits
  <2>2. n * step \in Nat /\ m * step \in Nat
    BY <1>3, TimesNat
  <2> QED
    BY <1>2, <2>1, <2>2 DEF Ascending
<1>9. at \in [DOMAIN next -> S]
  <2> HIDE DEF next, S
  <2> QED
    BY <1>5, <1>6
<1>10. /\ \A n \in DOMAIN next : next[n] = v[at[n]]
       /\ \A s \in S : \E n \in DOMAIN next : at[n] = s
       /\ \A n, m \in DOMAIN next : n < m => <<at[n], at[m]>> \in Ascending
  <2> HIDE DEF next, S
  <2> QED
    BY <1>5, <1>7, <1>8
<1> QED
  BY <1>9, <1>10 DEF Rearranges

\* A vector of size elements is cut into chunks of c, chunks 0 .. whole - 1 and
\* what is left; a view shows the first included ones of each, shown in all, and
\* length[q] of chunk q. Every index of the view and every included index of the
\* vector has one chunk and one place in it, and any chunk and place has both.
InChunks(size, included, c, whole, shown, length) ==
  /\ \A n \in 0 .. shown - 1 :
       /\ n \div included \in 0 .. whole
       /\ n % included \in 0 .. length[n \div included] - 1
       /\ n = (n \div included) * included + (n % included)
  /\ \A q \in 0 .. whole : length[q] \in 0 .. included
  /\ \A q \in 0 .. whole : \A i \in 0 .. length[q] - 1 :
       /\ q * included + i \in 0 .. shown - 1
       /\ (q * included + i) \div included = q /\ (q * included + i) % included = i
       /\ q * c + i \in 0 .. size - 1
       /\ (q * c + i) \div c = q /\ (q * c + i) % c = i
       /\ Smaller(q * c + included - 1, size - 1) = q * c + (length[q] - 1)
  /\ \A k \in 0 .. size - 1 : k % c < included =>
       /\ k \div c \in 0 .. whole /\ k % c \in 0 .. length[k \div c] - 1
       /\ k = (k \div c) * c + (k % c)

LEMMA ChunkDigits ==
  ASSUME NEW included \in Nat \ {0}, NEW c \in Nat \ {0}, included <= c,
         NEW whole \in Nat, NEW rest \in 0 .. c - 1, NEW size \in Nat, size = whole * c + rest,
         NEW short \in 0 .. included, short = Smaller(included, rest),
         NEW shown \in Nat, shown = whole * included + short,
         NEW length, \A q \in 0 .. whole : length[q] = (IF q < whole THEN included ELSE short)
  PROVE  InChunks(size, included, c, whole, shown, length)
<1>2. PICK full \in Nat : full = whole * c /\ size = full + rest
  BY TimesNat
<1>3. short <= rest /\ (short = included \/ short = rest)
  BY DEF Smaller
<1>4. PICK before \in Nat : before = whole * included /\ shown = before + short
  BY TimesNat
<1>5. \A q \in 0 .. whole : length[q] \in 0 .. included
  OBVIOUS
<1>6. ASSUME NEW n \in 0 .. shown - 1
      PROVE  /\ n \div included \in 0 .. whole
             /\ n % included \in 0 .. length[n \div included] - 1
             /\ n = (n \div included) * included + (n % included)
  <2>1. PICK q \in Nat, i \in 0 .. included - 1, t \in Nat :
          q = n \div included /\ i = n % included /\ t = q * included /\ n = t + i
    <3>0. n \in Nat
      BY <1>4
    <3>1. /\ n \in Nat /\ n \div included \in Nat /\ n % included \in 0 .. included - 1
          /\ n = included * (n \div included) + (n % included)
      BY <3>0, DivMod
    <3>2. (n \div included) * included = included * (n \div included)
          /\ (n \div included) * included \in Nat
      BY <3>1, TimesNat
    <3> QED
      BY <3>1, <3>2
  <2>2. q <= whole
    <3> SUFFICES ASSUME whole < q PROVE FALSE
      BY <2>1
    <3>1. (whole + 1) * included <= q * included
      BY <3>1, TimesMono
    <3>2. (whole + 1) * included = whole * included + included
      OBVIOUS
    <3>3. before + included <= t
      BY <1>4, <2>1, <3>1, <3>2
    <3>4. t + i < before + short
      BY <1>4, <2>1
    <3> QED
      BY <3>3, <3>4
  <2>3. q = whole => i < short
    <3> SUFFICES ASSUME q = whole PROVE i < short
      OBVIOUS
    <3>1. t = before /\ t + i < before + short
      BY <1>4, <2>1
    <3> QED
      BY <3>1
  <2>4. i \in 0 .. length[q] - 1
    BY <2>2, <2>3
  <2> QED
    BY <2>1, <2>2, <2>4
<1>7. ASSUME NEW q \in 0 .. whole, NEW i \in 0 .. length[q] - 1
      PROVE  /\ q * included + i \in 0 .. shown - 1
             /\ (q * included + i) \div included = q /\ (q * included + i) % included = i
             /\ q * c + i \in 0 .. size - 1
             /\ (q * c + i) \div c = q /\ (q * c + i) % c = i
             /\ Smaller(q * c + included - 1, size - 1) = q * c + (length[q] - 1)
  <2>1. q \in Nat /\ i \in 0 .. included - 1 /\ i \in 0 .. c - 1 /\ length[q] \in 0 .. included
        /\ length[q] >= 1
    BY <1>5
  <2>2. PICK t \in Nat, u \in Nat : t = q * included /\ u = q * c
    BY <2>1, TimesNat
  <2>3. CASE q < whole
    <3>1. /\ (q + 1) * included <= whole * included /\ (q + 1) * c <= whole * c
      BY <2>1, <2>3, TimesMono
    <3>2. (q + 1) * included = q * included + included /\ (q + 1) * c = q * c + c
      OBVIOUS
    <3>3. t + included <= before /\ u + c <= full
      BY <1>2, <1>4, <2>2, <3>1, <3>2
    <3>4. t + i \in 0 .. shown - 1 /\ u + i \in 0 .. size - 1 /\ u + included - 1 <= size - 1
      BY <1>2, <1>4, <2>1, <3>3
    <3>5. Smaller(u + included - 1, size - 1) = u + (included - 1)
      BY <3>4 DEF Smaller
    <3> QED
      BY <2>1, <2>2, <2>3, <3>4, <3>5, Digits
  <2>4. CASE ~(q < whole)
    <3>1. q = whole /\ length[q] = short
      BY <2>1, <2>4
    <3>2. t = before /\ u = full
      BY <1>2, <1>4, <2>2, <3>1
    <3>3. t + i \in 0 .. shown - 1 /\ u + i \in 0 .. size - 1
      BY <1>2, <1>3, <1>4, <2>1, <3>1, <3>2
    <3>4. Smaller(u + included - 1, size - 1) = u + (short - 1)
      <4>1. short = Smaller(included, rest) /\ size = u + rest
        BY <1>2, <1>3, <3>2
      <4> QED
        BY <4>1 DEF Smaller
    <3> QED
      BY <2>1, <2>2, <3>1, <3>3, <3>4, Digits
  <2> QED
    BY <2>3, <2>4
<1>8. ASSUME NEW k \in 0 .. size - 1, k % c < included
      PROVE  /\ k \div c \in 0 .. whole /\ k % c \in 0 .. length[k \div c] - 1
             /\ k = (k \div c) * c + (k % c)
  <2>1. PICK q \in Nat, i \in 0 .. c - 1, t \in Nat :
          q = k \div c /\ i = k % c /\ t = q * c /\ k = t + i
    <3>0. k \in Nat
      OBVIOUS
    <3>1. /\ k \in Nat /\ k \div c \in Nat /\ k % c \in 0 .. c - 1
          /\ k = c * (k \div c) + (k % c)
      BY <3>0, DivMod
    <3>2. (k \div c) * c = c * (k \div c) /\ (k \div c) * c \in Nat
      BY <3>1, TimesNat
    <3> QED
      BY <3>1, <3>2
  <2>2. i < included
    BY <1>8, <2>1
  <2>3. q <= whole
    <3> SUFFICES ASSUME whole < q PROVE FALSE
      BY <2>1
    <3>1. (whole + 1) * c <= q * c
      BY TimesMono
    <3>2. (whole + 1) * c = whole * c + c
      OBVIOUS
    <3>3. full + c <= t
      BY <1>2, <2>1, <3>1, <3>2
    <3>4. t + i < full + rest
      BY <1>2, <2>1
    <3> QED
      BY <3>3, <3>4
  <2>4. q = whole => i < short
    <3> SUFFICES ASSUME q = whole PROVE i < short
      OBVIOUS
    <3>1. t = full /\ t + i < full + rest
      BY <1>2, <2>1
    <3>2. i < rest
      BY <3>1
    <3> QED
      BY <1>3, <2>2, <3>2
  <2>5. i \in 0 .. length[q] - 1
    BY <2>2, <2>3, <2>4
  <2> QED
    BY <2>1, <2>3, <2>5
<1> QED
  BY <1>5, <1>6, <1>7, <1>8, Zenon DEF InChunks

LEMMA Chunks ==
  ASSUME NEW size \in Nat, NEW included \in Nat \ {0}, NEW excluded \in Nat
  PROVE  \E c \in Nat \ {0}, whole \in Nat, shown \in Nat :
           \E length \in [0 .. whole -> 0 .. included] :
             /\ c = included + excluded
             /\ shown = Included(size, included, excluded)
             /\ InChunks(size, included, c, whole, shown, length)
<1>1. PICK c \in Nat \ {0} : c = included + excluded /\ included <= c
  OBVIOUS
<1>2. PICK whole \in Nat, rest \in 0 .. c - 1 :
        whole = size \div c /\ rest = size % c /\ size = c * whole + rest
  BY DivMod
<1>3. PICK short \in 0 .. included : short = Smaller(included, rest)
  <2>1. \A a, b \in Nat : Smaller(a, b) \in 0 .. a
    BY DEF Smaller
  <2> QED
    BY <2>1
<1>4. PICK shown \in Nat : shown = whole * included + short
  <2>1. whole * included \in Nat
    BY TimesNat
  <2> QED
    BY <2>1
<1>5. shown = Included(size, included, excluded)
  BY <1>1, <1>2, <1>3, <1>4 DEF Included
<1>6. PICK length \in [0 .. whole -> 0 .. included] :
        \A q \in 0 .. whole : length[q] = (IF q < whole THEN included ELSE short)
  <2>1. [q \in 0 .. whole |-> IF q < whole THEN included ELSE short] \in [0 .. whole -> 0 .. included]
    OBVIOUS
  <2> QED
    BY <2>1
<1>7. size = whole * c + rest
  BY <1>2
<1>8. InChunks(size, included, c, whole, shown, length)
  BY <1>1, <1>3, <1>4, <1>6, <1>7, ChunkDigits
<1> QED
  BY <1>1, <1>5, <1>8

\* A view that has in each chunk the elements of the chunk, each turned to a place
\* that is turned back to its own, rearranges the included elements.
Turns(turn, whole, length) ==
  \A q \in 0 .. whole : \A i \in 0 .. length[q] - 1 :
    turn[q][i] \in 0 .. length[q] - 1 /\ turn[q][turn[q][i]] = i

Placed(next, v, turn, included, c, shown) ==
  /\ DOMAIN next = 0 .. shown - 1
  /\ \A n \in 0 .. shown - 1 :
       next[n] = v[(n \div included) * c + turn[n \div included][n % included]]

InOrder(R, turn, c, whole, length) ==
  \A q, r \in 0 .. whole : \A i \in 0 .. length[q] - 1, j \in 0 .. length[r] - 1 :
    (q < r \/ (q = r /\ i < j)) => <<q * c + turn[q][i], r * c + turn[r][j]>> \in R

LEMMA ChunksPlaced ==
  ASSUME NEW size \in Nat, NEW included \in Nat \ {0}, NEW c \in Nat \ {0}, NEW whole \in Nat,
         NEW shown \in Nat, NEW length \in [0 .. whole -> 0 .. included],
         InChunks(size, included, c, whole, shown, length), included <= c,
         NEW v, DOMAIN v = 0 .. size - 1, NEW next, NEW turn, NEW R,
         Turns(turn, whole, length), Placed(next, v, turn, included, c, shown),
         InOrder(R, turn, c, whole, length)
  PROVE  Rearranges(next, v, {k \in DOMAIN v : k % c < included}, R)
<1> DEFINE S == {k \in DOMAIN v : k % c < included}
           place(q, i) == q * c + turn[q][i]
           at == [n \in 0 .. shown - 1 |-> place(n \div included, n % included)]
<1>1. ASSUME NEW n \in 0 .. shown - 1
      PROVE  \E q \in 0 .. whole : \E i \in 0 .. length[q] - 1 :
               q = n \div included /\ i = n % included /\ n = q * included + i
  <2>1. /\ n \div included \in 0 .. whole
        /\ n % included \in 0 .. length[n \div included] - 1
        /\ n = (n \div included) * included + (n % included)
    BY Zenon DEF InChunks
  <2> QED
    BY <2>1, Zenon
<1>2. \A q \in 0 .. whole : \A i \in 0 .. length[q] - 1 :
        /\ q * included + i \in 0 .. shown - 1
        /\ (q * included + i) \div included = q /\ (q * included + i) % included = i
        /\ q * c + i \in 0 .. size - 1
        /\ (q * c + i) \div c = q /\ (q * c + i) % c = i
  BY Zenon DEF InChunks
<1>3. ASSUME NEW q \in 0 .. whole, NEW i \in 0 .. length[q] - 1
      PROVE  place(q, i) \in S
  <2>1. PICK j \in 0 .. length[q] - 1 : j = turn[q][i]
    BY DEF Turns
  <2>2. q * c + j \in 0 .. size - 1 /\ (q * c + j) % c = j
    BY <1>2
  <2>3. j < included
    <3>1. PICK l \in 0 .. included : l = length[q]
      OBVIOUS
    <3>2. j \in 0 .. l - 1
      BY <3>1
    <3> QED
      BY ONLY <3>2, l \in 0 .. included, included \in Nat
  <2> QED
    BY <2>1, <2>2, <2>3
<1>4. \A n \in 0 .. shown - 1 : at[n] \in S
  BY <1>1, <1>3
<1>5. ASSUME NEW s \in S PROVE \E n \in 0 .. shown - 1 : at[n] = s
  <2>1. PICK q \in 0 .. whole : q = s \div c /\ s % c \in 0 .. length[q] - 1 /\ s = q * c + (s % c)
    BY Zenon DEF InChunks
  <2>2. PICK j \in 0 .. length[q] - 1 : j = s % c /\ s = q * c + j
    BY <2>1
  <2>3. PICK i \in 0 .. length[q] - 1 : i = turn[q][j] /\ turn[q][i] = j
    BY DEF Turns
  <2>4. PICK n \in 0 .. shown - 1 : n = q * included + i /\ n \div included = q /\ n % included = i
    BY <1>2
  <2>5. at[n] = place(q, i)
    BY <2>4
  <2>6. place(q, i) = s
    BY <2>2, <2>3
  <2> QED
    BY <2>5, <2>6
<1>6. ASSUME NEW n \in 0 .. shown - 1, NEW m \in 0 .. shown - 1, n < m
      PROVE  <<at[n], at[m]>> \in R
  <2>1. PICK q \in 0 .. whole : \E i \in 0 .. length[q] - 1 :
          q = n \div included /\ i = n % included /\ n = q * included + i
    BY <1>1
  <2>2. PICK i \in 0 .. length[q] - 1 :
          q = n \div included /\ i = n % included /\ n = q * included + i
    BY <2>1
  <2>3. PICK r \in 0 .. whole : \E j \in 0 .. length[r] - 1 :
          r = m \div included /\ j = m % included /\ m = r * included + j
    BY <1>1
  <2>4. PICK j \in 0 .. length[r] - 1 :
          r = m \div included /\ j = m % included /\ m = r * included + j
    BY <2>3
  <2>5. at[n] = place(q, i) /\ at[m] = place(r, j)
    BY <2>2, <2>4
  <2>6. /\ q \in Nat /\ r \in Nat /\ i \in 0 .. included - 1 /\ j \in 0 .. included - 1 /\ j \in Nat
        /\ i \in Nat
    <3>1. PICK l \in 0 .. included, k \in 0 .. included : l = length[q] /\ k = length[r]
      OBVIOUS
    <3>2. i \in 0 .. l - 1 /\ j \in 0 .. k - 1
      BY <3>1
    <3>3. i \in 0 .. included - 1 /\ j \in 0 .. included - 1
      BY ONLY <3>2, l \in 0 .. included, k \in 0 .. included, included \in Nat
    <3> QED
      BY ONLY <3>3, q \in 0 .. whole, r \in 0 .. whole, whole \in Nat, included \in Nat
  <2>7. r < q => r * included + j < q * included + i
    BY <2>6, Digits
  <2>8. ~(r < q)
    <3>1. n \in Int /\ m \in Int
      OBVIOUS
    <3> QED
      BY <1>6, <2>2, <2>4, <2>7, <3>1
  <2>9. q < r \/ (q = r /\ i < j)
    <3> SUFFICES ASSUME q = r PROVE i < j
      BY <2>6, <2>8
    <3>1. PICK t \in Nat : t = q * included
      BY <2>6, TimesNat
    <3>2. t + i < t + j
      BY <1>6, <2>2, <2>4, <3>1
    <3> QED
      BY <2>6, <3>2
  <2>10. <<place(q, i), place(r, j)>> \in R
    BY <2>9 DEF InOrder
  <2> QED
    BY <2>5, <2>10
<1>7. DOMAIN next = 0 .. shown - 1 /\ at \in [DOMAIN next -> S]
  BY <1>4 DEF Placed
<1>8. \A n \in DOMAIN next : next[n] = v[at[n]]
  BY DEF Placed
<1> HIDE DEF at, S, place
<1>9. Rearranges(next, v, S, R)
  <2>1. /\ \A n \in DOMAIN next : next[n] = v[at[n]]
        /\ \A s \in S : \E n \in DOMAIN next : at[n] = s
        /\ \A n, m \in DOMAIN next : n < m => <<at[n], at[m]>> \in R
    BY <1>5, <1>6, <1>7, <1>8
  <2> QED
    BY <1>7, <2>1, Zenon DEF Rearranges
<1> QED
  BY <1>9 DEF S

LEMMA AlternatingRearranges ==
  ASSUME NEW v, Indexed(v), NEW included \in Nat \ {0}, NEW excluded \in Nat
  PROVE  Rearranges(alternating_subset_reference(v, included, excluded), v,
                    {n \in DOMAIN v : n % (included + excluded) < included}, Ascending)
<1> DEFINE next == alternating_subset_reference(v, included, excluded)
<1>1. Size(v) \in Nat /\ DOMAIN v = 0 .. Size(v) - 1
  BY IndexedSize
<1>2. PICK c \in Nat \ {0}, whole \in Nat, shown \in Nat :
        \E length \in [0 .. whole -> 0 .. included] :
          /\ c = included + excluded
          /\ shown = Included(Size(v), included, excluded)
          /\ InChunks(Size(v), included, c, whole, shown, length)
  BY <1>1, Chunks
<1>3. PICK length \in [0 .. whole -> 0 .. included] :
        /\ c = included + excluded
        /\ shown = Included(Size(v), included, excluded)
        /\ InChunks(Size(v), included, c, whole, shown, length)
  BY <1>2
<1>4. PICK turn : turn = [q \in 0 .. whole |-> [i \in 0 .. length[q] - 1 |-> i]]
  OBVIOUS
<1>5. \A q \in 0 .. whole : \A i \in 0 .. length[q] - 1 : turn[q][i] = i
  BY <1>4
<1>6. included <= c
  BY <1>3
<1>7. DOMAIN next = 0 .. shown - 1
  BY <1>3 DEF alternating_subset_reference
<1>8. \A n \in 0 .. shown - 1 :
        next[n] = v[(n \div included) * c + turn[n \div included][n % included]]
  <2> SUFFICES ASSUME NEW n \in 0 .. shown - 1
               PROVE  next[n] = v[(n \div included) * c + turn[n \div included][n % included]]
    OBVIOUS
  <2>1. n \div included \in 0 .. whole /\ n % included \in 0 .. length[n \div included] - 1
    BY <1>3, Zenon DEF InChunks
  <2>2. turn[n \div included][n % included] = n % included
    BY <1>5, <2>1, Zenon
  <2>3. next[n] = v[(n \div included) * c + (n % included)]
    BY <1>3 DEF alternating_subset_reference
  <2> QED
    BY <2>2, <2>3
<1>9. ASSUME NEW q \in 0 .. whole, NEW r \in 0 .. whole,
             NEW i \in 0 .. length[q] - 1, NEW j \in 0 .. length[r] - 1,
             q < r \/ (q = r /\ i < j)
      PROVE  <<q * c + turn[q][i], r * c + turn[r][j]>> \in Ascending
  <2>1. turn[q][i] = i /\ turn[r][j] = j
    BY <1>5
  <2>2. i \in 0 .. c - 1 /\ j \in 0 .. c - 1 /\ j \in Nat /\ q \in Nat /\ r \in Nat /\ i \in Nat
    <3>1. PICK l \in 0 .. included, k \in 0 .. included : l = length[q] /\ k = length[r]
      OBVIOUS
    <3>2. i \in 0 .. l - 1 /\ j \in 0 .. k - 1
      BY <3>1
    <3>3. i \in 0 .. included - 1 /\ j \in 0 .. included - 1
      BY ONLY <3>2, l \in 0 .. included, k \in 0 .. included, included \in Nat
    <3> QED
      BY ONLY <1>6, <3>3, q \in 0 .. whole, r \in 0 .. whole, whole \in Nat, included \in Nat,
              c \in Nat
  <2>3. q * c + i \in Nat /\ r * c + j \in Nat /\ (q < r => q * c + i < r * c + j)
    BY <2>2, Digits
  <2>4. q = r => q * c + i < r * c + j
    <3>1. PICK t \in Nat : t = q * c
      BY <2>2, TimesNat
    <3>2. q = r => i < j
      BY <1>9, <2>2
    <3>3. q = r => t + i < t + j
      BY <2>2, <3>2
    <3> QED
      BY <3>1, <3>3
  <2>5. q * c + i < r * c + j
    BY <1>9, <2>3, <2>4
  <2> QED
    BY <2>1, <2>3, <2>5 DEF Ascending
<1>10. Turns(turn, whole, length)
  BY <1>5 DEF Turns
<1> HIDE DEF next
<1>11. InOrder(Ascending, turn, c, whole, length)
  BY <1>9 DEF InOrder
<1>12. PICK size \in Nat : size = Size(v)
  BY <1>1
<1>13. DOMAIN v = 0 .. size - 1 /\ InChunks(size, included, c, whole, shown, length)
  BY <1>1, <1>3, <1>12
<1>14. Placed(next, v, turn, included, c, shown)
  BY <1>7, <1>8, Zenon DEF Placed
<1>15. Rearranges(next, v, {k \in DOMAIN v : k % c < included}, Ascending)
  BY <1>13, <1>6, <1>10, <1>11, <1>14, ChunksPlaced
<1> QED
  BY <1>3, <1>15 DEF next

LEMMA DirectedRearranges ==
  ASSUME NEW v, Indexed(v)
  PROVE  Rearranges(directed_subset_reference(v), v, DOMAIN v, Descending)
<1> DEFINE next == directed_subset_reference(v)
<1>1. PICK size \in Nat : size = Size(v) /\ DOMAIN v = 0 .. size - 1
  BY IndexedSize
<1>2. PICK at \in [0 .. size - 1 -> 0 .. size - 1] : at = [n \in 0 .. size - 1 |-> size - 1 - n]
  <2>1. \A n \in 0 .. size - 1 : size - 1 - n \in 0 .. size - 1
    OBVIOUS
  <2> QED
    BY <2>1
<1>3. DOMAIN next = 0 .. size - 1 /\ \A n \in 0 .. size - 1 : next[n] = v[at[n]]
  BY <1>1, <1>2 DEF directed_subset_reference
<1>4. ASSUME NEW s \in 0 .. size - 1 PROVE \E n \in 0 .. size - 1 : at[n] = s
  <2>1. size - 1 - s \in 0 .. size - 1 /\ size - 1 - (size - 1 - s) = s
    OBVIOUS
  <2> QED
    BY <1>2, <2>1
<1>5. \A n, m \in 0 .. size - 1 : n < m => <<at[n], at[m]>> \in Descending
  <2> SUFFICES ASSUME NEW n \in 0 .. size - 1, NEW m \in 0 .. size - 1, n < m
               PROVE  <<at[n], at[m]>> \in Descending
    OBVIOUS
  <2>1. at[n] = size - 1 - n /\ at[m] = size - 1 - m
    BY <1>2
  <2> QED
    BY <2>1 DEF Descending
<1> HIDE DEF next
<1>6. at \in [DOMAIN next -> DOMAIN v]
  BY <1>1, <1>2, <1>3
<1>7. /\ \A n \in DOMAIN next : next[n] = v[at[n]]
      /\ \A s \in DOMAIN v : \E n \in DOMAIN next : at[n] = s
      /\ \A n, m \in DOMAIN next : n < m => <<at[n], at[m]>> \in Descending
  BY <1>1, <1>3, <1>4, <1>5
<1>8. Rearranges(next, v, DOMAIN v, Descending)
  BY <1>6, <1>7, Zenon DEF Rearranges
<1> QED
  BY <1>8 DEF next

LEMMA ReversedRearranges ==
  ASSUME NEW v, Indexed(v), NEW included \in Nat \ {0}, NEW excluded \in Nat
  PROVE  Rearranges(reversed_alternating_subset_reference(v, included, excluded), v,
                    {n \in DOMAIN v : n % (included + excluded) < included},
                    ByChunks(included + excluded))
<1> DEFINE next == reversed_alternating_subset_reference(v, included, excluded)
<1>1. Size(v) \in Nat /\ DOMAIN v = 0 .. Size(v) - 1
  BY IndexedSize
<1>2. PICK c \in Nat \ {0}, whole \in Nat, shown \in Nat :
        \E length \in [0 .. whole -> 0 .. included] :
          /\ c = included + excluded
          /\ shown = Included(Size(v), included, excluded)
          /\ InChunks(Size(v), included, c, whole, shown, length)
  BY <1>1, Chunks
<1>3. PICK length \in [0 .. whole -> 0 .. included] :
        /\ c = included + excluded
        /\ shown = Included(Size(v), included, excluded)
        /\ InChunks(Size(v), included, c, whole, shown, length)
  BY <1>2
<1>4. PICK turn : turn = [q \in 0 .. whole |-> [i \in 0 .. length[q] - 1 |-> length[q] - 1 - i]]
  OBVIOUS
<1>5. \A q \in 0 .. whole : \A i \in 0 .. length[q] - 1 : turn[q][i] = length[q] - 1 - i
  BY <1>4
<1>6. included <= c
  BY <1>3
<1>7. DOMAIN next = 0 .. shown - 1
  BY <1>3 DEF reversed_alternating_subset_reference
<1>8. \A n \in 0 .. shown - 1 :
        next[n] = v[(n \div included) * c + turn[n \div included][n % included]]
  <2> SUFFICES ASSUME NEW n \in 0 .. shown - 1
               PROVE  next[n] = v[(n \div included) * c + turn[n \div included][n % included]]
    OBVIOUS
  <2>1. PICK q \in 0 .. whole : q = n \div included /\ n % included \in 0 .. length[q] - 1
    BY <1>3, Zenon DEF InChunks
  <2>2. PICK i \in 0 .. length[q] - 1 : i = n % included
    BY <2>1
  <2>3. turn[q][i] = length[q] - 1 - i
    BY <1>5
  <2>4. Smaller(q * c + included - 1, Size(v) - 1) = q * c + (length[q] - 1)
    BY <1>3, Zenon DEF InChunks
  <2>5. next[n] = v[Smaller(q * c + included - 1, Size(v) - 1) - i]
    BY <1>3, <2>1, <2>2 DEF reversed_alternating_subset_reference
  <2>6. (q * c + (length[q] - 1)) - i = q * c + (length[q] - 1 - i)
    <3>1. PICK l \in 0 .. included : l = length[q]
      OBVIOUS
    <3>2. PICK t \in Nat : t = q * c
      BY TimesNat
    <3>3. i \in 0 .. l - 1
      BY <3>1
    <3>4. (t + (l - 1)) - i = t + (l - 1 - i)
      BY <3>3
    <3> QED
      BY <3>1, <3>2, <3>4
  <2> QED
    BY <2>1, <2>2, <2>3, <2>4, <2>5, <2>6
<1>9. ASSUME NEW q \in 0 .. whole, NEW r \in 0 .. whole,
             NEW i \in 0 .. length[q] - 1, NEW j \in 0 .. length[r] - 1,
             q < r \/ (q = r /\ i < j)
      PROVE  <<q * c + turn[q][i], r * c + turn[r][j]>> \in ByChunks(c)
  <2>1. PICK l \in 0 .. included, k \in 0 .. included : l = length[q] /\ k = length[r]
    OBVIOUS
  <2>2. i \in 0 .. l - 1 /\ j \in 0 .. k - 1
    BY <2>1
  <2>3. PICK a \in 0 .. c - 1, b \in 0 .. c - 1 : a = l - 1 - i /\ b = k - 1 - j
    <3>1. l - 1 - i \in 0 .. c - 1 /\ k - 1 - j \in 0 .. c - 1
      BY ONLY <1>6, <2>2, l \in 0 .. included, k \in 0 .. included, included \in Nat, c \in Nat
    <3> QED
      BY <3>1
  <2>4. turn[q][i] = a /\ turn[r][j] = b
    BY <1>5, <2>1, <2>3
  <2>5. q \in Nat /\ r \in Nat /\ a \in Nat /\ b \in Nat
    OBVIOUS
  <2>6. /\ q * c + a \in Nat /\ (q * c + a) \div c = q
        /\ q < r => q * c + a < r * c + b
    BY <2>5, Digits
  <2>7. r * c + b \in Nat /\ (r * c + b) \div c = r
    BY <2>5, Digits
  <2>8. q = r => q * c + a > r * c + b
    <3>1. PICK t \in Nat : t = q * c
      BY <2>5, TimesNat
    <3>2. q = r => i < j /\ l = k
      BY <1>9, <2>1, <2>5
    <3>3. q = r => a > b
      BY ONLY <2>2, <2>3, <3>2, l \in 0 .. included, k \in 0 .. included, included \in Nat
    <3>4. q = r => t + a > t + b
      BY <2>5, <3>3
    <3> QED
      BY <3>1, <3>4
  <2>9. PICK x \in Nat, y \in Nat : x = q * c + a /\ y = r * c + b
    BY <2>6, <2>7
  <2>10. x \div c = q /\ y \div c = r /\ (q < r => x < y) /\ (q = r => x > y)
    BY <2>6, <2>7, <2>8, <2>9
  <2>11. IF x \div c = y \div c THEN x > y ELSE x < y
    <3>1. CASE q = r
      BY <2>10, <3>1
    <3>2. CASE q # r
      <4>1. q < r
        BY <1>9, <3>2
      <4> QED
        BY <2>10, <3>2, <4>1
    <3> QED
      BY <3>1, <3>2
  <2>12. <<x, y>> \in ByChunks(c)
    BY <2>11 DEF ByChunks
  <2> QED
    BY <2>4, <2>9, <2>12
<1>10. Turns(turn, whole, length)
  <2> SUFFICES ASSUME NEW q \in 0 .. whole, NEW i \in 0 .. length[q] - 1
               PROVE  turn[q][i] \in 0 .. length[q] - 1 /\ turn[q][turn[q][i]] = i
    BY DEF Turns
  <2>1. PICK l \in 0 .. included : l = length[q]
    OBVIOUS
  <2>2. i \in 0 .. l - 1
    BY <2>1
  <2>3. l - 1 - i \in 0 .. l - 1 /\ l - 1 - (l - 1 - i) = i
    BY <2>2
  <2> QED
    BY <1>5, <2>1, <2>2, <2>3
<1> HIDE DEF next
<1>11. InOrder(ByChunks(c), turn, c, whole, length)
  BY <1>9 DEF InOrder
<1>12. PICK size \in Nat : size = Size(v)
  BY <1>1
<1>13. DOMAIN v = 0 .. size - 1 /\ InChunks(size, included, c, whole, shown, length)
  BY <1>1, <1>3, <1>12
<1>14. Placed(next, v, turn, included, c, shown)
  BY <1>7, <1>8, Zenon DEF Placed
<1>15. Rearranges(next, v, {k \in DOMAIN v : k % c < included}, ByChunks(c))
  BY <1>13, <1>6, <1>10, <1>11, <1>14, ChunksPlaced
<1> QED
  BY <1>3, <1>15 DEF next

-----------------------------------------------------------------------------
\* The inductive invariant: what is known of the sizes, that nothing is
\* assigned before the call, and that a thread is not before its part.
SizesInv ==
  /\ Indexed(view)
  /\ batch_size \in Nat \ {0}
  /\ threads_num \in Nat \ {0}

PosInv ==
  /\ pos = <<>> => \A e \in DOMAIN elements : elements[e] = Unassigned
  /\ pos # <<>> =>
       /\ pos \in [Threads -> Nat]
       /\ \A t \in Threads : StartInd(Size(view), batch_size, t, threads_num) <= pos[t]

IInv == SizesInv /\ PosInv /\ AssignedThroughView

LEMMA PartNats ==
  ASSUME SizesInv, NEW t \in Threads
  PROVE  /\ StartInd(Size(view), batch_size, t, threads_num) \in Nat
         /\ End(t) \in Nat
BY IndexedSize, PartBounds DEF SizesInv, Threads, End

LEMMA InitIInv == Init => IInv
<1> SUFFICES ASSUME Init PROVE IInv
  OBVIOUS
<1>1. SizesInv
  BY VectorsAssumption DEF Init, SizesInv, Indexed, Whole
<1>2. PosInv /\ AssignedThroughView
  BY DEF Init, PosInv, AssignedThroughView
<1> QED
  BY <1>1, <1>2 DEF IInv

\* Views are taken before the call: whatever they are, nothing is assigned.
LEMMA StepTake ==
  ASSUME IInv, NEW op, NEW arguments, NEW next, Indexed(next), Take(op, arguments, next)
  PROVE  IInv'
<1>1. SizesInv'
  BY DEF Take, IInv, SizesInv
<1>2. PosInv' /\ AssignedThroughView'
  BY DEF Take, IInv, PosInv, AssignedThroughView
<1> QED
  BY <1>1, <1>2 DEF IInv

LEMMA StepModifyParallel ==
  ASSUME IInv, ModifyParallel
  PROVE  IInv'
<1>1. SizesInv'
  BY DEF ModifyParallel, IInv, SizesInv, Indexed
<1>2. \A t \in Threads : StartInd(Size(view), batch_size, t, threads_num) \in Nat
  BY PartNats DEF IInv
<1>3. /\ pos' \in [Threads -> Nat]
      /\ \A t \in Threads : pos'[t] = StartInd(Size(view), batch_size, t, threads_num)
  BY <1>2 DEF ModifyParallel
<1>4. /\ UNCHANGED <<elements, view, batch_size, threads_num>>
      /\ \A e \in DOMAIN elements : elements[e] = Unassigned
      /\ Threads' = Threads
  BY DEF ModifyParallel, IInv, PosInv, Threads
<1>5. PosInv'
  BY <1>2, <1>3, <1>4 DEF PosInv
<1>6. AssignedThroughView'
  <2>1. \A t \in Threads :
          StartInd(Size(view), batch_size, t, threads_num) .. pos'[t] - 1 = {}
    BY <1>2, <1>3
  <2>2. UNION {StartInd(Size(view), batch_size, t, threads_num) .. pos'[t] - 1 : t \in Threads} = {}
    BY <2>1
  <2> QED
    BY <1>4, <2>2 DEF AssignedThroughView
<1> QED
  BY <1>1, <1>5, <1>6 DEF IInv

LEMMA StepAssignBatch ==
  ASSUME IInv, NEW t \in Threads, AssignBatch(t)
  PROVE  IInv'
<1> DEFINE start(u) == StartInd(Size(view), batch_size, u, threads_num)
           stop == BatchEnd(pos[t], batch_size, End(t))
           batch == pos[t] .. stop - 1
           done == UNION {start(u) .. pos[u] - 1 : u \in Threads}
<1>1. SizesInv'
  BY DEF AssignBatch, IInv, SizesInv, Indexed
<1>2. /\ pos \in [Threads -> Nat]
      /\ \A u \in Threads : start(u) <= pos[u] /\ start(u) \in Nat
      /\ End(t) \in Nat /\ pos[t] < End(t) /\ batch_size \in Nat \ {0}
  BY PartNats DEF AssignBatch, IInv, PosInv, SizesInv
<1>3. /\ elements' = Write(elements, [n \in batch |-> view[n]], [n \in batch |-> n])
      /\ pos' = [pos EXCEPT ![t] = stop]
      /\ UNCHANGED <<view, batch_size, threads_num>>
      /\ pos # <<>>
  BY DEF AssignBatch, Window
<1>4. stop \in Nat /\ pos[t] < stop
  BY <1>2 DEF BatchEnd
<1>5. /\ pos' \in [Threads -> Nat] /\ pos'[t] = stop
      /\ \A u \in Threads \ {t} : pos'[u] = pos[u]
  BY <1>2, <1>3, <1>4
<1> HIDE DEF stop
<1>6. \A e \in DOMAIN elements :
        LET shown == {n \in batch : view[n] = e}
        IN  /\ shown = {} => elements'[e] = elements[e]
            /\ shown # {} => elements'[e] \in shown
  <2> TAKE e \in DOMAIN elements
  <2> DEFINE shown == {n \in batch : view[n] = e}
             written == Write(elements, [n \in batch |-> view[n]], [n \in batch |-> n])
  <2>1. pos[t] \in Nat /\ stop \in Nat
    BY <1>2, <1>4
  <2>2. (shown = {} => written[e] = elements[e]) /\ (shown # {} => written[e] \in shown)
    <3> HIDE DEF batch
    <3>1. batch = pos[t] .. stop - 1
      BY DEF batch
    <3> QED
      BY <2>1, <3>1, Written
  <2> QED
    BY <1>3, <2>2
<1>7. DOMAIN elements' = DOMAIN elements
  BY <1>3 DEF Write
<1>8. PosInv'
  <2>1. pos' # <<>>
    BY <1>5
  <2>2. \A u \in Threads : start(u) <= pos'[u]
    BY <1>2, <1>4, <1>5
  <2> QED
    BY <1>3, <1>5, <2>1, <2>2 DEF PosInv, Threads
<1>9. UNION {start(u) .. pos'[u] - 1 : u \in Threads} = done \cup batch
  <2>1. start(t) .. pos'[t] - 1 = (start(t) .. pos[t] - 1) \cup batch
    BY <1>2, <1>4, <1>5
  <2>2. \A u \in Threads \ {t} : start(u) .. pos'[u] - 1 = start(u) .. pos[u] - 1
    BY <1>5
  <2> HIDE DEF start, batch
  <2>3. \A x : x \in UNION {start(u) .. pos'[u] - 1 : u \in Threads}
                 <=> x \in done \/ x \in batch
    BY <2>1, <2>2
  <2> QED
    BY <2>3
<1>10. \A e \in DOMAIN elements :
         LET showing == {n \in done : view[n] = e}
         IN  IF showing = {} THEN elements[e] = Unassigned ELSE elements[e] \in showing
  BY <1>3 DEF IInv, AssignedThroughView
<1>11. \A e \in DOMAIN elements :
         LET showing == {n \in done \cup batch : view[n] = e}
         IN  IF showing = {} THEN elements'[e] = Unassigned ELSE elements'[e] \in showing
  <2> HIDE DEF done, batch
  <2> TAKE e \in DOMAIN elements
  <2>1. {n \in done \cup batch : view[n] = e}
          = {n \in done : view[n] = e} \cup {n \in batch : view[n] = e}
    OBVIOUS
  <2>2. CASE {n \in batch : view[n] = e} = {}
    BY <1>6, <1>10, <2>1, <2>2
  <2>3. CASE {n \in batch : view[n] = e} # {}
    BY <1>6, <2>1, <2>3
  <2> QED
    BY <2>2, <2>3
<1>12. AssignedThroughView'
  <2> HIDE DEF done, batch
  <2>1. Threads' = Threads /\ view' = view
    BY <1>3 DEF Threads
  <2>2. UNION {StartInd(Size(view'), batch_size', u, threads_num') .. pos'[u] - 1 : u \in Threads'}
          = done \cup batch
    BY <1>3, <1>9, <2>1
  <2> QED
    BY <1>7, <1>11, <2>1, <2>2 DEF AssignedThroughView
<1> QED
  BY <1>1, <1>8, <1>12 DEF IInv

LEMMA StepIInv == IInv /\ [Next]_vars => IInv'
<1> SUFFICES ASSUME IInv, [Next]_vars PROVE IInv'
  OBVIOUS
<1>0. Indexed(view)
  BY DEF IInv, SizesInv
<1>1. CASE Simple
  <2>1. PICK start \in DOMAIN view, end \in DOMAIN view, step \in 1 .. 3 :
          Take("simple", <<start, step, end>>, simple_subset_reference(view, start, step, end))
    BY <1>1 DEF Simple
  <2>2. start \in Int /\ end \in Int /\ step \in Nat \ {0}
    BY <1>0 DEF Indexed
  <2> QED
    BY <1>0, <2>1, <2>2, TakeIndexed, StepTake
<1>2. CASE Alternating
  <2>1. PICK included \in 1 .. 3, excluded \in 0 .. 2 :
          Take("alternating", <<included, excluded>>,
               alternating_subset_reference(view, included, excluded))
    BY <1>2 DEF Alternating
  <2>2. Indexed(alternating_subset_reference(view, included, excluded))
    BY <1>0, TakeIndexed
  <2> QED
    BY <2>1, <2>2, StepTake
<1>3. CASE ReversedAlternating
  <2>1. PICK included \in 1 .. 3, excluded \in 0 .. 2 :
          Take("reversed", <<included, excluded>>,
               reversed_alternating_subset_reference(view, included, excluded))
    BY <1>3 DEF ReversedAlternating
  <2>2. Indexed(reversed_alternating_subset_reference(view, included, excluded))
    BY <1>0, TakeIndexed
  <2> QED
    BY <2>1, <2>2, StepTake
<1>4. CASE Directed
  BY <1>0, <1>4, TakeIndexed, StepTake DEF Directed
<1>5. CASE Repeated
  BY <1>0, <1>5, TakeIndexed, StepTake DEF Repeated
<1>6. CASE Cyclic
  BY <1>0, <1>6, TakeIndexed, StepTake DEF Cyclic
<1>7. CASE ModifyParallel
  BY <1>7, StepModifyParallel
<1>8. ASSUME NEW t \in Threads, AssignBatch(t)
      PROVE  IInv'
  BY <1>8, StepAssignBatch
<1>9. CASE UNCHANGED vars
  <2>1. SizesInv' /\ PosInv'
    BY <1>9 DEF vars, IInv, SizesInv, PosInv, Indexed, Threads
  <2>2. AssignedThroughView'
    BY <1>9 DEF vars, IInv, AssignedThroughView, Threads
  <2> QED
    BY <2>1, <2>2 DEF IInv
<1> QED
  BY <1>1, <1>2, <1>3, <1>4, <1>5, <1>6, <1>7, <1>8, <1>9 DEF Next, Done

THEOREM Invariance == Spec => []IInv
BY InitIInv, StepIInv, PTL DEF Spec

\* modify_parallel of an assignment to any view of any vector: at any time, what
\* the threads have done of it is what has been assigned.
THEOREM AssignmentTheorem == Spec => []AssignedThroughView
<1>1. IInv => AssignedThroughView
  BY DEF IInv
<1> QED
  BY <1>1, Invariance, PTL

\* The threads of any call divide the view between them, each element to one
\* thread.
THEOREM DivisionOfViews == Spec => []Partition
<1>1. IInv => Partition
  <2> SUFFICES ASSUME IInv PROVE Partition
    OBVIOUS
  <2>1. Size(view) \in Nat /\ batch_size \in Nat \ {0} /\ threads_num \in Nat \ {0}
    BY IndexedSize DEF IInv, SizesInv
  <2> QED
    BY <2>1, PartitionTheorem DEF Partition
<1> QED
  BY <1>1, Invariance, PTL

\* And none of them gets two batches more than another.
THEOREM BalanceOfViews == Spec => []Balanced
<1>1. IInv => Balanced
  <2> SUFFICES ASSUME IInv PROVE Balanced
    OBVIOUS
  <2>1. Size(view) \in Nat /\ batch_size \in Nat \ {0} /\ threads_num \in Nat \ {0}
    BY IndexedSize DEF IInv, SizesInv
  <2> QED
    BY <2>1, BalanceTheorem DEF Balanced
<1> QED
  BY <1>1, Invariance, PTL

-----------------------------------------------------------------------------
(* What the views show.                                                    *)

\* Every element of the view next is one of v.
Comes(next, v) == \A n \in DOMAIN next : \E m \in DOMAIN v : next[n] = v[m]

LEMMA RearrangedComes ==
  ASSUME NEW v, NEW next, NEW S, S \subseteq DOMAIN v, NEW R, Rearranges(next, v, S, R)
  PROVE  Comes(next, v)
BY DEF Rearranges, Comes

LEMMA RepeatedComes ==
  ASSUME NEW v, Indexed(v)
  PROVE  Comes(repeated_subset_reference(v, 2), v) /\ Comes(cyclic_subset_reference(v, 2), v)
<1>1. PICK size \in Nat : size = Size(v) /\ DOMAIN v = 0 .. size - 1
  BY IndexedSize
<1>2. ASSUME NEW n \in 0 .. size * 2 - 1
      PROVE  n \div 2 \in 0 .. size - 1 /\ n % size \in 0 .. size - 1
  <2>1. n \in Nat /\ size \in Nat \ {0}
    OBVIOUS
  <2>2. n \div 2 \in 0 .. size - 1
    BY <2>1
  <2>3. n % size \in 0 .. size - 1
    BY <2>1, DivMod
  <2> QED
    BY <2>2, <2>3
<1>3. Comes(repeated_subset_reference(v, 2), v)
  BY <1>1, <1>2 DEF Comes, repeated_subset_reference
<1>4. Comes(cyclic_subset_reference(v, 2), v)
  BY <1>1, <1>2 DEF Comes, cyclic_subset_reference
<1> QED
  BY <1>3, <1>4

LEMMA InitViewsShow == Init => ViewsShow
<1> SUFFICES ASSUME Init PROVE ViewsShow
  OBVIOUS
<1>1. PICK size \in Sizes :
        elements = [e \in 0 .. size - 1 |-> Unassigned] /\ view = Whole(size)
  BY DEF Init
<1>2. taken.op = "whole"
  BY DEF Init
<1>3. \A n \in DOMAIN view : n \in DOMAIN elements /\ view[n] = n
  BY <1>1 DEF Whole
<1> QED
  BY <1>2, <1>3 DEF ViewsShow

\* A view that repeats elements has only to come of the one it is taken of, and
\* any other rearranges the elements it is documented to show.
LEMMA TakeShows ==
  ASSUME ViewsShow, NEW op, NEW arguments, NEW next, Take(op, arguments, next), Indexed(next),
         Comes(next, view),
         \/ op \in {"repeated", "cyclic"}
         \/ \E R : /\ Rearranges(next, view, Shown', R)
                   /\ \A s \in Shown' : <<s, s>> \notin R
                   /\ \A s, t \in Shown' : <<s, t>> \in R => Shows(s, t)'
  PROVE  ViewsShow'
<1>1. /\ view' = next /\ base' = view /\ elements' = elements
      /\ taken'.op = op /\ taken'.arguments = arguments
      /\ taken'.repeats = (taken.repeats \/ op \in {"repeated", "cyclic"})
  BY Zenon DEF Take
<1>2. (\A n \in DOMAIN view : view[n] \in DOMAIN elements)'
  BY <1>1 DEF ViewsShow, Comes
<1>3. CASE op \in {"repeated", "cyclic"}
  <2>1. taken'.repeats
    BY <1>1, <1>3, Zenon
  <2> QED
    BY <1>2, <2>1 DEF ViewsShow
<1>4. CASE op \notin {"repeated", "cyclic"}
  <2>1. PICK R : /\ Rearranges(next, view, Shown', R)
                 /\ \A s \in Shown' : <<s, s>> \notin R
                 /\ \A s, t \in Shown' : <<s, t>> \in R => Shows(s, t)'
    BY <1>4
  <2>2. PICK S : S = Shown'
    OBVIOUS
  <2>3. S \subseteq DOMAIN view
    BY <1>1, <2>2 DEF Shown
  <2>4. ~taken'.repeats => OneToOne(view)
    BY <1>1, Zenon DEF ViewsShow, OneToOne
  <2>5. DOMAIN next \subseteq Int
    BY DEF Indexed
  <2>6. ~taken'.repeats =>
          /\ OneToOne(next)
          /\ {next[n] : n \in DOMAIN next} = {view[s] : s \in S}
          /\ \A n, m \in DOMAIN next, s, t \in S :
               n < m /\ view[s] = next[n] /\ view[t] = next[m] => <<s, t>> \in R
    <3> SUFFICES ASSUME ~taken'.repeats
                 PROVE  /\ OneToOne(next)
                        /\ {next[n] : n \in DOMAIN next} = {view[s] : s \in S}
                        /\ \A n, m \in DOMAIN next, s, t \in S :
                             n < m /\ view[s] = next[n] /\ view[t] = next[m] => <<s, t>> \in R
      OBVIOUS
    <3>1. OneToOne(view)
      BY <2>4
    <3>2. Rearranges(next, view, S, R) /\ \A s \in S : <<s, s>> \notin R
      BY <2>1, <2>2
    <3> QED
      BY <2>3, <2>5, <3>1, <3>2, Rearranged, Zenon
  <2>7. ~taken'.repeats =>
          /\ \A n, m \in DOMAIN view' : view'[n] = view'[m] => n = m
          /\ {view'[n] : n \in DOMAIN view'} = {base'[at] : at \in Shown'}
          /\ \A n, m \in DOMAIN view', at, after \in Shown' :
               (n < m /\ base'[at] = view'[n] /\ base'[after] = view'[m]) => Shows(at, after)'
    BY <1>1, <2>1, <2>2, <2>6 DEF OneToOne
  <2> QED
    BY <1>2, <2>7, Zenon DEF ViewsShow
<1> QED
  BY <1>3, <1>4

LEMMA StepViewsShow == IInv /\ ViewsShow /\ [Next]_vars => ViewsShow'
<1> SUFFICES ASSUME IInv, ViewsShow, [Next]_vars PROVE ViewsShow'
  OBVIOUS
<1>0. Indexed(view) /\ DOMAIN view \subseteq Nat
  <2>1. Indexed(view)
    BY DEF IInv, SizesInv
  <2>2. DOMAIN view \subseteq Nat
    BY <2>1 DEF Indexed
  <2> QED
    BY <2>1, <2>2
<1>1. CASE Simple
  <2>1. PICK start \in DOMAIN view, end \in DOMAIN view, step \in 1 .. 3 :
          /\ start <= end
          /\ Take("simple", <<start, step, end>>, simple_subset_reference(view, start, step, end))
    BY <1>1 DEF Simple
  <2> DEFINE next == simple_subset_reference(view, start, step, end)
             S == {n \in DOMAIN view : /\ n >= start /\ n <= end /\ (n - start) % step = 0}
  <2>2. start \in Int /\ end \in Int /\ step \in Nat \ {0}
    BY <1>0
  <2>3. Rearranges(next, view, S, Ascending) /\ Indexed(next)
    BY <1>0, <2>1, <2>2, SimpleRearranges, TakeIndexed
  <2>4. /\ base' = view /\ taken'.op = "simple" /\ taken'.arguments = <<start, step, end>>
    BY <2>1 DEF Take
  <2>5. Shown' = S
    BY <2>4 DEF Shown
  <2>6. \A s, t : Shows(s, t)' <=> s < t
    BY <2>4 DEF Shows
  <2> HIDE DEF next, S
  <2>7. Comes(next, view) /\ S \subseteq Nat
    BY <1>0, <2>3, RearrangedComes DEF S
  <2>8. /\ \A s \in S : <<s, s>> \notin Ascending
        /\ \A s, t \in S : <<s, t>> \in Ascending => s < t
    BY <2>7 DEF Ascending
  <2>9. Take("simple", <<start, step, end>>, next)
    BY <2>1 DEF next
  <2> QED
    BY <2>3, <2>5, <2>6, <2>7, <2>8, <2>9, TakeShows
<1>2. CASE Alternating
  <2>1. PICK included \in 1 .. 3, excluded \in 0 .. 2 :
          Take("alternating", <<included, excluded>>,
               alternating_subset_reference(view, included, excluded))
    BY <1>2 DEF Alternating
  <2> DEFINE next == alternating_subset_reference(view, included, excluded)
             S == {n \in DOMAIN view : n % (included + excluded) < included}
  <2>2. included \in Nat \ {0} /\ excluded \in Nat
    OBVIOUS
  <2>3. Rearranges(next, view, S, Ascending) /\ Indexed(next)
    BY <1>0, <2>2, AlternatingRearranges, TakeIndexed
  <2>4. /\ base' = view /\ taken'.op = "alternating" /\ taken'.arguments = <<included, excluded>>
    BY <2>1 DEF Take
  <2>5. Shown' = S
    BY <2>4 DEF Shown
  <2>6. \A s, t : Shows(s, t)' <=> s < t
    BY <2>4 DEF Shows
  <2> HIDE DEF next, S
  <2>7. Comes(next, view) /\ S \subseteq Nat
    BY <1>0, <2>3, RearrangedComes DEF S
  <2>8. /\ \A s \in S : <<s, s>> \notin Ascending
        /\ \A s, t \in S : <<s, t>> \in Ascending => s < t
    BY <2>7 DEF Ascending
  <2>9. Take("alternating", <<included, excluded>>, next)
    BY <2>1 DEF next
  <2> QED
    BY <2>3, <2>5, <2>6, <2>7, <2>8, <2>9, TakeShows
<1>3. CASE ReversedAlternating
  <2>1. PICK included \in 1 .. 3, excluded \in 0 .. 2 :
          Take("reversed", <<included, excluded>>,
               reversed_alternating_subset_reference(view, included, excluded))
    BY <1>3 DEF ReversedAlternating
  <2> DEFINE next == reversed_alternating_subset_reference(view, included, excluded)
             S == {n \in DOMAIN view : n % (included + excluded) < included}
             R == ByChunks(included + excluded)
  <2>2. included \in Nat \ {0} /\ excluded \in Nat
    OBVIOUS
  <2>3. Rearranges(next, view, S, R) /\ Indexed(next)
    BY <1>0, <2>2, ReversedRearranges, TakeIndexed
  <2>4. /\ base' = view /\ taken'.op = "reversed" /\ taken'.arguments = <<included, excluded>>
    BY <2>1 DEF Take
  <2>5. Shown' = S
    BY <2>4 DEF Shown
  <2>6. \A s, t : Shows(s, t)' <=>
          (IF s \div (included + excluded) = t \div (included + excluded) THEN s > t ELSE s < t)
    BY <2>4 DEF Shows
  <2>7. \A s, t : <<s, t>> \in R <=>
          /\ s \in Nat /\ t \in Nat
          /\ (IF s \div (included + excluded) = t \div (included + excluded) THEN s > t ELSE s < t)
    BY DEF ByChunks
  <2> HIDE DEF next, S, R
  <2>8. Comes(next, view) /\ S \subseteq Nat
    BY <1>0, <2>3, RearrangedComes DEF S
  <2>9. /\ \A s \in S : <<s, s>> \notin R
        /\ \A s, t \in S : <<s, t>> \in R => Shows(s, t)'
    <3>1. \A s \in Nat : ~(s > s)
      OBVIOUS
    <3>2. ASSUME NEW s \in S PROVE <<s, s>> \notin R
      <4>1. ~(s > s)
        BY <2>8, <3>1
      <4> QED
        BY <2>7, <4>1
    <3> QED
      BY <2>6, <2>7, <3>2
  <2>10. Take("reversed", <<included, excluded>>, next)
    BY <2>1 DEF next
  <2> QED
    BY <2>3, <2>5, <2>8, <2>9, <2>10, TakeShows
<1>4. CASE Directed
  <2> DEFINE next == directed_subset_reference(view)
  <2>1. Take("directed", <<>>, next)
    BY <1>4 DEF Directed
  <2>3. Rearranges(next, view, DOMAIN view, Descending) /\ Indexed(next)
    BY <1>0, DirectedRearranges, TakeIndexed
  <2>4. base' = view /\ taken'.op = "directed"
    BY <2>1 DEF Take
  <2>5. Shown' = DOMAIN view
    BY <2>4 DEF Shown
  <2>6. \A s, t : Shows(s, t)' <=> s > t
    BY <2>4 DEF Shows
  <2> HIDE DEF next
  <2>7. Comes(next, view)
    BY <2>3, RearrangedComes
  <2>8. /\ \A s \in DOMAIN view : <<s, s>> \notin Descending
        /\ \A s, t \in DOMAIN view : <<s, t>> \in Descending => s > t
    BY <1>0 DEF Descending
  <2> QED
    BY <2>1, <2>3, <2>5, <2>6, <2>7, <2>8, TakeShows
<1>5. CASE Repeated \/ Cyclic
  <2>1. PICK op \in {"repeated", "cyclic"},
             next \in {repeated_subset_reference(view, 2), cyclic_subset_reference(view, 2)} :
          Take(op, <<2>>, next)
    BY <1>5 DEF Repeated, Cyclic
  <2>2. Indexed(next) /\ Comes(next, view)
    BY <1>0, TakeIndexed, RepeatedComes
  <2> QED
    BY <2>1, <2>2, TakeShows
<1>6. ASSUME view' = view, base' = base, taken' = taken, DOMAIN elements' = DOMAIN elements
      PROVE  ViewsShow'
  <2>1. Shown' = Shown
    BY <1>6 DEF Shown
  <2>2. \A n, m : Shows(n, m)' <=> Shows(n, m)
    BY <1>6 DEF Shows
  <2>3. /\ \A n \in DOMAIN view' : view'[n] \in DOMAIN elements'
        /\ ~taken'.repeats => \A n, m \in DOMAIN view' : view'[n] = view'[m] => n = m
    BY <1>6 DEF ViewsShow
  <2>4. ASSUME ~taken'.repeats, taken'.op # "whole"
        PROVE  /\ {view'[n] : n \in DOMAIN view'} = {base'[at] : at \in Shown'}
               /\ \A n, m \in DOMAIN view', at, after \in Shown' :
                    (n < m /\ base'[at] = view'[n] /\ base'[after] = view'[m])
                    => Shows(at, after)'
    <3>1. /\ {view[n] : n \in DOMAIN view} = {base[at] : at \in Shown}
          /\ \A n, m \in DOMAIN view, at, after \in Shown :
               (n < m /\ base[at] = view[n] /\ base[after] = view[m]) => Shows(at, after)
      BY <1>6, <2>4, Zenon DEF ViewsShow
    <3> QED
      BY <1>6, <2>1, <2>2, <3>1
  <2> QED
    BY <2>3, <2>4, Zenon DEF ViewsShow
<1>7. CASE ModifyParallel
  BY <1>6, <1>7 DEF ModifyParallel
<1>8. ASSUME NEW t \in Threads, AssignBatch(t)
      PROVE  ViewsShow'
  <2>1. view' = view /\ base' = base /\ taken' = taken
    BY <1>8 DEF AssignBatch
  <2>2. DOMAIN elements' = DOMAIN elements
    BY <1>8 DEF AssignBatch, Write
  <2> QED
    BY <1>6, <2>1, <2>2
<1>9. CASE UNCHANGED vars
  BY <1>6, <1>9 DEF vars
<1> QED
  BY <1>1, <1>2, <1>3, <1>4, <1>5, <1>7, <1>8, <1>9 DEF Next, Done

\* Views of views, of any number, show what they are documented to show of what
\* they were taken of, in that order, and unless one of them repeats, no element
\* twice: vectors of every size and any chain of simple, alternating, reversed
\* and directed subsets.
THEOREM ViewsTheorem == Spec => []ViewsShow
BY Invariance, InitViewsShow, StepViewsShow, PTL DEF Spec

-----------------------------------------------------------------------------
(* The bits of a message.                                                  *)

\* What is packed: of every element, repetition times, count bits, step apart.
Packs(start, step, end, repetition, count, bits) ==
  /\ start \in Nat /\ end \in Nat /\ step \in Nat \ {0} /\ repetition \in Nat \ {0}
  /\ count \in Nat \ {0} /\ count = (end - start + 1) \div step
  /\ bits \in Nat \ {0} /\ bits = count * repetition

\* What is selected is packed, at least one bit of it.
LEMMA Packing ==
  ASSUME NEW start \in Nat, NEW end \in Nat, NEW step \in Nat \ {0}, NEW repetition \in Nat \ {0},
         start <= end, step <= end - start + 1
  PROVE  \E count, bits : Packs(start, step, end, repetition, count, bits)
<1>1. PICK n \in Nat : n = end - start + 1
  <2>1. end - start + 1 \in Nat
    OBVIOUS
  <2> QED
    BY <2>1
<1>2. PICK count \in Nat : count = n \div step
  BY DivMod
<1>3. n = step * count + (n % step) /\ n % step \in 0 .. step - 1
  BY <1>2, DivMod
<1>4. count # 0
  <2>1. ASSUME count = 0
        PROVE  FALSE
    <3>1. step * count = 0
      BY <2>1
    <3>2. PICK r \in 0 .. step - 1 : r = n % step
      BY <1>3
    <3> QED
      BY <1>1, <1>3, <3>1, <3>2
  <2> QED
    BY <2>1
<1>5. PICK bits \in Nat : bits = count * repetition
  BY TimesNat
<1>6. 1 * repetition <= count * repetition
  BY <1>4, TimesMono
<1>7. bits # 0
  BY <1>5, <1>6
<1> QED
  BY <1>1, <1>2, <1>4, <1>5, <1>7 DEF Packs

\* Every bit that is selected is packed, and no other.
PacksSelected(start, step, end, repetition, size, total) ==
  /\ \A k \in 0 .. total - 1 :
       Origin(k, start, step, end, repetition) \in (0 .. size - 1) \X Selected(start, step, end)
  /\ \A e \in 0 .. size - 1, b \in Selected(start, step, end) :
       \E k \in 0 .. total - 1 : Origin(k, start, step, end, repetition) = <<e, b>>

LEMMA Origins ==
  ASSUME NEW start, NEW step, NEW end, NEW repetition, NEW count, NEW bits,
         Packs(start, step, end, repetition, count, bits),
         NEW size \in Nat, NEW total, total = bits * size
  PROVE  total \in Nat /\ PacksSelected(start, step, end, repetition, size, total)
<1>1. /\ start \in Nat /\ step \in Nat \ {0} /\ repetition \in Nat \ {0} /\ count \in Nat \ {0}
      /\ bits \in Nat \ {0} /\ bits = count * repetition
      /\ bits_per_element(start, step, end, repetition) = bits
  BY DEF Packs, bits_per_element
<1>2. total \in Nat /\ total = size * bits
  BY <1>1, TimesNat
<1>3. Selected(start, step, end) = {start + m * step : m \in 0 .. count - 1}
  BY DEF Packs, Selected
<1>4. \A k : Origin(k, start, step, end, repetition)
               = <<k \div bits, start + ((k % bits) \div repetition) * step>>
  BY <1>1 DEF Origin
<1>5. ASSUME NEW k \in 0 .. total - 1
      PROVE  Origin(k, start, step, end, repetition) \in (0 .. size - 1) \X Selected(start, step, end)
  <2>1. k \in Nat /\ k < size * bits
    BY <1>2
  <2>2. k \div bits \in Nat /\ k \div bits < size
    BY <1>1, <2>1, DivBounds
  <2>3. k % bits \in 0 .. bits - 1
    BY <1>1, <2>1, DivMod
  <2>4. PICK r \in Nat : r = k % bits /\ r < count * repetition
    BY <1>1, <2>3
  <2>5. r \div repetition \in Nat /\ r \div repetition < count
    BY <1>1, <2>4, DivBounds
  <2>6. r \div repetition \in 0 .. count - 1 /\ k \div bits \in 0 .. size - 1
    BY <1>1, <2>2, <2>5
  <2> QED
    BY <1>3, <1>4, <2>4, <2>6
<1>6. ASSUME NEW e \in 0 .. size - 1, NEW b \in Selected(start, step, end)
      PROVE  \E k \in 0 .. total - 1 : Origin(k, start, step, end, repetition) = <<e, b>>
  <2>1. PICK m \in 0 .. count - 1 : b = start + m * step
    BY <1>3
  <2>2. PICK i \in Nat : i = m * repetition
    BY <1>1, <2>1, TimesNat
  <2>3. m \in Nat /\ i + 0 = i /\ 0 \in 0 .. repetition - 1 /\ 0 \in Nat
    BY <1>1, <2>1
  <2>4. i < bits /\ i \div repetition = m
    <3>1. m * repetition + 0 < count * repetition + 0 /\ (m * repetition + 0) \div repetition = m
      BY <1>1, <2>1, <2>3, Digits
    <3> QED
      BY <1>1, <2>2, <2>3, <3>1
  <2>5. i \in 0 .. bits - 1 /\ e \in Nat /\ e < size
    BY <1>1, <2>2, <2>4
  <2>6. /\ e * bits + i < size * bits + 0 /\ e * bits + i \in Nat
        /\ (e * bits + i) \div bits = e /\ (e * bits + i) % bits = i
    BY <1>1, <2>3, <2>5, Digits
  <2>7. PICK k \in Nat : k = e * bits + i
    BY <2>6
  <2>8. k \in 0 .. total - 1 /\ k \div bits = e /\ k % bits = i
    BY <1>2, <2>6, <2>7
  <2>9. Origin(k, start, step, end, repetition) = <<e, b>>
    BY <1>4, <2>1, <2>4, <2>8
  <2> QED
    BY <2>8, <2>9
<1> QED
  BY <1>2, <1>5, <1>6 DEF PacksSelected

\* The words that total bits take.
InWords(total, width, words) ==
  \A k \in 0 .. total - 1 :
    /\ k \div width \in 0 .. words - 1 /\ k % width \in Positions(width)
    /\ (k \div width) * width + (k % width) = k

LEMMA PackedWords ==
  ASSUME NEW total \in Nat, NEW width \in Nat \ {0},
         NEW words, words = (total + width - 1) \div width
  PROVE  words \in Nat /\ words * width < total + width /\ InWords(total, width, words)
<1>1. PICK n \in Nat : n = total + width - 1
  OBVIOUS
<1>2. words \in Nat /\ words = n \div width
  BY <1>1, DivMod
<1>3. words * width < total + width
  <2>1. n = width * words + (n % width) /\ n % width \in 0 .. width - 1
    BY <1>2, DivMod
  <2>2. PICK product \in Nat : product = width * words /\ product = words * width
    BY TimesNat
  <2>3. PICK r \in 0 .. width - 1 : r = n % width
    BY <2>1
  <2> QED
    BY <1>1, <2>1, <2>2, <2>3
<1>4. ASSUME NEW k \in 0 .. total - 1
      PROVE  /\ k \div width \in 0 .. words - 1 /\ k % width \in Positions(width)
             /\ (k \div width) * width + (k % width) = k
  <2>1. k \in Nat
    OBVIOUS
  <2>2. PICK q \in Nat, r \in 0 .. width - 1 : /\ q = k \div width /\ r = k % width
                                               /\ k = width * q + r
    BY <2>1, DivMod
  <2>3. PICK product \in Nat : product = width * q /\ product = q * width
    BY TimesNat
  <2>4. width * (q + 1) = product + width
    BY <2>3
  <2>5. k + width = width * (q + 1) + r /\ k + width \in Int /\ q + 1 \in Int
    BY <2>2, <2>3, <2>4
  <2>6. (k + width) \div width = q + 1
    BY <2>5, DivUnique
  <2>7. ~(q + 1 > words)
    <3>1. ASSUME q + 1 > words
          PROVE  FALSE
      <4>1. (k + width) \div width > n \div width
        BY <1>2, <2>6, <3>1
      <4>2. k + width > n
        BY <2>5, <4>1, DivMonotone
      <4> QED
        BY <1>1, <4>2
    <3> QED
      BY <3>1
  <2> QED
    BY <2>2, <2>3, <2>7 DEF Positions
<1> QED
  BY <1>2, <1>3, <1>4 DEF InWords

\* So many bits of an element are selected.
LEMMA SelectedCount ==
  ASSUME NEW start, NEW step, NEW end, NEW repetition, NEW count, NEW bits,
         Packs(start, step, end, repetition, count, bits)
  PROVE  Cardinality(Selected(start, step, end)) = count
<1>1. start \in Nat /\ step \in Nat \ {0} /\ count \in Nat \ {0}
  BY DEF Packs
<1>2. Selected(start, step, end) = {start + m * step : m \in 0 .. count - 1}
  BY DEF Packs, Selected
<1> DEFINE f == [m \in 0 .. count - 1 |-> start + m * step]
           S == Selected(start, step, end)
<1>3. f \in Surjection(0 .. count - 1, S)
  BY <1>2 DEF Surjection
<1>4. f \in Injection(0 .. count - 1, S)
  <2>1. ASSUME NEW m \in 0 .. count - 1, NEW n \in 0 .. count - 1, f[m] = f[n]
        PROVE  m = n
    <3>1. m \in Nat /\ n \in Nat /\ 0 \in 0 .. step - 1 /\ 0 \in Nat
      BY <1>1
    <3>2. /\ m < n => m * step + 0 < n * step + 0
          /\ n < m => n * step + 0 < m * step + 0
      BY <1>1, <3>1, Digits
    <3>3. PICK a \in Nat, b \in Nat : a = m * step /\ b = n * step
      BY <1>1, <3>1, TimesNat
    <3>4. a = b
      BY <1>1, <2>1, <3>3
    <3> QED
      BY <3>1, <3>2, <3>3, <3>4
  <2>2. f \in [0 .. count - 1 -> S]
    BY <1>2
  <2>3. DOMAIN f = 0 .. count - 1
    OBVIOUS
  <2> HIDE DEF f, S
  <2> QED
    BY <2>1, <2>2, <2>3 DEF Injection, IsInjective
<1>5. IsFiniteSet(0 .. count - 1) /\ Cardinality(0 .. count - 1) = count
  BY <1>1, FS_Interval
<1> HIDE DEF f, S
<1>6. Cardinality(S) = Cardinality(0 .. count - 1)
  BY <1>3, <1>4, <1>5, FS_Surjection
<1> QED
  BY <1>5, <1>6 DEF S

\* The bits a vector takes.
LEMMA TotalBits ==
  ASSUME NEW start, NEW step, NEW end, NEW repetition, NEW count, NEW bits,
         Packs(start, step, end, repetition, count, bits),
         NEW size \in Nat, NEW vector, DOMAIN vector = 0 .. size - 1
  PROVE  total_bits(vector, start, step, end, repetition) = bits * size
<1>1. Cardinality(0 .. size - 1) = size
  BY FS_Interval
<1> QED
  BY <1>1 DEF total_bits, bits_per_element, Packs

\* The packed vector holds every bit that is packed.
HoldsPacked(packed, sent, width, start, step, end, repetition, total) ==
  \A k \in 0 .. total - 1 :
    LET origin == Origin(k, start, step, end, repetition)
    IN  packed[k \div width][k % width] = sent[origin[1]][origin[2]]

LEMMA PackedBit ==
  ASSUME NEW start, NEW step, NEW end, NEW repetition, NEW count, NEW bits,
         Packs(start, step, end, repetition, count, bits),
         NEW size \in Nat, NEW width \in Nat \ {0}, NEW zero,
         NEW sent, DOMAIN sent = 0 .. size - 1,
         NEW total, total = bits * size
  PROVE  HoldsPacked(simple_bit_compress(sent, width, start, step, end, repetition, zero),
                     sent, width, start, step, end, repetition, total)
<1>1. total \in Nat /\ total_bits(sent, start, step, end, repetition) = total
  BY Origins, TotalBits
<1>2. PICK words : words = (total + width - 1) \div width
  OBVIOUS
<1> DEFINE Bit(word, b) ==
             LET origin == Origin(word * width + b, start, step, end, repetition)
             IN  IF word * width + b < total THEN sent[origin[1]][origin[2]] ELSE zero
           packed == simple_bit_compress(sent, width, start, step, end, repetition, zero)
<1>3. packed = [word \in 0 .. words - 1 |-> [b \in Positions(width) |-> Bit(word, b)]]
  BY <1>1, <1>2 DEF simple_bit_compress
<1>4. InWords(total, width, words)
  BY <1>1, <1>2, PackedWords
<1>5. ASSUME NEW k \in 0 .. total - 1
      PROVE  packed[k \div width][k % width]
               = sent[Origin(k, start, step, end, repetition)[1]]
                     [Origin(k, start, step, end, repetition)[2]]
  <2>1. PICK q, r : q = k \div width /\ r = k % width
    OBVIOUS
  <2>2. q \in 0 .. words - 1 /\ r \in Positions(width) /\ q * width + r = k
    BY <1>4, <2>1 DEF InWords
  <2>3. k < total
    BY <1>1
  <2> HIDE DEF packed
  <2>4. packed[q][r] = Bit(q, r)
    <3> HIDE DEF Bit
    <3> QED
      BY <1>3, <2>2
  <2>5. Bit(q, r) = sent[Origin(k, start, step, end, repetition)[1]]
                        [Origin(k, start, step, end, repetition)[2]]
    BY <2>2, <2>3
  <2> QED
    BY <2>1, <2>4, <2>5
<1> QED
  BY <1>5 DEF HoldsPacked

\* What comes back of every bit.
LEMMA ReturnedBit ==
  ASSUME NEW start, NEW step, NEW end, NEW repetition, NEW count, NEW bits,
         Packs(start, step, end, repetition, count, bits),
         NEW size \in Nat, NEW width \in Nat \ {0}, NEW zero,
         NEW sent, DOMAIN sent = 0 .. size - 1, NEW kept, DOMAIN kept = 0 .. size - 1,
         NEW e \in 0 .. size - 1, NEW b \in Positions(width)
  PROVE  LET packed == simple_bit_compress(sent, width, start, step, end, repetition, zero)
             back == simple_bit_decompress(kept, packed, width, start, step, end, repetition)
         IN  back[e][b] = IF b \in Selected(start, step, end) THEN sent[e][b] ELSE kept[e][b]
<1> DEFINE packed == simple_bit_compress(sent, width, start, step, end, repetition, zero)
           back == simple_bit_decompress(kept, packed, width, start, step, end, repetition)
           From(k) == Origin(k, start, step, end, repetition)
<1>1. PICK total : total = bits * size
  OBVIOUS
<1>2. /\ \A k \in 0 .. total - 1 : From(k) \in (0 .. size - 1) \X Selected(start, step, end)
      /\ b \in Selected(start, step, end) => \E k \in 0 .. total - 1 : From(k) = <<e, b>>
  <2>1. PacksSelected(start, step, end, repetition, size, total)
    BY <1>1, Origins
  <2> QED
    BY <2>1 DEF PacksSelected
<1>3. \A k \in 0 .. total - 1 :
        packed[k \div width][k % width] = sent[From(k)[1]][From(k)[2]]
  <2>1. HoldsPacked(packed, sent, width, start, step, end, repetition, total)
    BY <1>1, PackedBit
  <2> HIDE DEF packed
  <2> QED
    BY <2>1 DEF HoldsPacked
<1> DEFINE Bits(x, y) == {k \in 0 .. total - 1 : From(k) = <<x, y>>}
           Last(x, y) == CHOOSE k \in Bits(x, y) : \A l \in Bits(x, y) : l <= k
<1> HIDE DEF packed
<1>4. back = [x \in 0 .. size - 1 |-> [y \in Positions(width) |->
                IF Bits(x, y) = {} THEN kept[x][y]
                ELSE packed[Last(x, y) \div width][Last(x, y) % width]]]
  <2>1. total_bits(kept, start, step, end, repetition) = total
    BY <1>1, TotalBits
  <2> QED
    BY <2>1 DEF simple_bit_decompress
<1> HIDE DEF back, From
<1>5. back[e][b] = IF Bits(e, b) = {} THEN kept[e][b]
                   ELSE packed[Last(e, b) \div width][Last(e, b) % width]
  <2> HIDE DEF Bits, Last
  <2> QED
    BY <1>4
<1>6. b \in Selected(start, step, end) => Bits(e, b) # {}
  BY <1>2
<1>7. b \notin Selected(start, step, end) => Bits(e, b) = {}
  BY <1>2
<1>8. ASSUME Bits(e, b) # {}
      PROVE  packed[Last(e, b) \div width][Last(e, b) % width] = sent[e][b]
  <2>1. total \in Nat /\ Bits(e, b) \subseteq 0 .. total
    BY <1>1, Origins
  <2>2. \E k \in Bits(e, b) : \A l \in Bits(e, b) : l <= k
    <3> HIDE DEF Bits
    <3> QED
      BY <1>8, <2>1, Greatest
  <2>3. PICK k : k = Last(e, b)
    OBVIOUS
  <2>4. k \in Bits(e, b)
    <3> HIDE DEF Bits
    <3> QED
      BY <2>2, <2>3
  <2> HIDE DEF Last
  <2>5. k \in 0 .. total - 1 /\ From(k) = <<e, b>>
    BY <2>4
  <2>6. packed[k \div width][k % width] = sent[From(k)[1]][From(k)[2]]
    BY <1>3, <2>5
  <2>7. From(k)[1] = e /\ From(k)[2] = b
    BY <2>5
  <2> QED
    BY <2>3, <2>6, <2>7
<1> HIDE DEF Bits, Last
<1> QED
  BY <1>5, <1>6, <1>7, <1>8 DEF back, packed

\* Every bit of interest that is sent comes back to its place, and the packed
\* vector has no more words than the bits need: of vectors and words of every
\* size, whatever is in them.
THEOREM CompressionTheorem ==
  ASSUME NEW size \in Nat, NEW width \in Nat \ {0}
  PROVE  BitsReturn(size, width)
<1> DEFINE sent == [e \in 0 .. size - 1 |-> [b \in Positions(width) |-> <<"sent", e, b>>]]
           kept == [e \in 0 .. size - 1 |-> [b \in Positions(width) |-> <<"kept", e, b>>]]
<1>1. DOMAIN sent = 0 .. size - 1 /\ DOMAIN kept = 0 .. size - 1
  OBVIOUS
<1> DEFINE Returns(start, end, step, repetition) ==
             LET packed == simple_bit_compress(sent, width, start, step, end, repetition, <<"zero">>)
                 back == simple_bit_decompress(kept, packed, width, start, step, end, repetition)
             IN  /\ \A e \in 0 .. size - 1, b \in Positions(width) :
                      back[e][b] = IF b \in Selected(start, step, end) THEN sent[e][b] ELSE kept[e][b]
                 /\ Cardinality(DOMAIN packed) * width
                      < Cardinality(Selected(start, step, end)) * repetition * size + width
<1>2. BitsReturn(size, width)
        <=> \A start \in Positions(width), end \in Positions(width), step, repetition \in 1 .. 3 :
              (start <= end /\ step <= end - start + 1) => Returns(start, end, step, repetition)
  BY Zenon DEF BitsReturn
<1>3. ASSUME NEW start \in Positions(width), NEW end \in Positions(width),
             NEW step \in 1 .. 3, NEW repetition \in 1 .. 3,
             start <= end, step <= end - start + 1
      PROVE  Returns(start, end, step, repetition)
  <2> HIDE DEF sent, kept
  <2>1. start \in Nat /\ end \in Nat /\ step \in Nat \ {0} /\ repetition \in Nat \ {0}
    BY DEF Positions
  <2>2. PICK count, bits : Packs(start, step, end, repetition, count, bits)
    BY <1>3, <2>1, Packing
  <2> DEFINE packed == simple_bit_compress(sent, width, start, step, end, repetition, <<"zero">>)
             back == simple_bit_decompress(kept, packed, width, start, step, end, repetition)
  <2>3. \A e \in 0 .. size - 1, b \in Positions(width) :
          back[e][b] = IF b \in Selected(start, step, end) THEN sent[e][b] ELSE kept[e][b]
    BY <1>1, <2>2, ReturnedBit
  <2>4. PICK total \in Nat : /\ total = bits * size
                             /\ total_bits(sent, start, step, end, repetition) = total
    <3>1. bits * size \in Nat
      BY <2>2, TimesNat DEF Packs
    <3>2. total_bits(sent, start, step, end, repetition) = bits * size
      BY <1>1, <2>2, TotalBits
    <3> QED
      BY <3>1, <3>2
  <2>5. PICK words : words = (total + width - 1) \div width
    OBVIOUS
  <2>6. words \in Nat /\ words * width < total + width
    BY <2>5, PackedWords
  <2>7. DOMAIN packed = 0 .. words - 1
    BY <2>4, <2>5 DEF simple_bit_compress
  <2>8. Cardinality(DOMAIN packed) = words
    BY <2>6, <2>7, FS_Interval
  <2>9. Cardinality(Selected(start, step, end)) * repetition * size = total
    <3>1. Cardinality(Selected(start, step, end)) = count
      BY <2>2, SelectedCount
    <3>2. bits = count * repetition
      BY <2>2 DEF Packs
    <3> QED
      BY <2>4, <3>1, <3>2
  <2> HIDE DEF packed, back
  <2>10. Cardinality(DOMAIN packed) * width
          < Cardinality(Selected(start, step, end)) * repetition * size + width
    BY <2>6, <2>8, <2>9
  <2> QED
    BY <2>3, <2>10 DEF packed, back
<1> HIDE DEF Returns
<1> QED
  BY <1>2, <1>3

\* Whatever is selected of the bits of a vector's elements comes back from the
\* message it is compressed to, for vectors of every size.
THEOREM CompressedTheorem == Spec => []CompressedReturns
<1>1. IInv => CompressedReturns
  <2>1. ASSUME IInv
        PROVE  BitsReturn(Size(view), WordBits)
    <3>1. Size(view) \in Nat
      BY <2>1, IndexedSize DEF IInv, SizesInv
    <3>2. WordBits \in Nat \ {0}
      BY VectorsAssumption
    <3> QED
      BY <3>1, <3>2, CompressionTheorem
  <2> QED
    BY <2>1 DEF CompressedReturns
<1> QED
  BY <1>1, Invariance, PTL
==============================================================================
