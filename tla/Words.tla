-------------------------------- MODULE Words --------------------------------
(***************************************************************************)
(* The machine words shares are made of: int8_t, int32_t and int64_t, here *)
(* Width bits.  A word is its unsigned value; arithmetic wraps around as   *)
(* the two's complement arithmetic of the compiled code does, Signed gives *)
(* the value C compares and divides.                                       *)
(***************************************************************************)
EXTENDS Integers

CONSTANT Width   \* bits in a word

ASSUME WidthAssumption == Width \in Nat \ {0}

\* What the proofs need to know of powers.
ASSUME PowerAssumption ==
  /\ 2^0 = 1
  /\ \A n \in 0 .. Width : 2^n \in Nat \ {0} /\ 2^(n + 1) = 2 * 2^n

Modulus == 2^Width
WordSet == 0 .. Modulus - 1

Wrap(n) == n % Modulus
Signed(u) == IF u < 2^(Width - 1) THEN u ELSE u - Modulus
Truth(condition) == IF condition THEN 1 ELSE 0   \* a C comparison

\* C's / and %, which round towards zero, of a by a positive b.
Quotient(a, b) == IF a >= 0 THEN a \div b ELSE -((-a) \div b)
Remainder(a, b) == a - b * Quotient(a, b)

-----------------------------------------------------------------------------
(* The bitwise operators, by tables over all words.                        *)

Bit(u, i) == (u \div 2^i) % 2

FromBits(b) ==
  LET upTo[n \in 0 .. Width] == IF n = 0 THEN 0 ELSE upTo[n - 1] + b[n - 1] * 2^(n - 1)
  IN  upTo[Width]

XorTable == [u \in WordSet |-> [v \in WordSet |->
               FromBits([i \in 0 .. Width - 1 |-> (Bit(u, i) + Bit(v, i)) % 2])]]
AndTable == [u \in WordSet |-> [v \in WordSet |->
               FromBits([i \in 0 .. Width - 1 |-> Bit(u, i) * Bit(v, i)])]]

Xor(u, v) == XorTable[u][v]
And(u, v) == AndTable[u][v]
Not(u) == Modulus - 1 - u

-----------------------------------------------------------------------------
(* Arithmetic shares are added modulo 2^Width, boolean ones bit by bit.    *)

Plus(kind, u, v) == IF kind = "a" THEN Wrap(u + v) ELSE Xor(u, v)
Minus(kind, u, v) == IF kind = "a" THEN Wrap(u - v) ELSE Xor(u, v)
Times(kind, u, v) == IF kind = "a" THEN Wrap(u * v) ELSE And(u, v)

LowBit(u) == u % 2
==============================================================================
