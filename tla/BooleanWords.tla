----------------------------- MODULE BooleanWords -----------------------------
(***************************************************************************)
(* The bit operations of a vector (core/containers/vector.h) that boolean  *)
(* shares use.  A word is the function from its bits to what their shares  *)
(* XOR to: the operations act on every share alike, and but for set_bits   *)
(* and ! they do to the secret what they do to a share.                    *)
(***************************************************************************)
EXTENDS Integers, FiniteSets

CONSTANTS
  Width,     \* bits of the signed share type, a power of two
  Shares     \* boolean shares a secret is split into

ASSUME WordsAssumption ==
  /\ Width \in Nat
  /\ \E k \in 1 .. 6 : Width = 2 ^ k
  /\ Shares \in Nat \ {0}

\* What the proofs need to know of powers.
ASSUME PowersAssumption ==
  /\ 2 ^ 0 = 1
  /\ \A n \in 0 .. Width + 6 : 2 ^ n \in Nat \ {0} /\ 2 ^ (n + 1) = 2 * 2 ^ n

Bits == 0 .. Width - 1

\* std::numeric_limits<Share>::digits, without the sign.
digits == Width - 1

Word(n) == [b \in Bits |-> (n \div 2 ^ b) % 2 = 1]
Zero == [b \in Bits |-> FALSE]

xor_b(v, w) == [b \in Bits |-> v[b] # w[b]]
and_b(v, w) == [b \in Bits |-> v[b] /\ w[b]]
not_b(w) == [b \in Bits |-> ~w[b]]
or_b(v, w) == not_b(and_b(not_b(v), not_b(w)))

\* ! of a word of one bit, one party complementing its share.
not_b_1(w) == [w EXCEPT ![0] = ~w[0]]

bit_right_shift(w, shift_size) ==
  [b \in Bits |-> b + shift_size \in Bits /\ w[b + shift_size]]

bit_left_shift(w, shift_size) ==
  [b \in Bits |-> b - shift_size \in Bits /\ w[b - shift_size]]

\* One bit, the XOR of all of them but the sign.
bit_xor(w) ==
  [b \in Bits |-> b = 0 /\ Cardinality({c \in 0 .. digits - 1 : w[c]}) % 2 = 1]

mask(w, n) == and_b(w, Word(n))

\* The bits are set in every share, so they XOR to the parity of the shares.
set_bits(w, n) == [b \in Bits |-> IF Word(n)[b] THEN Shares % 2 = 1 ELSE w[b]]

\* The lower half of every part of level_size bits becomes the lowest bit of
\* the upper half ...
bit_level_shift(w, level_size) ==
  LET half_level == level_size \div 2
  IN  [b \in Bits |-> IF b % level_size < half_level
                      THEN w[b - (b % level_size) + half_level] ELSE w[b]]

\* ... and the upper half the highest bit of the lower half.
reverse_bit_level_shift(w, level_size) ==
  LET half_level == level_size \div 2
  IN  [b \in Bits |-> IF b % level_size >= half_level
                      THEN w[b - (b % level_size) + half_level - 1] ELSE w[b]]
==============================================================================
