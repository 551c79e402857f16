---------------------------- MODULE BitCompression ----------------------------
(***************************************************************************)
(* simple_bit_compress and simple_bit_decompress (core/containers/         *)
(* vector.h): the bits of interest of all elements are packed one behind   *)
(* the other into the words of a vector that is sent in their place, and   *)
(* put back where they came from.                                          *)
(*                                                                         *)
(* A vector is a function on 0 .. size - 1 to words, and a word one on     *)
(* 0 .. width - 1; what the bits are is left open.                         *)
(***************************************************************************)
EXTENDS Integers, FiniteSets

Positions(width) == 0 .. width - 1

bits_per_element(start, step, end, repetition) == ((end - start + 1) \div step) * repetition

\* Where packed bit k comes from: its element, and its index there.
Fault_Origin(k, start, step, end, repetition) ==   \* fault: step is forgotten
  LET bits == bits_per_element(start, step, end, repetition)
  IN  <<k \div bits, start + ((k % bits) \div repetition)>>

Origin(k, start, step, end, repetition) ==
  LET bits == bits_per_element(start, step, end, repetition)
  IN  <<k \div bits, start + ((k % bits) \div repetition) * step>>

total_bits(vector, start, step, end, repetition) ==
  bits_per_element(start, step, end, repetition) * Cardinality(DOMAIN vector)

\* The last word is filled up with zeros.
simple_bit_compress(vector, width, start, step, end, repetition, zero) ==
  LET total == total_bits(vector, start, step, end, repetition)
  IN  [word \in 0 .. ((total + width - 1) \div width) - 1 |->
         [b \in Positions(width) |->
            LET k == word * width + b
                origin == Origin(k, start, step, end, repetition)
            IN  IF k < total THEN vector[origin[1]][origin[2]] ELSE zero]]

\* The later of two bits for the same place prevails.
simple_bit_decompress(vector, other, width, start, step, end, repetition) ==
  LET packed == 0 .. total_bits(vector, start, step, end, repetition) - 1
      Bits(e, b) == {k \in packed : Origin(k, start, step, end, repetition) = <<e, b>>}
  IN  [e \in DOMAIN vector |-> [b \in Positions(width) |->
         IF Bits(e, b) = {} THEN vector[e][b]
         ELSE LET k == CHOOSE k \in Bits(e, b) : \A l \in Bits(e, b) : l <= k
              IN  other[k \div width][k % width]]]

-----------------------------------------------------------------------------
\* The bits from start on, step apart, as many as fit between start and end:
\* with steps of more than one the bit at end itself may be left out.
Selected(start, step, end) == {start + m * step : m \in 0 .. ((end - start + 1) \div step) - 1}

\* Of vectors of so many words, whatever is in them: what was packed comes back
\* to where it was, into a vector that keeps its other bits, and the packed
\* vector has no more words than the bits need.  The bits of an element are
\* divided between words wherever the width is no multiple of their number.
BitsReturn(size, width) ==
  LET sent == [e \in 0 .. size - 1 |-> [b \in Positions(width) |-> <<"sent", e, b>>]]
      kept == [e \in 0 .. size - 1 |-> [b \in Positions(width) |-> <<"kept", e, b>>]]
  IN  \A start \in Positions(width), end \in Positions(width), step, repetition \in 1 .. 3 :
        (start <= end /\ step <= end - start + 1) =>
          LET packed == simple_bit_compress(sent, width, start, step, end, repetition, <<"zero">>)
              back == simple_bit_decompress(kept, packed, width, start, step, end, repetition)
          IN  /\ \A e \in 0 .. size - 1, b \in Positions(width) :
                   back[e][b] = IF b \in Selected(start, step, end) THEN sent[e][b] ELSE kept[e][b]
              /\ Cardinality(DOMAIN packed) * width
                   < Cardinality(Selected(start, step, end)) * repetition * size + width
==============================================================================
