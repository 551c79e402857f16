-------------------------- MODULE BooleanOperations --------------------------
(***************************************************************************)
(* Operations of boolean shares that take rounds of secure ANDs            *)
(* (core/containers/b_shared_vector.h, core/operators/sorting.h):          *)
(*   - comparison: operators == and > and the compare of sorting, all on   *)
(*     the prefix of equal bits that bit_same finds in log2(Width) rounds; *)
(*   - addition: parallel_prefix_adder in log2(Width) rounds, or           *)
(*     ripple_carry_adder bit by bit, as USE_PARALLEL_PREFIX_ADDER selects *)
(*     when it is compiled.                                                *)
(***************************************************************************)
EXTENDS BooleanWords

CONSTANT Operands   \* plaintexts of the operands

ASSUME OperandsAssumption == Operands \subseteq -(2 ^ (Width - 1)) .. 2 ^ (Width - 1) - 1

VARIABLES
  operation,      \* comparison, prefix_adder or ripple_adder, or none of them
  x_vec, y_vec,   \* the operands
  sameBit,        \* bit_same so far
  g, p,           \* the generate and propagate bits
  carry_i,        \* the carry of the ripple carry adder
  i,              \* the loop variable: a level size, or a bit
  sum,            \* what an adder returns
  results         \* what the comparisons return

booleanVars == <<operation, x_vec, y_vec, sameBit, g, p, carry_i, i, sum, results>>

Adders == {"prefix_adder", "ripple_adder"}

\* a_xor_b and a_and_b of the ripple carry adder, too.
Propagate(x, y) == xor_b(Word(x), Word(y))
Generate(x, y) == and_b(Word(x), Word(y))
FirstLoop(op) == IF op = "ripple_adder" THEN 0 ELSE 2

BooleanInit ==
  /\ p = Propagate(x_vec, y_vec)
  /\ g = Generate(x_vec, y_vec)
  /\ sameBit = not_b(p)
  /\ carry_i = FALSE
  /\ i = FirstLoop(operation)
  /\ sum = Zero
  /\ results = <<>>

-----------------------------------------------------------------------------
\* A round of bit_same, one secure AND.
BitSameRound ==
  /\ operation = "comparison"
  /\ i <= Width
  /\ sameBit' = and_b(bit_level_shift(sameBit, i), sameBit)
  /\ i' = 2 * i
  /\ UNCHANGED <<operation, x_vec, y_vec, g, p, carry_i, sum, results>>

\* Fault: the sign bits are forgotten.
Fault_Signed(x, y, gt) == gt

\* The sign bits decide if they differ, gt otherwise.
Signed(x, y, gt) ==
  LET sign_1 == bit_right_shift(x, digits)
      sign_2 == bit_right_shift(y, digits)
      diffs == xor_b(sign_1, sign_2)
  IN  xor_b(and_b(diffs, sign_2), and_b(not_b_1(diffs), gt))

\* operator ==: the lowest bit of the prefix, and != its negation.
equal_to == mask(sameBit, 1)
not_equal_to == not_b_1(equal_to)

\* operator > of x and y, whose prefix is the same in either order: the bit of
\* x at the first difference.  What set_bits does to shifted is not used.
greater(x, y) ==
  LET xEdgeBit == and_b(and_b(bit_right_shift(sameBit, 1), not_b(sameBit)), x)
  IN  Signed(x, y, bit_xor(xEdgeBit))

\* operators >, <, >= and <=, all by >.
greater_than == greater(Word(x_vec), Word(y_vec))
less_than == greater(Word(y_vec), Word(x_vec))
greater_equal == not_b_1(less_than)
less_equal == not_b_1(greater_than)

\* compare, both at once: here what set_bits does is used.
shifted == set_bits(bit_right_shift(sameBit, 1), 2 ^ (digits - 1))
xEdgeBit_eq == and_b(shifted, not_b(sameBit))
eq_bits == not_b_1(bit_xor(xEdgeBit_eq))
gt_bits == Signed(Word(x_vec), Word(y_vec), bit_xor(and_b(xEdgeBit_eq, Word(x_vec))))

Compare ==
  /\ operation = "comparison"
  /\ i > Width
  /\ results = <<>>
  /\ results' = [equal_to |-> equal_to, not_equal_to |-> not_equal_to,
                 greater_than |-> greater_than, less_than |-> less_than,
                 greater_equal |-> greater_equal, less_equal |-> less_equal,
                 eq_bits |-> eq_bits, gt_bits |-> gt_bits]
  /\ UNCHANGED <<operation, x_vec, y_vec, sameBit, g, p, carry_i, i, sum>>

-----------------------------------------------------------------------------
\* Fault: the carries are not propagated through the lower half.
Fault_prefix_sum(g_x, p_x, g_y, p_y) == <<or_b(g_x, and_b(p_x, g_y)), p_x>>

prefix_sum(g_x, p_x, g_y, p_y) ==
  <<or_b(g_x, and_b(p_x, g_y)), and_b(p_x, p_y)>>

PrefixRound ==
  /\ operation = "prefix_adder"
  /\ i <= Width
  /\ LET res == prefix_sum(g, p, reverse_bit_level_shift(g, i), reverse_bit_level_shift(p, i))
     IN  g' = res[1] /\ p' = res[2]
  /\ i' = 2 * i
  /\ UNCHANGED <<operation, x_vec, y_vec, sameBit, carry_i, sum, results>>

\* The level after the last says that the sum has been returned.
PrefixSum ==
  /\ operation = "prefix_adder"
  /\ i = 2 * Width
  /\ sum' = xor_b(xor_b(Word(x_vec), Word(y_vec)), bit_left_shift(g, 1))
  /\ i' = 2 * i
  /\ UNCHANGED <<operation, x_vec, y_vec, sameBit, g, p, carry_i, results>>

\* Bit i of every element, compressed, with the carries of bit i - 1.
RippleBit ==
  /\ operation = "ripple_adder"
  /\ i < Width
  /\ sum' = [sum EXCEPT ![i] = p[i] # carry_i]
  /\ carry_i' = IF i < Width - 1 THEN g[i] \/ (carry_i /\ p[i]) ELSE carry_i
  /\ i' = i + 1
  /\ UNCHANGED <<operation, x_vec, y_vec, sameBit, g, p, results>>

BooleanReturned ==
  \/ operation = "comparison" /\ results # <<>>
  \/ operation = "prefix_adder" /\ i > 2 * Width
  \/ operation = "ripple_adder" /\ i = Width

BooleanNext == BitSameRound \/ Compare \/ PrefixRound \/ PrefixSum \/ RippleBit

-----------------------------------------------------------------------------
\* A bit of bit_same says that the operands agree from it up to the end of
\* its part, and the parts double with every round until they are the word.
SamePrefix ==
  operation = "comparison" =>
    \A b \in Bits :
      LET part == i \div 2
      IN  sameBit[b] <=> \A c \in b .. (b \div part) * part + part - 1 :
                           Word(x_vec)[c] = Word(y_vec)[c]

\* compare's "results of the elementwise equality checks" (sorting.h:14-15):
\* one bit, set if and only if the elements are equal.
OneBit(truth) == [b \in Bits |-> b = 0 /\ truth]
EqBitsAreEquality == results # <<>> => results.eq_bits = OneBit(x_vec = y_vec)

\* The prefix is right in every round, and all comparisons give one bit that
\* is the truth about the signed operands: the first difference may be at the
\* sign, which bit_xor leaves out, right below it, where no bit of the prefix
\* is shifted in but the one set_bits sets, or nowhere.
ComparesRight ==
  /\ SamePrefix
  /\ EqBitsAreEquality
  /\ results # <<>> =>
       /\ results.equal_to = results.eq_bits
       /\ results.not_equal_to = OneBit(x_vec # y_vec)
       /\ results.gt_bits = OneBit(x_vec > y_vec)
       /\ results.greater_than = results.gt_bits
       /\ results.less_than = OneBit(x_vec < y_vec)
       /\ results.greater_equal = OneBit(x_vec >= y_vec)
       /\ results.less_equal = OneBit(x_vec <= y_vec)

\* Whether adding the lower bits from b up to below c carries into c.
Carries(b, c) ==
  LET part(n) == (n \div 2 ^ b) % 2 ^ (c - b)
  IN  part(x_vec) + part(y_vec) >= 2 ^ (c - b)

\* After every round of the parallel adder g says which bits are carried out
\* of, counting from the beginning of their part, the parts doubling, and the
\* sum taken from them is the sum of the words, modulo 2 ^ Width; the ripple
\* carry adder has added the bits it has passed.
AddsRight ==
  /\ (operation = "prefix_adder" /\ ~BooleanReturned) => \A b \in Bits :
       LET part == i \div 2
       IN  g[b] <=> Carries((b \div part) * part, b + 1)
  /\ operation = "ripple_adder" => \A b \in 0 .. i - 1 : sum[b] = Word(x_vec + y_vec)[b]
  /\ (operation \in Adders /\ BooleanReturned) => sum = Word(x_vec + y_vec)
==============================================================================
