--------------------------- MODULE MCReplicated3PC ---------------------------
(* Programs for Replicated3PC, over words of three bits.                    *)
EXTENDS Replicated3PC

ShareA(party) == [op |-> "secret_share_a", party |-> party]
ShareB(party) == [op |-> "secret_share_b", party |-> party]
Unary(op, x) == [op |-> op, x |-> x]
Binary(op, x, y) == [op |-> op, x |-> x, y |-> y]

MCRandoms == {0, 6} \X {0, 6}

MCPrograms == {
  \* Two secrets of different parties, an operation on them, the result opened.
  <<ShareA(0), ShareA(1), Binary("multiply_a", 1, 2), Unary("open_shares_a", 3)>>,
  <<ShareB(2), ShareB(2), Binary("and_b", 1, 2), Unary("open_shares_b", 3)>>,
  \* Local operations, and rounds of several operations in a row.
  <<ShareA(1), Unary("neg_a", 1), Binary("sub_a", 2, 1), Binary("add_a", 3, 2),
    Binary("multiply_a", 4, 1), Unary("open_shares_a", 5)>>,
  <<ShareB(1), Unary("ltz", 1), Unary("not_b_1", 2), Binary("xor_b", 3, 1),
    Unary("b2a_bit", 4), Unary("open_shares_a", 5)>>,
  \* Arithmetic shares turned into boolean ones.
  <<ShareA(0)>> \o Redistribute(1) \o <<Unary("not_b", 2), Unary("open_shares_b", 4)>>,
  \* Division by a constant.
  <<ShareA(2), [op |-> "div_const_a", x |-> 1, c |-> 3]>>}
==============================================================================
