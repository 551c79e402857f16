---------------------------- MODULE MCFantastic4PC ----------------------------
(* Programs for Fantastic4PC, over words of three bits.  Party 0 shares all  *)
(* secrets, as in every program of the repository.                           *)
EXTENDS Fantastic4PC

ShareA == [op |-> "secret_share_a", party |-> 0]
ShareB == [op |-> "secret_share_b", party |-> 0]
Unary(op, x) == [op |-> op, x |-> x]
Binary(op, x, y) == [op |-> op, x |-> x, y |-> y]

\* Shares that tell each other apart.
MCRandom == {<<1, 6, 3>>}

\* Every operation, after the first secret has been shared.
MCOperations == {
  <<ShareA, Unary("neg_a", 1), Binary("add_a", 1, 1), Binary("sub_a", 2, 3)>>,
  <<ShareB, Unary("not_b", 1), Binary("and_b", 1, 2)>>,
  <<ShareB, Unary("ltz", 1), Unary("not_b_1", 2), Binary("xor_b", 1, 3), Unary("b2a_bit", 4),
    Unary("open_shares_a", 5)>>,
  <<ShareA>> \o RedistributeShares(1) \o <<Unary("open_shares_b", 3)>>,
  <<ShareA>> \o DivConst(1, 3, 1, 2),
  \* A second secret is shared while the parties are at different operations.
  <<ShareA, ShareA, Binary("multiply_a", 1, 2), Unary("open_shares_a", 3)>>}

\* The operations in which every word is received twice and compared.
MCCompared == {
  <<ShareA, Binary("multiply_a", 1, 1), Binary("add_a", 1, 2)>>,
  <<ShareA>> \o RedistributeShares(1),
  <<ShareA>> \o DivConst(1, 3, 1, 1)}

MCAll == MCOperations \cup MCCompared

\* One product, the operation the parties' sends may block each other in.
MCProduct == {<<ShareA, Binary("multiply_a", 1, 1)>>}

\* A second secret is shared by a party other than 0.
MCOtherDealer == {<<ShareA, [op |-> "secret_share_a", party |-> 1]>>}
==============================================================================
