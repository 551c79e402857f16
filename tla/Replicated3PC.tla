---------------------------- MODULE Replicated3PC ----------------------------
(***************************************************************************)
(* The operations of the semi-honest three-party protocol                  *)
(* (core/protocols/replicated_3pc.h).                                      *)
(*                                                                         *)
(* A secret is the sum (or xor) of three words s1, s2 and s3.  Party p     *)
(* holds <<s_p, s_(p-1)>>: x(0) and x(1) of the code are x[1] and x[2].    *)
(***************************************************************************)
EXTENDS Protocol

ASSUME ThreePartiesAssumption == PartiesNum = 3

vars == protocolVars

ShareOps == {"secret_share_a", "secret_share_b", "redistribute_shares_b"}

\* Fault: party 1 gets its two shares in the wrong order.
Fault_get_shares(kind, data, share_1, share_2) ==
  LET share_3 == Minus(kind, Minus(kind, data, share_1), share_2)
  IN  <<<<share_1, share_3>>, <<share_1, share_2>>, <<share_3, share_2>>>>

get_shares(kind, data, share_1, share_2) ==
  LET share_3 == Minus(kind, Minus(kind, data, share_1), share_2)
  IN  <<<<share_1, share_3>>, <<share_2, share_1>>, <<share_3, share_2>>>>

Init ==
  /\ program \in Programs
  /\ \E data \in Data, shares \in Randoms :
       ProtocolInit(data, get_shares(Kind(program[1].op), data, shares[1], shares[2]))

-----------------------------------------------------------------------------
(* Operations without communication.                                       *)

add_a(x, y) == [k \in 1 .. 2 |-> Wrap(x[k] + y[k])]
sub_a(x, y) == [k \in 1 .. 2 |-> Wrap(x[k] - y[k])]
Fault_neg_a(x) == [k \in 1 .. 2 |-> -x[k]]   \* fault: not a word
neg_a(x)    == [k \in 1 .. 2 |-> Wrap(-x[k])]
xor_b(x, y) == [k \in 1 .. 2 |-> Xor(x[k], y[k])]
not_b(x)    == [k \in 1 .. 2 |-> Not(x[k])]
not_b_1(x)  == [k \in 1 .. 2 |-> Truth(x[k] = 0)]
ltz(x)      == [k \in 1 .. 2 |-> Truth(Signed(x[k]) < 0)]

LocalResult(p) ==
  LET op == Instr(p).op IN
  CASE op = "add_a"   -> add_a(X(p), Y(p))
    [] op = "sub_a"   -> sub_a(X(p), Y(p))
    [] op = "neg_a"   -> neg_a(X(p))
    [] op = "xor_b"   -> xor_b(X(p), Y(p))
    [] op = "not_b"   -> not_b(X(p))
    [] op = "not_b_1" -> not_b_1(X(p))
    [] op = "ltz"     -> ltz(X(p))

Local(p) ==
  /\ At(p, LocalOps, 0)
  /\ Return(p, <<Result(Kind(Instr(p).op), LocalResult(p))>>, <<LocalPlain(p)>>)

-----------------------------------------------------------------------------
(* multiply_a and and_b: a local share of the product, then one exchange.  *)
(* The code is the same for both, with + and * or with ^ and &.            *)

MultiplyOps == {"multiply_a", "and_b"}

\* Fault: a cross term is missing.
Fault_ProductShare(kind, x, y) ==
  Plus(kind, Plus(kind, Times(kind, x[1], y[1]), Times(kind, x[1], y[2])), ZeroShare)

ProductShare(kind, x, y) ==
  LET sum(u, v) == Plus(kind, u, v)
      term(i, j) == Times(kind, x[i], y[j])
  IN  sum(sum(sum(term(1, 1), term(1, 2)), term(2, 1)), ZeroShare)

LocalProduct(p) == ProductShare(Kind(Instr(p).op), X(p), Y(p))

MultiplySend(p) ==
  /\ At(p, MultiplyOps, 0)
  /\ exchangeShares(p, LocalProduct(p), 1, 2)
  /\ InCall

MultiplyReturn(p) ==
  /\ At(p, MultiplyOps, 1)
  /\ LET kind == Kind(Instr(p).op)
     IN  Return(p, <<Result(kind, <<LocalProduct(p), got[p][1]>>)>>,
                   <<Times(kind, PlainX(p), PlainY(p))>>)

-----------------------------------------------------------------------------
(* open_shares_a and open_shares_b: fetch the share this party lacks.      *)

OpenOps == {"open_shares_a", "open_shares_b"}

OpenSend(p) ==
  /\ At(p, OpenOps, 0)
  /\ exchangeShares(p, X(p)[2], 1, 2)
  /\ InCall

Opened(kind, x, share) == Plus(kind, Plus(kind, x[1], x[2]), share)

OpenReturn(p) ==
  /\ At(p, OpenOps, 1)
  /\ Return(p, <<Result("open", <<Opened(Kind(Instr(p).op), X(p), got[p][1])>>)>>,
            <<PlainX(p)>>)

-----------------------------------------------------------------------------
(* div_const_a: quotient and error shares, one exchange for each.          *)

\* What party p shares of the quotient and of the error: party 0 divides the
\* sum of its two shares and party 1 its own.
DivisionShares(p, x, c) ==
  LET sum   == Signed(Wrap(x[1] + x[2]))
      parts == DivisionParts(3, sum, Signed(x[1]), c)
  IN  IF p = 2 THEN <<ZeroShare, ZeroShare>>
      ELSE <<Wrap(parts[p + 1].quotient - ZeroShare), Wrap(parts[p + 1].error - ZeroShare)>>

DivisionSend(p) ==
  /\ \E n \in 0 .. 1 :
       /\ At(p, {"div_const_a"}, n)
       /\ exchangeShares(p, DivisionShares(p, X(p), Instr(p).c)[n + 1], 1, 2)
  /\ InCall

DivisionReturn(p) ==
  /\ At(p, {"div_const_a"}, 2)
  /\ LET shares == DivisionShares(p, X(p), Instr(p).c)
     IN  Return(p, <<Result("a", <<shares[1], got[p][1]>>),
                     Result("a", <<shares[2], got[p][2]>>)>>, <<Unknown, Unknown>>)

-----------------------------------------------------------------------------
(* b2a_bit: open the masked low bit, then share it again as a number.  The *)
(* mask r is the constant 0 the code has in place of random bits.          *)

MaskBit == 0

Masked(x) == Xor(LowBit(x[1]), MaskBit)
OpenedBit(p) == Opened("b", <<Masked(X(p)), got[p][1]>>, got[p][2])
BitShare(p) ==
  LET bit == OpenedBit(p)
  IN  LowBit(Wrap(MaskBit * (bit * (-2) + 1) + bit * (p % 2)))

B2ASend(p) ==
  /\ \/ /\ At(p, {"b2a_bit"}, 0)
        /\ exchangeShares(p, Masked(X(p)), 1, 2)
     \/ /\ At(p, {"b2a_bit"}, 1)
        /\ exchangeShares(p, got[p][1], 1, 2)
     \/ /\ At(p, {"b2a_bit"}, 2)
        /\ exchangeShares(p, BitShare(p), 1, 2)
  /\ InCall

B2AReturn(p) ==
  /\ At(p, {"b2a_bit"}, 3)
  /\ Return(p, <<Result("a", <<BitShare(p), got[p][3]>>)>>, <<LowBit(PlainX(p))>>)

-----------------------------------------------------------------------------
(* secret_share_a and secret_share_b: the data party deals the shares.     *)
(* redistribute_shares_b is two of these calls: party 0 shares x(0) + x(1) *)
(* and then party 1 shares x(0).                                           *)

Redistribute(reg) == <<[op |-> "redistribute_shares_b", party |-> 0, x |-> reg],
                       [op |-> "redistribute_shares_b", party |-> 1, x |-> reg]>>

RedistributedData(p) == IF p = 0 THEN Wrap(X(p)[1] + X(p)[2]) ELSE X(p)[1]

SharedData(p) ==
  IF Instr(p).op = "redistribute_shares_b" THEN {RedistributedData(p)} ELSE Data

Dealer(p) == Instr(p).party = p

\* The data party makes the shares, all of them at once ...
DealShares(p) ==
  /\ At(p, ShareOps, 0)
  /\ Dealer(p)
  /\ dealt[p] = <<>>
  /\ \E data \in SharedData(p), shares \in Randoms :
       /\ dealt' = [dealt EXCEPT ![p] =
                      get_shares(Kind(Instr(p).op), data, shares[1], shares[2])]
       /\ plain' = Append(plain, data)
  /\ UNCHANGED <<netVars, program, pc, regs>>

\* ... and sends two to its successor and two to its predecessor.
DealSend(p) ==
  /\ dealt[p] # <<>>
  /\ \E n \in 0 .. 3 :
       /\ At(p, ShareOps, n)
       /\ sendShares(p, dealt[p][2 + (n \div 2)][1 + (n % 2)], 1 + (n \div 2))
  /\ InCall

DealReturn(p) ==
  /\ dealt[p] # <<>>
  /\ At(p, ShareOps, 4)
  /\ Return(p, <<Result(Kind(Instr(p).op), dealt[p][1])>>, <<>>)

\* Fault: the data party's own index is used as if it were relative.
Fault_ReceiveShares(p) ==
  /\ At(p, ShareOps, 0) \/ At(p, ShareOps, 1)
  /\ ~Dealer(p)
  /\ receiveShares(p, Instr(p).party)
  /\ InCall

ReceiveShares(p) ==
  /\ At(p, ShareOps, 0) \/ At(p, ShareOps, 1)
  /\ ~Dealer(p)
  /\ receiveShares(p, Instr(p).party - p)
  /\ InCall

ReceiveReturn(p) ==
  /\ At(p, ShareOps, 2)
  /\ ~Dealer(p)
  /\ Return(p, <<Result(Kind(Instr(p).op), got[p])>>, <<>>)

-----------------------------------------------------------------------------

Operations ==
  LocalOps \cup MultiplyOps \cup OpenOps \cup ShareOps \cup {"div_const_a", "b2a_bit"}

\* Earlier results that are shared, which an instruction may operate on.
Operands(instrs, k) == {x \in 1 .. k - 1 : instrs[x].op \notin OpenOps}

\* A program shares a secret first, and divides in its last instruction only.
ASSUME ProgramsAssumption ==
  \A instrs \in Programs :
    /\ Len(instrs) \in Nat \ {0}
    /\ instrs[1].op \in {"secret_share_a", "secret_share_b"}
    /\ \A k \in 1 .. Len(instrs) :
         /\ instrs[k].op \in Operations
         /\ instrs[k].op \in ShareOps => instrs[k].party \in Parties
         /\ instrs[k].op \notin {"secret_share_a", "secret_share_b"} =>
              instrs[k].x \in Operands(instrs, k)
         /\ instrs[k].op \in BinaryOps \cup MultiplyOps =>
              instrs[k].y \in Operands(instrs, k)
         /\ instrs[k].op = "div_const_a" =>
              k = Len(instrs) /\ instrs[k].c \in 1 .. 2 ^ (Width - 1) - 1

\* The vectors' types see to it that operands are of the right kind, a2b that
\* both parties redistribute the same shares, and ! is for what comparisons return.
ASSUME OperandTypesAssumption ==
  \A instrs \in Programs :
    /\ \A k \in 1 .. Len(instrs) :
         LET instr == instrs[k] IN
         /\ instr.op \notin {"secret_share_a", "secret_share_b"} =>
              Kind(instrs[instr.x].op) = OperandKind(instr.op)
         /\ instr.op \in BinaryOps \cup MultiplyOps =>
              Kind(instrs[instr.y].op) = OperandKind(instr.op)
         /\ instr.op = "redistribute_shares_b" /\ instr.party = 1 =>
              /\ k > 2 /\ instrs[k - 1].op = instr.op
              /\ instrs[k - 1].x = instr.x /\ instrs[k - 1].party = 0
    /\ \E bits \in SUBSET (1 .. Len(instrs)) :
         /\ \A k \in bits : SingleBit(instrs, k, bits)
         /\ \A k \in 1 .. Len(instrs) : instrs[k].op = "not_b_1" => instrs[k].x \in bits

Operation(p) ==
  \/ Local(p)
  \/ MultiplySend(p) \/ MultiplyReturn(p)
  \/ OpenSend(p) \/ OpenReturn(p)
  \/ DivisionSend(p) \/ DivisionReturn(p)
  \/ B2ASend(p) \/ B2AReturn(p)
  \/ DealShares(p) \/ DealSend(p) \/ DealReturn(p)
  \/ ReceiveShares(p) \/ ReceiveReturn(p)

Next == \E p \in Parties : Operation(p) \/ MPI(p)

Spec == Init /\ [][Next]_vars

\* The processes run, and MPI completes what it has to.
Fairness ==
  \A p \in Parties :
    /\ WF_vars(Operation(p))
    /\ WF_vars(Deliver(p) /\ InCall)
    /\ Buffered => WF_vars(MPI(p))

FairSpec == Spec /\ Fairness

-----------------------------------------------------------------------------
(* Properties.                                                             *)

TypeOK == ProtocolTypeOK(2)

\* The share two parties hold in common is the same word at both, although
\* each got it by a way of its own and at another time.  Nothing in the
\* protocol compares them: a message received for the wrong operation would
\* go unnoticed.
Replicated ==
  \A p \in Parties :
    LET next == Relative(p, 1) IN
    \A k \in SharedBy({p, next}) : regs[next][k].shares[2] = regs[p][k].shares[1]

\* Reconstruction: reconstruct_from_a and reconstruct_from_b.
Reconstruct(k) ==
  LET kind == regs[0][k].kind
      share(p) == regs[p][k].shares[1]
  IN  Plus(kind, Plus(kind, share(0), share(1)), share(2))

\* The shares the parties hold of a result add up to the plaintext the
\* operation promises, whatever the shares of its operands were.
SharesMatchPlain ==
  \A k \in SharedBy(Parties) : plain[k] # Unknown => Reconstruct(k) = plain[k]

\* Division loses nothing: the quotient and the error it shares satisfy
\* quotient * c + error = x - c, where c is made up for in the correction.
DivisionIdentity ==
  LET k == Len(program) IN    \* a program divides in its last instruction only
    program[k].op = "div_const_a" /\ k + 1 \in SharedBy(Parties) =>
      Wrap(Reconstruct(k) * program[k].c + Reconstruct(k + 1))
        = Wrap(plain[program[k].x] - program[k].c)

\* The two vectors redistribute_shares_b shares add up to the number whose
\* shares they were: adding them as binary numbers converts it (a2b).
RedistributionIdentity ==
  \A k \in SharedBy(Parties) \cap (1 .. Len(program)) :
    /\ program[k].op = "redistribute_shares_b" /\ program[k].party = 1
    => Wrap(Reconstruct(k - 1) + Reconstruct(k)) = plain[program[k].x]

\* All results are what their plaintexts promise, in each of these senses.
ResultsMatchPlain ==
  /\ SharesMatchPlain
  /\ OpenedIsPlain
  /\ DivisionIdentity
  /\ RedistributionIdentity
==============================================================================
