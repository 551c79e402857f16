---------------------------- MODULE Fantastic4PC ----------------------------
(***************************************************************************)
(* The operations of the four-party protocol                               *)
(* (core/protocols/fantastic_4pc.h), run by parties that follow it over a  *)
(* network that may alter MaxAltered of their messages in some programs.   *)
(*                                                                         *)
(* A secret is the sum (or xor) of four words.  Party p holds three of     *)
(* them, all but number p, beginning with number p + 1: x(0), x(1) and     *)
(* x(2) of the code are x[1], x[2] and x[3].  A word that must reach a     *)
(* party is sent to it by two others; a party that finds them different    *)
(* accuses the two and exits.  "Hashes" are the words themselves, as in    *)
(* the code, and the random masks are ZeroShare and left out.              *)
(***************************************************************************)
EXTENDS Protocol

CONSTANTS
  MaxAltered,   \* bound: messages altered on their way
  Alterable     \* the programs in which messages are altered

ASSUME FourPartiesAssumption ==
  /\ PartiesNum = 4
  /\ MaxAltered \in Nat
  /\ Alterable \subseteq Programs

VARIABLES
  accused,   \* parties that have accused two others and exited
  altered    \* messages altered so far

vars == <<protocolVars, accused, altered>>

get_shares(kind, data, share_1, share_2, share_3) ==
  LET share_4 == Minus(kind, Minus(kind, Minus(kind, data, share_1), share_2), share_3)
  IN  <<<<share_2, share_3, share_4>>, <<share_3, share_4, share_1>>,
        <<share_4, share_1, share_2>>, <<share_1, share_2, share_3>>>>

Init ==
  /\ program \in Programs
  /\ \E data \in Data, shares \in Randoms :
       ProtocolInit(data,
         get_shares(Kind(program[1].op), data, shares[1], shares[2], shares[3]))
  /\ accused = {}
  /\ altered = 0

Replication == 1 .. 3

Running(p, ops, n) == At(p, ops, n) /\ p \notin accused
InProtocolCall == InCall /\ UNCHANGED <<accused, altered>>
Finish(p, results, values) == Return(p, results, values) /\ UNCHANGED <<accused, altered>>

\* The party compares words it received and exits if they differ.
Agree(p, m, n) == got[p][m] = got[p][n]
Accuse(p) ==
  /\ accused' = accused \cup {p}
  /\ UNCHANGED <<protocolVars, altered>>

-----------------------------------------------------------------------------
(* Operations without communication.                                       *)

add_a(x, y) == [k \in Replication |-> Wrap(x[k] + y[k])]
sub_a(x, y) == [k \in Replication |-> Wrap(x[k] - y[k])]
Fault_neg_a(x) == [k \in Replication |-> -x[k]]   \* fault: not a word
neg_a(x)    == [k \in Replication |-> Wrap(-x[k])]
xor_b(x, y) == [k \in Replication |-> Xor(x[k], y[k])]
ltz(x)      == [k \in Replication |-> Truth(Signed(x[k]) < 0)]

\* Fault: every word is negated, as in the three-party protocol.
Fault_not_b(p, x) == [k \in Replication |-> Not(x[k])]

\* Word number 3 is negated by the three parties that hold it.
not_b(p, x)   == IF p = 3 THEN x ELSE [x EXCEPT ![3 - p] = Not(@)]
not_b_1(p, x) == IF p = 3 THEN x ELSE [x EXCEPT ![3 - p] = Truth(@ = 0)]

LocalResult(p) ==
  LET op == Instr(p).op IN
  CASE op = "add_a"   -> add_a(X(p), Y(p))
    [] op = "sub_a"   -> sub_a(X(p), Y(p))
    [] op = "neg_a"   -> neg_a(X(p))
    [] op = "xor_b"   -> xor_b(X(p), Y(p))
    [] op = "not_b"   -> not_b(p, X(p))
    [] op = "not_b_1" -> not_b_1(p, X(p))
    [] op = "ltz"     -> ltz(X(p))

Local(p) ==
  /\ Running(p, LocalOps, 0)
  /\ Finish(p, <<Result(Kind(Instr(p).op), LocalResult(p))>>, <<LocalPlain(p)>>)

-----------------------------------------------------------------------------
(* multiply_a and and_b, the same code with + and * or with ^ and &.       *)

MultiplyOps == {"multiply_a", "and_b"}

\* The products of words number i and j, at a party that holds them.
Cross(p, i, j) ==
  LET kind == Kind(Instr(p).op)
  IN  Plus(kind, Times(kind, X(p)[i], Y(p)[j]), Times(kind, X(p)[j], Y(p)[i]))

\* shares_1_1 to party +2, and what should be party +3's other copy of one.
NeighbourExchange(p) ==
  /\ \/ /\ Running(p, MultiplyOps, 0)
        /\ exchangeShares(p, Cross(p, 1, 2), 2, 2)
     \/ /\ Running(p, MultiplyOps, 1)
        /\ exchangeShares(p, Cross(p, 2, 3), 3, 1)
  /\ InProtocolCall

NeighboursAgree(p) == Agree(p, 1, 2)

\* shares_2_1: parties 0 and 1 are the sources for parties 3 and 2, who are
\* also the second source for each other.
\* Fault: shares_1_1 is sent for shares_2_1.
Fault_OppositeSend(p) ==
  /\ Running(p, MultiplyOps, 2)
  /\ NeighboursAgree(p)
  /\ sendShares(p, Cross(p, 1, 2), IF p \in {0, 3} THEN 3 ELSE 1)
  /\ InProtocolCall

OppositeSend(p) ==
  /\ Running(p, MultiplyOps, 2)
  /\ NeighboursAgree(p)
  /\ sendShares(p, Cross(p, 1, 3), IF p \in {0, 3} THEN 3 ELSE 1)
  /\ InProtocolCall

OppositeReceive(p) ==
  /\ p \in {2, 3}
  /\ \/ Running(p, MultiplyOps, 3) /\ receiveShares(p, 1)
     \/ Running(p, MultiplyOps, 4) /\ receiveShares(p, 3)
  /\ InProtocolCall

MultiplyCalls(p) == IF p \in {2, 3} THEN 5 ELSE 3
Fault_OppositesAgree(p) == p = 2 => Agree(p, 3, 4)   \* fault: party 3 does not compare
OppositesAgree(p) == p \in {2, 3} => Agree(p, 3, 4)

MultiplyAccuse(p) ==
  /\ \/ Running(p, MultiplyOps, 2) /\ ~NeighboursAgree(p)
     \/ Running(p, MultiplyOps, 5) /\ ~OppositesAgree(p)
  /\ Accuse(p)

\* replicated_1, replicated_2 and replicated_3 of party p.
ProductShares(p) ==
  LET kind       == Kind(Instr(p).op)
      sum(u, v)  == Plus(kind, u, v)
      square(k)  == Times(kind, X(p)[k], Y(p)[k])
      shares_2_1 == Cross(p, 1, 3)
      first      == sum(square(1), Cross(p, 1, 2))
      second     == sum(square(2), Cross(p, 2, 3))
      third      == sum(square(3), got[p][1])
  IN  <<IF p \in {0, 3} THEN sum(first, shares_2_1) ELSE first,
        IF p \in {2, 3} THEN sum(second, got[p][3]) ELSE second,
        IF p \in {1, 2} THEN sum(third, shares_2_1) ELSE third>>

ProductPlain(p) ==
  IF Unknown \in {PlainX(p), PlainY(p)} THEN Unknown
  ELSE Times(Kind(Instr(p).op), PlainX(p), PlainY(p))

\* Fault: the second copy of shares_2_1 or shares_2_2 is not received.
Fault_MultiplyReturn(p) ==
  /\ Running(p, MultiplyOps, IF p \in {2, 3} THEN 4 ELSE 3)
  /\ Finish(p, <<Result(Kind(Instr(p).op), ProductShares(p))>>, <<ProductPlain(p)>>)

MultiplyReturn(p) ==
  /\ Running(p, MultiplyOps, MultiplyCalls(p))
  /\ OppositesAgree(p)
  /\ Finish(p, <<Result(Kind(Instr(p).op), ProductShares(p))>>, <<ProductPlain(p)>>)

-----------------------------------------------------------------------------
(* open_shares_a and open_shares_b: fetch the word this party lacks.       *)

OpenOps == {"open_shares_a", "open_shares_b"}

OpenSend(p) ==
  /\ Running(p, OpenOps, 0)
  /\ exchangeShares(p, X(p)[1], 1, 3)
  /\ InProtocolCall

Opened(kind, x, share) == Plus(kind, Plus(kind, Plus(kind, x[1], x[2]), x[3]), share)

OpenReturn(p) ==
  /\ Running(p, OpenOps, 1)
  /\ Finish(p, <<Result("open", <<Opened(Kind(Instr(p).op), X(p), got[p][1])>>)>>,
            <<PlainX(p)>>)

-----------------------------------------------------------------------------
(* inp_a and inp_b(res_, i, j, g, h): parties i and j share a number both  *)
(* know, g receives it from both, h adds a random word.                    *)
(*                                                                         *)
(* div_const_a and redistribute_shares_b call it twice for every vector    *)
(* they share, once for the sum of words 1 and 2, which parties 0 and 3    *)
(* know, and once for the sum of words 3 and 0, which 2 and 1 know.        *)

Roles == <<[i |-> 0, j |-> 3, g |-> 1, h |-> 2], [i |-> 2, j |-> 1, g |-> 3, h |-> 0]>>

Inp(op, vector, n, reg, c) ==
  [op |-> op, vector |-> vector, roles |-> Roles[n], x |-> reg, c |-> c]

\* k results precede it.  C++ leaves open which of the two calls in a sum
\* inp_a(...) + inp_a(...) is made first; all parties run the same build.
DivConst(reg, c, k, first) ==
  LET second == 3 - first IN
  <<Inp("div_const_a", "quotient", first, reg, c), Inp("div_const_a", "quotient", second, reg, c),
    [op |-> "add_a", x |-> k + 1, y |-> k + 2],
    Inp("div_const_a", "error", first, reg, c), Inp("div_const_a", "error", second, reg, c),
    [op |-> "add_a", x |-> k + 4, y |-> k + 5]>>

RedistributeShares(reg) ==
  <<Inp("redistribute_shares_b", "sum", 1, reg, 1), Inp("redistribute_shares_b", "sum", 2, reg, 1)>>

InpOps == {"div_const_a", "redistribute_shares_b"}
InpAt(p, role, n) == Running(p, InpOps, n) /\ Instr(p).roles[role] = p

\* The number parties i and j share: res_, or err_ of div_const_a.
Known(p) ==
  LET x     == X(p)
      sum   == Signed(IF p \in {0, 2} THEN Wrap(x[1] + x[2]) ELSE Wrap(x[2] + x[3]))
      parts == DivisionParts(4, sum, sum, Instr(p).c)
      part  == IF p \in {0, 3} THEN parts[1] ELSE parts[2]
  IN  CASE Instr(p).vector = "sum"      -> Wrap(sum)
        [] Instr(p).vector = "quotient" -> Wrap(part.quotient)
        [] Instr(p).vector = "error"    -> Wrap(part.error)

InpShare(p) == Minus(Kind(Instr(p).op), Known(p), ZeroShare)

InpSend(p) ==
  /\ \/ InpAt(p, "i", 0) /\ sendShares(p, InpShare(p), 1)
     \/ InpAt(p, "j", 0) /\ sendShares(p, InpShare(p), 2)
  /\ InProtocolCall

\* Fault: both copies are expected from party i.
Fault_InpReceive(p) ==
  /\ InpAt(p, "g", 0) \/ InpAt(p, "g", 1)
  /\ receiveShares(p, 3)
  /\ InProtocolCall

InpReceive(p) ==
  /\ \/ InpAt(p, "g", 0) /\ receiveShares(p, 3)
     \/ InpAt(p, "g", 1) /\ receiveShares(p, 2)
  /\ InProtocolCall

InpAccuse(p) ==
  /\ InpAt(p, "g", 2)
  /\ ~Agree(p, 1, 2)
  /\ Accuse(p)

InpResult(p, shares) ==
  Finish(p, <<Result(Kind(Instr(p).op), shares)>>, <<Unknown>>)

InpReturn(p) ==
  \/ InpAt(p, "i", 1) /\ InpResult(p, <<ZeroShare, InpShare(p), 0>>)
  \/ InpAt(p, "j", 1) /\ InpResult(p, <<0, ZeroShare, InpShare(p)>>)
  \/ InpAt(p, "g", 2) /\ Agree(p, 1, 2) /\ InpResult(p, <<got[p][1], 0, 0>>)
  \/ InpAt(p, "h", 0) /\ InpResult(p, <<0, 0, ZeroShare>>)

-----------------------------------------------------------------------------
(* b2a_bit: open the masked low bit; word number 1 becomes the bit.  The   *)
(* mask r is an EVector of zeros.                                          *)

B2ASend(p) ==
  /\ Running(p, {"b2a_bit"}, 0)
  /\ exchangeShares(p, LowBit(X(p)[1]), 1, 3)
  /\ InProtocolCall

BitShares(p, bit) ==
  [k \in Replication |-> LowBit(bit * Truth((p + k - 1) % 4 = 0) - 0 * (bit * 2 - 1))]

B2AReturn(p) ==
  /\ Running(p, {"b2a_bit"}, 1)
  /\ LET masked == [k \in Replication |-> LowBit(X(p)[k])]
     IN  Finish(p, <<Result("a", BitShares(p, Opened("b", masked, got[p][1])))>>,
                <<IF PlainX(p) = Unknown THEN Unknown ELSE LowBit(PlainX(p))>>)

-----------------------------------------------------------------------------
(* secret_share_a and secret_share_b.                                      *)

ShareOps == {"secret_share_a", "secret_share_b"}

Dealer(p) == Instr(p).party = p

\* The data party makes the shares, all of them at once ...
DealShares(p) ==
  /\ Running(p, ShareOps, 0)
  /\ Dealer(p)
  /\ dealt[p] = <<>>
  /\ \E data \in Data, shares \in Randoms :
       /\ dealt' = [dealt EXCEPT ![p] =
                      get_shares(Kind(Instr(p).op), data, shares[1], shares[2], shares[3])]
       /\ plain' = Append(plain, data)
  /\ UNCHANGED <<netVars, program, pc, regs, accused, altered>>

\* ... and sends three to each other party, addressed by partyID + 1 to + 3.
Recipient(p, k) == p + k

DealSend(p) ==
  /\ dealt[p] # <<>>
  /\ \E k \in 1 .. 3, n \in Replication :
       /\ Running(p, ShareOps, 3 * (k - 1) + n - 1)
       /\ sendShares(p, dealt[p][k + 1][n], Recipient(p, k))
  /\ InProtocolCall

DealReturn(p) ==
  /\ dealt[p] # <<>>
  /\ Running(p, ShareOps, 9)
  /\ Finish(p, <<Result(Kind(Instr(p).op), dealt[p][1])>>, <<>>)

ReceiveShares(p) ==
  /\ \E n \in 0 .. 2 : Running(p, ShareOps, n)
  /\ ~Dealer(p)
  /\ receiveShares(p, Instr(p).party - p)
  /\ InProtocolCall

ReceiveReturn(p) ==
  /\ Running(p, ShareOps, 3)
  /\ ~Dealer(p)
  /\ Finish(p, <<Result(Kind(Instr(p).op), got[p])>>, <<>>)

-----------------------------------------------------------------------------

Operations ==
  LocalOps \cup MultiplyOps \cup OpenOps \cup InpOps \cup ShareOps \cup {"b2a_bit"}

\* Earlier results that are shared, which an instruction may operate on.
Operands(instrs, k) == {x \in 1 .. k - 1 : instrs[x].op \notin OpenOps}

\* A program shares a secret first.
ASSUME ProgramsAssumption ==
  \A instrs \in Programs :
    /\ Len(instrs) \in Nat \ {0}
    /\ instrs[1].op \in ShareOps
    /\ \A k \in 1 .. Len(instrs) :
         LET op == instrs[k].op IN
         /\ op \in Operations
         /\ op \in ShareOps => instrs[k].party \in Parties
         /\ op \notin ShareOps => instrs[k].x \in Operands(instrs, k)
         /\ op \in BinaryOps \cup MultiplyOps => instrs[k].y \in Operands(instrs, k)
         /\ op \in InpOps =>
              /\ instrs[k].roles \in {Roles[1], Roles[2]}
              /\ instrs[k].c \in 1 .. 2 ^ (Width - 1) - 1
         /\ op = "div_const_a" => instrs[k].vector \in {"quotient", "error"}
         /\ op = "redistribute_shares_b" => instrs[k].vector = "sum"

\* The vectors' types see to it that operands are of the right kind, and ! is for
\* what comparisons return.
ASSUME OperandTypesAssumption ==
  \A instrs \in Programs :
    /\ \A k \in 1 .. Len(instrs) :
         LET instr == instrs[k] IN
         /\ instr.op \notin ShareOps => Kind(instrs[instr.x].op) = OperandKind(instr.op)
         /\ instr.op \in BinaryOps \cup MultiplyOps =>
              Kind(instrs[instr.y].op) = OperandKind(instr.op)
    /\ \E bits \in SUBSET (1 .. Len(instrs)) :
         /\ \A k \in bits : SingleBit(instrs, k, bits)
         /\ \A k \in 1 .. Len(instrs) : instrs[k].op = "not_b_1" => instrs[k].x \in bits

\* inp_a and inp_b are called in whole divisions and redistributions only.
ASSUME CompositesAssumption ==
  \A instrs \in Programs : \A k \in 1 .. Len(instrs) :
    instrs[k].op \in InpOps =>
      \E n \in 0 .. k - 1, first \in {1, 2} :
        LET parts == IF instrs[k].op = "div_const_a"
                     THEN DivConst(instrs[k].x, instrs[k].c, n, first)
                     ELSE RedistributeShares(instrs[k].x)
        IN  /\ k <= n + Len(parts) /\ n + Len(parts) <= Len(instrs)
            /\ \A j \in 1 .. Len(parts) : instrs[n + j] = parts[j]

Operation(p) ==
  \/ Local(p)
  \/ NeighbourExchange(p) \/ OppositeSend(p) \/ OppositeReceive(p)
  \/ MultiplyAccuse(p) \/ MultiplyReturn(p)
  \/ OpenSend(p) \/ OpenReturn(p)
  \/ InpSend(p) \/ InpReceive(p) \/ InpAccuse(p) \/ InpReturn(p)
  \/ B2ASend(p) \/ B2AReturn(p)
  \/ DealShares(p) \/ DealSend(p) \/ DealReturn(p)
  \/ ReceiveShares(p) \/ ReceiveReturn(p)

Network(p) == MPI(p) /\ UNCHANGED <<accused, altered>>

\* A word of a message changes on its way.  Parties only compare words, so one
\* other word stands for all.
Alter(link) ==
  /\ program \in Alterable
  /\ altered < MaxAltered
  /\ \E n \in DOMAIN net[link] : net' = [net EXCEPT ![link][n] = Wrap(@ + 1)]
  /\ altered' = altered + 1
  /\ UNCHANGED <<sending, receiving, calls, got, program, pc, regs, dealt, plain, accused>>

Next ==
  \/ \E p \in Parties : Operation(p) \/ Network(p)
  \/ \E link \in Parties \X Parties : Alter(link)

Spec == Init /\ [][Next]_vars

\* The processes run, and MPI completes what it has to.
Fairness ==
  \A p \in Parties :
    /\ WF_vars(Operation(p))
    /\ WF_vars(Deliver(p) /\ InProtocolCall)
    /\ Buffered => WF_vars(Network(p))

FairSpec == Spec /\ Fairness

-----------------------------------------------------------------------------
(* Properties.                                                             *)

\* Registers hold words of the share type, three of each at every party, and
\* parties receive nothing else.
TypeOK == ProtocolTypeOK(3) /\ accused \subseteq Parties /\ altered \in 0 .. MaxAltered

\* Every word of a result is the same at the three parties that hold it, even
\* if a message of a product, a division or a redistribution was altered on its
\* way: whoever receives it notices and exits, and no result of the others is
\* inconsistent.
Replicated ==
  \A p \in Parties :
    LET next == Relative(p, 1) IN
    \A k \in SharedBy({p, next}) :
      /\ regs[next][k].shares[1] = regs[p][k].shares[2]
      /\ regs[next][k].shares[2] = regs[p][k].shares[3]

\* Reconstruction: reconstruct_from_a and reconstruct_from_b.
Reconstruct(k) ==
  LET kind == regs[0][k].kind
      share(p) == regs[p][k].shares[1]
      sum(u, v) == Plus(kind, u, v)
  IN  sum(sum(sum(share(0), share(1)), share(2)), share(3))

\* The words of a result add up to the plaintext the operation promises,
\* whatever the words of its operands were and whatever message was altered.
SharesMatchPlain ==
  \A k \in SharedBy(Parties) : plain[k] # Unknown => Reconstruct(k) = plain[k]

\* The quotient and the error div_const_a shares satisfy
\* quotient * c + error = x - c, where c is made up for in the correction.
DivisionIdentity ==
  \A k \in SharedBy(Parties) \cap DOMAIN program :
    /\ k > 3    \* the last instruction of a division
    /\ program[k].op = "add_a"
    /\ program[k - 1].op = "div_const_a"
    /\ program[k - 1].vector = "error"
    => Wrap(Reconstruct(k - 3) * program[k - 1].c + Reconstruct(k))
         = Wrap(Reconstruct(program[k - 1].x) - program[k - 1].c)

\* The two vectors redistribute_shares_b shares add up to the number whose
\* shares they were: adding them as binary numbers converts it (a2b).
RedistributionIdentity ==
  \A k \in SharedBy(Parties) \cap DOMAIN program :
    /\ k > 2    \* the second of the two
    /\ program[k].op = "redistribute_shares_b"
    /\ program[k].roles = Roles[2]
    => Wrap(Reconstruct(k - 1) + Reconstruct(k)) = Reconstruct(program[k].x)

\* Honest parties do not accuse each other: the two sources of a word always
\* send the same one, and the receiver compares messages of one operation.
NobodyAccused == altered = 0 => accused = {}

\* The parties never wait for each other in a circle, nor for a message that
\* nobody sends, unless one has exited over an altered message: all of them
\* reach the end of the program.
TerminatesUnaltered == <>(AllDone \/ altered > 0)

\* All results are what their plaintexts promise, in each of these senses.
ResultsMatchPlain ==
  /\ SharesMatchPlain
  /\ OpenedIsPlain
  /\ DivisionIdentity
  /\ RedistributionIdentity
==============================================================================
