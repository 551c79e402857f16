------------------------------ MODULE Protocol ------------------------------
(***************************************************************************)
(* What the protocols of core/protocols have in common: every party runs   *)
(* the same program of protocol operations, at its own pace, over the      *)
(* calls of PartyNet.  Replicated3PC and Fantastic4PC add the operations.  *)
(*                                                                         *)
(* A program is a sequence of instructions, records with the operation's   *)
(* name in op and its operands, the numbers of earlier results, in x and   *)
(* y.  The i-th result is register i at every party.  All operations work  *)
(* elementwise, so the vector of a register is one word.                   *)
(***************************************************************************)
EXTENDS PartyNet, ConstantDivision

CONSTANTS
  Programs,   \* the programs run; each begins by sharing a secret
  Data,       \* plaintexts the data party may share
  Randoms     \* words getMultipleRandom may return for all shares but the last

ASSUME ProtocolAssumption ==
  /\ Data \subseteq WordSet
  /\ Randoms \subseteq [1 .. PartiesNum - 1 -> WordSet]

VARIABLES
  program,    \* the instructions all parties run
  pc,         \* party -> the instruction it is at
  regs,       \* party -> the results it has computed
  dealt,      \* party -> the shares it made in secret_share, of all parties
  plain       \* the plaintexts of the results, as far as any party got

protocolVars == <<netVars, program, pc, regs, dealt, plain>>

Unknown == Modulus   \* not a function of the plaintexts of the operands

Kind(op) ==
  IF op \in {"add_a", "sub_a", "neg_a", "multiply_a", "secret_share_a", "open_shares_a",
             "div_const_a", "b2a_bit"}
  THEN "a" ELSE "b"

\* A run begins when every party has finished the first instruction, which
\* shared a secret: shares[p + 1] is party p's part of it.
ProtocolInit(secret, shares) ==
  /\ NetInit
  /\ pc = [p \in Parties |-> 2]
  /\ regs = [p \in Parties |->
               <<[kind |-> Kind(program[1].op),
                  shares |-> shares[Relative(p, -program[1].party) + 1]]>>]
  /\ dealt = [p \in Parties |-> <<>>]
  /\ plain = <<secret>>

Instr(p) == program[pc[p]]

\* Party p runs an operation of ops and has made n calls in it.
At(p, ops, n) ==
  /\ pc[p] <= Len(program)
  /\ Instr(p).op \in ops
  /\ calls[p] = n
  /\ Returned(p)

\* Operands: the shares party p holds and the plaintext.
X(p) == regs[p][Instr(p).x].shares
Y(p) == regs[p][Instr(p).y].shares
PlainX(p) == plain[Instr(p).x]
PlainY(p) == plain[Instr(p).y]

Result(kind, shares) == [kind |-> kind, shares |-> shares]

\* The operation returns results, whose plaintexts are values.
Return(p, results, values) ==
  /\ regs' = [regs EXCEPT ![p] = @ \o results]
  /\ pc' = [pc EXCEPT ![p] = @ + 1]
  /\ dealt' = [dealt EXCEPT ![p] = <<>>]
  /\ plain' = IF Len(plain) > Len(regs[p]) THEN plain ELSE plain \o values
  /\ ForgetCalls(p)
  /\ UNCHANGED program

InCall == UNCHANGED <<program, pc, regs, dealt, plain>>

\* What getMultipleNext draws: in every build and for every queue the two
\* terms of a "share of zero" come from equal seeds, so they cancel out.
ZeroShare == 0

-----------------------------------------------------------------------------
\* What the operations without communication promise for the plaintexts.
UnaryOps == {"neg_a", "not_b", "not_b_1", "ltz"}
BinaryOps == {"add_a", "sub_a", "xor_b"}
LocalOps == UnaryOps \cup BinaryOps

LocalPlain(p) ==
  LET op == Instr(p).op
      u  == PlainX(p)
  IN  IF u = Unknown \/ (op \in BinaryOps /\ PlainY(p) = Unknown) THEN Unknown
      ELSE CASE op = "add_a"   -> Wrap(u + PlainY(p))
             [] op = "sub_a"   -> Wrap(u - PlainY(p))
             [] op = "xor_b"   -> Xor(u, PlainY(p))
             [] op = "neg_a"   -> Wrap(-u)
             [] op = "not_b"   -> Not(u)
             [] op = "not_b_1" -> Truth(u = 0)
             [] op = "ltz"     -> Truth(Signed(u) < 0)

\* The operands an operation is given: vectors of ASharedVector or of BSharedVector.
OperandKind(op) ==
  IF op \in {"add_a", "sub_a", "neg_a", "multiply_a", "open_shares_a", "div_const_a",
             "redistribute_shares_b"}
  THEN "a" ELSE "b"

\* An instruction that ! may use: every share of its result is a single bit.
SingleBit(instrs, k, bits) ==
  \/ instrs[k].op = "ltz"
  \/ instrs[k].op = "not_b_1" /\ instrs[k].x \in bits
  \/ instrs[k].op \in {"xor_b", "and_b"} /\ instrs[k].x \in bits /\ instrs[k].y \in bits

-----------------------------------------------------------------------------

\* MPI works on the requests of party p.
MPI(p) == Transport(p) /\ InCall

Done(p) == pc[p] > Len(program)
AllDone == \A p \in Parties : Done(p)

\* Results that every party of the set ps has computed and holds shares of.
SharedBy(ps) ==
  {k \in DOMAIN plain :
     \A p \in ps : k \in DOMAIN regs[p] /\ regs[p][k].kind # "open"}

ProtocolTypeOK(replication) ==
  /\ program \in Programs
  /\ pc \in [Parties -> 1 .. Len(program) + 1]
  /\ \A link \in Parties \X Parties : \A n \in DOMAIN net[link] : net[link][n] \in WordSet
  /\ sending \in [Parties -> Parties \cup {NoParty}]
  /\ receiving \in [Parties -> Parties \cup {NoParty}]
  /\ \A p \in Parties :
       /\ calls[p] \in Nat
       /\ \A n \in DOMAIN got[p] : got[p][n] \in WordSet
       /\ \A k \in DOMAIN regs[p] :
            \/ /\ regs[p][k].kind = "open"
               /\ regs[p][k].shares \in [1 .. 1 -> WordSet]
            \/ /\ regs[p][k].kind \in {"a", "b"}
               /\ regs[p][k].shares \in [1 .. replication -> WordSet]
       /\ Len(dealt[p]) \in {0, PartiesNum}
  /\ \A k \in DOMAIN plain : plain[k] \in WordSet \cup {Unknown}

-----------------------------------------------------------------------------
(* Properties both protocols have.                                         *)

\* Opening (open_shares_a, open_shares_b) gives every party the plaintext,
\* whenever it gets there and however far the others are.
OpenedIsPlain ==
  \A p \in Parties : \A k \in DOMAIN regs[p] :
    regs[p][k].kind = "open" /\ plain[k] # Unknown => regs[p][k].shares[1] = plain[k]

\* When the program has ended no message is left over: the parties agree on
\* how many messages every operation takes between which of them.
NoMessageLeft == AllDone => NetEmpty

\* The parties never wait for each other in a circle, nor for a message that
\* nobody sends: all of them reach the end of the program.
Terminates == <>AllDone
=============================================================================
