------------------------- MODULE Replicated3PC_proofs -------------------------
(***************************************************************************)
(* The three parties of the replicated protocol keep their shares          *)
(* consistent, however far apart they are and whatever programs they run.  *)
(*                                                                         *)
(* The argument is about the mail of a link: all messages ever sent on it, *)
(* each under the number of its slot, which says by which instruction and  *)
(* as which of its messages it is sent.  A party's own state says what it  *)
(* has put into which slots and taken out of which slots, and a link is    *)
(* the part of its mail that has not been taken out, in order.             *)
(***************************************************************************)
EXTENDS Replicated3PC, Shares_proofs

Succ(p) == Relative(p, 1)
Pred(p) == Relative(p, 2)

\* What party q hears in instruction k, and from whom.
Source(k, q) == IF program[k].op \in ShareOps THEN program[k].party ELSE Pred(q)

Exchanges(op) ==
  IF op \in MultiplyOps \cup OpenOps THEN 1
  ELSE IF op = "div_const_a" THEN 2
  ELSE IF op = "b2a_bit" THEN 3 ELSE 0

Heard(k, q) ==
  IF program[k].op \in ShareOps THEN IF q = program[k].party THEN 0 ELSE 2
                                ELSE Exchanges(program[k].op)

\* The slots of the link from p to q.  The first instruction uses none.
Slots(p, q) ==
  {s \in Nat : \E k \in 2 .. Len(program), j \in 0 .. 2 :
                 s = 4 * k + j /\ p = Source(k, q) /\ j < Heard(k, q)}

\* How many of them p has used, and q has taken from, in its instruction.
SentOn(p, q) ==
  IF pc[p] > Len(program) \/ p = q \/ p # Source(pc[p], q) THEN 0
  ELSE IF program[pc[p]].op \notin ShareOps THEN calls[p]
  ELSE IF q = Succ(p) THEN (IF calls[p] < 2 THEN calls[p] ELSE 2)
                      ELSE (IF calls[p] < 2 THEN 0 ELSE calls[p] - 2)

TakenOn(p, q) ==
  IF pc[q] > Len(program) \/ p # Source(pc[q], q) THEN 0 ELSE Len(got[q])

Links == Parties \X Parties

SendPos(p, q) == 4 * pc[p] + SentOn(p, q)
TakePos(p, q) == 4 * pc[q] + TakenOn(p, q)

Pending(slots, taken, sent) == {s \in slots : taken <= s /\ s < sent}

\* Nothing is taken that has not been sent, and what has been sent and not been
\* taken is in the net.
Carries(messages, m, slots, taken, sent) ==
  /\ \A s \in slots : s < taken => s < sent
  /\ InOrder(messages, m, Pending(slots, taken, sent))

LinkInv(mail, p, q) ==
  Carries(net[<<p, q>>], mail[<<p, q>>], Slots(p, q), TakePos(p, q), SendPos(p, q))

-----------------------------------------------------------------------------
(* What a party has done in the instruction it is at.                      *)

Running(p) == pc[p] <= Len(program)
Dealing(p) == Instr(p).op \in ShareOps /\ Dealer(p)

\* Message j of the instruction, from p to q.
Message(p, q, j) ==
  LET op == Instr(p).op
  IN  CASE op \in MultiplyOps    -> LocalProduct(p)
        [] op \in OpenOps        -> X(p)[2]
        [] op = "div_const_a"    -> DivisionShares(p, X(p), Instr(p).c)[j + 1]
        [] op = "b2a_bit"        -> (IF j = 0 THEN Masked(X(p))
                                     ELSE IF j = 1 THEN got[p][1] ELSE BitShare(p))
        [] op \in ShareOps       -> dealt[p][IF q = Succ(p) THEN 2 ELSE 3][j + 1]

CountInv(p) ==
  /\ pc[p] \in 2 .. Len(program) + 1
  /\ ~Running(p) => calls[p] = 0 /\ got[p] = <<>> /\ receiving[p] = NoParty /\ dealt[p] = <<>>
  /\ Running(p) /\ Dealing(p) =>
       /\ got[p] = <<>> /\ receiving[p] = NoParty
       /\ calls[p] <= 4
       /\ dealt[p] = <<>> => calls[p] = 0
  /\ Running(p) /\ ~Dealing(p) =>
       /\ dealt[p] = <<>>
       /\ receiving[p] \in {NoParty, Source(pc[p], p)}
       /\ receiving[p] = NoParty => calls[p] = Len(got[p])
       /\ receiving[p] # NoParty => calls[p] = Len(got[p]) + 1
       /\ calls[p] <= Heard(pc[p], p)

GotInv(mail, p) ==
  Running(p) =>
    \A j \in 1 .. Len(got[p]) :
      got[p][j] = mail[<<Source(pc[p], p), p>>][4 * pc[p] + (j - 1)]

SentInv(mail, p) ==
  Running(p) =>
    \A q \in Parties, j \in 0 .. 2 :
      j < SentOn(p, q) => mail[<<p, q>>][4 * pc[p] + j] = Message(p, q, j)

-----------------------------------------------------------------------------
(* What it has got from the instructions before.                           *)

ResultKind(op) == IF op \in OpenOps THEN "open" ELSE Kind(op)

\* A share of the result of a local operation.
LocalShare(op, u, v) ==
  CASE op = "add_a"   -> Wrap(u + v)
    [] op = "sub_a"   -> Wrap(u - v)
    [] op = "neg_a"   -> Wrap(-u)
    [] op = "xor_b"   -> Xor(u, v)
    [] op = "not_b"   -> Not(u)
    [] op = "not_b_1" -> Truth(u = 0)
    [] op = "ltz"     -> Truth(Signed(u) < 0)

LocalInv(p, k) ==
  LET instr == program[k]
      x == regs[p][instr.x].shares
      y == regs[p][instr.y].shares
  IN  \A n \in 1 .. 2 :
        regs[p][k].shares[n]
          = LocalShare(instr.op, x[n], IF instr.op \in BinaryOps THEN y[n] ELSE 0)

\* The share of party p of a bit that has been opened.
BitPart(p, bit) == LowBit(Wrap(MaskBit * (bit * (-2) + 1) + bit * (p % 2)))

\* What p has sent to its successor as message j of instruction k, from its
\* operands and what it has heard.
Record(mail, p, k, j) ==
  LET instr == program[k]
      x == regs[p][instr.x].shares
      heard == mail[<<Pred(p), p>>]
  IN  CASE instr.op \in MultiplyOps ->
             ProductShare(Kind(instr.op), x, regs[p][instr.y].shares)
        [] instr.op \in OpenOps -> x[2]
        [] instr.op = "div_const_a" -> DivisionShares(p, x, instr.c)[j + 1]
        [] instr.op = "b2a_bit" ->
             (IF j = 0 THEN Masked(x)
              ELSE IF j = 1 THEN heard[4 * k]
              ELSE BitPart(p, Opened("b", <<Masked(x), heard[4 * k]>>, heard[4 * k + 1])))

RecordInv(mail, p, k) ==
  \A j \in 0 .. 2 :
    j < Exchanges(program[k].op) => mail[<<p, Succ(p)>>][4 * k + j] = Record(mail, p, k, j)

\* Register r holds what p has sent to its successor as message j of
\* instruction k, and what it has heard as the same message.
Exchanged(mail, p, r, k, j) ==
  /\ regs[p][r].shares[1] = mail[<<p, Succ(p)>>][4 * k + j]
  /\ regs[p][r].shares[2] = mail[<<Pred(p), p>>][4 * k + j]

ShareInv(mail, p, k) ==
  LET d == program[k].party
      shares == regs[p][k].shares
  IN  IF p = d THEN /\ shares[1] = mail[<<p, Succ(p)>>][4 * k + 1]
                    /\ shares[2] = mail[<<p, Pred(p)>>][4 * k]
      ELSE shares[1] = mail[<<d, p>>][4 * k] /\ shares[2] = mail[<<d, p>>][4 * k + 1]

ResultInv(mail, p, k) ==
  LET op == program[k].op
  IN  /\ regs[p][k].kind = ResultKind(op)
      /\ op \in LocalOps => LocalInv(p, k)
      /\ op \in MultiplyOps => Exchanged(mail, p, k, k, 0)
      /\ op \in OpenOps =>
           regs[p][k].shares[1]
             = Opened(Kind(op), regs[p][program[k].x].shares, mail[<<Pred(p), p>>][4 * k])
      /\ op = "div_const_a" =>
           /\ regs[p][k + 1].kind = "a"
           /\ Exchanged(mail, p, k, k, 0)
           /\ Exchanged(mail, p, k + 1, k, 1)
      /\ op = "b2a_bit" => Exchanged(mail, p, k, k, 2)
      /\ op \in ShareOps => ShareInv(mail, p, k)

Divided(p) == pc[p] > Len(program) /\ program[Len(program)].op = "div_const_a"

ResultsInv(mail, p) ==
  /\ Len(regs[p]) = IF Divided(p) THEN pc[p] ELSE pc[p] - 1
  /\ regs[p][1].kind = Kind(program[1].op)
  /\ \A k \in 2 .. pc[p] - 1 : ResultInv(mail, p, k) /\ RecordInv(mail, p, k)

\* Both other parties hear the same word as the share the dealer has not got,
\* and the three shares add up to the secret.
DealtInv(mail) ==
  \A k \in 2 .. Len(program) :
    LET d == program[k].party
    IN  (/\ program[k].op \in ShareOps
         /\ 4 * k < SendPos(d, Succ(d))
         /\ 4 * k + 1 < SendPos(d, Pred(d)))
        => /\ mail[<<d, Succ(d)>>][4 * k] = mail[<<d, Pred(d)>>][4 * k + 1]
           /\ Total(Kind(program[k].op), mail[<<d, Succ(d)>>][4 * k + 1],
                    mail[<<d, Pred(d)>>][4 * k], mail[<<d, Succ(d)>>][4 * k]) = plain[k]

FirstInv ==
  \A p \in Parties : regs[Succ(p)][1].shares[2] = regs[p][1].shares[1]

\* The shares the run begins with add up to the secret.
FirstTotal ==
  Total(Kind(program[1].op), regs[0][1].shares[1], regs[1][1].shares[1], regs[2][1].shares[1])
    = plain[1]

\* The plaintexts are those of the party that is ahead.
Reached(p) == Len(regs[p]) + (IF dealt[p] = <<>> THEN 0 ELSE 1)

\* The shares that are being dealt make up the newest plaintext.
DealtTotal(p) == Total(Kind(Instr(p).op), dealt[p][1][1], dealt[p][3][1], dealt[p][2][1])

PlainInv ==
  /\ \A p \in Parties : Reached(p) <= Len(plain)
  /\ \E p \in Parties : Reached(p) = Len(plain)
  /\ \A k \in DOMAIN plain : k < Len(program) => plain[k] \in WordSet
  /\ \A p \in Parties : dealt[p] # <<>> => DealtTotal(p) = plain[pc[p]]

Sharings == [1 .. 2 -> WordSet]
Registers == [kind : {"a", "b"}, shares : Sharings]
             \cup [kind : {"open"}, shares : [1 .. 1 -> WordSet]]
Deals == {<<<<a, c>>, <<b, a>>, <<c, b>>>> : a, b, c \in WordSet}

Types ==
  /\ program \in Programs
  /\ net \in [Links -> Seq(WordSet)]
  /\ sending \in [Parties -> Parties \cup {NoParty}]
  /\ receiving \in [Parties -> Parties \cup {NoParty}]
  /\ pc \in [Parties -> Nat]
  /\ calls \in [Parties -> Nat]
  /\ got \in [Parties -> Seq(WordSet)]
  /\ regs \in [Parties -> Seq(Registers)]
  /\ dealt \in [Parties -> Deals \cup {<<>>}]
  /\ plain \in Seq(WordSet \cup {Unknown})

MailInv(mail) ==
  /\ mail \in [Links -> [Nat -> WordSet]]
  /\ \A p, q \in Parties : LinkInv(mail, p, q)
  /\ \A p \in Parties : CountInv(p) /\ GotInv(mail, p) /\ SentInv(mail, p)
  /\ \A p \in Parties : ResultsInv(mail, p)
  /\ DealtInv(mail)

IInv == Types /\ FirstInv /\ PlainInv /\ \E mail : MailInv(mail)

-----------------------------------------------------------------------------
(* Parties, slots and instructions.                                        *)

LEMMA Neighbours ==
  /\ Parties = {0, 1, 2} /\ NoParty = 3
  /\ \A p \in Parties :
       /\ Succ(p) = (IF p = 2 THEN 0 ELSE p + 1)
       /\ Pred(p) = (IF p = 0 THEN 2 ELSE p - 1)
       /\ \A d \in Parties : Relative(p, d - p) = d
<1>1. PartiesNum = 3
  BY ThreePartiesAssumption
<1>2. Parties = {0, 1, 2} /\ NoParty = 3
  BY <1>1 DEF Parties, NoParty
<1> QED
  BY <1>1, <1>2 DEF Succ, Pred, Relative

LEMMA Around ==
  \A p \in Parties :
    /\ Succ(p) \in Parties \ {p} /\ Pred(p) \in Parties \ {p} /\ Succ(p) # Pred(p)
    /\ Pred(Succ(p)) = p /\ Succ(Pred(p)) = p
    /\ p \in Nat /\ p # NoParty
    /\ \A q \in Parties : q \in {p, Succ(p), Pred(p)}
BY Neighbours

-----------------------------------------------------------------------------
(* What a step does to a link.                                             *)

LEMMA PendingMembers ==
  ASSUME NEW slots, slots \subseteq Nat, NEW taken, NEW sent
  PROVE  /\ \A s : s \in Pending(slots, taken, sent) <=> s \in slots /\ taken <= s /\ s < sent
         /\ Pending(slots, taken, sent) \subseteq Int
<1>1. \A s : s \in Pending(slots, taken, sent) <=> s \in slots /\ taken <= s /\ s < sent
  BY DEF Pending
<1>2. \A s \in slots : s \in Int
  OBVIOUS
<1> HIDE DEF Pending
<1> QED
  BY <1>1, <1>2

LEMMA CarriesAppend ==
  ASSUME NEW V, NEW messages \in Seq(V), NEW m, NEW slots, slots \subseteq Nat,
         NEW taken \in Nat, NEW sent \in Nat, sent \in slots, m[sent] \in V,
         Carries(messages, m, slots, taken, sent)
  PROVE  Carries(Append(messages, m[sent]), m, slots, taken, sent + 1)
<1> DEFINE pending == Pending(slots, taken, sent)
           after == Pending(slots, taken, sent + 1)
<1>1. InOrder(messages, m, pending)
  BY DEF Carries
<1>2. taken <= sent
  BY DEF Carries
<1>3. /\ pending \subseteq Int
      /\ \A s : s \in pending <=> s \in slots /\ taken <= s /\ s < sent
      /\ \A s : s \in after <=> s \in slots /\ taken <= s /\ s < sent + 1
  BY PendingMembers
<1> HIDE DEF pending, after
<1>4. \A s \in slots : s < sent + 1 <=> s < sent \/ s = sent
  OBVIOUS
<1>5. \A s : s \in after <=> s \in pending \cup {sent}
  BY <1>2, <1>3, <1>4
<1>6. after = pending \cup {sent}
  BY <1>5
<1>7. \A t \in pending : t < sent
  BY <1>3
<1>8. InOrder(Append(messages, m[sent]), m, after)
  <2>1. InOrder(Append(messages, m[sent]), m, pending \cup {sent})
    <3>1. sent \in Int
      OBVIOUS
    <3> QED
      BY <1>1, <1>3, <1>7, <3>1, InOrderAppend, Zenon
  <2> QED
    BY <1>6, <2>1
<1>9. \A s \in slots : s < taken => s < sent + 1
  BY <1>2
<1> QED
  BY <1>8, <1>9 DEF Carries, after

LEMMA CarriesTail ==
  ASSUME NEW V, NEW messages \in Seq(V), messages # <<>>, NEW m, NEW slots, slots \subseteq Nat,
         NEW taken \in Nat, NEW sent \in Nat, taken \in slots,
         Carries(messages, m, slots, taken, sent)
  PROVE  /\ Head(messages) = m[taken]
         /\ Carries(Tail(messages), m, slots, taken + 1, sent)
<1> DEFINE pending == Pending(slots, taken, sent)
           after == Pending(slots, taken + 1, sent)
<1>1. InOrder(messages, m, pending)
  BY DEF Carries
<1>2. PICK t : t \in pending
  BY <1>1, InOrderEmpty, Zenon
<1>3. /\ pending \subseteq Int
      /\ \A s : s \in pending <=> s \in slots /\ taken <= s /\ s < sent
      /\ \A s : s \in after <=> s \in slots /\ taken + 1 <= s /\ s < sent
  BY PendingMembers
<1> HIDE DEF pending, after
<1>4. taken < sent
  BY <1>2, <1>3
<1>5. taken \in pending /\ \A s \in pending : taken <= s
  BY <1>3, <1>4
<1>6. \A s \in slots : taken + 1 <= s <=> taken <= s /\ s # taken
  OBVIOUS
<1>7. \A s : s \in after <=> s \in pending \ {taken}
  BY <1>3, <1>6
<1>8. after = pending \ {taken}
  BY <1>7
<1>9. Head(messages) = m[taken] /\ InOrder(Tail(messages), m, after)
  BY <1>1, <1>3, <1>5, <1>8, InOrderTail
<1>10. \A s \in slots : s < taken + 1 => s < sent
  BY <1>4
<1> QED
  BY <1>9, <1>10 DEF Carries, after

\* Going on where there are no slots to use leaves the link as it is.
LEMMA CarriesSkip ==
  ASSUME NEW messages, NEW m, NEW slots, slots \subseteq Nat,
         NEW taken \in Nat, NEW sent \in Nat, NEW taken2 \in Nat, NEW sent2 \in Nat,
         taken <= taken2, \A s \in slots : ~(taken <= s /\ s < taken2),
         sent <= sent2, \A s \in slots : ~(sent <= s /\ s < sent2),
         Carries(messages, m, slots, taken, sent)
  PROVE  Carries(messages, m, slots, taken2, sent2)
<1> DEFINE pending == Pending(slots, taken, sent)
           after == Pending(slots, taken2, sent2)
<1>1. \A s \in slots : s \in Nat
  OBVIOUS
<1>2. \A s \in slots : (taken <= s <=> taken2 <= s) /\ (s < sent <=> s < sent2)
  BY <1>1
<1>3. /\ \A s : s \in pending <=> s \in slots /\ taken <= s /\ s < sent
      /\ \A s : s \in after <=> s \in slots /\ taken2 <= s /\ s < sent2
  BY PendingMembers
<1>4. InOrder(messages, m, pending) /\ \A s \in slots : s < taken => s < sent
  BY DEF Carries
<1> HIDE DEF pending, after
<1>5. after = pending
  BY <1>2, <1>3
<1>6. \A s \in slots : s < taken2 => s < sent2
  BY <1>1, <1>2, <1>4
<1> QED
  BY <1>4, <1>5, <1>6 DEF Carries, after

\* The mail of slots that have not been sent may be anything.
LEMMA CarriesOther ==
  ASSUME NEW messages, NEW m, NEW m2, NEW slots, slots \subseteq Nat,
         NEW taken \in Nat, NEW sent \in Nat,
         \A s \in slots : s < sent => m2[s] = m[s],
         Carries(messages, m, slots, taken, sent)
  PROVE  Carries(messages, m2, slots, taken, sent)
<1> DEFINE pending == Pending(slots, taken, sent)
<1>1. PICK w : Lists(w, Len(messages), messages, m, pending)
  BY DEF Carries, InOrder
<1>2. \A s \in pending : m2[s] = m[s]
  BY DEF Pending
<1> HIDE DEF pending
<1>3. \A a \in 1 .. Len(messages) : w[a] \in pending
  BY <1>1 DEF Lists
<1>4. \A a \in 1 .. Len(messages) : messages[a] = m2[w[a]]
  BY <1>1, <1>2, <1>3 DEF Lists
<1>5. Lists(w, Len(messages), messages, m2, pending)
  BY <1>1, <1>4 DEF Lists
<1> QED
  BY <1>5 DEF Carries, InOrder, pending

-----------------------------------------------------------------------------
(* Instructions and their slots.                                           *)

LEMMA Instructions ==
  ASSUME program \in Programs
  PROVE  /\ Len(program) \in Nat \ {0}
         /\ program[1].op \in {"secret_share_a", "secret_share_b"}
         /\ \A k \in 1 .. Len(program) :
              /\ program[k].op \in Operations
              /\ program[k].op \in ShareOps => program[k].party \in Parties
              /\ program[k].op \notin {"secret_share_a", "secret_share_b"} =>
                   program[k].x \in 1 .. k - 1 /\ program[program[k].x].op \notin OpenOps
              /\ program[k].op \in BinaryOps \cup MultiplyOps =>
                   program[k].y \in 1 .. k - 1 /\ program[program[k].y].op \notin OpenOps
              /\ program[k].op = "div_const_a" =>
                   k = Len(program) /\ program[k].c \in Divisor
<1>1. \A k \in 1 .. Len(program) : \A x \in Operands(program, k) :
        x \in 1 .. k - 1 /\ program[x].op \notin OpenOps
  BY DEF Operands
<1> QED
  BY <1>1, ProgramsAssumption DEF Divisor

LEMMA Sources ==
  ASSUME program \in Programs, NEW k \in 1 .. Len(program), NEW q \in Parties
  PROVE  /\ Source(k, q) \in Parties
         /\ Heard(k, q) \in 0 .. 3
         /\ Source(k, q) = q => Heard(k, q) = 0
         /\ q # Source(k, q) => q = Succ(Source(k, q)) \/ q = Pred(Source(k, q))
BY Neighbours, Instructions DEF Source, Heard, Exchanges

LEMMA SlotMembers ==
  ASSUME program \in Programs, NEW p \in Parties, NEW q \in Parties
  PROVE  /\ Slots(p, q) \subseteq Nat
         /\ \A k \in 2 .. Len(program), j \in 0 .. 3 :
              4 * k + j \in Slots(p, q) <=> p = Source(k, q) /\ j < Heard(k, q)
         /\ \A s \in Slots(p, q) : \E k \in 2 .. Len(program), j \in 0 .. 2 :
              s = 4 * k + j /\ p = Source(k, q) /\ j < Heard(k, q)
<1>1. Len(program) \in Nat
  BY Instructions
<1>2. Slots(p, q) \subseteq Nat
  BY DEF Slots
<1>3. ASSUME NEW k \in 2 .. Len(program), NEW j \in 0 .. 3
      PROVE  4 * k + j \in Slots(p, q) <=> p = Source(k, q) /\ j < Heard(k, q)
  <2>1. Heard(k, q) \in 0 .. 3
    BY <1>1, Sources
  <2>2. ASSUME p = Source(k, q), j < Heard(k, q)
        PROVE  4 * k + j \in Slots(p, q)
    <3>1. j \in 0 .. 2 /\ 4 * k + j \in Nat
      BY <1>1, <2>1, <2>2
    <3> QED
      BY <2>2, <3>1 DEF Slots
  <2>3. ASSUME 4 * k + j \in Slots(p, q)
        PROVE  p = Source(k, q) /\ j < Heard(k, q)
    <3>1. PICK k2 \in 2 .. Len(program), j2 \in 0 .. 2 :
            4 * k + j = 4 * k2 + j2 /\ p = Source(k2, q) /\ j2 < Heard(k2, q)
      BY <2>3 DEF Slots
    <3>2. k2 = k /\ j2 = j
      BY <1>1, <3>1
    <3> QED
      BY <3>1, <3>2
  <2> QED
    BY <2>2, <2>3
<1>4. ASSUME NEW s \in Slots(p, q)
      PROVE  \E k \in 2 .. Len(program), j \in 0 .. 2 :
               s = 4 * k + j /\ p = Source(k, q) /\ j < Heard(k, q)
  BY DEF Slots
<1> QED
  BY <1>2, <1>3, <1>4

LEMMA Ranges ==
  ASSUME Types, NEW p \in Parties, CountInv(p)
  PROVE  /\ program \in Programs /\ Len(program) \in Nat
         /\ pc[p] \in Nat /\ pc[p] >= 2 /\ pc[p] <= Len(program) + 1
         /\ Running(p) => pc[p] \in 2 .. Len(program) /\ pc[p] \in 1 .. Len(program)
         /\ ~Running(p) => pc[p] = Len(program) + 1
         /\ calls[p] \in Nat
         /\ got[p] \in Seq(WordSet) /\ Len(got[p]) \in Nat
         /\ \A k \in 2 .. pc[p] - 1 : k \in 2 .. Len(program) /\ k < pc[p]
<1>1. /\ program \in Programs /\ Len(program) \in Nat
      /\ pc[p] \in Nat /\ calls[p] \in Nat /\ got[p] \in Seq(WordSet)
  BY Instructions DEF Types
<1>2. pc[p] \in 2 .. Len(program) + 1
  BY DEF CountInv
<1> QED
  BY <1>1, <1>2 DEF Running

LEMMA Positions ==
  ASSUME Types, NEW p \in Parties, NEW q \in Parties, CountInv(p), CountInv(q)
  PROVE  /\ SentOn(p, q) \in Nat /\ SendPos(p, q) \in Nat
         /\ TakenOn(p, q) \in Nat /\ TakePos(p, q) \in Nat
         /\ Running(q) => TakenOn(p, q) <= Heard(pc[q], q)
<1>1. /\ Len(program) \in Nat /\ calls[p] \in Nat /\ calls[q] \in Nat
      /\ Len(got[q]) \in Nat /\ Len(got[p]) \in Nat
      /\ pc[p] \in Nat /\ pc[q] \in Nat
  BY Ranges
<1>2. SentOn(p, q) \in Nat
  BY <1>1 DEF SentOn
<1>3. TakenOn(p, q) \in Nat
  BY <1>1 DEF TakenOn
<1>4. ASSUME Running(q)
      PROVE  TakenOn(p, q) <= Heard(pc[q], q)
  <2>1. Heard(pc[q], q) \in 0 .. 3
    BY <1>4, Ranges, Sources
  <2>2. CASE Dealing(q)
    BY <1>4, <2>1, <2>2 DEF CountInv, TakenOn
  <2>3. CASE ~Dealing(q)
    <3>1. Len(got[q]) <= calls[q] /\ calls[q] <= Heard(pc[q], q)
      BY <1>1, <1>4, <2>3 DEF CountInv
    <3> HIDE DEF CountInv
    <3>2. TakenOn(p, q) = 0 \/ TakenOn(p, q) = Len(got[q])
      BY DEF TakenOn
    <3> QED
      BY <1>1, <2>1, <3>1, <3>2
  <2> QED
    BY <2>2, <2>3
<1>5. \A a, b \in Nat : 4 * a + b \in Nat
  OBVIOUS
<1>6. SendPos(p, q) \in Nat
  BY <1>1, <1>2, <1>5, Zenon DEF SendPos
<1>7. TakePos(p, q) \in Nat
  BY <1>1, <1>3, <1>5, Zenon DEF TakePos
<1> QED
  BY <1>1, <1>2, <1>3, <1>4, <1>6, <1>7

\* What a party has heard has been sent.
LEMMA HeardIsSent ==
  ASSUME Types, NEW mail, NEW p \in Parties, NEW q \in Parties, CountInv(p), CountInv(q),
         LinkInv(mail, p, q),
         NEW k \in 2 .. Len(program), NEW j \in 0 .. 2, p = Source(k, q), j < Heard(k, q),
         k < pc[q] \/ (k = pc[q] /\ j < TakenOn(p, q))
  PROVE  4 * k + j < SendPos(p, q)
<1>1. pc[q] \in Nat /\ TakenOn(p, q) \in Nat /\ Len(program) \in Nat
  BY Positions, Ranges
<1>2. 4 * k + j < TakePos(p, q)
  BY <1>1 DEF TakePos
<1>3. 4 * k + j \in Slots(p, q)
  <2>1. program \in Programs /\ j \in 0 .. 3
    BY DEF Types
  <2> QED
    BY <2>1, SlotMembers
<1> QED
  BY <1>2, <1>3 DEF LinkInv, Carries

-----------------------------------------------------------------------------
(* The mail of slots that have not been used may be anything: so the mail  *)
(* may be taken to hold already what the next step sends.                  *)

Agree(mail, m) ==
  \A p, q \in Parties : \A s \in Nat : s < SendPos(p, q) => m[<<p, q>>][s] = mail[<<p, q>>][s]

LEMMA ResultAgrees ==
  ASSUME Types, NEW mail, NEW m, MailInv(mail), Agree(mail, m), NEW p \in Parties,
         NEW k \in 2 .. pc[p] - 1, ResultInv(mail, p, k), RecordInv(mail, p, k)
  PROVE  ResultInv(m, p, k) /\ RecordInv(m, p, k)
<1>1. /\ Succ(p) \in Parties /\ Pred(p) \in Parties
      /\ program \in Programs /\ pc[p] \in Nat /\ Len(program) \in Nat
      /\ k \in 2 .. Len(program) /\ k \in 1 .. Len(program) /\ k \in Nat /\ k < pc[p]
      /\ \A q \in Parties : CountInv(q)
  <2>1. \A q \in Parties : CountInv(q)
    BY DEF MailInv
  <2>2. /\ program \in Programs /\ pc[p] \in Nat /\ Len(program) \in Nat
        /\ k \in 2 .. Len(program) /\ k < pc[p]
    BY <2>1, Ranges
  <2> QED
    BY <2>1, <2>2, Around
<1>2. ASSUME NEW q \in Parties, NEW j \in 0 .. 2
      PROVE  m[<<p, q>>][4 * k + j] = mail[<<p, q>>][4 * k + j]
  <2>1. SentOn(p, q) \in Nat /\ 4 * k + j \in Nat
    BY <1>1, Positions
  <2>2. 4 * k + j < SendPos(p, q)
    BY <1>1, <2>1 DEF SendPos
  <2> QED
    BY <2>1, <2>2 DEF Agree
<1>3. ASSUME NEW q \in Parties, NEW j \in 0 .. 2, q = Source(k, p), j < Heard(k, p)
      PROVE  m[<<q, p>>][4 * k + j] = mail[<<q, p>>][4 * k + j]
  <2>1. 4 * k + j \in Nat
    BY <1>1
  <2>2. 4 * k + j < SendPos(q, p)
    BY <1>1, <1>3, HeardIsSent DEF MailInv
  <2> QED
    BY <2>1, <2>2 DEF Agree
<1> DEFINE op == program[k].op
<1>4. ASSUME NEW r, NEW j \in 0 .. 2, op \notin ShareOps, j < Exchanges(op),
             Exchanged(mail, p, r, k, j)
      PROVE  Exchanged(m, p, r, k, j)
  <2>1. Pred(p) = Source(k, p) /\ j < Heard(k, p)
    BY <1>4 DEF Source, Heard
  <2> QED
    BY <1>1, <1>2, <1>3, <1>4, <2>1 DEF Exchanged
<1>5. ASSUME op \in ShareOps, ShareInv(mail, p, k)
      PROVE  ShareInv(m, p, k)
  <2>1. CASE p = program[k].party
    <3>1. \A q \in Parties : /\ m[<<p, q>>][4 * k] = mail[<<p, q>>][4 * k]
                             /\ m[<<p, q>>][4 * k + 1] = mail[<<p, q>>][4 * k + 1]
      <4>1. 0 \in 0 .. 2 /\ 1 \in 0 .. 2 /\ 4 * k + 0 = 4 * k
        BY <1>1
      <4> QED
        BY <1>2, <4>1
    <3> QED
      BY <1>1, <1>5, <2>1, <3>1 DEF ShareInv
  <2>2. CASE p # program[k].party
    <3> DEFINE d == program[k].party
    <3>1. d \in Parties /\ d = Source(k, p) /\ Heard(k, p) = 2
      BY <1>1, <1>5, <2>2, Sources DEF Source, Heard, Types
    <3>2. m[<<d, p>>][4 * k] = mail[<<d, p>>][4 * k]
      <4>1. 0 \in 0 .. 2 /\ 0 < Heard(k, p) /\ 4 * k + 0 = 4 * k
        BY <1>1, <3>1
      <4> QED
        BY <1>3, <3>1, <4>1
    <3>3. m[<<d, p>>][4 * k + 1] = mail[<<d, p>>][4 * k + 1]
      <4>1. 1 \in 0 .. 2 /\ 1 < Heard(k, p)
        BY <3>1
      <4> QED
        BY <1>3, <3>1, <4>1
    <3> QED
      BY <1>5, <2>2, <3>2, <3>3 DEF ShareInv
  <2> QED
    BY <2>1, <2>2
<1>6. /\ op \in MultiplyOps => op \notin ShareOps /\ Exchanges(op) = 1
      /\ op \in OpenOps => op \notin ShareOps /\ Exchanges(op) = 1
      /\ op = "div_const_a" => op \notin ShareOps /\ Exchanges(op) = 2
      /\ op = "b2a_bit" => op \notin ShareOps /\ Exchanges(op) = 3
  BY DEF MultiplyOps, ShareOps, OpenOps, Exchanges
<1>7. \A j \in 0 .. 2 : op \notin ShareOps /\ j < Exchanges(op) =>
        m[<<Pred(p), p>>][4 * k + j] = mail[<<Pred(p), p>>][4 * k + j]
  <2> SUFFICES ASSUME NEW j \in 0 .. 2, op \notin ShareOps, j < Exchanges(op)
               PROVE  m[<<Pred(p), p>>][4 * k + j] = mail[<<Pred(p), p>>][4 * k + j]
    OBVIOUS
  <2>1. Pred(p) = Source(k, p) /\ j < Heard(k, p)
    BY DEF Source, Heard
  <2> QED
    BY <1>1, <1>3, <2>1
<1>8. 0 \in 0 .. 2 /\ 1 \in 0 .. 2 /\ 4 * k + 0 = 4 * k
  BY <1>1
<1>9. ASSUME op \in OpenOps
      PROVE  m[<<Pred(p), p>>][4 * k] = mail[<<Pred(p), p>>][4 * k]
  BY <1>6, <1>7, <1>8, <1>9
<1>10. RecordInv(m, p, k)
  <2> SUFFICES ASSUME NEW j \in 0 .. 2, j < Exchanges(op)
               PROVE  m[<<p, Succ(p)>>][4 * k + j] = Record(m, p, k, j)
    BY DEF RecordInv
  <2>1. m[<<p, Succ(p)>>][4 * k + j] = Record(mail, p, k, j)
    BY <1>1, <1>2 DEF RecordInv
  <2>2. CASE op = "b2a_bit"
    <3>1. /\ m[<<Pred(p), p>>][4 * k] = mail[<<Pred(p), p>>][4 * k]
          /\ m[<<Pred(p), p>>][4 * k + 1] = mail[<<Pred(p), p>>][4 * k + 1]
      BY <1>6, <1>7, <1>8, <2>2
    <3> QED
      BY <2>1, <2>2, <3>1 DEF Record, MultiplyOps, OpenOps
  <2>3. CASE op # "b2a_bit"
    BY <2>1, <2>3 DEF Record
  <2> QED
    BY <2>2, <2>3
<1>11. ResultInv(m, p, k)
  BY <1>4, <1>5, <1>6, <1>9 DEF ResultInv
<1> QED
  BY <1>10, <1>11

\* The dealer sends its predecessor the last share after all others.
LEMMA AllDealt ==
  ASSUME Types, \A q \in Parties : CountInv(q),
         NEW k \in 2 .. Len(program), program[k].op \in ShareOps,
         NEW d \in Parties, d = program[k].party,
         4 * k < SendPos(d, Succ(d)), 4 * k + 1 < SendPos(d, Pred(d))
  PROVE  /\ 4 * k + 1 < SendPos(d, Succ(d)) /\ 4 * k < SendPos(d, Pred(d))
         /\ k <= pc[d] /\ (k = pc[d] => Running(d) /\ calls[d] = 4)
<1>1. /\ pc[d] \in Nat /\ calls[d] \in Nat /\ Len(program) \in Nat
      /\ Succ(d) \in Parties /\ Pred(d) \in Parties /\ Succ(d) # d /\ Pred(d) # d
      /\ Succ(d) # Pred(d) /\ CountInv(d)
  <2>1. CountInv(d)
    OBVIOUS
  <2>2. pc[d] \in Nat /\ calls[d] \in Nat /\ Len(program) \in Nat
    BY <2>1, Ranges
  <2> QED
    BY <2>1, <2>2, Around
<1>2. SentOn(d, Succ(d)) \in Nat /\ SentOn(d, Pred(d)) \in Nat
  BY <1>1, Positions
<1>3. PICK i \in Nat, c \in Nat, s \in Nat, t \in Nat :
        i = k /\ c = pc[d] /\ s = SentOn(d, Succ(d)) /\ t = SentOn(d, Pred(d))
  BY <1>1, <1>2
<1>4. /\ SendPos(d, Succ(d)) = 4 * c + s /\ SendPos(d, Pred(d)) = 4 * c + t
      /\ 4 * i < 4 * c + s /\ 4 * i + 1 < 4 * c + t
  BY <1>3 DEF SendPos
<1>5. CASE i < c
  <2>1. 4 * i + 1 < 4 * c + s /\ 4 * i < 4 * c + t /\ i <= c /\ i # c
    BY <1>5
  <2> QED
    BY <1>3, <1>4, <2>1
<1>6. CASE ~(i < c)
  <2>1. t >= 2 /\ t # 0
    BY <1>4, <1>6
  <2>2. Running(d) /\ Dealing(d)
    <3>1. Pred(Pred(d)) # d
      BY Neighbours
    <3>2. ~(pc[d] > Len(program)) /\ d = Source(pc[d], Pred(d))
      BY <1>3, <2>1 DEF SentOn
    <3>3. program[pc[d]].op \in ShareOps /\ program[pc[d]].party = d
      BY <3>1, <3>2 DEF Source
    <3>4. pc[d] <= Len(program)
      BY <1>1, <3>2
    <3> QED
      BY <3>3, <3>4 DEF Running, Dealing, Dealer, Instr
  <2>3. calls[d] <= 4
    BY <1>1, <2>2 DEF CountInv
  <2>4. Source(pc[d], Succ(d)) = d /\ Source(pc[d], Pred(d)) = d /\ program[pc[d]].op \in ShareOps
    BY <2>2 DEF Source, Dealing, Dealer, Instr
  <2>5. ~(pc[d] > Len(program))
    BY <1>1, <2>2 DEF Running
  <2>6. /\ s = (IF calls[d] < 2 THEN calls[d] ELSE 2)
        /\ t = (IF calls[d] < 2 THEN 0 ELSE calls[d] - 2)
    BY <1>1, <1>3, <2>4, <2>5 DEF SentOn
  <2>7. calls[d] = 4 /\ s = 2 /\ t = 2
    <3>1. PICK n \in Nat : n = calls[d]
      BY <1>1
    <3>2. n <= 4 /\ s = (IF n < 2 THEN n ELSE 2) /\ t = (IF n < 2 THEN 0 ELSE n - 2)
      BY <2>3, <2>6, <3>1
    <3> QED
      BY <2>1, <3>1, <3>2
  <2>8. i = c
    BY <1>4, <1>6, <2>7
  <2>9. 4 * i + 1 < 4 * c + s /\ 4 * i < 4 * c + t /\ i <= c
    BY <2>7, <2>8
  <2>10. 4 * k + 1 < SendPos(d, Succ(d)) /\ 4 * k < SendPos(d, Pred(d)) /\ k <= pc[d]
    BY <1>3, <1>4, <2>9
  <2> QED
    BY <2>2, <2>7, <2>10
<1> QED
  BY <1>5, <1>6

LEMMA MailAgrees ==
  ASSUME Types, NEW mail, NEW m \in [Links -> [Nat -> WordSet]], MailInv(mail), Agree(mail, m)
  PROVE  MailInv(m)
<1>1. /\ program \in Programs /\ Len(program) \in Nat
      /\ \A p \in Parties : CountInv(p)
      /\ \A p, q \in Parties : LinkInv(mail, p, q)
  <2>1. \A p \in Parties : CountInv(p)
    BY DEF MailInv
  <2>2. program \in Programs /\ Len(program) \in Nat
    BY Instructions DEF Types
  <2> QED
    BY <2>1, <2>2 DEF MailInv
<1>2. ASSUME NEW p \in Parties, NEW q \in Parties
      PROVE  LinkInv(m, p, q)
  <2>1. /\ Slots(p, q) \subseteq Nat /\ TakePos(p, q) \in Nat /\ SendPos(p, q) \in Nat
    BY <1>1, SlotMembers, Positions
  <2>2. \A s \in Slots(p, q) : s < SendPos(p, q) => m[<<p, q>>][s] = mail[<<p, q>>][s]
    BY <2>1 DEF Agree
  <2>3. Carries(net[<<p, q>>], mail[<<p, q>>], Slots(p, q), TakePos(p, q), SendPos(p, q))
    BY <1>1 DEF LinkInv
  <2>4. Carries(net[<<p, q>>], m[<<p, q>>], Slots(p, q), TakePos(p, q), SendPos(p, q))
    BY <2>1, <2>2, <2>3, CarriesOther
  <2> QED
    BY <2>4 DEF LinkInv
<1>3. ASSUME NEW p \in Parties
      PROVE  GotInv(m, p)
  <2> SUFFICES ASSUME Running(p), NEW j \in 1 .. Len(got[p])
               PROVE  got[p][j] = m[<<Source(pc[p], p), p>>][4 * pc[p] + (j - 1)]
    BY DEF GotInv
  <2> DEFINE q == Source(pc[p], p)
             i == j - 1
  <2>1. /\ pc[p] \in Nat /\ pc[p] \in 2 .. Len(program) /\ pc[p] \in 1 .. Len(program)
        /\ Len(got[p]) \in Nat
    BY <1>1, Ranges
  <2>2. q \in Parties /\ Heard(pc[p], p) \in 0 .. 3
    BY <1>1, <2>1, Sources
  <2>3. TakenOn(q, p) = Len(got[p])
    BY <2>1 DEF TakenOn, Running
  <2>4. i \in 0 .. 2 /\ i < TakenOn(q, p) /\ i < Heard(pc[p], p)
    <3>1. TakenOn(q, p) <= Heard(pc[p], p)
      BY <1>1, <2>2, Positions
    <3> QED
      BY <2>1, <2>2, <2>3, <3>1
  <2>5. 4 * pc[p] + i < SendPos(q, p)
    <3> HIDE DEF q, i
    <3>1. q = Source(pc[p], p)
      BY DEF q
    <3> QED
      BY <1>1, <2>1, <2>2, <2>4, <3>1, HeardIsSent
  <2>6. 4 * pc[p] + i \in Nat
    BY <2>1, <2>4
  <2>7. m[<<q, p>>][4 * pc[p] + i] = mail[<<q, p>>][4 * pc[p] + i]
    BY <2>2, <2>5, <2>6 DEF Agree
  <2>8. got[p][j] = mail[<<q, p>>][4 * pc[p] + i]
    BY DEF MailInv, GotInv
  <2> QED
    BY <2>7, <2>8
<1>4. ASSUME NEW p \in Parties
      PROVE  SentInv(m, p)
  <2> SUFFICES ASSUME Running(p), NEW q \in Parties, NEW j \in 0 .. 2, j < SentOn(p, q)
               PROVE  m[<<p, q>>][4 * pc[p] + j] = Message(p, q, j)
    BY DEF SentInv
  <2>1. pc[p] \in Nat /\ SentOn(p, q) \in Nat
    BY <1>1, Ranges, Positions
  <2>2. 4 * pc[p] + j \in Nat /\ 4 * pc[p] + j < SendPos(p, q)
    BY <2>1 DEF SendPos
  <2>3. m[<<p, q>>][4 * pc[p] + j] = mail[<<p, q>>][4 * pc[p] + j]
    BY <2>2 DEF Agree
  <2>4. mail[<<p, q>>][4 * pc[p] + j] = Message(p, q, j)
    BY DEF MailInv, SentInv
  <2> QED
    BY <2>3, <2>4
<1>5. ASSUME NEW p \in Parties
      PROVE  ResultsInv(m, p)
  <2>1. ResultsInv(mail, p)
    BY DEF MailInv
  <2>2. \A k \in 2 .. pc[p] - 1 : ResultInv(m, p, k) /\ RecordInv(m, p, k)
    BY <2>1, ResultAgrees DEF ResultsInv
  <2> QED
    BY <2>1, <2>2 DEF ResultsInv
<1>6. DealtInv(m)
  <2> SUFFICES ASSUME NEW k \in 2 .. Len(program), program[k].op \in ShareOps,
                      NEW d \in Parties, d = program[k].party,
                      4 * k < SendPos(d, Succ(d)), 4 * k + 1 < SendPos(d, Pred(d))
               PROVE  /\ m[<<d, Succ(d)>>][4 * k] = m[<<d, Pred(d)>>][4 * k + 1]
                      /\ Total(Kind(program[k].op), m[<<d, Succ(d)>>][4 * k + 1],
                               m[<<d, Pred(d)>>][4 * k], m[<<d, Succ(d)>>][4 * k]) = plain[k]
    <3>1. \A k \in 2 .. Len(program) : program[k].op \in ShareOps => program[k].party \in Parties
      BY <1>1, Instructions
    <3> QED
      BY <3>1 DEF DealtInv
  <2>1. k \in Nat /\ 4 * k \in Nat /\ 4 * k + 1 \in Nat /\ Succ(d) \in Parties /\ Pred(d) \in Parties
    BY <1>1, Around
  <2>2. 4 * k + 1 < SendPos(d, Succ(d)) /\ 4 * k < SendPos(d, Pred(d))
    BY <1>1, AllDealt
  <2>3. /\ m[<<d, Succ(d)>>][4 * k] = mail[<<d, Succ(d)>>][4 * k]
        /\ m[<<d, Succ(d)>>][4 * k + 1] = mail[<<d, Succ(d)>>][4 * k + 1]
    BY <2>1, <2>2 DEF Agree
  <2>4. /\ m[<<d, Pred(d)>>][4 * k] = mail[<<d, Pred(d)>>][4 * k]
        /\ m[<<d, Pred(d)>>][4 * k + 1] = mail[<<d, Pred(d)>>][4 * k + 1]
    BY <2>1, <2>2 DEF Agree
  <2>5. /\ mail[<<d, Succ(d)>>][4 * k] = mail[<<d, Pred(d)>>][4 * k + 1]
        /\ Total(Kind(program[k].op), mail[<<d, Succ(d)>>][4 * k + 1],
                 mail[<<d, Pred(d)>>][4 * k], mail[<<d, Succ(d)>>][4 * k]) = plain[k]
    BY DEF MailInv, DealtInv
  <2> QED
    BY <2>3, <2>4, <2>5
<1> QED
  BY <1>1, <1>2, <1>3, <1>4, <1>5, <1>6 DEF MailInv

LEMMA Anticipation ==
  ASSUME Types, NEW mail, MailInv(mail), NEW p \in Parties, NEW q \in Parties, NEW v \in WordSet
  PROVE  \E m : MailInv(m) /\ m[<<p, q>>][SendPos(p, q)] = v
<1> DEFINE s == SendPos(p, q)
           m == [mail EXCEPT ![<<p, q>>] = [@ EXCEPT ![s] = v]]
<1>1. mail \in [Links -> [Nat -> WordSet]] /\ \A r \in Parties : CountInv(r)
  BY DEF MailInv
<1>2. s \in Nat
  BY <1>1, Positions
<1>3. <<p, q>> \in Links
  BY DEF Links
<1> HIDE DEF s
<1>4. m \in [Links -> [Nat -> WordSet]] /\ m[<<p, q>>][s] = v
  BY <1>1, <1>2, <1>3
<1>5. ASSUME NEW a \in Parties, NEW b \in Parties, NEW n \in Nat, n < SendPos(a, b)
      PROVE  m[<<a, b>>][n] = mail[<<a, b>>][n]
  <2>1. <<a, b>> \in Links
    BY DEF Links
  <2>2. CASE <<a, b>> = <<p, q>>
    <3>1. n # s
      BY <1>2, <1>5, <2>2 DEF s
    <3>2. m[<<a, b>>] = [mail[<<p, q>>] EXCEPT ![s] = v] /\ mail[<<p, q>>] \in [Nat -> WordSet]
      BY <1>1, <1>3, <2>2
    <3> QED
      BY <2>2, <3>1, <3>2
  <2>3. CASE <<a, b>> # <<p, q>>
    BY <1>1, <2>1, <2>3
  <2> QED
    BY <2>2, <2>3
<1> HIDE DEF m
<1>6. MailInv(m)
  BY <1>4, <1>5, MailAgrees DEF Agree
<1> QED
  BY <1>4, <1>6 DEF s

-----------------------------------------------------------------------------
(* What a step leaves alone.                                               *)

\* Party r has taken no part in the step.
Still(r) ==
  /\ pc'[r] = pc[r] /\ calls'[r] = calls[r] /\ got'[r] = got[r]
  /\ receiving'[r] = receiving[r] /\ dealt'[r] = dealt[r] /\ regs'[r] = regs[r]

LEMMA SameSlots ==
  ASSUME program' = program
  PROVE  /\ \A p, q : Slots(p, q)' = Slots(p, q)
         /\ \A k, q : Source(k, q)' = Source(k, q) /\ Heard(k, q)' = Heard(k, q)
<1>1. \A k, q : Source(k, q)' = Source(k, q)
  BY DEF Source
<1>2. \A k, q : Heard(k, q)' = Heard(k, q)
  BY DEF Heard
<1> QED
  BY <1>1, <1>2 DEF Slots

LEMMA SameSentOn ==
  ASSUME program' = program, NEW p, NEW q, pc'[p] = pc[p], calls'[p] = calls[p]
  PROVE  SentOn(p, q)' = SentOn(p, q) /\ SendPos(p, q)' = SendPos(p, q)
BY SameSlots DEF SentOn, SendPos

LEMMA SameTakenOn ==
  ASSUME program' = program, NEW p, NEW q, pc'[q] = pc[q], got'[q] = got[q]
  PROVE  TakenOn(p, q)' = TakenOn(p, q) /\ TakePos(p, q)' = TakePos(p, q)
BY SameSlots DEF TakenOn, TakePos

LEMMA SameLink ==
  ASSUME program' = program, NEW mail, NEW p, NEW q, LinkInv(mail, p, q),
         net'[<<p, q>>] = net[<<p, q>>],
         SendPos(p, q)' = SendPos(p, q), TakePos(p, q)' = TakePos(p, q)
  PROVE  LinkInv(mail, p, q)'
BY SameSlots DEF LinkInv

LEMMA SameMessage ==
  ASSUME program' = program, NEW p, NEW q, NEW j,
         pc'[p] = pc[p], regs'[p] = regs[p], dealt'[p] = dealt[p],
         j = 0 \/ Instr(p).op # "b2a_bit" \/ got'[p][1] = got[p][1],
         j \in {0, 1} \/ Instr(p).op # "b2a_bit" \/ got'[p][2] = got[p][2]
  PROVE  Message(p, q, j)' = Message(p, q, j)
<1>1. Instr(p)' = Instr(p)
  BY DEF Instr
<1>2. X(p)' = X(p) /\ Y(p)' = Y(p)
  BY <1>1 DEF X, Y
<1>3. LocalProduct(p)' = LocalProduct(p)
  BY <1>1, <1>2 DEF LocalProduct
<1>4. ASSUME got'[p][1] = got[p][1], got'[p][2] = got[p][2]
      PROVE  BitShare(p)' = BitShare(p)
  BY <1>2, <1>4 DEF BitShare, OpenedBit
<1>5. CASE Instr(p).op = "b2a_bit"
  BY <1>1, <1>2, <1>4, <1>5 DEF Message, MultiplyOps, OpenOps, ShareOps
<1>6. CASE Instr(p).op # "b2a_bit"
  BY <1>1, <1>2, <1>3, <1>6 DEF Message
<1> QED
  BY <1>5, <1>6

LEMMA SameCount ==
  ASSUME program' = program, NEW p, Still(p), CountInv(p)
  PROVE  CountInv(p)'
BY SameSlots DEF Still, CountInv, Running, Dealing, Dealer, Instr

LEMMA SameGot ==
  ASSUME program' = program, NEW mail, NEW p, pc'[p] = pc[p], got'[p] = got[p], GotInv(mail, p)
  PROVE  GotInv(mail, p)'
BY SameSlots DEF GotInv, Running

LEMMA SameSent ==
  ASSUME program' = program, NEW mail, NEW p, Still(p), SentInv(mail, p)
  PROVE  SentInv(mail, p)'
<1>1. \A q : SentOn(p, q)' = SentOn(p, q)
  BY SameSentOn DEF Still
<1>2. \A q, j : Message(p, q, j)' = Message(p, q, j)
  BY SameMessage DEF Still
<1> QED
  BY <1>1, <1>2 DEF SentInv, Still, Running

LEMMA SameOperands ==
  ASSUME program \in Programs, NEW p, NEW k \in 2 .. Len(program),
         \A i \in 1 .. k - 1 : regs'[p][i] = regs[p][i],
         program[k].op \in OpenOps \/ Exchanges(program[k].op) # 0
  PROVE  /\ regs'[p][program[k].x] = regs[p][program[k].x]
         /\ program[k].op \in MultiplyOps => regs'[p][program[k].y] = regs[p][program[k].y]
<1>1. Len(program) \in Nat /\ k \in 1 .. Len(program)
  BY Instructions
<1>2. program[k].op \notin LocalOps \cup ShareOps
  BY DEF OpenOps, MultiplyOps, Exchanges, LocalOps, UnaryOps, BinaryOps, ShareOps
<1>3. program[k].x \in 1 .. k - 1
  BY <1>1, <1>2, Instructions DEF ShareOps
<1>4. program[k].op \in MultiplyOps => program[k].y \in 1 .. k - 1
  BY <1>1, Instructions
<1> QED
  BY <1>3, <1>4

LEMMA SameRecord ==
  ASSUME program \in Programs, program' = program, NEW mail, NEW p,
         NEW k \in 2 .. Len(program),
         \A i \in 1 .. k - 1 : regs'[p][i] = regs[p][i], RecordInv(mail, p, k)
  PROVE  RecordInv(mail, p, k)'
<1> SUFFICES ASSUME NEW j \in 0 .. 2, j < Exchanges(program[k].op)
             PROVE  mail[<<p, Succ(p)>>][4 * k + j] = Record(mail, p, k, j)'
  BY DEF RecordInv
<1>1. mail[<<p, Succ(p)>>][4 * k + j] = Record(mail, p, k, j)
  BY DEF RecordInv
<1>2. Exchanges(program[k].op) # 0
  OBVIOUS
<1>3. /\ regs'[p][program[k].x] = regs[p][program[k].x]
      /\ program[k].op \in MultiplyOps => regs'[p][program[k].y] = regs[p][program[k].y]
  BY <1>2, SameOperands
<1>4. Record(mail, p, k, j)' = Record(mail, p, k, j)
  <2>1. CASE program[k].op \in MultiplyOps
    BY <1>3, <2>1 DEF Record, Pred, Relative
  <2>2. CASE program[k].op \in OpenOps \cup {"div_const_a", "b2a_bit"}
    BY <1>3, <2>2 DEF Record, Pred, Relative, MultiplyOps, OpenOps
  <2> QED
    BY <1>2, <2>1, <2>2 DEF Exchanges
<1> QED
  BY <1>1, <1>4

LEMMA SameResult ==
  ASSUME program \in Programs, program' = program, NEW mail, NEW p,
         NEW k \in 2 .. Len(program),
         \A i \in 1 .. k : regs'[p][i] = regs[p][i],
         program[k].op = "div_const_a" => regs'[p][k + 1] = regs[p][k + 1],
         ResultInv(mail, p, k), RecordInv(mail, p, k)
  PROVE  ResultInv(mail, p, k)' /\ RecordInv(mail, p, k)'
<1>1. Len(program) \in Nat /\ k \in 1 .. Len(program) /\ k \in 1 .. k
  BY Instructions
<1>2. regs'[p][k] = regs[p][k]
  BY <1>1
<1>3. ASSUME program[k].op \in LocalOps, LocalInv(p, k)
      PROVE  LocalInv(p, k)'
  <2>1. program[k].x \in 1 .. k - 1
    BY <1>1, <1>3, Instructions DEF LocalOps, UnaryOps, BinaryOps
  <2>2. regs'[p][program[k].x] = regs[p][program[k].x]
    BY <1>1, <2>1
  <2>3. CASE program[k].op \in BinaryOps
    <3>1. program[k].y \in 1 .. k - 1
      BY <1>1, <2>3, Instructions
    <3>2. regs'[p][program[k].y] = regs[p][program[k].y]
      BY <1>1, <3>1
    <3> QED
      BY <1>2, <1>3, <2>2, <3>2 DEF LocalInv
  <2>4. CASE program[k].op \notin BinaryOps
    BY <1>2, <1>3, <2>2, <2>4 DEF LocalInv
  <2> QED
    BY <2>3, <2>4
<1>4. ASSUME NEW j, Exchanged(mail, p, k, k, j)
      PROVE  Exchanged(mail, p, k, k, j)'
  BY <1>2, <1>4 DEF Exchanged
<1>5. ASSUME program[k].op = "div_const_a", Exchanged(mail, p, k + 1, k, 1)
      PROVE  Exchanged(mail, p, k + 1, k, 1)'
  BY <1>5 DEF Exchanged
<1>6. ASSUME ShareInv(mail, p, k)
      PROVE  ShareInv(mail, p, k)'
  BY <1>2, <1>6 DEF ShareInv
<1>7. ASSUME program[k].op \in OpenOps
      PROVE  regs'[p][program[k].x] = regs[p][program[k].x]
  <2>1. \A i \in 1 .. k - 1 : i \in 1 .. k
    BY <1>1
  <2> QED
    BY <1>7, <2>1, SameOperands
<1>8. ResultInv(mail, p, k)'
  BY <1>2, <1>3, <1>4, <1>5, <1>6, <1>7 DEF ResultInv
<1>9. \A i \in 1 .. k - 1 : regs'[p][i] = regs[p][i]
  BY <1>1
<1> QED
  BY <1>8, <1>9, SameRecord

LEMMA SameResults ==
  ASSUME Types, program' = program, NEW mail, NEW p \in Parties,
         pc'[p] = pc[p], regs'[p] = regs[p], CountInv(p), ResultsInv(mail, p)
  PROVE  ResultsInv(mail, p)'
<1>1. \A k \in 2 .. pc[p] - 1 : k \in 2 .. Len(program)
  BY Ranges
<1>2. \A k \in 2 .. pc[p] - 1 : ResultInv(mail, p, k)' /\ RecordInv(mail, p, k)'
  BY <1>1, SameResult DEF ResultsInv, Types
<1> QED
  BY <1>2 DEF ResultsInv, Divided

-----------------------------------------------------------------------------
(* What a step does to a link.                                             *)

LEMMA AtMostThree ==
  ASSUME Types, NEW p \in Parties, NEW q \in Parties, CountInv(p)
  PROVE  SentOn(p, q) \in 0 .. 3
<1>1. /\ calls[p] \in Nat /\ pc[p] \in Nat /\ Len(program) \in Nat
      /\ program \in Programs /\ (Running(p) => pc[p] \in 1 .. Len(program))
  BY Ranges
<1>2. CASE ~Running(p)
  BY <1>1, <1>2 DEF SentOn, Running
<1>3. CASE Running(p) /\ Instr(p).op \notin ShareOps
  <2>1. calls[p] <= Heard(pc[p], p) /\ Heard(pc[p], p) \in 0 .. 3
    BY <1>1, <1>3, Sources DEF CountInv, Dealing
  <2>2. SentOn(p, q) \in {0, calls[p]}
    BY <1>3 DEF SentOn, Instr
  <2> QED
    BY <1>1, <2>1, <2>2
<1>4. CASE Running(p) /\ Instr(p).op \in ShareOps /\ ~Dealing(p)
  <2>1. p # Source(pc[p], q)
    BY <1>4 DEF Source, Dealing, Dealer, Instr
  <2> QED
    BY <2>1 DEF SentOn
<1>5. CASE Running(p) /\ Dealing(p)
  <2>1. calls[p] <= 4
    BY <1>5 DEF CountInv
  <2>2. \/ SentOn(p, q) = 0
        \/ SentOn(p, q) = calls[p] /\ calls[p] < 2
        \/ SentOn(p, q) = 2
        \/ SentOn(p, q) = calls[p] - 2 /\ ~(calls[p] < 2)
    BY <1>5 DEF SentOn, Dealing, Instr
  <2> QED
    BY <1>1, <2>1, <2>2
<1> QED
  BY <1>2, <1>3, <1>4, <1>5

LEMMA LinkFacts ==
  ASSUME Types, NEW mail \in [Links -> [Nat -> WordSet]], NEW p \in Parties, NEW q \in Parties,
         CountInv(p), CountInv(q), LinkInv(mail, p, q)
  PROVE  /\ Slots(p, q) \subseteq Nat /\ TakePos(p, q) \in Nat /\ SendPos(p, q) \in Nat
         /\ net[<<p, q>>] \in Seq(WordSet) /\ mail[<<p, q>>] \in [Nat -> WordSet]
         /\ Carries(net[<<p, q>>], mail[<<p, q>>], Slots(p, q), TakePos(p, q), SendPos(p, q))
<1>1. <<p, q>> \in Links
  BY DEF Links
<1>2. program \in Programs /\ net[<<p, q>>] \in Seq(WordSet)
  BY <1>1 DEF Types
<1> QED
  BY <1>1, <1>2, SlotMembers, Positions DEF LinkInv

LEMMA SendOnLink ==
  ASSUME Types, NEW mail \in [Links -> [Nat -> WordSet]], NEW p \in Parties, NEW q \in Parties,
         CountInv(p), CountInv(q), LinkInv(mail, p, q), program' = program,
         Running(p), p = Source(pc[p], q), SentOn(p, q) < Heard(pc[p], q),
         net'[<<p, q>>] = Append(net[<<p, q>>], mail[<<p, q>>][SendPos(p, q)]),
         SendPos(p, q)' = SendPos(p, q) + 1, TakePos(p, q)' = TakePos(p, q)
  PROVE  LinkInv(mail, p, q)'
<1>1. /\ Slots(p, q) \subseteq Nat /\ TakePos(p, q) \in Nat /\ SendPos(p, q) \in Nat
      /\ net[<<p, q>>] \in Seq(WordSet) /\ mail[<<p, q>>][SendPos(p, q)] \in WordSet
      /\ Carries(net[<<p, q>>], mail[<<p, q>>], Slots(p, q), TakePos(p, q), SendPos(p, q))
  BY LinkFacts
<1>2. SendPos(p, q) \in Slots(p, q)
  <2>1. SentOn(p, q) \in 0 .. 3 /\ pc[p] \in 2 .. Len(program) /\ program \in Programs
    BY AtMostThree, Ranges
  <2> QED
    BY <2>1, SlotMembers DEF SendPos
<1>3. Carries(net'[<<p, q>>], mail[<<p, q>>], Slots(p, q), TakePos(p, q), SendPos(p, q) + 1)
  BY <1>1, <1>2, CarriesAppend
<1> QED
  BY <1>3, SameSlots DEF LinkInv

LEMMA TakeFromLink ==
  ASSUME Types, NEW mail \in [Links -> [Nat -> WordSet]], NEW p \in Parties, NEW q \in Parties,
         CountInv(p), CountInv(q), LinkInv(mail, p, q), program' = program,
         Running(q), p = Source(pc[q], q), TakenOn(p, q) < Heard(pc[q], q),
         net[<<p, q>>] # <<>>, net'[<<p, q>>] = Tail(net[<<p, q>>]),
         TakePos(p, q)' = TakePos(p, q) + 1, SendPos(p, q)' = SendPos(p, q)
  PROVE  /\ Head(net[<<p, q>>]) = mail[<<p, q>>][TakePos(p, q)]
         /\ LinkInv(mail, p, q)'
<1>1. /\ Slots(p, q) \subseteq Nat /\ TakePos(p, q) \in Nat /\ SendPos(p, q) \in Nat
      /\ net[<<p, q>>] \in Seq(WordSet)
      /\ Carries(net[<<p, q>>], mail[<<p, q>>], Slots(p, q), TakePos(p, q), SendPos(p, q))
  BY LinkFacts
<1>2. TakePos(p, q) \in Slots(p, q)
  <2>1. TakenOn(p, q) \in Nat /\ pc[q] \in 2 .. Len(program) /\ program \in Programs
    BY Positions, Ranges
  <2>2. Heard(pc[q], q) \in 0 .. 3
    BY Ranges, Sources
  <2>3. TakenOn(p, q) \in 0 .. 3
    BY <2>1, <2>2
  <2> QED
    BY <2>1, <2>3, SlotMembers DEF TakePos
<1>3. /\ Head(net[<<p, q>>]) = mail[<<p, q>>][TakePos(p, q)]
      /\ Carries(net'[<<p, q>>], mail[<<p, q>>], Slots(p, q), TakePos(p, q) + 1, SendPos(p, q))
  BY <1>1, <1>2, CarriesTail
<1> QED
  BY <1>3, SameSlots DEF LinkInv

\* Party p has sent what it has to send to q, in the instruction it is at.
SentAll(p, q) == p = Source(pc[p], q) => Heard(pc[p], q) <= SentOn(p, q)

\* Party q has heard what it has to hear.
HeardAll(q) == Heard(pc[q], q) <= Len(got[q])

LEMMA SlotNumbers ==
  /\ \A i, k, t, j \in Nat :
       j <= 2 /\ 4 * i + t <= 4 * k + j /\ 4 * k + j < 4 * i + 4 => k = i /\ t <= j
  /\ \A i \in Nat : 4 * i + 4 \in Nat /\ \A t \in 0 .. 3 : 4 * i + t <= 4 * i + 4
  /\ \A h \in 0 .. 3, t \in Nat : t <= h => t \in 0 .. 3
OBVIOUS

LEMMA NextSlot == \A i, t \in Nat : 4 * i + (t + 1) = (4 * i + t) + 1
OBVIOUS

LEMMA SkipOnLink ==
  ASSUME Types, NEW mail \in [Links -> [Nat -> WordSet]], NEW p \in Parties, NEW q \in Parties,
         CountInv(p), CountInv(q), LinkInv(mail, p, q), program' = program,
         net'[<<p, q>>] = net[<<p, q>>],
         \/ SendPos(p, q)' = SendPos(p, q)
         \/ Running(p) /\ SentAll(p, q) /\ SendPos(p, q)' = 4 * pc[p] + 4,
         \/ TakePos(p, q)' = TakePos(p, q)
         \/ Running(q) /\ HeardAll(q) /\ TakePos(p, q)' = 4 * pc[q] + 4
  PROVE  LinkInv(mail, p, q)'
<1>1. /\ Slots(p, q) \subseteq Nat /\ TakePos(p, q) \in Nat /\ SendPos(p, q) \in Nat
      /\ Carries(net[<<p, q>>], mail[<<p, q>>], Slots(p, q), TakePos(p, q), SendPos(p, q))
  BY LinkFacts
<1>2. /\ program \in Programs /\ Len(program) \in Nat /\ pc[p] \in Nat /\ pc[q] \in Nat
      /\ SentOn(p, q) \in 0 .. 3 /\ TakenOn(p, q) \in Nat
  BY Ranges, AtMostThree, Positions
<1>3. /\ SendPos(p, q)' \in Nat /\ SendPos(p, q) <= SendPos(p, q)'
      /\ \A s \in Slots(p, q) : ~(SendPos(p, q) <= s /\ s < SendPos(p, q)')
  <2>1. CASE SendPos(p, q)' = SendPos(p, q)
    BY <1>1, <2>1
  <2>2. CASE Running(p) /\ SentAll(p, q) /\ SendPos(p, q)' = 4 * pc[p] + 4
    <3>1. 4 * pc[p] + 4 \in Nat /\ SendPos(p, q) <= 4 * pc[p] + 4
      BY <1>2, SlotNumbers, Zenon DEF SendPos
    <3>2. ASSUME NEW s \in Slots(p, q), SendPos(p, q) <= s, s < 4 * pc[p] + 4
          PROVE  FALSE
      <4>1. PICK k \in 2 .. Len(program), j \in 0 .. 2 :
              s = 4 * k + j /\ p = Source(k, q) /\ j < Heard(k, q)
        BY <1>2, SlotMembers
      <4>2. k = pc[p] /\ SentOn(p, q) <= j
        <5>1. k \in Nat /\ j \in Nat /\ j <= 2 /\ pc[p] \in Nat /\ SentOn(p, q) \in Nat
          BY <1>2
        <5>2. 4 * pc[p] + SentOn(p, q) <= 4 * k + j /\ 4 * k + j < 4 * pc[p] + 4
          BY <3>2, <4>1, Zenon DEF SendPos
        <5> QED
          BY <5>1, <5>2, SlotNumbers
      <4>3. Heard(k, q) \in 0 .. 3
        BY <1>2, Sources
      <4>4. Heard(k, q) <= SentOn(p, q)
        BY <2>2, <4>1, <4>2 DEF SentAll
      <4> QED
        BY <1>2, <4>1, <4>2, <4>3, <4>4
    <3> QED
      BY <2>2, <3>1, <3>2
  <2> QED
    BY <2>1, <2>2
<1>4. /\ TakePos(p, q)' \in Nat /\ TakePos(p, q) <= TakePos(p, q)'
      /\ \A s \in Slots(p, q) : ~(TakePos(p, q) <= s /\ s < TakePos(p, q)')
  <2>1. CASE TakePos(p, q)' = TakePos(p, q)
    BY <1>1, <2>1
  <2>2. CASE Running(q) /\ HeardAll(q) /\ TakePos(p, q)' = 4 * pc[q] + 4
    <3>0. Heard(pc[q], q) \in 0 .. 3 /\ TakenOn(p, q) <= Heard(pc[q], q)
      BY <2>2, Ranges, Sources, Positions
    <3>1. 4 * pc[q] + 4 \in Nat /\ TakePos(p, q) <= 4 * pc[q] + 4
      <4>1. TakenOn(p, q) \in 0 .. 3
        BY <1>2, <3>0, SlotNumbers, Zenon
      <4> QED
        BY <1>2, <4>1, SlotNumbers, Zenon DEF TakePos
    <3>2. ASSUME NEW s \in Slots(p, q), TakePos(p, q) <= s, s < 4 * pc[q] + 4
          PROVE  FALSE
      <4>1. PICK k \in 2 .. Len(program), j \in 0 .. 2 :
              s = 4 * k + j /\ p = Source(k, q) /\ j < Heard(k, q)
        BY <1>2, SlotMembers
      <4>2. k = pc[q] /\ TakenOn(p, q) <= j
        <5>1. k \in Nat /\ j \in Nat /\ j <= 2 /\ pc[q] \in Nat /\ TakenOn(p, q) \in Nat
          BY <1>2
        <5>2. 4 * pc[q] + TakenOn(p, q) <= 4 * k + j /\ 4 * k + j < 4 * pc[q] + 4
          BY <3>2, <4>1, Zenon DEF TakePos
        <5> QED
          BY <5>1, <5>2, SlotNumbers
      <4>3. TakenOn(p, q) = Len(got[q])
        BY <2>2, <4>1, <4>2 DEF TakenOn, Running
      <4>4. Len(got[q]) \in Nat
        BY Ranges
      <4>5. Heard(k, q) <= Len(got[q])
        BY <2>2, <4>2 DEF HeardAll
      <4> QED
        BY <3>0, <4>1, <4>2, <4>3, <4>4, <4>5
    <3> QED
      BY <2>2, <3>1, <3>2
  <2> QED
    BY <2>1, <2>2
<1>5. Carries(net[<<p, q>>], mail[<<p, q>>], Slots(p, q), TakePos(p, q)', SendPos(p, q)')
  BY <1>1, <1>3, <1>4, CarriesSkip
<1> QED
  BY <1>5, SameSlots DEF LinkInv

-----------------------------------------------------------------------------
(* Steps of a party: it sends, it hears, or neither.                       *)

OnlyBy(p) == program' = program /\ \A r \in Parties \ {p} : Still(r)

LEMMA OthersStill ==
  ASSUME Types, NEW mail, MailInv(mail), NEW p, OnlyBy(p), NEW r \in Parties \ {p}
  PROVE  /\ CountInv(r)' /\ GotInv(mail, r)' /\ SentInv(mail, r)' /\ ResultsInv(mail, r)'
         /\ \A q : SentOn(r, q)' = SentOn(r, q) /\ SendPos(r, q)' = SendPos(r, q)
         /\ \A q : TakenOn(q, r)' = TakenOn(q, r) /\ TakePos(q, r)' = TakePos(q, r)
<1>1. /\ r \in Parties /\ program' = program /\ Still(r)
      /\ CountInv(r) /\ GotInv(mail, r) /\ SentInv(mail, r) /\ ResultsInv(mail, r)
  BY DEF OnlyBy, MailInv
<1>2. pc'[r] = pc[r] /\ calls'[r] = calls[r] /\ got'[r] = got[r] /\ regs'[r] = regs[r]
  BY <1>1 DEF Still
<1> QED
  BY <1>1, <1>2, SameCount, SameGot, SameSent, SameResults, SameSentOn, SameTakenOn

LEMMA Together ==
  ASSUME Types, NEW mail, MailInv(mail), NEW p, OnlyBy(p),
         \A a, b \in Parties : LinkInv(mail, a, b)',
         CountInv(p)', GotInv(mail, p)', SentInv(mail, p)', ResultsInv(mail, p)', DealtInv(mail)'
  PROVE  MailInv(mail)'
<1>1. \A r \in Parties : /\ CountInv(r)' /\ GotInv(mail, r)' /\ SentInv(mail, r)'
                         /\ ResultsInv(mail, r)'
  BY OthersStill
<1>2. mail \in [Links -> [Nat -> WordSet]] /\ Links' = Links
  BY DEF MailInv, Links
<1> QED
  BY <1>1, <1>2 DEF MailInv

LEMMA DealtKept ==
  ASSUME program' = program, NEW mail, DealtInv(mail),
         \A k \in 2 .. Len(program) :
           LET d == program[k].party
           IN  (/\ program[k].op \in ShareOps
                /\ 4 * k < SendPos(d, Succ(d))'
                /\ 4 * k + 1 < SendPos(d, Pred(d))')
               => /\ 4 * k < SendPos(d, Succ(d)) /\ 4 * k + 1 < SendPos(d, Pred(d))
                  /\ plain'[k] = plain[k]
  PROVE  DealtInv(mail)'
BY DEF DealtInv

LEMMA ReachedIs ==
  \A r : /\ dealt[r] = <<>> => Reached(r) = Len(regs[r]) + 0
         /\ dealt[r] # <<>> => Reached(r) = Len(regs[r]) + 1
BY DEF Reached

\* What has been dealt is a plaintext known before.
LEMMA DealtIsReached ==
  ASSUME Types, NEW mail, MailInv(mail), PlainInv,
         NEW k \in 2 .. Len(program), program[k].op \in ShareOps,
         NEW d \in Parties, d = program[k].party,
         4 * k < SendPos(d, Succ(d)), 4 * k + 1 < SendPos(d, Pred(d))
  PROVE  k \in DOMAIN plain
<1>1. /\ pc[d] \in Nat /\ k \in Nat /\ CountInv(d) /\ ResultsInv(mail, d)
      /\ k <= pc[d] /\ (k = pc[d] => Running(d) /\ calls[d] = 4)
  <2>1. \A q \in Parties : CountInv(q)
    BY DEF MailInv
  <2>2. pc[d] \in Nat /\ k \in Nat
    BY <2>1, Ranges
  <2> QED
    BY <2>1, <2>2, AllDealt DEF MailInv
<1>2. Len(plain) \in Nat /\ DOMAIN plain = 1 .. Len(plain)
  <2>1. plain \in Seq(WordSet \cup {Unknown})
    BY DEF Types
  <2> QED
    BY <2>1
<1>3. Len(regs[d]) \in Nat /\ Len(regs[d]) >= pc[d] - 1
  <2>1. regs[d] \in Seq(Registers)
    BY DEF Types
  <2>2. Len(regs[d]) \in Nat
    BY <2>1
  <2>3. Len(regs[d]) \in {pc[d], pc[d] - 1}
    BY <1>1 DEF ResultsInv
  <2> QED
    BY <1>1, <2>2, <2>3
<1>4. Reached(d) <= Len(plain)
  BY DEF PlainInv
<1>5. k <= Reached(d)
  <2>1. CASE k < pc[d]
    <3>1. Reached(d) \in {Len(regs[d]), Len(regs[d]) + 1}
      <4>1. Len(regs[d]) + 0 = Len(regs[d])
        BY <1>3
      <4> QED
        BY <4>1, ReachedIs
    <3> QED
      BY <1>1, <1>3, <2>1, <3>1
  <2>2. CASE k = pc[d]
    <3>1. dealt[d] # <<>>
      <4>1. program[pc[d]].op \in ShareOps /\ program[pc[d]].party = d
        BY <2>2
      <4>2. Running(d) /\ Dealing(d) /\ calls[d] # 0
        BY <1>1, <2>2, <4>1 DEF Dealing, Dealer, Instr
      <4> QED
        BY <1>1, <4>2 DEF CountInv
    <3>2. Reached(d) = Len(regs[d]) + 1
      BY <3>1 DEF Reached
    <3>3. PICK m \in Nat, at \in Nat : m = Len(regs[d]) /\ at = pc[d] /\ m >= at - 1
      BY <1>1, <1>3
    <3>4. k = at /\ Reached(d) = m + 1
      BY <2>2, <3>2, <3>3
    <3>5. at <= m + 1
      BY ONLY <3>3, m \in Nat, at \in Nat
    <3> QED
      BY <3>4, <3>5
  <2> QED
    BY <1>1, <2>1, <2>2
<1>6. Reached(d) \in Nat
  BY <1>3, ReachedIs
<1>7. k <= Len(plain)
  BY <1>1, <1>2, <1>4, <1>5, <1>6
<1> QED
  BY <1>1, <1>2, <1>7

LEMMA QuietStep ==
  ASSUME Types, NEW mail, MailInv(mail), NEW p \in Parties, OnlyBy(p),
         UNCHANGED <<net, got, pc, regs>>, CountInv(p)', SentInv(mail, p)',
         \A q \in Parties : SentOn(p, q)' = SentOn(p, q),
         plain' = plain \/ (PlainInv /\ \A k \in DOMAIN plain : plain'[k] = plain[k])
  PROVE  MailInv(mail)'
<1>1. /\ program' = program /\ mail \in [Links -> [Nat -> WordSet]]
      /\ \A r \in Parties : CountInv(r) /\ GotInv(mail, r) /\ ResultsInv(mail, r)
      /\ \A a, b \in Parties : LinkInv(mail, a, b)
      /\ DealtInv(mail)
  BY DEF MailInv, OnlyBy
<1>2. \A a, b \in Parties : SendPos(a, b)' = SendPos(a, b)
  BY OthersStill DEF SendPos
<1>3. \A a, b \in Parties : TakePos(a, b)' = TakePos(a, b)
  BY <1>1, SameTakenOn
<1>4. \A a, b \in Parties : LinkInv(mail, a, b)'
  BY <1>1, <1>2, <1>3, SameLink
<1>5. GotInv(mail, p)' /\ ResultsInv(mail, p)'
  BY <1>1, SameGot, SameResults
<1>6. DealtInv(mail)'
  <2> SUFFICES ASSUME NEW k \in 2 .. Len(program), program[k].op \in ShareOps,
                      NEW d \in Parties, d = program[k].party,
                      4 * k < SendPos(d, Succ(d))', 4 * k + 1 < SendPos(d, Pred(d))'
               PROVE  /\ 4 * k < SendPos(d, Succ(d)) /\ 4 * k + 1 < SendPos(d, Pred(d))
                      /\ plain'[k] = plain[k]
    <3>1. \A k \in 2 .. Len(program) : program[k].op \in ShareOps => program[k].party \in Parties
      BY Instructions DEF Types
    <3> QED
      BY <1>1, <3>1, DealtKept
  <2>1. Succ(d) \in Parties /\ Pred(d) \in Parties
    BY Around
  <2>2. /\ SendPos(d, Succ(d))' = SendPos(d, Succ(d))
        /\ SendPos(d, Pred(d))' = SendPos(d, Pred(d))
    BY <1>2, <2>1
  <2>3. plain'[k] = plain[k]
    BY <2>2, DealtIsReached
  <2> QED
    BY <2>2, <2>3
<1> QED
  BY <1>4, <1>5, <1>6, Together

LEMMA SendStep ==
  ASSUME Types, NEW mail, MailInv(mail), NEW p \in Parties, NEW q \in Parties, OnlyBy(p),
         Running(p), p = Source(pc[p], q), SentOn(p, q) < Heard(pc[p], q),
         mail[<<p, q>>][SendPos(p, q)] = Message(p, q, SentOn(p, q)),
         net' = [net EXCEPT ![<<p, q>>] = Append(@, Message(p, q, SentOn(p, q)))],
         UNCHANGED <<got, pc, regs, dealt>>,
         SentOn(p, q)' = SentOn(p, q) + 1,
         \A r \in Parties \ {q} : SentOn(p, r)' = SentOn(p, r),
         CountInv(p)', DealtInv(mail)'
  PROVE  MailInv(mail)'
<1>1. /\ program' = program /\ mail \in [Links -> [Nat -> WordSet]]
      /\ \A r \in Parties : CountInv(r) /\ GotInv(mail, r) /\ ResultsInv(mail, r)
      /\ \A a, b \in Parties : LinkInv(mail, a, b)
      /\ SentInv(mail, p)
  BY DEF MailInv, OnlyBy
<1>2. /\ pc[p] \in Nat /\ SentOn(p, q) \in Nat /\ <<p, q>> \in Links
      /\ net \in [Links -> Seq(WordSet)]
  <2>1. pc[p] \in Nat /\ SentOn(p, q) \in Nat
    BY <1>1, Ranges, Positions
  <2> QED
    BY <2>1 DEF Links, Types
<1>3. \A a, b \in Parties : TakePos(a, b)' = TakePos(a, b)
  BY <1>1, SameTakenOn
<1>4. \A a, b \in Parties : <<a, b>> # <<p, q>> => SendPos(a, b)' = SendPos(a, b)
  <2>1. \A r \in Parties \ {q} : SendPos(p, r)' = SendPos(p, r)
    BY <1>1 DEF SendPos
  <2> QED
    BY <2>1, OthersStill
<1>5. SendPos(p, q)' = SendPos(p, q) + 1
  <2>1. SendPos(p, q)' = 4 * pc[p] + (SentOn(p, q) + 1)
    BY DEF SendPos
  <2> QED
    BY <1>2, <2>1, NextSlot, Zenon DEF SendPos
<1>6. LinkInv(mail, p, q)'
  <2>1. net'[<<p, q>>] = Append(net[<<p, q>>], mail[<<p, q>>][SendPos(p, q)])
    BY <1>2
  <2> QED
    BY <1>1, <1>3, <1>5, <2>1, SendOnLink
<1>7. ASSUME NEW a \in Parties, NEW b \in Parties, <<a, b>> # <<p, q>>
      PROVE  LinkInv(mail, a, b)'
  <2>1. net'[<<a, b>>] = net[<<a, b>>]
    <3>1. <<a, b>> \in Links
      BY DEF Links
    <3> QED
      BY <1>2, <1>7, <3>1
  <2> QED
    BY <1>1, <1>3, <1>4, <1>7, <2>1, SameLink
<1>8. SentInv(mail, p)'
  <2> SUFFICES ASSUME NEW r \in Parties, NEW j \in 0 .. 2, j < SentOn(p, r)'
               PROVE  mail[<<p, r>>][4 * pc[p] + j] = Message(p, r, j)'
    BY <1>1 DEF SentInv, Running
  <2>1. Message(p, r, j)' = Message(p, r, j)
    BY <1>1, SameMessage
  <2>2. CASE j < SentOn(p, r)
    BY <1>1, <2>1, <2>2 DEF SentInv
  <2>3. CASE ~(j < SentOn(p, r))
    <3>1. r = q /\ j = SentOn(p, q)
      BY <1>2, <2>3
    <3>2. mail[<<p, q>>][4 * pc[p] + j] = Message(p, q, j)
      BY <3>1 DEF SendPos
    <3> QED
      BY <2>1, <3>1, <3>2
  <2> QED
    BY <2>2, <2>3
<1>9. GotInv(mail, p)' /\ ResultsInv(mail, p)'
  BY <1>1, SameGot, SameResults
<1>10. \A a, b \in Parties : LinkInv(mail, a, b)'
  BY <1>6, <1>7
<1> QED
  BY <1>8, <1>9, <1>10, Together

LEMMA HearStep ==
  ASSUME Types, NEW mail, MailInv(mail), NEW p \in Parties, Receive(p), InCall
  PROVE  Types' /\ MailInv(mail)'
<1>1. /\ program' = program /\ mail \in [Links -> [Nat -> WordSet]]
      /\ \A r \in Parties : CountInv(r) /\ GotInv(mail, r) /\ ResultsInv(mail, r)
      /\ \A a, b \in Parties : LinkInv(mail, a, b)
      /\ SentInv(mail, p) /\ DealtInv(mail)
      /\ UNCHANGED <<pc, regs, dealt, plain, sending, calls>>
  BY DEF MailInv, Receive, InCall
<1>2. PICK q : q = receiving[p]
  OBVIOUS
<1>3. /\ q # NoParty /\ net[<<q, p>>] # <<>>
      /\ got' = [got EXCEPT ![p] = Append(@, Head(net[<<q, p>>]))]
      /\ net' = [net EXCEPT ![<<q, p>>] = Tail(@)]
      /\ receiving' = [receiving EXCEPT ![p] = NoParty]
  BY <1>2 DEF Receive
<1>4. /\ net \in [Links -> Seq(WordSet)] /\ got \in [Parties -> Seq(WordSet)]
      /\ receiving \in [Parties -> Parties \cup {NoParty}]
  BY DEF Types
<1>5. /\ pc[p] \in Nat /\ Len(program) \in Nat /\ calls[p] \in Nat
      /\ got[p] \in Seq(WordSet) /\ Len(got[p]) \in Nat
  BY <1>1, Ranges
<1>6. /\ Running(p) /\ ~Dealing(p) /\ dealt[p] = <<>>
      /\ q \in Parties /\ q = Source(pc[p], p)
      /\ calls[p] = Len(got[p]) + 1 /\ calls[p] <= Heard(pc[p], p)
  <2>1. Running(p) /\ ~Dealing(p)
    BY <1>1, <1>2, <1>3 DEF CountInv
  <2> QED
    BY <1>1, <1>2, <1>3, <1>4, <2>1 DEF CountInv
<1>7. Heard(pc[p], p) \in 0 .. 3 /\ <<q, p>> \in Links
  BY <1>1, <1>6, Ranges, Sources DEF Links
<1>8. TakenOn(q, p) = Len(got[p]) /\ TakenOn(q, p) < Heard(pc[p], p)
  <2>1. TakenOn(q, p) = Len(got[p])
    BY <1>5, <1>6 DEF TakenOn, Running
  <2> QED
    BY <1>5, <1>6, <1>7, <2>1
<1>9. PICK word \in WordSet : word = Head(net[<<q, p>>])
  <2>1. net[<<q, p>>] \in Seq(WordSet)
    BY <1>4, <1>7
  <2> QED
    BY <1>3, <2>1
<1>10. /\ got'[p] = Append(got[p], word) /\ Len(got'[p]) = Len(got[p]) + 1
       /\ got'[p][Len(got[p]) + 1] = word
       /\ \A i \in 1 .. Len(got[p]) : got'[p][i] = got[p][i]
  <2>1. got'[p] = Append(got[p], word)
    BY <1>3, <1>4, <1>9
  <2> QED
    BY <1>5, <2>1
<1>11. OnlyBy(p)
  <2>1. \A r \in Parties \ {p} : got'[r] = got[r] /\ receiving'[r] = receiving[r]
    BY <1>3, <1>4
  <2> QED
    BY <1>1, <2>1 DEF OnlyBy, Still
<1>12. Types'
  <2>1. got' \in [Parties -> Seq(WordSet)]
    BY <1>3, <1>4, <1>5, <1>9
  <2>2. net' \in [Links -> Seq(WordSet)]
    <3>1. net[<<q, p>>] \in Seq(WordSet)
      BY <1>4, <1>7
    <3>2. Tail(net[<<q, p>>]) \in Seq(WordSet)
      BY <1>3, <3>1
    <3> QED
      BY <1>3, <1>4, <1>7, <3>2
  <2>3. receiving' \in [Parties -> Parties \cup {NoParty}]
    BY <1>3, <1>4
  <2> QED
    BY <1>1, <2>1, <2>2, <2>3 DEF Types, Links
<1>13. /\ \A a, b : SentOn(a, b)' = SentOn(a, b)
       /\ \A a, b \in Parties : SendPos(a, b)' = SendPos(a, b)
  BY <1>1, SameSentOn
<1>14. TakePos(q, p)' = TakePos(q, p) + 1
  <2>1. Source(pc[p], p)' = Source(pc[p], p)
    BY <1>1 DEF Source
  <2>2. TakenOn(q, p)' = Len(got'[p])
    BY <1>1, <1>5, <1>6, <2>1 DEF TakenOn, Running
  <2>3. TakePos(q, p)' = 4 * pc[p] + (TakenOn(q, p) + 1)
    BY <1>1, <1>8, <1>10, <2>2 DEF TakePos
  <2>4. 4 * pc[p] + (TakenOn(q, p) + 1) = (4 * pc[p] + TakenOn(q, p)) + 1
    <3>1. TakenOn(q, p) \in Nat
      BY <1>5, <1>8
    <3> QED
      BY <1>5, <3>1, NextSlot, Zenon
  <2>5. TakePos(q, p) = 4 * pc[p] + TakenOn(q, p)
    BY DEF TakePos
  <2> QED
    BY <2>3, <2>4, <2>5
<1>15. ASSUME NEW a \in Parties, NEW b \in Parties, <<a, b>> # <<q, p>>
       PROVE  LinkInv(mail, a, b)'
  <2>1. TakePos(a, b)' = TakePos(a, b)
    <3>1. CASE b = p
      BY <1>1, <1>6, <1>15, <3>1, SameSlots DEF TakePos, TakenOn
    <3>2. CASE b # p
      BY <1>11, <3>2, OthersStill
    <3> QED
      BY <3>1, <3>2
  <2>2. net'[<<a, b>>] = net[<<a, b>>]
    <3>1. <<a, b>> \in Links
      BY DEF Links
    <3> QED
      BY <1>3, <1>4, <1>15, <3>1
  <2> QED
    BY <1>1, <1>13, <2>1, <2>2, SameLink
<1>16. word = mail[<<q, p>>][TakePos(q, p)] /\ LinkInv(mail, q, p)'
  <2>1. net'[<<q, p>>] = Tail(net[<<q, p>>])
    BY <1>3, <1>4, <1>7
  <2> QED
    BY <1>1, <1>3, <1>6, <1>8, <1>9, <1>13, <1>14, <2>1, TakeFromLink
<1>17. CountInv(p)'
  <2>1. Running(p)' /\ ~Dealing(p)' /\ receiving'[p] = NoParty
    BY <1>1, <1>3, <1>4, <1>6 DEF Running, Dealing, Dealer, Instr
  <2>2. Heard(pc[p], p)' = Heard(pc[p], p)
    BY <1>1, SameSlots DEF Heard
  <2> QED
    BY <1>1, <1>6, <1>10, <2>1, <2>2 DEF CountInv
<1>18. GotInv(mail, p)'
  <2> SUFFICES ASSUME NEW j \in 1 .. Len(got'[p])
               PROVE  got'[p][j] = mail[<<q, p>>][4 * pc[p] + (j - 1)]
    <3>1. Source(pc[p], p)' = q
      BY <1>1, <1>6 DEF Source
    <3> QED
      BY <1>1, <3>1 DEF GotInv
  <2>1. CASE j \in 1 .. Len(got[p])
    BY <1>1, <1>6, <1>10, <2>1 DEF GotInv
  <2>2. CASE j = Len(got[p]) + 1
    <3>1. j - 1 = TakenOn(q, p)
      BY <1>5, <1>8, <2>2
    <3> QED
      BY <1>10, <1>16, <2>2, <3>1 DEF TakePos
  <2>3. j \in 1 .. Len(got[p]) \/ j = Len(got[p]) + 1
    BY <1>5, <1>10
  <2> QED
    BY <2>1, <2>2, <2>3
<1>19. SentInv(mail, p)'
  <2> SUFFICES ASSUME NEW r \in Parties, NEW j \in 0 .. 2, j < SentOn(p, r)
               PROVE  mail[<<p, r>>][4 * pc[p] + j] = Message(p, r, j)'
    BY <1>1, <1>6, <1>13 DEF SentInv, Running
  <2>1. mail[<<p, r>>][4 * pc[p] + j] = Message(p, r, j)
    BY <1>1, <1>6 DEF SentInv
  <2>2. Instr(p).op = "b2a_bit" => j < Len(got[p]) + 1
    <3>1. ASSUME Instr(p).op = "b2a_bit"
          PROVE  SentOn(p, r) \in {0, calls[p]}
      BY <3>1 DEF SentOn, Instr, ShareOps
    <3> QED
      BY <1>5, <1>6, <3>1
  <2>3. Instr(p).op = "b2a_bit" => (j = 0 \/ got'[p][1] = got[p][1])
    BY <1>5, <1>10, <2>2
  <2>4. Instr(p).op = "b2a_bit" => (j \in {0, 1} \/ got'[p][2] = got[p][2])
    BY <1>5, <1>10, <2>2
  <2>5. Message(p, r, j)' = Message(p, r, j)
    BY <1>1, <2>3, <2>4, SameMessage
  <2> QED
    BY <2>1, <2>5
<1>20. ResultsInv(mail, p)'
  BY <1>1, SameResults
<1>21. DealtInv(mail)'
  BY <1>1, <1>13, SameSentOn DEF DealtInv
<1>22. \A a, b \in Parties : LinkInv(mail, a, b)'
  BY <1>15, <1>16
<1> QED
  BY <1>11, <1>12, <1>17, <1>18, <1>19, <1>20, <1>21, <1>22, Together

-----------------------------------------------------------------------------
(* What is sent are words.                                                 *)

LEMMA Sharing ==
  ASSUME Types, NEW p \in Parties, NEW k \in 1 .. Len(regs[p])
  PROVE  /\ regs[p][k] \in Registers
         /\ regs[p][k].kind # "open" => regs[p][k].shares \in Sharings
<1>1. regs[p] \in Seq(Registers)
  BY DEF Types
<1>2. regs[p][k] \in Registers
  BY <1>1
<1> QED
  BY <1>2 DEF Registers

\* The operands of the instruction a party is at.
LEMMA OperandShares ==
  ASSUME Types, NEW mail, MailInv(mail), NEW p \in Parties, Running(p)
  PROVE  /\ Len(regs[p]) = pc[p] - 1
         /\ Instr(p).op \notin {"secret_share_a", "secret_share_b"} =>
              X(p) \in Sharings /\ Instr(p).x \in 1 .. pc[p] - 1
         /\ Instr(p).op \in BinaryOps \cup MultiplyOps =>
              Y(p) \in Sharings /\ Instr(p).y \in 1 .. pc[p] - 1
<1>1. /\ CountInv(p) /\ ResultsInv(mail, p)
  BY DEF MailInv
<1>2. /\ pc[p] \in Nat /\ pc[p] \in 1 .. Len(program) /\ Len(program) \in Nat
      /\ program \in Programs /\ pc[p] >= 2
  BY <1>1, Ranges
<1>3. Len(regs[p]) = pc[p] - 1
  BY <1>1, <1>2 DEF ResultsInv, Divided, Running
<1>4. ASSUME NEW k \in 1 .. pc[p] - 1, program[k].op \notin OpenOps
      PROVE  regs[p][k].shares \in Sharings
  <2>1. regs[p][k].kind = Kind(program[k].op)
    <3>1. CASE k = 1
      BY <1>1, <3>1 DEF ResultsInv
    <3>2. CASE k # 1
      <4>1. k \in 2 .. pc[p] - 1
        BY <1>2, <3>2
      <4> QED
        BY <1>1, <1>4, <4>1 DEF ResultsInv, ResultInv, ResultKind
    <3> QED
      BY <3>1, <3>2
  <2>2. regs[p][k].kind # "open"
    BY <2>1 DEF Kind
  <2>3. k \in 1 .. Len(regs[p])
    BY <1>3
  <2> QED
    BY <2>2, <2>3, Sharing
<1>5. ASSUME Instr(p).op \notin {"secret_share_a", "secret_share_b"}
      PROVE  X(p) \in Sharings /\ Instr(p).x \in 1 .. pc[p] - 1
  <2>1. Instr(p).x \in 1 .. pc[p] - 1 /\ program[Instr(p).x].op \notin OpenOps
    BY <1>2, <1>5, Instructions DEF Instr
  <2> QED
    BY <1>4, <2>1 DEF X
<1>6. ASSUME Instr(p).op \in BinaryOps \cup MultiplyOps
      PROVE  Y(p) \in Sharings /\ Instr(p).y \in 1 .. pc[p] - 1
  <2>1. Instr(p).y \in 1 .. pc[p] - 1 /\ program[Instr(p).y].op \notin OpenOps
    BY <1>2, <1>6, Instructions DEF Instr
  <2> QED
    BY <1>4, <2>1 DEF Y
<1> QED
  BY <1>3, <1>5, <1>6

LEMMA ProductIsWord ==
  ASSUME NEW kind, NEW x \in Sharings, NEW y \in Sharings
  PROVE  ProductShare(kind, x, y) \in WordSet
<1>1. x[1] \in WordSet /\ x[2] \in WordSet /\ y[1] \in WordSet /\ y[2] \in WordSet
  BY DEF Sharings
<1>2. /\ Times(kind, x[1], y[1]) \in WordSet /\ Times(kind, x[1], y[2]) \in WordSet
      /\ Times(kind, x[2], y[1]) \in WordSet /\ ZeroShare \in WordSet
  BY <1>1, Closure DEF ZeroShare
<1>3. Plus(kind, Times(kind, x[1], y[1]), Times(kind, x[1], y[2])) \in WordSet
  BY <1>2, Closure
<1>4. Plus(kind, Plus(kind, Times(kind, x[1], y[1]), Times(kind, x[1], y[2])),
                 Times(kind, x[2], y[1])) \in WordSet
  BY <1>2, <1>3, Closure
<1> QED
  BY <1>2, <1>4, Closure DEF ProductShare

LEMMA QuotientSharesAreWords ==
  ASSUME NEW p \in Parties, NEW x \in Sharings, NEW c \in Divisor
  PROVE  DivisionShares(p, x, c)[1] \in WordSet /\ DivisionShares(p, x, c)[2] \in WordSet
<1>1. x[1] \in WordSet /\ x[2] \in WordSet /\ x[1] + x[2] \in Int
  BY Closure DEF Sharings
<1>2. Wrap(x[1] + x[2]) \in WordSet
  BY <1>1, WordsAreClosed
<1> DEFINE parts == DivisionParts(3, Signed(Wrap(x[1] + x[2])), Signed(x[1]), c)
<1>3. \A k \in {1, 2} : parts[k].quotient \in Int /\ parts[k].error \in Int
  BY <1>1, <1>2, SignedWord, PartsAreNumbers
<1>4. p # 2 => p + 1 \in {1, 2}
  BY Neighbours
<1> HIDE DEF parts
<1>5. CASE p = 2
  <2>1. DivisionShares(p, x, c) = <<ZeroShare, ZeroShare>>
    BY <1>5 DEF DivisionShares
  <2> QED
    BY <2>1, Closure DEF ZeroShare
<1>6. CASE p # 2
  <2>1. DivisionShares(p, x, c) = <<Wrap(parts[p + 1].quotient - ZeroShare),
                                    Wrap(parts[p + 1].error - ZeroShare)>>
    BY <1>6 DEF DivisionShares, parts
  <2>2. parts[p + 1].quotient - ZeroShare \in Int /\ parts[p + 1].error - ZeroShare \in Int
    BY <1>3, <1>4, <1>6 DEF ZeroShare
  <2>3. /\ Wrap(parts[p + 1].quotient - ZeroShare) \in WordSet
        /\ Wrap(parts[p + 1].error - ZeroShare) \in WordSet
    BY <2>2, WordsAreClosed
  <2> QED
    BY <2>1, <2>3
<1> QED
  BY <1>5, <1>6

LEMMA BitsAreWords ==
  ASSUME NEW p \in Parties, X(p) \in Sharings
  PROVE  /\ Masked(X(p)) \in WordSet
         /\ got[p][1] \in WordSet /\ got[p][2] \in WordSet => BitShare(p) \in WordSet
<1>1. X(p)[1] \in WordSet
  BY DEF Sharings
<1>2. Masked(X(p)) \in WordSet
  BY <1>1, Closure, WordsAreClosed DEF Masked, MaskBit
<1>3. ASSUME got[p][1] \in WordSet, got[p][2] \in WordSet
      PROVE  BitShare(p) \in WordSet
  <2> DEFINE bit == OpenedBit(p)
             number == MaskBit * (bit * (-2) + 1) + bit * (p % 2)
  <2>1. bit \in WordSet
    <3>1. bit = Plus("b", Plus("b", Masked(X(p)), got[p][1]), got[p][2])
      BY DEF OpenedBit, Opened
    <3>2. Plus("b", Masked(X(p)), got[p][1]) \in WordSet
      BY <1>2, <1>3, Closure
    <3> QED
      BY <1>3, <3>1, <3>2, Closure
  <2>2. bit \in Nat /\ p % 2 \in {0, 1}
    BY <2>1, Closure, Around
  <2> HIDE DEF bit
  <2>3. bit * (-2) + 1 \in Int /\ bit * (p % 2) \in Int
    BY <2>2
  <2>4. number \in Int
    BY <2>3 DEF MaskBit
  <2>5. LowBit(Wrap(number)) \in WordSet
    <3> HIDE DEF number
    <3> QED
      BY <2>4, WordsAreClosed, Closure
  <2> QED
    BY <2>5, Zenon DEF BitShare, bit
<1> QED
  BY <1>2, <1>3

-----------------------------------------------------------------------------
(* Sums of shares.                                                         *)

\* The shares get_shares makes add up to the data.
LEMMA DealAddsUp ==
  ASSUME NEW kind, NEW data \in WordSet, NEW u \in WordSet, NEW v \in WordSet
  PROVE  Total(kind, u, Minus(kind, Minus(kind, data, u), v), v) = data
<1> DEFINE w == Minus(kind, Minus(kind, data, u), v)
<1>1. CASE kind = "a"
  <2>1. u \in Nat /\ v \in Nat /\ data \in Nat
    BY Closure
  <2>2. w = Wrap(Wrap(data - u) - v)
    BY <1>1 DEF Minus
  <2>3. data - u \in Int /\ (data - u) - v \in Int
    BY <2>1
  <2>4. w = Wrap((data - u) - v)
    BY <2>1, <2>2, <2>3, WrapTerms
  <2> HIDE DEF w
  <2>5. Total(kind, u, w, v) = Wrap(Wrap(u + w) + v)
    BY <1>1 DEF Total, Plus
  <2>6. Wrap(u + w) = Wrap(u + ((data - u) - v))
    BY <2>1, <2>3, <2>4, WrapTerms
  <2>7. u + ((data - u) - v) = data - v /\ data - v \in Int /\ (data - v) + v = data
    BY <2>1
  <2>8. Wrap(Wrap(data - v) + v) = Wrap(data)
    BY <2>1, <2>7, WrapTerms
  <2> QED
    BY <2>5, <2>6, <2>7, <2>8, WrapWord DEF w
<1>2. CASE kind # "a"
  <2>1. w = Xor(Xor(data, u), v)
    BY <1>2 DEF Minus
  <2>2. Xor(data, u) \in WordSet /\ Xor(data, u) = Xor(u, data) /\ Xor(u, data) \in WordSet
    BY XorCommutes, XorBits
  <2>3. w \in WordSet
    BY <2>1, <2>2, XorBits
  <2>4. Total(kind, u, w, v) = Xor(Xor(u, w), v)
    BY <1>2, Zenon DEF Total, Plus
  <2>5. Xor(u, w) = Xor(Xor(u, Xor(data, u)), v)
    BY <2>1, <2>2, XorAssociates
  <2>6. Xor(u, Xor(data, u)) = data
    <3>1. Xor(u, Xor(data, u)) = Xor(u, Xor(u, data))
      BY <2>2
    <3>2. Xor(u, Xor(u, data)) = Xor(Xor(u, u), data)
      BY XorAssociates
    <3> QED
      BY <3>1, <3>2, XorCancels
  <2>7. Xor(Xor(data, v), v) = Xor(data, Xor(v, v))
    BY XorAssociates
  <2>8. Xor(data, Xor(v, v)) = data
    BY XorCancels
  <2> QED
    BY <2>4, <2>5, <2>6, <2>7, <2>8
<1> QED
  BY <1>1, <1>2

\* A local operation on the shares is one on the secret.
LEMMA LocalAddsUp ==
  ASSUME NEW op \in LocalOps,
         NEW u \in WordSet, NEW v \in WordSet, NEW w \in WordSet,
         NEW a \in WordSet, NEW b \in WordSet, NEW c \in WordSet,
         op = "not_b_1" => u \in {0, 1} /\ v \in {0, 1} /\ w \in {0, 1}
  PROVE  LET kind == Kind(op)
         IN  Total(kind, LocalShare(op, u, a), LocalShare(op, v, b), LocalShare(op, w, c))
               = LocalShare(op, Total(kind, u, v, w), Total(kind, a, b, c))
<1>0. /\ u \in Nat /\ v \in Nat /\ w \in Nat /\ a \in Nat /\ b \in Nat /\ c \in Nat
  BY Closure
<1>1. CASE op = "add_a"
  <2>1. /\ Total("a", Wrap(u + a), Wrap(v + b), Wrap(w + c))
             = Wrap(Wrap(Wrap(u + a) + Wrap(v + b)) + Wrap(w + c))
        /\ Total("a", u, v, w) = Wrap(Wrap(u + v) + w)
        /\ Total("a", a, b, c) = Wrap(Wrap(a + b) + c)
    BY DEF Total, Plus
  <2>2. PICK i \in Int, j \in Int, k \in Int : i = u + a /\ j = v + b /\ k = w + c
    BY <1>0
  <2>3. Wrap(Wrap(Wrap(i) + Wrap(j)) + Wrap(k)) = Wrap((i + j) + k)
    BY ThreeTerms
  <2>4. Wrap(Wrap(u + v) + w) = Wrap((u + v) + w) /\ Wrap(Wrap(a + b) + c) = Wrap((a + b) + c)
    BY <1>0, WrapTerms, SumsAreInt
  <2>5. Wrap(Wrap((u + v) + w) + Wrap((a + b) + c)) = Wrap(((u + v) + w) + ((a + b) + c))
    BY <1>0, TwoTerms, SumsAreInt
  <2>6. ((u + v) + w) + ((a + b) + c) = (i + j) + k
    BY <1>0, <2>2
  <2> QED
    BY <1>1, <2>1, <2>2, <2>3, <2>4, <2>5, <2>6 DEF LocalShare, Kind
<1>2. CASE op = "sub_a"
  <2>1. /\ Total("a", Wrap(u - a), Wrap(v - b), Wrap(w - c))
             = Wrap(Wrap(Wrap(u - a) + Wrap(v - b)) + Wrap(w - c))
        /\ Total("a", u, v, w) = Wrap(Wrap(u + v) + w)
        /\ Total("a", a, b, c) = Wrap(Wrap(a + b) + c)
    BY DEF Total, Plus
  <2>2. PICK i \in Int, j \in Int, k \in Int : i = u - a /\ j = v - b /\ k = w - c
    BY <1>0
  <2>3. Wrap(Wrap(Wrap(i) + Wrap(j)) + Wrap(k)) = Wrap((i + j) + k)
    BY ThreeTerms
  <2>4. Wrap(Wrap(u + v) + w) = Wrap((u + v) + w) /\ Wrap(Wrap(a + b) + c) = Wrap((a + b) + c)
    BY <1>0, WrapTerms, SumsAreInt
  <2>5. Wrap(Wrap((u + v) + w) - Wrap((a + b) + c)) = Wrap(((u + v) + w) - ((a + b) + c))
    BY <1>0, TwoTerms, SumsAreInt
  <2>6. ((u + v) + w) - ((a + b) + c) = (i + j) + k
    BY <1>0, <2>2
  <2> QED
    BY <1>2, <2>1, <2>2, <2>3, <2>4, <2>5, <2>6 DEF LocalShare, Kind
<1>3. CASE op = "neg_a"
  <2>1. /\ Total("a", Wrap(-u), Wrap(-v), Wrap(-w)) = Wrap(Wrap(Wrap(-u) + Wrap(-v)) + Wrap(-w))
        /\ Total("a", u, v, w) = Wrap(Wrap(u + v) + w)
    BY DEF Total, Plus
  <2>2. -u \in Int /\ -v \in Int /\ -w \in Int
    BY <1>0
  <2>3. Wrap(Wrap(Wrap(-u) + Wrap(-v)) + Wrap(-w)) = Wrap(((-u) + (-v)) + (-w))
    BY <2>2, ThreeTerms
  <2>4. Wrap(Wrap(u + v) + w) = Wrap((u + v) + w)
    BY <1>0, WrapTerms, SumsAreInt
  <2>5. Wrap(0 - Wrap((u + v) + w)) = Wrap(0 - ((u + v) + w))
    BY <1>0, WrapTerms, SumsAreInt
  <2>6. /\ 0 - ((u + v) + w) = ((-u) + (-v)) + (-w)
        /\ 0 - Wrap((u + v) + w) = -Wrap((u + v) + w)
    <3>1. Wrap((u + v) + w) \in Int
      BY <1>0, SumsAreInt, WrapIsInt
    <3> QED
      BY <1>0, <3>1
  <2> QED
    BY <1>3, <2>1, <2>3, <2>4, <2>5, <2>6 DEF LocalShare, Kind
<1>4. CASE op = "xor_b"
  <2> DEFINE x(s, t) == Plus("b", s, t)
  <2>1. \A s, t : Xor(s, t) = x(s, t)
    BY DEF Plus
  <2>2. x(x(x(u, a), x(v, b)), x(w, c)) = x(x(x(u, v), w), x(x(a, b), c))
    <3>1. x(x(u, a), x(v, b)) = x(x(u, v), x(a, b))
      BY FourTerms
    <3>2. x(u, v) \in WordSet /\ x(a, b) \in WordSet
      BY PlusRules
    <3>3. x(x(x(u, v), x(a, b)), x(w, c)) = x(x(x(u, v), w), x(x(a, b), c))
      BY <3>2, FourTerms
    <3> QED
      BY <3>1, <3>3
  <2> QED
    BY <1>4, <2>1, <2>2, Zenon DEF LocalShare, Kind, Total
<1>5. CASE op = "not_b"
  <2>1. Total("b", Not(u), Not(v), Not(w)) = Xor(Xor(Not(u), Not(v)), Not(w))
    BY DEF Total, Plus
  <2>2. Total("b", u, v, w) = Xor(Xor(u, v), w)
    BY DEF Total, Plus
  <2> QED
    BY <1>5, <2>1, <2>2, NotOfXor DEF LocalShare, Kind
<1>6. CASE op = "not_b_1"
  <2>1. u \in {0, 1} /\ v \in {0, 1} /\ w \in {0, 1}
    BY <1>6
  <2>2. \A s, t \in {0, 1} : /\ Plus("b", s, t) = (s + t) % 2 /\ Plus("b", s, t) \in {0, 1}
                             /\ Truth(s = 0) = 1 - s /\ 1 - s \in {0, 1}
    BY SingleBits DEF Plus, Truth
  <2>3. /\ Total("b", u, v, w) = (((u + v) % 2) + w) % 2 /\ Total("b", u, v, w) \in {0, 1}
        /\ Total("b", 1 - u, 1 - v, 1 - w) = ((((1 - u) + (1 - v)) % 2) + (1 - w)) % 2
    BY <2>1, <2>2 DEF Total
  <2>4. ((((1 - u) + (1 - v)) % 2) + (1 - w)) % 2 = 1 - ((((u + v) % 2) + w) % 2)
    BY <2>1, BitArithmetic
  <2> QED
    BY <1>6, <2>1, <2>2, <2>3, <2>4 DEF LocalShare, Kind
<1>7. CASE op = "ltz"
  <2>1. \A s \in WordSet : Truth(Signed(s) < 0) = Bit(s, Width - 1)
    BY SignBit
  <2>2. Width - 1 \in Places /\ Total("b", u, v, w) \in WordSet
    BY SignBit, PlusRules
  <2>3. /\ Total("b", u, v, w) = Xor(Xor(u, v), w)
        /\ \A r, s, t : Total("b", r, s, t) = Xor(Xor(r, s), t)
    BY DEF Total, Plus
  <2>4. Xor(Xor(Bit(u, Width - 1), Bit(v, Width - 1)), Bit(w, Width - 1))
          = Bit(Xor(Xor(u, v), w), Width - 1)
    BY <2>2, BitOfXor
  <2>5. /\ LocalShare(op, u, a) = Bit(u, Width - 1) /\ LocalShare(op, v, b) = Bit(v, Width - 1)
        /\ LocalShare(op, w, c) = Bit(w, Width - 1)
    BY <1>7, <2>1 DEF LocalShare
  <2>6. LocalShare(op, Total("b", u, v, w), Total("b", a, b, c)) = Bit(Total("b", u, v, w), Width - 1)
    BY <1>7, <2>1, <2>2 DEF LocalShare
  <2> QED
    BY <1>7, <2>3, <2>4, <2>5, <2>6 DEF Kind
<1> QED
  BY <1>1, <1>2, <1>3, <1>4, <1>5, <1>6, <1>7 DEF LocalOps, UnaryOps, BinaryOps

\* And is to xor what times is to plus.
LEMMA ProductBits ==
  \A a, b, c, u, v, w \in {0, 1} :
    (((((((u * a + u * c) % 2) + w * a) % 2)
        + ((((v * b + v * a) % 2) + u * b) % 2)) % 2)
      + ((((w * c + w * b) % 2) + v * c) % 2)) % 2
    = ((((u + v) % 2) + w) % 2) * ((((a + b) % 2) + c) % 2)
OBVIOUS

LEMMA ProductShareIs ==
  ASSUME NEW kind, NEW x \in Sharings, NEW y \in Sharings
  PROVE  ProductShare(kind, x, y)
           = Total(kind, Times(kind, x[1], y[1]), Times(kind, x[1], y[2]), Times(kind, x[2], y[1]))
<1> DEFINE sum == Total(kind, Times(kind, x[1], y[1]), Times(kind, x[1], y[2]),
                              Times(kind, x[2], y[1]))
<1>1. x[1] \in WordSet /\ x[2] \in WordSet /\ y[1] \in WordSet /\ y[2] \in WordSet
  BY DEF Sharings
<1>2. sum \in WordSet
  BY <1>1, Closure DEF Total
<1>3. ProductShare(kind, x, y) = Plus(kind, sum, 0)
  BY DEF ProductShare, Total, ZeroShare
<1> QED
  BY <1>2, <1>3, PlusZero

\* The parties' shares of a product add up to the product.
LEMMA ProductAddsUp ==
  ASSUME NEW kind,
         NEW xp \in Sharings, NEW xq \in Sharings, NEW xr \in Sharings,
         NEW yp \in Sharings, NEW yq \in Sharings, NEW yr \in Sharings,
         xp[2] = xr[1], xq[2] = xp[1], xr[2] = xq[1],
         yp[2] = yr[1], yq[2] = yp[1], yr[2] = yq[1]
  PROVE  Total(kind, ProductShare(kind, xp, yp), ProductShare(kind, xq, yq),
                     ProductShare(kind, xr, yr))
           = Times(kind, Total(kind, xp[1], xq[1], xr[1]), Total(kind, yp[1], yq[1], yr[1]))
<1> DEFINE t(s, e) == Times(kind, s, e)
           T(i, j, k) == Total(kind, i, j, k)
<1>1. PICK u \in WordSet, v \in WordSet, w \in WordSet :
        u = xp[1] /\ v = xq[1] /\ w = xr[1]
  BY DEF Sharings
<1>2. PICK a \in WordSet, b \in WordSet, c \in WordSet :
        a = yp[1] /\ b = yq[1] /\ c = yr[1]
  BY DEF Sharings
<1>3. /\ ProductShare(kind, xp, yp) = T(t(u, a), t(u, c), t(w, a))
      /\ ProductShare(kind, xq, yq) = T(t(v, b), t(v, a), t(u, b))
      /\ ProductShare(kind, xr, yr) = T(t(w, c), t(w, b), t(v, c))
  BY <1>1, <1>2, ProductShareIs
<1> SUFFICES T(T(t(u, a), t(u, c), t(w, a)), T(t(v, b), t(v, a), t(u, b)),
                                             T(t(w, c), t(w, b), t(v, c)))
               = t(T(u, v, w), T(a, b, c))
  BY <1>1, <1>2, <1>3
<1>4. CASE kind = "a"
  <2> DEFINE A == (u * a + u * c) + w * a
             B == (v * b + v * a) + u * b
             C == (w * c + w * b) + v * c
  <2>1. /\ u \in Int /\ v \in Int /\ w \in Int /\ a \in Int /\ b \in Int /\ c \in Int
    BY Closure
  <2>2. \A s, e \in Int : s * e \in Int
    BY TimesInt
  <2>3. \A i, j, k \in Int : T(Wrap(i), Wrap(j), Wrap(k)) = Wrap((i + j) + k)
    BY <1>4, ThreeTerms DEF Total, Plus
  <2>4. \A s, e : t(s, e) = Wrap(s * e)
    BY <1>4 DEF Times
  <2>5. /\ u * a \in Int /\ u * c \in Int /\ w * a \in Int /\ v * b \in Int /\ v * a \in Int
        /\ u * b \in Int /\ w * c \in Int /\ w * b \in Int /\ v * c \in Int
    BY <2>1, <2>2
  <2> HIDE DEF T, t
  <2>6. /\ T(t(u, a), t(u, c), t(w, a)) = Wrap(A)
        /\ T(t(v, b), t(v, a), t(u, b)) = Wrap(B)
        /\ T(t(w, c), t(w, b), t(v, c)) = Wrap(C)
    <3>1. T(t(u, a), t(u, c), t(w, a)) = Wrap(A)
      <4>1. PICK i \in Int, j \in Int, k \in Int : i = u * a /\ j = u * c /\ k = w * a
        BY <2>5
      <4>2. t(u, a) = Wrap(i) /\ t(u, c) = Wrap(j) /\ t(w, a) = Wrap(k)
        BY <2>4, <4>1
      <4> QED
        BY ONLY <2>3, <4>1, <4>2 DEF A
    <3>2. T(t(v, b), t(v, a), t(u, b)) = Wrap(B)
      <4>1. PICK i \in Int, j \in Int, k \in Int : i = v * b /\ j = v * a /\ k = u * b
        BY <2>5
      <4>2. t(v, b) = Wrap(i) /\ t(v, a) = Wrap(j) /\ t(u, b) = Wrap(k)
        BY <2>4, <4>1
      <4> QED
        BY ONLY <2>3, <4>1, <4>2 DEF B
    <3>3. T(t(w, c), t(w, b), t(v, c)) = Wrap(C)
      <4>1. PICK i \in Int, j \in Int, k \in Int : i = w * c /\ j = w * b /\ k = v * c
        BY <2>5
      <4>2. t(w, c) = Wrap(i) /\ t(w, b) = Wrap(j) /\ t(v, c) = Wrap(k)
        BY <2>4, <4>1
      <4> QED
        BY ONLY <2>3, <4>1, <4>2 DEF C
    <3> QED
      BY <3>1, <3>2, <3>3
  <2>7. A \in Int /\ B \in Int /\ C \in Int
    BY <2>5, SumsAreInt
  <2>8. (A + B) + C = ((u + v) + w) * ((a + b) + c)
    BY <2>1
  <2> HIDE DEF A, B, C
  <2>9. T(Wrap(A), Wrap(B), Wrap(C)) = Wrap((A + B) + C)
    BY <2>3, <2>7
  <2>10. u = Wrap(u) /\ v = Wrap(v) /\ w = Wrap(w) /\ a = Wrap(a) /\ b = Wrap(b) /\ c = Wrap(c)
    BY WrapWord
  <2>11. T(u, v, w) = Wrap((u + v) + w) /\ T(a, b, c) = Wrap((a + b) + c)
    <3>1. T(Wrap(u), Wrap(v), Wrap(w)) = Wrap((u + v) + w)
      BY <2>1, <2>3
    <3>2. T(Wrap(a), Wrap(b), Wrap(c)) = Wrap((a + b) + c)
      BY <2>1, <2>3
    <3> QED
      BY <2>10, <3>1, <3>2
  <2>12. (u + v) + w \in Int /\ (a + b) + c \in Int
    BY <2>1, SumsAreInt
  <2>13. Wrap(Wrap((u + v) + w) * Wrap((a + b) + c)) = Wrap(((u + v) + w) * ((a + b) + c))
    BY <2>12, TwoTerms
  <2> QED
    BY <2>4, <2>6, <2>8, <2>9, <2>11, <2>13 DEF T, t
<1>5. CASE kind # "a"
  <2>1. /\ \A s, e : t(s, e) = And(s, e)
        /\ \A i, j, k : T(i, j, k) = Xor(Xor(i, j), k)
    BY <1>5 DEF Times, Total, Plus
  <2>2. ASSUME NEW i \in WordSet, NEW j \in WordSet, NEW k \in WordSet
        PROVE  /\ T(i, j, k) \in WordSet
               /\ \A n \in Places :
                    Bit(T(i, j, k), n) = (((Bit(i, n) + Bit(j, n)) % 2) + Bit(k, n)) % 2
    <3>1. /\ Xor(i, j) \in WordSet
          /\ \A n \in Places : Bit(Xor(i, j), n) = (Bit(i, n) + Bit(j, n)) % 2
      BY XorBits
    <3>2. /\ Xor(Xor(i, j), k) \in WordSet
          /\ \A n \in Places : Bit(Xor(Xor(i, j), k), n) = (Bit(Xor(i, j), n) + Bit(k, n)) % 2
      BY <3>1, XorBits
    <3> HIDE DEF T
    <3> QED
      BY <2>1, <3>1, <3>2
  <2>3. ASSUME NEW i \in WordSet, NEW j \in WordSet
        PROVE  /\ t(i, j) \in WordSet
               /\ \A n \in Places : Bit(t(i, j), n) = Bit(i, n) * Bit(j, n)
    BY <2>1, AndBits
  <2> HIDE DEF T, t
  <2> DEFINE P == T(t(u, a), t(u, c), t(w, a))
             Q == T(t(v, b), t(v, a), t(u, b))
             R == T(t(w, c), t(w, b), t(v, c))
  <2>4. P \in WordSet /\ Q \in WordSet /\ R \in WordSet
    BY <2>2, <2>3
  <2>5. T(u, v, w) \in WordSet /\ T(a, b, c) \in WordSet
    BY <2>2
  <2>6. T(P, Q, R) \in WordSet /\ t(T(u, v, w), T(a, b, c)) \in WordSet
    BY <2>2, <2>3, <2>4, <2>5
  <2>7. ASSUME NEW n \in Places
        PROVE  Bit(T(P, Q, R), n) = Bit(t(T(u, v, w), T(a, b, c)), n)
    <3>1. PICK u1 \in {0, 1}, v1 \in {0, 1}, w1 \in {0, 1} :
            u1 = Bit(u, n) /\ v1 = Bit(v, n) /\ w1 = Bit(w, n)
      BY BitsAre
    <3>2. PICK a1 \in {0, 1}, b1 \in {0, 1}, c1 \in {0, 1} :
            a1 = Bit(a, n) /\ b1 = Bit(b, n) /\ c1 = Bit(c, n)
      BY BitsAre
    <3>3. \A i, j \in WordSet : t(i, j) \in WordSet /\ Bit(t(i, j), n) = Bit(i, n) * Bit(j, n)
      BY <2>3
    <3>4. /\ Bit(P, n) = (((u1 * a1 + u1 * c1) % 2) + w1 * a1) % 2
          /\ Bit(Q, n) = (((v1 * b1 + v1 * a1) % 2) + u1 * b1) % 2
          /\ Bit(R, n) = (((w1 * c1 + w1 * b1) % 2) + v1 * c1) % 2
      <4>1. Bit(P, n) = (((u1 * a1 + u1 * c1) % 2) + w1 * a1) % 2
        <5>1. /\ t(u, a) \in WordSet /\ Bit(t(u, a), n) = u1 * a1
              /\ t(u, c) \in WordSet /\ Bit(t(u, c), n) = u1 * c1
              /\ t(w, a) \in WordSet /\ Bit(t(w, a), n) = w1 * a1
          BY <3>1, <3>2, <3>3
        <5> QED
          BY <2>2, <5>1
      <4>2. Bit(Q, n) = (((v1 * b1 + v1 * a1) % 2) + u1 * b1) % 2
        <5>1. /\ t(v, b) \in WordSet /\ Bit(t(v, b), n) = v1 * b1
              /\ t(v, a) \in WordSet /\ Bit(t(v, a), n) = v1 * a1
              /\ t(u, b) \in WordSet /\ Bit(t(u, b), n) = u1 * b1
          BY <3>1, <3>2, <3>3
        <5> QED
          BY <2>2, <5>1
      <4>3. Bit(R, n) = (((w1 * c1 + w1 * b1) % 2) + v1 * c1) % 2
        <5>1. /\ t(w, c) \in WordSet /\ Bit(t(w, c), n) = w1 * c1
              /\ t(w, b) \in WordSet /\ Bit(t(w, b), n) = w1 * b1
              /\ t(v, c) \in WordSet /\ Bit(t(v, c), n) = v1 * c1
          BY <3>1, <3>2, <3>3
        <5> QED
          BY <2>2, <5>1
      <4> QED
        BY <4>1, <4>2, <4>3
    <3>5. Bit(T(P, Q, R), n) = (((Bit(P, n) + Bit(Q, n)) % 2) + Bit(R, n)) % 2
      BY <2>2, <2>4
    <3>6. Bit(t(T(u, v, w), T(a, b, c)), n)
            = ((((u1 + v1) % 2) + w1) % 2) * ((((a1 + b1) % 2) + c1) % 2)
      BY <2>2, <2>3, <2>5, <3>1, <3>2
    <3> HIDE DEF P, Q, R
    <3> QED
      BY <3>4, <3>5, <3>6, ProductBits
  <2> QED
    BY <2>6, <2>7, SameBits
<1> QED
  BY <1>4, <1>5

LEMMA MaskedIs ==
  ASSUME NEW x \in Sharings
  PROVE  Masked(x) = LowBit(x[1]) /\ LowBit(x[1]) \in {0, 1}
<1>1. x[1] \in WordSet /\ x[1] \in Nat
  BY Closure DEF Sharings
<1>2. LowBit(x[1]) \in {0, 1} /\ LowBit(x[1]) \in WordSet
  BY <1>1, Closure DEF LowBit
<1> QED
  BY <1>2, XorCancels DEF Masked, MaskBit

\* The bits that are opened make up the low bit of the secret.
LEMMA LowBitsAddUp ==
  ASSUME NEW u \in WordSet, NEW v \in WordSet, NEW w \in WordSet
  PROVE  /\ Total("b", LowBit(u), LowBit(v), LowBit(w)) = LowBit(Total("b", u, v, w))
         /\ LowBit(Total("b", u, v, w)) \in {0, 1}
<1>1. \A s \in WordSet : LowBit(s) = Bit(s, 0) /\ LowBit(s) \in {0, 1}
  BY FirstBit, BitsAre DEF LowBit
<1>2. 0 \in Places /\ Total("b", u, v, w) \in WordSet
  BY FirstBit, PlusRules
<1>3. \A r, s, t : Total("b", r, s, t) = Xor(Xor(r, s), t)
  BY DEF Total, Plus
<1>4. Xor(Xor(Bit(u, 0), Bit(v, 0)), Bit(w, 0)) = Bit(Xor(Xor(u, v), w), 0)
  BY <1>2, BitOfXor
<1>5. LowBit(Total("b", u, v, w)) = Bit(Total("b", u, v, w), 0)
  BY <1>1, <1>2
<1> QED
  BY <1>1, <1>2, <1>3, <1>4, <1>5

LEMMA BitPartsAddUp ==
  ASSUME NEW bit \in {0, 1}
  PROVE  /\ Total("a", BitPart(0, bit), BitPart(1, bit), BitPart(2, bit)) = bit
         /\ \A p \in 0 .. 2 : BitPart(p, bit) \in WordSet
<1>1. 0 \in WordSet /\ 1 \in WordSet /\ bit \in WordSet /\ Wrap(0) = 0 /\ Wrap(bit) = bit
  BY SingleBits, WrapWord
<1>2. \A p \in 0 .. 2 : BitPart(p, bit) = LowBit(Wrap(bit * (p % 2)))
  <2>1. \A p \in 0 .. 2 : MaskBit * (bit * (-2) + 1) + bit * (p % 2) = bit * (p % 2)
    BY DEF MaskBit
  <2> QED
    BY <2>1 DEF BitPart
<1>3. /\ bit * (0 % 2) = 0 /\ bit * (1 % 2) = bit /\ bit * (2 % 2) = 0
      /\ LowBit(0) = 0 /\ LowBit(bit) = bit
  BY DEF LowBit
<1>4. BitPart(0, bit) = 0 /\ BitPart(1, bit) = bit /\ BitPart(2, bit) = 0
  BY <1>1, <1>2, <1>3
<1>5. Total("a", 0, bit, 0) = bit
  BY <1>1, PlusZero DEF Total
<1>6. \A p \in 0 .. 2 : p \in {0, 1, 2}
  OBVIOUS
<1> QED
  BY <1>1, <1>4, <1>5, <1>6

\* Neither party loses anything of what it divides.
LEMMA PartsKeep ==
  ASSUME NEW n \in Range, NEW c \in Divisor
  PROVE  /\ RoundedDown(n, c, c).quotient * c + RoundedDown(n, c, c).error = n - c
         /\ Wrap(LoweredFirst(n, c).quotient * c + LoweredFirst(n, c).error) = Wrap(n)
<1>1. /\ n \in Int /\ c \in Int /\ Negative(n) \in Int /\ Negative(n) * c \in Int
      /\ c * Negative(n) \in Int /\ n - Negative(n) * c \in Int
  BY HalfPower DEF Range, Divisor, Negative, Truth
<1>2. \A m \in Range : Quotient(m, c) \in Int
  BY HalfPower DEF Range, Divisor, Quotient
<1>3. n \in Range
  OBVIOUS
<1> DEFINE N == Negative(n)
<1>4. RoundedDown(n, c, c).quotient * c + RoundedDown(n, c, c).error = n - c
  <2>1. PICK q \in Int : q = Quotient(n, c)
    BY <1>2
  <2>2. RoundedDown(n, c, c) = [quotient |-> q - N, error |-> (n - c * q) + (N * c - c)]
    BY <2>1 DEF RoundedDown, Remainder
  <2> HIDE DEF N
  <2>3. N \in Int
    BY <1>1 DEF N
  <2>4. (q - N) * c + ((n - c * q) + (N * c - c)) = n - c
    BY <1>1, <2>3
  <2> QED
    BY <2>2, <2>4
<1>5. Wrap(LoweredFirst(n, c).quotient * c + LoweredFirst(n, c).error) = Wrap(n)
  <2>1. PICK d : d = Signed(Wrap(n - N * c))
    OBVIOUS
  <2>2. d \in Range /\ d \in Int
    <3>1. Wrap(n - N * c) \in WordSet
      BY <1>1, WordsAreClosed
    <3>2. d \in Range
      BY <2>1, <3>1, SignedWord
    <3> QED
      BY <3>2, HalfPower DEF Range
  <2>3. PICK q \in Int : q = Quotient(d, c)
    BY <1>2, <2>2
  <2>4. LoweredFirst(n, c) = [quotient |-> q, error |-> (d - c * q) + N * c]
    BY <2>1, <2>3 DEF LoweredFirst, Remainder
  <2>5. PICK e \in Int : e = N * c
    BY <1>1
  <2>6. q * c + ((d - c * q) + e) = d + e
    BY <1>1, <2>2, <2>5
  <2>7. PICK k \in Int : d = (n - e) + Modulus * k
    <3>1. PICK i \in Int : Wrap(n - e) = (n - e) + Modulus * i
      BY <1>1, <2>5, WrapIs
    <3>2. d = Wrap(n - e) \/ d = Wrap(n - e) - Modulus
      BY <2>1, <2>5 DEF Signed
    <3>3. Modulus \in Int /\ Modulus * (i - 1) = Modulus * i - Modulus /\ Modulus * i \in Int
      BY WordsAreClosed
    <3>4. CASE d = Wrap(n - e)
      BY <3>1, <3>4
    <3>5. CASE d = Wrap(n - e) - Modulus
      <4>1. i - 1 \in Int /\ d = (n - e) + Modulus * (i - 1)
        BY <1>1, <2>5, <3>1, <3>3, <3>5
      <4> QED
        BY <4>1
    <3> QED
      BY <3>2, <3>4, <3>5
  <2>8. d + e = n + Modulus * k
    <3>1. Modulus * k \in Int
      BY WordsAreClosed
    <3> QED
      BY <1>1, <2>5, <2>7, <3>1
  <2> HIDE DEF N
  <2>9. LoweredFirst(n, c).quotient * c + LoweredFirst(n, c).error = d + e
    BY <2>4, <2>5, <2>6
  <2> QED
    BY <1>1, <2>8, <2>9, WrapShift
<1> QED
  BY <1>4, <1>5

\* The shares of a quotient and of an error make up what is divided, less c.
LEMMA DivisionAddsUp ==
  ASSUME NEW x0 \in Sharings, NEW x1 \in Sharings, NEW x2 \in Sharings, NEW c \in Divisor
  PROVE  LET s0 == DivisionShares(0, x0, c)
             s1 == DivisionShares(1, x1, c)
             s2 == DivisionShares(2, x2, c)
         IN  Wrap(Total("a", s0[1], s1[1], s2[1]) * c + Total("a", s0[2], s1[2], s2[2]))
               = Wrap(Total("a", x0[1], x0[2], x1[1]) - c)
<1> DEFINE a == Signed(Wrap(x0[1] + x0[2]))
           b == Signed(x1[1])
           first == LoweredFirst(a, c)
           second == RoundedDown(b, c, c)
<1>1. PICK u \in WordSet, v \in WordSet, w \in WordSet : u = x0[1] /\ v = x0[2] /\ w = x1[1]
  BY DEF Sharings
<1>2. /\ u \in Int /\ v \in Int /\ w \in Int /\ c \in Int /\ u + v \in Int
      /\ Wrap(u + v) \in WordSet
  <2>1. u \in Int /\ v \in Int /\ w \in Int /\ c \in Int
    BY Closure, HalfPower DEF Divisor
  <2> QED
    BY <2>1, WordsAreClosed
<1>3. /\ a \in Range /\ b \in Range /\ a \in Int /\ b \in Int
      /\ Wrap(a) = Wrap(u + v) /\ Wrap(b) = w
  <2>1. \A s \in WordSet : Signed(s) \in Range /\ Signed(s) \in Int /\ Wrap(Signed(s)) = s
    <3> TAKE s \in WordSet
    <3>1. Signed(s) \in Range /\ Signed(s) \in Int
      BY SignedWord, HalfPower DEF Range
    <3>2. s \in Int /\ Modulus \in Int /\ Modulus * (-1) = -Modulus
      BY Closure, WordsAreClosed
    <3>3. Signed(s) = s \/ Signed(s) = s + Modulus * (-1)
      BY <3>2 DEF Signed
    <3> QED
      BY <3>1, <3>2, <3>3, WrapShift, WrapWord
  <2> QED
    BY <1>1, <1>2, <2>1
<1>4. PICK q1 \in Int, e1 \in Int : q1 = first.quotient /\ e1 = first.error
  <2>1. DivisionParts(3, a, b, c)[1] = first
    BY DEF DivisionParts
  <2> HIDE DEF a, b, first
  <2> QED
    BY <1>3, <2>1, PartsAreNumbers
<1>5. PICK q2 \in Int, e2 \in Int : q2 = second.quotient /\ e2 = second.error
  <2>1. DivisionParts(3, a, b, c)[2] = second
    BY DEF DivisionParts
  <2> HIDE DEF a, b, second
  <2> QED
    BY <1>3, <2>1, PartsAreNumbers
<1>6. /\ DivisionShares(0, x0, c) = <<Wrap(q1), Wrap(e1)>>
      /\ DivisionShares(1, x1, c) = <<Wrap(q2), Wrap(e2)>>
      /\ DivisionShares(2, x2, c) = <<0, 0>>
  <2>1. DivisionShares(0, x0, c) = <<Wrap(first.quotient - 0), Wrap(first.error - 0)>>
    BY DEF DivisionShares, DivisionParts, ZeroShare
  <2>2. DivisionShares(1, x1, c) = <<Wrap(second.quotient - 0), Wrap(second.error - 0)>>
    BY DEF DivisionShares, DivisionParts, ZeroShare
  <2>3. q1 - 0 = q1 /\ e1 - 0 = e1 /\ q2 - 0 = q2 /\ e2 - 0 = e2
    OBVIOUS
  <2>4. DivisionShares(2, x2, c) = <<0, 0>>
    BY DEF DivisionShares, ZeroShare
  <2> HIDE DEF first, second
  <2> QED
    BY <1>4, <1>5, <2>1, <2>2, <2>3, <2>4
<1>7. q2 * c + e2 = b - c /\ Wrap(q1 * c + e1) = Wrap(a)
  <2> HIDE DEF a, b
  <2> QED
    BY <1>3, <1>4, <1>5, PartsKeep
<1> HIDE DEF a, b, first, second
<1>8. \A i, j \in Int : Total("a", Wrap(i), Wrap(j), 0) = Wrap(i + j)
  <2> TAKE i \in Int, j \in Int
  <2>1. Wrap(Wrap(i) + Wrap(j)) = Wrap(i + j) /\ Wrap(i + j) \in WordSet
    BY TwoTerms, WordsAreClosed
  <2>2. Plus("a", Wrap(i), Wrap(j)) = Wrap(i + j)
    BY <2>1 DEF Plus
  <2> QED
    BY <2>1, <2>2, PlusZero DEF Total
<1>9. Wrap(Wrap(q1 + q2) * c + Wrap(e1 + e2)) = Wrap((u + v) + (w - c))
  <2>1. PICK q \in Int, e \in Int, i \in Int, j \in Int, h \in Int :
          q = q1 + q2 /\ e = e1 + e2 /\ i = q1 * c + e1 /\ j = q2 * c + e2 /\ h = q * c
    BY <1>2
  <2>2. h + e = i + j
    BY <1>2, <2>1
  <2>3. Wrap(Wrap(q) * c) = Wrap(h) /\ Wrap(q) \in Int /\ Wrap(q) * c \in Int
    <3>1. Wrap(Wrap(q) * c) = Wrap(q * c)
      BY <1>2, WrapTerms
    <3>2. PICK m \in Int : m = Wrap(q)
      BY WrapIsInt
    <3>3. m * c \in Int
      BY <1>2, TimesInt
    <3> QED
      BY <2>1, <3>1, <3>2, <3>3
  <2>4. Wrap(Wrap(q) * c + Wrap(e)) = Wrap(h + e)
    <3>1. PICK z \in Int : z = Wrap(q) * c
      BY <2>3
    <3>2. Wrap(z + Wrap(e)) = Wrap(z + e) /\ Wrap(Wrap(z) + e) = Wrap(z + e)
          /\ Wrap(Wrap(h) + e) = Wrap(h + e)
      BY WrapTerms
    <3> QED
      BY <2>3, <3>1, <3>2
  <2>5. Wrap(i + j) = Wrap((u + v) + (w - c))
    <3>1. j = b - c /\ Wrap(i) = Wrap(a)
      BY <1>7, <2>1
    <3>2. Wrap(j) = Wrap(w - c)
      <4>1. b \in Int /\ c \in Int
        BY <1>2, <1>3
      <4>2. Wrap(Wrap(b) - c) = Wrap(b - c)
        BY <4>1, WrapTerms
      <4> QED
        BY <1>3, <3>1, <4>2
    <3>3. Wrap(i + j) = Wrap(Wrap(i) + Wrap(j))
      BY TwoTerms
    <3>4. w - c \in Int
      BY <1>2
    <3>5. Wrap((u + v) + (w - c)) = Wrap(Wrap(u + v) + Wrap(w - c))
      BY <1>2, <3>4, TwoTerms
    <3> QED
      BY <1>3, <3>1, <3>2, <3>3, <3>5
  <2> QED
    BY <2>1, <2>2, <2>4, <2>5
<1>10. Wrap(Total("a", u, v, w) - c) = Wrap((u + v) + (w - c))
  <2>1. Total("a", u, v, w) = Wrap(Wrap(u + v) + w)
    BY DEF Total, Plus
  <2>2. Wrap(Wrap(u + v) + w) = Wrap((u + v) + w) /\ (u + v) + w \in Int
    BY <1>2, WrapTerms
  <2>3. Wrap(Wrap((u + v) + w) - c) = Wrap(((u + v) + w) - c)
    BY <1>2, <2>2, WrapTerms
  <2>4. ((u + v) + w) - c = (u + v) + (w - c)
    BY <1>2
  <2> QED
    BY <2>1, <2>2, <2>3, <2>4
<1>11. /\ Total("a", Wrap(q1), Wrap(q2), 0) = Wrap(q1 + q2)
       /\ Total("a", Wrap(e1), Wrap(e2), 0) = Wrap(e1 + e2)
  BY <1>8
<1> QED
  BY <1>1, <1>6, <1>9, <1>10, <1>11

-----------------------------------------------------------------------------
(* Sending and hearing in an operation with exchanges.                     *)

\* What party p sends next.
LEMMA MessageIsWord ==
  ASSUME Types, NEW mail, MailInv(mail), NEW p \in Parties, NEW q \in Parties, Running(p),
         Instr(p).op \notin ShareOps,
         NEW j \in 0 .. 2, j < Exchanges(Instr(p).op), j <= Len(got[p])
  PROVE  Message(p, q, j) \in WordSet
<1>1. /\ pc[p] \in 1 .. Len(program) /\ program \in Programs
      /\ got[p] \in Seq(WordSet) /\ Len(got[p]) \in Nat
  BY Ranges DEF MailInv
<1>2. X(p) \in Sharings
  BY OperandShares DEF ShareOps
<1>3. CASE Instr(p).op \in MultiplyOps
  <2>1. Y(p) \in Sharings
    BY <1>3, OperandShares
  <2>2. Message(p, q, j) = LocalProduct(p)
    BY <1>3 DEF Message, MultiplyOps, OpenOps, ShareOps
  <2> QED
    BY <1>2, <2>1, <2>2, ProductIsWord DEF LocalProduct
<1>4. CASE Instr(p).op \in OpenOps
  <2>1. Message(p, q, j) = X(p)[2]
    BY <1>4 DEF Message, MultiplyOps, OpenOps
  <2> QED
    BY <1>2, <2>1 DEF Sharings
<1>5. CASE Instr(p).op = "div_const_a"
  <2>1. Message(p, q, j) = DivisionShares(p, X(p), Instr(p).c)[j + 1]
    BY <1>5 DEF Message, MultiplyOps, OpenOps
  <2>2. Instr(p).c \in Divisor
    BY <1>1, <1>5, Instructions DEF Instr
  <2>3. j + 1 \in {1, 2}
    BY <1>5 DEF Exchanges, MultiplyOps, OpenOps
  <2> QED
    BY <1>2, <2>1, <2>2, <2>3, QuotientSharesAreWords
<1>6. CASE Instr(p).op = "b2a_bit"
  <2>1. Message(p, q, j) = IF j = 0 THEN Masked(X(p))
                           ELSE IF j = 1 THEN got[p][1] ELSE BitShare(p)
    BY <1>6 DEF Message, MultiplyOps, OpenOps
  <2>2. \A i \in 1 .. j : got[p][i] \in WordSet
    BY <1>1
  <2>3. CASE j = 0
    BY <1>2, <2>1, <2>3, BitsAreWords
  <2>4. CASE j = 1
    BY <2>1, <2>2, <2>4
  <2>5. CASE j = 2
    BY <1>2, <2>1, <2>2, <2>5, BitsAreWords
  <2> QED
    BY <2>3, <2>4, <2>5
<1>7. CASE Instr(p).op \notin MultiplyOps \cup OpenOps \cup {"div_const_a", "b2a_bit"}
  BY <1>7 DEF Exchanges
<1> QED
  BY <1>3, <1>4, <1>5, <1>6, <1>7

-----------------------------------------------------------------------------
(* The calls of the operations.                                            *)

\* A step of p's own sends on no link on which it has dealt half of a sharing.
LEMMA DealtByOthers ==
  ASSUME Types, NEW mail, MailInv(mail), NEW p \in Parties, OnlyBy(p),
         SendPos(p, Pred(p))' = SendPos(p, Pred(p)), SentOn(p, Pred(p)) = 0, plain' = plain
  PROVE  DealtInv(mail)'
<1>1. /\ \A r \in Parties : CountInv(r)
      /\ program \in Programs /\ Len(program) \in Nat
  BY Ranges DEF MailInv
<1>2. ASSUME NEW k \in 2 .. Len(program), NEW d \in Parties,
             4 * k < SendPos(d, Succ(d))', 4 * k + 1 < SendPos(d, Pred(d))'
      PROVE  4 * k < SendPos(d, Succ(d)) /\ 4 * k + 1 < SendPos(d, Pred(d))
  <2>1. CASE d # p
    BY <1>2, <2>1, OthersStill
  <2>2. CASE d = p
    <3>1. /\ pc[p] \in Nat /\ SentOn(p, Succ(p)) \in Nat /\ k \in Nat
      BY <1>1, Ranges, Positions, Around
    <3>2. \A a, b, c \in Nat : 4 * a + 1 < 4 * b + 0 => 4 * a < 4 * b + c
      OBVIOUS
    <3>3. 4 * k + 1 < 4 * pc[p] + 0
      BY <1>2, <2>2 DEF SendPos
    <3> QED
      BY <1>2, <2>2, <3>1, <3>2, <3>3 DEF SendPos
  <2> QED
    BY <2>1, <2>2
<1>3. ASSUME NEW k \in 2 .. Len(program)
      PROVE  LET d == program[k].party
             IN  (/\ program[k].op \in ShareOps
                  /\ 4 * k < SendPos(d, Succ(d))'
                  /\ 4 * k + 1 < SendPos(d, Pred(d))')
                 => /\ 4 * k < SendPos(d, Succ(d)) /\ 4 * k + 1 < SendPos(d, Pred(d))
                    /\ plain'[k] = plain[k]
  <2>1. CASE program[k].op \in ShareOps
    <3>1. PICK d \in Parties : d = program[k].party
      BY <1>1, <2>1, Instructions
    <3>2. d = program'[k].party
      BY <3>1 DEF OnlyBy
    <3>3. 4 * k < SendPos(d, Succ(d))' /\ 4 * k + 1 < SendPos(d, Pred(d))'
          => 4 * k < SendPos(d, Succ(d)) /\ 4 * k + 1 < SendPos(d, Pred(d))
      BY <1>2
    <3> QED
      BY <3>1, <3>2, <3>3
  <2> QED
    BY <2>1
<1>4. program' = program /\ DealtInv(mail)
  BY DEF OnlyBy, MailInv
<1> QED
  BY <1>3, <1>4, DealtKept

LEMMA ExchangeStep ==
  ASSUME Types, NEW mail, MailInv(mail), NEW p \in Parties, Running(p),
         Instr(p).op \notin ShareOps, Returned(p), calls[p] < Exchanges(Instr(p).op),
         exchangeShares(p, Message(p, Succ(p), calls[p]), 1, 2), InCall
  PROVE  Types' /\ \E m : MailInv(m)'
<1>1. /\ pc[p] \in Nat /\ pc[p] \in 1 .. Len(program) /\ calls[p] \in Nat
      /\ Len(got[p]) \in Nat /\ CountInv(p) /\ program \in Programs
  BY Ranges DEF MailInv
<1>2. PICK q \in Parties : q = Succ(p)
  BY Around
<1>3. /\ receiving' = [receiving EXCEPT ![p] = Pred(p)]
      /\ net' = [net EXCEPT ![<<p, q>>] = Append(@, Message(p, q, calls[p]))]
      /\ sending' = [sending EXCEPT ![p] = q]
      /\ calls' = [calls EXCEPT ![p] = @ + 1]
      /\ UNCHANGED <<got, program, pc, regs, dealt, plain>>
  BY <1>2 DEF exchangeShares, Post, CountCall, InCall, Succ, Pred
<1>4. /\ q # p /\ q # Pred(p) /\ Pred(p) \in Parties /\ Pred(p) # p /\ Pred(p) # NoParty
      /\ \A r \in Parties : Pred(r) = p => r = q
  BY <1>2, Around
<1>5. /\ ~Dealing(p) /\ receiving[p] = NoParty /\ calls[p] = Len(got[p])
      /\ dealt[p] = <<>>
  BY DEF Dealing, Returned, CountInv, MailInv
<1>6. \A r \in Parties : Source(pc[p], r) = Pred(r) /\ Heard(pc[p], r) = Exchanges(Instr(p).op)
  BY DEF Source, Heard, Instr
<1>7. /\ p = Source(pc[p], q) /\ SentOn(p, q) = calls[p] /\ SentOn(p, q) < Heard(pc[p], q)
      /\ \A r \in Parties \ {q} : SentOn(p, r) = 0
  <2>1. Pred(q) = p
    BY <1>2, Around
  <2> QED
    BY <1>1, <1>4, <1>6, <2>1 DEF SentOn, Running, Instr
<1>8. Exchanges(Instr(p).op) \in 0 .. 3
  BY DEF Exchanges
<1>9. PICK v \in WordSet : v = Message(p, q, calls[p])
  <2>1. calls[p] \in 0 .. 2
    BY <1>1, <1>8
  <2>2. calls[p] <= Len(got[p])
    BY <1>1, <1>5
  <2> QED
    BY <2>1, <2>2, MessageIsWord
<1>10. PICK m : MailInv(m) /\ m[<<p, q>>][SendPos(p, q)] = v
  BY Anticipation
<1>11. OnlyBy(p)
  <2>1. \A r \in Parties \ {p} : calls'[r] = calls[r] /\ receiving'[r] = receiving[r]
    BY <1>3 DEF Types
  <2> QED
    BY <1>3, <2>1 DEF OnlyBy, Still
<1>12. /\ calls'[p] = calls[p] + 1 /\ receiving'[p] = Pred(p)
  BY <1>3 DEF Types
<1>13. /\ SentOn(p, q)' = SentOn(p, q) + 1
       /\ \A r \in Parties \ {q} : SentOn(p, r)' = 0
  <2>1. \A r \in Parties : Source(pc[p], r)' = Source(pc[p], r)
    BY <1>3 DEF Source
  <2> QED
    BY <1>1, <1>3, <1>4, <1>6, <1>7, <1>12, <2>1 DEF SentOn, Running, Instr
<1>14. CountInv(p)'
  <2>1. Running(p)' /\ ~Dealing(p)'
    BY <1>3, <1>5 DEF Running, Dealing, Dealer, Instr
  <2>2. Source(pc[p], p)' = Pred(p) /\ Heard(pc[p], p)' = Exchanges(Instr(p).op)
    BY <1>3, <1>6 DEF Source, Heard
  <2>3. calls[p] + 1 <= Exchanges(Instr(p).op)
    BY <1>1, <1>8
  <2>4. CountInv(p) /\ (Len(got[p]) + 1 = calls[p] + 1)
    BY <1>1, <1>5
  <2> QED
    BY <1>3, <1>4, <1>5, <1>12, <2>1, <2>2, <2>3, <2>4 DEF CountInv
<1>15. DealtInv(m)'
  <2>1. SentOn(p, Pred(p)) = 0 /\ SentOn(p, Pred(p))' = 0
    <3>1. PICK r \in Parties : r = Pred(p)
      BY <1>4
    <3>2. r \in Parties \ {q} /\ Pred(p)' = r
      BY <1>4, <3>1 DEF Pred, Relative
    <3> QED
      BY <1>7, <1>13, <3>1, <3>2
  <2>2. SendPos(p, Pred(p))' = SendPos(p, Pred(p))
    BY <1>3, <2>1 DEF SendPos
  <2> QED
    BY <1>3, <1>10, <1>11, <2>1, <2>2, DealtByOthers
<1>16. MailInv(m)'
  <2>1. UNCHANGED <<got, pc, regs, dealt>>
    BY <1>3
  <2>2. m[<<p, q>>][SendPos(p, q)] = Message(p, q, SentOn(p, q))
    BY <1>7, <1>9, <1>10
  <2>3. net' = [net EXCEPT ![<<p, q>>] = Append(@, Message(p, q, SentOn(p, q)))]
    BY <1>3, <1>7
  <2>4. \A r \in Parties \ {q} : SentOn(p, r)' = SentOn(p, r)
    BY <1>7, <1>13
  <2> QED
    BY <1>7, <1>10, <1>11, <1>13, <1>14, <1>15, <2>1, <2>2, <2>3, <2>4, SendStep
<1>17. Types'
  <2>1. /\ net \in [Links -> Seq(WordSet)] /\ calls \in [Parties -> Nat]
        /\ sending \in [Parties -> Parties \cup {NoParty}]
        /\ receiving \in [Parties -> Parties \cup {NoParty}]
    BY DEF Types
  <2>2. <<p, q>> \in Links
    BY DEF Links
  <2>3. net' \in [Links -> Seq(WordSet)]
    <3>1. Append(net[<<p, q>>], v) \in Seq(WordSet)
      BY <2>1, <2>2
    <3> QED
      BY <1>3, <1>9, <2>1, <2>2, <3>1
  <2>4. /\ sending' \in [Parties -> Parties \cup {NoParty}]
        /\ receiving' \in [Parties -> Parties \cup {NoParty}]
    BY <1>3, <1>4, <2>1
  <2>5. calls' \in [Parties -> Nat]
    BY <1>1, <1>3, <2>1
  <2> QED
    BY <1>3, <2>3, <2>4, <2>5 DEF Types, Links
<1> QED
  BY <1>16, <1>17

LEMMA SameRegisters ==
  ASSUME FirstInv, PlainInv, UNCHANGED <<program, pc, regs, dealt, plain>>
  PROVE  FirstInv' /\ PlainInv'
<1>1. \A p : Succ(p)' = Succ(p)
  BY DEF Succ, Relative
<1>2. FirstInv'
  BY <1>1 DEF FirstInv
<1>3. \A p : Reached(p)' = Reached(p) /\ DealtTotal(p)' = DealtTotal(p)
  BY DEF Reached, DealtTotal, Instr
<1> QED
  BY <1>2, <1>3 DEF PlainInv, Parties

\* The four operations that exchange.
LEMMA OperationExchanges ==
  ASSUME Types, NEW mail, MailInv(mail), NEW p \in Parties,
         MultiplySend(p) \/ OpenSend(p) \/ DivisionSend(p) \/ B2ASend(p)
  PROVE  /\ Types' /\ \E m : MailInv(m)'
         /\ UNCHANGED <<program, pc, regs, dealt, plain>>
<1>1. calls[p] \in Nat
  BY DEF Types
<1> SUFFICES /\ Running(p) /\ Instr(p).op \notin ShareOps /\ Returned(p)
             /\ calls[p] < Exchanges(Instr(p).op)
             /\ exchangeShares(p, Message(p, Succ(p), calls[p]), 1, 2) /\ InCall
  BY ExchangeStep DEF InCall
<1>2. CASE MultiplySend(p)
  <2>1. Message(p, Succ(p), calls[p]) = LocalProduct(p)
    BY <1>2 DEF MultiplySend, At, Message, MultiplyOps, OpenOps, ShareOps
  <2> QED
    BY <1>2, <2>1 DEF MultiplySend, At, Running, MultiplyOps, OpenOps, ShareOps, Exchanges
<1>3. CASE OpenSend(p)
  <2>1. Message(p, Succ(p), calls[p]) = X(p)[2]
    BY <1>3 DEF OpenSend, At, Message, MultiplyOps, OpenOps, ShareOps
  <2> QED
    BY <1>3, <2>1 DEF OpenSend, At, Running, MultiplyOps, OpenOps, ShareOps, Exchanges
<1>4. CASE DivisionSend(p)
  <2>1. PICK n \in 0 .. 1 :
          /\ At(p, {"div_const_a"}, n)
          /\ exchangeShares(p, DivisionShares(p, X(p), Instr(p).c)[n + 1], 1, 2)
    BY <1>4 DEF DivisionSend
  <2>2. /\ Running(p) /\ Instr(p).op = "div_const_a" /\ Returned(p) /\ calls[p] = n
    BY <2>1 DEF At, Running
  <2>3. Message(p, Succ(p), calls[p]) = DivisionShares(p, X(p), Instr(p).c)[n + 1]
    BY <2>2 DEF Message, MultiplyOps, OpenOps, ShareOps
  <2>4. Exchanges(Instr(p).op) = 2
    BY <2>2 DEF Exchanges, MultiplyOps, OpenOps
  <2> QED
    BY <1>4, <2>1, <2>2, <2>3, <2>4 DEF DivisionSend, ShareOps
<1>5. CASE B2ASend(p)
  <2>1. /\ Running(p) /\ Instr(p).op = "b2a_bit" /\ Returned(p) /\ InCall
        /\ \/ calls[p] = 0 /\ exchangeShares(p, Masked(X(p)), 1, 2)
           \/ calls[p] = 1 /\ exchangeShares(p, got[p][1], 1, 2)
           \/ calls[p] = 2 /\ exchangeShares(p, BitShare(p), 1, 2)
    BY <1>5 DEF B2ASend, At, Running
  <2>2. Message(p, Succ(p), calls[p]) = IF calls[p] = 0 THEN Masked(X(p))
                                        ELSE IF calls[p] = 1 THEN got[p][1] ELSE BitShare(p)
    BY <2>1 DEF Message, MultiplyOps, OpenOps, ShareOps
  <2>3. Exchanges(Instr(p).op) = 3
    BY <2>1 DEF Exchanges, MultiplyOps, OpenOps
  <2> QED
    BY <2>1, <2>2, <2>3 DEF ShareOps
<1> QED
  BY <1>2, <1>3, <1>4, <1>5

\* MPI lets a send return.
LEMMA SendReturns ==
  ASSUME Types, NEW mail, MailInv(mail), NEW p \in Parties, SendDone(p), InCall
  PROVE  Types' /\ MailInv(mail)'
<1>1. /\ UNCHANGED <<program, pc, regs, dealt, plain, net, receiving, calls, got>>
      /\ sending' = [sending EXCEPT ![p] = NoParty]
  BY DEF SendDone, InCall
<1>2. Types'
  BY <1>1 DEF Types, Links
<1>3. OnlyBy(p) /\ Still(p)
  BY <1>1 DEF OnlyBy, Still
<1>4. CountInv(p)' /\ SentInv(mail, p)'
  BY <1>1, <1>3, SameCount, SameSent DEF MailInv
<1>5. \A q \in Parties : SentOn(p, q)' = SentOn(p, q)
  BY <1>1, SameSentOn
<1> QED
  BY <1>1, <1>2, <1>3, <1>4, <1>5, QuietStep

\* A party that receives the shares sends none.
LEMMA ReceivesShares ==
  ASSUME Types, NEW mail, MailInv(mail), NEW p \in Parties, ReceiveShares(p)
  PROVE  Types' /\ MailInv(mail)' /\ UNCHANGED <<program, pc, regs, dealt, plain>>
<1>1. /\ Running(p) /\ Instr(p).op \in ShareOps /\ ~Dealer(p)
      /\ calls[p] \in {0, 1} /\ Returned(p)
  BY DEF ReceiveShares, At, Running
<1>2. /\ CountInv(p) /\ pc[p] \in 1 .. Len(program) /\ program \in Programs
      /\ Len(got[p]) \in Nat
  BY <1>1, Ranges DEF MailInv
<1>3. PICK d \in Parties : d = Instr(p).party
  BY <1>1, <1>2, Instructions DEF Instr
<1>4. /\ UNCHANGED <<program, pc, regs, dealt, plain, net, sending, got>>
      /\ receiving' = [receiving EXCEPT ![p] = d]
      /\ calls' = [calls EXCEPT ![p] = @ + 1]
  <2>1. Relative(p, Instr(p).party - p) = d
    BY <1>3, Neighbours
  <2> QED
    BY <2>1 DEF ReceiveShares, receiveShares, CountCall, InCall
<1>5. d # p /\ d # NoParty /\ ~Dealing(p)
  BY <1>1, <1>3, Around DEF Dealer, Dealing
<1>6. Types'
  BY <1>2, <1>4 DEF Types, Links
<1>7. calls'[p] = calls[p] + 1 /\ receiving'[p] = d
  BY <1>4 DEF Types
<1>8. OnlyBy(p)
  <2>1. \A r \in Parties \ {p} : calls'[r] = calls[r] /\ receiving'[r] = receiving[r]
    BY <1>4 DEF Types
  <2> QED
    BY <1>4, <2>1 DEF OnlyBy, Still
<1>9. Source(pc[p], p) = d /\ Heard(pc[p], p) = 2 /\ \A q : Source(pc[p], q) = d
  BY <1>1, <1>3, <1>5 DEF Source, Heard, Instr
<1>10. \A q \in Parties : SentOn(p, q) = 0 /\ SentOn(p, q)' = 0
  <2>1. \A q : Source(pc[p], q)' = d
    BY <1>4, <1>9 DEF Source
  <2> QED
    BY <1>4, <1>5, <1>9, <2>1 DEF SentOn
<1>11. CountInv(p)'
  <2>1. Running(p)' /\ ~Dealing(p)'
    BY <1>1, <1>4, <1>5 DEF Running, Dealing, Dealer, Instr
  <2>2. Source(pc[p], p)' = d /\ Heard(pc[p], p)' = 2
    BY <1>4, <1>9 DEF Source, Heard
  <2>3. calls[p] = Len(got[p]) /\ dealt[p] = <<>> /\ pc[p] \in 2 .. Len(program) + 1
    BY <1>1, <1>2, <1>5 DEF CountInv, Returned
  <2>4. calls'[p] = Len(got'[p]) + 1 /\ calls'[p] <= 2
    <3>1. calls[p] + 1 <= 2
      BY <1>1
    <3>2. got'[p] = got[p]
      BY <1>4
    <3> QED
      BY <1>7, <2>3, <3>1, <3>2
  <2>5. pc'[p] \in 2 .. Len(program') + 1 /\ dealt'[p] = <<>> /\ receiving'[p] # NoParty
    BY <1>4, <1>5, <1>7, <2>3
  <2> QED
    BY <1>7, <2>1, <2>2, <2>4, <2>5 DEF CountInv
<1>12. SentInv(mail, p)'
  BY <1>10 DEF SentInv, Parties
<1>13. MailInv(mail)'
  BY <1>4, <1>8, <1>10, <1>11, <1>12, QuietStep
<1> QED
  BY <1>4, <1>6, <1>13

-----------------------------------------------------------------------------
(* The data party makes the shares and sends them.                         *)

LEMMA SharesAreDeals ==
  ASSUME NEW kind, NEW data \in WordSet, NEW u \in WordSet, NEW v \in WordSet
  PROVE  get_shares(kind, data, u, v) \in Deals
<1> DEFINE w == Minus(kind, Minus(kind, data, u), v)
<1>1. w \in WordSet
  BY Closure
<1>2. get_shares(kind, data, u, v) = <<<<u, w>>, <<v, u>>, <<w, v>>>>
  BY DEF get_shares
<1> QED
  BY <1>1, <1>2 DEF Deals

LEMMA DealWords ==
  ASSUME NEW deal \in Deals
  PROVE  /\ deal # <<>>
         /\ \A i \in 1 .. 3, n \in 1 .. 2 : deal[i][n] \in WordSet
         /\ deal[1] \in Sharings
         /\ deal[1][1] = deal[2][2] /\ deal[1][2] = deal[3][1] /\ deal[2][1] = deal[3][2]
<1>1. PICK a, b, c \in WordSet : deal = <<<<a, c>>, <<b, a>>, <<c, b>>>>
  BY DEF Deals
<1>2. /\ deal[1] = <<a, c>> /\ deal[2] = <<b, a>> /\ deal[3] = <<c, b>> /\ deal # <<>>
  BY <1>1
<1>3. \A n \in 1 .. 2 : deal[1][n] \in WordSet /\ deal[2][n] \in WordSet /\ deal[3][n] \in WordSet
  BY <1>2
<1>4. deal[1] \in Sharings
  BY <1>2 DEF Sharings
<1> QED
  BY <1>2, <1>3, <1>4

\* Before it has sent anything no other party is past the instruction.
LEMMA NobodyAhead ==
  ASSUME Types, NEW mail, MailInv(mail), PlainInv, NEW p \in Parties,
         Running(p), Dealing(p), calls[p] = 0, dealt[p] = <<>>
  PROVE  Len(plain) = pc[p] - 1 /\ \A r \in Parties : Reached(r) <= pc[p] - 1
<1>1. /\ program \in Programs /\ Len(program) \in Nat /\ pc[p] \in Nat
      /\ pc[p] \in 1 .. Len(program) /\ pc[p] \in 2 .. Len(program)
      /\ \A r \in Parties : CountInv(r) /\ ResultsInv(mail, r) /\ LinkInv(mail, p, r)
      /\ \A r \in Parties : pc[r] \in Nat
      /\ Len(plain) \in Nat
  BY Ranges DEF MailInv, Types
<1>2. Instr(p).op \in ShareOps /\ program[pc[p]].party = p
  BY DEF Dealing, Dealer, Instr
<1>3. ASSUME NEW r \in Parties
      PROVE  pc[r] <= pc[p]
  <2> SUFFICES ASSUME pc[p] < pc[r]
               PROVE  FALSE
    BY <1>1
  <2>1. r # p
    BY <1>1
  <2>2. p = Source(pc[p], r) /\ Heard(pc[p], r) = 2
    BY <1>2, <2>1 DEF Source, Heard, Instr
  <2>3. 4 * pc[p] + 0 < SendPos(p, r)
    <3>1. 0 \in 0 .. 2 /\ 0 < Heard(pc[p], r)
      BY <2>2
    <3> QED
      BY <1>1, <2>2, <3>1, HeardIsSent
  <2>4. SentOn(p, r) = 0
    BY <1>2 DEF SentOn, Instr
  <2> QED
    BY <1>1, <2>3, <2>4 DEF SendPos
<1>4. ASSUME NEW r \in Parties
      PROVE  Reached(r) <= pc[p] - 1
  <2>1. pc[r] <= Len(program) /\ pc[r] \in Nat
    BY <1>1, <1>3
  <2>2. Len(regs[r]) = pc[r] - 1
    BY <1>1, <2>1 DEF ResultsInv, Divided
  <2>3. CASE dealt[r] = <<>>
    <3>1. Reached(r) = pc[r] - 1
      BY <2>1, <2>2, <2>3 DEF Reached
    <3> QED
      BY <1>1, <1>3, <2>1, <3>1
  <2>4. CASE dealt[r] # <<>>
    <3>1. Running(r) /\ Dealing(r)
      BY <1>1, <2>1, <2>4 DEF CountInv, Running
    <3>2. pc[r] # pc[p]
      BY <1>2, <2>4, <3>1 DEF Dealing, Dealer, Instr
    <3>3. Reached(r) = pc[r] - 1 + 1
      BY <2>1, <2>2, <2>4 DEF Reached
    <3> QED
      BY <1>1, <1>3, <2>1, <3>2, <3>3
  <2> QED
    BY <2>3, <2>4
<1>5. Reached(p) = pc[p] - 1
  <2>1. Len(regs[p]) = pc[p] - 1
    BY <1>1 DEF ResultsInv, Divided
  <2> QED
    BY <1>1, <2>1 DEF Reached
<1>6. pc[p] - 1 <= Len(plain)
  BY <1>5 DEF PlainInv
<1>7. PICK r \in Parties : Reached(r) = Len(plain)
  BY DEF PlainInv
<1>8. Len(plain) <= pc[p] - 1
  BY <1>4, <1>7
<1> QED
  BY <1>1, <1>4, <1>6, <1>8

\* The plaintext of what a party is dealing.
LEMMA DealtIsPlain ==
  ASSUME Types, NEW mail, MailInv(mail), PlainInv, NEW r \in Parties, dealt[r] # <<>>
  PROVE  pc[r] \in 1 .. Len(plain) /\ DealtTotal(r) = plain[pc[r]]
<1>1. /\ CountInv(r) /\ ResultsInv(mail, r) /\ pc[r] \in Nat /\ pc[r] >= 2
      /\ Len(program) \in Nat
  <2>1. CountInv(r) /\ ResultsInv(mail, r)
    BY DEF MailInv
  <2> QED
    BY <2>1, Ranges
<1>2. Running(r)
  BY <1>1 DEF CountInv
<1>3. Len(regs[r]) = pc[r] - 1
  BY <1>1, <1>2 DEF ResultsInv, Divided, Running
<1>4. Reached(r) = pc[r] - 1 + 1
  BY <1>3 DEF Reached
<1>5. Reached(r) <= Len(plain) /\ DealtTotal(r) = plain[pc[r]]
  BY DEF PlainInv
<1>6. Len(plain) \in Nat
  BY DEF Types
<1> QED
  BY <1>1, <1>4, <1>5, <1>6

LEMMA MakesShares ==
  ASSUME Types, FirstInv, PlainInv, NEW mail, MailInv(mail), NEW p \in Parties, DealShares(p)
  PROVE  Types' /\ FirstInv' /\ PlainInv' /\ MailInv(mail)'
<1>1. /\ Running(p) /\ Instr(p).op \in ShareOps /\ Dealer(p) /\ Dealing(p)
      /\ calls[p] = 0 /\ dealt[p] = <<>>
      /\ UNCHANGED <<net, sending, receiving, calls, got, program, pc, regs>>
  BY DEF DealShares, At, Running, Dealing, netVars
<1>2. /\ CountInv(p) /\ pc[p] \in 1 .. Len(program) /\ program \in Programs
      /\ Len(program) \in Nat /\ pc[p] \in Nat /\ Len(got[p]) \in Nat
  BY <1>1, Ranges DEF MailInv
<1>3. PICK data \in SharedData(p), shares \in Randoms :
        /\ dealt' = [dealt EXCEPT ![p] =
                       get_shares(Kind(Instr(p).op), data, shares[1], shares[2])]
        /\ plain' = Append(plain, data)
  BY DEF DealShares
<1>4. data \in WordSet
  <2>1. CASE Instr(p).op = "redistribute_shares_b"
    <3>1. X(p) \in Sharings
      BY <1>1, <2>1, OperandShares
    <3>2. X(p)[1] \in WordSet /\ X(p)[2] \in WordSet /\ X(p)[1] + X(p)[2] \in Int
      BY <3>1, Closure DEF Sharings
    <3> QED
      BY <2>1, <3>2, WordsAreClosed DEF SharedData, RedistributedData
  <2>2. CASE Instr(p).op # "redistribute_shares_b"
    BY <2>2, ProtocolAssumption DEF SharedData
  <2> QED
    BY <2>1, <2>2
<1>5. shares[1] \in WordSet /\ shares[2] \in WordSet
  <2>1. shares \in [1 .. PartiesNum - 1 -> WordSet]
    BY ProtocolAssumption
  <2> QED
    BY <2>1, ThreePartiesAssumption
<1>6. PICK deal \in Deals : deal = get_shares(Kind(Instr(p).op), data, shares[1], shares[2])
  BY <1>4, <1>5, SharesAreDeals
<1>7. /\ dealt'[p] = deal /\ dealt'[p] # <<>>
      /\ \A r \in Parties \ {p} : dealt'[r] = dealt[r]
  BY <1>3, <1>6, DealWords DEF Types
<1>8. /\ plain' \in Seq(WordSet \cup {Unknown}) /\ Len(plain') = Len(plain) + 1
      /\ plain'[Len(plain) + 1] = data /\ \A k \in 1 .. Len(plain) : plain'[k] = plain[k]
      /\ Len(plain) \in Nat
  BY <1>3, <1>4 DEF Types
<1>9. Types'
  <2>1. dealt' \in [Parties -> Deals \cup {<<>>}]
    BY <1>3, <1>6 DEF Types
  <2> QED
    BY <1>1, <1>8, <2>1 DEF Types, Links
<1>10. OnlyBy(p)
  BY <1>1, <1>7 DEF OnlyBy, Still
<1>11. CountInv(p)'
  <2>1. Running(p)' /\ Dealing(p)'
    BY <1>1 DEF Running, Dealing, Dealer, Instr
  <2> QED
    BY <1>1, <1>2, <1>7, <2>1 DEF CountInv
<1>12. \A q \in Parties : SentOn(p, q) = 0 /\ SentOn(p, q)' = 0
  <2>1. \A q \in Parties : SentOn(p, q) = 0
    BY <1>1 DEF SentOn
  <2> QED
    BY <1>1, <2>1, SameSentOn
<1>13. SentInv(mail, p)'
  BY <1>12 DEF SentInv, Parties
<1>14. MailInv(mail)'
  <2>1. DOMAIN plain = 1 .. Len(plain)
    BY DEF Types
  <2>2. \A k \in DOMAIN plain : plain'[k] = plain[k]
    BY <1>8, <2>1
  <2>3. \A q \in Parties : SentOn(p, q)' = SentOn(p, q)
    BY <1>12
  <2> QED
    BY <1>1, <1>10, <1>11, <1>13, <2>2, <2>3, QuietStep
<1>15. FirstInv'
  BY <1>1 DEF FirstInv, Succ, Relative
<1>16. PlainInv'
  <2>1. Len(plain) = pc[p] - 1 /\ \A r \in Parties : Reached(r) <= pc[p] - 1
    BY <1>1, NobodyAhead
  <2>2. \A r \in Parties \ {p} : Reached(r)' = Reached(r)
    BY <1>1, <1>7 DEF Reached
  <2>3. Len(regs[p]) = pc[p] - 1
    BY <1>1, OperandShares
  <2>4. Reached(p)' = pc[p] - 1 + 1
    BY <1>1, <1>7, <2>3 DEF Reached
  <2>5. \A r \in Parties : Reached(r)' <= Len(plain')
    <3>1. \A r \in Parties \ {p} : Reached(r) <= pc[p] - 1 + 1
      <4> TAKE r \in Parties \ {p}
      <4>1. Len(regs[r]) \in Nat
        BY DEF Types
      <4>2. Reached(r) \in Nat
        <5>1. Reached(r) = Len(regs[r]) + 0 \/ Reached(r) = Len(regs[r]) + 1
          BY DEF Reached
        <5> QED
          BY <4>1, <5>1
      <4> QED
        BY <1>2, <2>1, <4>2
    <3> QED
      BY <1>2, <1>8, <2>1, <2>2, <2>4, <3>1
  <2>6. Reached(p)' = Len(plain')
    BY <1>8, <2>1, <2>4
  <2>7. ASSUME NEW k \in DOMAIN plain', k < Len(program)
        PROVE  plain'[k] \in WordSet
    <3>1. k \in 1 .. Len(plain) \/ k = Len(plain) + 1
      BY <1>8, <2>7
    <3>2. CASE k \in 1 .. Len(plain)
      <4>1. k \in DOMAIN plain
        <5>1. plain \in Seq(WordSet \cup {Unknown})
          BY DEF Types
        <5> QED
          BY <3>2, <5>1
      <4> QED
        BY <1>8, <2>7, <3>2, <4>1 DEF PlainInv
    <3>3. CASE k = Len(plain) + 1
      BY <1>4, <1>8, <3>3
    <3> QED
      BY <3>1, <3>2, <3>3
  <2>8. ASSUME NEW r \in Parties, dealt'[r] # <<>>
        PROVE  DealtTotal(r)' = plain'[pc'[r]]
    <3>1. CASE r = p
      <4> DEFINE kind == Kind(Instr(p).op)
      <4>1. /\ deal[1][1] = shares[1] /\ deal[2][1] = shares[2]
            /\ deal[3][1] = Minus(kind, Minus(kind, data, shares[1]), shares[2])
        BY <1>6 DEF get_shares
      <4>2. Total(kind, deal[1][1], deal[3][1], deal[2][1]) = data
        BY <1>4, <1>5, <4>1, DealAddsUp
      <4>3. DealtTotal(p)' = Total(Kind(Instr(p).op), deal[1][1], deal[3][1], deal[2][1])
        BY <1>1, <1>7 DEF DealtTotal, Instr
      <4> QED
        BY <1>1, <1>2, <1>8, <2>1, <3>1, <4>2, <4>3
    <3>2. CASE r # p
      <4>1. dealt[r] # <<>> /\ DealtTotal(r)' = DealtTotal(r) /\ pc'[r] = pc[r]
        BY <1>1, <1>7, <2>8, <3>2 DEF DealtTotal, Instr
      <4>2. pc[r] \in 1 .. Len(plain) /\ DealtTotal(r) = plain[pc[r]]
        BY <4>1, DealtIsPlain
      <4> QED
        BY <1>8, <4>1, <4>2
    <3> QED
      BY <3>1, <3>2
  <2> QED
    BY <1>1, <2>5, <2>6, <2>7, <2>8 DEF PlainInv, Parties
<1> QED
  BY <1>9, <1>14, <1>15, <1>16

LEMMA SendsShares ==
  ASSUME Types, PlainInv, NEW mail, MailInv(mail), NEW p \in Parties, DealSend(p)
  PROVE  /\ Types' /\ \E m : MailInv(m)'
         /\ UNCHANGED <<program, pc, regs, dealt, plain>>
<1>1. PICK n \in 0 .. 3 :
        /\ At(p, ShareOps, n)
        /\ sendShares(p, dealt[p][2 + (n \div 2)][1 + (n % 2)], 1 + (n \div 2))
  BY DEF DealSend
<1>2. /\ Running(p) /\ Instr(p).op \in ShareOps /\ calls[p] = n /\ dealt[p] # <<>>
      /\ CountInv(p) /\ \A r \in Parties : CountInv(r)
  BY <1>1 DEF At, Running, DealSend, MailInv
<1>3. /\ pc[p] \in Nat /\ pc[p] \in 1 .. Len(program) /\ program \in Programs
      /\ Len(program) \in Nat
  BY <1>2, Ranges
<1>4. Dealing(p) /\ Instr(p).party = p /\ got[p] = <<>> /\ receiving[p] = NoParty
  BY <1>2 DEF CountInv, Dealing, Dealer
<1>5. PICK deal \in Deals : deal = dealt[p]
  BY <1>2 DEF Types
<1>6. PICK q \in Parties : q = IF n < 2 THEN Succ(p) ELSE Pred(p)
  BY Around
<1>7. /\ q # p /\ \A r \in Parties : r # p => Source(pc[p], r) = p /\ Heard(pc[p], r) = 2
      /\ Source(pc[p], q) = p /\ Heard(pc[p], q) = 2
      /\ Succ(p) # Pred(p) /\ Succ(p) # p /\ Pred(p) # p
      /\ Succ(p) \in Parties /\ Pred(p) \in Parties
      /\ \A r \in Parties : r \in {p, Succ(p), Pred(p)}
  BY <1>2, <1>4, <1>6, Around DEF Source, Heard, Instr
<1>8. PICK v \in WordSet : v = deal[2 + (n \div 2)][1 + (n % 2)]
  <2>1. 2 + (n \div 2) \in 1 .. 3 /\ 1 + (n % 2) \in 1 .. 2
    OBVIOUS
  <2> QED
    BY <2>1, DealWords
<1>9. /\ net' = [net EXCEPT ![<<p, q>>] = Append(@, v)]
      /\ sending' = [sending EXCEPT ![p] = q]
      /\ calls' = [calls EXCEPT ![p] = @ + 1]
      /\ UNCHANGED <<receiving, got, program, pc, regs, dealt, plain>>
  <2>1. Relative(p, 1 + (n \div 2)) = q
    <3>1. 1 + (n \div 2) = IF n < 2 THEN 1 ELSE 2
      OBVIOUS
    <3> QED
      BY <1>6, <3>1 DEF Succ, Pred
  <2> QED
    BY <1>1, <1>5, <1>8, <2>1 DEF sendShares, Post, CountCall, DealSend, InCall
<1>10. /\ SentOn(p, Succ(p)) = (IF n < 2 THEN n ELSE 2)
       /\ SentOn(p, Pred(p)) = (IF n < 2 THEN 0 ELSE n - 2)
       /\ SentOn(p, p) = 0
  BY <1>2, <1>3, <1>7 DEF SentOn, Running, Instr
<1>11. Message(p, q, SentOn(p, q)) = v
  <2>1. Message(p, q, SentOn(p, q)) = deal[IF q = Succ(p) THEN 2 ELSE 3][SentOn(p, q) + 1]
    BY <1>2, <1>5 DEF Message, MultiplyOps, OpenOps, ShareOps
  <2>2. CASE n < 2
    <3>1. q = Succ(p) /\ SentOn(p, q) = n /\ 2 + (n \div 2) = 2 /\ 1 + (n % 2) = n + 1
      BY <1>6, <1>10, <2>2
    <3> QED
      BY <1>8, <2>1, <3>1
  <2>3. CASE ~(n < 2)
    <3>1. q # Succ(p) /\ SentOn(p, q) = n - 2 /\ 2 + (n \div 2) = 3 /\ 1 + (n % 2) = (n - 2) + 1
      BY <1>6, <1>7, <1>10, <2>3
    <3> QED
      BY <1>8, <2>1, <3>1
  <2> QED
    BY <2>2, <2>3
<1>12. PICK m : MailInv(m) /\ m[<<p, q>>][SendPos(p, q)] = v
  BY Anticipation
<1>13. calls'[p] = n + 1 /\ OnlyBy(p)
  <2>1. calls'[p] = n + 1 /\ \A r \in Parties \ {p} : calls'[r] = calls[r]
    BY <1>2, <1>9 DEF Types
  <2> QED
    BY <1>9, <2>1 DEF OnlyBy, Still
<1>14. /\ SentOn(p, Succ(p))' = (IF n + 1 < 2 THEN n + 1 ELSE 2)
       /\ SentOn(p, Pred(p))' = (IF n + 1 < 2 THEN 0 ELSE n + 1 - 2)
       /\ SentOn(p, p)' = 0
  <2>1. /\ \A r : Source(pc[p], r)' = Source(pc[p], r)
        /\ Succ(p)' = Succ(p) /\ Pred(p)' = Pred(p)
    BY <1>9 DEF Source, Succ, Pred, Relative
  <2> QED
    BY <1>2, <1>3, <1>7, <1>9, <1>13, <2>1 DEF SentOn, Running, Instr
<1>15. /\ SentOn(p, q) < 2 /\ SentOn(p, q)' = SentOn(p, q) + 1
       /\ \A r \in Parties \ {q} : SentOn(p, r)' = SentOn(p, r)
  <2>1. PICK s \in Parties, t \in Parties : s = Succ(p) /\ t = Pred(p)
    BY <1>7
  <2>2. /\ SentOn(p, s) = (IF n < 2 THEN n ELSE 2)
        /\ SentOn(p, t) = (IF n < 2 THEN 0 ELSE n - 2)
        /\ SentOn(p, s)' = (IF n + 1 < 2 THEN n + 1 ELSE 2)
        /\ SentOn(p, t)' = (IF n + 1 < 2 THEN 0 ELSE n + 1 - 2)
    <3>1. Succ(p)' = s /\ Pred(p)' = t
      BY <2>1 DEF Succ, Pred, Relative
    <3> QED
      BY <1>10, <1>14, <2>1, <3>1
  <2>3. CASE n < 2
    BY <1>6, <1>7, <1>10, <1>14, <2>1, <2>2, <2>3
  <2>4. CASE ~(n < 2)
    BY <1>6, <1>7, <1>10, <1>14, <2>1, <2>2, <2>4
  <2> QED
    BY <2>3, <2>4
<1>16. CountInv(p)'
  <2>1. Running(p)' /\ Dealing(p)'
    BY <1>2, <1>4, <1>9 DEF Running, Dealing, Dealer, Instr
  <2> QED
    BY <1>2, <1>4, <1>9, <1>13, <2>1 DEF CountInv
<1>17. DealtInv(m)'
  <2> SUFFICES ASSUME NEW k \in 2 .. Len(program), program[k].op \in ShareOps,
                      NEW d \in Parties, d = program[k].party,
                      4 * k < SendPos(d, Succ(d))', 4 * k + 1 < SendPos(d, Pred(d))'
               PROVE  /\ m[<<d, Succ(d)>>][4 * k] = m[<<d, Pred(d)>>][4 * k + 1]
                      /\ Total(Kind(program[k].op), m[<<d, Succ(d)>>][4 * k + 1],
                               m[<<d, Pred(d)>>][4 * k], m[<<d, Succ(d)>>][4 * k]) = plain[k]
    <3>1. \A k \in 2 .. Len(program) : program[k].op \in ShareOps => program[k].party \in Parties
      BY <1>3, Instructions
    <3>2. \A d : Succ(d)' = Succ(d) /\ Pred(d)' = Pred(d)
      BY DEF Succ, Pred, Relative
    <3> QED
      BY <1>9, <3>1, <3>2 DEF DealtInv
  <2>1. ASSUME 4 * k < SendPos(d, Succ(d)), 4 * k + 1 < SendPos(d, Pred(d))
        PROVE  /\ m[<<d, Succ(d)>>][4 * k] = m[<<d, Pred(d)>>][4 * k + 1]
               /\ Total(Kind(program[k].op), m[<<d, Succ(d)>>][4 * k + 1],
                        m[<<d, Pred(d)>>][4 * k], m[<<d, Succ(d)>>][4 * k]) = plain[k]
    BY <1>12, <2>1 DEF MailInv, DealtInv
  <2>2. CASE d # p
    BY <1>12, <1>13, <2>1, <2>2, OthersStill
  <2>3. CASE d = p /\ k < pc[p]
    <3>1. SentOn(p, Succ(p)) \in Nat /\ SentOn(p, Pred(p)) \in Nat /\ k \in Nat
      BY <1>2, <1>7, Positions
    <3>2. \A a, b, c \in Nat : a < b => 4 * a < 4 * b + c /\ 4 * a + 1 < 4 * b + c
      OBVIOUS
    <3> QED
      BY <1>3, <2>1, <2>3, <3>1, <3>2 DEF SendPos
  <2>4. CASE d = p /\ ~(k < pc[p])
    <3>1. PICK t \in 0 .. 2 : t = SentOn(p, Pred(p))'
      BY <1>14
    <3>2. \A a, b \in Nat : 4 * a + 1 < 4 * b + t /\ ~(a < b) => a = b /\ t = 2
      OBVIOUS
    <3>3. 4 * k + 1 < 4 * pc[p] + t
      <4>1. SendPos(p, Pred(p))' = 4 * pc[p] + t
        BY <1>9, <3>1 DEF SendPos, Pred, Relative
      <4> QED
        BY <2>4, <4>1 DEF Pred, Relative
    <3>4. k = pc[p] /\ n = 3
      <4>1. k = pc[p] /\ t = 2
        <5>1. k \in Nat /\ pc[p] \in Nat /\ ~(k < pc[p])
          BY <1>3, <2>4
        <5> QED
          BY <3>2, <3>3, <5>1
      <4> QED
        BY <1>14, <3>1, <4>1
    <3>5. q = Pred(p) /\ v = deal[3][2]
      BY <1>6, <1>8, <3>4
    <3>6. SendPos(p, q) = 4 * k + 1
      BY <1>10, <3>4, <3>5 DEF SendPos
    <3>7. /\ m[<<p, Succ(p)>>][4 * k] = deal[2][1] /\ m[<<p, Succ(p)>>][4 * k + 1] = deal[2][2]
          /\ m[<<p, Pred(p)>>][4 * k] = deal[3][1]
      <4>1. SentInv(m, p)
        BY <1>12 DEF MailInv
      <4>2. /\ 0 \in 0 .. 2 /\ 0 < SentOn(p, Succ(p)) /\ 4 * k + 0 = 4 * k
            /\ 1 \in 0 .. 2 /\ 1 < SentOn(p, Succ(p)) /\ 0 < SentOn(p, Pred(p))
        BY <1>10, <3>4
      <4>3. /\ m[<<p, Succ(p)>>][4 * pc[p] + 0] = Message(p, Succ(p), 0)
            /\ m[<<p, Succ(p)>>][4 * pc[p] + 1] = Message(p, Succ(p), 1)
            /\ m[<<p, Pred(p)>>][4 * pc[p] + 0] = Message(p, Pred(p), 0)
        BY <1>2, <1>7, <4>1, <4>2 DEF SentInv
      <4>4. /\ Message(p, Succ(p), 0) = deal[2][0 + 1]
            /\ Message(p, Succ(p), 1) = deal[2][1 + 1]
            /\ Message(p, Pred(p), 0) = deal[3][0 + 1]
        BY <1>2, <1>5, <1>7 DEF Message, MultiplyOps, OpenOps, ShareOps
      <4> QED
        BY <3>4, <4>2, <4>3, <4>4
    <3>8. deal[2][1] = deal[3][2] /\ deal[1][1] = deal[2][2]
      BY DealWords
    <3>9. Total(Kind(program[k].op), deal[1][1], deal[3][1], deal[2][1]) = plain[k]
      <4>1. DealtTotal(p) = plain[pc[p]]
        BY <1>2 DEF PlainInv
      <4> QED
        BY <1>5, <3>4, <4>1 DEF DealtTotal, Instr
    <3> QED
      BY <1>12, <2>4, <3>5, <3>6, <3>7, <3>8, <3>9
  <2> QED
    BY <2>2, <2>3, <2>4
<1>18. MailInv(m)'
  BY <1>2, <1>7, <1>9, <1>11, <1>12, <1>13, <1>15, <1>16, <1>17, SendStep
<1>19. Types'
  <2>1. /\ net \in [Links -> Seq(WordSet)] /\ calls \in [Parties -> Nat]
        /\ sending \in [Parties -> Parties \cup {NoParty}] /\ <<p, q>> \in Links
    BY DEF Types, Links
  <2>2. net' \in [Links -> Seq(WordSet)]
    <3>1. Append(net[<<p, q>>], v) \in Seq(WordSet)
      BY <2>1
    <3> QED
      BY <1>9, <2>1, <3>1
  <2>3. calls' \in [Parties -> Nat] /\ sending' \in [Parties -> Parties \cup {NoParty}]
    BY <1>9, <2>1
  <2> QED
    BY <1>9, <2>2, <2>3 DEF Types, Links
<1> QED
  BY <1>9, <1>18, <1>19

-----------------------------------------------------------------------------
(* An operation returns.                                                   *)

\* What Return does to the registers of party p and to the others.
LEMMA ReturnFacts ==
  ASSUME Types, NEW mail, MailInv(mail), NEW p \in Parties, Running(p),
         NEW results \in Seq(Registers), NEW values, Return(p, results, values)
  PROVE  /\ UNCHANGED <<program, net, sending, receiving>>
         /\ pc'[p] = pc[p] + 1 /\ calls'[p] = 0 /\ got'[p] = <<>> /\ dealt'[p] = <<>>
         /\ regs'[p] = regs[p] \o results /\ Len(regs[p]) = pc[p] - 1
         /\ Len(regs'[p]) = Len(regs[p]) + Len(results)
         /\ \A k \in 1 .. pc[p] - 1 : regs'[p][k] = regs[p][k]
         /\ \A n \in 1 .. Len(results) : regs'[p][pc[p] - 1 + n] = results[n]
         /\ \A r \in Parties \ {p} :
              /\ pc'[r] = pc[r] /\ calls'[r] = calls[r] /\ got'[r] = got[r]
              /\ dealt'[r] = dealt[r] /\ regs'[r] = regs[r]
<1>1. /\ UNCHANGED <<program, net, sending, receiving>>
      /\ pc' = [pc EXCEPT ![p] = @ + 1]
      /\ calls' = [calls EXCEPT ![p] = 0]
      /\ got' = [got EXCEPT ![p] = <<>>]
      /\ dealt' = [dealt EXCEPT ![p] = <<>>]
      /\ regs' = [regs EXCEPT ![p] = @ \o results]
  BY DEF Return, ForgetCalls
<1>2. /\ regs \in [Parties -> Seq(Registers)]
      /\ pc \in [Parties -> Nat] /\ calls \in [Parties -> Nat]
      /\ got \in [Parties -> Seq(WordSet)] /\ dealt \in [Parties -> Deals \cup {<<>>}]
  BY DEF Types
<1>3. regs'[p] = regs[p] \o results /\ regs[p] \in Seq(Registers)
  BY <1>1, <1>2
<1>4. Len(regs[p]) = pc[p] - 1
  BY OperandShares
<1>5. /\ Len(regs'[p]) = Len(regs[p]) + Len(results)
      /\ \A k \in 1 .. Len(regs[p]) : regs'[p][k] = regs[p][k]
      /\ \A n \in 1 .. Len(results) : regs'[p][Len(regs[p]) + n] = results[n]
  BY <1>3
<1>6. /\ pc'[p] = pc[p] + 1 /\ calls'[p] = 0 /\ got'[p] = <<>> /\ dealt'[p] = <<>>
      /\ \A r \in Parties \ {p} :
           /\ pc'[r] = pc[r] /\ calls'[r] = calls[r] /\ got'[r] = got[r]
           /\ dealt'[r] = dealt[r] /\ regs'[r] = regs[r]
  BY <1>1, <1>2
<1> QED
  BY <1>1, <1>3, <1>4, <1>5, <1>6

\* The plaintexts of an instruction's n results.
Values(values, n) ==
  /\ values \in Seq(WordSet \cup {Unknown})
  /\ Len(values) = n
  /\ n = 1 => values[1] \in WordSet

LEMMA PlainStep ==
  ASSUME Types, PlainInv, NEW mail, MailInv(mail), NEW p \in Parties, Running(p),
         NEW n \in {1, 2}, n = 2 <=> Instr(p).op = "div_const_a",
         program' = program, dealt'[p] = <<>>, Len(regs'[p]) = Len(regs[p]) + n,
         \A r \in Parties \ {p} : /\ dealt'[r] = dealt[r] /\ regs'[r] = regs[r]
                                   /\ pc'[r] = pc[r],
         NEW values, Values(values, n) \/ Len(plain) > Len(regs[p]),
         plain' = IF Len(plain) > Len(regs[p]) THEN plain ELSE plain \o values
  PROVE  plain' \in Seq(WordSet \cup {Unknown}) /\ PlainInv'
<1> DEFINE N == Len(regs[p])
<1>1. N = pc[p] - 1
  BY OperandShares
<1>2. /\ program \in Programs /\ Len(program) \in Nat /\ pc[p] \in Nat
      /\ pc[p] \in 1 .. Len(program)
      /\ \A r \in Parties : CountInv(r) /\ ResultsInv(mail, r)
      /\ \A r \in Parties : pc[r] \in Nat /\ pc[r] <= Len(program) + 1
  BY Ranges DEF MailInv, Types
<1>3. Len(plain) \in Nat /\ N \in Nat
  <2>1. regs[p] \in Seq(Registers) /\ plain \in Seq(WordSet \cup {Unknown})
    BY DEF Types
  <2> QED
    BY <2>1
<1>12. plain \in Seq(WordSet \cup {Unknown})
  BY DEF Types
<1>4. /\ Len(plain) > N => plain' = plain
      /\ ~(Len(plain) > N) => plain' = plain \o values /\ Values(values, n)
  OBVIOUS
<1>5. Reached(p)' = N + n /\ \A r \in Parties \ {p} : Reached(r)' = Reached(r)
  <2>1. (\A r : /\ dealt[r] = <<>> => Reached(r) = Len(regs[r]) + 0
                /\ dealt[r] # <<>> => Reached(r) = Len(regs[r]) + 1)'
    BY ReachedIs, PTL
  <2>2. Reached(p)' = (N + n) + 0
    <3>1. dealt'[p] = <<>> => Reached(p)' = Len(regs'[p]) + 0
      BY <2>1
    <3> QED
      BY <3>1
  <2>3. Reached(p)' = N + n
    BY <1>3, <2>2
  <2>4. ASSUME NEW r \in Parties \ {p}
        PROVE  Reached(r)' = Reached(r)
    <3>1. dealt'[r] = dealt[r] /\ regs'[r] = regs[r]
      OBVIOUS
    <3> QED
      BY <3>1 DEF Reached
  <2> QED
    BY <2>3, <2>4
<1>6. /\ \A r \in Parties : Reached(r) <= Len(plain)
      /\ \E r \in Parties : Reached(r) = Len(plain)
      /\ \A k \in DOMAIN plain : k < Len(program) => plain[k] \in WordSet
  BY DEF PlainInv
<1>7. Parties' = Parties
  BY DEF Parties
<1>8. \A r \in Parties : Reached(r) \in Nat
  <2> TAKE r \in Parties
  <2>1. Len(regs[r]) \in Nat
    BY DEF Types
  <2>2. Reached(r) = Len(regs[r]) + 0 \/ Reached(r) = Len(regs[r]) + 1
    BY DEF Reached
  <2> QED
    BY <2>1, <2>2
<1>9. \/ dealt[p] = <<>> /\ Reached(p) = N
      \/ dealt[p] # <<>> /\ Reached(p) = N + 1 /\ Instr(p).op \in ShareOps
  <2>1. dealt[p] # <<>> => Instr(p).op \in ShareOps
    BY <1>2 DEF CountInv, Dealing
  <2>2. dealt[p] = <<>> => Reached(p) = N
    BY <1>3, ReachedIs
  <2>3. dealt[p] # <<>> => Reached(p) = N + 1
    BY ReachedIs
  <2> QED
    BY <2>1, <2>2, <2>3
<1>13. \A i \in 1 .. Len(plain) : plain'[i] = plain[i]
  BY <1>3, <1>4, <1>12 DEF Values
<1>14. ASSUME NEW r \in Parties, dealt'[r] # <<>>
       PROVE  DealtTotal(r)' = plain'[pc'[r]]
  <2>1. dealt'[r] = dealt[r] /\ pc'[r] = pc[r]
    BY <1>14
  <2>2. pc[r] \in 1 .. Len(plain) /\ DealtTotal(r) = plain[pc[r]]
    BY <1>14, <2>1, DealtIsPlain
  <2>3. DealtTotal(r)' = DealtTotal(r)
    BY <2>1 DEF DealtTotal, Instr
  <2> QED
    BY <1>13, <2>1, <2>2, <2>3
<1> HIDE DEF N
<1>10. CASE Len(plain) > N
  <2>1. plain' = plain
    BY <1>4, <1>10
  <2>2. CASE Instr(p).op # "div_const_a"
    <3>1. Reached(p)' = N + 1 /\ N + 1 <= Len(plain)
      BY <1>3, <1>5, <1>10, <2>2
    <3>2. \A r \in Parties : Reached(r)' <= Len(plain)
      BY <1>5, <1>6, <3>1
    <3>3. \E r \in Parties : Reached(r)' = Len(plain)
      <4>1. PICK r \in Parties : Reached(r) = Len(plain)
        BY <1>6
      <4>2. CASE r = p
        BY <1>3, <1>9, <1>10, <3>1, <4>1, <4>2
      <4>3. CASE r # p
        BY <1>5, <4>1, <4>3
      <4> QED
        BY <4>2, <4>3
    <3> QED
      BY <1>1, <1>12, <1>6, <1>7, <1>14, <2>1, <3>2, <3>3 DEF PlainInv
  <2>3. CASE Instr(p).op = "div_const_a"
    <3>1. pc[p] = Len(program) /\ program[Len(program)].op = "div_const_a"
      BY <1>2, <2>3, Instructions DEF Instr
    <3>2. PICK r \in Parties : Reached(r) = Len(plain)
      BY <1>6
    <3>3. r # p
      <4>1. Reached(p) = N
        BY <1>9, <2>3 DEF ShareOps
      <4> QED
        BY <1>3, <1>10, <3>2, <4>1
    <3>4. pc[r] = Len(program) + 1
      <4> SUFFICES ASSUME pc[r] # Len(program) + 1
                   PROVE  FALSE
        OBVIOUS
      <4>1. pc[r] <= Len(program)
        BY <1>2
      <4>2. Len(regs[r]) = pc[r] - 1
        BY <1>2, <4>1 DEF ResultsInv, Divided
      <4>3. N = Len(program) - 1
        BY <1>1, <3>1
      <4>4. Reached(r) > Len(program) - 1
        BY <1>10, <3>2, <4>3
      <4>5. dealt[r] # <<>> /\ Reached(r) = pc[r] - 1 + 1
        <5>1. pc[r] - 1 + 0 = pc[r] - 1 /\ ~(pc[r] - 1 > Len(program) - 1)
          BY <1>2, <4>1
        <5> QED
          BY <4>2, <4>4, <5>1, ReachedIs
      <4>6. pc[r] = Len(program)
        BY <1>2, <4>1, <4>4, <4>5
      <4>7. Running(r) /\ ~Dealing(r)
        BY <3>1, <4>1, <4>6 DEF Running, Dealing, Instr, ShareOps
      <4> QED
        BY <1>2, <4>5, <4>7 DEF CountInv
    <3>5. Len(regs[r]) = Len(program) + 1 /\ dealt[r] = <<>>
      <4>1. ~Running(r) /\ Divided(r)
        BY <1>2, <3>1, <3>4 DEF Running, Divided
      <4> QED
        BY <1>2, <3>4, <4>1 DEF CountInv, ResultsInv
    <3>6. Len(plain) = Len(program) + 1
      BY <1>2, <3>2, <3>5, ReachedIs
    <3>7. Reached(p)' = Len(plain)
      BY <1>1, <1>2, <1>5, <2>3, <3>1, <3>6
    <3>8. \A s \in Parties : Reached(s)' <= Len(plain)
      BY <1>3, <1>5, <1>6, <3>7
    <3> QED
      BY <1>1, <1>12, <1>6, <1>7, <1>14, <2>1, <3>7, <3>8 DEF PlainInv
  <2> QED
    BY <2>2, <2>3
<1>11. CASE ~(Len(plain) > N)
  <2>1. Reached(p) <= Len(plain)
    BY <1>6
  <2>2. Len(plain) = N
    BY <1>3, <1>9, <1>11, <2>1
  <2>3. /\ plain' = plain \o values /\ values \in Seq(WordSet \cup {Unknown})
        /\ Len(values) = n
    BY <1>4, <1>11 DEF Values
  <2>8. n = 1 => values[1] \in WordSet
    BY <1>4, <1>11 DEF Values
  <2>4. /\ Len(plain') = Len(plain) + Len(values)
        /\ plain' \in Seq(WordSet \cup {Unknown})
        /\ \A k \in 1 .. Len(plain) : plain'[k] = plain[k]
        /\ plain'[Len(plain) + 1] = values[1]
        /\ DOMAIN plain' = 1 .. Len(plain) + Len(values) /\ DOMAIN plain = 1 .. Len(plain)
    BY <1>12, <2>3
  <2>5. Reached(p)' = Len(plain')
    BY <1>5, <2>2, <2>3, <2>4
  <2>6. \A r \in Parties : Reached(r)' <= Len(plain')
    BY <1>3, <1>5, <1>6, <1>8, <2>4, <2>5
  <2>7. ASSUME NEW k \in DOMAIN plain', k < Len(program)
        PROVE  plain'[k] \in WordSet
    <3>1. CASE k \in 1 .. Len(plain)
      BY <1>6, <2>4, <2>7, <3>1
    <3>2. CASE k \notin 1 .. Len(plain)
      <4>1. k > Len(plain) /\ k <= Len(plain) + Len(values) /\ k \in Nat
        BY <1>3, <2>4, <3>2
      <4>2. Instr(p).op # "div_const_a"
        <5>1. Instr(p).op = "div_const_a" => pc[p] = Len(program)
          BY <1>2, Instructions DEF Instr
        <5>2. pc[p] < Len(program)
          BY <1>1, <1>2, <2>2, <2>7, <4>1
        <5> QED
          BY <1>2, <5>1, <5>2
      <4>3. k = Len(plain) + 1
        BY <1>3, <2>3, <4>1, <4>2
      <4> QED
        BY <2>4, <2>8, <4>2, <4>3
    <3> QED
      BY <3>1, <3>2
  <2> QED
    BY <1>1, <1>7, <1>14, <2>4, <2>5, <2>6, <2>7 DEF PlainInv
<1> QED
  BY <1>10, <1>11

\* A party that has sent and heard everything of its instruction may go on.
Finished(p) == HeardAll(p) /\ \A q \in Parties : SentAll(p, q)

\* A message is what the record says, if what it repeats has been heard.
LEMMA MessageIsRecord ==
  ASSUME Types, NEW mail, MailInv(mail), NEW p \in Parties, Running(p), NEW k, k = pc[p],
         NEW j \in 0 .. 2, j < Exchanges(program[k].op), j <= Len(got[p])
  PROVE  Message(p, Succ(p), j) = Record(mail, p, k, j)
<1> DEFINE op == program[k].op
           q == Succ(p)
<1>1. GotInv(mail, p) /\ k \in Nat /\ Len(got[p]) \in Nat
  <2>1. CountInv(p) /\ GotInv(mail, p)
    BY DEF MailInv
  <2> QED
    BY <2>1, Ranges
<1>2. /\ op \notin ShareOps /\ Instr(p).op = op
      /\ op \in MultiplyOps \cup OpenOps \cup {"div_const_a", "b2a_bit"}
  BY DEF Exchanges, ShareOps, MultiplyOps, OpenOps, Instr
<1>3. Source(k, p) = Pred(p)
  BY <1>2 DEF Source
<1>4. /\ j >= 1 => got[p][1] = mail[<<Pred(p), p>>][4 * k]
      /\ j >= 2 => got[p][2] = mail[<<Pred(p), p>>][4 * k + 1]
  <2>1. /\ j >= 1 => 1 \in 1 .. Len(got[p])
        /\ j >= 2 => 2 \in 1 .. Len(got[p])
    BY <1>1
  <2>2. /\ j >= 1 => got[p][1] = mail[<<Pred(p), p>>][4 * k + (1 - 1)]
        /\ j >= 2 => got[p][2] = mail[<<Pred(p), p>>][4 * k + (2 - 1)]
    BY <1>1, <1>3, <2>1 DEF GotInv
  <2>3. 4 * k + (1 - 1) = 4 * k /\ 4 * k + (2 - 1) = 4 * k + 1
    BY <1>1
  <2> QED
    BY <2>2, <2>3
<1>5. CASE op \in MultiplyOps
  BY <1>2, <1>5 DEF Message, Record, LocalProduct, X, Y, Instr
<1>6. CASE op \in OpenOps
  BY <1>2, <1>6 DEF Message, Record, X, Instr, MultiplyOps, OpenOps
<1>7. CASE op = "div_const_a"
  BY <1>2, <1>7 DEF Message, Record, X, Instr, MultiplyOps, OpenOps
<1>8. CASE op = "b2a_bit"
  <2>1. /\ Message(p, q, j) = (IF j = 0 THEN Masked(X(p))
                               ELSE IF j = 1 THEN got[p][1] ELSE BitShare(p))
        /\ X(p) = regs[p][program[k].x].shares
    BY <1>8 DEF Message, X, Instr, MultiplyOps, OpenOps, ShareOps
  <2>2. BitShare(p) = BitPart(p, Opened("b", <<Masked(X(p)), got[p][1]>>, got[p][2]))
    BY DEF BitShare, BitPart, OpenedBit
  <2>3. Record(mail, p, k, j)
          = (IF j = 0 THEN Masked(X(p))
             ELSE IF j = 1 THEN mail[<<Pred(p), p>>][4 * k]
             ELSE BitPart(p, Opened("b", <<Masked(X(p)), mail[<<Pred(p), p>>][4 * k]>>,
                                    mail[<<Pred(p), p>>][4 * k + 1])))
    BY <1>8, <2>1 DEF Record, MultiplyOps, OpenOps
  <2>4. j = 0 \/ j = 1 \/ j = 2
    OBVIOUS
  <2> QED
    BY <1>4, <2>1, <2>2, <2>3, <2>4
<1> QED
  BY <1>2, <1>5, <1>6, <1>7, <1>8

\* What it has sent is then on record.
LEMMA RecordIs ==
  ASSUME Types, NEW mail, MailInv(mail), NEW p \in Parties, Running(p), Finished(p)
  PROVE  RecordInv(mail, p, pc[p])
<1> DEFINE k == pc[p]
           op == program[k].op
           q == Succ(p)
<1>1. /\ CountInv(p) /\ SentInv(mail, p)
      /\ k \in Nat /\ Len(got[p]) \in Nat
      /\ q \in Parties /\ Pred(q) = p
  <2>1. CountInv(p) /\ SentInv(mail, p)
    BY DEF MailInv
  <2> QED
    BY <2>1, Ranges, Around
<1> SUFFICES ASSUME NEW j \in 0 .. 2, j < Exchanges(op)
             PROVE  mail[<<p, q>>][4 * k + j] = Record(mail, p, k, j)
  BY DEF RecordInv
<1>2. op \notin ShareOps
  BY DEF Exchanges, ShareOps, MultiplyOps, OpenOps
<1>3. Source(k, q) = p /\ Heard(k, q) = Exchanges(op) /\ Heard(k, p) = Exchanges(op)
  BY <1>1, <1>2 DEF Source, Heard
<1>4. j < SentOn(p, q) /\ j <= Len(got[p])
  <2>1. Heard(k, q) <= SentOn(p, q) /\ Heard(k, p) <= Len(got[p])
    BY <1>1, <1>3 DEF Finished, SentAll, HeardAll
  <2>2. Exchanges(op) \in 0 .. 3 /\ SentOn(p, q) \in Nat
    <3>1. \A r \in Parties : CountInv(r)
      BY DEF MailInv
    <3> QED
      BY <1>1, <3>1, Positions DEF Exchanges
  <2> QED
    BY <1>1, <1>3, <2>1, <2>2
<1>5. mail[<<p, q>>][4 * k + j] = Message(p, q, j)
  BY <1>1, <1>4 DEF SentInv
<1> QED
  BY <1>4, <1>5, MessageIsRecord

LEMMA ResultsStep ==
  ASSUME Types, NEW mail, MailInv(mail), NEW p \in Parties, Running(p), Finished(p),
         NEW n \in {1, 2}, n = 2 <=> Instr(p).op = "div_const_a",
         NEW results \in Seq(Registers), Len(results) = n,
         NEW values, Return(p, results, values),
         NEW k, k = pc[p], ResultInv(mail, p, k)'
  PROVE  ResultsInv(mail, p)'
<1>1. /\ program' = program /\ pc'[p] = k + 1 /\ Len(regs[p]) = k - 1
      /\ Len(regs'[p]) = Len(regs[p]) + n
      /\ \A i \in 1 .. k - 1 : regs'[p][i] = regs[p][i]
  BY ReturnFacts
<1>2. /\ program \in Programs /\ Len(program) \in Nat /\ k \in Nat /\ k \in 2 .. Len(program)
      /\ k \in 1 .. Len(program) /\ ResultsInv(mail, p)
  BY Ranges DEF MailInv
<1>3. n = 2 <=> Divided(p)'
  <2>1. n = 2 <=> program[k].op = "div_const_a"
    BY DEF Instr
  <2>2. program[k].op = "div_const_a" => k = Len(program)
    BY <1>2, Instructions
  <2>3. Divided(p)' <=> k + 1 > Len(program) /\ program[Len(program)].op = "div_const_a"
    BY <1>1 DEF Divided
  <2> QED
    BY <1>2, <2>1, <2>2, <2>3
<1>4. Len(regs'[p]) = IF Divided(p)' THEN pc'[p] ELSE pc'[p] - 1
  <2>1. Len(regs'[p]) = k - 1 + n /\ n \in {1, 2}
    BY <1>1
  <2> QED
    BY <1>1, <1>2, <1>3, <2>1
<1>5. regs'[p][1].kind = Kind(program[1].op)
  <2>1. 1 \in 1 .. k - 1
    BY <1>2
  <2> QED
    BY <1>1, <1>2, <2>1 DEF ResultsInv
<1>6. ASSUME NEW i \in 2 .. pc'[p] - 1
      PROVE  ResultInv(mail, p, i)' /\ RecordInv(mail, p, i)'
  <2>1. CASE i = k
    BY <1>1, <1>2, <2>1, RecordIs, SameRecord
  <2>2. CASE i # k
    <3>1. i \in 2 .. k - 1 /\ i \in 2 .. Len(program) /\ i \in 1 .. Len(program) /\ i # Len(program)
      BY <1>1, <1>2, <2>2
    <3>2. ResultInv(mail, p, i) /\ RecordInv(mail, p, i)
      BY <1>2, <3>1 DEF ResultsInv
    <3>3. program[i].op # "div_const_a"
      BY <1>2, <3>1, Instructions
    <3>4. \A a \in 1 .. i : regs'[p][a] = regs[p][a]
      <4>1. \A a \in 1 .. i : a \in 1 .. k - 1
        BY <1>2, <3>1
      <4> QED
        BY <1>1, <4>1
    <3> QED
      BY <1>1, <1>2, <3>1, <3>2, <3>3, <3>4, SameResult
  <2> QED
    BY <2>1, <2>2
<1> QED
  BY <1>1, <1>4, <1>5, <1>6 DEF ResultsInv

LEMMA ReturnStep ==
  ASSUME Types, FirstInv, PlainInv, NEW mail, MailInv(mail), NEW p \in Parties, Running(p),
         Returned(p), Finished(p),
         NEW n \in {1, 2}, n = 2 <=> Instr(p).op = "div_const_a",
         NEW results \in Seq(Registers), Len(results) = n,
         NEW values, Values(values, n) \/ Len(plain) > Len(regs[p]),
         Return(p, results, values),
         NEW k, k = pc[p], ResultInv(mail, p, k)'
  PROVE  Types' /\ FirstInv' /\ PlainInv' /\ MailInv(mail)'
<1>1. /\ UNCHANGED <<program, net, sending, receiving>>
      /\ pc'[p] = k + 1 /\ calls'[p] = 0 /\ got'[p] = <<>> /\ dealt'[p] = <<>>
      /\ regs'[p] = regs[p] \o results /\ Len(regs[p]) = k - 1
      /\ Len(regs'[p]) = Len(regs[p]) + n
      /\ \A i \in 1 .. k - 1 : regs'[p][i] = regs[p][i]
      /\ \A r \in Parties \ {p} :
           /\ pc'[r] = pc[r] /\ calls'[r] = calls[r] /\ got'[r] = got[r]
           /\ dealt'[r] = dealt[r] /\ regs'[r] = regs[r]
  BY ReturnFacts
<1>2. /\ program \in Programs /\ Len(program) \in Nat /\ k \in Nat
      /\ k \in 2 .. Len(program)
      /\ mail \in [Links -> [Nat -> WordSet]]
      /\ \A r \in Parties : CountInv(r)
      /\ \A a, b \in Parties : LinkInv(mail, a, b)
      /\ DealtInv(mail) /\ receiving[p] = NoParty
  BY Ranges DEF MailInv, Returned
<1>3. OnlyBy(p)
  BY <1>1 DEF OnlyBy, Still
<1>4. PlainInv' /\ plain' \in Seq(WordSet \cup {Unknown})
  <2>1. plain' = IF Len(plain) > Len(regs[p]) THEN plain ELSE plain \o values
    BY DEF Return
  <2> QED
    BY <1>1, <2>1, PlainStep
<1>5. FirstInv'
  <2>1. 1 \in 1 .. k - 1
    BY <1>2
  <2>2. \A r \in Parties : regs'[r][1] = regs[r][1]
    BY <1>1, <2>1
  <2>3. \A r \in Parties : Succ(r)' = Succ(r) /\ Succ(r) \in Parties
    BY Around DEF Succ, Relative
  <2> QED
    BY <2>2, <2>3 DEF FirstInv, Parties
<1>6. Types'
  <2>1. /\ pc' = [pc EXCEPT ![p] = @ + 1]
        /\ calls' = [calls EXCEPT ![p] = 0]
        /\ got' = [got EXCEPT ![p] = <<>>]
        /\ dealt' = [dealt EXCEPT ![p] = <<>>]
        /\ regs' = [regs EXCEPT ![p] = @ \o results]
    BY DEF Return, ForgetCalls
  <2>2. /\ regs \in [Parties -> Seq(Registers)]
        /\ pc \in [Parties -> Nat] /\ calls \in [Parties -> Nat]
        /\ got \in [Parties -> Seq(WordSet)] /\ dealt \in [Parties -> Deals \cup {<<>>}]
    BY DEF Types
  <2>3. regs' \in [Parties -> Seq(Registers)]
    BY <2>1, <2>2
  <2>4. pc' \in [Parties -> Nat] /\ calls' \in [Parties -> Nat]
    BY <2>1, <2>2
  <2>5. got' \in [Parties -> Seq(WordSet)]
    BY <2>1, <2>2
  <2>6. dealt' \in [Parties -> Deals \cup {<<>>}]
    BY <2>1, <2>2
  <2> QED
    BY <1>1, <1>4, <2>3, <2>4, <2>5, <2>6 DEF Types, Links
<1>7. \A q \in Parties : SentOn(p, q)' = 0 /\ TakenOn(q, p)' = 0
  BY <1>1 DEF SentOn, TakenOn
<1>8. \A q \in Parties : SendPos(p, q)' = 4 * k + 4 /\ TakePos(q, p)' = 4 * k + 4
  <2>1. 4 * (k + 1) + 0 = 4 * k + 4
    BY <1>2
  <2> QED
    BY <1>1, <1>7, <2>1 DEF SendPos, TakePos
<1>9. ASSUME NEW a \in Parties, NEW b \in Parties
      PROVE  LinkInv(mail, a, b)'
  <2>1. \/ SendPos(a, b)' = SendPos(a, b)
        \/ Running(a) /\ SentAll(a, b) /\ SendPos(a, b)' = 4 * pc[a] + 4
    <3>1. CASE a = p
      BY <1>8, <3>1 DEF Finished
    <3>2. CASE a # p
      BY <1>3, <3>2, OthersStill
    <3> QED
      BY <3>1, <3>2
  <2>2. \/ TakePos(a, b)' = TakePos(a, b)
        \/ Running(b) /\ HeardAll(b) /\ TakePos(a, b)' = 4 * pc[b] + 4
    <3>1. CASE b = p
      BY <1>8, <3>1 DEF Finished
    <3>2. CASE b # p
      BY <1>3, <3>2, OthersStill
    <3> QED
      BY <3>1, <3>2
  <2> QED
    BY <1>1, <1>2, <2>1, <2>2, SkipOnLink
<1>10. CountInv(p)'
  <2>1. k + 1 \in 2 .. Len(program) + 1
    BY <1>2
  <2>2. Running(p)' => Heard(pc[p], p)' >= 0
    <3> SUFFICES ASSUME Running(p)'
                 PROVE  Heard(k + 1, p) >= 0
      BY <1>1, SameSlots
    <3>1. k + 1 \in 1 .. Len(program)
      BY <1>1, <1>2 DEF Running
    <3> QED
      BY <1>2, <3>1, Sources
  <2> QED
    BY <1>1, <1>2, <2>1, <2>2 DEF CountInv
<1>11. GotInv(mail, p)' /\ SentInv(mail, p)'
  <2>1. GotInv(mail, p)'
    <3>1. 1 .. Len(got'[p]) = {}
      BY <1>1
    <3> QED
      BY <3>1 DEF GotInv
  <2>2. SentInv(mail, p)'
    BY <1>7 DEF SentInv, Parties
  <2> QED
    BY <2>1, <2>2
<1>12. ResultsInv(mail, p)'
  BY ResultsStep
<1>13. DealtInv(mail)'
  <2> SUFFICES ASSUME NEW i \in 2 .. Len(program), program[i].op \in ShareOps,
                      NEW d \in Parties, d = program[i].party,
                      4 * i < SendPos(d, Succ(d))', 4 * i + 1 < SendPos(d, Pred(d))'
               PROVE  4 * i < SendPos(d, Succ(d)) /\ 4 * i + 1 < SendPos(d, Pred(d))
    <3>1. \A i \in 2 .. Len(program) : program[i].op \in ShareOps => program[i].party \in Parties
      BY <1>2, Instructions
    <3>2. \A i \in DOMAIN plain : plain'[i] = plain[i]
      <4>1. plain \in Seq(WordSet \cup {Unknown})
        BY DEF Types
      <4>2. plain' = plain \/ (plain' = plain \o values /\ values \in Seq(WordSet \cup {Unknown}))
        BY DEF Return, Values
      <4>3. CASE plain' = plain
        BY <4>3
      <4>4. CASE plain' = plain \o values /\ values \in Seq(WordSet \cup {Unknown})
        <5>1. PICK a \in Seq(WordSet \cup {Unknown}), b \in Seq(WordSet \cup {Unknown}) :
                a = plain /\ b = values
          BY <4>1, <4>4
        <5>2. \A i \in DOMAIN a : (a \o b)[i] = a[i]
          BY ONLY a \in Seq(WordSet \cup {Unknown}), b \in Seq(WordSet \cup {Unknown})
        <5>3. plain' = a \o b
          BY <4>4, <5>1
        <5> QED
          BY ONLY <5>1, <5>2, <5>3
      <4> QED
        BY <4>2, <4>3, <4>4
    <3>3. \A i \in 2 .. Len(program), d \in Parties :
            /\ program[i].op \in ShareOps /\ d = program[i].party
            /\ 4 * i < SendPos(d, Succ(d)) /\ 4 * i + 1 < SendPos(d, Pred(d))
            => plain'[i] = plain[i]
      BY <3>2, DealtIsReached
    <3> QED
      BY <1>1, <1>2, <3>1, <3>3, DealtKept
  <2>1. CASE d # p
    BY <1>3, <2>1, OthersStill
  <2>2. CASE d = p
    <3>1. i \in Nat /\ i <= k
      <4>1. 4 * i + 1 < 4 * k + 4
        <5>1. Pred(p)' = Pred(p) /\ Pred(p) \in Parties
          BY Around DEF Pred, Relative
        <5> QED
          BY <1>8, <2>2, <5>1
      <4> QED
        BY <1>2, <4>1
    <3>2. PICK s \in Nat, t \in Nat : s = SentOn(p, Succ(p)) /\ t = SentOn(p, Pred(p))
      BY <1>2, Positions, Around
    <3>3. i = k => 2 <= s /\ 2 <= t
      <4> SUFFICES ASSUME i = k
                   PROVE  2 <= s /\ 2 <= t
        OBVIOUS
      <4>1. \A q \in Parties \ {p} : p = Source(pc[p], q) /\ Heard(pc[p], q) = 2
        BY <2>2 DEF Source, Heard
      <4> QED
        BY <3>2, <4>1, Around DEF Finished, SentAll
    <3>4. \A a, b, c \in Nat : (a < b \/ (a = b /\ 2 <= c)) => 4 * a < 4 * b + c /\ 4 * a + 1 < 4 * b + c
      OBVIOUS
    <3>5. SendPos(p, Succ(p)) = 4 * k + s /\ SendPos(p, Pred(p)) = 4 * k + t
      BY <3>2 DEF SendPos
    <3>6. i < k \/ i = k
      BY <1>2, <3>1
    <3> QED
      BY <1>2, <2>2, <3>1, <3>2, <3>3, <3>4, <3>5, <3>6
  <2> QED
    BY <2>1, <2>2
<1>14. MailInv(mail)'
  <2>1. \A a, b \in Parties : LinkInv(mail, a, b)'
    BY <1>9
  <2> QED
    BY <1>3, <1>10, <1>11, <1>12, <1>13, <2>1, Together
<1> QED
  BY <1>4, <1>5, <1>6, <1>14

-----------------------------------------------------------------------------
(* Every operation returns what ResultInv says.                            *)

LEMMA OperandPlains ==
  ASSUME Types, PlainInv, NEW mail, MailInv(mail), NEW p \in Parties, Running(p)
  PROVE  \A x \in 1 .. pc[p] - 1 : plain[x] \in WordSet
<1>1. /\ pc[p] \in Nat /\ pc[p] \in 1 .. Len(program) /\ Len(program) \in Nat
  BY Ranges DEF MailInv
<1>2. Len(regs[p]) = pc[p] - 1
  BY OperandShares
<1>3. Reached(p) \in {pc[p] - 1, pc[p]}
  <2>1. Reached(p) = pc[p] - 1 + 0 \/ Reached(p) = pc[p] - 1 + 1
    BY <1>2, ReachedIs
  <2> QED
    BY <1>1, <2>1
<1>4. plain \in Seq(WordSet \cup {Unknown})
  BY DEF Types
<1>5. DOMAIN plain = 1 .. Len(plain) /\ Len(plain) \in Nat
  BY <1>4
<1>6. pc[p] - 1 <= Len(plain)
  BY <1>1, <1>3, <1>5 DEF PlainInv
<1>7. ASSUME NEW x \in 1 .. pc[p] - 1
      PROVE  plain[x] \in WordSet
  <2>1. x \in DOMAIN plain /\ x < Len(program)
    BY <1>1, <1>5, <1>6
  <2> QED
    BY <2>1 DEF PlainInv
<1> QED
  BY <1>7

LEMMA KindIsShared == \A op : Kind(op) \in {"a", "b"}
BY DEF Kind

LEMMA ResultIsRegister ==
  ASSUME NEW kind \in {"a", "b"}, NEW shares \in Sharings
  PROVE  /\ Result(kind, shares) \in Registers
         /\ Result(kind, shares).kind = kind /\ Result(kind, shares).shares = shares
BY DEF Result, Registers

LEMMA PairIsSharing ==
  ASSUME NEW u \in WordSet, NEW v \in WordSet
  PROVE  <<u, v>> \in Sharings
BY DEF Sharings

LEMMA LocalSharesAreWords ==
  ASSUME NEW op \in LocalOps, NEW u \in WordSet, NEW v \in WordSet
  PROVE  LocalShare(op, u, v) \in WordSet
<1>1. u + v \in Int /\ u - v \in Int /\ -u \in Int
  <2>1. u \in Nat /\ v \in Nat
    BY Closure
  <2> QED
    BY <2>1
<1>2. /\ Wrap(u + v) \in WordSet /\ Wrap(u - v) \in WordSet /\ Wrap(-u) \in WordSet
      /\ Xor(u, v) \in WordSet /\ Not(u) \in WordSet
      /\ Truth(u = 0) \in WordSet /\ Truth(Signed(u) < 0) \in WordSet
  BY <1>1, WordsAreClosed
<1> QED
  BY <1>2 DEF LocalShare, LocalOps, UnaryOps, BinaryOps

LEMMA LocalResultShares ==
  ASSUME NEW p, Instr(p).op \in LocalOps
  PROVE  LocalResult(p) = [n \in 1 .. 2 |->
           LocalShare(Instr(p).op, X(p)[n], IF Instr(p).op \in BinaryOps THEN Y(p)[n] ELSE 0)]
BY DEF LocalResult, LocalShare, LocalOps, UnaryOps, BinaryOps,
       add_a, sub_a, neg_a, xor_b, not_b, not_b_1, ltz

LEMMA LocalPlainIsWord ==
  ASSUME Types, PlainInv, NEW mail, MailInv(mail), NEW p \in Parties, Running(p),
         Instr(p).op \in LocalOps
  PROVE  /\ LocalPlain(p) \in WordSet
         /\ LocalPlain(p) = LocalShare(Instr(p).op, PlainX(p),
                                       IF Instr(p).op \in BinaryOps THEN PlainY(p) ELSE 0)
<1>1. Instr(p).op \notin {"secret_share_a", "secret_share_b"}
  BY DEF LocalOps, UnaryOps, BinaryOps
<1>2. Instr(p).x \in 1 .. pc[p] - 1
  BY <1>1, OperandShares
<1>3. PlainX(p) \in WordSet
  BY <1>2, OperandPlains DEF PlainX
<1>4. Instr(p).op \in BinaryOps => PlainY(p) \in WordSet
  <2> SUFFICES ASSUME Instr(p).op \in BinaryOps
               PROVE  PlainY(p) \in WordSet
    OBVIOUS
  <2>1. Instr(p).y \in 1 .. pc[p] - 1
    BY OperandShares
  <2> QED
    BY <2>1, OperandPlains DEF PlainY
<1>5. Unknown \notin WordSet
  BY WordsAreClosed DEF Unknown, WordSet
<1> DEFINE v == IF Instr(p).op \in BinaryOps THEN PlainY(p) ELSE 0
<1>6. v \in WordSet
  BY <1>4, Closure
<1>7. LocalPlain(p) = LocalShare(Instr(p).op, PlainX(p), v)
  <2>1. PlainX(p) # Unknown /\ (Instr(p).op \in BinaryOps => PlainY(p) # Unknown)
    BY <1>3, <1>4, <1>5
  <2> QED
    BY <2>1 DEF LocalPlain, LocalShare, LocalOps, UnaryOps, BinaryOps
<1>8. LocalPlain(p) \in WordSet
  <2> HIDE DEF v
  <2> QED
    BY <1>3, <1>6, <1>7, LocalSharesAreWords
<1> QED
  BY <1>7, <1>8

\* What a party knows when all exchanges of its instruction are done.
LEMMA AllExchanged ==
  ASSUME Types, NEW mail, MailInv(mail), NEW p \in Parties, Running(p),
         Instr(p).op \notin ShareOps, Returned(p), calls[p] = Exchanges(Instr(p).op),
         NEW k, k = pc[p]
  PROVE  /\ Finished(p)
         /\ \A j \in 0 .. 2 : j < Exchanges(Instr(p).op) =>
              /\ mail[<<p, Succ(p)>>][4 * k + j] = Message(p, Succ(p), j)
              /\ mail[<<Pred(p), p>>][4 * k + j] = got[p][j + 1]
              /\ Message(p, Succ(p), j) \in WordSet /\ got[p][j + 1] \in WordSet
<1>1. /\ pc[p] \in Nat /\ pc[p] \in 1 .. Len(program) /\ program \in Programs
      /\ got[p] \in Seq(WordSet) /\ Len(got[p]) \in Nat
      /\ CountInv(p) /\ GotInv(mail, p) /\ SentInv(mail, p)
  BY Ranges DEF MailInv
<1>2. ~Dealing(p) /\ calls[p] = Len(got[p])
  BY <1>1 DEF Dealing, Returned, CountInv
<1>3. \A r \in Parties : Source(pc[p], r) = Pred(r) /\ Heard(pc[p], r) = Exchanges(Instr(p).op)
  BY DEF Source, Heard, Instr
<1>4. Exchanges(Instr(p).op) \in 0 .. 3
  BY DEF Exchanges
<1>5. \A r \in Parties : p = Source(pc[p], r) => SentOn(p, r) = calls[p]
  <2>1. \A r \in Parties : p = Source(pc[p], r) => p # r
    BY <1>3, Around
  <2> QED
    BY <1>1, <2>1 DEF SentOn, Running, Instr
<1>6. Finished(p)
  BY <1>2, <1>3, <1>4, <1>5 DEF Finished, HeardAll, SentAll
<1>7. ASSUME NEW j \in 0 .. 2, j < Exchanges(Instr(p).op)
      PROVE  /\ mail[<<p, Succ(p)>>][4 * k + j] = Message(p, Succ(p), j)
             /\ mail[<<Pred(p), p>>][4 * k + j] = got[p][j + 1]
             /\ Message(p, Succ(p), j) \in WordSet /\ got[p][j + 1] \in WordSet
  <2>1. j + 1 \in 1 .. Len(got[p]) /\ (j + 1) - 1 = j /\ j <= Len(got[p])
    BY <1>1, <1>2, <1>7
  <2>2. got[p][j + 1] \in WordSet
    BY <1>1, <2>1
  <2>3. mail[<<Pred(p), p>>][4 * k + j] = got[p][j + 1]
    <3>1. got[p][j + 1] = mail[<<Source(pc[p], p), p>>][4 * pc[p] + ((j + 1) - 1)]
      BY <1>1, <2>1 DEF GotInv
    <3> QED
      BY <1>3, <2>1, <3>1
  <2>4. Succ(p) \in Parties /\ j < SentOn(p, Succ(p))
    <3>1. Succ(p) \in Parties /\ Pred(Succ(p)) = p
      BY Around
    <3> QED
      BY <1>3, <1>5, <1>7, <3>1
  <2>5. mail[<<p, Succ(p)>>][4 * k + j] = Message(p, Succ(p), j)
    BY <1>1, <2>4 DEF SentInv
  <2>6. Message(p, Succ(p), j) \in WordSet
    BY <1>7, <2>1, <2>4, MessageIsWord
  <2> QED
    BY <2>2, <2>3, <2>5, <2>6
<1> QED
  BY <1>6, <1>7

LEMMA ResultOfTwo ==
  ASSUME NEW kind \in {"a", "b"}, NEW u \in WordSet, NEW v \in WordSet
  PROVE  /\ Result(kind, <<u, v>>) \in Registers /\ Result(kind, <<u, v>>).kind = kind
         /\ Result(kind, <<u, v>>).shares[1] = u /\ Result(kind, <<u, v>>).shares[2] = v
<1>1. PICK shares \in Sharings : shares = <<u, v>>
  <2>1. <<u, v>> \in Sharings
    BY PairIsSharing
  <2> QED
    BY <2>1
<1>2. shares[1] = u /\ shares[2] = v
  BY <1>1
<1>3. /\ Result(kind, shares) \in Registers /\ Result(kind, shares).kind = kind
      /\ Result(kind, shares).shares = shares
  BY ResultIsRegister
<1> QED
  BY <1>1, <1>2, <1>3

\* A register of two words, the one sent and the one received.
LEMMA ExchangedResult ==
  ASSUME Types, NEW mail, MailInv(mail), NEW p \in Parties, Running(p),
         Instr(p).op \notin ShareOps, Returned(p), calls[p] = Exchanges(Instr(p).op),
         NEW k, k = pc[p], NEW j \in 0 .. 2, j < Exchanges(Instr(p).op), NEW r,
         regs'[p][r].shares[1] = Message(p, Succ(p), j),
         regs'[p][r].shares[2] = got[p][j + 1]
  PROVE  Exchanged(mail, p, r, k, j)'
<1>1. Running(p) /\ Returned(p)
  OBVIOUS
<1>2. PICK op : op = Instr(p).op
  OBVIOUS
<1>3. op \notin ShareOps /\ calls[p] = Exchanges(op) /\ j < Exchanges(op)
  BY <1>2
<1>4. /\ mail[<<p, Succ(p)>>][4 * k + j] = Message(p, Succ(p), j)
      /\ mail[<<Pred(p), p>>][4 * k + j] = got[p][j + 1]
  <2>1. k \in Nat
    BY DEF Types
  <2>2. j = 0 \/ j = 1 \/ j = 2
    OBVIOUS
  <2>3. CASE j = 0
    BY <1>1, <1>2, <1>3, <2>1, <2>3, AllExchanged
  <2>4. CASE j = 1
    BY <1>1, <1>2, <1>3, <2>1, <2>4, AllExchanged
  <2>5. CASE j = 2
    BY <1>1, <1>2, <1>3, <2>1, <2>5, AllExchanged
  <2> QED
    BY <2>2, <2>3, <2>4, <2>5
<1>5. Succ(p)' = Succ(p) /\ Pred(p)' = Pred(p)
  BY DEF Succ, Pred, Relative
<1> QED
  BY <1>4, <1>5 DEF Exchanged

LEMMA FirstHeard ==
  ASSUME Types, NEW mail, MailInv(mail), NEW p \in Parties, Running(p),
         Instr(p).op \notin ShareOps, Returned(p), calls[p] = 1, NEW k, k = pc[p]
  PROVE  mail[<<Pred(p), p>>][4 * k] = got[p][1]
<1>1. CountInv(p) /\ GotInv(mail, p)
  BY DEF MailInv
<1>2. k \in Nat
  BY DEF Types
<1>3. Source(k, p) = Pred(p) /\ calls[p] = Len(got[p])
  BY <1>1 DEF Source, Instr, Dealing, Returned, CountInv
<1>4. 1 \in 1 .. Len(got[p])
  BY <1>3
<1>5. got[p][1] = mail[<<Source(pc[p], p), p>>][4 * pc[p] + (1 - 1)]
  BY <1>1, <1>4 DEF GotInv
<1>6. 4 * k + (1 - 1) = 4 * k
  BY <1>2
<1> QED
  BY <1>3, <1>5, <1>6

LEMMA ReturnsOne ==
  ASSUME Types, NEW mail, MailInv(mail), NEW p \in Parties, Running(p),
         NEW result \in Registers, NEW values, Return(p, <<result>>, values),
         NEW k, k = pc[p]
  PROVE  /\ program' = program
         /\ \A i \in 1 .. k - 1 : regs'[p][i] = regs[p][i]
         /\ regs'[p][k] = result
         /\ <<result>> \in Seq(Registers) /\ Len(<<result>>) = 1
<1>1. PICK results \in Seq(Registers) : results = <<result>>
  <2>1. <<result>> \in Seq(Registers)
    OBVIOUS
  <2> QED
    BY <2>1
<1>2. Len(results) = 1 /\ results[1] = result
  BY <1>1
<1>3. Return(p, results, values)
  BY <1>1
<1>4. k \in Nat /\ 1 \in 1 .. 1
  BY DEF Types
<1>5. /\ program' = program
      /\ \A i \in 1 .. pc[p] - 1 : regs'[p][i] = regs[p][i]
      /\ \A n \in 1 .. Len(results) : regs'[p][pc[p] - 1 + n] = results[n]
  BY <1>3, ReturnFacts
<1>6. regs'[p][k - 1 + 1] = result
  BY <1>2, <1>4, <1>5
<1>7. k - 1 + 1 = k
  BY <1>4
<1> QED
  BY <1>1, <1>2, <1>5, <1>6, <1>7

LEMMA ReturnsTwo ==
  ASSUME Types, NEW mail, MailInv(mail), NEW p \in Parties, Running(p),
         NEW first \in Registers, NEW second \in Registers, NEW values,
         Return(p, <<first, second>>, values), NEW k, k = pc[p]
  PROVE  /\ program' = program
         /\ regs'[p][k] = first /\ regs'[p][k + 1] = second
         /\ <<first, second>> \in Seq(Registers) /\ Len(<<first, second>>) = 2
<1>1. PICK results \in Seq(Registers) : results = <<first, second>>
  <2>1. <<first, second>> \in Seq(Registers)
    OBVIOUS
  <2> QED
    BY <2>1
<1>2. Len(results) = 2 /\ results[1] = first /\ results[2] = second
  BY <1>1
<1>3. Return(p, results, values)
  BY <1>1
<1>4. k \in Nat /\ 1 \in 1 .. 2 /\ 2 \in 1 .. 2
  BY DEF Types
<1>5. /\ program' = program
      /\ \A n \in 1 .. Len(results) : regs'[p][pc[p] - 1 + n] = results[n]
  BY <1>3, ReturnFacts
<1>6. regs'[p][k - 1 + 1] = first /\ regs'[p][k - 1 + 2] = second
  BY <1>2, <1>4, <1>5
<1>7. k - 1 + 1 = k /\ k - 1 + 2 = k + 1
  BY <1>4
<1> QED
  BY <1>1, <1>2, <1>5, <1>6, <1>7

LEMMA LocalReturns ==
  ASSUME Types, FirstInv, PlainInv, NEW mail, MailInv(mail), NEW p \in Parties, Local(p)
  PROVE  Types' /\ FirstInv' /\ PlainInv' /\ MailInv(mail)'
<1> DEFINE op == Instr(p).op
           result == Result(Kind(op), LocalResult(p))
<1>1. PICK k \in Nat : k = pc[p]
  BY DEF Types
<1>2. /\ Running(p) /\ op \in LocalOps /\ calls[p] = 0 /\ Returned(p)
      /\ Return(p, <<result>>, <<LocalPlain(p)>>)
  BY DEF Local, At, Running
<1>3. /\ k \in 1 .. Len(program) /\ k >= 2 /\ program \in Programs /\ program[k].op = op
  BY <1>1, <1>2, Ranges DEF MailInv, Instr
<1>4. /\ op \notin ShareOps /\ op \notin MultiplyOps /\ op \notin OpenOps
      /\ op # "div_const_a" /\ op # "b2a_bit" /\ Exchanges(op) = 0
  BY <1>2 DEF LocalOps, UnaryOps, BinaryOps, ShareOps, MultiplyOps, OpenOps, Exchanges
<1>5. Finished(p)
  BY <1>1, <1>2, <1>4, AllExchanged
<1>6. /\ X(p) \in Sharings /\ Instr(p).x \in 1 .. k - 1
      /\ op \in BinaryOps => Y(p) \in Sharings /\ Instr(p).y \in 1 .. k - 1
  BY <1>1, <1>2, <1>4, OperandShares DEF ShareOps
<1> DEFINE y(n) == IF op \in BinaryOps THEN Y(p)[n] ELSE 0
<1>7. LocalResult(p) = [n \in 1 .. 2 |-> LocalShare(op, X(p)[n], y(n))]
  BY <1>2, LocalResultShares
<1>8. LocalResult(p) \in Sharings
  <2>1. \A n \in 1 .. 2 : X(p)[n] \in WordSet /\ y(n) \in WordSet
    BY <1>6, Closure DEF Sharings
  <2>2. \A n \in 1 .. 2 : LocalShare(op, X(p)[n], y(n)) \in WordSet
    <3> HIDE DEF op, y
    <3> QED
      BY <1>2, <2>1, LocalSharesAreWords
  <2> HIDE DEF op, y
  <2> QED
    BY <1>7, <2>2 DEF Sharings
<1>9. result \in Registers /\ result.kind = Kind(op) /\ result.shares = LocalResult(p)
  BY <1>8, KindIsShared, ResultIsRegister
<1>10. Values(<<LocalPlain(p)>>, 1)
  <2>1. LocalPlain(p) \in WordSet
    BY <1>2, LocalPlainIsWord
  <2> QED
    BY <2>1 DEF Values
<1>11. /\ program' = program
       /\ \A i \in 1 .. k - 1 : regs'[p][i] = regs[p][i]
       /\ regs'[p][k] = result
       /\ <<result>> \in Seq(Registers) /\ Len(<<result>>) = 1
  <2> HIDE DEF result
  <2> QED
    BY <1>1, <1>2, <1>9, ReturnsOne
<1>12. LocalInv(p, k)'
  <2>1. regs'[p][program[k].x].shares = X(p)
    BY <1>1, <1>6, <1>11 DEF X, Instr
  <2>2. op \in BinaryOps => regs'[p][program[k].y].shares = Y(p)
    BY <1>1, <1>6, <1>11 DEF Y, Instr
  <2>3. ASSUME NEW n \in 1 .. 2
        PROVE  regs'[p][k].shares[n]
                 = LocalShare(op, X(p)[n], IF op \in BinaryOps THEN Y(p)[n] ELSE 0)
    BY <1>7, <1>9, <1>11
  <2> HIDE DEF op, result
  <2> QED
    BY <1>3, <1>11, <2>1, <2>2, <2>3 DEF LocalInv
<1>13. ResultInv(mail, p, k)'
  <2> HIDE DEF op, result
  <2>1. regs'[p][k].kind = ResultKind(op)
    BY <1>4, <1>9, <1>11 DEF ResultKind
  <2> QED
    BY <1>3, <1>4, <1>11, <1>12, <2>1 DEF ResultInv
<1> HIDE DEF result
<1>14. 1 \in {1, 2} /\ (1 = 2 <=> op = "div_const_a")
  BY <1>4
<1> QED
  BY <1>1, <1>2, <1>5, <1>10, <1>11, <1>13, <1>14, ReturnStep

LEMMA MultiplyReturns ==
  ASSUME Types, FirstInv, PlainInv, NEW mail, MailInv(mail), NEW p \in Parties,
         MultiplyReturn(p)
  PROVE  Types' /\ FirstInv' /\ PlainInv' /\ MailInv(mail)'
<1> DEFINE op == Instr(p).op
           result == Result(Kind(op), <<LocalProduct(p), got[p][1]>>)
           value == Times(Kind(op), PlainX(p), PlainY(p))
<1>1. PICK k \in Nat : k = pc[p]
  BY DEF Types
<1>2. /\ Running(p) /\ op \in MultiplyOps /\ calls[p] = 1 /\ Returned(p)
      /\ Return(p, <<result>>, <<value>>)
  BY DEF MultiplyReturn, At, Running
<1>3. program[k].op = op
  BY <1>1 DEF Instr
<1>4. /\ op \notin ShareOps /\ op \notin LocalOps /\ op \notin OpenOps
      /\ op # "div_const_a" /\ op # "b2a_bit" /\ Exchanges(op) = 1
      /\ op \notin {"secret_share_a", "secret_share_b"}
  BY <1>2 DEF LocalOps, UnaryOps, BinaryOps, ShareOps, MultiplyOps, OpenOps, Exchanges
<1>5. Finished(p)
  BY <1>1, <1>2, <1>4, AllExchanged
<1>6. /\ result \in Registers /\ result.kind = Kind(op)
      /\ \A r : regs'[p][r] = result => Exchanged(mail, p, r, k, 0)'
  <2>1. Message(p, Succ(p), 0) = LocalProduct(p)
    BY <1>2 DEF Message, MultiplyOps, OpenOps, ShareOps
  <2>2. 0 \in 0 .. 2 /\ 0 < Exchanges(op)
    BY <1>4
  <2>3. LocalProduct(p) \in WordSet /\ got[p][1] \in WordSet
    <3>1. Message(p, Succ(p), 0) \in WordSet /\ got[p][0 + 1] \in WordSet
      BY <1>1, <1>2, <1>4, <2>2, AllExchanged
    <3> QED
      BY <2>1, <3>1
  <2>4. /\ result \in Registers /\ result.kind = Kind(op)
        /\ result.shares[1] = Message(p, Succ(p), 0) /\ result.shares[2] = got[p][0 + 1]
    BY <2>1, <2>3, KindIsShared, ResultOfTwo
  <2> HIDE DEF result
  <2>5. ASSUME NEW r, regs'[p][r] = result
        PROVE  Exchanged(mail, p, r, k, 0)'
    BY <1>1, <1>2, <1>4, <2>2, <2>4, <2>5, ExchangedResult
  <2> QED
    BY <2>4, <2>5
<1>7. Values(<<value>>, 1)
  <2>1. Instr(p).x \in 1 .. pc[p] - 1 /\ Instr(p).y \in 1 .. pc[p] - 1
    BY <1>2, <1>4, OperandShares
  <2>2. PlainX(p) \in WordSet /\ PlainY(p) \in WordSet
    BY <1>2, <2>1, OperandPlains DEF PlainX, PlainY
  <2>3. value \in WordSet
    BY <2>2, Closure
  <2> HIDE DEF value
  <2> QED
    BY <2>3 DEF Values
<1> HIDE DEF op, result, value
<1>8. /\ program' = program /\ regs'[p][k] = result
      /\ <<result>> \in Seq(Registers) /\ Len(<<result>>) = 1
  BY <1>1, <1>2, <1>6, ReturnsOne
<1>9. ResultInv(mail, p, k)'
  <2>1. regs'[p][k].kind = ResultKind(op)
    BY <1>4, <1>6, <1>8 DEF ResultKind
  <2> QED
    BY <1>3, <1>4, <1>6, <1>8, <2>1 DEF ResultInv
<1>10. 1 \in {1, 2} /\ (1 = 2 <=> op = "div_const_a")
  BY <1>4
<1> QED
  BY <1>1, <1>2, <1>5, <1>7, <1>8, <1>9, <1>10, ReturnStep DEF op

LEMMA B2AReturns ==
  ASSUME Types, FirstInv, PlainInv, NEW mail, MailInv(mail), NEW p \in Parties,
         B2AReturn(p)
  PROVE  Types' /\ FirstInv' /\ PlainInv' /\ MailInv(mail)'
<1> DEFINE op == Instr(p).op
           result == Result("a", <<BitShare(p), got[p][3]>>)
           value == LowBit(PlainX(p))
<1>1. PICK k \in Nat : k = pc[p]
  BY DEF Types
<1>2. /\ Running(p) /\ op = "b2a_bit" /\ calls[p] = 3 /\ Returned(p)
      /\ Return(p, <<result>>, <<value>>)
  BY DEF B2AReturn, At, Running
<1>3. program[k].op = op
  BY <1>1 DEF Instr
<1>4. /\ op \notin ShareOps /\ op \notin LocalOps /\ op \notin OpenOps
      /\ op \notin MultiplyOps /\ op # "div_const_a" /\ Exchanges(op) = 3
      /\ op \notin {"secret_share_a", "secret_share_b"} /\ Kind(op) = "a"
  BY <1>2 DEF LocalOps, UnaryOps, BinaryOps, ShareOps, MultiplyOps, OpenOps, Exchanges, Kind
<1>5. Finished(p)
  BY <1>1, <1>2, <1>4, AllExchanged
<1>6. /\ result \in Registers /\ result.kind = "a"
      /\ \A r : regs'[p][r] = result => Exchanged(mail, p, r, k, 2)'
  <2>1. Message(p, Succ(p), 2) = BitShare(p)
    BY <1>2 DEF Message, MultiplyOps, OpenOps, ShareOps
  <2>2. 2 \in 0 .. 2 /\ 2 < Exchanges(op)
    BY <1>4
  <2>3. BitShare(p) \in WordSet /\ got[p][3] \in WordSet
    <3>1. Message(p, Succ(p), 2) \in WordSet /\ got[p][2 + 1] \in WordSet
      BY <1>1, <1>2, <1>4, <2>2, AllExchanged
    <3> QED
      BY <2>1, <3>1
  <2>4. /\ result \in Registers /\ result.kind = "a"
        /\ result.shares[1] = Message(p, Succ(p), 2) /\ result.shares[2] = got[p][2 + 1]
    BY <2>1, <2>3, ResultOfTwo
  <2> HIDE DEF result
  <2>5. ASSUME NEW r, regs'[p][r] = result
        PROVE  Exchanged(mail, p, r, k, 2)'
    BY <1>1, <1>2, <1>4, <2>2, <2>4, <2>5, ExchangedResult
  <2> QED
    BY <2>4, <2>5
<1>7. Values(<<value>>, 1)
  <2>1. Instr(p).x \in 1 .. pc[p] - 1
    BY <1>2, <1>4, OperandShares
  <2>2. PlainX(p) \in WordSet
    BY <1>2, <2>1, OperandPlains DEF PlainX
  <2>3. value \in WordSet
    BY <2>2, Closure
  <2> HIDE DEF value
  <2> QED
    BY <2>3 DEF Values
<1> HIDE DEF op, result, value
<1>8. /\ program' = program /\ regs'[p][k] = result
      /\ <<result>> \in Seq(Registers) /\ Len(<<result>>) = 1
  BY <1>1, <1>2, <1>6, ReturnsOne
<1>9. ResultInv(mail, p, k)'
  <2>1. regs'[p][k].kind = ResultKind(op)
    BY <1>4, <1>6, <1>8 DEF ResultKind
  <2> QED
    BY <1>3, <1>4, <1>6, <1>8, <2>1 DEF ResultInv
<1>10. 1 \in {1, 2} /\ (1 = 2 <=> op = "div_const_a")
  BY <1>4
<1> QED
  BY <1>1, <1>2, <1>5, <1>7, <1>8, <1>9, <1>10, ReturnStep DEF op

LEMMA OpenReturns ==
  ASSUME Types, FirstInv, PlainInv, NEW mail, MailInv(mail), NEW p \in Parties,
         OpenReturn(p)
  PROVE  Types' /\ FirstInv' /\ PlainInv' /\ MailInv(mail)'
<1> DEFINE op == Instr(p).op
           word == Opened(Kind(op), X(p), got[p][1])
           result == Result("open", <<word>>)
<1>1. PICK k \in Nat : k = pc[p]
  BY DEF Types
<1>2. /\ Running(p) /\ op \in OpenOps /\ calls[p] = 1 /\ Returned(p)
      /\ Return(p, <<result>>, <<PlainX(p)>>)
  BY DEF OpenReturn, At, Running
<1>3. program[k].op = op
  BY <1>1 DEF Instr
<1>4. /\ op \notin ShareOps /\ op \notin LocalOps /\ op \notin MultiplyOps
      /\ op # "div_const_a" /\ op # "b2a_bit" /\ Exchanges(op) = 1
      /\ op \notin {"secret_share_a", "secret_share_b"}
  BY <1>2 DEF LocalOps, UnaryOps, BinaryOps, ShareOps, MultiplyOps, OpenOps, Exchanges
<1>5. Finished(p)
  BY <1>1, <1>2, <1>4, AllExchanged
<1>6. word \in WordSet
  <2>1. 0 \in 0 .. 2 /\ 0 < Exchanges(op)
    BY <1>4
  <2>2. got[p][0 + 1] \in WordSet
    BY <1>1, <1>2, <1>4, <2>1, AllExchanged
  <2>3. X(p) \in Sharings
    BY <1>2, <1>4, OperandShares
  <2>4. X(p)[1] \in WordSet /\ X(p)[2] \in WordSet
    BY <2>3 DEF Sharings
  <2>5. Plus(Kind(op), X(p)[1], X(p)[2]) \in WordSet
    BY <2>4, Closure
  <2> QED
    BY <2>2, <2>5, Closure DEF Opened
<1>7. result \in Registers /\ result.kind = "open"
  <2> HIDE DEF word
  <2>1. <<word>> \in [1 .. 1 -> WordSet]
    BY <1>6
  <2> QED
    BY <2>1 DEF Result, Registers
<1>8. Values(<<PlainX(p)>>, 1)
  <2>1. Instr(p).x \in 1 .. pc[p] - 1
    BY <1>2, <1>4, OperandShares
  <2>2. PlainX(p) \in WordSet
    BY <1>2, <2>1, OperandPlains DEF PlainX
  <2> QED
    BY <2>2 DEF Values
<1>12. result.shares[1] = Opened(Kind(op), X(p), mail[<<Pred(p), p>>][4 * k])
  <2>1. mail[<<Pred(p), p>>][4 * k] = got[p][1]
    BY <1>1, <1>2, <1>4, FirstHeard
  <2> QED
    BY <2>1 DEF Result
<1>13. Instr(p).x \in 1 .. k - 1
  BY <1>1, <1>2, <1>4, OperandShares
<1> HIDE DEF word, result
<1>9. /\ program' = program /\ regs'[p][k] = result
      /\ <<result>> \in Seq(Registers) /\ Len(<<result>>) = 1
      /\ \A i \in 1 .. k - 1 : regs'[p][i] = regs[p][i]
  BY <1>1, <1>2, <1>7, ReturnsOne
<1>14. regs'[p][program[k].x].shares = X(p)
  BY <1>1, <1>9, <1>13 DEF X, Instr
<1> HIDE DEF op
<1>10. ResultInv(mail, p, k)'
  <2>1. regs'[p][k].kind = ResultKind(op)
    BY <1>2, <1>7, <1>9 DEF ResultKind
  <2>2. regs'[p][k].shares[1]
          = Opened(Kind(op), regs'[p][program[k].x].shares, mail[<<Pred(p), p>>][4 * k])
    BY <1>9, <1>12, <1>14
  <2>3. Pred(p)' = Pred(p)
    BY DEF Pred, Relative
  <2> QED
    BY <1>3, <1>4, <1>9, <2>1, <2>2, <2>3 DEF ResultInv
<1>11. 1 \in {1, 2} /\ (1 = 2 <=> op = "div_const_a")
  BY <1>4
<1> QED
  BY <1>1, <1>2, <1>5, <1>8, <1>9, <1>10, <1>11, ReturnStep DEF op

LEMMA DivisionReturns ==
  ASSUME Types, FirstInv, PlainInv, NEW mail, MailInv(mail), NEW p \in Parties,
         DivisionReturn(p)
  PROVE  Types' /\ FirstInv' /\ PlainInv' /\ MailInv(mail)'
<1> DEFINE op == Instr(p).op
           parts == DivisionShares(p, X(p), Instr(p).c)
           quotient == Result("a", <<parts[1], got[p][1]>>)
           error == Result("a", <<parts[2], got[p][2]>>)
<1>1. PICK k \in Nat : k = pc[p]
  BY DEF Types
<1>2. /\ Running(p) /\ op = "div_const_a" /\ calls[p] = 2 /\ Returned(p)
      /\ Return(p, <<quotient, error>>, <<Unknown, Unknown>>)
  BY DEF DivisionReturn, At, Running
<1>3. program[k].op = op
  BY <1>1 DEF Instr
<1>4. /\ op \notin ShareOps /\ op \notin LocalOps /\ op \notin OpenOps
      /\ op \notin MultiplyOps /\ op # "b2a_bit" /\ Exchanges(op) = 2
      /\ op \notin {"secret_share_a", "secret_share_b"} /\ Kind(op) = "a"
  BY <1>2 DEF LocalOps, UnaryOps, BinaryOps, ShareOps, MultiplyOps, OpenOps, Exchanges, Kind
<1>5. Finished(p)
  BY <1>1, <1>2, <1>4, AllExchanged
<1>6. \A j : Message(p, Succ(p), j) = parts[j + 1]
  BY <1>2 DEF Message, MultiplyOps, OpenOps, ShareOps
<1>7. /\ quotient \in Registers /\ quotient.kind = "a"
      /\ \A r : regs'[p][r] = quotient => Exchanged(mail, p, r, k, 0)'
  <2>1. Message(p, Succ(p), 0) = parts[1]
    BY <1>6
  <2>2. 0 \in 0 .. 2 /\ 0 < Exchanges(op)
    BY <1>4
  <2>3. parts[1] \in WordSet /\ got[p][1] \in WordSet
    <3>1. Message(p, Succ(p), 0) \in WordSet /\ got[p][0 + 1] \in WordSet
      BY <1>1, <1>2, <1>4, <2>2, AllExchanged
    <3> QED
      BY <2>1, <3>1
  <2>4. /\ quotient \in Registers /\ quotient.kind = "a"
        /\ quotient.shares[1] = Message(p, Succ(p), 0) /\ quotient.shares[2] = got[p][0 + 1]
    BY <2>1, <2>3, ResultOfTwo
  <2> HIDE DEF quotient
  <2>5. ASSUME NEW r, regs'[p][r] = quotient
        PROVE  Exchanged(mail, p, r, k, 0)'
    BY <1>1, <1>2, <1>4, <2>2, <2>4, <2>5, ExchangedResult
  <2> QED
    BY <2>4, <2>5
<1>8. /\ error \in Registers /\ error.kind = "a"
      /\ \A r : regs'[p][r] = error => Exchanged(mail, p, r, k, 1)'
  <2>1. Message(p, Succ(p), 1) = parts[2]
    BY <1>6
  <2>2. 1 \in 0 .. 2 /\ 1 < Exchanges(op)
    BY <1>4
  <2>3. parts[2] \in WordSet /\ got[p][2] \in WordSet
    <3>1. Message(p, Succ(p), 1) \in WordSet /\ got[p][1 + 1] \in WordSet
      BY <1>1, <1>2, <1>4, <2>2, AllExchanged
    <3> QED
      BY <2>1, <3>1
  <2>4. /\ error \in Registers /\ error.kind = "a"
        /\ error.shares[1] = Message(p, Succ(p), 1) /\ error.shares[2] = got[p][1 + 1]
    BY <2>1, <2>3, ResultOfTwo
  <2> HIDE DEF error
  <2>5. ASSUME NEW r, regs'[p][r] = error
        PROVE  Exchanged(mail, p, r, k, 1)'
    BY <1>1, <1>2, <1>4, <2>2, <2>4, <2>5, ExchangedResult
  <2> QED
    BY <2>4, <2>5
<1>9. Values(<<Unknown, Unknown>>, 2)
  BY DEF Values
<1> HIDE DEF op, quotient, error, parts
<1>10. /\ program' = program /\ regs'[p][k] = quotient /\ regs'[p][k + 1] = error
       /\ <<quotient, error>> \in Seq(Registers) /\ Len(<<quotient, error>>) = 2
  BY <1>1, <1>2, <1>7, <1>8, ReturnsTwo
<1>11. ResultInv(mail, p, k)'
  <2>1. regs'[p][k].kind = ResultKind(op) /\ regs'[p][k + 1].kind = "a"
    BY <1>4, <1>7, <1>8, <1>10 DEF ResultKind
  <2>2. Exchanged(mail, p, k, k, 0)'
    BY <1>7, <1>10
  <2>3. Exchanged(mail, p, k + 1, k, 1)'
    BY <1>8, <1>10
  <2> QED
    BY <1>2, <1>3, <1>4, <1>10, <2>1, <2>2, <2>3 DEF ResultInv
<1>12. 2 \in {1, 2} /\ (2 = 2 <=> op = "div_const_a")
  BY <1>2
<1> QED
  BY <1>1, <1>2, <1>5, <1>9, <1>10, <1>11, <1>12, ReturnStep DEF op

\* The party the shares come from has made them.
LEMMA DealerIsAhead ==
  ASSUME Types, PlainInv, NEW mail, MailInv(mail), NEW p \in Parties, Running(p),
         Instr(p).op \in ShareOps, ~Dealer(p), Len(got[p]) = 2
  PROVE  Len(plain) > Len(regs[p])
<1>1. /\ pc[p] \in Nat /\ pc[p] \in 2 .. Len(program) /\ pc[p] \in 1 .. Len(program)
      /\ program \in Programs /\ Len(program) \in Nat
      /\ \A r \in Parties : CountInv(r) /\ ResultsInv(mail, r)
      /\ \A a, b \in Parties : LinkInv(mail, a, b)
  BY Ranges DEF MailInv
<1>2. PICK d \in Parties : d = program[pc[p]].party
  BY <1>1, Instructions DEF Instr
<1>3. /\ d = Source(pc[p], p) /\ Heard(pc[p], p) = 2 /\ d # p /\ TakenOn(d, p) = 2
  BY <1>1, <1>2 DEF Source, Heard, Instr, Dealer, TakenOn, Running
<1>4. 4 * pc[p] + 0 < SendPos(d, p)
  <2>1. 0 \in 0 .. 2 /\ 0 < Heard(pc[p], p) /\ 0 < TakenOn(d, p)
    BY <1>3
  <2> QED
    BY <1>1, <1>3, <2>1, HeardIsSent
<1>5. pc[d] \in Nat /\ pc[d] <= Len(program) + 1 /\ SentOn(d, p) \in 0 .. 3
  BY <1>1, Ranges, AtMostThree
<1>6. pc[d] > pc[p] \/ (pc[d] = pc[p] /\ 0 < SentOn(d, p))
  <2>1. \A a, b \in Nat, t \in 0 .. 3 : 4 * a + 0 < 4 * b + t => b > a \/ (b = a /\ 0 < t)
    OBVIOUS
  <2>2. 4 * pc[p] + 0 < 4 * pc[d] + SentOn(d, p)
    BY <1>4 DEF SendPos
  <2> QED
    BY <1>1, <1>5, <2>1, <2>2
<1>7. Len(regs[d]) \in {pc[d] - 1, pc[d]}
  BY <1>1 DEF ResultsInv
<1>8. Reached(d) >= pc[p]
  <2>1. CASE pc[d] > pc[p]
    <3>1. \/ Reached(d) = Len(regs[d]) + 0
          \/ Reached(d) = Len(regs[d]) + 1
      BY ReachedIs
    <3>2. PICK a \in Nat, b \in Nat : a = pc[d] /\ b = pc[p]
      BY <1>1, <1>5
    <3>3. Len(regs[d]) \in {a - 1, a} /\ a > b
      BY <1>7, <2>1, <3>2
    <3>4. \A n \in {a - 1, a} : n + 0 >= b /\ n + 1 >= b
      BY <3>3
    <3> QED
      BY <3>1, <3>2, <3>3, <3>4
  <2>2. CASE pc[d] = pc[p] /\ 0 < SentOn(d, p)
    <3>1. calls[d] # 0
      BY <1>1, <1>2, <2>2 DEF SentOn, Instr
    <3>2. Running(d) /\ Dealing(d)
      BY <1>1, <1>2, <2>2 DEF Running, Dealing, Dealer, Instr
    <3>3. dealt[d] # <<>>
      BY <1>1, <3>1, <3>2 DEF CountInv
    <3>4. Reached(d) = Len(regs[d]) + 1
      BY <3>3, ReachedIs
    <3> QED
      BY <1>1, <1>5, <1>7, <2>2, <3>4
  <2> QED
    BY <1>6, <2>1, <2>2
<1>9. Reached(d) <= Len(plain) /\ Len(plain) \in Nat
  BY DEF PlainInv, Types
<1>10. Len(regs[p]) = pc[p] - 1
  BY OperandShares
<1>11. Reached(d) \in Int
  <2>1. Reached(d) = Len(regs[d]) + 0 \/ Reached(d) = Len(regs[d]) + 1
    BY ReachedIs
  <2> QED
    BY <1>5, <1>7, <2>1
<1> QED
  BY <1>1, <1>8, <1>9, <1>10, <1>11

LEMMA ReceiveReturns ==
  ASSUME Types, FirstInv, PlainInv, NEW mail, MailInv(mail), NEW p \in Parties,
         ReceiveReturn(p)
  PROVE  Types' /\ FirstInv' /\ PlainInv' /\ MailInv(mail)'
<1> DEFINE op == Instr(p).op
           result == Result(Kind(op), got[p])
<1>1. PICK k \in Nat : k = pc[p]
  BY DEF Types
<1>2. /\ Running(p) /\ op \in ShareOps /\ calls[p] = 2 /\ Returned(p) /\ ~Dealer(p)
      /\ Return(p, <<result>>, <<>>)
  BY DEF ReceiveReturn, At, Running
<1>3. /\ program[k].op = op /\ program \in Programs /\ k \in 1 .. Len(program)
      /\ CountInv(p) /\ GotInv(mail, p) /\ got[p] \in Seq(WordSet)
  BY <1>1, <1>2, Ranges DEF Instr, MailInv
<1>4. /\ op \notin MultiplyOps /\ op \notin LocalOps /\ op \notin OpenOps
      /\ op # "div_const_a" /\ op # "b2a_bit"
  BY <1>2 DEF LocalOps, UnaryOps, BinaryOps, ShareOps, MultiplyOps, OpenOps
<1>5. PICK d \in Parties : d = program[k].party
  BY <1>2, <1>3, Instructions
<1>6. /\ d # p /\ \A r : Source(k, r) = d
      /\ \A r : Heard(k, r) = IF r = d THEN 0 ELSE 2
  BY <1>1, <1>2, <1>3, <1>5 DEF Dealer, Source, Heard, Instr
<1>7. Len(got[p]) = 2
  BY <1>1, <1>2, <1>3 DEF CountInv, Returned, Dealing
<1>8. Finished(p)
  <2>1. HeardAll(p)
    BY <1>1, <1>6, <1>7 DEF HeardAll
  <2>2. \A q \in Parties : SentAll(p, q)
    BY <1>1, <1>6 DEF SentAll
  <2> QED
    BY <2>1, <2>2 DEF Finished
<1>9. Len(plain) > Len(regs[p])
  BY <1>2, <1>7, DealerIsAhead
<1>10. PICK u \in WordSet, v \in WordSet : u = got[p][1] /\ v = got[p][2]
  <2>1. got[p][1] \in WordSet /\ got[p][2] \in WordSet
    BY <1>3, <1>7
  <2> QED
    BY <2>1
<1>11. /\ result \in Registers /\ result.kind = Kind(op)
       /\ result.shares[1] = u /\ result.shares[2] = v
  <2>1. got[p] = <<u, v>>
    BY <1>3, <1>7, <1>10
  <2>2. got[p] \in Sharings
    BY <2>1, PairIsSharing
  <2>3. result.shares = got[p] /\ result \in Registers /\ result.kind = Kind(op)
    BY <2>2, KindIsShared, ResultIsRegister
  <2> HIDE DEF result
  <2> QED
    BY <1>10, <2>3
<1>12. mail[<<d, p>>][4 * k] = u /\ mail[<<d, p>>][4 * k + 1] = v
  <2>1. /\ got[p][1] = mail[<<Source(k, p), p>>][4 * k + (1 - 1)]
        /\ got[p][2] = mail[<<Source(k, p), p>>][4 * k + (2 - 1)]
    <3>1. 1 \in 1 .. Len(got[p]) /\ 2 \in 1 .. Len(got[p])
      BY <1>7
    <3> QED
      BY <1>1, <1>2, <1>3, <3>1 DEF GotInv
  <2>2. 4 * k + (1 - 1) = 4 * k /\ 4 * k + (2 - 1) = 4 * k + 1
    BY <1>1
  <2> QED
    BY <1>6, <1>10, <2>1, <2>2
<1> HIDE DEF op, result
<1>13. /\ program' = program /\ regs'[p][k] = result
       /\ <<result>> \in Seq(Registers) /\ Len(<<result>>) = 1
  BY <1>1, <1>2, <1>11, ReturnsOne
<1>14. ResultInv(mail, p, k)'
  <2>1. regs'[p][k].kind = ResultKind(op)
    BY <1>4, <1>11, <1>13 DEF ResultKind
  <2>2. ShareInv(mail, p, k)'
    BY <1>5, <1>6, <1>11, <1>12, <1>13 DEF ShareInv
  <2> QED
    BY <1>3, <1>4, <1>13, <2>1, <2>2 DEF ResultInv
<1>15. 1 \in {1, 2} /\ (1 = 2 <=> op = "div_const_a")
  BY <1>4
<1> QED
  BY <1>1, <1>2, <1>8, <1>9, <1>13, <1>14, <1>15, ReturnStep DEF op

LEMMA DealReturns ==
  ASSUME Types, FirstInv, PlainInv, NEW mail, MailInv(mail), NEW p \in Parties,
         DealReturn(p)
  PROVE  Types' /\ FirstInv' /\ PlainInv' /\ MailInv(mail)'
<1> DEFINE op == Instr(p).op
           result == Result(Kind(op), dealt[p][1])
<1>1. PICK k \in Nat : k = pc[p]
  BY DEF Types
<1>2. /\ Running(p) /\ op \in ShareOps /\ calls[p] = 4 /\ Returned(p) /\ dealt[p] # <<>>
      /\ Return(p, <<result>>, <<>>)
  BY DEF DealReturn, At, Running
<1>3. /\ program[k].op = op /\ program \in Programs /\ k \in 1 .. Len(program)
      /\ CountInv(p) /\ SentInv(mail, p) /\ Len(got[p]) \in Nat
  BY <1>1, <1>2, Ranges DEF Instr, MailInv
<1>4. /\ op \notin MultiplyOps /\ op \notin LocalOps /\ op \notin OpenOps
      /\ op # "div_const_a" /\ op # "b2a_bit"
  BY <1>2 DEF LocalOps, UnaryOps, BinaryOps, ShareOps, MultiplyOps, OpenOps
<1>5. program[k].party = p
  BY <1>1, <1>2, <1>3 DEF CountInv, Dealing, Dealer, Instr
<1>6. /\ \A r : Source(k, r) = p
      /\ \A r : Heard(k, r) = IF r = p THEN 0 ELSE 2
  BY <1>1, <1>2, <1>3, <1>5 DEF Source, Heard, Instr
<1>7. PICK s \in Parties, t \in Parties :
        /\ s = Succ(p) /\ t = Pred(p) /\ s # p /\ t # p /\ s # t
        /\ \A r \in Parties : r \in {p, s, t}
  BY Around
<1>8. SentOn(p, s) = 2 /\ SentOn(p, t) = 2 /\ SentOn(p, p) = 0
  BY <1>1, <1>2, <1>6, <1>7 DEF SentOn, Running, Instr
<1>9. Finished(p)
  <2>1. HeardAll(p)
    BY <1>1, <1>3, <1>6 DEF HeardAll
  <2>2. \A q \in Parties : SentAll(p, q)
    BY <1>1, <1>6, <1>7, <1>8 DEF SentAll
  <2> QED
    BY <2>1, <2>2 DEF Finished
<1>10. Len(plain) > Len(regs[p])
  <2>1. Reached(p) = Len(regs[p]) + 1
    BY <1>2, ReachedIs
  <2>2. Reached(p) <= Len(plain) /\ Len(plain) \in Nat /\ Len(regs[p]) \in Nat
    BY DEF PlainInv, Types
  <2> QED
    BY <2>1, <2>2
<1>11. PICK deal \in Deals : deal = dealt[p]
  BY <1>2 DEF Types
<1>12. /\ result \in Registers /\ result.kind = Kind(op)
       /\ result.shares[1] = deal[2][2] /\ result.shares[2] = deal[3][1]
  <2>1. deal[1] \in Sharings /\ deal[1][1] = deal[2][2] /\ deal[1][2] = deal[3][1]
    BY DealWords
  <2>2. result.shares = deal[1] /\ result \in Registers /\ result.kind = Kind(op)
    BY <1>11, <2>1, KindIsShared, ResultIsRegister
  <2> HIDE DEF result
  <2> QED
    BY <2>1, <2>2
<1>13. mail[<<p, s>>][4 * k + 1] = deal[2][2] /\ mail[<<p, t>>][4 * k] = deal[3][1]
  <2>1. /\ mail[<<p, s>>][4 * k + 1] = Message(p, s, 1)
        /\ mail[<<p, t>>][4 * k + 0] = Message(p, t, 0)
    <3>1. 1 \in 0 .. 2 /\ 0 \in 0 .. 2
      OBVIOUS
    <3> QED
      BY <1>1, <1>2, <1>3, <1>8, <3>1 DEF SentInv
  <2>2. Message(p, s, 1) = deal[2][1 + 1] /\ Message(p, t, 0) = deal[3][0 + 1]
    BY <1>2, <1>7, <1>11 DEF Message, MultiplyOps, OpenOps, ShareOps
  <2>3. 4 * k + 0 = 4 * k
    BY <1>1
  <2> QED
    BY <2>1, <2>2, <2>3
<1> HIDE DEF op, result
<1>14. /\ program' = program /\ regs'[p][k] = result
       /\ <<result>> \in Seq(Registers) /\ Len(<<result>>) = 1
  BY <1>1, <1>2, <1>12, ReturnsOne
<1>15. ResultInv(mail, p, k)'
  <2>1. regs'[p][k].kind = ResultKind(op)
    BY <1>4, <1>12, <1>14 DEF ResultKind
  <2>2. Succ(p)' = s /\ Pred(p)' = t
    BY <1>7 DEF Succ, Pred, Relative
  <2>3. ShareInv(mail, p, k)'
    BY <1>5, <1>12, <1>13, <1>14, <2>2 DEF ShareInv
  <2> QED
    BY <1>3, <1>4, <1>14, <2>1, <2>3 DEF ResultInv
<1>16. 1 \in {1, 2} /\ (1 = 2 <=> op = "div_const_a")
  BY <1>4
<1> QED
  BY <1>1, <1>2, <1>9, <1>10, <1>14, <1>15, <1>16, ReturnStep DEF op

-----------------------------------------------------------------------------
(* The invariant holds at first and is kept.                               *)

\* Where the shares a party gets at first stand among those that were dealt.
LEMMA FirstPlaces ==
  ASSUME NEW d \in Parties, NEW p \in Parties
  PROVE  /\ Relative(p, -d) \in 0 .. 2
         /\ Relative(Succ(p), -d) = IF Relative(p, -d) = 2 THEN 0 ELSE Relative(p, -d) + 1
<1>1. PartiesNum = 3 /\ p \in {0, 1, 2} /\ d \in {0, 1, 2}
  BY Neighbours, ThreePartiesAssumption
<1>2. Succ(p) = IF p = 2 THEN 0 ELSE p + 1
  BY Neighbours
<1> QED
  BY <1>1, <1>2 DEF Relative

LEMMA CarriesNothing ==
  ASSUME NEW m, NEW slots, slots \subseteq Nat, NEW n \in Nat
  PROVE  Carries(<<>>, m, slots, n, n)
<1>1. Pending(slots, n, n) = {}
  <2>1. \A s \in Nat : ~(n <= s /\ s < n)
    OBVIOUS
  <2> QED
    BY <2>1 DEF Pending
<1>2. Lists(<<>>, 0, <<>>, m, {})
  BY DEF Lists
<1>3. InOrder(<<>>, m, {})
  BY <1>2 DEF InOrder
<1> QED
  BY <1>1, <1>3 DEF Carries

\* What the parties are in before any of them does anything.
LEMMA AtFirst ==
  ASSUME Init
  PROVE  /\ Types /\ FirstInv /\ FirstTotal /\ PlainInv /\ Len(plain) = 1
         /\ \A p \in Parties : /\ pc[p] = 2 /\ calls[p] = 0 /\ got[p] = <<>>
                               /\ receiving[p] = NoParty /\ dealt[p] = <<>>
                               /\ Len(regs[p]) = 1 /\ regs[p][1].kind = Kind(program[1].op)
         /\ net = [link \in Links |-> <<>>]
<1>1. program \in Programs
  BY DEF Init
<1>2. PICK data \in Data, shares \in Randoms :
        ProtocolInit(data, get_shares(Kind(program[1].op), data, shares[1], shares[2]))
  BY DEF Init
<1>3. data \in WordSet /\ shares[1] \in WordSet /\ shares[2] \in WordSet
  <2>1. PartiesNum = 3 /\ data \in WordSet /\ shares \in [1 .. PartiesNum - 1 -> WordSet]
    BY ThreePartiesAssumption, ProtocolAssumption
  <2> QED
    BY <2>1
<1>4. PICK deal \in Deals : deal = get_shares(Kind(program[1].op), data, shares[1], shares[2])
  BY <1>3, SharesAreDeals
<1>5. PICK d \in Parties : d = program[1].party
  BY <1>1, Instructions DEF ShareOps
<1>6. PICK kind \in {"a", "b"} : kind = Kind(program[1].op)
  BY KindIsShared
<1> DEFINE first(p) == Result(kind, deal[Relative(p, -d) + 1])
<1>7. /\ NetInit
      /\ pc = [p \in Parties |-> 2] /\ dealt = [p \in Parties |-> <<>>]
      /\ regs = [p \in Parties |-> <<first(p)>>]
      /\ plain = <<data>>
  BY <1>2, <1>4, <1>5, <1>6 DEF ProtocolInit, Result
<1>8. \A p \in Parties : /\ first(p) \in Registers /\ first(p).kind = kind
                         /\ first(p).shares = deal[Relative(p, -d) + 1]
  <2>1. \A i \in 1 .. 3 : deal[i] \in Sharings
    <3>1. PICK a, b, c \in WordSet : deal = <<<<a, c>>, <<b, a>>, <<c, b>>>>
      BY DEF Deals
    <3>2. deal[1] = <<a, c>> /\ deal[2] = <<b, a>> /\ deal[3] = <<c, b>>
      BY <3>1
    <3>3. <<a, c>> \in Sharings /\ <<b, a>> \in Sharings /\ <<c, b>> \in Sharings
      BY PairIsSharing
    <3> QED
      BY <3>2, <3>3
  <2>2. \A p \in Parties : Relative(p, -d) + 1 \in 1 .. 3
    BY FirstPlaces
  <2> QED
    BY <2>1, <2>2, ResultIsRegister
<1> HIDE DEF first
<1>9. \A p \in Parties : regs[p] = <<first(p)>> /\ Len(regs[p]) = 1 /\ regs[p][1] = first(p)
  BY <1>7
<1>10. Types
  <2>1. net \in [Links -> Seq(WordSet)] /\ got \in [Parties -> Seq(WordSet)]
    BY <1>7 DEF NetInit, Links
  <2>2. /\ sending \in [Parties -> Parties \cup {NoParty}]
        /\ receiving \in [Parties -> Parties \cup {NoParty}]
        /\ calls \in [Parties -> Nat]
    BY <1>7 DEF NetInit
  <2>3. pc \in [Parties -> Nat] /\ dealt \in [Parties -> Deals \cup {<<>>}]
    BY <1>7
  <2>4. regs \in [Parties -> Seq(Registers)]
    <3>1. \A p \in Parties : <<first(p)>> \in Seq(Registers)
      BY <1>8
    <3> QED
      BY <1>7, <3>1
  <2>5. plain \in Seq(WordSet \cup {Unknown})
    BY <1>3, <1>7
  <2> QED
    BY <1>1, <2>1, <2>2, <2>3, <2>4, <2>5 DEF Types
<1>11. FirstInv
  <2>1. ASSUME NEW p \in Parties
        PROVE  regs[Succ(p)][1].shares[2] = regs[p][1].shares[1]
    <3>1. PICK i \in 0 .. 2 : i = Relative(p, -d)
      BY FirstPlaces
    <3>2. Relative(Succ(p), -d) = IF i = 2 THEN 0 ELSE i + 1
      BY <3>1, FirstPlaces
    <3>3. /\ regs[p][1].shares = deal[i + 1]
          /\ regs[Succ(p)][1].shares = deal[(IF i = 2 THEN 0 ELSE i + 1) + 1]
      BY <1>8, <1>9, <3>1, <3>2, Around
    <3>4. deal[1][1] = deal[2][2] /\ deal[1][2] = deal[3][1] /\ deal[2][1] = deal[3][2]
      BY DealWords
    <3>5. CASE i = 0
      BY <3>3, <3>4, <3>5
    <3>6. CASE i = 1
      BY <3>3, <3>4, <3>6
    <3>7. CASE i = 2
      BY <3>3, <3>4, <3>7
    <3> QED
      BY <3>5, <3>6, <3>7
  <2> QED
    BY <2>1 DEF FirstInv
<1>12. PlainInv
  <2>1. Len(plain) = 1 /\ plain[1] \in WordSet
    BY <1>3, <1>7
  <2>2. \A p \in Parties : Reached(p) = 1
    BY <1>7, <1>9 DEF Reached
  <2>3. 0 \in Parties
    BY Neighbours
  <2>4. \A k \in DOMAIN plain : k = 1
    BY <1>7
  <2>5. \A p \in Parties : dealt[p] = <<>>
    BY <1>7
  <2> QED
    BY <2>1, <2>2, <2>3, <2>4, <2>5 DEF PlainInv
<1>13. FirstTotal
  <2>1. \A p \in Parties : regs[p][1].shares[1] = deal[Relative(p, -d) + 1][1]
    BY <1>8, <1>9
  <2>2. /\ deal[1][1] = shares[1] /\ deal[2][1] = shares[2]
        /\ deal[3][1] = Minus(kind, Minus(kind, data, shares[1]), shares[2])
    BY <1>4, <1>6 DEF get_shares
  <2>3. Total(kind, deal[1][1], deal[3][1], deal[2][1]) = data
    BY <1>3, <2>2, DealAddsUp
  <2>4. PICK a \in WordSet, b \in WordSet, c \in WordSet :
          a = deal[1][1] /\ b = deal[2][1] /\ c = deal[3][1]
    BY DealWords
  <2>5. /\ Total(kind, a, b, c) = data /\ Total(kind, c, a, b) = data
        /\ Total(kind, b, c, a) = data
    BY <2>3, <2>4, TotalTurns
  <2>6. d \in {0, 1, 2} /\ PartiesNum = 3 /\ Parties = {0, 1, 2}
    BY Neighbours, ThreePartiesAssumption
  <2>7. /\ d = 0 => Relative(0, -d) = 0 /\ Relative(1, -d) = 1 /\ Relative(2, -d) = 2
        /\ d = 1 => Relative(0, -d) = 2 /\ Relative(1, -d) = 0 /\ Relative(2, -d) = 1
        /\ d = 2 => Relative(0, -d) = 1 /\ Relative(1, -d) = 2 /\ Relative(2, -d) = 0
    BY <2>6 DEF Relative
  <2>8. Total(kind, regs[0][1].shares[1], regs[1][1].shares[1], regs[2][1].shares[1]) = data
    <3>1. CASE d = 0
      BY <2>1, <2>4, <2>5, <2>6, <2>7, <3>1
    <3>2. CASE d = 1
      BY <2>1, <2>4, <2>5, <2>6, <2>7, <3>2
    <3>3. CASE d = 2
      BY <2>1, <2>4, <2>5, <2>6, <2>7, <3>3
    <3> QED
      BY <2>6, <3>1, <3>2, <3>3
  <2> QED
    BY <1>6, <1>7, <2>8 DEF FirstTotal
<1>14. Len(plain) = 1
  BY <1>7
<1> QED
  BY <1>6, <1>7, <1>8, <1>9, <1>10, <1>11, <1>12, <1>13, <1>14 DEF NetInit, Links

LEMMA Beginning == Init => IInv
<1> SUFFICES ASSUME Init PROVE IInv
  OBVIOUS
<1>1. /\ Types /\ FirstInv /\ PlainInv
      /\ \A p \in Parties : /\ pc[p] = 2 /\ calls[p] = 0 /\ got[p] = <<>>
                            /\ receiving[p] = NoParty /\ dealt[p] = <<>>
                            /\ Len(regs[p]) = 1 /\ regs[p][1].kind = Kind(program[1].op)
      /\ net = [link \in Links |-> <<>>]
  BY AtFirst
<1>2. /\ program \in Programs /\ Len(program) \in Nat \ {0}
      /\ program[1].op \in {"secret_share_a", "secret_share_b"}
  BY <1>1, Instructions DEF Types
<1>3. PICK mail \in [Links -> [Nat -> WordSet]] : TRUE
  <2>1. [link \in Links |-> [n \in Nat |-> 0]] \in [Links -> [Nat -> WordSet]]
    BY Closure
  <2> QED
    BY <2>1
<1>4. ASSUME NEW p \in Parties, NEW q \in Parties
      PROVE  SendPos(p, q) = 8 /\ TakePos(p, q) = 8
  <2>1. SentOn(p, q) = 0
    BY <1>1 DEF SentOn
  <2>2. TakenOn(p, q) = 0
    BY <1>1 DEF TakenOn
  <2> QED
    BY <1>1, <2>1, <2>2 DEF SendPos, TakePos
<1>5. \A p, q \in Parties : LinkInv(mail, p, q)
  <2>1. ASSUME NEW p \in Parties, NEW q \in Parties
        PROVE  LinkInv(mail, p, q)
    <3>1. net[<<p, q>>] = <<>>
      BY <1>1 DEF Links
    <3>2. Slots(p, q) \subseteq Nat
      BY DEF Slots
    <3> QED
      BY <1>4, <3>1, <3>2, CarriesNothing DEF LinkInv
  <2> QED
    BY <2>1
<1>6. ASSUME NEW p \in Parties
      PROVE  CountInv(p) /\ GotInv(mail, p) /\ SentInv(mail, p) /\ ResultsInv(mail, p)
  <2>1. CountInv(p)
    <3>1. pc[p] \in 2 .. Len(program) + 1
      BY <1>1, <1>2
    <3>2. Running(p) => Heard(pc[p], p) \in 0 .. 3
      <4>1. Running(p) => 2 \in 1 .. Len(program)
        BY <1>1, <1>2 DEF Running
      <4> QED
        BY <1>1, <1>2, <4>1, Sources
    <3> QED
      BY <1>1, <3>1, <3>2 DEF CountInv
  <2>2. GotInv(mail, p)
    BY <1>1 DEF GotInv
  <2>3. SentInv(mail, p)
    <3>1. \A q \in Parties : SentOn(p, q) = 0
      BY <1>1 DEF SentOn
    <3> QED
      BY <3>1 DEF SentInv
  <2>4. ResultsInv(mail, p)
    <3>1. ~Divided(p)
      <4>1. SUFFICES ASSUME pc[p] > Len(program), program[Len(program)].op = "div_const_a"
                     PROVE  FALSE
        BY DEF Divided
      <4>2. Len(program) = 1
        BY <1>1, <1>2, <4>1
      <4> QED
        BY <1>2, <4>1, <4>2
    <3>2. pc[p] - 1 = 1 /\ 2 .. pc[p] - 1 = {} /\ Len(regs[p]) = 1
      BY <1>1
    <3> QED
      BY <1>1, <3>1, <3>2 DEF ResultsInv
  <2> QED
    BY <2>1, <2>2, <2>3, <2>4
<1>7. DealtInv(mail)
  <2>1. SUFFICES ASSUME NEW k \in 2 .. Len(program), program[k].op \in ShareOps,
                        4 * k < SendPos(program[k].party, Succ(program[k].party))
                 PROVE  FALSE
    BY DEF DealtInv
  <2>2. k \in 1 .. Len(program)
    BY <1>2
  <2>3. PICK d \in Parties : d = program[k].party
    BY <1>2, <2>1, <2>2, Instructions
  <2>4. SendPos(d, Succ(d)) = 8
    BY <1>4, Around
  <2> QED
    BY <2>1, <2>3, <2>4
<1> QED
  BY <1>1, <1>3, <1>5, <1>6, <1>7 DEF IInv, MailInv

\* A step of an operation that leaves the results alone.
LEMMA StepBetween ==
  ASSUME IInv, Types', \E m : MailInv(m)', UNCHANGED <<program, pc, regs, dealt, plain>>
  PROVE  IInv'
<1>1. FirstInv' /\ PlainInv'
  BY SameRegisters DEF IInv
<1> QED
  BY <1>1 DEF IInv

\* An operation of party p.
LEMMA OperationStep ==
  ASSUME IInv, NEW p \in Parties, Operation(p)
  PROVE  IInv'
<1>1. Types /\ FirstInv /\ PlainInv
  BY DEF IInv
<1>2. PICK mail : MailInv(mail)
  BY DEF IInv
<1> DEFINE Step == Types' /\ FirstInv' /\ PlainInv' /\ MailInv(mail)'
<1>3. CASE Local(p)
  <2>1. Step
    BY <1>1, <1>2, <1>3, LocalReturns
  <2> QED
    BY <2>1 DEF IInv
<1>4. CASE MultiplySend(p) \/ OpenSend(p) \/ DivisionSend(p) \/ B2ASend(p)
  BY <1>1, <1>2, <1>4, OperationExchanges, StepBetween
<1>5. CASE MultiplyReturn(p)
  <2>1. Step
    BY <1>1, <1>2, <1>5, MultiplyReturns
  <2> QED
    BY <2>1 DEF IInv
<1>6. CASE OpenReturn(p)
  <2>1. Step
    BY <1>1, <1>2, <1>6, OpenReturns
  <2> QED
    BY <2>1 DEF IInv
<1>7. CASE DivisionReturn(p)
  <2>1. Step
    BY <1>1, <1>2, <1>7, DivisionReturns
  <2> QED
    BY <2>1 DEF IInv
<1>8. CASE B2AReturn(p)
  <2>1. Step
    BY <1>1, <1>2, <1>8, B2AReturns
  <2> QED
    BY <2>1 DEF IInv
<1>9. CASE DealShares(p)
  <2>1. Step
    BY <1>1, <1>2, <1>9, MakesShares
  <2> QED
    BY <2>1 DEF IInv
<1>10. CASE DealSend(p)
  BY <1>1, <1>2, <1>10, SendsShares, StepBetween
<1>11. CASE DealReturn(p)
  <2>1. Step
    BY <1>1, <1>2, <1>11, DealReturns
  <2> QED
    BY <2>1 DEF IInv
<1>12. CASE ReceiveShares(p)
  <2>1. /\ Types' /\ MailInv(mail)'
        /\ UNCHANGED <<program, pc, regs, dealt, plain>>
    BY <1>1, <1>2, <1>12, ReceivesShares
  <2> QED
    BY <2>1, StepBetween
<1>13. CASE ReceiveReturn(p)
  <2>1. Step
    BY <1>1, <1>2, <1>13, ReceiveReturns
  <2> QED
    BY <2>1 DEF IInv
<1>14. \/ Local(p)
       \/ MultiplySend(p) \/ OpenSend(p) \/ DivisionSend(p) \/ B2ASend(p)
       \/ MultiplyReturn(p) \/ OpenReturn(p) \/ DivisionReturn(p) \/ B2AReturn(p)
       \/ DealShares(p) \/ DealSend(p) \/ DealReturn(p)
       \/ ReceiveShares(p) \/ ReceiveReturn(p)
  BY DEF Operation
<1> QED
  BY <1>3, <1>4, <1>5, <1>6, <1>7, <1>8, <1>9, <1>10, <1>11, <1>12, <1>13, <1>14

\* MPI completes a request of party p.
LEMMA TransportStep ==
  ASSUME IInv, NEW p \in Parties, MPI(p)
  PROVE  IInv'
<1>1. Types
  BY DEF IInv
<1>2. PICK mail : MailInv(mail)
  BY DEF IInv
<1>3. InCall /\ (Receive(p) \/ SendDone(p))
  BY DEF MPI, Transport, Deliver, SendMatched, SendBuffered
<1>4. UNCHANGED <<program, pc, regs, dealt, plain>>
  BY <1>3 DEF InCall
<1>5. Types' /\ MailInv(mail)'
  <2>1. CASE Receive(p)
    BY <1>1, <1>2, <1>3, <2>1, HearStep
  <2>2. CASE SendDone(p)
    BY <1>1, <1>2, <1>3, <2>2, SendReturns
  <2> QED
    BY <1>3, <2>1, <2>2
<1> QED
  BY <1>4, <1>5, StepBetween

\* A stuttering step.
LEMMA NoStep ==
  ASSUME IInv, UNCHANGED vars
  PROVE  IInv'
<1>1. /\ UNCHANGED <<net, sending, receiving, calls, got, program, pc, regs, dealt, plain>>
  BY DEF vars, protocolVars, netVars
<1>2. Types
  BY DEF IInv
<1>3. PICK mail : MailInv(mail)
  BY DEF IInv
<1>4. 0 \in Parties
  BY Neighbours
<1>5. Types'
  BY <1>1, <1>2 DEF Types, Links, Parties
<1>6. MailInv(mail)'
  <2>1. OnlyBy(0)
    BY <1>1 DEF OnlyBy, Still
  <2>2. CountInv(0) /\ SentInv(mail, 0) /\ Still(0) /\ program' = program
    BY <1>1, <1>3, <1>4 DEF MailInv, Still
  <2>3. CountInv(0)'
    BY <2>2, SameCount
  <2>4. SentInv(mail, 0)'
    BY <2>2, SameSent
  <2>5. \A q \in Parties : SentOn(0, q)' = SentOn(0, q)
    BY <1>1, SameSentOn
  <2> QED
    BY <1>1, <1>2, <1>3, <1>4, <2>1, <2>3, <2>4, <2>5, QuietStep
<1> QED
  BY <1>1, <1>5, <1>6, StepBetween

\* Every state has mail its parties' results, calls and links agree with.
THEOREM Invariance == Spec => []IInv
<1>1. IInv /\ [Next]_vars => IInv'
  <2> SUFFICES ASSUME IInv, [Next]_vars PROVE IInv'
    OBVIOUS
  <2>1. CASE Next
    <3>1. PICK p \in Parties : Operation(p) \/ MPI(p)
      BY <2>1 DEF Next
    <3> QED
      BY <3>1, OperationStep, TransportStep
  <2>2. CASE UNCHANGED vars
    BY <2>2, NoStep
  <2> QED
    BY <2>1, <2>2
<1> QED
  BY Beginning, <1>1, PTL DEF Spec

-----------------------------------------------------------------------------
(* The plaintexts are what the operations promise for those before them.   *)

\* What redistribute_shares_b of party d shares of its register x.
Redistributed(d, x) ==
  LET shares == regs[d][x].shares IN IF d = 0 THEN Wrap(shares[1] + shares[2]) ELSE shares[1]

\* Word v is the plaintext of instruction k's result.
Promised(k, v) ==
  LET instr == program[k]
      u == plain[instr.x]
      w == plain[instr.y]
  IN  /\ instr.op \in LocalOps =>
           v = LocalShare(instr.op, u, IF instr.op \in BinaryOps THEN w ELSE 0)
      /\ instr.op \in MultiplyOps => v = Times(Kind(instr.op), u, w)
      /\ instr.op \in OpenOps => v = u
      /\ instr.op = "b2a_bit" => v = LowBit(u)
      /\ instr.op = "redistribute_shares_b" =>
           /\ instr.x \in 1 .. Len(regs[instr.party])
           /\ v = Redistributed(instr.party, instr.x)
      /\ instr.op = "div_const_a" => v = Unknown

\* Division has a second result.
PlaintextOf(k, v) == IF k > Len(program) THEN v = Unknown ELSE Promised(k, v)

PromiseInv == FirstTotal /\ \A k \in 2 .. Len(plain) : PlaintextOf(k, plain[k])

LEMMA PlaintextKept ==
  ASSUME program \in Programs, program' = program, NEW k \in Nat, k >= 2,
         \A i \in 1 .. k - 1 : plain'[i] = plain[i],
         \A r \in Parties : /\ Len(regs[r]) \in Nat /\ Len(regs'[r]) \in Nat
                            /\ Len(regs[r]) <= Len(regs'[r])
                            /\ \A i \in 1 .. Len(regs[r]) : regs'[r][i] = regs[r][i],
         NEW v, PlaintextOf(k, v)
  PROVE  PlaintextOf(k, v)'
<1>1. CASE k > Len(program)
  BY <1>1 DEF PlaintextOf
<1>2. CASE ~(k > Len(program))
  <2> DEFINE op == program[k].op
             x == program[k].x
             y == program[k].y
             d == program[k].party
  <2>1. /\ k \in 1 .. Len(program) /\ op \in Operations
        /\ op \in ShareOps => d \in Parties
        /\ op \notin {"secret_share_a", "secret_share_b"} => x \in 1 .. k - 1
        /\ op \in BinaryOps \cup MultiplyOps => y \in 1 .. k - 1
    BY <1>2, Instructions
  <2>2. Promised(k, v)
    BY <1>2 DEF PlaintextOf
  <2>3. op \notin {"secret_share_a", "secret_share_b"} => plain'[x] = plain[x]
    BY <2>1
  <2>4. op \in BinaryOps \cup MultiplyOps => plain'[y] = plain[y]
    BY <2>1
  <2>5. op = "redistribute_shares_b" =>
          /\ x \in 1 .. Len(regs'[d])
          /\ v = IF d = 0 THEN Wrap(regs'[d][x].shares[1] + regs'[d][x].shares[2])
                          ELSE regs'[d][x].shares[1]
    <3> SUFFICES ASSUME op = "redistribute_shares_b"
                 PROVE  /\ x \in 1 .. Len(regs'[d])
                        /\ v = IF d = 0 THEN Wrap(regs'[d][x].shares[1] + regs'[d][x].shares[2])
                                        ELSE regs'[d][x].shares[1]
      OBVIOUS
    <3>1. d \in Parties
      BY <2>1 DEF ShareOps
    <3>2. x \in 1 .. Len(regs[d]) /\ v = Redistributed(d, x)
      BY <2>2 DEF Promised
    <3>3. x \in 1 .. Len(regs'[d]) /\ regs'[d][x] = regs[d][x]
      BY <3>1, <3>2
    <3>4. v = IF d = 0 THEN Wrap(regs[d][x].shares[1] + regs[d][x].shares[2])
                       ELSE regs[d][x].shares[1]
      BY <3>2, Zenon DEF Redistributed
    <3> HIDE DEF x, d
    <3> QED
      BY <3>3, <3>4
  <2>6. /\ op \in LocalOps \cup MultiplyOps \cup OpenOps \cup {"b2a_bit"} =>
             op \notin {"secret_share_a", "secret_share_b"}
        /\ op \in BinaryOps => op \in BinaryOps \cup MultiplyOps
        /\ op \in MultiplyOps => op \in BinaryOps \cup MultiplyOps
    BY DEF LocalOps, UnaryOps, BinaryOps, MultiplyOps, OpenOps
  <2>7. Promised(k, v)'
    <3>1. /\ op \in LocalOps =>
               v = LocalShare(op, plain'[x], IF op \in BinaryOps THEN plain'[y] ELSE 0)
          /\ op \in MultiplyOps => v = Times(Kind(op), plain'[x], plain'[y])
          /\ op \in OpenOps => v = plain'[x]
          /\ op = "b2a_bit" => v = LowBit(plain'[x])
          /\ op = "div_const_a" => v = Unknown
      BY <2>2, <2>3, <2>4, <2>6 DEF Promised
    <3> QED
      BY <2>5, <3>1 DEF Promised, Redistributed
  <2> QED
    BY <1>2, <2>7 DEF PlaintextOf
<1> QED
  BY <1>1, <1>2

\* Every party has results, and a plaintext is known of them.
LEMMA ResultsAndPlains ==
  ASSUME Types, PlainInv, NEW mail, MailInv(mail)
  PROVE  /\ program \in Programs /\ Len(program) \in Nat
         /\ plain \in Seq(WordSet \cup {Unknown}) /\ Len(plain) \in Nat /\ Len(plain) >= 1
         /\ \A r \in Parties :
              /\ pc[r] \in Nat /\ Len(regs[r]) \in Nat /\ Len(regs[r]) >= 1
              /\ Len(regs[r]) <= Len(plain)
<1>1. /\ program \in Programs /\ plain \in Seq(WordSet \cup {Unknown}) /\ Len(plain) \in Nat
      /\ \A r \in Parties : pc[r] \in Nat /\ regs[r] \in Seq(Registers)
  BY DEF Types
<1>2. ASSUME NEW r \in Parties
      PROVE  Len(regs[r]) \in Nat /\ Len(regs[r]) >= 1 /\ Len(regs[r]) <= Len(plain)
  <2>1. CountInv(r) /\ ResultsInv(mail, r)
    BY DEF MailInv
  <2>2. pc[r] >= 2
    BY <2>1, Ranges
  <2>3. Len(regs[r]) \in Nat
    BY <1>1
  <2>4. Len(regs[r]) \in {pc[r], pc[r] - 1}
    BY <2>1 DEF ResultsInv
  <2>5. Reached(r) = Len(regs[r]) + 0 \/ Reached(r) = Len(regs[r]) + 1
    BY ReachedIs
  <2>6. Reached(r) <= Len(plain)
    BY DEF PlainInv
  <2> QED
    BY <1>1, <2>2, <2>3, <2>4, <2>5, <2>6
<1>3. Len(plain) >= 1
  <2>1. 0 \in Parties
    BY Neighbours
  <2>2. Len(regs[0]) \in Nat /\ Len(regs[0]) >= 1 /\ Len(regs[0]) <= Len(plain)
    BY <1>2, <2>1
  <2> QED
    BY <1>1, <2>2
<1>4. Len(program) \in Nat
  BY <1>1, Instructions
<1> QED
  BY <1>1, <1>2, <1>3, <1>4

\* A step keeps the promises if it keeps the results there are and promises
\* the right plaintexts for new ones.
LEMMA PromisesKept ==
  ASSUME Types, PlainInv, PromiseInv, NEW mail, MailInv(mail), program' = program,
         Len(plain') \in Nat, \A i \in 1 .. Len(plain) : plain'[i] = plain[i],
         \A r \in Parties : /\ Len(regs'[r]) \in Nat /\ Len(regs[r]) <= Len(regs'[r])
                            /\ \A i \in 1 .. Len(regs[r]) : regs'[r][i] = regs[r][i],
         \/ Len(plain') <= Len(plain) + 1
         \/ /\ Len(plain') = Len(plain) + 2 /\ Len(plain) + 1 = Len(program)
            /\ plain'[Len(plain) + 2] = Unknown,
         Len(plain') > Len(plain) => PlaintextOf(Len(plain) + 1, plain'[Len(plain) + 1])
  PROVE  PromiseInv'
<1>1. /\ program \in Programs /\ Len(plain) \in Nat /\ Len(plain) >= 1 /\ Len(program) \in Nat
      /\ \A r \in Parties : Len(regs[r]) \in Nat /\ Len(regs[r]) >= 1
  BY ResultsAndPlains
<1>2. FirstTotal'
  <2>1. \A r \in Parties : regs'[r][1] = regs[r][1]
    BY <1>1
  <2>2. 0 \in Parties /\ 1 \in Parties /\ 2 \in Parties /\ plain'[1] = plain[1]
    BY <1>1, Neighbours
  <2> QED
    BY <2>1, <2>2 DEF FirstTotal, PromiseInv
<1>3. ASSUME NEW k \in 2 .. Len(plain')
      PROVE  PlaintextOf(k, plain[k])'
  <2>1. CASE k <= Len(plain) + 1
    <3>1. PICK v : v = plain'[k]
      OBVIOUS
    <3>2. PlaintextOf(k, v)
      <4>1. CASE k <= Len(plain)
        <5>1. k \in 2 .. Len(plain) /\ k \in 1 .. Len(plain)
          BY <1>1, <4>1
        <5>2. PlaintextOf(k, plain[k])
          BY <5>1 DEF PromiseInv
        <5> QED
          BY <3>1, <5>1, <5>2
      <4>2. CASE ~(k <= Len(plain))
        <5>1. k = Len(plain) + 1 /\ Len(plain') > Len(plain)
          BY <1>1, <2>1, <4>2
        <5> QED
          BY <3>1, <5>1
      <4> QED
        BY <4>1, <4>2
    <3>3. k \in Nat /\ k >= 2 /\ \A i \in 1 .. k - 1 : plain'[i] = plain[i]
      <4>1. \A i \in 1 .. k - 1 : i \in 1 .. Len(plain)
        BY <1>1, <2>1
      <4> QED
        BY <4>1
    <3>4. PlaintextOf(k, v)'
      BY <1>1, <3>2, <3>3, PlaintextKept
    <3> QED
      BY <3>1, <3>4 DEF PlaintextOf, Promised
  <2>2. CASE ~(k <= Len(plain) + 1)
    <3>1. /\ Len(plain') = Len(plain) + 2 /\ Len(plain) + 1 = Len(program)
          /\ plain'[Len(plain) + 2] = Unknown
      BY <1>1, <2>2
    <3>2. k = Len(plain) + 2 /\ k > Len(program)
      BY <1>1, <2>2, <3>1
    <3> QED
      BY <3>1, <3>2 DEF PlaintextOf
  <2> QED
    BY <2>1, <2>2
<1> QED
  BY <1>2, <1>3 DEF PromiseInv

\* An operation that returns promises its plaintexts, unless they are known.
LEMMA ReturnPromises ==
  ASSUME Types, PlainInv, PromiseInv, NEW mail, MailInv(mail), Types', NEW p \in Parties,
         Running(p), NEW results, NEW values \in Seq(WordSet \cup {Unknown}),
         \E R : Registers \subseteq R /\ results \in Seq(R),
         Return(p, results, values),
         Len(values) \in 0 .. 2, Len(values) # 0 => PlaintextOf(pc[p], values[1]),
         Len(values) = 2 => pc[p] = Len(program) /\ values[2] = Unknown
  PROVE  PromiseInv'
<1>1. /\ program' = program
      /\ regs' = [regs EXCEPT ![p] = @ \o results]
      /\ plain' = IF Len(plain) > Len(regs[p]) THEN plain ELSE plain \o values
  BY DEF Return
<1>2. /\ plain \in Seq(WordSet \cup {Unknown}) /\ Len(plain) \in Nat
      /\ Len(regs[p]) \in Nat /\ Len(regs[p]) <= Len(plain)
      /\ Len(regs[p]) = pc[p] - 1 /\ pc[p] \in Nat
      /\ regs \in [Parties -> Seq(Registers)] /\ regs' \in [Parties -> Seq(Registers)]
  BY ResultsAndPlains, OperandShares DEF Types
<1>3. ASSUME NEW r \in Parties
      PROVE  /\ Len(regs'[r]) \in Nat /\ Len(regs[r]) <= Len(regs'[r])
             /\ \A i \in 1 .. Len(regs[r]) : regs'[r][i] = regs[r][i]
  <2>1. CASE r = p
    <3>1. PICK R : Registers \subseteq R /\ results \in Seq(R)
      OBVIOUS
    <3>2. regs'[p] = regs[p] \o results /\ regs[p] \in Seq(R) /\ results \in Seq(R)
      BY <1>1, <1>2, <3>1
    <3>3. \A V : \A s, t \in Seq(V) :
            /\ Len(s \o t) \in Nat /\ Len(s) <= Len(s \o t)
            /\ \A i \in 1 .. Len(s) : (s \o t)[i] = s[i]
      OBVIOUS
    <3> QED
      BY <2>1, <3>2, <3>3
  <2>2. CASE r # p
    BY <1>1, <1>2, <2>2
  <2> QED
    BY <2>1, <2>2
<1>4. CASE Len(plain) > Len(regs[p])
  <2>1. plain' = plain
    BY <1>1, <1>4
  <2>2. /\ Len(plain') \in Nat /\ \A i \in 1 .. Len(plain) : plain'[i] = plain[i]
        /\ Len(plain') <= Len(plain) + 1 /\ ~(Len(plain') > Len(plain))
    BY <1>2, <2>1
  <2> QED
    BY <1>1, <1>3, <2>2, PromisesKept
<1>5. CASE ~(Len(plain) > Len(regs[p]))
  <2>1. Len(plain) + 1 = pc[p] /\ plain' = plain \o values
    BY <1>1, <1>2, <1>5
  <2>2. /\ Len(plain') = Len(plain) + Len(values)
        /\ \A i \in 1 .. Len(plain) : plain'[i] = plain[i]
        /\ \A i \in 1 .. Len(values) : plain'[Len(plain) + i] = values[i]
    BY <1>2, <2>1
  <2>3. Len(plain') > Len(plain) => PlaintextOf(Len(plain) + 1, plain'[Len(plain) + 1])
    <3> SUFFICES ASSUME Len(plain') > Len(plain)
                 PROVE  PlaintextOf(Len(plain) + 1, plain'[Len(plain) + 1])
      OBVIOUS
    <3>1. Len(values) # 0 /\ 1 \in 1 .. Len(values)
      BY <1>2, <2>2
    <3>2. plain'[Len(plain) + 1] = values[1] /\ PlaintextOf(pc[p], values[1])
      BY <2>2, <3>1
    <3> QED
      BY <2>1, <3>2
  <2>4. \/ Len(plain') <= Len(plain) + 1
        \/ /\ Len(plain') = Len(plain) + 2 /\ Len(plain) + 1 = Len(program)
           /\ plain'[Len(plain) + 2] = Unknown
    <3>1. CASE Len(values) = 2
      BY <2>1, <2>2, <3>1
    <3>2. CASE Len(values) # 2
      <4>1. Len(values) \in {0, 1}
        BY <3>2
      <4> QED
        BY <1>2, <2>2, <4>1
    <3> QED
      BY <3>1, <3>2
  <2> QED
    BY <1>1, <1>2, <1>3, <2>2, <2>3, <2>4, PromisesKept
<1> QED
  BY <1>4, <1>5

\* The operations that return one result, whatever it is.
LEMMA OnePromise ==
  ASSUME Types, PlainInv, PromiseInv, NEW mail, MailInv(mail), Types', NEW p \in Parties,
         Running(p), NEW result, NEW v \in WordSet, Return(p, <<result>>, <<v>>),
         Promised(pc[p], v)
  PROVE  PromiseInv'
<1>1. \E R : Registers \subseteq R /\ <<result>> \in Seq(R)
  <2>1. Registers \subseteq Registers \cup {result} /\ <<result>> \in Seq(Registers \cup {result})
    OBVIOUS
  <2> QED
    BY <2>1
<1>2. <<v>> \in Seq(WordSet \cup {Unknown}) /\ Len(<<v>>) = 1 /\ <<v>>[1] = v
  OBVIOUS
<1>3. PlaintextOf(pc[p], v)
  <2>1. ~(pc[p] > Len(program))
    <3>1. CountInv(p)
      BY DEF MailInv
    <3>2. pc[p] \in Nat /\ Len(program) \in Nat
      BY <3>1, Ranges
    <3> QED
      BY <3>2 DEF Running
  <2> QED
    BY <2>1 DEF PlaintextOf
<1>4. PICK results, values : results = <<result>> /\ values = <<v>>
  OBVIOUS
<1>5. /\ values \in Seq(WordSet \cup {Unknown}) /\ Return(p, results, values)
      /\ \E R : Registers \subseteq R /\ results \in Seq(R)
      /\ Len(values) \in 0 .. 2 /\ Len(values) # 2 /\ PlaintextOf(pc[p], values[1])
  BY <1>1, <1>2, <1>3, <1>4
<1> QED
  BY <1>5, ReturnPromises

LEMMA NoPromise ==
  ASSUME Types, PlainInv, PromiseInv, NEW mail, MailInv(mail), Types', NEW p \in Parties,
         Running(p), NEW result, Return(p, <<result>>, <<>>)
  PROVE  PromiseInv'
<1>1. \E R : Registers \subseteq R /\ <<result>> \in Seq(R)
  <2>1. Registers \subseteq Registers \cup {result} /\ <<result>> \in Seq(Registers \cup {result})
    OBVIOUS
  <2> QED
    BY <2>1
<1>2. <<>> \in Seq(WordSet \cup {Unknown}) /\ Len(<<>>) = 0
  OBVIOUS
<1>3. PICK results, values : results = <<result>> /\ values = <<>>
  OBVIOUS
<1>4. /\ values \in Seq(WordSet \cup {Unknown}) /\ Return(p, results, values)
      /\ \E R : Registers \subseteq R /\ results \in Seq(R)
      /\ Len(values) \in 0 .. 2 /\ Len(values) # 2 /\ Len(values) = 0
  BY <1>1, <1>2, <1>3
<1> QED
  BY <1>4, ReturnPromises

LEMMA DivisionPromises ==
  ASSUME Types, PlainInv, PromiseInv, NEW mail, MailInv(mail), Types', NEW p \in Parties,
         DivisionReturn(p)
  PROVE  PromiseInv'
<1>1. /\ Running(p) /\ Instr(p).op = "div_const_a"
      /\ \E a, b : Return(p, <<a, b>>, <<Unknown, Unknown>>)
  BY DEF DivisionReturn, At, Running
<1>2. PICK a, b : Return(p, <<a, b>>, <<Unknown, Unknown>>)
  BY <1>1
<1>3. \E R : Registers \subseteq R /\ <<a, b>> \in Seq(R)
  <2>1. /\ Registers \subseteq Registers \cup {a, b}
        /\ <<a, b>> \in Seq(Registers \cup {a, b})
    OBVIOUS
  <2> QED
    BY <2>1
<1>4. /\ <<Unknown, Unknown>> \in Seq(WordSet \cup {Unknown})
      /\ Len(<<Unknown, Unknown>>) = 2
      /\ <<Unknown, Unknown>>[1] = Unknown /\ <<Unknown, Unknown>>[2] = Unknown
  OBVIOUS
<1>5. pc[p] = Len(program) /\ PlaintextOf(pc[p], Unknown)
  <2>1. CountInv(p)
    BY DEF MailInv
  <2>2. pc[p] \in 1 .. Len(program) /\ program \in Programs /\ Len(program) \in Nat
    BY <1>1, <2>1, Ranges
  <2>3. pc[p] = Len(program)
    BY <1>1, <2>2, Instructions DEF Instr
  <2>4. Promised(pc[p], Unknown)
    BY <1>1 DEF Promised, Instr, LocalOps, UnaryOps, BinaryOps, MultiplyOps, OpenOps
  <2> QED
    BY <2>2, <2>3, <2>4 DEF PlaintextOf
<1>6. PICK results, values : results = <<a, b>> /\ values = <<Unknown, Unknown>>
  OBVIOUS
<1>7. /\ values \in Seq(WordSet \cup {Unknown}) /\ Return(p, results, values)
      /\ \E R : Registers \subseteq R /\ results \in Seq(R)
      /\ Len(values) \in 0 .. 2 /\ PlaintextOf(pc[p], values[1])
      /\ pc[p] = Len(program) /\ values[2] = Unknown
  BY <1>2, <1>3, <1>4, <1>5, <1>6
<1> QED
  BY <1>1, <1>7, ReturnPromises

LEMMA DealPromises ==
  ASSUME Types, PlainInv, PromiseInv, NEW mail, MailInv(mail), NEW p \in Parties,
         DealShares(p)
  PROVE  PromiseInv'
<1>1. /\ Running(p) /\ Dealing(p) /\ Instr(p).op \in ShareOps /\ Dealer(p)
      /\ calls[p] = 0 /\ dealt[p] = <<>>
      /\ UNCHANGED <<program, pc, regs>>
  BY DEF DealShares, At, Running, Dealing
<1>2. PICK data \in SharedData(p) : plain' = Append(plain, data)
  BY DEF DealShares
<1>3. Len(plain) = pc[p] - 1
  BY <1>1, NobodyAhead
<1>4. /\ Len(plain) \in Nat /\ pc[p] \in Nat /\ plain \in Seq(WordSet \cup {Unknown})
      /\ \A r \in Parties : Len(regs[r]) \in Nat
  BY ResultsAndPlains
<1>5. /\ Len(plain') = Len(plain) + 1 /\ plain'[Len(plain) + 1] = data
      /\ \A i \in 1 .. Len(plain) : plain'[i] = plain[i]
  <2>1. \A V : \A s \in Seq(V) : \A e :
          /\ Len(Append(s, e)) = Len(s) + 1 /\ Append(s, e)[Len(s) + 1] = e
          /\ \A i \in 1 .. Len(s) : Append(s, e)[i] = s[i]
    OBVIOUS
  <2> QED
    BY <1>2, <1>4, <2>1
<1>6. PlaintextOf(Len(plain) + 1, data)
  <2>1. Len(plain) + 1 = pc[p] /\ ~(pc[p] > Len(program))
    <3>1. CountInv(p)
      BY DEF MailInv
    <3>2. Len(program) \in Nat
      BY <3>1, Ranges
    <3> QED
      BY <1>1, <1>3, <1>4, <3>2 DEF Running
  <2>2. Promised(pc[p], data)
    <3>1. CASE Instr(p).op = "redistribute_shares_b"
      <4>1. data = RedistributedData(p) /\ Instr(p).party = p
        BY <1>1, <3>1 DEF SharedData, Dealer
      <4>2. Instr(p).x \in 1 .. Len(regs[p])
        <5>1. Instr(p).x \in 1 .. pc[p] - 1 /\ Len(regs[p]) = pc[p] - 1
          BY <1>1, <3>1, OperandShares
        <5> QED
          BY <5>1
      <4> QED
        BY <3>1, <4>1, <4>2
           DEF Promised, Redistributed, RedistributedData, X, Instr,
               LocalOps, UnaryOps, BinaryOps, MultiplyOps, OpenOps
    <3>2. CASE Instr(p).op # "redistribute_shares_b"
      BY <1>1, <3>2 DEF Promised, Instr, ShareOps, LocalOps, UnaryOps, BinaryOps,
                        MultiplyOps, OpenOps
    <3> QED
      BY <3>1, <3>2
  <2> QED
    BY <2>1, <2>2 DEF PlaintextOf
<1> QED
  BY <1>1, <1>4, <1>5, <1>6, PromisesKept

LEMMA LocalPromises ==
  ASSUME Types, PlainInv, PromiseInv, NEW mail, MailInv(mail), Types', NEW p \in Parties,
         Local(p)
  PROVE  PromiseInv'
<1>1. /\ Running(p) /\ Instr(p).op \in LocalOps
      /\ \E result : Return(p, <<result>>, <<LocalPlain(p)>>)
  BY DEF Local, At, Running
<1>2. PICK v \in WordSet : v = LocalPlain(p)
  BY <1>1, LocalPlainIsWord
<1>3. Promised(pc[p], v)
  <2>1. v = LocalShare(Instr(p).op, PlainX(p), IF Instr(p).op \in BinaryOps THEN PlainY(p) ELSE 0)
    BY <1>1, <1>2, LocalPlainIsWord
  <2> QED
    BY <1>1, <2>1
       DEF Promised, PlainX, PlainY, Instr, LocalOps, UnaryOps, BinaryOps, MultiplyOps, OpenOps
<1> QED
  BY <1>1, <1>2, <1>3, OnePromise

LEMMA MultiplyPromises ==
  ASSUME Types, PlainInv, PromiseInv, NEW mail, MailInv(mail), Types', NEW p \in Parties,
         MultiplyReturn(p)
  PROVE  PromiseInv'
<1>1. /\ Running(p) /\ Instr(p).op \in MultiplyOps
      /\ \E result : Return(p, <<result>>, <<Times(Kind(Instr(p).op), PlainX(p), PlainY(p))>>)
  BY DEF MultiplyReturn, At, Running
<1>2. PlainX(p) \in WordSet /\ PlainY(p) \in WordSet
  <2>1. Instr(p).op \notin {"secret_share_a", "secret_share_b"}
    BY <1>1 DEF MultiplyOps
  <2>2. Instr(p).x \in 1 .. pc[p] - 1 /\ Instr(p).y \in 1 .. pc[p] - 1
    BY <1>1, <2>1, OperandShares
  <2> QED
    BY <1>1, <2>2, OperandPlains DEF PlainX, PlainY
<1>3. PICK v \in WordSet : v = Times(Kind(Instr(p).op), PlainX(p), PlainY(p))
  BY <1>2, Closure
<1>4. Promised(pc[p], v)
  BY <1>1, <1>3
     DEF Promised, PlainX, PlainY, Instr, LocalOps, UnaryOps, BinaryOps, MultiplyOps, OpenOps
<1> QED
  BY <1>1, <1>3, <1>4, OnePromise

\* An operation whose result is a function of one operand.
LEMMA OpenPromises ==
  ASSUME Types, PlainInv, PromiseInv, NEW mail, MailInv(mail), Types', NEW p \in Parties,
         OpenReturn(p) \/ B2AReturn(p)
  PROVE  PromiseInv'
<1>1. /\ Running(p) /\ Instr(p).op \in OpenOps \cup {"b2a_bit"}
      /\ Instr(p).op \in OpenOps => \E result : Return(p, <<result>>, <<PlainX(p)>>)
      /\ Instr(p).op = "b2a_bit" => \E result : Return(p, <<result>>, <<LowBit(PlainX(p))>>)
  BY DEF OpenReturn, B2AReturn, At, Running, OpenOps
<1>2. PlainX(p) \in WordSet /\ LowBit(PlainX(p)) \in WordSet
  <2>1. Instr(p).op \notin {"secret_share_a", "secret_share_b"}
    BY <1>1 DEF OpenOps
  <2>2. Instr(p).x \in 1 .. pc[p] - 1
    BY <1>1, <2>1, OperandShares
  <2> QED
    BY <1>1, <2>2, OperandPlains, Closure DEF PlainX
<1>3. PICK v \in WordSet : /\ Instr(p).op \in OpenOps => v = PlainX(p)
                           /\ Instr(p).op = "b2a_bit" => v = LowBit(PlainX(p))
  BY <1>2 DEF OpenOps
<1>4. Promised(pc[p], v)
  BY <1>1, <1>3
     DEF Promised, PlainX, Instr, LocalOps, UnaryOps, BinaryOps, MultiplyOps, OpenOps
<1> QED
  BY <1>1, <1>3, <1>4, OnePromise

LEMMA PromiseStep ==
  ASSUME IInv, IInv', PromiseInv, [Next]_vars
  PROVE  PromiseInv'
<1>1. Types /\ PlainInv /\ Types'
  BY DEF IInv
<1>2. PICK mail : MailInv(mail)
  BY DEF IInv
<1>3. CASE UNCHANGED <<program, regs, plain>>
  BY <1>3 DEF PromiseInv, FirstTotal, PlaintextOf, Promised, Redistributed
<1>4. ASSUME NEW p \in Parties, Operation(p)
      PROVE  PromiseInv'
  <2>1. CASE Local(p)
    BY <1>1, <1>2, <2>1, LocalPromises
  <2>2. CASE MultiplyReturn(p)
    BY <1>1, <1>2, <2>2, MultiplyPromises
  <2>3. CASE OpenReturn(p) \/ B2AReturn(p)
    BY <1>1, <1>2, <2>3, OpenPromises
  <2>4. CASE DivisionReturn(p)
    BY <1>1, <1>2, <2>4, DivisionPromises
  <2>5. CASE DealShares(p)
    BY <1>1, <1>2, <2>5, DealPromises
  <2>6. CASE DealReturn(p) \/ ReceiveReturn(p)
    <3>1. Running(p) /\ \E result : Return(p, <<result>>, <<>>)
      BY <2>6 DEF DealReturn, ReceiveReturn, At, Running
    <3> QED
      BY <1>1, <1>2, <3>1, NoPromise
  <2>7. CASE \/ MultiplySend(p) \/ OpenSend(p) \/ DivisionSend(p) \/ B2ASend(p)
             \/ DealSend(p) \/ ReceiveShares(p)
    <3>1. InCall
      BY <2>7 DEF MultiplySend, OpenSend, DivisionSend, B2ASend, DealSend, ReceiveShares
    <3> QED
      BY <1>3, <3>1 DEF InCall
  <2> QED
    BY <1>4, <2>1, <2>2, <2>3, <2>4, <2>5, <2>6, <2>7 DEF Operation
<1>5. CASE Next
  <2>1. PICK p \in Parties : Operation(p) \/ MPI(p)
    BY <1>5 DEF Next
  <2>2. CASE MPI(p)
    BY <1>3, <2>2 DEF MPI, InCall
  <2> QED
    BY <1>4, <2>1, <2>2
<1>6. CASE UNCHANGED vars
  BY <1>3, <1>6 DEF vars, protocolVars
<1> QED
  BY <1>5, <1>6

\* The plaintexts are a run of the program on the secrets that were shared.
THEOREM Promises == Spec => []PromiseInv
<1>1. Init => PromiseInv
  <2> SUFFICES ASSUME Init PROVE PromiseInv
    OBVIOUS
  <2>1. FirstTotal /\ Len(plain) = 1
    BY AtFirst
  <2> QED
    BY <2>1 DEF PromiseInv
<1>2. IInv /\ IInv' /\ PromiseInv /\ [Next]_vars => PromiseInv'
  BY PromiseStep
<1> QED
  BY <1>1, <1>2, Invariance, PTL DEF Spec

-----------------------------------------------------------------------------
(* What the invariant implies.                                             *)

LEMMA DealLength ==
  ASSUME NEW deal \in Deals
  PROVE  Len(deal) = 3
<1>1. PICK a, b, c \in WordSet : deal = <<<<a, c>>, <<b, a>>, <<c, b>>>>
  BY DEF Deals
<1> QED
  BY <1>1

LEMMA TypesAreOK == IInv => TypeOK
<1> SUFFICES ASSUME IInv PROVE TypeOK
  OBVIOUS
<1>1. /\ program \in Programs
      /\ net \in [Links -> Seq(WordSet)]
      /\ sending \in [Parties -> Parties \cup {NoParty}]
      /\ receiving \in [Parties -> Parties \cup {NoParty}]
      /\ pc \in [Parties -> Nat]
      /\ calls \in [Parties -> Nat]
      /\ got \in [Parties -> Seq(WordSet)]
      /\ regs \in [Parties -> Seq(Registers)]
      /\ dealt \in [Parties -> Deals \cup {<<>>}]
      /\ plain \in Seq(WordSet \cup {Unknown})
  BY DEF IInv, Types
<1>2. pc \in [Parties -> 1 .. Len(program) + 1]
  <2>1. ASSUME NEW p \in Parties
        PROVE  pc[p] \in 1 .. Len(program) + 1
    <3>1. CountInv(p) /\ Types
      BY DEF IInv, MailInv
    <3> QED
      BY <3>1, Ranges
  <2> QED
    BY <1>1, <2>1
<1>3. \A link \in Parties \X Parties : \A n \in DOMAIN net[link] : net[link][n] \in WordSet
  <2>1. ASSUME NEW link \in Parties \X Parties, NEW n \in DOMAIN net[link]
        PROVE  net[link][n] \in WordSet
    <3>1. net[link] \in Seq(WordSet)
      BY <1>1 DEF Links
    <3> QED
      BY <2>1, <3>1
  <2> QED
    BY <2>1
<1>4. ASSUME NEW p \in Parties
      PROVE  /\ calls[p] \in Nat
             /\ \A n \in DOMAIN got[p] : got[p][n] \in WordSet
             /\ \A k \in DOMAIN regs[p] :
                  \/ /\ regs[p][k].kind = "open"
                     /\ regs[p][k].shares \in [1 .. 1 -> WordSet]
                  \/ /\ regs[p][k].kind \in {"a", "b"}
                     /\ regs[p][k].shares \in [1 .. 2 -> WordSet]
             /\ Len(dealt[p]) \in {0, PartiesNum}
  <2>1. \A n \in DOMAIN got[p] : got[p][n] \in WordSet
    <3>1. got[p] \in Seq(WordSet)
      BY <1>1
    <3> QED
      BY <3>1
  <2>2. ASSUME NEW k \in DOMAIN regs[p]
        PROVE  \/ /\ regs[p][k].kind = "open"
                  /\ regs[p][k].shares \in [1 .. 1 -> WordSet]
               \/ /\ regs[p][k].kind \in {"a", "b"}
                  /\ regs[p][k].shares \in [1 .. 2 -> WordSet]
    <3>1. regs[p] \in Seq(Registers)
      BY <1>1
    <3>2. regs[p][k] \in Registers
      BY <2>2, <3>1
    <3> QED
      BY <3>2 DEF Registers, Sharings
  <2>3. Len(dealt[p]) \in {0, PartiesNum}
    <3>1. dealt[p] \in Deals \/ dealt[p] = <<>>
      BY <1>1
    <3>2. Len(<<>>) = 0
      OBVIOUS
    <3> QED
      BY <3>1, <3>2, DealLength, ThreePartiesAssumption
  <2> QED
    BY <1>1, <2>1, <2>2, <2>3
<1>5. \A k \in DOMAIN plain : plain[k] \in WordSet \cup {Unknown}
  BY <1>1
<1> QED
  BY <1>1, <1>2, <1>3, <1>4, <1>5 DEF TypeOK, ProtocolTypeOK

\* A link whose ends are both through with the program has nothing left.
LEMMA LinkEmptied ==
  ASSUME Types, NEW mail, MailInv(mail), NEW p \in Parties, NEW q \in Parties,
         Done(p), Done(q)
  PROVE  net[<<p, q>>] = <<>>
<1>1. /\ mail \in [Links -> [Nat -> WordSet]] /\ CountInv(p) /\ CountInv(q)
      /\ LinkInv(mail, p, q)
  BY DEF MailInv
<1>2. /\ Len(program) \in Nat /\ ~Running(p) /\ ~Running(q)
      /\ pc[p] = Len(program) + 1 /\ pc[q] = Len(program) + 1
  <2>1. pc[p] \in Nat /\ pc[q] \in Nat /\ Len(program) \in Nat
    BY <1>1, Ranges
  <2>2. ~Running(p) /\ ~Running(q)
    BY <2>1 DEF Done, Running
  <2> QED
    BY <1>1, <2>1, <2>2, Ranges
<1>3. SendPos(p, q) = TakePos(p, q)
  <2>1. SentOn(p, q) = 0 /\ TakenOn(p, q) = 0
    BY DEF SentOn, TakenOn, Done
  <2> QED
    BY <1>2, <2>1 DEF SendPos, TakePos
<1>4. /\ Slots(p, q) \subseteq Nat /\ SendPos(p, q) \in Nat
      /\ net[<<p, q>>] \in Seq(WordSet)
      /\ InOrder(net[<<p, q>>], mail[<<p, q>>],
                 Pending(Slots(p, q), TakePos(p, q), SendPos(p, q)))
  BY <1>1, LinkFacts DEF Carries
<1>5. Pending(Slots(p, q), TakePos(p, q), SendPos(p, q)) = {}
  <2>1. \A s, n \in Nat : ~(n <= s /\ s < n)
    OBVIOUS
  <2> QED
    BY <1>3, <1>4, <2>1 DEF Pending
<1> QED
  BY <1>4, <1>5, InOrderEmpty

LEMMA NothingIsLeft == IInv => NoMessageLeft
<1> SUFFICES ASSUME IInv, AllDone, NEW p \in Parties, NEW q \in Parties
             PROVE  net[<<p, q>>] = <<>>
  BY DEF NoMessageLeft, NetEmpty
<1>1. Types /\ \E mail : MailInv(mail)
  BY DEF IInv
<1>2. Done(p) /\ Done(q)
  BY DEF AllDone
<1> QED
  BY <1>1, <1>2, LinkEmptied

\* A message both have used in instruction k.
LEMMA ExchangeAgrees ==
  ASSUME NEW mail, NEW p \in Parties, NEW q, q = Succ(p), NEW r, NEW k, NEW j,
         Exchanged(mail, p, r, k, j), Exchanged(mail, q, r, k, j)
  PROVE  regs[q][r].shares[2] = regs[p][r].shares[1]
<1>1. Pred(q) = p
  BY Around
<1> QED
  BY <1>1 DEF Exchanged

\* Neighbours agree about an instruction when they agree about its operands.
LEMMA InstructionAgrees ==
  ASSUME Types, NEW mail, MailInv(mail), NEW p \in Parties, NEW q \in Parties, q = Succ(p),
         NEW k \in Nat, k >= 2, k < pc[p], k < pc[q], program[k].op \notin OpenOps,
         \A x \in 1 .. k - 1 : program[x].op \notin OpenOps =>
           regs[q][x].shares[2] = regs[p][x].shares[1]
  PROVE  regs[q][k].shares[2] = regs[p][k].shares[1]
<1> DEFINE op == program[k].op
<1>1. /\ CountInv(p) /\ CountInv(q) /\ ResultsInv(mail, p) /\ ResultsInv(mail, q)
      /\ \A a, b \in Parties : LinkInv(mail, a, b)
      /\ DealtInv(mail) /\ \A r \in Parties : CountInv(r)
  BY DEF MailInv
<1>2. /\ program \in Programs /\ k \in 2 .. Len(program) /\ k \in 1 .. Len(program)
      /\ k \in 2 .. pc[p] - 1 /\ k \in 2 .. pc[q] - 1
  <2>1. program \in Programs /\ pc[p] \in Nat /\ pc[q] \in Nat /\ Len(program) \in Nat
    BY <1>1, Ranges
  <2>2. pc[p] <= Len(program) + 1
    BY <1>1, Ranges
  <2> QED
    BY <2>1, <2>2
<1>3. ResultInv(mail, p, k) /\ ResultInv(mail, q, k)
  BY <1>1, <1>2 DEF ResultsInv
<1>4. CASE op \in LocalOps
  <2>1. LocalInv(p, k) /\ LocalInv(q, k)
    BY <1>3, <1>4 DEF ResultInv
  <2>2. /\ program[k].x \in 1 .. k - 1 /\ program[program[k].x].op \notin OpenOps
        /\ op \in BinaryOps => /\ program[k].y \in 1 .. k - 1
                               /\ program[program[k].y].op \notin OpenOps
    <3>1. op \notin {"secret_share_a", "secret_share_b"}
      BY <1>4 DEF LocalOps, UnaryOps, BinaryOps
    <3> QED
      BY <1>2, <3>1, Instructions
  <2>3. PICK u : u = regs[p][program[k].x].shares[1] /\ u = regs[q][program[k].x].shares[2]
    BY <2>2
  <2>4. PICK v : op \in BinaryOps => /\ v = regs[p][program[k].y].shares[1]
                                     /\ v = regs[q][program[k].y].shares[2]
    <3>1. op \in BinaryOps =>
            regs[q][program[k].y].shares[2] = regs[p][program[k].y].shares[1]
      BY <2>2
    <3> QED
      BY <3>1
  <2>5. /\ regs[p][k].shares[1] = LocalShare(op, u, IF op \in BinaryOps THEN v ELSE 0)
        /\ regs[q][k].shares[2] = LocalShare(op, u, IF op \in BinaryOps THEN v ELSE 0)
    <3>1. 1 \in 1 .. 2 /\ 2 \in 1 .. 2
      OBVIOUS
    <3>2. regs[p][k].shares[1]
            = LocalShare(op, regs[p][program[k].x].shares[1],
                         IF op \in BinaryOps THEN regs[p][program[k].y].shares[1] ELSE 0)
      <4>1. \A n \in 1 .. 2 : regs[p][k].shares[n]
              = LocalShare(op, regs[p][program[k].x].shares[n],
                           IF op \in BinaryOps THEN regs[p][program[k].y].shares[n] ELSE 0)
        BY <2>1, Zenon DEF LocalInv
      <4> QED
        BY <3>1, <4>1, Zenon
    <3>3. regs[q][k].shares[2]
            = LocalShare(op, regs[q][program[k].x].shares[2],
                         IF op \in BinaryOps THEN regs[q][program[k].y].shares[2] ELSE 0)
      <4>1. \A n \in 1 .. 2 : regs[q][k].shares[n]
              = LocalShare(op, regs[q][program[k].x].shares[n],
                           IF op \in BinaryOps THEN regs[q][program[k].y].shares[n] ELSE 0)
        BY <2>1, Zenon DEF LocalInv
      <4> QED
        BY <3>1, <4>1, Zenon
    <3> HIDE DEF op
    <3> QED
      BY <2>3, <2>4, <3>2, <3>3
  <2> QED
    BY <2>5
<1>5. CASE op \in MultiplyOps
  BY <1>3, <1>5, ExchangeAgrees DEF ResultInv
<1>6. CASE op = "div_const_a"
  BY <1>3, <1>6, ExchangeAgrees DEF ResultInv
<1>7. CASE op = "b2a_bit"
  BY <1>3, <1>7, ExchangeAgrees DEF ResultInv
<1>8. CASE op \in ShareOps
  <2>1. ShareInv(mail, p, k) /\ ShareInv(mail, q, k)
    BY <1>3, <1>8 DEF ResultInv
  <2>2. PICK d \in Parties : d = program[k].party
    BY <1>2, <1>8, Instructions
  <2>3. q # p /\ Pred(q) = p /\ p = Pred(q)
    BY Around
  <2>4. CASE p = d
    <3>1. regs[p][k].shares[1] = mail[<<p, Succ(p)>>][4 * k + 1]
      BY <2>1, <2>2, <2>4 DEF ShareInv
    <3>2. regs[q][k].shares[2] = mail[<<p, q>>][4 * k + 1]
      BY <2>1, <2>2, <2>3, <2>4 DEF ShareInv
    <3> QED
      BY <3>1, <3>2
  <2>5. CASE q = d
    <3>1. regs[p][k].shares[1] = mail[<<q, p>>][4 * k]
      <4>1. p # program[k].party /\ program[k].party = q
        BY <2>2, <2>3, <2>5
      <4> QED
        BY <2>1, <4>1 DEF ShareInv
    <3>2. regs[q][k].shares[2] = mail[<<q, Pred(q)>>][4 * k]
      BY <2>1, <2>2, <2>5 DEF ShareInv
    <3> QED
      BY <2>3, <3>1, <3>2
  <2>6. CASE p # d /\ q # d
    <3>1. p = Succ(d) /\ q = Pred(d)
      BY <2>6, Neighbours
    <3>2. /\ regs[p][k].shares[1] = mail[<<d, p>>][4 * k]
          /\ regs[q][k].shares[2] = mail[<<d, q>>][4 * k + 1]
      BY <2>1, <2>2, <2>6 DEF ShareInv
    <3>3. d = Source(k, p) /\ d = Source(k, q) /\ Heard(k, p) = 2 /\ Heard(k, q) = 2
      BY <1>8, <2>2, <2>6 DEF Source, Heard
    <3>4. 4 * k + 0 < SendPos(d, p)
      <4>1. 0 \in 0 .. 2 /\ 0 < Heard(k, p)
        BY <3>3
      <4> QED
        BY <1>1, <1>2, <3>3, <4>1, HeardIsSent
    <3>5. 4 * k + 1 < SendPos(d, q)
      <4>1. 1 \in 0 .. 2 /\ 1 < Heard(k, q)
        BY <3>3
      <4> QED
        BY <1>1, <1>2, <3>3, <4>1, HeardIsSent
    <3>6. 4 * k + 0 = 4 * k
      OBVIOUS
    <3>7. mail[<<d, Succ(d)>>][4 * k] = mail[<<d, Pred(d)>>][4 * k + 1]
      BY <1>1, <1>2, <1>8, <2>2, <3>1, <3>4, <3>5, <3>6 DEF DealtInv
    <3> QED
      BY <3>1, <3>2, <3>7
  <2> QED
    BY <2>4, <2>5, <2>6
<1>9. op \in Operations
  BY <1>2, Instructions
<1> QED
  BY <1>4, <1>5, <1>6, <1>7, <1>8, <1>9 DEF Operations

\* They agree about all instructions: otherwise about the operands of the first
\* one they differ in, and then about its result.
LEMMA InstructionsAgree ==
  ASSUME Types, FirstInv, NEW mail, MailInv(mail), NEW p \in Parties, NEW q \in Parties,
         q = Succ(p)
  PROVE  \A k \in Nat \ {0} : k < pc[p] /\ k < pc[q] /\ program[k].op \notin OpenOps =>
           regs[q][k].shares[2] = regs[p][k].shares[1]
<1> DEFINE Differ(k) == /\ k < pc[p] /\ k < pc[q] /\ program[k].op \notin OpenOps
                        /\ regs[q][k].shares[2] # regs[p][k].shares[1]
           T == {k \in Nat \ {0} : Differ(k)}
<1>1. SUFFICES ASSUME T # {} PROVE FALSE
  OBVIOUS
<1>2. PICK k \in T : \A n \in T : ~(n < k)
  <2>1. T \subseteq Nat
    OBVIOUS
  <2> HIDE DEF T
  <2> QED
    BY <1>1, <2>1, Least
<1>3. k \in Nat \ {0} /\ Differ(k)
  OBVIOUS
<1>4. pc[p] \in Nat /\ pc[q] \in Nat
  BY DEF Types
<1>5. k # 1
  BY <1>3 DEF FirstInv
<1>6. ASSUME NEW x \in 1 .. k - 1, program[x].op \notin OpenOps
      PROVE  regs[q][x].shares[2] = regs[p][x].shares[1]
  <2>1. x \in Nat \ {0} /\ x < k /\ x < pc[p] /\ x < pc[q]
    BY <1>3, <1>4
  <2>2. x \notin T
    BY <1>2, <2>1
  <2> QED
    BY <1>6, <2>1, <2>2
<1>7. k >= 2
  BY <1>3, <1>5
<1> QED
  BY <1>3, <1>6, <1>7, InstructionAgrees

\* What the numbers of the registers say about the instructions.
LEMMA RegisterNumbers ==
  ASSUME Types, NEW mail, MailInv(mail), NEW p \in Parties, NEW k \in 1 .. Len(regs[p]),
         regs[p][k].kind # "open"
  PROVE  \/ k < pc[p] /\ program[k].op \notin OpenOps
         \/ k = pc[p] /\ Divided(p)
<1>1. CountInv(p) /\ ResultsInv(mail, p) /\ pc[p] \in Nat
  BY DEF MailInv, Types
<1>2. CASE k < pc[p]
  <2>1. CASE k = 1
    <3>1. program[1].op \in {"secret_share_a", "secret_share_b"}
      BY Instructions DEF Types
    <3> QED
      BY <1>2, <2>1, <3>1 DEF OpenOps
  <2>2. CASE k # 1
    <3>1. k \in 2 .. pc[p] - 1
      BY <1>1, <1>2, <2>2
    <3>2. regs[p][k].kind = ResultKind(program[k].op)
      BY <1>1, <3>1 DEF ResultsInv, ResultInv
    <3> QED
      BY <1>2, <3>2 DEF ResultKind
  <2> QED
    BY <2>1, <2>2
<1>3. CASE ~(k < pc[p])
  <2>1. Divided(p) => Len(regs[p]) = pc[p]
    BY <1>1 DEF ResultsInv
  <2>2. ~Divided(p) => Len(regs[p]) = pc[p] - 1
    BY <1>1 DEF ResultsInv
  <2> QED
    BY <1>1, <1>3, <2>1, <2>2
<1> QED
  BY <1>2, <1>3

LEMMA SharesAgree == IInv => Replicated
<1> SUFFICES ASSUME IInv, NEW p \in Parties, NEW q, q = Relative(p, 1),
                    NEW k \in SharedBy({p, q})
             PROVE  regs[q][k].shares[2] = regs[p][k].shares[1]
  BY DEF Replicated
<1>1. Types /\ FirstInv
  BY DEF IInv
<1>2. PICK mail : MailInv(mail)
  BY DEF IInv
<1>3. q \in Parties /\ q = Succ(p)
  BY Around DEF Succ
<1>4. /\ k \in 1 .. Len(regs[p]) /\ regs[p][k].kind # "open"
      /\ k \in 1 .. Len(regs[q]) /\ regs[q][k].kind # "open"
  <2>1. regs[p] \in Seq(Registers) /\ regs[q] \in Seq(Registers)
    BY <1>1, <1>3 DEF Types
  <2>2. /\ k \in DOMAIN regs[p] /\ regs[p][k].kind # "open"
        /\ k \in DOMAIN regs[q] /\ regs[q][k].kind # "open"
    BY DEF SharedBy
  <2> QED
    BY <2>1, <2>2
<1>5. \/ k < pc[p] /\ program[k].op \notin OpenOps
      \/ k = pc[p] /\ Divided(p)
  BY <1>1, <1>2, <1>4, RegisterNumbers
<1>6. \/ k < pc[q] /\ program[k].op \notin OpenOps
      \/ k = pc[q] /\ Divided(q)
  BY <1>1, <1>2, <1>3, <1>4, RegisterNumbers
<1>7. k \in Nat \ {0}
  BY <1>4
<1>8. CASE k < pc[p] /\ k < pc[q]
  BY <1>1, <1>2, <1>3, <1>5, <1>7, <1>8, InstructionsAgree
<1>9. CASE ~(k < pc[p] /\ k < pc[q])
  <2>1. PICK n \in Nat : n = Len(program)
    BY <1>2, Ranges, <1>1 DEF MailInv
  <2>2. pc[p] \in Nat /\ pc[q] \in Nat /\ pc[p] <= n + 1 /\ pc[q] <= n + 1
    BY <1>1, <1>2, <1>3, <2>1, Ranges DEF MailInv
  <2>3. k = n + 1 /\ pc[p] = n + 1 /\ pc[q] = n + 1 /\ program[n].op = "div_const_a"
    <3>1. Divided(p) => pc[p] > n /\ program[n].op = "div_const_a"
      BY <2>1 DEF Divided
    <3>2. Divided(q) => pc[q] > n /\ program[n].op = "div_const_a"
      BY <2>1 DEF Divided
    <3> QED
      BY <1>5, <1>6, <1>7, <1>9, <2>2, <3>1, <3>2
  <2>4. n \in 2 .. pc[p] - 1 /\ n \in 2 .. pc[q] - 1
    <3>1. n # 0 /\ program[1].op # "div_const_a"
      BY <1>1, <2>1, Instructions DEF Types
    <3>2. n # 1
      BY <2>3, <3>1
    <3> QED
      BY <2>1, <2>3, <3>1, <3>2
  <2>5. ResultInv(mail, p, n) /\ ResultInv(mail, q, n)
    BY <1>2, <1>3, <2>4 DEF MailInv, ResultsInv
  <2>6. Exchanged(mail, p, n + 1, n, 1) /\ Exchanged(mail, q, n + 1, n, 1)
    BY <2>3, <2>5 DEF ResultInv
  <2> QED
    BY <1>3, <2>3, <2>6, ExchangeAgrees
<1> QED
  BY <1>8, <1>9

-----------------------------------------------------------------------------
(* The shares of a result add up to its plaintext.                         *)

\* The operands of an instruction.
LEMMA OperandFacts ==
  ASSUME program \in Programs, NEW k \in 2 .. Len(program)
  PROVE  LET op == program[k].op
             Operand(x) == /\ x \in 1 .. k - 1 /\ x \in Nat \ {0}
                           /\ program[x].op \notin OpenOps /\ program[x].op # "div_const_a"
                           /\ Kind(program[x].op) = OperandKind(op)
         IN  /\ op \in Operations /\ k \in Nat /\ k \in 1 .. Len(program)
             /\ op \notin {"secret_share_a", "secret_share_b"} => Operand(program[k].x)
             /\ op \in BinaryOps \cup MultiplyOps => Operand(program[k].y)
             /\ op = "redistribute_shares_b" /\ program[k].party = 1 =>
                  /\ k - 1 \in 2 .. Len(program) /\ program[k - 1].op = "redistribute_shares_b"
                  /\ program[k - 1].x = program[k].x /\ program[k - 1].party = 0
             /\ op \in ShareOps => program[k].party \in Parties
             /\ op = "div_const_a" => k = Len(program) /\ program[k].c \in Divisor
<1> DEFINE op == program[k].op
<1>1. /\ Len(program) \in Nat /\ k \in 1 .. Len(program) /\ k \in Nat
  BY Instructions
<1>2. /\ op \in Operations
      /\ op \notin {"secret_share_a", "secret_share_b"} =>
           program[k].x \in 1 .. k - 1 /\ program[program[k].x].op \notin OpenOps
      /\ op \in BinaryOps \cup MultiplyOps =>
           program[k].y \in 1 .. k - 1 /\ program[program[k].y].op \notin OpenOps
      /\ op \in ShareOps => program[k].party \in Parties
      /\ op = "div_const_a" => k = Len(program) /\ program[k].c \in Divisor
  BY <1>1, Instructions
<1>3. ASSUME NEW x \in 1 .. k - 1
      PROVE  x \in Nat \ {0} /\ program[x].op # "div_const_a"
  <2>1. x \in 1 .. Len(program) /\ x # Len(program) /\ x \in Nat \ {0}
    BY <1>1
  <2> QED
    BY <2>1, Instructions
<1>4. /\ op \notin {"secret_share_a", "secret_share_b"} =>
           Kind(program[program[k].x].op) = OperandKind(op)
      /\ op \in BinaryOps \cup MultiplyOps => Kind(program[program[k].y].op) = OperandKind(op)
      /\ op = "redistribute_shares_b" /\ program[k].party = 1 =>
           /\ k > 2 /\ program[k - 1].op = op
           /\ program[k - 1].x = program[k].x /\ program[k - 1].party = 0
  BY <1>1, OperandTypesAssumption, Zenon
<1>5. k > 2 => k - 1 \in 2 .. Len(program)
  BY <1>1
<1> QED
  BY <1>1, <1>2, <1>3, <1>4, <1>5

\* What a party has of an instruction it is past.
LEMMA PastResult ==
  ASSUME Types, NEW mail, MailInv(mail), NEW p \in Parties,
         NEW k \in Nat \ {0}, k < pc[p], program[k].op \notin OpenOps
  PROVE  /\ k \in 1 .. Len(regs[p]) /\ k \in 1 .. Len(program)
         /\ regs[p][k].kind = Kind(program[k].op)
         /\ regs[p][k].shares \in Sharings
         /\ regs[p][k].shares[1] \in WordSet /\ regs[p][k].shares[2] \in WordSet
<1>1. CountInv(p) /\ ResultsInv(mail, p)
  BY DEF MailInv
<1>2. /\ pc[p] \in Nat /\ Len(program) \in Nat /\ pc[p] <= Len(program) + 1
      /\ regs[p] \in Seq(Registers)
  BY <1>1, Ranges DEF Types
<1>3. k \in 1 .. Len(regs[p]) /\ k \in 1 .. Len(program)
  <2>1. Len(regs[p]) = pc[p] \/ Len(regs[p]) = pc[p] - 1
    BY <1>1 DEF ResultsInv
  <2>2. PICK m \in Nat, l \in Nat, n \in Nat : m = Len(regs[p]) /\ l = Len(program) /\ n = pc[p]
    BY <1>2
  <2>3. k <= m /\ k <= l
    BY <1>2, <2>1, <2>2
  <2> QED
    BY <2>2, <2>3
<1>4. regs[p][k].kind = Kind(program[k].op)
  <2>1. CASE k = 1
    BY <1>1, <2>1 DEF ResultsInv
  <2>2. CASE k # 1
    <3>1. k \in 2 .. pc[p] - 1
      BY <1>2, <2>2
    <3> QED
      BY <1>1, <3>1 DEF ResultsInv, ResultInv, ResultKind
  <2> QED
    BY <2>1, <2>2
<1>5. regs[p][k].shares \in Sharings
  <2>1. regs[p][k].kind # "open"
    BY <1>4 DEF Kind
  <2> QED
    BY <1>3, <2>1, Sharing
<1> QED
  BY <1>3, <1>4, <1>5 DEF Sharings

\* The three parties' shares of an earlier result, around the circle.
LEMMA OperandsUnite ==
  ASSUME Types, FirstInv, NEW mail, MailInv(mail), NEW p \in Parties,
         NEW q, q = Succ(p), NEW r, r = Pred(p),
         NEW x \in Nat \ {0}, x < pc[p], x < pc[q], x < pc[r], program[x].op \notin OpenOps
  PROVE  /\ regs[p][x].shares \in Sharings /\ regs[q][x].shares \in Sharings
         /\ regs[r][x].shares \in Sharings
         /\ regs[p][x].shares[2] = regs[r][x].shares[1]
         /\ regs[q][x].shares[2] = regs[p][x].shares[1]
         /\ regs[r][x].shares[2] = regs[q][x].shares[1]
<1>1. /\ q \in Parties /\ r \in Parties /\ Succ(r) = p /\ Succ(q) = r
  BY Neighbours
<1> QED
  BY <1>1, PastResult, InstructionsAgree

\* The plaintext of an instruction a party is past.
LEMMA PastPlain ==
  ASSUME Types, PlainInv, PromiseInv, NEW mail, MailInv(mail), NEW p \in Parties,
         NEW k \in Nat, k >= 2, k < pc[p]
  PROVE  k \in 2 .. Len(program) /\ Promised(k, plain[k])
<1>1. CountInv(p) /\ ResultsInv(mail, p)
  BY DEF MailInv
<1>2. pc[p] \in Nat /\ Len(program) \in Nat /\ pc[p] <= Len(program) + 1
  BY <1>1, Ranges
<1>3. /\ Len(regs[p]) \in Nat /\ Len(plain) \in Nat /\ Len(regs[p]) <= Len(plain)
  BY ResultsAndPlains
<1>4. Len(regs[p]) = pc[p] \/ Len(regs[p]) = pc[p] - 1
  BY <1>1 DEF ResultsInv
<1>5. k \in 2 .. Len(plain) /\ k \in 2 .. Len(program) /\ ~(k > Len(program))
  <2>1. PICK m \in Nat, l \in Nat, n \in Nat, o \in Nat :
          m = Len(regs[p]) /\ l = Len(program) /\ n = pc[p] /\ o = Len(plain)
    BY <1>2, <1>3
  <2>2. k <= o /\ k <= l
    BY <1>2, <1>3, <1>4, <2>1
  <2> QED
    BY <2>1, <2>2
<1>6. PlaintextOf(k, plain[k])
  BY <1>5 DEF PromiseInv
<1> QED
  BY <1>5, <1>6 DEF PlaintextOf

\* What a party has sent in an instruction, past or present, is on record.
LEMMA SentIsRecord ==
  ASSUME Types, NEW mail, MailInv(mail), NEW r \in Parties, NEW k \in 2 .. Len(program),
         NEW j \in 0 .. 2, j < Exchanges(program[k].op), 4 * k + j < SendPos(r, Succ(r))
  PROVE  k <= pc[r] /\ mail[<<r, Succ(r)>>][4 * k + j] = Record(mail, r, k, j)
<1> DEFINE q == Succ(r)
           op == program[k].op
<1>1. /\ \A s \in Parties : CountInv(s)
      /\ CountInv(r) /\ ResultsInv(mail, r) /\ SentInv(mail, r) /\ GotInv(mail, r)
      /\ q \in Parties
  BY Around DEF MailInv
<1>2. /\ pc[r] \in Nat /\ Len(program) \in Nat /\ k \in Nat /\ Len(got[r]) \in Nat
      /\ calls[r] \in Nat
  BY <1>1, Ranges
<1>3. op \notin ShareOps
  BY DEF Exchanges, ShareOps, MultiplyOps, OpenOps
<1>4. SentOn(r, q) \in 0 .. 3
  BY <1>1, AtMostThree
<1>5. k <= pc[r] /\ (k = pc[r] => j < SentOn(r, q))
  <2>1. 4 * k + j < 4 * pc[r] + SentOn(r, q)
    BY DEF SendPos
  <2>2. \A a, b \in Nat : \A i \in 0 .. 2 : \A n \in 0 .. 3 :
          4 * a + i < 4 * b + n => a <= b /\ (a = b => i < n)
    OBVIOUS
  <2> QED
    BY <1>2, <1>4, <2>1, <2>2
<1>6. CASE k < pc[r]
  <2>1. k \in 2 .. pc[r] - 1
    BY <1>2, <1>6
  <2>2. RecordInv(mail, r, k)
    BY <1>1, <2>1 DEF ResultsInv
  <2> QED
    BY <1>5, <2>2 DEF RecordInv
<1>7. CASE k = pc[r]
  <2>1. Running(r) /\ Instr(r).op = op /\ ~Dealing(r)
    <3>1. pc[r] <= Len(program)
      BY <1>2, <1>7
    <3> QED
      BY <1>3, <1>7, <3>1 DEF Running, Instr, Dealing
  <2>2. mail[<<r, q>>][4 * k + j] = Message(r, q, j)
    BY <1>1, <1>5, <1>7, <2>1 DEF SentInv
  <2>3. j <= Len(got[r])
    <3>1. SentOn(r, q) \in {0, calls[r]}
      BY <1>3, <1>7, <2>1 DEF SentOn, Running
    <3>2. calls[r] = Len(got[r]) \/ calls[r] = Len(got[r]) + 1
      BY <1>1, <2>1 DEF CountInv
    <3> QED
      BY <1>2, <1>4, <1>5, <1>7, <3>1, <3>2
  <2> QED
    BY <1>5, <1>7, <2>1, <2>2, <2>3, MessageIsRecord
<1> QED
  BY <1>2, <1>5, <1>6, <1>7

\* What a party past an instruction has heard in it.
LEMMA HeardIsRecord ==
  ASSUME Types, NEW mail, MailInv(mail), NEW p \in Parties, NEW r, r = Pred(p),
         NEW k \in 2 .. Len(program), k < pc[p],
         NEW j \in 0 .. 2, j < Exchanges(program[k].op)
  PROVE  k <= pc[r] /\ mail[<<r, p>>][4 * k + j] = Record(mail, r, k, j)
<1>1. r \in Parties /\ Succ(r) = p
  BY Around
<1>2. CountInv(p) /\ CountInv(r) /\ LinkInv(mail, r, p)
  BY <1>1 DEF MailInv
<1>3. r = Source(k, p) /\ Heard(k, p) = Exchanges(program[k].op)
  BY DEF Source, Heard, Exchanges, ShareOps, MultiplyOps, OpenOps
<1>4. 4 * k + j < SendPos(r, p)
  BY <1>1, <1>2, <1>3, HeardIsSent
<1> QED
  BY <1>1, <1>4, SentIsRecord

\* The shares party p and its successor have of a result add up to its plaintext.
Whole(p, k) ==
  LET shares == regs[p][k].shares
  IN  Total(Kind(program[k].op), shares[1], shares[2], regs[Succ(p)][k].shares[1]) = plain[k]

LEMMA WholeFirst ==
  ASSUME Types, FirstInv, PromiseInv, NEW mail, MailInv(mail), NEW p \in Parties
  PROVE  Whole(p, 1)
<1> DEFINE kind == Kind(program[1].op)
           s(r) == regs[r][1].shares[1]
<1>1. \A r \in Parties : s(r) \in WordSet
  <2> TAKE r \in Parties
  <2>1. pc[r] >= 2 /\ pc[r] \in Nat /\ program \in Programs
    <3>1. CountInv(r)
      BY DEF MailInv
    <3> QED
      BY <3>1, Ranges
  <2>2. program[1].op \notin OpenOps
    BY <2>1, Instructions DEF OpenOps
  <2>3. 1 \in Nat \ {0} /\ 1 < pc[r]
    BY <2>1
  <2> QED
    BY <2>2, <2>3, PastResult
<1>2. Total(kind, s(0), s(1), s(2)) = plain[1]
  BY DEF PromiseInv, FirstTotal
<1>3. /\ regs[1][1].shares[2] = s(0) /\ regs[2][1].shares[2] = s(1) /\ regs[0][1].shares[2] = s(2)
  <2>1. 0 \in Parties /\ 1 \in Parties /\ 2 \in Parties /\ Succ(0) = 1 /\ Succ(1) = 2 /\ Succ(2) = 0
    BY Neighbours
  <2> QED
    BY <2>1 DEF FirstInv
<1>4. s(0) \in WordSet /\ s(1) \in WordSet /\ s(2) \in WordSet
  BY <1>1, Neighbours
<1>5. /\ Total(kind, s(0), s(2), s(1)) = plain[1]
      /\ Total(kind, s(1), s(0), s(2)) = plain[1]
      /\ Total(kind, s(2), s(1), s(0)) = plain[1]
  <2> HIDE DEF s, kind
  <2> QED
    BY <1>2, <1>4, TotalTurns
<1> HIDE DEF kind
<1>6. CASE p = 0
  <2>1. Succ(p) = 1
    BY <1>6, Neighbours
  <2> QED
    BY <1>3, <1>5, <1>6, <2>1 DEF Whole, kind
<1>7. CASE p = 1
  <2>1. Succ(p) = 2
    BY <1>7, Neighbours
  <2> QED
    BY <1>3, <1>5, <1>7, <2>1 DEF Whole, kind
<1>8. CASE p = 2
  <2>1. Succ(p) = 0
    BY <1>8, Neighbours
  <2> QED
    BY <1>3, <1>5, <1>8, <2>1 DEF Whole, kind
<1> QED
  BY <1>6, <1>7, <1>8, Neighbours

\* A result a party is past, and what its invariant says.
LEMMA PastInv ==
  ASSUME Types, NEW mail, MailInv(mail), NEW p \in Parties, NEW k \in Nat, k >= 2, k < pc[p]
  PROVE  ResultInv(mail, p, k) /\ RecordInv(mail, p, k) /\ k \in 2 .. Len(program)
<1>1. CountInv(p) /\ ResultsInv(mail, p)
  BY DEF MailInv
<1>2. pc[p] \in Nat /\ Len(program) \in Nat /\ pc[p] <= Len(program) + 1
  BY <1>1, Ranges
<1>3. k \in 2 .. pc[p] - 1 /\ k \in 2 .. Len(program)
  BY <1>2
<1> QED
  BY <1>1, <1>3 DEF ResultsInv

\* Operations without communication.
LEMMA WholeLocal ==
  ASSUME Types, PlainInv, PromiseInv, NEW mail, MailInv(mail),
         NEW p \in Parties, NEW q, q = Succ(p),
         NEW k \in Nat, k >= 2, k < pc[p], k < pc[q], program[k].op \in LocalOps,
         Whole(p, program[k].x), program[k].op \in BinaryOps => Whole(p, program[k].y),
         program[k].op = "not_b_1" =>
           /\ regs[p][program[k].x].shares[1] \in {0, 1}
           /\ regs[p][program[k].x].shares[2] \in {0, 1}
           /\ regs[q][program[k].x].shares[1] \in {0, 1}
  PROVE  Whole(p, k)
<1>1. PICK op \in LocalOps : op = program[k].op
  OBVIOUS
<1>2. PICK x \in Nat \ {0} : /\ x = program[k].x /\ x \in 1 .. k - 1 /\ program[x].op \notin OpenOps
                             /\ Kind(program[x].op) = OperandKind(op)
  <2>1. k \in 2 .. Len(program) /\ program \in Programs
    BY PastInv DEF Types
  <2>2. op \notin {"secret_share_a", "secret_share_b"}
    BY DEF LocalOps, UnaryOps, BinaryOps
  <2> QED
    BY <1>1, <2>1, <2>2, OperandFacts
<1>3. op \in BinaryOps =>
        \E y \in Nat \ {0} : /\ y = program[k].y /\ y \in 1 .. k - 1
                             /\ program[y].op \notin OpenOps
                             /\ Kind(program[y].op) = OperandKind(op)
  <2>1. k \in 2 .. Len(program) /\ program \in Programs
    BY PastInv DEF Types
  <2> QED
    BY <1>1, <2>1, OperandFacts
<1>4. OperandKind(op) = Kind(op)
  BY DEF OperandKind, Kind, LocalOps, UnaryOps, BinaryOps
<1>5. q \in Parties /\ pc[p] \in Nat /\ pc[q] \in Nat
  BY Around DEF Types
<1>6. PICK u \in WordSet, v \in WordSet, w \in WordSet :
        /\ u = regs[p][x].shares[1] /\ v = regs[p][x].shares[2] /\ w = regs[q][x].shares[1]
        /\ Total(Kind(op), u, v, w) = plain[x]
  <2>1. x < pc[p] /\ x < pc[q]
    BY <1>2, <1>5
  <2>2. /\ regs[p][x].shares[1] \in WordSet /\ regs[p][x].shares[2] \in WordSet
        /\ regs[q][x].shares[1] \in WordSet
    BY <1>2, <1>5, <2>1, PastResult
  <2>3. Whole(p, x)
    BY <1>1, <1>2
  <2>4. Total(Kind(op), regs[p][x].shares[1], regs[p][x].shares[2], regs[q][x].shares[1])
          = plain[x]
    BY <1>2, <1>4, <2>3, Zenon DEF Whole
  <2> QED
    BY <2>2, <2>4
<1>7. PICK a \in WordSet, b \in WordSet, c \in WordSet :
        /\ op \in BinaryOps =>
             /\ a = regs[p][program[k].y].shares[1] /\ b = regs[p][program[k].y].shares[2]
             /\ c = regs[q][program[k].y].shares[1]
        /\ op \notin BinaryOps => a = 0 /\ b = 0 /\ c = 0
        /\ Total(Kind(op), a, b, c) = IF op \in BinaryOps THEN plain[program[k].y] ELSE 0
  <2>1. CASE op \in BinaryOps
    <3>1. PICK y \in Nat \ {0} : /\ y = program[k].y /\ y \in 1 .. k - 1
                                 /\ program[y].op \notin OpenOps
                                 /\ Kind(program[y].op) = OperandKind(op)
      BY <1>3, <2>1
    <3>2. y < pc[p] /\ y < pc[q]
      BY <1>5, <3>1
    <3>3. /\ regs[p][y].shares[1] \in WordSet /\ regs[p][y].shares[2] \in WordSet
          /\ regs[q][y].shares[1] \in WordSet
      BY <1>5, <3>1, <3>2, PastResult
    <3>4. Whole(p, y)
      BY <1>1, <2>1, <3>1
    <3>5. Total(Kind(op), regs[p][y].shares[1], regs[p][y].shares[2], regs[q][y].shares[1])
            = plain[y]
      BY <1>4, <3>1, <3>4, Zenon DEF Whole
    <3> QED
      BY <2>1, <3>1, <3>3, <3>5
  <2>2. CASE op \notin BinaryOps
    <3>1. 0 \in WordSet /\ Total(Kind(op), 0, 0, 0) = 0
      BY Closure, PlusZero DEF Total
    <3> QED
      BY <2>2, <3>1
  <2> QED
    BY <2>1, <2>2
<1>8. /\ regs[p][k].shares[1] = LocalShare(op, u, a)
      /\ regs[p][k].shares[2] = LocalShare(op, v, b)
      /\ regs[q][k].shares[1] = LocalShare(op, w, c)
  <2>1. LocalInv(p, k) /\ LocalInv(q, k)
    <3>1. ResultInv(mail, p, k) /\ ResultInv(mail, q, k)
      BY <1>5, PastInv
    <3> QED
      BY <3>1 DEF ResultInv
  <2>2. 1 \in 1 .. 2 /\ 2 \in 1 .. 2
    OBVIOUS
  <2>3. \A r \in {p, q} : \A n \in 1 .. 2 :
          regs[r][k].shares[n]
            = LocalShare(op, regs[r][x].shares[n],
                         IF op \in BinaryOps THEN regs[r][program[k].y].shares[n] ELSE 0)
    BY <1>1, <1>2, <2>1, Zenon DEF LocalInv
  <2>4. CASE op \in BinaryOps
    BY <1>6, <1>7, <2>2, <2>3, <2>4
  <2>5. CASE op \notin BinaryOps
    BY <1>6, <1>7, <2>2, <2>3, <2>5
  <2> QED
    BY <2>4, <2>5
<1>9. Total(Kind(op), LocalShare(op, u, a), LocalShare(op, v, b), LocalShare(op, w, c))
        = LocalShare(op, Total(Kind(op), u, v, w), Total(Kind(op), a, b, c))
  <2>1. op = "not_b_1" => u \in {0, 1} /\ v \in {0, 1} /\ w \in {0, 1}
    BY <1>1, <1>2, <1>6
  <2> QED
    BY <2>1, LocalAddsUp
<1>10. plain[k] = LocalShare(op, plain[x],
                             IF op \in BinaryOps THEN plain[program[k].y] ELSE 0)
  <2>1. Promised(k, plain[k])
    BY PastPlain
  <2> QED
    BY <1>1, <1>2, <2>1, Zenon DEF Promised
<1> QED
  BY <1>1, <1>6, <1>7, <1>8, <1>9, <1>10 DEF Whole

\* multiply_a and and_b.
LEMMA WholeProduct ==
  ASSUME Types, FirstInv, PlainInv, PromiseInv, NEW mail, MailInv(mail),
         NEW p \in Parties, NEW q, q = Succ(p),
         NEW k \in Nat, k >= 2, k < pc[p], k < pc[q], program[k].op \in MultiplyOps,
         Whole(p, program[k].x), Whole(p, program[k].y)
  PROVE  Whole(p, k)
<1>1. PICK op \in MultiplyOps : op = program[k].op
  OBVIOUS
<1>2. k \in 2 .. Len(program) /\ program \in Programs
  BY PastInv DEF Types
<1>3. PICK x \in Nat \ {0}, y \in Nat \ {0} :
        /\ x = program[k].x /\ x \in 1 .. k - 1 /\ program[x].op \notin OpenOps
        /\ Kind(program[x].op) = OperandKind(op)
        /\ y = program[k].y /\ y \in 1 .. k - 1 /\ program[y].op \notin OpenOps
        /\ Kind(program[y].op) = OperandKind(op)
  <2>1. op \notin {"secret_share_a", "secret_share_b"} /\ op \in BinaryOps \cup MultiplyOps
    BY DEF MultiplyOps
  <2> QED
    BY <1>1, <1>2, <2>1, OperandFacts
<1>4. OperandKind(op) = Kind(op) /\ Exchanges(op) = 1
  BY DEF OperandKind, Kind, MultiplyOps, Exchanges
<1>5. PICK r \in Parties : r = Pred(p)
  BY Around
<1>6. /\ q \in Parties /\ Pred(q) = p /\ Succ(r) = p /\ Succ(q) = r
      /\ pc[p] \in Nat /\ pc[q] \in Nat /\ pc[r] \in Nat
  <2>1. q \in Parties /\ r \in Parties
    BY <1>5, Around
  <2>2. pc[p] \in Nat /\ pc[q] \in Nat /\ pc[r] \in Nat
    BY <2>1 DEF Types
  <2>3. Pred(q) = p /\ Succ(r) = p /\ Succ(q) = r
    BY ONLY <1>5, p \in Parties, q = Succ(p), Neighbours
  <2> QED
    BY <2>1, <2>2, <2>3
<1>7. /\ k <= pc[r]
      /\ mail[<<r, p>>][4 * k + 0] = Record(mail, r, k, 0)
      /\ mail[<<p, q>>][4 * k + 0] = Record(mail, p, k, 0)
      /\ mail[<<q, r>>][4 * k + 0] = Record(mail, q, k, 0)
  <2>1. 0 \in 0 .. 2 /\ 0 < Exchanges(op)
    BY <1>4
  <2>2. RecordInv(mail, p, k) /\ RecordInv(mail, q, k)
    BY <1>6, PastInv
  <2>3. /\ mail[<<p, q>>][4 * k + 0] = Record(mail, p, k, 0)
        /\ mail[<<q, r>>][4 * k + 0] = Record(mail, q, k, 0)
    BY <1>1, <1>6, <2>1, <2>2 DEF RecordInv
  <2> QED
    BY <1>1, <1>2, <1>5, <2>1, <2>3, HeardIsRecord
<1>8. x < pc[p] /\ x < pc[q] /\ x < pc[r] /\ y < pc[p] /\ y < pc[q] /\ y < pc[r]
  BY <1>3, <1>6, <1>7
<1> DEFINE Xs(s) == regs[s][x].shares
           Ys(s) == regs[s][y].shares
           Share(s) == ProductShare(Kind(op), Xs(s), Ys(s))
<1>9. /\ Xs(p) \in Sharings /\ Xs(q) \in Sharings /\ Xs(r) \in Sharings
      /\ Xs(p)[2] = Xs(r)[1] /\ Xs(q)[2] = Xs(p)[1] /\ Xs(r)[2] = Xs(q)[1]
  BY <1>3, <1>5, <1>8, OperandsUnite
<1>10. /\ Ys(p) \in Sharings /\ Ys(q) \in Sharings /\ Ys(r) \in Sharings
       /\ Ys(p)[2] = Ys(r)[1] /\ Ys(q)[2] = Ys(p)[1] /\ Ys(r)[2] = Ys(q)[1]
  BY <1>3, <1>5, <1>8, OperandsUnite
<1>11. Total(Kind(op), Share(p), Share(q), Share(r))
         = Times(Kind(op), Total(Kind(op), Xs(p)[1], Xs(q)[1], Xs(r)[1]),
                           Total(Kind(op), Ys(p)[1], Ys(q)[1], Ys(r)[1]))
  <2> HIDE DEF Xs, Ys
  <2> QED
    BY <1>9, <1>10, ProductAddsUp
<1>12. /\ Total(Kind(op), Xs(p)[1], Xs(q)[1], Xs(r)[1]) = plain[x]
       /\ Total(Kind(op), Ys(p)[1], Ys(q)[1], Ys(r)[1]) = plain[y]
  <2>1. /\ Total(Kind(op), Xs(p)[1], Xs(r)[1], Xs(q)[1]) = plain[x]
        /\ Total(Kind(op), Ys(p)[1], Ys(r)[1], Ys(q)[1]) = plain[y]
    BY <1>3, <1>4, <1>9, <1>10 DEF Whole
  <2>2. /\ Xs(p)[1] \in WordSet /\ Xs(q)[1] \in WordSet /\ Xs(r)[1] \in WordSet
        /\ Ys(p)[1] \in WordSet /\ Ys(q)[1] \in WordSet /\ Ys(r)[1] \in WordSet
    <3> HIDE DEF Xs, Ys
    <3> QED
      BY <1>9, <1>10 DEF Sharings
  <2> HIDE DEF Xs, Ys
  <2> QED
    BY <2>1, <2>2, TotalTurns
<1>13. \A s \in Parties : Record(mail, s, k, 0) = Share(s)
  BY <1>1, <1>3 DEF Record, MultiplyOps, OpenOps
<1>14. /\ regs[p][k].shares[1] = Share(p) /\ regs[p][k].shares[2] = Share(r)
       /\ regs[q][k].shares[1] = Share(q)
  <2>1. Exchanged(mail, p, k, k, 0) /\ Exchanged(mail, q, k, k, 0)
    <3>1. ResultInv(mail, p, k) /\ ResultInv(mail, q, k)
      BY <1>6, PastInv
    <3> QED
      BY <3>1 DEF ResultInv
  <2>2. /\ regs[p][k].shares[1] = mail[<<p, q>>][4 * k + 0]
        /\ regs[p][k].shares[2] = mail[<<r, p>>][4 * k + 0]
        /\ regs[q][k].shares[1] = mail[<<q, r>>][4 * k + 0]
    BY <1>5, <1>6, <2>1 DEF Exchanged
  <2> HIDE DEF Share
  <2> QED
    BY <1>6, <1>7, <1>13, <2>2
<1>15. plain[k] = Times(Kind(op), plain[x], plain[y])
  <2>1. Promised(k, plain[k])
    BY PastPlain
  <2> QED
    BY <1>1, <1>3, <2>1 DEF Promised
<1>16. Total(Kind(op), Share(p), Share(r), Share(q)) = Total(Kind(op), Share(p), Share(q), Share(r))
  <2>1. /\ Share(p) \in WordSet /\ Share(q) \in WordSet /\ Share(r) \in WordSet
    <3> HIDE DEF Xs, Ys
    <3> QED
      BY <1>9, <1>10, ProductIsWord
  <2> HIDE DEF Share
  <2> QED
    BY <2>1, TotalTurns
<1> HIDE DEF Share, Xs, Ys
<1> QED
  BY <1>1, <1>11, <1>12, <1>14, <1>15, <1>16 DEF Whole

\* b2a_bit: everybody opens the low bit, and their parts of it add up to it.
LEMMA WholeBits ==
  ASSUME Types, FirstInv, PlainInv, PromiseInv, NEW mail, MailInv(mail),
         NEW p \in Parties, NEW q, q = Succ(p),
         NEW k \in Nat, k >= 2, k < pc[p], k < pc[q], program[k].op = "b2a_bit",
         Whole(p, program[k].x)
  PROVE  Whole(p, k)
<1>2. k \in 2 .. Len(program) /\ program \in Programs
  BY PastInv DEF Types
<1>3. PICK x \in Nat \ {0} : /\ x = program[k].x /\ x \in 1 .. k - 1
                             /\ program[x].op \notin OpenOps /\ Kind(program[x].op) = "b"
  <2>1. OperandKind("b2a_bit") = "b"
    BY DEF OperandKind
  <2> QED
    BY <1>2, <2>1, OperandFacts
<1>4. Kind("b2a_bit") = "a" /\ Exchanges("b2a_bit") = 3
  BY DEF Kind, MultiplyOps, OpenOps, Exchanges
<1>5. PICK r \in Parties : r = Pred(p)
  BY Around
<1>6. /\ q \in Parties /\ Pred(q) = p /\ Succ(r) = p /\ Succ(q) = r /\ Pred(r) = q
      /\ pc[p] \in Nat /\ pc[q] \in Nat /\ pc[r] \in Nat
  <2>1. q \in Parties /\ r \in Parties
    BY <1>5, Around
  <2>2. pc[p] \in Nat /\ pc[q] \in Nat /\ pc[r] \in Nat
    BY <2>1 DEF Types
  <2>3. Pred(q) = p /\ Succ(r) = p /\ Succ(q) = r /\ Pred(r) = q
    BY ONLY <1>5, p \in Parties, q = Succ(p), Neighbours
  <2> QED
    BY <2>1, <2>2, <2>3
<1>7. /\ k <= pc[r]
      /\ \A j \in 0 .. 2 : /\ mail[<<r, p>>][4 * k + j] = Record(mail, r, k, j)
                           /\ mail[<<p, q>>][4 * k + j] = Record(mail, p, k, j)
                           /\ mail[<<q, r>>][4 * k + j] = Record(mail, q, k, j)
  <2>1. \A j \in 0 .. 2 : j < Exchanges(program[k].op)
    BY <1>4
  <2>2. RecordInv(mail, p, k) /\ RecordInv(mail, q, k)
    BY <1>6, PastInv
  <2>3. \A j \in 0 .. 2 : /\ mail[<<p, q>>][4 * k + j] = Record(mail, p, k, j)
                          /\ mail[<<q, r>>][4 * k + j] = Record(mail, q, k, j)
    BY <1>6, <2>1, <2>2 DEF RecordInv
  <2>4. \A j \in 0 .. 2 : k <= pc[r] /\ mail[<<r, p>>][4 * k + j] = Record(mail, r, k, j)
    BY <1>2, <1>5, <2>1, HeardIsRecord
  <2> QED
    BY <2>3, <2>4
<1>8. x < pc[p] /\ x < pc[q] /\ x < pc[r]
  BY <1>3, <1>6, <1>7
<1> DEFINE Xs(s) == regs[s][x].shares
           Low(s) == Masked(Xs(s))
           heard(s) == mail[<<Pred(s), s>>]
<1>9. /\ Xs(p) \in Sharings /\ Xs(q) \in Sharings /\ Xs(r) \in Sharings
      /\ Xs(p)[2] = Xs(r)[1] /\ Xs(q)[2] = Xs(p)[1] /\ Xs(r)[2] = Xs(q)[1]
  BY <1>3, <1>5, <1>8, OperandsUnite
<1>10. \A s \in Parties :
         /\ Record(mail, s, k, 0) = Low(s)
         /\ Record(mail, s, k, 1) = heard(s)[4 * k]
         /\ Record(mail, s, k, 2) = BitPart(s, Opened("b", <<Low(s), heard(s)[4 * k]>>,
                                                      heard(s)[4 * k + 1]))
  BY <1>3 DEF Record, MultiplyOps, OpenOps
<1>11. /\ mail[<<r, p>>][4 * k] = Low(r) /\ mail[<<p, q>>][4 * k] = Low(p)
       /\ mail[<<q, r>>][4 * k] = Low(q)
  <2>1. 0 \in 0 .. 2 /\ 4 * k + 0 = 4 * k
    OBVIOUS
  <2> HIDE DEF Low
  <2> QED
    BY <1>6, <1>7, <1>10, <2>1
<1>12. /\ mail[<<r, p>>][4 * k + 1] = Low(q) /\ mail[<<p, q>>][4 * k + 1] = Low(r)
       /\ mail[<<q, r>>][4 * k + 1] = Low(p)
  <2>1. 1 \in 0 .. 2
    OBVIOUS
  <2>2. heard(r) = mail[<<q, r>>] /\ heard(p) = mail[<<r, p>>] /\ heard(q) = mail[<<p, q>>]
    BY <1>5, <1>6
  <2>3. /\ mail[<<r, p>>][4 * k + 1] = Record(mail, r, k, 1)
        /\ mail[<<p, q>>][4 * k + 1] = Record(mail, p, k, 1)
        /\ mail[<<q, r>>][4 * k + 1] = Record(mail, q, k, 1)
    BY <1>7, <2>1
  <2>4. /\ Record(mail, r, k, 1) = heard(r)[4 * k] /\ Record(mail, p, k, 1) = heard(p)[4 * k]
        /\ Record(mail, q, k, 1) = heard(q)[4 * k]
    BY <1>6, <1>10
  <2> HIDE DEF Low, heard
  <2> QED
    BY <1>11, <2>2, <2>3, <2>4
<1> DEFINE Bits(s, t, u) == Opened("b", <<Low(s), Low(t)>>, Low(u))
<1>13. /\ mail[<<r, p>>][4 * k + 2] = BitPart(r, Bits(r, q, p))
       /\ mail[<<p, q>>][4 * k + 2] = BitPart(p, Bits(p, r, q))
       /\ mail[<<q, r>>][4 * k + 2] = BitPart(q, Bits(q, p, r))
  <2>1. 2 \in 0 .. 2
    OBVIOUS
  <2>2. heard(r) = mail[<<q, r>>] /\ heard(p) = mail[<<r, p>>] /\ heard(q) = mail[<<p, q>>]
    BY <1>5, <1>6
  <2> HIDE DEF Low, heard
  <2> QED
    BY <1>6, <1>7, <1>10, <1>11, <1>12, <2>1, <2>2
<1>14. PICK bit \in {0, 1} : /\ bit = LowBit(plain[x]) /\ Bits(r, q, p) = bit
                             /\ Bits(p, r, q) = bit /\ Bits(q, p, r) = bit
  <2>1. PICK u \in WordSet, v \in WordSet, w \in WordSet :
          u = Xs(p)[1] /\ v = Xs(r)[1] /\ w = Xs(q)[1]
    <3> HIDE DEF Xs
    <3>1. Xs(p)[1] \in WordSet /\ Xs(q)[1] \in WordSet /\ Xs(r)[1] \in WordSet
      BY <1>9 DEF Sharings
    <3> QED
      BY <3>1
  <2>2. Total("b", u, v, w) = plain[x]
    <3>1. Whole(p, x)
      BY <1>3
    <3>2. Total("b", regs[p][x].shares[1], regs[p][x].shares[2], regs[q][x].shares[1]) = plain[x]
      BY <1>3, <3>1, Zenon DEF Whole
    <3> QED
      BY <1>9, <2>1, <3>2
  <2>3. Low(p) = LowBit(u) /\ Low(r) = LowBit(v) /\ Low(q) = LowBit(w)
    <3> HIDE DEF Xs
    <3> QED
      BY <1>9, <2>1, MaskedIs
  <2>4. LowBit(u) \in WordSet /\ LowBit(v) \in WordSet /\ LowBit(w) \in WordSet
    BY Closure
  <2>5. /\ Total("b", LowBit(u), LowBit(v), LowBit(w)) = LowBit(plain[x])
        /\ LowBit(plain[x]) \in {0, 1}
    BY <2>2, LowBitsAddUp
  <2>6. \A a, b, c : Opened("b", <<a, b>>, c) = Total("b", a, b, c)
    BY DEF Opened, Total
  <2>7. /\ Bits(p, r, q) = Total("b", LowBit(u), LowBit(v), LowBit(w))
        /\ Bits(r, q, p) = Total("b", LowBit(v), LowBit(w), LowBit(u))
        /\ Bits(q, p, r) = Total("b", LowBit(w), LowBit(u), LowBit(v))
    <3> HIDE DEF Low
    <3> QED
      BY <2>3, <2>6
  <2>8. /\ Total("b", LowBit(v), LowBit(w), LowBit(u)) = Total("b", LowBit(u), LowBit(v), LowBit(w))
        /\ Total("b", LowBit(w), LowBit(u), LowBit(v)) = Total("b", LowBit(u), LowBit(v), LowBit(w))
    BY <2>4, TotalTurns
  <2> HIDE DEF Bits
  <2> QED
    BY <2>5, <2>7, <2>8
<1> HIDE DEF Bits
<1>15. /\ regs[p][k].shares[1] = BitPart(p, bit) /\ regs[p][k].shares[2] = BitPart(r, bit)
       /\ regs[q][k].shares[1] = BitPart(q, bit)
  <2>1. Exchanged(mail, p, k, k, 2) /\ Exchanged(mail, q, k, k, 2)
    <3>1. ResultInv(mail, p, k) /\ ResultInv(mail, q, k)
      BY <1>6, PastInv
    <3> QED
      BY <3>1 DEF ResultInv
  <2>2. /\ regs[p][k].shares[1] = mail[<<p, q>>][4 * k + 2]
        /\ regs[p][k].shares[2] = mail[<<r, p>>][4 * k + 2]
        /\ regs[q][k].shares[1] = mail[<<q, r>>][4 * k + 2]
    BY <1>5, <1>6, <2>1 DEF Exchanged
  <2> QED
    BY <1>13, <1>14, <2>2
<1>16. Total("a", BitPart(p, bit), BitPart(r, bit), BitPart(q, bit)) = bit
  <2>1. PICK a \in WordSet, b \in WordSet, c \in WordSet :
          a = BitPart(0, bit) /\ b = BitPart(1, bit) /\ c = BitPart(2, bit)
    <3>1. 0 \in 0 .. 2 /\ 1 \in 0 .. 2 /\ 2 \in 0 .. 2
      OBVIOUS
    <3> QED
      BY <3>1, BitPartsAddUp
  <2>2. Total("a", a, b, c) = bit
    BY <2>1, BitPartsAddUp
  <2>3. /\ Total("a", a, c, b) = bit /\ Total("a", b, a, c) = bit /\ Total("a", c, b, a) = bit
    BY <2>2, TotalTurns
  <2>4. \/ p = 0 /\ r = 2 /\ q = 1
        \/ p = 1 /\ r = 0 /\ q = 2
        \/ p = 2 /\ r = 1 /\ q = 0
    BY <1>5, Neighbours
  <2> QED
    BY <2>1, <2>3, <2>4
<1>17. plain[k] = bit
  <2>1. Promised(k, plain[k])
    BY PastPlain
  <2> QED
    BY <1>3, <1>14, <2>1 DEF Promised
<1> QED
  BY <1>4, <1>15, <1>16, <1>17 DEF Whole

\* What a data party has dealt.
LEMMA WholeDealt ==
  ASSUME Types, NEW mail, MailInv(mail), NEW p \in Parties, NEW q, q = Succ(p),
         NEW k \in Nat, k >= 2, k < pc[p], k < pc[q], program[k].op \in ShareOps
  PROVE  Whole(p, k)
<1>1. k \in 2 .. Len(program) /\ program \in Programs /\ k \in 1 .. Len(program)
  BY PastInv, Instructions DEF Types
<1>2. PICK kind \in {"a", "b"}, d \in Parties : kind = Kind(program[k].op) /\ d = program[k].party
  BY <1>1, Instructions DEF Kind
<1>3. /\ q \in Parties /\ q # p /\ Pred(q) = p
      /\ \A s \in Parties : CountInv(s) /\ pc[s] \in Nat
      /\ \A s, t \in Parties : LinkInv(mail, s, t)
  BY Around DEF MailInv, Types
<1>4. ShareInv(mail, p, k) /\ ShareInv(mail, q, k)
  <2>1. ResultInv(mail, p, k) /\ ResultInv(mail, q, k)
    BY <1>3, PastInv
  <2> QED
    BY <2>1 DEF ResultInv
<1>5. \A s \in Parties : \A j \in 0 .. 2 : d # s /\ j < 2 /\ k < pc[s] => 4 * k + j < SendPos(d, s)
  <2> TAKE s \in Parties, j \in 0 .. 2
  <2> HAVE d # s /\ j < 2 /\ k < pc[s]
  <2>1. d = Source(k, s) /\ Heard(k, s) = 2
    BY <1>2 DEF Source, Heard
  <2> QED
    BY <1>1, <1>3, <2>1, HeardIsSent
<1>6. d \in {p, q} =>
        \A s \in Parties : \A j \in 0 .. 2 : 4 * k + j < SendPos(d, s)
  <2> SUFFICES ASSUME d \in {p, q}, NEW s \in Parties, NEW j \in 0 .. 2
               PROVE  4 * k + j < SendPos(d, s)
    OBVIOUS
  <2>1. k < pc[d] /\ pc[d] \in Nat /\ SentOn(d, s) \in Nat
    BY <1>3, Positions
  <2>2. \A a, b, c \in Nat : a < b => 4 * a + j < 4 * b + c
    OBVIOUS
  <2> QED
    BY <2>1, <2>2 DEF SendPos
<1>7. 4 * k < SendPos(d, Succ(d)) /\ 4 * k + 1 < SendPos(d, Pred(d))
  <2>1. 0 \in 0 .. 2 /\ 1 \in 0 .. 2 /\ 4 * k + 0 = 4 * k
    OBVIOUS
  <2>2. CASE d \in {p, q}
    BY <1>6, <2>1, <2>2, Around
  <2>3. CASE d \notin {p, q}
    <3>1. p = Succ(d) /\ q = Pred(d)
      BY <2>3, Neighbours
    <3>2. 4 * k + 0 < SendPos(d, p) /\ 4 * k + 1 < SendPos(d, q)
      BY <1>3, <1>5, <2>1, <2>3
    <3> QED
      BY <2>1, <3>1, <3>2
  <2> QED
    BY <2>2, <2>3
<1> DEFINE a == mail[<<d, Succ(d)>>][4 * k + 1]
           b == mail[<<d, Pred(d)>>][4 * k]
           c == mail[<<d, Succ(d)>>][4 * k]
<1>8. c = mail[<<d, Pred(d)>>][4 * k + 1] /\ Total(kind, a, b, c) = plain[k]
  BY <1>1, <1>2, <1>7 DEF MailInv, DealtInv
<1>9. a \in WordSet /\ b \in WordSet /\ c \in WordSet
  <2>1. mail \in [Links -> [Nat -> WordSet]]
    BY DEF MailInv
  <2>2. <<d, Succ(d)>> \in Links /\ <<d, Pred(d)>> \in Links
    BY Around DEF Links
  <2>3. 4 * k \in Nat /\ 4 * k + 1 \in Nat
    OBVIOUS
  <2> QED
    BY <2>1, <2>2, <2>3
<1>10. /\ Total(kind, a, b, c) = Total(kind, b, c, a)
       /\ Total(kind, a, b, c) = Total(kind, c, a, b)
  <2> HIDE DEF a, b, c
  <2> QED
    BY <1>9, TotalTurns
<1>11. CASE p = d
  <2>1. regs[p][k].shares[1] = a /\ regs[p][k].shares[2] = b
    BY <1>2, <1>4, <1>11 DEF ShareInv
  <2>2. regs[q][k].shares[1] = c
    BY <1>2, <1>3, <1>4, <1>11 DEF ShareInv
  <2> HIDE DEF a, b, c
  <2> QED
    BY <1>2, <1>8, <2>1, <2>2 DEF Whole
<1>12. CASE q = d
  <2>1. p = Pred(d) /\ p # d
    BY <1>3, <1>12
  <2>2. regs[p][k].shares[1] = b /\ regs[p][k].shares[2] = c
    BY <1>2, <1>4, <1>8, <2>1 DEF ShareInv
  <2>3. regs[q][k].shares[1] = a
    BY <1>2, <1>4, <1>12 DEF ShareInv
  <2> HIDE DEF a, b, c
  <2> QED
    BY <1>2, <1>8, <1>10, <2>2, <2>3 DEF Whole
<1>13. CASE p # d /\ q # d
  <2>1. p = Succ(d) /\ q = Pred(d)
    BY <1>13, Neighbours
  <2>2. regs[p][k].shares[1] = c /\ regs[p][k].shares[2] = a
    BY <1>2, <1>4, <1>13, <2>1 DEF ShareInv
  <2>3. regs[q][k].shares[1] = b
    BY <1>2, <1>4, <1>13, <2>1 DEF ShareInv
  <2> HIDE DEF a, b, c
  <2> QED
    BY <1>2, <1>8, <1>10, <2>2, <2>3 DEF Whole
<1> QED
  BY <1>11, <1>12, <1>13

LEMMA BitsOfProduct ==
  ASSUME NEW x \in Sharings, NEW y \in Sharings, x[1] \in {0, 1}, x[2] \in {0, 1},
         y[1] \in {0, 1}, y[2] \in {0, 1}
  PROVE  ProductShare("b", x, y) \in {0, 1}
<1>1. \A u, v \in {0, 1} : Times("b", u, v) \in {0, 1} /\ Plus("b", u, v) \in {0, 1}
  <2>1. "b" # "a"
    OBVIOUS
  <2> QED
    BY <2>1, SingleBits DEF Times, Plus
<1>2. /\ Times("b", x[1], y[1]) \in {0, 1} /\ Times("b", x[1], y[2]) \in {0, 1}
      /\ Times("b", x[2], y[1]) \in {0, 1}
  BY <1>1
<1>3. \A u, v, w \in {0, 1} : Total("b", u, v, w) \in {0, 1}
  BY <1>1 DEF Total
<1> QED
  BY <1>2, <1>3, ProductShareIs

\* Of what comparisons return, and is computed from it, every share is a single
\* bit: the first instruction with another share would have got it from one before.
LEMMA SingleBitShares ==
  ASSUME Types, NEW mail, MailInv(mail),
         NEW bits \in SUBSET (1 .. Len(program)), \A k \in bits : SingleBit(program, k, bits)
  PROVE  \A k \in bits : \A p \in Parties : k < pc[p] =>
           regs[p][k].shares[1] \in {0, 1} /\ regs[p][k].shares[2] \in {0, 1}
<1> DEFINE Right(k) == \A p \in Parties : k < pc[p] =>
                         regs[p][k].shares[1] \in {0, 1} /\ regs[p][k].shares[2] \in {0, 1}
           T == {k \in bits : ~Right(k)}
<1>1. SUFFICES ASSUME T # {} PROVE FALSE
  OBVIOUS
<1>2. PICK k \in T : \A n \in T : ~(n < k)
  <2>1. T \subseteq Nat
    <3>1. T \subseteq bits
      OBVIOUS
    <3>2. bits \subseteq Nat
      OBVIOUS
    <3> HIDE DEF T
    <3> QED
      BY <3>1, <3>2
  <2> HIDE DEF T
  <2> QED
    BY <1>1, <2>1, Least
<1>3. k \in bits /\ ~Right(k) /\ SingleBit(program, k, bits) /\ program \in Programs
  BY DEF Types
<1>4. Len(program) \in Nat /\ k \in 1 .. Len(program) /\ k \in Nat
  BY <1>3, Instructions
<1>5. k # 1
  <2>1. program[1].op \in {"secret_share_a", "secret_share_b"}
    BY <1>3, Instructions
  <2> QED
    BY <1>3, <2>1 DEF SingleBit
<1>6. k \in 2 .. Len(program) /\ k >= 2
  BY <1>4, <1>5
<1>7. PICK op \in {"ltz", "not_b_1", "xor_b", "and_b"} : op = program[k].op
  BY <1>3 DEF SingleBit
<1>8. op # "ltz" => /\ program[k].x \in bits /\ program[k].x \in 1 .. k - 1
                    /\ program[program[k].x].op \notin OpenOps /\ Right(program[k].x)
  <2> SUFFICES ASSUME op # "ltz" PROVE /\ program[k].x \in bits /\ program[k].x \in 1 .. k - 1
                    /\ program[program[k].x].op \notin OpenOps /\ Right(program[k].x)
    OBVIOUS
  <2>1. program[k].x \in bits
    BY <1>3, <1>7 DEF SingleBit
  <2>2. program[k].x \in 1 .. k - 1 /\ program[program[k].x].op \notin OpenOps
    BY <1>3, <1>4, <1>7, Instructions
  <2>3. program[k].x < k
    BY <1>4, <2>2
  <2>4. program[k].x \notin T
    BY <1>2, <2>3
  <2> HIDE DEF Right
  <2> QED
    BY <2>1, <2>2, <2>4
<1>9. op \in {"xor_b", "and_b"} =>
        /\ program[k].y \in bits /\ program[k].y \in 1 .. k - 1
        /\ program[program[k].y].op \notin OpenOps /\ Right(program[k].y)
  <2> SUFFICES ASSUME op \in {"xor_b", "and_b"}
               PROVE  /\ program[k].y \in bits /\ program[k].y \in 1 .. k - 1
                      /\ program[program[k].y].op \notin OpenOps /\ Right(program[k].y)
    OBVIOUS
  <2>1. program[k].y \in bits
    BY <1>3, <1>7 DEF SingleBit
  <2>2. program[k].y \in 1 .. k - 1 /\ program[program[k].y].op \notin OpenOps
    BY <1>3, <1>4, <1>7, Instructions DEF BinaryOps, MultiplyOps
  <2>3. program[k].y < k
    BY <1>4, <2>2
  <2>4. program[k].y \notin T
    BY <1>2, <2>3
  <2> HIDE DEF Right
  <2> QED
    BY <2>1, <2>2, <2>4
<1>10. ASSUME NEW p \in Parties, k < pc[p], op # "and_b"
       PROVE  regs[p][k].shares[1] \in {0, 1} /\ regs[p][k].shares[2] \in {0, 1}
  <2>1. LocalInv(p, k)
    <3>1. ResultInv(mail, p, k)
      BY <1>4, <1>6, <1>10, PastInv
    <3>2. op \in LocalOps
      BY <1>7, <1>10 DEF LocalOps, UnaryOps, BinaryOps
    <3> QED
      BY <1>7, <3>1, <3>2 DEF ResultInv
  <2> DEFINE xs == regs[p][program[k].x].shares
             ys == regs[p][program[k].y].shares
  <2>2. \A n \in 1 .. 2 :
          regs[p][k].shares[n] = LocalShare(op, xs[n], IF op \in BinaryOps THEN ys[n] ELSE 0)
    BY <1>7, <2>1, Zenon DEF LocalInv
  <2>3. ASSUME NEW n \in 1 .. 2 PROVE regs[p][k].shares[n] \in {0, 1}
    <3>1. CASE op \in {"ltz", "not_b_1"}
      <4>1. \A u, v : LocalShare(op, u, v) \in {0, 1}
        BY <3>1 DEF LocalShare, Truth
      <4> QED
        BY <2>2, <2>3, <4>1
    <3>2. CASE op = "xor_b"
      <4>1. program[k].x < pc[p] /\ program[k].y < pc[p] /\ pc[p] \in Nat
        BY <1>4, <1>8, <1>9, <1>10, <3>2 DEF Types
      <4>2. /\ xs[1] \in {0, 1} /\ xs[2] \in {0, 1} /\ ys[1] \in {0, 1} /\ ys[2] \in {0, 1}
        BY <1>8, <1>9, <3>2, <4>1
      <4>3. xs[n] \in {0, 1} /\ ys[n] \in {0, 1}
        <5>1. n = 1 \/ n = 2
          OBVIOUS
        <5> QED
          BY <4>2, <5>1
      <4>4. \A u, v \in {0, 1} : LocalShare("xor_b", u, v) \in {0, 1}
        BY SingleBits DEF LocalShare
      <4>5. regs[p][k].shares[n] = LocalShare("xor_b", xs[n], ys[n])
        BY <2>2, <2>3, <3>2 DEF BinaryOps
      <4> HIDE DEF xs, ys
      <4> QED
        BY <4>3, <4>4, <4>5
    <3> QED
      BY <1>7, <1>10, <3>1, <3>2
  <2> QED
    BY <2>3
<1>11. ASSUME NEW p \in Parties, k <= pc[p], op = "and_b"
       PROVE  Record(mail, p, k, 0) \in {0, 1}
  <2>1. PICK x \in Nat \ {0}, y \in Nat \ {0} :
          /\ x = program[k].x /\ x < k /\ program[x].op \notin OpenOps /\ Right(x)
          /\ y = program[k].y /\ y < k /\ program[y].op \notin OpenOps /\ Right(y)
    <3> HIDE DEF Right
    <3>1. \A x \in 1 .. k - 1 : x \in Nat \ {0} /\ x < k
      BY <1>4
    <3> QED
      BY <1>8, <1>9, <1>11, <3>1
  <2>2. x < pc[p] /\ y < pc[p]
    <3>1. pc[p] \in Nat
      BY DEF Types
    <3> QED
      BY <1>4, <1>11, <2>1, <3>1
  <2>3. regs[p][x].shares \in Sharings /\ regs[p][y].shares \in Sharings
    BY <2>1, <2>2, PastResult
  <2>4. /\ regs[p][x].shares[1] \in {0, 1} /\ regs[p][x].shares[2] \in {0, 1}
        /\ regs[p][y].shares[1] \in {0, 1} /\ regs[p][y].shares[2] \in {0, 1}
    BY <2>1, <2>2
  <2>5. ProductShare("b", regs[p][x].shares, regs[p][y].shares) \in {0, 1}
    BY <2>3, <2>4, BitsOfProduct
  <2>6. Kind("and_b") = "b" /\ "and_b" \in MultiplyOps
    BY DEF Kind, MultiplyOps
  <2>7. Record(mail, p, k, 0) = ProductShare("b", regs[p][x].shares, regs[p][y].shares)
    <3>1. program[k].op = "and_b" /\ "and_b" \notin OpenOps /\ "and_b" \in MultiplyOps
      BY <1>7, <1>11 DEF OpenOps, MultiplyOps
    <3>2. program[k].x = x /\ program[k].y = y
      BY <2>1
    <3> HIDE DEF Right
    <3> QED
      BY <2>6, <3>1, <3>2 DEF Record, MultiplyOps, OpenOps
  <2> QED
    BY <2>5, <2>7
<1>12. ASSUME NEW p \in Parties, k < pc[p], op = "and_b"
       PROVE  regs[p][k].shares[1] \in {0, 1} /\ regs[p][k].shares[2] \in {0, 1}
  <2>1. PICK r \in Parties : r = Pred(p)
    BY Around
  <2>2. 0 \in 0 .. 2 /\ 0 < Exchanges(program[k].op) /\ op \in MultiplyOps
    BY <1>7, <1>12 DEF Exchanges, MultiplyOps
  <2>3. Exchanged(mail, p, k, k, 0) /\ RecordInv(mail, p, k)
    <3>1. ResultInv(mail, p, k) /\ RecordInv(mail, p, k)
      BY <1>4, <1>6, <1>12, PastInv
    <3> QED
      BY <1>7, <2>2, <3>1 DEF ResultInv
  <2>4. mail[<<p, Succ(p)>>][4 * k + 0] = Record(mail, p, k, 0)
    BY <2>2, <2>3 DEF RecordInv
  <2>5. k <= pc[r] /\ mail[<<r, p>>][4 * k + 0] = Record(mail, r, k, 0)
    BY <1>6, <1>12, <2>1, <2>2, HeardIsRecord
  <2>6. k <= pc[p]
    <3>1. pc[p] \in Nat
      BY DEF Types
    <3> QED
      BY <1>4, <1>12, <3>1
  <2>7. Record(mail, p, k, 0) \in {0, 1} /\ Record(mail, r, k, 0) \in {0, 1}
    BY <1>11, <1>12, <2>5, <2>6
  <2>8. /\ regs[p][k].shares[1] = mail[<<p, Succ(p)>>][4 * k + 0]
        /\ regs[p][k].shares[2] = mail[<<r, p>>][4 * k + 0]
    BY <2>1, <2>3 DEF Exchanged
  <2> QED
    BY <2>4, <2>5, <2>7, <2>8
<1>13. Right(k)
  BY <1>10, <1>12
<1> QED
  BY <1>3, <1>13

\* Two neighbours' shares add up to the plaintext, in all instructions both are
\* past: otherwise in all the first one's operands come from, but not in it.
LEMMA WholeAlways ==
  ASSUME Types, FirstInv, PlainInv, PromiseInv, NEW mail, MailInv(mail),
         NEW p \in Parties, NEW q, q = Succ(p)
  PROVE  \A k \in Nat \ {0} :
           /\ k < pc[p] /\ k < pc[q]
           /\ program[k].op \notin OpenOps /\ program[k].op # "div_const_a"
           => Whole(p, k)
<1> DEFINE Past(k) == /\ k < pc[p] /\ k < pc[q]
                      /\ program[k].op \notin OpenOps /\ program[k].op # "div_const_a"
           T == {k \in Nat \ {0} : Past(k) /\ ~Whole(p, k)}
<1>1. SUFFICES ASSUME T # {} PROVE FALSE
  OBVIOUS
<1>2. PICK k \in T : \A n \in T : ~(n < k)
  <2>1. T \subseteq Nat
    OBVIOUS
  <2> HIDE DEF T
  <2> QED
    BY <1>1, <2>1, Least
<1>3. k \in Nat \ {0} /\ Past(k) /\ ~Whole(p, k)
  OBVIOUS
<1>4. pc[p] \in Nat /\ pc[q] \in Nat /\ q \in Parties /\ program \in Programs
  BY Around DEF Types
<1>5. k # 1
  BY <1>3, WholeFirst
<1>6. k >= 2 /\ k \in Nat
  BY <1>3, <1>5
<1>7. k \in 2 .. Len(program)
  BY <1>3, <1>6, PastInv
<1>8. ASSUME NEW x, x \in 1 .. k - 1, x \in Nat \ {0},
             program[x].op \notin OpenOps, program[x].op # "div_const_a"
      PROVE  Whole(p, x) /\ x < pc[p] /\ x < pc[q]
  <2>1. x < k /\ x < pc[p] /\ x < pc[q]
    BY <1>3, <1>4, <1>8
  <2>2. x \notin T
    BY <1>2, <2>1
  <2> QED
    BY <1>8, <2>1, <2>2
<1> HIDE DEF T
<1>9. program[k].op \in Operations
  BY <1>4, <1>7, OperandFacts
<1>10. CASE program[k].op \in LocalOps
  <2>1. program[k].op \notin {"secret_share_a", "secret_share_b"}
    BY <1>10 DEF LocalOps, UnaryOps, BinaryOps
  <2>2. Whole(p, program[k].x) /\ program[k].x < pc[p] /\ program[k].x < pc[q]
    BY <1>4, <1>7, <1>8, <2>1, OperandFacts
  <2>3. program[k].op \in BinaryOps => Whole(p, program[k].y)
    BY <1>4, <1>7, <1>8, OperandFacts
  <2>4. program[k].op = "not_b_1" =>
          /\ regs[p][program[k].x].shares[1] \in {0, 1}
          /\ regs[p][program[k].x].shares[2] \in {0, 1}
          /\ regs[q][program[k].x].shares[1] \in {0, 1}
    <3>1. PICK bits \in SUBSET (1 .. Len(program)) :
            /\ \A n \in bits : SingleBit(program, n, bits)
            /\ \A n \in 1 .. Len(program) : program[n].op = "not_b_1" => program[n].x \in bits
      BY <1>4, OperandTypesAssumption, Zenon
    <3>2. k \in 1 .. Len(program)
      BY <1>4, <1>7, OperandFacts
    <3>3. \A n \in bits : \A r \in Parties : n < pc[r] =>
            regs[r][n].shares[1] \in {0, 1} /\ regs[r][n].shares[2] \in {0, 1}
      BY <3>1, SingleBitShares
    <3> QED
      BY <1>4, <2>2, <3>1, <3>2, <3>3
  <2> QED
    BY <1>3, <1>6, <1>10, <2>2, <2>3, <2>4, WholeLocal
<1>11. CASE program[k].op \in MultiplyOps
  <2>1. program[k].op \notin {"secret_share_a", "secret_share_b"}
    BY <1>11 DEF MultiplyOps
  <2>2. Whole(p, program[k].x) /\ Whole(p, program[k].y)
    BY <1>4, <1>7, <1>8, <1>11, <2>1, OperandFacts
  <2> QED
    BY <1>3, <1>6, <1>11, <2>2, WholeProduct
<1>12. CASE program[k].op = "b2a_bit"
  <2>1. Whole(p, program[k].x)
    BY <1>4, <1>7, <1>8, <1>12, OperandFacts
  <2> QED
    BY <1>3, <1>6, <1>12, <2>1, WholeBits
<1>13. CASE program[k].op \in ShareOps
  BY <1>3, <1>6, <1>13, WholeDealt
<1> QED
  BY <1>3, <1>9, <1>10, <1>11, <1>12, <1>13 DEF Operations

\* Whoever is past an opening has the plaintext.
LEMMA OpenedWord ==
  ASSUME Types, FirstInv, PlainInv, PromiseInv, NEW mail, MailInv(mail), NEW p \in Parties,
         NEW k \in Nat, k >= 2, k < pc[p], program[k].op \in OpenOps
  PROVE  regs[p][k].shares[1] = plain[k]
<1>1. PICK op \in OpenOps : op = program[k].op
  OBVIOUS
<1>2. k \in 2 .. Len(program) /\ program \in Programs
  BY PastInv DEF Types
<1>3. PICK x \in Nat \ {0} : /\ x = program[k].x /\ x \in 1 .. k - 1 /\ program[x].op \notin OpenOps
                             /\ program[x].op # "div_const_a"
                             /\ Kind(program[x].op) = OperandKind(op)
  <2>1. op \notin {"secret_share_a", "secret_share_b"}
    BY DEF OpenOps
  <2> QED
    BY <1>1, <1>2, <2>1, OperandFacts
<1>4. OperandKind(op) = Kind(op) /\ Exchanges(op) = 1
  BY DEF OperandKind, Kind, MultiplyOps, OpenOps, Exchanges
<1>5. PICK r \in Parties : r = Pred(p)
  BY Around
<1>6. Succ(r) = p /\ pc[p] \in Nat /\ pc[r] \in Nat
  BY <1>5, Around DEF Types
<1>7. k <= pc[r] /\ mail[<<r, p>>][4 * k] = regs[r][x].shares[2]
  <2>1. 0 \in 0 .. 2 /\ 0 < Exchanges(op) /\ 4 * k + 0 = 4 * k
    BY <1>4
  <2>2. k <= pc[r] /\ mail[<<r, p>>][4 * k + 0] = Record(mail, r, k, 0)
    BY <1>1, <1>2, <1>5, <2>1, HeardIsRecord
  <2>3. Record(mail, r, k, 0) = regs[r][x].shares[2]
    BY <1>1, <1>3 DEF Record, MultiplyOps, OpenOps
  <2> QED
    BY <2>1, <2>2, <2>3
<1>8. x < pc[p] /\ x < pc[r]
  BY <1>3, <1>6, <1>7
<1>9. PICK u \in WordSet, v \in WordSet, w \in WordSet :
        /\ u = regs[p][x].shares[1] /\ v = regs[p][x].shares[2] /\ w = regs[r][x].shares[2]
        /\ v = regs[r][x].shares[1]
  <2>1. /\ regs[p][x].shares[1] \in WordSet /\ regs[p][x].shares[2] \in WordSet
        /\ regs[r][x].shares[2] \in WordSet
    BY <1>3, <1>8, PastResult
  <2>2. regs[p][x].shares[2] = regs[r][x].shares[1]
    BY <1>3, <1>6, <1>8, InstructionsAgree
  <2> QED
    BY <2>1, <2>2
<1>10. Total(Kind(op), v, w, u) = plain[x]
  <2>1. Whole(r, x)
    BY <1>3, <1>6, <1>8, WholeAlways
  <2> QED
    BY <1>3, <1>4, <1>6, <1>9, <2>1, Zenon DEF Whole
<1>11. regs[p][k].shares[1] = Total(Kind(op), u, v, w)
  <2>1. ResultInv(mail, p, k)
    BY PastInv
  <2>2. regs[p][k].shares[1] = Opened(Kind(op), regs[p][x].shares, mail[<<r, p>>][4 * k])
    BY <1>1, <1>3, <1>5, <2>1 DEF ResultInv
  <2> QED
    BY <1>7, <1>9, <2>2 DEF Opened, Total
<1>12. plain[k] = plain[x]
  <2>1. Promised(k, plain[k])
    BY PastPlain
  <2> QED
    BY <1>1, <1>3, <2>1 DEF Promised
<1> QED
  BY <1>9, <1>10, <1>11, <1>12, TotalTurns

LEMMA OpeningsArePlain ==
  ASSUME Types, FirstInv, PlainInv, PromiseInv, NEW mail, MailInv(mail)
  PROVE  OpenedIsPlain
<1> SUFFICES ASSUME NEW p \in Parties, NEW k \in DOMAIN regs[p], regs[p][k].kind = "open"
             PROVE  regs[p][k].shares[1] = plain[k]
  BY DEF OpenedIsPlain
<1>1. /\ CountInv(p) /\ ResultsInv(mail, p) /\ pc[p] \in Nat
      /\ program \in Programs /\ regs[p] \in Seq(Registers)
  BY DEF MailInv, Types
<1>2. k \in 1 .. Len(regs[p])
  BY <1>1
<1>3. \A op : Kind(op) # "open"
  BY DEF Kind
<1>4. k # 1
  BY <1>1, <1>3 DEF ResultsInv
<1>5. k < pc[p]
  <2> SUFFICES ASSUME ~(k < pc[p]) PROVE FALSE
    OBVIOUS
  <2>1. Len(regs[p]) = pc[p] /\ Divided(p)
    <3>1. ~Divided(p) => Len(regs[p]) = pc[p] - 1
      BY <1>1 DEF ResultsInv
    <3>2. Divided(p) => Len(regs[p]) = pc[p]
      BY <1>1 DEF ResultsInv
    <3> QED
      BY <1>1, <1>2, <3>1, <3>2
  <2>2. PICK n \in Nat : n = Len(program)
    BY <1>1, Instructions
  <2>3. pc[p] > n /\ pc[p] <= n + 1 /\ program[n].op = "div_const_a"
    BY <1>1, <2>1, <2>2, Ranges DEF Divided
  <2>4. k = n + 1
    BY <1>1, <1>2, <2>1, <2>2, <2>3
  <2>5. n # 0 /\ n # 1
    BY <1>1, <2>2, <2>3, Instructions
  <2>6. ResultInv(mail, p, n)
    <3>1. n >= 2 /\ n < pc[p]
      BY <2>2, <2>3, <2>5
    <3> QED
      BY <2>2, <3>1, PastInv
  <2>7. regs[p][n + 1].kind = "a"
    BY <2>3, <2>6 DEF ResultInv
  <2> QED
    BY <2>4, <2>7
<1>6. k \in Nat /\ k >= 2
  BY <1>2, <1>4
<1>7. program[k].op \in OpenOps
  <2>1. ResultInv(mail, p, k)
    BY <1>5, <1>6, PastInv
  <2> QED
    BY <1>3, <2>1 DEF ResultInv, ResultKind
<1> QED
  BY <1>5, <1>6, <1>7, OpenedWord

\* What is reconstructed of a result all parties have.
LEMMA ReconstructIs ==
  ASSUME Types, FirstInv, PlainInv, PromiseInv, NEW mail, MailInv(mail),
         NEW k \in Nat \ {0}, \A p \in Parties : k < pc[p],
         program[k].op \notin OpenOps, program[k].op # "div_const_a"
  PROVE  Reconstruct(k) = plain[k]
<1>1. /\ 0 \in Parties /\ 1 \in Parties /\ 2 \in Parties
      /\ Succ(0) = 1 /\ Succ(1) = 2 /\ Succ(2) = 0 /\ Pred(0) = 2
  BY Neighbours
<1> DEFINE kind == Kind(program[k].op)
<1>2. PICK u \in WordSet, v \in WordSet, w \in WordSet :
        /\ u = regs[0][k].shares[1] /\ v = regs[0][k].shares[2] /\ w = regs[1][k].shares[1]
        /\ v = regs[2][k].shares[1] /\ regs[0][k].kind = kind
  <2>1. /\ regs[0][k].shares[1] \in WordSet /\ regs[0][k].shares[2] \in WordSet
        /\ regs[1][k].shares[1] \in WordSet /\ regs[0][k].kind = kind
    BY <1>1, PastResult
  <2>2. regs[0][k].shares[2] = regs[2][k].shares[1]
    BY <1>1, InstructionsAgree
  <2> QED
    BY <2>1, <2>2
<1>3. Total(kind, u, v, w) = plain[k]
  <2>1. Whole(0, k)
    BY <1>1, WholeAlways
  <2> QED
    BY <1>1, <1>2, <2>1 DEF Whole
<1>4. Reconstruct(k) = Total(kind, u, w, v)
  BY <1>2 DEF Reconstruct, Total
<1> HIDE DEF kind
<1> QED
  BY <1>3, <1>4, TotalTurns

LEMMA SharesArePlain ==
  ASSUME Types, FirstInv, PlainInv, PromiseInv, NEW mail, MailInv(mail)
  PROVE  SharesMatchPlain
<1> SUFFICES ASSUME NEW k \in SharedBy(Parties), plain[k] # Unknown
             PROVE  Reconstruct(k) = plain[k]
  BY DEF SharesMatchPlain
<1>1. /\ plain \in Seq(WordSet \cup {Unknown}) /\ Len(plain) \in Nat /\ program \in Programs
      /\ Len(program) \in Nat \ {0}
  BY Instructions DEF Types
<1>2. k \in 1 .. Len(plain) /\ k \in Nat \ {0}
  <2>1. k \in DOMAIN plain
    BY DEF SharedBy
  <2> QED
    BY <1>1, <2>1
<1>3. ~(k > Len(program)) /\ program[k].op # "div_const_a"
  <2>1. CASE k = 1
    BY <1>1, <2>1, Instructions
  <2>2. CASE k # 1
    <3>1. k \in 2 .. Len(plain)
      BY <1>1, <1>2, <2>2
    <3>2. PlaintextOf(k, plain[k])
      BY <3>1 DEF PromiseInv
    <3> QED
      BY <3>2 DEF PlaintextOf, Promised
  <2> QED
    BY <2>1, <2>2
<1>4. ASSUME NEW p \in Parties PROVE k < pc[p] /\ program[k].op \notin OpenOps
  <2>1. k \in 1 .. Len(regs[p]) /\ regs[p][k].kind # "open"
    <3>1. regs[p] \in Seq(Registers)
      BY DEF Types
    <3>2. k \in DOMAIN regs[p] /\ regs[p][k].kind # "open"
      BY DEF SharedBy
    <3> QED
      BY <3>1, <3>2
  <2>2. ~(k = pc[p] /\ Divided(p))
    BY <1>3 DEF Divided
  <2> QED
    BY <2>1, <2>2, RegisterNumbers
<1>5. program[k].op \notin OpenOps /\ \A p \in Parties : k < pc[p]
  BY <1>4, Neighbours
<1> QED
  BY <1>2, <1>3, <1>5, ReconstructIs

\* div_const_a: the messages of its two exchanges are what the parties computed.
LEMMA DivisionsAreExact ==
  ASSUME Types, FirstInv, PlainInv, PromiseInv, NEW mail, MailInv(mail)
  PROVE  DivisionIdentity
<1> DEFINE k == Len(program)
<1> SUFFICES ASSUME program[k].op = "div_const_a", k + 1 \in SharedBy(Parties)
             PROVE  Wrap(Reconstruct(k) * program[k].c + Reconstruct(k + 1))
                      = Wrap(plain[program[k].x] - program[k].c)
  BY DEF DivisionIdentity
<1>1. program \in Programs /\ k \in Nat /\ k # 0 /\ k # 1 /\ k \in 2 .. k
  <2>1. program \in Programs
    BY DEF Types
  <2>2. k \in Nat \ {0} /\ k # 1
    BY <2>1, Instructions
  <2>3. \A n \in Nat \ {0} : n # 1 => n \in 2 .. n
    OBVIOUS
  <2> QED
    BY <2>1, <2>2, <2>3
<1>2. k >= 2 /\ k \in 2 .. Len(program)
  BY <1>1
<1>3. ASSUME NEW p \in Parties PROVE k < pc[p] /\ pc[p] \in Nat
  <2>1. CountInv(p) /\ pc[p] \in Nat
    BY DEF MailInv, Types
  <2>2. k + 1 \in 1 .. Len(regs[p]) /\ regs[p][k + 1].kind # "open"
    <3>1. regs[p] \in Seq(Registers)
      BY DEF Types
    <3>2. k + 1 \in DOMAIN regs[p] /\ regs[p][k + 1].kind # "open"
      BY DEF SharedBy
    <3> QED
      BY <3>1, <3>2
  <2>3. k + 1 < pc[p] \/ k + 1 = pc[p]
    BY <2>2, RegisterNumbers
  <2> QED
    BY <1>1, <2>1, <2>3
<1>4. PICK x \in Nat \ {0}, c \in Divisor :
        /\ x = program[k].x /\ c = program[k].c /\ x \in 1 .. k - 1
        /\ program[x].op \notin OpenOps /\ program[x].op # "div_const_a"
        /\ Kind(program[x].op) = "a"
  <2>1. OperandKind("div_const_a") = "a"
    BY DEF OperandKind
  <2> QED
    BY <1>1, <1>2, <2>1, OperandFacts
<1>5. ASSUME NEW p \in Parties
      PROVE  /\ regs[p][x].shares \in Sharings /\ x < pc[p]
             /\ regs[p][k].kind = "a" /\ regs[p][k + 1].kind = "a"
             /\ regs[p][k].shares[1] = DivisionShares(p, regs[p][x].shares, c)[1]
             /\ regs[p][k + 1].shares[1] = DivisionShares(p, regs[p][x].shares, c)[2]
  <2>1. k < pc[p] /\ pc[p] \in Nat
    BY <1>3
  <2>2. x < pc[p]
    BY <1>1, <1>4, <2>1
  <2>3. regs[p][x].shares \in Sharings
    BY <1>4, <2>2, PastResult
  <2>4. ResultInv(mail, p, k) /\ RecordInv(mail, p, k)
    BY <1>1, <1>2, <2>1, PastInv
  <2>5. /\ regs[p][k].kind = "a" /\ regs[p][k + 1].kind = "a"
        /\ Exchanged(mail, p, k, k, 0) /\ Exchanged(mail, p, k + 1, k, 1)
    BY <2>4 DEF ResultInv, ResultKind, Kind, OpenOps
  <2>6. Exchanges("div_const_a") = 2
    BY DEF Exchanges, MultiplyOps, OpenOps
  <2>7. /\ mail[<<p, Succ(p)>>][4 * k + 0] = Record(mail, p, k, 0)
        /\ mail[<<p, Succ(p)>>][4 * k + 1] = Record(mail, p, k, 1)
    <3>1. 0 \in 0 .. 2 /\ 1 \in 0 .. 2
      OBVIOUS
    <3> HIDE DEF k
    <3> QED
      BY <2>4, <2>6, <3>1 DEF RecordInv
  <2>8. /\ Record(mail, p, k, 0) = DivisionShares(p, regs[p][x].shares, c)[1]
        /\ Record(mail, p, k, 1) = DivisionShares(p, regs[p][x].shares, c)[2]
    BY <1>4 DEF Record, MultiplyOps, OpenOps
  <2>9. /\ regs[p][k].shares[1] = mail[<<p, Succ(p)>>][4 * k + 0]
        /\ regs[p][k + 1].shares[1] = mail[<<p, Succ(p)>>][4 * k + 1]
    BY <2>5 DEF Exchanged
  <2> QED
    BY <2>2, <2>3, <2>5, <2>7, <2>8, <2>9
<1>6. 0 \in Parties /\ 1 \in Parties /\ 2 \in Parties /\ Succ(0) = 1
  BY Neighbours
<1>7. PICK x0 \in Sharings, x1 \in Sharings, x2 \in Sharings :
        x0 = regs[0][x].shares /\ x1 = regs[1][x].shares /\ x2 = regs[2][x].shares
  BY <1>5, <1>6
<1> DEFINE s0 == DivisionShares(0, x0, c)
           s1 == DivisionShares(1, x1, c)
           s2 == DivisionShares(2, x2, c)
<1>8. Reconstruct(k) = Total("a", s0[1], s1[1], s2[1])
  <2>1. /\ regs[0][k].kind = "a" /\ regs[0][k].shares[1] = s0[1]
        /\ regs[1][k].shares[1] = s1[1] /\ regs[2][k].shares[1] = s2[1]
    BY <1>5, <1>6, <1>7
  <2> HIDE DEF k, s0, s1, s2
  <2> QED
    BY <2>1 DEF Reconstruct, Total
<1>9. Reconstruct(k + 1) = Total("a", s0[2], s1[2], s2[2])
  <2>1. /\ regs[0][k + 1].kind = "a" /\ regs[0][k + 1].shares[1] = s0[2]
        /\ regs[1][k + 1].shares[1] = s1[2] /\ regs[2][k + 1].shares[1] = s2[2]
    BY <1>5, <1>6, <1>7
  <2> HIDE DEF k, s0, s1, s2
  <2> QED
    BY <2>1 DEF Reconstruct, Total
<1>10. Wrap(Total("a", s0[1], s1[1], s2[1]) * c + Total("a", s0[2], s1[2], s2[2]))
         = Wrap(Total("a", x0[1], x0[2], x1[1]) - c)
  BY DivisionAddsUp
<1>11. Total("a", x0[1], x0[2], x1[1]) = plain[x]
  <2>1. Whole(0, x)
    BY <1>4, <1>5, <1>6, WholeAlways
  <2> QED
    BY <1>4, <1>6, <1>7, <2>1 DEF Whole
<1> HIDE DEF k, s0, s1, s2
<1> QED
  BY <1>4, <1>8, <1>9, <1>10, <1>11

\* redistribute_shares_b: of the operand's three shares party 0 adds two, and
\* party 1 has the third.
LEMMA RedistributionsAreExact ==
  ASSUME Types, FirstInv, PlainInv, PromiseInv, NEW mail, MailInv(mail)
  PROVE  RedistributionIdentity
<1> SUFFICES ASSUME NEW k \in SharedBy(Parties) \cap (1 .. Len(program)),
                    program[k].op = "redistribute_shares_b", program[k].party = 1
             PROVE  Wrap(Reconstruct(k - 1) + Reconstruct(k)) = plain[program[k].x]
  BY DEF RedistributionIdentity
<1>1. program \in Programs /\ Len(program) \in Nat \ {0}
  BY Instructions DEF Types
<1>2. k \in 1 .. Len(program) /\ k \in Nat \ {0}
  BY <1>1
<1>3. k # 1
  BY <1>1, Instructions
<1>4. k \in 2 .. Len(program) /\ k >= 2
  BY <1>1, <1>2, <1>3
<1>5. program[k].op \notin OpenOps /\ program[k].op # "div_const_a"
  BY DEF OpenOps
<1>6. ASSUME NEW p \in Parties PROVE k < pc[p] /\ pc[p] \in Nat
  <2>1. k \in 1 .. Len(regs[p]) /\ regs[p][k].kind # "open"
    <3>1. regs[p] \in Seq(Registers)
      BY DEF Types
    <3>2. k \in DOMAIN regs[p] /\ regs[p][k].kind # "open"
      BY DEF SharedBy
    <3> QED
      BY <3>1, <3>2
  <2>2. ~(k = pc[p] /\ Divided(p))
    BY <1>1, <1>2 DEF Divided
  <2>3. pc[p] \in Nat
    BY DEF Types
  <2> QED
    BY <2>1, <2>2, <2>3, RegisterNumbers
<1>7. PICK x \in Nat \ {0} : /\ x = program[k].x /\ x \in 1 .. k - 1
                             /\ program[x].op \notin OpenOps /\ program[x].op # "div_const_a"
                             /\ Kind(program[x].op) = "a"
  <2>1. OperandKind("redistribute_shares_b") = "a"
    BY DEF OperandKind
  <2> QED
    BY <1>1, <1>4, <2>1, OperandFacts
<1>8. /\ k - 1 \in 2 .. Len(program) /\ program[k - 1].op = "redistribute_shares_b"
      /\ program[k - 1].x = x /\ program[k - 1].party = 0
  BY <1>1, <1>4, <1>7, OperandFacts
<1>9. k - 1 \in Nat \ {0} /\ k - 1 >= 2 /\ k - 1 < k
  BY <1>1, <1>4, <1>8
<1>10. ASSUME NEW p \in Parties PROVE k - 1 < pc[p] /\ x < pc[p]
  BY <1>2, <1>6, <1>7
<1>11. 0 \in Parties /\ 1 \in Parties /\ Succ(0) = 1
  BY Neighbours
<1>12. Reconstruct(k) = plain[k] /\ Reconstruct(k - 1) = plain[k - 1]
  <2>1. Reconstruct(k) = plain[k]
    BY <1>2, <1>5, <1>6, ReconstructIs
  <2>2. program[k - 1].op \notin OpenOps /\ program[k - 1].op # "div_const_a"
    BY <1>8 DEF OpenOps
  <2>3. Reconstruct(k - 1) = plain[k - 1]
    BY <1>9, <1>10, <2>2, ReconstructIs
  <2> QED
    BY <2>1, <2>3
<1>13. PICK u \in WordSet, v \in WordSet, w \in WordSet :
         u = regs[0][x].shares[1] /\ v = regs[0][x].shares[2] /\ w = regs[1][x].shares[1]
  BY <1>7, <1>10, <1>11, PastResult
<1>14. plain[k - 1] = Wrap(u + v) /\ plain[k] = w
  <2>1. Promised(k, plain[k])
    BY <1>2, <1>4, <1>6, <1>11, PastPlain
  <2>2. Promised(k - 1, plain[k - 1])
    BY <1>9, <1>10, <1>11, PastPlain
  <2>3. plain[k] = Redistributed(1, x)
    BY <1>7, <2>1 DEF Promised
  <2>4. plain[k - 1] = Redistributed(0, x)
    BY <1>8, <2>2 DEF Promised
  <2> QED
    BY <1>13, <2>3, <2>4 DEF Redistributed
<1>15. Total("a", u, v, w) = plain[x]
  <2>1. Whole(0, x)
    BY <1>7, <1>10, <1>11, WholeAlways
  <2> QED
    BY <1>7, <1>11, <1>13, <2>1 DEF Whole
<1>16. Total("a", u, v, w) = Wrap(Wrap(u + v) + w)
  BY DEF Total, Plus
<1> QED
  BY <1>7, <1>12, <1>14, <1>15, <1>16

LEMMA ResultsAreRight == IInv /\ PromiseInv => ResultsMatchPlain
<1> SUFFICES ASSUME IInv, PromiseInv PROVE ResultsMatchPlain
  OBVIOUS
<1>1. Types /\ FirstInv /\ PlainInv
  BY DEF IInv
<1>2. PICK mail : MailInv(mail)
  BY DEF IInv
<1> QED
  BY <1>1, <1>2, OpeningsArePlain, SharesArePlain, DivisionsAreExact, RedistributionsAreExact
  DEF ResultsMatchPlain

-----------------------------------------------------------------------------
(* The theorems.                                                           *)

\* Registers hold words of their kind, messages are words, and no party is past
\* the end of the program: the state all operations of replicated_3pc.h expect.
THEOREM TypeCorrectness == Spec => []TypeOK
<1> QED
  BY Invariance, TypesAreOK, PTL

\* The share two parties hold in common is the same word at both, for every
\* program, at every moment and whatever the order in which the parties run and
\* their messages arrive: no operation of replicated_3pc.h takes a message that
\* was sent for another one.
THEOREM ReplicationTheorem == Spec => []Replicated
<1> QED
  BY Invariance, SharesAgree, PTL

\* When all parties have returned from the last operation, the operations of
\* replicated_3pc.h have received every message they have sent.
THEOREM MessagesTheorem == Spec => []NoMessageLeft
<1> QED
  BY Invariance, NothingIsLeft, PTL

\* Whatever shares the operands are split into, and however far apart the
\* parties are, what they hold of a result adds up to the plaintext the operation
\* promises, an opening returns it, a division loses nothing, and the vectors
\* that redistribute_shares_b deals add up to the number: the operations of
\* replicated_3pc.h compute on the secrets what they would compute in the clear.
THEOREM ResultsTheorem == Spec => []ResultsMatchPlain
<1> QED
  BY Invariance, Promises, ResultsAreRight, PTL

==============================================================================
