-------------------------- MODULE Fantastic4PC_proofs --------------------------
(***************************************************************************)
(* The four parties of the protocol keep their shares consistent, however  *)
(* far apart they are and whatever programs they run, even if a message of *)
(* an operation that compares its messages is altered on its way.          *)
(*                                                                         *)
(* The argument is in two layers.  The first is about the mail of a party: *)
(* all messages ever sent to it, each under the position at which it hears *)
(* it, which says in which instruction and in which call.  It says that    *)
(* what is on a link is the part of the mail that has been sent and not    *)
(* been heard, in order.  The second says what the words are: every secret *)
(* is four words, whoever holds them, and every message but one that was   *)
(* altered is the word of them that its position says.                     *)
(***************************************************************************)
EXTENDS Fantastic4PC, Shares_proofs

Active(p) == pc[p] <= Len(program)

\* Party 0 deals all secrets after the first, as in every program of the
\* repository.  The shares of other parties go astray.
DealsItself(instrs) ==
  \A k \in 2 .. Len(instrs) : instrs[k].op \in ShareOps => instrs[k].party = 0

\* In these operations every word that is received is compared with another.
Compares(instrs) ==
  \A k \in 2 .. Len(instrs) : instrs[k].op \in LocalOps \cup MultiplyOps \cup InpOps

-----------------------------------------------------------------------------
(* The calls of an instruction.                                            *)

\* The calls party p makes in instruction k.
Calls(k, p) ==
  LET op == program[k].op IN
  IF op \in MultiplyOps THEN (IF p \in {2, 3} THEN 5 ELSE 3)
  ELSE IF op \in OpenOps \cup {"b2a_bit"} THEN 1
  ELSE IF op \in InpOps THEN (IF p = program[k].roles.g THEN 2
                              ELSE IF p = program[k].roles.h THEN 0 ELSE 1)
  ELSE IF op \in ShareOps THEN (IF p = 0 THEN 9 ELSE 3)
  ELSE 0

Opposite(p) == IF p \in {0, 2} THEN 3 ELSE 2

\* Whom it sends to in call number n, and whom it hears from.
To(k, p, n) ==
  LET op == program[k].op IN
  IF op \in MultiplyOps THEN (IF n = 0 THEN Relative(p, 2)
                              ELSE IF n = 1 THEN Relative(p, 3)
                              ELSE IF n = 2 THEN Opposite(p) ELSE NoParty)
  ELSE IF op \in OpenOps \cup {"b2a_bit"} /\ n = 0 THEN Relative(p, 1)
  ELSE IF op \in InpOps /\ n = 0 /\ p \in {program[k].roles.i, program[k].roles.j}
       THEN program[k].roles.g
  ELSE IF op \in ShareOps /\ p = 0 THEN (IF n < 3 THEN 1 ELSE IF n < 6 THEN 2
                                         ELSE IF n < 9 THEN 3 ELSE NoParty)
  ELSE NoParty

From(k, q, n) ==
  LET op == program[k].op IN
  IF op \in MultiplyOps THEN (IF n = 0 THEN Relative(q, 2)
                              ELSE IF n = 1 THEN Relative(q, 1)
                              ELSE IF q \in {2, 3} /\ n = 3 THEN Relative(q, 1)
                              ELSE IF q \in {2, 3} /\ n = 4 THEN Relative(q, 3) ELSE NoParty)
  ELSE IF op \in OpenOps \cup {"b2a_bit"} /\ n = 0 THEN Relative(q, 3)
  ELSE IF op \in InpOps /\ q = program[k].roles.g
       THEN (IF n = 0 THEN program[k].roles.i ELSE IF n = 1 THEN program[k].roles.j
             ELSE NoParty)
  ELSE IF op \in ShareOps /\ q # 0 /\ n \in 0 .. 2 THEN 0
  ELSE NoParty

\* The number of the sender's call in which it sends what q hears in call n.
SentAs(k, q, n) ==
  LET op == program[k].op IN
  IF op \in MultiplyOps THEN (IF n >= 3 THEN 2 ELSE n)
  ELSE IF op \in ShareOps THEN 3 * (q - 1) + n ELSE 0

\* The number of the receiver's call in which it hears what p sends in call n.
HeardAs(k, p, n) ==
  LET op == program[k].op IN
  IF op \in MultiplyOps THEN (IF n = 2 THEN (IF p \in {0, 3} THEN 3 ELSE 4) ELSE n)
  ELSE IF op \in InpOps THEN (IF p = program[k].roles.i THEN 0 ELSE 1)
  ELSE IF op \in ShareOps THEN (IF n < 3 THEN n ELSE IF n < 6 THEN n - 3 ELSE n - 6)
  ELSE 0

\* The messages q has got when n calls are complete.
Gets(k, q, n) ==
  LET op == program[k].op IN
  IF op \in MultiplyOps THEN (IF n >= 3 THEN n - 1 ELSE n)
  ELSE IF op \in OpenOps \cup {"b2a_bit"} THEN n
  ELSE IF op \in InpOps THEN (IF q = program[k].roles.g THEN n ELSE 0)
  ELSE IF op \in ShareOps THEN (IF q = 0 THEN 0 ELSE n)
  ELSE 0

-----------------------------------------------------------------------------
(* Links.                                                                  *)

\* Call number n of instruction k has position 16 * k + n.
Completed(p) == IF receiving[p] = NoParty THEN calls[p] ELSE calls[p] - 1
SendPos(p) == 16 * pc[p] + calls[p]
HearPos(q) == 16 * pc[q] + Completed(q)

\* The positions at which q hears from p, and those at which p sends it that.
Slots(p, q) ==
  {s \in Nat : \E k \in 2 .. Len(program), n \in 0 .. 4 :
                 s = 16 * k + n /\ From(k, q, n) = p}

SendsAt(q) == [s \in Nat |-> 16 * (s \div 16) + SentAs(s \div 16, q, s % 16)]

Pending(slots, at, heard, sent) == {s \in slots : heard <= s /\ at[s] < sent}

\* Nothing is heard that has not been sent, and what has been sent and not been
\* heard is in the net.
Carries(messages, m, slots, at, heard, sent) ==
  /\ \A s \in slots : s < heard => at[s] < sent
  /\ InOrder(messages, m, Pending(slots, at, heard, sent))

LinkInv(mail, p, q) ==
  Carries(net[<<p, q>>], mail[q], Slots(p, q), SendsAt(q), HearPos(q), SendPos(p))

-----------------------------------------------------------------------------
(* What a party has done in the instruction it is at.                      *)

CountInv(p) ==
  /\ pc[p] \in 2 .. Len(program) + 1
  /\ ~Active(p) => calls[p] = 0 /\ got[p] = <<>> /\ receiving[p] = NoParty /\ dealt[p] = <<>>
  /\ Active(p) =>
       /\ calls[p] <= Calls(pc[p], p)
       /\ receiving[p] # NoParty => calls[p] # 0 /\ receiving[p] = From(pc[p], p, calls[p] - 1)
       /\ Len(got[p]) = Gets(pc[p], p, Completed(p))
       /\ dealt[p] # <<>> => Instr(p).op \in ShareOps /\ p = 0
       /\ Instr(p).op \in ShareOps /\ p = 0 /\ dealt[p] = <<>> => calls[p] = 0
       /\ Instr(p).op \in MultiplyOps /\ calls[p] >= 3 => got[p][1] = got[p][2]

GotInv(mail, p) ==
  Active(p) =>
    \A n \in 0 .. 4 :
      n < Completed(p) /\ From(pc[p], p, n) # NoParty =>
        got[p][Gets(pc[p], p, n) + 1] = mail[p][16 * pc[p] + n]

\* What it has got from the instructions before.
ResultKind(op) == IF op \in OpenOps THEN "open" ELSE Kind(op)

RegsInv(p) ==
  /\ Len(regs[p]) = pc[p] - 1
  /\ \A k \in 1 .. Len(regs[p]) : regs[p][k].kind = ResultKind(program[k].op)

Reached(p) == Len(regs[p]) + (IF dealt[p] = <<>> THEN 0 ELSE 1)

PlainInv ==
  /\ \A p \in Parties : Reached(p) <= Len(plain)
  /\ \E p \in Parties : Reached(p) = Len(plain)

Links == Parties \X Parties
Held3 == [Replication -> WordSet]
Registers == [kind : {"a", "b"}, shares : Held3]
             \cup [kind : {"open"}, shares : [1 .. 1 -> WordSet]]
Deals == [1 .. 4 -> Held3]

Types ==
  /\ program \in Programs /\ DealsItself(program)
  /\ net \in [Links -> Seq(WordSet)]
  /\ sending \in [Parties -> Parties \cup {NoParty}]
  /\ receiving \in [Parties -> Parties \cup {NoParty}]
  /\ pc \in [Parties -> Nat]
  /\ calls \in [Parties -> Nat]
  /\ got \in [Parties -> Seq(WordSet)]
  /\ regs \in [Parties -> Seq(Registers)]
  /\ dealt \in [Parties -> Deals \cup {<<>>}]
  /\ plain \in Seq(WordSet \cup {Unknown})
  /\ accused \subseteq Parties
  /\ altered \in 0 .. MaxAltered

MailInv(mail) ==
  /\ mail \in [Parties -> [Nat -> WordSet]]
  /\ \A p, q \in Parties : LinkInv(mail, p, q)
  /\ \A p \in Parties : GotInv(mail, p)

Counts == \A p \in Parties : CountInv(p) /\ RegsInv(p)

-----------------------------------------------------------------------------
(* What a step does to a link.                                             *)

\* Messages are heard in the order in which they are sent.
Line(slots, at) ==
  /\ slots \subseteq Nat
  /\ \A s \in slots : at[s] \in Nat
  /\ \A s, t \in slots : s < t => at[s] < at[t]

LEMMA PendingMembers ==
  ASSUME NEW slots, NEW at, Line(slots, at), NEW heard, NEW sent
  PROVE  /\ \A s : s \in Pending(slots, at, heard, sent)
                     <=> s \in slots /\ heard <= s /\ at[s] < sent
         /\ Pending(slots, at, heard, sent) \subseteq Int
         /\ \A s \in slots : s \in Nat /\ at[s] \in Nat
<1>1. \A s : s \in Pending(slots, at, heard, sent) <=> s \in slots /\ heard <= s /\ at[s] < sent
  BY DEF Pending
<1>2. \A s \in slots : s \in Nat /\ at[s] \in Nat
  BY DEF Line
<1>3. \A s \in slots : s \in Int
  BY <1>2
<1> HIDE DEF Pending
<1> QED
  BY <1>1, <1>2, <1>3

\* The next message is sent: that of slot s.
LEMMA CarriesSent ==
  ASSUME NEW V, NEW messages \in Seq(V), NEW m, NEW m2, NEW slots, NEW at, Line(slots, at),
         NEW heard \in Nat, NEW sent \in Nat, NEW s \in slots, at[s] = sent, m2[s] \in V,
         \A t \in slots : t # s => m2[t] = m[t],
         Carries(messages, m, slots, at, heard, sent)
  PROVE  Carries(Append(messages, m2[s]), m2, slots, at, heard, sent + 1)
<1> DEFINE pending == Pending(slots, at, heard, sent)
           after == Pending(slots, at, heard, sent + 1)
<1>1. PICK w : Lists(w, Len(messages), messages, m, pending)
  BY DEF Carries, InOrder
<1>2. /\ pending \subseteq Int
      /\ \A t : t \in pending <=> t \in slots /\ heard <= t /\ at[t] < sent
      /\ \A t : t \in after <=> t \in slots /\ heard <= t /\ at[t] < sent + 1
      /\ \A t \in slots : t \in Nat /\ at[t] \in Nat
  BY PendingMembers
<1> HIDE DEF pending, after
<1>3. \A t \in pending : t # s /\ m2[t] = m[t]
  BY <1>2
<1>4. InOrder(messages, m2, pending)
  <2>1. \A a \in 1 .. Len(messages) : w[a] \in pending /\ messages[a] = m[w[a]]
    BY <1>1 DEF Lists
  <2>2. \A a \in 1 .. Len(messages) : messages[a] = m2[w[a]]
    BY <1>3, <2>1
  <2>3. Lists(w, Len(messages), messages, m2, pending)
    BY <1>1, <2>2 DEF Lists
  <2> QED
    BY <2>3 DEF InOrder
<1>5. ASSUME NEW t \in slots, t # s, at[t] < sent + 1
      PROVE  t < s /\ at[t] < sent
  <2>1. t \in Nat /\ s \in Nat /\ at[t] \in Nat
    BY <1>2
  <2>2. ~(s < t)
    BY <1>5, <2>1 DEF Line
  <2>3. t < s
    BY <1>5, <2>1, <2>2
  <2>4. at[t] < at[s]
    BY <2>3 DEF Line
  <2> QED
    BY <2>3, <2>4
<1>6. heard <= s
  BY <1>2 DEF Carries
<1>7. \A t : t \in after <=> t \in pending \cup {s}
  <2>1. \A t \in slots : at[t] < sent => at[t] < sent + 1
    BY <1>2
  <2>2. at[s] < sent + 1
    OBVIOUS
  <2> QED
    BY <1>2, <1>5, <1>6, <2>1, <2>2
<1>8. after = pending \cup {s}
  BY <1>7
<1>9. \A t \in pending : t < s
  <2>1. \A t \in pending : t \in slots /\ t # s /\ at[t] < sent + 1
    BY <1>2, <1>3
  <2> QED
    BY <1>5, <2>1
<1>10. s \in Int
  BY <1>2
<1>11. InOrder(Append(messages, m2[s]), m2, pending \cup {s})
  BY <1>2, <1>4, <1>9, <1>10, InOrderAppend, Zenon
<1>12. \A t \in slots : t < heard => at[t] < sent + 1
  BY <1>2 DEF Carries
<1> QED
  BY <1>8, <1>11, <1>12 DEF Carries, after

\* The next message is heard: that of slot heard.
LEMMA CarriesHeard ==
  ASSUME NEW V, NEW messages \in Seq(V), messages # <<>>, NEW m, NEW slots, NEW at,
         Line(slots, at), NEW heard \in Nat, NEW sent \in Nat, heard \in slots,
         Carries(messages, m, slots, at, heard, sent)
  PROVE  /\ Head(messages) = m[heard]
         /\ Carries(Tail(messages), m, slots, at, heard + 1, sent)
<1> DEFINE pending == Pending(slots, at, heard, sent)
           after == Pending(slots, at, heard + 1, sent)
<1>1. InOrder(messages, m, pending)
  BY DEF Carries
<1>2. PICK t : t \in pending
  BY <1>1, InOrderEmpty, Zenon
<1>3. /\ pending \subseteq Int
      /\ \A s : s \in pending <=> s \in slots /\ heard <= s /\ at[s] < sent
      /\ \A s : s \in after <=> s \in slots /\ heard + 1 <= s /\ at[s] < sent
      /\ \A s \in slots : s \in Nat /\ at[s] \in Nat
  BY PendingMembers
<1> HIDE DEF pending, after
<1>4. at[heard] < sent
  <2>1. t = heard \/ heard < t
    BY <1>2, <1>3
  <2>2. heard < t => at[heard] < at[t]
    BY <1>2, <1>3 DEF Line
  <2> QED
    BY <1>2, <1>3, <2>1, <2>2
<1>5. heard \in pending /\ \A s \in pending : heard <= s
  BY <1>3, <1>4
<1>6. \A s \in slots : heard + 1 <= s <=> heard <= s /\ s # heard
  BY <1>3
<1>7. \A s : s \in after <=> s \in pending \ {heard}
  BY <1>3, <1>6
<1>8. after = pending \ {heard}
  BY <1>7
<1>9. Head(messages) = m[heard] /\ InOrder(Tail(messages), m, after)
  BY <1>1, <1>3, <1>5, <1>8, InOrderTail
<1>10. \A s \in slots : s < heard + 1 => at[s] < sent
  <2>1. \A s \in slots : s < heard + 1 => s < heard \/ s = heard
    BY <1>3
  <2> QED
    BY <1>4, <2>1 DEF Carries
<1> QED
  BY <1>9, <1>10 DEF Carries, after

\* Going on where there are no slots to use leaves the link as it is.
LEMMA CarriesSkip ==
  ASSUME NEW messages, NEW m, NEW slots, NEW at, Line(slots, at),
         NEW heard \in Nat, NEW sent \in Nat, NEW heard2 \in Nat, NEW sent2 \in Nat,
         heard <= heard2, \A s \in slots : ~(heard <= s /\ s < heard2),
         sent <= sent2, \A s \in slots : ~(sent <= at[s] /\ at[s] < sent2),
         Carries(messages, m, slots, at, heard, sent)
  PROVE  Carries(messages, m, slots, at, heard2, sent2)
<1> DEFINE pending == Pending(slots, at, heard, sent)
           after == Pending(slots, at, heard2, sent2)
<1>1. /\ \A s \in slots : s \in Nat /\ at[s] \in Nat
      /\ \A s : s \in pending <=> s \in slots /\ heard <= s /\ at[s] < sent
      /\ \A s : s \in after <=> s \in slots /\ heard2 <= s /\ at[s] < sent2
  BY PendingMembers
<1>2. \A s \in slots : (heard <= s <=> heard2 <= s) /\ (at[s] < sent <=> at[s] < sent2)
  BY <1>1
<1>3. InOrder(messages, m, pending) /\ \A s \in slots : s < heard => at[s] < sent
  BY DEF Carries
<1> HIDE DEF pending, after
<1>4. after = pending
  BY <1>1, <1>2
<1>5. \A s \in slots : s < heard2 => at[s] < sent2
  BY <1>1, <1>2, <1>3
<1> QED
  BY <1>3, <1>4, <1>5 DEF Carries, after

\* Only the mail of messages that are on the link matters.
LEMMA CarriesOther ==
  ASSUME NEW messages, NEW m, NEW m2, NEW slots, NEW at,
         NEW heard, NEW sent,
         \A s \in slots : m2[s] = m[s],
         Carries(messages, m, slots, at, heard, sent)
  PROVE  Carries(messages, m2, slots, at, heard, sent)
<1> DEFINE pending == Pending(slots, at, heard, sent)
<1>1. PICK w : Lists(w, Len(messages), messages, m, pending)
  BY DEF Carries, InOrder
<1>2. \A s \in pending : m2[s] = m[s]
  BY DEF Pending
<1> HIDE DEF pending
<1>3. \A a \in 1 .. Len(messages) : w[a] \in pending /\ messages[a] = m[w[a]]
  BY <1>1 DEF Lists
<1>4. \A a \in 1 .. Len(messages) : messages[a] = m2[w[a]]
  BY <1>2, <1>3
<1>5. Lists(w, Len(messages), messages, m2, pending)
  BY <1>1, <1>4 DEF Lists
<1> QED
  BY <1>5 DEF Carries, InOrder, pending

\* Message n, that of some slot, changes to word.
CarriesChanged(messages, m, slots, at, heard, sent, n, word) ==
  \E s \in slots :
    /\ heard <= s /\ at[s] < sent /\ messages[n] = m[s]
    /\ Carries([messages EXCEPT ![n] = word], [m EXCEPT ![s] = word], slots, at, heard, sent)

\* A message is altered.
LEMMA CarriesAltered ==
  ASSUME NEW V, NEW messages \in Seq(V), NEW m \in [Nat -> V], NEW slots, NEW at,
         Line(slots, at), NEW heard, NEW sent, NEW n \in DOMAIN messages, NEW word \in V,
         Carries(messages, m, slots, at, heard, sent)
  PROVE  CarriesChanged(messages, m, slots, at, heard, sent, n, word)
<1> DEFINE pending == Pending(slots, at, heard, sent)
           N == Len(messages)
           others == [messages EXCEPT ![n] = word]
<1>1. PICK w : Lists(w, N, messages, m, pending)
  BY DEF Carries, InOrder
<1>2. /\ \A s : s \in pending <=> s \in slots /\ heard <= s /\ at[s] < sent
      /\ \A s \in slots : s \in Nat
      /\ pending \subseteq Int
  BY PendingMembers
<1>3. n \in 1 .. N /\ N \in Nat /\ Len(others) = N
      /\ \A a \in 1 .. N : others[a] = IF a = n THEN word ELSE messages[a]
  OBVIOUS
<1> HIDE DEF pending, N, others
<1>4. PICK s : s = w[n]
  OBVIOUS
<1>5. s \in pending /\ messages[n] = m[s]
  BY <1>1, <1>3, <1>4 DEF Lists
<1> DEFINE m2 == [m EXCEPT ![s] = word]
<1>6. s \in slots /\ heard <= s /\ at[s] < sent /\ s \in Nat
  BY <1>2, <1>5
<1>7. \A t \in pending : m2[t] = IF t = s THEN word ELSE m[t]
  <2>1. \A t \in pending : t \in Nat
    BY <1>2
  <2> QED
    BY <2>1
<1> HIDE DEF m2
<1>8. ASSUME NEW a \in 1 .. N
      PROVE  others[a] = m2[w[a]]
  <2>1. w[a] \in pending /\ messages[a] = m[w[a]]
    BY <1>1 DEF Lists
  <2>2. CASE a = n
    BY <1>3, <1>4, <1>7, <2>1, <2>2
  <2>3. CASE a # n
    <3>1. a < n \/ n < a
      BY <1>3, <2>3
    <3>2. w[a] < w[n] \/ w[n] < w[a]
      BY <1>1, <1>3, <3>1 DEF Lists
    <3>3. w[a] # s
      <4>1. s \in Int
        BY <1>2, <1>5
      <4> QED
        BY <1>4, <3>2, <4>1
    <3> QED
      BY <1>3, <1>7, <2>1, <2>3, <3>3
  <2> QED
    BY <2>2, <2>3
<1>9. Lists(w, N, others, m2, pending)
  BY <1>1, <1>8 DEF Lists
<1>10. Carries(others, m2, slots, at, heard, sent)
  <2>1. InOrder(others, m2, pending)
    BY <1>3, <1>9 DEF InOrder
  <2> QED
    BY <2>1 DEF Carries, pending
<1> QED
  BY <1>5, <1>6, <1>10 DEF CarriesChanged, others, m2

-----------------------------------------------------------------------------
(* Parties, programs and the calls of an instruction.                      *)

LEMMA Around ==
  /\ Parties = {0, 1, 2, 3} /\ NoParty = 4 /\ NoParty \notin Parties
  /\ \A p \in Parties :
       /\ Relative(p, 1) = (IF p = 3 THEN 0 ELSE p + 1)
       /\ Relative(p, 2) = (IF p = 0 THEN 2 ELSE IF p = 1 THEN 3 ELSE p - 2)
       /\ Relative(p, 3) = (IF p = 0 THEN 3 ELSE p - 1)
       /\ \A d \in Parties : Relative(p, d - p) = d
  /\ \A d \in Parties : Relative(0, d) = d
<1>1. PartiesNum = 4
  BY FourPartiesAssumption
<1>2. Parties = {0, 1, 2, 3} /\ NoParty = 4
  BY <1>1 DEF Parties, NoParty
<1> QED
  BY <1>1, <1>2 DEF Relative

\* The roles of inp_a and inp_b.
IsRoles(r) ==
  \/ r = [i |-> 0, j |-> 3, g |-> 1, h |-> 2]
  \/ r = [i |-> 2, j |-> 1, g |-> 3, h |-> 0]

LEMMA Instructions ==
  ASSUME program \in Programs
  PROVE  /\ Len(program) \in Nat \ {0}
         /\ program[1].op \in ShareOps
         /\ \A k \in 1 .. Len(program) :
              LET op == program[k].op IN
              /\ op \in Operations
              /\ op \in ShareOps => program[k].party \in Parties
              /\ op \notin ShareOps =>
                   program[k].x \in 1 .. k - 1 /\ program[program[k].x].op \notin OpenOps
              /\ op \in BinaryOps \cup MultiplyOps =>
                   program[k].y \in 1 .. k - 1 /\ program[program[k].y].op \notin OpenOps
              /\ op \in InpOps => IsRoles(program[k].roles) /\ program[k].c \in Divisor
              /\ op = "div_const_a" => program[k].vector \in {"quotient", "error"}
              /\ op = "redistribute_shares_b" => program[k].vector = "sum"
<1>1. \A k \in 1 .. Len(program) : \A x \in Operands(program, k) :
        x \in 1 .. k - 1 /\ program[x].op \notin OpenOps
  BY DEF Operands
<1>2. \A r \in {Roles[1], Roles[2]} : IsRoles(r)
  BY DEF Roles, IsRoles
<1> QED
  BY <1>1, <1>2, ProgramsAssumption DEF Divisor

\* The classes of operations exclude each other.
LEMMA Classes ==
  ASSUME NEW op \in Operations
  PROVE  /\ op \in LocalOps \/ op \in MultiplyOps \/ op \in OpenOps \cup {"b2a_bit"}
            \/ op \in InpOps \/ op \in ShareOps
         /\ op \in LocalOps => /\ op \notin MultiplyOps /\ op \notin OpenOps \cup {"b2a_bit"}
                               /\ op \notin InpOps /\ op \notin ShareOps
         /\ op \in MultiplyOps => /\ op \notin LocalOps /\ op \notin OpenOps \cup {"b2a_bit"}
                                  /\ op \notin InpOps /\ op \notin ShareOps
         /\ op \in OpenOps \cup {"b2a_bit"} => /\ op \notin MultiplyOps /\ op \notin LocalOps
                                               /\ op \notin InpOps /\ op \notin ShareOps
         /\ op \in InpOps => /\ op \notin MultiplyOps /\ op \notin OpenOps \cup {"b2a_bit"}
                             /\ op \notin LocalOps /\ op \notin ShareOps
         /\ op \in ShareOps => /\ op \notin MultiplyOps /\ op \notin OpenOps \cup {"b2a_bit"}
                               /\ op \notin InpOps /\ op \notin LocalOps
BY DEF Operations, LocalOps, UnaryOps, BinaryOps, MultiplyOps, OpenOps, InpOps, ShareOps

\* Whoever hears in a call is sent a message in a call of the sender ...
HearIsSent(k, q, n) ==
  LET p == From(k, q, n)
      m == SentAs(k, q, n)
  IN  /\ p \in Parties /\ n \in 0 .. 4 /\ n < Calls(k, q)
      /\ m \in 0 .. 8 /\ m < Calls(k, p) /\ To(k, p, m) = q

\* ... and whoever sends one is heard.
SendIsHeard(k, p, n) ==
  LET q == To(k, p, n)
      m == HeardAs(k, p, n)
  IN  q \in Parties /\ m \in 0 .. 4 /\ From(k, q, m) = p /\ SentAs(k, q, m) = n

LEMMA SchedulePart ==
  ASSUME program \in Programs, DealsItself(program), NEW k \in 2 .. Len(program),
         NEW p \in Parties
  PROVE  /\ Calls(k, p) \in 0 .. 9
         /\ \A n \in Nat : From(k, p, n) # NoParty => HearIsSent(k, p, n)
         /\ \A n \in Nat : n < Calls(k, p) /\ To(k, p, n) # NoParty => SendIsHeard(k, p, n)
         /\ \A n, n2 \in 0 .. 4 :
              n < n2 /\ From(k, p, n) = From(k, p, n2) /\ From(k, p, n) # NoParty =>
                SentAs(k, p, n) < SentAs(k, p, n2)
<1> DEFINE op == program[k].op
           r == program[k].roles
<1>1. /\ op \in Operations
      /\ op \in InpOps => IsRoles(r)
      /\ op \in ShareOps => program[k].party = 0
  BY Instructions DEF DealsItself
<1>2. p \in {0, 1, 2, 3} /\ Parties = {0, 1, 2, 3} /\ NoParty = 4
  BY Around
<1>3. CASE op \in MultiplyOps
  <2>1. /\ \A q \in Parties : Calls(k, q) = IF q \in {2, 3} THEN 5 ELSE 3
        /\ \A q, n : To(k, q, n) = IF n = 0 THEN Relative(q, 2) ELSE IF n = 1 THEN Relative(q, 3)
                                   ELSE IF n = 2 THEN Opposite(q) ELSE NoParty
        /\ \A q, n : From(k, q, n) = IF n = 0 THEN Relative(q, 2) ELSE IF n = 1 THEN Relative(q, 1)
                        ELSE IF q \in {2, 3} /\ n = 3 THEN Relative(q, 1)
                        ELSE IF q \in {2, 3} /\ n = 4 THEN Relative(q, 3) ELSE NoParty
        /\ \A q, n : SentAs(k, q, n) = IF n >= 3 THEN 2 ELSE n
        /\ \A q, n : HeardAs(k, q, n) = IF n = 2 THEN (IF q \in {0, 3} THEN 3 ELSE 4) ELSE n
    BY <1>3 DEF Calls, To, From, SentAs, HeardAs
  <2> HIDE DEF op, r
  <2>2. \A n \in Nat : From(k, p, n) # NoParty => n \in {0, 1, 3, 4}
    BY <2>1
  <2>3. \A n \in {0, 1, 3, 4} : From(k, p, n) # NoParty => HearIsSent(k, p, n)
    BY <1>2, <2>1, Around DEF HearIsSent, Opposite
  <2>4. \A n \in Nat : To(k, p, n) # NoParty => n \in {0, 1, 2}
    BY <2>1
  <2>5. \A n \in {0, 1, 2} : SendIsHeard(k, p, n)
    BY <1>2, <2>1, Around DEF SendIsHeard, Opposite
  <2>6. \A n, n2 \in {0, 1, 2, 3, 4} :
          n < n2 /\ From(k, p, n) = From(k, p, n2) /\ From(k, p, n) # NoParty =>
            SentAs(k, p, n) < SentAs(k, p, n2)
    BY <1>2, <2>1, Around
  <2>7. \A n \in 0 .. 4 : n \in {0, 1, 2, 3, 4}
    OBVIOUS
  <2> QED
    BY <2>1, <2>2, <2>3, <2>4, <2>5, <2>6, <2>7
<1>4. CASE op \in OpenOps \cup {"b2a_bit"}
  <2>1. op \notin MultiplyOps /\ op \notin InpOps /\ op \notin ShareOps
    BY <1>1, <1>4, Classes
  <2>2. /\ \A q \in Parties : Calls(k, q) = 1
        /\ \A q, n : To(k, q, n) = IF n = 0 THEN Relative(q, 1) ELSE NoParty
        /\ \A q, n : From(k, q, n) = IF n = 0 THEN Relative(q, 3) ELSE NoParty
        /\ \A q, n : SentAs(k, q, n) = 0
        /\ \A q, n : HeardAs(k, q, n) = 0
    BY <1>4, <2>1 DEF Calls, To, From, SentAs, HeardAs
  <2> HIDE DEF op, r
  <2>3. HearIsSent(k, p, 0)
    BY <1>2, <2>2, Around DEF HearIsSent
  <2>4. SendIsHeard(k, p, 0)
    BY <1>2, <2>2, Around DEF SendIsHeard
  <2> QED
    BY <2>2, <2>3, <2>4
<1>5. CASE op \in InpOps
  <2>1. op \notin MultiplyOps /\ op \notin OpenOps \cup {"b2a_bit"} /\ op \notin ShareOps
    BY <1>1, <1>5, Classes
  <2>2. IsRoles(r)
    BY <1>1, <1>5
  <2>3. /\ \A q \in Parties : Calls(k, q) = IF q = r.g THEN 2 ELSE IF q = r.h THEN 0 ELSE 1
        /\ \A q, n : To(k, q, n) = IF n = 0 /\ q \in {r.i, r.j} THEN r.g ELSE NoParty
        /\ \A q, n : From(k, q, n) = IF q = r.g THEN (IF n = 0 THEN r.i ELSE IF n = 1 THEN r.j
                                                    ELSE NoParty) ELSE NoParty
        /\ \A q, n : SentAs(k, q, n) = 0
        /\ \A q, n : HeardAs(k, q, n) = IF q = r.i THEN 0 ELSE 1
    BY <1>5, <2>1 DEF Calls, To, From, SentAs, HeardAs
  <2> HIDE DEF op
  <2>4. /\ r.i \in Parties /\ r.j \in Parties /\ r.g \in Parties
        /\ r.i # r.j /\ r.i # r.g /\ r.j # r.g /\ r.h # r.i /\ r.h # r.j
    BY <1>2, <2>2 DEF IsRoles
  <2> HIDE DEF r
  <2>5. \A n \in Nat : From(k, p, n) # NoParty => n \in {0, 1} /\ p = r.g
    BY <2>3
  <2>6. \A n \in {0, 1} : p = r.g => HearIsSent(k, p, n)
    BY <2>3, <2>4 DEF HearIsSent
  <2>7. \A n \in Nat : To(k, p, n) # NoParty => n = 0 /\ p \in {r.i, r.j}
    BY <2>3
  <2>8. p \in {r.i, r.j} => SendIsHeard(k, p, 0)
    BY <2>3, <2>4 DEF SendIsHeard
  <2>9. \A n, n2 \in 0 .. 4 :
          n < n2 /\ From(k, p, n) = From(k, p, n2) => From(k, p, n) = NoParty
    BY <2>3, <2>4
  <2> QED
    BY <2>3, <2>5, <2>6, <2>7, <2>8, <2>9
<1>6. CASE op \in ShareOps
  <2>1. op \notin MultiplyOps /\ op \notin OpenOps \cup {"b2a_bit"} /\ op \notin InpOps
    BY <1>1, <1>6, Classes
  <2>2. /\ \A q \in Parties : Calls(k, q) = IF q = 0 THEN 9 ELSE 3
        /\ \A q, n : To(k, q, n) = IF q = 0 THEN (IF n < 3 THEN 1 ELSE IF n < 6 THEN 2
                                         ELSE IF n < 9 THEN 3 ELSE NoParty) ELSE NoParty
        /\ \A q, n : From(k, q, n) = IF q # 0 /\ n \in 0 .. 2 THEN 0 ELSE NoParty
        /\ \A q, n : SentAs(k, q, n) = 3 * (q - 1) + n
        /\ \A q, n : HeardAs(k, q, n) = IF n < 3 THEN n ELSE IF n < 6 THEN n - 3 ELSE n - 6
    BY <1>6, <2>1 DEF Calls, To, From, SentAs, HeardAs
  <2> HIDE DEF op, r
  <2>3. \A n \in 0 .. 2 : p # 0 => HearIsSent(k, p, n)
    <3>1. \A n \in {0, 1, 2} : p = 1 => HearIsSent(k, p, n)
      BY <1>2, <2>2 DEF HearIsSent
    <3>2. \A n \in {0, 1, 2} : p = 2 => HearIsSent(k, p, n)
      BY <1>2, <2>2 DEF HearIsSent
    <3>3. \A n \in {0, 1, 2} : p = 3 => HearIsSent(k, p, n)
      BY <1>2, <2>2 DEF HearIsSent
    <3>4. \A n \in 0 .. 2 : n \in {0, 1, 2}
      OBVIOUS
    <3> QED
      BY <1>2, <3>1, <3>2, <3>3, <3>4
  <2>4. \A n \in Nat : p = 0 /\ n < 9 => SendIsHeard(k, p, n)
    BY <1>2, <2>2 DEF SendIsHeard
  <2>5. \A n, n2 \in 0 .. 4 : n < n2 => SentAs(k, p, n) < SentAs(k, p, n2)
    BY <1>2, <2>2
  <2>6. \A n \in Nat : From(k, p, n) # NoParty => n \in 0 .. 2 /\ p # 0
    BY <2>2
  <2>7. \A n \in Nat : To(k, p, n) # NoParty => p = 0 /\ n < 9
    BY <2>2
  <2> QED
    BY <2>2, <2>3, <2>4, <2>5, <2>6, <2>7
<1>7. CASE op \in LocalOps
  <2>1. /\ op \notin MultiplyOps /\ op \notin OpenOps \cup {"b2a_bit"} /\ op \notin InpOps
        /\ op \notin ShareOps
    BY <1>1, <1>7, Classes
  <2>2. Calls(k, p) = 0 /\ \A n : To(k, p, n) = NoParty /\ From(k, p, n) = NoParty
    BY <2>1 DEF Calls, To, From
  <2> QED
    BY <2>2
<1> QED
  BY <1>1, <1>3, <1>4, <1>5, <1>6, <1>7, Classes

\* The messages a call adds to those a party has got.
LEMMA GetsStep ==
  ASSUME program \in Programs, DealsItself(program), NEW k \in 2 .. Len(program),
         NEW q \in Parties
  PROVE  /\ Gets(k, q, 0) = 0
         /\ \A n \in 0 .. 9 : Gets(k, q, n) \in Nat
         /\ \A n \in 0 .. 8 : n < Calls(k, q) =>
              Gets(k, q, n + 1) = IF From(k, q, n) = NoParty THEN Gets(k, q, n)
                                  ELSE Gets(k, q, n) + 1
<1> DEFINE op == program[k].op
           r == program[k].roles
<1>1. /\ op \in Operations
      /\ op \in InpOps => IsRoles(r)
  BY Instructions
<1>2. q \in {0, 1, 2, 3} /\ Parties = {0, 1, 2, 3} /\ NoParty = 4
  BY Around
<1>3. CASE op \in MultiplyOps
  <2>1. /\ Calls(k, q) = IF q \in {2, 3} THEN 5 ELSE 3
        /\ \A n : From(k, q, n) = IF n = 0 THEN Relative(q, 2) ELSE IF n = 1 THEN Relative(q, 1)
                        ELSE IF q \in {2, 3} /\ n = 3 THEN Relative(q, 1)
                        ELSE IF q \in {2, 3} /\ n = 4 THEN Relative(q, 3) ELSE NoParty
        /\ \A n : Gets(k, q, n) = IF n >= 3 THEN n - 1 ELSE n
    BY <1>3 DEF Calls, From, Gets
  <2>2. Relative(q, 1) # NoParty /\ Relative(q, 2) # NoParty /\ Relative(q, 3) # NoParty
    BY <1>2, Around
  <2> HIDE DEF op, r
  <2>3. \A n \in {0, 1, 2, 3, 4} : n < Calls(k, q) =>
          Gets(k, q, n + 1) = IF From(k, q, n) = NoParty THEN Gets(k, q, n) ELSE Gets(k, q, n) + 1
    BY <1>2, <2>1, <2>2
  <2>4. \A n \in 0 .. 8 : n < Calls(k, q) => n \in {0, 1, 2, 3, 4}
    BY <2>1
  <2>5. Gets(k, q, 0) = 0 /\ \A n \in 0 .. 9 : Gets(k, q, n) \in Nat
    BY <2>1
  <2> QED
    BY <2>3, <2>4, <2>5
<1>4. CASE op \in OpenOps \cup {"b2a_bit"}
  <2>1. op \notin MultiplyOps /\ op \notin InpOps /\ op \notin ShareOps
    BY <1>1, <1>4, Classes
  <2>2. /\ Calls(k, q) = 1 /\ From(k, q, 0) = Relative(q, 3)
        /\ \A n : Gets(k, q, n) = n
    BY <1>4, <2>1 DEF Calls, From, Gets
  <2>3. Relative(q, 3) # NoParty
    BY <1>2, Around
  <2> QED
    BY <2>2, <2>3
<1>5. CASE op \in InpOps
  <2>1. op \notin MultiplyOps /\ op \notin OpenOps \cup {"b2a_bit"} /\ op \notin ShareOps
    BY <1>1, <1>5, Classes
  <2>2. /\ Calls(k, q) = IF q = r.g THEN 2 ELSE IF q = r.h THEN 0 ELSE 1
        /\ \A n : From(k, q, n) = IF q = r.g THEN (IF n = 0 THEN r.i ELSE IF n = 1 THEN r.j
                                                   ELSE NoParty) ELSE NoParty
        /\ \A n : Gets(k, q, n) = IF q = r.g THEN n ELSE 0
    BY <1>5, <2>1 DEF Calls, From, Gets
  <2>3. r.i # NoParty /\ r.j # NoParty
    BY <1>1, <1>2, <1>5 DEF IsRoles
  <2> HIDE DEF op, r
  <2> QED
    BY <2>2, <2>3
<1>6. CASE op \in ShareOps
  <2>1. op \notin MultiplyOps /\ op \notin OpenOps \cup {"b2a_bit"} /\ op \notin InpOps
    BY <1>1, <1>6, Classes
  <2>2. /\ Calls(k, q) = IF q = 0 THEN 9 ELSE 3
        /\ \A n : From(k, q, n) = IF q # 0 /\ n \in 0 .. 2 THEN 0 ELSE NoParty
        /\ \A n : Gets(k, q, n) = IF q = 0 THEN 0 ELSE n
    BY <1>6, <2>1 DEF Calls, From, Gets
  <2> HIDE DEF op, r
  <2> QED
    BY <1>2, <2>2
<1>7. CASE op \in LocalOps
  <2>1. /\ op \notin MultiplyOps /\ op \notin OpenOps \cup {"b2a_bit"} /\ op \notin InpOps
        /\ op \notin ShareOps
    BY <1>1, <1>7, Classes
  <2>2. Calls(k, q) = 0 /\ \A n : Gets(k, q, n) = 0
    BY <2>1 DEF Calls, Gets
  <2> HIDE DEF op, r
  <2> QED
    BY <2>2
<1> QED
  BY <1>1, <1>3, <1>4, <1>5, <1>6, <1>7, Classes

-----------------------------------------------------------------------------
(* Positions.                                                              *)

LEMMA PositionParts ==
  ASSUME NEW k \in Nat, NEW n \in 0 .. 15
  PROVE  16 * k + n \in Nat /\ (16 * k + n) \div 16 = k /\ (16 * k + n) % 16 = n
OBVIOUS

LEMMA PositionsOrder ==
  ASSUME NEW k \in Nat, NEW n \in 0 .. 15, NEW k2 \in Nat, NEW n2 \in 0 .. 15
  PROVE  /\ 16 * k + n = 16 * k2 + n2 => k = k2 /\ n = n2
         /\ 16 * k + n < 16 * k2 + n2 <=> k < k2 \/ (k = k2 /\ n < n2)
OBVIOUS

LEMMA SlotFacts ==
  ASSUME program \in Programs, DealsItself(program), NEW p \in Parties, NEW q \in Parties
  PROVE  /\ Line(Slots(p, q), SendsAt(q))
         /\ \A k \in 2 .. Len(program), n \in 0 .. 15 :
              16 * k + n \in Slots(p, q) <=> From(k, q, n) = p
         /\ \A s \in Slots(p, q) : \E k \in 2 .. Len(program), n \in 0 .. 4 :
              s = 16 * k + n /\ From(k, q, n) = p
         /\ \A k \in Nat, n \in 0 .. 15 :
              SendsAt(q)[16 * k + n] = 16 * k + SentAs(k, q, n)
<1>1. Len(program) \in Nat /\ p # NoParty
  BY Instructions, Around
<1>2. \A s \in Slots(p, q) : \E k \in 2 .. Len(program), n \in 0 .. 4 :
        s = 16 * k + n /\ From(k, q, n) = p
  BY DEF Slots
<1>3. Slots(p, q) \subseteq Nat
  BY DEF Slots
<1>4. \A k \in Nat, n \in 0 .. 15 : SendsAt(q)[16 * k + n] = 16 * k + SentAs(k, q, n)
  BY PositionParts DEF SendsAt
<1>5. ASSUME NEW k \in 2 .. Len(program), NEW n \in Nat, From(k, q, n) = p
      PROVE  HearIsSent(k, q, n)
  BY <1>1, <1>5, SchedulePart
<1>6. ASSUME NEW k \in 2 .. Len(program), NEW n \in 0 .. 15
      PROVE  16 * k + n \in Slots(p, q) <=> From(k, q, n) = p
  <2>1. k \in Nat /\ n \in Nat
    BY <1>1
  <2>2. ASSUME 16 * k + n \in Slots(p, q)
        PROVE  From(k, q, n) = p
    <3>1. PICK k2 \in 2 .. Len(program), n2 \in 0 .. 4 :
            16 * k + n = 16 * k2 + n2 /\ From(k2, q, n2) = p
      BY <1>2, <2>2
    <3>2. k2 \in Nat /\ n2 \in 0 .. 15
      BY <1>1
    <3>3. k = k2 /\ n = n2
      BY <2>1, <3>1, <3>2, PositionsOrder
    <3> QED
      BY <3>1, <3>3
  <2>3. ASSUME From(k, q, n) = p
        PROVE  16 * k + n \in Slots(p, q)
    <3>1. n \in 0 .. 4
      BY <1>5, <2>1, <2>3 DEF HearIsSent
    <3> QED
      BY <2>1, <2>3, <3>1 DEF Slots
  <2> QED
    BY <2>2, <2>3
<1>7. ASSUME NEW s \in Slots(p, q)
      PROVE  SendsAt(q)[s] \in Nat
  <2>1. PICK k \in 2 .. Len(program), n \in 0 .. 4 : s = 16 * k + n /\ From(k, q, n) = p
    BY <1>2
  <2>2. k \in Nat /\ n \in 0 .. 15 /\ n \in Nat
    BY <1>1
  <2>3. SentAs(k, q, n) \in 0 .. 8
    BY <1>5, <2>1, <2>2 DEF HearIsSent
  <2>4. s = 16 * k + n /\ SendsAt(q)[16 * k + n] = 16 * k + SentAs(k, q, n)
    BY <1>4, <2>1, <2>2
  <2>5. 16 * k + SentAs(k, q, n) \in Nat
    <3>1. SentAs(k, q, n) \in 0 .. 15
      BY <2>3
    <3> QED
      BY <2>2, <3>1, PositionParts, Zenon
  <2> QED
    BY <2>4, <2>5
<1>8. ASSUME NEW s \in Slots(p, q), NEW t \in Slots(p, q), s < t
      PROVE  SendsAt(q)[s] < SendsAt(q)[t]
  <2>1. PICK k \in 2 .. Len(program), n \in 0 .. 4 : s = 16 * k + n /\ From(k, q, n) = p
    BY <1>2
  <2>2. PICK k2 \in 2 .. Len(program), n2 \in 0 .. 4 : t = 16 * k2 + n2 /\ From(k2, q, n2) = p
    BY <1>2
  <2>3. k \in Nat /\ n \in 0 .. 15 /\ n \in Nat /\ k2 \in Nat /\ n2 \in 0 .. 15 /\ n2 \in Nat
    BY <1>1
  <2>4. k < k2 \/ (k = k2 /\ n < n2)
    BY <1>8, <2>1, <2>2, <2>3, PositionsOrder
  <2>5. SentAs(k, q, n) \in 0 .. 8 /\ SentAs(k2, q, n2) \in 0 .. 8
    BY <1>5, <2>1, <2>2, <2>3 DEF HearIsSent
  <2>6. k = k2 => SentAs(k, q, n) < SentAs(k2, q, n2)
    BY <1>1, <2>1, <2>2, <2>4, SchedulePart
  <2>7. 16 * k + SentAs(k, q, n) < 16 * k2 + SentAs(k2, q, n2)
    <3>1. PICK m, m2 : m = SentAs(k, q, n) /\ m2 = SentAs(k2, q, n2)
      OBVIOUS
    <3>2. m \in 0 .. 15 /\ m2 \in 0 .. 15 /\ (k < k2 \/ (k = k2 /\ m < m2))
      BY <2>4, <2>5, <2>6, <3>1
    <3>3. 16 * k + m < 16 * k2 + m2
      BY ONLY <2>3, <3>2
    <3> QED
      BY <3>1, <3>3
  <2>8. /\ SendsAt(q)[16 * k + n] = 16 * k + SentAs(k, q, n)
        /\ SendsAt(q)[16 * k2 + n2] = 16 * k2 + SentAs(k2, q, n2)
    BY <1>4, <2>3
  <2> QED
    BY <2>1, <2>2, <2>7, <2>8
<1> QED
  BY <1>2, <1>3, <1>4, <1>6, <1>7, <1>8 DEF Line

LEMMA Ranges ==
  ASSUME Types, NEW p \in Parties, CountInv(p)
  PROVE  /\ program \in Programs /\ DealsItself(program) /\ Len(program) \in Nat
         /\ pc[p] \in Nat /\ pc[p] >= 2 /\ pc[p] <= Len(program) + 1
         /\ Active(p) => pc[p] \in 2 .. Len(program) /\ pc[p] \in 1 .. Len(program)
         /\ ~Active(p) => pc[p] = Len(program) + 1 /\ calls[p] = 0 /\ receiving[p] = NoParty
         /\ calls[p] \in 0 .. 9
         /\ Active(p) => calls[p] <= Calls(pc[p], p) /\ Calls(pc[p], p) \in 0 .. 9
         /\ Completed(p) \in 0 .. 9 /\ Completed(p) <= calls[p]
         /\ got[p] \in Seq(WordSet) /\ Len(got[p]) \in Nat
         /\ SendPos(p) \in Nat /\ HearPos(p) \in Nat
<1>1. /\ program \in Programs /\ DealsItself(program) /\ Len(program) \in Nat
      /\ pc[p] \in Nat /\ calls[p] \in Nat /\ got[p] \in Seq(WordSet)
  BY Instructions DEF Types
<1>2. /\ pc[p] \in 2 .. Len(program) + 1
      /\ ~Active(p) => calls[p] = 0 /\ receiving[p] = NoParty
      /\ Active(p) => /\ calls[p] <= Calls(pc[p], p)
                      /\ receiving[p] # NoParty => calls[p] # 0
  BY DEF CountInv
<1>3. Active(p) => pc[p] \in 2 .. Len(program) /\ pc[p] \in 1 .. Len(program)
  BY <1>1, <1>2 DEF Active
<1>4. ~Active(p) => pc[p] = Len(program) + 1
  BY <1>1, <1>2 DEF Active
<1>5. Active(p) => Calls(pc[p], p) \in 0 .. 9
  BY <1>1, <1>3, SchedulePart
<1>6. calls[p] \in 0 .. 9
  <2>1. CASE Active(p)
    <3>1. calls[p] \in Nat /\ calls[p] <= Calls(pc[p], p) /\ Calls(pc[p], p) \in 0 .. 9
      BY <1>1, <1>2, <1>5, <2>1, Zenon
    <3>2. PICK m \in 0 .. 9 : m = Calls(pc[p], p)
      BY <3>1
    <3> QED
      BY <3>1, <3>2
  <2>2. CASE ~Active(p)
    BY <1>2, <2>2
  <2> QED
    BY <2>1, <2>2
<1>7. Completed(p) \in 0 .. 9 /\ Completed(p) <= calls[p]
  <2>1. receiving[p] # NoParty => calls[p] # 0
    BY <1>2, Zenon
  <2>2. Completed(p) = IF receiving[p] = NoParty THEN calls[p] ELSE calls[p] - 1
    BY DEF Completed
  <2> QED
    BY <1>6, <2>1, <2>2
<1>8. SendPos(p) \in Nat /\ HearPos(p) \in Nat
  <2>1. calls[p] \in 0 .. 15 /\ Completed(p) \in 0 .. 15
    BY <1>6, <1>7
  <2> QED
    BY <1>1, <2>1, PositionParts, Zenon DEF SendPos, HearPos
<1>9. pc[p] >= 2 /\ pc[p] <= Len(program) + 1 /\ Len(got[p]) \in Nat
  BY <1>1, <1>2
<1> QED
  BY <1>1, <1>2, <1>3, <1>4, <1>5, <1>6, <1>7, <1>8, <1>9, Zenon

\* What a party has heard has been sent.
LEMMA HeardIsSent ==
  ASSUME Types, NEW mail, NEW p \in Parties, NEW q \in Parties, CountInv(p), CountInv(q),
         LinkInv(mail, p, q),
         NEW k \in 2 .. Len(program), NEW n \in 0 .. 4, From(k, q, n) = p,
         k < pc[q] \/ (k = pc[q] /\ n < Completed(q))
  PROVE  16 * k + SentAs(k, q, n) < SendPos(p)
<1>1. /\ pc[q] \in Nat /\ Completed(q) \in 0 .. 15 /\ Len(program) \in Nat /\ k \in Nat
      /\ n \in 0 .. 15 /\ program \in Programs /\ DealsItself(program)
  BY Ranges
<1>2. 16 * k + n < HearPos(q)
  BY <1>1, PositionsOrder DEF HearPos
<1>3. 16 * k + n \in Slots(p, q) /\ SendsAt(q)[16 * k + n] = 16 * k + SentAs(k, q, n)
  BY <1>1, SlotFacts
<1> QED
  BY <1>2, <1>3 DEF LinkInv, Carries

-----------------------------------------------------------------------------
(* The words.                                                              *)

Secrets == [0 .. 3 -> WordSet]

\* What party p holds of the words of a secret.
Share(words, p) == [n \in Replication |-> words[Relative(p, n)]]

Sum(kind, words) ==
  Plus(kind, Plus(kind, Plus(kind, words[1], words[2]), words[3]), words[0])

CrossTerm(kind, x, y, s, t) == Plus(kind, Times(kind, x[s], y[t]), Times(kind, x[t], y[s]))

\* Word number s of the result of a local operation ...
LocalWord(op, s, u, v) ==
  CASE op = "add_a"   -> Wrap(u + v)
    [] op = "sub_a"   -> Wrap(u - v)
    [] op = "neg_a"   -> Wrap(-u)
    [] op = "xor_b"   -> Xor(u, v)
    [] op = "not_b"   -> (IF s = 3 THEN Not(u) ELSE u)
    [] op = "not_b_1" -> (IF s = 3 THEN Truth(u = 0) ELSE u)
    [] op = "ltz"     -> Truth(Signed(u) < 0)

\* ... and of a product.
ProductWord(kind, x, y, s) ==
  LET two == Plus(kind, Times(kind, x[s], y[s]), CrossTerm(kind, x, y, s, Relative(s, 1)))
  IN  IF s \in {0, 1} THEN Plus(kind, two, CrossTerm(kind, x, y, s, Relative(s, 2))) ELSE two

\* What parties i and j of an inp share.
KnownWord(instr, x) ==
  LET r     == instr.roles
      sum   == Signed(Wrap(x[Relative(r.i, 1)] + x[Relative(r.i, 2)]))
      parts == DivisionParts(4, sum, sum, instr.c)
      part  == IF r.i = 0 THEN parts[1] ELSE parts[2]
  IN  CASE instr.vector = "sum"      -> Wrap(sum)
        [] instr.vector = "quotient" -> Wrap(part.quotient)
        [] instr.vector = "error"    -> Wrap(part.error)

InpWord(instr, x) == Minus(Kind(instr.op), KnownWord(instr, x), ZeroShare)

\* The masked bit b2a_bit opens.
OpenedBit(x) == Sum("b", [s \in 0 .. 3 |-> LowBit(x[s])])

\* The words of the result of instruction k, if those of the results before are
\* truth[1], truth[2], ...
Value(truth, k) ==
  LET instr == program[k]
      op == instr.op
      x == truth[instr.x]
      y == truth[instr.y]
  IN  IF op \in LocalOps
      THEN [s \in 0 .. 3 |-> LocalWord(op, s, x[s], IF op \in BinaryOps THEN y[s] ELSE 0)]
      ELSE IF op \in MultiplyOps THEN [s \in 0 .. 3 |-> ProductWord(Kind(op), x, y, s)]
      ELSE IF op \in InpOps
      THEN [s \in 0 .. 3 |-> IF s = Relative(instr.roles.i, 2) THEN InpWord(instr, x) ELSE 0]
      ELSE IF op = "b2a_bit"
      THEN [s \in 0 .. 3 |-> IF s = 1 THEN LowBit(OpenedBit(x)) ELSE 0]
      ELSE x

\* The word party q should hear in call n of instruction k.
Said(truth, k, q, n) ==
  LET instr == program[k]
      op == instr.op
      x == truth[instr.x]
      y == truth[instr.y]
  IN  IF op \in MultiplyOps
      THEN (IF n <= 1 THEN CrossTerm(Kind(op), x, y, Relative(q, 3), q)
                      ELSE CrossTerm(Kind(op), x, y, q, Relative(q, 2)))
      ELSE IF op \in OpenOps THEN x[q]
      ELSE IF op = "b2a_bit" THEN LowBit(x[q])
      ELSE IF op \in InpOps THEN InpWord(instr, x)
      ELSE truth[k][Relative(q, n + 1)]

-----------------------------------------------------------------------------
(* The invariant.                                                          *)

\* The words are worth relying on if none was altered that is not compared.
Trusted == altered = 0 \/ (altered = 1 /\ Compares(program))

\* No message is altered.
Nowhere == <<NoParty, 0>>

\* Every message is what it should be but that of call bad of a party.
SaidInv(mail, truth, bad) ==
  \A q \in Parties, k \in 2 .. Len(program), n \in 0 .. 4 :
    /\ From(k, q, n) # NoParty
    /\ 16 * k + SentAs(k, q, n) < SendPos(From(k, q, n))
    /\ <<q, 16 * k + n>> # bad
    => mail[q][16 * k + n] = Said(truth, k, q, n)

\* Registers hold the words that belong to their party, whole openings their sum.
HeldAs(r, op, words, p) ==
  IF r.kind = "open" THEN r.shares[1] = Sum(Kind(op), words) ELSE r.shares = Share(words, p)

HeldInv(truth, p) ==
  \A k \in 1 .. Len(regs[p]) : HeldAs(regs[p][k], program[k].op, truth[k], p)

\* The words of a secret that was shared add up to it.
SharedInv(truth) ==
  \A k \in 1 .. Len(truth) :
    program[k].op \in ShareOps => Sum(Kind(program[k].op), truth[k]) = plain[k]

TruthInv(truth) ==
  /\ truth \in Seq(Secrets) /\ Len(truth) = Len(plain)
  /\ \A k \in 2 .. Len(truth) : program[k].op \notin ShareOps => truth[k] = Value(truth, k)
  /\ \A p \in Parties : HeldInv(truth, p)
  /\ SharedInv(truth)
  /\ dealt[0] # <<>> => \A q \in Parties : dealt[0][q + 1] = Share(truth[pc[0]], q)

ValuesInv(mail) ==
  \E truth, bad :
    /\ TruthInv(truth)
    /\ SaidInv(mail, truth, bad)
    /\ altered = 0 => bad = Nowhere

IInv ==
  /\ Types /\ Counts /\ PlainInv
  /\ altered = 0 => accused = {}
  /\ altered # 0 => program \in Alterable
  /\ \E mail : MailInv(mail) /\ (Trusted => ValuesInv(mail))

-----------------------------------------------------------------------------
(* Steps, as far as the first layer is concerned.                          *)

NextTo(p) == To(pc[p], p, calls[p])
NextFrom(p) == From(pc[p], p, calls[p])
NextSlot(p) == 16 * pc[p] + HeardAs(pc[p], p, calls[p])

\* Party p makes a call and sends m in it, if it sends.
CallStep(p, m) ==
  /\ net' = IF NextTo(p) = NoParty THEN net
            ELSE [net EXCEPT ![<<p, NextTo(p)>>] = Append(@, m)]
  /\ sending' = [sending EXCEPT ![p] = NextTo(p)]
  /\ receiving' = [receiving EXCEPT ![p] = NextFrom(p)]
  /\ calls' = [calls EXCEPT ![p] = @ + 1]
  /\ UNCHANGED <<got, program, pc, regs, dealt, plain, accused, altered>>

CallMail(mail, p, m) ==
  IF NextTo(p) = NoParty THEN mail
  ELSE [mail EXCEPT ![NextTo(p)] = [mail[NextTo(p)] EXCEPT ![NextSlot(p)] = m]]

\* It may make it.
MayCall(p) ==
  /\ Active(p) /\ Returned(p) /\ calls[p] < Calls(pc[p], p)
  /\ Instr(p).op \in ShareOps /\ p = 0 => dealt[p] # <<>>
  /\ Instr(p).op \in MultiplyOps /\ calls[p] = 2 => got[p][1] = got[p][2]

LEMMA SentNext ==
  ASSUME Types, NEW p \in Parties, CountInv(p), Active(p), calls[p] < Calls(pc[p], p)
  PROVE  /\ NextTo(p) # NoParty =>
              /\ NextTo(p) \in Parties /\ NextSlot(p) \in Nat
              /\ NextSlot(p) \in Slots(p, NextTo(p))
              /\ SendsAt(NextTo(p))[NextSlot(p)] = SendPos(p)
         /\ \A q \in Parties : \A s \in Slots(p, q) :
              SendsAt(q)[s] = SendPos(p) => NextTo(p) # NoParty /\ q = NextTo(p) /\ s = NextSlot(p)
<1> DEFINE k == pc[p]
           c == calls[p]
<1>1. /\ program \in Programs /\ DealsItself(program) /\ k \in 2 .. Len(program)
      /\ Len(program) \in Nat /\ k \in Nat /\ c \in 0 .. 9
      /\ c < Calls(k, p)
  BY Ranges, Zenon
<1>2. c \in Nat /\ c \in 0 .. 15
  BY <1>1
<1>3. NextTo(p) # NoParty => SendIsHeard(k, p, c)
  BY <1>1, <1>2, SchedulePart DEF NextTo
<1>4. SendPos(p) = 16 * k + c /\ NextTo(p) = To(k, p, c) /\ NextSlot(p) = 16 * k + HeardAs(k, p, c)
  BY Zenon DEF SendPos, NextTo, NextSlot
<1> HIDE DEF k, c
<1>5. ASSUME NextTo(p) # NoParty
      PROVE  /\ NextTo(p) \in Parties /\ NextSlot(p) \in Nat
             /\ NextSlot(p) \in Slots(p, NextTo(p))
             /\ SendsAt(NextTo(p))[NextSlot(p)] = SendPos(p)
  <2>1. PICK q, m : q = To(k, p, c) /\ m = HeardAs(k, p, c)
    OBVIOUS
  <2>2. q \in Parties /\ m \in 0 .. 4 /\ From(k, q, m) = p /\ SentAs(k, q, m) = c
    BY <1>3, <1>5, <2>1, Zenon DEF SendIsHeard
  <2>3. m \in 0 .. 15
    BY <2>2
  <2>4. 16 * k + m \in Slots(p, q) /\ SendsAt(q)[16 * k + m] = 16 * k + c
    BY <1>1, <2>2, <2>3, SlotFacts
  <2>5. 16 * k + m \in Nat
    BY <1>1, <2>3
  <2> QED
    BY <1>4, <2>1, <2>2, <2>4, <2>5
<1>6. ASSUME NEW q \in Parties, NEW s \in Slots(p, q), SendsAt(q)[s] = SendPos(p)
      PROVE  NextTo(p) # NoParty /\ q = NextTo(p) /\ s = NextSlot(p)
  <2>1. PICK k2 \in 2 .. Len(program), n \in 0 .. 4 : s = 16 * k2 + n /\ From(k2, q, n) = p
    BY <1>1, SlotFacts
  <2>2. k2 \in Nat /\ n \in 0 .. 15 /\ n \in Nat /\ p # NoParty
    BY <1>1, Around
  <2>3. SendsAt(q)[s] = 16 * k2 + SentAs(k2, q, n)
    <3>1. \A a \in Nat, b \in 0 .. 15 : SendsAt(q)[16 * a + b] = 16 * a + SentAs(a, q, b)
      BY <1>1, SlotFacts
    <3> QED
      BY <2>1, <2>2, <3>1
  <2>4. HearIsSent(k2, q, n)
    BY <1>1, <2>1, <2>2, SchedulePart
  <2>5. PICK m : m = SentAs(k2, q, n)
    OBVIOUS
  <2>6. m \in 0 .. 15 /\ To(k2, p, m) = q
    BY <2>1, <2>4, <2>5 DEF HearIsSent
  <2>7. k2 = k /\ m = c
    <3>1. 16 * k2 + m = 16 * k + c
      BY <1>4, <1>6, <2>3, <2>5
    <3> QED
      BY <1>1, <1>2, <2>2, <2>6, <3>1, PositionsOrder
  <2>8. q = NextTo(p) /\ NextTo(p) # NoParty
    BY <1>4, <2>6, <2>7, Around
  <2>9. PICK h : h = HeardAs(k, p, c)
    OBVIOUS
  <2>10. h \in 0 .. 4 /\ From(k, q, h) = p /\ SentAs(k, q, h) = c
    BY <1>3, <1>4, <2>8, <2>9 DEF SendIsHeard
  <2>11. n = h
    <3>1. ~(n < h) /\ ~(h < n)
      <4>1. ASSUME NEW a \in 0 .. 4, NEW b \in 0 .. 4, a < b, From(k, q, a) = p, From(k, q, b) = p
            PROVE  SentAs(k, q, a) < SentAs(k, q, b)
        BY <1>1, <2>2, <4>1, SchedulePart
      <4>2. SentAs(k, q, n) = c /\ SentAs(k, q, h) = c /\ From(k, q, n) = p /\ From(k, q, h) = p
        BY <2>1, <2>5, <2>7, <2>10
      <4>3. ~(c < c)
        BY <1>1
      <4> QED
        BY <2>10, <4>1, <4>2, <4>3
    <3> QED
      BY <2>10, <3>1
  <2> QED
    BY <1>4, <2>1, <2>7, <2>8, <2>9, <2>11
<1> QED
  BY <1>5, <1>6

\* A position that is heard has a slot only if the call hears something.
LEMMA HeardNext ==
  ASSUME Types, NEW p \in Parties, CountInv(p), Active(p)
  PROVE  \A q \in Parties : \A s \in Slots(q, p) :
           s = HearPos(p) => From(pc[p], p, Completed(p)) = q
<1>1. /\ program \in Programs /\ DealsItself(program) /\ pc[p] \in 2 .. Len(program)
      /\ pc[p] \in Nat /\ Completed(p) \in 0 .. 9
  BY Ranges
<1>2. Completed(p) \in 0 .. 15
  BY <1>1
<1>3. \A q \in Parties, k \in 2 .. Len(program), n \in 0 .. 15 :
        16 * k + n \in Slots(q, p) => From(k, p, n) = q
  <2>1. ASSUME NEW q \in Parties
        PROVE  \A k \in 2 .. Len(program), n \in 0 .. 15 :
                 16 * k + n \in Slots(q, p) => From(k, p, n) = q
    <3>1. \A k \in 2 .. Len(program), n \in 0 .. 15 :
            16 * k + n \in Slots(q, p) <=> From(k, p, n) = q
      BY <1>1, SlotFacts
    <3> QED
      BY <3>1
  <2> QED
    BY <2>1
<1> QED
  BY <1>1, <1>2, <1>3 DEF HearPos

LEMMA SameProgram ==
  ASSUME program' = program
  PROVE  /\ \A k, p : Calls(k, p)' = Calls(k, p)
         /\ \A k, p, n : To(k, p, n)' = To(k, p, n) /\ From(k, p, n)' = From(k, p, n)
         /\ \A k, p, n : SentAs(k, p, n)' = SentAs(k, p, n) /\ HeardAs(k, p, n)' = HeardAs(k, p, n)
         /\ \A k, p, n : Gets(k, p, n)' = Gets(k, p, n)
         /\ \A p, q : Slots(p, q)' = Slots(p, q) /\ SendsAt(q)' = SendsAt(q)
<1>1. \A k, p, n : To(k, p, n)' = To(k, p, n) /\ From(k, p, n)' = From(k, p, n)
  BY DEF To, From
<1>2. \A k, p, n : SentAs(k, p, n)' = SentAs(k, p, n) /\ HeardAs(k, p, n)' = HeardAs(k, p, n)
  BY DEF SentAs, HeardAs
<1>3. \A k, p : Calls(k, p)' = Calls(k, p)
  BY DEF Calls
<1>4. \A k, p, n : Gets(k, p, n)' = Gets(k, p, n)
  BY DEF Gets
<1>5. \A p, q : Slots(p, q)' = Slots(p, q)
  BY <1>1 DEF Slots
<1>6. \A q : SendsAt(q)' = SendsAt(q)
  BY <1>2 DEF SendsAt
<1> QED
  BY <1>1, <1>2, <1>3, <1>4, <1>5, <1>6

\* The parties but p are where they were.
LEMMA Elsewhere ==
  ASSUME Types, NEW p \in Parties, NEW q \in Parties, q # p, program' = program,
         pc'[q] = pc[q], calls'[q] = calls[q], receiving'[q] = receiving[q],
         got'[q] = got[q], regs'[q] = regs[q], dealt'[q] = dealt[q]
  PROVE  /\ Active(q)' <=> Active(q)
         /\ Completed(q)' = Completed(q) /\ SendPos(q)' = SendPos(q) /\ HearPos(q)' = HearPos(q)
         /\ CountInv(q) => CountInv(q)'
         /\ RegsInv(q) => RegsInv(q)'
         /\ Reached(q)' = Reached(q)
         /\ Instr(q)' = Instr(q)
<1>1. Active(q)' <=> Active(q)
  BY DEF Active
<1>2. Completed(q)' = Completed(q)
  BY DEF Completed
<1>3. SendPos(q)' = SendPos(q) /\ HearPos(q)' = HearPos(q)
  BY <1>2 DEF SendPos, HearPos
<1>4. Instr(q)' = Instr(q)
  BY DEF Instr
<1>5. CountInv(q)' <=> CountInv(q)
  BY <1>1, <1>2, <1>4, SameProgram DEF CountInv
<1>6. RegsInv(q)' <=> RegsInv(q)
  BY DEF RegsInv
<1>7. Reached(q)' = Reached(q)
  BY DEF Reached
<1> QED
  BY <1>1, <1>2, <1>3, <1>4, <1>5, <1>6, <1>7

\* A position without a slot for it need not be waited for.
LEMMA SkipHeard ==
  ASSUME Types, NEW a \in Parties, NEW b \in Parties, NEW messages, NEW m,
         NEW heard \in Nat, NEW sent \in Nat, \A s \in Slots(a, b) : s # heard,
         Carries(messages, m, Slots(a, b), SendsAt(b), heard, sent)
  PROVE  Carries(messages, m, Slots(a, b), SendsAt(b), heard + 1, sent)
<1>1. Line(Slots(a, b), SendsAt(b))
  BY SlotFacts DEF Types
<1>2. \A s \in Slots(a, b) : s \in Nat /\ SendsAt(b)[s] \in Nat
  BY <1>1 DEF Line
<1>3. \A s \in Slots(a, b) : ~(heard <= s /\ s < heard + 1)
  BY <1>2
<1>4. \A s \in Slots(a, b) : ~(sent <= SendsAt(b)[s] /\ SendsAt(b)[s] < sent)
  BY <1>2
<1> QED
  BY <1>1, <1>3, <1>4, CarriesSkip

LEMMA SkipSent ==
  ASSUME Types, NEW a \in Parties, NEW b \in Parties, NEW messages, NEW m,
         NEW heard \in Nat, NEW sent \in Nat, \A s \in Slots(a, b) : SendsAt(b)[s] # sent,
         Carries(messages, m, Slots(a, b), SendsAt(b), heard, sent)
  PROVE  Carries(messages, m, Slots(a, b), SendsAt(b), heard, sent + 1)
<1>1. Line(Slots(a, b), SendsAt(b))
  BY SlotFacts DEF Types
<1>2. \A s \in Slots(a, b) : s \in Nat /\ SendsAt(b)[s] \in Nat
  BY <1>1 DEF Line
<1>3. \A s \in Slots(a, b) : ~(heard <= s /\ s < heard)
  BY <1>2
<1>4. \A s \in Slots(a, b) : ~(sent <= SendsAt(b)[s] /\ SendsAt(b)[s] < sent + 1)
  BY <1>2
<1> QED
  BY <1>1, <1>3, <1>4, CarriesSkip

LEMMA CallFacts ==
  ASSUME Types, NEW p \in Parties, CountInv(p), MayCall(p), NEW m, CallStep(p, m)
  PROVE  /\ program' = program
         /\ \A q \in Parties : q # p => /\ pc'[q] = pc[q] /\ calls'[q] = calls[q]
                                       /\ receiving'[q] = receiving[q] /\ got'[q] = got[q]
                                       /\ regs'[q] = regs[q] /\ dealt'[q] = dealt[q]
         /\ calls'[p] = calls[p] + 1 /\ receiving'[p] = NextFrom(p) /\ pc'[p] = pc[p]
         /\ Active(p)' /\ Completed(p) = calls[p] /\ calls[p] \in 0 .. 8
         /\ Completed(p)' = (IF NextFrom(p) = NoParty THEN calls[p] + 1 ELSE calls[p])
         /\ SendPos(p)' = SendPos(p) + 1
         /\ HearPos(p)' = (IF NextFrom(p) = NoParty THEN HearPos(p) + 1 ELSE HearPos(p))
         /\ NextFrom(p) \in Parties \cup {NoParty} /\ NextTo(p) \in Parties \cup {NoParty}
<1>1. /\ pc[p] \in Nat /\ calls[p] \in 0 .. 9 /\ calls[p] \in Nat /\ Calls(pc[p], p) \in 0 .. 9
      /\ program \in Programs /\ DealsItself(program) /\ pc[p] \in 2 .. Len(program)
  BY Ranges DEF MayCall
<1>2. calls[p] < Calls(pc[p], p)
  BY DEF MayCall
<1>3. calls[p] \in 0 .. 8
  <2>1. PICK n \in 0 .. 9 : n = Calls(pc[p], p)
    BY <1>1, Zenon
  <2>2. calls[p] < n
    BY <1>2, <2>1
  <2>3. calls[p] \in Nat
    BY <1>1
  <2> QED
    BY ONLY n \in 0 .. 9, <2>2, <2>3
<1>4. /\ calls \in [Parties -> Nat] /\ receiving \in [Parties -> Parties \cup {NoParty}]
      /\ pc \in [Parties -> Nat]
  BY DEF Types
<1>5. /\ program' = program /\ pc' = pc /\ got' = got /\ regs' = regs /\ dealt' = dealt
      /\ calls' = [calls EXCEPT ![p] = @ + 1] /\ receiving' = [receiving EXCEPT ![p] = NextFrom(p)]
  BY DEF CallStep
<1>6. /\ \A q \in Parties : q # p => calls'[q] = calls[q] /\ receiving'[q] = receiving[q]
      /\ calls'[p] = calls[p] + 1 /\ receiving'[p] = NextFrom(p)
  BY <1>4, <1>5
<1>7. Active(p)' /\ receiving[p] = NoParty
  BY <1>5 DEF MayCall, Active, Returned
<1>8. Completed(p) = calls[p]
  BY <1>7 DEF Completed
<1>9. Completed(p)' = IF NextFrom(p) = NoParty THEN calls[p] + 1 ELSE calls[p]
  BY <1>1, <1>6 DEF Completed
<1>10. SendPos(p)' = SendPos(p) + 1
  <2>1. pc'[p] = pc[p] /\ calls'[p] = calls[p] + 1
    BY <1>5, <1>6, Zenon
  <2>2. SendPos(p)' = 16 * pc'[p] + calls'[p] /\ SendPos(p) = 16 * pc[p] + calls[p]
    BY DEF SendPos
  <2>3. pc[p] \in Nat /\ calls[p] \in Nat
    BY <1>1
  <2>4. 16 * pc[p] + (calls[p] + 1) = (16 * pc[p] + calls[p]) + 1
    BY ONLY <2>3
  <2> QED
    BY <2>1, <2>2, <2>4, Zenon
<1>11. HearPos(p)' = IF NextFrom(p) = NoParty THEN HearPos(p) + 1 ELSE HearPos(p)
  <2>1. HearPos(p)' = 16 * pc'[p] + Completed(p)' /\ HearPos(p) = 16 * pc[p] + Completed(p)
    BY DEF HearPos
  <2>2. pc'[p] = pc[p]
    BY <1>5, Zenon
  <2>3. PICK here, c : here = Completed(p) /\ c = Completed(p)'
    OBVIOUS
  <2>4. here = calls[p] /\ c = IF NextFrom(p) = NoParty THEN calls[p] + 1 ELSE calls[p]
    BY <1>8, <1>9, <2>3
  <2>5. HearPos(p)' = 16 * pc[p] + c /\ HearPos(p) = 16 * pc[p] + here
    BY <2>1, <2>2, <2>3
  <2>6. pc[p] \in Nat /\ calls[p] \in Nat
    BY <1>1
  <2>7. 16 * pc[p] + (calls[p] + 1) = (16 * pc[p] + calls[p]) + 1
    BY ONLY <2>6
  <2>8. CASE NextFrom(p) = NoParty
    BY <2>4, <2>5, <2>7, <2>8, Zenon
  <2>9. CASE NextFrom(p) # NoParty
    BY <2>4, <2>5, <2>9, Zenon
  <2> QED
    BY <2>8, <2>9
<1>12. NextTo(p) \in Parties \cup {NoParty}
  BY <1>2, SentNext DEF MayCall
<1>13. NextFrom(p) \in Parties \cup {NoParty}
  <2>1. NextFrom(p) # NoParty => HearIsSent(pc[p], p, calls[p])
    BY <1>1, SchedulePart DEF NextFrom
  <2> QED
    BY <2>1 DEF HearIsSent, NextFrom
<1> QED
  BY <1>3, <1>5, <1>6, <1>7, <1>8, <1>9, <1>10, <1>11, <1>12, <1>13

LEMMA CallKeepsCounts ==
  ASSUME Types, Counts, PlainInv, NEW p \in Parties, MayCall(p), NEW m, CallStep(p, m),
         NextTo(p) # NoParty => m \in WordSet
  PROVE  Types' /\ Counts' /\ PlainInv'
<1>1. CountInv(p) /\ RegsInv(p)
  BY DEF Counts
<1>2. /\ program' = program
      /\ \A q \in Parties : q # p => /\ pc'[q] = pc[q] /\ calls'[q] = calls[q]
                                    /\ receiving'[q] = receiving[q] /\ got'[q] = got[q]
                                    /\ regs'[q] = regs[q] /\ dealt'[q] = dealt[q]
      /\ calls'[p] = calls[p] + 1 /\ receiving'[p] = NextFrom(p) /\ pc'[p] = pc[p]
      /\ Active(p)' /\ Completed(p) = calls[p] /\ calls[p] \in 0 .. 8
      /\ Completed(p)' = (IF NextFrom(p) = NoParty THEN calls[p] + 1 ELSE calls[p])
      /\ NextFrom(p) \in Parties \cup {NoParty} /\ NextTo(p) \in Parties \cup {NoParty}
  BY <1>1, CallFacts
<1>3. /\ got' = got /\ pc' = pc /\ regs' = regs /\ dealt' = dealt /\ plain' = plain
      /\ accused' = accused /\ altered' = altered
      /\ net' = (IF NextTo(p) = NoParty THEN net
                 ELSE [net EXCEPT ![<<p, NextTo(p)>>] = Append(@, m)])
      /\ sending' = [sending EXCEPT ![p] = NextTo(p)]
      /\ receiving' = [receiving EXCEPT ![p] = NextFrom(p)]
      /\ calls' = [calls EXCEPT ![p] = @ + 1]
  BY DEF CallStep
<1>4. Types'
  <2>1. net' \in [Links -> Seq(WordSet)]
    <3>1. CASE NextTo(p) = NoParty
      BY <1>3, <3>1 DEF Types
    <3>2. CASE NextTo(p) # NoParty
      <4>1. m \in WordSet /\ <<p, NextTo(p)>> \in Links /\ net \in [Links -> Seq(WordSet)]
        BY <1>2, <3>2 DEF Types, Links
      <4>2. Append(net[<<p, NextTo(p)>>], m) \in Seq(WordSet)
        BY <4>1
      <4> QED
        BY <1>3, <3>2, <4>1, <4>2
    <3> QED
      BY <3>1, <3>2
  <2>2. sending' \in [Parties -> Parties \cup {NoParty}]
    BY <1>2, <1>3 DEF Types
  <2>3. receiving' \in [Parties -> Parties \cup {NoParty}]
    BY <1>2, <1>3 DEF Types
  <2>4. calls' \in [Parties -> Nat]
    BY <1>3 DEF Types
  <2>5. DealsItself(program)'
    BY <1>2 DEF DealsItself, Types
  <2> QED
    BY <1>2, <1>3, <2>1, <2>2, <2>3, <2>4, <2>5 DEF Types
<1>5. CountInv(p)'
  <2> DEFINE k == pc[p]
             c == calls[p]
  <2>1. /\ k \in 2 .. Len(program) /\ program \in Programs /\ DealsItself(program)
        /\ c < Calls(k, p) /\ Calls(k, p) \in 0 .. 9
    BY <1>1, Ranges DEF MayCall
  <2>2. c + 1 <= Calls(k, p)
    <3>1. PICK n \in 0 .. 9 : n = Calls(k, p)
      BY <2>1, Zenon
    <3>2. c < n /\ c \in 0 .. 8
      BY <1>2, <2>1, <3>1
    <3> QED
      BY <3>1, <3>2
  <2>3. Len(got[p]) = Gets(k, p, c)
    BY <1>1, <1>2 DEF CountInv, MayCall
  <2>4. Gets(k, p, Completed(p)') = Gets(k, p, c)
    <3>1. NextFrom(p) = From(k, p, c)
      BY DEF NextFrom
    <3>2. NextFrom(p) = NoParty => Gets(k, p, c + 1) = Gets(k, p, c)
      BY <1>2, <2>1, <3>1, GetsStep
    <3> QED
      BY <1>2, <3>2
  <2>5. receiving'[p] = From(k, p, calls'[p] - 1) /\ calls'[p] # 0
    <3>1. calls'[p] = c + 1 /\ c + 1 - 1 = c /\ c + 1 # 0
      BY <1>2
    <3> QED
      BY <1>2, <3>1 DEF NextFrom
  <2>6. Instr(p)' = Instr(p)
    BY <1>2 DEF Instr
  <2>7. /\ dealt[p] # <<>> => Instr(p).op \in ShareOps /\ p = 0
        /\ Instr(p).op \in ShareOps /\ p = 0 => dealt[p] # <<>>
    BY <1>1 DEF CountInv, MayCall
  <2>8. Instr(p).op \in MultiplyOps /\ calls'[p] >= 3 => got[p][1] = got[p][2]
    <3>1. calls'[p] >= 3 => c = 2 \/ c >= 3
      BY <1>2
    <3>2. Instr(p).op \in MultiplyOps /\ c >= 3 => got[p][1] = got[p][2]
      BY <1>1 DEF CountInv, MayCall
    <3>3. Instr(p).op \in MultiplyOps /\ c = 2 => got[p][1] = got[p][2]
      BY DEF MayCall
    <3> QED
      BY <3>1, <3>2, <3>3
  <2>9. calls'[p] <= Calls(k, p)
    BY <1>2, <2>2
  <2>10. k \in 2 .. Len(program) + 1
    BY <1>1 DEF CountInv
  <2> QED
    BY <1>2, <1>3, <2>3, <2>4, <2>5, <2>6, <2>7, <2>8, <2>9, <2>10, SameProgram DEF CountInv
<1>6. Counts'
  <2>1. RegsInv(p)'
    BY <1>1, <1>2, <1>3 DEF RegsInv
  <2>2. \A q \in Parties : q # p => CountInv(q)' /\ RegsInv(q)'
    BY <1>2, Elsewhere DEF Counts
  <2> QED
    BY <1>5, <2>1, <2>2 DEF Counts
<1>7. PlainInv'
  BY <1>3 DEF PlainInv, Reached
<1> QED
  BY <1>4, <1>6, <1>7

Delivered(mail, mail2, to, slot, m) ==
  /\ mail2 \in [Parties -> [Nat -> WordSet]]
  /\ \A q \in Parties : \A s \in Nat :
       mail2[q][s] = IF to # NoParty /\ q = to /\ s = slot THEN m ELSE mail[q][s]

LEMMA CallMailIs ==
  ASSUME Types, NEW p \in Parties, CountInv(p), MayCall(p), NEW m,
         NextTo(p) # NoParty => m \in WordSet, NEW mail \in [Parties -> [Nat -> WordSet]]
  PROVE  Delivered(mail, CallMail(mail, p, m), NextTo(p), NextSlot(p), m)
<1> USE DEF Delivered
<1>1. CASE NextTo(p) = NoParty
  BY <1>1 DEF CallMail
<1>2. CASE NextTo(p) # NoParty
  <2>1. NextTo(p) \in Parties /\ NextSlot(p) \in Nat /\ m \in WordSet
    BY <1>2, SentNext DEF MayCall
  <2>2. CallMail(mail, p, m)
          = [mail EXCEPT ![NextTo(p)] = [mail[NextTo(p)] EXCEPT ![NextSlot(p)] = m]]
    BY <1>2 DEF CallMail
  <2> QED
    BY <1>2, <2>1, <2>2
<1> QED
  BY <1>1, <1>2

LEMMA SlotsApart ==
  ASSUME Types, NEW a \in Parties, NEW b \in Parties, NEW c \in Parties,
         NEW s \in Slots(a, b), s \in Slots(c, b)
  PROVE  a = c
<1>1. program \in Programs /\ DealsItself(program)
  BY DEF Types
<1>2. PICK k \in 2 .. Len(program), n \in 0 .. 4 : s = 16 * k + n /\ From(k, b, n) = a
  BY <1>1, SlotFacts
<1>3. 16 * k + n \in Slots(c, b) <=> From(k, b, n) = c
  <2>1. n \in 0 .. 15
    OBVIOUS
  <2>2. \A k2 \in 2 .. Len(program), n2 \in 0 .. 15 :
          16 * k2 + n2 \in Slots(c, b) <=> From(k2, b, n2) = c
    BY <1>1, SlotFacts
  <2> QED
    BY <2>1, <2>2
<1> QED
  BY <1>2, <1>3

LEMMA CallKeepsMail ==
  ASSUME Types, Counts, NEW p \in Parties, MayCall(p), NEW m, CallStep(p, m),
         NextTo(p) # NoParty => m \in WordSet, NEW mail, MailInv(mail),
         NEW mail2, mail2 = CallMail(mail, p, m)
  PROVE  MailInv(mail2)'
<1> DEFINE to == NextTo(p)
           slot == NextSlot(p)
<1>0. \A q \in Parties : CountInv(q)
  BY DEF Counts
<1>1. /\ program' = program
      /\ \A q \in Parties : q # p => /\ pc'[q] = pc[q] /\ calls'[q] = calls[q]
                                    /\ receiving'[q] = receiving[q] /\ got'[q] = got[q]
                                    /\ regs'[q] = regs[q] /\ dealt'[q] = dealt[q]
      /\ pc'[p] = pc[p] /\ Active(p)'
      /\ Completed(p) = calls[p] /\ calls[p] \in 0 .. 8
      /\ Completed(p)' = (IF NextFrom(p) = NoParty THEN calls[p] + 1 ELSE calls[p])
      /\ SendPos(p)' = SendPos(p) + 1
      /\ HearPos(p)' = (IF NextFrom(p) = NoParty THEN HearPos(p) + 1 ELSE HearPos(p))
      /\ to \in Parties \cup {NoParty}
  BY <1>0, CallFacts
<1>2. /\ mail \in [Parties -> [Nat -> WordSet]]
      /\ \A a, b \in Parties : LinkInv(mail, a, b)
      /\ \A q \in Parties : GotInv(mail, q)
  BY DEF MailInv
<1>3. /\ to # NoParty => /\ slot \in Slots(p, to) /\ SendsAt(to)[slot] = SendPos(p)
                         /\ slot \in Nat /\ m \in WordSet
      /\ \A q \in Parties : \A s \in Slots(p, q) :
           SendsAt(q)[s] = SendPos(p) => to # NoParty /\ q = to /\ s = slot
  BY <1>0, SentNext DEF MayCall
<1>4. /\ mail2 \in [Parties -> [Nat -> WordSet]]
      /\ \A q \in Parties : \A s \in Nat :
           mail2[q][s] = IF to # NoParty /\ q = to /\ s = slot THEN m ELSE mail[q][s]
  <2>1. CountInv(p)
    BY <1>0
  <2>2. Delivered(mail, CallMail(mail, p, m), NextTo(p), NextSlot(p), m)
    BY <1>2, <2>1, CallMailIs, Zenon
  <2> QED
    BY <2>2 DEF Delivered
<1>5. \A q \in Parties : SendPos(q) \in Nat /\ HearPos(q) \in Nat
  BY <1>0, Ranges
<1>6. \A a, b \in Parties : /\ Line(Slots(a, b), SendsAt(b))
                            /\ \A s \in Slots(a, b) : s \in Nat
  BY SlotFacts DEF Types, Line
<1>7. /\ net \in [Links -> Seq(WordSet)]
      /\ net' = IF to = NoParty THEN net ELSE [net EXCEPT ![<<p, to>>] = Append(@, m)]
      /\ got' = got
  BY DEF Types, CallStep
<1>8. \A q \in Parties : q # p => SendPos(q)' = SendPos(q) /\ HearPos(q)' = HearPos(q)
                                  /\ (Active(q)' <=> Active(q)) /\ Completed(q)' = Completed(q)
  BY <1>1, Elsewhere
<1> HIDE DEF to, slot
<1>9. ASSUME NEW a \in Parties, NEW b \in Parties, NEW s \in Slots(a, b), a # p
      PROVE  mail2[b][s] = mail[b][s]
  <2>1. to # NoParty /\ b = to /\ s = slot => FALSE
    BY <1>3, <1>9, SlotsApart
  <2> QED
    BY <1>4, <1>6, <2>1
<1>10. ASSUME NEW a \in Parties, NEW b \in Parties
       PROVE  Carries(net'[<<a, b>>], mail2[b], Slots(a, b), SendsAt(b), HearPos(b), SendPos(a)')
  <2>1. Carries(net[<<a, b>>], mail[b], Slots(a, b), SendsAt(b), HearPos(b), SendPos(a))
    BY <1>2 DEF LinkInv
  <2>2. <<a, b>> \in Links /\ net[<<a, b>>] \in Seq(WordSet)
    BY <1>7 DEF Links
  <2>3. CASE a # p
    <3>1. net'[<<a, b>>] = net[<<a, b>>]
      BY <1>7, <2>2, <2>3
    <3>2. Carries(net[<<a, b>>], mail2[b], Slots(a, b), SendsAt(b), HearPos(b), SendPos(a))
      BY <1>9, <2>1, <2>3, CarriesOther
    <3> QED
      BY <1>8, <2>3, <3>1, <3>2
  <2>4. CASE a = p /\ to # NoParty /\ b = to
    <3>1. net'[<<a, b>>] = Append(net[<<a, b>>], mail2[b][slot])
      BY <1>3, <1>4, <1>7, <2>2, <2>4
    <3>2. mail2[b][slot] \in WordSet
      BY <1>3, <1>4, <2>4
    <3>3. \A t \in Slots(a, b) : t # slot => mail2[b][t] = mail[b][t]
      BY <1>4, <1>6, <2>4
    <3>4. slot \in Slots(a, b) /\ SendsAt(b)[slot] = SendPos(a)
      BY <1>3, <2>4
    <3>5. Carries(Append(net[<<a, b>>], mail2[b][slot]), mail2[b], Slots(a, b), SendsAt(b),
                  HearPos(b), SendPos(a) + 1)
      <4>1. Line(Slots(a, b), SendsAt(b)) /\ HearPos(b) \in Nat /\ SendPos(a) \in Nat
        BY <1>5, <1>6
      <4> QED
        BY <2>1, <2>2, <3>2, <3>3, <3>4, <4>1, CarriesSent
    <3> QED
      BY <1>1, <2>4, <3>1, <3>5
  <2>5. CASE a = p /\ ~(to # NoParty /\ b = to)
    <3>1. net'[<<a, b>>] = net[<<a, b>>]
      BY <1>7, <2>2, <2>5
    <3>2. \A s \in Slots(a, b) : mail2[b][s] = mail[b][s]
      BY <1>4, <1>6, <2>5
    <3>3. Carries(net[<<a, b>>], mail2[b], Slots(a, b), SendsAt(b), HearPos(b), SendPos(a))
      BY <2>1, <3>2, CarriesOther
    <3>4. \A s \in Slots(a, b) : SendsAt(b)[s] # SendPos(a)
      BY <1>3, <2>5
    <3>5. Carries(net[<<a, b>>], mail2[b], Slots(a, b), SendsAt(b), HearPos(b), SendPos(a) + 1)
      BY <1>5, <3>3, <3>4, SkipSent
    <3> QED
      BY <1>1, <2>5, <3>1, <3>5
  <2> QED
    BY <2>3, <2>4, <2>5
<1>11. \A q \in Parties : SendPos(q)' \in Nat
  <2>1. ASSUME NEW q \in Parties
        PROVE  SendPos(q)' \in Nat
    BY <1>1, <1>5, <1>8
  <2> QED
    BY <2>1
<1>12. ASSUME NEW a \in Parties, NEW b \in Parties
       PROVE  LinkInv(mail2, a, b)'
  <2>1. Carries(net'[<<a, b>>], mail2[b], Slots(a, b), SendsAt(b), HearPos(b)', SendPos(a)')
    <3>1. CASE b # p \/ NextFrom(p) # NoParty
      BY <1>1, <1>8, <1>10, <3>1
    <3>2. CASE b = p /\ NextFrom(p) = NoParty
      <4>1. From(pc[p], p, Completed(p)) = NoParty
        BY <1>1, <3>2 DEF NextFrom
      <4>2. \A s \in Slots(a, b) : s # HearPos(b)
        BY <1>0, <3>2, <4>1, HeardNext, Around DEF MayCall
      <4>3. Carries(net'[<<a, b>>], mail2[b], Slots(a, b), SendsAt(b), HearPos(b) + 1, SendPos(a)')
        BY <1>5, <1>10, <1>11, <4>2, SkipHeard
      <4> QED
        BY <1>1, <3>2, <4>3
    <3> QED
      BY <3>1, <3>2
  <2>2. Slots(a, b)' = Slots(a, b) /\ SendsAt(b)' = SendsAt(b)
    BY <1>1, SameProgram
  <2> QED
    BY <2>1, <2>2 DEF LinkInv
<1>13. ASSUME NEW q \in Parties
       PROVE  GotInv(mail2, q)'
  <2>1. (Active(q)' <=> Active(q)) /\ pc'[q] = pc[q] /\ got'[q] = got[q]
    BY <1>1, <1>7, <1>8 DEF MayCall
  <2>2. SUFFICES ASSUME Active(q), NEW n \in 0 .. 4, n < Completed(q)', From(pc[q], q, n) # NoParty
                 PROVE  got[q][Gets(pc[q], q, n) + 1] = mail2[q][16 * pc[q] + n]
    BY <1>1, <2>1, SameProgram DEF GotInv
  <2>3. n < Completed(q)
    <3>1. CASE q # p
      BY <1>8, <2>2, <3>1
    <3>2. CASE q = p
      <4>1. NextFrom(p) = From(pc[p], p, calls[p])
        BY DEF NextFrom
      <4>2. NextFrom(p) = NoParty => n # calls[p]
        BY <2>2, <3>2, <4>1
      <4> QED
        BY <1>1, <2>2, <3>2, <4>2
    <3> QED
      BY <3>1, <3>2
  <2>4. got[q][Gets(pc[q], q, n) + 1] = mail[q][16 * pc[q] + n]
    BY <1>2, <2>2, <2>3 DEF GotInv
  <2>5. /\ program \in Programs /\ DealsItself(program) /\ pc[q] \in 2 .. Len(program)
        /\ pc[q] \in Nat /\ Completed(q) \in 0 .. 9 /\ Len(program) \in Nat
    BY <1>0, <2>2, Ranges
  <2>6. PICK a : a = From(pc[q], q, n)
    OBVIOUS
  <2>7. a \in Parties
    <3>1. n \in Nat
      OBVIOUS
    <3>2. HearIsSent(pc[q], q, n)
      BY <2>2, <2>5, <3>1, SchedulePart
    <3> QED
      BY <2>6, <3>2 DEF HearIsSent
  <2>8. 16 * pc[q] + n \in Slots(a, q) /\ 16 * pc[q] + n < HearPos(q)
    <3>1. n \in 0 .. 15 /\ Completed(q) \in 0 .. 15
      BY <2>5
    <3>2. \A k \in 2 .. Len(program), c \in 0 .. 15 : 16 * k + c \in Slots(a, q) <=> From(k, q, c) = a
      BY <2>5, <2>7, SlotFacts
    <3>3. 16 * pc[q] + n < 16 * pc[q] + Completed(q)
      BY <2>3, <2>5, <3>1, PositionsOrder
    <3> QED
      BY <2>5, <2>6, <3>1, <3>2, <3>3 DEF HearPos
  <2>9. SendsAt(q)[16 * pc[q] + n] < SendPos(a)
    BY <1>2, <2>7, <2>8 DEF LinkInv, Carries
  <2>10. ~(to # NoParty /\ q = to /\ 16 * pc[q] + n = slot)
    <3>1. SUFFICES ASSUME to # NoParty, q = to, 16 * pc[q] + n = slot
                   PROVE  FALSE
      OBVIOUS
    <3>2. a = p
      BY <1>3, <2>7, <2>8, <3>1, SlotsApart
    <3>3. SendsAt(q)[16 * pc[q] + n] = SendPos(p)
      BY <1>3, <3>1
    <3>4. SendPos(p) \in Nat
      BY <1>5
    <3> QED
      BY <2>9, <3>2, <3>3, <3>4
  <2>11. 16 * pc[q] + n \in Nat
    BY <1>6, <2>7, <2>8
  <2> QED
    BY <1>4, <2>4, <2>10, <2>11
<1> QED
  BY <1>4, <1>12, <1>13 DEF MailInv

\* What has been got lies before what has not.
LEMMA GetsBelow ==
  ASSUME program \in Programs, DealsItself(program), NEW k \in 2 .. Len(program),
         NEW q \in Parties, NEW n \in 0 .. 9, NEW c \in 0 .. 9, n < c, c <= Calls(k, q),
         From(k, q, n) # NoParty
  PROVE  Gets(k, q, n) \in Nat /\ Gets(k, q, n) + 1 <= Gets(k, q, c) /\ Gets(k, q, c) \in Nat
<1> DEFINE op == program[k].op
           r == program[k].roles
<1>1. /\ op \in Operations
      /\ op \in InpOps => IsRoles(r)
  BY Instructions
<1>2. q \in {0, 1, 2, 3} /\ Parties = {0, 1, 2, 3} /\ NoParty = 4
  BY Around
<1>3. Gets(k, q, n) \in Nat /\ Gets(k, q, c) \in Nat
  BY GetsStep
<1>4. CASE op \in MultiplyOps
  <2>1. /\ \A m : From(k, q, m) = IF m = 0 THEN Relative(q, 2) ELSE IF m = 1 THEN Relative(q, 1)
                        ELSE IF q \in {2, 3} /\ m = 3 THEN Relative(q, 1)
                        ELSE IF q \in {2, 3} /\ m = 4 THEN Relative(q, 3) ELSE NoParty
        /\ \A m : Gets(k, q, m) = IF m >= 3 THEN m - 1 ELSE m
    BY <1>4 DEF From, Gets
  <2> HIDE DEF op, r
  <2>2. n # 2
    BY <2>1
  <2> QED
    BY <1>3, <2>1, <2>2
<1>5. CASE op \in OpenOps \cup {"b2a_bit"}
  <2>1. op \notin MultiplyOps /\ op \notin InpOps /\ op \notin ShareOps
    BY <1>1, <1>5, Classes
  <2>2. \A m : Gets(k, q, m) = m
    BY <1>5, <2>1 DEF Gets
  <2> HIDE DEF op, r
  <2> QED
    BY <2>2
<1>6. CASE op \in InpOps
  <2>1. op \notin MultiplyOps /\ op \notin OpenOps \cup {"b2a_bit"} /\ op \notin ShareOps
    BY <1>1, <1>6, Classes
  <2>2. /\ From(k, q, n) = IF q = r.g THEN (IF n = 0 THEN r.i ELSE IF n = 1 THEN r.j
                                                   ELSE NoParty) ELSE NoParty
        /\ \A m : Gets(k, q, m) = IF q = r.g THEN m ELSE 0
    BY <1>6, <2>1 DEF From, Gets
  <2> HIDE DEF op, r
  <2> QED
    BY <2>2
<1>7. CASE op \in ShareOps
  <2>1. op \notin MultiplyOps /\ op \notin OpenOps \cup {"b2a_bit"} /\ op \notin InpOps
    BY <1>1, <1>7, Classes
  <2>2. /\ From(k, q, n) = IF q # 0 /\ n \in 0 .. 2 THEN 0 ELSE NoParty
        /\ \A m : Gets(k, q, m) = IF q = 0 THEN 0 ELSE m
    BY <1>7, <2>1 DEF From, Gets
  <2> HIDE DEF op, r
  <2> QED
    BY <2>2
<1>8. CASE op \in LocalOps
  <2>1. /\ op \notin MultiplyOps /\ op \notin OpenOps \cup {"b2a_bit"} /\ op \notin InpOps
        /\ op \notin ShareOps
    BY <1>1, <1>8, Classes
  <2>2. From(k, q, n) = NoParty
    BY <2>1 DEF From
  <2> QED
    BY <2>2
<1> QED
  BY <1>1, <1>4, <1>5, <1>6, <1>7, <1>8, Classes

\* Party p hears what it is waiting for.
HearStep(p) ==
  /\ receiving[p] # NoParty
  /\ net[<<receiving[p], p>>] # <<>>
  /\ got' = [got EXCEPT ![p] = Append(@, Head(net[<<receiving[p], p>>]))]
  /\ net' = [net EXCEPT ![<<receiving[p], p>>] = Tail(@)]
  /\ receiving' = [receiving EXCEPT ![p] = NoParty]
  /\ UNCHANGED <<sending, calls, program, pc, regs, dealt, plain, accused, altered>>

LEMMA HearFacts ==
  ASSUME Types, NEW p \in Parties, CountInv(p), HearStep(p)
  PROVE  /\ program' = program
         /\ \A q \in Parties : q # p => /\ pc'[q] = pc[q] /\ calls'[q] = calls[q]
                                       /\ receiving'[q] = receiving[q] /\ got'[q] = got[q]
                                       /\ regs'[q] = regs[q] /\ dealt'[q] = dealt[q]
         /\ receiving'[p] = NoParty /\ calls'[p] = calls[p] /\ pc'[p] = pc[p]
         /\ Active(p) /\ Active(p)' /\ pc[p] \in 2 .. Len(program) /\ pc[p] \in Nat
         /\ calls[p] \in 1 .. 9 /\ Completed(p) = calls[p] - 1 /\ Completed(p)' = calls[p]
         /\ calls[p] <= Calls(pc[p], p)
         /\ SendPos(p)' = SendPos(p) /\ HearPos(p)' = HearPos(p) + 1
         /\ receiving[p] \in Parties /\ receiving[p] = From(pc[p], p, calls[p] - 1)
         /\ Len(got[p]) = Gets(pc[p], p, calls[p] - 1)
<1>1. Active(p)
  BY Ranges DEF HearStep
<1>2. /\ pc[p] \in 2 .. Len(program) /\ pc[p] \in Nat /\ calls[p] \in 0 .. 9
      /\ calls[p] <= Calls(pc[p], p)
  BY <1>1, Ranges
<1>3. calls[p] # 0 /\ receiving[p] = From(pc[p], p, calls[p] - 1)
  BY <1>1 DEF CountInv, HearStep
<1>4. /\ program' = program /\ pc' = pc /\ regs' = regs /\ dealt' = dealt /\ calls' = calls
      /\ receiving' = [receiving EXCEPT ![p] = NoParty]
      /\ got' = [got EXCEPT ![p] = Append(@, Head(net[<<receiving[p], p>>]))]
      /\ receiving[p] # NoParty
  BY DEF HearStep
<1>5. receiving \in [Parties -> Parties \cup {NoParty}] /\ got \in [Parties -> Seq(WordSet)]
  BY DEF Types
<1>6. receiving[p] \in Parties /\ receiving'[p] = NoParty
  BY <1>4, <1>5
<1>7. \A q \in Parties : q # p => receiving'[q] = receiving[q] /\ got'[q] = got[q]
  BY <1>4, <1>5
<1>8. calls[p] \in 1 .. 9
  BY <1>2, <1>3
<1>9. Completed(p) = calls[p] - 1 /\ Completed(p)' = calls[p]
  BY <1>4, <1>6 DEF Completed
<1>10. Active(p)'
  BY <1>1, <1>4 DEF Active
<1>11. Len(got[p]) = Gets(pc[p], p, calls[p] - 1)
  BY <1>1, <1>9 DEF CountInv
<1>12. SendPos(p)' = SendPos(p)
  BY <1>4 DEF SendPos
<1>13. HearPos(p)' = HearPos(p) + 1
  <2>1. HearPos(p)' = 16 * pc[p] + calls[p] /\ HearPos(p) = 16 * pc[p] + (calls[p] - 1)
    BY <1>4, <1>9 DEF HearPos
  <2>2. 16 * pc[p] + calls[p] = (16 * pc[p] + (calls[p] - 1)) + 1
    <3>1. pc[p] \in Nat /\ calls[p] \in Nat
      BY <1>2
    <3> QED
      BY ONLY <3>1
  <2> QED
    BY <2>1, <2>2
<1> QED
  BY <1>1, <1>2, <1>3, <1>4, <1>6, <1>7, <1>8, <1>9, <1>10, <1>11, <1>12, <1>13

LEMMA HearKeepsLinks ==
  ASSUME Types, Counts, NEW p \in Parties, HearStep(p), NEW mail, MailInv(mail)
  PROVE  /\ Head(net[<<receiving[p], p>>]) = mail[p][HearPos(p)]
         /\ \A a, b \in Parties : LinkInv(mail, a, b)'
<1> DEFINE r == receiving[p]
<1>0. \A q \in Parties : CountInv(q)
  BY DEF Counts
<1>1. /\ program' = program
      /\ \A q \in Parties : q # p => /\ pc'[q] = pc[q] /\ calls'[q] = calls[q]
                                    /\ receiving'[q] = receiving[q] /\ got'[q] = got[q]
                                    /\ regs'[q] = regs[q] /\ dealt'[q] = dealt[q]
      /\ Active(p) /\ pc[p] \in 2 .. Len(program) /\ pc[p] \in Nat
      /\ calls[p] \in 1 .. 9 /\ Completed(p) = calls[p] - 1
      /\ SendPos(p)' = SendPos(p) /\ HearPos(p)' = HearPos(p) + 1
      /\ r \in Parties /\ r = From(pc[p], p, calls[p] - 1)
  BY <1>0, HearFacts
<1>2. \A a, b \in Parties : LinkInv(mail, a, b)
  BY DEF MailInv
<1>3. \A q \in Parties : q # p => SendPos(q)' = SendPos(q) /\ HearPos(q)' = HearPos(q)
  BY <1>1, Elsewhere
<1>4. \A q \in Parties : SendPos(q) \in Nat /\ HearPos(q) \in Nat
  BY <1>0, Ranges
<1>5. \A a, b \in Parties : Line(Slots(a, b), SendsAt(b))
  BY SlotFacts DEF Types
<1>6. /\ net \in [Links -> Seq(WordSet)]
      /\ net' = [net EXCEPT ![<<r, p>>] = Tail(@)] /\ net[<<r, p>>] # <<>>
  BY DEF Types, HearStep
<1> HIDE DEF r
<1>7. HearPos(p) \in Slots(r, p)
  <2>1. HearPos(p) = 16 * pc[p] + (calls[p] - 1) /\ calls[p] - 1 \in 0 .. 15
    BY <1>1 DEF HearPos
  <2>2. \A k \in 2 .. Len(program), n \in 0 .. 15 :
          16 * k + n \in Slots(r, p) <=> From(k, p, n) = r
    BY <1>1, SlotFacts DEF Types
  <2> QED
    BY <1>1, <2>1, <2>2
<1>8. /\ Head(net[<<r, p>>]) = mail[p][HearPos(p)]
      /\ Carries(Tail(net[<<r, p>>]), mail[p], Slots(r, p), SendsAt(p), HearPos(p) + 1, SendPos(r))
  <2>1. Carries(net[<<r, p>>], mail[p], Slots(r, p), SendsAt(p), HearPos(p), SendPos(r))
    BY <1>1, <1>2 DEF LinkInv
  <2>2. net[<<r, p>>] \in Seq(WordSet) /\ net[<<r, p>>] # <<>>
    BY <1>1, <1>6 DEF Links
  <2>3. Line(Slots(r, p), SendsAt(p)) /\ HearPos(p) \in Nat /\ SendPos(r) \in Nat
    BY <1>1, <1>4, <1>5
  <2> QED
    BY <1>7, <2>1, <2>2, <2>3, CarriesHeard
<1>9. ASSUME NEW a \in Parties, NEW b \in Parties
      PROVE  LinkInv(mail, a, b)'
  <2>1. Slots(a, b)' = Slots(a, b) /\ SendsAt(b)' = SendsAt(b)
    BY <1>1, SameProgram
  <2>2. SendPos(a)' = SendPos(a)
    BY <1>1, <1>3
  <2>3. Carries(net[<<a, b>>], mail[b], Slots(a, b), SendsAt(b), HearPos(b), SendPos(a))
    BY <1>2 DEF LinkInv
  <2>4. <<a, b>> \in Links
    BY DEF Links
  <2>5. Carries(net'[<<a, b>>], mail[b], Slots(a, b), SendsAt(b), HearPos(b)', SendPos(a))
    <3>1. CASE b # p
      <4>1. net'[<<a, b>>] = net[<<a, b>>]
        BY <1>6, <2>4, <3>1
      <4> QED
        BY <1>3, <2>3, <3>1, <4>1
    <3>2. CASE b = p /\ a # r
      <4>1. net'[<<a, b>>] = net[<<a, b>>]
        BY <1>6, <2>4, <3>2
      <4>2. \A s \in Slots(a, b) : s # HearPos(b)
        BY <1>1, <1>7, <3>2, SlotsApart
      <4>3. Carries(net[<<a, b>>], mail[b], Slots(a, b), SendsAt(b), HearPos(b) + 1, SendPos(a))
        BY <1>4, <2>3, <4>2, SkipHeard
      <4> QED
        BY <1>1, <3>2, <4>1, <4>3
    <3>3. CASE b = p /\ a = r
      <4>1. net'[<<a, b>>] = Tail(net[<<a, b>>])
        BY <1>6, <2>4, <3>3
      <4> QED
        BY <1>1, <1>8, <3>3, <4>1
    <3> QED
      BY <3>1, <3>2, <3>3
  <2> QED
    BY <2>1, <2>2, <2>5 DEF LinkInv
<1> QED
  BY <1>8, <1>9 DEF r

LEMMA HearKeepsMail ==
  ASSUME Types, Counts, NEW p \in Parties, HearStep(p), NEW mail, MailInv(mail)
  PROVE  MailInv(mail)'
<1>0. \A q \in Parties : CountInv(q)
  BY DEF Counts
<1>1. /\ program' = program
      /\ \A q \in Parties : q # p => /\ pc'[q] = pc[q] /\ calls'[q] = calls[q]
                                    /\ receiving'[q] = receiving[q] /\ got'[q] = got[q]
                                    /\ regs'[q] = regs[q] /\ dealt'[q] = dealt[q]
      /\ pc'[p] = pc[p] /\ Active(p) /\ Active(p)' /\ pc[p] \in 2 .. Len(program) /\ pc[p] \in Nat
      /\ calls[p] \in 1 .. 9 /\ Completed(p) = calls[p] - 1 /\ Completed(p)' = calls[p]
      /\ calls[p] <= Calls(pc[p], p)
      /\ Len(got[p]) = Gets(pc[p], p, calls[p] - 1)
  BY <1>0, HearFacts
<1>2. /\ mail \in [Parties -> [Nat -> WordSet]]
      /\ \A q \in Parties : GotInv(mail, q)
  BY DEF MailInv
<1>3. /\ Head(net[<<receiving[p], p>>]) = mail[p][HearPos(p)]
      /\ \A a, b \in Parties : LinkInv(mail, a, b)'
  BY HearKeepsLinks
<1>4. \A q \in Parties : q # p => (Active(q)' <=> Active(q)) /\ Completed(q)' = Completed(q)
  BY <1>1, Elsewhere
<1>5. got[p] \in Seq(WordSet) /\ got'[p] = Append(got[p], mail[p][HearPos(p)])
      /\ mail[p][HearPos(p)] \in WordSet
  <2>1. got \in [Parties -> Seq(WordSet)]
    BY DEF Types
  <2>2. got' = [got EXCEPT ![p] = Append(@, Head(net[<<receiving[p], p>>]))]
    BY DEF HearStep
  <2>3. HearPos(p) \in Nat
    BY <1>0, Ranges
  <2> QED
    BY <1>2, <1>3, <2>1, <2>2, <2>3
<1>6. ASSUME NEW q \in Parties, q # p
      PROVE  GotInv(mail, q)'
  <2>1. (Active(q)' <=> Active(q)) /\ Completed(q)' = Completed(q) /\ pc'[q] = pc[q] /\ got'[q] = got[q]
    BY <1>1, <1>4, <1>6
  <2>2. GotInv(mail, q)
    BY <1>2
  <2> QED
    BY <1>1, <2>1, <2>2, SameProgram DEF GotInv
<1>7. GotInv(mail, p)'
  <2> DEFINE k == pc[p]
             c == calls[p] - 1
  <2>1. SUFFICES ASSUME NEW n \in 0 .. 4, n < calls[p], From(k, p, n) # NoParty
                 PROVE  got'[p][Gets(k, p, n) + 1] = mail[p][16 * k + n]
    <3>1. pc'[p] = pc[p] /\ Completed(p)' = calls[p]
      BY <1>1
    <3>2. /\ \A j, n : From(j, p, n)' = From(j, p, n)
          /\ \A j, n : Gets(j, p, n)' = Gets(j, p, n)
      BY <1>1, SameProgram
    <3> QED
      BY <3>1, <3>2 DEF GotInv
  <2>2. c \in 0 .. 9 /\ n \in 0 .. 9 /\ program \in Programs /\ DealsItself(program)
        /\ calls[p] \in 0 .. 9
    BY <1>1 DEF Types
  <2>3. c <= Calls(k, p)
    <3>1. PICK m \in 0 .. 9 : m = Calls(k, p)
      BY <1>1, <2>2, SchedulePart
    <3>2. calls[p] <= m
      BY <1>1, <3>1
    <3>3. c <= m
      BY <1>1, <3>2
    <3> QED
      BY <3>1, <3>3
  <2>4. CASE n < c
    <3>1. got[p][Gets(k, p, n) + 1] = mail[p][16 * k + n]
      BY <1>1, <1>2, <2>1, <2>4 DEF GotInv
    <3>2. PICK g, h : g = Gets(k, p, n) /\ h = Gets(k, p, c)
      OBVIOUS
    <3>3. g \in Nat /\ g + 1 <= h /\ h = Len(got[p])
      BY <1>1, <2>1, <2>2, <2>3, <2>4, <3>2, GetsBelow
    <3>4. got'[p][g + 1] = got[p][g + 1]
      BY <1>5, <3>3
    <3> QED
      BY <3>1, <3>2, <3>4
  <2>5. CASE n = c
    <3>1. HearPos(p) = 16 * k + n
      BY <1>1, <2>5 DEF HearPos
    <3>2. Len(got[p]) = Gets(k, p, n)
      BY <1>1, <2>5
    <3>3. got'[p][Len(got[p]) + 1] = mail[p][HearPos(p)]
      BY <1>5
    <3> QED
      BY <3>1, <3>2, <3>3
  <2>6. n < c \/ n = c
    BY <1>1, <2>1
  <2> QED
    BY <2>4, <2>5, <2>6
<1>8. \A q \in Parties : GotInv(mail, q)'
  BY <1>6, <1>7
<1> QED
  BY <1>2, <1>3, <1>8 DEF MailInv

LEMMA HearKeepsCounts ==
  ASSUME Types, Counts, PlainInv, NEW p \in Parties, HearStep(p)
  PROVE  Types' /\ Counts' /\ PlainInv'
<1>0. \A q \in Parties : CountInv(q) /\ RegsInv(q)
  BY DEF Counts
<1>1. /\ program' = program
      /\ \A q \in Parties : q # p => /\ pc'[q] = pc[q] /\ calls'[q] = calls[q]
                                    /\ receiving'[q] = receiving[q] /\ got'[q] = got[q]
                                    /\ regs'[q] = regs[q] /\ dealt'[q] = dealt[q]
      /\ receiving'[p] = NoParty /\ calls'[p] = calls[p] /\ pc'[p] = pc[p]
      /\ Active(p) /\ Active(p)' /\ pc[p] \in 2 .. Len(program) /\ pc[p] \in Nat
      /\ calls[p] \in 1 .. 9 /\ Completed(p)' = calls[p]
      /\ calls[p] <= Calls(pc[p], p)
      /\ receiving[p] \in Parties /\ receiving[p] = From(pc[p], p, calls[p] - 1)
      /\ Len(got[p]) = Gets(pc[p], p, calls[p] - 1)
  BY <1>0, HearFacts
<1>2. /\ net[<<receiving[p], p>>] # <<>>
      /\ got' = [got EXCEPT ![p] = Append(@, Head(net[<<receiving[p], p>>]))]
      /\ net' = [net EXCEPT ![<<receiving[p], p>>] = Tail(@)]
      /\ receiving' = [receiving EXCEPT ![p] = NoParty]
      /\ sending' = sending /\ calls' = calls /\ pc' = pc /\ regs' = regs /\ dealt' = dealt
      /\ plain' = plain /\ accused' = accused /\ altered' = altered
  BY DEF HearStep
<1>3. PICK m : m = Head(net[<<receiving[p], p>>])
  OBVIOUS
<1>4. /\ m \in WordSet /\ Tail(net[<<receiving[p], p>>]) \in Seq(WordSet)
      /\ got[p] \in Seq(WordSet) /\ got'[p] = Append(got[p], m)
  <2>1. net[<<receiving[p], p>>] \in Seq(WordSet)
    BY <1>1 DEF Types, Links
  <2>2. got \in [Parties -> Seq(WordSet)]
    BY DEF Types
  <2> QED
    BY <1>2, <1>3, <2>1, <2>2
<1>5. Types'
  <2>1. net' \in [Links -> Seq(WordSet)]
    BY <1>2, <1>4 DEF Types
  <2>2. got' \in [Parties -> Seq(WordSet)]
    BY <1>2, <1>3, <1>4 DEF Types
  <2>3. receiving' \in [Parties -> Parties \cup {NoParty}]
    BY <1>2 DEF Types
  <2>4. DealsItself(program)'
    BY <1>1 DEF DealsItself, Types
  <2> QED
    BY <1>1, <1>2, <2>1, <2>2, <2>3, <2>4 DEF Types
<1>6. CountInv(p)'
  <2> DEFINE k == pc[p]
             c == calls[p] - 1
  <2>1. /\ c \in 0 .. 8 /\ c + 1 = calls[p] /\ program \in Programs /\ DealsItself(program)
    BY <1>1 DEF Types
  <2>2. From(k, p, c) # NoParty
    BY <1>1, Around
  <2>3. c < Calls(k, p)
    <3>1. PICK n \in 0 .. 9 : n = Calls(k, p)
      BY <1>1, <2>1, SchedulePart
    <3>2. calls[p] <= n
      BY <1>1, <3>1
    <3>3. c < n
      BY <1>1, <3>2
    <3> QED
      BY <3>1, <3>3
  <2>4. Gets(k, p, calls[p]) = Gets(k, p, c) + 1
    <3>1. Gets(k, p, c + 1) = Gets(k, p, c) + 1
      BY <1>1, <2>1, <2>2, <2>3, GetsStep
    <3> QED
      BY <2>1, <3>1
  <2>5. Len(got'[p]) = Gets(k, p, calls[p])
    BY <1>1, <1>4, <2>4
  <2>6. Instr(p)' = Instr(p)
    BY <1>1 DEF Instr
  <2>7. /\ dealt[p] # <<>> => Instr(p).op \in ShareOps /\ p = 0
        /\ Instr(p).op \in ShareOps /\ p = 0 /\ dealt[p] = <<>> => calls[p] = 0
        /\ k \in 2 .. Len(program) + 1
    BY <1>0, <1>1 DEF CountInv
  <2>8. ASSUME Instr(p).op \in MultiplyOps, calls[p] >= 3
        PROVE  got'[p][1] = got'[p][2]
    <3>1. got[p][1] = got[p][2]
      BY <1>0, <1>1, <2>8 DEF CountInv
    <3>2. Gets(k, p, c) = IF c >= 3 THEN c - 1 ELSE c
      BY <2>8 DEF Gets, Instr
    <3>3. Len(got[p]) >= 2
      <4>1. c >= 2
        BY <1>1, <2>8
      <4>2. PICK g : g = Gets(k, p, c)
        OBVIOUS
      <4>3. g >= 2
        BY <2>1, <3>2, <4>1, <4>2
      <4> QED
        BY <1>1, <4>2, <4>3
    <3> QED
      BY <1>4, <3>1, <3>3
  <2>9. /\ calls'[p] <= Calls(pc[p], p)'
        /\ Len(got'[p]) = Gets(pc[p], p, Completed(p))'
    <3>1. /\ \A j : Calls(j, p)' = Calls(j, p)
          /\ \A j, n : Gets(j, p, n)' = Gets(j, p, n)
      BY <1>1, SameProgram
    <3>2. calls'[p] = calls[p] /\ pc'[p] = pc[p] /\ Completed(p)' = calls[p]
          /\ calls[p] <= Calls(pc[p], p)
      BY <1>1
    <3>3. Calls(pc[p], p)' = Calls(pc[p], p)
      BY <3>1, <3>2
    <3>4. Gets(pc[p], p, Completed(p))' = Gets(pc[p], p, calls[p])
      BY <3>1, <3>2
    <3> QED
      BY <2>5, <3>2, <3>3, <3>4
  <2>10. /\ dealt'[p] = dealt[p] /\ calls'[p] = calls[p] /\ pc'[p] \in 2 .. Len(program') + 1
         /\ receiving'[p] = NoParty
    BY <1>1, <1>2, <2>7
  <2> QED
    BY <1>1, <2>6, <2>7, <2>8, <2>9, <2>10 DEF CountInv
<1>7. Counts'
  <2>1. RegsInv(p)'
    BY <1>0, <1>1, <1>2 DEF RegsInv
  <2>2. \A q \in Parties : q # p => CountInv(q)' /\ RegsInv(q)'
    BY <1>0, <1>1, Elsewhere
  <2> QED
    BY <1>6, <2>1, <2>2 DEF Counts
<1>8. PlainInv'
  BY <1>2 DEF PlainInv, Reached
<1> QED
  BY <1>5, <1>7, <1>8

\* What has been sent is about results that have plaintexts.
LEMMA SentReached ==
  ASSUME Types, Counts, PlainInv, NEW a \in Parties, NEW k \in 2 .. Len(program), NEW m \in 0 .. 8,
         16 * k + m < SendPos(a)
  PROVE  /\ k - 1 <= Len(plain) /\ k <= pc[a]
         /\ program[k].op \in ShareOps /\ a = 0 => k <= Len(plain)
<1>1. CountInv(a) /\ RegsInv(a) /\ Reached(a) <= Len(plain)
  BY DEF Counts, PlainInv
<1>2. /\ pc[a] \in Nat /\ calls[a] \in 0 .. 9 /\ Len(program) \in Nat /\ pc[a] <= Len(program) + 1
      /\ ~Active(a) => calls[a] = 0
  BY <1>1, Ranges
<1>3. k < pc[a] \/ (k = pc[a] /\ m < calls[a])
  <2>1. calls[a] \in 0 .. 15 /\ m \in 0 .. 15 /\ k \in Nat
    BY <1>2
  <2>2. 16 * k + m < 16 * pc[a] + calls[a]
    BY DEF SendPos
  <2> QED
    BY <1>2, <2>1, <2>2, PositionsOrder
<1>4. Len(regs[a]) = pc[a] - 1 /\ Len(plain) \in Nat
  BY <1>1 DEF RegsInv, Types
<1>5. Reached(a) = IF dealt[a] = <<>> THEN pc[a] - 1 ELSE pc[a]
  <2>1. Reached(a) = (pc[a] - 1) + (IF dealt[a] = <<>> THEN 0 ELSE 1)
    BY <1>4 DEF Reached
  <2>2. pc[a] - 1 + 0 = pc[a] - 1 /\ pc[a] - 1 + 1 = pc[a]
    BY <1>2
  <2> QED
    BY <2>1, <2>2
<1>6. pc[a] - 1 <= Len(plain) /\ (dealt[a] # <<>> => pc[a] <= Len(plain))
  BY <1>1, <1>2, <1>4, <1>5
<1>7. ASSUME program[k].op \in ShareOps, a = 0, k = pc[a], m < calls[a]
      PROVE  dealt[a] # <<>>
  <2>1. calls[a] # 0
    <3>1. calls[a] \in Nat /\ m \in Nat
      BY DEF Types
    <3> QED
      BY ONLY <1>7, <3>1
  <2>2. Active(a)
    BY <1>2, <2>1
  <2> QED
    BY <1>1, <1>7, <2>1, <2>2 DEF CountInv, Instr
<1>8. k \in Nat /\ pc[a] \in Nat /\ Len(plain) \in Nat
  BY <1>2, <1>4
<1>9. k - 1 <= Len(plain) /\ k <= pc[a]
  BY ONLY <1>3, <1>6, <1>8
<1>10. program[k].op \in ShareOps /\ a = 0 => k <= Len(plain)
  <2>1. CASE k < pc[a]
    BY ONLY <2>1, <1>6, <1>8
  <2>2. CASE k = pc[a] /\ m < calls[a]
    BY <1>6, <1>7, <2>2
  <2> QED
    BY <1>3, <2>1, <2>2
<1> QED
  BY <1>9, <1>10

\* Party p may return from its operation with register r.
MayReturn(p, r, values) ==
  /\ Active(p) /\ Returned(p) /\ calls[p] = Calls(pc[p], p)
  /\ r \in Registers /\ r.kind = ResultKind(Instr(p).op)
  /\ IF Instr(p).op \in ShareOps THEN values = <<>> /\ (p = 0 => dealt[p] # <<>>)
     ELSE \E v \in WordSet \cup {Unknown} : values = <<v>>

LEMMA ReturnFacts ==
  ASSUME Types, NEW p \in Parties, CountInv(p), NEW r, NEW values, MayReturn(p, r, values),
         Finish(p, <<r>>, values)
  PROVE  /\ program' = program /\ net' = net /\ sending' = sending /\ receiving' = receiving
         /\ accused' = accused /\ altered' = altered
         /\ \A q \in Parties : q # p => /\ pc'[q] = pc[q] /\ calls'[q] = calls[q]
                                       /\ receiving'[q] = receiving[q] /\ got'[q] = got[q]
                                       /\ regs'[q] = regs[q] /\ dealt'[q] = dealt[q]
         /\ pc'[p] = pc[p] + 1 /\ calls'[p] = 0 /\ got'[p] = <<>> /\ dealt'[p] = <<>>
         /\ receiving[p] = NoParty /\ regs'[p] = Append(regs[p], r)
         /\ pc[p] \in 2 .. Len(program) /\ pc[p] \in Nat /\ Len(program) \in Nat
         /\ calls[p] \in 0 .. 9 /\ Completed(p) = calls[p] /\ Completed(p)' = 0
         /\ SendPos(p) = 16 * pc[p] + calls[p] /\ HearPos(p) = 16 * pc[p] + calls[p]
         /\ SendPos(p)' = 16 * (pc[p] + 1) /\ HearPos(p)' = 16 * (pc[p] + 1)
         /\ SendPos(p)' \in Nat /\ HearPos(p)' \in Nat
<1>1. /\ pc[p] \in 2 .. Len(program) /\ pc[p] \in Nat /\ Len(program) \in Nat
      /\ calls[p] \in 0 .. 9
  BY Ranges DEF MayReturn
<1>2. /\ program' = program /\ net' = net /\ sending' = sending /\ receiving' = receiving
      /\ accused' = accused /\ altered' = altered
      /\ regs' = [regs EXCEPT ![p] = @ \o <<r>>] /\ pc' = [pc EXCEPT ![p] = @ + 1]
      /\ dealt' = [dealt EXCEPT ![p] = <<>>]
      /\ calls' = [calls EXCEPT ![p] = 0] /\ got' = [got EXCEPT ![p] = <<>>]
  BY DEF Finish, Return, ForgetCalls
<1>3. /\ pc \in [Parties -> Nat] /\ calls \in [Parties -> Nat] /\ got \in [Parties -> Seq(WordSet)]
      /\ regs \in [Parties -> Seq(Registers)] /\ dealt \in [Parties -> Deals \cup {<<>>}]
  BY DEF Types
<1>4. /\ \A q \in Parties : q # p => /\ pc'[q] = pc[q] /\ calls'[q] = calls[q]
                                    /\ receiving'[q] = receiving[q] /\ got'[q] = got[q]
                                    /\ regs'[q] = regs[q] /\ dealt'[q] = dealt[q]
      /\ pc'[p] = pc[p] + 1 /\ calls'[p] = 0 /\ got'[p] = <<>> /\ dealt'[p] = <<>>
      /\ regs'[p] = regs[p] \o <<r>>
  BY <1>2, <1>3
<1>5. regs'[p] = Append(regs[p], r)
  <2>1. regs[p] \in Seq(Registers) /\ r \in Registers
    BY <1>3 DEF MayReturn
  <2> QED
    BY <1>4, <2>1
<1>6. receiving[p] = NoParty
  BY DEF MayReturn, Returned
<1>7. Completed(p) = calls[p] /\ Completed(p)' = 0
  BY <1>2, <1>4, <1>6 DEF Completed
<1>8. SendPos(p) = 16 * pc[p] + calls[p] /\ HearPos(p) = 16 * pc[p] + calls[p]
  BY <1>7 DEF SendPos, HearPos
<1>9. SendPos(p)' = 16 * (pc[p] + 1) + 0
  BY <1>4 DEF SendPos
<1>10. HearPos(p)' = 16 * (pc[p] + 1) + 0
  BY <1>4, <1>7 DEF HearPos
<1>11. 16 * (pc[p] + 1) + 0 = 16 * (pc[p] + 1) /\ 16 * (pc[p] + 1) \in Nat
  <2>1. pc[p] \in Nat
    BY <1>1
  <2> QED
    BY ONLY <2>1
<1> QED
  BY <1>1, <1>2, <1>4, <1>5, <1>6, <1>7, <1>8, <1>9, <1>10, <1>11

LEMMA Between ==
  ASSUME NEW j \in Nat, NEW c \in 0 .. 9, NEW k \in Nat, NEW x \in 0 .. 8,
         16 * j + c <= 16 * k + x, 16 * k + x < 16 * (j + 1)
  PROVE  k = j /\ c <= x
OBVIOUS

LEMMA ReturnKeepsMail ==
  ASSUME Types, Counts, NEW p \in Parties, NEW r, NEW values, MayReturn(p, r, values),
         Finish(p, <<r>>, values), NEW mail, MailInv(mail)
  PROVE  MailInv(mail)'
<1>0. \A q \in Parties : CountInv(q)
  BY DEF Counts
<1>1. /\ program' = program /\ net' = net
      /\ \A q \in Parties : q # p => /\ pc'[q] = pc[q] /\ calls'[q] = calls[q]
                                    /\ receiving'[q] = receiving[q] /\ got'[q] = got[q]
                                    /\ regs'[q] = regs[q] /\ dealt'[q] = dealt[q]
      /\ pc[p] \in 2 .. Len(program) /\ pc[p] \in Nat /\ calls[p] \in 0 .. 9 /\ Completed(p)' = 0
      /\ SendPos(p) = 16 * pc[p] + calls[p] /\ HearPos(p) = 16 * pc[p] + calls[p]
      /\ SendPos(p)' = 16 * (pc[p] + 1) /\ HearPos(p)' = 16 * (pc[p] + 1)
      /\ SendPos(p)' \in Nat /\ HearPos(p)' \in Nat
  BY <1>0, ReturnFacts
<1>2. \A q \in Parties : q # p => /\ SendPos(q)' = SendPos(q) /\ HearPos(q)' = HearPos(q)
                                  /\ (Active(q)' <=> Active(q)) /\ Completed(q)' = Completed(q)
  BY <1>1, Elsewhere
<1>3. /\ mail \in [Parties -> [Nat -> WordSet]]
      /\ \A q \in Parties : GotInv(mail, q)
      /\ \A a, b \in Parties : LinkInv(mail, a, b)
  BY DEF MailInv
<1>4. \A q \in Parties : SendPos(q) \in Nat /\ HearPos(q) \in Nat
  BY <1>0, Ranges
<1>5. program \in Programs /\ DealsItself(program) /\ calls[p] = Calls(pc[p], p)
  BY DEF Types, MayReturn
<1>6. \A a, b \in Parties : Line(Slots(a, b), SendsAt(b))
  BY <1>5, SlotFacts
<1>7. ASSUME NEW a \in Parties, NEW b \in Parties, NEW s \in Slots(a, b)
      PROVE  /\ a = p => ~(SendPos(p) <= SendsAt(b)[s] /\ SendsAt(b)[s] < SendPos(p)')
             /\ b = p => ~(HearPos(p) <= s /\ s < HearPos(p)')
  <2>1. PICK k \in 2 .. Len(program), n \in 0 .. 4 : s = 16 * k + n /\ From(k, b, n) = a
    BY <1>5, SlotFacts
  <2>2. PICK m : m = SentAs(k, b, n)
    OBVIOUS
  <2>3. n \in Nat /\ From(k, b, n) # NoParty /\ k \in Nat /\ n \in 0 .. 15 /\ Len(program) \in Nat
    BY <1>5, <2>1, Around, Instructions
  <2>4. m \in 0 .. 8 /\ n < Calls(k, b) /\ m < Calls(k, a)
    <3>1. HearIsSent(k, b, n)
      BY <1>5, <2>3, SchedulePart
    <3> QED
      BY <2>1, <2>2, <3>1 DEF HearIsSent
  <2>5. SendsAt(b)[s] = 16 * k + m
    <3>1. \A j \in Nat, c \in 0 .. 15 : SendsAt(b)[16 * j + c] = 16 * j + SentAs(j, b, c)
      BY <1>5, SlotFacts
    <3> QED
      BY <2>1, <2>2, <2>3, <3>1
  <2>6. ASSUME NEW x \in 0 .. 8, 16 * pc[p] + calls[p] <= 16 * k + x, 16 * k + x < 16 * (pc[p] + 1)
        PROVE  k = pc[p] /\ calls[p] <= x
    <3>1. pc[p] \in Nat /\ calls[p] \in 0 .. 9 /\ k \in Nat
      BY <1>1, <2>3
    <3> QED
      BY <2>6, <3>1, Between
  <2>7. ASSUME a = p, SendPos(p) <= SendsAt(b)[s], SendsAt(b)[s] < SendPos(p)'
        PROVE  FALSE
    <3>1. k = pc[p] /\ calls[p] <= m
      BY <1>1, <2>4, <2>5, <2>6, <2>7
    <3>2. m < calls[p]
      BY <1>5, <2>4, <2>7, <3>1
    <3>3. calls[p] \in Nat /\ m \in Nat
      <4>1. \A j \in 0 .. 8 : j \in Nat
        OBVIOUS
      <4> QED
        BY <2>4, <4>1 DEF Types
    <3> QED
      BY ONLY <3>1, <3>2, <3>3
  <2>8. ASSUME b = p, HearPos(p) <= s, s < HearPos(p)'
        PROVE  FALSE
    <3>1. k = pc[p] /\ calls[p] <= n
      <4>1. 16 * pc[p] + calls[p] <= 16 * k + n /\ 16 * k + n < 16 * (pc[p] + 1)
        BY <1>1, <2>1, <2>8
      <4>2. n \in 0 .. 8
        OBVIOUS
      <4> QED
        BY <2>6, <4>1, <4>2
    <3>2. n < calls[p]
      BY <1>5, <2>4, <2>8, <3>1
    <3>3. calls[p] \in Nat /\ n \in Nat
      BY DEF Types
    <3> QED
      BY ONLY <3>1, <3>2, <3>3
  <2> QED
    BY <2>7, <2>8
<1>8. /\ SendPos(p) <= SendPos(p)' /\ HearPos(p) <= HearPos(p)'
  <2>1. pc[p] \in Nat /\ calls[p] \in 0 .. 9
    BY <1>1
  <2>2. 16 * pc[p] + calls[p] <= 16 * (pc[p] + 1)
    BY ONLY <2>1
  <2> QED
    BY <1>1, <2>2
<1>9. ASSUME NEW a \in Parties, NEW b \in Parties
      PROVE  LinkInv(mail, a, b)'
  <2>1. Slots(a, b)' = Slots(a, b) /\ SendsAt(b)' = SendsAt(b)
    BY <1>1, SameProgram
  <2>2. Carries(net[<<a, b>>], mail[b], Slots(a, b), SendsAt(b), HearPos(b), SendPos(a))
    BY <1>3 DEF LinkInv
  <2>3. PICK sent, heard : sent = SendPos(a)' /\ heard = HearPos(b)'
    OBVIOUS
  <2>4. /\ sent \in Nat /\ heard \in Nat /\ SendPos(a) <= sent /\ HearPos(b) <= heard
    <3>1. a = p \/ (a # p /\ sent = SendPos(a))
      BY <1>2, <2>3
    <3>2. b = p \/ (b # p /\ heard = HearPos(b))
      BY <1>2, <2>3
    <3>3. a = p => sent \in Nat /\ SendPos(a) <= sent
      BY <1>1, <1>8, <2>3
    <3>4. b = p => heard \in Nat /\ HearPos(b) <= heard
      BY <1>1, <1>8, <2>3
    <3>5. SendPos(a) \in Nat /\ HearPos(b) \in Nat
      BY <1>4
    <3>6. SendPos(a) <= SendPos(a) /\ HearPos(b) <= HearPos(b)
      BY <3>5
    <3> QED
      BY <3>1, <3>2, <3>3, <3>4, <3>5, <3>6
  <2>5. \A s \in Slots(a, b) : /\ ~(HearPos(b) <= s /\ s < heard)
                               /\ ~(SendPos(a) <= SendsAt(b)[s] /\ SendsAt(b)[s] < sent)
    <3>1. \A s \in Slots(a, b) : s \in Nat /\ SendsAt(b)[s] \in Nat
      BY <1>6 DEF Line
    <3>2. a # p => sent = SendPos(a)
      BY <1>2, <2>3
    <3>3. b # p => heard = HearPos(b)
      BY <1>2, <2>3
    <3>4. \A s \in Slots(a, b) : ~(HearPos(b) <= s /\ s < heard)
      <4>1. CASE b = p
        BY <1>7, <2>3, <4>1
      <4>2. CASE b # p
        BY <1>4, <3>1, <3>3, <4>2
      <4> QED
        BY <4>1, <4>2
    <3>5. \A s \in Slots(a, b) : ~(SendPos(a) <= SendsAt(b)[s] /\ SendsAt(b)[s] < sent)
      <4>1. CASE a = p
        BY <1>7, <2>3, <4>1
      <4>2. CASE a # p
        BY <1>4, <3>1, <3>2, <4>2
      <4> QED
        BY <4>1, <4>2
    <3> QED
      BY <3>4, <3>5
  <2>6. Line(Slots(a, b), SendsAt(b)) /\ SendPos(a) \in Nat /\ HearPos(b) \in Nat
    BY <1>4, <1>6
  <2>7. Carries(net[<<a, b>>], mail[b], Slots(a, b), SendsAt(b), heard, sent)
    BY <2>2, <2>4, <2>5, <2>6, CarriesSkip
  <2> QED
    BY <1>1, <2>1, <2>3, <2>7 DEF LinkInv
<1>10. ASSUME NEW q \in Parties
       PROVE  GotInv(mail, q)'
  <2>1. CASE q = p
    BY <1>1, <2>1 DEF GotInv
  <2>2. CASE q # p
    <3>1. (Active(q)' <=> Active(q)) /\ Completed(q)' = Completed(q) /\ pc'[q] = pc[q] /\ got'[q] = got[q]
      BY <1>1, <1>2, <2>2
    <3>2. GotInv(mail, q)
      BY <1>3
    <3> QED
      BY <1>1, <3>1, <3>2, SameProgram DEF GotInv
  <2> QED
    BY <2>1, <2>2
<1> QED
  BY <1>3, <1>9, <1>10 DEF MailInv

\* Whoever has got all its shares of a secret knows that they were made.
LEMMA SecretReached ==
  ASSUME Types, Counts, PlainInv, NEW mail, MailInv(mail), NEW p \in Parties, Active(p),
         calls[p] = Calls(pc[p], p), receiving[p] = NoParty, Instr(p).op \in ShareOps,
         p = 0 => dealt[p] # <<>>
  PROVE  pc[p] <= Len(plain)
<1>0. \A q \in Parties : CountInv(q) /\ RegsInv(q)
  BY DEF Counts
<1>1. /\ program \in Programs /\ DealsItself(program) /\ pc[p] \in 2 .. Len(program)
      /\ pc[p] \in Nat /\ Len(plain) \in Nat
  BY <1>0, Ranges DEF Types
<1>2. Parties = {0, 1, 2, 3} /\ NoParty = 4
  BY Around
<1>3. CASE p = 0
  <2>1. Reached(p) <= Len(plain) /\ Len(regs[p]) = pc[p] - 1
    BY <1>0 DEF PlainInv, RegsInv
  <2>2. Reached(p) = (pc[p] - 1) + 1
    BY <1>3, <2>1 DEF Reached
  <2>3. (pc[p] - 1) + 1 = pc[p]
    BY <1>1
  <2> QED
    BY <2>1, <2>2, <2>3
<1>4. CASE p # 0
  <2>1. /\ program[pc[p]].op \in Operations
        /\ program[pc[p]].op \in ShareOps
    BY <1>1, Instructions DEF Instr
  <2>2. /\ program[pc[p]].op \notin MultiplyOps /\ program[pc[p]].op \notin OpenOps \cup {"b2a_bit"}
        /\ program[pc[p]].op \notin InpOps
    BY <2>1, Classes
  <2>3. /\ Calls(pc[p], p) = 3 /\ From(pc[p], p, 0) = 0 /\ SentAs(pc[p], p, 0) = 3 * (p - 1) + 0
    BY <1>4, <2>1, <2>2 DEF Calls, From, SentAs
  <2>4. Completed(p) = 3
    BY <2>3 DEF Completed
  <2>5. LinkInv(mail, 0, p) /\ 0 \in Parties
    BY <1>2 DEF MailInv
  <2>6. 16 * pc[p] + SentAs(pc[p], p, 0) < SendPos(0)
    <3>1. CountInv(0) /\ CountInv(p) /\ 0 \in 0 .. 4 /\ 0 < Completed(p)
      BY <1>0, <2>4, <2>5
    <3> QED
      BY <1>1, <2>3, <2>5, <3>1, HeardIsSent
  <2>7. 3 * (p - 1) + 0 \in 0 .. 8
    BY <1>2, <1>4
  <2> QED
    BY <1>1, <2>1, <2>3, <2>5, <2>6, <2>7, SentReached
<1> QED
  BY <1>3, <1>4

LEMMA RegsPlain ==
  ASSUME Types, Counts, PlainInv, NEW q \in Parties
  PROVE  /\ Len(regs[q]) \in Nat /\ Len(regs[q]) = pc[q] - 1 /\ pc[q] \in Nat /\ pc[q] = Len(regs[q]) + 1
         /\ Len(plain) \in Nat
         /\ Reached(q) = IF dealt[q] = <<>> THEN Len(regs[q]) ELSE Len(regs[q]) + 1
         /\ Reached(q) <= Len(plain) /\ Reached(q) \in Nat
         /\ Len(regs[q]) <= Len(plain)
<1>1. RegsInv(q) /\ Reached(q) <= Len(plain)
  BY DEF Counts, PlainInv
<1>2. /\ regs[q] \in Seq(Registers) /\ pc[q] \in Nat /\ plain \in Seq(WordSet \cup {Unknown})
  BY DEF Types
<1>3. Len(regs[q]) \in Nat /\ Len(regs[q]) = pc[q] - 1 /\ Len(plain) \in Nat
  BY <1>1, <1>2 DEF RegsInv
<1>4. Reached(q) = IF dealt[q] = <<>> THEN Len(regs[q]) ELSE Len(regs[q]) + 1
  BY <1>3 DEF Reached
<1>5. pc[q] = Len(regs[q]) + 1
  BY <1>2, <1>3
<1> QED
  BY <1>1, <1>2, <1>3, <1>4, <1>5

LEMMA ReturnKeepsCounts ==
  ASSUME Types, Counts, PlainInv, NEW mail, MailInv(mail), NEW p \in Parties, NEW r, NEW values,
         MayReturn(p, r, values), Finish(p, <<r>>, values)
  PROVE  Types' /\ Counts' /\ PlainInv'
<1>0. \A q \in Parties : CountInv(q) /\ RegsInv(q)
  BY DEF Counts
<1>1. /\ program' = program /\ net' = net /\ sending' = sending /\ receiving' = receiving
      /\ accused' = accused /\ altered' = altered
      /\ \A q \in Parties : q # p => /\ pc'[q] = pc[q] /\ calls'[q] = calls[q]
                                    /\ receiving'[q] = receiving[q] /\ got'[q] = got[q]
                                    /\ regs'[q] = regs[q] /\ dealt'[q] = dealt[q]
      /\ pc'[p] = pc[p] + 1 /\ calls'[p] = 0 /\ got'[p] = <<>> /\ dealt'[p] = <<>>
      /\ receiving[p] = NoParty /\ regs'[p] = Append(regs[p], r)
      /\ pc[p] \in 2 .. Len(program) /\ pc[p] \in Nat /\ Len(program) \in Nat
      /\ Completed(p)' = 0
  BY <1>0, ReturnFacts
<1>2. /\ regs' = [regs EXCEPT ![p] = @ \o <<r>>] /\ pc' = [pc EXCEPT ![p] = @ + 1]
      /\ dealt' = [dealt EXCEPT ![p] = <<>>]
      /\ calls' = [calls EXCEPT ![p] = 0] /\ got' = [got EXCEPT ![p] = <<>>]
      /\ plain' = IF Len(plain) > Len(regs[p]) THEN plain ELSE plain \o values
  BY DEF Finish, Return, ForgetCalls
<1>3. /\ Active(p) /\ calls[p] = Calls(pc[p], p) /\ r \in Registers /\ r.kind = ResultKind(Instr(p).op)
      /\ Instr(p).op \in ShareOps => values = <<>> /\ (p = 0 => dealt[p] # <<>>)
      /\ Instr(p).op \notin ShareOps => \E v \in WordSet \cup {Unknown} : values = <<v>>
  BY DEF MayReturn
<1>4. /\ regs[p] \in Seq(Registers) /\ plain \in Seq(WordSet \cup {Unknown})
      /\ Len(regs[p]) \in Nat /\ Len(regs[p]) = pc[p] - 1 /\ pc[p] = Len(regs[p]) + 1
      /\ Len(plain) \in Nat
      /\ Reached(p) = IF dealt[p] = <<>> THEN Len(regs[p]) ELSE Len(regs[p]) + 1
      /\ Len(regs[p]) <= Len(plain)
  BY RegsPlain DEF Types
<1>5. Instr(p).op \in ShareOps => Len(plain) > Len(regs[p])
  <2>1. Instr(p).op \in ShareOps => pc[p] <= Len(plain)
    BY <1>1, <1>3, SecretReached
  <2> QED
    BY <1>4, <2>1
<1>6. \/ plain' = plain /\ Len(plain) > Len(regs[p])
      \/ /\ Len(plain) = Len(regs[p]) /\ Instr(p).op \notin ShareOps
         /\ \E v \in WordSet \cup {Unknown} : plain' = Append(plain, v)
  <2>1. CASE Len(plain) > Len(regs[p])
    BY <1>2, <2>1
  <2>2. CASE ~(Len(plain) > Len(regs[p]))
    <3>1. Instr(p).op \notin ShareOps /\ Len(plain) = Len(regs[p])
      BY <1>4, <1>5, <2>2
    <3>2. PICK v \in WordSet \cup {Unknown} : values = <<v>>
      BY <1>3, <3>1
    <3>3. plain' = Append(plain, v)
      BY <1>2, <1>4, <2>2, <3>2
    <3> QED
      BY <3>1, <3>3
  <2> QED
    BY <2>1, <2>2
<1>7. Types'
  <2>1. regs' \in [Parties -> Seq(Registers)] /\ pc' \in [Parties -> Nat]
        /\ dealt' \in [Parties -> Deals \cup {<<>>}] /\ calls' \in [Parties -> Nat]
        /\ got' \in [Parties -> Seq(WordSet)]
    BY <1>2, <1>3 DEF Types
  <2>2. plain' \in Seq(WordSet \cup {Unknown})
    <3>1. plain \in Seq(WordSet \cup {Unknown})
      BY <1>4
    <3>2. \A v \in WordSet \cup {Unknown} : Append(plain, v) \in Seq(WordSet \cup {Unknown})
      BY <3>1
    <3> QED
      BY <1>6, <3>1, <3>2
  <2>3. DealsItself(program)'
    BY <1>1 DEF DealsItself, Types
  <2> QED
    BY <1>1, <2>1, <2>2, <2>3 DEF Types
<1>8. CountInv(p)'
  <2>1. pc'[p] \in 2 .. Len(program) + 1
    BY <1>1
  <2>2. ASSUME Active(p)'
        PROVE  calls'[p] <= Calls(pc[p], p)' /\ Len(got'[p]) = Gets(pc[p], p, Completed(p))'
    <3>1. PICK j : j = pc'[p]
      OBVIOUS
    <3>2. j \in 2 .. Len(program)
      <4>1. j <= Len(program)
        BY <1>1, <2>2, <3>1 DEF Active
      <4> QED
        BY <2>1, <3>1, <4>1
    <3>3. Calls(j, p) \in 0 .. 9 /\ Gets(j, p, 0) = 0
      BY <3>2, SchedulePart, GetsStep DEF Types
    <3>4. Calls(j, p)' = Calls(j, p) /\ Gets(j, p, 0)' = Gets(j, p, 0)
      BY <1>1, SameProgram
    <3>5. Calls(pc[p], p)' = Calls(j, p) /\ Gets(pc[p], p, Completed(p))' = 0
      BY <1>1, <3>1, <3>3, <3>4
    <3>6. 0 <= Calls(j, p) /\ Len(<<>>) = 0
      BY <3>3
    <3> QED
      BY <1>1, <3>5, <3>6
  <2>3. receiving'[p] = NoParty /\ calls'[p] = 0 /\ got'[p] = <<>> /\ dealt'[p] = <<>>
    BY <1>1
  <2>4. ~(calls'[p] >= 3)
    BY <2>3
  <2>5. pc'[p] \in 2 .. Len(program') + 1
    BY <1>1, <2>1
  <2> QED
    BY <2>2, <2>3, <2>4, <2>5 DEF CountInv
<1>9. RegsInv(p)'
  <2>1. Len(regs'[p]) = Len(regs[p]) + 1 /\ regs'[p][Len(regs[p]) + 1] = r
        /\ \A k \in 1 .. Len(regs[p]) : regs'[p][k] = regs[p][k]
    BY <1>1, <1>3, <1>4
  <2>2. Len(regs'[p]) = pc'[p] - 1
    BY <1>1, <1>4, <2>1
  <2>3. ASSUME NEW k \in 1 .. Len(regs'[p])
        PROVE  regs'[p][k].kind = ResultKind(program[k].op)
    <3>1. CASE k \in 1 .. Len(regs[p])
      BY <1>0, <2>1, <3>1 DEF RegsInv
    <3>2. CASE k = Len(regs[p]) + 1
      BY <1>3, <1>4, <2>1, <3>2 DEF Instr
    <3>3. k \in 1 .. Len(regs[p]) \/ k = Len(regs[p]) + 1
      BY <1>4, <2>1
    <3> QED
      BY <3>1, <3>2, <3>3
  <2> QED
    BY <1>1, <2>2, <2>3 DEF RegsInv
<1>10. Counts'
  <2>1. \A q \in Parties : q # p => CountInv(q)' /\ RegsInv(q)'
    BY <1>0, <1>1, Elsewhere
  <2> QED
    BY <1>8, <1>9, <2>1 DEF Counts
<1>11. PlainInv'
  <2>1. Reached(p)' = Len(regs[p]) + 1
    <3>1. Len(regs'[p]) = Len(regs[p]) + 1
      BY <1>1, <1>4
    <3>2. Reached(p)' = Len(regs'[p]) + 0
      BY <1>1 DEF Reached
    <3> QED
      BY <1>4, <3>1, <3>2
  <2>2. \A q \in Parties : q # p => Reached(q)' = Reached(q)
    BY <1>1, Elsewhere
  <2>3. \A q \in Parties : Reached(q) <= Len(plain) /\ Reached(q) \in Nat
    BY RegsPlain
  <2>4. CASE plain' = plain /\ Len(plain) > Len(regs[p])
    <3>1. PICK q \in Parties : Reached(q) = Len(plain)
      BY DEF PlainInv
    <3>2. Reached(p)' <= Len(plain)
      BY <1>4, <2>1, <2>4
    <3>3. Reached(q)' = Len(plain)
      <4>1. CASE q = p
        <5>1. Len(plain) = Len(regs[p]) + 1
          BY <1>4, <2>4, <3>1, <4>1
        <5> QED
          BY <2>1, <4>1, <5>1
      <4>2. CASE q # p
        BY <2>2, <3>1, <4>2
      <4> QED
        BY <4>1, <4>2
    <3>4. \A t \in Parties : Reached(t)' <= Len(plain)
      BY <2>2, <2>3, <3>2
    <3> QED
      BY <2>4, <3>3, <3>4 DEF PlainInv
  <2>5. CASE Len(plain) = Len(regs[p]) /\ \E v \in WordSet \cup {Unknown} : plain' = Append(plain, v)
    <3>1. Len(plain') = Len(plain) + 1
      BY <1>4, <2>5
    <3>2. Reached(p)' = Len(plain')
      BY <2>1, <2>5, <3>1
    <3>3. \A t \in Parties : Reached(t)' <= Len(plain')
      <4>1. \A t \in Parties : t # p => Reached(t)' <= Len(plain) + 1
        BY <1>4, <2>2, <2>3
      <4>2. Len(plain') <= Len(plain')
        BY <1>4, <3>1
      <4> QED
        BY <3>1, <3>2, <4>1, <4>2
    <3> QED
      BY <3>2, <3>3 DEF PlainInv
  <2> QED
    BY <1>6, <2>4, <2>5
<1> QED
  BY <1>7, <1>10, <1>11

\* What the mail is about does not change.
LEMMA SameMail ==
  ASSUME UNCHANGED <<program, net, got, pc, calls, receiving>>, NEW mail, MailInv(mail)
  PROVE  MailInv(mail)'
<1>1. \A p, q : Slots(p, q)' = Slots(p, q) /\ SendsAt(q)' = SendsAt(q)
  BY SameProgram
<1>2. \A q : Completed(q)' = Completed(q)
  BY DEF Completed
<1>3. \A q : SendPos(q)' = SendPos(q) /\ HearPos(q)' = HearPos(q)
  BY <1>2 DEF SendPos, HearPos
<1>4. ASSUME NEW p \in Parties, NEW q \in Parties
      PROVE  LinkInv(mail, p, q)'
  <2>1. LinkInv(mail, p, q)
    BY DEF MailInv
  <2>2. /\ Slots(p, q)' = Slots(p, q) /\ SendsAt(q)' = SendsAt(q)
        /\ HearPos(q)' = HearPos(q) /\ SendPos(p)' = SendPos(p)
    BY <1>1, <1>3
  <2> QED
    BY <2>1, <2>2 DEF LinkInv
<1>5. \A q \in Parties : GotInv(mail, q)'
  <2>1. \A q : Active(q)' <=> Active(q)
    BY DEF Active
  <2>2. ASSUME NEW q \in Parties
        PROVE  GotInv(mail, q)'
    <3>1. GotInv(mail, q)
      BY DEF MailInv
    <3>2. /\ \A j, n : From(j, q, n)' = From(j, q, n)
          /\ \A j, n : Gets(j, q, n)' = Gets(j, q, n)
      BY SameProgram
    <3> QED
      BY <1>2, <2>1, <3>1, <3>2 DEF GotInv
  <2> QED
    BY <2>2
<1> QED
  BY <1>4, <1>5 DEF MailInv

LEMMA SameCounts ==
  ASSUME Types, Counts, PlainInv, UNCHANGED <<program, got, pc, calls, receiving, dealt, regs, plain>>
  PROVE  Counts' /\ PlainInv'
<1>1. \A q : (Active(q)' <=> Active(q)) /\ Completed(q)' = Completed(q) /\ Instr(q)' = Instr(q)
             /\ Reached(q)' = Reached(q)
  BY DEF Active, Completed, Instr, Reached
<1>2. ASSUME NEW q \in Parties
      PROVE  CountInv(q)' /\ RegsInv(q)'
  <2>1. CountInv(q) /\ RegsInv(q)
    BY DEF Counts
  <2>2. CountInv(q)'
    BY <1>1, <2>1, SameProgram DEF CountInv
  <2>3. RegsInv(q)'
    BY <2>1 DEF RegsInv
  <2> QED
    BY <2>2, <2>3
<1>3. PlainInv'
  BY <1>1 DEF PlainInv
<1> QED
  BY <1>2, <1>3 DEF Counts

\* Party 0 deals a secret, and nobody is ahead of it.
DealStep(rows, data) ==
  /\ Active(0) /\ Instr(0).op \in ShareOps /\ calls[0] = 0 /\ dealt[0] = <<>>
  /\ rows \in Deals /\ data \in WordSet
  /\ dealt' = [dealt EXCEPT ![0] = rows]
  /\ plain' = Append(plain, data)
  /\ UNCHANGED <<netVars, program, pc, regs, accused, altered>>

LEMMA NobodyAhead ==
  ASSUME Types, Counts, PlainInv, NEW mail, MailInv(mail), Active(0), Instr(0).op \in ShareOps,
         calls[0] = 0, dealt[0] = <<>>
  PROVE  Len(plain) = pc[0] - 1 /\ \A q \in Parties : pc[q] <= pc[0]
<1>0. \A q \in Parties : CountInv(q)
  BY DEF Counts
<1>1. Parties = {0, 1, 2, 3} /\ NoParty = 4
  BY Around
<1>2. /\ program \in Programs /\ DealsItself(program) /\ pc[0] \in 2 .. Len(program) /\ pc[0] \in Nat
      /\ Len(program) \in Nat
  BY <1>0, <1>1, Ranges
<1>3. ASSUME NEW q \in Parties
      PROVE  pc[q] <= pc[0]
  <2>1. CASE q = 0
    BY <1>2, <2>1
  <2>2. CASE q # 0
    <3>1. SUFFICES ASSUME pc[0] < pc[q] PROVE FALSE
      BY <1>2, <1>0, Ranges
    <3>2. /\ program[pc[0]].op \in Operations
          /\ program[pc[0]].op \in ShareOps
      BY <1>2, Instructions DEF Instr
    <3>3. /\ program[pc[0]].op \notin MultiplyOps /\ program[pc[0]].op \notin OpenOps \cup {"b2a_bit"}
          /\ program[pc[0]].op \notin InpOps
      BY <3>2, Classes
    <3>4. From(pc[0], q, 0) = 0 /\ SentAs(pc[0], q, 0) = 3 * (q - 1) + 0
      BY <2>2, <3>2, <3>3 DEF From, SentAs
    <3>5. LinkInv(mail, 0, q) /\ 0 \in Parties /\ 0 \in 0 .. 4
      BY <1>1 DEF MailInv
    <3>6. 16 * pc[0] + SentAs(pc[0], q, 0) < SendPos(0)
      BY <1>0, <1>2, <3>1, <3>4, <3>5, HeardIsSent
    <3>7. SendPos(0) = 16 * pc[0] + 0
      BY DEF SendPos
    <3>8. PICK m : m = 3 * (q - 1) + 0
      OBVIOUS
    <3>9. m \in Nat
      BY <1>1, <2>2, <3>8
    <3>10. 16 * pc[0] + m < 16 * pc[0] + 0
      BY <3>4, <3>6, <3>7, <3>8
    <3>11. pc[0] \in Nat
      BY <1>2
    <3> QED
      BY ONLY <3>9, <3>10, <3>11
  <2> QED
    BY <2>1, <2>2
<1>4. PICK q \in Parties : Reached(q) = Len(plain)
  BY DEF PlainInv
<1>5. /\ Len(regs[q]) = pc[q] - 1 /\ pc[q] \in Nat /\ Len(plain) \in Nat
      /\ Reached(q) = IF dealt[q] = <<>> THEN Len(regs[q]) ELSE Len(regs[q]) + 1
  BY RegsPlain
<1>6. /\ Len(regs[0]) = pc[0] - 1 /\ Len(regs[0]) <= Len(plain)
  BY <1>1, RegsPlain
<1>7. dealt[q] = <<>>
  <2>1. CASE q = 0
    BY <2>1
  <2>2. CASE q # 0
    BY <1>0, <2>2 DEF CountInv
  <2> QED
    BY <2>1, <2>2
<1>8. Len(plain) = pc[q] - 1
  BY <1>4, <1>5, <1>7
<1>9. pc[q] <= pc[0] /\ pc[0] \in Nat /\ pc[0] - 1 <= Len(plain)
  BY <1>2, <1>3, <1>6
<1>10. Len(plain) = pc[0] - 1
  BY <1>5, <1>8, <1>9
<1> QED
  BY <1>3, <1>10

LEMMA DealKeepsCounts ==
  ASSUME Types, Counts, PlainInv, NEW mail, MailInv(mail), NEW rows, NEW data, DealStep(rows, data)
  PROVE  Types' /\ Counts' /\ PlainInv' /\ MailInv(mail)' /\ Len(plain) = pc[0] - 1
<1>0. \A q \in Parties : CountInv(q) /\ RegsInv(q)
  BY DEF Counts
<1>1. Len(plain) = pc[0] - 1
  BY NobodyAhead DEF DealStep
<1>2. /\ dealt' = [dealt EXCEPT ![0] = rows] /\ plain' = Append(plain, data)
      /\ net' = net /\ sending' = sending /\ receiving' = receiving /\ calls' = calls /\ got' = got
      /\ program' = program /\ pc' = pc /\ regs' = regs /\ accused' = accused /\ altered' = altered
      /\ rows \in Deals /\ data \in WordSet
  BY DEF DealStep, netVars
<1>3. 0 \in Parties
  BY Around
<1>4. rows # <<>>
  <2>1. DOMAIN rows = 1 .. 4
    BY <1>2 DEF Deals
  <2>2. 1 \in 1 .. 4 /\ 1 \notin DOMAIN <<>>
    OBVIOUS
  <2> QED
    BY <2>1, <2>2
<1>5. dealt'[0] = rows /\ \A q \in Parties : q # 0 => dealt'[q] = dealt[q]
  BY <1>2, <1>3 DEF Types
<1>6. Types'
  <2>1. dealt' \in [Parties -> Deals \cup {<<>>}]
    BY <1>2, <1>3 DEF Types
  <2>2. plain' \in Seq(WordSet \cup {Unknown})
    BY <1>2 DEF Types
  <2>3. DealsItself(program)'
    BY <1>2 DEF DealsItself, Types
  <2> QED
    BY <1>2, <2>1, <2>2, <2>3 DEF Types
<1>7. Counts'
  <2>1. \A q \in Parties : q # 0 => CountInv(q)' /\ RegsInv(q)'
    BY <1>0, <1>2, <1>3, <1>5, Elsewhere
  <2>2. CountInv(0)'
    <3>1. CountInv(0)
      BY <1>0, <1>3
    <3>2. (Active(0)' <=> Active(0)) /\ Active(0) /\ Completed(0)' = Completed(0) /\ Instr(0)' = Instr(0)
          /\ Instr(0).op \in ShareOps
      BY <1>2 DEF Active, Completed, Instr, DealStep
    <3>3. /\ \A j : Calls(j, 0)' = Calls(j, 0)
          /\ \A j, n : From(j, 0, n)' = From(j, 0, n) /\ Gets(j, 0, n)' = Gets(j, 0, n)
      BY <1>2, SameProgram
    <3>4. /\ pc'[0] = pc[0] /\ calls'[0] = calls[0] /\ got'[0] = got[0]
          /\ receiving'[0] = receiving[0] /\ dealt'[0] # <<>>
      BY <1>2, <1>4, <1>5
    <3>5. /\ Calls(pc[0], 0)' = Calls(pc[0], 0)
          /\ Gets(pc[0], 0, Completed(0))' = Gets(pc[0], 0, Completed(0))
          /\ From(pc[0], 0, calls[0] - 1)' = From(pc[0], 0, calls[0] - 1)
      BY <3>2, <3>3, <3>4
    <3> QED
      BY <1>2, <3>1, <3>2, <3>4, <3>5 DEF CountInv
  <2>3. RegsInv(0)'
    BY <1>0, <1>2, <1>3 DEF RegsInv
  <2> QED
    BY <2>1, <2>2, <2>3 DEF Counts
<1>8. PlainInv'
  <2>1. /\ Len(regs[0]) = pc[0] - 1 /\ pc[0] \in Nat /\ Len(plain) \in Nat
    BY <1>3, RegsPlain
  <2>2. Reached(0)' = Len(regs[0]) + 1
    BY <1>2, <1>4, <1>5 DEF Reached
  <2>3. Len(plain') = Len(plain) + 1
    BY <1>2 DEF Types
  <2>4. Reached(0)' = Len(plain')
    BY <1>1, <2>1, <2>2, <2>3
  <2>5. \A q \in Parties : q # 0 => Reached(q)' = Reached(q) /\ Reached(q) <= Len(plain) /\ Reached(q) \in Nat
    BY <1>2, <1>5, RegsPlain DEF Reached
  <2>6. \A q \in Parties : Reached(q)' <= Len(plain')
    BY <2>1, <2>3, <2>4, <2>5
  <2> QED
    BY <1>3, <2>4, <2>6 DEF PlainInv
<1>9. MailInv(mail)'
  BY <1>2, SameMail
<1> QED
  BY <1>1, <1>6, <1>7, <1>8, <1>9

LEMMA AlterKeepsMail ==
  ASSUME Types, Counts, PlainInv, NEW mail, MailInv(mail), NEW link \in Links, Alter(link)
  PROVE  /\ Types' /\ Counts' /\ PlainInv'
         /\ \E b \in Parties, s \in Nat, word \in WordSet :
              MailInv([mail EXCEPT ![b] = [mail[b] EXCEPT ![s] = word]])'
<1>0. \A q \in Parties : CountInv(q)
  BY DEF Counts
<1>1. PICK n \in DOMAIN net[link] : net' = [net EXCEPT ![link][n] = Wrap(@ + 1)]
  BY DEF Alter
<1>2. /\ sending' = sending /\ receiving' = receiving /\ calls' = calls /\ got' = got
      /\ program' = program /\ pc' = pc /\ regs' = regs /\ dealt' = dealt /\ plain' = plain
      /\ accused' = accused /\ altered' = altered + 1 /\ altered < MaxAltered
  BY DEF Alter
<1>3. PICK a \in Parties, b \in Parties : link = <<a, b>>
  BY DEF Links
<1>4. PICK word : word = Wrap(net[link][n] + 1)
  OBVIOUS
<1>5. net[link] \in Seq(WordSet) /\ net \in [Links -> Seq(WordSet)]
  BY DEF Types
<1>6. word \in WordSet
  <2>1. net[link][n] \in WordSet
    BY <1>5
  <2>2. net[link][n] \in Nat
    BY <2>1, Closure
  <2>3. net[link][n] + 1 \in Int
    BY <2>2
  <2> QED
    BY <1>4, <2>3, WordsAreClosed
<1>7. PICK others : others = [net[link] EXCEPT ![n] = word]
  OBVIOUS
<1>8. others \in Seq(WordSet)
  BY <1>5, <1>6, <1>7
<1>9. net' = [net EXCEPT ![link] = others]
  BY <1>1, <1>4, <1>5, <1>7
<1>10. Types'
  <2>1. net' \in [Links -> Seq(WordSet)]
    BY <1>5, <1>8, <1>9
  <2>2. altered' \in 0 .. MaxAltered
    BY <1>2, FourPartiesAssumption DEF Types
  <2>3. DealsItself(program)'
    BY <1>2 DEF DealsItself, Types
  <2> QED
    BY <1>2, <2>1, <2>2, <2>3 DEF Types
<1>11. Counts' /\ PlainInv'
  BY <1>2, SameCounts
<1>12. /\ mail \in [Parties -> [Nat -> WordSet]]
       /\ \A q \in Parties : GotInv(mail, q)
       /\ \A p, q \in Parties : LinkInv(mail, p, q)
  BY DEF MailInv
<1>13. PICK s \in Slots(a, b) :
         /\ HearPos(b) <= s
         /\ Carries(others, [mail[b] EXCEPT ![s] = word], Slots(a, b), SendsAt(b), HearPos(b), SendPos(a))
  <2>1. Line(Slots(a, b), SendsAt(b))
    BY SlotFacts DEF Types
  <2>2. Carries(net[link], mail[b], Slots(a, b), SendsAt(b), HearPos(b), SendPos(a))
    BY <1>3, <1>12 DEF LinkInv
  <2>3. mail[b] \in [Nat -> WordSet]
    BY <1>12
  <2>4. CarriesChanged(net[link], mail[b], Slots(a, b), SendsAt(b), HearPos(b), SendPos(a), n, word)
    <3>1. net[link] \in Seq(WordSet)
      BY <1>5
    <3> QED
      BY <1>6, <2>1, <2>2, <2>3, <3>1, CarriesAltered, Zenon
  <2> QED
    BY <1>7, <2>4 DEF CarriesChanged
<1>14. s \in Nat
  BY SlotFacts DEF Types, Line
<1>15. PICK mail2 : mail2 = [mail EXCEPT ![b] = [mail[b] EXCEPT ![s] = word]]
  OBVIOUS
<1>16. /\ mail2 \in [Parties -> [Nat -> WordSet]]
       /\ mail2[b] = [mail[b] EXCEPT ![s] = word]
       /\ \A q \in Parties : q # b => mail2[q] = mail[q]
       /\ \A t \in Nat : t # s => mail2[b][t] = mail[b][t]
  BY <1>6, <1>12, <1>14, <1>15
<1>17. \A q : Completed(q)' = Completed(q) /\ (Active(q)' <=> Active(q))
  BY <1>2 DEF Completed, Active
<1>18. \A q : SendPos(q)' = SendPos(q) /\ HearPos(q)' = HearPos(q)
  BY <1>2, <1>17 DEF SendPos, HearPos
<1>19. ASSUME NEW p \in Parties, NEW q \in Parties
       PROVE  LinkInv(mail2, p, q)'
  <2>1. /\ Slots(p, q)' = Slots(p, q) /\ SendsAt(q)' = SendsAt(q)
        /\ HearPos(q)' = HearPos(q) /\ SendPos(p)' = SendPos(p)
    BY <1>2, <1>18, SameProgram
  <2>2. <<p, q>> \in Links
    BY DEF Links
  <2>3. Carries(net[<<p, q>>], mail[q], Slots(p, q), SendsAt(q), HearPos(q), SendPos(p))
    BY <1>12 DEF LinkInv
  <2>4. Carries(net'[<<p, q>>], mail2[q], Slots(p, q), SendsAt(q), HearPos(q), SendPos(p))
    <3>1. CASE q # b
      <4>1. net'[<<p, q>>] = net[<<p, q>>]
        BY <1>3, <1>5, <1>9, <2>2, <3>1
      <4> QED
        BY <1>16, <2>3, <3>1, <4>1
    <3>2. CASE q = b /\ p = a
      <4>1. net'[<<p, q>>] = others
        BY <1>3, <1>5, <1>9, <2>2, <3>2
      <4> QED
        BY <1>13, <1>16, <3>2, <4>1
    <3>3. CASE q = b /\ p # a
      <4>1. net'[<<p, q>>] = net[<<p, q>>]
        BY <1>3, <1>5, <1>9, <2>2, <3>3
      <4>2. \A t \in Slots(p, q) : t # s /\ t \in Nat
        <5>1. \A t \in Slots(p, q) : t \in Nat
          BY SlotFacts DEF Types, Line
        <5>2. \A t \in Slots(p, q) : t # s
          BY <3>3, SlotsApart
        <5> QED
          BY <5>1, <5>2
      <4>3. \A t \in Slots(p, q) : mail2[q][t] = mail[q][t]
        BY <1>16, <3>3, <4>2
      <4> QED
        BY <2>3, <4>1, <4>3, CarriesOther
    <3> QED
      BY <3>1, <3>2, <3>3
  <2> QED
    BY <2>1, <2>4 DEF LinkInv
<1>20. ASSUME NEW q \in Parties
       PROVE  GotInv(mail2, q)'
  <2>1. (Active(q)' <=> Active(q)) /\ Completed(q)' = Completed(q)
    BY <1>17
  <2>2. /\ \A j, n2 : From(j, q, n2)' = From(j, q, n2)
        /\ \A j, n2 : Gets(j, q, n2)' = Gets(j, q, n2)
    BY <1>2, SameProgram
  <2>3. SUFFICES ASSUME Active(q), NEW c \in 0 .. 4, c < Completed(q), From(pc[q], q, c) # NoParty
                 PROVE  got[q][Gets(pc[q], q, c) + 1] = mail2[q][16 * pc[q] + c]
    BY <1>2, <2>1, <2>2 DEF GotInv
  <2>4. got[q][Gets(pc[q], q, c) + 1] = mail[q][16 * pc[q] + c]
    BY <1>12, <2>3 DEF GotInv
  <2>5. pc[q] \in Nat /\ Completed(q) \in 0 .. 9
    BY <1>0, Ranges
  <2>6. PICK j \in Nat, d \in 0 .. 9 : j = pc[q] /\ d = Completed(q)
    BY <2>5
  <2>7. 16 * j + c < 16 * j + d /\ 16 * j + c \in Nat /\ 16 * j + d \in Nat
    <3>1. c < d
      BY <2>3, <2>6
    <3> QED
      BY ONLY c \in 0 .. 4, j \in Nat, d \in 0 .. 9, <3>1
  <2>8. HearPos(q) = 16 * j + d
    BY <2>6 DEF HearPos
  <2>9. q = b => 16 * j + c # s
    <3>1. SUFFICES ASSUME q = b, 16 * j + c = s PROVE FALSE
      OBVIOUS
    <3>2. 16 * j + d <= 16 * j + c
      BY <1>13, <2>8, <3>1
    <3> QED
      BY <2>7, <3>2
  <2> QED
    BY <1>16, <2>4, <2>6, <2>7, <2>9
<1>21. MailInv(mail2)'
  BY <1>16, <1>19, <1>20 DEF MailInv
<1> QED
  BY <1>6, <1>10, <1>11, <1>14, <1>15, <1>21

-----------------------------------------------------------------------------
(* What the operations send and return are words.                          *)

\* The word party p sends next.
Message(p) ==
  LET op == Instr(p).op IN
  IF op \in MultiplyOps
  THEN (IF calls[p] = 0 THEN Cross(p, 1, 2) ELSE IF calls[p] = 1 THEN Cross(p, 2, 3)
        ELSE Cross(p, 1, 3))
  ELSE IF op \in OpenOps THEN X(p)[1]
  ELSE IF op = "b2a_bit" THEN LowBit(X(p)[1])
  ELSE IF op \in InpOps THEN InpShare(p)
  ELSE dealt[p][(calls[p] \div 3) + 2][(calls[p] % 3) + 1]

LEMMA Operand ==
  ASSUME Types, Counts, PlainInv, NEW p \in Parties, Active(p), Instr(p).op \notin ShareOps
  PROVE  /\ Instr(p).x \in 1 .. Len(regs[p]) /\ Instr(p).x \in 1 .. Len(plain)
         /\ regs[p][Instr(p).x].kind # "open"
         /\ program[Instr(p).x].op \notin OpenOps
         /\ X(p) \in Held3 /\ PlainX(p) \in WordSet \cup {Unknown}
         /\ Instr(p).op \in BinaryOps \cup MultiplyOps =>
              /\ Instr(p).y \in 1 .. Len(regs[p]) /\ Instr(p).y \in 1 .. Len(plain)
              /\ regs[p][Instr(p).y].kind # "open"
              /\ program[Instr(p).y].op \notin OpenOps
              /\ Y(p) \in Held3 /\ PlainY(p) \in WordSet \cup {Unknown}
<1>1. CountInv(p) /\ RegsInv(p)
  BY DEF Counts
<1>2. /\ program \in Programs /\ pc[p] \in 1 .. Len(program) /\ pc[p] \in Nat
  BY <1>1, Ranges
<1>3. /\ Len(regs[p]) \in Nat /\ Len(regs[p]) = pc[p] - 1 /\ Len(plain) \in Nat
      /\ Len(regs[p]) <= Len(plain)
  BY RegsPlain
<1>4. regs[p] \in Seq(Registers) /\ plain \in Seq(WordSet \cup {Unknown})
  BY DEF Types
<1>5. ASSUME NEW k \in 1 .. pc[p] - 1, program[k].op \notin OpenOps
      PROVE  /\ k \in 1 .. Len(regs[p]) /\ k \in 1 .. Len(plain)
             /\ regs[p][k].kind # "open" /\ regs[p][k].shares \in Held3
             /\ plain[k] \in WordSet \cup {Unknown}
  <2>1. k \in 1 .. Len(regs[p]) /\ k \in 1 .. Len(plain)
    BY <1>2, <1>3
  <2>2. regs[p][k] \in Registers /\ plain[k] \in WordSet \cup {Unknown}
    BY <1>4, <2>1
  <2>3. regs[p][k].kind = Kind(program[k].op)
    BY <1>1, <1>5, <2>1 DEF RegsInv, ResultKind
  <2>4. regs[p][k].kind # "open"
    BY <2>3 DEF Kind
  <2> QED
    BY <2>1, <2>2, <2>4 DEF Registers
<1>6. /\ Instr(p).x \in 1 .. pc[p] - 1 /\ program[Instr(p).x].op \notin OpenOps
      /\ Instr(p).op \in BinaryOps \cup MultiplyOps =>
           Instr(p).y \in 1 .. pc[p] - 1 /\ program[Instr(p).y].op \notin OpenOps
  BY <1>2, Instructions DEF Instr
<1> QED
  BY <1>5, <1>6 DEF X, Y, PlainX, PlainY

LEMMA CrossIsWord ==
  ASSUME NEW p \in Parties, X(p) \in Held3, Y(p) \in Held3
  PROVE  \A i, j \in Replication : Cross(p, i, j) \in WordSet
<1>1. \A i \in Replication : X(p)[i] \in WordSet /\ Y(p)[i] \in WordSet
  BY DEF Held3
<1> QED
  BY <1>1, Closure DEF Cross

LEMMA KnownIsWord ==
  ASSUME Types, Counts, PlainInv, NEW p \in Parties, Active(p), Instr(p).op \in InpOps
  PROVE  Known(p) \in WordSet /\ InpShare(p) \in WordSet
<1>1. CountInv(p)
  BY DEF Counts
<1>2. program \in Programs /\ pc[p] \in 1 .. Len(program)
  BY <1>1, Ranges
<1>3. /\ Instr(p).op \in Operations /\ Instr(p).c \in Divisor
      /\ Instr(p).vector \in {"sum", "quotient", "error"}
  BY <1>2, Instructions DEF Instr, InpOps
<1>4. Instr(p).op \notin ShareOps
  BY DEF InpOps, ShareOps
<1>5. X(p)[1] \in WordSet /\ X(p)[2] \in WordSet /\ X(p)[3] \in WordSet
  BY <1>4, Operand DEF Held3, Replication
<1> DEFINE word == IF p \in {0, 2} THEN Wrap(X(p)[1] + X(p)[2]) ELSE Wrap(X(p)[2] + X(p)[3])
           sum == Signed(word)
           parts == DivisionParts(4, sum, sum, Instr(p).c)
           part == IF p \in {0, 3} THEN parts[1] ELSE parts[2]
<1>6. word \in WordSet
  <2>1. X(p)[1] \in Nat /\ X(p)[2] \in Nat /\ X(p)[3] \in Nat
    BY <1>5, Closure, Zenon
  <2>2. X(p)[1] + X(p)[2] \in Int /\ X(p)[2] + X(p)[3] \in Int
    BY ONLY <2>1
  <2> QED
    BY <2>2, WordsAreClosed
<1>7. sum \in Range /\ sum \in Int
  BY <1>6, SignedWord, HalfPower DEF Range
<1>8. \A k \in {1, 2} : parts[k].quotient \in Int /\ parts[k].error \in Int
  BY <1>3, <1>7, PartsAreNumbers
<1>9. part.quotient \in Int /\ part.error \in Int
  BY <1>8
<1>10. Wrap(sum) \in WordSet /\ Wrap(part.quotient) \in WordSet /\ Wrap(part.error) \in WordSet
  BY <1>7, <1>9, WordsAreClosed
<1>11. Known(p) = CASE Instr(p).vector = "sum"      -> Wrap(sum)
                    [] Instr(p).vector = "quotient" -> Wrap(part.quotient)
                    [] Instr(p).vector = "error"    -> Wrap(part.error)
  BY DEF Known
<1> HIDE DEF word, sum, parts, part
<1>12. Known(p) \in WordSet
  BY <1>3, <1>10, <1>11
<1> QED
  BY <1>12, Closure DEF InpShare, ZeroShare

LEMMA MessageIsWord ==
  ASSUME Types, Counts, PlainInv, NEW p \in Parties, MayCall(p), NextTo(p) # NoParty
  PROVE  Message(p) \in WordSet
<1>1. Active(p) /\ CountInv(p)
  BY DEF MayCall, Counts
<1>2. program \in Programs /\ pc[p] \in 1 .. Len(program) /\ calls[p] \in 0 .. 9
  BY <1>1, Ranges
<1>3. Instr(p).op \in Operations
  BY <1>2, Instructions DEF Instr
<1>4. Instr(p).op \in MultiplyOps => Message(p) \in WordSet
  <2>1. Instr(p).op \in MultiplyOps => X(p) \in Held3 /\ Y(p) \in Held3
    BY <1>1, Operand DEF MultiplyOps, ShareOps
  <2> QED
    BY <2>1, CrossIsWord DEF Message, Replication
<1>5. Instr(p).op \in OpenOps \cup {"b2a_bit"} => Message(p) \in WordSet
  <2>1. Instr(p).op \in OpenOps \cup {"b2a_bit"} => X(p) \in Held3
    BY <1>1, Operand DEF OpenOps, ShareOps
  <2>2. Instr(p).op \in OpenOps \cup {"b2a_bit"} => X(p)[1] \in WordSet
    BY <2>1 DEF Held3, Replication
  <2> QED
    BY <2>2, Closure DEF Message, OpenOps, MultiplyOps
<1>6. Instr(p).op \in InpOps => Message(p) \in WordSet
  BY <1>1, KnownIsWord DEF Message, OpenOps, MultiplyOps, InpOps
<1>7. ASSUME Instr(p).op \in ShareOps
      PROVE  Message(p) \in WordSet
  <2>1. p = 0 /\ calls[p] < 9
    BY <1>2, <1>7, Around DEF NextTo, To, Instr, OpenOps, MultiplyOps, InpOps, ShareOps
  <2>2. dealt[p] \in Deals
    BY <1>7, <2>1 DEF MayCall, Types
  <2>3. (calls[p] \div 3) + 2 \in 1 .. 4 /\ (calls[p] % 3) + 1 \in Replication
    BY <1>2, <2>1 DEF Replication
  <2>4. dealt[p][(calls[p] \div 3) + 2][(calls[p] % 3) + 1] \in WordSet
    BY <2>2, <2>3 DEF Deals, Held3
  <2> QED
    BY <1>7, <2>4 DEF Message, OpenOps, MultiplyOps, InpOps, ShareOps
<1>8. \/ Instr(p).op \in MultiplyOps \/ Instr(p).op \in OpenOps \cup {"b2a_bit"}
      \/ Instr(p).op \in InpOps \/ Instr(p).op \in ShareOps \/ Instr(p).op \in LocalOps
  BY <1>3, Classes
<1>9. Instr(p).op \notin LocalOps
  BY <1>3, Classes DEF NextTo, To, Instr
<1> QED
  BY <1>4, <1>5, <1>6, <1>7, <1>8, <1>9

-----------------------------------------------------------------------------
(* The operations are made of such steps.                                  *)

LEMMA SendCall ==
  ASSUME Types, NEW p \in Parties, Returned(p), NEW m, NEW a,
         sendShares(p, m, a), InProtocolCall,
         NextTo(p) = Relative(p, a), NextTo(p) # NoParty, NextFrom(p) = NoParty
  PROVE  CallStep(p, m)
<1>1. receiving' = [receiving EXCEPT ![p] = NextFrom(p)]
  BY DEF Returned, sendShares, Types
<1> QED
  BY <1>1 DEF CallStep, sendShares, Post, CountCall, InProtocolCall, InCall

LEMMA ReceiveCall ==
  ASSUME Types, NEW p \in Parties, Returned(p), NEW m, NEW b,
         receiveShares(p, b), InProtocolCall,
         NextTo(p) = NoParty, NextFrom(p) = Relative(p, b)
  PROVE  CallStep(p, m)
<1>1. sending' = [sending EXCEPT ![p] = NextTo(p)]
  BY DEF Returned, receiveShares, Types
<1> QED
  BY <1>1 DEF CallStep, receiveShares, CountCall, InProtocolCall, InCall

LEMMA ExchangeCall ==
  ASSUME NEW p \in Parties, NEW m, NEW a, NEW b,
         exchangeShares(p, m, a, b), InProtocolCall,
         NextTo(p) = Relative(p, a), NextTo(p) # NoParty, NextFrom(p) = Relative(p, b)
  PROVE  CallStep(p, m)
BY DEF CallStep, exchangeShares, Post, CountCall, InProtocolCall, InCall

Calling(p) == MayCall(p) /\ CallStep(p, Message(p))

LEMMA RunningFacts ==
  ASSUME Types, Counts, NEW p \in Parties, NEW ops, NEW n, Running(p, ops, n)
  PROVE  /\ Active(p) /\ Returned(p) /\ Instr(p).op \in ops /\ calls[p] = n
         /\ program[pc[p]].op \in ops /\ CountInv(p) /\ receiving[p] = NoParty
BY DEF Running, At, Active, Counts, Instr, Returned

LEMMA MultiplyCall ==
  ASSUME Types, Counts, NEW p \in Parties,
         NeighbourExchange(p) \/ OppositeSend(p) \/ OppositeReceive(p)
  PROVE  Calling(p)
<1>1. ASSUME NEW n \in 0 .. 4, Running(p, MultiplyOps, n)
      PROVE  /\ Active(p) /\ Returned(p) /\ Instr(p).op \in MultiplyOps /\ calls[p] = n
             /\ Calls(pc[p], p) = (IF p \in {2, 3} THEN 5 ELSE 3)
             /\ n < 3 \/ p \in {2, 3} => n < Calls(pc[p], p)
             /\ (n < 3 \/ p \in {2, 3}) /\ (n = 2 => got[p][1] = got[p][2]) => MayCall(p)
             /\ NextTo(p) = (IF n = 0 THEN Relative(p, 2) ELSE IF n = 1 THEN Relative(p, 3)
                             ELSE IF n = 2 THEN Opposite(p) ELSE NoParty)
             /\ NextFrom(p) = (IF n = 0 THEN Relative(p, 2) ELSE IF n = 1 THEN Relative(p, 1)
                               ELSE IF p \in {2, 3} /\ n = 3 THEN Relative(p, 1)
                               ELSE IF p \in {2, 3} /\ n = 4 THEN Relative(p, 3) ELSE NoParty)
  <2>1. /\ Active(p) /\ Returned(p) /\ Instr(p).op \in MultiplyOps /\ calls[p] = n
        /\ program[pc[p]].op \in MultiplyOps
    BY <1>1, RunningFacts
  <2>2. Calls(pc[p], p) = IF p \in {2, 3} THEN 5 ELSE 3
    BY <2>1 DEF Calls
  <2>3. n < 3 \/ p \in {2, 3} => n < Calls(pc[p], p)
    BY <2>2
  <2>4. Instr(p).op \notin ShareOps
    BY <2>1 DEF ShareOps, MultiplyOps
  <2>5. (n < 3 \/ p \in {2, 3}) /\ (n = 2 => got[p][1] = got[p][2]) => MayCall(p)
    BY <2>1, <2>3, <2>4 DEF MayCall
  <2>6. NextTo(p) = IF n = 0 THEN Relative(p, 2) ELSE IF n = 1 THEN Relative(p, 3)
                    ELSE IF n = 2 THEN Opposite(p) ELSE NoParty
    BY <2>1 DEF NextTo, To
  <2>7. NextFrom(p) = IF n = 0 THEN Relative(p, 2) ELSE IF n = 1 THEN Relative(p, 1)
                      ELSE IF p \in {2, 3} /\ n = 3 THEN Relative(p, 1)
                      ELSE IF p \in {2, 3} /\ n = 4 THEN Relative(p, 3) ELSE NoParty
    BY <2>1 DEF NextFrom, From
  <2> QED
    BY <2>1, <2>2, <2>3, <2>5, <2>6, <2>7
<1>2. /\ \A d \in 1 .. 3 : Relative(p, d) # NoParty
      /\ Opposite(p) = Relative(p, IF p \in {0, 3} THEN 3 ELSE 1) /\ Opposite(p) # NoParty
  BY Around DEF Opposite
<1>3. ASSUME Running(p, MultiplyOps, 0), exchangeShares(p, Cross(p, 1, 2), 2, 2), InProtocolCall
      PROVE  Calling(p)
  <2>1. /\ Active(p) /\ Returned(p) /\ Instr(p).op \in MultiplyOps /\ calls[p] = 0 /\ MayCall(p)
        /\ NextTo(p) = Relative(p, 2) /\ NextFrom(p) = Relative(p, 2)
    BY <1>1, <1>3
  <2>2. Message(p) = Cross(p, 1, 2)
    BY <2>1 DEF Message
  <2>3. NextTo(p) # NoParty
    BY <1>2, <2>1
  <2>4. CallStep(p, Message(p))
    BY <1>3, <2>1, <2>2, <2>3, ExchangeCall
  <2> QED
    BY <2>1, <2>4 DEF Calling
<1>4. ASSUME Running(p, MultiplyOps, 1), exchangeShares(p, Cross(p, 2, 3), 3, 1), InProtocolCall
      PROVE  Calling(p)
  <2>1. /\ Active(p) /\ Returned(p) /\ Instr(p).op \in MultiplyOps /\ calls[p] = 1 /\ MayCall(p)
        /\ NextTo(p) = Relative(p, 3) /\ NextFrom(p) = Relative(p, 1)
    BY <1>1, <1>4
  <2>2. Message(p) = Cross(p, 2, 3)
    BY <2>1 DEF Message
  <2>3. NextTo(p) # NoParty
    BY <1>2, <2>1
  <2>4. CallStep(p, Message(p))
    BY <1>4, <2>1, <2>2, <2>3, ExchangeCall
  <2> QED
    BY <2>1, <2>4 DEF Calling
<1>5. ASSUME OppositeSend(p)
      PROVE  Calling(p)
  <2>1. /\ Running(p, MultiplyOps, 2) /\ InProtocolCall /\ got[p][1] = got[p][2]
        /\ sendShares(p, Cross(p, 1, 3), IF p \in {0, 3} THEN 3 ELSE 1)
    BY <1>5 DEF OppositeSend, NeighboursAgree, Agree
  <2>2. /\ Active(p) /\ Returned(p) /\ Instr(p).op \in MultiplyOps /\ calls[p] = 2 /\ MayCall(p)
        /\ NextTo(p) = Opposite(p) /\ NextFrom(p) = NoParty
    BY <1>1, <2>1
  <2>3. Message(p) = Cross(p, 1, 3)
    BY <2>2 DEF Message
  <2>4. CallStep(p, Message(p))
    BY <1>2, <2>1, <2>2, <2>3, SendCall
  <2> QED
    BY <2>2, <2>4 DEF Calling
<1>6. ASSUME OppositeReceive(p)
      PROVE  Calling(p)
  <2>1. InProtocolCall /\ p \in {2, 3}
    BY <1>6 DEF OppositeReceive
  <2>2. ASSUME Running(p, MultiplyOps, 3), receiveShares(p, 1)
        PROVE  Calling(p)
    <3>1. /\ Active(p) /\ Returned(p) /\ MayCall(p)
          /\ NextTo(p) = NoParty /\ NextFrom(p) = Relative(p, 1)
      BY <1>1, <2>1, <2>2
    <3>2. CallStep(p, Message(p))
      BY <2>1, <2>2, <3>1, ReceiveCall
    <3> QED
      BY <3>1, <3>2 DEF Calling
  <2>3. ASSUME Running(p, MultiplyOps, 4), receiveShares(p, 3)
        PROVE  Calling(p)
    <3>1. /\ Active(p) /\ Returned(p) /\ MayCall(p)
          /\ NextTo(p) = NoParty /\ NextFrom(p) = Relative(p, 3)
      BY <1>1, <2>1, <2>3
    <3>2. CallStep(p, Message(p))
      BY <2>1, <2>3, <3>1, ReceiveCall
    <3> QED
      BY <3>1, <3>2 DEF Calling
  <2> QED
    BY <1>6, <2>2, <2>3 DEF OppositeReceive
<1> QED
  BY <1>3, <1>4, <1>5, <1>6 DEF NeighbourExchange

LEMMA OpenCall ==
  ASSUME Types, Counts, NEW p \in Parties, OpenSend(p) \/ B2ASend(p)
  PROVE  Calling(p)
<1>1. PICK ops \in {OpenOps, {"b2a_bit"}} : Running(p, ops, 0)
  BY DEF OpenSend, B2ASend
<1>2. /\ Active(p) /\ Returned(p) /\ calls[p] = 0 /\ Instr(p).op \in OpenOps \cup {"b2a_bit"}
      /\ program[pc[p]].op \in OpenOps \cup {"b2a_bit"}
  BY <1>1, RunningFacts
<1>3. program[pc[p]].op \notin MultiplyOps
  BY <1>2 DEF OpenOps, MultiplyOps
<1>4. /\ Calls(pc[p], p) = 1 /\ NextTo(p) = Relative(p, 1) /\ NextFrom(p) = Relative(p, 3)
  BY <1>2, <1>3 DEF Calls, NextTo, NextFrom, To, From
<1>5. MayCall(p)
  BY <1>2, <1>4 DEF MayCall, OpenOps, ShareOps
<1>6. Relative(p, 1) # NoParty
  BY Around
<1>7. ASSUME OpenSend(p)
      PROVE  CallStep(p, Message(p))
  <2>1. Instr(p).op \in OpenOps /\ exchangeShares(p, X(p)[1], 1, 3) /\ InProtocolCall
    BY <1>7, RunningFacts DEF OpenSend
  <2>2. Message(p) = X(p)[1]
    BY <2>1 DEF Message, OpenOps, MultiplyOps
  <2> QED
    BY <1>4, <1>6, <2>1, <2>2, ExchangeCall
<1>8. ASSUME B2ASend(p)
      PROVE  CallStep(p, Message(p))
  <2>1. Instr(p).op = "b2a_bit" /\ exchangeShares(p, LowBit(X(p)[1]), 1, 3) /\ InProtocolCall
    BY <1>8, RunningFacts DEF B2ASend
  <2>2. Message(p) = LowBit(X(p)[1])
    BY <2>1 DEF Message, OpenOps, MultiplyOps
  <2> QED
    BY <1>4, <1>6, <2>1, <2>2, ExchangeCall
<1> QED
  BY <1>5, <1>7, <1>8 DEF Calling

LEMMA InpCall ==
  ASSUME Types, Counts, NEW p \in Parties, InpSend(p) \/ InpReceive(p)
  PROVE  Calling(p)
<1> DEFINE r == program[pc[p]].roles
<1>1. PICK n \in {0, 1} : Running(p, InpOps, n)
  BY DEF InpSend, InpReceive, InpAt
<1>2. /\ Active(p) /\ Returned(p) /\ calls[p] = n /\ program[pc[p]].op \in InpOps
      /\ Instr(p).roles = r /\ CountInv(p) /\ Instr(p).op \in InpOps
  BY <1>1, RunningFacts DEF Instr
<1>3. program[pc[p]].op \notin MultiplyOps /\ program[pc[p]].op \notin OpenOps \cup {"b2a_bit"}
      /\ program[pc[p]].op \notin ShareOps
  BY <1>2 DEF OpenOps, MultiplyOps, InpOps, ShareOps
<1>4. IsRoles(r)
  <2>1. pc[p] \in 1 .. Len(program) /\ program \in Programs
    BY <1>2, Ranges
  <2> QED
    BY <1>2, <2>1, Instructions
<1>5. /\ Calls(pc[p], p) = (IF p = r.g THEN 2 ELSE IF p = r.h THEN 0 ELSE 1)
      /\ NextTo(p) = (IF n = 0 /\ p \in {r.i, r.j} THEN r.g ELSE NoParty)
      /\ NextFrom(p) = (IF p = r.g THEN (IF n = 0 THEN r.i ELSE r.j) ELSE NoParty)
  BY <1>2, <1>3 DEF Calls, NextTo, NextFrom, To, From, ShareOps, InpOps, MultiplyOps, OpenOps
<1>6. ASSUME n < Calls(pc[p], p)
      PROVE  MayCall(p)
  BY <1>2, <1>3, <1>6 DEF MayCall, Instr
<1>7. Message(p) = InpShare(p)
  BY <1>2, <1>3 DEF Message, Instr
<1>8. ASSUME InpSend(p)
      PROVE  MayCall(p) /\ CallStep(p, Message(p))
  <2>1. PICK a : /\ sendShares(p, InpShare(p), a) /\ n = 0 /\ InProtocolCall
                 /\ (r.i = p /\ a = 1) \/ (r.j = p /\ a = 2)
    BY <1>2, <1>8, RunningFacts DEF InpSend, InpAt
  <2>2. /\ NextTo(p) = Relative(p, a) /\ NextTo(p) # NoParty /\ NextFrom(p) = NoParty
        /\ Calls(pc[p], p) = 1
    BY <1>4, <1>5, <2>1, Around DEF IsRoles
  <2>3. MayCall(p)
    BY <1>6, <2>1, <2>2
  <2> QED
    BY <1>2, <1>7, <2>1, <2>2, <2>3, SendCall
<1>9. ASSUME InpReceive(p)
      PROVE  MayCall(p) /\ CallStep(p, Message(p))
  <2>1. PICK b : /\ receiveShares(p, b) /\ r.g = p /\ InProtocolCall
                 /\ (n = 0 /\ b = 3) \/ (n = 1 /\ b = 2)
    BY <1>2, <1>9, RunningFacts DEF InpReceive, InpAt
  <2>2. /\ NextTo(p) = NoParty /\ NextFrom(p) = Relative(p, b) /\ Calls(pc[p], p) = 2
    BY <1>4, <1>5, <2>1, Around DEF IsRoles
  <2>3. MayCall(p)
    BY <1>6, <2>2
  <2> QED
    BY <1>2, <2>1, <2>2, <2>3, ReceiveCall
<1> QED
  BY <1>8, <1>9 DEF Calling

LEMMA ShareCall ==
  ASSUME Types, Counts, NEW p \in Parties, DealSend(p) \/ ReceiveShares(p)
  PROVE  Calling(p)
<1>1. PICK n \in Nat : Running(p, ShareOps, n) /\ n < 9 /\ (DealSend(p) \/ n < 3)
  BY DEF DealSend, ReceiveShares, Replication
<1>2. /\ Active(p) /\ Returned(p) /\ calls[p] = n /\ program[pc[p]].op \in ShareOps
      /\ Instr(p).op \in ShareOps /\ CountInv(p)
  BY <1>1, RunningFacts
<1>3. /\ program[pc[p]].op \notin MultiplyOps /\ program[pc[p]].op \notin OpenOps \cup {"b2a_bit"}
      /\ program[pc[p]].op \notin InpOps
  BY <1>2 DEF OpenOps, MultiplyOps, InpOps, ShareOps
<1>4. Instr(p).party = 0
  <2>1. pc[p] \in 2 .. Len(program) /\ DealsItself(program)
    BY <1>2, Ranges
  <2> QED
    BY <1>2, <2>1 DEF DealsItself, Instr
<1>5. /\ Calls(pc[p], p) = (IF p = 0 THEN 9 ELSE 3)
      /\ NextTo(p) = (IF p = 0 THEN (IF n < 3 THEN 1 ELSE IF n < 6 THEN 2 ELSE 3) ELSE NoParty)
      /\ NextFrom(p) = (IF p # 0 /\ n \in 0 .. 2 THEN 0 ELSE NoParty)
  BY <1>1, <1>2, <1>3 DEF Calls, NextTo, NextFrom, To, From
<1>6. ASSUME p = 0, DealSend(p)
      PROVE  MayCall(p) /\ CallStep(p, Message(p))
  <2>1. PICK k \in 1 .. 3, m \in Replication :
          /\ dealt[p] # <<>> /\ InProtocolCall /\ Running(p, ShareOps, 3 * (k - 1) + m - 1)
          /\ sendShares(p, dealt[p][k + 1][m], Recipient(p, k))
    BY <1>6 DEF DealSend
  <2>2. n = 3 * (k - 1) + m - 1 /\ n \in Nat /\ k \in 1 .. 3 /\ m \in 1 .. 3
    BY <1>2, <2>1, RunningFacts DEF Replication
  <2>3. (n \div 3) + 2 = k + 1 /\ (n % 3) + 1 = m
    BY ONLY <2>2
  <2>4. Message(p) = dealt[p][k + 1][m]
    BY <1>2, <1>3, <2>3 DEF Message, Instr
  <2>5. Relative(p, Recipient(p, k)) = NextTo(p) /\ NextTo(p) # NoParty /\ NextFrom(p) = NoParty
    <3>1. NextTo(p) = k /\ k # NoParty
      BY <1>5, <1>6, <2>2, Around
    <3>2. Relative(0, k) = k
      BY Around
    <3>3. Recipient(p, k) = k
      BY <1>6, <2>2 DEF Recipient
    <3> QED
      BY <1>5, <1>6, <3>1, <3>2, <3>3
  <2>6. MayCall(p)
    BY <1>1, <1>2, <1>3, <1>5, <1>6, <2>1 DEF MayCall, Instr
  <2> QED
    BY <1>2, <2>1, <2>4, <2>5, <2>6, SendCall
<1>7. DealSend(p) => p = 0
  <2>1. CountInv(p)
    BY <1>2
  <2> QED
    BY <1>2, <2>1 DEF CountInv, DealSend
<1>8. ASSUME ReceiveShares(p)
      PROVE  MayCall(p) /\ CallStep(p, Message(p))
  <2>1. p # 0 /\ receiveShares(p, 0 - p) /\ InProtocolCall /\ n \in 0 .. 2
    <3>1. ~Dealer(p) /\ receiveShares(p, Instr(p).party - p) /\ InProtocolCall
      BY <1>8 DEF ReceiveShares
    <3>2. PICK m \in 0 .. 2 : Running(p, ShareOps, m)
      BY <1>8 DEF ReceiveShares
    <3>3. n = m
      BY <1>2, <3>2, RunningFacts
    <3> QED
      BY <1>4, <3>1, <3>2, <3>3 DEF Dealer
  <2>2. Relative(p, 0 - p) = 0
    BY Around
  <2>3. NextTo(p) = NoParty /\ NextFrom(p) = Relative(p, 0 - p) /\ Calls(pc[p], p) = 3
    BY <1>5, <2>1, <2>2
  <2>4. MayCall(p)
    BY <1>1, <1>2, <1>3, <2>1, <2>3 DEF MayCall, Instr
  <2> QED
    BY <1>2, <2>1, <2>3, <2>4, ReceiveCall
<1> QED
  BY <1>6, <1>7, <1>8 DEF Calling

InpShares(p) ==
  LET r == Instr(p).roles IN
  IF p = r.i THEN <<ZeroShare, InpShare(p), 0>>
  ELSE IF p = r.j THEN <<0, ZeroShare, InpShare(p)>>
  ELSE IF p = r.g THEN <<got[p][1], 0, 0>> ELSE <<0, 0, ZeroShare>>

MaskedBit(p) == [n \in Replication |-> LowBit(X(p)[n])]

\* What the operation party p is at returns, and its plaintext.
Outcome(p) ==
  LET op == Instr(p).op IN
  IF op \in LocalOps THEN Result(Kind(op), LocalResult(p))
  ELSE IF op \in MultiplyOps THEN Result(Kind(op), ProductShares(p))
  ELSE IF op \in OpenOps THEN Result("open", <<Opened(Kind(op), X(p), got[p][1])>>)
  ELSE IF op = "b2a_bit" THEN Result("a", BitShares(p, Opened("b", MaskedBit(p), got[p][1])))
  ELSE IF op \in InpOps THEN Result(Kind(op), InpShares(p))
  ELSE Result(Kind(op), IF p = 0 THEN dealt[p][1] ELSE got[p])

PlainValue(p) ==
  LET op == Instr(p).op IN
  IF op \in LocalOps THEN LocalPlain(p)
  ELSE IF op \in MultiplyOps THEN ProductPlain(p)
  ELSE IF op \in OpenOps THEN PlainX(p)
  ELSE IF op = "b2a_bit" THEN (IF PlainX(p) = Unknown THEN Unknown ELSE LowBit(PlainX(p)))
  ELSE Unknown

PlainValues(p) == IF Instr(p).op \in ShareOps THEN <<>> ELSE <<PlainValue(p)>>

\* Party p has made all calls of its operation and found its copies equal.
Complete(p) ==
  /\ Active(p) /\ Returned(p) /\ calls[p] = Calls(pc[p], p)
  /\ Instr(p).op \in ShareOps /\ p = 0 => dealt[p] # <<>>
  /\ Instr(p).op \in MultiplyOps /\ p \in {2, 3} => got[p][3] = got[p][4]
  /\ Instr(p).op \in InpOps /\ p = Instr(p).roles.g => got[p][1] = got[p][2]

Returning(p) == Complete(p) /\ Finish(p, <<Outcome(p)>>, PlainValues(p))

LEMMA LocalReturns ==
  ASSUME Types, Counts, NEW p \in Parties, Local(p)
  PROVE  Returning(p)
<1>1. /\ Active(p) /\ Returned(p) /\ Instr(p).op \in LocalOps /\ calls[p] = 0
      /\ program[pc[p]].op \in LocalOps
  BY RunningFacts DEF Local
<1>2. /\ Instr(p).op \notin MultiplyOps /\ Instr(p).op \notin OpenOps \cup {"b2a_bit"}
      /\ Instr(p).op \notin InpOps /\ Instr(p).op \notin ShareOps
  BY <1>1 DEF LocalOps, UnaryOps, BinaryOps, MultiplyOps, OpenOps, InpOps, ShareOps
<1>3. Calls(pc[p], p) = 0
  BY <1>2 DEF Calls, Instr
<1>4. Complete(p)
  BY <1>1, <1>2, <1>3 DEF Complete
<1>5. /\ Outcome(p) = Result(Kind(Instr(p).op), LocalResult(p))
      /\ PlainValues(p) = <<LocalPlain(p)>>
  BY <1>1, <1>2 DEF Outcome, PlainValues, PlainValue
<1>6. Finish(p, <<Result(Kind(Instr(p).op), LocalResult(p))>>, <<LocalPlain(p)>>)
  BY DEF Local
<1> QED
  BY <1>4, <1>5, <1>6, Zenon DEF Returning

LEMMA MultiplyReturns ==
  ASSUME Types, Counts, NEW p \in Parties, MultiplyReturn(p)
  PROVE  Returning(p)
<1>1. /\ Active(p) /\ Returned(p) /\ Instr(p).op \in MultiplyOps /\ calls[p] = MultiplyCalls(p)
      /\ program[pc[p]].op \in MultiplyOps
  BY RunningFacts DEF MultiplyReturn
<1>2. /\ Instr(p).op \notin LocalOps /\ Instr(p).op \notin OpenOps \cup {"b2a_bit"}
      /\ Instr(p).op \notin InpOps /\ Instr(p).op \notin ShareOps
  BY <1>1 DEF LocalOps, UnaryOps, BinaryOps, MultiplyOps, OpenOps, InpOps, ShareOps
<1>3. Calls(pc[p], p) = MultiplyCalls(p)
  BY <1>1 DEF Calls, MultiplyCalls
<1>4. p \in {2, 3} => got[p][3] = got[p][4]
  BY DEF MultiplyReturn, OppositesAgree, Agree
<1>5. Complete(p)
  BY <1>1, <1>2, <1>3, <1>4 DEF Complete
<1>6. /\ Outcome(p) = Result(Kind(Instr(p).op), ProductShares(p))
      /\ PlainValues(p) = <<ProductPlain(p)>>
  BY <1>1, <1>2 DEF Outcome, PlainValues, PlainValue
<1>7. Finish(p, <<Result(Kind(Instr(p).op), ProductShares(p))>>, <<ProductPlain(p)>>)
  BY DEF MultiplyReturn
<1> QED
  BY <1>5, <1>6, <1>7, Zenon DEF Returning

LEMMA OpenReturns ==
  ASSUME Types, Counts, NEW p \in Parties, OpenReturn(p) \/ B2AReturn(p)
  PROVE  Returning(p)
<1>1. PICK ops \in {OpenOps, {"b2a_bit"}} : Running(p, ops, 1)
  BY DEF OpenReturn, B2AReturn
<1>2. /\ Active(p) /\ Returned(p) /\ Instr(p).op \in OpenOps \cup {"b2a_bit"} /\ calls[p] = 1
      /\ program[pc[p]].op \in OpenOps \cup {"b2a_bit"}
  BY <1>1, RunningFacts
<1>3. /\ Instr(p).op \notin LocalOps /\ Instr(p).op \notin MultiplyOps
      /\ Instr(p).op \notin InpOps /\ Instr(p).op \notin ShareOps
  BY <1>2 DEF LocalOps, UnaryOps, BinaryOps, MultiplyOps, OpenOps, InpOps, ShareOps
<1>4. Calls(pc[p], p) = 1
  BY <1>2, <1>3 DEF Calls, Instr
<1>5. Complete(p)
  BY <1>2, <1>3, <1>4 DEF Complete
<1>6. ASSUME OpenReturn(p)
      PROVE  Returning(p)
  <2>1. Instr(p).op \in OpenOps
    BY <1>6, RunningFacts DEF OpenReturn
  <2>2. /\ Outcome(p) = Result("open", <<Opened(Kind(Instr(p).op), X(p), got[p][1])>>)
        /\ PlainValues(p) = <<PlainX(p)>>
    BY <1>3, <2>1 DEF Outcome, PlainValues, PlainValue
  <2>3. Finish(p, <<Result("open", <<Opened(Kind(Instr(p).op), X(p), got[p][1])>>)>>,
               <<PlainX(p)>>)
    BY <1>6 DEF OpenReturn
  <2> QED
    BY <1>5, <2>2, <2>3, Zenon DEF Returning
<1>7. ASSUME B2AReturn(p)
      PROVE  Returning(p)
  <2>1. Instr(p).op = "b2a_bit" /\ Instr(p).op \notin OpenOps
    BY <1>7, RunningFacts DEF B2AReturn, OpenOps
  <2>2. /\ Outcome(p) = Result("a", BitShares(p, Opened("b", MaskedBit(p), got[p][1])))
        /\ PlainValues(p) = <<IF PlainX(p) = Unknown THEN Unknown ELSE LowBit(PlainX(p))>>
    BY <1>3, <2>1 DEF Outcome, PlainValues, PlainValue
  <2>3. Finish(p, <<Result("a", BitShares(p, Opened("b", MaskedBit(p), got[p][1])))>>,
               <<IF PlainX(p) = Unknown THEN Unknown ELSE LowBit(PlainX(p))>>)
    BY <1>7 DEF B2AReturn, MaskedBit
  <2> QED
    BY <1>5, <2>2, <2>3, Zenon DEF Returning
<1> QED
  BY <1>6, <1>7

LEMMA InpReturns ==
  ASSUME Types, Counts, NEW p \in Parties, InpReturn(p)
  PROVE  Returning(p)
<1> DEFINE r == Instr(p).roles
<1>1. PICK n \in {0, 1, 2} : Running(p, InpOps, n)
  BY DEF InpReturn, InpAt
<1>2. /\ Active(p) /\ Returned(p) /\ Instr(p).op \in InpOps /\ calls[p] = n
      /\ program[pc[p]].op \in InpOps /\ CountInv(p)
  BY <1>1, RunningFacts
<1>3. /\ Instr(p).op \notin LocalOps /\ Instr(p).op \notin MultiplyOps
      /\ Instr(p).op \notin OpenOps \cup {"b2a_bit"} /\ Instr(p).op \notin ShareOps
  BY <1>2 DEF LocalOps, UnaryOps, BinaryOps, MultiplyOps, OpenOps, InpOps, ShareOps
<1>4. IsRoles(r)
  <2>1. pc[p] \in 1 .. Len(program) /\ program \in Programs
    BY <1>2, Ranges
  <2> QED
    BY <1>2, <2>1, Instructions DEF Instr
<1>5. Calls(pc[p], p) = IF p = r.g THEN 2 ELSE IF p = r.h THEN 0 ELSE 1
  BY <1>2, <1>3 DEF Calls, Instr
<1>6. /\ Outcome(p) = Result(Kind(Instr(p).op), InpShares(p))
      /\ PlainValues(p) = <<Unknown>>
  BY <1>2, <1>3 DEF Outcome, PlainValues, PlainValue, OpenOps
<1>7. /\ n = Calls(pc[p], p)
      /\ p = r.g => got[p][1] = got[p][2]
      /\ InpResult(p, InpShares(p))
  <2>1. CASE InpAt(p, "i", 1) /\ InpResult(p, <<ZeroShare, InpShare(p), 0>>)
    <3>1. p = r.i /\ n = 1
      BY <1>2, <2>1, RunningFacts DEF InpAt
    <3> QED
      BY <1>4, <1>5, <2>1, <3>1 DEF IsRoles, InpShares
  <2>2. CASE InpAt(p, "j", 1) /\ InpResult(p, <<0, ZeroShare, InpShare(p)>>)
    <3>1. p = r.j /\ n = 1
      BY <1>2, <2>2, RunningFacts DEF InpAt
    <3> QED
      BY <1>4, <1>5, <2>2, <3>1 DEF IsRoles, InpShares
  <2>3. CASE InpAt(p, "g", 2) /\ Agree(p, 1, 2) /\ InpResult(p, <<got[p][1], 0, 0>>)
    <3>1. p = r.g /\ n = 2
      BY <1>2, <2>3, RunningFacts DEF InpAt
    <3> QED
      BY <1>4, <1>5, <2>3, <3>1 DEF IsRoles, InpShares, Agree
  <2>4. CASE InpAt(p, "h", 0) /\ InpResult(p, <<0, 0, ZeroShare>>)
    <3>1. p = r.h /\ n = 0
      BY <1>2, <2>4, RunningFacts DEF InpAt
    <3> QED
      BY <1>4, <1>5, <2>4, <3>1 DEF IsRoles, InpShares
  <2> QED
    BY <2>1, <2>2, <2>3, <2>4 DEF InpReturn
<1>8. Complete(p)
  BY <1>2, <1>3, <1>7 DEF Complete
<1>9. Finish(p, <<Result(Kind(Instr(p).op), InpShares(p))>>, <<Unknown>>)
  BY <1>7 DEF InpResult
<1> QED
  BY <1>6, <1>8, <1>9, Zenon DEF Returning

LEMMA ShareReturns ==
  ASSUME Types, Counts, NEW p \in Parties, DealReturn(p) \/ ReceiveReturn(p)
  PROVE  Returning(p)
<1>1. PICK n \in {3, 9} : Running(p, ShareOps, n)
  BY DEF DealReturn, ReceiveReturn
<1>2. /\ Active(p) /\ Returned(p) /\ Instr(p).op \in ShareOps /\ calls[p] = n
      /\ program[pc[p]].op \in ShareOps /\ CountInv(p)
  BY <1>1, RunningFacts
<1>3. /\ Instr(p).op \notin LocalOps /\ Instr(p).op \notin MultiplyOps
      /\ Instr(p).op \notin OpenOps \cup {"b2a_bit"} /\ Instr(p).op \notin InpOps
  BY <1>2 DEF LocalOps, UnaryOps, BinaryOps, MultiplyOps, OpenOps, InpOps, ShareOps
<1>4. Instr(p).party = 0
  <2>1. pc[p] \in 2 .. Len(program) /\ DealsItself(program)
    BY <1>2, Ranges
  <2> QED
    BY <1>2, <2>1 DEF DealsItself, Instr
<1>5. Calls(pc[p], p) = IF p = 0 THEN 9 ELSE 3
  BY <1>2, <1>3 DEF Calls, Instr
<1>6. /\ Outcome(p) = Result(Kind(Instr(p).op), IF p = 0 THEN dealt[p][1] ELSE got[p])
      /\ PlainValues(p) = <<>>
  BY <1>2, <1>3 DEF Outcome, PlainValues, OpenOps
<1>7. ASSUME DealReturn(p)
      PROVE  Returning(p)
  <2>1. n = 9 /\ dealt[p] # <<>>
    BY <1>2, <1>7, RunningFacts DEF DealReturn
  <2>2. p = 0
    BY <1>2, <2>1 DEF CountInv
  <2>3. Complete(p)
    BY <1>2, <1>3, <1>5, <2>1, <2>2 DEF Complete
  <2>4. Finish(p, <<Result(Kind(Instr(p).op), dealt[p][1])>>, <<>>)
    BY <1>7 DEF DealReturn
  <2> QED
    BY <1>6, <2>2, <2>3, <2>4 DEF Returning
<1>8. ASSUME ReceiveReturn(p)
      PROVE  Returning(p)
  <2>1. n = 3 /\ p # 0
    BY <1>2, <1>4, <1>8, RunningFacts DEF ReceiveReturn, Dealer
  <2>2. Complete(p)
    BY <1>2, <1>3, <1>5, <2>1 DEF Complete
  <2>3. Finish(p, <<Result(Kind(Instr(p).op), got[p])>>, <<>>)
    BY <1>8 DEF ReceiveReturn
  <2> QED
    BY <1>6, <2>1, <2>2, <2>3 DEF Returning
<1> QED
  BY <1>7, <1>8

\* The messages an operation has got, when it is complete.
LEMMA CompleteGot ==
  ASSUME Types, Counts, NEW p \in Parties, Complete(p)
  PROVE  /\ CountInv(p) /\ RegsInv(p) /\ pc[p] \in 2 .. Len(program) /\ program \in Programs
         /\ Instr(p).op \in Operations /\ Completed(p) = calls[p]
         /\ Len(got[p]) = Gets(pc[p], p, Calls(pc[p], p)) /\ got[p] \in Seq(WordSet)
         /\ Instr(p).op \in MultiplyOps => /\ Len(got[p]) = (IF p \in {2, 3} THEN 4 ELSE 2)
                                           /\ got[p][1] = got[p][2]
         /\ Instr(p).op \in OpenOps \cup {"b2a_bit"} => Len(got[p]) = 1
         /\ Instr(p).op \in InpOps => /\ IsRoles(Instr(p).roles)
                                      /\ p = Instr(p).roles.g => Len(got[p]) = 2
         /\ Instr(p).op \in ShareOps /\ p # 0 => Len(got[p]) = 3
<1>1. CountInv(p) /\ RegsInv(p)
  BY DEF Counts
<1>2. Active(p) /\ receiving[p] = NoParty /\ calls[p] = Calls(pc[p], p)
  BY DEF Complete, Returned
<1>3. /\ program \in Programs /\ pc[p] \in 2 .. Len(program) /\ pc[p] \in 1 .. Len(program)
      /\ got[p] \in Seq(WordSet)
  BY <1>1, <1>2, Ranges
<1>4. Completed(p) = calls[p]
  BY <1>2 DEF Completed
<1>5. Len(got[p]) = Gets(pc[p], p, Calls(pc[p], p))
  BY <1>1, <1>2, <1>4 DEF CountInv
<1>6. /\ Instr(p).op \in Operations
      /\ Instr(p).op \in InpOps => IsRoles(Instr(p).roles)
  BY <1>3, Instructions DEF Instr
<1>7. ASSUME Instr(p).op \in MultiplyOps
      PROVE  Len(got[p]) = (IF p \in {2, 3} THEN 4 ELSE 2) /\ got[p][1] = got[p][2]
  <2>1. Calls(pc[p], p) = IF p \in {2, 3} THEN 5 ELSE 3
    BY <1>7 DEF Calls, Instr
  <2>2. Len(got[p]) = IF p \in {2, 3} THEN 4 ELSE 2
    BY <1>5, <1>7, <2>1 DEF Gets, Instr
  <2>3. got[p][1] = got[p][2]
    BY <1>1, <1>2, <1>7, <2>1 DEF CountInv
  <2> QED
    BY <2>2, <2>3
<1>8. Instr(p).op \in OpenOps \cup {"b2a_bit"} => Len(got[p]) = 1
  BY <1>5 DEF Calls, Gets, Instr, OpenOps, MultiplyOps
<1>9. Instr(p).op \in InpOps /\ p = Instr(p).roles.g => Len(got[p]) = 2
  BY <1>5 DEF Calls, Gets, Instr, OpenOps, MultiplyOps, InpOps
<1>10. Instr(p).op \in ShareOps /\ p # 0 => Len(got[p]) = 3
  BY <1>5 DEF Calls, Gets, Instr, OpenOps, MultiplyOps, InpOps, ShareOps
<1> QED
  BY <1>1, <1>3, <1>4, <1>5, <1>6, <1>7, <1>8, <1>9, <1>10

LEMMA TupleOfWords ==
  ASSUME NEW u \in WordSet, NEW v \in WordSet, NEW w \in WordSet
  PROVE  <<u, v, w>> \in Held3
BY DEF Held3, Replication

LEMMA LocalHeld ==
  ASSUME NEW p \in Parties, Instr(p).op \in LocalOps, X(p) \in Held3,
         Instr(p).op \in BinaryOps => Y(p) \in Held3
  PROVE  LocalResult(p) \in Held3
<1> DEFINE op == Instr(p).op
<1>1. \A n \in Replication : X(p)[n] \in WordSet /\ X(p)[n] \in Nat
  BY Closure DEF Held3
<1>2. op \in BinaryOps => \A n \in Replication : Y(p)[n] \in WordSet /\ Y(p)[n] \in Nat
  BY Closure DEF Held3
<1>3. \A u, v \in WordSet : /\ Wrap(u + v) \in WordSet /\ Wrap(u - v) \in WordSet
                            /\ Wrap(-u) \in WordSet
  <2>1. \A u, v \in Nat : u + v \in Int /\ u - v \in Int /\ -u \in Int
    OBVIOUS
  <2> QED
    BY <2>1, Closure, WordsAreClosed
<1>4. CASE op \in BinaryOps
  <2>1. \A n \in Replication : /\ Wrap(X(p)[n] + Y(p)[n]) \in WordSet
                               /\ Wrap(X(p)[n] - Y(p)[n]) \in WordSet
                               /\ Xor(X(p)[n], Y(p)[n]) \in WordSet
    BY <1>1, <1>2, <1>3, <1>4, WordsAreClosed
  <2> QED
    BY <1>4, <2>1 DEF LocalResult, BinaryOps, add_a, sub_a, xor_b, Held3
<1>5. CASE op = "neg_a"
  <2>1. \A n \in Replication : Wrap(-X(p)[n]) \in WordSet
    BY <1>1, <1>3
  <2> QED
    BY <1>5, <2>1 DEF LocalResult, neg_a, Held3
<1>6. CASE op = "ltz"
  BY <1>6, WordsAreClosed DEF LocalResult, ltz, Held3
<1>7. CASE op \in {"not_b", "not_b_1"}
  <2>1. \A n \in Replication : Not(X(p)[n]) \in WordSet /\ Truth(X(p)[n] = 0) \in WordSet
    BY <1>1, WordsAreClosed
  <2>2. p # 3 => 3 - p \in Replication
    BY Around DEF Replication
  <2>3. not_b(p, X(p)) \in Held3 /\ not_b_1(p, X(p)) \in Held3
    BY <2>1, <2>2 DEF Held3, not_b, not_b_1
  <2> QED
    BY <1>7, <2>3 DEF LocalResult
<1> QED
  BY <1>4, <1>5, <1>6, <1>7 DEF LocalOps, UnaryOps

LEMMA ProductHeld ==
  ASSUME Types, Counts, NEW p \in Parties, Complete(p), Instr(p).op \in MultiplyOps,
         X(p) \in Held3, Y(p) \in Held3
  PROVE  ProductShares(p) \in Held3
<1>1. /\ got[p] \in Seq(WordSet) /\ Len(got[p]) = (IF p \in {2, 3} THEN 4 ELSE 2)
  BY CompleteGot
<1>2. got[p][1] \in WordSet /\ (p \in {2, 3} => got[p][3] \in WordSet)
  BY <1>1
<1>3. \A n \in Replication : X(p)[n] \in WordSet /\ Y(p)[n] \in WordSet
  BY DEF Held3
<1>4. \A i, j \in Replication : Cross(p, i, j) \in WordSet
  BY CrossIsWord
<1> DEFINE kind == Kind(Instr(p).op)
           square(k) == Times(kind, X(p)[k], Y(p)[k])
<1>5. \A n \in Replication : square(n) \in WordSet
  BY <1>3, Closure
<1>6. \A u, v \in WordSet : Plus(kind, u, v) \in WordSet
  BY Closure
<1>7. 1 \in Replication /\ 2 \in Replication /\ 3 \in Replication
  BY DEF Replication
<1>8. /\ Plus(kind, square(1), Cross(p, 1, 2)) \in WordSet
      /\ Plus(kind, square(2), Cross(p, 2, 3)) \in WordSet
      /\ Plus(kind, square(3), got[p][1]) \in WordSet
      /\ Cross(p, 1, 3) \in WordSet
  BY <1>2, <1>4, <1>5, <1>6, <1>7
<1> HIDE DEF square
<1>9. ProductShares(p) =
        <<IF p \in {0, 3} THEN Plus(kind, Plus(kind, square(1), Cross(p, 1, 2)), Cross(p, 1, 3))
          ELSE Plus(kind, square(1), Cross(p, 1, 2)),
          IF p \in {2, 3} THEN Plus(kind, Plus(kind, square(2), Cross(p, 2, 3)), got[p][3])
          ELSE Plus(kind, square(2), Cross(p, 2, 3)),
          IF p \in {1, 2} THEN Plus(kind, Plus(kind, square(3), got[p][1]), Cross(p, 1, 3))
          ELSE Plus(kind, square(3), got[p][1])>>
  BY DEF ProductShares, square
<1> HIDE DEF kind
<1> QED
  BY <1>2, <1>6, <1>8, <1>9, TupleOfWords

LEMMA BitHeld ==
  ASSUME NEW p \in Parties, NEW bit \in WordSet
  PROVE  BitShares(p, bit) \in Held3
<1>1. bit \in Nat
  BY Closure
<1>2. \A u : Truth(u) \in {0, 1}
  BY DEF Truth
<1>3. \A t \in {0, 1} : bit * t - 0 * (bit * 2 - 1) \in Nat
  BY <1>1
<1>4. \A n \in Replication : bit * Truth((p + n - 1) % 4 = 0) - 0 * (bit * 2 - 1) \in Nat
  BY <1>2, <1>3
<1>5. \A u \in Nat : LowBit(u) \in {0, 1}
  BY DEF LowBit
<1>6. {0, 1} \subseteq WordSet
  BY SingleBits
<1> QED
  BY <1>4, <1>5, <1>6 DEF BitShares, Held3

LEMMA OpenedWord ==
  ASSUME NEW kind, NEW x \in Held3, NEW w \in WordSet
  PROVE  Opened(kind, x, w) \in WordSet
<1>1. x[1] \in WordSet /\ x[2] \in WordSet /\ x[3] \in WordSet
  BY DEF Held3, Replication
<1> QED
  BY <1>1, Closure DEF Opened

LEMMA InpHeld ==
  ASSUME Types, Counts, PlainInv, NEW p \in Parties, Complete(p), Instr(p).op \in InpOps
  PROVE  InpShares(p) \in Held3
<1>1. /\ IsRoles(Instr(p).roles) /\ got[p] \in Seq(WordSet) /\ Active(p)
      /\ p = Instr(p).roles.g => Len(got[p]) = 2
  BY CompleteGot DEF Complete
<1>2. p = Instr(p).roles.g => got[p][1] \in WordSet
  BY <1>1
<1>3. InpShare(p) \in WordSet /\ 0 \in WordSet
  BY <1>1, KnownIsWord, Closure
<1> QED
  BY <1>2, <1>3, TupleOfWords DEF InpShares, ZeroShare

LEMMA OutcomeIsRegister ==
  ASSUME Types, Counts, PlainInv, NEW p \in Parties, Complete(p)
  PROVE  Outcome(p) \in Registers /\ Outcome(p).kind = ResultKind(Instr(p).op)
<1> DEFINE op == Instr(p).op
<1>1. Active(p) /\ op \in Operations /\ got[p] \in Seq(WordSet)
  BY CompleteGot DEF Complete
<1>2. op \notin ShareOps => X(p) \in Held3
  BY <1>1, Operand
<1>3. op \in BinaryOps \cup MultiplyOps => Y(p) \in Held3
  <2>1. op \in BinaryOps \cup MultiplyOps => op \notin ShareOps
    BY DEF BinaryOps, MultiplyOps, ShareOps
  <2> QED
    BY <1>1, <2>1, Operand
<1>4. Kind(op) \in {"a", "b"}
  BY DEF Kind
<1>5. \A kind \in {"a", "b"}, x \in Held3 :
        Result(kind, x) \in Registers /\ Result(kind, x).kind = kind
  BY DEF Result, Registers
<1>6. CASE op \in LocalOps
  <2>1. /\ op \notin MultiplyOps /\ op \notin OpenOps \cup {"b2a_bit"}
        /\ op \notin InpOps /\ op \notin ShareOps
    BY <1>1, <1>6, Classes
  <2>2. Outcome(p) = Result(Kind(op), LocalResult(p)) /\ ResultKind(op) = Kind(op)
    BY <1>6, <2>1 DEF Outcome, ResultKind
  <2>3. LocalResult(p) \in Held3
    BY <1>2, <1>3, <1>6, <2>1, LocalHeld
  <2> QED
    BY <1>4, <1>5, <2>2, <2>3
<1>7. CASE op \in MultiplyOps
  <2>1. /\ op \notin LocalOps /\ op \notin OpenOps \cup {"b2a_bit"}
        /\ op \notin InpOps /\ op \notin ShareOps
    BY <1>1, <1>7, Classes
  <2>2. Outcome(p) = Result(Kind(op), ProductShares(p)) /\ ResultKind(op) = Kind(op)
    BY <1>7, <2>1 DEF Outcome, ResultKind
  <2>3. ProductShares(p) \in Held3
    BY <1>2, <1>3, <1>7, <2>1, ProductHeld
  <2> QED
    BY <1>4, <1>5, <2>2, <2>3
<1>8. CASE op \in OpenOps \cup {"b2a_bit"}
  <2>1. op \notin LocalOps /\ op \notin MultiplyOps /\ op \notin InpOps /\ op \notin ShareOps
    BY <1>1, <1>8, Classes
  <2>2. got[p][1] \in WordSet
    <3>1. Len(got[p]) = 1
      BY <1>8, CompleteGot
    <3> QED
      BY <1>1, <3>1
  <2>3. CASE op \in OpenOps
    <3>1. Outcome(p) = Result("open", <<Opened(Kind(op), X(p), got[p][1])>>)
      BY <2>1, <2>3 DEF Outcome
    <3>2. Opened(Kind(op), X(p), got[p][1]) \in WordSet
      BY <1>2, <2>1, <2>2, OpenedWord
    <3>3. ResultKind(op) = "open"
      BY <2>3 DEF ResultKind
    <3>4. \A w \in WordSet : <<w>> \in [1 .. 1 -> WordSet]
      OBVIOUS
    <3>5. <<Opened(Kind(op), X(p), got[p][1])>> \in [1 .. 1 -> WordSet]
      BY <3>2, <3>4
    <3>6. \A x \in [1 .. 1 -> WordSet] :
            Result("open", x) \in Registers /\ Result("open", x).kind = "open"
      BY DEF Result, Registers
    <3> QED
      BY <3>1, <3>3, <3>5, <3>6
  <2>4. CASE op = "b2a_bit"
    <3>1. op \notin OpenOps /\ ResultKind(op) = "a"
      BY <2>4 DEF OpenOps, ResultKind, Kind
    <3>2. Outcome(p) = Result("a", BitShares(p, Opened("b", MaskedBit(p), got[p][1])))
      BY <2>1, <2>4, <3>1 DEF Outcome
    <3>3. MaskedBit(p) \in Held3
      BY <1>2, <2>1, Closure DEF MaskedBit, Held3
    <3>4. BitShares(p, Opened("b", MaskedBit(p), got[p][1])) \in Held3
      BY <2>2, <3>3, OpenedWord, BitHeld
    <3> QED
      BY <1>5, <3>1, <3>2, <3>4
  <2> QED
    BY <1>8, <2>3, <2>4
<1>9. CASE op \in InpOps
  <2>1. /\ op \notin LocalOps /\ op \notin OpenOps \cup {"b2a_bit"}
        /\ op \notin MultiplyOps /\ op \notin ShareOps
    BY <1>1, <1>9, Classes
  <2>2. Outcome(p) = Result(Kind(op), InpShares(p)) /\ ResultKind(op) = Kind(op)
    BY <1>9, <2>1 DEF Outcome, ResultKind, OpenOps
  <2>3. InpShares(p) \in Held3
    BY <1>9, InpHeld
  <2> QED
    BY <1>4, <1>5, <2>2, <2>3
<1>10. CASE op \in ShareOps
  <2>1. /\ op \notin LocalOps /\ op \notin OpenOps \cup {"b2a_bit"}
        /\ op \notin MultiplyOps /\ op \notin InpOps
    BY <1>1, <1>10, Classes
  <2>2. Outcome(p) = Result(Kind(op), IF p = 0 THEN dealt[p][1] ELSE got[p])
        /\ ResultKind(op) = Kind(op)
    BY <1>10, <2>1 DEF Outcome, ResultKind, OpenOps
  <2>3. p = 0 => dealt[p][1] \in Held3
    <3>1. p = 0 => dealt[p] \in Deals
      BY <1>10 DEF Complete, Types
    <3> QED
      BY <3>1 DEF Deals
  <2>4. p # 0 => got[p] \in Held3
    <3>1. p # 0 => Len(got[p]) = 3
      BY <1>10, CompleteGot
    <3>2. got[p] \in [1 .. Len(got[p]) -> WordSet]
      BY <1>1
    <3> QED
      BY <3>1, <3>2 DEF Held3, Replication
  <2> QED
    BY <1>4, <1>5, <2>2, <2>3, <2>4
<1> QED
  BY <1>1, <1>6, <1>7, <1>8, <1>9, <1>10, Classes

LEMMA PlainValueTyped ==
  ASSUME Types, Counts, PlainInv, NEW p \in Parties, Active(p), Instr(p).op \notin ShareOps
  PROVE  PlainValue(p) \in WordSet \cup {Unknown}
<1> DEFINE op == Instr(p).op
           u == PlainX(p)
           v == PlainY(p)
<1>1. u \in WordSet \cup {Unknown} /\ (op \in BinaryOps \cup MultiplyOps => v \in WordSet \cup {Unknown})
  BY Operand
<1>2. op \in LocalOps => LocalPlain(p) \in WordSet \cup {Unknown}
  <2>1. CASE u = Unknown \/ (op \in BinaryOps /\ v = Unknown)
    BY <2>1 DEF LocalPlain
  <2>2. CASE ~(u = Unknown \/ (op \in BinaryOps /\ v = Unknown))
    <3>1. u \in WordSet /\ (op \in BinaryOps => v \in WordSet)
      BY <1>1, <2>2
    <3>2. u \in Nat /\ (op \in BinaryOps => v \in Nat)
      BY <3>1, Closure
    <3>3. /\ Wrap(-u) \in WordSet
          /\ op \in BinaryOps => Wrap(u + v) \in WordSet /\ Wrap(u - v) \in WordSet
      <4>1. -u \in Int /\ (op \in BinaryOps => u + v \in Int /\ u - v \in Int)
        BY <3>2
      <4> QED
        BY <4>1, WordsAreClosed
    <3>4. /\ op \in BinaryOps => Xor(u, v) \in WordSet
          /\ Not(u) \in WordSet /\ \A t : Truth(t) \in WordSet
      BY <3>1, WordsAreClosed
    <3>5. LocalPlain(p) = CASE op = "add_a"   -> Wrap(u + v)
                            [] op = "sub_a"   -> Wrap(u - v)
                            [] op = "xor_b"   -> Xor(u, v)
                            [] op = "neg_a"   -> Wrap(-u)
                            [] op = "not_b"   -> Not(u)
                            [] op = "not_b_1" -> Truth(u = 0)
                            [] op = "ltz"     -> Truth(Signed(u) < 0)
      BY <2>2 DEF LocalPlain
    <3> HIDE DEF op, u, v
    <3> QED
      BY <3>3, <3>4, <3>5 DEF LocalOps, UnaryOps, BinaryOps
  <2> QED
    BY <2>1, <2>2
<1>3. op \in MultiplyOps => ProductPlain(p) \in WordSet \cup {Unknown}
  BY <1>1, Closure DEF ProductPlain
<1>4. op = "b2a_bit" /\ u # Unknown => LowBit(u) \in WordSet
  BY <1>1, Closure
<1> QED
  BY <1>1, <1>2, <1>3, <1>4 DEF PlainValue

LEMMA CompleteMayReturn ==
  ASSUME Types, Counts, PlainInv, NEW p \in Parties, Complete(p)
  PROVE  MayReturn(p, Outcome(p), PlainValues(p))
<1>1. Outcome(p) \in Registers /\ Outcome(p).kind = ResultKind(Instr(p).op)
  BY OutcomeIsRegister
<1>2. CASE Instr(p).op \in ShareOps
  BY <1>1, <1>2 DEF MayReturn, Complete, PlainValues
<1>3. CASE Instr(p).op \notin ShareOps
  <2>1. PlainValue(p) \in WordSet \cup {Unknown}
    BY <1>3, PlainValueTyped DEF Complete
  <2> QED
    BY <1>1, <1>3, <2>1 DEF MayReturn, Complete, PlainValues
<1> QED
  BY <1>2, <1>3

\* The words a secret is shared as.
DealtWords(kind, data, r) ==
  [s \in 0 .. 3 |->
     IF s = 0 THEN r[1] ELSE IF s = 1 THEN r[2] ELSE IF s = 2 THEN r[3]
     ELSE Minus(kind, Minus(kind, Minus(kind, data, r[1]), r[2]), r[3])]

LEMMA Dealt ==
  ASSUME NEW kind, NEW data \in Data, NEW r \in Randoms
  PROVE  /\ data \in WordSet /\ DealtWords(kind, data, r) \in Secrets
         /\ get_shares(kind, data, r[1], r[2], r[3]) \in Deals
         /\ \A q \in Parties : get_shares(kind, data, r[1], r[2], r[3])[q + 1]
                                 = Share(DealtWords(kind, data, r), q)
<1> DEFINE words == DealtWords(kind, data, r)
           rows == get_shares(kind, data, r[1], r[2], r[3])
<1>1. data \in WordSet /\ r[1] \in WordSet /\ r[2] \in WordSet /\ r[3] \in WordSet
  <2>1. data \in WordSet /\ r \in [1 .. 3 -> WordSet]
    BY ProtocolAssumption, FourPartiesAssumption
  <2> QED
    BY <2>1
<1>2. Minus(kind, Minus(kind, Minus(kind, data, r[1]), r[2]), r[3]) \in WordSet
  BY <1>1, Closure
<1>3. words \in Secrets
  BY <1>1, <1>2 DEF DealtWords, Secrets
<1>4. /\ words[0] = r[1] /\ words[1] = r[2] /\ words[2] = r[3]
      /\ words[3] = Minus(kind, Minus(kind, Minus(kind, data, r[1]), r[2]), r[3])
  BY DEF DealtWords
<1>5. rows = <<<<words[1], words[2], words[3]>>, <<words[2], words[3], words[0]>>,
               <<words[3], words[0], words[1]>>, <<words[0], words[1], words[2]>>>>
  BY <1>4 DEF get_shares
<1>6. \A s \in 0 .. 3 : words[s] \in WordSet
  BY <1>3 DEF Secrets
<1> HIDE DEF words, rows
<1>7. /\ <<words[1], words[2], words[3]>> \in Held3 /\ <<words[2], words[3], words[0]>> \in Held3
      /\ <<words[3], words[0], words[1]>> \in Held3 /\ <<words[0], words[1], words[2]>> \in Held3
  <2>1. words[0] \in WordSet /\ words[1] \in WordSet /\ words[2] \in WordSet /\ words[3] \in WordSet
    BY <1>6
  <2> QED
    BY <2>1, TupleOfWords
<1>8. rows \in Deals
  BY <1>5, <1>7 DEF Deals
<1>9. /\ Share(words, 0) = <<words[1], words[2], words[3]>>
      /\ Share(words, 1) = <<words[2], words[3], words[0]>>
      /\ Share(words, 2) = <<words[3], words[0], words[1]>>
      /\ Share(words, 3) = <<words[0], words[1], words[2]>>
  BY Around DEF Share, Replication
<1>10. \A q \in Parties : rows[q + 1] = Share(words, q)
  BY <1>5, <1>9, Around
<1> QED
  BY <1>1, <1>3, <1>8, <1>10 DEF words, rows

LEMMA DealsAre ==
  ASSUME Types, Counts, NEW p \in Parties, DealShares(p)
  PROVE  \E data \in Data, r \in Randoms :
           /\ p = 0
           /\ DealStep(get_shares(Kind(Instr(0).op), data, r[1], r[2], r[3]), data)
<1>1. /\ Active(p) /\ Returned(p) /\ Instr(p).op \in ShareOps /\ calls[p] = 0 /\ CountInv(p)
  BY RunningFacts DEF DealShares
<1>2. p = 0
  <2>1. pc[p] \in 2 .. Len(program) /\ DealsItself(program)
    BY <1>1, Ranges
  <2> QED
    BY <1>1, <2>1 DEF DealsItself, Instr, DealShares, Dealer
<1>3. PICK data \in Data, r \in Randoms :
        /\ dealt' = [dealt EXCEPT ![p] =
                       get_shares(Kind(Instr(p).op), data, r[1], r[2], r[3])]
        /\ plain' = Append(plain, data)
  BY DEF DealShares
<1>4. /\ dealt[p] = <<>> /\ UNCHANGED <<netVars, program, pc, regs, accused, altered>>
  BY DEF DealShares
<1>5. get_shares(Kind(Instr(p).op), data, r[1], r[2], r[3]) \in Deals /\ data \in WordSet
  BY Dealt
<1> QED
  BY <1>1, <1>2, <1>3, <1>4, <1>5 DEF DealStep

\* A party accuses, or MPI completes a send: the messages stay where they are.
Quiet ==
  /\ UNCHANGED <<program, net, got, pc, calls, receiving, dealt, regs, plain, altered>>
  /\ sending' \in [Parties -> Parties \cup {NoParty}]
  /\ accused' \subseteq Parties

LEMMA QuietKeeps ==
  ASSUME Types, Counts, PlainInv, NEW mail, MailInv(mail), Quiet
  PROVE  Types' /\ Counts' /\ PlainInv' /\ MailInv(mail)'
<1>1. /\ UNCHANGED <<program, net, got, pc, calls, receiving>>
      /\ UNCHANGED <<program, got, pc, calls, receiving, dealt, regs, plain>>
  BY DEF Quiet
<1>2. MailInv(mail)'
  BY <1>1, SameMail
<1>3. Counts' /\ PlainInv'
  BY <1>1, SameCounts
<1>4. Types'
  BY DEF Types, Quiet, DealsItself
<1> QED
  BY <1>2, <1>3, <1>4

LEMMA AccuseIsQuiet ==
  ASSUME Types, NEW p \in Parties, Accuse(p)
  PROVE  Quiet
BY DEF Types, Accuse, Quiet, protocolVars, netVars

LEMMA NetworkSteps ==
  ASSUME Types, NEW p \in Parties, Network(p)
  PROVE  HearStep(p) \/ (Quiet /\ accused' = accused)
<1>1. UNCHANGED <<program, pc, regs, dealt, plain, accused, altered>> /\ Transport(p)
  BY DEF Network, MPI, InCall
<1>2. ASSUME Receive(p)
      PROVE  HearStep(p)
  BY <1>1, <1>2 DEF Receive, HearStep
<1>3. ASSUME SendDone(p)
      PROVE  Quiet /\ accused' = accused
  <2>1. sending' \in [Parties -> Parties \cup {NoParty}]
    BY <1>3 DEF SendDone, Types
  <2> QED
    BY <1>1, <1>3, <2>1 DEF SendDone, Quiet, Types
<1> QED
  BY <1>1, <1>2, <1>3 DEF Transport, Deliver, SendMatched, SendBuffered

LEMMA AccusationsAre ==
  ASSUME NEW p \in Parties, MultiplyAccuse(p) \/ InpAccuse(p)
  PROVE  Accuse(p)
BY DEF MultiplyAccuse, InpAccuse

\* What the parties and the network do.
LEMMA Steps ==
  ASSUME Types, Counts, Next
  PROVE  \/ \E p \in Parties : Calling(p)
         \/ \E p \in Parties : Returning(p)
         \/ \E data \in Data, r \in Randoms :
              DealStep(get_shares(Kind(Instr(0).op), data, r[1], r[2], r[3]), data)
         \/ \E p \in Parties : HearStep(p)
         \/ Quiet /\ accused' = accused
         \/ \E p \in Parties : MultiplyAccuse(p) \/ InpAccuse(p)
         \/ \E link \in Links : Alter(link)
<1>1. ASSUME NEW p \in Parties, Operation(p)
      PROVE  \/ Calling(p) \/ Returning(p) \/ MultiplyAccuse(p) \/ InpAccuse(p)
             \/ \E data \in Data, r \in Randoms :
                  DealStep(get_shares(Kind(Instr(0).op), data, r[1], r[2], r[3]), data)
  BY <1>1, MultiplyCall, OpenCall, InpCall, ShareCall, LocalReturns, MultiplyReturns,
     OpenReturns, InpReturns, ShareReturns, DealsAre DEF Operation
<1>2. ASSUME NEW p \in Parties, Network(p)
      PROVE  HearStep(p) \/ (Quiet /\ accused' = accused)
  BY <1>2, NetworkSteps
<1> QED
  BY <1>1, <1>2 DEF Next, Links

-----------------------------------------------------------------------------
(* The first layer.                                                        *)

FirstInv == Types /\ Counts /\ PlainInv /\ \E mail : MailInv(mail)

ProgramsDeal == \A instrs \in Programs : DealsItself(instrs)

LEMMA NothingPending ==
  ASSUME Types, NEW p \in Parties, NEW q \in Parties, NEW m
  PROVE  Carries(<<>>, m, Slots(p, q), SendsAt(q), 32, 32)
<1>1. program \in Programs /\ DealsItself(program)
  BY DEF Types
<1>2. ASSUME NEW s \in Slots(p, q)
      PROVE  32 <= s /\ 32 <= SendsAt(q)[s] /\ s \in Nat /\ SendsAt(q)[s] \in Nat
  <2>1. PICK k \in 2 .. Len(program), n \in 0 .. 4 : s = 16 * k + n /\ From(k, q, n) = p
    BY <1>1, SlotFacts
  <2>2. k \in Nat /\ k >= 2 /\ Len(program) \in Nat
    BY <1>1, Instructions
  <2>3. n \in 0 .. 15
    OBVIOUS
  <2>4. SendsAt(q)[s] = 16 * k + SentAs(k, q, n)
    BY <1>1, <2>1, <2>2, <2>3, SlotFacts
  <2>5. p # NoParty
    BY Around
  <2>6. HearIsSent(k, q, n)
    BY <1>1, <2>1, <2>2, <2>5, SchedulePart
  <2>7. PICK j : j = SentAs(k, q, n)
    OBVIOUS
  <2>8. j \in 0 .. 8
    BY <2>6, <2>7 DEF HearIsSent
  <2>9. 32 <= 16 * k + n /\ 32 <= 16 * k + j /\ 16 * k + n \in Nat /\ 16 * k + j \in Nat
    BY <2>2, <2>8
  <2> QED
    BY <2>1, <2>4, <2>7, <2>9
<1>3. Pending(Slots(p, q), SendsAt(q), 32, 32) = {}
  <2>1. \A s \in Slots(p, q) : ~(SendsAt(q)[s] < 32)
    BY <1>2
  <2> QED
    BY <2>1 DEF Pending
<1>4. \A s \in Slots(p, q) : ~(s < 32)
  BY <1>2
<1>5. InOrder(<<>>, m, {})
  <2>1. Lists(<<>>, 0, <<>>, m, {})
    BY DEF Lists
  <2> QED
    BY <2>1 DEF InOrder
<1> QED
  BY <1>3, <1>4, <1>5 DEF Carries

\* Where the parties begin, whoever shared the first secret.
LEMMA Begins ==
  ASSUME ProgramsDeal, Init, NEW mail \in [Parties -> [Nat -> WordSet]]
  PROVE  /\ Types /\ Counts /\ PlainInv /\ MailInv(mail)
         /\ \A p \in Parties : SendPos(p) = 32 /\ HearPos(p) = 32
<1>1. program \in Programs /\ DealsItself(program) /\ accused = {} /\ altered = 0
  BY DEF Init, ProgramsDeal
<1>2. /\ Len(program) \in Nat \ {0} /\ program[1].op \in ShareOps /\ program[1].party \in Parties
      /\ program[1].op \notin OpenOps /\ Len(program) \in Nat /\ Len(program) >= 1
  <2>1. Len(program) \in Nat \ {0} /\ program[1].op \in ShareOps
    BY <1>1, Instructions
  <2>2. 1 \in 1 .. Len(program)
    BY <2>1
  <2> QED
    BY <1>1, <2>1, <2>2, Instructions DEF ShareOps, OpenOps
<1>3. PICK data \in Data, r \in Randoms :
        ProtocolInit(data, get_shares(Kind(program[1].op), data, r[1], r[2], r[3]))
  BY DEF Init
<1> DEFINE rows == get_shares(Kind(program[1].op), data, r[1], r[2], r[3])
<1>4. data \in WordSet /\ rows \in Deals
  BY Dealt
<1> HIDE DEF rows
<1>5. ProtocolInit(data, rows)
  BY <1>3 DEF rows
<1>6. /\ net = [link \in Links |-> <<>>] /\ sending = [p \in Parties |-> NoParty]
      /\ receiving = [p \in Parties |-> NoParty] /\ calls = [p \in Parties |-> 0]
      /\ got = [p \in Parties |-> <<>>] /\ pc = [p \in Parties |-> 2]
      /\ dealt = [p \in Parties |-> <<>>] /\ plain = <<data>>
  BY <1>5 DEF ProtocolInit, NetInit, Links
<1>7. \A p \in Parties : Relative(p, -program[1].party) + 1 \in 1 .. 4
  <2>1. \A p, d \in Parties : Relative(p, -d) \in 0 .. 3
    BY Around, FourPartiesAssumption DEF Relative
  <2> QED
    BY <1>2, <2>1
<1>8. \A p \in Parties :
        regs[p] = <<[kind |-> Kind(program[1].op),
                     shares |-> rows[Relative(p, -program[1].party) + 1]]>>
  BY <1>5 DEF ProtocolInit
<1>9. \A p \in Parties :
        /\ Len(regs[p]) = 1 /\ regs[p] \in Seq(Registers) /\ regs[p][1].kind = Kind(program[1].op)
  <2>1. Kind(program[1].op) \in {"a", "b"}
    BY DEF Kind
  <2>2. \A n \in 1 .. 4 : rows[n] \in Held3
    BY <1>4 DEF Deals
  <2>3. \A p \in Parties : [kind |-> Kind(program[1].op),
                            shares |-> rows[Relative(p, -program[1].party) + 1]] \in Registers
    BY <1>7, <2>1, <2>2 DEF Registers
  <2>4. \A p \in Parties : \E e \in Registers :
          e.kind = Kind(program[1].op) /\ regs[p] = <<e>>
    BY <1>8, <2>3
  <2>5. \A e \in Registers : Len(<<e>>) = 1 /\ <<e>> \in Seq(Registers) /\ <<e>>[1] = e
    OBVIOUS
  <2>6. ASSUME NEW p \in Parties
        PROVE  /\ Len(regs[p]) = 1 /\ regs[p] \in Seq(Registers)
               /\ regs[p][1].kind = Kind(program[1].op)
    <3>1. PICK e \in Registers : e.kind = Kind(program[1].op) /\ regs[p] = <<e>>
      BY <2>4
    <3>2. Len(<<e>>) = 1 /\ <<e>> \in Seq(Registers) /\ <<e>>[1] = e
      BY <2>5
    <3> QED
      BY <3>1, <3>2
  <2> QED
    BY <2>6
<1>10. regs \in [Parties -> Seq(Registers)]
  <2>1. regs = [p \in Parties |-> regs[p]]
    BY <1>5 DEF ProtocolInit
  <2> QED
    BY <1>9, <2>1
<1>11. Types
  <2>1. <<>> \in Seq(WordSet) /\ <<data>> \in Seq(WordSet \cup {Unknown})
    BY <1>4
  <2>2. altered \in 0 .. MaxAltered
    BY <1>1, FourPartiesAssumption
  <2> QED
    BY <1>1, <1>6, <1>10, <2>1, <2>2 DEF Types
<1>12. \A p \in Parties : /\ Completed(p) = 0 /\ SendPos(p) = 32 /\ HearPos(p) = 32
  BY <1>6 DEF Completed, SendPos, HearPos
<1>13. ASSUME NEW p \in Parties
       PROVE  CountInv(p) /\ RegsInv(p) /\ GotInv(mail, p) /\ Reached(p) = Len(plain)
  <2>1. /\ pc[p] = 2 /\ calls[p] = 0 /\ got[p] = <<>> /\ receiving[p] = NoParty
        /\ dealt[p] = <<>> /\ Len(plain) = 1
    BY <1>6
  <2>2. pc[p] \in 2 .. Len(program) + 1
    BY <1>2, <2>1
  <2>3. Active(p) => Calls(2, p) \in 0 .. 9 /\ Gets(2, p, 0) = 0
    <3>1. Active(p) => 2 \in 2 .. Len(program)
      BY <1>2, <2>1 DEF Active
    <3> QED
      BY <1>1, <3>1, SchedulePart, GetsStep
  <2>4. CountInv(p)
    <3>1. Active(p) => 0 <= Calls(2, p)
      BY <2>3
    <3>2. Active(p) => Len(got[p]) = Gets(pc[p], p, Completed(p))
      BY <1>12, <2>1, <2>3
    <3> QED
      BY <2>1, <2>2, <3>1, <3>2 DEF CountInv
  <2>5. RegsInv(p)
    <3>1. ResultKind(program[1].op) = Kind(program[1].op)
      BY <1>2 DEF ResultKind
    <3> QED
      BY <1>9, <2>1, <3>1 DEF RegsInv
  <2>6. GotInv(mail, p)
    BY <1>12 DEF GotInv
  <2>7. Reached(p) = Len(plain)
    BY <1>9, <2>1 DEF Reached
  <2> QED
    BY <2>4, <2>5, <2>6, <2>7
<1>14. Counts
  BY <1>13 DEF Counts
<1>15. PlainInv
  <2>1. Len(plain) \in Nat /\ 0 \in Parties
    BY <1>6, Around
  <2> QED
    BY <1>13, <2>1 DEF PlainInv
<1>16. MailInv(mail)
  <2>1. \A p, q \in Parties : LinkInv(mail, p, q)
    BY <1>6, <1>11, <1>12, NothingPending DEF LinkInv, Links
  <2> QED
    BY <1>13, <2>1 DEF MailInv
<1> QED
  BY <1>11, <1>12, <1>14, <1>15, <1>16

LEMMA Zeros ==
  [q \in Parties |-> [s \in Nat |-> 0]] \in [Parties -> [Nat -> WordSet]]
BY Closure

LEMMA FirstStep ==
  ASSUME FirstInv, [Next]_vars
  PROVE  FirstInv'
<1>1. Types /\ Counts /\ PlainInv
  BY DEF FirstInv
<1>2. PICK mail : MailInv(mail)
  BY DEF FirstInv
<1>3. ASSUME NEW p \in Parties, Calling(p)
      PROVE  FirstInv'
  <2>1. MayCall(p) /\ CallStep(p, Message(p)) /\ (NextTo(p) # NoParty => Message(p) \in WordSet)
    BY <1>1, <1>3, MessageIsWord DEF Calling
  <2>2. PICK m : m = Message(p)
    OBVIOUS
  <2>3. CallStep(p, m) /\ (NextTo(p) # NoParty => m \in WordSet)
    BY <2>1, <2>2
  <2>4. PICK mail2 : mail2 = CallMail(mail, p, m)
    OBVIOUS
  <2>5. MailInv(mail2)'
    BY <1>1, <1>2, <2>1, <2>3, <2>4, CallKeepsMail
  <2>6. Types' /\ Counts' /\ PlainInv'
    BY <1>1, <2>1, <2>3, CallKeepsCounts
  <2> QED
    BY <2>5, <2>6 DEF FirstInv
<1>4. ASSUME NEW p \in Parties, Returning(p)
      PROVE  FirstInv'
  <2>1. PICK r, values : r = Outcome(p) /\ values = PlainValues(p)
    OBVIOUS
  <2>2. MayReturn(p, r, values) /\ Finish(p, <<r>>, values)
    BY <1>1, <1>4, <2>1, CompleteMayReturn DEF Returning
  <2>3. MailInv(mail)'
    BY <1>1, <1>2, <2>2, ReturnKeepsMail
  <2>4. Types' /\ Counts' /\ PlainInv'
    BY <1>1, <1>2, <2>2, ReturnKeepsCounts
  <2> QED
    BY <2>3, <2>4 DEF FirstInv
<1>5. ASSUME NEW data \in Data, NEW rows, DealStep(rows, data)
      PROVE  FirstInv'
  <2>1. Types' /\ Counts' /\ PlainInv' /\ MailInv(mail)'
    BY <1>1, <1>2, <1>5, DealKeepsCounts
  <2> QED
    BY <2>1 DEF FirstInv
<1>6. ASSUME NEW p \in Parties, HearStep(p)
      PROVE  FirstInv'
  <2>1. MailInv(mail)'
    BY <1>1, <1>2, <1>6, HearKeepsMail
  <2>2. Types' /\ Counts' /\ PlainInv'
    BY <1>1, <1>6, HearKeepsCounts
  <2> QED
    BY <2>1, <2>2 DEF FirstInv
<1>7. ASSUME Quiet
      PROVE  FirstInv'
  <2>1. Types' /\ Counts' /\ PlainInv' /\ MailInv(mail)'
    BY <1>1, <1>2, <1>7, QuietKeeps
  <2> QED
    BY <2>1 DEF FirstInv
<1>8. ASSUME NEW p \in Parties, MultiplyAccuse(p) \/ InpAccuse(p)
      PROVE  FirstInv'
  BY <1>1, <1>7, <1>8, AccusationsAre, AccuseIsQuiet
<1>9. ASSUME NEW link \in Links, Alter(link)
      PROVE  FirstInv'
  <2>1. Types' /\ Counts' /\ PlainInv'
    BY <1>1, <1>2, <1>9, AlterKeepsMail
  <2>2. PICK b \in Parties, s \in Nat, word \in WordSet :
          MailInv([mail EXCEPT ![b] = [mail[b] EXCEPT ![s] = word]])'
    BY <1>1, <1>2, <1>9, AlterKeepsMail
  <2> QED
    BY <2>1, <2>2 DEF FirstInv
<1>10. CASE UNCHANGED vars
  <2>1. Quiet
    BY <1>1, <1>10 DEF Quiet, vars, protocolVars, netVars, Types
  <2> QED
    BY <1>7, <2>1
<1>11. CASE Next
  BY <1>1, <1>3, <1>4, <1>5, <1>6, <1>7, <1>8, <1>9, <1>11, Steps
<1> QED
  BY <1>10, <1>11

LEMMA FirstInvariance ==
  ProgramsDeal /\ Spec => []FirstInv
<1>1. ProgramsDeal /\ Init => FirstInv
  <2> SUFFICES ASSUME ProgramsDeal, Init
               PROVE  FirstInv
    OBVIOUS
  <2>1. PICK mail \in [Parties -> [Nat -> WordSet]] : TRUE
    BY Zeros
  <2> QED
    BY <2>1, Begins DEF FirstInv
<1>2. FirstInv /\ [Next]_vars => FirstInv'
  BY FirstStep
<1> QED
  BY <1>1, <1>2, PTL DEF Spec

\* The parties keep to words, whichever messages are altered.
THEOREM TypeCorrectness ==
  (\A instrs \in Programs : DealsItself(instrs)) /\ Spec => []TypeOK
<1>1. FirstInv => TypeOK
  <2> SUFFICES ASSUME FirstInv
               PROVE  TypeOK
    OBVIOUS
  <2>1. Types /\ Counts
    BY DEF FirstInv
  <2>2. program \in Programs /\ pc \in [Parties -> 1 .. Len(program) + 1]
    <3>1. \A p \in Parties : pc[p] \in 1 .. Len(program) + 1
      <4>1. ASSUME NEW p \in Parties
            PROVE  pc[p] \in 1 .. Len(program) + 1
        <5>1. /\ Len(program) \in Nat /\ pc[p] \in Nat /\ pc[p] >= 2
              /\ pc[p] <= Len(program) + 1
          BY <2>1, Ranges DEF Counts
        <5> QED
          BY <5>1
      <4> QED
        BY <4>1
    <3> QED
      BY <2>1, <3>1 DEF Types
  <2>3. \A link \in Parties \X Parties : \A n \in DOMAIN net[link] : net[link][n] \in WordSet
    <3>1. \A link \in Parties \X Parties : net[link] \in Seq(WordSet)
      BY <2>1 DEF Types, Links
    <3> QED
      BY <3>1
  <2>4. /\ sending \in [Parties -> Parties \cup {NoParty}]
        /\ receiving \in [Parties -> Parties \cup {NoParty}]
    BY <2>1 DEF Types
  <2>5. ASSUME NEW p \in Parties
        PROVE  /\ calls[p] \in Nat
               /\ \A n \in DOMAIN got[p] : got[p][n] \in WordSet
               /\ \A k \in DOMAIN regs[p] :
                    \/ /\ regs[p][k].kind = "open"
                       /\ regs[p][k].shares \in [1 .. 1 -> WordSet]
                    \/ /\ regs[p][k].kind \in {"a", "b"}
                       /\ regs[p][k].shares \in [1 .. 3 -> WordSet]
               /\ Len(dealt[p]) \in {0, PartiesNum}
    <3>1. /\ calls[p] \in Nat /\ got[p] \in Seq(WordSet) /\ regs[p] \in Seq(Registers)
          /\ dealt[p] \in Deals \cup {<<>>}
      BY <2>1 DEF Types
    <3>2. \A n \in DOMAIN got[p] : got[p][n] \in WordSet
      BY <3>1
    <3>3. \A k \in DOMAIN regs[p] : regs[p][k] \in Registers
      BY <3>1
    <3>4. \A k \in DOMAIN regs[p] :
            \/ /\ regs[p][k].kind = "open"
               /\ regs[p][k].shares \in [1 .. 1 -> WordSet]
            \/ /\ regs[p][k].kind \in {"a", "b"}
               /\ regs[p][k].shares \in [1 .. 3 -> WordSet]
      BY <3>3 DEF Registers, Held3, Replication
    <3>5. Len(dealt[p]) \in {0, PartiesNum}
      <4>1. \A d \in Deals : Len(d) = 4
        BY DEF Deals
      <4> QED
        BY <3>1, <4>1, FourPartiesAssumption
    <3> QED
      BY <3>1, <3>2, <3>4, <3>5
  <2>6. \A k \in DOMAIN plain : plain[k] \in WordSet \cup {Unknown}
    <3>1. plain \in Seq(WordSet \cup {Unknown})
      BY <2>1 DEF Types
    <3> QED
      BY <3>1
  <2>7. accused \subseteq Parties /\ altered \in 0 .. MaxAltered
    BY <2>1 DEF Types
  <2> QED
    BY <2>2, <2>3, <2>4, <2>5, <2>6, <2>7 DEF TypeOK, ProtocolTypeOK
<1> QED
  BY <1>1, FirstInvariance, PTL DEF ProgramsDeal

\* When all parties are done, everything that was sent has been heard.
THEOREM NothingLeft ==
  (\A instrs \in Programs : DealsItself(instrs)) /\ Spec => []NoMessageLeft
<1>1. FirstInv => NoMessageLeft
  <2> SUFFICES ASSUME FirstInv, AllDone, NEW link \in Parties \X Parties
               PROVE  net[link] = <<>>
    BY DEF NoMessageLeft, NetEmpty
  <2>1. Types /\ Counts
    BY DEF FirstInv
  <2>2. PICK mail : MailInv(mail)
    BY DEF FirstInv
  <2>3. PICK p \in Parties, q \in Parties : link = <<p, q>>
    OBVIOUS
  <2>4. LinkInv(mail, p, q) /\ CountInv(q)
    BY <2>1, <2>2 DEF MailInv, Counts
  <2>5. HearPos(q) = 16 * (Len(program) + 1) /\ program \in Programs /\ DealsItself(program)
    <3>1. ~Active(q) /\ pc[q] > Len(program)
      <4>1. pc[q] > Len(program)
        BY DEF AllDone, Done
      <4>2. pc[q] \in Nat /\ Len(program) \in Nat
        BY <2>1, <2>4, Ranges
      <4> QED
        BY <4>1, <4>2 DEF Active
    <3>2. /\ pc[q] = Len(program) + 1 /\ calls[q] = 0 /\ receiving[q] = NoParty
          /\ program \in Programs /\ DealsItself(program)
      BY <2>1, <2>4, <3>1, Ranges
    <3> QED
      BY <3>2 DEF HearPos, Completed
  <2>6. \A s \in Slots(p, q) : ~(HearPos(q) <= s)
    <3>1. ASSUME NEW s \in Slots(p, q)
          PROVE  ~(16 * (Len(program) + 1) <= s)
      <4>1. PICK k \in 2 .. Len(program), n \in 0 .. 4 : s = 16 * k + n
        BY <2>5, SlotFacts
      <4>2. Len(program) \in Nat
        BY <2>5, Instructions
      <4> QED
        BY <4>1, <4>2
    <3> QED
      BY <2>5, <3>1
  <2>7. Pending(Slots(p, q), SendsAt(q), HearPos(q), SendPos(p)) = {}
    BY <2>6 DEF Pending
  <2>8. net[<<p, q>>] \in Seq(WordSet)
    BY <2>1 DEF Types, Links
  <2> QED
    BY <2>3, <2>4, <2>7, <2>8, InOrderEmpty DEF LinkInv, Carries
<1> QED
  BY <1>1, FirstInvariance, PTL DEF ProgramsDeal

-----------------------------------------------------------------------------
(* Steps, as far as the words are concerned.                               *)

SameUpTo(L, truth2, truth) == \A j \in 1 .. L : truth2[j] = truth[j]

SaidAlike(truth2, truth, k) == \A q, n : Said(truth2, k, q, n) = Said(truth, k, q, n)

\* Nothing but the results of its operands matters to a result and its messages.
LEMMA ValueStable ==
  ASSUME program \in Programs, NEW truth, NEW truth2, NEW L \in Nat,
         SameUpTo(L, truth2, truth), NEW k \in 1 .. Len(program), k - 1 <= L
  PROVE  /\ program[k].op \notin ShareOps => Value(truth2, k) = Value(truth, k)
         /\ program[k].op \notin ShareOps \cup LocalOps \/ (program[k].op \in ShareOps /\ k <= L) =>
              SaidAlike(truth2, truth, k)
<1> DEFINE op == program[k].op
           x == program[k].x
           y == program[k].y
<1>1. /\ op \in Operations /\ Len(program) \in Nat
      /\ op \notin ShareOps => x \in 1 .. k - 1
      /\ op \in BinaryOps \cup MultiplyOps => y \in 1 .. k - 1
  BY Instructions
<1>2. \A j \in 1 .. k - 1 : truth2[j] = truth[j]
  BY <1>1 DEF SameUpTo
<1>3. op \notin ShareOps => truth2[x] = truth[x]
  BY <1>1, <1>2
<1>4. op \in BinaryOps \cup MultiplyOps => truth2[y] = truth[y]
  BY <1>1, <1>2
<1>5. ASSUME op \in ShareOps, k <= L
      PROVE  \A q, n : Said(truth2, k, q, n) = Said(truth, k, q, n)
  <2>1. truth2[k] = truth[k]
    BY <1>1, <1>5 DEF SameUpTo
  <2>2. op \notin MultiplyOps /\ op \notin OpenOps \cup {"b2a_bit"} /\ op \notin InpOps
    BY <1>1, <1>5, Classes
  <2> QED
    BY <2>1, <2>2 DEF Said
<1>6. ASSUME op \in LocalOps
      PROVE  Value(truth2, k) = Value(truth, k)
  <2>1. op \notin ShareOps
    BY <1>1, <1>6, Classes
  <2>2. truth2[x] = truth[x]
    BY <1>3, <2>1
  <2>3. CASE op \in BinaryOps
    <3>1. truth2[y] = truth[y]
      BY <1>4, <2>3
    <3> QED
      BY <1>6, <2>2, <2>3, <3>1 DEF Value
  <2>4. CASE op \notin BinaryOps
    BY <1>6, <2>2, <2>4 DEF Value
  <2> QED
    BY <2>3, <2>4
<1>7. ASSUME op \in MultiplyOps
      PROVE  /\ Value(truth2, k) = Value(truth, k)
             /\ \A q, n : Said(truth2, k, q, n) = Said(truth, k, q, n)
  <2>1. op \notin ShareOps /\ op \notin LocalOps
    BY <1>1, <1>7, Classes
  <2>2. truth2[x] = truth[x] /\ truth2[y] = truth[y]
    BY <1>3, <1>4, <1>7, <2>1
  <2>3. Value(truth2, k) = Value(truth, k)
    BY <1>7, <2>1, <2>2 DEF Value
  <2> QED
    BY <1>7, <2>2, <2>3 DEF Said
<1>8. ASSUME op \in OpenOps \cup {"b2a_bit"} \/ op \in InpOps
      PROVE  /\ Value(truth2, k) = Value(truth, k)
             /\ \A q, n : Said(truth2, k, q, n) = Said(truth, k, q, n)
  <2>1. op \notin ShareOps /\ op \notin LocalOps /\ op \notin MultiplyOps
    BY <1>1, <1>8, Classes
  <2>2. truth2[x] = truth[x]
    BY <1>3, <2>1
  <2>3. Value(truth2, k) = Value(truth, k)
    BY <2>1, <2>2 DEF Value
  <2>4. \A q, n : Said(truth2, k, q, n) = Said(truth, k, q, n)
    BY <1>8, <2>1, <2>2 DEF Said
  <2> QED
    BY <2>3, <2>4
<1> QED
  BY <1>1, <1>5, <1>6, <1>7, <1>8, Classes DEF SaidAlike

LEMMA SameWords ==
  ASSUME program' = program
  PROVE  /\ \A truth, k : Value(truth, k)' = Value(truth, k)
         /\ \A truth, k, q, n : Said(truth, k, q, n)' = Said(truth, k, q, n)
BY DEF Value, Said

LEMMA KnownWords ==
  ASSUME NEW u \in WordSet, NEW v \in WordSet, NEW c \in Divisor, NEW i \in {1, 2}
  PROVE  LET sum  == Signed(Wrap(u + v))
             part == DivisionParts(4, sum, sum, c)[i]
         IN  /\ Wrap(sum) \in WordSet /\ Wrap(part.quotient) \in WordSet
             /\ Wrap(part.error) \in WordSet
<1> DEFINE word == Wrap(u + v)
           sum == Signed(word)
           parts == DivisionParts(4, sum, sum, c)
<1>1. word \in WordSet
  <2>1. u \in Nat /\ v \in Nat
    BY Closure
  <2>2. u + v \in Int
    BY <2>1
  <2> QED
    BY <2>2, WordsAreClosed
<1>2. sum \in Range /\ sum \in Int
  BY <1>1, SignedWord, HalfPower DEF Range
<1>3. \A k \in {1, 2} : parts[k].quotient \in Int /\ parts[k].error \in Int
  BY <1>2, PartsAreNumbers
<1> HIDE DEF word, sum, parts
<1>4. Wrap(sum) \in WordSet /\ Wrap(parts[i].quotient) \in WordSet /\ Wrap(parts[i].error) \in WordSet
  BY <1>2, <1>3, WordsAreClosed
<1> QED
  BY <1>4 DEF word, sum, parts

LEMMA InpWordIsWord ==
  ASSUME NEW instr, instr.op \in InpOps, IsRoles(instr.roles), instr.c \in Divisor,
         instr.vector \in {"sum", "quotient", "error"}, NEW x \in Secrets
  PROVE  InpWord(instr, x) \in WordSet
<1> DEFINE r == instr.roles
           u == x[Relative(r.i, 1)]
           v == x[Relative(r.i, 2)]
           n == IF r.i = 0 THEN 1 ELSE 2
           sum == Signed(Wrap(u + v))
           part == DivisionParts(4, sum, sum, instr.c)[n]
<1>1. Relative(r.i, 1) \in 0 .. 3 /\ Relative(r.i, 2) \in 0 .. 3
  BY Around DEF IsRoles
<1>2. u \in WordSet /\ v \in WordSet
  BY <1>1 DEF Secrets
<1>3. Wrap(sum) \in WordSet /\ Wrap(part.quotient) \in WordSet /\ Wrap(part.error) \in WordSet
  BY <1>2, KnownWords
<1>4. KnownWord(instr, x) = CASE instr.vector = "sum"      -> Wrap(sum)
                              [] instr.vector = "quotient" -> Wrap(part.quotient)
                              [] instr.vector = "error"    -> Wrap(part.error)
  BY DEF KnownWord
<1> HIDE DEF sum, part, u, v, n
<1>5. KnownWord(instr, x) \in WordSet
  BY <1>3, <1>4
<1> QED
  BY <1>5, Closure DEF InpWord, ZeroShare

LEMMA Turns ==
  \A p \in Parties :
    /\ \A n \in 1 .. 3 : Relative(p, n) \in 0 .. 3
    /\ p \in 0 .. 3
BY Around

LEMMA ProductIsWord ==
  ASSUME NEW kind, NEW x \in Secrets, NEW y \in Secrets
  PROVE  /\ \A s, t \in 0 .. 3 : CrossTerm(kind, x, y, s, t) \in WordSet
         /\ \A s \in 0 .. 3 : ProductWord(kind, x, y, s) \in WordSet
<1>1. \A s \in 0 .. 3 : x[s] \in WordSet /\ y[s] \in WordSet
  BY DEF Secrets
<1>2. \A u, v \in WordSet : Plus(kind, u, v) \in WordSet /\ Times(kind, u, v) \in WordSet
  BY Closure
<1>3. \A s, t \in 0 .. 3 : Times(kind, x[s], y[t]) \in WordSet
  BY <1>1, <1>2
<1>4. \A s, t \in 0 .. 3 : CrossTerm(kind, x, y, s, t) \in WordSet
  BY <1>2, <1>3 DEF CrossTerm
<1>5. ASSUME NEW s \in 0 .. 3
      PROVE  ProductWord(kind, x, y, s) \in WordSet
  <2>1. Relative(s, 1) \in 0 .. 3 /\ Relative(s, 2) \in 0 .. 3
    BY Turns, Around
  <2>2. PICK a, b, c : /\ a = Times(kind, x[s], y[s])
                       /\ b = CrossTerm(kind, x, y, s, Relative(s, 1))
                       /\ c = CrossTerm(kind, x, y, s, Relative(s, 2))
    OBVIOUS
  <2>3. a \in WordSet /\ b \in WordSet /\ c \in WordSet
    BY <1>3, <1>4, <2>1, <2>2
  <2>4. Plus(kind, a, b) \in WordSet /\ Plus(kind, Plus(kind, a, b), c) \in WordSet
    BY <1>2, <2>3
  <2>5. ProductWord(kind, x, y, s)
          = IF s \in {0, 1} THEN Plus(kind, Plus(kind, a, b), c) ELSE Plus(kind, a, b)
    BY <2>2 DEF ProductWord
  <2> QED
    BY <2>4, <2>5
<1> QED
  BY <1>4, <1>5

LEMMA LocalIsWord ==
  ASSUME NEW op \in LocalOps, NEW s \in 0 .. 3, NEW u \in WordSet, NEW v \in WordSet
  PROVE  LocalWord(op, s, u, v) \in WordSet
<1>1. u \in Nat /\ v \in Nat
  BY Closure
<1>2. u + v \in Int /\ u - v \in Int /\ -u \in Int
  BY <1>1
<1>3. /\ Wrap(u + v) \in WordSet /\ Wrap(u - v) \in WordSet /\ Wrap(-u) \in WordSet
      /\ Xor(u, v) \in WordSet /\ Not(u) \in WordSet
      /\ Truth(u = 0) \in WordSet /\ Truth(Signed(u) < 0) \in WordSet
  BY <1>2, WordsAreClosed
<1> QED
  BY <1>3 DEF LocalWord, LocalOps, UnaryOps, BinaryOps

LEMMA SumIsWord ==
  ASSUME NEW kind, NEW x \in Secrets
  PROVE  Sum(kind, x) \in WordSet
<1>1. x[0] \in WordSet /\ x[1] \in WordSet /\ x[2] \in WordSet /\ x[3] \in WordSet
  BY DEF Secrets
<1> QED
  BY <1>1, Closure DEF Sum

LEMMA LowBitsAre ==
  ASSUME NEW x \in Secrets
  PROVE  /\ [s \in 0 .. 3 |-> LowBit(x[s])] \in Secrets
         /\ OpenedBit(x) \in WordSet /\ LowBit(OpenedBit(x)) \in WordSet
<1>1. [s \in 0 .. 3 |-> LowBit(x[s])] \in Secrets
  BY Closure DEF Secrets
<1>2. OpenedBit(x) \in WordSet
  BY <1>1, SumIsWord DEF OpenedBit
<1> QED
  BY <1>1, <1>2, Closure

LEMMA ValueIsSecret ==
  ASSUME program \in Programs, NEW k \in 1 .. Len(program), NEW truth,
         \A j \in 1 .. k - 1 : truth[j] \in Secrets, program[k].op \notin ShareOps
  PROVE  Value(truth, k) \in Secrets
<1> DEFINE instr == program[k]
           op == instr.op
           x == truth[instr.x]
           y == truth[instr.y]
<1>1. /\ op \in Operations
      /\ instr.x \in 1 .. k - 1
      /\ op \in BinaryOps \cup MultiplyOps => instr.y \in 1 .. k - 1
      /\ op \in InpOps => /\ IsRoles(instr.roles) /\ instr.c \in Divisor
                          /\ instr.vector \in {"sum", "quotient", "error"}
  BY Instructions DEF InpOps
<1>2. x \in Secrets /\ (op \in BinaryOps \cup MultiplyOps => y \in Secrets)
  BY <1>1
<1>3. 0 \in WordSet
  BY Closure
<1>4. CASE op \in LocalOps
  <2>1. Value(truth, k)
          = [s \in 0 .. 3 |-> LocalWord(op, s, x[s], IF op \in BinaryOps THEN y[s] ELSE 0)]
    BY <1>4 DEF Value
  <2>2. \A s \in 0 .. 3 : LocalWord(op, s, x[s], IF op \in BinaryOps THEN y[s] ELSE 0) \in WordSet
    <3>1. \A s \in 0 .. 3 : x[s] \in WordSet /\ (IF op \in BinaryOps THEN y[s] ELSE 0) \in WordSet
      BY <1>2, <1>3 DEF Secrets
    <3> QED
      BY <1>4, <3>1, LocalIsWord
  <2> QED
    BY <2>1, <2>2 DEF Secrets
<1>5. CASE op \in MultiplyOps
  <2>1. op \notin LocalOps
    BY <1>1, <1>5, Classes
  <2>2. Value(truth, k) = [s \in 0 .. 3 |-> ProductWord(Kind(op), x, y, s)]
    BY <1>5, <2>1 DEF Value
  <2>3. \A s \in 0 .. 3 : ProductWord(Kind(op), x, y, s) \in WordSet
    BY <1>2, <1>5, ProductIsWord
  <2> QED
    BY <2>2, <2>3 DEF Secrets
<1>6. CASE op \in InpOps
  <2>1. op \notin LocalOps /\ op \notin MultiplyOps
    BY <1>1, <1>6, Classes
  <2>2. Value(truth, k)
          = [s \in 0 .. 3 |-> IF s = Relative(instr.roles.i, 2) THEN InpWord(instr, x) ELSE 0]
    BY <1>6, <2>1 DEF Value
  <2>3. InpWord(instr, x) \in WordSet
    BY <1>1, <1>2, <1>6, InpWordIsWord
  <2> QED
    BY <1>3, <2>2, <2>3 DEF Secrets
<1>7. CASE op \in OpenOps \cup {"b2a_bit"}
  <2>1. op \notin LocalOps /\ op \notin MultiplyOps /\ op \notin InpOps
    BY <1>1, <1>7, Classes
  <2>2. CASE op = "b2a_bit"
    <3>1. Value(truth, k) = [s \in 0 .. 3 |-> IF s = 1 THEN LowBit(OpenedBit(x)) ELSE 0]
      BY <2>1, <2>2 DEF Value
    <3> QED
      BY <1>2, <1>3, <3>1, LowBitsAre DEF Secrets
  <2>3. CASE op # "b2a_bit"
    BY <1>2, <2>1, <2>3 DEF Value
  <2> QED
    BY <2>2, <2>3
<1> QED
  BY <1>1, <1>4, <1>5, <1>6, <1>7, Classes

LEMMA TruthRange ==
  ASSUME Types, Counts, PlainInv
  PROVE  Len(plain) \in Nat /\ Len(program) \in Nat /\ Len(plain) <= Len(program)
<1>1. PICK p \in Parties : Reached(p) = Len(plain)
  BY DEF PlainInv
<1>2. CountInv(p)
  BY DEF Counts
<1>3. /\ Len(regs[p]) \in Nat /\ Len(regs[p]) = pc[p] - 1 /\ pc[p] \in Nat /\ Len(plain) \in Nat
      /\ Reached(p) = IF dealt[p] = <<>> THEN Len(regs[p]) ELSE Len(regs[p]) + 1
  BY RegsPlain
<1>4. Len(program) \in Nat /\ pc[p] <= Len(program) + 1
  BY <1>2, Ranges
<1>5. dealt[p] # <<>> => pc[p] <= Len(program)
  BY <1>2 DEF CountInv, Active
<1> QED
  BY <1>1, <1>3, <1>4, <1>5

\* The operands are parts of secrets.
LEMMA OperandWords ==
  ASSUME Types, Counts, PlainInv, NEW truth, TruthInv(truth),
         NEW p \in Parties, Active(p), Instr(p).op \notin ShareOps
  PROVE  /\ truth[Instr(p).x] \in Secrets
         /\ \A n \in Replication : X(p)[n] = truth[Instr(p).x][Relative(p, n)]
         /\ Instr(p).op \in BinaryOps \cup MultiplyOps =>
              /\ truth[Instr(p).y] \in Secrets
              /\ \A n \in Replication : Y(p)[n] = truth[Instr(p).y][Relative(p, n)]
<1>1. /\ truth \in Seq(Secrets) /\ Len(truth) = Len(plain) /\ HeldInv(truth, p)
  BY DEF TruthInv
<1>2. ASSUME NEW j \in 1 .. Len(regs[p]), j \in 1 .. Len(plain), regs[p][j].kind # "open"
      PROVE  /\ truth[j] \in Secrets
             /\ \A n \in Replication : regs[p][j].shares[n] = truth[j][Relative(p, n)]
  <2>1. truth[j] \in Secrets
    BY <1>1, <1>2
  <2>2. regs[p][j].shares = Share(truth[j], p)
    BY <1>1, <1>2 DEF HeldInv, HeldAs
  <2> QED
    BY <2>1, <2>2 DEF Share
<1> QED
  BY <1>2, Operand DEF X, Y

LEMMA CrossCommutes ==
  ASSUME NEW kind, NEW x \in Secrets, NEW y \in Secrets, NEW s \in 0 .. 3, NEW t \in 0 .. 3
  PROVE  CrossTerm(kind, x, y, s, t) = CrossTerm(kind, x, y, t, s)
<1>1. x[s] \in WordSet /\ x[t] \in WordSet /\ y[s] \in WordSet /\ y[t] \in WordSet
  BY DEF Secrets
<1>2. Times(kind, x[s], y[t]) \in WordSet /\ Times(kind, x[t], y[s]) \in WordSet
  BY <1>1, Closure
<1>3. \A u, v \in WordSet : Plus(kind, u, v) = Plus(kind, v, u)
  BY PlusRules
<1> QED
  BY <1>2, <1>3 DEF CrossTerm

LEMMA CrossIs ==
  ASSUME NEW p \in Parties, NEW x, NEW y,
         \A n \in Replication : X(p)[n] = x[Relative(p, n)] /\ Y(p)[n] = y[Relative(p, n)]
  PROVE  \A i, j \in Replication :
           Cross(p, i, j) = CrossTerm(Kind(Instr(p).op), x, y, Relative(p, i), Relative(p, j))
BY DEF Cross, CrossTerm

LEMMA KnownIs ==
  ASSUME Types, Counts, PlainInv, NEW truth, TruthInv(truth), NEW p \in Parties, Active(p),
         Instr(p).op \in InpOps, p \in {Instr(p).roles.i, Instr(p).roles.j}
  PROVE  InpShare(p) = InpWord(Instr(p), truth[Instr(p).x])
<1> DEFINE x == truth[Instr(p).x]
           r == Instr(p).roles
<1>1. Instr(p).op \notin ShareOps
  BY DEF InpOps, ShareOps
<1>2. IsRoles(r)
  <2>1. CountInv(p)
    BY DEF Counts
  <2>2. pc[p] \in 1 .. Len(program) /\ program \in Programs
    BY <2>1, Ranges
  <2> QED
    BY <2>2, Instructions DEF Instr
<1>3. /\ X(p)[1] = x[Relative(p, 1)] /\ X(p)[2] = x[Relative(p, 2)] /\ X(p)[3] = x[Relative(p, 3)]
  BY <1>1, OperandWords DEF Replication
<1>4. /\ (IF p \in {0, 2} THEN X(p)[1] + X(p)[2] ELSE X(p)[2] + X(p)[3])
           = x[Relative(r.i, 1)] + x[Relative(r.i, 2)]
      /\ p \in {0, 3} <=> r.i = 0
  BY <1>2, <1>3, Around DEF IsRoles
<1>5. (IF p \in {0, 2} THEN Wrap(X(p)[1] + X(p)[2]) ELSE Wrap(X(p)[2] + X(p)[3]))
           = Wrap(x[Relative(r.i, 1)] + x[Relative(r.i, 2)])
  BY <1>4
<1>6. Known(p) = KnownWord(Instr(p), x)
  <2>1. PICK sum : sum = Signed(Wrap(x[Relative(r.i, 1)] + x[Relative(r.i, 2)]))
    OBVIOUS
  <2>2. sum = Signed(IF p \in {0, 2} THEN Wrap(X(p)[1] + X(p)[2]) ELSE Wrap(X(p)[2] + X(p)[3]))
    BY <1>5, <2>1
  <2>3. PICK parts : parts = DivisionParts(4, sum, sum, Instr(p).c)
    OBVIOUS
  <2>4. Known(p) = CASE Instr(p).vector = "sum" -> Wrap(sum)
                     [] Instr(p).vector = "quotient"
                          -> Wrap((IF p \in {0, 3} THEN parts[1] ELSE parts[2]).quotient)
                     [] Instr(p).vector = "error"
                          -> Wrap((IF p \in {0, 3} THEN parts[1] ELSE parts[2]).error)
    BY <2>2, <2>3, Zenon DEF Known
  <2>5. KnownWord(Instr(p), x)
           = CASE Instr(p).vector = "sum" -> Wrap(sum)
               [] Instr(p).vector = "quotient"
                    -> Wrap((IF r.i = 0 THEN parts[1] ELSE parts[2]).quotient)
               [] Instr(p).vector = "error"
                    -> Wrap((IF r.i = 0 THEN parts[1] ELSE parts[2]).error)
    BY <2>1, <2>3, Zenon DEF KnownWord
  <2>6. (IF p \in {0, 3} THEN parts[1] ELSE parts[2]) = (IF r.i = 0 THEN parts[1] ELSE parts[2])
    BY <1>4
  <2> QED
    BY <2>4, <2>5, <2>6, Zenon
<1> QED
  BY <1>6 DEF InpShare, InpWord

\* What a party sends is what its receiver should hear.
LEMMA MessageIsSaid ==
  ASSUME Types, Counts, PlainInv, NEW truth, TruthInv(truth),
         NEW p \in Parties, MayCall(p), NextTo(p) # NoParty
  PROVE  Message(p) = Said(truth, pc[p], NextTo(p), HeardAs(pc[p], p, calls[p]))
<1> DEFINE op == Instr(p).op
           x == truth[Instr(p).x]
           y == truth[Instr(p).y]
           q == NextTo(p)
<1>1. Active(p) /\ CountInv(p) /\ calls[p] < Calls(pc[p], p)
  BY DEF MayCall, Counts
<1>2. /\ program \in Programs /\ DealsItself(program) /\ pc[p] \in 1 .. Len(program)
      /\ calls[p] \in 0 .. 9
  BY <1>1, Ranges
<1>3. op \in Operations /\ program[pc[p]].op = op /\ program[pc[p]] = Instr(p)
  BY <1>2, Instructions DEF Instr
<1>4. CASE op \in MultiplyOps
  <2>1. op \notin ShareOps /\ op \in BinaryOps \cup MultiplyOps
    BY <1>3, <1>4, Classes
  <2>2. /\ x \in Secrets /\ y \in Secrets
        /\ \A n \in Replication : X(p)[n] = x[Relative(p, n)] /\ Y(p)[n] = y[Relative(p, n)]
    BY <1>1, <2>1, OperandWords
  <2>3. \A i, j \in Replication :
          Cross(p, i, j) = CrossTerm(Kind(op), x, y, Relative(p, i), Relative(p, j))
    BY <2>2, CrossIs
  <2>4. \A s, t \in 0 .. 3 : CrossTerm(Kind(op), x, y, s, t) = CrossTerm(Kind(op), x, y, t, s)
    BY <2>2, CrossCommutes
  <2>5. /\ q = (IF calls[p] = 0 THEN Relative(p, 2) ELSE IF calls[p] = 1 THEN Relative(p, 3)
                ELSE IF calls[p] = 2 THEN Opposite(p) ELSE NoParty)
        /\ HeardAs(pc[p], p, calls[p])
             = (IF calls[p] = 2 THEN (IF p \in {0, 3} THEN 3 ELSE 4) ELSE calls[p])
    BY <1>3, <1>4 DEF NextTo, To, HeardAs
  <2>6. calls[p] \in {0, 1, 2}
    BY <1>2, <2>5
  <2>7. Message(p) = CrossTerm(Kind(op), x, y,
                       IF calls[p] = 1 THEN Relative(p, 2) ELSE Relative(p, 1),
                       IF calls[p] = 0 THEN Relative(p, 2) ELSE Relative(p, 3))
    BY <1>4, <2>3, <2>6 DEF Message, Replication
  <2>8. Said(truth, pc[p], q, HeardAs(pc[p], p, calls[p])) =
          IF calls[p] <= 1 THEN CrossTerm(Kind(op), x, y, Relative(q, 3), q)
          ELSE CrossTerm(Kind(op), x, y, q, Relative(q, 2))
    BY <1>3, <1>4, <2>5, <2>6 DEF Said
  <2>9. CASE calls[p] = 0
    <3>1. q = Relative(p, 2) /\ Relative(q, 3) = Relative(p, 1)
      BY <2>5, <2>9, Around
    <3>2. Message(p) = CrossTerm(Kind(op), x, y, Relative(p, 1), Relative(p, 2))
      BY <2>7, <2>9
    <3>3. Said(truth, pc[p], q, HeardAs(pc[p], p, calls[p]))
            = CrossTerm(Kind(op), x, y, Relative(q, 3), q)
      BY <2>8, <2>9
    <3> HIDE DEF op, x, y
    <3> QED
      BY <3>1, <3>2, <3>3
  <2>10. CASE calls[p] = 1
    <3>1. q = Relative(p, 3) /\ Relative(q, 3) = Relative(p, 2)
      BY <2>5, <2>10, Around
    <3>2. Message(p) = CrossTerm(Kind(op), x, y, Relative(p, 2), Relative(p, 3))
      BY <2>7, <2>10
    <3>3. Said(truth, pc[p], q, HeardAs(pc[p], p, calls[p]))
            = CrossTerm(Kind(op), x, y, Relative(q, 3), q)
      BY <2>8, <2>10
    <3> HIDE DEF op, x, y
    <3> QED
      BY <3>1, <3>2, <3>3
  <2>11. CASE calls[p] = 2
    <3>1. \/ q = Relative(p, 1) /\ Relative(q, 2) = Relative(p, 3)
          \/ q = Relative(p, 3) /\ Relative(q, 2) = Relative(p, 1)
      BY <2>5, <2>11, Around DEF Opposite
    <3>2. Relative(p, 1) \in 0 .. 3 /\ Relative(p, 3) \in 0 .. 3
      BY Turns
    <3>3. Message(p) = CrossTerm(Kind(op), x, y, Relative(p, 1), Relative(p, 3))
      BY <2>7, <2>11
    <3>4. Said(truth, pc[p], q, HeardAs(pc[p], p, calls[p]))
            = CrossTerm(Kind(op), x, y, q, Relative(q, 2))
      BY <2>8, <2>11
    <3> HIDE DEF op, x, y
    <3> QED
      BY <2>4, <3>1, <3>2, <3>3, <3>4
  <2> QED
    BY <2>6, <2>9, <2>10, <2>11
<1>5. CASE op \in OpenOps \cup {"b2a_bit"}
  <2>1. op \notin ShareOps /\ op \notin MultiplyOps
    BY <1>3, <1>5, Classes
  <2>2. X(p)[1] = x[Relative(p, 1)]
    BY <1>1, <2>1, OperandWords DEF Replication
  <2>3. q = Relative(p, 1)
    BY <1>3, <1>5, <2>1 DEF NextTo, To
  <2>4. CASE op \in OpenOps
    BY <1>3, <2>1, <2>2, <2>3, <2>4 DEF Message, Said
  <2>5. CASE op = "b2a_bit"
    <3>1. op \notin OpenOps
      BY <2>5 DEF OpenOps
    <3> QED
      BY <1>3, <2>1, <2>2, <2>3, <2>5, <3>1 DEF Message, Said
  <2> QED
    BY <1>5, <2>4, <2>5
<1>6. CASE op \in InpOps
  <2>1. op \notin MultiplyOps /\ op \notin OpenOps \cup {"b2a_bit"} /\ op \notin ShareOps
    BY <1>3, <1>6, Classes
  <2>2. p \in {Instr(p).roles.i, Instr(p).roles.j}
    BY <1>3, <2>1 DEF NextTo, To
  <2>3. InpShare(p) = InpWord(Instr(p), x)
    BY <1>1, <1>6, <2>2, KnownIs
  <2> QED
    BY <1>3, <1>6, <2>1, <2>3 DEF Message, Said
<1>7. CASE op \in ShareOps
  <2>1. op \notin MultiplyOps /\ op \notin OpenOps \cup {"b2a_bit"} /\ op \notin InpOps
    BY <1>3, <1>7, Classes
  <2>2. p = 0 /\ q = (IF calls[p] < 3 THEN 1 ELSE IF calls[p] < 6 THEN 2
                      ELSE IF calls[p] < 9 THEN 3 ELSE NoParty)
    BY <1>3, <1>7, <2>1 DEF NextTo, To
  <2>3. calls[p] \in 0 .. 8
    BY <1>2, <2>2
  <2>4. HeardAs(pc[p], p, calls[p])
          = IF calls[p] < 3 THEN calls[p] ELSE IF calls[p] < 6 THEN calls[p] - 3 ELSE calls[p] - 6
    BY <1>3, <1>7, <2>1 DEF HeardAs
  <2>5. PICK c \in 0 .. 8 : c = calls[p]
    BY <2>3
  <2>6. PICK n : n = HeardAs(pc[p], p, calls[p])
    OBVIOUS
  <2>7. (c \div 3) + 2 = q + 1 /\ (c % 3) + 1 = n + 1 /\ n + 1 \in Replication /\ q \in Parties
    <3>1. q = (IF c < 3 THEN 1 ELSE IF c < 6 THEN 2 ELSE 3)
          /\ n = (IF c < 3 THEN c ELSE IF c < 6 THEN c - 3 ELSE c - 6)
      BY <2>2, <2>4, <2>5, <2>6
    <3> HIDE DEF q
    <3>2. q \in {1, 2, 3} /\ q \in Parties
      BY <3>1, Around
    <3> QED
      BY <3>1, <3>2 DEF Replication
  <2>8. Message(p) = dealt[0][q + 1][n + 1]
    BY <2>1, <2>2, <2>5, <2>7 DEF Message
  <2>9. dealt[0] # <<>>
    BY <1>7, <2>2 DEF MayCall
  <2>10. dealt[0][q + 1] = Share(truth[pc[0]], q)
    BY <2>7, <2>9 DEF TruthInv
  <2>11. dealt[0][q + 1][n + 1] = truth[pc[p]][Relative(q, n + 1)]
    BY <2>2, <2>7, <2>10 DEF Share
  <2>12. Said(truth, pc[p], q, n) = truth[pc[p]][Relative(q, n + 1)]
    BY <1>3, <2>1 DEF Said
  <2> QED
    BY <2>6, <2>8, <2>11, <2>12
<1>8. op \notin LocalOps
  <2>1. op \in LocalOps => q = NoParty
    BY <1>3, Classes DEF NextTo, To
  <2> QED
    BY <2>1
<1> QED
  BY <1>3, <1>4, <1>5, <1>6, <1>7, <1>8, Classes

\* What a party has heard is what it should, but for the message altered.
LEMMA GotIsSaid ==
  ASSUME Types, Counts, NEW mail, MailInv(mail), NEW truth, NEW bad, SaidInv(mail, truth, bad),
         NEW p \in Parties, Active(p), NEW n \in 0 .. 4, n < Completed(p),
         From(pc[p], p, n) # NoParty, <<p, 16 * pc[p] + n>> # bad
  PROVE  got[p][Gets(pc[p], p, n) + 1] = Said(truth, pc[p], p, n)
<1>1. CountInv(p) /\ GotInv(mail, p)
  BY DEF Counts, MailInv
<1>2. /\ program \in Programs /\ DealsItself(program) /\ pc[p] \in 2 .. Len(program)
  BY <1>1, Ranges
<1>3. HearIsSent(pc[p], p, n)
  BY <1>2, SchedulePart
<1>4. PICK from \in Parties : from = From(pc[p], p, n)
  BY <1>3 DEF HearIsSent
<1>5. CountInv(from) /\ LinkInv(mail, from, p)
  BY DEF Counts, MailInv
<1>6. 16 * pc[p] + SentAs(pc[p], p, n) < SendPos(from)
  BY <1>1, <1>2, <1>4, <1>5, HeardIsSent
<1>7. mail[p][16 * pc[p] + n] = Said(truth, pc[p], p, n)
  BY <1>2, <1>4, <1>6 DEF SaidInv
<1>8. got[p][Gets(pc[p], p, n) + 1] = mail[p][16 * pc[p] + n]
  BY <1>1 DEF GotInv
<1> QED
  BY <1>7, <1>8

\* Only the operations that compare their messages get altered ones.
LEMMA BadIsCompared ==
  ASSUME Types, NEW p \in Parties, CountInv(p), Active(p), Trusted, NEW bad,
         altered = 0 => bad = Nowhere,
         Instr(p).op \notin LocalOps \cup MultiplyOps \cup InpOps, NEW s
  PROVE  <<p, s>> # bad
<1>1. pc[p] \in 2 .. Len(program)
  BY Ranges
<1>2. ~Compares(program)
  BY <1>1 DEF Compares, Instr
<1>3. bad = Nowhere
  BY <1>2 DEF Trusted
<1> QED
  BY <1>3, Around DEF Nowhere

LEMMA SharesRight ==
  ASSUME Types, Counts, PlainInv, NEW mail, MailInv(mail), NEW truth, TruthInv(truth),
         NEW bad, SaidInv(mail, truth, bad), altered = 0 => bad = Nowhere, Trusted,
         NEW p \in Parties, Complete(p), Instr(p).op \in ShareOps
  PROVE  /\ pc[p] <= Len(truth) /\ HeldAs(Outcome(p), Instr(p).op, truth[pc[p]], p)
<1> DEFINE op == Instr(p).op
           words == truth[pc[p]]
<1>1. /\ Active(p) /\ receiving[p] = NoParty /\ calls[p] = Calls(pc[p], p)
      /\ p = 0 => dealt[p] # <<>>
  BY DEF Complete, Returned
<1>2. /\ CountInv(p) /\ op \in Operations /\ Completed(p) = calls[p] /\ program[pc[p]].op = op
      /\ got[p] \in Seq(WordSet) /\ (p # 0 => Len(got[p]) = 3)
  BY CompleteGot DEF Instr
<1>3. /\ op \notin MultiplyOps /\ op \notin OpenOps \cup {"b2a_bit"} /\ op \notin InpOps
      /\ op \notin LocalOps
  BY <1>2, Classes
<1>4. pc[p] <= Len(truth)
  <2>1. pc[p] <= Len(plain)
    BY <1>1, SecretReached
  <2> QED
    BY <2>1 DEF TruthInv
<1>5. Outcome(p) = Result(Kind(op), IF p = 0 THEN dealt[p][1] ELSE got[p])
  BY <1>3 DEF Outcome, OpenOps
<1>6. p = 0 => dealt[p][1] = Share(words, p)
  <2>1. dealt[0] # <<>> => \A q \in Parties : dealt[0][q + 1] = Share(truth[pc[0]], q)
    BY DEF TruthInv
  <2>2. 0 \in Parties /\ 0 + 1 = 1
    BY Around
  <2>3. dealt[0] # <<>> => dealt[0][0 + 1] = Share(truth[pc[0]], 0)
    BY <2>1, <2>2
  <2> QED
    BY <1>1, <2>2, <2>3
<1>7. ASSUME p # 0
      PROVE  got[p] = Share(words, p)
  <2>1. calls[p] = 3
    BY <1>1, <1>2, <1>3, <1>7 DEF Calls
  <2>2. ASSUME NEW n \in 0 .. 2
        PROVE  got[p][n + 1] = words[Relative(p, n + 1)]
    <3>1. n \in 0 .. 4 /\ n < Completed(p)
      BY <1>2, <2>1
    <3>2. From(pc[p], p, n) # NoParty /\ Gets(pc[p], p, n) = n
      BY <1>2, <1>3, <1>7, Around DEF From, Gets
    <3>3. <<p, 16 * pc[p] + n>> # bad
      BY <1>1, <1>2, <1>3, BadIsCompared
    <3>4. got[p][n + 1] = Said(truth, pc[p], p, n)
      <4>1. got[p][Gets(pc[p], p, n) + 1] = Said(truth, pc[p], p, n)
        BY <1>1, <3>1, <3>2, <3>3, GotIsSaid
      <4> QED
        BY <3>2, <4>1
    <3> QED
      BY <1>2, <1>3, <3>4 DEF Said
  <2>3. got[p] \in [1 .. 3 -> WordSet]
    <3>1. got[p] \in [1 .. Len(got[p]) -> WordSet]
      BY <1>2
    <3> QED
      BY <1>2, <1>7, <3>1
  <2>4. \A n \in 1 .. 3 : got[p][n] = words[Relative(p, n)]
    <3>1. \A n \in 1 .. 3 : n - 1 \in 0 .. 2 /\ (n - 1) + 1 = n
      OBVIOUS
    <3> QED
      BY <2>2, <3>1
  <2> QED
    BY <2>3, <2>4 DEF Share, Replication
<1>8. Outcome(p).shares = Share(words, p) /\ Outcome(p).kind # "open"
  BY <1>5, <1>6, <1>7 DEF Result, Kind
<1> QED
  BY <1>4, <1>8 DEF HeldAs

LEMMA LocalRight ==
  ASSUME Types, Counts, PlainInv, NEW truth, TruthInv(truth),
         NEW p \in Parties, Complete(p), Instr(p).op \in LocalOps
  PROVE  HeldAs(Outcome(p), Instr(p).op, Value(truth, pc[p]), p)
<1> DEFINE op == Instr(p).op
           x == truth[Instr(p).x]
           y == truth[Instr(p).y]
<1>1. /\ Active(p) /\ op \in Operations /\ program[pc[p]].op = op /\ program[pc[p]] = Instr(p)
  BY CompleteGot DEF Complete, Instr
<1>2. /\ op \notin MultiplyOps /\ op \notin OpenOps \cup {"b2a_bit"} /\ op \notin InpOps
      /\ op \notin ShareOps
  BY <1>1, Classes
<1>3. /\ \A n \in Replication : X(p)[n] = x[Relative(p, n)]
      /\ op \in BinaryOps => \A n \in Replication : Y(p)[n] = y[Relative(p, n)]
  BY <1>1, <1>2, OperandWords
<1>4. Value(truth, pc[p])
        = [s \in 0 .. 3 |-> LocalWord(op, s, x[s], IF op \in BinaryOps THEN y[s] ELSE 0)]
  BY <1>1 DEF Value
<1>5. Share(Value(truth, pc[p]), p) = [n \in Replication |->
        LocalWord(op, Relative(p, n), X(p)[n], IF op \in BinaryOps THEN Y(p)[n] ELSE 0)]
  <2>1. \A n \in Replication : Relative(p, n) \in 0 .. 3
    BY Turns DEF Replication
  <2> QED
    BY <1>3, <1>4, <2>1 DEF Share
<1>6. LocalResult(p) = Share(Value(truth, pc[p]), p)
  <2>1. CASE op \in BinaryOps
    BY <1>5, <2>1 DEF LocalResult, LocalWord, BinaryOps, add_a, sub_a, xor_b
  <2>2. CASE op = "neg_a"
    BY <1>5, <2>2 DEF LocalResult, LocalWord, neg_a
  <2>3. CASE op = "ltz"
    BY <1>5, <2>3 DEF LocalResult, LocalWord, ltz
  <2>4. CASE op \in {"not_b", "not_b_1"}
    <3>1. \A n \in Replication : Relative(p, n) = 3 <=> (p # 3 /\ n = 3 - p)
      BY Around DEF Replication
    <3>2. X(p) \in Held3
      BY <1>1, <1>2, Operand
    <3>3. op \notin BinaryOps
      BY <2>4 DEF BinaryOps
    <3>4. X(p) = [n \in Replication |-> X(p)[n]]
      BY <3>2 DEF Held3
    <3>5. not_b(p, X(p)) = [n \in Replication |->
                              IF Relative(p, n) = 3 THEN Not(X(p)[n]) ELSE X(p)[n]]
      BY <3>1, <3>2, <3>4 DEF not_b, Held3
    <3>6. not_b_1(p, X(p)) = [n \in Replication |->
                                IF Relative(p, n) = 3 THEN Truth(X(p)[n] = 0) ELSE X(p)[n]]
      BY <3>1, <3>2, <3>4 DEF not_b_1, Held3
    <3>7. CASE op = "not_b"
      BY <1>5, <3>3, <3>5, <3>7 DEF LocalResult, LocalWord
    <3>8. CASE op = "not_b_1"
      BY <1>5, <3>3, <3>6, <3>8 DEF LocalResult, LocalWord
    <3> QED
      BY <2>4, <3>7, <3>8
  <2> QED
    BY <2>1, <2>2, <2>3, <2>4 DEF LocalOps, UnaryOps
<1>7. Outcome(p) = Result(Kind(op), LocalResult(p))
  BY DEF Outcome
<1> QED
  BY <1>6, <1>7 DEF HeldAs, Result, Kind

LEMMA ProductRight ==
  ASSUME Types, Counts, PlainInv, NEW mail, MailInv(mail), NEW truth, TruthInv(truth),
         NEW bad, SaidInv(mail, truth, bad),
         NEW p \in Parties, Complete(p), Instr(p).op \in MultiplyOps
  PROVE  HeldAs(Outcome(p), Instr(p).op, Value(truth, pc[p]), p)
<1> DEFINE op == Instr(p).op
           kind == Kind(op)
           x == truth[Instr(p).x]
           y == truth[Instr(p).y]
<1>1. /\ Active(p) /\ op \in Operations /\ program[pc[p]].op = op /\ program[pc[p]] = Instr(p)
      /\ Completed(p) = calls[p] /\ calls[p] = Calls(pc[p], p) /\ pc[p] \in Nat
      /\ got[p][1] = got[p][2]
      /\ p \in {2, 3} => got[p][3] = got[p][4]
  BY CompleteGot DEF Complete, Instr, Types
<1>2. op \notin LocalOps /\ op \notin ShareOps
  BY <1>1, Classes
<1>3. /\ x \in Secrets /\ y \in Secrets
      /\ \A n \in Replication : X(p)[n] = x[Relative(p, n)] /\ Y(p)[n] = y[Relative(p, n)]
  BY <1>1, <1>2, OperandWords
<1>4. \A i, j \in Replication :
        Cross(p, i, j) = CrossTerm(kind, x, y, Relative(p, i), Relative(p, j))
  BY <1>3, CrossIs
<1>5. \A s, t \in 0 .. 3 : CrossTerm(kind, x, y, s, t) = CrossTerm(kind, x, y, t, s)
  BY <1>3, CrossCommutes
<1>6. \A n \in 1 .. 3 : Relative(p, n) \in 0 .. 3
  BY Turns
<1>7. Completed(p) = IF p \in {2, 3} THEN 5 ELSE 3
  BY <1>1 DEF Calls
<1>8. /\ From(pc[p], p, 0) # NoParty /\ From(pc[p], p, 1) # NoParty
      /\ p \in {2, 3} => From(pc[p], p, 3) # NoParty /\ From(pc[p], p, 4) # NoParty
      /\ Gets(pc[p], p, 0) + 1 = 1 /\ Gets(pc[p], p, 1) + 1 = 2
      /\ Gets(pc[p], p, 3) + 1 = 3 /\ Gets(pc[p], p, 4) + 1 = 4
  BY <1>1, Around DEF From, Gets
<1>9. got[p][1] = CrossTerm(kind, x, y, Relative(p, 3), p)
  <2>1. /\ Said(truth, pc[p], p, 0) = CrossTerm(kind, x, y, Relative(p, 3), p)
        /\ Said(truth, pc[p], p, 1) = CrossTerm(kind, x, y, Relative(p, 3), p)
    BY <1>1 DEF Said
  <2>2. 0 < Completed(p) /\ 1 < Completed(p)
    BY <1>7
  <2>3. <<p, 16 * pc[p] + 0>> # <<p, 16 * pc[p] + 1>>
    BY <1>1
  <2>4. CASE <<p, 16 * pc[p] + 0>> # bad
    <3>1. got[p][Gets(pc[p], p, 0) + 1] = Said(truth, pc[p], p, 0)
      BY <1>1, <1>8, <2>2, <2>4, GotIsSaid
    <3> QED
      BY <1>8, <2>1, <3>1
  <2>5. CASE <<p, 16 * pc[p] + 1>> # bad
    <3>1. got[p][Gets(pc[p], p, 1) + 1] = Said(truth, pc[p], p, 1)
      BY <1>1, <1>8, <2>2, <2>5, GotIsSaid
    <3> QED
      BY <1>1, <1>8, <2>1, <3>1
  <2> QED
    BY <2>3, <2>4, <2>5
<1>10. ASSUME p \in {2, 3}
       PROVE  got[p][3] = CrossTerm(kind, x, y, p, Relative(p, 2))
  <2>1. /\ Said(truth, pc[p], p, 3) = CrossTerm(kind, x, y, p, Relative(p, 2))
        /\ Said(truth, pc[p], p, 4) = CrossTerm(kind, x, y, p, Relative(p, 2))
    BY <1>1 DEF Said
  <2>2. 3 < Completed(p) /\ 4 < Completed(p)
    BY <1>7, <1>10
  <2>3. <<p, 16 * pc[p] + 3>> # <<p, 16 * pc[p] + 4>>
    BY <1>1
  <2>4. CASE <<p, 16 * pc[p] + 3>> # bad
    <3>1. got[p][Gets(pc[p], p, 3) + 1] = Said(truth, pc[p], p, 3)
      BY <1>1, <1>8, <1>10, <2>2, <2>4, GotIsSaid
    <3> QED
      BY <1>8, <2>1, <3>1
  <2>5. CASE <<p, 16 * pc[p] + 4>> # bad
    <3>1. got[p][Gets(pc[p], p, 4) + 1] = Said(truth, pc[p], p, 4)
      BY <1>1, <1>8, <1>10, <2>2, <2>5, GotIsSaid
    <3> QED
      BY <1>1, <1>8, <1>10, <2>1, <3>1
  <2> QED
    BY <2>3, <2>4, <2>5
<1> DEFINE word(s) == ProductWord(kind, x, y, s)
<1>11. Value(truth, pc[p]) = [s \in 0 .. 3 |-> word(s)]
  BY <1>1, <1>2 DEF Value
<1>12. Share(Value(truth, pc[p]), p)
         = <<word(Relative(p, 1)), word(Relative(p, 2)), word(Relative(p, 3))>>
  BY <1>6, <1>11 DEF Share, Replication
<1> DEFINE square(n) == Times(kind, X(p)[n], Y(p)[n])
           first == Plus(kind, square(1), Cross(p, 1, 2))
           second == Plus(kind, square(2), Cross(p, 2, 3))
           third == Plus(kind, square(3), got[p][1])
<1>13. ProductShares(p) =
         <<IF p \in {0, 3} THEN Plus(kind, first, Cross(p, 1, 3)) ELSE first,
           IF p \in {2, 3} THEN Plus(kind, second, got[p][3]) ELSE second,
           IF p \in {1, 2} THEN Plus(kind, third, Cross(p, 1, 3)) ELSE third>>
  BY DEF ProductShares
<1> DEFINE cross(s, t) == CrossTerm(kind, x, y, s, t)
<1>14. \A s : word(s) = LET two == Plus(kind, Times(kind, x[s], y[s]), cross(s, Relative(s, 1)))
                        IN  IF s \in {0, 1} THEN Plus(kind, two, cross(s, Relative(s, 2))) ELSE two
  BY DEF ProductWord
<1>15. \A n \in Replication : square(n) = Times(kind, x[Relative(p, n)], y[Relative(p, n)])
  BY <1>3
<1>16. /\ Cross(p, 1, 2) = cross(Relative(p, 1), Relative(p, 2))
       /\ Cross(p, 2, 3) = cross(Relative(p, 2), Relative(p, 3))
       /\ Cross(p, 1, 3) = cross(Relative(p, 1), Relative(p, 3))
       /\ Cross(p, 1, 3) = cross(Relative(p, 3), Relative(p, 1))
       /\ got[p][1] = cross(Relative(p, 3), p)
       /\ p \in {2, 3} => got[p][3] = cross(Relative(p, 2), p)
  BY <1>4, <1>5, <1>6, <1>9, <1>10, Around DEF Replication
<1> HIDE DEF word, square, cross, op, kind, x, y
<1>17. word(Relative(p, 1)) = IF p \in {0, 3} THEN Plus(kind, first, Cross(p, 1, 3)) ELSE first
  <2>1. PICK s : s = Relative(p, 1)
    OBVIOUS
  <2>2. /\ Relative(s, 1) = Relative(p, 2) /\ Relative(s, 2) = Relative(p, 3)
        /\ s \in {0, 1} <=> p \in {0, 3}
    BY <2>1, Around
  <2>3. square(1) = Times(kind, x[s], y[s])
    BY <1>15, <2>1 DEF Replication
  <2> QED
    BY <1>14, <1>16, <2>1, <2>2, <2>3
<1>18. word(Relative(p, 2)) = IF p \in {2, 3} THEN Plus(kind, second, got[p][3]) ELSE second
  <2>1. PICK s : s = Relative(p, 2)
    OBVIOUS
  <2>2. /\ Relative(s, 1) = Relative(p, 3) /\ Relative(s, 2) = p
        /\ s \in {0, 1} <=> p \in {2, 3}
    BY <2>1, Around
  <2>3. square(2) = Times(kind, x[s], y[s])
    BY <1>15, <2>1 DEF Replication
  <2> QED
    BY <1>14, <1>16, <2>1, <2>2, <2>3
<1>19. word(Relative(p, 3)) = IF p \in {1, 2} THEN Plus(kind, third, Cross(p, 1, 3)) ELSE third
  <2>1. PICK s : s = Relative(p, 3)
    OBVIOUS
  <2>2. /\ Relative(s, 1) = p /\ Relative(s, 2) = Relative(p, 1)
        /\ s \in {0, 1} <=> p \in {1, 2}
    BY <2>1, Around
  <2>3. square(3) = Times(kind, x[s], y[s])
    BY <1>15, <2>1 DEF Replication
  <2> QED
    BY <1>14, <1>16, <2>1, <2>2, <2>3
<1>20. ProductShares(p) = Share(Value(truth, pc[p]), p)
  <2> HIDE DEF first, second, third
  <2> QED
    BY <1>12, <1>13, <1>17, <1>18, <1>19
<1>21. Outcome(p) = Result(Kind(Instr(p).op), ProductShares(p))
  BY <1>2 DEF Outcome, op
<1> QED
  BY <1>20, <1>21 DEF HeldAs, Result, Kind

\* Whoever adds up the four words, it is their sum.
LEMMA SumTurns ==
  ASSUME NEW kind, NEW x \in Secrets, NEW p \in Parties
  PROVE  Plus(kind, Plus(kind, Plus(kind, x[Relative(p, 1)], x[Relative(p, 2)]),
                    x[Relative(p, 3)]), x[p]) = Sum(kind, x)
<1>1. x[0] \in WordSet /\ x[1] \in WordSet /\ x[2] \in WordSet /\ x[3] \in WordSet
  BY DEF Secrets
<1>2. \A u, v, w \in WordSet :
        /\ Plus(kind, u, v) \in WordSet /\ Plus(kind, u, v) = Plus(kind, v, u)
        /\ Plus(kind, Plus(kind, u, v), w) = Plus(kind, u, Plus(kind, v, w))
  BY PlusRules
<1>3. ASSUME NEW a \in WordSet, NEW b \in WordSet, NEW c \in WordSet, NEW d \in WordSet
      PROVE  Plus(kind, Plus(kind, Plus(kind, a, b), c), d)
               = Plus(kind, Plus(kind, Plus(kind, b, c), d), a)
  <2>1. Plus(kind, b, c) \in WordSet /\ Plus(kind, Plus(kind, b, c), d) \in WordSet
    BY <1>2
  <2>2. Plus(kind, Plus(kind, a, b), c) = Plus(kind, a, Plus(kind, b, c))
    BY <1>2
  <2>3. Plus(kind, Plus(kind, a, Plus(kind, b, c)), d) = Plus(kind, a, Plus(kind, Plus(kind, b, c), d))
    BY <1>2, <2>1
  <2>4. Plus(kind, a, Plus(kind, Plus(kind, b, c), d)) = Plus(kind, Plus(kind, Plus(kind, b, c), d), a)
    BY <1>2, <2>1
  <2> QED
    BY <2>2, <2>3, <2>4
<1> DEFINE sum(a, b, c, d) == Plus(kind, Plus(kind, Plus(kind, x[a], x[b]), x[c]), x[d])
<1>4. /\ sum(1, 2, 3, 0) = sum(2, 3, 0, 1) /\ sum(2, 3, 0, 1) = sum(3, 0, 1, 2)
      /\ sum(3, 0, 1, 2) = sum(0, 1, 2, 3)
  BY <1>1, <1>3
<1>5. Sum(kind, x) = sum(1, 2, 3, 0)
  BY DEF Sum
<1>6. Plus(kind, Plus(kind, Plus(kind, x[Relative(p, 1)], x[Relative(p, 2)]), x[Relative(p, 3)]), x[p])
        = sum(Relative(p, 1), Relative(p, 2), Relative(p, 3), p)
  OBVIOUS
<1> HIDE DEF sum
<1> QED
  BY <1>4, <1>5, <1>6, Around

LEMMA OpenRight ==
  ASSUME Types, Counts, PlainInv, NEW mail, MailInv(mail), NEW truth, TruthInv(truth),
         NEW bad, SaidInv(mail, truth, bad), altered = 0 => bad = Nowhere, Trusted,
         NEW p \in Parties, Complete(p), Instr(p).op \in OpenOps \cup {"b2a_bit"}
  PROVE  HeldAs(Outcome(p), Instr(p).op, Value(truth, pc[p]), p)
<1> DEFINE op == Instr(p).op
           x == truth[Instr(p).x]
<1>1. /\ Active(p) /\ op \in Operations /\ program[pc[p]].op = op /\ program[pc[p]] = Instr(p)
      /\ Completed(p) = calls[p] /\ calls[p] = Calls(pc[p], p) /\ pc[p] \in Nat /\ CountInv(p)
  BY CompleteGot DEF Complete, Instr, Types
<1>2. op \notin LocalOps /\ op \notin ShareOps /\ op \notin MultiplyOps /\ op \notin InpOps
  BY <1>1, Classes
<1>3. x \in Secrets /\ \A n \in Replication : X(p)[n] = x[Relative(p, n)]
  BY <1>1, <1>2, OperandWords
<1>4. got[p][1] = Said(truth, pc[p], p, 0)
  <2>1. 0 < Completed(p) /\ From(pc[p], p, 0) # NoParty /\ Gets(pc[p], p, 0) + 1 = 1
    BY <1>1, <1>2, Around DEF Calls, From, Gets
  <2>2. <<p, 16 * pc[p] + 0>> # bad
    BY <1>1, <1>2, BadIsCompared
  <2>3. got[p][Gets(pc[p], p, 0) + 1] = Said(truth, pc[p], p, 0)
    BY <1>1, <2>1, <2>2, GotIsSaid
  <2> QED
    BY <2>1, <2>3
<1>5. CASE op \in OpenOps
  <2>1. got[p][1] = x[p]
    BY <1>1, <1>2, <1>4, <1>5 DEF Said
  <2>2. Opened(Kind(op), X(p), got[p][1]) = Sum(Kind(op), x)
    <3>1. X(p)[1] = x[Relative(p, 1)] /\ X(p)[2] = x[Relative(p, 2)] /\ X(p)[3] = x[Relative(p, 3)]
      BY <1>3 DEF Replication
    <3> QED
      BY <1>3, <2>1, <3>1, SumTurns DEF Opened
  <2>3. Value(truth, pc[p]) = x
    BY <1>1, <1>2, <1>5 DEF Value, OpenOps
  <2>4. Outcome(p) = Result("open", <<Opened(Kind(op), X(p), got[p][1])>>)
    BY <1>2, <1>5 DEF Outcome
  <2> QED
    BY <2>2, <2>3, <2>4 DEF HeldAs, Result
<1>6. CASE op = "b2a_bit"
  <2> DEFINE low == [s \in 0 .. 3 |-> LowBit(x[s])]
  <2>1. got[p][1] = low[p]
    <3>1. got[p][1] = LowBit(x[p])
      BY <1>1, <1>2, <1>4, <1>6 DEF Said, OpenOps
    <3> QED
      BY <3>1, Turns
  <2>2. /\ MaskedBit(p)[1] = low[Relative(p, 1)] /\ MaskedBit(p)[2] = low[Relative(p, 2)]
        /\ MaskedBit(p)[3] = low[Relative(p, 3)]
    BY <1>3, Turns DEF MaskedBit, Replication
  <2>3. low \in Secrets /\ OpenedBit(x) = Sum("b", low)
    BY <1>3, LowBitsAre DEF OpenedBit
  <2>4. PICK bit : bit = OpenedBit(x)
    OBVIOUS
  <2>5. bit \in Nat
    BY <1>3, <2>4, LowBitsAre, Closure
  <2>6. Opened("b", MaskedBit(p), got[p][1]) = bit
    <3> HIDE DEF low
    <3> QED
      BY <2>1, <2>2, <2>3, <2>4, SumTurns DEF Opened
  <2>7. Value(truth, pc[p]) = [s \in 0 .. 3 |-> IF s = 1 THEN LowBit(bit) ELSE 0]
    BY <1>1, <1>2, <1>6, <2>4 DEF Value
  <2>8. Share(Value(truth, pc[p]), p)
          = [n \in Replication |-> IF Relative(p, n) = 1 THEN LowBit(bit) ELSE 0]
    BY <2>7, Turns DEF Share, Replication
  <2>9. BitShares(p, bit) = [n \in Replication |-> IF Relative(p, n) = 1 THEN LowBit(bit) ELSE 0]
    <3>1. \A n \in Replication : (p + n - 1) % 4 = 0 <=> Relative(p, n) = 1
      BY Around DEF Replication
    <3>2. bit * 1 - 0 * (bit * 2 - 1) = bit /\ bit * 0 - 0 * (bit * 2 - 1) = 0 /\ LowBit(0) = 0
      BY <2>5 DEF LowBit
    <3>3. ASSUME NEW n \in Replication
          PROVE  LowBit(bit * Truth((p + n - 1) % 4 = 0) - 0 * (bit * 2 - 1))
                   = IF Relative(p, n) = 1 THEN LowBit(bit) ELSE 0
      <4>1. Truth((p + n - 1) % 4 = 0) = IF Relative(p, n) = 1 THEN 1 ELSE 0
        BY <3>1 DEF Truth
      <4> QED
        BY <3>2, <4>1
    <3> QED
      BY <3>3 DEF BitShares
  <2>10. Outcome(p) = Result("a", BitShares(p, bit))
    <3>1. Outcome(p) = Result("a", BitShares(p, Opened("b", MaskedBit(p), got[p][1])))
      BY <1>2, <1>6 DEF Outcome, OpenOps
    <3> QED
      BY <2>6, <3>1
  <2> QED
    BY <2>8, <2>9, <2>10 DEF HeldAs, Result
<1> QED
  BY <1>5, <1>6

LEMMA InpRight ==
  ASSUME Types, Counts, PlainInv, NEW mail, MailInv(mail), NEW truth, TruthInv(truth),
         NEW bad, SaidInv(mail, truth, bad),
         NEW p \in Parties, Complete(p), Instr(p).op \in InpOps
  PROVE  HeldAs(Outcome(p), Instr(p).op, Value(truth, pc[p]), p)
<1> DEFINE op == Instr(p).op
           r == Instr(p).roles
           word == InpWord(Instr(p), truth[Instr(p).x])
<1>1. /\ Active(p) /\ op \in Operations /\ program[pc[p]].op = op /\ program[pc[p]] = Instr(p)
      /\ Completed(p) = calls[p] /\ calls[p] = Calls(pc[p], p) /\ pc[p] \in Nat
      /\ IsRoles(r)
      /\ p = r.g => got[p][1] = got[p][2]
  BY CompleteGot DEF Complete, Instr, Types
<1>2. op \notin LocalOps /\ op \notin ShareOps /\ op \notin MultiplyOps
      /\ op \notin OpenOps \cup {"b2a_bit"}
  BY <1>1, Classes
<1>3. p \in {r.i, r.j} => InpShare(p) = word
  BY <1>1, KnownIs
<1>4. ASSUME p = r.g
      PROVE  got[p][1] = word
  <2>1. Said(truth, pc[p], p, 0) = word /\ Said(truth, pc[p], p, 1) = word
    BY <1>1, <1>2 DEF Said
  <2>2. Completed(p) = 2
    BY <1>1, <1>2, <1>4 DEF Calls
  <2>3. /\ From(pc[p], p, 0) # NoParty /\ From(pc[p], p, 1) # NoParty
        /\ Gets(pc[p], p, 0) + 1 = 1 /\ Gets(pc[p], p, 1) + 1 = 2
    BY <1>1, <1>2, <1>4, Around DEF From, Gets, IsRoles
  <2>4. <<p, 16 * pc[p] + 0>> # <<p, 16 * pc[p] + 1>> /\ 0 < Completed(p) /\ 1 < Completed(p)
    BY <1>1, <2>2
  <2>5. CASE <<p, 16 * pc[p] + 0>> # bad
    <3>1. got[p][Gets(pc[p], p, 0) + 1] = Said(truth, pc[p], p, 0)
      BY <1>1, <2>3, <2>4, <2>5, GotIsSaid
    <3> QED
      BY <2>1, <2>3, <3>1
  <2>6. CASE <<p, 16 * pc[p] + 1>> # bad
    <3>1. got[p][Gets(pc[p], p, 1) + 1] = Said(truth, pc[p], p, 1)
      BY <1>1, <2>3, <2>4, <2>6, GotIsSaid
    <3> QED
      BY <1>1, <1>4, <2>1, <2>3, <3>1
  <2> QED
    BY <2>4, <2>5, <2>6
<1>5. Value(truth, pc[p]) = [s \in 0 .. 3 |-> IF s = Relative(r.i, 2) THEN word ELSE 0]
  BY <1>1, <1>2 DEF Value
<1>6. Share(Value(truth, pc[p]), p)
        = [n \in Replication |-> IF Relative(p, n) = Relative(r.i, 2) THEN word ELSE 0]
  BY <1>5, Turns DEF Share, Replication
<1> HIDE DEF word
<1>7. InpShares(p)
        = [n \in Replication |-> IF Relative(p, n) = Relative(r.i, 2) THEN word ELSE 0]
  <2>1. CASE p = r.i
    BY <1>1, <1>3, <2>1, Around DEF InpShares, IsRoles, Replication, ZeroShare
  <2>2. CASE p = r.j
    BY <1>1, <1>3, <2>2, Around DEF InpShares, IsRoles, Replication, ZeroShare
  <2>3. CASE p = r.g
    BY <1>1, <1>4, <2>3, Around DEF InpShares, IsRoles, Replication, ZeroShare
  <2>4. CASE p = r.h
    BY <1>1, <2>4, Around DEF InpShares, IsRoles, Replication, ZeroShare
  <2> QED
    BY <1>1, <2>1, <2>2, <2>3, <2>4, Around DEF IsRoles
<1>8. Outcome(p) = Result(Kind(op), InpShares(p))
  BY <1>2 DEF Outcome, OpenOps
<1> QED
  BY <1>6, <1>7, <1>8 DEF HeldAs, Result, Kind

\* A complete operation returns words of a secret: the one all parties share,
\* if any of them got there before.
LEMMA CompleteRight ==
  ASSUME Types, Counts, PlainInv, NEW mail, MailInv(mail), NEW truth, TruthInv(truth),
         NEW bad, SaidInv(mail, truth, bad), altered = 0 => bad = Nowhere, Trusted,
         NEW p \in Parties, Complete(p)
  PROVE  \E w \in Secrets :
           /\ HeldAs(Outcome(p), Instr(p).op, w, p)
           /\ Instr(p).op \notin ShareOps => w = Value(truth, pc[p])
           /\ Instr(p).op \in ShareOps => pc[p] <= Len(truth)
           /\ pc[p] <= Len(truth) => w = truth[pc[p]]
<1>1. /\ Active(p) /\ Instr(p).op \in Operations /\ program \in Programs
      /\ pc[p] \in 2 .. Len(program) /\ CountInv(p) /\ RegsInv(p)
  BY CompleteGot DEF Complete
<1>2. /\ truth \in Seq(Secrets) /\ Len(truth) = Len(plain) /\ Len(truth) \in Nat
      /\ \A k \in 2 .. Len(truth) : program[k].op \notin ShareOps => truth[k] = Value(truth, k)
  BY DEF TruthInv
<1>3. Len(program) \in Nat /\ pc[p] \in Nat /\ pc[p] \in 1 .. Len(program) /\ pc[p] >= 2
  BY <1>1, Ranges
<1>4. CASE Instr(p).op \in ShareOps
  <2>1. pc[p] <= Len(truth) /\ HeldAs(Outcome(p), Instr(p).op, truth[pc[p]], p)
    BY <1>4, SharesRight
  <2>2. truth[pc[p]] \in Secrets
    BY <1>2, <1>3, <2>1
  <2> QED
    BY <1>4, <2>1, <2>2
<1>5. CASE Instr(p).op \notin ShareOps
  <2>1. HeldAs(Outcome(p), Instr(p).op, Value(truth, pc[p]), p)
    BY <1>1, <1>5, Classes, LocalRight, ProductRight, OpenRight, InpRight
  <2>2. \A j \in 1 .. pc[p] - 1 : truth[j] \in Secrets
    <3>1. Len(regs[p]) = pc[p] - 1 /\ Len(regs[p]) <= Len(plain)
      BY RegsPlain
    <3>2. \A j \in 1 .. pc[p] - 1 : j \in 1 .. Len(truth)
      BY <1>2, <1>3, <3>1
    <3> QED
      BY <1>2, <3>2
  <2>3. program[pc[p]].op \notin ShareOps
    BY <1>5 DEF Instr
  <2>4. Value(truth, pc[p]) \in Secrets
    BY <1>1, <1>3, <2>2, <2>3, ValueIsSecret
  <2>5. pc[p] <= Len(truth) => Value(truth, pc[p]) = truth[pc[p]]
    BY <1>2, <1>3, <2>3
  <2> QED
    BY <1>5, <2>1, <2>4, <2>5
<1> QED
  BY <1>4, <1>5

LEMMA SaidExtends ==
  ASSUME Types, Counts, PlainInv, NEW mail, NEW truth, TruthInv(truth),
         NEW bad, SaidInv(mail, truth, bad),
         NEW truth2, SameUpTo(Len(truth), truth2, truth)
  PROVE  SaidInv(mail, truth2, bad)
<1>1. program \in Programs /\ DealsItself(program) /\ Len(truth) = Len(plain) /\ Len(plain) \in Nat
  BY DEF Types, TruthInv
<1>2. ASSUME NEW q \in Parties, NEW k \in 2 .. Len(program), NEW n \in 0 .. 4,
             From(k, q, n) # NoParty,
             16 * k + SentAs(k, q, n) < SendPos(From(k, q, n)), <<q, 16 * k + n>> # bad
      PROVE  mail[q][16 * k + n] = Said(truth2, k, q, n)
  <2>1. mail[q][16 * k + n] = Said(truth, k, q, n)
    BY <1>2 DEF SaidInv
  <2>2. k \in 1 .. Len(program) /\ program[k].op \in Operations /\ n \in Nat /\ k \in Nat
    BY <1>1, Instructions
  <2>3. PICK a \in Parties, m \in 0 .. 8 : a = From(k, q, n) /\ m = SentAs(k, q, n)
    BY <1>1, <1>2, <2>2, SchedulePart DEF HearIsSent
  <2>4. /\ k - 1 <= Len(plain)
        /\ program[k].op \in ShareOps /\ a = 0 => k <= Len(plain)
    BY <1>2, <2>3, SentReached
  <2>5. program[k].op \in ShareOps => a = 0
    BY <1>2, <2>2, <2>3, Classes DEF From
  <2>6. program[k].op \notin LocalOps
    BY <1>2, <2>2, Classes DEF From
  <2>7. program[k].op \notin ShareOps \cup LocalOps \/ (program[k].op \in ShareOps /\ k <= Len(truth))
    BY <1>1, <2>4, <2>5, <2>6
  <2>8. PICK L \in Nat : L = Len(truth)
    BY <1>1
  <2>9. SaidAlike(truth2, truth, k)
    <3>1. SameUpTo(L, truth2, truth) /\ k - 1 <= L
      BY <1>1, <2>4, <2>8
    <3>2. program[k].op \notin ShareOps \cup LocalOps \/ (program[k].op \in ShareOps /\ k <= L)
      BY <2>7, <2>8
    <3> QED
      BY <1>1, <2>2, <3>1, <3>2, ValueStable
  <2> QED
    BY <2>1, <2>9 DEF SaidAlike
<1> QED
  BY <1>2 DEF SaidInv

LEMMA SaidNext ==
  ASSUME program' = program, NEW mail, NEW truth, NEW bad,
         \A q \in Parties, k \in 2 .. Len(program), n \in 0 .. 4 : \A a :
           /\ From(k, q, n) = a /\ a # NoParty
           /\ 16 * k + SentAs(k, q, n) < SendPos(a)'
           /\ <<q, 16 * k + n>> # bad
           => mail[q][16 * k + n] = Said(truth, k, q, n)
  PROVE  SaidInv(mail, truth, bad)'
<1>1. /\ \A k, q, n : From(k, q, n)' = From(k, q, n)
      /\ \A k, q, n : SentAs(k, q, n)' = SentAs(k, q, n)
  BY SameProgram
<1>2. \A k, q, n : Said(truth, k, q, n)' = Said(truth, k, q, n)
  BY SameWords
<1>3. \A k, q, n, a : From(k, q, n) = a => SendPos(From(k, q, n))' = SendPos(a)'
  BY <1>1
<1>4. \A q \in Parties, k \in 2 .. Len(program), n \in 0 .. 4 :
        /\ From(k, q, n)' # NoParty
        /\ 16 * k + SentAs(k, q, n)' < SendPos(From(k, q, n))'
        /\ <<q, 16 * k + n>> # bad
        => mail[q][16 * k + n] = Said(truth, k, q, n)'
  <2>1. TAKE q \in Parties, k \in 2 .. Len(program), n \in 0 .. 4
  <2>2. From(k, q, n)' = From(k, q, n) /\ SentAs(k, q, n)' = SentAs(k, q, n)
    BY <1>1
  <2>3. Said(truth, k, q, n)' = Said(truth, k, q, n)
    BY <1>2
  <2>4. PICK a : a = From(k, q, n)
    OBVIOUS
  <2>5. SendPos(From(k, q, n))' = SendPos(a)'
    BY <1>3, <2>4
  <2> QED
    BY <2>2, <2>3, <2>4, <2>5
<1> QED
  BY <1>4 DEF SaidInv, From

\* Nothing is sent.
LEMMA SaidSame ==
  ASSUME program' = program, NEW mail, NEW truth, NEW bad, SaidInv(mail, truth, bad),
         \A q \in Parties, k \in 2 .. Len(program), n \in 0 .. 4 : \A a :
           /\ From(k, q, n) = a /\ a # NoParty
           /\ 16 * k + SentAs(k, q, n) < SendPos(a)'
           => 16 * k + SentAs(k, q, n) < SendPos(a)
  PROVE  SaidInv(mail, truth, bad)'
<1>1. \A q \in Parties, k \in 2 .. Len(program), n \in 0 .. 4 : \A a :
        /\ From(k, q, n) = a /\ a # NoParty
        /\ 16 * k + SentAs(k, q, n) < SendPos(a)'
        /\ <<q, 16 * k + n>> # bad
        => mail[q][16 * k + n] = Said(truth, k, q, n)
  BY DEF SaidInv
<1> QED
  BY <1>1, SaidNext
-----------------------------------------------------------------------------
(* What the four words of a secret add up to.                              *)

LEMMA TimesRules ==
  ASSUME NEW kind, NEW u \in WordSet, NEW v \in WordSet, NEW w \in WordSet
  PROVE  /\ Times(kind, u, v) \in WordSet
         /\ Times(kind, u, v) = Times(kind, v, u)
         /\ Times(kind, u, Plus(kind, v, w)) = Plus(kind, Times(kind, u, v), Times(kind, u, w))
<1>1. Times(kind, u, v) \in WordSet
  BY Closure
<1>2. CASE kind = "a"
  <2>1. u \in Int /\ v \in Int /\ w \in Int
    BY Closure
  <2>2. /\ v + w \in Int /\ u * v \in Int /\ u * w \in Int
        /\ u * v = v * u /\ u * (v + w) = (u * v) + (u * w)
    BY ONLY <2>1
  <2>3. Wrap(u * Wrap(v + w)) = Wrap(u * (v + w))
    BY <2>1, <2>2, WrapTerms
  <2>4. Wrap(Wrap(u * v) + Wrap(u * w)) = Wrap((u * v) + (u * w))
    BY <2>2, TwoTerms
  <2> QED
    BY <1>1, <1>2, <2>2, <2>3, <2>4 DEF Times, Plus
<1>3. CASE kind # "a"
  BY <1>1, <1>3, AndCommutes, AndDistributes DEF Times, Plus
<1> QED
  BY <1>2, <1>3

\* A word that n makes up: all of it, or one bit.
Counted(kind, i, w, n) ==
  w \in WordSet /\ n \in Int /\ IF kind = "a" THEN w = Wrap(n) ELSE Bit(w, i) = n % 2

LEMMA CountedPlus ==
  ASSUME NEW kind, NEW i \in Places, NEW v, NEW w, NEW m, NEW n,
         Counted(kind, i, v, m), Counted(kind, i, w, n)
  PROVE  Counted(kind, i, Plus(kind, v, w), m + n)
<1>1. v \in WordSet /\ w \in WordSet /\ m \in Int /\ n \in Int /\ m + n \in Int
  BY DEF Counted
<1>2. Plus(kind, v, w) \in WordSet
  BY <1>1, Closure
<1>3. CASE kind = "a"
  BY <1>1, <1>2, <1>3, TwoTerms DEF Counted, Plus
<1>4. CASE kind # "a"
  <2>1. Bit(v, i) = m % 2 /\ Bit(w, i) = n % 2
    BY <1>4 DEF Counted
  <2>2. Bit(Plus(kind, v, w), i) = (Bit(v, i) + Bit(w, i)) % 2
    BY <1>1, <1>4, XorBits DEF Plus
  <2>3. ((m % 2) + (n % 2)) % 2 = (m + n) % 2
    BY <1>1
  <2> QED
    BY <1>1, <1>2, <1>4, <2>1, <2>2, <2>3 DEF Counted
<1> QED
  BY <1>3, <1>4

\* Every word is made up of something.
LEMMA CountedWord ==
  ASSUME NEW kind, NEW i \in Places, NEW w \in WordSet
  PROVE  \E n \in Int : Counted(kind, i, w, n)
<1>1. CASE kind = "a"
  <2>1. w \in Int /\ Wrap(w) = w
    BY Closure, WrapWord
  <2> QED
    BY <1>1, <2>1 DEF Counted
<1>2. CASE kind # "a"
  <2>1. Bit(w, i) \in {0, 1}
    BY BitsAre
  <2>2. Bit(w, i) \in Int /\ Bit(w, i) = Bit(w, i) % 2
    BY <2>1
  <2> QED
    BY <1>2, <2>2 DEF Counted
<1> QED
  BY <1>1, <1>2

LEMMA CountedAlike ==
  ASSUME NEW kind, NEW v \in WordSet, NEW w \in WordSet,
         \A i \in Places : \E n : Counted(kind, i, v, n) /\ Counted(kind, i, w, n)
  PROVE  v = w
<1>1. CASE kind = "a"
  <2>1. 0 \in Places
    BY FirstBit
  <2> QED
    BY <1>1, <2>1 DEF Counted
<1>2. CASE kind # "a"
  <2>1. \A i \in Places : Bit(v, i) = Bit(w, i)
    BY <1>2 DEF Counted
  <2> QED
    BY <2>1, SameBits
<1> QED
  BY <1>1, <1>2

LEMMA CountedSum ==
  ASSUME NEW kind, NEW i \in Places, NEW x, NEW m,
         \A s \in 0 .. 3 : Counted(kind, i, x[s], m[s])
  PROVE  Counted(kind, i, Sum(kind, x), ((m[1] + m[2]) + m[3]) + m[0])
<1>1. /\ Counted(kind, i, x[0], m[0]) /\ Counted(kind, i, x[1], m[1])
      /\ Counted(kind, i, x[2], m[2]) /\ Counted(kind, i, x[3], m[3])
  BY ONLY \A s \in 0 .. 3 : Counted(kind, i, x[s], m[s])
<1>2. Counted(kind, i, Plus(kind, x[1], x[2]), m[1] + m[2])
  BY <1>1, CountedPlus
<1>3. Counted(kind, i, Plus(kind, Plus(kind, x[1], x[2]), x[3]), (m[1] + m[2]) + m[3])
  BY <1>1, <1>2, CountedPlus
<1>4. Counted(kind, i, Plus(kind, Plus(kind, Plus(kind, x[1], x[2]), x[3]), x[0]),
              ((m[1] + m[2]) + m[3]) + m[0])
  BY <1>1, <1>3, CountedPlus
<1> QED
  BY <1>4 DEF Sum

\* The words of u times a secret.
Scaled(kind, u, x) == [s \in 0 .. 3 |-> Times(kind, u, x[s])]

LEMMA TimesSum ==
  ASSUME NEW kind, NEW u \in WordSet, NEW x \in Secrets
  PROVE  Scaled(kind, u, x) \in Secrets /\ Times(kind, u, Sum(kind, x)) = Sum(kind, Scaled(kind, u, x))
<1> DEFINE p(v, w) == Plus(kind, v, w)
           t(v, w) == Times(kind, v, w)
<1>1. x[0] \in WordSet /\ x[1] \in WordSet /\ x[2] \in WordSet /\ x[3] \in WordSet
  BY DEF Secrets
<1>2. /\ p(x[1], x[2]) \in WordSet /\ p(p(x[1], x[2]), x[3]) \in WordSet
      /\ Sum(kind, x) \in WordSet /\ Sum(kind, x) = p(p(p(x[1], x[2]), x[3]), x[0])
  BY <1>1, Closure, SumIsWord DEF Sum
<1>3. /\ t(u, p(p(p(x[1], x[2]), x[3]), x[0])) = p(t(u, p(p(x[1], x[2]), x[3])), t(u, x[0]))
      /\ t(u, p(p(x[1], x[2]), x[3])) = p(t(u, p(x[1], x[2])), t(u, x[3]))
      /\ t(u, p(x[1], x[2])) = p(t(u, x[1]), t(u, x[2]))
  BY <1>1, <1>2, TimesRules
<1>4. t(u, Sum(kind, x)) = p(p(p(t(u, x[1]), t(u, x[2])), t(u, x[3])), t(u, x[0]))
  BY <1>2, <1>3
<1>5. \A s \in 0 .. 3 : x[s] \in WordSet
  BY DEF Secrets
<1>6. Scaled(kind, u, x) \in Secrets
  BY <1>5, Closure DEF Scaled, Secrets
<1> QED
  BY <1>4, <1>6 DEF Sum, Scaled

\* Each of the sixteen products of two words is in exactly one word of the result.
LEMMA ProductAddsUp ==
  ASSUME NEW kind, NEW x \in Secrets, NEW y \in Secrets
  PROVE  Sum(kind, [s \in 0 .. 3 |-> ProductWord(kind, x, y, s)])
           = Times(kind, Sum(kind, x), Sum(kind, y))
<1> DEFINE w == [s \in 0 .. 3 |-> ProductWord(kind, x, y, s)]
           rows == Scaled(kind, Sum(kind, y), x)
<1>1. /\ \A s \in 0 .. 3 : x[s] \in WordSet /\ y[s] \in WordSet
      /\ Sum(kind, x) \in WordSet /\ Sum(kind, y) \in WordSet
  BY SumIsWord DEF Secrets
<1>2. \A s, t \in 0 .. 3 : Times(kind, x[s], y[t]) \in WordSet
  BY <1>1, Closure
<1>3. w \in Secrets
  BY ProductIsWord DEF Secrets
<1>4. Times(kind, Sum(kind, x), Sum(kind, y)) = Sum(kind, rows) /\ rows \in Secrets
  <2>1. Times(kind, Sum(kind, x), Sum(kind, y)) = Times(kind, Sum(kind, y), Sum(kind, x))
    BY <1>1, TimesRules
  <2> QED
    BY <1>1, <2>1, TimesSum
<1>5. \A t \in 0 .. 3 : rows[t] = Sum(kind, Scaled(kind, x[t], y))
  <2> TAKE t \in 0 .. 3
  <2>1. Times(kind, x[t], Sum(kind, y)) = Sum(kind, Scaled(kind, x[t], y))
    BY <1>1, TimesSum
  <2>2. rows[t] = Times(kind, Sum(kind, y), x[t])
    BY DEF Scaled
  <2>3. Times(kind, Sum(kind, y), x[t]) = Times(kind, x[t], Sum(kind, y))
    BY <1>1, TimesRules
  <2> QED
    BY <2>1, <2>2, <2>3
<1>6. /\ w[0] = ProductWord(kind, x, y, 0) /\ w[1] = ProductWord(kind, x, y, 1)
      /\ w[2] = ProductWord(kind, x, y, 2) /\ w[3] = ProductWord(kind, x, y, 3)
  OBVIOUS
<1>7. /\ Relative(0, 1) = 1 /\ Relative(1, 1) = 2 /\ Relative(2, 1) = 3 /\ Relative(3, 1) = 0
      /\ Relative(0, 2) = 2 /\ Relative(1, 2) = 3
  BY Around
<1> DEFINE p(v, u) == Plus(kind, v, u)
           c(s, t) == Plus(kind, Times(kind, x[s], y[t]), Times(kind, x[t], y[s]))
<1>8. /\ w[0] = p(p(Times(kind, x[0], y[0]), c(0, 1)), c(0, 2))
      /\ w[1] = p(p(Times(kind, x[1], y[1]), c(1, 2)), c(1, 3))
      /\ w[2] = p(Times(kind, x[2], y[2]), c(2, 3))
      /\ w[3] = p(Times(kind, x[3], y[3]), c(3, 0))
  BY <1>6, <1>7 DEF ProductWord, CrossTerm
<1>9. ASSUME NEW i \in Places
      PROVE  \E n : Counted(kind, i, Sum(kind, w), n) /\ Counted(kind, i, Sum(kind, rows), n)
  <2>1. PICK m \in [(0 .. 3) \X (0 .. 3) -> Int] :
          \A s, t \in 0 .. 3 : Counted(kind, i, Times(kind, x[s], y[t]), m[<<s, t>>])
    <3>1. \A s, t \in 0 .. 3 : \E n \in Int : Counted(kind, i, Times(kind, x[s], y[t]), n)
      BY <1>2, CountedWord
    <3> DEFINE of(e) == CHOOSE n \in Int : Counted(kind, i, Times(kind, x[e[1]], y[e[2]]), n)
               m == [e \in (0 .. 3) \X (0 .. 3) |-> of(e)]
    <3>2. \A s, t \in 0 .. 3 : /\ of(<<s, t>>) \in Int
                               /\ Counted(kind, i, Times(kind, x[s], y[t]), of(<<s, t>>))
      BY <3>1
    <3>3. \A s, t \in 0 .. 3 : m[<<s, t>>] = of(<<s, t>>)
      OBVIOUS
    <3>4. m \in [(0 .. 3) \X (0 .. 3) -> Int]
      BY <3>2
    <3> HIDE DEF of, m
    <3> QED
      BY <3>2, <3>3, <3>4
  <2>2. \A s, t \in 0 .. 3 : Counted(kind, i, c(s, t), m[<<s, t>>] + m[<<t, s>>])
    BY <2>1, CountedPlus
  <2> DEFINE k(s, t) == m[<<s, t>>]
             a == [s \in 0 .. 3 |->
                     IF s = 0 THEN (k(0, 0) + (k(0, 1) + k(1, 0))) + (k(0, 2) + k(2, 0))
                     ELSE IF s = 1 THEN (k(1, 1) + (k(1, 2) + k(2, 1))) + (k(1, 3) + k(3, 1))
                     ELSE IF s = 2 THEN k(2, 2) + (k(2, 3) + k(3, 2))
                     ELSE k(3, 3) + (k(3, 0) + k(0, 3))]
             b == [s \in 0 .. 3 |-> ((k(s, 1) + k(s, 2)) + k(s, 3)) + k(s, 0)]
  <2>3. \A s \in 0 .. 3 : Counted(kind, i, w[s], a[s])
    <3>1. /\ Counted(kind, i, Times(kind, x[0], y[0]), k(0, 0))
          /\ Counted(kind, i, Times(kind, x[1], y[1]), k(1, 1))
          /\ Counted(kind, i, Times(kind, x[2], y[2]), k(2, 2))
          /\ Counted(kind, i, Times(kind, x[3], y[3]), k(3, 3))
      BY <2>1
    <3>2. /\ Counted(kind, i, c(0, 1), k(0, 1) + k(1, 0))
          /\ Counted(kind, i, c(0, 2), k(0, 2) + k(2, 0))
          /\ Counted(kind, i, c(1, 2), k(1, 2) + k(2, 1))
          /\ Counted(kind, i, c(1, 3), k(1, 3) + k(3, 1))
          /\ Counted(kind, i, c(2, 3), k(2, 3) + k(3, 2))
          /\ Counted(kind, i, c(3, 0), k(3, 0) + k(0, 3))
      BY <2>2
    <3> HIDE DEF c, k, w
    <3>3. /\ Counted(kind, i, p(Times(kind, x[0], y[0]), c(0, 1)), k(0, 0) + (k(0, 1) + k(1, 0)))
          /\ Counted(kind, i, p(Times(kind, x[1], y[1]), c(1, 2)), k(1, 1) + (k(1, 2) + k(2, 1)))
          /\ Counted(kind, i, w[2], k(2, 2) + (k(2, 3) + k(3, 2)))
          /\ Counted(kind, i, w[3], k(3, 3) + (k(3, 0) + k(0, 3)))
      BY <1>8, <3>1, <3>2, CountedPlus
    <3>4. /\ Counted(kind, i, w[0], (k(0, 0) + (k(0, 1) + k(1, 0))) + (k(0, 2) + k(2, 0)))
          /\ Counted(kind, i, w[1], (k(1, 1) + (k(1, 2) + k(2, 1))) + (k(1, 3) + k(3, 1)))
      BY <1>8, <3>2, <3>3, CountedPlus
    <3>5. /\ a[0] = (k(0, 0) + (k(0, 1) + k(1, 0))) + (k(0, 2) + k(2, 0))
          /\ a[1] = (k(1, 1) + (k(1, 2) + k(2, 1))) + (k(1, 3) + k(3, 1))
          /\ a[2] = k(2, 2) + (k(2, 3) + k(3, 2))
          /\ a[3] = k(3, 3) + (k(3, 0) + k(0, 3))
      OBVIOUS
    <3> HIDE DEF a
    <3>6. \A s \in 0 .. 3 : s = 0 \/ s = 1 \/ s = 2 \/ s = 3
      OBVIOUS
    <3> QED
      BY <3>3, <3>4, <3>5, <3>6
  <2>4. Counted(kind, i, Sum(kind, w), ((a[1] + a[2]) + a[3]) + a[0])
    <3> HIDE DEF a, w
    <3> QED
      BY <2>3, CountedSum
  <2>5. \A s \in 0 .. 3 : Counted(kind, i, rows[s], b[s])
    <3> TAKE s \in 0 .. 3
    <3> DEFINE row == Scaled(kind, x[s], y)
               n == [t \in 0 .. 3 |-> k(s, t)]
    <3>1. \A t \in 0 .. 3 : Counted(kind, i, row[t], n[t])
      BY <2>1 DEF Scaled
    <3>2. n[0] = k(s, 0) /\ n[1] = k(s, 1) /\ n[2] = k(s, 2) /\ n[3] = k(s, 3)
      OBVIOUS
    <3>3. rows[s] = Sum(kind, row)
      BY <1>5
    <3>4. b[s] = ((k(s, 1) + k(s, 2)) + k(s, 3)) + k(s, 0)
      OBVIOUS
    <3> HIDE DEF row, n, k, rows, b
    <3>5. Counted(kind, i, Sum(kind, row), ((n[1] + n[2]) + n[3]) + n[0])
      BY <3>1, CountedSum
    <3> QED
      BY <3>2, <3>3, <3>4, <3>5
  <2>6. Counted(kind, i, Sum(kind, rows), ((b[1] + b[2]) + b[3]) + b[0])
    <3> HIDE DEF b, rows
    <3> QED
      BY <2>5, CountedSum
  <2>7. ((a[1] + a[2]) + a[3]) + a[0] = ((b[1] + b[2]) + b[3]) + b[0]
    <3>1. \A s, t \in 0 .. 3 : k(s, t) \in Int
      BY <2>1
    <3>2. /\ a[0] = (k(0, 0) + (k(0, 1) + k(1, 0))) + (k(0, 2) + k(2, 0))
          /\ a[1] = (k(1, 1) + (k(1, 2) + k(2, 1))) + (k(1, 3) + k(3, 1))
          /\ a[2] = k(2, 2) + (k(2, 3) + k(3, 2))
          /\ a[3] = k(3, 3) + (k(3, 0) + k(0, 3))
          /\ \A s \in 0 .. 3 : b[s] = ((k(s, 1) + k(s, 2)) + k(s, 3)) + k(s, 0)
      OBVIOUS
    <3> HIDE DEF a, b, k
    <3> QED
      BY <3>1, <3>2
  <2> QED
    BY <2>4, <2>6, <2>7
<1>10. Sum(kind, w) \in WordSet /\ Sum(kind, rows) \in WordSet
  BY <1>3, <1>4, SumIsWord
<1> HIDE DEF w, rows
<1>11. Sum(kind, w) = Sum(kind, rows)
  BY <1>9, <1>10, CountedAlike
<1> QED
  BY <1>4, <1>11 DEF w


-----------------------------------------------------------------------------
(* ... of sums, ...                                                        *)

LEMMA PlusOf ==
  ASSUME NEW kind, NEW u \in WordSet, NEW v \in WordSet
  PROVE  /\ Plus(kind, u, v) \in WordSet /\ Minus(kind, u, v) \in WordSet
         /\ Plus(kind, u, v) = Plus(kind, v, u)
         /\ Plus(kind, Minus(kind, u, v), v) = u
         /\ Minus(kind, Plus(kind, u, v), v) = u
<1>1. CASE kind = "a"
  <2>1. u \in Int /\ v \in Int /\ u - v \in Int /\ u + v \in Int /\ Wrap(u) = u
    BY Closure, WrapWord
  <2>2. Wrap(Wrap(u - v) + v) = Wrap((u - v) + v) /\ Wrap(Wrap(u + v) - v) = Wrap((u + v) - v)
    BY <2>1, WrapTerms
  <2>3. (u - v) + v = u /\ (u + v) - v = u
    BY <2>1
  <2>4. Plus(kind, Minus(kind, u, v), v) = u /\ Minus(kind, Plus(kind, u, v), v) = u
    BY <1>1, <2>1, <2>2, <2>3 DEF Plus, Minus
  <2> QED
    BY <2>4, PlusRules, Closure
<1>2. CASE kind # "a"
  <2>1. Xor(Xor(u, v), v) = u
    BY XorAssociates, XorCancels
  <2>2. Plus(kind, Minus(kind, u, v), v) = u /\ Minus(kind, Plus(kind, u, v), v) = u
    BY <1>2, <2>1 DEF Plus, Minus
  <2> QED
    BY <2>2, PlusRules, Closure
<1> QED
  BY <1>1, <1>2

Pluses(kind, x, y) == [s \in 0 .. 3 |-> Plus(kind, x[s], y[s])]
Minuses(kind, x, y) == [s \in 0 .. 3 |-> Minus(kind, x[s], y[s])]

LEMMA SumOfPluses ==
  ASSUME NEW kind, NEW x \in Secrets, NEW y \in Secrets
  PROVE  /\ Pluses(kind, x, y) \in Secrets
         /\ Sum(kind, Pluses(kind, x, y)) = Plus(kind, Sum(kind, x), Sum(kind, y))
<1> DEFINE p(v, w) == Plus(kind, v, w)
<1>1. /\ x[0] \in WordSet /\ x[1] \in WordSet /\ x[2] \in WordSet /\ x[3] \in WordSet
      /\ y[0] \in WordSet /\ y[1] \in WordSet /\ y[2] \in WordSet /\ y[3] \in WordSet
  BY DEF Secrets
<1>2. /\ p(x[1], x[2]) \in WordSet /\ p(p(x[1], x[2]), x[3]) \in WordSet
      /\ p(y[1], y[2]) \in WordSet /\ p(p(y[1], y[2]), y[3]) \in WordSet
  BY <1>1, Closure
<1>3. p(p(x[1], y[1]), p(x[2], y[2])) = p(p(x[1], x[2]), p(y[1], y[2]))
  BY <1>1, FourTerms
<1>4. p(p(p(x[1], x[2]), p(y[1], y[2])), p(x[3], y[3])) = p(p(p(x[1], x[2]), x[3]), p(p(y[1], y[2]), y[3]))
  BY <1>1, <1>2, FourTerms
<1>5. p(p(p(p(x[1], x[2]), x[3]), p(p(y[1], y[2]), y[3])), p(x[0], y[0]))
        = p(p(p(p(x[1], x[2]), x[3]), x[0]), p(p(p(y[1], y[2]), y[3]), y[0]))
  BY <1>1, <1>2, FourTerms
<1>6. \A s \in 0 .. 3 : x[s] \in WordSet /\ y[s] \in WordSet
  BY DEF Secrets
<1>7. Pluses(kind, x, y) \in Secrets
  BY <1>6, Closure DEF Pluses, Secrets
<1> QED
  BY <1>3, <1>4, <1>5, <1>7 DEF Sum, Pluses

LEMMA SumOfMinuses ==
  ASSUME NEW kind, NEW x \in Secrets, NEW y \in Secrets
  PROVE  Sum(kind, Minuses(kind, x, y)) = Minus(kind, Sum(kind, x), Sum(kind, y))
<1>1. \A s \in 0 .. 3 : x[s] \in WordSet /\ y[s] \in WordSet
  BY DEF Secrets
<1>2. PICK z \in Secrets : z = Minuses(kind, x, y)
  BY <1>1, Closure DEF Minuses, Secrets
<1>3. \A s \in 0 .. 3 : Plus(kind, z[s], y[s]) = x[s]
  BY <1>1, <1>2, PlusOf DEF Minuses
<1>4. Pluses(kind, z, y) = x
  BY <1>3 DEF Pluses, Secrets
<1>5. Sum(kind, x) = Plus(kind, Sum(kind, z), Sum(kind, y))
  BY <1>4, SumOfPluses
<1>6. Sum(kind, y) \in WordSet /\ Sum(kind, z) \in WordSet
  BY SumIsWord
<1> QED
  BY <1>2, <1>5, <1>6, PlusOf

\* A secret all of whose words but one are zero.
Only(t, w) == [s \in 0 .. 3 |-> IF s = t THEN w ELSE 0]

LEMMA SumOfOne ==
  ASSUME NEW kind, NEW t \in 0 .. 3, NEW w \in WordSet
  PROVE  Only(t, w) \in Secrets /\ Sum(kind, Only(t, w)) = w
<1>1. /\ Plus(kind, w, 0) = w /\ Plus(kind, 0, w) = w /\ 0 \in WordSet
      /\ Plus(kind, 0, 0) = 0
  BY PlusZero, Closure
<1>2. Only(t, w) \in Secrets
  BY <1>1 DEF Only, Secrets
<1>3. t = 0 \/ t = 1 \/ t = 2 \/ t = 3
  OBVIOUS
<1> QED
  BY <1>1, <1>2, <1>3 DEF Sum, Only

\* The words the data party deals add up to the data.
LEMMA DealtAddsUp ==
  ASSUME NEW kind, NEW data \in Data, NEW r \in Randoms
  PROVE  Sum(kind, DealtWords(kind, data, r)) = data
<1>1. r[1] \in WordSet /\ r[2] \in WordSet /\ r[3] \in WordSet /\ data \in WordSet
  <2>1. data \in WordSet /\ r \in [1 .. 3 -> WordSet]
    BY ProtocolAssumption, FourPartiesAssumption
  <2> QED
    BY <2>1
<1>2. PICK u \in WordSet, v \in WordSet, w \in WordSet :
        /\ u = Minus(kind, data, r[1]) /\ v = Minus(kind, u, r[2]) /\ w = Minus(kind, v, r[3])
  BY <1>1, PlusOf
<1>3. /\ Plus(kind, u, r[1]) = data /\ Plus(kind, v, r[2]) = u /\ Plus(kind, w, r[3]) = v
      /\ Plus(kind, r[2], r[3]) \in WordSet
  BY <1>1, <1>2, PlusOf
<1>4. Plus(kind, Plus(kind, r[2], r[3]), w) = Plus(kind, r[2], Plus(kind, r[3], w))
  BY <1>1, PlusRules
<1>5. Plus(kind, r[3], w) = v /\ Plus(kind, r[2], v) = u
  BY <1>1, <1>3, PlusOf
<1>6. Sum(kind, DealtWords(kind, data, r)) = Plus(kind, Plus(kind, Plus(kind, r[2], r[3]), w), r[1])
  BY <1>2 DEF Sum, DealtWords
<1> QED
  BY <1>3, <1>4, <1>5, <1>6

LEMMA SumOfBits ==
  ASSUME NEW x \in Secrets, NEW i \in Places, NEW b, \A s \in 0 .. 3 : b[s] = Bit(x[s], i)
  PROVE  Sum("b", b) = Bit(Sum("b", x), i)
<1>1. x[0] \in WordSet /\ x[1] \in WordSet /\ x[2] \in WordSet /\ x[3] \in WordSet
  BY DEF Secrets
<1>2. \A u, v \in WordSet : Xor(u, v) \in WordSet /\ Xor(Bit(u, i), Bit(v, i)) = Bit(Xor(u, v), i)
  <2> TAKE u \in WordSet, v \in WordSet
  <2>1. Bit(u, i) \in {0, 1} /\ Bit(v, i) \in {0, 1}
    BY BitsAre
  <2> QED
    BY <2>1, SingleBits, XorBits
<1>3. \A u, v : Plus("b", u, v) = Xor(u, v)
  BY DEF Plus
<1>4. /\ Xor(b[1], b[2]) = Bit(Xor(x[1], x[2]), i)
      /\ Xor(Bit(Xor(x[1], x[2]), i), b[3]) = Bit(Xor(Xor(x[1], x[2]), x[3]), i)
      /\ Xor(Bit(Xor(Xor(x[1], x[2]), x[3]), i), b[0]) = Bit(Xor(Xor(Xor(x[1], x[2]), x[3]), x[0]), i)
  BY <1>1, <1>2
<1> QED
  BY <1>3, <1>4 DEF Sum

-----------------------------------------------------------------------------
(* ... of results without communication, and of quotients and errors.      *)

\* What such an operation makes of plaintexts.
LocalValue(op, u, v) ==
  CASE op = "add_a"   -> Wrap(u + v)
    [] op = "sub_a"   -> Wrap(u - v)
    [] op = "xor_b"   -> Xor(u, v)
    [] op = "neg_a"   -> Wrap(-u)
    [] op = "not_b"   -> Not(u)
    [] op = "not_b_1" -> Truth(u = 0)
    [] op = "ltz"     -> Truth(Signed(u) < 0)

LocalWords(op, x, y) ==
  [s \in 0 .. 3 |-> LocalWord(op, s, x[s], IF op \in BinaryOps THEN y[s] ELSE 0)]

LEMMA NotIsXor ==
  ASSUME NEW u \in WordSet
  PROVE  /\ Not(0) \in WordSet /\ Not(u) = Xor(u, Not(0))
         /\ 1 \in WordSet /\ (u \in {0, 1} => Truth(u = 0) = Xor(u, 1))
<1>1. 0 \in WordSet /\ Not(0) \in WordSet /\ Not(u) \in WordSet /\ Xor(u, Not(0)) \in WordSet
  BY WordsAreClosed, Closure
<1>2. ASSUME NEW i \in Places
      PROVE  Bit(Not(u), i) = Bit(Xor(u, Not(0)), i)
  <2>1. Bit(u, i) \in {0, 1} /\ Bit(0, i) = 0
    BY BitsAre, ZeroBits
  <2>2. Bit(Not(u), i) = 1 - Bit(u, i) /\ Bit(Not(0), i) = 1
    BY <1>1, <2>1, NotBits
  <2>3. Bit(Xor(u, Not(0)), i) = (Bit(u, i) + Bit(Not(0), i)) % 2
    BY <1>1, XorBits
  <2> QED
    BY <2>1, <2>2, <2>3
<1>3. Not(u) = Xor(u, Not(0))
  BY <1>1, <1>2, SameBits
<1>4. ASSUME u \in {0, 1}
      PROVE  Truth(u = 0) = Xor(u, 1)
  <2>1. Xor(u, 1) = (u + 1) % 2
    BY <1>4, SingleBits
  <2> QED
    BY <1>4, <2>1 DEF Truth
<1> QED
  BY <1>1, <1>3, <1>4, SingleBits

LEMMA SumOfSingles ==
  ASSUME NEW x \in Secrets, \A s \in 0 .. 3 : x[s] \in {0, 1}
  PROVE  Sum("b", x) \in {0, 1}
<1>1. \A u, v \in {0, 1} : Plus("b", u, v) \in {0, 1}
  BY SingleBits DEF Plus
<1> QED
  BY <1>1 DEF Sum

LEMMA LocalAddsUp ==
  ASSUME NEW op \in LocalOps, NEW x \in Secrets, NEW y \in Secrets,
         op = "not_b_1" => \A s \in 0 .. 3 : x[s] \in {0, 1}
  PROVE  Sum(Kind(op), LocalWords(op, x, y))
           = LocalValue(op, Sum(OperandKind(op), x), Sum(OperandKind(op), y))
<1> DEFINE words == LocalWords(op, x, y)
<1>1. \A s \in 0 .. 3 : x[s] \in WordSet /\ y[s] \in WordSet
  BY DEF Secrets
<1>2. \A kind : Sum(kind, x) \in WordSet /\ Sum(kind, y) \in WordSet
  BY SumIsWord
<1>3. CASE op = "add_a"
  <2>1. words = Pluses("a", x, y)
    BY <1>3 DEF LocalWords, LocalWord, BinaryOps, Pluses, Plus
  <2>2. Sum("a", words) = Plus("a", Sum("a", x), Sum("a", y))
    BY <2>1, SumOfPluses
  <2> QED
    BY <1>3, <2>2 DEF Kind, OperandKind, LocalValue, Plus
<1>4. CASE op = "sub_a"
  <2>1. words = Minuses("a", x, y)
    BY <1>4 DEF LocalWords, LocalWord, BinaryOps, Minuses, Minus
  <2>2. Sum("a", words) = Minus("a", Sum("a", x), Sum("a", y))
    BY <2>1, SumOfMinuses
  <2> QED
    BY <1>4, <2>2 DEF Kind, OperandKind, LocalValue, Minus
<1>5. CASE op = "neg_a"
  <2>1. PICK zero \in Secrets : zero = Only(0, 0) /\ Sum("a", zero) = 0
    BY SumOfOne, Closure
  <2>2. \A s \in 0 .. 3 : zero[s] = 0
    BY <2>1 DEF Only
  <2>3. \A u \in WordSet : Wrap(0 - u) = Wrap(-u)
    <3>1. \A u \in WordSet : 0 - u = -u
      BY Closure
    <3> QED
      BY <3>1
  <2>4. words = Minuses("a", zero, x)
    <3>1. \A s \in 0 .. 3 : Wrap(-x[s]) = Wrap(zero[s] - x[s])
      BY <1>1, <2>2, <2>3
    <3> QED
      BY <1>5, <3>1 DEF LocalWords, LocalWord, BinaryOps, Minuses, Minus
  <2>5. Sum("a", words) = Minus("a", 0, Sum("a", x))
    BY <2>1, <2>4, SumOfMinuses
  <2>6. Minus("a", 0, Sum("a", x)) = Wrap(-Sum("a", x))
    BY <1>2, <2>3 DEF Minus
  <2> QED
    BY <1>5, <2>5, <2>6 DEF Kind, OperandKind, LocalValue
<1>6. CASE op = "xor_b"
  <2>1. words = Pluses("b", x, y)
    BY <1>6 DEF LocalWords, LocalWord, BinaryOps, Pluses, Plus
  <2>2. Sum("b", words) = Plus("b", Sum("b", x), Sum("b", y))
    BY <2>1, SumOfPluses
  <2> QED
    BY <1>6, <2>2 DEF Kind, OperandKind, LocalValue, Plus
<1>7. ASSUME NEW w \in WordSet, \A s \in 0 .. 3 : words[s] = IF s = 3 THEN Xor(x[s], w) ELSE x[s]
      PROVE  Sum("b", words) = Xor(Sum("b", x), w)
  <2>1. PICK one \in Secrets : one = Only(3, w) /\ Sum("b", one) = w
    BY SumOfOne
  <2>2. \A s \in 0 .. 3 : words[s] = Plus("b", x[s], one[s])
    BY <1>1, <1>7, <2>1, XorCancels DEF Only, Plus
  <2>3. words = Pluses("b", x, one)
    BY <2>2 DEF LocalWords, Pluses
  <2> QED
    BY <2>1, <2>3, SumOfPluses DEF Plus
<1>8. CASE op = "not_b"
  <2>1. \A s \in 0 .. 3 : words[s] = IF s = 3 THEN Xor(x[s], Not(0)) ELSE x[s]
    BY <1>1, <1>8, NotIsXor DEF LocalWords, LocalWord
  <2>2. Not(0) \in WordSet
    BY <1>2, NotIsXor
  <2>3. Sum("b", words) = Xor(Sum("b", x), Not(0))
    BY <1>7, <2>1, <2>2
  <2> QED
    BY <1>2, <1>8, <2>3, NotIsXor DEF Kind, OperandKind, LocalValue
<1>9. CASE op = "not_b_1"
  <2>1. \A s \in 0 .. 3 : words[s] = IF s = 3 THEN Xor(x[s], 1) ELSE x[s]
    BY <1>1, <1>9, NotIsXor DEF LocalWords, LocalWord
  <2>2. 1 \in WordSet /\ Sum("b", x) \in {0, 1}
    BY <1>9, SingleBits, SumOfSingles
  <2>3. Sum("b", words) = Xor(Sum("b", x), 1)
    BY <1>7, <2>1, <2>2
  <2> QED
    BY <1>2, <1>9, <2>2, <2>3, NotIsXor DEF Kind, OperandKind, LocalValue
<1>10. CASE op = "ltz"
  <2>1. Width - 1 \in Places /\ \A s \in 0 .. 3 : words[s] = Bit(x[s], Width - 1)
    BY <1>1, <1>10, SignBit DEF LocalWords, LocalWord
  <2>2. Sum("b", words) = Bit(Sum("b", x), Width - 1)
    BY <2>1, SumOfBits
  <2> QED
    BY <1>2, <1>10, <2>2, SignBit DEF Kind, OperandKind, LocalValue
<1> QED
  BY <1>3, <1>4, <1>5, <1>6, <1>8, <1>9, <1>10 DEF LocalOps, UnaryOps, BinaryOps

\* The bit that is opened is the low bit of the secret.
LEMMA OpenedIsLowBit ==
  ASSUME NEW x \in Secrets
  PROVE  LowBit(OpenedBit(x)) = LowBit(Sum("b", x))
<1>1. \A s \in 0 .. 3 : x[s] \in WordSet
  BY DEF Secrets
<1>2. PICK b : b = [s \in 0 .. 3 |-> LowBit(x[s])]
  OBVIOUS
<1>3. 0 \in Places /\ \A s \in 0 .. 3 : b[s] = Bit(x[s], 0)
  BY <1>1, <1>2, FirstBit DEF LowBit
<1>4. Sum("b", x) \in WordSet
  BY SumIsWord
<1>5. Sum("b", b) = Bit(Sum("b", x), 0)
  BY <1>3, SumOfBits
<1>6. Bit(Sum("b", x), 0) = LowBit(Sum("b", x)) /\ LowBit(Sum("b", x)) \in {0, 1}
  BY <1>3, <1>4, FirstBit, BitsAre DEF LowBit
<1>7. \A n \in {0, 1} : n % 2 = n
  OBVIOUS
<1> QED
  BY <1>2, <1>5, <1>6, <1>7 DEF OpenedBit, LowBit

LEMMA MinusZero ==
  ASSUME NEW kind, NEW u \in WordSet
  PROVE  Minus(kind, u, ZeroShare) = u
<1>1. 0 \in WordSet /\ Minus(kind, u, 0) \in WordSet
  BY Closure
<1>2. Plus(kind, Minus(kind, u, 0), 0) = u
  BY <1>1, PlusOf
<1> QED
  BY <1>1, <1>2, PlusZero DEF ZeroShare

LEMMA WrapSigned ==
  ASSUME NEW s \in WordSet
  PROVE  Signed(s) \in Range /\ Signed(s) \in Int /\ Wrap(Signed(s)) = s
<1>1. Signed(s) \in Range /\ Signed(s) \in Int
  BY SignedWord, HalfPower DEF Range
<1>2. s \in Int /\ Modulus \in Int /\ Modulus * (-1) = -Modulus
  BY Closure, WordsAreClosed
<1>3. Signed(s) = s \/ Signed(s) = s + Modulus * (-1)
  BY <1>2 DEF Signed
<1> QED
  BY <1>1, <1>2, <1>3, WrapShift, WrapWord

LEMMA RoundedKeeps ==
  ASSUME NEW n \in Int, NEW c \in Divisor, NEW less \in {0, c}
  PROVE  \E q, e \in Int : /\ RoundedDown(n, c, less).quotient = q
                           /\ RoundedDown(n, c, less).error = e
                           /\ q * c + e = n - less
<1>1. c \in Nat \ {0} /\ less \in Int
  BY HalfPower DEF Divisor
<1>2. Rounded(RoundedDown(n, c, less), n, c, less)
  BY <1>1, RoundedDownRounds
<1>3. PICK q \in Int, e \in Int : /\ q = RoundedDown(n, c, less).quotient
                                  /\ e = RoundedDown(n, c, less).error
                                  /\ n = c * q + (e + less)
  BY <1>2 DEF Rounded
<1>4. c * q = q * c /\ c * q \in Int
  BY <1>1
<1>5. q * c + e = n - less
  BY <1>1, <1>3, <1>4
<1> QED
  BY <1>3, <1>5

\* The numbers that are divided.
Addend(x, n) == Signed(IF n = 1 THEN Wrap(x[1] + x[2]) ELSE Wrap(x[3] + x[0]))
Less(c, n) == IF n = 1 THEN c ELSE 0

LEMMA AddendsAddUp ==
  ASSUME NEW x \in Secrets
  PROVE  /\ Addend(x, 1) \in Int /\ Addend(x, 2) \in Int
         /\ Wrap(x[1] + x[2]) \in WordSet /\ Wrap(x[3] + x[0]) \in WordSet
         /\ Wrap(Addend(x, 1)) = Wrap(x[1] + x[2]) /\ Wrap(Addend(x, 2)) = Wrap(x[3] + x[0])
         /\ Wrap(Addend(x, 1) + Addend(x, 2)) = Sum("a", x)
<1>1. PICK u \in WordSet, v \in WordSet, w \in WordSet, z \in WordSet :
        u = x[1] /\ v = x[2] /\ w = x[3] /\ z = x[0]
  BY DEF Secrets
<1>2. u \in Int /\ v \in Int /\ w \in Int /\ z \in Int
  BY Closure
<1>3. PICK i \in Int, j \in Int : i = u + v /\ j = w + z
  BY <1>2
<1>4. Wrap(i) \in WordSet /\ Wrap(j) \in WordSet
  BY WordsAreClosed
<1>5. Addend(x, 1) = Signed(Wrap(i)) /\ Addend(x, 2) = Signed(Wrap(j))
  BY <1>1, <1>3 DEF Addend
<1>6. PICK a \in Int, b \in Int : /\ a = Addend(x, 1) /\ b = Addend(x, 2)
                                  /\ Wrap(a) = Wrap(i) /\ Wrap(b) = Wrap(j)
  BY <1>4, <1>5, WrapSigned
<1>7. Wrap(a + b) = Wrap(i + j)
  BY <1>6, TwoTerms
<1>8. Sum("a", x) = Wrap(i + j)
  <2>1. Sum("a", x) = Wrap(Wrap(Wrap(u + v) + w) + z)
    BY <1>1 DEF Sum, Plus
  <2>2. Wrap(Wrap(i) + w) = Wrap(i + w) /\ i + w \in Int
    BY <1>2, WrapTerms
  <2>3. Wrap(Wrap(i + w) + z) = Wrap((i + w) + z)
    BY <1>2, <2>2, WrapTerms
  <2>4. (i + w) + z = i + j
    BY <1>2, <1>3
  <2> QED
    BY <1>3, <2>1, <2>2, <2>3, <2>4
<1> QED
  BY <1>1, <1>3, <1>4, <1>6, <1>7, <1>8

LEMMA InpWordIs ==
  ASSUME NEW op, NEW n \in {1, 2}, NEW reg, NEW c \in Divisor, NEW x \in Secrets
  PROVE  LET part == RoundedDown(Addend(x, n), c, Less(c, n))
         IN  /\ InpWord(Inp(op, "sum", n, reg, c), x) = Wrap(Addend(x, n))
             /\ InpWord(Inp(op, "quotient", n, reg, c), x) = Wrap(part.quotient)
             /\ InpWord(Inp(op, "error", n, reg, c), x) = Wrap(part.error)
<1> DEFINE sum == Addend(x, n)
           part == RoundedDown(sum, c, Less(c, n))
<1>1. /\ Relative(0, 1) = 1 /\ Relative(0, 2) = 2 /\ Relative(2, 1) = 3 /\ Relative(2, 2) = 0
  BY Around
<1>2. /\ Wrap(sum) \in WordSet /\ Wrap(part.quotient) \in WordSet /\ Wrap(part.error) \in WordSet
  <2>1. sum \in Int
    BY AddendsAddUp DEF sum
  <2>2. \E q, e \in Int : part.quotient = q /\ part.error = e
    <3>1. Less(c, n) \in {0, c}
      BY DEF Less
    <3> QED
      BY <2>1, <3>1, RoundedKeeps DEF part
  <2> HIDE DEF sum, part
  <2> QED
    BY <2>1, <2>2, WordsAreClosed
<1>3. ASSUME NEW vector, NEW known \in WordSet,
             known = CASE vector = "sum"      -> Wrap(sum)
                       [] vector = "quotient" -> Wrap(part.quotient)
                       [] vector = "error"    -> Wrap(part.error)
      PROVE  InpWord(Inp(op, vector, n, reg, c), x) = known
  <2> DEFINE instr == Inp(op, vector, n, reg, c)
  <2>1. /\ instr.op = op /\ instr.vector = vector /\ instr.roles = Roles[n] /\ instr.c = c
    BY DEF Inp
  <2>2. instr.roles.i = IF n = 1 THEN 0 ELSE 2
    BY <2>1 DEF Roles
  <2>3. Signed(Wrap(x[Relative(instr.roles.i, 1)] + x[Relative(instr.roles.i, 2)])) = sum
    BY <1>1, <2>2 DEF Addend
  <2>4. (IF instr.roles.i = 0 THEN DivisionParts(4, sum, sum, c)[1]
                              ELSE DivisionParts(4, sum, sum, c)[2]) = part
    BY <2>2 DEF DivisionParts, Less
  <2> HIDE DEF instr, sum, part
  <2>5. KnownWord(instr, x) = known
    BY <1>3, <2>1, <2>3, <2>4 DEF KnownWord
  <2> QED
    BY <1>3, <2>5, MinusZero DEF InpWord, instr
<1> HIDE DEF sum, part
<1>4. InpWord(Inp(op, "sum", n, reg, c), x) = Wrap(sum)
  BY <1>2, <1>3
<1>5. InpWord(Inp(op, "quotient", n, reg, c), x) = Wrap(part.quotient)
  BY <1>2, <1>3
<1>6. InpWord(Inp(op, "error", n, reg, c), x) = Wrap(part.error)
  BY <1>2, <1>3
<1> QED
  BY <1>4, <1>5, <1>6 DEF sum, part

\* The quotients and the errors make up what is divided, less c.
LEMMA DivisionAddsUp ==
  ASSUME NEW x \in Secrets, NEW c \in Divisor, NEW reg, NEW n \in {1, 2}, NEW m \in {1, 2}, m # n
  PROVE  LET share(vector, k) == InpWord(Inp("div_const_a", vector, k, reg, c), x)
         IN  Wrap(Plus("a", share("quotient", n), share("quotient", m)) * c
                    + Plus("a", share("error", n), share("error", m)))
               = Wrap(Sum("a", x) - c)
<1>1. c \in Int /\ c \in Divisor
  BY HalfPower DEF Divisor
<1>2. PICK a \in Int, b \in Int : a = Addend(x, n) /\ b = Addend(x, m) /\ Wrap(a + b) = Sum("a", x)
  <2>1. /\ Addend(x, 1) \in Int /\ Addend(x, 2) \in Int
        /\ Wrap(Addend(x, 1) + Addend(x, 2)) = Sum("a", x)
    BY AddendsAddUp
  <2>2. Addend(x, 1) + Addend(x, 2) = Addend(x, 2) + Addend(x, 1)
    BY <2>1
  <2>3. (n = 1 /\ m = 2) \/ (n = 2 /\ m = 1)
    OBVIOUS
  <2> QED
    BY <2>1, <2>2, <2>3
<1>3. PICK q \in Int, e \in Int :
        /\ RoundedDown(a, c, Less(c, n)).quotient = q /\ RoundedDown(a, c, Less(c, n)).error = e
        /\ q * c + e = a - Less(c, n)
  BY RoundedKeeps DEF Less
<1>4. PICK r \in Int, f \in Int :
        /\ RoundedDown(b, c, Less(c, m)).quotient = r /\ RoundedDown(b, c, Less(c, m)).error = f
        /\ r * c + f = b - Less(c, m)
  BY RoundedKeeps DEF Less
<1>5. /\ InpWord(Inp("div_const_a", "quotient", n, reg, c), x) = Wrap(q)
      /\ InpWord(Inp("div_const_a", "quotient", m, reg, c), x) = Wrap(r)
      /\ InpWord(Inp("div_const_a", "error", n, reg, c), x) = Wrap(e)
      /\ InpWord(Inp("div_const_a", "error", m, reg, c), x) = Wrap(f)
  <2>1. \A k \in {1, 2} :
          /\ InpWord(Inp("div_const_a", "quotient", k, reg, c), x)
               = Wrap(RoundedDown(Addend(x, k), c, Less(c, k)).quotient)
          /\ InpWord(Inp("div_const_a", "error", k, reg, c), x)
               = Wrap(RoundedDown(Addend(x, k), c, Less(c, k)).error)
    BY InpWordIs
  <2> QED
    BY <1>2, <1>3, <1>4, <2>1
<1>6. Plus("a", Wrap(q), Wrap(r)) = Wrap(q + r) /\ Plus("a", Wrap(e), Wrap(f)) = Wrap(e + f)
  BY TwoTerms DEF Plus
<1>7. PICK s \in Int, g \in Int, i \in Int, j \in Int, h \in Int :
        s = q + r /\ g = e + f /\ i = q * c /\ j = r * c /\ h = s * c
  BY <1>1
<1>8. h = i + j
  BY <1>1, <1>7
<1>9. h + g = (a + b) - c
  <2>1. i + e = a - Less(c, n) /\ j + f = b - Less(c, m)
    BY <1>3, <1>4, <1>7
  <2>2. Less(c, n) \in Int /\ Less(c, m) \in Int /\ Less(c, n) + Less(c, m) = c
    BY <1>1 DEF Less
  <2> QED
    BY <1>1, <1>7, <1>8, <2>1, <2>2
<1>10. Wrap(Wrap(s) * c + Wrap(g)) = Wrap(h + g)
  <2>1. Wrap(Wrap(s) * c) = Wrap(h)
    BY <1>1, <1>7, WrapTerms
  <2>2. PICK z \in Int : z = Wrap(s) * c
    <3>1. PICK t \in Int : t = Wrap(s)
      BY WrapIsInt
    <3> QED
      BY <1>1, <3>1, TimesInt
  <2>3. Wrap(z + Wrap(g)) = Wrap(z + g) /\ Wrap(Wrap(z) + g) = Wrap(z + g)
        /\ Wrap(Wrap(h) + g) = Wrap(h + g)
    BY WrapTerms
  <2> QED
    BY <2>1, <2>2, <2>3
<1>11. Wrap(Wrap(a + b) - c) = Wrap((a + b) - c)
  <2>1. a + b \in Int
    OBVIOUS
  <2> QED
    BY <1>1, <2>1, WrapTerms
<1> QED
  BY <1>2, <1>5, <1>6, <1>7, <1>9, <1>10, <1>11

LEMMA RedistributionAddsUp ==
  ASSUME NEW x \in Secrets, NEW op, NEW reg, NEW c \in Divisor
  PROVE  LET share(k) == InpWord(Inp(op, "sum", k, reg, c), x)
         IN  Wrap(share(1) + share(2)) = Sum("a", x)
<1>1. PICK a \in Int, b \in Int : a = Addend(x, 1) /\ b = Addend(x, 2) /\ Wrap(a + b) = Sum("a", x)
  BY AddendsAddUp
<1>2. /\ InpWord(Inp(op, "sum", 1, reg, c), x) = Wrap(a)
      /\ InpWord(Inp(op, "sum", 2, reg, c), x) = Wrap(b)
  <2>1. \A k \in {1, 2} : InpWord(Inp(op, "sum", k, reg, c), x) = Wrap(Addend(x, k))
    BY InpWordIs
  <2> QED
    BY <1>1, <2>1
<1>3. Wrap(Wrap(a) + Wrap(b)) = Wrap(a + b)
  BY TwoTerms
<1> QED
  BY <1>1, <1>2, <1>3

LEMMA TruthSame ==
  ASSUME UNCHANGED <<program, regs, plain, dealt, pc>>, NEW truth, TruthInv(truth)
  PROVE  TruthInv(truth)'
<1>1. \A k : Value(truth, k)' = Value(truth, k)
  BY SameWords
<1>2. \A p \in Parties : HeldInv(truth, p)'
  BY DEF TruthInv, HeldInv
<1>3. \A k \in 2 .. Len(truth) : program'[k].op \notin ShareOps => truth[k] = Value(truth, k)'
  BY <1>1 DEF TruthInv
<1>4. SharedInv(truth)'
  BY DEF TruthInv, SharedInv
<1> QED
  BY <1>2, <1>3, <1>4 DEF TruthInv

\* Messages are heard, or nothing happens at all.
LEMMA SameValues ==
  ASSUME UNCHANGED <<program, regs, plain, dealt, pc, calls>>,
         NEW mail, NEW truth, TruthInv(truth), NEW bad, SaidInv(mail, truth, bad)
  PROVE  TruthInv(truth)' /\ SaidInv(mail, truth, bad)'
<1>1. TruthInv(truth)'
  BY TruthSame
<1>2. \A a : SendPos(a)' = SendPos(a)
  BY DEF SendPos
<1>3. \A q \in Parties, k \in 2 .. Len(program), n \in 0 .. 4 : \A a :
        /\ From(k, q, n) = a /\ a # NoParty
        /\ 16 * k + SentAs(k, q, n) < SendPos(a)'
        => 16 * k + SentAs(k, q, n) < SendPos(a)
  BY <1>2
<1> QED
  BY <1>1, <1>3, SaidSame

LEMMA CallKeepsValues ==
  ASSUME Types, Counts, PlainInv, NEW p \in Parties, MayCall(p), NEW m, CallStep(p, m),
         NextTo(p) # NoParty => m \in WordSet /\ m = Message(p),
         NEW mail, MailInv(mail), NEW mail2, mail2 = CallMail(mail, p, m),
         NEW truth, TruthInv(truth), NEW bad, SaidInv(mail, truth, bad)
  PROVE  TruthInv(truth)' /\ SaidInv(mail2, truth, bad)'
<1>1. UNCHANGED <<program, regs, plain, dealt, pc>>
  BY DEF CallStep
<1>2. CountInv(p) /\ mail \in [Parties -> [Nat -> WordSet]]
  BY DEF Counts, MailInv
<1>3. /\ program \in Programs /\ DealsItself(program) /\ pc[p] \in 2 .. Len(program)
      /\ pc[p] \in Nat /\ Active(p) /\ calls[p] < Calls(pc[p], p) /\ calls[p] \in 0 .. 9
      /\ calls[p] \in Nat /\ Len(program) \in Nat /\ SendPos(p) \in Nat
  BY <1>2, Ranges DEF MayCall, Types
<1>4. SendPos(p)' = SendPos(p) + 1 /\ \A q \in Parties : q # p => SendPos(q)' = SendPos(q)
  BY <1>2, CallFacts, Elsewhere
<1>5. \A q \in Parties : \A s \in Nat :
        mail2[q][s] = IF NextTo(p) # NoParty /\ q = NextTo(p) /\ s = NextSlot(p) THEN m ELSE mail[q][s]
  <2>1. NextTo(p) # NoParty => m \in WordSet
    OBVIOUS
  <2>2. Delivered(mail, CallMail(mail, p, m), NextTo(p), NextSlot(p), m)
    BY <1>2, <2>1, CallMailIs
  <2> QED
    BY <2>2 DEF Delivered
<1>6. ASSUME NEW q \in Parties, NEW k \in 2 .. Len(program), NEW n \in 0 .. 4, NEW a,
             From(k, q, n) = a, a # NoParty,
             16 * k + SentAs(k, q, n) < SendPos(a)', <<q, 16 * k + n>> # bad
      PROVE  mail2[q][16 * k + n] = Said(truth, k, q, n)
  <2>1. k \in Nat /\ n \in Nat /\ n \in 0 .. 15 /\ 16 * k + n \in Nat
    BY <1>3
  <2>2. HearIsSent(k, q, n)
    BY <1>3, <1>6, <2>1, SchedulePart
  <2>3. PICK x \in 0 .. 8 : x = SentAs(k, q, n)
    BY <2>2 DEF HearIsSent
  <2>4. a \in Parties /\ 16 * k + x \in Nat
    BY <1>6, <2>1, <2>2 DEF HearIsSent
  <2>5. 16 * k + n \in Slots(a, q) /\ SendsAt(q)[16 * k + n] = 16 * k + x
    <3>1. \A j \in 2 .. Len(program), c \in 0 .. 15 :
            16 * j + c \in Slots(a, q) <=> From(j, q, c) = a
      BY <1>3, <2>4, SlotFacts
    <3>2. \A j \in Nat, c \in 0 .. 15 : SendsAt(q)[16 * j + c] = 16 * j + SentAs(j, q, c)
      BY <1>3, <2>4, SlotFacts
    <3> QED
      BY <1>6, <2>1, <2>3, <3>1, <3>2
  <2>6. CASE ~(a = p /\ 16 * k + x = SendPos(p))
    <3>1. 16 * k + x < SendPos(a)
      <4>1. CASE a = p
        <5>1. 16 * k + x < SendPos(p) + 1 /\ 16 * k + x # SendPos(p)
          BY <1>4, <1>6, <2>3, <2>6, <4>1
        <5>2. 16 * k + x < SendPos(p)
          BY ONLY <1>3, <2>4, <5>1
        <5> QED
          BY <4>1, <5>2
      <4>2. CASE a # p
        BY <1>4, <1>6, <2>3, <2>4, <4>2
      <4> QED
        BY <4>1, <4>2
    <3>2. mail[q][16 * k + n] = Said(truth, k, q, n)
      BY <1>6, <2>3, <3>1 DEF SaidInv
    <3>3. ~(NextTo(p) # NoParty /\ q = NextTo(p) /\ 16 * k + n = NextSlot(p))
      <4> SUFFICES ASSUME NextTo(p) # NoParty, q = NextTo(p), 16 * k + n = NextSlot(p)
                   PROVE  FALSE
        OBVIOUS
      <4>1. NextSlot(p) \in Slots(p, NextTo(p)) /\ SendsAt(NextTo(p))[NextSlot(p)] = SendPos(p)
        BY <1>2, <1>3, SentNext
      <4>2. 16 * k + n \in Slots(p, q) /\ 16 * k + x = SendPos(p)
        BY <2>5, <4>1
      <4>3. a = p
        BY <2>4, <2>5, <4>2, SlotsApart
      <4> QED
        BY <2>6, <4>2, <4>3
    <3> QED
      BY <1>5, <2>1, <3>2, <3>3
  <2>7. CASE a = p /\ 16 * k + x = SendPos(p)
    <3>1. NextTo(p) # NoParty /\ q = NextTo(p) /\ 16 * k + n = NextSlot(p)
      <4>1. \A b \in Parties : \A s \in Slots(p, b) :
              SendsAt(b)[s] = SendPos(p) => NextTo(p) # NoParty /\ b = NextTo(p) /\ s = NextSlot(p)
        BY <1>2, <1>3, SentNext
      <4> QED
        BY <2>5, <2>7, <4>1
    <3>2. SendIsHeard(pc[p], p, calls[p])
      BY <1>3, <3>1, SchedulePart DEF NextTo
    <3>3. PICK h \in 0 .. 4 : h = HeardAs(pc[p], p, calls[p])
      BY <3>2 DEF SendIsHeard
    <3>4. k = pc[p] /\ n = h
      <4>1. 16 * k + n = 16 * pc[p] + h /\ h \in 0 .. 15
        BY <3>1, <3>3 DEF NextSlot
      <4> QED
        BY <1>3, <2>1, <4>1, PositionsOrder
    <3>5. mail2[q][16 * k + n] = m
      BY <1>5, <2>1, <3>1
    <3>6. m = Said(truth, pc[p], NextTo(p), HeardAs(pc[p], p, calls[p]))
      BY <3>1, MessageIsSaid
    <3> QED
      BY <3>1, <3>3, <3>4, <3>5, <3>6
  <2> QED
    BY <2>6, <2>7
<1>7. \A q \in Parties, k \in 2 .. Len(program), n \in 0 .. 4 : \A a :
        /\ From(k, q, n) = a /\ a # NoParty
        /\ 16 * k + SentAs(k, q, n) < SendPos(a)'
        /\ <<q, 16 * k + n>> # bad
        => mail2[q][16 * k + n] = Said(truth, k, q, n)
  BY <1>6
<1>8. SaidInv(mail2, truth, bad)'
  BY <1>1, <1>7, SaidNext
<1> QED
  BY <1>1, <1>8, TruthSame

\* A message of a program that compares them is altered.
LEMMA AlterKeepsValues ==
  ASSUME Types, NEW mail, mail \in [Parties -> [Nat -> WordSet]],
         NEW link \in Links, Alter(link),
         NEW truth, TruthInv(truth), SaidInv(mail, truth, Nowhere),
         NEW b \in Parties, NEW s \in Nat, NEW word \in WordSet,
         NEW mail2, mail2 = [mail EXCEPT ![b] = [mail[b] EXCEPT ![s] = word]]
  PROVE  TruthInv(truth)' /\ SaidInv(mail2, truth, <<b, s>>)'
<1>1. UNCHANGED <<program, regs, plain, dealt, pc, calls>>
  BY DEF Alter
<1>2. \A a : SendPos(a)' = SendPos(a)
  BY <1>1 DEF SendPos
<1>3. \A q \in Parties, t \in Nat : <<q, t>> # <<b, s>> => mail2[q][t] = mail[q][t]
  OBVIOUS
<1>4. ASSUME NEW q \in Parties, NEW k \in 2 .. Len(program), NEW n \in 0 .. 4, NEW a,
             From(k, q, n) = a, a # NoParty,
             16 * k + SentAs(k, q, n) < SendPos(a)', <<q, 16 * k + n>> # <<b, s>>
      PROVE  mail2[q][16 * k + n] = Said(truth, k, q, n)
  <2>1. <<q, 16 * k + n>> # Nowhere
    BY Around DEF Nowhere
  <2>2. mail[q][16 * k + n] = Said(truth, k, q, n)
    BY <1>2, <1>4, <2>1 DEF SaidInv
  <2>3. 16 * k + n \in Nat
    <3>1. Len(program) \in Nat
      BY Instructions DEF Types
    <3> QED
      BY <3>1
  <2> QED
    BY <1>3, <1>4, <2>2, <2>3
<1>5. \A q \in Parties, k \in 2 .. Len(program), n \in 0 .. 4 : \A a :
        /\ From(k, q, n) = a /\ a # NoParty
        /\ 16 * k + SentAs(k, q, n) < SendPos(a)'
        /\ <<q, 16 * k + n>> # <<b, s>>
        => mail2[q][16 * k + n] = Said(truth, k, q, n)
  BY <1>4
<1>6. SaidInv(mail2, truth, <<b, s>>)'
  <2>1. PICK bad : bad = <<b, s>>
    OBVIOUS
  <2>2. \A q \in Parties, k \in 2 .. Len(program), n \in 0 .. 4 : \A a :
        /\ From(k, q, n) = a /\ a # NoParty
        /\ 16 * k + SentAs(k, q, n) < SendPos(a)'
        /\ <<q, 16 * k + n>> # bad
        => mail2[q][16 * k + n] = Said(truth, k, q, n)
    BY <1>5, <2>1
  <2>3. SaidInv(mail2, truth, bad)'
    BY <1>1, <2>2, SaidNext
  <2> QED
    BY <2>1, <2>3
<1> QED
  BY <1>1, <1>6, TruthSame

\* More secrets leave those there are as they are.
LEMMA TruthExtends ==
  ASSUME Types, Counts, PlainInv, NEW truth, TruthInv(truth),
         NEW truth2, SameUpTo(Len(truth), truth2, truth)
  PROVE  /\ \A k \in 2 .. Len(truth) :
              program[k].op \notin ShareOps => truth2[k] = Value(truth2, k)
         /\ \A q \in Parties : HeldInv(truth2, q)
         /\ dealt[0] # <<>> => \A q \in Parties : dealt[0][q + 1] = Share(truth2[pc[0]], q)
<1>1. /\ program \in Programs /\ Len(truth) = Len(plain) /\ Len(plain) \in Nat
      /\ Len(program) \in Nat /\ Len(plain) <= Len(program)
  BY TruthRange DEF Types, TruthInv
<1>2. PICK L \in Nat : L = Len(truth)
  BY <1>1
<1>3. SameUpTo(L, truth2, truth) /\ \A j \in 1 .. L : truth2[j] = truth[j]
  BY <1>2 DEF SameUpTo
<1>4. ASSUME NEW k \in 2 .. Len(truth), program[k].op \notin ShareOps
      PROVE  truth2[k] = Value(truth2, k)
  <2>1. k \in 1 .. L /\ k \in 1 .. Len(program) /\ k - 1 <= L
    BY <1>1, <1>2
  <2>2. Value(truth2, k) = Value(truth, k)
    BY <1>1, <1>3, <1>4, <2>1, ValueStable
  <2> QED
    BY <1>3, <1>4, <2>1, <2>2 DEF TruthInv
<1>5. ASSUME NEW q \in Parties
      PROVE  HeldInv(truth2, q)
  <2>1. Len(regs[q]) \in Nat /\ Len(regs[q]) <= L
    BY <1>1, <1>2, RegsPlain
  <2>2. \A k \in 1 .. Len(regs[q]) : k \in 1 .. L
    BY <2>1
  <2>3. HeldInv(truth, q)
    BY DEF TruthInv
  <2> QED
    BY <1>3, <2>2, <2>3 DEF HeldInv
<1>6. ASSUME dealt[0] # <<>>
      PROVE  \A q \in Parties : dealt[0][q + 1] = Share(truth2[pc[0]], q)
  <2>1. 0 \in Parties
    BY Around
  <2>2. CountInv(0)
    BY <2>1 DEF Counts
  <2>3. /\ Reached(0) = Len(regs[0]) + 1 /\ Reached(0) <= Len(plain)
        /\ pc[0] = Len(regs[0]) + 1 /\ pc[0] \in Nat /\ pc[0] >= 2
    BY <1>6, <2>1, <2>2, RegsPlain, Ranges
  <2>4. pc[0] \in 1 .. L
    BY <1>1, <1>2, <2>3
  <2>5. truth2[pc[0]] = truth[pc[0]]
    BY <1>3, <2>4
  <2> QED
    BY <1>6, <2>5 DEF TruthInv
<1> QED
  BY <1>4, <1>5, <1>6

LEMMA DealKeepsValues ==
  ASSUME Types, Counts, PlainInv, NEW mail, MailInv(mail), NEW truth, TruthInv(truth),
         NEW bad, SaidInv(mail, truth, bad), NEW rows, NEW data, DealStep(rows, data),
         NEW words \in Secrets, \A q \in Parties : rows[q + 1] = Share(words, q),
         Sum(Kind(Instr(0).op), words) = data,
         NEW truth2, truth2 = Append(truth, words)
  PROVE  TruthInv(truth2)' /\ SaidInv(mail, truth2, bad)'
<1>1. /\ Active(0) /\ Instr(0).op \in ShareOps /\ dealt' = [dealt EXCEPT ![0] = rows]
      /\ plain' = Append(plain, data) /\ program' = program /\ pc' = pc /\ regs' = regs
      /\ calls' = calls
  BY DEF DealStep, netVars
<1>2. 0 \in Parties
  BY Around
<1>3. CountInv(0)
  BY <1>2 DEF Counts
<1>4. pc[0] \in 2 .. Len(program) /\ Len(plain) = pc[0] - 1 /\ pc[0] \in Nat
  BY <1>1, <1>2, <1>3, Ranges, NobodyAhead DEF DealStep
<1>5. truth \in Seq(Secrets) /\ Len(truth) = Len(plain)
  BY DEF TruthInv
<1>6. /\ truth2 \in Seq(Secrets) /\ Len(truth2) = Len(truth) + 1
      /\ \A j \in 1 .. Len(truth) : truth2[j] = truth[j]
      /\ truth2[Len(truth) + 1] = words
  BY <1>5
<1>7. SameUpTo(Len(truth), truth2, truth)
  BY <1>6 DEF SameUpTo
<1>8. /\ \A k \in 2 .. Len(truth) : program[k].op \notin ShareOps => truth2[k] = Value(truth2, k)
      /\ \A q \in Parties : HeldInv(truth2, q)
  BY <1>7, TruthExtends
<1>9. Len(truth) + 1 = pc[0] /\ Len(truth) \in Nat /\ truth2[pc[0]] = words
  <2>1. Len(truth) + 1 = pc[0] /\ Len(truth) \in Nat
    BY <1>4, <1>5
  <2> QED
    BY <1>6, <2>1
<1>10. \A k : Value(truth2, k)' = Value(truth2, k)
  BY <1>1, SameWords
<1>11. \A k \in 2 .. Len(truth2) : program'[k].op \notin ShareOps => truth2[k] = Value(truth2, k)'
  <2>1. \A k \in 2 .. Len(truth2) : k \in 2 .. Len(truth) \/ k = pc[0]
    BY <1>6, <1>9
  <2>2. program[pc[0]].op \in ShareOps
    BY <1>1 DEF Instr
  <2> QED
    BY <1>1, <1>8, <1>10, <2>1, <2>2
<1>12. \A q \in Parties : HeldInv(truth2, q)'
  BY <1>1, <1>8 DEF HeldInv
<1>13. Len(plain') = Len(plain) + 1
  BY <1>1 DEF Types
<1>14. dealt'[0] = rows
  BY <1>1, <1>2 DEF Types
<1>15. TruthInv(truth2)'
  <2>0. SharedInv(truth2)'
    <3>1. /\ \A k \in 1 .. Len(truth) : plain'[k] = plain[k]
          /\ plain'[pc[0]] = data
      BY <1>1, <1>4, <1>5, <1>9 DEF Types
    <3>2. \A k \in 1 .. Len(truth2) : k \in 1 .. Len(truth) \/ k = pc[0]
      BY <1>6, <1>9
    <3>3. Sum(Kind(program[pc[0]].op), truth2[pc[0]]) = plain'[pc[0]]
      BY <1>9, <3>1 DEF Instr
    <3>4. \A k \in 1 .. Len(truth) :
            program[k].op \in ShareOps => Sum(Kind(program[k].op), truth2[k]) = plain'[k]
      BY <1>6, <3>1 DEF TruthInv, SharedInv
    <3> QED
      BY <1>1, <3>2, <3>3, <3>4 DEF SharedInv
  <2>1. \A q \in Parties : dealt'[0][q + 1] = Share(truth2[pc'[0]], q)
    BY <1>1, <1>9, <1>14
  <2> QED
    BY <1>5, <1>6, <1>11, <1>12, <1>13, <2>0, <2>1 DEF TruthInv
<1>16. SaidInv(mail, truth2, bad)
  BY <1>7, SaidExtends
<1>17. \A a : SendPos(a)' = SendPos(a)
  BY <1>1 DEF SendPos
<1>18. \A q \in Parties, k \in 2 .. Len(program), n \in 0 .. 4 : \A a :
        /\ From(k, q, n) = a /\ a # NoParty
        /\ 16 * k + SentAs(k, q, n) < SendPos(a)'
        => 16 * k + SentAs(k, q, n) < SendPos(a)
  BY <1>17
<1> QED
  BY <1>1, <1>15, <1>16, <1>18, SaidSame

\* A party goes on to the next instruction, and has sent nothing in between.
LEMMA ReturnSends ==
  ASSUME Types, Counts, NEW p \in Parties, NEW r, NEW values, MayReturn(p, r, values),
         Finish(p, <<r>>, values), NEW mail, NEW truth, NEW bad, SaidInv(mail, truth, bad)
  PROVE  SaidInv(mail, truth, bad)'
<1>1. \A q \in Parties : CountInv(q)
  BY DEF Counts
<1>2. /\ program' = program
      /\ \A q \in Parties : q # p => /\ pc'[q] = pc[q] /\ calls'[q] = calls[q]
                                    /\ receiving'[q] = receiving[q] /\ got'[q] = got[q]
                                    /\ regs'[q] = regs[q] /\ dealt'[q] = dealt[q]
      /\ pc[p] \in Nat /\ calls[p] \in 0 .. 9 /\ calls[p] \in Nat
      /\ SendPos(p) = 16 * pc[p] + calls[p] /\ SendPos(p)' = 16 * (pc[p] + 1)
  BY <1>1, ReturnFacts DEF Types
<1>3. \A q \in Parties : q # p => SendPos(q)' = SendPos(q)
  BY <1>2, Elsewhere
<1>4. program \in Programs /\ DealsItself(program) /\ calls[p] = Calls(pc[p], p)
  BY DEF Types, MayReturn
<1>5. ASSUME NEW q \in Parties, NEW k \in 2 .. Len(program), NEW n \in 0 .. 4, NEW a,
             From(k, q, n) = a, a # NoParty, 16 * k + SentAs(k, q, n) < SendPos(a)'
      PROVE  16 * k + SentAs(k, q, n) < SendPos(a)
  <2>1. k \in Nat /\ n \in Nat
    <3>1. Len(program) \in Nat
      BY <1>4, Instructions
    <3> QED
      BY <3>1
  <2>2. HearIsSent(k, q, n)
    BY <1>4, <1>5, <2>1, SchedulePart
  <2>3. PICK x \in 0 .. 8 : x = SentAs(k, q, n)
    BY <2>2 DEF HearIsSent
  <2>4. a \in Parties /\ x < Calls(k, a)
    BY <1>5, <2>2, <2>3 DEF HearIsSent
  <2>5. CASE a # p
    BY <1>3, <1>5, <2>4, <2>5
  <2>6. CASE a = p
    <3>1. 16 * k + x < 16 * (pc[p] + 1)
      BY <1>2, <1>5, <2>3, <2>6
    <3>2. CASE 16 * pc[p] + calls[p] <= 16 * k + x
      <4>1. k = pc[p] /\ calls[p] <= x
        BY <1>2, <2>1, <3>1, <3>2, Between
      <4>2. x < calls[p] /\ x \in Nat
        BY <1>4, <2>4, <2>6, <4>1
      <4> QED
        BY ONLY <1>2, <4>1, <4>2
    <3>3. CASE ~(16 * pc[p] + calls[p] <= 16 * k + x)
      <4>1. 16 * k + x < 16 * pc[p] + calls[p]
        BY ONLY <1>2, <2>1, <3>3, x \in 0 .. 8
      <4> QED
        BY <1>2, <2>3, <2>6, <4>1
    <3> QED
      BY <3>2, <3>3
  <2> QED
    BY <2>5, <2>6
<1>6. \A q \in Parties, k \in 2 .. Len(program), n \in 0 .. 4 : \A a :
        /\ From(k, q, n) = a /\ a # NoParty
        /\ 16 * k + SentAs(k, q, n) < SendPos(a)'
        => 16 * k + SentAs(k, q, n) < SendPos(a)
  BY <1>5
<1> QED
  BY <1>2, <1>6, SaidSame

LEMMA ReturnKeepsValues ==
  ASSUME Types, Counts, PlainInv, NEW mail, MailInv(mail), NEW truth, TruthInv(truth),
         NEW bad, SaidInv(mail, truth, bad), NEW p \in Parties, NEW r, NEW values,
         MayReturn(p, r, values), Finish(p, <<r>>, values),
         NEW w \in Secrets, HeldAs(r, Instr(p).op, w, p),
         Instr(p).op \notin ShareOps => w = Value(truth, pc[p]),
         Instr(p).op \in ShareOps => pc[p] <= Len(truth),
         pc[p] <= Len(truth) => w = truth[pc[p]],
         NEW truth2, truth2 = IF pc[p] <= Len(truth) THEN truth ELSE Append(truth, w)
  PROVE  TruthInv(truth2)' /\ SaidInv(mail, truth2, bad)'
<1>1. \A q \in Parties : CountInv(q)
  BY DEF Counts
<1>2. /\ program' = program
      /\ \A q \in Parties : q # p => /\ pc'[q] = pc[q] /\ calls'[q] = calls[q]
                                    /\ receiving'[q] = receiving[q] /\ got'[q] = got[q]
                                    /\ regs'[q] = regs[q] /\ dealt'[q] = dealt[q]
      /\ dealt'[p] = <<>> /\ regs'[p] = Append(regs[p], r)
      /\ pc[p] \in 2 .. Len(program) /\ pc[p] \in Nat /\ Len(program) \in Nat
  BY <1>1, ReturnFacts
<1>3. /\ plain' = IF Len(plain) > Len(regs[p]) THEN plain ELSE plain \o values
      /\ plain \in Seq(WordSet \cup {Unknown})
  BY DEF Finish, Return, Types
<1>4. /\ Len(regs[p]) = pc[p] - 1 /\ Len(regs[p]) <= Len(plain) /\ Len(plain) \in Nat
      /\ Len(regs[p]) \in Nat
  BY RegsPlain
<1>5. truth \in Seq(Secrets) /\ Len(truth) = Len(plain) /\ program \in Programs
  BY DEF TruthInv, Types
<1>6. /\ truth2 \in Seq(Secrets) /\ Len(truth2) \in Nat
      /\ SameUpTo(Len(truth), truth2, truth)
      /\ truth2[pc[p]] = w /\ pc[p] \in 1 .. Len(truth2)
      /\ Len(truth2) = IF pc[p] <= Len(truth) THEN Len(truth) ELSE pc[p]
  <2>1. CASE pc[p] <= Len(truth)
    <3>1. pc[p] \in 1 .. Len(truth)
      BY <1>2, <1>4, <1>5, <2>1
    <3> QED
      BY <1>4, <1>5, <2>1, <3>1 DEF SameUpTo
  <2>2. CASE ~(pc[p] <= Len(truth))
    <3>1. pc[p] = Len(truth) + 1 /\ Len(truth) \in Nat
      BY <1>2, <1>4, <1>5, <2>2
    <3>2. /\ truth2 \in Seq(Secrets) /\ Len(truth2) = Len(truth) + 1
          /\ \A j \in 1 .. Len(truth) : truth2[j] = truth[j]
          /\ truth2[Len(truth) + 1] = w
      BY <1>5, <2>2
    <3> QED
      BY <1>2, <2>2, <3>1, <3>2 DEF SameUpTo
  <2> QED
    BY <2>1, <2>2
<1>7. Len(plain') = Len(truth2)
  <2>1. CASE pc[p] <= Len(truth)
    <3>1. Len(plain) > Len(regs[p])
      BY <1>2, <1>4, <1>5, <2>1
    <3> QED
      BY <1>3, <1>5, <1>6, <2>1, <3>1
  <2>2. CASE ~(pc[p] <= Len(truth))
    <3>1. ~(Len(plain) > Len(regs[p])) /\ Len(plain) + 1 = pc[p]
      BY <1>2, <1>4, <1>5, <2>2
    <3>2. PICK v \in WordSet \cup {Unknown} : values = <<v>>
      BY <2>2 DEF MayReturn
    <3>3. Len(plain \o <<v>>) = Len(plain) + 1
      BY <1>3
    <3> QED
      BY <1>3, <1>6, <2>2, <3>1, <3>2, <3>3
  <2> QED
    BY <2>1, <2>2
<1>8. /\ \A k \in 2 .. Len(truth) : program[k].op \notin ShareOps => truth2[k] = Value(truth2, k)
      /\ \A q \in Parties : HeldInv(truth2, q)
      /\ dealt[0] # <<>> => \A q \in Parties : dealt[0][q + 1] = Share(truth2[pc[0]], q)
  <2>1. SameUpTo(Len(truth), truth2, truth)
    BY <1>6
  <2> QED
    BY <2>1, TruthExtends, Zenon
<1>9. \A k : Value(truth2, k)' = Value(truth2, k)
  BY <1>2, SameWords
<1>10. Instr(p).op \notin ShareOps => Value(truth2, pc[p]) = Value(truth, pc[p])
  <2>1. PICK L \in Nat : L = Len(truth)
    BY <1>4, <1>5
  <2>2. SameUpTo(L, truth2, truth) /\ pc[p] - 1 <= L /\ pc[p] \in 1 .. Len(program)
    BY <1>2, <1>4, <1>5, <1>6, <2>1
  <2> QED
    BY <1>5, <2>2, ValueStable DEF Instr
<1>11. \A k \in 2 .. Len(truth2) : program'[k].op \notin ShareOps => truth2[k] = Value(truth2, k)'
  <2>1. \A k \in 2 .. Len(truth2) : k \in 2 .. Len(truth) \/ k = pc[p]
    BY <1>2, <1>4, <1>5, <1>6
  <2>2. program[pc[p]].op \notin ShareOps => truth2[pc[p]] = Value(truth2, pc[p])
    BY <1>6, <1>10 DEF Instr
  <2> QED
    BY <1>2, <1>8, <1>9, <2>1, <2>2
<1>12. ASSUME NEW q \in Parties
       PROVE  HeldInv(truth2, q)'
  <2>1. HeldInv(truth2, q)
    BY <1>8
  <2>2. CASE q # p
    BY <1>2, <2>1, <2>2 DEF HeldInv
  <2>3. CASE q = p
    <3>1. regs[p] \in Seq(Registers) /\ r \in Registers
      BY DEF Types, MayReturn
    <3>2. /\ Len(regs'[p]) = Len(regs[p]) + 1 /\ regs'[p][Len(regs[p]) + 1] = r
          /\ \A k \in 1 .. Len(regs[p]) : regs'[p][k] = regs[p][k]
      BY <1>2, <3>1
    <3>3. Len(regs[p]) + 1 = pc[p]
      BY <1>2, <1>4
    <3>4. \A k \in 1 .. Len(regs'[p]) : k \in 1 .. Len(regs[p]) \/ k = pc[p]
      BY <1>2, <1>4, <3>2, <3>3
    <3>5. HeldAs(regs'[p][pc[p]], program[pc[p]].op, truth2[pc[p]], p)
      BY <1>6, <3>2, <3>3 DEF Instr
    <3>6. \A k \in 1 .. Len(regs[p]) : HeldAs(regs[p][k], program[k].op, truth2[k], p)
      BY <2>1, <2>3 DEF HeldInv
    <3>7. \A k \in 1 .. Len(regs'[p]) : HeldAs(regs'[p][k], program[k].op, truth2[k], p)
      BY <3>2, <3>4, <3>5, <3>6
    <3> QED
      BY <1>2, <2>3, <3>7 DEF HeldInv
  <2> QED
    BY <2>2, <2>3
<1>13. dealt'[0] # <<>> => \A q \in Parties : dealt'[0][q + 1] = Share(truth2[pc'[0]], q)
  <2>1. CASE p = 0
    BY <1>2, <2>1
  <2>2. CASE p # 0
    <3>1. 0 \in Parties
      BY Around
    <3>2. dealt'[0] = dealt[0] /\ pc'[0] = pc[0]
      BY <1>2, <2>2, <3>1
    <3> QED
      BY <1>8, <3>2
  <2> QED
    BY <2>1, <2>2
<1>14. SharedInv(truth2)'
  <2>1. \A k \in 1 .. Len(truth2) : k \in 1 .. Len(truth) \/ (k = pc[p] /\ Len(truth) < k)
    BY <1>2, <1>4, <1>5, <1>6
  <2>2. \A k \in 1 .. Len(truth) : plain'[k] = plain[k] /\ truth2[k] = truth[k]
    <3>1. \A k \in 1 .. Len(truth) : truth2[k] = truth[k]
      BY <1>6 DEF SameUpTo
    <3>2. \A k \in 1 .. Len(truth) : plain'[k] = plain[k]
      <4>1. PICK v : values = <<>> \/ values = <<v>>
        BY DEF MayReturn
      <4> QED
        BY <1>3, <1>5, <4>1
    <3> QED
      BY <3>1, <3>2
  <2>3. Len(truth) < pc[p] => program[pc[p]].op \notin ShareOps
    BY <1>2, <1>4, <1>5 DEF Instr
  <2> QED
    BY <1>2, <2>1, <2>2, <2>3 DEF SharedInv, TruthInv
<1>15. TruthInv(truth2)'
  BY <1>6, <1>7, <1>11, <1>12, <1>13, <1>14 DEF TruthInv
<1>16. SaidInv(mail, truth2, bad)
  BY <1>6, SaidExtends
<1> QED
  BY <1>15, <1>16, ReturnSends

\* Without alterations the copies of a message are the same.
LEMMA CopiesAgree ==
  ASSUME Types, Counts, NEW mail, MailInv(mail), NEW truth, SaidInv(mail, truth, Nowhere),
         NEW p \in Parties, Active(p), NEW i \in 0 .. 4, NEW j \in 0 .. 4,
         i < Completed(p), j < Completed(p),
         From(pc[p], p, i) # NoParty, From(pc[p], p, j) # NoParty,
         Said(truth, pc[p], p, i) = Said(truth, pc[p], p, j)
  PROVE  got[p][Gets(pc[p], p, i) + 1] = got[p][Gets(pc[p], p, j) + 1]
<1>1. \A s : <<p, s>> # Nowhere
  BY Around DEF Nowhere
<1>2. PICK bad : bad = Nowhere
  OBVIOUS
<1>3. SaidInv(mail, truth, bad)
  BY <1>2
<1>4. got[p][Gets(pc[p], p, i) + 1] = Said(truth, pc[p], p, i)
  BY <1>1, <1>2, <1>3, GotIsSaid
<1>5. got[p][Gets(pc[p], p, j) + 1] = Said(truth, pc[p], p, j)
  BY <1>1, <1>2, <1>3, GotIsSaid
<1> QED
  BY <1>4, <1>5

LEMMA NoAccusation ==
  ASSUME Types, Counts, NEW mail, MailInv(mail), NEW truth, SaidInv(mail, truth, Nowhere),
         NEW p \in Parties
  PROVE  ~MultiplyAccuse(p) /\ ~InpAccuse(p)
<1>1. Parties = {0, 1, 2, 3} /\ NoParty = 4
  BY Around
<1>2. ASSUME MultiplyAccuse(p)
      PROVE  FALSE
  <2>1. CASE Running(p, MultiplyOps, 2) /\ ~NeighboursAgree(p)
    <3>1. /\ Active(p) /\ program[pc[p]].op \in MultiplyOps /\ calls[p] = 2
          /\ receiving[p] = NoParty
      BY <2>1, RunningFacts
    <3>2. Completed(p) = 2
      BY <3>1 DEF Completed
    <3>3. Relative(p, 1) # NoParty /\ Relative(p, 2) # NoParty
      BY <1>1, Around
    <3>4. /\ From(pc[p], p, 0) # NoParty /\ From(pc[p], p, 1) # NoParty
          /\ Said(truth, pc[p], p, 0) = Said(truth, pc[p], p, 1)
          /\ Gets(pc[p], p, 0) + 1 = 1 /\ Gets(pc[p], p, 1) + 1 = 2
      BY <3>1, <3>3 DEF From, Said, Gets
    <3>5. 0 \in 0 .. 4 /\ 1 \in 0 .. 4 /\ 0 < Completed(p) /\ 1 < Completed(p)
      BY <3>2
    <3>6. got[p][Gets(pc[p], p, 0) + 1] = got[p][Gets(pc[p], p, 1) + 1]
      BY <3>1, <3>4, <3>5, CopiesAgree
    <3> QED
      BY <2>1, <3>4, <3>6 DEF NeighboursAgree, Agree
  <2>2. CASE Running(p, MultiplyOps, 5) /\ ~OppositesAgree(p)
    <3>1. /\ Active(p) /\ program[pc[p]].op \in MultiplyOps /\ calls[p] = 5
          /\ receiving[p] = NoParty /\ p \in {2, 3}
      BY <2>2, RunningFacts DEF OppositesAgree
    <3>2. Completed(p) = 5
      BY <3>1 DEF Completed
    <3>3. Relative(p, 1) # NoParty /\ Relative(p, 3) # NoParty
      BY <1>1, Around
    <3>4. /\ From(pc[p], p, 3) # NoParty /\ From(pc[p], p, 4) # NoParty
          /\ Said(truth, pc[p], p, 3) = Said(truth, pc[p], p, 4)
          /\ Gets(pc[p], p, 3) + 1 = 3 /\ Gets(pc[p], p, 4) + 1 = 4
      BY <3>1, <3>3 DEF From, Said, Gets
    <3>5. 3 \in 0 .. 4 /\ 4 \in 0 .. 4 /\ 3 < Completed(p) /\ 4 < Completed(p)
      BY <3>2
    <3>6. got[p][Gets(pc[p], p, 3) + 1] = got[p][Gets(pc[p], p, 4) + 1]
      BY <3>1, <3>4, <3>5, CopiesAgree
    <3> QED
      BY <2>2, <3>4, <3>6 DEF OppositesAgree, Agree
  <2> QED
    BY <1>2, <2>1, <2>2 DEF MultiplyAccuse
<1>3. ASSUME InpAccuse(p)
      PROVE  FALSE
  <2>1. /\ Active(p) /\ program[pc[p]].op \in InpOps /\ calls[p] = 2
        /\ receiving[p] = NoParty /\ p = program[pc[p]].roles.g /\ ~Agree(p, 1, 2)
        /\ CountInv(p)
    <3>1. Running(p, InpOps, 2) /\ Instr(p).roles["g"] = p /\ ~Agree(p, 1, 2)
      BY <1>3 DEF InpAccuse, InpAt
    <3> QED
      BY <3>1, RunningFacts DEF Instr
  <2>2. Completed(p) = 2
    BY <2>1 DEF Completed
  <2>3. /\ program[pc[p]].op \notin MultiplyOps /\ program[pc[p]].op \notin OpenOps \cup {"b2a_bit"}
        /\ IsRoles(program[pc[p]].roles)
    <3>1. program \in Programs /\ pc[p] \in 1 .. Len(program)
      BY <2>1, Ranges
    <3>2. program[pc[p]].op \in Operations /\ IsRoles(program[pc[p]].roles)
      BY <2>1, <3>1, Instructions
    <3> QED
      BY <2>1, <3>2, Classes
  <2>4. program[pc[p]].roles.i # NoParty /\ program[pc[p]].roles.j # NoParty
    BY <1>1, <2>3 DEF IsRoles
  <2>5. /\ From(pc[p], p, 0) # NoParty /\ From(pc[p], p, 1) # NoParty
        /\ Said(truth, pc[p], p, 0) = Said(truth, pc[p], p, 1)
        /\ Gets(pc[p], p, 0) + 1 = 1 /\ Gets(pc[p], p, 1) + 1 = 2
    BY <2>1, <2>3, <2>4 DEF From, Said, Gets
  <2>6. 0 \in 0 .. 4 /\ 1 \in 0 .. 4 /\ 0 < Completed(p) /\ 1 < Completed(p)
    BY <2>2
  <2>7. got[p][Gets(pc[p], p, 0) + 1] = got[p][Gets(pc[p], p, 1) + 1]
    BY <2>1, <2>5, <2>6, CopiesAgree
  <2> QED
    BY <2>1, <2>5, <2>7 DEF Agree
<1> QED
  BY <1>2, <1>3

\* Where the words begin: the first secret, whoever shared it.
LEMMA ValuesBegin ==
  ASSUME ProgramsDeal, Init, NEW mail \in [Parties -> [Nat -> WordSet]]
  PROVE  ValuesInv(mail)
<1>1. program \in Programs /\ DealsItself(program) /\ altered = 0
  BY DEF Init, ProgramsDeal
<1>2. /\ Len(program) \in Nat /\ program[1].op \in ShareOps /\ program[1].party \in Parties
      /\ program[1].op \notin OpenOps
  <2>1. Len(program) \in Nat \ {0} /\ program[1].op \in ShareOps
    BY <1>1, Instructions
  <2>2. 1 \in 1 .. Len(program)
    BY <2>1
  <2> QED
    BY <1>1, <2>1, <2>2, Instructions DEF ShareOps, OpenOps
<1>3. PICK data \in Data, r \in Randoms :
        ProtocolInit(data, get_shares(Kind(program[1].op), data, r[1], r[2], r[3]))
  BY DEF Init
<1> DEFINE kind == Kind(program[1].op)
           rows == get_shares(kind, data, r[1], r[2], r[3])
           d == program[1].party
<1> HIDE DEF kind
<1>4. PICK v \in Secrets : /\ \A q \in Parties : rows[q + 1] = Share(v, q)
                          /\ Sum(kind, v) = data
  <2>1. PICK words : words = DealtWords(kind, data, r)
    OBVIOUS
  <2>2. words \in Secrets /\ \A q \in Parties : rows[q + 1] = Share(words, q)
    BY <2>1, Dealt
  <2>3. Sum(kind, words) = data
    BY <2>1, DealtAddsUp
  <2> QED
    BY <2>2, <2>3
<1> HIDE DEF rows
<1> USE DEF kind
<1>5. /\ \A p \in Parties : regs[p] = <<[kind |-> kind, shares |-> rows[Relative(p, -d) + 1]]>>
      /\ plain = <<data>> /\ dealt = [p \in Parties |-> <<>>]
  <2>1. ProtocolInit(data, rows)
    BY <1>3 DEF rows
  <2> QED
    BY <2>1 DEF ProtocolInit
<1>6. PICK w : w = [t \in 0 .. 3 |-> v[Relative(t, -d)]]
  OBVIOUS
<1>7. /\ \A t \in 0 .. 3 : Relative(t, -d) \in 0 .. 3
      /\ \A p \in Parties : Relative(p, -d) \in Parties
      /\ \A p \in Parties, n \in Replication :
           Relative(Relative(p, n), -d) = Relative(Relative(p, -d), n)
  <2>1. \A e \in Parties :
          /\ \A t \in 0 .. 3 : Relative(t, -e) \in 0 .. 3
          /\ \A p \in Parties : Relative(p, -e) \in Parties
          /\ \A p \in Parties, n \in Replication :
               Relative(Relative(p, n), -e) = Relative(Relative(p, -e), n)
    BY Around, FourPartiesAssumption DEF Relative, Replication
  <2> QED
    BY <1>2, <2>1
<1>8. w \in Secrets
  BY <1>6, <1>7 DEF Secrets
<1>9. \A p \in Parties : Share(v, Relative(p, -d)) = Share(w, p)
  <2>1. ASSUME NEW p \in Parties, NEW n \in Replication
        PROVE  w[Relative(p, n)] = v[Relative(Relative(p, -d), n)]
    <3>1. Relative(p, n) \in 0 .. 3
      BY Turns DEF Replication
    <3> QED
      BY <1>6, <1>7, <3>1
  <2> QED
    BY <2>1 DEF Share
<1>10. PICK truth : truth = <<w>>
  OBVIOUS
<1>11. truth \in Seq(Secrets) /\ Len(truth) = 1 /\ truth[1] = w /\ Len(plain) = 1
  BY <1>5, <1>8, <1>10
<1>12. ASSUME NEW p \in Parties
       PROVE  HeldInv(truth, p)
  <2>1. /\ Len(regs[p]) = 1 /\ regs[p][1].kind = kind
        /\ regs[p][1].shares = Share(w, p)
    <3>1. PICK q \in Parties : q = Relative(p, -d)
      BY <1>7
    <3>2. rows[q + 1] = Share(w, p)
      BY <1>4, <1>9, <3>1
    <3>3. PICK row : row = rows[q + 1]
      OBVIOUS
    <3>4. regs[p] = <<[kind |-> kind, shares |-> row]>>
      BY <1>5, <3>1, <3>3
    <3> QED
      BY <3>2, <3>3, <3>4
  <2>2. kind # "open"
    BY DEF Kind
  <2>3. HeldAs(regs[p][1], program[1].op, truth[1], p)
    BY <1>11, <2>1, <2>2 DEF HeldAs
  <2> QED
    BY <2>1, <2>3 DEF HeldInv
<1>13. dealt[0] = <<>>
  BY <1>5, Around
<1>14. SharedInv(truth)
  <2>1. d \in Parties
    BY <1>2
  <2>2. PICK q \in Parties : q = Relative(0, -d)
    BY <1>7, <2>1, Around
  <2>3. /\ 0 \in Parties /\ Relative(0, 1) = 1 /\ Relative(0, 2) = 2 /\ Relative(0, 3) = 3
    BY Around, FourPartiesAssumption DEF Relative
  <2>4. /\ w[1] = v[Relative(q, 1)] /\ w[2] = v[Relative(q, 2)] /\ w[3] = v[Relative(q, 3)]
        /\ w[0] = v[q]
    BY <1>6, <1>7, <2>2, <2>3 DEF Replication
  <2>5. Sum(kind, w) = Sum(kind, v)
    BY <2>4, SumTurns DEF Sum
  <2>6. plain[1] = data
    BY <1>5
  <2> QED
    BY <1>4, <1>11, <2>5, <2>6 DEF SharedInv
<1>15. TruthInv(truth)
  BY <1>11, <1>12, <1>13, <1>14 DEF TruthInv
<1>16. SaidInv(mail, truth, Nowhere)
  <2>1. ASSUME NEW q \in Parties, NEW k \in 2 .. Len(program), NEW n \in 0 .. 4,
               From(k, q, n) # NoParty, 16 * k + SentAs(k, q, n) < SendPos(From(k, q, n))
        PROVE  FALSE
    <3>1. n \in Nat
      OBVIOUS
    <3>2. HearIsSent(k, q, n)
      BY <1>1, <2>1, <3>1, SchedulePart
    <3>3. PICK x \in 0 .. 8 : x = SentAs(k, q, n)
      BY <3>2 DEF HearIsSent
    <3>4. SendPos(From(k, q, n)) = 32
      BY <3>2, Begins DEF HearIsSent
    <3>5. 16 * k + x < 32
      BY <2>1, <3>3, <3>4
    <3>6. k \in 2 .. Len(program) /\ x \in 0 .. 8
      OBVIOUS
    <3> QED
      BY ONLY <1>2, <3>5, <3>6
  <2> QED
    BY <2>1 DEF SaidInv
<1> QED
  BY <1>15, <1>16 DEF ValuesInv

-----------------------------------------------------------------------------
(* Both layers together.                                                   *)

\* A step that alters no message keeps accusations and trust.
LEMMA Unaltered ==
  ASSUME UNCHANGED <<program, altered>>
  PROVE  /\ Trusted' => Trusted
         /\ altered' # 0 => altered # 0
         /\ altered # 0 /\ program \in Alterable => program' \in Alterable
BY DEF Trusted, Compares

LEMMA Kept ==
  ASSUME Types', Counts', PlainInv', UNCHANGED <<program, altered>>,
         altered' = 0 => accused' = {}, altered # 0 => program \in Alterable,
         NEW mail, MailInv(mail)', Trusted' => ValuesInv(mail)'
  PROVE  IInv'
BY DEF IInv

LEMMA InvStep ==
  ASSUME IInv, [Next]_vars
  PROVE  IInv'
<1>1. /\ Types /\ Counts /\ PlainInv
      /\ altered = 0 => accused = {}
      /\ altered # 0 => program \in Alterable
  BY DEF IInv
<1>2. PICK mail : MailInv(mail) /\ (Trusted => ValuesInv(mail))
  BY DEF IInv
<1>3. ASSUME Trusted
      PROVE  \E truth, bad : TruthInv(truth) /\ SaidInv(mail, truth, bad) /\ (altered = 0 => bad = Nowhere)
  BY <1>2, <1>3 DEF ValuesInv
<1>4. ASSUME NEW p \in Parties, Calling(p)
      PROVE  IInv'
  <2>1. MayCall(p) /\ CallStep(p, Message(p)) /\ (NextTo(p) # NoParty => Message(p) \in WordSet)
    BY <1>1, <1>4, MessageIsWord DEF Calling
  <2>2. PICK m : m = Message(p)
    OBVIOUS
  <2>3. CallStep(p, m) /\ (NextTo(p) # NoParty => m \in WordSet /\ m = Message(p))
    BY <2>1, <2>2
  <2>4. PICK mail2 : mail2 = CallMail(mail, p, m)
    OBVIOUS
  <2>5. MailInv(mail2)' /\ Types' /\ Counts' /\ PlainInv'
    <3>1. NextTo(p) # NoParty => m \in WordSet
      BY <2>3
    <3>2. MailInv(mail2)'
      BY <1>1, <1>2, <2>1, <2>3, <2>4, <3>1, CallKeepsMail
    <3> QED
      BY <1>1, <2>1, <2>3, <3>1, <3>2, CallKeepsCounts
  <2>6. program' = program /\ altered' = altered /\ accused' = accused
    BY <2>3 DEF CallStep
  <2>7. ASSUME Trusted'
        PROVE  ValuesInv(mail2)'
    <3>1. Trusted
      BY <2>6, <2>7, Unaltered
    <3>2. PICK truth, bad : /\ TruthInv(truth) /\ SaidInv(mail, truth, bad)
                            /\ altered = 0 => bad = Nowhere
      BY <1>3, <3>1
    <3>3. TruthInv(truth)' /\ SaidInv(mail2, truth, bad)'
      BY <1>1, <1>2, <2>1, <2>3, <2>4, <3>2, CallKeepsValues
    <3> QED
      BY <2>6, <3>2, <3>3 DEF ValuesInv
  <2> QED
    BY <1>1, <2>5, <2>6, <2>7, Kept
<1>5. ASSUME NEW p \in Parties, Returning(p)
      PROVE  IInv'
  <2>1. PICK r, values : r = Outcome(p) /\ values = PlainValues(p)
    OBVIOUS
  <2>2. MayReturn(p, r, values) /\ Finish(p, <<r>>, values) /\ Complete(p)
    BY <1>1, <1>5, <2>1, CompleteMayReturn DEF Returning
  <2>3. MailInv(mail)' /\ Types' /\ Counts' /\ PlainInv'
    BY <1>1, <1>2, <2>2, ReturnKeepsMail, ReturnKeepsCounts
  <2>4. program' = program /\ altered' = altered /\ accused' = accused
    BY <2>2 DEF Finish, Return
  <2>5. ASSUME Trusted'
        PROVE  ValuesInv(mail)'
    <3>1. Trusted
      BY <2>4, <2>5, Unaltered
    <3>2. PICK truth, bad : /\ TruthInv(truth) /\ SaidInv(mail, truth, bad)
                            /\ altered = 0 => bad = Nowhere
      BY <1>3, <3>1
    <3>3. \E w \in Secrets :
            /\ HeldAs(Outcome(p), Instr(p).op, w, p)
            /\ Instr(p).op \notin ShareOps => w = Value(truth, pc[p])
            /\ Instr(p).op \in ShareOps => pc[p] <= Len(truth)
            /\ pc[p] <= Len(truth) => w = truth[pc[p]]
      BY <1>1, <1>2, <2>2, <3>1, <3>2, CompleteRight
    <3>4. PICK w \in Secrets :
            /\ HeldAs(r, Instr(p).op, w, p)
            /\ Instr(p).op \notin ShareOps => w = Value(truth, pc[p])
            /\ Instr(p).op \in ShareOps => pc[p] <= Len(truth)
            /\ pc[p] <= Len(truth) => w = truth[pc[p]]
      BY <2>1, <3>3
    <3>5. PICK truth2 : truth2 = IF pc[p] <= Len(truth) THEN truth ELSE Append(truth, w)
      OBVIOUS
    <3>6. TruthInv(truth2)' /\ SaidInv(mail, truth2, bad)'
      BY <1>1, <1>2, <2>2, <3>2, <3>4, <3>5, ReturnKeepsValues
    <3> QED
      BY <2>4, <3>2, <3>6 DEF ValuesInv
  <2> QED
    BY <1>1, <2>3, <2>4, <2>5, Kept
<1>6. ASSUME NEW data \in Data, NEW r \in Randoms,
             DealStep(get_shares(Kind(Instr(0).op), data, r[1], r[2], r[3]), data)
      PROVE  IInv'
  <2>1. PICK rows, words : /\ rows = get_shares(Kind(Instr(0).op), data, r[1], r[2], r[3])
                           /\ words = DealtWords(Kind(Instr(0).op), data, r)
    OBVIOUS
  <2>2. /\ words \in Secrets /\ \A q \in Parties : rows[q + 1] = Share(words, q)
        /\ Sum(Kind(Instr(0).op), words) = data
    BY <2>1, Dealt, DealtAddsUp
  <2>3. DealStep(rows, data)
    BY <1>6, <2>1
  <2>4. MailInv(mail)' /\ Types' /\ Counts' /\ PlainInv'
    BY <1>1, <1>2, <2>3, DealKeepsCounts
  <2>5. program' = program /\ altered' = altered /\ accused' = accused
    BY <2>3 DEF DealStep
  <2>6. ASSUME Trusted'
        PROVE  ValuesInv(mail)'
    <3>1. Trusted
      BY <2>5, <2>6, Unaltered
    <3>2. PICK truth, bad : /\ TruthInv(truth) /\ SaidInv(mail, truth, bad)
                            /\ altered = 0 => bad = Nowhere
      BY <1>3, <3>1
    <3>3. PICK truth2 : truth2 = Append(truth, words)
      OBVIOUS
    <3>4. TruthInv(truth2)' /\ SaidInv(mail, truth2, bad)'
      BY <1>1, <1>2, <2>2, <2>3, <3>2, <3>3, DealKeepsValues
    <3> QED
      BY <2>5, <3>2, <3>4 DEF ValuesInv
  <2> QED
    BY <1>1, <2>4, <2>5, <2>6, Kept
<1>7. ASSUME UNCHANGED <<program, regs, plain, dealt, pc, calls, altered>>,
             MailInv(mail)', Types', Counts', PlainInv', altered' = 0 => accused' = {}
      PROVE  IInv'
  <2>1. UNCHANGED <<program, altered>>
    BY <1>7
  <2>2. ASSUME Trusted'
        PROVE  ValuesInv(mail)'
    <3>1. Trusted
      BY <2>1, <2>2, Unaltered
    <3>2. PICK truth, bad : /\ TruthInv(truth) /\ SaidInv(mail, truth, bad)
                            /\ altered = 0 => bad = Nowhere
      BY <1>3, <3>1
    <3>3. TruthInv(truth)' /\ SaidInv(mail, truth, bad)'
      BY <1>7, <3>2, SameValues
    <3> QED
      BY <2>1, <3>2, <3>3 DEF ValuesInv
  <2> QED
    BY <1>1, <1>7, <2>1, <2>2, Kept
<1>8. ASSUME NEW p \in Parties, HearStep(p)
      PROVE  IInv'
  <2>1. MailInv(mail)' /\ Types' /\ Counts' /\ PlainInv'
    BY <1>1, <1>2, <1>8, HearKeepsMail, HearKeepsCounts
  <2>2. UNCHANGED <<program, regs, plain, dealt, pc, calls, altered, accused>>
    BY <1>8 DEF HearStep
  <2> QED
    BY <1>1, <1>7, <2>1, <2>2
<1>9. ASSUME Quiet, altered = 0 => accused' = {}
      PROVE  IInv'
  <2>1. MailInv(mail)' /\ Types' /\ Counts' /\ PlainInv'
    BY <1>1, <1>2, <1>9, QuietKeeps
  <2>2. UNCHANGED <<program, regs, plain, dealt, pc, calls, altered>>
    BY <1>9 DEF Quiet
  <2> QED
    BY <1>7, <1>9, <2>1, <2>2
<1>10. ASSUME NEW p \in Parties, MultiplyAccuse(p) \/ InpAccuse(p)
       PROVE  IInv'
  <2>1. Quiet
    BY <1>1, <1>10, AccusationsAre, AccuseIsQuiet
  <2>2. ASSUME altered = 0
        PROVE  FALSE
    <3>1. Trusted
      BY <2>2 DEF Trusted
    <3>2. PICK truth : SaidInv(mail, truth, Nowhere)
      BY <1>3, <2>2, <3>1
    <3> QED
      BY <1>1, <1>2, <1>10, <3>2, NoAccusation
  <2> QED
    BY <1>9, <2>1, <2>2
<1>11. ASSUME NEW link \in Links, Alter(link)
       PROVE  IInv'
  <2>1. Types' /\ Counts' /\ PlainInv'
    BY <1>1, <1>2, <1>11, AlterKeepsMail
  <2>2. PICK b \in Parties, s \in Nat, word \in WordSet :
          MailInv([mail EXCEPT ![b] = [mail[b] EXCEPT ![s] = word]])'
    BY <1>1, <1>2, <1>11, AlterKeepsMail
  <2>3. PICK mail2 : mail2 = [mail EXCEPT ![b] = [mail[b] EXCEPT ![s] = word]]
    OBVIOUS
  <2>4. MailInv(mail2)'
    BY <2>2, <2>3
  <2>5. /\ program' = program /\ altered' = altered + 1 /\ program \in Alterable
        /\ altered \in Nat /\ altered' # 0
    <3>1. altered \in Nat
      BY <1>1, FourPartiesAssumption DEF Types
    <3>2. program' = program /\ altered' = altered + 1 /\ program \in Alterable
      BY <1>11 DEF Alter
    <3> QED
      BY <3>1, <3>2
  <2>6. ASSUME Trusted'
        PROVE  ValuesInv(mail2)'
    <3>1. altered' = 1
      BY <2>5, <2>6 DEF Trusted
    <3>2. altered = 0
      BY <2>5, <3>1
    <3>3. Trusted
      BY <3>2 DEF Trusted
    <3>4. PICK truth : TruthInv(truth) /\ SaidInv(mail, truth, Nowhere)
      BY <1>3, <3>2, <3>3
    <3>5. mail \in [Parties -> [Nat -> WordSet]]
      BY <1>2 DEF MailInv
    <3>6. PICK bad : bad = <<b, s>>
      OBVIOUS
    <3>7. TruthInv(truth)' /\ SaidInv(mail2, truth, <<b, s>>)'
      BY <1>1, <1>11, <2>3, <3>4, <3>5, AlterKeepsValues
    <3>8. SaidInv(mail2, truth, bad)'
      BY <3>6, <3>7
    <3> QED
      BY <2>5, <3>7, <3>8 DEF ValuesInv
  <2> QED
    BY <2>1, <2>4, <2>5, <2>6 DEF IInv
<1>12. CASE UNCHANGED vars
  <2>1. Quiet /\ accused' = accused
    BY <1>1, <1>12 DEF Quiet, vars, protocolVars, netVars, Types
  <2> QED
    BY <1>1, <1>9, <2>1
<1>13. CASE Next
  <2>1. \/ \E p \in Parties : Calling(p)
        \/ \E p \in Parties : Returning(p)
        \/ \E data \in Data, r \in Randoms :
             DealStep(get_shares(Kind(Instr(0).op), data, r[1], r[2], r[3]), data)
        \/ \E p \in Parties : HearStep(p)
        \/ Quiet /\ accused' = accused
        \/ \E p \in Parties : MultiplyAccuse(p) \/ InpAccuse(p)
        \/ \E link \in Links : Alter(link)
    BY <1>1, <1>13, Steps
  <2>2. Quiet /\ accused' = accused => IInv'
    BY <1>1, <1>9
  <2> QED
    BY <1>4, <1>5, <1>6, <1>8, <1>10, <1>11, <2>1, <2>2
<1> QED
  BY <1>12, <1>13

LEMMA Invariance ==
  ProgramsDeal /\ Spec => []IInv
<1>1. ProgramsDeal /\ Init => IInv
  <2> SUFFICES ASSUME ProgramsDeal, Init
               PROVE  IInv
    OBVIOUS
  <2>1. PICK mail \in [Parties -> [Nat -> WordSet]] : TRUE
    BY Zeros
  <2>2. Types /\ Counts /\ PlainInv /\ MailInv(mail)
    BY <2>1, Begins
  <2>3. ValuesInv(mail)
    BY <2>1, ValuesBegin
  <2>4. altered = 0 /\ accused = {}
    BY DEF Init
  <2> QED
    BY <2>2, <2>3, <2>4 DEF IInv
<1>2. IInv /\ [Next]_vars => IInv'
  BY InvStep
<1> QED
  BY <1>1, <1>2, PTL DEF Spec

\* Unless a message was altered, nobody accuses anybody: whatever two parties
\* send a third for comparison is the same word, in every program.
THEOREM NobodyIsAccused ==
  (\A instrs \in Programs : DealsItself(instrs)) /\ Spec => []NobodyAccused
<1>1. IInv => NobodyAccused
  BY DEF IInv, NobodyAccused
<1> QED
  BY <1>1, Invariance, PTL DEF ProgramsDeal

Tolerated ==
  MaxAltered = 0 \/ (MaxAltered = 1 /\ \A instrs \in Alterable : Compares(instrs))

LEMMA TruthsExist ==
  ASSUME Tolerated, IInv
  PROVE  \E truth : TruthInv(truth)
<1>1. altered \in 0 .. MaxAltered
  BY DEF IInv, Types
<1>2. Trusted
  <2>1. altered = 0 \/ (altered = 1 /\ \A instrs \in Alterable : Compares(instrs))
    BY <1>1 DEF Tolerated
  <2>2. altered # 0 => program \in Alterable
    BY DEF IInv
  <2> QED
    BY <2>1, <2>2 DEF Trusted
<1> QED
  BY <1>2 DEF IInv, ValuesInv

\* The parties that hold a word of a result hold the same one, in every state in
\* which they have it, even if a message was altered, of a program whose
\* operations compare what they receive.
THEOREM WordsAreReplicated ==
  /\ \A instrs \in Programs : DealsItself(instrs)
  /\ MaxAltered = 0 \/ (MaxAltered = 1 /\ \A instrs \in Alterable : Compares(instrs))
  /\ Spec
  => []Replicated
<1>1. Tolerated /\ IInv => Replicated
  <2> SUFFICES ASSUME Tolerated, IInv
               PROVE  Replicated
    OBVIOUS
  <2>1. Types /\ Counts /\ PlainInv
    BY DEF IInv
  <2>2. PICK truth : TruthInv(truth)
    BY TruthsExist
  <2>3. ASSUME NEW p \in Parties, NEW k \in SharedBy({p, Relative(p, 1)}),
               NEW q \in {p, Relative(p, 1)}, q \in Parties
        PROVE  \A n \in Replication : regs[q][k].shares[n] = truth[k][Relative(q, n)]
    <3>1. k \in DOMAIN regs[q] /\ regs[q][k].kind # "open"
      BY <2>3 DEF SharedBy
    <3>2. regs[q] \in Seq(Registers)
      BY <2>1, <2>3 DEF Types
    <3>3. HeldAs(regs[q][k], program[k].op, truth[k], q)
      <4>1. k \in 1 .. Len(regs[q])
        BY <3>1, <3>2
      <4>2. HeldInv(truth, q)
        BY <2>2, <2>3 DEF TruthInv
      <4> QED
        BY <4>1, <4>2 DEF HeldInv
    <3> QED
      BY <3>1, <3>3 DEF HeldAs, Share
  <2>4. ASSUME NEW p \in Parties
        PROVE  LET next == Relative(p, 1) IN
               /\ next \in Parties /\ Relative(next, 1) = Relative(p, 2)
               /\ Relative(next, 2) = Relative(p, 3)
    BY Around
  <2>5. ASSUME NEW p \in Parties, NEW k \in SharedBy({p, Relative(p, 1)})
        PROVE  /\ regs[Relative(p, 1)][k].shares[1] = regs[p][k].shares[2]
               /\ regs[Relative(p, 1)][k].shares[2] = regs[p][k].shares[3]
    <3>1. \A n \in Replication : regs[p][k].shares[n] = truth[k][Relative(p, n)]
      BY <2>3, <2>5
    <3>2. \A n \in Replication :
            regs[Relative(p, 1)][k].shares[n] = truth[k][Relative(Relative(p, 1), n)]
      BY <2>3, <2>4, <2>5
    <3>3. {1, 2, 3} = Replication
      BY DEF Replication
    <3> QED
      BY <2>4, <3>1, <3>2, <3>3
  <2> QED
    BY <2>5 DEF Replicated
<1>2. Tolerated => Tolerated'
  BY DEF Tolerated
<1> QED
  BY <1>1, <1>2, Invariance, PTL DEF ProgramsDeal, Tolerated, Spec

-----------------------------------------------------------------------------
(* The plaintexts.                                                         *)

\* What instruction k makes of the plaintexts of its operands.
Promised(values, k) ==
  LET instr == program[k]
      op == instr.op
      u == values[instr.x]
      v == values[instr.y]
  IN  IF op \in LocalOps
      THEN (IF u = Unknown \/ (op \in BinaryOps /\ v = Unknown) THEN Unknown
            ELSE LocalValue(op, u, v))
      ELSE IF op \in MultiplyOps
      THEN (IF u = Unknown \/ v = Unknown THEN Unknown ELSE Times(Kind(op), u, v))
      ELSE IF op \in OpenOps THEN u
      ELSE IF op = "b2a_bit" THEN (IF u = Unknown THEN Unknown ELSE LowBit(u))
      ELSE Unknown

PromiseInv ==
  \A k \in 2 .. Len(plain) : program[k].op \notin ShareOps => plain[k] = Promised(plain, k)

\* A party that returns knows as much.
LEMMA ReturnsPromised ==
  ASSUME NEW p \in Parties
  PROVE  PlainValue(p) = Promised(plain, pc[p])
<1>1. LocalPlain(p) = LET op == program[pc[p]].op
                          u  == plain[program[pc[p]].x]
                          v  == plain[program[pc[p]].y]
                      IN  IF u = Unknown \/ (op \in BinaryOps /\ v = Unknown) THEN Unknown
                          ELSE LocalValue(op, u, v)
  BY DEF LocalPlain, LocalValue, PlainX, PlainY, Instr
<1>2. ProductPlain(p) = LET u == plain[program[pc[p]].x]
                            v == plain[program[pc[p]].y]
                        IN  IF u = Unknown \/ v = Unknown THEN Unknown
                            ELSE Times(Kind(program[pc[p]].op), u, v)
  BY DEF ProductPlain, PlainX, PlainY, Instr
<1> QED
  BY <1>1, <1>2 DEF PlainValue, Promised, PlainX, Instr

\* It depends on the results before.
LEMMA PromisedSame ==
  ASSUME program \in Programs, NEW k \in 2 .. Len(program), program[k].op \notin ShareOps,
         NEW v, NEW w, \A j \in 1 .. k - 1 : v[j] = w[j]
  PROVE  Promised(v, k) = Promised(w, k)
<1>1. /\ program[k].x \in 1 .. k - 1
      /\ program[k].op \in BinaryOps \cup MultiplyOps => program[k].y \in 1 .. k - 1
  BY Instructions
<1>2. v[program[k].x] = w[program[k].x]
  BY <1>1
<1>3. program[k].op \in BinaryOps \cup MultiplyOps => v[program[k].y] = w[program[k].y]
  BY <1>1
<1>4. ASSUME program[k].op \in LocalOps, program[k].op \notin BinaryOps, NEW u, NEW a, NEW b
      PROVE  LocalValue(program[k].op, u, a) = LocalValue(program[k].op, u, b)
  BY <1>4 DEF LocalOps, UnaryOps, LocalValue
<1>5. CASE program[k].op \in LocalOps
  <2>1. CASE program[k].op \in BinaryOps
    BY <1>2, <1>3, <1>5, <2>1 DEF Promised
  <2>2. CASE program[k].op \notin BinaryOps
    BY <1>2, <1>4, <1>5, <2>2 DEF Promised
  <2> QED
    BY <2>1, <2>2
<1>6. CASE program[k].op \notin LocalOps
  BY <1>2, <1>3, <1>6 DEF Promised
<1> QED
  BY <1>5, <1>6

\* Plaintexts are added at the end, in the order of the program.
LEMMA PromiseKept ==
  ASSUME PromiseInv, program \in Programs, program' = program, Len(plain) \in Nat,
         NEW n \in 0 .. 1, Len(plain') = Len(plain) + n, Len(plain') <= Len(program),
         \A k \in 1 .. Len(plain) : plain'[k] = plain[k],
         n = 1 /\ program[Len(plain) + 1].op \notin ShareOps =>
           plain'[Len(plain) + 1] = Promised(plain, Len(plain) + 1)
  PROVE  PromiseInv'
<1>1. ASSUME NEW k \in 2 .. Len(plain'), program[k].op \notin ShareOps
      PROVE  plain'[k] = Promised(plain', k)
  <2>1. Len(program) \in Nat
    BY Instructions
  <2>2. k \in 2 .. Len(program)
    BY <2>1
  <2>3. \A j \in 1 .. k - 1 : plain'[j] = plain[j]
    BY <1>1
  <2>4. Promised(plain', k) = Promised(plain, k)
    BY <1>1, <2>2, <2>3, PromisedSame
  <2>5. CASE k \in 2 .. Len(plain)
    BY <1>1, <2>4, <2>5 DEF PromiseInv
  <2>6. CASE k = Len(plain) + 1
    BY <1>1, <2>4, <2>6
  <2> QED
    BY <2>5, <2>6
<1> QED
  BY <1>1 DEF PromiseInv, Promised

LEMMA PromiseStep ==
  ASSUME IInv, PromiseInv, [Next]_vars
  PROVE  PromiseInv'
<1>1. /\ Types /\ Counts /\ PlainInv /\ program \in Programs
      /\ plain \in Seq(WordSet \cup {Unknown}) /\ Len(plain) \in Nat
  BY DEF IInv, Types
<1>2. PICK mail : MailInv(mail)
  BY DEF IInv
<1>3. ASSUME UNCHANGED <<program, plain>>
      PROVE  PromiseInv'
  BY <1>3 DEF PromiseInv, Promised
<1>4. ASSUME NEW p \in Parties, Returning(p)
      PROVE  PromiseInv'
  <2>1. PICK r : r = Outcome(p)
    OBVIOUS
  <2>2. MayReturn(p, r, PlainValues(p)) /\ Finish(p, <<r>>, PlainValues(p))
    BY <1>1, <1>4, <2>1, CompleteMayReturn DEF Returning
  <2>3. /\ program' = program
        /\ plain' = IF Len(plain) > Len(regs[p]) THEN plain ELSE plain \o PlainValues(p)
    BY <2>2 DEF Finish, Return
  <2>4. Len(regs[p]) = pc[p] - 1 /\ Len(regs[p]) <= Len(plain)
    BY <1>1, RegsPlain
  <2>5. CountInv(p) /\ Active(p)
    BY <1>1, <2>2 DEF Counts, MayReturn
  <2>6. pc[p] \in 2 .. Len(program)
    BY <1>1, <2>5, Ranges
  <2>7. CASE plain' = plain
    BY <1>3, <2>3, <2>7
  <2>8. CASE plain' # plain
    <3>1. /\ ~(Len(plain) > Len(regs[p])) /\ plain' = plain \o PlainValues(p)
      BY <2>3, <2>8
    <3>2. Len(plain) + 1 = pc[p]
      BY <1>1, <2>4, <2>6, <3>1
    <3>3. Instr(p).op \notin ShareOps /\ PlainValues(p) = <<PlainValue(p)>>
      <4>1. CASE Instr(p).op \in ShareOps
        BY <1>1, <2>8, <3>1, <4>1 DEF PlainValues
      <4>2. CASE Instr(p).op \notin ShareOps
        BY <4>2 DEF PlainValues
      <4> QED
        BY <4>1, <4>2
    <3>4. PICK v \in WordSet \cup {Unknown} : PlainValues(p) = <<v>>
      BY <2>2, <3>3 DEF MayReturn
    <3>5. v = Promised(plain, pc[p])
      BY <3>3, <3>4, ReturnsPromised
    <3>6. /\ Len(plain') = Len(plain) + 1 /\ plain'[Len(plain) + 1] = v
          /\ \A k \in 1 .. Len(plain) : plain'[k] = plain[k]
      BY <1>1, <3>1, <3>4
    <3>7. Len(plain') <= Len(program) /\ plain'[Len(plain) + 1] = Promised(plain, Len(plain) + 1)
      BY <2>6, <3>2, <3>5, <3>6
    <3> QED
      BY <1>1, <2>3, <3>6, <3>7, PromiseKept
  <2> QED
    BY <2>7, <2>8
<1>5. ASSUME NEW rows, NEW data, DealStep(rows, data)
      PROVE  PromiseInv'
  <2>1. Len(plain) = pc[0] - 1
    BY <1>1, <1>2, <1>5, DealKeepsCounts
  <2>2. /\ Active(0) /\ Instr(0).op \in ShareOps /\ data \in WordSet
        /\ plain' = Append(plain, data) /\ program' = program
    BY <1>5 DEF DealStep
  <2>3. pc[0] \in 2 .. Len(program) /\ pc[0] \in Nat
    <3>1. 0 \in Parties
      BY Around
    <3> QED
      BY <1>1, <2>2, <3>1, Ranges DEF Counts
  <2>4. Len(plain) + 1 = pc[0]
    BY <1>1, <2>1, <2>3
  <2>5. program[Len(plain) + 1].op \in ShareOps
    BY <2>2, <2>4 DEF Instr
  <2>6. Len(plain') = Len(plain) + 1 /\ \A k \in 1 .. Len(plain) : plain'[k] = plain[k]
    BY <1>1, <2>2
  <2>7. Len(plain') <= Len(program)
    BY <2>3, <2>4, <2>6
  <2> QED
    BY <1>1, <2>2, <2>5, <2>6, <2>7, PromiseKept
<1>6. CASE UNCHANGED vars
  BY <1>3, <1>6 DEF vars, protocolVars
<1>7. CASE Next
  <2>1. \/ \E p \in Parties : Calling(p)
        \/ \E p \in Parties : Returning(p)
        \/ \E data \in Data, r \in Randoms :
             DealStep(get_shares(Kind(Instr(0).op), data, r[1], r[2], r[3]), data)
        \/ \E p \in Parties : HearStep(p)
        \/ Quiet /\ accused' = accused
        \/ \E p \in Parties : MultiplyAccuse(p) \/ InpAccuse(p)
        \/ \E link \in Links : Alter(link)
    BY <1>1, <1>7, Steps
  <2>2. ASSUME NEW p \in Parties, Calling(p)
        PROVE  PromiseInv'
    BY <1>3, <2>2 DEF Calling, CallStep
  <2>3. ASSUME NEW p \in Parties, HearStep(p)
        PROVE  PromiseInv'
    BY <1>3, <2>3 DEF HearStep
  <2>4. ASSUME Quiet
        PROVE  PromiseInv'
    BY <1>3, <2>4 DEF Quiet
  <2>5. ASSUME NEW p \in Parties, MultiplyAccuse(p) \/ InpAccuse(p)
        PROVE  PromiseInv'
    BY <1>1, <2>4, <2>5, AccusationsAre, AccuseIsQuiet
  <2>6. ASSUME NEW link \in Links, Alter(link)
        PROVE  PromiseInv'
    BY <1>3, <2>6 DEF Alter
  <2> QED
    BY <1>4, <1>5, <2>1, <2>2, <2>3, <2>4, <2>5, <2>6
<1> QED
  BY <1>6, <1>7

LEMMA Promising ==
  ProgramsDeal /\ Spec => []PromiseInv
<1>1. Init => PromiseInv
  <2> SUFFICES ASSUME Init
               PROVE  PromiseInv
    OBVIOUS
  <2>1. PICK data, rows : ProtocolInit(data, rows)
    BY DEF Init
  <2>2. Len(plain) = 1
    BY <2>1 DEF ProtocolInit
  <2> QED
    BY <2>2 DEF PromiseInv
<1>2. IInv /\ PromiseInv /\ [Next]_vars => PromiseInv'
  BY PromiseStep
<1> QED
  BY <1>1, <1>2, Invariance, PTL DEF Spec

-----------------------------------------------------------------------------
(* What the words add up to.                                               *)

LEMMA PlainFits ==
  ASSUME Types, Counts, PlainInv
  PROVE  Len(plain) \in Nat /\ Len(program) \in Nat /\ Len(plain) <= Len(program)
<1>1. Len(program) \in Nat
  BY Instructions DEF Types
<1>2. PICK p \in Parties : Reached(p) = Len(plain)
  BY DEF PlainInv
<1>3. /\ Len(regs[p]) = pc[p] - 1 /\ Len(plain) \in Nat /\ pc[p] \in Nat
      /\ Reached(p) = IF dealt[p] = <<>> THEN Len(regs[p]) ELSE Len(regs[p]) + 1
  BY RegsPlain
<1>4. CountInv(p)
  BY DEF Counts
<1>5. pc[p] <= Len(program) + 1 /\ (Active(p) => pc[p] <= Len(program))
  BY <1>4, Ranges DEF Active
<1>6. ~Active(p) => dealt[p] = <<>>
  BY <1>4 DEF CountInv
<1> QED
  BY <1>1, <1>2, <1>3, <1>5, <1>6

Single(x) == \A s \in 0 .. 3 : x[s] \in {0, 1}

LEMMA LocalSingle ==
  ASSUME NEW op \in {"ltz", "not_b_1", "xor_b"}, NEW x, NEW y,
         op # "ltz" => Single(x), op = "xor_b" => Single(y)
  PROVE  Single(LocalWords(op, x, y))
<1>1. ASSUME NEW s \in 0 .. 3
      PROVE  LocalWord(op, s, x[s], IF op \in BinaryOps THEN y[s] ELSE 0) \in {0, 1}
  <2>1. CASE op = "ltz"
    BY <2>1 DEF LocalWord, Truth
  <2>2. CASE op = "not_b_1"
    BY <2>2 DEF LocalWord, Truth, Single
  <2>3. CASE op = "xor_b"
    <3>1. x[s] \in {0, 1} /\ y[s] \in {0, 1} /\ op \in BinaryOps
      BY <2>3 DEF Single, BinaryOps
    <3>2. Xor(x[s], y[s]) \in {0, 1}
      BY <3>1, SingleBits
    <3> QED
      BY <2>3, <3>1, <3>2 DEF LocalWord
  <2> QED
    BY <2>1, <2>2, <2>3
<1> QED
  BY <1>1 DEF Single, LocalWords

LEMMA ProductSingle ==
  ASSUME NEW x, NEW y, Single(x), Single(y)
  PROVE  Single([s \in 0 .. 3 |-> ProductWord("b", x, y, s)])
<1>1. \A u, v \in {0, 1} : Plus("b", u, v) \in {0, 1} /\ Times("b", u, v) \in {0, 1}
  BY SingleBits DEF Plus, Times
<1>2. \A s \in 0 .. 3 : /\ Relative(s, 1) \in 0 .. 3 /\ Relative(s, 2) \in 0 .. 3
                        /\ x[s] \in {0, 1} /\ y[s] \in {0, 1}
  BY Around DEF Single
<1>3. \A s, t \in 0 .. 3 : Times("b", x[s], y[t]) \in {0, 1}
  BY <1>1, <1>2
<1>4. \A s, t \in 0 .. 3 : CrossTerm("b", x, y, s, t) \in {0, 1}
  BY <1>1, <1>3 DEF CrossTerm
<1>5. \A s \in 0 .. 3 : ProductWord("b", x, y, s) \in {0, 1}
  BY <1>1, <1>2, <1>3, <1>4 DEF ProductWord
<1> QED
  BY <1>5 DEF Single

\* What comparisons and ! return has words of a single bit.
LEMMA BitsAreSingle ==
  ASSUME program \in Programs, NEW truth, TruthInv(truth), Len(truth) <= Len(program),
         NEW bits, \A k \in bits : SingleBit(program, k, bits)
  PROVE  \A k \in 1 .. Len(truth) : k \in bits => Single(truth[k])
<1> DEFINE T == {k \in 1 .. Len(truth) : k \in bits /\ ~Single(truth[k])}
<1>1. SUFFICES ASSUME T # {}
               PROVE  FALSE
  OBVIOUS
<1>2. truth \in Seq(Secrets) /\ Len(truth) \in Nat /\ Len(program) \in Nat
  BY Instructions DEF TruthInv
<1>3. T \subseteq Nat
  BY <1>2
<1> HIDE DEF T
<1>4. PICK k \in T : \A j \in T : ~(j < k)
  BY <1>1, <1>3, Least
<1> USE DEF T
<1>5. /\ k \in 1 .. Len(truth) /\ k \in bits /\ ~Single(truth[k]) /\ SingleBit(program, k, bits)
      /\ k \in 1 .. Len(program)
  BY <1>2
<1>6. \A j \in 1 .. k - 1 : j \in bits => Single(truth[j])
  BY <1>2, <1>3, <1>4, <1>5
<1> HIDE DEF T
<1>7. /\ program[1].op \in ShareOps
      /\ program[k].op \in Operations
      /\ program[k].op \notin ShareOps => program[k].x \in 1 .. k - 1
      /\ program[k].op \in BinaryOps \cup MultiplyOps => program[k].y \in 1 .. k - 1
  BY <1>5, Instructions
<1>8. program[k].op \in {"ltz", "not_b_1", "xor_b", "and_b"} /\ program[k].op \notin ShareOps
  BY <1>5 DEF SingleBit, ShareOps
<1>9. k \in 2 .. Len(truth)
  <2>1. k # 1
    BY <1>7, <1>8
  <2> QED
    BY <1>2, <1>5, <2>1
<1>10. truth[k] = Value(truth, k)
  BY <1>8, <1>9 DEF TruthInv
<1>11. CASE program[k].op \in {"ltz", "not_b_1", "xor_b"}
  <2>1. program[k].op \in LocalOps
    BY <1>11 DEF LocalOps, UnaryOps, BinaryOps
  <2>2. truth[k] = LocalWords(program[k].op, truth[program[k].x], truth[program[k].y])
    BY <1>10, <2>1 DEF Value, LocalWords
  <2>3. program[k].op # "ltz" => Single(truth[program[k].x])
    BY <1>5, <1>6, <1>7, <1>8, <1>11 DEF SingleBit
  <2>4. program[k].op = "xor_b" => Single(truth[program[k].y])
    BY <1>5, <1>6, <1>7, <1>8 DEF SingleBit, BinaryOps
  <2> QED
    BY <1>5, <1>11, <2>2, <2>3, <2>4, LocalSingle
<1>12. CASE program[k].op = "and_b"
  <2>1. program[k].op \notin LocalOps /\ program[k].op \in MultiplyOps /\ Kind(program[k].op) = "b"
    BY <1>12 DEF LocalOps, UnaryOps, BinaryOps, MultiplyOps, Kind
  <2>2. PICK x, y : x = truth[program[k].x] /\ y = truth[program[k].y]
    OBVIOUS
  <2>3. Single(x) /\ Single(y)
    BY <1>5, <1>6, <1>7, <1>8, <1>12, <2>1, <2>2 DEF SingleBit
  <2>4. truth[k] = [s \in 0 .. 3 |-> ProductWord("b", x, y, s)]
    BY <1>10, <2>1, <2>2 DEF Value
  <2> QED
    BY <1>5, <2>3, <2>4, ProductSingle
<1> QED
  BY <1>8, <1>11, <1>12

AddsUp(truth, k) == plain[k] # Unknown => Sum(Kind(program[k].op), truth[k]) = plain[k]

\* An instruction keeps its promise if those before it do.
LEMMA PromiseAddsUp ==
  ASSUME program \in Programs, NEW truth, TruthInv(truth), PromiseInv, Len(plain) <= Len(program),
         NEW k \in 1 .. Len(truth), \A j \in 1 .. k - 1 : AddsUp(truth, j)
  PROVE  AddsUp(truth, k)
<1>0. truth \in Seq(Secrets) /\ Len(truth) = Len(plain) /\ Len(truth) \in Nat /\ Len(program) \in Nat
  BY Instructions DEF TruthInv
<1>1. k \in 1 .. Len(program) /\ k \in Nat
  BY <1>0
<1> DEFINE op == program[k].op
           a == program[k].x
           b == program[k].y
<1>2. /\ program[1].op \in ShareOps
      /\ op \in Operations
      /\ op \notin ShareOps => a \in 1 .. k - 1
      /\ op \in BinaryOps \cup MultiplyOps => b \in 1 .. k - 1
  BY <1>1, Instructions
<1>3. CASE op \in ShareOps
  BY <1>3 DEF TruthInv, SharedInv, AddsUp
<1>4. CASE op \notin ShareOps
  <2>1. k \in 2 .. Len(truth)
    <3>1. k # 1
      BY <1>2, <1>4
    <3> QED
      BY <1>0, <3>1
  <2>2. truth[k] = Value(truth, k) /\ plain[k] = Promised(plain, k)
    BY <1>0, <1>4, <2>1 DEF TruthInv, PromiseInv
  <2>3. /\ Kind(program[a].op) = OperandKind(op)
        /\ op \in BinaryOps \cup MultiplyOps => Kind(program[b].op) = OperandKind(op)
    BY <1>1, <1>4, OperandTypesAssumption
  <2>4. /\ truth[a] \in Secrets /\ AddsUp(truth, a)
        /\ op \in BinaryOps \cup MultiplyOps => truth[b] \in Secrets /\ AddsUp(truth, b)
    BY <1>0, <1>2, <1>4
  <2>5. PICK x \in Secrets : x = truth[a]
    BY <2>4
  <2>6. PICK y \in Secrets : op \in BinaryOps \cup MultiplyOps => y = truth[b]
    BY <2>4
  <2>7. PICK u, v : u = plain[a] /\ v = plain[b]
    OBVIOUS
  <2>8. /\ u # Unknown => Sum(OperandKind(op), x) = u
        /\ op \in BinaryOps \cup MultiplyOps => (v # Unknown => Sum(OperandKind(op), y) = v)
    BY <2>3, <2>4, <2>5, <2>6, <2>7 DEF AddsUp
  <2>9. op = "not_b_1" => Single(x)
    <3>1. PICK bits \in SUBSET (1 .. Len(program)) :
            /\ \A j \in bits : SingleBit(program, j, bits)
            /\ \A j \in 1 .. Len(program) : program[j].op = "not_b_1" => program[j].x \in bits
      BY OperandTypesAssumption
    <3>2. \A j \in 1 .. Len(truth) : j \in bits => Single(truth[j])
      BY <1>0, <3>1, BitsAreSingle
    <3>3. op = "not_b_1" => a \in bits /\ a \in 1 .. Len(truth)
      BY <1>0, <1>1, <1>2, <1>4, <3>1
    <3> QED
      BY <2>5, <3>2, <3>3
  <2>10. CASE op \in LocalOps
    <3>1. truth[k] = LocalWords(op, x, y)
      BY <2>2, <2>5, <2>6, <2>10 DEF Value, LocalWords
    <3>2. plain[k] = IF u = Unknown \/ (op \in BinaryOps /\ v = Unknown) THEN Unknown
                     ELSE LocalValue(op, u, v)
      BY <2>2, <2>7, <2>10 DEF Promised
    <3>3. ASSUME u # Unknown, op \in BinaryOps => v # Unknown
          PROVE  Sum(Kind(op), LocalWords(op, x, y)) = LocalValue(op, u, v)
      <4>1. Sum(Kind(op), LocalWords(op, x, y))
              = LocalValue(op, Sum(OperandKind(op), x), Sum(OperandKind(op), y))
        BY <2>9, <2>10, LocalAddsUp DEF Single
      <4>2. Sum(OperandKind(op), x) = u
        BY <2>8, <3>3
      <4>3. CASE op \in BinaryOps
        <5>1. Sum(OperandKind(op), y) = v
          BY <2>8, <3>3, <4>3
        <5> QED
          BY <4>1, <4>2, <5>1
      <4>4. CASE op \notin BinaryOps
        <5>1. \A w, m, n : LocalValue(op, w, m) = LocalValue(op, w, n)
          BY <2>10, <4>4 DEF LocalOps, UnaryOps, LocalValue
        <5> QED
          BY <4>1, <4>2, <5>1
      <4> QED
        BY <4>3, <4>4
    <3> QED
      BY <3>1, <3>2, <3>3 DEF AddsUp
  <2>11. CASE op \in MultiplyOps
    <3>1. op \notin LocalOps /\ OperandKind(op) = Kind(op)
      BY <2>11 DEF MultiplyOps, LocalOps, UnaryOps, BinaryOps, OperandKind, Kind
    <3>2. truth[k] = [s \in 0 .. 3 |-> ProductWord(Kind(op), x, y, s)]
      BY <2>2, <2>5, <2>6, <2>11, <3>1 DEF Value
    <3>3. plain[k] = IF u = Unknown \/ v = Unknown THEN Unknown ELSE Times(Kind(op), u, v)
      BY <2>2, <2>7, <2>11, <3>1 DEF Promised
    <3>4. Sum(Kind(op), truth[k]) = Times(Kind(op), Sum(Kind(op), x), Sum(Kind(op), y))
      <4>1. PICK kind : kind = Kind(op)
        OBVIOUS
      <4>2. Sum(kind, [s \in 0 .. 3 |-> ProductWord(kind, x, y, s)])
              = Times(kind, Sum(kind, x), Sum(kind, y))
        BY ProductAddsUp
      <4> QED
        BY <3>2, <4>1, <4>2
    <3> QED
      BY <2>8, <2>11, <3>1, <3>3, <3>4 DEF AddsUp
  <2>12. CASE op \in OpenOps
    <3>1. /\ op \notin LocalOps /\ op \notin MultiplyOps /\ op \notin InpOps /\ op # "b2a_bit"
          /\ OperandKind(op) = Kind(op)
      BY <2>12 DEF MultiplyOps, LocalOps, UnaryOps, BinaryOps, OpenOps, InpOps, OperandKind, Kind
    <3>2. truth[k] = x /\ plain[k] = u
      BY <2>2, <2>5, <2>7, <2>12, <3>1 DEF Value, Promised
    <3> QED
      BY <2>8, <3>1, <3>2 DEF AddsUp
  <2>13. CASE op = "b2a_bit"
    <3>1. /\ op \notin LocalOps /\ op \notin MultiplyOps /\ op \notin InpOps /\ op \notin OpenOps
          /\ OperandKind(op) = "b" /\ Kind(op) = "a"
      BY <2>13 DEF MultiplyOps, LocalOps, UnaryOps, BinaryOps, OpenOps, InpOps, OperandKind, Kind
    <3>2. /\ truth[k] = Only(1, LowBit(OpenedBit(x)))
          /\ plain[k] = IF u = Unknown THEN Unknown ELSE LowBit(u)
      BY <2>2, <2>5, <2>7, <2>13, <3>1 DEF Value, Promised, Only
    <3>3. LowBit(OpenedBit(x)) = LowBit(Sum("b", x))
      BY OpenedIsLowBit
    <3>4. LowBit(Sum("b", x)) \in WordSet
      <4>1. Sum("b", x) \in WordSet
        BY SumIsWord
      <4> QED
        BY <4>1, Closure
    <3>5. PICK w \in WordSet : w = LowBit(Sum("b", x))
      BY <3>4
    <3>6. 1 \in 0 .. 3 /\ Sum("a", Only(1, w)) = w
      BY SumOfOne
    <3> QED
      BY <2>8, <3>1, <3>2, <3>3, <3>5, <3>6 DEF AddsUp
  <2>14. CASE op \in InpOps
    <3>1. plain[k] = Unknown
      BY <2>2, <2>14 DEF Promised, InpOps, LocalOps, UnaryOps, BinaryOps, MultiplyOps, OpenOps
    <3> QED
      BY <3>1 DEF AddsUp
  <2> QED
    BY <1>2, <1>4, <2>10, <2>11, <2>12, <2>13, <2>14 DEF Operations
<1> QED
  BY <1>3, <1>4

LEMMA TruthAddsUp ==
  ASSUME program \in Programs, NEW truth, TruthInv(truth), PromiseInv, Len(plain) <= Len(program)
  PROVE  \A k \in 1 .. Len(truth) : AddsUp(truth, k)
<1> DEFINE T == {k \in 1 .. Len(truth) : ~AddsUp(truth, k)}
<1>1. SUFFICES ASSUME T # {}
               PROVE  FALSE
  OBVIOUS
<1>2. Len(truth) \in Nat
  BY DEF TruthInv
<1>3. T \subseteq Nat
  BY <1>2
<1> HIDE DEF T
<1>4. PICK k \in T : \A j \in T : ~(j < k)
  BY <1>1, <1>3, Least
<1> USE DEF T
<1>5. k \in 1 .. Len(truth) /\ ~AddsUp(truth, k)
  OBVIOUS
<1>6. \A j \in 1 .. k - 1 : AddsUp(truth, j)
  BY <1>2, <1>4, <1>5
<1> QED
  BY <1>5, <1>6, PromiseAddsUp

-----------------------------------------------------------------------------
(* Divisions and redistributions.                                          *)

\* The instructions after n are those of a division.
DivisionAt(n, first, second, reg, c) ==
  /\ program[n + 1] = Inp("div_const_a", "quotient", first, reg, c)
  /\ program[n + 2] = Inp("div_const_a", "quotient", second, reg, c)
  /\ program[n + 3] = [op |-> "add_a", x |-> n + 1, y |-> n + 2]
  /\ program[n + 4] = Inp("div_const_a", "error", first, reg, c)
  /\ program[n + 5] = Inp("div_const_a", "error", second, reg, c)
  /\ program[n + 6] = [op |-> "add_a", x |-> n + 4, y |-> n + 5]

\* Where a division ends.
LEMMA DivisionEnds ==
  ASSUME program \in Programs, NEW k \in 2 .. Len(program), program[k].op = "add_a",
         program[k - 1].op = "div_const_a", program[k - 1].vector = "error",
         NEW reg, NEW c, reg = program[k - 1].x, c = program[k - 1].c
  PROVE  \E n \in Nat, first \in {1, 2}, second \in {1, 2} :
           k = n + 6 /\ first # second /\ DivisionAt(n, first, second, reg, c)
<1>1. Len(program) \in Nat /\ k \in Nat /\ k - 1 \in 1 .. Len(program)
  BY Instructions
<1>2. PICK n \in 0 .. k - 2, first \in {1, 2} :
        LET parts == DivConst(reg, c, n, first)
        IN  /\ k - 1 <= n + Len(parts) /\ n + Len(parts) <= Len(program)
            /\ \A j \in 1 .. Len(parts) : program[n + j] = parts[j]
  <2>1. program[k - 1].op \in InpOps /\ (k - 1) - 1 = k - 2
    BY <1>1 DEF InpOps
  <2>2. \E n \in 0 .. (k - 1) - 1, first \in {1, 2} :
          LET parts == IF program[k - 1].op = "div_const_a"
                       THEN DivConst(program[k - 1].x, program[k - 1].c, n, first)
                       ELSE RedistributeShares(program[k - 1].x)
          IN  /\ k - 1 <= n + Len(parts) /\ n + Len(parts) <= Len(program)
              /\ \A j \in 1 .. Len(parts) : program[n + j] = parts[j]
    BY <1>1, <2>1, CompositesAssumption
  <2>3. PICK n \in 0 .. (k - 1) - 1, first \in {1, 2} :
          LET parts == IF program[k - 1].op = "div_const_a"
                       THEN DivConst(program[k - 1].x, program[k - 1].c, n, first)
                       ELSE RedistributeShares(program[k - 1].x)
          IN  /\ k - 1 <= n + Len(parts) /\ n + Len(parts) <= Len(program)
              /\ \A j \in 1 .. Len(parts) : program[n + j] = parts[j]
    BY <2>2
  <2>4. PICK parts : parts = DivConst(reg, c, n, first)
    OBVIOUS
  <2>5. /\ k - 1 <= n + Len(parts) /\ n + Len(parts) <= Len(program)
        /\ \A j \in 1 .. Len(parts) : program[n + j] = parts[j]
    BY <2>3, <2>4
  <2>6. n \in 0 .. k - 2
    BY <2>1
  <2> QED
    BY <2>4, <2>5, <2>6
<1>3. PICK second \in {1, 2} : second = 3 - first
  OBVIOUS
<1>4. PICK parts : parts = DivConst(reg, c, n, first)
  OBVIOUS
<1>5. /\ Len(parts) = 6
      /\ parts[1] = Inp("div_const_a", "quotient", first, reg, c)
      /\ parts[2] = Inp("div_const_a", "quotient", second, reg, c)
      /\ parts[3] = [op |-> "add_a", x |-> n + 1, y |-> n + 2]
      /\ parts[4] = Inp("div_const_a", "error", first, reg, c)
      /\ parts[5] = Inp("div_const_a", "error", second, reg, c)
      /\ parts[6] = [op |-> "add_a", x |-> n + 4, y |-> n + 5]
  BY <1>3, <1>4 DEF DivConst
<1>6. /\ k - 1 <= n + 6 /\ n \in Nat
      /\ \A j \in 1 .. 6 : program[n + j] = parts[j]
  BY <1>2, <1>4, <1>5
<1>7. PICK j \in 1 .. 6 : k - 1 = n + j
  <2>1. n <= k - 2 /\ k - 1 <= n + 6 /\ n \in Nat /\ k \in Nat
    BY <1>1, <1>6
  <2>2. (k - 1) - n \in 1 .. 6 /\ k - 1 = n + ((k - 1) - n)
    BY ONLY <2>1
  <2> QED
    BY <2>2
<1>8. j = 5
  <2>0. program[k - 1] = parts[j]
    BY <1>6, <1>7
  <2>1. j # 3 /\ j # 6
    BY <1>5, <2>0
  <2>2. j # 1 /\ j # 2
    BY <1>5, <2>0 DEF Inp
  <2>3. j # 4
    <3>1. j = 4 => k = n + 5 /\ program[k] = parts[5]
      BY <1>1, <1>6, <1>7
    <3> QED
      BY <1>5, <3>1 DEF Inp
  <2> QED
    BY <2>1, <2>2, <2>3
<1>9. k = n + 6
  BY <1>1, <1>6, <1>7, <1>8
<1>10. /\ program[n + 1] = parts[1] /\ program[n + 2] = parts[2] /\ program[n + 3] = parts[3]
       /\ program[n + 4] = parts[4] /\ program[n + 5] = parts[5] /\ program[n + 6] = parts[6]
  BY <1>6
<1>11. DivisionAt(n, first, second, reg, c)
  BY <1>5, <1>10 DEF DivisionAt
<1>12. first # second
  BY <1>3
<1> QED
  BY <1>6, <1>9, <1>11, <1>12

\* Where a redistribution ends.
LEMMA RedistributionParts ==
  ASSUME program \in Programs, NEW k \in 1 .. Len(program),
         program[k].op = "redistribute_shares_b", program[k].roles = Roles[2]
  PROVE  /\ k > 1
         /\ program[k - 1] = Inp("redistribute_shares_b", "sum", 1, program[k].x, 1)
         /\ program[k] = Inp("redistribute_shares_b", "sum", 2, program[k].x, 1)
<1> DEFINE reg == program[k].x
<1>1. Len(program) \in Nat /\ k \in Nat
  BY Instructions
<1>2. PICK n \in 0 .. k - 1, first \in {1, 2} :
        LET parts == RedistributeShares(reg)
        IN  /\ k <= n + Len(parts) /\ n + Len(parts) <= Len(program)
            /\ \A j \in 1 .. Len(parts) : program[n + j] = parts[j]
  <2>1. program[k].op \in InpOps
    BY DEF InpOps
  <2> QED
    BY <2>1, CompositesAssumption
<1>3. PICK parts : parts = RedistributeShares(reg)
  OBVIOUS
<1>4. /\ Len(parts) = 2
      /\ parts[1] = Inp("redistribute_shares_b", "sum", 1, reg, 1)
      /\ parts[2] = Inp("redistribute_shares_b", "sum", 2, reg, 1)
  BY <1>3 DEF RedistributeShares
<1>5. k <= n + 2 /\ n \in Nat /\ \A j \in 1 .. 2 : program[n + j] = parts[j]
  BY <1>2, <1>3, <1>4
<1>6. program[n + 1] = parts[1] /\ program[n + 2] = parts[2]
  BY <1>5
<1>7. k # n + 1
  <2>1. Roles[1] # Roles[2]
    BY DEF Roles
  <2> QED
    BY <1>4, <1>6, <2>1 DEF Inp
<1>8. k = n + 2 /\ k - 1 = n + 1
  BY <1>1, <1>2, <1>5, <1>7
<1> QED
  BY <1>4, <1>5, <1>6, <1>8

-----------------------------------------------------------------------------
(* What the registers add up to.                                           *)

\* Whoever holds its words, a result is its words' sum.
LEMMA Reconstructs ==
  ASSUME Types, NEW truth, TruthInv(truth), Counts, NEW k \in SharedBy(Parties)
  PROVE  /\ k \in 1 .. Len(truth) /\ program[k].op \notin OpenOps
         /\ Reconstruct(k) = Sum(Kind(program[k].op), truth[k])
         /\ \A j \in 1 .. k - 1 : program[j].op \notin OpenOps => j \in SharedBy(Parties)
<1>1. /\ plain \in Seq(WordSet \cup {Unknown}) /\ \A p \in Parties : regs[p] \in Seq(Registers)
      /\ truth \in Seq(Secrets) /\ Len(truth) = Len(plain) /\ Len(plain) \in Nat
      /\ \A p \in Parties : RegsInv(p) /\ HeldInv(truth, p)
  BY DEF Types, TruthInv, Counts
<1>2. k \in 1 .. Len(plain) /\ \A p \in Parties : k \in 1 .. Len(regs[p]) /\ regs[p][k].kind # "open"
  BY <1>1 DEF SharedBy
<1>3. \A p \in Parties : regs[p][k].kind = ResultKind(program[k].op)
  BY <1>1, <1>2 DEF RegsInv
<1>4. Parties = {0, 1, 2, 3}
  BY Around
<1>5. program[k].op \notin OpenOps /\ regs[0][k].kind = Kind(program[k].op)
  BY <1>2, <1>3, <1>4 DEF ResultKind
<1>6. \A p \in Parties : regs[p][k].shares[1] = truth[k][Relative(p, 1)]
  <2>1. \A p \in Parties : regs[p][k].shares = Share(truth[k], p)
    BY <1>1, <1>2 DEF HeldInv, HeldAs
  <2>2. \A p : Share(truth[k], p)[1] = truth[k][Relative(p, 1)]
    BY DEF Share, Replication
  <2> QED
    BY <2>1, <2>2
<1>7. /\ Relative(0, 1) = 1 /\ Relative(1, 1) = 2 /\ Relative(2, 1) = 3 /\ Relative(3, 1) = 0
  BY Around
<1>8. /\ regs[0][k].shares[1] = truth[k][1] /\ regs[1][k].shares[1] = truth[k][2]
      /\ regs[2][k].shares[1] = truth[k][3] /\ regs[3][k].shares[1] = truth[k][0]
  BY <1>4, <1>6, <1>7
<1>9. Reconstruct(k) = Sum(Kind(program[k].op), truth[k])
  BY <1>5, <1>8 DEF Reconstruct, Sum
<1>10. ASSUME NEW j \in 1 .. k - 1, program[j].op \notin OpenOps
       PROVE  j \in SharedBy(Parties)
  <2>1. j \in 1 .. Len(plain) /\ \A p \in Parties : j \in 1 .. Len(regs[p])
    BY <1>1, <1>2
  <2>2. \A p \in Parties : regs[p][j].kind # "open"
    BY <1>1, <1>10, <2>1 DEF RegsInv, ResultKind, Kind
  <2> QED
    BY <1>1, <2>1, <2>2 DEF SharedBy
<1> QED
  BY <1>1, <1>2, <1>5, <1>9, <1>10

\* A word that two parties share.
LEMMA InpAddsUp ==
  ASSUME program \in Programs, NEW truth, TruthInv(truth), NEW k \in 2 .. Len(truth),
         Len(truth) <= Len(program), program[k].op \in InpOps, NEW kind
  PROVE  /\ Sum(kind, truth[k]) = InpWord(program[k], truth[program[k].x])
         /\ program[k].x \in 1 .. k - 1 /\ program[program[k].x].op \notin OpenOps
         /\ truth[program[k].x] \in Secrets
         /\ Kind(program[program[k].x].op) = "a" /\ program[k].c \in Divisor
<1>1. truth \in Seq(Secrets) /\ Len(truth) \in Nat /\ Len(program) \in Nat
  BY Instructions DEF TruthInv
<1>2. k \in 1 .. Len(program) /\ k \in 1 .. Len(truth)
  BY <1>1
<1>3. /\ program[k].op \notin ShareOps /\ program[k].op \notin LocalOps
      /\ program[k].op \notin MultiplyOps /\ OperandKind(program[k].op) = "a"
  BY DEF InpOps, ShareOps, LocalOps, UnaryOps, BinaryOps, MultiplyOps, OperandKind
<1>4. /\ program[k].x \in 1 .. k - 1 /\ program[program[k].x].op \notin OpenOps
      /\ IsRoles(program[k].roles) /\ program[k].c \in Divisor
  BY <1>2, <1>3, Instructions
<1>5. Kind(program[program[k].x].op) = "a"
  BY <1>2, <1>3, OperandTypesAssumption
<1>6. PICK x \in Secrets : x = truth[program[k].x]
  BY <1>1, <1>2, <1>4
<1>7. PICK t \in 0 .. 3 : t = Relative(program[k].roles.i, 2)
  BY <1>4, Around DEF IsRoles
<1>8. PICK w : w = InpWord(program[k], x)
  OBVIOUS
<1>9. truth[k] = Value(truth, k)
  BY <1>3 DEF TruthInv
<1>10. truth[k] = Only(t, w)
  BY <1>3, <1>6, <1>7, <1>8, <1>9 DEF Value, Only
<1>11. w \in WordSet
  <2>1. truth[k] \in Secrets
    BY <1>1, <1>2
  <2>2. truth[k][t] = w
    BY <1>10 DEF Only
  <2> QED
    BY <2>1, <2>2 DEF Secrets
<1>12. Sum(kind, Only(t, w)) = w
  BY <1>11, SumOfOne
<1> QED
  BY <1>4, <1>5, <1>6, <1>8, <1>10, <1>12

LEMMA AdditionAddsUp ==
  ASSUME program \in Programs, NEW truth, TruthInv(truth), NEW k \in 2 .. Len(truth),
         Len(truth) <= Len(program), program[k].op = "add_a"
  PROVE  Sum("a", truth[k]) = Plus("a", Sum("a", truth[program[k].x]), Sum("a", truth[program[k].y]))
<1>1. truth \in Seq(Secrets) /\ Len(truth) \in Nat /\ Len(program) \in Nat
  BY Instructions DEF TruthInv
<1>2. k \in 1 .. Len(program) /\ k \in 1 .. Len(truth)
  BY <1>1
<1>3. program[k].op \notin ShareOps /\ program[k].op \in BinaryOps /\ program[k].op \in LocalOps
  BY DEF ShareOps, BinaryOps, LocalOps
<1>4. program[k].x \in 1 .. k - 1 /\ program[k].y \in 1 .. k - 1
  BY <1>2, <1>3, Instructions
<1>5. PICK x \in Secrets, y \in Secrets : x = truth[program[k].x] /\ y = truth[program[k].y]
  BY <1>1, <1>2, <1>4
<1>6. truth[k] = Value(truth, k)
  BY <1>3 DEF TruthInv
<1>7. truth[k] = Pluses("a", x, y)
  BY <1>3, <1>5, <1>6 DEF Value, LocalWord, Pluses, Plus
<1> QED
  BY <1>5, <1>7, SumOfPluses

LEMMA WordsShow ==
  ASSUME Types, NEW truth, TruthInv(truth), Counts, PlainInv, PromiseInv
  PROVE  SharesMatchPlain /\ OpenedIsPlain
<1>1. program \in Programs /\ Len(plain) <= Len(program) /\ Len(truth) = Len(plain)
  BY PlainFits DEF Types, TruthInv
<1>2. \A k \in 1 .. Len(truth) : AddsUp(truth, k)
  BY <1>1, TruthAddsUp
<1>3. ASSUME NEW k \in SharedBy(Parties), plain[k] # Unknown
      PROVE  Reconstruct(k) = plain[k]
  BY <1>2, <1>3, Reconstructs DEF AddsUp
<1>4. ASSUME NEW p \in Parties, NEW k \in DOMAIN regs[p],
             regs[p][k].kind = "open", plain[k] # Unknown
      PROVE  regs[p][k].shares[1] = plain[k]
  <2>1. /\ Len(regs[p]) \in Nat /\ Len(regs[p]) <= Len(plain) /\ Len(plain) \in Nat
        /\ regs[p] \in Seq(Registers)
    BY RegsPlain DEF Types
  <2>2. k \in 1 .. Len(regs[p]) /\ k \in 1 .. Len(truth)
    BY <1>1, <2>1
  <2>3. HeldInv(truth, p)
    BY DEF TruthInv
  <2>4. HeldAs(regs[p][k], program[k].op, truth[k], p)
    BY <2>2, <2>3 DEF HeldInv
  <2> QED
    BY <1>2, <1>4, <2>2, <2>4 DEF AddsUp, HeldAs
<1> QED
  BY <1>3, <1>4 DEF SharesMatchPlain, OpenedIsPlain

LEMMA DivisionsShow ==
  ASSUME Types, NEW truth, TruthInv(truth), Counts, PlainInv
  PROVE  DivisionIdentity
<1>1. /\ program \in Programs /\ Len(plain) <= Len(program) /\ Len(truth) = Len(plain)
      /\ Len(plain) \in Nat /\ Len(program) \in Nat /\ truth \in Seq(Secrets)
  BY PlainFits DEF Types, TruthInv
<1>2. ASSUME NEW k \in SharedBy(Parties), k \in DOMAIN program, k > 3, program[k].op = "add_a",
             program[k - 1].op = "div_const_a", program[k - 1].vector = "error"
      PROVE  Wrap(Reconstruct(k - 3) * program[k - 1].c + Reconstruct(k))
               = Wrap(Reconstruct(program[k - 1].x) - program[k - 1].c)
  <2>1. k \in 1 .. Len(truth) /\ k \in Nat /\ k \in 2 .. Len(program)
    BY <1>1, <1>2, Reconstructs
  <2>2. PICK reg, c : reg = program[k - 1].x /\ c = program[k - 1].c
    OBVIOUS
  <2>3. PICK n \in Nat, first \in {1, 2}, second \in {1, 2} :
          k = n + 6 /\ first # second /\ DivisionAt(n, first, second, reg, c)
    BY <1>1, <1>2, <2>1, <2>2, DivisionEnds
  <2> DEFINE part(vector, m) == Inp("div_const_a", vector, m, reg, c)
  <2>4. /\ program[n + 1] = part("quotient", first) /\ program[n + 2] = part("quotient", second)
        /\ program[n + 3].op = "add_a" /\ program[n + 3].x = n + 1 /\ program[n + 3].y = n + 2
        /\ program[n + 4] = part("error", first) /\ program[n + 5] = part("error", second)
        /\ program[n + 6].op = "add_a" /\ program[n + 6].x = n + 4 /\ program[n + 6].y = n + 5
    BY <2>3 DEF DivisionAt
  <2>5. \A v, m : part(v, m).op \in InpOps /\ part(v, m).x = reg /\ part(v, m).c = c
    BY DEF Inp, InpOps
  <2>6. n # 0
    <3>1. program[1].op \in ShareOps
      BY <1>1, Instructions
    <3>2. "div_const_a" \notin ShareOps
      BY DEF ShareOps
    <3> QED
      BY <2>4, <3>1, <3>2 DEF Inp
  <2>7. /\ n + 1 \in 2 .. Len(truth) /\ n + 2 \in 2 .. Len(truth) /\ n + 3 \in 2 .. Len(truth)
        /\ n + 4 \in 2 .. Len(truth) /\ n + 5 \in 2 .. Len(truth) /\ n + 6 \in 2 .. Len(truth)
    BY <1>1, <2>1, <2>3, <2>6
  <2>8. PICK x : x = truth[reg]
    OBVIOUS
  <2>9. \A j \in 2 .. Len(truth) :
          program[j].op \in InpOps /\ program[j].x = reg /\ program[j].c = c =>
            /\ Sum("a", truth[j]) = InpWord(program[j], x)
            /\ reg \in 1 .. j - 1 /\ program[reg].op \notin OpenOps /\ x \in Secrets
            /\ Kind(program[reg].op) = "a" /\ c \in Divisor
    BY <1>1, <2>8, InpAddsUp
  <2>10. ASSUME NEW j \in 2 .. Len(truth), NEW v, NEW m, program[j] = part(v, m)
         PROVE  /\ Sum("a", truth[j]) = InpWord(part(v, m), x)
                /\ reg \in 1 .. j - 1 /\ program[reg].op \notin OpenOps /\ x \in Secrets
                /\ Kind(program[reg].op) = "a" /\ c \in Divisor
    BY <2>5, <2>9, <2>10
  <2> HIDE DEF part
  <2>11. /\ Sum("a", truth[n + 1]) = InpWord(part("quotient", first), x)
         /\ Sum("a", truth[n + 2]) = InpWord(part("quotient", second), x)
         /\ Sum("a", truth[n + 4]) = InpWord(part("error", first), x)
         /\ Sum("a", truth[n + 5]) = InpWord(part("error", second), x)
         /\ reg \in 1 .. (n + 1) - 1 /\ program[reg].op \notin OpenOps /\ x \in Secrets
         /\ Kind(program[reg].op) = "a" /\ c \in Divisor
    BY <2>4, <2>7, <2>10
  <2>12. \A j \in 2 .. Len(truth) : program[j].op = "add_a" =>
           Sum("a", truth[j])
             = Plus("a", Sum("a", truth[program[j].x]), Sum("a", truth[program[j].y]))
    BY <1>1, AdditionAddsUp
  <2>13. /\ Sum("a", truth[n + 3]) = Plus("a", InpWord(part("quotient", first), x),
                                             InpWord(part("quotient", second), x))
         /\ Sum("a", truth[n + 6]) = Plus("a", InpWord(part("error", first), x),
                                             InpWord(part("error", second), x))
    BY <2>4, <2>7, <2>11, <2>12
  <2>14. Wrap(Sum("a", truth[n + 3]) * c + Sum("a", truth[n + 6])) = Wrap(Sum("a", x) - c)
    <3>1. Wrap(Plus("a", InpWord(part("quotient", first), x),
                         InpWord(part("quotient", second), x)) * c
                 + Plus("a", InpWord(part("error", first), x),
                             InpWord(part("error", second), x)))
            = Wrap(Sum("a", x) - c)
      BY <2>3, <2>11, DivisionAddsUp DEF part
    <3> QED
      BY <2>13, <3>1
  <2>15. /\ Reconstruct(k) = Sum("a", truth[k]) /\ k = n + 6
         /\ \A j \in 1 .. k - 1 : program[j].op \notin OpenOps => j \in SharedBy(Parties)
    BY <1>2, <2>3, Reconstructs DEF Kind
  <2>16. /\ k - 3 = n + 3 /\ k - 3 \in 1 .. k - 1 /\ reg \in 1 .. k - 1
    BY <2>1, <2>3, <2>11
  <2>17. Reconstruct(k - 3) = Sum("a", truth[n + 3])
    <3>1. program[k - 3].op = "add_a" /\ "add_a" \notin OpenOps
      BY <2>4, <2>16 DEF OpenOps
    <3>2. k - 3 \in SharedBy(Parties)
      BY <2>15, <2>16, <3>1
    <3> QED
      BY <2>16, <3>1, <3>2, Reconstructs DEF Kind
  <2>18. Reconstruct(reg) = Sum("a", x)
    <3>1. reg \in SharedBy(Parties)
      BY <2>11, <2>15, <2>16
    <3> QED
      BY <2>8, <2>11, <3>1, Reconstructs
  <2> QED
    BY <2>2, <2>14, <2>15, <2>17, <2>18
<1> QED
  BY <1>2 DEF DivisionIdentity

LEMMA RedistributionsShow ==
  ASSUME Types, NEW truth, TruthInv(truth), Counts, PlainInv
  PROVE  RedistributionIdentity
<1>1. /\ program \in Programs /\ Len(plain) <= Len(program) /\ Len(truth) = Len(plain)
      /\ Len(plain) \in Nat /\ Len(program) \in Nat
  BY PlainFits DEF Types, TruthInv
<1>2. ASSUME NEW k \in SharedBy(Parties), k \in DOMAIN program, k > 2,
             program[k].op = "redistribute_shares_b", program[k].roles = Roles[2]
      PROVE  Wrap(Reconstruct(k - 1) + Reconstruct(k)) = Reconstruct(program[k].x)
  <2>1. /\ k \in 1 .. Len(truth) /\ k \in Nat /\ k \in 1 .. Len(program)
        /\ k \in 2 .. Len(truth) /\ k - 1 \in 2 .. Len(truth) /\ k - 1 \in 1 .. k - 1
    BY <1>1, <1>2, Reconstructs
  <2>2. PICK reg : reg = program[k].x
    OBVIOUS
  <2> DEFINE part(m) == Inp("redistribute_shares_b", "sum", m, reg, 1)
  <2>3. program[k - 1] = part(1) /\ program[k] = part(2)
    BY <1>1, <1>2, <2>1, <2>2, RedistributionParts
  <2>4. \A m : /\ part(m).op \in InpOps /\ part(m).op = "redistribute_shares_b"
               /\ part(m).x = reg /\ part(m).c = 1
    BY DEF Inp, InpOps
  <2>5. PICK x : x = truth[reg]
    OBVIOUS
  <2>6. \A j \in 2 .. Len(truth) :
          program[j].op \in InpOps /\ program[j].x = reg /\ program[j].c = 1 =>
            /\ Sum("b", truth[j]) = InpWord(program[j], x)
            /\ reg \in 1 .. j - 1 /\ program[reg].op \notin OpenOps /\ x \in Secrets
            /\ Kind(program[reg].op) = "a" /\ 1 \in Divisor
    BY <1>1, <2>5, InpAddsUp
  <2>7. /\ Sum("b", truth[k - 1]) = InpWord(part(1), x) /\ Sum("b", truth[k]) = InpWord(part(2), x)
        /\ reg \in 1 .. k - 1 /\ program[reg].op \notin OpenOps /\ x \in Secrets
        /\ Kind(program[reg].op) = "a" /\ 1 \in Divisor
    BY <2>1, <2>3, <2>4, <2>6
  <2>8. /\ program[k].op = "redistribute_shares_b" /\ program[k - 1].op = "redistribute_shares_b"
        /\ Kind("redistribute_shares_b") = "b" /\ "redistribute_shares_b" \notin OpenOps
    BY <2>3, <2>4 DEF Kind, OpenOps
  <2>9. k - 1 \in SharedBy(Parties) /\ reg \in SharedBy(Parties)
    BY <1>2, <2>1, <2>7, <2>8, Reconstructs
  <2>10. /\ Reconstruct(k) = Sum("b", truth[k]) /\ Reconstruct(k - 1) = Sum("b", truth[k - 1])
         /\ Reconstruct(reg) = Sum("a", x)
    BY <1>2, <2>5, <2>7, <2>8, <2>9, Reconstructs
  <2>11. Wrap(InpWord(part(1), x) + InpWord(part(2), x)) = Sum("a", x)
    BY <2>7, RedistributionAddsUp
  <2> QED
    BY <2>2, <2>7, <2>10, <2>11
<1> QED
  BY <1>2 DEF RedistributionIdentity

\* The words of a result add up to what the operation promises for the plaintexts,
\* whatever they are: in programs that compare what they receive, even if a
\* message was altered. What is opened is the plaintext; the quotient and the
\* error of a division make up the dividend; the two vectors of a redistribution
\* add up to the number that was shared.
THEOREM ResultsAddUp ==
  /\ \A instrs \in Programs : DealsItself(instrs)
  /\ MaxAltered = 0 \/ (MaxAltered = 1 /\ \A instrs \in Alterable : Compares(instrs))
  /\ Spec
  => []ResultsMatchPlain
<1>1. Tolerated /\ IInv /\ PromiseInv => ResultsMatchPlain
  <2> SUFFICES ASSUME Tolerated, IInv, PromiseInv
               PROVE  ResultsMatchPlain
    OBVIOUS
  <2>1. Types /\ Counts /\ PlainInv
    BY DEF IInv
  <2>2. PICK truth : TruthInv(truth)
    BY TruthsExist
  <2>3. SharesMatchPlain /\ OpenedIsPlain
    BY <2>1, <2>2, WordsShow
  <2>4. DivisionIdentity /\ RedistributionIdentity
    BY <2>1, <2>2, DivisionsShow, RedistributionsShow
  <2> QED
    BY <2>3, <2>4 DEF ResultsMatchPlain
<1>2. Tolerated => Tolerated'
  BY DEF Tolerated
<1> QED
  BY <1>1, <1>2, Invariance, Promising, PTL DEF ProgramsDeal, Tolerated, Spec
==============================================================================
