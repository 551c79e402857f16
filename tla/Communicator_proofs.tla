-------------------------- MODULE Communicator_proofs --------------------------
(***************************************************************************)
(* No message is taken for another, whatever the calls, the sizes of the   *)
(* vectors and the numbers of parties, threads and chunks.                 *)
(*                                                                         *)
(* A stream is what one thread of a party sends one thread of another as   *)
(* the chunk of one number: a message in every batch of every parallel     *)
(* call for every communicator call the two make to each other.  What they *)
(* have done says which messages of the stream have been sent and which    *)
(* have been taken; the others sent wait in the network, in order, and at  *)
(* most one receive does.                                                  *)
(***************************************************************************)
EXTENDS Communicator, Division_proofs, FiniteSetTheorems

\* A batch of thread t begins at i.
IsBatch(r, t, i) ==
  /\ r \in 1 .. Len(Totals)
  /\ i \in Start(r, t) .. End(r, t) - 1
  /\ (i - Start(r, t)) % BatchSize = 0

\* How many messages of a stream there are in a batch.
PerBatch(p, q) == SendsTo(p, q, Len(Calls[p]))

\* Message k of batch i of round r comes before, or is, message k0 of i0 of r0.
UpTo(r, i, k, r0, i0, k0) == r < r0 \/ (r = r0 /\ (i < i0 \/ (i = i0 /\ k <= k0)))

\* The calls of the batch it is in that thread t has posted chunk c of, and
\* those it has received it in.
PostedCalls(p, t, c) == call[<<p, t>>] - 1 + (IF posted[<<p, t>>] > c THEN 1 ELSE 0)
HeardCalls(q, t, c) == call[<<q, t>>] - 1 + (IF c \in DOMAIN buffer[<<q, t>>] THEN 1 ELSE 0)

Sent(p, q, t, c, r, i, k) ==
  UpTo(r, i, k, round[p], pos[<<p, t>>], SendsTo(p, q, PostedCalls(p, t, c)))

Taken(p, q, t, c, r, i, k) ==
  UpTo(r, i, k, round[q], pos[<<q, t>>], ReceivesFrom(q, p, HeardCalls(q, t, c)))

\* The message party p sends, in call n of batch i of round r.
Content(p, t, c, r, i, n) ==
  LET size == BatchEnd(i, BatchSize, End(r, t)) - i
  IN  [party |-> p, thread |-> t, round |-> r, batch |-> i, call |-> n, chunk |-> c,
       start |-> ChunkStart(size, c), size |-> ChunkSize(size, c)]

\* A message of the stream that has been sent and not been taken.
Waits(m, p, q, t, c) ==
  /\ m = Content(p, t, c, m.round, m.batch, m.call)
  /\ IsBatch(m.round, t, m.batch)
  /\ m.call \in 1 .. Len(Calls[p]) /\ Calls[p][m.call].to = q
  /\ \E k \in 1 .. PerBatch(p, q) : /\ k = SendsTo(p, q, m.call)
                                    /\ Sent(p, q, t, c, m.round, m.batch, k)
                                    /\ ~Taken(p, q, t, c, m.round, m.batch, k)

Before(r, i, k, r0, i0, k0) == r < r0 \/ (r = r0 /\ (i < i0 \/ (i = i0 /\ k < k0)))

Earlier(p, q, m, n) ==
  Before(m.round, m.batch, SendsTo(p, q, m.call), n.round, n.batch, SendsTo(p, q, n.call))

\* The messages of the stream that wait are those sent and not taken.
Stream(queue, p, q, t, c) ==
  /\ \A a \in 1 .. Len(queue) : Waits(queue[a], p, q, t, c)
  /\ \A a, b \in 1 .. Len(queue) : a < b => Earlier(p, q, queue[a], queue[b])
  /\ \A r, i : IsBatch(r, t, i) => \A k \in 1 .. PerBatch(p, q) :
       /\ Taken(p, q, t, c, r, i, k) => Sent(p, q, t, c, r, i, k)
       /\ Sent(p, q, t, c, r, i, k) /\ ~Taken(p, q, t, c, r, i, k) =>
            \E a \in 1 .. Len(queue) : queue[a].round = r /\ queue[a].batch = i
                                       /\ SendsTo(p, q, queue[a].call) = k

StreamInv(p, q, t, c) ==
  \E queue \in {messages[<<p, q>>][Tag(t, c)]} : Stream(queue, p, q, t, c)

\* Thread t of party q has posted a receive for chunk c and has not got it.
Expects(p, q, t, c) ==
  /\ Working(q, t) /\ Call(q, t).from = p
  /\ posted[<<q, t>>] > c /\ c \notin DOMAIN buffer[<<q, t>>]

ReceiveInv(p, q, t, c) ==
  receives[<<p, q>>][Tag(t, c)] = IF Expects(p, q, t, c) THEN <<Request(q, t, c)>> ELSE <<>>

\* What is in a buffer is the message that belongs there.
Fits(m, p, t, c) ==
  LET from == Call(p, t).from
  IN  /\ m = Content(from, t, c, round[p], pos[<<p, t>>], m.call)
      /\ SendsTo(from, p, m.call) = ReceivesFrom(p, from, call[<<p, t>>])

WorkerInv(p, t) ==
  /\ round[p] \in 1 .. Len(Totals) + 1
  /\ call[<<p, t>>] \in 1 .. Len(Calls[p])
  /\ posted[<<p, t>>] \in 0 .. Factor
  /\ pos[<<p, t>>] \in Nat
  /\ Start(round[p], t) <= pos[<<p, t>>]
  /\ (pos[<<p, t>>] - Start(round[p], t)) % BatchSize = 0
  /\ ~Working(p, t) => call[<<p, t>>] = 1 /\ posted[<<p, t>>] = 0
  /\ DOMAIN buffer[<<p, t>>] \subseteq 0 .. posted[<<p, t>>] - 1
  /\ Call(p, t).from = NoParty => DOMAIN buffer[<<p, t>>] = {}
  /\ \A c \in DOMAIN buffer[<<p, t>>] : Fits(buffer[<<p, t>>][c], p, t, c)

Chunks == 0 .. Factor - 1

Messages == [party : Parties, thread : Threads, round : Nat, batch : Nat, call : Nat, chunk : Chunks,
             start : Int, size : Int]

Types ==
  /\ operation \in Operations
  /\ round \in [Parties -> Nat]
  /\ pos \in [Workers -> Nat]
  /\ call \in [Workers -> Nat]
  /\ posted \in [Workers -> Nat]
  /\ DOMAIN buffer = Workers
  /\ messages \in [Links -> [Tags -> Seq(Messages)]]
  /\ receives \in [Links -> [Tags -> Seq(Messages)]]

IInv ==
  /\ Types
  /\ \A p \in Parties, t \in Threads : WorkerInv(p, t)
  /\ \A p, q \in Parties, t \in Threads, c \in Chunks :
       StreamInv(p, q, t, c) /\ ReceiveInv(p, q, t, c)

-----------------------------------------------------------------------------
(* Calls and batches.                                                      *)

LEMMA Counting ==
  ASSUME NEW P, NEW n \in Nat
  PROVE  /\ Cardinality(P \cap (1 .. n)) \in Nat
         /\ n # 0 /\ n \in P => Cardinality(P \cap (1 .. n)) = Cardinality(P \cap (1 .. n - 1)) + 1
         /\ n # 0 /\ n \notin P => Cardinality(P \cap (1 .. n)) = Cardinality(P \cap (1 .. n - 1))
         /\ n = 0 => Cardinality(P \cap (1 .. n)) = 0
         /\ \A m \in 0 .. n : Cardinality(P \cap (1 .. m)) <= Cardinality(P \cap (1 .. n))
<1>1. \A m \in Nat : IsFiniteSet(P \cap (1 .. m)) /\ Cardinality(P \cap (1 .. m)) \in Nat
  <2>1. \A m \in Nat : IsFiniteSet(1 .. m)
    BY FS_Interval
  <2>2. \A m \in Nat : P \cap (1 .. m) \subseteq 1 .. m
    OBVIOUS
  <2> QED
    BY <2>1, <2>2, FS_Subset, FS_CardinalityType
<1>2. ASSUME n # 0, n \in P
      PROVE  Cardinality(P \cap (1 .. n)) = Cardinality(P \cap (1 .. n - 1)) + 1
  <2>1. n - 1 \in Nat /\ P \cap (1 .. n) = (P \cap (1 .. n - 1)) \cup {n} /\ n \notin P \cap (1 .. n - 1)
    BY <1>2
  <2> QED
    BY <1>1, <2>1, FS_AddElement
<1>3. ASSUME n # 0, n \notin P
      PROVE  P \cap (1 .. n) = P \cap (1 .. n - 1)
  <2>1. \A m \in P : m \in 1 .. n <=> m \in 1 .. n - 1
    <3>1. \A m \in P : m # n
      BY <1>3
    <3> QED
      BY <3>1
  <2> QED
    BY <2>1
<1>4. n = 0 => Cardinality(P \cap (1 .. n)) = 0
  <2>1. n = 0 => P \cap (1 .. n) = {}
    OBVIOUS
  <2> QED
    BY <2>1, FS_EmptySet
<1>5. ASSUME NEW m \in 0 .. n
      PROVE  Cardinality(P \cap (1 .. m)) <= Cardinality(P \cap (1 .. n))
  <2>1. P \cap (1 .. m) \subseteq P \cap (1 .. n)
    OBVIOUS
  <2> QED
    BY <1>1, <2>1, FS_Subset
<1> QED
  BY <1>1, <1>2, <1>3, <1>4, <1>5

LEMMA OperationFacts ==
  ASSUME operation \in Operations, NEW p \in Parties
  PROVE  /\ Totals \in Seq(Nat) /\ Len(Totals) \in Nat
         /\ Len(Calls[p]) \in Nat \ {0}
         /\ \A n \in 1 .. Len(Calls[p]) : /\ Calls[p][n].to \in Parties \cup {NoParty}
                                          /\ Calls[p][n].from \in Parties \cup {NoParty}
         /\ \A q \in Parties : PerBatch(p, q) = ReceivesFrom(q, p, Len(Calls[q]))
<1> DEFINE Exchanges == [to : Parties \cup {NoParty}, from : Parties \cup {NoParty}]
<1>1. /\ operation.totals \in Seq(Nat)
      /\ operation.calls[p] \in Seq(Exchanges) /\ operation.calls[p] # <<>>
  BY CommunicatorAssumption
<1>2. ASSUME NEW q \in Parties
      PROVE  PerBatch(p, q) = ReceivesFrom(q, p, Len(Calls[q]))
  BY CommunicatorAssumption DEF PerBatch, SendsTo, ReceivesFrom, Calls
<1>3. PICK calls \in Seq(Exchanges) : calls = Calls[p]
  BY <1>1 DEF Calls
<1>4. calls # <<>>
  BY <1>1, <1>3 DEF Calls
<1>5. \A n \in 1 .. Len(calls) : calls[n] \in Exchanges
  <2> HIDE DEF Exchanges
  <2> QED
    OBVIOUS
<1> QED
  <2>1. Totals \in Seq(Nat) /\ Len(Totals) \in Nat
    BY <1>1 DEF Totals
  <2>2. Len(calls) \in Nat \ {0}
    BY <1>4
  <2>3. \A n \in 1 .. Len(calls) : /\ calls[n].to \in Parties \cup {NoParty}
                                  /\ calls[n].from \in Parties \cup {NoParty}
    BY <1>5
  <2> QED
    BY <1>2, <1>3, <2>1, <2>2, <2>3

\* The calls of a party are counted one by one.
LEMMA SendsCount ==
  ASSUME operation \in Operations, NEW p \in Parties, NEW q
  PROVE  /\ SendsTo(p, q, 0) = 0
         /\ \A n \in 0 .. Len(Calls[p]) : /\ SendsTo(p, q, n) \in Nat
                                          /\ SendsTo(p, q, n) <= PerBatch(p, q)
         /\ \A n \in 1 .. Len(Calls[p]) :
              /\ Calls[p][n].to = q => SendsTo(p, q, n) = SendsTo(p, q, n - 1) + 1
              /\ Calls[p][n].to # q => SendsTo(p, q, n) = SendsTo(p, q, n - 1)
<1>1. PICK N \in Nat : N = Len(Calls[p])
  BY OperationFacts
<1> DEFINE P == {n \in 1 .. N : Calls[p][n].to = q}
<1>2. \A n \in 0 .. N : SendsTo(p, q, n) = Cardinality(P \cap (1 .. n))
  <2>1. ASSUME NEW n \in 0 .. N
        PROVE  {m \in 1 .. n : Calls[p][m].to = q} = P \cap (1 .. n)
    OBVIOUS
  <2> QED
    BY <2>1 DEF SendsTo
<1>3. \A n \in 1 .. N : n \in P <=> Calls[p][n].to = q
  OBVIOUS
<1> HIDE DEF P
<1>4. ASSUME NEW n \in 0 .. N
      PROVE  /\ SendsTo(p, q, n) \in Nat
             /\ SendsTo(p, q, n) <= PerBatch(p, q)
  <2>1. N \in 0 .. N /\ PerBatch(p, q) = SendsTo(p, q, N)
    BY <1>1 DEF PerBatch
  <2>2. n \in Nat
    OBVIOUS
  <2>3. Cardinality(P \cap (1 .. n)) \in Nat
    BY <2>2, Counting
  <2>4. \A m \in 0 .. N : Cardinality(P \cap (1 .. m)) <= Cardinality(P \cap (1 .. N))
    BY Counting, Zenon
  <2> QED
    BY <1>2, <2>1, <2>3, <2>4
<1>5. ASSUME NEW n \in 1 .. N
      PROVE  /\ Calls[p][n].to = q => SendsTo(p, q, n) = SendsTo(p, q, n - 1) + 1
             /\ Calls[p][n].to # q => SendsTo(p, q, n) = SendsTo(p, q, n - 1)
  <2>1. n \in Nat /\ n # 0 /\ n \in 0 .. N /\ n - 1 \in 0 .. N
    OBVIOUS
  <2> QED
    BY <1>2, <1>3, <2>1, Counting
<1>6. SendsTo(p, q, 0) = 0
  <2>1. 0 \in 0 .. N
    OBVIOUS
  <2> QED
    BY <1>2, <2>1, Counting
<1> QED
  BY <1>1, <1>4, <1>5, <1>6

LEMMA ReceivesCount ==
  ASSUME operation \in Operations, NEW p \in Parties, NEW q
  PROVE  /\ ReceivesFrom(p, q, 0) = 0
         /\ \A n \in 0 .. Len(Calls[p]) :
              /\ ReceivesFrom(p, q, n) \in Nat
              /\ ReceivesFrom(p, q, n) <= ReceivesFrom(p, q, Len(Calls[p]))
         /\ \A n \in 1 .. Len(Calls[p]) :
              /\ Calls[p][n].from = q => ReceivesFrom(p, q, n) = ReceivesFrom(p, q, n - 1) + 1
              /\ Calls[p][n].from # q => ReceivesFrom(p, q, n) = ReceivesFrom(p, q, n - 1)
<1>1. PICK N \in Nat : N = Len(Calls[p])
  BY OperationFacts
<1> DEFINE P == {n \in 1 .. N : Calls[p][n].from = q}
<1>2. \A n \in 0 .. N : ReceivesFrom(p, q, n) = Cardinality(P \cap (1 .. n))
  <2>1. ASSUME NEW n \in 0 .. N
        PROVE  {m \in 1 .. n : Calls[p][m].from = q} = P \cap (1 .. n)
    OBVIOUS
  <2> QED
    BY <2>1 DEF ReceivesFrom
<1>3. \A n \in 1 .. N : n \in P <=> Calls[p][n].from = q
  OBVIOUS
<1> HIDE DEF P
<1>4. ASSUME NEW n \in 0 .. N
      PROVE  /\ ReceivesFrom(p, q, n) \in Nat
             /\ ReceivesFrom(p, q, n) <= ReceivesFrom(p, q, N)
  <2>1. N \in 0 .. N
    OBVIOUS
  <2>2. n \in Nat
    OBVIOUS
  <2>3. Cardinality(P \cap (1 .. n)) \in Nat
    BY <2>2, Counting
  <2>4. \A m \in 0 .. N : Cardinality(P \cap (1 .. m)) <= Cardinality(P \cap (1 .. N))
    BY Counting, Zenon
  <2> QED
    BY <1>2, <2>1, <2>3, <2>4
<1>5. ASSUME NEW n \in 1 .. N
      PROVE  /\ Calls[p][n].from = q => ReceivesFrom(p, q, n) = ReceivesFrom(p, q, n - 1) + 1
             /\ Calls[p][n].from # q => ReceivesFrom(p, q, n) = ReceivesFrom(p, q, n - 1)
  <2>1. n \in Nat /\ n # 0 /\ n \in 0 .. N /\ n - 1 \in 0 .. N
    OBVIOUS
  <2> QED
    BY <1>2, <1>3, <2>1, Counting
<1>6. ReceivesFrom(p, q, 0) = 0
  <2>1. 0 \in 0 .. N
    OBVIOUS
  <2> QED
    BY <1>2, <2>1, Counting
<1> QED
  BY <1>1, <1>4, <1>5, <1>6

\* Where the parts of the threads begin and end.
LEMMA PartNumbers ==
  ASSUME operation \in Operations, NEW t \in Threads, NEW r \in Nat \ {0}
  PROVE  Start(r, t) \in Nat /\ End(r, t) \in Nat /\ Start(r, t) <= End(r, t)
<1>1. 0 \in Parties
  BY CommunicatorAssumption DEF Parties
<1>2. CASE r <= Len(Totals)
  <2>1. Totals[r] \in Nat
    BY <1>1, <1>2, OperationFacts
  <2>2. /\ BatchSize \in Nat \ {0} /\ ThreadsNum \in Nat \ {0} /\ t \in 0 .. ThreadsNum - 1
    BY CommunicatorAssumption DEF Threads
  <2> QED
    BY <1>2, <2>1, <2>2, PartBounds DEF Start, End
<1>3. CASE ~(r <= Len(Totals))
  BY <1>3 DEF Start, End
<1> QED
  BY <1>2, <1>3

\* Between a batch and the next one no batch begins.
LEMMA BatchesApart ==
  ASSUME NEW a \in Nat, NEW b \in Nat, NEW start \in Nat, start <= a, start <= b, a < b,
         NEW size \in Nat \ {0}, (a - start) % size = 0, (b - start) % size = 0
  PROVE  a + size <= b
<1>1. PICK m \in Int : m = (a - start) \div size
  BY DivModInt
<1>2. PICK n \in Int : n = (b - start) \div size
  BY DivModInt
<1>3. a - start = size * m /\ b - start = size * n
  BY <1>1, <1>2, DivModInt
<1>4. size * (n - m) = b - a
  BY <1>3
<1>5. n - m >= 1
  <2>1. SUFFICES ASSUME n - m <= 0 PROVE FALSE
    OBVIOUS
  <2>2. n - m = 0 \/ n - m <= -1
    BY <2>1
  <2>3. n - m \in Int /\ (n - m <= -1 => size * (n - m) <= -size)
    BY TimesSign
  <2> QED
    BY <1>4, <2>2, <2>3
<1>6. size * (n - m) >= size
  BY <1>5, TimesSign
<1> QED
  BY <1>4, <1>6

LEMMA NextBatch ==
  ASSUME NEW a \in Nat, NEW start \in Nat, start <= a, NEW size \in Nat \ {0},
         (a - start) % size = 0
  PROVE  ((a + size) - start) % size = 0
<1>1. PICK m \in Int : m = (a - start) \div size
  BY DivModInt
<1>2. a - start = size * m
  BY <1>1, DivModInt
<1>3. PICK d \in Int, k \in Int, z \in 0 .. size - 1 : d = (a + size) - start /\ k = m + 1 /\ z = 0
  OBVIOUS
<1>4. d = size * k + z
  BY <1>2, <1>3
<1> QED
  BY <1>3, <1>4, DivUnique

-----------------------------------------------------------------------------
(* Where the streams stand.                                                *)

LEMMA TagsApart ==
  ASSUME NEW t \in Threads, NEW c \in Chunks
  PROVE  /\ Tag(t, c) \in Tags
         /\ \A t1 \in Threads, c1 \in Chunks : Tag(t1, c1) = Tag(t, c) => t1 = t /\ c1 = c
<1>1. t \in Nat /\ c \in 0 .. 9
  BY CommunicatorAssumption DEF Threads, Chunks
<1>2. ASSUME NEW t1 \in Threads, NEW c1 \in Chunks, Tag(t1, c1) = Tag(t, c)
      PROVE  t1 = t /\ c1 = c
  <2>1. t1 \in Nat /\ c1 \in 0 .. 9
    BY CommunicatorAssumption DEF Threads, Chunks
  <2>2. 700 + t1 * 10 + c1 = 700 + t * 10 + c
    BY <1>2 DEF Tag, BaseTag
  <2> QED
    BY <1>1, <2>1, <2>2
<1> QED
  BY <1>2 DEF Tags, Chunks

LEMMA OperationStays ==
  ASSUME operation' = operation
  PROVE  /\ Totals' = Totals /\ Calls' = Calls
         /\ \A p, q, n : SendsTo(p, q, n)' = SendsTo(p, q, n)
         /\ \A p, q, n : ReceivesFrom(p, q, n)' = ReceivesFrom(p, q, n)
         /\ \A p, q : PerBatch(p, q)' = PerBatch(p, q)
         /\ \A r, t : Start(r, t)' = Start(r, t) /\ End(r, t)' = End(r, t)
         /\ \A r, t, i : IsBatch(r, t, i)' <=> IsBatch(r, t, i)
         /\ \A p, t, c, r, i, n : Content(p, t, c, r, i, n)' = Content(p, t, c, r, i, n)
<1>1. Totals' = Totals /\ Calls' = Calls
  BY DEF Totals, Calls
<1>2. \A p, q, n : SendsTo(p, q, n)' = SendsTo(p, q, n)
  BY <1>1 DEF SendsTo
<1>3. \A p, q, n : ReceivesFrom(p, q, n)' = ReceivesFrom(p, q, n)
  BY <1>1 DEF ReceivesFrom
<1>4. \A p, q : PerBatch(p, q)' = PerBatch(p, q)
  BY <1>1 DEF PerBatch, SendsTo
<1>5. \A r, t : Start(r, t)' = Start(r, t) /\ End(r, t)' = End(r, t)
  BY <1>1 DEF Start, End
<1>6. \A r, t, i : IsBatch(r, t, i)' <=> IsBatch(r, t, i)
  BY <1>1, <1>5 DEF IsBatch
<1>7. \A p, t, c, r, i, n : Content(p, t, c, r, i, n)' = Content(p, t, c, r, i, n)
  BY <1>5 DEF Content
<1> QED
  BY <1>1, <1>2, <1>3, <1>4, <1>5, <1>6, <1>7

\* Up to where a stream has been sent, before and after a step.
LEMMA SentNow ==
  ASSUME NEW p, NEW q, NEW t, NEW c, NEW n \in Int, n = call[<<p, t>>]
  PROVE  \A r, i, k :
           /\ posted[<<p, t>>] > c =>
                (Sent(p, q, t, c, r, i, k) <=> UpTo(r, i, k, round[p], pos[<<p, t>>], SendsTo(p, q, n)))
           /\ ~(posted[<<p, t>>] > c) =>
                (Sent(p, q, t, c, r, i, k) <=> UpTo(r, i, k, round[p], pos[<<p, t>>], SendsTo(p, q, n - 1)))
<1>1. posted[<<p, t>>] > c => PostedCalls(p, t, c) = n
  BY DEF PostedCalls
<1>2. ~(posted[<<p, t>>] > c) => PostedCalls(p, t, c) = n - 1
  BY DEF PostedCalls
<1> QED
  BY <1>1, <1>2, Zenon DEF Sent

LEMMA SentNext ==
  ASSUME NEW p, NEW q, NEW t, NEW c, NEW n \in Int, n = call'[<<p, t>>], operation' = operation
  PROVE  \A r, i, k :
           /\ posted'[<<p, t>>] > c =>
                (Sent(p, q, t, c, r, i, k)' <=> UpTo(r, i, k, round'[p], pos'[<<p, t>>], SendsTo(p, q, n)))
           /\ ~(posted'[<<p, t>>] > c) =>
                (Sent(p, q, t, c, r, i, k)' <=> UpTo(r, i, k, round'[p], pos'[<<p, t>>], SendsTo(p, q, n - 1)))
<1>1. posted'[<<p, t>>] > c => PostedCalls(p, t, c)' = n
  BY DEF PostedCalls
<1>2. ~(posted'[<<p, t>>] > c) => PostedCalls(p, t, c)' = n - 1
  BY DEF PostedCalls
<1>3. ASSUME NEW x, x = PostedCalls(p, t, c)'
      PROVE  SendsTo(p, q, PostedCalls(p, t, c))' = SendsTo(p, q, x)
  <2>1. Calls' = Calls
    BY OperationStays
  <2> QED
    BY <1>3, <2>1 DEF SendsTo
<1> QED
  BY <1>1, <1>2, <1>3, Zenon DEF Sent, UpTo

LEMMA TakenNow ==
  ASSUME NEW p, NEW q, NEW t, NEW c, NEW n \in Int, n = call[<<q, t>>]
  PROVE  \A r, i, k :
           /\ c \in DOMAIN buffer[<<q, t>>] =>
                (Taken(p, q, t, c, r, i, k) <=> UpTo(r, i, k, round[q], pos[<<q, t>>], ReceivesFrom(q, p, n)))
           /\ c \notin DOMAIN buffer[<<q, t>>] =>
                (Taken(p, q, t, c, r, i, k) <=> UpTo(r, i, k, round[q], pos[<<q, t>>], ReceivesFrom(q, p, n - 1)))
<1>1. c \in DOMAIN buffer[<<q, t>>] => HeardCalls(q, t, c) = n
  BY DEF HeardCalls
<1>2. c \notin DOMAIN buffer[<<q, t>>] => HeardCalls(q, t, c) = n - 1
  BY DEF HeardCalls
<1> QED
  BY <1>1, <1>2, Zenon DEF Taken

LEMMA TakenNext ==
  ASSUME NEW p, NEW q, NEW t, NEW c, NEW n \in Int, n = call'[<<q, t>>], operation' = operation
  PROVE  \A r, i, k :
           /\ c \in DOMAIN buffer'[<<q, t>>] =>
                (Taken(p, q, t, c, r, i, k)' <=> UpTo(r, i, k, round'[q], pos'[<<q, t>>], ReceivesFrom(q, p, n)))
           /\ c \notin DOMAIN buffer'[<<q, t>>] =>
                (Taken(p, q, t, c, r, i, k)' <=> UpTo(r, i, k, round'[q], pos'[<<q, t>>], ReceivesFrom(q, p, n - 1)))
<1>1. c \in DOMAIN buffer'[<<q, t>>] => HeardCalls(q, t, c)' = n
  BY DEF HeardCalls
<1>2. c \notin DOMAIN buffer'[<<q, t>>] => HeardCalls(q, t, c)' = n - 1
  BY DEF HeardCalls
<1>3. ASSUME NEW x, x = HeardCalls(q, t, c)'
      PROVE  ReceivesFrom(q, p, HeardCalls(q, t, c))' = ReceivesFrom(q, p, x)
  <2>1. Calls' = Calls
    BY OperationStays
  <2> QED
    BY <1>3, <2>1 DEF ReceivesFrom
<1> QED
  BY <1>1, <1>2, <1>3, Zenon DEF Taken, UpTo

-----------------------------------------------------------------------------
(* What a step leaves alone.                                               *)

LEMMA WorkerFacts ==
  ASSUME IInv, NEW p \in Parties, NEW t \in Threads
  PROVE  /\ operation \in Operations
         /\ <<p, t>> \in Workers
         /\ round[p] \in 1 .. Len(Totals) + 1 /\ Len(Totals) \in Nat
         /\ pos[<<p, t>>] \in Nat
         /\ call[<<p, t>>] \in 1 .. Len(Calls[p]) /\ Len(Calls[p]) \in Nat
         /\ posted[<<p, t>>] \in 0 .. Factor /\ Factor \in Nat \ {0}
         /\ Call(p, t).to \in Parties \cup {NoParty} /\ Call(p, t).from \in Parties \cup {NoParty}
         /\ NoParty \notin Parties
         /\ DOMAIN buffer[<<p, t>>] \subseteq 0 .. posted[<<p, t>>] - 1
         /\ Working(p, t) => IsBatch(round[p], t, pos[<<p, t>>])
<1>1. WorkerInv(p, t) /\ operation \in Operations
  BY DEF IInv, Types
<1>2. <<p, t>> \in Workers /\ NoParty \notin Parties /\ Factor \in Nat \ {0}
  BY CommunicatorAssumption DEF Workers, NoParty, Parties
<1>3. Len(Totals) \in Nat /\ Len(Calls[p]) \in Nat
  BY <1>1, OperationFacts
<1>4. /\ Call(p, t).to \in Parties \cup {NoParty}
      /\ Call(p, t).from \in Parties \cup {NoParty}
  BY <1>1, OperationFacts DEF WorkerInv, Call
<1>5. ASSUME Working(p, t)
      PROVE  IsBatch(round[p], t, pos[<<p, t>>])
  <2>1. round[p] \in 1 .. Len(Totals)
    BY <1>1, <1>3, <1>5 DEF WorkerInv, Working
  <2>2. Start(round[p], t) \in Nat /\ End(round[p], t) \in Nat
    BY <1>1, <2>1, PartNumbers
  <2>3. pos[<<p, t>>] \in Start(round[p], t) .. End(round[p], t) - 1
    BY <1>1, <1>5, <2>2 DEF WorkerInv, Working
  <2> QED
    BY <1>1, <2>1, <2>3 DEF IsBatch, WorkerInv
<1> QED
  BY <1>1, <1>2, <1>3, <1>4, <1>5 DEF WorkerInv

LEMMA WaitsNext ==
  ASSUME operation' = operation, NEW p, NEW q, NEW t, NEW c,
         NEW o, NEW r, NEW i, NEW x, NEW k, r = o.round, i = o.batch, x = o.call,
         k = SendsTo(p, q, x), k \in 1 .. PerBatch(p, q),
         o = Content(p, t, c, r, i, x), IsBatch(r, t, i),
         x \in 1 .. Len(Calls[p]), Calls[p][x].to = q,
         Sent(p, q, t, c, r, i, k)', ~Taken(p, q, t, c, r, i, k)'
  PROVE  Waits(o, p, q, t, c)'
<1>1. o = Content(p, t, c, r, i, x)' /\ IsBatch(r, t, i)' /\ k = SendsTo(p, q, x)'
  BY OperationStays
<1>2. Calls' = Calls /\ PerBatch(p, q)' = PerBatch(p, q)
  BY OperationStays
<1> QED
  BY <1>1, <1>2 DEF Waits

LEMMA SameStream ==
  ASSUME operation \in Operations, operation' = operation,
         NEW p \in Parties, NEW q \in Parties, NEW t \in Threads, NEW c \in Chunks,
         NEW queue, Stream(queue, p, q, t, c),
         \A r, i : IsBatch(r, t, i) => \A k \in 1 .. PerBatch(p, q) :
           /\ Sent(p, q, t, c, r, i, k)' <=> Sent(p, q, t, c, r, i, k)
           /\ Taken(p, q, t, c, r, i, k)' <=> Taken(p, q, t, c, r, i, k)
  PROVE  Stream(queue, p, q, t, c)'
<1>2. ASSUME NEW m, Waits(m, p, q, t, c)
      PROVE  Waits(m, p, q, t, c)'
  <2>1. PICK r, i, n, k : r = m.round /\ i = m.batch /\ n = m.call /\ k = SendsTo(p, q, n)
    OBVIOUS
  <2>2. /\ m = Content(p, t, c, r, i, n) /\ IsBatch(r, t, i)
        /\ n \in 1 .. Len(Calls[p]) /\ Calls[p][n].to = q
        /\ k \in 1 .. PerBatch(p, q)
        /\ Sent(p, q, t, c, r, i, k) /\ ~Taken(p, q, t, c, r, i, k)
    BY <1>2, <2>1, Zenon DEF Waits
  <2>3. Sent(p, q, t, c, r, i, k)' /\ ~Taken(p, q, t, c, r, i, k)'
    BY <2>2, Zenon
  <2> QED
    BY <2>1, <2>2, <2>3, WaitsNext, Zenon
<1>3. \A m, n : Earlier(p, q, m, n)' <=> Earlier(p, q, m, n)
  BY OperationStays, Zenon DEF Earlier, Before
<1>4. /\ \A a \in 1 .. Len(queue) : Waits(queue[a], p, q, t, c)'
      /\ \A a, b \in 1 .. Len(queue) : a < b => Earlier(p, q, queue[a], queue[b])'
  BY <1>2, <1>3, Zenon DEF Stream
<1>5. ASSUME NEW r, NEW i, IsBatch(r, t, i)', NEW k \in 1 .. PerBatch(p, q)'
      PROVE  /\ Taken(p, q, t, c, r, i, k)' => Sent(p, q, t, c, r, i, k)'
             /\ Sent(p, q, t, c, r, i, k)' /\ ~Taken(p, q, t, c, r, i, k)' =>
                  \E a \in 1 .. Len(queue) : queue[a].round = r /\ queue[a].batch = i
                                             /\ SendsTo(p, q, queue[a].call)' = k
  <2>1. IsBatch(r, t, i) /\ k \in 1 .. PerBatch(p, q)
    BY <1>5, OperationStays, Zenon
  <2>2. /\ Taken(p, q, t, c, r, i, k) => Sent(p, q, t, c, r, i, k)
        /\ Sent(p, q, t, c, r, i, k) /\ ~Taken(p, q, t, c, r, i, k) =>
                  \E a \in 1 .. Len(queue) : queue[a].round = r /\ queue[a].batch = i
                                             /\ SendsTo(p, q, queue[a].call) = k
    BY <2>1 DEF Stream
  <2>3. \A n : SendsTo(p, q, n)' = SendsTo(p, q, n)
    BY OperationStays, Zenon
  <2> QED
    BY <2>1, <2>2, <2>3, Zenon
<1> QED
  BY <1>4, <1>5, Zenon DEF Stream

LEMMA SameSent ==
  ASSUME operation' = operation, NEW p, NEW q, NEW t, NEW c, call[<<p, t>>] \in Int,
         round'[p] = round[p], pos'[<<p, t>>] = pos[<<p, t>>],
         call'[<<p, t>>] = call[<<p, t>>],
         posted'[<<p, t>>] > c <=> posted[<<p, t>>] > c
  PROVE  \A r, i, k : Sent(p, q, t, c, r, i, k)' <=> Sent(p, q, t, c, r, i, k)
<1>1. PICK n \in Int : n = call[<<p, t>>]
  OBVIOUS
<1> QED
  BY <1>1, SentNow, SentNext, Zenon

LEMMA SameTaken ==
  ASSUME operation' = operation, NEW p, NEW q, NEW t, NEW c, call[<<q, t>>] \in Int,
         round'[q] = round[q], pos'[<<q, t>>] = pos[<<q, t>>],
         call'[<<q, t>>] = call[<<q, t>>],
         c \in DOMAIN buffer'[<<q, t>>] <=> c \in DOMAIN buffer[<<q, t>>]
  PROVE  \A r, i, k : Taken(p, q, t, c, r, i, k)' <=> Taken(p, q, t, c, r, i, k)
<1>1. PICK n \in Int : n = call[<<q, t>>]
  OBVIOUS
<1> QED
  BY <1>1, TakenNow, TakenNext, Zenon

LEMMA SameWorker ==
  ASSUME operation' = operation, NEW p, NEW t,
         round'[p] = round[p], pos'[<<p, t>>] = pos[<<p, t>>],
         call'[<<p, t>>] = call[<<p, t>>], posted'[<<p, t>>] = posted[<<p, t>>],
         buffer'[<<p, t>>] = buffer[<<p, t>>], WorkerInv(p, t)
  PROVE  WorkerInv(p, t)'
<1>1. PICK r, i, n : r = round[p] /\ i = pos[<<p, t>>] /\ n = call[<<p, t>>]
  OBVIOUS
<1>2. Call(p, t)' = Call(p, t) /\ (Working(p, t)' <=> Working(p, t))
  BY <1>1, OperationStays DEF Call, Working
<1>3. Start(round[p], t)' = Start(round[p], t)
  BY DEF Start, Totals
<1>4. \A m, c : Fits(m, p, t, c)' <=> Fits(m, p, t, c)
  BY <1>1, <1>2, OperationStays DEF Fits
<1> QED
  BY <1>1, <1>2, <1>3, <1>4, OperationStays DEF WorkerInv

LEMMA SameReceive ==
  ASSUME operation' = operation, NEW p, NEW q, NEW t, NEW c,
         round'[q] = round[q], pos'[<<q, t>>] = pos[<<q, t>>],
         call'[<<q, t>>] = call[<<q, t>>],
         posted'[<<q, t>>] > c <=> posted[<<q, t>>] > c,
         c \in DOMAIN buffer'[<<q, t>>] <=> c \in DOMAIN buffer[<<q, t>>],
         receives'[<<p, q>>][Tag(t, c)] = receives[<<p, q>>][Tag(t, c)],
         ReceiveInv(p, q, t, c)
  PROVE  ReceiveInv(p, q, t, c)'
<1>1. Call(q, t)' = Call(q, t) /\ (Working(q, t)' <=> Working(q, t))
  BY DEF Call, Working, Calls, Totals, End
<1>2. Request(q, t, c)' = Request(q, t, c)
  BY DEF Request, Size, End, Totals
<1>3. Expects(p, q, t, c)' <=> Expects(p, q, t, c)
  BY <1>1 DEF Expects
<1> QED
  BY <1>2, <1>3 DEF ReceiveInv

-----------------------------------------------------------------------------
(* A call that returns and a round that ends send and take nothing.        *)

LEMMA BatchFacts ==
  ASSUME operation \in Operations, NEW t \in Threads, NEW r, NEW i, IsBatch(r, t, i)
  PROVE  /\ r \in 1 .. Len(Totals) /\ r \in Nat \ {0} /\ Len(Totals) \in Nat
         /\ i \in Nat /\ Start(r, t) \in Nat /\ End(r, t) \in Nat
         /\ Start(r, t) <= i /\ i < End(r, t)
         /\ (i - Start(r, t)) % BatchSize = 0
<1>1. 0 \in Parties
  BY CommunicatorAssumption DEF Parties
<1>2. Len(Totals) \in Nat
  BY <1>1, OperationFacts
<1>3. r \in 1 .. Len(Totals) /\ r \in Nat \ {0}
  BY <1>2 DEF IsBatch
<1>4. Start(r, t) \in Nat /\ End(r, t) \in Nat
  BY <1>3, PartNumbers
<1> QED
  BY <1>2, <1>3, <1>4 DEF IsBatch

LEMMA NextPosition ==
  ASSUME NEW r \in Nat, NEW r0 \in Nat, NEW i \in Nat, NEW i0 \in Nat, NEW b \in Nat \ {0},
         NEW most \in Nat, NEW k \in 1 .. most,
         r = r0 /\ i0 < i => i0 + b <= i
  PROVE  UpTo(r, i, k, r0, i0 + b, 0) <=> UpTo(r, i, k, r0, i0, most)
BY DEF UpTo

LEMMA NextBegins ==
  ASSUME NEW r \in Nat, NEW r0 \in Nat, NEW i \in Nat, NEW i0 \in Nat, NEW start \in Nat,
         NEW k \in Nat \ {0},
         r = r0 => i < i0,
         r = r0 + 1 => start <= i
  PROVE  UpTo(r, i, k, r0 + 1, start, 0) <=> UpTo(r, i, k, r0, i0, 0)
BY DEF UpTo

\* The next batch begins where the last message of this one has been.
LEMMA Advance ==
  ASSUME IInv, NEW p \in Parties, NEW t \in Threads, LeaveCall(p, t),
         NEW most \in Nat, NEW before \in Nat, NEW after \in Nat,
         call[<<p, t>>] < Len(Calls[p]) => after = before,
         ~(call[<<p, t>>] < Len(Calls[p])) => before = most /\ after = 0,
         NEW r, NEW i, IsBatch(r, t, i), NEW k \in 1 .. most
  PROVE  UpTo(r, i, k, round'[p], pos'[<<p, t>>], after)
           <=> UpTo(r, i, k, round[p], pos[<<p, t>>], before)
<1>1. PICK r0 \in Nat, i0 \in Nat : r0 = round[p] /\ i0 = pos[<<p, t>>]
  BY WorkerFacts
<1>2. <<p, t>> \in DOMAIN pos /\ operation \in Operations /\ round'[p] = r0
  BY <1>1 DEF IInv, Types, Workers, LeaveCall
<1>3. CASE call[<<p, t>>] < Len(Calls[p])
  BY <1>1, <1>2, <1>3 DEF LeaveCall
<1>4. CASE ~(call[<<p, t>>] < Len(Calls[p]))
  <2>1. pos'[<<p, t>>] = i0 + BatchSize
    BY <1>1, <1>2, <1>4 DEF LeaveCall
  <2>2. IsBatch(r0, t, i0)
    BY <1>1, WorkerFacts DEF LeaveCall
  <2>3. BatchSize \in Nat \ {0}
    BY CommunicatorAssumption
  <2>4. r \in Nat /\ i \in Nat
    BY <1>2, BatchFacts
  <2>5. ASSUME r = r0, i0 < i
        PROVE  i0 + BatchSize <= i
    <3>1. PICK start \in Nat : start = Start(r, t)
      BY <1>2, BatchFacts
    <3>2. start <= i /\ (i - start) % BatchSize = 0
      BY <1>2, <3>1, BatchFacts
    <3>3. start <= i0 /\ (i0 - start) % BatchSize = 0
      BY <1>2, <2>2, <2>5, <3>1, BatchFacts
    <3> QED
      BY <2>3, <2>4, <2>5, <3>2, <3>3, BatchesApart
  <2>6. UpTo(r, i, k, r0, i0 + BatchSize, 0) <=> UpTo(r, i, k, r0, i0, most)
    BY <2>3, <2>4, <2>5, NextPosition
  <2> QED
    BY <1>1, <1>2, <1>4, <2>1, <2>6
<1> QED
  BY <1>3, <1>4

LEMMA LeaveSends ==
  ASSUME IInv, NEW p \in Parties, NEW q \in Parties, NEW t \in Threads, NEW c \in Chunks,
         LeaveCall(p, t),
         NEW r, NEW i, IsBatch(r, t, i), NEW k \in 1 .. PerBatch(p, q)
  PROVE  Sent(p, q, t, c, r, i, k)' <=> Sent(p, q, t, c, r, i, k)
<1>0. PICK N \in Nat : N = Len(Calls[p])
  BY WorkerFacts
<1>1. PICK n \in 1 .. N : N = Len(Calls[p]) /\ n = call[<<p, t>>]
  BY <1>0, WorkerFacts
<1>2. PICK m \in 1 .. N : m = IF n < N THEN n + 1 ELSE 1
  OBVIOUS
<1>3. /\ operation \in Operations /\ operation' = operation
      /\ call'[<<p, t>>] = m /\ posted'[<<p, t>>] = 0 /\ posted[<<p, t>>] = Factor
  BY <1>1, <1>2 DEF IInv, Types, Workers, LeaveCall
<1>4. posted[<<p, t>>] > c /\ ~(posted'[<<p, t>>] > c)
  BY <1>3, CommunicatorAssumption DEF Chunks
<1>5. /\ SendsTo(p, q, n) \in Nat /\ SendsTo(p, q, m - 1) \in Nat /\ PerBatch(p, q) \in Nat
      /\ SendsTo(p, q, 0) = 0 /\ PerBatch(p, q) = SendsTo(p, q, N)
  <2>1. N \in 0 .. N /\ n \in 0 .. N /\ m - 1 \in 0 .. N
    OBVIOUS
  <2>2. SendsTo(p, q, 0) = 0 /\ \A x \in 0 .. N : SendsTo(p, q, x) \in Nat
    BY <1>1, <1>3, SendsCount
  <2> QED
    BY <1>1, <2>1, <2>2 DEF PerBatch
<1>6. /\ n < N => SendsTo(p, q, m - 1) = SendsTo(p, q, n)
      /\ ~(n < N) => SendsTo(p, q, n) = PerBatch(p, q) /\ SendsTo(p, q, m - 1) = 0
  <2>1. (n < N => m - 1 = n) /\ (~(n < N) => n = N /\ m - 1 = 0)
    BY <1>2
  <2> QED
    BY <1>5, <2>1
<1>7. Sent(p, q, t, c, r, i, k) <=> UpTo(r, i, k, round[p], pos[<<p, t>>], SendsTo(p, q, n))
  <2>1. n \in Int
    OBVIOUS
  <2> QED
    BY <1>1, <1>4, <2>1, SentNow, Zenon
<1>8. Sent(p, q, t, c, r, i, k)' <=> UpTo(r, i, k, round'[p], pos'[<<p, t>>], SendsTo(p, q, m - 1))
  <2>1. m \in Int
    OBVIOUS
  <2> QED
    BY <1>3, <1>4, <2>1, SentNext, Zenon
<1>9. UpTo(r, i, k, round'[p], pos'[<<p, t>>], SendsTo(p, q, m - 1))
        <=> UpTo(r, i, k, round[p], pos[<<p, t>>], SendsTo(p, q, n))
  <2>1. PICK most \in Nat, before \in Nat, after \in Nat :
          most = PerBatch(p, q) /\ before = SendsTo(p, q, n) /\ after = SendsTo(p, q, m - 1)
    BY <1>5
  <2>2. k \in 1 .. most
    BY <2>1
  <2>3. /\ call[<<p, t>>] < Len(Calls[p]) => after = before
        /\ ~(call[<<p, t>>] < Len(Calls[p])) => before = most /\ after = 0
    BY <1>1, <1>6, <2>1
  <2>4. UpTo(r, i, k, round'[p], pos'[<<p, t>>], after) <=> UpTo(r, i, k, round[p], pos[<<p, t>>], before)
    BY <2>2, <2>3, Advance
  <2> QED
    BY <2>1, <2>4
<1> QED
  BY <1>7, <1>8, <1>9

LEMMA LeaveTakes ==
  ASSUME IInv, NEW p \in Parties, NEW q \in Parties, NEW t \in Threads, NEW c \in Chunks,
         LeaveCall(q, t),
         NEW r, NEW i, IsBatch(r, t, i), NEW k \in 1 .. PerBatch(p, q)
  PROVE  Taken(p, q, t, c, r, i, k)' <=> Taken(p, q, t, c, r, i, k)
<1>0. PICK N \in Nat : N = Len(Calls[q])
  BY WorkerFacts
<1>1. PICK n \in 1 .. N : N = Len(Calls[q]) /\ n = call[<<q, t>>]
  BY <1>0, WorkerFacts
<1>2. PICK m \in 1 .. N : m = IF n < N THEN n + 1 ELSE 1
  OBVIOUS
<1>3. /\ operation \in Operations /\ operation' = operation
      /\ call'[<<q, t>>] = m /\ buffer'[<<q, t>>] = <<>>
  BY <1>1, <1>2 DEF IInv, Types, Workers, LeaveCall
<1>4. c \notin DOMAIN buffer'[<<q, t>>]
  BY <1>3
<1>5. /\ ReceivesFrom(q, p, n) \in Nat /\ ReceivesFrom(q, p, m - 1) \in Nat /\ PerBatch(p, q) \in Nat
      /\ ReceivesFrom(q, p, 0) = 0 /\ PerBatch(p, q) = ReceivesFrom(q, p, N)
  <2>1. N \in 0 .. N /\ n \in 0 .. N /\ m - 1 \in 0 .. N
    OBVIOUS
  <2>2. ReceivesFrom(q, p, 0) = 0 /\ \A x \in 0 .. N : ReceivesFrom(q, p, x) \in Nat
    BY <1>1, <1>3, ReceivesCount
  <2>3. PerBatch(p, q) = ReceivesFrom(q, p, N)
    BY <1>1, <1>3, OperationFacts
  <2> QED
    BY <2>1, <2>2, <2>3
<1>6. /\ n < N => ReceivesFrom(q, p, m - 1) = ReceivesFrom(q, p, n)
      /\ ~(n < N) => ReceivesFrom(q, p, n) = PerBatch(p, q) /\ ReceivesFrom(q, p, m - 1) = 0
  <2>1. (n < N => m - 1 = n) /\ (~(n < N) => n = N /\ m - 1 = 0)
    BY <1>2
  <2> QED
    BY <1>5, <2>1
<1>7. Taken(p, q, t, c, r, i, k) <=> UpTo(r, i, k, round[q], pos[<<q, t>>], ReceivesFrom(q, p, n))
  <2>0. n \in Int
    OBVIOUS
  <2>1. CASE c \in DOMAIN buffer[<<q, t>>]
    BY <1>1, <2>0, <2>1, TakenNow, Zenon
  <2>2. CASE c \notin DOMAIN buffer[<<q, t>>]
    <3>1. Call(q, t).from = NoParty
      BY <2>2 DEF LeaveCall, ReceivesDone, Chunks
    <3>2. Calls[q][n].from # p
      BY <1>1, <3>1, WorkerFacts DEF Call
    <3>3. ReceivesFrom(q, p, n - 1) = ReceivesFrom(q, p, n)
      BY <1>1, <1>3, <3>2, ReceivesCount
    <3> QED
      BY <1>1, <2>0, <2>2, <3>3, TakenNow, Zenon
  <2> QED
    BY <2>1, <2>2
<1>8. Taken(p, q, t, c, r, i, k)' <=> UpTo(r, i, k, round'[q], pos'[<<q, t>>], ReceivesFrom(q, p, m - 1))
  <2>1. m \in Int
    OBVIOUS
  <2> QED
    BY <1>3, <1>4, <2>1, TakenNext, Zenon
<1>9. UpTo(r, i, k, round'[q], pos'[<<q, t>>], ReceivesFrom(q, p, m - 1))
        <=> UpTo(r, i, k, round[q], pos[<<q, t>>], ReceivesFrom(q, p, n))
  <2>1. PICK most \in Nat, before \in Nat, after \in Nat :
          most = PerBatch(p, q) /\ before = ReceivesFrom(q, p, n) /\ after = ReceivesFrom(q, p, m - 1)
    BY <1>5
  <2>2. k \in 1 .. most
    BY <2>1
  <2>3. /\ call[<<q, t>>] < Len(Calls[q]) => after = before
        /\ ~(call[<<q, t>>] < Len(Calls[q])) => before = most /\ after = 0
    BY <1>1, <1>6, <2>1
  <2>4. UpTo(r, i, k, round'[q], pos'[<<q, t>>], after) <=> UpTo(r, i, k, round[q], pos[<<q, t>>], before)
    BY <2>2, <2>3, Advance
  <2> QED
    BY <2>1, <2>4
<1> QED
  BY <1>7, <1>8, <1>9

LEMMA LeaveStreams ==
  ASSUME IInv, NEW p \in Parties, NEW t \in Threads, LeaveCall(p, t),
         NEW p1 \in Parties, NEW q1 \in Parties, NEW t1 \in Threads, NEW c \in Chunks
  PROVE  StreamInv(p1, q1, t1, c)'
<1>1. PICK queue : queue = messages[<<p1, q1>>][Tag(t1, c)] /\ Stream(queue, p1, q1, t1, c)
  BY DEF IInv, StreamInv
<1>2. operation \in Operations /\ operation' = operation /\ messages' = messages
  BY DEF IInv, Types, LeaveCall
<1>3. ASSUME NEW w \in Workers, w # <<p, t>>
      PROVE  /\ pos'[w] = pos[w] /\ call'[w] = call[w] /\ posted'[w] = posted[w]
             /\ buffer'[w] = buffer[w]
  BY <1>3 DEF LeaveCall, IInv, Types
<1>4. round' = round
  BY DEF LeaveCall
<1>5. ASSUME NEW r, NEW i, IsBatch(r, t1, i), NEW k \in 1 .. PerBatch(p1, q1)
      PROVE  Sent(p1, q1, t1, c, r, i, k)' <=> Sent(p1, q1, t1, c, r, i, k)
  <2>1. CASE p1 = p /\ t1 = t
    BY <1>5, <2>1, LeaveSends
  <2>2. CASE ~(p1 = p /\ t1 = t)
    <3>1. <<p1, t1>> \in Workers /\ <<p1, t1>> # <<p, t>> /\ call[<<p1, t1>>] \in Int
      BY <2>2, WorkerFacts
    <3> QED
      BY <1>2, <1>3, <1>4, <3>1, SameSent
  <2> QED
    BY <2>1, <2>2
<1>6. ASSUME NEW r, NEW i, IsBatch(r, t1, i), NEW k \in 1 .. PerBatch(p1, q1)
      PROVE  Taken(p1, q1, t1, c, r, i, k)' <=> Taken(p1, q1, t1, c, r, i, k)
  <2>1. CASE q1 = p /\ t1 = t
    BY <1>6, <2>1, LeaveTakes
  <2>2. CASE ~(q1 = p /\ t1 = t)
    <3>1. <<q1, t1>> \in Workers /\ <<q1, t1>> # <<p, t>> /\ call[<<q1, t1>>] \in Int
      BY <2>2, WorkerFacts
    <3> QED
      BY <1>2, <1>3, <1>4, <3>1, SameTaken
  <2> QED
    BY <2>1, <2>2
<1>7. Stream(queue, p1, q1, t1, c)'
  BY <1>1, <1>2, <1>5, <1>6, SameStream
<1> QED
  BY <1>1, <1>2, <1>7 DEF StreamInv

LEMMA LeaveWorkers ==
  ASSUME IInv, NEW p \in Parties, NEW t \in Threads, LeaveCall(p, t),
         NEW p1 \in Parties, NEW t1 \in Threads
  PROVE  WorkerInv(p1, t1)'
<1>1. /\ operation \in Operations /\ operation' = operation /\ round' = round
      /\ WorkerInv(p1, t1) /\ <<p1, t1>> \in Workers /\ <<p, t>> \in Workers
  BY DEF IInv, Types, LeaveCall, Workers
<1>2. CASE ~(p1 = p /\ t1 = t)
  <2>1. /\ pos'[<<p1, t1>>] = pos[<<p1, t1>>] /\ call'[<<p1, t1>>] = call[<<p1, t1>>]
        /\ posted'[<<p1, t1>>] = posted[<<p1, t1>>] /\ buffer'[<<p1, t1>>] = buffer[<<p1, t1>>]
    BY <1>1, <1>2 DEF LeaveCall, IInv, Types
  <2> QED
    BY <1>1, <2>1, SameWorker
<1>3. CASE p1 = p /\ t1 = t
  <2>1. PICK r, i, n, N : r = round[p] /\ i = pos[<<p, t>>] /\ n = call[<<p, t>>] /\ N = Len(Calls[p])
    OBVIOUS
  <2>2. /\ r \in 1 .. Len(Totals) + 1 /\ i \in Nat /\ N \in Nat /\ n \in 1 .. N
        /\ Start(r, t) <= i /\ (i - Start(r, t)) % BatchSize = 0
        /\ BatchSize \in Nat \ {0}
    BY <1>1, <1>3, <2>1, WorkerFacts, CommunicatorAssumption DEF WorkerInv
  <2>3. r \in Nat \ {0} /\ r <= Len(Totals) /\ i < End(r, t)
    BY <2>1, <2>2, WorkerFacts DEF LeaveCall, Working
  <2>4. Start(r, t) \in Nat
    BY <1>1, <2>3, PartNumbers
  <2>5. ((i + BatchSize) - Start(r, t)) % BatchSize = 0
    BY <2>2, <2>4, NextBatch
  <2>6. /\ posted'[<<p, t>>] = 0 /\ buffer'[<<p, t>>] = <<>>
        /\ n < N => pos'[<<p, t>>] = i /\ call'[<<p, t>>] = n + 1
        /\ ~(n < N) => pos'[<<p, t>>] = i + BatchSize /\ call'[<<p, t>>] = 1
    BY <1>1, <2>1 DEF LeaveCall, IInv, Types
  <2>7. /\ call'[<<p, t>>] \in 1 .. N /\ pos'[<<p, t>>] \in Nat
        /\ Start(r, t) <= pos'[<<p, t>>] /\ (pos'[<<p, t>>] - Start(r, t)) % BatchSize = 0
    BY <2>2, <2>4, <2>5, <2>6
  <2>8. ~Working(p, t)' => call'[<<p, t>>] = 1
    <3>1. CASE n < N
      <4>1. Working(p, t)'
        <5>1. /\ round'[p] = r /\ pos'[<<p, t>>] = i
              /\ Totals' = Totals /\ End(r, t)' = End(r, t)
          BY <1>1, <2>1, <2>6, <3>1, OperationStays
        <5> QED
          BY <2>3, <5>1 DEF Working, End
      <4> QED
        BY <4>1
    <3>2. CASE ~(n < N)
      BY <2>6, <3>2
    <3> QED
      BY <3>1, <3>2
  <2>9. /\ round'[p] = r /\ Totals' = Totals /\ Calls' = Calls /\ Start(r, t)' = Start(r, t)
        /\ DOMAIN buffer'[<<p, t>>] = {} /\ Factor \in Nat
    BY <1>1, <2>1, <2>6, OperationStays, CommunicatorAssumption
  <2>10. Start(round[p], t)' = Start(r, t)
    BY <2>9 DEF Start
  <2>11. \A x \in DOMAIN buffer'[<<p, t>>] : Fits(buffer[<<p, t>>][x], p, t, x)'
    BY <2>9
  <2> QED
    BY <1>3, <2>1, <2>2, <2>6, <2>7, <2>8, <2>9, <2>10, <2>11 DEF WorkerInv
<1> QED
  BY <1>2, <1>3

LEMMA LeaveReceives ==
  ASSUME IInv, NEW p \in Parties, NEW t \in Threads, LeaveCall(p, t),
         NEW p1 \in Parties, NEW q1 \in Parties, NEW t1 \in Threads, NEW c \in Chunks
  PROVE  ReceiveInv(p1, q1, t1, c)'
<1>1. /\ operation \in Operations /\ operation' = operation /\ round' = round
      /\ receives' = receives /\ ReceiveInv(p1, q1, t1, c)
      /\ <<q1, t1>> \in Workers /\ <<p, t>> \in Workers
  BY DEF IInv, Types, LeaveCall, Workers
<1>2. CASE ~(q1 = p /\ t1 = t)
  <2>1. /\ pos'[<<q1, t1>>] = pos[<<q1, t1>>] /\ call'[<<q1, t1>>] = call[<<q1, t1>>]
        /\ posted'[<<q1, t1>>] = posted[<<q1, t1>>] /\ buffer'[<<q1, t1>>] = buffer[<<q1, t1>>]
    BY <1>1, <1>2 DEF LeaveCall, IInv, Types
  <2> QED
    BY <1>1, <2>1, SameReceive
<1>3. CASE q1 = p /\ t1 = t
  <2>1. ~Expects(p1, p, t, c)
    BY WorkerFacts DEF Expects, LeaveCall, ReceivesDone, Chunks
  <2>2. posted'[<<p, t>>] = 0
    BY <1>1 DEF LeaveCall, IInv, Types
  <2>3. ~Expects(p1, p, t, c)'
    BY <2>2, CommunicatorAssumption DEF Expects, Chunks
  <2> QED
    BY <1>1, <1>3, <2>1, <2>3 DEF ReceiveInv
<1> QED
  BY <1>2, <1>3

LEMMA LeaveKeeps ==
  ASSUME IInv, NEW p \in Parties, NEW t \in Threads, LeaveCall(p, t)
  PROVE  IInv'
<1>1. Types'
  <2>1. call[<<p, t>>] \in Nat /\ pos[<<p, t>>] + BatchSize \in Nat
    BY WorkerFacts, CommunicatorAssumption
  <2>2. Types /\ <<p, t>> \in Workers
    BY WorkerFacts DEF IInv
  <2>3. call' \in [Workers -> Nat]
    <3>1. PICK x \in Nat : call' = [call EXCEPT ![<<p, t>>] = x]
      <4>1. call[<<p, t>>] + 1 \in Nat
        BY <2>1
      <4> QED
        BY <4>1 DEF LeaveCall
    <3>2. call \in [Workers -> Nat]
      BY <2>2 DEF Types
    <3> QED
      BY <3>1, <3>2
  <2>4. pos' \in [Workers -> Nat]
    BY <2>1, <2>2 DEF Types, LeaveCall
  <2>5. posted' \in [Workers -> Nat] /\ DOMAIN buffer' = Workers
    BY <2>2 DEF Types, LeaveCall
  <2> QED
    BY <2>2, <2>3, <2>4, <2>5 DEF Types, LeaveCall
<1> QED
  BY <1>1, LeaveStreams, LeaveWorkers, LeaveReceives DEF IInv

LEMMA RoundStreams ==
  ASSUME IInv, NEW p \in Parties, NextRound(p),
         NEW p1 \in Parties, NEW q1 \in Parties, NEW t \in Threads, NEW c \in Chunks
  PROVE  StreamInv(p1, q1, t, c)'
<1>1. PICK queue : queue = messages[<<p1, q1>>][Tag(t, c)] /\ Stream(queue, p1, q1, t, c)
  BY DEF IInv, StreamInv
<1>2. /\ operation \in Operations /\ operation' = operation /\ messages' = messages
      /\ call' = call /\ posted' = posted /\ buffer' = buffer
  BY DEF IInv, Types, NextRound
<1>3. ASSUME NEW q \in Parties, q # p
      PROVE  /\ round'[q] = round[q] /\ pos'[<<q, t>>] = pos[<<q, t>>]
             /\ call[<<q, t>>] \in Int
  BY <1>3, WorkerFacts DEF NextRound, IInv, Types
<1>4. ASSUME NEW r, NEW i, IsBatch(r, t, i), NEW most \in Nat, NEW k \in 1 .. most
      PROVE  UpTo(r, i, k, round'[p], pos'[<<p, t>>], 0) <=> UpTo(r, i, k, round[p], pos[<<p, t>>], 0)
  <2>1. PICK r0 \in Nat, i0 \in Nat : r0 = round[p] /\ i0 = pos[<<p, t>>]
    BY WorkerFacts
  <2>2. /\ r0 \in Nat \ {0} /\ r0 + 1 \in Nat \ {0}
        /\ round'[p] = r0 + 1
        /\ pos'[<<p, t>>] = Start(r0 + 1, t)
        /\ End(r0, t) <= i0
    <3>1. r0 \in Nat \ {0}
      BY <2>1, WorkerFacts
    <3>2. End(r0, t) \in Nat
      BY <1>2, <3>1, PartNumbers
    <3>3. End(r0, t) <= i0
      BY <2>1, <3>2 DEF NextRound, Working
    <3>4. /\ round' = [round EXCEPT ![p] = @ + 1]
          /\ pos' = [w \in Workers |-> IF w[1] = p THEN Start(round[p] + 1, w[2]) ELSE pos[w]]
      BY DEF NextRound
    <3>5. round \in [Parties -> Nat] /\ <<p, t>> \in Workers
      BY DEF IInv, Types, Workers
    <3>6. round'[p] = r0 + 1
      BY <2>1, <3>4, <3>5
    <3>7. pos'[<<p, t>>] = Start(r0 + 1, t)
      BY <2>1, <3>4, <3>5
    <3> QED
      BY <3>1, <3>3, <3>6, <3>7
  <2>3. PICK start \in Nat : start = Start(r0 + 1, t)
    BY <1>2, <2>2, PartNumbers
  <2>4. r \in Nat /\ i \in Nat /\ Start(r, t) <= i /\ i < End(r, t) /\ End(r, t) \in Nat
    BY <1>2, <1>4, BatchFacts
  <2>5. (r = r0 => i < i0) /\ (r = r0 + 1 => start <= i)
    BY <2>2, <2>3, <2>4
  <2>6. k \in Nat \ {0}
    OBVIOUS
  <2>7. UpTo(r, i, k, r0 + 1, start, 0) <=> UpTo(r, i, k, r0, i0, 0)
    BY <2>4, <2>5, <2>6, NextBegins
  <2> QED
    BY <2>1, <2>2, <2>3, <2>7
<1>5. call[<<p, t>>] = 1 /\ posted[<<p, t>>] = 0 /\ DOMAIN buffer[<<p, t>>] = {}
  BY DEF IInv, WorkerInv, NextRound
<1>6. PICK n \in Int : n = call[<<p, t>>] /\ n - 1 = 0
  BY <1>5
<1>7. ~(posted[<<p, t>>] > c)
  BY <1>5, CommunicatorAssumption DEF Chunks
<1>8. PerBatch(p1, q1) \in Nat
  <2>1. Len(Calls[p1]) \in 0 .. Len(Calls[p1])
    BY <1>2, OperationFacts
  <2> QED
    BY <1>2, <2>1, SendsCount DEF PerBatch
<1>9. ASSUME NEW r, NEW i, IsBatch(r, t, i), NEW k \in 1 .. PerBatch(p1, q1)
      PROVE  Sent(p1, q1, t, c, r, i, k)' <=> Sent(p1, q1, t, c, r, i, k)
  <2>1. CASE p1 = p
    <3>1. Sent(p, q1, t, c, r, i, k) <=> UpTo(r, i, k, round[p], pos[<<p, t>>], SendsTo(p, q1, n - 1))
      BY <1>6, <1>7, SentNow
    <3>2. Sent(p, q1, t, c, r, i, k)' <=> UpTo(r, i, k, round'[p], pos'[<<p, t>>], SendsTo(p, q1, n - 1))
      BY <1>2, <1>6, <1>7, SentNext
    <3>3. SendsTo(p, q1, n - 1) = 0
      BY <1>2, <1>6, SendsCount
    <3> QED
      BY <1>4, <1>8, <1>9, <2>1, <3>1, <3>2, <3>3
  <2>2. CASE p1 # p
    BY <1>2, <1>3, <2>2, SameSent
  <2> QED
    BY <2>1, <2>2
<1>10. ASSUME NEW r, NEW i, IsBatch(r, t, i), NEW k \in 1 .. PerBatch(p1, q1)
       PROVE  Taken(p1, q1, t, c, r, i, k)' <=> Taken(p1, q1, t, c, r, i, k)
  <2>1. CASE q1 = p
    <3>1. Taken(p1, p, t, c, r, i, k) <=> UpTo(r, i, k, round[p], pos[<<p, t>>], ReceivesFrom(p, p1, n - 1))
      BY <1>5, <1>6, TakenNow
    <3>2. Taken(p1, p, t, c, r, i, k)' <=> UpTo(r, i, k, round'[p], pos'[<<p, t>>], ReceivesFrom(p, p1, n - 1))
      BY <1>2, <1>5, <1>6, TakenNext
    <3>3. ReceivesFrom(p, p1, n - 1) = 0
      BY <1>2, <1>6, ReceivesCount
    <3> QED
      BY <1>4, <1>8, <1>10, <2>1, <3>1, <3>2, <3>3
  <2>2. CASE q1 # p
    BY <1>2, <1>3, <2>2, SameTaken
  <2> QED
    BY <2>1, <2>2
<1>11. Stream(queue, p1, q1, t, c)'
  BY <1>1, <1>2, <1>9, <1>10, SameStream
<1> QED
  BY <1>1, <1>2, <1>11 DEF StreamInv

LEMMA RoundWorkers ==
  ASSUME IInv, NEW p \in Parties, NextRound(p), NEW p1 \in Parties, NEW t \in Threads
  PROVE  WorkerInv(p1, t)'
<1>1. /\ operation \in Operations /\ operation' = operation
      /\ call' = call /\ posted' = posted /\ buffer' = buffer
      /\ WorkerInv(p1, t) /\ <<p1, t>> \in Workers
  BY DEF IInv, Types, NextRound, Workers
<1>2. CASE p1 # p
  <2>1. round'[p1] = round[p1] /\ pos'[<<p1, t>>] = pos[<<p1, t>>]
    BY <1>1, <1>2 DEF NextRound, IInv, Types
  <2> QED
    BY <1>1, <2>1, SameWorker
<1>3. CASE p1 = p
  <2>0. round[p] \in Nat
    BY DEF IInv, Types
  <2>1. PICK r \in Nat : r = round[p]
    BY <2>0
  <2>2. r \in 1 .. Len(Totals) + 1 /\ r <= Len(Totals) /\ Len(Totals) \in Nat
    BY <1>1, <2>1, WorkerFacts DEF NextRound
  <2>3. PICK start \in Nat : start = Start(r + 1, t)
    <3>1. r + 1 \in Nat \ {0}
      OBVIOUS
    <3> QED
      BY <1>1, <3>1, PartNumbers
  <2>4. round'[p] = r + 1 /\ pos'[<<p, t>>] = start
    BY <1>1, <1>3, <2>1, <2>3 DEF NextRound, IInv, Types
  <2>5. call[<<p, t>>] = 1 /\ posted[<<p, t>>] = 0 /\ DOMAIN buffer[<<p, t>>] = {}
    <3>1. WorkerInv(p, t) /\ ~Working(p, t)
      BY DEF NextRound, IInv
    <3> QED
      BY <3>1 DEF WorkerInv
  <2>6. (start - start) % BatchSize = 0
    <3>1. PICK z \in Int, d \in Nat \ {0} : z = 0 /\ d = BatchSize /\ z \in 0 .. d - 1
      BY CommunicatorAssumption
    <3>2. z = d * z + z
      BY <3>1
    <3>3. z % d = z
      BY <3>1, <3>2, DivUnique
    <3> QED
      BY <3>1, <3>3
  <2>7. /\ Totals' = Totals /\ Calls' = Calls /\ Start(r + 1, t)' = Start(r + 1, t)
        /\ call'[<<p, t>>] \in 1 .. Len(Calls[p])
    BY <1>1, <1>3, OperationStays DEF WorkerInv
  <2>8. Start(round[p], t)' = start
    BY <2>3, <2>4, <2>7 DEF Start
  <2>9. \A x \in DOMAIN buffer'[<<p, t>>] : Fits(buffer[<<p, t>>][x], p, t, x)'
    BY <1>1, <2>5
  <2>10. Factor \in Nat
    BY CommunicatorAssumption
  <2> QED
    BY <1>1, <1>3, <2>2, <2>4, <2>5, <2>6, <2>7, <2>8, <2>9, <2>10 DEF WorkerInv
<1> QED
  BY <1>2, <1>3

LEMMA RoundReceives ==
  ASSUME IInv, NEW p \in Parties, NextRound(p),
         NEW p1 \in Parties, NEW q1 \in Parties, NEW t \in Threads, NEW c \in Chunks
  PROVE  ReceiveInv(p1, q1, t, c)'
<1>1. /\ operation' = operation /\ receives' = receives
      /\ call' = call /\ posted' = posted /\ buffer' = buffer
      /\ ReceiveInv(p1, q1, t, c) /\ <<q1, t>> \in Workers
  BY DEF IInv, Types, NextRound, Workers
<1>2. CASE q1 # p
  <2>1. round'[q1] = round[q1] /\ pos'[<<q1, t>>] = pos[<<q1, t>>]
    BY <1>1, <1>2 DEF NextRound, IInv, Types
  <2> QED
    BY <1>1, <2>1, SameReceive
<1>3. CASE q1 = p
  <2>1. posted[<<p, t>>] = 0
    BY DEF IInv, WorkerInv, NextRound
  <2>2. ~Expects(p1, p, t, c) /\ ~Expects(p1, p, t, c)'
    BY <1>1, <2>1, CommunicatorAssumption DEF Expects, Chunks
  <2> QED
    BY <1>1, <1>3, <2>2 DEF ReceiveInv
<1> QED
  BY <1>2, <1>3

LEMMA RoundKeeps ==
  ASSUME IInv, NEW p \in Parties, NextRound(p)
  PROVE  IInv'
<1>1. Types'
  <2>1. Types /\ round[p] \in Nat /\ round[p] + 1 \in Nat \ {0}
    BY DEF IInv, Types
  <2>2. \A w \in Workers : Start(round[p] + 1, w[2]) \in Nat
    BY <2>1, PartNumbers DEF Types, Workers
  <2>3. pos' \in [Workers -> Nat]
    BY <2>1, <2>2 DEF Types, NextRound
  <2>4. round' \in [Parties -> Nat]
    BY <2>1 DEF Types, NextRound
  <2> QED
    BY <2>1, <2>3, <2>4 DEF Types, NextRound
<1> QED
  BY <1>1, RoundStreams, RoundWorkers, RoundReceives DEF IInv

-----------------------------------------------------------------------------
(* A message is sent, a message is taken.                                  *)

LEMMA WaitsFacts ==
  ASSUME operation \in Operations, NEW m, NEW p, NEW q, NEW t \in Threads, NEW c,
         Waits(m, p, q, t, c)
  PROVE  /\ IsBatch(m.round, t, m.batch) /\ m.round \in Nat /\ m.batch \in Nat
         /\ SendsTo(p, q, m.call) \in 1 .. PerBatch(p, q)
<1>1. IsBatch(m.round, t, m.batch) /\ SendsTo(p, q, m.call) \in 1 .. PerBatch(p, q)
  BY DEF Waits
<1> QED
  BY <1>1, BatchFacts

LEMMA UpToLast ==
  ASSUME NEW r \in Nat, NEW i \in Nat, NEW k \in Nat, NEW r0 \in Nat, NEW i0 \in Nat, NEW k0 \in Nat
  PROVE  /\ UpTo(r, i, k, r0, i0, k0) <=> Before(r, i, k, r0, i0, k0) \/ (r = r0 /\ i = i0 /\ k = k0)
         /\ ~Before(r0, i0, k0, r0, i0, k0)
BY DEF UpTo, Before

LEMMA AppendFacts ==
  ASSUME NEW S, NEW s \in Seq(S), NEW e \in S
  PROVE  /\ Append(s, e) \in Seq(S) /\ Len(s) \in Nat /\ Len(Append(s, e)) = Len(s) + 1
         /\ Append(s, e)[Len(s) + 1] = e
         /\ \A a \in 1 .. Len(s) : Append(s, e)[a] = s[a]
OBVIOUS

\* A stream that has been sent one message more, m, in call n of batch i0 of
\* round r0.
LEMMA AppendStream ==
  ASSUME operation \in Operations, operation' = operation,
         NEW p \in Parties, NEW q \in Parties, NEW t \in Threads, NEW c \in Chunks,
         NEW queue \in Seq(Messages), Stream(queue, p, q, t, c),
         NEW r0 \in Nat, NEW i0 \in Nat, NEW n \in 1 .. Len(Calls[p]), NEW k0 \in 1 .. PerBatch(p, q),
         IsBatch(r0, t, i0), Calls[p][n].to = q, SendsTo(p, q, n) = k0,
         NEW m \in Messages, m = Content(p, t, c, r0, i0, n),
         \A r, i : IsBatch(r, t, i) => \A k \in 1 .. PerBatch(p, q) :
           /\ Sent(p, q, t, c, r, i, k) <=> Before(r, i, k, r0, i0, k0)
           /\ Sent(p, q, t, c, r, i, k)' <=> UpTo(r, i, k, r0, i0, k0)
           /\ Taken(p, q, t, c, r, i, k)' <=> Taken(p, q, t, c, r, i, k)
  PROVE  Stream(Append(queue, m), p, q, t, c)'
<1>1. PICK most \in Nat : most = PerBatch(p, q)
  <2>1. Len(Calls[p]) \in 0 .. Len(Calls[p])
    BY OperationFacts
  <2>2. PerBatch(p, q) \in Nat
    BY <2>1, SendsCount DEF PerBatch
  <2> QED
    BY <2>2
<1>2. k0 \in 1 .. most /\ k0 \in Nat
  BY <1>1
<1>3. PICK longer : longer = Append(queue, m)
  OBVIOUS
<1>4. PICK N \in Nat : N = Len(queue)
  OBVIOUS
<1>5. /\ N + 1 \in 1 .. N + 1 /\ Len(longer) = N + 1 /\ longer[N + 1] = m
      /\ \A a \in 1 .. N : longer[a] = queue[a] /\ a \in 1 .. N + 1
  <2>1. \A a \in 1 .. N : a \in 1 .. N + 1
    OBVIOUS
  <2>2. N + 1 \in 1 .. N + 1
    OBVIOUS
  <2> QED
    BY <1>3, <1>4, <2>1, <2>2, AppendFacts
<1>6. m.round = r0 /\ m.batch = i0 /\ m.call = n
  BY DEF Content
<1>7. ASSUME NEW r, NEW i, IsBatch(r, t, i), NEW k \in 1 .. most
      PROVE  /\ r \in Nat /\ i \in Nat /\ k \in Nat
             /\ Sent(p, q, t, c, r, i, k) <=> Before(r, i, k, r0, i0, k0)
             /\ Sent(p, q, t, c, r, i, k)' <=>
                  Sent(p, q, t, c, r, i, k) \/ (r = r0 /\ i = i0 /\ k = k0)
             /\ Taken(p, q, t, c, r, i, k)' <=> Taken(p, q, t, c, r, i, k)
             /\ Taken(p, q, t, c, r, i, k) => Sent(p, q, t, c, r, i, k)
             /\ Sent(p, q, t, c, r, i, k) /\ ~Taken(p, q, t, c, r, i, k) =>
                  \E a \in 1 .. N : queue[a].round = r /\ queue[a].batch = i
                                    /\ SendsTo(p, q, queue[a].call) = k
  <2>1. r \in Nat /\ i \in Nat /\ k \in Nat
    BY <1>7, BatchFacts
  <2>2. /\ Sent(p, q, t, c, r, i, k) <=> Before(r, i, k, r0, i0, k0)
        /\ Sent(p, q, t, c, r, i, k)' <=> UpTo(r, i, k, r0, i0, k0)
        /\ Taken(p, q, t, c, r, i, k)' <=> Taken(p, q, t, c, r, i, k)
    BY <1>1, <1>7
  <2>3. UpTo(r, i, k, r0, i0, k0) <=> Before(r, i, k, r0, i0, k0) \/ (r = r0 /\ i = i0 /\ k = k0)
    BY <1>2, <2>1 DEF UpTo, Before
  <2>4. /\ Taken(p, q, t, c, r, i, k) => Sent(p, q, t, c, r, i, k)
        /\ Sent(p, q, t, c, r, i, k) /\ ~Taken(p, q, t, c, r, i, k) =>
             \E a \in 1 .. N : queue[a].round = r /\ queue[a].batch = i
                               /\ SendsTo(p, q, queue[a].call) = k
    BY <1>1, <1>4, <1>7 DEF Stream
  <2> QED
    BY <2>1, <2>2, <2>3, <2>4, Zenon
<1>9. Waits(m, p, q, t, c)'
  <2>1. ~Before(r0, i0, k0, r0, i0, k0)
    BY <1>2, UpToLast
  <2>2. Sent(p, q, t, c, r0, i0, k0)' /\ ~Taken(p, q, t, c, r0, i0, k0)'
    BY <1>2, <1>7, <2>1
  <2> QED
    BY <1>1, <1>2, <1>6, <2>2, WaitsNext, Zenon
<1>10. ASSUME NEW a \in 1 .. N
       PROVE  /\ Waits(queue[a], p, q, t, c)'
              /\ Earlier(p, q, queue[a], m)
  <2>1. PICK o, r, i, x, k : /\ o = queue[a] /\ r = o.round /\ i = o.batch /\ x = o.call
                             /\ k = SendsTo(p, q, x)
    OBVIOUS
  <2>2. Waits(o, p, q, t, c)
    BY <1>4, <2>1 DEF Stream
  <2>3. /\ o = Content(p, t, c, r, i, x) /\ IsBatch(r, t, i)
        /\ x \in 1 .. Len(Calls[p]) /\ Calls[p][x].to = q /\ k \in 1 .. most
        /\ Sent(p, q, t, c, r, i, k) /\ ~Taken(p, q, t, c, r, i, k)
    BY <1>1, <2>1, <2>2, Zenon DEF Waits
  <2>4. /\ Sent(p, q, t, c, r, i, k)' /\ ~Taken(p, q, t, c, r, i, k)'
        /\ Before(r, i, k, r0, i0, k0)
    BY <1>7, <2>3
  <2>5. Waits(o, p, q, t, c)'
    BY <1>1, <2>1, <2>3, <2>4, WaitsNext, Zenon
  <2>6. Earlier(p, q, o, m)
    BY <1>6, <2>1, <2>4 DEF Earlier
  <2> QED
    BY <2>1, <2>5, <2>6
<1>11. \A o, x : Earlier(p, q, o, x)' <=> Earlier(p, q, o, x)
  BY OperationStays, Zenon DEF Earlier, Before
<1>12. ASSUME NEW a \in 1 .. Len(longer)
       PROVE  Waits(longer[a], p, q, t, c)'
  <2>1. a \in 1 .. N \/ a = N + 1
    <3>1. \A x \in 1 .. N + 1 : x \in 1 .. N \/ x = N + 1
      OBVIOUS
    <3> QED
      BY <1>5, <3>1, Zenon
  <2> QED
    BY <1>5, <1>9, <1>10, <2>1
<1>13. ASSUME NEW a \in 1 .. Len(longer), NEW b \in 1 .. Len(longer), a < b
       PROVE  Earlier(p, q, longer[a], longer[b])'
  <2>1. a \in 1 .. N
    BY <1>5, <1>13
  <2>2. CASE b = N + 1
    BY <1>5, <1>10, <1>11, <2>1, <2>2
  <2>3. CASE b # N + 1
    <3>1. b \in 1 .. N
      BY <1>5, <2>3
    <3>2. Earlier(p, q, queue[a], queue[b])
      BY <1>4, <1>13, <2>1, <3>1 DEF Stream
    <3> QED
      BY <1>5, <1>11, <2>1, <3>1, <3>2
  <2> QED
    BY <2>2, <2>3
<1>14. ASSUME NEW r, NEW i, IsBatch(r, t, i)', NEW k \in 1 .. PerBatch(p, q)'
       PROVE  /\ Taken(p, q, t, c, r, i, k)' => Sent(p, q, t, c, r, i, k)'
              /\ Sent(p, q, t, c, r, i, k)' /\ ~Taken(p, q, t, c, r, i, k)' =>
                   \E a \in 1 .. Len(longer) : longer[a].round = r /\ longer[a].batch = i
                                               /\ SendsTo(p, q, longer[a].call)' = k
  <2>1. IsBatch(r, t, i) /\ k \in 1 .. most
    BY <1>1, <1>14, OperationStays, Zenon
  <2>2. Taken(p, q, t, c, r, i, k)' => Sent(p, q, t, c, r, i, k)'
    BY <1>7, <2>1
  <2>3. ASSUME Sent(p, q, t, c, r, i, k)', ~Taken(p, q, t, c, r, i, k)'
        PROVE  \E a \in 1 .. Len(longer) : longer[a].round = r /\ longer[a].batch = i
                                           /\ SendsTo(p, q, longer[a].call) = k
    <3>1. CASE r = r0 /\ i = i0 /\ k = k0
      BY <1>5, <1>6, <3>1
    <3>2. CASE ~(r = r0 /\ i = i0 /\ k = k0)
      <4>1. PICK a \in 1 .. N : queue[a].round = r /\ queue[a].batch = i
                                /\ SendsTo(p, q, queue[a].call) = k
        BY <1>7, <2>1, <2>3, <3>2
      <4> QED
        BY <1>5, <4>1
    <3> QED
      BY <3>1, <3>2
  <2>4. \A x : SendsTo(p, q, x)' = SendsTo(p, q, x)
    BY OperationStays, Zenon
  <2> QED
    BY <2>2, <2>3, <2>4, Zenon
<1>15. Stream(longer, p, q, t, c)'
  BY <1>12, <1>13, <1>14, Zenon DEF Stream
<1> QED
  BY <1>3, <1>15

LEMMA TailFacts ==
  ASSUME NEW S, NEW s \in Seq(S), s # <<>>
  PROVE  /\ Tail(s) \in Seq(S) /\ Len(s) \in Nat \ {0} /\ Len(Tail(s)) = Len(s) - 1
         /\ Head(s) = s[1] /\ Head(s) \in S
         /\ \A a \in 1 .. Len(s) - 1 : Tail(s)[a] = s[a + 1]
OBVIOUS

\* A stream one more message of which has been taken: the first that waits,
\* which is message k0 of batch i0 of round r0.
LEMMA TakeStream ==
  ASSUME operation \in Operations, operation' = operation,
         NEW p \in Parties, NEW q \in Parties, NEW t \in Threads, NEW c \in Chunks,
         NEW queue \in Seq(Messages), queue # <<>>, Stream(queue, p, q, t, c),
         NEW r0 \in Nat, NEW i0 \in Nat, NEW k0 \in 1 .. PerBatch(p, q), IsBatch(r0, t, i0),
         \A r, i : IsBatch(r, t, i) => \A k \in 1 .. PerBatch(p, q) :
           /\ Taken(p, q, t, c, r, i, k) <=> Before(r, i, k, r0, i0, k0)
           /\ Taken(p, q, t, c, r, i, k)' <=> UpTo(r, i, k, r0, i0, k0)
           /\ Sent(p, q, t, c, r, i, k)' <=> Sent(p, q, t, c, r, i, k)
           /\ Sent(p, q, t, c, r, i, k) /\ Before(r0, i0, k0, r, i, k) => Sent(p, q, t, c, r0, i0, k0)
  PROVE  /\ Waits(Head(queue), p, q, t, c)
         /\ Head(queue).round = r0 /\ Head(queue).batch = i0
         /\ SendsTo(p, q, Head(queue).call) = k0
         /\ Stream(Tail(queue), p, q, t, c)'
<1>1. PICK most \in Nat : most = PerBatch(p, q)
  <2>1. Len(Calls[p]) \in 0 .. Len(Calls[p])
    BY OperationFacts
  <2>2. PerBatch(p, q) \in Nat
    BY <2>1, SendsCount DEF PerBatch
  <2> QED
    BY <2>2
<1>2. k0 \in 1 .. most /\ k0 \in Nat
  BY <1>1
<1>3. PICK shorter : shorter = Tail(queue)
  OBVIOUS
<1>4. PICK N \in Nat \ {0} : N = Len(queue)
  BY TailFacts
<1>5. /\ 1 \in 1 .. N /\ Len(shorter) = N - 1 /\ Head(queue) = queue[1]
      /\ \A a \in 1 .. N - 1 : shorter[a] = queue[a + 1] /\ a + 1 \in 1 .. N /\ 1 < a + 1
  <2>1. 1 \in 1 .. N /\ \A a \in 1 .. N - 1 : a + 1 \in 1 .. N /\ 1 < a + 1
    OBVIOUS
  <2> QED
    BY <1>3, <1>4, <2>1, TailFacts
<1>6. ASSUME NEW r, NEW i, IsBatch(r, t, i), NEW k \in 1 .. most
      PROVE  /\ r \in Nat /\ i \in Nat /\ k \in Nat
             /\ Taken(p, q, t, c, r, i, k) <=> Before(r, i, k, r0, i0, k0)
             /\ Taken(p, q, t, c, r, i, k)' <=> UpTo(r, i, k, r0, i0, k0)
             /\ Sent(p, q, t, c, r, i, k)' <=> Sent(p, q, t, c, r, i, k)
             /\ Sent(p, q, t, c, r, i, k) /\ Before(r0, i0, k0, r, i, k) => Sent(p, q, t, c, r0, i0, k0)
             /\ Taken(p, q, t, c, r, i, k) => Sent(p, q, t, c, r, i, k)
             /\ Sent(p, q, t, c, r, i, k) /\ ~Taken(p, q, t, c, r, i, k) =>
                  \E a \in 1 .. N : queue[a].round = r /\ queue[a].batch = i
                                    /\ SendsTo(p, q, queue[a].call) = k
  <2>1. r \in Nat /\ i \in Nat /\ k \in Nat
    BY <1>6, BatchFacts
  <2>2. /\ Taken(p, q, t, c, r, i, k) <=> Before(r, i, k, r0, i0, k0)
        /\ Taken(p, q, t, c, r, i, k)' <=> UpTo(r, i, k, r0, i0, k0)
        /\ Sent(p, q, t, c, r, i, k)' <=> Sent(p, q, t, c, r, i, k)
        /\ Sent(p, q, t, c, r, i, k) /\ Before(r0, i0, k0, r, i, k) => Sent(p, q, t, c, r0, i0, k0)
    BY <1>1, <1>6
  <2>3. /\ Taken(p, q, t, c, r, i, k) => Sent(p, q, t, c, r, i, k)
        /\ Sent(p, q, t, c, r, i, k) /\ ~Taken(p, q, t, c, r, i, k) =>
             \E a \in 1 .. N : queue[a].round = r /\ queue[a].batch = i
                               /\ SendsTo(p, q, queue[a].call) = k
    BY <1>1, <1>4, <1>6 DEF Stream
  <2> QED
    BY <2>1, <2>2, <2>3, Zenon
<1>7. ASSUME NEW a \in 1 .. N
      PROVE  \E o, r, i, x, k :
               /\ o = queue[a] /\ r = o.round /\ i = o.batch /\ x = o.call
               /\ k = SendsTo(p, q, x) /\ Waits(o, p, q, t, c)
               /\ o = Content(p, t, c, r, i, x) /\ IsBatch(r, t, i)
               /\ x \in 1 .. Len(Calls[p]) /\ Calls[p][x].to = q /\ k \in 1 .. most
               /\ Sent(p, q, t, c, r, i, k) /\ ~Taken(p, q, t, c, r, i, k)
               /\ ~Before(r, i, k, r0, i0, k0)
               /\ r \in Nat /\ i \in Nat /\ k \in Nat
  <2>1. PICK o, r, i, x, k : /\ o = queue[a] /\ r = o.round /\ i = o.batch /\ x = o.call
                             /\ k = SendsTo(p, q, x)
    OBVIOUS
  <2>2. Waits(o, p, q, t, c)
    BY <1>4, <2>1 DEF Stream
  <2>3. /\ o = Content(p, t, c, r, i, x) /\ IsBatch(r, t, i)
        /\ x \in 1 .. Len(Calls[p]) /\ Calls[p][x].to = q /\ k \in 1 .. most
        /\ Sent(p, q, t, c, r, i, k) /\ ~Taken(p, q, t, c, r, i, k)
    BY <1>1, <2>1, <2>2, Zenon DEF Waits
  <2>4. ~Before(r, i, k, r0, i0, k0) /\ r \in Nat /\ i \in Nat /\ k \in Nat
    BY <1>6, <2>3
  <2> QED
    BY <2>1, <2>2, <2>3, <2>4, Zenon
<1>8. PICK h, hr, hi, hx, hk :
        /\ h = queue[1] /\ hr = h.round /\ hi = h.batch /\ hx = h.call
        /\ hk = SendsTo(p, q, hx) /\ Waits(h, p, q, t, c)
        /\ h = Content(p, t, c, hr, hi, hx) /\ IsBatch(hr, t, hi)
        /\ hx \in 1 .. Len(Calls[p]) /\ Calls[p][hx].to = q /\ hk \in 1 .. most
        /\ Sent(p, q, t, c, hr, hi, hk) /\ ~Taken(p, q, t, c, hr, hi, hk)
        /\ ~Before(hr, hi, hk, r0, i0, k0)
        /\ hr \in Nat /\ hi \in Nat /\ hk \in Nat
  BY <1>5, <1>7
<1>9. hr = r0 /\ hi = i0 /\ hk = k0
  <2>1. SUFFICES ASSUME ~(hr = r0 /\ hi = i0 /\ hk = k0) PROVE FALSE
    OBVIOUS
  <2>2. Before(r0, i0, k0, hr, hi, hk)
    <3>1. ~Before(hr, hi, hk, r0, i0, k0) /\ hr \in Nat /\ hi \in Nat /\ hk \in Nat
      BY <1>8, Zenon
    <3> QED
      BY <1>2, <2>1, <3>1 DEF UpTo, Before
  <2>3. Sent(p, q, t, c, r0, i0, k0) /\ ~Taken(p, q, t, c, r0, i0, k0)
    <3>1. ~Before(r0, i0, k0, r0, i0, k0)
      BY <1>2 DEF UpTo, Before
    <3> QED
      BY <1>2, <1>6, <1>8, <2>2, <3>1, Zenon
  <2>4. PICK a \in 1 .. N : queue[a].round = r0 /\ queue[a].batch = i0
                            /\ SendsTo(p, q, queue[a].call) = k0
    BY <1>2, <1>6, <2>3
  <2>5. CASE a = 1
    BY <1>8, <2>1, <2>4, <2>5, Zenon
  <2>6. CASE a # 1
    <3>1. 1 < a
      BY <2>6
    <3>2. Earlier(p, q, queue[1], queue[a])
      BY <1>4, <1>5, <3>1 DEF Stream
    <3>3. Before(hr, hi, hk, r0, i0, k0)
      BY <1>8, <2>4, <3>2, Zenon DEF Earlier
    <3> QED
      BY <1>8, <3>3, Zenon
  <2> QED
    BY <2>5, <2>6
<1>10. ASSUME NEW a \in 1 .. N - 1
       PROVE  Waits(shorter[a], p, q, t, c)'
  <2>1. a + 1 \in 1 .. N /\ 1 < a + 1 /\ shorter[a] = queue[a + 1]
    BY <1>5
  <2>2. PICK o, r, i, x, k :
          /\ o = queue[a + 1] /\ r = o.round /\ i = o.batch /\ x = o.call
          /\ k = SendsTo(p, q, x) /\ Waits(o, p, q, t, c)
          /\ o = Content(p, t, c, r, i, x) /\ IsBatch(r, t, i)
          /\ x \in 1 .. Len(Calls[p]) /\ Calls[p][x].to = q /\ k \in 1 .. most
          /\ Sent(p, q, t, c, r, i, k) /\ ~Taken(p, q, t, c, r, i, k)
          /\ ~Before(r, i, k, r0, i0, k0)
          /\ r \in Nat /\ i \in Nat /\ k \in Nat
    BY <1>7, <2>1
  <2>3. Earlier(p, q, queue[1], queue[a + 1])
    BY <1>4, <1>5, <2>1 DEF Stream
  <2>4. Before(r0, i0, k0, r, i, k)
    BY <1>8, <1>9, <2>2, <2>3, Zenon DEF Earlier
  <2>5. ~UpTo(r, i, k, r0, i0, k0)
    <3>1. r \in Nat /\ i \in Nat /\ k \in Nat
      BY <2>2, Zenon
    <3> QED
      BY <1>2, <2>4, <3>1 DEF UpTo, Before
  <2>6. Sent(p, q, t, c, r, i, k)' /\ ~Taken(p, q, t, c, r, i, k)'
    BY <1>6, <2>2, <2>5, Zenon
  <2>7. Waits(o, p, q, t, c)'
    BY <1>1, <2>2, <2>6, WaitsNext, Zenon
  <2> QED
    BY <2>1, <2>2, <2>7, Zenon
<1>11. \A o, x : Earlier(p, q, o, x)' <=> Earlier(p, q, o, x)
  BY OperationStays, Zenon DEF Earlier, Before
<1>12. ASSUME NEW a \in 1 .. N - 1, NEW b \in 1 .. N - 1, a < b
       PROVE  Earlier(p, q, shorter[a], shorter[b])'
  <2>1. a + 1 < b + 1
    BY <1>12
  <2>2. Earlier(p, q, queue[a + 1], queue[b + 1])
    BY <1>4, <1>5, <2>1 DEF Stream
  <2> QED
    BY <1>5, <1>11, <2>2
<1>13. ASSUME NEW r, NEW i, IsBatch(r, t, i)', NEW k \in 1 .. PerBatch(p, q)'
       PROVE  /\ Taken(p, q, t, c, r, i, k)' => Sent(p, q, t, c, r, i, k)'
              /\ Sent(p, q, t, c, r, i, k)' /\ ~Taken(p, q, t, c, r, i, k)' =>
                   \E a \in 1 .. N - 1 : shorter[a].round = r /\ shorter[a].batch = i
                                         /\ SendsTo(p, q, shorter[a].call)' = k
  <2>1. IsBatch(r, t, i) /\ k \in 1 .. most
    BY <1>1, <1>13, OperationStays, Zenon
  <2>2. r \in Nat /\ i \in Nat /\ k \in Nat
    BY <1>6, <2>1
  <2>3. ASSUME Taken(p, q, t, c, r, i, k)'
        PROVE  Sent(p, q, t, c, r, i, k)'
    <3>1. CASE r = r0 /\ i = i0 /\ k = k0
      BY <1>6, <1>8, <1>9, <2>1, <3>1
    <3>2. CASE ~(r = r0 /\ i = i0 /\ k = k0)
      <4>1. UpTo(r, i, k, r0, i0, k0)
        BY <1>6, <2>1, <2>3
      <4>2. Before(r, i, k, r0, i0, k0)
        BY <1>2, <2>2, <3>2, <4>1 DEF UpTo, Before
      <4> QED
        BY <1>6, <2>1, <4>2
    <3> QED
      BY <3>1, <3>2
  <2>4. ASSUME Sent(p, q, t, c, r, i, k)', ~Taken(p, q, t, c, r, i, k)'
        PROVE  \E a \in 1 .. N - 1 : shorter[a].round = r /\ shorter[a].batch = i
                                     /\ SendsTo(p, q, shorter[a].call) = k
    <3>1. ~UpTo(r, i, k, r0, i0, k0)
      BY <1>6, <2>1, <2>4
    <3>2. ~Before(r, i, k, r0, i0, k0) /\ ~(r = r0 /\ i = i0 /\ k = k0)
      BY <1>2, <2>2, <3>1 DEF UpTo, Before
    <3>3. PICK a \in 1 .. N : queue[a].round = r /\ queue[a].batch = i
                              /\ SendsTo(p, q, queue[a].call) = k
      BY <1>6, <2>1, <2>4, <3>2
    <3>4. a # 1
      BY <1>8, <1>9, <3>2, <3>3
    <3>5. PICK b \in 1 .. N - 1 : a = b + 1
      <4>1. a - 1 \in 1 .. N - 1 /\ a = (a - 1) + 1
        BY <3>4
      <4> QED
        BY <4>1
    <3> QED
      BY <1>5, <3>3, <3>5
  <2>5. \A x : SendsTo(p, q, x)' = SendsTo(p, q, x)
    BY OperationStays, Zenon
  <2> QED
    BY <2>3, <2>4, <2>5, Zenon
<1>14. Stream(shorter, p, q, t, c)'
  <2>1. Len(shorter) = N - 1
    BY <1>5
  <2> QED
    BY <1>10, <1>12, <1>13, <2>1 DEF Stream
<1> QED
  BY <1>3, <1>5, <1>8, <1>9, <1>14

-----------------------------------------------------------------------------
(* Every step keeps the invariant.                                         *)

LEMMA ChunkNumbers ==
  ASSUME NEW size \in Int, NEW c \in Chunks
  PROVE  ChunkStart(size, c) \in Int /\ ChunkSize(size, c) \in Int
<1> Factor \in Nat \ {0}
  BY CommunicatorAssumption
<1>1. PICK d \in Int : d = size \div Factor
  BY DivModInt
<1>2. c \in Int /\ c * d \in Int
  BY TimesInt DEF Chunks
<1> QED
  BY <1>1, <1>2 DEF ChunkStart, ChunkSize

LEMMA RequestFacts ==
  ASSUME IInv, NEW p \in Parties, NEW t \in Threads, NEW c \in Chunks, Working(p, t)
  PROVE  /\ Request(p, t, c) \in Messages
         /\ Request(p, t, c) = Content(p, t, c, round[p], pos[<<p, t>>], call[<<p, t>>])
<1>1. Size(p, t) \in Int
  <2>1. PICK i \in Nat, b \in Nat, e \in Nat : i = pos[<<p, t>>] /\ b = BatchSize /\ e = End(round[p], t)
    <3>1. IsBatch(round[p], t, pos[<<p, t>>]) /\ operation \in Operations
      BY WorkerFacts
    <3>2. End(round[p], t) \in Nat
      BY <3>1, BatchFacts
    <3> QED
      BY <3>2, WorkerFacts, CommunicatorAssumption
  <2> QED
    BY <2>1 DEF Size, BatchEnd
<1>2. ChunkStart(Size(p, t), c) \in Int /\ ChunkSize(Size(p, t), c) \in Int
  BY <1>1, ChunkNumbers
<1>3. round[p] \in Nat /\ pos[<<p, t>>] \in Nat /\ call[<<p, t>>] \in Nat
  BY DEF IInv, Types, Workers
<1>4. PICK size, r, i, n : size = Size(p, t) /\ r = round[p] /\ i = pos[<<p, t>>] /\ n = call[<<p, t>>]
  OBVIOUS
<1>5. Request(p, t, c) = [party |-> p, thread |-> t, round |-> r, batch |-> i, call |-> n, chunk |-> c,
                          start |-> ChunkStart(size, c), size |-> ChunkSize(size, c)]
  BY <1>4 DEF Request
<1>6. Content(p, t, c, r, i, n) =
        [party |-> p, thread |-> t, round |-> r, batch |-> i, call |-> n, chunk |-> c,
         start |-> ChunkStart(size, c), size |-> ChunkSize(size, c)]
  BY <1>4 DEF Content, Size
<1> QED
  BY <1>2, <1>3, <1>4, <1>5, <1>6 DEF Messages

LEMMA PostWorkers ==
  ASSUME IInv, NEW p \in Parties, NEW t \in Threads, PostChunk(p, t),
         NEW p1 \in Parties, NEW t1 \in Threads
  PROVE  WorkerInv(p1, t1)'
<1>1. /\ operation \in Operations /\ operation' = operation /\ round' = round
      /\ pos' = pos /\ call' = call /\ buffer' = buffer
      /\ WorkerInv(p1, t1) /\ <<p1, t1>> \in Workers /\ <<p, t>> \in Workers
  BY DEF IInv, Types, PostChunk, Workers
<1>2. CASE ~(p1 = p /\ t1 = t)
  <2>1. posted'[<<p1, t1>>] = posted[<<p1, t1>>]
    BY <1>1, <1>2 DEF PostChunk, IInv, Types
  <2> QED
    BY <1>1, <2>1, SameWorker
<1>3. CASE p1 = p /\ t1 = t
  <2>1. PICK x \in Nat : x = posted[<<p, t>>] /\ x < Factor /\ Factor \in Nat
    BY WorkerFacts DEF PostChunk
  <2>2. posted'[<<p, t>>] = x + 1
    BY <1>1, <2>1 DEF PostChunk, IInv, Types
  <2>3. Working(p, t) /\ Working(p, t)'
    BY <1>1 DEF PostChunk, Working, End, Totals
  <2>4. /\ Totals' = Totals /\ Calls' = Calls
        /\ Call(p, t)' = Call(p, t) /\ Start(round[p], t)' = Start(round[p], t)
    BY <1>1 DEF Totals, Calls, Call, Start
  <2>5. \A m, c : Fits(m, p, t, c)' <=> Fits(m, p, t, c)
    <3>1. PICK r, i, n : r = round[p] /\ i = pos[<<p, t>>] /\ n = call[<<p, t>>]
      OBVIOUS
    <3> QED
      BY <1>1, <2>4, <3>1, OperationStays DEF Fits
  <2>6. DOMAIN buffer'[<<p, t>>] \subseteq 0 .. posted'[<<p, t>>] - 1
    <3>1. DOMAIN buffer[<<p, t>>] \subseteq 0 .. x - 1
      BY <1>1, <1>3, <2>1 DEF WorkerInv
    <3>2. 0 .. x - 1 \subseteq 0 .. (x + 1) - 1
      BY <2>1
    <3> QED
      BY <1>1, <2>2, <3>1, <3>2
  <2>7. posted'[<<p, t>>] \in 0 .. Factor
    BY <2>1, <2>2
  <2> QED
    BY <1>1, <1>3, <2>3, <2>4, <2>5, <2>6, <2>7 DEF WorkerInv
<1> QED
  BY <1>2, <1>3

LEMMA PostReceives ==
  ASSUME IInv, NEW p \in Parties, NEW t \in Threads, PostChunk(p, t),
         NEW p1 \in Parties, NEW q1 \in Parties, NEW t1 \in Threads, NEW c \in Chunks
  PROVE  ReceiveInv(p1, q1, t1, c)'
<1>1. /\ operation' = operation /\ round' = round
      /\ pos' = pos /\ call' = call /\ buffer' = buffer
      /\ ReceiveInv(p1, q1, t1, c) /\ <<q1, t1>> \in Workers /\ <<p, t>> \in Workers
      /\ <<p1, q1>> \in Links /\ receives \in [Links -> [Tags -> Seq(Messages)]]
  BY DEF IInv, Types, PostChunk, Workers, Links
<1>2. PICK x \in Chunks : x = posted[<<p, t>>]
  BY WorkerFacts DEF PostChunk, Chunks
<1>3. PICK from \in Parties \cup {NoParty} : from = Call(p, t).from
  BY WorkerFacts
<1>4. PICK tag \in Tags : tag = Tag(t, x)
  BY TagsApart
<1>5. PICK m : m = Request(p, t, x)
  OBVIOUS
<1>6. receives' = IF from = NoParty THEN receives
                  ELSE [receives EXCEPT ![<<from, p>>][tag] = Append(@, m)]
  BY <1>2, <1>3, <1>4, <1>5 DEF PostChunk, PostReceive
<1>7. /\ posted'[<<p, t>>] = x + 1
      /\ \A w \in Workers : w # <<p, t>> => posted'[w] = posted[w]
  BY <1>1, <1>2 DEF PostChunk, IInv, Types
<1>8. CASE q1 = p /\ t1 = t /\ c = x
  <2>1. ~Expects(p1, p, t, x)
    BY <1>2 DEF Expects, Chunks
  <2>2. receives[<<p1, p>>][tag] = <<>>
    BY <1>1, <1>4, <1>8, <2>1 DEF ReceiveInv
  <2>3. x \notin DOMAIN buffer[<<p, t>>]
    BY <1>2, WorkerFacts DEF Chunks
  <2>4. Expects(p1, p, t, x)' <=> p1 = from
    <3>1. Working(p, t)' /\ Call(p, t)' = Call(p, t)
      BY <1>1 DEF PostChunk, Working, Call, Calls, End, Totals
    <3>2. posted'[<<p, t>>] > x
      BY <1>7 DEF Chunks
    <3> QED
      BY <1>1, <1>3, <2>3, <3>1, <3>2 DEF Expects
  <2>5. Request(p, t, x)' = m
    BY <1>1, <1>5 DEF Request, Size, End, Totals
  <2>6. CASE p1 = from
    <3>1. from # NoParty
      BY <2>6, WorkerFacts
    <3>2. receives'[<<p1, p>>][tag] = Append(<<>>, m)
      BY <1>1, <1>6, <1>8, <2>2, <2>6, <3>1
    <3>3. receives'[<<p1, p>>][tag] = <<m>>
      BY <3>2
    <3> QED
      BY <1>4, <1>8, <2>4, <2>5, <2>6, <3>3 DEF ReceiveInv
  <2>7. CASE p1 # from
    <3>1. receives'[<<p1, p>>][tag] = <<>>
      BY <1>1, <1>6, <1>8, <2>2, <2>7 DEF Links
    <3> QED
      BY <1>4, <1>8, <2>4, <2>7, <3>1 DEF ReceiveInv
  <2> QED
    BY <2>6, <2>7
<1>9. CASE ~(q1 = p /\ t1 = t /\ c = x)
  <2>1. posted'[<<q1, t1>>] > c <=> posted[<<q1, t1>>] > c
    <3>1. CASE q1 = p /\ t1 = t
      BY <1>2, <1>7, <1>9, <3>1 DEF Chunks
    <3>2. CASE ~(q1 = p /\ t1 = t)
      BY <1>1, <1>7, <3>2
    <3> QED
      BY <3>1, <3>2
  <2>2. receives'[<<p1, q1>>][Tag(t1, c)] = receives[<<p1, q1>>][Tag(t1, c)]
    <3>1. PICK tag1 \in Tags : tag1 = Tag(t1, c)
      BY TagsApart
    <3>2. q1 # p \/ tag1 # tag
      BY <1>4, <1>9, <3>1, TagsApart
    <3>3. receives'[<<p1, q1>>][tag1] = receives[<<p1, q1>>][tag1]
      BY <1>1, <1>6, <3>2
    <3> QED
      BY <3>1, <3>3
  <2> QED
    BY <1>1, <2>1, <2>2, SameReceive
<1> QED
  BY <1>8, <1>9

LEMMA PostStreams ==
  ASSUME IInv, NEW p \in Parties, NEW t \in Threads, PostChunk(p, t),
         NEW p1 \in Parties, NEW q1 \in Parties, NEW t1 \in Threads, NEW c \in Chunks
  PROVE  StreamInv(p1, q1, t1, c)'
<1>1. PICK queue : queue = messages[<<p1, q1>>][Tag(t1, c)] /\ Stream(queue, p1, q1, t1, c)
  BY DEF IInv, StreamInv
<1>2. /\ operation \in Operations /\ operation' = operation /\ round' = round
      /\ pos' = pos /\ call' = call /\ buffer' = buffer
      /\ <<p1, q1>> \in Links /\ messages \in [Links -> [Tags -> Seq(Messages)]]
  BY DEF IInv, Types, PostChunk, Links
<1>3. PICK x \in Chunks : x = posted[<<p, t>>]
  BY WorkerFacts DEF PostChunk, Chunks
<1>4. PICK to \in Parties \cup {NoParty} : to = Call(p, t).to
  BY WorkerFacts
<1>5. PICK tag \in Tags : tag = Tag(t, x)
  BY TagsApart
<1>6. PICK m \in Messages : m = Request(p, t, x)
  BY RequestFacts DEF PostChunk
<1>7. messages' = IF to = NoParty THEN messages
                  ELSE [messages EXCEPT ![<<p, to>>][tag] = Append(@, m)]
  BY <1>3, <1>4, <1>5, <1>6 DEF PostChunk, PostSend
<1>8. /\ posted'[<<p, t>>] = x + 1
      /\ \A w \in Workers : w # <<p, t>> => posted'[w] = posted[w]
  BY <1>3, WorkerFacts DEF PostChunk, IInv, Types
<1>9. /\ call[<<p1, t1>>] \in Int /\ call[<<q1, t1>>] \in Int
      /\ <<p1, t1>> \in Workers
  BY WorkerFacts
<1>10. \A r, i, k : Taken(p1, q1, t1, c, r, i, k)' <=> Taken(p1, q1, t1, c, r, i, k)
  BY <1>2, <1>9, SameTaken
<1>11. messages'[<<p1, q1>>][Tag(t1, c)] =
         IF p1 = p /\ q1 = to /\ t1 = t /\ c = x THEN Append(queue, m) ELSE queue
  <2>1. PICK tag1 \in Tags : tag1 = Tag(t1, c)
    BY TagsApart
  <2>2. CASE p1 = p /\ q1 = to /\ t1 = t /\ c = x
    <3>1. to # NoParty
      BY <2>2, WorkerFacts
    <3> QED
      BY <1>1, <1>2, <1>5, <1>7, <2>2, <3>1
  <2>3. CASE ~(p1 = p /\ q1 = to /\ t1 = t /\ c = x)
    <3>1. p1 # p \/ q1 # to \/ tag1 # tag
      BY <1>5, <2>1, <2>3, TagsApart
    <3>2. messages'[<<p1, q1>>][tag1] = messages[<<p1, q1>>][tag1]
      BY <1>2, <1>7, <3>1
    <3> QED
      BY <1>1, <2>1, <2>3, <3>2
  <2> QED
    BY <2>2, <2>3
<1>12. CASE ~(p1 = p /\ t1 = t /\ c = x)
  <2>1. posted'[<<p1, t1>>] > c <=> posted[<<p1, t1>>] > c
    <3>1. CASE p1 = p /\ t1 = t
      BY <1>3, <1>8, <1>12, <3>1 DEF Chunks
    <3>2. CASE ~(p1 = p /\ t1 = t)
      BY <1>8, <1>9, <3>2
    <3> QED
      BY <3>1, <3>2
  <2>2. \A r, i, k : Sent(p1, q1, t1, c, r, i, k)' <=> Sent(p1, q1, t1, c, r, i, k)
    BY <1>2, <1>9, <2>1, SameSent
  <2>3. Stream(queue, p1, q1, t1, c)'
    BY <1>1, <1>2, <1>10, <2>2, SameStream
  <2> QED
    BY <1>11, <1>12, <2>3 DEF StreamInv
<1>13. CASE p1 = p /\ t1 = t /\ c = x
  <2>1. PICK r0 \in Nat, i0 \in Nat : r0 = round[p] /\ i0 = pos[<<p, t>>]
    BY DEF IInv, Types, Workers
  <2>2. PICK N \in Nat : N = Len(Calls[p])
    BY WorkerFacts
  <2>3. PICK n \in 1 .. N : n = call[<<p, t>>]
    BY <2>2, WorkerFacts
  <2>4. n \in Int /\ n \in 0 .. N /\ n - 1 \in 0 .. N /\ N \in 0 .. N
    OBVIOUS
  <2>5. IsBatch(r0, t, i0) /\ m = Content(p, t, x, r0, i0, n)
    BY <1>6, <2>1, <2>3, WorkerFacts, RequestFacts DEF PostChunk
  <2>6. PICK k0 \in Nat, k1 \in Nat, most \in Nat :
          k0 = SendsTo(p, q1, n) /\ k1 = SendsTo(p, q1, n - 1) /\ most = PerBatch(p, q1) /\ k0 <= most
    <3>1. \A a \in 0 .. N : SendsTo(p, q1, a) \in Nat /\ SendsTo(p, q1, a) <= PerBatch(p, q1)
      BY <1>2, <2>2, SendsCount
    <3>2. PerBatch(p, q1) \in Nat
      BY <2>2, <2>4, <3>1 DEF PerBatch
    <3> QED
      BY <2>4, <3>1, <3>2
  <2>7. \A r, i, k : Sent(p, q1, t, x, r, i, k) <=> UpTo(r, i, k, r0, i0, k1)
    <3>1. ~(posted[<<p, t>>] > x)
      BY <1>3 DEF Chunks
    <3> QED
      BY <2>1, <2>3, <2>4, <2>6, <3>1, SentNow, Zenon
  <2>8. \A r, i, k : Sent(p, q1, t, x, r, i, k)' <=> UpTo(r, i, k, r0, i0, k0)
    <3>1. posted'[<<p, t>>] > x
      BY <1>8 DEF Chunks
    <3> QED
      BY <1>2, <2>1, <2>3, <2>4, <2>6, <3>1, SentNext, Zenon
  <2>9. CASE q1 = to
    <3>1. Calls[p][n].to = q1
      BY <1>4, <2>3, <2>9 DEF Call
    <3>2. k0 = k1 + 1
      BY <1>2, <2>2, <2>6, <3>1, SendsCount
    <3>3. k0 \in 1 .. most
      BY <2>6, <3>2
    <3>4. queue \in Seq(Messages)
      BY <1>1, <1>2, <1>5, <1>13
    <3>5. ASSUME NEW r, NEW i, IsBatch(r, t, i), NEW k \in 1 .. most
          PROVE  Sent(p, q1, t, x, r, i, k) <=> Before(r, i, k, r0, i0, k0)
      <4>1. r \in Nat /\ i \in Nat /\ k \in Nat
        BY <1>2, <3>5, BatchFacts
      <4>2. UpTo(r, i, k, r0, i0, k1) <=> Before(r, i, k, r0, i0, k0)
        BY <3>2, <4>1 DEF UpTo, Before
      <4> QED
        BY <2>7, <4>2, Zenon
    <3>6. Stream(Append(queue, m), p, q1, t, x)'
      BY <1>1, <1>2, <1>10, <1>13, <2>2, <2>5, <2>6, <2>8, <3>1, <3>3, <3>4, <3>5, AppendStream
    <3> QED
      BY <1>11, <1>13, <2>9, <3>6 DEF StreamInv
  <2>10. CASE q1 # to
    <3>1. Calls[p][n].to # q1
      BY <1>4, <2>3, <2>10 DEF Call
    <3>2. k0 = k1
      BY <1>2, <2>2, <2>6, <3>1, SendsCount
    <3>3. \A r, i, k : Sent(p, q1, t, x, r, i, k)' <=> Sent(p, q1, t, x, r, i, k)
      BY <2>7, <2>8, <3>2, Zenon
    <3>4. Stream(queue, p, q1, t, x)'
      BY <1>1, <1>2, <1>10, <1>13, <3>3, SameStream
    <3> QED
      BY <1>11, <1>13, <2>10, <3>4 DEF StreamInv
  <2> QED
    BY <2>9, <2>10
<1> QED
  BY <1>12, <1>13

LEMMA PostKeeps ==
  ASSUME IInv, NEW p \in Parties, NEW t \in Threads, PostChunk(p, t)
  PROVE  IInv'
<1>1. Types'
  <2>1. Types /\ <<p, t>> \in Workers
    BY WorkerFacts DEF IInv
  <2>2. PICK x \in Chunks : x = posted[<<p, t>>]
    BY WorkerFacts DEF PostChunk, Chunks
  <2>3. posted' \in [Workers -> Nat]
    BY <2>1 DEF Types, PostChunk
  <2>4. PICK m \in Messages : m = Request(p, t, x)
    BY RequestFacts DEF PostChunk
  <2>5. PICK tag \in Tags : tag = Tag(t, x)
    BY TagsApart
  <2>6. PICK to \in Parties \cup {NoParty}, from \in Parties \cup {NoParty} :
          to = Call(p, t).to /\ from = Call(p, t).from
    BY WorkerFacts
  <2>7. ASSUME NEW F \in [Links -> [Tags -> Seq(Messages)]], NEW link \in Links
        PROVE  [F EXCEPT ![link][tag] = Append(@, m)] \in [Links -> [Tags -> Seq(Messages)]]
    <3>1. Append(F[link][tag], m) \in Seq(Messages)
      OBVIOUS
    <3>2. [F[link] EXCEPT ![tag] = Append(@, m)] \in [Tags -> Seq(Messages)]
      BY <3>1
    <3> QED
      BY <3>2
  <2>8. messages' \in [Links -> [Tags -> Seq(Messages)]]
    <3>1. CASE to = NoParty
      BY <2>1, <2>6, <3>1 DEF Types, PostChunk, PostSend
    <3>2. CASE to # NoParty
      <4>1. <<p, to>> \in Links
        BY <3>2 DEF Links
      <4>2. messages' = [messages EXCEPT ![<<p, to>>][tag] = Append(@, m)]
        BY <2>2, <2>4, <2>5, <2>6, <3>2 DEF PostChunk, PostSend
      <4>3. messages \in [Links -> [Tags -> Seq(Messages)]]
        BY <2>1 DEF Types
      <4> QED
        BY <2>7, <4>1, <4>2, <4>3
    <3> QED
      BY <3>1, <3>2
  <2>9. receives' \in [Links -> [Tags -> Seq(Messages)]]
    <3>1. CASE from = NoParty
      BY <2>1, <2>6, <3>1 DEF Types, PostChunk, PostReceive
    <3>2. CASE from # NoParty
      <4>1. <<from, p>> \in Links
        BY <3>2 DEF Links
      <4>2. receives' = [receives EXCEPT ![<<from, p>>][tag] = Append(@, m)]
        BY <2>2, <2>4, <2>5, <2>6, <3>2 DEF PostChunk, PostReceive
      <4>3. receives \in [Links -> [Tags -> Seq(Messages)]]
        BY <2>1 DEF Types
      <4> QED
        BY <2>7, <4>1, <4>2, <4>3
    <3> QED
      BY <3>1, <3>2
  <2> QED
    BY <2>1, <2>3, <2>8, <2>9 DEF Types, PostChunk
<1> QED
  BY <1>1, PostStreams, PostWorkers, PostReceives DEF IInv

LEMMA MatchActs ==
  ASSUME NEW link, NEW tag, Match(link, tag)
  PROVE  /\ messages[link][tag] # <<>> /\ receives[link][tag] # <<>>
         /\ messages' = [messages EXCEPT ![link][tag] = Tail(@)]
         /\ receives' = [receives EXCEPT ![link][tag] = Tail(@)]
         /\ operation' = operation /\ round' = round /\ pos' = pos /\ call' = call /\ posted' = posted
BY Zenon DEF Match

\* Message m has arrived for the receive of thread t of party q for chunk c.
Arrived(queue, m, p, q, t, c) ==
  /\ queue \in Seq(Messages) /\ queue # <<>> /\ m = Head(queue)
  /\ queue = messages[<<p, q>>][Tag(t, c)]
  /\ Stream(queue, p, q, t, c)

Delivered(m, q, t, c) ==
  buffer' = [buffer EXCEPT ![<<q, t>>] = Fill(@, c, m)]

LEMMA MatchFacts ==
  ASSUME IInv, NEW p \in Parties, NEW q \in Parties, NEW t \in Threads, NEW c \in Chunks,
         Match(<<p, q>>, Tag(t, c))
  PROVE  /\ Expects(p, q, t, c)
         /\ receives[<<p, q>>][Tag(t, c)] = <<Request(q, t, c)>>
         /\ \E queue : \E m \in Messages : Arrived(queue, m, p, q, t, c) /\ Delivered(m, q, t, c)
<1>1. PICK tag \in Tags, link \in Links : tag = Tag(t, c) /\ link = <<p, q>>
  BY TagsApart DEF Links
<1>2. Match(link, tag)
  BY <1>1
<1>3. ReceiveInv(p, q, t, c) /\ StreamInv(p, q, t, c)
  BY Zenon DEF IInv
<1>4. receives[link][tag] # <<>> /\ messages[link][tag] # <<>>
  BY <1>2, MatchActs, Zenon
<1>5. Expects(p, q, t, c) /\ receives[link][tag] = <<Request(q, t, c)>>
  BY <1>1, <1>3, <1>4, Zenon DEF ReceiveInv
<1>6. messages \in [Links -> [Tags -> Seq(Messages)]]
  BY Zenon DEF IInv, Types
<1>7. PICK queue : queue = messages[link][tag] /\ queue \in Seq(Messages)
  BY <1>1, <1>6
<1>8. PICK m, request :
        /\ m = Head(messages[link][tag]) /\ request = Head(receives[link][tag])
        /\ buffer' = [buffer EXCEPT ![<<request.party, request.thread>>] = Fill(@, request.chunk, m)]
  BY <1>2, Zenon DEF Match
<1>9. m = Head(queue) /\ m \in Messages
  BY <1>4, <1>7, <1>8, TailFacts
<1>10. Stream(queue, p, q, t, c)
  BY <1>1, <1>3, <1>7, Zenon DEF StreamInv
<1>11. Arrived(queue, m, p, q, t, c)
  BY <1>1, <1>4, <1>7, <1>9, <1>10, Zenon DEF Arrived
<1>12. request = Request(q, t, c)
  <2>1. \A x : Head(<<x>>) = x
    OBVIOUS
  <2> QED
    BY <1>5, <1>8, <2>1
<1>13. request.party = q /\ request.thread = t /\ request.chunk = c
  BY <1>12 DEF Request
<1>14. Delivered(m, q, t, c)
  BY <1>8, <1>13, Zenon DEF Delivered
<1> QED
  BY <1>1, <1>5, <1>9, <1>11, <1>14, Zenon

LEMMA CallNumbers ==
  ASSUME IInv, NEW p \in Parties, NEW t \in Threads
  PROVE  /\ call[<<p, t>>] \in Int
         /\ \E N \in Nat : N = Len(Calls[p])
         /\ \E r \in Nat, i \in Nat : r = round[p] /\ i = pos[<<p, t>>]
<1>1. /\ call[<<p, t>>] \in 1 .. Len(Calls[p]) /\ Len(Calls[p]) \in Nat
      /\ round[p] \in 1 .. Len(Totals) + 1 /\ Len(Totals) \in Nat
      /\ pos[<<p, t>>] \in Nat
  BY WorkerFacts
<1>2. PICK N \in Nat : N = Len(Calls[p])
  BY <1>1
<1>3. call[<<p, t>>] \in Int
  BY <1>1, <1>2
<1>4. PICK r \in Nat : r = round[p]
  <2>1. PICK n \in Nat : n = Len(Totals)
    BY <1>1
  <2> QED
    BY <1>1, <2>1
<1> QED
  BY <1>1, <1>2, <1>3, <1>4

LEMMA SentBefore ==
  ASSUME IInv, NEW p \in Parties, NEW q \in Parties, NEW t \in Threads, NEW c \in Chunks,
         NEW r \in Nat, NEW i \in Nat, NEW k \in Nat, NEW r0 \in Nat, NEW i0 \in Nat, NEW k0 \in Nat,
         Sent(p, q, t, c, r, i, k), Before(r0, i0, k0, r, i, k)
  PROVE  Sent(p, q, t, c, r0, i0, k0)
<1>1. PICK N \in Nat : N = Len(Calls[p])
  BY WorkerFacts
<1>2. PICK n \in 1 .. N : n = call[<<p, t>>]
  BY <1>1, WorkerFacts
<1>3. PICK ri \in Nat, ii \in Nat : ri = round[p] /\ ii = pos[<<p, t>>]
  BY DEF IInv, Types, Workers
<1>4. \A a \in 0 .. N : SendsTo(p, q, a) \in Nat
  BY <1>1, SendsCount, WorkerFacts
<1>5. n \in Int /\ n \in 0 .. N /\ n - 1 \in 0 .. N
  OBVIOUS
<1>6. \E ki \in Nat : \A a, b, d : Sent(p, q, t, c, a, b, d) <=> UpTo(a, b, d, ri, ii, ki)
  <2>1. CASE posted[<<p, t>>] > c
    BY <1>2, <1>3, <1>4, <1>5, <2>1, SentNow, Zenon
  <2>2. CASE ~(posted[<<p, t>>] > c)
    BY <1>2, <1>3, <1>4, <1>5, <2>2, SentNow, Zenon
  <2> QED
    BY <2>1, <2>2
<1>7. PICK ki \in Nat : \A a, b, d : Sent(p, q, t, c, a, b, d) <=> UpTo(a, b, d, ri, ii, ki)
  BY <1>6
<1>8. UpTo(r, i, k, ri, ii, ki)
  BY <1>7
<1>9. UpTo(r0, i0, k0, ri, ii, ki)
  BY <1>8 DEF UpTo, Before
<1> QED
  BY <1>7, <1>9

LEMMA MatchTakes ==
  ASSUME IInv, NEW p \in Parties, NEW q \in Parties, NEW t \in Threads, NEW c \in Chunks,
         Match(<<p, q>>, Tag(t, c)),
         NEW queue, NEW m \in Messages,
         Arrived(queue, m, p, q, t, c), Delivered(m, q, t, c), Expects(p, q, t, c)
  PROVE  Fits(m, q, t, c) /\ Stream(Tail(queue), p, q, t, c)'
<1>1. /\ operation \in Operations /\ operation' = operation /\ round' = round
      /\ pos' = pos /\ call' = call /\ posted' = posted /\ DOMAIN buffer = Workers
      /\ <<q, t>> \in Workers
  <2>1. operation \in Operations /\ DOMAIN buffer = Workers
    BY Zenon DEF IInv, Types
  <2>2. operation' = operation /\ round' = round /\ pos' = pos /\ call' = call /\ posted' = posted
    BY MatchActs, Zenon
  <2> QED
    BY <2>1, <2>2 DEF Workers
<1>2. /\ c \notin DOMAIN buffer[<<q, t>>] /\ c \in DOMAIN buffer'[<<q, t>>]
      /\ Call(q, t).from = p /\ Working(q, t)
  BY <1>1 DEF Expects, Delivered, Fill
<1>3. PICK r0 \in Nat, i0 \in Nat : r0 = round[q] /\ i0 = pos[<<q, t>>]
  BY CallNumbers
<1>4. PICK N \in Nat : N = Len(Calls[q])
  BY CallNumbers
<1>5. PICK n \in 1 .. N : n = call[<<q, t>>]
  BY <1>4, WorkerFacts
<1>6. n \in Int /\ n \in 0 .. N /\ n - 1 \in 0 .. N /\ N \in 0 .. N
  OBVIOUS
<1>7. IsBatch(r0, t, i0)
  BY <1>2, <1>3, WorkerFacts
<1>8. PICK k0 \in Nat, k1 \in Nat, most \in Nat :
        /\ k0 = ReceivesFrom(q, p, n) /\ k1 = ReceivesFrom(q, p, n - 1) /\ most = PerBatch(p, q)
        /\ k0 <= most /\ k0 = k1 + 1
  <2>1. \A a \in 0 .. N : ReceivesFrom(q, p, a) \in Nat /\ ReceivesFrom(q, p, a) <= ReceivesFrom(q, p, N)
    BY <1>1, <1>4, ReceivesCount
  <2>2. PerBatch(p, q) = ReceivesFrom(q, p, N)
    BY <1>1, <1>4, OperationFacts
  <2>3. Calls[q][n].from = p
    BY <1>2, <1>5 DEF Call
  <2>4. ReceivesFrom(q, p, n) = ReceivesFrom(q, p, n - 1) + 1
    BY <1>1, <1>4, <2>3, ReceivesCount
  <2> QED
    BY <1>6, <2>1, <2>2, <2>4
<1>9. \A r, i, k : Taken(p, q, t, c, r, i, k) <=> UpTo(r, i, k, r0, i0, k1)
  BY <1>2, <1>3, <1>5, <1>6, <1>8, TakenNow, Zenon
<1>10. \A r, i, k : Taken(p, q, t, c, r, i, k)' <=> UpTo(r, i, k, r0, i0, k0)
  <2>1. n = call'[<<q, t>>] /\ r0 = round'[q] /\ i0 = pos'[<<q, t>>]
    BY <1>1, <1>3, <1>5
  <2>2. \A r, i, k : Taken(p, q, t, c, r, i, k)'
          <=> UpTo(r, i, k, round'[q], pos'[<<q, t>>], ReceivesFrom(q, p, n))
    BY <1>1, <1>2, <1>6, <2>1, TakenNext, Zenon
  <2> QED
    BY <1>8, <2>1, <2>2, Zenon
<1>11. \A r, i, k : Sent(p, q, t, c, r, i, k)' <=> Sent(p, q, t, c, r, i, k)
  <2>1. call[<<p, t>>] \in Int
    BY CallNumbers
  <2> QED
    BY <1>1, <2>1, SameSent
<1>12. ASSUME NEW r, NEW i, IsBatch(r, t, i), NEW k \in 1 .. most
       PROVE  /\ Taken(p, q, t, c, r, i, k) <=> Before(r, i, k, r0, i0, k0)
              /\ Sent(p, q, t, c, r, i, k) /\ Before(r0, i0, k0, r, i, k) => Sent(p, q, t, c, r0, i0, k0)
  <2>1. r \in Nat /\ i \in Nat /\ k \in Nat
    BY <1>1, <1>12, BatchFacts
  <2>2. UpTo(r, i, k, r0, i0, k1) <=> Before(r, i, k, r0, i0, k0)
    BY <1>8, <2>1 DEF UpTo, Before
  <2>3. Taken(p, q, t, c, r, i, k) <=> Before(r, i, k, r0, i0, k0)
    BY <1>9, <2>2, Zenon
  <2> QED
    BY <2>1, <2>3, SentBefore
<1>13. k0 \in 1 .. most
  BY <1>8
<1>14. /\ Waits(m, p, q, t, c)
       /\ m.round = r0 /\ m.batch = i0
       /\ SendsTo(p, q, m.call) = k0
       /\ Stream(Tail(queue), p, q, t, c)'
  <2>1. queue \in Seq(Messages) /\ queue # <<>> /\ m = Head(queue) /\ Stream(queue, p, q, t, c)
    BY DEF Arrived
  <2>2. \A r, i : IsBatch(r, t, i) => \A k \in 1 .. PerBatch(p, q) :
          /\ Taken(p, q, t, c, r, i, k) <=> Before(r, i, k, r0, i0, k0)
          /\ Taken(p, q, t, c, r, i, k)' <=> UpTo(r, i, k, r0, i0, k0)
          /\ Sent(p, q, t, c, r, i, k)' <=> Sent(p, q, t, c, r, i, k)
          /\ Sent(p, q, t, c, r, i, k) /\ Before(r0, i0, k0, r, i, k) => Sent(p, q, t, c, r0, i0, k0)
    BY <1>8, <1>10, <1>11, <1>12, Zenon
  <2> QED
    <3>1. k0 \in 1 .. PerBatch(p, q)
      BY <1>8, <1>13, Zenon
    <3>2. /\ Waits(Head(queue), p, q, t, c)
          /\ Head(queue).round = r0 /\ Head(queue).batch = i0
          /\ SendsTo(p, q, Head(queue).call) = k0
          /\ Stream(Tail(queue), p, q, t, c)'
      BY <1>1, <1>7, <2>1, <2>2, <3>1, TakeStream, Zenon
    <3> QED
      BY <2>1, <3>2, Zenon
<1>15. m = Content(p, t, c, r0, i0, m.call)
  BY <1>14 DEF Waits
<1> QED
  BY <1>2, <1>3, <1>5, <1>8, <1>14, <1>15, Zenon DEF Fits

LEMMA MatchKeeps ==
  ASSUME IInv, NEW p \in Parties, NEW q \in Parties, NEW t \in Threads, NEW c \in Chunks,
         Match(<<p, q>>, Tag(t, c))
  PROVE  IInv'
<1>1. PICK queue, m : m \in Messages /\ Arrived(queue, m, p, q, t, c) /\ Delivered(m, q, t, c)
  BY MatchFacts
<1>2. Expects(p, q, t, c) /\ receives[<<p, q>>][Tag(t, c)] = <<Request(q, t, c)>>
  BY MatchFacts
<1>3. Fits(m, q, t, c) /\ Stream(Tail(queue), p, q, t, c)'
  BY <1>1, <1>2, MatchTakes
<1>4. PICK tag \in Tags : tag = Tag(t, c)
  BY TagsApart
<1>5. /\ operation \in Operations /\ operation' = operation /\ round' = round
      /\ pos' = pos /\ call' = call /\ posted' = posted /\ DOMAIN buffer = Workers
      /\ <<q, t>> \in Workers /\ <<p, q>> \in Links
      /\ messages \in [Links -> [Tags -> Seq(Messages)]]
      /\ receives \in [Links -> [Tags -> Seq(Messages)]]
      /\ messages' = [messages EXCEPT ![<<p, q>>][tag] = Tail(@)]
      /\ receives' = [receives EXCEPT ![<<p, q>>][tag] = Tail(@)]
  <2>1. /\ operation \in Operations /\ DOMAIN buffer = Workers
        /\ messages \in [Links -> [Tags -> Seq(Messages)]]
        /\ receives \in [Links -> [Tags -> Seq(Messages)]]
    BY Zenon DEF IInv, Types
  <2>2. /\ operation' = operation /\ round' = round /\ pos' = pos /\ call' = call /\ posted' = posted
    BY <1>4, MatchActs, Zenon
  <2>4. PICK link : link = <<p, q>>
    OBVIOUS
  <2>5. Match(link, tag)
    BY <1>4, <2>4
  <2>6. /\ messages' = [messages EXCEPT ![link][tag] = Tail(@)]
        /\ receives' = [receives EXCEPT ![link][tag] = Tail(@)]
    BY <2>5, MatchActs, Zenon
  <2>7. /\ messages' = [messages EXCEPT ![<<p, q>>][tag] = Tail(@)]
        /\ receives' = [receives EXCEPT ![<<p, q>>][tag] = Tail(@)]
    BY <2>4, <2>6
  <2>3. <<q, t>> \in Workers /\ <<p, q>> \in Links
    BY DEF Workers, Links
  <2> QED
    BY <2>1, <2>2, <2>3, <2>7, Zenon
<1>6. /\ \A w \in Workers : w # <<q, t>> => buffer'[w] = buffer[w]
      /\ DOMAIN buffer'[<<q, t>>] = DOMAIN buffer[<<q, t>>] \cup {c}
      /\ buffer'[<<q, t>>][c] = m
      /\ \A x \in DOMAIN buffer[<<q, t>>] : x # c => buffer'[<<q, t>>][x] = buffer[<<q, t>>][x]
  BY <1>1, <1>5 DEF Delivered, Fill
<1>7. ASSUME NEW q1 \in Parties, NEW t1 \in Threads, NEW c1 \in Chunks, ~(q1 = q /\ t1 = t /\ c1 = c)
      PROVE  c1 \in DOMAIN buffer'[<<q1, t1>>] <=> c1 \in DOMAIN buffer[<<q1, t1>>]
  <2>1. <<q1, t1>> \in Workers
    BY DEF Workers
  <2>2. CASE q1 = q /\ t1 = t
    BY <1>6, <1>7, <2>2
  <2>3. CASE ~(q1 = q /\ t1 = t)
    BY <1>6, <2>1, <2>3
  <2> QED
    BY <2>2, <2>3
<1>8. ASSUME NEW p1 \in Parties, NEW q1 \in Parties, NEW t1 \in Threads, NEW c1 \in Chunks,
             ~(p1 = p /\ q1 = q /\ t1 = t /\ c1 = c)
      PROVE  /\ messages'[<<p1, q1>>][Tag(t1, c1)] = messages[<<p1, q1>>][Tag(t1, c1)]
             /\ receives'[<<p1, q1>>][Tag(t1, c1)] = receives[<<p1, q1>>][Tag(t1, c1)]
  <2>1. PICK tag1 \in Tags : tag1 = Tag(t1, c1)
    BY TagsApart
  <2>2. <<p1, q1>> \in Links /\ (<<p1, q1>> # <<p, q>> \/ tag1 # tag)
    BY <1>4, <1>8, <2>1, TagsApart DEF Links
  <2>3. messages'[<<p1, q1>>][tag1] = messages[<<p1, q1>>][tag1]
    BY <1>5, <2>2
  <2>4. receives'[<<p1, q1>>][tag1] = receives[<<p1, q1>>][tag1]
    BY <1>5, <2>2
  <2> QED
    BY <2>1, <2>3, <2>4
<1>9. ASSUME NEW p1 \in Parties, NEW q1 \in Parties, NEW t1 \in Threads, NEW c1 \in Chunks
      PROVE  StreamInv(p1, q1, t1, c1)'
  <2>1. CASE p1 = p /\ q1 = q /\ t1 = t /\ c1 = c
    <3>1. messages'[<<p, q>>][tag] = Tail(queue)
      BY <1>1, <1>4, <1>5 DEF Arrived
    <3> QED
      BY <1>3, <1>4, <2>1, <3>1, Zenon DEF StreamInv
  <2>2. CASE ~(p1 = p /\ q1 = q /\ t1 = t /\ c1 = c)
    <3>1. PICK old : old = messages[<<p1, q1>>][Tag(t1, c1)] /\ Stream(old, p1, q1, t1, c1)
      BY DEF IInv, StreamInv
    <3>2. call[<<p1, t1>>] \in Int /\ call[<<q1, t1>>] \in Int
      BY WorkerFacts
    <3>3. \A r, i, k : Sent(p1, q1, t1, c1, r, i, k)' <=> Sent(p1, q1, t1, c1, r, i, k)
      BY <1>5, <3>2, SameSent
    <3>4. CASE ~(q1 = q /\ t1 = t /\ c1 = c)
      <4>1. \A r, i, k : Taken(p1, q1, t1, c1, r, i, k)' <=> Taken(p1, q1, t1, c1, r, i, k)
        BY <1>5, <1>7, <3>2, <3>4, SameTaken
      <4>2. Stream(old, p1, q1, t1, c1)'
        BY <1>5, <3>1, <3>3, <4>1, SameStream
      <4> QED
        BY <1>8, <2>2, <3>1, <4>2 DEF StreamInv
    <3>5. CASE q1 = q /\ t1 = t /\ c1 = c
      <4>1. PICK N \in Nat : N = Len(Calls[q])
        BY WorkerFacts
      <4>2. PICK n \in 1 .. N : n = call[<<q, t>>]
        BY <4>1, WorkerFacts
      <4>3. n \in Int
        OBVIOUS
      <4>4. Calls[q][n].from = p /\ p1 # p /\ c \notin DOMAIN buffer[<<q, t>>]
        BY <1>2, <2>2, <3>5, <4>2 DEF Expects, Call
      <4>5. ReceivesFrom(q, p1, n) = ReceivesFrom(q, p1, n - 1)
        BY <1>5, <4>1, <4>4, ReceivesCount
      <4>6. \A r, i, k : Taken(p1, q, t, c, r, i, k)
                           <=> UpTo(r, i, k, round[q], pos[<<q, t>>], ReceivesFrom(q, p1, n - 1))
        BY <4>2, <4>3, <4>4, TakenNow, Zenon
      <4>7. \A r, i, k : Taken(p1, q, t, c, r, i, k)'
                           <=> UpTo(r, i, k, round[q], pos[<<q, t>>], ReceivesFrom(q, p1, n))
        <5>1. c \in DOMAIN buffer'[<<q, t>>]
          BY <1>6
        <5> QED
          BY <1>5, <4>2, <4>3, <5>1, TakenNext, Zenon
      <4>8. \A r, i, k : Taken(p1, q, t, c, r, i, k)' <=> Taken(p1, q, t, c, r, i, k)
        BY <4>5, <4>6, <4>7, Zenon
      <4>9. Stream(old, p1, q1, t1, c1)'
        BY <1>5, <3>1, <3>3, <3>5, <4>8, SameStream
      <4> QED
        BY <1>8, <2>2, <3>1, <4>9 DEF StreamInv
    <3> QED
      BY <3>4, <3>5
  <2> QED
    BY <2>1, <2>2
<1>10. ASSUME NEW p1 \in Parties, NEW q1 \in Parties, NEW t1 \in Threads, NEW c1 \in Chunks
       PROVE  ReceiveInv(p1, q1, t1, c1)'
  <2>1. ReceiveInv(p1, q1, t1, c1)
    BY DEF IInv
  <2>2. CASE ~(q1 = q /\ t1 = t /\ c1 = c)
    <3>1. receives'[<<p1, q1>>][Tag(t1, c1)] = receives[<<p1, q1>>][Tag(t1, c1)]
      BY <1>8, <2>2
    <3>2. c1 \in DOMAIN buffer'[<<q1, t1>>] <=> c1 \in DOMAIN buffer[<<q1, t1>>]
      BY <1>7, <2>2
    <3> QED
      BY <1>5, <2>1, <3>1, <3>2, SameReceive
  <2>3. CASE q1 = q /\ t1 = t /\ c1 = c
    <3>1. ~Expects(p1, q, t, c)'
      BY <1>6 DEF Expects
    <3>2. receives'[<<p1, q>>][Tag(t, c)] = <<>>
      <4>1. CASE p1 = p
        <5>1. receives'[<<p, q>>][tag] = Tail(receives[<<p, q>>][tag])
          BY <1>5
        <5>2. \A x : Tail(<<x>>) = <<>>
          OBVIOUS
        <5> QED
          BY <1>2, <1>4, <4>1, <5>1, <5>2
      <4>2. CASE p1 # p
        <5>1. ~Expects(p1, q, t, c)
          BY <1>2, <4>2 DEF Expects
        <5> QED
          BY <1>8, <2>1, <2>3, <4>2, <5>1 DEF ReceiveInv
      <4> QED
        BY <4>1, <4>2
    <3> QED
      BY <2>3, <3>1, <3>2 DEF ReceiveInv
  <2> QED
    BY <2>2, <2>3
<1>11. ASSUME NEW p1 \in Parties, NEW t1 \in Threads
       PROVE  WorkerInv(p1, t1)'
  <2>1. WorkerInv(p1, t1) /\ <<p1, t1>> \in Workers
    BY DEF IInv, Workers
  <2>2. CASE ~(p1 = q /\ t1 = t)
    BY <1>5, <1>6, <2>1, <2>2, SameWorker
  <2>3. CASE p1 = q /\ t1 = t
    <3>1. /\ Totals' = Totals /\ Calls' = Calls /\ Call(q, t)' = Call(q, t)
          /\ Start(round[q], t)' = Start(round[q], t)
          /\ Working(q, t)' <=> Working(q, t)
      BY <1>5 DEF Totals, Calls, Call, Start, Working, End
    <3>2. \A o, x : Fits(o, q, t, x)' <=> Fits(o, q, t, x)
      <4>1. PICK r, i, n : r = round[q] /\ i = pos[<<q, t>>] /\ n = call[<<q, t>>]
        OBVIOUS
      <4> QED
        BY <1>5, <3>1, <4>1, OperationStays DEF Fits
    <3>3. ASSUME NEW x \in DOMAIN buffer'[<<q, t>>]
          PROVE  Fits(buffer[<<q, t>>][x], q, t, x)'
      <4>1. PICK o : o = buffer'[<<q, t>>][x]
        OBVIOUS
      <4>2. Fits(o, q, t, x)
        <5>1. CASE x = c
          BY <1>3, <1>6, <4>1, <5>1
        <5>2. CASE x # c
          BY <1>6, <2>1, <2>3, <4>1, <5>2 DEF WorkerInv
        <5> QED
          BY <5>1, <5>2
      <4>3. Fits(o, q, t, x)'
        BY <3>2, <4>2
      <4> QED
        BY <4>1, <4>3 DEF Fits
    <3>4. Call(q, t).from # NoParty
      BY <1>2, WorkerFacts DEF Expects
    <3>5. DOMAIN buffer'[<<q, t>>] \subseteq 0 .. posted[<<q, t>>] - 1
      <4>1. posted[<<q, t>>] \in Int /\ posted[<<q, t>>] > c /\ c \in Nat
        BY <1>2, WorkerFacts DEF Expects, Chunks
      <4>2. c \in 0 .. posted[<<q, t>>] - 1
        BY <4>1
      <4>3. DOMAIN buffer[<<q, t>>] \subseteq 0 .. posted[<<q, t>>] - 1
        BY WorkerFacts
      <4> QED
        BY <1>6, <4>2, <4>3
    <3> QED
      BY <1>5, <2>1, <2>3, <3>1, <3>3, <3>4, <3>5 DEF WorkerInv
  <2> QED
    BY <2>2, <2>3
<1>12. Types'
  <2>1. ASSUME NEW F \in [Links -> [Tags -> Seq(Messages)]], F[<<p, q>>][tag] # <<>>
        PROVE  [F EXCEPT ![<<p, q>>][tag] = Tail(@)] \in [Links -> [Tags -> Seq(Messages)]]
    <3>1. Tail(F[<<p, q>>][tag]) \in Seq(Messages)
      BY <1>5, <2>1, TailFacts
    <3>2. [F[<<p, q>>] EXCEPT ![tag] = Tail(@)] \in [Tags -> Seq(Messages)]
      BY <1>5, <3>1
    <3> QED
      BY <3>2
  <2>2. messages' \in [Links -> [Tags -> Seq(Messages)]]
    <3>1. messages[<<p, q>>][tag] # <<>>
      BY <1>1, <1>4 DEF Arrived
    <3> QED
      BY <1>5, <2>1, <3>1
  <2>3. receives' \in [Links -> [Tags -> Seq(Messages)]]
    <3>1. receives[<<p, q>>][tag] # <<>>
      BY <1>4, MatchActs, Zenon
    <3> QED
      BY <1>5, <2>1, <3>1
  <2>4. DOMAIN buffer' = Workers
    BY <1>1, <1>5 DEF Delivered
  <2>5. Types
    BY DEF IInv
  <2> QED
    BY <1>5, <2>2, <2>3, <2>4, <2>5 DEF Types
<1> QED
  BY <1>9, <1>10, <1>11, <1>12 DEF IInv

-----------------------------------------------------------------------------
(* The invariant.                                                          *)

LEMMA InitStreams ==
  ASSUME Init, NEW p \in Parties, NEW q \in Parties, NEW t \in Threads, NEW c \in Chunks
  PROVE  StreamInv(p, q, t, c) /\ ReceiveInv(p, q, t, c)
<1>1. /\ operation \in Operations
      /\ round[p] = 1 /\ pos[<<p, t>>] = Start(1, t) /\ call[<<p, t>>] = 1 /\ posted[<<p, t>>] = 0
      /\ round[q] = 1 /\ pos[<<q, t>>] = Start(1, t) /\ call[<<q, t>>] = 1 /\ posted[<<q, t>>] = 0
      /\ buffer[<<q, t>>] = <<>>
  BY DEF Init, Workers
<1>2. messages[<<p, q>>][Tag(t, c)] = <<>> /\ receives[<<p, q>>][Tag(t, c)] = <<>>
  <2>1. PICK tag \in Tags : tag = Tag(t, c)
    BY TagsApart
  <2> QED
    BY <2>1 DEF Init, Links
<1>3. c \in Nat /\ ~(posted[<<p, t>>] > c) /\ ~(posted[<<q, t>>] > c) /\ c \notin DOMAIN buffer[<<q, t>>]
  BY <1>1 DEF Chunks
<1>4. SendsTo(p, q, 0) = 0 /\ ReceivesFrom(q, p, 0) = 0
  BY <1>1, SendsCount, ReceivesCount
<1>5. PICK n \in Int : n = 1
  OBVIOUS
<1>6. n - 1 = 0 /\ n = call[<<p, t>>] /\ n = call[<<q, t>>]
  BY <1>1, <1>5
<1>7. \A r, i, k : Sent(p, q, t, c, r, i, k) <=> UpTo(r, i, k, round[p], pos[<<p, t>>], SendsTo(p, q, n - 1))
  BY <1>3, <1>6, SentNow, Zenon
<1>8. \A r, i, k : Taken(p, q, t, c, r, i, k) <=> UpTo(r, i, k, round[q], pos[<<q, t>>], ReceivesFrom(q, p, n - 1))
  BY <1>3, <1>6, TakenNow, Zenon
<1>9. ASSUME NEW r, NEW i, IsBatch(r, t, i), NEW k \in 1 .. PerBatch(p, q)
      PROVE  ~Sent(p, q, t, c, r, i, k) /\ ~Taken(p, q, t, c, r, i, k)
  <2>1. PICK start : start = Start(1, t)
    OBVIOUS
  <2>2. PICK most \in Nat : most = PerBatch(p, q)
    <3>1. Len(Calls[p]) \in 0 .. Len(Calls[p])
      BY <1>1, OperationFacts
    <3>2. PerBatch(p, q) \in Nat
      BY <1>1, <3>1, SendsCount DEF PerBatch
    <3> QED
      BY <3>2
  <2>3. r \in Nat \ {0} /\ i \in Nat /\ Start(r, t) \in Nat /\ Start(r, t) <= i
    BY <1>1, <1>9, BatchFacts
  <2>4. r = 1 => start \in Nat /\ start <= i
    BY <2>1, <2>3
  <2>5. k \in Nat /\ k >= 1
    BY <2>2
  <2>6. ~UpTo(r, i, k, 1, start, 0)
    BY <2>3, <2>4, <2>5 DEF UpTo
  <2>7. /\ Sent(p, q, t, c, r, i, k) <=> UpTo(r, i, k, 1, start, 0)
        /\ Taken(p, q, t, c, r, i, k) <=> UpTo(r, i, k, 1, start, 0)
    BY <1>1, <1>4, <1>6, <1>7, <1>8, <2>1, Zenon
  <2> QED
    BY <2>6, <2>7, Zenon
<1>10. Stream(<<>>, p, q, t, c)
  <2>1. 1 .. Len(<<>>) = {}
    OBVIOUS
  <2> QED
    BY <1>9, <2>1, Zenon DEF Stream
<1>11. ~Expects(p, q, t, c)
  BY <1>3 DEF Expects
<1> QED
  BY <1>2, <1>10, <1>11 DEF StreamInv, ReceiveInv

LEMMA InitHolds == ASSUME Init PROVE IInv
<1>1. Types
  <2>1. operation \in Operations
    BY DEF Init
  <2>2. \A w \in Workers : Start(1, w[2]) \in Nat
    BY <2>1, PartNumbers DEF Workers
  <2>3. [link \in Links |-> [tag \in Tags |-> <<>>]] \in [Links -> [Tags -> Seq(Messages)]]
    OBVIOUS
  <2> QED
    BY <2>1, <2>2, <2>3 DEF Init, Types
<1>2. ASSUME NEW p \in Parties, NEW t \in Threads
      PROVE  WorkerInv(p, t)
  <2>1. /\ operation \in Operations /\ buffer[<<p, t>>] = <<>>
        /\ round[p] = 1 /\ pos[<<p, t>>] = Start(1, t) /\ call[<<p, t>>] = 1 /\ posted[<<p, t>>] = 0
    BY DEF Init, Workers
  <2>2. Start(1, t) \in Nat
    BY <2>1, PartNumbers
  <2>3. Len(Totals) \in Nat /\ Len(Calls[p]) \in Nat \ {0}
    BY <2>1, OperationFacts
  <2>4. DOMAIN buffer[<<p, t>>] = {}
    BY <2>1
  <2>5. (pos[<<p, t>>] - Start(round[p], t)) % BatchSize = 0
    <3>1. PICK a \in Nat : a = Start(1, t)
      BY <2>2
    <3>2. a - a = 0 /\ BatchSize \in Nat \ {0} /\ 0 % BatchSize = 0
      BY CommunicatorAssumption
    <3> QED
      BY <2>1, <3>1, <3>2
  <2>6. round[p] \in 1 .. Len(Totals) + 1 /\ call[<<p, t>>] \in 1 .. Len(Calls[p])
    BY <2>1, <2>3
  <2>7. posted[<<p, t>>] \in 0 .. Factor
    BY <2>1, CommunicatorAssumption
  <2> QED
    BY <2>1, <2>2, <2>4, <2>5, <2>6, <2>7 DEF WorkerInv
<1> QED
  BY <1>1, <1>2, InitStreams DEF IInv

LEMMA StutterKeeps == ASSUME IInv, UNCHANGED vars PROVE IInv'
<1>1. /\ operation' = operation /\ round' = round /\ pos' = pos /\ call' = call /\ posted' = posted
      /\ buffer' = buffer /\ messages' = messages /\ receives' = receives
  BY DEF vars
<1>2. operation \in Operations
  BY DEF IInv, Types
<1>3. ASSUME NEW p \in Parties, NEW q \in Parties, NEW t \in Threads, NEW c \in Chunks
      PROVE  StreamInv(p, q, t, c)'
  <2>1. PICK queue : queue = messages[<<p, q>>][Tag(t, c)] /\ Stream(queue, p, q, t, c)
    BY DEF IInv, StreamInv
  <2>2. call[<<p, t>>] \in Int /\ call[<<q, t>>] \in Int
    BY CallNumbers
  <2>3. \A r, i, k : Sent(p, q, t, c, r, i, k)' <=> Sent(p, q, t, c, r, i, k)
    BY <1>1, <2>2, SameSent
  <2>4. \A r, i, k : Taken(p, q, t, c, r, i, k)' <=> Taken(p, q, t, c, r, i, k)
    BY <1>1, <2>2, SameTaken
  <2>5. Stream(queue, p, q, t, c)'
    BY <1>1, <1>2, <2>1, <2>3, <2>4, SameStream
  <2> QED
    BY <1>1, <2>1, <2>5 DEF StreamInv
<1>4. ASSUME NEW p \in Parties, NEW q \in Parties, NEW t \in Threads, NEW c \in Chunks
      PROVE  ReceiveInv(p, q, t, c)'
  <2>1. ReceiveInv(p, q, t, c)
    BY DEF IInv
  <2> QED
    BY <1>1, <2>1, SameReceive
<1>5. ASSUME NEW p \in Parties, NEW t \in Threads
      PROVE  WorkerInv(p, t)'
  <2>1. WorkerInv(p, t)
    BY DEF IInv
  <2> QED
    BY <1>1, <2>1, SameWorker
<1>6. Types'
  BY <1>1 DEF IInv, Types
<1> QED
  BY <1>3, <1>4, <1>5, <1>6 DEF IInv

\* Every step of a worker, of a party or of MPI keeps the streams in order.
LEMMA Step == IInv /\ [Next]_vars => IInv'
<1> SUFFICES ASSUME IInv, [Next]_vars PROVE IInv'
  OBVIOUS
<1>1. ASSUME NEW p \in Parties, NEW t \in Threads, Worker(p, t) \/ WaitBuffered(p, t)
      PROVE  IInv'
  BY <1>1, PostKeeps, LeaveKeeps DEF Worker, WaitMatched, WaitBuffered
<1>2. ASSUME NEW p \in Parties, NextRound(p) PROVE IInv'
  BY <1>2, RoundKeeps
<1>3. ASSUME NEW link \in Links, NEW tag \in Tags, Match(link, tag) PROVE IInv'
  <2>1. PICK p \in Parties, q \in Parties : link = <<p, q>>
    BY DEF Links
  <2>2. PICK t \in Threads, c \in Chunks : tag = Tag(t, c)
    BY DEF Tags, Chunks
  <2> QED
    BY <1>3, <2>1, <2>2, MatchKeeps
<1>4. CASE UNCHANGED vars
  BY <1>4, StutterKeeps
<1> QED
  BY <1>1, <1>2, <1>3, <1>4 DEF Next

\* The messages on the way from a thread of a party to a thread of another are
\* those the first has sent and the second has not received, in that order.
THEOREM Invariance == Spec => []IInv
<1>1. Init => IInv
  BY InitHolds
<1> QED
  BY <1>1, Step, PTL DEF Spec

-----------------------------------------------------------------------------
(* What the streams show.                                                  *)

LEMMA SizeFacts ==
  ASSUME IInv, NEW p \in Parties, NEW t \in Threads, Working(p, t)
  PROVE  Size(p, t) \in Nat
<1>1. IsBatch(round[p], t, pos[<<p, t>>]) /\ operation \in Operations
  BY WorkerFacts
<1>2. PICK i \in Nat, e \in Nat, b \in Nat :
        i = pos[<<p, t>>] /\ e = End(round[p], t) /\ b = BatchSize /\ i < e
  BY <1>1, BatchFacts, CommunicatorAssumption
<1> QED
  BY <1>2 DEF Size, BatchEnd

\* What has been received in chunk c of the call that thread t of party p is in.
LEMMA ReceivedFacts ==
  ASSUME IInv, NEW p \in Parties, NEW t \in Threads, NEW c \in DOMAIN buffer[<<p, t>>]
  PROVE  \E m, from :
           /\ m = buffer[<<p, t>>][c] /\ from = Call(p, t).from /\ from \in Parties
           /\ m = [party |-> from, thread |-> t, round |-> round[p], batch |-> pos[<<p, t>>],
                   call |-> m.call, chunk |-> c,
                   start |-> ChunkStart(Size(p, t), c), size |-> ChunkSize(Size(p, t), c)]
           /\ SendsTo(from, p, m.call) = ReceivesFrom(p, from, call[<<p, t>>])
<1>1. PICK m, from : m = buffer[<<p, t>>][c] /\ from = Call(p, t).from
  OBVIOUS
<1>2. WorkerInv(p, t)
  BY DEF IInv
<1>3. Fits(m, p, t, c) /\ from # NoParty
  BY <1>1, <1>2 DEF WorkerInv
<1>4. from \in Parties
  BY <1>1, <1>3, WorkerFacts
<1>5. /\ m = Content(from, t, c, round[p], pos[<<p, t>>], m.call)
      /\ SendsTo(from, p, m.call) = ReceivesFrom(p, from, call[<<p, t>>])
  BY <1>1, <1>3, Zenon DEF Fits
<1>6. PICK size, r, i : size = Size(p, t) /\ r = round[p] /\ i = pos[<<p, t>>]
  OBVIOUS
<1>7. ASSUME NEW n
      PROVE  Content(from, t, c, r, i, n)
               = [party |-> from, thread |-> t, round |-> r, batch |-> i, call |-> n, chunk |-> c,
                  start |-> ChunkStart(size, c), size |-> ChunkSize(size, c)]
  BY <1>6 DEF Content, Size
<1>8. m = [party |-> from, thread |-> t, round |-> r, batch |-> i, call |-> m.call, chunk |-> c,
           start |-> ChunkStart(size, c), size |-> ChunkSize(size, c)]
  BY <1>5, <1>6, <1>7, Zenon
<1> QED
  BY <1>1, <1>4, <1>5, <1>6, <1>8, Zenon

\* Nothing a thread receives was meant for another thread, batch or call.
THEOREM InPlaceTheorem == Spec => []ArrivesInPlace
<1>1. ASSUME IInv PROVE ArrivesInPlace
  <2> SUFFICES ASSUME NEW p \in Parties, NEW t \in Threads, NEW c \in DOMAIN buffer[<<p, t>>]
               PROVE  LET m == buffer[<<p, t>>][c]
                          from == Call(p, t).from
                      IN  /\ [m EXCEPT !.party = p, !.call = call[<<p, t>>]] = Request(p, t, c)
                          /\ m.party = from
                          /\ SendsTo(from, p, m.call) = ReceivesFrom(p, from, call[<<p, t>>])
    BY Zenon DEF ArrivesInPlace
  <2>1. PICK r, i, n, start, size :
          /\ r = round[p] /\ i = pos[<<p, t>>] /\ n = call[<<p, t>>]
          /\ start = ChunkStart(Size(p, t), c) /\ size = ChunkSize(Size(p, t), c)
    OBVIOUS
  <2>2. PICK m, from :
          /\ m = buffer[<<p, t>>][c] /\ from = Call(p, t).from
          /\ m = [party |-> from, thread |-> t, round |-> r, batch |-> i, call |-> m.call, chunk |-> c,
                  start |-> start, size |-> size]
          /\ SendsTo(from, p, m.call) = ReceivesFrom(p, from, n)
    BY <1>1, <2>1, ReceivedFacts
  <2>3. Request(p, t, c) = [party |-> p, thread |-> t, round |-> r, batch |-> i, call |-> n, chunk |-> c,
                            start |-> start, size |-> size]
    BY <2>1 DEF Request
  <2>4. PICK k : k = m.call
    OBVIOUS
  <2>5. m = [party |-> from, thread |-> t, round |-> r, batch |-> i, call |-> k, chunk |-> c,
             start |-> start, size |-> size]
    BY <2>2, <2>4
  <2>6. PICK o : o = [party |-> p, thread |-> t, round |-> r, batch |-> i, call |-> k, chunk |-> c,
                      start |-> start, size |-> size]
    OBVIOUS
  <2>7. [m EXCEPT !.party = p] = o
    BY <2>5, <2>6
  <2>8. [o EXCEPT !.call = n] = Request(p, t, c)
    BY <2>3, <2>6
  <2>9. [m EXCEPT !.party = p, !.call = n] = Request(p, t, c)
    BY <2>7, <2>8, Zenon
  <2>10. m.party = from
    BY <2>5
  <2> QED
    BY <2>1, <2>2, <2>9, <2>10, Zenon
<1> QED
  BY <1>1, Invariance, PTL

\* Every element of a vector is in one of its chunks and in no other.
LEMMA OneChunk ==
  ASSUME NEW size \in Nat, NEW e \in 0 .. size - 1
  PROVE  \E c0 \in Chunks : \A c \in Chunks :
           e \in ChunkStart(size, c) .. ChunkStart(size, c) + ChunkSize(size, c) - 1 <=> c = c0
<1>1. PICK F \in Nat \ {0} : F = Factor
  BY CommunicatorAssumption
<1>2. PICK d \in Nat : d = size \div F
  BY DivMod
<1>3. PICK last \in Nat : last = F - 1
  OBVIOUS
<1>4. ASSUME NEW c \in Chunks
      PROVE  c \in Nat /\ c <= last
  BY <1>1, <1>3 DEF Chunks
<1>5. PICK rest \in Nat : rest = last * d
  BY TimesNat
<1>6. ASSUME NEW c \in Chunks
      PROVE  /\ c = last => ChunkStart(size, c) = rest /\ ChunkSize(size, c) = size - rest
             /\ c # last => /\ ChunkStart(size, c) = c * d /\ ChunkSize(size, c) = d
                            /\ c * d \in Nat /\ c * d + d <= rest
  <2>1. ChunkStart(size, c) = c * d
    BY <1>1, <1>2 DEF ChunkStart
  <2>2. c = last => ChunkSize(size, c) = size - ChunkStart(size, c)
    BY <1>1, <1>3 DEF ChunkSize
  <2>3. c # last => ChunkSize(size, c) = d
    BY <1>1, <1>2, <1>3 DEF ChunkSize
  <2>4. c = last => c * d = rest
    BY <1>5
  <2>5. ASSUME c # last PROVE c * d \in Nat /\ c * d + d <= rest
    <3>1. c \in Nat /\ c + 1 \in Nat /\ c + 1 <= last
      BY <1>4, <2>5
    <3>2. (c + 1) * d <= last * d
      BY <3>1, TimesMono
    <3>3. (c + 1) * d = c * d + d
      BY <3>1
    <3> QED
      BY <1>5, <3>1, <3>2, <3>3, TimesNat
  <2> QED
    BY <2>1, <2>2, <2>3, <2>4, <2>5
<1>7. e \in Nat /\ e <= size - 1
  OBVIOUS
<1>8. CASE e >= rest
  <2>1. last \in Chunks
    BY <1>1, <1>3 DEF Chunks
  <2>2. ASSUME NEW c \in Chunks
        PROVE  e \in ChunkStart(size, c) .. ChunkStart(size, c) + ChunkSize(size, c) - 1 <=> c = last
    <3>1. CASE c = last
      <4>1. ChunkStart(size, c) = rest /\ ChunkSize(size, c) = size - rest
        BY <1>6, <3>1
      <4> QED
        BY <1>7, <1>8, <3>1, <4>1
    <3>2. CASE c # last
      <4>1. PICK x \in Nat : x = c * d /\ x + d <= rest
        BY <1>6, <3>2
      <4>2. ChunkStart(size, c) = x /\ ChunkSize(size, c) = d
        BY <1>6, <3>2, <4>1
      <4> QED
        BY <1>7, <1>8, <3>2, <4>1, <4>2
    <3> QED
      BY <3>1, <3>2
  <2> QED
    BY <2>1, <2>2
<1>9. CASE e < rest
  <2>1. d # 0
    BY <1>5, <1>9
  <2>2. PICK c0 \in Nat, r \in 0 .. d - 1 : c0 = e \div d /\ e = d * c0 + r
    BY <1>7, <2>1, DivMod
  <2>3. c0 < last
    <3>1. SUFFICES ASSUME c0 >= last PROVE FALSE
      OBVIOUS
    <3>2. last * d <= c0 * d
      BY <3>1, TimesMono
    <3>3. PICK x \in Nat : x = c0 * d
      BY TimesNat
    <3>4. d * c0 = x
      BY <3>3
    <3> QED
      BY <1>5, <1>9, <2>2, <3>2, <3>3, <3>4
  <2>4. c0 \in Chunks /\ c0 # last
    BY <1>1, <1>3, <2>3 DEF Chunks
  <2>5. ASSUME NEW c \in Chunks
        PROVE  e \in ChunkStart(size, c) .. ChunkStart(size, c) + ChunkSize(size, c) - 1 <=> c = c0
    <3>1. CASE c = last
      <4>1. ChunkStart(size, c) = rest
        BY <1>6, <3>1
      <4> QED
        BY <1>7, <1>9, <2>4, <3>1, <4>1
    <3>2. CASE c # last
      <4>1. PICK x \in Nat : x = c * d /\ ChunkStart(size, c) = x /\ ChunkSize(size, c) = d
        BY <1>6, <3>2
      <4>2. e \in x .. x + d - 1 => c = c0
        <5>1. SUFFICES ASSUME e \in x .. x + d - 1 PROVE c = c0
          OBVIOUS
        <5>2. PICK z \in 0 .. d - 1 : e = x + z
          <6>1. e - x \in 0 .. d - 1 /\ e = x + (e - x)
            BY <1>7, <5>1
          <6> QED
            BY <6>1
        <5>3. e = d * c + z /\ c \in Int /\ e \in Int /\ d \in Nat \ {0}
          BY <1>4, <1>7, <2>1, <4>1, <5>2
        <5> QED
          BY <2>2, <5>3, DivUnique
      <4>3. c = c0 => e \in x .. x + d - 1
        <5>1. c = c0 => d * c0 = x
          BY <4>1
        <5> QED
          BY <2>2, <5>1
      <4> QED
        BY <4>1, <4>2, <4>3
    <3> QED
      BY <3>1, <3>2
  <2> QED
    BY <2>4, <2>5
<1> QED
  BY <1>5, <1>7, <1>8, <1>9

\* A receive that returns has filled the whole vector, and nothing twice.
THEOREM WholeTheorem == Spec => []ReceivedWhole
<1>1. ASSUME IInv, NEW p \in Parties, NEW t \in Threads,
             Working(p, t), Call(p, t).from # NoParty, ReceivesDone(p, t),
             NEW e \in 0 .. Size(p, t) - 1
      PROVE  Cardinality({c \in DOMAIN buffer[<<p, t>>] :
               e \in buffer[<<p, t>>][c].start
                       .. buffer[<<p, t>>][c].start + buffer[<<p, t>>][c].size - 1}) = 1
  <2>1. PICK size \in Nat : size = Size(p, t)
    BY <1>1, SizeFacts
  <2>2. DOMAIN buffer[<<p, t>>] = Chunks
    BY <1>1 DEF ReceivesDone, Chunks
  <2>3. ASSUME NEW c \in Chunks
        PROVE  /\ buffer[<<p, t>>][c].start = ChunkStart(size, c)
               /\ buffer[<<p, t>>][c].size = ChunkSize(size, c)
    BY <1>1, <2>1, <2>2, ReceivedFacts
  <2>4. e \in 0 .. size - 1
    BY <1>1, <2>1
  <2>5. PICK c0 \in Chunks : \A c \in Chunks :
          e \in ChunkStart(size, c) .. ChunkStart(size, c) + ChunkSize(size, c) - 1 <=> c = c0
    BY <2>4, OneChunk
  <2>6. {c \in DOMAIN buffer[<<p, t>>] :
           e \in buffer[<<p, t>>][c].start
                   .. buffer[<<p, t>>][c].start + buffer[<<p, t>>][c].size - 1} = {c0}
    BY <2>2, <2>3, <2>5
  <2> QED
    BY <2>6, FS_Singleton
<1>2. IInv => ReceivedWhole
  BY <1>1 DEF ReceivedWhole
<1> QED
  BY <1>2, Invariance, PTL

\* When all parallel calls have returned nothing is left on the way.
THEOREM NothingLeftTheorem == Spec => []NothingLeft
<1>1. ASSUME IInv, AllReturned, NEW p \in Parties, NEW q \in Parties, NEW t \in Threads, NEW c \in Chunks
      PROVE  messages[<<p, q>>][Tag(t, c)] = <<>> /\ receives[<<p, q>>][Tag(t, c)] = <<>>
  <2>1. StreamInv(p, q, t, c) /\ ReceiveInv(p, q, t, c)
    BY <1>1 DEF IInv
  <2>2. PICK r \in Nat, n \in Nat : r = round[q] /\ n = Len(Totals) /\ r > n /\ operation \in Operations
    <3>1. Len(Totals) \in Nat /\ operation \in Operations /\ round[q] \in 1 .. Len(Totals) + 1
      BY <1>1, WorkerFacts
    <3> QED
      BY <1>1, <3>1 DEF AllReturned
  <2>3. ~Expects(p, q, t, c)
    BY <2>2 DEF Expects, Working
  <2>4. receives[<<p, q>>][Tag(t, c)] = <<>>
    BY <2>1, <2>3 DEF ReceiveInv
  <2>5. PICK queue : queue = messages[<<p, q>>][Tag(t, c)] /\ Stream(queue, p, q, t, c)
    BY <2>1 DEF StreamInv
  <2>6. queue \in Seq(Messages)
    <3>1. Tag(t, c) \in Tags
      BY TagsApart
    <3> QED
      BY <1>1, <2>5, <3>1 DEF IInv, Types, Links
  <2>7. ~(1 \in 1 .. Len(queue))
    <3>1. SUFFICES ASSUME 1 \in 1 .. Len(queue) PROVE FALSE
      OBVIOUS
    <3>2. PICK m : m = queue[1] /\ Waits(m, p, q, t, c)
      BY <2>5, <3>1, Zenon DEF Stream
    <3>3. m.round \in 1 .. n
      BY <2>2, <3>2 DEF Waits, IsBatch
    <3>4. m.round < round[q]
      BY <2>2, <3>3
    <3>5. PICK k : ~Taken(p, q, t, c, m.round, m.batch, k)
      BY <3>2, Zenon DEF Waits
    <3> QED
      BY <3>4, <3>5, Zenon DEF Taken, UpTo
  <2>8. queue = <<>>
    BY <2>6, <2>7
  <2> QED
    BY <2>4, <2>5, <2>8
<1>2. ASSUME IInv, AllReturned, NEW link \in Links, NEW tag \in Tags
      PROVE  messages[link][tag] = <<>> /\ receives[link][tag] = <<>>
  <2>1. PICK p \in Parties, q \in Parties : link = <<p, q>>
    BY DEF Links
  <2>2. PICK t \in Threads, c \in Chunks : tag = Tag(t, c)
    BY DEF Tags, Chunks
  <2> QED
    BY <1>1, <1>2, <2>1, <2>2
<1>3. IInv => NothingLeft
  BY <1>2 DEF NothingLeft
<1> QED
  BY <1>3, Invariance, PTL

==============================================================================
