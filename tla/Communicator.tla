----------------------------- MODULE Communicator -----------------------------
(***************************************************************************)
(* The communicators of a run: one MPICommunicator per worker thread of    *)
(* every party (core/communication/mpi_communicator.h), all on the same    *)
(* MPI_COMM_WORLD and told apart only by their message tags, used by the   *)
(* tasks of a RunTime (service/common/runtime.h).                          *)
(*                                                                         *)
(* Every party makes the same parallel calls, one per vector size in       *)
(* totals, each at its own pace.  A worker walks over its part of the      *)
(* vector in batches and makes the communicator calls of the operation for *)
(* every batch; the next parallel call begins when all workers are done    *)
(* (RunTimePool).  A call cuts the batch into parallelism_factor chunks    *)
(* and posts a non-blocking receive and send for every chunk under a tag   *)
(* of its own, then waits for all of them.                                 *)
(*                                                                         *)
(* MPI matches messages and receives of a pair of processes and a tag in   *)
(* the order they were posted.  It may complete a send by copying the      *)
(* message, but only completes it for certain when it is matched.          *)
(***************************************************************************)
EXTENDS BatchBoundary, Sequences, FiniteSets

CONSTANTS
  PartiesNum,   \* numParties
  ThreadsNum,   \* RunTime::threads_num
  BatchSize,    \* RunTime::batch_size
  Factor,       \* parallelism_factor
  Operations    \* what the parties may do: the sizes of the vectors of the
                \* parallel calls made, and party -> the communicator calls of
                \* each, [to, from]

Parties == 0 .. PartiesNum - 1
Threads == 0 .. ThreadsNum - 1
NoParty == PartiesNum

ASSUME CommunicatorAssumption ==
  /\ PartiesNum \in Nat \ {0}
  /\ ThreadsNum \in Nat \ {0}
  /\ BatchSize \in Nat \ {0}
  /\ Factor \in 1 .. 10   \* more chunks would use the tags of the next thread
  /\ \A o \in Operations :
       /\ o.totals \in Seq(Nat)
       /\ \A p \in Parties :
            /\ o.calls[p] \in Seq([to : Parties \cup {NoParty}, from : Parties \cup {NoParty}])
            /\ o.calls[p] # <<>>
       \* A party sends another what that one hears from it.
       /\ \A p, q \in Parties :
            Cardinality({n \in 1 .. Len(o.calls[p]) : o.calls[p][n].to = q})
              = Cardinality({n \in 1 .. Len(o.calls[q]) : o.calls[q][n].from = p})

VARIABLES
  operation,  \* what they do
  round,      \* party -> the parallel call it is in
  pos,        \* party, thread -> loop variable i of Task::execute
  call,       \* party, thread -> the communicator call it is in
  posted,     \* party, thread -> chunks whose requests this call has posted
  buffer,     \* party, thread -> chunk -> the message received into it
  messages,   \* <<from, to>>, tag -> messages sent and not matched
  receives    \* <<from, to>>, tag -> receives posted and not matched

vars == <<operation, round, pos, call, posted, buffer, messages, receives>>

\* new Communicator(rank, parties, 700 + (i*10), p_factor)
Fault_BaseTag(t) == 700   \* fault: one tag for all threads
BaseTag(t) == 700 + t * 10
Tag(t, chunk) == BaseTag(t) + chunk
Tags == {Tag(t, chunk) : t \in Threads, chunk \in 0 .. Factor - 1}
Links == Parties \X Parties

Workers == Parties \X Threads

Calls == operation.calls
Totals == operation.totals

Start(r, t) == IF r <= Len(Totals) THEN StartInd(Totals[r], BatchSize, t, ThreadsNum) ELSE 0
End(r, t)   == IF r <= Len(Totals) THEN EndInd(Totals[r], BatchSize, t, ThreadsNum) ELSE 0

\* A vector's chunks: the last one takes what the division leaves.
ChunkStart(size, chunk) == chunk * (size \div Factor)
Fault_ChunkSize(size, chunk) == size \div Factor   \* fault: the rest is forgotten
ChunkSize(size, chunk) ==
  IF chunk = Factor - 1 THEN size - ChunkStart(size, chunk) ELSE size \div Factor

Init ==
  /\ operation \in Operations
  /\ round = [p \in Parties |-> 1]
  /\ pos = [w \in Workers |-> Start(1, w[2])]
  /\ call = [w \in Workers |-> 1]
  /\ posted = [w \in Workers |-> 0]
  /\ buffer = [w \in Workers |-> <<>>]
  /\ messages = [link \in Links |-> [tag \in Tags |-> <<>>]]
  /\ receives = [link \in Links |-> [tag \in Tags |-> <<>>]]

-----------------------------------------------------------------------------
(* Thread t of party p.                                                    *)

\* The batch it works on and the call it is in.
Working(p, t) == round[p] <= Len(Totals) /\ pos[<<p, t>>] < End(round[p], t)
Size(p, t) == BatchEnd(pos[<<p, t>>], BatchSize, End(round[p], t)) - pos[<<p, t>>]
Call(p, t) == Calls[p][call[<<p, t>>]]

\* A message and a receive carry what they are for, to be compared.
Request(p, t, chunk) ==
  [party |-> p, thread |-> t, round |-> round[p], batch |-> pos[<<p, t>>], call |-> call[<<p, t>>],
   chunk |-> chunk,
   start |-> ChunkStart(Size(p, t), chunk), size |-> ChunkSize(Size(p, t), chunk)]

\* Fault: the receive of every chunk has the tag of the first.
Fault_PostReceive(p, t, from, chunk) ==
  receives' = IF from = NoParty THEN receives
              ELSE [receives EXCEPT ![<<from, p>>][Tag(t, 0)] =
                      Append(@, Request(p, t, chunk))]

PostReceive(p, t, from, chunk) ==
  receives' = IF from = NoParty THEN receives
              ELSE [receives EXCEPT ![<<from, p>>][Tag(t, chunk)] =
                      Append(@, Request(p, t, chunk))]

PostSend(p, t, to, chunk) ==
  messages' = IF to = NoParty THEN messages
              ELSE [messages EXCEPT ![<<p, to>>][Tag(t, chunk)] =
                      Append(@, Request(p, t, chunk))]

\* MPI_Irecv and MPI_Isend of the next chunk.
PostChunk(p, t) ==
  /\ Working(p, t)
  /\ posted[<<p, t>>] < Factor
  /\ PostReceive(p, t, Call(p, t).from, posted[<<p, t>>])
  /\ PostSend(p, t, Call(p, t).to, posted[<<p, t>>])
  /\ posted' = [posted EXCEPT ![<<p, t>>] = @ + 1]
  /\ UNCHANGED <<operation, round, pos, call, buffer>>

\* Fault: the last receive is not waited for.
Fault_ReceivesDone(p, t) ==
  Call(p, t).from # NoParty => 0 .. Factor - 2 \subseteq DOMAIN buffer[<<p, t>>]

ReceivesDone(p, t) ==
  Call(p, t).from # NoParty => DOMAIN buffer[<<p, t>>] = 0 .. Factor - 1

SendsMatched(p, t) ==
  \A to \in Parties : \A tag \in Tags : \A n \in DOMAIN messages[<<p, to>>][tag] :
    messages[<<p, to>>][tag][n].thread # t

\* The call returns, to the next call or to the next batch.
LeaveCall(p, t) ==
  /\ Working(p, t)
  /\ posted[<<p, t>>] = Factor
  /\ ReceivesDone(p, t)
  /\ IF call[<<p, t>>] < Len(Calls[p])
     THEN /\ call' = [call EXCEPT ![<<p, t>>] = @ + 1]
          /\ UNCHANGED pos
     ELSE /\ call' = [call EXCEPT ![<<p, t>>] = 1]
          /\ pos' = [pos EXCEPT ![<<p, t>>] = @ + BatchSize]
  /\ posted' = [posted EXCEPT ![<<p, t>>] = 0]
  /\ buffer' = [buffer EXCEPT ![<<p, t>>] = <<>>]
  /\ UNCHANGED <<operation, round, messages, receives>>

\* Every MPI_Wait returns: all its sends are matched, or MPI copied them.
WaitMatched(p, t) == SendsMatched(p, t) /\ LeaveCall(p, t)
WaitBuffered(p, t) == ~SendsMatched(p, t) /\ LeaveCall(p, t)

\* The parallel call of party p returns and it makes the next one.
NextRound(p) ==
  /\ round[p] <= Len(Totals)
  /\ \A t \in Threads : ~Working(p, t)
  /\ round' = [round EXCEPT ![p] = @ + 1]
  /\ pos' = [w \in Workers |-> IF w[1] = p THEN Start(round[p] + 1, w[2]) ELSE pos[w]]
  /\ UNCHANGED <<operation, call, posted, buffer, messages, receives>>

-----------------------------------------------------------------------------

\* What has been received, with a message for one more chunk.
Fill(chunks, chunk, message) ==
  [c \in DOMAIN chunks \cup {chunk} |-> IF c = chunk THEN message ELSE chunks[c]]

\* MPI matches the oldest message of a link and tag with the oldest receive.
Match(link, tag) ==
  /\ messages[link][tag] # <<>>
  /\ receives[link][tag] # <<>>
  /\ LET message == Head(messages[link][tag])
         receive == Head(receives[link][tag])
         w       == <<receive.party, receive.thread>>
     IN  buffer' = [buffer EXCEPT ![w] = Fill(@, receive.chunk, message)]
  /\ messages' = [messages EXCEPT ![link][tag] = Tail(@)]
  /\ receives' = [receives EXCEPT ![link][tag] = Tail(@)]
  /\ UNCHANGED <<operation, round, pos, call, posted>>

Worker(p, t) == PostChunk(p, t) \/ WaitMatched(p, t)

Next ==
  \/ \E p \in Parties, t \in Threads : Worker(p, t) \/ WaitBuffered(p, t)
  \/ \E p \in Parties : NextRound(p)
  \/ \E link \in Links, tag \in Tags : Match(link, tag)

Spec == Init /\ [][Next]_vars

\* Threads run and MPI makes progress; that it buffers is not relied upon.
Fairness ==
  /\ \A p \in Parties, t \in Threads : WF_vars(Worker(p, t))
  /\ \A p \in Parties : WF_vars(NextRound(p))
  /\ \A link \in Links, tag \in Tags : WF_vars(Match(link, tag))

FairSpec == Spec /\ Fairness

-----------------------------------------------------------------------------
(* Properties.                                                             *)

\* How many of the first c calls of party p send to, or hear from, party q.
SendsTo(p, q, c) == Cardinality({n \in 1 .. c : Calls[p][n].to = q})
ReceivesFrom(p, q, c) == Cardinality({n \in 1 .. c : Calls[p][n].from = q})

\* Everything a thread receives was sent by the same thread of the party it
\* wanted to hear from, for the same batch of the same parallel call, by the
\* matching communicator call, and is the chunk of the buffer it is put in:
\* however far ahead or behind the other party and the other threads are, no
\* message is taken for another.
ArrivesInPlace ==
  \A p \in Parties, t \in Threads : \A chunk \in DOMAIN buffer[<<p, t>>] :
    LET message == buffer[<<p, t>>][chunk]
        from    == Call(p, t).from
    IN  /\ [message EXCEPT !.party = p, !.call = call[<<p, t>>]] = Request(p, t, chunk)
        /\ message.party = from
        /\ SendsTo(from, p, message.call) = ReceivesFrom(p, from, call[<<p, t>>])

\* When a receive returns the whole vector has been received, no element
\* twice, for every size and number of chunks.
ReceivedWhole ==
  \A p \in Parties, t \in Threads :
    Working(p, t) /\ Call(p, t).from # NoParty /\ ReceivesDone(p, t) =>
      \A e \in 0 .. Size(p, t) - 1 :
        Cardinality({chunk \in DOMAIN buffer[<<p, t>>] :
          LET message == buffer[<<p, t>>][chunk]
          IN  e \in message.start .. message.start + message.size - 1}) = 1

AllReturned == \A p \in Parties : round[p] > Len(Totals)

\* When all parallel calls have returned no message and no receive is left.
NothingLeft ==
  AllReturned =>
    \A link \in Links, tag \in Tags :
      messages[link][tag] = <<>> /\ receives[link][tag] = <<>>

\* No call blocks for ever, even if MPI buffers nothing: workers of all
\* parties get through all their batches and all parallel calls return.
AllCallsReturn == <>AllReturned
===============================================================================
