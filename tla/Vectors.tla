------------------------------- MODULE Vectors -------------------------------
(***************************************************************************)
(* A plaintext vector (core/containers/vector.h): the views that are taken *)
(* of it and of each other, an assignment to a view that the threads of a  *)
(* RunTime divide among them, each batch by batch, and the compression of  *)
(* the bits of its elements for a message.                                 *)
(***************************************************************************)
EXTENDS Views, BatchBoundary, BitCompression

CONSTANTS
  Sizes,        \* of the vector
  BatchSizes, ThreadsNums,
  WordBits,     \* in an element
  MaxViews      \* how many views are taken, of each other

ASSUME VectorsAssumption ==
  /\ Sizes \cup BatchSizes \cup ThreadsNums \cup {WordBits} \subseteq Nat \ {0}
  /\ MaxViews \in Nat

VARIABLES
  elements,       \* the storage: the index, in the view, of what was assigned
  view, base,     \* the view, and what it was taken of
  taken,          \* how it was taken, one record for each view
  batch_size, threads_num,
  pos             \* thread -> index its next batch begins at; <<>> before the call

vars == <<elements, view, base, taken, batch_size, threads_num, pos>>

Threads == 0 .. threads_num - 1
Unassigned == -1

Init ==
  /\ \E size \in Sizes :
       /\ elements = [e \in 0 .. size - 1 |-> Unassigned]
       /\ view = Whole(size)
  /\ base = view
  /\ taken = [op |-> "whole", repeats |-> FALSE, views |-> 0]
  /\ batch_size \in BatchSizes
  /\ threads_num \in ThreadsNums
  /\ pos = <<>>

Take(op, arguments, next) ==
  /\ pos = <<>>
  /\ taken.views < MaxViews
  /\ base' = view
  /\ view' = next
  /\ taken' = [op |-> op, arguments |-> arguments, views |-> taken.views + 1,
               repeats |-> taken.repeats \/ op \in {"repeated", "cyclic"}]
  /\ UNCHANGED <<elements, batch_size, threads_num, pos>>

Simple ==
  \E start, end \in DOMAIN view, step \in 1 .. 3 :
    /\ start <= end
    /\ Take("simple", <<start, step, end>>, simple_subset_reference(view, start, step, end))

Alternating ==
  \E included \in 1 .. 3, excluded \in 0 .. 2 :
    Take("alternating", <<included, excluded>>,
         alternating_subset_reference(view, included, excluded))

ReversedAlternating ==
  \E included \in 1 .. 3, excluded \in 0 .. 2 :
    Take("reversed", <<included, excluded>>,
         reversed_alternating_subset_reference(view, included, excluded))

Directed == Take("directed", <<>>, directed_subset_reference(view))
Repeated == Take("repeated", <<2>>, repeated_subset_reference(view, 2))
Cyclic == Take("cyclic", <<2>>, cyclic_subset_reference(view, 2))

\* modify_parallel of an assignment: every thread gets a copy of the view.
ModifyParallel ==
  /\ pos = <<>>
  /\ pos' = [t \in Threads |-> StartInd(Size(view), batch_size, t, threads_num)]
  /\ UNCHANGED <<elements, view, base, taken, batch_size, threads_num>>

End(t) == EndInd(Size(view), batch_size, t, threads_num)

\* Fault: the batch of what is assigned to is not set.
Fault_AssignBatch(t) ==
  /\ pos # <<>>
  /\ pos[t] < End(t)
  /\ LET batch == Window(pos[t], batch_size, End(t))
     IN  elements' = Write(elements, [n \in batch |-> view[n - pos[t]]], [n \in batch |-> n])
  /\ pos' = [pos EXCEPT ![t] = BatchEnd(pos[t], batch_size, End(t))]
  /\ UNCHANGED <<view, base, taken, batch_size, threads_num>>

\* set_batch on the copy, and operator= on the batch, element by element.
AssignBatch(t) ==
  /\ pos # <<>>
  /\ pos[t] < End(t)
  /\ LET batch == Window(pos[t], batch_size, End(t))
     IN  elements' = Write(elements, [n \in batch |-> view[n]], [n \in batch |-> n])
  /\ pos' = [pos EXCEPT ![t] = BatchEnd(pos[t], batch_size, End(t))]
  /\ UNCHANGED <<view, base, taken, batch_size, threads_num>>

Returned == pos # <<>> /\ \A t \in Threads : pos[t] >= End(t)
Done == Returned /\ UNCHANGED vars

Next ==
  \/ Simple
  \/ Alternating
  \/ ReversedAlternating
  \/ Directed
  \/ Repeated
  \/ Cyclic
  \/ ModifyParallel
  \/ \E t \in Threads : AssignBatch(t)
  \/ Done

Spec == Init /\ [][Next]_vars

-----------------------------------------------------------------------------
\* getThreadBatchBoundary gives every index of the view to exactly one thread.
Partition == PartsPartition(Size(view), batch_size, threads_num)

\* getThreadBatchBoundary gives no thread two batches more than another.
Balanced == PartsBalanced(Size(view), batch_size, threads_num)

\* The indices of the base a view is documented to show, in their order: for
\* the alternating views, those in the included part of each chunk, of the last
\* chunk as many as there are, which the reversed one shows chunk by chunk from
\* the last one down.
Shows(n, m) ==
  LET arguments == taken.arguments
      chunk(k) == k \div (arguments[1] + arguments[2])
  IN  CASE taken.op = "directed" -> n > m
        [] taken.op = "reversed" -> IF chunk(n) = chunk(m) THEN n > m ELSE n < m
        [] OTHER -> n < m

Shown ==
  LET arguments == taken.arguments
  IN  CASE taken.op = "simple" ->
             {n \in DOMAIN base : /\ n >= arguments[1] /\ n <= arguments[3]
                                  /\ (n - arguments[1]) % arguments[2] = 0}
        [] taken.op \in {"alternating", "reversed"} ->
             {n \in DOMAIN base : n % (arguments[1] + arguments[2]) < arguments[1]}
        [] OTHER -> DOMAIN base

\* A view shows what it is documented to show of what it was taken of, in that
\* order, and a view of views each element at most once, unless it repeats them:
\* operators that assign to one view what they read through another, like the
\* exchange of a sort, have no other protection against lost elements.
ViewsShow ==
  /\ \A n \in DOMAIN view : view[n] \in DOMAIN elements
  /\ ~taken.repeats => \A n, m \in DOMAIN view : view[n] = view[m] => n = m
  /\ (~taken.repeats /\ taken.op # "whole") =>
       /\ {view[n] : n \in DOMAIN view} = {base[at] : at \in Shown}
       /\ \A n, m \in DOMAIN view, at, after \in Shown :
            (n < m /\ base[at] = view[n] /\ base[after] = view[m]) => Shows(at, after)

\* What the threads have done of their parts at any time, in any order, is
\* assigned, each element what was assigned to an index that shows it, and no
\* element besides those shown by what they have done.
AssignedThroughView ==
  pos # <<>> =>
    LET done == UNION {StartInd(Size(view), batch_size, t, threads_num) .. pos[t] - 1 : t \in Threads}
    IN  \A e \in DOMAIN elements :
          LET showing == {n \in done : view[n] = e}
          IN  IF showing = {} THEN elements[e] = Unassigned ELSE elements[e] \in showing

\* Vectors of every size compress and get their bits back; nothing but the
\* size matters.
CompressedReturns ==
  (taken.views = 0 /\ pos = <<>>) => BitsReturn(Size(view), WordBits)
==============================================================================
