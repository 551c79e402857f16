---------------------------- MODULE BatchBoundary ----------------------------
(***************************************************************************)
(* How one vector is divided over the worker threads and batches of a      *)
(* RunTime (service/common/runtime.h, getThreadBatchBoundary) and how a    *)
(* worker walks over its part (service/common/task.h, Task*::execute).     *)
(*                                                                         *)
(* total is the vector's total_size(), batch the RunTime's batch_size, n   *)
(* its threads_num and i a thread index.  All are C ints; the divisions    *)
(* are of a non-negative by a positive number, where C's and TLA+'s agree. *)
(***************************************************************************)
EXTENDS Integers

\* Fault_... operators, here and in the other modules, are a definition with
\* a bug seeded, for showing that a run would notice it.

\* Fault: the batches left over by the division all go to the last thread.
Fault_RemainingBatches(total, batch, n) == 0

\* Full batches a thread gets before the remainder is handed out, and the
\* number of threads that get one more.
ThreadBatches(total, batch, n)    == (total \div batch) \div n
RemainingBatches(total, batch, n) == (total \div batch) % n

\* Fault: > for >=, one thread too many gets an extra batch.
Fault_ThisThreadBatches(total, batch, i, n) ==
  IF i > RemainingBatches(total, batch, n)
  THEN ThreadBatches(total, batch, n)
  ELSE ThreadBatches(total, batch, n) + 1

ThisThreadBatches(total, batch, i, n) ==
  IF i >= RemainingBatches(total, batch, n)
  THEN ThreadBatches(total, batch, n)
  ELSE ThreadBatches(total, batch, n) + 1

PreviousBatches(total, batch, i, n) ==
  i * ThreadBatches(total, batch, n)
    + (IF i >= RemainingBatches(total, batch, n)
       THEN RemainingBatches(total, batch, n)
       ELSE i)

StartInd(total, batch, i, n) == PreviousBatches(total, batch, i, n) * batch

\* The last thread also takes the elements after the last full batch.
EndInd(total, batch, i, n) ==
  IF i = n - 1
  THEN total
  ELSE StartInd(total, batch, i, n) + ThisThreadBatches(total, batch, i, n) * batch

\* std::min(i + batch_size, end): where the batch that begins at pos stops.
BatchEnd(pos, batch, end) == IF pos + batch < end THEN pos + batch ELSE end

\* The elements func is applied to when a task's loop variable is at pos.
Window(pos, batch, end) == pos .. BatchEnd(pos, batch, end) - 1

\* The elements thread i is responsible for.
Part(total, batch, i, n) == StartInd(total, batch, i, n) .. EndInd(total, batch, i, n) - 1

-----------------------------------------------------------------------------
(* Properties, for the sizes a run or a theorem quantifies over.           *)

\* The parts cover the vector and no element is in two of them: the threads
\* together process what one thread would, and never the same element.
PartsPartition(total, batch, n) ==
  /\ \A i \in 0 .. n - 1 : Part(total, batch, i, n) \subseteq 0 .. total - 1
  /\ \A e \in 0 .. total - 1 :
       \E i \in 0 .. n - 1 :
         /\ e \in Part(total, batch, i, n)
         /\ \A j \in 0 .. n - 1 : e \in Part(total, batch, j, n) => j = i

\* Threads other than the last only get full batches, and no thread gets two
\* batches more than another: the last has less than one batch on top.
PartsBalanced(total, batch, n) ==
  \A i, j \in 0 .. n - 1 :
    LET length(k) == EndInd(total, batch, k, n) - StartInd(total, batch, k, n)
    IN  /\ i # n - 1 => length(i) % batch = 0
        /\ length(i) < length(j) + 2 * batch
==============================================================================
