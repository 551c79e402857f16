----------------------------- MODULE RunTimePool -----------------------------
(***************************************************************************)
(* The thread pool of a RunTime (service/common/runtime.h): the main       *)
(* thread, threads_num workers and, per worker, three std::mutex objects   *)
(* that are locked by one thread and unlocked by another.                  *)
(*                                                                         *)
(* Every parallel entry point (the runtime_evaluate_using_objects macros,  *)
(* execute_parallel, modify_parallel, communicate_parallel and             *)
(* generate_parallel) hands one task per worker over in the same steps, so *)
(* they are one set of actions here.  What a task computes is abstracted   *)
(* to how often func was applied to each element of the vector.            *)
(*                                                                         *)
(* A mutex is its locked bit: lock() waits for the bit to be clear and     *)
(* sets it, whoever set it before; unlock() clears it, whoever set it and  *)
(* even when it is clear.  That is what the pthread mutex behind           *)
(* std::mutex does here; the C++ standard leaves both uses undefined.      *)
(***************************************************************************)
EXTENDS BatchBoundary, FiniteSets

CONSTANTS
  ThreadsNum,   \* RunTime::threads_num
  BatchSize,    \* RunTime::batch_size
  Sizes,        \* the total sizes of the vectors the program works on
  MaxCalls      \* bound: parallel calls made in a run of the program

ASSUME PoolAssumption ==
  /\ ThreadsNum \in Nat \ {0}
  /\ BatchSize \in Nat \ {0}
  /\ Sizes \subseteq Nat
  /\ MaxCalls \in Nat

Threads == 0 .. ThreadsNum - 1

NoTask == [call |-> 0, start |-> 0, end |-> 0]   \* an empty unique_ptr<Task>

VARIABLES
  mainPc,       \* next statement of the main thread
  ind,          \* its loop variable (thread_ind or i)
  calls,        \* parallel calls begun so far
  total,        \* x.total_size() of the current call
  applied,      \* element -> applications of func to it by the current call
  workerPc,     \* worker -> next statement of its lambda
  pos,          \* worker -> loop variable i of Task::execute
  tasks,        \* worker -> the task it was given
  setLocked, executeLocked, finishedLocked,   \* worker -> is the mutex locked?
  counter,      \* workers that have not taken their first two locks
  keepRunning   \* RunTime::keep_running

mainVars  == <<mainPc, ind, calls, total>>
mutexVars == <<setLocked, executeLocked, finishedLocked>>
vars == <<mainVars, applied, workerPc, pos, tasks, mutexVars, counter, keepRunning>>

MainPcs == {"spawn", "spin", "idle", "set", "reset", "assign", "execute",
            "wait", "stop", "join", "end"}
WorkerPcs == {"unborn", "lockFinished", "lockExecute", "ready", "block", "test",
              "run", "unlockFinished", "unlockSet", "exited"}

Elements(size) == 0 .. size - 1

Init ==
  /\ mainPc = "spawn"
  /\ ind = 0
  /\ calls = 0
  /\ total = 0
  /\ applied = [e \in Elements(0) |-> 0]
  /\ workerPc = [i \in Threads |-> "unborn"]
  /\ pos = [i \in Threads |-> 0]
  /\ tasks = [i \in Threads |-> NoTask]
  /\ setLocked = [i \in Threads |-> FALSE]
  /\ executeLocked = [i \in Threads |-> FALSE]
  /\ finishedLocked = [i \in Threads |-> FALSE]
  /\ counter = ThreadsNum
  /\ keepRunning = TRUE

-----------------------------------------------------------------------------
(* The main thread.                                                        *)

\* End of a loop over the workers: go round again, or on to pc with i = 0.
LoopOr(again, pc) ==
  IF ind + 1 < ThreadsNum
  THEN mainPc' = again /\ ind' = ind + 1
  ELSE mainPc' = pc /\ ind' = 0

\* setup_threads: create the mutexes of worker ind and start its thread.
SpawnWorker ==
  /\ mainPc = "spawn"
  /\ workerPc' = [workerPc EXCEPT ![ind] = "lockFinished"]
  /\ LoopOr("spawn", "spin")
  /\ UNCHANGED <<calls, total, applied, pos, tasks, mutexVars, counter, keepRunning>>

\* Fault: the main thread does not wait for the workers' first locks.
Fault_SetupDone ==
  /\ mainPc = "spin"
  /\ mainPc' = "idle"
  /\ UNCHANGED <<ind, calls, total, applied, workerPc, pos, tasks, mutexVars,
                 counter, keepRunning>>

\* setup_threads: the usleep loop ends once every worker has counted down.
SetupDone ==
  /\ mainPc = "spin"
  /\ counter = 0
  /\ mainPc' = "idle"
  /\ UNCHANGED <<ind, calls, total, applied, workerPc, pos, tasks, mutexVars,
                 counter, keepRunning>>

\* A parallel function is called with a vector of some size.
BeginCall ==
  /\ mainPc = "idle"
  /\ calls < MaxCalls
  /\ \E size \in Sizes :
       /\ total' = size
       /\ applied' = [e \in Elements(size) |-> 0]
  /\ calls' = calls + 1
  /\ mainPc' = "set"
  /\ UNCHANGED <<ind, workerPc, pos, tasks, mutexVars, counter, keepRunning>>

\* Fault: the worker is released before it has got its task.
Fault_LockSet ==
  /\ mainPc = "set"
  /\ ~setLocked[ind]
  /\ setLocked' = [setLocked EXCEPT ![ind] = TRUE]
  /\ executeLocked' = [executeLocked EXCEPT ![ind] = FALSE]
  /\ mainPc' = "reset"
  /\ UNCHANGED <<ind, calls, total, applied, workerPc, pos, tasks, finishedLocked,
                 counter, keepRunning>>

\* task_set_mutex[thread_ind]->lock()
LockSet ==
  /\ mainPc = "set"
  /\ ~setLocked[ind]
  /\ setLocked' = [setLocked EXCEPT ![ind] = TRUE]
  /\ mainPc' = "reset"
  /\ UNCHANGED <<ind, calls, total, applied, workerPc, pos, tasks, executeLocked,
                 finishedLocked, counter, keepRunning>>

\* tasks[thread_ind].reset(): the previous task is destroyed.
ResetTask ==
  /\ mainPc = "reset"
  /\ tasks' = [tasks EXCEPT ![ind] = NoTask]
  /\ mainPc' = "assign"
  /\ UNCHANGED <<ind, calls, total, applied, workerPc, pos, mutexVars, counter,
                 keepRunning>>

\* tasks[thread_ind] = a new task with this thread's part of the vector.
AssignTask ==
  /\ mainPc = "assign"
  /\ tasks' = [tasks EXCEPT ![ind] =
                 [call |-> calls,
                  start |-> StartInd(total, BatchSize, ind, ThreadsNum),
                  end |-> EndInd(total, BatchSize, ind, ThreadsNum)]]
  /\ mainPc' = "execute"
  /\ UNCHANGED <<ind, calls, total, applied, workerPc, pos, mutexVars, counter,
                 keepRunning>>

\* task_execute_mutex[thread_ind]->unlock()
ReleaseWorker ==
  /\ mainPc = "execute"
  /\ executeLocked' = [executeLocked EXCEPT ![ind] = FALSE]
  /\ LoopOr("set", "wait")
  /\ UNCHANGED <<calls, total, applied, workerPc, pos, tasks, setLocked,
                 finishedLocked, counter, keepRunning>>

\* Fault: the last worker is not waited for.
Fault_AwaitWorker ==
  /\ mainPc = "wait"
  /\ ~finishedLocked[ind]
  /\ finishedLocked' = [finishedLocked EXCEPT ![ind] = TRUE]
  /\ IF ind + 2 < ThreadsNum
     THEN mainPc' = "wait" /\ ind' = ind + 1
     ELSE mainPc' = "idle" /\ ind' = 0
  /\ UNCHANGED <<calls, total, applied, workerPc, pos, tasks, setLocked,
                 executeLocked, counter, keepRunning>>

\* task_finished_mutex[i]->lock(); after the last one the call returns res.
AwaitWorker ==
  /\ mainPc = "wait"
  /\ ~finishedLocked[ind]
  /\ finishedLocked' = [finishedLocked EXCEPT ![ind] = TRUE]
  /\ LoopOr("wait", "idle")
  /\ UNCHANGED <<calls, total, applied, workerPc, pos, tasks, setLocked,
                 executeLocked, counter, keepRunning>>

\* Fault: the workers are woken but not told to stop.
Fault_BeginDestroy ==
  /\ mainPc = "idle"
  /\ mainPc' = "stop"
  /\ UNCHANGED <<ind, calls, total, applied, workerPc, pos, tasks, mutexVars, counter,
                 keepRunning>>

\* ~RunTime, run when the program exits: stop the loop of every worker ...
BeginDestroy ==
  /\ mainPc = "idle"
  /\ keepRunning' = FALSE
  /\ mainPc' = "stop"
  /\ UNCHANGED <<ind, calls, total, applied, workerPc, pos, tasks, mutexVars, counter>>

\* ... wake worker i ...
StopWorker ==
  /\ mainPc = "stop"
  /\ executeLocked' = [executeLocked EXCEPT ![ind] = FALSE]
  /\ mainPc' = "join"
  /\ UNCHANGED <<ind, calls, total, applied, workerPc, pos, tasks, setLocked,
                 finishedLocked, counter, keepRunning>>

\* ... and join it.
JoinWorker ==
  /\ mainPc = "join"
  /\ workerPc[ind] = "exited"
  /\ LoopOr("stop", "end")
  /\ UNCHANGED <<calls, total, applied, workerPc, pos, tasks, mutexVars, counter,
                 keepRunning>>

Main ==
  \/ SpawnWorker \/ SetupDone
  \/ BeginCall \/ LockSet \/ ResetTask \/ AssignTask \/ ReleaseWorker \/ AwaitWorker
  \/ BeginDestroy \/ StopWorker \/ JoinWorker

-----------------------------------------------------------------------------
(* Worker i: the lambda setup_threads starts a thread with.                *)

Goto(i, from, to) ==
  /\ workerPc[i] = from
  /\ workerPc' = [workerPc EXCEPT ![i] = to]

\* Fault: the worker does not lock its finished mutex at the start.
Fault_TakeFinished(i) ==
  /\ Goto(i, "lockFinished", "lockExecute")
  /\ UNCHANGED <<mainVars, applied, pos, tasks, mutexVars, counter, keepRunning>>

\* task_finished_mutex[i]->lock()
TakeFinished(i) ==
  /\ Goto(i, "lockFinished", "lockExecute")
  /\ ~finishedLocked[i]
  /\ finishedLocked' = [finishedLocked EXCEPT ![i] = TRUE]
  /\ UNCHANGED <<mainVars, applied, pos, tasks, setLocked, executeLocked, counter,
                 keepRunning>>

\* Fault: the worker locks its execute mutex only once before it executes.
Fault_TakeExecute(i) ==
  /\ Goto(i, "lockExecute", "ready")
  /\ UNCHANGED <<mainVars, applied, pos, tasks, mutexVars, counter, keepRunning>>

\* task_execute_mutex[i]->lock()
TakeExecute(i) ==
  /\ Goto(i, "lockExecute", "ready")
  /\ ~executeLocked[i]
  /\ executeLocked' = [executeLocked EXCEPT ![i] = TRUE]
  /\ UNCHANGED <<mainVars, applied, pos, tasks, setLocked, finishedLocked, counter,
                 keepRunning>>

\* counter--
CountDown(i) ==
  /\ Goto(i, "ready", "block")
  /\ counter' = counter - 1
  /\ UNCHANGED <<mainVars, applied, pos, tasks, mutexVars, keepRunning>>

\* task_execute_mutex[i]->lock() again: waits until the main thread unlocks it.
AwaitTask(i) ==
  /\ Goto(i, "block", "test")
  /\ ~executeLocked[i]
  /\ executeLocked' = [executeLocked EXCEPT ![i] = TRUE]
  /\ UNCHANGED <<mainVars, applied, pos, tasks, setLocked, finishedLocked, counter,
                 keepRunning>>

\* while (keep_running): enter the task's execute(), with i = start ...
StartTask(i) ==
  /\ keepRunning
  /\ Goto(i, "test", "run")
  /\ pos' = [pos EXCEPT ![i] = tasks[i].start]
  /\ UNCHANGED <<mainVars, applied, tasks, mutexVars, counter, keepRunning>>

\* ... or return from the lambda.
ExitWorker(i) ==
  /\ ~keepRunning
  /\ Goto(i, "test", "exited")
  /\ UNCHANGED <<mainVars, applied, pos, tasks, mutexVars, counter, keepRunning>>

\* One round of the loop in execute(): func(x, res, i, end_); i += batch_size
RunBatch(i) ==
  /\ workerPc[i] = "run"
  /\ pos[i] < tasks[i].end
  /\ applied' = [e \in DOMAIN applied |->
                   IF e \in Window(pos[i], BatchSize, tasks[i].end)
                   THEN applied[e] + 1 ELSE applied[e]]
  /\ pos' = [pos EXCEPT ![i] = @ + BatchSize]
  /\ UNCHANGED <<mainVars, workerPc, tasks, mutexVars, counter, keepRunning>>

\* Fault: the worker does not report that it has finished.
Fault_FinishTask(i) ==
  /\ Goto(i, "run", "unlockSet")
  /\ pos[i] >= tasks[i].end
  /\ UNCHANGED <<mainVars, applied, pos, tasks, mutexVars, counter, keepRunning>>

FinishTask(i) ==
  /\ Goto(i, "run", "unlockFinished")
  /\ pos[i] >= tasks[i].end
  /\ UNCHANGED <<mainVars, applied, pos, tasks, mutexVars, counter, keepRunning>>

\* task_finished_mutex[i]->unlock()
ReleaseFinished(i) ==
  /\ Goto(i, "unlockFinished", "unlockSet")
  /\ finishedLocked' = [finishedLocked EXCEPT ![i] = FALSE]
  /\ UNCHANGED <<mainVars, applied, pos, tasks, setLocked, executeLocked, counter,
                 keepRunning>>

\* task_set_mutex[i]->unlock()
ReleaseSet(i) ==
  /\ Goto(i, "unlockSet", "block")
  /\ setLocked' = [setLocked EXCEPT ![i] = FALSE]
  /\ UNCHANGED <<mainVars, applied, pos, tasks, executeLocked, finishedLocked,
                 counter, keepRunning>>

Worker(i) ==
  \/ TakeFinished(i) \/ TakeExecute(i) \/ CountDown(i)
  \/ AwaitTask(i) \/ StartTask(i) \/ ExitWorker(i)
  \/ RunBatch(i) \/ FinishTask(i) \/ ReleaseFinished(i) \/ ReleaseSet(i)

\* The process has left main() and destroyed the RunTime.
Terminated ==
  /\ mainPc = "end"
  /\ UNCHANGED vars

Next == Main \/ (\E i \in Threads : Worker(i)) \/ Terminated

\* The scheduler runs every thread that can run.  No two threads ever wait
\* for the same mutex, so weak fairness is enough.
Fairness == WF_vars(Main) /\ \A i \in Threads : WF_vars(Worker(i))

Spec == Init /\ [][Next]_vars
FairSpec == Spec /\ Fairness

-----------------------------------------------------------------------------
(* Properties.                                                             *)

TypeOK ==
  /\ mainPc \in MainPcs
  /\ ind \in Threads
  /\ calls \in Nat
  /\ total \in Nat
  /\ applied \in [Elements(total) -> Nat]
  /\ workerPc \in [Threads -> WorkerPcs]
  /\ pos \in [Threads -> Nat]
  /\ tasks \in [Threads -> [call : Nat, start : Nat, end : Nat]]
  /\ setLocked \in [Threads -> BOOLEAN]
  /\ executeLocked \in [Threads -> BOOLEAN]
  /\ finishedLocked \in [Threads -> BOOLEAN]
  /\ counter \in 0 .. ThreadsNum
  /\ keepRunning \in BOOLEAN

\* When a parallel call has returned (runtime.h, "return res"), func was
\* applied exactly once to every element of the vector, by whichever thread:
\* no worker is still writing to res and none skipped or repeated a batch.
ReturnIsComplete ==
  mainPc = "idle" /\ calls > 0 =>
    /\ \A e \in Elements(total) : applied[e] = 1
    /\ \A i \in Threads : workerPc[i] \notin {"test", "run"}

\* The main thread never destroys or replaces a task (tasks[thread_ind].reset()
\* and the assignment after it) that its worker may be executing.
TaskNotInUse ==
  mainPc \in {"reset", "assign"} => workerPc[ind] \notin {"test", "run"}

\* A worker that is inside execute() runs the task of the current call: never
\* an empty pointer and never, after a wake-up too many, the task of an
\* earlier call a second time.
RunsCurrentTask ==
  \A i \in Threads :
    workerPc[i] = "run" => tasks[i].call = calls /\ tasks[i].call > 0

\* Every unlock() finds its mutex locked.  A mutex has no count, so an unlock
\* of a free mutex would be a wake-up that is lost.
NoLostUnlock ==
  /\ mainPc \in {"execute", "stop"} => executeLocked[ind]
  /\ \A i \in Threads :
       /\ workerPc[i] = "unlockFinished" => finishedLocked[i]
       /\ workerPc[i] = "unlockSet" => setLocked[i]

\* keep_running is a plain bool: the destructor may only be about to write it
\* when no worker is about to read it.
KeepRunningNotRaced ==
  mainPc = "idle" => \A i \in Threads : workerPc[i] # "test"

\* Two workers never apply func to the same element of the shared vectors,
\* whatever the order they run in.
AppliedAtMostOnce == \A e \in DOMAIN applied : applied[e] <= 1

\* Every parallel call returns.
CallReturns == (mainPc = "set") ~> (mainPc = "idle")

\* The destructor joins every worker and returns.
DestructorReturns ==
  (mainPc = "stop") ~> (mainPc = "end" /\ \A i \in Threads : workerPc[i] = "exited")
-----------------------------------------------------------------------------
(* The pool implements the abstract parallel call.                         *)

Phase ==
  IF mainPc \in {"spawn", "spin"} THEN "starting"
  ELSE IF mainPc = "idle" THEN "idle"
  ELSE IF mainPc \in {"stop", "join", "end"} THEN "ended"
  ELSE "running"

Call == INSTANCE ParallelCall WITH phase <- Phase

\* Seen from the caller a parallel function is one synchronous call that
\* applies func once to every element: the hand-over of tasks, the mutexes
\* and the order in which the workers run cannot be observed.
ImplementsCall == Call!FairSpec

-----------------------------------------------------------------------------
(* The inductive invariant behind the properties, proved in               *)
(* RunTimePool_proofs.  Outside setup and shutdown a worker is in one of   *)
(* these situations with respect to the main thread.                      *)

Starting == mainPc \in {"spawn", "spin"}
Stopping == mainPc \in {"stop", "join", "end"}
HandingOver == mainPc \in {"set", "reset", "assign", "execute"}

\* The main thread has released worker i and not yet seen it finish.
Released(i) ==
  \/ HandingOver /\ i < ind
  \/ mainPc = "wait" /\ i >= ind

\* The main thread holds task_set_mutex[i] and has not released worker i.
Preparing(i) == mainPc \in {"reset", "assign", "execute"} /\ i = ind

\* Worker i has nothing to do; it may still have to unlock the set mutex.
Resting(i) ==
  /\ executeLocked[i] /\ finishedLocked[i]
  /\ \/ workerPc[i] = "block" /\ (setLocked[i] <=> Preparing(i))
     \/ workerPc[i] = "unlockSet" /\ setLocked[i] /\ ~Preparing(i)

Waking(i) ==
  /\ workerPc[i] = "block"
  /\ ~executeLocked[i] /\ finishedLocked[i] /\ setLocked[i]

Working(i) ==
  /\ workerPc[i] \in {"test", "run", "unlockFinished"}
  /\ executeLocked[i] /\ finishedLocked[i] /\ setLocked[i]

Finished(i) ==
  /\ executeLocked[i] /\ ~finishedLocked[i]
  /\ \/ workerPc[i] = "unlockSet" /\ setLocked[i]
     \/ workerPc[i] = "block" /\ ~setLocked[i]

Started(i) ==
  IF mainPc = "spawn" /\ i >= ind
  THEN workerPc[i] = "unborn"
  ELSE workerPc[i] \in {"lockFinished", "lockExecute", "ready", "block"}

\* The workers that have not counted down.
NotReady ==
  {i \in Threads : workerPc[i] \in {"unborn", "lockFinished", "lockExecute", "ready"}}

SetupInv ==
  /\ Starting => \A i \in Threads :
       /\ Started(i)
       /\ ~setLocked[i]
       /\ finishedLocked[i] <=> workerPc[i] \notin {"unborn", "lockFinished"}
       /\ executeLocked[i] <=> workerPc[i] \in {"ready", "block"}
  /\ counter = Cardinality(NotReady)

\* Worker i has been told to stop, or has.
Ending(i) ==
  \/ workerPc[i] = "block" /\ ~executeLocked[i]
  \/ workerPc[i] = "unlockSet" /\ ~executeLocked[i] /\ setLocked[i]
  \/ workerPc[i] \in {"test", "exited"}

Joined(i) == mainPc = "end" \/ (mainPc \in {"stop", "join"} /\ i < ind)

\* What the main thread knows of worker i once setup is over.
Situation(i) ==
  IF Stopping
  THEN /\ Joined(i) => workerPc[i] = "exited"
       /\ mainPc = "join" /\ i = ind => Ending(i)
       /\ (mainPc = "join" /\ i > ind) \/ (mainPc = "stop" /\ i >= ind) => Resting(i)
  ELSE IF Released(i) THEN Waking(i) \/ Working(i) \/ Finished(i) ELSE Resting(i)

HandOverInv == ~Starting => \A i \in Threads : Situation(i)

ControlInv ==
  /\ mainPc \in {"spin", "idle", "end"} => ind = 0
  /\ keepRunning <=> ~Stopping
  /\ Starting => total = 0
  /\ HandingOver \/ mainPc = "wait" => calls > 0

\* Every task already handed over in this call is this worker's part.
TaskInv ==
  \A i \in Threads :
    /\ (HandingOver /\ i < ind) \/ mainPc = "wait" \/ (mainPc = "execute" /\ i = ind) =>
         tasks[i] = [call |-> calls,
                     start |-> StartInd(total, BatchSize, i, ThreadsNum),
                     end |-> EndInd(total, BatchSize, i, ThreadsNum)]
    /\ workerPc[i] = "run" => pos[i] >= StartInd(total, BatchSize, i, ThreadsNum)

\* Has worker i applied func to element e of its part?
Reached(i, e) ==
  /\ ~(HandingOver /\ i >= ind)
  /\ Released(i) => /\ ~Waking(i)
                    /\ workerPc[i] # "test"
                    /\ workerPc[i] = "run" => e < pos[i]

AppliedInv ==
  \A i \in Threads : \A e \in Part(total, BatchSize, i, ThreadsNum) :
    applied[e] = IF Reached(i, e) THEN 1 ELSE 0

\* The strengthening that makes the properties above inductive: which mutexes
\* are locked at each point of the hand-over, and how far each worker got.
IInv == TypeOK /\ SetupInv /\ HandOverInv /\ ControlInv /\ TaskInv /\ AppliedInv
==============================================================================
