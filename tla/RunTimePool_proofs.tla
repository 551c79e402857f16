-------------------------- MODULE RunTimePool_proofs --------------------------
(* The safety properties of RunTimePool for every number of threads, batch  *)
(* size, set of vector sizes and number of calls.                           *)
EXTENDS RunTimePool, Division_proofs, FiniteSetTheorems

\* The bounds of the parts, for the pool's constants.
LEMMA PoolBounds ==
  ASSUME NEW size \in Nat, NEW i \in Threads
  PROVE  /\ StartInd(size, BatchSize, i, ThreadsNum) \in Nat
         /\ EndInd(size, BatchSize, i, ThreadsNum) \in Nat
         /\ Part(size, BatchSize, i, ThreadsNum) \subseteq Elements(size)
<1>1. /\ StartInd(size, BatchSize, i, ThreadsNum) \in Nat
      /\ EndInd(size, BatchSize, i, ThreadsNum) \in Nat
      /\ EndInd(size, BatchSize, i, ThreadsNum) <= size
  BY PartBounds, PoolAssumption DEF Threads
<1> QED
  BY <1>1 DEF Part, Elements

LEMMA InitIInv == Init => IInv
<1> SUFFICES ASSUME Init PROVE IInv
  OBVIOUS
<1> USE PoolAssumption
<1>1. 0 \in Threads /\ Threads # {}
  BY DEF Threads
<1>2. Elements(0) = {}
  BY DEF Elements
<1>3. Cardinality(NotReady) = ThreadsNum
  <2>1. NotReady = 0 .. ThreadsNum - 1
    BY DEF Init, NotReady, Threads
  <2>2. 0 \in Int /\ ThreadsNum - 1 \in Int
    OBVIOUS
  <2>3. Cardinality(0 .. ThreadsNum - 1) =
          IF 0 > ThreadsNum - 1 THEN 0 ELSE (ThreadsNum - 1) - 0 + 1
    BY <2>2, FS_Interval
  <2> QED
    BY <2>1, <2>3
<1>4. TypeOK
  BY <1>1, <1>2 DEF Init, TypeOK, MainPcs, WorkerPcs, NoTask
<1>5. SetupInv
  BY <1>3 DEF Init, SetupInv, Starting, Started, Threads
<1>6. HandOverInv /\ ControlInv
  BY DEF Init, HandOverInv, ControlInv, Starting, Stopping, HandingOver
<1>7. TaskInv
  BY DEF Init, TaskInv, HandingOver
<1>8. AppliedInv
  <2>1. \A i \in Threads : Part(total, BatchSize, i, ThreadsNum) = {}
    BY <1>2, PoolBounds DEF Init
  <2> QED
    BY <2>1 DEF AppliedInv
<1> QED
  BY <1>4, <1>5, <1>6, <1>7, <1>8 DEF IInv

LEMMA NotReadyFinite == IsFiniteSet(NotReady)
<1>1. IsFiniteSet(0 .. ThreadsNum - 1)
  BY FS_Interval, PoolAssumption
<1>2. NotReady \subseteq 0 .. ThreadsNum - 1
  BY DEF NotReady, Threads
<1> QED
  BY <1>1, <1>2, FS_Subset

-----------------------------------------------------------------------------
\* Types are preserved; the counter stays in range because it counts workers.
LEMMA StepType == IInv /\ [Next]_vars => TypeOK'
<1> SUFFICES ASSUME IInv, [Next]_vars PROVE TypeOK'
  OBVIOUS
<1> USE PoolAssumption
<1>0. TypeOK /\ ControlInv /\ counter = Cardinality(NotReady)
  BY DEF IInv, SetupInv
<1> USE <1>0 DEF TypeOK, MainPcs, WorkerPcs, mainVars, mutexVars
<1>l. ASSUME NEW a \in MainPcs, NEW b \in MainPcs, LoopOr(a, b)
      PROVE  mainPc' \in MainPcs /\ ind' \in Threads
  <2>1. ind' \in Threads
    BY ONLY <1>l, ind \in Threads, PoolAssumption DEF LoopOr, Threads
  <2> QED
    BY ONLY <1>l, <2>1 DEF LoopOr
<1>1. CASE SpawnWorker
  BY <1>1, <1>l DEF SpawnWorker
<1>2. CASE SetupDone
  BY <1>2 DEF SetupDone
<1>3. CASE BeginCall
  BY <1>3 DEF BeginCall
<1>4. CASE LockSet
  BY <1>4 DEF LockSet
<1>5. CASE ResetTask
  BY <1>5 DEF ResetTask, NoTask
<1>6. CASE AssignTask
  BY <1>6, PoolBounds DEF AssignTask
<1>7. CASE ReleaseWorker
  BY <1>7, <1>l DEF ReleaseWorker
<1>8. CASE AwaitWorker
  BY <1>8, <1>l DEF AwaitWorker
<1>9. CASE BeginDestroy
  BY <1>9 DEF BeginDestroy
<1>10. CASE StopWorker
  BY <1>10 DEF StopWorker
<1>11. CASE JoinWorker
  BY <1>11, <1>l DEF JoinWorker
<1>12. ASSUME NEW i \in Threads, Worker(i) PROVE TypeOK'
  <2>1. CASE TakeFinished(i)
    BY <2>1 DEF TakeFinished, Goto
  <2>2. CASE TakeExecute(i)
    BY <2>2 DEF TakeExecute, Goto
  <2>3. CASE CountDown(i)
    <3>1. IsFiniteSet(NotReady) /\ i \in NotReady
      BY NotReadyFinite, <2>3 DEF CountDown, Goto, NotReady
    <3>2. Cardinality(NotReady) # 0
      BY <3>1, FS_EmptySet
    <3> QED
      BY <2>3, <3>2 DEF CountDown, Goto
  <2>4. CASE AwaitTask(i)
    BY <2>4 DEF AwaitTask, Goto
  <2>5. CASE StartTask(i)
    BY <2>5 DEF StartTask, Goto
  <2>6. CASE ExitWorker(i)
    BY <2>6 DEF ExitWorker, Goto
  <2>7. CASE RunBatch(i)
    BY <2>7 DEF RunBatch
  <2>8. CASE FinishTask(i)
    BY <2>8 DEF FinishTask, Goto
  <2>9. CASE ReleaseFinished(i)
    BY <2>9 DEF ReleaseFinished, Goto
  <2>10. CASE ReleaseSet(i)
    BY <2>10 DEF ReleaseSet, Goto
  <2> QED
    BY <1>12, <2>1, <2>2, <2>3, <2>4, <2>5, <2>6, <2>7, <2>8, <2>9, <2>10 DEF Worker
<1>13. CASE UNCHANGED vars
  BY <1>13 DEF vars
<1> QED
  BY <1>1, <1>2, <1>3, <1>4, <1>5, <1>6, <1>7, <1>8, <1>9, <1>10, <1>11, <1>12, <1>13
  DEF Next, Main, Terminated

\* A step of worker i leaves the main thread and the other workers where they are.
LEMMA WorkerKeeps ==
  ASSUME TypeOK, NEW i \in Threads, Worker(i), NEW j \in Threads, j # i
  PROVE  /\ mainPc' = mainPc /\ ind' = ind
         /\ workerPc'[j] = workerPc[j] /\ setLocked'[j] = setLocked[j]
         /\ executeLocked'[j] = executeLocked[j] /\ finishedLocked'[j] = finishedLocked[j]
<1> USE DEF TypeOK
<1>1. CASE TakeFinished(i)
  BY <1>1 DEF TakeFinished, Goto, mainVars, mutexVars
<1>2. CASE TakeExecute(i)
  BY <1>2 DEF TakeExecute, Goto, mainVars, mutexVars
<1>3. CASE CountDown(i)
  BY <1>3 DEF CountDown, Goto, mainVars, mutexVars
<1>4. CASE AwaitTask(i)
  BY <1>4 DEF AwaitTask, Goto, mainVars, mutexVars
<1>5. CASE StartTask(i)
  BY <1>5 DEF StartTask, Goto, mainVars, mutexVars
<1>6. CASE ExitWorker(i)
  BY <1>6 DEF ExitWorker, Goto, mainVars, mutexVars
<1>7. CASE RunBatch(i)
  BY <1>7 DEF RunBatch, mainVars, mutexVars
<1>8. CASE FinishTask(i)
  BY <1>8 DEF FinishTask, Goto, mainVars, mutexVars
<1>9. CASE ReleaseFinished(i)
  BY <1>9 DEF ReleaseFinished, Goto, mainVars, mutexVars
<1>10. CASE ReleaseSet(i)
  BY <1>10 DEF ReleaseSet, Goto, mainVars, mutexVars
<1> QED
  BY <1>1, <1>2, <1>3, <1>4, <1>5, <1>6, <1>7, <1>8, <1>9, <1>10 DEF Worker

\* A step of worker i takes it to a situation the main thread knows of.
LEMMA WorkerSituation ==
  ASSUME TypeOK, NEW i \in Threads, Worker(i), Situation(i), keepRunning <=> ~Stopping
  PROVE  Situation(i)'
<1> USE DEF Situation, Resting, Waking, Working, Finished, Ending, Joined
<1>a. /\ mainPc' = mainPc /\ ind' = ind
  BY DEF Worker, TakeFinished, TakeExecute, CountDown, AwaitTask, StartTask, ExitWorker, RunBatch, FinishTask, ReleaseFinished, ReleaseSet, mainVars
<1>b. /\ Stopping' <=> Stopping
      /\ Released(i)' <=> Released(i)
      /\ Preparing(i)' <=> Preparing(i)
  BY <1>a DEF Stopping, Released, Preparing, HandingOver
<1>c. DOMAIN workerPc = Threads /\ DOMAIN setLocked = Threads
      /\ DOMAIN executeLocked = Threads /\ DOMAIN finishedLocked = Threads
  BY DEF TypeOK
<1>1. CASE TakeFinished(i)
  BY <1>1, <1>a, <1>b, <1>c DEF TakeFinished, Goto, mutexVars
<1>2. CASE TakeExecute(i)
  BY <1>2, <1>a, <1>b, <1>c DEF TakeExecute, Goto, mutexVars
<1>3. CASE CountDown(i)
  BY <1>3, <1>a, <1>b, <1>c DEF CountDown, Goto, mutexVars
<1>4. CASE AwaitTask(i)
  BY <1>4, <1>a, <1>b, <1>c DEF AwaitTask, Goto, mutexVars
<1>5. CASE StartTask(i)
  BY <1>5, <1>a, <1>b, <1>c DEF StartTask, Goto, mutexVars
<1>6. CASE ExitWorker(i)
  BY <1>6, <1>a, <1>b, <1>c DEF ExitWorker, Goto, mutexVars
<1>7. CASE RunBatch(i)
  BY <1>7, <1>a, <1>b, <1>c DEF RunBatch, mutexVars
<1>8. CASE FinishTask(i)
  BY <1>8, <1>a, <1>b, <1>c DEF FinishTask, Goto, mutexVars
<1>9. CASE ReleaseFinished(i)
  BY <1>9, <1>a, <1>b, <1>c DEF ReleaseFinished, Goto, mutexVars
<1>10. CASE ReleaseSet(i)
  BY <1>10, <1>a, <1>b, <1>c DEF ReleaseSet, Goto, mutexVars
<1> QED
  BY <1>1, <1>2, <1>3, <1>4, <1>5, <1>6, <1>7, <1>8, <1>9, <1>10 DEF Worker

\* The hand-over of tasks keeps every worker in one of the situations it knows.
LEMMA StepHandOver == IInv /\ [Next]_vars => HandOverInv'
<1> SUFFICES ASSUME IInv, [Next]_vars PROVE HandOverInv'
  OBVIOUS
<1> USE PoolAssumption
<1>0. TypeOK /\ SetupInv /\ HandOverInv /\ ControlInv
  BY DEF IInv
<1> USE <1>0 DEF TypeOK, SetupInv, HandOverInv, ControlInv, Starting, Stopping, HandingOver,
             Started, Released, Preparing, Resting, Waking, Working, Finished, Ending,
             Joined, Situation, mainVars, mutexVars, Threads
<1>1. CASE SpawnWorker
  BY <1>1 DEF SpawnWorker, LoopOr
<1>2. CASE SetupDone
  <2>1. NotReady = {}
    <3>1. IsFiniteSet(NotReady)
      BY NotReadyFinite
    <3> QED
      BY <1>2, <3>1, FS_EmptySet DEF SetupDone
  <2>2. \A i \in Threads : workerPc[i] = "block"
    BY <1>2, <2>1 DEF SetupDone, NotReady
  <2> QED
    BY <1>2, <2>2 DEF SetupDone
<1>3. CASE BeginCall
  BY <1>3 DEF BeginCall
<1>4. CASE LockSet
  <2> SUFFICES ASSUME NEW j \in Threads PROVE Situation(j)'
    BY <1>4 DEF LockSet
  <2>0. Situation(j)
    BY <1>4 DEF LockSet
  <2>1. CASE j = ind
    BY <1>4, <2>0, <2>1 DEF LockSet
  <2>2. CASE j # ind
    BY <1>4, <2>0, <2>2 DEF LockSet
  <2> QED
    BY <2>1, <2>2
<1>5. CASE ResetTask
  BY <1>5 DEF ResetTask
<1>6. CASE AssignTask
  BY <1>6 DEF AssignTask
<1>7. CASE ReleaseWorker
  <2> SUFFICES ASSUME NEW j \in Threads PROVE Situation(j)'
    BY <1>7 DEF ReleaseWorker, LoopOr
  <2>0. Situation(j)
    BY <1>7 DEF ReleaseWorker
  <2>1. CASE ind + 1 < ThreadsNum /\ mainPc' = "set" /\ ind' = ind + 1
    <3>1. CASE j = ind
      BY <1>7, <2>0, <2>1, <3>1 DEF ReleaseWorker
    <3>2. CASE j # ind
      BY <1>7, <2>0, <2>1, <3>2 DEF ReleaseWorker
    <3> QED
      BY <3>1, <3>2
  <2>2. CASE ind = ThreadsNum - 1 /\ mainPc' = "wait" /\ ind' = 0
    <3>1. CASE j = ind
      BY <1>7, <2>0, <2>2, <3>1 DEF ReleaseWorker
    <3>2. CASE j # ind
      BY <1>7, <2>0, <2>2, <3>2 DEF ReleaseWorker
    <3> QED
      BY <3>1, <3>2
  <2> QED
    BY <1>7, <2>1, <2>2 DEF ReleaseWorker, LoopOr
<1>8. CASE AwaitWorker
  <2> SUFFICES ASSUME NEW j \in Threads PROVE Situation(j)'
    BY <1>8 DEF AwaitWorker, LoopOr
  <2>0. Situation(j)
    BY <1>8 DEF AwaitWorker
  <2>1. CASE ind + 1 < ThreadsNum /\ mainPc' = "wait" /\ ind' = ind + 1
    <3>1. CASE j = ind
      BY <1>8, <2>0, <2>1, <3>1 DEF AwaitWorker
    <3>2. CASE j # ind
      BY <1>8, <2>0, <2>1, <3>2 DEF AwaitWorker
    <3> QED
      BY <3>1, <3>2
  <2>2. CASE ind = ThreadsNum - 1 /\ mainPc' = "idle" /\ ind' = 0
    <3>1. CASE j = ind
      BY <1>8, <2>0, <2>2, <3>1 DEF AwaitWorker
    <3>2. CASE j # ind
      BY <1>8, <2>0, <2>2, <3>2 DEF AwaitWorker
    <3> QED
      BY <3>1, <3>2
  <2> QED
    BY <1>8, <2>1, <2>2 DEF AwaitWorker, LoopOr
<1>9. CASE BeginDestroy
  BY <1>9 DEF BeginDestroy
<1>10. CASE StopWorker
  BY <1>10 DEF StopWorker
<1>11. CASE JoinWorker
  <2> SUFFICES ASSUME NEW j \in Threads PROVE Situation(j)'
    BY <1>11 DEF JoinWorker, LoopOr
  <2>0. Situation(j)
    BY <1>11 DEF JoinWorker
  <2>1. CASE ind + 1 < ThreadsNum /\ mainPc' = "stop" /\ ind' = ind + 1
    <3>1. CASE j = ind
      BY <1>11, <2>0, <2>1, <3>1 DEF JoinWorker
    <3>2. CASE j # ind
      BY <1>11, <2>0, <2>1, <3>2 DEF JoinWorker
    <3> QED
      BY <3>1, <3>2
  <2>2. CASE ind = ThreadsNum - 1 /\ mainPc' = "end" /\ ind' = 0
    <3>1. CASE j = ind
      BY <1>11, <2>0, <2>2, <3>1 DEF JoinWorker
    <3>2. CASE j # ind
      BY <1>11, <2>0, <2>2, <3>2 DEF JoinWorker
    <3> QED
      BY <3>1, <3>2
  <2> QED
    BY <1>11, <2>1, <2>2 DEF JoinWorker, LoopOr
<1>12. ASSUME NEW i \in Threads, Worker(i) PROVE HandOverInv'
  <2>1. mainPc' = mainPc
    BY <1>12 DEF Worker, TakeFinished, TakeExecute, CountDown, AwaitTask, StartTask,
       ExitWorker, RunBatch, FinishTask, ReleaseFinished, ReleaseSet
  <2> SUFFICES ASSUME ~Starting, NEW j \in Threads PROVE Situation(j)'
    BY <2>1
  <2>2. Situation(j)
    OBVIOUS
  <2>3. CASE j = i
    <3>1. keepRunning <=> ~Stopping
      OBVIOUS
    <3> QED
      BY ONLY <1>0, <1>12, <2>2, <2>3, <3>1, WorkerSituation
  <2>4. CASE j # i
    <3>1. /\ mainPc' = mainPc /\ ind' = ind
          /\ workerPc'[j] = workerPc[j] /\ setLocked'[j] = setLocked[j]
          /\ executeLocked'[j] = executeLocked[j] /\ finishedLocked'[j] = finishedLocked[j]
      BY ONLY <1>0, <1>12, <2>4, j \in Threads, WorkerKeeps
    <3> QED
      BY ONLY <2>2, <3>1 DEF Stopping, HandingOver, Released, Preparing, Resting, Waking,
         Working, Finished, Ending, Joined, Situation
  <2> QED
    BY <2>3, <2>4
<1>13. CASE UNCHANGED vars
  BY <1>13 DEF vars
<1> QED
  BY <1>1, <1>2, <1>3, <1>4, <1>5, <1>6, <1>7, <1>8, <1>9, <1>10, <1>11, <1>12, <1>13
  DEF Next, Main, Terminated

\* The main thread's own control flow.
LEMMA StepControl == IInv /\ [Next]_vars => ControlInv'
<1> SUFFICES ASSUME IInv, [Next]_vars PROVE ControlInv'
  OBVIOUS
<1> USE PoolAssumption
<1>0. TypeOK /\ SetupInv /\ HandOverInv /\ ControlInv
  BY DEF IInv
<1> USE <1>0 DEF TypeOK, SetupInv, HandOverInv, ControlInv, Starting, Stopping, HandingOver,
             Started, Released, Preparing, Resting, Waking, Working, Finished, Ending,
             Joined, Situation, mainVars, mutexVars, Threads
<1>1. CASE SpawnWorker
  BY <1>1 DEF SpawnWorker, LoopOr
<1>2. CASE SetupDone
  BY <1>2 DEF SetupDone
<1>3. CASE BeginCall
  BY <1>3 DEF BeginCall
<1>4. CASE LockSet
  BY <1>4 DEF LockSet
<1>5. CASE ResetTask
  BY <1>5 DEF ResetTask
<1>6. CASE AssignTask
  BY <1>6 DEF AssignTask
<1>7. CASE ReleaseWorker
  BY <1>7 DEF ReleaseWorker, LoopOr
<1>8. CASE AwaitWorker
  BY <1>8 DEF AwaitWorker, LoopOr
<1>9. CASE BeginDestroy
  BY <1>9 DEF BeginDestroy
<1>10. CASE StopWorker
  BY <1>10 DEF StopWorker
<1>11. CASE JoinWorker
  BY <1>11 DEF JoinWorker, LoopOr
<1>12. ASSUME NEW i \in Threads, Worker(i) PROVE ControlInv'
  <2>1. CASE TakeFinished(i)
    BY <2>1 DEF TakeFinished, Goto
  <2>2. CASE TakeExecute(i)
    BY <2>2 DEF TakeExecute, Goto
  <2>3. CASE CountDown(i)
    BY <2>3 DEF CountDown, Goto
  <2>4. CASE AwaitTask(i)
    BY <2>4 DEF AwaitTask, Goto
  <2>5. CASE StartTask(i)
    BY <2>5 DEF StartTask, Goto
  <2>6. CASE ExitWorker(i)
    BY <2>6 DEF ExitWorker, Goto
  <2>7. CASE RunBatch(i)
    BY <2>7 DEF RunBatch
  <2>8. CASE FinishTask(i)
    BY <2>8 DEF FinishTask, Goto
  <2>9. CASE ReleaseFinished(i)
    BY <2>9 DEF ReleaseFinished, Goto
  <2>10. CASE ReleaseSet(i)
    BY <2>10 DEF ReleaseSet, Goto
  <2> QED
    BY <1>12, <2>1, <2>2, <2>3, <2>4, <2>5, <2>6, <2>7, <2>8, <2>9, <2>10 DEF Worker
<1>13. CASE UNCHANGED vars
  BY <1>13 DEF vars
<1> QED
  BY <1>1, <1>2, <1>3, <1>4, <1>5, <1>6, <1>7, <1>8, <1>9, <1>10, <1>11, <1>12, <1>13
  DEF Next, Main, Terminated

\* Setup: what a worker has locked, and the counter.
LEMMA StepSetup == IInv /\ [Next]_vars => SetupInv'
<1> SUFFICES ASSUME IInv, [Next]_vars PROVE SetupInv'
  OBVIOUS
<1> USE PoolAssumption
<1>0. TypeOK /\ SetupInv /\ HandOverInv /\ ControlInv
  BY DEF IInv
<1> USE <1>0 DEF TypeOK, SetupInv, Starting, Started, mainVars, mutexVars, Threads
<1>1. CASE SpawnWorker
  <2>1. NotReady' = NotReady
    BY <1>1 DEF SpawnWorker, LoopOr, NotReady
  <2>2. /\ setLocked' = setLocked /\ finishedLocked' = finishedLocked
        /\ executeLocked' = executeLocked /\ counter' = counter
        /\ workerPc' = [workerPc EXCEPT ![ind] = "lockFinished"]
        /\ mainPc = "spawn"
        /\ workerPc[ind] = "unborn"
    BY <1>1 DEF SpawnWorker
  <2>3. ASSUME NEW j \in Threads
        PROVE  /\ ~setLocked'[j]
               /\ finishedLocked'[j] <=> workerPc'[j] \notin {"unborn", "lockFinished"}
               /\ executeLocked'[j] <=> workerPc'[j] \in {"ready", "block"}
    BY <2>2
  <2>4. ASSUME NEW j \in Threads PROVE Started(j)'
    <3>1. CASE mainPc' = "spawn" /\ ind' = ind + 1
      BY <2>2, <3>1
    <3>2. CASE ind = ThreadsNum - 1 /\ mainPc' = "spin"
      BY <2>2, <3>2
    <3> QED
      BY <1>1, <3>1, <3>2 DEF SpawnWorker, LoopOr
  <2> QED
    BY <2>1, <2>2, <2>3, <2>4
<1>2. CASE SetupDone
  <2>1. NotReady' = NotReady
    BY <1>2 DEF SetupDone, NotReady
  <2> QED
    BY <1>2, <2>1 DEF SetupDone
<1>3. CASE BeginCall
  <2>1. NotReady' = NotReady
    BY <1>3 DEF BeginCall, NotReady
  <2> QED
    BY <1>3, <2>1 DEF BeginCall
<1>4. CASE LockSet
  <2>1. NotReady' = NotReady
    BY <1>4 DEF LockSet, NotReady
  <2> QED
    BY <1>4, <2>1 DEF LockSet
<1>5. CASE ResetTask
  <2>1. NotReady' = NotReady
    BY <1>5 DEF ResetTask, NotReady
  <2> QED
    BY <1>5, <2>1 DEF ResetTask
<1>6. CASE AssignTask
  <2>1. NotReady' = NotReady
    BY <1>6 DEF AssignTask, NotReady
  <2> QED
    BY <1>6, <2>1 DEF AssignTask
<1>7. CASE ReleaseWorker
  <2>1. NotReady' = NotReady
    BY <1>7 DEF ReleaseWorker, LoopOr, NotReady
  <2> QED
    BY <1>7, <2>1 DEF ReleaseWorker, LoopOr
<1>8. CASE AwaitWorker
  <2>1. NotReady' = NotReady
    BY <1>8 DEF AwaitWorker, LoopOr, NotReady
  <2> QED
    BY <1>8, <2>1 DEF AwaitWorker, LoopOr
<1>9. CASE BeginDestroy
  <2>1. NotReady' = NotReady
    BY <1>9 DEF BeginDestroy, NotReady
  <2> QED
    BY <1>9, <2>1 DEF BeginDestroy
<1>10. CASE StopWorker
  <2>1. NotReady' = NotReady
    BY <1>10 DEF StopWorker, NotReady
  <2> QED
    BY <1>10, <2>1 DEF StopWorker
<1>11. CASE JoinWorker
  <2>1. NotReady' = NotReady
    BY <1>11 DEF JoinWorker, LoopOr, NotReady
  <2> QED
    BY <1>11, <2>1 DEF JoinWorker, LoopOr
<1>12. ASSUME NEW i \in Threads, Worker(i) PROVE SetupInv'
  <2>1. CASE TakeFinished(i)
    <3>1. NotReady' = NotReady
      BY <2>1 DEF TakeFinished, Goto, NotReady
    <3> QED
      BY <2>1, <3>1 DEF TakeFinished, Goto
  <2>2. CASE TakeExecute(i)
    <3>1. NotReady' = NotReady
      BY <2>2 DEF TakeExecute, Goto, NotReady
    <3> QED
      BY <2>2, <3>1 DEF TakeExecute, Goto
  <2>3. CASE CountDown(i)
    <3>1. NotReady' = NotReady \ {i} /\ i \in NotReady
      BY <2>3 DEF CountDown, Goto, NotReady
    <3>2. Cardinality(NotReady') = Cardinality(NotReady) - 1
      BY <3>1, NotReadyFinite, FS_RemoveElement
    <3> QED
      BY <2>3, <3>2 DEF CountDown, Goto
  <2>4. CASE AwaitTask(i)
    <3>1. NotReady' = NotReady
      BY <2>4 DEF AwaitTask, Goto, NotReady
    <3> QED
      BY <2>4, <3>1 DEF AwaitTask, Goto
  <2>5. CASE StartTask(i)
    <3>1. NotReady' = NotReady
      BY <2>5 DEF StartTask, Goto, NotReady
    <3> QED
      BY <2>5, <3>1 DEF StartTask, Goto
  <2>6. CASE ExitWorker(i)
    <3>1. NotReady' = NotReady
      BY <2>6 DEF ExitWorker, Goto, NotReady
    <3> QED
      BY <2>6, <3>1 DEF ExitWorker, Goto
  <2>7. CASE RunBatch(i)
    <3>1. NotReady' = NotReady
      BY <2>7 DEF RunBatch, NotReady
    <3> QED
      BY <2>7, <3>1 DEF RunBatch
  <2>8. CASE FinishTask(i)
    <3>1. NotReady' = NotReady
      BY <2>8 DEF FinishTask, Goto, NotReady
    <3> QED
      BY <2>8, <3>1 DEF FinishTask, Goto
  <2>9. CASE ReleaseFinished(i)
    <3>1. NotReady' = NotReady
      BY <2>9 DEF ReleaseFinished, Goto, NotReady
    <3> QED
      BY <2>9, <3>1 DEF ReleaseFinished, Goto
  <2>10. CASE ReleaseSet(i)
    <3>1. NotReady' = NotReady
      BY <2>10 DEF ReleaseSet, Goto, NotReady
    <3> QED
      BY <2>10, <3>1 DEF ReleaseSet, Goto
  <2> QED
    BY <1>12, <2>1, <2>2, <2>3, <2>4, <2>5, <2>6, <2>7, <2>8, <2>9, <2>10 DEF Worker
<1>13. CASE UNCHANGED vars
  <2>1. NotReady' = NotReady
    BY <1>13 DEF vars, NotReady
  <2> QED
    BY <1>13, <2>1 DEF vars
<1> QED
  BY <1>1, <1>2, <1>3, <1>4, <1>5, <1>6, <1>7, <1>8, <1>9, <1>10, <1>11, <1>12, <1>13
  DEF Next, Main, Terminated

\* A worker inside a task was released by the main thread and not collected
\* yet.
LEMMA BusyWorker ==
  ASSUME IInv, NEW i \in Threads,
         \/ workerPc[i] \in {"run", "unlockFinished"}
         \/ workerPc[i] = "test" /\ keepRunning
  PROVE  Released(i) /\ Working(i) /\ ~Starting
<1> USE PoolAssumption
<1>1. TypeOK /\ SetupInv /\ HandOverInv /\ ControlInv
  BY DEF IInv
<1>2. ~Starting
  BY <1>1 DEF SetupInv, Started
<1>3. Situation(i)
  BY <1>1, <1>2 DEF HandOverInv
<1>4. ~Stopping
  BY <1>1, <1>3 DEF Situation, Joined, Stopping, Ending, Resting, ControlInv, TypeOK, Threads
<1>5. Released(i) /\ Working(i)
  BY <1>3, <1>4 DEF Situation, Resting, Waking, Working, Finished
<1> QED
  BY <1>2, <1>5

\* The task of such a worker is its part of the current call's vector.
LEMMA BusyTask ==
  ASSUME IInv, NEW i \in Threads,
         \/ workerPc[i] \in {"run", "unlockFinished"}
         \/ workerPc[i] = "test" /\ keepRunning
  PROVE  /\ tasks[i].call = calls
         /\ tasks[i].start = StartInd(total, BatchSize, i, ThreadsNum)
         /\ tasks[i].end = EndInd(total, BatchSize, i, ThreadsNum)
<1>1. Released(i)
  BY BusyWorker
<1>2. tasks[i] = [call |-> calls,
                  start |-> StartInd(total, BatchSize, i, ThreadsNum),
                  end |-> EndInd(total, BatchSize, i, ThreadsNum)]
  BY <1>1 DEF IInv, TaskInv, Released
<1> QED
  BY <1>2

\* A released worker has its part of the current call's vector.
LEMMA StepTask == IInv /\ [Next]_vars => TaskInv'
<1> SUFFICES ASSUME IInv, [Next]_vars PROVE TaskInv'
  OBVIOUS
<1> USE PoolAssumption
<1>0. TypeOK /\ HandOverInv /\ ControlInv /\ TaskInv
  BY DEF IInv
<1> USE <1>0 DEF TypeOK, HandOverInv, ControlInv, TaskInv, Starting, Stopping, HandingOver,
             Released, Resting, Waking, Working, Finished, Ending,
             Joined, Situation, mainVars, mutexVars, Threads
<1>1. CASE SpawnWorker
  BY <1>1 DEF SpawnWorker, LoopOr
<1>2. CASE SetupDone
  BY <1>2 DEF SetupDone
<1>3. CASE BeginCall
  <2>1. /\ mainPc = "idle" /\ mainPc' = "set" /\ ind = 0 /\ ind' = 0
        /\ workerPc' = workerPc /\ tasks' = tasks
    BY <1>3 DEF BeginCall
  <2>2. \A i \in Threads : workerPc[i] # "run"
    BY <2>1
  <2> QED
    BY <2>1, <2>2
<1>4. CASE LockSet
  BY <1>4 DEF LockSet
<1>5. CASE ResetTask
  BY <1>5 DEF ResetTask
<1>6. CASE AssignTask
  BY <1>6 DEF AssignTask
<1>7. CASE ReleaseWorker
  BY <1>7 DEF ReleaseWorker, LoopOr
<1>8. CASE AwaitWorker
  BY <1>8 DEF AwaitWorker, LoopOr
<1>9. CASE BeginDestroy
  BY <1>9 DEF BeginDestroy
<1>10. CASE StopWorker
  BY <1>10 DEF StopWorker
<1>11. CASE JoinWorker
  BY <1>11 DEF JoinWorker, LoopOr
<1>12. ASSUME NEW i \in Threads, Worker(i) PROVE TaskInv'
  <2>1. CASE TakeFinished(i)
    BY <2>1 DEF TakeFinished, Goto
  <2>2. CASE TakeExecute(i)
    BY <2>2 DEF TakeExecute, Goto
  <2>3. CASE CountDown(i)
    BY <2>3 DEF CountDown, Goto
  <2>4. CASE AwaitTask(i)
    BY <2>4 DEF AwaitTask, Goto
  <2>5. CASE StartTask(i)
    <3>1. /\ mainPc' = mainPc /\ ind' = ind /\ calls' = calls /\ total' = total
          /\ tasks' = tasks
          /\ workerPc' = [workerPc EXCEPT ![i] = "run"]
          /\ pos' = [pos EXCEPT ![i] = tasks[i].start]
      BY <2>5 DEF StartTask, Goto
    <3>2. tasks[i].start = StartInd(total, BatchSize, i, ThreadsNum)
      BY <2>5, BusyTask DEF StartTask, Goto
    <3>3. StartInd(total, BatchSize, i, ThreadsNum) \in Nat
      BY PoolBounds
    <3>4. ASSUME NEW j \in Threads, workerPc'[j] = "run"
          PROVE  pos'[j] >= StartInd(total, BatchSize, j, ThreadsNum)
      <4>1. CASE j = i
        BY <3>1, <3>2, <3>3, <4>1
      <4>2. CASE j # i
        BY <3>1, <3>4, <4>2
      <4> QED
        BY <4>1, <4>2
    <3> QED
      BY <3>1, <3>4
  <2>6. CASE ExitWorker(i)
    BY <2>6 DEF ExitWorker, Goto
  <2>7. CASE RunBatch(i)
    <3>1. /\ mainPc' = mainPc /\ ind' = ind /\ calls' = calls /\ total' = total
          /\ tasks' = tasks /\ workerPc' = workerPc
          /\ pos' = [pos EXCEPT ![i] = @ + BatchSize]
      BY <2>7 DEF RunBatch
    <3>2. ASSUME NEW j \in Threads, workerPc'[j] = "run"
          PROVE  pos'[j] >= StartInd(total, BatchSize, j, ThreadsNum)
      <4>1. StartInd(total, BatchSize, j, ThreadsNum) \in Nat
        BY PoolBounds
      <4>2. pos[j] >= StartInd(total, BatchSize, j, ThreadsNum)
        BY <3>1, <3>2
      <4> QED
        BY <3>1, <4>1, <4>2
    <3> QED
      BY <3>1, <3>2
  <2>8. CASE FinishTask(i)
    BY <2>8 DEF FinishTask, Goto
  <2>9. CASE ReleaseFinished(i)
    BY <2>9 DEF ReleaseFinished, Goto
  <2>10. CASE ReleaseSet(i)
    BY <2>10 DEF ReleaseSet, Goto
  <2> QED
    BY <1>12, <2>1, <2>2, <2>3, <2>4, <2>5, <2>6, <2>7, <2>8, <2>9, <2>10 DEF Worker
<1>13. CASE UNCHANGED vars
  BY <1>13 DEF vars
<1> QED
  BY <1>1, <1>2, <1>3, <1>4, <1>5, <1>6, <1>7, <1>8, <1>9, <1>10, <1>11, <1>12, <1>13
  DEF Next, Main, Terminated

\* An element has been processed once if its worker got past it, and not at all otherwise.
LEMMA StepApplied == IInv /\ [Next]_vars => AppliedInv'
<1> SUFFICES ASSUME IInv, [Next]_vars PROVE AppliedInv'
  OBVIOUS
<1> USE PoolAssumption
<1>0. TypeOK /\ SetupInv /\ HandOverInv /\ ControlInv /\ TaskInv /\ AppliedInv
  BY DEF IInv
<1>a. \A i \in Threads : Part(total, BatchSize, i, ThreadsNum) \subseteq Elements(total)
  BY <1>0, PoolBounds DEF TypeOK
<1>b. (total' = total /\ applied' = applied
       /\ \A i \in Threads : \A e \in Part(total, BatchSize, i, ThreadsNum) :
            Reached(i, e)' <=> Reached(i, e))
      => AppliedInv'
  BY <1>0 DEF AppliedInv
<1>1. CASE SpawnWorker
  <2>1. total' = total /\ applied' = applied
    BY <1>1 DEF SpawnWorker
  <2>2. \A i \in Threads : \A e : Reached(i, e)' <=> Reached(i, e)
    BY <1>1, <1>0 DEF SpawnWorker, LoopOr, Reached, Released, HandingOver, Waking,
       TypeOK, HandOverInv, Situation, Resting, Starting, Stopping, ControlInv, Threads
  <2> QED
    BY <2>1, <2>2, <1>b
<1>2. CASE SetupDone
  <2>1. total' = total /\ applied' = applied
    BY <1>2 DEF SetupDone
  <2>2. \A i \in Threads : \A e : Reached(i, e)' <=> Reached(i, e)
    BY <1>2, <1>0 DEF SetupDone, Reached, Released, HandingOver, Waking,
       TypeOK, HandOverInv, Situation, Resting, Starting, Stopping, ControlInv, Threads
  <2> QED
    BY <2>1, <2>2, <1>b
<1>3. CASE BeginCall
  <2>1. \A i \in Threads : \A e : ~Reached(i, e)'
    BY <1>3, <1>0 DEF BeginCall, Reached, HandingOver, ControlInv, TypeOK, Threads
  <2>2. \A e \in Elements(total') : applied'[e] = 0
    BY <1>3 DEF BeginCall
  <2>3. total' \in Nat
    BY <1>3 DEF BeginCall
  <2>4. \A i \in Threads : Part(total', BatchSize, i, ThreadsNum) \subseteq Elements(total')
    BY <2>3, PoolBounds
  <2> QED
    BY <2>1, <2>2, <2>4 DEF AppliedInv
<1>4. CASE LockSet
  <2>1. total' = total /\ applied' = applied
    BY <1>4 DEF LockSet
  <2>2. ASSUME NEW j \in Threads, NEW e PROVE Reached(j, e)' <=> Reached(j, e)
    <3>1. CASE j >= ind
      BY <1>4, <3>1 DEF LockSet, Reached, HandingOver
    <3>2. CASE ~(j >= ind)
      BY <1>4, <1>0, <3>2 DEF LockSet, Reached, Released, HandingOver, Waking, mutexVars, TypeOK, Threads
    <3> QED
      BY <3>1, <3>2
  <2> QED
    BY <2>1, <2>2, <1>b
<1>5. CASE ResetTask
  <2>1. total' = total /\ applied' = applied
    BY <1>5 DEF ResetTask
  <2>2. ASSUME NEW j \in Threads, NEW e PROVE Reached(j, e)' <=> Reached(j, e)
    <3>1. CASE j >= ind
      BY <1>5, <3>1 DEF ResetTask, Reached, HandingOver
    <3>2. CASE ~(j >= ind)
      BY <1>5, <1>0, <3>2 DEF ResetTask, Reached, Released, HandingOver, Waking, mutexVars, TypeOK, Threads
    <3> QED
      BY <3>1, <3>2
  <2> QED
    BY <2>1, <2>2, <1>b
<1>6. CASE AssignTask
  <2>1. total' = total /\ applied' = applied
    BY <1>6 DEF AssignTask
  <2>2. ASSUME NEW j \in Threads, NEW e PROVE Reached(j, e)' <=> Reached(j, e)
    <3>1. CASE j >= ind
      BY <1>6, <3>1 DEF AssignTask, Reached, HandingOver
    <3>2. CASE ~(j >= ind)
      BY <1>6, <1>0, <3>2 DEF AssignTask, Reached, Released, HandingOver, Waking, mutexVars, TypeOK, Threads
    <3> QED
      BY <3>1, <3>2
  <2> QED
    BY <2>1, <2>2, <1>b
<1>7. CASE ReleaseWorker
  <2>1. total' = total /\ applied' = applied
    BY <1>7 DEF ReleaseWorker
  <2>2. ASSUME NEW j \in Threads, NEW e PROVE Reached(j, e)' <=> Reached(j, e)
    <3>1. CASE j > ind
      BY <1>7, <1>0, <3>1 DEF ReleaseWorker, LoopOr, Reached, HandingOver, TypeOK, Threads
    <3>2. CASE j = ind
      <4>1. Resting(j) /\ Preparing(j)
        BY <1>7, <1>0, <3>2 DEF ReleaseWorker, HandOverInv, Situation, Starting, Stopping,
           Released, HandingOver, Preparing, Threads
      <4>2. Waking(j)'
        BY <1>7, <1>0, <3>2, <4>1 DEF ReleaseWorker, Resting, Waking, TypeOK
      <4>3. Released(j)'
        BY <1>7, <1>0, <3>2 DEF ReleaseWorker, LoopOr, Released, HandingOver, TypeOK, Threads
      <4>4. ~Reached(j, e)
        BY <1>7, <1>0, <3>2 DEF ReleaseWorker, Reached, HandingOver, TypeOK, Threads
      <4> QED
        BY <4>2, <4>3, <4>4 DEF Reached
    <3>3. CASE j < ind
      <4>1. Released(j) /\ Released(j)' /\ ~(HandingOver /\ j >= ind)
        <5>1. j \in Int /\ ind \in Int /\ j >= 0
          BY <1>0 DEF TypeOK, Threads
        <5>2. mainPc = "execute"
          BY <1>7 DEF ReleaseWorker
        <5>3. \/ mainPc' = "set" /\ ind' = ind + 1
              \/ mainPc' = "execute" /\ ind' = ind + 1
              \/ mainPc' = "wait" /\ ind' = 0
          BY <1>7 DEF ReleaseWorker, LoopOr
        <5> QED
          BY ONLY <3>3, <5>1, <5>2, <5>3 DEF Released, HandingOver
      <4>2. ~(HandingOver' /\ j >= ind')
        <5>1. j \in Int /\ ind \in Int
          BY <1>0 DEF TypeOK, Threads
        <5>2. \/ mainPc' = "wait"
              \/ ind' = ind + 1
          BY <1>7 DEF ReleaseWorker, LoopOr
        <5> QED
          BY <3>3, <5>1, <5>2 DEF HandingOver
      <4>3. Waking(j)' <=> Waking(j)
        <5>1. j # ind
          BY <1>0, <3>3 DEF TypeOK, Threads
        <5> QED
          BY <1>7, <1>0, <5>1 DEF ReleaseWorker, Waking, TypeOK
      <4> QED
        BY <1>7, <4>1, <4>2, <4>3 DEF ReleaseWorker, Reached
    <3> QED
      BY <1>0, <3>1, <3>2, <3>3 DEF TypeOK, Threads
  <2> QED
    BY <2>1, <2>2, <1>b
<1>8. CASE AwaitWorker
  <2>1. total' = total /\ applied' = applied
    BY <1>8 DEF AwaitWorker
  <2>2. ASSUME NEW j \in Threads, NEW e PROVE Reached(j, e)' <=> Reached(j, e)
    <3>1. ~HandingOver /\ ~HandingOver'
      BY <1>8 DEF AwaitWorker, LoopOr, HandingOver
    <3>2. CASE j = ind
      <4>1. Finished(j)
        BY <1>8, <1>0, <3>2 DEF AwaitWorker, HandOverInv, Situation, Starting, Stopping,
           Released, Waking, Working, Threads, TypeOK
      <4>2. Reached(j, e)
        BY <3>1, <4>1 DEF Reached, Finished, Waking
      <4>3. Reached(j, e)'
        BY <1>8, <1>0, <3>1, <3>2, <4>1 DEF AwaitWorker, LoopOr, Reached, Released, Finished,
           HandingOver, TypeOK, Threads
      <4> QED
        BY <4>2, <4>3
    <3>3. CASE j # ind
      <4>1. Released(j)' <=> Released(j)
        <5>1. /\ Released(j) <=> j >= ind
              /\ Released(j)' <=> mainPc' = "wait" /\ j >= ind'
          BY <1>8, <3>1 DEF AwaitWorker, Released
        <5>2. \/ mainPc' = "wait" /\ ind' = ind + 1
              \/ mainPc' = "idle" /\ ind = ThreadsNum - 1
          BY <1>8, <1>0 DEF AwaitWorker, LoopOr, TypeOK, Threads
        <5>3. /\ j \in Int /\ ind \in Int /\ ThreadsNum \in Int
              /\ j <= ThreadsNum - 1
          BY <1>0, PoolAssumption DEF TypeOK, Threads
        <5>4. CASE mainPc' = "wait" /\ ind' = ind + 1
          BY ONLY <3>3, <5>1, <5>3, <5>4
        <5>5. CASE mainPc' = "idle" /\ ind = ThreadsNum - 1
          BY ONLY <3>3, <5>1, <5>3, <5>5
        <5> QED
          BY <5>2, <5>4, <5>5
      <4>2. Waking(j)' <=> Waking(j)
        BY <1>8, <1>0, <3>3 DEF AwaitWorker, Waking, TypeOK
      <4> QED
        BY <1>8, <3>1, <4>1, <4>2 DEF AwaitWorker, Reached
    <3> QED
      BY <3>2, <3>3
  <2> QED
    BY <2>1, <2>2, <1>b
<1>9. CASE BeginDestroy
  <2>1. total' = total /\ applied' = applied
    BY <1>9 DEF BeginDestroy
  <2>2. \A i \in Threads : \A e : Reached(i, e)' <=> Reached(i, e)
    BY <1>9, <1>0 DEF BeginDestroy, Reached, Released, HandingOver, Waking,
       TypeOK, HandOverInv, Situation, Resting, Starting, Stopping, ControlInv, Threads
  <2> QED
    BY <2>1, <2>2, <1>b
<1>10. CASE StopWorker
  <2>1. total' = total /\ applied' = applied
    BY <1>10 DEF StopWorker
  <2>2. \A i \in Threads : \A e : Reached(i, e)' <=> Reached(i, e)
    BY <1>10, <1>0 DEF StopWorker, Reached, Released, HandingOver, Waking,
       TypeOK, HandOverInv, Situation, Resting, Starting, Stopping, ControlInv, Threads
  <2> QED
    BY <2>1, <2>2, <1>b
<1>11. CASE JoinWorker
  <2>1. total' = total /\ applied' = applied
    BY <1>11 DEF JoinWorker
  <2>2. \A i \in Threads : \A e : Reached(i, e)' <=> Reached(i, e)
    BY <1>11, <1>0 DEF JoinWorker, LoopOr, Reached, Released, HandingOver, Waking,
       TypeOK, HandOverInv, Situation, Resting, Starting, Stopping, ControlInv, Threads
  <2> QED
    BY <2>1, <2>2, <1>b
<1>12. ASSUME NEW i \in Threads, Worker(i) PROVE AppliedInv'
  <2>1. CASE TakeFinished(i)
    <3>1. total' = total /\ applied' = applied
      BY <2>1 DEF TakeFinished, mainVars
    <3>2. \A j \in Threads : \A e : Reached(j, e)' <=> Reached(j, e)
      BY <2>1, <1>0 DEF TakeFinished, Goto, mainVars, mutexVars, Reached, Released, HandingOver, Waking,
         TypeOK, HandOverInv, Situation, Resting, Starting, Stopping, ControlInv, Threads
    <3> QED
      BY <3>1, <3>2, <1>b
  <2>2. CASE TakeExecute(i)
    <3>1. total' = total /\ applied' = applied
      BY <2>2 DEF TakeExecute, mainVars
    <3>2. \A j \in Threads : \A e : Reached(j, e)' <=> Reached(j, e)
      BY <2>2, <1>0 DEF TakeExecute, Goto, mainVars, mutexVars, Reached, Released, HandingOver, Waking,
         TypeOK, HandOverInv, Situation, Resting, Starting, Stopping, ControlInv, Threads
    <3> QED
      BY <3>1, <3>2, <1>b
  <2>3. CASE CountDown(i)
    <3>1. total' = total /\ applied' = applied
      BY <2>3 DEF CountDown, mainVars
    <3>2. ASSUME NEW j \in Threads, NEW e \in Part(total, BatchSize, j, ThreadsNum)
          PROVE  Reached(j, e)' <=> Reached(j, e)
      <4>1. CASE j # i
        BY <2>3, <1>0, <4>1 DEF CountDown, Goto, mainVars, mutexVars, Reached, Released, HandingOver, Waking, TypeOK
      <4>2. CASE j = i
        <5>1. Starting
          <6>1. workerPc[i] = "ready"
            BY <2>3 DEF CountDown, Goto
          <6>2. ~Situation(i)
            BY <1>0, <6>1 DEF Situation, Joined, Stopping, Ending, Resting, Waking, Working,
               Finished, TypeOK, MainPcs, Threads
          <6> QED
            BY <1>0, <6>2 DEF HandOverInv
        <5>2. ~Released(i) /\ ~Released(i)' /\ ~HandingOver /\ ~HandingOver'
          BY <2>3, <5>1 DEF CountDown, mainVars, Starting, Released, HandingOver
        <5> QED
          BY <4>2, <5>2 DEF Reached
      <4> QED
        BY <4>1, <4>2
    <3> QED
      BY <3>1, <3>2, <1>b
  <2>4. CASE AwaitTask(i)
    <3>1. total' = total /\ applied' = applied
      BY <2>4 DEF AwaitTask, mainVars
    <3>2. ASSUME NEW j \in Threads, NEW e \in Part(total, BatchSize, j, ThreadsNum)
          PROVE  Reached(j, e)' <=> Reached(j, e)
      <4>1. CASE j # i
        BY <2>4, <1>0, <4>1 DEF AwaitTask, Goto, mainVars, mutexVars, Reached, Released, HandingOver, Waking, TypeOK
      <4>2. CASE j = i
        <5>1. Released(i)' <=> Released(i)
          BY <2>4 DEF AwaitTask, mainVars, Released, HandingOver
        <5>2. HandingOver' <=> HandingOver
          BY <2>4 DEF AwaitTask, mainVars, HandingOver
        <5>3. Released(i) => Waking(i)
          BY <2>4, <1>0 DEF AwaitTask, Goto, HandOverInv, Situation, Starting, Stopping, Released,
             HandingOver, Working, Finished, Waking
        <5>4. workerPc'[i] = "test" /\ ind' = ind
          BY <2>4, <1>0 DEF AwaitTask, Goto, mainVars, TypeOK
        <5> QED
          BY <4>2, <5>1, <5>2, <5>3, <5>4 DEF Reached
      <4> QED
        BY <4>1, <4>2
    <3> QED
      BY <3>1, <3>2, <1>b
  <2>5. CASE StartTask(i)
    <3>1. total' = total /\ applied' = applied
      BY <2>5 DEF StartTask, mainVars
    <3>2. ASSUME NEW j \in Threads, NEW e \in Part(total, BatchSize, j, ThreadsNum)
          PROVE  Reached(j, e)' <=> Reached(j, e)
      <4>1. CASE j # i
        BY <2>5, <1>0, <4>1 DEF StartTask, Goto, mainVars, mutexVars, Reached, Released, HandingOver, Waking, TypeOK
      <4>2. CASE j = i
        <5>0. workerPc[i] = "test" /\ keepRunning
          BY <2>5 DEF StartTask, Goto
        <5>1. Released(i)
          BY <5>0, BusyWorker
        <5>7. tasks[i].start = StartInd(total, BatchSize, i, ThreadsNum)
          BY <5>0, BusyTask
        <5>2. Released(i)'
          BY <2>5, <5>1 DEF StartTask, mainVars, Released, HandingOver
        <5>3. ~Reached(i, e)
          BY <2>5, <5>1 DEF StartTask, Goto, Reached
        <5>4. workerPc'[i] = "run" /\ pos'[i] = StartInd(total, BatchSize, i, ThreadsNum)
          BY <2>5, <1>0, <5>7 DEF StartTask, Goto, TypeOK
        <5>5. StartInd(total, BatchSize, i, ThreadsNum) \in Nat
              /\ EndInd(total, BatchSize, i, ThreadsNum) \in Nat
          BY <1>0, PoolBounds DEF TypeOK
        <5>6. ~(e < pos'[i])
          BY <4>2, <5>4, <5>5 DEF Part
        <5> QED
          BY <4>2, <5>2, <5>3, <5>4, <5>6 DEF Reached
      <4> QED
        BY <4>1, <4>2
    <3> QED
      BY <3>1, <3>2, <1>b
  <2>6. CASE ExitWorker(i)
    <3>1. total' = total /\ applied' = applied
      BY <2>6 DEF ExitWorker, mainVars
    <3>2. \A j \in Threads : \A e : Reached(j, e)' <=> Reached(j, e)
      BY <2>6, <1>0 DEF ExitWorker, Goto, mainVars, mutexVars, Reached, Released, HandingOver, Waking,
         TypeOK, HandOverInv, Situation, Resting, Starting, Stopping, ControlInv, Threads
    <3> QED
      BY <3>1, <3>2, <1>b
  <2>7. CASE RunBatch(i)
    <3> DEFINE first == StartInd(total, BatchSize, i, ThreadsNum)
               last == EndInd(total, BatchSize, i, ThreadsNum)
    <3>0. workerPc[i] = "run"
      BY <2>7 DEF RunBatch
    <3>1. Released(i) /\ Working(i)
      BY <3>0, BusyWorker
    <3>8. tasks[i].end = last
      BY <3>0, BusyTask
    <3>2. first \in Nat /\ last \in Nat /\ pos[i] \in Nat /\ pos[i] >= first
      BY <2>7, <1>0, PoolBounds DEF RunBatch, TypeOK, TaskInv
    <3> HIDE DEF first, last
    <3>3. /\ workerPc[i] = "run" /\ workerPc' = workerPc /\ total' = total
          /\ mainPc' = mainPc /\ ind' = ind
          /\ executeLocked' = executeLocked /\ setLocked' = setLocked
          /\ finishedLocked' = finishedLocked
          /\ applied' = [e \in DOMAIN applied |->
                           IF e \in Window(pos[i], BatchSize, last)
                           THEN applied[e] + 1 ELSE applied[e]]
          /\ pos' = [pos EXCEPT ![i] = pos[i] + BatchSize]
      BY <2>7, <3>8 DEF RunBatch, mainVars, mutexVars
    <3>4. \A e \in Int : e \in Window(pos[i], BatchSize, last) <=>
                        pos[i] <= e /\ e < pos[i] + BatchSize /\ e < last
      BY <3>2 DEF Window, BatchEnd
    <3>5. \A e \in Int : e \in Part(total, BatchSize, i, ThreadsNum) <=> first <= e /\ e < last
      BY <3>2 DEF Part, first, last
    <3>6. ~(HandingOver /\ i >= ind)
      BY <1>0, <3>1 DEF Released, HandingOver, TypeOK, Threads
    <3>7. ASSUME NEW j \in Threads, NEW e \in Part(total, BatchSize, j, ThreadsNum)
          PROVE  applied'[e] = IF Reached(j, e)' THEN 1 ELSE 0
      <4>1. e \in Elements(total) /\ e \in Int
        BY <1>a DEF Elements
      <4>2. applied[e] = IF Reached(j, e) THEN 1 ELSE 0
        BY <1>0 DEF AppliedInv
      <4>3. DOMAIN applied = Elements(total)
        BY <1>0 DEF TypeOK
      <4>4. CASE j = i
        <5>1. Reached(i, e) <=> e < pos[i]
          BY <3>1, <3>3, <3>6 DEF Reached, Working, Waking
        <5>2. Reached(i, e)' <=> e < pos'[i]
          BY <3>1, <3>3, <3>6 DEF Reached, Working, Waking, Released, HandingOver
        <5>3. pos'[i] = pos[i] + BatchSize
          BY <1>0, <3>3 DEF TypeOK
        <5>4. first <= e /\ e < last
          BY <3>5, <4>1, <4>4
        <5> QED
          BY <3>2, <3>3, <3>4, <4>1, <4>2, <4>3, <4>4, <5>1, <5>2, <5>3, <5>4
      <4>5. CASE j # i
        <5>1. Reached(j, e)' <=> Reached(j, e)
          BY <1>0, <3>3, <4>5 DEF Reached, Released, HandingOver, Waking, TypeOK
        <5>2. e \notin Part(total, BatchSize, i, ThreadsNum)
          BY <1>0, <4>5, PartsDisjoint DEF TypeOK, Threads
        <5>3. e \notin Window(pos[i], BatchSize, last)
          BY <3>2, <3>4, <3>5, <4>1, <5>2
        <5> QED
          BY <3>3, <4>1, <4>2, <4>3, <5>1, <5>3
      <4> QED
        BY <4>4, <4>5
    <3> QED
      BY <3>3, <3>7 DEF AppliedInv
  <2>8. CASE FinishTask(i)
    <3>1. total' = total /\ applied' = applied
      BY <2>8 DEF FinishTask, mainVars
    <3>2. ASSUME NEW j \in Threads, NEW e \in Part(total, BatchSize, j, ThreadsNum)
          PROVE  Reached(j, e)' <=> Reached(j, e)
      <4>1. CASE j # i
        BY <2>8, <1>0, <4>1 DEF FinishTask, Goto, mainVars, mutexVars, Reached, Released, HandingOver, Waking, TypeOK
      <4>2. CASE j = i
        <5>0. workerPc[i] = "run"
          BY <2>8 DEF FinishTask, Goto
        <5>1. Released(i) /\ Working(i)
          BY <5>0, BusyWorker
        <5>7. tasks[i].end = EndInd(total, BatchSize, i, ThreadsNum)
          BY <5>0, BusyTask
        <5>2. /\ workerPc[i] = "run" /\ workerPc'[i] = "unlockFinished"
              /\ pos[i] >= EndInd(total, BatchSize, i, ThreadsNum)
          BY <2>8, <1>0, <5>7 DEF FinishTask, Goto, TypeOK
        <5>3. StartInd(total, BatchSize, i, ThreadsNum) \in Nat
              /\ EndInd(total, BatchSize, i, ThreadsNum) \in Nat /\ pos[i] \in Nat
          BY <1>0, PoolBounds DEF TypeOK
        <5>4. e < pos[i]
          BY <4>2, <5>2, <5>3 DEF Part
        <5>5. ~(HandingOver /\ i >= ind)
          <6>1. i \in Int /\ ind \in Int
            BY <1>0 DEF TypeOK, Threads
          <6> QED
            BY <5>1, <6>1 DEF Released, HandingOver
        <5>6. ~(HandingOver /\ i >= ind)'
          BY <2>8, <5>5 DEF FinishTask, mainVars, HandingOver
        <5> QED
          BY <4>2, <5>1, <5>2, <5>4, <5>5, <5>6 DEF Reached, Waking
      <4> QED
        BY <4>1, <4>2
    <3> QED
      BY <3>1, <3>2, <1>b
  <2>9. CASE ReleaseFinished(i)
    <3>1. total' = total /\ applied' = applied
      BY <2>9 DEF ReleaseFinished, mainVars
    <3>2. \A j \in Threads : \A e : Reached(j, e)' <=> Reached(j, e)
      BY <2>9, <1>0 DEF ReleaseFinished, Goto, mainVars, mutexVars, Reached, Released, HandingOver, Waking,
         TypeOK, HandOverInv, Situation, Resting, Starting, Stopping, ControlInv, Threads
    <3> QED
      BY <3>1, <3>2, <1>b
  <2>10. CASE ReleaseSet(i)
    <3>1. total' = total /\ applied' = applied
      BY <2>10 DEF ReleaseSet, mainVars
    <3>2. \A j \in Threads : \A e : Reached(j, e)' <=> Reached(j, e)
      BY <2>10, <1>0 DEF ReleaseSet, Goto, mainVars, mutexVars, Reached, Released, HandingOver, Waking,
         TypeOK, HandOverInv, Situation, Resting, Starting, Stopping, ControlInv, Threads
    <3> QED
      BY <3>1, <3>2, <1>b
  <2> QED
    BY <1>12, <2>1, <2>2, <2>3, <2>4, <2>5, <2>6, <2>7, <2>8, <2>9, <2>10 DEF Worker
<1>13. CASE UNCHANGED vars
  <2>1. total' = total /\ applied' = applied /\ \A i, e : Reached(i, e)' <=> Reached(i, e)
    BY <1>13 DEF vars, mainVars, mutexVars, Reached, Released, HandingOver, Waking
  <2> QED
    BY <2>1, <1>b
<1> QED
  BY <1>1, <1>2, <1>3, <1>4, <1>5, <1>6, <1>7, <1>8, <1>9, <1>10, <1>11, <1>12, <1>13
  DEF Next, Main, Terminated

-----------------------------------------------------------------------------
\* The inductive invariant holds in every reachable state: which mutexes are
\* locked at each point of the hand-over, and how far each worker got.
THEOREM Invariance == Spec => []IInv
<1>1. IInv /\ [Next]_vars => IInv'
  BY StepType, StepSetup, StepHandOver, StepControl, StepTask, StepApplied DEF IInv
<1> QED
  BY InitIInv, <1>1, PTL DEF Spec

THEOREM TypeCorrectness == Spec => []TypeOK
<1>1. IInv => TypeOK
  BY DEF IInv
<1> QED
  BY Invariance, <1>1, PTL

\* What the invariant says about a worker the main thread has not released.
LEMMA RestingWorker ==
  ASSUME IInv, NEW i \in Threads,
         \/ mainPc = "idle"
         \/ mainPc \in {"reset", "assign", "execute", "stop"} /\ i = ind
  PROVE  Resting(i)
<1>1. TypeOK /\ HandOverInv
  BY DEF IInv
<1>2. Situation(i)
  BY <1>1 DEF HandOverInv, Starting
<1> QED
  BY <1>1, <1>2 DEF Situation, Stopping, Released, HandingOver, TypeOK, Threads

LEMMA CompleteStep == IInv => ReturnIsComplete
<1> SUFFICES ASSUME IInv, mainPc = "idle"
             PROVE  /\ \A e \in Elements(total) : applied[e] = 1
                    /\ \A i \in Threads : workerPc[i] \notin {"test", "run"}
  BY DEF ReturnIsComplete
<1>1. ASSUME NEW i \in Threads PROVE workerPc[i] \notin {"test", "run"}
  BY RestingWorker DEF Resting
<1>2. ASSUME NEW e \in Elements(total) PROVE applied[e] = 1
  <2>1. PICK i \in Threads : e \in Part(total, BatchSize, i, ThreadsNum)
    BY PartsCover, PoolAssumption DEF IInv, TypeOK, Elements, Threads
  <2>2. Reached(i, e)
    BY DEF Reached, HandingOver, Released
  <2> QED
    BY <2>1, <2>2 DEF IInv, AppliedInv
<1> QED
  BY <1>1, <1>2

LEMMA AtMostOnceStep == IInv => AppliedAtMostOnce
<1> SUFFICES ASSUME IInv, NEW e \in Elements(total) PROVE applied[e] <= 1
  BY DEF AppliedAtMostOnce, IInv, TypeOK
<1>1. PICK i \in Threads : e \in Part(total, BatchSize, i, ThreadsNum)
  BY PartsCover, PoolAssumption DEF IInv, TypeOK, Elements, Threads
<1>2. applied[e] = IF Reached(i, e) THEN 1 ELSE 0
  BY <1>1 DEF IInv, AppliedInv
<1> QED
  BY <1>2

\* A call that has returned applied func exactly once to every element, and no
\* worker is still inside a task.
THEOREM ReturnsComplete == Spec => []ReturnIsComplete
  BY Invariance, CompleteStep, PTL

\* No element of the vector is processed twice by one call.
THEOREM NeverAppliedTwice == Spec => []AppliedAtMostOnce
  BY Invariance, AtMostOnceStep, PTL

\* The main thread never frees or replaces a task that is being executed.
THEOREM TasksNotInUse == Spec => []TaskNotInUse
<1>1. IInv => TaskNotInUse
  <2> SUFFICES ASSUME IInv, mainPc \in {"reset", "assign"}
               PROVE  workerPc[ind] \notin {"test", "run"}
    BY DEF TaskNotInUse
  <2>1. ind \in Threads
    BY DEF IInv, TypeOK
  <2> QED
    BY <2>1, RestingWorker DEF Resting
<1> QED
  BY Invariance, <1>1, PTL

\* A worker only ever executes the task of the call in progress.
THEOREM RunsCurrent == Spec => []RunsCurrentTask
<1>1. IInv => RunsCurrentTask
  <2> SUFFICES ASSUME IInv, NEW i \in Threads, workerPc[i] = "run"
               PROVE  tasks[i].call = calls /\ tasks[i].call > 0
    BY DEF RunsCurrentTask
  <2>1. tasks[i].call = calls
    BY BusyTask
  <2>2. Released(i)
    BY BusyWorker
  <2>3. calls > 0
    BY <2>2 DEF IInv, ControlInv, Released
  <2> QED
    BY <2>1, <2>3
<1> QED
  BY Invariance, <1>1, PTL

\* Every unlock wakes someone: it finds its mutex locked.
THEOREM UnlocksFindLocks == Spec => []NoLostUnlock
<1>1. IInv => NoLostUnlock
  <2> SUFFICES ASSUME IInv PROVE NoLostUnlock
    OBVIOUS
  <2>1. ASSUME mainPc \in {"execute", "stop"} PROVE executeLocked[ind]
    <3>1. ind \in Threads
      BY DEF IInv, TypeOK
    <3> QED
      BY <2>1, <3>1, RestingWorker DEF Resting
  <2>2. ASSUME NEW i \in Threads, workerPc[i] = "unlockFinished" PROVE finishedLocked[i]
    BY <2>2, BusyWorker DEF Working
  <2>3. ASSUME NEW i \in Threads, workerPc[i] = "unlockSet" PROVE setLocked[i]
    <3>1. TypeOK /\ SetupInv /\ HandOverInv
      BY DEF IInv
    <3>2. ~Starting
      BY <2>3, <3>1 DEF SetupInv, Started
    <3>3. Situation(i)
      BY <3>1, <3>2 DEF HandOverInv
    <3> QED
      BY <2>3, <3>1, <3>3 DEF Situation, Joined, Ending, Resting, Waking, Working, Finished,
         Stopping, TypeOK, Threads, MainPcs
  <2> QED
    BY <2>1, <2>2, <2>3 DEF NoLostUnlock
<1> QED
  BY Invariance, <1>1, PTL

\* When the destructor writes keep_running, no worker is about to read it.
THEOREM KeepRunningExclusive == Spec => []KeepRunningNotRaced
<1>1. IInv => KeepRunningNotRaced
  BY RestingWorker DEF KeepRunningNotRaced, Resting
<1> QED
  BY Invariance, <1>1, PTL

-----------------------------------------------------------------------------
\* Every step of the pool is a step of the abstract parallel call or leaves
\* what the caller sees unchanged.
LEMMA CallStep == IInv /\ IInv' /\ [Next]_vars => [Call!Next]_(Call!vars)
<1> SUFFICES ASSUME IInv, IInv', [Next]_vars PROVE [Call!Next]_(Call!vars)
  OBVIOUS
<1>t. TypeOK /\ TypeOK'
  BY DEF IInv
<1> USE DEF Phase, Call!vars
<1>1. CASE SpawnWorker
  BY <1>1 DEF SpawnWorker, LoopOr
<1>2. CASE SetupDone
  BY <1>2 DEF SetupDone, Call!Next, Call!Ready
<1>3. CASE BeginCall
  BY <1>3 DEF BeginCall, Call!Next, Call!Begin, Elements
<1>4. CASE LockSet
  BY <1>4 DEF LockSet
<1>5. CASE ResetTask
  BY <1>5 DEF ResetTask
<1>6. CASE AssignTask
  BY <1>6 DEF AssignTask
<1>7. CASE ReleaseWorker
  BY <1>7 DEF ReleaseWorker, LoopOr
<1>8. CASE AwaitWorker
  <2>1. /\ mainPc = "wait" /\ mainPc' \in {"wait", "idle"}
        /\ calls' = calls /\ applied' = applied /\ total' = total
    BY <1>8 DEF AwaitWorker, LoopOr
  <2>2. CASE mainPc' = "idle"
    <3>1. \A e \in Elements(total) : applied[e] = 1
      <4>1. IInv' => ReturnIsComplete'
        BY CompleteStep, PTL
      <4>2. calls > 0
        BY <2>1 DEF IInv, ControlInv
      <4> QED
        BY <2>1, <2>2, <4>1, <4>2 DEF ReturnIsComplete, Elements
    <3>2. Call!Todo = {}
      BY <1>t, <3>1 DEF Call!Todo, TypeOK
    <3> QED
      BY <2>1, <2>2, <3>2 DEF Call!Next, Call!Return
  <2>3. CASE mainPc' = "wait"
    BY <2>1, <2>3
  <2> QED
    BY <2>1, <2>2, <2>3
<1>9. CASE BeginDestroy
  BY <1>9 DEF BeginDestroy, Call!Next, Call!End
<1>10. CASE StopWorker
  BY <1>10 DEF StopWorker
<1>11. CASE JoinWorker
  BY <1>11 DEF JoinWorker, LoopOr
<1>12. ASSUME NEW i \in Threads, Worker(i) PROVE [Call!Next]_(Call!vars)
  <2>1. CASE RunBatch(i)
    <3> DEFINE W == {e \in DOMAIN applied : e \in Window(pos[i], BatchSize, tasks[i].end)}
    <3>1. /\ workerPc[i] = "run" /\ mainPc' = mainPc /\ calls' = calls
          /\ applied' = [e \in DOMAIN applied |->
                           IF e \in W THEN applied[e] + 1 ELSE applied[e]]
      BY <2>1 DEF RunBatch, mainVars
    <3>2. Phase = "running" /\ Phase' = "running"
      BY <3>1, BusyWorker DEF Released, HandingOver
    <3>3. ASSUME NEW e \in W PROVE applied[e] = 0
      <4>1. applied'[e] <= 1
        <5>1. AppliedAtMostOnce'
          BY AtMostOnceStep, PTL
        <5> QED
          BY <3>1, <5>1 DEF AppliedAtMostOnce
      <4>2. applied'[e] = applied[e] + 1 /\ applied[e] \in Nat
        BY <1>t, <3>1 DEF TypeOK
      <4> QED
        BY <4>1, <4>2
    <3>4. applied' = [e \in DOMAIN applied |-> IF e \in W THEN 1 ELSE applied[e]]
      BY <3>1, <3>3
    <3> HIDE DEF W
    <3>5. CASE W = {}
      <4>1. applied' = [e \in DOMAIN applied |-> applied[e]]
        BY <3>4, <3>5
      <4> QED
        BY <1>t, <3>1, <4>1 DEF TypeOK
    <3>6. CASE W # {}
      <4>1. W \in (SUBSET Call!Todo) \ {{}}
        BY <3>3, <3>6 DEF W, Call!Todo
      <4>2. Call!Apply
        BY <3>1, <3>2, <3>4, <4>1 DEF Call!Apply
      <4> QED
        BY <4>2 DEF Call!Next
    <3> QED
      BY <3>5, <3>6
  <2>2. CASE ~RunBatch(i)
    BY <1>12, <2>2 DEF Worker, TakeFinished, TakeExecute, CountDown, AwaitTask, StartTask,
       ExitWorker, FinishTask, ReleaseFinished, ReleaseSet, mainVars
  <2> QED
    BY <2>1, <2>2
<1>13. CASE UNCHANGED vars
  BY <1>13 DEF vars, mainVars
<1> QED
  BY <1>1, <1>2, <1>3, <1>4, <1>5, <1>6, <1>7, <1>8, <1>9, <1>10, <1>11, <1>12, <1>13
  DEF Next, Main, Terminated

\* The pool implements the safety part of the abstract parallel call: to its
\* caller a parallel function is one synchronous call.
THEOREM Refinement == Spec => Call!Spec
<1>1. Init => Call!Init
  BY DEF Init, Call!Init, Phase, Elements
<1> QED
  BY <1>1, Invariance, CallStep, PTL DEF Spec, Call!Spec
==============================================================================
