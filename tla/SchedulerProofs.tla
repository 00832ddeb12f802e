-------------------------- MODULE SchedulerProofs --------------------------
(* Theorems about Scheduler, for any sets of functions and diagnostics.    *)
EXTENDS Scheduler, FiniteSetTheorems, SequenceTheorems, TLAPS

LEMMA TypeInit == Init => TypeOK
<1> SUFFICES ASSUME Init PROVE TypeOK
  OBVIOUS
<1>1. stop_event \in {"none", "clear", "set"} /\ cancels \in 0..MaxCancels
  BY SchedulerAssumption DEF Init
<1>2. cancel_event \in BOOLEAN
  BY DEF Init
<1>3. task \in [Functions -> TaskStates]
  BY DEF Init, TaskStates
<1>4. pool_task \in [PoolJobs -> PoolStates] /\ pool_lock \in PoolJobs \cup {Free}
  BY DEF Init, PoolStates
<1>5. waiters \in Seq(PoolJobs) /\ pools \subseteq PoolJobs /\ shutdowns \subseteq PoolJobs
      /\ process \in {"up", "exiting", "ended"}
  BY DEF Init
<1> QED
  BY <1>1, <1>2, <1>3, <1>4, <1>5 DEF TypeOK

LEMMA TypeStep == TypeOK /\ [Next]_vars => TypeOK'
<1> SUFFICES ASSUME TypeOK, [Next]_vars PROVE TypeOK'
  OBVIOUS
<1> USE SchedulerAssumption DEF TypeOK, TaskStates, PoolStates, tasks, pool
<1>1. CASE Start
  BY <1>1 DEF Start
<1>2. CASE Stop
  BY <1>2 DEF Stop
<1>3. CASE CancelTask
  BY <1>3 DEF CancelTask
<1>4. ASSUME NEW f \in Functions, AddTask(f) PROVE TypeOK'
  BY <1>4 DEF AddTask
<1>5. ASSUME NEW f \in Functions, TaskStep(f) PROVE TypeOK'
  BY <1>5 DEF TaskStep, RunTask, FunctionReturns, FunctionRaises,
              AfterFunction, TimerFires, WrapperCancelled
<1>6. ASSUME NEW j \in PoolJobs, AddPoolTask(j) PROVE TypeOK'
  BY <1>6 DEF AddPoolTask
<1>7. ASSUME NEW j \in PoolJobs, PoolStep(j) PROVE TypeOK'
  <2>1. CASE Acquire(j)
    BY <2>1 DEF Acquire
  <2>2. CASE Queue(j)
    BY <2>2 DEF Queue
  <2>3. CASE Wake(j)
    BY <2>3 DEF Wake
  <2>4. CASE PoolFunctionEnds(j)
    BY <2>4 DEF PoolFunctionEnds
  <2>5. CASE Release(j)
    BY <2>5 DEF Release
  <2>6. CASE ShutdownEnds(j)
    BY <2>6 DEF ShutdownEnds
  <2>7. CASE WaiterCancelled(j)
    BY <2>7 DEF WaiterCancelled
  <2>8. CASE ExecutionCancelled(j)
    BY <2>8 DEF ExecutionCancelled
  <2>9. CASE ShutdownCancelled(j)
    BY <2>9 DEF ShutdownCancelled
  <2> QED
    BY <1>7, <2>1, <2>2, <2>3, <2>4, <2>5, <2>6, <2>7, <2>8, <2>9 DEF PoolStep
<1>8. CASE UNCHANGED vars
  BY <1>8 DEF vars
<1>9. CASE RunReturns
  BY <1>9 DEF RunReturns
<1>10. CASE Exit
  BY <1>10 DEF Exit
<1> QED
  BY <1>1, <1>2, <1>3, <1>4, <1>5, <1>6, <1>7, <1>8, <1>9, <1>10 DEF Next

(* Types: the shape of every variable of the scheduler. *)
THEOREM TypeCorrect == Spec => []TypeOK
BY TypeInit, TypeStep, PTL DEF Spec

-----------------------------------------------------------------------------
(* What makes the diagnostics exclusive: a process pool is in the hands of *)
(* the coroutine that executes in it or of a thread that shuts it down,    *)
(* and until run() returns that coroutine holds the lock, from Acquire or  *)
(* Wake until Release.                                                     *)
Attended == \A j \in pools : pool_task[j] = "executing" \/ j \in shutdowns

LockOwned ==
    process = "up" =>
        \A j \in PoolJobs :
            /\ Inside(j) => pool_lock = j
            /\ j \in shutdowns => pool_task[j] = "shutdown"
            /\ pool_task[j] # "closing"

PoolsOwned == Attended /\ LockOwned /\ DiagnosticsSerialised

LEMMA PoolsOwnedStep == TypeOK /\ PoolsOwned /\ [Next]_vars => PoolsOwned'
<1> SUFFICES ASSUME TypeOK, PoolsOwned, [Next]_vars PROVE PoolsOwned'
  OBVIOUS
<1> USE DEF PoolsOwned, Attended, LockOwned, DiagnosticsSerialised, Inside, TypeOK, tasks, pool
<1>1. CASE Start \/ Stop \/ CancelTask \/ UNCHANGED vars
  BY <1>1 DEF Start, Stop, CancelTask, vars
<1>2. ASSUME NEW f \in Functions, AddTask(f) \/ TaskStep(f) PROVE PoolsOwned'
  BY <1>2 DEF AddTask, TaskStep, RunTask, FunctionReturns, FunctionRaises, TimerFires,
              WrapperCancelled
<1>3. ASSUME NEW j \in PoolJobs, AddPoolTask(j) PROVE PoolsOwned'
  BY <1>3 DEF AddPoolTask
<1>4. ASSUME NEW j \in PoolJobs, PoolStep(j) PROVE PoolsOwned'
  <2>1. CASE Acquire(j) \/ Wake(j)
    <3>1. /\ process = "up" /\ pool_lock = Free /\ pool_lock' = j
          /\ pool_task' = [pool_task EXCEPT ![j] = "executing"]
          /\ pools' = pools \cup {j} /\ shutdowns' = shutdowns /\ process' = process
      BY <2>1 DEF Acquire, LockAvailable, Wake
    <3>2. \A i \in PoolJobs : ~Inside(i) /\ i \notin shutdowns
      BY <3>1, SchedulerAssumption
    <3>3. pools = {}
      BY <3>2
    <3> QED BY <3>1, <3>2, <3>3
  <2>2. CASE Queue(j)
    BY <2>2 DEF Queue
  <2>4. CASE PoolFunctionEnds(j)
    BY <2>4 DEF PoolFunctionEnds
  <2>5. CASE Release(j)
    BY <2>5 DEF Release
  <2>6. CASE ShutdownEnds(j)
    BY <2>6 DEF ShutdownEnds
  <2>7. CASE WaiterCancelled(j)
    BY <2>7 DEF WaiterCancelled
  <2>8. CASE ExecutionCancelled(j)
    BY <2>8 DEF ExecutionCancelled
  <2>9. CASE ShutdownCancelled(j)
    BY <2>9 DEF ShutdownCancelled
  <2> QED
    BY <1>4, <2>1, <2>2, <2>4, <2>5, <2>6, <2>7, <2>8, <2>9 DEF PoolStep
<1>5. CASE RunReturns \/ Exit
  BY <1>5 DEF RunReturns, Exit
<1> QED
  BY <1>1, <1>2, <1>3, <1>4, <1>5 DEF Next

LEMMA PoolsOwnedInit == Init => PoolsOwned
BY DEF Init, PoolsOwned, Attended, LockOwned, DiagnosticsSerialised, Inside

(* Two DCGM diagnostics never overlap, shutdown of the worker included,    *)
(* nor does one start while a cancelled one is still being shut down       *)
(* (Scheduler._run_pool_task).                                             *)
THEOREM DiagnosticsExclusive == Spec => []DiagnosticsSerialised
<1>1. PoolsOwned => DiagnosticsSerialised
  BY DEF PoolsOwned
<1> QED
  BY <1>1, PoolsOwnedInit, TypeInit, TypeStep, PoolsOwnedStep, PTL DEF Spec

(* No worker process outlives asyncio.run: whatever a diagnostic is at     *)
(* when it is cancelled, the finally block and the shield see to it that   *)
(* its pool is shut down first.  This is what StopCleansUp adds to the end *)
(* of the process.                                                         *)
NoWorkerOutlives == process = "ended" => pools = {}

THEOREM WorkersEndFirst == Spec => []NoWorkerOutlives
<1>1. Init => NoWorkerOutlives
  BY DEF Init, NoWorkerOutlives
<1>2. TypeOK /\ PoolsOwned /\ NoWorkerOutlives /\ [Next]_vars => NoWorkerOutlives'
  <2> SUFFICES ASSUME TypeOK, PoolsOwned, NoWorkerOutlives, [Next]_vars, process' = "ended"
               PROVE  pools' = {}
    BY DEF NoWorkerOutlives
  <2>1. CASE Exit
    BY <2>1 DEF Exit, PoolsOwned, Attended, TypeOK, pool
  <2>2. CASE ~Exit
    <3>1. process = "ended" /\ pools' \subseteq pools
      BY <2>2 DEF Next, Start, Stop, CancelTask, RunReturns, AddTask, TaskStep, RunTask,
             FunctionReturns, FunctionRaises, TimerFires, WrapperCancelled, AddPoolTask,
             PoolStep, Acquire, Queue, Wake, PoolFunctionEnds, ShutdownEnds, Release,
             WaiterCancelled, ExecutionCancelled, ShutdownCancelled, vars, tasks, pool
    <3> QED BY <3>1 DEF NoWorkerOutlives
  <2> QED BY <2>1, <2>2
<1> QED
  BY <1>1, <1>2, PoolsOwnedInit, TypeInit, TypeStep, PoolsOwnedStep, PTL DEF Spec

-----------------------------------------------------------------------------
(* A loop that ended cost a cancellation, and a flag still set is one that *)
(* was not used: together they are at most the calls of cancel_task.       *)
Pending == IF cancel_event THEN 1 ELSE 0
CancelBudget == stop_event # "set" => Cardinality(EndedLoops) + Pending <= cancels

LEMMA EndedFinite == IsFiniteSet(EndedLoops) /\ Cardinality(EndedLoops) \in Nat
<1>1. IsFiniteSet(EndedLoops)
  BY SchedulerAssumption, FS_Subset DEF EndedLoops
<1> QED
  BY <1>1, FS_CardinalityType

(* A step that changes one task adds at most one loop to those that ended. *)
LEMMA EndedGrows ==
  ASSUME TypeOK, NEW f \in Functions, NEW s, task' = [task EXCEPT ![f] = s]
  PROVE  /\ Cardinality(EndedLoops') \in Nat
         /\ Cardinality(EndedLoops') <= Cardinality(EndedLoops) + 1
<1>1. EndedLoops' \subseteq EndedLoops \cup {f}
  BY DEF EndedLoops, TypeOK, Functions
<1>2. IsFiniteSet(EndedLoops \cup {f}) /\ IsFiniteSet(EndedLoops')
  BY <1>1, EndedFinite, FS_AddElement, FS_Subset
<1>3. Cardinality(EndedLoops \cup {f}) <= Cardinality(EndedLoops) + 1
  BY EndedFinite, FS_AddElement
<1>4. Cardinality(EndedLoops') <= Cardinality(EndedLoops \cup {f})
  BY <1>1, <1>2, FS_Subset
<1>5. Cardinality(EndedLoops') \in Nat /\ Cardinality(EndedLoops \cup {f}) \in Nat
  BY <1>2, FS_CardinalityType
<1> QED
  BY <1>3, <1>4, <1>5, EndedFinite

(* A step that ends no loop does not make the count grow. *)
LEMMA EndedStays ==
  ASSUME EndedLoops' \subseteq EndedLoops
  PROVE  /\ Cardinality(EndedLoops') \in Nat
         /\ Cardinality(EndedLoops') <= Cardinality(EndedLoops)
<1>1. IsFiniteSet(EndedLoops')
  BY EndedFinite, FS_Subset
<1> QED
  BY <1>1, EndedFinite, FS_Subset, FS_CardinalityType

(* Before start() there is no task, hence no timer, and run() returns      *)
(* after stop() only.                                                      *)
NothingBeforeStart ==
    /\ stop_event = "none" => \A f \in Functions : task[f] = "none"
    /\ process # "up" => stop_event = "set"

LEMMA NothingBeforeStartStep ==
  TypeOK /\ NothingBeforeStart /\ [Next]_vars => NothingBeforeStart'
BY DEF NothingBeforeStart, TypeOK, tasks, pool, Next, Start, Stop, CancelTask, AddTask,
       AcceptsTasks, TaskStep, RunTask, FunctionReturns, FunctionRaises, TimerFires,
       WrapperCancelled, AddPoolTask, PoolStep, Acquire, Queue, Wake, PoolFunctionEnds,
       ShutdownEnds, Release, WaiterCancelled, ExecutionCancelled, ShutdownCancelled,
       RunReturns, Exit, vars

LEMMA CancelBudgetStep ==
  TypeOK /\ NothingBeforeStart /\ CancelBudget /\ [Next]_vars => CancelBudget'
<1> SUFFICES ASSUME TypeOK, NothingBeforeStart, CancelBudget, [Next]_vars,
                    stop_event' # "set"
             PROVE  (Cardinality(EndedLoops) + Pending <= cancels)'
  BY DEF CancelBudget
<1> USE DEF tasks, pool
<1>1. stop_event # "set"
  BY DEF Next, Start, Stop, CancelTask, AddTask, TaskStep, RunTask, FunctionReturns,
         FunctionRaises, TimerFires, WrapperCancelled, AddPoolTask, PoolStep, Acquire,
         Queue, Wake, PoolFunctionEnds, ShutdownEnds, Release, WaiterCancelled,
         ExecutionCancelled, ShutdownCancelled, RunReturns, Exit, vars
<1>2. Cardinality(EndedLoops) + Pending <= cancels
  BY <1>1 DEF CancelBudget
<1>3. cancels \in Nat /\ cancel_event \in BOOLEAN
  BY SchedulerAssumption DEF TypeOK
<1>4. CASE UNCHANGED <<tasks>>
  BY <1>2, <1>4 DEF EndedLoops, Pending
<1>5. CASE CancelTask
  <2>1. Cardinality(EndedLoops)' = Cardinality(EndedLoops)
    BY <1>5 DEF CancelTask, EndedLoops
  <2>2. Pending' = 1 /\ Pending \in {0, 1} /\ cancels' = cancels + 1
    BY <1>5 DEF CancelTask, Pending
  <2> QED
    BY <2>1, <2>2, <1>2, <1>3, EndedFinite
<1>6. ASSUME NEW f \in Functions, AddTask(f) \/ RunTask(f)
      PROVE  (Cardinality(EndedLoops) + Pending <= cancels)'
  <2>1. Cardinality(EndedLoops') <= Cardinality(EndedLoops) /\ Cardinality(EndedLoops') \in Nat
    <3>1. EndedLoops' \subseteq EndedLoops
      <4>1. CASE AddTask(f)
        BY <4>1 DEF AddTask, EndedLoops, TypeOK
      <4>2. CASE RunTask(f)
        BY <4>2 DEF RunTask, EndedLoops, TypeOK
      <4> QED
        BY <1>6, <4>1, <4>2
    <3> QED
      BY <3>1, EndedStays
  <2>2. Pending' = Pending /\ Pending \in {0, 1} /\ cancels' = cancels
    BY <1>6 DEF AddTask, RunTask, Pending
  <2> QED
    BY <2>1, <2>2, <1>2, <1>3, EndedFinite
<1>7. ASSUME NEW f \in Functions, FunctionReturns(f) \/ FunctionRaises(f)
      PROVE  (Cardinality(EndedLoops) + Pending <= cancels)'
  <2>1. /\ task' = [task EXCEPT ![f] = IF ~cancel_event /\ f \in Loops
                                        THEN "timer" ELSE "ended"]
        /\ cancel_event' = FALSE /\ cancels' = cancels
    BY <1>7 DEF FunctionReturns, FunctionRaises, AfterFunction
  <2>2. CASE cancel_event
    <3>1. Pending' = 0 /\ Pending = 1
      BY <2>1, <2>2 DEF Pending
    <3>2. Cardinality(EndedLoops') <= Cardinality(EndedLoops) + 1 /\ Cardinality(EndedLoops') \in Nat
      BY <2>1, EndedGrows
    <3> QED
      BY <2>1, <3>1, <3>2, <1>2, <1>3, EndedFinite
  <2>3. CASE ~cancel_event
    <3>1. Pending' = 0 /\ Pending = 0
      BY <2>1, <2>3 DEF Pending
    <3>2. Cardinality(EndedLoops') <= Cardinality(EndedLoops) /\ Cardinality(EndedLoops') \in Nat
      <4>1. EndedLoops' \subseteq EndedLoops
        BY <2>1, <2>3 DEF EndedLoops, TypeOK
      <4> QED
        BY <4>1, EndedStays
    <3> QED
      BY <2>1, <3>1, <3>2, <1>2, <1>3, EndedFinite
  <2> QED
    BY <2>2, <2>3, <1>3
<1>8. ASSUME NEW f \in Functions, TimerFires(f)
      PROVE  (Cardinality(EndedLoops) + Pending <= cancels)'
  <2>1. task' = [task EXCEPT ![f] = "ready"] /\ cancels' = cancels /\ Pending' = Pending
    BY <1>1, <1>8 DEF TimerFires, AcceptsTasks, NothingBeforeStart, TypeOK, Pending
  <2>2. Cardinality(EndedLoops') <= Cardinality(EndedLoops) /\ Cardinality(EndedLoops') \in Nat
    <3>1. EndedLoops' \subseteq EndedLoops
      BY <2>1 DEF EndedLoops, TypeOK
    <3> QED
      BY <3>1, EndedStays
  <2> QED
    BY <2>1, <2>2, <1>2, <1>3, EndedFinite DEF Pending
<1> QED
  BY <1>4, <1>5, <1>6, <1>7, <1>8
     DEF Next, Start, Stop, AddPoolTask, TaskStep, PoolStep, Acquire, Queue, Wake,
         PoolFunctionEnds, ShutdownEnds, Release, WaiterCancelled, ExecutionCancelled,
         ShutdownCancelled, WrapperCancelled, RunReturns, Exit, NothingBeforeStart, vars

(* The cancellation flag is shared by all tasks (Scheduler.cancel_event),  *)
(* yet one call of cancel_task ends at most one periodic check.            *)
THEOREM CancelEndsOneLoop == Spec => []OneLoopPerCancel
<1>1. Init => NothingBeforeStart /\ CancelBudget
  <2> SUFFICES ASSUME Init PROVE NothingBeforeStart /\ CancelBudget
    OBVIOUS
  <2>1. EndedLoops = {} /\ Pending = 0 /\ cancels = 0
    BY DEF Init, EndedLoops, Pending, Functions
  <2>2. Cardinality(EndedLoops) = 0
    BY <2>1, FS_EmptySet
  <2> QED
    BY <2>1, <2>2 DEF Init, NothingBeforeStart, CancelBudget
<1>2. TypeOK /\ CancelBudget => OneLoopPerCancel
  <2> SUFFICES ASSUME TypeOK, CancelBudget, stop_event # "set"
               PROVE  Cardinality(EndedLoops) <= cancels
    BY DEF OneLoopPerCancel
  <2>1. Pending \in {0, 1} /\ cancels \in Nat
    BY SchedulerAssumption DEF TypeOK, Pending
  <2> QED
    BY <2>1, EndedFinite DEF CancelBudget
<1> QED
  BY <1>1, <1>2, TypeInit, TypeStep, NothingBeforeStartStep, CancelBudgetStep, PTL DEF Spec

(* After stop() no wrapper and no diagnostic is created (Scheduler.add_task *)
(* returns None), and a timer that fires ends its loop.                    *)
THEOREM StopIsFinal == Spec => NothingStartsAfterStop
<1>1. TypeOK /\ [Next]_vars =>
        [stop_event = "set" =>
          /\ \A f \in Functions : task'[f] = "ready" => task[f] = "ready"
          /\ \A j \in PoolJobs : pool_task'[j] = "created" => pool_task[j] = "created"]_vars
  BY DEF TypeOK, tasks, pool, Next, Start, Stop, CancelTask, AddTask, AcceptsTasks,
         TaskStep, RunTask, FunctionReturns, FunctionRaises, AfterFunction, TimerFires,
         WrapperCancelled, AddPoolTask, PoolStep, Acquire, Queue, Wake, PoolFunctionEnds,
         ShutdownEnds, Release, WaiterCancelled, ExecutionCancelled, ShutdownCancelled,
         RunReturns, Exit, vars
<1> QED
  BY <1>1, TypeInit, TypeStep, PTL DEF Spec, NothingStartsAfterStop
-----------------------------------------------------------------------------
(* The lock is first come, first served.  The line of FifoLock is the      *)
(* holder, if any, before the waiters; one step of it may take the code    *)
(* two (Release, then Wake) and the end of a function is none.             *)
LEMMA LineOfHolder ==
  ASSUME NEW S, NEW p \in S, NEW w \in Seq(S)
  PROVE  /\ <<p>> \o w \in Seq(S) /\ <<p>> \o w # <<>>
         /\ Len(<<p>> \o w) = Len(w) + 1
         /\ \A i \in 1..(Len(w) + 1) : (<<p>> \o w)[i] = IF i = 1 THEN p ELSE w[i - 1]
         /\ Head(<<p>> \o w) = p /\ Tail(<<p>> \o w) = w
<1> DEFINE l == <<p>> \o w
<1>1. <<p>> \in Seq(S) /\ Len(<<p>>) = 1 /\ <<p>>[1] = p
  OBVIOUS
<1>2. /\ l \in Seq(S) /\ Len(l) = Len(w) + 1
      /\ \A i \in 1..(Len(w) + 1) : l[i] = IF i = 1 THEN p ELSE w[i - 1]
  BY <1>1, ConcatProperties, LenProperties
<1> HIDE DEF l
<1>3. l # <<>> /\ Head(l) = p
  BY <1>2, LenProperties
<1>4. /\ Tail(l) \in Seq(S) /\ Len(Tail(l)) = Len(w)
      /\ \A i \in 1..Len(w) : Tail(l)[i] = l[i + 1]
  BY <1>2, <1>3, HeadTailProperties, LenProperties
<1>5. Tail(l) = w
  BY <1>2, <1>4, SeqEqual, LenProperties
<1> QED
  BY <1>2, <1>3, <1>5 DEF l

LEMMA LineGrows ==
  ASSUME NEW S, NEW p \in S, NEW w \in Seq(S), NEW j \in S
  PROVE  Append(<<p>> \o w, j) = <<p>> \o Append(w, j)
<1>1. <<p>> \in Seq(S) /\ <<j>> \in Seq(S) /\ <<p>> \o w \in Seq(S)
  BY LineOfHolder
<1>2. Append(<<p>> \o w, j) = (<<p>> \o w) \o <<j>>
  BY <1>1, AppendIsConcat
<1>3. Append(w, j) = w \o <<j>>
  BY AppendIsConcat
<1> QED
  BY <1>1, <1>2, <1>3, ConcatAssociative

LEMMA LineSplits ==
  ASSUME NEW S, NEW w \in Seq(S), w # <<>>
  PROVE  Head(w) \in S /\ Tail(w) \in Seq(S) /\ <<Head(w)>> \o Tail(w) = w
BY HeadTailProperties, ConcatSimplifications

(* Until run() returns, whoever holds the lock is in its async with block, *)
(* and those that wait are in the queue once: what a coroutine does next   *)
(* is what the lock says of it.                                            *)
QueueOrderly ==
    process = "up" =>
        /\ \A j \in PoolJobs : pool_lock = j => Inside(j)
        /\ \A i \in 1..Len(waiters) : pool_task[waiters[i]] = "waiting"
        /\ \A i, k \in 1..Len(waiters) : waiters[i] = waiters[k] => i = k

LEMMA QueueOrderlyStep ==
  TypeOK /\ LockOwned /\ QueueOrderly /\ [Next]_vars => QueueOrderly'
<1> SUFFICES ASSUME TypeOK, LockOwned, QueueOrderly, [Next]_vars, process' = "up"
             PROVE  QueueOrderly'
  BY DEF QueueOrderly
<1> USE DEF QueueOrderly, Inside, TypeOK, tasks, pool
<1>0. process = "up" /\ \A i \in 1..Len(waiters) : waiters[i] \in PoolJobs
  <2>1. process = "up"
    BY DEF Next, Start, Stop, CancelTask, RunReturns, Exit, AddTask, TaskStep, RunTask,
           FunctionReturns, FunctionRaises, TimerFires, WrapperCancelled, AddPoolTask,
           PoolStep, Acquire, Queue, Wake, PoolFunctionEnds, ShutdownEnds, Release,
           WaiterCancelled, ExecutionCancelled, ShutdownCancelled, vars
  <2> QED BY <2>1, ElementOfSeq
<1>1. CASE Start \/ Stop \/ CancelTask \/ UNCHANGED vars
  BY <1>1, <1>0 DEF Start, Stop, CancelTask, vars
<1>2. ASSUME NEW f \in Functions, AddTask(f) \/ TaskStep(f) PROVE QueueOrderly'
  BY <1>2, <1>0 DEF AddTask, TaskStep, RunTask, FunctionReturns, FunctionRaises, TimerFires,
              WrapperCancelled
<1>3. ASSUME NEW j \in PoolJobs, AddPoolTask(j) PROVE QueueOrderly'
  BY <1>3, <1>0 DEF AddPoolTask
<1>4. ASSUME NEW j \in PoolJobs, PoolStep(j) PROVE QueueOrderly'
  <2>1. CASE Acquire(j)
    BY <2>1, <1>0 DEF Acquire, LockAvailable
  <2>2. CASE Queue(j)
    <3>1. /\ Len(waiters') = Len(waiters) + 1 /\ waiters'[Len(waiters) + 1] = j
          /\ \A i \in 1..Len(waiters) : waiters'[i] = waiters[i] /\ waiters[i] # j
      BY <2>2, <1>0, AppendProperties DEF Queue
    <3>2. Len(waiters) \in Nat
      BY LenProperties
    <3>3. \A i \in 1..Len(waiters') : i \in 1..Len(waiters) \/ i = Len(waiters) + 1
      BY <3>1, <3>2
    <3> QED
      BY <2>2, <1>0, <3>1, <3>3 DEF Queue
  <2>3. CASE Wake(j)
    <3>1. /\ Len(waiters) \in Nat /\ Len(waiters') = Len(waiters) - 1 /\ waiters[1] = j
          /\ \A i \in 1..Len(waiters') : waiters'[i] = waiters[i + 1] /\ i + 1 \in 1..Len(waiters)
          /\ 1 \in 1..Len(waiters)
      BY <2>3, HeadTailProperties, LenProperties DEF Wake
    <3>2. \A i \in 1..Len(waiters') : waiters'[i] # j
      BY <3>1, <1>0
    <3> QED
      BY <2>3, <1>0, <3>1, <3>2 DEF Wake
  <2>4. CASE PoolFunctionEnds(j)
    BY <2>4, <1>0 DEF PoolFunctionEnds
  <2>5. CASE Release(j)
    BY <2>5, <1>0, SchedulerAssumption DEF Release
  <2>6. CASE ShutdownEnds(j)
    BY <2>6, <1>0 DEF ShutdownEnds
  <2>7. CASE WaiterCancelled(j) \/ ExecutionCancelled(j) \/ ShutdownCancelled(j)
    BY <2>7, <1>0 DEF WaiterCancelled, ExecutionCancelled, ShutdownCancelled
  <2> QED
    BY <1>4, <2>1, <2>2, <2>3, <2>4, <2>5, <2>6, <2>7 DEF PoolStep
<1>5. CASE RunReturns \/ Exit
  BY <1>5 DEF RunReturns, Exit
<1> QED
  BY <1>1, <1>2, <1>3, <1>4, <1>5 DEF Next

Line == IF process # "up" THEN <<>>
        ELSE IF pool_lock = Free THEN waiters ELSE <<pool_lock>> \o waiters
Using == IF process # "up" THEN {} ELSE {j \in PoolJobs : Inside(j)}
Served == IF pool_lock = Free THEN {} ELSE {pool_lock}

(* Who is in the async with block is who holds the lock. *)
LEMMA UsingIsHolder ==
  ASSUME TypeOK, LockOwned, QueueOrderly, process = "up"
  PROVE  Using = Served
BY SchedulerAssumption DEF TypeOK, LockOwned, QueueOrderly, Using, Served

LEMMA LockStepUp ==
  TypeOK /\ LockOwned /\ QueueOrderly /\ process = "up" /\ [Next]_vars
  /\ TypeOK' /\ LockOwned' /\ QueueOrderly' /\ process' = "up"
     => [Lock!Next]_<<Line, Using>>
<1> SUFFICES ASSUME TypeOK, LockOwned, QueueOrderly, process = "up", [Next]_vars,
                    TypeOK', LockOwned', QueueOrderly', process' = "up"
             PROVE  Lock!Next \/ UNCHANGED <<Line, Using>>
  OBVIOUS
<1> USE SchedulerAssumption
<1>1. Using = Served /\ Using' = Served'
  BY UsingIsHolder DEF TypeOK, LockOwned, QueueOrderly, Using, Served
<1>2. waiters \in Seq(PoolJobs) /\ pool_lock \in PoolJobs \cup {Free} /\ Free \notin PoolJobs
  BY DEF TypeOK
<1>3. CASE UNCHANGED pool
  BY <1>3 DEF Line, Using, Inside, pool
<1>4. ASSUME NEW j \in PoolJobs, AddPoolTask(j) \/ PoolFunctionEnds(j) \/ ShutdownEnds(j)
      PROVE  UNCHANGED <<Line, Using>>
  <2>1. UNCHANGED <<waiters, pool_lock>>
    BY <1>4 DEF AddPoolTask, PoolFunctionEnds, ShutdownEnds
  <2> QED
    BY <1>1, <2>1 DEF Line, Served
<1>5. ASSUME NEW j \in PoolJobs, Acquire(j) PROVE Lock!Arrive(j)
  <2>1. Line = <<>> /\ Using = {} /\ Using' = {j}
    BY <1>1, <1>5 DEF Acquire, LockAvailable, Line, Served
  <2>2. Line' = Append(Line, j)
    BY <1>5, <2>1, LineOfHolder, <1>2 DEF Acquire, LockAvailable, Line
  <2> QED
    BY <2>1, <2>2 DEF Lock!Arrive, Line, Using
<1>6. ASSUME NEW j \in PoolJobs, Queue(j) PROVE Lock!Arrive(j)
  <2>1. UNCHANGED pool_lock /\ waiters' = Append(waiters, j) /\ waiters' \in Seq(PoolJobs)
    BY <1>2, <1>6 DEF Queue
  <2>2. Line' = Append(Line, j)
    BY <1>2, <2>1, LineGrows DEF Line
  <2>3. Line # <<>>
    BY <1>2, <1>6, LineOfHolder DEF Queue, LockAvailable, Line
  <2>4. Using' = Using
    BY <1>1, <2>1 DEF Served
  <2>5. \A i \in 1..Len(waiters) : waiters[i] # j
    BY <1>6 DEF Queue, QueueOrderly
  <2>6. pool_lock # j
    BY <1>6 DEF Queue, QueueOrderly, Inside
  <2>7. \A i \in 1..Len(Line) : Line[i] # j
    <3>1. CASE pool_lock = Free
      BY <2>5, <3>1 DEF Line
    <3>2. CASE pool_lock # Free
      <4>1. /\ Len(Line) = Len(waiters) + 1 /\ Len(waiters) \in Nat
            /\ \A i \in 1..(Len(waiters) + 1) :
                  Line[i] = IF i = 1 THEN pool_lock ELSE waiters[i - 1]
        BY <1>2, <3>2, LineOfHolder DEF Line
      <4> QED
        BY <2>5, <2>6, <4>1
    <3> QED
      BY <3>1, <3>2
  <2> QED
    BY <2>2, <2>3, <2>4, <2>7 DEF Lock!Arrive, Line, Using
<1>7. ASSUME NEW j \in PoolJobs, Wake(j) PROVE Lock!Serve
  <2>1. Line = waiters /\ Line # <<>> /\ Using = {} /\ Using' = {j} /\ Head(Line) = j
    BY <1>1, <1>7 DEF Wake, Line, Served
  <2>2. Line' = Line
    <3>1. Line' = <<j>> \o Tail(waiters)
      BY <1>7 DEF Wake, Line
    <3> QED
      BY <1>2, <2>1, <3>1, LineSplits
  <2> QED
    BY <2>1, <2>2 DEF Lock!Serve, Lock!First, Line, Using
<1>8. ASSUME NEW j \in PoolJobs, Release(j) PROVE Lock!Leave
  <2>1. pool_lock = j /\ pool_lock' = Free /\ waiters' = waiters
    BY <1>8 DEF Release, LockOwned, Inside
  <2>2. Line = <<j>> \o waiters /\ Line' = waiters /\ Using = {j} /\ Using' = {}
    BY <1>1, <1>2, <2>1 DEF Line, Served
  <2>3. Line # <<>> /\ Head(Line) = j /\ Tail(Line) = Line'
    BY <1>2, <2>2, LineOfHolder
  <2> QED
    BY <2>2, <2>3 DEF Lock!Leave, Lock!First, Line, Using
<1>9. CASE \E j \in PoolJobs : PoolStep(j)
  BY <1>4, <1>5, <1>6, <1>7, <1>8, <1>9
     DEF PoolStep, WaiterCancelled, ExecutionCancelled, ShutdownCancelled, Lock!Next
<1>10. CASE UNCHANGED vars
  BY <1>3, <1>10 DEF vars, pool
<1>11. ASSUME NEW f \in Functions, AddTask(f) \/ TaskStep(f) PROVE UNCHANGED pool
  BY <1>11 DEF AddTask, TaskStep, RunTask, FunctionReturns, FunctionRaises, TimerFires,
               WrapperCancelled, pool
<1>12. CASE Start \/ Stop \/ CancelTask
  BY <1>3, <1>12 DEF Start, Stop, CancelTask, pool
<1>13. ~RunReturns /\ ~Exit
  BY DEF RunReturns, Exit
<1> QED
  BY <1>3, <1>4, <1>9, <1>10, <1>11, <1>12, <1>13 DEF Next

(* Once run() has returned there is no line any more. *)
LEMMA LockStep ==
  TypeOK /\ LockOwned /\ QueueOrderly /\ [Next]_vars
  /\ TypeOK' /\ LockOwned' /\ QueueOrderly' => [Lock!Next \/ Lock!Vanish]_<<Line, Using>>
<1> SUFFICES ASSUME TypeOK, LockOwned, QueueOrderly, [Next]_vars,
                    TypeOK', LockOwned', QueueOrderly'
             PROVE  [Lock!Next \/ Lock!Vanish]_<<Line, Using>>
  OBVIOUS
<1>1. CASE process' # "up"
  BY <1>1 DEF Lock!Vanish, Line, Using
<1>2. CASE process' = "up"
  <2>1. process = "up"
    BY <1>2 DEF Next, Start, Stop, CancelTask, RunReturns, Exit, AddTask, TaskStep, RunTask,
           FunctionReturns, FunctionRaises, TimerFires, WrapperCancelled, AddPoolTask,
           PoolStep, Acquire, Queue, Wake, PoolFunctionEnds, ShutdownEnds, Release,
           WaiterCancelled, ExecutionCancelled, ShutdownCancelled, vars
  <2> QED BY <1>2, <2>1, LockStepUp
<1> QED BY <1>1, <1>2

(* The scheduler's _pool_lock, free between a release and the next         *)
(* holder's first step, is a lock that serves in order of asking until     *)
(* run() returns.                                                          *)
THEOREM LockImplementsFifo == Spec => LockIsFifo
<1> DEFINE LockInv == TypeOK /\ PoolsOwned /\ QueueOrderly
<1>1. Init => LockInv
  BY TypeInit, PoolsOwnedInit, SchedulerAssumption DEF Init, QueueOrderly, Inside
<1>2. Init => Lock!Init
  BY DEF Init, Lock!Init, Inside
<1>3. LockInv /\ [Next]_vars => LockInv'
  BY TypeStep, PoolsOwnedStep, QueueOrderlyStep DEF PoolsOwned
<1>4. LockInv /\ LockInv' /\ [Next]_vars => [Lock!Next \/ Lock!Vanish]_<<Line, Using>>
  BY LockStep DEF PoolsOwned
<1> QED
  BY <1>1, <1>2, <1>3, <1>4, PTL DEF Spec, LockIsFifo, Lock!SpecWithExit, Line, Using
=============================================================================
