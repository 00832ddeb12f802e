----------------------------- MODULE Scheduler -----------------------------
(***************************************************************************)
(* The task scheduler of healthagent (healthagent/scheduler.py): periodic  *)
(* and one-shot coroutines run by the wrapper that re-arms them, and the   *)
(* DCGM diagnostics that _pool_lock serialises.  Everything runs on one    *)
(* asyncio event loop, so a step is the code between two awaits.           *)
(***************************************************************************)
EXTENDS Naturals, Sequences, FiniteSets

CONSTANTS
    Loops,      \* functions with an interval: the wrapper re-arms them
    OneShots,   \* functions without one
    PoolJobs,   \* calls of functions marked @Scheduler.pool
    Free,       \* _pool_lock is not held
    MaxCancels  \* bound on calls of cancel_task

ASSUME SchedulerAssumption ==
    /\ IsFiniteSet(Loops)
    /\ Loops \cap OneShots = {}
    /\ Free \notin PoolJobs
    /\ MaxCancels \in Nat

VARIABLES
    stop_event,    \* "none" before start(), then "clear", then "set"
    cancel_event,  \* the one cancellation flag all tasks share
    cancels,       \* how many times cancel_task was called
    task,          \* where the wrapper task of each function is
    pool_task,     \* where each _run_pool_task coroutine is
    pool_lock,     \* holder of _pool_lock
    waiters,       \* coroutines queued on _pool_lock, oldest first
    pools,         \* jobs whose process pool was created and not shut down
    shutdowns,     \* jobs whose pool.shutdown runs in a thread
    process        \* "up", "exiting" once run() returned, then "ended"

vars == <<stop_event, cancel_event, cancels, task, pool_task, pool_lock, waiters,
          pools, shutdowns, process>>
tasks == <<cancel_event, cancels, task>>
pool == <<pool_task, pool_lock, waiters, pools, shutdowns>>

Functions == Loops \cup OneShots
TaskStates == {"none", "ready", "running", "timer", "ended"}
PoolStates == {"none", "created", "waiting", "executing", "shutdown", "closing", "done"}

Init ==
    /\ stop_event = "none"
    /\ cancel_event = FALSE
    /\ cancels = 0
    /\ task = [f \in Functions |-> "none"]
    /\ pool_task = [j \in PoolJobs |-> "none"]
    /\ pool_lock = Free
    /\ waiters = <<>>
    /\ pools = {}
    /\ shutdowns = {}
    /\ process = "up"

-----------------------------------------------------------------------------
(* start() and stop().  stop() is called by the signal handler. *)

Start ==
    /\ stop_event = "none"
    /\ stop_event' = "clear"
    /\ UNCHANGED <<tasks, pool, process>>

Stop ==
    /\ stop_event = "clear"
    /\ stop_event' = "set"
    /\ UNCHANGED <<tasks, pool, process>>

(* Variant for the checks: add_task without its test of stop_event. *)
AcceptsAlways == stop_event # "none"

(* add_task returns None before start() and after stop(). *)
AcceptsTasks == stop_event = "clear"

-----------------------------------------------------------------------------
(* Wrapper tasks. *)

AddTask(f) ==
    /\ AcceptsTasks
    /\ task[f] \in {"none", "ended"}
    /\ task' = [task EXCEPT ![f] = "ready"]
    /\ UNCHANGED <<stop_event, cancel_event, cancels, pool, process>>

(* The event loop runs the first step of the task: the function is called. *)
RunTask(f) ==
    /\ process = "up" /\ task[f] = "ready"
    /\ task' = [task EXCEPT ![f] = "running"]
    /\ UNCHANGED <<stop_event, cancel_event, cancels, pool, process>>

(* Variant: the flag is looked at and left set. *)
AfterFunctionNoClear(f) ==
    /\ cancel_event' = cancel_event
    /\ task' = [task EXCEPT ![f] =
                  IF ~cancel_event /\ f \in Loops THEN "timer" ELSE "ended"]

(* What the wrapper does once its function is over, with no await between: *)
(* a set flag is consumed by whichever wrapper gets here first.            *)
AfterFunction(f) ==
    /\ cancel_event' = FALSE
    /\ task' = [task EXCEPT ![f] =
                  IF ~cancel_event /\ f \in Loops THEN "timer" ELSE "ended"]

FunctionReturns(f) ==
    /\ process = "up" /\ task[f] = "running"
    /\ AfterFunction(f)
    /\ UNCHANGED <<stop_event, cancels, pool, process>>

(* Variant: an exception leaves the wrapper before it re-arms the timer,   *)
(* and the task keeps it.                                                  *)
FunctionRaisesEscapes(f) ==
    /\ process = "up" /\ task[f] = "running"
    /\ task' = [task EXCEPT ![f] = "failed"]
    /\ UNCHANGED <<stop_event, cancel_event, cancels, pool, process>>

(* The wrapper logs an Exception and goes on as after a return. *)
FunctionRaises(f) ==
    /\ process = "up" /\ task[f] = "running"
    /\ AfterFunction(f)
    /\ UNCHANGED <<stop_event, cancels, pool, process>>

(* call_later(interval, add_task): after stop() the loop just ends. *)
TimerFires(f) ==
    /\ task[f] = "timer"
    /\ task' = [task EXCEPT ![f] = IF AcceptsTasks THEN "ready" ELSE "ended"]
    /\ UNCHANGED <<stop_event, cancel_event, cancels, pool, process>>

(* A task calls cancel_task() while it runs. *)
CancelTask ==
    /\ process = "up" /\ cancels < MaxCancels
    /\ \E f \in Functions : task[f] = "running"
    /\ cancel_event' = TRUE
    /\ cancels' = cancels + 1
    /\ UNCHANGED <<stop_event, task, pool, process>>

-----------------------------------------------------------------------------
(* Pool tasks: async with _pool_lock, a fresh one-worker process pool, and *)
(* its shutdown in a thread before the lock is given back.                 *)

AddPoolTask(j) ==
    /\ AcceptsTasks
    /\ pool_task[j] \in {"none", "done"}
    /\ pool_task' = [pool_task EXCEPT ![j] = "created"]
    /\ UNCHANGED <<stop_event, tasks, pool_lock, waiters, pools, shutdowns, process>>

(* Variant: a lock that a newcomer may take before those that wait. *)
LockAvailableBarging == pool_lock = Free

(* asyncio.Lock lets a newcomer in only when nobody is queued. *)
LockAvailable == pool_lock = Free /\ waiters = <<>>

Acquire(j) ==
    /\ process = "up" /\ pool_task[j] = "created"
    /\ LockAvailable
    /\ pool_lock' = j
    /\ pool_task' = [pool_task EXCEPT ![j] = "executing"]
    /\ pools' = pools \cup {j}
    /\ UNCHANGED <<stop_event, tasks, waiters, shutdowns, process>>

Queue(j) ==
    /\ process = "up" /\ pool_task[j] = "created"
    /\ ~LockAvailable
    /\ waiters' = Append(waiters, j)
    /\ pool_task' = [pool_task EXCEPT ![j] = "waiting"]
    /\ UNCHANGED <<stop_event, tasks, pool_lock, pools, shutdowns, process>>

(* The release woke the oldest waiter; it runs and takes the lock. *)
Wake(j) ==
    /\ process = "up" /\ waiters # <<>> /\ Head(waiters) = j
    /\ pool_lock = Free
    /\ pool_lock' = j
    /\ waiters' = Tail(waiters)
    /\ pool_task' = [pool_task EXCEPT ![j] = "executing"]
    /\ pools' = pools \cup {j}
    /\ UNCHANGED <<stop_event, tasks, shutdowns, process>>

(* Variant: the lock is released when the result arrives, and the child    *)
(* process is shut down afterwards.                                        *)
PoolFunctionEndsUnlocks(j) ==
    /\ process = "up" /\ pool_task[j] = "executing"
    /\ pool_task' = [pool_task EXCEPT ![j] = "shutdown"]
    /\ shutdowns' = shutdowns \cup {j}
    /\ pool_lock' = Free
    /\ UNCHANGED <<stop_event, tasks, waiters, pools, process>>

(* The function returned, raised, or its process died: all reach finally. *)
PoolFunctionEnds(j) ==
    /\ process = "up" /\ pool_task[j] = "executing"
    /\ pool_task' = [pool_task EXCEPT ![j] = "shutdown"]
    /\ shutdowns' = shutdowns \cup {j}
    /\ UNCHANGED <<stop_event, tasks, pool_lock, waiters, pools, process>>

(* pool.shutdown(True) returns in its thread: the worker process is gone.  *)
(* It waits for a function that still runs there.                          *)
ShutdownEnds(j) ==
    /\ j \in shutdowns
    /\ shutdowns' = shutdowns \ {j}
    /\ pools' = pools \ {j}
    /\ UNCHANGED <<stop_event, tasks, pool_task, pool_lock, waiters, process>>

(* The coroutine hears of it, and the async with block exits. *)
Release(j) ==
    /\ pool_task[j] \in {"shutdown", "closing"} /\ j \notin shutdowns
    /\ pool_task' = [pool_task EXCEPT ![j] = "done"]
    /\ pool_lock' = Free
    /\ UNCHANGED <<stop_event, tasks, waiters, pools, shutdowns, process>>

-----------------------------------------------------------------------------
(* The end of the process: run() returns once stop() was called, and       *)
(* asyncio.run cancels the tasks there are, waits for them and for the     *)
(* threads of the default executor, and throws the timers away.            *)

(* Every task has a CancelledError ahead of it at its next step, so those  *)
(* that wait for the lock do not get it any more.                          *)
RunReturns ==
    /\ process = "up" /\ stop_event = "set"
    /\ process' = "exiting"
    /\ waiters' = <<>>
    /\ UNCHANGED <<stop_event, tasks, pool_task, pool_lock, pools, shutdowns>>

(* CancelledError is no Exception: it leaves the wrapper, which re-arms    *)
(* nothing.                                                                *)
WrapperCancelled(f) ==
    /\ process = "exiting" /\ task[f] \in {"ready", "running"}
    /\ task' = [task EXCEPT ![f] = "ended"]
    /\ UNCHANGED <<stop_event, cancel_event, cancels, pool, process>>

(* Not started, or not yet given the lock. *)
WaiterCancelled(j) ==
    /\ process = "exiting" /\ pool_task[j] \in {"created", "waiting"}
    /\ pool_task' = [pool_task EXCEPT ![j] = "done"]
    /\ UNCHANGED <<stop_event, tasks, pool_lock, waiters, pools, shutdowns, process>>

(* Variant: there is no finally, the pool is left as it is. *)
ExecutionCancelledLeaks(j) ==
    /\ process = "exiting" /\ pool_task[j] = "executing"
    /\ pool_task' = [pool_task EXCEPT ![j] = "done"]
    /\ pool_lock' = Free
    /\ UNCHANGED <<stop_event, tasks, waiters, pools, shutdowns, process>>

(* The finally block shuts the pool down, with the lock still held; it is  *)
(* not cancelled a second time.                                            *)
ExecutionCancelled(j) ==
    /\ process = "exiting" /\ pool_task[j] = "executing"
    /\ pool_task' = [pool_task EXCEPT ![j] = "closing"]
    /\ shutdowns' = shutdowns \cup {j}
    /\ UNCHANGED <<stop_event, tasks, pool_lock, waiters, pools, process>>

(* A coroutine in its finally block already gives the lock back at once;   *)
(* the shielded shutdown goes on in its thread.                            *)
ShutdownCancelled(j) ==
    /\ process = "exiting" /\ pool_task[j] = "shutdown"
    /\ pool_task' = [pool_task EXCEPT ![j] = "done"]
    /\ pool_lock' = Free
    /\ UNCHANGED <<stop_event, tasks, waiters, pools, shutdowns, process>>

(* asyncio.run is over. *)
Exit ==
    /\ process = "exiting" /\ shutdowns = {}
    /\ \A f \in Functions : task[f] \notin {"ready", "running"}
    /\ \A j \in PoolJobs : pool_task[j] \in {"none", "done"}
    /\ process' = "ended"
    /\ task' = [f \in Functions |-> IF task[f] = "timer" THEN "ended" ELSE task[f]]
    /\ UNCHANGED <<stop_event, cancel_event, cancels, pool>>

-----------------------------------------------------------------------------
TaskStep(f) ==
    \/ RunTask(f)
    \/ FunctionReturns(f)
    \/ FunctionRaises(f)
    \/ TimerFires(f)
    \/ WrapperCancelled(f)

PoolStep(j) ==
    \/ Acquire(j)
    \/ Queue(j)
    \/ Wake(j)
    \/ PoolFunctionEnds(j)
    \/ ShutdownEnds(j)
    \/ Release(j)
    \/ WaiterCancelled(j)
    \/ ExecutionCancelled(j)
    \/ ShutdownCancelled(j)

Next ==
    \/ Start
    \/ Stop
    \/ CancelTask
    \/ RunReturns
    \/ Exit
    \/ \E f \in Functions : AddTask(f) \/ TaskStep(f)
    \/ \E j \in PoolJobs : AddPoolTask(j) \/ PoolStep(j)

Spec == Init /\ [][Next]_vars

(* The event loop runs whatever is ready, timers fire, and a function or a *)
(* diagnostic that was started ends.  Nobody has to add, cancel or stop;   *)
(* but once somebody stopped it run() returns, and asyncio.run with it.    *)
Fairness ==
    /\ WF_vars(RunReturns) /\ WF_vars(Exit)
    /\ \A f \in Functions : WF_vars(TaskStep(f))
    /\ \A j \in PoolJobs : WF_vars(PoolStep(j))

FairSpec == Spec /\ Fairness

-----------------------------------------------------------------------------
TypeOK ==
    /\ stop_event \in {"none", "clear", "set"}
    /\ cancel_event \in BOOLEAN
    /\ cancels \in 0..MaxCancels
    /\ task \in [Functions -> TaskStates]
    /\ pool_task \in [PoolJobs -> PoolStates]
    /\ pool_lock \in PoolJobs \cup {Free}
    /\ waiters \in Seq(PoolJobs)
    /\ pools \subseteq PoolJobs
    /\ shutdowns \subseteq PoolJobs
    /\ process \in {"up", "exiting", "ended"}

(* Two DCGM diagnostics never overlap: a worker process may use the GPU    *)
(* until its pool has been shut down, also when it has given its result,   *)
(* or when the coroutine that waits for it was cancelled and released the  *)
(* lock.                                                                   *)
DiagnosticsSerialised == \A i, j \in pools : i = j

(* In the async with block. *)
Inside(j) == pool_task[j] \in {"executing", "shutdown"}

(* The holder of the lock and those that wait for it make up the line of a *)
(* first-come-first-served lock, whose resource is the GPU: the two awaits *)
(* between a release and the next holder's first step lose nobody's turn,  *)
(* until run() returns.                                                    *)
Lock == INSTANCE FifoLock WITH
    Users <- PoolJobs,
    line <- IF process # "up" THEN <<>>
            ELSE IF pool_lock = Free THEN waiters ELSE <<pool_lock>> \o waiters,
    using <- IF process # "up" THEN {} ELSE {j \in PoolJobs : Inside(j)}

LockIsFifo == Lock!SpecWithExit

(* The loops that ended while the agent is not stopping. *)
EndedLoops == {f \in Loops : task[f] = "ended"}

(* Each call of cancel_task stops at most one periodic check: the flag is  *)
(* global, but it is consumed by the first wrapper that sees it.           *)
OneLoopPerCancel ==
    stop_event # "set" => Cardinality(EndedLoops) <= cancels

(* After stop() no task is created: a task that is ready then was ready    *)
(* before, and a timer that fires ends its loop.                           *)
NothingStartsAfterStop ==
    [][stop_event = "set" =>
          /\ \A f \in Functions : task'[f] = "ready" => task[f] = "ready"
          /\ \A j \in PoolJobs : pool_task'[j] = "created" => pool_task[j] = "created"]_vars

(* A periodic check that was added keeps running, whatever it raises, as   *)
(* long as nobody stops the agent or cancels a task.                       *)
LoopsKeepRunning ==
    \A f \in Loops :
        <>[](stop_event = "clear" /\ cancels = 0 /\ task[f] # "none")
            => []<>(task[f] = "running")

(* A diagnostic that waits for the lock gets it, however often the others  *)
(* ask again, unless run() returns before.                                 *)
WaitingDiagnosticsRun ==
    \A j \in PoolJobs :
        pool_task[j] = "waiting" ~> pool_task[j] = "executing" \/ process # "up"

(* stop() brings the process to its end, wherever it meets the tasks, and  *)
(* every process pool is shut down by then: the one whose coroutine was    *)
(* cancelled at the result (by the finally block) and the one whose        *)
(* coroutine was cancelled during the shutdown (by the shield).            *)
StopCleansUp == stop_event = "set" ~> process = "ended" /\ pools = {}
=============================================================================
