# A verification development of healthagent

Healthagent (Azure/cyclecloud-healthagent) is a service that runs on every node
of a GPU cluster. It watches the node in the background (GPUs through DCGM,
network interfaces, systemd units, the kernel log, processes), keeps one report
per check, tells CycleCloud about every report that changes, and runs intrusive
diagnostics when a job scheduler's prolog or epilog asks for them. What it says
decides whether a node takes the next job and whether it goes to repair.

This directory holds TLA+ models of that program, the TLC runs that check them
on small instances, and TLAPS proofs of the safety properties that matter most.
Paths below are relative to the repository; `file:line` names the line a
statement is about.

Contents

1. [The system](#1-the-system): components, state, interaction, what is hard
2. [The modules](#2-the-modules): what models what, and how
3. [The runs](#3-the-runs): questions, bounds, results
4. [Fairness](#4-fairness)
5. [The proofs](#5-the-proofs)
6. [What the code does not do](#6-what-the-code-does-not-do): disagreements
   between the code and its documents, and the faults the properties except
7. [What is only model-checked, and what is not modelled](#7-what-is-only-model-checked-and-what-is-not-modelled)
8. [The plan](#8-the-plan)
9. [Running it](#9-running-it)

## 1. The system

Everything but the DCGM diagnostics runs in one process on one asyncio event
loop. So there are no data races in the usual sense: code between two `await`s
is one step. What makes the program hard to test is what happens *at* the
awaits (another task, a signal, a callback), in the threads and processes the
loop starts, in the services it talks to (systemd, DCGM, jetpack, the kernel)
and across its own stop, crash and restart.

| component | source | state it keeps | operations |
|---|---|---|---|
| Scheduler | `healthagent/scheduler.py` | `stop_event`, `cancel_event`, `_pool_lock`; the tasks and timers of the loop | `start`, `stop`, `add_task`, `cancel_task`, the wrapper that re-arms periodic functions, `_run_pool_task` |
| Agent process | `healthagent/healthagent.py` | the registered modules, the server, the pickled reports | `initialize_modules`, `run`, signal handler, `get_reporter`, `save_reporter`, `handle_client` |
| Reporter | `healthagent/reporter.py` | `store`: one `HealthReport` per name | `update_report`, `clear_all_errors`, `publish_cc_status`, `summarize` |
| Health modules | `healthagent/healthmodule.py` | checks and their flags | `execute` (prolog, epilog, status), argument coercion |
| GPU module | `healthagent/gpu.py`, `bindings.py` | connection to DCGM, field and health watches, `xid_history` and its file | `setup`, `run_background_healthchecks`, `track_fieldsv2`, `gpu_count_check`, `handle_policy_violation`, `_save_xid_history`, `memory_allocation_test`, `run_diag` |
| Systemd module | `healthagent/async_systemd.py` | `state`, `unit_paths`, `services_not_enabled`, registered callbacks | `add_monitor`, `handle_unit_new`, `__add_handler`, `set_current_state`, `update_services` |
| Network module | `healthagent/network.py`, `util.py` | `_in_error`, `_trigger_count`, a `TimeSeries` per counter | `get_network_state`, `run_network_checks`, `evaluate` |
| Kernel log module | `healthagent/kmsg.py` | the position in `/dev/kmsg`; its report | `read_callback`, `clear_errors` |
| Process module | `healthagent/process.py` | the thresholds; nothing between two passes | one pass over `/proc` each minute |
| Configuration | `healthagent/config.py`, `defaults.yaml` | the validated configuration | `deep_merge`, validation |
| Client and scripts | `healthagent/client.py`, `healthagent/etc/*.example` | none; the node's state and reason in Slurm | `health -s/-e/-p/-b`; epilog, prolog and drain scripts |
| Other | `main.py`, `install.py`, `profiler.py`, `ghr.py`, `tools/`, shell scripts | none at run time | start, installation, profiling, category names, a CUDA test |

How they interact:

- Modules call `Reporter.update_report` directly and await it; it calls
  `Scheduler.add_task` for the jetpack process and awaits only its *start*.
- Periodic functions live in the scheduler's wrapper tasks; each run arms the
  timer of the next with `call_later(add_task)`.
- D-Bus signals, `/dev/kmsg` readability and DCGM policy violations arrive as
  callbacks on the loop, which add tasks or change module state at once.
- A client writes a request to a Unix socket; `handle_client` runs the checks of
  every module one after the other and answers with what they returned.
- DCGM diagnostics run in a process of their own behind `_pool_lock`; XID saves
  run in threads; jetpack and the memory test are subprocesses.
- Slurm runs `health.sh.example` again and again: it asks the agent for the number of
  errors (`health -b`), reads the state of the node with `sinfo` and drains or resumes it
  with `scontrol`. Operators do the same by hand.
- Between two processes of the agent only two things survive: the pickled
  reports (`save_reporter`, orderly stop only) and `xid_history.json`.

What is hard, and what correctness means, component by component:

- **Scheduler.** One `cancel_event` for all tasks; a loop lives only because each
  run re-arms it; `add_task` silently returns `None` after `stop()`; the lock must
  cover the worker process up to its shutdown. *Wanted:* diagnostics never overlap
  and none waits for ever; loops survive exceptions; one cancellation ends at most
  one loop; after `stop()` nothing starts, the process ends, and no worker process outlives it.
- **Reporter.** A report is stored first and published afterwards, and only when it
  differs from the stored one; jetpack processes of successive reports run
  concurrently; the store is loaded from a pickle. *Wanted:* every change reaches
  CycleCloud, whatever crashes; CycleCloud agrees with a settled report; no node is
  held degraded by what an earlier process saw.
- **Systemd.** A unit is read, recorded, and only then watched; units load and unload;
  each change is a task of its own. *Wanted:* one callback per unit, no loaded unit
  unwatched, every failure and recovery in the report in the end.
- **Network.** Counters start again, ports vanish, polls are irregular; strikes count
  episodes, not polls, and the last is never taken back. *Wanted:* the bounded deque
  decides as the whole history would; an error means flaps and flaps mean an error;
  a degraded node stays degraded.
- **XID history.** Snapshots written by concurrent threads, a file read again at every
  reconnection and dropped after a boot. *Wanted:* nothing from before the boot is
  told, nothing seen since is lost by a crash between two steps of a save.
- **GPU check.** A connection to DCGM that is lost and made again step by step, in a
  check that must go on reporting; three counts of the GPUs, taken at different times.
  *Wanted:* what stays wrong is reported in the end, what recovered is not; a report of an
  error names the category of an error; counts that go on differing, and only those, are a
  mismatch in the end.
- **Kernel log.** A callback adds to a *copy* of the report that a later task stores,
  beside a task that clears it. *Wanted:* no recent alert is lost in between, and
  stale ones go.
- **Active checks.** Several requests, one lock, a client that gives up before the
  server does, a diagnostic that hangs, a stop in the middle. *Wanted:* no job on a GPU under test; an error
  drains the node; every epilog ends.

- **Drain script.** Three processes (agent, script, Slurm) and an operator who act on what
  they read earlier; an agent that starts without its errors, without a module, or hangs.
  *Wanted:* an operator's drain stands; no node is resumed whose errors are known; what
  is wrong drains the node in the end, and what recovered is resumed.
- **Processes and configuration.** A pass over processes that come and go while it reads
  them; two files merged key by key. *Wanted:* a report between the best and the worst the
  processes justify; a stuck process is reported; the user's file decides where it says
  something, the defaults everywhere else.

`PROJECT.json` lists the hazards one by one, each with its line and the properties
that would catch it.

## 2. The modules

One step of a model is the code between two awaits of a coroutine, one callback,
one step of a thread, or one step of the environment. Data is abstracted to what a
property tells apart (a report's description, details and custom fields are one
`body`; a threshold's verdict on a value is `none`, `warning` or `error`). Variants
of a definition, marked "Variant" in their comment, are plausible mistakes; each
property is checked to fail when its variant takes the place of the original.

### Scheduler (`Scheduler.tla`, `FifoLock.tla`)

`task[f]` is the life of one wrapper task: `none` → `ready` (`add_task`) → `running`
(`RunTask`) → `timer` or `ended` (`AfterFunction`, which consumes `cancel_event` in
the same step) → `ready` again (`TimerFires`). `pool_task[j]` follows
`_run_pool_task`: `created`, `waiting` for `_pool_lock` (with asyncio's first-in
first-out queue in `waiters`), `executing` in the worker process, `shutdown` of the
pool in a thread, `done`; `pools` and `shutdowns` are the process pools there are and those
whose `pool.shutdown` runs in a thread (`ShutdownEnds`), because a coroutine may be gone before
they are. `Stop` is `stop()`; every entry point tests it through `AcceptsTasks`.

`RunReturns` is `Healthagent.run` coming back from `stop_event.wait()`, after which
`asyncio.run` (`main.py`) cancels every task: a wrapper ends without arming a timer
(`WrapperCancelled`), a diagnostic that has no lock yet is over (`WaiterCancelled`), one in the
worker process goes to its `finally` block and shuts the pool down with the lock in hand
(`ExecutionCancelled`, `closing`), and one that was already there releases the lock at once while
the shielded shutdown goes on in its thread (`ShutdownCancelled`). `Exit` is the end: no task and
no thread is left, and the pending timers are thrown away.

`FifoLock` is what the lock promises: a line of those who use the resource or want to, one
of whom at a time uses it, first come, first served. It says nothing of holders, wake-ups or
worker processes. `Scheduler!LockIsFifo` is the refinement: the line is the holder before
the waiters, and who uses the resource is who is in the `async with` block, shutdown included;
once run() returned the line is empty. `Release`
leaves the line with nobody served, `Wake` serves its first; `PoolFunctionEnds` is no step of it.
`ActiveChecks!ServedInOrder` maps its own, simpler queue to the same abstract lock. This is
why `ActiveChecks` may hand the lock over in one step, where the scheduler takes two.

### Reporter (`Reporter.tla`)

The reports and the process that holds them. `Boot`, `Create`, `CreateFails`,
`Initialized` are `get_reporter` and `initialize_modules`; `Report(n, r)` is
`update_report` up to the await of the publication, with the normalisation of the
message, the comparison and the store; `Publish` starts the jetpack process, or
raises after `stop()` with the store already changed. `Stop`, `BeginSave`,
`SaveReporter`, `Exit` are the orderly end (the pickle of each registered module is
opened for writing first, so that a failing dump leaves nothing), `Crash` the other
one. A module whose creation fails is left out, and perhaps only half of it: what it started
goes on (`half`), so its check reports like any other, and nobody saves that report.
`inflight` holds the jetpack processes, in the order of their start; nobody
waits for them, so `JetpackEnds(i)` takes any of them, not the oldest (`IsOldest`), and
`JetpackFails` is silent. `cc` is what CycleCloud shows.

### Systemd (`SystemdMonitor.tla`)

The module beside systemd (`real`, `UnitChanges`) and the bus (`bus`, a FIFO queue;
`asked` and `matched`, the AddMatch under way and installed). A coroutine of
`__add_handler` has one action per await: `ReadActiveState`, `SetInitialState`
(the second property and `set_current_state`), `RegisterHandler`; coroutine `Main`
is `add_monitor`, the workers are `handle_unit_new`. `HandlePropertiesChanged` is
the callback that adds a task, `RunTask` the task. `AddHandlerRaises`,
`InitialStateRaises` and `AddMonitorRaises` are the exceptions; only the last ends
the process.

### Network (`LinkWindow.tla`, `NetworkChecks.tla`, `DegradationLatch.tla`)

`LinkWindow` is `TimeSeries` and the `window_gt` branch of `evaluate` for one
`link_downed` counter, beside the port: `LinkDown`, `Reset` (the driver is loaded
again), `CheckField` (a reading, which is 0 when the file cannot be read, then `record`,
then the two levels). Time enters as the distance between two polls.

`NetworkChecks` is one pass of `run_network_checks` over all configured keys
(`Poll`), with the level of each value and the set of keys that are present as
inputs. `DegradationLatch` says what strikes promise without saying how they are
counted: a check may recover fewer times than its limit, and the error that reaches
the limit is never taken back. `NetworkChecks!StrikesHold` is the refinement: the
verdict shown for a key is the latch's verdict, `_trigger_count` its episodes.

### XID history (`XidHistory.tla`)

`HandlePolicyViolation` and `TrackFields` record XIDs with the earliest time and
schedule a save; `TrackFieldsRaises` is a pass that recorded some and then raised, and
schedules none (`gpu.py:380`); `SaveXidHistory` takes the snapshot when its task runs;
`WriteTemp`, `Replace` and `WriteFails` are the steps of the thread, any number of
threads at once and in any order; `LoadXidHistory` is part of `Start` and
`Reconnect`, and drops a file that `predates` the boot.

### Kernel log (`Kmsg.tla`)

The event loop's ready queue is explicit because the module depends on it: the
callback makes `details` from the store as it is *then* and leaves a task that
stores them *later*; a `clear` task may be in between. Time is kept as the age of
each alert and of the report, counted up to just above an hour (`Tick`). `ReadOverrun`
is the `EPIPE` of a record the kernel overwrote. After a restart the buffer is read
from the first record it still has (`overwritten`: any number of them may be gone), with the
report possibly restored from the pickle.

### Active checks (`ActiveChecks.tla`)

One slot is one place for a job with its epilog script, client and connection.
`JobEnds` sends the request; `MemoryEnds` and `DiagEnds` are the two active GPU checks
in the order `execute` runs them, the second behind the lock; `DiagHangs` is a diagnostic
that never comes back and keeps the lock; `Respond` answers;
`Timeout` is the client's 1200 seconds, after which the script exits with 0 and the
server goes on. After `stop()` a check is refused, or its report cannot be published
and `execute` leaves it out of the response. `Exit` is the end of the process, with
the tests it started, the hanging ones too. The prolog runs the same code and is not told
apart.

### GPU check (`GpuMonitor.tla`)

`dcgmGroup` and `watched` are what the last `setup()` reached; `bad` and `samples` are
the GPUs as DCGM sees them. `Check` is one run of `run_background_healthchecks` with
`track_fieldsv2`, the levels (`XidLevel`, `LevelOf`) and the choice of the GHR category;
`TrackRaises` is the same run when `track_fieldsv2` swallows an exception and returns
what it had. `Reconnect`, `ReconnectFails` and `ReconnectPartly` are `setup()` from a
check that found the connection gone.

`GpuCountCheck` is `gpu_count_check`. `missing` are the sources (device files, PCI bus,
NVML) that count one GPU less now; `nvml_count` is what `_field_collection` says, which is
refreshed by `Check` and by the last statement of a `setup()`, and otherwise stays, also
over a lost connection. `mismatch` is the report.

### Drain script (`NodeDrain.tla`)

The agent at the grain the script sees it: `Start` (with any subset of the modules, for a
module may be disabled or fail to initialize), `Serve` (the server listens after the
first runs of the periodic checks, `due`), `Check`, `CheckRaises`, `ActiveCheck`, and the
troubles `Dies`, `Hangs`, `Unblocks`, `Watchdog`. The script is `Ask`, `ReadNode` or
`SinfoFails`, then `Drain`, `Resume` or `NoAction`; everything else may happen between two
of its steps. `Counted` is its arithmetic: the sum of two lines of which one may be
missing. `OperatorDrains` and `OperatorResumes` are `scontrol` by hand. Drained means one of
the four states the script's pattern accepts; `health` is the reason the script gives.

### Processes and configuration (`Config.tla`, `ProcessMonitor.tla`)

`Config` is the load of a configuration: `LoadConfig` merges the two files (`DeepMerge`: one
level of `deep_merge`, which goes on with `MergeSection` where both have a mapping; the files
of the model have two levels, so the recursion is written out), `Validate` accepts or
refuses the result, `StartAgain` is
systemd starting a process that was refused. The initial states are *all* pairs of files
over two sections and two fields, so that one run checks the merge for every such input
against `MergedByPath`, which never mentions the recursion: it looks at each path of the
two files by itself.

`ProcessMonitor` EXTENDS it, because the module is created from a validated section (and
then reads none of it, see 6). `BeginPass` lists `/proc`, `ReadStatus(p)` reads one process,
`EndPass` reports; `Change(p)` is a process starting, waiting for a device, being signalled
there or taking a signal there, ending, as a zombie or reaped at once, between any two reads.

### History variables

A property is often true but for one fault the code does not make up for. Rather than
switch such faults off, the models let them happen and record them in a history
variable, and the property excepts exactly what was hit. This keeps every other
interleaving in the run and names the gap:

| module | variable | records | the property then says |
|---|---|---|---|
| `Reporter` | `orderly` | since the process started no jetpack process failed or overtook an older one | `ConditionIsCurrent` holds in every other process |
| `SystemdMonitor` | `missed` | a unit changed between its reading and its match | `FailureReported`, `RecoveryReported` except it until its next signal |
| `SystemdMonitor` | `given_up` | `__add_handler` raised in `handle_unit_new` | `MonitoringBegins` and the two above except the unit |
| `SystemdMonitor` | `unread` | the last `update_services` raised at the journal | the two above except the time until the next one |
| `LinkWindow` | `history` (`read`, `restarted`) | each reading, whether it failed, whether the counter started again | only a failed reading at the end of the window, or a restart inside it, is excepted |
| `NetworkChecks` | `looked_at` | the keys present at the last poll | a degraded node is in error while its interface is seen |
| `XidHistory` | `orderly` | a write failed or overtook an older one, or a reconnection met a save | `SavedWhenQuiet`, `FileKeepsXids` hold in every other process |
| `XidHistory` | `skipped` | a pass recorded an XID and raised, and no snapshot was taken since | `SavedWhenQuiet` excepts the time until the next one |
| `Kmsg` | `dropped` | alerts read by a callback that was overrun, or overwritten before the process started and not in its file | `AlertsAccounted` excepts them |
| `ActiveChecks` | `unheard` | no answer, or not all of it, reached the client | `JobsExclusive`, `ErrorDrains` except that epilog |
| `GpuMonitor` | `raised` | `track_fieldsv2` raised in the last check | `ErrorIsNamed`, `XidStaysReported`, `FaultReported`, `MismatchReported` except that report |
| `NodeDrain` | `overtaken` | the script acts on what it read before the operator acted, or could not read | `OperatorsDrainStands` except that drain |
| `NodeDrain` | `blind` | checks all of whose runs since the start raised | their faults are not the agent's to tell |
| `NodeDrain` | `stood` | the known faults behind the answer: none, some, or some the script could not count | `NotResumedWhileBroken` excepts the last, `HealthyWhenResumed` does not |

`sent`, `reported` (Reporter), `faulty` (ActiveChecks), `known`, `held` (NodeDrain), `ever` and
`bounds` (ProcessMonitor) are histories too; they except nothing and only say what a property
compares with.

## 3. The runs

Every run is exhaustive for its bounds. Deadlock is checked except where the model
may stop for good (an agent that was stopped, a bound that was used up).

| run | module | question | result |
|---|---|---|---|
| `MCScheduler` | `Scheduler` | with two loops, a one-shot function and three diagnostics, in any order of exceptions, cancellations, stop and the end of the process: do diagnostics overlap or starve, does a loop die, is the lock first come, first served, does the process end with every worker process gone? | 7 properties hold |
| `MCReporter` | `Reporter` | crashes, restarts, failing and reordered jetpack processes, failing saves, modules that fail half way and go on: is a change ever stored without being handed over, is an old error inherited, does CycleCloud end up with what changed? | 3 hold |
| `MCSystemdMonitor` | `SystemdMonitor` | two services that load, unload, fail and recover, two `handle_unit_new` beside `add_monitor`, failing calls, stop, restart | 4 hold |
| `MCLinkWindow` | `LinkWindow` | a flapping port, a counter that starts again or cannot be read, irregular polls | 3 hold |
| `MCNetworkChecks` | `NetworkChecks` | strikes 1, 3 and none, interfaces that vanish and return; the refinement to the latch | 2 hold |
| `MCXidHistory` | `XidHistory` | concurrent writes in any order, failures, passes that raise, crashes, reconnections, reboots | 3 hold |
| `MCKmsg` | `Kmsg` | copies of the report, updates and clearing in any order, overruns, records overwritten before a start, crashes, restarts | 2 hold |
| `MCActiveChecks` | `ActiveChecks` | three slots, timeouts, hanging diagnostics, stop and restart at any moment; the refinement to the lock | 4 hold |
| `MCGpuMonitor` | `GpuMonitor` | faults, XIDs, counts that differ, lost connections, exceptions, half a setup | 5 hold |
| `MCNodeDrain` | `NodeDrain` | faults that come and go, an agent that dies, hangs and starts without modules, failing commands, an operator, between any two steps of the script | 4 hold |
| `MCProcessMonitor` | `ProcessMonitor`, `Config` | every pair of small configurations; passes over two processes that change at any moment | 3 hold |
| `MCResumedBroken` | `NodeDrain` | is a node ever resumed whose agent just told of an error? | **violated**, see 6 |

The properties, in words:

- `Scheduler`: `DiagnosticsSerialised` (no two diagnostics overlap, shutdown included),
  `OneLoopPerCancel`, `LockIsFifo` (refinement), `NothingStartsAfterStop`,
  `LoopsKeepRunning`, `WaitingDiagnosticsRun` (a waiter is served, unless run() returns
  before), `StopCleansUp` (stop leads to the end of the process with no process pool left).
- `Reporter`: `ChangesArePublished` (until stop, what is stored is what was last handed
  to jetpack, or what was loaded), `NothingInherited` (a module that clears on create
  shows only errors of its own), `ConditionIsCurrent` (CycleCloud agrees with a report the
  check made in this process, once its jetpack processes ended in order).
- `SystemdMonitor`: `OneHandlerPerUnit`, `MonitoringBegins`, `FailureReported`,
  `RecoveryReported`.
- `LinkWindow`: `RingIsEnough` (the deque decides as the whole history),
  `ErrorMeansFlapping`, `FlappingIsError`.
- `NetworkChecks`: `StrikesHold` (refinement), `DegradedIsPermanent`.
- `XidHistory`: `NothingStale`, `SavedWhenQuiet` (in a quiet, orderly process the file is what
  the process knows, unless a pass that recorded an XID raised since the last save),
  `FileKeepsXids`.
- `Kmsg`: `AlertsAccounted`, `EventuallyCleared`.
- `ActiveChecks`: `JobsExclusive`, `ErrorDrains`, `ServedInOrder` (refinement), `EveryEpilogEnds`.
- `GpuMonitor`: `ErrorIsNamed`, `FaultReported`, `RecoveryReported`, `XidStaysReported`,
  `MismatchReported` (the report of the counts is right in the end, in both directions).
- `NodeDrain`: `OperatorsDrainStands`, `NotResumedWhileBroken`, `FaultDrains`,
  `RecoveryResumes`, `HealthyWhenResumed` (violated).
- `ProcessMonitor`: `ReportBounded` (no better than the processes that did not change during
  the pass, no worse than all that were in a bad state at any time of it), `StuckIsReported`;
  `Config`: `MergedByPath` (a value of the user's file replaces, a null removes, everything
  else of the defaults stays; a null in a section the defaults do not have as a mapping is
  excepted, see 6).
- Each module has a type invariant, which also bounds what it types: the request that runs
  diagnostics is the head of the lock's queue, no key counts more strikes than it has, and so
  on. They are all theorems (section 5; for `ProcessMonitor` and `Config` part of
  `ProcessInvariant`), and no run repeats them.

### Bounds, and why they are enough

- **Scheduler**: two loops (one may steal the other's cancellation), one one-shot
  function (it may consume it too), three diagnostics (a holder, a waiter, a newcomer
  that could barge in), `MaxCancels = 1` (one flag that two loops race for; that two calls
  before a wrapper looks end one loop only follows from `CancelEndsOneLoop`'s invariant, for
  any number).
- **Reporter**: one module that clears on create (as network, systemd and GPU do) and
  one that does not (as process does), OK and two errors that differ only below the
  status, `MaxInFlight = 2` (two jetpack processes can overtake each other; a third
  adds no new order of two). A check waits at this bound, which the code does not do:
  it only cuts runs with more processes.
- **SystemdMonitor**: two services, because the report aggregates; two workers, so that
  two units can be added while `Main` adds others; `MaxTasks = 2` (two tasks can
  be in the wrong order), `MaxBus = 1` beside them, so that three changes can be under way and a
  unit goes on changing, unwatched, while a UnitNew is; with `MaxBus = 2` (4 million states) the
  same properties hold. Services and workers are
  interchangeable and the run has no liveness property, so symmetry is sound.
- **LinkWindow**: a window of 3 seconds and an interval of 2, so that the division
  rounds up and the deque holds 3 samples; real gaps of 2 (the interval) and 5 (longer
  than the window, as after a port was missing); five polls, so that two samples are
  dropped; two link-downs, which are an error.
- **NetworkChecks**: the three kinds of the default configuration: one strike, several,
  none; with and without a category. The state is finite without a bound.
- **XidHistory**: two XIDs, two times (an earlier and a later report of one XID), three
  saves at once (one to be overtaken by two).
- **Kmsg**: three alerts, an hour of two ticks (a report can be renewed within the hour
  and outlive it), three queued tasks (one of each kind).
- **ActiveChecks**: three slots: one holds the lock, two queue. A slot makes no request
  while an old one of its own is still handled.
- **GpuMonitor**: an incident, an error field, a warning field, an error XID and a
  warning XID, each with its own category or none; `MaxLosses = 2` (a connection lost
  again after a reconnection). A source counts all GPUs or one less: the check only asks
  whether counts differ. `Apart = TRUE`: the counts change only while nothing else is wrong,
  and the reverse. The two checks share the connection, the fields and the exceptions,
  which stay free, and nothing else.
- **NodeDrain**: one background and one active check of the gpu module and one background
  check of the network module, so that either line of the sum can be missing;
  `MaxTroubles = 1`: one death or hang of the agent on top of its first start (a hang is a
  second start when the watchdog ends it). What a start forgets does not depend on how many
  there were.
- **ProcessMonitor**: two processes, one zombie is a warning and two are an error, so that
  both thresholds and the number of a process used again can meet in a pass. **Config**: one
  section that is validated and one that is not, two fields, two user values of which one is
  refused, null, and a section given as a value.

## 4. Fairness

Only liveness properties need it, and only these assumptions are made:

- `Scheduler!FairSpec`: the event loop runs what is ready, timers fire, a function or a
  diagnostic that was started ends. Nobody has to add, cancel or stop anything; but once
  somebody stopped it, `run()` returns (it awaits nothing else but the close of the server) and
  `asyncio.run`, which waits for the tasks it cancelled and for the threads, does too. Nothing
  that is queued at that moment is assumed to run. (The code has no timeout for diagnostics;
  what a hanging one does is in `ActiveChecks`. At the end of the process it would keep the
  shutdown of its pool waiting until systemd kills the service.)
- `Kmsg!KmsgFairSpec`: time passes, ready tasks and callbacks run; strong fairness for the
  timer of the periodic `clear_errors`, because in the model `MaxTasks` may hold it back
  again and again, which the real queue does not.
- `ActiveChecks!FairSpec`: the memory test ends, a diagnostic that does not hang ends,
  handlers answer. A diagnostic may hang for ever; only while one does is the timeout of the
  clients fair, for otherwise they would hear an answer. Whether the agent dies stays open.
- `GpuMonitor!FairSpec`: the periodic checks run (weak fairness of `Check` with a sample of
  the count, which DCGM takes every second, of `GpuCountCheck`, and of the check that raises
  when nothing is watched), and DCGM is not gone for ever (strong fairness of a successful
  `Reconnect`).
- `NodeDrain!Fairness`: systemd starts and kills (`Restart=` and the watchdog of the service), the
  scheduler runs each background check and it does not raise for ever (strong, because the
  agent is not always up); Slurm starts the script again and again, and not every one of its
  commands fails (strong, because an operator or a trouble may come between). Operators, faults
  and troubles owe nothing.
- `ProcessMonitor!ProcessSpec`: passes begin and end. Processes owe nothing.

## 5. The proofs

Every safety property the passing runs check, invariant, action property or refinement,
is also a theorem: TLAPS proves it for every value of the constants that satisfies the
named `ASSUME` of the module. These ask for what the code's own constants have and for
nothing about sizes: a finite set of loops and one of processes, names that differ, intervals
and windows that are not zero, a severity for every incident and field, values in the two
configuration files that are not the model's own marks for a mapping or a missing key.
The proofs are about `Spec`; where the specification states fairness too, they do not use it.

| module | theorem | what it says |
|---|---|---|
| `SchedulerProofs` | `TypeCorrect` | `[]TypeOK` |
| | `DiagnosticsExclusive` | `[]DiagnosticsSerialised` |
| | `WorkersEndFirst` | `[]NoWorkerOutlives`: when `asyncio.run` is over no process pool is left (the safety half of `StopCleansUp`) |
| | `CancelEndsOneLoop` | `[]OneLoopPerCancel` |
| | `LockImplementsFifo` | `LockIsFifo`: the pool's lock implements `FifoLock` |
| | `StopIsFinal` | `NothingStartsAfterStop` |
| `ReporterProofs` | `TypeCorrect` | `[]TypeOK` |
| | `ChangesPublished` | `[]ChangesArePublished` |
| | `NoInheritedErrors` | `[]NothingInherited` |
| | `ConditionsCurrent` | `[]ConditionIsCurrent` |
| `SystemdProofs` | `TypeCorrect` | `[]TypeOK` |
| | `OneCallback` | `[]OneHandlerPerUnit` |
| | `LoadedIsWatched` | `[]MonitoringBegins` |
| | `FailuresReported` | `[]FailureReported` |
| | `RecoveriesReported` | `[]RecoveryReported` |
| `NetworkProofs` (`LinkWindow`) | `LinkTypeCorrect` | `[]LinkTypeOK` |
| | `DequeIsEnough` | `[]RingIsEnough` |
| | `ErrorsAreFlaps` | `[]ErrorMeansFlapping` |
| | `FlapsAreErrors` | `[]FlappingIsError` |
| `NetworkProofs` (`NetworkChecks`) | `TypeCorrect` | `[]TypeOK` |
| | `StrikesImplementLatch` | `StrikesHold`: the counters implement `DegradationLatch` |
| | `DegradedStaysReported` | `[]DegradedIsPermanent` |
| `XidProofs` | `TypeCorrect` | `[]TypeOK` |
| | `HistorySupported` | `[]NothingStale` |
| | `NothingUnsaved` | `[]SavedWhenQuiet` |
| | `FileOnlyGrows` | `FileKeepsXids` |
| `ActiveProofs` | `TypeCorrect` | `[]TypeOK` |
| | `ExclusiveJobs` | `[]JobsExclusive`, for slots whose GPUs are disjoint |
| | `ErrorsDrain` | `[]ErrorDrains` |
| | `ImplementsFifo` | `ServedInOrder`: the queue of the requests implements `FifoLock` |
| `NodeDrainProofs` | `TypeCorrect` | `[]TypeOK` |
| | `OperatorsDrainKept` | `[]OperatorsDrainStands` |
| | `BrokenStaysDrained` | `NotResumedWhileBroken` |
| `MonitorProofs` (`Kmsg`) | `KmsgTypeCorrect` | `[]KmsgTypeOK` |
| | `NoAlertLost` | `[]AlertsAccounted` |
| `MonitorProofs` (`GpuMonitor`) | `GpuTypeCorrect` | `[]TypeOK` |
| | `ErrorCategoryCorrect` | `[]ErrorIsNamed` |
| | `XidsStayReported` | `XidStaysReported` |
| `MonitorProofs` (`ProcessMonitor`, `Config`) | `MergeCorrect` | `[]MergedByPath` |
| | `ReportsBounded` | `[]ReportBounded` |

The invariants, and why the properties alone are not inductive:

- **Diagnostics.** That no two process pools exist says nothing of the next diagnostic that
  acquires the lock. `PoolsOwned` does: a pool is in the hands of the coroutine that executes in
  it or of a thread that shuts it down (`Attended`), and until run() returns that coroutine
  *holds* `_pool_lock`, from `Acquire` or `Wake` until `Release` (`LockOwned`). A cancelled
  coroutine may release the lock before its thread is done, but then nobody acquires it any more.
  `NoWorkerOutlives` follows from `Attended`: at `Exit` there is neither such a coroutine nor
  such a thread.
- **The lock's order.** The line of `FifoLock` must contain nobody twice, or one who leaves
  would still be in it. `QueueOrderly` says that the waiters differ, that each is waiting for the
  lock and for nothing else, and that a holder is in its `async with` block; so a newcomer, who is `created`, is
  nowhere in the line. With `LockOwned`, those in the `async with` block are the holder and nobody else, and
  each action maps to one step of the line: sequence lemmas (`LineOfHolder`, `LineGrows`,
  `LineSplits`) say what a holder before the waiters looks like when either end changes. In
  `ActiveChecks` the same follows from `Locked`, since the one under test is the first in line
  (`UnderIsFirst`).
- **Cancellations.** The number of ended loops is at most the number of calls, but a flag
  that is still set will end another loop. `CancelBudget` counts it: ended loops plus a
  set flag (`Pending`) are at most `cancels`. A wrapper that ends a loop while the flag is
  set gives back the one unit it takes; cardinality lemmas (`EndedGrows`, `EndedStays`)
  do the counting. `NothingBeforeStart` is needed because a wrapper that was never added
  has no state before `start()`.
- **Reports.** `Shape` (the domains of the functions; less than `TypeOK`, and enough) and,
  for each name, `Published`: either nothing was handed to jetpack since the process
  started and the store is what was loaded, or the last command is that of the stored
  report. One lemma, `UpdateStep`, says what `update_report` does to the store, the
  processes and the last command; every action that reports or clears cites it.
- **Conditions.** That CycleCloud is right when nothing is in flight says nothing while
  something is. `Delivered` does: in an orderly process the last command sent for a report is
  on its way with none of the same report behind it (`OnItsWay`), or none of that report is on
  its way and the command has arrived (`Arrived`). An oldest process that ends keeps it.
- **Systemd.** Layer upon layer. `Busy`: a coroutine between two awaits is at a service, with
  what it has read. `OneWatcher`: that service is in `unit_paths`, has no callback yet and no other
  coroutine; a service has at most one callback, exactly when its match is installed or asked
  for. `OnlyMatched`: messages and tasks are about matched services. `Monitored`: a service in
  `unit_paths` has its callback or a coroutine that will register it; one that is not was
  seen unloaded, and if it is loaded by now, a UnitNew is on the bus. `Reported`: after a
  readable journal the report is exactly the services recorded as failed. `Tracked` connects
  the two ends of the queues: what a coroutine has read of a service that did not change
  since is true, and for a watched service the *last* message about it on the bus, or else the
  last among the tasks, or else the recorded state, agrees with systemd (`Agrees`). Empty queues
  leave the last case.
- **Links.** The deque is a suffix of all readings (`Suffix`), readings are at least an
  interval apart (`Spaced`), so a full deque spans the window
  (`(MaxLen - 1) * Interval >= Window`), and the first reading in the window (`HasOldest`), which
  the evaluation looks for, was not dropped.
- **Flaps.** What a window shows is a difference of two readings, so nothing said of one reading
  is enough. `Growth` compares every two readings of the history: the counter grew by no more than
  the link-downs between them if the earlier one was really read (`NotMore`; a failed reading is a
  0 below the counter), and by no less if the later one was and no restart lies between
  (`NotLess`, `NoRestart`). `GrowthNow` says the same of each reading and the counter itself, which
  the next reading will be; without it a link-down since the last poll would be nowhere. The
  properties are `Growth` at the oldest reading of the window and the last, and the deque that
  is evaluated finds the same oldest reading as the history does.
- **Strikes.** `Coherent`: `_in_error` is true exactly for the keys whose shown verdict is an
  error, and a key that used up its strikes shows one. Without the first part an episode
  could be counted twice or not at all, without the second the latch could be taken back.
  Every poll then maps to a step of the latch in which each key begins, stays in or
  recovers from an error. `Shows` connects the verdicts to the status of the report.
- **XIDs.** A thread, a late save or a reload may bring back what was known earlier.
  `AllSupported` therefore asks of *every place* a history waits in (the process, each
  snapshot in a thread, the file that would be loaded) that all it tells was reported since
  the boot and not before the time given. A reboot empties what was reported, but kills the
  threads and makes the file one that will be dropped.
- **Saves.** `Covers` orders histories: one has every XID of the other, at the same time or
  earlier. In an orderly process (`Chain`) the file, the snapshots in the order they were taken
  and the process form a chain, each covered by the next, so a write that ends in order never
  makes the file smaller. `Fresh`: unless a save is scheduled, the newest snapshot, or the file
  when there is none, is all the process knows; a pass that raises breaks exactly this, and
  the next snapshot, which is of all the process knows, restores it.
- **Active checks.** `Locked`: the queue of the lock has each request once, its head under test
  (or hanging), the others queued, and whoever is queued or under test is in it. `Waits`: a slot
  with a request whose client still listens is in its epilog. `Kept`: an error that was found
  is in the answer, and its slot is not released. With disjoint GPUs nobody else's job is on
  the GPUs of the head.
- **Drain.** `Reported`: a known fault is in `errors` while its module is loaded and its check is
  neither due nor blind. `Served`: an agent that is up has nothing due. So an answer counts every
  known fault it can (`Told`), which is what `stood` remembers until the script acts;
  `Standing` is the same for the operator's drain between `ReadNode` and the action.

- **Kernel log.** A copy of the report waits in the ready queue and will replace the store.
  Nothing that runs meanwhile may make it miss an alert, and that is a matter of what can be
  queued together: the reading callback never waits twice (`OneRead`); at most one copy waits, and
  only a callback that comes after it (`OneUpdate`), so the store a copy replaces has nothing the
  copy lacks (`NoneLost`). A task that clears may come at any place in between: the report was
  stored again after each alert it names (`Renewed`), so a report old enough to be cleared
  names no alert of the last hour. For the same reason an alert that the pickle holds and the
  kernel has overwritten is still in the report after a restart.
- **GPU report.** `ReportsTold`: what is in a report is an error or a warning. Without it an XID that
  is in the report could be one the history would not tell again. The choice of the category is
  one lemma, `ErrorFirst`: if any of the errors has a category, so has the first the choice
  looks at.
- **Merge.** No induction: `GetMergeKeys` says what one level of the merge has at a key in terms
  of what the two files have there, `GetDeepMerge` and `MergedSection` use it for the two levels, and
  `MergeOfPath` splits on the length of a path: a leaf of the result is one of the user's file
  that is no null (`Decides`), one of the defaults (`Keeps`), or a null the merge took over
  (`TakenOver`), which is the excepted case. `ConfigInv` carries the shape of the two
  files (`FileOf`) from the load to the merge.
- **Pass over the processes.** `Witnessed`: a process noted as a zombie or stuck was so at some time
  of this pass, and one that was nothing else during the whole pass is noted once it has been
  read. The report lies between the two verdicts because more zombies and more stuck processes never
  make a better one (`VerdictGrows`, from the monotony of cardinality; this is where the processes must
  be finitely many).

## 6. What the code does not do

One run ends in a counterexample to what the repository says of the program:

- **`MCResumedBroken` / `HealthyWhenResumed`.** `health.sh.example:5` says that a node drained for
  its health is resumed when it "reports healthy status again". The script adds the numbers of
  two lines, gpu and network (`healthagent/etc/health.sh.example:42`). An agent without the network
  module, which README.md:172-177 gives as an example of a configuration and which is also what
  is left when the module fails to initialize, prints no network line; `$((3 + ))` is an
  error in bash, the assignment leaves `errors` empty, and `[[ "" -eq 0 ]]` is true. So a node
  drained for its health is resumed although the agent just told of GPU errors, and one
  that is not drained is never drained.

While modelling, more places showed where code and documents part. Most are the faults
the history variables of section 2 record; each property holds but for them:

- `healthagent/reporter.py:260`: a report stored while the agent stops is saved and never published:
  the publication fails because `add_task` returns `None` after `stop()`, the next process loads
  the report, and an identical one is not published again. A module that does not clear its
  errors on create (process) leaves CycleCloud with the old condition, also over a crash, since
  the pickle is that of the last orderly stop (`.github/instructions/healthagent.md:30`: "Reports are
  published to Azure CycleCloud").
- `healthagent/reporter.py:296`: jetpack processes are started and not waited for, so the
  conditions of two quick reports may arrive in the wrong order.
- `healthagent/network.py:134-147`: the early return for a degraded check comes before the GHR category
  is determined (170-177). From the poll after the degrading one the report is an error without
  a category (README.md:158: it "permanently degrades the node — meeting Azure's RMA criteria").
- `healthagent/process.py:28-39`: the thresholds README.md:526-532 calls configurable are constants of
  the class; the validated section of the configuration is never read.
- `healthagent/config.py:115-131`: a null below a section that only the user's file has is not removed
  (docstring at 121, README.md:169 and 198: "null: removes the key from the result"); the
  validation may then refuse it. `MergedByPath` asserts what the docstring says everywhere
  else, and excepts exactly these nulls (`NullsTakenOver`), of which it says nothing.
- `healthagent/gpu.py:432` and `healthagent/healthagent.py:243`: the error of an active check is not
  checked again while the node is drained and is forgotten when the agent restarts. The node
  stays drained until somebody runs the check, or is resumed after a restart.
- `healthagent/healthagent.py:186`: a node drained for its GPUs is also resumed when the gpu
  module cannot be initialized at the next start, which prints no gpu line.
- `healthagent/async_systemd.py:50-55`: a service that changes between the reading of its state
  and the match for its changes is not noticed (README.md:423-425 promises detection of failure
  and recovery).
- `healthagent/async_systemd.py:69`: a unit is entered in `unit_paths` before its handler is; an
  exception in between leaves it unwatched (README.md:421: "monitoring begins automatically").
- `healthagent/async_systemd.py:140`: the state is recorded before the journal is read; when that
  raises the change is not reported, and the next equal signal is no change.
- `healthagent/async_systemd.py:100-101` says that an initial state "inactive" is recorded; 113-127
  does not record it. The transitions that are recorded make up for it.
- `healthagent/network.py:112`: a counter that cannot be read counts as 0; when that reading becomes
  the oldest of the window the whole lifetime of the counter is taken for its growth
  (README.md:158 speaks of flaps within the window).
- `healthagent/network.py:138`: the error of a degraded check is renewed by looking at its interface;
  when the interface vanishes the node is no longer in error (README.md:155: only a reboot or a
  restart clears it).
- `healthagent/gpu.py:161`: snapshots of the XID history are written by threads that may end in the
  wrong order; `healthagent/gpu.py:76`: a reconnection reads the file over XIDs that are not saved
  yet (README.md:341: XIDs are only discarded if older than the last boot).
- `healthagent/gpu.py:380`: an exception while fields are read leaves out the known XIDs and the
  fields not yet looked at, and the check reports the rest. XIDs it had recorded are in the
  history without a save being scheduled (377-378 are skipped), so they are lost to a crash until
  something else saves (`skipped`).
- `healthagent/gpu.py:580`: only a failed connection makes the next check set up again; an exception
  in a later step of `setup()` leaves a module that reports nothing of what it does not watch
  (README.md:323 promises monitoring via health watches and fields).
- `healthagent/kmsg.py:111`: the `EPIPE` of an overwritten record is not caught, and the alerts that
  callback had read are dropped (README.md:508). Likewise what the kernel overwrote while no
  agent was running is never seen; both are `dropped`.
- `healthagent/healthagent.py:186-198`: a module whose creation failed is reported as left out,
  but what it had started goes on and reports; its report is published and not saved at the stop.
- `healthagent/client.py:201`: a client gives up after 1200 seconds and the server does not, so tests
  go on when the next job has started; `healthagent/gpu.py:396`: the memory test does not take
  `_pool_lock` (the docstring at `gpu.py:610` asks for exclusive access to the GPUs).
- `healthagent/healthmodule.py:197`: after `stop()` a check whose report changed raises when it is
  published and is left out of the response, so that the epilog script sees no error.

## 7. What is only model-checked, and what is not modelled

Only model-checked, on the bounds of section 3:

- the liveness properties (`LoopsKeepRunning`, `WaitingDiagnosticsRun`, `StopCleansUp`,
  `EventuallyCleared`, `EveryEpilogEnds`, `FaultReported`, `RecoveryReported` and
  `MismatchReported` of `GpuMonitor`, `FaultDrains`, `RecoveryResumes`, `StuckIsReported`): the prover
  handles neither fairness with `ENABLED` nor leads-to over unbounded data;
- the counterexample of `MCResumedBroken`, which is a behaviour and not a theorem.

Not modelled, and why:

- **What the client prints for people, argument parsing**: no state. What it prints for scripts
  is the input of `ActiveChecks` and `NodeDrain`.
- **`pid_max` after the start** (`healthagent/process.py:34`): read once; a node that changes it later is judged by
  the old value. It is a constant of the model.
- **A configuration that cannot be loaded, in `NodeDrain`**: the process ends at each start until systemd's
  start limit; `Config` has the loop, and the script does nothing when it gets no answer.
- **`clear_all_errors` over its awaits** (`healthagent/reporter.py:231`): it iterates the store while
  other tasks may add a name. Each module has a reporter of its own and clears it before it adds
  its tasks; the kernel log module, which also clears later, has a single name.
- **A null in a section the defaults do not have as a mapping**: it is in the model, and excepted from
  the property (section 6).
- **Configuration files deeper than two levels**: `MergeCorrect` and the run are about files of
  two. The network section of `defaults.yaml` has two
  more. Each further level is merged as `MergeKeys` merges one; that this carries over to every
  depth is an induction over data, which the prover does not do and a run could only sample.
- **Length of a report** (`healthagent/reporter.py:288`): a jetpack argument beyond the kernel's
  limit makes the process fail to start, which is the silent `JetpackFails` of the model.
- **DCGM calls that hang** (`healthagent/gpu.py:454`): a call is one step in `GpuMonitor`; what an
  agent that hangs does to the node is in `NodeDrain`.
- **Overlapping requests for the same GPUs** (`healthagent/gpu.py:396`): the scripts pass the GPUs
  of their own job.
- **Comparison branches of `evaluate`** (`lt`, `gt`, `eq`...): one operator each; their verdict is
  the input of `NetworkChecks` and `GpuMonitor`.
- **Profiler, `install.py`, the logging setup of `main.py`, `ghr.py`, shell scripts, packaging**: no behaviour another
  part depends on at run time.
- The external parts (asyncio's queues and lock, systemd and the bus, `/dev/kmsg`, DCGM, jetpack
  and CycleCloud) are modelled as the code uses them: replies and signals in order on one bus
  connection, the ready queue and the lock's waiters first in, first out, jetpack setting one
  condition per report.

## 8. The plan

Order: first what decides on a wrong report (scheduler, reporter), then each monitor that feeds
it, then the requests that come from outside.

Done: `Scheduler`, `Reporter`, `NetworkChecks` with the abstract `DegradationLatch`, `LinkWindow`,
`SystemdMonitor`, `XidHistory`, `Kmsg`, `ActiveChecks`, `GpuMonitor`, `NodeDrain`, `Config` and
`ProcessMonitor`; the abstract `FifoLock` that `Scheduler` and `ActiveChecks` implement; a theorem for
every safety property of the runs.

Next, models:

- **Composition of `GpuMonitor` and `XidHistory`**: the check, the history and its file in one
  module, so that what a reconnection forgets (`Setup`, any subset now) is what the file lacks.
- **An abstract "last report wins" register** that `Reporter` and CycleCloud implement when jetpack
  succeeds in order.
- **The agent of `NodeDrain` from its parts**: its `Check` is a step of `Reporter`, its `Start` that of
  `initialize_modules`.

Next, proofs:

- the register, from `Published` and `Delivered`;
- the safety half of liveness: that a queued request only moves forward in the line of `FifoLock`,
  that a process that stays stuck is in every report whose pass began after it was;
- `StrikesImplementLatch` and the deque together: an episode of the latch is an error of the window.

## 9. Running it

    tlc -workers 2 -config MCScheduler.cfg MCScheduler
    tlapm SchedulerProofs.tla

Each run is a pair of a configuration and the `MC` module named in the table of section 3. The
longest are `MCReporter` (5.9 million states) and `MCScheduler` (200 thousand, with three liveness
properties), two minutes each; `MCSystemdMonitor` and `MCXidHistory` (a million states each) take
about a minute, the others less. `SystemdProofs` and `MonitorProofs` take two minutes to
prove, the other proofs less than one. The modules use the community modules `SequencesExt` and `FiniteSetsExt`; the
proofs use SMT, Zenon and the temporal backend of TLAPS.
