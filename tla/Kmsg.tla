-------------------------------- MODULE Kmsg --------------------------------
(***************************************************************************)
(* The kernel log monitor (healthagent/kmsg.py): a callback of the event   *)
(* loop reads /dev/kmsg and adds to a copy of the report what another task *)
(* stores later, a periodic task clears a report nothing was added to for  *)
(* an hour, and a restart reads the kernel's buffer from its beginning.    *)
(* Time is kept as ages that stop counting just above an hour.             *)
(***************************************************************************)
EXTENDS Naturals, Sequences

CONSTANTS
    MaxAlerts,    \* bound on the records of level 0 to 2 the kernel logs
    Hour,         \* one hour, in ticks of the clock
    MaxTasks      \* bound on the tasks waiting in the event loop

ASSUME KmsgAssumption == MaxAlerts \in Nat /\ Hour \in Nat /\ MaxTasks \in Nat \ {0}

Alerts == 1..MaxAlerts
Ages == 0..(Hour + 1)

VARIABLES
    agent,   \* "up", "stopping" (after Scheduler.stop) or "down"
    logged,  \* alerts 1..logged were logged
    age,     \* of each alert
    pos,     \* alerts 1..pos were read through the open file, or left the
             \* buffer before it was opened
    queue,   \* the event loop's ready queue, the oldest first: the callback
             \* "read", and the first steps of "update" and "clear" tasks
    store,   \* the report KernelLogCheck in Reporter.store: the alerts its
             \* details name (none when it is OK) and the age of last_update
    file,    \* the report as save_reporter pickled it
    overwritten, \* alerts 1..overwritten had left the kernel's buffer when the
             \* agent opened it
    dropped  \* history: alerts this process cannot report: overwritten before
             \* it started, or read by a read_callback that raised

kmsgVars == <<agent, logged, age, pos, queue, store, file, dropped, overwritten>>

(* HealthReport(), with last_update long ago. *)
NoReport == [details |-> {}, age |-> Hour + 1]

ReadHandle == [kind |-> "read", details |-> {}]
ClearTask == [kind |-> "clear", details |-> {}]

KmsgInit ==
    /\ agent = "up"
    /\ logged = 0
    /\ age = [a \in Alerts |-> 0]
    /\ pos = 0
    /\ queue = <<>>
    /\ store = NoReport
    /\ file = NoReport
    /\ dropped = {}
    /\ overwritten = 0

-----------------------------------------------------------------------------
(* The kernel logs an alert.  Records of other levels are not modelled:    *)
(* they make the file readable, so that read_callback may always run.      *)
Log ==
    /\ logged < MaxAlerts
    /\ logged' = logged + 1
    /\ UNCHANGED <<agent, age, pos, queue, store, file, dropped, overwritten>>

Older(a) == IF a > Hour THEN a ELSE a + 1

Tick ==
    /\ age' = [a \in Alerts |-> IF a <= logged THEN Older(age[a]) ELSE 0]
    /\ store' = [store EXCEPT !.age = Older(@)]
    /\ file' = [file EXCEPT !.age = Older(@)]
    /\ UNCHANGED <<agent, logged, pos, queue, dropped, overwritten>>

-----------------------------------------------------------------------------
(* Records older than an hour are ignored. *)
Recent(records) == {a \in records : age[a] <= Hour}

Update(details) == [kind |-> "update", details |-> details]

(* Variant: every callback stores the report again. *)
ReadAlways(records) == <<Update(store.details \cup Recent(records))>>

(* What read_callback leaves for the loop: a task that stores a copy of    *)
(* the report with the alerts added.                                       *)
Read(records) ==
    IF Recent(records) = {} THEN <<>>
    ELSE <<Update(store.details \cup Recent(records))>>

(* The selector finds the file readable: the callback becomes ready, once. *)
Readable ==
    /\ agent # "down" /\ Len(queue) < MaxTasks
    /\ ReadHandle \notin {queue[i] : i \in 1..Len(queue)}
    /\ queue' = Append(queue, ReadHandle)
    /\ UNCHANGED <<agent, logged, age, pos, store, file, dropped, overwritten>>

(* The timer of the periodic clear_errors. *)
ClearTimer ==
    /\ agent = "up" /\ Len(queue) < MaxTasks
    /\ ClearTask \notin {queue[i] : i \in 1..Len(queue)}
    /\ queue' = Append(queue, ClearTask)
    /\ UNCHANGED <<agent, logged, age, pos, store, file, dropped, overwritten>>

(* Variant: whatever its age. *)
ClearsAnyAge == [details |-> {}, age |-> 0]

(* clear_all_errors(timedelta(hours=1)): what was not renewed for an hour. *)
Clears == IF store.age > Hour THEN [details |-> {}, age |-> 0] ELSE store

(* The ready queue is first in, first out. *)
Runs(kinds) == agent # "down" /\ queue # <<>> /\ Head(queue).kind \in kinds

(* read_callback reads until there is nothing left (BlockingIOError);      *)
(* add_task makes no task once the scheduler was stopped.                  *)
ReadCallback ==
    /\ Runs({"read"})
    /\ pos' = logged
    /\ queue' = Tail(queue) \o (IF agent = "up" THEN Read((pos + 1)..logged) ELSE <<>>)
    /\ UNCHANGED <<agent, logged, age, store, file, dropped, overwritten>>

(* A record was overwritten before it could be read: os.read raises EPIPE, *)
(* which read_callback does not catch, after some alerts were read.        *)
ReadOverrun ==
    /\ Runs({"read"})
    /\ pos' \in (pos + 1)..logged
    /\ dropped' = dropped \cup (pos + 1)..pos'
    /\ queue' = Tail(queue)
    /\ UNCHANGED <<agent, logged, age, store, file, overwritten>>

(* A task runs up to its first await, which is after the store changed:    *)
(* update_report stores the copy, an equal one only renews last_update.    *)
RunTask ==
    /\ Runs({"update", "clear"})
    /\ store' = IF Head(queue).kind = "clear" THEN Clears
                ELSE [details |-> Head(queue).details, age |-> 0]
    /\ queue' = Tail(queue)
    /\ UNCHANGED <<agent, logged, age, pos, file, dropped, overwritten>>

-----------------------------------------------------------------------------
Stop ==
    /\ agent = "up"
    /\ agent' = "stopping"
    /\ UNCHANGED <<logged, age, pos, queue, store, file, dropped, overwritten>>

(* save_reporter; dump may fail and leave no file. *)
Exit ==
    /\ agent = "stopping" /\ queue = <<>>
    /\ agent' = "down"
    /\ file' \in {store, NoReport}
    /\ UNCHANGED <<logged, age, pos, queue, store, dropped, overwritten>>

Crash ==
    /\ agent # "down"
    /\ agent' = "down"
    /\ queue' = <<>>
    /\ UNCHANGED <<logged, age, pos, store, file, dropped, overwritten>>

(* KmsgReader(): a newly opened /dev/kmsg is at the first record that is   *)
(* still in the buffer, some of which was overwritten since.               *)
Restart ==
    /\ agent = "down"
    /\ agent' = "up"
    /\ overwritten' \in overwritten..logged
    /\ pos' = overwritten'
    /\ dropped' = (1..overwritten') \ file.details
    /\ store' = file
    /\ UNCHANGED <<logged, age, queue, file>>

KmsgNext ==
    \/ Log \/ Tick
    \/ Readable \/ ReadCallback \/ ReadOverrun \/ ClearTimer \/ RunTask
    \/ Stop \/ Exit \/ Crash \/ Restart

KmsgSpec == KmsgInit /\ [][KmsgNext]_kmsgVars

(* Time passes and the loop runs what is ready.  The timer of a periodic   *)
(* task is armed again whenever it ran; only MaxTasks can hold it back     *)
(* here, hence the strong fairness.                                        *)
KmsgFairSpec ==
    /\ KmsgSpec
    /\ WF_kmsgVars(Tick) /\ WF_kmsgVars(RunTask)
    /\ WF_kmsgVars(ReadCallback) /\ SF_kmsgVars(ClearTimer)

-----------------------------------------------------------------------------
Report == [details : SUBSET Alerts, age : Ages]

KmsgTypeOK ==
    /\ agent \in {"up", "stopping", "down"}
    /\ logged \in 0..MaxAlerts /\ pos \in 0..logged /\ overwritten \in 0..pos
    /\ age \in [Alerts -> Ages]
    /\ queue \in Seq([kind : {"read", "update", "clear"}, details : SUBSET Alerts])
    /\ Len(queue) <= MaxTasks
    /\ store \in Report /\ file \in Report
    /\ dropped \subseteq 1..pos

Pending == UNION {queue[i].details : i \in 1..Len(queue)}

(* An alert of the last hour is in the report, on its way there or still   *)
(* to be read: it is lost neither between the copy of the report and its   *)
(* storing, nor to the task that clears, nor in a crash or a restart, even *)
(* one that finds it overwritten if it is in the file, but only to the     *)
(* kernel, which overwrote it unread, and to the exception of a            *)
(* read_callback that was overrun.                                         *)
AlertsAccounted ==
    agent = "up" =>
        \A a \in (1..logged) \ dropped : age[a] <= Hour =>
            a \in store.details \/ a \in Pending \/ a > pos

(* When the agent stays up and no alert follows, the report becomes OK and *)
(* stays so.                                                               *)
EventuallyCleared == <>[](agent = "up") => <>[](store.details = {})
=============================================================================
