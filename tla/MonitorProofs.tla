---------------------------- MODULE MonitorProofs ----------------------------
(***************************************************************************)
(* What holds of three monitors of the agent for every value of their      *)
(* constants: the kernel log (Kmsg), the GPUs (GpuMonitor), and the        *)
(* processes with the configuration they are created from (ProcessMonitor  *)
(* and Config).                                                            *)
(*                                                                         *)
(* The kernel log first.  An alert reaches the report through a copy of it *)
(* that waits in the event loop.  Nothing that runs meanwhile may make     *)
(* that copy miss an alert: at most one copy waits at a time, and no       *)
(* read_callback before it (OneUpdate), because the callback itself never  *)
(* waits twice (OneRead).  So the report the copy replaces holds nothing   *)
(* it lacks (NoneLost).  And the report was stored again after each alert  *)
(* it names (Renewed), so the task that clears it finds it young.          *)
(***************************************************************************)
EXTENDS Kmsg, GpuMonitor, ProcessMonitor, SequenceTheorems, FiniteSetTheorems, TLAPS

Task == [kind : {"read", "update", "clear"}, details : SUBSET Alerts]

(* Only a copy of the report has something to say, and of logged alerts. *)
Queued ==
    \A i \in 1..Len(queue) :
        /\ queue[i].details \subseteq 1..logged
        /\ queue[i].kind # "update" => queue[i].details = {}

OneRead ==
    \A i, j \in 1..Len(queue) : queue[i].kind = "read" /\ queue[j].kind = "read" => i = j

OneUpdate ==
    \A i, j \in 1..Len(queue) :
        queue[i].kind = "update" /\ queue[j].kind \in {"read", "update"} /\ i # j =>
            queue[j].kind = "read" /\ i < j

NoneLost ==
    \A i \in 1..Len(queue) : queue[i].kind = "update" => store.details \subseteq queue[i].details

Renewed(r) == \A a \in r.details : a \in 1..logged /\ r.age <= age[a]

KmsgInv ==
    /\ KmsgTypeOK
    /\ Queued /\ OneRead /\ OneUpdate /\ NoneLost
    /\ Renewed(store) /\ Renewed(file)
    /\ agent = "down" => queue = <<>>
    /\ AlertsAccounted

LEMMA KmsgInitCorrect == KmsgInit => KmsgInv
<1> SUFFICES ASSUME KmsgInit PROVE KmsgInv
    OBVIOUS
<1> USE KmsgAssumption DEF KmsgInit
<1>1. KmsgTypeOK
    BY DEF KmsgTypeOK, NoReport, Report, Ages, Alerts
<1>2. Queued /\ OneRead /\ OneUpdate /\ NoneLost /\ Renewed(store) /\ Renewed(file)
    BY DEF Queued, OneRead, OneUpdate, NoneLost, Renewed, NoReport
<1> QED
    BY <1>1, <1>2 DEF KmsgInv, AlertsAccounted

(* The alerts and their ages are numbers. *)
LEMMA KmsgTyped ==
    ASSUME KmsgTypeOK
    PROVE  /\ Hour \in Nat /\ MaxAlerts \in Nat /\ logged \in Nat /\ pos \in Nat
           /\ logged <= MaxAlerts /\ pos <= logged
           /\ \A a \in 1..logged : a \in Alerts
           /\ \A a \in Alerts : a \in Nat /\ age[a] \in Nat /\ age[a] <= Hour + 1
           /\ queue \in Seq(Task) /\ Len(queue) \in Nat
           /\ \A i \in 1..Len(queue) : queue[i] \in Task
           /\ store \in Report /\ file \in Report
           /\ store.age \in Nat /\ store.age <= Hour + 1 /\ store.details \subseteq Alerts
           /\ file.age \in Nat /\ file.age <= Hour + 1 /\ file.details \subseteq Alerts
<1>1. /\ Hour \in Nat /\ MaxAlerts \in Nat /\ logged \in Nat /\ pos \in Nat
      /\ logged <= MaxAlerts /\ pos <= logged
    BY KmsgAssumption DEF KmsgTypeOK
<1>2. \A a \in 1..logged : a \in Alerts
    BY <1>1 DEF Alerts
<1>3. \A a \in Alerts : a \in Nat /\ age[a] \in Nat /\ age[a] <= Hour + 1
    BY <1>1 DEF KmsgTypeOK, Alerts, Ages
<1>4. queue \in Seq(Task)
    BY DEF KmsgTypeOK, Task
<1>5. Len(queue) \in Nat /\ \A i \in 1..Len(queue) : queue[i] \in Task
    BY <1>4
<1>6. \A r \in Report : r.age \in Nat /\ r.age <= Hour + 1 /\ r.details \subseteq Alerts
    BY <1>1 DEF Report, Ages
<1>7. store \in Report /\ file \in Report
    BY DEF KmsgTypeOK
<1> QED
    BY <1>1, <1>2, <1>3, <1>4, <1>5, <1>6, <1>7

-----------------------------------------------------------------------------
(* Steps that leave the queue alone. *)

LEMMA LogKeeps == ASSUME KmsgInv, Log PROVE KmsgInv'
<1> USE DEF Log
<1>1. KmsgTypeOK
    BY DEF KmsgInv
<1>2. KmsgTypeOK'
    BY <1>1, KmsgAssumption DEF KmsgTypeOK
<1>3. logged \in Nat /\ pos \in Nat /\ pos <= logged
    BY <1>1, KmsgTyped
<1>4. 1..logged \subseteq 1..logged' /\ logged' = logged + 1
    BY <1>3
<1>5. Queued' /\ OneRead' /\ OneUpdate' /\ NoneLost' /\ Renewed(store)' /\ Renewed(file)'
    BY <1>4 DEF KmsgInv, Queued, OneRead, OneUpdate, NoneLost, Renewed
<1>6. AlertsAccounted'
    <2> SUFFICES ASSUME agent = "up", NEW a \in 1..(logged + 1), a \notin dropped, age[a] <= Hour
                 PROVE  a \in store.details \/ a \in Pending \/ a > pos
        BY DEF AlertsAccounted, Pending
    <2>1. CASE a = logged + 1
        BY <2>1, <1>3
    <2>2. CASE a # logged + 1
        <3>1. a \in 1..logged
            BY <2>2, <1>3
        <3> QED
            BY <3>1 DEF KmsgInv, AlertsAccounted
    <2> QED
        BY <2>1, <2>2
<1> QED
    BY <1>2, <1>5, <1>6 DEF KmsgInv

(* Ages grow together and stop together. *)
LEMMA OlderGrows ==
    ASSUME NEW x \in Nat, NEW y \in Nat, x <= Hour + 1, y <= Hour + 1
    PROVE  /\ Older(x) \in Nat /\ Older(x) <= Hour + 1
           /\ x <= y => Older(x) <= Older(y)
           /\ Older(x) <= Hour => x <= Hour
    BY KmsgAssumption DEF Older

LEMMA OlderReport ==
    ASSUME NEW r \in Report
    PROVE  /\ [r EXCEPT !.age = Older(@)] \in Report
           /\ [r EXCEPT !.age = Older(@)].details = r.details
           /\ [r EXCEPT !.age = Older(@)].age = Older(r.age)
<1>1. Older(r.age) \in Ages
    BY KmsgAssumption DEF Older, Report, Ages
<1>2. ASSUME NEW x \in Ages
      PROVE  /\ [r EXCEPT !.age = x] \in Report
             /\ [r EXCEPT !.age = x].details = r.details /\ [r EXCEPT !.age = x].age = x
    BY DEF Report
<1> QED
    BY <1>1, <1>2, Zenon

LEMMA TickKeeps == ASSUME KmsgInv, Tick PROVE KmsgInv'
<1>1. KmsgTypeOK
    BY DEF KmsgInv
<1>2. /\ UNCHANGED <<agent, logged, pos, queue, dropped, overwritten>>
      /\ store' = [store EXCEPT !.age = Older(@)] /\ file' = [file EXCEPT !.age = Older(@)]
      /\ age' = [a \in Alerts |-> IF a <= logged THEN Older(age[a]) ELSE 0]
    BY DEF Tick
<1>3. /\ store'.details = store.details /\ store'.age = Older(store.age) /\ store' \in Report
      /\ file'.details = file.details /\ file'.age = Older(file.age) /\ file' \in Report
    BY <1>1, <1>2, KmsgTyped, OlderReport, Zenon
<1>4. \A a \in 1..logged : age'[a] = Older(age[a])
    BY <1>1, <1>2, KmsgTyped
<1>5. age' \in [Alerts -> Ages]
    BY <1>1, <1>2, KmsgTyped, OlderGrows DEF Ages
<1>6. KmsgTypeOK'
    BY <1>1, <1>2, <1>3, <1>5 DEF KmsgTypeOK
<1>7. ASSUME NEW r, NEW s, r.age \in Nat, r.age <= Hour + 1, Renewed(r),
             s.details = r.details, s.age = Older(r.age)
      PROVE  \A a \in s.details : a \in 1..logged' /\ s.age <= age'[a]
    <2> SUFFICES ASSUME NEW a \in r.details PROVE a \in 1..logged /\ Older(r.age) <= age'[a]
        BY <1>2, <1>7
    <2>1. a \in 1..logged /\ r.age <= age[a]
        BY <1>7 DEF Renewed
    <2>2. age[a] \in Nat /\ age[a] <= Hour + 1
        BY <2>1, <1>1, KmsgTyped
    <2> QED
        BY <2>1, <2>2, <1>4, <1>7, OlderGrows
<1>8. Renewed(store)' /\ Renewed(file)'
    BY <1>1, <1>3, <1>7, KmsgTyped DEF KmsgInv, Renewed
<1>9. Queued' /\ OneRead' /\ OneUpdate' /\ NoneLost'
    BY <1>2, <1>3 DEF KmsgInv, Queued, OneRead, OneUpdate, NoneLost
<1>10. AlertsAccounted'
    <2> SUFFICES ASSUME agent = "up", NEW a \in 1..logged, a \notin dropped, age'[a] <= Hour
                 PROVE  a \in store.details \/ a \in Pending \/ a > pos
        BY <1>2, <1>3 DEF AlertsAccounted, Pending
    <2>1. age[a] <= Hour
        BY <1>1, <1>4, KmsgTyped, OlderGrows
    <2> QED
        BY <2>1 DEF KmsgInv, AlertsAccounted
<1> QED
    BY <1>2, <1>6, <1>8, <1>9, <1>10 DEF KmsgInv

LEMMA AgentKeeps == ASSUME KmsgInv, Stop \/ Exit \/ Crash \/ Restart PROVE KmsgInv'
<1>1. KmsgTypeOK
    BY DEF KmsgInv
<1>2. CASE Stop
    BY <1>2 DEF Stop, KmsgInv, KmsgTypeOK, Queued, OneRead, OneUpdate, NoneLost, Renewed, AlertsAccounted
<1>3. CASE Exit
    <2>1. file' = store \/ file' = NoReport
        BY <1>3 DEF Exit
    <2>2. NoReport \in Report /\ NoReport.details = {}
        BY KmsgAssumption DEF NoReport, Report, Ages
    <2>3. file' \in Report /\ Renewed(file)'
        BY <1>1, <1>3, <2>1, <2>2 DEF Exit, KmsgInv, KmsgTypeOK, Renewed
    <2>4. KmsgTypeOK'
        BY <1>1, <1>3, <2>3 DEF Exit, KmsgTypeOK
    <2> QED
        BY <1>3, <2>3, <2>4
           DEF Exit, KmsgInv, Queued, OneRead, OneUpdate, NoneLost, Renewed, AlertsAccounted
<1>4. CASE Crash
    <2>1. queue' = <<>> /\ agent' = "down" /\ UNCHANGED <<logged, age, pos, store, file, dropped, overwritten>>
        BY <1>4 DEF Crash
    <2>2. KmsgTypeOK'
        BY <1>1, <2>1, KmsgAssumption DEF KmsgTypeOK
    <2>3. Queued' /\ OneRead' /\ OneUpdate' /\ NoneLost'
        BY <2>1 DEF Queued, OneRead, OneUpdate, NoneLost
    <2> QED
        BY <2>1, <2>2, <2>3 DEF KmsgInv, Renewed, AlertsAccounted
(* All of the kernel's buffer is to be read again, and what had left it is *)
(* in the report or excepted.                                              *)
<1>5. CASE Restart
    <2>1. /\ queue = <<>> /\ queue' = queue /\ agent' = "up" /\ pos' = overwritten'
          /\ dropped' = (1..overwritten') \ file.details /\ overwritten' \in overwritten..logged
          /\ store' = file /\ UNCHANGED <<logged, age, file>>
        BY <1>5 DEF Restart, KmsgInv
    <2>2. KmsgTypeOK'
        <3>1. overwritten \in Nat /\ overwritten' \in 0..logged
            BY <1>1, <2>1, KmsgTyped DEF KmsgTypeOK
        <3>2. overwritten' \in 0..pos' /\ dropped' \subseteq 1..pos'
            BY <2>1, <3>1, KmsgTyped
        <3> QED
            BY <1>1, <2>1, <3>1, <3>2 DEF KmsgTypeOK
    <2>3. Queued' /\ OneRead' /\ OneUpdate' /\ NoneLost'
        BY <2>1 DEF Queued, OneRead, OneUpdate, NoneLost
    <2>4. Renewed(store)' /\ Renewed(file)'
        BY <2>1 DEF KmsgInv, Renewed
    <2>5. AlertsAccounted'
        <3>1. \A a \in 1..logged : a \in 1..pos' \/ a > pos'
            BY <1>1, <2>1, KmsgTyped DEF KmsgTypeOK
        <3> QED
            BY <2>1, <3>1 DEF AlertsAccounted
    <2> QED
        BY <2>1, <2>2, <2>3, <2>4, <2>5 DEF KmsgInv
<1> QED
    BY <1>2, <1>3, <1>4, <1>5

-----------------------------------------------------------------------------
(* Steps of the event loop: the queue grows at its end and is worked off   *)
(* from its front.                                                         *)

LEMMA Appended ==
    ASSUME NEW q \in Seq(Task), NEW x \in Task
    PROVE  /\ Append(q, x) \in Seq(Task) /\ Len(Append(q, x)) = Len(q) + 1
           /\ Append(q, x)[Len(q) + 1] = x
           /\ \A i \in 1..Len(q) : Append(q, x)[i] = q[i]
    OBVIOUS

LEMMA Popped ==
    ASSUME NEW q \in Seq(Task), q # <<>>
    PROVE  /\ Tail(q) \in Seq(Task) /\ Len(q) \in Nat /\ Len(q) >= 1
           /\ Len(Tail(q)) = Len(q) - 1
           /\ Head(q) = q[1] /\ Head(q) \in Task
           /\ \A i \in 1..Len(Tail(q)) : i + 1 \in 1..Len(q) /\ Tail(q)[i] = q[i + 1]
    OBVIOUS

(* A handle or a task that has nothing to say. *)
LEMMA SilentAppend ==
    ASSUME KmsgInv, NEW x \in Task, x.details = {},
           \/ x.kind = "clear"
           \/ x.kind = "read" /\ \A i \in 1..Len(queue) : queue[i].kind # "read",
           agent # "down", Len(queue) < MaxTasks, queue' = Append(queue, x),
           UNCHANGED <<agent, logged, age, pos, store, file, dropped, overwritten>>
    PROVE  KmsgInv'
<1> DEFINE n == Len(queue)
<1>1. KmsgTypeOK /\ queue \in Seq(Task) /\ n \in Nat
    BY KmsgTyped DEF KmsgInv
<1>2. /\ queue' \in Seq(Task) /\ Len(queue') = n + 1 /\ queue'[n + 1] = x
      /\ \A i \in 1..n : queue'[i] = queue[i]
    BY <1>1, Appended
<1>3. KmsgTypeOK'
    BY <1>1, <1>2, KmsgAssumption DEF KmsgTypeOK, Task
<1>4. \A i \in 1..Len(queue') : i \in 1..n \/ i = n + 1
    BY <1>1, <1>2
<1>5. x.kind # "update"
    OBVIOUS
<1>6. Queued'
    BY <1>2, <1>4 DEF KmsgInv, Queued
<1>7. OneRead'
    BY <1>2, <1>4 DEF KmsgInv, OneRead
<1>8. OneUpdate'
    <2> SUFFICES ASSUME NEW i \in 1..Len(queue'), NEW j \in 1..Len(queue'),
                        queue'[i].kind = "update", queue'[j].kind \in {"read", "update"}, i # j
                 PROVE  queue'[j].kind = "read" /\ i < j
        BY DEF OneUpdate
    <2>1. i \in 1..n
        BY <1>2, <1>4, <1>5
    <2>2. CASE j \in 1..n
        BY <2>1, <2>2, <1>2 DEF KmsgInv, OneUpdate
    <2>3. CASE j = n + 1
        BY <2>1, <2>3, <1>1, <1>2, <1>5
    <2> QED
        BY <2>2, <2>3, <1>4
<1>9. NoneLost'
    BY <1>2, <1>4, <1>5 DEF KmsgInv, NoneLost
<1>10. Pending \subseteq Pending'
    <2>1. 1..n \subseteq 1..Len(queue')
        BY <1>1, <1>2
    <2> QED
        BY <2>1, <1>2 DEF Pending
<1>11. Renewed(store)' /\ Renewed(file)'
    BY DEF KmsgInv, Renewed
<1>12. AlertsAccounted'
    BY <1>10 DEF KmsgInv, AlertsAccounted
<1> QED
    BY <1>3, <1>6, <1>7, <1>8, <1>9, <1>11, <1>12 DEF KmsgInv

LEMMA ReadableKeeps == ASSUME KmsgInv, Readable PROVE KmsgInv'
<1>1. ReadHandle \in Task /\ ReadHandle.details = {} /\ ReadHandle.kind = "read"
    BY DEF ReadHandle, Task
<1>2. \A i \in 1..Len(queue) : queue[i].kind # "read"
    <2> SUFFICES ASSUME NEW i \in 1..Len(queue), queue[i].kind = "read" PROVE FALSE
        OBVIOUS
    <2>1. queue[i] \in Task /\ queue[i].details = {}
        BY KmsgTyped DEF KmsgInv, Queued
    <2>2. queue[i] = ReadHandle
        BY <2>1 DEF Task, ReadHandle
    <2> QED
        BY <2>2 DEF Readable
<1> QED
    BY <1>1, <1>2, SilentAppend DEF Readable

LEMMA ClearTimerKeeps == ASSUME KmsgInv, ClearTimer PROVE KmsgInv'
<1>1. ClearTask \in Task /\ ClearTask.details = {} /\ ClearTask.kind = "clear"
    BY DEF ClearTask, Task
<1> QED
    BY <1>1, SilentAppend DEF ClearTimer

(* What pops the head of the queue and adds at most one copy at its end.   *)
(* While read_callback runs there is no copy in the queue.                 *)
LEMMA NoCopyWaits ==
    ASSUME KmsgInv, Runs({"read"})
    PROVE  \A i \in 1..Len(queue) : /\ queue[i].kind # "update" /\ queue[i].details = {}
                                    /\ i # 1 => queue[i].kind # "read"
<1>1. queue \in Seq(Task) /\ queue # <<>> /\ Head(queue).kind = "read"
    BY KmsgTyped DEF KmsgInv, Runs
<1>2. 1 \in 1..Len(queue) /\ queue[1].kind = "read"
    BY <1>1
<1>3. ASSUME NEW i \in 1..Len(queue) PROVE queue[i].kind # "update"
    <2>1. i \in Nat /\ ~(i < 1)
        OBVIOUS
    <2> QED
        BY <2>1, <1>2 DEF KmsgInv, OneUpdate
<1> QED
    BY <1>2, <1>3 DEF KmsgInv, Queued, OneRead

LEMMA ReadOverrunKeeps == ASSUME KmsgInv, ReadOverrun PROVE KmsgInv'
<1>1. KmsgTypeOK /\ queue \in Seq(Task) /\ queue # <<>>
      /\ logged \in Nat /\ pos \in Nat /\ pos <= logged
    BY KmsgTyped DEF KmsgInv, ReadOverrun, Runs
<1>2. /\ queue' = Tail(queue) /\ pos' \in (pos + 1)..logged
      /\ dropped' = dropped \cup (pos + 1)..pos'
      /\ UNCHANGED <<agent, logged, age, store, file, overwritten>> /\ agent # "down"
    BY DEF ReadOverrun, Runs
<1>3. /\ queue' \in Seq(Task) /\ Len(queue') = Len(queue) - 1 /\ Len(queue) \in Nat
      /\ \A i \in 1..Len(queue') : i + 1 \in 1..Len(queue) /\ queue'[i] = queue[i + 1]
    BY <1>1, <1>2, Popped
<1>4. \A i \in 1..Len(queue') : queue'[i].kind = "clear" /\ queue'[i].details = {}
    <2> SUFFICES ASSUME NEW i \in 1..Len(queue')
                 PROVE  queue'[i].kind = "clear" /\ queue'[i].details = {}
        OBVIOUS
    <2>1. i + 1 \in 1..Len(queue) /\ i + 1 # 1 /\ queue'[i] = queue[i + 1] /\ queue'[i] \in Task
        BY <1>3
    <2>2. queue'[i].kind # "update" /\ queue'[i].kind # "read" /\ queue'[i].details = {}
        BY <2>1, NoCopyWaits DEF ReadOverrun
    <2> QED
        BY <2>1, <2>2 DEF Task
<1>5. KmsgTypeOK'
    <2>1. pos' \in 0..logged /\ dropped' \subseteq 1..pos' /\ overwritten' \in 0..pos'
        <3>1. pos' \in Nat /\ pos' >= pos /\ pos' <= logged
            BY <1>1, <1>2
        <3>2. dropped \subseteq 1..pos /\ 1..pos \subseteq 1..pos' /\ (pos + 1)..pos' \subseteq 1..pos'
            BY <1>1, <3>1 DEF KmsgTypeOK
        <3>3. overwritten' \in 0..pos'
            BY <1>1, <1>2, <3>1 DEF KmsgTypeOK
        <3> QED
            BY <1>1, <1>2, <3>1, <3>2, <3>3
    <2>2. Len(queue') <= MaxTasks
        BY <1>1, <1>3, KmsgAssumption DEF KmsgTypeOK
    <2> QED
        BY <1>1, <1>2, <1>3, <2>1, <2>2 DEF KmsgTypeOK, Task
<1>6. Queued' /\ OneRead' /\ OneUpdate' /\ NoneLost'
    BY <1>4 DEF Queued, OneRead, OneUpdate, NoneLost
<1>7. Renewed(store)' /\ Renewed(file)'
    BY <1>2 DEF KmsgInv, Renewed
<1>8. AlertsAccounted'
    <2> SUFFICES ASSUME agent = "up", NEW a \in 1..logged, a \notin dropped',
                        age[a] <= Hour, ~(a > pos')
                 PROVE  a \in store.details
        BY <1>2 DEF AlertsAccounted
    <2>1. a \notin dropped /\ ~(a > pos)
        BY <1>1, <1>2
    <2>2. a \notin Pending
        BY NoCopyWaits DEF Pending, ReadOverrun
    <2> QED
        BY <2>1, <2>2 DEF KmsgInv, AlertsAccounted
<1> QED
    BY <1>2, <1>5, <1>6, <1>7, <1>8 DEF KmsgInv

(* read_callback leaves only tasks that clear, and behind them perhaps a   *)
(* copy of the report with what it read added.                             *)
LEMMA ReadCallbackKeeps == ASSUME KmsgInv, ReadCallback PROVE KmsgInv'
<1> DEFINE fresh == Recent((pos + 1)..logged)
<1> DEFINE n == Len(Tail(queue))
<1>1. KmsgTypeOK /\ queue \in Seq(Task) /\ queue # <<>> /\ Len(queue) \in Nat
      /\ logged \in Nat /\ pos \in Nat /\ pos <= logged
    BY KmsgTyped DEF KmsgInv, ReadCallback, Runs
<1>2. /\ pos' = logged /\ agent # "down"
      /\ UNCHANGED <<agent, logged, age, store, file, dropped, overwritten>>
    BY DEF ReadCallback, Runs
<1>3. /\ Tail(queue) \in Seq(Task) /\ n = Len(queue) - 1 /\ n \in Nat
      /\ \A i \in 1..n : i + 1 \in 1..Len(queue) /\ Tail(queue)[i] = queue[i + 1]
    BY <1>1, Popped
<1>4. \A i \in 1..n : Tail(queue)[i].kind = "clear" /\ Tail(queue)[i].details = {}
    <2> SUFFICES ASSUME NEW i \in 1..n
                 PROVE  Tail(queue)[i].kind = "clear" /\ Tail(queue)[i].details = {}
        OBVIOUS
    <2>1. /\ i + 1 \in 1..Len(queue) /\ i + 1 # 1 /\ Tail(queue)[i] = queue[i + 1]
          /\ Tail(queue)[i] \in Task
        BY <1>3
    <2>2. /\ Tail(queue)[i].kind # "update" /\ Tail(queue)[i].kind # "read"
          /\ Tail(queue)[i].details = {}
        BY <2>1, NoCopyWaits DEF ReadCallback
    <2> QED
        BY <2>1, <2>2 DEF Task
<1>5. Renewed(store)' /\ Renewed(file)'
    BY <1>2 DEF KmsgInv, Renewed
<1>6. /\ fresh \subseteq 1..logged /\ store.details \subseteq 1..logged
      /\ 1..logged \subseteq Alerts
    BY <1>1, KmsgTyped DEF KmsgInv, Renewed, Recent
<1>7. pos' \in 0..logged /\ dropped \subseteq 1..pos' /\ overwritten \in 0..pos'
    BY <1>1, <1>2 DEF KmsgTypeOK
(* An alert that is neither in the report nor dropped is read now. *)
<1>8. \A a \in (1..logged) \ dropped :
         agent = "up" /\ age[a] <= Hour => a \in store.details \/ a \in fresh
    <2> SUFFICES ASSUME NEW a \in (1..logged) \ dropped, agent = "up", age[a] <= Hour,
                        a \notin store.details
                 PROVE  a \in fresh
        OBVIOUS
    <2>1. a \notin Pending
        BY NoCopyWaits DEF Pending, ReadCallback
    <2>2. a > pos
        BY <2>1 DEF KmsgInv, AlertsAccounted
    <2> QED
        BY <2>2, <1>1 DEF Recent
<1>9. CASE agent = "up" /\ fresh # {}
    <2> DEFINE x == Update(store.details \cup fresh)
    <2>1. x \in Task /\ x.kind = "update" /\ x.details = store.details \cup fresh
        BY <1>6 DEF Update, Task
    <2>2. queue' = Append(Tail(queue), x)
        <3>1. queue' = Tail(queue) \o <<x>>
            BY <1>9 DEF ReadCallback, Read
        <3> HIDE DEF x
        <3> QED
            BY <1>3, <2>1, <3>1, AppendIsConcat
    <2>3. /\ queue' \in Seq(Task) /\ Len(queue') = n + 1 /\ queue'[n + 1] = x
          /\ \A i \in 1..n : queue'[i] = Tail(queue)[i]
        BY <1>3, <2>1, <2>2, Appended
    <2> HIDE DEF x, n, fresh
    <2>4. \A i \in 1..Len(queue') : i \in 1..n \/ i = n + 1
        BY <1>3, <2>3
    <2>5. KmsgTypeOK'
        <3>1. Len(queue') <= MaxTasks
            BY <1>1, <1>3, <2>3, KmsgAssumption DEF KmsgTypeOK
        <3> QED
            BY <1>1, <1>2, <1>7, <2>3, <3>1 DEF KmsgTypeOK, Task
    <2>6. Queued'
        BY <1>2, <1>4, <1>6, <2>1, <2>3, <2>4 DEF Queued
    <2>7. OneRead' /\ OneUpdate'
        BY <1>4, <2>1, <2>3, <2>4 DEF OneRead, OneUpdate
    <2>8. NoneLost'
        BY <1>2, <1>4, <2>1, <2>3, <2>4 DEF NoneLost
    <2>9. store.details \cup fresh \subseteq Pending'
        <3>1. n + 1 \in 1..Len(queue')
            BY <1>3, <2>3
        <3> QED
            BY <2>1, <2>3, <3>1 DEF Pending
    <2>10. AlertsAccounted'
        BY <1>2, <1>8, <2>9 DEF AlertsAccounted
    <2> QED
        BY <1>2, <1>5, <2>5, <2>6, <2>7, <2>8, <2>10 DEF KmsgInv
<1>10. CASE ~(agent = "up" /\ fresh # {})
    <2>1. queue' = Tail(queue)
        <3>1. queue' = Tail(queue) \o <<>>
            BY <1>10 DEF ReadCallback, Read
        <3> QED
            BY <1>3, <3>1, ConcatEmptySeq
    <2>2. KmsgTypeOK'
        <3>1. Len(queue') <= MaxTasks
            BY <1>1, <1>3, <2>1, KmsgAssumption DEF KmsgTypeOK
        <3> QED
            BY <1>1, <1>2, <1>3, <1>7, <2>1, <3>1 DEF KmsgTypeOK, Task
    <2>3. Queued' /\ OneRead' /\ OneUpdate' /\ NoneLost'
        BY <1>4, <2>1 DEF Queued, OneRead, OneUpdate, NoneLost
    <2>4. AlertsAccounted'
        BY <1>2, <1>8, <1>10 DEF AlertsAccounted
    <2> QED
        BY <1>2, <1>5, <2>2, <2>3, <2>4 DEF KmsgInv
<1> QED
    BY <1>9, <1>10

(* A copy that is stored takes nothing from the report, and the task that  *)
(* clears it takes nothing that is not older than the last hour.           *)
LEMMA RunTaskKeeps == ASSUME KmsgInv, RunTask PROVE KmsgInv'
<1>1. KmsgTypeOK /\ queue \in Seq(Task) /\ queue # <<>> /\ Len(queue) \in Nat
      /\ logged \in Nat /\ Hour \in Nat
    BY KmsgTyped DEF KmsgInv, RunTask, Runs
<1>2. /\ queue' = Tail(queue) /\ agent # "down"
      /\ UNCHANGED <<agent, logged, age, pos, file, dropped, overwritten>>
      /\ store' = IF Head(queue).kind = "clear" THEN Clears
                  ELSE [details |-> Head(queue).details, age |-> 0]
    BY DEF RunTask, Runs
<1>3. /\ queue' \in Seq(Task) /\ Len(queue') = Len(queue) - 1
      /\ Head(queue) = queue[1] /\ 1 \in 1..Len(queue) /\ Head(queue) \in Task
      /\ \A i \in 1..Len(queue') : i + 1 \in 1..Len(queue) /\ queue'[i] = queue[i + 1]
    BY <1>1, <1>2, Popped
<1>4. Queued'
    BY <1>2, <1>3 DEF KmsgInv, Queued
<1>5. OneRead'
    <2> SUFFICES ASSUME NEW i \in 1..Len(queue'), NEW j \in 1..Len(queue'),
                        queue'[i].kind = "read", queue'[j].kind = "read"
                 PROVE  i = j
        BY DEF OneRead
    <2>1. i + 1 = j + 1
        BY <1>3 DEF KmsgInv, OneRead
    <2> QED
        BY <2>1
<1>6. OneUpdate'
    <2> SUFFICES ASSUME NEW i \in 1..Len(queue'), NEW j \in 1..Len(queue'), i # j,
                        queue'[i].kind = "update", queue'[j].kind \in {"read", "update"}
                 PROVE  queue'[j].kind = "read" /\ i < j
        BY DEF OneUpdate
    <2>1. i \in Nat /\ j \in Nat /\ i + 1 # j + 1
        OBVIOUS
    <2>2. queue'[j].kind = "read" /\ i + 1 < j + 1
        BY <1>3, <2>1 DEF KmsgInv, OneUpdate
    <2> QED
        BY <2>1, <2>2
<1>7. Renewed(file)'
    BY <1>2 DEF KmsgInv, Renewed
(* What is in the report and recent stays in it. *)
<1>8. /\ store' \in Report /\ Renewed(store)' /\ NoneLost'
      /\ \A a \in store.details : age[a] <= Hour => a \in store'.details
      /\ Head(queue).kind # "clear" => store'.details = Head(queue).details
    <2>1. CASE Head(queue).kind = "update"
        <3>1. store' = [details |-> Head(queue).details, age |-> 0]
            BY <1>2, <2>1
        <3>2. store'.details = Head(queue).details /\ store'.age = 0 /\ store' \in Report
            BY <1>1, <1>3, <3>1 DEF Report, Ages, Task
        <3>3. Head(queue).details \subseteq 1..logged
            BY <1>3 DEF KmsgInv, Queued
        <3>4. \A a \in 1..logged : 0 <= age[a]
            BY <1>1, KmsgTyped
        <3>5. Renewed(store)'
            BY <1>2, <3>2, <3>3, <3>4 DEF Renewed
        <3>6. \A i \in 1..Len(queue') : queue'[i].kind # "update"
            <4> SUFFICES ASSUME NEW i \in 1..Len(queue') PROVE queue'[i].kind # "update"
                OBVIOUS
            <4>1. i + 1 \in 1..Len(queue) /\ i + 1 # 1 /\ queue'[i] = queue[i + 1]
                BY <1>3
            <4> QED
                BY <4>1, <1>3, <2>1 DEF KmsgInv, OneUpdate
        <3>7. store.details \subseteq store'.details
            BY <1>3, <2>1, <3>2 DEF KmsgInv, NoneLost
        <3> QED
            BY <3>2, <3>5, <3>6, <3>7 DEF NoneLost
    <2>2. CASE Head(queue).kind = "clear" /\ store.age > Hour
        <3>1. store' = [details |-> {}, age |-> 0]
            BY <1>2, <2>2 DEF Clears
        <3>2. store' \in Report /\ store'.details = {}
            BY <1>1, <3>1 DEF Report, Ages
        <3>3. \A a \in store.details : ~(age[a] <= Hour)
            <4> SUFFICES ASSUME NEW a \in store.details PROVE ~(age[a] <= Hour)
                OBVIOUS
            <4>1. a \in 1..logged /\ store.age <= age[a]
                BY DEF KmsgInv, Renewed
            <4>2. age[a] \in Nat /\ store.age \in Nat
                BY <4>1, <1>1, KmsgTyped
            <4> QED
                BY <4>1, <4>2, <2>2, <1>1
        <3> QED
            BY <3>2, <3>3, <2>2 DEF NoneLost, Renewed
    <2>3. CASE Head(queue).kind = "clear" /\ ~(store.age > Hour)
        <3>1. store' = store
            BY <1>2, <2>3 DEF Clears
        <3>2. NoneLost'
            BY <1>3, <3>1 DEF KmsgInv, NoneLost
        <3> QED
            BY <1>1, <1>2, <3>1, <3>2, <2>3 DEF KmsgInv, KmsgTypeOK, Renewed
    <2> QED
        BY <2>1, <2>2, <2>3, <1>3 DEF RunTask, Runs
<1>9. KmsgTypeOK'
    <2>1. Len(queue') <= MaxTasks
        BY <1>1, <1>3, KmsgAssumption DEF KmsgTypeOK
    <2> QED
        BY <1>1, <1>2, <1>3, <1>8, <2>1 DEF KmsgTypeOK, Task
(* What waited in the copy is stored with it; the others wait on. *)
<1>10. \A a \in Pending : a \in store'.details \/ a \in Pending'
    <2> SUFFICES ASSUME NEW i \in 1..Len(queue), NEW a \in queue[i].details
                 PROVE  a \in store'.details \/ a \in Pending'
        BY DEF Pending
    <2>1. CASE i = 1
        <3>1. Head(queue).kind # "clear"
            BY <1>3, <2>1 DEF KmsgInv, Queued
        <3> QED
            BY <3>1, <2>1, <1>3, <1>8
    <2>2. CASE i # 1
        <3>1. i - 1 \in 1..Len(queue') /\ (i - 1) + 1 = i
            BY <1>1, <1>3, <2>2
        <3>2. queue'[i - 1] = queue[i]
            BY <3>1, <1>3
        <3> QED
            BY <3>1, <3>2 DEF Pending
    <2> QED
        BY <2>1, <2>2
<1>11. AlertsAccounted'
    BY <1>2, <1>8, <1>10 DEF KmsgInv, AlertsAccounted
<1> QED
    BY <1>2, <1>4, <1>5, <1>6, <1>7, <1>8, <1>9, <1>11 DEF KmsgInv

LEMMA KmsgStep == KmsgInv /\ [KmsgNext]_kmsgVars => KmsgInv'
<1> SUFFICES ASSUME KmsgInv, [KmsgNext]_kmsgVars PROVE KmsgInv'
    OBVIOUS
<1>1. CASE UNCHANGED kmsgVars
    BY <1>1 DEF kmsgVars, KmsgInv, KmsgTypeOK, Queued, OneRead, OneUpdate, NoneLost, Renewed,
                AlertsAccounted, Pending
<1> QED
    BY <1>1, LogKeeps, TickKeeps, ReadableKeeps, ReadCallbackKeeps, ReadOverrunKeeps,
       ClearTimerKeeps, RunTaskKeeps, AgentKeeps DEF KmsgNext

(* The queue, the report and its file keep their types, for any hour and   *)
(* any number of alerts and tasks.                                         *)
THEOREM KmsgTypeCorrect == KmsgSpec => []KmsgTypeOK
<1>1. KmsgInv => KmsgTypeOK
    BY DEF KmsgInv
<1> QED
    BY <1>1, KmsgInitCorrect, KmsgStep, PTL DEF KmsgSpec

(* No alert of the last hour is lost but to a read_callback that was       *)
(* overrun (AlertsAccounted), in whatever order the callback, the tasks    *)
(* that store and clear, the clock, crashes and restarts follow.           *)
THEOREM NoAlertLost == KmsgSpec => []AlertsAccounted
<1>1. KmsgInv => AlertsAccounted
    BY DEF KmsgInv
<1> QED
    BY <1>1, KmsgInitCorrect, KmsgStep, PTL DEF KmsgSpec

-----------------------------------------------------------------------------
(* The GPUs.  What a report names was told of: its level is an error or a  *)
(* warning, so that an XID of an earlier report is one of the next report  *)
(* from the history.                                                       *)
ReportsTold == report.causes \subseteq Told(Causes)

GpuInv == TypeOK /\ ReportsTold /\ ErrorIsNamed

LEMMA CollectedTyped == Collected \subseteq {"all", "fewer", "blank"}
    BY DEF Collected, Counts

LEMMA NamedGrows == ASSUME NEW S, NEW T, S \subseteq T PROVE Named(S) \subseteq Named(T)
    BY DEF Named

(* The category of a report is that of something it was made from. *)
LEMMA GhrCategoriesTyped ==
    ASSUME NEW I \in SUBSET Causes, NEW X \in SUBSET Causes, NEW F \in SUBSET Causes,
           NEW g \in GhrCategories(I, X, F)
    PROVE  g \in Named(Causes) \cup {NoCategory}
<1>1. \A l : At(l, I) \subseteq Causes /\ At(l, X) \subseteq Causes /\ At(l, F) \subseteq Causes
    BY DEF At
<1>2. Told(X) \subseteq Causes
    BY <1>1 DEF Told, At
<1>3. ASSUME NEW A \in SUBSET Causes, NEW B \in SUBSET Causes, NEW C \in SUBSET Causes
      PROVE  FirstNamed(A, B, C) \subseteq Named(Causes)
    BY NamedGrows DEF FirstNamed
<1>4. /\ FirstNamed(At("error", I), At("error", X), At("error", F)) \subseteq Named(Causes)
      /\ FirstNamed(I, Told(X), At("warning", F)) \subseteq Named(Causes)
    BY <1>1, <1>2, <1>3
<1> QED
    BY <1>4 DEF GhrCategories

(* When one of the errors has a category, the report names that of one.    *)
LEMMA ErrorFirst ==
    ASSUME NEW I, NEW X, NEW F, NEW g \in GhrCategories(I, X, F),
           Named(At("error", Told(I \cup X \cup F))) # {}
    PROVE  g \in Named(At("error", Told(I \cup X \cup F)))
<1> DEFINE E == At("error", Told(I \cup X \cup F))
<1>1. E = At("error", I) \cup At("error", X) \cup At("error", F)
    BY DEF At, Told
<1>2. Named(E) = Named(At("error", I)) \cup Named(At("error", X)) \cup Named(At("error", F))
    BY <1>1 DEF Named
<1> HIDE DEF E
<1>3. FirstNamed(At("error", I), At("error", X), At("error", F)) \subseteq Named(E)
    BY <1>2 DEF FirstNamed
<1>4. FirstNamed(At("error", I), At("error", X), At("error", F)) # {}
    BY <1>2 DEF FirstNamed, E
<1> QED
    BY <1>3, <1>4 DEF GhrCategories, E

LEMMA GpuInitCorrect == Init => GpuInv
<1> SUFFICES ASSUME Init PROVE GpuInv
    OBVIOUS
<1> USE DEF Init
<1>1. report.causes = {} /\ report.ghr_category = NoCategory
    OBVIOUS
<1>2. losses \in 0..MaxLosses
    BY GpuMonitorAssumption
<1>3. TypeOK
    BY <1>1, <1>2 DEF TypeOK
<1>4. Named(At("error", report.causes)) = {}
    BY <1>1 DEF Named, At
<1> QED
    BY <1>1, <1>3, <1>4 DEF GpuInv, ReportsTold, ErrorIsNamed

(* Sources of a report are causes. *)
LEMMA RaisedTyped ==
    ASSUME TypeOK
    PROVE  Raised \subseteq Causes /\ bad \cap Fields \subseteq Causes
    BY DEF TypeOK, Raised, Causes

(* A new report of causes that were told of, named by one of them. *)
LEMMA NewReport ==
    ASSUME NEW I \in SUBSET Causes, NEW X \in SUBSET Causes, NEW F \in SUBSET Causes,
           NEW S \in SUBSET Causes,
           NEW g \in GhrCategories(I, X, F),
           report' = [causes |-> Told(S), ghr_category |-> g]
    PROVE  /\ report'.causes = Told(S) /\ report'.ghr_category = g
           /\ report'.causes \subseteq Causes /\ ReportsTold'
           /\ report'.ghr_category \in Named(Causes) \cup {NoCategory}
<1>1. report'.causes = Told(S) /\ report'.ghr_category = g
    OBVIOUS
<1>2. Told(S) \subseteq Causes /\ Told(S) \subseteq Told(Causes)
    BY DEF Told, At
<1> QED
    BY <1>1, <1>2, GhrCategoriesTyped DEF ReportsTold

LEMMA CheckKeeps == ASSUME GpuInv, Check PROVE GpuInv'
<1>1. TypeOK
    BY DEF GpuInv
<1>2. /\ xid_history' = xid_history \cup samples /\ xid_history' \subseteq Causes
      /\ xid_history' \subseteq Xids
      /\ nvml_count' \in {"all", "fewer", "blank"} /\ raised' = FALSE
      /\ UNCHANGED <<dcgmGroup, watched, bad, samples, losses, missing, mismatch>>
    BY <1>1, CollectedTyped DEF Check, TypeOK, Causes
<1> DEFINE S == Raised \cup Known \cup (bad \cap Fields)
<1>3. PICK g \in GhrCategories(Raised, xid_history', bad \cap Fields) :
         report' = [causes |-> Told(S), ghr_category |-> g]
    BY DEF Check
<1>4. S = Raised \cup xid_history' \cup (bad \cap Fields) /\ S \subseteq Causes
    BY <1>1, <1>2, RaisedTyped DEF Known
<1>5. Raised \in SUBSET Causes /\ xid_history' \in SUBSET Causes /\ bad \cap Fields \in SUBSET Causes
    BY <1>1, <1>2, RaisedTyped
<1>6. /\ report'.causes = Told(S) /\ report'.ghr_category = g
      /\ report'.causes \subseteq Causes /\ ReportsTold'
      /\ report'.ghr_category \in Named(Causes) \cup {NoCategory}
    <2> HIDE DEF S
    <2> QED
        BY <1>3, <1>4, <1>5, NewReport
<1>7. TypeOK'
    BY <1>1, <1>2, <1>6 DEF TypeOK
<1>8. ErrorIsNamed'
    <2>1. Named(At("error", Told(S))) # {} => g \in Named(At("error", Told(S)))
        BY <1>4, ErrorFirst
    <2>2. Named(At("error", report.causes))' = Named(At("error", Told(S)))
        BY <1>6 DEF Named, At, LevelOf, XidLevel
    <2> QED
        BY <2>1, <2>2, <1>6 DEF ErrorIsNamed
<1> QED
    BY <1>6, <1>7, <1>8 DEF GpuInv

LEMMA TrackRaisesKeeps == ASSUME GpuInv, TrackRaises PROVE GpuInv'
<1>1. TypeOK
    BY DEF GpuInv
<1>2. PICK fields \in SUBSET (bad \cap Fields), xids \in SUBSET samples :
         /\ xid_history' = xid_history \cup xids
         /\ \E g \in GhrCategories(Raised, xid_history', fields) :
               report' = [causes |-> Told(Raised \cup fields), ghr_category |-> g]
         /\ nvml_count' \in Collected \/ nvml_count' = nvml_count
    BY DEF TrackRaises
<1>3. raised' = TRUE /\ UNCHANGED <<dcgmGroup, watched, bad, samples, losses, missing, mismatch>>
    BY DEF TrackRaises
<1>4. /\ Raised \in SUBSET Causes /\ fields \in SUBSET Causes
      /\ xid_history' \subseteq Xids /\ xid_history' \in SUBSET Causes
      /\ Raised \cup fields \in SUBSET Causes
    BY <1>1, <1>2, RaisedTyped DEF TypeOK, Causes
<1>5. PICK g \in GhrCategories(Raised, xid_history', fields) :
         report' = [causes |-> Told(Raised \cup fields), ghr_category |-> g]
    BY <1>2
<1>6. /\ report'.causes \subseteq Causes /\ ReportsTold'
      /\ report'.ghr_category \in Named(Causes) \cup {NoCategory}
    BY <1>4, <1>5, NewReport
<1>7. nvml_count' \in {"all", "fewer", "blank"}
    BY <1>1, <1>2, CollectedTyped DEF TypeOK
<1>8. TypeOK'
    BY <1>1, <1>3, <1>4, <1>6, <1>7 DEF TypeOK
<1> QED
    BY <1>3, <1>6, <1>8 DEF GpuInv, ErrorIsNamed

(* Whatever else happens leaves the report alone. *)
LEMMA OthersKeepTypes ==
    ASSUME TypeOK,
           \/ GpuCountCheck \/ Reconnect \/ ReconnectFails \/ ReconnectPartly
           \/ LoseConnection \/ CountChanges
           \/ \E c \in Incidents \cup Fields : Changes(c)
           \/ \E x \in Xids : XidOccurs(x) \/ HandlePolicyViolation(x)
    PROVE  TypeOK' /\ report' = report /\ raised' = raised
<1> USE DEF TypeOK
<1>1. CASE GpuCountCheck
    BY <1>1 DEF GpuCountCheck
<1>2. CASE Reconnect
    BY <1>2 DEF Reconnect, Setup, Counts
<1>3. CASE ReconnectFails
    BY <1>3 DEF ReconnectFails, Setup
<1>4. CASE ReconnectPartly
    BY <1>4 DEF ReconnectPartly, Setup
<1>5. CASE LoseConnection
    BY <1>5, GpuMonitorAssumption DEF LoseConnection, counts
<1>6. CASE CountChanges
    BY <1>6 DEF CountChanges
<1>7. ASSUME NEW c \in Incidents \cup Fields, Changes(c)
      PROVE  TypeOK' /\ report' = report /\ raised' = raised
    BY <1>7 DEF Changes, counts
<1>8. ASSUME NEW x \in Xids, XidOccurs(x) \/ HandlePolicyViolation(x)
      PROVE  TypeOK' /\ report' = report /\ raised' = raised
    BY <1>8 DEF XidOccurs, HandlePolicyViolation, counts
<1> QED
    BY <1>1, <1>2, <1>3, <1>4, <1>5, <1>6, <1>7, <1>8

LEMMA GpuStep == GpuInv /\ [Next]_vars => GpuInv'
<1> SUFFICES ASSUME GpuInv, [Next]_vars PROVE GpuInv'
    OBVIOUS
<1>1. CASE Check
    BY <1>1, CheckKeeps
<1>2. CASE TrackRaises
    BY <1>2, TrackRaisesKeeps
<1>3. CASE UNCHANGED vars
    BY <1>3 DEF vars, counts, GpuInv, TypeOK, ReportsTold, ErrorIsNamed
<1>4. CASE Next /\ ~Check /\ ~TrackRaises
    <2>1. TypeOK' /\ report' = report /\ raised' = raised
        BY <1>4, OthersKeepTypes DEF Next, GpuInv
    <2> QED
        BY <2>1 DEF GpuInv, ReportsTold, ErrorIsNamed
<1> QED
    BY <1>1, <1>2, <1>3, <1>4

THEOREM GpuInvariant == Spec => []GpuInv
    BY GpuInitCorrect, GpuStep, PTL DEF Spec

(* The connection, what is watched on it, the counts and the report keep   *)
(* their types, for any GPUs, checks and XidConfig.                        *)
THEOREM GpuTypeCorrect == Spec => []TypeOK
<1>1. GpuInv => TypeOK
    BY DEF GpuInv
<1> QED
    BY <1>1, GpuInvariant, PTL

(* The category of a report is that of one of its errors when one of them  *)
(* has a category (ErrorIsNamed), for any severities and any XidConfig.    *)
THEOREM ErrorCategoryCorrect == Spec => []ErrorIsNamed
<1>1. GpuInv => ErrorIsNamed
    BY DEF GpuInv
<1> QED
    BY <1>1, GpuInvariant, PTL

(* An XID stays in the report while the module knows it (XidStaysReported) *)
(* whatever the other checks of the GPU find.                              *)
THEOREM XidsStayReported == Spec => XidStaysReported
<1>1. GpuInv /\ [Next]_vars =>
          [\A x \in xid_history \cap xid_history' :
              x \in report.causes => x \in report'.causes \/ raised']_vars
    <2> SUFFICES ASSUME GpuInv, Next, NEW x \in xid_history \cap xid_history',
                        x \in report.causes
                 PROVE  x \in report'.causes \/ raised'
        OBVIOUS
    <2>1. CASE Check
        <3>1. report'.causes = Told(Raised \cup Known \cup (bad \cap Fields))
            BY <2>1 DEF Check
        <3>2. x \in Known
            BY DEF Known
        <3>3. x \in Told({x})
            BY DEF GpuInv, ReportsTold, Told, At
        <3> QED
            BY <3>1, <3>2, <3>3 DEF Told, At
    <2>2. CASE TrackRaises
        BY <2>2 DEF TrackRaises
    <2>3. CASE ~Check /\ ~TrackRaises
        BY <2>3, OthersKeepTypes DEF Next, GpuInv
    <2> QED
        BY <2>1, <2>2, <2>3
<1> QED
    BY <1>1, GpuInvariant, PTL DEF Spec, XidStaysReported

-----------------------------------------------------------------------------
(* The configuration.  A merge is described by what it has at each key, in *)
(* terms of what the two files have there; the rest follows path by path.  *)
UserNodes == {Leaf(v) : v \in UserLeaves} \cup {Null}
DefaultNodes == {Leaf(DefaultLeaf)}

(* What a section may be, and a file. *)
SectionOf(leaves, node) ==
    \/ node \in leaves
    \/ IsMapping(node) /\ \A f \in DOMAIN node.child : node.child[f] \in leaves

FileOf(leaves, tree) ==
    IsMapping(tree) /\ \A s \in DOMAIN tree.child : SectionOf(leaves, tree.child[s])

LEMMA MappingShape == \A f : IsMapping(Mapping(f)) /\ Mapping(f).child = f
    BY DEF IsMapping, Mapping

LEMMA TreesShape == ASSUME NEW leaves, NEW tree \in Trees(leaves) PROVE FileOf(leaves, tree)
<1>1. ASSUME NEW keys, NEW nodes, NEW m \in MappingsOf(keys, nodes)
      PROVE  IsMapping(m) /\ \A k \in DOMAIN m.child : m.child[k] \in nodes
    <2>1. PICK K \in SUBSET keys : \E f \in [K -> nodes] : m = Mapping(f)
        BY DEF MappingsOf
    <2> QED
        BY <2>1, MappingShape
<1>2. IsMapping(tree) /\ \A s \in DOMAIN tree.child :
          tree.child[s] \in leaves \cup MappingsOf(SectionFields, leaves)
    BY <1>1 DEF Trees
<1> QED
    BY <1>1, <1>2 DEF FileOf, SectionOf

(* No leaf is a mapping, or like one that is not there. *)
LEMMA LeavesAreLeaves ==
    \A node \in UserNodes \cup DefaultNodes : ~IsMapping(node) /\ node # Absent
<1>1. \A v : ~IsMapping(Leaf(v)) <=> v # "mapping"
    BY DEF IsMapping, Leaf
<1>2. \A v : Leaf(v) = Absent => v = "absent"
    BY DEF Leaf, Absent
<1>3. \A v \in {DefaultLeaf, "null"} \cup UserLeaves : v # "mapping" /\ v # "absent"
    BY ConfigAssumption
<1> QED
    BY <1>1, <1>2, <1>3 DEF UserNodes, DefaultNodes, Null

LEMMA NullAndAbsent ==
    /\ ~IsMapping(Null) /\ ~IsMapping(Absent) /\ Null # Absent
    BY DEF IsMapping, Null, Absent, Leaf

LEMMA MappingIsThere == \A node : IsMapping(node) => node # Absent /\ node # Null
    BY NullAndAbsent

(* One level of the merge, key by key. *)
LEMMA GetMergeKeys ==
    ASSUME NEW b, NEW o, NEW below, NEW k, IsMapping(b), IsMapping(o),
           \A s \in DOMAIN o.child : o.child[s] # Absent,
           DOMAIN below \subseteq DOMAIN o.child
    PROVE  /\ IsMapping(MergeKeys(b, o, below))
           /\ Get(MergeKeys(b, o, below), k) =
                  IF Get(o, k) = Null THEN Absent
                  ELSE IF k \in DOMAIN below THEN below[k]
                  ELSE IF Get(o, k) = Absent THEN Get(b, k) ELSE Get(o, k)
    BY MappingShape, NullAndAbsent DEF MergeKeys, Get

LEMMA GetMergeSection ==
    ASSUME NEW b, NEW o, NEW k, IsMapping(b), IsMapping(o),
           \A f \in DOMAIN o.child : o.child[f] # Absent
    PROVE  /\ IsMapping(MergeSection(b, o))
           /\ Get(MergeSection(b, o), k) =
                  IF Get(o, k) = Null THEN Absent
                  ELSE IF Get(o, k) = Absent THEN Get(b, k) ELSE Get(o, k)
<1>1. DOMAIN <<>> = {}
    OBVIOUS
<1> QED
    BY <1>1, GetMergeKeys DEF MergeSection

LEMMA GetDeepMerge ==
    ASSUME NEW b, NEW o, NEW k, IsMapping(b), IsMapping(o),
           \A s \in DOMAIN o.child : o.child[s] # Absent
    PROVE  /\ IsMapping(DeepMerge(b, o))
           /\ Get(DeepMerge(b, o), k) =
                  IF Get(o, k) = Null THEN Absent
                  ELSE IF Get(o, k) = Absent THEN Get(b, k)
                  ELSE IF IsMapping(Get(b, k)) /\ IsMapping(Get(o, k))
                       THEN MergeSection(Get(b, k), Get(o, k)) ELSE Get(o, k)
<1> DEFINE below == [n \in Both(b, o) |-> MergeSection(b.child[n], o.child[n])]
<1>1. DOMAIN below = Both(b, o) /\ Both(b, o) \subseteq DOMAIN o.child
    BY DEF Both
<1>2. k \in Both(b, o) <=> IsMapping(Get(b, k)) /\ IsMapping(Get(o, k))
    BY NullAndAbsent DEF Both, Get
<1>3. k \in Both(b, o) => below[k] = MergeSection(Get(b, k), Get(o, k))
    BY DEF Both, Get
<1>4. DeepMerge(b, o) = MergeKeys(b, o, below)
    BY DEF DeepMerge
<1> HIDE DEF below
<1>5. /\ IsMapping(MergeKeys(b, o, below))
      /\ Get(MergeKeys(b, o, below), k) =
            IF Get(o, k) = Null THEN Absent
            ELSE IF k \in DOMAIN below THEN below[k]
            ELSE IF Get(o, k) = Absent THEN Get(b, k) ELSE Get(o, k)
    BY <1>1, GetMergeKeys
<1> QED
    BY <1>1, <1>2, <1>3, <1>4, <1>5, NullAndAbsent

(* The two lengths of a path. *)
LEMMA NodeAtPath ==
    /\ \A tree, s : NodeAt(tree, <<s>>) = Get(tree, s) /\ Above(tree, <<s>>) = tree
    /\ \A tree, s, f : /\ NodeAt(tree, <<s, f>>) = Get(Get(tree, s), f)
                       /\ Above(tree, <<s, f>>) = Get(tree, s)
    BY DEF NodeAt, Above

(* What a file has at a key, or a section below one. *)
LEMMA GetShape ==
    ASSUME NEW leaves \in {UserNodes, DefaultNodes}, NEW tree, FileOf(leaves, tree), NEW s
    PROVE  /\ \A k \in DOMAIN tree.child : tree.child[k] # Absent
           /\ Get(tree, s) = Absent \/ SectionOf(leaves, Get(tree, s))
           /\ ~IsMapping(Get(tree, s)) => \A f : Get(Get(tree, s), f) = Absent
           /\ IsMapping(Get(tree, s)) =>
                 /\ \A f \in DOMAIN Get(tree, s).child : Get(tree, s).child[f] # Absent
                 /\ \A f : ~IsMapping(Get(Get(tree, s), f))
<1>1. ASSUME NEW node, SectionOf(leaves, node)
      PROVE  /\ node # Absent
             /\ IsMapping(node) => /\ \A f \in DOMAIN node.child : node.child[f] # Absent
                                  /\ \A f : ~IsMapping(Get(node, f))
    BY <1>1, LeavesAreLeaves, NullAndAbsent, MappingIsThere DEF SectionOf, Get
<1>2. /\ \A k \in DOMAIN tree.child : SectionOf(leaves, tree.child[k])
      /\ Get(tree, s) = Absent \/ SectionOf(leaves, Get(tree, s))
    BY DEF FileOf, Get
<1>3. ~IsMapping(Get(tree, s)) => \A f : Get(Get(tree, s), f) = Absent
    BY DEF Get
<1> QED
    BY <1>1, <1>2, <1>3, NullAndAbsent

(* A section of the merged file: what its fields are. *)
LEMMA MergedSection ==
    ASSUME NEW base, NEW user, FileOf(DefaultNodes, base), FileOf(UserNodes, user), NEW s, NEW f
    PROVE  LET m == Get(DeepMerge(base, user), s)
               u == Get(user, s)
               b == Get(base, s)
           IN  Get(m, f) =
                  IF u = Absent THEN Get(b, f)
                  ELSE IF ~IsMapping(u) THEN Absent
                  ELSE IF ~IsMapping(b) THEN Get(u, f)
                  ELSE IF Get(u, f) = Null THEN Absent
                  ELSE IF Get(u, f) = Absent THEN Get(b, f) ELSE Get(u, f)
<1> DEFINE m == Get(DeepMerge(base, user), s)
           u == Get(user, s)
           b == Get(base, s)
<1>1. /\ IsMapping(base) /\ IsMapping(user)
      /\ \A k \in DOMAIN user.child : user.child[k] # Absent
      /\ ~IsMapping(u) => Get(u, f) = Absent
      /\ IsMapping(u) => \A g \in DOMAIN u.child : u.child[g] # Absent
    BY GetShape DEF FileOf
<1>2. m = IF u = Null THEN Absent
          ELSE IF u = Absent THEN b
          ELSE IF IsMapping(b) /\ IsMapping(u) THEN MergeSection(b, u) ELSE u
    BY <1>1, GetDeepMerge
<1>3. CASE u = Absent
    BY <1>2, <1>3, NullAndAbsent
<1>4. CASE u # Absent /\ ~IsMapping(u)
    <2>1. m = Absent \/ m = u
        BY <1>2, <1>4
    <2>2. Get(m, f) = Absent
        BY <2>1, <1>4, NullAndAbsent DEF Get
    <2> QED
        BY <2>2, <1>4
<1>5. CASE IsMapping(u) /\ ~IsMapping(b)
    BY <1>2, <1>5, MappingIsThere
<1>6. CASE IsMapping(u) /\ IsMapping(b)
    <2>1. m = MergeSection(b, u) /\ u # Absent
        BY <1>2, <1>6, MappingIsThere
    <2>2. Get(MergeSection(b, u), f) = IF Get(u, f) = Null THEN Absent
                                       ELSE IF Get(u, f) = Absent THEN Get(b, f) ELSE Get(u, f)
        BY <1>1, <1>6, GetMergeSection
    <2> QED
        BY <2>1, <2>2, <1>6
<1> QED
    BY <1>3, <1>4, <1>5, <1>6

(* A value of the merged configuration is one of the user's file, or of    *)
(* the defaults where the file says nothing, but for a null taken over.    *)
Decides(user, p) ==
    NodeAt(user, p) # Absent /\ ~IsMapping(NodeAt(user, p)) /\ NodeAt(user, p) # Null

TakenOver(base, user, p) == NodeAt(user, p) = Null /\ ~IsMapping(Above(base, p))

Keeps(base, user, p) ==
    /\ NodeAt(base, p) # Absent /\ ~IsMapping(NodeAt(base, p))
    /\ NodeAt(user, p) = Absent
    /\ Above(user, p) = Absent \/ IsMapping(Above(user, p))

LEMMA MergeOfPath ==
    ASSUME NEW base, NEW user, FileOf(DefaultNodes, base), FileOf(UserNodes, user), NEW p \in Paths
    PROVE  LET node == NodeAt(DeepMerge(base, user), p)
           IN  /\ (node # Absent /\ ~IsMapping(node) /\ ~TakenOver(base, user, p))
                     <=> Decides(user, p) \/ Keeps(base, user, p)
               /\ Decides(user, p) => node = NodeAt(user, p)
               /\ Keeps(base, user, p) => node = NodeAt(base, p)
<1> DEFINE merge == DeepMerge(base, user)
<1>1. /\ IsMapping(base) /\ IsMapping(user)
      /\ \A k \in DOMAIN user.child : user.child[k] # Absent
    BY GetShape DEF FileOf
<1>2. CASE \E s \in Sections : p = <<s>>
    <2>1. PICK s \in Sections : p = <<s>>
        BY <1>2
    <2>2. /\ NodeAt(merge, p) = Get(merge, s) /\ Above(base, p) = base /\ Above(user, p) = user
          /\ NodeAt(user, p) = Get(user, s) /\ NodeAt(base, p) = Get(base, s)
        BY <2>1, NodeAtPath
    <2>3. Get(merge, s) =
             IF Get(user, s) = Null THEN Absent
             ELSE IF Get(user, s) = Absent THEN Get(base, s)
             ELSE IF IsMapping(Get(base, s)) /\ IsMapping(Get(user, s))
                  THEN MergeSection(Get(base, s), Get(user, s)) ELSE Get(user, s)
        BY <1>1, GetDeepMerge
    <2>4. IsMapping(Get(base, s)) /\ IsMapping(Get(user, s)) =>
             IsMapping(MergeSection(Get(base, s), Get(user, s)))
        <3>1. IsMapping(Get(user, s)) =>
                 \A f \in DOMAIN Get(user, s).child : Get(user, s).child[f] # Absent
            BY GetShape
        <3> QED
            BY <3>1, GetMergeSection
    <2> QED
        BY <1>1, <2>2, <2>3, <2>4, NullAndAbsent, MappingIsThere DEF Decides, Keeps, TakenOver
<1>3. CASE \E s \in Sections, f \in SectionFields : p = <<s, f>>
    <2>1. PICK s \in Sections, f \in SectionFields : p = <<s, f>>
        BY <1>3
    <2> DEFINE u == Get(user, s)
               b == Get(base, s)
    <2>2. /\ NodeAt(merge, p) = Get(Get(merge, s), f)
          /\ Above(base, p) = b /\ Above(user, p) = u
          /\ NodeAt(user, p) = Get(u, f) /\ NodeAt(base, p) = Get(b, f)
        BY <2>1, NodeAtPath
    <2>3. Get(Get(merge, s), f) =
              IF u = Absent THEN Get(b, f)
              ELSE IF ~IsMapping(u) THEN Absent
              ELSE IF ~IsMapping(b) THEN Get(u, f)
              ELSE IF Get(u, f) = Null THEN Absent
              ELSE IF Get(u, f) = Absent THEN Get(b, f) ELSE Get(u, f)
        BY MergedSection
    <2>4. /\ ~IsMapping(u) => Get(u, f) = Absent
          /\ ~IsMapping(b) => Get(b, f) = Absent
          /\ ~IsMapping(Get(u, f)) /\ ~IsMapping(Get(b, f))
        <3>1. /\ ~IsMapping(u) => \A g : Get(u, g) = Absent
              /\ IsMapping(u) => \A g : ~IsMapping(Get(u, g))
            BY GetShape
        <3>2. /\ ~IsMapping(b) => \A g : Get(b, g) = Absent
              /\ IsMapping(b) => \A g : ~IsMapping(Get(b, g))
            BY GetShape
        <3> HIDE DEF u, b
        <3> QED
            BY <3>1, <3>2, NullAndAbsent
    <2> HIDE DEF u, b
    <2>5. CASE u = Absent
        BY <2>2, <2>3, <2>4, <2>5, NullAndAbsent DEF Decides, Keeps, TakenOver
    <2>6. CASE u # Absent /\ ~IsMapping(u)
        BY <2>2, <2>3, <2>4, <2>6, NullAndAbsent DEF Decides, Keeps, TakenOver
    <2>7. CASE IsMapping(u) /\ ~IsMapping(b)
        BY <2>2, <2>3, <2>4, <2>7, NullAndAbsent, MappingIsThere DEF Decides, Keeps, TakenOver
    <2>8. CASE IsMapping(u) /\ IsMapping(b)
        BY <2>2, <2>3, <2>4, <2>8, NullAndAbsent, MappingIsThere DEF Decides, Keeps, TakenOver
    <2> QED
        BY <2>5, <2>6, <2>7, <2>8
<1> QED
    BY <1>2, <1>3 DEF Paths

ConfigInv ==
    /\ phase \in {"start", "merged", "running", "refused"}
    /\ phase # "running" =>
          FileOf(DefaultNodes, files.defaults) /\ FileOf(UserNodes, files.user)
    /\ phase = "merged" => merged = DeepMerge(files.defaults, files.user)

LEMMA ConfigInitCorrect == ConfigInit => ConfigInv
<1> SUFFICES ASSUME ConfigInit PROVE ConfigInv
    OBVIOUS
<1>1. files.defaults \in Trees(DefaultNodes) /\ files.user \in Trees(UserNodes)
    BY DEF ConfigInit, DefaultNodes, UserNodes
<1> QED
    BY <1>1, TreesShape DEF ConfigInit, ConfigInv

LEMMA ConfigStep == ConfigInv /\ [ConfigNext]_configVars => ConfigInv'
    BY DEF ConfigInv, ConfigNext, LoadConfig, Validate, StartAgain, configVars

LEMMA ConfigInvImplies == ConfigInv => MergedByPath
<1> SUFFICES ASSUME ConfigInv, phase = "merged" PROVE MergedByPath
    BY DEF MergedByPath
<1> DEFINE user == files.user
           base == files.defaults
           set == {p \in LeavesOf(user) : NodeAt(user, p) # Null}
           kept == {p \in LeavesOf(base) : /\ NodeAt(user, p) = Absent
                                           /\ Above(user, p) = Absent \/ IsMapping(Above(user, p))}
<1>1. FileOf(DefaultNodes, base) /\ FileOf(UserNodes, user) /\ merged = DeepMerge(base, user)
    BY DEF ConfigInv
<1>2. \A p \in Paths :
         /\ p \in LeavesOf(merged) \ NullsTakenOver <=> Decides(user, p) \/ Keeps(base, user, p)
         /\ p \in set <=> Decides(user, p)
         /\ p \in kept <=> Keeps(base, user, p)
         /\ Decides(user, p) => NodeAt(merged, p) = NodeAt(user, p)
         /\ Keeps(base, user, p) => NodeAt(merged, p) = NodeAt(base, p)
    <2>1. TAKE p \in Paths
    <2>2. p \in NullsTakenOver <=> TakenOver(base, user, p)
        BY NullAndAbsent DEF NullsTakenOver, LeavesOf, TakenOver
    <2>3. /\ p \in set <=> Decides(user, p)
          /\ p \in kept <=> Keeps(base, user, p)
        BY DEF LeavesOf, Decides, Keeps
    <2>4. p \in LeavesOf(merged) <=> NodeAt(merged, p) # Absent /\ ~IsMapping(NodeAt(merged, p))
        BY DEF LeavesOf
    <2> HIDE DEF set, kept
    <2> QED
        BY <1>1, <2>2, <2>3, <2>4, MergeOfPath
<1>3. set \subseteq Paths /\ kept \subseteq Paths /\ LeavesOf(merged) \subseteq Paths
    BY DEF LeavesOf
<1> HIDE DEF set, kept
<1>4. /\ LeavesOf(merged) \ NullsTakenOver = set \cup kept
      /\ \A p \in set : NodeAt(merged, p) = NodeAt(user, p)
      /\ \A p \in kept : NodeAt(merged, p) = NodeAt(base, p)
    BY <1>2, <1>3
<1> QED
    BY <1>4 DEF MergedByPath, set, kept

-----------------------------------------------------------------------------
(* The processes.  A pass reads each process once, among the states the    *)
(* process has during it (Witnessed); more zombies or stuck processes      *)
(* never make a better report (VerdictGrows).                              *)

States == {"none", "alive", "disk", "stuck", "zombie"}

ProcessTypes ==
    /\ proc \in [Pids -> States] /\ ever \in [Pids -> SUBSET States]
    /\ passing \in BOOLEAN
    /\ todo \subseteq Pids /\ zombieproc \subseteq Pids /\ hungprocs \subseteq Pids

Witnessed ==
    passing => \A p \in Pids :
        /\ proc[p] \in ever[p]
        /\ p \in zombieproc => "zombie" \in ever[p]
        /\ p \in hungprocs => "stuck" \in ever[p]
        /\ p \notin todo => /\ ever[p] = {"zombie"} => p \in zombieproc
                            /\ ever[p] = {"stuck"} => p \in hungprocs

ProcessInv == ConfigInv /\ ProcessTypes /\ Witnessed /\ ReportBounded

LEMMA MinOfTwo ==
    ASSUME NEW a \in Nat, NEW b \in Nat
    PROVE  Min({a, b}) \in Nat
<1>1. \E x \in {a, b} : \A y \in {a, b} : x <= y
    BY DEF Min
<1> QED
    BY <1>1 DEF Min

LEMMA ThresholdTyped == zombie_warn_threshold \in Nat
<1>1. cpu_count * ZOMBIE_PER_CORE \in Nat
    BY ProcessAssumption
<1>2. pid_max * PID_MAX_WARN_PCT \in Nat
    BY ProcessAssumption
<1>3. (pid_max * PID_MAX_WARN_PCT) \div 100 \in Nat
    BY <1>2
<1> QED
    BY <1>1, <1>3, MinOfTwo DEF zombie_warn_threshold

LEMMA VerdictGrows ==
    ASSUME NEW Z1, NEW Z2 \in SUBSET Pids, NEW H1, NEW H2 \in SUBSET Pids,
           Z1 \subseteq Z2, H1 \subseteq H2
    PROVE  AtMost(Verdict(Z1, H1), Verdict(Z2, H2))
<1>1. IsFiniteSet(Z2) /\ IsFiniteSet(Z1)
    BY ProcessAssumption, FS_Subset
<1>2. /\ Cardinality(Z1) \in Nat /\ Cardinality(Z2) \in Nat
      /\ Cardinality(Z1) <= Cardinality(Z2)
    BY <1>1, FS_CardinalityType, FS_Subset
<1>3. PID_SATURATION_PCT * pid_max \in Nat
    BY ProcessAssumption
<1>4. H2 = {} => H1 = {}
    OBVIOUS
<1> QED
    BY <1>2, <1>3, <1>4, ThresholdTyped DEF Verdict, AtMost

LEMMA ProcessInitCorrect == ProcessInit => ProcessInv
<1> SUFFICES ASSUME ProcessInit PROVE ProcessInv
    OBVIOUS
<1>1. ConfigInv
    BY ConfigInitCorrect DEF ProcessInit
<1>2. ProcessTypes /\ Witnessed
    BY DEF ProcessInit, ProcessTypes, Witnessed, States
<1>3. ReportBounded
    BY DEF ProcessInit, ReportBounded, AtMost
<1> QED
    BY <1>1, <1>2, <1>3 DEF ProcessInv

LEMMA AfterTyped == \A s \in States : After[s] \subseteq States
    BY DEF After, States

LEMMA ChangeKeeps == ASSUME ProcessInv, NEW p \in Pids, Change(p) PROVE ProcessInv'
<1>1. UNCHANGED <<configVars, passVars>>
    BY DEF Change
<1>2. PICK next \in After[proc[p]] :
         /\ proc' = [proc EXCEPT ![p] = next]
         /\ ever' = IF passing THEN [ever EXCEPT ![p] = @ \cup {next}] ELSE ever
    BY DEF Change
<1>3. next \in States
    BY AfterTyped DEF ProcessInv, ProcessTypes
<1>4. ever' = IF passing THEN [ever EXCEPT ![p] = ever[p] \cup {next}] ELSE ever
    BY <1>2
<1>5. ProcessTypes'
    BY <1>1, <1>2, <1>3, <1>4 DEF passVars, ProcessInv, ProcessTypes
<1>6. Witnessed'
    <2> SUFFICES ASSUME passing, NEW q \in Pids
                 PROVE  /\ proc'[q] \in ever'[q]
                        /\ q \in zombieproc => "zombie" \in ever'[q]
                        /\ q \in hungprocs => "stuck" \in ever'[q]
                        /\ q \notin todo => /\ ever'[q] = {"zombie"} => q \in zombieproc
                                            /\ ever'[q] = {"stuck"} => q \in hungprocs
        BY <1>1 DEF Witnessed, passVars
    <2>1. /\ proc[q] \in ever[q]
          /\ q \in zombieproc => "zombie" \in ever[q]
          /\ q \in hungprocs => "stuck" \in ever[q]
          /\ q \notin todo => /\ ever[q] = {"zombie"} => q \in zombieproc
                              /\ ever[q] = {"stuck"} => q \in hungprocs
        BY DEF ProcessInv, Witnessed
    <2>2. CASE q # p
        BY <2>1, <2>2, <1>2, <1>4 DEF ProcessInv, ProcessTypes
    <2>3. CASE q = p
        <3>1. proc'[q] = next /\ ever'[q] = ever[q] \cup {next}
            BY <2>3, <1>2, <1>4 DEF ProcessInv, ProcessTypes
        <3>2. \A s : ever'[q] = {s} => ever[q] = {s}
            BY <3>1, <2>1
        <3> QED
            BY <3>1, <3>2, <2>1
    <2> QED
        BY <2>2, <2>3
<1>7. ConfigInv' /\ ReportBounded'
    BY <1>1 DEF ProcessInv, ConfigInv, configVars, passVars, ReportBounded
<1> QED
    BY <1>5, <1>6, <1>7 DEF ProcessInv

LEMMA BeginPassKept == ASSUME ProcessInv, BeginPass PROVE ProcessInv'
<1>1. /\ todo' = {p \in Pids : proc[p] # "none"} /\ zombieproc' = {} /\ hungprocs' = {}
      /\ passing' = TRUE
      /\ ever' = [p \in Pids |-> {proc[p]}] /\ UNCHANGED <<configVars, proc, status, bounds>>
    BY DEF BeginPass
<1>2. ProcessTypes'
    BY <1>1 DEF ProcessInv, ProcessTypes
<1>3. Witnessed'
    BY <1>1 DEF Witnessed
<1>4. ConfigInv' /\ ReportBounded'
    BY <1>1 DEF ProcessInv, ConfigInv, configVars, ReportBounded
<1> QED
    BY <1>2, <1>3, <1>4 DEF ProcessInv

LEMMA ReadStatusKeeps == ASSUME ProcessInv, NEW p \in Pids, ReadStatus(p) PROVE ProcessInv'
<1>1. /\ todo' = todo \ {p}
      /\ zombieproc' = IF proc[p] = "zombie" THEN zombieproc \cup {p} ELSE zombieproc
      /\ hungprocs' = IF proc[p] = "stuck" THEN hungprocs \cup {p} ELSE hungprocs
      /\ UNCHANGED <<configVars, procVars, passing, status, bounds>>
    BY DEF ReadStatus
<1>2. ProcessTypes'
    BY <1>1 DEF ProcessInv, ProcessTypes, procVars
<1>3. Witnessed'
    BY <1>1 DEF ProcessInv, Witnessed, procVars
<1>4. ConfigInv' /\ ReportBounded'
    BY <1>1 DEF ProcessInv, ConfigInv, configVars, ReportBounded
<1> QED
    BY <1>2, <1>3, <1>4 DEF ProcessInv

LEMMA EndPassKeeps == ASSUME ProcessInv, EndPass PROVE ProcessInv'
<1>1. /\ passing /\ todo = {} /\ passing' = FALSE /\ ever' = [p \in Pids |-> {}]
      /\ status' = Verdict(zombieproc, hungprocs)
      /\ bounds' = <<Verdict(All("zombie"), All("stuck")), Verdict(Some("zombie"), Some("stuck"))>>
      /\ UNCHANGED <<configVars, proc, todo, zombieproc, hungprocs>>
    BY DEF EndPass
<1>2. /\ All("zombie") \subseteq zombieproc /\ zombieproc \subseteq Some("zombie")
      /\ All("stuck") \subseteq hungprocs /\ hungprocs \subseteq Some("stuck")
    BY <1>1 DEF ProcessInv, ProcessTypes, Witnessed, All, Some
<1>3. /\ zombieproc \subseteq Pids /\ hungprocs \subseteq Pids
      /\ Some("zombie") \subseteq Pids /\ Some("stuck") \subseteq Pids
    BY DEF ProcessInv, ProcessTypes, Some
<1>4. /\ AtMost(Verdict(All("zombie"), All("stuck")), Verdict(zombieproc, hungprocs))
      /\ AtMost(Verdict(zombieproc, hungprocs), Verdict(Some("zombie"), Some("stuck")))
    BY <1>2, <1>3, VerdictGrows
<1>5. ReportBounded'
    BY <1>1, <1>4 DEF ReportBounded, AtMost
<1>6. ProcessTypes' /\ Witnessed'
    BY <1>1 DEF ProcessInv, ProcessTypes, Witnessed
<1>7. ConfigInv'
    BY <1>1 DEF ProcessInv, ConfigInv, configVars
<1> QED
    BY <1>5, <1>6, <1>7 DEF ProcessInv

LEMMA ProcessStep == ProcessInv /\ [ProcessNext]_monitorVars => ProcessInv'
<1> SUFFICES ASSUME ProcessInv, [ProcessNext]_monitorVars PROVE ProcessInv'
    OBVIOUS
<1>1. CASE (ConfigNext \/ UNCHANGED configVars) /\ UNCHANGED <<procVars, passVars>>
    <2>1. ConfigInv'
        BY <1>1, ConfigStep DEF ProcessInv
    <2>2. ProcessTypes' /\ Witnessed' /\ ReportBounded'
        BY <1>1 DEF procVars, passVars, ProcessInv, ProcessTypes, Witnessed, ReportBounded
    <2> QED
        BY <2>1, <2>2 DEF ProcessInv
<1>2. CASE \E p \in Pids : Change(p) \/ ReadStatus(p)
    BY <1>2, ChangeKeeps, ReadStatusKeeps
<1>3. CASE BeginPass
    BY <1>3, BeginPassKept
<1>4. CASE EndPass
    BY <1>4, EndPassKeeps
<1> QED
    BY <1>1, <1>2, <1>3, <1>4 DEF ProcessNext, monitorVars

THEOREM ProcessInvariant == ProcessInit /\ [][ProcessNext]_monitorVars => []ProcessInv
    BY ProcessInitCorrect, ProcessStep, PTL

(* What is loaded is decided path by path (MergedByPath), whatever the     *)
(* sections, their keys and the values of the two files.                   *)
THEOREM MergeCorrect == ProcessSpec => []MergedByPath
<1>1. ProcessInv => MergedByPath
    BY ConfigInvImplies DEF ProcessInv
<1> QED
    BY <1>1, ProcessInvariant, PTL DEF ProcessSpec

(* A report lies between what was so during its whole pass and what was so *)
(* at any time of it (ReportBounded), for any processes, thresholds and    *)
(* order of what they and the pass do.                                     *)
THEOREM ReportsBounded == ProcessSpec => []ReportBounded
<1>1. ProcessInv => ReportBounded
    BY DEF ProcessInv
<1> QED
    BY <1>1, ProcessInvariant, PTL DEF ProcessSpec
=============================================================================
