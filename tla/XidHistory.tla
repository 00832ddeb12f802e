----------------------------- MODULE XidHistory -----------------------------
(***************************************************************************)
(* The XIDs (GPU errors) the gpu module has seen and their file            *)
(* (healthagent/gpu.py): handle_policy_violation and track_fieldsv2 record *)
(* XIDs and schedule a save, each save takes a snapshot and leaves the     *)
(* writing to a thread, setup() reads the file at the start and at every   *)
(* reconnection to DCGM, and a file from before the last boot is dropped.  *)
(***************************************************************************)
EXTENDS Naturals, Sequences, SequencesExt

CONSTANTS
    Xids,          \* an XID number of a GPU
    MaxTime,       \* bound on the timestamps DCGM gives
    Never,         \* an XID that is not in a history
    MaxSaves       \* bound on the saves that have not ended

ASSUME XidAssumption ==
    /\ MaxTime \in Nat \ {0} /\ Never \notin 1..MaxTime
    /\ MaxSaves \in Nat \ {0}

Times == 1..MaxTime
Histories == [Xids -> Times \cup {Never}]
Empty == [x \in Xids |-> Never]

VARIABLES
    agent,        \* "up", "stopping" (after Scheduler.stop) or "down"
    xid_history,  \* the dictionary of the module
    scheduled,    \* tasks of _save_xid_history that have not started
    writing,      \* _write_xid_file in threads: data and step
    file,         \* xid_history.json
    predates,     \* the file is older than the last boot
    seen,         \* history: earliest time DCGM reported an XID since boot
    orderly,      \* history: in this process no write has failed or overtaken
                  \* an older one, and no reconnection met one under way
    skipped       \* history: an exception came between an XID that was
                  \* recorded and its save, and no snapshot was taken since

vars == <<agent, xid_history, scheduled, writing, file, predates, seen,
          orderly, skipped>>

Init ==
    /\ agent = "up"
    /\ xid_history = Empty
    /\ scheduled = 0
    /\ writing = <<>>
    /\ file = Empty
    /\ predates = FALSE
    /\ seen = Empty
    /\ orderly = TRUE
    /\ skipped = FALSE

-----------------------------------------------------------------------------
Earliest(a, b) == IF a = Never \/ b < a THEN b ELSE a

(* A new XID, or one that happened earlier than was known. *)
Records(x, time) == xid_history[x] = Never \/ time < xid_history[x]

(* handle_policy_violation; after stop() add_task schedules nothing. *)
HandlePolicyViolation(x, time) ==
    /\ agent \in {"up", "stopping"}
    /\ scheduled + Len(writing) < MaxSaves
    /\ seen' = [seen EXCEPT ![x] = Earliest(seen[x], time)]
    /\ IF Records(x, time)
       THEN /\ xid_history' = [xid_history EXCEPT ![x] = time]
            /\ scheduled' = IF agent = "up" THEN scheduled + 1 ELSE scheduled
       ELSE UNCHANGED <<xid_history, scheduled>>
    /\ UNCHANGED <<agent, writing, file, predates, orderly, skipped>>

Merged(history, samples) ==
    [x \in Xids |-> IF samples[x] = Never THEN history[x]
                    ELSE Earliest(history[x], samples[x])]

(* track_fieldsv2 (every minute) goes through the samples DCGM kept, any   *)
(* number of XIDs, and schedules one save for all that is new.             *)
TrackFields(samples) ==
    /\ agent \in {"up", "stopping"}
    /\ scheduled + Len(writing) < MaxSaves
    /\ seen' = Merged(seen, samples)
    /\ xid_history' = Merged(xid_history, samples)
    /\ scheduled' = IF agent = "up" /\ xid_history' # xid_history
                    THEN scheduled + 1 ELSE scheduled
    /\ UNCHANGED <<agent, writing, file, predates, orderly, skipped>>

(* The same, until an exception stops it in the middle (the values of the  *)
(* fields of a later GPU are evaluated after the XIDs of an earlier one):  *)
(* what was recorded by then stays, and no save is scheduled.              *)
TrackFieldsRaises(samples) ==
    /\ agent \in {"up", "stopping"}
    /\ seen' = Merged(seen, samples)
    /\ xid_history' = Merged(xid_history, samples)
    /\ skipped' = (skipped \/ xid_history' # xid_history)
    /\ UNCHANGED <<agent, scheduled, writing, file, predates, orderly>>

(* Variant: a save during another one is left out. *)
SaveXidHistorySkipped ==
    /\ agent \in {"up", "stopping"} /\ scheduled > 0
    /\ scheduled' = scheduled - 1
    /\ writing' = IF writing # <<>> THEN writing
                  ELSE Append(writing, [data |-> xid_history, step |-> "start"])
    /\ skipped' = FALSE
    /\ UNCHANGED <<agent, xid_history, file, predates, seen, orderly>>

(* _save_xid_history up to its await: the snapshot goes to a thread. *)
SaveXidHistory ==
    /\ agent \in {"up", "stopping"} /\ scheduled > 0
    /\ scheduled' = scheduled - 1
    /\ writing' = Append(writing, [data |-> xid_history, step |-> "start"])
    /\ skipped' = FALSE
    /\ UNCHANGED <<agent, xid_history, file, predates, seen, orderly>>

(* Variant: the thread opens the file itself, which truncates it. *)
WriteTempInPlace(i) ==
    /\ agent # "down" /\ writing[i].step = "start"
    /\ writing' = [writing EXCEPT ![i].step = "temp"]
    /\ file' = Empty
    /\ UNCHANGED <<agent, xid_history, scheduled, predates, seen, orderly, skipped>>

(* _write_xid_file writes a file of its own name first. *)
WriteTemp(i) ==
    /\ agent # "down" /\ writing[i].step = "start"
    /\ writing' = [writing EXCEPT ![i].step = "temp"]
    /\ UNCHANGED <<agent, xid_history, scheduled, file, predates, seen, orderly,
                   skipped>>

(* os.replace: the file is the new data as a whole, and of this boot. *)
Replace(i) ==
    /\ agent # "down" /\ writing[i].step = "temp"
    /\ file' = writing[i].data
    /\ predates' = FALSE
    /\ writing' = RemoveAt(writing, i)
    /\ orderly' = (orderly /\ i = 1)
    /\ UNCHANGED <<agent, xid_history, scheduled, seen, skipped>>

(* A full disk, for example: the temporary file is removed. *)
WriteFails(i) ==
    /\ agent # "down"
    /\ writing' = RemoveAt(writing, i)
    /\ orderly' = FALSE
    /\ UNCHANGED <<agent, xid_history, scheduled, file, predates, seen, skipped>>

(* Variant: the age of the file is not looked at. *)
LoadAnyAge ==
    /\ xid_history' = file
    /\ UNCHANGED <<file, predates>>

(* _load_xid_history: a file older than the last boot is removed. *)
LoadXidHistory ==
    /\ xid_history' = IF predates THEN Empty ELSE file
    /\ file' = IF predates THEN Empty ELSE file
    /\ predates' = FALSE

(* setup() in run_background_healthchecks, which is called when DCGM says  *)
(* the connection is gone: the file is read before DCGM is connected to.   *)
Reconnect ==
    /\ agent \in {"up", "stopping"}
    /\ LoadXidHistory
    /\ orderly' = (orderly /\ scheduled = 0 /\ writing = <<>>)
    /\ skipped' = FALSE
    /\ UNCHANGED <<agent, scheduled, writing, seen>>

-----------------------------------------------------------------------------
(* Scheduler.stop(). *)
Stop ==
    /\ agent = "up"
    /\ agent' = "stopping"
    /\ UNCHANGED <<xid_history, scheduled, writing, file, predates, seen, orderly,
                   skipped>>

(* run() returns: tasks made before stop() were started before it woke up, *)
(* and asyncio.run waits for the threads.                                  *)
Exit ==
    /\ agent = "stopping" /\ scheduled = 0 /\ writing = <<>>
    /\ agent' = "down"
    /\ UNCHANGED <<xid_history, scheduled, writing, file, predates, seen, orderly,
                   skipped>>

(* The process is killed, with its threads. *)
Crash ==
    /\ agent # "down"
    /\ agent' = "down" /\ scheduled' = 0 /\ writing' = <<>>
    /\ UNCHANGED <<xid_history, file, predates, seen, orderly, skipped>>

Reboot ==
    /\ agent' = "down" /\ scheduled' = 0 /\ writing' = <<>>
    /\ predates' = TRUE /\ seen' = Empty
    /\ UNCHANGED <<xid_history, file, orderly, skipped>>

(* GpuHealthChecks() and its setup(). *)
Start ==
    /\ agent = "down"
    /\ agent' = "up"
    /\ LoadXidHistory
    /\ orderly' = TRUE
    /\ skipped' = FALSE
    /\ UNCHANGED <<scheduled, writing, seen>>

Next ==
    \/ SaveXidHistory
    \/ Reconnect
    \/ Stop
    \/ Exit
    \/ Crash
    \/ Reboot
    \/ Start
    \/ \E x \in Xids, time \in Times : HandlePolicyViolation(x, time)
    \/ \E samples \in Histories : TrackFields(samples) \/ TrackFieldsRaises(samples)
    \/ \E i \in 1..Len(writing) : WriteTemp(i) \/ Replace(i) \/ WriteFails(i)

Spec == Init /\ [][Next]_vars

-----------------------------------------------------------------------------
TypeOK ==
    /\ agent \in {"up", "stopping", "down"}
    /\ xid_history \in Histories
    /\ scheduled \in 0..MaxSaves
    /\ writing \in Seq([data : Histories, step : {"start", "temp"}])
    /\ scheduled + Len(writing) <= MaxSaves
    /\ file \in Histories
    /\ predates \in BOOLEAN
    /\ seen \in Histories
    /\ orderly \in BOOLEAN
    /\ skipped \in BOOLEAN

(* Every XID a history tells was reported since the last boot, and not     *)
(* before the time the history gives: nothing is carried over a reboot,    *)
(* where the GPU was reset, and no repetition hides when an XID happened.  *)
Supported(history) ==
    \A x \in Xids : history[x] # Never => seen[x] # Never /\ history[x] >= seen[x]

NothingStale ==
    /\ agent # "down" => Supported(xid_history)
    /\ ~predates => Supported(file)

Quiet == agent = "up" /\ scheduled = 0 /\ writing = <<>>

(* When no save is under way the file holds what the process knows, so     *)
(* that a restart, orderly or not, loses nothing, however records, saves   *)
(* and threads interleave.  Excepted are threads that end in another order *)
(* than that of their snapshots, and XIDs recorded by a track_fieldsv2     *)
(* that raised (gpu.py:380) until the next save, whatever it is for: see   *)
(* the README.                                                             *)
SavedWhenQuiet == Quiet /\ orderly /\ ~skipped => xid_history = file

(* An XID in the file stays there until the node boots: no crash between   *)
(* two steps of a save and no later save takes it out again.               *)
FileKeepsXids ==
    [][orderly' /\ ~predates =>
          \A x \in Xids : file[x] # Never =>
              file'[x] # Never /\ file'[x] <= file[x]]_vars
=============================================================================
