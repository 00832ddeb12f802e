------------------------------ MODULE Reporter ------------------------------
(***************************************************************************)
(* The reports of the health checks and their way to CycleCloud            *)
(* (healthagent/reporter.py), across the life of the agent process         *)
(* (healthagent/healthagent.py): modules load the reports the previous run *)
(* pickled, checks update them, every change starts a jetpack process that *)
(* nobody waits for, a stop saves the reports and a crash does not.        *)
(* One name stands for the one report of a module.                         *)
(***************************************************************************)
EXTENDS Naturals, Sequences, SequencesExt

CONSTANTS
    Names,          \* report names, each of a module of its own
    ClearOnCreate,  \* those whose module calls clear_all_errors in create()
    Reports,        \* the HealthReports the checks build
    Bodies,         \* description, details, custom fields...: what == compares
    NoReport,       \* nothing in the store, or no pickle that can be loaded
    Nothing,        \* no command
    EnableGhr,      \* jetpack is recent enough for guest health reporting
    MaxInFlight     \* bound on the jetpack processes running at once

Statuses == {"OK", "Warning", "Error"}
Messages == {"none", "given", "default"}
GhrCategories == {"none", "category"}

HealthReport == [status : Statuses, message : Messages, body : Bodies \cup {"none"},
                 ghr_category : GhrCategories]
Commands == [status : Statuses, message : Messages, body : Bodies \cup {"none"},
             ghr_category : GhrCategories]

(* HealthReport(): OK with nothing else. *)
DefaultReport ==
    [status |-> "OK", message |-> "none", body |-> "none", ghr_category |-> "none"]

ASSUME ReporterAssumption ==
    /\ ClearOnCreate \subseteq Names
    /\ Reports \subseteq HealthReport
    /\ NoReport \notin HealthReport
    /\ Nothing \notin Commands
    /\ MaxInFlight \in Nat \ {0}

VARIABLES
    agent,     \* the process: "new", "starting", "running", "saving" or "down"
    stopped,   \* Scheduler.stop_event is set
    module,    \* per name: "none", "up" (in Healthagent.modules), "out" or
               \* "half" (not there, with tasks or callbacks that go on)
    store,     \* Reporter.store
    file,      \* the reports pickled in the run directory
    unsaved,   \* modules save_reporter has still to write
    inflight,  \* jetpack processes, in the order they were started
    cc,        \* the condition CycleCloud holds
    sent,      \* history: last command started by this process
    reported,  \* history: the check has reported since the process started
    orderly    \* history: since the process started no jetpack process failed
               \* or ended before an older one of its name

vars == <<agent, stopped, module, store, file, unsaved, inflight, cc, sent, reported,
          orderly>>

Init ==
    /\ agent = "new"
    /\ stopped = FALSE
    /\ module = [n \in Names |-> "none"]
    /\ store = [n \in Names |-> NoReport]
    /\ file = [n \in Names |-> NoReport]
    /\ unsaved = {}
    /\ inflight = <<>>
    /\ cc = [n \in Names |-> Nothing]
    /\ sent = [n \in Names |-> Nothing]
    /\ reported = [n \in Names |-> FALSE]
    /\ orderly = TRUE

-----------------------------------------------------------------------------
(* Reporter.update_report. *)

(* A warning or an error without a message gets one made from the name. *)
Normalised(r) ==
    IF r.status \in {"Warning", "Error"} /\ r.message = "none"
    THEN [r EXCEPT !.message = "default"]
    ELSE r

(* The jetpack command of a stored report: an OK carries nothing else, and *)
(* the category goes only to a jetpack that knows it.                      *)
CommandOf(r) ==
    IF r.status = "OK" THEN [DefaultReport EXCEPT !.status = "OK"]
    ELSE [r EXCEPT !.ghr_category = IF EnableGhr THEN r.ghr_category ELSE "none"]

(* The first report of a name, or one that differs in what == compares. *)
Changes(n, r) == store[n] # Normalised(r)

(* Variant: publishing reads the store before it is updated. *)
PublishStale(n, r) ==
    LET command == IF store[n] = NoReport THEN CommandOf(Normalised(r))
                   ELSE CommandOf(store[n])
    IN  IF stopped THEN UNCHANGED <<inflight, sent>>
        ELSE /\ inflight' = Append(inflight, [name |-> n, command |-> command])
             /\ sent' = [sent EXCEPT ![n] = CommandOf(Normalised(r))]

(* publish_cc_status up to its await: the process is started by a task     *)
(* made here.  After stop() add_task returns None and awaiting it raises,  *)
(* with the store already changed.                                         *)
Publish(n, r) ==
    IF stopped THEN UNCHANGED <<inflight, sent>>
    ELSE /\ inflight' = Append(inflight, [name |-> n, command |-> CommandOf(Normalised(r))])
         /\ sent' = [sent EXCEPT ![n] = CommandOf(Normalised(r))]

(* Variant: a report that clears an error is stored without being published. *)
UpdateReportQuiet(n, r) ==
    IF Changes(n, r)
    THEN /\ store' = [store EXCEPT ![n] = Normalised(r)]
         /\ IF r.status = "OK" THEN UNCHANGED <<inflight, sent>> ELSE Publish(n, r)
    ELSE UNCHANGED <<store, inflight, sent>>

(* The store is changed before the publication is awaited. *)
UpdateReport(n, r) ==
    IF Changes(n, r)
    THEN store' = [store EXCEPT ![n] = Normalised(r)] /\ Publish(n, r)
    ELSE UNCHANGED <<store, inflight, sent>>

-----------------------------------------------------------------------------
(* The life of the process. *)

(* get_reporter for every module: the pickled reports, or none. *)
Boot ==
    /\ agent \in {"new", "down"}
    /\ agent' = "starting"
    /\ stopped' = FALSE
    /\ module' = [n \in Names |-> "none"]
    /\ store' = file
    /\ sent' = [n \in Names |-> Nothing]
    /\ reported' = [n \in Names |-> FALSE]
    /\ orderly' = TRUE
    /\ UNCHANGED <<file, unsaved, inflight, cc>>

(* Variant: create() that keeps what the previous run left. *)
ClearAllErrorsSkipped(n) == UNCHANGED <<store, inflight, sent>>

(* clear_all_errors() without a delta: what is in the store becomes OK. *)
ClearAllErrors(n) ==
    IF n \in ClearOnCreate /\ store[n] # NoReport
    THEN UpdateReport(n, DefaultReport)
    ELSE UNCHANGED <<store, inflight, sent>>

(* clear_all_errors raises when it must publish after stop(). *)
ClearRaises(n) ==
    /\ stopped
    /\ n \in ClearOnCreate /\ store[n] # NoReport
    /\ Changes(n, DefaultReport)

(* initialize_modules: create() succeeds and the module is registered. *)
Create(n) ==
    /\ agent = "starting" /\ module[n] = "none"
    /\ Len(inflight) < MaxInFlight
    /\ ClearAllErrors(n)
    /\ module' = [module EXCEPT ![n] = IF ClearRaises(n) THEN "out" ELSE "up"]
    /\ UNCHANGED <<agent, stopped, file, unsaved, cc, reported, orderly>>

(* The constructor raises, or create() does after it cleared (no D-Bus,    *)
(* for example): the module is left out, and its report is not saved any   *)
(* more.  What it started by then, such as the reader of /dev/kmsg and the *)
(* periodic task of kmsg.py:25, nobody stops.                              *)
CreateFails(n) ==
    /\ agent = "starting" /\ module[n] = "none"
    /\ Len(inflight) < MaxInFlight
    /\ ClearAllErrors(n) \/ UNCHANGED <<store, inflight, sent>>
    /\ \E rest \in {"out", "half"} : module' = [module EXCEPT ![n] = rest]
    /\ UNCHANGED <<agent, stopped, file, unsaved, cc, reported, orderly>>

Initialized ==
    /\ agent = "starting"
    /\ \A n \in Names : module[n] # "none"
    /\ agent' = "running"
    /\ UNCHANGED <<stopped, module, store, file, unsaved, inflight, cc, sent, reported,
                   orderly>>

(* A check reports, also while the agent stops, and also one that a module *)
(* left behind when its creation failed.                                   *)
Report(n, r) ==
    /\ agent \in {"starting", "running"} /\ module[n] \in {"up", "half"}
    /\ Len(inflight) < MaxInFlight
    /\ UpdateReport(n, r)
    /\ reported' = [reported EXCEPT ![n] = TRUE]
    /\ UNCHANGED <<agent, stopped, module, file, unsaved, cc, orderly>>

Stop ==
    /\ agent \in {"starting", "running"} /\ ~stopped
    /\ stopped' = TRUE
    /\ UNCHANGED <<agent, module, store, file, unsaved, inflight, cc, sent, reported,
                   orderly>>

(* run() wakes from stop_event.wait(), closes the server and saves. *)
BeginSave ==
    /\ agent = "running" /\ stopped
    /\ agent' = "saving"
    /\ unsaved' = {n \in Names : module[n] = "up"}
    /\ UNCHANGED <<stopped, module, store, file, inflight, cc, sent, reported, orderly>>

(* open(..., 'wb') truncates the file: a dump that fails leaves nothing. *)
SaveReporter(n) ==
    /\ agent = "saving" /\ n \in unsaved
    /\ file' \in {[file EXCEPT ![n] = store[n]], [file EXCEPT ![n] = NoReport]}
    /\ unsaved' = unsaved \ {n}
    /\ UNCHANGED <<agent, stopped, module, store, inflight, cc, sent, reported, orderly>>

(* systemd kills what is left of the service: jetpack processes too. *)
Down ==
    /\ agent' = "down"
    /\ inflight' = <<>>
    /\ unsaved' = {}
    /\ UNCHANGED <<stopped, module, store, file, cc, sent, reported, orderly>>

Exit == agent = "saving" /\ unsaved = {} /\ Down
Crash == agent \in {"starting", "running", "saving"} /\ Down

-----------------------------------------------------------------------------
(* No older process of the same name still runs. *)
IsOldest(i) == \A k \in 1..(i - 1) : inflight[k].name # inflight[i].name

(* jetpack told CycleCloud; nobody waits for it, so it may be any of them. *)
JetpackEnds(i) ==
    /\ cc' = [cc EXCEPT ![inflight[i].name] = inflight[i].command]
    /\ inflight' = RemoveAt(inflight, i)
    /\ orderly' = (orderly /\ IsOldest(i))
    /\ UNCHANGED <<agent, stopped, module, store, file, unsaved, sent, reported>>

(* jetpack could not be started or failed: its status is never looked at. *)
JetpackFails(i) ==
    /\ inflight' = RemoveAt(inflight, i)
    /\ orderly' = FALSE
    /\ UNCHANGED <<agent, stopped, module, store, file, unsaved, cc, sent, reported>>

Next ==
    \/ Boot
    \/ Initialized
    \/ Stop
    \/ BeginSave
    \/ Exit
    \/ Crash
    \/ \E n \in Names :
        \/ Create(n)
        \/ CreateFails(n)
        \/ SaveReporter(n)
        \/ \E r \in Reports : Report(n, r)
    \/ \E i \in 1..Len(inflight) : JetpackEnds(i) \/ JetpackFails(i)

Spec == Init /\ [][Next]_vars

-----------------------------------------------------------------------------
TypeOK ==
    /\ agent \in {"new", "starting", "running", "saving", "down"}
    /\ stopped \in BOOLEAN
    /\ module \in [Names -> {"none", "up", "half", "out"}]
    /\ store \in [Names -> HealthReport \cup {NoReport}]
    /\ file \in [Names -> HealthReport \cup {NoReport}]
    /\ unsaved \subseteq Names
    /\ inflight \in Seq([name : Names, command : Commands])
    /\ cc \in [Names -> Commands \cup {Nothing}]
    /\ sent \in [Names -> Commands \cup {Nothing}]
    /\ reported \in [Names -> BOOLEAN]
    /\ orderly \in BOOLEAN

Up(n) == agent \in {"starting", "running"} /\ module[n] = "up"

(* Until stop(), a report that changed since the process started has been  *)
(* handed to jetpack as it stands, and one that was not handed over is the *)
(* one the process loaded: no change is stored without being published.    *)
ChangesArePublished ==
    agent \in {"starting", "running"} /\ ~stopped =>
        \A n \in Names :
            IF sent[n] = Nothing THEN store[n] = file[n]
            ELSE store[n] # NoReport /\ sent[n] = CommandOf(store[n])

(* A node is not held degraded by what an earlier process saw: a module    *)
(* that clears on create shows a warning or an error only after its own    *)
(* check reported it in this process.                                      *)
NothingInherited ==
    \A n \in ClearOnCreate :
        Up(n) /\ store[n] # NoReport /\ store[n].status # "OK" => reported[n]

Settled(n) ==
    /\ agent = "running" /\ ~stopped /\ reported[n]
    /\ \A i \in 1..Len(inflight) : inflight[i].name # n

(* When a check changed its report since the process started and no        *)
(* jetpack process is left, CycleCloud shows that report: also after       *)
(* restarts and crashes, and whatever was under way when the agent went    *)
(* down.  Only jetpack processes that failed or overtook one another, of   *)
(* which the agent takes no notice, make an exception.                     *)
ConditionIsCurrent ==
    \A n \in Names :
        Settled(n) /\ orderly /\ sent[n] # Nothing => cc[n] = CommandOf(store[n])
=============================================================================
