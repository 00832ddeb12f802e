--------------------------- MODULE SystemdMonitor ---------------------------
(***************************************************************************)
(* The systemd module (healthagent/async_systemd.py): it reads the state   *)
(* of each monitored service over D-Bus, then asks for its change signals, *)
(* records failures and recoveries and reports them.  systemd and the bus  *)
(* are modelled as the module uses them: replies and signals arrive in     *)
(* order, and a signal is sent only when the bus holds a match for it.     *)
(***************************************************************************)
EXTENDS Naturals, Sequences, FiniteSets, SequencesExt

CONSTANTS
    Services, \* the services of the configuration
    Main,    \* the coroutine of initialize_modules, in add_monitor
    Workers, \* coroutines of handle_unit_new
    None,
    MaxBus,  \* bound on the signals under way
    MaxTasks  \* bound on the tasks under way

UnitStates == {"unloaded", "inactive", "activating", "exited", "running", "failed"}

ASSUME SystemdAssumption ==
    /\ Main \notin Workers
    /\ None \notin Services \cup {"failed"}
    /\ MaxBus \in Nat \ {0} /\ MaxTasks \in Nat \ {0}

VARIABLES
    real,       \* the state systemd holds of each unit
    matched,    \* units whose PropertiesChanged match the bus has installed
    asked,      \* units whose match was asked for and not installed yet
    bus,        \* signals sent and not yet delivered, oldest first
    todo,       \* services add_monitor has still to look at
    co,         \* per coroutine: what __add_handler does, for which service
    unit_paths, \* SystemdMonitor.unit_paths
    not_enabled, \* SystemdMonitor.services_not_enabled
    state,      \* SystemdMonitor.state: None, "failed" or "active"
    report,     \* the services the stored report names as failed
    tasks,      \* set_current_state tasks, in the order they were added
    handlers,   \* per unit: callbacks registered with on_properties_changed
    stopped,    \* Scheduler.stop_event is set
    missed,     \* history: services that changed between their reading and
                 \* their match, and have sent no signal since
    given_up,   \* history: units whose __add_handler raised
    unread       \* history: the last update_services raised

agent == <<todo, co, unit_paths, not_enabled, state, report, tasks, handlers, stopped>>
faults == <<missed, given_up, unread>>
vars == <<real, matched, asked, bus, agent, faults>>

Coroutines == Workers \cup {Main}
Idle == [phase |-> "idle", service |-> None, active |-> None]

(* ActiveState and SubState as systemd gives them. *)
ActiveState(u) ==
    CASE u \in {"unloaded", "inactive"} -> "inactive"
      [] u = "activating" -> "activating"
      [] u \in {"exited", "running"} -> "active"
      [] u = "failed" -> "failed"

SubState(u) ==
    CASE u \in {"unloaded", "inactive"} -> "dead"
      [] u = "activating" -> "start"
      [] OTHER -> u

Init ==
    /\ real \in [Services -> {"unloaded", "inactive", "running", "failed"}]
    /\ matched = {} /\ asked = {} /\ bus = <<>>
    /\ todo = Services
    /\ co = [c \in Coroutines |-> Idle]
    /\ unit_paths = {} /\ not_enabled = {}
    /\ state = [s \in Services |-> None]
    /\ report = {}
    /\ tasks = <<>>
    /\ handlers = [s \in Services |-> 0]
    /\ stopped = FALSE
    /\ missed = {} /\ given_up = {} /\ unread = FALSE

-----------------------------------------------------------------------------
(* systemd. *)

Successors(u) ==
    CASE u = "unloaded" -> {"inactive"}
      [] u = "inactive" -> {"unloaded", "activating", "failed"}
      [] u = "activating" -> {"running", "exited", "failed", "inactive"}
      [] u = "exited" -> {"inactive"}
      [] u = "running" -> {"failed", "inactive"}
      [] u = "failed" -> {"activating", "inactive"}

(* The state of s was read, and its changes are not signalled yet. *)
BeingAdded(s) ==
    \/ s \in asked
    \/ \E c \in Coroutines : co[c].service = s /\ co[c].phase # "added"

Signal(kind, s, u) ==
    [kind |-> kind, service |-> s, active |-> ActiveState(u), sub |-> SubState(u)]

UnitChanges(s) ==
    /\ \E u \in Successors(real[s]) :
        /\ real' = [real EXCEPT ![s] = u]
        /\ bus' = IF real[s] = "unloaded" THEN Append(bus, Signal("UnitNew", s, u))
                  ELSE IF u # "unloaded" /\ s \in matched
                  THEN Append(bus, Signal("PropertiesChanged", s, u))
                  ELSE bus
    /\ Len(bus') <= MaxBus
    /\ missed' = IF BeingAdded(s) THEN missed \cup {s}
                 ELSE IF bus' # bus THEN missed \ {s} ELSE missed
    /\ UNCHANGED <<matched, asked, agent, given_up, unread>>

(* The bus handles the AddMatch of on_properties_changed. *)
MatchInstalled(s) ==
    /\ s \in asked
    /\ matched' = matched \cup {s}
    /\ asked' = asked \ {s}
    /\ UNCHANGED <<real, bus, agent, faults>>

-----------------------------------------------------------------------------
(* set_current_state and update_services. *)

(* The transition is one that is recorded. *)
Records(s, active, sub) ==
    /\ active # state[s]
    /\ \/ active = "failed"
       \/ active = "active" /\ sub = "running" /\ state[s] \in {"failed", "inactive", None}

Failed(st) == {s \in Services : st[s] = "failed"}

(* Variant: only a service that has just failed is reported. *)
UpdateServicesOne(st) ==
    report' = {s \in Failed(st) : state[s] # "failed"} /\ unread' = FALSE

(* One report for all services. *)
UpdateServices(st) == report' = Failed(st) /\ unread' = FALSE

(* The journal of a failed service cannot be read, and nothing is reported; *)
(* or the report is stored and, after stop(), cannot be published.         *)
UpdateServicesRaises(st) ==
    \/ Failed(st) # {} /\ report' = report /\ unread' = TRUE
    \/ stopped /\ report' = Failed(st) /\ unread' = FALSE

SetCurrentState(s, active, sub) ==
    IF Records(s, active, sub)
    THEN /\ state' = [state EXCEPT ![s] = active]
         /\ UpdateServices(state')
    ELSE UNCHANGED <<state, report, unread>>

(* The state is recorded before anything can raise. *)
SetCurrentStateRaises(s, active, sub) ==
    /\ Records(s, active, sub)
    /\ state' = [state EXCEPT ![s] = active]
    /\ UpdateServicesRaises(state')

-----------------------------------------------------------------------------
(* add_monitor, handle_unit_new and the coroutine __add_handler. *)

(* Variant: a service that is not loaded is ignored for good. *)
GetUnitForgets(s) ==
    /\ co[Main].phase = "idle" /\ s \in todo
    /\ todo' = todo \ {s}
    /\ IF real[s] = "unloaded" \/ s \in unit_paths
       THEN UNCHANGED <<co, unit_paths>>
       ELSE /\ unit_paths' = unit_paths \cup {s}
            /\ co' = [co EXCEPT ![Main] = [Idle EXCEPT !.phase = "added", !.service = s]]
    /\ UNCHANGED <<real, matched, asked, bus, not_enabled, state, report,
                   tasks, handlers, stopped, faults>>

(* GetUnit for the next service. *)
GetUnit(s) ==
    /\ co[Main].phase = "idle" /\ s \in todo
    /\ todo' = todo \ {s}
    /\ IF real[s] = "unloaded"
       THEN not_enabled' = not_enabled \cup {s} /\ UNCHANGED <<co, unit_paths>>
       ELSE IF s \in unit_paths THEN UNCHANGED <<co, unit_paths, not_enabled>>
       ELSE /\ unit_paths' = unit_paths \cup {s}
            /\ co' = [co EXCEPT ![Main] = [Idle EXCEPT !.phase = "added", !.service = s]]
            /\ UNCHANGED not_enabled
    /\ UNCHANGED <<real, matched, asked, bus, state, report, tasks, handlers,
                   stopped, faults>>

(* Variant: a unit may be added again. *)
WatchesAlways(s) == s \in not_enabled

(* handle_unit_new looks only at services that were not loaded before. *)
Watches(s) == s \in not_enabled /\ s \notin unit_paths

(* A UnitNew signal arrives. *)
HandleUnitNew ==
    /\ bus # <<>> /\ Head(bus).kind = "UnitNew"
    /\ bus' = Tail(bus)
    /\ LET s == Head(bus).service
       IN  IF ~Watches(s) THEN UNCHANGED <<co, unit_paths>>
           ELSE \E w \in Workers :
                  /\ co[w].phase = "idle"
                  /\ unit_paths' = unit_paths \cup {s}
                  /\ co' = [co EXCEPT ![w] = [Idle EXCEPT !.phase = "added", !.service = s]]
    /\ UNCHANGED <<real, matched, asked, todo, not_enabled, state, report,
                   tasks, handlers, stopped, faults>>

(* The reply to Get(ActiveState). *)
ReadActiveState(c) ==
    /\ co[c].phase = "added"
    /\ co' = [co EXCEPT ![c].phase = "active", ![c].active = ActiveState(real[co[c].service])]
    /\ UNCHANGED <<real, matched, asked, bus, todo, unit_paths, not_enabled,
                   state, report, tasks, handlers, stopped, faults>>

(* The reply to Get(SubState), and set_current_state with both. *)
SetInitialState(c) ==
    /\ co[c].phase = "active"
    /\ SetCurrentState(co[c].service, co[c].active, SubState(real[co[c].service]))
    /\ co' = [co EXCEPT ![c].phase = "set"]
    /\ UNCHANGED <<real, matched, asked, bus, todo, unit_paths, not_enabled,
                   tasks, handlers, stopped, missed, given_up>>

(* on_properties_changed, after set_current_state was awaited. *)
RegisterHandler(c) ==
    /\ co[c].phase = "set"
    /\ handlers' = [handlers EXCEPT ![co[c].service] = @ + 1]
    /\ asked' = asked \cup ({co[c].service} \ matched)
    /\ co' = [co EXCEPT ![c] = Idle]
    /\ UNCHANGED <<real, matched, bus, todo, unit_paths, not_enabled, state,
                   report, tasks, stopped, faults>>

(* handle_unit_new logs whatever __add_handler raises; unit_paths keeps    *)
(* the unit.                                                               *)
AddHandlerRaises(w) ==
    /\ co[w].phase \in {"added", "active"}
    /\ co' = [co EXCEPT ![w] = Idle]
    /\ given_up' = given_up \cup {co[w].service}
    /\ UNCHANGED <<real, matched, asked, bus, todo, unit_paths, not_enabled,
                   state, report, tasks, handlers, stopped, missed, unread>>

InitialStateRaises(w) ==
    /\ co[w].phase = "active"
    /\ SetCurrentStateRaises(co[w].service, co[w].active, SubState(real[co[w].service]))
    /\ co' = [co EXCEPT ![w] = Idle]
    /\ given_up' = given_up \cup {co[w].service}
    /\ UNCHANGED <<real, matched, asked, bus, todo, unit_paths, not_enabled,
                   tasks, handlers, stopped, missed>>

(* A new process: __init__ starts from nothing, and clear_all_errors in    *)
(* create() makes the report of the previous process OK.                   *)
Restart ==
    /\ matched' = {} /\ asked' = {} /\ bus' = <<>>
    /\ todo' = Services
    /\ co' = [c \in Coroutines |-> Idle]
    /\ unit_paths' = {} /\ not_enabled' = {}
    /\ state' = [s \in Services |-> None]
    /\ report' = {}
    /\ tasks' = <<>>
    /\ handlers' = [s \in Services |-> 0]
    /\ stopped' = FALSE
    /\ missed' = {} /\ given_up' = {} /\ unread' = FALSE
    /\ UNCHANGED real

(* add_monitor re-raises: run() dies and systemd starts the agent again. *)
AddMonitorRaises ==
    /\ todo # {} \/ co[Main].phase # "idle"
    /\ Restart

Crash == Restart

-----------------------------------------------------------------------------
(* Change signals. *)

(* The callback: each registered handler adds a task, unless the state is  *)
(* one it does not look at or the scheduler is stopped.                    *)
HandlePropertiesChanged ==
    /\ bus # <<>> /\ Head(bus).kind = "PropertiesChanged"
    /\ Len(tasks) < MaxTasks
    /\ bus' = Tail(bus)
    /\ LET m == Head(bus)
       IN  tasks' = IF m.active \in {"failed", "active", "inactive"} /\ ~stopped
                    THEN tasks \o [i \in 1..handlers[m.service] |-> m]
                    ELSE tasks
    /\ UNCHANGED <<real, matched, asked, todo, co, unit_paths, not_enabled,
                   state, report, handlers, stopped, faults>>

(* Variant: the newest task first. *)
NextTaskNewest == Len(tasks)

(* The event loop runs the oldest task first. *)
NextTask == 1

RunTask ==
    /\ tasks # <<>>
    /\ LET m == tasks[NextTask]
       IN  \/ SetCurrentState(m.service, m.active, m.sub)
           \/ SetCurrentStateRaises(m.service, m.active, m.sub)
    /\ tasks' = RemoveAt(tasks, NextTask)
    /\ UNCHANGED <<real, matched, asked, bus, todo, co, unit_paths,
                   not_enabled, handlers, stopped, missed, given_up>>

Stop ==
    /\ ~stopped
    /\ stopped' = TRUE
    /\ UNCHANGED <<real, matched, asked, bus, todo, co, unit_paths,
                   not_enabled, state, report, tasks, handlers, faults>>

AddHandler(c) == ReadActiveState(c) \/ SetInitialState(c) \/ RegisterHandler(c)

Next ==
    \/ \E s \in Services : UnitChanges(s) \/ MatchInstalled(s) \/ GetUnit(s)
    \/ HandleUnitNew
    \/ \E c \in Coroutines : AddHandler(c)
    \/ \E w \in Workers : AddHandlerRaises(w) \/ InitialStateRaises(w)
    \/ AddMonitorRaises
    \/ Crash
    \/ HandlePropertiesChanged
    \/ RunTask
    \/ Stop

Spec == Init /\ [][Next]_vars

-----------------------------------------------------------------------------
ActiveStates == {"inactive", "activating", "active", "failed"}
SubStates == {"dead", "start", "exited", "running", "failed"}

Message == [kind : {"UnitNew", "PropertiesChanged"}, service : Services,
            active : ActiveStates, sub : SubStates]

Coroutine == [phase : {"idle", "added", "active", "set"},
              service : Services \cup {None}, active : ActiveStates \cup {None}]

TypeOK ==
    /\ real \in [Services -> UnitStates]
    /\ matched \subseteq Services /\ asked \subseteq Services
    /\ bus \in Seq(Message) /\ tasks \in Seq(Message)
    /\ todo \subseteq Services
    /\ co \in [Coroutines -> Coroutine]
    /\ unit_paths \subseteq Services /\ not_enabled \subseteq Services
    /\ state \in [Services -> {None, "active", "failed"}]
    /\ report \subseteq Services
    /\ handlers \in [Services -> Nat]
    /\ stopped \in BOOLEAN
    /\ missed \subseteq Services /\ given_up \subseteq Services /\ unread \in BOOLEAN

(* Nothing is under way for s. *)
Quiet(s) ==
    /\ s \notin asked /\ s \notin todo
    /\ \A c \in Coroutines : co[c].service # s
    /\ \A i \in 1..Len(bus) : bus[i].service # s
    /\ \A i \in 1..Len(tasks) : tasks[i].service # s

(* However often systemd loads and unloads a unit, one callback watches    *)
(* it: a second one would report every change twice.                       *)
OneHandlerPerUnit ==
    \A s \in Services : handlers[s] <= 1

(* Once everything the bus sent was handled, a loaded service is watched,  *)
(* also one that was not loaded when the agent started.  Only a D-Bus call *)
(* or a first report that raised in handle_unit_new leaves a unit          *)
(* unwatched.                                                              *)
MonitoringBegins ==
    \A s \in Services \ given_up :
        Quiet(s) /\ real[s] # "unloaded" => s \in matched /\ handlers[s] > 0

(* Nothing is under way for s, and none of the three things happened that  *)
(* the code does not make up for: a change between the reading of s and    *)
(* its match, an exception in __add_handler, a journal that could not be   *)
(* read.                                                                   *)
Settled(s) == Quiet(s) /\ ~stopped /\ s \notin missed \cup given_up /\ ~unread

(* Once everything the bus sent was handled, a service that failed is in   *)
(* the report.                                                             *)
FailureReported ==
    \A s \in Services : Settled(s) /\ real[s] = "failed" => s \in report

(* Once everything the bus sent was handled, a service that runs is not    *)
(* reported as failed, and neither is one that never failed.               *)
RecoveryReported ==
    \A s \in Services : Settled(s) /\ real[s] = "running" => s \notin report
=============================================================================
