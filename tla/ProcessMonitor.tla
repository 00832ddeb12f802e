--------------------------- MODULE ProcessMonitor ---------------------------
(***************************************************************************)
(* The process module (healthagent/process.py): a pass over /proc beside   *)
(* the processes it looks at, which go on while it reads them one by one.  *)
(* The module is created from a section of the configuration (Config) that *)
(* it then never reads: its thresholds are constants of the class.  The    *)
(* pass of the epilog is this one, and no two passes overlap: the event    *)
(* loop runs nothing else until the report is stored.                      *)
(***************************************************************************)
EXTENDS Config, Naturals, FiniteSets, FiniteSetsExt

CONSTANTS
    Pids,                \* what processes may use
    pid_max, cpu_count,  \* of the node when the module was created
    ZOMBIE_PER_CORE, PID_MAX_WARN_PCT, PID_SATURATION_PCT

ASSUME ProcessAssumption ==
    /\ IsFiniteSet(Pids)
    /\ pid_max \in Nat \ {0} /\ cpu_count \in Nat \ {0}
    /\ {ZOMBIE_PER_CORE, PID_MAX_WARN_PCT, PID_SATURATION_PCT} \subseteq Nat

VARIABLES
    proc,        \* "none", "alive", "disk" (state D), "stuck" (D with SIGKILL or
                 \* SIGTERM pending) or "zombie"
    todo,        \* listed and not read yet, in a pass
    passing,     \* a pass is running
    zombieproc, hungprocs,
    status,      \* of the report: "OK", "Warning" or "Error"
    ever,        \* history: what each process has been since the pass began
    bounds       \* history: the least and the worst status that the processes
                 \* of the last pass can be given

procVars == <<proc, ever>>
passVars == <<todo, passing, zombieproc, hungprocs, status, bounds>>
monitorVars == <<configVars, procVars, passVars>>

zombie_warn_threshold == Min({cpu_count * ZOMBIE_PER_CORE, (pid_max * PID_MAX_WARN_PCT) \div 100})

(* The status of a report on these processes. *)
Verdict(zombies, hung) ==
    IF hung # {} \/ Cardinality(zombies) * 100 >= PID_SATURATION_PCT * pid_max THEN "Error"
    ELSE IF Cardinality(zombies) >= zombie_warn_threshold THEN "Warning" ELSE "OK"

AtMost(a, b) == a = b \/ a = "OK" \/ b = "Error"

ProcessInit ==
    /\ ConfigInit
    /\ proc = [p \in Pids |-> "none"]
    /\ todo = {} /\ passing = FALSE /\ zombieproc = {} /\ hungprocs = {}
    /\ status = "OK"
    /\ ever = [p \in Pids |-> {}] /\ bounds = <<"OK", "OK">>

-----------------------------------------------------------------------------
(* What a process may become: it starts, waits for a device, has a signal  *)
(* pending there or takes one there that it blocks, goes on, and ends as a *)
(* zombie or reaped at once, when its number may be used again.            *)
After == [none |-> {"alive"}, alive |-> {"disk", "stuck", "zombie", "none"},
          disk |-> {"alive", "stuck"}, stuck |-> {"alive", "disk", "zombie", "none"},
          zombie |-> {"none"}]

Change(p) ==
    /\ phase = "running"
    /\ \E next \in After[proc[p]] :
           /\ proc' = [proc EXCEPT ![p] = next]
           /\ ever' = IF passing THEN [ever EXCEPT ![p] = @ \cup {next}] ELSE ever
    /\ UNCHANGED <<configVars, passVars>>

(* Variant: the lists are attributes of the module. *)
BeginPassKeeps ==
    /\ phase = "running" /\ ~passing
    /\ passing' = TRUE
    /\ todo' = {p \in Pids : proc[p] # "none"}
    /\ ever' = [p \in Pids |-> {proc[p]}]
    /\ UNCHANGED <<configVars, proc, zombieproc, hungprocs, status, bounds>>

BeginPass ==
    /\ phase = "running" /\ ~passing
    /\ passing' = TRUE
    /\ todo' = {p \in Pids : proc[p] # "none"}
    /\ zombieproc' = {} /\ hungprocs' = {}
    /\ ever' = [p \in Pids |-> {proc[p]}]
    /\ UNCHANGED <<configVars, proc, status, bounds>>

(* Variant: what cannot be read ends the pass. *)
ReadStatusOrEnd(p) ==
    /\ p \in todo
    /\ todo' = IF proc[p] = "none" THEN {} ELSE todo \ {p}
    /\ passing' = (proc[p] # "none")
    /\ zombieproc' = IF proc[p] = "zombie" THEN zombieproc \cup {p} ELSE zombieproc
    /\ hungprocs' = IF proc[p] = "stuck" THEN hungprocs \cup {p} ELSE hungprocs
    /\ UNCHANGED <<configVars, procVars, status, bounds>>

(* A process that ended after the listing cannot be read and is skipped. *)
ReadStatus(p) ==
    /\ p \in todo
    /\ todo' = todo \ {p}
    /\ zombieproc' = IF proc[p] = "zombie" THEN zombieproc \cup {p} ELSE zombieproc
    /\ hungprocs' = IF proc[p] = "stuck" THEN hungprocs \cup {p} ELSE hungprocs
    /\ UNCHANGED <<configVars, procVars, passing, status, bounds>>

All(state) == {p \in Pids : ever[p] = {state}}
Some(state) == {p \in Pids : state \in ever[p]}

EndPass ==
    /\ passing /\ todo = {}
    /\ passing' = FALSE
    /\ status' = Verdict(zombieproc, hungprocs)
    /\ bounds' = <<Verdict(All("zombie"), All("stuck")), Verdict(Some("zombie"), Some("stuck"))>>
    /\ ever' = [p \in Pids |-> {}]
    /\ UNCHANGED <<configVars, proc, todo, zombieproc, hungprocs>>

ProcessNext ==
    \/ ConfigNext /\ UNCHANGED <<procVars, passVars>>
    \/ \E p \in Pids : Change(p) \/ ReadStatus(p)
    \/ BeginPass \/ EndPass

(* The scheduler runs the pass again and again, and it ends. *)
ProcessSpec ==
    /\ ProcessInit /\ [][ProcessNext]_monitorVars
    /\ WF_monitorVars(BeginPass) /\ WF_monitorVars(\E p \in Pids : ReadStatus(p)) /\ WF_monitorVars(EndPass)

-----------------------------------------------------------------------------
(* A report is no better than the processes that did not change during its *)
(* pass, and no worse than all that were zombies or stuck at any time of   *)
(* it; the number of zombies it gives may never have existed at once.      *)
ReportBounded == AtMost(bounds[1], status) /\ AtMost(status, bounds[2])

(* A process that stays stuck is reported in the end, whatever starts and  *)
(* ends around it.                                                         *)
StuckIsReported ==
    \A p \in Pids : proc[p] = "stuck" ~> status = "Error" \/ proc[p] # "stuck"
=============================================================================
