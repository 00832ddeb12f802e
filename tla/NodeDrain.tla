----------------------------- MODULE NodeDrain ------------------------------
(***************************************************************************)
(* The node as Slurm sees it: HealthCheckProgram (etc/health.sh.example)   *)
(* asks the agent for its status with health -b (healthagent/client.py),   *)
(* reads the state of the node and drains or resumes it, while checks run, *)
(* the agent dies, hangs and is restarted (healthagent/healthagent.py and  *)
(* the service of setup-healthagent.sh), and an operator drains and        *)
(* resumes nodes too.  A check is a report of the agent; of its result     *)
(* only "error or not" matters here.                                       *)
(***************************************************************************)
EXTENDS Naturals

CONSTANTS
    Modules,      \* modules whose errors the script looks at ...
    Network,      \* ... of which the line of this one comes last in the sum
    Checks,       \* checks of these modules
    ModuleOf,     \* the module of each check
    Background,   \* checks that run every minute; others run on request
    MaxTroubles   \* bound: deaths and hangs of the agent

ASSUME DrainAssumption ==
    /\ Network \in Modules
    /\ ModuleOf \in [Checks -> Modules]
    /\ Background \subseteq Checks
    /\ MaxTroubles \in Nat

VARIABLES
    faults,    \* background checks that would find an error now
    errors,    \* checks whose report in the agent is an error
    due,       \* background checks this process has not run yet
    blind,     \* background checks all of whose runs in this process raised
    loaded,    \* modules that this process could initialize
    agent,     \* "down", "starting", "up" or "hung"
    script,    \* where the script is, and what it was told and read
    node,      \* "ok", or drained for "health" or for an "other" reason
    known,     \* history: faults still there since a run of the check saw them
    stood,     \* history: of those, the agent told "none" when it answered,
               \* "some", or some the script could not count ("garbled")
    held,      \* history: an operator drained the node and nobody resumed it
    overtaken, \* history: the script acts on what it read before the operator
               \* acted, or could not read
    troubles   \* history: deaths and hangs so far

agentVars == <<errors, due, blind, loaded, agent, troubles>>
slurmVars == <<node, held, overtaken>>
vars == <<faults, agentVars, script, slurmVars, known, stood>>

Idle == [at |-> "idle", errors |-> FALSE, state |-> "unknown"]

Init ==
    /\ faults = {} /\ errors = {} /\ due = {} /\ blind = {} /\ loaded = {}
    /\ agent = "down"
    /\ script = Idle
    /\ node = "ok"
    /\ known = {} /\ stood = "none" /\ held = FALSE /\ overtaken = FALSE
    /\ troubles = 0

-----------------------------------------------------------------------------
(* The node. *)
Breaks(c) ==
    /\ c \notin faults
    /\ faults' = faults \cup {c}
    /\ UNCHANGED <<agentVars, script, slurmVars, known, stood>>

Recovers(c) ==
    /\ c \in faults
    /\ faults' = faults \ {c}
    /\ known' = known \ {c}
    /\ UNCHANGED <<agentVars, script, slurmVars, stood>>

-----------------------------------------------------------------------------
(* The agent.                                                              *)
(* systemd starts the process again whenever it ends.  A module that is    *)
(* disabled, cannot be imported or fails to initialize is not registered;  *)
(* one that is clears the errors it inherited and adds its periodic tasks. *)
(* Left out is a configuration that cannot be loaded: it ends every        *)
(* process at once, until systemd gives up or the file is changed.         *)
Start ==
    /\ agent = "down"
    /\ agent' = "starting"
    /\ loaded' \in SUBSET Modules
    /\ errors' = {} /\ blind' = {}
    /\ due' = {c \in Background : ModuleOf[c] \in loaded'}
    /\ UNCHANGED <<faults, script, slurmVars, known, stood, troubles>>

(* Variant: the server listens before the modules' tasks have run. *)
ServeAtOnce ==
    /\ agent = "starting"
    /\ agent' = "up"
    /\ UNCHANGED <<faults, errors, due, blind, loaded, troubles, script, slurmVars, known, stood>>

(* run_unix_server comes after the tasks were added, and yields to them    *)
(* before it can accept a connection: each has run once.                   *)
Serve ==
    /\ due = {}
    /\ ServeAtOnce

(* Variant: a run that finds nothing does not write its report. *)
CheckSticky(c) ==
    /\ agent \in {"starting", "up"} /\ ModuleOf[c] \in loaded
    /\ errors' = IF c \in faults THEN errors \cup {c} ELSE errors
    /\ known' = IF c \in faults THEN known \cup {c} ELSE known
    /\ due' = due \ {c} /\ blind' = blind \ {c}
    /\ UNCHANGED <<faults, loaded, agent, troubles, script, slurmVars, stood>>

(* A run of a background check, to its update_report. *)
Check(c) ==
    /\ agent \in {"starting", "up"} /\ ModuleOf[c] \in loaded
    /\ errors' = IF c \in faults THEN errors \cup {c} ELSE errors \ {c}
    /\ known' = IF c \in faults THEN known \cup {c} ELSE known
    /\ due' = due \ {c} /\ blind' = blind \ {c}
    /\ UNCHANGED <<faults, loaded, agent, troubles, script, slurmVars, stood>>

(* An active check runs in the handler of a request; it tests what no      *)
(* background check looks at.                                              *)
ActiveCheck(c) ==
    /\ agent = "up" /\ ModuleOf[c] \in loaded
    /\ errors' \in {errors \cup {c}, errors \ {c}}
    /\ UNCHANGED <<faults, due, blind, loaded, agent, troubles, script, slurmVars, known, stood>>

(* A run that ends without a report: DCGM returned an error, its           *)
(* connection was lost, or something raised.                               *)
CheckRaises(c) ==
    /\ agent \in {"starting", "up"} /\ ModuleOf[c] \in loaded
    /\ due' = due \ {c}
    /\ blind' = IF c \in due THEN blind \cup {c} ELSE blind
    /\ UNCHANGED <<faults, errors, loaded, agent, troubles, script, slurmVars, known, stood>>

(* An orderly stop, a crash or a kill. *)
Dies ==
    /\ agent # "down" /\ troubles < MaxTroubles
    /\ agent' = "down"
    /\ troubles' = troubles + 1
    /\ UNCHANGED <<faults, errors, due, blind, loaded, script, slurmVars, known, stood>>

(* A call to DCGM blocks the event loop, and perhaps comes back. *)
Hangs ==
    /\ agent \in {"starting", "up"} /\ troubles < MaxTroubles
    /\ agent' = "hung"
    /\ troubles' = troubles + 1
    /\ UNCHANGED <<faults, errors, due, blind, loaded, script, slurmVars, known, stood>>

Unblocks ==
    /\ agent = "hung"
    /\ agent' = IF due = {} THEN "up" ELSE "starting"
    /\ UNCHANGED <<faults, errors, due, blind, loaded, troubles, script, slurmVars, known, stood>>

(* reset_systemd_watchdog is a task of the loop: while that hangs, systemd *)
(* hears nothing and kills the process.                                    *)
Watchdog ==
    /\ agent = "hung"
    /\ agent' = "down"
    /\ UNCHANGED <<faults, errors, due, blind, loaded, troubles, script, slurmVars, known, stood>>

-----------------------------------------------------------------------------
(* The script.                                                             *)
(* What no step of the script changes. *)
notScript == <<faults, agentVars, known>>

(* Variant: only the line of one module is read. *)
CountedFirst == {c \in errors : ModuleOf[c] # Network}

(* The errors of the two modules are added.  Without a line of Network the *)
(* sum is no expression, which leaves the number empty, and that compares  *)
(* as 0; without the other line the sum is Network's number.               *)
Counted == IF Network \in loaded THEN errors ELSE {}

(* Of the known faults, what the agent tells and the script counts. *)
Stood ==
    IF \E c \in known : ModuleOf[c] \in loaded /\ c \notin blind
    THEN IF Network \in loaded THEN "some" ELSE "garbled"
    ELSE "none"

(* health -b is answered at once by the handler of the connection.  When   *)
(* it is refused, gives up after 30 seconds or loses its connection, the   *)
(* script exits and nothing happens.  Slurm starts one script at a time.   *)
Ask ==
    /\ script.at = "idle"
    /\ agent = "up"
    /\ script' = [Idle EXCEPT !.at = "answered", !.errors = Counted # {}]
    /\ stood' = Stood
    /\ UNCHANGED <<notScript, slurmVars>>

(* sinfo prints the state and the reason. *)
ReadNode ==
    /\ script.at = "answered"
    /\ script' = [script EXCEPT !.at = "read", !.state = node]
    /\ UNCHANGED <<notScript, slurmVars, stood>>

(* A failing sinfo prints nothing: a state that is not drained. *)
SinfoFails ==
    /\ script.at = "answered"
    /\ script' = [script EXCEPT !.at = "read"]
    /\ overtaken' = (overtaken \/ held)
    /\ UNCHANGED <<notScript, node, held, stood>>

ScriptEnds ==
    /\ script' = Idle /\ stood' = "none"
    /\ overtaken' = (overtaken /\ node' # "other")
    /\ UNCHANGED <<notScript, held>>

Drain ==
    /\ script.at = "read"
    /\ script.state \in {"ok", "unknown"} /\ script.errors
    /\ node' = "health"
    /\ ScriptEnds

(* Variant: the reason is not looked at. *)
ResumeAny ==
    /\ script.at = "read"
    /\ script.state \in {"health", "other"} /\ ~script.errors
    /\ node' = "ok"
    /\ ScriptEnds

(* The reason is one this script gives. *)
Resume ==
    /\ script.at = "read"
    /\ script.state = "health" /\ ~script.errors
    /\ node' = "ok"
    /\ ScriptEnds

(* Neither applies, scontrol fails, or Slurm kills a script that takes too *)
(* long.                                                                   *)
NoAction ==
    /\ script.at # "idle"
    /\ node' = node
    /\ ScriptEnds

-----------------------------------------------------------------------------
(* The operator, also of a node that the script drained. *)
OperatorDrains ==
    /\ node # "other"
    /\ node' = "other" /\ held' = TRUE
    /\ overtaken' = (script.at = "read")
    /\ UNCHANGED <<notScript, script, stood>>

OperatorResumes ==
    /\ node # "ok"
    /\ node' = "ok" /\ held' = FALSE /\ overtaken' = FALSE
    /\ UNCHANGED <<notScript, script, stood>>

-----------------------------------------------------------------------------
Next ==
    \/ \E c \in Background : Breaks(c) \/ Recovers(c) \/ Check(c) \/ CheckRaises(c)
    \/ \E c \in Checks \ Background : ActiveCheck(c)
    \/ Start \/ Serve \/ Dies \/ Hangs \/ Unblocks \/ Watchdog
    \/ Ask \/ ReadNode \/ SinfoFails
    \/ Drain \/ Resume \/ NoAction
    \/ OperatorDrains \/ OperatorResumes

(* systemd restarts and kills, the scheduler runs the background checks,   *)
(* and they do not raise for ever; Slurm starts the script again and       *)
(* again, and not every one of its commands fails.                         *)
Fairness ==
    /\ WF_vars(Start \/ Serve \/ Watchdog)
    /\ \A c \in Background : SF_vars(Check(c))
    /\ SF_vars(Ask) /\ SF_vars(ReadNode) /\ SF_vars(Drain \/ Resume) /\ WF_vars(NoAction)

Spec == Init /\ [][Next]_vars /\ Fairness

-----------------------------------------------------------------------------
TypeOK ==
    /\ faults \subseteq Background /\ errors \subseteq Checks
    /\ due \subseteq Background /\ blind \subseteq Background
    /\ known \subseteq faults
    /\ loaded \subseteq Modules
    /\ agent \in {"down", "starting", "up", "hung"}
    /\ script \in [at : {"idle", "answered", "read"}, errors : BOOLEAN,
                   state : {"ok", "health", "other", "unknown"}]
    /\ node \in {"ok", "health", "other"}
    /\ stood \in {"none", "some", "garbled"} /\ held \in BOOLEAN /\ overtaken \in BOOLEAN
    /\ troubles \in 0..MaxTroubles

(* An operator's drain and its reason stay until the operator resumes the  *)
(* node, whatever the agent tells and however often it starts again,       *)
(* unless the operator was faster than a script that had already read the  *)
(* state, or the script could not read it.                                 *)
OperatorsDrainStands == held /\ ~overtaken => node = "other"

ScriptResumes ==
    script.at = "read" /\ script' # script /\ node = "health" /\ node' = "ok"

(* The script resumes no node on which a background check has found an     *)
(* error that is still there and that the script can count: not in the     *)
(* time between the start of an agent and its first checks, not because it *)
(* got no answer, and not because the node looked well for one poll.       *)
NotResumedWhileBroken == [][ScriptResumes => stood # "some"]_vars

(* "If the node reason field contains "healthcheck failures" and the node  *)
(* reports healthy status again, it will be resumed": never a node whose   *)
(* agent just told it of an error.                                         *)
HealthyWhenResumed == [][ScriptResumes => stood = "none"]_vars

(* Whatever a background check would find drains the node in the end, also *)
(* when the agent hangs or dies, unless the check's module is missing or   *)
(* the script cannot count.                                                *)
FaultDrains ==
    \A c \in Background :
        c \in faults ~> \/ node # "ok" \/ c \notin faults
                       \/ (agent = "up" /\ ~({ModuleOf[c], Network} \subseteq loaded))

(* A node drained for its health is resumed once it is well, unless an     *)
(* active check found an error: nothing runs that check again.             *)
RecoveryResumes ==
    node = "health" /\ faults = {} ~> node # "health" \/ faults # {} \/ errors \ Background # {}
=============================================================================
