------------------------------ MODULE GpuMonitor ------------------------------
(***************************************************************************)
(* The periodic checks of healthagent/gpu.py: run_background_healthchecks  *)
(* with track_fieldsv2, gpu_count_check, and the connection to DCGM that   *)
(* setup() makes and makes again.  The values DCGM reads are abstracted to *)
(* what a check says of them; the file of the XIDs is the subject of       *)
(* XidHistory.                                                             *)
(***************************************************************************)
EXTENDS Naturals, FiniteSets

CONSTANTS
    Incidents,     \* error codes of DCGM's own health watches
    Fields,        \* the configured field watches
    Xids,          \* XIDs of a GPU
    Level,         \* of a triggered incident or field: its severity
    xid_warning, xid_ignore, xid_error,   \* the XidConfig
    Category,      \* the GHR category of a cause, or NoCategory
    NoCategory,
    MaxLosses,     \* bound on the lost connections
    Apart          \* bound: GPUs are lost only while nothing else is wrong

Sources == {"os", "pci", "nvml"}

Causes == Incidents \cup Fields \cup Xids

ASSUME GpuMonitorAssumption ==
    /\ Level \in [Incidents \cup Fields -> {"error", "warning", "ignore"}]
    /\ \A c \in Causes : c \in DOMAIN Category
    /\ MaxLosses \in Nat /\ Apart \in BOOLEAN

VARIABLES
    dcgmGroup,    \* "None", "lost" (DCGM does not know it any more), "valid"
    watched,      \* what setup() set up on the connection: fields, health
    bad,          \* incidents and fields that are wrong with the GPUs now
    samples,      \* XIDs in the samples DCGM has for this connection
    xid_history,  \* XIDs the module knows
    report,       \* the report GpuHealthCheck: what it names, ghr_category
    raised,       \* history: track_fieldsv2 raised in the last check
    losses,
    missing,      \* the sources that count one GPU less now
    nvml_count,   \* DEVCNT in _field_collection: "all", "fewer" or "blank"
    mismatch      \* the report GpuCountCheck is an error

counts == <<missing, nvml_count, mismatch>>
vars == <<dcgmGroup, watched, bad, samples, xid_history, report, raised, losses, counts>>

Init ==
    /\ dcgmGroup = "valid" /\ watched = {"fields", "health"}
    /\ bad = {} /\ samples = {}
    /\ xid_history = {}
    /\ report = [causes |-> {}, ghr_category |-> NoCategory]
    /\ raised = FALSE /\ losses = 0
    /\ missing = {} /\ nvml_count \in {"all", "blank"} /\ mismatch = FALSE

-----------------------------------------------------------------------------
(* An XID is a warning when it is listed as one, or when errors are listed *)
(* and it is not.                                                          *)
XidLevel(x) ==
    IF x \in xid_ignore THEN "ignore"
    ELSE IF x \in xid_warning \/ (xid_error # {} /\ x \notin xid_error) THEN "warning"
    ELSE "error"

LevelOf(c) == IF c \in Xids THEN XidLevel(c) ELSE Level[c]

At(level, causes) == {c \in causes : LevelOf(c) = level}
Told(causes) == At("error", causes) \cup At("warning", causes)

Named(causes) == {Category[c] : c \in causes} \ {NoCategory}

(* Incidents come before XIDs and XIDs before fields; which of several of  *)
(* a kind is named depends on the order DCGM lists them in.                *)
FirstNamed(incidents, xids, fields) ==
    IF Named(incidents) # {} THEN Named(incidents)
    ELSE IF Named(xids) # {} THEN Named(xids) ELSE Named(fields)

(* Variant: ghr_any or ghr_error. *)
GhrCategoriesAnyFirst(incidents, xids, fields) ==
    LET ghr_any == FirstNamed(incidents, Told(xids), At("warning", fields))
    IN  IF ghr_any # {} THEN ghr_any ELSE {NoCategory}

(* ghr_error or ghr_any: ghr_any is of an incident of whatever level, of   *)
(* an XID that is not ignored, or of a field that is a warning.            *)
GhrCategories(incidents, xids, fields) ==
    LET ghr_error == FirstNamed(At("error", incidents), At("error", xids), At("error", fields))
        ghr_any == FirstNamed(incidents, Told(xids), At("warning", fields))
    IN  IF ghr_error # {} THEN ghr_error
        ELSE IF ghr_any # {} THEN ghr_any ELSE {NoCategory}

(* What health.Check returns. *)
Raised == IF "health" \in watched THEN bad \cap Incidents ELSE {}

(* Variant: only XIDs that are new are reported. *)
KnownOnlyNew == xid_history' \ xid_history

(* The report populates from the whole history. *)
Known == xid_history'

Counts(source) == IF source \in missing THEN "fewer" ELSE "all"

(* Variant: the first sample counts, not the newest. *)
CollectedFirst ==
    {IF nvml_count = "blank" THEN Counts("nvml") ELSE nvml_count} \cup ({nvml_count} \cap {"blank"})

(* The newest sample; there is none yet in the second after WatchFields. *)
Collected == {Counts("nvml")} \cup ({nvml_count} \cap {"blank"})

(* Variant: a check that finds nothing returns before it reports. *)
CheckSilent ==
    /\ dcgmGroup = "valid" /\ "fields" \in watched
    /\ xid_history' = xid_history \cup samples
    /\ IF Told(Raised \cup Known \cup (bad \cap Fields)) = {} THEN UNCHANGED report
       ELSE \E g \in GhrCategories(Raised, xid_history', bad \cap Fields) :
               report' = [causes |-> Told(Raised \cup Known \cup (bad \cap Fields)),
                          ghr_category |-> g]
    /\ nvml_count' \in Collected
    /\ raised' = FALSE
    /\ UNCHANGED <<dcgmGroup, watched, bad, samples, losses, missing, mismatch>>

(* run_background_healthchecks on a connection: the health check, every    *)
(* field and the XIDs among its samples, then the report.                  *)
Check ==
    /\ dcgmGroup = "valid" /\ "fields" \in watched
    /\ xid_history' = xid_history \cup samples
    /\ \E g \in GhrCategories(Raised, xid_history', bad \cap Fields) :
          report' = [causes |-> Told(Raised \cup Known \cup (bad \cap Fields)),
                     ghr_category |-> g]
    /\ nvml_count' \in Collected
    /\ raised' = FALSE
    /\ UNCHANGED <<dcgmGroup, watched, bad, samples, losses, missing, mismatch>>

(* track_fieldsv2 catches what goes wrong while it reads (DCGM has no such *)
(* field group, a threshold or a message of the configuration does not fit *)
(* the value) and returns what it had by then, which is before the history *)
(* is looked at; the check goes on with it.                                *)
TrackRaises ==
    /\ dcgmGroup = "valid"
    /\ \E fields \in SUBSET (bad \cap Fields), xids \in SUBSET samples :
          /\ "fields" \in watched \/ (fields = {} /\ xids = {})
          /\ xid_history' = xid_history \cup xids
          /\ \E g \in GhrCategories(Raised, xid_history', fields) :
                report' = [causes |-> Told(Raised \cup fields), ghr_category |-> g]
          /\ \/ nvml_count' \in Collected /\ "fields" \in watched
             \/ UNCHANGED nvml_count /\ fields = {} /\ xids = {}
    /\ raised' = TRUE
    /\ UNCHANGED <<dcgmGroup, watched, bad, samples, losses, missing, mismatch>>

(* gpu_count_check reads two of the three counts now; the third is from    *)
(* the last collection, of this or of an earlier connection.               *)
GpuCountCheck ==
    /\ mismatch' = (Cardinality({Counts("os"), Counts("pci"), nvml_count} \ {"blank"}) > 1)
    /\ UNCHANGED <<dcgmGroup, watched, bad, samples, xid_history, report, raised, losses,
                   missing, nvml_count>>

-----------------------------------------------------------------------------
(* Variant: only an error of DCGM makes the module connect again. *)
DisconnectedIfLost == dcgmGroup = "lost"

(* health.Check says DCGM_ST_CONNECTION_NOT_VALID, or there is no group:   *)
(* both end as DcgmInvalidHandle.                                          *)
Disconnected == dcgmGroup \in {"lost", "None"}

(* setup() first forgets the group and reads the file of the XIDs, which   *)
(* may miss some the module knew (see XidHistory).  The samples collected  *)
(* so far are kept until its last statement.                               *)
Setup ==
    /\ Disconnected
    /\ xid_history' \in SUBSET xid_history
    /\ UNCHANGED <<bad, report, raised, losses, missing, mismatch>>

(* Wrap.connect fails; the next check tries again. *)
ReconnectFails ==
    /\ Setup
    /\ dcgmGroup' = "None" /\ watched' = {} /\ samples' = {}
    /\ UNCHANGED nvml_count

Reconnect ==
    /\ Setup
    /\ dcgmGroup' = "valid" /\ watched' = {"fields", "health"} /\ samples' = {}
    /\ nvml_count' \in {Counts("nvml"), "blank"}

(* policy.Set, WatchFields or health.Set raises a DCGMError, which nothing *)
(* in the check catches.  The group was assigned before.                   *)
ReconnectPartly ==
    /\ Setup
    /\ dcgmGroup' = "valid" /\ watched' \in {{}, {"fields"}} /\ samples' = {}
    /\ UNCHANGED nvml_count

-----------------------------------------------------------------------------
AllCounted == missing = {} /\ nvml_count = "all" /\ ~mismatch
NothingElse == bad = {} /\ samples = {} /\ xid_history = {}

(* Something of a GPU breaks or recovers. *)
Changes(c) ==
    /\ Apart => AllCounted
    /\ bad' = IF c \in bad THEN bad \ {c} ELSE bad \cup {c}
    /\ UNCHANGED <<dcgmGroup, watched, samples, xid_history, report, raised, losses, counts>>

XidOccurs(x) ==
    /\ dcgmGroup = "valid" /\ "fields" \in watched
    /\ Apart => AllCounted
    /\ samples' = samples \cup {x}
    /\ UNCHANGED <<dcgmGroup, watched, bad, xid_history, report, raised, losses, counts>>

(* DCGM also calls back for an XID, from a policy that setup() sets first. *)
HandlePolicyViolation(x) ==
    /\ dcgmGroup = "valid"
    /\ Apart => AllCounted
    /\ xid_history' = xid_history \cup {x}
    /\ UNCHANGED <<dcgmGroup, watched, bad, samples, report, raised, losses, counts>>

(* The device files, the PCI bus and NVML lose or regain a GPU, one by one *)
(* or together.                                                            *)
CountChanges ==
    /\ Apart => NothingElse
    /\ missing' \in SUBSET Sources \ {missing}
    /\ UNCHANGED <<dcgmGroup, watched, bad, samples, xid_history, report, raised, losses,
                   nvml_count, mismatch>>

LoseConnection ==
    /\ dcgmGroup = "valid" /\ losses < MaxLosses
    /\ dcgmGroup' = "lost" /\ watched' = {} /\ samples' = {}
    /\ losses' = losses + 1
    /\ UNCHANGED <<bad, xid_history, report, raised, counts>>

Next ==
    \/ Check \/ TrackRaises \/ GpuCountCheck
    \/ Reconnect \/ ReconnectFails \/ ReconnectPartly
    \/ LoseConnection \/ CountChanges
    \/ \E c \in Incidents \cup Fields : Changes(c)
    \/ \E x \in Xids : XidOccurs(x) \/ HandlePolicyViolation(x)

Spec == Init /\ [][Next]_vars

(* The periodic tasks run every minute, DCGM samples every second and is   *)
(* not gone for ever.                                                      *)
FairSpec ==
    /\ Spec
    /\ WF_vars(GpuCountCheck)
    /\ WF_vars(Check /\ nvml_count' # "blank") /\ WF_vars(TrackRaises /\ watched = {})
    /\ SF_vars(Reconnect)

-----------------------------------------------------------------------------
TypeOK ==
    /\ dcgmGroup \in {"None", "lost", "valid"}
    /\ watched \subseteq {"fields", "health"}
    /\ dcgmGroup # "valid" => watched = {} /\ samples = {}
    /\ bad \subseteq Incidents \cup Fields
    /\ samples \subseteq Xids /\ xid_history \subseteq Xids
    /\ report.causes \subseteq Causes
    /\ report.ghr_category \in Named(Causes) \cup {NoCategory}
    /\ raised \in BOOLEAN /\ losses \in 0..MaxLosses
    /\ missing \subseteq Sources /\ nvml_count \in {"all", "fewer", "blank"}
    /\ mismatch \in BOOLEAN

(* The last setup() succeeded: everything is watched. *)
FullySetUp == dcgmGroup = "valid" => watched = {"fields", "health"}

(* What went wrong and stays so is reported in the end and goes on being   *)
(* reported, although the connection to DCGM was lost in between, unless   *)
(* the module is stuck with a setup() that failed half way or with checks  *)
(* that raise.                                                             *)
FaultReported ==
    \A c \in Told(Incidents \cup Fields) :
        <>[](c \in bad /\ FullySetUp /\ ~raised) => <>[](c \in report.causes)

(* GPUs that recovered and have no XID are reported healthy in the end,    *)
(* whatever failed on the way.                                             *)
RecoveryReported ==
    <>[](bad = {} /\ samples = {} /\ xid_history = {}) => <>[](report.causes = {})

(* Whether the device files, the PCI bus and NVML count the same GPUs is   *)
(* what GpuCountCheck says in the end: the count of a connection that was  *)
(* lost does not stay, nor is a GPU that only NVML misses overlooked.      *)
MismatchReported ==
    \A m \in SUBSET Sources :
        <>[](missing = m /\ FullySetUp /\ ~raised)
            => <>[](mismatch <=> m \notin {{}, Sources})

(* An XID that was reported stays in the report while the module knows it, *)
(* whatever the other checks of the GPU say; only a check that raised may  *)
(* leave it out.                                                           *)
XidStaysReported ==
    [][\A x \in xid_history \cap xid_history' :
          x \in report.causes => x \in report'.causes \/ raised']_vars

(* A report of an error that has a GHR category names the category of one  *)
(* of its errors, not that of a warning beside them.                       *)
ErrorIsNamed ==
    LET errors == At("error", report.causes)
    IN  Named(errors) # {} /\ ~raised => report.ghr_category \in Named(errors)
=============================================================================
