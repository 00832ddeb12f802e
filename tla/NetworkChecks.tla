---------------------------- MODULE NetworkChecks ----------------------------
(***************************************************************************)
(* run_network_checks (healthagent/network.py): one evaluation of every    *)
(* configured check of the interfaces that are there, with the strikes     *)
(* that degrade a node for good.  A key is one check of one interface or   *)
(* port; what its threshold says of the value read is an input (see        *)
(* LinkWindow for the windowed checks).                                    *)
(***************************************************************************)
EXTENDS Naturals, FiniteSets

CONSTANTS
    Keys,         \* (interface, field, port) of the configured checks
    Strikes,      \* ThresholdCheck.strikes of each key
    Category,     \* its GHR category, or NoCategory
    NoCategory

Levels == {"none", "warning", "error"}

ASSUME NetworkAssumption == Strikes \in [Keys -> Nat]

Categories == {Category[k] : k \in Keys} \ {NoCategory}

VARIABLES
    in_error,       \* _in_error, FALSE where the dictionary has no key
    trigger_count,  \* _trigger_count, 0 where the dictionary has no key
    report,         \* status and ghr_category of the last report
    verdict,        \* history: the level each key had when last in a report
    looked_at       \* history: the keys that were there at the last poll

vars == <<in_error, trigger_count, report, verdict, looked_at>>

Init ==
    /\ in_error = [k \in Keys |-> FALSE]
    /\ trigger_count = [k \in Keys |-> 0]
    /\ report = [status |-> "none", ghr_category |-> NoCategory]
    /\ verdict = [k \in Keys |-> "none"]
    /\ looked_at = {}

-----------------------------------------------------------------------------
(* Permanently degraded: reported as an error without being evaluated. *)
Permanent(k) == Strikes[k] > 0 /\ trigger_count[k] >= Strikes[k]

(* An evaluation counts a strike when its key was not in error before. *)
StrikesNow(k, level) ==
    level[k] = "error" /\ Strikes[k] > 0 /\ ~in_error[k]

(* Variant: only a value that is not even a warning ends an error. *)
InErrorSticky(k, level) ==
    IF level[k] = "warning" THEN in_error[k]
    ELSE level[k] = "error" /\ Strikes[k] > 0

(* Without strikes an error leaves _in_error as it is. *)
InErrorAfter(k, level) ==
    IF level[k] # "error" THEN FALSE ELSE in_error[k] \/ Strikes[k] > 0

(* Variant: a degraded key shows what was read. *)
ShownAsRead(k, level) == level[k]

Shown(k, level) == IF Permanent(k) THEN "error" ELSE level[k]

(* HealthReport.escalate over all keys of the report. *)
Worst(levels) ==
    IF "error" \in levels THEN "error"
    ELSE IF "warning" \in levels THEN "warning" ELSE "none"

(* ghr_error is the category of the last error in the order of iteration   *)
(* (that of os.listdir), ghr_any that of the first warning.  A permanently *)
(* degraded key names none.                                                *)
GhrCategories(evaluated, level) ==
    LET named(l) == {Category[k] : k \in {e \in evaluated : level[e] = l}} \ {NoCategory}
    IN  IF named("error") # {} THEN named("error")
        ELSE IF named("warning") # {} THEN named("warning")
        ELSE {NoCategory}

(* run_network_checks, which awaits only its report.  A key whose          *)
(* interface or attribute is missing is not looked at.                     *)
Poll(present, level) ==
    LET evaluated == {k \in present : ~Permanent(k)} IN
    /\ in_error' = [k \in Keys |->
           IF k \in evaluated THEN InErrorAfter(k, level) ELSE in_error[k]]
    /\ trigger_count' = [k \in Keys |->
           IF k \in evaluated /\ StrikesNow(k, level)
           THEN trigger_count[k] + 1 ELSE trigger_count[k]]
    /\ \E g \in GhrCategories(evaluated, level) :
          report' = [status |-> Worst({Shown(k, level) : k \in present}),
                     ghr_category |-> g]
    /\ verdict' = [k \in Keys |-> IF k \in present THEN Shown(k, level) ELSE verdict[k]]
    /\ looked_at' = present

Next ==
    \E present \in SUBSET Keys, level \in [Keys -> Levels] : Poll(present, level)

Spec == Init /\ [][Next]_vars

-----------------------------------------------------------------------------
TypeOK ==
    /\ in_error \in [Keys -> BOOLEAN]
    /\ trigger_count \in [Keys -> Nat] /\ \A k \in Keys : trigger_count[k] <= Strikes[k]
    /\ report \in [status : Levels, ghr_category : Categories \cup {NoCategory}]
    /\ verdict \in [Keys -> Levels]
    /\ looked_at \subseteq Keys

(* What the documentation promises of strikes, without the dictionaries    *)
(* the code keeps: trigger_count counts the errors of a key, one for each  *)
(* episode however many polls it lasts and also when the interface         *)
(* vanishes and returns during it, and the last strike is never taken back *)
(* by what is read afterwards.                                             *)
Latch == INSTANCE DegradationLatch
    WITH Limited <- {k \in Keys : Strikes[k] > 0}, Limit <- Strikes,
         verdict <- verdict, episodes <- trigger_count

StrikesHold == Latch!Spec

(* A node that used up the strikes of a check stays in error, whatever is  *)
(* read of that and the other checks, as long as the interface of the      *)
(* check can be seen: the error is renewed by looking at it.               *)
DegradedIsPermanent ==
    (\E k \in looked_at : Permanent(k)) => report.status = "error"
=============================================================================
