----------------------------- MODULE LinkWindow -----------------------------
(***************************************************************************)
(* The sliding window of one link_downed counter: TimeSeries and the       *)
(* window_gt branch of evaluate (healthagent/util.py), as check_field uses *)
(* them (healthagent/network.py), beside the port whose counter is read.   *)
(***************************************************************************)
EXTENDS Integers, Sequences, SequencesExt, FiniteSetsExt

CONSTANTS
    Window,        \* the window of the check, in seconds
    Interval,      \* the divisor of network.py: 60 seconds between two polls
    Gaps,          \* times that really pass between two readings of the port
    Error,         \* the delta of the error level
    Warning,       \* the delta of the warning level
    MaxDowns,      \* bound on the link-down events
    MaxPolls       \* bound on the readings

ASSUME LinkWindowAssumption ==
    /\ Window \in Nat \ {0} /\ Interval \in Nat \ {0}
    /\ Gaps \subseteq {g \in Nat : g >= Interval}
    /\ Error \in Nat \ {0} /\ Warning \in Nat \ {0}
    /\ MaxDowns \in Nat /\ MaxPolls \in Nat

VARIABLES
    counter,   \* counters/link_downed of the port
    downs,     \* link-down events of the port since the start
    restarted, \* history: the counter started again since the last reading
    samples,   \* TimeSeries._samples: [value, ts], the oldest first
    level,     \* what the last evaluation returned: none, warning or error
    history    \* history: every reading: [value, ts], downs, restarted, and
               \* whether the counter file was read

linkVars == <<counter, downs, restarted, samples, level, history>>

LinkLevels == {"none", "warning", "error"}

LinkInit ==
    /\ counter = 0 /\ downs = 0 /\ restarted = FALSE
    /\ samples = <<>>
    /\ level = "none"
    /\ history = <<>>

-----------------------------------------------------------------------------
CeilDiv(a, b) == (a + b - 1) \div b

(* Variant: the sample at the far end of the window is not counted. *)
MaxLenShort == CeilDiv(Window, Interval)

MaxLen == CeilDiv(Window, Interval) + 1

(* Variant: the newest sample is the one dropped. *)
RecordKeepsOldest(s, sample) ==
    IF Len(s) < MaxLen THEN Append(s, sample) ELSE s

(* TimeSeries.record: the deque drops its oldest sample when it is full. *)
Record(s, sample) ==
    IF Len(s) < MaxLen THEN Append(s, sample) ELSE Append(Tail(s), sample)

Span(s) == IF s = <<>> THEN 0 ELSE Last(s).ts - Head(s).ts

(* Samples that do not span the window say nothing. *)
Sufficient(s) == Len(s) >= 2 /\ Span(s) >= Window

(* The sample bisect_left finds: the oldest at or after the cutoff. *)
Oldest(s) ==
    s[Min({i \in 1..Len(s) : s[i].ts >= Last(s).ts - Window})]

(* Variant: the size of a change instead of its growth. *)
DeltaUnsigned(s) ==
    LET d == Last(s).value - Oldest(s).value IN IF d < 0 THEN -d ELSE d

(* A counter that went back to 0 shows no growth, never a negative one. *)
Delta(s) == LET d == Last(s).value - Oldest(s).value IN IF d < 0 THEN 0 ELSE d

(* evaluate for the error level and, if it does not hit, the warning level. *)
Evaluate(s) ==
    IF ~Sufficient(s) THEN "none"
    ELSE IF Delta(s) >= Error THEN "error"
    ELSE IF Delta(s) >= Warning THEN "warning"
    ELSE "none"

-----------------------------------------------------------------------------
LinkDown ==
    /\ downs < MaxDowns
    /\ downs' = downs + 1 /\ counter' = counter + 1
    /\ UNCHANGED <<restarted, samples, level, history>>

(* The driver is loaded again. *)
Reset ==
    /\ counter' = 0 /\ restarted' = TRUE
    /\ UNCHANGED <<downs, samples, level, history>>

(* A counter file that cannot be read counts as 0. *)
Reading(read) == IF read THEN counter ELSE 0

(* One evaluation of the port; a port that is missing is not evaluated, so *)
(* the time to the next reading may be several intervals.                  *)
CheckField ==
    /\ Len(history) < MaxPolls
    /\ \E read \in BOOLEAN, gap \in Gaps :
          LET ts == IF history = <<>> THEN 0 ELSE Last(history).ts + gap
          IN  /\ samples' = Record(samples, [value |-> Reading(read), ts |-> ts])
              /\ history' = Append(history,
                     [value |-> Reading(read), ts |-> ts, read |-> read,
                      downs |-> downs, restarted |-> restarted])
    /\ level' = Evaluate(samples')
    /\ restarted' = FALSE
    /\ UNCHANGED <<counter, downs>>

LinkNext == LinkDown \/ Reset \/ CheckField

LinkSpec == LinkInit /\ [][LinkNext]_linkVars

-----------------------------------------------------------------------------
LinkTypeOK ==
    /\ counter \in 0..MaxDowns /\ downs \in 0..MaxDowns /\ restarted \in BOOLEAN
    /\ samples \in Seq([value : 0..MaxDowns, ts : Nat]) /\ Len(samples) <= MaxLen
    /\ level \in LinkLevels
    /\ history \in Seq([value : 0..MaxDowns, ts : Nat, read : BOOLEAN,
                       downs : 0..MaxDowns, restarted : BOOLEAN])

(* A deque of ceil(window / 60) + 1 samples decides as every sample since  *)
(* the start would: what it dropped is never missed, neither for the delta *)
(* nor for the span the window needs, whatever time passes between polls.  *)
RingIsEnough == history # <<>> => level = Evaluate(history)

(* Link-down events between the oldest reading in the window and the last. *)
Flaps == Last(history).downs - Oldest(history).downs

(* The counter started again after the oldest reading in the window. *)
RestartedInWindow ==
    \E i \in 1..Len(history) : history[i].ts > Oldest(history).ts /\ history[i].restarted

(* An error means what the documentation says of it: the link really went  *)
(* down that often within the window, and the window was fully observed,   *)
(* although the counter may have started again and readings inside the     *)
(* window may have failed.  Only a failed reading that has become the      *)
(* oldest in the window takes the count of a lifetime for its growth.      *)
ErrorMeansFlapping ==
    level = "error" =>
        /\ Span(history) >= Window
        /\ Oldest(history).read => Flaps >= Error

(* Flaps between two readings of a fully observed window are not missed,   *)
(* unless the counter started again within it or the last reading failed.  *)
FlappingIsError ==
    /\ history # <<>> /\ Span(history) >= Window /\ Flaps >= Error
    /\ Last(history).read /\ ~RestartedInWindow
    => level = "error"
=============================================================================
