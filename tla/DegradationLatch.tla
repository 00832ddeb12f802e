-------------------------- MODULE DegradationLatch --------------------------
(***************************************************************************)
(* What strikes promise of a check, stated without how they are counted:   *)
(* a check may recover from an error fewer times than its limit, and an    *)
(* error that reaches the limit is never taken back.                       *)
(***************************************************************************)
EXTENDS Naturals

CONSTANTS
    Limited,   \* checks with a limit on their errors
    Limit      \* how many each may have

VARIABLES
    verdict,   \* what each check says
    episodes   \* how often it went into error

Init == \A k \in Limited : verdict[k] # "error" /\ episodes[k] = 0

(* An error began, another one than the last. *)
Begins(k) ==
    /\ verdict[k] # "error" /\ verdict'[k] = "error"
    /\ episodes[k] < Limit[k]
    /\ episodes'[k] = episodes[k] + 1

(* An error goes on, or ends while it is not the last the limit allows. *)
Stays(k) ==
    /\ verdict[k] = "error" /\ verdict'[k] = "error"
    /\ episodes'[k] = episodes[k]

Recovers(k) ==
    /\ verdict'[k] # "error"
    /\ verdict[k] = "error" => episodes[k] < Limit[k]
    /\ episodes'[k] = episodes[k]

Next == \A k \in Limited : Begins(k) \/ Stays(k) \/ Recovers(k)

Spec == Init /\ [][Next]_<<verdict, episodes>>
=============================================================================
