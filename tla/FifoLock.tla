------------------------------ MODULE FifoLock ------------------------------
(***************************************************************************)
(* What the scheduler's _pool_lock promises the diagnostics, stated        *)
(* without saying how it is held or handed on: those that want the GPU     *)
(* stand in one line, one at a time uses it, in the order they came, and   *)
(* it stays in line for as long as it uses it.                             *)
(***************************************************************************)
EXTENDS Naturals, Sequences

CONSTANT Users

VARIABLES
    line,   \* those that use the resource or want to, in the order they came
    using   \* those that use it

Init == line = <<>> /\ using = {}

First(l) == IF l = <<>> THEN {} ELSE {Head(l)}

(* One who finds nobody is served at once. *)
Arrive(u) ==
    /\ \A i \in 1..Len(line) : line[i] # u
    /\ line' = Append(line, u)
    /\ using' = IF line = <<>> THEN {u} ELSE using

(* The first in line is served when nobody is. *)
Serve ==
    /\ line # <<>> /\ using = {}
    /\ using' = First(line)
    /\ UNCHANGED line

(* The one who was served leaves; the next is served now or in a while. *)
Leave ==
    /\ line # <<>> /\ using = First(line)
    /\ line' = Tail(line)
    /\ using' \in {{}, First(line')}

Next == (\E u \in Users : Arrive(u)) \/ Serve \/ Leave

Spec == Init /\ [][Next]_<<line, using>>

(* The process ends, and with it whoever was in line. *)
Vanish == line' = <<>> /\ using' = {}

SpecWithExit == Init /\ [][Next \/ Vanish]_<<line, using>>
=============================================================================
