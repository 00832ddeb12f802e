----------------------------- MODULE MCReporter -----------------------------
(* Reporter with a module that clears its report when it is created (as    *)
(* the network module does) and one that does not (as the process module). *)
EXTENDS Reporter

CONSTANTS network, proc, b1, b2

MCNames == {network, proc}
MCClearOnCreate == {network}
MCBodies == {b1, b2}

Ok == DefaultReport
Err == [status |-> "Error", message |-> "none", body |-> b1, ghr_category |-> "category"]
Err2 == [Err EXCEPT !.body = b2, !.ghr_category = "none"]

(* Two errors that differ only below the status. *)
TwoErrors == {Ok, Err, Err2}
=============================================================================
