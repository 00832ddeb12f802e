------------------------------- MODULE MCKmsg -------------------------------
(* Kmsg with an hour of two ticks, so that a report can be renewed within  *)
(* the hour, and one slot of the queue for each kind of task and one more. *)
EXTENDS Kmsg
=============================================================================
