---------------------------- MODULE MCScheduler ----------------------------
(* Scheduler on a small instance: two loops, one one-shot function and     *)
(* three diagnostics (a holder, a waiter and a newcomer).                  *)
EXTENDS Scheduler

CONSTANTS l1, l2, o1, j1, j2, j3

MCLoops == {l1, l2}
MCOneShots == {o1}
MCPoolJobs == {j1, j2, j3}
=============================================================================
