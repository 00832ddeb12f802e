-------------------------- MODULE MCSystemdMonitor --------------------------
(* SystemdMonitor with two services, so that the report has to show more   *)
(* than the service that changed last, and two coroutines of               *)
(* handle_unit_new beside add_monitor.                                     *)
EXTENDS SystemdMonitor

CONSTANTS s1, s2, w1, w2

MCServices == {s1, s2}
MCWorkers == {w1, w2}

(* Services, and coroutines of handle_unit_new, are alike; the run has no  *)
(* liveness property.                                                      *)
MCSymmetry == Permutations(MCServices) \cup Permutations(MCWorkers)
=============================================================================
