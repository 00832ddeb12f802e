--------------------------- MODULE MCActiveChecks ---------------------------
(* ActiveChecks with three slots, so that two requests may wait for the    *)
(* lock while a third holds it.                                            *)
EXTENDS ActiveChecks

CONSTANTS s1, s2, s3

MCSlots == {s1, s2, s3}
(* Jobs that share the node pass the GPUs they had. *)
OwnGpus == [s \in MCSlots |-> {s}]
=============================================================================
