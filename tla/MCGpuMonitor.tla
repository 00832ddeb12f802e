---------------------------- MODULE MCGpuMonitor ----------------------------
(* GpuMonitor with a cause of each kind and level that can occur alone.    *)
EXTENDS GpuMonitor

CONSTANTS incident, field, gauge, x48, x43, nvlink, remap, ecc, contained

MCIncidents == {incident}
MCFields == {field, gauge}
MCXids == {x48, x43}
MCLevel == [c \in MCIncidents \cup MCFields |-> IF c = gauge THEN "warning" ELSE "error"]
MCWarning == {x43}
(* The field errors and the x43 warning have categories, so that an error  *)
(* and a warning that both have one can meet.                              *)
MCCategory == [c \in MCIncidents \cup MCFields \cup MCXids |->
    CASE c = incident -> nvlink [] c = field -> remap
      [] c = x48 -> ecc [] c = x43 -> contained [] OTHER -> NoCategory]
=============================================================================
