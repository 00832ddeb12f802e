-------------------------- MODULE MCProcessMonitor --------------------------
(* ProcessMonitor with two processes on a node where one zombie is a       *)
(* warning and two are half of the process numbers.                        *)
EXTENDS ProcessMonitor

CONSTANTS p1, p2, proc_section, other_section
=============================================================================
