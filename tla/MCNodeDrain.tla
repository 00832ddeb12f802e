----------------------------- MODULE MCNodeDrain ----------------------------
(* NodeDrain with one background and one active check of the gpu module    *)
(* and one background check of the network module.                         *)
EXTENDS NodeDrain

CONSTANTS gpu, network, watches, diag, link

MCChecks == {watches, diag, link}
MCModuleOf == [c \in MCChecks |-> IF c = link THEN network ELSE gpu]
=============================================================================
