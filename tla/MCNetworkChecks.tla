--------------------------- MODULE MCNetworkChecks ---------------------------
(* NetworkChecks with the kinds of checks of the default configuration and *)
(* one with three strikes: a flap counter that degrades at once, another   *)
(* that may recover twice, and a port state that always may recover.      *)
EXTENDS NetworkChecks

CONSTANTS flaps, retries, state, flapping, down

MCKeys == {flaps, retries, state}
MCStrikes == [k \in MCKeys |-> CASE k = flaps -> 1 [] k = retries -> 3 [] k = state -> 0]
MCCategory ==
    [k \in MCKeys |-> CASE k = flaps -> flapping [] k = retries -> NoCategory [] k = state -> down]
=============================================================================
