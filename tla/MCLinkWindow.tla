---------------------------- MODULE MCLinkWindow ----------------------------
(* LinkWindow with a window of 3 between whole polls of 2: the deque holds  *)
(* ceil(3 / 2) + 1 = 3 samples, and readings are 2 or 5 apart (a port that *)
(* was missing for longer than the window).  Five readings fill the deque  *)
(* and drop two of them; two link-down events are an error.                *)
EXTENDS LinkWindow

MCGaps == {2, 5}
=============================================================================
