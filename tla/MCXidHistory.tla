---------------------------- MODULE MCXidHistory ----------------------------
(* XidHistory with two XIDs, two times and as many saves at once.          *)
EXTENDS XidHistory

CONSTANTS xid48, xid94

MCXids == {xid48, xid94}
=============================================================================
