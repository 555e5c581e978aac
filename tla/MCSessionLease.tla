--------------------------- MODULE MCSessionLease ---------------------------
(* A small instance of SessionLease: two pids with several lives each, so   *)
(* that two processes can race for the lease of a third that had one of the *)
(* pids before.                                                            *)
EXTENDS SessionLease

CONSTANTS p1, p2

MCProc == {p1, p2}
=============================================================================
