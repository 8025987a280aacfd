--------------------------- MODULE MCSessionLease ---------------------------
(* Four processes, each of which may crash; no dead lease at the start.   *)
EXTENDS SessionLease, TLC

CONSTANTS p1, p2, p3, p4

Symmetry == Permutations(Process)
=============================================================================
