--------------------------- MODULE MCPriorityQueue ---------------------------
(* Small instances of PriorityQueue for TLC. *)
EXTENDS PriorityQueue, TLC

CONSTANTS v1, v2, v3, v4, v5, v6

ValueSymmetry == Permutations(Values)
=============================================================================
