--------------------------- MODULE MCCoordinator ---------------------------
(* Coordinator on small instances: symmetric requests, grants and Broker slots. *)
EXTENDS Coordinator, TLC

Symmetry == Permutations(Request) \union Permutations(Grant)
=============================================================================
