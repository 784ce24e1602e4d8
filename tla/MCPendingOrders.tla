-------------------------- MODULE MCPendingOrders ---------------------------
(* Instances of PendingOrders for TLC: the fill tasks are interchangeable.  *)
EXTENDS PendingOrders, TLC

Symmetry == Permutations(Tasks) \cup Permutations(Editors) \cup Permutations(Terms)
=============================================================================
