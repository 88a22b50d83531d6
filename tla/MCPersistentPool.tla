-------------------------- MODULE MCPersistentPool --------------------------
(* Instances of PersistentPool for TLC. *)
EXTENDS PersistentPool, TLC

CONSTANTS i1, i2, n1, n2

Symmetry == Permutations(Inv) \cup Permutations(Node)
=============================================================================
