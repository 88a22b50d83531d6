--------------------------- MODULE MCDiagnostics ---------------------------
(* Instances of Diagnostics for TLC. *)
EXTENDS Diagnostics, TLC

CONSTANTS t1, t2, c1

Symmetry == Permutations(Thread)
=============================================================================
