----------------------------- MODULE MCLockfile -----------------------------
(* Instances of Lockfile for TLC. *)
EXTENDS Lockfile, TLC

CONSTANTS a1, a2

Symmetry == Permutations(Approver)
=============================================================================
