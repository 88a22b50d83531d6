----------------------------- MODULE MCRegistry -----------------------------
(* Instances of Registry for TLC. *)
EXTENDS Registry, TLC

CONSTANTS p1, p2, t1, t2

\* A bare id names both versions, an exact ref one of them.
AllRefs == {{p1}, {p2}, {p1, p2}}
OneRef == {{p1}}
=============================================================================
