----------------------------- MODULE MCSessions -----------------------------
(* Small instances of Sessions. *)
EXTENDS Sessions, TLC

CONSTANTS u1, u2, o1, o2

Symmetry == Permutations(Users) \cup Permutations(Promises)
=============================================================================
