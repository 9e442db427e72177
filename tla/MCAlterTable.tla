---------------------------- MODULE MCAlterTable ----------------------------
(* Small instances of AlterTable. *)
EXTENDS AlterTable, TLC

CONSTANTS a1, a2, id, x, y, z, int, txt

MCFirst == <<Column(id, PrimaryKey, 1), Column(x, int, 2), Column(y, int, 3)>>
MCNew == <<Column(id, PrimaryKey, 0), Column(x, int, 0)>>
Symmetry == Permutations(Admins)
=============================================================================
