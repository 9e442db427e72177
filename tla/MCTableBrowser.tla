--------------------------- MODULE MCTableBrowser ---------------------------
(* Small instances of TableBrowser. *)
EXTENDS TableBrowser

CONSTANTS t1, t2, all, odd

MCMatches == (all :> Keys) @@ (odd :> {k \in Keys : k % 2 = 1})
Symmetry == Permutations(Tables)
=============================================================================
