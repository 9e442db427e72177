-------------------------- MODULE MCConfiguration --------------------------
(* Small instances of Configuration. *)
EXTENDS Configuration, TLC

CONSTANTS a1, a2, sn, em, o1, o2, j1, d1, n1, t1, t2, t3

MCForms == a1 :> {"auth", "jobs", "databases", "apis"} @@ a2 :> {"auth", "schema"}
MCSchemaForms == a1 :> {"schema"}
MCNoEdits == a1 :> {}
MCEdits == a1 :> {<<o1, Half>>, <<j1, a1>>} @@ a2 :> {<<o2, a2>>}
MCConfig == n1 :> t1 @@ o1 :> a1 @@ [i \in Items |-> None]
=============================================================================
