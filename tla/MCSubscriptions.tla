-------------------------- MODULE MCSubscriptions --------------------------
(***************************************************************************)
(* Instances of Subscriptions for TLC: who subscribes to what.             *)
(***************************************************************************)
EXTENDS Subscriptions

CONSTANTS s1, s2, s3, t1, t2, r1

\* s1 follows table t1, s2 a record of it, s3 table t2.
MCTableOf == [s \in Subs |-> IF s = s3 THEN t2 ELSE t1]
MCRowOf == [s \in Subs |-> IF s = s2 THEN r1 ELSE AnyRow]
=============================================================================
