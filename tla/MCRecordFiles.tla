--------------------------- MODULE MCRecordFiles ---------------------------
(* Instances of RecordFiles: a request with two files, and one with one. *)
EXTENDS RecordFiles, TLC

CONSTANTS q1, q2, r1, f0, f1, f2, f3

MCUpload == q1 :> {f1, f2} @@ q2 :> {f3}
OneUpload == q1 :> {f1, f2}

\* A record with a file.
MCEarlier == r1 :> {f0}
=============================================================================
