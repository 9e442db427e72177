------------------------------ MODULE MCGuests ------------------------------
(* Small instances of GuestTransactions. *)
EXTENDS GuestTransactions

CONSTANTS w1, w2, r1, r2, x1, x2, k1, k2
=============================================================================
