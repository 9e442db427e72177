--------------------------- MODULE MCGuestRuntime ---------------------------
(* Small instances of GuestRuntime. *)
EXTENDS GuestRuntime

CONSTANTS t1, t2
=============================================================================
