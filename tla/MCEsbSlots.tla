----------------------------- MODULE MCEsbSlots -----------------------------
(* Small instances of EsbSlots.tla. *)
EXTENDS EsbSlots, TLC

CONSTANTS d1, d2

\* One device's thread may be late: what counts is the difference.
MCLags == d1 :> {0, 6} @@ d2 :> {0}
=============================================================================
