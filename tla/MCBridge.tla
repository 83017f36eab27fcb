------------------------------ MODULE MCBridge ------------------------------
(* Small instances of Bridge.tla. *)
EXTENDS Bridge

\* A note, the same status again in running status, and a tune request that ends it.
MCInput == {<<144, 60, 64>>, <<246>>}
=============================================================================
