--------------------------- MODULE MCBleConnection --------------------------
(* Small instances of BleConnection.tla. *)
EXTENDS BleConnection
=============================================================================
