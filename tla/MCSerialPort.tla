---------------------------- MODULE MCSerialPort ----------------------------
(* Small instances of SerialPort.tla. *)
EXTENDS SerialPort
=============================================================================
