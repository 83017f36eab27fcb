---------------------------- MODULE MCBleMidiOut ----------------------------
(* Small instances of BleMidiOut.tla. *)
EXTENDS BleMidiOut

\* A note, a program change, a tune request: every length.
MCInput == {<<144, 60, 64>>, <<193, 5>>, <<246>>}
=============================================================================
