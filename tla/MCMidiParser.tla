---------------------------- MODULE MCMidiParser ----------------------------
(* Streams of arbitrary bytes, one byte per class of status byte. *)
EXTENDS MidiParser

\* Note on, program change, song position, tune request, clock, one data byte.
MCShortBytes == {60, 144, 192, SongPosition, TuneRequest, 248}
=============================================================================
