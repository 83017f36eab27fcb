----------------------------- MODULE MCMidiLink -----------------------------
(* Messages of every kind the parser knows, two of them with the same status *)
(* so that running status is used, and system exclusive up to the limit.     *)
EXTENDS MidiLink

MCMessages ==
  { <<144, 60, 1>>, <<144, 1, 60>>, <<192, 1>>, <<TimeCode, 1>>,
    <<SongPosition, 1, 60>>, <<SongSelect, 60>>, <<TuneRequest>>,
    <<SysexStart, SysexEnd>>, <<SysexStart, 60, 1, SysexEnd>> }
MCBytes == UNION {{d[i] : i \in 1..Len(d)} : d \in MCMessages} \cup {248, 255}
=============================================================================
