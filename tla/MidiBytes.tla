------------------------------ MODULE MidiBytes ------------------------------
(***************************************************************************)
(* The byte classes of MIDI 1.0 as subsys/midi/midi_parser.c tells them    *)
(* apart, and the complete messages the grammar of MIDI 1.0 allows.        *)
(* Bytes are numbers, so the bit tests of the source become ranges.        *)
(***************************************************************************)
EXTENDS Integers, Sequences

Byte == 0..255
DataByte == 0..127                  \* (byte >> 7) == 0
StatusByte == 128..255              \* (byte >> 7) == 1

RealTime == 248..255                \* (byte >> 3) == 0b11111
SysexStart == 240                   \* 0xF0
TimeCode == 241                     \* 0xF1
SongPosition == 242                 \* 0xF2
SongSelect == 243                   \* 0xF3
SysexEnd == 247                     \* 0xF7, end of exclusive
TuneRequest == 246                  \* 0xF6
SingleByteCommon == 244..246        \* (byte >> 2) == 0b111101, but not 0xF7

ThreeByteVoice == (128..191) \cup (224..239)   \* 0x8_, 0x9_, 0xA_, 0xB_, 0xE_
TwoByteVoice == 192..223                       \* 0xC_, 0xD_
Voice == ThreeByteVoice \cup TwoByteVoice

\* Messages of a fixed length, and system exclusive in its brackets.
IsFixed(d, statuses, n) ==
  /\ Len(d) = n
  /\ d[1] \in statuses
  /\ \A i \in 2..n : d[i] \in DataByte

IsSysex(d) ==
  /\ Len(d) >= 2
  /\ d[1] = SysexStart
  /\ d[Len(d)] = SysexEnd
  /\ \A i \in 2..(Len(d) - 1) : d[i] \in DataByte

IsComplete(d) ==
  \/ IsFixed(d, ThreeByteVoice \cup {SongPosition}, 3)
  \/ IsFixed(d, TwoByteVoice \cup {TimeCode, SongSelect}, 2)
  \/ IsFixed(d, SingleByteCommon \cup RealTime, 1)
  \/ IsSysex(d)
=============================================================================
