----------------------------- MODULE MidiParser -----------------------------
(***************************************************************************)
(* The serial MIDI parser of subsys/midi/midi_parser.c with the message    *)
(* memory of subsys/midi/midi_msg.c it writes into.                        *)
(*                                                                         *)
(* One step is one call of midi_parse_serial on a message that holds one   *)
(* byte, the only kind of call in the repository: the UART driver and both *)
(* Bluetooth receivers hand every byte up as a message of its own.         *)
(*                                                                         *)
(* A message is modelled by the bytes stored in it (its len is their       *)
(* number), the size of the block midi_msg->data points to (0 for NULL),   *)
(* its timestamp and whether its memory is still allocated.  An access     *)
(* outside a block, through NULL or to freed memory raises fault; nothing  *)
(* is claimed of what the program does after that, so the model stops.     *)
(***************************************************************************)
EXTENDS MidiBytes

CONSTANTS Bytes,     (* the bytes the stream may contain                       *)
          SysexMax,  (* CONFIG_MIDI_PARSER_SYSEX_MAX_SIZE                      *)
          MaxTime,   (* last value of the ms clock before it wraps (8191)      *)
          MaxRound,  (* bound: how often the clock wraps                       *)
          CanFail,   (* which k_malloc of midi_msg_alloc may fail: a subset of *)
                     (* {"message", "data"}                                    *)
          NULL

Message == [data : Seq(Byte), cap : Nat, ts : 0..MaxTime, live : BOOLEAN]

ASSUME ParserAssumption ==
  /\ Bytes \subseteq Byte
  /\ SysexMax \in 2..255
  /\ MaxTime \in Nat
  /\ MaxRound \in Nat
  /\ CanFail \subseteq {"message", "data"}
  /\ NULL \notin Message

VARIABLES msg,     (* parser->msg, the message being assembled           *)
          rs,      (* parser->running_status                             *)
          third,   (* parser->third_byte_flag                            *)
          ret,     (* what the last call returned                        *)
          fault,   (* an access outside allocated memory has happened    *)
          now,     (* timestamp of the last byte                         *)
          round,   (* history: how often the clock had wrapped by then,  *)
          msgRound,(* and when msg's timestamp was set                   *)
          last     (* history: the last message returned                 *)

history == <<round, msgRound, last>>
parserVars == <<msg, rs, third, ret, fault, now, history>>

-----------------------------------------------------------------------------
(* midi_msg.c *)

DataBlocks == IF "data" \in CanFail THEN BOOLEAN ELSE {TRUE}

\* midi_msg_alloc(NULL, 0): a zeroed struct with no data block.
Fresh(t) == [data |-> <<>>, cap |-> 0, ts |-> t, live |-> TRUE]

\* midi_msg_alloc(m, n), n > 0: the old block is freed, a new one taken; the
\* result of k_malloc is stored unchecked.
Resized(m, n, ok) == [m EXCEPT !.data = <<>>, !.cap = IF ok THEN n ELSE 0]

\* memcpy of one byte to m->data + i touches only m's own block.
Fits(m, i) == m.live /\ i < m.cap

Holding(m, bytes) == [m EXCEPT !.data = bytes]

\* midi_msg_unref on a message nobody else references.
Freed(m) == [m EXCEPT !.live = FALSE]

-----------------------------------------------------------------------------
(* Ways a call of parse_serial_byte ends. *)

Keep(m) == msg' = m /\ ret' = NULL          \* return false
Deliver(m) == msg' = NULL /\ ret' = m       \* return true

\* The message the byte belongs to; its timestamp is set while it is still 0.
Current(t) == IF msg = NULL THEN Fresh(t)
              ELSE IF msg.ts = 0 THEN [msg EXCEPT !.ts = t] ELSE msg

\* Start a block of n bytes with the bytes given.
Begin(m, n, bytes, deliver) ==
  \E ok \in DataBlocks :
    LET begun == Holding(Resized(m, n, ok), bytes)
    IN  /\ fault' = ~Fits(Resized(m, n, ok), Len(bytes) - 1)
        /\ IF deliver THEN Deliver(begun) ELSE Keep(begun)

\* Append to the block as it is.
Extend(m, b, deliver) ==
  /\ fault' = ~Fits(m, Len(m.data))
  /\ LET longer == Holding(m, Append(m.data, b))
     IN  IF deliver THEN Deliver(longer) ELSE Keep(longer)

Ignore(m) == Keep(m) /\ fault' = ~m.live

-----------------------------------------------------------------------------
(* parse_serial_byte on a status byte. *)

\* Faulty variant: a status byte leaves the flag for a third byte up.
StatusKeepsFlag(m, b) ==
  /\ UNCHANGED third
  /\ rs' = IF b = SysexEnd THEN 0 ELSE b
  /\ \/ b = SysexEnd /\ Extend(m, b, TRUE)
     \/ b \in SingleByteCommon /\ Begin(m, 1, <<b>>, TRUE)
     \/ b = SysexStart /\ Begin(m, SysexMax, <<b>>, FALSE)
     \/ b \notin 244..247 \cup {SysexStart} /\ Ignore(m)

ParseStatus(m, b) ==
  /\ third' = FALSE
  /\ rs' = IF b = SysexEnd THEN 0 ELSE b
  /\ \/ b = SysexEnd /\ Extend(m, b, TRUE)
     \/ b \in SingleByteCommon /\ Begin(m, 1, <<b>>, TRUE)
     \/ b = SysexStart /\ Begin(m, SysexMax, <<b>>, FALSE)
     \/ b \notin 244..247 \cup {SysexStart} /\ Ignore(m)

(* parse_serial_byte on a data byte. *)

\* The byte goes to index 2 and len becomes 3, however many bytes are there.
ThirdByte(m, b) ==
  /\ third
  /\ third' = FALSE
  /\ fault' = ~Fits(m, 2)
  /\ Deliver(Holding(m, Append(m.data, b)))
  /\ UNCHANGED rs

OrphanByte(m, b) ==
  /\ ~third /\ rs = 0
  /\ Ignore(m)
  /\ UNCHANGED <<rs, third>>

\* Faulty variant: program change and channel pressure wait for a third byte.
AllVoiceThreeBytes(m, b) ==
  /\ ~third
  /\ rs \in Voice /\ third' = TRUE /\ Begin(m, 3, <<rs, b>>, FALSE)
  /\ UNCHANGED rs

\* Faulty variant: a message uses up its running status.
VoiceForgetsStatus(m, b) ==
  /\ ~third
  /\ \/ rs \in ThreeByteVoice /\ third' = TRUE /\ Begin(m, 3, <<rs, b>>, FALSE)
     \/ rs \in TwoByteVoice /\ UNCHANGED third /\ Begin(m, 2, <<rs, b>>, TRUE)
  /\ rs' = 0

VoiceByte(m, b) ==
  /\ ~third
  /\ \/ rs \in ThreeByteVoice /\ third' = TRUE /\ Begin(m, 3, <<rs, b>>, FALSE)
     \/ rs \in TwoByteVoice /\ UNCHANGED third /\ Begin(m, 2, <<rs, b>>, TRUE)
  /\ UNCHANGED rs

\* Faulty variant: a system common status stays the running status.
CommonKeepsStatus(m, b) ==
  /\ ~third
  /\ third' = TRUE
  /\ UNCHANGED rs
  /\ \/ rs = SongPosition /\ Begin(m, 3, <<rs, b>>, FALSE)
     \/ rs \in {TimeCode, SongSelect} /\ Begin(m, 3, <<rs, b>>, TRUE)

\* The flag is raised for the two-byte messages 0xF1 and 0xF3 as well.
CommonByte(m, b) ==
  /\ ~third
  /\ third' = TRUE
  /\ rs' = 0
  /\ \/ rs = SongPosition /\ Begin(m, 3, <<rs, b>>, FALSE)
     \/ rs \in {TimeCode, SongSelect} /\ Begin(m, 3, <<rs, b>>, TRUE)

\* A full block is released, but parser->msg keeps pointing to it.
SysexByte(m, b) ==
  /\ ~third /\ rs = SysexStart
  /\ \/ /\ Len(m.data) = SysexMax
        /\ rs' = 0
        /\ Keep(Freed(m))
        /\ fault' = ~m.live
     \/ /\ Len(m.data) # SysexMax
        /\ Extend(m, b, FALSE)
        /\ UNCHANGED rs
  /\ UNCHANGED third

\* Any other running status: 0xF4..0xF6 after their message, or a real-time
\* status that got here because no memory was left for its message.
UnsupportedByte(m, b) ==
  /\ ~third /\ rs \in SingleByteCommon \cup RealTime
  /\ rs' = 0
  /\ Ignore(m)
  /\ UNCHANGED third

ParseData(m, b) ==
  \/ ThirdByte(m, b)
  \/ OrphanByte(m, b)
  \/ VoiceByte(m, b)
  \/ CommonByte(m, b)
  \/ SysexByte(m, b)
  \/ UnsupportedByte(m, b)

-----------------------------------------------------------------------------
(* midi_parse_serial on one byte b with timestamp t. *)

\* Faulty variant: the interrupted message keeps its earlier timestamp.
RealTimeOvertakes(b, t) ==
  /\ b \in RealTime
  /\ \E ok \in DataBlocks :
       /\ ret' = [data |-> <<b>>, cap |-> IF ok THEN 1 ELSE 0,
                  ts |-> t, live |-> TRUE]
       /\ fault' = ~ok
  /\ UNCHANGED <<msg, rs, third>>

\* Real-time messages interrupt any other message and are returned at once;
\* the interrupted message is moved behind them in time.
RealTimeMessage(b, t) ==
  /\ b \in RealTime
  /\ \E ok \in DataBlocks :
       /\ ret' = [data |-> <<b>>, cap |-> IF ok THEN 1 ELSE 0,
                  ts |-> t, live |-> TRUE]
       /\ fault' = (~ok \/ (msg # NULL /\ ~msg.live))
  /\ msg' = IF msg # NULL /\ msg.ts < t THEN [msg EXCEPT !.ts = t] ELSE msg
  /\ UNCHANGED <<rs, third>>

\* No memory for a new message: the byte is dropped.
ByteDropped ==
  /\ "message" \in CanFail
  /\ msg = NULL
  /\ ret' = NULL
  /\ fault' = FALSE
  /\ UNCHANGED <<msg, rs, third>>

Parse(b, t) ==
  \/ RealTimeMessage(b, t)
  \/ /\ b \in RealTime => "message" \in CanFail   \* parse_serial_rtm gave NULL
     /\ \/ ByteDropped
        \/ b \in StatusByte /\ ParseStatus(Current(t), b)
        \/ b \in DataByte /\ ParseData(Current(t), b)

\* What the byte b leaves in the history: when the timestamp of the message in
\* hand was set, and which message was returned.
Record(b, t, r) ==
  LET realTime == b \in RealTime /\ ret' # NULL
      stamped  == IF realTime THEN msg # NULL /\ msg.ts < t
                              ELSE msg = NULL \/ msg.ts = 0
  IN  /\ msgRound' = IF stamped THEN r ELSE msgRound
      /\ last' = IF ret' = NULL THEN last
                 ELSE [round |-> IF realTime THEN r ELSE msgRound',
                       ts |-> ret'.ts, realTime |-> realTime]

\* Bytes arrive at any later time; the clock they are stamped with wraps.
Feed(b) ==
  /\ ~fault
  /\ \E r \in round..MaxRound, t \in 0..MaxTime :
       /\ r = round => t >= now
       /\ round' = r
       /\ now' = t
       /\ Parse(b, t)
       /\ Record(b, t, r)

\* midi_parser_reset: the struct is freed, the pointer stays.
Reset ==
  /\ ~fault
  /\ msg' = IF msg = NULL THEN NULL ELSE Freed(msg)
  /\ fault' = (msg # NULL /\ ~msg.live)
  /\ rs' = 0
  /\ third' = FALSE
  /\ ret' = NULL
  /\ UNCHANGED <<now, history>>

Init ==
  /\ msg = NULL /\ rs = 0 /\ third = FALSE
  /\ ret = NULL /\ fault = FALSE
  /\ now = 0 /\ round = 0 /\ msgRound = 0
  /\ last = [round |-> 0, ts |-> 0, realTime |-> FALSE]

Next == \E b \in Bytes : Feed(b)

Spec == Init /\ [][Next]_parserVars

\* The parser with its reset function in use; nothing in the repository calls it.
SpecWithReset == Init /\ [][Next \/ Reset]_parserVars

-----------------------------------------------------------------------------
(* Properties *)

TypeOK ==
  /\ msg \in Message \cup {NULL}
  /\ rs \in {0} \cup StatusByte
  /\ third \in BOOLEAN
  /\ ret \in Message \cup {NULL}
  /\ fault \in BOOLEAN
  /\ now \in 0..MaxTime
  /\ round \in 0..MaxRound
  /\ msgRound \in 0..MaxRound
  /\ last \in [round : 0..MaxRound, ts : 0..MaxTime, realTime : BOOLEAN]

\* The parser never touches memory it does not own (every memcpy in
\* parse_serial_byte, the stores to msg->len and msg->timestamp).
MemorySafe == ~fault

\* What midi_parse_serial returns is a complete message of the MIDI 1.0 grammar
\* (midi_parser.h: "pointer to the parsed message if message is complete").
DeliveredComplete == ret # NULL /\ ~fault => IsComplete(ret.data)

\* Time r, t is not before the time the last message returned was stamped with.
SinceLast(r, t) == last.round < r \/ (last.round = r /\ last.ts <= t)

\* The one way a message may come out late: a real-time message of a later round
\* of the clock has interrupted it.
WrapInterrupts(r) == last.realTime /\ r < last.round

\* Messages leave the parser in the order of their timestamps, real-time messages
\* that overtake a half-received one included (the timestamp update in
\* midi_parse_serial: "RTM has interrupted a message") - unless the clock has
\* wrapped between the interrupted message and the real-time byte: the comparison
\* of the wrapped timestamps (midi_parser.c:223) then leaves the message with its
\* earlier one, and it comes out behind the real-time message.
NeverBackInTime ==
  [][ \/ SinceLast(last'.round, last'.ts)
      \/ WrapInterrupts(last'.round) ]_parserVars

\* Why: no message still being assembled is older than one already returned, with
\* the same exception.
TimestampsInOrder ==
  /\ SinceLast(round, now)
  /\ msg # NULL =>
       /\ msgRound < round \/ (msgRound = round /\ msg.ts <= now)
       /\ SinceLast(msgRound, msg.ts) \/ WrapInterrupts(msgRound)

\* A message the parser still points to has not been freed (the "discard" of an
\* overlong system exclusive message and the reset function).
NoDanglingMessage == msg # NULL => msg.live

\* Why the parser is safe on streams without 0xF0, 0xF1, 0xF3 and 0xF7, however
\* ill-formed: the flag for a third byte is up only while a three-byte block with
\* two bytes of a three-byte message waits for it.
ThirdByteExpected ==
  third => /\ msg # NULL
           /\ msg.cap = 3
           /\ Len(msg.data) = 2
           /\ msg.data[1] \in ThreeByteVoice \cup {SongPosition}
           /\ msg.data[2] \in DataByte

\* What the parser keeps between two bytes of such a stream is consistent: it owns
\* the block it writes to, expects the byte the block has room for, and everything
\* returned was complete (the statics of midi_parser.c).
ShortStreamInv ==
  /\ TypeOK
  /\ TimestampsInOrder
  /\ MemorySafe
  /\ NoDanglingMessage
  /\ ThirdByteExpected
  /\ rs \notin {SysexStart, TimeCode, SongSelect, SysexEnd}
  /\ DeliveredComplete
=============================================================================
