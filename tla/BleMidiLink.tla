---------------------------- MODULE BleMidiLink -----------------------------
(***************************************************************************)
(* From the peripheral's out port to the application of a central:         *)
(* the encoder of BleMidiOut.tla, the packets on the air, bt_receive_cb of *)
(* subsys/midi/midi_bluetooth_central.c, which takes a packet apart into   *)
(* timestamps and messages of one byte, and the parser of MidiParser.tla   *)
(* behind it, as in samples/api/bluetooth/central_midi.                    *)
(*                                                                         *)
(* The peer decodes a packet in one callback, here one byte at a time and  *)
(* before anything else happens: sender and receiver share nothing but the *)
(* packets, which arrive whole and in order or, when the connection ends,  *)
(* not at all.  The receiver's own clock (convert_timestamp) plays no part *)
(* in which bytes arrive and is left out: the parser sees time 0.          *)
(***************************************************************************)
EXTENDS BleMidiOut

CONSTANT SysexMax       (* CONFIG_MIDI_PARSER_SYSEX_MAX_SIZE of the receiver   *)

VARIABLES rest,     (* bytes of the packet bt_receive_cb has still to look at *)
          nextTs,   (* next_is_new_timestamp                                  *)
          tsBle,    (* timestamp_ble                                          *)
          carried,  (* messages encoded in the packet                         *)
          got,      (* messages received from it: bytes and timestamp_ble     *)
          asm,      (* the parser: its msg,                                   *)
          status,   (* its running status                                     *)
          third,    (* its third_byte_flag,                                   *)
          ret,      (* what it returned last                                  *)
          fault     (* and whether it left its memory                         *)

Parser == INSTANCE MidiParser
          WITH Bytes <- Byte, MaxTime <- 0, MaxRound <- 0, CanFail <- {},
               msg <- asm, rs <- status,
               now <- 0, round <- 0, msgRound <- 0, last <- 0

\* NULL is no struct of the parser's either.
ASSUME ReceiverAssumption ==
  SysexMax \in 2..255 /\ NULL \notin Parser!Message

parserState == <<asm, status, third, ret, fault>>
receiverVars == <<rest, nextTs, tsBle, carried, got, parserState>>
linkVars == <<bleVars, receiverVars>>

\* A packet reaches the peer: bt_receive_cb up to its loop.
Arrives(packet) ==
  /\ rest' = SubSeq(packet.bytes, 3, Len(packet.bytes))
  /\ tsBle' = (packet.bytes[2] % 128) + (packet.bytes[1] % 64) * 128
  /\ nextTs' = FALSE
  /\ carried' = packet.messages
  /\ got' = <<>>
  /\ UNCHANGED parserState

SenderStep ==
  /\ rest = <<>>
  /\ Next
  /\ IF out' # out /\ out'.taken THEN Arrives(out') ELSE UNCHANGED receiverVars

\* Faulty variant: low bits that went through zero leave the high bits alone.
TimestampNoCarry ==
  LET b == Head(rest)
  IN  /\ b >= 128 /\ nextTs
      /\ nextTs' = FALSE
      /\ tsBle' = (b % 128) + ((tsBle \div 128) % 64) * 128
      /\ rest' = Tail(rest)
      /\ UNCHANGED <<bleVars, carried, got, parserState>>

\* A byte with the high bit set after a byte of a message: a new timestamp.
\* Its low bits went through zero if they became smaller.
TimestampByte ==
  LET b == Head(rest)
      high == IF b % 128 < tsBle % 128 THEN tsBle + 128 ELSE tsBle
  IN  /\ b >= 128 /\ nextTs
      /\ nextTs' = FALSE
      /\ tsBle' = (b % 128) + ((high \div 128) % 64) * 128
      /\ rest' = Tail(rest)
      /\ UNCHANGED <<bleVars, carried, got, parserState>>

\* Any other byte goes to the parser in a message of its own; what it returns
\* is received.
MessageByte ==
  LET b == Head(rest)
  IN  /\ ~(b >= 128 /\ nextTs)
      /\ nextTs' = TRUE
      /\ Parser!Parse(b, 0)
      /\ got' = IF ret' = NULL THEN got
                ELSE Append(got, [data |-> ret'.data, ts |-> tsBle])
      /\ rest' = Tail(rest)
      /\ UNCHANGED <<bleVars, tsBle, carried>>

ReceiverStep == rest # <<>> /\ ~fault /\ (TimestampByte \/ MessageByte)

LinkInit ==
  /\ Init
  /\ rest = <<>> /\ nextTs = FALSE /\ tsBle = 0 /\ carried = <<>> /\ got = <<>>
  /\ asm = NULL /\ status = 0 /\ third = FALSE /\ ret = NULL /\ fault = FALSE

LinkNext == SenderStep \/ ReceiverStep

LinkSpec == LinkInit /\ [][LinkNext]_linkVars

\* What the application may send: complete messages, none system exclusive.  The
\* last byte of a system exclusive message has no timestamp before it in a packet,
\* and the receiver takes it for one.
PlainMessages == \A d \in Input : Parser!IsComplete(d) /\ ~Parser!IsSysex(d)

-----------------------------------------------------------------------------
(* Properties *)

\* The central's application receives exactly the messages encoded in a packet,
\* whole and in order, with running status expanded, and the parser stays inside
\* its memory (ble_midi_encode_work_handler, bt_receive_cb, parse_serial_byte).
MessagesComeThrough ==
  /\ ~fault
  /\ Len(got) <= Len(carried)
  /\ \A i \in DOMAIN got : got[i].data = carried[i].data
  /\ rest = <<>> => Len(got) = Len(carried)

\* Timestamps are in order and less than 128 ms apart.
Close(messages) ==
  \A i \in 1..(Len(messages) - 1) :
    messages[i + 1].ts - messages[i].ts \in 0..127

\* The timestamps come through too, though only the packet's first has its high
\* bits sent, if the messages of the packet are close to each other.
TimestampsComeThrough ==
  Close(carried) =>
    \A i \in DOMAIN got : got[i].ts = carried[i].ts
=============================================================================
