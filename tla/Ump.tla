-------------------------------- MODULE Ump ---------------------------------
(***************************************************************************)
(* MIDI 1.0 channel voice messages in universal MIDI packets of 32 bits:   *)
(* subsys/midi/midi_ump.c and the conversions of the ISO samples           *)
(* (central_tx: midi_1_0_to_ump, peripheral_rx: midi_ump_to_1_0).          *)
(***************************************************************************)
EXTENDS Naturals, Sequences

CONSTANT None

ChannelVoiceType == 2       (* MIDI_UMP_MSG_MIDI_1_0_CHANNEL_VOICE           *)

\* MIDI_OP_* with two data bytes and with one.
TwoDataOps == {8, 9, 10, 11, 14}
OneDataOps == {12, 13}

Opcode(status) == status \div 16

ChannelVoice(group, opcode, channel, data1, data2) ==
  <<ChannelVoiceType * 16 + group, opcode * 16 + channel, data1, data2>>

MessageType(ump) == ump[1] \div 16

\* Messages other than channel voice are dropped.
ToUmp(msg, channel) ==
  LET op == Opcode(msg[1])
  IN  CASE op \in TwoDataOps -> ChannelVoice(0, op, channel, msg[2], msg[3])
        [] op \in OneDataOps -> ChannelVoice(0, op, channel, msg[2], 0)
        [] OTHER -> None

\* Faulty variant: the program change is taken for a message of three bytes.
FromUmpAllThree(ump) == SubSeq(ump, 2, 4)

\* Only for packets ToUmp makes: for others the code goes on with a null pointer.
FromUmp(ump) ==
  SubSeq(ump, 2, IF Opcode(ump[2]) \in TwoDataOps THEN 4 ELSE 3)
=============================================================================
