------------------------------- MODULE MidiCi -------------------------------
(***************************************************************************)
(* MIDI-CI messages and the tables of function blocks: include/midi/       *)
(* midi_ci.h, midi_sysex.h, midi_ump.h, subsys/midi/midi_ci.c,             *)
(* midi_sysex.c and midi_ump.c.  A message is a record of the fields       *)
(* somebody reads; a muid goes over the wire as four 7-bit bytes, the      *)
(* least significant first.                                                *)
(***************************************************************************)
EXTENDS Integers, Sequences

MuidCount == 268435456                \* muids have 28 bits
Muids == 0..(MuidCount - 1)
BroadcastMuid == MuidCount - 1        \* 0x7F, 0x7F, 0x7F, 0x7F

\* Faulty variant: the byte order is reversed.
IntToDataReversed(n) ==
  <<(n \div 2097152) % 128, (n \div 16384) % 128, (n \div 128) % 128, n % 128>>

\* MIDI_INT_TO_DATA_4_BYTE.
IntToData(n) ==
  <<n % 128, (n \div 128) % 128, (n \div 16384) % 128, (n \div 2097152) % 128>>

\* MIDI_DATA_ARRAY_4_BYTE_TO_INTEGER.
DataToInt(b) ==
  (b[1] % 128) + 128 * (b[2] % 128) + 16384 * (b[3] % 128) + 2097152 * (b[4] % 128)

\* midi_ci_msg_header_create, on top of midi_sysex_universal_msg_header_create.
Header(sub2, source, dest) ==
  [start |-> "sysex", subId1 |-> "midi_ci", subId2 |-> sub2,
   source |-> IntToData(source), dest |-> IntToData(dest)]

\* midi_ci_discovery_msg_create.
DiscoveryMsg(block) == Header("discovery", block.muid, BroadcastMuid)

\* midi_ci_discovery_reply_msg_create.
ReplyMsg(block, remote) == Header("reply", block.muid, remote.muid)

\* midi_ump_add_function_block: the endpoint's block gets a random muid and, so
\* far, no remote blocks.
FunctionBlock(muid) == [muid |-> muid, remote |-> <<>>]

\* midi_ump_get_remote_function_block_by_muid.
HasRemote(block, muid) == \E i \in DOMAIN block.remote : block.remote[i].muid = muid

\* midi_ci_parse_function_block_from_msg: a block, known by its muid only.
RemoteBlock(msg) == [muid |-> DataToInt(msg.source)]

\* Faulty variant: the block is not stored.
AddRemoteNot(block, remote) == block

\* midi_ump_add_remote_function_block.
AddRemote(block, remote) ==
  IF HasRemote(block, remote.muid) THEN block
  ELSE [block EXCEPT !.remote = Append(@, remote)]
=============================================================================
