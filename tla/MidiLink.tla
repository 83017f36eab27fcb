------------------------------ MODULE MidiLink ------------------------------
(***************************************************************************)
(* A MIDI 1.0 transmitter at the other end of the line, and the parser of  *)
(* MidiParser.tla.  The transmitter sends whole messages, leaves out the   *)
(* status byte when running status allows it, puts real-time messages      *)
(* between any two bytes and may break a message off (the cable is pulled, *)
(* a new status byte ends a system exclusive message).  It is not in the   *)
(* repository: it is the environment the parser is written for.            *)
(***************************************************************************)
EXTENDS MidiParser

CONSTANT Outgoing       (* the messages the transmitter may send *)

\* Real-time messages are sent by an action of their own; a system exclusive
\* message leaves room for its last byte in the parser's block.
ASSUME LinkAssumption ==
  /\ Outgoing \subseteq {d \in Seq(Byte) : IsComplete(d)}
  /\ \A d \in Outgoing : d[1] \notin RealTime
  /\ \A d \in Outgoing : IsSysex(d) => Len(d) <= SysexMax

\* The heap is big enough.
NoFailures == CanFail = {}

VARIABLES cur,      (* the message on the line                                 *)
          pos,      (* index in cur of the next byte; 0: nothing on the line   *)
          txrs,     (* running status of the transmitter, 0 for none           *)
          expect    (* what the byte just sent completes: bytes of a message,  *)
                    (* or <<>> if it completes none                            *)

linkVars == <<parserVars, cur, pos, txrs, expect>>

\* The running status after message d: voice messages set it, system common
\* messages cancel it.
StatusAfter(d) == IF d[1] \in Voice THEN d[1] ELSE 0

SendByte(d, i) ==
  /\ Feed(d[i])
  /\ cur' = d
  /\ IF i = Len(d)
     THEN pos' = 0 /\ txrs' = StatusAfter(d) /\ expect' = d
     ELSE pos' = i + 1 /\ txrs' = txrs /\ expect' = <<>>

\* A message starts with its status byte, or without it under running status.
StartMessage ==
  /\ pos = 0
  /\ \E d \in Outgoing :
       \/ SendByte(d, 1)
       \/ d[1] \in Voice /\ d[1] = txrs /\ SendByte(d, 2)

ContinueMessage == pos > 0 /\ SendByte(cur, pos)

SendRealTime ==
  \E b \in RealTime \cap Bytes :
    /\ Feed(b)
    /\ expect' = <<b>>
    /\ UNCHANGED <<cur, pos, txrs>>

\* After a broken-off message the transmitter starts with a status byte.
BreakOff ==
  /\ pos > 0
  /\ pos' = 0
  /\ txrs' = 0
  /\ UNCHANGED <<parserVars, cur, expect>>

LinkInit ==
  /\ Init
  /\ cur = <<>> /\ pos = 0 /\ txrs = 0 /\ expect = <<>>

LinkNext == StartMessage \/ ContinueMessage \/ SendRealTime \/ BreakOff

LinkSpec == LinkInit /\ [][LinkNext]_linkVars

-----------------------------------------------------------------------------
(* Properties *)

\* Values of the transmitter's variables.
LinkTypeOK ==
  /\ TypeOK
  /\ cur \in Outgoing \cup {<<>>}
  /\ pos \in 0..Len(cur)
  /\ txrs \in {0} \cup Voice
  /\ expect \in Seq(Byte)

\* The parser returns each message the transmitter completes, whole and on its
\* last byte, and returns nothing else: running status is expanded, real-time
\* messages are taken out, a broken-off message leaves no trace
\* (midi_parse_serial, parse_serial_byte).
RoundTrip ==
  /\ ret = NULL <=> expect = <<>>
  /\ ret # NULL => ret.data = expect

-----------------------------------------------------------------------------
(* Why they hold: how the parser's state follows the transmitter's. *)

\* The first n bytes of message d are in the parser's block.
Holds(d, n) ==
  /\ msg # NULL
  /\ Len(msg.data) = n
  /\ \A i \in 1..n : msg.data[i] = d[i]

\* Between messages: the running status is the parser's too, and without one
\* the next byte is a status byte, whatever the parser is waiting for.
Idle == txrs # 0 => rs = txrs /\ ~third

\* Byte i of message d can be sent: either it is the status byte, or the parser
\* is waiting for just this one.
Ready(d, i) ==
  LET s == d[1]
  IN  \/ i = 1
      \/ /\ s \in Voice /\ i = 2
         /\ rs = s /\ ~third
      \/ /\ s \in ThreeByteVoice \cup {SongPosition} /\ i = 3
         /\ third /\ Holds(d, 2) /\ msg.cap = 3
         /\ rs = IF s = SongPosition THEN 0 ELSE s
      \/ /\ s \in {TimeCode, SongSelect, SongPosition} /\ i = 2
         /\ rs = s /\ ~third
      \/ /\ s = SysexStart /\ i > 1
         /\ rs = s /\ ~third /\ Holds(d, i - 1) /\ msg.cap = SysexMax

\* Between any two bytes parser and transmitter agree on how much of which message
\* has passed, on the running status and on what may come next.
LinkInv ==
  /\ LinkTypeOK
  /\ MemorySafe
  /\ RoundTrip
  /\ TimestampsInOrder
  /\ NoDanglingMessage
  /\ pos = 0 => Idle
  /\ pos > 0 => cur \in Outgoing /\ Ready(cur, pos)
=============================================================================
