----------------------------- MODULE IsoReceiver ----------------------------
(***************************************************************************)
(* The in port of subsys/midi/midi_iso_receiver.c with its application     *)
(* (samples/api/bluetooth/peripheral_rx): a device takes the messages with *)
(* its muid out of a packet, recognises repetitions by their number, plays *)
(* the new ones on the serial port, and acknowledges over SPI every        *)
(* message that came with a channel, repetition or not.                    *)
(*                                                                         *)
(* One packet is one callback of the Bluetooth receive thread.             *)
(***************************************************************************)
EXTENDS Integers, SequencesExt, Subsequence, Ump

CONSTANTS Devices,       (* the devices, by the low byte of their muid       *)
          FirstNum       (* initial value of previous_msg_num (0xFF)         *)

VARIABLES previous,      (* previous[d] = previous_msg_num                   *)
          played,        (* played[d]: messages on the serial port, in order *)
          ignored,       (* messages passed up as repetitions                *)
          acks           (* acks[d]: numbers on their way to the sender      *)

rxVars == <<previous, played, ignored, acks>>

RxInit ==
  /\ previous = [d \in Devices |-> FirstNum]
  /\ played = [d \in Devices |-> <<>>]
  /\ ignored = [d \in Devices |-> {}]
  /\ acks = [d \in Devices |-> <<>>]

\* The comparison is made in int: below 0 there is -1, not the last number.
Repeated(d, n) == n = previous[d] \/ n = previous[d] - 1

\* Indices of the messages with the muid of d.
Mine(d, pdu) == {i \in DOMAIN pdu : pdu[i].to = d}

\* Faulty variant: the number is remembered after each message, not after the
\* packet, whose messages share it.
NewToEach(d, pdu) ==
  LET new == {i \in Mine(d, pdu) : ~Repeated(d, pdu[i].num)}
  IN  {i \in new : \A j \in new : j < i => pdu[j].num # pdu[i].num}

\* Those that are no repetitions.
NewTo(d, pdu) == {i \in Mine(d, pdu) : ~Repeated(d, pdu[i].num)}

\* What a packet changes on device d: each of its messages goes through parse_ump
\* and midi_iso_received.

\* The number of the last new message.
PreviousAfter(d, pdu) ==
  IF NewTo(d, pdu) = {} THEN previous[d] ELSE Last(Picked(pdu, NewTo(d, pdu))).num

PlayedAfter(d, pdu) ==
  LET plays == [i \in NewTo(d, pdu) |->
                  [msg |-> pdu[i].msg, data |-> FromUmp(pdu[i].data)]]
  IN  played[d] \o Picked(plays, NewTo(d, pdu))

IgnoredAfter(d, pdu) ==
  ignored[d] \cup {pdu[i].msg : i \in Mine(d, pdu) \ NewTo(d, pdu)}

\* Repetitions are acknowledged as well.
AcksAfter(d, pdu) ==
  LET asked == {i \in Mine(d, pdu) : pdu[i].channel # None}
  IN  acks[d] \o Picked([i \in asked |-> pdu[i].num], asked)

\* The packet reaches the devices in S.
Received(S, pdu) ==
  /\ previous' = [d \in Devices |-> IF d \in S THEN PreviousAfter(d, pdu) ELSE previous[d]]
  /\ played' = [d \in Devices |-> IF d \in S THEN PlayedAfter(d, pdu) ELSE played[d]]
  /\ ignored' = [d \in Devices |-> IF d \in S THEN IgnoredAfter(d, pdu) ELSE ignored[d]]
  /\ acks' = [d \in Devices |-> IF d \in S THEN AcksAfter(d, pdu) ELSE acks[d]]
=============================================================================
