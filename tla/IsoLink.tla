------------------------------- MODULE IsoLink ------------------------------
(***************************************************************************)
(* The acknowledged broadcast of the ISO samples: the broadcaster, the     *)
(* devices that hear its packets, and the acknowledgements on their way    *)
(* back (SPI, ESB slots, SPI; EsbSlots.tla models that path).              *)
(*                                                                         *)
(* Timing.  Packets leave every 5 ms, the resend work runs 3.5 ms after a  *)
(* packet, the slots of the acknowledgements are before that, and threads  *)
(* need microseconds: the packet thread and the resend work are done when  *)
(* the next packet leaves, and acknowledgements arrive before the resend   *)
(* work runs.  Faults, at most MaxFaults: a packet a device does not hear, *)
(* an acknowledgement that is lost, an interval whose acknowledgements     *)
(* arrive in a later one (the ESB transmitter waits for its slot).         *)
(***************************************************************************)
EXTENDS IsoBroadcaster

CONSTANTS Data,          (* Data[m]: the MIDI 1.0 message of m               *)
          MaxFaults      (* bound                                            *)

VARIABLES
  previous, played, ignored, acks,
  faults,       (* faults so far                                             *)
  beyond        (* what follows is not modelled: a packet has left while     *)
                (* packet_thread_fn waited for room, or an object was sent   *)
                (* again that was still in the port                          *)

Device == INSTANCE IsoReceiver WITH Devices <- Muids, FirstNum <- NumLimit

INSTANCE Ump

\* The serial parser and the test thread give whole messages to the port.
ASSUME DataAssumption == \A m \in Messages :
  /\ Data[m] \in Seq(0..255) /\ Data[m] # <<>>
  /\ Opcode(Data[m][1]) \in TwoDataOps => Len(Data[m]) = 3
  /\ Opcode(Data[m][1]) \in OneDataOps => Len(Data[m]) = 2

rxVars == <<previous, played, ignored, acks>>
envVars == <<faults, beyond>>
isoVars == <<bcVars, rxVars, envVars>>

Fault(n) == faults + n <= MaxFaults /\ faults' = faults + n

\* midi_serial_received of central_tx, its test thread (which sends to every
\* device), and main, which sends MIDI 1.0 data to everyone.
AppSend(m) ==
  /\ Dest[m] = Everyone \/ ToUmp(Data[m], 0) # None
  /\ Send(m)
  /\ UNCHANGED <<rxVars, envVars>>

\* The test thread and main send an object again before the port is done with it.
AppSendAgain(m) ==
  /\ InPort(m)
  /\ beyond' = TRUE
  /\ UNCHANGED <<bcVars, rxVars, faults>>

PacketThread == (PacketTake \/ PacketAdd) /\ UNCHANGED <<rxVars, envVars>>

\* The payload as bytes: the entries with the data of their messages.
OnAir ==
  [i \in DOMAIN built |->
     [to |-> built[i].to, msg |-> built[i].msg, num |-> built[i].num,
      channel |-> built[i].channel,
      data |-> IF built[i].to = Everyone THEN Data[built[i].msg]
               ELSE ToUmp(Data[built[i].msg], 0)]]

\* A packet leaves and is heard by all devices but those in missing.
Pdu(missing) ==
  /\ ~resendDue /\ PacketThreadWaits
  /\ RadioPdu
  /\ Device!Received(Muids \ missing, OnAir)
  /\ IF built = <<>> THEN missing = {} /\ UNCHANGED faults ELSE Fault(Cardinality(missing))
  /\ beyond' = (beyond \/ held # None)

ResendWork ==
  /\ Resend
  /\ IF \A d \in Muids : acks[d] = <<>> THEN UNCHANGED faults ELSE Fault(1)
  /\ UNCHANGED <<rxVars, beyond>>

\* An acknowledgement reaches the receive thread of central_tx.
AckArrives(d) ==
  /\ resendDue /\ acks[d] # <<>>
  /\ AckMsg(d, Head(acks[d]))
  /\ acks' = [acks EXCEPT ![d] = Tail(@)]
  /\ UNCHANGED <<previous, played, ignored, envVars>>

AckLost(d) ==
  /\ acks[d] # <<>> /\ Fault(1)
  /\ acks' = [acks EXCEPT ![d] = Tail(@)]
  /\ UNCHANGED <<bcVars, previous, played, ignored, beyond>>

IsoInit == Init /\ Device!RxInit /\ faults = 0 /\ beyond = FALSE

\* Nothing is claimed once the queue is corrupted; once an object is in it twice; or
\* once a packet had no room for what waited: the messages of one number are then in
\* several packets, and an acknowledgement of one is taken for all.
IsoNext ==
  /\ ~relinked /\ ~beyond
  /\ \/ \E m \in Messages : AppSend(m)
     \/ \E m \in Standing : AppSendAgain(m)
     \/ PacketThread
     \/ \E missing \in SUBSET Muids : Pdu(missing)
     \/ ResendWork
     \/ \E d \in Muids : AckArrives(d) \/ AckLost(d)

\* The system goes on: it does not stop between two steps when no fault and no
\* new message happens.  The timing above puts the steps of an interval in order,
\* so that fairness of each of them by itself is not needed.
Progress ==
  \/ PacketThread
  \/ Pdu({})
  \/ ResendWork
  \/ \E d \in Muids : AckArrives(d)

IsoFairness == WF_isoVars(Progress)

IsoSpec == IsoInit /\ [][IsoNext]_isoVars /\ IsoFairness

-----------------------------------------------------------------------------
(* Properties *)

Played(d) == {played[d][i].msg : i \in DOMAIN played[d]}

TypeOK ==
  /\ sent \subseteq Messages /\ freed \subseteq sent
  /\ fifo \in Seq(sent) /\ tracked \in Seq(sent)
  /\ held \in sent \cup {None} /\ seen \in 0..(PduRoom + 1)
  /\ built \in Seq(Entry) /\ ackOwner \in Seq(Muids)
  /\ token \in BOOLEAN /\ resendDue \in BOOLEAN /\ relinked \in BOOLEAN
  /\ msgNum \in 0..(NumLimit - 1) /\ num \in [Messages -> 0..NumLimit]
  /\ failures \in 0..MaxAllocFailures /\ faults \in 0..MaxFaults /\ beyond \in BOOLEAN
  /\ previous \in [Muids -> 0..NumLimit]
  /\ \A d \in Muids : acks[d] \in Seq(0..(NumLimit - 1)) /\ ignored[d] \subseteq sent

\* A message is not put into the fifo a second time while it is linked in it,
\* and is not freed while the fifo or the packet thread has it, although the
\* resend work puts the same messages into it again and again and
\* acknowledgements free them (iso_tx_msg_list_resend, iso_tx_msg_remove).
QueueSound ==
  /\ ~relinked
  /\ (ToSet(fifo) \cup {held}) \cap freed = {}

\* No device has two channels in a packet: it answers each in a slot of its own
\* and transmits one acknowledgement per interval (assign_ack_channel).
OneChannelEach ==
  \A i, j \in DOMAIN built :
    i # j /\ built[i].channel # None /\ built[j].channel # None =>
      built[i].to # built[j].to /\ built[i].channel # built[j].channel

\* What the device plays is the message the sender was given, on channel 0
\* (midi_1_0_to_ump, midi_ump_to_1_0).
PlayedAsGiven ==
  \A d \in Muids : \A i \in DOMAIN played[d] :
    LET given == Data[played[d][i].msg]
        got == played[d][i].data
    IN  /\ Opcode(got[1]) = Opcode(given[1]) /\ got[1] % 16 = 0
        /\ Tail(got) = Tail(given)

\* A message the device passes up as a repetition has been played before
\* (iso_recv).
RepetitionsWerePlayed == \A d \in Muids : ignored[d] \subseteq Played(d)

\* What is handed back to the sender was played by its device: the
\* acknowledged broadcast implements ReliableDelivery.
Reliable ==
  INSTANCE ReliableDelivery
  WITH delivered <- UNION {Played(d) : d \in Muids}, acknowledged <- freed

ImplementsReliableDelivery == Reliable!Spec

\* The list of messages without an acknowledgement gets empty again and again,
\* whatever packets and acknowledgements were lost: every tracked message is
\* handed back in the end, unless packets are full or an object is sent again before
\* (iso_tx_msg_list_resend, midi_iso_ack_msg).
EveryMessageAcknowledged == []<>(tracked = <<>> \/ beyond)
=============================================================================
