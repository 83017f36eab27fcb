--------------------------- MODULE IsoBroadcaster ---------------------------
(***************************************************************************)
(* The out port of subsys/midi/midi_iso_broadcaster.c: messages go through *)
(* a fifo into the payload of the next isochronous packet (PDU), get the   *)
(* number of that packet, and are tracked and sent again in every later    *)
(* packet until their device acknowledges muid and number.                 *)
(*                                                                         *)
(* One action per thread step: the application that sends, the packet      *)
(* thread (take from the fifo, add to the payload), the resend work, the   *)
(* thread that reports an acknowledgement; RadioPdu is the controller's    *)
(* callback and composed with the receivers in IsoLink.tla.                *)
(*                                                                         *)
(* Timestamps are left out, and every message takes one entry of the       *)
(* payload.  An entry keeps the message's identity next to the bytes the   *)
(* code copies (muid, number, channel, data).                              *)
(***************************************************************************)
EXTENDS Naturals, FiniteSets, SequencesExt, Subsequence

CONSTANTS
  Messages,      (* what is sent; an object that has left the port and is    *)
                 (* sent again is another message                            *)
  Standing,      (* those whose object is sent again and again: the test     *)
                 (* thread's, and the discovery message of central_tx        *)
  Muids,         (* low bytes of the muids of the devices                    *)
  Everyone,      (* the 0xFF in place of a muid: a chunk of MIDI 1.0 data    *)
  Dest,          (* Dest[m], muid byte of *msg->context, Everyone: MIDI 1.0  *)
  None,
  NumLimit,      (* 0xFF: the number that is skipped, and "not numbered"     *)
  Channels,      (* 5 channels for acknowledgements                          *)
  PduRoom,       (* entries that pass the test in packet_thread_fn (11)      *)
  MaxAllocFailures   (* bound: k_malloc fails in iso_tx_msg_add              *)

ASSUME BroadcasterAssumption ==
  /\ Dest \in [Messages -> Muids \cup {Everyone}] /\ Everyone \notin Muids
  /\ Standing \subseteq Messages
  /\ None \notin Messages \cup Muids \cup Nat
  /\ NumLimit \in Nat \ {0, 1} /\ Channels \in Nat /\ PduRoom \in Nat
  /\ MaxAllocFailures \in Nat

VARIABLES
  sent,       (* messages given to the port                                  *)
  fifo,       (* fifo_tx_data, linked through the messages                   *)
  relinked,   (* a message was put into the fifo while it was in it          *)
  held,       (* the message packet_thread_fn has taken                      *)
  seen,       (* its len: entries of the payload when it last looked         *)
  built,      (* the payload under construction                              *)
  ackOwner,   (* ack_channels, the muids with a channel in this payload      *)
  token,      (* sem_overflow_ctrl                                           *)
  msgNum,     (* msg_num                                                     *)
  num,        (* num[m] = msg->num                                           *)
  tracked,    (* tx_msg_list                                                 *)
  freed,      (* messages handed back to the application, which unrefs them  *)
  resendDue,  (* iso_resend_work is scheduled                                *)
  failures    (* k_malloc failures so far                                    *)

packetVars == <<held, seen, built, ackOwner, token>>
listVars == <<num, tracked, freed, failures>>
bcVars == <<sent, fifo, relinked, packetVars, listVars, msgNum, resendDue>>

Entry == [to : Muids \cup {Everyone}, msg : Messages, num : 0..NumLimit,
          channel : 1..Channels \cup {None}]

Init ==
  /\ sent = {} /\ fifo = <<>> /\ relinked = FALSE
  /\ held = None /\ seen = 0 /\ built = <<>> /\ ackOwner = <<>>
  /\ token = FALSE /\ msgNum = 0
  /\ num = [m \in Messages |-> NumLimit] /\ tracked = <<>> /\ freed = {}
  /\ resendDue = FALSE /\ failures = 0

Send(m) ==
  /\ m \notin sent
  /\ sent' = sent \cup {m}
  /\ num' = [num EXCEPT ![m] = NumLimit]
  /\ fifo' = Append(fifo, m)
  /\ UNCHANGED <<relinked, packetVars, tracked, freed, failures, msgNum, resendDue>>

\* Where sending m again resets its number under way and puts it into the fifo a
\* second time.
InPort(m) == m \in ToSet(fifo) \cup {held} \cup ToSet(tracked)

-----------------------------------------------------------------------------
(* The packet thread *)

\* The length it compares dates from before it waited for the message.
NeedsToken == seen + 1 > PduRoom

PacketTake ==
  /\ held = None /\ fifo # <<>>
  /\ held' = Head(fifo) /\ fifo' = Tail(fifo)
  /\ UNCHANGED <<sent, relinked, seen, built, ackOwner, token, listVars, msgNum, resendDue>>

\* Faulty variant: a device gets a channel for each of its messages.
AckChannelEach(muid) ==
  IF Len(ackOwner) = Channels THEN None ELSE Len(ackOwner) + 1

\* Only the first message of a device in a packet gets a channel.
AckChannel(muid) ==
  IF muid \in ToSet(ackOwner) \/ Len(ackOwner) = Channels
  THEN None ELSE Len(ackOwner) + 1

AddChunk(m) ==
  /\ Dest[m] = Everyone
  /\ built' = Append(built, [to |-> Everyone, msg |-> m, num |-> NumLimit, channel |-> None])
  /\ UNCHANGED <<ackOwner, listVars>>

\* iso_tx_msg_add of a message that has no number yet.
Track(m) ==
  IF num[m] # NumLimit THEN UNCHANGED listVars
  ELSE \E ok \in IF failures < MaxAllocFailures THEN BOOLEAN ELSE {TRUE} :
         /\ num' = IF ok THEN [num EXCEPT ![m] = msgNum] ELSE num
         /\ tracked' = IF ok THEN Append(tracked, m) ELSE tracked
         /\ failures' = IF ok THEN failures ELSE failures + 1
         /\ UNCHANGED freed

AddUmp(m) ==
  LET n == IF num[m] = NumLimit THEN msgNum ELSE num[m]
      channel == AckChannel(Dest[m])
  IN  /\ Dest[m] # Everyone
      /\ built' = Append(built, [to |-> Dest[m], msg |-> m, num |-> n, channel |-> channel])
      /\ ackOwner' = IF channel = None THEN ackOwner ELSE Append(ackOwner, Dest[m])
      /\ Track(m)

PacketAdd ==
  /\ held # None
  /\ NeedsToken => token
  /\ token' = (token /\ ~NeedsToken)
  /\ AddChunk(held) \/ AddUmp(held)
  /\ held' = None /\ seen' = Len(built')
  /\ UNCHANGED <<sent, fifo, relinked, msgNum, resendDue>>

-----------------------------------------------------------------------------
(* Packets, retransmission, acknowledgement *)

\* The packet thread has nothing it could do before the next packet.
PacketThreadWaits ==
  IF held = None THEN fifo = <<>> ELSE NeedsToken /\ ~token

\* The payload leaves, the next one is started.  Only packets with messages are
\* counted.
RadioPdu ==
  /\ resendDue' = TRUE
  /\ built' = <<>> /\ ackOwner' = <<>> /\ token' = TRUE
  /\ msgNum' = IF built = <<>> THEN msgNum
               ELSE IF msgNum + 1 = NumLimit THEN 0 ELSE msgNum + 1
  /\ UNCHANGED <<sent, fifo, relinked, held, seen, listVars>>

\* Messages of earlier packets that nobody has acknowledged, in the list's order.
Unacknowledged ==
  Picked(tracked, {i \in DOMAIN tracked : num[tracked[i]] < msgNum})

\* s is put into the fifo.  A message that is still in it is linked a second time:
\* relinked.  What the fifo holds after that is not modelled.
PutAll(s) ==
  /\ fifo' = fifo \o s
  /\ relinked' = (ToSet(fifo) \cap ToSet(s) # {})

\* Faulty variant: the work schedules itself again.
ResendTwice ==
  /\ resendDue /\ ~relinked
  /\ PutAll(Unacknowledged)
  /\ UNCHANGED <<sent, packetVars, listVars, msgNum, resendDue>>

\* Faulty variant: only messages of the packet before are sent again.
ResendLast ==
  /\ resendDue /\ ~relinked
  /\ resendDue' = FALSE
  /\ PutAll(Picked(tracked, {i \in DOMAIN tracked : num[tracked[i]] + 1 = msgNum}))
  /\ UNCHANGED <<sent, packetVars, listVars, msgNum>>

\* iso_tx_msg_list_resend
Resend ==
  /\ resendDue /\ ~relinked
  /\ resendDue' = FALSE
  /\ PutAll(Unacknowledged)
  /\ UNCHANGED <<sent, packetVars, listVars, msgNum>>

\* The messages of M are taken out of the list and handed back.
RemoveMsgs(M) ==
  /\ tracked' = Picked(tracked, {i \in DOMAIN tracked : tracked[i] \notin M})
  /\ freed' = freed \cup (ToSet(tracked) \cap M)
  /\ UNCHANGED <<sent, fifo, relinked, packetVars, num, failures, msgNum, resendDue>>

\* Faulty variant: the number alone names the messages.
AckMsgAnyDevice(muid, n) == RemoveMsgs({m \in Messages : num[m] = n})

\* midi_iso_ack_msg: all messages of the device with this number are removed
\* and handed back.
AckMsg(muid, n) == RemoveMsgs({m \in Messages : num[m] = n /\ Dest[m] = muid})
=============================================================================
