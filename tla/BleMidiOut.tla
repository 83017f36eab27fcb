----------------------------- MODULE BleMidiOut -----------------------------
(***************************************************************************)
(* The out port of the Bluetooth LE peripheral,                            *)
(* subsys/midi/midi_bluetooth_peripheral.c: messages are queued, encoded   *)
(* into a BLE-MIDI packet by a work item and sent as a notification when   *)
(* the packet is full or the radio is about to become active.              *)
(*                                                                         *)
(* Actors: threads that call midi_send; the work queue ble_tx_work_q, one  *)
(* thread that runs ble_midi_encode_work and ble_tx_work; the radio        *)
(* notification interrupt; the Bluetooth stack, which connects,            *)
(* disconnects, negotiates the MTU and takes notifications.                *)
(*                                                                         *)
(* A message has bytes, a 13-bit timestamp and, for the properties, the    *)
(* number under which midi_send accepted it.                               *)
(***************************************************************************)
EXTENDS Naturals, Integers, Sequences, FiniteSets

CONSTANTS Input,      (* bytes of the messages the application may send      *)
          Times,      (* timestamps they may have                            *)
          PckMax,     (* BLE_MIDI_TX_MAX_SIZE                                *)
          Mtus,       (* ATT MTUs the peer may negotiate; the stack's own    *)
                      (* limit CONFIG_BT_L2CAP_TX_MTU is PckMax + 3          *)
          DefaultMtu, (* ATT MTU of a new connection                         *)
          MaxNumber,  (* bound: messages accepted                            *)
          MaxQueue,   (* bound: messages in the fifo                         *)
          MaxConns,   (* bound: connections                                  *)
          NULL

Byte     == 0..255
MidiTime == 0..8191   (* milliseconds, 13 bits *)

ASSUME BleAssumption ==
  /\ Input \subseteq Seq(Byte) \ {<<>>}
  /\ Times \subseteq MidiTime
  /\ PckMax \in Nat /\ PckMax >= 5
  /\ Mtus \subseteq 8..(PckMax + 3) /\ DefaultMtu \in 8..(PckMax + 3)
  /\ {MaxNumber, MaxQueue, MaxConns} \subseteq Nat

Message == [data : Input, ts : Times, number : 1..MaxNumber]

ASSUME NullAssumption == NULL \notin Message

VARIABLES conn,      (* current_conn: number of the connection, 0 for NULL    *)
          mtu,       (* ATT MTU of the connection                            *)
          mtuSize,   (* mtu_size                                             *)
          subscribed,(* the peer has enabled notifications                   *)
          conns,     (* connections so far                                   *)
          sender,    (* message of a thread inside send_to_bluetooth_port    *)
                     (* past its check of current_conn, or NULL              *)
          fifo,      (* fifo_tx_data                                         *)
          encode,    (* ble_midi_encode_work is pending                      *)
          flush,     (* ble_tx_work is pending                               *)
          pck,       (* the first ble_midi_pck_len bytes of ble_midi_pck     *)
          inside,    (* the messages encoded in pck                          *)
          rs,        (* running_status of the encoder                        *)
          overflow,  (* bytes were written past the end of ble_midi_pck      *)
          number,    (* messages accepted so far                             *)
          out        (* last packet given to the stack, with its messages    *)

connVars  == <<conn, mtu, mtuSize, subscribed, conns>>
queueVars == <<sender, fifo, number>>
pckVars   == <<pck, inside, rs, overflow>>
bleVars   == <<connVars, queueVars, encode, flush, pckVars, out>>

NoPacket == [bytes |-> <<>>, messages |-> <<>>, taken |-> FALSE]

-----------------------------------------------------------------------------
(* bt_midi_send: the stack takes a packet on a connection whose peer is    *)
(* subscribed when it fits the ATT MTU; the result is ignored everywhere.  *)

Notify(bytes, messages) ==
  out' = [bytes |-> bytes, messages |-> messages,
          taken |-> conn # 0 /\ subscribed /\ Len(bytes) <= mtu - 3]

-----------------------------------------------------------------------------
(* send_to_bluetooth_port, called by an application thread. *)

\* Not connected: the message is handed back at once.
\* Connected: it will be queued, but the thread may be preempted first.
SendCheck ==
  /\ sender = NULL
  /\ conn # 0
  /\ number < MaxNumber /\ Len(fifo) < MaxQueue
  /\ \E d \in Input, t \in Times :
       sender' = [data |-> d, ts |-> t, number |-> number + 1]
  /\ number' = number + 1
  /\ UNCHANGED <<connVars, fifo, encode, flush, pckVars, out>>

\* Faulty variant: the encoder is not woken.
SendPutSilent ==
  /\ sender # NULL
  /\ fifo' = Append(fifo, sender)
  /\ sender' = NULL
  /\ UNCHANGED <<connVars, number, encode, flush, pckVars, out>>

\* Faulty variant: the message overtakes those already queued.
SendPutInFront ==
  /\ sender # NULL
  /\ fifo' = <<sender>> \o fifo
  /\ sender' = NULL
  /\ encode' = TRUE
  /\ UNCHANGED <<connVars, number, flush, pckVars, out>>

SendPut ==
  /\ sender # NULL
  /\ fifo' = Append(fifo, sender)
  /\ sender' = NULL
  /\ encode' = TRUE
  /\ UNCHANGED <<connVars, number, flush, pckVars, out>>

-----------------------------------------------------------------------------
(* The work queue. *)

\* ble_tx_work_handler
TxWork ==
  /\ flush
  /\ flush' = FALSE
  /\ IF pck # <<>>
     THEN Notify(pck, inside) /\ pck' = <<>> /\ inside' = <<>>
     ELSE UNCHANGED <<out, pck, inside>>
  /\ UNCHANGED <<connVars, queueVars, encode, rs, overflow>>

\* Faulty variant: the byte of the timestamp is not counted.
PacketFullOffByOne(m) == Len(m.data) > (mtuSize - 3) - Len(pck)

\* The message does not fit behind the bytes already in the packet.
PacketFull(m) == Len(m.data) + 1 > (mtuSize - 3) - Len(pck)

\* The upper 6 and the lower 7 bits of a time, each in a byte of its own.
Header(t)    == 128 + ((t \div 128) % 64)
Timestamp(t) == 128 + (t % 128)

\* Bytes of m under running status r, and the running status after it.
Shortened(m, r) == IF m.data[1] = r THEN Tail(m.data) ELSE m.data

\* Faulty variant: a system common message does not end running status.
StatusOutlivesCommon(m, r) == IF m.data[1] < 240 THEN m.data[1] ELSE r

StatusAfter(m, r) ==
  CASE m.data[1] >= 248 -> r
    [] m.data[1] < 240  -> m.data[1]
    [] OTHER            -> 0

\* More bytes than ble_midi_pck has.
PastEnd(bytes) == Len(bytes) > PckMax

\* The message goes into the packet, after a header if it is the first.
Encode(m, packet, r) ==
  LET fresh == packet = <<>>
      start == IF fresh THEN <<Header(m.ts)>> ELSE packet
      base  == IF fresh THEN 0 ELSE r
      full  == start \o <<Timestamp(m.ts)>> \o Shortened(m, base)
  IN  /\ pck' = full
      /\ rs' = StatusAfter(m, base)
      /\ overflow' = PastEnd(full)

\* ble_midi_encode_work_handler: one message, then the item submits itself.
EncodeWork ==
  /\ encode
  /\ IF fifo = <<>>
     THEN /\ encode' = FALSE
          /\ UNCHANGED <<fifo, pckVars, out>>
     ELSE LET m == Head(fifo)
          IN  /\ fifo' = Tail(fifo)
              /\ IF PacketFull(m)
                 THEN /\ Notify(pck, inside)
                      /\ Encode(m, <<>>, rs)
                      /\ inside' = <<m>>
                 ELSE /\ Encode(m, pck, rs)
                      /\ inside' = Append(inside, m)
                      /\ UNCHANGED out
              /\ UNCHANGED encode
  /\ UNCHANGED <<connVars, sender, number, flush>>

\* Faulty variant: the interrupt does not start the work item.
RadioNotificationSilent ==
  /\ conn # 0
  /\ UNCHANGED bleVars

\* radio_notif_handler; its interrupt is enabled while there is a connection.
RadioNotification ==
  /\ conn # 0
  /\ flush' = TRUE
  /\ UNCHANGED <<connVars, queueVars, encode, pckVars, out>>

-----------------------------------------------------------------------------
(* Connections. *)

\* connected: the work items are initialised again.  A new connection takes
\* milliseconds, so that the work queue (a cooperative thread) has run dry and
\* neither item is pending.
Connected ==
  /\ conn = 0 /\ conns < MaxConns
  /\ ~encode /\ ~flush
  /\ conn' = conns + 1 /\ conns' = conns + 1
  /\ mtu' = DefaultMtu
  /\ subscribed' = FALSE
  /\ UNCHANGED <<mtuSize, queueVars, encode, flush, pckVars, out>>

\* disconnected: the fifo and the packet keep their contents.
Disconnected ==
  /\ conn # 0
  /\ conn' = 0
  /\ UNCHANGED <<mtu, mtuSize, subscribed, conns, queueVars, encode, flush,
                 pckVars, out>>

\* The peer exchanges the MTU; the application is not told.
MtuExchanged ==
  /\ conn # 0 /\ mtu = DefaultMtu
  /\ mtu' \in Mtus
  /\ UNCHANGED <<conn, mtuSize, subscribed, conns, queueVars, encode, flush,
                 pckVars, out>>

Subscribe ==
  /\ conn # 0
  /\ subscribed' = TRUE
  /\ UNCHANGED <<conn, mtu, mtuSize, conns, queueVars, encode, flush, pckVars, out>>

\* Faulty variant: the size of a notification is stored, not the MTU.
ParamUpdatedPayload ==
  /\ conn # 0
  /\ mtuSize' = mtu - 3
  /\ UNCHANGED <<conn, mtu, subscribed, conns, queueVars, encode, flush, pckVars,
                 out>>

\* le_param_updated
ParamUpdated ==
  /\ conn # 0
  /\ mtuSize' = mtu
  /\ UNCHANGED <<conn, mtu, subscribed, conns, queueVars, encode, flush, pckVars,
                 out>>

-----------------------------------------------------------------------------
Init ==
  /\ conn = 0 /\ conns = 0 /\ subscribed = FALSE
  /\ mtu = DefaultMtu /\ mtuSize = PckMax + 3
  /\ sender = NULL /\ fifo = <<>> /\ number = 0
  /\ encode = FALSE /\ flush = FALSE
  /\ pck = <<>> /\ inside = <<>> /\ rs = 0 /\ overflow = FALSE
  /\ out = NoPacket

Sender     == SendCheck \/ SendPut
WorkQueue  == EncodeWork \/ TxWork
Connection == Connected \/ Disconnected \/ MtuExchanged \/ Subscribe \/ ParamUpdated

\* Nothing is claimed of what happens after bytes were written past the packet.
Next ==
  /\ ~overflow
  /\ Sender \/ WorkQueue \/ RadioNotification \/ Connection

Spec == Init /\ [][Next]_bleVars

\* A thread that has passed the check goes on, the work queue runs a pending item
\* in the end (a blocked notification ends with the connection), the radio
\* becomes active while there is a connection.
Fairness ==
  /\ WF_bleVars(~overflow /\ SendPut)
  /\ WF_bleVars(~overflow /\ EncodeWork)
  /\ WF_bleVars(~overflow /\ TxWork)
  /\ WF_bleVars(~overflow /\ RadioNotification)

FairSpec == Spec /\ Fairness

-----------------------------------------------------------------------------
(* Properties *)

Messages == Seq(Message)

TypeOK ==
  /\ conn \in 0..MaxConns /\ conns \in 0..MaxConns
  /\ {mtu, mtuSize} \subseteq 8..(PckMax + 3)
  /\ {subscribed, encode, flush, overflow} \subseteq BOOLEAN
  /\ sender \in Message \cup {NULL}
  /\ fifo \in Messages /\ inside \in Messages
  /\ number \in 0..MaxNumber
  /\ pck \in Seq(Byte)
  /\ rs \in Byte
  /\ out \in [bytes : Seq(Byte), messages : Messages, taken : BOOLEAN]

\* ble_midi_encode_work_handler never writes past the end of ble_midi_pck.
PacketInBounds == ~overflow /\ ~PastEnd(pck)

\* Accepted messages on their way: those of the last packet, of the one being
\* filled, of the fifo and of a thread about to queue one.
Underway ==
  out.messages \o inside \o fifo \o (IF sender = NULL THEN <<>> ELSE <<sender>>)

\* Every accepted message is encoded once and in the order midi_send accepted it,
\* whatever connects or disconnects in between: none is lost or repeated between
\* the fifo and the packet, none twice in a packet.
EncodedInOrder ==
  \A i \in DOMAIN Underway :
    Underway[i].number = number - (Len(Underway) - i)

\* A queued message gets into a packet in the end.
EveryMessageEncoded == \A n \in 1..MaxNumber :
  (\E i \in DOMAIN fifo : fifo[i].number = n)
    ~> (\A i \in DOMAIN fifo : fifo[i].number # n)

\* A packet is sent in the end if the connection lasts, full or not.
EveryPacketSent == pck # <<>> ~> (pck = <<>> \/ conn = 0)
=============================================================================
