--------------------------- MODULE BleConnection ----------------------------
(***************************************************************************)
(* The connection of the Bluetooth LE central, subsys/midi/                *)
(* midi_bluetooth_central.c with the GATT client subsys/bluetooth/         *)
(* services/midi_client.c, as samples/api/bluetooth/central_midi uses it:  *)
(* scanning, connecting, service discovery, the subscription, the end of   *)
(* the connection; and what the two works of its own queue and the         *)
(* callbacks of the host read of it meanwhile.                             *)
(*                                                                         *)
(* Connections are numbered; so are the attribute handles, by the          *)
(* connection on which they were found, None standing for 0xFFFF and for   *)
(* those never assigned.  Of the messages queued and of those in the       *)
(* packet only the number counts: what is in them is in BleMidiOut.tla.    *)
(***************************************************************************)
EXTENDS Integers

CONSTANTS
  MaxConns,       (* bound: connections, failed ones included; the last one  *)
                  (* does not fail                                           *)
  MaxMsgs,        (* bound: messages sent                                    *)
  Rooms,          (* messages that fit a packet, by MTU                      *)
  DefaultRoom,
  Wrap,           (* stands for 2^13 ms, after which timestamps wrap         *)
  Interval        (* connection interval in ms                               *)

ASSUME BleConnectionAssumption ==
  /\ MaxConns \in Nat \ {0} /\ MaxMsgs \in Nat /\ Rooms \subseteq Nat \ {0}
  /\ DefaultRoom \in Rooms
  /\ Wrap \in Nat \ {0} /\ Interval \in 1..(Wrap - 1)

VARIABLES
  link,         (* the host: "idle", "scan", "connecting" or "up"            *)
  currentConn,  (* current_conn, 0 for NULL                                  *)
  conns,        (* connections made so far                                   *)
  peer,         (* the peer of the connection, see Peers                     *)
  dm,           (* service discovery runs                                    *)
  client,       (* midi_client: conn, handles.io, handles.io_ccc, the bit    *)
                (* IO_NOTIF_ENABLED, and the host's subscription of          *)
                (* io_notif_params                                           *)
  works,        (* k_work_init has been called                               *)
  irq,          (* TEMP_IRQn is enabled                                      *)
  room,         (* mtu_size                                                  *)
  fifo,         (* messages in fifo_tx_data                                  *)
  packet,       (* messages in ble_midi_pck                                  *)
  encode, tx,   (* ble_midi_encode_work, ble_tx_work are pending             *)
  sent,         (* the last packet written: the connection and the handle    *)
  count,        (* messages sent so far                                      *)
  gaveUp,       (* nothing but the application would start to scan again     *)
  subFailed,    (* history: the last subscription failed or was refused      *)
  broken,       (* a work was submitted before it was initialised            *)
  correction    (* of convert_timestamp                                      *)

hostVars == <<link, currentConn, conns, peer, dm, gaveUp>>
clientVars == <<client, works, irq, subFailed>>
workVars == <<fifo, packet, encode, tx, sent, count, broken>>
connVars == <<hostVars, clientVars, room, workVars, correction>>

None == 0

\* A MIDI device; one whose characteristic has no CCC; one whose MIDI service has
\* no such characteristic; a device without the service.
Peers == {"midi", "noccc", "noio", "other"}

\* midi_bluetooth_out_device_init with midi_client_init and scan_init.
Init ==
  /\ link = "idle" /\ currentConn = 0 /\ conns = 0 /\ peer = "midi" /\ dm = FALSE
  /\ client = [conn |-> 0, io |-> None, ccc |-> None, notif |-> FALSE, sub |-> FALSE]
  /\ works = FALSE /\ irq = FALSE /\ subFailed = FALSE /\ room = DefaultRoom
  /\ fifo = 0 /\ packet = 0 /\ encode = FALSE /\ tx = FALSE
  /\ sent = [to |-> 0, io |-> None] /\ count = 0
  /\ gaveUp = FALSE /\ broken = FALSE /\ correction = 0

-----------------------------------------------------------------------------
(* Callbacks of the host *)

\* bt_scan_start, which may fail.
StartScan ==
  \/ link' = "scan" /\ UNCHANGED gaveUp
  \/ link' = "idle" /\ gaveUp' = TRUE

\* midi_bluetooth_scan, called once by main.
Scan ==
  /\ link = "idle" /\ conns = 0 /\ ~gaveUp
  /\ StartScan
  /\ UNCHANGED <<currentConn, conns, peer, dm, clientVars, room, workVars, correction>>

\* scan_connecting: a device matches the filter.  The works of an earlier
\* connection are done by then: their queue has a cooperative priority, and a
\* device is found no sooner than it has sent its next advertisement.
ScanConnecting ==
  /\ link = "scan" /\ conns < MaxConns
  /\ ~encode /\ ~tx
  /\ link' = "connecting"
  /\ conns' = conns + 1
  /\ currentConn' = conns'
  /\ peer' \in Peers
  /\ UNCHANGED <<dm, gaveUp, clientVars, room, workVars, correction>>

\* The scan module stops the scan and fails to start the connection; the port
\* has registered no callback for it.
CreateFails ==
  /\ link = "scan"
  /\ link' = "idle" /\ gaveUp' = TRUE
  /\ UNCHANGED <<currentConn, conns, peer, dm, clientVars, room, workVars, correction>>

\* Faulty variant: a failed connection does not start the scan again.
ConnectFailedNoScan ==
  /\ link = "connecting" /\ conns < MaxConns
  /\ currentConn' = 0
  /\ link' = "idle"
  /\ UNCHANGED <<conns, peer, dm, gaveUp, clientVars, room, workVars, correction>>

\* connected, with an error.
ConnectFailed ==
  /\ link = "connecting" /\ conns < MaxConns
  /\ currentConn' = 0
  /\ StartScan
  /\ UNCHANGED <<conns, peer, dm, clientVars, room, workVars, correction>>

\* connected: service discovery starts, or fails to.
Connected ==
  /\ link = "connecting"
  /\ link' = "up"
  /\ \/ dm' = TRUE /\ UNCHANGED gaveUp
     \/ dm' = FALSE /\ gaveUp' = TRUE
  /\ UNCHANGED <<currentConn, conns, peer, clientVars, room, workVars, correction>>

\* exchange_func.
Exchanged ==
  /\ link = "up"
  /\ room' \in Rooms
  /\ UNCHANGED <<hostVars, clientVars, workVars, correction>>

\* Faulty variant: the client keeps the handles of an earlier connection.
HandlesAssignOnce ==
  IF client.io # None THEN [client EXCEPT !.conn = currentConn]
  ELSE [client EXCEPT !.conn = currentConn, !.io = currentConn, !.ccc = currentConn]

\* bt_midi_client_handles_assign: the handles are stored one by one, the
\* connection last, and only if both have been found; nobody looks at the result.
HandlesAssign ==
  CASE peer = "midi"  -> [client EXCEPT !.conn = currentConn, !.io = currentConn,
                                        !.ccc = currentConn]
    [] peer = "noccc" -> [client EXCEPT !.io = currentConn, !.ccc = None]
    [] OTHER          -> [client EXCEPT !.io = None, !.ccc = None]

\* bt_midi_client_notif_enable: nothing is done if the bit is set; it is cleared
\* again if bt_gatt_subscribe fails (ok FALSE), as it does without a connection.
\* Nobody looks at this result either.
NotifEnable(c, ok) ==
  IF c.notif THEN client' = c /\ UNCHANGED subFailed
  ELSE /\ ok => c.conn # 0
       /\ client' = [c EXCEPT !.notif = ok, !.sub = ok]
       /\ subFailed' = ~ok

\* discovery_complete.
DiscoveryComplete ==
  /\ dm /\ peer # "other"
  /\ dm' = FALSE
  /\ \E ok \in BOOLEAN : NotifEnable(HandlesAssign, ok)
  /\ works' = TRUE /\ irq' = TRUE
  /\ UNCHANGED <<link, currentConn, conns, peer, gaveUp, room, workVars, correction>>

\* The peer answers the subscription with an error, as it does if the CCC is not
\* there: the host removes it and calls on_received without data.
SubscriptionRefused ==
  /\ link = "up" /\ client.sub
  /\ client' = [client EXCEPT !.notif = FALSE, !.sub = FALSE]
  /\ subFailed' = TRUE
  /\ UNCHANGED <<hostVars, works, irq, room, workVars, correction>>

\* discovery_service_not_found, discovery_error: logged only.
DiscoveryFails ==
  /\ dm
  /\ dm' = FALSE /\ gaveUp' = TRUE
  /\ UNCHANGED <<link, currentConn, conns, peer, clientVars, room, workVars, correction>>

\* The connection ends: disconnected, and on_received without data, which the
\* host calls for the subscription.
Disconnected ==
  /\ link = "up"
  /\ link' = "idle" /\ currentConn' = 0 /\ dm' = FALSE
  /\ client' = [client EXCEPT !.notif = FALSE, !.sub = FALSE]
  /\ irq' = FALSE
  /\ gaveUp' = TRUE
  /\ UNCHANGED <<conns, peer, works, subFailed, room, workVars, correction>>

\* The application scans again some time after a disconnection.
ScanAgain ==
  /\ link = "idle" /\ gaveUp /\ conns < MaxConns
  /\ link' = "scan" /\ gaveUp' = FALSE
  /\ UNCHANGED <<currentConn, conns, peer, dm, clientVars, room, workVars, correction>>

-----------------------------------------------------------------------------
(* Messages *)

\* send_to_bluetooth_port: without a connection the message is handed back.
Send ==
  /\ count < MaxMsgs
  /\ currentConn # 0
  /\ count' = count + 1
  /\ fifo' = fifo + 1
  /\ encode' = TRUE
  /\ broken' = (broken \/ ~works)
  /\ UNCHANGED <<hostVars, clientVars, room, packet, tx, sent, correction>>

\* bt_midi_client_send: the packet is lost if the client has no connection or
\* the one it has is gone.  There is one connection object (CONFIG_BT_MAX_CONN is
\* left at 1), so that an earlier connection's pointer is the present one's too.
ClientSend ==
  IF client.conn # 0 /\ link = "up"
  THEN sent' = [to |-> currentConn, io |-> client.io]
  ELSE UNCHANGED sent

\* ble_midi_encode_work_handler, which submits itself again after a message.
EncodeWork ==
  /\ encode /\ works
  /\ IF fifo = 0
     THEN encode' = FALSE /\ UNCHANGED <<fifo, packet, sent>>
     ELSE /\ fifo' = fifo - 1
          /\ IF packet >= room
             THEN ClientSend /\ packet' = 1
             ELSE UNCHANGED sent /\ packet' = packet + 1
          /\ UNCHANGED encode
  /\ UNCHANGED <<hostVars, clientVars, room, tx, count, broken, correction>>

\* radio_notif_handler.
RadioNotification ==
  /\ irq
  /\ tx' = TRUE
  /\ UNCHANGED <<hostVars, clientVars, room, fifo, packet, encode, sent, count, broken, correction>>

\* ble_tx_work_handler.
TxWork ==
  /\ tx
  /\ tx' = FALSE
  /\ packet' = 0
  /\ IF packet # 0 THEN ClientSend ELSE UNCHANGED sent
  /\ UNCHANGED <<hostVars, clientVars, room, fifo, encode, count, broken, correction>>

-----------------------------------------------------------------------------
(* Timestamps received *)

\* Faulty variant: the correction is not adjusted to early timestamps.
CorrectedLateOnly(ts, connTime) ==
  LET start == (connTime + correction) % Wrap
      end == start + Interval
  IN  IF ts > end THEN (ts - connTime - Interval) % Wrap ELSE correction

\* convert_timestamp: the offset of the peer's clock, kept if the timestamp
\* falls into the interval.
Corrected(ts, connTime) ==
  LET start == (connTime + correction) % Wrap
      end == start + Interval
  IN  IF ts > end THEN (ts - connTime - Interval) % Wrap
      ELSE IF ts < start /\ start < end % Wrap THEN (ts - connTime) % Wrap
      ELSE correction

\* bt_receive_cb, for the timestamp of a packet that belongs to the connection
\* event at connTime.
Received(ts, connTime) ==
  /\ link = "up" /\ client.sub
  /\ correction' = Corrected(ts, connTime)
  /\ UNCHANGED <<hostVars, clientVars, room, workVars>>

HostStep ==
  \/ Scan \/ ScanConnecting \/ Connected \/ DiscoveryComplete \/ DiscoveryFails

Next ==
  /\ ~broken
  /\ \/ HostStep \/ CreateFails \/ ConnectFailed \/ Exchanged
     \/ SubscriptionRefused \/ Disconnected \/ ScanAgain
     \/ Send \/ EncodeWork \/ RadioNotification \/ TxWork
     \/ \E ts, connTime \in 0..(Wrap - 1) : Received(ts, connTime)

\* main scans, the controller finds devices and connects, and discovery ends; the
\* thread of the work queue runs what was submitted.
Fairness ==
  /\ WF_connVars(HostStep /\ ~broken)
  /\ WF_connVars((EncodeWork \/ TxWork) /\ ~broken)

Spec == Init /\ [][Next]_connVars /\ Fairness

-----------------------------------------------------------------------------
(* Properties *)

\* Once the application has been told of a connection to a MIDI device, and
\* until it ends, the client has the handles of this connection, not of an
\* earlier one, and is subscribed - unless the subscription has failed or was
\* refused, which the code tells nobody.  The bit that says so never stays set
\* from an earlier connection, which would keep the client from subscribing on
\* this one (discovery_complete, midi_client.c).
ToldIsUsable ==
  /\ client.notif = client.sub
  /\ client.sub => link = "up" /\ ~dm
  /\ irq /\ peer = "midi" =>
       /\ link = "up"
       /\ client.conn = currentConn /\ client.io = currentConn /\ client.ccc = currentConn
       /\ client.sub \/ subFailed

\* The handle a packet is written to is the connected peer's (midi_client.h:19,
\* "Handles on the connected peer device"), or none.
HandlesOfPeer == sent.io \in {sent.to, None}

\* A scan leads to a connection the application is told of, however many
\* attempts fail, unless the code has given up: discovery failed, or a scan
\* did not start, or the connection ended (connected, scan_connecting).
ScanFindsDevice == (link = "scan") ~> (irq \/ gaveUp \/ broken)

\* The local time of a message lies in the connection interval in which it
\* came, whatever the clocks of the two sides did, unless the interval crosses
\* the wrap of the peer's clock (convert_timestamp).
LocalTimeInInterval ==
  \A ts, connTime \in 0..(Wrap - 1) :
    ((connTime + correction) % Wrap) + Interval < Wrap =>
      (ts - Corrected(ts, connTime) - connTime) % Wrap <= Interval
=============================================================================
