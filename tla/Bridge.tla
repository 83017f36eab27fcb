-------------------------------- MODULE Bridge --------------------------------
(***************************************************************************)
(* The stand-alone bridges between a serial line and Bluetooth LE:         *)
(* samples/bluetooth/central_midi and samples/bluetooth/peripheral_midi,   *)
(* which share all of their serial side and most of their Bluetooth side.  *)
(* Connected, a bridge sends what it reads on the line to its peer and     *)
(* plays what the peer sends on the line; unconnected it plays on the line *)
(* what it reads there.                                                    *)
(*                                                                         *)
(* Actors: the UART driver's interrupt (uart_cb); the system work queue, a *)
(* cooperative thread that runs one handler at a time and is interrupted   *)
(* by the UART only; ble_tx_work_q; the radio notification; the Bluetooth  *)
(* receive thread and its callbacks.                                       *)
(*                                                                         *)
(* A message is its bytes; bytes become messages in MidiParser.tla, and    *)
(* what goes into a packet and into how large a one is in BleMidiOut.tla:  *)
(* here a message for the peer is packed and freed.  A line that fails is  *)
(* one that says nothing more (uart_rx_enable_work enables it again).  How *)
(* long a timer runs is left open: active sensing may come due at any time *)
(* (270 ms after the last message was taken, which a backlog of the slow   *)
(* line outlives) and a message may wait for its time or not.              *)
(***************************************************************************)
EXTENDS Naturals, Sequences

CONSTANTS Roles,      (* subset of {"central", "peripheral"}                 *)
          Input,      (* bytes of the messages on both sides, 0xFE not among *)
                      (* them: uart_cb keeps active sensing to itself        *)
          MaxGiven,   (* bound: messages given to uart_midi_write            *)
          MaxQueue,   (* bound: messages waiting for the Bluetooth encoder   *)
          MaxDropped, (* bound: active sensing stops after so many drops     *)
          NULL

Byte == 0..255

\* A message for the line: the bytes to transfer, those given to uart_midi_write
\* and its number among them, 0 for active sensing.
Message == [data : Seq(Byte), whole : Seq(Byte) \ {<<>>}, number : Nat]

ASSUME BridgeAssumption ==
  /\ Roles \subseteq {"central", "peripheral"}
  /\ Input \subseteq Seq(Byte) \ {<<>>}
  /\ {MaxGiven, MaxQueue, MaxDropped} \subseteq Nat
  /\ NULL \notin Message

\* A message as the parsers make them: a status byte, and a data byte after it if
\* the status may become running status.
WellFormed(d) == d[1] >= 128 /\ (d[1] < 240 => Len(d) >= 2 /\ d[2] < 128)

ASSUME WellFormedInput == \A d \in Input : WellFormed(d)

VARIABLES role,       (* which sample this is                                *)
          link,       (* "down", "connected", "opening": messages are let    *)
                      (* through, work items not initialised, or "ready"     *)
          broken,     (* a work item was submitted before its initialisation *)
          given,      (* messages given to uart_midi_write so far            *)
          writeFifo,  (* fifo_uart_midi_write                                *)
          writeTimer, (* uart_midi_write_work waits for its delay            *)
          workq,      (* system work queue: works submitted, in order        *)
          writing,    (* message uart_midi_write_work_handler holds, or NULL *)
          rs,         (* its running_status                                  *)
          txFifo,     (* fifo_uart_tx_data                                   *)
          wire,       (* message the UART is transferring, or NULL           *)
          sink,       (* what has left on the line: its running status, the  *)
                      (* number of the last message, whether all was right   *)
          bleQueue,   (* messages in fifo_uart_rx_data                       *)
          encode,     (* ble_midi_encode_work is pending                     *)
          flush,      (* ble_tx_work is pending                              *)
          allocated,  (* complete messages allocated and not freed           *)
          dropped     (* messages taken from fifo_uart_tx_data and forgotten *)

connVars  == <<role, link, broken>>
writeVars == <<given, writeFifo, writeTimer, writing, rs>>
lineVars  == <<txFifo, wire, sink, dropped>>
bleVars   == <<bleQueue, encode, flush>>
bridgeVars == <<connVars, writeVars, workq, lineVars, bleVars, allocated>>

Elements(s) == {s[i] : i \in DOMAIN s}

-----------------------------------------------------------------------------
(* Running status on the line.                                             *)

Shortened(data, r) == IF data[1] = r THEN Tail(data) ELSE data

StatusAfter(data, r) ==
  CASE data[1] >= 248 -> r
    [] data[1] < 240  -> data[1]
    [] OTHER          -> 0

\* What a receiver with running status r makes of the bytes of one message.
Understood(bytes, r) == IF bytes[1] < 128 THEN <<r>> \o bytes ELSE bytes

-----------------------------------------------------------------------------
(* Work items. *)

\* k_work_submit: no effect on a work that is already queued.
Queued(q, work) == IF work \in Elements(q) THEN q ELSE Append(q, work)

\* k_work_schedule of uart_midi_write_work on queue q: no effect on a work that
\* is queued or waits for its delay; a message that is late is written at once.
ScheduleWrite(q) ==
  IF writeTimer \/ "write" \in Elements(q)
  THEN workq' = q /\ UNCHANGED writeTimer
  ELSE \/ workq' = Append(q, "write") /\ UNCHANGED writeTimer
       \/ workq' = q /\ writeTimer' = TRUE

DelayEnds ==
  /\ writeTimer
  /\ writeTimer' = FALSE
  /\ workq' = Queued(workq, "write")
  /\ UNCHANGED <<connVars, given, writeFifo, writing, rs, lineVars, bleVars,
                 allocated>>

\* active_sense_tx_work is always waiting: its handler and every message start
\* its delay anew.
SenseDue ==
  /\ "sense" \notin Elements(workq)
  /\ \A m \in Elements(txFifo) : m.number # 0
  /\ dropped < MaxDropped
  /\ workq' = Append(workq, "sense")
  /\ UNCHANGED <<connVars, writeVars, lineVars, bleVars, allocated>>

\* The system work queue begins its next handler.
Begins(work) == writing = NULL /\ workq # <<>> /\ Head(workq) = work

-----------------------------------------------------------------------------
(* Messages come in. *)

\* uart_midi_write
UartWrite(data) ==
  /\ given < MaxGiven
  /\ given' = given + 1
  /\ writeFifo' = Append(writeFifo, [data |-> data, whole |-> data, number |-> given'])
  /\ ScheduleWrite(workq)
  /\ UNCHANGED <<bleVars, broken>>

\* ble_midi_write
BleWrite ==
  /\ bleQueue < MaxQueue
  /\ bleQueue' = bleQueue + 1
  /\ encode' = TRUE
  /\ broken' = (link = "opening")
  /\ UNCHANGED <<flush, given, writeFifo, writeTimer, workq>>

\* UART_RX_RDY with the last byte of a message.
UartIn ==
  /\ IF link \in {"opening", "ready"} THEN BleWrite ELSE \E d \in Input : UartWrite(d)
  /\ allocated' = allocated + 1
  /\ UNCHANGED <<role, link, writing, rs, lineVars>>

\* bt_receive_cb with the last byte of a message; its thread is cooperative too.
BleIn ==
  /\ link = "ready" /\ writing = NULL
  /\ \E d \in Input : UartWrite(d)
  /\ allocated' = allocated + 1
  /\ UNCHANGED <<role, link, writing, rs, lineVars>>

-----------------------------------------------------------------------------
(* Messages go out on the line. *)

\* uart_tx has begun to transfer m; sink compares what the receiver will
\* understand with what was given.
Start(m) ==
  LET heard == Understood(m.data, sink.status)
  IN  /\ wire' = m
      /\ sink' = [status |-> StatusAfter(heard, sink.status),
                  number |-> IF m.number = 0 THEN sink.number ELSE m.number,
                  right  |-> sink.right /\ heard = m.whole
                             /\ m.number \in {0, sink.number + 1}]

\* uart_midi_write_work_handler takes a message and enforces running status.
WriteTake ==
  /\ Begins("write")
  /\ workq' = Tail(workq)
  /\ IF writeFifo = <<>> THEN UNCHANGED <<writeFifo, writing, rs>>
     ELSE LET m == Head(writeFifo)
          IN  /\ writeFifo' = Tail(writeFifo)
              /\ writing' = [m EXCEPT !.data = Shortened(@, rs)]
              /\ rs' = StatusAfter(m.data, rs)
  /\ UNCHANGED <<connVars, given, writeTimer, lineVars, bleVars, allocated>>

\* Faulty variant: a message overtakes those waiting for the UART.
SendOrQueueFirst(m) ==
  \/ /\ wire = NULL
     /\ Start(m) /\ allocated' = allocated - 1
     /\ UNCHANGED txFifo
  \/ /\ wire # NULL
     /\ txFifo' = Append(txFifo, m)
     /\ UNCHANGED <<wire, sink, allocated>>

\* Transfer m unless others wait or the UART is busy; m is freed when its
\* transfer starts.
SendOrQueue(m) ==
  \/ /\ txFifo = <<>> /\ wire = NULL
     /\ Start(m) /\ allocated' = allocated - 1
     /\ UNCHANGED txFifo
  \/ /\ txFifo # <<>> \/ wire # NULL
     /\ txFifo' = Append(txFifo, m)
     /\ UNCHANGED <<wire, sink, allocated>>

\* Faulty variant: the work is not scheduled for the messages left.
WriteSendOnce ==
  /\ writing # NULL
  /\ SendOrQueue(writing)
  /\ writing' = NULL
  /\ UNCHANGED <<connVars, given, writeFifo, writeTimer, workq, rs, dropped,
                 bleVars>>

\* The rest of the handler; the UART may have interrupted it before.
WriteSend ==
  /\ writing # NULL
  /\ SendOrQueue(writing)
  /\ writing' = NULL
  /\ IF writeFifo = <<>> THEN UNCHANGED <<writeTimer, workq>> ELSE ScheduleWrite(workq)
  /\ UNCHANGED <<connVars, given, writeFifo, rs, dropped, bleVars>>

\* active_sense_tx_work_handler: does not look at fifo_uart_tx_data.
SenseWork ==
  /\ Begins("sense")
  /\ workq' = Tail(workq)
  /\ LET sense == [data |-> <<254>>, whole |-> <<254>>, number |-> 0]
     IN  \/ wire = NULL /\ Start(sense) /\ UNCHANGED <<txFifo, allocated>>
         \/ /\ wire # NULL /\ txFifo' = Append(txFifo, sense)
            /\ allocated' = allocated + 1 /\ UNCHANGED <<wire, sink>>
  /\ UNCHANGED <<connVars, writeVars, dropped, bleVars>>

\* Faulty variant: a message that was sent is not freed.
EmptyWorkKeeps ==
  /\ Begins("empty")
  /\ workq' = Tail(workq)
  /\ \/ txFifo = <<>> /\ UNCHANGED <<lineVars, allocated>>
     \/ /\ txFifo # <<>>
        /\ txFifo' = Tail(txFifo)
        /\ \/ wire = NULL /\ Start(Head(txFifo)) /\ UNCHANGED <<allocated, dropped>>
           \/ wire # NULL /\ dropped' = dropped + 1 /\ UNCHANGED <<wire, sink, allocated>>
  /\ UNCHANGED <<connVars, writeVars, bleVars>>

\* uart_empty_tx_buffer_work_handler: when uart_tx refuses the message, nobody
\* has it any more.
EmptyWork ==
  /\ Begins("empty")
  /\ workq' = Tail(workq)
  /\ \/ txFifo = <<>> /\ UNCHANGED <<lineVars, allocated>>
     \/ /\ txFifo # <<>>
        /\ txFifo' = Tail(txFifo)
        /\ \/ wire = NULL /\ Start(Head(txFifo)) /\ allocated' = allocated - 1
              /\ UNCHANGED dropped
           \/ wire # NULL /\ dropped' = dropped + 1 /\ UNCHANGED <<wire, sink, allocated>>
  /\ UNCHANGED <<connVars, writeVars, bleVars>>

\* UART_TX_DONE
TxDone ==
  /\ wire # NULL
  /\ wire' = NULL
  /\ workq' = Queued(workq, "empty")
  /\ UNCHANGED <<connVars, writeVars, txFifo, sink, dropped, bleVars, allocated>>

-----------------------------------------------------------------------------
(* Messages go out to the peer. *)

\* ble_midi_encode_work_handler: one message, then the item submits itself.
EncodeWork ==
  /\ encode
  /\ \/ /\ bleQueue = 0
        /\ encode' = FALSE
        /\ UNCHANGED <<bleQueue, allocated>>
     \/ /\ bleQueue > 0
        /\ bleQueue' = bleQueue - 1
        /\ allocated' = allocated - 1
        /\ UNCHANGED encode
  /\ UNCHANGED <<connVars, writeVars, workq, lineVars, flush>>

\* ble_tx_work_handler
TxWork ==
  /\ flush
  /\ flush' = FALSE
  /\ UNCHANGED <<connVars, writeVars, workq, lineVars, bleQueue, encode,
                 allocated>>

\* radio_notif_handler; its interrupt is enabled last and disabled first.
RadioNotification ==
  /\ link = "ready"
  /\ flush' = TRUE
  /\ UNCHANGED <<connVars, writeVars, workq, lineVars, bleQueue, encode,
                 allocated>>

-----------------------------------------------------------------------------
(* Connections. *)

LinkStep(from, to) ==
  /\ link = from
  /\ link' = to
  /\ UNCHANGED <<role, broken, writeVars, workq, lineVars, bleVars,
                 allocated>>

\* connected in the central's main.c: discovery starts.
ConnectedCentral == role = "central" /\ LinkStep("down", "connected")

\* discovery_complete up to ble_midi_ready = true.
DiscoveryComplete == role = "central" /\ LinkStep("connected", "opening")

\* connected in the peripheral's main.c up to current_conn = bt_conn_ref(conn).
ConnectedPeripheral == role = "peripheral" /\ LinkStep("down", "opening")

\* The rest of discovery_complete or connected: k_work_init of both items.  The
\* work queue has run dry since the last connection, which took milliseconds.
WorksInitialised == ~encode /\ ~flush /\ LinkStep("opening", "ready")

\* disconnected: the central scans again, the peripheral advertises again.
Disconnected == link # "opening" /\ link # "down" /\ LinkStep(link, "down")

-----------------------------------------------------------------------------
Init ==
  /\ role \in Roles
  /\ link = "down" /\ broken = FALSE
  /\ given = 0 /\ writeFifo = <<>> /\ writeTimer = FALSE /\ writing = NULL /\ rs = 0
  /\ workq = <<>>
  /\ txFifo = <<>> /\ wire = NULL /\ dropped = 0
  /\ sink = [status |-> 0, number |-> 0, right |-> TRUE]
  /\ bleQueue = 0 /\ encode = FALSE /\ flush = FALSE
  /\ allocated = 0

Uart       == UartIn \/ TxDone
Timers     == DelayEnds \/ SenseDue
SystemWork == WriteTake \/ WriteSend \/ SenseWork \/ EmptyWork
BleWork    == EncodeWork \/ TxWork
Bluetooth  == \/ BleIn \/ RadioNotification
              \/ ConnectedCentral \/ DiscoveryComplete \/ ConnectedPeripheral
              \/ WorksInitialised \/ Disconnected

\* Nothing is claimed of what an uninitialised work item does.
Next == ~broken /\ (Uart \/ Timers \/ SystemWork \/ BleWork \/ Bluetooth)

Spec == Init /\ [][Next]_bridgeVars

\* The work queues run what is pending, a transfer ends, a delay ends.
Fairness ==
  /\ WF_bridgeVars(~broken /\ (WriteTake \/ WriteSend \/ SenseWork \/ EmptyWork))
  /\ WF_bridgeVars(~broken /\ TxDone)
  /\ WF_bridgeVars(~broken /\ DelayEnds)

FairSpec == Spec /\ Fairness

-----------------------------------------------------------------------------
(* Properties *)

\* As long as no message was dropped, the receiver on the line understands the
\* messages given to uart_midi_write, whole and in order, though they wait in two
\* queues, lose bytes to running status and active sensing cuts in
\* (uart_midi_write_work_handler, uart_empty_tx_buffer_work_handler).
PlayedInOrder == dropped = 0 => sink.right

\* A message given to uart_midi_write leaves both queues in the end: no work item
\* that serves them is forgotten, whichever handler starts or ends the transfers.
EveryMessagePlayed ==
  \A n \in 1..MaxGiven :
    (\E m \in Elements(writeFifo \o txFifo) : m.number = n)
      ~> (broken \/ \A m \in Elements(writeFifo \o txFifo) : m.number # n)

\* Messages the handler of uart_midi_write_work has taken and not passed on.
InHandler == IF writing = NULL THEN 0 ELSE 1

\* The heap holds the messages that wait somewhere, and besides them only those
\* that were dropped: every path frees a message once.
NothingLeaked ==
  allocated = Len(writeFifo) + Len(txFifo) + bleQueue + dropped + InHandler
=============================================================================
