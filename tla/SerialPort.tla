----------------------------- MODULE SerialPort -----------------------------
(***************************************************************************)
(* A MIDI serial port: subsys/midi/midi_serial.c.  Five actors share it:   *)
(*                                                                         *)
(*   the UART driver   runs uart_cb in its interrupt: received bytes are   *)
(*                     queued, the end of a transfer gives tx_sem          *)
(*   midi_rx_thread    hands queued bytes to the receive callback          *)
(*   midi_tx_thread    hands back the message sent before, takes the next  *)
(*                     one and starts its transfer                         *)
(*   the application   calls midi_send and owns what the callbacks give it *)
(*   the line          delivers bytes, fails and recovers                  *)
(*                                                                         *)
(* A message is one heap object of Heap, and k_malloc fails when all of    *)
(* them are in use.  label numbers the bytes of the line and the messages  *)
(* of midi_send so that their order can be checked.  How long a message    *)
(* waits for its timestamp is not modelled: the transmit thread may take   *)
(* any time between two steps.                                             *)
(***************************************************************************)
EXTENDS Naturals, Sequences, FiniteSets

CONSTANTS Heap,        (* message objects that fit in the heap               *)
          Labels,      (* labels are counted modulo this number              *)
          MaxBurst,    (* most bytes the driver reports in one UART_RX_RDY   *)
          CanExhaust,  (* bytes arrive also when the heap is used up         *)
          CanTxFail,   (* uart_tx may fail although no transfer is under way *)
          CanLineFail, (* line errors stop reception                         *)
          NULL

ASSUME SerialAssumption ==
  /\ IsFiniteSet(Heap) /\ NULL \notin Heap
  /\ Labels \in Nat /\ Labels > Cardinality(Heap)
  /\ MaxBurst \in Nat \ {0}
  /\ {CanExhaust, CanTxFail, CanLineFail} \subseteq BOOLEAN

VARIABLES live,      (* heap objects in use                                  *)
          label,     (* number of the byte or message in a heap object       *)
          app,       (* messages the application owns                        *)
          rxCb,      (* in->api->midi_transfer_done is set                   *)
          txCb,      (* out->api->midi_transfer_done is set                  *)
          rxOn,      (* the driver is receiving                              *)
          lineUp,    (* the line delivers well-formed bytes                  *)
          rxQueue,   (* in->rx_queue                                         *)
          rxMsg,     (* message midi_rx_thread is handing over               *)
          arrived,   (* label of the next byte on the line                   *)
          received,  (* label of the next byte the application should see    *)
          txQueue,   (* out->tx_queue                                        *)
          txSem,     (* out->tx_sem                                          *)
          txPc,      (* where midi_tx_thread stands: it next ...             *)
          txMsg,     (* its local msg                                        *)
          wire,      (* message the UART is transferring                     *)
          accepted,  (* label of the next message midi_send accepts          *)
          sent,      (* label of the next message the UART should transfer   *)
          fault      (* the program has written through NULL                 *)

rxVars  == <<rxOn, lineUp, rxQueue, rxMsg, arrived, received>>
txVars  == <<txQueue, txSem, txPc, txMsg, wire, accepted, sent>>
serialVars == <<live, label, app, rxCb, txCb, rxVars, txVars, fault>>

Elements(s) == {s[i] : i \in DOMAIN s}

Later(n, k) == (n + k) % Labels

-----------------------------------------------------------------------------
(* The UART driver's interrupt: uart_cb. *)

\* Faulty variant: a received byte is queued in front of the others.
RxReadyInFront ==
  /\ rxOn /\ lineUp
  /\ \E n \in 1..MaxBurst : arrived' = Later(arrived, n)
  /\ \E m \in Heap \ live :
       /\ live' = live \cup {m}
       /\ label' = [label EXCEPT ![m] = arrived]
       /\ rxQueue' = <<m>> \o rxQueue
  /\ UNCHANGED <<app, rxCb, txCb, rxOn, lineUp, rxMsg, received, txVars, fault>>

\* UART_RX_RDY for a burst of n bytes: only the first byte is copied.  The
\* message is written to before it is compared with NULL.
RxReady ==
  /\ rxOn /\ lineUp
  /\ \E n \in 1..MaxBurst : arrived' = Later(arrived, n)
  /\ \/ \E m \in Heap \ live :
          /\ live' = live \cup {m}
          /\ label' = [label EXCEPT ![m] = arrived]
          /\ rxQueue' = Append(rxQueue, m)
          /\ UNCHANGED fault
     \/ /\ CanExhaust /\ live = Heap
        /\ fault' = TRUE
        /\ UNCHANGED <<live, label, rxQueue>>
  /\ UNCHANGED <<app, rxCb, txCb, rxOn, lineUp, rxMsg, received, txVars>>

\* Faulty variant: tx_sem is not given back.
TxDoneSilent ==
  /\ wire # NULL
  /\ wire' = NULL
  /\ UNCHANGED <<live, label, app, rxCb, txCb, rxVars, txQueue, txSem, txPc, txMsg,
                 accepted, sent, fault>>

\* UART_TX_DONE.
TxDone ==
  /\ wire # NULL
  /\ wire' = NULL
  /\ txSem' = 1
  /\ UNCHANGED <<live, label, app, rxCb, txCb, rxVars, txQueue, txPc, txMsg,
                 accepted, sent, fault>>

\* UART_RX_STOPPED and UART_RX_DISABLED after a framing error or a break: both
\* are logged, nothing enables reception again.
RxStopped ==
  /\ rxOn /\ ~lineUp
  /\ rxOn' = FALSE
  /\ UNCHANGED <<live, label, app, rxCb, txCb, lineUp, rxQueue, rxMsg, arrived,
                 received, txVars, fault>>

LineFails ==
  /\ CanLineFail /\ lineUp
  /\ lineUp' = FALSE
  /\ UNCHANGED <<live, label, app, rxCb, txCb, rxOn, rxQueue, rxMsg, arrived,
                 received, txVars, fault>>

LineRecovers ==
  /\ ~lineUp
  /\ lineUp' = TRUE
  /\ UNCHANGED <<live, label, app, rxCb, txCb, rxOn, rxQueue, rxMsg, arrived,
                 received, txVars, fault>>

-----------------------------------------------------------------------------
(* Who gets a message a thread is done with: the callback's owner, or nobody. *)

\* Faulty variant: a message given to the callback is freed as well.
HandOverAndFree(m, cb) ==
  /\ app' = IF cb THEN app \cup {m} ELSE app
  /\ live' = live \ {m}

HandOver(m, cb) ==
  IF cb THEN app' = app \cup {m} /\ UNCHANGED live
        ELSE live' = live \ {m} /\ UNCHANGED app

(* midi_rx_thread *)

RxTake ==
  /\ rxMsg = NULL /\ rxQueue # <<>>
  /\ rxMsg' = Head(rxQueue)
  /\ rxQueue' = Tail(rxQueue)
  /\ UNCHANGED <<live, label, app, rxCb, txCb, rxOn, lineUp, arrived, received,
                 txVars, fault>>

\* Faulty variant: without a callback the thread goes on waiting for one.
RxWaitsForCallback ==
  /\ rxMsg # NULL /\ rxCb
  /\ HandOver(rxMsg, rxCb)
  /\ received' = Later(label[rxMsg], 1)
  /\ rxMsg' = NULL
  /\ UNCHANGED <<label, rxCb, txCb, rxOn, lineUp, rxQueue, arrived, txVars, fault>>

RxHandOver ==
  /\ rxMsg # NULL
  /\ HandOver(rxMsg, rxCb)
  /\ received' = Later(label[rxMsg], 1)
  /\ rxMsg' = NULL
  /\ UNCHANGED <<label, rxCb, txCb, rxOn, lineUp, rxQueue, arrived, txVars, fault>>

(* midi_tx_thread *)

\* Faulty variant: the thread does not wait for the end of the transfer.
TxWaitNoSem ==
  /\ txPc = "wait"
  /\ txSem' = 0
  /\ IF txMsg = NULL THEN UNCHANGED <<live, app>> ELSE HandOver(txMsg, txCb)
  /\ txPc' = "take"
  /\ UNCHANGED <<label, rxCb, txCb, rxVars, txQueue, txMsg, wire, accepted, sent,
                 fault>>

\* The message of the turn before is handed back when its transfer is over;
\* the thread keeps the pointer until it takes the next message.
TxWait ==
  /\ txPc = "wait" /\ txSem = 1
  /\ txSem' = 0
  /\ IF txMsg = NULL THEN UNCHANGED <<live, app>> ELSE HandOver(txMsg, txCb)
  /\ txPc' = "take"
  /\ UNCHANGED <<label, rxCb, txCb, rxVars, txQueue, txMsg, wire, accepted, sent,
                 fault>>

TxTake ==
  /\ txPc = "take" /\ txQueue # <<>>
  /\ txMsg' = Head(txQueue)
  /\ txQueue' = Tail(txQueue)
  /\ txPc' = "start"
  /\ UNCHANGED <<live, label, app, rxCb, txCb, rxVars, txSem, wire, accepted,
                 sent, fault>>

\* uart_tx refuses a transfer while another is under way; a failure is logged.
TxStart ==
  /\ txPc = "start"
  /\ \/ wire = NULL /\ wire' = txMsg /\ sent' = Later(label[txMsg], 1)
     \/ (wire # NULL \/ CanTxFail) /\ UNCHANGED <<wire, sent>>
  /\ txPc' = "wait"
  /\ UNCHANGED <<live, label, app, rxCb, txCb, rxVars, txQueue, txSem, txMsg,
                 accepted, fault>>

-----------------------------------------------------------------------------
(* The application. *)

\* midi_callback_set on the in port or the out port, with a callback or NULL.
SetCallback ==
  /\ \/ rxCb' \in BOOLEAN /\ UNCHANGED txCb
     \/ txCb' \in BOOLEAN /\ UNCHANGED rxCb
  /\ UNCHANGED <<live, label, app, rxVars, txVars, fault>>

AppAlloc ==
  /\ \E m \in Heap \ live : live' = live \cup {m} /\ app' = app \cup {m}
  /\ UNCHANGED <<label, rxCb, txCb, rxVars, txVars, fault>>

AppFree ==
  /\ \E m \in app : live' = live \ {m} /\ app' = app \ {m}
  /\ UNCHANGED <<label, rxCb, txCb, rxVars, txVars, fault>>

\* Faulty variant: a message is queued in front of the others.
SendInFront ==
  /\ \E m \in app :
       /\ app' = app \ {m}
       /\ label' = [label EXCEPT ![m] = accepted]
       /\ txQueue' = <<m>> \o txQueue
  /\ accepted' = Later(accepted, 1)
  /\ UNCHANGED <<live, rxCb, txCb, rxVars, txSem, txPc, txMsg, wire, sent, fault>>

\* send_to_serial_port on a message of a serial format.  With another format it
\* returns -EINVAL and the message stays the application's.
Send ==
  /\ \E m \in app :
       /\ app' = app \ {m}
       /\ label' = [label EXCEPT ![m] = accepted]
       /\ txQueue' = Append(txQueue, m)
  /\ accepted' = Later(accepted, 1)
  /\ UNCHANGED <<live, rxCb, txCb, rxVars, txSem, txPc, txMsg, wire, sent, fault>>

-----------------------------------------------------------------------------
\* midi_serial_in_device_init and midi_serial_out_device_init have run.
Init ==
  /\ live = {} /\ label = [m \in Heap |-> 0] /\ app = {}
  /\ rxCb = FALSE /\ txCb = FALSE
  /\ rxOn = TRUE /\ lineUp = TRUE
  /\ rxQueue = <<>> /\ rxMsg = NULL /\ arrived = 0 /\ received = 0
  /\ txQueue = <<>> /\ txSem = 1 /\ txPc = "wait" /\ txMsg = NULL /\ wire = NULL
  /\ accepted = 0 /\ sent = 0
  /\ fault = FALSE

Driver   == RxReady \/ TxDone \/ RxStopped
RxThread == RxTake \/ RxHandOver
TxThread == TxWait \/ TxTake \/ TxStart
Application == SetCallback \/ AppAlloc \/ AppFree \/ Send

\* Nothing is claimed of what happens after a write through NULL.
Next ==
  /\ ~fault
  /\ \/ Driver \/ RxThread \/ TxThread \/ Application
     \/ LineFails \/ LineRecovers

Spec == Init /\ [][Next]_serialVars

\* The scheduler runs a ready thread in the end, the hardware ends a transfer it
\* has started and reports a line error, and a line error ends.
Fairness ==
  /\ WF_serialVars(~fault /\ RxThread)
  /\ WF_serialVars(~fault /\ TxThread)
  /\ WF_serialVars(~fault /\ TxDone)
  /\ WF_serialVars(~fault /\ RxStopped)
  /\ WF_serialVars(~fault /\ LineRecovers)

FairSpec == Spec /\ Fairness

-----------------------------------------------------------------------------
(* Properties *)

TypeOK ==
  /\ live \subseteq Heap /\ app \subseteq Heap
  /\ label \in [Heap -> 0..(Labels - 1)]
  /\ {rxCb, txCb, rxOn, lineUp, fault} \subseteq BOOLEAN
  /\ rxQueue \in Seq(Heap) /\ txQueue \in Seq(Heap)
  /\ {rxMsg, txMsg, wire} \subseteq Heap \cup {NULL}
  /\ {arrived, received, accepted, sent} \subseteq 0..(Labels - 1)
  /\ txSem \in 0..1
  /\ txPc \in {"wait", "take", "start"}

\* Messages midi_tx_thread is responsible for: none while it holds only the
\* stale pointer to a message it has handed back.
TxHeld == IF txPc = "take" THEN {} ELSE {txMsg} \ {NULL}

\* Every message in use has exactly one owner: nothing is leaked, nothing is
\* handed back or freed twice, and no queue holds a message that somebody else
\* may free (send_to_serial_port, midi_rx_thread, midi_tx_thread, uart_cb).
OneOwner ==
  LET queued == Elements(rxQueue) \cup Elements(txQueue)
      held   == ({rxMsg} \ {NULL}) \cup TxHeld
  IN  /\ live = app \cup queued \cup held
      /\ Cardinality(live) = Cardinality(app) + Len(rxQueue) + Len(txQueue)
                             + Cardinality({rxMsg} \ {NULL}) + Cardinality(TxHeld)

\* The UART reads a message only while it is in use and the transmit thread
\* waits for the transfer to end (tx_sem in midi_tx_thread).
WireOwned == wire # NULL => wire \in live /\ wire = txMsg /\ txPc = "wait" /\ txSem = 0

\* Messages go out in the order midi_send accepted them, none left out.
SentInOrder == [][wire' # wire /\ wire' # NULL => label[wire'] = sent]_serialVars

\* The application is handed the bytes of the line in order, none left out
\* (uart_cb, midi_rx_thread).
ReceivedInOrder == [][RxHandOver => label[rxMsg] = received]_serialVars

\* A message accepted by midi_send is handed back in the end, unless a byte was
\* written through NULL first (midi_tx_thread).
EveryMessageReturned ==
  \A m \in Heap : (m \in Elements(txQueue)) ~> (fault \/ m \notin Elements(txQueue) \cup TxHeld)

\* A received byte reaches the application in the end, unless a byte was written
\* through NULL first (midi_rx_thread).
EveryByteDelivered ==
  \A m \in Heap : (m \in Elements(rxQueue)) ~> (fault \/ m \notin Elements(rxQueue) \cup {rxMsg})
=============================================================================
