# NCS-MIDI: TLA+ specifications, model checking and proofs

This directory holds formal models of NCS-MIDI, a MIDI subsystem for Zephyr and
the nRF Connect SDK: ports that carry MIDI messages over a UART, Bluetooth LE,
isochronous Bluetooth channels and USB, the parser and the conversions between
them, and sample applications that connect ports. Paths below are relative to
the repository's root (`src/` in PROJECT.json).

Check a model with `tlc -config <run>.cfg <module>.tla`, a proof module with
`tlapm <module>.tla`. PROJECT.json lists components, runs, mutants, the source
lines behind every definition, findings, hazards and theorems.

## 1. Inventory

| Part | State it keeps | Operations | Interacts through |
|---|---|---|---|
| Message memory, `subsys/midi/midi_msg.c` | heap, reference counts | alloc, init, ref, unref | every port |
| Serial parser, `subsys/midi/midi_parser.c` | message being assembled, running status, flag for a third byte | parse, reset | applications, on every received byte |
| Serial port, `subsys/midi/midi_serial.c` | rx and tx fifo, `tx_sem`, callbacks | UART interrupt, rx thread, tx thread, `midi_send`, `midi_callback_set` | UART driver, application |
| Bluetooth LE peripheral, `midi_bluetooth_peripheral.c` | connection, fifo, packet being filled, MTU, running status | `midi_send`, encoder and tx work items, radio notification, connection callbacks, receive callback | `subsys/bluetooth/services/midi.c`, work queue, radio interrupt |
| Bluetooth LE central, `midi_bluetooth_central.c` | the same, and scan, discovery, correction of the peer's clock | the same, and scanning, discovery, MTU exchange | `services/midi_client.c` |
| Isochronous broadcaster and receiver, `midi_iso_*.c` | fifo, unacknowledged messages, message numbers, payload under construction; sync state, last number | send, resend, acknowledge, PDU timer; scan, sync, receive | ISO channels, acknowledgement radio |
| Acknowledgement radio, `samples/api/bluetooth/peripheral_tx`, `central_rx` | phase and slice, two fifos, semaphore | timer, ESB events, SPI | `central_tx`, `peripheral_rx` |
| UMP, MIDI-CI, sysex, `midi_ump.c`, `midi_ci.c`, `midi_sysex.c` | tables of function blocks | conversions, message construction, discovery | ISO samples |
| Stand-alone bridges, `samples/bluetooth/*_midi` | a queue to the UART in two stages, a queue to the peer, running status | UART interrupt, four work items, active sensing, connection callbacks | UART, Bluetooth host |
| USB class, `subsys/usb/class/midi/midi.c` | jacks, endpoints | requests, send, receive | USB stack |

What is hard: the serial port is shared by an interrupt, two threads and the
application, with messages whose ownership passes between them; the Bluetooth
out ports are shared by sending threads, a work queue, the radio interrupt and
the stack's connection callbacks, and outlive connections; the parser has to
survive any stream of bytes, with real-time messages between any two of them and
memory that runs out; an encoder and a decoder that were written apart have to
agree on running status and timestamps; the ISO link loses packets, repeats them,
numbers them with eight bits and gets its acknowledgements through slots that
each device times by itself; discovery messages, replies and synchronisation are
tried once or again and again, and which it is matters; 13-bit timestamps wrap
every eight seconds.

What makes each part correct: messages have one owner at a time and come back to
it; the parser stays in its memory and returns exactly the transmitter's messages
in the order of their times; ports keep order, lose no wake-up and stop for no
reason; packets stay within their buffer and MTU, and go to the peer they were
made for; what is encoded is what is decoded; an acknowledged message was played,
a discarded one was played before; transmissions of the devices do not overlap.

PROJECT.json lists the hazards at the line where each bites, with the property
that covers it or the reason why none does.

## 2. Modules

| Module | Models | Composes |
|---|---|---|
| `MidiBytes` | byte classes, the complete messages of the MIDI 1.0 grammar | |
| `MidiParser` | `midi_parser.c` with the messages of `midi_msg.c` it writes | `MidiBytes` |
| `MidiLink` | a MIDI 1.0 transmitter and the parser | `MidiParser` |
| `SerialPort` | `midi_serial.c` | |
| `BleMidiOut` | the out port of `midi_bluetooth_peripheral.c`, `bt_midi_send` | |
| `BleMidiLink` | that out port, the air, `bt_receive_cb` of `midi_bluetooth_central.c`, the parser | `BleMidiOut`, `MidiParser` |
| `BleConnection` | the connections of `midi_bluetooth_central.c` and `midi_client.c`, `convert_timestamp` | |
| `Ump` | channel voice messages as universal MIDI packets and back | |
| `IsoBroadcaster` | the out port of `midi_iso_broadcaster.c` | |
| `IsoReceiver` | the in port of `midi_iso_receiver.c` and what `peripheral_rx` does with a message | `Ump` |
| `IsoLink` | broadcaster, devices, the radio, the way back of acknowledgements | `IsoBroadcaster`, `IsoReceiver`, `Ump` |
| `ReliableDelivery` | what `IsoLink` promises: the abstract specification | |
| `EsbSlots` | `peripheral_tx` in every device, `central_rx` | |
| `MidiCi` | MIDI-CI messages, muids, tables of function blocks | |
| `Discovery` | synchronisation of the devices, MIDI-CI discovery in `central_tx` and `peripheral_rx` | `MidiCi` |
| `Bridge` | the serial side and the queues of the stand-alone bridges | |
| `MC*` | instances for TLC | |
| `Subsequence` | what a loop over a list picks from it | |
| `*Proofs` | theorems about the module they are named after; `MidiLinkProofs` has the parser's too, `BleMidiLinkProofs` those about `BleMidiOut` | |

Definitions called a *faulty variant* are slips the code might contain; each
stands before the definition it is a variant of, no specification uses it, and
PROJECT.json pairs it with the property it breaks.

**MidiParser.** A step is one call of `midi_parse_serial` with a message of one
byte; all callers pass such messages. The variables are the fields of
`struct midi_serial_parser` (`msg`, `rs`, `third`), the result and the time; history
variables record the message last returned and how often the clock had wrapped, for
timestamps have 13 bits: a byte comes at any later time, in the same round of the
clock or a later one (`MaxRound` bounds them). A message is its stored bytes, the size of its data block and
whether it is still allocated, so that a write past a block, through a null block
or into freed memory shows as `fault`. Which of the two allocations of
`midi_msg_alloc` may fail is the constant `CanFail`. After a fault nothing is
claimed and the model stops.

**MidiLink.** The environment the parser is written for, not code of the
repository: whole messages, running status left out where MIDI 1.0 allows it,
real-time messages between any two bytes, messages broken off at any byte.

**SerialPort.** One action per step that another actor may see in between: the
interrupt's events, the two halves of the rx thread's turn, the three of the tx
thread's (`txPc`), the application's calls. Heap objects are model values, and
`label` numbers bytes and messages so that their order can be checked. The wait
for a timestamp in `midi_tx_thread` is a thread that is late.
`UART_RX_BUF_REQUEST` is left out: it picks the address of a buffer for the
driver.

**BleMidiOut.** `SendCheck` and `SendPut` are the two halves of
`send_to_bluetooth_port` (the test of `current_conn`, the put); the encoder and
`ble_tx_work_handler` run on one work queue and are atomic to each other; the
radio notification submits the latter. Connection, disconnection, MTU exchange,
subscription and parameter updates come at any time. `mtu` is the connection's
ATT MTU and `mtuSize` the driver's idea of it. Messages handed back at once
because nothing is connected change no state and are left out; what the callback
does with an encoded message is the application's.

**BleMidiLink.** A packet the stack takes reaches the central whole and in order
or not at all; `bt_receive_cb` looks at it byte by byte and gives each message
byte to the parser, as `samples/api/bluetooth/central_midi` does.

**BleConnection.** The central's life: scanning, attempts that fail, discovery of
a peer with the service, without it, without the service's characteristic or the
descriptor of that, the subscription, which may fail or be refused, the end of the
connection, the application's next scan. `client` has the fields of `midi_client`
that `bt_midi_client_handles_assign` and `bt_midi_client_notif_enable` store one by
one. Connections are numbered; a handle is the number of the connection on which it
was found, which shows what outlives it. Of messages only the number counts that
wait and that are in the packet. The work queue's thread is cooperative and done
with what the old connection left pending before the next device is found
(`ScanConnecting`); what is in fifo and packet stays there. A work submitted before `k_work_init` ends the
model (`broken`). `Corrected` is `convert_timestamp`; `Wrap` stands for 2^13 ms.

**IsoBroadcaster, IsoReceiver, IsoLink.** `PacketTake` and `PacketAdd` are the two
halves of `packet_thread_fn` (the fifo, the payload), separated by the wait for
`sem_overflow_ctrl`; `RadioPdu` is the timer's handler, in which the payload is
sent, tracked messages get their number and the number goes on; `Resend` and
`AckMsg` work on the list of unacknowledged messages. The fifo links through the
messages, so that putting one twice is an error of its own (`relinked`). An
acknowledgement is what the code makes of it: a muid's low byte and a number.
Broadcaster and devices are composed in the order their timers impose: the
acknowledgements of a packet come before the resend work (3.5 ms after it), and
the threads, which need microseconds, are done before the next packet (5 ms). A
late acknowledgement, in a later interval, is a fault; `MaxFaults` bounds
faults of all kinds. `beyond` ends the model: a packet left while `packet_thread_fn`
waited for room in it (see below for what happens then), or the application sent an
object again that the port still had. The test thread of `central_tx` sends the same
objects every 500 ms, or after a random time below that, its main the discovery message every second (`Standing`). An
object that has left the port by then counts as another message; one that is in the
fifo, in the packet thread's hand or in the list gets its number reset there and is
put into the fifo a second time (`AppSendAgain`), and what becomes of the fifo is not
modelled. Nor are messages sent before discovery, to muid 0.

**EsbSlots.** Time in microseconds, with the constants of `peripheral_tx`. A device
has two compare channels that give one semaphore of limit one, and a thread that
runs a lag later, sets the next compare values and, in the phase of
acknowledgements or of replies, transmits what the slice's channel has. The lags
of two devices differ; all hear the same edge. `Airtime` is the length of a
transmission; overlapping ones are lost, as the radio's retries are off.

**MidiCi, Discovery.** A device scans, synchronises to the periodic advertising,
then to the group; it takes the first periodic advertiser it finds, be it the broadcaster
or a foreign one; a synchronised device hears the discovery message that
`central_tx` sends every second, and answers once. Muids are numbers of 28 bits
that pass through four 7-bit bytes in every message. The failures: a call of the
host that fails, a discovery message missed, a reply lost, synchronisation lost, a
device restarted (with a new muid). `troubled` records the failures after which
the code sets a flag and never tries again; `missed` counts those it makes up for.

**Bridge.** `samples/bluetooth/central_midi` and `peripheral_midi`, which share
their serial side: `uart_midi_write_work` takes a message from `fifo_uart_midi_write`
and transfers or queues it (`WriteTake`, `WriteSend`: the UART's interrupt comes
between), `uart_empty_tx_buffer_work` starts the next transfer,
`active_sense_tx_work` cuts in. The system work queue is the sequence `workq`;
`writeTimer` is the delayed submission, and `ScheduleWrite` knows that
`k_work_schedule` does nothing for a work that waits. `sink` is a receiver on the
line that follows running status. The Bluetooth side is its queue, its two works
and the connection; encoding and parsing are as in the modules above. `NothingLeaked`
counts one allocation per message: these samples have a message type of their own,
older than today's `midi_msg_t` (in
`midi/midi_types.h`, where it is commented out), which they allocate and free with one
call.

## 3. Runs

| Run | Question | Bounds |
|---|---|---|
| `parser_bytes` | is the parser safe on arbitrary streams of short messages, short of memory or not? | one byte of each kind, times 0..3, two wraps of the clock; streams are of any length |
| `link_roundtrip` | does it return exactly what a transmitter sent, in time order? | nine messages, one of each kind and two with the same status, sysex up to the block of 4 bytes, two real-time bytes, times 0..2, one wrap of the clock; any number of messages |
| `serial` | owners, DMA, order and progress under every interleaving, memory running out, line errors | 2 heap objects, labels modulo 3, one byte per event; streams of any length |
| `ble_out` | buffer, order, wake-ups, progress across reconnections and MTU changes | 3 messages, a fifo of 2, 2 connections, MTUs 8 and 11 for a packet of 8 bytes |
| `ble_link` | does the decoder undo the encoder? | 3 messages out of 6 kinds, times 100, 130, 250, one connection |
| `ble_connection` | is who is told of a connection able to use it (unless the subscription failed), does scanning end in one, do converted times stay near? | 2 connections, failed ones included, 2 messages, a clock that wraps at 6, an interval of 1 |
| `ble_reconnect` | is a packet written to the connected peer's handle? (no) | the same, a clock of 2 |
| `iso_link` | is what is acknowledged played, what is discarded a repetition, is everything acknowledged in the end? | 4 messages, one of them for everybody, 2 devices, 2 channels, a packet of 3 entries, 2 faults, 1 failed allocation, one object sent again too early; numbers up to 14, which no behaviour reaches |
| `iso_wrap` | and past the wrap of the numbers? (no) | 4 messages, numbers up to 3, no faults |
| `esb_slots` | do acknowledgements overlap, is any event, acknowledgement or reply left over? | 2 devices, lags 0 and 6 us against 0, air time 40 us, channels 0 and 4, acknowledgements up to 1500 us after the edge |
| `discovery` | has the table one entry per muid, who knows whom, are all found? | 2 devices and foreign advertisers, one of which may restart once, 3 messages missed, a queue of 2 |
| `bridge` | do messages reach the line whole, in order and in the end, and is memory freed? | both samples, 3 messages for the line, one waiting for the peer, one dropped |

The bounds are chosen so that the interesting cases happen: sysex that fills its
block, a heap that is used up, a packet that is full after two messages, full
exactly and full too early, an MTU that shrinks under a packet being filled, times
on both sides of a multiple of 128 and more than 128 ms apart, a second
connection after any step of the first, two messages in one packet for one
device, a lost packet whose repetition meets a new message, a lost acknowledgement
and a late one for the same message, a device in the first and one in the last
slot of the interval, a muid whose four bytes differ, a message that waits for
the UART behind active sensing. Deadlock is checked in the two parser runs; the
other models may stop: after a fault, when all messages of a bounded model are
sent, when nothing scans any more.

`OneOwner`, with `WireOwned`, is the contract of the serial port: at each step
every message in use is owned by exactly one of the application, the two queues
and the two threads, and the UART reads only what the tx thread holds.
`EncodedInOrder` says of the Bluetooth port that the messages of the last packet,
the packet being filled, the fifo and a thread about to put one are, in this
order, the last ones accepted: none lost, repeated or overtaken, connected or
not. `RoundTrip` and `MessagesComeThrough` relate what two sides of a link know.
`ImplementsReliableDelivery` is a refinement: with `delivered` read as what the
devices have played and `acknowledged` as what the sender was given back,
`IsoLink` implements `ReliableDelivery`.

Fairness. `SerialPort`: ready threads run in the end (Zephyr's scheduler; both
threads block on every turn), the UART ends a transfer it has started
(`SYS_FOREVER_MS`, no flow control), line errors are reported and end.
`CanTxFail` is FALSE: if `uart_tx` failed with an idle UART, nothing would give
`tx_sem` and the thread would block for ever (a listed hazard). `BleMidiOut`: a
thread past its test goes on, the work queue runs what is pending, and radio
activity recurs while there is a connection (every connection event).
`BleConnection`: the controller finds devices and reports, discovery ends, the work
queue runs what is pending.
`IsoLink`: the system as a whole goes on; the timing above puts its steps in an
order, and faults are bounded, not fair. `EsbSlots`: time goes on and sleeps end.
`Discovery`: the sender's loop, the radio and the controller's reports.
`Bridge`: the work queues run what is pending, transfers and delays end. Nothing is
assumed of the application, the line's bytes and the peers.

**Where the code does something else.** Two runs end in a counterexample
(PROJECT.json, findings):

* `ble_reconnect`: `disconnected` leaves the client's connection and handles as they
  are, and `scan_connecting` sets `current_conn` before the next connection is made:
  from then on messages are queued and encoded. If a packet is full before discovery
  has ended - which it never does successfully if the peer has no MIDI service - the
  encoder writes it to the new peer at the old handle. The test of `conn` in
  `bt_midi_client_send` does not prevent it: with `CONFIG_BT_MAX_CONN` at 1 there is
  one connection object, whose pointer is the earlier connection's too.
* `iso_wrap`: numbers return after 254, and a device that has not heard any other
  number for itself takes a new message for a repetition: it discards and
  acknowledges it. (The same happens to a first message with number 254.)

Others were seen with these models under other constants, and are why some
properties are stated for less than everything:

* 0xF7 outside system exclusive is appended to the message in hand and returned
  (`90 3C F7`); after `F1 xx` or `F3 xx` the flag for a third byte stays up and a
  stray data byte is written through a null pointer; a system exclusive message
  of just the block size is freed but stays in use. Hence `parser_bytes` has
  streams without these bytes, and `link_roundtrip`, with them, a transmitter
  that keeps to MIDI 1.0 and to the size.
* Timestamps are compared without regard to their wrap: a message stamped 8190, its
  last byte still missing, that is interrupted by a real-time byte stamped 5, keeps
  its 8190 and comes out behind it. `NeverBackInTime` excepts just this case
  (`WrapInterrupts`), which `parser_bytes` reaches.
* The result of the subscription is not looked at: the application is told of a
  connection on which nothing will be received (`subFailed`).
* Messages that were queued or in the packet when a connection ended are sent to the
  next peer, whoever it is, with its handles once it has any.
* With more than one byte per `UART_RX_RDY` event (`MaxBurst` 2) all but the first
  are lost. `serial` has bursts of one.
* A packet that is larger than the connection's MTU is refused by the stack and
  gone; this happens after an MTU exchange, as `mtu_size` follows connection
  parameters.
* The 0xF7 of a system exclusive message in a Bluetooth packet has no timestamp
  before it and is taken for one. `ble_link` has messages of up to three bytes.
* After the wrap of the ISO message number, messages numbered before it are
  larger than the current number and not repeated; a message numbered 254 never is.
* When more messages wait than a packet takes, a message in the hand of
  `packet_thread_fn` may be acknowledged, late, and freed before it is added to
  the next packet; and the messages of one number are in two packets, so that the
  acknowledgement of one frees the other, which may not have been played.
  `iso_link` ends with such a packet (`beyond`).
* A message of MIDI 1.0 data for everybody is never handed back to its sender.
* A device that restarts takes a second place in `remote_muid`, and a third device a
  third: `central_tx` then writes past the end of an array of `MAX_NUM_MUID`.
  `OneEntryPerMuid` says that nothing else does, duplicate replies in particular.
* A device that has taken a foreign advertiser never looks for another.
* A discovery reply, a synchronisation or a scan is tried once; after a loss the
  device is not found again until one side restarts (`troubled`).
* A message the bridge finds no room for because active sensing has taken the UART
  is dropped and leaked, and the running status the line has heard is no longer
  the sender's (`dropped`).

## 4. Proofs

For all values of the constants, from the assumptions named in the modules:

| Theorem | Statement |
|---|---|
| `MidiLinkProofs!TypeCorrect`, `TimeOrder` | types; messages never go back in time, but for the case of a wrap named above, for every stream, every number of wraps and every failure |
| `MidiLinkProofs!ShortStreamInvariant`, `ShortStreamsSafe`, `ShortStreamsComplete` | with `Bytes` free of F0, F1, F3, F7 and data blocks always allocated: the inductive invariant, no fault, only complete messages |
| `MidiLinkProofs!LinkInvariant`, `MessagesComeThrough`, `LinkIsSafe` | while allocations succeed (`NoFailures`), `LinkSpec` implies `[]LinkInv`, `[]RoundTrip` and `[]MemorySafe` for any set of complete messages that fit |
| `BleMidiLinkProofs!TypeCorrect`, `BufferSafe` | types; with messages of at most three bytes no write past the packet |
| `BleMidiLinkProofs!EncodesInOrder` | what is accepted is encoded once and in order, for every MTU, fifo and sequence of connections |
| `BleMidiLinkProofs!ReceivedAsSent`, `TimesAsSent` | with `PlainMessages`, `LinkSpec` implies `[]MessagesComeThrough` and `[]TimestampsComeThrough`, for every MTU, size and set of messages |
| `SerialPortProofs!EveryMessageHasOneOwner`, `TransferIsOwned` | `OneOwner` and `WireOwned` for every heap, burst and failure |
| `SerialPortProofs!BytesArriveInOrder`, `MessagesLeaveInOrder` | with bursts of one byte, bytes are received in order; unless `uart_tx` fails, messages are sent in order |
| `BleConnectionProofs!ToldOfUsable`, `TimesStayInInterval` | who is told of a connection to a MIDI device has its handles, and its subscription unless that failed; local times lie within an interval of the connection event |
| `BridgeProofs!PlaysInOrder`, `NothingLeaks` | what was not dropped is understood whole and in order; the heap holds what waits or was dropped |
| `DiscoveryProofs!MuidRoundTrip`, `TypeCorrect`, `ListedDevicesKnowSender`, `OneEntryEach` | a muid survives its four bytes; types; who is listed knows the sender; the table has at most one entry per muid drawn |
| `IsoLinkProofs!QueueStaysSound`, `ChannelsAreOwned` | until a packet leaves messages waiting or an object is sent again too early, the fifo never takes a message that is in it, in another place or freed; no two devices answer on one channel |
| `IsoLinkProofs!DevicesPlayAsGiven` | a device plays what it was sent, with the bytes it was given, whatever is lost |
| `IsoLinkProofs!RepetitionsInFirstRound`, `DeliveryInFirstRound` | until a packet's number is used again: what is discarded was played before; `IsoLink` implements `ReliableDelivery` |
| `EsbSlotsProofs!TypeCorrect` | types, for any lags |
| `EsbSlotsProofs!AcksApart`, `ChainsComplete`, `AcksInTheirInterval` | for any number of devices whose lags are `InTime`: acknowledgements overlap with nothing, devices go through all slices, no acknowledgement is left over |

*Parser.* `TimeOrder` needs that the message being assembled is not older than the
last one returned (`TimestampsInOrder`); that is what the timestamp update in
`midi_parse_serial` maintains, unless the clock has wrapped in between. Time is the
pair of round and timestamp. `ShortStreamInv` adds that the flag for a third
byte is up only while a block of three bytes with two bytes of a three-byte
message waits (`ThirdByteExpected`): status bytes must lower the flag, or the next
data byte would go into a new message without a block.

*Link.* `LinkInv` ties the parser to the transmitter: between messages the running
statuses agree (`Idle`), within message d before byte i the parser holds the first
i - 1 bytes and expects just this one (`Ready`). Each step of the transmitter takes
`Ready(d, i)` to `Ready(d, i + 1)` or to `Idle` and a returned message; a real-time
byte changes nothing but the time.

*Packet buffer.* A packet has room because `PacketFull` was false, or it is new and
takes a header, a timestamp and at most three bytes, 5 in all; the assumption on
`PckMax` is that. For an MTU below 8 or a longer message the fresh packet is not
compared with the limit again. `EncodedInOrder` is inductive with
the types: a step moves a message on from one of its four places (a sending thread,
the fifo, the packet being filled, the last packet) to the next, which leaves the
concatenation of the places as it was, adds an end or cuts off a beginning.

*From encoder to application.* Neither property of `BleMidiLink` is inductive: they
say what has been received, not what is still in the packet. `LinkInv` has three
parts. `TypeOK` is the out port's. `PacketInv` says that the packet being filled
`Holds` the messages encoded in it: there is a place for each of them, with the
running status there, such that its timestamp byte and its bytes, less a status byte
that is the running status, follow from that place and the next message behind them
(`Laid`, `Piece`). `ReceiverInv` says where in such a packet the receiver is (`At`):
before byte o of message k, with k - 1 messages received; before a timestamp (o = 0)
the parser is between messages and its running status is the encoder's (`Between`),
before any other byte the parser has taken just the bytes before it, the omitted
status byte included (`Taking`). `ByteTaken` takes the parser from one byte of a
message to the next or to the message returned; `NextBytes` says which byte the
receiver finds. That a byte is a timestamp only where `next_is_new_timestamp` is up
and that no byte of a message is taken for one needs `PlainMessages`: complete
messages, none of system exclusive, whose 0xF7 has no timestamp before it. Times are
arithmetic: the low 7 bits of a time at most 127 ms later are smaller just if the
high bits are one more (`ReadTime`). TLC checks the assumption `PlainMessages`
for the messages of `ble_link`.

*Serial port.* `OneOwner` is not inductive: the handover at the start of the tx
thread's turn is safe only if the semaphore, the transfer and the thread's place
agree. The invariant adds that the queues hold each message once and no two places
the same one, and that a message is on the wire only while the tx thread keeps it
and the semaphore is taken. Order adds, for each direction, that the labels from
the last one handed over, through the queue and the place in hand, to the last one
given are consecutive modulo the bound (`RxOrder`, `TxOrder`). A burst of two bytes
breaks the first (see above), and a transfer that `uart_tx` refuses, after which
the message is freed, the second; these are the theorems' hypotheses. In between
the driver refuses nothing: the semaphore keeps the tx thread from starting a
transfer while one is under way.

*Central.* The invariant follows the host through `link` and `dm`: there is a
discovery only of the present connection, the handles are assigned by it before
the interrupt is enabled, and every end of the connection disables it and clears the
bit that would keep the client from subscribing again. The times
are arithmetic modulo `Wrap`, case by case for a timestamp before, in and after
the interval.

*Bridge.* The invariant lines up four places: what the receiver has heard, the
UART's queue, the message in the handler's hand and the first queue hold
consecutive numbers, and running status shortened at each step is what the
receiver will add at that step; active sensing, with number 0, changes neither
the running status nor the numbers. It is claimed only while nothing was dropped.

*Discovery.* The invariant says where a muid can be (in a reply only if its device
has drawn it and stored the sender), that the fifo's and the table's entries have
been vouched for by such a reply, and that the table has no muid twice: so it is no
longer than the set of the muids drawn so far (`Drawn`). Whether that many fit into
the array is not claimed: the code does not ensure it.

*ISO link.* `QueueSound` depends on when acknowledgements come. The invariant says
that fifo, packet thread and the list of unacknowledged messages hold each message
once, that whatever is or was in the list has a number, and that between a packet
and the resend work, when acknowledgements free messages, only messages without
a number wait (`OnlyNewWait`): what is freed is not in the fifo, and what the
resend work puts into it was not there. For the channels, the entries of a packet
that ask for an acknowledgement index a list of distinct owners.

`PlayedAsGiven` follows the bytes: `DataAssumption` says that messages are channel
messages of the right length, and every word of a packet that a message is made
into, the channel words and numbers between them, and the device's reading of them
by index are shown to give back the bytes with channel 0 (`PlayInv`); a repeated
or retracted message is the same one again. `DeliveryInv` is the argument for the
refinement: every message without an acknowledgement is on its way into the next
packet (`NextPacketComplete`); a device has played every message for it up to the
number it remembers (`Remembers`) and every message with a number it acknowledges
(`Acknowledges`). A device that remembers a number discards what has it or a
smaller one, and rightly so; it hears every packet's messages for it with the
numbers they first had, so that nothing it missed can be behind the number it takes
over. All this needs that a number means one packet. `FirstRound` is `IsoSpec`
restricted to steps that do not take the number back to 0, and every behaviour is
one of these until that step; `iso_wrap` shows that the two theorems are false
beyond it. The refinement's steps: playing is the abstract delivery, a message
given back is an acknowledgement, all others stutter.

*Acknowledgement radio.* `TypeOK` holds for any lags; all else is a matter of time.
`OnChain` says for each run of the thread which compare channel it waits for, when
it is due (`Run`: each run adds the device's lag, but for those that time no other
run), and what the other channel holds: it has matched, or it matches later, or it
is left from an earlier interval and later than the time at which it gets another
value (`Old`). So a match is always the one the thread waits for, and the semaphore
is never given while it is given. `SlotInv` adds that at most one acknowledgement
waits, with its slot ahead, and that what was transmitted was transmitted in its
slot. The hypothesis `InTime` is what this costs: air time and six lags fit into a
slice of 80 us, and acknowledgements arrive before the first slot, at 2010 us. Six
is exact: with an air time of 40 us and a lag of 7 TLC finds the acknowledgements
of slots 3 and 4 overlapping.

Assumptions beyond types: `MuidsDiffer` (28-bit random numbers that happen to
differ), `WellFormedInput` (the bridges are given messages as their parsers
make them: status first, and data after a status that becomes running status).

Only model-checked: liveness everywhere, which is out of the prover's reach with
ENABLED and fairness. Every invariant and every action property of the runs that
pass is stated by a theorem, for some of them under the hypotheses named above.

## 5. Not modelled

* The USB class (`subsys/usb/class/midi/midi.c`): descriptors are preprocessor data,
  requests are answered in place, and the transfer path is one thread without state
  of its own. Its defects are read off the code and listed as a hazard.
* Messages with several owners: `midi_msg_ref`, whose count is neither atomic nor
  locked. The ISO receiver's application is the one that shares messages, and it
  is modelled by what it plays.
* How long waits are: `midi_tx_thread`, `uart_midi_write` and
  `event_execution_thread` sleep until a 13-bit time that they compare without
  wrapping, up to eight seconds too long. In the models a wait may take any time,
  so that order and delivery hold whatever it is.
* ISO timestamps, the running status of MIDI 1.0 chunks in an ISO packet, the
  creation of the broadcast group, the controller's supply of empty packets.
* Message objects sent again while the broadcaster still has them, beyond that it
  happens; messages sent before discovery.
* SPI transfers, which are atomic or lost; ESB beyond overlap.
* In the parser and ports, uses of memory that nothing in the repository causes or
  that are plain from one line: the second allocation of `midi_msg_alloc`
  unchecked; `msg` written before it is compared with NULL in `uart_cb`; the memory
  of active sensing unchecked; a sysex header used without a check; the pointer that
  `midi_ci.c` makes of an integer.
* Device tree bindings, build files and preprocessor libraries (data, no
  behaviour), `parser_nr5_sdk.c`, `pseudo_template.c` and `test_gpio.c` (not part of
  the build, or a test pin), HCI commands that set up LLPM (one-time glue).

Worth doing next: reference counts shared by two threads; a clock for the waits,
against a reference on unbounded time; the USB jacks; system exclusive messages over
`BleMidiLink`; the ISO link past a packet that is too small.
