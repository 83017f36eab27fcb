------------------------------ MODULE EsbSlots ------------------------------
(***************************************************************************)
(* The way back of acknowledgements and discovery replies:                 *)
(* samples/api/bluetooth/peripheral_tx, one per device, takes them from    *)
(* SPI and transmits them by ESB in slots of the 5 ms interval, timed from *)
(* an edge its receiver makes for every packet; samples/api/bluetooth/     *)
(* central_rx receives them and passes them on by SPI.                     *)
(*                                                                         *)
(* Time is in microseconds since the edge and jumps from event to event.   *)
(* The events of a device: its two compare channels, which both give       *)
(* esb_tx_sem, and the run of esb_tx_thread that follows, later by a lag   *)
(* that a device has for an interval.  The devices hear the same edge.     *)
(* What the receiver takes is gathered at the end of the interval; a       *)
(* transmission that overlaps another one is not received.                 *)
(***************************************************************************)
EXTENDS Integers, SequencesExt, FiniteSetsExt

CONSTANTS
  Devices,
  None,
  Lags,          (* Lags[d]: delays between giving esb_tx_sem and the run of *)
                 (* the thread                                               *)
  Airtime,       (* duration of a transmission                               *)
  InUse,         (* channels the devices may get, of AckChannels             *)
  Deadline       (* latest time at which an acknowledgement of the interval  *)
                 (* arrives by SPI                                           *)

ASSUME EsbAssumption ==
  /\ Lags \in [Devices -> SUBSET Nat] /\ Airtime \in Nat /\ Deadline \in Nat
  /\ None \notin Nat

Interval == 5000       \* BIG_SDU_INTERVAL_US
Lead == 800            \* phase 0

\* Phases 1 to 3: their time, the time of a slice, the number of slices.
PhaseTime == <<1210, 550, 1050>>
SliceTime == <<575, 80, 320>>
Slices == <<2, 5, 3>>
NumPhases == 4
AckPhase == 2
OpenPhase == 3
AckChannels == 0..4
OpenSlices == 0..2

ASSUME InUseAssumption == InUse \subseteq AckChannels

VARIABLES
  now,        (* time since the edge                                         *)
  tx,         (* tx[d]: current_phase, current_slice, the values of compare  *)
              (* channels 1 and 2 and which of them have matched since, the  *)
              (* time the thread runs (None: esb_tx_sem is not given) and    *)
              (* its lag                                                     *)
  acks,       (* acks[d]: fifo_tx_ack, data[3] of its messages               *)
  due,        (* due[d]: an acknowledgement may still arrive in the interval *)
  channels,   (* channels of this interval, one per device                   *)
  reply,      (* reply[d]: where the device's discovery reply is             *)
  onAir,      (* transmissions of this interval                              *)
  passedOn    (* replies central_rx has received and passed on by SPI: their *)
              (* devices                                                     *)

esbVars == <<now, tx, acks, due, channels, reply, onAir, passedOn>>

Device(d) == [phase : 0..(NumPhases - 1), slice : 0..4,
              cc : [1..2 -> Nat], hit : SUBSET (1..2), wake : Nat \cup {None}, lag : Lags[d]]

Idle(l) == [phase |-> 0, slice |-> 0, cc |-> <<0, 0>>, hit |-> {1, 2}, wake |-> None, lag |-> l]

\* Channels are handed out by the broadcaster, to each device another one.
Assignments == {c \in [Devices -> InUse] : \A d, e \in Devices : d # e => c[d] # c[e]}

Init ==
  /\ now = Interval
  /\ tx \in [Devices -> UNION {{Idle(l) : l \in Lags[d]} : d \in Devices}]
  /\ \A d \in Devices : tx[d].lag \in Lags[d]
  /\ acks = [d \in Devices |-> <<>>] /\ due = [d \in Devices |-> FALSE]
  /\ channels \in Assignments
  /\ reply = [d \in Devices |-> <<"none">>]
  /\ onAir = {} /\ passedOn = {}

-----------------------------------------------------------------------------
(* Time *)

EventsOf(d) == {tx[d].cc[c] : c \in (1..2) \ tx[d].hit}
               \cup (IF tx[d].wake = None THEN {} ELSE {tx[d].wake})

NextEvent == Min({Interval} \cup UNION {EventsOf(d) : d \in Devices})

\* esb_tx_sem has a limit of one.
Woken(state, t) == IF state.wake = None THEN [state EXCEPT !.wake = t + state.lag] ELSE state

\* gpio_cb_func.  A compare channel keeps its value and matches again once the
\* timer gets there.
Restarted(d) ==
  {Woken([tx[d] EXCEPT !.phase = 0, !.slice = 0, !.lag = l,
                       !.hit = {c \in 1..2 : tx[d].cc[c] = 0}], 0) : l \in Lags[d]}

Clear(s) ==
  \A u \in onAir \ {s} : s.start - u.start >= Airtime \/ u.start - s.start >= Airtime

Edge ==
  /\ NextEvent = Interval
  /\ now' = 0
  /\ \E f \in [Devices -> UNION {Restarted(d) : d \in Devices}] :
       /\ \A d \in Devices : f[d] \in Restarted(d)
       /\ tx' = f
  /\ due' = [d \in Devices |-> TRUE]
  /\ channels' \in Assignments
  /\ onAir' = {}
  /\ passedOn' = passedOn \cup {s.dev : s \in {u \in onAir : u.kind = "open" /\ Clear(u)}}
  /\ UNCHANGED <<acks, reply>>

\* time_slice_timer_handler: either channel gives the semaphore.
Compare(d) ==
  \E c \in (1..2) \ tx[d].hit :
    /\ tx[d].cc[c] = NextEvent
    /\ now' = NextEvent
    /\ tx' = [tx EXCEPT ![d] = Woken([tx[d] EXCEPT !.hit = tx[d].hit \cup {c}], NextEvent)]
    /\ UNCHANGED <<acks, due, channels, reply, onAir, passedOn>>

-----------------------------------------------------------------------------
(* esb_tx_thread *)

\* Faulty variant: the last phase starts the timer of a next one too.
AdvancedAlways(state, last, first) ==
  LET p == state.phase
      timed == (IF last THEN {} ELSE {2}) \cup (IF first THEN {1} ELSE {})
      time == <<PhaseTime[p], SliceTime[p]>>
  IN  [state EXCEPT !.phase = IF last THEN (p + 1) % NumPhases ELSE p,
                    !.slice = IF last THEN 0 ELSE @ + 1,
                    !.cc = [c \in 1..2 |-> IF c \in timed THEN state.wake + time[c] ELSE @[c]],
                    !.hit = @ \ timed,
                    !.wake = None]

\* The state after a run of tx_phase_timer in a phase: whether the slice is the
\* last of the phase, and whether it also starts the timer of the next phase.
Advanced(state, last, first) ==
  LET p == state.phase
      timed == (IF last THEN {} ELSE {2})
               \cup (IF first /\ p < NumPhases - 1 THEN {1} ELSE {})
      time == <<PhaseTime[p], SliceTime[p]>>
  IN  [state EXCEPT !.phase = IF last THEN (p + 1) % NumPhases ELSE p,
                    !.slice = IF last THEN 0 ELSE @ + 1,
                    !.cc = [c \in 1..2 |-> IF c \in timed THEN state.wake + time[c] ELSE @[c]],
                    !.hit = @ \ timed,
                    !.wake = None]

\* Faulty variant: a phase has a slice too few.
PhaseTimerShort(state) ==
  Advanced(state, state.slice = Slices[state.phase] - 2, state.slice = 0)

\* Faulty variant: a phase has a slice too many.
PhaseTimerLong(state) ==
  Advanced(state, state.slice = Slices[state.phase], state.slice = 0)

\* tx_phase_timer: the first slice also starts the timer of the next phase,
\* the last one starts none.
PhaseTimer(state) ==
  Advanced(state, state.slice = Slices[state.phase] - 1, state.slice = 0)

\* Faulty variant: the acknowledgement does not wait for its slice.
TxAckAnySlice(d, slice) ==
  IF acks[d] = <<>>
  THEN UNCHANGED <<acks, onAir>>
  ELSE /\ acks' = [acks EXCEPT ![d] = Tail(@)]
       /\ \E ok \in BOOLEAN :
            onAir' = IF ok THEN onAir \cup {[dev |-> d, kind |-> "ack", start |-> now']}
                     ELSE onAir

\* esb_tx_ack: the first acknowledgement is sent if this is its slice; a write
\* that fails, or the test mode's dropouts, lose it.
TxAck(d, slice) ==
  IF acks[d] = <<>> \/ Head(acks[d]) # slice
  THEN UNCHANGED <<acks, onAir>>
  ELSE /\ acks' = [acks EXCEPT ![d] = Tail(@)]
       /\ \E ok \in BOOLEAN :
            onAir' = IF ok THEN onAir \cup {[dev |-> d, kind |-> "ack", start |-> now']}
                     ELSE onAir

\* esb_tx_open.
TxOpen(d, slice) ==
  IF reply[d] # <<"slot", slice>>
  THEN UNCHANGED <<reply, onAir>>
  ELSE /\ reply' = [reply EXCEPT ![d] = <<"sent">>]
       /\ \E ok \in BOOLEAN :
            onAir' = IF ok THEN onAir \cup {[dev |-> d, kind |-> "open", start |-> now']}
                     ELSE onAir

\* One run of the thread.  The slice is advanced before it is used: the slots
\* of the acknowledgements are 1, 2, 3, 4, 0 and those of the replies 1, 2, 0.
ThreadRuns(d) ==
  LET state == tx[d]
      after == IF state.phase = 0
               THEN [state EXCEPT !.phase = 1, !.cc[2] = state.wake + Lead,
                                  !.hit = @ \ {2}, !.wake = None]
               ELSE PhaseTimer(state)
  IN  /\ state.wake = NextEvent
      /\ now' = NextEvent
      /\ tx' = [tx EXCEPT ![d] = after]
      /\ IF state.phase = AckPhase THEN TxAck(d, after.slice) /\ UNCHANGED reply
         ELSE IF state.phase = OpenPhase THEN TxOpen(d, after.slice) /\ UNCHANGED acks
         ELSE UNCHANGED <<acks, reply, onAir>>
      /\ UNCHANGED <<due, channels, passedOn>>

-----------------------------------------------------------------------------
(* The other threads *)

\* spi_thread: an acknowledgement of this interval's packet.
SpiAck(d) ==
  /\ due[d] /\ now <= Deadline
  /\ due' = [due EXCEPT ![d] = FALSE]
  /\ acks' = [acks EXCEPT ![d] = Append(@, channels[d])]
  /\ UNCHANGED <<now, tx, channels, reply, onAir, passedOn>>

\* spi_thread: the discovery reply, which a device sends once.
SpiReply(d) ==
  /\ reply[d] = <<"none">>
  /\ reply' = [reply EXCEPT ![d] = <<"delayed">>]
  /\ UNCHANGED <<now, tx, acks, due, channels, onAir, passedOn>>

\* Faulty variant: the slices are numbered from 1.
DelayEndsFromOne(d) ==
  /\ reply[d] = <<"delayed">>
  /\ \E slice \in OpenSlices : reply' = [reply EXCEPT ![d] = <<"slot", slice + 1>>]
  /\ UNCHANGED <<now, tx, acks, due, channels, onAir, passedOn>>

\* esb_delayed_tx_thread: after a while of up to two seconds the reply is put
\* into the fifo of a random slice.
DelayEnds(d) ==
  /\ reply[d] = <<"delayed">>
  /\ \E slice \in OpenSlices : reply' = [reply EXCEPT ![d] = <<"slot", slice>>]
  /\ UNCHANGED <<now, tx, acks, due, channels, onAir, passedOn>>

TimedStep == Edge \/ \E d \in Devices : Compare(d) \/ ThreadRuns(d)

Next ==
  \/ TimedStep
  \/ \E d \in Devices : SpiAck(d) \/ SpiReply(d) \/ DelayEnds(d)

\* Time goes on, and sleeps end.
Fairness == WF_esbVars(TimedStep) /\ \A d \in Devices : WF_esbVars(DelayEnds(d))

Spec == Init /\ [][Next]_esbVars /\ Fairness

-----------------------------------------------------------------------------
(* Properties *)

TypeOK ==
  /\ now \in 0..Interval
  /\ \A d \in Devices : tx[d] \in Device(d)
  /\ \A d \in Devices : acks[d] \in Seq(AckChannels)
  /\ due \in [Devices -> BOOLEAN] /\ channels \in Assignments
  /\ \A d \in Devices : reply[d] \in {<<"none">>, <<"delayed">>, <<"sent">>} \cup ({"slot"} \X OpenSlices)
  /\ \A s \in onAir : s.dev \in Devices /\ s.kind \in {"ack", "open"} /\ s.start \in 0..Interval
  /\ passedOn \subseteq Devices

\* An acknowledgement is never transmitted while another device transmits,
\* although the devices keep their slots with timers of their own and threads
\* that may be late (tx_phase_timer, esb_tx_ack).
AcksDoNotCollide ==
  \A s, u \in onAir :
    s.dev # u.dev /\ s.kind = "ack" =>
      s.start - u.start >= Airtime \/ u.start - s.start >= Airtime

\* When nothing but the next edge is to come, every device has gone through all
\* its slices: no two events were merged into one by the semaphore's limit, and
\* none is left over for the next interval (time_slice_timer_handler).
ChainComplete ==
  NextEvent = Interval /\ now < Interval =>
    \A d \in Devices : tx[d].phase = 0 /\ tx[d].slice = 0 /\ tx[d].wake = None

\* No acknowledgement is left for a later interval, in which its channel may
\* belong to another device.
AcksOnTime ==
  NextEvent = Interval /\ now < Interval => \A d \in Devices : acks[d] = <<>>

\* Every reply is taken from its fifo in the slot it was put in for, and handed
\* to the radio (esb_delayed_tx_thread, esb_tx_open); the write may fail.
EveryReplySent == \A d \in Devices : (reply[d] = <<"delayed">>) ~> (reply[d] = <<"sent">>)
=============================================================================
