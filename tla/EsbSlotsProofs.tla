---------------------------- MODULE EsbSlotsProofs ---------------------------
(***************************************************************************)
(* For every number of devices: the state has its type; and for all lags   *)
(* up to a sixth of what a slice leaves over, acknowledgements do not      *)
(* overlap with anything, every device goes through all its slices in      *)
(* every interval, and no acknowledgement is left for a later one.         *)
(***************************************************************************)
EXTENDS EsbSlots, SequenceTheorems, NaturalsInduction, WellFoundedInduction, TLAPS

\* A transmission fits into its slice although a slot may start up to six lags late
\* and the next one, of a device without any, in time; and acknowledgements of a
\* packet are there before the first slot.
InTime ==
  /\ \A d \in Devices : \A l \in Lags[d] : Airtime + 6 * l <= SliceTime[AckPhase]
  /\ Deadline < Lead + PhaseTime[1]

-----------------------------------------------------------------------------
(* The chain of runs *)

\* When the thread runs for slice s of phase p: every run before adds the lag, but for
\* those that timed no other run.
PhaseStart == <<Lead, Lead + PhaseTime[1], Lead + PhaseTime[1] + PhaseTime[2]>>
Run(p, s, l) == PhaseStart[p] + (p + 1) * l + s * (SliceTime[p] + l)

At(st, p, s) == st.phase = p /\ st.slice = s

\* The run r is to come after the event of channel c.
Waits(st, t, c, r) ==
  \/ st.wake = None /\ c \notin st.hit /\ st.cc[c] = r - st.lag /\ t <= r - st.lag
  \/ st.wake = r /\ c \in st.hit /\ t <= r

\* What a compare channel still holds from an earlier interval is later than the time
\* at which it gets another value.
Old(st, c) == st.cc[c] = 0 \/ st.cc[c] >= PhaseStart[2]

Resting(st, t) ==
  /\ At(st, 0, 0) /\ st.wake = None /\ st.hit = {1, 2} /\ Old(st, 1) /\ Old(st, 2)
  /\ t >= PhaseStart[2]

Started(st, t) ==
  /\ At(st, 0, 0) /\ st.wake = st.lag /\ t <= st.lag
  /\ \A c \in 1..2 : c \in st.hit \/ st.cc[c] >= PhaseStart[2]

InPhase1(st, t) ==
  \/ /\ At(st, 1, 0) /\ Waits(st, t, 2, Run(1, 0, st.lag))
     /\ 1 \in st.hit \/ st.cc[1] >= PhaseStart[2]
  \/ /\ At(st, 1, 1) /\ Waits(st, t, 2, Run(1, 1, st.lag))
     /\ 1 \notin st.hit /\ st.cc[1] = Run(2, 0, st.lag) - st.lag

InPhase2(st, t) ==
  \/ /\ At(st, 2, 0) /\ Waits(st, t, 1, Run(2, 0, st.lag))
     /\ 2 \in st.hit
  \/ /\ \E s \in 1..4 : At(st, 2, s) /\ Waits(st, t, 2, Run(2, s, st.lag))
     /\ 1 \notin st.hit /\ st.cc[1] = Run(3, 0, st.lag) - st.lag
     /\ t >= PhaseStart[2]

InPhase3(st, t) ==
  /\ \/ /\ At(st, 3, 0) /\ Waits(st, t, 1, Run(3, 0, st.lag))
        /\ 2 \in st.hit
     \/ /\ \E s \in 1..2 : At(st, 3, s) /\ Waits(st, t, 2, Run(3, s, st.lag))
        /\ 1 \in st.hit /\ st.cc[2] >= PhaseStart[2]
  /\ st.cc[1] >= PhaseStart[2] /\ t >= PhaseStart[2]

\* A device, with state st at time t, is somewhere on its way through the slices.
OnChain(st, t) ==
  \/ Resting(st, t)
  \/ Started(st, t)
  \/ InPhase1(st, t)
  \/ InPhase2(st, t)
  \/ InPhase3(st, t)

\* The slice that transmits on channel c of the acknowledgements.
SlotOf(c) == IF c = 0 THEN 4 ELSE c - 1

\* The slot of channel c is still to come.
SlotAhead(st, c) ==
  \/ st.phase = 0 /\ st.wake # None
  \/ st.phase = 1
  \/ st.phase = 2 /\ st.slice <= SlotOf(c)

\* At most the acknowledgement of this interval waits, and for a slot to come.
AckInv(d) ==
  /\ acks[d] \in {<<>>, <<channels[d]>>}
  /\ due[d] => acks[d] = <<>>
  /\ acks[d] # <<>> => SlotAhead(tx[d], channels[d])

\* What has been transmitted was transmitted in its slot.
InSlot(s) ==
  IF s.kind = "ack" THEN s.start = Run(2, SlotOf(channels[s.dev]), tx[s.dev].lag)
  ELSE s.start >= PhaseStart[3]

Replies == {<<"none">>, <<"delayed">>, <<"sent">>} \cup ({"slot"} \X OpenSlices)

SlotInv ==
  /\ \A d \in Devices : OnChain(tx[d], now) /\ AckInv(d)
  /\ \A s \in onAir : InSlot(s)

-----------------------------------------------------------------------------
(* Times *)

LEMMA Runs ==
  ASSUME NEW l \in Nat
  PROVE  /\ PhaseStart[1] = 800 /\ PhaseStart[2] = 2010 /\ PhaseStart[3] = 2560
         /\ Run(1, 0, l) = 800 + 2 * l /\ Run(1, 1, l) = 1375 + 3 * l
         /\ Run(2, 0, l) = 2010 + 3 * l /\ Run(2, 1, l) = 2090 + 4 * l
         /\ Run(2, 2, l) = 2170 + 5 * l /\ Run(2, 3, l) = 2250 + 6 * l
         /\ Run(2, 4, l) = 2330 + 7 * l
         /\ Run(3, 0, l) = 2560 + 4 * l /\ Run(3, 1, l) = 2880 + 5 * l
         /\ Run(3, 2, l) = 3200 + 6 * l
BY DEF PhaseStart, Lead, PhaseTime, SliceTime, Run

LEMMA Starts == PhaseStart[1] = 800 /\ PhaseStart[2] = 2010 /\ PhaseStart[3] = 2560
BY DEF PhaseStart, Lead, PhaseTime

LEMMA ShortLags ==
  ASSUME InTime, NEW d \in Devices, NEW l \in Lags[d]
  PROVE  l \in Nat /\ l <= 13 /\ Airtime \in Nat /\ Airtime + 6 * l <= 80
<1>1. l \in Nat /\ Airtime \in Nat
  BY EsbAssumption
<1>2. SliceTime[AckPhase] = 80
  BY DEF SliceTime, AckPhase
<1>3. Airtime + 6 * l <= 80
  BY <1>2 DEF InTime
<1> QED
  BY <1>1, <1>3

LEMMA RunsAreTimes ==
  ASSUME NEW l \in Nat, NEW p \in 1..3, NEW s \in 0..4
  PROVE  Run(p, s, l) \in Nat
<1>1. CASE p = 1
  BY <1>1 DEF Run, PhaseStart, Lead, PhaseTime, SliceTime
<1>2. CASE p = 2
  BY <1>2 DEF Run, PhaseStart, Lead, PhaseTime, SliceTime
<1>3. CASE p = 3
  BY <1>3 DEF Run, PhaseStart, Lead, PhaseTime, SliceTime
<1> QED
  BY <1>1, <1>2, <1>3

\* The events a device with state st is waiting for.
Pending(st) ==
  {st.cc[c] : c \in (1..2) \ st.hit} \cup (IF st.wake = None THEN {} ELSE {st.wake})

LEMMA NoneIsNoTime == \A n \in Nat : n # None
BY EsbAssumption

\* The fields of a device's state.
LEMMA Fields ==
  ASSUME NEW d \in Devices, NEW st \in Device(d)
  PROVE  /\ st.phase \in 0..3 /\ st.slice \in 0..4 /\ st.cc[1] \in Nat /\ st.cc[2] \in Nat
         /\ st.hit \subseteq 1..2 /\ st.wake \in Nat \cup {None} /\ st.lag \in Lags[d]
BY DEF Device, NumPhases

\* No event is in the past, and each comes before the interval is over.
LEMMA EventsAhead ==
  ASSUME InTime, NEW d \in Devices, NEW st \in Device(d), NEW t \in Nat,
         OnChain(st, t), NEW e \in Pending(st)
  PROVE  e \in Nat /\ t <= e
<1>1. PICK l : l = st.lag /\ l \in Nat /\ l <= 13
  BY Fields, ShortLags
<1>2. /\ st.cc[1] \in Nat /\ st.cc[2] \in Nat
      /\ st.hit \subseteq 1..2 /\ st.wake \in Nat \cup {None}
  BY Fields
<1>3. \/ 1 \notin st.hit /\ e = st.cc[1]
      \/ 2 \notin st.hit /\ e = st.cc[2]
      \/ st.wake # None /\ e = st.wake
  BY DEF Pending
<1>4. CASE Resting(st, t)
  BY <1>3, <1>4 DEF Resting
<1>5. CASE Started(st, t)
  BY <1>1, <1>2, <1>3, <1>5, Starts DEF Started
<1>6. CASE InPhase1(st, t)
  <2>1. CASE /\ Waits(st, t, 2, Run(1, 0, st.lag))
             /\ 1 \in st.hit \/ st.cc[1] >= PhaseStart[2]
    <3>1. Run(1, 0, st.lag) = 800 + 2 * l
      BY <1>1 DEF Run, PhaseStart, Lead, PhaseTime, SliceTime
    <3> QED
      BY <1>1, <1>2, <1>3, <2>1, <3>1, Starts, NoneIsNoTime DEF Waits
  <2>2. CASE /\ Waits(st, t, 2, Run(1, 1, st.lag))
             /\ 1 \notin st.hit /\ st.cc[1] = Run(2, 0, st.lag) - st.lag
    <3>1. Run(1, 1, st.lag) = 1375 + 3 * l /\ Run(2, 0, st.lag) = 2010 + 3 * l
      BY <1>1 DEF Run, PhaseStart, Lead, PhaseTime, SliceTime
    <3> QED
      BY <1>1, <1>2, <1>3, <2>2, <3>1, NoneIsNoTime DEF Waits
  <2> QED
    BY <1>6, <2>1, <2>2 DEF InPhase1
<1>7. CASE InPhase2(st, t)
  <2>1. CASE 2 \in st.hit /\ Waits(st, t, 1, Run(2, 0, st.lag))
    <3>1. Run(2, 0, st.lag) = 2010 + 3 * l
      BY <1>1 DEF Run, PhaseStart, Lead, PhaseTime, SliceTime
    <3> QED
      BY <1>1, <1>2, <1>3, <2>1, <3>1, NoneIsNoTime DEF Waits
  <2>2. ASSUME NEW s \in 1..4, Waits(st, t, 2, Run(2, s, st.lag)),
               1 \notin st.hit, st.cc[1] = Run(3, 0, st.lag) - st.lag
        PROVE  e \in Nat /\ t <= e
    <3>1. s = 1 \/ s = 2 \/ s = 3 \/ s = 4
      OBVIOUS
    <3>2. /\ Run(2, 1, l) = 2090 + 4 * l /\ Run(2, 2, l) = 2170 + 5 * l
          /\ Run(2, 3, l) = 2250 + 6 * l /\ Run(2, 4, l) = 2330 + 7 * l
      BY <1>1 DEF Run, PhaseStart, Lead, PhaseTime, SliceTime
    <3>3. PICK r : r = Run(2, s, l)
      OBVIOUS
    <3>4. r \in Nat /\ r <= 2330 + 7 * l
      BY <1>1, <3>1, <3>2, <3>3
    <3>5. st.cc[1] = 2560 + 3 * l
      <4>1. Run(3, 0, l) = 2560 + 4 * l
        BY <1>1 DEF Run, PhaseStart, Lead, PhaseTime, SliceTime
      <4> QED
        BY <1>1, <2>2, <4>1
    <3>6. Waits(st, t, 2, r)
      BY <1>1, <2>2, <3>3
    <3> QED
      BY <1>1, <1>2, <1>3, <3>6, <3>4, <3>5, NoneIsNoTime DEF Waits
  <2> QED
    BY <1>7, <2>1, <2>2 DEF InPhase2
<1>8. CASE InPhase3(st, t)
  <2>1. CASE 2 \in st.hit /\ Waits(st, t, 1, Run(3, 0, st.lag))
    <3>1. Run(3, 0, st.lag) = 2560 + 4 * l
      BY <1>1 DEF Run, PhaseStart, Lead, PhaseTime, SliceTime
    <3> QED
      BY <1>1, <1>2, <1>3, <2>1, <3>1, NoneIsNoTime DEF Waits
  <2>2. ASSUME NEW s \in 1..2, Waits(st, t, 2, Run(3, s, st.lag)), 1 \in st.hit
        PROVE  e \in Nat /\ t <= e
    <3>1. s = 1 \/ s = 2
      OBVIOUS
    <3>2. Run(3, 1, l) = 2880 + 5 * l /\ Run(3, 2, l) = 3200 + 6 * l
      BY <1>1 DEF Run, PhaseStart, Lead, PhaseTime, SliceTime
    <3>3. PICK r : r = Run(3, s, l)
      OBVIOUS
    <3>4. r \in Nat
      BY <1>1, <3>1, <3>2, <3>3
    <3>5. Waits(st, t, 2, r)
      BY <1>1, <2>2, <3>3
    <3> QED
      BY <1>1, <1>2, <1>3, <2>2, <3>4, <3>5, NoneIsNoTime DEF Waits
  <2> QED
    BY <1>8, <2>1, <2>2 DEF InPhase3
<1> QED
  BY <1>4, <1>5, <1>6, <1>7, <1>8 DEF OnChain

\* A device whose events are all to come is as far as it was.
LEMMA ChainLater ==
  ASSUME InTime, NEW d \in Devices, NEW st \in Device(d), NEW t \in Nat, NEW u \in Nat,
         OnChain(st, t), t <= u, \A e \in Pending(st) : u <= e
  PROVE  OnChain(st, u)
<1>1. st.lag \in Nat
  BY Fields, ShortLags
<1>2. ASSUME NEW c \in 1..2, NEW r \in Nat, Waits(st, t, c, r) PROVE Waits(st, u, c, r)
  <2>1. CASE st.wake = None /\ c \notin st.hit /\ st.cc[c] = r - st.lag
    <3>1. u <= st.cc[c]
      BY <2>1 DEF Pending
    <3> QED
      BY <2>1, <3>1 DEF Waits
  <2>2. CASE st.wake = r /\ c \in st.hit /\ st.wake # None
    <3>1. u <= st.wake
      BY <2>2 DEF Pending
    <3> QED
      BY <2>2, <3>1 DEF Waits
  <2> QED
    BY <1>2, <2>1, <2>2, NoneIsNoTime DEF Waits
<1>9. \A c \in 1..2, p \in 1..3, s \in 0..4 :
        Waits(st, t, c, Run(p, s, st.lag)) => Waits(st, u, c, Run(p, s, st.lag))
  BY <1>1, <1>2, RunsAreTimes
<1>3. t >= PhaseStart[2] => u >= PhaseStart[2]
  BY Starts
<1>4. CASE Resting(st, t)
  BY <1>3, <1>4 DEF Resting, OnChain
<1>5. CASE Started(st, t)
  <2>1. st.wake \in Pending(st)
    BY <1>1, <1>5, NoneIsNoTime DEF Started, Pending
  <2> QED
    BY <1>5, <2>1 DEF Started, OnChain
<1>6. CASE InPhase1(st, t)
  <2>1. /\ Waits(st, t, 2, Run(1, 0, st.lag)) => Waits(st, u, 2, Run(1, 0, st.lag))
        /\ Waits(st, t, 2, Run(1, 1, st.lag)) => Waits(st, u, 2, Run(1, 1, st.lag))
    BY <1>9
  <2> QED
    BY <1>6, <2>1 DEF InPhase1, OnChain
<1>7. CASE InPhase2(st, t)
  <2>1. /\ Waits(st, t, 1, Run(2, 0, st.lag)) => Waits(st, u, 1, Run(2, 0, st.lag))
        /\ \A s \in 1..4 : Waits(st, t, 2, Run(2, s, st.lag)) => Waits(st, u, 2, Run(2, s, st.lag))
    BY <1>9
  <2> QED
    BY <1>3, <1>7, <2>1 DEF InPhase2, OnChain
<1>8. CASE InPhase3(st, t)
  <2>1. /\ Waits(st, t, 1, Run(3, 0, st.lag)) => Waits(st, u, 1, Run(3, 0, st.lag))
        /\ \A s \in 1..2 : Waits(st, t, 2, Run(3, s, st.lag)) => Waits(st, u, 2, Run(3, s, st.lag))
    BY <1>9
  <2> QED
    BY <1>3, <1>8, <2>1 DEF InPhase3, OnChain
<1> QED
  BY <1>4, <1>5, <1>6, <1>7, <1>8 DEF OnChain

-----------------------------------------------------------------------------
(* Steps of a device *)

\* Every nonempty set of naturals has a least element.
LEMMA Least ==
  ASSUME NEW T \in SUBSET Nat, T # {}
  PROVE  Min(T) \in T /\ \A k \in T : Min(T) <= k
<1> DEFINE R == {ss \in Nat \X Nat : ss[1] < ss[2]}
<1>1. IsWellFoundedOn(R, Nat)
  BY NatLessThanWellFounded DEF OpToRel
<1>2. \A x, y \in Nat : x < y => <<x, y>> \in R
  OBVIOUS
<1> HIDE DEF R
<1>3. PICK n \in T : \A y \in T : ~(<<y, n>> \in R)
  BY <1>1, WFMin
<1>4. \A y \in T : ~(y < n)
  BY <1>2, <1>3
<1>5. \A y \in T : n <= y
  BY <1>4
<1> QED
  BY <1>5 DEF Min

\* esb_tx_sem is given only if it is not given yet.
LEMMA WokenFields ==
  ASSUME NEW d \in Devices, NEW st \in Device(d), NEW n \in Nat, NEW Z, Z = Woken(st, n)
  PROVE  /\ Z \in Device(d)
         /\ Z.phase = st.phase /\ Z.slice = st.slice /\ Z.cc = st.cc
         /\ Z.hit = st.hit /\ Z.lag = st.lag
         /\ st.wake = None => Z.wake = n + st.lag
         /\ st.wake # None => Z.wake = st.wake
<1>1. st.lag \in Nat
  BY EsbAssumption DEF Device
<1>2. CASE st.wake = None
  <2>1. n + st.lag \in Nat
    BY <1>1
  <2>2. Z = [st EXCEPT !.wake = n + st.lag]
    BY <1>2 DEF Woken
  <2> QED
    BY <1>2, <2>1, <2>2 DEF Device
<1>3. CASE st.wake # None
  BY <1>3 DEF Woken
<1> QED
  BY <1>2, <1>3

\* Channel c matches at time n.
Matched(st, c, n) == Woken([st EXCEPT !.hit = @ \cup {c}], n)

LEMMA MatchedFields ==
  ASSUME NEW d \in Devices
  PROVE  \A st \in Device(d) : \A c \in 1..2, n \in Nat : \A Z :
           Z = Matched(st, c, n) =>
             /\ Z \in Device(d)
             /\ Z.phase = st.phase /\ Z.slice = st.slice /\ Z.cc = st.cc
             /\ Z.hit = st.hit \cup {c} /\ Z.lag = st.lag
             /\ st.wake = None => Z.wake = n + st.lag
             /\ st.wake # None => Z.wake = st.wake
<1> SUFFICES ASSUME NEW st \in Device(d), NEW c \in 1..2, NEW n \in Nat,
                    NEW Z, Z = Matched(st, c, n)
             PROVE  /\ Z \in Device(d)
                    /\ Z.phase = st.phase /\ Z.slice = st.slice /\ Z.cc = st.cc
                    /\ Z.hit = st.hit \cup {c} /\ Z.lag = st.lag
                    /\ st.wake = None => Z.wake = n + st.lag
                    /\ st.wake # None => Z.wake = st.wake
  OBVIOUS
<1>1. PICK y \in Device(d) : y = [st EXCEPT !.hit = @ \cup {c}]
  BY DEF Device
<1>2. /\ y \in Device(d)
      /\ y.phase = st.phase /\ y.slice = st.slice /\ y.cc = st.cc
      /\ y.hit = st.hit \cup {c} /\ y.lag = st.lag /\ y.wake = st.wake
  BY <1>1 DEF Device
<1>3. Z = Woken(y, n)
  BY <1>1 DEF Matched
<1>4. \A X :
      X = Woken(y, n) =>
      /\ X \in Device(d)
      /\ X.phase = y.phase /\ X.slice = y.slice /\ X.cc = y.cc
      /\ X.hit = y.hit /\ X.lag = y.lag
      /\ y.wake = None => X.wake = n + y.lag
      /\ y.wake # None => X.wake = y.wake
  BY WokenFields
<1>5. /\ Z \in Device(d)
      /\ Z.phase = y.phase /\ Z.slice = y.slice /\ Z.cc = y.cc
      /\ Z.hit = y.hit /\ Z.lag = y.lag
      /\ y.wake = None => Z.wake = n + y.lag
      /\ y.wake # None => Z.wake = y.wake
  BY <1>3, <1>4
<1> QED
  BY <1>2, <1>5

\* tx_phase_timer: what it changes.
LEMMA AdvancedFields ==
  ASSUME NEW d \in Devices, NEW st \in Device(d), st.phase \in 1..3, st.wake \in Nat,
         NEW last \in BOOLEAN, NEW first \in BOOLEAN, ~last => st.slice < 4,
         NEW Z, Z = Advanced(st, last, first)
  PROVE  /\ Z \in Device(d)
         /\ Z.phase = IF last THEN (st.phase + 1) % 4 ELSE st.phase
         /\ Z.slice = IF last THEN 0 ELSE st.slice + 1
         /\ Z.cc[1] = IF first /\ st.phase < 3 THEN st.wake + PhaseTime[st.phase] ELSE st.cc[1]
         /\ Z.cc[2] = IF last THEN st.cc[2] ELSE st.wake + SliceTime[st.phase]
         /\ 1 \in Z.hit <=> 1 \in st.hit /\ ~(first /\ st.phase < 3)
         /\ 2 \in Z.hit <=> 2 \in st.hit /\ last
         /\ Z.wake = None /\ Z.lag = st.lag
<1> DEFINE p == st.phase
           timed == (IF last THEN {} ELSE {2})
                    \cup (IF first /\ p < NumPhases - 1 THEN {1} ELSE {})
           time == <<PhaseTime[p], SliceTime[p]>>
           cc == [c \in 1..2 |-> IF c \in timed THEN st.wake + time[c] ELSE st.cc[c]]
           phase == IF last THEN (p + 1) % NumPhases ELSE p
           slice == IF last THEN 0 ELSE st.slice + 1
           hit == st.hit \ timed
<1>1. /\ 1 \in timed <=> first /\ p < 3
      /\ 2 \in timed <=> ~last
  BY DEF NumPhases
<1>2. /\ time[1] \in Nat /\ time[2] \in Nat
      /\ time[1] = PhaseTime[p] /\ time[2] = SliceTime[p]
  BY DEF PhaseTime, SliceTime
<1>3. \A c \in 1..2 : time[c] \in Nat /\ st.cc[c] \in Nat
  BY <1>2, Fields
<1>4. cc \in [1..2 -> Nat]
  <2> HIDE DEF time, timed
  <2> QED
    BY <1>3
<1>5. phase \in 0..3 /\ slice \in 0..4
  BY Fields DEF NumPhases
<1>6. hit \in SUBSET (1..2)
  BY Fields
<1>7. Z = [st EXCEPT !.phase = phase, !.slice = slice, !.cc = cc, !.hit = hit, !.wake = None]
  BY DEF Advanced
<1>8. /\ cc[1] = IF first /\ p < 3 THEN st.wake + PhaseTime[p] ELSE st.cc[1]
      /\ cc[2] = IF last THEN st.cc[2] ELSE st.wake + SliceTime[p]
  <2> HIDE DEF time, timed
  <2> QED
    BY <1>1, <1>2
<1>9. /\ 1 \in hit <=> 1 \in st.hit /\ ~(first /\ p < 3)
      /\ 2 \in hit <=> 2 \in st.hit /\ last
  <2> HIDE DEF timed
  <2> QED
    BY <1>1
<1>10. phase = IF last THEN (p + 1) % 4 ELSE p
  BY DEF NumPhases
<1> HIDE DEF timed, time, cc, phase, slice, hit
<1>11. /\ Z.phase = phase /\ Z.slice = slice /\ Z.cc = cc /\ Z.hit = hit
       /\ Z.wake = None /\ Z.lag = st.lag
  BY <1>7 DEF Device
<1>12. Z \in Device(d)
  <2>1. cc \in [1..2 -> Nat] /\ hit \in SUBSET (1..2)
    BY <1>4, <1>6
  <2>2. phase \in 0..(NumPhases - 1) /\ slice \in 0..4
    BY <1>5 DEF NumPhases
  <2>3. None \in Nat \cup {None}
    OBVIOUS
  <2> QED
    BY <1>7, <2>1, <2>2, <2>3, Zenon DEF Device
<1> QED
  BY <1>8, <1>9, <1>10, <1>11, <1>12 DEF slice

\* A channel that matches is the one the next run waits for, if the other one has
\* matched or is to match later.
LEMMA WaitedMatch ==
  ASSUME NEW d \in Devices, NEW st \in Device(d), NEW t \in Nat, NEW n \in Nat, st.lag \in Nat,
         \A e \in Pending(st) : n <= e,
         NEW c \in 1..2, c \notin st.hit, st.cc[c] = n,
         NEW w \in 1..2, NEW o \in 1..2, w # o, NEW r \in Nat, Waits(st, t, w, r),
         o \in st.hit \/ st.cc[o] > r
  PROVE  c = w /\ st.wake = None /\ r = n + st.lag
<1>1. st.cc[w] \in Nat /\ st.cc[o] \in Nat
  BY DEF Device
<1>2. CASE st.wake = None /\ w \notin st.hit /\ st.cc[w] = r - st.lag
  <2>1. n <= r - st.lag
    BY <1>2 DEF Pending
  <2>2. c = w
    BY <1>1, <2>1
  <2> QED
    BY <1>2, <2>2
<1>3. CASE st.wake = r /\ w \in st.hit
  <2>1. n <= r
    BY <1>3, NoneIsNoTime DEF Pending
  <2>2. c = o
    BY <1>3
  <2> QED
    BY <1>1, <2>1, <2>2
<1> QED
  BY <1>2, <1>3 DEF Waits

\* A device in which a compare channel matches goes on to the run it waits for.
LEMMA MatchOnChain ==
  ASSUME InTime, NEW d \in Devices, NEW st \in Device(d), NEW t \in Nat, NEW n \in Nat,
         OnChain(st, t), t <= n, \A e \in Pending(st) : n <= e,
         NEW c \in 1..2, c \notin st.hit, st.cc[c] = n,
         NEW Z, Z = Matched(st, c, n)
  PROVE  /\ Z \in Device(d) /\ OnChain(Z, n)
         /\ Z.phase = st.phase /\ Z.slice = st.slice /\ Z.lag = st.lag
         /\ st.wake # None => Z.wake # None
<1>1. PICK l : l = st.lag /\ l \in Nat /\ l <= 13
  BY Fields, ShortLags
<1>2. /\ st.cc[1] \in Nat /\ st.cc[2] \in Nat
      /\ st.hit \subseteq 1..2 /\ st.wake \in Nat \cup {None}
  BY Fields
<1>3. /\ Z \in Device(d)
      /\ Z.phase = st.phase /\ Z.slice = st.slice /\ Z.cc = st.cc
      /\ Z.hit = st.hit \cup {c} /\ Z.lag = st.lag
      /\ st.wake = None => Z.wake = n + st.lag
      /\ st.wake # None => Z.wake = st.wake
  <2>1. \A c2 \in 1..2, n2 \in Nat : \A Y :
          Y = Matched(st, c2, n2) =>
            /\ Y \in Device(d)
            /\ Y.phase = st.phase /\ Y.slice = st.slice /\ Y.cc = st.cc
            /\ Y.hit = st.hit \cup {c2} /\ Y.lag = st.lag
            /\ st.wake = None => Y.wake = n2 + st.lag
            /\ st.wake # None => Y.wake = st.wake
    BY MatchedFields
  <2> QED
    BY <2>1
<1>4. \A w, o \in 1..2, r \in Nat :
        Waits(st, t, w, r) /\ w # o /\ (o \in st.hit \/ st.cc[o] > r) =>
          Waits(Z, n, w, r) /\ c = w
  <2> SUFFICES ASSUME NEW w \in 1..2, NEW o \in 1..2, NEW r \in Nat,
                      Waits(st, t, w, r), w # o, o \in st.hit \/ st.cc[o] > r
               PROVE  Waits(Z, n, w, r) /\ c = w
    OBVIOUS
  <2>1. c = w /\ st.wake = None /\ r = n + st.lag
    BY <1>1, WaitedMatch
  <2>2. Z.wake = r /\ w \in Z.hit
    BY <1>3, <2>1
  <2>3. n <= r
    BY <1>1, <2>1
  <2> QED
    BY <2>1, <2>2, <2>3 DEF Waits
<1>5. \A p \in 1..3, s \in 0..4 : Run(p, s, st.lag) \in Nat
  BY <1>1, RunsAreTimes
<1>6. ~Resting(st, t)
  BY DEF Resting
<1>7. ~Started(st, t)
  <2> SUFFICES ASSUME Started(st, t) PROVE FALSE
    OBVIOUS
  <2>1. st.wake \in Pending(st)
    BY <1>1, NoneIsNoTime DEF Started, Pending
  <2> QED
    BY <1>1, <2>1, Starts DEF Started
<1>8. ASSUME InPhase1(st, t) PROVE OnChain(Z, n)
  <2>1. CASE /\ At(st, 1, 0) /\ Waits(st, t, 2, Run(1, 0, st.lag))
             /\ 1 \in st.hit \/ st.cc[1] >= PhaseStart[2]
    <3>1. Run(1, 0, st.lag) = 800 + 2 * l
      BY <1>1 DEF Run, PhaseStart, Lead, PhaseTime, SliceTime
    <3>2. 1 \in st.hit \/ st.cc[1] > Run(1, 0, st.lag)
      BY <1>1, <1>2, <2>1, <3>1, Starts
    <3>3. Run(1, 0, st.lag) \in Nat
      BY <1>5
    <3>4. Waits(Z, n, 2, Run(1, 0, Z.lag)) /\ c = 2
      BY <1>3, <1>4, <2>1, <3>2, <3>3
    <3> QED
      BY <1>3, <2>1, <3>4 DEF At, InPhase1, OnChain
  <2>2. CASE /\ At(st, 1, 1) /\ Waits(st, t, 2, Run(1, 1, st.lag))
             /\ 1 \notin st.hit /\ st.cc[1] = Run(2, 0, st.lag) - st.lag
    <3>1. Run(1, 1, st.lag) = 1375 + 3 * l /\ Run(2, 0, st.lag) = 2010 + 3 * l
      BY <1>1 DEF Run, PhaseStart, Lead, PhaseTime, SliceTime
    <3>2. st.cc[1] > Run(1, 1, st.lag)
      BY <1>1, <2>2, <3>1
    <3>3. Run(1, 1, st.lag) \in Nat
      BY <1>5
    <3>4. Waits(Z, n, 2, Run(1, 1, Z.lag)) /\ c = 2
      BY <1>3, <1>4, <2>2, <3>2, <3>3
    <3>5. Z.hit = st.hit \cup {2}
      BY <1>3, <3>4
    <3> QED
      BY <1>3, <2>2, <3>4, <3>5 DEF At, InPhase1, OnChain
  <2> QED
    BY <1>8, <2>1, <2>2 DEF InPhase1
<1>9. ASSUME InPhase2(st, t) PROVE OnChain(Z, n)
  <2>1. CASE /\ At(st, 2, 0) /\ Waits(st, t, 1, Run(2, 0, st.lag)) /\ 2 \in st.hit
    <3>1. Run(2, 0, st.lag) \in Nat
      BY <1>5
    <3>2. Waits(Z, n, 1, Run(2, 0, Z.lag)) /\ c = 1
      BY <1>3, <1>4, <2>1, <3>1
    <3> QED
      BY <1>3, <2>1, <3>2 DEF At, InPhase2, OnChain
  <2>2. ASSUME NEW s \in 1..4, At(st, 2, s), Waits(st, t, 2, Run(2, s, st.lag)),
               1 \notin st.hit, st.cc[1] = Run(3, 0, st.lag) - st.lag, t >= PhaseStart[2]
        PROVE  OnChain(Z, n)
    <3>1. s = 1 \/ s = 2 \/ s = 3 \/ s = 4
      OBVIOUS
    <3>2. /\ Run(2, 1, l) = 2090 + 4 * l /\ Run(2, 2, l) = 2170 + 5 * l
          /\ Run(2, 3, l) = 2250 + 6 * l /\ Run(2, 4, l) = 2330 + 7 * l
          /\ Run(3, 0, l) = 2560 + 4 * l
      BY <1>1 DEF Run, PhaseStart, Lead, PhaseTime, SliceTime
    <3>3. PICK r : r = Run(2, s, l)
      OBVIOUS
    <3>4. r \in Nat /\ r <= 2330 + 7 * l
      BY <1>1, <3>1, <3>2, <3>3
    <3>5. st.cc[1] > r
      BY <1>1, <2>2, <3>2, <3>4
    <3>6. Waits(st, t, 2, r)
      BY <1>1, <2>2, <3>3
    <3>7. Waits(Z, n, 2, r) /\ c = 2
      BY <1>4, <3>4, <3>5, <3>6
    <3>8. n >= PhaseStart[2]
      BY <2>2, Starts
    <3>9. At(Z, 2, s) /\ Waits(Z, n, 2, Run(2, s, Z.lag))
      BY <1>1, <1>3, <2>2, <3>3, <3>7 DEF At
    <3>10. 1 \notin Z.hit /\ Z.cc[1] = Run(3, 0, Z.lag) - Z.lag
      <4>1. Z.hit = st.hit \cup {2}
        BY <1>3, <3>7
      <4> QED
        BY <1>3, <2>2, <4>1
    <3> QED
      BY <3>8, <3>9, <3>10 DEF InPhase2, OnChain
  <2> QED
    BY <1>9, <2>1, <2>2 DEF InPhase2
<1>10. ASSUME InPhase3(st, t) PROVE OnChain(Z, n)
  <2>0. n >= PhaseStart[2] /\ Z.cc[1] >= PhaseStart[2]
    BY <1>3, <1>10, Starts DEF InPhase3
  <2>1. CASE /\ At(st, 3, 0) /\ Waits(st, t, 1, Run(3, 0, st.lag)) /\ 2 \in st.hit
    <3>1. Run(3, 0, st.lag) \in Nat
      BY <1>5
    <3>2. Waits(Z, n, 1, Run(3, 0, Z.lag)) /\ c = 1
      BY <1>3, <1>4, <2>1, <3>1
    <3> QED
      BY <1>3, <2>0, <2>1, <3>2 DEF At, InPhase3, OnChain
  <2>2. ASSUME NEW s \in 1..2, At(st, 3, s), Waits(st, t, 2, Run(3, s, st.lag)),
               1 \in st.hit, st.cc[2] >= PhaseStart[2]
        PROVE  OnChain(Z, n)
    <3>1. Run(3, s, st.lag) \in Nat
      BY <1>5
    <3>2. Waits(Z, n, 2, Run(3, s, Z.lag))
      BY <1>3, <1>4, <2>2, <3>1
    <3>3. At(Z, 3, s) /\ 1 \in Z.hit /\ Z.cc[2] >= PhaseStart[2]
      BY <1>3, <2>2 DEF At
    <3> QED
      BY <2>0, <3>2, <3>3 DEF InPhase3, OnChain
  <2> QED
    BY <1>10, <2>1, <2>2 DEF InPhase3
<1>11. OnChain(Z, n)
  BY <1>6, <1>7, <1>8, <1>9, <1>10 DEF OnChain
<1>12. st.wake # None => Z.wake # None
  BY <1>3
<1> QED
  BY <1>3, <1>11, <1>12

\* The state after a run of the thread.
AfterRun(st) ==
  IF st.phase = 0
  THEN [st EXCEPT !.phase = 1, !.cc[2] = st.wake + Lead, !.hit = @ \ {2}, !.wake = None]
  ELSE PhaseTimer(st)

LEMMA FirstRunFields ==
  ASSUME NEW d \in Devices, NEW st \in Device(d), st.phase = 0, st.wake \in Nat,
         NEW Z, Z = AfterRun(st)
  PROVE  /\ Z \in Device(d)
         /\ Z.phase = 1 /\ Z.slice = st.slice /\ Z.cc[1] = st.cc[1] /\ Z.cc[2] = st.wake + 800
         /\ 1 \in Z.hit <=> 1 \in st.hit
         /\ 2 \notin Z.hit
         /\ Z.wake = None /\ Z.lag = st.lag
<1> DEFINE cc == [st.cc EXCEPT ![2] = st.wake + Lead]
           hit == st.hit \ {2}
<1>1. st.cc \in [1..2 -> Nat] /\ st.hit \subseteq 1..2
  BY DEF Device
<1>2. /\ cc \in [1..2 -> Nat] /\ cc[1] = st.cc[1] /\ cc[2] = st.wake + 800
      /\ hit \in SUBSET (1..2) /\ 2 \notin hit
      /\ 1 \in hit <=> 1 \in st.hit
  BY <1>1 DEF Lead
<1>3. Z = [st EXCEPT !.phase = 1, !.cc = cc, !.hit = hit, !.wake = None]
  BY DEF AfterRun
<1> HIDE DEF cc, hit
<1>4. /\ Z.phase = 1 /\ Z.slice = st.slice /\ Z.cc = cc /\ Z.hit = hit
      /\ Z.wake = None /\ Z.lag = st.lag
  BY <1>3 DEF Device
<1>5. 1 \in 0..(NumPhases - 1)
  BY DEF NumPhases
<1>6. Z \in Device(d)
  <2>1. cc \in [1..2 -> Nat] /\ hit \in SUBSET (1..2)
    BY <1>2
  <2>2. None \in Nat \cup {None}
    OBVIOUS
  <2> QED
    BY <1>3, <1>5, <2>1, <2>2, Zenon DEF Device
<1> QED
  BY <1>2, <1>4, <1>6

\* What a run in phases 1 to 3 changes, in the last slice of a phase or before it.
Ran(st, last, Z) ==
  /\ Z.phase = IF last THEN (st.phase + 1) % 4 ELSE st.phase
  /\ Z.slice = IF last THEN 0 ELSE st.slice + 1
  /\ Z.cc[1] = IF st.slice = 0 /\ st.phase < 3
               THEN st.wake + PhaseTime[st.phase] ELSE st.cc[1]
  /\ Z.cc[2] = IF last THEN st.cc[2] ELSE st.wake + SliceTime[st.phase]
  /\ 1 \in Z.hit <=> 1 \in st.hit /\ ~(st.slice = 0 /\ st.phase < 3)
  /\ 2 \in Z.hit <=> 2 \in st.hit /\ last
  /\ Z.wake = None /\ Z.lag = st.lag

LEMMA RunFields ==
  ASSUME NEW d \in Devices, NEW st \in Device(d), st.phase \in 1..3, st.wake \in Nat,
         st.slice < Slices[st.phase], NEW Z, Z = AfterRun(st),
         NEW last \in BOOLEAN, last <=> st.slice = Slices[st.phase] - 1
  PROVE  Z \in Device(d) /\ Ran(st, last, Z)
<1>1. st.phase = 1 \/ st.phase = 2 \/ st.phase = 3
  OBVIOUS
<1>2. Slices[1] = 2 /\ Slices[2] = 5 /\ Slices[3] = 3
  BY DEF Slices
<1>3. st.slice \in 0..4
  BY Fields
<1>4. ~last => st.slice < 4
  BY <1>1, <1>2, <1>3
<1>5. PICK first \in BOOLEAN : first <=> st.slice = 0
  OBVIOUS
<1>6. Z = Advanced(st, last, first)
  <2>1. st.phase # 0
    OBVIOUS
  <2>2. (st.slice = Slices[st.phase] - 1) = last /\ (st.slice = 0) = first
    BY <1>5
  <2> QED
    BY <2>1, <2>2 DEF AfterRun, PhaseTimer
<1>7. \A Y : Y = Advanced(st, last, first) =>
         /\ Y \in Device(d)
         /\ Y.phase = IF last THEN (st.phase + 1) % 4 ELSE st.phase
         /\ Y.slice = IF last THEN 0 ELSE st.slice + 1
         /\ Y.cc[1] = IF first /\ st.phase < 3 THEN st.wake + PhaseTime[st.phase] ELSE st.cc[1]
         /\ Y.cc[2] = IF last THEN st.cc[2] ELSE st.wake + SliceTime[st.phase]
         /\ 1 \in Y.hit <=> 1 \in st.hit /\ ~(first /\ st.phase < 3)
         /\ 2 \in Y.hit <=> 2 \in st.hit /\ last
         /\ Y.wake = None /\ Y.lag = st.lag
  BY <1>4, AdvancedFields
<1> QED
  BY <1>5, <1>6, <1>7 DEF Ran

\* A run follows a match of the channel it waits for.
LEMMA WaitedRun ==
  ASSUME NEW st, NEW t, NEW w, NEW r, Waits(st, t, w, r), st.wake # None
  PROVE  st.wake = r /\ w \in st.hit
BY DEF Waits

LEMMA SlicesAre == Slices[1] = 2 /\ Slices[2] = 5 /\ Slices[3] = 3
BY DEF Slices

LEMMA RunInMiddle ==
  ASSUME NEW d \in Devices, NEW st \in Device(d), st.phase \in 1..3, st.wake \in Nat,
         st.slice < Slices[st.phase] - 1, NEW Z, Z = AfterRun(st)
  PROVE  /\ Z \in Device(d)
         /\ Z.phase = st.phase /\ Z.slice = st.slice + 1
         /\ Z.cc[1] = IF st.slice = 0 /\ st.phase < 3
                      THEN st.wake + PhaseTime[st.phase] ELSE st.cc[1]
         /\ Z.cc[2] = st.wake + SliceTime[st.phase]
         /\ 1 \in Z.hit <=> 1 \in st.hit /\ ~(st.slice = 0 /\ st.phase < 3)
         /\ 2 \notin Z.hit
         /\ Z.wake = None /\ Z.lag = st.lag
<1>1. PICK last \in BOOLEAN : ~last
  OBVIOUS
<1>2. st.slice < Slices[st.phase] /\ (last <=> st.slice = Slices[st.phase] - 1)
  BY <1>1, Fields, SlicesAre
<1>3. Z \in Device(d) /\ Ran(st, last, Z)
  BY <1>2, RunFields
<1> QED
  BY <1>1, <1>3 DEF Ran

LEMMA RunOfLast ==
  ASSUME NEW d \in Devices, NEW st \in Device(d), st.phase \in 1..3, st.wake \in Nat,
         st.slice = Slices[st.phase] - 1, NEW Z, Z = AfterRun(st)
  PROVE  /\ Z \in Device(d)
         /\ Z.phase = (st.phase + 1) % 4 /\ Z.slice = 0
         /\ Z.cc[1] = st.cc[1] /\ Z.cc[2] = st.cc[2]
         /\ 1 \in Z.hit <=> 1 \in st.hit
         /\ 2 \in Z.hit <=> 2 \in st.hit
         /\ Z.wake = None /\ Z.lag = st.lag
<1>1. PICK last \in BOOLEAN : last
  OBVIOUS
<1>2. /\ st.slice < Slices[st.phase] /\ (last <=> st.slice = Slices[st.phase] - 1)
      /\ st.slice # 0
  BY <1>1, Fields, SlicesAre
<1>3. Z \in Device(d) /\ Ran(st, last, Z)
  BY <1>2, RunFields
<1> QED
  BY <1>1, <1>2, <1>3 DEF Ran

\* A run of the thread takes the device to its next slice.
LEMMA RunInPhase0 ==
  ASSUME InTime, NEW d \in Devices, NEW st \in Device(d), NEW t \in Nat, NEW n \in Nat,
         OnChain(st, t), st.wake = n, st.phase = 0, NEW Z, Z = AfterRun(st)
  PROVE  Z \in Device(d) /\ Z.lag = st.lag /\ OnChain(Z, n) /\ Z.phase = 1
<1>1. PICK l : l = st.lag /\ l \in Nat /\ l <= 13
  BY Fields, ShortLags
<1>2. st.cc[1] \in Nat /\ st.cc[2] \in Nat /\ st.wake # None
  BY Fields, NoneIsNoTime
<1>3. At(st, 0, 0) /\ st.wake = l /\ (1 \in st.hit \/ st.cc[1] >= PhaseStart[2])
  BY <1>1, <1>2 DEF OnChain, Resting, Started, InPhase1, InPhase2, InPhase3, At
<1>4. /\ Z \in Device(d)
      /\ Z.phase = 1 /\ Z.slice = st.slice /\ Z.cc[1] = st.cc[1] /\ Z.cc[2] = st.wake + 800
      /\ 1 \in Z.hit <=> 1 \in st.hit
      /\ 2 \notin Z.hit
      /\ Z.wake = None /\ Z.lag = st.lag
  BY FirstRunFields
<1>5. Run(1, 0, Z.lag) = 800 + 2 * l
  BY <1>1, <1>4 DEF Run, PhaseStart, Lead, PhaseTime, SliceTime
<1>6. Waits(Z, n, 2, Run(1, 0, Z.lag))
  BY <1>1, <1>3, <1>4, <1>5 DEF Waits
<1>7. At(Z, 1, 0) /\ (1 \in Z.hit \/ Z.cc[1] >= PhaseStart[2])
  BY <1>3, <1>4 DEF At
<1> QED
  BY <1>4, <1>6, <1>7 DEF InPhase1, OnChain

LEMMA RunInPhase1 ==
  ASSUME InTime, NEW d \in Devices, NEW st \in Device(d), NEW t \in Nat, NEW n \in Nat,
         OnChain(st, t), st.wake = n, st.phase = 1, NEW Z, Z = AfterRun(st)
  PROVE  /\ Z \in Device(d) /\ Z.lag = st.lag /\ OnChain(Z, n)
         /\ Z.phase = 1 \/ (Z.phase = 2 /\ Z.slice = 0)
<1>1. PICK l : l = st.lag /\ l \in Nat /\ l <= 13
  BY Fields, ShortLags
<1>2. /\ st.cc[1] \in Nat /\ st.cc[2] \in Nat /\ st.wake \in Nat /\ st.wake # None
      /\ Slices[1] = 2 /\ PhaseTime[1] = 1210 /\ SliceTime[1] = 575
  BY Fields, NoneIsNoTime DEF Slices, PhaseTime, SliceTime
<1>3. /\ Run(1, 0, l) = 800 + 2 * l /\ Run(1, 1, l) = 1375 + 3 * l
      /\ Run(2, 0, l) = 2010 + 3 * l
  BY <1>1 DEF Run, PhaseStart, Lead, PhaseTime, SliceTime
<1>4. InPhase1(st, t)
  BY DEF OnChain, Resting, Started, InPhase2, InPhase3, At
<1>5. CASE At(st, 1, 0) /\ Waits(st, t, 2, Run(1, 0, st.lag))
  <2>1. st.wake = 800 + 2 * l
    BY <1>1, <1>2, <1>3, <1>5, WaitedRun
  <2>2. st.slice = 0 /\ st.slice < Slices[st.phase] - 1
    BY <1>2, <1>5 DEF At
  <2>3. /\ Z \in Device(d)
        /\ Z.phase = 1 /\ Z.slice = 1
        /\ Z.cc[1] = st.wake + 1210 /\ Z.cc[2] = st.wake + 575
        /\ 1 \notin Z.hit /\ 2 \notin Z.hit
        /\ Z.wake = None /\ Z.lag = st.lag
    <3>1. \A Y : Y = AfterRun(st) =>
            /\ Y \in Device(d)
            /\ Y.phase = st.phase /\ Y.slice = st.slice + 1
            /\ Y.cc[1] = IF st.slice = 0 /\ st.phase < 3
                         THEN st.wake + PhaseTime[st.phase] ELSE st.cc[1]
            /\ Y.cc[2] = st.wake + SliceTime[st.phase]
            /\ 1 \in Y.hit <=> 1 \in st.hit /\ ~(st.slice = 0 /\ st.phase < 3)
            /\ 2 \notin Y.hit
            /\ Y.wake = None /\ Y.lag = st.lag
      BY <1>2, <2>2, RunInMiddle
    <3> QED
      BY <1>2, <2>2, <3>1
  <2>4. Waits(Z, n, 2, Run(1, 1, Z.lag)) /\ Z.cc[1] = Run(2, 0, Z.lag) - Z.lag
    BY <1>1, <1>3, <2>1, <2>3 DEF Waits
  <2> QED
    BY <2>3, <2>4 DEF At, InPhase1, OnChain
<1>6. CASE /\ At(st, 1, 1) /\ Waits(st, t, 2, Run(1, 1, st.lag))
           /\ 1 \notin st.hit /\ st.cc[1] = Run(2, 0, st.lag) - st.lag
  <2>1. st.wake = 1375 + 3 * l /\ 2 \in st.hit
    BY <1>1, <1>2, <1>3, <1>6, WaitedRun
  <2>2. st.slice = 1 /\ st.slice = Slices[st.phase] - 1
    BY <1>2, <1>6 DEF At
  <2>3. /\ Z \in Device(d)
        /\ Z.phase = 2 /\ Z.slice = 0
        /\ Z.cc[1] = st.cc[1]
        /\ 1 \notin Z.hit /\ 2 \in Z.hit
        /\ Z.wake = None /\ Z.lag = st.lag
    <3>1. \A Y : Y = AfterRun(st) =>
            /\ Y \in Device(d)
            /\ Y.phase = (st.phase + 1) % 4 /\ Y.slice = 0
            /\ Y.cc[1] = st.cc[1] /\ Y.cc[2] = st.cc[2]
            /\ 1 \in Y.hit <=> 1 \in st.hit
            /\ 2 \in Y.hit <=> 2 \in st.hit
            /\ Y.wake = None /\ Y.lag = st.lag
      BY <1>2, <2>2, RunOfLast
    <3> QED
      BY <1>2, <1>6, <2>1, <2>2, <3>1
  <2>4. Waits(Z, n, 1, Run(2, 0, Z.lag))
    BY <1>1, <1>3, <1>6, <2>1, <2>3 DEF Waits
  <2> QED
    BY <2>3, <2>4 DEF At, InPhase2, OnChain
<1> QED
  BY <1>4, <1>5, <1>6 DEF InPhase1

LEMMA RunInPhase2 ==
  ASSUME InTime, NEW d \in Devices, NEW st \in Device(d), NEW t \in Nat, NEW n \in Nat,
         OnChain(st, t), st.wake = n, st.phase = 2, NEW Z, Z = AfterRun(st)
  PROVE  /\ Z \in Device(d) /\ Z.lag = st.lag /\ OnChain(Z, n)
         /\ n = Run(2, st.slice, st.lag)
         /\ \/ st.slice \in 0..3 /\ Z.phase = 2 /\ Z.slice = st.slice + 1
            \/ st.slice = 4 /\ Z.phase = 3 /\ Z.slice = 0
<1>1. PICK l : l = st.lag /\ l \in Nat /\ l <= 13
  BY Fields, ShortLags
<1>2. /\ st.cc[1] \in Nat /\ st.cc[2] \in Nat /\ st.wake \in Nat /\ st.wake # None
      /\ Slices[2] = 5 /\ PhaseTime[2] = 550 /\ SliceTime[2] = 80
  BY Fields, NoneIsNoTime DEF Slices, PhaseTime, SliceTime
<1>3. /\ Run(2, 0, l) = 2010 + 3 * l /\ Run(2, 1, l) = 2090 + 4 * l
      /\ Run(2, 2, l) = 2170 + 5 * l /\ Run(2, 3, l) = 2250 + 6 * l
      /\ Run(2, 4, l) = 2330 + 7 * l /\ Run(3, 0, l) = 2560 + 4 * l
  BY <1>1 DEF Run, PhaseStart, Lead, PhaseTime, SliceTime
<1>4. InPhase2(st, t)
  BY DEF OnChain, Resting, Started, InPhase1, InPhase3, At
<1>5. CASE At(st, 2, 0) /\ Waits(st, t, 1, Run(2, 0, st.lag))
  <2>1. st.wake = 2010 + 3 * l
    BY <1>1, <1>2, <1>3, <1>5, WaitedRun
  <2>2. st.slice = 0 /\ st.slice < Slices[st.phase] - 1
    BY <1>2, <1>5 DEF At
  <2>3. /\ Z \in Device(d)
        /\ Z.phase = 2 /\ Z.slice = 1
        /\ Z.cc[1] = st.wake + 550 /\ Z.cc[2] = st.wake + 80
        /\ 1 \notin Z.hit /\ 2 \notin Z.hit
        /\ Z.wake = None /\ Z.lag = st.lag
    <3>1. \A Y : Y = AfterRun(st) =>
            /\ Y \in Device(d)
            /\ Y.phase = st.phase /\ Y.slice = st.slice + 1
            /\ Y.cc[1] = IF st.slice = 0 /\ st.phase < 3
                         THEN st.wake + PhaseTime[st.phase] ELSE st.cc[1]
            /\ Y.cc[2] = st.wake + SliceTime[st.phase]
            /\ 1 \in Y.hit <=> 1 \in st.hit /\ ~(st.slice = 0 /\ st.phase < 3)
            /\ 2 \notin Y.hit
            /\ Y.wake = None /\ Y.lag = st.lag
      BY <1>2, <2>2, RunInMiddle
    <3> QED
      BY <1>2, <2>2, <3>1
  <2>4. /\ Waits(Z, n, 2, Run(2, 1, Z.lag)) /\ Z.cc[1] = Run(3, 0, Z.lag) - Z.lag
        /\ n >= PhaseStart[2]
    BY <1>1, <1>3, <2>1, <2>3, Starts DEF Waits
  <2>5. OnChain(Z, n)
    BY <2>3, <2>4 DEF At, InPhase2, OnChain
  <2> QED
    BY <1>1, <1>3, <2>1, <2>2, <2>3, <2>5
<1>6. ASSUME NEW s \in 1..4, At(st, 2, s), Waits(st, t, 2, Run(2, s, st.lag)),
             1 \notin st.hit, st.cc[1] = Run(3, 0, st.lag) - st.lag, t >= PhaseStart[2]
      PROVE  /\ Z \in Device(d) /\ Z.lag = st.lag /\ OnChain(Z, n)
             /\ n = Run(2, st.slice, st.lag)
             /\ \/ st.slice \in 0..3 /\ Z.phase = 2 /\ Z.slice = st.slice + 1
                \/ st.slice = 4 /\ Z.phase = 3 /\ Z.slice = 0
  <2>1. st.wake = Run(2, s, l) /\ 2 \in st.hit
    BY <1>1, <1>2, <1>6, WaitedRun
  <2>2. s = 1 \/ s = 2 \/ s = 3 \/ s = 4
    OBVIOUS
  <2>3. n >= 2010 /\ n <= 2330 + 7 * l
    BY <1>1, <1>3, <2>1, <2>2
  <2>4. n = Run(2, st.slice, st.lag) /\ st.slice = s
    BY <1>1, <1>6, <2>1 DEF At
  <2>5. CASE s = 4
    <3>1. st.slice = Slices[st.phase] - 1
      BY <1>2, <2>4, <2>5
    <3>2. /\ Z \in Device(d)
          /\ Z.phase = 3 /\ Z.slice = 0
          /\ Z.cc[1] = st.cc[1]
          /\ 1 \notin Z.hit /\ 2 \in Z.hit
          /\ Z.wake = None /\ Z.lag = st.lag
      <4>1. \A Y : Y = AfterRun(st) =>
              /\ Y \in Device(d)
              /\ Y.phase = (st.phase + 1) % 4 /\ Y.slice = 0
              /\ Y.cc[1] = st.cc[1] /\ Y.cc[2] = st.cc[2]
              /\ 1 \in Y.hit <=> 1 \in st.hit
              /\ 2 \in Y.hit <=> 2 \in st.hit
              /\ Y.wake = None /\ Y.lag = st.lag
        BY <1>2, <3>1, RunOfLast
      <4> QED
        BY <1>6, <2>1, <4>1
    <3>3. /\ Waits(Z, n, 1, Run(3, 0, Z.lag)) /\ n >= PhaseStart[2]
          /\ Z.cc[1] >= PhaseStart[2]
      BY <1>1, <1>3, <1>6, <2>3, <3>2, Starts DEF Waits
    <3>4. OnChain(Z, n)
      BY <3>2, <3>3 DEF At, InPhase3, OnChain
    <3> QED
      BY <2>4, <2>5, <3>2, <3>4
  <2>6. CASE s # 4
    <3>1. st.slice < Slices[st.phase] - 1 /\ st.slice # 0 /\ s + 1 \in 1..4
      BY <1>2, <2>2, <2>4, <2>6
    <3>2. /\ Z \in Device(d)
          /\ Z.phase = 2 /\ Z.slice = s + 1
          /\ Z.cc[1] = st.cc[1] /\ Z.cc[2] = st.wake + 80
          /\ 1 \notin Z.hit /\ 2 \notin Z.hit
          /\ Z.wake = None /\ Z.lag = st.lag
      <4>1. \A Y : Y = AfterRun(st) =>
              /\ Y \in Device(d)
              /\ Y.phase = st.phase /\ Y.slice = st.slice + 1
              /\ Y.cc[1] = IF st.slice = 0 /\ st.phase < 3
                           THEN st.wake + PhaseTime[st.phase] ELSE st.cc[1]
              /\ Y.cc[2] = st.wake + SliceTime[st.phase]
              /\ 1 \in Y.hit <=> 1 \in st.hit /\ ~(st.slice = 0 /\ st.phase < 3)
              /\ 2 \notin Y.hit
              /\ Y.wake = None /\ Y.lag = st.lag
        BY <1>2, <3>1, RunInMiddle
      <4> QED
        BY <1>2, <1>6, <2>4, <3>1, <4>1
    <3>3. Run(2, s + 1, Z.lag) = n + 80 + l
      BY <1>1, <1>3, <2>1, <2>2, <2>6, <3>2
    <3>4. Waits(Z, n, 2, Run(2, s + 1, Z.lag)) /\ n >= PhaseStart[2]
      BY <1>1, <2>3, <3>2, <3>3, Starts DEF Waits
    <3>5. Z.cc[1] = Run(3, 0, Z.lag) - Z.lag
      BY <1>6, <3>2
    <3>6. At(Z, 2, s + 1)
      BY <3>2 DEF At
    <3>7. OnChain(Z, n)
      BY <3>1, <3>2, <3>4, <3>5, <3>6 DEF InPhase2, OnChain
    <3> QED
      BY <2>4, <2>6, <3>2, <3>7
  <2> QED
    BY <2>5, <2>6
<1> QED
  BY <1>4, <1>5, <1>6 DEF InPhase2

LEMMA RunInPhase3 ==
  ASSUME InTime, NEW d \in Devices, NEW st \in Device(d), NEW t \in Nat, NEW n \in Nat,
         OnChain(st, t), st.wake = n, st.phase = 3, NEW Z, Z = AfterRun(st)
  PROVE  /\ Z \in Device(d) /\ Z.lag = st.lag /\ OnChain(Z, n)
         /\ n >= PhaseStart[3] /\ st.slice \in 0..2 /\ Z.slice = (st.slice + 1) % 3
<1>1. PICK l : l = st.lag /\ l \in Nat /\ l <= 13
  BY Fields, ShortLags
<1>2. /\ st.cc[1] \in Nat /\ st.cc[2] \in Nat /\ st.wake \in Nat /\ st.wake # None
      /\ Slices[3] = 3 /\ SliceTime[3] = 320 /\ st.hit \subseteq 1..2
  BY Fields, NoneIsNoTime DEF Slices, SliceTime
<1>3. /\ Run(3, 0, l) = 2560 + 4 * l /\ Run(3, 1, l) = 2880 + 5 * l
      /\ Run(3, 2, l) = 3200 + 6 * l
  BY <1>1 DEF Run, PhaseStart, Lead, PhaseTime, SliceTime
<1>4. InPhase3(st, t)
  BY DEF OnChain, Resting, Started, InPhase1, InPhase2, At
<1>5. PICK s \in 0..2 : /\ At(st, 3, s) /\ st.wake = Run(3, s, l) /\ 1 \in st.hit
                        /\ s = 2 => 2 \in st.hit
  <2>1. CASE At(st, 3, 0) /\ Waits(st, t, 1, Run(3, 0, st.lag))
    BY <1>1, <1>2, <2>1, WaitedRun
  <2>2. ASSUME NEW s \in 1..2, At(st, 3, s), Waits(st, t, 2, Run(3, s, st.lag)), 1 \in st.hit
        PROVE  st.wake = Run(3, s, l) /\ 2 \in st.hit
    BY <1>1, <1>2, <2>2, WaitedRun
  <2> QED
    BY <1>4, <2>1, <2>2 DEF InPhase3
<1>6. s = 0 \/ s = 1 \/ s = 2
  OBVIOUS
<1>7. st.cc[1] >= PhaseStart[2] /\ n >= PhaseStart[3] /\ n >= PhaseStart[2]
  BY <1>1, <1>3, <1>4, <1>5, <1>6, Starts DEF InPhase3
<1>8. st.slice = s
  BY <1>5 DEF At
<1>9. CASE s = 2
  <2>1. st.slice = Slices[st.phase] - 1
    BY <1>2, <1>8, <1>9
  <2>2. /\ Z \in Device(d)
        /\ Z.phase = 0 /\ Z.slice = 0
        /\ Z.cc[1] = st.cc[1] /\ Z.cc[2] = st.cc[2]
        /\ 1 \in Z.hit /\ 2 \in Z.hit
        /\ Z.wake = None /\ Z.lag = st.lag
    <3>1. \A Y : Y = AfterRun(st) =>
            /\ Y \in Device(d)
            /\ Y.phase = (st.phase + 1) % 4 /\ Y.slice = 0
            /\ Y.cc[1] = st.cc[1] /\ Y.cc[2] = st.cc[2]
            /\ 1 \in Y.hit <=> 1 \in st.hit
            /\ 2 \in Y.hit <=> 2 \in st.hit
            /\ Y.wake = None /\ Y.lag = st.lag
      BY <1>2, <2>1, RunOfLast
    <3> QED
      BY <1>5, <1>9, <3>1
  <2>3. Z.hit = {1, 2}
    <3>1. Z.hit \subseteq 1..2
      BY <2>2, Fields
    <3> QED
      BY <2>2, <3>1
  <2>4. st.cc[2] >= PhaseStart[2]
    BY <1>4, <1>8, <1>9 DEF InPhase3, At
  <2>5. Resting(Z, n)
    BY <1>7, <2>2, <2>3, <2>4 DEF Resting, At, Old
  <2> QED
    BY <1>7, <1>8, <1>9, <2>2, <2>5 DEF OnChain
<1>10. CASE s # 2
  <2>1. st.slice < Slices[st.phase] - 1 /\ s + 1 \in 1..2
    BY <1>2, <1>6, <1>8, <1>10
  <2>2. /\ Z \in Device(d)
        /\ Z.phase = 3 /\ Z.slice = s + 1
        /\ Z.cc[1] = st.cc[1] /\ Z.cc[2] = st.wake + 320
        /\ 1 \in Z.hit /\ 2 \notin Z.hit
        /\ Z.wake = None /\ Z.lag = st.lag
    <3>1. \A Y : Y = AfterRun(st) =>
            /\ Y \in Device(d)
            /\ Y.phase = st.phase /\ Y.slice = st.slice + 1
            /\ Y.cc[1] = IF st.slice = 0 /\ st.phase < 3
                         THEN st.wake + PhaseTime[st.phase] ELSE st.cc[1]
            /\ Y.cc[2] = st.wake + SliceTime[st.phase]
            /\ 1 \in Y.hit <=> 1 \in st.hit /\ ~(st.slice = 0 /\ st.phase < 3)
            /\ 2 \notin Y.hit
            /\ Y.wake = None /\ Y.lag = st.lag
      BY <1>2, <2>1, RunInMiddle
    <3> QED
      BY <1>2, <1>5, <1>8, <3>1
  <2>3. Run(3, s + 1, Z.lag) = n + 320 + l
    BY <1>1, <1>3, <1>5, <1>6, <1>10, <2>2
  <2>4. Waits(Z, n, 2, Run(3, s + 1, Z.lag)) /\ Z.cc[2] >= PhaseStart[2]
    BY <1>1, <1>7, <2>2, <2>3, Starts DEF Waits
  <2>5. At(Z, 3, s + 1)
    BY <2>2 DEF At
  <2>6. InPhase3(Z, n)
    BY <1>7, <2>1, <2>2, <2>4, <2>5 DEF InPhase3
  <2>7. Z.slice = (st.slice + 1) % 3
    BY <1>6, <1>8, <1>10, <2>2
  <2> QED
    BY <1>7, <1>8, <2>2, <2>6, <2>7 DEF OnChain
<1> QED
  BY <1>9, <1>10

-----------------------------------------------------------------------------
(* Types *)

InSlices(st) == IF st.phase = 0 THEN st.slice = 0 ELSE st.slice < Slices[st.phase]

IsTransmission(s) == s.dev \in Devices /\ s.kind \in {"ack", "open"} /\ s.start \in 0..Interval

TypeInv ==
  /\ now \in 0..Interval
  /\ DOMAIN tx = Devices /\ \A d \in Devices : tx[d] \in Device(d) /\ InSlices(tx[d])
  /\ acks \in [Devices -> Seq(AckChannels)]
  /\ due \in [Devices -> BOOLEAN] /\ channels \in Assignments
  /\ reply \in [Devices -> Replies] /\ passedOn \subseteq Devices
  /\ \A s \in onAir : IsTransmission(s)

\* The next event is the earliest one, and the next edge is one.
LEMMA NextEventIs ==
  ASSUME \A d \in Devices : tx[d] \in Device(d)
  PROVE  /\ NextEvent \in 0..Interval
         /\ \A d \in Devices : \A e \in Pending(tx[d]) : NextEvent <= e
         /\ NextEvent = Interval \/ \E d \in Devices : NextEvent \in Pending(tx[d])
<1> DEFINE T == {Interval} \cup UNION {EventsOf(d) : d \in Devices}
<1>1. \A d \in Devices : Pending(tx[d]) \subseteq Nat /\ EventsOf(d) = Pending(tx[d])
  <2> SUFFICES ASSUME NEW d \in Devices
               PROVE  Pending(tx[d]) \subseteq Nat /\ EventsOf(d) = Pending(tx[d])
    OBVIOUS
  <2>1. tx[d].cc \in [1..2 -> Nat] /\ tx[d].wake \in Nat \cup {None}
    BY DEF Device
  <2>2. EventsOf(d) = Pending(tx[d])
    BY DEF EventsOf, Pending
  <2>3. Pending(tx[d]) \subseteq Nat
    BY <2>1 DEF Pending
  <2> QED
    BY <2>2, <2>3
<1>2. T \in SUBSET Nat /\ Interval \in T /\ Interval \in Nat
  BY <1>1 DEF Interval
<1>3. NextEvent = Min(T)
  BY DEF NextEvent
<1>4. \A d \in Devices : Pending(tx[d]) \subseteq T
  BY <1>1
<1>7. \A k \in T : k = Interval \/ \E d \in Devices : k \in Pending(tx[d])
  BY <1>1
<1> HIDE DEF T
<1>5. Min(T) \in T /\ \A k \in T : Min(T) <= k
  BY <1>2, Least
<1>6. NextEvent \in 0..Interval
  <2>1. NextEvent \in Nat
    BY <1>2, <1>3, <1>5
  <2>2. NextEvent <= Interval
    BY <1>2, <1>3, <1>5
  <2> QED
    BY <1>2, <2>1, <2>2
<1> QED
  BY <1>3, <1>4, <1>5, <1>6, <1>7

\* gpio_cb_func: the state of a device after an edge.
Edged(st, Z) ==
  /\ Z.phase = 0 /\ Z.slice = 0 /\ Z.cc = st.cc
  /\ Z.hit = {c \in 1..2 : st.cc[c] = 0}
  /\ st.wake = None => Z.wake = Z.lag

LEMMA RestartedFields ==
  ASSUME NEW d \in Devices, tx[d] \in Device(d), NEW Z \in Restarted(d)
  PROVE  Z \in Device(d) /\ Edged(tx[d], Z)
<1>1. PICK l \in Lags[d] :
        Z = Woken([tx[d] EXCEPT !.phase = 0, !.slice = 0, !.lag = l,
                                !.hit = {c \in 1..2 : tx[d].cc[c] = 0}], 0)
  BY DEF Restarted
<1> DEFINE hit == {c \in 1..2 : tx[d].cc[c] = 0}
<1>2. PICK y : y = [tx[d] EXCEPT !.phase = 0, !.slice = 0, !.lag = l, !.hit = hit]
  OBVIOUS
<1>3. Z = Woken(y, 0)
  BY <1>1, <1>2
<1>4. hit \in SUBSET (1..2) /\ l \in Nat
  BY EsbAssumption
<1> HIDE DEF hit
<1>5. /\ y.phase = 0 /\ y.slice = 0 /\ y.cc = tx[d].cc /\ y.hit = hit /\ y.lag = l
      /\ y.wake = tx[d].wake
  BY <1>2 DEF Device
<1>6. y \in Device(d)
  <2>1. 0 \in 0..(NumPhases - 1) /\ 0 \in 0..4
    BY DEF NumPhases
  <2> QED
    BY <1>2, <1>4, <2>1, Zenon DEF Device
<1>7. CASE y.wake = None
  <2>1. Z = [y EXCEPT !.wake = l]
    BY <1>3, <1>4, <1>5, <1>7 DEF Woken
  <2>2. l \in Nat \cup {None}
    BY <1>4
  <2>3. /\ Z.phase = 0 /\ Z.slice = 0 /\ Z.cc = tx[d].cc /\ Z.hit = hit /\ Z.lag = l
        /\ Z.wake = l
    BY <1>5, <1>6, <2>1 DEF Device
  <2>4. Z \in Device(d)
    BY <1>6, <2>1, <2>2, Zenon DEF Device
  <2> QED
    BY <2>3, <2>4 DEF Edged, hit
<1>8. CASE y.wake # None
  <2>1. Z = y
    BY <1>3, <1>8 DEF Woken
  <2> QED
    BY <1>5, <1>6, <1>8, <2>1 DEF Edged, hit
<1> QED
  BY <1>7, <1>8

\* A run of the thread keeps the types.
LEMMA RunKeepsTypes ==
  ASSUME NEW d \in Devices, NEW st \in Device(d), InSlices(st), st.wake \in Nat,
         NEW Z, Z = AfterRun(st)
  PROVE  Z \in Device(d) /\ InSlices(Z)
<1>1. st.phase \in 0..3 /\ st.slice \in 0..4
  BY Fields
<1>2. CASE st.phase = 0
  <2>1. \A Y : Y = AfterRun(st) =>
          /\ Y \in Device(d)
          /\ Y.phase = 1 /\ Y.slice = st.slice /\ Y.cc[1] = st.cc[1] /\ Y.cc[2] = st.wake + 800
          /\ 1 \in Y.hit <=> 1 \in st.hit
          /\ 2 \notin Y.hit
          /\ Y.wake = None /\ Y.lag = st.lag
    BY <1>2, FirstRunFields
  <2>2. Z \in Device(d) /\ Z.phase = 1 /\ Z.slice = 0
    BY <1>2, <2>1 DEF InSlices
  <2> QED
    BY <2>2, SlicesAre DEF InSlices
<1>3. CASE st.phase # 0
  <2>1. st.phase \in 1..3 /\ st.slice < Slices[st.phase]
    BY <1>1, <1>3 DEF InSlices
  <2>2. PICK last \in BOOLEAN : last <=> st.slice = Slices[st.phase] - 1
    OBVIOUS
  <2>3. Z \in Device(d) /\ Ran(st, last, Z)
    BY <2>1, <2>2, RunFields
  <2>4. /\ Z.phase = IF last THEN (st.phase + 1) % 4 ELSE st.phase
        /\ Z.slice = IF last THEN 0 ELSE st.slice + 1
    BY <2>3 DEF Ran
  <2>5. st.phase = 1 \/ st.phase = 2 \/ st.phase = 3
    BY <2>1
  <2>6. InSlices(Z)
    BY <1>1, <2>1, <2>2, <2>4, <2>5, SlicesAre DEF InSlices
  <2> QED
    BY <2>3, <2>6
<1> QED
  BY <1>2, <1>3

\* A compare channel that matches keeps the types.
LEMMA MatchKeepsTypes ==
  ASSUME NEW d \in Devices, NEW st \in Device(d), InSlices(st), NEW c \in 1..2, NEW n \in Nat,
         NEW Z, Z = Matched(st, c, n)
  PROVE  Z \in Device(d) /\ InSlices(Z)
<1>1. \A c2 \in 1..2, n2 \in Nat : \A Y :
        Y = Matched(st, c2, n2) =>
          /\ Y \in Device(d)
          /\ Y.phase = st.phase /\ Y.slice = st.slice /\ Y.cc = st.cc
          /\ Y.hit = st.hit \cup {c2} /\ Y.lag = st.lag
          /\ st.wake = None => Y.wake = n2 + st.lag
          /\ st.wake # None => Y.wake = st.wake
  BY MatchedFields
<1>2. Z \in Device(d) /\ Z.phase = st.phase /\ Z.slice = st.slice
  BY <1>1
<1> QED
  BY <1>2 DEF InSlices

LEMMA InitTypes == Init => TypeInv
<1> SUFFICES ASSUME Init PROVE TypeInv
  OBVIOUS
<1>1. now \in 0..Interval
  BY DEF Init, Interval
<1>2. DOMAIN tx = Devices
  BY DEF Init
<1>3. ASSUME NEW d \in Devices PROVE tx[d] \in Device(d) /\ InSlices(tx[d])
  <2>1. PICK e \in Devices : tx[d] \in {Idle(l) : l \in Lags[e]}
    BY <1>3 DEF Init
  <2>2. PICK l : tx[d] = Idle(l)
    BY <2>1
  <2>3. l = tx[d].lag
    BY <2>2 DEF Idle
  <2>4. l \in Lags[d]
    BY <1>3, <2>3 DEF Init
  <2>5. 0 \in 0..(NumPhases - 1) /\ 0 \in 0..4 /\ None \in Nat \cup {None}
    BY DEF NumPhases
  <2>6. <<0, 0>> \in [1..2 -> Nat] /\ {1, 2} \in SUBSET (1..2)
    OBVIOUS
  <2>9. PICK cc \in [1..2 -> Nat] : cc = <<0, 0>>
    BY <2>6
  <2>10. PICK hit \in SUBSET (1..2) : hit = {1, 2}
    BY <2>6
  <2>11. tx[d] = [phase |-> 0, slice |-> 0, cc |-> cc, hit |-> hit, wake |-> None, lag |-> l]
    BY <2>2, <2>9, <2>10 DEF Idle
  <2>7. tx[d] \in Device(d)
    BY <2>4, <2>5, <2>9, <2>10, <2>11 DEF Device
  <2>8. tx[d].phase = 0 /\ tx[d].slice = 0
    BY <2>2 DEF Idle
  <2> QED
    BY <2>7, <2>8 DEF InSlices
<1>4. acks \in [Devices -> Seq(AckChannels)] /\ due \in [Devices -> BOOLEAN]
  BY DEF Init
<1>5. reply \in [Devices -> Replies] /\ passedOn \subseteq Devices /\ channels \in Assignments
  BY DEF Init, Replies
<1>6. \A s \in onAir : IsTransmission(s)
  BY DEF Init
<1> QED
  BY <1>1, <1>2, <1>3, <1>4, <1>5, <1>6 DEF TypeInv

\* A run of the thread as a step.
LEMMA RunStep ==
  ASSUME NEW d \in Devices, ThreadRuns(d), NEW Z, Z = AfterRun(tx[d])
  PROVE  /\ tx[d].wake = NextEvent /\ now' = NextEvent /\ tx' = [tx EXCEPT ![d] = Z]
         /\ UNCHANGED <<due, channels, passedOn>>
         /\ \/ tx[d].phase = 2 /\ TxAck(d, Z.slice) /\ UNCHANGED reply
            \/ tx[d].phase = 3 /\ TxOpen(d, Z.slice) /\ UNCHANGED acks
            \/ tx[d].phase # 2 /\ UNCHANGED <<acks, reply, onAir>>
BY DEF ThreadRuns, AfterRun, AckPhase, OpenPhase

\* Whether an acknowledgement is sent, and whether it is on the air then.
LEMMA AckStep ==
  ASSUME NEW d \in Devices, NEW c, TxAck(d, c)
  PROVE  \/ /\ acks[d] = <<>> \/ Head(acks[d]) # c
            /\ acks' = acks /\ onAir' = onAir
         \/ /\ acks[d] # <<>> /\ Head(acks[d]) = c /\ acks' = [acks EXCEPT ![d] = Tail(acks[d])]
            /\ \/ onAir' = onAir
               \/ onAir' = onAir \cup {[dev |-> d, kind |-> "ack", start |-> now']}
BY DEF TxAck

LEMMA OpenStep ==
  ASSUME NEW d \in Devices, NEW c, TxOpen(d, c)
  PROVE  /\ \/ reply' = reply
            \/ reply' = [reply EXCEPT ![d] = <<"sent">>]
         /\ \/ onAir' = onAir
            \/ onAir' = onAir \cup {[dev |-> d, kind |-> "open", start |-> now']}
BY DEF TxOpen

LEMMA EdgeKeepsTypes == ASSUME TypeInv, Edge PROVE TypeInv'
<1>1. now' \in 0..Interval
  BY DEF Edge, Interval
<1>2. PICK f \in [Devices -> UNION {Restarted(d) : d \in Devices}] :
        (\A d \in Devices : f[d] \in Restarted(d)) /\ tx' = f
  BY DEF Edge
<1>3. ASSUME NEW d \in Devices PROVE tx'[d] \in Device(d) /\ InSlices(tx'[d])
  <2>1. PICK Z : Z = tx'[d]
    OBVIOUS
  <2>2. tx[d] \in Device(d) /\ Z \in Restarted(d)
    BY <1>2, <1>3, <2>1 DEF TypeInv
  <2>3. Z \in Device(d) /\ Edged(tx[d], Z)
    BY <2>2, RestartedFields
  <2>4. InSlices(Z)
    BY <2>3 DEF Edged, InSlices
  <2> QED
    BY <2>1, <2>3, <2>4
<1>4. DOMAIN tx' = Devices
  BY <1>2
<1>5. due' \in [Devices -> BOOLEAN] /\ channels' \in Assignments /\ onAir' = {}
      /\ acks' = acks /\ reply' = reply
  BY DEF Edge
<1>6. passedOn' \subseteq Devices
  BY DEF Edge, TypeInv, IsTransmission
<1> QED
  BY <1>1, <1>3, <1>4, <1>5, <1>6 DEF TypeInv

\* A match of a compare channel as a step.
LEMMA MatchStep ==
  ASSUME NEW d \in Devices, Compare(d)
  PROVE  \E c \in (1..2) \ tx[d].hit :
           /\ tx[d].cc[c] = NextEvent /\ now' = NextEvent
           /\ tx' = [tx EXCEPT ![d] = Matched(tx[d], c, NextEvent)]
           /\ UNCHANGED <<acks, due, channels, reply, onAir, passedOn>>
BY Zenon DEF Compare, Matched

LEMMA CompareKeepsTypes ==
  ASSUME TypeInv, NEW d \in Devices, Compare(d) PROVE TypeInv'
<1>1. tx[d] \in Device(d) /\ InSlices(tx[d])
  BY DEF TypeInv
<1>2. NextEvent \in 0..Interval
  BY NextEventIs DEF TypeInv
<1>3. PICK c \in (1..2) \ tx[d].hit :
        /\ tx[d].cc[c] = NextEvent /\ now' = NextEvent
        /\ tx' = [tx EXCEPT ![d] = Matched(tx[d], c, NextEvent)]
        /\ UNCHANGED <<acks, due, channels, reply, onAir, passedOn>>
  BY MatchStep
<1>4. PICK Z : Z = Matched(tx[d], c, NextEvent)
  OBVIOUS
<1>5. tx' = [tx EXCEPT ![d] = Z]
  BY <1>3, <1>4
<1>6. PICK n \in Nat : n = NextEvent
  BY <1>2
<1>7. c \in 1..2 /\ Z = Matched(tx[d], c, n)
  BY <1>4, <1>6
<1>8. PICK st \in Device(d) : st = tx[d]
  BY <1>1
<1>9. InSlices(st) /\ Z = Matched(st, c, n)
  BY <1>1, <1>7, <1>8
<1>10. Z \in Device(d) /\ InSlices(Z)
  BY <1>7, <1>9, MatchKeepsTypes
<1> QED
  BY <1>2, <1>3, <1>5, <1>10 DEF TypeInv

LEMMA RunsKeepTypes ==
  ASSUME TypeInv, NEW d \in Devices, ThreadRuns(d) PROVE TypeInv'
<1>1. tx[d] \in Device(d) /\ InSlices(tx[d])
  BY DEF TypeInv
<1>2. NextEvent \in 0..Interval
  BY NextEventIs DEF TypeInv
<1>3. PICK Z : Z = AfterRun(tx[d])
  OBVIOUS
<1>4. /\ tx[d].wake = NextEvent /\ now' = NextEvent /\ tx' = [tx EXCEPT ![d] = Z]
      /\ UNCHANGED <<due, channels, passedOn>>
      /\ \/ tx[d].phase = 2 /\ TxAck(d, Z.slice) /\ UNCHANGED reply
         \/ tx[d].phase = 3 /\ TxOpen(d, Z.slice) /\ UNCHANGED acks
         \/ tx[d].phase # 2 /\ UNCHANGED <<acks, reply, onAir>>
  BY <1>3, RunStep
<1>5. tx[d].wake \in Nat
  BY <1>2, <1>4
<1>6. Z \in Device(d) /\ InSlices(Z)
  BY <1>1, <1>3, <1>5, RunKeepsTypes
<1>7. acks' \in [Devices -> Seq(AckChannels)] /\ reply' \in [Devices -> Replies]
      /\ \A s \in onAir' : IsTransmission(s)
  <2>1. acks[d] \in Seq(AckChannels)
    BY DEF TypeInv
  <2>2. acks[d] # <<>> => Tail(acks[d]) \in Seq(AckChannels)
    BY <2>1, HeadTailProperties
  <2>3. \A k \in {"ack", "open"} : IsTransmission([dev |-> d, kind |-> k, start |-> now'])
    BY <1>2, <1>4 DEF IsTransmission
  <2>4. <<"sent">> \in Replies
    BY DEF Replies
  <2>5. CASE TxAck(d, Z.slice) /\ UNCHANGED reply
    <3>1. acks' = acks \/ (acks[d] # <<>> /\ acks' = [acks EXCEPT ![d] = Tail(acks[d])])
      BY <2>5, AckStep
    <3>2. onAir' = onAir \/ onAir' = onAir \cup {[dev |-> d, kind |-> "ack", start |-> now']}
      BY <2>5, AckStep
    <3>3. acks' \in [Devices -> Seq(AckChannels)]
      BY <2>2, <3>1 DEF TypeInv
    <3>4. \A s \in onAir' : IsTransmission(s)
      BY <2>3, <3>2 DEF TypeInv
    <3> QED
      BY <2>5, <3>3, <3>4 DEF TypeInv
  <2>6. CASE TxOpen(d, Z.slice) /\ UNCHANGED acks
    <3>1. reply' = reply \/ reply' = [reply EXCEPT ![d] = <<"sent">>]
      BY <2>6, OpenStep
    <3>2. onAir' = onAir \/ onAir' = onAir \cup {[dev |-> d, kind |-> "open", start |-> now']}
      BY <2>6, OpenStep
    <3>3. reply' \in [Devices -> Replies]
      BY <2>4, <3>1 DEF TypeInv
    <3>4. \A s \in onAir' : IsTransmission(s)
      BY <2>3, <3>2 DEF TypeInv
    <3> QED
      BY <2>6, <3>3, <3>4 DEF TypeInv
  <2>7. CASE UNCHANGED <<acks, reply, onAir>>
    BY <2>7 DEF TypeInv
  <2> QED
    BY <1>4, <2>5, <2>6, <2>7
<1> QED
  BY <1>2, <1>4, <1>6, <1>7 DEF TypeInv

LEMMA ThreadsKeepTypes ==
  ASSUME TypeInv, NEW d \in Devices, SpiAck(d) \/ SpiReply(d) \/ DelayEnds(d)
  PROVE  TypeInv'
<1>1. CASE SpiAck(d)
  <2>1. acks[d] \in Seq(AckChannels) /\ channels[d] \in AckChannels
    BY InUseAssumption DEF TypeInv, Assignments
  <2>2. Append(acks[d], channels[d]) \in Seq(AckChannels)
    BY <2>1, AppendProperties
  <2>3. acks' \in [Devices -> Seq(AckChannels)] /\ due' \in [Devices -> BOOLEAN]
    BY <1>1, <2>2 DEF SpiAck, TypeInv
  <2> QED
    BY <1>1, <2>3 DEF SpiAck, TypeInv
<1>2. CASE SpiReply(d)
  <2>1. reply' \in [Devices -> Replies]
    BY <1>2 DEF SpiReply, TypeInv, Replies
  <2> QED
    BY <1>2, <2>1 DEF SpiReply, TypeInv
<1>3. CASE DelayEnds(d)
  <2>1. PICK slice \in OpenSlices : reply' = [reply EXCEPT ![d] = <<"slot", slice>>]
    BY <1>3 DEF DelayEnds
  <2>2. <<"slot", slice>> \in Replies
    BY DEF Replies
  <2>3. reply' \in [Devices -> Replies]
    BY <2>1, <2>2 DEF TypeInv
  <2> QED
    BY <1>3, <2>3 DEF DelayEnds, TypeInv
<1> QED
  BY <1>1, <1>2, <1>3

\* The state has its type at every step, whatever the lags are; a device is never in a
\* slice that its phase does not have (tx_phase_timer).
THEOREM TypeInvariant == Spec => []TypeInv
<1>1. TypeInv /\ [Next]_esbVars => TypeInv'
  <2> SUFFICES ASSUME TypeInv, [Next]_esbVars PROVE TypeInv'
    OBVIOUS
  <2>1. CASE Edge
    BY <2>1, EdgeKeepsTypes
  <2>2. ASSUME NEW d \in Devices, Compare(d) PROVE TypeInv'
    BY <2>2, CompareKeepsTypes
  <2>3. ASSUME NEW d \in Devices, ThreadRuns(d) PROVE TypeInv'
    BY <2>3, RunsKeepTypes
  <2>4. ASSUME NEW d \in Devices, SpiAck(d) \/ SpiReply(d) \/ DelayEnds(d) PROVE TypeInv'
    BY <2>4, ThreadsKeepTypes
  <2>5. CASE UNCHANGED esbVars
    BY <2>5 DEF esbVars, TypeInv, IsTransmission
  <2> QED
    BY <2>1, <2>2, <2>3, <2>4, <2>5 DEF Next, TimedStep
<1> QED
  BY <1>1, InitTypes, PTL DEF Spec

\* TypeOK of the runs follows.
THEOREM TypeCorrect == Spec => []TypeOK
<1>1. TypeInv => TypeOK
  BY DEF TypeInv, TypeOK, Replies, IsTransmission
<1> QED
  BY <1>1, TypeInvariant, PTL

-----------------------------------------------------------------------------
(* Steps of the devices together *)

LEMMA SlotsAre == SlotOf(0) = 4 /\ SlotOf(1) = 0 /\ SlotOf(2) = 1 /\ SlotOf(3) = 2 /\ SlotOf(4) = 3
BY DEF SlotOf

\* A device that is not through has an event left before the next edge.
LEMMA BusyHasEvent ==
  ASSUME InTime, NEW d \in Devices, NEW st \in Device(d), NEW t \in Nat,
         OnChain(st, t), ~Resting(st, t)
  PROVE  \E e \in Pending(st) : e < Interval
<1>1. PICK l : l = st.lag /\ l \in Nat /\ l <= 13
  BY Fields, ShortLags
<1>2. /\ st.cc[1] \in Nat /\ st.cc[2] \in Nat
      /\ st.hit \subseteq 1..2 /\ st.wake \in Nat \cup {None}
  BY Fields
<1>3. ASSUME NEW w \in 1..2, NEW r \in Nat, Waits(st, t, w, r), r < 5000
      PROVE  \E e \in Pending(st) : e < Interval
  <2>1. CASE st.wake = None /\ w \notin st.hit /\ st.cc[w] = r - st.lag
    <3>1. st.cc[w] \in Pending(st)
      BY <2>1 DEF Pending
    <3>2. st.cc[w] < 5000
      BY <1>1, <1>3, <2>1
    <3> QED
      BY <3>1, <3>2 DEF Interval
  <2>2. CASE st.wake = r
    <3>1. st.wake \in Pending(st)
      BY <1>3, <2>2, NoneIsNoTime DEF Pending
    <3> QED
      BY <1>3, <2>2, <3>1 DEF Interval
  <2> QED
    BY <1>3, <2>1, <2>2 DEF Waits
<1>4. /\ Run(1, 0, l) = 800 + 2 * l /\ Run(1, 1, l) = 1375 + 3 * l
      /\ Run(2, 0, l) = 2010 + 3 * l /\ Run(2, 1, l) = 2090 + 4 * l
      /\ Run(2, 2, l) = 2170 + 5 * l /\ Run(2, 3, l) = 2250 + 6 * l
      /\ Run(2, 4, l) = 2330 + 7 * l /\ Run(3, 0, l) = 2560 + 4 * l
      /\ Run(3, 1, l) = 2880 + 5 * l /\ Run(3, 2, l) = 3200 + 6 * l
  BY <1>1 DEF Run, PhaseStart, Lead, PhaseTime, SliceTime
<1>5. CASE Started(st, t)
  <2>1. st.wake \in Pending(st) /\ st.wake < 5000
    BY <1>1, <1>5, NoneIsNoTime DEF Started, Pending
  <2> QED
    BY <2>1 DEF Interval
<1>6. ASSUME ~Started(st, t)
      PROVE  \E w \in 1..2, p \in 1..3, s \in 0..4 :
               Waits(st, t, w, Run(p, s, l)) /\ Run(p, s, l) < 5000
  <2>1. CASE InPhase1(st, t)
    <3>1. Run(1, 0, l) < 5000 /\ Run(1, 1, l) < 5000
      BY <1>1, <1>4
    <3> QED
      BY <1>1, <2>1, <3>1 DEF InPhase1
  <2>2. CASE InPhase2(st, t)
    <3>1. /\ Run(2, 0, l) < 5000 /\ Run(2, 1, l) < 5000 /\ Run(2, 2, l) < 5000
          /\ Run(2, 3, l) < 5000 /\ Run(2, 4, l) < 5000
      BY <1>1, <1>4
    <3>2. \A s \in 1..4 : s \in 0..4 /\ Run(2, s, l) < 5000
      <4>1. \A s \in 1..4 : s = 1 \/ s = 2 \/ s = 3 \/ s = 4
        OBVIOUS
      <4> QED
        BY <3>1, <4>1
    <3> QED
      BY <1>1, <2>2, <3>1, <3>2 DEF InPhase2
  <2>3. CASE InPhase3(st, t)
    <3>1. Run(3, 0, l) < 5000 /\ Run(3, 1, l) < 5000 /\ Run(3, 2, l) < 5000
      BY <1>1, <1>4
    <3>2. \A s \in 1..2 : s \in 0..4 /\ Run(3, s, l) < 5000
      <4>1. \A s \in 1..2 : s = 1 \/ s = 2
        OBVIOUS
      <4> QED
        BY <3>1, <4>1
    <3> QED
      BY <1>1, <2>3, <3>1, <3>2 DEF InPhase3
  <2> QED
    BY <1>6, <2>1, <2>2, <2>3 DEF OnChain
<1>7. ASSUME ~Started(st, t) PROVE \E e \in Pending(st) : e < Interval
  <2>1. PICK w \in 1..2, p \in 1..3, s \in 0..4 :
          Waits(st, t, w, Run(p, s, l)) /\ Run(p, s, l) < 5000
    BY <1>6, <1>7
  <2>2. Run(p, s, l) \in Nat
    BY <1>1, RunsAreTimes
  <2> QED
    BY <1>3, <2>1, <2>2
<1> QED
  BY <1>5, <1>7

\* The slot of an acknowledgement that waits stays ahead, until it is there.
LEMMA AheadStays ==
  ASSUME InTime, NEW d \in Devices, NEW st \in Device(d), NEW t \in Nat, NEW n \in Nat,
         OnChain(st, t), st.wake = n, NEW Z, Z = AfterRun(st),
         NEW c \in AckChannels, SlotAhead(st, c)
  PROVE  SlotAhead(Z, c) \/ (st.phase = 2 /\ st.slice = SlotOf(c))
<1>1. c = 0 \/ c = 1 \/ c = 2 \/ c = 3 \/ c = 4
  BY DEF AckChannels
<1>2. SlotOf(c) \in 0..4
  BY <1>1, SlotsAre
<1>3. CASE st.phase = 0
  <2>1. Z.phase = 1
    BY <1>3, RunInPhase0
  <2> QED
    BY <2>1 DEF SlotAhead
<1>4. CASE st.phase = 1
  <2>1. Z.phase = 1 \/ (Z.phase = 2 /\ Z.slice = 0)
    BY <1>4, RunInPhase1
  <2> QED
    BY <1>2, <2>1 DEF SlotAhead
<1>5. CASE st.phase = 2 /\ st.slice <= SlotOf(c)
  <2>1. \/ st.slice \in 0..3 /\ Z.phase = 2 /\ Z.slice = st.slice + 1
        \/ st.slice = 4 /\ Z.phase = 3 /\ Z.slice = 0
    BY <1>5, RunInPhase2
  <2> QED
    BY <1>2, <1>5, <2>1 DEF SlotAhead
<1> QED
  BY <1>3, <1>4, <1>5 DEF SlotAhead

\* A run takes the device on.
LEMMA RunOnChain ==
  ASSUME InTime, NEW d \in Devices, NEW st \in Device(d), NEW t \in Nat, NEW n \in Nat,
         OnChain(st, t), st.wake = n, NEW Z, Z = AfterRun(st)
  PROVE  Z \in Device(d) /\ Z.lag = st.lag /\ OnChain(Z, n)
<1>1. st.phase = 0 \/ st.phase = 1 \/ st.phase = 2 \/ st.phase = 3
  BY Fields
<1>2. CASE st.phase = 0
  BY <1>2, RunInPhase0
<1>3. CASE st.phase = 1
  BY <1>3, RunInPhase1
<1>4. CASE st.phase = 2
  BY <1>4, RunInPhase2
<1>5. CASE st.phase = 3
  BY <1>5, RunInPhase3
<1> QED
  BY <1>1, <1>2, <1>3, <1>4, <1>5

\* No event is in the past.
LEMMA NotPast ==
  ASSUME InTime, TypeInv, SlotInv PROVE now <= NextEvent
<1>1. /\ NextEvent \in 0..Interval /\ now \in 0..Interval
      /\ NextEvent = Interval \/ \E d \in Devices : NextEvent \in Pending(tx[d])
  BY NextEventIs DEF TypeInv
<1>2. ASSUME NEW d \in Devices, NextEvent \in Pending(tx[d]) PROVE now <= NextEvent
  <2>1. PICK st \in Device(d) : st = tx[d] /\ OnChain(st, now) /\ NextEvent \in Pending(st)
    BY <1>2 DEF TypeInv, SlotInv
  <2>2. PICK t \in Nat : t = now
    BY <1>1 DEF Interval
  <2>3. t <= NextEvent
    BY <2>1, <2>2, EventsAhead
  <2> QED
    BY <2>2, <2>3
<1> QED
  BY <1>1, <1>2 DEF Interval

\* A step to the next event leaves the other devices where they are.
LEMMA OthersStay ==
  ASSUME InTime, TypeInv, SlotInv, NEW d \in Devices
  PROVE  OnChain(tx[d], NextEvent)
<1>1. NextEvent \in 0..Interval /\ now \in 0..Interval /\ \A e \in Pending(tx[d]) : NextEvent <= e
  BY NextEventIs DEF TypeInv
<1>2. PICK st \in Device(d) : st = tx[d] /\ OnChain(st, now)
  BY DEF TypeInv, SlotInv
<1>3. PICK t \in Nat : t = now
  BY <1>1 DEF Interval
<1>4. PICK u \in Nat : u = NextEvent
  BY <1>1 DEF Interval
<1>5. OnChain(st, t) /\ t <= u /\ \A e \in Pending(st) : u <= e
  BY <1>1, <1>2, <1>3, <1>4, NotPast
<1>6. OnChain(st, u)
  BY <1>5, ChainLater
<1> QED
  BY <1>2, <1>4, <1>6

\* At the next edge all devices are through.
LEMMA AllRest ==
  ASSUME InTime, TypeInv, SlotInv, NextEvent = Interval, NEW d \in Devices
  PROVE  Resting(tx[d], now) /\ acks[d] = <<>>
<1>1. Resting(tx[d], now)
  <2>1. PICK st \in Device(d) : st = tx[d] /\ OnChain(st, now)
    BY DEF TypeInv, SlotInv
  <2>2. PICK t \in Nat : t = now
    BY DEF TypeInv, Interval
  <2>3. \A e \in Pending(st) : Interval <= e
    BY <2>1, NextEventIs DEF TypeInv
  <2>4. st.cc[1] \in Nat /\ st.cc[2] \in Nat /\ st.wake \in Nat \cup {None}
    BY Fields
  <2>5. \A e \in Pending(st) : e \in Nat
    BY <2>4 DEF Pending
  <2>6. Resting(st, t)
    BY <2>1, <2>2, <2>3, <2>5, BusyHasEvent DEF Interval
  <2> QED
    BY <2>1, <2>2, <2>6
<1>2. ~SlotAhead(tx[d], channels[d])
  BY <1>1 DEF Resting, At, SlotAhead
<1> QED
  BY <1>1, <1>2 DEF SlotInv, AckInv

LEMMA InitSlots == Init => SlotInv
<1> SUFFICES ASSUME Init PROVE SlotInv
  OBVIOUS
<1>1. ASSUME NEW d \in Devices PROVE OnChain(tx[d], now) /\ AckInv(d)
  <2>1. PICK e \in Devices : tx[d] \in {Idle(l) : l \in Lags[e]}
    BY <1>1 DEF Init
  <2>2. PICK l : tx[d] = Idle(l)
    BY <2>1
  <2>3. now >= PhaseStart[2]
    BY Starts DEF Init, Interval
  <2>4. Resting(tx[d], now)
    BY <2>2, <2>3 DEF Idle, Resting, At, Old
  <2>5. acks[d] = <<>> /\ ~due[d]
    BY <1>1 DEF Init
  <2> QED
    BY <2>4, <2>5 DEF OnChain, AckInv
<1>2. \A s \in onAir : InSlot(s)
  BY DEF Init
<1> QED
  BY <1>1, <1>2 DEF SlotInv

\* An edge restarts the devices.
LEMMA EdgeKeepsSlots == ASSUME InTime, TypeInv, SlotInv, Edge PROVE SlotInv'
<1>1. PICK f \in [Devices -> UNION {Restarted(d) : d \in Devices}] :
        (\A d \in Devices : f[d] \in Restarted(d)) /\ tx' = f
  BY DEF Edge
<1>2. ASSUME NEW d \in Devices PROVE OnChain(tx'[d], now') /\ AckInv(d)'
  <2>1. Resting(tx[d], now) /\ acks[d] = <<>>
    BY AllRest DEF Edge
  <2>2. PICK Z : Z = tx'[d]
    OBVIOUS
  <2>3. tx[d] \in Device(d) /\ Z \in Restarted(d)
    BY <1>1, <2>2 DEF TypeInv
  <2>4. Z \in Device(d) /\ Edged(tx[d], Z)
    BY <2>3, RestartedFields
  <2>5. Z.lag \in Nat
    BY <2>4, EsbAssumption DEF Device
  <2>6. At(Z, 0, 0) /\ Z.wake = Z.lag /\ 0 <= Z.lag
    BY <2>1, <2>4, <2>5 DEF Edged, Resting, At
  <2>7. \A c \in 1..2 : c \in Z.hit \/ Z.cc[c] >= PhaseStart[2]
    BY <2>1, <2>4 DEF Edged, Resting, Old
  <2>8. OnChain(Z, 0)
    BY <2>6, <2>7 DEF Started, OnChain
  <2>9. now' = 0 /\ acks'[d] = <<>>
    BY <2>1 DEF Edge
  <2> QED
    BY <2>2, <2>8, <2>9 DEF AckInv
<1>3. onAir' = {}
  BY DEF Edge
<1> QED
  BY <1>2, <1>3 DEF SlotInv

\* A match of a compare channel.
LEMMA CompareKeepsSlots ==
  ASSUME InTime, TypeInv, SlotInv, NEW d \in Devices, Compare(d) PROVE SlotInv'
<1>1. PICK c \in (1..2) \ tx[d].hit :
        /\ tx[d].cc[c] = NextEvent /\ now' = NextEvent
        /\ tx' = [tx EXCEPT ![d] = Matched(tx[d], c, NextEvent)]
        /\ UNCHANGED <<acks, due, channels, reply, onAir, passedOn>>
  BY MatchStep
<1>2. PICK st \in Device(d) : st = tx[d] /\ OnChain(st, now)
  BY DEF TypeInv, SlotInv
<1>3. PICK t \in Nat : t = now
  BY DEF TypeInv, Interval
<1>4. NextEvent \in 0..Interval /\ \A e \in Pending(tx[d]) : NextEvent <= e
  BY NextEventIs DEF TypeInv
<1>5. PICK n \in Nat : n = NextEvent
  BY <1>4 DEF Interval
<1>6. PICK Z : Z = Matched(st, c, n)
  OBVIOUS
<1>7. /\ OnChain(st, t) /\ t <= n /\ \A e \in Pending(st) : n <= e
      /\ c \in 1..2 /\ c \notin st.hit /\ st.cc[c] = n
  BY <1>1, <1>2, <1>3, <1>4, <1>5, NotPast
<1>8. /\ Z \in Device(d) /\ OnChain(Z, n)
      /\ Z.phase = st.phase /\ Z.slice = st.slice /\ Z.lag = st.lag
      /\ st.wake # None => Z.wake # None
  BY <1>6, <1>7, MatchOnChain
<1>9. tx' = [tx EXCEPT ![d] = Z]
  BY <1>1, <1>2, <1>5, <1>6
<1>10. DOMAIN tx = Devices
  BY DEF TypeInv
<1>11. ASSUME NEW e \in Devices
       PROVE  /\ OnChain(tx'[e], now') /\ tx'[e].lag = tx[e].lag
              /\ \A k : SlotAhead(tx[e], k) => SlotAhead(tx'[e], k)
  <2>1. CASE e = d
    <3>1. tx'[e] = Z /\ tx[e] = st
      BY <1>2, <1>9, <1>10, <2>1
    <3>2. \A k : SlotAhead(st, k) => SlotAhead(Z, k)
      BY <1>8 DEF SlotAhead
    <3> QED
      BY <1>1, <1>5, <1>8, <3>1, <3>2
  <2>2. CASE e # d
    <3>1. tx'[e] = tx[e]
      BY <1>9, <1>10, <2>2
    <3> QED
      BY <1>1, <3>1, OthersStay
  <2> QED
    BY <2>1, <2>2
<1>12. \A e \in Devices : AckInv(e)'
  BY <1>1, <1>11 DEF SlotInv, AckInv
<1>13. \A s \in onAir' : InSlot(s)'
  <2>1. \A s \in onAir : s.dev \in Devices /\ InSlot(s)
    BY DEF TypeInv, IsTransmission, SlotInv
  <2> QED
    BY <1>1, <1>11, <2>1 DEF InSlot
<1> QED
  BY <1>11, <1>12, <1>13 DEF SlotInv

\* A run of the thread.
LEMMA RunsKeepSlots ==
  ASSUME InTime, TypeInv, SlotInv, NEW d \in Devices, ThreadRuns(d) PROVE SlotInv'
<1>1. PICK st \in Device(d) : st = tx[d] /\ OnChain(st, now)
  BY DEF TypeInv, SlotInv
<1>2. PICK t \in Nat : t = now
  BY DEF TypeInv, Interval
<1>3. PICK Z : Z = AfterRun(st)
  OBVIOUS
<1>4. /\ st.wake = NextEvent /\ now' = NextEvent /\ tx' = [tx EXCEPT ![d] = Z]
      /\ UNCHANGED <<due, channels, passedOn>>
      /\ \/ st.phase = 2 /\ TxAck(d, Z.slice) /\ UNCHANGED reply
         \/ st.phase = 3 /\ TxOpen(d, Z.slice) /\ UNCHANGED acks
         \/ st.phase # 2 /\ UNCHANGED <<acks, reply, onAir>>
  BY <1>1, <1>3, RunStep
<1>5. PICK n \in Nat : n = NextEvent
  <2>1. NextEvent \in 0..Interval
    BY NextEventIs DEF TypeInv
  <2> QED
    BY <2>1 DEF Interval
<1>6. OnChain(st, t) /\ st.wake = n
  BY <1>1, <1>2, <1>4, <1>5
<1>7. Z \in Device(d) /\ Z.lag = st.lag /\ OnChain(Z, n)
  BY <1>3, <1>6, RunOnChain
<1>8. DOMAIN tx = Devices /\ acks \in [Devices -> Seq(AckChannels)]
  BY DEF TypeInv
<1>9. ASSUME NEW e \in Devices
      PROVE  OnChain(tx'[e], now') /\ tx'[e].lag = tx[e].lag
  <2>1. CASE e = d
    BY <1>1, <1>4, <1>5, <1>7, <1>8, <2>1
  <2>2. CASE e # d
    <3>1. tx'[e] = tx[e]
      BY <1>4, <1>8, <2>2
    <3> QED
      BY <1>4, <3>1, OthersStay
  <2> QED
    BY <2>1, <2>2
<1>10. channels[d] \in AckChannels
  BY InUseAssumption DEF TypeInv, Assignments
<1>11. SlotAhead(st, channels[d]) =>
         SlotAhead(Z, channels[d]) \/ (st.phase = 2 /\ st.slice = SlotOf(channels[d]))
  BY <1>3, <1>6, <1>10, AheadStays
<1>12. /\ acks[d] \in {<<>>, <<channels[d]>>} /\ (due[d] => acks[d] = <<>>)
       /\ acks[d] # <<>> => SlotAhead(st, channels[d])
  BY <1>1 DEF SlotInv, AckInv
<1>13. ASSUME st.phase = 2
       PROVE  /\ n = Run(2, st.slice, st.lag)
              /\ Z.slice = channels[d] <=> st.slice = SlotOf(channels[d])
  <2>1. /\ n = Run(2, st.slice, st.lag)
        /\ \/ st.slice \in 0..3 /\ Z.phase = 2 /\ Z.slice = st.slice + 1
           \/ st.slice = 4 /\ Z.phase = 3 /\ Z.slice = 0
    BY <1>3, <1>6, <1>13, RunInPhase2
  <2>2. \/ channels[d] = 0 \/ channels[d] = 1 \/ channels[d] = 2
        \/ channels[d] = 3 \/ channels[d] = 4
    BY <1>10 DEF AckChannels
  <2> QED
    BY <2>1, <2>2, SlotsAre
<1>14. \/ /\ acks' = acks
          /\ acks[d] # <<>> => ~(st.phase = 2 /\ st.slice = SlotOf(channels[d]))
       \/ acks' = [acks EXCEPT ![d] = <<>>]
  <2>1. CASE st.phase = 2 /\ TxAck(d, Z.slice)
    <3>1. CASE (acks[d] = <<>> \/ Head(acks[d]) # Z.slice) /\ acks' = acks
      <4>1. acks[d] # <<>> => channels[d] # Z.slice
        BY <1>12, <3>1
      <4> QED
        BY <1>13, <2>1, <3>1, <4>1
    <3>2. CASE acks[d] # <<>> /\ acks' = [acks EXCEPT ![d] = Tail(acks[d])]
      <4>1. Tail(<<channels[d]>>) = <<>>
        OBVIOUS
      <4> QED
        BY <1>12, <3>2, <4>1
    <3> QED
      BY <2>1, <3>1, <3>2, AckStep
  <2>2. CASE st.phase = 3 /\ UNCHANGED acks
    BY <2>2
  <2>3. CASE st.phase # 2 /\ UNCHANGED acks
    BY <2>3
  <2> QED
    BY <1>4, <2>1, <2>2, <2>3
<1>15. ASSUME NEW e \in Devices PROVE AckInv(e)'
  <2>1. CASE e = d
    <3>1. tx'[d] = Z /\ due' = due /\ channels' = channels
      BY <1>4, <1>8
    <3>2. acks'[d] = <<>> \/ (acks'[d] = acks[d] /\ (acks[d] # <<>> => SlotAhead(Z, channels[d])))
      BY <1>8, <1>11, <1>12, <1>14
    <3> QED
      BY <1>12, <2>1, <3>1, <3>2 DEF AckInv
  <2>2. CASE e # d
    <3>1. tx'[e] = tx[e] /\ due' = due /\ channels' = channels /\ acks'[e] = acks[e]
      BY <1>4, <1>8, <1>14, <2>2
    <3> QED
      BY <1>15, <3>1 DEF SlotInv, AckInv
  <2> QED
    BY <2>1, <2>2
<1>16. ASSUME NEW s \in onAir PROVE InSlot(s)'
  <2>1. s.dev \in Devices /\ InSlot(s)
    BY <1>16 DEF TypeInv, IsTransmission, SlotInv
  <2> QED
    BY <1>4, <1>9, <2>1 DEF InSlot
<1>17. ASSUME NEW s \in onAir', s \notin onAir PROVE InSlot(s)'
  <2>1. CASE st.phase = 2 /\ TxAck(d, Z.slice)
    <3>1. /\ acks[d] # <<>> /\ Head(acks[d]) = Z.slice
          /\ s = [dev |-> d, kind |-> "ack", start |-> now']
      BY <1>17, <2>1, AckStep
    <3>2. Head(<<channels[d]>>) = channels[d]
      OBVIOUS
    <3>3. Z.slice = channels[d]
      BY <1>12, <3>1, <3>2
    <3>4. now' = Run(2, SlotOf(channels[d]), st.lag)
      BY <1>4, <1>5, <1>13, <2>1, <3>3
    <3>5. channels' = channels /\ tx'[d].lag = st.lag
      BY <1>1, <1>4, <1>9
    <3>6. s.kind = "ack" /\ s.dev = d /\ s.start = now'
      BY <3>1
    <3> QED
      BY <3>4, <3>5, <3>6 DEF InSlot
  <2>2. CASE st.phase = 3 /\ TxOpen(d, Z.slice)
    <3>1. s = [dev |-> d, kind |-> "open", start |-> now']
      BY <1>17, <2>2, OpenStep
    <3>2. n >= PhaseStart[3]
      BY <1>3, <1>6, <2>2, RunInPhase3
    <3>3. s.kind = "open" /\ s.start = now'
      BY <3>1
    <3> QED
      BY <1>4, <1>5, <3>2, <3>3 DEF InSlot
  <2>3. CASE onAir' = onAir
    BY <1>17, <2>3
  <2> QED
    BY <1>4, <2>1, <2>2, <2>3
<1> QED
  BY <1>9, <1>15, <1>16, <1>17 DEF SlotInv

\* The acknowledgement of a packet arrives before its slot.
LEMMA AckInTime ==
  ASSUME InTime, NEW d \in Devices, NEW st \in Device(d), NEW t \in Nat, OnChain(st, t), t <= Deadline, NEW c \in AckChannels
  PROVE  SlotAhead(st, c)
<1>1. t < PhaseStart[2]
  <2>1. Deadline < 2010
    BY DEF InTime, Lead, PhaseTime
  <2> QED
    BY <2>1, EsbAssumption, Starts
<1>2. SlotOf(c) \in 0..4
  <2>1. c = 0 \/ c = 1 \/ c = 2 \/ c = 3 \/ c = 4
    BY DEF AckChannels
  <2> QED
    BY <2>1, SlotsAre
<1>3. ~Resting(st, t) /\ ~InPhase3(st, t)
  BY <1>1, Starts DEF Resting, InPhase3
<1>4. CASE Started(st, t)
  BY <1>4, Fields, ShortLags, NoneIsNoTime DEF Started, At, SlotAhead
<1>5. CASE InPhase1(st, t)
  BY <1>5 DEF InPhase1, At, SlotAhead
<1>6. CASE InPhase2(st, t)
  <2>1. At(st, 2, 0)
    BY <1>1, <1>6, Starts DEF InPhase2
  <2> QED
    BY <1>2, <2>1 DEF At, SlotAhead
<1> QED
  BY <1>3, <1>4, <1>5, <1>6 DEF OnChain

\* The other threads.
LEMMA ThreadsKeepSlots ==
  ASSUME InTime, TypeInv, SlotInv, NEW d \in Devices, SpiAck(d) \/ SpiReply(d) \/ DelayEnds(d)
  PROVE  SlotInv'
<1>1. now' = now /\ tx' = tx /\ channels' = channels /\ onAir' = onAir
  BY DEF SpiAck, SpiReply, DelayEnds
<1>2. \A e \in Devices : OnChain(tx'[e], now')
  BY <1>1 DEF SlotInv
<1>3. \A s \in onAir' : InSlot(s)'
  BY <1>1 DEF SlotInv, InSlot
<1>4. CASE SpiAck(d)
  <2>1. due[d] /\ now <= Deadline /\ acks[d] = <<>>
    BY <1>4 DEF SpiAck, SlotInv, AckInv
  <2>2. channels[d] \in AckChannels
    BY InUseAssumption DEF TypeInv, Assignments
  <2>3. Append(<<>>, channels[d]) = <<channels[d]>>
    OBVIOUS
  <2>4. SlotAhead(tx[d], channels[d])
    <3>1. PICK st \in Device(d) : st = tx[d] /\ OnChain(st, now)
      BY DEF TypeInv, SlotInv
    <3>2. PICK t \in Nat : t = now
      BY DEF TypeInv, Interval
    <3>3. OnChain(st, t) /\ t <= Deadline
      BY <2>1, <3>1, <3>2
    <3>4. SlotAhead(st, channels[d])
      BY <2>2, <3>3, AckInTime
    <3> QED
      BY <3>1, <3>4
  <2>5. /\ acks' = [acks EXCEPT ![d] = <<channels[d]>>] /\ due' = [due EXCEPT ![d] = FALSE]
        /\ acks \in [Devices -> Seq(AckChannels)] /\ due \in [Devices -> BOOLEAN]
    BY <1>4, <2>1, <2>3 DEF SpiAck, TypeInv
  <2>6. ASSUME NEW e \in Devices PROVE AckInv(e)'
    <3>1. CASE e = d
      <4>1. acks'[e] = <<channels[d]>> /\ ~due'[e]
        BY <2>5, <3>1
      <4> QED
        BY <1>1, <2>4, <3>1, <4>1 DEF AckInv
    <3>2. CASE e # d
      <4>1. acks'[e] = acks[e] /\ due'[e] = due[e]
        BY <2>5, <3>2
      <4> QED
        BY <1>1, <2>6, <4>1 DEF SlotInv, AckInv
    <3> QED
      BY <3>1, <3>2
  <2> QED
    BY <1>2, <1>3, <2>6 DEF SlotInv
<1>5. CASE SpiReply(d) \/ DelayEnds(d)
  <2>1. acks' = acks /\ due' = due
    BY <1>5 DEF SpiReply, DelayEnds
  <2>2. \A e \in Devices : AckInv(e)'
    BY <1>1, <2>1 DEF SlotInv, AckInv
  <2> QED
    BY <1>2, <1>3, <2>2 DEF SlotInv
<1> QED
  BY <1>4, <1>5

LEMMA StayingKeepsSlots == ASSUME SlotInv, UNCHANGED esbVars PROVE SlotInv'
<1>1. now' = now /\ tx' = tx /\ acks' = acks /\ due' = due /\ channels' = channels
      /\ onAir' = onAir
  BY DEF esbVars
<1>2. \A d \in Devices : OnChain(tx'[d], now') /\ AckInv(d)'
  BY <1>1 DEF SlotInv, AckInv
<1>3. \A s \in onAir' : InSlot(s)'
  BY <1>1 DEF SlotInv, InSlot
<1> QED
  BY <1>2, <1>3 DEF SlotInv

-----------------------------------------------------------------------------
(* What follows *)

\* Every device is on its way through the slices (tx_phase_timer), its acknowledgement
\* has its slot ahead of it, and what has been transmitted was transmitted in its slot
\* (esb_tx_ack).
THEOREM SlotInvariant == ASSUME InTime PROVE Spec => []SlotInv
<1>1. TypeInv /\ SlotInv /\ [Next]_esbVars => SlotInv'
  <2> SUFFICES ASSUME TypeInv, SlotInv, [Next]_esbVars PROVE SlotInv'
    OBVIOUS
  <2>1. CASE Edge
    BY <2>1, EdgeKeepsSlots
  <2>2. ASSUME NEW d \in Devices, Compare(d) PROVE SlotInv'
    BY <2>2, CompareKeepsSlots
  <2>3. ASSUME NEW d \in Devices, ThreadRuns(d) PROVE SlotInv'
    BY <2>3, RunsKeepSlots
  <2>4. ASSUME NEW d \in Devices, SpiAck(d) \/ SpiReply(d) \/ DelayEnds(d) PROVE SlotInv'
    BY <2>4, ThreadsKeepSlots
  <2>5. CASE UNCHANGED esbVars
    BY <2>5, StayingKeepsSlots
  <2> QED
    BY <2>1, <2>2, <2>3, <2>4, <2>5 DEF Next, TimedStep
<1> QED
  BY <1>1, InitSlots, TypeInvariant, PTL DEF Spec

\* Different slots are far enough apart.
LEMMA SlotsApart ==
  ASSUME NEW l \in Nat, NEW m \in Nat, NEW a \in Nat,
         a + 6 * l <= 80, a + 6 * m <= 80,
         NEW i \in 0..4, NEW j \in 0..4, i < j
  PROVE  Run(2, j, m) - Run(2, i, l) >= a
<1>1. Run(2, j, m) = 2010 + 3 * m + j * (80 + m) /\ Run(2, i, l) = 2010 + 3 * l + i * (80 + l)
  BY DEF Run, PhaseStart, Lead, PhaseTime, SliceTime
<1>2. \A k \in 0..4 : k = 0 \/ k = 1 \/ k = 2 \/ k = 3 \/ k = 4
  OBVIOUS
<1>3. CASE i = 0
  BY <1>1, <1>2, <1>3
<1>4. CASE i = 1
  BY <1>1, <1>2, <1>4
<1>5. CASE i = 2
  BY <1>1, <1>2, <1>5
<1>6. CASE i = 3
  BY <1>1, <1>2, <1>6
<1>7. i # 4
  OBVIOUS
<1> QED
  BY <1>2, <1>3, <1>4, <1>5, <1>6, <1>7

\* The devices transmit acknowledgements in different slots, which are apart.
LEMMA SlotsDoNotOverlap == ASSUME InTime, TypeInv, SlotInv PROVE AcksDoNotCollide
<1> SUFFICES ASSUME NEW s \in onAir, NEW u \in onAir, s.dev # u.dev, s.kind = "ack"
             PROVE  s.start - u.start >= Airtime \/ u.start - s.start >= Airtime
  BY DEF AcksDoNotCollide
<1>1. IsTransmission(s) /\ IsTransmission(u) /\ InSlot(s) /\ InSlot(u)
  BY DEF TypeInv, SlotInv
<1>2. s.dev \in Devices /\ u.dev \in Devices /\ s.start \in Nat /\ u.start \in Nat
  <2>1. /\ s.dev \in Devices /\ u.dev \in Devices
        /\ s.start \in 0..Interval /\ u.start \in 0..Interval
    BY <1>1 DEF IsTransmission
  <2>2. \A k \in 0..Interval : k \in Nat
    BY DEF Interval
  <2> QED
    BY <2>1, <2>2
<1>3. PICK l \in Nat : l = tx[s.dev].lag /\ Airtime + 6 * l <= 80
  <2>1. tx[s.dev].lag \in Lags[s.dev]
    BY <1>2 DEF TypeInv, Device
  <2> QED
    BY <1>2, <2>1, ShortLags
<1>4. PICK m \in Nat : m = tx[u.dev].lag /\ Airtime + 6 * m <= 80
  <2>1. tx[u.dev].lag \in Lags[u.dev]
    BY <1>2 DEF TypeInv, Device
  <2> QED
    BY <1>2, <2>1, ShortLags
<1>5. Airtime \in Nat
  BY EsbAssumption
<1>6. PICK c \in AckChannels, e \in AckChannels :
        c = channels[s.dev] /\ e = channels[u.dev] /\ c # e
  BY <1>2, InUseAssumption DEF TypeInv, Assignments
<1>7. SlotOf(c) \in 0..4 /\ SlotOf(e) \in 0..4 /\ SlotOf(c) # SlotOf(e)
  <2>1. \A k \in AckChannels : k = 0 \/ k = 1 \/ k = 2 \/ k = 3 \/ k = 4
    BY DEF AckChannels
  <2>2. c = 0 \/ c = 1 \/ c = 2 \/ c = 3 \/ c = 4
    BY <2>1
  <2>3. e = 0 \/ e = 1 \/ e = 2 \/ e = 3 \/ e = 4
    BY <2>1
  <2> QED
    BY <1>6, <2>2, <2>3, SlotsAre
<1>8. s.start = Run(2, SlotOf(c), l)
  BY <1>1, <1>3, <1>6 DEF InSlot
<1>9. CASE u.kind = "ack"
  <2>1. u.start = Run(2, SlotOf(e), m)
    BY <1>1, <1>4, <1>6, <1>9 DEF InSlot
  <2>2. PICK i \in 0..4, j \in 0..4 : i = SlotOf(c) /\ j = SlotOf(e) /\ i # j
    BY <1>7
  <2>3. CASE i < j
    <3>1. Run(2, j, m) - Run(2, i, l) >= Airtime
      BY <1>3, <1>4, <1>5, <2>3, SlotsApart
    <3> QED
      BY <1>8, <2>1, <2>2, <3>1
  <2>4. CASE j < i
    <3>1. Run(2, i, l) - Run(2, j, m) >= Airtime
      BY <1>3, <1>4, <1>5, <2>4, SlotsApart
    <3> QED
      BY <1>8, <2>1, <2>2, <3>1
  <2> QED
    BY <2>2, <2>3, <2>4
<1>10. CASE u.kind # "ack"
  <2>1. u.start >= 2560
    BY <1>1, <1>10, Starts DEF InSlot
  <2>2. PICK i \in 0..4 : i = SlotOf(c)
    BY <1>7
  <2>3. Run(2, i, l) <= 2330 + 7 * l
    <3>1. Run(2, i, l) = 2010 + 3 * l + i * (80 + l)
      BY DEF Run, PhaseStart, Lead, PhaseTime, SliceTime
    <3>2. i = 0 \/ i = 1 \/ i = 2 \/ i = 3 \/ i = 4
      OBVIOUS
    <3> QED
      BY <3>1, <3>2
  <2> QED
    BY <1>2, <1>3, <1>5, <1>8, <2>1, <2>2, <2>3
<1> QED
  BY <1>9, <1>10

\* An acknowledgement is never transmitted while another device transmits, although the
\* devices keep their slots with timers of their own and threads that may be late
\* (tx_phase_timer, esb_tx_ack).
THEOREM AcksApart == ASSUME InTime PROVE Spec => []AcksDoNotCollide
BY SlotsDoNotOverlap, SlotInvariant, TypeInvariant, PTL

\* At the next edge every device has gone through all its slices: no two events were
\* merged by the semaphore's limit (time_slice_timer_handler).
THEOREM ChainsComplete == ASSUME InTime PROVE Spec => []ChainComplete
<1>1. TypeInv /\ SlotInv => ChainComplete
  BY AllRest DEF ChainComplete, Resting, At
<1> QED
  BY <1>1, SlotInvariant, TypeInvariant, PTL

\* No acknowledgement is left for a later interval, in which its channel may belong to
\* another device (esb_tx_ack).
THEOREM AcksInTheirInterval == ASSUME InTime PROVE Spec => []AcksOnTime
<1>1. TypeInv /\ SlotInv => AcksOnTime
  BY AllRest DEF AcksOnTime
<1> QED
  BY <1>1, SlotInvariant, TypeInvariant, PTL
=============================================================================
