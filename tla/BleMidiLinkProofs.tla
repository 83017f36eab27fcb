------------------------- MODULE BleMidiLinkProofs --------------------------
(***************************************************************************)
(* The Bluetooth LE out port and the central behind it, for every MTU,     *)
(* packet size and set of messages.  The out port keeps its types, encodes *)
(* what it accepts once and in order and, with messages of at most three   *)
(* bytes, never writes past the end of its packet buffer.  The messages of *)
(* a packet, none of them system exclusive, come out of the central's      *)
(* parser whole and in order, with their timestamps if they were close to  *)
(* each other.                                                             *)
(***************************************************************************)
EXTENDS BleMidiLink, SequenceTheorems, TLAPS

\* Sizes.
LEMMA Sizes ==
  /\ PckMax \in Nat /\ PckMax >= 5
  /\ DefaultMtu \in 8..(PckMax + 3)
  /\ Mtus \subseteq 8..(PckMax + 3)
  /\ MaxNumber \in Nat /\ MaxConns \in Nat
BY BleAssumption

LEMMA MessageBytes ==
  ASSUME NEW m \in Message
  PROVE  /\ m.data \in Seq(Byte) /\ m.data # <<>> /\ Len(m.data) \in Nat
         /\ Len(m.data) > 0 /\ m.data[1] \in Byte
         /\ m.ts \in MidiTime /\ m # NULL
<1>1. m.data \in Seq(Byte) /\ m.data # <<>>
  BY BleAssumption DEF Message
<1>2. m.ts \in MidiTime /\ m # NULL
  <2>1. m.ts \in Times
    BY DEF Message
  <2>2. Times \subseteq MidiTime
    BY BleAssumption
  <2>3. m # NULL
    BY NullAssumption
  <2>4. m.ts \in MidiTime
    BY <2>1, <2>2, Zenon
  <2> QED
    BY <2>3, <2>4
<1>3. Len(m.data) \in Nat /\ Len(m.data) > 0
  BY <1>1, EmptySeq, LenProperties
<1>4. m.data[1] \in Byte
  BY <1>1, <1>3, ElementOfSeq
<1>5. QED
  BY <1>1, <1>2, <1>3, <1>4

\* A timestamp is sent in two bytes.
LEMMA EncodedTime ==
  ASSUME NEW t \in MidiTime
  PROVE  Header(t) \in Byte /\ Timestamp(t) \in Byte
<1>1. t \in Nat
  BY DEF MidiTime
<1>2. t \div 128 \in Nat
  BY <1>1
<1>3. \A y \in Nat : y % 64 \in 0..63 /\ y % 128 \in 0..127
  OBVIOUS
<1>4. t % 128 \in 0..127 /\ (t \div 128) % 64 \in 0..63
  BY <1>1, <1>2, <1>3
<1>5. QED
  BY <1>4 DEF Byte, Header, Timestamp

\* The bytes the encoder adds are bytes.
LEMMA EncodedBytes ==
  ASSUME NEW m \in Message, NEW r \in Byte
  PROVE  /\ Header(m.ts) \in Byte /\ Timestamp(m.ts) \in Byte
         /\ Shortened(m, r) \in Seq(Byte)
         /\ Len(Shortened(m, r)) \in 0..Len(m.data)
         /\ StatusAfter(m, r) \in Byte
<1>1. m.ts \in MidiTime /\ m.data \in Seq(Byte) /\ m.data # <<>>
      /\ Len(m.data) \in Nat /\ Len(m.data) > 0 /\ m.data[1] \in Byte
  BY MessageBytes
<1>2. Header(m.ts) \in Byte /\ Timestamp(m.ts) \in Byte
  BY <1>1, EncodedTime, Zenon
<1>3. Tail(m.data) \in Seq(Byte) /\ Len(Tail(m.data)) = Len(m.data) - 1
  BY <1>1, HeadTailProperties
<1>4. StatusAfter(m, r) \in Byte
  <2>1. m.data[1] >= 248 \/ m.data[1] < 240 \/ ~(m.data[1] >= 248 \/ m.data[1] < 240)
    OBVIOUS
  <2> QED
    BY <1>1, <2>1 DEF StatusAfter, Byte
<1>5. QED
  BY <1>1, <1>2, <1>3, <1>4 DEF Shortened

\* What encoding a message makes of a packet.
LEMMA EncodeOutcome ==
  ASSUME NEW m \in Message, NEW packet \in Seq(Byte), NEW r \in Byte,
         Encode(m, packet, r)
  PROVE  /\ pck' \in Seq(Byte) /\ rs' \in Byte /\ overflow' \in BOOLEAN
         /\ overflow' = PastEnd(pck')
         /\ Len(pck') <= (IF packet = <<>> THEN 1 ELSE Len(packet)) + 1 + Len(m.data)
<1> DEFINE fresh == packet = <<>>
           start == IF fresh THEN <<Header(m.ts)>> ELSE packet
           base  == IF fresh THEN 0 ELSE r
           body  == Shortened(m, base)
<1>1. base \in Byte
  BY DEF Byte
<1>2. /\ Header(m.ts) \in Byte /\ Timestamp(m.ts) \in Byte
      /\ body \in Seq(Byte) /\ Len(body) \in 0..Len(m.data)
      /\ StatusAfter(m, base) \in Byte
  <2> HIDE DEF base
  <2> QED
    BY <1>1, EncodedBytes
<1>3. start \in Seq(Byte) /\ Len(start) = (IF fresh THEN 1 ELSE Len(packet))
  BY <1>2
<1>4. /\ pck' = (start \o <<Timestamp(m.ts)>>) \o body
      /\ rs' = StatusAfter(m, base)
  BY DEF Encode
<1>5. overflow' = PastEnd(pck')
  BY DEF Encode
<1> HIDE DEF start, base, body
<1>6. /\ start \o <<Timestamp(m.ts)>> \in Seq(Byte)
      /\ Len(start \o <<Timestamp(m.ts)>>) = Len(start) + 1
  <2>1. <<Timestamp(m.ts)>> \in Seq(Byte) /\ Len(<<Timestamp(m.ts)>>) = 1
    BY <1>2
  <2> QED
    BY <1>3, <2>1, ConcatProperties
<1>7. pck' \in Seq(Byte) /\ Len(pck') = Len(start) + 1 + Len(body)
  BY <1>2, <1>4, <1>6, ConcatProperties
<1>8. Len(m.data) \in Nat /\ Len(packet) \in Nat
  BY MessageBytes
<1>9. overflow' \in BOOLEAN
  BY <1>5 DEF PastEnd
<1>10. rs' \in Byte
  BY <1>2, <1>4
<1>11. Len(pck') <= (IF fresh THEN 1 ELSE Len(packet)) + 1 + Len(m.data)
  BY <1>2, <1>3, <1>7, <1>8
<1>12. QED
  BY <1>5, <1>7, <1>8, <1>9, <1>10, <1>11, Zenon

-----------------------------------------------------------------------------
(* Types. *)

LEMMA NotifyType ==
  ASSUME TypeOK, Notify(pck, inside)
  PROVE  out' \in [bytes : Seq(Byte), messages : Messages, taken : BOOLEAN]
BY DEF TypeOK, Notify

LEMMA EncodeWorkType == TypeOK /\ EncodeWork => TypeOK'
<1> SUFFICES ASSUME TypeOK, EncodeWork PROVE TypeOK'
  OBVIOUS
<1>1. UNCHANGED <<conn, mtu, mtuSize, subscribed, conns, sender, number, flush>>
  BY DEF EncodeWork, connVars
<1>2. CASE fifo = <<>>
  <2>1. encode' = FALSE /\ UNCHANGED <<fifo, pck, inside, rs, overflow, out>>
    BY <1>2 DEF EncodeWork, pckVars
  <2> QED
    BY <1>1, <2>1 DEF TypeOK
<1>3. CASE fifo # <<>>
  <2> DEFINE m == Head(fifo)
  <2>1. m \in Message /\ fifo' \in Messages /\ encode' = encode
    BY <1>3, HeadTailProperties DEF TypeOK, Messages, EncodeWork
  <2>2. CASE PacketFull(m)
    <3>1. Notify(pck, inside) /\ Encode(m, <<>>, rs) /\ inside' = <<m>>
      BY <1>3, <2>2 DEF EncodeWork
    <3>2. inside' \in Messages
      BY <2>1, <3>1 DEF Messages
    <3>3. <<>> \in Seq(Byte) /\ rs \in Byte
      BY DEF TypeOK
    <3>4. pck' \in Seq(Byte) /\ rs' \in Byte /\ overflow' \in BOOLEAN
      BY <2>1, <3>1, <3>3, EncodeOutcome
    <3> QED
      BY <1>1, <2>1, <3>1, <3>2, <3>4, NotifyType DEF TypeOK
  <2>3. CASE ~PacketFull(m)
    <3>1. Encode(m, pck, rs) /\ inside' = Append(inside, m) /\ out' = out
      BY <1>3, <2>3 DEF EncodeWork
    <3>2. inside' \in Messages
      BY <2>1, <3>1, AppendProperties DEF Messages, TypeOK
    <3>3. pck' \in Seq(Byte) /\ rs' \in Byte /\ overflow' \in BOOLEAN
      BY <2>1, <3>1, EncodeOutcome DEF TypeOK
    <3> QED
      BY <1>1, <2>1, <3>1, <3>2, <3>3 DEF TypeOK
  <2> QED
    BY <2>2, <2>3
<1>4. QED
  BY <1>2, <1>3

LEMMA TypeInit == Init => TypeOK
<1> SUFFICES ASSUME Init PROVE TypeOK
  OBVIOUS
<1>1. <<>> \in Seq(Byte) /\ <<>> \in Messages
  BY DEF Messages
<1>2. /\ conn \in 0..MaxConns /\ conns \in 0..MaxConns /\ number \in 0..MaxNumber
      /\ mtu \in 8..(PckMax + 3) /\ mtuSize \in 8..(PckMax + 3) /\ rs \in Byte
  BY Sizes DEF Init, Byte
<1>3. /\ subscribed \in BOOLEAN /\ encode \in BOOLEAN /\ flush \in BOOLEAN
      /\ overflow \in BOOLEAN
  BY DEF Init
<1>4. out \in [bytes : Seq(Byte), messages : Messages, taken : BOOLEAN]
  BY <1>1 DEF Init, NoPacket
<1>5. QED
  BY <1>1, <1>2, <1>3, <1>4 DEF Init, TypeOK

LEMMA TypeStep == TypeOK /\ [Next]_bleVars => TypeOK'
<1> SUFFICES ASSUME TypeOK, [Next]_bleVars PROVE TypeOK'
  OBVIOUS
<1> USE DEF TypeOK
<1>1. CASE SendCheck
  <2>1. number' \in 1..MaxNumber /\ number' = number + 1
    BY <1>1, Sizes DEF SendCheck
  <2>2. sender' \in Message
    BY <1>1, <2>1 DEF SendCheck, Message
  <2> QED
    BY <1>1, <2>1, <2>2 DEF SendCheck, connVars, pckVars
<1>2. CASE SendPut
  <2>1. fifo' \in Messages
    BY <1>2, AppendProperties DEF SendPut, Messages
  <2> QED
    BY <1>2, <2>1 DEF SendPut, connVars, pckVars
<1>3. CASE EncodeWork
  BY <1>3, EncodeWorkType
<1>4. CASE TxWork
  <2>1. /\ flush' = FALSE /\ pck' \in Seq(Byte) /\ inside' \in Messages
        /\ out' \in [bytes : Seq(Byte), messages : Messages, taken : BOOLEAN]
    <3>1. <<>> \in Seq(Byte) /\ <<>> \in Messages
      BY DEF Messages
    <3>2. CASE pck # <<>>
      BY <1>4, <3>1, <3>2, NotifyType DEF TxWork
    <3>3. CASE pck = <<>>
      BY <1>4, <3>3 DEF TxWork
    <3> QED
      BY <3>2, <3>3
  <2> QED
    BY <1>4, <2>1 DEF TxWork, connVars, queueVars
<1>5. CASE RadioNotification
  BY <1>5 DEF RadioNotification, connVars, queueVars, pckVars
<1>6. CASE Connected
  <2>1. conn' \in 0..MaxConns /\ conns' \in 0..MaxConns
    BY <1>6, Sizes DEF Connected
  <2>2. mtu' \in 8..(PckMax + 3) /\ subscribed' \in BOOLEAN
    BY <1>6, Sizes DEF Connected
  <2>3. UNCHANGED <<mtuSize, sender, fifo, number, encode, flush, pck, inside, rs,
                    overflow, out>>
    BY <1>6 DEF Connected, queueVars, pckVars
  <2> QED
    BY <2>1, <2>2, <2>3
<1>7. CASE Disconnected
  BY <1>7, Sizes DEF Disconnected, queueVars, pckVars
<1>8. CASE MtuExchanged
  BY <1>8, Sizes DEF MtuExchanged, queueVars, pckVars
<1>9. CASE Subscribe
  BY <1>9 DEF Subscribe, queueVars, pckVars
<1>10. CASE ParamUpdated
  BY <1>10 DEF ParamUpdated, queueVars, pckVars
<1>11. CASE UNCHANGED bleVars
  BY <1>11 DEF bleVars, connVars, queueVars, pckVars
<1>12. QED
  BY <1>1, <1>2, <1>3, <1>4, <1>5, <1>6, <1>7, <1>8, <1>9, <1>10, <1>11
  DEF Next, Sender, WorkQueue, Connection

\* The state of the out port keeps its types.
THEOREM TypeCorrect == Spec => []TypeOK
BY TypeInit, TypeStep, PTL DEF Spec

-----------------------------------------------------------------------------
(* The packet buffer. *)

\* Voice and system common messages: what MIDI 1.0 sends but system exclusive.
ShortInput == \A d \in Input : Len(d) <= 3

\* A message that fits behind the packet's bytes leaves it no longer than its buffer.
LEMMA Fitting ==
  ASSUME NEW before \in Nat, NEW after \in Nat, NEW length \in Nat,
         NEW limit \in Nat, NEW size \in Nat,
         length + 1 <= (limit - 3) - before, limit <= size + 3,
         after <= before + 1 + length
  PROVE  after <= size
OBVIOUS

LEMMA BoundsStep ==
  ASSUME ShortInput
  PROVE  TypeOK /\ PacketInBounds /\ [Next]_bleVars => PacketInBounds'
<1> SUFFICES ASSUME TypeOK, PacketInBounds, [Next]_bleVars PROVE PacketInBounds'
  OBVIOUS
<1>1. /\ PckMax \in Nat /\ PckMax >= 5 /\ mtuSize \in 8..(PckMax + 3)
      /\ pck \in Seq(Byte) /\ Len(pck) \in Nat /\ rs \in Byte
  BY Sizes DEF TypeOK
<1>2. CASE EncodeWork /\ fifo # <<>>
  <2> DEFINE m == Head(fifo)
  <2>1. m \in Message
    BY <1>2, HeadTailProperties DEF TypeOK, Messages
  <2>2. Len(m.data) \in Nat /\ Len(m.data) <= 3
    BY <2>1, MessageBytes DEF ShortInput, Message
  <2>3. CASE PacketFull(m)
    <3>1. Encode(m, <<>>, rs) /\ <<>> \in Seq(Byte)
      BY <1>2, <2>3 DEF EncodeWork
    <3>2. /\ pck' \in Seq(Byte) /\ Len(pck') <= 1 + 1 + Len(m.data)
          /\ overflow' = PastEnd(pck')
      BY <1>1, <2>1, <3>1, EncodeOutcome
    <3>3. Len(pck') \in Nat
      BY <3>2
    <3>4. ~PastEnd(pck')
      BY <1>1, <2>2, <3>2, <3>3 DEF PastEnd
    <3> QED
      BY <3>2, <3>4 DEF PacketInBounds
  <2>4. CASE ~PacketFull(m)
    <3>1. Encode(m, pck, rs)
      BY <1>2, <2>4 DEF EncodeWork
    <3>2. Len(m.data) + 1 <= (mtuSize - 3) - Len(pck)
      BY <1>1, <2>2, <2>4 DEF PacketFull
    <3>3. /\ pck' \in Seq(Byte)
          /\ overflow' = PastEnd(pck')
          /\ Len(pck') <= (IF pck = <<>> THEN 1 ELSE Len(pck)) + 1 + Len(m.data)
      BY <1>1, <2>1, <3>1, EncodeOutcome
    <3>4. Len(pck') \in Nat
      BY <3>3
    <3>5. Len(pck') <= PckMax
      <4>1. CASE pck = <<>>
        <5>1. Len(pck') <= 1 + 1 + Len(m.data)
          BY <3>3, <4>1
        <5> QED
          BY <1>1, <2>2, <3>4, <5>1
      <4>2. CASE pck # <<>>
        <5>1. Len(pck') <= Len(pck) + 1 + Len(m.data)
          BY <3>3, <4>2
        <5>2. mtuSize \in Nat /\ mtuSize <= PckMax + 3
          BY <1>1
        <5> HIDE DEF m
        <5> QED
          BY <1>1, <2>2, <3>2, <3>4, <5>1, <5>2, Fitting
      <4> QED
        BY <4>1, <4>2
    <3>6. ~PastEnd(pck')
      BY <1>1, <3>4, <3>5 DEF PastEnd
    <3> QED
      BY <3>3, <3>6 DEF PacketInBounds
  <2> QED
    BY <2>3, <2>4
<1>3. CASE EncodeWork /\ fifo = <<>>
  BY <1>3 DEF EncodeWork, pckVars, PacketInBounds
<1>4. CASE TxWork
  <2>1. overflow' = overflow /\ (pck' = pck \/ pck' = <<>>)
    BY <1>4 DEF TxWork
  <2>2. Len(<<>>) = 0
    OBVIOUS
  <2> QED
    BY <1>1, <2>1, <2>2 DEF PacketInBounds, PastEnd
<1>5. CASE UNCHANGED <<pck, overflow>>
  BY <1>5 DEF PacketInBounds
<1>6. QED
  BY <1>2, <1>3, <1>4, <1>5
  DEF Next, Sender, WorkQueue, Connection, SendCheck, SendPut, RadioNotification,
      Connected, Disconnected, MtuExchanged, Subscribe, ParamUpdated, bleVars,
      pckVars

\* With messages of at most three bytes ble_midi_encode_work_handler stays inside
\* ble_midi_pck, whatever the MTU and whenever it changes, if the packet is as
\* large as the stack's largest MTU allows and no MTU is below 8.
THEOREM BufferSafe ==
  ASSUME ShortInput
  PROVE  Spec => []PacketInBounds
<1>1. Init => PacketInBounds
  <2> SUFFICES ASSUME Init PROVE PacketInBounds
    OBVIOUS
  <2>1. Len(<<>>) = 0
    OBVIOUS
  <2> QED
    BY <2>1, Sizes DEF Init, PacketInBounds, PastEnd
<1>2. TypeOK /\ PacketInBounds /\ [Next]_bleVars => PacketInBounds'
  BY BoundsStep
<1>3. QED
  BY <1>1, <1>2, TypeCorrect, PTL DEF Spec
-----------------------------------------------------------------------------
(* Order. *)

\* The messages of u are the last ones accepted when n have been.
Latest(u, n) == \A i \in DOMAIN u : u[i].number = n - (Len(u) - i)

\* The thread that is about to queue a message, as the end of the queue.
Last(m) == IF m = NULL THEN <<>> ELSE <<m>>

LEMMA LatestSuffix ==
  ASSUME NEW s \in Messages, NEW t \in Messages, NEW n \in Nat, Latest(s \o t, n)
  PROVE  Latest(t, n)
<1> DEFINE u == s \o t
<1>1. /\ u \in Messages /\ Len(u) = Len(s) + Len(t)
      /\ \A i \in 1..Len(s) + Len(t) :
           u[i] = IF i <= Len(s) THEN s[i] ELSE t[i - Len(s)]
  BY ConcatProperties DEF Messages
<1>2. /\ Len(s) \in Nat /\ Len(t) \in Nat
      /\ DOMAIN u = 1..Len(u) /\ DOMAIN t = 1..Len(t)
  BY <1>1, LenProperties DEF Messages
<1>3. Latest(u, n)
  OBVIOUS
<1> HIDE DEF u
<1> SUFFICES ASSUME NEW i \in 1..Len(t) PROVE t[i].number = n - (Len(t) - i)
  BY <1>2 DEF Latest
<1>4. i + Len(s) \in 1..Len(u) /\ u[i + Len(s)] = t[i]
  BY <1>1, <1>2
<1>5. u[i + Len(s)].number = n - (Len(u) - (i + Len(s)))
  BY <1>2, <1>3, <1>4 DEF Latest
<1> QED
  BY <1>1, <1>2, <1>4, <1>5

LEMMA LatestAppend ==
  ASSUME NEW s \in Messages, NEW m \in Message, NEW n \in Nat,
         Latest(s, n), m.number = n + 1
  PROVE  Latest(s \o <<m>>, n + 1)
<1> DEFINE u == Append(s, m)
<1>1. /\ u \in Messages /\ Len(u) = Len(s) + 1
      /\ \A i \in 1..Len(s) : u[i] = s[i]
      /\ u[Len(s) + 1] = m
      /\ u = s \o <<m>>
  BY AppendProperties, AppendIsConcat DEF Messages
<1>2. Len(s) \in Nat /\ DOMAIN u = 1..Len(u) /\ DOMAIN s = 1..Len(s)
  BY <1>1, LenProperties DEF Messages
<1> HIDE DEF u
<1>3. Latest(u, n + 1)
  <2> SUFFICES ASSUME NEW i \in 1..Len(u) PROVE u[i].number = (n + 1) - (Len(u) - i)
    BY <1>2 DEF Latest
  <2>1. CASE i \in 1..Len(s)
    BY <1>1, <1>2, <2>1 DEF Latest
  <2>2. CASE i = Len(s) + 1
    BY <1>1, <1>2, <2>2
  <2> QED
    BY <1>1, <1>2, <2>1, <2>2
<1> QED
  BY <1>1, <1>3

\* z is x followed by y.
Glued(z, x, y) ==
  /\ Len(z) = Len(x) + Len(y)
  /\ \A i \in 1..Len(x) : z[i] = x[i]
  /\ \A j \in 1..Len(y) : z[Len(x) + j] = y[j]

LEMMA JoinIs ==
  ASSUME NEW x \in Seq(Message), NEW y \in Seq(Message), NEW z, z = x \o y
  PROVE  z \in Seq(Message) /\ Glued(z, x, y)
<1>1. Len(x) \in Nat /\ Len(y) \in Nat
  BY LenProperties
<1>2. /\ z \in Seq(Message) /\ Len(z) = Len(x) + Len(y)
      /\ \A i \in 1..Len(x) + Len(y) : z[i] = IF i <= Len(x) THEN x[i] ELSE y[i - Len(x)]
  BY ConcatProperties
<1>3. ASSUME NEW i \in 1..Len(x) PROVE z[i] = x[i]
  BY <1>1, <1>2
<1>4. ASSUME NEW j \in 1..Len(y) PROVE z[Len(x) + j] = y[j]
  <2>1. PICK k : k = Len(x) + j
    OBVIOUS
  <2>2. k \in 1..Len(x) + Len(y) /\ ~(k <= Len(x)) /\ k - Len(x) = j
    BY <1>1, <2>1
  <2>3. z[k] = y[k - Len(x)]
    BY <1>2, <2>2
  <2> QED
    BY <2>1, <2>2, <2>3
<1> QED
  BY <1>2, <1>3, <1>4 DEF Glued

LEMMA Joins ==
  ASSUME NEW s \in Seq(Message), NEW t \in Seq(Message), NEW u \in Seq(Message),
         NEW p \in Seq(Message), NEW q \in Seq(Message), NEW a \in Seq(Message), NEW b \in Seq(Message),
         Glued(p, s, t), Glued(q, t, u), Glued(a, p, u), Glued(b, s, q)
  PROVE  a = b
<1>1. PICK k \in Nat, l \in Nat, n \in Nat : k = Len(s) /\ l = Len(t) /\ n = Len(u)
  BY LenProperties
<1>2. Len(p) = k + l /\ Len(q) = l + n /\ Len(a) = (k + l) + n /\ Len(b) = k + (l + n)
  BY <1>1 DEF Glued
<1>3. ASSUME NEW i \in 1..k PROVE a[i] = b[i]
  <2>1. i \in 1..k + l
    BY <1>1
  <2>2. p[i] = s[i] /\ b[i] = s[i]
    BY <1>1 DEF Glued
  <2>3. a[i] = p[i]
    BY <1>2, <2>1 DEF Glued
  <2> QED
    BY <2>2, <2>3
<1>4. ASSUME NEW j \in 1..l PROVE a[k + j] = b[k + j]
  <2>1. k + j \in 1..k + l /\ j \in 1..l + n
    BY <1>1
  <2>2. p[k + j] = t[j] /\ q[j] = t[j]
    BY <1>1 DEF Glued
  <2>3. a[k + j] = p[k + j]
    BY <1>2, <2>1 DEF Glued
  <2>4. b[k + j] = q[j]
    BY <1>1, <1>2, <2>1 DEF Glued
  <2> QED
    BY <2>2, <2>3, <2>4
<1>5. ASSUME NEW j \in 1..n PROVE a[(k + l) + j] = b[(k + l) + j]
  <2>1. PICK m : m = l + j
    OBVIOUS
  <2>2. m \in 1..l + n /\ k + m = (k + l) + j
    BY <1>1, <2>1
  <2>3. q[m] = u[j]
    BY <1>1, <2>1 DEF Glued
  <2>4. a[(k + l) + j] = u[j]
    BY <1>1, <1>2 DEF Glued
  <2>5. b[k + m] = q[m]
    BY <1>1, <1>2, <2>2 DEF Glued
  <2> QED
    BY <2>2, <2>3, <2>4, <2>5
<1>6. Len(a) = Len(b)
  BY <1>1, <1>2
<1>7. ASSUME NEW i \in 1..Len(a) PROVE a[i] = b[i]
  <2>1. i \in 1..(k + l) + n
    BY <1>2
  <2>2. CASE i \in 1..k
    BY <2>2, <1>3
  <2>3. CASE i \in 1..k + l /\ i > k
    <3>1. PICK j : j = i - k
      OBVIOUS
    <3>2. j \in 1..l /\ i = k + j
      BY <1>1, <2>3, <3>1
    <3> QED
      BY <1>4, <3>2
  <2>4. CASE i > k + l
    <3>1. PICK j : j = i - (k + l)
      OBVIOUS
    <3>2. j \in 1..n /\ i = (k + l) + j
      BY <1>1, <2>1, <2>4, <3>1
    <3> QED
      BY <1>5, <3>2
  <2> QED
    BY <1>1, <2>1, <2>2, <2>3, <2>4
<1> QED
  BY <1>6, <1>7, SeqEqual

LEMMA Regroup ==
  ASSUME NEW s \in Seq(Message), NEW t \in Seq(Message), NEW u \in Seq(Message)
  PROVE (s \o t) \o u = s \o (t \o u)
<1>1. PICK p : p = s \o t
  OBVIOUS
<1>2. PICK q : q = t \o u
  OBVIOUS
<1>3. PICK a : a = p \o u
  OBVIOUS
<1>4. PICK b : b = s \o q
  OBVIOUS
<1>5. p \in Seq(Message) /\ q \in Seq(Message) /\ Glued(p, s, t) /\ Glued(q, t, u)
  BY <1>1, <1>2, JoinIs
<1>6. a \in Seq(Message) /\ b \in Seq(Message) /\ Glued(a, p, u) /\ Glued(b, s, q)
  BY <1>3, <1>4, <1>5, JoinIs
<1>11. a = b
  BY <1>5, <1>6, Joins
<1> QED
  BY <1>1, <1>2, <1>3, <1>4, <1>11

\* That it does not matter which two of three sequences are joined first.
Regroups(s, t, u) == (s \o t) \o u = s \o (t \o u)

LEMMA QueuesRegroup ==
  \A s, t, u \in Messages : Regroups(s, t, u)
BY Regroup DEF Messages, Regroups

\* A message that moves from the head of one queue to the end of the one before.
LEMMA HeadMoves ==
  ASSUME NEW s \in Messages, NEW t \in Messages, t # <<>>
  PROVE  Append(s, Head(t)) \o Tail(t) = s \o t
<1> DEFINE h == Head(t)
           r == Tail(t)
<1>1. h \in Message /\ r \in Messages /\ t = <<h>> \o r
  <2>1. /\ h \in Message /\ r \in Messages /\ Len(r) = Len(t) - 1
        /\ \A i \in 1..Len(r) : r[i] = t[i + 1]
    BY HeadTailProperties DEF Messages
  <2>2. Len(t) \in Nat \ {0} /\ h = t[1]
    BY EmptySeq DEF Messages
  <2>3. <<h>> \in Messages /\ Len(<<h>>) = 1 /\ <<h>>[1] = h
    BY <2>1 DEF Messages
  <2> HIDE DEF h, r
  <2> DEFINE c == <<h>> \o r
  <2>4. /\ c \in Messages /\ Len(c) = 1 + Len(r)
        /\ \A i \in 1..1 + Len(r) : c[i] = IF i <= 1 THEN <<h>>[i] ELSE r[i - 1]
    BY <2>1, <2>3, ConcatProperties DEF Messages
  <2> HIDE DEF c
  <2>5. \A i \in 1..Len(c) : c[i] = t[i]
    <3> TAKE i \in 1..Len(c)
    <3>1. CASE i = 1
      BY <2>1, <2>2, <2>3, <2>4, <3>1
    <3>2. CASE i # 1
      <4>1. i - 1 \in 1..Len(r)
        BY <2>1, <2>2, <2>4, <3>2
      <4> QED
        BY <2>1, <2>2, <2>4, <3>2, <4>1
    <3> QED
      BY <3>1, <3>2
  <2>6. c = t
    BY <2>1, <2>2, <2>4, <2>5, SeqEqual DEF Messages
  <2> QED
    BY <2>1, <2>6 DEF c
<1>2. <<h>> \in Messages /\ Append(s, h) = s \o <<h>>
  BY <1>1, AppendIsConcat DEF Messages
<1> HIDE DEF h, r
<1>3. PICK x : x = <<h>> /\ x \in Seq(Message)
  BY <1>2 DEF Messages
<1>4. (s \o x) \o r = s \o (x \o r)
  <2>1. Regroups(s, x, r)
    BY <1>1, <1>3, QueuesRegroup DEF Messages
  <2> QED
    BY <2>1 DEF Regroups
<1> QED
  BY <1>1, <1>2, <1>3, <1>4, Zenon DEF h, r

LEMMA OrderStep ==
  ASSUME TypeOK, EncodedInOrder, [Next]_bleVars
  PROVE  EncodedInOrder'
<1> DEFINE o == out.messages
           e == Last(sender)
<1>1. /\ o \in Messages /\ inside \in Messages /\ fifo \in Messages /\ e \in Messages
      /\ number \in Nat
  BY Sizes DEF TypeOK, Messages, Last
<1>2. Underway = ((o \o inside) \o fifo) \o e /\ Latest(Underway, number)
  BY DEF Underway, Last, EncodedInOrder, Latest
<1>3. ASSUME (Latest(Underway, number))' PROVE EncodedInOrder'
  BY <1>3 DEF EncodedInOrder, Latest
<1>4. Underway' = ((out'.messages \o inside') \o fifo') \o Last(sender')
  BY DEF Underway, Last
<1>5. /\ o \o inside \in Messages /\ (o \o inside) \o fifo \in Messages
      /\ inside \o fifo \in Messages /\ (inside \o fifo) \o e \in Messages
  BY <1>1, ConcatProperties DEF Messages
\* What a packet that is full or due leaves behind is a suffix.
<1>6. Underway = o \o ((inside \o fifo) \o e)
  <2>1. PICK x : x = inside \o fifo
    OBVIOUS
  <2>2. x \in Messages
    BY <1>5, <2>1
  <2> HIDE DEF o, e
  <2>3. Regroups(o, inside, fifo) /\ Regroups(o, x, e)
    BY <1>1, <2>2, QueuesRegroup
  <2>4. Underway = ((o \o inside) \o fifo) \o e
    BY <1>2
  <2> QED
    BY <2>1, <2>3, <2>4, Zenon DEF Regroups
<1>7. Latest((inside \o fifo) \o e, number)
  BY <1>1, <1>2, <1>5, <1>6, LatestSuffix
<1> HIDE DEF o, e
<1>8. CASE SendCheck
  <2>1. /\ e = <<>> /\ UNCHANGED <<out, inside, fifo>> /\ number' = number + 1
        /\ sender' # NULL /\ sender'.number = number + 1
    <3>1. PICK d \in Input, t \in Times :
            sender' = [data |-> d, ts |-> t, number |-> number + 1]
      BY <1>8 DEF SendCheck
    <3>2. number + 1 \in 1..MaxNumber
      BY <1>1, <1>8, Sizes DEF SendCheck
    <3>3. sender' \in Message
      BY <3>1, <3>2 DEF Message
    <3> QED
      BY <1>8, <3>1, <3>3, NullAssumption DEF SendCheck, pckVars, e, Last
  <2>2. sender' \in Message
    BY <2>1, TypeStep DEF TypeOK
  <2>3. Underway = (o \o inside) \o fifo
    BY <1>2, <1>5, <2>1, ConcatEmptySeq DEF Messages
  <2>4. Underway' = Underway \o <<sender'>>
    BY <1>4, <2>1, <2>3 DEF Last, o
  <2> QED
    BY <1>1, <1>2, <1>3, <1>5, <2>1, <2>2, <2>3, <2>4, LatestAppend
<1>9. CASE SendPut
  <2>1. /\ sender \in Message /\ fifo' = Append(fifo, sender) /\ sender' = NULL
        /\ e = <<sender>> /\ UNCHANGED <<out, inside, number>>
    BY <1>9 DEF SendPut, TypeOK, pckVars, e, Last
  <2>2. fifo' = fifo \o e /\ fifo' \in Messages
    BY <1>1, <2>1, AppendIsConcat, AppendProperties DEF Messages
  <2>3. Underway' = (o \o inside) \o (fifo \o e)
    <3>1. (o \o inside) \o fifo' \in Messages
      BY <1>5, <2>2, ConcatProperties DEF Messages
    <3>2. Last(sender') = <<>>
      BY <2>1 DEF Last
    <3> QED
      BY <1>4, <2>1, <2>2, <3>1, <3>2, ConcatEmptySeq DEF Messages, o
  <2>4. Underway' = Underway
    <3>1. PICK x : x = o \o inside /\ x \in Messages
      BY <1>5
    <3> HIDE DEF o, e
    <3>2. Regroups(x, fifo, e)
      BY <1>1, <3>1, QueuesRegroup
    <3>3. Underway = (x \o fifo) \o e
      BY <1>2, <3>1
    <3> QED
      BY <2>3, <3>1, <3>2, <3>3 DEF Regroups
  <2> QED
    BY <1>2, <1>3, <2>1, <2>4
<1>10. CASE EncodeWork /\ fifo # <<>>
  <2> DEFINE m == Head(fifo)
  <2>1. /\ m \in Message /\ Tail(fifo) \in Messages /\ fifo' = Tail(fifo)
        /\ sender' = sender /\ number' = number
    BY <1>1, <1>10, HeadTailProperties DEF EncodeWork, Messages
  <2>2. e = Last(sender')
    BY <2>1 DEF e
  <2>3. CASE PacketFull(m)
    <3>1. out'.messages = inside /\ inside' = <<m>>
      BY <1>10, <2>3 DEF EncodeWork, Notify
    <3>2. Append(inside, m) \o Tail(fifo) = inside \o fifo
      BY <1>1, <1>10, HeadMoves
    <3>3. Append(inside, m) = inside \o <<m>>
      BY <1>1, <2>1, AppendIsConcat DEF Messages
    <3> HIDE DEF m
    <3>4. Underway' = (inside \o fifo) \o e
      BY <1>4, <2>1, <2>2, <3>1, <3>2, <3>3
    <3> QED
      BY <1>3, <1>7, <2>1, <3>4
  <2>4. CASE ~PacketFull(m)
    <3>1. out' = out /\ inside' = Append(inside, m)
      BY <1>10, <2>4 DEF EncodeWork
    <3>2. Append(inside, m) \in Messages
      BY <1>1, <2>1, AppendProperties DEF Messages
    <3>3. Append(inside, m) \o Tail(fifo) = inside \o fifo
      BY <1>1, <1>10, HeadMoves
    <3> HIDE DEF m
    <3>4. (o \o Append(inside, m)) \o Tail(fifo) = o \o (inside \o fifo)
      <4>1. PICK x, y : x = Append(inside, m) /\ y = Tail(fifo)
        OBVIOUS
      <4> HIDE DEF o
      <4>2. Regroups(o, x, y)
        BY <1>1, <2>1, <3>2, <4>1, QueuesRegroup
      <4> QED
        BY <3>3, <4>1, <4>2, Zenon DEF Regroups
    <3>5. o \o (inside \o fifo) = (o \o inside) \o fifo
      <4> HIDE DEF o
      <4>1. Regroups(o, inside, fifo)
        BY <1>1, QueuesRegroup
      <4> QED
        BY <4>1, Zenon DEF Regroups
    <3>6. Underway' = Underway
      BY <1>2, <1>4, <2>1, <2>2, <3>1, <3>4, <3>5 DEF o
    <3> QED
      BY <1>2, <1>3, <2>1, <3>6
  <2> QED
    BY <2>3, <2>4
<1>11. CASE TxWork /\ pck # <<>>
  <2>1. /\ out'.messages = inside /\ inside' = <<>>
        /\ UNCHANGED <<fifo, sender, number>>
    BY <1>11 DEF TxWork, Notify, queueVars
  <2>2. inside \o <<>> = inside
    BY <1>1, ConcatEmptySeq DEF Messages
  <2>3. Underway' = (inside \o fifo) \o e
    BY <1>4, <2>1, <2>2 DEF e
  <2> QED
    BY <1>3, <1>7, <2>1, <2>3
<1>12. CASE UNCHANGED <<out, inside, fifo, sender, number>>
  <2>1. UNCHANGED Underway
    BY <1>12 DEF Underway
  <2> QED
    BY <1>2, <1>3, <1>12, <2>1
<1>13. QED
  <2>1. CASE EncodeWork /\ fifo = <<>>
    BY <1>12, <2>1 DEF EncodeWork, pckVars
  <2>2. CASE TxWork /\ pck = <<>>
    BY <1>12, <2>2 DEF TxWork, queueVars
  <2>3. CASE RadioNotification \/ Connection
    BY <1>12, <2>3 DEF RadioNotification, Connection, Connected, Disconnected,
       MtuExchanged, Subscribe, ParamUpdated, queueVars, pckVars
  <2>4. CASE UNCHANGED bleVars
    BY <1>12, <2>4 DEF bleVars, queueVars, pckVars
  <2> QED
    BY <1>8, <1>9, <1>10, <1>11, <2>1, <2>2, <2>3, <2>4 DEF Next, Sender, WorkQueue

\* Every accepted message is encoded once and in the order midi_send accepted it,
\* for every MTU, across every sequence of connections (send_to_bluetooth_port,
\* ble_midi_encode_work_handler, ble_tx_work_handler).
THEOREM EncodesInOrder == Spec => []EncodedInOrder
<1>1. Init => EncodedInOrder
  <2> SUFFICES ASSUME Init PROVE EncodedInOrder
    OBVIOUS
  <2>1. Underway = ((<<>> \o <<>>) \o <<>>) \o <<>>
    BY DEF Init, Underway, NoPacket
  <2>2. Underway = <<>>
    BY <2>1
  <2> QED
    BY <2>2 DEF EncodedInOrder
<1>2. TypeOK /\ EncodedInOrder /\ [Next]_bleVars => EncodedInOrder'
  BY OrderStep
<1>3. QED
  BY <1>1, <1>2, TypeCorrect, PTL DEF Spec

------------------------------------------------------------------------------
(* The receiver's parser. *)

\* The values of the running status of encoder and parser.
Running == {0} \cup 128..239

\* The parser between two messages that were encoded under running status s.
Between(s) == asm = NULL /\ (s # 0 => status = s /\ ~third)

\* The parser before byte i of message d, encoded under running status s.
Taking(d, i, s) ==
  /\ i = 1 => Between(s)
  /\ i = 2 => /\ status = d[1] /\ ~third
              /\ asm # NULL => asm \in Parser!Message /\ asm.live
  /\ i = 3 => /\ third /\ asm # NULL /\ asm \in Parser!Message /\ asm.live
              /\ asm.cap = 3 /\ Len(asm.data) = 2
              /\ asm.data[1] = d[1] /\ asm.data[2] = d[2]
              /\ d[1] < 240 => status = d[1]

\* The kinds of message a packet carries, by status byte.
Kind(d) ==
  \/ Len(d) = 3 /\ d[1] \in 128..191 \cup 224..239 \cup {242} /\ d[2] \in 0..127 /\ d[3] \in 0..127
  \/ Len(d) = 2 /\ d[1] \in 192..223 \cup {241, 243} /\ d[2] \in 0..127
  \/ Len(d) = 1 /\ d[1] \in 244..246 \cup 248..255

\* What the application may send is of these kinds.
LEMMA PlainKinds ==
  ASSUME PlainMessages, NEW m \in Message
  PROVE  m.data \in Seq(Byte) /\ Kind(m.data)
<1> DEFINE d == m.data
<1>1. d \in Seq(Byte) /\ d \in Input
  BY MessageBytes DEF Message
<1>2. Parser!IsComplete(d) /\ ~Parser!IsSysex(d)
  BY <1>1 DEF PlainMessages
<1> HIDE DEF d
<1>3. ASSUME NEW S, NEW n \in 1..3, Parser!IsFixed(d, S, n)
      PROVE  /\ Len(d) = n /\ d[1] \in S
             /\ n >= 2 => d[2] \in 0..127
             /\ n = 3 => d[3] \in 0..127
  <2>1. \A i \in 2..n : d[i] \in 0..127
    BY <1>3 DEF Parser!IsFixed, Parser!DataByte
  <2>2. n \in Nat /\ (n >= 2 => 2 \in 2..n) /\ (n = 3 => 3 \in 2..n)
    OBVIOUS
  <2> QED
    BY <1>3, <2>1, <2>2 DEF Parser!IsFixed
<1>4. CASE Parser!IsFixed(d, Parser!ThreeByteVoice \cup {Parser!SongPosition}, 3)
  <2>1. d[1] \in Parser!ThreeByteVoice \cup {Parser!SongPosition} /\ Len(d) = 3 /\ d[2] \in 0..127 /\ d[3] \in 0..127
    BY <1>3, <1>4
  <2> QED
    BY <1>1, <2>1 DEF d, Kind, Parser!ThreeByteVoice, Parser!SongPosition
<1>5. CASE Parser!IsFixed(d, Parser!TwoByteVoice \cup {Parser!TimeCode, Parser!SongSelect}, 2)
  <2>1. d[1] \in Parser!TwoByteVoice \cup {Parser!TimeCode, Parser!SongSelect} /\ Len(d) = 2 /\ d[2] \in 0..127
    BY <1>3, <1>5
  <2> QED
    BY <1>1, <2>1 DEF d, Kind, Parser!TwoByteVoice, Parser!TimeCode, Parser!SongSelect
<1>6. CASE Parser!IsFixed(d, Parser!SingleByteCommon \cup Parser!RealTime, 1)
  <2>1. d[1] \in Parser!SingleByteCommon \cup Parser!RealTime /\ Len(d) = 1
    BY <1>3, <1>6
  <2> QED
    BY <1>1, <2>1 DEF d, Kind, Parser!SingleByteCommon, Parser!RealTime
<1> QED
  BY <1>1, <1>2, <1>4, <1>5, <1>6 DEF Parser!IsComplete, d

\* A new block of n bytes, holding the bytes it was asked for.
Begun(x, n, bytes) == Parser!Holding(Parser!Resized(x, n, TRUE), bytes)

\* The block is there and big enough: the pool of the parser never runs dry here.
LEMMA BegunHolds ==
  ASSUME NEW x \in Parser!Message, x.live,
         NEW n \in 1..3, NEW bytes \in Seq(Byte), Len(bytes) \in 1..n
  PROVE  /\ Begun(x, n, bytes) \in Parser!Message
         /\ Begun(x, n, bytes).data = bytes
         /\ Begun(x, n, bytes).cap = n
         /\ Begun(x, n, bytes).live
         /\ Parser!Fits(Parser!Resized(x, n, TRUE), Len(bytes) - 1)
<1>1. bytes \in Seq(Parser!Byte) /\ <<>> \in Seq(Parser!Byte) /\ n \in Nat
  BY DEF Parser!Byte, Byte
<1>2. PICK z : z = Parser!Resized(x, n, TRUE)
  OBVIOUS
<1>3. z \in Parser!Message /\ z.cap = n /\ z.live
  BY <1>1, <1>2 DEF Parser!Resized, Parser!Message
<1>4. Begun(x, n, bytes) = [z EXCEPT !.data = bytes]
  BY <1>2 DEF Begun, Parser!Holding
<1>5. Parser!Fits(z, Len(bytes) - 1)
  BY <1>3 DEF Parser!Fits
<1> QED
  BY <1>1, <1>2, <1>3, <1>4, <1>5 DEF Parser!Message

LEMMA BlocksGiven == Parser!DataBlocks = {TRUE}
BY DEF Parser!DataBlocks

\* A block begun with all its bytes is returned,
LEMMA BeginReturns ==
  ASSUME NEW x \in Parser!Message, x.live,
         NEW n \in 1..3, NEW bytes \in Seq(Byte), Len(bytes) \in 1..n,
         Parser!Begin(x, n, bytes, TRUE)
  PROVE  ~fault' /\ ret' \in Parser!Message /\ ret'.data = bytes /\ asm' = NULL
<1>1. /\ fault' = ~Parser!Fits(Parser!Resized(x, n, TRUE), Len(bytes) - 1)
      /\ ret' = Begun(x, n, bytes) /\ asm' = NULL
  BY BlocksGiven DEF Parser!Begin, Parser!Deliver, Begun
<1> QED
  BY <1>1, BegunHolds

\* and one that lacks a byte is kept.
LEMMA BeginKeeps ==
  ASSUME NEW x \in Parser!Message, x.live,
         NEW n \in 1..3, NEW bytes \in Seq(Byte), Len(bytes) \in 1..n,
         Parser!Begin(x, n, bytes, FALSE)
  PROVE  /\ ~fault' /\ ret' = NULL
         /\ asm' \in Parser!Message /\ asm'.data = bytes /\ asm'.cap = n /\ asm'.live
<1>1. /\ fault' = ~Parser!Fits(Parser!Resized(x, n, TRUE), Len(bytes) - 1)
      /\ asm' = Begun(x, n, bytes) /\ ret' = NULL
  BY BlocksGiven DEF Parser!Begin, Parser!Keep, Begun
<1> QED
  BY <1>1, BegunHolds

\* The struct a byte goes to.
LEMMA CurrentStruct ==
  ASSUME asm # NULL => asm \in Parser!Message /\ asm.live
  PROVE  /\ Parser!Current(0) \in Parser!Message /\ Parser!Current(0).live
         /\ asm # NULL => /\ Parser!Current(0).data = asm.data
                          /\ Parser!Current(0).cap = asm.cap
<1>1. CASE asm = NULL
  <2>1. Parser!Current(0) = Parser!Fresh(0)
    BY <1>1 DEF Parser!Current
  <2>2. Parser!Fresh(0) \in Parser!Message /\ Parser!Fresh(0).live
    BY DEF Parser!Fresh, Parser!Message
  <2> QED
    BY <1>1, <2>1, <2>2
<1>2. CASE asm # NULL
  BY <1>2 DEF Parser!Current, Parser!Message
<1> QED
  BY <1>1, <1>2

\* A byte that is not real-time reaches parse_serial_byte, with memory for its message.
LEMMA ByteParsed ==
  ASSUME asm # NULL => asm \in Parser!Message /\ asm.live,
         NEW b \in Byte, b < 248, Parser!Parse(b, 0)
  PROVE  \E x \in Parser!Message :
           /\ x.live
           /\ asm # NULL => x.data = asm.data /\ x.cap = asm.cap
           /\ b >= 128 => Parser!ParseStatus(x, b)
           /\ b < 128 => Parser!ParseData(x, b)
<1>1. /\ Parser!Current(0) \in Parser!Message /\ Parser!Current(0).live
      /\ asm # NULL => /\ Parser!Current(0).data = asm.data
                       /\ Parser!Current(0).cap = asm.cap
  BY CurrentStruct
<1>2. ~Parser!RealTimeMessage(b, 0) /\ ~Parser!ByteDropped
  BY DEF Parser!RealTimeMessage, Parser!RealTime, Parser!ByteDropped, Byte
<1>3. \/ b \in Parser!StatusByte /\ Parser!ParseStatus(Parser!Current(0), b)
      \/ b \in Parser!DataByte /\ Parser!ParseData(Parser!Current(0), b)
  BY <1>2 DEF Parser!Parse
<1>4. b >= 128 => Parser!ParseStatus(Parser!Current(0), b)
  BY <1>3 DEF Parser!DataByte
<1>5. b < 128 => Parser!ParseData(Parser!Current(0), b)
  BY <1>3 DEF Parser!StatusByte
<1> QED
  BY <1>1, <1>4, <1>5

\* A struct of the parser is not NULL.
LEMMA MessageStruct ==
  ASSUME NEW x \in Parser!Message
  PROVE  x # NULL /\ x.data \in Seq(Byte)
BY ReceiverAssumption DEF Parser!Message, Parser!Byte, Byte

\* What the first byte of a message says about its length.
Sized(b, n) ==
  /\ n \in 1..3 /\ b \in 128..255
  /\ b # 240 /\ b # 247
  /\ n = 1 <=> (b \in 244..246 \/ b \in 248..255)
  /\ n = 2 <=> (b \in 192..223 \/ b = 241 \/ b = 243)

LEMMA SizedKinds ==
  ASSUME NEW b \in Byte, NEW n \in Nat,
         \/ n = 3 /\ b \in 128..191 \cup 224..239 \cup {242}
         \/ n = 2 /\ b \in 192..223 \cup {241, 243}
         \/ n = 1 /\ b \in 244..246 \cup 248..255
  PROVE  Sized(b, n)
BY DEF Byte, Sized

\* The status byte and the length of a message.
LEMMA KindFacts ==
  ASSUME NEW d \in Seq(Byte), Kind(d)
  PROVE  \E n \in 1..3, b \in Byte : n = Len(d) /\ b = d[1] /\ Sized(b, n)
<1>1. Len(d) \in 1..3
  BY DEF Kind
<1>2. d[1] \in Byte
  BY <1>1
<1>3. PICK b \in Byte, n \in Nat : b = d[1] /\ n = Len(d)
  BY <1>2
<1>4. \/ n = 3 /\ b \in 128..191 \cup 224..239 \cup {242}
      \/ n = 2 /\ b \in 192..223 \cup {241, 243}
      \/ n = 1 /\ b \in 244..246 \cup 248..255
  BY <1>3 DEF Kind
<1>5. Sized(b, n)
  BY <1>4, SizedKinds
<1> QED
  BY <1>1, <1>3, <1>5

LEMMA TwoBytes ==
  ASSUME NEW d, Kind(d), Len(d) = 2
  PROVE  d[2] \in 0..127
BY DEF Kind

LEMMA ThreeBytes ==
  ASSUME NEW d, Kind(d), Len(d) = 3
  PROVE  d[2] \in 0..127 /\ d[3] \in 0..127
BY DEF Kind

LEMMA StatusFacts ==
  ASSUME NEW b \in Byte, NEW n \in 1..3, Sized(b, n), b < 248
  PROVE  /\ b >= 128 /\ b # 240 /\ b # 247 /\ b # 0
         /\ n = 1 <=> b \in 244..246
         /\ n = 2 <=> (b \in 192..223 \/ b = 241 \/ b = 243)
BY DEF Sized, Byte

\* A real-time byte.
LEMMA RealTimeByteTaken ==
  ASSUME NEW b \in 248..255, asm = NULL, Parser!Parse(b, 0)
  PROVE  /\ ~fault' /\ status' = status /\ third' = third /\ asm' = NULL
         /\ ret' \in Parser!Message /\ ret'.data = <<b>>
<1>1. b \in Byte /\ b \in Parser!RealTime
  BY DEF Parser!RealTime, Byte
<1>2. Parser!RealTimeMessage(b, 0)
  BY <1>1 DEF Parser!Parse, Parser!ByteDropped
<1>3. /\ ret' = [data |-> <<b>>, cap |-> 1, ts |-> 0, live |-> TRUE]
      /\ ~fault' /\ asm' = NULL /\ status' = status /\ third' = third
  BY <1>2 DEF Parser!RealTimeMessage, Parser!DataBlocks
<1>4. <<b>> \in Seq(Byte)
  BY <1>1
<1> QED
  BY <1>3, <1>4 DEF Parser!Message, Parser!Byte, Byte

\* A status byte other than real-time.
LEMMA StatusByteTaken ==
  ASSUME NEW b \in Byte, NEW n \in 1..3, Sized(b, n), b < 248,
         asm = NULL, Parser!Parse(b, 0)
  PROVE  /\ ~fault' /\ status' = b /\ ~third'
         /\ n = 1 => ret' \in Parser!Message /\ ret'.data = <<b>> /\ asm' = NULL
         /\ n # 1 => ret' = NULL /\ asm' \in Parser!Message /\ asm'.live
<1>1. b >= 128 /\ b # 240 /\ b # 247 /\ (n = 1 <=> b \in 244..246)
  BY StatusFacts
<1>2. PICK x \in Parser!Message : x.live /\ Parser!ParseStatus(x, b)
  BY <1>1, ByteParsed
<1>3. status' = b /\ ~third'
  BY <1>1, <1>2 DEF Parser!ParseStatus, Parser!SysexEnd
<1>4. CASE n = 1
  <2>1. Parser!Begin(x, 1, <<b>>, TRUE)
    <3>1. b \notin 244..247 \cup {240} => FALSE
      BY <1>1, <1>4
    <3> QED
      BY <1>1, <1>2, <1>4, <3>1
      DEF Parser!ParseStatus, Parser!SysexEnd, Parser!SysexStart, Parser!SingleByteCommon
  <2> DEFINE bytes == <<b>>
             one == 1
  <2>2. Parser!Begin(x, one, bytes, TRUE)
    BY <2>1
  <2>3. bytes \in Seq(Byte) /\ Len(bytes) \in 1..one /\ one \in 1..3
    OBVIOUS
  <2>4. ~fault' /\ ret' \in Parser!Message /\ ret'.data = bytes /\ asm' = NULL
    <3> HIDE DEF bytes, one
    <3> QED
      BY <1>2, <2>2, <2>3, BeginReturns
  <2> QED
    BY <1>3, <1>4, <2>4
<1>5. CASE n # 1
  <2>1. Parser!Ignore(x)
    BY <1>1, <1>2, <1>5
    DEF Parser!ParseStatus, Parser!SysexEnd, Parser!SysexStart, Parser!SingleByteCommon
  <2>2. asm' = x /\ ret' = NULL /\ ~fault'
    BY <1>2, <2>1 DEF Parser!Ignore, Parser!Keep
  <2> QED
    BY <1>2, <1>3, <1>5, <2>2
<1> QED
  BY <1>4, <1>5

\* A second byte in a block of two or three.
LEMMA PairReturns ==
  ASSUME NEW x \in Parser!Message, x.live, NEW bytes \in Seq(Byte), Len(bytes) = 2,
         Parser!Begin(x, 2, bytes, TRUE) \/ Parser!Begin(x, 3, bytes, TRUE)
  PROVE  ~fault' /\ ret' \in Parser!Message /\ ret'.data = bytes /\ asm' = NULL
<1>1. CASE Parser!Begin(x, 2, bytes, TRUE)
  <2> DEFINE n == 2
  <2>1. Parser!Begin(x, n, bytes, TRUE)
    BY <1>1
  <2>2. n \in 1..3 /\ Len(bytes) \in 1..n
    OBVIOUS
  <2> HIDE DEF n
  <2> QED
    BY <2>1, <2>2, BeginReturns
<1>2. CASE Parser!Begin(x, 3, bytes, TRUE)
  <2> DEFINE n == 3
  <2>1. Parser!Begin(x, n, bytes, TRUE)
    BY <1>2
  <2>2. n \in 1..3 /\ Len(bytes) \in 1..n
    OBVIOUS
  <2> HIDE DEF n
  <2> QED
    BY <2>1, <2>2, BeginReturns
<1> QED
  BY <1>1, <1>2

LEMMA PairKept ==
  ASSUME NEW x \in Parser!Message, x.live, NEW bytes \in Seq(Byte), Len(bytes) = 2,
         Parser!Begin(x, 3, bytes, FALSE)
  PROVE  /\ ~fault' /\ ret' = NULL
         /\ asm' \in Parser!Message /\ asm'.data = bytes /\ asm'.cap = 3 /\ asm'.live
<1> DEFINE n == 3
<1>1. Parser!Begin(x, n, bytes, FALSE)
  OBVIOUS
<1>2. n = 3 /\ n \in 1..3 /\ Len(bytes) \in 1..n
  OBVIOUS
<1> HIDE DEF n
<1>3. /\ ~fault' /\ ret' = NULL
      /\ asm' \in Parser!Message /\ asm'.data = bytes /\ asm'.cap = n /\ asm'.live
  BY <1>1, <1>2, BeginKeeps
<1> QED
  BY <1>2, <1>3

\* The byte after the status byte, sent or running.
LEMMA SecondByteTaken ==
  ASSUME status \in Byte, NEW n \in 2..3, Sized(status, n), status < 248, NEW b \in 0..127,
         ~third, asm # NULL => asm \in Parser!Message /\ asm.live,
         Parser!Parse(b, 0)
  PROVE  /\ ~fault'
         /\ status < 240 => status' = status
         /\ n = 2 => /\ ret' \in Parser!Message /\ ret'.data = <<status, b>> /\ asm' = NULL
                     /\ status < 240 => ~third'
         /\ n = 3 => /\ ret' = NULL /\ third' /\ asm' \in Parser!Message /\ asm'.live
                     /\ asm'.cap = 3 /\ asm'.data = <<status, b>>
<1>1. /\ status >= 128 /\ status # 240 /\ status # 247 /\ status # 0
      /\ status \notin 244..246
      /\ n = 2 <=> (status \in 192..223 \/ status = 241 \/ status = 243)
  <2>1. PICK a \in Byte : a = status
    OBVIOUS
  <2>2. Sized(a, n) /\ a < 248
    BY <2>1
  <2>3. /\ a >= 128 /\ a # 240 /\ a # 247 /\ a # 0
        /\ n = 1 <=> a \in 244..246
        /\ n = 2 <=> (a \in 192..223 \/ a = 241 \/ a = 243)
    BY <2>2, StatusFacts
  <2> QED
    BY <2>1, <2>3 DEF Byte
<1>2. b \in Byte /\ b < 248 /\ b < 128
  BY DEF Byte
<1>3. PICK x \in Parser!Message : x.live /\ Parser!ParseData(x, b)
  BY <1>2, ByteParsed
<1>4. ~Parser!ThirdByte(x, b) /\ ~Parser!OrphanByte(x, b) /\ ~Parser!SysexByte(x, b)
  BY <1>1 DEF Parser!ThirdByte, Parser!OrphanByte, Parser!SysexByte, Parser!SysexStart
<1>5. ~Parser!UnsupportedByte(x, b)
  BY <1>1 DEF Parser!UnsupportedByte, Parser!SingleByteCommon, Parser!RealTime, Byte
<1>6. \/ Parser!VoiceByte(x, b)
      \/ Parser!CommonByte(x, b)
  BY <1>3, <1>4, <1>5 DEF Parser!ParseData
<1>7. /\ status < 240 => status \notin {Parser!SongPosition, Parser!TimeCode, Parser!SongSelect}
      /\ status >= 240 => status \notin Parser!ThreeByteVoice \cup Parser!TwoByteVoice
      /\ n = 2 => status # Parser!SongPosition /\ status \notin Parser!ThreeByteVoice
      /\ n = 3 => status \notin {Parser!TimeCode, Parser!SongSelect} \cup Parser!TwoByteVoice
  BY <1>1 DEF Byte, Parser!SongPosition, Parser!TimeCode, Parser!SongSelect,
     Parser!ThreeByteVoice, Parser!TwoByteVoice
<1> DEFINE bytes == <<status, b>>
<1>8. bytes \in Seq(Byte) /\ Len(bytes) = 2
  BY <1>2
<1> HIDE DEF bytes
<1>9. CASE n = 2
  <2>1. n # 3
    BY <1>9
  <2>2. /\ Parser!Begin(x, 2, bytes, TRUE) \/ Parser!Begin(x, 3, bytes, TRUE)
        /\ status < 240 => status' = status /\ third' = third
    BY <1>6, <1>7, <1>9, Zenon DEF Parser!VoiceByte, Parser!CommonByte, bytes
  <2>3. ~fault' /\ ret' \in Parser!Message /\ ret'.data = bytes /\ asm' = NULL
    BY <1>3, <1>8, <2>2, PairReturns
  <2> QED
    BY <1>9, <2>1, <2>2, <2>3, SMT DEF bytes
<1>10. CASE n = 3
  <2>1. n # 2
    BY <1>10
  <2>2. /\ Parser!Begin(x, 3, bytes, FALSE) /\ third'
        /\ status < 240 => status' = status
    BY <1>6, <1>7, <1>10, Zenon DEF Parser!VoiceByte, Parser!CommonByte, bytes
  <2>3. /\ ~fault' /\ ret' = NULL
        /\ asm' \in Parser!Message /\ asm'.data = bytes /\ asm'.cap = 3 /\ asm'.live
    BY <1>3, <1>8, <2>2, PairKept
  <2> QED
    BY <2>1, <2>2, <2>3, Zenon DEF bytes
<1> QED
  BY <1>9, <1>10

\* The third byte.
LEMMA ThirdByteTaken ==
  ASSUME third, asm # NULL, asm \in Parser!Message, asm.live, asm.cap = 3,
         NEW b \in 0..127, Parser!Parse(b, 0)
  PROVE  /\ ~fault' /\ status' = status /\ ~third' /\ asm' = NULL
         /\ ret' \in Parser!Message /\ ret'.data = Append(asm.data, b)
<1>1. b \in Byte /\ b < 248 /\ b < 128
  BY DEF Byte
<1>2. PICK x \in Parser!Message : /\ x.live /\ x.data = asm.data /\ x.cap = asm.cap
                                 /\ Parser!ParseData(x, b)
  BY <1>1, ByteParsed
<1>3. Parser!ThirdByte(x, b)
  BY <1>2, Zenon DEF Parser!ParseData, Parser!OrphanByte, Parser!VoiceByte, Parser!CommonByte,
     Parser!SysexByte, Parser!UnsupportedByte
<1>4. /\ fault' = ~Parser!Fits(x, 2) /\ status' = status /\ ~third' /\ asm' = NULL
      /\ ret' = [x EXCEPT !.data = Append(x.data, b)]
  BY <1>3 DEF Parser!ThirdByte, Parser!Deliver, Parser!Holding
<1>5. Parser!Fits(x, 2)
  BY <1>2 DEF Parser!Fits
<1>6. Append(x.data, b) \in Seq(Parser!Byte)
  BY <1>1 DEF Parser!Message, Parser!Byte, Byte
<1> QED
  BY <1>2, <1>4, <1>5, <1>6 DEF Parser!Message

\* What a byte of a message does: the last one makes the parser return it, whole.
Step(d, i, t) ==
  /\ ~fault'
  /\ i < Len(d) => ret' = NULL /\ Taking(d, i + 1, t)'
  /\ i = Len(d) => ret' # NULL /\ ret'.data = d /\ Between(t)'

\* t is the running status after a message that begins with b, s the one before.
Follows(b, s, t) ==
  /\ b >= 248 => t = s
  /\ b < 240 => t = b
  /\ b \in 240..247 => t = 0

\* Short sequences by their elements.
LEMMA OneByte ==
  ASSUME NEW d \in Seq(Byte), Len(d) = 1
  PROVE  d = <<d[1]>>
<1> DEFINE e == <<d[1]>>
<1>1. e \in Seq(Byte) /\ Len(e) = 1 /\ e[1] = d[1]
  OBVIOUS
<1> HIDE DEF e
<1>2. d = e
  BY <1>1, SeqEqual
<1> QED
  BY <1>2 DEF e

LEMMA TwoBytesAre ==
  ASSUME NEW d \in Seq(Byte), Len(d) = 2
  PROVE  d = <<d[1], d[2]>>
<1> DEFINE e == <<d[1], d[2]>>
<1>1. e \in Seq(Byte) /\ Len(e) = 2 /\ e[1] = d[1] /\ e[2] = d[2]
  OBVIOUS
<1> HIDE DEF e
<1>2. \A i \in 1..2 : d[i] = e[i]
  BY <1>1
<1>3. d = e
  BY <1>1, <1>2, SeqEqual
<1> QED
  BY <1>3 DEF e

LEMMA AppendThird ==
  ASSUME NEW a \in Seq(Byte), NEW c \in Byte
  PROVE  /\ Append(a, c) \in Seq(Byte)
         /\ Len(a) = 2 => /\ Len(Append(a, c)) = 3 /\ Append(a, c)[3] = c
                          /\ Append(a, c)[1] = a[1] /\ Append(a, c)[2] = a[2]
<1> DEFINE e == Append(a, c)
<1>1. /\ e \in Seq(Byte) /\ Len(e) = Len(a) + 1
      /\ \A l \in 1..Len(a) : e[l] = a[l]
      /\ e[Len(a) + 1] = c
  BY AppendProperties
<1> HIDE DEF e
<1>2. Len(a) = 2 => Len(e) = 3 /\ e[3] = c /\ e[1] = a[1] /\ e[2] = a[2]
  BY <1>1
<1> QED
  BY <1>1, <1>2 DEF e

\* The three places a byte can have in a message.
LEMMA FirstByteTaken ==
  ASSUME NEW d \in Seq(Byte), Kind(d), NEW s \in Running, NEW t, Follows(d[1], s, t),
         Between(s), Parser!Parse(d[1], 0)
  PROVE  Step(d, 1, t)
<1>1. PICK n \in 1..3, b \in Byte : n = Len(d) /\ b = d[1] /\ Sized(b, n)
  BY KindFacts
<1>2. asm = NULL /\ (s # 0 => status = s /\ ~third)
  BY DEF Between
<1>3. Parser!Parse(b, 0) /\ Follows(b, s, t)
  BY <1>1
<1>7. Sized(b, n)
  BY <1>1
<1>4. n = 1 => d = <<b>>
  BY <1>1, OneByte
<1>5. CASE b >= 248
  <2>1. b \in 248..255 /\ n = 1
    BY <1>5, <1>7 DEF Byte, Sized
  <2>2. /\ ~fault' /\ status' = status /\ third' = third /\ asm' = NULL
        /\ ret' \in Parser!Message /\ ret'.data = <<b>>
    BY <1>2, <1>3, <2>1, RealTimeByteTaken
  <2>3. t = s
    BY <1>3, <1>5 DEF Follows
  <2>4. Between(t)'
    BY <1>2, <2>2, <2>3 DEF Between
  <2> QED
    BY <1>1, <1>4, <2>1, <2>2, <2>4, MessageStruct DEF Step
<1>6. CASE b < 248
  <2>1. /\ ~fault' /\ status' = b /\ ~third'
        /\ n = 1 => ret' \in Parser!Message /\ ret'.data = <<b>> /\ asm' = NULL
        /\ n # 1 => ret' = NULL /\ asm' \in Parser!Message /\ asm'.live
    BY <1>2, <1>3, <1>6, <1>7, StatusByteTaken, ZenonT(40)
  <2>2. CASE n = 1
    <3>1. b \in 240..247
      BY <1>6, <1>7, <2>2 DEF Sized, Byte
    <3>2. t = 0
      BY <1>3, <3>1 DEF Follows
    <3> QED
      BY <1>1, <1>4, <2>1, <2>2, <3>2, MessageStruct DEF Step, Between
  <2>3. CASE n # 1
    <3>1. Taking(d, 1 + 1, t)'
      BY <1>1, <2>1, <2>3 DEF Taking
    <3>2. 1 < Len(d) /\ 1 # Len(d)
      BY <1>1, <2>3
    <3>3. ~fault' /\ ret' = NULL
      BY <2>1, <2>3
    <3> QED
      BY <3>1, <3>2, <3>3, Zenon DEF Step
  <2> QED
    BY <2>2, <2>3
<1> QED
  BY <1>5, <1>6 DEF Byte

LEMMA NextByteTaken ==
  ASSUME NEW d \in Seq(Byte), Kind(d), Len(d) >= 2, NEW s \in Running, NEW t, Follows(d[1], s, t),
         NEW r, Taking(d, 2, r), Parser!Parse(d[2], 0)
  PROVE  Step(d, 2, t)
<1>1. PICK n \in 1..3, b \in Byte : n = Len(d) /\ b = d[1] /\ Sized(b, n)
  BY KindFacts
<1>2. status = b /\ ~third /\ (asm # NULL => asm \in Parser!Message /\ asm.live)
  BY <1>1 DEF Taking
<1>3. n \in 2..3
  BY <1>1
<1>4. Sized(b, n)
  BY <1>1
<1>5. b < 248
  BY <1>3, <1>4 DEF Sized, Byte
<1>6. PICK c \in 0..127 : c = d[2]
  <2>1. Len(d) = 2 => d[2] \in 0..127
    BY TwoBytes
  <2>2. Len(d) = 3 => d[2] \in 0..127
    BY ThreeBytes
  <2>3. Len(d) = 2 \/ Len(d) = 3
    BY <1>1, <1>3
  <2>4. d[2] \in 0..127
    BY <2>1, <2>2, <2>3
  <2> QED
    BY <2>4
<1>7. status \in Byte /\ Sized(status, n) /\ status < 248 /\ Parser!Parse(c, 0)
  BY <1>2, <1>4, <1>5, <1>6
<1>8. /\ ~fault'
      /\ status < 240 => status' = status
      /\ n = 2 => /\ ret' \in Parser!Message /\ ret'.data = <<status, c>> /\ asm' = NULL
                  /\ status < 240 => ~third'
      /\ n = 3 => /\ ret' = NULL /\ third' /\ asm' \in Parser!Message /\ asm'.live
                  /\ asm'.cap = 3 /\ asm'.data = <<status, c>>
  BY <1>2, <1>3, <1>7, SecondByteTaken
<1>9. CASE n = 2
  <2>1. d = <<b, c>>
    BY <1>1, <1>6, <1>9, TwoBytesAre
  <2>2. ret' # NULL /\ ret'.data = d /\ ~fault'
    BY <1>2, <1>8, <1>9, <2>1, MessageStruct
  <2>3. CASE b < 240
    <3>1. t = b
      BY <1>1, <2>3 DEF Follows
    <3>2. Between(t)'
      BY <1>2, <1>8, <1>9, <2>3, <3>1 DEF Between
    <3> QED
      BY <1>1, <1>9, <2>2, <3>2 DEF Step
  <2>4. CASE b >= 240
    <3>1. b \in 240..247
      BY <1>5, <2>4 DEF Byte
    <3>2. t = 0
      BY <1>1, <3>1 DEF Follows
    <3>3. Between(t)'
      BY <1>8, <1>9, <3>2 DEF Between
    <3> QED
      BY <1>1, <1>9, <2>2, <3>3 DEF Step
  <2> QED
    BY <2>3, <2>4 DEF Byte
<1>10. CASE n = 3
  <2>1. asm' # NULL
    BY <1>8, <1>10, ReceiverAssumption
  <2>2. Len(asm'.data) = 2 /\ asm'.data[1] = d[1] /\ asm'.data[2] = d[2]
    <3>1. asm'.data = <<status, c>>
      BY <1>8, <1>10
    <3>2. status = d[1] /\ c = d[2]
      BY <1>1, <1>2, <1>6
    <3>3. asm'.data = <<d[1], d[2]>>
      BY <3>1, <3>2
    <3> QED
      BY <3>3
  <2>3. d[1] < 240 => status' = d[1]
    BY <1>1, <1>2, <1>8
  <2>4. Taking(d, 2 + 1, t)'
    BY <1>8, <1>10, <2>1, <2>2, <2>3 DEF Taking
  <2> QED
    BY <1>1, <1>8, <1>10, <2>4 DEF Step
<1> QED
  BY <1>3, <1>9, <1>10

LEMMA LastByteTaken ==
  ASSUME NEW d \in Seq(Byte), Kind(d), Len(d) = 3, NEW s \in Running, NEW t, Follows(d[1], s, t),
         NEW r, Taking(d, 3, r), Parser!Parse(d[3], 0)
  PROVE  Step(d, 3, t)
<1>1. PICK n \in 1..3, b \in Byte : n = Len(d) /\ b = d[1] /\ Sized(b, n)
  BY KindFacts
<1>2. /\ third /\ asm # NULL /\ asm \in Parser!Message /\ asm.live /\ asm.cap = 3
      /\ Len(asm.data) = 2 /\ asm.data[1] = d[1] /\ asm.data[2] = d[2]
      /\ d[1] < 240 => status = d[1]
  BY DEF Taking
<1>3. PICK c \in 0..127 : c = d[3]
  BY <1>1, ThreeBytes
<1>4. Parser!Parse(c, 0)
  BY <1>3
<1>5. /\ ~fault' /\ status' = status /\ ~third' /\ asm' = NULL
      /\ ret' \in Parser!Message /\ ret'.data = Append(asm.data, c)
  BY <1>2, <1>4, ThirdByteTaken
<1>6. Append(asm.data, c) = d
  <2>1. asm.data \in Seq(Byte) /\ c \in Byte
    BY <1>2 DEF Parser!Message, Parser!Byte, Byte
  <2> DEFINE e == Append(asm.data, c)
  <2>2. /\ e \in Seq(Byte) /\ Len(e) = 3
        /\ e[1] = d[1] /\ e[2] = d[2] /\ e[3] = d[3]
    BY <1>2, <1>3, <2>1, AppendThird
  <2> HIDE DEF e
  <2>3. \A i \in 1..3 : e[i] = d[i]
    BY <2>2
  <2>4. e = d
    BY <2>2, <2>3, SeqEqual
  <2> QED
    BY <2>4 DEF e
<1>7. Between(t)'
  <2>1. Sized(b, n) /\ n = 3
    BY <1>1
  <2>2. b < 248
    BY <2>1 DEF Sized, Byte
  <2>3. CASE b < 240
    <3>1. t = b /\ status = b
      BY <1>1, <1>2, <2>3 DEF Follows
    <3> QED
      BY <1>5, <3>1 DEF Between
  <2>4. CASE b >= 240
    <3>1. b \in 240..247
      BY <2>2, <2>4 DEF Byte
    <3>2. t = 0
      BY <1>1, <3>1 DEF Follows
    <3> QED
      BY <1>5, <3>2 DEF Between
  <2> QED
    BY <2>3, <2>4 DEF Byte
<1> QED
  BY <1>5, <1>6, <1>7, MessageStruct DEF Step

\* Byte by byte, a message the parser takes comes out of it.
LEMMA ByteTaken ==
  ASSUME NEW d \in Seq(Byte), Kind(d), NEW i \in 1..Len(d),
         NEW s \in Running, NEW t, Follows(d[1], s, t),
         Taking(d, i, s), Parser!Parse(d[i], 0)
  PROVE  Step(d, i, t)
<1>1. PICK n \in 1..3 : n = Len(d)
  BY KindFacts
<1>2. CASE i = 1
  <2>1. Between(s) /\ Parser!Parse(d[1], 0)
    BY <1>2 DEF Taking
  <2> QED
    BY <1>2, <2>1, FirstByteTaken
<1>3. CASE i = 2
  <2>1. Taking(d, 2, s) /\ Parser!Parse(d[2], 0) /\ Len(d) >= 2
    BY <1>1, <1>3
  <2> QED
    BY <1>3, <2>1, NextByteTaken
<1>4. CASE i = 3
  <2>1. Taking(d, 3, s) /\ Parser!Parse(d[3], 0) /\ Len(d) = 3
    BY <1>1, <1>4
  <2> QED
    BY <1>4, <2>1, LastByteTaken
<1> QED
  BY <1>1, <1>2, <1>3, <1>4

------------------------------------------------------------------------------
(* A packet and the messages in it. *)

\* Bytes of m that running status s makes redundant: its status byte or none.
Omitted(m, s) == Len(m.data) - Len(Shortened(m, s))

\* What the encoder writes of a message, and the running status before and after.
LEMMA MessageFacts ==
  ASSUME PlainMessages, NEW m \in Message, NEW s \in Running
  PROVE  /\ m.data \in Seq(Byte) /\ Kind(m.data) /\ Len(m.data) \in 1..3
         /\ Omitted(m, s) \in 0..1
         /\ Omitted(m, s) = 1 => s = m.data[1] /\ s # 0 /\ Len(m.data) >= 2
         /\ s = 0 => Omitted(m, s) = 0
         /\ Len(Shortened(m, s)) = Len(m.data) - Omitted(m, s)
         /\ Len(Shortened(m, s)) >= 1
         /\ \A l \in 1..Len(Shortened(m, s)) : Shortened(m, s)[l] = m.data[l + Omitted(m, s)]
         /\ Follows(m.data[1], s, StatusAfter(m, s))
         /\ StatusAfter(m, s) \in Running
<1>1. m.data \in Seq(Byte) /\ Kind(m.data)
  BY PlainKinds
<1>2. PICK n \in 1..3, b \in Byte : n = Len(m.data) /\ b = m.data[1] /\ Sized(b, n)
  BY <1>1, KindFacts
<1>3. Sized(b, n)
  BY <1>2
<1>4. /\ b = s => n >= 2 /\ s # 0
      /\ b >= 128
  BY <1>3 DEF Sized, Running, Byte
<1>5. Follows(m.data[1], s, StatusAfter(m, s)) /\ StatusAfter(m, s) \in Running
  <2>1. /\ m.data[1] >= 248 => StatusAfter(m, s) = s
        /\ m.data[1] < 240 => StatusAfter(m, s) = m.data[1]
        /\ ~(m.data[1] >= 248) /\ ~(m.data[1] < 240) => StatusAfter(m, s) = 0
    <3>1. m.data[1] \in Byte
      BY <1>2
    <3>2. ~(m.data[1] >= 248 /\ m.data[1] < 240)
      BY <3>1 DEF Byte
    <3> QED
      BY <3>2 DEF StatusAfter
  <2>2. PICK t : t = StatusAfter(m, s)
    OBVIOUS
  <2>3. /\ b >= 248 => t = s
        /\ b < 240 => t = b
        /\ ~(b >= 248) /\ ~(b < 240) => t = 0
    BY <1>2, <2>1, <2>2
  <2>4. Follows(b, s, t) /\ t \in Running
    BY <1>4, <2>3 DEF Follows, Running, Byte
  <2> QED
    BY <1>2, <2>2, <2>4
<1>6. CASE b = s
  <2>1. Shortened(m, s) = Tail(m.data)
    BY <1>2, <1>6 DEF Shortened
  <2>2. m.data # <<>>
    BY <1>1, <1>2
  <2>3. /\ Len(Tail(m.data)) = Len(m.data) - 1
        /\ \A l \in 1..Len(Tail(m.data)) : Tail(m.data)[l] = m.data[l + 1]
    BY <1>1, <2>2, HeadTailProperties
  <2>4. Omitted(m, s) = 1
    BY <1>2, <2>1, <2>3 DEF Omitted
  <2> QED
    BY <1>1, <1>2, <1>4, <1>5, <1>6, <2>1, <2>3, <2>4
<1>7. CASE b # s
  <2>1. Shortened(m, s) = m.data
    BY <1>2, <1>7 DEF Shortened
  <2>2. Omitted(m, s) = 0
    BY <1>2, <2>1 DEF Omitted
  <2>3. \A l \in 1..Len(m.data) : l + 0 = l
    BY <1>2
  <2> QED
    BY <1>1, <1>2, <1>5, <2>1, <2>2, <2>3
<1> QED
  BY <1>6, <1>7

\* The two bytes at the start of a packet hold the first timestamp.
LEMMA FirstTime ==
  ASSUME NEW t \in MidiTime
  PROVE  (Timestamp(t) % 128) + (Header(t) % 64) * 128 = t
<1>1. PICK q \in 0..63, l \in 0..127 : t = 128 * q + l
  <2>1. t \div 128 \in 0..63 /\ t % 128 \in 0..127 /\ t = 128 * (t \div 128) + (t % 128)
    BY SMTT(30) DEF MidiTime
  <2> QED
    BY <2>1, SMTT(30)
<1>2. t % 128 = l /\ t \div 128 = q
  BY <1>1
<1>3. Timestamp(t) = 128 + l /\ Header(t) = 128 + q
  BY <1>2 DEF Timestamp, Header
<1>4. (128 + l) % 128 = l /\ (128 + q) % 64 = q
  OBVIOUS
<1> QED
  BY <1>1, <1>3, <1>4

\* Between i and j, b holds m as it is encoded under running status s; t is the
\* running status after it.
Piece(b, m, i, j, s, t) ==
  /\ i >= 2 /\ j = i + 1 + Len(Shortened(m, s)) /\ j <= Len(b) + 1
  /\ b[i] = Timestamp(m.ts)
  /\ \A l \in 1..Len(Shortened(m, s)) : b[i + l] = Shortened(m, s)[l]
  /\ t = StatusAfter(m, s)

\* The packet b holds the messages ms, number k from p[k] on and under running
\* status r[k].
Laid(b, ms, p, r) ==
  /\ ms # <<>>
  /\ p \in [1..(Len(ms) + 1) -> Nat] /\ r \in [1..(Len(ms) + 1) -> Running]
  /\ p[1] = 2 /\ r[1] = 0 /\ p[Len(ms) + 1] = Len(b) + 1
  /\ b[1] = Header(ms[1].ts)
  /\ \A k \in 1..Len(ms) : Piece(b, ms[k], p[k], p[k + 1], r[k], r[k + 1])

\* a is b with m behind it.
Extended(a, b, m, s) ==
  /\ a \in Seq(Byte) /\ Len(a) = Len(b) + 1 + Len(Shortened(m, s))
  /\ \A i \in 1..Len(b) : a[i] = b[i]
  /\ a[Len(b) + 1] = Timestamp(m.ts)
  /\ \A l \in 1..Len(Shortened(m, s)) : a[Len(b) + 1 + l] = Shortened(m, s)[l]

LEMMA ShortenedBytes ==
  ASSUME PlainMessages, NEW m \in Message, NEW s \in Running
  PROVE  /\ Shortened(m, s) \in Seq(Byte) /\ Len(Shortened(m, s)) \in 1..3
         /\ Timestamp(m.ts) \in Byte /\ Header(m.ts) \in Byte
<1>1. s \in Byte
  BY DEF Running, Byte
<1>2. /\ Shortened(m, s) \in Seq(Byte)
      /\ Timestamp(m.ts) \in Byte /\ Header(m.ts) \in Byte
  BY <1>1, EncodedBytes
<1>3. Len(Shortened(m, s)) \in 1..3
  <2>1. /\ Len(m.data) \in 1..3 /\ Omitted(m, s) \in 0..1
        /\ Len(Shortened(m, s)) = Len(m.data) - Omitted(m, s)
        /\ Len(Shortened(m, s)) >= 1
    BY MessageFacts
  <2>2. PICK n \in 1..3, o \in 0..1 : n = Len(m.data) /\ o = Omitted(m, s)
    BY <2>1
  <2>3. PICK k : k = Len(Shortened(m, s))
    OBVIOUS
  <2>4. k = n - o /\ k >= 1
    BY <2>1, <2>2, <2>3
  <2>5. k \in 1..3
    BY <2>4
  <2> QED
    BY <2>3, <2>5
<1> QED
  BY <1>2, <1>3

LEMMA ExtendedBy ==
  ASSUME NEW b \in Seq(Byte), NEW x \in Byte, NEW c \in Seq(Byte)
  PROVE  LET a == (b \o <<x>>) \o c
         IN  /\ a \in Seq(Byte) /\ Len(a) = Len(b) + 1 + Len(c)
             /\ \A i \in 1..Len(b) : a[i] = b[i]
             /\ a[Len(b) + 1] = x
             /\ \A l \in 1..Len(c) : a[Len(b) + 1 + l] = c[l]
<1> DEFINE h == b \o <<x>>
           a == h \o c
<1>1. PICK n \in Nat : n = Len(b)
  BY LenProperties
<1>2. PICK k \in Nat : k = Len(c)
  BY LenProperties
<1>3. h \in Seq(Byte) /\ Len(h) = n + 1 /\ (\A i \in 1..n : h[i] = b[i]) /\ h[n + 1] = x
  <2>1. h = Append(b, x)
    BY AppendIsConcat
  <2> QED
    BY <1>1, <2>1, AppendProperties
<1> HIDE DEF h
<1>4. /\ a \in Seq(Byte) /\ Len(a) = n + 1 + k
      /\ \A i \in 1..n + 1 + k : a[i] = IF i <= n + 1 THEN h[i] ELSE c[i - (n + 1)]
  <2>1. /\ a \in Seq(Byte) /\ Len(a) = Len(h) + Len(c)
        /\ \A i \in 1..Len(h) + Len(c) : a[i] = IF i <= Len(h) THEN h[i] ELSE c[i - Len(h)]
    BY <1>3, ConcatProperties
  <2> HIDE DEF a
  <2> QED
    BY <1>2, <1>3, <2>1
<1> HIDE DEF a
<1>5. ASSUME NEW i \in 1..n PROVE a[i] = b[i]
  <2>1. i \in 1..n + 1 + k /\ i <= n + 1
    OBVIOUS
  <2> QED
    BY <1>3, <1>4, <2>1
<1>6. a[n + 1] = x
  <2>1. n + 1 \in 1..n + 1 + k /\ n + 1 <= n + 1
    OBVIOUS
  <2> QED
    BY <1>3, <1>4, <2>1
<1>7. ASSUME NEW l \in 1..k PROVE a[n + 1 + l] = c[l]
  <2>1. n + 1 + l \in 1..n + 1 + k /\ ~(n + 1 + l <= n + 1) /\ (n + 1 + l) - (n + 1) = l
    OBVIOUS
  <2> QED
    BY <1>4, <2>1
<1> QED
  BY <1>1, <1>2, <1>4, <1>5, <1>6, <1>7 DEF a, h

LEMMA EncodedExtends ==
  ASSUME PlainMessages, NEW m \in Message, NEW s \in Running, NEW b \in Seq(Byte)
  PROVE  Extended((b \o <<Timestamp(m.ts)>>) \o Shortened(m, s), b, m, s)
<1>1. Shortened(m, s) \in Seq(Byte) /\ Timestamp(m.ts) \in Byte
  BY ShortenedBytes
<1> QED
  BY <1>1, ExtendedBy DEF Extended

\* The message just encoded is in the packet, and those before it still are.
LEMMA NewPiece ==
  ASSUME NEW m \in Message, NEW s \in Running, NEW b \in Seq(Byte), b # <<>>,
         NEW a, Extended(a, b, m, s)
  PROVE  Piece(a, m, Len(b) + 1, Len(a) + 1, s, StatusAfter(m, s))
<1>1. Len(b) \in Nat /\ Len(b) >= 1 /\ Len(a) \in Nat /\ Len(Shortened(m, s)) \in Nat
  OBVIOUS
<1> QED
  BY <1>1 DEF Extended, Piece

LEMMA OldPiece ==
  ASSUME NEW m, NEW i \in Nat, NEW j \in Nat, NEW s, NEW t,
         NEW a \in Seq(Byte), NEW b \in Seq(Byte), Len(a) >= Len(b),
         \A l \in 1..Len(b) : a[l] = b[l],
         Len(Shortened(m, s)) \in Nat,
         Piece(b, m, i, j, s, t)
  PROVE  Piece(a, m, i, j, s, t)
<1> DEFINE c == Shortened(m, s)
<1>1. /\ i >= 2 /\ j = i + 1 + Len(c) /\ j <= Len(b) + 1
      /\ b[i] = Timestamp(m.ts)
      /\ \A l \in 1..Len(c) : b[i + l] = c[l]
      /\ t = StatusAfter(m, s)
  BY DEF Piece
<1>2. Len(b) \in Nat /\ Len(a) \in Nat /\ Len(c) \in Nat
  OBVIOUS
<1> HIDE DEF c
<1>3. i \in 1..Len(b) /\ j <= Len(a) + 1
  BY <1>1, <1>2
<1>4. ASSUME NEW l \in 1..Len(c) PROVE a[i + l] = c[l]
  <2>1. i + l \in 1..Len(b)
    BY <1>1, <1>2
  <2>2. a[i + l] = b[i + l] /\ b[i + l] = c[l]
    BY <1>1, <2>1
  <2> QED
    BY <2>2
<1> QED
  BY <1>1, <1>3, <1>4 DEF Piece, c

\* The packet b holds the messages ms and leaves the encoder with running status s.
Holds(b, ms, s) ==
  \E p \in [1..(Len(ms) + 1) -> Nat], r \in [1..(Len(ms) + 1) -> Running] :
    Laid(b, ms, p, r) /\ r[Len(ms) + 1] = s

\* A packet with its first message, and with one more.
LEMMA HoldsFirst ==
  ASSUME PlainMessages, NEW m \in Message, NEW a,
         NEW b \in Seq(Byte), Len(b) = 1, b[1] = Header(m.ts),
         Extended(a, b, m, 0)
  PROVE  Holds(a, <<m>>, StatusAfter(m, 0))
<1> DEFINE ms == <<m>>
           p == [k \in 1..2 |-> IF k = 1 THEN 2 ELSE Len(a) + 1]
           r == [k \in 1..2 |-> IF k = 1 THEN 0 ELSE StatusAfter(m, 0)]
<1>1. 0 \in Running /\ StatusAfter(m, 0) \in Running
  <2>1. 0 \in Running
    BY DEF Running
  <2> QED
    BY <2>1, MessageFacts
<1>2. Len(ms) = 1 /\ ms[1] = m /\ ms # <<>>
  OBVIOUS
<1>3. a \in Seq(Byte) /\ a[1] = Header(m.ts) /\ Len(a) \in Nat
  BY DEF Extended
<1>4. Piece(a, m, 2, Len(a) + 1, 0, StatusAfter(m, 0))
  <2>1. b # <<>> /\ Len(b) + 1 = 2
    OBVIOUS
  <2> QED
    BY <1>1, <2>1, NewPiece
<1>5. /\ p \in [1..2 -> Nat] /\ p[1] = 2 /\ p[2] = Len(a) + 1
      /\ r \in [1..2 -> Running] /\ r[1] = 0 /\ r[2] = StatusAfter(m, 0)
  BY <1>1, <1>3
<1> HIDE DEF ms, p, r
<1>6. Laid(a, ms, p, r)
  <2>1. ASSUME NEW k \in 1..Len(ms) PROVE Piece(a, ms[k], p[k], p[k + 1], r[k], r[k + 1])
    <3>1. k = 1 /\ k + 1 = 2
      BY <1>2
    <3> QED
      BY <1>2, <1>4, <1>5, <3>1
  <2> QED
    BY <1>2, <1>3, <1>5, <2>1 DEF Laid
<1>7. Holds(a, ms, StatusAfter(m, 0))
  BY <1>2, <1>5, <1>6 DEF Holds
<1> QED
  BY <1>7 DEF ms

LEMMA HoldsNext ==
  ASSUME PlainMessages, NEW m \in Message, NEW a,
         NEW ms \in Messages, NEW b \in Seq(Byte), NEW s \in Running,
         Holds(b, ms, s), Extended(a, b, m, s)
  PROVE  Holds(a, Append(ms, m), StatusAfter(m, s))
<1>1. PICK p \in [1..(Len(ms) + 1) -> Nat], r \in [1..(Len(ms) + 1) -> Running] :
        Laid(b, ms, p, r) /\ r[Len(ms) + 1] = s
  BY DEF Holds
<1>2. PICK n \in Nat : n = Len(ms)
  BY LenProperties DEF Messages
<1>3. /\ ms # <<>> /\ n >= 1
      /\ p \in [1..n + 1 -> Nat] /\ r \in [1..n + 1 -> Running]
      /\ p[1] = 2 /\ r[1] = 0 /\ p[n + 1] = Len(b) + 1
      /\ b[1] = Header(ms[1].ts)
      /\ \A k \in 1..n : Piece(b, ms[k], p[k], p[k + 1], r[k], r[k + 1])
      /\ r[n + 1] = s
  BY <1>1, <1>2 DEF Laid, Messages
<1> DEFINE ns == Append(ms, m)
           q == [k \in 1..n + 2 |-> IF k = n + 2 THEN Len(a) + 1 ELSE p[k]]
           u == [k \in 1..n + 2 |-> IF k = n + 2 THEN StatusAfter(m, s) ELSE r[k]]
<1>4. /\ Len(ns) = n + 1 /\ ns # <<>> /\ ns[n + 1] = m
      /\ \A k \in 1..n : ns[k] = ms[k]
  <2>1. /\ Len(ns) = Len(ms) + 1 /\ ns[Len(ms) + 1] = m /\ ns \in Seq(Message)
        /\ \A k \in 1..Len(ms) : ns[k] = ms[k]
    BY AppendProperties DEF Messages
  <2> HIDE DEF ns
  <2> QED
    BY <1>2, <2>1
<1>5. /\ a \in Seq(Byte) /\ Len(a) \in Nat /\ Len(b) \in Nat /\ Len(b) >= 1
      /\ Len(a) >= Len(b)
      /\ \A l \in 1..Len(b) : a[l] = b[l]
  <2>1. PICK i, j, x, y, z : Piece(b, x, i, j, y, z) /\ i = 2 /\ j \in Nat
    BY <1>3
  <2>2. PICK k \in Nat : k = Len(b)
    BY LenProperties
  <2>3. PICK l \in 1..3 : l = Len(Shortened(m, s))
    BY ShortenedBytes
  <2>4. a \in Seq(Byte) /\ Len(a) = k + 1 + l /\ \A o \in 1..k : a[o] = b[o]
    BY <2>2, <2>3 DEF Extended
  <2>5. k >= 1
    BY <1>3, <2>1, <2>2 DEF Piece
  <2> QED
    BY <2>2, <2>4, <2>5
<1>6. /\ q \in [1..n + 2 -> Nat] /\ u \in [1..n + 2 -> Running]
      /\ \A k \in 1..n + 1 : q[k] = p[k] /\ u[k] = r[k]
      /\ q[n + 2] = Len(a) + 1 /\ u[n + 2] = StatusAfter(m, s)
  BY <1>3, <1>5, MessageFacts, SMTT(30)
<1>7. Piece(a, m, Len(b) + 1, Len(a) + 1, s, StatusAfter(m, s))
  <2>1. b # <<>>
    BY <1>5
  <2> QED
    BY <2>1, NewPiece
<1> HIDE DEF ns, q, u
<1>8. ASSUME NEW k \in 1..n + 1 PROVE Piece(a, ns[k], q[k], q[k + 1], u[k], u[k + 1])
  <2>1. CASE k = n + 1
    <3>1. k + 1 = n + 2
      BY <2>1
    <3> QED
      BY <1>3, <1>4, <1>6, <1>7, <2>1, <3>1
  <2>2. CASE k \in 1..n
    <3>1. k + 1 \in 1..n + 1
      BY <2>2
    <3>2. Piece(b, ms[k], p[k], p[k + 1], r[k], r[k + 1])
      BY <1>3, <2>2
    <3>3. p[k] \in Nat /\ p[k + 1] \in Nat /\ r[k] \in Running /\ ms[k] \in Message
      <4>1. k \in 1..n + 1
        BY <2>2
      <4>2. p[k] \in Nat /\ p[k + 1] \in Nat /\ r[k] \in Running
        BY <1>3, <3>1, <4>1
      <4>3. ms[k] \in Message
        BY <1>2, <2>2 DEF Messages
      <4> QED
        BY <4>2, <4>3
    <3>4. Len(Shortened(ms[k], r[k])) \in Nat
      BY <3>3, ShortenedBytes
    <3>5. Piece(a, ms[k], p[k], p[k + 1], r[k], r[k + 1])
      BY <1>5, <3>2, <3>3, <3>4, OldPiece
    <3> QED
      BY <1>4, <1>6, <2>2, <3>1, <3>5
  <2> QED
    BY <2>1, <2>2
<1>9. Laid(a, ns, q, u)
  <2>1. Len(ns) + 1 = n + 2
    BY <1>4
  <2>2. q[1] = 2 /\ u[1] = 0 /\ ns[1] = ms[1] /\ a[1] = b[1]
    BY <1>3, <1>4, <1>5, <1>6
  <2> QED
    BY <1>3, <1>4, <1>6, <1>8, <2>1, <2>2 DEF Laid
<1>10. Holds(a, ns, StatusAfter(m, s))
  <2>1. Len(ns) + 1 = n + 2
    BY <1>4
  <2> QED
    BY <1>6, <1>9, <2>1 DEF Holds
<1> QED
  BY <1>10 DEF ns

\* The packet being filled.
PacketInv ==
  /\ inside = <<>> => pck = <<>>
  /\ inside # <<>> => Holds(pck, inside, rs)

LEMMA HoldsSome ==
  ASSUME NEW b \in Seq(Byte), NEW ms \in Messages, NEW s, Holds(b, ms, s)
  PROVE  b # <<>> /\ ms # <<>> /\ s \in Running
<1>1. PICK p \in [1..(Len(ms) + 1) -> Nat], r \in [1..(Len(ms) + 1) -> Running] :
        Laid(b, ms, p, r) /\ r[Len(ms) + 1] = s
  BY DEF Holds
<1>2. ms # <<>> /\ Piece(b, ms[1], p[1], p[2], r[1], r[2])
  <2>1. PICK n \in Nat : n = Len(ms)
    BY LenProperties DEF Messages
  <2>2. ms # <<>> /\ \A k \in 1..n : Piece(b, ms[k], p[k], p[k + 1], r[k], r[k + 1])
    BY <1>1, <2>1 DEF Laid
  <2>3. n >= 1
    BY <2>1, <2>2 DEF Messages
  <2> QED
    BY <2>2, <2>3
<1>3. b # <<>>
  <2>1. PICK i, j, x, y, z : Piece(b, x, i, j, y, z) /\ i = 2 /\ p[2] = j /\ j \in Nat
    <3>1. p[1] = 2 /\ p[2] \in Nat
      <4>1. PICK n \in Nat : n = Len(ms)
        BY LenProperties DEF Messages
      <4>2. n >= 1 /\ p \in [1..n + 1 -> Nat]
        BY <1>2, <4>1 DEF Messages
      <4> QED
        BY <1>1, <4>2 DEF Laid
    <3> QED
      BY <1>2, <3>1
  <2>2. PICK k \in Nat : k = Len(b)
    BY LenProperties
  <2>3. j <= k + 1 /\ j = 2 + 1 + Len(Shortened(x, y))
    BY <2>1, <2>2 DEF Piece
  <2> QED
    BY <2>2, <2>3
<1>4. s \in Running
  <2>1. PICK n \in Nat : n = Len(ms)
    BY LenProperties DEF Messages
  <2> QED
    BY <1>1, <2>1
<1> QED
  BY <1>2, <1>3, <1>4

\* Encode in an empty packet and behind other messages.
LEMMA EncodeFirst ==
  ASSUME PlainMessages, NEW m \in Message, NEW r, Encode(m, <<>>, r)
  PROVE  Holds(pck', <<m>>, rs')
<1>1. pck' = (<<Header(m.ts)>> \o <<Timestamp(m.ts)>>) \o Shortened(m, 0)
      /\ rs' = StatusAfter(m, 0)
  BY DEF Encode
<1> DEFINE b == <<Header(m.ts)>>
<1>2. 0 \in Running
  BY DEF Running
<1>3. b \in Seq(Byte) /\ Len(b) = 1 /\ b[1] = Header(m.ts)
  BY <1>2, ShortenedBytes
<1>4. pck' = (b \o <<Timestamp(m.ts)>>) \o Shortened(m, 0)
  BY <1>1
<1> HIDE DEF b
<1>5. Extended((b \o <<Timestamp(m.ts)>>) \o Shortened(m, 0), b, m, 0)
  BY <1>2, <1>3, EncodedExtends
<1>6. PICK a : a = (b \o <<Timestamp(m.ts)>>) \o Shortened(m, 0)
  OBVIOUS
<1>7. Extended(a, b, m, 0)
  BY <1>5, <1>6
<1>8. Holds(a, <<m>>, StatusAfter(m, 0))
  BY <1>3, <1>7, HoldsFirst
<1> QED
  BY <1>1, <1>4, <1>6, <1>8

LEMMA EncodeNext ==
  ASSUME PlainMessages, NEW m \in Message, pck \in Seq(Byte), inside \in Messages,
         Holds(pck, inside, rs), Encode(m, pck, rs)
  PROVE  Holds(pck', Append(inside, m), rs')
<1>1. pck # <<>> /\ rs \in Running
  BY HoldsSome
<1>2. pck' = (pck \o <<Timestamp(m.ts)>>) \o Shortened(m, rs)
      /\ rs' = StatusAfter(m, rs)
  BY <1>1 DEF Encode
<1>3. PICK a : a = (pck \o <<Timestamp(m.ts)>>) \o Shortened(m, rs)
  OBVIOUS
<1>4. Extended(a, pck, m, rs)
  BY <1>1, <1>3, EncodedExtends
<1>5. Holds(a, Append(inside, m), StatusAfter(m, rs))
  BY <1>1, <1>4, HoldsNext
<1> QED
  BY <1>2, <1>3, <1>5

\* A message fits into an empty packet.
LEMMA FullIsNotEmpty ==
  ASSUME PlainMessages, TypeOK, NEW m \in Message, PacketFull(m)
  PROVE  pck # <<>>
<1>1. PICK n \in 1..3 : n = Len(m.data)
  BY PlainKinds DEF Kind
<1>2. mtuSize \in 8..(PckMax + 3) /\ PckMax \in Nat
  BY Sizes DEF TypeOK
<1>3. ASSUME pck = <<>> PROVE FALSE
  <2>1. Len(pck) = 0
    BY <1>3
  <2>2. n + 1 > (mtuSize - 3) - 0
    BY <1>1, <2>1 DEF PacketFull
  <2> QED
    BY <1>2, <2>2
<1> QED
  BY <1>3

\* No step of the out port loses track of what is in the packet it fills.
LEMMA PacketStep ==
  ASSUME PlainMessages, TypeOK, PacketInv, Next
  PROVE  /\ PacketInv'
         /\ out' # out => out'.bytes = pck /\ out'.messages = inside /\ inside # <<>>
<1>1. pck \in Seq(Byte) /\ inside \in Messages
  BY DEF TypeOK
<1>2. CASE EncodeWork /\ fifo # <<>>
  <2> DEFINE m == Head(fifo)
  <2>1. m \in Message
    BY <1>2, HeadTailProperties DEF TypeOK, Messages
  <2>2. \/ PacketFull(m) /\ Notify(pck, inside) /\ Encode(m, <<>>, rs) /\ inside' = <<m>>
        \/ Encode(m, pck, rs) /\ inside' = Append(inside, m) /\ out' = out
    BY <1>2 DEF EncodeWork
  <2> HIDE DEF m
  <2>3. CASE PacketFull(m) /\ Notify(pck, inside) /\ Encode(m, <<>>, rs) /\ inside' = <<m>>
    <3>1. Holds(pck', <<m>>, rs')
      BY <2>1, <2>3, EncodeFirst
    <3>2. pck # <<>>
      BY <2>1, <2>3, FullIsNotEmpty
    <3>3. out'.bytes = pck /\ out'.messages = inside
      BY <2>3 DEF Notify
    <3>4. inside' # <<>>
      BY <2>3
    <3> QED
      BY <2>3, <3>1, <3>2, <3>3, <3>4 DEF PacketInv
  <2>4. CASE Encode(m, pck, rs) /\ inside' = Append(inside, m) /\ out' = out
    <3>1. CASE inside = <<>>
      <4>1. Encode(m, <<>>, rs) /\ Append(inside, m) = <<m>>
        BY <2>4, <3>1 DEF PacketInv
      <4>2. Holds(pck', <<m>>, rs')
        BY <2>1, <4>1, EncodeFirst
      <4> QED
        BY <2>4, <4>1, <4>2 DEF PacketInv
    <3>2. CASE inside # <<>>
      <4>1. Holds(pck', Append(inside, m), rs')
        BY <1>1, <2>1, <2>4, <3>2, EncodeNext DEF PacketInv
      <4>2. Append(inside, m) # <<>>
        BY <1>1, <2>1, AppendProperties DEF Messages
      <4> QED
        BY <2>4, <4>1, <4>2 DEF PacketInv
    <3> QED
      BY <3>1, <3>2
  <2> QED
    BY <2>2, <2>3, <2>4
<1>3. CASE TxWork /\ pck # <<>>
  <2>1. pck' = <<>> /\ inside' = <<>> /\ out'.bytes = pck /\ out'.messages = inside
    BY <1>3 DEF TxWork, Notify
  <2> QED
    BY <1>3, <2>1 DEF PacketInv
<1>4. CASE UNCHANGED <<out, pck, inside, rs>>
  BY <1>4 DEF PacketInv
<1> QED
  <2>1. CASE EncodeWork /\ fifo = <<>>
    BY <1>4, <2>1 DEF EncodeWork, pckVars
  <2>2. CASE TxWork /\ pck = <<>>
    BY <1>4, <2>2 DEF TxWork
  <2>3. CASE RadioNotification \/ Connection
    BY <1>4, <2>3 DEF RadioNotification, Connection, Connected, Disconnected,
       MtuExchanged, Subscribe, ParamUpdated, queueVars, pckVars
  <2>4. CASE Sender
    BY <1>4, <2>4 DEF Sender, SendCheck, SendPut, pckVars
  <2> QED
    BY <1>2, <1>3, <2>1, <2>2, <2>3, <2>4 DEF Next, WorkQueue

------------------------------------------------------------------------------
(* The receiver inside a packet. *)

\* What the application may have received: a message's bytes and a time.
Received == [data : Seq(Byte), ts : Nat]

\* The receiver before byte o of message k of the packet b, its timestamp being byte 0.
At(b, p, r, k, o) ==
  /\ k = Len(got) + 1
  /\ o <= Len(Shortened(carried[k], r[k]))
  /\ rest = SubSeq(b, p[k] + o, Len(b))
  /\ o = 0 => /\ k > 1 /\ nextTs /\ Between(r[k])
              /\ Close(carried) => tsBle = carried[k - 1].ts
  /\ o # 0 => /\ nextTs <=> o # 1
              /\ Taking(carried[k].data, o + Omitted(carried[k], r[k]), r[k])
              /\ Close(carried) => tsBle = carried[k].ts

\* The receiver somewhere in a packet.
Amid ==
  \E b \in Seq(Byte), p \in [1..(Len(carried) + 1) -> Nat],
     r \in [1..(Len(carried) + 1) -> Running], k \in 1..Len(carried), o \in 0..3 :
    Laid(b, carried, p, r) /\ At(b, p, r, k, o)

ReceiverInv ==
  /\ ~fault
  /\ carried \in Messages /\ got \in Seq(Received) /\ tsBle \in Nat
  /\ Len(got) <= Len(carried)
  /\ \A k \in 1..Len(got) : got[k].data = carried[k].data
  /\ Close(carried) => \A k \in 1..Len(got) : got[k].ts = carried[k].ts
  /\ rest = <<>> => asm = NULL /\ Len(got) = Len(carried)
  /\ rest # <<>> => Amid

\* Between two messages the parser is before the first byte sent of the next.
LEMMA Begins ==
  ASSUME PlainMessages, NEW m \in Message, NEW s \in Running, Between(s)
  PROVE  Taking(m.data, 1 + Omitted(m, s), s)
<1>1. PICK o \in 0..1 : o = Omitted(m, s)
  BY MessageFacts
<1>2. o = 1 => s = m.data[1] /\ s # 0
  BY <1>1, MessageFacts
<1>3. asm = NULL /\ (s # 0 => status = s /\ ~third)
  BY DEF Between
<1>4. CASE o = 0
  BY <1>1, <1>4 DEF Taking
<1>5. CASE o = 1
  BY <1>1, <1>2, <1>3, <1>5 DEF Taking
<1> QED
  BY <1>4, <1>5

\* The first byte of the rest of a packet, and what is behind it.
LEMMA Suffix ==
  ASSUME NEW b \in Seq(Byte), NEW i \in 1..Len(b), rest = SubSeq(b, i, Len(b))
  PROVE  /\ rest # <<>> /\ Head(rest) = b[i]
         /\ Tail(rest) = SubSeq(b, i + 1, Len(b))
         /\ i = Len(b) => Tail(rest) = <<>>
         /\ i < Len(b) => Tail(rest) # <<>>
<1>1. PICK n \in Nat : n = Len(b)
  BY LenProperties
<1>2. n \in i..n /\ i \in 1..n
  BY <1>1
<1>3. Head(rest) = b[i] /\ Tail(rest) = SubSeq(b, i + 1, n)
  BY <1>1, <1>2, HeadTailOfSubSeq
<1>4. \A j \in 1..n : b[j] \in Byte
  BY <1>1
<1>5. \A j \in i..n : b[j] \in Byte
  BY <1>2, <1>4
<1>6. rest # <<>>
  <2>1. Len(SubSeq(b, i, n)) = n - i + 1
    BY <1>2, <1>5, SubSeqProperties
  <2>2. PICK x : x = SubSeq(b, i, n)
    OBVIOUS
  <2>3. Len(x) >= 1
    BY <1>2, <2>1, <2>2
  <2>4. x # <<>>
    BY <2>3
  <2> QED
    BY <1>1, <2>2, <2>4
<1>7. i = n => Tail(rest) = <<>>
  <2>1. i = n => SubSeq(b, i + 1, n) = <<>>
    BY SubSeqEmpty
  <2> QED
    BY <1>3, <2>1
<1>8. i < n => Tail(rest) # <<>>
  <2>1. \A j \in (i + 1)..n : b[j] \in Byte
    BY <1>2, <1>4
  <2>2. i < n => Len(SubSeq(b, i + 1, n)) = n - (i + 1) + 1
    BY <1>2, <2>1, SubSeqProperties
  <2>3. PICK x : x = SubSeq(b, i + 1, n)
    OBVIOUS
  <2>4. i < n => Len(x) >= 1
    BY <1>2, <2>2, <2>3
  <2>5. i < n => x # <<>>
    BY <2>4
  <2> QED
    BY <1>3, <2>3, <2>5
<1> QED
  BY <1>1, <1>3, <1>6, <1>7, <1>8

\* Where the bytes of message k are.
LEMMA PieceAt ==
  ASSUME PlainMessages, NEW b \in Seq(Byte), NEW ms \in Messages,
         NEW p \in [1..(Len(ms) + 1) -> Nat], NEW r \in [1..(Len(ms) + 1) -> Running],
         Laid(b, ms, p, r), NEW k \in 1..Len(ms)
  PROVE  LET m == ms[k]
             n == Len(Shortened(m, r[k]))
         IN  /\ m \in Message /\ r[k] \in Running /\ n \in 1..3 /\ p[k] \in Nat
             /\ r[k + 1] = StatusAfter(m, r[k])
             /\ p[k] >= 2 /\ p[k + 1] = p[k] + 1 + n /\ p[k] + n <= Len(b)
             /\ k = Len(ms) => p[k] + n = Len(b)
             /\ k < Len(ms) => p[k] + n < Len(b)
             /\ b[p[k]] = Timestamp(m.ts)
             /\ \A l \in 1..n : b[p[k] + l] = Shortened(m, r[k])[l]
<1>1. PICK w \in Nat : w = Len(ms)
  BY LenProperties DEF Messages
<1>2. k \in 1..w /\ k \in 1..w + 1 /\ k + 1 \in 1..w + 1
  BY <1>1
<1>3. /\ p \in [1..w + 1 -> Nat] /\ r \in [1..w + 1 -> Running] /\ p[w + 1] = Len(b) + 1
      /\ \A l \in 1..w : Piece(b, ms[l], p[l], p[l + 1], r[l], r[l + 1])
  BY <1>1 DEF Laid
<1>4. ms[k] \in Message
  BY <1>1 DEF Messages
<1>5. p[k] \in Nat /\ p[k + 1] \in Nat /\ r[k] \in Running
  BY <1>2, <1>3
<1>6. PICK n \in 1..3 : n = Len(Shortened(ms[k], r[k]))
  BY <1>4, <1>5, ShortenedBytes
<1>7. Piece(b, ms[k], p[k], p[k + 1], r[k], r[k + 1])
  BY <1>2, <1>3
<1>8. /\ p[k] >= 2 /\ p[k + 1] = p[k] + 1 + n /\ p[k + 1] <= Len(b) + 1
      /\ b[p[k]] = Timestamp(ms[k].ts)
      /\ \A l \in 1..n : b[p[k] + l] = Shortened(ms[k], r[k])[l]
      /\ r[k + 1] = StatusAfter(ms[k], r[k])
  BY <1>6, <1>7 DEF Piece
<1>9. PICK v \in Nat : v = Len(b)
  BY LenProperties
<1>10. p[k] + n <= v
  BY <1>5, <1>8, <1>9, SMTT(30)
<1>11. k = w => p[k] + n = v
  BY <1>3, <1>5, <1>8, <1>9, SMTT(30)
<1>12. ASSUME k < w PROVE p[k] + n < v
  <2>1. k + 1 \in 1..w /\ k + 2 \in 1..w + 1
    BY <1>2, <1>12
  <2>2. Piece(b, ms[k + 1], p[k + 1], p[(k + 1) + 1], r[k + 1], r[(k + 1) + 1])
    BY <1>3, <2>1
  <2>3. ms[k + 1] \in Message /\ r[k + 1] \in Running
    BY <1>1, <1>3, <2>1 DEF Messages
  <2>4. PICK l \in 1..3 : l = Len(Shortened(ms[k + 1], r[k + 1]))
    BY <2>3, ShortenedBytes
  <2>5. p[k + 1] + 1 + l <= v + 1
    BY <1>9, <2>2, <2>4 DEF Piece
  <2>6. p[k + 1] = p[k] + 1 + n
    BY <1>8
  <2>7. PICK e \in Nat, f \in Nat : e = p[k] /\ f = p[k + 1]
    BY <1>5
  <2>8. f = e + 1 + n /\ f + 1 + l <= v + 1
    BY <2>5, <2>6, <2>7
  <2>9. e + n < v
    BY <2>8
  <2> QED
    BY <2>7, <2>9
<1> QED
  BY <1>1, <1>4, <1>5, <1>6, <1>8, <1>9, <1>10, <1>11, <1>12

\* A place in a packet, with the bounds of the variables that name it.
Place(b, p, r, k, o) ==
  /\ b \in Seq(Byte)
  /\ p \in [1..(Len(carried) + 1) -> Nat]
  /\ r \in [1..(Len(carried) + 1) -> Running]
  /\ k \in 1..Len(carried) /\ o \in 0..3
  /\ Laid(b, carried, p, r)
  /\ At(b, p, r, k, o)

\* What is left of the packet at a place in its message m, encoded under running
\* status s in n bytes.
Ahead(b, p, k, o, m, s, n) ==
  /\ m \in Message /\ s \in Running /\ n \in 1..3 /\ o \in 0..n /\ p[k] \in Nat
  /\ rest # <<>>
  /\ Tail(rest) = SubSeq(b, p[k] + (o + 1), Len(b))
  /\ o < n => Tail(rest) # <<>>
  /\ o = n => /\ k = Len(carried) <=> Tail(rest) = <<>>
              /\ p[k + 1] = p[k] + (o + 1)
  /\ o = 0 => Head(rest) = Timestamp(m.ts)
  /\ o # 0 => Head(rest) = m.data[o + Omitted(m, s)]

\* Where the receiver is in a packet says which byte comes next.
LEMMA NextBytes ==
  ASSUME PlainMessages, carried \in Messages,
         NEW b, NEW p, NEW r, NEW k, NEW o, Place(b, p, r, k, o)
  PROVE  Ahead(b, p, k, o, carried[k], r[k], Len(Shortened(carried[k], r[k])))
<1> USE DEF Place
<1>1. PICK m, s, n : m = carried[k] /\ s = r[k] /\ n = Len(Shortened(m, s))
  OBVIOUS
<1>2. /\ m \in Message /\ s \in Running /\ n \in 1..3 /\ p[k] \in Nat
      /\ p[k] >= 2 /\ p[k + 1] = p[k] + 1 + n /\ p[k] + n <= Len(b)
      /\ k = Len(carried) => p[k] + n = Len(b)
      /\ k < Len(carried) => p[k] + n < Len(b)
      /\ b[p[k]] = Timestamp(m.ts)
      /\ \A l \in 1..n : b[p[k] + l] = Shortened(m, s)[l]
  <2>1. /\ b \in Seq(Byte) /\ k \in 1..Len(carried) /\ Laid(b, carried, p, r)
        /\ p \in [1..(Len(carried) + 1) -> Nat] /\ r \in [1..(Len(carried) + 1) -> Running]
    OBVIOUS
  <2> QED
    BY <1>1, <2>1, PieceAt, ZenonT(60)
<1>3. o \in 0..n /\ rest = SubSeq(b, p[k] + o, Len(b))
  <2>1. /\ o <= Len(Shortened(carried[k], r[k])) /\ o \in 0..3
        /\ rest = SubSeq(b, p[k] + o, Len(b))
    BY DEF At
  <2>2. n = Len(Shortened(carried[k], r[k])) /\ n \in 1..3
    BY <1>1, <1>2
  <2>3. o <= n
    BY <2>1, <2>2
  <2>4. o \in 0..n
    BY <2>1, <2>2, <2>3
  <2> QED
    BY <2>1, <2>4
<1>4. PICK e \in Nat, v \in Nat : e = p[k] /\ v = Len(b)
  BY <1>2, LenProperties
<1>5. e >= 2 /\ e + n <= v
  BY <1>2, <1>4
<1>6. PICK i \in 1..v : i = e + o
  BY <1>2, <1>3, <1>5
<1>7. /\ rest # <<>> /\ Head(rest) = b[i]
      /\ Tail(rest) = SubSeq(b, i + 1, Len(b))
      /\ i = v => Tail(rest) = <<>>
      /\ i < v => Tail(rest) # <<>>
  <2>1. i \in 1..Len(b) /\ rest = SubSeq(b, i, Len(b))
    BY <1>3, <1>4, <1>6
  <2>2. /\ rest # <<>> /\ Head(rest) = b[i]
        /\ Tail(rest) = SubSeq(b, i + 1, Len(b))
        /\ i = Len(b) => Tail(rest) = <<>>
        /\ i < Len(b) => Tail(rest) # <<>>
    BY <2>1, Suffix
  <2> QED
    BY <1>4, <2>2
<1>8. i + 1 = p[k] + (o + 1)
  BY <1>2, <1>3, <1>4, <1>6
<1>9. o < n => Tail(rest) # <<>>
  <2>1. o < n => i < v
    <3>1. n \in 1..3 /\ o \in 0..n
      BY <1>2, <1>3
    <3> QED
      BY <1>5, <1>6, <3>1
  <2> QED
    BY <1>7, <2>1
<1>10. o = n => /\ k = Len(carried) <=> Tail(rest) = <<>>
                /\ p[k + 1] = p[k] + (o + 1)
  <2>1. PICK w \in Nat : w = Len(carried) /\ k \in 1..w
    BY LenProperties DEF Messages
  <2>2. (k = w => e + n = v) /\ (k < w => e + n < v)
    BY <1>2, <1>4, <2>1
  <2>3. o = n => (k = w => i = v) /\ (k # w => i < v)
    BY <1>2, <1>6, <2>1, <2>2
  <2>4. o = n => (k = w <=> Tail(rest) = <<>>)
    BY <1>7, <2>3
  <2>5. o = n => p[k + 1] = p[k] + (o + 1)
    <3>1. n \in 1..3 /\ o \in 0..n
      BY <1>2, <1>3
    <3>2. p[k + 1] = (e + 1) + n /\ p[k] = e
      BY <1>2, <1>4
    <3>3. o = n => (e + 1) + n = e + (o + 1)
      BY <3>1
    <3> QED
      BY <3>2, <3>3
  <2> QED
    BY <2>1, <2>4, <2>5
<1>11. o = 0 => Head(rest) = Timestamp(m.ts)
  <2>1. o = 0 => i = p[k]
    BY <1>4, <1>6
  <2> QED
    BY <1>2, <1>7, <2>1
<1>12. o # 0 => Head(rest) = m.data[o + Omitted(m, s)]
  <2>1. o # 0 => o \in 1..n /\ i = p[k] + o
    BY <1>3, <1>4, <1>6
  <2>2. o # 0 => Head(rest) = Shortened(m, s)[o]
    BY <1>2, <1>7, <2>1
  <2>3. \A l \in 1..n : Shortened(m, s)[l] = m.data[l + Omitted(m, s)]
    BY <1>1, <1>2, MessageFacts
  <2> QED
    BY <2>1, <2>2, <2>3
<1>13. Ahead(b, p, k, o, m, s, n)
  BY <1>2, <1>3, <1>7, <1>8, <1>9, <1>10, <1>11, <1>12 DEF Ahead
<1> QED
  BY <1>1, <1>13

\* Bytes of a message after its first have the high bit clear.
LEMMA LowBytes ==
  ASSUME PlainMessages, NEW m \in Message, NEW s \in Running,
         NEW o \in 2..Len(Shortened(m, s))
  PROVE  m.data[o + Omitted(m, s)] \in 0..127
<1>1. PICK n \in 1..3, x \in 0..1 : n = Len(m.data) /\ x = Omitted(m, s)
  BY MessageFacts
<1>2. o \in 2..(n - x)
  BY <1>1, MessageFacts
<1>3. Kind(m.data)
  BY MessageFacts
<1>4. PICK i \in 2..n : i = o + x
  BY <1>2
<1>5. m.data[i] \in 0..127
  <2>1. n = 2 => m.data[2] \in 0..127
    BY <1>1, <1>3, TwoBytes
  <2>2. n = 3 => m.data[2] \in 0..127 /\ m.data[3] \in 0..127
    BY <1>1, <1>3, ThreeBytes
  <2>3. (n = 2 /\ i = 2) \/ (n = 3 /\ i = 2) \/ (n = 3 /\ i = 3)
    BY <1>4
  <2> QED
    BY <2>1, <2>2, <2>3
<1> QED
  BY <1>1, <1>4, <1>5

------------------------------------------------------------------------------
(* Steps of the receiver. *)

\* In the middle of a packet there is such a place.
LEMMA AmidIs ==
  ASSUME ReceiverInv, rest # <<>>
  PROVE  \E b, p, r, k, o : Place(b, p, r, k, o)
BY DEF ReceiverInv, Amid, Place

\* A step that leaves the packet alone and moves to another place in it.
LEMMA PlaceNext ==
  ASSUME carried' = carried, NEW b, NEW p, NEW r, NEW k, NEW o, Place(b, p, r, k, o),
         NEW l \in 1..Len(carried), NEW i \in 0..3, At(b, p, r, l, i)'
  PROVE  Amid'
BY DEF Amid, Place

\* Times of two messages, less than 128 ms apart.
MessageTimes(x, y) == x.ts \in MidiTime /\ y.ts \in MidiTime /\ y.ts - x.ts \in 0..127

\* Messages next to each other in a packet.
LEMMA Neighbours ==
  ASSUME NEW ms \in Messages, Close(ms), NEW k \in 2..Len(ms)
  PROVE  MessageTimes(ms[k - 1], ms[k])
<1>1. PICK w \in Nat : w = Len(ms)
  BY LenProperties DEF Messages
<1>2. k \in 1..w /\ k - 1 \in 1..w /\ k - 1 \in 1..(w - 1) /\ (k - 1) + 1 = k
  BY <1>1
<1>3. ms[k] \in Message /\ ms[k - 1] \in Message
  BY <1>1, <1>2 DEF Messages
<1>4. ms[(k - 1) + 1].ts - ms[k - 1].ts \in 0..127
  BY <1>1, <1>2 DEF Close
<1>5. ms[k].ts - ms[k - 1].ts \in 0..127
  BY <1>2, <1>4
<1>6. ms[k].ts \in MidiTime /\ ms[k - 1].ts \in MidiTime
  BY <1>3, MessageBytes, Zenon
<1> QED
  BY <1>5, <1>6 DEF MessageTimes

\* The time read from low bits l when the time before was t.
ReadAfter(t, l) ==
  LET high == IF l < t % 128 THEN t + 128 ELSE t
  IN  l + ((high \div 128) % 64) * 128

\* The low bits are enough when the last timestamp was less than 128 ms earlier.
LEMMA ReadTime ==
  ASSUME NEW t \in MidiTime, NEW u \in MidiTime, u - t \in 0..127
  PROVE  ReadAfter(t, u % 128) = u
<1>1. PICK q \in 0..63, l \in 0..127 : t = 128 * q + l
  <2>1. t \div 128 \in 0..63 /\ t % 128 \in 0..127 /\ t = 128 * (t \div 128) + (t % 128)
    BY SMTT(30) DEF MidiTime
  <2> QED
    BY <2>1, SMTT(30)
<1>2. PICK v \in 0..63, h \in 0..127 : u = 128 * v + h
  <2>1. u \div 128 \in 0..63 /\ u % 128 \in 0..127 /\ u = 128 * (u \div 128) + (u % 128)
    BY SMTT(30) DEF MidiTime
  <2> QED
    BY <2>1, SMTT(30)
<1>3. t % 128 = l /\ u % 128 = h
  BY <1>1, <1>2, SMTT(30)
<1>4. h < l => (t + 128) \div 128 = v
  BY <1>1, <1>2, SMTT(30)
<1>5. ~(h < l) => t \div 128 = v
  BY <1>1, <1>2, SMTT(30)
<1>6. v % 64 = v
  OBVIOUS
<1> QED
  BY <1>2, <1>3, <1>4, <1>5, <1>6 DEF ReadAfter

\* What the receiver reads from a timestamp byte.
LEMMA LowBits ==
  ASSUME NEW t \in MidiTime
  PROVE  Timestamp(t) % 128 = t % 128
<1>1. PICK l \in 0..127 : l = t % 128
  <2>1. t % 128 \in 0..127
    BY SMTT(30) DEF MidiTime
  <2> QED
    BY <2>1
<1>2. Timestamp(t) = 128 + l
  BY <1>1 DEF Timestamp
<1>3. (128 + l) % 128 = l
  OBVIOUS
<1> QED
  BY <1>1, <1>2, <1>3

LEMMA TimeReadAfter ==
  ASSUME TimestampByte
  PROVE  tsBle' = ReadAfter(tsBle, Head(rest) % 128)
BY DEF TimestampByte, ReadAfter

LEMMA TimeType ==
  ASSUME tsBle \in Nat, TimestampByte, Head(rest) \in Byte
  PROVE  tsBle' \in Nat
<1>1. PICK b \in 0..255 : b = Head(rest)
  BY DEF Byte
<1>2. PICK high \in Nat : high = IF b % 128 < tsBle % 128 THEN tsBle + 128 ELSE tsBle
  OBVIOUS
<1>3. tsBle' = (b % 128) + ((high \div 128) % 64) * 128
  BY <1>1, <1>2 DEF TimestampByte
<1> QED
  BY <1>2, <1>3

LEMMA TimeRead ==
  ASSUME NEW x, NEW y, MessageTimes(x, y), tsBle = x.ts, TimestampByte,
         Head(rest) = Timestamp(y.ts)
  PROVE  tsBle' = y.ts
<1>1. x.ts \in MidiTime /\ y.ts \in MidiTime /\ y.ts - x.ts \in 0..127
  BY DEF MessageTimes
<1>2. Head(rest) % 128 = y.ts % 128
  BY <1>1, LowBits, Zenon
<1>3. ReadAfter(x.ts, y.ts % 128) = y.ts
  BY <1>1, ReadTime, Zenon
<1> QED
  BY <1>2, <1>3, TimeReadAfter, Zenon

\* The receiver after a timestamp byte.
LEMMA TimestampStep ==
  ASSUME PlainMessages, ReceiverInv, rest # <<>>, TimestampByte
  PROVE  ReceiverInv'
<1>1. PICK b, p, r, k, o : Place(b, p, r, k, o)
  BY AmidIs
<1>2. carried \in Messages /\ got \in Seq(Received) /\ tsBle \in Nat /\ ~fault
  BY DEF ReceiverInv
<1>3. PICK m, s, n : m = carried[k] /\ s = r[k] /\ n = Len(Shortened(m, s))
  OBVIOUS
<1>4. /\ m \in Message /\ s \in Running /\ n \in 1..3 /\ o \in 0..n
      /\ Tail(rest) = SubSeq(b, p[k] + (o + 1), Len(b))
      /\ o < n => Tail(rest) # <<>>
      /\ o = 0 => Head(rest) = Timestamp(m.ts)
      /\ o # 0 => Head(rest) = m.data[o + Omitted(m, s)]
  <2>1. Ahead(b, p, k, o, m, s, n)
    BY <1>1, <1>2, <1>3, NextBytes
  <2> QED
    BY <2>1 DEF Ahead
<1>5. /\ Head(rest) >= 128 /\ nextTs /\ ~nextTs'
      /\ rest' = Tail(rest)
      /\ carried' = carried /\ got' = got
      /\ asm' = asm /\ status' = status /\ third' = third /\ fault' = fault
  BY DEF TimestampByte, parserState
<1>6. At(b, p, r, k, o) /\ k \in 1..Len(carried)
  BY <1>1 DEF Place
<1>7. o = 0
  <2>1. ASSUME o # 0 PROVE FALSE
    <3>1. o # 1
      BY <1>5, <1>6, <2>1 DEF At
    <3>2. o \in 2..Len(Shortened(m, s))
      BY <1>3, <1>4, <2>1, <3>1
    <3>3. m.data[o + Omitted(m, s)] \in 0..127
      BY <1>4, <3>2, LowBytes
    <3>4. Head(rest) \in 0..127
      BY <1>4, <2>1, <3>3
    <3>5. PICK x \in 0..127 : x = Head(rest)
      BY <3>4
    <3>6. x >= 128
      BY <1>5, <3>5
    <3> QED
      BY <3>6
  <2> QED
    BY <2>1
<1>8. /\ k = Len(got) + 1 /\ k > 1 /\ Between(s)
      /\ Close(carried) => tsBle = carried[k - 1].ts
  BY <1>3, <1>6, <1>7 DEF At
<1>9. Taking(m.data, 1 + Omitted(m, s), s)'
  <2>1. Taking(m.data, 1 + Omitted(m, s), s)
    BY <1>4, <1>8, Begins
  <2> QED
    BY <1>5, <2>1 DEF Taking, Between
<1>10. tsBle' \in Nat /\ (Close(carried) => tsBle' = carried[k].ts)
  <2>1. Head(rest) = Timestamp(carried[k].ts)
    BY <1>3, <1>4, <1>7
  <2>2. k \in 2..Len(carried)
    <3>1. PICK w \in Nat : w = Len(carried)
      BY <1>2, LenProperties DEF Messages
    <3> QED
      BY <1>6, <1>8, <3>1
  <2>3. tsBle' \in Nat
    <3>1. Timestamp(m.ts) \in Byte
      BY <1>4, ShortenedBytes, Zenon
    <3>2. Head(rest) \in Byte
      BY <1>4, <1>7, <3>1
    <3> QED
      BY <1>2, <3>2, TimeType
  <2>4. ASSUME Close(carried) PROVE tsBle' = carried[k].ts
    <3>1. MessageTimes(carried[k - 1], carried[k])
      BY <1>2, <2>2, <2>4, Neighbours, Zenon
    <3>2. tsBle = carried[k - 1].ts
      BY <1>8, <2>4
    <3> QED
      BY <2>1, <3>1, <3>2, TimeRead, Zenon
  <2> QED
    BY <2>3, <2>4
<1>11. At(b, p, r, k, 1)'
  <2>1. rest' = SubSeq(b, p[k] + 1, Len(b))
    <3>1. o + 1 = 1
      BY <1>7
    <3> QED
      BY <1>4, <1>5, <3>1
  <2>2. 1 <= Len(Shortened(carried[k], r[k]))
    <3>1. n \in 1..3 /\ n = Len(Shortened(carried[k], r[k]))
      BY <1>3, <1>4
    <3> QED
      BY <3>1, SMTT(30)
  <2>3. Taking(carried[k].data, 1 + Omitted(carried[k], r[k]), r[k])'
    BY <1>3, <1>5, <1>9
  <2>4. Close(carried)' => tsBle' = carried'[k].ts
    BY <1>5, <1>10 DEF Close
  <2>5. /\ k = Len(got') + 1
        /\ 1 <= Len(Shortened(carried'[k], r[k]))
        /\ rest' = SubSeq(b, p[k] + 1, Len(b))
        /\ nextTs' <=> 1 # 1
    BY <1>5, <1>8, <2>1, <2>2
  <2> QED
    BY <2>3, <2>4, <2>5 DEF At
<1>12. rest' # <<>> /\ Amid'
  <2>1. 1 \in 0..3
    OBVIOUS
  <2>2. Amid'
    BY <1>1, <1>5, <1>6, <1>11, <2>1, PlaceNext
  <2>3. o < n
    BY <1>4, <1>7
  <2> QED
    BY <1>4, <1>5, <2>2, <2>3
<1> QED
  BY <1>2, <1>5, <1>10, <1>12 DEF ReceiverInv, Close

\* A timestamp byte has its high bit set.
LEMMA TimestampHigh ==
  ASSUME NEW t \in MidiTime
  PROVE  Timestamp(t) >= 128
<1>1. PICK l \in 0..127 : l = t % 128
  <2>1. t % 128 \in 0..127
    BY SMTT(30) DEF MidiTime
  <2> QED
    BY <2>1
<1>2. Timestamp(t) = 128 + l
  BY <1>1 DEF Timestamp
<1> QED
  BY <1>2

\* What the parser makes of the byte at a place in a packet.
Taken(m, s, o, n) ==
  /\ ~fault'
  /\ o < n => ret' = NULL /\ Taking(m.data, (o + 1) + Omitted(m, s), s)'
  /\ o = n => ret' # NULL /\ ret'.data = m.data /\ Between(StatusAfter(m, s))'

\* After the first byte what the parser holds does not depend on the running
\* status the message was encoded under.
LEMMA TakingLater ==
  ASSUME NEW d, NEW s, NEW t, NEW i \in Int, i # 1, Taking(d, i, t)'
  PROVE  Taking(d, i, s)'
BY DEF Taking

\* The parser makes that of every byte the encoder left in.
LEMMA MessageByteTaken ==
  ASSUME PlainMessages, NEW m \in Message, NEW s \in Running,
         NEW o, o \in 1..Len(Shortened(m, s)),
         Taking(m.data, o + Omitted(m, s), s), MessageByte,
         Head(rest) = m.data[o + Omitted(m, s)]
  PROVE  Taken(m, s, o, Len(Shortened(m, s)))
<1>1. PICK n \in 1..3, x \in 0..1 : n = Len(m.data) /\ x = Omitted(m, s)
  BY MessageFacts
<1>2. PICK q \in 1..3 : q = Len(Shortened(m, s)) /\ q = n - x
  <2>1. PICK q : q = Len(Shortened(m, s))
    OBVIOUS
  <2>2. Len(Shortened(m, s)) = Len(m.data) - Omitted(m, s) /\ Len(Shortened(m, s)) >= 1
    BY MessageFacts
  <2>3. q = n - x /\ q >= 1
    BY <1>1, <2>1, <2>2
  <2>4. q \in 1..3
    BY <2>3
  <2> QED
    BY <2>1, <2>3, <2>4
<1>3. o \in 1..q
  BY <1>2
<1>4. PICK i \in 1..n : i = o + x
  BY <1>2, <1>3
<1>5. i \in 1..Len(m.data) /\ i = o + Omitted(m, s)
  BY <1>1, <1>4
<1>6. Taking(m.data, i, s)
  BY <1>5
<1>7. Parser!Parse(m.data[i], 0)
  <2>1. Parser!Parse(Head(rest), 0)
    BY Zenon DEF MessageByte
  <2> QED
    BY <1>5, <2>1
<1>8. /\ m.data \in Seq(Byte) /\ Kind(m.data)
      /\ Follows(m.data[1], s, StatusAfter(m, s))
  BY MessageFacts
<1>9. Step(m.data, i, StatusAfter(m, s))
  BY <1>5, <1>6, <1>7, <1>8, ByteTaken, Zenon
<1>10. ASSUME o < q
       PROVE  ret' = NULL /\ Taking(m.data, (o + 1) + Omitted(m, s), s)'
  <2>1. i < n /\ i + 1 # 1 /\ i + 1 \in Int
    BY <1>2, <1>3, <1>4, <1>10
  <2>2. ret' = NULL /\ Taking(m.data, i + 1, StatusAfter(m, s))'
    BY <1>1, <1>9, <2>1 DEF Step
  <2>3. Taking(m.data, i + 1, s)'
    BY <2>1, <2>2, TakingLater, Zenon
  <2>4. i + 1 = (o + 1) + x
    BY <1>3, <1>4
  <2>5. i + 1 = (o + 1) + Omitted(m, s)
    BY <1>1, <2>4
  <2> QED
    BY <2>2, <2>3, <2>5, Zenon
<1>11. ASSUME o = q
       PROVE  ret' # NULL /\ ret'.data = m.data /\ Between(StatusAfter(m, s))'
  <2>1. i = n
    BY <1>2, <1>4, <1>11
  <2> QED
    BY <1>1, <1>9, <2>1 DEF Step
<1> QED
  BY <1>2, <1>9, <1>10, <1>11, Zenon DEF Taken, Step

\* The receiver after the byte at a place in a packet has gone to the parser.
LEMMA MessageStep ==
  ASSUME PlainMessages, ReceiverInv, rest # <<>>, MessageByte
  PROVE  ReceiverInv'
<1>1. PICK b, p, r, k, o : Place(b, p, r, k, o)
  BY AmidIs
<1>2. carried \in Messages /\ got \in Seq(Received) /\ tsBle \in Nat /\ ~fault
  BY DEF ReceiverInv
<1>3. PICK m, s, n : m = carried[k] /\ s = r[k] /\ n = Len(Shortened(m, s))
  OBVIOUS
<1>4. Ahead(b, p, k, o, m, s, n)
  BY <1>1, <1>2, <1>3, NextBytes
<1>5. m \in Message /\ s \in Running /\ n \in 1..3 /\ o \in 0..n /\ p[k] \in Nat
  BY <1>4 DEF Ahead
<1>6. /\ Tail(rest) = SubSeq(b, p[k] + (o + 1), Len(b))
      /\ o < n => Tail(rest) # <<>>
      /\ o = n => k = Len(carried) <=> Tail(rest) = <<>>
      /\ o = n => p[k + 1] = p[k] + (o + 1)
      /\ o = 0 => Head(rest) = Timestamp(m.ts)
      /\ o # 0 => Head(rest) = m.data[o + Omitted(m, s)]
  BY <1>4 DEF Ahead
<1>7. /\ ~(Head(rest) >= 128 /\ nextTs) /\ nextTs'
      /\ rest' = Tail(rest)
      /\ carried' = carried /\ tsBle' = tsBle
      /\ ret' = NULL => got' = got
      /\ ret' # NULL => got' = Append(got, [data |-> ret'.data, ts |-> tsBle])
  BY Zenon DEF MessageByte
<1>8. At(b, p, r, k, o) /\ k \in 1..Len(carried)
  BY <1>1 DEF Place
<1>9. o # 0
  <2>1. ASSUME o = 0 PROVE FALSE
    <3>1. nextTs
      BY <1>8, <2>1 DEF At
    <3>2. m.ts \in MidiTime
      BY <1>5, MessageBytes, Zenon
    <3>3. Timestamp(m.ts) >= 128
      BY <3>2, TimestampHigh, Zenon
    <3>4. Head(rest) >= 128
      BY <1>6, <2>1, <3>3
    <3> QED
      BY <1>7, <3>1, <3>4
  <2> QED
    BY <2>1
<1>10. k = Len(got) + 1
  BY <1>8 DEF At
<1>11. /\ Taking(m.data, o + Omitted(m, s), s)
       /\ Close(carried) => tsBle = m.ts
  BY <1>3, <1>8, <1>9 DEF At
<1>12. o \in 1..n
  BY <1>5, <1>9
<1>13. Taken(m, s, o, n)
  <2>1. o \in 1..Len(Shortened(m, s)) /\ Head(rest) = m.data[o + Omitted(m, s)]
    BY <1>3, <1>6, <1>9, <1>12
  <2>2. Taken(m, s, o, Len(Shortened(m, s)))
    BY <1>5, <1>11, <2>1, MessageByteTaken, Zenon
  <2> QED
    BY <1>3, <2>2
<1>14. CASE o < n
  <2>1. ret' = NULL /\ Taking(m.data, (o + 1) + Omitted(m, s), s)'
    BY <1>13, <1>14 DEF Taken
  <2>2. At(b, p, r, k, o + 1)'
    <3>1. o + 1 # 0 /\ o + 1 # 1 /\ o + 1 <= n
      BY <1>12, <1>14, <1>5
    <3>2. k = Len(got') + 1 /\ rest' = SubSeq(b, p[k] + (o + 1), Len(b))
      BY <1>6, <1>7, <1>10, <2>1
    <3>3. o + 1 <= Len(Shortened(carried'[k], r[k]))
      BY <1>3, <1>7, <3>1
    <3>4. Taking(carried[k].data, (o + 1) + Omitted(carried[k], r[k]), r[k])'
      BY <1>3, <1>7, <2>1
    <3>5. Close(carried)' => tsBle' = carried'[k].ts
      BY <1>3, <1>7, <1>11 DEF Close
    <3> QED
      BY <1>7, <3>1, <3>2, <3>3, <3>4, <3>5 DEF At
  <2>3. Amid'
    <3>1. o + 1 \in 0..3
      BY <1>5, <1>12, <1>14
    <3> QED
      BY <1>1, <1>7, <1>8, <2>2, <3>1, PlaceNext
  <2>4. rest' # <<>> /\ got' = got /\ ~fault'
    BY <1>6, <1>7, <1>13, <1>14, <2>1 DEF Taken
  <2> QED
    BY <1>2, <1>7, <2>3, <2>4 DEF ReceiverInv, Close
<1>15. CASE o = n
  <2>1. ret' # NULL /\ ret'.data = m.data /\ Between(StatusAfter(m, s))' /\ ~fault'
    BY <1>13, <1>15 DEF Taken
  <2> DEFINE e == [data |-> m.data, ts |-> tsBle]
  <2>2. got' = Append(got, e)
    BY <1>7, <2>1
  <2>3. e \in Received
    BY <1>2, <1>5, MessageBytes DEF Received
  <2>4. e.data = carried[k].data /\ (Close(carried) => e.ts = carried[k].ts)
    BY <1>3, <1>11
  <2> HIDE DEF e
  <2>5. PICK w \in Nat, g \in Nat : w = Len(carried) /\ g = Len(got)
    BY <1>2, LenProperties DEF Messages
  <2>6. k = g + 1 /\ k \in 1..w
    BY <1>8, <1>10, <2>5
  <2>7. /\ got' \in Seq(Received) /\ Len(got') = g + 1
        /\ got'[g + 1] = e
        /\ \A j \in 1..g : got'[j] = got[j]
    BY <1>2, <2>2, <2>3, <2>5, AppendProperties
  <2>8. /\ Len(got') <= Len(carried')
        /\ \A j \in 1..Len(got') : got'[j].data = carried'[j].data
        /\ Close(carried)' => \A j \in 1..Len(got') : got'[j].ts = carried'[j].ts
    <3>1. /\ \A j \in 1..g : got[j].data = carried[j].data
          /\ Close(carried) => \A j \in 1..g : got[j].ts = carried[j].ts
      BY <2>5 DEF ReceiverInv
    <3>2. \A j \in 1..g + 1 : j \in 1..g \/ j = k
      BY <2>6
    <3>3. \A j \in 1..g + 1 : got'[j].data = carried[j].data
      BY <2>4, <2>6, <2>7, <3>1, <3>2
    <3>4. Close(carried) => \A j \in 1..g + 1 : got'[j].ts = carried[j].ts
      BY <2>4, <2>6, <2>7, <3>1, <3>2
    <3>5. g + 1 <= Len(carried)
      BY <2>5, <2>6
    <3> QED
      BY <1>7, <2>7, <3>3, <3>4, <3>5 DEF Close
  <2>9. rest' = <<>> => asm' = NULL /\ Len(got') = Len(carried')
    <3>1. asm' = NULL
      BY <2>1 DEF Between
    <3>2. rest' = <<>> => k = w
      BY <1>6, <1>7, <1>15, <2>5
    <3> QED
      BY <1>7, <2>5, <2>6, <2>7, <3>1, <3>2
  <2>10. rest' # <<>> => Amid'
    <3>1. SUFFICES ASSUME rest' # <<>> PROVE Amid'
      OBVIOUS
    <3>2. k # w
      BY <1>6, <1>7, <1>15, <2>5, <3>1
    <3>3. k + 1 \in 1..Len(carried) /\ 0 \in 0..3
      BY <2>5, <2>6, <3>2
    <3>4. r[k + 1] = StatusAfter(m, s)
      BY <1>1, <1>2, <1>3, PieceAt DEF Place
    <3>5. At(b, p, r, k + 1, 0)'
      <4>1. k + 1 = Len(got') + 1 /\ k + 1 > 1
        BY <2>6, <2>7
      <4>2. 0 <= Len(Shortened(carried'[k + 1], r[k + 1]))
        <5>1. Len(Shortened(carried[k + 1], r[k + 1])) \in 1..3
          BY <1>1, <1>2, <3>3, PieceAt DEF Place
        <5> QED
          BY <1>7, <5>1
      <4>3. rest' = SubSeq(b, p[k + 1] + 0, Len(b))
        <5>1. p[k + 1] + 0 = p[k] + (o + 1)
          BY <1>5, <1>6, <1>15
        <5> QED
          BY <1>6, <1>7, <5>1
      <4>4. Between(r[k + 1])'
        BY <2>1, <3>4
      <4>5. Close(carried)' => tsBle' = carried'[(k + 1) - 1].ts
        <5>1. (k + 1) - 1 = k
          BY <2>6
        <5> QED
          BY <1>3, <1>7, <1>11, <5>1 DEF Close
      <4> QED
        BY <1>7, <4>1, <4>2, <4>3, <4>4, <4>5 DEF At
    <3> QED
      BY <1>1, <1>7, <3>3, <3>5, PlaceNext
  <2> QED
    BY <1>2, <1>7, <2>1, <2>7, <2>8, <2>9, <2>10 DEF ReceiverInv
<1> QED
  BY <1>5, <1>14, <1>15

------------------------------------------------------------------------------
(* Sender and receiver together. *)

\* The time in the first two bytes of a packet.
LEMMA FirstTimeRead ==
  ASSUME NEW m \in Message, NEW b, b[1] = Header(m.ts), b[2] = Timestamp(m.ts)
  PROVE  (b[2] % 128) + (b[1] % 64) * 128 = m.ts
<1>1. m.ts \in MidiTime
  BY MessageBytes, Zenon
<1>2. (Timestamp(m.ts) % 128) + (Header(m.ts) % 64) * 128 = m.ts
  BY <1>1, FirstTime, Zenon
<1> QED
  BY <1>2

\* A packet has arrived.
LEMMA ArrivesStep ==
  ASSUME PlainMessages, ReceiverInv, rest = <<>>,
         NEW packet, packet.bytes \in Seq(Byte), packet.messages \in Messages,
         NEW t, Holds(packet.bytes, packet.messages, t), Arrives(packet)
  PROVE  ReceiverInv'
<1>1. PICK b \in Seq(Byte), ms \in Messages : b = packet.bytes /\ ms = packet.messages
  OBVIOUS
<1>2. /\ rest' = SubSeq(b, 3, Len(b)) /\ carried' = ms /\ got' = <<>> /\ ~nextTs'
      /\ tsBle' = (b[2] % 128) + (b[1] % 64) * 128
      /\ asm' = asm /\ fault' = fault /\ ret' = ret /\ status' = status /\ third' = third
  BY <1>1 DEF Arrives, parserState
<1>3. asm = NULL /\ ~fault
  BY DEF ReceiverInv
<1>4. PICK p \in [1..(Len(ms) + 1) -> Nat], r \in [1..(Len(ms) + 1) -> Running] :
        Laid(b, ms, p, r)
  <2>1. Holds(b, ms, t)
    BY <1>1
  <2> QED
    BY <2>1, Zenon DEF Holds
<1>5. PICK w \in Nat : w = Len(ms) /\ w >= 1
  <2>1. PICK w \in Nat : w = Len(ms)
    BY LenProperties DEF Messages
  <2>2. ms # <<>>
    BY <1>4 DEF Laid
  <2>3. w >= 1
    BY <2>1, <2>2 DEF Messages
  <2> QED
    BY <2>1, <2>3
<1>6. 1 \in 1..Len(ms)
  BY <1>5
<1>7. /\ ms[1] \in Message /\ Len(Shortened(ms[1], r[1])) \in 1..3 /\ p[1] + 1 <= Len(b)
      /\ b[p[1]] = Timestamp(ms[1].ts)
  <2>1. /\ ms[1] \in Message /\ Len(Shortened(ms[1], r[1])) \in 1..3 /\ p[1] \in Nat
        /\ p[1] + Len(Shortened(ms[1], r[1])) <= Len(b)
        /\ b[p[1]] = Timestamp(ms[1].ts)
    BY <1>4, <1>6, PieceAt, ZenonT(60)
  <2>2. PICK n \in 1..3, e \in Nat, v \in Nat :
          n = Len(Shortened(ms[1], r[1])) /\ e = p[1] /\ v = Len(b)
    BY <2>1, LenProperties
  <2>3. e + 1 <= v
    <3>1. e + n <= v
      BY <2>1, <2>2
    <3> QED
      BY <3>1
  <2> QED
    BY <2>1, <2>2, <2>3
<1>8. p[1] = 2 /\ r[1] = 0 /\ b[1] = Header(ms[1].ts)
  BY <1>4 DEF Laid
<1>9. tsBle' = ms[1].ts /\ tsBle' \in Nat
  <2>1. tsBle' = ms[1].ts
    BY <1>2, <1>7, <1>8, FirstTimeRead
  <2>2. ms[1].ts \in MidiTime
    BY <1>7, MessageBytes, Zenon
  <2>3. \A x \in MidiTime : x \in Nat
    BY DEF MidiTime
  <2> QED
    BY <2>1, <2>2, <2>3, Zenon
<1>10. rest' # <<>>
  <2>1. PICK v \in Nat : v = Len(b)
    BY LenProperties
  <2>2. v >= 3
    BY <1>7, <1>8, <2>1
  <2>3. \A j \in 3..v : b[j] \in Byte
    BY <2>1
  <2>4. Len(SubSeq(b, 3, v)) = v - 3 + 1
    BY <2>2, <2>3, SubSeqProperties
  <2>5. PICK x : x = SubSeq(b, 3, v)
    OBVIOUS
  <2>6. Len(x) >= 1
    BY <2>2, <2>4, <2>5
  <2>7. x # <<>>
    BY <2>6
  <2> QED
    BY <1>2, <2>1, <2>5, <2>7
<1>11. At(b, p, r, 1, 1)'
  <2>1. 1 = Len(got') + 1
    BY <1>2
  <2>2. 1 <= Len(Shortened(ms[1], r[1]))
    <3>1. PICK n \in 1..3 : n = Len(Shortened(ms[1], r[1]))
      BY <1>7
    <3>2. 1 <= n
      OBVIOUS
    <3> QED
      BY <3>1, <3>2
  <2>3. rest' = SubSeq(b, p[1] + 1, Len(b))
    <3>1. p[1] + 1 = 3
      BY <1>8
    <3> QED
      BY <1>2, <3>1
  <2>4. Taking(ms[1].data, 1 + Omitted(ms[1], r[1]), r[1])'
    <3>1. Between(r[1]) /\ r[1] \in Running
      BY <1>3, <1>8 DEF Between, Running
    <3>2. Taking(ms[1].data, 1 + Omitted(ms[1], r[1]), r[1])
      BY <1>7, <3>1, Begins
    <3> QED
      BY <1>2, <3>2 DEF Taking, Between
  <2>5. 1 # 0 /\ (nextTs' <=> 1 # 1)
    BY <1>2
  <2> QED
    BY <1>2, <1>9, <2>1, <2>2, <2>3, <2>4, <2>5 DEF At
<1>12. Amid'
  <2>1. 1 \in 1..Len(carried') /\ 1 \in 0..3 /\ Laid(b, carried', p, r)
    BY <1>2, <1>4, <1>6
  <2> QED
    BY <1>2, <1>4, <1>11, <2>1 DEF Amid
<1>13. /\ got' \in Seq(Received) /\ Len(got') <= Len(carried')
       /\ \A k \in 1..Len(got') : FALSE
  BY <1>2, <1>5
<1> QED
  BY <1>2, <1>3, <1>9, <1>10, <1>12, <1>13 DEF ReceiverInv

\* Nothing of the receiver changes.
LEMMA ReceiverIdle ==
  ASSUME ReceiverInv, UNCHANGED receiverVars
  PROVE  ReceiverInv'
<1>1. /\ rest' = rest /\ nextTs' = nextTs /\ tsBle' = tsBle /\ carried' = carried
      /\ got' = got /\ asm' = asm /\ status' = status /\ third' = third
      /\ ret' = ret /\ fault' = fault
  BY DEF receiverVars, parserState
<1>2. ASSUME Amid PROVE Amid'
  <2>1. PICK b \in Seq(Byte), p \in [1..(Len(carried) + 1) -> Nat],
             r \in [1..(Len(carried) + 1) -> Running], k \in 1..Len(carried), o \in 0..3 :
          Laid(b, carried, p, r) /\ At(b, p, r, k, o)
    BY <1>2 DEF Amid
  <2>2. /\ \A s : Between(s)' <=> Between(s)
        /\ \A d, i, s : Taking(d, i, s)' <=> Taking(d, i, s)
    BY <1>1 DEF Between, Taking
  <2>3. At(b, p, r, k, o)'
    BY <1>1, <2>1, <2>2 DEF At, Close
  <2> QED
    BY <1>1, <2>1, <2>3 DEF Amid
<1>3. Close(carried)' <=> Close(carried)
  BY <1>1 DEF Close
<1> QED
  BY <1>1, <1>2, <1>3 DEF ReceiverInv

\* What sender, packet and receiver have in common after every step.
LinkInv == TypeOK /\ PacketInv /\ ReceiverInv

LEMMA PacketIdle ==
  ASSUME PacketInv, UNCHANGED bleVars
  PROVE  PacketInv'
BY DEF PacketInv, bleVars, pckVars

\* One lemma per process, and the step of the system.
LEMMA SenderKeeps ==
  ASSUME PlainMessages, LinkInv, SenderStep
  PROVE  LinkInv'
<1>1. rest = <<>> /\ Next /\ TypeOK /\ PacketInv /\ ReceiverInv
  BY DEF SenderStep, LinkInv
<1>2. TypeOK'
  BY <1>1, TypeStep
<1>3. /\ PacketInv'
      /\ out' # out => out'.bytes = pck /\ out'.messages = inside /\ inside # <<>>
  BY <1>1, PacketStep
<1>4. CASE out' # out /\ out'.taken
  <2>1. Arrives(out')
    BY <1>4, Zenon DEF SenderStep
  <2>2. /\ out'.bytes \in Seq(Byte) /\ out'.messages \in Messages
        /\ Holds(out'.bytes, out'.messages, rs)
    BY <1>1, <1>3, <1>4 DEF TypeOK, PacketInv
  <2>3. ReceiverInv'
    <3>1. PICK packet : packet = out'
      OBVIOUS
    <3> QED
      BY <1>1, <2>1, <2>2, <3>1, ArrivesStep
  <2> QED
    BY <1>2, <1>3, <2>3 DEF LinkInv
<1>5. CASE ~(out' # out /\ out'.taken)
  <2>1. UNCHANGED receiverVars
    BY <1>5, Zenon DEF SenderStep
  <2>2. ReceiverInv'
    BY <1>1, <2>1, ReceiverIdle
  <2> QED
    BY <1>2, <1>3, <2>2 DEF LinkInv
<1> QED
  BY <1>4, <1>5

\* The receiver leaves the sender alone.
LEMMA ReceiverKeeps ==
  ASSUME PlainMessages, LinkInv, ReceiverStep
  PROVE  LinkInv'
<1>1. TypeOK /\ PacketInv /\ ReceiverInv
  BY DEF LinkInv
<1>2. rest # <<>> /\ (TimestampByte \/ MessageByte) /\ UNCHANGED bleVars
  BY DEF ReceiverStep, TimestampByte, MessageByte
<1>3. TypeOK'
  BY <1>1, <1>2, TypeStep
<1>4. PacketInv'
  BY <1>1, <1>2, PacketIdle
<1>5. ReceiverInv'
  BY <1>1, <1>2, TimestampStep, MessageStep
<1> QED
  BY <1>3, <1>4, <1>5 DEF LinkInv

LEMMA LinkInvStep ==
  ASSUME PlainMessages, LinkInv, [LinkNext]_linkVars
  PROVE  LinkInv'
<1>1. CASE UNCHANGED linkVars
  <2>1. UNCHANGED bleVars /\ UNCHANGED receiverVars
    BY <1>1 DEF linkVars
  <2>2. TypeOK'
    BY <2>1, TypeStep DEF LinkInv
  <2> QED
    BY <2>1, <2>2, PacketIdle, ReceiverIdle DEF LinkInv
<1> QED
  BY <1>1, SenderKeeps, ReceiverKeeps DEF LinkNext

\* The invariant holds at the start.
LEMMA LinkInvInit == LinkInit => LinkInv
<1> SUFFICES ASSUME LinkInit PROVE LinkInv
  OBVIOUS
<1>1. TypeOK
  BY TypeInit DEF LinkInit
<1>2. PacketInv
  BY DEF LinkInit, Init, PacketInv
<1>3. ReceiverInv
  <2>1. /\ rest = <<>> /\ carried = <<>> /\ got = <<>> /\ tsBle = 0
        /\ asm = NULL /\ fault = FALSE
    BY DEF LinkInit
  <2>2. <<>> \in Messages /\ <<>> \in Seq(Received) /\ Len(<<>>) = 0
    BY DEF Messages
  <2> QED
    BY <2>1, <2>2 DEF ReceiverInv
<1> QED
  BY <1>1, <1>2, <1>3 DEF LinkInv

\* MessagesComeThrough: whatever the sizes, the bytes bt_receive_cb takes out of a
\* packet make parse_serial_byte return the messages ble_midi_encode_work_handler
\* put in, and the parser stays inside its memory.
THEOREM ReceivedAsSent ==
  ASSUME PlainMessages
  PROVE  LinkSpec => []MessagesComeThrough
<1>1. LinkInv /\ [LinkNext]_linkVars => LinkInv'
  BY LinkInvStep
<1>2. LinkInv => MessagesComeThrough
  <2> SUFFICES ASSUME LinkInv PROVE MessagesComeThrough
    OBVIOUS
  <2>1. DOMAIN got = 1..Len(got)
    BY DEF LinkInv, ReceiverInv
  <2> QED
    BY <2>1 DEF LinkInv, ReceiverInv, MessagesComeThrough
<1> QED
  BY LinkInvInit, <1>1, <1>2, PTL DEF LinkSpec

\* TimestampsComeThrough: bt_receive_cb finds the full 13 bits of every timestamp
\* if the messages of a packet are less than 128 ms apart.
THEOREM TimesAsSent ==
  ASSUME PlainMessages
  PROVE  LinkSpec => []TimestampsComeThrough
<1>1. LinkInv /\ [LinkNext]_linkVars => LinkInv'
  BY LinkInvStep
<1>2. LinkInv => TimestampsComeThrough
  <2> SUFFICES ASSUME LinkInv PROVE TimestampsComeThrough
    OBVIOUS
  <2>1. DOMAIN got = 1..Len(got)
    BY DEF LinkInv, ReceiverInv
  <2> QED
    BY <2>1 DEF LinkInv, ReceiverInv, TimestampsComeThrough
<1> QED
  BY LinkInvInit, <1>1, <1>2, PTL DEF LinkSpec
=============================================================================
