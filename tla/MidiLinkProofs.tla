--------------------------- MODULE MidiLinkProofs ---------------------------
(***************************************************************************)
(* The parser alone, for streams of arbitrary bytes; then, for every set   *)
(* of outgoing messages and every limit on system exclusive: what the      *)
(* transmitter sends is what the parser returns, and the parser stays      *)
(* inside its memory.                                                      *)
(***************************************************************************)
EXTENDS MidiLink, SequenceTheorems, TLAPS

-----------------------------------------------------------------------------
(* The parser *)

LEMMA SysexMaxIsNat == SysexMax \in Nat /\ SysexMax > 1
BY ParserAssumption

\* The struct a byte is parsed into is a message, and not older than the
\* one the parser held.
LEMMA CurrentType ==
  ASSUME TypeOK, NEW t \in 0..MaxTime
  PROVE  /\ Current(t) \in Message
         /\ Current(t).ts = t \/ (msg # NULL /\ Current(t).ts = msg.ts)
         /\ msg # NULL => /\ Current(t).data = msg.data
                          /\ Current(t).cap = msg.cap
                          /\ Current(t).live = msg.live
         /\ msg = NULL => Current(t) = Fresh(t)
<1>1. t \in 0..MaxTime
  OBVIOUS
<1>2. CASE msg = NULL
  BY <1>1, <1>2 DEF Current, Fresh, Message
<1>3. CASE msg # NULL
  <2>1. msg \in Message
    BY <1>3 DEF TypeOK
  <2> QED
    BY <1>1, <1>3, <2>1 DEF Current, Message
<1>4. QED
  BY <1>2, <1>3

-----------------------------------------------------------------------------
\* A call of parse_serial_byte ends by keeping or delivering a message that has
\* the timestamp of the one it started with.
Outcome(m) ==
  /\ \E x \in Message : x.ts = m.ts /\ (Keep(x) \/ Deliver(x))
  /\ fault' \in BOOLEAN

LEMMA BeginOutcome ==
  ASSUME NEW m \in Message, NEW n \in Nat, NEW bytes \in Seq(Byte),
         NEW deliver \in BOOLEAN, Begin(m, n, bytes, deliver)
  PROVE  Outcome(m)
<1>1. PICK ok \in DataBlocks :
        LET begun == Holding(Resized(m, n, ok), bytes)
        IN  /\ fault' = ~Fits(Resized(m, n, ok), Len(bytes) - 1)
            /\ IF deliver THEN Deliver(begun) ELSE Keep(begun)
  BY DEF Begin
<1> DEFINE x == Holding(Resized(m, n, ok), bytes)
<1>2. x \in Message /\ x.ts = m.ts
  BY DEF Holding, Resized, Message
<1>3. Keep(x) \/ Deliver(x)
  BY <1>1
<1>4. fault' \in BOOLEAN
  BY <1>1
<1>5. QED
  BY <1>2, <1>3, <1>4 DEF Outcome

LEMMA ExtendOutcome ==
  ASSUME NEW m \in Message, NEW b \in Byte, NEW deliver \in BOOLEAN,
         Extend(m, b, deliver)
  PROVE  Outcome(m)
<1> DEFINE x == Holding(m, Append(m.data, b))
<1>1. x \in Message /\ x.ts = m.ts
  BY DEF Holding, Message
<1>2. fault' \in BOOLEAN /\ (Keep(x) \/ Deliver(x))
  BY DEF Extend
<1>3. QED
  BY <1>1, <1>2 DEF Outcome

LEMMA IgnoreOutcome ==
  ASSUME NEW m \in Message, Ignore(m)
  PROVE  Outcome(m)
BY DEF Ignore, Outcome

LEMMA StatusOutcome ==
  ASSUME NEW m \in Message, NEW b \in StatusByte, ParseStatus(m, b)
  PROVE  Outcome(m) /\ rs' \in {0} \cup StatusByte /\ third' \in BOOLEAN
<1>1. b \in Byte /\ <<b>> \in Seq(Byte)
  BY DEF Byte, StatusByte
<1>2. third' \in BOOLEAN /\ rs' \in {0} \cup StatusByte
  BY DEF ParseStatus
<1>3. CASE Extend(m, b, TRUE)
  BY <1>1, <1>2, <1>3, ExtendOutcome
<1>4. CASE Begin(m, 1, <<b>>, TRUE)
  BY <1>1, <1>2, <1>4, BeginOutcome
<1>5. CASE Begin(m, SysexMax, <<b>>, FALSE)
  BY <1>1, <1>2, <1>5, BeginOutcome, SysexMaxIsNat
<1>6. CASE Ignore(m)
  BY <1>2, <1>6, IgnoreOutcome
<1>7. QED
  BY <1>3, <1>4, <1>5, <1>6 DEF ParseStatus

LEMMA DataOutcome ==
  ASSUME NEW m \in Message, NEW b \in DataByte, ParseData(m, b),
         rs \in {0} \cup StatusByte, third \in BOOLEAN
  PROVE  Outcome(m) /\ rs' \in {0} \cup StatusByte /\ third' \in BOOLEAN
<1>1. b \in Byte
  BY DEF Byte, DataByte
<1>2. ASSUME rs \in StatusByte
      PROVE  <<rs, b>> \in Seq(Byte)
  BY <1>1, <1>2 DEF Byte, StatusByte
<1>3. CASE ThirdByte(m, b)
  <2> DEFINE x == Holding(m, Append(m.data, b))
  <2>1. x \in Message /\ x.ts = m.ts
    BY <1>1 DEF Holding, Message
  <2>2. Deliver(x) /\ fault' \in BOOLEAN /\ third' = FALSE /\ rs' = rs
    BY <1>3 DEF ThirdByte
  <2> QED
    BY <2>1, <2>2 DEF Outcome
<1>4. CASE OrphanByte(m, b)
  BY <1>4, IgnoreOutcome DEF OrphanByte
<1>5. CASE VoiceByte(m, b)
  <2>1. rs \in StatusByte
    <3>1. rs \in ThreeByteVoice \/ rs \in TwoByteVoice
      BY <1>5 DEF VoiceByte
    <3> QED
      BY <3>1 DEF ThreeByteVoice, TwoByteVoice, StatusByte
  <2>2. Begin(m, 3, <<rs, b>>, FALSE) \/ Begin(m, 2, <<rs, b>>, TRUE)
    BY <1>5 DEF VoiceByte
  <2>3. third' \in BOOLEAN /\ rs' = rs
    BY <1>5 DEF VoiceByte
  <2> QED
    BY <1>2, <2>1, <2>2, <2>3, BeginOutcome
<1>6. CASE CommonByte(m, b)
  <2>1. rs \in StatusByte
    <3>1. rs \in {SongPosition, TimeCode, SongSelect}
      BY <1>6 DEF CommonByte
    <3> QED
      BY <3>1 DEF SongPosition, TimeCode, SongSelect, StatusByte
  <2>2. Begin(m, 3, <<rs, b>>, FALSE) \/ Begin(m, 3, <<rs, b>>, TRUE)
    BY <1>6 DEF CommonByte
  <2>3. third' \in BOOLEAN /\ rs' = 0
    BY <1>6 DEF CommonByte
  <2> QED
    BY <1>2, <2>1, <2>2, <2>3, BeginOutcome
<1>7. CASE SysexByte(m, b)
  <2>1. rs' \in {0} \cup StatusByte /\ third' = third
    BY <1>7 DEF SysexByte
  <2>2. CASE Keep(Freed(m)) /\ fault' = ~m.live
    <3>1. Freed(m) \in Message /\ Freed(m).ts = m.ts
      BY DEF Freed, Message
    <3> QED
      BY <2>1, <2>2, <3>1 DEF Outcome
  <2>3. CASE Extend(m, b, FALSE)
    BY <1>1, <2>1, <2>3, ExtendOutcome
  <2> QED
    BY <1>7, <2>2, <2>3 DEF SysexByte
<1>8. CASE UnsupportedByte(m, b)
  BY <1>8, IgnoreOutcome DEF UnsupportedByte
<1>9. QED
  BY <1>3, <1>4, <1>5, <1>6, <1>7, <1>8 DEF ParseData

-----------------------------------------------------------------------------
\* A call of midi_parse_serial leaves typed values and keeps the order of the
\* timestamps.
TimeInv == TypeOK /\ TimestampsInOrder

\* What NeverBackInTime says of a step.
InTime == \/ SinceLast(last'.round, last'.ts)
          \/ WrapInterrupts(last'.round)

\* The timestamp of the message a byte belongs to, and when it was set.
LEMMA CurrentInTime ==
  ASSUME TimeInv, NEW r \in round..MaxRound, NEW t \in 0..MaxTime,
         r = round => t >= now
  PROVE  /\ SinceLast(r, t)
         /\ msg = NULL \/ msg.ts = 0 => Current(t).ts = t
         /\ ~(msg = NULL \/ msg.ts = 0) =>
              /\ Current(t).ts = msg.ts
              /\ msgRound < r \/ (msgRound = r /\ msg.ts <= t)
              /\ SinceLast(msgRound, msg.ts) \/ WrapInterrupts(msgRound)
<1>1. /\ round \in 0..MaxRound /\ now \in 0..MaxTime /\ msgRound \in 0..MaxRound
      /\ last \in [round : 0..MaxRound, ts : 0..MaxTime, realTime : BOOLEAN]
      /\ MaxRound \in Nat /\ MaxTime \in Nat
  BY ParserAssumption DEF TimeInv, TypeOK
<1>2. last.round \in 0..MaxRound /\ last.ts \in 0..MaxTime
  BY <1>1
<1>3. SinceLast(r, t)
  BY <1>1, <1>2 DEF TimeInv, TimestampsInOrder, SinceLast
<1>4. msg # NULL => msg \in Message
  BY DEF TimeInv, TypeOK
<1>5. msg = NULL \/ msg.ts = 0 => Current(t).ts = t
  BY <1>4 DEF Current, Fresh, Message
<1>6. ASSUME ~(msg = NULL \/ msg.ts = 0)
      PROVE  /\ Current(t).ts = msg.ts
             /\ msgRound < r \/ (msgRound = r /\ msg.ts <= t)
             /\ SinceLast(msgRound, msg.ts) \/ WrapInterrupts(msgRound)
  <2>1. msg.ts \in 0..MaxTime
    BY <1>4, <1>6 DEF Message
  <2>2. msgRound < round \/ (msgRound = round /\ msg.ts <= now)
    BY <1>6 DEF TimeInv, TimestampsInOrder
  <2>3. msgRound < r \/ (msgRound = r /\ msg.ts <= t)
    BY <1>1, <2>1, <2>2
  <2>4. SinceLast(msgRound, msg.ts) \/ WrapInterrupts(msgRound)
    BY <1>6 DEF TimeInv, TimestampsInOrder
  <2> QED
    BY <1>6, <2>3, <2>4 DEF Current
<1>7. QED
  BY <1>3, <1>5, <1>6

\* A byte that is part of a message: h is when that message's timestamp was set.
LEMMA AssemblyInTime ==
  ASSUME TimeInv, NEW r \in 0..MaxRound, NEW t \in 0..MaxTime,
         round' = r, now' = t,
         NEW m \in Message, Outcome(m),
         rs' \in {0} \cup StatusByte, third' \in BOOLEAN,
         NEW h \in 0..MaxRound, msgRound' = h,
         SinceLast(r, t),
         h < r \/ (h = r /\ m.ts <= t),
         SinceLast(h, m.ts) \/ WrapInterrupts(h),
         ret' = NULL => last' = last,
         ret' # NULL => last' = [round |-> h, ts |-> ret'.ts, realTime |-> FALSE]
  PROVE  TimeInv' /\ InTime
<1>1. PICK x \in Message : x.ts = m.ts /\ (Keep(x) \/ Deliver(x))
  BY DEF Outcome
<1>2. /\ x # NULL /\ x.ts \in 0..MaxTime /\ x.ts = m.ts
      /\ fault' \in BOOLEAN
  BY <1>1, ParserAssumption DEF Message, Outcome
<1>3. /\ last \in [round : 0..MaxRound, ts : 0..MaxTime, realTime : BOOLEAN]
      /\ MaxRound \in Nat /\ MaxTime \in Nat
  BY ParserAssumption DEF TimeInv, TypeOK
<1>4. last.round \in 0..MaxRound /\ last.ts \in 0..MaxTime
  BY <1>3
<1>5. CASE Keep(x)
  <2>1. msg' = x /\ ret' = NULL /\ last' = last
    BY <1>5 DEF Keep
  <2>2. TypeOK'
    BY <1>2, <1>3, <2>1 DEF TypeOK
  <2>3. SinceLast(round, now)'
    BY <2>1 DEF SinceLast
  <2>4. (msgRound < round \/ (msgRound = round /\ msg.ts <= now))'
    BY <1>2, <2>1
  <2>5. (SinceLast(msgRound, msg.ts) \/ WrapInterrupts(msgRound))'
    BY <1>2, <2>1 DEF SinceLast, WrapInterrupts
  <2>6. InTime
    BY <1>4, <2>1 DEF InTime, SinceLast
  <2> QED
    BY <2>2, <2>3, <2>4, <2>5, <2>6 DEF TimeInv, TimestampsInOrder
<1>6. CASE Deliver(x)
  <2>1. /\ msg' = NULL /\ ret' = x
        /\ last' = [round |-> h, ts |-> x.ts, realTime |-> FALSE]
    BY <1>2, <1>6 DEF Deliver
  <2>2. TypeOK'
    BY <1>2, <1>3, <2>1 DEF TypeOK
  <2>3. SinceLast(round, now)'
    BY <1>2, <2>1 DEF SinceLast
  <2>4. last'.round = h /\ last'.ts = x.ts
    BY <2>1
  <2>5. InTime
    BY <1>2, <2>4 DEF InTime, SinceLast, WrapInterrupts
  <2> QED
    BY <2>1, <2>2, <2>3, <2>5 DEF TimeInv, TimestampsInOrder
<1>7. QED
  BY <1>1, <1>5, <1>6

\* A real-time message: the one in hand is moved behind it, or stays behind
\* because its timestamp is from an earlier round.
LEMMA RealTimeInTime ==
  ASSUME TimeInv, NEW b \in Byte, NEW r \in 0..MaxRound, NEW t \in 0..MaxTime,
         round' = r, now' = t,
         SinceLast(r, t),
         ~(msg = NULL \/ msg.ts = 0) => msgRound < r \/ (msgRound = r /\ msg.ts <= t),
         msg # NULL => msgRound <= r,
         RealTimeMessage(b, t), Record(b, t, r)
  PROVE  TimeInv' /\ InTime
<1>1. ret' \in Message /\ ret'.ts = t /\ fault' \in BOOLEAN
  <2>1. <<b>> \in Seq(Byte)
    OBVIOUS
  <2> QED
    BY <2>1 DEF RealTimeMessage, Message
<1>2. ret' # NULL /\ b \in RealTime
  BY <1>1, ParserAssumption DEF RealTimeMessage
<1>3. /\ last' = [round |-> r, ts |-> t, realTime |-> TRUE]
      /\ msg # NULL /\ msg.ts < t => msgRound' = r
      /\ ~(msg # NULL /\ msg.ts < t) => msgRound' = msgRound
  BY <1>1, <1>2 DEF Record
<1>4. last'.round = r /\ last'.ts = t /\ last'.realTime
  BY <1>3
<1>5. MaxRound \in Nat /\ MaxTime \in Nat /\ msgRound \in 0..MaxRound
  BY ParserAssumption DEF TimeInv, TypeOK
<1>6. rs' = rs /\ third' = third
  BY DEF RealTimeMessage
<1>7. /\ last' \in [round : 0..MaxRound, ts : 0..MaxTime, realTime : BOOLEAN]
      /\ msgRound' \in 0..MaxRound
  BY <1>3, <1>5
<1>8. SinceLast(round, now)'
  BY <1>4, <1>5 DEF SinceLast
<1>9. InTime
  BY <1>4 DEF InTime
<1>10. CASE msg = NULL
  <2>1. msg' = NULL
    BY <1>10 DEF RealTimeMessage
  <2> QED
    BY <1>1, <1>6, <1>7, <1>8, <1>9, <2>1 DEF TimeInv, TypeOK, TimestampsInOrder
<1>11. CASE msg # NULL /\ msg.ts < t
  <2>1. msg' = [msg EXCEPT !.ts = t] /\ msg \in Message
    BY <1>11 DEF RealTimeMessage, TimeInv, TypeOK
  <2>2. msg' \in Message /\ msg'.ts = t /\ msgRound' = r
    BY <1>3, <1>11, <2>1 DEF Message
  <2>3. (SinceLast(msgRound, msg.ts))'
    BY <1>4, <1>5, <2>2 DEF SinceLast
  <2>4. (msgRound < round \/ (msgRound = round /\ msg.ts <= now))'
    BY <2>2
  <2> QED
    BY <1>1, <1>6, <1>7, <1>8, <1>9, <2>2, <2>3, <2>4
    DEF TimeInv, TypeOK, TimestampsInOrder
<1>12. CASE msg # NULL /\ ~(msg.ts < t)
  <2>1. msg' = msg /\ msg \in Message /\ msgRound' = msgRound
    BY <1>3, <1>12 DEF RealTimeMessage, TimeInv, TypeOK
  <2>2. msg.ts \in 0..MaxTime
    BY <2>1 DEF Message
  <2>3. msgRound < r \/ (msgRound = r /\ msg.ts = t)
    BY <1>5, <1>12, <2>2
  <2>4. (msgRound < round \/ (msgRound = round /\ msg.ts <= now))'
    BY <2>1, <2>2, <2>3
  <2>5. (SinceLast(msgRound, msg.ts) \/ WrapInterrupts(msgRound))'
    BY <1>4, <1>5, <2>1, <2>2, <2>3 DEF SinceLast, WrapInterrupts
  <2> QED
    BY <1>1, <1>6, <1>7, <1>8, <1>9, <2>1, <2>4, <2>5
    DEF TimeInv, TypeOK, TimestampsInOrder
<1>13. QED
  BY <1>10, <1>11, <1>12

\* A real-time byte that is no message of its own completes none.
LEMMA StrayRealTime ==
  ASSUME NEW m, NEW b \in RealTime, ParseStatus(m, b)
  PROVE  ret' = NULL
<1>1. b \notin SingleByteCommon /\ b # SysexEnd /\ b # SysexStart
  BY DEF RealTime, SingleByteCommon, SysexEnd, SysexStart
<1>2. QED
  BY <1>1 DEF ParseStatus, Ignore, Keep

LEMMA FeedInTime ==
  ASSUME TimeInv, NEW b \in Byte, Feed(b)
  PROVE  TimeInv' /\ InTime
<1>1. PICK r \in round..MaxRound, t \in 0..MaxTime :
        /\ r = round => t >= now
        /\ round' = r /\ now' = t
        /\ Parse(b, t)
        /\ Record(b, t, r)
  BY DEF Feed
<1>2. /\ r \in 0..MaxRound /\ round \in 0..MaxRound /\ msgRound \in 0..MaxRound
      /\ now \in 0..MaxTime /\ MaxRound \in Nat /\ MaxTime \in Nat
  BY ParserAssumption DEF TimeInv, TypeOK
<1>3. /\ SinceLast(r, t)
      /\ msg = NULL \/ msg.ts = 0 => Current(t).ts = t
      /\ ~(msg = NULL \/ msg.ts = 0) =>
           /\ Current(t).ts = msg.ts
           /\ msgRound < r \/ (msgRound = r /\ msg.ts <= t)
           /\ SinceLast(msgRound, msg.ts) \/ WrapInterrupts(msgRound)
  BY <1>1, CurrentInTime
<1>4. CASE RealTimeMessage(b, t)
  <2>1. msg # NULL => msgRound <= r
    BY <1>2 DEF TimeInv, TimestampsInOrder
  <2> QED
    BY <1>1, <1>2, <1>3, <1>4, <2>1, RealTimeInTime
<1>5. CASE ByteDropped
  <2>1. /\ msg' = NULL /\ ret' = NULL /\ rs' = rs
        /\ fault' \in BOOLEAN /\ third' \in BOOLEAN
    BY <1>5 DEF ByteDropped, TimeInv, TypeOK
  <2>2. last' = last /\ msgRound' \in 0..MaxRound
    BY <1>1, <1>2, <2>1 DEF Record
  <2>3. /\ last \in [round : 0..MaxRound, ts : 0..MaxTime, realTime : BOOLEAN]
        /\ rs \in {0} \cup StatusByte
    BY DEF TimeInv, TypeOK
  <2>4. TypeOK'
    BY <1>1, <1>2, <2>1, <2>2, <2>3 DEF TypeOK
  <2>5. SinceLast(round, now)'
    BY <1>1, <1>3, <2>2 DEF SinceLast
  <2>6. InTime
    BY <2>2, <2>3 DEF InTime, SinceLast
  <2> QED
    BY <2>1, <2>4, <2>5, <2>6 DEF TimeInv, TimestampsInOrder
<1>6. ASSUME ~(b \in RealTime /\ ret' # NULL),
             Outcome(Current(t)), rs' \in {0} \cup StatusByte, third' \in BOOLEAN
      PROVE  TimeInv' /\ InTime
  <2>1. Current(t) \in Message
    BY CurrentType DEF TimeInv
  <2>2. /\ ret' = NULL => last' = last
        /\ ret' # NULL =>
             last' = [round |-> msgRound', ts |-> ret'.ts, realTime |-> FALSE]
        /\ msg = NULL \/ msg.ts = 0 => msgRound' = r
        /\ ~(msg = NULL \/ msg.ts = 0) => msgRound' = msgRound
    BY <1>1, <1>6 DEF Record
  <2>3. CASE msg = NULL \/ msg.ts = 0
    <3>1. msgRound' = r /\ Current(t).ts = t
      BY <1>3, <2>2, <2>3
    <3>2. SinceLast(r, Current(t).ts) /\ Current(t).ts <= t
      BY <1>2, <1>3, <3>1
    <3> QED
      BY <1>1, <1>2, <1>3, <1>6, <2>1, <2>2, <3>1, <3>2, AssemblyInTime
  <2>4. CASE ~(msg = NULL \/ msg.ts = 0)
    <3>1. /\ msgRound' = msgRound
          /\ msgRound < r \/ (msgRound = r /\ Current(t).ts <= t)
          /\ SinceLast(msgRound, Current(t).ts) \/ WrapInterrupts(msgRound)
      BY <1>3, <2>2, <2>4
    <3> QED
      BY <1>1, <1>2, <1>3, <1>6, <2>1, <2>2, <3>1, AssemblyInTime
  <2> QED
    BY <2>3, <2>4
<1>7. Current(t) \in Message
  BY CurrentType DEF TimeInv
<1>8. CASE b \in StatusByte /\ ParseStatus(Current(t), b)
  BY <1>6, <1>7, <1>8, StatusOutcome, StrayRealTime
<1>9. CASE b \in DataByte /\ ParseData(Current(t), b)
  <2>1. b \notin RealTime
    BY <1>9 DEF DataByte, RealTime
  <2> QED
    BY <1>6, <1>7, <1>9, <2>1, DataOutcome DEF TimeInv, TypeOK
<1>10. QED
  BY <1>1, <1>4, <1>5, <1>8, <1>9 DEF Parse

LEMMA InitInTime == Init => TimeInv
<1> SUFFICES ASSUME Init PROVE TimeInv
  OBVIOUS
<1>1. third \in BOOLEAN /\ fault \in BOOLEAN
  BY DEF Init
<1>2. /\ msg = NULL /\ ret = NULL /\ rs = 0 /\ now = 0
      /\ round = 0 /\ msgRound = 0
      /\ last = [round |-> 0, ts |-> 0, realTime |-> FALSE]
  BY DEF Init
<1>3. QED
  BY <1>1, <1>2, ParserAssumption DEF TimeInv, TypeOK, TimestampsInOrder, SinceLast

LEMMA NextInTime == TimeInv /\ [Next]_parserVars => TimeInv' /\ [InTime]_parserVars
<1> SUFFICES ASSUME TimeInv, [Next]_parserVars
             PROVE  TimeInv' /\ [InTime]_parserVars
  OBVIOUS
<1>1. CASE Next
  BY <1>1, FeedInTime, ParserAssumption DEF Next
<1>2. CASE UNCHANGED parserVars
  BY <1>2 DEF parserVars, history, TimeInv, TypeOK, TimestampsInOrder,
              SinceLast, WrapInterrupts
<1>3. QED
  BY <1>1, <1>2

\* Types, for every stream of bytes, legal or not, and whichever allocations fail.
THEOREM TypeCorrect == Spec => []TypeOK
<1>1. Init => TimeInv
  BY InitInTime
<1>2. TimeInv /\ [Next]_parserVars => TimeInv'
  BY NextInTime
<1>3. TimeInv => TypeOK
  BY DEF TimeInv
<1>4. QED
  BY <1>1, <1>2, <1>3, PTL DEF Spec

\* Messages leave the parser in the order of their timestamps, for every stream
\* of bytes and however often the clock wraps; the only message that comes out
\* late is one that a real-time byte of a later round has interrupted.
THEOREM TimeOrder == Spec => NeverBackInTime
<1>1. Init => TimeInv
  BY InitInTime
<1>2. TimeInv /\ [Next]_parserVars => TimeInv' /\ [InTime]_parserVars
  BY NextInTime
<1>3. Spec => [][InTime]_parserVars
  BY <1>1, <1>2, PTL DEF Spec
<1>4. QED
  BY <1>3 DEF NeverBackInTime, InTime
-----------------------------------------------------------------------------
(***************************************************************************)
(* What the three ways of storing a byte leave behind when every block     *)
(* that is asked for is given.                                             *)
(***************************************************************************)
Block(x, d, c) == x \in Message /\ x.data = d /\ x.cap = c /\ x.live

LEMMA BeginStores ==
  ASSUME "data" \notin CanFail,
         NEW m \in Message, m.live,
         NEW n \in Nat, NEW bytes \in Seq(Byte), Len(bytes) \in 1..n,
         NEW deliver \in BOOLEAN, Begin(m, n, bytes, deliver)
  PROVE  /\ ~fault'
         /\ \E x \in Message : /\ Block(x, bytes, n)
                               /\ IF deliver THEN Deliver(x) ELSE Keep(x)
<1> DEFINE x == Holding(Resized(m, n, TRUE), bytes)
<1>1. DataBlocks = {TRUE}
  BY DEF DataBlocks
<1>2. /\ fault' = ~Fits(Resized(m, n, TRUE), Len(bytes) - 1)
      /\ IF deliver THEN Deliver(x) ELSE Keep(x)
  BY <1>1 DEF Begin
<1>3. Fits(Resized(m, n, TRUE), Len(bytes) - 1)
  BY DEF Fits, Resized, Message
<1>4. Block(x, bytes, n)
  BY DEF Block, Holding, Resized, Message
<1>5. QED
  BY <1>2, <1>3, <1>4 DEF Block

LEMMA ExtendStores ==
  ASSUME NEW m \in Message, m.live, Len(m.data) < m.cap,
         NEW b \in Byte, NEW deliver \in BOOLEAN, Extend(m, b, deliver)
  PROVE  /\ ~fault'
         /\ \E x \in Message : /\ Block(x, Append(m.data, b), m.cap)
                               /\ IF deliver THEN Deliver(x) ELSE Keep(x)
<1> DEFINE x == Holding(m, Append(m.data, b))
<1>1. /\ fault' = ~Fits(m, Len(m.data))
      /\ IF deliver THEN Deliver(x) ELSE Keep(x)
  BY DEF Extend
<1>2. Fits(m, Len(m.data))
  BY DEF Fits
<1>3. Block(x, Append(m.data, b), m.cap)
  BY DEF Block, Holding, Message
<1>4. QED
  BY <1>1, <1>2, <1>3 DEF Block

LEMMA ThirdStores ==
  ASSUME NEW m \in Message, m.live, m.cap = 3,
         NEW b \in Byte, ThirdByte(m, b)
  PROVE  /\ ~fault'
         /\ rs' = rs /\ ~third'
         /\ \E x \in Message : Block(x, Append(m.data, b), 3) /\ Deliver(x)
<1> DEFINE x == Holding(m, Append(m.data, b))
<1>1. fault' = ~Fits(m, 2) /\ Deliver(x) /\ rs' = rs /\ ~third'
  BY DEF ThirdByte
<1>2. Fits(m, 2)
  BY DEF Fits
<1>3. Block(x, Append(m.data, b), 3)
  BY SMTT(30) DEF Block, Holding, Message
<1>4. QED
  BY <1>1, <1>2, <1>3 DEF Block

LEMMA CurrentLive ==
  ASSUME TypeOK, NoDanglingMessage, NEW t \in 0..MaxTime
  PROVE  Current(t) \in Message /\ Current(t).live
BY CurrentType DEF NoDanglingMessage, Fresh

-----------------------------------------------------------------------------
(***************************************************************************)
(* Streams without the four bytes the parser mishandles.                   *)
(***************************************************************************)
ShortStream ==
  /\ Bytes \cap {SysexStart, TimeCode, SongSelect, SysexEnd} = {}
  /\ "data" \notin CanFail

\* A state of the parser between calls that ShortStreamInv admits, reached by
\* keeping or delivering message x.
LEMMA KeptShort ==
  ASSUME TypeOK', TimestampsInOrder', ~fault', NEW x \in Message, x.live, Keep(x),
         third' => /\ x.cap = 3 /\ Len(x.data) = 2
                   /\ x.data[1] \in ThreeByteVoice \cup {SongPosition}
                   /\ x.data[2] \in DataByte,
         rs' \notin {SysexStart, TimeCode, SongSelect, SysexEnd}
  PROVE  ShortStreamInv'
<1>1. msg' = x /\ ret' = NULL /\ x # NULL
  BY ParserAssumption DEF Keep
<1>2. QED
  BY <1>1 DEF ShortStreamInv, MemorySafe, NoDanglingMessage, ThirdByteExpected,
              DeliveredComplete

LEMMA DeliveredShort ==
  ASSUME TypeOK', TimestampsInOrder', ~fault', NEW x \in Message, Deliver(x), ~third',
         IsComplete(x.data),
         rs' \notin {SysexStart, TimeCode, SongSelect, SysexEnd}
  PROVE  ShortStreamInv'
BY DEF Deliver, ShortStreamInv, MemorySafe, NoDanglingMessage,
       ThirdByteExpected, DeliveredComplete

LEMMA CompleteOfThree ==
  ASSUME NEW d \in Seq(Byte), Len(d) = 3,
         d[1] \in ThreeByteVoice \cup {SongPosition},
         d[2] \in DataByte, d[3] \in DataByte
  PROVE  IsComplete(d)
BY DEF IsComplete, IsFixed

LEMMA AppendToTwo ==
  ASSUME NEW S, NEW d \in Seq(S), Len(d) = 2, NEW e \in S
  PROVE  /\ Append(d, e) \in Seq(S) /\ Len(Append(d, e)) = 3
         /\ Append(d, e)[1] = d[1] /\ Append(d, e)[2] = d[2]
         /\ Append(d, e)[3] = e
<1>1. /\ Append(d, e) \in Seq(S)
      /\ Len(Append(d, e)) = Len(d) + 1
      /\ \A i \in 1..Len(d) : Append(d, e)[i] = d[i]
      /\ Append(d, e)[Len(d) + 1] = e
  BY ONLY d \in Seq(S), e \in S, AppendProperties
<1>2. Len(d) + 1 = 3 /\ 1 \in 1..Len(d) /\ 2 \in 1..Len(d)
  OBVIOUS
<1>3. Append(d, e)[3] = e /\ Len(Append(d, e)) = 3
  BY <1>1, <1>2, Zenon
<1>4. Append(d, e)[1] = d[1] /\ Append(d, e)[2] = d[2]
  BY <1>1, <1>2, Zenon
<1>5. QED
  BY <1>1, <1>3, <1>4

LEMMA AppendCompletes ==
  ASSUME NEW d \in Seq(Byte), Len(d) = 2,
         d[1] \in ThreeByteVoice \cup {SongPosition}, d[2] \in DataByte,
         NEW b \in DataByte
  PROVE  IsComplete(Append(d, b))
<1>1. b \in Byte
  BY DEF Byte, DataByte
<1>2. /\ Append(d, b) \in Seq(Byte) /\ Len(Append(d, b)) = 3
      /\ Append(d, b)[1] = d[1] /\ Append(d, b)[2] = d[2]
      /\ Append(d, b)[3] = b
  BY <1>1, AppendToTwo
<1>3. QED
  BY <1>2, CompleteOfThree

LEMMA CompleteOfTwo ==
  ASSUME NEW s \in TwoByteVoice, NEW b \in DataByte
  PROVE  IsComplete(<<s, b>>)
BY DEF IsComplete, IsFixed, TwoByteVoice, DataByte

LEMMA CompleteOfOne ==
  ASSUME NEW s \in SingleByteCommon \cup RealTime
  PROVE  IsComplete(<<s>>)
BY DEF IsComplete, IsFixed, SingleByteCommon, RealTime

LEMMA StatusShort ==
  ASSUME ShortStream, ShortStreamInv, TypeOK', TimestampsInOrder',
         NEW m \in Message, m.live,
         NEW b \in StatusByte, ParseStatus(m, b),
         b \notin {SysexStart, TimeCode, SongSelect, SysexEnd}
  PROVE  ShortStreamInv'
<1>1. rs' = b /\ ~third'
  BY DEF ParseStatus
<1>2. CASE b \in SingleByteCommon /\ Begin(m, 1, <<b>>, TRUE)
  <2>1. <<b>> \in Seq(Byte) /\ Len(<<b>>) \in 1..1
    BY DEF StatusByte, Byte
  <2>2. /\ ~fault'
        /\ \E x \in Message : Block(x, <<b>>, 1) /\ Deliver(x)
    BY <1>2, <2>1, BeginStores DEF ShortStream
  <2> QED
    BY <1>1, <1>2, <2>2, CompleteOfOne, DeliveredShort DEF Block
<1>3. CASE Ignore(m)
  <2>1. ~fault' /\ Keep(m)
    BY <1>3 DEF Ignore
  <2> QED
    BY <1>1, <2>1, KeptShort
<1>4. QED
  BY <1>2, <1>3 DEF ParseStatus

LEMMA DataShort ==
  ASSUME ShortStream, ShortStreamInv, TypeOK', TimestampsInOrder',
         NEW m \in Message, m.live,
         msg # NULL => m.data = msg.data /\ m.cap = msg.cap,
         NEW b \in DataByte, ParseData(m, b)
  PROVE  ShortStreamInv'
<1>1. /\ rs \notin {SysexStart, TimeCode, SongSelect, SysexEnd}
      /\ rs \in {0} \cup StatusByte
      /\ b \in Byte
  BY DEF ShortStreamInv, TypeOK, DataByte, Byte
<1>2. CASE ThirdByte(m, b)
  <2>1. /\ m.cap = 3 /\ Len(m.data) = 2
        /\ m.data[1] \in ThreeByteVoice \cup {SongPosition}
        /\ m.data[2] \in DataByte
    BY <1>2 DEF ThirdByte, ShortStreamInv, ThirdByteExpected
  <2>2. /\ ~fault' /\ rs' = rs /\ ~third'
        /\ \E x \in Message : Block(x, Append(m.data, b), 3) /\ Deliver(x)
    BY <1>1, <1>2, <2>1, ThirdStores
  <2>3. IsComplete(Append(m.data, b))
    <3>1. m.data \in Seq(Byte)
      BY DEF Message
    <3> QED
      BY <1>1, <2>1, <3>1, AppendCompletes
  <2> QED
    BY <1>1, <2>2, <2>3, DeliveredShort DEF Block
<1>3. CASE OrphanByte(m, b)
  BY <1>1, <1>3, KeptShort DEF OrphanByte, Ignore
<1>4. CASE VoiceByte(m, b)
  <2>1. rs' = rs
    BY <1>4 DEF VoiceByte
  <2>2. CASE rs \in ThreeByteVoice /\ Begin(m, 3, <<rs, b>>, FALSE)
    <3>1. <<rs, b>> \in Seq(Byte) /\ Len(<<rs, b>>) \in 1..3
      BY <1>1, <2>2 DEF ThreeByteVoice, Byte
    <3>2. /\ ~fault'
          /\ \E x \in Message : Block(x, <<rs, b>>, 3) /\ Keep(x)
      BY <2>2, <3>1, BeginStores DEF ShortStream
    <3>3. PICK x \in Message : Block(x, <<rs, b>>, 3) /\ Keep(x)
      BY <3>2
    <3>4. /\ x.live /\ x.cap = 3 /\ Len(x.data) = 2
          /\ x.data[1] \in ThreeByteVoice \cup {SongPosition}
          /\ x.data[2] \in DataByte
      BY <2>2, <3>3 DEF Block
    <3> QED
      BY <1>1, <2>1, <3>2, <3>3, <3>4, KeptShort
  <2>3. CASE rs \in TwoByteVoice /\ third' = third /\ Begin(m, 2, <<rs, b>>, TRUE)
    <3>1. <<rs, b>> \in Seq(Byte) /\ Len(<<rs, b>>) \in 1..2
      BY <1>1, <2>3 DEF TwoByteVoice, Byte
    <3>2. /\ ~fault'
          /\ \E x \in Message : Block(x, <<rs, b>>, 2) /\ Deliver(x)
      BY <2>3, <3>1, BeginStores DEF ShortStream
    <3>3. ~third'
      BY <1>4, <2>3 DEF VoiceByte
    <3> QED
      BY <1>1, <2>1, <2>3, <3>2, <3>3, CompleteOfTwo, DeliveredShort DEF Block
  <2> QED
    BY <1>4, <2>2, <2>3 DEF VoiceByte
<1>5. CASE CommonByte(m, b)
  <2>1. rs = SongPosition /\ rs' = 0 /\ Begin(m, 3, <<rs, b>>, FALSE)
    BY <1>1, <1>5 DEF CommonByte
  <2>2. <<rs, b>> \in Seq(Byte) /\ Len(<<rs, b>>) \in 1..3
    BY <1>1, <2>1 DEF SongPosition, Byte
  <2>3. /\ ~fault'
        /\ \E x \in Message : Block(x, <<rs, b>>, 3) /\ Keep(x)
    BY <2>1, <2>2, BeginStores DEF ShortStream
  <2>4. 0 \notin {SysexStart, TimeCode, SongSelect, SysexEnd}
    BY DEF SysexStart, TimeCode, SongSelect, SysexEnd
  <2> QED
    BY <2>1, <2>3, <2>4, KeptShort DEF Block
<1>6. CASE SysexByte(m, b)
  BY <1>1, <1>6 DEF SysexByte
<1>7. CASE UnsupportedByte(m, b)
  <2>1. 0 \notin {SysexStart, TimeCode, SongSelect, SysexEnd}
    BY DEF SysexStart, TimeCode, SongSelect, SysexEnd
  <2>2. rs' = 0 /\ Keep(m) /\ ~fault' /\ ~third'
    BY <1>7 DEF UnsupportedByte, Ignore
  <2> QED
    BY <2>1, <2>2, KeptShort
<1>8. QED
  BY <1>2, <1>3, <1>4, <1>5, <1>6, <1>7 DEF ParseData
LEMMA FeedShort ==
  ASSUME ShortStream, ShortStreamInv, NEW b \in Bytes, Feed(b)
  PROVE  ShortStreamInv'
<1>1. TypeOK /\ TimestampsInOrder /\ NoDanglingMessage
  BY DEF ShortStreamInv
<1>2. PICK t \in 0..MaxTime : Parse(b, t)
  BY DEF Feed
<1>3. b \in Byte /\ b \notin {SysexStart, TimeCode, SongSelect, SysexEnd}
  BY ParserAssumption DEF ShortStream
<1>4. TypeOK' /\ TimestampsInOrder'
  BY <1>1, <1>3, FeedInTime DEF TimeInv
<1>5. Current(t) \in Message /\ Current(t).live
  BY <1>1, CurrentLive
<1>6. CASE RealTimeMessage(b, t)
  <2>1. /\ ret'.data = <<b>> /\ fault' = (msg # NULL /\ ~msg.live)
        /\ b \in RealTime /\ rs' = rs /\ third' = third
    BY <1>6 DEF RealTimeMessage, ShortStream, DataBlocks
  <2>2. ~fault'
    BY <1>1, <2>1 DEF NoDanglingMessage
  <2>3. DeliveredComplete'
    BY <2>1, CompleteOfOne DEF DeliveredComplete
  <2>4. msg # NULL => /\ msg' # NULL /\ msg'.live = msg.live
                      /\ msg'.cap = msg.cap /\ msg'.data = msg.data
    <3>1. SUFFICES ASSUME msg # NULL
                   PROVE  /\ msg' # NULL /\ msg'.live = msg.live
                          /\ msg'.cap = msg.cap /\ msg'.data = msg.data
      OBVIOUS
    <3>2. msg \in Message /\ t \in 0..MaxTime
      BY <1>1, <1>2, <3>1, ParserAssumption DEF TypeOK
    <3>3. [msg EXCEPT !.ts = t] \in Message
      BY <3>2 DEF Message
    <3>4. msg' = msg \/ msg' = [msg EXCEPT !.ts = t]
      BY <1>6 DEF RealTimeMessage
    <3> QED
      BY <3>1, <3>2, <3>3, <3>4, ParserAssumption DEF Message
  <2>5. msg = NULL => msg' = NULL
    BY <1>6 DEF RealTimeMessage
  <2>6. NoDanglingMessage'
    BY <1>1, <2>4, <2>5 DEF NoDanglingMessage
  <2>7. ThirdByteExpected'
    BY <2>1, <2>4, <2>5 DEF ShortStreamInv, ThirdByteExpected
  <2> QED
    BY <1>4, <2>1, <2>2, <2>3, <2>6, <2>7 DEF ShortStreamInv, MemorySafe
<1>7. CASE ByteDropped
  <2>1. /\ msg' = NULL /\ ret' = NULL /\ ~fault' /\ rs' = rs /\ third' = third
        /\ msg = NULL
    BY <1>7 DEF ByteDropped
  <2> QED
    BY <1>4, <2>1 DEF ShortStreamInv, MemorySafe, NoDanglingMessage,
                      ThirdByteExpected, DeliveredComplete
<1>8. CASE b \in StatusByte /\ ParseStatus(Current(t), b)
  BY <1>3, <1>4, <1>5, <1>8, StatusShort
<1>9. CASE b \in DataByte /\ ParseData(Current(t), b)
  BY <1>1, <1>4, <1>5, <1>9, CurrentType, DataShort
<1>10. QED
  BY <1>2, <1>6, <1>7, <1>8, <1>9 DEF Parse

\* On a stream of any bytes but 0xF0, 0xF1, 0xF3 and 0xF7, in any order: types,
\* memory, the message in hand and the byte expected next stay consistent with each
\* other (the state parse_serial_byte keeps between two bytes).
THEOREM ShortStreamInvariant ==
  ASSUME ShortStream
  PROVE  Spec => []ShortStreamInv
<1>1. Init => ShortStreamInv
  <2> SUFFICES ASSUME Init PROVE ShortStreamInv
    OBVIOUS
  <2>1. TypeOK /\ TimestampsInOrder
    BY InitInTime DEF TimeInv
  <2>2. 0 \notin {SysexStart, TimeCode, SongSelect, SysexEnd}
    BY DEF SysexStart, TimeCode, SongSelect, SysexEnd
  <2> QED
    BY <2>1, <2>2 DEF Init, ShortStreamInv, MemorySafe, NoDanglingMessage,
                      ThirdByteExpected, DeliveredComplete
<1>2. ShortStreamInv /\ [Next]_parserVars => ShortStreamInv'
  <2> SUFFICES ASSUME ShortStreamInv, [Next]_parserVars
               PROVE  ShortStreamInv'
    OBVIOUS
  <2>1. CASE Next
    BY <2>1, FeedShort DEF Next
  <2>2. CASE UNCHANGED parserVars
    BY <2>2 DEF parserVars, history, ShortStreamInv, TypeOK, TimestampsInOrder,
                SinceLast, WrapInterrupts, MemorySafe, NoDanglingMessage,
                ThirdByteExpected, DeliveredComplete
  <2> QED
    BY <2>1, <2>2
<1>3. QED
  BY <1>1, <1>2, PTL DEF Spec

\* On a stream of any bytes but 0xF0, 0xF1, 0xF3 and 0xF7, in any order, the
\* parser never touches foreign memory (the stores of parse_serial_byte).
THEOREM ShortStreamsSafe ==
  ASSUME ShortStream
  PROVE  Spec => []MemorySafe
<1>1. ShortStreamInv => MemorySafe
  BY DEF ShortStreamInv
<1>2. QED
  BY <1>1, ShortStreamInvariant, PTL

\* On the same streams every message midi_parse_serial returns is a complete
\* message of the MIDI 1.0 grammar.
THEOREM ShortStreamsComplete ==
  ASSUME ShortStream
  PROVE  Spec => []DeliveredComplete
<1>1. ShortStreamInv => DeliveredComplete
  BY DEF ShortStreamInv
<1>2. QED
  BY <1>1, ShortStreamInvariant, PTL

-----------------------------------------------------------------------------
(* The messages of a transmitter. *)

StartByte == Voice \cup {SysexStart, TimeCode, SongPosition, SongSelect}
                   \cup SingleByteCommon

\* The classes of status bytes do not overlap.
LEMMA ClassOfThree ==
  ASSUME NEW s \in ThreeByteVoice
  PROVE  /\ s \notin TwoByteVoice \cup SingleByteCommon \cup RealTime
         /\ s \notin {SysexStart, SysexEnd, TimeCode, SongSelect, SongPosition, 0}
         /\ s \in Byte
BY DEF ThreeByteVoice, TwoByteVoice, SingleByteCommon, RealTime, SysexStart,
       SysexEnd, TimeCode, SongSelect, SongPosition, Byte

LEMMA ClassOfTwo ==
  ASSUME NEW s \in TwoByteVoice
  PROVE  /\ s \notin ThreeByteVoice \cup SingleByteCommon \cup RealTime
         /\ s \notin {SysexStart, SysexEnd, TimeCode, SongSelect, SongPosition, 0}
         /\ s \in Byte
BY DEF ThreeByteVoice, TwoByteVoice, SingleByteCommon, RealTime, SysexStart,
       SysexEnd, TimeCode, SongSelect, SongPosition, Byte

LEMMA ClassOfOne ==
  ASSUME NEW s \in SingleByteCommon
  PROVE  /\ s \notin Voice
         /\ s \notin {SysexStart, SysexEnd, TimeCode, SongSelect, SongPosition, 0}
         /\ s \in Byte
BY DEF Voice, ThreeByteVoice, TwoByteVoice, SingleByteCommon, SysexStart,
       SysexEnd, TimeCode, SongSelect, SongPosition, Byte

LEMMA ClassOfCommon ==
  ASSUME NEW s \in {SysexStart, SysexEnd, TimeCode, SongSelect, SongPosition}
  PROVE  /\ s \notin Voice \cup SingleByteCommon \cup RealTime
         /\ s \notin ThreeByteVoice \cup TwoByteVoice
         /\ s \in Byte /\ s # 0 /\ s \notin DataByte
BY DEF Voice, ThreeByteVoice, TwoByteVoice, SingleByteCommon, RealTime, DataByte,
       SysexStart, SysexEnd, TimeCode, SongSelect, SongPosition, Byte

LEMMA CommonDistinct ==
  /\ SysexStart \notin {SysexEnd, TimeCode, SongSelect, SongPosition}
  /\ SongPosition \notin {SysexEnd, TimeCode, SongSelect}
  /\ SysexEnd \notin {TimeCode, SongSelect}
BY DEF SysexStart, SysexEnd, TimeCode, SongSelect, SongPosition

LEMMA StartByteIsStatus ==
  ASSUME NEW s \in StartByte
  PROVE  s \in StatusByte /\ s \notin RealTime /\ s # SysexEnd /\ s # 0
BY DEF StartByte, StatusByte, RealTime, SysexEnd, SysexStart, TimeCode,
       SongPosition, SongSelect, SingleByteCommon, Voice, ThreeByteVoice,
       TwoByteVoice

\* The kinds of message, by status byte.
LEMMA Kinds ==
  ASSUME NEW d \in Outgoing
  PROVE  /\ d \in Seq(Byte) /\ Len(d) > 0 /\ d[1] \in StartByte
         /\ \/ /\ d[1] \in ThreeByteVoice \cup {SongPosition} /\ Len(d) = 3
               /\ \A i \in 2..3 : d[i] \in DataByte
            \/ /\ d[1] \in TwoByteVoice \cup {TimeCode, SongSelect} /\ Len(d) = 2
               /\ d[2] \in DataByte
            \/ d[1] \in SingleByteCommon /\ Len(d) = 1
            \/ /\ d[1] = SysexStart /\ Len(d) \in 2..SysexMax
               /\ d[Len(d)] = SysexEnd
               /\ \A i \in 2..(Len(d) - 1) : d[i] \in DataByte
<1>1. d \in Seq(Byte) /\ IsComplete(d) /\ d[1] \notin RealTime
  BY LinkAssumption
<1>2. Len(d) \in Nat
  BY <1>1
<1>3. CASE IsFixed(d, ThreeByteVoice \cup {SongPosition}, 3)
  BY <1>1, <1>3 DEF IsFixed, StartByte, Voice
<1>4. CASE IsFixed(d, TwoByteVoice \cup {TimeCode, SongSelect}, 2)
  BY <1>1, <1>4 DEF IsFixed, StartByte, Voice
<1>5. CASE IsFixed(d, SingleByteCommon \cup RealTime, 1)
  BY <1>1, <1>5 DEF IsFixed, StartByte
<1>6. CASE IsSysex(d)
  <2>1. Len(d) <= SysexMax
    BY <1>6, LinkAssumption
  <2> QED
    BY <1>1, <1>2, <1>6, <2>1, SysexMaxIsNat DEF IsSysex, StartByte
<1>7. QED
  BY <1>1, <1>3, <1>4, <1>5, <1>6 DEF IsComplete

LEMMA KindOfThree ==
  ASSUME NEW d \in Outgoing, d[1] \in ThreeByteVoice \cup {SongPosition}
  PROVE  Len(d) = 3
BY Kinds, ClassOfThree, ClassOfCommon, CommonDistinct

LEMMA KindOfTwo ==
  ASSUME NEW d \in Outgoing, d[1] \in TwoByteVoice \cup {TimeCode, SongSelect}
  PROVE  Len(d) = 2
BY Kinds, ClassOfTwo, ClassOfCommon, CommonDistinct

LEMMA KindOfOne ==
  ASSUME NEW d \in Outgoing, d[1] \in SingleByteCommon
  PROVE  Len(d) = 1
BY Kinds, ClassOfOne DEF Voice

LEMMA KindOfSysex ==
  ASSUME NEW d \in Outgoing, d[1] = SysexStart
  PROVE  /\ Len(d) \in 2..SysexMax /\ Len(d) <= SysexMax
         /\ d[Len(d)] = SysexEnd
BY Kinds, ClassOfCommon, CommonDistinct, SysexMaxIsNat

\* Without failing allocations a byte that is not real-time reaches
\* parse_serial_byte.
LEMMA FeedParses ==
  ASSUME NoFailures, NEW b \in Byte, b \notin RealTime, TypeOK, NoDanglingMessage, Feed(b)
  PROVE  \E m \in Message :
           /\ m.live
           /\ msg # NULL => m.data = msg.data /\ m.cap = msg.cap
           /\ \/ b \in StatusByte /\ ParseStatus(m, b)
              \/ b \in DataByte /\ ParseData(m, b)
<1>1. PICK t \in 0..MaxTime : Parse(b, t)
  BY DEF Feed
<1>2. /\ Current(t) \in Message /\ Current(t).live
      /\ msg # NULL => /\ Current(t).data = msg.data
                       /\ Current(t).cap = msg.cap
  BY CurrentLive, CurrentType
<1>3. ~RealTimeMessage(b, t) /\ ~ByteDropped
  BY DEF NoFailures, RealTimeMessage, ByteDropped
<1>4. QED
  BY <1>1, <1>2, <1>3 DEF Parse

-----------------------------------------------------------------------------
(* The two ways a byte of message d is taken, and the invariant after them. *)

LEMMA AfterDelivery ==
  ASSUME LinkInv, TypeOK', TimestampsInOrder', ~fault',
         NEW d \in Outgoing, SendByte(d, Len(d)),
         NEW x \in Message, x.data = d, Deliver(x),
         StatusAfter(d) # 0 => rs' = StatusAfter(d) /\ ~third'
  PROVE  LinkInv'
<1>1. /\ cur' = d /\ pos' = 0 /\ txrs' = StatusAfter(d) /\ expect' = d
  BY DEF SendByte
<1>2. d \in Seq(Byte) /\ Len(d) > 0
  BY Kinds
<1>3. d # <<>> /\ Len(d) \in Nat
  BY <1>2
<1>4. ret' = x /\ msg' = NULL /\ x # NULL
  BY ParserAssumption DEF Deliver
<1>5. RoundTrip'
  BY <1>1, <1>3, <1>4 DEF RoundTrip
<1>6. NoDanglingMessage' /\ MemorySafe'
  BY <1>4 DEF NoDanglingMessage, MemorySafe
<1>7. LinkTypeOK'
  <2>1. StatusAfter(d) \in {0} \cup Voice
    BY DEF StatusAfter
  <2>2. 0 \in 0..Len(d)
    BY <1>3
  <2> QED
    BY <1>1, <1>2, <2>1, <2>2 DEF LinkTypeOK
<1>8. Idle'
  BY <1>1 DEF Idle
<1>9. pos' = 0
  BY <1>1
<1>10. QED
  BY <1>5, <1>6, <1>7, <1>8, <1>9 DEF LinkInv

LEMMA AfterKeeping ==
  ASSUME LinkInv, TypeOK', TimestampsInOrder', ~fault',
         NEW d \in Outgoing, NEW i \in 1..Len(d), i < Len(d), SendByte(d, i),
         NEW x \in Message, x.live, Keep(x), Ready(d, i + 1)'
  PROVE  LinkInv'
<1>1. d \in Seq(Byte) /\ Len(d) \in Nat
  BY Kinds
<1>2. /\ cur' = d /\ pos' = i + 1 /\ txrs' = txrs /\ expect' = <<>>
  BY <1>1 DEF SendByte
<1>3. ret' = NULL /\ msg' = x
  BY DEF Keep
<1>4. RoundTrip'
  BY <1>2, <1>3 DEF RoundTrip
<1>5. NoDanglingMessage' /\ MemorySafe'
  BY <1>3 DEF NoDanglingMessage, MemorySafe
<1>6. LinkTypeOK'
  <2>1. i + 1 \in 0..Len(d)
    BY <1>1
  <2>2. txrs \in {0} \cup Voice
    BY DEF LinkInv, LinkTypeOK
  <2>3. <<>> \in Seq(Byte)
    OBVIOUS
  <2> QED
    BY <1>2, <2>1, <2>2, <2>3 DEF LinkTypeOK
<1>7. pos' # 0 /\ cur' \in Outgoing /\ Ready(cur, pos)'
  BY <1>2 DEF Ready, Holds
<1>8. QED
  BY <1>4, <1>5, <1>6, <1>7 DEF LinkInv

-----------------------------------------------------------------------------
(* One byte of a message. *)

\* The status byte.
LEMMA SendStatus ==
  ASSUME NoFailures, LinkInv, TypeOK', TimestampsInOrder',
         NEW d \in Outgoing, SendByte(d, 1),
         NEW m \in Message, m.live, ParseStatus(m, d[1])
  PROVE  LinkInv'
<1>1. d \in Seq(Byte) /\ Len(d) \in Nat /\ Len(d) > 0 /\ d[1] \in StartByte
  BY Kinds
<1>2. d[1] \in StatusByte /\ d[1] # SysexEnd /\ d[1] \in Byte
  BY <1>1, StartByteIsStatus DEF StatusByte, Byte
<1>3. rs' = d[1] /\ ~third'
  BY <1>2 DEF ParseStatus
<1>4. CASE d[1] \in SingleByteCommon /\ Begin(m, 1, <<d[1]>>, TRUE)
  <2>1. Len(d) = 1
    BY <1>4, KindOfOne
  <2>2. <<d[1]>> \in Seq(Byte) /\ Len(<<d[1]>>) \in 1..1
    BY <1>2
  <2>3. /\ ~fault'
        /\ \E x \in Message : Block(x, <<d[1]>>, 1) /\ Deliver(x)
    BY <1>4, <2>2, BeginStores DEF NoFailures
  <2>4. <<d[1]>> = d
    BY <1>1, <2>1, <2>2, SeqEqual
  <2>5. StatusAfter(d) = 0
    BY <1>4, ClassOfOne DEF StatusAfter
  <2>6. SendByte(d, Len(d))
    BY <2>1
  <2>7. PICK x \in Message : x.data = d /\ Deliver(x)
    BY <2>3, <2>4 DEF Block
  <2> QED
    BY <2>3, <2>5, <2>6, <2>7, AfterDelivery
<1>5. CASE d[1] = SysexStart /\ Begin(m, SysexMax, <<d[1]>>, FALSE)
  <2>1. Len(d) > 1
    BY <1>1, <1>5, KindOfSysex, SysexMaxIsNat
  <2>2. <<d[1]>> \in Seq(Byte) /\ Len(<<d[1]>>) \in 1..SysexMax /\ SysexMax \in Nat
    BY <1>2, SysexMaxIsNat
  <2>3. ~fault'
    BY <1>5, <2>2, BeginStores DEF NoFailures
  <2>4. PICK x \in Message : Block(x, <<d[1]>>, SysexMax) /\ Keep(x)
    BY <1>5, <2>2, BeginStores DEF NoFailures
  <2>5. msg' = x /\ msg' # NULL
    BY <2>4, ParserAssumption DEF Keep
  <2>6. Holds(d, 1)' /\ msg'.cap = SysexMax
    BY <2>4, <2>5 DEF Holds, Block
  <2>7. Ready(d, 2)'
    BY <1>3, <1>5, <2>6 DEF Ready
  <2> QED
    BY <1>1, <2>1, <2>3, <2>4, <2>7, AfterKeeping DEF Block
<1>6. CASE d[1] \notin 244..247 \cup {SysexStart} /\ Ignore(m)
  <2>1. Len(d) > 1
    BY <1>6, Kinds DEF SingleByteCommon
  <2>2. ~fault' /\ Keep(m)
    BY <1>6 DEF Ignore
  <2>3. d[1] \in Voice \cup {TimeCode, SongSelect, SongPosition}
    BY <1>1, <1>6 DEF StartByte, SingleByteCommon
  <2>4. Ready(d, 2)'
    BY <1>3, <2>3 DEF Ready
  <2> QED
    BY <1>1, <2>1, <2>2, <2>4, AfterKeeping
<1>7. QED
  BY <1>2, <1>4, <1>5, <1>6 DEF ParseStatus

\* The last byte of a system exclusive message.
LEMMA SendEox ==
  ASSUME NoFailures, LinkInv, TypeOK', TimestampsInOrder',
         NEW d \in Outgoing, Len(d) > 1, Ready(d, Len(d)), SendByte(d, Len(d)),
         d[1] = SysexStart, d[Len(d)] = SysexEnd,
         NEW m \in Message, m.live, m.data = msg.data, m.cap = msg.cap,
         ParseStatus(m, d[Len(d)])
  PROVE  LinkInv'
<1>1. d \in Seq(Byte) /\ Len(d) \in Nat /\ Len(d) <= SysexMax
  BY Kinds, KindOfSysex
<1>2. /\ m.cap = SysexMax /\ Len(m.data) = Len(d) - 1
      /\ \A j \in 1..(Len(d) - 1) : m.data[j] = d[j]
  <2>1. Holds(d, Len(d) - 1) /\ msg.cap = SysexMax
    BY <1>1, ClassOfCommon, CommonDistinct DEF Ready
  <2> QED
    BY <2>1 DEF Holds
<1>3. SysexEnd \in Byte /\ Len(m.data) < m.cap
  BY <1>1, <1>2, SysexMaxIsNat, ClassOfCommon
<1>4. Extend(m, SysexEnd, TRUE)
  <2>1. SysexEnd \in 244..247
    BY DEF SysexEnd
  <2> QED
    BY <2>1, ClassOfCommon, CommonDistinct DEF ParseStatus
<1>5. /\ ~fault'
      /\ \E x \in Message : Block(x, Append(m.data, SysexEnd), m.cap) /\ Deliver(x)
  BY <1>3, <1>4, ExtendStores
<1>6. Append(m.data, SysexEnd) = d
  <2>1. m.data \in Seq(Byte)
    BY DEF Message
  <2>2. Append(m.data, SysexEnd) \in Seq(Byte)
    BY <1>3, <2>1
  <2>3. Len(Append(m.data, SysexEnd)) = Len(d)
    BY <1>1, <1>2, <2>1
  <2>4. \A j \in 1..Len(d) : Append(m.data, SysexEnd)[j] = d[j]
    BY <1>1, <1>2, <2>1
  <2> QED
    BY <1>1, <2>2, <2>3, <2>4, SeqEqual
<1>7. StatusAfter(d) = 0
  BY ClassOfCommon DEF StatusAfter
<1>8. PICK x \in Message : x.data = d /\ Deliver(x)
  BY <1>5, <1>6 DEF Block
<1>9. QED
  BY <1>5, <1>7, <1>8, AfterDelivery

\* A data byte.
LEMMA SendData ==
  ASSUME NoFailures, LinkInv, TypeOK', TimestampsInOrder',
         NEW d \in Outgoing, NEW i \in 2..Len(d), Ready(d, i), SendByte(d, i),
         NEW m \in Message, m.live,
         msg # NULL => m.data = msg.data /\ m.cap = msg.cap,
         d[i] \in DataByte, ParseData(m, d[i])
  PROVE  LinkInv'
<1>1. d \in Seq(Byte) /\ Len(d) \in Nat /\ d[1] \in StartByte /\ d[i] \in Byte
  BY Kinds DEF DataByte, Byte
<1>2. d[1] \in Byte /\ d[1] # 0
  BY <1>1, StartByteIsStatus DEF StatusByte, Byte
<1>3. CASE d[1] \in ThreeByteVoice \cup {SongPosition} /\ i = 2
  <2>1. Len(d) = 3
    BY <1>3, KindOfThree
  <2>2. rs = d[1] /\ ~third
    BY <1>3, ClassOfThree, ClassOfCommon, CommonDistinct DEF Ready
  <2>3. /\ Begin(m, 3, <<d[1], d[2]>>, FALSE)
        /\ third'
        /\ rs' = IF d[1] = SongPosition THEN 0 ELSE d[1]
    <3>1. d[1] \notin TwoByteVoice /\ d[1] \notin SingleByteCommon \cup RealTime
      BY <1>3, ClassOfThree, ClassOfCommon
    <3>2. ~ThirdByte(m, d[2]) /\ ~OrphanByte(m, d[2]) /\ ~UnsupportedByte(m, d[2])
      BY <1>2, <2>2, <3>1 DEF ThirdByte, OrphanByte, UnsupportedByte
    <3>3. ~SysexByte(m, d[2])
      BY <1>3, <2>2, ClassOfThree, CommonDistinct DEF SysexByte
    <3>4. VoiceByte(m, d[2]) \/ CommonByte(m, d[2])
      BY <1>3, <3>2, <3>3 DEF ParseData
    <3>5. CASE VoiceByte(m, d[2])
      BY <1>3, <2>2, <3>1, <3>5, ClassOfThree, ClassOfCommon DEF VoiceByte
    <3>6. CASE CommonByte(m, d[2])
      BY <1>3, <2>2, <3>6, ClassOfThree, CommonDistinct DEF CommonByte
    <3> QED
      BY <3>4, <3>5, <3>6
  <2>4. <<d[1], d[2]>> \in Seq(Byte) /\ Len(<<d[1], d[2]>>) \in 1..3
    BY <1>1, <1>2, <1>3
  <2>5. /\ ~fault'
        /\ \E x \in Message : Block(x, <<d[1], d[2]>>, 3) /\ Keep(x)
    BY <2>3, <2>4, BeginStores DEF NoFailures
  <2>6. PICK x \in Message : Block(x, <<d[1], d[2]>>, 3) /\ Keep(x)
    BY <2>5
  <2>7. msg' = x /\ msg' # NULL
    BY <2>6, ParserAssumption DEF Keep
  <2>8. Holds(d, 2)' /\ msg'.cap = 3
    <3>1. x.data = <<d[1], d[2]>> /\ x.cap = 3
      BY <2>6 DEF Block
    <3>2. Len(x.data) = 2 /\ x.data[1] = d[1] /\ x.data[2] = d[2]
      BY <3>1
    <3>3. \A j \in 1..2 : x.data[j] = d[j]
      BY <3>2
    <3> QED
      BY <2>7, <3>1, <3>2, <3>3 DEF Holds
  <2>9. Ready(d, i + 1)'
    BY <1>3, <2>3, <2>8 DEF Ready
  <2>10. i \in 1..Len(d) /\ i < Len(d)
    BY <1>3, <2>1
  <2> QED
    BY <2>5, <2>6, <2>9, <2>10, AfterKeeping DEF Block
<1>4. CASE d[1] \in ThreeByteVoice \cup {SongPosition} /\ i = 3
  <2>1. Len(d) = 3
    BY <1>4, KindOfThree
  <2>2. /\ third /\ Holds(d, 2) /\ msg.cap = 3
        /\ rs = IF d[1] = SongPosition THEN 0 ELSE d[1]
    BY <1>4, ClassOfThree, ClassOfCommon, CommonDistinct DEF Ready
  <2>3. /\ m.cap = 3 /\ Len(m.data) = 2
        /\ m.data[1] = d[1] /\ m.data[2] = d[2]
    BY <2>2 DEF Holds
  <2>4. ThirdByte(m, d[3])
    BY <1>4, <2>2 DEF ParseData, OrphanByte, VoiceByte, CommonByte, SysexByte,
                      UnsupportedByte
  <2>5. /\ ~fault' /\ rs' = rs /\ ~third'
        /\ \E x \in Message : Block(x, Append(m.data, d[3]), 3) /\ Deliver(x)
    BY <1>1, <1>4, <2>3, <2>4, ThirdStores
  <2>6. Append(m.data, d[3]) = d
    <3>1. m.data \in Seq(Byte)
      BY DEF Message
    <3>2. /\ Append(m.data, d[3]) \in Seq(Byte)
          /\ Len(Append(m.data, d[3])) = 3
          /\ Append(m.data, d[3])[1] = d[1]
          /\ Append(m.data, d[3])[2] = d[2]
          /\ Append(m.data, d[3])[3] = d[3]
      BY <1>1, <1>4, <2>3, <3>1, AppendToTwo
    <3> QED
      BY <1>1, <2>1, <3>2, SeqEqual
  <2>7. StatusAfter(d) # 0 => rs' = StatusAfter(d)
    BY <2>2, <2>5, ClassOfCommon DEF StatusAfter
  <2>8. PICK x \in Message : x.data = d /\ Deliver(x)
    BY <2>5, <2>6 DEF Block
  <2>9. SendByte(d, Len(d))
    BY <1>4, <2>1
  <2> QED
    BY <2>5, <2>7, <2>8, <2>9, AfterDelivery
<1>5. CASE d[1] \in TwoByteVoice \cup {TimeCode, SongSelect} /\ i = 2
  <2>1. Len(d) = 2
    BY <1>5, KindOfTwo
  <2>2. rs = d[1] /\ ~third
    BY <1>5, ClassOfTwo, ClassOfCommon, CommonDistinct DEF Ready
  <2>3. \/ /\ d[1] \in TwoByteVoice /\ Begin(m, 2, <<d[1], d[2]>>, TRUE)
           /\ rs' = rs /\ ~third'
        \/ d[1] \notin TwoByteVoice /\ Begin(m, 3, <<d[1], d[2]>>, TRUE)
    <3>1. d[1] \notin ThreeByteVoice /\ d[1] \notin SingleByteCommon \cup RealTime
      BY <1>5, ClassOfTwo, ClassOfCommon
    <3>2. ~ThirdByte(m, d[2]) /\ ~OrphanByte(m, d[2]) /\ ~UnsupportedByte(m, d[2])
      BY <1>2, <2>2, <3>1 DEF ThirdByte, OrphanByte, UnsupportedByte
    <3>3. ~SysexByte(m, d[2])
      BY <1>5, <2>2, ClassOfTwo, CommonDistinct DEF SysexByte
    <3>4. VoiceByte(m, d[2]) \/ CommonByte(m, d[2])
      BY <1>5, <3>2, <3>3 DEF ParseData
    <3>5. CASE VoiceByte(m, d[2])
      BY <2>2, <3>1, <3>5 DEF VoiceByte
    <3>6. CASE CommonByte(m, d[2])
      <4>1. d[1] \notin TwoByteVoice
        BY <2>2, <3>6, ClassOfCommon DEF CommonByte
      <4> QED
        BY <1>5, <2>2, <3>6, <4>1, CommonDistinct DEF CommonByte
    <3> QED
      BY <3>4, <3>5, <3>6
  <2>4. <<d[1], d[2]>> \in Seq(Byte) /\ Len(<<d[1], d[2]>>) = 2
    BY <1>1, <1>2, <1>5
  <2>5. PICK n \in 2..3 : Begin(m, n, <<d[1], d[2]>>, TRUE)
    <3>1. 2 \in 2..3 /\ 3 \in 2..3
      OBVIOUS
    <3> QED
      BY <2>3, <3>1, Zenon
  <2>6. /\ ~fault'
        /\ \E x \in Message : Block(x, <<d[1], d[2]>>, n) /\ Deliver(x)
    <3>1. n \in Nat /\ Len(<<d[1], d[2]>>) \in 1..n
      BY <2>4
    <3> QED
      BY <2>4, <2>5, <3>1, BeginStores DEF NoFailures
  <2>7. <<d[1], d[2]>> = d
    BY <1>1, <2>1, <2>4, SeqEqual
  <2>8. StatusAfter(d) # 0 => rs' = StatusAfter(d) /\ ~third'
    BY <1>5, <2>2, <2>3, ClassOfCommon DEF StatusAfter
  <2>9. PICK x \in Message : x.data = d /\ Deliver(x)
    BY <2>6, <2>7 DEF Block
  <2>10. SendByte(d, Len(d))
    BY <1>5, <2>1
  <2> QED
    BY <2>6, <2>8, <2>9, <2>10, AfterDelivery
<1>6. CASE d[1] = SysexStart
  <2>1. Len(d) <= SysexMax /\ i < Len(d)
    <3>1. Len(d) <= SysexMax /\ d[Len(d)] \notin DataByte
      BY <1>6, KindOfSysex, ClassOfCommon
    <3> QED
      BY <1>1, <3>1
  <2>2. rs = SysexStart /\ ~third /\ Holds(d, i - 1) /\ msg.cap = SysexMax
    BY <1>6, ClassOfCommon, CommonDistinct DEF Ready
  <2>3. /\ m.cap = SysexMax /\ Len(m.data) = i - 1
        /\ \A j \in 1..(i - 1) : m.data[j] = d[j]
    BY <2>2 DEF Holds
  <2>4. SysexByte(m, d[i])
    <3>1. ~ThirdByte(m, d[i]) /\ ~OrphanByte(m, d[i]) /\ ~UnsupportedByte(m, d[i])
      BY <2>2, ClassOfCommon DEF ThirdByte, OrphanByte, UnsupportedByte
    <3>2. ~VoiceByte(m, d[i]) /\ ~CommonByte(m, d[i])
      BY <2>2, ClassOfCommon, CommonDistinct DEF VoiceByte, CommonByte
    <3> QED
      BY <3>1, <3>2 DEF ParseData
  <2>5. Len(m.data) < m.cap /\ Len(m.data) # SysexMax
    BY <1>1, <2>1, <2>3, SysexMaxIsNat
  <2>6. Extend(m, d[i], FALSE) /\ rs' = rs /\ ~third'
    BY <2>2, <2>4, <2>5 DEF SysexByte
  <2>7. /\ ~fault'
        /\ \E x \in Message : Block(x, Append(m.data, d[i]), SysexMax) /\ Keep(x)
    BY <1>1, <2>3, <2>5, <2>6, ExtendStores
  <2>8. PICK x \in Message : Block(x, Append(m.data, d[i]), SysexMax) /\ Keep(x)
    BY <2>7
  <2>9. msg' = x /\ msg' # NULL
    BY <2>8, ParserAssumption DEF Keep
  <2>10. Len(x.data) = i /\ \A j \in 1..i : x.data[j] = d[j]
    <3>1. m.data \in Seq(Byte)
      BY DEF Message
    <3> QED
      BY <1>1, <2>3, <2>8, <3>1 DEF Block
  <2>11. Holds(d, (i + 1) - 1)' /\ msg'.cap = SysexMax
    BY <2>8, <2>9, <2>10 DEF Holds, Block
  <2>12. Ready(d, i + 1)'
    BY <1>6, <2>2, <2>6, <2>11 DEF Ready
  <2> QED
    BY <2>1, <2>7, <2>8, <2>12, AfterKeeping DEF Block
<1>7. QED
  <2>1. d[1] \notin SingleByteCommon
    BY <1>1, KindOfOne
  <2> QED
    BY <1>1, <1>3, <1>4, <1>5, <1>6, <2>1, Kinds DEF StartByte, Voice

-----------------------------------------------------------------------------
(* One step of transmitter and parser. *)

LEMMA LinkInvTime == LinkInv => TimeInv
BY DEF LinkInv, LinkTypeOK, TimeInv

\* Byte i of a message the transmitter may send now.
LEMMA SendInv ==
  ASSUME NoFailures, LinkInv, NEW d \in Outgoing, NEW i \in 1..Len(d), Ready(d, i),
         SendByte(d, i)
  PROVE  LinkInv'
<1>1. /\ d \in Seq(Byte) /\ Len(d) \in Nat /\ Len(d) > 0
      /\ d[1] \in StartByte /\ d[i] \in Byte
  BY Kinds
<1>2. Feed(d[i])
  BY DEF SendByte
<1>3. TypeOK' /\ TimestampsInOrder'
  BY <1>1, <1>2, FeedInTime, LinkInvTime DEF TimeInv
<1>4. TypeOK /\ NoDanglingMessage
  BY DEF LinkInv, LinkTypeOK
<1>5. \/ i = 1 /\ d[i] \in StatusByte /\ d[i] \notin RealTime
      \/ i \in 2..Len(d) /\ d[i] \in DataByte
      \/ i = Len(d) /\ Len(d) > 1 /\ d[1] = SysexStart /\ d[i] = SysexEnd
  <2>1. d[1] \in StatusByte /\ d[1] \notin RealTime
    BY <1>1, StartByteIsStatus
  <2>2. CASE i = 1
    BY <2>1, <2>2
  <2>3. CASE i # 1 /\ (\A j \in 2..Len(d) : d[j] \in DataByte)
    BY <1>1, <2>3
  <2>4. CASE i # 1 /\ ~(\A j \in 2..Len(d) : d[j] \in DataByte)
    <3>1. /\ d[1] = SysexStart /\ Len(d) > 1
          /\ d[Len(d)] = SysexEnd
          /\ \A j \in 2..(Len(d) - 1) : d[j] \in DataByte
      BY <1>1, <2>4, Kinds, SysexMaxIsNat
    <3> QED
      BY <1>1, <2>4, <3>1
  <2> QED
    BY <2>2, <2>3, <2>4
<1>6. d[i] \notin RealTime
  <2>1. \A b \in DataByte : b \notin RealTime
    BY DEF DataByte, RealTime
  <2> QED
    BY <1>5, <2>1, ClassOfCommon
<1>7. PICK m \in Message :
           /\ m.live
           /\ msg # NULL => m.data = msg.data /\ m.cap = msg.cap
           /\ \/ d[i] \in StatusByte /\ ParseStatus(m, d[i])
              \/ d[i] \in DataByte /\ ParseData(m, d[i])
  BY <1>1, <1>2, <1>4, <1>6, FeedParses
<1>8. \A b \in DataByte : b \notin StatusByte
  BY DEF DataByte, StatusByte
<1>9. CASE i = 1 /\ d[i] \in StatusByte
  BY <1>3, <1>7, <1>8, <1>9, SendStatus
<1>10. CASE i \in 2..Len(d) /\ d[i] \in DataByte
  BY <1>3, <1>7, <1>8, <1>10, SendData
<1>11. CASE i = Len(d) /\ Len(d) > 1 /\ d[1] = SysexStart /\ d[i] = SysexEnd
  <2>1. msg # NULL
    BY <1>1, <1>11, ClassOfCommon, CommonDistinct DEF Ready, Holds
  <2>2. SysexEnd \notin DataByte
    BY ClassOfCommon
  <2> QED
    BY <1>3, <1>7, <1>11, <2>1, <2>2, SendEox
<1>12. QED
  BY <1>5, <1>9, <1>10, <1>11

LEMMA StartInv ==
  ASSUME NoFailures, LinkInv, StartMessage
  PROVE  LinkInv'
<1>1. PICK d \in Outgoing :
           \/ SendByte(d, 1)
           \/ d[1] \in Voice /\ d[1] = txrs /\ SendByte(d, 2)
  BY DEF StartMessage
<1>2. d \in Seq(Byte) /\ Len(d) \in Nat /\ Len(d) > 0
  BY Kinds
<1>3. CASE SendByte(d, 1)
  <2>1. 1 \in 1..Len(d) /\ Ready(d, 1)
    BY <1>2 DEF Ready
  <2> QED
    BY <1>3, <2>1, SendInv
<1>4. CASE d[1] \in Voice /\ d[1] = txrs /\ SendByte(d, 2)
  <2>1. 2 \in 1..Len(d)
    BY <1>2, <1>4, KindOfThree, KindOfTwo DEF Voice
  <2>2. d[1] # 0
    BY <1>4, ClassOfThree, ClassOfTwo DEF Voice
  <2>3. rs = d[1] /\ ~third
    BY <1>4, <2>2 DEF LinkInv, Idle, StartMessage
  <2>4. Ready(d, 2)
    BY <1>4, <2>3 DEF Ready
  <2> QED
    BY <1>4, <2>1, <2>4, SendInv
<1>5. QED
  BY <1>1, <1>3, <1>4

\* A real-time message leaves the half-received message as it is.
LEMMA RealTimeInv ==
  ASSUME NoFailures, LinkInv, SendRealTime
  PROVE  LinkInv'
<1>1. PICK b \in RealTime \cap Bytes :
           Feed(b) /\ expect' = <<b>> /\ UNCHANGED <<cur, pos, txrs>>
  BY DEF SendRealTime
<1>2. b \in Byte /\ b \notin DataByte
  BY DEF RealTime, Byte, DataByte
<1>3. TypeOK' /\ TimestampsInOrder'
  BY <1>1, <1>2, FeedInTime, LinkInvTime DEF TimeInv
<1>4. TypeOK /\ NoDanglingMessage
  BY DEF LinkInv, LinkTypeOK
<1>5. PICK t \in 0..MaxTime : Parse(b, t)
  BY <1>1 DEF Feed
<1>6. RealTimeMessage(b, t)
  BY <1>1, <1>5 DEF NoFailures, Parse
<1>7. DataBlocks = {TRUE}
  BY DEF NoFailures, DataBlocks
<1>8. /\ ret' = [data |-> <<b>>, cap |-> 1, ts |-> t, live |-> TRUE]
      /\ ~fault'
  BY <1>4, <1>6, <1>7 DEF RealTimeMessage, NoDanglingMessage
<1>9. rs' = rs /\ third' = third
  BY <1>6 DEF RealTimeMessage
<1>10. /\ msg' = NULL <=> msg = NULL
       /\ msg # NULL => /\ msg'.data = msg.data /\ msg'.cap = msg.cap
                        /\ msg'.live = msg.live
  <2>1. CASE msg # NULL /\ msg.ts < t
    <3>1. msg \in Message /\ msg' = [msg EXCEPT !.ts = t]
      BY <1>4, <1>6, <2>1 DEF TypeOK, RealTimeMessage
    <3>2. /\ msg'.data = msg.data /\ msg'.cap = msg.cap /\ msg'.live = msg.live
          /\ msg' \in Message
      <4>1. t \in 0..MaxTime
        BY <1>4, ParserAssumption DEF TypeOK
      <4> QED
        BY <3>1, <4>1 DEF Message
    <3> QED
      BY <2>1, <3>2, ParserAssumption
  <2>2. CASE ~(msg # NULL /\ msg.ts < t)
    BY <1>6, <2>2 DEF RealTimeMessage
  <2> QED
    BY <2>1, <2>2
<1>11. RoundTrip'
  <2>1. ret' # NULL
    <3>1. t \in 0..MaxTime /\ <<b>> \in Seq(Byte)
      BY <1>2, <1>4, ParserAssumption DEF TypeOK
    <3>2. ret' \in Message
      BY <1>8, <3>1 DEF Message
    <3> QED
      BY <3>2, ParserAssumption
  <2>2. ret'.data = <<b>> /\ <<b>> # <<>>
    BY <1>8
  <2> QED
    BY <1>1, <2>1, <2>2 DEF RoundTrip
<1>12. LinkTypeOK'
  <2>1. <<b>> \in Seq(Byte)
    BY <1>2
  <2> QED
    BY <1>1, <1>3, <2>1 DEF LinkInv, LinkTypeOK
<1>13. Holds(cur, 2)' = Holds(cur, 2) /\ Holds(cur, pos - 1)' = Holds(cur, pos - 1)
  BY <1>1, <1>10 DEF Holds
<1>14. pos > 0 => cur' \in Outgoing /\ Ready(cur, pos)'
  <2>1. SUFFICES ASSUME pos > 0 PROVE cur' \in Outgoing /\ Ready(cur, pos)'
    OBVIOUS
  <2>2. cur \in Outgoing /\ Ready(cur, pos)
    BY <2>1 DEF LinkInv
  <2> QED
    BY <1>1, <1>9, <1>10, <1>13, <2>2 DEF Ready, Holds
<1>15. NoDanglingMessage' /\ MemorySafe'
  BY <1>4, <1>8, <1>10 DEF NoDanglingMessage, MemorySafe
<1>16. pos = 0 => Idle'
  BY <1>1, <1>9 DEF LinkInv, Idle
<1>17. QED
  BY <1>1, <1>3, <1>11, <1>12, <1>14, <1>15, <1>16 DEF LinkInv

LEMMA LinkStart == LinkInit => LinkInv
<1> SUFFICES ASSUME LinkInit PROVE LinkInv
  OBVIOUS
<1>1. TypeOK /\ TimestampsInOrder
  BY InitInTime DEF LinkInit, TimeInv
<1>2. MemorySafe /\ RoundTrip /\ NoDanglingMessage /\ Idle
  BY DEF LinkInit, Init, MemorySafe, RoundTrip, NoDanglingMessage, Idle
<1>3. LinkTypeOK
  BY <1>1 DEF LinkInit, LinkTypeOK
<1>4. QED
  BY <1>1, <1>2, <1>3 DEF LinkInv, LinkInit

LEMMA LinkStep == NoFailures /\ LinkInv /\ [LinkNext]_linkVars => LinkInv'
<1> SUFFICES ASSUME NoFailures, LinkInv, [LinkNext]_linkVars PROVE LinkInv'
  OBVIOUS
<1>1. CASE StartMessage
  BY <1>1, StartInv
<1>2. CASE ContinueMessage
  <2>1. cur \in Outgoing /\ Ready(cur, pos) /\ SendByte(cur, pos) /\ pos > 0
    BY <1>2 DEF LinkInv, ContinueMessage
  <2>2. pos \in 1..Len(cur)
    BY <2>1, Kinds DEF LinkInv, LinkTypeOK
  <2> QED
    BY <2>1, <2>2, SendInv
<1>3. CASE SendRealTime
  BY <1>3, RealTimeInv
<1>4. CASE BreakOff
  <2>1. /\ TypeOK' /\ MemorySafe' /\ RoundTrip' /\ TimestampsInOrder'
        /\ NoDanglingMessage'
    BY <1>4 DEF LinkInv, LinkTypeOK, BreakOff, parserVars, history, TypeOK,
                MemorySafe, RoundTrip, TimestampsInOrder, SinceLast,
                WrapInterrupts, NoDanglingMessage
  <2>2. pos' = 0 /\ txrs' = 0 /\ cur' = cur /\ expect' = expect
    BY <1>4 DEF BreakOff
  <2>3. LinkTypeOK'
    <3>1. Len(cur) \in Nat
      BY Kinds DEF LinkInv, LinkTypeOK
    <3> QED
      BY <2>1, <2>2, <3>1 DEF LinkInv, LinkTypeOK
  <2> QED
    BY <2>1, <2>2, <2>3 DEF LinkInv, Idle
<1>5. CASE UNCHANGED linkVars
  <2>1. /\ TypeOK' /\ MemorySafe' /\ RoundTrip' /\ TimestampsInOrder'
        /\ NoDanglingMessage'
    BY <1>5 DEF LinkInv, LinkTypeOK, linkVars, parserVars, history, TypeOK,
                MemorySafe, RoundTrip, TimestampsInOrder, SinceLast,
                WrapInterrupts, NoDanglingMessage
  <2> QED
    BY <1>5, <2>1 DEF linkVars, parserVars, LinkInv, LinkTypeOK, Idle, Ready, Holds
<1>6. QED
  BY <1>1, <1>2, <1>3, <1>4, <1>5 DEF LinkNext

\* The parser and the transmitter agree, between any two bytes, on how much of
\* which message is on its way, running status and real-time messages included
\* (the state parse_serial_byte keeps between two bytes).
THEOREM LinkInvariant ==
  ASSUME NoFailures
  PROVE  LinkSpec => []LinkInv
<1>1. LinkInv /\ [LinkNext]_linkVars => LinkInv'
  BY LinkStep
<1>2. QED
  BY LinkStart, <1>1, PTL DEF LinkSpec

\* Whatever well-formed stream reaches it, cut by real-time messages, shortened by
\* running status and broken off anywhere, midi_parse_serial returns exactly the
\* messages sent, each on its last byte.
THEOREM MessagesComeThrough ==
  ASSUME NoFailures
  PROVE  LinkSpec => []RoundTrip
<1>1. LinkInv => RoundTrip
  BY DEF LinkInv
<1>2. QED
  BY <1>1, LinkInvariant, PTL

\* On such a stream, system exclusive included, parse_serial_byte stays inside
\* the blocks it has allocated.
THEOREM LinkIsSafe ==
  ASSUME NoFailures
  PROVE  LinkSpec => []MemorySafe
<1>1. LinkInv => MemorySafe
  BY DEF LinkInv
<1>2. QED
  BY <1>1, LinkInvariant, PTL
=============================================================================
