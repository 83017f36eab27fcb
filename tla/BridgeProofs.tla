---------------------------- MODULE BridgeProofs -----------------------------
(***************************************************************************)
(* For every set of well-formed messages: what the line plays is what was  *)
(* given to uart_midi_write, whole and in order, until a message is        *)
(* dropped; and no message is leaked or freed twice.                       *)
(***************************************************************************)
EXTENDS Bridge, SequenceTheorems, TLAPS

\* A message in fifo_uart_midi_write, not yet shortened.
Fresh == {m \in Message : m.data = m.whole /\ WellFormed(m.data)}

TypeInv ==
  /\ given \in Nat /\ dropped \in Nat /\ bleQueue \in Nat /\ allocated \in Int
  /\ writeFifo \in Seq(Fresh) /\ txFifo \in Seq(Message)
  /\ writing \in Message \cup {NULL}
  /\ rs \in {0} \cup 128..239

\* A receiver's running status and the number of the last message it has heard.
Point == [status : Byte, number : Nat]

After(m, p) ==
  [status |-> StatusAfter(m.whole, p.status),
   number |-> IF m.number = 0 THEN p.number ELSE m.number]

\* At point p the receiver understands m, and m is the next message.
Fits(m, p) == Understood(m.data, p.status) = m.whole /\ m.number \in {0, p.number + 1}

\* Hearing the messages of q one after another leads from point s to point e.
Chain(q, s, e) ==
  \E h \in [1..(Len(q) + 1) -> Point] :
    /\ h[1] = s /\ h[Len(q) + 1] = e
    /\ \A i \in 1..Len(q) : Fits(q[i], h[i]) /\ h[i + 1] = After(q[i], h[i])

Now == [status |-> sink.status, number |-> sink.number]

\* From point p on: the encoder's running status is the receiver's, and the
\* messages not yet shortened are the next ones.
Rest(p) ==
  /\ rs = p.status
  /\ \A i \in 1..Len(writeFifo) : writeFifo[i].number = p.number + i
  /\ given = p.number + Len(writeFifo)

\* At e the receiver has heard fifo_uart_tx_data.
Reaches(e) ==
  /\ Chain(txFifo, Now, e)
  /\ writing = NULL => Rest(e)
  /\ writing # NULL => Fits(writing, e) /\ writing.number = e.number + 1
                       /\ Rest(After(writing, e))

PlayInv ==
  /\ TypeInv
  /\ dropped = 0 => sink.right = TRUE /\ \E e \in Point : Reaches(e)

-----------------------------------------------------------------------------
(* Chains *)

LEMMA AfterType ==
  ASSUME NEW m \in Message, NEW p \in Point
  PROVE  After(m, p) \in Point
<1>1. m.whole \in Seq(Byte) /\ m.whole # <<>> /\ m.number \in Nat
  BY DEF Message
<1>2. m.whole[1] \in Byte
  <2>1. Len(m.whole) \in Nat /\ Len(m.whole) # 0
    BY <1>1, EmptySeq, LenProperties
  <2>2. 1 \in 1..Len(m.whole)
    BY <2>1
  <2> QED
    BY <1>1, <2>2, ElementOfSeq
<1>3. StatusAfter(m.whole, p.status) \in Byte
  BY <1>2 DEF StatusAfter, Point, Byte
<1>4. QED
  BY <1>1, <1>3 DEF After, Point

LEMMA ChainEmpty ==
  ASSUME NEW s \in Point
  PROVE  Chain(<<>>, s, s) /\ \A e \in Point : Chain(<<>>, s, e) => e = s
<1>1. Len(<<>>) = 0
  BY EmptySeq
<1> DEFINE h == [i \in 1..1 |-> s]
<1>2. Chain(<<>>, s, s)
  <2>1. h \in [1..(Len(<<>>) + 1) -> Point] /\ h[1] = s /\ h[Len(<<>>) + 1] = s
    BY <1>1
  <2>2. 1..Len(<<>>) = {}
    BY <1>1
  <2> QED
    BY <2>1, <2>2 DEF Chain
<1>3. ASSUME NEW e \in Point, Chain(<<>>, s, e) PROVE e = s
  BY <1>1, <1>3 DEF Chain
<1>4. QED
  BY <1>2, <1>3

LEMMA ChainAppend ==
  ASSUME NEW q \in Seq(Message), NEW s \in Point, NEW e \in Point, NEW m \in Message,
         Chain(q, s, e), Fits(m, e)
  PROVE  Chain(Append(q, m), s, After(m, e))
<1> DEFINE n == Len(q)
           a == Append(q, m)
<1>1. PICK h \in [1..(n + 1) -> Point] :
        /\ h[1] = s /\ h[n + 1] = e
        /\ \A i \in 1..n : Fits(q[i], h[i]) /\ h[i + 1] = After(q[i], h[i])
  BY DEF Chain
<1>2. n \in Nat /\ Len(a) = n + 1 /\ a[n + 1] = m /\ \A i \in 1..n : a[i] = q[i]
  BY AppendProperties, LenProperties
<1> DEFINE g == [i \in 1..(n + 2) |-> IF i = n + 2 THEN After(m, e) ELSE h[i]]
<1>3. After(m, e) \in Point
  BY AfterType
<1> HIDE DEF n, a
<1>4. g \in [1..(Len(a) + 1) -> Point]
  BY <1>2, <1>3
<1>5. g[1] = s /\ g[Len(a) + 1] = After(m, e)
  BY <1>1, <1>2
<1>6. ASSUME NEW i \in 1..Len(a)
      PROVE  Fits(a[i], g[i]) /\ g[i + 1] = After(a[i], g[i])
  <2>1. CASE i = n + 1
    BY <1>1, <1>2, <2>1
  <2>2. CASE i \in 1..n
    <3>1. g[i] = h[i] /\ g[i + 1] = h[i + 1]
      BY <1>2, <2>2
    <3> QED
      BY <1>1, <1>2, <2>2, <3>1
  <2> QED
    BY <1>2, <2>1, <2>2
<1>7. Chain(a, s, After(m, e))
  BY <1>4, <1>5, <1>6 DEF Chain
<1>8. QED
  BY <1>7 DEF a

LEMMA ChainTail ==
  ASSUME NEW q \in Seq(Message), q # <<>>, NEW s \in Point, NEW e \in Point,
         Chain(q, s, e)
  PROVE  /\ Fits(Head(q), s) /\ After(Head(q), s) \in Point
         /\ Chain(Tail(q), After(Head(q), s), e)
<1> DEFINE n == Len(q)
           t == Tail(q)
<1>1. PICK h \in [1..(n + 1) -> Point] :
        /\ h[1] = s /\ h[n + 1] = e
        /\ \A i \in 1..n : Fits(q[i], h[i]) /\ h[i + 1] = After(q[i], h[i])
  BY DEF Chain
<1>2. /\ n \in Nat /\ n >= 1 /\ Len(t) = n - 1 /\ Head(q) = q[1] /\ Head(q) \in Message
      /\ \A i \in 1..(n - 1) : t[i] = q[i + 1]
  BY HeadTailProperties, LenProperties
<1> HIDE DEF n, t
<1>3. Fits(Head(q), s) /\ h[2] = After(Head(q), s)
  BY <1>1, <1>2
<1>4. After(Head(q), s) \in Point
  BY <1>2, AfterType
<1> DEFINE g == [i \in 1..n |-> h[i + 1]]
<1>5. g \in [1..(Len(t) + 1) -> Point]
  BY <1>2
<1>6. g[1] = After(Head(q), s) /\ g[Len(t) + 1] = e
  BY <1>1, <1>2, <1>3
<1>7. ASSUME NEW i \in 1..Len(t)
      PROVE  Fits(t[i], g[i]) /\ g[i + 1] = After(t[i], g[i])
  <2>1. i + 1 \in 1..n /\ g[i] = h[i + 1] /\ g[i + 1] = h[i + 1 + 1] /\ t[i] = q[i + 1]
    BY <1>2
  <2> QED
    BY <1>1, <2>1
<1>8. Chain(t, After(Head(q), s), e)
  BY <1>5, <1>6, <1>7 DEF Chain
<1>9. QED
  BY <1>3, <1>4, <1>8 DEF t
-----------------------------------------------------------------------------
(* Running status *)

LEMMA FreshLength ==
  ASSUME NEW m \in Fresh
  PROVE  /\ m.whole \in Seq(Byte) /\ m.data = m.whole /\ m.number \in Nat
         /\ Len(m.data) \in Nat /\ Len(m.data) >= 1
         /\ m.data[1] \in Byte /\ m.data[1] >= 128
         /\ m.data[1] < 240 => Len(m.data) >= 2 /\ m.data[2] < 128
<1>1. m.whole \in Seq(Byte) /\ m.whole # <<>> /\ m.data = m.whole /\ m.number \in Nat
  BY DEF Fresh, Message
<1>2. Len(m.data) \in Nat /\ Len(m.data) # 0
  BY <1>1, EmptySeq, LenProperties
<1>3. 1 \in 1..Len(m.data)
  BY <1>2
<1>4. m.data[1] \in Byte
  BY <1>1, <1>3, ElementOfSeq
<1>5. WellFormed(m.data)
  BY DEF Fresh
<1>6. QED
  BY <1>1, <1>2, <1>4, <1>5 DEF WellFormed

LEMMA StatusRange ==
  ASSUME NEW m \in Fresh, NEW r \in {0} \cup 128..239
  PROVE  StatusAfter(m.data, r) \in {0} \cup 128..239
<1>1. m.data[1] \in Byte /\ m.data[1] >= 128
  BY FreshLength
<1>2. QED
  BY <1>1 DEF StatusAfter, Byte

\* What running status takes away the receiver puts back.
LEMMA ShortenedIsUnderstood ==
  ASSUME NEW m \in Fresh, NEW r \in {0} \cup 128..239
  PROVE  /\ Shortened(m.data, r) \in Seq(Byte)
         /\ Understood(Shortened(m.data, r), r) = m.whole
<1> DEFINE d == m.data
<1>1. /\ d \in Seq(Byte) /\ d = m.whole /\ Len(d) \in Nat /\ Len(d) >= 1 /\ d # <<>>
      /\ d[1] \in Byte /\ d[1] >= 128
      /\ d[1] < 240 => Len(d) >= 2 /\ d[2] < 128
  <2>1. d # <<>>
    BY DEF Fresh, Message
  <2> QED
    BY <2>1, FreshLength
<1> HIDE DEF d
<1>2. CASE d[1] # r
  <2>1. Shortened(d, r) = d
    BY <1>2 DEF Shortened
  <2>2. ~(d[1] < 128)
    <3>1. d[1] \in 0..255 /\ d[1] >= 128
      BY <1>1 DEF Byte
    <3>2. \A x \in 0..255 : x >= 128 => ~(x < 128)
      OBVIOUS
    <3> QED
      BY <3>1, <3>2
  <2>3. Understood(d, r) = d
    BY <2>2 DEF Understood
  <2> QED
    BY <1>1, <2>1, <2>3 DEF d
<1>3. CASE d[1] = r
  <2>1. Len(d) >= 2 /\ d[2] < 128
    BY <1>1, <1>3
  <2>2. /\ Tail(d) \in Seq(Byte) /\ Len(Tail(d)) = Len(d) - 1
        /\ \A i \in 1..Len(Tail(d)) : Tail(d)[i] = d[i + 1]
    BY <1>1, HeadTailProperties
  <2>3. Tail(d)[1] < 128
    BY <1>1, <2>1, <2>2
  <2>4. <<r>> \o Tail(d) = d
    <3>1. <<r>> \in Seq(Byte) /\ Len(<<r>>) = 1 /\ <<r>>[1] = r
      BY <1>1, <1>3
    <3>2. /\ Len(<<r>> \o Tail(d)) = Len(d) /\ <<r>> \o Tail(d) \in Seq(Byte)
      BY <1>1, <2>2, <3>1, ConcatProperties
    <3>3. ASSUME NEW i \in 1..Len(d) PROVE (<<r>> \o Tail(d))[i] = d[i]
      BY <1>1, <1>3, <2>2, <3>1, ConcatProperties
    <3> QED
      BY <1>1, <3>2, <3>3, SeqEqual
  <2> QED
    BY <1>1, <1>3, <2>2, <2>3, <2>4 DEF Shortened, Understood, d
<1>4. QED
  BY <1>2, <1>3 DEF d
-----------------------------------------------------------------------------
(* Steps that play *)

\* A transfer of the next message.
LEMMA StartFits ==
  ASSUME NEW m \in Message, Fits(m, Now), Now \in Point, sink.right = TRUE, Start(m)
  PROVE  Now' = After(m, Now) /\ sink'.right = TRUE
<1>1. Understood(m.data, sink.status) = m.whole /\ m.number \in {0, sink.number + 1}
  BY DEF Fits, Now
<1>2. sink' = [status |-> StatusAfter(m.whole, sink.status),
               number |-> IF m.number = 0 THEN sink.number ELSE m.number,
               right  |-> sink.right /\ m.whole = m.whole
                          /\ m.number \in {0, sink.number + 1}]
  BY <1>1 DEF Start
<1>3. sink'.right = (sink.right /\ m.whole = m.whole /\ m.number \in {0, sink.number + 1})
  BY <1>2
<1>4. sink'.right = TRUE
  BY <1>1, <1>3
<1>5. Now' = After(m, Now)
  BY <1>2 DEF Now, After
<1>6. QED
  BY <1>4, <1>5

LEMMA SenseFits ==
  ASSUME NEW p \in Point
  PROVE  LET sense == [data |-> <<254>>, whole |-> <<254>>, number |-> 0]
         IN  sense \in Message /\ Fits(sense, p) /\ After(sense, p) = p
<1>1. <<254>> \in Seq(Byte) /\ <<254>> # <<>>
  BY DEF Byte
<1>2. Understood(<<254>>, p.status) = <<254>> /\ StatusAfter(<<254>>, p.status) = p.status
  BY DEF Understood, StatusAfter
<1>3. p = [status |-> p.status, number |-> p.number]
  BY DEF Point
<1>4. QED
  BY <1>1, <1>2, <1>3 DEF Message, Fits, After

\* Where it has its messages from does not matter to the line.
LEMMA GivenStep ==
  ASSUME PlayInv, NEW d \in Input, UartWrite(d),
         UNCHANGED <<txFifo, sink, dropped, writing, rs>>, allocated' \in Int
  PROVE  PlayInv'
<1> DEFINE m == [data |-> d, whole |-> d, number |-> given + 1]
<1>1. given' = given + 1 /\ writeFifo' = Append(writeFifo, m) /\ bleQueue' = bleQueue
  BY DEF UartWrite, bleVars
<1>2. m \in Fresh
  <2>1. d \in Seq(Byte) /\ d # <<>> /\ WellFormed(d)
    BY BridgeAssumption, WellFormedInput
  <2>2. given + 1 \in Nat
    BY DEF PlayInv, TypeInv
  <2> QED
    BY <2>1, <2>2 DEF Fresh, Message
<1> HIDE DEF m
<1>3. /\ writeFifo \in Seq(Fresh) /\ Len(writeFifo) \in Nat /\ writeFifo' \in Seq(Fresh)
      /\ Len(writeFifo') = Len(writeFifo) + 1
      /\ \A i \in 1..Len(writeFifo) : writeFifo'[i] = writeFifo[i]
      /\ writeFifo'[Len(writeFifo) + 1] = m
  <2>1. writeFifo \in Seq(Fresh)
    BY DEF PlayInv, TypeInv
  <2> QED
    BY <1>1, <1>2, <2>1, AppendProperties, LenProperties
<1>4. TypeInv'
  BY <1>1, <1>3 DEF PlayInv, TypeInv
<1>5. ASSUME NEW p \in Point, Rest(p) PROVE Rest(p)'
  <2>1. rs' = p.status /\ given' = p.number + Len(writeFifo')
    BY <1>1, <1>3, <1>5 DEF Rest, Point
  <2>2. ASSUME NEW i \in 1..Len(writeFifo') PROVE writeFifo'[i].number = p.number + i
    <3>1. CASE i \in 1..Len(writeFifo)
      BY <1>3, <1>5, <3>1 DEF Rest
    <3>2. CASE i = Len(writeFifo) + 1
      <4>1. m.number = given + 1
        BY DEF m
      <4> QED
        BY <1>3, <1>5, <3>2, <4>1 DEF Rest, Point
    <3> QED
      BY <1>3, <3>1, <3>2
  <2> QED
    BY <2>1, <2>2 DEF Rest
<1>6. ASSUME dropped' = 0 PROVE sink'.right = TRUE /\ \E e \in Point : Reaches(e)'
  <2>1. PICK e \in Point : Reaches(e)
    BY <1>6 DEF PlayInv
  <2>2. Chain(txFifo, Now, e)' /\ (writing = NULL => Rest(e)')
    BY <1>5, <2>1 DEF Reaches, Now
  <2>3. writing # NULL => Fits(writing, e) /\ writing.number = e.number + 1
                          /\ Rest(After(writing, e))'
    BY <1>5, <2>1, AfterType DEF Reaches, PlayInv, TypeInv
  <2>4. Reaches(e)'
    BY <2>2, <2>3 DEF Reaches
  <2> QED
    BY <1>6, <2>4 DEF PlayInv
<1>7. QED
  BY <1>4, <1>6 DEF PlayInv
\* uart_midi_write_work_handler takes a message: the receiver will understand it.
LEMMA WriteTakeStep ==
  ASSUME PlayInv, WriteTake
  PROVE  PlayInv'
<1>1. /\ writing = NULL
      /\ UNCHANGED <<given, txFifo, sink, dropped, bleQueue, allocated>>
  BY DEF WriteTake, Begins, lineVars, bleVars
<1>2. CASE writeFifo = <<>>
  <2>1. UNCHANGED <<writeFifo, writing, rs>>
    BY <1>2 DEF WriteTake
  <2> QED
    BY <1>1, <2>1 DEF PlayInv, TypeInv, Reaches, Rest, Now
<1>3. CASE writeFifo # <<>>
  <2> DEFINE m == Head(writeFifo)
             w == [m EXCEPT !.data = Shortened(m.data, rs)]
  <2>1. writeFifo' = Tail(writeFifo) /\ writing' = w /\ rs' = StatusAfter(m.data, rs)
    BY <1>3 DEF WriteTake
  <2>2. /\ writeFifo \in Seq(Fresh) /\ Len(writeFifo) \in Nat /\ Len(writeFifo) >= 1
        /\ m \in Fresh /\ m = writeFifo[1]
        /\ writeFifo' \in Seq(Fresh) /\ Len(writeFifo') = Len(writeFifo) - 1
        /\ \A i \in 1..(Len(writeFifo) - 1) : writeFifo'[i] = writeFifo[i + 1]
    <3>1. writeFifo \in Seq(Fresh)
      BY DEF PlayInv, TypeInv
    <3> QED
      BY <1>3, <2>1, <3>1, HeadTailProperties, LenProperties
  <2>3. rs \in {0} \cup 128..239
    BY DEF PlayInv, TypeInv
  <2>4. /\ m \in Message /\ m.data = m.whole
        /\ Shortened(m.data, rs) \in Seq(Byte)
        /\ Understood(Shortened(m.data, rs), rs) = m.whole
        /\ StatusAfter(m.data, rs) \in {0} \cup 128..239
    BY <2>2, <2>3, ShortenedIsUnderstood, StatusRange, ZenonT(40) DEF Fresh
  <2> HIDE DEF m
  <2>5. /\ w \in Message /\ w.data = Shortened(m.data, rs) /\ w.whole = m.whole
        /\ w.number = m.number
    BY <2>4 DEF Message
  <2> HIDE DEF w
  <2>6. TypeInv'
    BY <1>1, <2>1, <2>2, <2>4, <2>5 DEF PlayInv, TypeInv
  <2>7. ASSUME NEW e \in Point, Reaches(e) PROVE Reaches(e)'
    <3>1. Rest(e) /\ Chain(txFifo, Now, e)
      BY <1>1, <2>7 DEF Reaches
    <3>2. m.number = e.number + 1
      BY <2>2, <3>1 DEF Rest
    <3>3. Fits(w, e)
      BY <2>4, <2>5, <3>1, <3>2 DEF Fits, Rest
    <3>4. /\ After(w, e).status = StatusAfter(m.data, rs)
          /\ After(w, e).number = e.number + 1
      BY <2>4, <2>5, <3>1, <3>2 DEF After, Rest, Point
    <3>5. PICK p \in Point : p = After(w, e)
      BY <2>5, AfterType
    <3>6. Rest(p)'
      <4>1. rs' = p.status
        BY <2>1, <3>4, <3>5
      <4>2. ASSUME NEW i \in 1..Len(writeFifo')
            PROVE  writeFifo'[i].number = p.number + i
        <5>1. i + 1 \in 1..Len(writeFifo) /\ writeFifo'[i] = writeFifo[i + 1]
          BY <2>2
        <5>2. writeFifo[i + 1].number = e.number + (i + 1)
          BY <3>1, <5>1 DEF Rest
        <5> QED
          BY <3>4, <3>5, <5>1, <5>2 DEF Point
      <4>3. given' = p.number + Len(writeFifo')
        BY <1>1, <2>2, <3>1, <3>4, <3>5 DEF Rest, Point
      <4> QED
        BY <4>1, <4>2, <4>3 DEF Rest
    <3>7. Chain(txFifo, Now, e)'
      BY <1>1, <3>1 DEF Now
    <3>8. /\ writing' # NULL /\ After(writing', e) = p
          /\ Fits(writing', e) /\ writing'.number = e.number + 1
      BY <2>1, <2>5, <3>2, <3>3, <3>5, BridgeAssumption
    <3>9. Rest(After(writing, e))'
      BY <3>6, <3>8
    <3> QED
      BY <3>7, <3>8, <3>9 DEF Reaches
  <2> QED
    BY <1>1, <2>6, <2>7 DEF PlayInv
<1>4. QED
  BY <1>2, <1>3

\* ... and sends it, or queues it behind the others.
LEMMA WriteSendStep ==
  ASSUME PlayInv, WriteSend
  PROVE  PlayInv'
<1>1. /\ writing # NULL /\ writing' = NULL /\ SendOrQueue(writing)
      /\ UNCHANGED <<given, writeFifo, rs, dropped, bleQueue>>
  BY DEF WriteSend, bleVars
<1>2. writing \in Message /\ txFifo \in Seq(Message)
  BY <1>1 DEF PlayInv, TypeInv
<1>3. ASSUME NEW e \in Point, Reaches(e)
      PROVE  /\ Fits(writing, e) /\ After(writing, e) \in Point
             /\ Chain(txFifo, Now, e)
             /\ \A p \in Point : p = After(writing, e) => Rest(p)'
  <2>1. /\ Fits(writing, e) /\ Chain(txFifo, Now, e) /\ Rest(After(writing, e))
    BY <1>1, <1>3 DEF Reaches
  <2>2. After(writing, e) \in Point
    BY <1>2, AfterType
  <2>3. ASSUME NEW p \in Point, p = After(writing, e) PROVE Rest(p)'
    BY <1>1, <2>1, <2>3 DEF Rest
  <2> QED
    BY <2>1, <2>2, <2>3
<1>4. CASE txFifo = <<>> /\ wire = NULL
  <2>1. Start(writing) /\ allocated' = allocated - 1 /\ txFifo' = <<>>
    BY <1>1, <1>4 DEF SendOrQueue
  <2>2. TypeInv'
    BY <1>1, <1>2, <1>4, <2>1 DEF PlayInv, TypeInv
  <2>3. ASSUME dropped' = 0 PROVE sink'.right = TRUE /\ \E e \in Point : Reaches(e)'
    <3>1. sink.right = TRUE /\ \E e \in Point : Reaches(e)
      BY <1>1, <2>3 DEF PlayInv
    <3>2. PICK e \in Point : Reaches(e)
      BY <3>1
    <3>3. Chain(<<>>, Now, e)
      BY <1>3, <1>4, <3>2
    <3>4. Now \in Point /\ Now = e
      <4>1. PICK h \in [1..(Len(<<>>) + 1) -> Point] : h[1] = Now
        BY <3>3 DEF Chain
      <4>2. Now \in Point
        BY <4>1, EmptySeq
      <4> QED
        BY <3>3, <4>2, ChainEmpty
    <3>5. Now' = After(writing, e) /\ sink'.right = TRUE
      BY <1>2, <1>3, <2>1, <3>1, <3>2, <3>4, StartFits
    <3>6. PICK p \in Point : p = After(writing, e)
      BY <1>3, <3>2
    <3>7. Chain(txFifo, Now, p)'
      BY <2>1, <3>5, <3>6, ChainEmpty
    <3>8. Rest(p)'
      BY <1>3, <3>2, <3>6
    <3>9. Reaches(p)'
      BY <1>1, <3>7, <3>8 DEF Reaches
    <3> QED
      BY <3>5, <3>9
  <2> QED
    BY <2>2, <2>3 DEF PlayInv
<1>5. CASE ~(txFifo = <<>> /\ wire = NULL)
  <2>1. txFifo' = Append(txFifo, writing) /\ sink' = sink /\ allocated' = allocated
    BY <1>1, <1>5 DEF SendOrQueue
  <2>2. TypeInv'
    BY <1>1, <1>2, <2>1, AppendProperties DEF PlayInv, TypeInv
  <2>3. ASSUME dropped' = 0 PROVE sink'.right = TRUE /\ \E e \in Point : Reaches(e)'
    <3>1. sink.right = TRUE /\ \E e \in Point : Reaches(e)
      BY <1>1, <2>3 DEF PlayInv
    <3>2. PICK e \in Point : Reaches(e)
      BY <3>1
    <3>3. Now \in Point
      <4>1. PICK h \in [1..(Len(txFifo) + 1) -> Point] : h[1] = Now
        BY <1>3, <3>2 DEF Chain
      <4> QED
        BY <1>2, <4>1, LenProperties
    <3>4. Chain(Append(txFifo, writing), Now, After(writing, e))
      BY <1>2, <1>3, <3>2, <3>3, ChainAppend
    <3>5. PICK p \in Point : p = After(writing, e)
      BY <1>3, <3>2
    <3>6. Chain(txFifo, Now, p)'
      BY <2>1, <3>4, <3>5 DEF Now
    <3>7. Rest(p)'
      BY <1>3, <3>2, <3>5
    <3>8. Reaches(p)'
      BY <1>1, <3>6, <3>7 DEF Reaches
    <3> QED
      BY <2>1, <3>1, <3>8
  <2> QED
    BY <2>2, <2>3 DEF PlayInv
<1>6. QED
  BY <1>4, <1>5
\* Active sensing stays out of the numbering and of running status, so that it may
\* overtake what waits.
LEMMA SenseStep ==
  ASSUME PlayInv, SenseWork
  PROVE  PlayInv'
<1> DEFINE sense == [data |-> <<254>>, whole |-> <<254>>, number |-> 0]
<1>1. /\ writing = NULL
      /\ UNCHANGED <<given, writeFifo, writing, rs, dropped, bleQueue>>
  BY DEF SenseWork, Begins, writeVars, bleVars
<1>2. \/ wire = NULL /\ Start(sense) /\ UNCHANGED <<txFifo, allocated>>
      \/ txFifo' = Append(txFifo, sense) /\ allocated' = allocated + 1 /\ UNCHANGED sink
  BY DEF SenseWork
<1>3. sense \in Message /\ \A p \in Point : Fits(sense, p) /\ After(sense, p) = p
  <2>1. <<254>> \in Seq(Byte) /\ <<254>> # <<>>
    BY DEF Byte
  <2> QED
    BY <2>1, SenseFits DEF Message
<1> HIDE DEF sense
<1>4. txFifo \in Seq(Message)
  BY DEF PlayInv, TypeInv
<1>5. TypeInv'
  <2>1. Append(txFifo, sense) \in Seq(Message)
    BY <1>3, <1>4, AppendProperties
  <2>2. txFifo' \in Seq(Message) /\ allocated' \in Int
    <3>1. allocated \in Int /\ allocated + 1 \in Int
      BY DEF PlayInv, TypeInv
    <3> QED
      BY <1>2, <1>4, <2>1, <3>1
  <2> QED
    BY <1>1, <2>2 DEF PlayInv, TypeInv
<1>6. ASSUME dropped' = 0 PROVE sink'.right = TRUE /\ \E e \in Point : Reaches(e)'
  <2>1. sink.right = TRUE /\ \E e \in Point : Reaches(e)
    BY <1>1, <1>6 DEF PlayInv
  <2>2. PICK e \in Point : Reaches(e)
    BY <2>1
  <2>3. Chain(txFifo, Now, e) /\ Rest(e) /\ Rest(e)'
    BY <1>1, <2>2 DEF Reaches, Rest
  <2>4. Now \in Point
    <3>1. PICK h \in [1..(Len(txFifo) + 1) -> Point] : h[1] = Now
      BY <2>3 DEF Chain
    <3> QED
      BY <1>4, <3>1, LenProperties
  <2>5. sink'.right = TRUE /\ Chain(txFifo, Now, e)'
    <3>1. CASE Start(sense) /\ txFifo' = txFifo
      <4>1. Now' = Now /\ sink'.right = TRUE
        BY <1>3, <2>1, <2>4, <3>1, StartFits
      <4> QED
        BY <2>3, <3>1, <4>1
    <3>2. CASE txFifo' = Append(txFifo, sense) /\ sink' = sink
      <4>1. Chain(Append(txFifo, sense), Now, e)
        BY <1>3, <1>4, <2>3, <2>4, ChainAppend
      <4> QED
        BY <2>1, <3>2, <4>1 DEF Now
    <3> QED
      BY <1>2, <3>1, <3>2
  <2> QED
    BY <1>1, <2>3, <2>5 DEF Reaches
<1>7. QED
  BY <1>5, <1>6 DEF PlayInv

\* The next message waiting is transferred, or dropped.
LEMMA EmptyStep ==
  ASSUME PlayInv, EmptyWork
  PROVE  PlayInv'
<1>1. /\ writing = NULL
      /\ UNCHANGED <<given, writeFifo, writing, rs, bleQueue>>
  BY DEF EmptyWork, Begins, writeVars, bleVars
<1>2. CASE txFifo = <<>>
  <2>1. UNCHANGED <<txFifo, sink, dropped, allocated>>
    BY <1>2 DEF EmptyWork, lineVars
  <2> QED
    BY <1>1, <2>1 DEF PlayInv, TypeInv, Reaches, Rest, Now
<1>3. CASE txFifo # <<>>
  <2>1. /\ txFifo' = Tail(txFifo)
        /\ \/ Start(Head(txFifo)) /\ allocated' = allocated - 1 /\ dropped' = dropped
           \/ dropped' = dropped + 1 /\ UNCHANGED <<sink, allocated>>
    BY <1>3 DEF EmptyWork
  <2>2. txFifo \in Seq(Message) /\ Head(txFifo) \in Message /\ Tail(txFifo) \in Seq(Message)
    <3>1. txFifo \in Seq(Message)
      BY DEF PlayInv, TypeInv
    <3> QED
      BY <1>3, <3>1, HeadTailProperties
  <2>3. TypeInv'
    BY <1>1, <2>1, <2>2 DEF PlayInv, TypeInv
  <2>4. ASSUME dropped' = 0 PROVE sink'.right = TRUE /\ \E e \in Point : Reaches(e)'
    <3>1. dropped = 0 /\ Start(Head(txFifo))
      <4>1. dropped \in Nat
        BY DEF PlayInv, TypeInv
      <4> QED
        BY <2>1, <2>4, <4>1
    <3>2. sink.right = TRUE /\ \E e \in Point : Reaches(e)
      BY <3>1 DEF PlayInv
    <3>3. PICK e \in Point : Reaches(e)
      BY <3>2
    <3>4. Chain(txFifo, Now, e) /\ Rest(e) /\ Rest(e)'
      BY <1>1, <3>3 DEF Reaches, Rest
    <3>5. Now \in Point
      <4>1. PICK h \in [1..(Len(txFifo) + 1) -> Point] : h[1] = Now
        BY <3>4 DEF Chain
      <4> QED
        BY <2>2, <4>1, LenProperties
    <3>6. Fits(Head(txFifo), Now) /\ Chain(Tail(txFifo), After(Head(txFifo), Now), e)
      BY <1>3, <2>2, <3>4, <3>5, ChainTail
    <3>7. Now' = After(Head(txFifo), Now) /\ sink'.right = TRUE
      BY <2>2, <3>1, <3>2, <3>5, <3>6, StartFits
    <3>8. Chain(txFifo, Now, e)'
      BY <2>1, <3>6, <3>7
    <3> QED
      BY <1>1, <3>4, <3>7, <3>8 DEF Reaches
  <2> QED
    BY <2>3, <2>4 DEF PlayInv
<1>4. QED
  BY <1>2, <1>3

\* Everything else leaves the messages for the line alone.
LEMMA QuietStep ==
  ASSUME PlayInv, UNCHANGED <<given, writeFifo, txFifo, writing, rs, sink, dropped>>,
         bleQueue' \in Nat, allocated' \in Int
  PROVE  PlayInv'
BY DEF PlayInv, TypeInv, Reaches, Rest, Now

LEMMA PlayInvariant == Spec => []PlayInv
<1>1. Init => PlayInv
  <2> SUFFICES ASSUME Init PROVE PlayInv
    OBVIOUS
  <2>1. <<>> \in Seq(Fresh) /\ <<>> \in Seq(Message) /\ Len(<<>>) = 0
    BY EmptySeq
  <2>2. TypeInv
    BY <2>1 DEF Init, TypeInv
  <2>3. Now = [status |-> 0, number |-> 0] /\ Now \in Point
    BY DEF Init, Now, Point, Byte
  <2>4. Chain(txFifo, Now, Now)
    BY <2>3, ChainEmpty DEF Init
  <2>5. Rest(Now)
    BY <2>1, <2>3 DEF Init, Rest
  <2> QED
    BY <2>2, <2>3, <2>4, <2>5 DEF Init, PlayInv, Reaches
<1>2. PlayInv /\ [Next]_bridgeVars => PlayInv'
  <2> SUFFICES ASSUME PlayInv, [Next]_bridgeVars PROVE PlayInv'
    OBVIOUS
  <2>1. bleQueue \in Nat /\ allocated \in Int
    BY DEF PlayInv, TypeInv
  <2>2. CASE UartIn
    <3>1. UNCHANGED <<txFifo, sink, dropped, writing, rs>> /\ allocated' = allocated + 1
      BY <2>2 DEF UartIn, lineVars
    <3>2. CASE BleWrite
      BY <2>1, <3>1, <3>2, QuietStep DEF BleWrite
    <3>3. CASE \E d \in Input : UartWrite(d)
      BY <2>1, <3>1, <3>3, GivenStep
    <3> QED
      BY <2>2, <3>2, <3>3 DEF UartIn
  <2>3. CASE BleIn
    <3>1. UNCHANGED <<txFifo, sink, dropped, writing, rs>> /\ allocated' = allocated + 1
      BY <2>3 DEF BleIn, lineVars
    <3> QED
      BY <2>1, <2>3, <3>1, GivenStep DEF BleIn
  <2>4. CASE WriteTake
    BY <2>4, WriteTakeStep
  <2>5. CASE WriteSend
    BY <2>5, WriteSendStep
  <2>6. CASE SenseWork
    BY <2>6, SenseStep
  <2>7. CASE EmptyWork
    BY <2>7, EmptyStep
  <2>8. CASE TxDone \/ DelayEnds \/ SenseDue
    BY <2>1, <2>8, QuietStep DEF TxDone, DelayEnds, SenseDue, writeVars, bleVars, lineVars
  <2>9. CASE EncodeWork
    <3>1. UNCHANGED <<given, writeFifo, txFifo, writing, rs, sink, dropped>>
      BY <2>9 DEF EncodeWork, writeVars, lineVars
    <3>2. bleQueue' \in Nat /\ allocated' \in Int
      <4>1. \/ UNCHANGED <<bleQueue, allocated>>
            \/ bleQueue > 0 /\ bleQueue' = bleQueue - 1 /\ allocated' = allocated - 1
        BY <2>9 DEF EncodeWork
      <4> QED
        BY <2>1, <4>1
    <3> QED
      BY <3>1, <3>2, QuietStep
  <2>10. CASE TxWork \/ RadioNotification
    BY <2>1, <2>10, QuietStep DEF TxWork, RadioNotification, writeVars, lineVars
  <2>11. CASE \E from, to \in {"down", "connected", "opening", "ready"} : LinkStep(from, to)
    BY <2>1, <2>11, QuietStep DEF LinkStep, writeVars, lineVars, bleVars
  <2>12. CASE Disconnected
    BY <2>1, <2>12, QuietStep DEF Disconnected, LinkStep, writeVars, lineVars, bleVars
  <2>13. CASE UNCHANGED bridgeVars
    BY <2>1, <2>13, QuietStep DEF bridgeVars, writeVars, lineVars, bleVars
  <2>14. QED
    BY <2>2, <2>3, <2>4, <2>5, <2>6, <2>7, <2>8, <2>9, <2>10, <2>11, <2>12, <2>13
       DEF Next, Uart, Timers, SystemWork, BleWork, Bluetooth, ConnectedCentral,
           DiscoveryComplete, ConnectedPeripheral, WorksInitialised
<1>3. QED
  BY <1>1, <1>2, PTL DEF Spec

\* Whatever well-formed messages come from the two sides, and however the works
\* and the UART interleave: until a message is dropped, the receiver on the line
\* hears what was given to uart_midi_write, whole and in order.
THEOREM PlaysInOrder == Spec => []PlayedInOrder
<1>1. PlayInv => PlayedInOrder
  BY DEF PlayInv, PlayedInOrder
<1>2. QED
  BY <1>1, PlayInvariant, PTL
-----------------------------------------------------------------------------
(* Memory *)

\* Also for messages that are not well-formed.
LeakInv ==
  /\ given \in Nat /\ dropped \in Nat /\ bleQueue \in Nat /\ allocated \in Int
  /\ writeFifo \in Seq({m \in Message : m.data = m.whole}) /\ txFifo \in Seq(Message)
  /\ writing \in Message \cup {NULL}
  /\ NothingLeaked

LEMMA LeakStep ==
  ASSUME LeakInv, Next
  PROVE  LeakInv'
<1> DEFINE G == {m \in Message : m.data = m.whole}
<1>1. /\ given \in Nat /\ dropped \in Nat /\ bleQueue \in Nat /\ allocated \in Int
      /\ writeFifo \in Seq(G) /\ txFifo \in Seq(Message) /\ writing \in Message \cup {NULL}
      /\ Len(writeFifo) \in Nat /\ Len(txFifo) \in Nat /\ InHandler \in Nat
      /\ allocated = Len(writeFifo) + Len(txFifo) + bleQueue + dropped + InHandler
  <2>1. InHandler \in Nat
    BY DEF InHandler
  <2> QED
    BY <2>1, LenProperties DEF LeakInv, NothingLeaked
<1>2. ASSUME NEW d \in Input, UartWrite(d), allocated' = allocated + 1,
             UNCHANGED <<writing, txFifo, dropped>>
      PROVE  LeakInv'
  <2> DEFINE m == [data |-> d, whole |-> d, number |-> given + 1]
  <2>1. /\ given' = given + 1 /\ writeFifo' = Append(writeFifo, m)
        /\ bleQueue' = bleQueue
    BY <1>2 DEF UartWrite, bleVars
  <2>2. m \in G
    BY <1>1, BridgeAssumption DEF Message
  <2> HIDE DEF m, G
  <2>3. writeFifo' \in Seq(G) /\ Len(writeFifo') = Len(writeFifo) + 1
    BY <1>1, <2>1, <2>2, AppendProperties
  <2>4. NothingLeaked'
    <3>1. InHandler' = InHandler
      BY <1>2 DEF InHandler
    <3> QED
      BY <1>1, <1>2, <2>1, <2>3, <3>1 DEF NothingLeaked
  <2> QED
    BY <1>1, <1>2, <2>1, <2>3, <2>4 DEF LeakInv, G
<1>3. ASSUME NEW k \in {-1, 0, 1}, bleQueue' = bleQueue + k, bleQueue' \in Nat,
             allocated' = allocated + k,
             UNCHANGED <<given, dropped, writeFifo, txFifo, writing>>
      PROVE  LeakInv'
  <2>1. InHandler' = InHandler
    BY <1>3 DEF InHandler
  <2>2. NothingLeaked'
    <3>1. allocated' = Len(writeFifo) + Len(txFifo) + bleQueue' + dropped + InHandler
      BY <1>1, <1>3
    <3> QED
      BY <1>3, <2>1, <3>1 DEF NothingLeaked
  <2> QED
    BY <1>1, <1>3, <2>2 DEF LeakInv
<1>4. CASE UartIn
  <2>1. allocated' = allocated + 1 /\ UNCHANGED <<writing, txFifo, dropped>>
    BY <1>4 DEF UartIn, lineVars
  <2>2. CASE BleWrite
    <3>1. bleQueue' = bleQueue + 1 /\ UNCHANGED <<given, writeFifo>>
      BY <2>2 DEF BleWrite
    <3> QED
      BY <1>1, <1>3, <2>1, <3>1
  <2> QED
    BY <1>2, <1>4, <2>1, <2>2 DEF UartIn
<1>5. CASE BleIn
  BY <1>2, <1>5 DEF BleIn, lineVars
<1>6. CASE WriteTake
  <2>1. /\ writing = NULL /\ UNCHANGED <<given, dropped, bleQueue, txFifo, allocated>>
    BY <1>6 DEF WriteTake, Begins, lineVars, bleVars
  <2>2. CASE writeFifo = <<>>
    <3>1. UNCHANGED <<writeFifo, writing>>
      BY <1>6, <2>2 DEF WriteTake
    <3> QED
      BY <1>1, <1>3, <2>1, <3>1
  <2>3. CASE writeFifo # <<>>
    <3> DEFINE m == Head(writeFifo)
    <3>1. /\ writeFifo' = Tail(writeFifo)
          /\ writing' = [m EXCEPT !.data = Shortened(m.data, rs)]
      BY <1>6, <2>3 DEF WriteTake
    <3>2. m \in G /\ writeFifo' \in Seq(G) /\ Len(writeFifo') = Len(writeFifo) - 1
      BY <1>1, <2>3, <3>1, HeadTailProperties
    <3> HIDE DEF m
    <3>3. Shortened(m.data, rs) \in Seq(Byte)
      <4>1. m.data \in Seq(Byte) /\ m.data # <<>>
        BY <3>2 DEF Message
      <4> QED
        BY <4>1, HeadTailProperties DEF Shortened
    <3>4. writing' \in Message /\ writing' # NULL
      <4>1. writing' \in Message
        BY <3>1, <3>2, <3>3 DEF Message
      <4> QED
        BY <4>1, BridgeAssumption
    <3>5. NothingLeaked'
      <4>1. InHandler = 0 /\ InHandler' = 1
        BY <2>1, <3>4 DEF InHandler
      <4> QED
        BY <1>1, <2>1, <3>2, <4>1 DEF NothingLeaked
    <3> QED
      BY <1>1, <2>1, <3>2, <3>4, <3>5 DEF LeakInv
  <2> QED
    BY <2>2, <2>3
<1>7. CASE WriteSend
  <2>1. /\ writing \in Message /\ writing # NULL /\ writing' = NULL
        /\ UNCHANGED <<given, dropped, bleQueue, writeFifo>>
        /\ \/ UNCHANGED txFifo /\ allocated' = allocated - 1
           \/ txFifo' = Append(txFifo, writing) /\ UNCHANGED allocated
    BY <1>1, <1>7 DEF WriteSend, SendOrQueue, bleVars
  <2>2. Append(txFifo, writing) \in Seq(Message) /\ Len(Append(txFifo, writing)) = Len(txFifo) + 1
    BY <1>1, <2>1, AppendProperties
  <2>3. NothingLeaked' /\ allocated' \in Int /\ txFifo' \in Seq(Message)
    <3>1. InHandler = 1 /\ InHandler' = 0
      BY <2>1 DEF InHandler
    <3> QED
      <4>1. CASE UNCHANGED txFifo /\ allocated' = allocated - 1
        BY <1>1, <2>1, <3>1, <4>1 DEF NothingLeaked
      <4>2. CASE txFifo' = Append(txFifo, writing) /\ UNCHANGED allocated
        BY <1>1, <2>1, <2>2, <3>1, <4>2 DEF NothingLeaked
      <4> QED
        BY <2>1, <4>1, <4>2
  <2> QED
    BY <1>1, <2>1, <2>3 DEF LeakInv
<1>8. CASE SenseWork
  <2> DEFINE sense == [data |-> <<254>>, whole |-> <<254>>, number |-> 0]
  <2>1. /\ UNCHANGED <<given, dropped, bleQueue, writeFifo, writing>>
        /\ \/ UNCHANGED <<txFifo, allocated>>
           \/ txFifo' = Append(txFifo, sense) /\ allocated' = allocated + 1
    BY <1>8 DEF SenseWork, writeVars, bleVars
  <2>2. sense \in Message
    <3>1. <<254>> \in Seq(Byte) /\ <<254>> # <<>>
      BY DEF Byte
    <3> QED
      BY <3>1 DEF Message
  <2> HIDE DEF sense
  <2>3. Append(txFifo, sense) \in Seq(Message) /\ Len(Append(txFifo, sense)) = Len(txFifo) + 1
    BY <1>1, <2>2, AppendProperties
  <2>4. NothingLeaked' /\ allocated' \in Int /\ txFifo' \in Seq(Message)
    <3>1. InHandler' = InHandler
      BY <2>1 DEF InHandler
    <3>2. Len(Append(txFifo, sense)) = Len(txFifo) + 1 /\ allocated + 1 \in Int
      BY <1>1, <2>3
    <3>3. CASE UNCHANGED <<txFifo, allocated>>
      BY <1>1, <2>1, <3>1, <3>3 DEF NothingLeaked
    <3>4. CASE txFifo' = Append(txFifo, sense) /\ allocated' = allocated + 1
      BY <1>1, <2>1, <2>3, <3>1, <3>2, <3>4 DEF NothingLeaked
    <3> QED
      BY <2>1, <3>3, <3>4
  <2> QED
    BY <1>1, <2>1, <2>4 DEF LeakInv
<1>9. CASE EmptyWork
  <2>1. UNCHANGED <<given, bleQueue, writeFifo, writing>>
    BY <1>9 DEF EmptyWork, writeVars, bleVars
  <2>2. CASE txFifo = <<>>
    <3>1. UNCHANGED <<txFifo, dropped, allocated>>
      BY <1>9, <2>2 DEF EmptyWork, lineVars
    <3> QED
      BY <1>1, <1>3, <2>1, <3>1
  <2>3. CASE txFifo # <<>>
    <3>1. /\ txFifo' = Tail(txFifo)
          /\ \/ allocated' = allocated - 1 /\ dropped' = dropped
             \/ dropped' = dropped + 1 /\ allocated' = allocated
      BY <1>9, <2>3 DEF EmptyWork
    <3>2. Tail(txFifo) \in Seq(Message) /\ Len(Tail(txFifo)) = Len(txFifo) - 1
      BY <1>1, <2>3, HeadTailProperties
    <3>3. NothingLeaked' /\ allocated' \in Int /\ dropped' \in Nat
      <4>1. InHandler' = InHandler
        BY <2>1 DEF InHandler
      <4>2. CASE allocated' = allocated - 1 /\ dropped' = dropped
        BY <1>1, <2>1, <3>1, <3>2, <4>1, <4>2 DEF NothingLeaked
      <4>3. CASE dropped' = dropped + 1 /\ allocated' = allocated
        BY <1>1, <2>1, <3>1, <3>2, <4>1, <4>3 DEF NothingLeaked
      <4> QED
        BY <3>1, <4>2, <4>3
    <3> QED
      BY <1>1, <2>1, <3>1, <3>2, <3>3 DEF LeakInv
  <2> QED
    BY <2>2, <2>3
<1>10. CASE EncodeWork
  <2>1. /\ UNCHANGED <<given, dropped, writeFifo, txFifo, writing>>
        /\ \/ UNCHANGED <<bleQueue, allocated>>
           \/ bleQueue > 0 /\ bleQueue' = bleQueue - 1 /\ allocated' = allocated - 1
    BY <1>10 DEF EncodeWork, writeVars, lineVars
  <2> QED
    BY <1>1, <1>3, <2>1
<1>11. CASE TxDone \/ DelayEnds \/ SenseDue \/ TxWork \/ RadioNotification
  <2>1. UNCHANGED <<given, dropped, bleQueue, writeFifo, txFifo, writing, allocated>>
    BY <1>11 DEF TxDone, DelayEnds, SenseDue, TxWork, RadioNotification, writeVars, bleVars,
                 lineVars
  <2> QED
    BY <1>1, <1>3, <2>1
<1>12. ASSUME NEW from, NEW to, LinkStep(from, to) PROVE LeakInv'
  <2>1. UNCHANGED <<given, dropped, bleQueue, writeFifo, txFifo, writing, allocated>>
    BY <1>12 DEF LinkStep, writeVars, bleVars, lineVars
  <2> QED
    BY <1>1, <1>3, <2>1
<1>13. CASE ConnectedCentral \/ DiscoveryComplete \/ ConnectedPeripheral
            \/ WorksInitialised \/ Disconnected
  BY <1>12, <1>13 DEF ConnectedCentral, DiscoveryComplete, ConnectedPeripheral,
                      WorksInitialised, Disconnected
<1>14. QED
  BY <1>4, <1>5, <1>6, <1>7, <1>8, <1>9, <1>10, <1>11, <1>13
     DEF Next, Uart, Timers, SystemWork, BleWork, Bluetooth

\* No path through the queues leaks a message or frees one twice, but for those
\* uart_empty_tx_buffer_work_handler drops.
THEOREM NothingLeaks == Spec => []NothingLeaked
<1>1. Init => LeakInv
  <2> SUFFICES ASSUME Init PROVE LeakInv
    OBVIOUS
  <2>1. <<>> \in Seq({m \in Message : m.data = m.whole}) /\ <<>> \in Seq(Message)
        /\ Len(<<>>) = 0
    BY EmptySeq
  <2> QED
    BY <2>1 DEF Init, LeakInv, NothingLeaked, InHandler
<1>2. LeakInv /\ [Next]_bridgeVars => LeakInv'
  <2> SUFFICES ASSUME LeakInv, UNCHANGED bridgeVars PROVE LeakInv'
    BY LeakStep
  <2> QED
    BY DEF LeakInv, NothingLeaked, InHandler, bridgeVars, writeVars, lineVars, bleVars
<1>3. LeakInv => NothingLeaked
  BY DEF LeakInv
<1>4. QED
  BY <1>1, <1>2, <1>3, PTL DEF Spec
=============================================================================
