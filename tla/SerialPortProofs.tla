-------------------------- MODULE SerialPortProofs --------------------------
(***************************************************************************)
(* For every heap, burst size and kind of failure: every message in use    *)
(* has exactly one owner, and the UART reads only a message the transmit   *)
(* thread keeps for it.  With bursts of one byte, what is received is in   *)
(* order; if uart_tx does not fail, what is sent is.                       *)
(***************************************************************************)
EXTENDS SerialPort, SequenceTheorems, FiniteSetTheorems, TLAPS

Distinct(s) == \A i, j \in DOMAIN s : s[i] = s[j] => i = j

InHand(m) == {m} \ {NULL}

\* The messages in use are divided among five owners.
Divided(l, a, r, t, h, k) ==
  /\ l = a \cup r \cup t \cup h \cup k
  /\ a \cap r = {} /\ a \cap t = {} /\ a \cap h = {} /\ a \cap k = {}
  /\ r \cap t = {} /\ r \cap h = {} /\ r \cap k = {}
  /\ t \cap h = {} /\ t \cap k = {}
  /\ h \cap k = {}

\* The transfer under way is the one the transmit thread waits for: it has taken
\* the semaphore, and only the end of the transfer gives it back.
TransferInv ==
  /\ txPc = "start" => txMsg # NULL
  /\ txPc # "wait" => txSem = 0 /\ wire = NULL
  /\ txSem = 1 => wire = NULL
  /\ wire # NULL => wire = txMsg

OwnerInv ==
  /\ TypeOK
  /\ Distinct(rxQueue) /\ Distinct(txQueue)
  /\ Divided(live, app, Elements(rxQueue), Elements(txQueue), InHand(rxMsg), TxHeld)
  /\ TransferInv

-----------------------------------------------------------------------------
(* Queues *)

LEMMA Enqueue ==
  ASSUME NEW s \in Seq(Heap), NEW x \in Heap, Distinct(s), x \notin Elements(s)
  PROVE  /\ Append(s, x) \in Seq(Heap) /\ Distinct(Append(s, x))
         /\ Elements(Append(s, x)) = Elements(s) \cup {x}
<1> DEFINE a == Append(s, x)
<1>1. /\ a \in Seq(Heap) /\ Len(a) = Len(s) + 1
      /\ \A i \in 1..Len(s) : a[i] = s[i]
      /\ a[Len(s) + 1] = x
  BY AppendProperties
<1>2. /\ Len(s) \in Nat
      /\ DOMAIN s = 1..Len(s) /\ DOMAIN a = 1..(Len(s) + 1)
  BY <1>1, LenProperties
<1> HIDE DEF a
<1>3. Distinct(a)
  <2> SUFFICES ASSUME NEW i \in DOMAIN a, NEW j \in DOMAIN a, a[i] = a[j]
               PROVE  i = j
    BY DEF Distinct
  <2>1. CASE i \in 1..Len(s) /\ j \in 1..Len(s)
    BY <2>1, <1>1, <1>2 DEF Distinct
  <2>2. CASE i = Len(s) + 1 /\ j \in 1..Len(s)
    BY <2>2, <1>1, <1>2 DEF Elements
  <2>3. CASE j = Len(s) + 1 /\ i \in 1..Len(s)
    BY <2>3, <1>1, <1>2 DEF Elements
  <2> QED
    BY <1>2, <2>1, <2>2, <2>3
<1>4. Elements(a) = Elements(s) \cup {x}
  <2>1. Elements(a) \subseteq Elements(s) \cup {x}
    <3> SUFFICES ASSUME NEW i \in DOMAIN a PROVE a[i] \in Elements(s) \cup {x}
      BY DEF Elements
    <3> QED
      BY <1>1, <1>2 DEF Elements
  <2>2. Elements(s) \subseteq Elements(a)
    <3> SUFFICES ASSUME NEW i \in DOMAIN s PROVE s[i] \in Elements(a)
      BY DEF Elements
    <3>1. i \in DOMAIN a /\ a[i] = s[i]
      BY <1>1, <1>2
    <3> QED
      BY <3>1 DEF Elements
  <2>3. x \in Elements(a)
    <3>1. Len(s) + 1 \in DOMAIN a
      BY <1>2
    <3> QED
      BY <3>1, <1>1 DEF Elements
  <2> QED
    BY <2>1, <2>2, <2>3
<1>5. QED
  BY <1>1, <1>3, <1>4 DEF a

LEMMA Dequeue ==
  ASSUME NEW s \in Seq(Heap), s # <<>>, Distinct(s)
  PROVE  /\ Head(s) \in Elements(s) /\ Head(s) \in Heap
         /\ Tail(s) \in Seq(Heap) /\ Distinct(Tail(s))
         /\ Elements(Tail(s)) = Elements(s) \ {Head(s)}
<1> DEFINE t == Tail(s)
<1>1. /\ Head(s) \in Heap /\ t \in Seq(Heap) /\ Len(t) = Len(s) - 1
      /\ \A i \in 1..Len(t) : t[i] = s[i + 1]
  BY HeadTailProperties
<1>2. /\ Len(s) \in Nat /\ Len(s) > 0
      /\ DOMAIN s = 1..Len(s) /\ DOMAIN t = 1..(Len(s) - 1)
  BY <1>1, LenProperties, EmptySeq
<1>3. Head(s) = s[1]
  OBVIOUS
<1> HIDE DEF t
<1>4. Distinct(t)
  <2> SUFFICES ASSUME NEW i \in DOMAIN t, NEW j \in DOMAIN t, t[i] = t[j]
               PROVE  i = j
    BY DEF Distinct
  <2>1. s[i + 1] = s[j + 1] /\ i + 1 \in DOMAIN s /\ j + 1 \in DOMAIN s
    BY <1>1, <1>2
  <2>2. i + 1 = j + 1
    BY <2>1 DEF Distinct
  <2> QED
    BY <2>2, <1>2
<1>5. Head(s) \in Elements(s)
  BY <1>2, <1>3 DEF Elements
<1>6. Elements(t) \subseteq Elements(s) \ {Head(s)}
  <2> SUFFICES ASSUME NEW i \in DOMAIN t PROVE t[i] \in Elements(s) \ {Head(s)}
    BY DEF Elements
  <2>1. t[i] = s[i + 1] /\ i + 1 \in DOMAIN s /\ 1 \in DOMAIN s /\ i + 1 # 1
    BY <1>1, <1>2
  <2>2. s[i + 1] # s[1]
    BY <2>1 DEF Distinct
  <2> QED
    BY <2>1, <2>2, <1>3 DEF Elements
<1>7. Elements(s) \ {Head(s)} \subseteq Elements(t)
  <2> SUFFICES ASSUME NEW i \in DOMAIN s, s[i] # s[1] PROVE s[i] \in Elements(t)
    BY <1>3 DEF Elements
  <2>1. i - 1 \in DOMAIN t /\ t[i - 1] = s[i]
    BY <1>1, <1>2
  <2> QED
    BY <2>1 DEF Elements
<1>8. QED
  BY <1>1, <1>4, <1>5, <1>6, <1>7 DEF t

\* A queue without repetitions holds as many messages as it is long.
LEMMA Counted ==
  ASSUME NEW s \in Seq(Heap), Distinct(s)
  PROVE  IsFiniteSet(Elements(s)) /\ Cardinality(Elements(s)) = Len(s)
<1>1. Len(s) \in Nat /\ DOMAIN s = 1..Len(s)
  BY LenProperties
<1>2. s \in [1..Len(s) -> Elements(s)]
  BY <1>1, IsASeq DEF Elements
<1>3. s \in Bijection(1..Len(s), Elements(s))
  BY <1>1, <1>2 DEF Bijection, Injection, Surjection, IsInjective, Distinct, Elements
<1>4. IsFiniteSet(1..Len(s)) /\ Cardinality(1..Len(s)) = Len(s)
  BY <1>1, FS_Interval
<1>5. ExistsBijection(1..Len(s), Elements(s))
  BY <1>3 DEF ExistsBijection
<1>6. QED
  BY <1>4, <1>5, FS_Bijection

-----------------------------------------------------------------------------
(* Types *)

LEMMA LaterType == \A n \in 0..(Labels - 1), k \in Nat : Later(n, k) \in 0..(Labels - 1)
<1>1. Labels \in Nat
  BY SerialAssumption
<1>2. Cardinality(Heap) \in Nat
  BY SerialAssumption, FS_CardinalityType
<1>3. Labels > 0
  BY <1>1, <1>2, SerialAssumption
<1>4. \A y \in Nat : y % Labels \in 0..(Labels - 1)
  BY <1>1, <1>3
<1>5. QED
  BY <1>1, <1>4 DEF Later

LEMMA Start == Init => OwnerInv
<1> SUFFICES ASSUME Init PROVE OwnerInv
  OBVIOUS
<1>1. Labels \in Nat /\ 0 \in 0..(Labels - 1)
  <2>1. Cardinality(Heap) \in Nat /\ Labels \in Nat /\ Labels > Cardinality(Heap)
    BY SerialAssumption, FS_CardinalityType
  <2> QED
    BY <2>1
<1>2. <<>> \in Seq(Heap)
  BY EmptySeq
<1>3. TypeOK
  <2>1. rxQueue \in Seq(Heap) /\ txQueue \in Seq(Heap)
    BY <1>2 DEF Init
  <2>2. label \in [Heap -> 0..(Labels - 1)]
    BY <1>1 DEF Init
  <2>3. {arrived, received, accepted, sent} \subseteq 0..(Labels - 1) /\ txSem \in 0..1
    BY <1>1 DEF Init
  <2> QED
    BY <2>1, <2>2, <2>3 DEF Init, TypeOK
<1>4. Elements(<<>>) = {} /\ Distinct(<<>>)
  <2>1. DOMAIN <<>> = {}
    OBVIOUS
  <2> QED
    BY <2>1 DEF Elements, Distinct
<1>5. Divided(live, app, Elements(rxQueue), Elements(txQueue), InHand(rxMsg), TxHeld)
  BY <1>4 DEF Init, Divided, InHand, TxHeld
<1>6. TransferInv
  BY DEF Init, TransferInv
<1>7. Distinct(rxQueue) /\ Distinct(txQueue)
  BY <1>4 DEF Init
<1>8. QED
  BY <1>3, <1>5, <1>6, <1>7 DEF OwnerInv

-----------------------------------------------------------------------------
(* The driver *)

LEMMA RxReadyStep == OwnerInv /\ RxReady => OwnerInv'
<1> SUFFICES ASSUME OwnerInv, RxReady PROVE OwnerInv'
  OBVIOUS
<1>1. arrived' \in 0..(Labels - 1)
  BY LaterType, SerialAssumption DEF OwnerInv, TypeOK, RxReady
<1>2. CASE /\ CanExhaust /\ live = Heap
           /\ fault' = TRUE
           /\ UNCHANGED <<live, label, rxQueue>>
  BY <1>1, <1>2 DEF OwnerInv, RxReady, txVars, TypeOK, Divided, InHand, TxHeld, TransferInv
<1>3. ASSUME NEW m \in Heap \ live,
             live' = live \cup {m},
             label' = [label EXCEPT ![m] = arrived],
             rxQueue' = Append(rxQueue, m),
             UNCHANGED fault
      PROVE  OwnerInv'
  <2>1. m \notin Elements(rxQueue)
    BY <1>3 DEF OwnerInv, Divided
  <2>2. /\ rxQueue' \in Seq(Heap) /\ Distinct(rxQueue')
        /\ Elements(rxQueue') = Elements(rxQueue) \cup {m}
    BY <1>3, <2>1, Enqueue DEF OwnerInv, TypeOK
  <2>3. TypeOK'
    BY <1>1, <1>3, <2>2 DEF OwnerInv, TypeOK, RxReady, txVars
  <2>4. /\ app' = app /\ Elements(txQueue)' = Elements(txQueue)
        /\ InHand(rxMsg)' = InHand(rxMsg) /\ TxHeld' = TxHeld
    BY DEF RxReady, txVars, TxHeld, InHand
  <2>5. Divided(live, app, Elements(rxQueue), Elements(txQueue), InHand(rxMsg), TxHeld)'
    BY <1>3, <2>2, <2>4 DEF OwnerInv, Divided
  <2>6. TransferInv' /\ Distinct(txQueue)'
    BY DEF OwnerInv, TransferInv, RxReady, txVars, Distinct
  <2> QED
    BY <2>2, <2>3, <2>5, <2>6 DEF OwnerInv
<1>4. QED
  BY <1>2, <1>3 DEF RxReady

LEMMA TxDoneStep == OwnerInv /\ TxDone => OwnerInv'
<1> SUFFICES ASSUME OwnerInv, TxDone PROVE OwnerInv'
  OBVIOUS
<1>1. txPc = "wait"
  BY DEF OwnerInv, TransferInv, TxDone, TypeOK
<1>2. TypeOK' /\ TransferInv'
  BY <1>1 DEF OwnerInv, TransferInv, TxDone, TypeOK, rxVars
<1>3. QED
  BY <1>2 DEF OwnerInv, TxDone, rxVars, Divided, InHand, TxHeld, Distinct

\* The other steps of driver and line, and callbacks set or cleared.
LEMMA LineStep ==
  OwnerInv /\ (RxStopped \/ LineFails \/ LineRecovers \/ SetCallback) => OwnerInv'
<1> SUFFICES ASSUME OwnerInv, RxStopped \/ LineFails \/ LineRecovers \/ SetCallback
             PROVE  OwnerInv'
  OBVIOUS
<1>1. /\ UNCHANGED <<live, label, app, rxQueue, rxMsg, arrived, received, txVars, fault>>
      /\ {rxCb', txCb', rxOn', lineUp'} \subseteq BOOLEAN
  <2>1. CASE RxStopped
    BY <2>1 DEF RxStopped, OwnerInv, TypeOK, txVars
  <2>2. CASE LineFails
    BY <2>2 DEF LineFails, OwnerInv, TypeOK, txVars
  <2>3. CASE LineRecovers
    BY <2>3 DEF LineRecovers, OwnerInv, TypeOK, txVars
  <2>4. CASE SetCallback
    BY <2>4 DEF SetCallback, OwnerInv, TypeOK, txVars, rxVars
  <2> QED
    BY <2>1, <2>2, <2>3, <2>4
<1>2. TypeOK'
  BY <1>1 DEF OwnerInv, TypeOK, txVars
<1>3. QED
  BY <1>1, <1>2 DEF OwnerInv, txVars, Divided, InHand, TxHeld, TransferInv, Distinct

-----------------------------------------------------------------------------
(* The threads *)

LEMMA RxTakeStep == OwnerInv /\ RxTake => OwnerInv'
<1> SUFFICES ASSUME OwnerInv, RxTake PROVE OwnerInv'
  OBVIOUS
<1>1. /\ Head(rxQueue) \in Elements(rxQueue) /\ Head(rxQueue) \in Heap
      /\ rxQueue' \in Seq(Heap) /\ Distinct(rxQueue')
      /\ Elements(rxQueue') = Elements(rxQueue) \ {Head(rxQueue)}
  BY Dequeue DEF OwnerInv, TypeOK, RxTake
<1>2. InHand(rxMsg) = {} /\ InHand(rxMsg)' = {Head(rxQueue)}
  BY <1>1, SerialAssumption DEF RxTake, InHand
<1>3. TypeOK'
  BY <1>1 DEF OwnerInv, TypeOK, RxTake, txVars
<1>4. /\ live' = live /\ app' = app /\ Elements(txQueue)' = Elements(txQueue)
      /\ TxHeld' = TxHeld
  BY DEF RxTake, txVars, TxHeld
<1>5. Divided(live, app, Elements(rxQueue), Elements(txQueue), InHand(rxMsg), TxHeld)'
  BY <1>1, <1>2, <1>4 DEF OwnerInv, Divided
<1>6. TransferInv' /\ Distinct(txQueue)'
  BY DEF OwnerInv, TransferInv, RxTake, txVars, Distinct
<1>7. QED
  BY <1>1, <1>3, <1>5, <1>6 DEF OwnerInv

LEMMA RxHandOverStep == OwnerInv /\ RxHandOver => OwnerInv'
<1> SUFFICES ASSUME OwnerInv, RxHandOver PROVE OwnerInv'
  OBVIOUS
<1>1. rxMsg \in Heap /\ InHand(rxMsg) = {rxMsg} /\ InHand(rxMsg)' = {}
  BY DEF RxHandOver, InHand, OwnerInv, TypeOK
<1>2. label[rxMsg] \in 0..(Labels - 1)
  BY <1>1 DEF OwnerInv, TypeOK
<1>3. received' \in 0..(Labels - 1)
  BY <1>2, LaterType DEF RxHandOver
<1>4. /\ Elements(rxQueue)' = Elements(rxQueue) /\ Elements(txQueue)' = Elements(txQueue)
      /\ TxHeld' = TxHeld
  BY DEF RxHandOver, txVars, TxHeld
<1>5. \/ app' = app \cup {rxMsg} /\ live' = live
      \/ live' = live \ {rxMsg} /\ app' = app
  BY DEF RxHandOver, HandOver
<1>6. Divided(live, app, Elements(rxQueue), Elements(txQueue), InHand(rxMsg), TxHeld)'
  BY <1>1, <1>4, <1>5 DEF OwnerInv, Divided
<1>7. TypeOK'
  BY <1>1, <1>3, <1>5 DEF OwnerInv, TypeOK, RxHandOver, txVars
<1>8. TransferInv' /\ Distinct(txQueue)' /\ Distinct(rxQueue)'
  BY DEF OwnerInv, TransferInv, RxHandOver, txVars, Distinct
<1>9. QED
  BY <1>6, <1>7, <1>8 DEF OwnerInv

LEMMA TxWaitStep == OwnerInv /\ TxWait => OwnerInv'
<1> SUFFICES ASSUME OwnerInv, TxWait PROVE OwnerInv'
  OBVIOUS
<1>1. TxHeld = InHand(txMsg) /\ TxHeld' = {}
  BY DEF TxWait, TxHeld, InHand
<1>2. /\ Elements(rxQueue)' = Elements(rxQueue) /\ Elements(txQueue)' = Elements(txQueue)
      /\ InHand(rxMsg)' = InHand(rxMsg)
  BY DEF TxWait, rxVars, InHand
<1>3. \/ txMsg = NULL /\ app' = app /\ live' = live
      \/ txMsg # NULL /\ app' = app \cup {txMsg} /\ live' = live
      \/ txMsg # NULL /\ live' = live \ {txMsg} /\ app' = app
  BY DEF TxWait, HandOver
<1>4. Divided(live, app, Elements(rxQueue), Elements(txQueue), InHand(rxMsg), TxHeld)'
  BY <1>1, <1>2, <1>3 DEF OwnerInv, Divided, InHand
<1>5. live' \subseteq Heap /\ app' \subseteq Heap
  BY <1>3 DEF OwnerInv, TypeOK
<1>6. TypeOK'
  BY <1>5 DEF OwnerInv, TypeOK, TxWait, rxVars
<1>7. TransferInv' /\ Distinct(txQueue)' /\ Distinct(rxQueue)'
  BY DEF OwnerInv, TransferInv, TxWait, rxVars, Distinct
<1>8. QED
  BY <1>4, <1>6, <1>7 DEF OwnerInv

LEMMA TxTakeStep == OwnerInv /\ TxTake => OwnerInv'
<1> SUFFICES ASSUME OwnerInv, TxTake PROVE OwnerInv'
  OBVIOUS
<1>1. /\ Head(txQueue) \in Elements(txQueue) /\ Head(txQueue) \in Heap
      /\ txQueue' \in Seq(Heap) /\ Distinct(txQueue')
      /\ Elements(txQueue') = Elements(txQueue) \ {Head(txQueue)}
  BY Dequeue DEF OwnerInv, TypeOK, TxTake
<1>2. TxHeld = {} /\ TxHeld' = {Head(txQueue)} /\ txMsg' # NULL
  BY <1>1, SerialAssumption DEF TxTake, TxHeld
<1>3. TypeOK'
  BY <1>1 DEF OwnerInv, TypeOK, TxTake, rxVars
<1>4. /\ live' = live /\ app' = app /\ Elements(rxQueue)' = Elements(rxQueue)
      /\ InHand(rxMsg)' = InHand(rxMsg)
  BY DEF TxTake, rxVars, InHand
<1>5. Divided(live, app, Elements(rxQueue), Elements(txQueue), InHand(rxMsg), TxHeld)'
  BY <1>1, <1>2, <1>4 DEF OwnerInv, Divided
<1>6. TransferInv' /\ Distinct(rxQueue)'
  BY <1>2 DEF OwnerInv, TransferInv, TxTake, rxVars, Distinct
<1>7. QED
  BY <1>1, <1>3, <1>5, <1>6 DEF OwnerInv

LEMMA TxStartStep == OwnerInv /\ TxStart => OwnerInv'
<1> SUFFICES ASSUME OwnerInv, TxStart PROVE OwnerInv'
  OBVIOUS
<1>1. txMsg \in Heap /\ wire = NULL /\ txSem = 0
  BY DEF OwnerInv, TransferInv, TypeOK, TxStart
<1>2. label[txMsg] \in 0..(Labels - 1)
  BY <1>1 DEF OwnerInv, TypeOK
<1>3. sent' \in 0..(Labels - 1) /\ wire' \in {NULL, txMsg}
  BY <1>1, <1>2, LaterType DEF OwnerInv, TypeOK, TxStart
<1>4. TypeOK'
  BY <1>1, <1>3 DEF OwnerInv, TypeOK, TxStart, rxVars
<1>5. TxHeld' = TxHeld
  BY DEF TxStart, TxHeld
<1>6. TransferInv'
  BY <1>1, <1>3 DEF OwnerInv, TransferInv, TxStart
<1>7. QED
  BY <1>4, <1>5, <1>6 DEF OwnerInv, TxStart, rxVars, Divided, InHand, Distinct

-----------------------------------------------------------------------------
(* The application *)

LEMMA AppStep == OwnerInv /\ (AppAlloc \/ AppFree) => OwnerInv'
<1> SUFFICES ASSUME OwnerInv, AppAlloc \/ AppFree PROVE OwnerInv'
  OBVIOUS
<1>1. UNCHANGED <<label, rxCb, txCb, rxVars, txVars, fault>>
  BY DEF AppAlloc, AppFree
<1>2. \/ \E m \in Heap \ live : live' = live \cup {m} /\ app' = app \cup {m}
      \/ \E m \in app : live' = live \ {m} /\ app' = app \ {m}
  BY DEF AppAlloc, AppFree
<1>3. /\ Elements(rxQueue)' = Elements(rxQueue) /\ Elements(txQueue)' = Elements(txQueue)
      /\ InHand(rxMsg)' = InHand(rxMsg) /\ TxHeld' = TxHeld
  BY <1>1 DEF rxVars, txVars, InHand, TxHeld
<1>4. Divided(live, app, Elements(rxQueue), Elements(txQueue), InHand(rxMsg), TxHeld)'
  BY <1>2, <1>3 DEF OwnerInv, Divided
<1>5. live' \subseteq Heap /\ app' \subseteq Heap
  BY <1>2 DEF OwnerInv, TypeOK
<1>6. TypeOK' /\ TransferInv' /\ Distinct(txQueue)' /\ Distinct(rxQueue)'
  BY <1>1, <1>5 DEF OwnerInv, TypeOK, TransferInv, rxVars, txVars, Distinct
<1>7. QED
  BY <1>4, <1>6 DEF OwnerInv

LEMMA SendStep == OwnerInv /\ Send => OwnerInv'
<1> SUFFICES ASSUME OwnerInv, Send PROVE OwnerInv'
  OBVIOUS
<1>1. PICK m \in app : /\ app' = app \ {m}
                       /\ label' = [label EXCEPT ![m] = accepted]
                       /\ txQueue' = Append(txQueue, m)
  BY DEF Send
<1>2. m \in Heap /\ m \notin Elements(txQueue)
  BY DEF OwnerInv, TypeOK, Divided
<1>3. /\ txQueue' \in Seq(Heap) /\ Distinct(txQueue')
      /\ Elements(txQueue') = Elements(txQueue) \cup {m}
  BY <1>1, <1>2, Enqueue DEF OwnerInv, TypeOK
<1>4. accepted' \in 0..(Labels - 1)
  BY LaterType DEF OwnerInv, TypeOK, Send
<1>5. TypeOK'
  BY <1>1, <1>3, <1>4 DEF OwnerInv, TypeOK, Send, rxVars
<1>6. /\ live' = live /\ Elements(rxQueue)' = Elements(rxQueue)
      /\ InHand(rxMsg)' = InHand(rxMsg) /\ TxHeld' = TxHeld
  BY DEF Send, rxVars, InHand, TxHeld
<1>7. Divided(live, app, Elements(rxQueue), Elements(txQueue), InHand(rxMsg), TxHeld)'
  BY <1>1, <1>3, <1>6 DEF OwnerInv, Divided
<1>8. TransferInv' /\ Distinct(rxQueue)'
  BY DEF OwnerInv, TransferInv, Send, rxVars, Distinct
<1>9. QED
  BY <1>3, <1>5, <1>7, <1>8 DEF OwnerInv

-----------------------------------------------------------------------------
(* Theorems *)

LEMMA OwnerInvariant == Spec => []OwnerInv
<1>1. OwnerInv /\ [Next]_serialVars => OwnerInv'
  <2> SUFFICES ASSUME OwnerInv, [Next]_serialVars PROVE OwnerInv'
    OBVIOUS
  <2>1. CASE UNCHANGED serialVars
    BY <2>1 DEF serialVars, rxVars, txVars, OwnerInv, TypeOK, Distinct, Divided,
                InHand, TxHeld, TransferInv
  <2>2. CASE Next
    BY <2>2, RxReadyStep, TxDoneStep, LineStep, RxTakeStep, RxHandOverStep, TxWaitStep,
       TxTakeStep, TxStartStep, AppStep, SendStep
       DEF Next, Driver, RxThread, TxThread, Application
  <2> QED
    BY <2>1, <2>2
<1>2. QED
  BY <1>1, Start, PTL DEF Spec

\* The lengths of the queues and the sizes of the owners' shares add up.
LEMMA SharesAddUp == OwnerInv => OneOwner
<1> SUFFICES ASSUME OwnerInv PROVE OneOwner
  OBVIOUS
<1> DEFINE r == Elements(rxQueue)
           t == Elements(txQueue)
           h == InHand(rxMsg)
           k == TxHeld
<1>1. /\ IsFiniteSet(r) /\ Cardinality(r) = Len(rxQueue)
      /\ IsFiniteSet(t) /\ Cardinality(t) = Len(txQueue)
  BY Counted DEF OwnerInv, TypeOK
<1>2. IsFiniteSet(live) /\ IsFiniteSet(app) /\ IsFiniteSet(h) /\ IsFiniteSet(k)
  <2>1. live \subseteq Heap /\ app \subseteq live /\ h \subseteq live /\ k \subseteq live
    BY DEF OwnerInv, TypeOK, Divided
  <2>2. IsFiniteSet(live)
    BY <2>1, SerialAssumption, FS_Subset
  <2> QED
    BY <2>1, <2>2, FS_Subset
<1>3. Divided(live, app, r, t, h, k)
  BY DEF OwnerInv
<1> HIDE DEF r, t, h, k
<1>4. \A S, T : IsFiniteSet(S) /\ IsFiniteSet(T) /\ S \cap T = {} =>
        IsFiniteSet(S \cup T) /\ Cardinality(S \cup T) = Cardinality(S) + Cardinality(T)
  <2> SUFFICES ASSUME NEW S, NEW T, IsFiniteSet(S), IsFiniteSet(T), S \cap T = {}
               PROVE  /\ IsFiniteSet(S \cup T)
                      /\ Cardinality(S \cup T) = Cardinality(S) + Cardinality(T)
    OBVIOUS
  <2>1. Cardinality(S) \in Nat /\ Cardinality(T) \in Nat /\ Cardinality(S \cap T) = 0
    BY FS_CardinalityType, FS_EmptySet
  <2>2. /\ IsFiniteSet(S \cup T)
        /\ Cardinality(S \cup T) = Cardinality(S) + Cardinality(T) - Cardinality(S \cap T)
    BY FS_Union
  <2> QED
    BY <2>1, <2>2
<1>5. /\ IsFiniteSet(app \cup r) /\ Cardinality(app \cup r) = Cardinality(app) + Cardinality(r)
  BY <1>1, <1>2, <1>3, <1>4 DEF Divided
<1>6. /\ IsFiniteSet(app \cup r \cup t)
      /\ Cardinality(app \cup r \cup t) = Cardinality(app \cup r) + Cardinality(t)
  <2>1. (app \cup r) \cap t = {}
    BY <1>3 DEF Divided
  <2> QED
    BY <1>1, <1>4, <1>5, <2>1
<1>7. /\ IsFiniteSet(app \cup r \cup t \cup h)
      /\ Cardinality(app \cup r \cup t \cup h) = Cardinality(app \cup r \cup t) + Cardinality(h)
  <2>1. (app \cup r \cup t) \cap h = {}
    BY <1>3 DEF Divided
  <2> QED
    BY <1>2, <1>4, <1>6, <2>1
<1>8. Cardinality(live) = Cardinality(app \cup r \cup t \cup h) + Cardinality(k)
  <2>1. (app \cup r \cup t \cup h) \cap k = {} /\ live = (app \cup r \cup t \cup h) \cup k
    BY <1>3 DEF Divided
  <2> QED
    BY <1>2, <1>4, <1>7, <2>1
<1>9. Cardinality(live) = Cardinality(app) + Len(rxQueue) + Len(txQueue)
                          + Cardinality(h) + Cardinality(k)
  BY <1>1, <1>5, <1>6, <1>7, <1>8
<1>10. live = app \cup (r \cup t) \cup (h \cup k)
  BY <1>3 DEF Divided
<1>11. QED
  BY <1>9, <1>10 DEF OneOwner, r, t, h, k, InHand

\* No message is leaked, freed twice or queued while somebody else may free it,
\* for every heap and whatever fails (send_to_serial_port, uart_cb, both threads).
THEOREM EveryMessageHasOneOwner == Spec => []OneOwner
BY OwnerInvariant, SharesAddUp, PTL

\* The UART never reads a message that has been handed back or freed: tx_sem is
\* given only by the end of the transfer (uart_cb, midi_tx_thread).
THEOREM TransferIsOwned == Spec => []WireOwned
<1>1. OwnerInv => WireOwned
  <2> SUFFICES ASSUME OwnerInv, wire # NULL
               PROVE  wire \in live /\ wire = txMsg /\ txPc = "wait" /\ txSem = 0
    BY DEF WireOwned
  <2>1. wire = txMsg /\ txPc = "wait" /\ txSem = 0
    BY DEF OwnerInv, TransferInv, TypeOK
  <2>2. wire \in TxHeld
    BY <2>1 DEF TxHeld
  <2> QED
    BY <2>1, <2>2 DEF OwnerInv, Divided
<1>2. QED
  BY <1>1, OwnerInvariant, PTL

-----------------------------------------------------------------------------
(* Order. *)

\* The messages of queue q carry consecutive labels of lb, from first to the one
\* before next.
Chain(q, lb, first, next) ==
  /\ q = <<>> => next = first
  /\ q # <<>> => lb[q[1]] = first /\ next = Later(lb[q[Len(q)]], 1)
  /\ \A i, j \in DOMAIN q : j = i + 1 => lb[q[j]] = Later(lb[q[i]], 1)

\* The bytes the application has not seen are those of rxMsg and the queue.
RxOrder ==
  IF rxMsg = NULL THEN Chain(rxQueue, label, received, arrived)
  ELSE /\ label[rxMsg] = received
       /\ Chain(rxQueue, label, Later(received, 1), arrived)

\* The messages the UART has not been given are that of midi_tx_thread, until it
\* has started the transfer, and the queue.
TxOrder ==
  IF txPc = "start"
  THEN /\ label[txMsg] = sent
       /\ Chain(txQueue, label, Later(sent, 1), accepted)
  ELSE Chain(txQueue, label, sent, accepted)

LEMMA ChainAppend ==
  ASSUME NEW q \in Seq(Heap), NEW m \in Heap, NEW lb, NEW new, NEW first, NEW next,
         Chain(q, lb, first, next),
         \A x \in Elements(q) : new[x] = lb[x],
         new[m] = next
  PROVE  Chain(Append(q, m), new, first, Later(next, 1))
<1> DEFINE a == Append(q, m)
           k == Len(q)
<1>1. /\ Len(a) = k + 1 /\ a[k + 1] = m
      /\ \A i \in 1..k : a[i] = q[i]
  BY AppendProperties
<1>2. /\ k \in Nat /\ a \in Seq(Heap) /\ a # <<>>
      /\ DOMAIN q = 1..k /\ DOMAIN a = 1..(k + 1)
  BY <1>1, AppendProperties, LenProperties
<1>3. q = <<>> <=> k = 0
  BY EmptySeq
<1> HIDE DEF a, k
<1>4. \A i \in 1..k : new[a[i]] = lb[q[i]]
  BY <1>1, <1>2 DEF Elements
<1>5. new[a[1]] = first
  <2>1. CASE k = 0
    BY <1>1, <1>2, <1>3, <2>1 DEF Chain
  <2>2. CASE k # 0
    BY <1>2, <1>3, <1>4, <2>2 DEF Chain
  <2> QED
    BY <2>1, <2>2
<1>6. ASSUME NEW i \in 1..(k + 1), NEW j \in 1..(k + 1), j = i + 1
      PROVE  new[a[j]] = Later(new[a[i]], 1)
  <2>1. CASE j \in 1..k
    <3>1. i \in 1..k
      BY <1>2, <1>6, <2>1
    <3> QED
      BY <1>2, <1>4, <1>6, <2>1, <3>1 DEF Chain
  <2>2. CASE j = k + 1
    <3>1. i = k /\ i \in 1..k /\ q # <<>>
      BY <1>2, <1>3, <1>6, <2>2
    <3>2. next = Later(lb[q[i]], 1)
      BY <3>1 DEF Chain, k
    <3> QED
      BY <1>1, <1>4, <2>2, <3>1, <3>2
  <2> QED
    BY <1>2, <2>1, <2>2
<1>7. Later(next, 1) = Later(new[a[Len(a)]], 1)
  BY <1>1
<1> QED
  BY <1>2, <1>5, <1>6, <1>7 DEF Chain, a

LEMMA ChainTail ==
  ASSUME NEW q \in Seq(Heap), q # <<>>, NEW lb, NEW first, NEW next,
         Chain(q, lb, first, next)
  PROVE  lb[Head(q)] = first /\ Chain(Tail(q), lb, Later(first, 1), next)
<1> DEFINE t == Tail(q)
           k == Len(q)
<1>1. /\ t \in Seq(Heap) /\ Len(t) = k - 1
      /\ \A i \in 1..Len(t) : t[i] = q[i + 1]
  BY HeadTailProperties
<1>2. /\ k \in Nat /\ k > 0
      /\ DOMAIN q = 1..k /\ DOMAIN t = 1..(k - 1)
  BY <1>1, LenProperties, EmptySeq
<1>3. Head(q) = q[1] /\ lb[q[1]] = first /\ next = Later(lb[q[k]], 1)
  BY DEF Chain
<1> HIDE DEF t, k
<1>4. t = <<>> <=> k = 1
  <2>1. t = <<>> <=> Len(t) = 0
    BY <1>1, EmptySeq
  <2> QED
    BY <1>1, <1>2, <2>1
<1>5. t = <<>> => next = Later(first, 1)
  BY <1>3, <1>4
<1>6. ASSUME t # <<>> PROVE lb[t[1]] = Later(first, 1) /\ next = Later(lb[t[Len(t)]], 1)
  <2>1. 1 \in 1..k /\ 2 \in 1..k /\ 1 \in 1..Len(t) /\ Len(t) \in 1..Len(t)
    BY <1>1, <1>2, <1>4, <1>6
  <2>2. t[1] = q[2] /\ t[Len(t)] = q[k]
    BY <1>1, <1>2, <2>1
  <2>3. lb[q[2]] = Later(lb[q[1]], 1)
    <3>1. \A i, j \in 1..k : j = i + 1 => lb[q[j]] = Later(lb[q[i]], 1)
      BY <1>2 DEF Chain
    <3> QED
      BY <2>1, <3>1
  <2> QED
    BY <1>3, <2>2, <2>3
<1>7. ASSUME NEW i \in DOMAIN t, NEW j \in DOMAIN t, j = i + 1
      PROVE  lb[t[j]] = Later(lb[t[i]], 1)
  <2>1. PICK x, y : x = i + 1 /\ y = j + 1
    OBVIOUS
  <2>2. x \in 1..k /\ y \in 1..k /\ y = x + 1 /\ t[i] = q[x] /\ t[j] = q[y]
    BY <1>1, <1>2, <1>7, <2>1
  <2>3. lb[q[y]] = Later(lb[q[x]], 1)
    BY <1>2, <2>2 DEF Chain
  <2> QED
    BY <2>2, <2>3
<1> QED
  BY <1>3, <1>5, <1>6, <1>7 DEF Chain, t

LEMMA ChainSame ==
  ASSUME NEW q \in Seq(Heap), NEW lb, NEW new, NEW first, NEW next,
         Chain(q, lb, first, next),
         \A x \in Elements(q) : new[x] = lb[x]
  PROVE  Chain(q, new, first, next)
<1>1. \A i \in DOMAIN q : new[q[i]] = lb[q[i]]
  BY DEF Elements
<1>2. q # <<>> => 1 \in DOMAIN q /\ Len(q) \in DOMAIN q
  BY LenProperties, EmptySeq
<1> QED
  BY <1>1, <1>2 DEF Chain

\* Only a message nobody holds, or one of the application, gets a new label.
LEMMA LabelsKept ==
  ASSUME OwnerInv, NEW m \in Heap, m \notin live \/ m \in app, NEW n,
         label' = [label EXCEPT ![m] = n]
  PROVE  /\ label'[m] = n
         /\ m \notin Elements(rxQueue) /\ m \notin Elements(txQueue)
         /\ \A x \in Elements(rxQueue) \cup Elements(txQueue) : label'[x] = label[x]
         /\ rxMsg # NULL => label'[rxMsg] = label[rxMsg]
         /\ txPc = "start" => label'[txMsg] = label[txMsg]
<1>1. /\ m \notin Elements(rxQueue) /\ m \notin Elements(txQueue)
      /\ m \notin InHand(rxMsg) /\ m \notin TxHeld
  BY DEF OwnerInv, Divided
<1>2. label \in [Heap -> 0..(Labels - 1)]
  BY DEF OwnerInv, TypeOK
<1>3. Elements(rxQueue) \subseteq Heap /\ Elements(txQueue) \subseteq Heap
  BY DEF OwnerInv, TypeOK, Divided
<1>4. rxMsg # NULL => rxMsg \in Heap /\ rxMsg # m
  BY <1>1 DEF OwnerInv, TypeOK, InHand
<1>5. txPc = "start" => txMsg \in Heap /\ txMsg # m
  BY <1>1 DEF OwnerInv, TypeOK, TransferInv, TxHeld
<1> QED
  BY <1>1, <1>2, <1>3, <1>4, <1>5

LEMMA RxOrderStep ==
  ASSUME MaxBurst = 1, OwnerInv, ~fault => RxOrder, [Next]_serialVars
  PROVE  (~fault => RxOrder)'
<1> SUFFICES ASSUME ~fault' PROVE RxOrder'
  OBVIOUS
<1>1. rxQueue \in Seq(Heap)
  BY DEF OwnerInv, TypeOK
<1>2. ASSUME UNCHANGED <<rxQueue, rxMsg, arrived, received, fault>>,
             \A x \in Elements(rxQueue) : label'[x] = label[x],
             rxMsg # NULL => label'[rxMsg] = label[rxMsg]
      PROVE  RxOrder'
  <2>1. CASE rxMsg = NULL
    <3>1. Chain(rxQueue, label, received, arrived)
      BY <1>2, <2>1 DEF RxOrder
    <3>2. Chain(rxQueue, label', received, arrived)
      BY <1>1, <1>2, <3>1, ChainSame
    <3> QED
      BY <1>2, <2>1, <3>2 DEF RxOrder, Chain
  <2>2. CASE rxMsg # NULL
    <3>1. label[rxMsg] = received /\ Chain(rxQueue, label, Later(received, 1), arrived)
      BY <1>2, <2>2 DEF RxOrder
    <3>2. Chain(rxQueue, label', Later(received, 1), arrived)
      BY <1>1, <1>2, <3>1, ChainSame
    <3> QED
      BY <1>2, <2>2, <3>1, <3>2 DEF RxOrder, Chain, Later
  <2> QED
    BY <2>1, <2>2
<1>3. CASE Next /\ RxReady
  <2>1. PICK n \in 1..MaxBurst : arrived' = Later(arrived, n)
    BY <1>3 DEF RxReady
  <2>2. arrived' = Later(arrived, 1) /\ RxOrder
    <3>1. n = 1
      BY <2>1
    <3> QED
      BY <1>3, <2>1, <3>1 DEF Next
  <2>3. PICK m \in Heap \ live : /\ label' = [label EXCEPT ![m] = arrived]
                                 /\ rxQueue' = Append(rxQueue, m)
    BY <1>3 DEF RxReady
  <2>4. /\ label'[m] = arrived
        /\ \A x \in Elements(rxQueue) : label'[x] = label[x]
        /\ rxMsg # NULL => label'[rxMsg] = label[rxMsg]
    BY <2>3, LabelsKept
  <2>5. rxMsg' = rxMsg /\ received' = received
    BY <1>3 DEF RxReady
  <2>6. ASSUME NEW first, Chain(rxQueue, label, first, arrived)
        PROVE  Chain(rxQueue', label', first, arrived')
    <3>1. Chain(Append(rxQueue, m), label', first, Later(arrived, 1))
      BY <1>1, <2>4, <2>6, ChainAppend
    <3> QED
      BY <2>2, <2>3, <3>1
  <2> QED
    BY <2>2, <2>4, <2>5, <2>6 DEF RxOrder, Chain, Later
<1>4. CASE Next /\ RxTake
  <2>1. /\ rxMsg = NULL /\ rxQueue # <<>> /\ rxMsg' = Head(rxQueue)
        /\ rxQueue' = Tail(rxQueue) /\ RxOrder
        /\ UNCHANGED <<label, arrived, received>>
    BY <1>4 DEF Next, RxTake
  <2>2. /\ label[Head(rxQueue)] = received
        /\ Chain(Tail(rxQueue), label, Later(received, 1), arrived)
    BY <1>1, <2>1, ChainTail DEF RxOrder
  <2>3. rxMsg' # NULL
    BY <1>1, <2>1, HeadTailProperties, SerialAssumption
  <2> QED
    BY <2>1, <2>2, <2>3 DEF RxOrder, Chain, Later
<1>5. CASE Next /\ RxHandOver
  <2>1. /\ rxMsg # NULL /\ rxMsg' = NULL /\ received' = Later(label[rxMsg], 1) /\ RxOrder
        /\ UNCHANGED <<label, arrived, rxQueue>>
    BY <1>5 DEF Next, RxHandOver
  <2>2. label[rxMsg] = received /\ Chain(rxQueue, label, Later(received, 1), arrived)
    BY <2>1 DEF RxOrder
  <2> QED
    BY <2>1, <2>2 DEF RxOrder, Chain
<1>6. CASE Send
  <2>1. PICK m \in app : label' = [label EXCEPT ![m] = accepted]
    BY <1>6 DEF Send
  <2>2. m \in Heap
    BY DEF OwnerInv, TypeOK
  <2>3. /\ \A x \in Elements(rxQueue) : label'[x] = label[x]
        /\ rxMsg # NULL => label'[rxMsg] = label[rxMsg]
    BY <2>1, <2>2, LabelsKept
  <2> QED
    BY <1>2, <1>6, <2>3 DEF Send, rxVars
<1>7. CASE TxThread \/ TxDone \/ AppAlloc \/ AppFree \/ SetCallback
  <2>1. UNCHANGED <<label, rxQueue, rxMsg, arrived, received, fault>>
    <3>1. CASE TxWait
      BY <3>1 DEF TxWait, rxVars
    <3>2. CASE TxTake
      BY <3>2 DEF TxTake, rxVars
    <3>3. CASE TxStart
      BY <3>3 DEF TxStart, rxVars
    <3>4. CASE TxDone
      BY <3>4 DEF TxDone, rxVars
    <3> QED
      BY <1>7, <3>1, <3>2, <3>3, <3>4 DEF TxThread, AppAlloc, AppFree, SetCallback, rxVars
  <2> QED
    BY <1>2, <2>1
<1>8. CASE RxStopped \/ LineFails \/ LineRecovers
  BY <1>2, <1>8 DEF RxStopped, LineFails, LineRecovers
<1>9. CASE UNCHANGED serialVars
  BY <1>2, <1>9 DEF serialVars, rxVars
<1> QED
  BY <1>3, <1>4, <1>5, <1>6, <1>7, <1>8, <1>9
     DEF Next, Driver, RxThread, Application

LEMMA TxOrderStep ==
  ASSUME ~CanTxFail, OwnerInv, TxOrder, [Next]_serialVars
  PROVE  TxOrder'
<1>1. txQueue \in Seq(Heap)
  BY DEF OwnerInv, TypeOK
<1>2. ASSUME UNCHANGED <<txQueue, txMsg, sent, accepted>>,
             txPc' = "start" <=> txPc = "start",
             \A x \in Elements(txQueue) : label'[x] = label[x],
             txPc = "start" => label'[txMsg] = label[txMsg]
      PROVE  TxOrder'
  <2>1. CASE txPc # "start"
    <3>1. Chain(txQueue, label, sent, accepted)
      BY <1>2, <2>1 DEF TxOrder
    <3>2. Chain(txQueue, label', sent, accepted)
      BY <1>1, <1>2, <3>1, ChainSame
    <3> QED
      BY <1>2, <2>1, <3>2 DEF TxOrder, Chain
  <2>2. CASE txPc = "start"
    <3>1. label[txMsg] = sent /\ Chain(txQueue, label, Later(sent, 1), accepted)
      BY <1>2, <2>2 DEF TxOrder
    <3>2. Chain(txQueue, label', Later(sent, 1), accepted)
      BY <1>1, <1>2, <3>1, ChainSame
    <3> QED
      BY <1>2, <2>2, <3>1, <3>2 DEF TxOrder, Chain, Later
  <2> QED
    BY <2>1, <2>2
<1>3. CASE Send
  <2>1. PICK m \in app : /\ label' = [label EXCEPT ![m] = accepted]
                         /\ txQueue' = Append(txQueue, m)
    BY <1>3 DEF Send
  <2>2. m \in Heap
    BY DEF OwnerInv, TypeOK
  <2>3. /\ label'[m] = accepted
        /\ \A x \in Elements(txQueue) : label'[x] = label[x]
        /\ txPc = "start" => label'[txMsg] = label[txMsg]
    BY <2>1, <2>2, LabelsKept
  <2>4. accepted' = Later(accepted, 1) /\ UNCHANGED <<txPc, txMsg, sent>>
    BY <1>3 DEF Send
  <2>5. ASSUME NEW first, Chain(txQueue, label, first, accepted)
        PROVE  Chain(txQueue', label', first, accepted')
    <3>1. Chain(Append(txQueue, m), label', first, Later(accepted, 1))
      BY <1>1, <2>2, <2>3, <2>5, ChainAppend
    <3> QED
      BY <2>1, <2>4, <3>1
  <2> QED
    BY <2>3, <2>4, <2>5 DEF TxOrder, Chain, Later
<1>4. CASE TxTake
  <2>1. /\ txPc = "take" /\ txQueue # <<>> /\ txMsg' = Head(txQueue)
        /\ txQueue' = Tail(txQueue) /\ txPc' = "start"
        /\ UNCHANGED <<label, accepted, sent>>
    BY <1>4 DEF TxTake
  <2>2. /\ label[Head(txQueue)] = sent
        /\ Chain(Tail(txQueue), label, Later(sent, 1), accepted)
    BY <1>1, <2>1, ChainTail DEF TxOrder
  <2> QED
    BY <2>1, <2>2 DEF TxOrder, Chain, Later
<1>5. CASE TxStart
  <2>1. /\ txPc = "start" /\ txPc' = "wait" /\ sent' = Later(label[txMsg], 1)
        /\ UNCHANGED <<label, accepted, txQueue>>
    BY <1>5 DEF TxStart, OwnerInv, TransferInv
  <2>2. label[txMsg] = sent /\ Chain(txQueue, label, Later(sent, 1), accepted)
    BY <2>1 DEF TxOrder
  <2> QED
    BY <2>1, <2>2 DEF TxOrder, Chain
<1>6. CASE RxReady
  <2>1. \/ label' = label
        \/ \E m \in Heap \ live : label' = [label EXCEPT ![m] = arrived]
    BY <1>6 DEF RxReady
  <2>2. /\ \A x \in Elements(txQueue) : label'[x] = label[x]
        /\ txPc = "start" => label'[txMsg] = label[txMsg]
    BY <2>1, LabelsKept
  <2> QED
    BY <1>2, <1>6, <2>2 DEF RxReady, txVars
<1>7. CASE TxWait
  BY <1>2, <1>7 DEF TxWait
<1>8. CASE TxDone \/ AppAlloc \/ AppFree \/ SetCallback
  <2>1. UNCHANGED <<label, txQueue, txMsg, sent, accepted, txPc>>
    <3>1. CASE TxDone
      BY <3>1 DEF TxDone
    <3> QED
      BY <1>8, <3>1 DEF AppAlloc, AppFree, SetCallback, txVars
  <2> QED
    BY <1>2, <2>1
<1>9. CASE RxThread \/ RxStopped \/ LineFails \/ LineRecovers
  <2>1. UNCHANGED <<label, txQueue, txMsg, sent, accepted, txPc>>
    <3>1. CASE RxTake
      BY <3>1 DEF RxTake, txVars
    <3>2. CASE RxHandOver
      BY <3>2 DEF RxHandOver, txVars
    <3> QED
      BY <1>9, <3>1, <3>2 DEF RxThread, RxStopped, LineFails, LineRecovers, txVars
  <2> QED
    BY <1>2, <2>1
<1>10. CASE UNCHANGED serialVars
  BY <1>2, <1>10 DEF serialVars, txVars
<1> QED
  BY <1>3, <1>4, <1>5, <1>6, <1>7, <1>8, <1>9, <1>10
     DEF Next, Driver, TxThread, Application

\* Nothing is on its way at the start.
LEMMA OrderStart == Init => RxOrder /\ TxOrder
<1> SUFFICES ASSUME Init PROVE RxOrder /\ TxOrder
  OBVIOUS
<1>1. DOMAIN <<>> = {}
  OBVIOUS
<1>2. \A lb : Chain(<<>>, lb, 0, 0)
  BY <1>1 DEF Chain
<1>3. rxMsg = NULL /\ rxQueue = <<>> /\ received = 0 /\ arrived = 0
  BY DEF Init
<1>4. txPc = "wait" /\ txQueue = <<>> /\ sent = 0 /\ accepted = 0
  BY DEF Init
<1> QED
  BY <1>2, <1>3, <1>4 DEF RxOrder, TxOrder

\* The application is handed every byte of the line once and in order, as long as
\* the heap lasts and the driver reports bytes one at a time: uart_cb copies the
\* first byte of what it is told of (uart_cb, midi_rx_thread).
THEOREM BytesArriveInOrder ==
  ASSUME MaxBurst = 1
  PROVE  Spec => ReceivedInOrder
<1>1. Init => (~fault => RxOrder)
  BY OrderStart
<1>2. OwnerInv /\ (~fault => RxOrder) /\ [Next]_serialVars => (~fault => RxOrder)'
  BY RxOrderStep
<1>3. /\ OwnerInv /\ (~fault => RxOrder) /\ [Next]_serialVars
      => [RxHandOver => label[rxMsg] = received]_serialVars
  <2> SUFFICES ASSUME ~fault => RxOrder, Next, RxHandOver PROVE label[rxMsg] = received
    OBVIOUS
  <2> QED
    BY DEF Next, RxHandOver, RxOrder
<1> QED
  BY <1>1, <1>2, <1>3, OwnerInvariant, PTL DEF Spec, ReceivedInOrder

\* Messages go out once and in the order midi_send accepted them, if uart_tx does
\* not fail: midi_tx_thread starts no transfer while another is under way, so that
\* none is refused (send_to_serial_port, midi_tx_thread).
THEOREM MessagesLeaveInOrder ==
  ASSUME ~CanTxFail
  PROVE  Spec => SentInOrder
<1>1. OwnerInv /\ TxOrder /\ [Next]_serialVars => TxOrder'
  BY TxOrderStep
<1>2. /\ OwnerInv /\ TxOrder /\ [Next]_serialVars
      => [wire' # wire /\ wire' # NULL => label[wire'] = sent]_serialVars
  <2> SUFFICES ASSUME TxOrder, Next, wire' # wire, wire' # NULL PROVE label[wire'] = sent
    OBVIOUS
  <2>1. CASE TxStart
    BY <2>1 DEF TxStart, TxOrder
  <2>2. ~RxReady /\ ~TxDone /\ ~RxThread /\ ~TxWait /\ ~TxTake
    BY DEF RxReady, TxDone, RxThread, RxTake, RxHandOver, TxWait, TxTake, txVars
  <2>3. ~Application /\ ~RxStopped /\ ~LineFails /\ ~LineRecovers
    BY DEF Application, SetCallback, AppAlloc, AppFree, Send, RxStopped, LineFails,
       LineRecovers, txVars
  <2> QED
    BY <2>1, <2>2, <2>3 DEF Next, Driver, TxThread
<1> QED
  BY <1>1, <1>2, OrderStart, OwnerInvariant, PTL DEF Spec, SentInOrder
=============================================================================
