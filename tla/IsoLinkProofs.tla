---------------------------- MODULE IsoLinkProofs ----------------------------
(***************************************************************************)
(* For every set of messages and devices, every limit of the numbers, the  *)
(* channels and the packet: until a packet leaves no room, the fifo and    *)
(* the acknowledgements do not interfere, whatever is lost; no device has  *)
(* two channels in a packet; a device plays what its packets hold, in      *)
(* their order.  Until a number is used again: what is acknowledged was    *)
(* played, what was not is repeated, and the link implements a reliable    *)
(* delivery.                                                               *)
(***************************************************************************)
EXTENDS IsoLink, SequenceTheorems, FiniteSetTheorems, TLAPS

\* The messages the fifo or the packet thread has.
Waiting == ToSet(fifo) \cup ({held} \ {None})

QueueTypes ==
  /\ sent \subseteq Messages
  /\ fifo \in Seq(Messages) /\ tracked \in Seq(Messages)
  /\ held \in Messages \cup {None}
  /\ num \in [Messages -> 0..NumLimit] /\ msgNum \in 0..(NumLimit - 1)
  /\ resendDue \in BOOLEAN /\ beyond \in BOOLEAN

\* No message is in two places of the queue, or twice in the list; those in the
\* list, and those that were, have a number, and those that were are gone.
QueueParts ==
  /\ relinked = FALSE
  /\ IsInjective(fifo) /\ held \notin ToSet(fifo)
  /\ IsInjective(tracked)
  /\ Waiting \subseteq sent /\ ToSet(tracked) \subseteq sent /\ freed \subseteq sent
  /\ \A m \in ToSet(tracked) \cup freed : num[m] # NumLimit
  /\ ToSet(tracked) \cap freed = {}
  /\ Waiting \cap freed = {}

\* Between a packet and the resend work, when acknowledgements arrive, only
\* messages wait that have no number yet.
OnlyNewWait == ~beyond /\ resendDue => \A m \in Waiting : num[m] = NumLimit

QueueInv == QueueTypes /\ QueueParts /\ OnlyNewWait

-----------------------------------------------------------------------------
(* Sequences without repetitions *)

LEMMA Enqueue ==
  ASSUME NEW S, NEW s \in Seq(S), NEW x \in S, IsInjective(s), x \notin ToSet(s)
  PROVE  /\ Append(s, x) \in Seq(S) /\ IsInjective(Append(s, x))
         /\ ToSet(Append(s, x)) = ToSet(s) \cup {x}
<1> DEFINE a == Append(s, x)
<1>1. /\ a \in Seq(S) /\ Len(a) = Len(s) + 1
      /\ \A i \in 1..Len(s) : a[i] = s[i]
      /\ a[Len(s) + 1] = x
  BY AppendProperties
<1>2. /\ Len(s) \in Nat
      /\ DOMAIN s = 1..Len(s) /\ DOMAIN a = 1..(Len(s) + 1)
  BY <1>1, LenProperties
<1> HIDE DEF a
<1>3. IsInjective(a)
  <2> SUFFICES ASSUME NEW i \in DOMAIN a, NEW j \in DOMAIN a, a[i] = a[j]
               PROVE  i = j
    BY DEF IsInjective
  <2>1. CASE i \in 1..Len(s) /\ j \in 1..Len(s)
    BY <2>1, <1>1, <1>2 DEF IsInjective
  <2>2. CASE i = Len(s) + 1 /\ j \in 1..Len(s)
    BY <2>2, <1>1, <1>2 DEF ToSet
  <2>3. CASE j = Len(s) + 1 /\ i \in 1..Len(s)
    BY <2>3, <1>1, <1>2 DEF ToSet
  <2> QED
    BY <1>2, <2>1, <2>2, <2>3
<1>4. ToSet(a) = ToSet(s) \cup {x}
  <2>1. ToSet(a) \subseteq ToSet(s) \cup {x}
    <3> SUFFICES ASSUME NEW i \in DOMAIN a PROVE a[i] \in ToSet(s) \cup {x}
      BY DEF ToSet
    <3> QED
      BY <1>1, <1>2 DEF ToSet
  <2>2. ToSet(s) \subseteq ToSet(a)
    <3> SUFFICES ASSUME NEW i \in DOMAIN s PROVE s[i] \in ToSet(a)
      BY DEF ToSet
    <3>1. i \in DOMAIN a /\ a[i] = s[i]
      BY <1>1, <1>2
    <3> QED
      BY <3>1 DEF ToSet
  <2>3. x \in ToSet(a)
    <3>1. Len(s) + 1 \in DOMAIN a
      BY <1>2
    <3> QED
      BY <3>1, <1>1 DEF ToSet
  <2> QED
    BY <2>1, <2>2, <2>3
<1>5. QED
  BY <1>1, <1>3, <1>4 DEF a

LEMMA Dequeue ==
  ASSUME NEW S, NEW s \in Seq(S), s # <<>>, IsInjective(s)
  PROVE  /\ Head(s) \in ToSet(s) /\ Head(s) \in S
         /\ Tail(s) \in Seq(S) /\ IsInjective(Tail(s))
         /\ ToSet(Tail(s)) = ToSet(s) \ {Head(s)}
<1> DEFINE t == Tail(s)
<1>1. /\ Head(s) \in S /\ t \in Seq(S) /\ Len(t) = Len(s) - 1
      /\ \A i \in 1..Len(t) : t[i] = s[i + 1]
  BY HeadTailProperties
<1>2. /\ Len(s) \in Nat /\ Len(s) > 0
      /\ DOMAIN s = 1..Len(s) /\ DOMAIN t = 1..(Len(s) - 1)
  BY <1>1, LenProperties, EmptySeq
<1>3. Head(s) = s[1]
  OBVIOUS
<1> HIDE DEF t
<1>4. IsInjective(t)
  <2> SUFFICES ASSUME NEW i \in DOMAIN t, NEW j \in DOMAIN t, t[i] = t[j]
               PROVE  i = j
    BY DEF IsInjective
  <2>1. s[i + 1] = s[j + 1] /\ i + 1 \in DOMAIN s /\ j + 1 \in DOMAIN s
    BY <1>1, <1>2
  <2>2. i + 1 = j + 1
    BY <2>1 DEF IsInjective
  <2> QED
    BY <2>2, <1>2
<1>5. Head(s) \in ToSet(s)
  BY <1>2, <1>3 DEF ToSet
<1>6. ToSet(t) \subseteq ToSet(s) \ {Head(s)}
  <2> SUFFICES ASSUME NEW i \in DOMAIN t PROVE t[i] \in ToSet(s) \ {Head(s)}
    BY DEF ToSet
  <2>1. t[i] = s[i + 1] /\ i + 1 \in DOMAIN s /\ 1 \in DOMAIN s /\ i + 1 # 1
    BY <1>1, <1>2
  <2>2. s[i + 1] # s[1]
    BY <2>1 DEF IsInjective
  <2> QED
    BY <2>1, <2>2, <1>3 DEF ToSet
<1>7. ToSet(s) \ {Head(s)} \subseteq ToSet(t)
  <2> SUFFICES ASSUME NEW i \in DOMAIN s, s[i] # s[1] PROVE s[i] \in ToSet(t)
    BY <1>3 DEF ToSet
  <2>1. i - 1 \in DOMAIN t /\ t[i - 1] = s[i]
    BY <1>1, <1>2
  <2> QED
    BY <2>1 DEF ToSet
<1>8. QED
  BY <1>1, <1>4, <1>5, <1>6, <1>7 DEF t

LEMMA Concatenate ==
  ASSUME NEW S, NEW s \in Seq(S), NEW t \in Seq(S), IsInjective(s), IsInjective(t),
         ToSet(s) \cap ToSet(t) = {}
  PROVE  /\ s \o t \in Seq(S) /\ IsInjective(s \o t)
         /\ ToSet(s \o t) = ToSet(s) \cup ToSet(t)
<1> DEFINE c == s \o t
<1>1. /\ c \in Seq(S) /\ Len(c) = Len(s) + Len(t)
      /\ \A i \in 1..(Len(s) + Len(t)) : c[i] = IF i <= Len(s) THEN s[i] ELSE t[i - Len(s)]
  BY ConcatProperties
<1>2. /\ Len(s) \in Nat /\ Len(t) \in Nat
      /\ DOMAIN s = 1..Len(s) /\ DOMAIN t = 1..Len(t) /\ DOMAIN c = 1..(Len(s) + Len(t))
  BY <1>1, LenProperties
<1> HIDE DEF c
<1>3. ASSUME NEW i \in DOMAIN c
      PROVE  \/ i \in DOMAIN s /\ c[i] = s[i]
             \/ i - Len(s) \in DOMAIN t /\ c[i] = t[i - Len(s)]
  BY <1>1, <1>2
<1>4. \A k \in DOMAIN s, l \in DOMAIN t : s[k] # t[l]
  BY DEF ToSet
<1>5. IsInjective(c)
  <2> SUFFICES ASSUME NEW i \in DOMAIN c, NEW j \in DOMAIN c, c[i] = c[j]
               PROVE  i = j
    BY DEF IsInjective
  <2>1. CASE i \in DOMAIN s /\ c[i] = s[i] /\ j \in DOMAIN s /\ c[j] = s[j]
    BY <2>1 DEF IsInjective
  <2>2. CASE /\ i - Len(s) \in DOMAIN t /\ c[i] = t[i - Len(s)]
             /\ j - Len(s) \in DOMAIN t /\ c[j] = t[j - Len(s)]
    <3>1. i - Len(s) = j - Len(s)
      BY <2>2 DEF IsInjective
    <3> QED
      BY <3>1, <1>2
  <2> QED
    BY <1>3, <1>4, <2>1, <2>2
<1>6. ToSet(c) \subseteq ToSet(s) \cup ToSet(t)
  <2> SUFFICES ASSUME NEW i \in DOMAIN c PROVE c[i] \in ToSet(s) \cup ToSet(t)
    BY DEF ToSet
  <2> QED
    BY <1>3 DEF ToSet
<1>7. ToSet(s) \subseteq ToSet(c)
  <2> SUFFICES ASSUME NEW i \in DOMAIN s PROVE s[i] \in ToSet(c)
    BY DEF ToSet
  <2>1. i \in DOMAIN c /\ c[i] = s[i]
    BY <1>1, <1>2
  <2> QED
    BY <2>1 DEF ToSet
<1>8. ToSet(t) \subseteq ToSet(c)
  <2> SUFFICES ASSUME NEW i \in DOMAIN t PROVE t[i] \in ToSet(c)
    BY DEF ToSet
  <2>1. i + Len(s) \in DOMAIN c /\ c[i + Len(s)] = t[i]
    BY <1>1, <1>2
  <2> QED
    BY <2>1 DEF ToSet
<1>9. QED
  BY <1>1, <1>5, <1>6, <1>7, <1>8 DEF c

LEMMA NumbersUpTo ==
  ASSUME NEW n \in Nat, NEW I \in SUBSET (1..n)
  PROVE  IsFiniteSet(I) /\ Cardinality(I) \in Nat /\ \A i \in I : i \in Nat
<1>1. IsFiniteSet(1..n)
  BY FS_Interval
<1>2. IsFiniteSet(I)
  BY <1>1, FS_Subset
<1> QED
  BY <1>2, FS_CardinalityType

\* Any set of indices can be put in order: each index goes to the place given by
\* the number of smaller ones.
LEMMA AscendingExists ==
  ASSUME NEW n \in Nat, NEW I \in SUBSET (1..n)
  PROVE  Ascending(I) # {}
<1> DEFINE N == Cardinality(I)
           below(i) == {j \in I : j < i}
           rank == [i \in I |-> Cardinality(below(i)) + 1]
<1> HIDE DEF N
<1>1. IsFiniteSet(I) /\ N \in Nat /\ \A i \in I : i \in Nat
  BY NumbersUpTo DEF N
<1>2. ASSUME NEW A, NEW B, A \subseteq B, B \subseteq I, A # B
      PROVE  /\ Cardinality(A) \in Nat /\ Cardinality(B) \in Nat
             /\ Cardinality(A) < Cardinality(B) /\ Cardinality(B) <= N
  <2>1. IsFiniteSet(B) /\ Cardinality(B) <= N
    BY <1>1, <1>2, FS_Subset DEF N
  <2>2. /\ IsFiniteSet(A) /\ Cardinality(A) <= Cardinality(B)
        /\ Cardinality(A) # Cardinality(B)
    <3>1. A \in SUBSET B
      BY <1>2
    <3>2. /\ IsFiniteSet(A) /\ Cardinality(A) <= Cardinality(B)
          /\ Cardinality(B) = Cardinality(A) => B = A
      BY <2>1, <3>1, FS_Subset
    <3> QED
      BY <1>2, <3>2
  <2>3. Cardinality(A) \in Nat /\ Cardinality(B) \in Nat
    BY <2>1, <2>2, FS_CardinalityType
  <2> QED
    BY <2>1, <2>2, <2>3
<1>3. ASSUME NEW i \in I
      PROVE  Cardinality(below(i)) \in Nat /\ Cardinality(below(i)) < N
  <2>1. below(i) \subseteq I /\ below(i) # I
    OBVIOUS
  <2> HIDE DEF below
  <2>2. /\ Cardinality(below(i)) \in Nat /\ Cardinality(I) \in Nat
        /\ Cardinality(below(i)) < Cardinality(I) /\ Cardinality(I) <= N
    BY <1>2, <2>1
  <2> QED
    BY <1>1, <2>2
<1>4. ASSUME NEW i \in I, NEW j \in I, i < j
      PROVE  Cardinality(below(i)) < Cardinality(below(j))
  <2>1. below(i) \subseteq below(j) /\ below(j) \subseteq I /\ below(i) # below(j)
    <3>1. i \in below(j) /\ i \notin below(i)
      BY <1>4
    <3>2. \A x \in I : x < i => x < j
      BY <1>1, <1>4
    <3> QED
      BY <3>1, <3>2
  <2> HIDE DEF below
  <2> QED
    BY <1>2, <2>1
<1>5. rank \in [I -> 1..N] /\ \A i \in I : rank[i] = Cardinality(below(i)) + 1
  <2> HIDE DEF below
  <2> QED
    BY <1>1, <1>3
<1> HIDE DEF below, rank
<1>6. \A i, j \in I : i < j => rank[i] < rank[j]
  BY <1>3, <1>4, <1>5
<1>7. rank \in Injection(I, 1..N)
  <2> SUFFICES ASSUME NEW i \in I, NEW j \in I, rank[i] = rank[j]
               PROVE  i = j
    BY <1>5 DEF Injection, IsInjective
  <2>1. rank[i] \in Nat /\ rank[j] \in Nat /\ i \in Nat /\ j \in Nat
    BY <1>1, <1>5
  <2> QED
    BY <1>6, <2>1
<1>8. rank \in Surjection(I, 1..N)
  <2>1. IsFiniteSet(1..N) /\ Cardinality(1..N) = N
    BY <1>1, FS_Interval
  <2> QED
    BY <1>7, <2>1, FS_Injection DEF N
<1> DEFINE f == [k \in 1..N |-> CHOOSE i \in I : rank[i] = k]
<1>9. \A k \in 1..N : f[k] \in I /\ rank[f[k]] = k
  BY <1>8 DEF Surjection
<1>10. f \in [1..N -> I]
  BY <1>9
<1> HIDE DEF f
<1>11. ASSUME NEW k \in 1..N, NEW l \in 1..N, k < l
       PROVE  f[k] < f[l]
  <2>1. f[k] \in Nat /\ f[l] \in Nat
    BY <1>1, <1>9
  <2>2. k # l /\ ~(l < k)
    BY <1>1, <1>11
  <2>3. f[k] # f[l] /\ ~(f[l] < f[k])
    BY <1>6, <1>9, <2>2
  <2> QED
    BY <2>1, <2>3
<1>12. f \in Ascending(I)
  BY <1>10, <1>11 DEF Ascending, N
<1> QED
  BY <1>12

\* What is picked is a sequence of just what s has at the indices.
LEMMA PickedProperties ==
  ASSUME NEW n \in Nat, NEW I \in SUBSET (1..n), NEW S, NEW s, \A i \in I : s[i] \in S
  PROVE  /\ Picked(s, I) \in Seq(S)
         /\ ToSet(Picked(s, I)) = {s[i] : i \in I}
         /\ (\A i, j \in I : s[i] = s[j] => i = j) => IsInjective(Picked(s, I))
         /\ I # {} => Last(Picked(s, I)) \in ToSet(Picked(s, I))
<1> DEFINE T == {[k \in DOMAIN f |-> s[f[k]]] : f \in Ascending(I)}
           N == Cardinality(I)
<1>1. T # {}
  BY AscendingExists
<1>2. Picked(s, I) \in T
  <2> HIDE DEF T
  <2>1. Picked(s, I) = CHOOSE t \in T : TRUE
    BY DEF Picked, T
  <2> QED
    BY <1>1, <2>1
<1>3. PICK f \in Ascending(I) : Picked(s, I) = [k \in DOMAIN f |-> s[f[k]]]
  BY <1>2
<1>4. IsFiniteSet(I) /\ N \in Nat /\ \A i \in I : i \in Nat
  BY NumbersUpTo
<1>5. f \in [1..N -> I] /\ \A k, l \in 1..N : k < l => f[k] < f[l]
  BY DEF Ascending
<1> DEFINE t == Picked(s, I)
<1>6. t = [k \in 1..N |-> s[f[k]]]
  BY <1>3, <1>5
<1> HIDE DEF t, N, T
<1>7. DOMAIN t = 1..N /\ \A k \in 1..N : f[k] \in I /\ t[k] = s[f[k]] /\ t[k] \in S
  BY <1>5, <1>6
<1>8. t \in Seq(S) /\ Len(t) = N
  <2>1. t \in [1..N -> S]
    BY <1>6, <1>7
  <2> QED
    BY <1>4, <1>7, <2>1, IsASeq, LenProperties
<1>9. f \in Injection(1..N, I)
  <2> SUFFICES ASSUME NEW k \in 1..N, NEW l \in 1..N, f[k] = f[l]
               PROVE  k = l
    BY <1>5 DEF Injection, IsInjective
  <2>1. k \in Nat /\ l \in Nat
    <3>1. N \in Nat
      BY <1>4
    <3> QED
      BY <3>1
  <2>2. f[k] \in I /\ f[l] \in I
    BY <1>5, Zenon
  <2>3. f[k] \in Nat /\ f[l] \in Nat
    BY <1>4, <2>2, Zenon
  <2> QED
    BY <1>5, <2>1, <2>3
<1>10. \A i \in I : \E k \in 1..N : f[k] = i
  <2>1. Cardinality(1..N) = N
    BY <1>4, FS_Interval
  <2>2. f \in Surjection(1..N, I)
    BY <1>4, <1>9, <2>1, FS_Injection DEF N
  <2> QED
    BY <2>2 DEF Surjection
<1>11. ToSet(t) = {s[i] : i \in I}
  <2>1. ASSUME NEW k \in 1..N PROVE t[k] \in {s[i] : i \in I}
    BY <1>7
  <2>2. ASSUME NEW i \in I PROVE s[i] \in ToSet(t)
    <3>1. PICK k \in 1..N : f[k] = i
      BY <1>10
    <3> QED
      BY <1>7, <3>1 DEF ToSet
  <2> QED
    BY <1>7, <2>1, <2>2 DEF ToSet
<1>12. ASSUME \A i, j \in I : s[i] = s[j] => i = j
       PROVE  IsInjective(t)
  <2> SUFFICES ASSUME NEW k \in 1..N, NEW l \in 1..N, t[k] = t[l]
               PROVE  k = l
    BY <1>7 DEF IsInjective
  <2>1. f[k] = f[l]
    <3>1. s[f[k]] = s[f[l]] /\ f[k] \in I /\ f[l] \in I
      BY <1>7
    <3> QED
      BY <1>12, <3>1
  <2> QED
    BY <1>5, <1>9, <2>1 DEF Injection, IsInjective
<1>13. ASSUME I # {} PROVE Last(t) \in ToSet(t)
  <2>1. N # 0
    BY <1>4, <1>13, FS_EmptySet DEF N
  <2>2. N \in 1..N
    BY <1>4, <2>1
  <2> QED
    BY <1>7, <1>8, <2>2 DEF Last, ToSet
<1> QED
  BY <1>8, <1>11, <1>12, <1>13 DEF t

LEMMA PickedFromList ==
  ASSUME NEW S, NEW s \in Seq(S), IsInjective(s), NEW I \in SUBSET (DOMAIN s)
  PROVE  /\ Picked(s, I) \in Seq(S) /\ IsInjective(Picked(s, I))
         /\ ToSet(Picked(s, I)) = {s[i] : i \in I}
<1>1. PICK n \in Nat : I \in SUBSET (1..n) /\ \A i \in I : s[i] \in S
  <2>1. Len(s) \in Nat /\ DOMAIN s = 1..Len(s)
    BY LenProperties
  <2> QED
    BY <2>1, ElementOfSeq
<1>2. \A i, j \in I : s[i] = s[j] => i = j
  BY DEF IsInjective
<1>3. /\ Picked(s, I) \in Seq(S)
      /\ ToSet(Picked(s, I)) = {s[i] : i \in I}
      /\ (\A i, j \in I : s[i] = s[j] => i = j) => IsInjective(Picked(s, I))
  BY <1>1, PickedProperties, ZenonT(40)
<1> QED
  BY <1>2, <1>3

-----------------------------------------------------------------------------
(* The queue *)

LEMMA QueueStart == IsoInit => QueueInv
<1> SUFFICES ASSUME IsoInit PROVE QueueInv
  OBVIOUS
<1>1. /\ sent = {} /\ fifo = <<>> /\ relinked = FALSE /\ held = None /\ msgNum = 0
      /\ num = [m \in Messages |-> NumLimit] /\ tracked = <<>> /\ freed = {}
      /\ resendDue = FALSE /\ beyond = FALSE
  BY DEF IsoInit, Init
<1>2. ToSet(<<>>) = {} /\ IsInjective(<<>>) /\ <<>> \in Seq(Messages)
  BY DEF ToSet, IsInjective
<1>3. NumLimit \in Nat \ {0}
  BY BroadcasterAssumption
<1>4. QueueTypes
  <2>1. num \in [Messages -> 0..NumLimit] /\ msgNum \in 0..(NumLimit - 1)
    BY <1>1, <1>3
  <2>2. resendDue \in BOOLEAN /\ beyond \in BOOLEAN
    BY <1>1
  <2>3. /\ sent \subseteq Messages /\ held \in Messages \cup {None}
        /\ fifo \in Seq(Messages) /\ tracked \in Seq(Messages)
    BY <1>1, <1>2
  <2> QED
    BY <2>1, <2>2, <2>3 DEF QueueTypes
<1>5. Waiting = {}
  BY <1>1, <1>2 DEF Waiting
<1>6. QueueParts
  BY <1>1, <1>2, <1>5 DEF QueueParts
<1>7. QED
  BY <1>1, <1>4, <1>6 DEF QueueInv, OnlyNewWait

LEMMA QueueQuiet ==
  ASSUME QueueInv,
         UNCHANGED <<sent, fifo, relinked, held, num, tracked, freed, msgNum, resendDue, beyond>>
  PROVE  QueueInv'
BY DEF QueueInv, QueueTypes, QueueParts, OnlyNewWait, Waiting

LEMMA QueueSendAgain ==
  ASSUME QueueInv, NEW m, AppSendAgain(m)
  PROVE  QueueInv'
<1>1. /\ beyond' = TRUE
      /\ UNCHANGED <<sent, fifo, relinked, held, num, tracked, freed, msgNum, resendDue>>
  BY DEF AppSendAgain, bcVars, packetVars, listVars
<1> QED
  BY <1>1 DEF QueueInv, QueueTypes, QueueParts, OnlyNewWait, Waiting

LEMMA QueueSend ==
  ASSUME QueueInv, NEW m \in Messages, AppSend(m)
  PROVE  QueueInv'
<1>1. /\ m \notin sent /\ sent' = sent \cup {m} /\ num' = [num EXCEPT ![m] = NumLimit]
      /\ fifo' = Append(fifo, m)
      /\ UNCHANGED <<relinked, held, tracked, freed, msgNum, resendDue, beyond>>
  BY DEF AppSend, Send, packetVars, envVars
<1>2. m \notin Waiting /\ m \notin ToSet(tracked) /\ m \notin freed /\ m # held /\ m \notin ToSet(fifo)
  <2>1. m # None
    BY BroadcasterAssumption
  <2> QED
    BY <1>1, <2>1 DEF QueueInv, QueueParts, Waiting
<1>3. /\ fifo' \in Seq(Messages) /\ IsInjective(fifo') /\ ToSet(fifo') = ToSet(fifo) \cup {m}
  BY <1>1, <1>2, Enqueue DEF QueueInv, QueueTypes, QueueParts
<1>4. Waiting' = Waiting \cup {m}
  BY <1>1, <1>3 DEF Waiting
<1>5. num' \in [Messages -> 0..NumLimit] /\ num'[m] = NumLimit
      /\ \A o \in Messages : o # m => num'[o] = num[o]
  BY <1>1, BroadcasterAssumption DEF QueueInv, QueueTypes
<1>6. QueueTypes'
  BY <1>1, <1>3, <1>5 DEF QueueInv, QueueTypes
<1>7. QueueParts'
  BY <1>1, <1>2, <1>3, <1>4, <1>5 DEF QueueInv, QueueParts, QueueTypes
<1>8. OnlyNewWait'
  <2>1. Waiting \subseteq Messages
    BY DEF QueueInv, QueueParts, QueueTypes
  <2> QED
    BY <1>1, <1>4, <1>5, <2>1 DEF QueueInv, OnlyNewWait
<1>9. QED
  BY <1>6, <1>7, <1>8 DEF QueueInv

LEMMA QueueTake ==
  ASSUME QueueInv, PacketTake, UNCHANGED beyond
  PROVE  QueueInv'
<1>1. /\ held = None /\ fifo # <<>> /\ held' = Head(fifo) /\ fifo' = Tail(fifo)
      /\ UNCHANGED <<sent, relinked, num, tracked, freed, msgNum, resendDue, beyond>>
  BY DEF PacketTake, listVars
<1>2. /\ Head(fifo) \in ToSet(fifo) /\ Head(fifo) \in Messages
      /\ fifo' \in Seq(Messages) /\ IsInjective(fifo')
      /\ ToSet(fifo') = ToSet(fifo) \ {Head(fifo)}
  BY <1>1, Dequeue DEF QueueInv, QueueTypes, QueueParts
<1>3. Waiting' = Waiting
  <2>1. Head(fifo) # None
    BY <1>2, BroadcasterAssumption
  <2> QED
    BY <1>1, <1>2, <2>1 DEF Waiting
<1>4. QueueTypes'
  BY <1>1, <1>2 DEF QueueInv, QueueTypes
<1>5. QueueParts'
  BY <1>1, <1>2, <1>3 DEF QueueInv, QueueParts
<1>6. OnlyNewWait'
  BY <1>1, <1>3 DEF QueueInv, OnlyNewWait
<1>7. QED
  BY <1>4, <1>5, <1>6 DEF QueueInv

LEMMA QueueAdd ==
  ASSUME QueueInv, PacketAdd, UNCHANGED beyond
  PROVE  QueueInv'
<1>1. /\ held # None /\ held' = None
      /\ UNCHANGED <<sent, fifo, relinked, msgNum, resendDue, beyond>>
      /\ UNCHANGED listVars \/ Track(held)
  BY DEF PacketAdd, AddChunk, AddUmp
<1>2. held \in Messages /\ held \in Waiting /\ held \notin freed /\ held \in sent
  BY <1>1 DEF QueueInv, QueueTypes, QueueParts, Waiting
<1>3. Waiting' = Waiting \ {held}
  <2>1. Waiting' = ToSet(fifo)
    BY <1>1 DEF Waiting
  <2>2. held \notin ToSet(fifo) /\ Waiting = ToSet(fifo) \cup {held}
    BY <1>1 DEF QueueInv, QueueParts, Waiting
  <2> QED
    BY <2>1, <2>2
<1>4. None \notin ToSet(fifo)
  <2>1. ToSet(fifo) \subseteq Messages
    BY DEF QueueInv, QueueTypes, QueueParts, Waiting
  <2> QED
    BY <2>1, BroadcasterAssumption
<1>5. freed' = freed
  BY <1>1 DEF Track, listVars
<1>6. CASE UNCHANGED <<num, tracked>>
  <2>1. QueueTypes'
    BY <1>1, <1>6 DEF QueueInv, QueueTypes
  <2>2. QueueParts'
    BY <1>1, <1>3, <1>4, <1>5, <1>6 DEF QueueInv, QueueParts
  <2>3. OnlyNewWait'
    BY <1>1, <1>3, <1>6 DEF QueueInv, OnlyNewWait
  <2> QED
    BY <2>1, <2>2, <2>3 DEF QueueInv
<1>7. CASE /\ num[held] = NumLimit /\ num' = [num EXCEPT ![held] = msgNum]
           /\ tracked' = Append(tracked, held)
  <2>1. held \notin ToSet(tracked)
    BY <1>7 DEF QueueInv, QueueParts
  <2>2. /\ tracked' \in Seq(Messages) /\ IsInjective(tracked')
        /\ ToSet(tracked') = ToSet(tracked) \cup {held}
    BY <1>2, <1>7, <2>1, Enqueue DEF QueueInv, QueueTypes, QueueParts
  <2>3. msgNum \in 0..NumLimit /\ msgNum # NumLimit
    BY BroadcasterAssumption DEF QueueInv, QueueTypes
  <2>4. /\ num' \in [Messages -> 0..NumLimit] /\ num'[held] # NumLimit
        /\ \A o \in Messages : o # held => num'[o] = num[o]
    BY <1>2, <1>7, <2>3 DEF QueueInv, QueueTypes
  <2>5. QueueTypes'
    BY <1>1, <2>2, <2>4 DEF QueueInv, QueueTypes
  <2>6. \A m \in ToSet(tracked') \cup freed : num'[m] # NumLimit
    BY <2>2, <2>4 DEF QueueInv, QueueTypes, QueueParts
  <2>7. QueueParts'
    BY <1>1, <1>2, <1>3, <1>4, <1>5, <2>2, <2>6 DEF QueueInv, QueueParts
  <2>8. OnlyNewWait'
    <3>1. Waiting \subseteq Messages
      BY DEF QueueInv, QueueParts, QueueTypes
    <3> QED
      BY <1>1, <1>3, <2>4, <3>1 DEF QueueInv, OnlyNewWait
  <2> QED
    BY <2>5, <2>7, <2>8 DEF QueueInv
<1>8. QED
  <2>1. CASE UNCHANGED listVars
    BY <1>6, <2>1 DEF listVars
  <2>2. CASE Track(held)
    BY <1>6, <1>7, <2>2 DEF Track, listVars
  <2> QED
    BY <1>1, <2>1, <2>2

LEMMA QueuePdu ==
  ASSUME QueueInv, NEW missing, Pdu(missing)
  PROVE  QueueInv'
<1>1. /\ UNCHANGED <<sent, fifo, relinked, held, num, tracked, freed>>
      /\ resendDue' = TRUE /\ beyond' = (beyond \/ held # None)
  BY DEF Pdu, RadioPdu, listVars
<1>2. held = None => fifo = <<>>
  BY DEF Pdu, PacketThreadWaits
<1>3. msgNum' \in 0..(NumLimit - 1)
  <2>1. msgNum' = IF built = <<>> THEN msgNum ELSE IF msgNum + 1 = NumLimit THEN 0 ELSE msgNum + 1
    BY DEF Pdu, RadioPdu
  <2>2. msgNum \in 0..(NumLimit - 1) /\ NumLimit \in Nat \ {0}
    BY BroadcasterAssumption DEF QueueInv, QueueTypes
  <2> QED
    BY <2>1, <2>2
<1>4. beyond' \in BOOLEAN
  BY <1>1
<1>5. QueueTypes'
  BY <1>1, <1>3, <1>4 DEF QueueInv, QueueTypes
<1>6. QueueParts'
  BY <1>1 DEF QueueInv, QueueParts, Waiting
<1>7. ASSUME ~beyond' PROVE Waiting' = {}
  <2>1. held = None /\ fifo = <<>>
    BY <1>1, <1>2, <1>7
  <2> QED
    BY <1>1, <2>1 DEF Waiting, ToSet
<1>8. QED
  BY <1>5, <1>6, <1>7 DEF QueueInv, OnlyNewWait

LEMMA QueueResend ==
  ASSUME QueueInv, ~beyond, ResendWork
  PROVE  QueueInv'
<1>1. /\ resendDue /\ resendDue' = FALSE
      /\ UNCHANGED <<sent, held, num, tracked, freed, msgNum, beyond>>
  BY DEF ResendWork, Resend, packetVars, listVars
<1> DEFINE again == Unacknowledged
           I == {i \in DOMAIN tracked : num[tracked[i]] < msgNum}
<1>2. PutAll(again)
  BY DEF ResendWork, Resend
<1>3. again = Picked(tracked, I) /\ I \in SUBSET (DOMAIN tracked)
  BY DEF Unacknowledged
<1> HIDE DEF I, again
<1>4. /\ again \in Seq(Messages) /\ IsInjective(again)
      /\ ToSet(again) = {tracked[i] : i \in I}
  BY <1>3, PickedFromList DEF QueueInv, QueueTypes, QueueParts
<1>5. ToSet(again) \subseteq ToSet(tracked)
  BY <1>3, <1>4 DEF ToSet
<1>6. \A m \in Waiting : m \notin ToSet(tracked)
  BY <1>1 DEF QueueInv, QueueParts, OnlyNewWait
<1>7. ToSet(fifo) \cap ToSet(again) = {} /\ held \notin ToSet(again)
  <2>1. None \notin ToSet(tracked)
    BY BroadcasterAssumption DEF QueueInv, QueueParts, QueueTypes
  <2> QED
    BY <1>5, <1>6, <2>1 DEF Waiting
<1>8. /\ fifo' \in Seq(Messages) /\ IsInjective(fifo')
      /\ ToSet(fifo') = ToSet(fifo) \cup ToSet(again)
  BY <1>2, <1>4, <1>7, Concatenate DEF PutAll, QueueInv, QueueTypes, QueueParts
<1>9. relinked' = FALSE
  BY <1>2, <1>7 DEF PutAll
<1>10. Waiting' = Waiting \cup ToSet(again)
  BY <1>1, <1>8 DEF Waiting
<1>11. QueueTypes'
  BY <1>1, <1>8 DEF QueueInv, QueueTypes
<1>12. QueueParts'
  BY <1>1, <1>5, <1>7, <1>8, <1>9, <1>10 DEF QueueInv, QueueParts
<1>13. QED
  BY <1>1, <1>11, <1>12 DEF QueueInv, OnlyNewWait

LEMMA QueueAck ==
  ASSUME QueueInv, ~beyond, NEW d \in Muids, AckArrives(d)
  PROVE  QueueInv'
<1> DEFINE M == {m \in Messages : num[m] = Head(acks[d]) /\ Dest[m] = d}
           I == {i \in DOMAIN tracked : tracked[i] \notin M}
<1>1. /\ resendDue
      /\ UNCHANGED <<sent, fifo, relinked, held, num, msgNum, resendDue, beyond>>
      /\ tracked' = Picked(tracked, I)
      /\ freed' = freed \cup (ToSet(tracked) \cap M)
  BY DEF AckArrives, AckMsg, RemoveMsgs, packetVars, envVars
<1>2. /\ tracked' \in Seq(Messages) /\ IsInjective(tracked')
      /\ ToSet(tracked') = {tracked[i] : i \in I}
  BY <1>1, PickedFromList, SMTT(30) DEF QueueInv, QueueTypes, QueueParts
<1>3. ToSet(tracked') \subseteq ToSet(tracked) \ M
  BY <1>2 DEF ToSet
<1> HIDE DEF I, M
<1>4. ToSet(tracked') \subseteq ToSet(tracked) /\ freed' \subseteq freed \cup ToSet(tracked)
      /\ ToSet(tracked') \cap freed' = {}
  BY <1>1, <1>3 DEF QueueInv, QueueParts
<1>5. Waiting' = Waiting
  BY <1>1 DEF Waiting
<1>6. Waiting \cap ToSet(tracked) = {}
  BY <1>1 DEF QueueInv, QueueParts, OnlyNewWait
<1>7. QueueTypes'
  BY <1>1, <1>2 DEF QueueInv, QueueTypes
<1>8. QueueParts'
  BY <1>1, <1>2, <1>4, <1>5, <1>6 DEF QueueInv, QueueParts
<1>9. OnlyNewWait'
  BY <1>1, <1>5 DEF QueueInv, OnlyNewWait
<1>10. QED
  BY <1>7, <1>8, <1>9 DEF QueueInv

LEMMA QueueStep ==
  ASSUME QueueInv, IsoNext
  PROVE  QueueInv'
<1>1. ~beyond
  BY DEF IsoNext
<1>2. CASE \E m \in Messages : AppSend(m)
  BY <1>2, QueueSend
<1>3. CASE PacketThread
  BY <1>3, QueueTake, QueueAdd DEF PacketThread, envVars
<1>4. CASE \E missing \in SUBSET Muids : Pdu(missing)
  BY <1>4, QueuePdu
<1>5. CASE ResendWork
  BY <1>1, <1>5, QueueResend
<1>6. CASE \E d \in Muids : AckArrives(d)
  BY <1>1, <1>6, QueueAck
<1>7. CASE \E d \in Muids : AckLost(d)
  BY <1>7, QueueQuiet DEF AckLost, bcVars, packetVars, listVars
<1>8. CASE \E m \in Standing : AppSendAgain(m)
  BY <1>8, QueueSendAgain
<1>9. QED
  BY <1>2, <1>3, <1>4, <1>5, <1>6, <1>7, <1>8 DEF IsoNext

\* The resend work and the acknowledgements never corrupt the fifo or free what
\* is still to be sent, whatever packets and acknowledgements are lost or late,
\* as long as packets have room for what waits (iso_tx_msg_list_resend,
\* iso_tx_msg_remove, packet_thread_fn).
THEOREM QueueStaysSound == IsoSpec => []QueueSound
<1>1. QueueInv /\ [IsoNext]_isoVars => QueueInv'
  BY QueueStep, QueueQuiet DEF isoVars, bcVars, packetVars, listVars, envVars
<1>2. QueueInv => QueueSound
  <2> SUFFICES ASSUME QueueInv PROVE QueueSound
    OBVIOUS
  <2>1. None \notin freed
    BY BroadcasterAssumption DEF QueueInv, QueueParts, QueueTypes
  <2> QED
    BY <2>1 DEF QueueSound, QueueInv, QueueParts, Waiting
<1>3. QED
  BY QueueStart, <1>1, <1>2, PTL DEF IsoSpec

-----------------------------------------------------------------------------
(* Channels *)

\* The first k channels of the packet belong to k devices; an entry with a channel
\* is for its owner, and no two entries have the same one.
Assigned(b, o) ==
  /\ o \in Seq(Muids) /\ IsInjective(o) /\ Len(o) <= Channels
  /\ b \in Seq(Entry)
  /\ \A i \in 1..Len(b) : b[i].channel # None =>
       b[i].channel \in 1..Len(o) /\ b[i].to = o[b[i].channel]
  /\ \A i, j \in 1..Len(b) :
       i # j /\ b[i].channel # None /\ b[j].channel # None => b[i].channel # b[j].channel

ChannelInv == QueueInv /\ Assigned(built, ackOwner)

LEMMA AssignedEmpty == Assigned(<<>>, <<>>)
<1>1. Channels \in Nat /\ Len(<<>>) = 0
  BY BroadcasterAssumption
<1>2. <<>> \in Seq(Muids) /\ <<>> \in Seq(Entry) /\ IsInjective(<<>>)
  BY DEF IsInjective
<1>3. QED
  BY <1>1, <1>2 DEF Assigned

\* An entry without a channel changes no owner.
LEMMA AssignedNone ==
  ASSUME NEW b, NEW o, Assigned(b, o), NEW e \in Entry, e.channel = None
  PROVE  Assigned(Append(b, e), o)
<1> DEFINE a == Append(b, e)
<1>1. /\ a \in Seq(Entry) /\ Len(a) = Len(b) + 1
      /\ \A i \in 1..Len(b) : a[i] = b[i]
      /\ a[Len(b) + 1] = e
  BY AppendProperties DEF Assigned
<1>2. Len(b) \in Nat
  BY LenProperties DEF Assigned
<1> HIDE DEF a
<1>3. \A i \in 1..Len(a) : a[i].channel # None => i \in 1..Len(b) /\ a[i] = b[i]
  BY <1>1, <1>2
<1>4. \A i \in 1..Len(a) : a[i].channel # None =>
        a[i].channel \in 1..Len(o) /\ a[i].to = o[a[i].channel]
  BY <1>3 DEF Assigned
<1>5. \A i, j \in 1..Len(a) :
        i # j /\ a[i].channel # None /\ a[j].channel # None => a[i].channel # a[j].channel
  BY <1>3 DEF Assigned
<1>6. Assigned(a, o)
  BY <1>1, <1>4, <1>5 DEF Assigned
<1>7. QED
  BY <1>6 DEF a

\* The entry of a device that has none gets the next channel.
LEMMA AssignedNext ==
  ASSUME NEW b, NEW o, Assigned(b, o), NEW e \in Entry,
         e.to \in Muids, e.to \notin ToSet(o), e.channel = Len(o) + 1, Len(o) # Channels
  PROVE  Assigned(Append(b, e), Append(o, e.to))
<1> DEFINE a == Append(b, e)
           p == Append(o, e.to)
<1>1. /\ a \in Seq(Entry) /\ Len(a) = Len(b) + 1
      /\ \A i \in 1..Len(b) : a[i] = b[i]
      /\ a[Len(b) + 1] = e
  BY AppendProperties DEF Assigned
<1>2. p \in Seq(Muids) /\ IsInjective(p)
  BY Enqueue DEF Assigned
<1>3. /\ Len(p) = Len(o) + 1 /\ \A k \in 1..Len(o) : p[k] = o[k]
      /\ p[Len(o) + 1] = e.to
  BY AppendProperties DEF Assigned
<1>4. Len(b) \in Nat /\ Len(o) \in Nat
  BY LenProperties DEF Assigned
<1> HIDE DEF a, p
<1>5. \A i \in 1..Len(a) : (i \in 1..Len(b) /\ a[i] = b[i]) \/ (i = Len(b) + 1 /\ a[i] = e)
  BY <1>1, <1>4
<1>6. \A i \in 1..Len(b) : b[i].channel # None =>
        b[i].channel \in 1..Len(o) /\ b[i].to = o[b[i].channel] /\ b[i].channel # e.channel
  BY <1>4 DEF Assigned
<1>7. \A i \in 1..Len(a) : a[i].channel # None =>
        a[i].channel \in 1..Len(p) /\ a[i].to = p[a[i].channel]
  BY <1>3, <1>4, <1>5, <1>6, SMTT(30)
<1>8. \A i, j \in 1..Len(a) :
        i # j /\ a[i].channel # None /\ a[j].channel # None => a[i].channel # a[j].channel
  <2> SUFFICES ASSUME NEW i \in 1..Len(a), NEW j \in 1..Len(a), i # j,
                      a[i].channel # None, a[j].channel # None
               PROVE  a[i].channel # a[j].channel
    OBVIOUS
  <2>1. CASE i \in 1..Len(b) /\ a[i] = b[i] /\ j \in 1..Len(b) /\ a[j] = b[j]
    BY <2>1 DEF Assigned
  <2>2. CASE i \in 1..Len(b) /\ a[i] = b[i] /\ a[j] = e
    BY <2>2, <1>6
  <2>3. CASE j \in 1..Len(b) /\ a[j] = b[j] /\ a[i] = e
    BY <2>3, <1>6
  <2> QED
    BY <1>5, <2>1, <2>2, <2>3
<1>9. Len(p) <= Channels
  BY <1>3, <1>4, BroadcasterAssumption DEF Assigned
<1>10. Assigned(a, p)
  BY <1>1, <1>2, <1>7, <1>8, <1>9 DEF Assigned
<1>11. QED
  BY <1>10 DEF a, p

LEMMA ChannelAdd ==
  ASSUME ChannelInv, PacketAdd
  PROVE  Assigned(built, ackOwner)'
<1>1. held \in Messages
  BY DEF PacketAdd, ChannelInv, QueueInv, QueueTypes
<1>2. NumLimit \in Nat \ {0} /\ msgNum \in 0..(NumLimit - 1) /\ num[held] \in 0..NumLimit
  BY <1>1, BroadcasterAssumption DEF ChannelInv, QueueInv, QueueTypes
<1>3. CASE AddChunk(held)
  <2> DEFINE e == [to |-> Everyone, msg |-> held, num |-> NumLimit, channel |-> None]
  <2>1. built' = Append(built, e) /\ ackOwner' = ackOwner
    BY <1>3 DEF AddChunk
  <2>2. e \in Entry
    BY <1>1, <1>2 DEF Entry
  <2>3. e.channel = None
    OBVIOUS
  <2> HIDE DEF e
  <2> QED
    BY <2>1, <2>2, <2>3, AssignedNone DEF ChannelInv
<1>4. CASE AddUmp(held)
  <2>1. Dest[held] \in Muids
    BY <1>1, <1>4, BroadcasterAssumption DEF AddUmp
  <2>2. PICK n : n = IF num[held] = NumLimit THEN msgNum ELSE num[held]
    OBVIOUS
  <2>3. n \in 0..NumLimit
    BY <1>2, <2>2
  <2>4. PICK c : c = AckChannel(Dest[held])
    OBVIOUS
  <2> DEFINE e == [to |-> Dest[held], msg |-> held, num |-> n, channel |-> c]
  <2>5. /\ built' = Append(built, e)
        /\ ackOwner' = IF c = None THEN ackOwner ELSE Append(ackOwner, Dest[held])
    BY <1>4, <2>2, <2>4 DEF AddUmp
  <2>6. e.to = Dest[held] /\ e.channel = c
    OBVIOUS
  <2>7. ackOwner \in Seq(Muids) /\ Len(ackOwner) \in Nat
    BY LenProperties DEF ChannelInv, Assigned
  <2>8. CASE c = None
    <3>1. e \in Entry
      BY <1>1, <2>1, <2>3, <2>8 DEF Entry
    <3> HIDE DEF e
    <3> QED
      BY <2>5, <2>6, <2>8, <3>1, AssignedNone DEF ChannelInv
  <2>9. CASE c # None
    <3>1. /\ Dest[held] \notin ToSet(ackOwner) /\ c = Len(ackOwner) + 1
          /\ Len(ackOwner) # Channels
      BY <2>4, <2>9 DEF AckChannel
    <3>2. c \in 1..Channels
      BY <2>7, <3>1, BroadcasterAssumption DEF ChannelInv, Assigned
    <3>3. e \in Entry
      BY <1>1, <2>1, <2>3, <3>2 DEF Entry
    <3> HIDE DEF e
    <3>4. Assigned(Append(built, e), Append(ackOwner, e.to))
      BY <2>1, <2>6, <3>1, <3>3, AssignedNext DEF ChannelInv
    <3> QED
      BY <2>5, <2>6, <2>9, <3>4
  <2> QED
    BY <2>8, <2>9
<1>5. QED
  BY <1>3, <1>4 DEF PacketAdd

LEMMA ChannelStep ==
  ASSUME ChannelInv, [IsoNext]_isoVars
  PROVE  ChannelInv'
<1>1. QueueInv'
  BY QueueStep, QueueQuiet DEF ChannelInv, isoVars, bcVars, packetVars, listVars, envVars
<1>2. \/ UNCHANGED <<built, ackOwner>> \/ PacketAdd
      \/ built' = <<>> /\ ackOwner' = <<>>
  <2>1. CASE \E m \in Messages : AppSend(m)
    BY <2>1 DEF AppSend, Send, packetVars
  <2>2. CASE PacketThread
    BY <2>2 DEF PacketThread, PacketTake
  <2>3. CASE \E missing \in SUBSET Muids : Pdu(missing)
    BY <2>3 DEF Pdu, RadioPdu
  <2>4. CASE ResendWork
    BY <2>4 DEF ResendWork, Resend, packetVars
  <2>5. CASE \E d \in Muids : AckArrives(d)
    BY <2>5 DEF AckArrives, AckMsg, RemoveMsgs, packetVars
  <2>6. CASE \E d \in Muids : AckLost(d)
    BY <2>6 DEF AckLost, bcVars, packetVars
  <2>7. CASE UNCHANGED isoVars
    BY <2>7 DEF isoVars, bcVars, packetVars
  <2>8. CASE \E m \in Standing : AppSendAgain(m)
    BY <2>8 DEF AppSendAgain, bcVars, packetVars
  <2> QED
    BY <2>1, <2>2, <2>3, <2>4, <2>5, <2>6, <2>7, <2>8 DEF IsoNext
<1>3. Assigned(built, ackOwner)'
  <2>1. CASE UNCHANGED <<built, ackOwner>>
    BY <2>1 DEF ChannelInv
  <2> QED
    BY <1>2, <2>1, ChannelAdd, AssignedEmpty
<1>4. QED
  BY <1>1, <1>3 DEF ChannelInv

\* However many messages a packet has for however many devices, each device is
\* asked for one acknowledgement, on a channel of its own (assign_ack_channel).
THEOREM ChannelsAreOwned == IsoSpec => []OneChannelEach
<1>1. IsoInit => ChannelInv
  <2>1. IsoInit => built = <<>> /\ ackOwner = <<>>
    BY DEF IsoInit, Init
  <2> QED
    BY <2>1, QueueStart, AssignedEmpty DEF ChannelInv
<1>2. ChannelInv => OneChannelEach
  <2> SUFFICES ASSUME ChannelInv, NEW i \in DOMAIN built, NEW j \in DOMAIN built, i # j,
                      built[i].channel # None, built[j].channel # None
               PROVE  built[i].to # built[j].to /\ built[i].channel # built[j].channel
    BY DEF OneChannelEach
  <2>1. i \in 1..Len(built) /\ j \in 1..Len(built)
    BY LenProperties DEF ChannelInv, Assigned
  <2>2. built[i].channel # built[j].channel
    BY <2>1 DEF ChannelInv, Assigned
  <2>3. /\ built[i].channel \in DOMAIN ackOwner /\ built[i].to = ackOwner[built[i].channel]
        /\ built[j].channel \in DOMAIN ackOwner /\ built[j].to = ackOwner[built[j].channel]
    BY <2>1, LenProperties DEF ChannelInv, Assigned
  <2> QED
    BY <2>2, <2>3 DEF ChannelInv, Assigned, IsInjective
<1>3. QED
  BY <1>1, <1>2, ChannelStep, PTL DEF IsoSpec

-----------------------------------------------------------------------------
(* What devices play *)

\* The messages for a device that send takes, and what playing them puts on the
\* serial port.
Playable == {m \in Messages : Dest[m] \in Muids /\ ToUmp(Data[m], 0) # None}
Playing == {[msg |-> m, data |-> FromUmp(ToUmp(Data[m], 0))] : m \in Playable}

\* The entries of the payload are messages given to the port, for their device and
\* with their number, which is the packet's if they have none.
BuiltInv == \A i \in DOMAIN built :
  LET m == built[i].msg
  IN  /\ m \in sent /\ built[i].to = Dest[m]
      /\ Dest[m] \in Muids =>
           built[i].num = IF num[m] = NumLimit THEN msgNum ELSE num[m]

PlayInv ==
  /\ ChannelInv
  /\ BuiltInv
  /\ \A m \in sent : Dest[m] # Everyone => m \in Playable
  /\ played \in [Muids -> Seq(Playing)]

-----------------------------------------------------------------------------
(* What has been played *)

\* A message with a number is in the list or was, and not of a later packet.
Numbered(m) ==
  num[m] # NumLimit =>
    m \in ToSet(tracked) \cup freed /\ m \in Playable /\ num[m] <= msgNum

\* Every message in the list goes into the next packet: it waits, is in the payload
\* already, or the resend work is about to put it into the fifo.
NextPacketComplete == \A m \in ToSet(tracked) :
  \/ m \in Waiting
  \/ \E i \in DOMAIN built : built[i].msg = m
  \/ resendDue /\ num[m] < msgNum

\* Device d has played every message up to the number it remembers, ...
Remembers(d) == previous[d] # NumLimit =>
  /\ previous[d] < msgNum
  /\ \A m \in Messages : Dest[m] = d /\ num[m] <= previous[d] => m \in Played(d)

\* ... and every message with a number it acknowledges.
Acknowledges(d) == \A n \in ToSet(acks[d]) :
  /\ n < msgNum
  /\ \A m \in Messages : Dest[m] = d /\ num[m] = n => m \in Played(d)

DeliveryInv ==
  /\ PlayInv
  /\ previous \in [Muids -> 0..NumLimit]
  /\ acks \in [Muids -> Seq(0..NumLimit)]
  /\ ignored \in [Muids -> SUBSET Messages]
  /\ \A m \in Messages : Numbered(m)
  /\ \A m \in freed : m \in Played(Dest[m])
  /\ \A d \in Muids : Played(d) \subseteq sent
  /\ \A d \in Muids : ignored[d] \subseteq Played(d)
  /\ ~beyond =>
       /\ NextPacketComplete
       /\ \A d \in Muids : Remembers(d) /\ Acknowledges(d)

\* The behaviours of IsoSpec in which no number of a packet is used again (and their
\* prefixes: every behaviour is one of these until then).
FirstRound == IsoInit /\ [][IsoNext /\ msgNum <= msgNum']_isoVars

\* A packet with the conversion of the samples: one definition in two modules.
LEMMA OneConversion ==
  /\ \A u : Device!FromUmp(u) = FromUmp(u)
  /\ \A s, I : Device!Picked(s, I) = Picked(s, I)
<1>1. \A u : Device!Opcode(u) = Opcode(u)
  BY DEF Device!Opcode, Opcode
<1>2. Device!TwoDataOps = TwoDataOps
  BY DEF Device!TwoDataOps, TwoDataOps
<1>3. \A u : Device!FromUmp(u) = FromUmp(u)
  BY <1>1, <1>2, Zenon DEF Device!FromUmp, FromUmp
<1>4. \A I : Device!Ascending(I) = Ascending(I)
  <2>1. \A I : Device!Cardinality(I) = Cardinality(I)
    BY Zenon DEF Device!Cardinality, Cardinality
  <2> QED
    BY <2>1, Zenon DEF Device!Ascending, Ascending
<1>5. \A s, I : Device!Picked(s, I) = Picked(s, I)
  BY <1>4, Zenon DEF Device!Picked, Picked
<1> QED
  BY <1>3, <1>5

LEMMA Concatenated ==
  ASSUME NEW S, NEW s \in Seq(S), NEW t \in Seq(S)
  PROVE  s \o t \in Seq(S) /\ ToSet(s \o t) = ToSet(s) \cup ToSet(t)
<1> DEFINE c == s \o t
<1>1. /\ c \in Seq(S) /\ Len(c) = Len(s) + Len(t)
      /\ \A i \in 1..(Len(s) + Len(t)) : c[i] = IF i <= Len(s) THEN s[i] ELSE t[i - Len(s)]
  BY ConcatProperties
<1>2. /\ Len(s) \in Nat /\ Len(t) \in Nat
      /\ DOMAIN s = 1..Len(s) /\ DOMAIN t = 1..Len(t) /\ DOMAIN c = 1..(Len(s) + Len(t))
  BY <1>1, LenProperties
<1> HIDE DEF c
<1>3. ASSUME NEW i \in DOMAIN c PROVE c[i] \in ToSet(s) \cup ToSet(t)
  <2>1. \/ i \in DOMAIN s /\ c[i] = s[i]
        \/ i - Len(s) \in DOMAIN t /\ c[i] = t[i - Len(s)]
    BY <1>1, <1>2
  <2> QED
    BY <2>1 DEF ToSet
<1>4. ASSUME NEW i \in DOMAIN s PROVE s[i] \in ToSet(c)
  <2>1. i \in DOMAIN c /\ c[i] = s[i]
    BY <1>1, <1>2
  <2> QED
    BY <2>1 DEF ToSet
<1>5. ASSUME NEW i \in DOMAIN t PROVE t[i] \in ToSet(c)
  <2>1. i + Len(s) \in DOMAIN c /\ c[i + Len(s)] = t[i]
    BY <1>1, <1>2
  <2> QED
    BY <2>1 DEF ToSet
<1>6. ToSet(c) = ToSet(s) \cup ToSet(t)
  BY <1>3, <1>4, <1>5 DEF ToSet
<1> QED
  BY <1>1, <1>6 DEF c

\* What device d is sent: the entries of the payload with its muid.
LEMMA SentTo ==
  ASSUME PlayInv, NEW d \in Muids
  PROVE  /\ Len(built) \in Nat /\ DOMAIN OnAir = 1..Len(built) /\ DOMAIN built = 1..Len(built)
         /\ Device!Mine(d, OnAir) = {i \in 1..Len(built) : built[i].to = d}
         /\ Device!NewTo(d, OnAir) \subseteq Device!Mine(d, OnAir)
         /\ \A i \in Device!Mine(d, OnAir) :
              /\ OnAir[i].msg = built[i].msg /\ OnAir[i].num = built[i].num
              /\ OnAir[i].channel = built[i].channel
              /\ OnAir[i].data = ToUmp(Data[built[i].msg], 0)
              /\ built[i].msg \in Playable /\ Dest[built[i].msg] = d
<1>1. Len(built) \in Nat /\ DOMAIN built = 1..Len(built)
  BY LenProperties DEF PlayInv, ChannelInv, Assigned
<1>2. /\ DOMAIN OnAir = 1..Len(built)
      /\ \A i \in 1..Len(built) :
           /\ OnAir[i].to = built[i].to
           /\ OnAir[i].msg = built[i].msg /\ OnAir[i].num = built[i].num
           /\ OnAir[i].channel = built[i].channel
           /\ built[i].to # Everyone => OnAir[i].data = ToUmp(Data[built[i].msg], 0)
  BY <1>1 DEF OnAir
<1>3. Device!Mine(d, OnAir) = {i \in 1..Len(built) : built[i].to = d}
  BY <1>2 DEF Device!Mine
<1>4. Device!NewTo(d, OnAir) \subseteq Device!Mine(d, OnAir)
  BY DEF Device!NewTo
<1>5. d # Everyone
  BY BroadcasterAssumption
<1>6. ASSUME NEW i \in 1..Len(built), built[i].to = d
      PROVE  built[i].msg \in Playable /\ Dest[built[i].msg] = d
  <2>1. built[i].msg \in sent /\ Dest[built[i].msg] = d
    BY <1>1, <1>6 DEF PlayInv, BuiltInv
  <2> QED
    BY <1>5, <2>1 DEF PlayInv
<1> QED
  BY <1>1, <1>2, <1>3, <1>4, <1>5, <1>6

\* The messages of the new entries go to the serial port.
LEMMA PlaysNew ==
  ASSUME PlayInv, NEW d \in Muids
  PROVE  /\ Device!PlayedAfter(d, OnAir) \in Seq(Playing)
         /\ {p.msg : p \in ToSet(Device!PlayedAfter(d, OnAir))} =
              {p.msg : p \in ToSet(played[d])} \cup {built[i].msg : i \in Device!NewTo(d, OnAir)}
<1> DEFINE new == Device!NewTo(d, OnAir)
           plays == [i \in new |-> [msg |-> OnAir[i].msg, data |-> FromUmp(OnAir[i].data)]]
           t == Picked(plays, new)
<1>1. Device!PlayedAfter(d, OnAir) = played[d] \o t
  BY OneConversion DEF Device!PlayedAfter
<1>2. /\ Len(built) \in Nat /\ new \in SUBSET (1..Len(built))
      /\ \A i \in new : OnAir[i].msg = built[i].msg
                        /\ OnAir[i].data = ToUmp(Data[built[i].msg], 0)
                        /\ built[i].msg \in Playable
  BY SentTo
<1> HIDE DEF new
<1>3. \A i \in new : plays[i] \in Playing /\ plays[i].msg = built[i].msg
  BY <1>2 DEF Playing
<1> HIDE DEF plays
<1>4. t \in Seq(Playing) /\ ToSet(t) = {plays[i] : i \in new}
  <2>1. PICK n \in Nat : new \in SUBSET (1..n)
    BY <1>2
  <2>2. \A i \in new : plays[i] \in Playing
    BY <1>3
  <2> QED
    BY <2>1, <2>2, PickedProperties, ZenonT(40)
<1> HIDE DEF t
<1>5. played[d] \in Seq(Playing)
  BY DEF PlayInv
<1>6. /\ played[d] \o t \in Seq(Playing)
      /\ ToSet(played[d] \o t) = ToSet(played[d]) \cup {plays[i] : i \in new}
  BY <1>4, <1>5, Concatenated
<1>7. {p.msg : p \in ToSet(played[d] \o t)} =
        {p.msg : p \in ToSet(played[d])} \cup {built[i].msg : i \in new}
  BY <1>3, <1>6
<1> QED
  BY <1>1, <1>6, <1>7 DEF new

LEMMA BuiltAdd ==
  ASSUME PlayInv, PacketAdd
  PROVE  BuiltInv'
<1>1. /\ held \in Messages /\ held \in sent
      /\ UNCHANGED <<sent, msgNum>>
  <2>1. held # None /\ held \in Messages
    BY DEF PacketAdd, PlayInv, ChannelInv, QueueInv, QueueTypes
  <2>2. held \in Waiting
    BY <2>1 DEF Waiting
  <2> QED
    BY <2>1, <2>2 DEF PacketAdd, PlayInv, ChannelInv, QueueInv, QueueParts
<1>2. num \in [Messages -> 0..NumLimit] /\ msgNum # NumLimit
  <2>1. msgNum \in 0..(NumLimit - 1) /\ NumLimit \in Nat
    BY BroadcasterAssumption DEF PlayInv, ChannelInv, QueueInv, QueueTypes
  <2> QED
    BY <2>1 DEF PlayInv, ChannelInv, QueueInv, QueueTypes
<1>3. built \in Seq(Entry) /\ Len(built) \in Nat /\ DOMAIN built = 1..Len(built)
  BY LenProperties DEF PlayInv, ChannelInv, Assigned
<1>4. \A i \in 1..Len(built) : built[i].msg \in sent /\ built[i].msg \in Messages
  BY <1>3 DEF PlayInv, BuiltInv, ChannelInv, QueueInv, QueueTypes
\* The number that counts for the payload does not change.
<1>5. \A m \in Messages :
        (IF num'[m] = NumLimit THEN msgNum ELSE num'[m]) =
        (IF num[m] = NumLimit THEN msgNum ELSE num[m])
  <2>1. \/ num' = num
        \/ num[held] = NumLimit /\ num' = [num EXCEPT ![held] = msgNum]
    BY DEF PacketAdd, AddChunk, AddUmp, Track, listVars
  <2> QED
    BY <1>1, <1>2, <2>1
<1>6. PICK e : /\ built' = Append(built, e) /\ e \in Entry
               /\ e.msg = held /\ e.to = Dest[held]
               /\ Dest[held] \in Muids =>
                    e.num = IF num[held] = NumLimit THEN msgNum ELSE num[held]
  <2>1. CASE AddChunk(held)
    <3> DEFINE e == [to |-> Everyone, msg |-> held, num |-> NumLimit, channel |-> None]
    <3>1. built' = Append(built, e) /\ Dest[held] = Everyone /\ Dest[held] \notin Muids
      BY <2>1, BroadcasterAssumption DEF AddChunk
    <3>2. e \in Entry
      BY <1>1, BroadcasterAssumption DEF Entry
    <3> QED
      BY <3>1, <3>2
  <2>2. CASE AddUmp(held)
    <3>1. PICK n, c : /\ n = (IF num[held] = NumLimit THEN msgNum ELSE num[held])
                      /\ c = AckChannel(Dest[held])
      OBVIOUS
    <3> DEFINE e == [to |-> Dest[held], msg |-> held, num |-> n, channel |-> c]
    <3>2. built' = Append(built, e)
      BY <2>2, <3>1 DEF AddUmp
    <3>3. e \in Entry
      <4>1. built' \in Seq(Entry)
        BY ChannelAdd DEF PlayInv, Assigned
      <4> HIDE DEF e
      <4>2. Len(built') = Len(built) + 1 /\ built'[Len(built) + 1] = e
        BY <1>3, <3>2, AppendProperties
      <4>3. Len(built) + 1 \in 1..Len(built')
        BY <1>3, <4>2
      <4> QED
        BY <4>1, <4>2, <4>3, ElementOfSeq
    <3> QED
      BY <3>1, <3>2, <3>3
  <2> QED
    BY <2>1, <2>2 DEF PacketAdd
<1>7. /\ Len(built') = Len(built) + 1 /\ built'[Len(built) + 1] = e
      /\ \A i \in 1..Len(built) : built'[i] = built[i]
      /\ DOMAIN built' = 1..(Len(built) + 1)
  BY <1>3, <1>6, AppendProperties, LenProperties
<1>8. ASSUME NEW i \in 1..Len(built)
      PROVE  LET m == built[i].msg
             IN  /\ m \in sent /\ built[i].to = Dest[m]
                 /\ Dest[m] \in Muids =>
                      built[i].num = IF num'[m] = NumLimit THEN msgNum ELSE num'[m]
  BY <1>3, <1>4, <1>5 DEF PlayInv, BuiltInv
<1>9. Dest[held] \in Muids => e.num = IF num'[held] = NumLimit THEN msgNum ELSE num'[held]
  BY <1>1, <1>5, <1>6
<1> QED
  <2> SUFFICES ASSUME NEW i \in 1..(Len(built) + 1)
               PROVE  LET m == built'[i].msg
                      IN  /\ m \in sent /\ built'[i].to = Dest[m]
                          /\ Dest[m] \in Muids =>
                               built'[i].num = IF num'[m] = NumLimit THEN msgNum ELSE num'[m]
    BY <1>1, <1>7 DEF BuiltInv
  <2>1. CASE i \in 1..Len(built)
    BY <1>7, <1>8, <2>1
  <2>2. CASE i = Len(built) + 1
    BY <1>1, <1>6, <1>7, <1>9, <2>2
  <2> QED
    BY <1>3, <2>1, <2>2

LEMMA BuiltStep ==
  ASSUME PlayInv, [IsoNext]_isoVars
  PROVE  BuiltInv'
<1>1. ASSUME UNCHANGED <<built, sent, num, msgNum>> PROVE BuiltInv'
  BY <1>1 DEF PlayInv, BuiltInv
<1>2. ASSUME NEW m \in Messages, AppSend(m) PROVE BuiltInv'
  <2>1. /\ m \notin sent /\ sent' = sent \cup {m} /\ num' = [num EXCEPT ![m] = NumLimit]
        /\ UNCHANGED <<built, msgNum>>
    BY <1>2 DEF AppSend, Send, packetVars
  <2>2. \A i \in DOMAIN built : built[i].msg \in sent /\ built[i].msg # m
    BY <2>1 DEF PlayInv, BuiltInv
  <2>3. \A o \in Messages : o # m => num'[o] = num[o]
    BY <2>1 DEF PlayInv, ChannelInv, QueueInv, QueueTypes
  <2>4. \A o \in sent : o \in Messages
    BY DEF PlayInv, ChannelInv, QueueInv, QueueTypes
  <2> QED
    BY <2>1, <2>2, <2>3, <2>4 DEF PlayInv, BuiltInv
<1>3. ASSUME NEW missing, Pdu(missing) PROVE BuiltInv'
  <2>1. built' = <<>>
    BY <1>3 DEF Pdu, RadioPdu
  <2> QED
    BY <2>1 DEF BuiltInv
<1>4. CASE PacketThread
  BY <1>1, <1>4, BuiltAdd DEF PacketThread, PacketTake, listVars
<1>5. CASE ResendWork
  BY <1>1, <1>5 DEF ResendWork, Resend, packetVars, listVars
<1>6. CASE \E d \in Muids : AckArrives(d)
  BY <1>1, <1>6 DEF AckArrives, AckMsg, RemoveMsgs, packetVars
<1>7. CASE \E d \in Muids : AckLost(d)
  BY <1>1, <1>7 DEF AckLost, bcVars, packetVars, listVars
<1>8. CASE UNCHANGED isoVars
  BY <1>1, <1>8 DEF isoVars, bcVars, packetVars, listVars
<1>9. CASE \E m \in Standing : AppSendAgain(m)
  BY <1>1, <1>9 DEF AppSendAgain, bcVars, packetVars, listVars
<1> QED
  BY <1>2, <1>3, <1>4, <1>5, <1>6, <1>7, <1>8, <1>9 DEF IsoNext

\* Only a packet changes what devices have played.
LEMMA OnlyPdu ==
  ASSUME [IsoNext]_isoVars, ~ \E missing \in SUBSET Muids : Pdu(missing)
  PROVE  UNCHANGED <<previous, played, ignored>>
<1>1. CASE \E m \in Messages : AppSend(m)
  BY <1>1 DEF AppSend, rxVars
<1>2. CASE PacketThread
  BY <1>2 DEF PacketThread, rxVars
<1>3. CASE ResendWork
  BY <1>3 DEF ResendWork, rxVars
<1>4. CASE \E d \in Muids : AckArrives(d)
  BY <1>4 DEF AckArrives
<1>5. CASE \E d \in Muids : AckLost(d)
  BY <1>5 DEF AckLost
<1>6. CASE UNCHANGED isoVars
  BY <1>6 DEF isoVars, rxVars
<1>7. CASE \E m \in Standing : AppSendAgain(m)
  BY <1>7 DEF AppSendAgain, rxVars
<1> QED
  BY <1>1, <1>2, <1>3, <1>4, <1>5, <1>6, <1>7 DEF IsoNext

LEMMA PlayedStep ==
  ASSUME PlayInv, [IsoNext]_isoVars
  PROVE  played' \in [Muids -> Seq(Playing)]
<1>1. ASSUME NEW missing, Pdu(missing) PROVE played' \in [Muids -> Seq(Playing)]
  <2>1. played' = [d \in Muids |-> IF d \in Muids \ missing
                                   THEN Device!PlayedAfter(d, OnAir) ELSE played[d]]
    BY <1>1 DEF Pdu, Device!Received
  <2>2. \A d \in Muids : /\ Device!PlayedAfter(d, OnAir) \in Seq(Playing)
                         /\ played[d] \in Seq(Playing)
    BY PlaysNew DEF PlayInv
  <2> QED
    BY <2>1, <2>2
<1>2. CASE ~ \E missing \in SUBSET Muids : Pdu(missing)
  BY <1>2, OnlyPdu DEF PlayInv
<1> QED
  BY <1>1, <1>2

LEMMA OnlySend ==
  ASSUME [IsoNext]_isoVars, ~ \E m \in Messages : AppSend(m)
  PROVE  sent' = sent
<1>1. CASE PacketThread
  BY <1>1 DEF PacketThread, PacketTake, PacketAdd
<1>2. CASE \E missing \in SUBSET Muids : Pdu(missing)
  BY <1>2 DEF Pdu, RadioPdu
<1>3. CASE ResendWork
  BY <1>3 DEF ResendWork, Resend
<1>4. CASE \E d \in Muids : AckArrives(d)
  BY <1>4 DEF AckArrives, AckMsg, RemoveMsgs
<1>5. CASE \E d \in Muids : AckLost(d)
  BY <1>5 DEF AckLost, bcVars
<1>6. CASE UNCHANGED isoVars
  BY <1>6 DEF isoVars, bcVars
<1>7. CASE \E m \in Standing : AppSendAgain(m)
  BY <1>7 DEF AppSendAgain, bcVars
<1> QED
  BY <1>1, <1>2, <1>3, <1>4, <1>5, <1>6, <1>7 DEF IsoNext

LEMMA PlayStep ==
  ASSUME PlayInv, [IsoNext]_isoVars
  PROVE  PlayInv'
<1>1. ChannelInv' /\ BuiltInv' /\ played' \in [Muids -> Seq(Playing)]
  BY ChannelStep, BuiltStep, PlayedStep DEF PlayInv
<1>2. \A m \in sent' : Dest[m] # Everyone => m \in Playable
  <2>1. ASSUME NEW m \in Messages, AppSend(m)
        PROVE  \A o \in sent' : Dest[o] # Everyone => o \in Playable
    <3>1. sent' = sent \cup {m} /\ (Dest[m] = Everyone \/ ToUmp(Data[m], 0) # None)
      BY <2>1 DEF AppSend, Send
    <3>2. Dest[m] \in Muids \cup {Everyone}
      BY BroadcasterAssumption
    <3> QED
      BY <3>1, <3>2 DEF PlayInv, Playable
  <2>2. CASE ~ \E m \in Messages : AppSend(m)
    BY <2>2, OnlySend DEF PlayInv
  <2> QED
    BY <2>1, <2>2
<1> QED
  BY <1>1, <1>2 DEF PlayInv, Playable, Playing

LEMMA PlayStart == IsoInit => PlayInv
<1> SUFFICES ASSUME IsoInit PROVE PlayInv
  OBVIOUS
<1>1. built = <<>> /\ ackOwner = <<>> /\ sent = {}
  BY DEF IsoInit, Init
<1>2. ChannelInv
  BY <1>1, QueueStart, AssignedEmpty DEF ChannelInv
<1>3. BuiltInv
  BY <1>1 DEF BuiltInv
<1>4. played \in [Muids -> Seq(Playing)]
  BY DEF IsoInit, Device!RxInit
<1> QED
  BY <1>1, <1>2, <1>3, <1>4 DEF PlayInv

\* A message that has gone through both conversions: status byte on channel 0, the
\* A sequence of up to three numbers is its elements.
LEMMA Elements ==
  ASSUME NEW s \in Seq(Nat)
  PROVE  /\ Len(s) = 1 => s = <<s[1]>>
         /\ Len(s) = 2 => s = <<s[1], s[2]>>
         /\ Len(s) = 3 => s = <<s[1], s[2], s[3]>>
  OBVIOUS

\* What follows the first of two or three numbers.
LEMMA WithoutFirst ==
  ASSUME NEW s \in Seq(Nat), Len(s) \in {2, 3}
  PROVE  Tail(s) = IF Len(s) = 3 THEN <<s[2], s[3]>> ELSE <<s[2]>>
<1>1. s # <<>>
  BY SMTT(30)
<1>2. PICK t : t = Tail(s)
  OBVIOUS
<1>3. /\ t \in Seq(Nat) /\ Len(t) = Len(s) - 1
      /\ \A i \in 1..Len(t) : t[i] = s[i + 1]
  BY <1>1, <1>2, HeadTailProperties
<1>4. CASE Len(s) = 3
  <2>1. Len(t) = 2 /\ t[1] = s[2] /\ t[2] = s[3]
    BY <1>3, <1>4
  <2>2. t = <<s[2], s[3]>>
    BY <1>3, <2>1, Elements
  <2> QED
    BY <1>2, <1>4, <2>2
<1>5. CASE Len(s) = 2
  <2>1. Len(t) = 1 /\ t[1] = s[2]
    BY <1>3, <1>5
  <2>2. t = <<s[2]>>
    BY <1>3, <2>1, Elements
  <2>3. Len(s) # 3
    BY <1>5
  <2> QED
    BY <1>2, <2>2, <2>3
<1> QED
  BY <1>4, <1>5

\* What midi_ump_to_1_0 takes out of a packet of four bytes.
LEMMA Cut ==
  ASSUME NEW u \in Seq(Nat), Len(u) = 4
  PROVE  /\ SubSeq(u, 2, 4) = <<u[2], u[3], u[4]>>
         /\ SubSeq(u, 2, 3) = <<u[2], u[3]>>
<1>1. \A i \in 2..4 : u[i] \in Nat
  <2>1. \A i \in 2..4 : i \in 1..Len(u)
    OBVIOUS
  <2> QED
    BY <2>1, ElementOfSeq
<1>2. /\ SubSeq(u, 2, 4) \in Seq(Nat) /\ Len(SubSeq(u, 2, 4)) = 4 - 2 + 1
      /\ \A i \in 1..(4 - 2 + 1) : SubSeq(u, 2, 4)[i] = u[2 + i - 1]
  BY <1>1, SubSeqProperties
<1>3. /\ SubSeq(u, 2, 3) \in Seq(Nat) /\ Len(SubSeq(u, 2, 3)) = 3 - 2 + 1
      /\ \A i \in 1..(3 - 2 + 1) : SubSeq(u, 2, 3)[i] = u[2 + i - 1]
  <2>1. \A i \in 2..3 : u[i] \in Nat
    BY <1>1
  <2> QED
    BY <2>1, SubSeqProperties
<1>4. PICK s : s = SubSeq(u, 2, 4)
  OBVIOUS
<1>5. PICK t : t = SubSeq(u, 2, 3)
  OBVIOUS
<1>6. s \in Seq(Nat) /\ Len(s) = 3 /\ s[1] = u[2] /\ s[2] = u[3] /\ s[3] = u[4]
  BY <1>2, <1>4
<1>7. t \in Seq(Nat) /\ Len(t) = 2 /\ t[1] = u[2] /\ t[2] = u[3]
  BY <1>3, <1>5
<1> QED
  BY <1>4, <1>5, <1>6, <1>7, Elements

\* The elements of a packet.
LEMMA Four ==
  ASSUME NEW a \in Nat, NEW b \in Nat, NEW c \in Nat, NEW e \in Nat
  PROVE  /\ <<a, b, c, e>> \in Seq(Nat) /\ Len(<<a, b, c, e>>) = 4
         /\ <<a, b, c, e>>[1] = a /\ <<a, b, c, e>>[2] = b
         /\ <<a, b, c, e>>[3] = c /\ <<a, b, c, e>>[4] = e
  OBVIOUS

\* A packet of type 2 gives back the bytes it was made from.
LEMMA Unpacked ==
  ASSUME NEW op \in 0..15, NEW b \in Nat, NEW c \in Nat
  PROVE  FromUmp(ChannelVoice(0, op, 0, b, c)) =
           IF op \in TwoDataOps THEN <<op * 16, b, c>> ELSE <<op * 16, b>>
<1>1. PICK st : st = op * 16
  OBVIOUS
<1>2. /\ st \in Nat /\ st + 0 = st /\ Opcode(st) = op
      /\ ChannelVoiceType * 16 + 0 = 32
  BY <1>1 DEF Opcode, ChannelVoiceType
<1>3. PICK u : u = <<32, st, b, c>>
  OBVIOUS
<1>4. u \in Seq(Nat) /\ Len(u) = 4 /\ u[2] = st /\ u[3] = b /\ u[4] = c
  BY <1>2, <1>3, Four
<1>5. ChannelVoice(0, op, 0, b, c) = u
  BY <1>1, <1>2, <1>3, Zenon DEF ChannelVoice
<1>6. FromUmp(u) = IF op \in TwoDataOps THEN SubSeq(u, 2, 4) ELSE SubSeq(u, 2, 3)
  BY <1>2, <1>4 DEF FromUmp
<1>7. SubSeq(u, 2, 4) = <<st, b, c>> /\ SubSeq(u, 2, 3) = <<st, b>>
  BY <1>4, Cut
<1> QED
  BY <1>1, <1>5, <1>6, <1>7
\* A message with the data bytes of its kind survives the conversion there and back,
\* but for its channel (midi_1_0_to_ump, midi_ump_to_1_0).
LEMMA RoundTrip ==
  ASSUME NEW w \in Seq(0..255), w # <<>>, ToUmp(w, 0) # None,
         (Opcode(w[1]) \in TwoDataOps => Len(w) = 3),
         (Opcode(w[1]) \in OneDataOps => Len(w) = 2)
  PROVE  LET got == FromUmp(ToUmp(w, 0))
         IN  /\ Opcode(got[1]) = Opcode(w[1]) /\ got[1] % 16 = 0
             /\ Tail(got) = Tail(w)
<1>1. PICK op : op = Opcode(w[1])
  OBVIOUS
<1>2. op \in TwoDataOps \/ op \in OneDataOps
  BY <1>1 DEF ToUmp
<1>3. op \in 0..15 /\ (op \in OneDataOps => op \notin TwoDataOps)
  BY <1>2 DEF TwoDataOps, OneDataOps
<1>4. /\ op * 16 \in Nat /\ Opcode(op * 16) = op /\ (op * 16) % 16 = 0
  BY <1>3 DEF Opcode
<1>5. w \in Seq(Nat)
  <2>1. 0..255 \subseteq Nat
    OBVIOUS
  <2> QED
    BY <2>1, SeqMonotonic
<1>6. CASE op \in TwoDataOps
  <2>1. PICK b, c : b = w[2] /\ c = w[3]
    OBVIOUS
  <2>2. Len(w) = 3
    BY <1>1, <1>6
  <2>3. b \in Nat /\ c \in Nat
    <3>1. 2 \in 1..Len(w) /\ 3 \in 1..Len(w)
      BY <2>2
    <3> QED
      BY <1>5, <2>1, <3>1, ElementOfSeq
  <2>4. ToUmp(w, 0) = ChannelVoice(0, op, 0, b, c)
    BY <1>1, <1>3, <1>6, <2>1 DEF ToUmp
  <2>5. PICK got : got = FromUmp(ToUmp(w, 0))
    OBVIOUS
  <2>6. got = <<op * 16, b, c>>
    BY <1>3, <1>6, <2>3, <2>4, <2>5, Unpacked
  <2>7. got \in Seq(Nat) /\ Len(got) = 3 /\ got[1] = op * 16 /\ got[2] = b /\ got[3] = c
    BY <1>4, <2>3, <2>6
  <2>8. Tail(got) = <<b, c>>
    BY <2>7, WithoutFirst
  <2>9. Tail(w) = <<b, c>>
    BY <1>5, <2>1, <2>2, WithoutFirst
  <2> QED
    BY <1>1, <1>4, <2>5, <2>7, <2>8, <2>9
<1>7. CASE op \in OneDataOps
  <2>1. PICK b : b = w[2]
    OBVIOUS
  <2>2. Len(w) = 2
    BY <1>1, <1>7
  <2>3. b \in Nat /\ 0 \in Nat
    <3>1. 2 \in 1..Len(w)
      BY <2>2
    <3> QED
      BY <1>5, <2>1, <3>1, ElementOfSeq
  <2>4. ToUmp(w, 0) = ChannelVoice(0, op, 0, b, 0)
    BY <1>1, <1>3, <1>7, <2>1 DEF ToUmp
  <2>5. PICK got : got = FromUmp(ToUmp(w, 0))
    OBVIOUS
  <2>6. got = <<op * 16, b>>
    BY <1>3, <1>7, <2>3, <2>4, <2>5, Unpacked
  <2>7. got \in Seq(Nat) /\ Len(got) = 2 /\ got[1] = op * 16 /\ got[2] = b
    BY <1>4, <2>3, <2>6
  <2>8. Tail(got) = <<b>>
    BY <2>7, WithoutFirst, SMTT(30)
  <2>9. Tail(w) = <<b>>
    BY <1>5, <2>1, <2>2, WithoutFirst
  <2> QED
    BY <1>1, <1>4, <2>5, <2>7, <2>8, <2>9
<1> QED
  BY <1>2, <1>6, <1>7
\* same data bytes.
LEMMA Converted ==
  ASSUME NEW m \in Playable
  PROVE  LET given == Data[m]
             got == FromUmp(ToUmp(given, 0))
         IN  /\ Opcode(got[1]) = Opcode(given[1]) /\ got[1] % 16 = 0
             /\ Tail(got) = Tail(given)
<1>1. PICK w : w = Data[m]
  OBVIOUS
<1>2. /\ w \in Seq(0..255) /\ w # <<>>
      /\ Opcode(w[1]) \in TwoDataOps => Len(w) = 3
      /\ Opcode(w[1]) \in OneDataOps => Len(w) = 2
  BY <1>1, DataAssumption DEF Playable
<1>3. ToUmp(w, 0) # None
  BY <1>1 DEF Playable
<1> QED
  BY <1>1, <1>2, <1>3, RoundTrip

\* Whatever is lost, repeated or reordered, a device plays only messages the sender
\* was given for it, with their data bytes, on channel 0 (midi_1_0_to_ump,
\* add_msg_to_payload, parse_ump, midi_ump_to_1_0).
THEOREM DevicesPlayAsGiven == IsoSpec => []PlayedAsGiven
<1>1. PlayInv => PlayedAsGiven
  <2> SUFFICES ASSUME PlayInv, NEW d \in Muids, NEW i \in DOMAIN played[d]
               PROVE  LET given == Data[played[d][i].msg]
                          got == played[d][i].data
                      IN  /\ Opcode(got[1]) = Opcode(given[1]) /\ got[1] % 16 = 0
                          /\ Tail(got) = Tail(given)
    BY DEF PlayedAsGiven
  <2>1. played[d][i] \in Playing
    <3>1. played[d] \in Seq(Playing) /\ i \in 1..Len(played[d])
      BY LenProperties DEF PlayInv
    <3> QED
      BY <3>1, ElementOfSeq
  <2>2. PICK m \in Playable :
          played[d][i].msg = m /\ played[d][i].data = FromUmp(ToUmp(Data[m], 0))
    BY <2>1 DEF Playing
  <2> QED
    BY <2>2, Converted
<1>2. PlayInv /\ [IsoNext]_isoVars => PlayInv'
  BY PlayStep
<1> QED
  BY PlayStart, <1>1, <1>2, PTL DEF IsoSpec

-----------------------------------------------------------------------------
(* A packet on a device *)

\* The entries of the payload for device d, and those that are no repetitions.
For(d) == {i \in DOMAIN built : built[i].to = d}
Fresh(d) == {i \in For(d) : built[i].num # previous[d] /\ built[i].num # previous[d] - 1}

LEMMA FreshIsNew ==
  ASSUME PlayInv, NEW d \in Muids
  PROVE  /\ Device!Mine(d, OnAir) = For(d) /\ Device!NewTo(d, OnAir) = Fresh(d)
         /\ \A i \in For(d) : OnAir[i].msg = built[i].msg /\ OnAir[i].num = built[i].num
         /\ Len(built) \in Nat /\ For(d) \in SUBSET (1..Len(built))
         /\ Fresh(d) \in SUBSET (1..Len(built)) /\ Fresh(d) \subseteq For(d)
<1>1. /\ Len(built) \in Nat /\ DOMAIN built = 1..Len(built)
      /\ Device!Mine(d, OnAir) = {i \in 1..Len(built) : built[i].to = d}
      /\ \A i \in Device!Mine(d, OnAir) :
           OnAir[i].msg = built[i].msg /\ OnAir[i].num = built[i].num
  BY SentTo
<1>2. Device!Mine(d, OnAir) = For(d)
  BY <1>1 DEF For
<1>3. Device!NewTo(d, OnAir) = {i \in For(d) : ~Device!Repeated(d, OnAir[i].num)}
  BY <1>2 DEF Device!NewTo
<1>4. \A i \in For(d) : Device!Repeated(d, OnAir[i].num) <=>
        (built[i].num = previous[d] \/ built[i].num = previous[d] - 1)
  BY <1>1, <1>2 DEF Device!Repeated
<1>5. Device!NewTo(d, OnAir) = Fresh(d)
  BY <1>3, <1>4 DEF Fresh
<1>6. For(d) \in SUBSET (1..Len(built)) /\ Fresh(d) \subseteq For(d)
  BY <1>1 DEF For, Fresh
<1> QED
  BY <1>1, <1>2, <1>5, <1>6

LEMMA MessagesOf == \A s : {s[i].msg : i \in DOMAIN s} = {p.msg : p \in ToSet(s)}
BY DEF ToSet

\* Device d has not heard the packet, or plays what is fresh and acknowledges.
LEMMA PduOnDevice ==
  ASSUME PlayInv, acks \in [Muids -> Seq(0..NumLimit)],
         NEW missing, Pdu(missing), NEW d \in Muids
  PROVE  \/ /\ Played(d)' = Played(d) /\ ignored'[d] = ignored[d]
            /\ previous'[d] = previous[d] /\ acks'[d] = acks[d]
         \/ /\ Played(d)' = Played(d) \cup {built[i].msg : i \in Fresh(d)}
            /\ ignored'[d] = ignored[d] \cup {built[i].msg : i \in For(d) \ Fresh(d)}
            /\ Fresh(d) = {} => previous'[d] = previous[d]
            /\ Fresh(d) # {} => \E i \in Fresh(d) : previous'[d] = built[i].num
            /\ acks'[d] \in Seq(0..NumLimit)
            /\ \A n \in ToSet(acks'[d]) :
                 n \in ToSet(acks[d]) \/ \E i \in For(d) : n = built[i].num
<1>1. /\ previous' = [e \in Muids |-> IF e \in Muids \ missing
                         THEN Device!PreviousAfter(e, OnAir) ELSE previous[e]]
      /\ played' = [e \in Muids |-> IF e \in Muids \ missing
                         THEN Device!PlayedAfter(e, OnAir) ELSE played[e]]
      /\ ignored' = [e \in Muids |-> IF e \in Muids \ missing
                         THEN Device!IgnoredAfter(e, OnAir) ELSE ignored[e]]
      /\ acks' = [e \in Muids |-> IF e \in Muids \ missing
                         THEN Device!AcksAfter(e, OnAir) ELSE acks[e]]
  BY DEF Pdu, Device!Received
<1>2. CASE d \in missing
  <2>1. /\ previous'[d] = previous[d] /\ played'[d] = played[d]
        /\ ignored'[d] = ignored[d] /\ acks'[d] = acks[d]
    BY <1>1, <1>2
  <2> QED
    BY <2>1 DEF Played
<1>3. CASE d \notin missing
  <2>1. /\ previous'[d] = Device!PreviousAfter(d, OnAir)
        /\ played'[d] = Device!PlayedAfter(d, OnAir)
        /\ ignored'[d] = Device!IgnoredAfter(d, OnAir)
        /\ acks'[d] = Device!AcksAfter(d, OnAir)
    BY <1>1, <1>3
  <2>2. /\ Device!Mine(d, OnAir) = For(d) /\ Device!NewTo(d, OnAir) = Fresh(d)
        /\ \A i \in For(d) : OnAir[i].msg = built[i].msg /\ OnAir[i].num = built[i].num
        /\ Len(built) \in Nat /\ For(d) \in SUBSET (1..Len(built))
        /\ Fresh(d) \in SUBSET (1..Len(built)) /\ Fresh(d) \subseteq For(d)
    BY FreshIsNew
  <2>3. Played(d)' = Played(d) \cup {built[i].msg : i \in Fresh(d)}
    <3>1. {p.msg : p \in ToSet(Device!PlayedAfter(d, OnAir))} =
             {p.msg : p \in ToSet(played[d])} \cup {built[i].msg : i \in Device!NewTo(d, OnAir)}
      BY PlaysNew
    <3>2. Played(d)' = {p.msg : p \in ToSet(played'[d])}
      BY MessagesOf DEF Played
    <3>3. Played(d) = {p.msg : p \in ToSet(played[d])}
      BY MessagesOf DEF Played
    <3> QED
      BY <2>1, <2>2, <3>1, <3>2, <3>3
  <2>4. ignored'[d] = ignored[d] \cup {built[i].msg : i \in For(d) \ Fresh(d)}
    <3>1. {OnAir[i].msg : i \in For(d) \ Fresh(d)} = {built[i].msg : i \in For(d) \ Fresh(d)}
      BY <2>2
    <3> QED
      BY <2>1, <2>2, <3>1 DEF Device!IgnoredAfter
  <2>5. Fresh(d) = {} => previous'[d] = previous[d]
    BY <2>1, <2>2 DEF Device!PreviousAfter
  <2>6. ASSUME Fresh(d) # {} PROVE \E i \in Fresh(d) : previous'[d] = built[i].num
    <3>1. PICK n, I, s : n = Len(built) /\ I = Fresh(d) /\ s = OnAir
      OBVIOUS
    <3>2. PICK S : \A i \in I : s[i] \in S
      <4>1. \A i \in I : s[i] \in {s[j] : j \in I}
        OBVIOUS
      <4> QED
        BY <4>1
    <3>3. n \in Nat /\ I \in SUBSET (1..n)
      BY <2>2, <3>1
    <3>4. ToSet(Picked(s, I)) = {s[i] : i \in I} /\ Last(Picked(s, I)) \in ToSet(Picked(s, I))
      <4>1. /\ Picked(s, I) \in Seq(S)
            /\ ToSet(Picked(s, I)) = {s[i] : i \in I}
            /\ (\A i, j \in I : s[i] = s[j] => i = j) => IsInjective(Picked(s, I))
            /\ I # {} => Last(Picked(s, I)) \in ToSet(Picked(s, I))
        BY <3>2, <3>3, PickedProperties
      <4> QED
        BY <2>6, <3>1, <4>1
    <3>5. PICK i \in I : Last(Picked(s, I)) = s[i]
      BY <3>4
    <3>6. previous'[d] = Last(Picked(s, I)).num
      <4>1. previous'[d] = Device!Last(Device!Picked(OnAir, Fresh(d))).num
        BY <2>1, <2>2, <2>6 DEF Device!PreviousAfter
      <4>2. Device!Picked(OnAir, Fresh(d)) = Picked(s, I)
        BY <3>1, OneConversion
      <4>3. \A t : Device!Last(t) = Last(t)
        BY Zenon DEF Device!Last, Last
      <4> QED
        BY <4>1, <4>2, <4>3
    <3> QED
      BY <2>2, <3>1, <3>5, <3>6
  <2>7. /\ acks'[d] \in Seq(0..NumLimit)
        /\ \A n \in ToSet(acks'[d]) :
             n \in ToSet(acks[d]) \/ \E i \in For(d) : n = built[i].num
    <3>1. PICK asked : asked = {i \in For(d) : OnAir[i].channel # None}
      OBVIOUS
    <3>2. PICK s : s = [i \in asked |-> OnAir[i].num]
      OBVIOUS
    <3>3. PICK t : t = Picked(s, asked)
      OBVIOUS
    <3>4. acks'[d] = acks[d] \o t
      <4>1. acks'[d] = acks[d] \o Device!Picked(s, asked)
        BY <2>1, <2>2, <3>1, <3>2 DEF Device!AcksAfter
      <4> QED
        BY <3>3, <4>1, OneConversion
    <3>5. \A i \in asked : i \in For(d) /\ s[i] = built[i].num /\ s[i] \in 0..NumLimit
      <4>1. \A i \in 1..Len(built) : built[i].num \in 0..NumLimit
        <5>1. built \in Seq(Entry)
          BY DEF PlayInv, ChannelInv, Assigned
        <5>2. \A e \in Entry : e.num \in 0..NumLimit
          BY DEF Entry
        <5> QED
          BY <5>1, <5>2, ElementOfSeq
      <4> QED
        BY <2>2, <3>1, <3>2, <4>1
    <3>6. t \in Seq(0..NumLimit) /\ ToSet(t) = {s[i] : i \in asked}
      <4>1. PICK n \in Nat : asked \in SUBSET (1..n)
        BY <2>2, <3>1
      <4>2. PICK S : S = 0..NumLimit
        OBVIOUS
      <4>3. \A i \in asked : s[i] \in S
        BY <3>5, <4>2
      <4>4. /\ Picked(s, asked) \in Seq(S)
            /\ ToSet(Picked(s, asked)) = {s[i] : i \in asked}
        BY <4>1, <4>3, PickedProperties
      <4> QED
        BY <3>3, <4>2, <4>4
    <3>7. acks'[d] \in Seq(0..NumLimit) /\ ToSet(acks'[d]) = ToSet(acks[d]) \cup ToSet(t)
      <4>1. PICK a : a = acks[d]
        OBVIOUS
      <4>2. a \in Seq(0..NumLimit)
        BY <4>1
      <4>3. a \o t \in Seq(0..NumLimit) /\ ToSet(a \o t) = ToSet(a) \cup ToSet(t)
        BY <3>6, <4>2, Concatenated
      <4> QED
        BY <3>4, <4>1, <4>3
    <3> QED
      BY <3>5, <3>6, <3>7
  <2> QED
    BY <2>3, <2>4, <2>5, <2>6, <2>7
<1> QED
  BY <1>2, <1>3

\* What the types and the queue say about numbers.
LEMMA Numbers ==
  ASSUME DeliveryInv
  PROVE  /\ NumLimit \in Nat /\ NumLimit > 1 /\ msgNum \in Nat /\ msgNum < NumLimit
         /\ num \in [Messages -> 0..NumLimit] /\ sent \subseteq Messages
         /\ ToSet(tracked) \subseteq sent /\ freed \subseteq sent
         /\ \A m \in ToSet(tracked) \cup freed : num[m] # NumLimit
         /\ Len(built) \in Nat /\ DOMAIN built = 1..Len(built)
         /\ \A i \in DOMAIN built :
              /\ built[i].msg \in sent /\ built[i].to = Dest[built[i].msg]
              /\ Dest[built[i].msg] \in Muids =>
                   built[i].num = IF num[built[i].msg] = NumLimit
                                  THEN msgNum ELSE num[built[i].msg]
         /\ \A d \in Muids : previous[d] \in 0..NumLimit
<1>1. NumLimit \in Nat /\ NumLimit > 1
  BY BroadcasterAssumption
<1>2. QueueInv
  BY DEF DeliveryInv, PlayInv, ChannelInv
<1>3. msgNum \in Nat /\ msgNum < NumLimit
  <2>1. msgNum \in 0..(NumLimit - 1)
    BY <1>2 DEF QueueInv, QueueTypes
  <2> QED
    BY <1>1, <2>1
<1>4. Len(built) \in Nat /\ DOMAIN built = 1..Len(built)
  BY LenProperties DEF DeliveryInv, PlayInv, ChannelInv, Assigned
<1>5. BuiltInv /\ previous \in [Muids -> 0..NumLimit]
  BY DEF DeliveryInv, PlayInv
<1> QED
  BY <1>1, <1>2, <1>3, <1>4, <1>5 DEF QueueInv, QueueTypes, QueueParts, BuiltInv

\* What a device takes for a repetition it has played: the number it remembers is
\* that of an earlier packet.  The last number is left out: to a device that has not
\* heard anything yet a new message with it looks like a repetition.
LEMMA RepeatedWasPlayed ==
  ASSUME DeliveryInv, ~beyond, NEW d \in Muids, NEW i \in For(d) \ Fresh(d),
         msgNum + 1 # NumLimit
  PROVE  built[i].msg \in Played(d)
<1>1. PICK m, n, p : m = built[i].msg /\ n = built[i].num /\ p = previous[d]
  OBVIOUS
<1>2. /\ m \in Messages /\ Dest[m] = d
      /\ n = IF num[m] = NumLimit THEN msgNum ELSE num[m]
  BY <1>1, Numbers DEF For
<1>3. /\ NumLimit \in Nat /\ msgNum \in Nat /\ msgNum < NumLimit /\ p \in 0..NumLimit
      /\ num[m] \in 0..NumLimit
  BY <1>1, <1>2, Numbers
<1>4. num[m] # NumLimit => num[m] <= msgNum
  BY <1>2 DEF DeliveryInv, Numbered
<1>5. n = p \/ n = p - 1
  BY <1>1 DEF Fresh
<1>6. n \in Nat /\ n <= msgNum
  BY <1>2, <1>3, <1>4
<1>7. p # NumLimit
  BY <1>3, <1>5, <1>6
<1>8. Remembers(d)
  BY DEF DeliveryInv
<1>9. p < msgNum /\ \A o \in Messages : Dest[o] = d /\ num[o] <= p => o \in Played(d)
  BY <1>1, <1>7, <1>8 DEF Remembers
<1>10. n < msgNum /\ n <= p
  BY <1>3, <1>5, <1>6, <1>9
<1>11. num[m] = n
  BY <1>2, <1>3, <1>10
<1> QED
  BY <1>1, <1>2, <1>9, <1>10, <1>11

\* The number of a packet with messages is not the last one, while none comes again.
LEMMA NotTheLast ==
  ASSUME DeliveryInv, NEW missing, Pdu(missing), msgNum <= msgNum'
  PROVE  built # <<>> => msgNum + 1 # NumLimit /\ msgNum' = msgNum + 1
<1>1. msgNum' = IF built = <<>> THEN msgNum ELSE IF msgNum + 1 = NumLimit THEN 0 ELSE msgNum + 1
  BY DEF Pdu, RadioPdu
<1>2. NumLimit \in Nat /\ NumLimit > 1 /\ msgNum \in Nat
  BY Numbers
<1>3. PICK e \in BOOLEAN : e = (built = <<>>)
  OBVIOUS
<1>4. msgNum' = IF e THEN msgNum ELSE IF msgNum + 1 = NumLimit THEN 0 ELSE msgNum + 1
  BY <1>1, <1>3
<1>5. ~e => msgNum + 1 # NumLimit /\ msgNum' = msgNum + 1
  BY <1>2, <1>4
<1> QED
  BY <1>3, <1>5

LEMMA PlayedGrows ==
  ASSUME DeliveryInv, NEW missing, Pdu(missing), NEW d \in Muids
  PROVE  /\ Played(d) \subseteq Played(d)'
         /\ Played(d)' \subseteq Played(d) \cup {built[i].msg : i \in For(d)}
<1>1. Fresh(d) \subseteq For(d)
  BY DEF Fresh
<1> QED
  BY <1>1, PduOnDevice DEF DeliveryInv

\* If the packet had room for everything, each message with a number is in it, or
\* was acknowledged: a device that hears it has then played all its messages.
LEMMA HeardAll ==
  ASSUME DeliveryInv, ~beyond, NEW missing, Pdu(missing), msgNum <= msgNum', ~beyond',
         NEW d \in Muids,
         Played(d)' = Played(d) \cup {built[i].msg : i \in Fresh(d)},
         NEW m \in Messages, Dest[m] = d, num[m] # NumLimit
  PROVE  m \in Played(d)'
<1>1. Waiting = {} /\ ~resendDue
  <2>1. held = None /\ fifo = <<>> /\ ~resendDue
    BY DEF Pdu, PacketThreadWaits
  <2> QED
    BY <2>1 DEF Waiting, ToSet
<1>2. m \in ToSet(tracked) \cup freed
  BY DEF DeliveryInv, Numbered
<1>3. CASE m \in freed
  <2>1. m \in Played(d)
    BY <1>3 DEF DeliveryInv
  <2> QED
    BY <2>1
<1>4. CASE m \in ToSet(tracked)
  <2>1. PICK i \in DOMAIN built : built[i].msg = m
    BY <1>1, <1>4 DEF DeliveryInv, NextPacketComplete
  <2>2. i \in For(d)
    BY <2>1, Numbers DEF For
  <2>3. built # <<>>
    BY <2>1
  <2>4. msgNum + 1 # NumLimit
    BY <2>3, NotTheLast
  <2>5. CASE i \in Fresh(d)
    BY <2>1, <2>5
  <2>6. CASE i \notin Fresh(d)
    BY <2>1, <2>2, <2>4, <2>6, RepeatedWasPlayed
  <2> QED
    BY <2>5, <2>6
<1> QED
  BY <1>2, <1>3, <1>4

\* A device after a packet.
LEMMA RemembersPdu ==
  ASSUME DeliveryInv, ~beyond, NEW missing, Pdu(missing), msgNum <= msgNum', ~beyond',
         NEW d \in Muids
  PROVE  Remembers(d)' /\ Acknowledges(d)'
<1>1. num' = num
  BY DEF Pdu, RadioPdu, listVars
<1>2. Remembers(d) /\ Acknowledges(d) /\ acks \in [Muids -> Seq(0..NumLimit)]
  BY DEF DeliveryInv
<1>3. /\ NumLimit \in Nat /\ msgNum \in Nat /\ msgNum < NumLimit /\ msgNum' \in Nat
      /\ previous[d] \in Nat /\ num \in [Messages -> 0..NumLimit]
  <2>1. msgNum' = msgNum \/ msgNum' = msgNum + 1
    <3>1. msgNum' = msgNum \/ built # <<>>
      BY DEF Pdu, RadioPdu
    <3> QED
      BY <3>1, NotTheLast
  <2> QED
    BY <2>1, Numbers
<1>4. Played(d) \subseteq Played(d)'
  BY PlayedGrows
<1>5. ASSUME previous'[d] = previous[d] PROVE Remembers(d)'
  <2> SUFFICES ASSUME previous[d] # NumLimit
               PROVE  /\ previous[d] < msgNum'
                      /\ \A m \in Messages : Dest[m] = d /\ num[m] <= previous[d]
                                             => m \in Played(d)'
    BY <1>1, <1>5 DEF Remembers
  <2>1. /\ previous[d] < msgNum
        /\ \A m \in Messages : Dest[m] = d /\ num[m] <= previous[d] => m \in Played(d)
    BY <1>2 DEF Remembers
  <2> QED
    BY <1>3, <1>4, <2>1
<1>6. ASSUME NEW n \in ToSet(acks[d])
      PROVE  n < msgNum' /\ \A m \in Messages : Dest[m] = d /\ num[m] = n => m \in Played(d)'
  <2>1. n \in Nat
    <3>1. acks[d] \in Seq(0..NumLimit)
      BY <1>2
    <3>2. PICK k \in DOMAIN acks[d] : n = acks[d][k]
      BY DEF ToSet
    <3>3. n \in 0..NumLimit
      BY <3>1, <3>2, LenProperties, ElementOfSeq
    <3> QED
      BY <1>3, <3>3
  <2>2. n < msgNum /\ \A m \in Messages : Dest[m] = d /\ num[m] = n => m \in Played(d)
    BY <1>2 DEF Acknowledges
  <2> QED
    BY <1>3, <1>4, <2>1, <2>2
\* A number in the packet is one of a packet up to now, and the device has its messages.
<1>7. ASSUME NEW i \in For(d),
             Played(d)' = Played(d) \cup {built[k].msg : k \in Fresh(d)}
      PROVE  /\ built[i].num < msgNum' /\ built[i].num \in Nat
             /\ \A m \in Messages : Dest[m] = d /\ num[m] <= built[i].num => m \in Played(d)'
  <2>1. PICK o, n : o = built[i].msg /\ n = built[i].num
    OBVIOUS
  <2>2. /\ o \in Messages /\ Dest[o] = d
        /\ n = IF num[o] = NumLimit THEN msgNum ELSE num[o]
    BY <2>1, Numbers DEF For
  <2>3. num[o] \in 0..NumLimit /\ (num[o] # NumLimit => num[o] <= msgNum)
    BY <1>3, <2>2 DEF DeliveryInv, Numbered
  <2>4. n \in Nat /\ n <= msgNum
    BY <1>3, <2>2, <2>3
  <2>5. msgNum' = msgNum + 1
    <3>1. built # <<>>
      BY <1>7 DEF For
    <3> QED
      BY <3>1, NotTheLast
  <2>6. \A m \in Messages : num[m] <= n => num[m] # NumLimit
    BY <1>3, <2>4
  <2>7. \A m \in Messages : Dest[m] = d /\ num[m] <= n => m \in Played(d)'
    BY <1>7, <2>6, HeardAll
  <2>8. n < msgNum'
    BY <1>3, <2>4, <2>5
  <2> QED
    BY <2>1, <2>4, <2>7, <2>8
<1>8. CASE previous'[d] = previous[d] /\ acks'[d] = acks[d]
  <2>1. Acknowledges(d)'
    BY <1>1, <1>6, <1>8 DEF Acknowledges
  <2> QED
    BY <1>5, <1>8, <2>1
<1>9. CASE /\ Played(d)' = Played(d) \cup {built[i].msg : i \in Fresh(d)}
           /\ Fresh(d) = {} => previous'[d] = previous[d]
           /\ Fresh(d) # {} => \E i \in Fresh(d) : previous'[d] = built[i].num
           /\ \A n \in ToSet(acks'[d]) :
                n \in ToSet(acks[d]) \/ \E i \in For(d) : n = built[i].num
  <2>1. Remembers(d)'
    <3>1. CASE Fresh(d) = {}
      BY <1>5, <1>9, <3>1
    <3>2. CASE Fresh(d) # {}
      <4>1. PICK i \in Fresh(d) : previous'[d] = built[i].num
        BY <1>9, <3>2
      <4>2. i \in For(d)
        BY DEF Fresh
      <4>3. /\ previous'[d] < msgNum'
            /\ \A m \in Messages : Dest[m] = d /\ num[m] <= previous'[d] => m \in Played(d)'
        BY <1>7, <1>9, <4>1, <4>2
      <4> QED
        BY <1>1, <4>3 DEF Remembers
    <3> QED
      BY <3>1, <3>2
  <2>2. ASSUME NEW n \in ToSet(acks'[d])
        PROVE  n < msgNum' /\ \A m \in Messages : Dest[m] = d /\ num[m] = n => m \in Played(d)'
    <3>1. CASE n \in ToSet(acks[d])
      BY <1>6, <3>1
    <3>2. CASE \E i \in For(d) : n = built[i].num
      <4>1. PICK i \in For(d) : n = built[i].num
        BY <3>2
      <4>2. /\ n < msgNum' /\ n \in Nat
            /\ \A m \in Messages : Dest[m] = d /\ num[m] <= n => m \in Played(d)'
        BY <1>7, <1>9, <4>1
      <4>3. \A m \in Messages : num[m] = n => num[m] <= n
        BY <4>2
      <4> QED
        BY <4>2, <4>3
    <3> QED
      BY <1>9, <2>2, <3>1, <3>2
  <2>3. Acknowledges(d)'
    BY <1>1, <2>2 DEF Acknowledges
  <2> QED
    BY <2>1, <2>3
<1> QED
  BY <1>2, <1>8, <1>9, PduOnDevice DEF DeliveryInv

-----------------------------------------------------------------------------
(* Steps *)

\* What an invariant says that only looks at these variables is kept by steps that
\* do not touch devices or numbers, and leave in the queue what is tracked.
LEMMA DeliveryQuiet ==
  ASSUME DeliveryInv, PlayInv',
         UNCHANGED <<num, freed, msgNum, previous, played, ignored, beyond>>,
         sent \subseteq sent', ToSet(tracked) = ToSet(tracked'),
         acks' \in [Muids -> Seq(0..NumLimit)],
         \A d \in Muids : ToSet(acks'[d]) \subseteq ToSet(acks[d]),
         ~beyond => NextPacketComplete'
  PROVE  DeliveryInv'
<1>1. \A d : Played(d)' = Played(d)
  BY DEF Played
<1>2. /\ previous' \in [Muids -> 0..NumLimit]
      /\ ignored' \in [Muids -> SUBSET Messages]
      /\ \A d \in Muids : ignored'[d] \subseteq Played(d)'
      /\ \A m \in freed' : m \in Played(Dest[m])'
      /\ \A d \in Muids : Played(d)' \subseteq sent'
  BY <1>1 DEF DeliveryInv
<1>3. \A m \in Messages : Numbered(m)'
  BY DEF DeliveryInv, Numbered
<1>4. ASSUME ~beyond', NEW d \in Muids PROVE Remembers(d)' /\ Acknowledges(d)'
  <2>1. Remembers(d) /\ Acknowledges(d)
    BY <1>4 DEF DeliveryInv
  <2> QED
    BY <1>1, <2>1 DEF Remembers, Acknowledges
<1> QED
  BY <1>2, <1>3, <1>4 DEF DeliveryInv

\* The first element is taken out of the acknowledgements of device d.
LEMMA TakenOut ==
  ASSUME acks \in [Muids -> Seq(0..NumLimit)], NEW d \in Muids, acks[d] # <<>>,
         acks' = [acks EXCEPT ![d] = Tail(@)]
  PROVE  /\ acks' \in [Muids -> Seq(0..NumLimit)]
         /\ \A e \in Muids : ToSet(acks'[e]) \subseteq ToSet(acks[e])
         /\ Head(acks[d]) \in ToSet(acks[d])
<1>1. PICK a, S : a = acks[d] /\ S = 0..NumLimit
  OBVIOUS
<1>2. a \in Seq(S) /\ a # <<>>
  BY <1>1
<1>3. PICK t : t = Tail(a)
  OBVIOUS
<1>4. /\ t \in Seq(S) /\ Len(t) = Len(a) - 1
      /\ \A i \in 1..Len(t) : t[i] = a[i + 1]
  BY <1>2, <1>3, HeadTailProperties
<1>5. /\ Len(a) \in Nat /\ Len(a) > 0 /\ DOMAIN a = 1..Len(a) /\ DOMAIN t = 1..Len(t)
  BY <1>2, <1>4, LenProperties, EmptySeq
<1>6. ToSet(t) \subseteq ToSet(a)
  <2>1. ASSUME NEW i \in DOMAIN t PROVE t[i] \in ToSet(a)
    <3>1. i + 1 \in DOMAIN a /\ t[i] = a[i + 1]
      BY <1>4, <1>5
    <3> QED
      BY <3>1 DEF ToSet
  <2> QED
    BY <2>1 DEF ToSet
<1>7. Head(a) \in ToSet(a)
  <2>1. 1 \in DOMAIN a /\ Head(a) = a[1]
    BY <1>5
  <2> QED
    BY <2>1 DEF ToSet
<1>8. acks' = [acks EXCEPT ![d] = t]
  BY <1>1, <1>3
<1> QED
  BY <1>1, <1>4, <1>6, <1>7, <1>8

\* A message that is given to the port never had a number.
LEMMA DeliverySend ==
  ASSUME DeliveryInv, PlayInv', NEW m \in Messages, AppSend(m)
  PROVE  DeliveryInv'
<1>1. /\ m \notin sent /\ sent' = sent \cup {m} /\ fifo' = Append(fifo, m)
      /\ num' = [num EXCEPT ![m] = NumLimit]
      /\ UNCHANGED <<held, built, tracked, freed, msgNum, resendDue,
                     previous, played, ignored, acks, beyond>>
  BY DEF AppSend, Send, packetVars, rxVars, envVars
<1>2. num' = num
  <2>1. num[m] = NumLimit
    BY <1>1, Numbers DEF DeliveryInv, Numbered
  <2> QED
    BY <1>1, <2>1, Numbers
<1>3. ToSet(fifo) \subseteq ToSet(fifo')
  <2>1. fifo \in Seq(Messages)
    BY DEF DeliveryInv, PlayInv, ChannelInv, QueueInv, QueueTypes
  <2>2. /\ Len(fifo) \in Nat /\ DOMAIN fifo = 1..Len(fifo)
        /\ DOMAIN fifo' = 1..(Len(fifo) + 1) /\ \A i \in 1..Len(fifo) : fifo'[i] = fifo[i]
    BY <1>1, <2>1, AppendProperties, LenProperties
  <2>3. ASSUME NEW i \in DOMAIN fifo PROVE fifo[i] \in ToSet(fifo')
    <3>1. i \in DOMAIN fifo' /\ fifo'[i] = fifo[i]
      BY <2>2
    <3> QED
      BY <3>1 DEF ToSet
  <2> QED
    BY <2>3 DEF ToSet
<1>4. Waiting \subseteq Waiting'
  BY <1>1, <1>3 DEF Waiting
<1>5. ~beyond => NextPacketComplete'
  BY <1>1, <1>2, <1>4 DEF DeliveryInv, NextPacketComplete
<1>6. acks' \in [Muids -> Seq(0..NumLimit)] /\ sent \subseteq sent'
  BY <1>1 DEF DeliveryInv
<1> QED
  BY <1>1, <1>2, <1>5, <1>6, DeliveryQuiet

LEMMA DeliveryTake ==
  ASSUME DeliveryInv, PlayInv', PacketTake, UNCHANGED <<rxVars, envVars>>
  PROVE  DeliveryInv'
<1>1. /\ held = None /\ fifo # <<>> /\ held' = Head(fifo) /\ fifo' = Tail(fifo)
      /\ UNCHANGED <<sent, built, num, tracked, freed, msgNum, resendDue,
                     previous, played, ignored, acks, beyond>>
  BY DEF PacketTake, listVars, rxVars, envVars
<1>2. Waiting' = Waiting
  <2>1. QueueInv
    BY DEF DeliveryInv, PlayInv, ChannelInv
  <2>2. /\ Head(fifo) \in ToSet(fifo) /\ Head(fifo) \in Messages
        /\ ToSet(fifo') = ToSet(fifo) \ {Head(fifo)}
    BY <1>1, <2>1, Dequeue DEF QueueInv, QueueTypes, QueueParts
  <2>3. Head(fifo) # None
    BY <2>2, BroadcasterAssumption
  <2> QED
    BY <1>1, <2>2, <2>3 DEF Waiting
<1>3. ~beyond => NextPacketComplete'
  BY <1>1, <1>2 DEF DeliveryInv, NextPacketComplete
<1>4. acks' \in [Muids -> Seq(0..NumLimit)]
  BY <1>1 DEF DeliveryInv
<1> QED
  BY <1>1, <1>3, <1>4, DeliveryQuiet

\* The packet thread puts what it has taken into the payload; a message that gets a
\* number then gets that of the packet.
LEMMA DeliveryAdd ==
  ASSUME DeliveryInv, PlayInv', PacketAdd, UNCHANGED <<rxVars, envVars>>
  PROVE  DeliveryInv'
<1>1. /\ held # None /\ held' = None
      /\ UNCHANGED <<sent, fifo, freed, msgNum, resendDue,
                     previous, played, ignored, acks, beyond>>
  BY DEF PacketAdd, AddChunk, AddUmp, Track, listVars, rxVars, envVars
<1>2. QueueInv
  BY DEF DeliveryInv, PlayInv, ChannelInv
<1>3. held \in Messages /\ held \in sent
  <2>1. held \in Messages /\ held \in Waiting
    BY <1>1, <1>2 DEF QueueInv, QueueTypes, Waiting
  <2> QED
    BY <1>2, <2>1 DEF QueueInv, QueueParts
<1>4. Waiting \subseteq Waiting' \cup {held}
  BY <1>1 DEF Waiting
<1>5. /\ \E i \in DOMAIN built' : built'[i].msg = held
      /\ \A i \in DOMAIN built : i \in DOMAIN built' /\ built'[i] = built[i]
  <2>1. PICK e : built' = Append(built, e) /\ e.msg = held
    BY DEF PacketAdd, AddChunk, AddUmp
  <2>2. built \in Seq(Entry) /\ built' \in Seq(Entry)
    BY DEF DeliveryInv, PlayInv, ChannelInv, Assigned
  <2>3. /\ Len(built) \in Nat /\ DOMAIN built = 1..Len(built)
        /\ DOMAIN built' = 1..(Len(built) + 1) /\ built'[Len(built) + 1] = e
        /\ \A i \in 1..Len(built) : built'[i] = built[i]
    BY <2>1, <2>2, LenProperties
  <2> QED
    BY <2>1, <2>3
<1>6. ASSUME ToSet(tracked') \subseteq ToSet(tracked) \cup {held},
             \A m \in ToSet(tracked) : num'[m] = num[m], ~beyond
      PROVE  NextPacketComplete'
  <2> SUFFICES ASSUME NEW m \in ToSet(tracked')
               PROVE  \/ m \in Waiting'
                      \/ \E i \in DOMAIN built' : built'[i].msg = m
                      \/ resendDue' /\ num'[m] < msgNum'
    BY DEF NextPacketComplete
  <2>1. CASE m = held
    BY <1>5, <2>1
  <2>2. CASE m # held
    <3>1. m \in ToSet(tracked) /\ num'[m] = num[m]
      BY <1>6, <2>2
    <3>2. \/ m \in Waiting
          \/ \E i \in DOMAIN built : built[i].msg = m
          \/ resendDue /\ num[m] < msgNum
      BY <1>6, <3>1 DEF DeliveryInv, NextPacketComplete
    <3> QED
      BY <1>1, <1>4, <1>5, <2>2, <3>1, <3>2
  <2> QED
    BY <2>1, <2>2
<1>7. CASE UNCHANGED <<num, tracked>>
  <2>1. ~beyond => NextPacketComplete'
    BY <1>6, <1>7
  <2>2. acks' \in [Muids -> Seq(0..NumLimit)]
    BY <1>1 DEF DeliveryInv
  <2> QED
    BY <1>1, <1>7, <2>1, <2>2, DeliveryQuiet
<1>8. CASE /\ num[held] = NumLimit /\ num' = [num EXCEPT ![held] = msgNum]
           /\ tracked' = Append(tracked, held) /\ Dest[held] # Everyone
  <2>1. held \notin ToSet(tracked) /\ held \notin freed
    BY <1>8, Numbers
  <2>2. ToSet(tracked') = ToSet(tracked) \cup {held}
    BY <1>2, <1>3, <1>8, <2>1, Enqueue DEF QueueInv, QueueTypes, QueueParts
  <2>3. num'[held] = msgNum /\ \A m \in Messages : m # held => num'[m] = num[m]
    BY <1>8, <1>3, Numbers
  <2>4. \A m \in ToSet(tracked) : m \in Messages /\ m # held
    BY <2>1, Numbers
  <2>5. ~beyond => NextPacketComplete'
    BY <1>6, <2>2, <2>3, <2>4
  <2>6. \A d : Played(d)' = Played(d)
    BY <1>1 DEF Played
  <2>7. ASSUME NEW m \in Messages PROVE Numbered(m)'
    <3>1. CASE m = held
      <4>1. held \in Playable
        BY <1>3, <1>8 DEF DeliveryInv, PlayInv
      <4>2. msgNum <= msgNum
        BY Numbers
      <4> QED
        BY <1>1, <2>2, <2>3, <3>1, <4>1, <4>2 DEF Numbered
    <3>2. CASE m # held
      <4>1. Numbered(m)
        BY DEF DeliveryInv
      <4> QED
        BY <1>1, <2>2, <2>3, <3>2, <4>1 DEF Numbered
    <3> QED
      BY <3>1, <3>2
  <2>8. ASSUME ~beyond', NEW d \in Muids PROVE Remembers(d)' /\ Acknowledges(d)'
    <3>1. Remembers(d) /\ Acknowledges(d)
      BY <1>1, <2>8 DEF DeliveryInv
    <3>2. ASSUME previous[d] # NumLimit
          PROVE  /\ previous[d] < msgNum
                 /\ \A m \in Messages : Dest[m] = d /\ num'[m] <= previous[d] => m \in Played(d)
      <4>1. /\ previous[d] < msgNum
            /\ \A m \in Messages : Dest[m] = d /\ num[m] <= previous[d] => m \in Played(d)
        BY <3>1, <3>2 DEF Remembers
      <4>2. ~(msgNum <= previous[d])
        BY <4>1, Numbers
      <4> QED
        BY <2>3, <4>1, <4>2
    <3>3. ASSUME NEW n \in ToSet(acks[d])
          PROVE  /\ n < msgNum
                 /\ \A m \in Messages : Dest[m] = d /\ num'[m] = n => m \in Played(d)
      <4>1. /\ n < msgNum
            /\ \A m \in Messages : Dest[m] = d /\ num[m] = n => m \in Played(d)
        BY <3>1, <3>3 DEF Acknowledges
      <4>2. msgNum # n
        BY <4>1, Numbers
      <4> QED
        BY <2>3, <4>1, <4>2
    <3>4. Remembers(d)'
      BY <1>1, <2>6, <3>2 DEF Remembers
    <3>5. Acknowledges(d)'
      BY <1>1, <2>6, <3>3 DEF Acknowledges
    <3> QED
      BY <3>4, <3>5
  <2>9. /\ previous' \in [Muids -> 0..NumLimit]
        /\ acks' \in [Muids -> Seq(0..NumLimit)]
        /\ ignored' \in [Muids -> SUBSET Messages]
        /\ \A d \in Muids : ignored'[d] \subseteq Played(d)'
        /\ \A m \in freed' : m \in Played(Dest[m])'
        /\ \A d \in Muids : Played(d)' \subseteq sent'
    BY <1>1, <2>6 DEF DeliveryInv
  <2> QED
    BY <1>1, <2>5, <2>7, <2>8, <2>9 DEF DeliveryInv
<1> QED
  <2>1. \/ UNCHANGED listVars
        \/ Dest[held] # Everyone /\ Track(held)
    BY DEF PacketAdd, AddChunk, AddUmp
  <2>2. CASE UNCHANGED listVars
    BY <1>7, <2>2 DEF listVars
  <2>3. CASE Dest[held] # Everyone /\ Track(held)
    BY <1>7, <1>8, <2>3 DEF Track, listVars
  <2> QED
    BY <2>1, <2>2, <2>3

\* A packet leaves: what was in it with a number is of an earlier packet now.
LEMMA DeliveryPdu ==
  ASSUME DeliveryInv, PlayInv', ~beyond, NEW missing, Pdu(missing), msgNum <= msgNum'
  PROVE  DeliveryInv'
<1>1. /\ UNCHANGED <<sent, fifo, held, num, tracked, freed>>
      /\ resendDue' = TRUE /\ ~resendDue
      /\ beyond' = (beyond \/ held # None)
  BY DEF Pdu, RadioPdu, listVars
<1>2. /\ previous' \in [Muids -> 0..NumLimit] /\ acks' \in [Muids -> Seq(0..NumLimit)]
      /\ ignored' \in [Muids -> SUBSET Messages]
  <2>1. DOMAIN previous' = Muids /\ DOMAIN acks' = Muids /\ DOMAIN ignored' = Muids
    BY DEF Pdu, Device!Received
  <2>2. /\ previous' = [d \in Muids |-> previous'[d]] /\ acks' = [d \in Muids |-> acks'[d]]
        /\ ignored' = [d \in Muids |-> ignored'[d]]
    BY DEF Pdu, Device!Received
  <2>3. built \in Seq(Entry)
    BY DEF DeliveryInv, PlayInv, ChannelInv, Assigned
  <2>4. ASSUME NEW i \in DOMAIN built PROVE built[i].num \in 0..NumLimit
    <3>1. \A e \in Entry : e.num \in 0..NumLimit
      BY DEF Entry
    <3> QED
      BY <2>3, <3>1, ElementOfSeq, LenProperties
  <2>5. ASSUME NEW d \in Muids
        PROVE  /\ previous'[d] \in 0..NumLimit /\ acks'[d] \in Seq(0..NumLimit)
               /\ ignored'[d] \subseteq Messages
    <3>1. /\ previous[d] \in 0..NumLimit /\ acks[d] \in Seq(0..NumLimit)
          /\ ignored[d] \subseteq Messages
      BY DEF DeliveryInv
    <3>2. {built[i].msg : i \in For(d) \ Fresh(d)} \subseteq Messages
      BY Numbers DEF For
    <3>3. Fresh(d) \subseteq DOMAIN built
      BY DEF Fresh, For
    <3> QED
      BY <2>4, <3>1, <3>2, <3>3, PduOnDevice DEF DeliveryInv
  <2>6. /\ [d \in Muids |-> previous'[d]] \in [Muids -> 0..NumLimit]
        /\ [d \in Muids |-> acks'[d]] \in [Muids -> Seq(0..NumLimit)]
        /\ [d \in Muids |-> ignored'[d]] \in [Muids -> SUBSET Messages]
    BY <2>5
  <2> QED
    BY <2>2, <2>6
<1>3. ASSUME NEW m \in Messages PROVE Numbered(m)'
  <2>1. Numbered(m)
    BY DEF DeliveryInv
  <2>2. num[m] \in Nat /\ msgNum \in Nat
    BY Numbers
  <2>3. msgNum' \in Nat
    <3>1. msgNum' = msgNum \/ built # <<>>
      BY DEF Pdu, RadioPdu
    <3> QED
      BY <2>2, <3>1, NotTheLast
  <2> QED
    BY <1>1, <2>1, <2>2, <2>3 DEF Numbered
<1>4. \A m \in freed' : m \in Played(Dest[m])'
  <2> SUFFICES ASSUME NEW m \in freed PROVE m \in Played(Dest[m])'
    BY <1>1
  <2>1. m \in Played(Dest[m]) /\ Numbered(m) /\ num[m] # NumLimit
    BY Numbers DEF DeliveryInv
  <2>2. Dest[m] \in Muids
    BY <2>1 DEF Numbered, Playable
  <2> QED
    BY <2>1, <2>2, PlayedGrows
<1>5. ASSUME NEW d \in Muids PROVE Played(d)' \subseteq sent'
  <2>1. {built[i].msg : i \in For(d)} \subseteq sent
    BY Numbers DEF For
  <2>2. Played(d) \subseteq sent
    BY DEF DeliveryInv
  <2> QED
    BY <1>1, <2>1, <2>2, PlayedGrows
<1>6. ASSUME NEW d \in Muids PROVE ignored'[d] \subseteq Played(d)'
  <2>1. ignored[d] \subseteq Played(d)
    BY DEF DeliveryInv
  <2>2. ignored'[d] \subseteq ignored[d] \cup {built[i].msg : i \in For(d) \ Fresh(d)}
    BY PduOnDevice DEF DeliveryInv
  <2>3. ASSUME NEW i \in For(d) \ Fresh(d) PROVE built[i].msg \in Played(d)
    <3>1. built # <<>>
      BY <2>3 DEF For
    <3> QED
      BY <3>1, NotTheLast, RepeatedWasPlayed
  <2> QED
    BY <2>1, <2>2, <2>3, PlayedGrows
<1>7. ASSUME ~beyond' PROVE NextPacketComplete'
  <2>1. Waiting = {}
    <3>1. held = None /\ fifo = <<>>
      BY <1>1, <1>7 DEF Pdu, PacketThreadWaits
    <3> QED
      BY <3>1 DEF Waiting, ToSet
  <2> SUFFICES ASSUME NEW m \in ToSet(tracked) PROVE num[m] < msgNum'
    BY <1>1 DEF NextPacketComplete
  <2>2. m \in Messages /\ num[m] # NumLimit
    BY Numbers
  <2>3. num[m] <= msgNum
    BY <2>2 DEF DeliveryInv, Numbered
  <2>4. built # <<>>
    BY <1>1, <2>1 DEF DeliveryInv, NextPacketComplete
  <2>5. msgNum' = msgNum + 1
    BY <2>4, NotTheLast
  <2>6. num[m] \in Nat /\ msgNum \in Nat
    BY <2>2, Numbers
  <2> QED
    BY <2>3, <2>5, <2>6
<1> QED
  BY <1>2, <1>3, <1>4, <1>5, <1>6, <1>7, RemembersPdu DEF DeliveryInv

\* The resend work: what it is due to put into the fifo waits now.
LEMMA DeliveryResend ==
  ASSUME DeliveryInv, PlayInv', ResendWork
  PROVE  DeliveryInv'
<1>1. /\ UNCHANGED <<sent, held, built, num, tracked, freed, msgNum,
                     previous, played, ignored, acks, beyond>>
      /\ fifo' = fifo \o Unacknowledged
  BY DEF ResendWork, Resend, PutAll, packetVars, listVars, rxVars
<1>2. QueueInv
  BY DEF DeliveryInv, PlayInv, ChannelInv
<1>3. PICK I, again : /\ I = {i \in DOMAIN tracked : num[tracked[i]] < msgNum}
                      /\ again = Unacknowledged
  OBVIOUS
<1>4. again \in Seq(Messages) /\ ToSet(again) = {tracked[i] : i \in I}
  <2>1. I \in SUBSET (DOMAIN tracked) /\ again = Picked(tracked, I)
    BY <1>3 DEF Unacknowledged
  <2> QED
    BY <1>2, <2>1, PickedFromList DEF QueueInv, QueueTypes, QueueParts
<1>5. ToSet(fifo') = ToSet(fifo) \cup ToSet(again)
  BY <1>1, <1>2, <1>3, <1>4, Concatenated DEF QueueInv, QueueTypes
<1>6. Waiting' = Waiting \cup ToSet(again)
  BY <1>1, <1>5 DEF Waiting
<1>7. ~beyond => NextPacketComplete'
  <2> SUFFICES ASSUME ~beyond, NEW m \in ToSet(tracked)
               PROVE  m \in Waiting' \/ \E i \in DOMAIN built : built[i].msg = m
    BY <1>1 DEF NextPacketComplete
  <2>1. \/ m \in Waiting
        \/ \E i \in DOMAIN built : built[i].msg = m
        \/ num[m] < msgNum
    BY DEF DeliveryInv, NextPacketComplete
  <2>2. num[m] < msgNum => m \in ToSet(again)
    BY <1>3, <1>4 DEF ToSet
  <2> QED
    BY <1>6, <2>1, <2>2
<1>8. acks' \in [Muids -> Seq(0..NumLimit)]
  BY <1>1 DEF DeliveryInv
<1> QED
  BY <1>1, <1>7, <1>8, DeliveryQuiet

\* What an acknowledgement takes out of the list, and that it was played.
LEMMA AckEffect ==
  ASSUME DeliveryInv, ~beyond, NEW d \in Muids, AckArrives(d)
  PROVE  /\ ToSet(tracked') \subseteq ToSet(tracked)
         /\ ToSet(tracked) \cup freed = ToSet(tracked') \cup freed'
         /\ freed \subseteq freed' /\ \A m \in freed' : m \in Played(Dest[m])
<1> DEFINE M == {m \in Messages : num[m] = Head(acks[d]) /\ Dest[m] = d}
           I == {i \in DOMAIN tracked : tracked[i] \notin M}
<1>1. /\ acks[d] # <<>> /\ acks' = [acks EXCEPT ![d] = Tail(@)]
      /\ tracked' = Picked(tracked, I)
      /\ freed' = freed \cup (ToSet(tracked) \cap M)
  BY DEF AckArrives, AckMsg, RemoveMsgs
<1>2. QueueInv
  BY DEF DeliveryInv, PlayInv, ChannelInv
<1>3. ToSet(tracked') = {tracked[i] : i \in I}
  <2>1. I \in SUBSET (DOMAIN tracked)
    OBVIOUS
  <2> HIDE DEF I
  <2> QED
    BY <1>1, <1>2, <2>1, PickedFromList DEF QueueInv, QueueTypes, QueueParts
<1>4. ToSet(tracked') = ToSet(tracked) \ M
  <2> HIDE DEF M
  <2> QED
    BY <1>3 DEF ToSet
<1>5. Head(acks[d]) \in ToSet(acks[d])
  BY <1>1, TakenOut DEF DeliveryInv
<1>6. Acknowledges(d)
  BY DEF DeliveryInv
<1>7. \A m \in M : Dest[m] = d /\ m \in Played(d)
  BY <1>5, <1>6 DEF Acknowledges
<1> HIDE DEF M, I
<1>8. \A m \in freed' : m \in Played(Dest[m])
  BY <1>1, <1>7 DEF DeliveryInv
<1> QED
  BY <1>1, <1>4, <1>8

LEMMA DeliveryAck ==
  ASSUME DeliveryInv, PlayInv', ~beyond, NEW d \in Muids, AckArrives(d)
  PROVE  DeliveryInv'
<1>1. /\ UNCHANGED <<sent, fifo, held, built, num, msgNum, resendDue,
                     previous, played, ignored, beyond>>
      /\ acks[d] # <<>> /\ acks' = [acks EXCEPT ![d] = Tail(@)]
  BY DEF AckArrives, AckMsg, RemoveMsgs, packetVars, envVars
<1>2. /\ acks' \in [Muids -> Seq(0..NumLimit)]
      /\ \A e \in Muids : ToSet(acks'[e]) \subseteq ToSet(acks[e])
  BY <1>1, TakenOut DEF DeliveryInv
<1>3. \A e : Played(e)' = Played(e)
  BY <1>1 DEF Played
<1>4. Waiting' = Waiting
  BY <1>1 DEF Waiting
<1>5. /\ ToSet(tracked') \subseteq ToSet(tracked)
      /\ ToSet(tracked) \cup freed = ToSet(tracked') \cup freed'
      /\ \A m \in freed' : m \in Played(Dest[m])
  BY AckEffect
<1>6. \A m \in Messages : Numbered(m)'
  BY <1>1, <1>5 DEF DeliveryInv, Numbered
<1>7. NextPacketComplete'
  BY <1>1, <1>4, <1>5 DEF DeliveryInv, NextPacketComplete
<1>8. ASSUME NEW e \in Muids PROVE Remembers(e)' /\ Acknowledges(e)'
  <2>1. Remembers(e) /\ Acknowledges(e)
    BY DEF DeliveryInv
  <2> QED
    BY <1>1, <1>2, <1>3, <2>1 DEF Remembers, Acknowledges
<1>9. /\ previous' \in [Muids -> 0..NumLimit]
      /\ ignored' \in [Muids -> SUBSET Messages]
      /\ \A e \in Muids : ignored'[e] \subseteq Played(e)'
      /\ \A m \in freed' : m \in Played(Dest[m])'
      /\ \A e \in Muids : Played(e)' \subseteq sent'
  BY <1>1, <1>3, <1>5 DEF DeliveryInv
<1> QED
  BY <1>2, <1>6, <1>7, <1>8, <1>9 DEF DeliveryInv

LEMMA DeliveryLost ==
  ASSUME DeliveryInv, PlayInv', NEW d \in Muids, AckLost(d)
  PROVE  DeliveryInv'
<1>1. /\ UNCHANGED <<sent, fifo, held, built, num, tracked, freed, msgNum, resendDue,
                     previous, played, ignored, beyond>>
      /\ acks[d] # <<>> /\ acks' = [acks EXCEPT ![d] = Tail(@)]
  BY DEF AckLost, bcVars, packetVars, listVars
<1>2. /\ acks' \in [Muids -> Seq(0..NumLimit)]
      /\ \A e \in Muids : ToSet(acks'[e]) \subseteq ToSet(acks[e])
  BY <1>1, TakenOut DEF DeliveryInv
<1>3. ~beyond => NextPacketComplete'
  BY <1>1 DEF DeliveryInv, NextPacketComplete, Waiting
<1> QED
  BY <1>1, <1>2, <1>3, DeliveryQuiet

LEMMA DeliveryStutter ==
  ASSUME DeliveryInv, PlayInv', UNCHANGED isoVars
  PROVE  DeliveryInv'
<1>1. UNCHANGED <<sent, fifo, held, built, num, tracked, freed, msgNum, resendDue,
                  previous, played, ignored, acks, beyond>>
  BY DEF isoVars, bcVars, packetVars, listVars, rxVars, envVars
<1>2. ~beyond => NextPacketComplete'
  BY <1>1 DEF DeliveryInv, NextPacketComplete, Waiting
<1>3. acks' \in [Muids -> Seq(0..NumLimit)]
  BY <1>1 DEF DeliveryInv
<1> QED
  BY <1>1, <1>2, <1>3, DeliveryQuiet

LEMMA DeliverySendAgain ==
  ASSUME DeliveryInv, PlayInv', NEW m, AppSendAgain(m)
  PROVE  DeliveryInv'
<1>1. /\ UNCHANGED <<sent, num, tracked, freed, msgNum, previous, played, ignored, acks>>
      /\ beyond' = TRUE
  BY DEF AppSendAgain, bcVars, listVars, rxVars
<1>2. \A d : Played(d)' = Played(d)
  BY <1>1 DEF Played
<1>3. \A o \in Messages : Numbered(o)'
  BY <1>1 DEF DeliveryInv, Numbered
<1> QED
  BY <1>1, <1>2, <1>3 DEF DeliveryInv

LEMMA DeliveryStep ==
  ASSUME DeliveryInv, [IsoNext /\ msgNum <= msgNum']_isoVars
  PROVE  DeliveryInv'
<1>1. PlayInv'
  BY PlayStep DEF DeliveryInv
<1>2. CASE \E m \in Messages : AppSend(m)
  BY <1>1, <1>2, DeliverySend
<1>3. CASE PacketThread
  BY <1>1, <1>3, DeliveryTake, DeliveryAdd DEF PacketThread
<1>4. CASE /\ \E missing \in SUBSET Muids : Pdu(missing)
           /\ ~beyond /\ msgNum <= msgNum'
  BY <1>1, <1>4, DeliveryPdu
<1>5. CASE ResendWork
  BY <1>1, <1>5, DeliveryResend
<1>6. CASE ~beyond /\ \E d \in Muids : AckArrives(d)
  BY <1>1, <1>6, DeliveryAck
<1>7. CASE \E d \in Muids : AckLost(d)
  BY <1>1, <1>7, DeliveryLost
<1>8. CASE UNCHANGED isoVars
  BY <1>1, <1>8, DeliveryStutter
<1>9. CASE \E m \in Standing : AppSendAgain(m)
  BY <1>1, <1>9, DeliverySendAgain
<1> QED
  BY <1>2, <1>3, <1>4, <1>5, <1>6, <1>7, <1>8, <1>9 DEF IsoNext

LEMMA DeliveryStart == IsoInit => DeliveryInv
<1> SUFFICES ASSUME IsoInit PROVE DeliveryInv
  OBVIOUS
<1>1. /\ sent = {} /\ msgNum = 0 /\ num = [m \in Messages |-> NumLimit]
      /\ tracked = <<>> /\ freed = {}
      /\ previous = [d \in Muids |-> NumLimit] /\ played = [d \in Muids |-> <<>>]
      /\ ignored = [d \in Muids |-> {}] /\ acks = [d \in Muids |-> <<>>]
  BY DEF IsoInit, Init, Device!RxInit
<1>2. ToSet(<<>>) = {}
  BY DEF ToSet
<1>3. NumLimit \in Nat
  BY BroadcasterAssumption
<1>4. /\ previous \in [Muids -> 0..NumLimit]
      /\ acks \in [Muids -> Seq(0..NumLimit)] /\ ignored \in [Muids -> SUBSET Messages]
  <2>1. <<>> \in Seq(0..NumLimit) /\ NumLimit \in 0..NumLimit
    BY <1>3
  <2> QED
    BY <1>1, <2>1
<1>5. \A m \in Messages : Numbered(m)
  BY <1>1 DEF Numbered
<1>6. NextPacketComplete
  BY <1>1, <1>2 DEF NextPacketComplete
<1>7. ASSUME NEW d \in Muids
      PROVE  /\ Played(d) = {} /\ ignored[d] = {} /\ Remembers(d) /\ Acknowledges(d)
  BY <1>1, <1>2 DEF Played, Remembers, Acknowledges
<1> QED
  BY <1>1, <1>4, <1>5, <1>6, <1>7, PlayStart DEF DeliveryInv

\* As long as no packet's number is used again: what a device takes for a repetition
\* and does not play, it has played before (iso_recv, midi_iso_ack_msg).
THEOREM RepetitionsInFirstRound == FirstRound => []RepetitionsWerePlayed
<1>1. DeliveryInv => RepetitionsWerePlayed
  BY DEF DeliveryInv, RepetitionsWerePlayed
<1>2. DeliveryInv /\ [IsoNext /\ msgNum <= msgNum']_isoVars => DeliveryInv'
  BY DeliveryStep
<1> QED
  BY DeliveryStart, <1>1, <1>2, PTL DEF FirstRound

\* Steps of the link are steps of the promise: a packet delivers, an acknowledgement
\* acknowledges.
LEMMA ReliableStep ==
  ASSUME DeliveryInv, DeliveryInv', [IsoNext /\ msgNum <= msgNum']_isoVars
  PROVE  [Reliable!Next]_(Reliable!vars)
<1> DEFINE D == UNION {Played(d) : d \in Muids}
<1>1. /\ D' = UNION {Played(d)' : d \in Muids}
      /\ D \subseteq sent /\ D' \subseteq sent'
  BY DEF DeliveryInv
<1>2. ASSUME UNCHANGED <<sent, played, freed>> PROVE UNCHANGED Reliable!vars
  BY <1>2 DEF Reliable!vars, Played
<1>3. CASE \E m \in Messages : AppSend(m)
  <2>1. PICK m \in Messages : AppSend(m)
    BY <1>3
  <2>2. m \notin sent /\ sent' = sent \cup {m} /\ UNCHANGED <<freed, played>>
    BY <2>1 DEF AppSend, Send, rxVars
  <2>3. Reliable!Send(m)
    BY <2>2 DEF Reliable!Send, Played
  <2> QED
    BY <2>3 DEF Reliable!Next
<1>4. CASE \E missing \in SUBSET Muids : Pdu(missing)
  <2>1. UNCHANGED <<sent, freed>>
    BY <1>4 DEF Pdu, RadioPdu, listVars
  <2>2. \A d \in Muids : Played(d) \subseteq Played(d)'
    BY <1>4, PlayedGrows
  <2>3. D \subseteq D'
    BY <1>1, <2>2
  <2>4. Reliable!Deliver
    BY <1>1, <2>1, <2>3 DEF Reliable!Deliver
  <2> QED
    BY <2>4 DEF Reliable!Next
<1>5. CASE ~beyond /\ \E d \in Muids : AckArrives(d)
  <2>1. UNCHANGED <<sent, played>>
    BY <1>5 DEF AckArrives, AckMsg, RemoveMsgs
  <2>2. freed \subseteq freed' /\ \A m \in freed' : m \in Played(Dest[m])
    BY <1>5, AckEffect
  <2>3. \A m \in freed' : Dest[m] \in Muids
    <3>1. \A m \in freed' : m \in Messages /\ num'[m] # NumLimit /\ Numbered(m)'
      <4>1. QueueInv'
        BY DEF DeliveryInv, PlayInv, ChannelInv
      <4>2. \A m \in freed' : m \in Messages /\ num'[m] # NumLimit
        BY <4>1 DEF QueueInv, QueueTypes, QueueParts
      <4>3. \A m \in Messages : Numbered(m)'
        BY DEF DeliveryInv
      <4> QED
        BY <4>2, <4>3
    <3> QED
      BY <3>1 DEF Numbered, Playable
  <2>4. freed' \subseteq D /\ D' = D
    BY <2>1, <2>2, <2>3 DEF Played
  <2>5. Reliable!Acknowledge
    BY <2>1, <2>2, <2>4 DEF Reliable!Acknowledge
  <2> QED
    BY <2>5 DEF Reliable!Next
<1>6. CASE PacketThread
  <2>1. UNCHANGED <<sent, played, freed>>
    BY <1>6 DEF PacketThread, PacketTake, PacketAdd, AddChunk, AddUmp, Track, listVars, rxVars
  <2> QED
    BY <1>2, <2>1
<1>7. CASE ResendWork
  BY <1>2, <1>7 DEF ResendWork, Resend, listVars, rxVars
<1>8. CASE \E d \in Muids : AckLost(d)
  BY <1>2, <1>8 DEF AckLost, bcVars, listVars
<1>9. CASE UNCHANGED isoVars
  BY <1>2, <1>9 DEF isoVars, bcVars, listVars, rxVars
<1>10. CASE \E m \in Standing : AppSendAgain(m)
  BY <1>2, <1>10 DEF AppSendAgain, bcVars, listVars, rxVars
<1> QED
  BY <1>3, <1>4, <1>5, <1>6, <1>7, <1>8, <1>9, <1>10 DEF IsoNext

\* As long as no packet's number is used again, the acknowledged broadcast keeps the
\* promise of ReliableDelivery: what is handed back to the sender was played by its
\* device, whatever packets and acknowledgements are lost.
THEOREM DeliveryInFirstRound == FirstRound => ImplementsReliableDelivery
<1>1. IsoInit => Reliable!Init
  BY DEF IsoInit, Init, Device!RxInit, Reliable!Init, Played
<1>2. DeliveryInv /\ [IsoNext /\ msgNum <= msgNum']_isoVars => DeliveryInv'
  BY DeliveryStep
<1>3. DeliveryInv /\ DeliveryInv' /\ [IsoNext /\ msgNum <= msgNum']_isoVars
        => [Reliable!Next]_(Reliable!vars)
  BY ReliableStep
<1> QED
  BY DeliveryStart, <1>1, <1>2, <1>3, PTL
  DEF FirstRound, ImplementsReliableDelivery, Reliable!Spec
=============================================================================
