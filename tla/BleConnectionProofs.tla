------------------------- MODULE BleConnectionProofs -------------------------
(***************************************************************************)
(* For every number of connections, peers of every kind and every MTU:     *)
(* what the application is told of has its handles and, as far as it goes, *)
(* its subscription.  For every wrap of the clocks and every interval:     *)
(* local times lie in the interval.                                        *)
(***************************************************************************)
EXTENDS BleConnection, TLAPS

Client == [conn : Nat, io : Nat, ccc : Nat, notif : BOOLEAN, sub : BOOLEAN]

\* While the link is not up the client is subscribed to nothing, and before
\* service discovery has ended there is nothing to be told of.
ConnInv ==
  /\ link \in {"idle", "scan", "connecting", "up"}
  /\ conns \in Nat /\ currentConn \in Nat
  /\ client \in Client
  /\ link \in {"connecting", "up"} => currentConn # 0
  /\ link # "up" => ~client.notif /\ ~client.sub /\ ~dm /\ ~irq
  /\ dm => ~client.notif /\ ~client.sub /\ ~irq
  /\ ToldIsUsable

\* The offset of the peer's clock is a time of that clock.
ClockInv == correction \in 0..(Wrap - 1)

-----------------------------------------------------------------------------
(* Connections *)

LEMMA ConnStart == Init => ConnInv
BY DEF Init, ConnInv, Client, ToldIsUsable, None

LEMMA ConnQuiet ==
  ASSUME ConnInv, UNCHANGED <<link, conns, currentConn, client, dm, irq, peer, subFailed>>
  PROVE  ConnInv'
BY DEF ConnInv, ToldIsUsable

\* Steps while nothing is subscribed leave it so.
LEMMA ConnUnsubscribed ==
  ASSUME ConnInv, ~client.notif, ~client.sub, ~irq, UNCHANGED <<client, irq>>,
         link' \in {"idle", "scan", "connecting", "up"},
         conns' \in Nat, currentConn' \in Nat,
         link' \in {"connecting", "up"} => currentConn' # 0,
         dm' => link' = "up"
  PROVE  ConnInv'
BY DEF ConnInv, ToldIsUsable

\* The subscription ends while the link is up.
LEMMA RefusedStep ==
  ASSUME ConnInv, SubscriptionRefused
  PROVE  ConnInv'
<1>1. /\ client' = [client EXCEPT !.notif = FALSE, !.sub = FALSE] /\ subFailed'
      /\ UNCHANGED <<link, currentConn, conns, peer, dm, irq>>
  BY DEF SubscriptionRefused, hostVars
<1>2. client \in Client
  BY DEF ConnInv
<1>3. /\ client' \in Client /\ ~client'.notif /\ ~client'.sub
      /\ client'.conn = client.conn /\ client'.io = client.io /\ client'.ccc = client.ccc
  BY <1>1, <1>2 DEF Client
<1>4. QED
  BY <1>1, <1>3 DEF ConnInv, ToldIsUsable

\* What the client's handles are when discovery has ended.
LEMMA Assigned ==
  ASSUME client \in Client, currentConn \in Nat
  PROVE  /\ HandlesAssign \in Client
         /\ HandlesAssign.notif = client.notif /\ HandlesAssign.sub = client.sub
         /\ peer = "midi" => /\ HandlesAssign.conn = currentConn
                             /\ HandlesAssign.io = currentConn
                             /\ HandlesAssign.ccc = currentConn
<1>1. CASE peer = "midi"
  BY <1>1 DEF HandlesAssign, Client
<1>2. CASE peer = "noccc"
  BY <1>2 DEF HandlesAssign, Client, None
<1>3. CASE peer # "midi" /\ peer # "noccc"
  BY <1>3 DEF HandlesAssign, Client, None
<1>4. QED
  BY <1>1, <1>2, <1>3

LEMMA CompleteStep ==
  ASSUME ConnInv, DiscoveryComplete
  PROVE  ConnInv'
<1>1. /\ dm /\ dm' = FALSE /\ irq' = TRUE
      /\ UNCHANGED <<link, currentConn, conns, peer>>
  BY DEF DiscoveryComplete
<1>2. /\ client \in Client /\ ~client.notif /\ ~client.sub
      /\ link = "up" /\ currentConn \in Nat /\ currentConn # 0
  BY <1>1 DEF ConnInv
<1>3. PICK ok \in BOOLEAN : NotifEnable(HandlesAssign, ok)
  BY DEF DiscoveryComplete
<1> DEFINE c == HandlesAssign
<1>4. /\ c \in Client /\ ~c.notif
      /\ peer = "midi" => c.conn = currentConn /\ c.io = currentConn /\ c.ccc = currentConn
  BY <1>2, Assigned
<1>5. client' = [c EXCEPT !.notif = ok, !.sub = ok] /\ subFailed' = ~ok
  BY <1>3, <1>4 DEF NotifEnable
<1> HIDE DEF c
<1>6. /\ client' \in Client /\ client'.notif = ok /\ client'.sub = ok
      /\ client'.conn = c.conn /\ client'.io = c.io /\ client'.ccc = c.ccc
  BY <1>4, <1>5 DEF Client
<1>7. ToldIsUsable'
  BY <1>1, <1>2, <1>4, <1>5, <1>6 DEF ToldIsUsable
<1>8. QED
  BY <1>1, <1>2, <1>6, <1>7 DEF ConnInv

LEMMA ConnStep ==
  ASSUME ConnInv, Next
  PROVE  ConnInv'
<1>1. CASE Scan \/ ScanAgain \/ ConnectFailed \/ CreateFails
  <2>1. /\ link \in {"idle", "scan", "connecting"} /\ link' \in {"idle", "scan"}
        /\ UNCHANGED <<conns, dm, client, irq>> /\ currentConn' \in {currentConn, 0}
    BY <1>1 DEF Scan, ScanAgain, ConnectFailed, CreateFails, StartScan, clientVars
  <2> QED
    BY <2>1, ConnUnsubscribed DEF ConnInv
<1>2. CASE ScanConnecting
  <2>1. /\ link = "scan" /\ link' = "connecting" /\ conns' = conns + 1 /\ currentConn' = conns'
        /\ UNCHANGED <<dm, client, irq>>
    BY <1>2 DEF ScanConnecting, clientVars
  <2> QED
    BY <2>1, ConnUnsubscribed DEF ConnInv
<1>3. CASE Connected
  <2>1. link = "connecting" /\ link' = "up" /\ UNCHANGED <<currentConn, conns, client, irq>>
    BY <1>3 DEF Connected, clientVars
  <2> QED
    BY <2>1, ConnUnsubscribed DEF ConnInv
<1>4. CASE DiscoveryComplete
  BY <1>4, CompleteStep
<1>5. CASE DiscoveryFails
  <2>1. dm /\ dm' = FALSE /\ UNCHANGED <<link, currentConn, conns, client, irq>>
    BY <1>5 DEF DiscoveryFails, clientVars
  <2> QED
    BY <2>1, ConnUnsubscribed DEF ConnInv
<1>6. CASE Disconnected
  <2>1. /\ link' = "idle" /\ currentConn' = 0 /\ dm' = FALSE /\ irq' = FALSE
        /\ client' = [client EXCEPT !.notif = FALSE, !.sub = FALSE] /\ UNCHANGED conns
    BY <1>6 DEF Disconnected
  <2>2. client' \in Client /\ ~client'.notif /\ ~client'.sub
    BY <2>1 DEF ConnInv, Client
  <2> QED
    BY <2>1, <2>2 DEF ConnInv, ToldIsUsable
<1>7. CASE Exchanged \/ Send \/ EncodeWork \/ RadioNotification \/ TxWork
            \/ \E ts, connTime \in 0..(Wrap - 1) : Received(ts, connTime)
  <2>1. UNCHANGED <<link, conns, currentConn, client, dm, irq, peer, subFailed>>
    BY <1>7 DEF Exchanged, Send, EncodeWork, RadioNotification, TxWork, Received,
                hostVars, clientVars
  <2> QED
    BY <2>1, ConnQuiet
<1>8. CASE SubscriptionRefused
  BY <1>8, RefusedStep
<1>9. QED
  BY <1>1, <1>2, <1>3, <1>4, <1>5, <1>6, <1>7, <1>8 DEF Next, HostStep

\* What the application is told of is a connection the client has the handles of
\* and, unless the subscription failed or was refused on it, is subscribed to,
\* however many connections failed, ended or were to other devices before
\* (discovery_complete, disconnected, midi_client.c).
THEOREM ToldOfUsable == Spec => []ToldIsUsable
<1>1. ConnInv /\ [Next]_connVars => ConnInv'
  <2> SUFFICES ASSUME ConnInv, UNCHANGED connVars PROVE ConnInv'
    BY ConnStep
  <2> QED
    BY ConnQuiet DEF connVars, hostVars, clientVars
<1>2. ConnInv => ToldIsUsable
  BY DEF ConnInv
<1>3. QED
  BY ConnStart, <1>1, <1>2, PTL DEF Spec
-----------------------------------------------------------------------------
(* Clocks *)

LEMMA Remainder ==
  ASSUME NEW x \in Int
  PROVE  /\ x % Wrap \in 0..(Wrap - 1) /\ x \div Wrap \in Int
         /\ x = Wrap * (x \div Wrap) + (x % Wrap)
<1>1. Wrap \in Nat \ {0}
  BY BleConnectionAssumption
<1>2. \A w \in Nat \ {0} : /\ x % w \in 0..(w - 1) /\ x \div w \in Int
                           /\ x = w * (x \div w) + (x % w)
  OBVIOUS
<1>3. QED
  BY <1>1, <1>2

LEMMA RemainderUnique ==
  ASSUME NEW w \in Nat \ {0}, NEW q \in Int, NEW p \in Int, NEW r \in 0..(w - 1),
         NEW s \in 0..(w - 1), w * q + r = w * p + s
  PROVE  r = s
<1>1. w * (q - p) = s - r
  OBVIOUS
<1>2. CASE q - p >= 1
  <2>1. w * (q - p) >= w
    BY <1>2
  <2> QED
    BY <1>1, <2>1
<1>3. CASE q - p <= -1
  <2>1. w * (q - p) <= -w
    BY <1>3
  <2> QED
    BY <1>1, <2>1
<1>4. CASE q = p
  BY <1>4
<1>5. QED
  BY <1>2, <1>3, <1>4

\* The remainder is found by adding multiples of Wrap.
LEMMA RemainderIs ==
  ASSUME NEW x \in Int, NEW k \in Int, NEW r \in 0..(Wrap - 1), x = Wrap * k + r
  PROVE  x % Wrap = r
<1>1. Wrap \in Nat \ {0}
  BY BleConnectionAssumption
<1>2. /\ x % Wrap \in 0..(Wrap - 1) /\ x \div Wrap \in Int
      /\ Wrap * (x \div Wrap) + (x % Wrap) = Wrap * k + r
  BY Remainder
<1>3. QED
  BY <1>1, <1>2, RemainderUnique

LEMMA CorrectedInRange ==
  ASSUME ClockInv, NEW ts \in 0..(Wrap - 1), NEW connTime \in 0..(Wrap - 1)
  PROVE  Corrected(ts, connTime) \in 0..(Wrap - 1)
<1>1. Wrap \in Nat \ {0} /\ Interval \in Int
  BY BleConnectionAssumption
<1>2. /\ (ts - connTime - Interval) % Wrap \in 0..(Wrap - 1)
      /\ (ts - connTime) % Wrap \in 0..(Wrap - 1)
  <2>1. ts - connTime - Interval \in Int /\ ts - connTime \in Int
    BY <1>1
  <2> QED
    BY <2>1, Remainder
<1>3. QED
  BY <1>2 DEF Corrected, ClockInv

LEMMA ClockInvariant == Spec => []ClockInv
<1>1. Init => ClockInv
  BY BleConnectionAssumption DEF Init, ClockInv
<1>2. ClockInv /\ [Next]_connVars => ClockInv'
  <2> SUFFICES ASSUME ClockInv, [Next]_connVars PROVE ClockInv'
    OBVIOUS
  <2>1. CASE \E ts, connTime \in 0..(Wrap - 1) : Received(ts, connTime)
    BY <2>1, CorrectedInRange DEF Received, ClockInv
  <2>2. CASE UNCHANGED correction
    BY <2>2 DEF ClockInv
  <2>3. QED
    BY <2>1, <2>2 DEF Next, HostStep, Scan, ScanConnecting, CreateFails, ConnectFailed, Connected,
       Exchanged, SubscriptionRefused,
       DiscoveryComplete, DiscoveryFails, Disconnected, ScanAgain, Send, EncodeWork,
       RadioNotification, TxWork, connVars
<1>3. QED
  BY <1>1, <1>2, PTL DEF Spec

\* The local time of a message lies in the connection interval in which it came,
\* for all clocks, as long as the interval does not cross the wrap of the peer's
\* (convert_timestamp).
THEOREM TimesStayInInterval == Spec => []LocalTimeInInterval
<1>1. ClockInv => LocalTimeInInterval
  <2> SUFFICES ASSUME ClockInv, NEW ts \in 0..(Wrap - 1), NEW connTime \in 0..(Wrap - 1),
                      ((connTime + correction) % Wrap) + Interval < Wrap
               PROVE  (ts - Corrected(ts, connTime) - connTime) % Wrap <= Interval
    BY DEF LocalTimeInInterval
  <2> DEFINE start == (connTime + correction) % Wrap
             k == (connTime + correction) \div Wrap
  <2>1. /\ Wrap \in Nat \ {0} /\ Interval \in 1..(Wrap - 1) /\ correction \in 0..(Wrap - 1)
    BY BleConnectionAssumption DEF ClockInv
  <2>2. /\ start \in 0..(Wrap - 1) /\ k \in Int /\ connTime + correction = Wrap * k + start
    <3>1. connTime + correction \in Int
      BY <2>1
    <3> QED
      BY <3>1, Remainder
  <2>3. start + Interval < Wrap
    OBVIOUS
  <2>4. Corrected(ts, connTime) =
          IF ts > start + Interval THEN (ts - connTime - Interval) % Wrap
          ELSE IF ts < start /\ start < (start + Interval) % Wrap
               THEN (ts - connTime) % Wrap
          ELSE correction
    BY DEF Corrected
  <2> HIDE DEF start, k
  <2>5. CASE ts > start + Interval
    <3> DEFINE x == ts - connTime - Interval
    <3>1. x \in Int
      BY <2>1
    <3>2. PICK q \in Int, r \in 0..(Wrap - 1) : x = Wrap * q + r /\ Corrected(ts, connTime) = r
      BY <2>4, <2>5, <3>1, Remainder
    <3>3. ts - r - connTime = Wrap * q + Interval
      BY <2>1, <3>2
    <3>4. Interval \in 0..(Wrap - 1) /\ ts - r - connTime \in Int
      BY <2>1
    <3>5. (ts - r - connTime) % Wrap = Interval
      BY <3>3, <3>4, RemainderIs
    <3> QED
      BY <2>1, <3>2, <3>5
  <2>6. CASE ts < start
    <3>1. (start + Interval) % Wrap = start + Interval
      <4>1. start + Interval \in 0..(Wrap - 1) /\ start + Interval = Wrap * 0 + (start + Interval)
        BY <2>1, <2>2, <2>3
      <4> QED
        BY <4>1, RemainderIs
    <3>2. Corrected(ts, connTime) = (ts - connTime) % Wrap
      BY <2>1, <2>2, <2>4, <2>6, <3>1
    <3> DEFINE x == ts - connTime
    <3>3. x \in Int
      OBVIOUS
    <3>4. PICK q \in Int, r \in 0..(Wrap - 1) : x = Wrap * q + r /\ Corrected(ts, connTime) = r
      BY <3>2, <3>3, Remainder
    <3>5. ts - r - connTime = Wrap * q + 0 /\ 0 \in 0..(Wrap - 1) /\ ts - r - connTime \in Int
      BY <2>1, <3>4
    <3>6. (ts - r - connTime) % Wrap = 0
      BY <3>5, RemainderIs
    <3> QED
      BY <2>1, <3>4, <3>6
  <2>7. CASE ts >= start /\ ts <= start + Interval
    <3>1. Corrected(ts, connTime) = correction
      BY <2>1, <2>2, <2>4, <2>7
    <3>2. /\ ts - correction - connTime = Wrap * (-k) + (ts - start)
          /\ ts - start \in 0..(Wrap - 1) /\ ts - correction - connTime \in Int /\ -k \in Int
      BY <2>1, <2>2, <2>7
    <3>3. (ts - correction - connTime) % Wrap = ts - start
      BY <3>2, RemainderIs
    <3> QED
      BY <2>1, <2>2, <2>7, <3>1, <3>3
  <2>8. QED
    BY <2>1, <2>2, <2>5, <2>6, <2>7
<1>2. QED
  BY <1>1, ClockInvariant, PTL
=============================================================================
