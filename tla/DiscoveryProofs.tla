--------------------------- MODULE DiscoveryProofs ---------------------------
(***************************************************************************)
(* For all devices, muids and restarts, whatever is lost: muids survive    *)
(* their way through the messages, the application lists only devices that *)
(* know it, and lists no muid twice.                                       *)
(***************************************************************************)
EXTENDS Discovery, SequenceTheorems, FiniteSetTheorems, TLAPS

\* A CI message; what it carries besides the source is not looked at.
Msg == [start : {"sysex"}, subId1 : {"midi_ci"}, subId2 : {"discovery", "reply"},
        source : Seq(0..127), dest : Seq(0..127)]

\* What a device's function block may become.
DeviceBlock == [muid : Muids, remote : Seq([muid : {CentralMuid}])]

SyncState == [found : BOOLEAN, lost : BOOLEAN, bigSynced : BOOLEAN, host : Hosts]

\* Some device has or had this muid, and if it still has it, it knows the sender
\* of the discovery message.
Vouched(u) ==
  \E d \in Devices : \E n \in 1..device[d].start :
    u = MuidsOf[d][n] /\ (n = device[d].start => HasRemote(device[d].block, CentralMuid))

VouchedMsg(msg) == msg \in Msg /\ Vouched(DataToInt(msg.source))

DeviceInv ==
  /\ device \in [Devices -> [block : DeviceBlock, start : Nat]]
  /\ \A d \in Devices : /\ device[d].start \in 1..Len(MuidsOf[d])
                        /\ device[d].block.muid = MuidsOf[d][device[d].start]

\* The two tables of the application are the same, and hold no muid twice.
CentralInv ==
  /\ central \in [muid : {CentralMuid}, remote : Seq([muid : DeviceMuids])]
  /\ remoteMuid \in Seq(DeviceMuids)
  /\ Len(central.remote) = Len(remoteMuid)
  /\ \A i \in 1..Len(remoteMuid) : central.remote[i].muid = remoteMuid[i]
  /\ \A i, j \in 1..Len(remoteMuid) : remoteMuid[i] = remoteMuid[j] => i = j

VouchedInv ==
  /\ \A r \in replies : r.dev \in Devices /\ VouchedMsg(r.msg)
  /\ fifo \in Seq(Msg) /\ \A i \in 1..Len(fifo) : VouchedMsg(fifo[i])
  /\ \A i \in 1..Len(remoteMuid) : Vouched(remoteMuid[i])

HostInv ==
  /\ discovered \in BOOLEAN /\ queued \in 0..MaxQueued
  /\ sync \in [Devices -> SyncState]
  /\ missed \in 0..MaxMissed /\ troubled \in BOOLEAN

DiscoveryInv == DeviceInv /\ CentralInv /\ VouchedInv /\ HostInv

-----------------------------------------------------------------------------
(* Muids *)

\* A muid comes out of four 7-bit bytes as it went in.
THEOREM MuidRoundTrip ==
  ASSUME NEW n \in Muids
  PROVE  /\ IntToData(n) \in Seq(0..127)
         /\ DataToInt(IntToData(n)) = n
<1>0. n \in Nat /\ n < 268435456
  <2>1. MuidCount = 268435456
    BY SMT DEF MuidCount
  <2>2. \A k \in Nat : \A x \in 0..(k - 1) : x \in Nat /\ x < k
    BY SMT
  <2>3. MuidCount \in Nat
    BY SMT, <2>1
  <2>4. n \in Nat /\ n < MuidCount
    BY SMT, <2>2, <2>3 DEF Muids
  <2> QED
    BY SMT, <2>1, <2>4
<1>1. /\ n % 128 \in 0..127 /\ (n \div 128) % 128 \in 0..127
      /\ (n \div 16384) % 128 \in 0..127 /\ (n \div 2097152) % 128 \in 0..127
  BY SMT, <1>0
<1>2. /\ IntToData(n)[1] = n % 128 /\ IntToData(n)[2] = (n \div 128) % 128
      /\ IntToData(n)[3] = (n \div 16384) % 128 /\ IntToData(n)[4] = (n \div 2097152) % 128
  BY SMT DEF IntToData
<1>3. \A x \in 0..127 : x % 128 = x
  BY SMT
<1>4. DataToInt(IntToData(n)) =
        (n % 128) + 128 * ((n \div 128) % 128) + 16384 * ((n \div 16384) % 128)
        + 2097152 * ((n \div 2097152) % 128)
  BY SMT, <1>1, <1>2, <1>3 DEF DataToInt
<1>5. n = (n % 128) + 128 * ((n \div 128) % 128) + 16384 * ((n \div 16384) % 128)
          + 2097152 * ((n \div 2097152) % 128)
  <2>1. PICK a, b, c, d \in Nat :
          /\ a = n \div 128 /\ b = a \div 128 /\ c = b \div 128 /\ d = c \div 128
          /\ b = n \div 16384 /\ c = n \div 2097152
    BY SMT, <1>0
  <2>2. /\ n = 128 * a + (n % 128) /\ a = 128 * b + (a % 128) /\ b = 128 * c + (b % 128)
        /\ c < 128 /\ c % 128 = c
    BY SMT, <1>0, <2>1
  <2> QED
    BY SMT, <1>0, <2>1, <2>2
<1>6. IntToData(n) \in Seq(0..127)
  BY SMT, <1>1 DEF IntToData
<1>7. QED
  BY SMT, <1>4, <1>5, <1>6

LEMMA HeaderType ==
  ASSUME NEW a \in Muids, NEW b \in Muids, NEW k \in {"discovery", "reply"}
  PROVE  Header(k, a, b) \in Msg /\ DataToInt(Header(k, a, b).source) = a
<1>1. /\ IntToData(a) \in Seq(0..127) /\ IntToData(b) \in Seq(0..127)
      /\ DataToInt(IntToData(a)) = a
  BY MuidRoundTrip
<1>2. QED
  BY <1>1 DEF Header, Msg
-----------------------------------------------------------------------------
(* Types *)

LEMMA MuidTypes ==
  /\ \A d \in Devices : /\ MuidsOf[d] \in Seq(Muids) /\ Len(MuidsOf[d]) \in Nat \ {0}
                        /\ DOMAIN MuidsOf[d] = 1..Len(MuidsOf[d])
                        /\ \A n \in 1..Len(MuidsOf[d]) : MuidsOf[d][n] \in Muids
                                                         /\ MuidsOf[d][n] \in DeviceMuids
  /\ CentralMuid \in Muids /\ BroadcastMuid \in Muids /\ DeviceMuids \subseteq Muids
<1>1. CentralMuid \in Muids /\ MuidsOf \in [Devices -> Seq(Muids) \ {<<>>}]
  BY DiscoveryAssumption
<1>2. BroadcastMuid \in Muids
  <2>1. \A k \in Nat \ {0} : k - 1 \in 0..(k - 1)
    BY SMT
  <2>2. MuidCount \in Nat \ {0}
    BY SMT DEF MuidCount
  <2> QED
    BY <2>1, <2>2 DEF BroadcastMuid, Muids
<1>3. ASSUME NEW d \in Devices
      PROVE  /\ MuidsOf[d] \in Seq(Muids) /\ Len(MuidsOf[d]) \in Nat \ {0}
             /\ DOMAIN MuidsOf[d] = 1..Len(MuidsOf[d])
             /\ \A n \in 1..Len(MuidsOf[d]) : MuidsOf[d][n] \in Muids
                                              /\ MuidsOf[d][n] \in DeviceMuids
  <2>1. MuidsOf[d] \in Seq(Muids) /\ MuidsOf[d] # <<>>
    BY <1>1
  <2>2. Len(MuidsOf[d]) \in Nat \ {0} /\ DOMAIN MuidsOf[d] = 1..Len(MuidsOf[d])
    BY <2>1, EmptySeq, LenProperties
  <2>3. \A n \in 1..Len(MuidsOf[d]) : MuidsOf[d][n] \in Muids
    BY <2>1, ElementOfSeq
  <2>4. \A n \in 1..Len(MuidsOf[d]) : MuidsOf[d][n] \in DeviceMuids
    BY <2>2 DEF DeviceMuids
  <2> QED
    BY <2>1, <2>2, <2>3, <2>4
<1>4. DeviceMuids \subseteq Muids
  <2> SUFFICES ASSUME NEW u \in DeviceMuids PROVE u \in Muids
    OBVIOUS
  <2>1. PICK d \in Devices : \E n \in DOMAIN MuidsOf[d] : u = MuidsOf[d][n]
    BY DEF DeviceMuids
  <2> QED
    BY <1>3, <2>1
<1>5. QED
  BY <1>1, <1>2, <1>3, <1>4

\* A vouched muid is one of a device.
LEMMA VouchedType ==
  ASSUME DeviceInv, NEW u, Vouched(u)
  PROVE  u \in DeviceMuids
<1>1. PICK d \in Devices : \E n \in 1..device[d].start : u = MuidsOf[d][n]
  BY DEF Vouched
<1>2. device[d].start \in 1..Len(MuidsOf[d])
  BY DEF DeviceInv
<1>3. \A n \in 1..device[d].start : n \in 1..Len(MuidsOf[d])
  BY <1>2, MuidTypes
<1>4. QED
  BY <1>1, <1>3, MuidTypes

\* What vouches for a muid does not go away: a device that knows the sender
\* forgets it only when it gets another muid.
LEMMA VouchedStays ==
  ASSUME DeviceInv, DeviceInv',
         \A d \in Devices :
           \/ /\ device'[d].start = device[d].start
              /\ HasRemote(device[d].block, CentralMuid) =>
                   HasRemote(device'[d].block, CentralMuid)
           \/ device'[d].start = device[d].start + 1,
         NEW u, Vouched(u)
  PROVE  Vouched(u)'
<1>1. PICK d \in Devices : \E n \in 1..device[d].start :
        u = MuidsOf[d][n] /\ (n = device[d].start => HasRemote(device[d].block, CentralMuid))
  BY DEF Vouched
<1> PICK n \in 1..device[d].start :
      u = MuidsOf[d][n] /\ (n = device[d].start => HasRemote(device[d].block, CentralMuid))
  BY <1>1
<1>2. device[d].start \in Nat /\ device'[d].start \in Nat
  BY DEF DeviceInv
<1>3. /\ n \in 1..device'[d].start
      /\ n = device'[d].start => HasRemote(device'[d].block, CentralMuid)
  BY <1>2
<1>4. QED
  BY <1>3 DEF Vouched
LEMMA DiscoveryStart == Init => DiscoveryInv
<1> SUFFICES ASSUME Init PROVE DiscoveryInv
  OBVIOUS
<1>1. device = [d \in Devices |-> [block |-> [muid |-> MuidsOf[d][1], remote |-> <<>>], start |-> 1]]
  BY DEF Init, Block, FunctionBlock
<1>2. <<>> \in Seq([muid : {CentralMuid}]) /\ <<>> \in Seq([muid : DeviceMuids])
      /\ <<>> \in Seq(DeviceMuids) /\ <<>> \in Seq(Msg) /\ Len(<<>>) = 0
  BY EmptySeq
<1>3. DeviceInv
  BY <1>1, <1>2, MuidTypes DEF DeviceInv, DeviceBlock
<1>4. CentralInv
  BY <1>2 DEF Init, CentralInv, FunctionBlock
<1>5. VouchedInv
  BY <1>2 DEF Init, VouchedInv
<1>6. HostInv
  <2>1. 0 \in 0..MaxQueued /\ 0 \in 0..MaxMissed
    BY DiscoveryAssumption
  <2>2. Started \in SyncState
    BY DEF Started, SyncState, Hosts
  <2> QED
    BY <2>1, <2>2 DEF Init, HostInv
<1>7. QED
  BY <1>3, <1>4, <1>5, <1>6 DEF DiscoveryInv

-----------------------------------------------------------------------------
(* Steps *)

\* Steps that concern the host or the counters only.
LEMMA HostStep ==
  ASSUME DiscoveryInv, UNCHANGED <<device, central, remoteMuid, replies, fifo>>, HostInv'
  PROVE  DiscoveryInv'
BY DEF DiscoveryInv, DeviceInv, CentralInv, VouchedInv, VouchedMsg, Vouched

LEMMA SyncStep ==
  ASSUME DiscoveryInv, NEW d \in Devices,
         ScanRecv(d) \/ Synced(d) \/ BigInfo(d) \/ IsoConnected(d) \/ SyncLost(d)
  PROVE  DiscoveryInv'
<1>1. UNCHANGED <<device, central, remoteMuid, replies, fifo, discovered, queued>>
  BY DEF ScanRecv, Synced, BigInfo, IsoConnected, SyncLost, centralVars, airVars
<1>2. /\ missed' = missed \/ (missed < MaxMissed /\ missed' = missed + 1)
      /\ troubled' \in {troubled, TRUE}
  BY DEF ScanRecv, Synced, BigInfo, IsoConnected, SyncLost, faultVars
<1>3. sync' = sync \/ \E r \in SyncState : sync' = [sync EXCEPT ![d] = r]
  <2>1. /\ sync \in [Devices -> SyncState] /\ sync[d] \in SyncState
    BY DEF DiscoveryInv, HostInv
  <2>2. /\ \A h \in Hosts : [sync[d] EXCEPT !.found = TRUE, !.host = h] \in SyncState
                            /\ [sync[d] EXCEPT !.host = h] \in SyncState
                            /\ [sync[d] EXCEPT !.bigSynced = TRUE, !.host = h] \in SyncState
                            /\ [sync[d] EXCEPT !.lost = TRUE, !.host = h] \in SyncState
        /\ [sync[d] EXCEPT !.bigSynced = TRUE] \in SyncState
    BY <2>1 DEF SyncState
  <2>3. CASE ScanRecv(d)
    BY <2>1, <2>2, <2>3 DEF ScanRecv, Hosts
  <2>4. CASE Synced(d)
    BY <2>1, <2>2, <2>4 DEF Synced, Hosts
  <2>5. CASE BigInfo(d)
    BY <2>1, <2>2, <2>5 DEF BigInfo, Hosts
  <2>6. CASE IsoConnected(d)
    BY <2>1, <2>2, <2>6 DEF IsoConnected, Hosts
  <2>7. CASE SyncLost(d)
    BY <2>1, <2>2, <2>7 DEF SyncLost, Hosts
  <2>8. QED
    BY <2>3, <2>4, <2>5, <2>6, <2>7
<1>4. HostInv'
  <2>1. sync' \in [Devices -> SyncState]
    BY <1>3 DEF DiscoveryInv, HostInv
  <2> QED
    <3>1. missed' \in 0..MaxMissed
      BY <1>2, DiscoveryAssumption DEF DiscoveryInv, HostInv
    <3>2. troubled' \in BOOLEAN
      BY <1>2 DEF DiscoveryInv, HostInv
    <3> QED
      BY <1>1, <2>1, <3>1, <3>2 DEF DiscoveryInv, HostInv
<1>5. QED
  BY <1>1, <1>4, HostStep

LEMMA RestartStep ==
  ASSUME DiscoveryInv, NEW d \in Devices, Restart(d)
  PROVE  DiscoveryInv'
<1>1. /\ device[d].start < Len(MuidsOf[d])
      /\ device' = [device EXCEPT ![d] = Block(d, device[d].start + 1)]
      /\ sync' = [sync EXCEPT ![d] = Started]
      /\ UNCHANGED <<central, remoteMuid, discovered, fifo, queued, replies, missed, troubled>>
  BY DEF Restart, centralVars, airVars, faultVars
<1>2. /\ device \in [Devices -> [block : DeviceBlock, start : Nat]]
      /\ \A e \in Devices : /\ device[e].start \in 1..Len(MuidsOf[e])
                            /\ device[e].block.muid = MuidsOf[e][device[e].start]
  BY DEF DiscoveryInv, DeviceInv
<1>3. device[d].start + 1 \in 1..Len(MuidsOf[d])
  BY <1>1, <1>2, MuidTypes
<1>4. /\ Block(d, device[d].start + 1) \in [block : DeviceBlock, start : Nat]
      /\ Block(d, device[d].start + 1).start = device[d].start + 1
      /\ Block(d, device[d].start + 1).block.muid = MuidsOf[d][device[d].start + 1]
  <2>1. MuidsOf[d][device[d].start + 1] \in Muids /\ <<>> \in Seq([muid : {CentralMuid}])
    BY <1>3, MuidTypes, EmptySeq
  <2> QED
    BY <1>3, <2>1 DEF Block, FunctionBlock, DeviceBlock
<1>5. DeviceInv'
  BY <1>1, <1>2, <1>3, <1>4 DEF DeviceInv
<1>6. \A u : Vouched(u) => Vouched(u)'
  <2>1. \A e \in Devices : \/ device'[e] = device[e]
                           \/ device'[e].start = device[e].start + 1
    BY <1>1, <1>2, <1>4
  <2> QED
    BY <1>5, <2>1, VouchedStays DEF DiscoveryInv
<1>7. VouchedInv'
  BY <1>1, <1>6 DEF DiscoveryInv, VouchedInv, VouchedMsg
<1>8. CentralInv'
  BY <1>1 DEF DiscoveryInv, CentralInv
<1>9. HostInv'
  BY <1>1 DEF DiscoveryInv, HostInv, Started, SyncState, Hosts
<1>10. QED
  BY <1>5, <1>7, <1>8, <1>9 DEF DiscoveryInv
\* What a device makes of a discovery message.
LEMMA AnswerIs ==
  ASSUME DiscoveryInv, NEW d \in Devices
  PROVE  LET a == Answer(d, DiscoveryMsg(central))
         IN  /\ a[1] \in DeviceBlock /\ a[1].muid = device[d].block.muid
             /\ HasRemote(a[1], CentralMuid)
             /\ \A m \in a[2] : m \in Msg /\ DataToInt(m.source) = device[d].block.muid
<1> DEFINE msg == DiscoveryMsg(central)
           b == device[d].block
           remote == RemoteBlock(msg)
<1>1. b \in DeviceBlock /\ b.muid \in Muids /\ b.remote \in Seq([muid : {CentralMuid}])
  BY DEF DiscoveryInv, DeviceInv, DeviceBlock
<1>2. remote = [muid |-> CentralMuid] /\ remote \in [muid : {CentralMuid}]
  <2>1. DataToInt(msg.source) = CentralMuid
    BY MuidTypes, HeaderType DEF DiscoveryMsg, DiscoveryInv, CentralInv
  <2> QED
    BY <2>1 DEF RemoteBlock
<1>3. Answer(d, msg) = IF HasRemote(b, remote.muid) THEN <<b, {}>>
                       ELSE <<AddRemote(b, remote), {ReplyMsg(b, remote)}>>
  BY DEF Answer
<1> HIDE DEF msg, b, remote
<1>4. CASE HasRemote(b, CentralMuid)
  <2>1. Answer(d, msg) = <<b, {}>>
    BY <1>2, <1>3, <1>4
  <2> QED
    BY <1>1, <1>4, <2>1 DEF b, msg
<1>5. CASE ~HasRemote(b, CentralMuid)
  <2> DEFINE c == [b EXCEPT !.remote = Append(b.remote, remote)]
             r == ReplyMsg(b, remote)
  <2>1. AddRemote(b, remote) = c
    BY <1>2, <1>5 DEF AddRemote
  <2>2. /\ Append(b.remote, remote) \in Seq([muid : {CentralMuid}])
        /\ Len(Append(b.remote, remote)) \in DOMAIN Append(b.remote, remote)
        /\ Append(b.remote, remote)[Len(Append(b.remote, remote))] = remote
    BY <1>1, <1>2, AppendProperties, LenProperties
  <2>3. c \in DeviceBlock /\ c.muid = b.muid /\ c.remote = Append(b.remote, remote)
    BY <1>1, <2>2 DEF DeviceBlock
  <2>4. HasRemote(c, CentralMuid)
    BY <1>2, <2>2, <2>3 DEF HasRemote
  <2>5. r \in Msg /\ DataToInt(r.source) = b.muid
    <3>1. CentralMuid \in Muids /\ r = Header("reply", b.muid, CentralMuid)
      BY <1>2, MuidTypes DEF ReplyMsg
    <3> QED
      BY <1>1, <3>1, HeaderType
  <2> HIDE DEF c, r
  <2>6. Answer(d, msg) = <<c, {r}>>
    BY <1>2, <1>3, <1>5, <2>1 DEF r
  <2> QED
    BY <2>3, <2>4, <2>5, <2>6 DEF b, msg
<1>6. QED
  BY <1>4, <1>5

LEMMA HeardStep ==
  ASSUME DiscoveryInv, Heard
  PROVE  DiscoveryInv'
<1> DEFINE msg == DiscoveryMsg(central)
<1>1. /\ queued > 0 /\ queued' = queued - 1
      /\ UNCHANGED <<central, remoteMuid, discovered, fifo, sync, troubled>>
  BY DEF Heard, centralVars
<1>2. PICK hearers \in SUBSET {d \in Devices : sync[d].host = "up"} :
        LET answer == [d \in hearers |-> Answer(d, msg)]
        IN  /\ missed' \in {missed, missed + 1} /\ missed' <= MaxMissed
            /\ device' = [d \in Devices |-> IF d \in hearers
                                            THEN [device[d] EXCEPT !.block = answer[d][1]]
                                            ELSE device[d]]
            /\ replies' = replies \cup
                 UNION {{[dev |-> d, msg |-> m] : m \in answer[d][2]} : d \in hearers}
  BY DEF Heard
<1>3. hearers \subseteq Devices
  OBVIOUS
<1> DEFINE a(d) == Answer(d, msg)
<1>4. ASSUME NEW d \in Devices
      PROVE  /\ a(d)[1] \in DeviceBlock /\ a(d)[1].muid = device[d].block.muid
             /\ HasRemote(a(d)[1], CentralMuid)
             /\ \A m \in a(d)[2] : m \in Msg /\ DataToInt(m.source) = device[d].block.muid
  BY AnswerIs
<1> HIDE DEF a, msg
<1>5. /\ device' = [d \in Devices |-> IF d \in hearers
                                      THEN [device[d] EXCEPT !.block = a(d)[1]]
                                      ELSE device[d]]
      /\ \A r \in replies' : \/ r \in replies
                             \/ \E d \in hearers : \E m \in a(d)[2] : r = [dev |-> d, msg |-> m]
  BY <1>2 DEF a
<1>6. /\ device \in [Devices -> [block : DeviceBlock, start : Nat]]
      /\ \A e \in Devices : /\ device[e].start \in 1..Len(MuidsOf[e])
                            /\ device[e].block.muid = MuidsOf[e][device[e].start]
  BY DEF DiscoveryInv, DeviceInv
<1>7. ASSUME NEW d \in Devices
      PROVE  /\ device'[d] \in [block : DeviceBlock, start : Nat]
             /\ device'[d].start = device[d].start
             /\ device'[d].block.muid = device[d].block.muid
             /\ HasRemote(device[d].block, CentralMuid) => HasRemote(device'[d].block, CentralMuid)
             /\ d \in hearers => HasRemote(device'[d].block, CentralMuid)
  <2>1. CASE d \in hearers
    <3>1. device'[d] = [device[d] EXCEPT !.block = a(d)[1]]
      BY <1>5, <2>1
    <3>2. device'[d].block = a(d)[1] /\ device'[d].start = device[d].start
          /\ device'[d] \in [block : DeviceBlock, start : Nat]
      BY <1>4, <1>6, <3>1
    <3> QED
      BY <1>4, <3>2
  <2>2. CASE d \notin hearers
    BY <1>5, <1>6, <2>2
  <2>3. QED
    BY <2>1, <2>2
<1>8. DeviceInv'
  <2>1. device' \in [Devices -> [block : DeviceBlock, start : Nat]]
    BY <1>5, <1>7
  <2> QED
    BY <1>6, <1>7, <2>1 DEF DeviceInv
<1>9. \A u : Vouched(u) => Vouched(u)'
  BY <1>7, <1>8, VouchedStays DEF DiscoveryInv
<1>10. VouchedInv'
  <2>1. ASSUME NEW r \in replies' PROVE r.dev \in Devices /\ VouchedMsg(r.msg)'
    <3>1. CASE r \in replies
      BY <1>9, <3>1 DEF DiscoveryInv, VouchedInv, VouchedMsg
    <3>2. CASE \E d \in hearers : \E m \in a(d)[2] : r = [dev |-> d, msg |-> m]
      <4>1. PICK d \in hearers : \E m \in a(d)[2] : r = [dev |-> d, msg |-> m]
        BY <3>2
      <4>2. PICK m \in a(d)[2] : r = [dev |-> d, msg |-> m]
        BY <4>1
      <4>3. d \in Devices /\ m \in Msg /\ DataToInt(m.source) = MuidsOf[d][device[d].start]
        BY <1>3, <1>4, <1>6
      <4> DEFINE u == DataToInt(m.source)
      <4>4. /\ device'[d].start = device[d].start /\ HasRemote(device'[d].block, CentralMuid)
            /\ device[d].start \in 1..device'[d].start
        BY <1>6, <1>7, <4>3
      <4>5. Vouched(u)'
        BY <4>3, <4>4 DEF Vouched
      <4> QED
        BY <4>2, <4>3, <4>5 DEF VouchedMsg
    <3> QED
      BY <1>5, <3>1, <3>2
  <2> QED
    BY <1>1, <1>9, <2>1 DEF DiscoveryInv, VouchedInv, VouchedMsg
<1>11. CentralInv'
  BY <1>1 DEF DiscoveryInv, CentralInv
<1>12. HostInv'
  <2>1. queued' \in 0..MaxQueued /\ missed' \in 0..MaxMissed
    BY <1>1, <1>2, DiscoveryAssumption DEF DiscoveryInv, HostInv
  <2> QED
    BY <1>1, <2>1 DEF DiscoveryInv, HostInv
<1>13. QED
  BY <1>8, <1>10, <1>11, <1>12 DEF DiscoveryInv
LEMMA ReplyStep ==
  ASSUME DiscoveryInv, ReplyArrives \/ ReplyLost
  PROVE  DiscoveryInv'
<1>1. PICK r \in replies :
        /\ replies' = replies \ {r}
        /\ fifo' = fifo \/ fifo' = Append(fifo, r.msg)
  <2>1. CASE ReplyArrives
    BY <2>1 DEF ReplyArrives
  <2>2. CASE ReplyLost
    BY <2>2 DEF ReplyLost, centralVars
  <2> QED
    BY <2>1, <2>2
<1>2. /\ UNCHANGED <<central, remoteMuid, discovered, queued, device, sync, missed>>
      /\ troubled' \in {troubled, TRUE}
  <2>1. CASE ReplyArrives
    <3>1. PICK q \in replies :
            UNCHANGED <<central, remoteMuid, discovered, queued, device, sync, faultVars>>
      BY <2>1 DEF ReplyArrives
    <3> QED
      BY <3>1 DEF faultVars
  <2>2. CASE ReplyLost
    BY <2>2 DEF ReplyLost, centralVars
  <2> QED
    BY <2>1, <2>2
<1>3. r \in replies /\ VouchedMsg(r.msg) /\ r.msg \in Msg /\ fifo \in Seq(Msg)
      /\ \A i \in 1..Len(fifo) : VouchedMsg(fifo[i])
  BY DEF DiscoveryInv, VouchedInv, VouchedMsg
<1>4. fifo' \in Seq(Msg) /\ \A i \in 1..Len(fifo') : VouchedMsg(fifo'[i])
  <2>1. CASE fifo' = fifo
    BY <1>3, <2>1
  <2>2. CASE fifo' = Append(fifo, r.msg)
    <3>1. /\ fifo' \in Seq(Msg) /\ Len(fifo) \in Nat /\ Len(fifo') = Len(fifo) + 1
          /\ \A i \in 1..Len(fifo) : fifo'[i] = fifo[i]
          /\ fifo'[Len(fifo) + 1] = r.msg
      BY <1>3, <2>2, AppendProperties, LenProperties
    <3> QED
      BY <1>3, <3>1
  <2>3. QED
    BY <1>1, <2>1, <2>2
<1>5. \A u : Vouched(u) <=> Vouched(u)'
  BY <1>2 DEF Vouched
<1>6. VouchedInv'
  BY <1>1, <1>2, <1>4, <1>5 DEF DiscoveryInv, VouchedInv, VouchedMsg
<1>7. DeviceInv' /\ CentralInv'
  BY <1>2 DEF DiscoveryInv, DeviceInv, CentralInv
<1>8. HostInv'
  BY <1>2 DEF DiscoveryInv, HostInv
<1>9. QED
  BY <1>6, <1>7, <1>8 DEF DiscoveryInv

\* A muid the application does not know goes into both tables, at their ends.
LEMMA RxThreadStep ==
  ASSUME DiscoveryInv, RxThread
  PROVE  DiscoveryInv'
<1> DEFINE u == DataToInt(Head(fifo).source)
           remote == RemoteBlock(Head(fifo))
<1>1. /\ fifo # <<>> /\ fifo' = Tail(fifo)
      /\ UNCHANGED <<queued, replies, device, sync, missed, troubled>>
  BY DEF RxThread, airVars, faultVars
<1>2. fifo \in Seq(Msg) /\ \A i \in 1..Len(fifo) : VouchedMsg(fifo[i])
  BY DEF DiscoveryInv, VouchedInv
<1>3. /\ Len(fifo) \in Nat /\ Len(fifo) >= 1 /\ Head(fifo) = fifo[1]
      /\ fifo' \in Seq(Msg) /\ Len(fifo') = Len(fifo) - 1
      /\ \A i \in 1..Len(fifo') : fifo'[i] = fifo[i + 1]
  BY <1>1, <1>2, HeadTailProperties, LenProperties
<1>4. \A i \in 1..Len(fifo') : VouchedMsg(fifo'[i])
  <2> SUFFICES ASSUME NEW i \in 1..Len(fifo') PROVE VouchedMsg(fifo'[i])
    OBVIOUS
  <2>1. fifo'[i] = fifo[i + 1] /\ i + 1 \in 1..Len(fifo)
    BY <1>3
  <2> QED
    BY <1>2, <2>1
<1>5. Vouched(u) /\ u \in DeviceMuids
  <2>1. VouchedMsg(fifo[1])
    BY <1>2, <1>3
  <2> QED
    BY <1>3, <2>1, VouchedType DEF VouchedMsg, DiscoveryInv
<1>6. remote = [muid |-> u]
  BY DEF RemoteBlock
<1>7. \A v : Vouched(v) <=> Vouched(v)'
  BY <1>1 DEF Vouched
<1>8. IF HasRemote(central, u)
      THEN UNCHANGED <<central, remoteMuid, discovered>>
      ELSE /\ central' = AddRemote(central, remote)
           /\ remoteMuid' = Append(remoteMuid, u)
           /\ discovered' \in BOOLEAN
  <2>1. discovered \in BOOLEAN
    BY DEF DiscoveryInv, HostInv
  <2>2. IF HasRemote(central, remote.muid)
        THEN UNCHANGED <<central, remoteMuid, discovered>>
        ELSE /\ central' = AddRemote(central, remote)
             /\ remoteMuid' = Append(remoteMuid, remote.muid)
             /\ discovered' = (discovered \/ Len(remoteMuid') = MaxNumMuid)
    BY DEF RxThread
  <2>3. remote.muid = u
    BY <1>6
  <2> HIDE DEF u, remote
  <2> QED
    BY <2>1, <2>2, <2>3
<1> HIDE DEF u, remote
<1>9. DeviceInv' /\ HostInv'
  <2>1. discovered' \in BOOLEAN
    BY <1>8 DEF DiscoveryInv, HostInv
  <2> QED
    BY <1>1, <2>1 DEF DiscoveryInv, DeviceInv, HostInv
<1>10. CASE HasRemote(central, u)
  <2>1. UNCHANGED <<central, remoteMuid>>
    BY <1>8, <1>10
  <2>2. CentralInv'
    BY <2>1 DEF DiscoveryInv, CentralInv
  <2>3. VouchedInv'
    BY <1>1, <1>3, <1>4, <1>7, <2>1 DEF DiscoveryInv, VouchedInv, VouchedMsg
  <2> QED
    BY <1>9, <2>2, <2>3 DEF DiscoveryInv
<1>11. CASE ~HasRemote(central, u)
  <2> DEFINE n == Len(remoteMuid)
  <2>1. /\ central.remote \in Seq([muid : DeviceMuids]) /\ remoteMuid \in Seq(DeviceMuids)
        /\ n \in Nat /\ Len(central.remote) = n
        /\ \A i \in 1..n : central.remote[i].muid = remoteMuid[i]
        /\ \A i, j \in 1..n : remoteMuid[i] = remoteMuid[j] => i = j
        /\ central.muid = CentralMuid
        /\ \A i \in 1..n : Vouched(remoteMuid[i])
    BY LenProperties DEF DiscoveryInv, CentralInv, VouchedInv
  <2>2. \A i \in 1..n : remoteMuid[i] # u
    <3>1. \A i \in DOMAIN central.remote : central.remote[i].muid # u
      BY <1>11 DEF HasRemote
    <3>2. DOMAIN central.remote = 1..n
      BY <2>1, LenProperties
    <3> QED
      BY <2>1, <3>1, <3>2
  <2>3. central' = [central EXCEPT !.remote = Append(central.remote, remote)]
    BY <1>6, <1>8, <1>11 DEF AddRemote
  <2>4. /\ remoteMuid' = Append(remoteMuid, u) /\ remoteMuid' \in Seq(DeviceMuids)
        /\ Len(remoteMuid') = n + 1 /\ remoteMuid'[n + 1] = u
        /\ \A i \in 1..n : remoteMuid'[i] = remoteMuid[i]
    BY <1>5, <1>8, <1>11, <2>1, AppendProperties
  <2>5. /\ Append(central.remote, remote) \in Seq([muid : DeviceMuids])
        /\ Len(Append(central.remote, remote)) = n + 1
        /\ Append(central.remote, remote)[n + 1] = remote
        /\ \A i \in 1..n : Append(central.remote, remote)[i] = central.remote[i]
    BY <1>5, <1>6, <2>1, AppendProperties
  <2> HIDE DEF n
  <2>6. /\ central' \in [muid : {CentralMuid}, remote : Seq([muid : DeviceMuids])]
        /\ central'.remote = Append(central.remote, remote)
    <3>1. central \in [muid : {CentralMuid}, remote : Seq([muid : DeviceMuids])]
      BY DEF DiscoveryInv, CentralInv
    <3> QED
      BY <2>3, <2>5, <3>1
  <2>7. CentralInv'
    <3>1. \A i \in 1..(n + 1) : central'.remote[i].muid = remoteMuid'[i]
      <4> SUFFICES ASSUME NEW i \in 1..(n + 1) PROVE central'.remote[i].muid = remoteMuid'[i]
        OBVIOUS
      <4>1. CASE i = n + 1
        BY <1>6, <2>4, <2>5, <2>6, <4>1
      <4>2. CASE i \in 1..n
        BY <2>1, <2>4, <2>5, <2>6, <4>2
      <4> QED
        BY <2>1, <4>1, <4>2
    <3>2. \A i, j \in 1..(n + 1) : remoteMuid'[i] = remoteMuid'[j] => i = j
      <4> SUFFICES ASSUME NEW i \in 1..(n + 1), NEW j \in 1..(n + 1),
                          remoteMuid'[i] = remoteMuid'[j]
                   PROVE  i = j
        OBVIOUS
      <4>1. CASE i \in 1..n /\ j \in 1..n
        BY <2>1, <2>4, <4>1
      <4>2. CASE i = n + 1 \/ j = n + 1
        BY <2>1, <2>2, <2>4, <4>2
      <4> QED
        BY <2>1, <4>1, <4>2
    <3> QED
      BY <2>4, <2>5, <2>6, <3>1, <3>2 DEF CentralInv
  <2>8. VouchedInv'
    <3>1. ASSUME NEW i \in 1..(n + 1) PROVE Vouched(remoteMuid'[i])
      <4>1. CASE i = n + 1
        BY <1>5, <2>4, <4>1
      <4>2. CASE i \in 1..n
        BY <2>1, <2>4, <4>2
      <4> QED
        BY <2>1, <4>1, <4>2
    <3> QED
      BY <1>1, <1>3, <1>4, <1>7, <2>4, <3>1 DEF DiscoveryInv, VouchedInv, VouchedMsg
  <2> QED
    BY <1>9, <2>7, <2>8 DEF DiscoveryInv
<1>12. QED
  BY <1>10, <1>11
LEMMA SendDiscoveryStep ==
  ASSUME DiscoveryInv, SendDiscovery
  PROVE  DiscoveryInv'
<1>1. /\ queued < MaxQueued /\ queued' = queued + 1
      /\ UNCHANGED <<device, central, remoteMuid, discovered, replies, fifo, sync, missed, troubled>>
  BY DEF SendDiscovery, centralVars, faultVars
<1>2. HostInv'
  <2>1. queued' \in 0..MaxQueued
    BY <1>1, DiscoveryAssumption DEF DiscoveryInv, HostInv
  <2> QED
    BY <1>1, <2>1 DEF DiscoveryInv, HostInv
<1>3. QED
  BY <1>1, <1>2, HostStep

LEMMA DiscoveryInvariant == Spec => []DiscoveryInv
<1>1. DiscoveryInv /\ [Next]_vars => DiscoveryInv'
  <2> SUFFICES ASSUME DiscoveryInv, [Next]_vars PROVE DiscoveryInv'
    OBVIOUS
  <2>1. CASE UNCHANGED vars
    BY <2>1, HostStep DEF vars, DiscoveryInv, HostInv
  <2>2. CASE Next
    <3>1. CASE \E d \in Devices : ScanRecv(d) \/ Synced(d) \/ BigInfo(d) \/ IsoConnected(d)
                                  \/ SyncLost(d)
      BY <3>1, SyncStep
    <3>2. CASE \E d \in Devices : Restart(d)
      BY <3>2, RestartStep
    <3> QED
      BY <2>2, <3>1, <3>2, SendDiscoveryStep, HeardStep, ReplyStep, RxThreadStep
         DEF Next, Progress
  <2> QED
    BY <2>1, <2>2
<1>2. QED
  BY DiscoveryStart, <1>1, PTL DEF Spec

-----------------------------------------------------------------------------
(* Results *)

\* The tables and messages of both applications hold muids of the devices only.
THEOREM TypeCorrect == Spec => []TypeOK
<1>1. DiscoveryInv => TypeOK
  <2> SUFFICES ASSUME DiscoveryInv PROVE TypeOK
    OBVIOUS
  <2>1. /\ central.muid = CentralMuid /\ central.remote \in Seq([muid : DeviceMuids])
        /\ remoteMuid \in Seq(DeviceMuids)
    BY DEF DiscoveryInv, CentralInv
  <2>2. \A i \in DOMAIN central.remote : central.remote[i].muid \in DeviceMuids
    <3> SUFFICES ASSUME NEW i \in DOMAIN central.remote
                 PROVE  central.remote[i].muid \in DeviceMuids
      OBVIOUS
    <3>1. central.remote[i] \in [muid : DeviceMuids]
      BY <2>1, ElementOfSeq, LenProperties
    <3> QED
      BY <3>1
  <2>3. ASSUME NEW d \in Devices
        PROVE  /\ device[d].start \in DOMAIN MuidsOf[d]
               /\ device[d].block.muid = MuidsOf[d][device[d].start]
               /\ \A i \in DOMAIN device[d].block.remote :
                    device[d].block.remote[i].muid = CentralMuid
               /\ sync[d] \in SyncState
    <3>1. /\ device[d].start \in 1..Len(MuidsOf[d])
          /\ device[d].block.muid = MuidsOf[d][device[d].start]
          /\ device[d].block.remote \in Seq([muid : {CentralMuid}]) /\ sync[d] \in SyncState
      BY DEF DiscoveryInv, DeviceInv, DeviceBlock, HostInv
    <3>2. ASSUME NEW i \in DOMAIN device[d].block.remote
          PROVE  device[d].block.remote[i].muid = CentralMuid
      <4>1. device[d].block.remote[i] \in [muid : {CentralMuid}]
        BY <3>1, <3>2, ElementOfSeq, LenProperties
      <4> QED
        BY <4>1
    <3> QED
      BY <3>1, <3>2, MuidTypes
  <2>4. \A r \in replies : r.dev \in Devices
    BY DEF DiscoveryInv, VouchedInv
  <2> QED
    BY <2>1, <2>2, <2>3, <2>4 DEF TypeOK, DiscoveryInv, HostInv, SyncState
<1>2. QED
  BY <1>1, DiscoveryInvariant, PTL

\* A device the application lists, and that has not been restarted since, knows
\* the application: a reply is sent only after the device has stored the block.
THEOREM ListedDevicesKnowSender == Spec => []ListedKnowsSender
<1>1. DiscoveryInv => ListedKnowsSender
  <2> SUFFICES ASSUME DiscoveryInv, NEW d \in Devices, NEW i \in DOMAIN remoteMuid,
                      remoteMuid[i] = device[d].block.muid
               PROVE  HasRemote(device[d].block, central.muid)
    BY DEF ListedKnowsSender, Listed
  <2>1. central.muid = CentralMuid /\ i \in 1..Len(remoteMuid)
    BY LenProperties DEF DiscoveryInv, CentralInv
  <2>2. Vouched(device[d].block.muid)
    BY <2>1 DEF DiscoveryInv, VouchedInv
  <2>3. PICK e \in Devices : \E n \in 1..device[e].start :
          /\ device[d].block.muid = MuidsOf[e][n]
          /\ n = device[e].start => HasRemote(device[e].block, CentralMuid)
    BY <2>2 DEF Vouched
  <2>4. PICK n \in 1..device[e].start :
          /\ device[d].block.muid = MuidsOf[e][n]
          /\ n = device[e].start => HasRemote(device[e].block, CentralMuid)
    BY <2>3
  <2>5. /\ device[d].block.muid = MuidsOf[d][device[d].start]
        /\ device[d].start \in DOMAIN MuidsOf[d]
        /\ n \in DOMAIN MuidsOf[e]
    BY MuidTypes DEF DiscoveryInv, DeviceInv
  <2>6. d = e /\ device[d].start = n
    <3>1. MuidsOf[d][device[d].start] = MuidsOf[e][n]
      BY <2>4, <2>5
    <3> QED
      BY <2>5, <3>1, MuidsDiffer
  <2> QED
    BY <2>1, <2>4, <2>6
<1>2. QED
  BY <1>1, DiscoveryInvariant, PTL

\* The table of muids grows with the muids the devices draw and not with the
\* messages and replies, which repeat: however many devices there are, and however
\* often they restart, it has one entry for each muid at most.
THEOREM OneEntryEach == Spec => []OneEntryPerMuid
<1>1. DiscoveryInv => OneEntryPerMuid
  <2> SUFFICES ASSUME DiscoveryInv PROVE Len(remoteMuid) <= Cardinality(Drawn)
    BY DEF OneEntryPerMuid
  <2> DEFINE n == Len(remoteMuid)
             entry == [i \in 1..n |-> remoteMuid[i]]
  <2>1. n \in Nat /\ \A i, j \in 1..n : remoteMuid[i] = remoteMuid[j] => i = j
    BY LenProperties DEF DiscoveryInv, CentralInv
  <2>2. ASSUME NEW i \in 1..n PROVE remoteMuid[i] \in Drawn
    <3>1. Vouched(remoteMuid[i])
      BY <2>2 DEF DiscoveryInv, VouchedInv
    <3>2. PICK d \in Devices : \E k \in 1..device[d].start : remoteMuid[i] = MuidsOf[d][k]
      BY <3>1 DEF Vouched
    <3> QED
      BY <3>2 DEF Drawn
  <2>3. IsFiniteSet(Drawn)
    <3>1. Drawn \subseteq Muids
      <4> SUFFICES ASSUME NEW d \in Devices, NEW k \in 1..device[d].start
                   PROVE  MuidsOf[d][k] \in Muids
        BY DEF Drawn
      <4>1. device[d].start \in 1..Len(MuidsOf[d]) /\ Len(MuidsOf[d]) \in Nat
        BY MuidTypes DEF DiscoveryInv, DeviceInv
      <4>2. k \in 1..Len(MuidsOf[d])
        BY <4>1
      <4> QED
        BY <4>2, MuidTypes
    <3>2. IsFiniteSet(Muids)
      <4>1. \A a, b \in Int : IsFiniteSet(a..b)
        BY FS_Interval
      <4>2. 0 \in Int /\ MuidCount - 1 \in Int
        BY SMT DEF MuidCount
      <4> QED
        BY <4>1, <4>2 DEF Muids
    <3> QED
      BY <3>1, <3>2, FS_Subset
  <2> HIDE DEF n
  <2>4. entry \in Injection(1..n, Drawn)
    <3>1. \A i \in 1..n : entry[i] = remoteMuid[i]
      OBVIOUS
    <3>2. entry \in [1..n -> Drawn]
      BY <2>2
    <3> HIDE DEF entry
    <3> QED
      BY <2>1, <3>1, <3>2 DEF Injection, IsInjective
  <2>5. Cardinality(1..n) <= Cardinality(Drawn)
    BY <2>3, <2>4, FS_Injection
  <2>6. Cardinality(1..n) = n
    BY <2>1, FS_Interval
  <2> QED
    BY <2>5, <2>6 DEF n
<1>2. QED
  BY <1>1, DiscoveryInvariant, PTL
=============================================================================
