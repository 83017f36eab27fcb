----------------------------- MODULE Discovery ------------------------------
(***************************************************************************)
(* How the broadcaster and its devices find each other.  A device          *)
(* (samples/api/bluetooth/peripheral_rx, subsys/midi/midi_iso_receiver.c)  *)
(* scans, synchronises to the periodic advertising and to the isochronous  *)
(* group.  The broadcaster's application (samples/api/bluetooth/           *)
(* central_tx) sends a MIDI-CI discovery message every second; a device    *)
(* that does not know the sender answers, through ESB (EsbSlots.tla), and  *)
(* the application lists the device, until it has MAX_NUM_MUID of them.    *)
(*                                                                         *)
(* The Bluetooth host's and controller's calls may fail, discovery         *)
(* messages and replies get lost, a device may be switched off and on, and *)
(* may hear another periodic advertiser before the broadcaster.            *)
(* "missed" and "troubled" record what the environment did.                *)
(***************************************************************************)
EXTENDS MidiCi, FiniteSets

CONSTANTS
  Devices,
  MuidsOf,        (* MuidsOf[d]: the muids a device draws, one per start     *)
  CentralMuid,
  MaxNumMuid,     (* MAX_NUM_MUID                                            *)
  MaxQueued,      (* bound: discovery messages the broadcaster has not sent  *)
  MaxMissed,      (* bound: discovery messages missed, scans not stopped     *)
  Losses          (* whether replies and synchronisation get lost, and there *)
                  (* are other periodic advertisers                          *)

ASSUME DiscoveryAssumption ==
  /\ MuidsOf \in [Devices -> Seq(Muids) \ {<<>>}]
  /\ CentralMuid \in Muids
  /\ MaxNumMuid \in Nat /\ MaxQueued \in Nat \ {0} /\ MaxMissed \in Nat /\ Losses \in BOOLEAN

\* No muid is drawn twice (they are random numbers of 28 bits).
ASSUME MuidsDiffer ==
  \A d, e \in Devices : \A i \in DOMAIN MuidsOf[d], j \in DOMAIN MuidsOf[e] :
    MuidsOf[d][i] = MuidsOf[e][j] => d = e /\ i = j

VARIABLES
  central,      (* function_block of central_tx                              *)
  remoteMuid,   (* remote_muid[0 .. num_muid - 1]                            *)
  discovered,   (* device_discovered_sem has been given                      *)
  queued,       (* discovery messages in the broadcaster's queue             *)
  device,       (* device[d]: function_block of peripheral_rx, and the index *)
                (* of its muid in MuidsOf[d]                                 *)
  sync,         (* sync[d]: per_adv_found, per_adv_lost, big_synced, and how *)
                (* far the host is, see Hosts                                *)
  replies,      (* replies on their way: a set of [dev, msg]                 *)
  fifo,         (* esb_spi_fifo of central_tx                                *)
  missed,       (* number of faults so far that sending again repairs        *)
  troubled      (* a fault happened that nothing in the code repairs         *)

vars == <<central, remoteMuid, discovered, queued, device, sync, replies, fifo, missed, troubled>>

airVars == <<queued, replies>>
centralVars == <<central, remoteMuid, discovered, fifo>>
faultVars == <<missed, troubled>>

\* midi_iso_receiver_device_init, then midi_iso_scan from main.
Started == [found |-> FALSE, lost |-> FALSE, bigSynced |-> FALSE, host |-> "scan"]

Block(d, n) == [block |-> FunctionBlock(MuidsOf[d][n]), start |-> n]

Init ==
  /\ central = FunctionBlock(CentralMuid) /\ remoteMuid = <<>> /\ discovered = FALSE
  /\ queued = 0
  /\ device = [d \in Devices |-> Block(d, 1)]
  /\ sync = [d \in Devices |-> Started]
  /\ replies = {} /\ fifo = <<>>
  /\ missed = 0 /\ troubled = FALSE

-----------------------------------------------------------------------------
(* Synchronisation *)

\* scan_recv, for a report with a periodic interval, whoever sends it.  If the
\* scan cannot be stopped the next report tries again; if the sync cannot be
\* created, or another advertiser was found, nothing does, since per_adv_found is
\* already set.  How far the device gets with that advertiser is left open.
ScanRecv(d) ==
  /\ sync[d].host = "scan"
  /\ \/ /\ missed < MaxMissed /\ missed' = missed + 1
        /\ UNCHANGED <<sync, troubled>>
     \/ /\ sync' = [sync EXCEPT ![d].found = TRUE, ![d].host = "creating"]
        /\ UNCHANGED faultVars
     \/ /\ Losses /\ troubled' = TRUE
        /\ \E h \in {"idle", "foreign"} :
             sync' = [sync EXCEPT ![d].found = TRUE, ![d].host = h]
        /\ UNCHANGED missed
  /\ UNCHANGED <<centralVars, airVars, device>>

\* sync_cb.
Synced(d) ==
  /\ sync[d].host = "creating"
  /\ sync' = [sync EXCEPT ![d].host = "periodic"]
  /\ UNCHANGED <<centralVars, airVars, device, faultVars>>

\* Faulty variant: the call is not made.
BigInfoNoSync(d) ==
  /\ sync[d].host = "periodic" /\ ~sync[d].bigSynced
  /\ sync' = [sync EXCEPT ![d].bigSynced = TRUE]
  /\ UNCHANGED <<centralVars, airVars, device, faultVars>>

\* biginfo_cb: the first report starts the synchronisation to the group.
BigInfo(d) ==
  /\ sync[d].host = "periodic" /\ ~sync[d].bigSynced
  /\ \/ /\ sync' = [sync EXCEPT ![d].bigSynced = TRUE, ![d].host = "big"]
        /\ UNCHANGED troubled
     \/ /\ Losses /\ troubled' = TRUE
        /\ sync' = [sync EXCEPT ![d].bigSynced = TRUE]
  /\ UNCHANGED <<centralVars, airVars, device, missed>>

\* iso_connected.
IsoConnected(d) ==
  /\ sync[d].host = "big"
  /\ sync' = [sync EXCEPT ![d].host = "up"]
  /\ UNCHANGED <<centralVars, airVars, device, faultVars>>

\* term_cb and iso_disconnected: recorded or logged, and nothing else.
SyncLost(d) ==
  /\ Losses
  /\ sync[d].host \in {"creating", "periodic", "big", "up", "foreign"}
  /\ sync' = [sync EXCEPT ![d].lost = TRUE, ![d].host = "idle"]
  /\ troubled' = TRUE
  /\ UNCHANGED <<centralVars, airVars, device, missed>>

\* The device is switched off and on, and draws another muid.
Restart(d) ==
  /\ device[d].start < Len(MuidsOf[d])
  /\ device' = [device EXCEPT ![d] = Block(d, @.start + 1)]
  /\ sync' = [sync EXCEPT ![d] = Started]
  /\ UNCHANGED <<centralVars, airVars, faultVars>>

-----------------------------------------------------------------------------
(* Messages *)

\* main of central_tx, every second.
SendDiscovery ==
  /\ Len(remoteMuid) < MaxNumMuid
  /\ queued < MaxQueued
  /\ queued' = queued + 1
  /\ UNCHANGED <<centralVars, device, sync, replies, faultVars>>

\* handle_midi_ci of peripheral_rx, from iso_recv: the block after a discovery
\* message and the replies sent.
Answer(d, msg) ==
  LET remote == RemoteBlock(msg)
  IN  IF HasRemote(device[d].block, remote.muid)
      THEN <<device[d].block, {}>>
      ELSE <<AddRemote(device[d].block, remote), {ReplyMsg(device[d].block, remote)}>>

\* A discovery message is transmitted: the devices with a channel hear it,
\* except some.
Heard ==
  /\ queued > 0
  /\ queued' = queued - 1
  /\ \E hearers \in SUBSET {d \in Devices : sync[d].host = "up"} :
       LET all == hearers = {d \in Devices : sync[d].host = "up"}
           answer == [d \in hearers |-> Answer(d, DiscoveryMsg(central))]
       IN  /\ missed' = IF all THEN missed ELSE missed + 1
           /\ missed' <= MaxMissed
           /\ device' = [d \in Devices |-> IF d \in hearers
                                           THEN [device[d] EXCEPT !.block = answer[d][1]]
                                           ELSE device[d]]
           /\ replies' = replies \cup
                UNION {{[dev |-> d, msg |-> m] : m \in answer[d][2]} : d \in hearers}
  /\ UNCHANGED <<centralVars, sync, troubled>>

\* A reply gets through, by the device's slots: spi_thread of central_tx.
ReplyArrives ==
  \E r \in replies :
    /\ replies' = replies \ {r}
    /\ fifo' = Append(fifo, r.msg)
    /\ UNCHANGED <<central, remoteMuid, discovered, queued, device, sync, faultVars>>

ReplyLost ==
  /\ Losses
  /\ \E r \in replies : replies' = replies \ {r}
  /\ troubled' = TRUE
  /\ UNCHANGED <<centralVars, queued, device, sync, missed>>

\* rx_thread of central_tx, handle_sysex, handle_midi_ci.
RxThread ==
  /\ fifo # <<>>
  /\ fifo' = Tail(fifo)
  /\ LET remote == RemoteBlock(Head(fifo))
     IN  IF HasRemote(central, remote.muid)
         THEN UNCHANGED <<central, remoteMuid, discovered>>
         ELSE /\ central' = AddRemote(central, remote)
              /\ remoteMuid' = Append(remoteMuid, remote.muid)
              /\ discovered' = (discovered \/ Len(remoteMuid') = MaxNumMuid)
  /\ UNCHANGED <<airVars, device, sync, faultVars>>

Progress ==
  \/ SendDiscovery \/ Heard \/ ReplyArrives \/ RxThread
  \/ \E d \in Devices : ScanRecv(d) \/ Synced(d) \/ BigInfo(d) \/ IsoConnected(d)

Next ==
  \/ Progress
  \/ \E d \in Devices : SyncLost(d) \/ Restart(d)
  \/ ReplyLost

\* Threads run, the controller reports, the radio transmits.
Fairness ==
  /\ WF_vars(SendDiscovery) /\ WF_vars(Heard) /\ WF_vars(ReplyArrives) /\ WF_vars(RxThread)
  /\ \A d \in Devices :
       WF_vars(ScanRecv(d)) /\ WF_vars(Synced(d)) /\ WF_vars(BigInfo(d)) /\ WF_vars(IsoConnected(d))

Spec == Init /\ [][Next]_vars /\ Fairness

-----------------------------------------------------------------------------
(* Properties *)

DeviceMuids == UNION {{MuidsOf[d][n] : n \in DOMAIN MuidsOf[d]} : d \in Devices}

\* Scanning, synchronising to the periodic advertising, to the group, connected;
\* or doing so with an advertiser that is not the broadcaster.
Hosts == {"idle", "scan", "creating", "periodic", "big", "up", "foreign"}

\* The types; the muids that come out of the messages are muids of somebody.
TypeOK ==
  /\ central.muid = CentralMuid
  /\ \A i \in DOMAIN central.remote : central.remote[i].muid \in DeviceMuids
  /\ remoteMuid \in Seq(DeviceMuids) /\ discovered \in BOOLEAN
  /\ queued \in 0..MaxQueued
  /\ \A d \in Devices :
       /\ device[d].start \in DOMAIN MuidsOf[d]
       /\ device[d].block.muid = MuidsOf[d][device[d].start]
       /\ \A i \in DOMAIN device[d].block.remote : device[d].block.remote[i].muid = CentralMuid
       /\ sync[d] \in [found : BOOLEAN, lost : BOOLEAN, bigSynced : BOOLEAN,
                       host : Hosts]
  /\ \A r \in replies : r.dev \in Devices
  /\ missed \in 0..MaxMissed /\ troubled \in BOOLEAN

Listed(d) == \E i \in DOMAIN remoteMuid : remoteMuid[i] = device[d].block.muid
Restarted == \E d \in Devices : device[d].start > 1

\* The muids the devices have drawn so far.
Drawn == UNION {{MuidsOf[d][n] : n \in 1..device[d].start} : d \in Devices}

\* A device that is listed, and has not been restarted since, knows the block
\* that lists it (handle_midi_ci of both applications).
ListedKnowsSender ==
  \A d \in Devices : Listed(d) => HasRemote(device[d].block, central.muid)

\* remote_muid has one entry for each muid drawn at most, whatever number of
\* discovery messages and replies have gone by (handle_midi_ci of central_tx).  The
\* code has no other bound: with more muids than MAX_NUM_MUID, from more devices
\* or from restarts, the table overflows (main.c:187).
OneEntryPerMuid == Len(remoteMuid) <= Cardinality(Drawn)

\* MAX_NUM_MUID devices are all listed in the end, unless a reply or the
\* synchronisation was lost or another advertiser was found first, for then
\* nothing tries again, or a device restarted after the list was full.  Missed
\* discovery messages and scans that do not stop are made up for.
EveryoneDiscovered == <>(troubled \/ Restarted \/ (discovered /\ \A d \in Devices : Listed(d)))
=============================================================================
