------------------------- MODULE LanDiscoveryProofs -------------------------
(***************************************************************************)
(* Proofs about LanDiscovery, for any number of slots and any set of       *)
(* consoles.                                                               *)
(***************************************************************************)
EXTENDS LanDiscovery, FiniteSetTheorems, WellFoundedInduction, TLAPS

-----------------------------------------------------------------------------
(* The data. *)

\* A set of slots has at most StationCountMax elements: nodeCount is in range.
LEMMA SlotCount ==
    ASSUME NEW S \in SUBSET Slots
    PROVE  Cardinality(S) \in 0 .. StationCountMax
<1>1. IsFiniteSet(Slots) /\ Cardinality(Slots) = StationCountMax
  BY FS_Interval, ConstantsAssumption DEF Slots
<1>2. IsFiniteSet(S) /\ Cardinality(S) <= StationCountMax
  BY <1>1, FS_Subset
<1>3. Cardinality(S) \in Nat
  BY <1>2, FS_CardinalityType
<1> QED
  BY <1>2, <1>3, ConstantsAssumption

\* First picks a slot of the set it is given.
LEMMA FirstIsMember ==
    ASSUME NEW S \in SUBSET Slots, S # {}
    PROVE  First(S) \in S
<1>1. S \subseteq Nat
  BY ConstantsAssumption DEF Slots
<1>2. PICK k \in S : \A j \in S : <<j, k>> \notin OpToRel(<, Nat)
  BY <1>1, WFMin, NatLessThanWellFounded
<1>3. \A j \in S : ~(j < k)
  BY <1>1, <1>2 DEF OpToRel
<1>4. \A j \in S : k <= j
  BY <1>1, <1>3
<1> QED
  BY <1>4 DEF First

\* updateNodes yields a well-formed network.
LEMMA NodesReadType ==
    ASSUME NEW n \in NetworkInfo, NEW counted \in SUBSET Slots, NEW seen \in SUBSET Slots
    PROVE  NodesRead(n, counted, seen) \in NetworkInfo
<1>1. Cardinality(counted) + 1 \in 0 .. StationCountMax + 1
  BY SlotCount, ConstantsAssumption
<1>2. [k \in Nodes |-> IF k = 0 THEN n.conn[0] ELSE k \in seen] \in [Nodes -> BOOLEAN]
  <2>1. 0 \in Nodes
    BY ConstantsAssumption DEF Nodes
  <2>2. n.conn[0] \in BOOLEAN
    BY <2>1 DEF NetworkInfo
  <2>3. \A k \in Nodes : (k \in seen) \in BOOLEAN
    OBVIOUS
  <2>4. \A k \in Nodes : (IF k = 0 THEN n.conn[0] ELSE k \in seen) \in BOOLEAN
    BY <2>2, <2>3
  <2> QED
    BY <2>4
<1> QED
  BY <1>1, <1>2 DEF NodesRead, NetworkInfo

LEMMA UpdateNodesType ==
    ASSUME NEW n \in NetworkInfo, NEW s \in StationTable
    PROVE  UpdateNodes(n, s) \in NetworkInfo
<1>1. Members(s) \in SUBSET Slots
  BY DEF Members
<1> QED
  BY <1>1, NodesReadType DEF UpdateNodes

\* What is published are other consoles.
LEMMA PeersOfType ==
    ASSUME NEW n \in NetworkInfo
    PROVE  PeersOf(n) \in SUBSET Peers
<1> QED
  BY DEF PeersOf, NetworkInfo, Ips

\* The networks a host may send are well-formed.
LEMMA NetworksType ==
    ASSUME NEW h \in Peers, NEW info \in NetworksOf(h)
    PROVE  info \in NetworkInfo
<1>1. PICK slot \in [Slots -> {e \in [ip: Ips \ {h}, conn: BOOLEAN] :
                                 e.conn => e.ip # NoIp}] :
        info = [bssid |-> h,
                ip    |-> [k \in Nodes |-> IF k = 0 THEN h ELSE slot[k].ip],
                conn  |-> [k \in Nodes |-> IF k = 0 THEN TRUE ELSE slot[k].conn],
                count |-> Cardinality({k \in Slots : slot[k].conn}) + 1]
  BY DEF NetworksOf
<1>2. \A k \in Slots : slot[k].ip \in Ips /\ slot[k].conn \in BOOLEAN
  BY <1>1
<1>3. \A k \in Nodes : k = 0 \/ k \in Slots
  BY ConstantsAssumption DEF Nodes, Slots
<1>4. [k \in Nodes |-> IF k = 0 THEN h ELSE slot[k].ip] \in [Nodes -> Ips]
  BY <1>2, <1>3 DEF Ips
<1>5. [k \in Nodes |-> IF k = 0 THEN TRUE ELSE slot[k].conn] \in [Nodes -> BOOLEAN]
  BY <1>2, <1>3
<1>6. Cardinality({k \in Slots : slot[k].conn}) + 1 \in 0 .. StationCountMax + 1
  BY SlotCount, ConstantsAssumption
<1> QED
  BY <1>1, <1>4, <1>5, <1>6 DEF NetworkInfo, Ips

\* Every slot table the handlers write is well-formed.
LEMMA SlotTypes ==
    ASSUME TypeOK
    PROVE  /\ NoStations \in StationTable
           /\ \A gone : Drop(gone) \in StationTable
           /\ \A heard : [i \in Slots |-> IF i \in heard
                             THEN [st[i] EXCEPT !.silent = FALSE] ELSE st[i]] \in StationTable
           /\ \A i \in Slots :
                /\ [st EXCEPT ![i] = [FreeSlot EXCEPT !.status = "Connected"]] \in StationTable
                /\ [st EXCEPT ![i].silent = FALSE] \in StationTable
                /\ [st EXCEPT ![i].silent = TRUE] \in StationTable
                /\ [st EXCEPT ![i].status = "Connected"] \in StationTable
                /\ [st EXCEPT ![i] = [status |-> "Connect", tcp |-> TRUE,
                                      silent |-> FALSE]] \in StationTable
<1> DEFINE Slot == [status: {"Disconnected", "Connect", "Connected"},
                    tcp: BOOLEAN, silent: BOOLEAN]
<1>1. st \in [Slots -> Slot] /\ StationTable = [Slots -> Slot]
  BY DEF TypeOK, StationTable
<1>2. FreeSlot \in Slot
  BY DEF FreeSlot
<1>3. [FreeSlot EXCEPT !.status = "Connected"] \in Slot
  BY DEF FreeSlot
<1>4. \A e \in Slot : /\ [e EXCEPT !.silent = FALSE] \in Slot
                      /\ [e EXCEPT !.silent = TRUE] \in Slot
                      /\ [e EXCEPT !.status = "Connected"] \in Slot
  OBVIOUS
<1>5. [status |-> "Connect", tcp |-> TRUE, silent |-> FALSE] \in Slot
  OBVIOUS
<1> HIDE DEF Slot
<1>6. NoStations \in StationTable
  BY <1>1, <1>2 DEF NoStations
<1>7. \A gone : Drop(gone) \in StationTable
  BY <1>1, <1>2 DEF Drop
<1>8. \A i \in Slots, e \in Slot : [st EXCEPT ![i] = e] \in StationTable
  BY <1>1
<1>9. \A heard : [i \in Slots |-> IF i \in heard
                    THEN [st[i] EXCEPT !.silent = FALSE] ELSE st[i]] \in StationTable
  BY <1>1, <1>4
<1> QED
  BY <1>1, <1>3, <1>4, <1>5, <1>6, <1>7, <1>8, <1>9

\* What is published is well-formed.
LEMMA PublishType ==
    ASSUME TypeOK, NEW n \in NetworkInfo, Publish(n)
    PROVE  reg' \in Registry
<1>1. PeersOf(n) \in SUBSET Peers
  BY PeersOfType
<1>2. CASE reg' = [active |-> TRUE, peers |-> PeersOf(n)]
  BY <1>1, <1>2 DEF Registry
<1>3. CASE UNCHANGED reg
  BY <1>3 DEF TypeOK
<1> QED
  BY <1>2, <1>3 DEF Publish

\* Registering well-formed slots in a well-formed network keeps the types.
LEMMA RegisterType ==
    ASSUME TypeOK, NEW n \in NetworkInfo, NEW s \in StationTable, Register(s, n)
    PROVE  /\ st' \in StationTable /\ net' \in NetworkInfo
           /\ reg' \in Registry
<1>1. st' \in StationTable
  BY DEF Register
<1>2. net' \in NetworkInfo
  BY UpdateNodesType DEF Register
<1>3. reg' \in Registry
  BY <1>2, PublishType DEF Register
<1> QED
  BY <1>1, <1>2, <1>3

\* The same beside a thread that frees slots.
LEMMA RegisterBesideType ==
    ASSUME TypeOK, NEW n \in NetworkInfo, NEW stale \in SUBSET Slots,
           RegisterBeside(n, stale)
    PROVE  /\ st' = st /\ net' \in NetworkInfo
           /\ reg' \in Registry
<1>1. PICK counted \in SUBSET stale, seen \in SUBSET stale :
        net' = NodesRead(n, Members(st) \cup counted, Members(st) \cup seen)
  BY DEF RegisterBeside
<1>2. Members(st) \cup counted \in SUBSET Slots /\ Members(st) \cup seen \in SUBSET Slots
  BY DEF Members
<1>3. net' \in NetworkInfo
  BY <1>1, <1>2, NodesReadType
<1>4. reg' \in Registry
  BY <1>3, PublishType DEF RegisterBeside
<1> QED
  BY <1>3, <1>4 DEF RegisterBeside

LEMMA FreedTypes ==
    ASSUME TypeOK
    PROVE  FreedByWorker \in SUBSET Slots /\ FreedByCall \in SUBSET Slots
<1> QED
  BY DEF Listed, FreedByWorker, FreedByCall

\* Updates of the records keep their types.
LEMMA CallTypes ==
    ASSUME TypeOK
    PROVE  /\ \A c \in Calls, l \in CallPcs, h \in Ips :
                [call |-> c, pc |-> l, host |-> h, ret |-> "none"] \in CallState
           /\ \A l \in CallPcs : [ipc EXCEPT !.pc = l] \in CallState
           /\ \A r \in {"none", "ok", "failed"} :
                [ipc EXCEPT !.call = "none", !.pc = "idle", !.host = NoIp,
                            !.ret = r] \in CallState
           /\ ipc.host \in Ips
<1>1. "none" \in Calls /\ "idle" \in CallPcs /\ NoIp \in Ips
  BY DEF Calls, CallPcs, Ips
<1> QED
  BY <1>1 DEF TypeOK, CallState

LEMMA LifeTypes ==
    ASSUME TypeOK
    PROVE  \A b \in BOOLEAN :
             /\ [life EXCEPT !.init = b] \in LifeState
             /\ [life EXCEPT !.stop = b] \in LifeState
             /\ [life EXCEPT !.reinit = b] \in LifeState
             /\ [life EXCEPT !.reinit = FALSE, !.latch = b] \in LifeState
<1> QED
  BY DEF TypeOK, LifeState

LEMMA JoinTypes ==
    ASSUME TypeOK
    PROVE  /\ [join EXCEPT !.active = FALSE, !.joined = FALSE, !.await = FALSE] \in JoinState
           /\ \A h \in Ips : [join EXCEPT !.active = TRUE, !.bssid = h] \in JoinState
           /\ \A b \in BOOLEAN : /\ [join EXCEPT !.await = b] \in JoinState
                                 /\ [join EXCEPT !.joined = b] \in JoinState
<1> QED
  BY DEF TypeOK, JoinState

LEMMA WorkerTypes ==
    ASSUME TypeOK
    PROVE  /\ \A l \in WorkerPcs : [wk EXCEPT !.pc = l] \in WorkerState
           /\ \A l \in WorkerPcs, b \in BOOLEAN, r \in DisconnectReason :
                [wk EXCEPT !.pc = l, !.locked = b, !.why = r] \in WorkerState
           /\ \A l \in WorkerPcs, b \in BOOLEAN, g \in SUBSET Slots :
                [wk EXCEPT !.pc = l, !.locked = b, !.gone = g] \in WorkerState
           /\ wk.why \in DisconnectReason
<1> QED
  BY DEF TypeOK, WorkerState

LEMMA AfterUpdateType ==
    ASSUME TypeOK
    PROVE  AfterUpdate \in WorkerState
<1>1. (IF wk.locked THEN "poll" ELSE "beacon") \in WorkerPcs
  BY DEF WorkerPcs
<1> QED
  BY <1>1, WorkerTypes DEF AfterUpdate

LEMMA FreeType ==
    ASSUME TypeOK, NEW gone \in SUBSET Slots, Free(gone)
    PROVE  TypeOK'
<1>1. st' \in StationTable
  BY SlotTypes DEF Free
<1>2. (wk.pc = "poll") \in BOOLEAN /\ "update" \in WorkerPcs
  BY DEF WorkerPcs
<1>3. wk' \in WorkerState
  BY <1>2, WorkerTypes DEF Free
<1> QED
  BY <1>1, <1>3 DEF Free, TypeOK, sockets

\* What initialize() builds, or leaves behind when it fails.
LEMMA BuildTypes ==
    ASSUME TypeOK, NEW enabled \in BOOLEAN, Build(enabled) \/ BuildFails(enabled)
    PROVE  /\ state' \in CommState
           /\ st' \in StationTable
           /\ udp' \in {"none", "open", "closed"}
           /\ tcp' \in {"none", "closed", "listening", "connecting", "connected"}
           /\ relay' \in {"none", "open", "closed"}
           /\ tcpPeer' \in Ips
           /\ life' \in LifeState
           /\ wk' \in WorkerState
<1>1. CASE Build(enabled)
  BY <1>1, SlotTypes, LifeTypes, WorkerTypes DEF Build, CommState, TypeOK, WorkerPcs
<1>2. CASE BuildFails(enabled)
  BY <1>2, SlotTypes, LifeTypes DEF BuildFails, TypeOK
<1> QED
  BY <1>1, <1>2

LEMMA DisconnectTypes ==
    ASSUME TypeOK, NEW why \in DisconnectReason, DisconnectFromHost(why)
    PROVE  join' \in JoinState /\ wk' \in WorkerState
<1>1. CASE state = "StationConnected"
  <2>1. join' \in JoinState
    BY <1>1, JoinTypes DEF DisconnectFromHost
  <2>2. (wk.pc = "poll") \in BOOLEAN /\ "drop" \in WorkerPcs
    BY DEF WorkerPcs
  <2>3. wk' = [wk EXCEPT !.pc = "drop", !.locked = wk.pc = "poll", !.why = why]
    BY <1>1 DEF DisconnectFromHost
  <2>4. wk' \in WorkerState
    BY <2>2, <2>3, WorkerTypes
  <2> QED
    BY <2>1, <2>4
<1>2. CASE state # "StationConnected"
  BY <1>2 DEF DisconnectFromHost, TypeOK
<1> QED
  BY <1>1, <1>2

LEMMA AskTypes ==
    ASSUME TypeOK, AskWorkerToStop
    PROVE  reg' \in Registry /\ life' \in LifeState
<1> QED
  BY LifeTypes DEF AskWorkerToStop, ClearRegistry, Registry, TypeOK

\* A node whose address is written is well-formed.
LEMMA NodeIpType ==
    ASSUME TypeOK, NEW i \in Slots, NEW p \in Peers
    PROVE  [net EXCEPT !.ip[i] = p] \in NetworkInfo
<1> QED
  BY DEF TypeOK, NetworkInfo, Ips

-----------------------------------------------------------------------------
(* Type correctness: every operation keeps the types. *)

\* The game's calls.
LEMMA GameCallType ==
    ASSUME TypeOK, GameCall
    PROVE  TypeOK'
<1>1. CASE Initialize
  <2>1. PICK enabled \in RelaySettings :
          \/ Build(enabled) /\ Begin("Initialize", "started", NoIp)
          \/ BuildFails(enabled) /\ UNCHANGED ipc
    BY <1>1 DEF Initialize
  <2>2. enabled \in BOOLEAN
    BY ConstantsAssumption
  <2>3. ipc' \in CallState
    BY <2>1, CallTypes DEF Begin, Calls, CallPcs, Ips, TypeOK
  <2> QED
    BY <1>1, <2>1, <2>2, <2>3, BuildTypes DEF Initialize, TypeOK
<1>2. CASE Finalize
  BY <1>2, AskTypes, CallTypes DEF Finalize, Begin, AskWorkerToStop,
     ClearRegistry, Registry, Calls, CallPcs, TypeOK, sockets, Ips
<1>3. CASE OpenAccessPoint
  <2> SUFFICES ASSUME NEW enabled \in RelaySettings,
                      reason' = "None",
                      IF life.init /\ (enabled # life.latch \/ life.reinit)
                      THEN AskWorkerToStop /\ Begin("OpenAccessPoint", "join", NoIp)
                      ELSE Begin("OpenAccessPoint", "reset", NoIp) /\ UNCHANGED <<reg, life>>,
                      UNCHANGED <<state, net, st, join, hostSilent, sockets, wk>>
               PROVE  TypeOK'
    BY <1>3 DEF OpenAccessPoint, Open
  <2>1. reason' \in DisconnectReason
    BY DEF DisconnectReason
  <2>2. reg' \in Registry /\ life' \in LifeState
    BY AskTypes DEF TypeOK
  <2>3. ipc' \in CallState
    BY CallTypes DEF Begin, Calls, CallPcs, Ips
  <2> QED
    BY <2>1, <2>2, <2>3 DEF TypeOK, sockets
<1>4. CASE CloseAccessPoint
  BY <1>4, CallTypes DEF CloseAccessPoint, Close, Begin, ClearRegistry,
     Registry, Calls, CallPcs, TypeOK, sockets, Ips
<1>5. CASE OpenStation
  <2> SUFFICES ASSUME NEW enabled \in RelaySettings,
                      reason' = "None",
                      IF life.init /\ (enabled # life.latch \/ life.reinit)
                      THEN AskWorkerToStop /\ Begin("OpenStation", "join", NoIp)
                      ELSE Begin("OpenStation", "reset", NoIp) /\ UNCHANGED <<reg, life>>,
                      UNCHANGED <<state, net, st, join, hostSilent, sockets, wk>>
               PROVE  TypeOK'
    BY <1>5 DEF OpenStation, Open
  <2>1. reason' \in DisconnectReason
    BY DEF DisconnectReason
  <2>2. reg' \in Registry /\ life' \in LifeState
    BY AskTypes DEF TypeOK
  <2>3. ipc' \in CallState
    BY CallTypes DEF Begin, Calls, CallPcs, Ips
  <2> QED
    BY <2>1, <2>2, <2>3 DEF TypeOK, sockets
<1>6. CASE CloseStation
  BY <1>6, CallTypes DEF CloseStation, Close, Begin, ClearRegistry, Registry,
     Calls, CallPcs, TypeOK, sockets, Ips
<1>7. CASE CreateNetwork
  BY <1>7, CallTypes DEF CreateNetwork, Begin, CloseTcp, Calls, CallPcs,
     TypeOK, sockets, Ips
<1>8. CASE DestroyNetwork
  BY <1>8, CallTypes DEF DestroyNetwork, Close, Begin, ClearRegistry,
     Registry, Calls, CallPcs, TypeOK, sockets, Ips
<1>9. CASE SetAdvertiseData
  <2>1. net \in NetworkInfo /\ RegisterBeside(net, FreedByWorker)
    BY <1>9 DEF SetAdvertiseData, TypeOK
  <2>2. st' = st /\ net' \in NetworkInfo /\ reg' \in Registry
    BY <2>1, RegisterBesideType, FreedTypes
  <2> QED
    BY <1>9, <2>2 DEF SetAdvertiseData, TypeOK, sockets
<1>10. CASE Disconnect
  BY <1>10, CallTypes DEF Disconnect, Begin, ClearRegistry, Registry, Calls,
     CallPcs, TypeOK, sockets, Ips
<1>11. ASSUME NEW h \in Peers, Connect(h)
      PROVE  TypeOK'
  <2>1. h \in Ips /\ "target" \in CallPcs
    BY DEF CallPcs, Ips
  <2>2. ipc' \in CallState
    BY <1>11, <2>1, CallTypes DEF Connect, Begin, Calls
  <2> QED
    BY <1>11, <2>2 DEF Connect, TypeOK, sockets
<1> QED
  BY <1>1, <1>2, <1>3, <1>4, <1>5, <1>6, <1>7, <1>8, <1>9, <1>10, <1>11 DEF
     GameCall

\* The pieces of the calls.
LEMMA CallPieceType ==
    ASSUME TypeOK, CallPiece
    PROVE  TypeOK'
<1>1. CASE WorkerJoined
  BY <1>1, SlotTypes, CallTypes, LifeTypes, WorkerTypes DEF WorkerJoined,
     Return, Goto, CommState, CallPcs, TypeOK, sockets, Ips, WorkerPcs
<1>2. CASE Reopen
  <2>1. PICK enabled \in RelaySettings : \/ Build(enabled) /\ Goto("started")
                                         \/ BuildFails(enabled) /\ Return("none")
    BY <1>2 DEF Reopen
  <2>2. enabled \in BOOLEAN
    BY ConstantsAssumption
  <2>3. ipc' \in CallState
    BY <2>1, CallTypes DEF Goto, Return, CallPcs
  <2> QED
    BY <1>2, <2>1, <2>2, <2>3, BuildTypes DEF Reopen, TypeOK
<1>3. CASE ResetStations
  BY <1>3, SlotTypes, CallTypes DEF ResetStations, CloseTcp, Goto, CallPcs,
     TypeOK, sockets, Ips
<1>4. CASE CloseHostSocket
  BY <1>4, CallTypes DEF CloseHostSocket, CloseTcp, Goto, CallPcs, TypeOK,
     sockets, Ips
<1>5. CASE ForgetTarget
  BY <1>5, CallTypes, JoinTypes DEF ForgetTarget, Goto, CallPcs, TypeOK,
     sockets
<1>6. CASE SetState
  BY <1>6, CallTypes DEF SetState, Return, CommState, TypeOK, sockets
<1>7. CASE Announce
  <2> DEFINE blank == [net EXCEPT !.bssid = Self, !.conn = [k \in Nodes |-> FALSE]]
             own   == [blank EXCEPT !.ip[0] = Self, !.conn[0] = TRUE]
  <2>1. blank \in NetworkInfo
    BY DEF TypeOK, NetworkInfo, Ips
  <2>2. own \in NetworkInfo
    BY <2>1 DEF NetworkInfo, Ips
  <2>3. ipc' \in CallState
    BY <1>7, CallTypes DEF Announce, Return
  <2> HIDE DEF blank, own
  <2>4. CASE RegisterBeside(own, FreedByWorker) /\ state' = "AccessPointCreated"
    <3>1. st' = st /\ net' \in NetworkInfo /\ reg' \in Registry
      BY <2>2, <2>4, RegisterBesideType, FreedTypes
    <3> QED
      BY <1>7, <2>3, <2>4, <3>1 DEF Announce, TypeOK, CommState, sockets
  <2>5. CASE net' \in {net, blank} /\ UNCHANGED <<reg, state, st>>
    BY <1>7, <2>1, <2>3, <2>5 DEF Announce, TypeOK, sockets
  <2> QED
    BY <1>7, <2>4, <2>5 DEF Announce, blank, own
<1>8. CASE ArmRelayJoin
  BY <1>8, CallTypes, JoinTypes DEF ArmRelayJoin, Return, Goto, CallPcs,
     TypeOK, sockets
<1>9. CASE LookForSync
  BY <1>9, CallTypes DEF LookForSync, Goto, CallPcs, TypeOK, sockets
<1>10. CASE RelayJoined
  BY <1>10, CallTypes, JoinTypes DEF RelayJoined, Return, TypeOK, sockets
<1>11. CASE FallBackToTcp
  BY <1>11, CallTypes, JoinTypes DEF FallBackToTcp, Goto, CallPcs, TypeOK,
     sockets
<1>12. CASE Dial
  <2>1. CASE tcp' = "connecting" /\ tcpPeer' = ipc.host /\ Goto("dialing")
    BY <1>12, <2>1, CallTypes DEF Dial, Goto, CallPcs, TypeOK
  <2>2. CASE CloseTcp /\ Return("failed")
    BY <1>12, <2>2, CallTypes DEF Dial, CloseTcp, Return, Ips, TypeOK
  <2> QED
    BY <1>12, <2>1, <2>2 DEF Dial
<1>13. CASE Dialled
  BY <1>13, CallTypes DEF Dialled, Goto, Return, CallPcs, TypeOK, sockets
<1>14. CASE LookForTcpSync
  BY <1>14, CallTypes DEF LookForTcpSync, Goto, Return, CallPcs, TypeOK,
     sockets
<1>15. CASE AbortJoin
  BY <1>15, CallTypes DEF AbortJoin, Return, CloseTcp, TypeOK, sockets, Ips
<1>16. CASE SessionStarted
  BY <1>16, CallTypes, LifeTypes DEF SessionStarted, Return, Goto, CommState,
     CallPcs, TypeOK, sockets
<1>17. CASE RecordTarget
  <2>1. (IF relay = "none" THEN "dial" ELSE "arm") \in CallPcs
    BY DEF CallPcs
  <2>2. ipc' \in CallState /\ ipc.host \in Ips
    BY <1>17, <2>1, CallTypes DEF RecordTarget, Goto
  <2> QED
    BY <1>17, <2>2, JoinTypes DEF RecordTarget, TypeOK, sockets
<1> QED
  BY <1>1, <1>2, <1>3, <1>4, <1>5, <1>6, <1>7, <1>8, <1>9, <1>10, <1>11,
     <1>12, <1>13, <1>14, <1>15, <1>16, <1>17 DEF CallPiece

\* The worker's own steps.
LEMMA WorkerPieceType ==
    ASSUME TypeOK, WorkerPiece
    PROVE  TypeOK'
<1>1. CASE WorkerStarts
  BY <1>1, LifeTypes, WorkerTypes DEF WorkerStarts, TypeOK, sockets, WorkerPcs
<1>2. CASE WorkerLoop
  BY <1>2, WorkerTypes DEF WorkerLoop, WorkerAt, TypeOK, sockets, WorkerPcs
<1>3. CASE PollDone
  BY <1>3, WorkerTypes DEF PollDone, WorkerAt, TypeOK, sockets, WorkerPcs
<1>4. CASE BeaconDone
  BY <1>4, WorkerTypes DEF BeaconDone, WorkerAt, TypeOK, sockets, WorkerPcs
<1>5. CASE Dropped
  <2>1. (IF wk.locked THEN "poll" ELSE "beacon") \in WorkerPcs /\ "None" \in DisconnectReason
    BY DEF WorkerPcs, DisconnectReason
  <2>2. wk' \in WorkerState /\ reason' \in DisconnectReason
    BY <1>5, <2>1, WorkerTypes DEF Dropped
  <2> QED
    BY <1>5, <2>2 DEF Dropped, CommState, TypeOK, sockets
<1>6. CASE SyncedState
  <2>1. reg' \in Registry
    BY <1>6, PublishType DEF SyncedState, TypeOK
  <2> QED
    BY <1>6, <2>1, WorkerTypes DEF SyncedState, TypeOK, CommState, sockets, WorkerPcs
<1>7. CASE NodesUpdated
  <2>1. net \in NetworkInfo /\ RegisterBeside(net, FreedByCall)
    BY <1>7 DEF NodesUpdated, TypeOK
  <2>2. st' = st /\ net' \in NetworkInfo /\ reg' \in Registry
    BY <2>1, RegisterBesideType, FreedTypes
  <2> QED
    BY <1>7, <2>2, AfterUpdateType DEF NodesUpdated, TypeOK, sockets
<1> QED
  BY <1>1, <1>2, <1>3, <1>4, <1>5, <1>6, <1>7 DEF WorkerPiece

\* The handlers of a host.
LEMMA HostEventType ==
    ASSUME TypeOK, HostEvent
    PROVE  TypeOK'
<1>1. ASSUME NEW p \in Peers, RelayConnect(p)
      PROVE  TypeOK'
  <2> DEFINE same == {i \in Slots : st[i].status # "Disconnected" /\ net.ip[i] = p}
             free == {i \in Slots : st[i].status = "Disconnected"}
  <2>1. CASE same # {}
    <3>1. First(same) \in Slots
      BY <2>1, FirstIsMember
    <3>2. Register([st EXCEPT ![First(same)].silent = FALSE], net)
      BY <1>1, <2>1 DEF RelayConnect
    <3>3. /\ st' \in StationTable /\ net' \in NetworkInfo /\ reg' \in Registry
      BY <3>1, <3>2, SlotTypes, RegisterType DEF TypeOK
    <3> QED
      BY <1>1, <3>3 DEF RelayConnect, TypeOK, sockets
  <2>2. CASE same = {}
    <3>1. /\ free # {}
          /\ Register([st EXCEPT ![First(free)] = [FreeSlot EXCEPT !.status = "Connected"]],
                      [net EXCEPT !.ip[First(free)] = p])
      BY <1>1, <2>2 DEF RelayConnect
    <3>2. First(free) \in Slots
      BY <3>1, FirstIsMember
    <3>3. [net EXCEPT !.ip[First(free)] = p] \in NetworkInfo
      BY <3>2, NodeIpType DEF TypeOK
    <3>4. /\ st' \in StationTable /\ net' \in NetworkInfo /\ reg' \in Registry
      BY <3>1, <3>2, <3>3, SlotTypes, RegisterType
    <3> QED
      BY <1>1, <3>4 DEF RelayConnect, TypeOK, sockets
  <2> QED
    BY <2>1, <2>2
<1>2. ASSUME NEW p \in Peers, Heartbeat(p)
      PROVE  TypeOK'
  <2>1. st' \in StationTable
    BY <1>2, SlotTypes DEF Heartbeat
  <2> QED
    BY <1>2, <2>1 DEF Heartbeat, TypeOK, sockets
<1>3. ASSUME NEW p \in Peers, StationBye(p)
      PROVE  TypeOK'
  <2>1. st' \in StationTable /\ net' \in NetworkInfo /\ reg' \in Registry
    BY <1>3, SlotTypes, RegisterType DEF StationBye, TypeOK
  <2> QED
    BY <1>3, <2>1 DEF StationBye, TypeOK, sockets
<1>4. CASE Reap
  BY <1>4, FreeType DEF Reap
<1>5. CASE Accept
  <2> DEFINE free == {i \in Slots : st[i].status = "Disconnected"}
  <2>1. First(free) \in Slots
    BY <1>5, FirstIsMember DEF Accept
  <2>2. st' \in StationTable
    BY <1>5, <2>1, SlotTypes DEF Accept
  <2> QED
    BY <1>5, <2>2 DEF Accept, TypeOK, sockets
<1>6. ASSUME NEW i \in Slots, StationClosed(i)
      PROVE  TypeOK'
  BY <1>6, FreeType DEF StationClosed
<1>7. ASSUME NEW i \in Slots, NEW p \in Peers, StationConnect(i, p)
      PROVE  TypeOK'
  <2>1. st' \in StationTable /\ net' \in NetworkInfo /\ reg' \in Registry
    BY <1>7, SlotTypes, RegisterType, NodeIpType DEF StationConnect, TypeOK
  <2> QED
    BY <1>7, <2>1 DEF StationConnect, TypeOK, sockets
<1> QED
  BY <1>1, <1>2, <1>3, <1>4, <1>5, <1>6, <1>7 DEF HostEvent

\* A network whose host's bssid is known stays well-formed through a sync.
LEMMA SyncType ==
    ASSUME TypeOK, NEW h \in Peers, NEW info \in NetworksOf(h), SyncNetwork(info),
           join' \in JoinState
    PROVE  TypeOK'
<1>1. net' \in NetworkInfo
  BY NetworksType DEF SyncNetwork
<1>2. reg' \in Registry
  <2>1. Publish(info) \/ UNCHANGED reg
    BY DEF SyncNetwork
  <2> QED
    BY <2>1, NetworksType, PublishType DEF TypeOK
<1>3. wk' \in WorkerState
  BY WorkerTypes DEF SyncNetwork, TypeOK, WorkerPcs
<1> QED
  BY <1>1, <1>2, <1>3 DEF SyncNetwork, TypeOK, sockets

\* The handlers of a station.
LEMMA StationEventType ==
    ASSUME TypeOK, StationEvent
    PROVE  TypeOK'
<1>1. ASSUME NEW h \in Peers, HostBeacon(h)
      PROVE  TypeOK'
  BY <1>1 DEF HostBeacon, TypeOK, sockets
<1>2. ASSUME NEW h \in Peers, HostBye(h)
      PROVE  TypeOK'
  <2>1. join' \in JoinState /\ wk' \in WorkerState
    BY <1>2, DisconnectTypes DEF HostBye, DisconnectReason
  <2> QED
    BY <1>2, <2>1 DEF HostBye, TypeOK, sockets
<1>3. ASSUME NEW h \in Peers, NEW info \in NetworksOf(h), RelaySync(info)
      PROVE  TypeOK'
  <2>1. join' \in JoinState
    BY <1>3 DEF RelaySync, TypeOK
  <2> QED
    BY <1>3, <2>1, SyncType DEF RelaySync
<1>4. ASSUME NEW h \in Peers, NEW info \in NetworksOf(h), TcpSync(info)
      PROVE  TypeOK'
  <2>1. join' \in JoinState
    BY <1>4 DEF TcpSync, TypeOK
  <2> QED
    BY <1>4, <2>1, SyncType DEF TcpSync
<1>5. CASE TcpClosed
  <2>1. PICK why \in {"DestroyedByUser", "SignalLost"} : DisconnectFromHost(why)
    BY <1>5 DEF TcpClosed
  <2>2. join' \in JoinState /\ wk' \in WorkerState
    BY <2>1, DisconnectTypes DEF DisconnectReason
  <2> QED
    BY <1>5, <2>2 DEF TcpClosed, TypeOK, sockets
<1>6. CASE HostLost
  <2>1. join' \in JoinState /\ wk' \in WorkerState
    BY <1>6, DisconnectTypes DEF HostLost, DisconnectReason
  <2> QED
    BY <1>6, <2>1 DEF HostLost, TypeOK, sockets
<1> QED
  BY <1>1, <1>2, <1>3, <1>4, <1>5, <1>6 DEF StationEvent

\* The sockets.
LEMMA SocketEventType ==
    ASSUME TypeOK, SocketEvent
    PROVE  TypeOK'
<1>1. CASE UdpClosed
  BY <1>1, LifeTypes DEF UdpClosed, CommState, DisconnectReason, TypeOK,
     sockets
<1>2. CASE RelayClosed
  BY <1>2, LifeTypes DEF RelayClosed, TypeOK, sockets
<1>3. CASE RelayReopened
  BY <1>3 DEF RelayReopened, TypeOK, sockets
<1>4. CASE PollFails
  BY <1>4, WorkerTypes DEF PollFails, WorkerAt, TypeOK, sockets, WorkerPcs
<1> QED
  BY <1>1, <1>2, <1>3, <1>4 DEF SocketEvent

\* The clock.
LEMMA TimeType ==
    ASSUME TypeOK, Time
    PROVE  TypeOK'
<1>1. CASE HostGoesSilent
  BY <1>1 DEF HostGoesSilent, TypeOK, sockets
<1>2. ASSUME NEW i \in Slots, StationGoesSilent(i)
      PROVE  TypeOK'
  <2>1. st' \in StationTable
    BY <1>2, SlotTypes DEF StationGoesSilent
  <2> QED
    BY <1>2, <2>1 DEF StationGoesSilent, TypeOK, sockets
<1> QED
  BY <1>1, <1>2 DEF Time

LEMMA TypeCorrectInit == Init => TypeOK
<1> SUFFICES ASSUME Init PROVE TypeOK
  OBVIOUS
<1>1. net \in NetworkInfo
  BY ConstantsAssumption DEF Init, NetworkInfo, Ips
<1>2. st \in StationTable
  BY DEF Init, NoStations, FreeSlot, StationTable
<1>3. join \in JoinState /\ reg \in Registry /\ life \in LifeState
  BY DEF Init, JoinState, Registry, LifeState, Ips
<1>4. wk \in WorkerState /\ ipc \in CallState
  BY DEF Init, WorkerState, WorkerPcs, DisconnectReason, CallState, Calls, CallPcs, Ips
<1> QED
  BY <1>1, <1>2, <1>3, <1>4 DEF Init, TypeOK, CommState, DisconnectReason, Ips

LEMMA TypeCorrectNext == TypeOK /\ [Next]_vars => TypeOK'
<1> SUFFICES ASSUME TypeOK, [Next]_vars PROVE TypeOK'
  OBVIOUS
<1>1. CASE GameCall
  BY <1>1, GameCallType
<1>2. CASE CallPiece
  BY <1>2, CallPieceType
<1>3. CASE WorkerPiece
  BY <1>3, WorkerPieceType
<1>4. CASE HostEvent
  BY <1>4, HostEventType
<1>5. CASE StationEvent
  BY <1>5, StationEventType
<1>6. CASE SocketEvent
  BY <1>6, SocketEventType
<1>7. CASE Time
  BY <1>7, TimeType
<1>8. CASE UNCHANGED vars
  BY <1>8 DEF vars, sockets, TypeOK
<1> QED
  BY <1>1, <1>2, <1>3, <1>4, <1>5, <1>6, <1>7, <1>8 DEF Next

\* Every state of the program is well-typed: among other things nodeCount stays in
\* range and the worker, the call and the sockets are always at a known point.
THEOREM TypeCorrect == Spec => []TypeOK
<1> QED
  BY TypeCorrectInit, TypeCorrectNext, PTL DEF Spec

-----------------------------------------------------------------------------
(***************************************************************************)
(* The session of one console: the safety invariants.  None of them is     *)
(* inductive: each needs to know which call may be in progress at each     *)
(* point, and what that call has already done.                             *)
(***************************************************************************)
(* The inductive invariant, in named parts. *)

\* Where the IPC thread is tells which call it runs.
CallAt ==
    /\ ipc.pc = "idle" <=> ipc.call = "none"
    /\ ipc.pc = "started" => ipc.call \in {"Initialize", "OpenAccessPoint", "OpenStation"}
    /\ ipc.pc = "join" => ipc.call \in {"Finalize", "OpenAccessPoint", "OpenStation"}
    /\ ipc.pc = "reopen" => ipc.call \in {"OpenAccessPoint", "OpenStation"}
    /\ ipc.pc \in {"reset", "set"} =>
          ipc.call \in {"OpenAccessPoint", "CloseAccessPoint", "OpenStation",
                        "CloseStation", "DestroyNetwork", "Disconnect"}
    /\ ipc.pc = "closeTcp" => ipc.call = "Disconnect"
    /\ ipc.pc = "forget" => ipc.call \in {"OpenStation", "Disconnect"}
    /\ ipc.pc = "create" => ipc.call = "CreateNetwork"
    /\ ipc.pc \in {"target", "arm", "wait", "armed", "fallback", "dial", "dialing",
                   "sync", "abort"} => ipc.call = "Connect"

\* A session is being built only where there is none, and used only where there is
\* one; before it is marked as initialized its worker polls nothing.
SessionInCall ==
    /\ ipc.pc \notin {"idle", "started", "reopen"} => life.init
    /\ ipc.pc \in {"started", "reopen"} => ~life.init
    /\ ~life.init => state = "None" /\ wk.pc \notin {"poll", "drop", "flip", "update"}

\* A sync is on its way to setState only while its target is held: it holds dataMutex.
FlipHasTarget == wk.pc = "flip" => join.active /\ net.bssid = join.bssid

\* A host's network is up only between calls and in those that end it.
HostInCall ==
    state = "AccessPointCreated" =>
        ipc.call \in {"none", "Finalize", "DestroyNetwork", "CloseAccessPoint"}

OverRelay(s) == {i \in Slots : s[i].status = "Connected" /\ ~s[i].tcp}

ActsAsStation ==
    \/ state \in {"Station", "StationConnected"}
    \/ wk.pc \in {"drop", "flip"}
    \/ ipc.call = "Disconnect"
    \/ ipc.call = "OpenStation" /\ ipc.pc \in {"forget", "set"}

\* Freed slots wait for updateNodes only while the worker is on its way to it.
GoneInv == wk.pc # "update" => wk.gone = {}

\* A console that is a station, or about to become one, has no stations of its own.
StationHasNoStations == ActsAsStation => OverRelay(st) = {}

\* What a session is, and what it owns.
SessionInv == CallAt /\ SessionInCall /\ SessionWholeOrGone /\ DeadSocketIsMarked

\* What a station is, ...
TargetInv == FlipHasTarget /\ ConnectedOnlyWithTarget

\* ... and what a host is.
HostInv == /\ HostInCall /\ HostTableMatchesSlots
           /\ StationHasNoStations /\ OneRelaySlotPerConsole

LanInv == TypeOK /\ SessionInv /\ TargetInv /\ GoneInv /\ HostInv

-----------------------------------------------------------------------------
(* The session: which call runs, and what it has built. *)

\* initialize() keeps the session whole: it runs only where there is none.
LEMMA BuildSession ==
    ASSUME TypeOK, SessionInv, NEW enabled \in BOOLEAN,
           ~life.init, wk.pc = "off", udp = "none", state = "None"
    PROVE  /\ Build(enabled) =>
                 /\ wk'.pc = "starting" /\ udp' = "open" /\ state' = "None"
                 /\ ~life'.init /\ tcp' = "none" /\ st' = NoStations
           /\ BuildFails(enabled) =>
                 /\ wk'.pc = "off" /\ udp' = "none" /\ state' = "None"
                 /\ ~life'.init /\ tcp' = "none" /\ st' = NoStations
<1>1. life \in LifeState /\ wk \in WorkerState
  BY DEF TypeOK
<1>2. tcp = "none" /\ st = NoStations
  BY DEF SessionInv, SessionWholeOrGone
<1>3. ~[life EXCEPT !.reinit = FALSE, !.latch = enabled].init
  BY <1>1 DEF LifeState
<1>4. [wk EXCEPT !.pc = "starting"].pc = "starting"
  BY <1>1 DEF WorkerState
<1>5. Build(enabled) =>
         /\ wk'.pc = "starting" /\ udp' = "open" /\ state' = "None"
         /\ ~life'.init /\ tcp' = "none" /\ st' = NoStations
  BY <1>2, <1>3, <1>4 DEF Build
<1>6. BuildFails(enabled) =>
         /\ wk'.pc = "off" /\ udp' = "none" /\ state' = "None"
         /\ ~life'.init /\ tcp' = "none" /\ st' = NoStations
  BY <1>2, <1>3 DEF BuildFails
<1> QED
  BY <1>5, <1>6

\* The parts of SessionInv after a step, from the few variables they speak of.
LEMMA GameCallSession ==
    ASSUME TypeOK, SessionInv, GameCall
    PROVE  SessionInv'
<1> USE DEF SessionInv, CallAt, SessionInCall, SessionWholeOrGone, DeadSocketIsMarked
<1>1. life \in LifeState /\ [life EXCEPT !.stop = TRUE].init = life.init
                         /\ [life EXCEPT !.stop = TRUE].reinit = life.reinit
  BY DEF TypeOK, LifeState
<1>2. CASE Initialize
  <2>1. PICK enabled \in RelaySettings :
          \/ Build(enabled) /\ Begin("Initialize", "started", NoIp)
          \/ BuildFails(enabled) /\ UNCHANGED ipc
    BY <1>2 DEF Initialize
  <2>2. enabled \in BOOLEAN
    BY ConstantsAssumption
  <2>3. ~life.init /\ ipc.pc = "idle" /\ wk.pc = "off" /\ udp = "none" /\ state = "None"
    BY <1>2 DEF Initialize, GameMay
  <2>4. CASE Build(enabled) /\ Begin("Initialize", "started", NoIp)
    BY <2>2, <2>3, <2>4, BuildSession DEF Begin
  <2>5. CASE BuildFails(enabled) /\ UNCHANGED ipc
    BY <2>2, <2>3, <2>5, BuildSession
  <2> QED
    BY <2>1, <2>4, <2>5
<1>3. CASE Finalize
  BY <1>1, <1>3 DEF Finalize, GameMay, Begin, AskWorkerToStop, sockets
<1>4. ASSUME NEW call \in {"OpenAccessPoint", "OpenStation"}, Open(call)
      PROVE  SessionInv'
  <2>1. ipc.pc = "idle" /\ state \in {"Initialized", "Error"}
    BY <1>4 DEF Open, GameMay
  <2>2. life.init
    BY <2>1
  <2>3. PICK enabled \in RelaySettings :
          IF life.init /\ (enabled # life.latch \/ life.reinit)
          THEN AskWorkerToStop /\ Begin(call, "join", NoIp)
          ELSE Begin(call, "reset", NoIp) /\ UNCHANGED <<reg, life>>
    BY <1>4 DEF Open
  <2>4. life'.init = life.init /\ life'.reinit = life.reinit
    BY <1>1, <2>3 DEF AskWorkerToStop
  <2>5. ipc'.call = call /\ ipc'.pc \in {"join", "reset"}
    BY <2>3 DEF Begin
  <2>6. UNCHANGED <<state, st, udp, tcp, wk>>
    BY <1>4 DEF Open, sockets
  <2> QED
    BY <2>1, <2>2, <2>4, <2>5, <2>6
<1>5. ASSUME NEW call \in {"CloseAccessPoint", "CloseStation", "DestroyNetwork"},
             NEW states \in SUBSET (CommState \ {"None"}), Close(call, states)
      PROVE  SessionInv'
  BY <1>5 DEF Close, GameMay, Begin, sockets
<1>6. CASE OpenAccessPoint \/ OpenStation
  BY <1>4, <1>6 DEF OpenAccessPoint, OpenStation
<1>7. CASE CloseAccessPoint \/ CloseStation \/ DestroyNetwork
  BY <1>5, <1>7 DEF CloseAccessPoint, CloseStation, DestroyNetwork, CommState
<1>8. CASE CreateNetwork
  BY <1>8 DEF CreateNetwork, GameMay, Begin, CloseTcp
<1>9. CASE SetAdvertiseData
  BY <1>9 DEF SetAdvertiseData, GameMay, RegisterBeside, sockets
<1>10. CASE Disconnect
  BY <1>10 DEF Disconnect, GameMay, Begin, sockets
<1>11. ASSUME NEW h \in Peers, Connect(h)
       PROVE  SessionInv'
  BY <1>11 DEF Connect, GameMay, Begin, sockets
<1> QED
  BY <1>2, <1>3, <1>6, <1>7, <1>8, <1>9, <1>10, <1>11 DEF GameCall

\* The record updates by which a call moves on.
LEMMA CallMoves ==
    ASSUME TypeOK
    PROVE  /\ \A l \in CallPcs : Goto(l) => ipc'.pc = l /\ ipc'.call = ipc.call
           /\ \A r \in {"none", "ok", "failed"} :
                 Return(r) => ipc'.pc = "idle" /\ ipc'.call = "none"
<1> QED
  BY DEF TypeOK, CallState, Goto, Return

\* The worker and life records, field by field.
LEMMA RecordMoves ==
    ASSUME TypeOK
    PROVE  /\ \A l : /\ [wk EXCEPT !.pc = l].pc = l
                     /\ [wk EXCEPT !.pc = l].locked = wk.locked
                     /\ [wk EXCEPT !.pc = l].gone = wk.gone
           /\ \A l, b, r : /\ [wk EXCEPT !.pc = l, !.locked = b, !.why = r].pc = l
                           /\ [wk EXCEPT !.pc = l, !.locked = b, !.why = r].gone = wk.gone
           /\ \A l, b, g : /\ [wk EXCEPT !.pc = l, !.locked = b, !.gone = g].pc = l
                           /\ [wk EXCEPT !.pc = l, !.locked = b, !.gone = g].gone = g
           /\ AfterUpdate.pc \in {"poll", "beacon"} /\ AfterUpdate.gone = {}
           /\ [life EXCEPT !.init = TRUE].init /\ [life EXCEPT !.init = TRUE].reinit = life.reinit
           /\ ~[life EXCEPT !.init = FALSE].init
           /\ [life EXCEPT !.stop = FALSE].init = life.init
           /\ [life EXCEPT !.stop = FALSE].reinit = life.reinit
           /\ [life EXCEPT !.reinit = TRUE].init = life.init
           /\ [life EXCEPT !.reinit = TRUE].reinit
<1> QED
  BY DEF TypeOK, WorkerState, LifeState, AfterUpdate

LEMMA CallPieceSession ==
    ASSUME TypeOK, SessionInv, CallPiece
    PROVE  SessionInv'
<1> USE DEF SessionInv, CallAt, SessionInCall, SessionWholeOrGone, DeadSocketIsMarked
<1>1. CASE SessionStarted
  <2>1. life'.init /\ life'.reinit = life.reinit /\ state' = "Initialized"
        /\ UNCHANGED <<st, udp, tcp, wk>>
    BY <1>1, RecordMoves DEF SessionStarted, sockets
  <2>2. CASE Return("none")
    BY <1>1, <2>1, <2>2, CallMoves DEF SessionStarted
  <2>3. CASE ipc.call # "Initialize" /\ Goto("reset")
    BY <1>1, <2>1, <2>3, CallMoves DEF SessionStarted, CallPcs
  <2> QED
    BY <1>1, <2>2, <2>3 DEF SessionStarted
<1>2. CASE WorkerJoined
  <2>1. /\ ~life'.init /\ wk'.pc = "off" /\ udp' = "none" /\ tcp' = "none"
        /\ st' = NoStations /\ state' = "None"
    BY <1>2, RecordMoves DEF WorkerJoined
  <2>2. CASE Return("none")
    BY <2>1, <2>2, CallMoves
  <2>3. CASE ipc.call # "Finalize" /\ Goto("reopen")
    BY <1>2, <2>1, <2>3, CallMoves DEF WorkerJoined, CallPcs
  <2> QED
    BY <1>2, <2>2, <2>3 DEF WorkerJoined
<1>3. CASE Reopen
  <2>1. PICK enabled \in RelaySettings : \/ Build(enabled) /\ Goto("started")
                                         \/ BuildFails(enabled) /\ Return("none")
    BY <1>3 DEF Reopen
  <2>2. enabled \in BOOLEAN
    BY ConstantsAssumption
  <2>3. ~life.init /\ ipc.pc = "reopen" /\ wk.pc = "off" /\ udp = "none" /\ state = "None"
    BY <1>3 DEF Reopen
  <2>4. CASE Build(enabled) /\ Goto("started")
    BY <2>2, <2>3, <2>4, BuildSession, CallMoves DEF CallPcs
  <2>5. CASE BuildFails(enabled) /\ Return("none")
    BY <2>2, <2>3, <2>5, BuildSession, CallMoves
  <2> QED
    BY <2>1, <2>4, <2>5
<1>4. CASE ResetStations
  <2>1. (IF ipc.call = "OpenStation" THEN "forget" ELSE "set") \in CallPcs
    BY DEF CallPcs
  <2>2. /\ ipc'.call = ipc.call
        /\ ipc'.pc = (IF ipc.call = "OpenStation" THEN "forget" ELSE "set")
    BY <1>4, <2>1, CallMoves DEF ResetStations
  <2> QED
    BY <1>4, <2>2 DEF ResetStations
<1>5. CASE CloseHostSocket
  BY <1>5, CallMoves DEF CloseHostSocket, CallPcs
<1>6. CASE ForgetTarget
  BY <1>6, CallMoves DEF ForgetTarget, CallPcs, sockets
<1>7. CASE SetState
  <2>1. state' \in {"AccessPoint", "Station", "Initialized"}
    BY <1>7 DEF SetState
  <2> QED
    BY <1>7, <2>1, CallMoves DEF SetState, sockets
<1>8. CASE Announce
  <2>1. state' \in {"AccessPointCreated", state} /\ st' = st
    BY <1>8 DEF Announce, RegisterBeside
  <2> QED
    BY <1>8, <2>1, CallMoves DEF Announce, sockets
<1>9. CASE ArmRelayJoin
  BY <1>9, CallMoves DEF ArmRelayJoin, CallPcs, sockets
<1>10. CASE LookForSync
  <2>1. ipc'.call = ipc.call /\ ipc'.pc \in {"armed", "fallback"}
    BY <1>10, CallMoves DEF LookForSync, CallPcs
  <2> QED
    BY <1>10, <2>1 DEF LookForSync, sockets
<1>11. CASE RelayJoined
  BY <1>11, CallMoves DEF RelayJoined, sockets
<1>12. CASE FallBackToTcp
  BY <1>12, CallMoves DEF FallBackToTcp, CallPcs, sockets
<1>13. CASE Dial
  BY <1>13, CallMoves DEF Dial, CallPcs
<1>14. CASE Dialled
  BY <1>14, CallMoves DEF Dialled, CallPcs
<1>15. CASE LookForTcpSync
  BY <1>15, CallMoves DEF LookForTcpSync, CallPcs, sockets
<1>16. CASE AbortJoin
  BY <1>16, CallMoves DEF AbortJoin
<1>17. CASE RecordTarget
  <2>1. ipc'.call = ipc.call /\ ipc'.pc \in {"dial", "arm"}
    BY <1>17, CallMoves DEF RecordTarget, CallPcs
  <2> QED
    BY <1>17, <2>1 DEF RecordTarget, sockets
<1> QED
  BY <1>1, <1>2, <1>3, <1>4, <1>5, <1>6, <1>7, <1>8, <1>9, <1>10, <1>11, <1>12,
     <1>13, <1>14, <1>15, <1>16, <1>17 DEF CallPiece

\* What the worker does of itself.
LEMMA WorkerPieceSession ==
    ASSUME TypeOK, SessionInv, WorkerPiece
    PROVE  SessionInv'
<1> USE DEF SessionInv, CallAt, SessionInCall, SessionWholeOrGone, DeadSocketIsMarked
<1>1. CASE WorkerStarts
  BY <1>1, RecordMoves DEF WorkerStarts, sockets
<1>2. CASE WorkerLoop
  <2>1. /\ wk'.pc \in {"exited", "poll", "beacon"}
        /\ wk'.pc = "poll" => life.init
    BY <1>2, RecordMoves DEF WorkerLoop, WorkerAt
  <2> QED
    BY <1>2, <2>1 DEF WorkerLoop, WorkerAt, sockets
<1>3. CASE PollDone
  BY <1>3, RecordMoves DEF PollDone, WorkerAt, sockets
<1>4. CASE BeaconDone
  BY <1>4, RecordMoves DEF BeaconDone, WorkerAt, sockets
<1>5. CASE Dropped
  <2>1. wk'.pc \in {"poll", "beacon"} /\ state' = "Station"
    BY <1>5, RecordMoves DEF Dropped
  <2> QED
    BY <1>5, <2>1 DEF Dropped, sockets
<1>6. CASE SyncedState
  BY <1>6, RecordMoves DEF SyncedState, sockets
<1>7. CASE NodesUpdated
  <2>1. wk'.pc \in {"poll", "beacon"} /\ st' = st
    BY <1>7, RecordMoves DEF NodesUpdated, RegisterBeside
  <2> QED
    BY <1>7, <2>1 DEF NodesUpdated, sockets
<1> QED
  BY <1>1, <1>2, <1>3, <1>4, <1>5, <1>6, <1>7 DEF WorkerPiece

\* Only a session that is initialized has the slots a host fills.
LEMMA SlotsNeedSession ==
    ASSUME SessionInv
    PROVE  /\ state = "AccessPointCreated" => life.init
           /\ \A i \in Slots : st[i].tcp \/ st[i].status = "Connected" => life.init
<1>1. \A i \in Slots : ~NoStations[i].tcp /\ NoStations[i].status = "Disconnected"
  BY DEF NoStations, FreeSlot
<1> QED
  BY <1>1 DEF SessionInv, SessionInCall, SessionWholeOrGone

\* A host's handlers touch the slots alone, and only of a session that is whole.
LEMMA SlotStepSession ==
    ASSUME SessionInv, life.init,
           UNCHANGED <<state, udp, life, wk, ipc>>
    PROVE  SessionInv'
<1> QED
  BY DEF SessionInv, CallAt, SessionInCall, SessionWholeOrGone, DeadSocketIsMarked

\* A handler moves the worker on, and only in a session that is whole.
LEMMA WorkerStepSession ==
    ASSUME SessionInv, life.init, wk.pc # "off", wk'.pc # "off",
           UNCHANGED <<state, udp, life, ipc>>
    PROVE  SessionInv'
<1> QED
  BY DEF SessionInv, CallAt, SessionInCall, SessionWholeOrGone, DeadSocketIsMarked

LEMMA FreeSession ==
    ASSUME TypeOK, SessionInv, life.init, wk.pc # "off", NEW gone, Free(gone)
    PROVE  SessionInv'
<1>1. wk'.pc = "update"
  BY RecordMoves DEF Free
<1> QED
  BY <1>1, WorkerStepSession DEF Free, sockets

LEMMA HostEventSession ==
    ASSUME TypeOK, SessionInv, HostEvent
    PROVE  SessionInv'
<1>1. ASSUME NEW p \in Peers, RelayConnect(p)
      PROVE  SessionInv'
  BY <1>1, SlotsNeedSession, SlotStepSession DEF RelayConnect, sockets
<1>2. ASSUME NEW p \in Peers, Heartbeat(p)
      PROVE  SessionInv'
  BY <1>2, SlotsNeedSession, SlotStepSession DEF Heartbeat, sockets
<1>3. ASSUME NEW p \in Peers, StationBye(p)
      PROVE  SessionInv'
  BY <1>3, SlotsNeedSession, SlotStepSession DEF StationBye, sockets
<1>4. CASE Reap
  BY <1>4, SlotsNeedSession, FreeSession DEF Reap
<1>5. CASE Accept
  BY <1>5, SlotsNeedSession, SlotStepSession DEF Accept, sockets
<1>6. ASSUME NEW i \in Slots, StationClosed(i)
      PROVE  SessionInv'
  BY <1>6, SlotsNeedSession, FreeSession DEF StationClosed, Handler
<1>7. ASSUME NEW i \in Slots, NEW p \in Peers, StationConnect(i, p)
      PROVE  SessionInv'
  BY <1>7, SlotsNeedSession, SlotStepSession DEF StationConnect, sockets
<1> QED
  BY <1>1, <1>2, <1>3, <1>4, <1>5, <1>6, <1>7 DEF HostEvent

LEMMA DisconnectSession ==
    ASSUME TypeOK, SessionInv, wk.pc # "off", NEW why, DisconnectFromHost(why),
           UNCHANGED <<state, st, udp, life, ipc>>,
           tcp' = tcp \/ life.init
    PROVE  SessionInv'
<1>1. CASE state = "StationConnected"
  <2>1. life.init
    BY <1>1 DEF SessionInv, SessionInCall
  <2>2. wk'.pc = "drop"
    BY <1>1 DEF DisconnectFromHost, TypeOK, WorkerState
  <2> QED
    BY <2>1, <2>2, WorkerStepSession
<1>2. CASE state # "StationConnected"
  <2>1. wk' = wk
    BY <1>2 DEF DisconnectFromHost
  <2> QED
    BY <2>1 DEF SessionInv, CallAt, SessionInCall, SessionWholeOrGone,
       DeadSocketIsMarked
<1> QED
  BY <1>1, <1>2

LEMMA StationEventSession ==
    ASSUME TypeOK, SessionInv, StationEvent
    PROVE  SessionInv'
<1>1. ASSUME NEW h \in Peers, HostBeacon(h)
      PROVE  SessionInv'
  BY <1>1 DEF HostBeacon, sockets, SessionInv, CallAt, SessionInCall,
     SessionWholeOrGone, DeadSocketIsMarked
<1>2. ASSUME NEW h \in Peers, HostBye(h)
      PROVE  SessionInv'
  BY <1>2, DisconnectSession DEF HostBye, RelayFrame, Handler, sockets
<1>3. ASSUME NEW info, IsStation, Handler, SyncNetwork(info)
      PROVE  SessionInv'
  <2>1. life.init
    BY <1>3 DEF IsStation, SessionInv, SessionInCall
  <2>2. wk'.pc \in {"poll", "flip"}
    BY <1>3 DEF Handler, SyncNetwork, TypeOK, WorkerState
  <2> QED
    BY <1>3, <2>1, <2>2, WorkerStepSession DEF Handler, SyncNetwork, sockets
<1>4. ASSUME NEW info, RelaySync(info) \/ TcpSync(info)
      PROVE  SessionInv'
  BY <1>3, <1>4 DEF RelaySync, TcpSync, RelayFrame
<1>5. CASE TcpClosed
  <2>1. life.init
    BY <1>5 DEF TcpClosed, SessionInv, SessionWholeOrGone
  <2>2. PICK why \in {"DestroyedByUser", "SignalLost"} : DisconnectFromHost(why)
    BY <1>5 DEF TcpClosed
  <2> QED
    BY <1>5, <2>1, <2>2, DisconnectSession DEF TcpClosed, Handler
<1>6. CASE HostLost
  BY <1>6, DisconnectSession DEF HostLost, sockets
<1> QED
  BY <1>1, <1>2, <1>4, <1>5, <1>6 DEF StationEvent

LEMMA SocketEventSession ==
    ASSUME TypeOK, SessionInv, SocketEvent
    PROVE  SessionInv'
<1> USE DEF SessionInv, CallAt, SessionInCall, SessionWholeOrGone, DeadSocketIsMarked
<1>1. CASE UdpClosed
  <2>1. life.init
    BY <1>1 DEF UdpClosed
  <2>2. state' = "Error"
    BY <1>1 DEF UdpClosed
  <2> QED
    BY <1>1, <2>1, <2>2, RecordMoves DEF UdpClosed
<1>2. CASE RelayClosed
  BY <1>2, RecordMoves DEF RelayClosed
<1>3. CASE RelayReopened
  BY <1>3 DEF RelayReopened
<1>4. CASE PollFails
  BY <1>4, RecordMoves DEF PollFails, WorkerAt, sockets
<1> QED
  BY <1>1, <1>2, <1>3, <1>4 DEF SocketEvent

LEMMA TimeSession ==
    ASSUME TypeOK, SessionInv, Time
    PROVE  SessionInv'
<1>1. CASE HostGoesSilent
  BY <1>1 DEF HostGoesSilent, sockets, SessionInv, CallAt, SessionInCall,
     SessionWholeOrGone, DeadSocketIsMarked
<1>2. ASSUME NEW i \in Slots, StationGoesSilent(i)
      PROVE  SessionInv'
  BY <1>2, SlotsNeedSession, SlotStepSession DEF StationGoesSilent, sockets
<1> QED
  BY <1>1, <1>2 DEF Time

-----------------------------------------------------------------------------
(* The join target of a station. *)

LEMMA GameCallTarget ==
    ASSUME TypeOK, SessionInv, TargetInv, GameCall
    PROVE  TargetInv'
<1> USE DEF TargetInv, FlipHasTarget, ConnectedOnlyWithTarget
<1>1. CASE Initialize
  <2>1. state' = "None" /\ wk'.pc # "flip"
    <3>1. ~life.init /\ ipc.pc = "idle" /\ state = "None"
      BY <1>1 DEF Initialize, GameMay
    <3>2. wk.pc = "off" /\ udp = "none"
      BY <3>1 DEF SessionInv, SessionWholeOrGone
    <3>3. PICK enabled \in RelaySettings : Build(enabled) \/ BuildFails(enabled)
      BY <1>1 DEF Initialize
    <3>4. enabled \in BOOLEAN
      BY ConstantsAssumption
    <3> QED
      BY <3>1, <3>2, <3>3, <3>4, BuildSession
  <2> QED
    BY <2>1
<1>2. CASE Finalize
  BY <1>2 DEF Finalize, GameMay, Begin, sockets
<1>3. CASE OpenAccessPoint
  BY <1>3 DEF OpenAccessPoint, Open, GameMay, sockets
<1>4. CASE OpenStation
  BY <1>4 DEF OpenStation, Open, GameMay, sockets
<1>5. CASE CloseAccessPoint
  BY <1>5 DEF CloseAccessPoint, Close, GameMay, sockets
<1>6. CASE CloseStation
  BY <1>6 DEF CloseStation, Close, GameMay, sockets
<1>7. CASE DestroyNetwork
  BY <1>7 DEF DestroyNetwork, Close, GameMay, sockets
<1>8. CASE CreateNetwork
  BY <1>8 DEF CreateNetwork, GameMay
<1>9. CASE SetAdvertiseData
  BY <1>9 DEF SetAdvertiseData, DataHeld
<1>10. CASE Disconnect
  BY <1>10 DEF Disconnect, GameMay, Begin, sockets
<1>11. ASSUME NEW h \in Peers, Connect(h)
       PROVE  TargetInv'
  BY <1>11 DEF Connect, GameMay, sockets
<1> QED
  BY <1>1, <1>2, <1>3, <1>4, <1>5, <1>6, <1>7, <1>8, <1>9, <1>10, <1>11 DEF
     GameCall

LEMMA CallPieceTarget ==
    ASSUME TypeOK, SessionInv, TargetInv, CallPiece
    PROVE  TargetInv'
<1> USE DEF TargetInv, FlipHasTarget, ConnectedOnlyWithTarget
<1>1. CASE SessionStarted
  BY <1>1 DEF SessionStarted, SessionInv, SessionInCall
<1>2. CASE WorkerJoined
  BY <1>2, RecordMoves DEF WorkerJoined
<1>3. CASE Reopen
  <2>1. ~life.init /\ state = "None" /\ wk.pc = "off" /\ udp = "none"
    BY <1>3 DEF Reopen, SessionInv, SessionInCall, SessionWholeOrGone
  <2>2. PICK enabled \in RelaySettings : Build(enabled) \/ BuildFails(enabled)
    BY <1>3 DEF Reopen
  <2>3. enabled \in BOOLEAN
    BY ConstantsAssumption
  <2>4. state' = "None" /\ wk'.pc # "flip"
    BY <2>1, <2>2, <2>3, BuildSession
  <2> QED
    BY <2>4
<1>4. CASE ResetStations
  BY <1>4 DEF ResetStations
<1>5. CASE CloseHostSocket
  BY <1>5 DEF CloseHostSocket
<1>6. CASE ForgetTarget
  <2>1. wk'.pc # "flip"
    BY <1>6 DEF ForgetTarget, DataHeld
  <2>2. ipc'.pc = "set" /\ ipc'.call \in {"OpenStation", "Disconnect"}
    BY <1>6, CallMoves DEF ForgetTarget, CallPcs, SessionInv, CallAt
  <2> QED
    BY <2>1, <2>2
<1>7. CASE SetState
  <2>1. state' # "StationConnected" /\ UNCHANGED <<net, join, wk>>
    BY <1>7 DEF SetState
  <2> QED
    BY <2>1
<1>8. CASE Announce
  BY <1>8 DEF Announce, DataHeld
<1>9. CASE ArmRelayJoin
  <2>1. join'.active = join.active /\ join'.bssid = join.bssid
    BY <1>9 DEF ArmRelayJoin, TypeOK, JoinState
  <2> QED
    BY <1>9, <2>1 DEF ArmRelayJoin
<1>10. CASE LookForSync
  BY <1>10 DEF LookForSync
<1>11. CASE RelayJoined
  <2>1. join'.active = join.active /\ join'.bssid = join.bssid
    BY <1>11 DEF RelayJoined, TypeOK, JoinState
  <2> QED
    BY <1>11, <2>1 DEF RelayJoined
<1>12. CASE FallBackToTcp
  <2>1. join'.active = join.active /\ join'.bssid = join.bssid
    BY <1>12 DEF FallBackToTcp, TypeOK, JoinState
  <2> QED
    BY <1>12, <2>1 DEF FallBackToTcp
<1>13. CASE Dial
  BY <1>13 DEF Dial
<1>14. CASE Dialled
  BY <1>14 DEF Dialled
<1>15. CASE LookForTcpSync
  BY <1>15 DEF LookForTcpSync
<1>16. CASE AbortJoin
  BY <1>16 DEF AbortJoin
<1>17. CASE RecordTarget
  <2>1. join'.active /\ wk'.pc # "flip" /\ UNCHANGED state
    BY <1>17 DEF RecordTarget, DataHeld, TypeOK, JoinState
  <2> QED
    BY <2>1
<1> QED
  BY <1>1, <1>2, <1>3, <1>4, <1>5, <1>6, <1>7, <1>8, <1>9, <1>10, <1>11, <1>12,
     <1>13, <1>14, <1>15, <1>16, <1>17 DEF CallPiece

LEMMA WorkerPieceTarget ==
    ASSUME TypeOK, TargetInv, WorkerPiece
    PROVE  TargetInv'
<1> USE DEF TargetInv, FlipHasTarget, ConnectedOnlyWithTarget
<1>1. CASE WorkerStarts
  BY <1>1, RecordMoves DEF WorkerStarts
<1>2. CASE WorkerLoop
  BY <1>2, RecordMoves DEF WorkerLoop, WorkerAt
<1>3. CASE PollDone
  BY <1>3, RecordMoves DEF PollDone, WorkerAt
<1>4. CASE BeaconDone
  BY <1>4, RecordMoves DEF BeaconDone, WorkerAt
<1>5. CASE Dropped
  <2>1. wk'.pc \in {"poll", "beacon"} /\ state' = "Station"
    BY <1>5, RecordMoves DEF Dropped
  <2> QED
    BY <2>1
<1>6. CASE SyncedState
  BY <1>6, RecordMoves DEF SyncedState
<1>7. CASE NodesUpdated
  <2>1. wk'.pc \in {"poll", "beacon"}
    BY <1>7, RecordMoves DEF NodesUpdated
  <2> QED
    BY <1>7, <2>1 DEF NodesUpdated
<1> QED
  BY <1>1, <1>2, <1>3, <1>4, <1>5, <1>6, <1>7 DEF WorkerPiece

LEMMA HostEventTarget ==
    ASSUME TypeOK, TargetInv, HostEvent
    PROVE  TargetInv'
<1>1. UNCHANGED <<state, join, ipc>>
  BY DEF HostEvent, RelayConnect, Heartbeat, StationBye, Reap, Accept,
     StationClosed, StationConnect, Free
<1>2. wk'.pc # "flip"
  <2>1. wk.pc \in {"poll", "beacon"}
    BY DEF HostEvent, RelayConnect, Heartbeat, StationBye, Reap, Accept,
       StationClosed, StationConnect, RelayFrame, Handler
  <2>2. ASSUME NEW gone, Free(gone) PROVE wk'.pc = "update"
    BY <2>2 DEF Free, TypeOK, WorkerState
  <2>3. wk' = wk \/ wk'.pc = "update"
    BY <2>2 DEF HostEvent, RelayConnect, Heartbeat, StationBye, Reap, Accept,
       StationClosed, StationConnect
  <2> QED
    BY <2>1, <2>3
<1> QED
  BY <1>1, <1>2 DEF TargetInv, FlipHasTarget, ConnectedOnlyWithTarget

\* A disconnect clears whether the station joined over the relay, never its target.
LEMMA DisconnectTarget ==
    ASSUME TypeOK, TargetInv, NEW why, DisconnectFromHost(why),
           UNCHANGED <<state, net, ipc>>
    PROVE  TargetInv'
<1>1. join'.active = join.active /\ join'.bssid = join.bssid
  BY DEF DisconnectFromHost, TypeOK, JoinState
<1>2. wk'.pc = "flip" => wk.pc = "flip"
  BY DEF DisconnectFromHost, TypeOK, WorkerState
<1> QED
  BY <1>1, <1>2 DEF TargetInv, FlipHasTarget, ConnectedOnlyWithTarget

LEMMA StationEventTarget ==
    ASSUME TypeOK, TargetInv, StationEvent
    PROVE  TargetInv'
<1>1. ASSUME NEW h \in Peers, HostBeacon(h)
      PROVE  TargetInv'
  BY <1>1 DEF HostBeacon, TargetInv, FlipHasTarget, ConnectedOnlyWithTarget
<1>2. ASSUME NEW h \in Peers, HostBye(h)
      PROVE  TargetInv'
  BY <1>2, DisconnectTarget DEF HostBye
<1>3. ASSUME NEW info, RelaySync(info) \/ TcpSync(info)
      PROVE  TargetInv'
  <2>1. /\ join.active /\ UNCHANGED <<state, join, ipc>>
        /\ net'.bssid = join.bssid
    BY <1>3 DEF RelaySync, TcpSync, SyncNetwork
  <2> QED
    BY <2>1 DEF TargetInv, FlipHasTarget, ConnectedOnlyWithTarget
<1>4. CASE TcpClosed
  BY <1>4, DisconnectTarget DEF TcpClosed
<1>5. CASE HostLost
  BY <1>5, DisconnectTarget DEF HostLost
<1> QED
  BY <1>1, <1>2, <1>3, <1>4, <1>5 DEF StationEvent

LEMMA SocketEventTarget ==
    ASSUME TypeOK, TargetInv, SocketEvent \/ Time
    PROVE  TargetInv'
<1> USE DEF TargetInv, FlipHasTarget, ConnectedOnlyWithTarget
<1>1. CASE UdpClosed
  BY <1>1 DEF UdpClosed
<1>2. CASE RelayClosed
  BY <1>2 DEF RelayClosed
<1>3. CASE RelayReopened
  BY <1>3 DEF RelayReopened
<1>4. CASE PollFails
  BY <1>4, RecordMoves DEF PollFails, WorkerAt
<1>5. CASE Time
  BY <1>5 DEF Time, HostGoesSilent, StationGoesSilent
<1> QED
  BY <1>1, <1>2, <1>3, <1>4, <1>5 DEF SocketEvent

-----------------------------------------------------------------------------
(* The network of a host. *)

\* A network n is this host's and lists its members in slots s, `gone' and the moment
\* before the end of the network aside.
Describes(n, s, gone, ending) ==
    /\ n.bssid = Self /\ n.ip[0] = Self /\ n.conn[0]
    /\ Members(s) \subseteq Listed(n)
    /\ ~ending => /\ Listed(n) \subseteq Members(s) \cup gone
                  /\ gone = {} => n.count = Cardinality(Members(s)) + 1

LEMMA HostTableIsDescribed ==
    HostTableMatchesSlots <=>
      (state = "AccessPointCreated" => Describes(net, st, wk.gone, ipc.pc = "set"))
<1> QED
  BY DEF HostTableMatchesSlots, Describes

\* Exactly the slots that are seen are listed.
LEMMA NodesReadLists ==
    ASSUME NEW n \in NetworkInfo, NEW counted, NEW seen \in SUBSET Slots
    PROVE  LET r == NodesRead(n, counted, seen)
           IN /\ r.bssid = n.bssid /\ r.ip = n.ip /\ r.conn[0] = n.conn[0]
              /\ Listed(r) = seen
              /\ r.count = Cardinality(counted) + 1
<1>1. 0 \in Nodes /\ \A i \in Slots : i \in Nodes /\ i # 0
  BY ConstantsAssumption DEF Nodes, Slots
<1> DEFINE r == NodesRead(n, counted, seen)
<1>2. r.conn = [k \in Nodes |-> IF k = 0 THEN n.conn[0] ELSE k \in seen]
  BY DEF NodesRead, NetworkInfo
<1>3. r.count = Cardinality(counted) + 1 /\ r.bssid = n.bssid /\ r.ip = n.ip
  BY DEF NodesRead, NetworkInfo
<1>4. r.conn[0] = n.conn[0]
  BY <1>1, <1>2
<1>5. \A i \in Slots : r.conn[i] <=> i \in seen
  BY <1>1, <1>2
<1> HIDE DEF r
<1>6. Listed(r) = seen
  BY <1>5 DEF Listed
<1> QED
  BY <1>3, <1>4, <1>6 DEF r

\* Registering slots in a network of this host makes it describe them.
LEMMA RegisterDescribes ==
    ASSUME NEW n \in NetworkInfo, NEW s, Register(s, n), NEW gone, NEW ending,
           n.bssid = Self, n.ip[0] = Self, n.conn[0]
    PROVE  Describes(net', st', gone, ending)
<1>1. Members(s) \in SUBSET Slots
  BY DEF Members
<1>2. net' = NodesRead(n, Members(s), Members(s)) /\ st' = s
  BY DEF Register, UpdateNodes
<1>3. /\ net'.bssid = n.bssid /\ net'.ip = n.ip /\ net'.conn[0] = n.conn[0]
      /\ Listed(net') = Members(s) /\ net'.count = Cardinality(Members(s)) + 1
  BY <1>1, <1>2, NodesReadLists
<1> QED
  BY <1>2, <1>3 DEF Describes

\* updateNodes beside another thread lists the members, and of those that thread frees
\* perhaps some.
LEMMA BesideLists ==
    ASSUME NEW n \in NetworkInfo, NEW stale \in SUBSET Slots, RegisterBeside(n, stale)
    PROVE  /\ net'.bssid = n.bssid /\ net'.ip = n.ip /\ net'.conn[0] = n.conn[0]
           /\ st' = st
           /\ Members(st) \subseteq Listed(net')
           /\ Listed(net') \subseteq Members(st) \cup stale
           /\ stale = {} => net'.count = Cardinality(Members(st)) + 1
<1>1. PICK counted \in SUBSET stale, seen \in SUBSET stale :
        net' = NodesRead(n, Members(st) \cup counted, Members(st) \cup seen)
  BY DEF RegisterBeside
<1>2. Members(st) \cup seen \in SUBSET Slots
  BY DEF Members
<1>3. /\ net'.bssid = n.bssid /\ net'.ip = n.ip /\ net'.conn[0] = n.conn[0]
      /\ Listed(net') = Members(st) \cup seen
      /\ net'.count = Cardinality(Members(st) \cup counted) + 1
  BY <1>1, <1>2, NodesReadLists
<1>4. stale = {} => Members(st) \cup counted = Members(st)
  OBVIOUS
<1>5. st' = st
  BY DEF RegisterBeside
<1> QED
  BY <1>3, <1>4, <1>5

\* Register writes no address.
LEMMA RegisterIps ==
    ASSUME NEW n \in NetworkInfo, NEW s, Register(s, n)
    PROVE  net'.ip = n.ip /\ st' = s
<1> QED
  BY DEF Register, UpdateNodes, NodesRead, NetworkInfo

\* No console gets a second relay slot when the relay slots only become fewer.
LEMMA FewerSlots ==
    ASSUME OneRelaySlotPerConsole, OverRelay(st') \subseteq OverRelay(st),
           \A i \in OverRelay(st') : net'.ip[i] = net.ip[i]
    PROVE  OneRelaySlotPerConsole'
<1>1. \A i, j \in OverRelay(st) : net.ip[i] = net.ip[j] => i = j
  BY DEF OneRelaySlotPerConsole, OverRelay
<1>2. \A i, j \in OverRelay(st') : net'.ip[i] = net'.ip[j] => i = j
  BY <1>1
<1> QED
  BY <1>2 DEF OneRelaySlotPerConsole, OverRelay

\* A step that leaves the slots and the network alone.
LEMMA HostFrame ==
    ASSUME HostInv, UNCHANGED <<net, st>>, wk'.gone = wk.gone,
           ActsAsStation' => ActsAsStation \/ OverRelay(st) = {},
           state' = "AccessPointCreated" =>
              /\ state = "AccessPointCreated"
              /\ ipc'.call \in {"none", "Finalize", "DestroyNetwork", "CloseAccessPoint"}
              /\ ipc.pc = "set" => ipc'.pc = "set"
    PROVE  HostInv'
<1>1. HostInCall'
  BY DEF HostInCall
<1>2. HostTableMatchesSlots'
  BY DEF HostInv, HostTableMatchesSlots
<1>3. StationHasNoStations'
  BY DEF HostInv, StationHasNoStations
<1>4. OneRelaySlotPerConsole'
  BY FewerSlots DEF HostInv
<1> QED
  BY <1>1, <1>2, <1>3, <1>4 DEF HostInv

LEMMA GameCallHost ==
    ASSUME TypeOK, SessionInv, HostInv, GameCall
    PROVE  HostInv'
<1>1. CASE Initialize
  <2>1. ~life.init /\ ipc.pc = "idle" /\ state = "None"
    BY <1>1 DEF Initialize, GameMay
  <2>2. wk.pc = "off" /\ udp = "none" /\ st = NoStations
    BY <2>1 DEF SessionInv, SessionWholeOrGone
  <2>3. PICK enabled \in RelaySettings :
          \/ Build(enabled) /\ Begin("Initialize", "started", NoIp)
          \/ BuildFails(enabled) /\ UNCHANGED ipc
    BY <1>1 DEF Initialize
  <2>4. enabled \in BOOLEAN
    BY ConstantsAssumption
  <2>5. state' = "None" /\ wk'.pc \in {"off", "starting"} /\ st' = NoStations
    BY <2>1, <2>2, <2>3, <2>4, BuildSession
  <2>6. ipc'.call \in {"Initialize", "none"}
    BY <2>1, <2>3 DEF Begin, SessionInv, CallAt
  <2>7. wk' = [wk EXCEPT !.pc = "starting"] \/ wk' = wk
    BY <2>3 DEF Build, BuildFails
  <2>8. wk'.gone = wk.gone
    BY <2>7 DEF TypeOK, WorkerState
  <2> QED
    BY <1>1, <2>2, <2>5, <2>6, <2>8, HostFrame DEF Initialize, ActsAsStation
<1>2. CASE Finalize
  <2>1. ipc.call = "none" /\ ipc.pc = "idle" /\ ipc'.call = "Finalize"
    BY <1>2 DEF Finalize, GameMay, Begin, SessionInv, CallAt
  <2> QED
    BY <1>2, <2>1, HostFrame DEF Finalize, sockets, ActsAsStation
<1>3. ASSUME NEW call \in {"OpenAccessPoint", "OpenStation"}, Open(call)
      PROVE  HostInv'
  <2>1. ipc'.call = call /\ ipc'.pc \in {"join", "reset"}
    BY <1>3 DEF Open, Begin
  <2>2. state' \in {"Initialized", "Error"} /\ state' = state
    BY <1>3 DEF Open, GameMay
  <2> QED
    BY <1>3, <2>1, <2>2, HostFrame DEF Open, ActsAsStation
<1>4. ASSUME NEW call \in {"CloseAccessPoint", "CloseStation", "DestroyNetwork"},
             NEW states, Close(call, states),
             call = "CloseStation" => "AccessPointCreated" \notin states
      PROVE  HostInv'
  <2>1. /\ ipc'.call = call /\ ipc'.pc = "reset" /\ state \in states
        /\ ipc.call = "none" /\ ipc.pc = "idle"
    BY <1>4 DEF Close, GameMay, Begin, SessionInv, CallAt
  <2> QED
    BY <1>4, <2>1, HostFrame DEF Close, sockets, ActsAsStation
<1>5. CASE CreateNetwork
  <2>1. state' = "AccessPoint"
    BY <1>5 DEF CreateNetwork, GameMay
  <2>2. ipc'.call \in {"none", "CreateNetwork"}
    BY <1>5 DEF CreateNetwork, GameMay, Begin, SessionInv, CallAt
  <2> QED
    BY <1>5, <2>1, <2>2, HostFrame DEF CreateNetwork, ActsAsStation
<1>6. CASE SetAdvertiseData
  <2>1. /\ net \in NetworkInfo /\ RegisterBeside(net, FreedByWorker)
        /\ UNCHANGED <<state, wk, ipc>> /\ ipc.call = "none"
    BY <1>6 DEF SetAdvertiseData, GameMay, TypeOK, SessionInv, CallAt
  <2>2. FreedByWorker \in SUBSET Slots /\ FreedByWorker \subseteq wk.gone
    BY FreedTypes DEF FreedByWorker
  <2>3. /\ net'.bssid = net.bssid /\ net'.ip = net.ip /\ net'.conn[0] = net.conn[0]
        /\ st' = st
        /\ Members(st) \subseteq Listed(net')
        /\ Listed(net') \subseteq Members(st) \cup FreedByWorker
        /\ FreedByWorker = {} => net'.count = Cardinality(Members(st)) + 1
    BY <2>1, <2>2, BesideLists
  <2>4. HostTableMatchesSlots'
    BY <2>1, <2>2, <2>3 DEF HostInv, HostTableMatchesSlots
  <2>5. OneRelaySlotPerConsole'
    BY <2>3, FewerSlots DEF HostInv
  <2> QED
    BY <2>1, <2>3, <2>4, <2>5 DEF HostInv, HostInCall, StationHasNoStations,
       ActsAsStation
<1>7. CASE Disconnect
  <2>1. state' = state /\ state \in {"Station", "StationConnected"}
    BY <1>7 DEF Disconnect, GameMay
  <2>2. ActsAsStation
    BY <2>1 DEF ActsAsStation
  <2> QED
    BY <1>7, <2>1, <2>2, HostFrame DEF Disconnect, sockets
<1>8. ASSUME NEW h \in Peers, Connect(h)
      PROVE  HostInv'
  <2>1. state' = state /\ state = "Station"
    BY <1>8 DEF Connect, GameMay
  <2>2. ActsAsStation
    BY <2>1 DEF ActsAsStation
  <2> QED
    BY <1>8, <2>1, <2>2, HostFrame DEF Connect, sockets
<1>9. CASE OpenAccessPoint \/ OpenStation
  BY <1>3, <1>9 DEF OpenAccessPoint, OpenStation
<1>10. CASE CloseAccessPoint \/ CloseStation \/ DestroyNetwork
  BY <1>4, <1>10 DEF CloseAccessPoint, CloseStation, DestroyNetwork
<1> QED
  BY <1>1, <1>2, <1>5, <1>6, <1>7, <1>8, <1>9, <1>10 DEF GameCall

\* A table of free slots has no stations.
LEMMA NoStationsEmpty ==
    OverRelay(NoStations) = {}
<1> QED
  BY DEF OverRelay, NoStations, FreeSlot

\* A step that empties the slots of a network that is about to end, if there is one.
LEMMA HostReset ==
    ASSUME HostInv, net' = net, st' = NoStations,
           state' = "AccessPointCreated" =>
              /\ state = "AccessPointCreated" /\ ipc'.pc = "set"
              /\ ipc'.call \in {"DestroyNetwork", "CloseAccessPoint"}
    PROVE  HostInv'
<1>1. OverRelay(st') = {}
  BY NoStationsEmpty
<1>2. OneRelaySlotPerConsole'
  BY <1>1, FewerSlots DEF HostInv
<1>3. Members(st') = {}
  BY DEF Members, NoStations, FreeSlot
<1>4. HostTableMatchesSlots'
  BY <1>3 DEF HostInv, HostTableMatchesSlots
<1> QED
  BY <1>1, <1>2, <1>4 DEF HostInv, HostInCall, StationHasNoStations

\* A piece of connect(), whose console hosts nothing.
LEMMA ConnectHost ==
    ASSUME HostInv, ipc.call = "Connect", ipc'.call \in {"Connect", "none"},
           UNCHANGED <<state, net, st, wk>>
    PROVE  HostInv'
<1>1. state # "AccessPointCreated"
  BY DEF HostInv, HostInCall
<1> QED
  BY <1>1, HostFrame DEF ActsAsStation

LEMMA CallPieceHost ==
    ASSUME TypeOK, SessionInv, HostInv, CallPiece
    PROVE  HostInv'
<1>1. CASE SessionStarted
  <2>1. ~life.init
    BY <1>1 DEF SessionStarted, SessionInv, SessionInCall
  <2>2. wk'.pc \notin {"drop", "flip"} /\ state' = "Initialized"
    BY <1>1, <2>1 DEF SessionStarted, SessionInv, SessionInCall
  <2>3. ipc'.pc \in {"idle", "reset"}
    BY <1>1, CallMoves DEF SessionStarted, CallPcs
  <2>4. ipc'.call # "Disconnect"
    BY <1>1, CallMoves DEF SessionStarted, CallPcs, SessionInv, CallAt
  <2> QED
    BY <1>1, <2>2, <2>3, <2>4, HostFrame DEF SessionStarted, ActsAsStation
<1>2. CASE WorkerJoined
  BY <1>2, HostReset DEF WorkerJoined
<1>3. CASE Reopen
  <2>1. ~life.init /\ state = "None" /\ wk.pc = "off" /\ udp = "none"
    BY <1>3 DEF Reopen, SessionInv, SessionInCall, SessionWholeOrGone
  <2>2. PICK enabled \in RelaySettings : Build(enabled) \/ BuildFails(enabled)
    BY <1>3 DEF Reopen
  <2>3. enabled \in BOOLEAN
    BY ConstantsAssumption
  <2>4. state' = "None" /\ st' = NoStations
    BY <2>1, <2>2, <2>3, BuildSession
  <2> QED
    BY <1>3, <2>4, HostReset DEF Reopen
<1>4. CASE ResetStations
  <2>1. /\ ipc'.call = ipc.call
        /\ ipc.call # "OpenStation" => ipc'.pc = "set"
    BY <1>4, CallMoves DEF ResetStations, CallPcs
  <2>2. state = "AccessPointCreated" => ipc.call \in {"DestroyNetwork", "CloseAccessPoint"}
    BY <1>4 DEF ResetStations, HostInv, HostInCall, SessionInv, CallAt
  <2> QED
    BY <1>4, <2>1, <2>2, HostReset DEF ResetStations
<1>5. CASE CloseHostSocket
  <2>1. ipc.call = "Disconnect"
    BY <1>5 DEF CloseHostSocket, SessionInv, CallAt
  <2>2. state # "AccessPointCreated" /\ ActsAsStation
    BY <2>1 DEF HostInv, HostInCall, ActsAsStation
  <2> QED
    BY <1>5, <2>2, HostFrame DEF CloseHostSocket
<1>6. CASE ForgetTarget
  <2>1. ipc.call \in {"OpenStation", "Disconnect"} /\ ipc.pc = "forget"
    BY <1>6 DEF ForgetTarget, SessionInv, CallAt
  <2>2. state # "AccessPointCreated" /\ ActsAsStation
    BY <2>1 DEF HostInv, HostInCall, ActsAsStation
  <2> QED
    BY <1>6, <2>2, HostFrame DEF ForgetTarget
<1>7. CASE SetState
  <2>1. ipc'.call = "none" /\ ipc'.pc = "idle"
    BY <1>7, CallMoves DEF SetState
  <2>2. /\ state' \in {"AccessPoint", "Station", "Initialized"}
        /\ state' = "Station" => ipc.call \in {"OpenStation", "Disconnect"}
    BY <1>7 DEF SetState
  <2>3. ActsAsStation' => ActsAsStation
    BY <1>7, <2>1, <2>2 DEF SetState, ActsAsStation
  <2> QED
    BY <1>7, <2>2, <2>3, HostFrame DEF SetState
<1>8. CASE Announce
  <2> DEFINE blank == [net EXCEPT !.bssid = Self, !.conn = [k \in Nodes |-> FALSE]]
             own   == [blank EXCEPT !.ip[0] = Self, !.conn[0] = TRUE]
  <2>1. /\ ipc.call = "CreateNetwork" /\ ipc'.call = "none" /\ ipc'.pc = "idle"
        /\ UNCHANGED <<st, wk>>
    BY <1>8, CallMoves DEF Announce, SessionInv, CallAt, RegisterBeside
  <2>2. state # "AccessPointCreated"
    BY <2>1 DEF HostInv, HostInCall
  <2>3. 0 \in Nodes /\ \A i \in Slots : i # 0 /\ i \in Nodes
    BY ConstantsAssumption DEF Nodes, Slots
  <2>4. blank \in NetworkInfo /\ blank.ip = net.ip
    BY DEF TypeOK, NetworkInfo, Ips
  <2>5. own \in NetworkInfo /\ own.bssid = Self /\ own.ip[0] = Self /\ own.conn[0]
    BY <2>3, <2>4 DEF TypeOK, NetworkInfo, Ips
  <2>6. \A i \in Slots : own.ip[i] = net.ip[i]
    BY <2>3, <2>4 DEF TypeOK, NetworkInfo
  <2>7. OverRelay(st) \subseteq Slots
    BY DEF OverRelay
  <2> HIDE DEF blank, own
  <2>8. CASE RegisterBeside(own, FreedByWorker) /\ state' = "AccessPointCreated"
    <3>1. FreedByWorker \in SUBSET Slots /\ FreedByWorker \subseteq wk.gone
      BY FreedTypes DEF FreedByWorker
    <3>2. /\ net'.bssid = Self /\ net'.ip = own.ip /\ net'.conn[0] = own.conn[0]
          /\ Members(st) \subseteq Listed(net')
          /\ Listed(net') \subseteq Members(st) \cup FreedByWorker
          /\ FreedByWorker = {} => net'.count = Cardinality(Members(st)) + 1
      BY <2>5, <2>8, <3>1, BesideLists
    <3>3. net'.ip[0] = Self /\ net'.conn[0]
      BY <2>5, <3>2
    <3>4. HostTableMatchesSlots'
      BY <2>1, <3>1, <3>2, <3>3 DEF HostTableMatchesSlots
    <3>5. OneRelaySlotPerConsole'
      BY <2>1, <2>6, <2>7, <3>2, FewerSlots DEF HostInv
    <3>6. StationHasNoStations'
      BY <2>1, <2>8 DEF HostInv, StationHasNoStations, ActsAsStation
    <3> QED
      BY <2>1, <3>4, <3>5, <3>6 DEF HostInv, HostInCall
  <2>9. CASE net' \in {net, blank} /\ state' = state
    <3>1. OneRelaySlotPerConsole'
      BY <2>1, <2>4, <2>9, FewerSlots DEF HostInv
    <3>2. StationHasNoStations'
      BY <2>1, <2>9 DEF HostInv, StationHasNoStations, ActsAsStation
    <3> QED
      BY <2>2, <2>9, <3>1, <3>2 DEF HostInv, HostInCall, HostTableMatchesSlots
  <2> QED
    BY <1>8, <2>8, <2>9 DEF Announce, blank, own
<1>9. CASE ArmRelayJoin
  BY <1>9, CallMoves, ConnectHost DEF ArmRelayJoin, CallPcs, SessionInv, CallAt
<1>10. CASE LookForSync
  <2>1. ipc'.call = ipc.call
    BY <1>10, CallMoves DEF LookForSync, CallPcs
  <2> QED
    BY <1>10, <2>1, ConnectHost DEF LookForSync, SessionInv, CallAt
<1>11. CASE RelayJoined
  BY <1>11, CallMoves, ConnectHost DEF RelayJoined, SessionInv, CallAt
<1>12. CASE FallBackToTcp
  BY <1>12, CallMoves, ConnectHost DEF FallBackToTcp, CallPcs, SessionInv, CallAt
<1>13. CASE Dial
  BY <1>13, CallMoves, ConnectHost DEF Dial, CallPcs, SessionInv, CallAt
<1>14. CASE Dialled
  BY <1>14, CallMoves, ConnectHost DEF Dialled, CallPcs, SessionInv, CallAt
<1>15. CASE LookForTcpSync
  BY <1>15, CallMoves, ConnectHost DEF LookForTcpSync, CallPcs, SessionInv, CallAt
<1>16. CASE AbortJoin
  BY <1>16, CallMoves, ConnectHost DEF AbortJoin, SessionInv, CallAt
<1>17. CASE RecordTarget
  <2>1. ipc'.call = ipc.call
    BY <1>17, CallMoves DEF RecordTarget, CallPcs
  <2> QED
    BY <1>17, <2>1, ConnectHost DEF RecordTarget, SessionInv, CallAt
<1> QED
  BY <1>1, <1>2, <1>3, <1>4, <1>5, <1>6, <1>7, <1>8, <1>9, <1>10, <1>11, <1>12,
     <1>13, <1>14, <1>15, <1>16, <1>17 DEF CallPiece

\* The worker's own moves and the sockets' ends.
LEMMA WorkerPieceHost ==
    ASSUME TypeOK, HostInv, WorkerPiece
    PROVE  HostInv'
<1> USE DEF ActsAsStation
<1>1. CASE WorkerStarts
  BY <1>1, RecordMoves, HostFrame DEF WorkerStarts, HostInv, HostInCall
<1>2. CASE WorkerLoop
  <2>1. wk'.pc \in {"exited", "poll", "beacon"} /\ wk'.gone = wk.gone
    BY <1>2, RecordMoves DEF WorkerLoop, WorkerAt
  <2> QED
    BY <1>2, <2>1, HostFrame DEF WorkerLoop, WorkerAt, HostInv, HostInCall
<1>3. CASE PollDone
  BY <1>3, RecordMoves, HostFrame DEF PollDone, WorkerAt, HostInv, HostInCall
<1>4. CASE BeaconDone
  BY <1>4, RecordMoves, HostFrame DEF BeaconDone, WorkerAt, HostInv, HostInCall
<1>5. CASE Dropped
  BY <1>5, RecordMoves, HostFrame DEF Dropped
<1>6. CASE SyncedState
  BY <1>6, RecordMoves, HostFrame DEF SyncedState
<1>7. CASE NodesUpdated
  <2>1. /\ net \in NetworkInfo /\ RegisterBeside(net, FreedByCall)
        /\ UNCHANGED <<state, ipc>>
        /\ wk'.pc \in {"poll", "beacon"} /\ wk'.gone = {}
    BY <1>7, RecordMoves DEF NodesUpdated, TypeOK
  <2>2. FreedByCall \in SUBSET Slots
    BY FreedTypes
  <2>3. /\ net'.bssid = net.bssid /\ net'.ip = net.ip /\ net'.conn[0] = net.conn[0]
        /\ st' = st
        /\ Members(st) \subseteq Listed(net')
        /\ Listed(net') \subseteq Members(st) \cup FreedByCall
        /\ FreedByCall = {} => net'.count = Cardinality(Members(st)) + 1
    BY <2>1, <2>2, BesideLists
  <2>4. (state = "AccessPointCreated" /\ ipc.pc # "set") => FreedByCall = {}
    BY DEF FreedByCall, HostInv, HostTableMatchesSlots
  <2>5. HostTableMatchesSlots'
    BY <2>1, <2>3, <2>4 DEF HostInv, HostTableMatchesSlots
  <2>6. OneRelaySlotPerConsole'
    BY <2>3, FewerSlots DEF HostInv
  <2> QED
    BY <2>1, <2>3, <2>5, <2>6 DEF HostInv, HostInCall, StationHasNoStations
<1> QED
  BY <1>1, <1>2, <1>3, <1>4, <1>5, <1>6, <1>7 DEF WorkerPiece

LEMMA SocketEventHost ==
    ASSUME TypeOK, HostInv, SocketEvent
    PROVE  HostInv'
<1> USE DEF ActsAsStation
<1>1. CASE UdpClosed
  BY <1>1, HostFrame DEF UdpClosed, HostInv, HostInCall
<1>2. CASE RelayClosed
  BY <1>2, HostFrame DEF RelayClosed, HostInv, HostInCall
<1>3. CASE RelayReopened
  BY <1>3, HostFrame DEF RelayReopened, HostInv, HostInCall
<1>4. CASE PollFails
  BY <1>4, RecordMoves, HostFrame DEF PollFails, WorkerAt, HostInv, HostInCall
<1> QED
  BY <1>1, <1>2, <1>3, <1>4 DEF SocketEvent

\* A disconnect is a matter of stations.
LEMMA DisconnectHost ==
    ASSUME TypeOK, HostInv, NEW why, DisconnectFromHost(why),
           UNCHANGED <<state, net, st, ipc>>
    PROVE  HostInv'
<1>1. /\ wk' = wk \/ state = "StationConnected"
      /\ wk'.gone = wk.gone
  BY DEF DisconnectFromHost, TypeOK, WorkerState
<1>2. ActsAsStation' => ActsAsStation
  BY <1>1 DEF ActsAsStation
<1> QED
  BY <1>1, <1>2, HostFrame DEF HostInv, HostInCall

LEMMA StationEventHost ==
    ASSUME TypeOK, HostInv, StationEvent
    PROVE  HostInv'
<1>1. ASSUME NEW h \in Peers, HostBeacon(h)
      PROVE  HostInv'
  BY <1>1, HostFrame DEF HostBeacon, ActsAsStation, HostInv, HostInCall
<1>2. ASSUME NEW h \in Peers, HostBye(h)
      PROVE  HostInv'
  BY <1>2, DisconnectHost DEF HostBye
<1>3. ASSUME NEW info, RelaySync(info) \/ TcpSync(info)
      PROVE  HostInv'
  <2>1. state' = state /\ st' = st /\ ipc' = ipc /\ state \in {"Station", "StationConnected"}
    BY <1>3 DEF RelaySync, TcpSync, SyncNetwork, IsStation
  <2>2. OverRelay(st') = {}
    BY <2>1 DEF HostInv, StationHasNoStations, ActsAsStation
  <2>3. OneRelaySlotPerConsole'
    BY <2>2 DEF OneRelaySlotPerConsole, OverRelay
  <2> QED
    BY <2>1, <2>2, <2>3 DEF HostInv, HostInCall, HostTableMatchesSlots,
       StationHasNoStations
<1>4. CASE TcpClosed
  BY <1>4, DisconnectHost DEF TcpClosed
<1>5. CASE HostLost
  BY <1>5, DisconnectHost DEF HostLost
<1> QED
  BY <1>1, <1>2, <1>3, <1>4, <1>5 DEF StationEvent

\* A handler of a host: the slots change with the network, and nothing else does.
LEMMA HostStep ==
    ASSUME HostInv,
           state = "AccessPointCreated" => Describes(net', st', wk.gone, ipc.pc = "set"),
           UNCHANGED <<state, wk, ipc>>,
           OneRelaySlotPerConsole',
           ActsAsStation => OverRelay(st') = {}
    PROVE  HostInv'
<1>1. HostTableMatchesSlots'
  BY DEF HostTableMatchesSlots, Describes
<1> QED
  BY <1>1 DEF HostInv, HostInCall, StationHasNoStations, ActsAsStation

\* A host acts as no station.
LEMMA HostIsNoStation ==
    ASSUME HostInv, state = "AccessPointCreated", wk.pc \in {"poll", "beacon"}
    PROVE  ~ActsAsStation
<1> QED
  BY DEF ActsAsStation, HostInv, HostInCall

\* A host's network is its own, so registering slots makes it describe them.
LEMMA RegisterHost ==
    ASSUME HostInv, NEW s, NEW n \in NetworkInfo, Register(s, n),
           n.bssid = net.bssid, n.ip[0] = net.ip[0], n.conn[0] = net.conn[0]
    PROVE  state = "AccessPointCreated" => Describes(net', st', wk.gone, ipc.pc = "set")
<1> SUFFICES ASSUME state = "AccessPointCreated"
             PROVE  Describes(net', st', wk.gone, ipc.pc = "set")
  OBVIOUS
<1>1. net.bssid = Self /\ net.ip[0] = Self /\ net.conn[0]
  BY DEF HostInv, HostTableMatchesSlots
<1> QED
  BY <1>1, RegisterDescribes

\* Slots that the worker frees wait for updateNodes.
LEMMA FreeHost ==
    ASSUME TypeOK, HostInv, wk.gone = {}, NEW gone, gone # {}, Free(gone)
    PROVE  HostInv'
<1>1. /\ UNCHANGED <<state, net, ipc>>
      /\ wk'.pc = "update" /\ wk'.gone = gone /\ st' = Drop(gone)
  BY DEF Free, TypeOK, WorkerState
<1>2. /\ OverRelay(st') \subseteq OverRelay(st)
      /\ Members(st') \subseteq Members(st) /\ Members(st) \subseteq Members(st') \cup gone
  BY <1>1 DEF OverRelay, Members, Drop, FreeSlot
<1>3. HostTableMatchesSlots'
  BY <1>1, <1>2 DEF HostInv, HostTableMatchesSlots
<1>4. OneRelaySlotPerConsole'
  BY <1>1, <1>2, FewerSlots DEF HostInv
<1> QED
  BY <1>1, <1>2, <1>3, <1>4 DEF HostInv, HostInCall, StationHasNoStations,
     ActsAsStation

\* Dropping stations leaves no new ones.
LEMMA DropHost ==
    ASSUME TypeOK, HostInv, NEW gone, Register(Drop(gone), net),
           UNCHANGED <<state, wk, ipc>>
    PROVE  HostInv'
<1>1. net \in NetworkInfo
  BY DEF TypeOK
<1>2. net'.ip = net.ip /\ st' = Drop(gone)
  BY <1>1, RegisterIps
<1>3. OverRelay(st') \subseteq OverRelay(st)
  BY <1>2 DEF OverRelay, Drop, FreeSlot
<1>4. OneRelaySlotPerConsole'
  BY <1>2, <1>3, FewerSlots DEF HostInv
<1>5. ActsAsStation => OverRelay(st') = {}
  BY <1>3 DEF HostInv, StationHasNoStations
<1> QED
  BY <1>1, <1>4, <1>5, RegisterHost, HostStep

\* The network with the address of station f written.
WithIp(f, p) == [net EXCEPT !.ip[f] = p]

\* Writing a station's address leaves node 0 and the other nodes alone.
LEMMA NodeIp ==
    ASSUME TypeOK, NEW f \in Slots, NEW p \in Peers
    PROVE  /\ WithIp(f, p) \in NetworkInfo
           /\ WithIp(f, p).bssid = net.bssid
           /\ WithIp(f, p).ip[0] = net.ip[0] /\ WithIp(f, p).conn[0] = net.conn[0]
           /\ WithIp(f, p).ip[f] = p
           /\ \A i \in Slots : i # f => WithIp(f, p).ip[i] = net.ip[i]
<1>1. 0 \in Nodes /\ 0 # f /\ \A i \in Slots : i \in Nodes
  BY ConstantsAssumption DEF Nodes, Slots
<1>2. net \in NetworkInfo
  BY DEF TypeOK
<1>3. WithIp(f, p) \in NetworkInfo
  BY NodeIpType DEF WithIp
<1> QED
  BY <1>1, <1>2, <1>3 DEF NetworkInfo, WithIp

\* A console's Connect takes a slot only when it has none.
LEMMA RelayConnectHost ==
    ASSUME TypeOK, HostInv, NEW p \in Peers, RelayConnect(p)
    PROVE  HostInv'
<1> DEFINE same == {i \in Slots : st[i].status # "Disconnected" /\ net.ip[i] = p}
           free == {i \in Slots : st[i].status = "Disconnected"}
<1>1. UNCHANGED <<state, wk, ipc>> /\ ~ActsAsStation
  BY HostIsNoStation DEF RelayConnect, RelayFrame, Handler
<1>2. net \in NetworkInfo /\ st \in StationTable
  BY DEF TypeOK
<1>3. CASE same # {}
  <2>1. Register([st EXCEPT ![First(same)].silent = FALSE], net)
    BY <1>3 DEF RelayConnect
  <2>2. net'.ip = net.ip /\ st' = [st EXCEPT ![First(same)].silent = FALSE]
    BY <1>2, <2>1, RegisterIps
  <2>3. OverRelay(st') \subseteq OverRelay(st)
    BY <1>2, <2>2 DEF OverRelay, StationTable
  <2>4. OneRelaySlotPerConsole'
    BY <2>2, <2>3, FewerSlots DEF HostInv
  <2> QED
    BY <1>1, <1>2, <2>1, <2>4, RegisterHost, HostStep
<1>4. CASE same = {}
  <2>1. free # {} /\ Register([st EXCEPT ![First(free)] =
                                 [FreeSlot EXCEPT !.status = "Connected"]],
                              [net EXCEPT !.ip[First(free)] = p])
    BY <1>4 DEF RelayConnect
  <2>2. PICK f \in free : f = First(free)
    BY <2>1, FirstIsMember
  <2> DEFINE n == WithIp(f, p)
             s == [st EXCEPT ![f] = [FreeSlot EXCEPT !.status = "Connected"]]
  <2>3. f \in Slots /\ st[f].status = "Disconnected" /\ Register(s, n)
    BY <2>1, <2>2 DEF WithIp
  <2> HIDE DEF same, free
  <2>4. /\ n \in NetworkInfo
        /\ n.bssid = net.bssid /\ n.ip[0] = net.ip[0] /\ n.conn[0] = net.conn[0]
        /\ n.ip[f] = p
        /\ \A i \in Slots : i # f => n.ip[i] = net.ip[i]
    BY <2>3, NodeIp
  <2>5. \A i \in OverRelay(st) : i \in Slots /\ i # f /\ net.ip[i] # p
    BY <1>4, <2>3 DEF OverRelay, same
  <2>6. OverRelay(s) \subseteq OverRelay(st) \cup {f}
    BY <1>2, <2>3 DEF OverRelay, StationTable, s
  <2> HIDE DEF n
  <2>7. net'.ip = n.ip /\ st' = s
    BY <2>3, <2>4, RegisterIps
  <2>8. \A i, j \in OverRelay(st) : net.ip[i] = net.ip[j] => i = j
    BY DEF HostInv, OneRelaySlotPerConsole, OverRelay
  <2>9. \A i, j \in OverRelay(st') : net'.ip[i] = net'.ip[j] => i = j
    BY <2>4, <2>5, <2>6, <2>7, <2>8
  <2>10. OneRelaySlotPerConsole'
    BY <2>9 DEF OneRelaySlotPerConsole, OverRelay
  <2> QED
    BY <1>1, <2>3, <2>4, <2>10, RegisterHost, HostStep
<1> QED
  BY <1>3, <1>4

\* A TCP connection takes its slot before its console is known.
LEMMA StationConnectHost ==
    ASSUME TypeOK, HostInv, NEW i \in Slots, NEW p \in Peers, StationConnect(i, p)
    PROVE  HostInv'
<1> DEFINE n == WithIp(i, p)
           s == [st EXCEPT ![i].status = "Connected"]
<1>1. Register(s, n) /\ st[i].tcp /\ UNCHANGED <<state, wk, ipc>>
  BY DEF StationConnect, WithIp
<1>2. st \in StationTable
  BY DEF TypeOK
<1>3. /\ n \in NetworkInfo
      /\ n.bssid = net.bssid /\ n.ip[0] = net.ip[0] /\ n.conn[0] = net.conn[0]
      /\ \A j \in Slots : j # i => n.ip[j] = net.ip[j]
  BY NodeIp
<1>4. \A j \in OverRelay(s) : j \in OverRelay(st) /\ j # i /\ j \in Slots
  BY <1>1, <1>2 DEF OverRelay, StationTable
<1> HIDE DEF n, s
<1>5. net'.ip = n.ip /\ st' = s
  BY <1>1, <1>3, RegisterIps
<1>6. OneRelaySlotPerConsole'
  BY <1>3, <1>4, <1>5, FewerSlots DEF HostInv
<1>7. ActsAsStation => OverRelay(st') = {}
  BY <1>4, <1>5 DEF HostInv, StationHasNoStations
<1> QED
  BY <1>1, <1>3, <1>6, <1>7, RegisterHost, HostStep

\* A step that neither joins nor drops a station.
LEMMA QuietHost ==
    ASSUME HostInv, UNCHANGED <<state, net, wk, ipc>>,
           \A i \in Slots : st'[i].status = "Connected" <=> st[i].status = "Connected",
           OverRelay(st') \subseteq OverRelay(st)
    PROVE  HostInv'
<1>1. OneRelaySlotPerConsole'
  BY FewerSlots DEF HostInv
<1>2. Members(st') = Members(st)
  BY DEF Members
<1>3. state = "AccessPointCreated" => Describes(net', st', wk.gone, ipc.pc = "set")
  BY <1>2 DEF HostInv, HostTableMatchesSlots, Describes
<1>4. ActsAsStation => OverRelay(st') = {}
  BY DEF HostInv, StationHasNoStations
<1> QED
  BY <1>1, <1>3, <1>4, HostStep

LEMMA HostEventHost ==
    ASSUME TypeOK, GoneInv, HostInv, HostEvent
    PROVE  HostInv'
<1>1. st \in StationTable
  BY DEF TypeOK
<1>2. ASSUME NEW p \in Peers, Heartbeat(p)
      PROVE  HostInv'
  <2>1. st' = [i \in Slots |-> IF i \in RelaySlots(p)
                               THEN [st[i] EXCEPT !.silent = FALSE] ELSE st[i]]
    BY <1>2 DEF Heartbeat
  <2>2. \A i \in Slots : st'[i].status = st[i].status /\ st'[i].tcp = st[i].tcp
    BY <1>1, <2>1 DEF StationTable
  <2>3. OverRelay(st') \subseteq OverRelay(st)
    BY <2>2 DEF OverRelay
  <2> QED
    BY <1>2, <2>2, <2>3, QuietHost DEF Heartbeat
<1>3. ASSUME NEW p \in Peers, StationBye(p)
      PROVE  HostInv'
  BY <1>3, DropHost DEF StationBye
<1>4. CASE Reap
  BY <1>4, FreeHost DEF Reap, GoneInv
<1>5. CASE Accept
  <2> DEFINE free == {i \in Slots : st[i].status = "Disconnected"}
             f    == First(free)
  <2>1. /\ free # {}
        /\ st' = [st EXCEPT ![f] = [status |-> "Connect", tcp |-> TRUE, silent |-> FALSE]]
    BY <1>5 DEF Accept
  <2>2. f \in free
    BY <2>1, FirstIsMember
  <2>3. f \in Slots /\ st[f].status = "Disconnected"
    BY <2>2
  <2> HIDE DEF f
  <2>4. \A i \in Slots : st'[i].status = "Connected" <=> st[i].status = "Connected"
    BY <1>1, <2>1, <2>3 DEF StationTable
  <2>5. OverRelay(st') \subseteq OverRelay(st)
    BY <1>1, <2>1, <2>3 DEF OverRelay, StationTable
  <2> QED
    BY <1>5, <2>4, <2>5, QuietHost DEF Accept
<1>6. ASSUME NEW i \in Slots, StationClosed(i)
      PROVE  HostInv'
  BY <1>6, FreeHost DEF StationClosed, Handler, GoneInv
<1> QED
  BY <1>2, <1>3, <1>4, <1>5, <1>6, RelayConnectHost, StationConnectHost DEF HostEvent

LEMMA TimeHost ==
    ASSUME TypeOK, HostInv, Time
    PROVE  HostInv'
<1>1. CASE HostGoesSilent
  BY <1>1, QuietHost DEF HostGoesSilent
<1>2. ASSUME NEW i \in Slots, StationGoesSilent(i)
      PROVE  HostInv'
  <2>1. st \in StationTable /\ st' = [st EXCEPT ![i].silent = TRUE]
    BY <1>2 DEF StationGoesSilent, TypeOK
  <2>2. \A k \in Slots : st'[k].status = st[k].status /\ st'[k].tcp = st[k].tcp
    BY <2>1 DEF StationTable
  <2>3. OverRelay(st') \subseteq OverRelay(st)
    BY <2>2 DEF OverRelay
  <2> QED
    BY <1>2, <2>2, <2>3, QuietHost DEF StationGoesSilent
<1> QED
  BY <1>1, <1>2 DEF Time

-----------------------------------------------------------------------------
(* The invariants. *)

\* Only the worker frees slots outside resetStations, and updateNodes follows at once.
LEMMA GoneNext ==
    ASSUME TypeOK, SessionInv, GoneInv, [Next]_vars
    PROVE  GoneInv'
<1> USE DEF GoneInv
<1>1. CASE GameCall
  <2>1. CASE Initialize
    <3>1. PICK enabled \in RelaySettings : Build(enabled) \/ BuildFails(enabled)
      BY <2>1 DEF Initialize
    <3>2. wk.pc = "off"
      BY <2>1 DEF Initialize, GameMay, SessionInv, SessionWholeOrGone
    <3>3. wk' = [wk EXCEPT !.pc = "starting"] \/ wk' = wk
      BY <3>1 DEF Build, BuildFails
    <3> QED
      BY <3>2, <3>3 DEF TypeOK, WorkerState
  <2>2. CASE ~Initialize
    <3>1. wk' = wk
      BY <1>1, <2>2 DEF GameCall, Finalize, OpenAccessPoint, CloseAccessPoint, OpenStation,
         CloseStation, CreateNetwork, DestroyNetwork, SetAdvertiseData, Disconnect, Connect,
         Open, Close
    <3> QED
      BY <3>1
  <2> QED
    BY <2>1, <2>2
<1>2. CASE CallPiece
  <2>1. CASE WorkerJoined
    BY <2>1, RecordMoves DEF WorkerJoined
  <2>2. CASE Reopen
    <3>1. PICK enabled \in RelaySettings : Build(enabled) \/ BuildFails(enabled)
      BY <2>2 DEF Reopen
    <3>2. wk.pc = "off"
      BY <2>2 DEF Reopen, SessionInv, SessionInCall, SessionWholeOrGone
    <3>3. wk' = [wk EXCEPT !.pc = "starting"] \/ wk' = wk
      BY <3>1 DEF Build, BuildFails
    <3> QED
      BY <3>2, <3>3 DEF TypeOK, WorkerState
  <2>3. CASE ~WorkerJoined /\ ~Reopen
    <3>1. wk' = wk
      BY <1>2, <2>3 DEF CallPiece, SessionStarted, ResetStations, CloseHostSocket,
         ForgetTarget, SetState, Announce, RecordTarget, ArmRelayJoin, LookForSync,
         RelayJoined, FallBackToTcp, Dial, Dialled, LookForTcpSync, AbortJoin
    <3> QED
      BY <3>1
  <2> QED
    BY <2>1, <2>2, <2>3
<1>3. CASE WorkerPiece
  <2>1. CASE NodesUpdated
    BY <2>1, RecordMoves DEF NodesUpdated
  <2>2. CASE ~NodesUpdated
    <3>1. CASE Dropped
      BY <3>1 DEF Dropped, TypeOK, WorkerState
    <3>2. CASE SyncedState
      BY <3>2 DEF SyncedState, TypeOK, WorkerState
    <3>3. CASE WorkerStarts \/ WorkerLoop \/ PollDone \/ BeaconDone
      <4>1. wk.pc # "update" /\ \E l : wk' = [wk EXCEPT !.pc = l]
        BY <3>3 DEF WorkerStarts, WorkerLoop, PollDone, BeaconDone, WorkerAt
      <4> QED
        BY <4>1 DEF TypeOK, WorkerState
    <3> QED
      BY <1>3, <2>2, <3>1, <3>2, <3>3 DEF WorkerPiece
  <2> QED
    BY <2>1, <2>2
<1>4. ASSUME NEW gone, Free(gone)
      PROVE  GoneInv'
  BY <1>4 DEF Free, TypeOK, WorkerState
<1>5. CASE HostEvent
  <2>1. wk' = wk \/ \E gone : Free(gone)
    BY <1>5 DEF HostEvent, RelayConnect, Heartbeat, StationBye, Reap, Accept,
       StationClosed, StationConnect
  <2> QED
    BY <1>4, <2>1
<1>6. ASSUME NEW why, DisconnectFromHost(why), wk.pc # "update"
      PROVE  GoneInv'
  BY <1>6 DEF DisconnectFromHost, TypeOK, WorkerState
<1>7. CASE StationEvent
  <2>1. ASSUME NEW info, RelaySync(info) \/ TcpSync(info)
        PROVE  GoneInv'
    <3>1. wk.pc = "poll" /\ SyncNetwork(info)
      BY <2>1 DEF RelaySync, TcpSync, RelayFrame, Handler
    <3>2. wk' = wk \/ wk' = [wk EXCEPT !.pc = "flip"]
      BY <3>1 DEF SyncNetwork
    <3> QED
      BY <3>1, <3>2 DEF TypeOK, WorkerState
  <2>2. ASSUME NEW h \in Peers, HostBeacon(h) \/ HostBye(h)
        PROVE  GoneInv'
    <3>1. CASE HostBeacon(h)
      BY <3>1 DEF HostBeacon
    <3>2. CASE HostBye(h)
      <4>1. wk.pc # "update" /\ DisconnectFromHost("DestroyedByUser")
        BY <3>2 DEF HostBye, RelayFrame, Handler
      <4> QED
        BY <1>6, <4>1
    <3> QED
      BY <2>2, <3>1, <3>2
  <2>3. CASE TcpClosed \/ HostLost
    <3>1. wk.pc # "update" /\ \E why : DisconnectFromHost(why)
      BY <2>3 DEF TcpClosed, HostLost, Handler
    <3> QED
      BY <1>6, <3>1
  <2> QED
    BY <1>7, <2>1, <2>2, <2>3 DEF StationEvent
<1>8. CASE SocketEvent
  <2>1. wk' = wk \/ (wk.pc = "poll" /\ wk' = [wk EXCEPT !.pc = "exited"])
    BY <1>8 DEF SocketEvent, UdpClosed, RelayClosed, RelayReopened, PollFails, WorkerAt
  <2> QED
    BY <2>1 DEF TypeOK, WorkerState
<1>9. CASE Time \/ UNCHANGED vars
  BY <1>9 DEF Time, HostGoesSilent, StationGoesSilent, vars
<1> QED
  BY <1>1, <1>2, <1>3, <1>5, <1>7, <1>8, <1>9 DEF Next

LEMMA LanInvInit == Init => LanInv
<1> SUFFICES ASSUME Init PROVE LanInv
  OBVIOUS
<1>1. TypeOK
  BY TypeCorrectInit
<1>2. SessionInv
  BY DEF Init, SessionInv, CallAt, SessionInCall, SessionWholeOrGone,
     DeadSocketIsMarked
<1>3. TargetInv
  BY DEF Init, TargetInv, FlipHasTarget, ConnectedOnlyWithTarget
<1>4. OverRelay(st) = {}
  BY NoStationsEmpty DEF Init
<1>5. OneRelaySlotPerConsole
  BY <1>4 DEF OneRelaySlotPerConsole, OverRelay
<1>6. HostInv
  BY <1>4, <1>5 DEF Init, HostInv, HostInCall, HostTableMatchesSlots,
     StationHasNoStations
<1>7. GoneInv
  BY DEF Init, GoneInv
<1> QED
  BY <1>1, <1>2, <1>3, <1>6, <1>7 DEF LanInv

LEMMA LanInvNext == LanInv /\ [Next]_vars => LanInv'
<1> SUFFICES ASSUME LanInv, [Next]_vars PROVE LanInv'
  OBVIOUS
<1>1. TypeOK /\ SessionInv /\ TargetInv /\ GoneInv /\ HostInv
  BY DEF LanInv
<1>2. TypeOK'
  BY <1>1, TypeCorrectNext
<1>3. SessionInv'
  <2>1. CASE UNCHANGED vars
    BY <1>1, <2>1 DEF vars, sockets, SessionInv, CallAt, SessionInCall,
       SessionWholeOrGone, DeadSocketIsMarked
  <2> QED
    BY <1>1, <2>1, GameCallSession, CallPieceSession, WorkerPieceSession,
       HostEventSession, StationEventSession, SocketEventSession, TimeSession DEF Next
<1>4. TargetInv'
  <2>1. CASE UNCHANGED vars
    BY <1>1, <2>1 DEF vars, TargetInv, FlipHasTarget, ConnectedOnlyWithTarget
  <2> QED
    BY <1>1, <2>1, GameCallTarget, CallPieceTarget, WorkerPieceTarget,
       HostEventTarget, StationEventTarget, SocketEventTarget DEF Next
<1>5. HostInv'
  <2>1. CASE UNCHANGED vars
    BY <1>1, <2>1, QuietHost DEF vars
  <2> QED
    BY <1>1, <2>1, GameCallHost, CallPieceHost, WorkerPieceHost, HostEventHost,
       StationEventHost, SocketEventHost, TimeHost DEF Next
<1>6. GoneInv'
  BY <1>1, GoneNext
<1> QED
  BY <1>2, <1>3, <1>4, <1>5, <1>6 DEF LanInv

\* Everything above holds at every moment.
THEOREM LanInvariant == Spec => []LanInv
<1> QED
  BY LanInvInit, LanInvNext, PTL DEF Spec

\* The session is whole or gone, however initialize and finalize fail, are
\* repeated, and overlap with the worker thread.
THEOREM SessionIsWholeOrGone == Spec => []SessionWholeOrGone
<1>1. LanInv => SessionWholeOrGone
  BY DEF LanInv, SessionInv
<1> QED
  BY <1>1, LanInvariant, PTL

\* A session whose discovery socket died stays marked for a rebuild.
THEOREM DeadSocketStaysMarked == Spec => []DeadSocketIsMarked
<1>1. LanInv => DeadSocketIsMarked
  BY DEF LanInv, SessionInv
<1> QED
  BY <1>1, LanInvariant, PTL

\* A connected console has a join target: no sync connects one that has given it up.
THEOREM ConnectedMeansTarget == Spec => []ConnectedOnlyWithTarget
<1>1. LanInv => ConnectedOnlyWithTarget
  BY DEF LanInv, TargetInv
<1> QED
  BY <1>1, LanInvariant, PTL

\* Only the end of a sync that is being handled makes a station connected.
LEMMA SyncConnects ==
    ASSUME SessionInv, [Next]_vars, state # "StationConnected", state' = "StationConnected"
    PROVE  SyncedState
<1>1. CASE GameCall
  <2>1. state' = state
    BY <1>1 DEF GameCall, Initialize, Build, BuildFails, Finalize, OpenAccessPoint,
       CloseAccessPoint, OpenStation, CloseStation, CreateNetwork, DestroyNetwork,
       SetAdvertiseData, Disconnect, Connect, Open, Close
  <2> QED
    BY <2>1
<1>2. CASE CallPiece
  <2>1. state' \in {state, "Initialized", "None", "AccessPoint", "Station",
                    "AccessPointCreated"}
    BY <1>2 DEF CallPiece, SessionStarted, WorkerJoined, Reopen, Build, BuildFails,
       ResetStations, CloseHostSocket, ForgetTarget, SetState, Announce, RecordTarget,
       ArmRelayJoin, LookForSync, RelayJoined, FallBackToTcp, Dial, Dialled,
       LookForTcpSync, AbortJoin
  <2> QED
    BY <2>1
<1>3. CASE WorkerPiece
  BY <1>3 DEF WorkerPiece, WorkerStarts, WorkerLoop, PollDone, BeaconDone, Dropped,
     NodesUpdated, WorkerAt
<1>4. CASE HostEvent
  BY <1>4 DEF HostEvent, RelayConnect, Heartbeat, StationBye, Reap, Accept,
     StationClosed, StationConnect, Free
<1>5. CASE StationEvent
  BY <1>5 DEF StationEvent, HostBeacon, HostBye, RelaySync, TcpSync, SyncNetwork,
     TcpClosed, HostLost
<1>6. CASE SocketEvent
  BY <1>6 DEF SocketEvent, UdpClosed, RelayClosed, RelayReopened, PollFails, WorkerAt
<1>7. CASE Time \/ UNCHANGED vars
  BY <1>7 DEF Time, HostGoesSilent, StationGoesSilent, vars
<1> QED
  BY <1>1, <1>2, <1>3, <1>4, <1>5, <1>6, <1>7 DEF Next

\* A station becomes connected only to the host it has set out to join, while it is out
\* to join it.
THEOREM JoinsItsTarget == Spec => ConnectsToItsTarget
<1>1. LanInv /\ [Next]_vars =>
        [(state # "StationConnected" /\ state' = "StationConnected") =>
            join.active /\ net.bssid = join.bssid]_vars
  BY SyncConnects DEF LanInv, TargetInv, FlipHasTarget, SyncedState
<1> QED
  BY <1>1, LanInvariant, PTL DEF Spec, ConnectsToItsTarget

\* A host's network describes its slots, however stations come and go, but for the
\* moments in which the code has freed a slot and not yet said so.
THEOREM HostTableIsRight == Spec => []HostTableMatchesSlots
<1>1. LanInv => HostTableMatchesSlots
  BY DEF LanInv, HostInv
<1> QED
  BY <1>1, LanInvariant, PTL

\* A console that repeats its Connect keeps its one slot.
THEOREM RelaySlotsAreUnique == Spec => []OneRelaySlotPerConsole
<1>1. LanInv => OneRelaySlotPerConsole
  BY DEF LanInv, HostInv
<1> QED
  BY <1>1, LanInvariant, PTL

=============================================================================
