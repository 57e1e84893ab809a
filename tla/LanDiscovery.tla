---------------------------- MODULE LanDiscovery ----------------------------
(***************************************************************************)
(* One console running ldn_mitm: the LANDiscovery object of a game's ldn:u *)
(* session, with its two threads.                                          *)
(*                                                                         *)
(*   - the IPC thread runs the game's calls (OpenStation, Connect, ...),   *)
(*     one at a time;                                                      *)
(*   - the worker thread polls the sockets, runs their handlers with       *)
(*     pollMutex held, and then the 5 s beacon work without it.            *)
(*                                                                         *)
(* A call or a handler is cut into the pieces the locks cut it into: a     *)
(* piece is atomic exactly where the code holds the mutex that protects    *)
(* what it touches, or where no step of the other thread can tell.         *)
(* CommState (`state') is written by both threads under neither mutex.     *)
(*                                                                         *)
(* The other consoles are the environment: a handler receives any          *)
(* well-formed frame that a console of Peers could have sent.  A network   *)
(* is named by its host's address, from which the code derives the bssid.  *)
(***************************************************************************)
EXTENDS Naturals, FiniteSets

CONSTANTS
    Self,             \* this console's IPv4 address
    Peers,            \* the addresses of the other consoles
    NoIp,             \* the address 0
    StationCountMax,  \* slots for stations when hosting (7 in the code)
    Roles,            \* what the game does: "host", "station"
    RelaySettings,    \* the values the Internet relay toggle may take
    TcpJoins,         \* whether consoles reach each other over TCP as well
    NifmMayFail       \* whether reading the IP configuration may fail

ASSUME ConstantsAssumption ==
    /\ Self \notin Peers
    /\ NoIp \notin Peers \cup {Self}
    /\ StationCountMax \in Nat \ {0}
    /\ Roles \in SUBSET {"host", "station"}
    /\ RelaySettings \in SUBSET BOOLEAN
    /\ TcpJoins \in BOOLEAN
    /\ NifmMayFail \in BOOLEAN

Slots == 1 .. StationCountMax      \* node ids of the stations of a network
Nodes == 0 .. StationCountMax      \* node 0 is the host
Ips   == Peers \cup {Self, NoIp}

CommState == {"None", "Initialized", "AccessPoint", "AccessPointCreated",
              "Station", "StationConnected", "Error"}

DisconnectReason == {"None", "DestroyedByUser", "SignalLost",
                     "DestroyedBySystem", "DisconnectedBySystem"}

VARIABLES
    state,   \* CommState
    reason,  \* disconnect_reason
    net,     \* networkInfo: bssid (its host), per node ip and isConnected, nodeCount
    st,      \* stations: status, whether it holds a TCP socket, silent too long
    join,    \* joinActive, joinBssid, joinAwaitSelfIp # 0, relayJoined
    hostSilent, \* hostLastSeen is older than RelayPeerTimeoutMs
    reg,     \* SessionRegistry: active, peer_ips
    udp, tcp, relay, \* the sockets, see TypeOK
    tcpPeer, \* whom the station-side TCP socket was dialled to
    life,    \* initialized, stop, needsReinit, initRelay
    wk,      \* the worker thread: where it is, within pollMutex or not, the reason
             \* an onDisconnectFromHost in progress will report, and the slots it
             \* has freed but updateNodes has not yet looked at
    ipc      \* the IPC thread: the call in progress, where it is, Connect's
             \* target, and what the last Connect returned

sockets == <<udp, tcp, relay, tcpPeer>>
vars == <<state, reason, net, st, join, hostSilent, reg, sockets, life, wk, ipc>>

NetworkInfo  == [bssid: Ips, ip: [Nodes -> Ips], conn: [Nodes -> BOOLEAN],
                 count: 0 .. StationCountMax + 1]
StationTable == [Slots -> [status: {"Disconnected", "Connect", "Connected"},
                           tcp: BOOLEAN, silent: BOOLEAN]]
JoinState    == [active: BOOLEAN, bssid: Ips, await: BOOLEAN, joined: BOOLEAN]
Registry     == [active: BOOLEAN, peers: SUBSET Peers]
LifeState    == [init: BOOLEAN, stop: BOOLEAN, reinit: BOOLEAN, latch: BOOLEAN]
WorkerPcs    == {"off", "starting", "loop", "poll", "flip", "drop", "update", "beacon",
                 "exited"}
WorkerState  == [pc: WorkerPcs, locked: BOOLEAN, why: DisconnectReason,
                 gone: SUBSET Slots]
Calls   == {"none", "Initialize", "Finalize", "OpenAccessPoint", "CloseAccessPoint", "OpenStation",
            "CloseStation", "CreateNetwork", "DestroyNetwork", "Connect", "Disconnect"}
CallPcs == {"idle", "join", "reopen", "started", "reset", "closeTcp", "forget", "set", "create",
            "target", "arm", "wait", "armed", "fallback", "dial", "dialing", "sync", "abort"}
CallState == [call: Calls, pc: CallPcs, host: Ips, ret: {"none", "ok", "failed"}]

TypeOK ==
    /\ state \in CommState
    /\ reason \in DisconnectReason
    /\ net \in NetworkInfo
    /\ st \in StationTable
    /\ join \in JoinState
    /\ hostSilent \in BOOLEAN
    /\ reg \in Registry
    /\ udp \in {"none", "open", "closed"}
    /\ tcp \in {"none", "closed", "listening", "connecting", "connected"}
    /\ relay \in {"none", "open", "closed"}
    /\ tcpPeer \in Ips
    /\ life \in LifeState
    /\ wk \in WorkerState
    /\ ipc \in CallState

-----------------------------------------------------------------------------
(* Data the handlers share. *)

FreeSlot == [status |-> "Disconnected", tcp |-> FALSE, silent |-> FALSE]
NoStations == [i \in Slots |-> FreeSlot]

\* The loops over stations take the first slot that fits.
First(S) == CHOOSE k \in S : \A j \in S : k <= j

Members(s) == {i \in Slots : s[i].status = "Connected"}
Listed(n)  == {i \in Slots : n.conn[i]}

\* Faulty: counts the host twice.
NodesRead_HostTwice(n, counted, seen) ==
    [n EXCEPT !.conn = [k \in Nodes |-> IF k = 0 THEN n.conn[0] ELSE k \in seen],
              !.count = Cardinality(counted) + 2]

\* updateNodes: the slots it counts decide nodeCount, those it sees isConnected; an
\* address written into a slot's node stays there when the slot is reset.
NodesRead(n, counted, seen) ==
    [n EXCEPT !.conn = [k \in Nodes |-> IF k = 0 THEN n.conn[0] ELSE k \in seen],
              !.count = Cardinality(counted) + 1]

UpdateNodes(n, s) == NodesRead(n, Members(s), Members(s))

\* publishSessionRegistry: the addresses of the first nodeCount nodes.
PeersOf(n) == {n.ip[k] : k \in {j \in Nodes : j < n.count}} \ {NoIp, Self}

Publish(n) ==
    \/ reg' = [active |-> TRUE, peers |-> PeersOf(n)]
    \/ NifmMayFail /\ UNCHANGED reg

ClearRegistry == reg' = [active |-> FALSE, peers |-> {}]

\* The slots and the network a station joins.
Register(s, n) ==
    /\ st' = s
    /\ net' = UpdateNodes(n, s)
    /\ Publish(net')

\* updateNodes beside another thread that has just freed the slots `stale' without
\* dataMutex: it reads the status of a slot twice, to count it and to mark its node,
\* and each time it may be early and find the slot connected still.
RegisterBeside(n, stale) ==
    /\ \E counted \in SUBSET stale : \E seen \in SUBSET counted :
          net' = NodesRead(n, Members(st) \cup counted, Members(st) \cup seen)
    /\ Publish(net')
    /\ UNCHANGED st

\* A NetworkInfo a host h may broadcast: it is node 0, each station slot holds a
\* console, or nobody, or the address of one that has left.
NetworksOf(h) ==
    {[bssid |-> h,
      ip    |-> [k \in Nodes |-> IF k = 0 THEN h ELSE slot[k].ip],
      conn  |-> [k \in Nodes |-> IF k = 0 THEN TRUE ELSE slot[k].conn],
      count |-> Cardinality({k \in Slots : slot[k].conn}) + 1] :
        slot \in [Slots -> {e \in [ip: Ips \ {h}, conn: BOOLEAN] :
                              e.conn => e.ip # NoIp}]}

ListsSelf(n) == \E k \in Nodes : n.conn[k] /\ n.ip[k] = Self

PollHeld == wk.pc \in {"poll", "flip"} \/ (wk.pc \in {"drop", "update"} /\ wk.locked)
DataHeld == wk.pc = "flip" \/ (wk.pc = "update" /\ ~wk.locked)

\* The slots that the worker frees without dataMutex, for updateNodes of the IPC thread.
FreedByWorker == IF wk.locked THEN wk.gone \cap Listed(net) ELSE {}

\* Those that resetStations of the IPC thread has freed, for updateNodes of the worker.
FreedByCall == IF wk.locked THEN {} ELSE Listed(net) \ (Members(st) \cup wk.gone)

-----------------------------------------------------------------------------
(* initialize and finalize, whose pieces several calls use. *)

\* initialize() succeeds: the relay transport may fail to open, in which case the
\* session is local-only.  The worker thread is started: from then on it may run,
\* although the session is not yet marked as initialized (SessionStarted).
Build(enabled) ==
    /\ \E r \in IF enabled THEN {"open", "none"} ELSE {relay} : relay' = r
    /\ udp' = "open"
    /\ st' = NoStations
    /\ life' = [life EXCEPT !.reinit = FALSE, !.latch = enabled]
    /\ wk' = [wk EXCEPT !.pc = "starting"]
    /\ UNCHANGED <<state, tcp, tcpPeer>>

\* initialize() fails: before anything is built, or when the worker thread
\* cannot be created, which drops the udp socket but not the relay.
BuildFails(enabled) ==
    /\ \/ UNCHANGED <<life, relay, st>>
       \/ /\ life' = [life EXCEPT !.reinit = FALSE, !.latch = enabled]
          /\ \E r \in {relay} \cup (IF enabled THEN {"open", "none"} ELSE {}) :
                relay' = r
          /\ st' = NoStations
    /\ UNCHANGED <<udp, tcp, tcpPeer, wk, state>>

\* finalize(), up to the wait for the worker thread.
AskWorkerToStop ==
    /\ ClearRegistry
    /\ life' = [life EXCEPT !.stop = TRUE]

Return(r) == ipc' = [ipc EXCEPT !.call = "none", !.pc = "idle",
                                !.host = NoIp, !.ret = r]
Goto(l) == ipc' = [ipc EXCEPT !.pc = l]

-----------------------------------------------------------------------------
(* The game's calls: the IPC thread. *)

\* A game follows the LDN state machine: it makes a call only in a state that it
\* has just read with GetState (the state may change under the call).
GameMay(call, states) ==
    /\ ipc.pc = "idle"
    /\ state \in states

Begin(call, l, h) == ipc' = [call |-> call, pc |-> l, host |-> h, ret |-> "none"]

Initialize ==
    /\ GameMay("Initialize", {"None"})
    /\ ~life.init
    /\ \E enabled \in RelaySettings :
          \/ Build(enabled) /\ Begin("Initialize", "started", NoIp)
          \/ BuildFails(enabled) /\ UNCHANGED ipc
    /\ UNCHANGED <<reason, net, join, hostSilent, reg>>

\* The last statements of initialize(), with the worker already running.
SessionStarted ==
    /\ ipc.pc = "started"
    /\ state' = "Initialized"
    /\ life' = [life EXCEPT !.init = TRUE]
    /\ IF ipc.call = "Initialize" THEN Return("none") ELSE Goto("reset")
    /\ UNCHANGED <<reason, net, st, join, hostSilent, reg, sockets, wk>>

\* Finalize of an initialized session: the registry is cleared first, then the
\* worker is asked to stop and waited for.
Finalize ==
    /\ GameMay("Finalize", CommState \ {"None"})
    /\ life.init
    /\ AskWorkerToStop
    /\ Begin("Finalize", "join", NoIp)
    /\ UNCHANGED <<state, reason, net, st, join, hostSilent, sockets, wk>>

\* Faulty: does not wait for the worker.
WorkerJoined_NoWait ==
    /\ ipc.pc = "join"
    /\ wk' = [wk EXCEPT !.pc = IF @ = "exited" THEN "off" ELSE @]
    /\ udp' = "none" /\ tcp' = "none" /\ relay' = "none" /\ tcpPeer' = NoIp
    /\ st' = NoStations
    /\ life' = [life EXCEPT !.init = FALSE]
    /\ state' = "None"
    /\ IF ipc.call = "Finalize" THEN Return("none") ELSE Goto("reopen")
    /\ UNCHANGED <<reason, net, join, hostSilent, reg>>

\* WaitThread returns: the sockets and the slots go, nifm is released.
WorkerJoined ==
    /\ ipc.pc = "join"
    /\ wk.pc = "exited"
    /\ wk' = [wk EXCEPT !.pc = "off"]
    /\ udp' = "none" /\ tcp' = "none" /\ relay' = "none" /\ tcpPeer' = NoIp
    /\ st' = NoStations
    /\ life' = [life EXCEPT !.init = FALSE]
    /\ state' = "None"
    /\ IF ipc.call = "Finalize" THEN Return("none") ELSE Goto("reopen")
    /\ UNCHANGED <<reason, net, join, hostSilent, reg>>

\* OpenAccessPoint and OpenStation rebuild the session first when the relay
\* toggle changed or a socket died with its interface (refreshNetworkSession).
Open(call) ==
    /\ GameMay(call, {"Initialized", "Error"})
    /\ reason' = "None"
    /\ \E enabled \in RelaySettings :
          IF life.init /\ (enabled # life.latch \/ life.reinit)
          THEN AskWorkerToStop /\ Begin(call, "join", NoIp)
          ELSE Begin(call, "reset", NoIp) /\ UNCHANGED <<reg, life>>
    /\ UNCHANGED <<state, net, st, join, hostSilent, sockets, wk>>

OpenAccessPoint == "host" \in Roles /\ Open("OpenAccessPoint")
OpenStation == "station" \in Roles /\ Open("OpenStation")

Reopen ==
    /\ ipc.pc = "reopen"
    /\ \E enabled \in RelaySettings :
          \/ Build(enabled) /\ Goto("started")
          \/ BuildFails(enabled) /\ Return("none")
    /\ UNCHANGED <<reason, net, join, hostSilent, reg>>

\* CloseAccessPoint, CloseStation and DestroyNetwork say goodbye over the relay
\* (a send) and clear the registry; the sockets go later, under pollMutex.
Close(call, states) ==
    /\ GameMay(call, states)
    /\ ClearRegistry
    /\ Begin(call, "reset", NoIp)
    /\ UNCHANGED <<state, reason, net, st, join, hostSilent, sockets, life, wk>>

CloseAccessPoint == Close("CloseAccessPoint",
                          {"AccessPoint", "AccessPointCreated", "Error"})
CloseStation == Close("CloseStation", {"Station", "StationConnected", "Error"})
DestroyNetwork == Close("DestroyNetwork", {"AccessPointCreated"})

CloseTcp == tcp' = (IF tcp = "none" THEN "none" ELSE "closed") /\ tcpPeer' = NoIp

ResetStations ==
    /\ ipc.pc = "reset"
    /\ ~PollHeld
    /\ CloseTcp
    /\ st' = NoStations
    /\ Goto(IF ipc.call = "OpenStation" THEN "forget" ELSE "set")
    /\ UNCHANGED <<state, reason, net, join, hostSilent, reg, udp, relay, life, wk>>

Disconnect ==
    /\ GameMay("Disconnect", {"Station", "StationConnected"})
    /\ ClearRegistry
    /\ Begin("Disconnect", "closeTcp", NoIp)
    /\ UNCHANGED <<state, reason, net, st, join, hostSilent, sockets, life, wk>>

CloseHostSocket ==
    /\ ipc.pc = "closeTcp"
    /\ ~PollHeld
    /\ CloseTcp
    /\ Goto("forget")
    /\ UNCHANGED <<state, reason, net, st, join, hostSilent, reg, udp, relay, life, wk>>

\* "No longer joined: stop accepting sync for the old network."
ForgetTarget ==
    /\ ipc.pc = "forget"
    /\ ~DataHeld
    /\ join' = [join EXCEPT !.active = FALSE, !.joined = FALSE, !.await = FALSE]
    /\ Goto("set")
    /\ UNCHANGED <<state, reason, net, st, hostSilent, reg, sockets, life, wk>>

\* The call's last statement, under no mutex: setState.
SetState ==
    /\ ipc.pc = "set"
    /\ state' = CASE ipc.call \in {"OpenAccessPoint", "DestroyNetwork"} -> "AccessPoint"
                  [] ipc.call \in {"OpenStation", "Disconnect"} -> "Station"
                  [] OTHER -> "Initialized"
    /\ Return("none")
    /\ UNCHANGED <<reason, net, st, join, hostSilent, reg, sockets, life, wk>>

\* CreateNetwork: a fresh listening socket under pollMutex, ...
CreateNetwork ==
    /\ GameMay("CreateNetwork", {"AccessPoint"})
    /\ ~PollHeld
    /\ \/ tcp' = "listening" /\ Begin("CreateNetwork", "create", NoIp)
       \/ CloseTcp /\ UNCHANGED ipc          \* initTcp failed
    /\ tcpPeer' = NoIp
    /\ UNCHANGED <<state, reason, net, st, join, hostSilent, reg, udp, relay, life, wk>>

\* ... then the network, under dataMutex.
Announce ==
    /\ ipc.pc = "create"
    /\ ~DataHeld
    /\ Return("none")
    /\ LET blank == [net EXCEPT !.bssid = Self, !.conn = [k \in Nodes |-> FALSE]]
           own == [blank EXCEPT !.ip[0] = Self, !.conn[0] = TRUE]
       IN \/ /\ RegisterBeside(own, FreedByWorker)
             /\ state' = "AccessPointCreated"
          \/ /\ NifmMayFail              \* getFakeMac or getNodeInfo failed
             /\ net' \in {net, blank}
             /\ UNCHANGED <<reg, state, st>>
    /\ UNCHANGED <<reason, join, hostSilent, sockets, life, wk>>

SetAdvertiseData ==
    /\ GameMay("SetAdvertiseData", {"AccessPoint", "AccessPointCreated"})
    /\ ~DataHeld
    /\ RegisterBeside(net, FreedByWorker)
    /\ UNCHANGED <<state, reason, join, hostSilent, sockets, life, wk, ipc>>

-----------------------------------------------------------------------------
(* connect(), piece by piece. *)

\* The game has read Station and calls; nothing looks at the state again.
Connect(h) ==
    /\ GameMay("Connect", {"Station"})
    /\ Begin("Connect", "target", h)
    /\ UNCHANGED <<state, reason, net, st, join, hostSilent, reg, sockets, life, wk>>

\* Record the target, so that a fast answer is accepted.
RecordTarget ==
    /\ ipc.pc = "target"
    /\ ~DataHeld
    /\ join' = [join EXCEPT !.active = TRUE, !.bssid = ipc.host]
    /\ Goto(IF relay = "none" THEN "dial" ELSE "arm")
    /\ UNCHANGED <<state, reason, net, st, hostSilent, reg, sockets, life, wk>>

\* From here on a sync must list this console; send Connect over the relay.
ArmRelayJoin ==
    /\ ipc.pc = "arm"
    /\ ~DataHeld
    /\ \/ join' = [join EXCEPT !.await = TRUE] /\ Goto("wait")
       \/ NifmMayFail /\ Return("failed") /\ UNCHANGED join
    /\ UNCHANGED <<state, reason, net, st, hostSilent, reg, sockets, life, wk>>

\* Faulty: waits for the sync without a bound.
LookForSync_NoBound ==
    /\ ipc.pc = "wait"
    /\ Goto(IF state = "StationConnected" THEN "armed" ELSE "wait")
    /\ UNCHANGED <<state, reason, net, st, join, hostSilent, reg, sockets, life, wk>>

\* The polling loop sees StationConnected, or has looked for the last time.
LookForSync ==
    /\ ipc.pc = "wait"
    /\ Goto(IF state = "StationConnected" THEN "armed" ELSE "fallback")
    /\ UNCHANGED <<state, reason, net, st, join, hostSilent, reg, sockets, life, wk>>

RelayJoined ==
    /\ ipc.pc = "armed"
    /\ ~DataHeld
    /\ join' = [join EXCEPT !.joined = TRUE]
    /\ hostSilent' = FALSE
    /\ Return("ok")
    /\ UNCHANGED <<state, reason, net, st, reg, sockets, life, wk>>

FallBackToTcp ==
    /\ ipc.pc = "fallback"
    /\ ~DataHeld
    /\ join' = [join EXCEPT !.await = FALSE]
    /\ Goto("dial")
    /\ UNCHANGED <<state, reason, net, st, hostSilent, reg, sockets, life, wk>>

\* initTcp(false) puts the new socket into the worker's poll set at once.
Dial ==
    /\ ipc.pc = "dial"
    /\ ~PollHeld
    /\ \/ tcp' = "connecting" /\ tcpPeer' = ipc.host /\ Goto("dialing")
       \/ CloseTcp /\ Return("failed")
    /\ UNCHANGED <<state, reason, net, st, join, hostSilent, reg, udp, relay, life, wk>>

\* The TCP connection is made and Connect sent on it; or one of them fails, and
\* connect() returns at once, as it does from every failure before this.
Dialled ==
    /\ ipc.pc = "dialing"
    /\ \/ TcpJoins /\ tcp = "connecting" /\ tcp' = "connected" /\ Goto("sync")
       \/ UNCHANGED tcp /\ Return("failed")
    /\ UNCHANGED <<state, reason, net, st, join, hostSilent, reg, udp, relay,
                   tcpPeer, life, wk>>

LookForTcpSync ==
    /\ ipc.pc = "sync"
    /\ IF state = "StationConnected" THEN Return("ok") ELSE Goto("abort")
    /\ UNCHANGED <<state, reason, net, st, join, hostSilent, reg, sockets, life, wk>>

AbortJoin ==
    /\ ipc.pc = "abort"
    /\ ~PollHeld
    /\ CloseTcp
    /\ Return("failed")
    /\ UNCHANGED <<state, reason, net, st, join, hostSilent, reg, udp, relay, life, wk>>

-----------------------------------------------------------------------------
(* The worker thread. *)

\* worker() clears `stop' when it first runs, whenever that is.
WorkerStarts ==
    /\ wk.pc = "starting"
    /\ life' = [life EXCEPT !.stop = FALSE]
    /\ wk' = [wk EXCEPT !.pc = "loop"]
    /\ UNCHANGED <<state, reason, net, st, join, hostSilent, reg, sockets, ipc>>

WorkerAt(l) ==
    /\ wk' = [wk EXCEPT !.pc = l]
    /\ UNCHANGED <<state, reason, net, st, join, hostSilent, reg, sockets, life, ipc>>

\* Faulty: the load of `stop' is hoisted out of the loop.
WorkerLoop_Hoisted == wk.pc = "loop" /\ WorkerAt("poll")

\* Until the session is marked as initialized, loopPoll returns at once.
WorkerLoop == wk.pc = "loop" /\ WorkerAt(IF life.stop THEN "exited"
                                        ELSE IF life.init THEN "poll" ELSE "beacon")
PollDone   == wk.pc = "poll" /\ WorkerAt("beacon")
PollFails  == wk.pc = "poll" /\ WorkerAt("exited")
BeaconDone == wk.pc = "beacon" /\ WorkerAt("loop")

\* onDisconnectFromHost: a station that is connected forgets that it joined over
\* the relay, and then reports the reason and the new state (Dropped).
DisconnectFromHost(why) ==
    IF state = "StationConnected"
    THEN /\ join' = [join EXCEPT !.joined = FALSE]
         /\ wk' = [wk EXCEPT !.pc = "drop", !.locked = wk.pc = "poll", !.why = why]
    ELSE UNCHANGED <<join, wk>>

Dropped ==
    /\ wk.pc = "drop"
    /\ reason' = wk.why
    /\ state' = "Station"
    /\ wk' = [wk EXCEPT !.pc = IF wk.locked THEN "poll" ELSE "beacon",
                        !.locked = FALSE, !.why = "None"]
    /\ UNCHANGED <<net, st, join, hostSilent, reg, sockets, life, ipc>>

Drop(gone) == [i \in Slots |-> IF i \in gone THEN FreeSlot ELSE st[i]]

\* The worker frees slots and will call updateNodes.
Free(gone) ==
    /\ st' = Drop(gone)
    /\ wk' = [wk EXCEPT !.pc = "update", !.locked = wk.pc = "poll", !.gone = gone]
    /\ UNCHANGED <<state, reason, net, join, hostSilent, reg, sockets, life, ipc>>

AfterUpdate == [wk EXCEPT !.pc = IF wk.locked THEN "poll" ELSE "beacon",
                          !.locked = FALSE, !.gone = {}]

\* Faulty: forgets updateNodes.
NodesUpdated_Not ==
    /\ wk.pc = "update"
    /\ wk' = AfterUpdate
    /\ UNCHANGED <<state, reason, net, st, join, hostSilent, reg, sockets, life, ipc>>

\* updateNodes, after the slots were freed.
NodesUpdated ==
    /\ wk.pc = "update"
    /\ wk' = AfterUpdate
    /\ RegisterBeside(net, FreedByCall)
    /\ UNCHANGED <<state, reason, join, hostSilent, sockets, life, ipc>>

\* Faulty: does not mark the session for a rebuild.
UdpClosed_Unmarked ==
    /\ wk.pc = "poll"
    /\ udp = "open"
    /\ udp' = "closed"
    /\ state' = "Error"
    /\ reason' = "DisconnectedBySystem"
    /\ UNCHANGED <<net, st, join, hostSilent, reg, tcp, relay, tcpPeer, life, wk, ipc>>

\* LDUdpSocket::onClose: the discovery socket died with its interface.
UdpClosed ==
    /\ wk.pc = "poll"
    /\ udp = "open"
    /\ udp' = "closed"
    /\ life' = [life EXCEPT !.reinit = TRUE]
    /\ IF state = "Error" THEN UNCHANGED <<state, reason>>
       ELSE /\ state' = "Error"
            /\ reason' = IF state = "AccessPointCreated" THEN "DestroyedBySystem"
                         ELSE "DisconnectedBySystem"
    /\ UNCHANGED <<net, st, join, hostSilent, reg, tcp, relay, tcpPeer, wk, ipc>>

\* RelayLanSocket::onClose.
RelayClosed ==
    /\ wk.pc = "poll"
    /\ relay = "open"
    /\ relay' = "closed"
    /\ life' = [life EXCEPT !.reinit = TRUE]
    /\ UNCHANGED <<state, reason, net, st, join, hostSilent, reg, udp, tcp, tcpPeer,
                   wk, ipc>>

\* The beacon finds the path to the server dead and opens the transport anew.
RelayReopened ==
    /\ wk.pc = "beacon"
    /\ relay # "none"
    /\ \E r \in {"open", "closed"} : relay' = r
    /\ UNCHANGED <<state, reason, net, st, join, hostSilent, reg, udp, tcp, tcpPeer,
                   life, wk, ipc>>

-----------------------------------------------------------------------------
(* Handlers of a host. *)

Handler == wk.pc = "poll"
RelayFrame == Handler /\ relay = "open"

\* Faulty: every Connect takes a slot.
RelayConnect_NotIdempotent(p) ==
    /\ RelayFrame
    /\ state = "AccessPointCreated"
    /\ LET free == {i \in Slots : st[i].status = "Disconnected"}
       IN /\ free # {}
          /\ Register([st EXCEPT ![First(free)] =
                         [FreeSlot EXCEPT !.status = "Connected"]],
                      [net EXCEPT !.ip[First(free)] = p])
    /\ UNCHANGED <<state, reason, join, hostSilent, sockets, life, wk, ipc>>

\* onRelayConnect: a console already in a slot is only synced again; another one
\* gets the first free slot, if any.
RelayConnect(p) ==
    /\ RelayFrame
    /\ state = "AccessPointCreated"
    /\ LET same == {i \in Slots : st[i].status # "Disconnected" /\ net.ip[i] = p}
           free == {i \in Slots : st[i].status = "Disconnected"}
       IN IF same # {}
          THEN Register([st EXCEPT ![First(same)].silent = FALSE], net)
          ELSE /\ free # {}
               /\ Register([st EXCEPT ![First(free)] =
                              [FreeSlot EXCEPT !.status = "Connected"]],
                           [net EXCEPT !.ip[First(free)] = p])
    /\ UNCHANGED <<state, reason, join, hostSilent, sockets, life, wk, ipc>>

\* The slots of stations that joined over the relay from address p.
RelaySlots(p) == {i \in Slots : /\ st[i].status = "Connected"
                                /\ ~st[i].tcp
                                /\ net.ip[i] = p}

\* RelayHeartbeat of p for this network.
Heartbeat(p) ==
    /\ RelayFrame
    /\ state = "AccessPointCreated"
    /\ net.bssid = Self
    /\ st' = [i \in Slots |-> IF i \in RelaySlots(p)
                              THEN [st[i] EXCEPT !.silent = FALSE] ELSE st[i]]
    /\ UNCHANGED <<state, reason, net, join, hostSilent, reg, sockets, life, wk, ipc>>

\* RelayBye of station p for this network.
StationBye(p) ==
    /\ RelayFrame
    /\ state = "AccessPointCreated"
    /\ net.bssid = Self
    /\ RelaySlots(p) # {}
    /\ Register(Drop(RelaySlots(p)), net)
    /\ UNCHANGED <<state, reason, join, hostSilent, sockets, life, wk, ipc>>

\* The beacon reaps the relay stations silent for RelayPeerTimeoutMs, holding
\* dataMutex until NodesUpdated.
Reap ==
    /\ wk.pc = "beacon"
    /\ relay # "none"
    /\ state = "AccessPointCreated"
    /\ LET lost == {i \in Slots : /\ st[i].status = "Connected"
                                  /\ ~st[i].tcp
                                  /\ st[i].silent}
       IN lost # {} /\ Free(lost)

\* onConnect: a TCP connection takes the first slot free.
Accept ==
    /\ Handler
    /\ TcpJoins
    /\ tcp = "listening"
    /\ state = "AccessPointCreated"
    /\ LET free == {i \in Slots : st[i].status = "Disconnected"}
       IN /\ free # {}
          /\ st' = [st EXCEPT ![First(free)] =
                       [status |-> "Connect", tcp |-> TRUE, silent |-> FALSE]]
    /\ UNCHANGED <<state, reason, net, join, hostSilent, reg, sockets, life, wk, ipc>>

\* LanStation::onRead: the console behind the socket introduces itself.
StationConnect(i, p) ==
    /\ Handler
    /\ st[i].tcp
    /\ Register([st EXCEPT ![i].status = "Connected"], [net EXCEPT !.ip[i] = p])
    /\ UNCHANGED <<state, reason, join, hostSilent, sockets, life, wk, ipc>>

\* LanStation::onClose frees the slot, holding pollMutex but not dataMutex; the IPC
\* thread may read and write the network before NodesUpdated.
StationClosed(i) ==
    /\ Handler
    /\ st[i].tcp
    /\ Free({i})

-----------------------------------------------------------------------------
(* Handlers of a station. *)

\* Faulty: takes the bssid for the target without looking at joinActive.
SyncNetwork_AnyTime(info) ==
    /\ info.bssid = join.bssid
    /\ hostSilent' = FALSE
    /\ net' = info
    /\ IF state = "Station" /\ (join.await => ListsSelf(info))
       THEN wk' = [wk EXCEPT !.pc = "flip"] /\ UNCHANGED reg
       ELSE Publish(info) /\ UNCHANGED wk
    /\ UNCHANGED <<state, reason, st, sockets, life, ipc>>

\* onSyncNetwork, with dataMutex held.  A sync for another network is ignored, a
\* stale one dropped.  A station that waits to be listed becomes connected only
\* by a sync that lists it; its setState (SyncedState) is a step of its own, for
\* the IPC thread writes the state without dataMutex.
SyncNetwork(info) ==
    /\ join.active
    /\ info.bssid = join.bssid
    /\ hostSilent' = FALSE
    /\ net' = info
    /\ IF state = "Station" /\ (join.await => ListsSelf(info))
       THEN wk' = [wk EXCEPT !.pc = "flip"] /\ UNCHANGED reg
       ELSE Publish(info) /\ UNCHANGED wk
    /\ UNCHANGED <<state, reason, st, sockets, life, ipc>>

SyncedState ==
    /\ wk.pc = "flip"
    /\ state' = "StationConnected"
    /\ Publish(net)
    /\ wk' = [wk EXCEPT !.pc = "poll"]
    /\ UNCHANGED <<reason, net, st, join, hostSilent, sockets, life, ipc>>

IsStation == state \in {"Station", "StationConnected"}

\* Over the relay.  (A frame stale by its sequence number changes nothing; which
\* frames are stale is a matter of the order they were sent in.)
RelaySync(info) ==
    /\ RelayFrame
    /\ IsStation
    /\ SyncNetwork(info)
    /\ UNCHANGED join

\* Over TCP, from the host that was dialled.
TcpSync(info) ==
    /\ Handler
    /\ IsStation
    /\ tcp = "connected"
    /\ info.bssid = tcpPeer
    /\ SyncNetwork(info)
    /\ UNCHANGED join

\* LDTcpSocket::onClose, reached from a close or error of the connection, a frame
\* it does not expect, a failed accept, or any event in a state that expects none.
\* Only a clean shutdown seen by a station is reported as the host's own doing.
TcpClosed ==
    /\ Handler
    /\ TcpJoins
    /\ tcp \in {"listening", "connecting", "connected"}
    /\ tcp' = "closed"
    /\ \E why \in {"DestroyedByUser", "SignalLost"} :
          /\ why = "DestroyedByUser" => tcp = "connected"
          /\ DisconnectFromHost(why)
    /\ UNCHANGED <<state, reason, net, st, hostSilent, reg, udp, relay, tcpPeer,
                   life, ipc>>

\* A beacon of the host is a sign of life.
HostBeacon(h) ==
    /\ RelayFrame
    /\ join.active
    /\ join.bssid = h
    /\ hostSilent' = FALSE
    /\ UNCHANGED <<state, reason, net, st, join, reg, sockets, life, wk, ipc>>

\* RelayBye of the host of the network joined.
HostBye(h) ==
    /\ RelayFrame
    /\ state = "StationConnected"
    /\ join.active
    /\ h = join.bssid
    /\ h = net.ip[0]
    /\ DisconnectFromHost("DestroyedByUser")
    /\ UNCHANGED <<state, reason, net, st, hostSilent, reg, sockets, life, ipc>>

\* The beacon gives the host up after RelayPeerTimeoutMs of silence.
HostLost ==
    /\ wk.pc = "beacon"
    /\ relay # "none"
    /\ state = "StationConnected"
    /\ join.joined
    /\ hostSilent
    /\ DisconnectFromHost("SignalLost")
    /\ UNCHANGED <<state, reason, net, st, hostSilent, reg, sockets, life, ipc>>

-----------------------------------------------------------------------------
(* Time: RelayPeerTimeoutMs passes without a sign of life from a peer. *)

HostGoesSilent ==
    /\ join.joined
    /\ ~hostSilent
    /\ hostSilent' = TRUE
    /\ UNCHANGED <<state, reason, net, st, join, reg, sockets, life, wk, ipc>>

StationGoesSilent(i) ==
    /\ st[i].status = "Connected" /\ ~st[i].tcp /\ ~st[i].silent
    /\ st' = [st EXCEPT ![i].silent = TRUE]
    /\ UNCHANGED <<state, reason, net, join, hostSilent, reg, sockets, life, wk, ipc>>

-----------------------------------------------------------------------------
Init ==
    /\ state = "None"
    /\ reason = "None"
    /\ net = [bssid |-> NoIp, ip |-> [k \in Nodes |-> NoIp],
              conn |-> [k \in Nodes |-> FALSE], count |-> 0]
    /\ st = NoStations
    /\ join = [active |-> FALSE, bssid |-> NoIp, await |-> FALSE, joined |-> FALSE]
    /\ hostSilent = FALSE
    /\ reg = [active |-> FALSE, peers |-> {}]
    /\ udp = "none" /\ tcp = "none" /\ relay = "none" /\ tcpPeer = NoIp
    /\ life = [init |-> FALSE, stop |-> FALSE, reinit |-> FALSE, latch |-> FALSE]
    /\ wk = [pc |-> "off", locked |-> FALSE, why |-> "None", gone |-> {}]
    /\ ipc = [call |-> "none", pc |-> "idle", host |-> NoIp, ret |-> "none"]

GameCall ==
    \/ Initialize \/ Finalize
    \/ OpenAccessPoint \/ CloseAccessPoint \/ OpenStation \/ CloseStation
    \/ CreateNetwork \/ DestroyNetwork \/ SetAdvertiseData
    \/ Disconnect
    \/ \E h \in Peers : Connect(h)

CallPiece ==
    \/ SessionStarted \/ WorkerJoined \/ Reopen \/ ResetStations \/ CloseHostSocket \/ ForgetTarget
    \/ SetState \/ Announce
    \/ RecordTarget \/ ArmRelayJoin \/ LookForSync \/ RelayJoined \/ FallBackToTcp
    \/ Dial \/ Dialled \/ LookForTcpSync \/ AbortJoin

\* What the worker does of itself, and what it does upon an event.
WorkerPiece ==
    \/ WorkerStarts \/ WorkerLoop \/ PollDone \/ BeaconDone
    \/ Dropped \/ SyncedState \/ NodesUpdated

HostEvent ==
    \/ \E p \in Peers : RelayConnect(p) \/ Heartbeat(p) \/ StationBye(p)
    \/ Reap \/ Accept
    \/ \E i \in Slots : StationClosed(i) \/ \E p \in Peers : StationConnect(i, p)

StationEvent ==
    \/ \E h \in Peers : \/ HostBeacon(h) \/ HostBye(h)
                        \/ \E info \in NetworksOf(h) : RelaySync(info) \/ TcpSync(info)
    \/ TcpClosed \/ HostLost

SocketEvent == UdpClosed \/ RelayClosed \/ RelayReopened \/ PollFails

Time == HostGoesSilent \/ \E i \in Slots : StationGoesSilent(i)

Next ==
    \/ GameCall \/ CallPiece
    \/ WorkerPiece \/ HostEvent \/ StationEvent \/ SocketEvent
    \/ Time

Spec == Init /\ [][Next]_vars

\* The worker runs whenever it can, and a pass of Poll ends: it serves each socket at
\* most once.  The IPC thread gets the mutexes it waits for although the worker takes
\* them again and again: the worker's 1 ms pause is there for that.
FairSpec == Spec /\ WF_vars(WorkerPiece) /\ SF_vars(PollDone) /\ SF_vars(CallPiece)

-----------------------------------------------------------------------------
(* What holds. *)

\* What a host advertises follows its slots, whatever calls, joins, goodbyes, closes
\* and timeouts interleave, teardown included: the host is node 0, every member is a
\* connected node and counted, and nobody else is - but for slots that the worker has
\* freed and updateNodes not yet seen, and for those that the call which ends the
\* network has freed before it says so with setState.
HostTableMatchesSlots ==
    state = "AccessPointCreated" =>
        /\ net.bssid = Self /\ net.ip[0] = Self /\ net.conn[0]
        /\ Members(st) \subseteq Listed(net)
        /\ ipc.pc # "set" =>
             /\ Listed(net) \subseteq Members(st) \cup wk.gone
             /\ wk.gone = {} => net.count = Cardinality(Members(st)) + 1

\* A console has at most one slot that it took over the relay, however often its
\* Connect is repeated ("Idempotent: a dropped SyncNetwork makes the station retry
\* Connect") and whatever TCP joins, goodbyes and timeouts empty and fill the slots
\* in between.  (A console that joins over both ways may hold two slots.)
OneRelaySlotPerConsole ==
    LET OverRelay == {i \in Slots : st[i].status = "Connected" /\ ~st[i].tcp}
    IN \A i, j \in OverRelay : net.ip[i] = net.ip[j] => i = j

\* A station is connected only while it has a join target: after OpenStation and
\* after Disconnect no stray sync of the worker makes it connected ("reject stray
\* sync"), the moment before those calls' own setState excepted.
ConnectedOnlyWithTarget ==
    state = "StationConnected" =>
        \/ join.active
        \/ ipc.pc = "set" /\ ipc.call \in {"OpenStation", "Disconnect"}

\* A station is made connected by a sync of the network it has set out to join, while
\* it is out to join it: no other session's broadcast on the shared relay connects it,
\* whatever target the next call records meanwhile ("rejects other sessions' sync").
ConnectsToItsTarget ==
    [][(state # "StationConnected" /\ state' = "StationConnected") =>
           join.active /\ net.bssid = join.bssid]_vars

\* The session is whole or gone, whatever calls and failures rebuild it: while it is
\* initialized, or initialize() is about to say so, there is one worker thread and the
\* socket it polls; otherwise there is no worker that could still use what finalize
\* destroyed.  A session that is not initialized has nothing left of the old one's
\* stations and TCP socket.  (Of its relay socket there may be: see BuildFails.)
SessionWholeOrGone ==
    /\ IF life.init \/ ipc.pc = "started"
       THEN wk.pc # "off" /\ udp # "none"
       ELSE wk.pc = "off" /\ udp = "none" /\ state = "None"
    /\ IF life.init THEN state # "None" ELSE tcp = "none" /\ st = NoStations

\* A session whose discovery socket died stays marked for a rebuild until the
\* rebuild has happened, so that the next host or join menu recovers it.
DeadSocketIsMarked == udp = "closed" => life.reinit

\* Every call returns, finalize's wait for the worker aside.
CallsReturn ==
    (ipc.pc \notin {"idle", "join"}) ~> (ipc.pc \in {"idle", "join"})

\* Finalize's wait ends, for a worker that was running when it was asked to stop.
RunningWorkerIsJoined ==
    (ipc.pc = "join" /\ wk.pc # "starting" /\ life.stop) ~> (ipc.pc # "join")

-----------------------------------------------------------------------------
(* What comments of the code promise and the code does not keep. *)

\* lan_discovery.cpp:929: "Hand the current peer IPs to the bsd:u mitm".
RegistryListsLivePeers ==
    (state = "AccessPointCreated" /\ ipc.pc = "idle" /\ reg.active) =>
        reg.peers = {net.ip[i] : i \in Members(st)}

\* lan_discovery.hpp:243: "a scanning station must not be flipped connected by a
\* stray broadcast": a station whose join failed is scanning again.
FailedJoinStaysOut == ipc.ret = "failed" => state # "StationConnected"

\* lan_discovery.cpp:1393: the target is recorded "so onSyncNetwork accepts a fast reply
\* and rejects other sessions' sync": a join that has succeeded is in its network.
JoinedWhatItAsked ==
    (ipc.ret = "ok" /\ state = "StationConnected") => net.bssid = join.bssid

\* lan_discovery.hpp:236: "finalize()'s WaitThread never returns, and the game hangs
\* inside Finalize" is what the atomic `stop' is there to prevent.
FinalizeReturns == (ipc.pc = "join") ~> (ipc.pc # "join")
=============================================================================
