---------------------------- MODULE RelaySession ----------------------------
(***************************************************************************)
(* A game's session over the relay: a host and the consoles that join it,  *)
(* each seeing the other only through datagrams that the relay may lose,   *)
(* repeat, delay and reorder.  Consoles vanish without a word, or say      *)
(* goodbye; silence is measured in beats, the 5 s rounds of the worker.    *)
(*                                                                         *)
(* Here a handler or a beat is one step: how the two threads of one        *)
(* console interleave is the matter of LanDiscovery, which leaves the      *)
(* other consoles arbitrary.  The host's slots are a set, which            *)
(* LanDiscovery shows them to be (OneRelaySlotPerConsole).                 *)
(***************************************************************************)
EXTENDS Naturals, FiniteSets

CONSTANTS
    Station,     \* the consoles that may join
    Slots,       \* StationCountMax (7 in the code)
    SeqSpace,    \* the send counter is taken modulo this (2^16 in the code)
    Window,      \* a sync at most this far behind is stale (256 in the code)
    Timeout,     \* beats of silence after which a peer is lost (6 in the code)
    Starts,      \* where the counter of the host's first session may stand
    MaxLag,      \* bound: packets of the host that may overtake one in flight
    MaxJump,     \* bound: packets of the host from one sync to the next
    MaxSyncs,    \* bound: syncs
    MaxEpochs,   \* bound: sessions of the host's sockets
    MaxCalls,    \* bound: calls of connect() in all
    MaxInFlight, \* bound: datagrams in flight; beyond it they are lost
    MaxRepeats   \* bound: datagrams delivered once more

ASSUME SessionAssumption ==
    /\ IsFiniteSet(Station)
    /\ Slots \in Nat \ {0} /\ Timeout \in Nat \ {0}
    /\ SeqSpace \in Nat \ {0, 1} /\ Window \in Nat
    /\ Starts \subseteq 0 .. SeqSpace - 1
    /\ MaxLag \in Nat /\ MaxJump \in Nat \ {0} /\ MaxSyncs \in Nat /\ MaxEpochs \in Nat \ {0}
    /\ MaxCalls \in Nat /\ MaxInFlight \in Nat /\ MaxRepeats \in Nat

\* What is assumed of the relay and the host for the window to do its work: no sync is
\* overtaken by a window of packets, and one session sends less than the rest.
ASSUME WindowAssumption ==
    /\ MaxLag < Window
    /\ MaxSyncs * MaxJump + Window < SeqSpace

None == 0   \* no sync seen: relaySyncSeqValid is false; a stamp is never 0

VARIABLES
    up,       \* the host's network exists (AccessPointCreated)
    epoch,    \* which session of the host's sockets this is
    txSeq,    \* its send counter
    members,  \* the consoles in the host's slots
    quiet,    \* per console in a slot: beats of the host since its lastSeen
    syncs,    \* how many syncs it has published; the newest has this number
    state,    \* per console: CommState
    call,     \* per console: connect() waits for the host's sync
    active,   \* per console: joinActive
    awaiting, \* per console: joinAwaitSelfIp is set
    joined,   \* per console: relayJoined
    have,     \* per console: relaySyncSeq
    view,     \* per console: the number and the session of the sync that its
              \* networkInfo is a copy of
    hostQuiet,\* per console that has joined: its beats since hostLastSeen
    net,      \* the datagrams in flight
    calls, repeats \* what is left of the bounds on calls and repeats

host == <<up, epoch, txSeq, members, quiet, syncs>>
station == <<state, call, active, awaiting, joined, have, view, hostQuiet>>
vars == <<host, station, net, calls, repeats>>

NoView == [n |-> 0, epoch |-> 1]
View == [n: 0 .. MaxSyncs, epoch: 1 .. MaxEpochs]
Message == [kind: {"Sync"}, to: Station, n: 1 .. MaxSyncs, epoch: 1 .. MaxEpochs,
            seq: 1 .. SeqSpace - 1, list: SUBSET Station]
      \cup [kind: {"ScanResp", "HostBye"}, to: Station]
      \cup [kind: {"Connect", "Heartbeat", "Bye"}, from: Station]

TypeOK ==
    /\ up \in BOOLEAN /\ epoch \in 1 .. MaxEpochs /\ txSeq \in 0 .. SeqSpace - 1
    /\ members \subseteq Station /\ Cardinality(members) <= Slots
    /\ up \/ members = {}
    /\ quiet \in [Station -> 0 .. Timeout - 1]
    /\ syncs \in 0 .. MaxSyncs
    /\ state \in [Station -> {"Station", "StationConnected"}]
    /\ call \in [Station -> BOOLEAN]
    /\ active \in [Station -> BOOLEAN] /\ awaiting \in [Station -> BOOLEAN]
    /\ joined \in [Station -> BOOLEAN]
    /\ have \in [Station -> 0 .. SeqSpace - 1]
    /\ view \in [Station -> View]
    /\ hostQuiet \in [Station -> 0 .. Timeout - 1]
    /\ net \subseteq Message
    /\ calls \in 0 .. MaxCalls /\ repeats \in 0 .. MaxRepeats

-----------------------------------------------------------------------------
(* The relay. *)

\* Faulty: does not skip 0.
Stamp_ThroughZero(q, d) == (q + d) % SeqSpace

\* d packets later the counter, which skips 0, stands here.
Stamp(q, d) == IF q + d < SeqSpace THEN q + d ELSE q + d + 1 - SeqSpace

\* How many packets of the same session were sent after stamp q, if the counter is at p.
Lag(p, q) == IF q <= p THEN p - q ELSE p + SeqSpace - 1 - q

\* A sync too many packets have overtaken is not delivered any more.
Recent(msgs, p) == {m \in msgs :
    (m.kind = "Sync" /\ m.epoch = epoch) => Lag(p, m.seq) < MaxLag}

\* Some of what is sent gets through.
Send(old, msgs) ==
    \E through \in SUBSET msgs :
        /\ Cardinality(old \cup through) <= MaxInFlight
        /\ net' = old \cup through

\* A datagram is received, and perhaps stays to be received again.
Receive(m) ==
    /\ m \in net
    /\ \/ repeats' = repeats
       \/ repeats < MaxRepeats /\ repeats' = repeats + 1

Rest(m) == IF repeats' = repeats THEN net \ {m} ELSE net
Consume(m) == net' = Rest(m)

-----------------------------------------------------------------------------
(* The host. *)

\* LANDiscovery::updateNodes: what the host knows of its slots goes to everyone.
UpdateNodes(list, lastSeen, rest) ==
    /\ members' = list
    /\ quiet' = [s \in Station |-> IF s \in list THEN lastSeen[s] ELSE 0]
    /\ syncs' = syncs + 1
    /\ \E d \in 1 .. MaxJump :
          LET q == Stamp(txSeq, d) IN
          /\ txSeq' = q
          /\ Send(Recent(rest, q), [kind: {"Sync"}, to: Station, n: {syncs + 1}, epoch: {epoch},
                                    seq: {q}, list: {list}])

\* The bound on syncs leaves room for those that tell of members lost.
Room(n) == syncs + Cardinality(members) + n <= MaxSyncs

CreateNetwork ==
    /\ ~up
    /\ Room(1)
    /\ up' = TRUE
    /\ UpdateNodes({}, quiet, net)
    /\ UNCHANGED <<epoch, station, calls, repeats>>

Empty ==
    /\ members' = {}
    /\ quiet' = [s \in Station |-> 0]

\* destroyNetwork and closeAccessPoint: a goodbye, then the slots are emptied.
DestroyNetwork ==
    /\ up
    /\ up' = FALSE
    /\ Empty
    /\ Send(net, [kind: {"HostBye"}, to: Station])
    /\ UNCHANGED <<epoch, txSeq, syncs, station, calls, repeats>>

\* The console sleeps, loses its interface or is switched off: no goodbye, and the
\* sockets, with their counter, are new when it comes back.
HostVanishes ==
    /\ epoch < MaxEpochs
    /\ up' = FALSE
    /\ Empty
    /\ epoch' = epoch + 1
    /\ txSeq' = 0
    /\ UNCHANGED <<syncs, station, net, calls, repeats>>

\* The game sets its data with the network or before it: what there was of an earlier
\* network is published all the same.
SetAdvertiseData ==
    /\ syncs > 0
    /\ Room(1)
    /\ UpdateNodes(members, quiet, net)
    /\ UNCHANGED <<up, epoch, station, calls, repeats>>

\* onRelayConnect: a known console is told again, an unknown one gets a free slot.
OnConnect(m) ==
    /\ m.kind = "Connect"
    /\ Receive(m)
    /\ LET s == m.from
           welcome == s \in members \/ Cardinality(members) < Slots
       IN \/ /\ up /\ welcome
             /\ Room(IF s \in members THEN 1 ELSE 2)
             /\ UpdateNodes(members \cup {s}, [quiet EXCEPT ![s] = 0], Rest(m))
          \/ /\ ~(up /\ welcome)
             /\ Consume(m)
             /\ UNCHANGED <<quiet, txSeq, members, syncs>>
    /\ UNCHANGED <<up, epoch, station, calls>>

OnHeartbeat(m) ==
    /\ m.kind = "Heartbeat"
    /\ Receive(m)
    /\ quiet' = IF up /\ m.from \in members THEN [quiet EXCEPT ![m.from] = 0] ELSE quiet
    /\ Consume(m)
    /\ UNCHANGED <<up, epoch, txSeq, members, syncs, station, calls>>

OnBye(m) ==
    /\ m.kind = "Bye"
    /\ Receive(m)
    /\ \/ /\ m.from \in members
          /\ UpdateNodes(members \ {m.from}, quiet, Rest(m))
       \/ /\ m.from \notin members
          /\ Consume(m)
          /\ UNCHANGED <<txSeq, members, quiet, syncs>>
    /\ UNCHANGED <<up, epoch, station, calls>>

\* Faulty: what the host advertises it takes for seen.
HostBeat_SeenByBeacon ==
    /\ up
    /\ Send(net, [kind: {"ScanResp"}, to: Station])
    /\ quiet' = [s \in Station |-> 0]
    /\ UNCHANGED <<up, epoch, txSeq, members, syncs, station, calls, repeats>>

\* The host's beacon: the advertisement, then the consoles silent too long are dropped.
HostBeat ==
    /\ up
    /\ LET beats  == [s \in Station |-> IF s \in members THEN quiet[s] + 1 ELSE 0]
           silent == {s \in members : beats[s] >= Timeout}
           scan   == [kind: {"ScanResp"}, to: Station]
       IN \/ /\ silent = {}
             /\ quiet' = beats
             /\ Send(net, scan)
             /\ UNCHANGED <<txSeq, members, syncs>>
          \/ /\ silent # {}
             /\ \E heard \in SUBSET scan : UpdateNodes(members \ silent, beats, net \cup heard)
    /\ UNCHANGED <<up, epoch, station, calls, repeats>>

-----------------------------------------------------------------------------
(* A console that joins. *)

\* The first half of connect(): the target is armed and Connect goes out.
Connect(s) ==
    /\ ~call[s] /\ state[s] = "Station"
    /\ syncs > 0
    /\ calls < MaxCalls
    /\ calls' = calls + 1
    /\ call' = [call EXCEPT ![s] = TRUE]
    /\ active' = [active EXCEPT ![s] = TRUE]
    /\ awaiting' = [awaiting EXCEPT ![s] = TRUE]
    /\ have' = [have EXCEPT ![s] = None]
    /\ Send(net, [kind: {"Connect"}, from: {s}])
    /\ UNCHANGED <<host, state, joined, view, hostQuiet, repeats>>

Retransmit(s) ==
    /\ call[s] /\ state[s] = "Station"
    /\ Send(net, [kind: {"Connect"}, from: {s}])
    /\ UNCHANGED <<host, station, calls, repeats>>

\* The loop of connect() sees that it is connected, and arms the detection of a lost host.
ConnectReturns(s) ==
    /\ call[s] /\ state[s] = "StationConnected"
    /\ call' = [call EXCEPT ![s] = FALSE]
    /\ joined' = [joined EXCEPT ![s] = TRUE]
    /\ hostQuiet' = [hostQuiet EXCEPT ![s] = 0]
    /\ UNCHANGED <<host, state, active, awaiting, have, view, net, calls, repeats>>

\* No answer over the relay: the requirement to be listed is dropped for a join over TCP,
\* which fails, as the host is not in this LAN. The target stays armed.
ConnectFails(s) ==
    /\ call[s] /\ state[s] = "Station"
    /\ call' = [call EXCEPT ![s] = FALSE]
    /\ awaiting' = [awaiting EXCEPT ![s] = FALSE]
    /\ UNCHANGED <<host, state, active, joined, have, view, hostQuiet, net, calls, repeats>>

\* Faulty: compares the stamps as numbers, so that after a wrap every sync is behind.
Stale_PlainOrder(s, q) == have[s] # None /\ q <= have[s]

\* The 16-bit difference decides whether a sync is behind the one applied last.
Stale(s, q) == have[s] # None /\ (have[s] + SeqSpace - q) % SeqSpace < Window

\* LANDiscovery::onSyncNetwork.
Heed(s, m) ==
    /\ have' = [have EXCEPT ![s] = m.seq]
    /\ view' = [view EXCEPT ![s] = [n |-> m.n, epoch |-> m.epoch]]
    /\ hostQuiet' = [hostQuiet EXCEPT ![s] = 0]
    /\ state' = IF ~awaiting[s] \/ s \in m.list
                THEN [state EXCEPT ![s] = "StationConnected"] ELSE state

OnSyncNetwork(m) ==
    /\ m.kind = "Sync"
    /\ Receive(m)
    /\ LET s == m.to IN
       \/ /\ active[s] /\ ~Stale(s, m.seq)
          /\ Heed(s, m)
       \/ /\ ~active[s] \/ Stale(s, m.seq)
          /\ UNCHANGED <<have, view, hostQuiet, state>>
    /\ Consume(m)
    /\ UNCHANGED <<host, call, active, awaiting, joined, calls>>

OnScanResp(m) ==
    /\ m.kind = "ScanResp"
    /\ Receive(m)
    /\ hostQuiet' = IF active[m.to] THEN [hostQuiet EXCEPT ![m.to] = 0] ELSE hostQuiet
    /\ Consume(m)
    /\ UNCHANGED <<host, state, call, active, awaiting, joined, have, view, calls>>

\* onDisconnectFromHost: the target stays armed, as after any loss of the host.
LeaveHost(s) ==
    /\ state' = [state EXCEPT ![s] = "Station"]
    /\ joined' = [joined EXCEPT ![s] = FALSE]
    /\ hostQuiet' = [hostQuiet EXCEPT ![s] = 0]

OnHostBye(m) ==
    /\ m.kind = "HostBye"
    /\ Receive(m)
    /\ \/ state[m.to] = "StationConnected" /\ active[m.to] /\ LeaveHost(m.to)
       \/ ~(state[m.to] = "StationConnected" /\ active[m.to]) /\ UNCHANGED <<state, joined, hostQuiet>>
    /\ Consume(m)
    /\ UNCHANGED <<host, call, active, awaiting, have, view, calls>>

\* Faulty: the relay answers each heartbeat, which passes for a sign of the host.
StationBeat_OwnEcho(s) ==
    /\ state[s] = "StationConnected" /\ joined[s]
    /\ hostQuiet' = [hostQuiet EXCEPT ![s] = 0]
    /\ Send(net, [kind: {"Heartbeat"}, from: {s}])
    /\ UNCHANGED <<host, state, call, active, awaiting, joined, have, view, calls, repeats>>

\* The station's beacon: the heartbeat, then a host silent too long is given up.
StationBeat(s) ==
    /\ state[s] = "StationConnected" /\ joined[s]
    /\ \/ hostQuiet[s] + 1 >= Timeout /\ LeaveHost(s)
       \/ /\ hostQuiet[s] + 1 < Timeout
          /\ hostQuiet' = [hostQuiet EXCEPT ![s] = @ + 1]
          /\ UNCHANGED <<state, joined>>
    /\ Send(net, [kind: {"Heartbeat"}, from: {s}])
    /\ UNCHANGED <<host, call, active, awaiting, have, view, calls, repeats>>

\* Everything a join has left is forgotten. (The code clears the last three on the next
\* connect(); nothing reads them before.)
Forget(s) ==
    /\ state' = [state EXCEPT ![s] = "Station"]
    /\ call' = [call EXCEPT ![s] = FALSE]
    /\ active' = [active EXCEPT ![s] = FALSE]
    /\ awaiting' = [awaiting EXCEPT ![s] = FALSE]
    /\ joined' = [joined EXCEPT ![s] = FALSE]
    /\ have' = [have EXCEPT ![s] = None]
    /\ view' = [view EXCEPT ![s] = NoView]
    /\ hostQuiet' = [hostQuiet EXCEPT ![s] = 0]

\* disconnect(): a goodbye if the join went over the relay.
Disconnect(s) ==
    /\ ~call[s] /\ active[s]
    /\ Forget(s)
    /\ \/ joined[s] /\ Send(net, [kind: {"Bye"}, from: {s}])
       \/ ~joined[s] /\ UNCHANGED net
    /\ UNCHANGED <<host, calls, repeats>>

\* The console sleeps, loses its interface or is switched off.
StationVanishes(s) ==
    /\ active[s]
    /\ Forget(s)
    /\ UNCHANGED <<host, net, calls, repeats>>

-----------------------------------------------------------------------------
Init ==
    /\ up = FALSE /\ epoch = 1 /\ txSeq \in Starts
    /\ members = {} /\ quiet = [s \in Station |-> 0] /\ syncs = 0
    /\ state = [s \in Station |-> "Station"]
    /\ call = [s \in Station |-> FALSE]
    /\ active = [s \in Station |-> FALSE]
    /\ awaiting = [s \in Station |-> FALSE]
    /\ joined = [s \in Station |-> FALSE]
    /\ have = [s \in Station |-> None]
    /\ view = [s \in Station |-> NoView]
    /\ hostQuiet = [s \in Station |-> 0]
    /\ net = {} /\ calls = 0 /\ repeats = 0

HostStep == CreateNetwork \/ DestroyNetwork \/ HostVanishes \/ SetAdvertiseData \/ HostBeat

Deliver == \E m \in net :
    \/ OnConnect(m) \/ OnHeartbeat(m) \/ OnBye(m)
    \/ OnSyncNetwork(m) \/ OnScanResp(m) \/ OnHostBye(m)

StationStep(s) ==
    \/ Connect(s) \/ Retransmit(s) \/ ConnectReturns(s) \/ ConnectFails(s) \/ StationBeat(s)
    \/ Disconnect(s) \/ StationVanishes(s)

Next == HostStep \/ Deliver \/ \E s \in Station : StationStep(s)

Spec == Init /\ [][Next]_vars

\* The worker's beacon comes round while the console runs, and the loop of connect() ends;
\* the relay owes nothing.
Fairness ==
    /\ WF_vars(HostBeat)
    /\ \A s \in Station : WF_vars(StationBeat(s)) /\ WF_vars(ConnectReturns(s) \/ ConnectFails(s))

FairSpec == Spec /\ Fairness

-----------------------------------------------------------------------------
(* Properties. *)

Present(s) == state[s] = "StationConnected" /\ joined[s]

\* onSyncNetwork keeps the newest: whatever the order in which the syncs of one session of
\* the host's sockets arrive, and how often, none replaces a newer one that the same join
\* has applied, and a newer one is never taken for stale.
NewestSyncWins ==
    [][\A m \in net :
          (/\ OnSyncNetwork(m)
           /\ active[m.to] /\ have[m.to] # None
           /\ m.epoch = view[m.to].epoch)
          => view'[m.to].n = IF m.n > view[m.to].n THEN m.n ELSE view[m.to].n]_vars

\* The host does not keep the slot of a console that is not there: whatever old datagrams
\* of it still arrive, it is dropped unless it comes back.
GoneIsReaped == \A s \in Station :
    (s \in members /\ ~Present(s)) ~> (s \notin members \/ Present(s))

\* A console that has joined does not stay in the session of a host that is not there (and
\* that has published its last sync: the bound on them is what this rests on).
DeadHostIsLeft == \A s \in Station : (Present(s) /\ ~up) ~> (~Present(s) \/ up)
=============================================================================
