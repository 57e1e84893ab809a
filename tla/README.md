# ldn_mitm: models, checks and proofs

ldn_mitm is an Atmosphère sysmodule. It stands between a Switch game and two
system services: `ldn:u`, the local wireless service, which it replaces with a
protocol over the LAN, and `bsd:u`, the socket service, which it intercepts. In
this fork the LAN may also be the Internet: a *relay* carries discovery, the
session, the game's datagrams and the game's TCP connections between consoles.

This directory models that program in TLA+, checks the models with TLC on small
instances and proves the results that matter most with TLAPS for every value of
the constants. `PROJECT.json` maps every definition to the lines it models.
Paths below are relative to `src/ldn_mitm/source/` unless they start with `src/`.

1. [The system](#the-system)
2. [What is modelled where](#what-is-modelled-where)
3. [What the runs check](#what-the-runs-check)
4. [What is proved](#what-is-proved)
5. [What the code does not keep](#what-the-code-does-not-keep)
6. [What is not modelled](#what-is-not-modelled)
7. [Plan](#plan)

## The system

### Components

| component | state | operations |
|---|---|---|
| `LANDiscovery` (lan_discovery.cpp) | `state`, `disconnect_reason`, `networkInfo`, seven station slots, the join target, three sockets, `stop`/`initialized`/`needsReinit` | the `ldn:u` calls: Initialize, Finalize, Open/CloseAccessPoint, Open/CloseStation, CreateNetwork, DestroyNetwork, Connect, Disconnect, Scan; the worker's handlers: onConnect, onSyncNetwork, onDisconnect*, onScan*, beacons, timeouts |
| `LanProtocol` (lan_protocol.cpp) | a receive buffer per socket | framing, run-length compression, sequence stamps, `Pollable::Poll` |
| `ICommunicationService` (ldn_icommunication.cpp) | the one `LANDiscovery`, the state event | forwards the game's calls |
| `SessionRegistry`, `GameRx` (session_registry.cpp) | who is in the session; a ring of 32 received datagrams, the game's socket and port | Publish, Clear, Get; Push, Pop, HasData, SetGameFd, NoteSessionPort, Clear |
| `BsdMitmService` (bsd_mitm_service.cpp) | none of its own | RecvFrom, Recv, Read, Poll, Select, SendTo, Connect of the game's sockets |
| `RelayTransport` (relay_client.cpp) | a UDP socket, a place in the bridge, known peers, reassembly slots, the ping clock | Open, Close, SendBroadcast, SendTo, RecvBroadcast, fragmentation |
| relay configuration (relay_client.cpp, ldnmitm_config.cpp) | `relay.cfg`, toggles | LoadConfig, PersistConfig, the configuration service |
| `tcprelay` (tcp_relay.cpp) | eight streams, listeners and sockets, the pump thread | RedirectConnect, OnTunnelFrame, the pump, Start, Stop |
| relay server (src/tools/relay_server.py) | clients by address with a time and a scope | route, expire |
| nifm session (nifm_manager.cpp) | a reference to the network interface | acquire, release |

### Who runs, and what is shared

- The **IPC thread** of `ldn:u` runs the game's calls, one after another.
- The **worker thread** of a `LANDiscovery` polls the sockets with `pollMutex`
  held, runs their handlers, and then the 5 s beacon work *without* it. It
  receives from the relay, so it is also what pushes datagrams into `GameRx` and
  calls `tcprelay::OnTunnelFrame`.
- The **`bsd:u` threads** (eight, ldnmitm_main.cpp:94-100) run the game's socket
  calls, several at a time: a receive that waits does not keep the others from
  running.
- The **pump thread** of `tcprelay` polls descriptors without a lock.

`state` is read and written by both threads of a `LANDiscovery` under no common
mutex; `SessionRegistry`, `GameRx` and the stream table have one mutex each, and
nothing makes two accesses one step. Over the network, relay and LAN frames are
UDP datagrams: lost, repeated, late. The consoles learn of each other's absence
by silence only.

### What is hard, and what would make it correct

| behaviour | property |
|---|---|
| joins, repeats of joins, goodbyes, TCP closes and silence change the slots in any order, while the game creates and destroys networks | the advertised network describes the slots: `HostTableMatchesSlots`; `OneRelaySlotPerConsole` |
| a sync that left the host before the station gave up, closed, disconnected or set out for another host | `ConnectedOnlyWithTarget`, `ConnectsToItsTarget` |
| the sockets die with the interface and are rebuilt, the rebuild may fail half-way, the worker may still use what is destroyed | `SessionWholeOrGone`, `DeadSocketIsMarked` |
| one thread waits for a state that another writes, for a thread, for a mutex that is taken again and again | `CallsReturn`, `RunningWorkerIsJoined`, `WaitEnds` |
| host and stations see each other only through a relay that loses, repeats and reorders; either may vanish without a word, and old datagrams go on arriving | `GoneIsReaped`, `DeadHostIsLeft` |
| a 16-bit counter that skips 0, wraps and starts over tells late syncs from new ones | `NewestSyncWins` |
| a TCP connection cuts and joins frames at will, datagrams of strangers come between, messages are compressed | `ImplementsChannel`, `EndsBySender`, `StrayCostsOne`, `CompressionUndone` |
| the server knows consoles by who used an address last and by what scope an endpoint declared; declarations are overtaken, sockets renewed, the server restarted | `FiledUnderScope`, `OneBeaconMends` |
| transports of two sessions share a bridge, a pump, nifm and an address, and open, fail, die and close in any order | `BridgeIsOpen`, `PumpEndsWithTransports`, `NifmHeld`, `OneClientId` |
| `relay.cfg` is read in part, truncated and rewritten by any of several threads, any call may fail, and the console may restart in between | `FileKept` |
| a tunnel without sequence numbers, whose ids, entries and descriptors are used again | `NoCrossTalk`, `GotAsArrived`, `OwnCloseIsReleased` |
| a ring between a producer and several consumers, emptied by a third thread | `RingIsQueue`, `ServedInOrder` |
| fragments of many packets, few slots | `PacketIsWhole`, `OneSlotPerPacket` |

`PROJECT.json` lists each hazard at the line where it bites.

## What is modelled where

### `LanDiscovery`: one console and the game's session

The two threads of a `LANDiscovery` against an environment of other consoles.
A call or a handler is cut where the locks cut it: a piece is atomic if the code
holds the mutex that protects what it touches, or if no step of the other thread
could tell. `ipc` says where the call is, `wk` where the worker is.

Three such cuts are easy to overlook. A slot is reset first, `Free`, and `updateNodes` follows,
`NodesUpdated`. For a TCP station (`LanStation::onClose`) the reset does not take `dataMutex`, so
that calls see the network in between, and an `updateNodes` of the other thread may find
the slot before or after the reset each time it looks at it (`RegisterBeside`). `connect()` is
called on what the game has last read of the state and records its target later (`RecordTarget`). And
`loopPoll` does nothing until the session is marked as initialized (`WorkerLoop`).

| in the model | in the code |
|---|---|
| `state`, `reason`, `net`, `st` | `state`, `disconnect_reason`, `networkInfo`, `stations` |
| `join` | `joinActive`, `joinBssid`, `joinAwaitSelfIp`, `relayJoined` |
| `udp`, `tcp`, `relay`, `tcpPeer` | the three `Pollable`s and whom TCP was dialled to |
| `life` | `initialized`, `stop`, `needsReinit`, the relay latch |
| `reg` | `SessionRegistry` |

A network is named by its host's address, from which the code derives its bssid.
Time is a choice: a host or a station may be "silent too long" at any moment its
datagrams may be lost; the 3 s wait of `connect()` for the relay may expire at any of its
looks. A handler receives any frame that a console of `Peers` could have
sent, in any order and number: this covers loss, repetition and delay.

### `RelaySession`: a host and its stations over the relay

`LanDiscovery` has one console in detail and leaves the others arbitrary;
`RelaySession` has both ends and the datagrams between them, and takes each handler
and each beat of the worker's beacon as one step. It is where the two halves of the
session protocol meet: the host reaps who is silent, the station leaves a host that is.

| in the model | in the code |
|---|---|
| `up`, `members`, `quiet` | the host's state, its relay slots, their `lastSeen` in beats |
| `txSeq`, `epoch` | the send counter of the host's relay socket, and which socket it is |
| `state`, `active`, `awaiting`, `joined`, `have` | a station's `state`, `joinActive`, `joinAwaitSelfIp`, `relayJoined`, `relaySyncSeq` |
| `call` | `connect()` is in its 3 s loop |
| `view` | which sync `networkInfo` is a copy of |
| `net` | the datagrams in flight |

The number of a sync (`syncs`, `view`) is known to the model only: it says which of
two syncs is newer, which the code must tell by the 16-bit stamp.

### `RelayNetwork`: consoles and the relay server

The server's two tables (address in a scope to endpoint, endpoint to scope) and its
routing, with each console's peer map and the scope it declares. An endpoint is a
console's socket; a reopened transport is a new one. A datagram arrives, is lost or
is overtaken (`late`); the server may restart. A host and a station with `relayJoined` announce
themselves every 5 s (`joined`); another member sends keepalives only, which teach nothing. Expiry forgets, one at a time, what
no socket in use refreshes.

### `RelayBridge`: transports, and what they share

Two sessions, each a `LANDiscovery` of its own whose transport opens and closes on
the game's thread (initialize, finalize) or the worker (a dead path, a closed
interface). `Open`, `Close` and `PersistConfig` are cut where they take a mutex, wait
or touch the file, and each call on the file may fail (`tidy` remembers that one has). Of the
file it keeps the address and how many of the user's lines are there, counted from the first:
a rewrite reads those within 1023 bytes (`LinesRead`). The two sessions, the overlay and the pump thread interleave, and
the console may restart at any point, which leaves of everything the file only.

### `LanProtocol` and `MessageChannel`: from messages to bytes and back

One direction of a socket. Compression is a recursive function on sequences of
numbers and is applied to what is sent; a frame's bytes on the way are its
content at an offset, so that a cut or a lost byte shows. A socket may fail at any time (`broken`). `MessageChannel` is what a
socket promises: over a connection the messages in order, each once, by datagrams only
what was sent. `ImplementsChannel` is the refinement.

### `TcpTunnel`: TCP connections over the relay

Two consoles with a table of streams each, the kernel's descriptors (which it
gives out again, lowest first), the games' ends of connections, and the relay: the set of
all that was ever sent, from which anything is delivered, any number of times or never. The
relay is UDP and the socket non-blocking (relay_client.cpp:552), so this includes a send
that fails, whose result `SendTunnel`'s callers do not look at. The pump is
three steps (collect, poll, serve) with the mutex released in the middle; `Open`,
`OnTunnelFrame`, `RedirectConnect`, `Start` and `Stop` are actions. A connection
has a name the code never sees: it only says which two ends belong together. `arrived` is a
history: the chunks that arrived for a console's stream of a connection.

### `GameReceive` and `FrameQueue`: from the relay to the game

`GameReceive` has a step for each access under the mutex of `SessionRegistry` or
`GameRx`, so a receive is "see data", then "pop", a send "snapshot the session",
"latch the socket", "note the port", an injection "look up the peer", then
"push", teardown "clear the registry", then "clear the ring". Between two of
them any other thread may run, one that publishes a session included. A receive that is
forwarded and may block is `parked`: it waits in the console's own stack. `FrameQueue` is what the ring promises: a bounded
sequence that pushes out its oldest member. `RingIsQueue` is the refinement,
`queue` being the ring's entries from `head` on.

### `RelayFrag`: packets in parts

Two senders and a receiver with fewer slots than packets. The network is the set
of all fragments that were sent. Ids are taken modulo `IdSpace` and start over
with a new session (`Restart`). Every fragment carries, for the properties only,
the packet it was cut from.

### `MC*` and proof modules

The `MC` modules hold what a `.cfg` cannot say (symmetry, a function or a set of
messages as a constant). A module `XProofs` holds the proofs about `X`. Definitions named
`X_Something` and marked "Faulty" are variants of a definition `X` as a plausible mistake
would leave it; no specification uses them, and each makes TLC report the property it is
listed with in `PROJECT.json`.

## What the runs check

Ten runs check what holds, two reproduce what a comment promises and the code
does not keep (below). All take less than three minutes.

| run | instance | properties |
|---|---|---|
| `host` | two other consoles, two slots, the relay toggle changing at will, TCP joins, the IP configuration may be unreadable | `TypeOK`, `HostTableMatchesSlots`, `OneRelaySlotPerConsole` |
| `station` | one host that broadcasts, otherwise the same, with fair threads | `ConnectedOnlyWithTarget`, `DeadSocketIsMarked`, `SessionWholeOrGone`, `CallsReturn`, `RunningWorkerIsJoined` |
| `relay_session` | a host and a console that joins twice, a counter of 16 values with a window of 4 that is about to wrap, five syncs, two sockets of the host, three datagrams in flight, one repeated, silence of two beats | `TypeOK`, `NewestSyncWins`, `GoneIsReaped`, `DeadHostIsLeft` |
| `relay_network` | three consoles, two sessions, three joins or leaves, a peer map of one entry, one fault (a datagram overtaken, a socket renewed or the server restarted) | `TypeOK`, `FiledUnderScope`, `OneBeaconMends` |
| `relay_bridge` | two sessions and the overlay, two addresses to draw from, two lines of the user's of which one is read, a path that is dead after one ping | `TypeOK`, `NifmHeld`, `BridgeIsOpen`, `PumpEndsWithTransports`, `OneClientId`, `FileKept` |
| `lan_protocol` | three of six messages, a buffer of six bytes, headers of two, runs of at most two more zeros, two datagrams of strangers | `TypeOK`, `CompressionUndone`, `EndsBySender`, `StrayCostsOne`, `ImplementsChannel` |
| `tunnel_release` | two consoles, one stream entry each, two connections dialled one after the other by one game, whose console may close its transport and open it again; a chunk each; the pump fair | `OwnCloseIsReleased` |
| `tunnel_lossy` | both games dial, with the same id; two chunks against a pending buffer of one; frames are lost, repeated and reordered | `TypeOK`, `NoCrossTalk`, `GotAsArrived` |
| `game_receive` | two threads, two sockets on two ports, a ring of two entries and three frames, two sessions | `TypeOK`, `ServedInOrder`, `RingIsQueue`, `WaitEnds` |
| `fragments` | two senders, two ids, two slots, packets of two parts, one restart and one reopening | `TypeOK`, `PacketIsWhole`, `OneSlotPerPacket` |

**Bounds, and why they are enough.**
`LanDiscovery` has no bound but its constants: calls, frames, failures and
timeouts may happen for ever, and the runs cover all behaviours of their
instance. Two stations are the least with which one leaves and another stays, and no
loop of the code treats the third slot differently from the second. One host is enough
for `station`: its safety properties do not tell one target from another. What needs two, that
a station becomes connected to its own target only (`ConnectsToItsTarget`), is proved. The proofs
cover any number of hosts and slots.

`RelaySession` bounds calls, syncs, sockets of the host, datagrams in flight and repeats.
The counter starts four packets below its wrap, so five syncs cross it. A window of 4
in a space of 16 stands for 256 in 65536; `WindowAssumption` says what is assumed of the
relay and the session for the window to work at all (no sync is overtaken by a whole
window, and the host's socket does not send a space less a window), and both bounds are chosen to
meet it with nothing to spare in between. Two calls of `connect()` let the datagrams of
one join meet the next. One station: the slots are a set, which `OneRelaySlotPerConsole`
justifies, and the stations do not act on one another.

`RelayNetwork` bounds moves and faults. Three consoles are a session and someone else,
three moves form a session of two and end one's part in it; one fault at every point of these
behaviours is what `OneBeaconMends` is about. A peer map of one entry makes every new
console push out another. `RelayBridge` has no bound but its constants; two lines of the user's, of which one is within the bytes that are read, are the least of which
a rewrite keeps some and loses some.
`LanProtocol` bounds messages and strangers' datagrams: three messages put two frames
and a part of the next in the buffer, and the largest message fills it. `Inputs` checks
the compression on every sequence of up to six of the bytes 0, 1 and 2, which holds runs
of up to twice the largest count.

`TcpTunnel` bounds what grows: `MaxConnects` connections, `MaxIds` ids,
`MaxChunks` chunks per end, and, as a relay that repeats never stops,
`MaxReceived` chunks received. One entry with two connections makes every reuse
happen: entry, descriptor number and game descriptor; more entries would keep
the connections apart. Two chunks fill the buffer (one) and, repeated by the relay, overflow it, so
that the overflow path runs; liveness needs one chunk, which a game reads or leaves. `MaxWritten` bounds
the chunks of all ends. Transports close in `tunnel_release` only; that `NoCrossTalk` and
`GotAsArrived` hold then as well is proved. The 16-bit id never wraps in the
model; reuse of an id after a restart is in `RelayFrag` only.

`GameReceive` bounds frames (`MaxFrames`) and sessions (`MaxSessions`). Three
frames in a ring of two overflow it and wrap both indices; two sessions let a
frame, a descriptor and a port outlive theirs. `RelayFrag` bounds packets,
restarts and reopenings; with two ids and two packets per sender the counter
wraps, and with four packets for two slots the round-robin runs.

**Deadlock** is checked in `LanDiscovery`, `RelayFrag`, `RelayNetwork` and `RelayBridge`.
`TcpTunnel`, `GameReceive`, `RelaySession` and `LanProtocol` stop when their bounds are
used up, so their configurations say `CHECK_DEADLOCK FALSE`.

**Symmetry** is used in runs without liveness only, and permutes consoles together with
their addresses (`relay_network`), sessions and drawn addresses (`relay_bridge`), or the
other consoles (`host`), which no definition tells apart.

**Fairness, and why the code justifies it.**
- `LanDiscovery`: the worker is a loop that never waits without a timeout, hence
  weak fairness of its pieces. It takes `pollMutex` again and again, and each
  pass ends with a 1 ms pause without it, in which the IPC thread may take it:
  strong fairness of the call's pieces. A pass of `Pollable::Poll` serves each
  socket at most once, so it ends whatever the peers send: strong fairness of
  `PollDone`. No fairness is assumed of the game, the peers or the clock.
- `RelaySession`: weak fairness of the beacons of a host that is up and of a station
  that has joined, which the worker's loop reaches every 5 s, and of the end of the
  loop in `connect()`, which is bounded. Nothing is assumed of the relay: every datagram
  may be lost.
- `TcpTunnel`: weak fairness of the pump's steps, which have no wait but `poll`'s
  own timeout, and strong fairness of `poll` answering: a descriptor that is ready
  when it is polled is reported before the timeout is. Nothing is assumed of the
  relay and of the games.
- `GameReceive`: weak fairness of each thread's own receive, whose waits are
  slices with a timeout, and of the second half of `SessionRegistry::Clear`. The
  worker and the console's stack owe nothing.

**What each run can tell.** For every property of a run, `PROJECT.json` names a
variant of one definition of the model, a mistake one could make in that piece of
code, with which the run reports exactly that property.

## What is proved

| theorem | statement |
|---|---|
| `LanDiscoveryProofs!TypeCorrect` | `Spec => []TypeOK` |
| `LanDiscoveryProofs!SessionIsWholeOrGone` | `Spec => []SessionWholeOrGone` |
| `LanDiscoveryProofs!DeadSocketStaysMarked` | `Spec => []DeadSocketIsMarked` |
| `LanDiscoveryProofs!ConnectedMeansTarget` | `Spec => []ConnectedOnlyWithTarget` |
| `LanDiscoveryProofs!JoinsItsTarget` | `Spec => ConnectsToItsTarget` (an action property) |
| `LanDiscoveryProofs!HostTableIsRight` | `Spec => []HostTableMatchesSlots` |
| `LanDiscoveryProofs!RelaySlotsAreUnique` | `Spec => []OneRelaySlotPerConsole` |
| `RelaySessionProofs!WindowIsRight` | `Spec => NewestSyncWins` (an action property) |
| `RelaySessionProofs!TypeCorrect` | `Spec => []TypeOK` |
| `RelayNetworkProofs!ScopeIsTrue` | `Spec => []FiledUnderScope` |
| `RelayNetworkProofs!BeaconsMend` | `Spec => []OneBeaconMends` |
| `RelayNetworkProofs!TypeCorrect` | `Spec => []TypeOK` |
| `RelayBridgeProofs!NifmIsHeld` | `Spec => []NifmHeld` |
| `RelayBridgeProofs!BridgeStaysOpen` | `Spec => []BridgeIsOpen` |
| `RelayBridgeProofs!PumpDoesNotOutlive` | `Spec => []PumpEndsWithTransports` |
| `RelayBridgeProofs!AddressIsOne` | `Spec => []OneClientId` |
| `RelayBridgeProofs!FileIsKept` | `Spec => []FileKept` |
| `RelayBridgeProofs!TypesAndCounts` | `Spec => []TypeOK` |
| `LanProtocolProofs!CompressionIsUndone` | `\A p \in Seq(Nat) : Unpacked(Packed(p)) = {p}` |
| `LanProtocolProofs!CompressionHolds` | `Spec => []CompressionUndone`, the same as the run asks it |
| `LanProtocolProofs!SocketIsChannel` | `Spec => ImplementsChannel`: the socket implements `MessageChannel` |
| `LanProtocolProofs!OnlySenderEnds` | `Spec => []EndsBySender` |
| `LanProtocolProofs!StrayIsBounded` | `Spec => []StrayCostsOne` |
| `LanProtocolProofs!TypeCorrect` | `Spec => []TypeOK` |
| `TcpTunnelProofs!NoCrossTalkHolds` | `Spec => []NoCrossTalk` |
| `TcpTunnelProofs!GameGetsWhatArrives` | `Spec => []GotAsArrived` |
| `TcpTunnelProofs!TypeCorrect` | `Spec => []TypeOK` |
| `GameReceiveProofs!RingRefines` | `Spec => RingIsQueue`: the ring implements `FrameQueue` |
| `GameReceiveProofs!InOrderServed` | `Spec => []ServedInOrder` |
| `GameReceiveProofs!TypeCorrect` | `Spec => []TypeOK` |
| `RelayFragProofs!WholePackets` | `Spec => []PacketIsWhole` |
| `RelayFragProofs!UniqueSlots` | `Spec => []OneSlotPerPacket` |
| `RelayFragProofs!TypeCorrect` | `Spec => []TypeOK` |

The only assumptions are those of the constants (`ConstantsAssumption`,
`SessionAssumption`, `WindowAssumption`, `NetworkAssumption`, `BridgeAssumption`,
`TunnelAssumption`, `GameReceiveAssumption`, `FragAssumption`, `FramingAssumption`), which TLC evaluates on every run: sizes are
positive, the names of absent things are not names of things, what is counted is finite.
`WindowAssumption` alone says more; it is what the 16-bit window rests on (see the
bounds). So the theorems hold for any number of consoles, sessions, threads, sockets,
senders, slots, parts and ids, and for the sizes the code has.

**The session of one console** (`LanDiscoveryProofs`). None of the five invariants is
inductive: each step of a call relies on what the call has done before, and on what the
worker cannot have done meanwhile. `LanInv` adds

- `CallAt`: which call the IPC thread can be in at each point, and `SessionInCall`: before
  `initialized` is set there is no session to use, and the worker polls nothing;
- `FlipHasTarget`: a sync that is on its way to `setState` has its target still, and the network
  is that target's, since whoever writes the target holds `pollMutex` or `dataMutex`, which the
  worker holds. This is what `JoinsItsTarget` follows from;
- `GoneInv`: slots wait for `updateNodes` only while the worker is on its way to it.
  `HostTableMatchesSlots` says how far the network may lag behind the slots: by those the worker
  has just reset, and by those the call that ends the network has reset and not yet said so with
  `setState`. Since either thread's `updateNodes` counts what the other may be resetting,
  `NodesReadLists` speaks of the slots counted and the slots seen apart;
- `HostInCall`: a network is up only between calls and in those that end it, so no other
  call can change the slots under it; `StationHasNoStations`: a console that is a station
  has no relay slots left over, so a new network starts with none.

The proof goes action by action; the slots need counting arguments (`SlotCount`).

**The types of a session** (`LanDiscoveryProofs`, first part). `TypeOK` is inductive as it stands. What
needs an argument is that `nodeCount` stays within the table (a set of slots has at most
`StationCountMax` members) and that the loops over the stations yield a slot.

**The window** (`RelaySessionProofs`). What the station compares are stamps modulo
`SeqSpace`; what the property speaks of is the order of the syncs. `Order` ties the two:
the counter is ahead of every stamp known by no more than the packets sent since
(`CounterAhead`), of two stamps the later sync has the one ahead (`SyncsSpaced`), and what
is still in flight has been overtaken by less than `MaxLag` (`LateIsRecent`). Then a lag
below the window means an older sync, and a newer one has a lag between the window and the
space. The distance the code computes is one more than the number of packets where the
counter has skipped 0; the assumption leaves room for that one. `Budget` (a sync in hand for each member that may
leave) bounds what the counter can run through. `StampRemainder` is the arithmetic of `%`.

**The server's tables** (`RelayNetworkProofs`). `FiledUnderScope` is kept by every
datagram because a declaration files anew what the endpoint had under its old scope and a
frame files under what is declared now; `Tables` adds that nothing is filed for a socket
that was never opened, without which a renewed socket could find itself in the table.
For `OneBeaconMends` the tables must also say that a virtual address is filed only for its
own console (every datagram under way is `Rightful`): then the second beacon, which files
anew whatever its endpoint had, cannot displace what the first has filed (`BeaconFiles`).
Whatever the rest of the tables and the peer map hold makes no difference. The statement
excepts the real address a console shares with its peer: `LearnPeer` ignores that one, and
the virtual address is then not learned. It is about members that announce themselves, hosts and
stations with `relayJoined`: of another member nothing is learned (lan_discovery.cpp:1025).

**The socket** (`LanProtocolProofs`). That decompression undoes compression is an induction
over sequences. The library's induction theorems take an operator, so the induction is over the
positions for which a claim holds, as a set: one that contains a number whenever it contains
all smaller ones is all of `Nat` (`NumbersByInduction`, from a least counterexample).
It first shows that functions with the recursive equations of `compress` and `decompress` exist
(`PackFromIsDefined`, `UnpackFromIsDefined`), and then, from the last position of the message to the
first, that what was packed from there on unpacks to what follows (`PackedIsUnpacked`).
The refinement needs where the bytes of a connection come from: `Connection` says that
the buffer and the stream, joined, hold the frames of all messages not yet handed over, one
after the other and nothing else (`Laid`, with the offset `at` which each ends at as witness), wherever
the border between the two is. So the first byte of the buffer is always that of the next frame
(`LaidFirst`), a frame that is not complete leaves room in a buffer it fits in, and what is left after
cutting one is laid out again (`LaidCut`). By datagrams the buffer holds nothing but a rest of
another program's datagrams that is too short for a header (`Datagrams`), and that rest is what
costs a frame.

**The shared bridge** (`RelayBridgeProofs`). `BridgeSafe` says what a transport holds at
each point of `Open` and `Close` (`Holds`), that whoever has drawn an address uses the one
in the process (`OneAddress`), that the bridge leads to a transport between its `Publish`
and its `Unpublish` (`BridgeInv`), that a running pump has a transport that has started
and not yet stopped it, and one that ends has someone who waits for it (`PumpInv`), and how
far a rewrite of `relay.cfg` that is alone and in which nothing failed has come (`FileInv`): it
has as many of the user's lines as are read, in the file or in hand. Counting the references
to nifm takes the cardinalities of the sets of transports that hold one.

**The tunnel** (`TcpTunnelProofs`). The code has no name for a connection: a stream is found by
its peer, its id and who chose the id, a socket by its number; both consoles choose the same ids, and entries and numbers are used again.
`IInv` says that there is a naming `F` of the ids ever chosen by the connections they were
chosen for, such that every stream that holds an id holds back only bytes of that connection
from its peer (`StreamIs`), every descriptor in it is its console's end of that connection
(`FdIs`) and of no other stream (`Apart`), and every frame under way carries the id of the
connection whose bytes it carries (`FrameIs`). A redirected connect names the id it takes;
every other step keeps the naming. What has been closed is forgotten by the table before the
kernel gives the number out again, so an event that poll reported for an older descriptor can
end the wrong stream (see below) but not carry bytes to it. What the argument needs is that a
console does not choose an id twice (the 16-bit counter would have to wrap, 65535 connections
later, while the frames or the stream of the old one are still about).

That a game receives what arrives (`GameGetsWhatArrives`) is about every step that can lose, repeat or
reorder bytes on this side of the relay: the buffer that holds back what the socket does not take,
the flush in parts by two threads, the end of a stream in the middle of a flush. `Kept`, the second
half of `IInv`, says that what has arrived for a connection is what its game has received
followed by what its stream holds back, and begins with what was received also when the
stream is gone. For that each connection has one id (`Numbered`) and each id
at most one stream per console: then a frame finds the only stream whose connection it may
be of, and a stream that is set up anew starts from what was received before. Of the relay nothing is
assumed, and nothing is said of what arrives: see `NothingMissing` below.

**The ring** (`GameReceiveProofs`). `ServedInOrder` compares what is queued with what was
served and says nothing of the frame the worker holds but has not pushed. `IInv` adds that
this frame came in (`InjectIsFrame`) and that everything queued and served is older than it
(`QueueIsFresh`). The proof has two halves. The first is arithmetic: below twice the ring's
size, `%` is one subtraction (`ModStep`, `WrapIsRemainder`), and with that popping is
`Tail` (`PopIsTail`), pushing is `Append` (`PushIsAppend`) and pushing into a full ring is
`Append` to the `Tail` (`PushIsOverwrite`), for any ring, head and count. The second is
about sequences only: `QueueStep` says which of them each action of `GameReceive` performs,
and `TailInOrder` and `AppendInOrder` that they keep the order. The refinement follows from
`QueueStep` alone.

**The fragments** (`RelayFragProofs`). `PacketIsWhole` speaks of the packet handed on; what
makes it true is in the slots and on the network. `IInv` adds that a fragment's label is
true of the packet it was cut from (`NetIsLabelled`) and that every part a slot has
collected is of a packet of the slot's sender and id (`SlotsHold`); the mask of a slot, not
its buffer, says which parts these are, since the buffer keeps the bytes of the packet
before.

**Model-checked only.** The liveness properties (`CallsReturn`, `RunningWorkerIsJoined`,
`GoneIsReaped`, `DeadHostIsLeft`, `OwnCloseIsReleased`, `WaitEnds`): TLAPS has no proof rule
for fairness here, as it does not reason about `ENABLED`.

## What the code does not keep

Two runs have a comment of the code as their property, and TLC shows a
behaviour of the model that violates it. `PROJECT.json` ("findings") quotes the
comments.

| run | what happens |
|---|---|
| `registry_peers` | stations 1 and 2 join, 1 leaves: `nodeCount` is 2, and the first two entries of `nodes[]` are the host and the departed station 1. The registry lists a console that has left and not the one that stayed, whose datagrams are not converted (lan_discovery.cpp:941) |
| `peer_map` | two consoles are in a session; a stranger in another session, behind another router at the same private address as one of them, advertises its network. The peer map is keyed by the real address alone and learns from everyone on the server, so the other member now addresses the game's datagrams to the stranger, whom the server does not find in the sender's scope, until its peer's next beacon (lan_discovery.cpp:187) |

### Divergences without a run

Reached by the models, and stated here only. The first eight are properties of the
modules, each contradicting the comment quoted; TLC reports it when it is put in place of
the properties of the run named. The others are windows or leftovers that no comment
speaks about exactly.

- *`FailedJoinStaysOut`* (`station`). `connect()` over the relay times out, clears
  `joinAwaitSelfIp`, tries TCP, fails, and returns with `joinActive` set: the host's next
  broadcast connects a station that gave up (lan_discovery.cpp:1452; see `JoinedWhatItAsked`), though "a scanning
  station must not be flipped connected by a stray broadcast" (lan_discovery.hpp:243).
- *`FinalizeReturns`* (`station`). `finalize()` sets `stop` before the new worker has run;
  the worker's first statement clears it and `WaitThread` waits for ever
  (lan_discovery.cpp:1001), which is what lan_discovery.hpp:235 says the atomic is there
  to exclude.
- *`PumpHangsUpDeadOnly`* (`tunnel_release`). While `poll` runs without the mutex a stream
  ends and a new one takes its entry and, as the kernel gives out the lowest free number, its
  descriptor: the hang-up reported for the old stream closes the new one (tcp_relay.cpp:260,
  "only act if it still owns this fd").
- *`PollSeesQueue`* (`game_receive`). `Poll` wakes for a queued frame only on the socket of
  the last send, though receives are served by port because "games can send and receive on
  different sockets" (bsd_mitm_service.cpp:91 and 345).
- *`JoinedWhatItAsked`* (`station`, with two hosts). A join of host A fails and leaves A armed; the
  game reads `Station` and calls `connect(B)`; a broadcast of A connects the station before B
  is recorded, and `connect(B)`, whose loop accepts any `StationConnected`, reports success in
  A's network (lan_discovery.cpp:1425), though the target is recorded first so that
  onSyncNetwork "rejects other sessions' sync" (1393).
- *`NothingMissing`* (`tunnel_lossy`). The first of two chunks is lost on the way, or could not be
  sent and nobody looked (tcp_relay.cpp:290): the game receives the second on a connection that
  stays open. "Dropping mid-stream bytes would corrupt the stream; close it instead" (tcp_relay.cpp:467).
- *`ParksOnlyWithoutSession`* (`game_receive`). Two receives see one frame and one pops it; the
  other is forwarded verbatim and parks in the console's stack while the session is alive
  (bsd_mitm_service.cpp:168), where "a blocking receive forwarded verbatim would park inside the
  real bsd:u forever" (line 135).
- *`EveryOtherLineKept`* (`relay_bridge`). A rewrite of a `relay.cfg` longer than 1023 bytes writes back
  what it has read, and the rest of the user's lines is gone (relay_client.cpp:268), in spite of
  "preserving every other line" (264).

- *The registry outlives the session.* `closeAccessPoint`, `destroyNetwork` and
  the like clear the registry before they take `pollMutex`; a handler in between
  publishes it again (lan_discovery.cpp:1315). A `Connect` accepted after they have reset the
  stations leaves its slot occupied.
- *Freed and still listed.* `LanStation::onClose` resets its slot without `dataMutex`
  (lan_discovery.cpp:55); until `updateNodes` has run, `getNetworkInfo` returns a network that
  lists the station that has left, and an `updateNodes` of `setAdvertiseData` may count it and
  not list it. `HostTableMatchesSlots` says that there is no more to it than that.
- *The unlisted join.* `connect()` arms the target in one locked section and
  asks for its own address to be listed in another: a broadcast in between
  connects a station the host has not listed (lan_discovery.cpp:1402).
- *Two slots.* A join whose relay answer is late falls back to TCP and gets a
  second slot (lan_discovery.cpp:1445); `OneRelaySlotPerConsole` is what holds.
- *The latch and the relay socket.* `initialize()` that fails may leave a relay
  socket behind (lan_discovery.cpp:1768), which `SessionWholeOrGone` excepts.
- *The early knock.* The listening socket is polled before the state says so; a
  TCP connection in that moment closes the listener (lan_discovery.cpp:350), and
  the network is advertised without it.
- *Burnt streams.* A repeated `connect()` on a socket whose stream was released
  meanwhile allocates one that nothing will use (tcp_relay.cpp:342); the comment
  at line 329 is about avoiding just that.
- *Start wipes the table* without closing what it holds: a redirect after Stop
  leaks a descriptor (tcp_relay.cpp:497).
- *No answer.* Out of streams, an `Open` is dropped and the dialling game waits
  (tcp_relay.cpp:442).
- *Late latch, late frame.* A send or an injection that looked at the session
  before it ended latches its socket, or queues its frame, after `GameRx::Clear`
  (bsd_mitm_service.cpp:618, relay_client.cpp:896).
- *The other socket's frame.* The session's port is that of the newest frame or
  send, `Pop` takes the oldest frame: with two ports, a receive on one socket is
  served the other's datagram (bsd_mitm_service.cpp:99).
- *Parked after the session.* A receive that waits when its session ends is forwarded as it is and
  blocks in the console's stack, until a datagram comes there that is not the relay's
  (bsd_mitm_service.cpp:136). `WaitEnds` says only that it no longer waits for the relay.
- *The other console is told once.* `TunnelClose` is sent once (tcp_relay.cpp:279). If it is lost the
  peer's stream stays until its own game closes, and its entry with it; `OwnCloseIsReleased` is
  about the console whose game has closed.
- *Ids start over.* A sender that restarts reuses its ids; a receiver that has
  still a slot of the old session under that id joins parts of two packets
  (relay_client.cpp:703). `PacketIsWhole` says exactly how far this goes.

- *A join nobody expects.* A sync that arrives after `connect()` has given up connects the
  station with `relayJoined` false: it sends no heartbeats, is reaped by the host, and never
  notices that the host is gone (lan_discovery.cpp:1425).
- *Syncs across restarts.* When the host's sockets are rebuilt the counter starts at 0; where
  the old one stood less than 256 above, the first syncs of the new session are dropped
  (lan_discovery.cpp:391), and a sync of the old session that arrives late is accepted as a
  restart. `NewestSyncWins` is about one session of the sockets.
- *The lost sync.* A sync is sent once. A station that misses one keeps an old list of nodes
  until the next change; a station that the host has reaped stays connected as long as the host's
  advertisements arrive.
- *An old goodbye.* A delayed `RelayBye` of an earlier session removes the console that has
  joined again meanwhile (lan_discovery.cpp:281); a sync after the host's goodbye connects a
  station that was sent back (lan_discovery.cpp:416).
- *The last frame waits.* A read takes one frame from the buffer; a second one received with it
  waits for the next byte of the peer (lan_protocol.cpp:116), and a hang-up is handled before
  what is unread (lan_protocol.cpp:42).
- *The bridge has one place.* The Open of a second transport replaces the first; its Close
  leaves the first without a bridge, and without a pump, until the first is opened anew
  (relay_client.cpp:600 and 611).
- *Stop waits for a start.* Of two transports, one that opens while the other's `Stop` waits sets
  `g_running` again for the pump that is being waited for: `Stop`, and with it `finalize()`,
  waits until someone stops the pump again, and a second thread is made on the same thread object
  (tcp_relay.cpp:502 and 525).
- *Pings forgotten.* Each Open forgets that the server answers pings; if the new path is dead from
  the start no answer comes, and the path is never found dead (relay_client.cpp:591).
- *Rewrites fail or overlap.* Two rewrites of `relay.cfg` at once, a restart after the truncation, a
  file that cannot be read (relay_client.cpp:142), which is then rewritten as if it were empty, or a
  write that fails (304-313) lose the list of servers, though the comment at 264 speaks
  of "preserving every other line". `FileKept` says when it is kept.
- *The fallback to the scopeless.* Addresses whose scope has expired (300 s) are not filed anew; a
  unicast then finds them in neither scope until the next frame (src/tools/relay_server.py:186).

## What is not modelled

- **Scan results and node events** of `LANDiscovery`: what a scan collects and when it
  ends, the queue of joins and leaves that the game's `GetNetworkInfoLatestUpdate` reads.
  Both are fed by the session and do not act on it: in `LanDiscovery` they would multiply
  the states by what was collected and teach nothing about the rest.
- **The text of `relay.cfg`**: directives, servers, the selection.
  `RelayBridge` keeps of it how many of the user's lines, and whether the address, are there.
- **`ResolveHostname`** and the header checks of incoming IP packets: parsing without state.
- **A TCP send that writes a part of a frame only**, which `sendPacket` does not look at.
- **The stack.** Sockets are modelled as the code uses them: open, closed,
  connected, readable. Addresses and ports are names.
- **Time.** A timeout may happen whenever its condition may hold; no property is
  about durations.
- **Data races in the C++ sense** on `state` and on the `networkInfo` a scanner
  copies: reads are atomic in the model. Both are words or are copied under the
  mutex; torn copies of `networkInfo` in `getNetworkInfo` are not modelled.
- **Left aside:** service registration, heap, logging, the overlay and the
  homebrew application, the test script of the relay: glue, wording and user
  interface without a protocol of their own.

## Plan

Done: the modules above, with the proofs above. What could follow:

1. `Scan` and the node events as a module of their own, with a worker reduced to what they
   see: what the game is told about joins and leaves, against what happened.
2. `RelayConfig`: directives and servers of `relay.cfg` read, changed and written back.
3. `RelaySession` with several stations, as a refinement of an abstract session.
