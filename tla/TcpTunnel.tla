------------------------------ MODULE TcpTunnel ------------------------------
(***************************************************************************)
(* tcprelay: consoles that carry their games' TCP connections over the     *)
(* relay.  A game's connect() is redirected to a listener of its own       *)
(* console; the peer is told to open a connection to its own game; what    *)
(* each end sends is carried to the other in frames.                       *)
(*                                                                         *)
(* On each console three threads work on the stream table, each with       *)
(* g_mutex held: the bsd:u thread of the game (RedirectConnect), the       *)
(* LANDiscovery worker (OnTunnelFrame) and the pump, which collects the    *)
(* descriptors, polls them without the mutex and then serves what poll     *)
(* reported.  Descriptors are numbers that the kernel gives out again.     *)
(*                                                                         *)
(* The kernel, the games and the relay are the environment.  A connection  *)
(* n is named once, when a game dials it, to say which ends belong         *)
(* together; the code never sees the name.                                 *)
(***************************************************************************)
EXTENDS Naturals, Sequences, FiniteSets

CONSTANTS
    Consoles,     \* the consoles
    NoPeer,       \* peer_ip of a free entry
    MaxStreams,   \* entries of the stream table (8 in the code)
    PendingMax,   \* chunks a stream holds back for its local socket
    GameFds,      \* the descriptors a game dials with
    Dialers,      \* the consoles whose games dial
    Writers,      \* the consoles whose games send
    MaxConnects,  \* bound: connections dialled
    MaxIds,       \* bound: ids a console takes (the 16-bit counter never wraps)
    MaxChunks,    \* bound: chunks each end of a connection sends
    MaxWritten,   \* bound: chunks all ends send together
    MaxReceived,  \* bound: chunks a game has received when the relay brings more
    Stoppers      \* the consoles whose relay transport may close and open again

ASSUME TunnelAssumption ==
    /\ NoPeer \notin Consoles
    /\ Dialers \subseteq Consoles /\ Writers \subseteq Consoles
    /\ Stoppers \subseteq Consoles
    /\ MaxStreams \in Nat \ {0}
    /\ PendingMax \in Nat \ {0}
    /\ MaxConnects \in Nat /\ MaxIds \in Nat /\ MaxChunks \in Nat
    /\ MaxReceived \in Nat

Slots == 1 .. MaxStreams
Fds   == 1 .. 2 * MaxStreams + 1
Conns == 1 .. MaxConnects
NoFd  == 0

VARIABLES
    streams, \* per console: the stream table
    nextId,  \* per console: g_next_id
    running, \* per console: "on" while g_running, "stopping" until the pump has ended
    polled,  \* per console: what the pump has collected, or poll has reported
    kernel,  \* per console and descriptor: our end of a local connection
    dialled, \* per console and game descriptor: the connection dialled with it
    wire,    \* per console: the frames that were ever sent to it
    opened,  \* connections dialled so far
    wrote,   \* per connection and console: chunks the game there has sent
    got,     \* per connection and console: chunks the game there has received
    arrived  \* history, per connection and console: what the game had received when its
             \* stream was set up there, and the chunks that arrived for the stream since

tables == <<streams, nextId, running>>
vars == <<tables, polled, kernel, dialled, wire, opened, wrote, got, arrived>>

Free == [used |-> FALSE, originator |-> FALSE, id |-> 0, peer |-> NoPeer,
         game_fd |-> NoFd, listener |-> NoFd, sock |-> NoFd, pending |-> <<>>]

\* A descriptor of ours: the connection it is our end of, how the game's end is, and
\* what the game has sent that we have not read.  A listener stands for the connection
\* that waits in its backlog; "absent" says that none does.
Shut == [conn |-> 0, game |-> "none", in |-> <<>>]

Chunk == [conn: Conns, from: Consoles, k: 1 .. MaxChunks]

TypeOK ==
    /\ streams \in [Consoles -> [Slots ->
          [used: BOOLEAN, originator: BOOLEAN, id: 0 .. MaxIds,
           peer: Consoles \cup {NoPeer}, game_fd: GameFds \cup {NoFd},
           listener: Fds \cup {NoFd}, sock: Fds \cup {NoFd}, pending: Seq(Chunk)]]]
    /\ nextId \in [Consoles -> 1 .. MaxIds + 1]
    /\ running \in [Consoles -> {"on", "stopping", "off"}]
    /\ polled \in [Consoles -> [pc: {"collect", "poll", "serve"},
          of: SUBSET [slot: Slots, listens: BOOLEAN, fd: Fds,
                      event: {"none", "in", "hup"}]]]
    /\ kernel \in [Consoles -> [Fds ->
          [conn: 0 .. MaxConnects, game: {"none", "open", "closed", "reset", "absent"},
           in: Seq(Chunk)]]]
    /\ dialled \in [Consoles -> [GameFds -> 0 .. MaxConnects]]
    /\ opened \in 0 .. MaxConnects
    /\ wrote \in [Conns -> [Consoles -> 0 .. MaxChunks]]
    /\ got \in [Conns -> [Consoles -> Seq(Chunk)]]
    /\ arrived \in [Conns -> [Consoles -> Seq(Chunk)]]
    \* PendingMax bounds what is held back.
    /\ \A c \in Consoles, k \in Slots : Len(streams[c][k].pending) <= PendingMax

-----------------------------------------------------------------------------
(* Helpers of the code. *)

First(S) == CHOOSE k \in S : \A j \in S : k <= j

\* Faulty: the ids of both consoles in one space.
FindById_NoOwner(c, p, i, mine) ==
    {k \in Slots : /\ streams[c][k].used
                   /\ streams[c][k].id = i
                   /\ streams[c][k].peer = p}

FindById(c, p, i, mine) ==
    {k \in Slots : /\ streams[c][k].used
                   /\ streams[c][k].id = i
                   /\ streams[c][k].peer = p
                   /\ streams[c][k].originator = mine}

FindByGameFd(c, f) ==
    {k \in Slots : streams[c][k].originator /\ streams[c][k].game_fd = f}

\* Alloc takes the first entry that is free.
Unused(c) == {k \in Slots : ~streams[c][k].used}

\* The kernel gives out the lowest number.
UnusedFds(c) == {d \in Fds : kernel[c][d] = Shut}
NewFd(c) == First(UnusedFds(c))

\* SendTunnel: the owner bit says, as the receiver sees it, who chose the id.
Frame(c, s, type, conn, data) ==
    [type |-> type, from |-> c, to |-> s.peer, id |-> s.id, conn |-> conn, data |-> data,
     owner |-> IF s.originator THEN "sender" ELSE "receiver"]

\* The relay is UDP: of the frames a console has sent while its transport is open any may
\* arrive next, again, or never.  A send that fails is one that never does: SendTunnel's
\* callers do not look at its result.
Carried(frames) ==
    [c \in Consoles |-> wire[c] \cup
        {frames[i] : i \in {j \in DOMAIN frames :
                                frames[j].to = c /\ running[frames[j].from] # "off"}}]

\* Release closes the descriptors of a stream and empties its entry.
Shutting(c, kern, fds) ==
    [kernel EXCEPT ![c] = [d \in Fds |-> IF d \in fds THEN Shut ELSE kern[d]]]
Release(c, k) ==
    /\ streams' = [streams EXCEPT ![c][k] = Free]
    /\ kernel' = Shutting(c, kernel[c], {streams[c][k].listener, streams[c][k].sock})
    /\ UNCHANGED got

\* A stream ends on this console; the peer is told.
HangUp(c, k) ==
    /\ Release(c, k)
    /\ wire' = Carried(<<Frame(c, streams[c][k], "close", 0, <<>>)>>)

\* FlushPending of the entries K of table tab: a local socket takes the first m[k]
\* chunks, which its game receives; one whose other end is gone refuses them, and the
\* stream ends.
FlushPending(c, K, tab, kern) ==
    LET up    == {k \in K : tab[k].sock # NoFd /\ tab[k].pending # <<>>}
        ended == {k \in up : kern[tab[k].sock].game # "open"}
    IN \E m \in [up -> 0 .. PendingMax] :
          LET taken(k) == IF k \in up \ ended THEN m[k] ELSE 0
              end(n)   == {k \in up : kern[tab[k].sock].conn = n}
          IN /\ \A k \in up : taken(k) <= Len(tab[k].pending)
             /\ streams' = [streams EXCEPT ![c] = [k \in Slots |->
                   IF k \in ended THEN Free
                   ELSE [tab[k] EXCEPT !.pending = SubSeq(@, taken(k) + 1, Len(@))]]]
             /\ kernel' = Shutting(c, kern, {tab[k].sock : k \in ended})
             /\ got' = [n \in Conns |-> IF end(n) = {} THEN got[n] ELSE
                   LET k == First(end(n))
                   IN [got[n] EXCEPT ![c] = @ \o SubSeq(tab[k].pending, 1, taken(k))]]
             /\ wire' = Carried([k \in ended |-> Frame(c, tab[k], "close", 0, <<>>)])

-----------------------------------------------------------------------------
(* RedirectConnect, on the bsd:u thread of the game. *)

\* A connect on a descriptor that a stream knows is the game polling its connection:
\* it changes nothing.  Without a free entry the call is forwarded unchanged.  The
\* answer of the game's stack is not looked at: on a socket that still is connected,
\* to a stream released since, the new listener will never see a connection.
RedirectConnect(c, f, p) ==
    LET fresh == dialled[c][f] = 0
        s == [Free EXCEPT !.used = TRUE, !.originator = TRUE, !.id = nextId[c],
                          !.peer = p, !.listener = NewFd(c), !.game_fd = f]
    IN /\ c \in Dialers
       /\ FindByGameFd(c, f) = {}
       /\ Unused(c) # {} /\ UnusedFds(c) # {}
       /\ nextId[c] <= MaxIds /\ opened < MaxConnects
       /\ opened' = opened + 1
       /\ nextId' = [nextId EXCEPT ![c] = @ + 1]
       /\ streams' = [streams EXCEPT ![c][First(Unused(c))] = s]
       /\ kernel' = [kernel EXCEPT ![c][s.listener] =
                        [conn |-> opened', game |-> IF fresh THEN "open" ELSE "absent",
                         in |-> <<>>]]
       /\ dialled' = IF fresh THEN [dialled EXCEPT ![c][f] = opened'] ELSE dialled
       /\ wire' = Carried(<<Frame(c, s, "open", opened', <<>>)>>)
       /\ arrived' = [arrived EXCEPT ![opened'][c] = got[opened'][c]]
       /\ UNCHANGED <<running, polled, wrote, got>>

\* The dispatch to the game's stack fails: the id is spent, the entry is not.
RedirectFails(c, f) ==
    /\ c \in Dialers
    /\ FindByGameFd(c, f) = {}
    /\ Unused(c) # {}
    /\ nextId[c] <= MaxIds
    /\ nextId' = [nextId EXCEPT ![c] = @ + 1]
    /\ UNCHANGED <<streams, running, polled, kernel, dialled, wire, opened, wrote, got, arrived>>

-----------------------------------------------------------------------------
(* OnTunnelFrame, on the worker of the receiving console. *)

Received(f, type) ==
    /\ f.type = type
    /\ running[f.to] = "on"
    /\ UNCHANGED <<nextId, running, polled, dialled, opened, wrote>>

\* The stream a frame is about: of ours, if the sender calls us the owner.
Target(f) == FindById(f.to, f.from, f.id, f.owner = "receiver")

Ignored == UNCHANGED <<streams, kernel, wire, got>>

\* A duplicate is ignored.  Without a free entry the frame is dropped and the peer not
\* told; when the local game cannot be reached it is.
OnOpen(f) ==
    LET c == f.to
        s == [Free EXCEPT !.used = TRUE, !.id = f.id, !.peer = f.from]
    IN /\ Received(f, "open")
       /\ IF FindById(c, f.from, f.id, FALSE) # {} \/ Unused(c) = {}
          THEN Ignored /\ UNCHANGED arrived
          ELSE /\ UNCHANGED got
               /\ \/ /\ UnusedFds(c) # {}
                     /\ streams' = [streams EXCEPT ![c][First(Unused(c))] =
                                       [s EXCEPT !.sock = NewFd(c)]]
                     /\ kernel' = [kernel EXCEPT ![c][NewFd(c)] =
                                     [conn |-> f.conn, game |-> "open", in |-> <<>>]]
                     /\ arrived' = [arrived EXCEPT ![f.conn][c] = got[f.conn][c]]
                     /\ UNCHANGED wire
                  \/ /\ wire' = Carried(<<Frame(c, s, "close", 0, <<>>)>>)
                     /\ UNCHANGED <<streams, kernel, arrived>>

\* History: a frame that finds a stream has arrived for it, whatever becomes of it.
Arrives(f) ==
    arrived' = IF Target(f) = {} THEN arrived
               ELSE [arrived EXCEPT ![Head(f.data).conn][f.to] = Append(@, Head(f.data))]

\* The stream of entry k with the bytes that came, before it is flushed.
With(c, k, data) == [streams[c] EXCEPT ![k].pending = @ \o data]

\* Faulty: drops the bytes that find no room.
OnData_Drop(f) ==
    LET c == f.to
    IN /\ Received(f, "data") /\ Arrives(f)
       /\ \/ Target(f) = {} /\ Ignored
          \/ \E k \in Target(f) :
                IF Len(streams[c][k].pending) + Len(f.data) > PendingMax
                THEN Ignored
                ELSE FlushPending(c, {k}, With(c, k, f.data), kernel[c])

\* Faulty: holds back one chunk too many.
OnData_Late(f) ==
    LET c == f.to
    IN /\ Received(f, "data") /\ Arrives(f)
       /\ \/ Target(f) = {} /\ Ignored
          \/ \E k \in Target(f) :
                IF Len(streams[c][k].pending) > PendingMax
                THEN HangUp(c, k)
                ELSE FlushPending(c, {k}, With(c, k, f.data), kernel[c])

\* Bytes that no longer fit end the stream.
OnData(f) ==
    LET c == f.to
    IN /\ Received(f, "data") /\ Arrives(f)
       /\ \/ Target(f) = {} /\ Ignored
          \/ \E k \in Target(f) :
                IF Len(streams[c][k].pending) + Len(f.data) > PendingMax
                THEN HangUp(c, k)
                ELSE FlushPending(c, {k}, With(c, k, f.data), kernel[c])

OnClose(f) ==
    /\ Received(f, "close")
    /\ \/ Target(f) = {} /\ Ignored
       \/ \E k \in Target(f) : Release(f.to, k) /\ UNCHANGED wire
    /\ UNCHANGED arrived

-----------------------------------------------------------------------------
(* The pump. *)

Pump(c, pc) ==
    /\ polled[c].pc = pc
    /\ UNCHANGED <<nextId, running, dialled, opened, wrote, arrived>>

\* With g_mutex: the descriptors of all streams.
PumpCollects(c) ==
    /\ Pump(c, "collect")
    /\ running[c] = "on"
    /\ LET Entry(k, l, d) == [slot |-> k, listens |-> l, fd |-> d, event |-> "none"]
           all == {Entry(k, TRUE, streams[c][k].listener) : k \in Slots}
                      \cup {Entry(k, FALSE, streams[c][k].sock) : k \in Slots}
           used == {e \in all : e.fd # NoFd}
       IN /\ used # {}
          /\ polled' = [polled EXCEPT ![c] = [pc |-> "poll", of |-> used]]
    /\ UNCHANGED <<streams, kernel, wire, got>>

\* poll, without it: what the kernel says of those numbers now.  A number that is
\* closed is reported as an error.
Ready(c, e) ==
    LET d == kernel[c][e.fd]
    IN IF d = Shut \/ d.game = "reset" THEN "hup"
       ELSE IF e.listens THEN (IF d.game = "absent" THEN "none" ELSE "in")
       ELSE IF d.in # <<>> \/ d.game = "closed" THEN "in" ELSE "none"

PumpPolls(c) ==
    /\ Pump(c, "poll")
    /\ LET found == {[e EXCEPT !.event = Ready(c, e)] : e \in polled[c].of}
           ready == {e \in found : e.event # "none"}
       IN /\ ready # {}
          /\ polled' = [polled EXCEPT ![c] = [pc |-> "serve", of |-> ready]]
    /\ UNCHANGED <<streams, kernel, wire, got>>

\* poll timed out: the local sockets take what they will.
PumpFlushes(c) ==
    /\ Pump(c, "poll")
    /\ polled' = [polled EXCEPT ![c] = [pc |-> "collect", of |-> {}]]
    /\ FlushPending(c, Slots, streams[c], kernel[c])

\* One event is served, in the order of the table.  Poll ran without the mutex: an
\* event whose entry has another descriptor by now is skipped.
Served(c, e) ==
    /\ Pump(c, "serve")
    /\ e \in polled[c].of
    /\ \A o \in polled[c].of : e.slot <= o.slot
    /\ LET rest == polled[c].of \ {e}
       IN polled' = [polled EXCEPT ![c] =
                        [pc |-> IF rest = {} THEN "collect" ELSE "serve", of |-> rest]]

Owns(c, e) == e.fd = IF e.listens THEN streams[c][e.slot].listener
                                  ELSE streams[c][e.slot].sock

PumpSkips(c) ==
    \E e \in polled[c].of :
        /\ Served(c, e)
        /\ \/ ~Owns(c, e)
           \/ e.listens /\ \/ e.event = "hup" \/ kernel[c][e.fd].game = "absent"
                           \/ UnusedFds(c) = {}
        /\ UNCHANGED <<streams, kernel, wire, got>>

\* The game has connected to the listener, which is needed no more.
PumpAccepts(c) ==
    \E e \in polled[c].of :
        LET k  == e.slot
            fd == NewFd(c)
        IN /\ Served(c, e)
           /\ Owns(c, e) /\ e.listens /\ e.event = "in"
           /\ kernel[c][e.fd].game # "absent" /\ UnusedFds(c) # {}
           /\ FlushPending(c, {k},
                  [streams[c] EXCEPT ![k].listener = NoFd, ![k].sock = fd],
                  [kernel[c] EXCEPT ![e.fd] = Shut, ![fd] = kernel[c][e.fd]])

\* Faulty: that the game has sent all and closed is not noticed.
PumpHangsUp_ErrorsOnly(c) ==
    \E e \in polled[c].of :
        /\ Served(c, e)
        /\ Owns(c, e) /\ ~e.listens
        /\ \/ e.event = "hup" /\ HangUp(c, e.slot)
           \/ /\ e.event # "hup" /\ kernel[c][e.fd].in = <<>>
              /\ UNCHANGED <<streams, kernel, wire, got>>

\* An error, or the end of what the game sent: the stream ends.
PumpHangsUp(c) ==
    \E e \in polled[c].of :
        /\ Served(c, e)
        /\ Owns(c, e) /\ ~e.listens
        /\ \/ e.event = "hup"
           \/ kernel[c][e.fd].in = <<>> /\ kernel[c][e.fd].game # "open"
        /\ HangUp(c, e.slot)

\* A chunk of the game's goes to the peer.  (A descriptor that has changed hands
\* since poll may have nothing to read.)
PumpReads(c) ==
    \E e \in polled[c].of :
        LET d == kernel[c][e.fd]
            s == streams[c][e.slot]
        IN /\ Served(c, e)
           /\ Owns(c, e) /\ ~e.listens /\ e.event = "in"
           /\ IF d.in # <<>>
              THEN /\ kernel' = [kernel EXCEPT ![c][e.fd].in = Tail(@)]
                   /\ wire' = Carried(<<Frame(c, s, "data", 0, <<Head(d.in)>>)>>)
              ELSE d.game = "open" /\ UNCHANGED <<kernel, wire>>
           /\ UNCHANGED <<streams, got>>

-----------------------------------------------------------------------------
(* Start and Stop, with the relay transport. *)

\* Start empties the table without closing what it holds.
Start(c) ==
    /\ running[c] = "off"
    /\ running' = [running EXCEPT ![c] = "on"]
    /\ streams' = [streams EXCEPT ![c] = [k \in Slots |-> Free]]
    /\ UNCHANGED <<nextId, polled, kernel, dialled, wire, opened, wrote, got, arrived>>

Stop(c) ==
    /\ c \in Stoppers
    /\ running[c] = "on"
    /\ running' = [running EXCEPT ![c] = "stopping"]
    /\ UNCHANGED <<streams, nextId, polled, kernel, dialled, wire, opened, wrote, got, arrived>>

\* The pump leaves its loop at the head only; then the streams are released.  The peers
\* are not told: the transport is closing.
Stopped(c) ==
    /\ running[c] = "stopping"
    /\ polled[c].pc = "collect"
    /\ running' = [running EXCEPT ![c] = "off"]
    /\ kernel' = Shutting(c, kernel[c], {streams[c][k].listener : k \in Slots}
                                           \cup {streams[c][k].sock : k \in Slots})
    /\ streams' = [streams EXCEPT ![c] = [k \in Slots |-> Free]]
    /\ UNCHANGED <<nextId, polled, dialled, wire, opened, wrote, got, arrived>>

-----------------------------------------------------------------------------
(* The games and the relay. *)

\* The game's end of connection n on console c, as far as our end knows it.
LocalEnds(c, n) == {d \in Fds : kernel[c][d] # Shut /\ kernel[c][d].conn = n}

Written == {p \in Conns \X Consoles \X (1 .. MaxChunks) : p[3] <= wrote[p[1]][p[2]]}

GameWrites(c, d) ==
    LET n == kernel[c][d].conn
    IN /\ c \in Writers /\ Cardinality(Written) < MaxWritten
       /\ kernel[c][d] # Shut /\ kernel[c][d].game = "open"
       /\ wrote[n][c] < MaxChunks
       /\ wrote' = [wrote EXCEPT ![n][c] = @ + 1]
       /\ kernel' = [kernel EXCEPT ![c][d].in =
                        Append(@, [conn |-> n, from |-> c, k |-> wrote'[n][c]])]
       /\ UNCHANGED <<tables, polled, dialled, wire, opened, got, arrived>>

\* The game closes its end, or the end is reset, which a game does to a connection it
\* has seen accepted.
GameCloses(c, d) ==
    /\ kernel[c][d] # Shut /\ kernel[c][d].game = "open"
    /\ \E how \in {"closed", "reset"} :
          /\ how = "reset" => \E k \in Slots : streams[c][k].sock = d
          /\ kernel' = [kernel EXCEPT ![c][d].game = how]
    /\ dialled' = [dialled EXCEPT ![c] =
                      [f \in GameFds |-> IF @[f] = kernel[c][d].conn THEN 0 ELSE @[f]]]
    /\ UNCHANGED <<tables, polled, wire, opened, wrote, got, arrived>>

\* The game gives up a socket whose other end we have closed.
GameDrops(c, f) ==
    /\ dialled[c][f] # 0
    /\ LocalEnds(c, dialled[c][f]) = {}
    /\ dialled' = [dialled EXCEPT ![c][f] = 0]
    /\ UNCHANGED <<tables, polled, kernel, wire, opened, wrote, got, arrived>>

-----------------------------------------------------------------------------
Init ==
    /\ streams = [c \in Consoles |-> [k \in Slots |-> Free]]
    /\ nextId = [c \in Consoles |-> 1]
    /\ running = [c \in Consoles |-> "on"]
    /\ polled = [c \in Consoles |-> [pc |-> "collect", of |-> {}]]
    /\ kernel = [c \in Consoles |-> [d \in Fds |-> Shut]]
    /\ dialled = [c \in Consoles |-> [f \in GameFds |-> 0]]
    /\ wire = [c \in Consoles |-> {}]
    /\ opened = 0
    /\ wrote = [n \in Conns |-> [c \in Consoles |-> 0]]
    /\ got = [n \in Conns |-> [c \in Consoles |-> <<>>]]
    /\ arrived = got

Frames ==
    \E c \in Consoles : \E f \in wire[c] :
        \/ OnOpen(f) \/ OnClose(f)
        \/ (\A n \in Conns : Len(got[n][c]) < MaxReceived) /\ OnData(f)

PumpStep(c) ==
    \/ PumpCollects(c) \/ PumpPolls(c) \/ PumpFlushes(c)
    \/ PumpSkips(c) \/ PumpAccepts(c) \/ PumpHangsUp(c) \/ PumpReads(c)

Game(c) ==
    \/ \E f \in GameFds : \/ \E p \in Consoles \ {c} : RedirectConnect(c, f, p)
                          \/ RedirectFails(c, f) \/ GameDrops(c, f)
    \/ \E d \in Fds : GameWrites(c, d) \/ GameCloses(c, d)

Next ==
    \/ Frames
    \/ \E c \in Consoles : PumpStep(c) \/ Game(c) \/ Start(c) \/ Stop(c) \/ Stopped(c)

Spec == Init /\ [][Next]_vars

\* The pump runs, and poll answers when a descriptor it was given is ready; of the relay
\* nothing is expected.
FairSpec == Spec /\ \A c \in Consoles : WF_vars(PumpStep(c)) /\ SF_vars(PumpPolls(c))
-----------------------------------------------------------------------------
(* What holds. *)

\* What a game receives on a connection its peer's game sent on that connection,
\* whatever the relay loses, repeats and reorders, though both consoles choose the same
\* ids and entries and descriptors are used again.
NoCrossTalk ==
    \A n \in Conns, c \in Consoles : \A j \in DOMAIN got[n][c] :
        got[n][c][j].conn = n /\ got[n][c][j].from # c

\* What arrives for a stream its game receives in the order in which it arrived and without
\* a gap, to the point where the stream ends, though the local socket takes it in parts or not
\* at all, the room for what waits runs out, and other threads release and set up streams in
\* between: "Dropping mid-stream bytes would corrupt the stream; close it instead".
GotAsArrived ==
    \A n \in Conns, c \in Consoles : \A j \in DOMAIN got[n][c] :
        j \in DOMAIN arrived[n][c] /\ got[n][c][j] = arrived[n][c][j]

Holds(c, n) == \E k \in Slots :
    \/ streams[c][k].sock # NoFd /\ kernel[c][streams[c][k].sock].conn = n
    \/ streams[c][k].listener # NoFd /\ kernel[c][streams[c][k].listener].conn = n

\* A stream whose own game has closed or reset its connection, accepted or still waiting to
\* be, ends on that console with its entry and descriptors, whatever the relay does, unless
\* the tunnel is stopped first.
OwnCloseIsReleased ==
    \A c \in Consoles, n \in Conns :
        (/\ running[c] = "on" /\ Holds(c, n)
         /\ \E d \in LocalEnds(c, n) : kernel[c][d].game \in {"closed", "reset"})
            ~> (~Holds(c, n) \/ running[c] # "on")

-----------------------------------------------------------------------------
(* What comments of the code promise and the code does not keep. *)

\* tcp_relay.cpp:467: "Dropping mid-stream bytes would corrupt the stream; close it instead":
\* of what was sent before a chunk that a game receives, on its connection, nothing is missing.
NothingMissing ==
    \A n \in Conns, c \in Consoles : \A j \in DOMAIN got[n][c] :
        got[n][c][j].k > 1 => \E i \in 1 .. j - 1 : got[n][c][i].k = got[n][c][j].k - 1

\* tcp_relay.cpp:258: "poll() ran unlocked, so the slot may have been reused since the
\* snapshot - only act if it still owns this fd": the pump hangs up no stream whose game
\* is there.
PumpHangsUpDeadOnly ==
    [][\A c \in Consoles :
          PumpHangsUp(c) => \A d \in Fds : kernel[c][d] # Shut /\ kernel'[c][d] = Shut
                                => kernel[c][d].game # "open"]_vars
=============================================================================
