---------------------------- MODULE RelayNetwork ----------------------------
(***************************************************************************)
(* Consoles that share a relay server, in sessions and alone.  The server  *)
(* knows an address by the endpoint that used it last, and an endpoint's   *)
(* session, its scope, by what it declared; a console knows a peer's       *)
(* virtual address by the real one the peer told.  Datagrams are lost and  *)
(* overtaken, transports are opened anew, the server restarts.             *)
(*                                                                         *)
(* A console stands for its virtual address.  Transports and the server    *)
(* outlive sessions; how a session forms is the matter of RelaySession.    *)
(***************************************************************************)
EXTENDS Naturals, FiniteSets, Functions

CONSTANTS
    Console,    \* the consoles; also their virtual addresses, 10.13.x.x
    Address,    \* real addresses
    Real,       \* m_rsrc: the real address of each
    Scope,      \* the tokens of sessions
    Unscoped,   \* 0: no session
    Start,      \* the session each is in when the server starts
    PeerMapMax, \* entries of m_peers (16 in the code)
    MaxMoves,   \* bound: joins and leaves
    MaxFaults   \* bound: datagrams overtaken, sockets opened anew, restarts of the server

ASSUME NetworkAssumption ==
    /\ IsFiniteSet(Console) /\ Console \cap Address = {} /\ Unscoped \notin Address
    /\ Real \in [Console -> Address]
    /\ Unscoped \notin Scope /\ Start \in [Console -> Scope \cup {Unscoped}]
    /\ PeerMapMax \in Nat \ {0} /\ MaxMoves \in Nat /\ MaxFaults \in Nat

Token == Scope \cup {Unscoped}
Endpoint == Console \X (0 .. MaxFaults)   \* whose socket, and which of its sockets

VARIABLES
    clients, \* the server: whom an address in a scope belongs to
    scopes,  \* the server: what an endpoint has declared
    session, \* per console: the session it is in
    joined,  \* the members that are hosts or relayJoined
    opened,  \* per console: how often it has opened a socket anew; the last is in use
    peers,   \* per console: m_peers and m_peer_next
    late,    \* datagrams that others overtake on their way to the server
    moves, faults \* what is used up of the bounds

vars == <<clients, scopes, session, joined, opened, peers, late, moves, faults>>

server == [clients |-> clients, scopes |-> scopes]
Socket(c) == <<c, opened[c]>>

NoPeer == [real |-> Unscoped, vsrc |-> Unscoped]
Peer == [real: Address, vsrc: Console] \cup {NoPeer}

\* A frame bears its sender's source address; discovery that tells a real address is
\* broadcast. A scope declares a session.
Message == [kind: {"Announce", "Frame"}, from: Endpoint, src: Console \cup Address]
      \cup [kind: {"Scope"}, from: Endpoint, token: Token]

TypeOK ==
    /\ DOMAIN clients \subseteq Token \X (Console \cup Address)
    /\ \A k \in DOMAIN clients : clients[k] \in Endpoint
    /\ scopes \in [Endpoint -> Token]
    /\ session \in [Console -> Token]
    /\ joined \subseteq Console
    /\ opened \in [Console -> 0 .. MaxFaults]
    /\ \A c \in Console : /\ peers[c].map \in [1 .. PeerMapMax -> Peer]
                          /\ peers[c].next \in 1 .. PeerMapMax
                          /\ \A i, j \in 1 .. PeerMapMax :
                                peers[c].map[i].real = peers[c].map[j].real
                                => i = j \/ peers[c].map[i] = NoPeer
    /\ late \subseteq Message
    /\ moves \in 0 .. MaxMoves /\ faults \in 0 .. MaxFaults

-----------------------------------------------------------------------------
(* The server: what a datagram does to the tables s, and where it goes. *)

\* Faulty: whoever used it first keeps it.
Learn_FirstWins(s, e, addr) ==
    LET key == <<s.scopes[e], addr>> IN
    [clients |-> [k \in {key} \cup DOMAIN s.clients |->
                     IF k \in DOMAIN s.clients THEN s.clients[k] ELSE e],
     scopes  |-> s.scopes]

\* Whoever used an address last owns it.
Learn(s, e, addr) ==
    LET key == <<s.scopes[e], addr>> IN
    [clients |-> [k \in {key} \cup DOMAIN s.clients |-> IF k = key THEN e ELSE s.clients[k]],
     scopes  |-> s.scopes]

\* Faulty: what the endpoint's addresses were filed under stays.
Declare_NotRekeyed(s, e, token) == [s EXCEPT !.scopes[e] = token]

\* An endpoint's addresses are filed anew under the scope it declares.
Declare(s, e, token) ==
    LET mine  == {k \in DOMAIN s.clients : s.clients[k] = e /\ k[1] = s.scopes[e]}
        moved == {<<token, k[2]>> : k \in mine}
    IN [clients |-> [k \in moved \cup (DOMAIN s.clients \ mine) |->
                        IF k \in moved THEN e ELSE s.clients[k]],
        scopes  |-> [s.scopes EXCEPT ![e] = token]]

\* Discovery crosses scopes; a session's broadcast goes to it and to those in none.
Broadcast(s, e, discovery) ==
    {f \in Range(s.clients) \ {e} :
        discovery \/ s.scopes[e] = Unscoped \/ s.scopes[f] \in {s.scopes[e], Unscoped}}

\* A unicast goes to the address's owner in the sender's scope, else to the one in none.
Owner(s, e, addr) ==
    LET own  == <<s.scopes[e], addr>>
        open == <<Unscoped, addr>>
    IN (IF own \in DOMAIN s.clients THEN {s.clients[own]}
        ELSE IF open \in DOMAIN s.clients THEN {s.clients[open]} ELSE {}) \ {e}

\* What has not been used for a minute is forgotten at the next broadcast, here one address
\* at a time; a console in use is heard in time.
Idle(s) == {k \in DOMAIN s.clients :
    LET e == s.clients[k] IN e # Socket(e[1]) \/ k # <<s.scopes[e], e[1]>>}

Handle(s, m) ==
    CASE m.kind = "Scope" -> {Declare(s, m.from, m.token)}
      [] m.kind = "Frame" -> {Learn(s, m.from, m.src)}
      [] m.kind = "Announce" ->
            LET after == Learn(s, m.from, m.src)
            IN {[after EXCEPT !.clients = Restrict(@, DOMAIN @ \ gone)] : gone \in {{}} \cup {{k} : k \in Idle(after)}}

-----------------------------------------------------------------------------
(* The consoles. *)

\* Faulty: the next entry is sought beyond the last.
LearnPeer_NoWrap(c, d) ==
    LET p == peers[c] IN
    IF Real[d] = Real[c] \/ \E i \in 1 .. PeerMapMax : p.map[i].real = Real[d] THEN p
    ELSE [map |-> [p.map EXCEPT ![p.next] = [real |-> Real[d], vsrc |-> d]], next |-> p.next + 1]

\* RelayTransport::LearnPeer, with the real and the virtual address d told.
LearnPeer(c, d) ==
    LET p == peers[c]
        known == {i \in 1 .. PeerMapMax : p.map[i].real = Real[d]}
        entry == [real |-> Real[d], vsrc |-> d]
    IN IF Real[d] = Real[c] THEN p
       ELSE IF known # {} THEN [p EXCEPT !.map = [i \in 1 .. PeerMapMax |-> IF i \in known THEN entry ELSE @[i]]]
       ELSE [map |-> [p.map EXCEPT ![p.next] = entry], next |-> (p.next % PeerMapMax) + 1]

\* RelayTransport::LookupVsrc.
LookupVsrc(c, addr) == {p.vsrc : p \in {p \in Range(peers[c].map) : p.real = addr}}

\* The server handles a datagram; of those it passes an announcement on to, some hear it.
Arrive(s, m, heard) ==
    /\ \E after \in Handle(s, m) : clients' = after.clients /\ scopes' = after.scopes
    /\ peers' = [c \in Console |-> IF c \in heard THEN LearnPeer(c, m.from[1]) ELSE peers[c]]

Hearers(s, m) ==
    IF m.kind # "Announce" THEN {}
    ELSE {c \in Console : Socket(c) \in Broadcast(Learn(s, m.from, m.src), m.from, TRUE)}

Fault == faults < MaxFaults /\ faults' = faults + 1

\* A datagram arrives, is lost or is overtaken.
Send(m) ==
    \/ \E heard \in SUBSET Hearers(server, m) : Arrive(server, m, heard) /\ UNCHANGED <<late, faults>>
    \/ UNCHANGED <<clients, scopes, peers, late, faults>>
    \/ /\ Fault
       /\ late' = late \cup {m}
       /\ UNCHANGED <<clients, scopes, peers>>

ArriveLate(m) ==
    /\ m \in late
    /\ late' = late \ {m}
    /\ \E heard \in SUBSET Hearers(server, m) : Arrive(server, m, heard)
    /\ UNCHANGED <<session, joined, opened, moves, faults>>

Frame(c, src) == [kind |-> "Frame", from |-> Socket(c), src |-> src]
Announcement(c) == [kind |-> "Announce", from |-> Socket(c), src |-> c]
Declaration(c, token) == [kind |-> "Scope", from |-> Socket(c), token |-> token]

\* A session forms, and its scope is declared at once.  A station is in it without relayJoined
\* when it joined over TCP or when a late sync connects it after connect() has given up.
Join(c, token) ==
    /\ session[c] = Unscoped /\ token \in Scope
    /\ moves < MaxMoves /\ moves' = moves + 1
    /\ session' = [session EXCEPT ![c] = token]
    /\ joined' \in {joined, joined \cup {c}}
    /\ Send(Declaration(c, token))
    /\ UNCHANGED opened

\* It ends; the next beacon tells.
Leave(c) ==
    /\ session[c] # Unscoped
    /\ moves < MaxMoves /\ moves' = moves + 1
    /\ session' = [session EXCEPT ![c] = Unscoped]
    /\ joined' = joined \ {c}
    /\ UNCHANGED <<clients, scopes, opened, peers, late, faults>>

\* The two halves of a beacon: the advertisement of a host or the heartbeat of a station with
\* relayJoined (the keepalive of others, members or not, teaches nothing), and the scope.
Announce(c) ==
    /\ c \in joined
    /\ Send(Announcement(c))
    /\ UNCHANGED <<session, joined, opened, moves>>

DeclareScope(c) ==
    /\ Send(Declaration(c, session[c]))
    /\ UNCHANGED <<session, joined, opened, moves>>

\* A scan comes from the virtual address and tells no real one.
Scan(c) ==
    /\ session[c] = Unscoped
    /\ Send(Frame(c, c))
    /\ UNCHANGED <<session, joined, opened, moves>>

Mates(c, d) == c # d /\ session[c] = session[d] /\ session[c] # Unscoped

\* SendGameUnicast: from the virtual address if the receiver's is known, else from the real one.
SendGameUnicast(c, d) ==
    /\ Mates(c, d)
    /\ \/ LookupVsrc(c, Real[d]) # {} /\ Send(Frame(c, c))
       \/ LookupVsrc(c, Real[d]) = {} /\ Send(Frame(c, Real[c]))
    /\ UNCHANGED <<session, joined, opened, moves>>

\* The path is dead and the transport opens another socket.
Reopen(c) ==
    /\ Fault
    /\ opened' = [opened EXCEPT ![c] = @ + 1]
    /\ UNCHANGED <<clients, scopes, session, joined, peers, late, moves>>

ServerRestarts ==
    /\ Fault
    /\ clients' = <<>>
    /\ scopes' = [e \in Endpoint |-> Unscoped]
    /\ UNCHANGED <<session, joined, opened, peers, late, moves>>

\* A declaration that is not repeated is forgotten.
ForgetScope(e) ==
    /\ e # Socket(e[1]) /\ scopes[e] # Unscoped
    /\ scopes' = [scopes EXCEPT ![e] = Unscoped]
    /\ UNCHANGED <<clients, session, joined, opened, peers, late, moves, faults>>

Init ==
    /\ clients = <<>>
    /\ scopes = [e \in Endpoint |-> Unscoped]
    /\ session = Start
    /\ joined = {c \in Console : Start[c] # Unscoped}
    /\ opened = [c \in Console |-> 0]
    /\ peers = [c \in Console |-> [map |-> [i \in 1 .. PeerMapMax |-> NoPeer], next |-> 1]]
    /\ late = {} /\ moves = 0 /\ faults = 0

Next ==
    \/ \E c \in Console : Leave(c) \/ Announce(c) \/ DeclareScope(c) \/ Scan(c) \/ Reopen(c)
    \/ \E c \in Console, token \in Scope : Join(c, token)
    \/ \E c, d \in Console : SendGameUnicast(c, d)
    \/ \E m \in late : ArriveLate(m)
    \/ \E e \in Endpoint : ForgetScope(e)
    \/ ServerRestarts

Spec == Init /\ [][Next]_vars

-----------------------------------------------------------------------------
(* Properties. *)

\* The tables once both halves of a beacon have got through and nothing was idle.
AfterBeacon(s, c) == Declare(Learn(s, Socket(c), c), Socket(c), session[c])

\* The server files each address of a socket in use under the scope the socket declared last,
\* whatever it was filed under and in what order datagrams came: otherwise a unicast of the
\* session would not find it.
FiledUnderScope ==
    \A k \in DOMAIN clients :
        clients[k] = Socket(clients[k][1]) => k[1] = scopes[clients[k]]

\* What faults and moves have done to the tables and the map is mended by one beacon of each:
\* once the beacons of two consoles in one session have got through, each reaches the other
\* by broadcast and by the virtual address that it knows of it, on the socket in use. (Of a
\* peer that tells its own real address a console learns nothing; a member that is neither
\* host nor relayJoined announces nothing, and nothing is promised of it.)
OneBeaconMends ==
    \A c, d \in joined : Mates(c, d) =>
        LET after == AfterBeacon(AfterBeacon(server, c), d)
            told == {i \in 1 .. PeerMapMax : LearnPeer(c, d).map[i] = [real |-> Real[d], vsrc |-> d]}
        IN /\ Socket(c) \in Broadcast(after, Socket(d), FALSE)
           /\ Socket(d) \in Broadcast(after, Socket(c), FALSE)
           /\ Real[c] # Real[d] => told # {}
           /\ Owner(after, Socket(c), d) = {Socket(d)}
           /\ Owner(after, Socket(d), c) = {Socket(c)}

\* relay_client.cpp:751: a stranger with the same private address does not take the place of
\* a session's member, as the virtual address is the member's own: who knows a member by its
\* virtual address goes on to, as long as both are in the session.
StrangerTakesNoPlace ==
    [][\A c, d \in Console :
          Mates(c, d) /\ Mates(c, d)' /\ LookupVsrc(c, Real[d]) = {d} =>
              LookupVsrc(c, Real[d])' = {d}]_vars
=============================================================================
