------------------------- MODULE RelayNetworkProofs -------------------------
(***************************************************************************)
(* Proofs about RelayNetwork, for any number of consoles, sessions and     *)
(* entries of the peer map.                                                *)
(***************************************************************************)
EXTENDS RelayNetwork, Integers, TLAPS

-----------------------------------------------------------------------------
(* The inductive invariant, in named parts. *)

Addr == Console \cup Address

\* An endpoint is the socket its console uses now, or one it has opened so far.
InUse(e)  == e = Socket(e[1])
Opened(e) == e[2] <= opened[e[1]]

\* A datagram is from a socket of the console whose virtual address it bears.
Rightful(m) == /\ Opened(m.from)
               /\ m.kind # "Scope" /\ m.src \in Console => m.src = m.from[1]

\* The server's tables: whose an address is, and what an endpoint has declared.
Tables(owner, declared) ==
    /\ DOMAIN owner \subseteq Token \X Addr
    /\ \A k \in DOMAIN owner :
          /\ owner[k] \in Endpoint /\ Opened(owner[k])
          /\ InUse(owner[k]) => k[1] = declared[owner[k]]
          /\ k[2] \in Console => owner[k][1] = k[2]
    /\ declared \in [Endpoint -> Token]

PeerMap ==
    {p \in [map: [1 .. PeerMapMax -> Peer], next: 1 .. PeerMapMax] :
        \A i, j \in 1 .. PeerMapMax :
            p.map[i].real = p.map[j].real => i = j \/ p.map[i] = NoPeer}

Sockets ==
    /\ session \in [Console -> Token] /\ joined \subseteq Console
    /\ opened \in [Console -> 0 .. MaxFaults]
    /\ \A c \in Console : opened[c] <= faults
    /\ late \subseteq Message /\ \A m \in late : Rightful(m)
    /\ moves \in 0 .. MaxMoves /\ faults \in 0 .. MaxFaults

IInv == Tables(clients, scopes) /\ peers \in [Console -> PeerMap] /\ Sockets

-----------------------------------------------------------------------------
(* The server's tables. *)

\* To learn an address keeps them.
LEMMA LearnKeeps ==
    ASSUME NEW owner, NEW declared, Tables(owner, declared),
           NEW e \in Endpoint, Opened(e), NEW addr \in Addr, addr \in Console => addr = e[1]
    PROVE  LET after == Learn([clients |-> owner, scopes |-> declared], e, addr)
           IN after = [clients |-> after.clients, scopes |-> declared]
              /\ Tables(after.clients, declared)
<1> DEFINE key == <<declared[e], addr>>
           new == [k \in {key} \cup DOMAIN owner |-> IF k = key THEN e ELSE owner[k]]
<1>1. Learn([clients |-> owner, scopes |-> declared], e, addr)
         = [clients |-> new, scopes |-> declared]
  BY DEF Learn
<1>2. key \in Token \X Addr /\ key[1] = declared[e] /\ key[2] = addr
  BY DEF Tables
<1>3. /\ DOMAIN new = {key} \cup DOMAIN owner
      /\ \A k \in DOMAIN new : \/ k = key /\ new[k] = e
                               \/ k \in DOMAIN owner /\ new[k] = owner[k]
  OBVIOUS
<1> HIDE DEF new, key
<1>4. DOMAIN new \subseteq Token \X Addr
  BY <1>2, <1>3 DEF Tables
<1>5. ASSUME NEW k \in DOMAIN new
      PROVE  /\ new[k] \in Endpoint /\ Opened(new[k])
             /\ InUse(new[k]) => k[1] = declared[new[k]]
             /\ k[2] \in Console => new[k][1] = k[2]
  <2>1. CASE k = key /\ new[k] = e
    BY <1>2, <2>1
  <2>2. CASE k \in DOMAIN owner /\ new[k] = owner[k]
    BY <2>2 DEF Tables
  <2> QED
    BY <1>3, <2>1, <2>2
<1>6. Tables(new, declared)
  BY <1>4, <1>5 DEF Tables
<1> QED
  BY <1>1, <1>6

\* To forget some of them keeps the rest.
LEMMA RestrictKeeps ==
    ASSUME NEW owner, NEW declared, Tables(owner, declared), NEW S \in SUBSET DOMAIN owner
    PROVE  Tables(Restrict(owner, S), declared)
<1>1. DOMAIN Restrict(owner, S) = S /\ \A k \in S : Restrict(owner, S)[k] = owner[k]
  BY DEF Restrict
<1> QED
  BY <1>1 DEF Tables

\* To declare a scope files the endpoint's addresses anew; nothing of it stays behind.
LEMMA DeclareKeeps ==
    ASSUME NEW owner, NEW declared, Tables(owner, declared),
           NEW e \in Endpoint, Opened(e), NEW token \in Token
    PROVE  LET after == Declare([clients |-> owner, scopes |-> declared], e, token)
           IN Tables(after.clients, after.scopes)
<1> DEFINE mine  == {k \in DOMAIN owner : owner[k] = e /\ k[1] = declared[e]}
           moved == {<<token, k[2]>> : k \in mine}
           new   == [k \in moved \cup (DOMAIN owner \ mine) |->
                        IF k \in moved THEN e ELSE owner[k]]
           scope == [declared EXCEPT ![e] = token]
<1>1. Declare([clients |-> owner, scopes |-> declared], e, token)
         = [clients |-> new, scopes |-> scope]
  BY DEF Declare
<1>2. \A k \in moved : k \in Token \X Addr /\ k[1] = token /\ (k[2] \in Console => e[1] = k[2])
  BY DEF Tables
<1> HIDE DEF moved
<1>3. /\ DOMAIN new = moved \cup (DOMAIN owner \ mine)
      /\ \A k \in DOMAIN new : \/ k \in moved /\ new[k] = e
                               \/ k \in DOMAIN owner /\ k \notin mine /\ new[k] = owner[k]
  OBVIOUS
<1>4. /\ scope \in [Endpoint -> Token] /\ scope[e] = token
      /\ \A f \in Endpoint : f # e => scope[f] = declared[f]
  BY DEF Tables
<1> HIDE DEF new, scope
<1>5. DOMAIN new \subseteq Token \X Addr
  BY <1>2, <1>3 DEF Tables
<1>6. ASSUME NEW k \in DOMAIN new
      PROVE  /\ new[k] \in Endpoint /\ Opened(new[k])
             /\ InUse(new[k]) => k[1] = scope[new[k]]
             /\ k[2] \in Console => new[k][1] = k[2]
  <2>1. CASE k \in moved /\ new[k] = e
    BY <1>2, <1>4, <2>1
  <2>2. CASE k \in DOMAIN owner /\ k \notin mine /\ new[k] = owner[k]
    <3>1. owner[k] \in Endpoint /\ Opened(owner[k])
          /\ (InUse(owner[k]) => k[1] = declared[owner[k]])
          /\ (k[2] \in Console => owner[k][1] = k[2])
      BY <2>2 DEF Tables
    <3>2. InUse(owner[k]) => owner[k] # e
      BY <2>2, <3>1 DEF mine
    <3> QED
      BY <1>4, <2>2, <3>1, <3>2
  <2> QED
    BY <1>3, <2>1, <2>2
<1>7. Tables(new, scope)
  BY <1>4, <1>5, <1>6 DEF Tables
<1> QED
  BY <1>1, <1>7

\* Whatever message the server handles.
LEMMA HandleKeeps ==
    ASSUME Tables(clients, scopes), NEW m \in Message, Rightful(m),
           NEW after \in Handle(server, m)
    PROVE  Tables(after.clients, after.scopes)
<1>1. /\ m.kind \in {"Announce", "Frame", "Scope"} /\ m.from \in Endpoint
      /\ m.kind = "Scope" => m.token \in Token
      /\ m.kind \in {"Announce", "Frame"} => m.src \in Addr /\ (m.src \in Console => m.src = m.from[1])
      /\ Opened(m.from)
  BY DEF Message, Addr, Rightful
<1>2. CASE m.kind = "Scope"
  <2>1. after = Declare([clients |-> clients, scopes |-> scopes], m.from, m.token)
    BY <1>2 DEF Handle, server
  <2> QED
    BY <1>1, <1>2, <2>1, DeclareKeeps
<1>3. ASSUME m.kind \in {"Announce", "Frame"}
      PROVE  LET learnt == Learn(server, m.from, m.src)
             IN /\ learnt = [clients |-> learnt.clients, scopes |-> scopes]
                /\ Tables(learnt.clients, scopes)
  BY <1>1, <1>3, LearnKeeps DEF server
<1>4. CASE m.kind = "Frame"
  <2>1. after = Learn(server, m.from, m.src)
    BY <1>4 DEF Handle
  <2> QED
    BY <1>3, <1>4, <2>1
<1>5. CASE m.kind = "Announce"
  <2> DEFINE learnt == Learn(server, m.from, m.src)
  <2>1. PICK gone : after = [learnt EXCEPT !.clients = Restrict(@, DOMAIN @ \ gone)]
    BY <1>5 DEF Handle
  <2>2. learnt = [clients |-> learnt.clients, scopes |-> scopes] /\ Tables(learnt.clients, scopes)
    BY <1>3, <1>5
  <2> HIDE DEF learnt
  <2>3. after = [clients |-> Restrict(learnt.clients, DOMAIN learnt.clients \ gone),
                 scopes |-> scopes]
    BY <2>1, <2>2
  <2>4. DOMAIN learnt.clients \ gone \in SUBSET DOMAIN learnt.clients
    OBVIOUS
  <2> QED
    BY <2>2, <2>3, <2>4, RestrictKeeps
<1> QED
  BY <1>1, <1>2, <1>4, <1>5

-----------------------------------------------------------------------------
(* A console's map of its peers. *)

LEMMA InPeerMap ==
    ASSUME NEW map \in [1 .. PeerMapMax -> Peer], NEW next \in 1 .. PeerMapMax,
           \A i, j \in 1 .. PeerMapMax : map[i].real = map[j].real => i = j \/ map[i] = NoPeer
    PROVE  [map |-> map, next |-> next] \in PeerMap
BY DEF PeerMap

\* What a peer tells has one entry, and the next one stays in the map.
LEMMA LearnPeerKeeps ==
    ASSUME peers \in [Console -> PeerMap], NEW c \in Console, NEW d \in Console
    PROVE  LearnPeer(c, d) \in PeerMap
<1> DEFINE p == peers[c]
           known == {i \in 1 .. PeerMapMax : p.map[i].real = Real[d]}
           entry == [real |-> Real[d], vsrc |-> d]
<1>1. /\ p \in [map: [1 .. PeerMapMax -> Peer], next: 1 .. PeerMapMax]
      /\ \A i, j \in 1 .. PeerMapMax :
            p.map[i].real = p.map[j].real => i = j \/ p.map[i] = NoPeer
  BY DEF PeerMap
<1>2. entry \in Peer /\ entry.real = Real[d] /\ NoPeer.real # Real[d]
  BY NetworkAssumption DEF Peer, NoPeer
<1>3. CASE Real[d] = Real[c]
  BY <1>3 DEF LearnPeer
<1>4. CASE Real[d] # Real[c] /\ known # {}
  <2> DEFINE map == [i \in 1 .. PeerMapMax |-> IF i \in known THEN entry ELSE p.map[i]]
  <2>1. LearnPeer(c, d) = [p EXCEPT !.map = map]
    BY <1>4 DEF LearnPeer
  <2>2. map \in [1 .. PeerMapMax -> Peer]
    BY <1>1, <1>2
  <2>3. ASSUME NEW i \in 1 .. PeerMapMax, NEW j \in 1 .. PeerMapMax, map[i].real = map[j].real
        PROVE  i = j \/ map[i] = NoPeer
    <3>1. map[i].real = p.map[i].real /\ map[j].real = p.map[j].real
      BY <1>2
    <3>2. i = j \/ p.map[i] = NoPeer
      BY <1>1, <2>3, <3>1
    <3>3. p.map[i] = NoPeer => map[i] = NoPeer
      BY <1>2
    <3> QED
      BY <3>2, <3>3
  <2> HIDE DEF map
  <2>4. p.next \in 1 .. PeerMapMax
    BY <1>1
  <2>5. [p EXCEPT !.map = map] = [map |-> map, next |-> p.next]
    BY <1>1
  <2>6. LearnPeer(c, d) = [map |-> map, next |-> p.next]
    BY <2>1, <2>5
  <2>7. [map |-> map, next |-> p.next] \in PeerMap
    BY <2>2, <2>3, <2>4, InPeerMap
  <2> QED
    BY <2>6, <2>7
<1>5. CASE Real[d] # Real[c] /\ known = {}
  <2> DEFINE map == [p.map EXCEPT ![p.next] = entry]
             next == (p.next % PeerMapMax) + 1
  <2>1. LearnPeer(c, d) = [map |-> map, next |-> next]
    BY <1>5 DEF LearnPeer
  <2>2. p.next \in 1 .. PeerMapMax /\ p.map \in [1 .. PeerMapMax -> Peer]
    BY <1>1
  <2>3. next \in 1 .. PeerMapMax
    <3>1. PeerMapMax \in Nat \ {0} /\ p.next \in Nat
      BY <2>2, NetworkAssumption
    <3>2. p.next % PeerMapMax \in 0 .. PeerMapMax - 1
      BY <3>1
    <3> QED
      BY <3>1, <3>2
  <2>4. map \in [1 .. PeerMapMax -> Peer]
    BY <1>2, <2>2
  <2>5. ASSUME NEW i \in 1 .. PeerMapMax, NEW j \in 1 .. PeerMapMax, map[i].real = map[j].real
        PROVE  i = j \/ map[i] = NoPeer
    <3>1. \A l \in 1 .. PeerMapMax : p.map[l].real # Real[d]
      BY <1>5
    <3>2. \A l \in 1 .. PeerMapMax : map[l] = IF l = p.next THEN entry ELSE p.map[l]
      BY <2>2
    <3> HIDE DEF map
    <3> QED
      BY <1>1, <1>2, <2>5, <3>1, <3>2
  <2> HIDE DEF map, next
  <2> QED
    BY <2>1, <2>3, <2>4, <2>5, InPeerMap
<1> QED
  BY <1>3, <1>4, <1>5

-----------------------------------------------------------------------------
(* The steps. *)

LEMMA ArriveKeeps ==
    ASSUME Tables(clients, scopes), peers \in [Console -> PeerMap],
           NEW m \in Message, Rightful(m), NEW heard \in SUBSET Console,
           Arrive(server, m, heard)
    PROVE  Tables(clients', scopes') /\ peers' \in [Console -> PeerMap]
<1>1. PICK after \in Handle(server, m) : clients' = after.clients /\ scopes' = after.scopes
  BY DEF Arrive
<1>2. Tables(clients', scopes')
  BY <1>1, HandleKeeps
<1>3. m.from[1] \in Console
  BY DEF Message, Endpoint
<1>4. peers' \in [Console -> PeerMap]
  BY <1>3, LearnPeerKeeps DEF Arrive
<1> QED
  BY <1>2, <1>4

LEMMA SendKeeps ==
    ASSUME IInv, NEW m \in Message, Rightful(m), Send(m)
    PROVE  /\ Tables(clients', scopes') /\ peers' \in [Console -> PeerMap]
           /\ late' \subseteq Message /\ \A k \in late' : Rightful(k)
           /\ faults' \in 0 .. MaxFaults /\ faults <= faults'
<1> USE DEF IInv, Sockets
<1>1. CASE \E heard \in SUBSET Hearers(server, m) : Arrive(server, m, heard) /\ UNCHANGED <<late, faults>>
  <2>1. PICK heard \in SUBSET Hearers(server, m) : Arrive(server, m, heard) /\ UNCHANGED <<late, faults>>
    BY <1>1
  <2>2. heard \in SUBSET Console
    BY DEF Hearers
  <2> QED
    BY <2>1, <2>2, ArriveKeeps
<1>2. CASE UNCHANGED <<clients, scopes, peers, late, faults>>
  BY <1>2
<1>3. CASE Fault /\ late' = late \cup {m} /\ UNCHANGED <<clients, scopes, peers>>
  BY <1>3, NetworkAssumption DEF Fault
<1> QED
  BY <1>1, <1>2, <1>3 DEF Send

\* What a console sends is a message from a socket that it has opened.
LEMMA SendsOwn ==
    ASSUME Sockets, NEW c \in Console
    PROVE  /\ \A src \in {c, Real[c]} : Frame(c, src) \in Message /\ Rightful(Frame(c, src))
           /\ Announcement(c) \in Message /\ Rightful(Announcement(c))
           /\ \A token \in Token : /\ Declaration(c, token) \in Message
                                   /\ Rightful(Declaration(c, token))
<1>1. opened[c] \in 0 .. MaxFaults /\ opened[c] <= opened[c]
  BY NetworkAssumption DEF Sockets
<1>2. Socket(c) \in Endpoint /\ Opened(Socket(c))
  BY <1>1 DEF Socket, Endpoint, Opened
<1>3. ASSUME NEW src \in {c, Real[c]} PROVE Frame(c, src) \in Message /\ Rightful(Frame(c, src))
  <2>1. src \in Addr /\ (src \in Console => src = c)
    BY NetworkAssumption DEF Addr
  <2>2. Frame(c, src).from = Socket(c) /\ Frame(c, src).src = src /\ Frame(c, src) \in Message
    BY <1>2, <2>1 DEF Frame, Message, Addr
  <2> QED
    BY <1>2, <2>1, <2>2 DEF Rightful, Socket
<1>4. Announcement(c) \in Message /\ Rightful(Announcement(c))
  <2>1. /\ Announcement(c) \in Message
        /\ Announcement(c).from = Socket(c) /\ Announcement(c).src = c
    BY <1>2 DEF Announcement, Message
  <2> QED
    BY <1>2, <2>1 DEF Rightful, Socket
<1>5. ASSUME NEW token \in Token
      PROVE  Declaration(c, token) \in Message /\ Rightful(Declaration(c, token))
  <2>1. /\ Declaration(c, token) \in Message
        /\ Declaration(c, token).from = Socket(c) /\ Declaration(c, token).kind = "Scope"
    BY <1>2 DEF Declaration, Message
  <2> QED
    BY <1>2, <2>1 DEF Rightful
<1> QED
  BY <1>3, <1>4, <1>5

\* A step that opens no socket and sends one datagram, or none.
LEMMA SendStep ==
    ASSUME IInv, NEW m \in Message, Rightful(m), Send(m), UNCHANGED opened,
           session' \in [Console -> Token], joined' \subseteq Console,
           moves' \in 0 .. MaxMoves
    PROVE  IInv'
<1>1. /\ Tables(clients', scopes') /\ peers' \in [Console -> PeerMap]
      /\ late' \subseteq Message /\ \A k \in late' : Rightful(k)
      /\ faults' \in 0 .. MaxFaults /\ faults <= faults'
  BY SendKeeps
<1>2. Tables(clients, scopes)'
  BY <1>1 DEF Tables, Opened, InUse, Socket
<1>3. \A c \in Console : opened'[c] <= faults'
  BY <1>1, NetworkAssumption DEF IInv, Sockets
<1>4. Sockets'
  BY <1>1, <1>3 DEF IInv, Sockets, Rightful, Opened
<1> QED
  BY <1>1, <1>2, <1>4 DEF IInv

LEMMA IInvInductive == IInv /\ [Next]_vars => IInv'
<1> SUFFICES ASSUME IInv, [Next]_vars PROVE IInv'
  OBVIOUS
<1>1. Tables(clients, scopes) /\ peers \in [Console -> PeerMap] /\ Sockets
  BY DEF IInv
<1>2. MaxFaults \in Nat /\ MaxMoves \in Nat /\ Unscoped \in Token
  BY NetworkAssumption DEF Token
<1>3. session \in [Console -> Token] /\ joined \subseteq Console /\ moves \in 0 .. MaxMoves
      /\ opened \in [Console -> 0 .. MaxFaults]
  BY <1>1 DEF Sockets
<1>4. ASSUME NEW c \in Console, Leave(c) PROVE IInv'
  <2>1. session' \in [Console -> Token] /\ joined' \subseteq Console /\ moves' \in 0 .. MaxMoves
    BY <1>2, <1>3, <1>4 DEF Leave
  <2>2. UNCHANGED <<clients, scopes, opened, peers, late, faults>>
    BY <1>4 DEF Leave
  <2>3. Tables(clients, scopes)'
    BY <1>1, <2>2 DEF Tables, Opened, InUse, Socket
  <2> QED
    BY <1>1, <2>1, <2>2, <2>3 DEF IInv, Sockets, Rightful, Opened
<1>5. ASSUME NEW c \in Console, Announce(c) \/ DeclareScope(c) \/ Scan(c) PROVE IInv'
  <2>1. UNCHANGED <<session, joined, opened, moves>>
    BY <1>5 DEF Announce, DeclareScope, Scan
  <2>2. \/ Send(Announcement(c))
        \/ Send(Declaration(c, session[c]))
        \/ Send(Frame(c, c))
    BY <1>5 DEF Announce, DeclareScope, Scan
  <2>3. session[c] \in Token /\ c \in Addr
    BY <1>3 DEF Addr
  <2> QED
    BY <1>1, <1>3, <2>1, <2>2, <2>3, SendsOwn, SendStep
<1>6. ASSUME NEW c \in Console, NEW token \in Scope, Join(c, token) PROVE IInv'
  <2>1. /\ session' \in [Console -> Token] /\ joined' \subseteq Console
        /\ moves' \in 0 .. MaxMoves /\ token \in Token
    BY <1>2, <1>3, <1>6 DEF Join, Token
  <2>2. Send(Declaration(c, token)) /\ UNCHANGED opened
    BY <1>6 DEF Join
  <2> QED
    BY <1>1, <2>1, <2>2, SendsOwn, SendStep
<1>7. ASSUME NEW c \in Console, NEW d \in Console, SendGameUnicast(c, d) PROVE IInv'
  <2>1. UNCHANGED <<session, joined, opened, moves>> /\ (Send(Frame(c, c)) \/ Send(Frame(c, Real[c])))
    BY <1>7 DEF SendGameUnicast
  <2>2. c \in Addr /\ Real[c] \in Addr
    BY NetworkAssumption DEF Addr
  <2> QED
    BY <1>1, <1>3, <2>1, <2>2, SendsOwn, SendStep
<1>8. ASSUME NEW m \in late, ArriveLate(m) PROVE IInv'
  <2>1. PICK heard \in SUBSET Hearers(server, m) : Arrive(server, m, heard)
    BY <1>8 DEF ArriveLate
  <2>2. heard \in SUBSET Console /\ m \in Message /\ Rightful(m)
    BY <1>1 DEF Hearers, Sockets
  <2>3. Tables(clients', scopes') /\ peers' \in [Console -> PeerMap]
    BY <1>1, <2>1, <2>2, ArriveKeeps
  <2>4. UNCHANGED <<session, joined, opened, moves, faults>> /\ late' \subseteq late
    BY <1>8 DEF ArriveLate
  <2>5. Tables(clients, scopes)'
    BY <2>3, <2>4 DEF Tables, Opened, InUse, Socket
  <2> QED
    BY <1>1, <2>3, <2>4, <2>5 DEF IInv, Sockets, Rightful, Opened
<1>9. ASSUME NEW c \in Console, Reopen(c) PROVE IInv'
  <2>1. /\ faults < MaxFaults /\ faults' = faults + 1
        /\ opened' = [opened EXCEPT ![c] = opened[c] + 1]
        /\ UNCHANGED <<clients, scopes, session, joined, peers, late, moves>>
    BY <1>9 DEF Reopen, Fault
  <2>2. /\ faults \in Nat /\ opened[c] \in Nat /\ opened[c] <= faults
        /\ \A d \in Console : opened[d] \in Nat /\ opened[d] <= faults
    BY <1>1, <1>2 DEF Sockets
  <2>3. opened' \in [Console -> 0 .. MaxFaults] /\ \A d \in Console : opened'[d] <= faults'
    BY <1>2, <1>3, <2>1, <2>2
  <2>4. \A d \in Console : /\ opened'[d] = opened[d] \/ (d = c /\ opened'[d] = opened[d] + 1)
                           /\ opened'[d] \in Nat
    BY <1>3, <2>1, <2>2
  <2>5. ASSUME NEW e \in Endpoint, Opened(e)
        PROVE  e[2] <= opened'[e[1]] /\ (e = <<e[1], opened'[e[1]]>> => InUse(e))
    <3>1. e[1] \in Console /\ e[2] \in Nat /\ e = <<e[1], e[2]>> /\ e[2] <= opened[e[1]]
      BY <1>2, <2>5 DEF Endpoint, Opened
    <3>2. e[2] <= opened'[e[1]]
      BY <2>2, <2>4, <3>1
    <3>3. ASSUME e = <<e[1], opened'[e[1]]>> PROVE InUse(e)
      <4>1. e[2] = opened'[e[1]]
        BY <3>3, <3>1
      <4>2. opened'[e[1]] = opened[e[1]]
        BY <2>2, <2>4, <3>1, <4>1
      <4> QED
        BY <3>1, <4>1, <4>2 DEF InUse, Socket
    <3> QED
      BY <3>2, <3>3
  <2>6. Tables(clients, scopes)'
    BY <1>1, <2>1, <2>5 DEF Tables, Opened, InUse, Socket
  <2>7. faults' \in 0 .. MaxFaults
    BY <1>2, <2>1, <2>2
  <2>8. \A m \in late : m.from \in Endpoint
    BY <1>1 DEF Sockets, Message
  <2>9. Sockets'
    BY <1>1, <2>1, <2>3, <2>5, <2>7, <2>8 DEF Sockets, Rightful, Opened
  <2> QED
    BY <1>1, <2>1, <2>6, <2>9 DEF IInv
<1>10. CASE ServerRestarts
  <2>1. /\ clients' = <<>> /\ scopes' = [e \in Endpoint |-> Unscoped]
        /\ faults < MaxFaults /\ faults' = faults + 1
        /\ UNCHANGED <<session, joined, opened, peers, late, moves>>
    BY <1>10 DEF ServerRestarts, Fault
  <2>2. Tables(clients, scopes)'
    BY <1>2, <2>1 DEF Tables
  <2>3. faults' \in 0 .. MaxFaults /\ \A d \in Console : opened'[d] <= faults'
    BY <1>1, <1>2, <1>3, <2>1 DEF Sockets
  <2>4. Sockets'
    BY <1>1, <2>1, <2>3 DEF Sockets, Rightful, Opened
  <2> QED
    BY <1>1, <2>1, <2>2, <2>4 DEF IInv
<1>11. ASSUME NEW e \in Endpoint, ForgetScope(e) PROVE IInv'
  <2>1. /\ ~InUse(e) /\ scopes' = [scopes EXCEPT ![e] = Unscoped]
        /\ UNCHANGED <<clients, session, joined, opened, peers, late, moves, faults>>
    BY <1>11 DEF ForgetScope, InUse
  <2>2. scopes' \in [Endpoint -> Token] /\ \A f \in Endpoint : f # e => scopes'[f] = scopes[f]
    BY <1>1, <1>2, <2>1 DEF Tables
  <2>3. ASSUME NEW k \in DOMAIN clients
        PROVE  InUse(clients[k]) => k[1] = scopes'[clients[k]]
    BY <1>1, <2>1, <2>2 DEF Tables
  <2>4. Tables(clients, scopes)'
    BY <1>1, <2>1, <2>2, <2>3 DEF Tables, Opened, InUse, Socket
  <2> QED
    BY <1>1, <2>1, <2>4 DEF IInv, Sockets, Rightful, Opened
<1>12. CASE UNCHANGED vars
  <2>1. UNCHANGED <<clients, scopes, session, joined, opened, peers, late, moves, faults>>
    BY <1>12 DEF vars
  <2>2. Tables(clients, scopes)'
    BY <1>1, <2>1 DEF Tables, Opened, InUse, Socket
  <2> QED
    BY <1>1, <2>1, <2>2 DEF IInv, Sockets, Rightful, Opened
<1> QED
  BY <1>4, <1>5, <1>6, <1>7, <1>8, <1>9, <1>10, <1>11, <1>12 DEF Next

LEMMA IInvInit == Init => IInv
<1> SUFFICES ASSUME Init PROVE IInv
  OBVIOUS
<1>1. MaxFaults \in Nat /\ MaxMoves \in Nat /\ Unscoped \in Token
  BY NetworkAssumption DEF Token
<1>2. Tables(clients, scopes)
  BY <1>1 DEF Init, Tables
<1>3. [map |-> [i \in 1 .. PeerMapMax |-> NoPeer], next |-> 1] \in PeerMap
  <2>1. [i \in 1 .. PeerMapMax |-> NoPeer] \in [1 .. PeerMapMax -> Peer]
    BY DEF Peer
  <2>2. 1 \in 1 .. PeerMapMax
    BY NetworkAssumption
  <2> QED
    BY <2>1, <2>2, InPeerMap
<1>4. peers \in [Console -> PeerMap]
  BY <1>3 DEF Init
<1>5. Sockets
  BY <1>1, NetworkAssumption DEF Init, Sockets, Token
<1> QED
  BY <1>2, <1>4, <1>5 DEF IInv

-----------------------------------------------------------------------------
(* What a beacon mends. *)

\* The tables s find c's virtual address, on the socket in use, in the session that c is in.
Filed(s, c) == /\ <<session[c], c>> \in DOMAIN s.clients
               /\ s.clients[<<session[c], c>>] = Socket(c)
               /\ s.scopes[Socket(c)] = session[c]

\* A beacon files its console's virtual address under the session that it is in, and takes
\* nothing from a console that has a beacon of its own through.
LEMMA BeaconFiles ==
    ASSUME Sockets, NEW owner, NEW declared, Tables(owner, declared), NEW c \in Console
    PROVE  LET after == AfterBeacon([clients |-> owner, scopes |-> declared], c)
           IN /\ after = [clients |-> after.clients, scopes |-> after.scopes]
              /\ Tables(after.clients, after.scopes)
              /\ Filed(after, c)
              /\ \A d \in Console \ {c} :
                    Filed([clients |-> owner, scopes |-> declared], d) => Filed(after, d)
<1> DEFINE e     == Socket(c)
           token == session[c]
           known == Learn([clients |-> owner, scopes |-> declared], e, c)
           mine  == {k \in DOMAIN known.clients : known.clients[k] = e /\ k[1] = declared[e]}
           moved == {<<token, k[2]>> : k \in mine}
           new   == [k \in moved \cup (DOMAIN known.clients \ mine) |->
                        IF k \in moved THEN e ELSE known.clients[k]]
           scope == [declared EXCEPT ![e] = token]
           key   == <<declared[e], c>>
<1>1. e \in Endpoint /\ Opened(e) /\ e[1] = c /\ c \in Addr /\ token \in Token
  BY NetworkAssumption DEF Sockets, Socket, Endpoint, Opened, Addr
<1>2. known = [clients |-> known.clients, scopes |-> declared] /\ Tables(known.clients, declared)
  BY <1>1, LearnKeeps
<1>3. known.clients = [k \in {key} \cup DOMAIN owner |-> IF k = key THEN e ELSE owner[k]]
  BY DEF Learn
<1>4. /\ key \in DOMAIN known.clients /\ known.clients[key] = e
      /\ \A k \in DOMAIN owner : k # key =>
            k \in DOMAIN known.clients /\ known.clients[k] = owner[k]
  BY <1>3
<1> HIDE DEF known
<1>5. Declare([clients |-> known.clients, scopes |-> declared], e, token)
         = [clients |-> new, scopes |-> scope]
  BY DEF Declare
<1>6. AfterBeacon([clients |-> owner, scopes |-> declared], c) = [clients |-> new, scopes |-> scope]
  BY <1>2, <1>5 DEF AfterBeacon, known
<1>7. Tables(new, scope)
  <2>1. LET after == Declare([clients |-> known.clients, scopes |-> declared], e, token)
        IN Tables(after.clients, after.scopes)
    BY <1>1, <1>2, DeclareKeeps
  <2> HIDE DEF new, scope
  <2> QED
    BY <1>5, <2>1
<1>8. key \in mine /\ <<token, c>> \in moved
  BY <1>4
<1>9. \A k \in moved : k[2] \in Console => k[2] = c
  BY <1>1, <1>2 DEF Tables
<1>10. scope[e] = token /\ \A f \in Endpoint \ {e} : scope[f] = declared[f]
  BY <1>1 DEF Tables
<1>11. new[<<token, c>>] = e /\ <<token, c>> \in DOMAIN new
  BY <1>8
<1>12. ASSUME NEW d \in Console \ {c}, Filed([clients |-> owner, scopes |-> declared], d)
       PROVE  /\ <<session[d], d>> \in DOMAIN new /\ new[<<session[d], d>>] = Socket(d)
              /\ scope[Socket(d)] = session[d]
  <2> DEFINE own == <<session[d], d>>
  <2>1. /\ own \in DOMAIN owner /\ owner[own] = Socket(d) /\ declared[Socket(d)] = session[d]
    BY <1>12 DEF Filed
  <2>2. own[2] = d /\ own # key /\ Socket(d) # e /\ Socket(d) \in Endpoint
    BY DEF Socket, Endpoint, Sockets
  <2>3. own \in DOMAIN known.clients /\ known.clients[own] = Socket(d)
    BY <1>4, <2>1, <2>2
  <2>4. own \notin moved /\ own \notin mine
    BY <1>9, <2>2, <2>3
  <2> HIDE DEF own, moved, mine
  <2>5. own \in DOMAIN new /\ new[own] = Socket(d)
    BY <2>3, <2>4
  <2> QED
    BY <1>10, <2>1, <2>2, <2>5 DEF own
<1> HIDE DEF new, scope
<1> QED
  BY <1>6, <1>7, <1>10, <1>11, <1>12 DEF Filed

\* Whoever is told a real address that is not its own has an entry for it then.
LEMMA TellingIsKept ==
    ASSUME peers \in [Console -> PeerMap], NEW c \in Console, NEW d \in Console, Real[c] # Real[d]
    PROVE  \E i \in 1 .. PeerMapMax : LearnPeer(c, d).map[i] = [real |-> Real[d], vsrc |-> d]
<1> DEFINE p     == peers[c]
           known == {i \in 1 .. PeerMapMax : p.map[i].real = Real[d]}
           entry == [real |-> Real[d], vsrc |-> d]
<1>1. p \in [map: [1 .. PeerMapMax -> Peer], next: 1 .. PeerMapMax]
  BY DEF PeerMap
<1>2. CASE known # {}
  <2> DEFINE map == [i \in 1 .. PeerMapMax |-> IF i \in known THEN entry ELSE p.map[i]]
  <2>1. LearnPeer(c, d) = [p EXCEPT !.map = map]
    BY <1>2 DEF LearnPeer
  <2>2. PICK i \in known : TRUE
    BY <1>2
  <2>3. map[i] = entry /\ i \in 1 .. PeerMapMax
    BY <2>2
  <2> HIDE DEF map
  <2>4. LearnPeer(c, d).map = map
    BY <1>1, <2>1
  <2> QED
    BY <2>3, <2>4
<1>3. CASE known = {}
  <2> DEFINE map == [p.map EXCEPT ![p.next] = entry]
  <2>1. LearnPeer(c, d).map = map
    BY <1>3 DEF LearnPeer
  <2>2. p.next \in 1 .. PeerMapMax /\ map[p.next] = entry
    BY <1>1
  <2> QED
    BY <2>1, <2>2
<1> QED
  BY <1>2, <1>3

\* Each of two whose address is filed under the one session reaches the other.
LEMMA FiledReach ==
    ASSUME NEW s, NEW c \in Console, NEW d \in Console, Mates(c, d), Filed(s, c), Filed(s, d)
    PROVE  Socket(d) \in Broadcast(s, Socket(c), FALSE) /\ Owner(s, Socket(c), d) = {Socket(d)}
<1>1. Socket(c) # Socket(d) /\ session[c] = session[d]
  BY DEF Mates, Socket
<1>2. Socket(d) \in Range(s.clients)
  BY DEF Filed, Range
<1>3. Socket(d) \in Broadcast(s, Socket(c), FALSE)
  BY <1>1, <1>2 DEF Broadcast, Filed
<1>4. /\ <<s.scopes[Socket(c)], d>> \in DOMAIN s.clients
      /\ s.clients[<<s.scopes[Socket(c)], d>>] = Socket(d)
  BY <1>1 DEF Filed
<1>5. Owner(s, Socket(c), d) = {Socket(d)} \ {Socket(c)}
  BY <1>4 DEF Owner
<1> QED
  BY <1>1, <1>3, <1>5

-----------------------------------------------------------------------------
(* The theorems. *)

\* TypeOK: the server's tables and the consoles' peer maps stay well-formed, each real
\* address with one entry, for every number of consoles, sessions, entries and faults.
THEOREM TypeCorrect == Spec => []TypeOK
<1>1. IInv => TypeOK
  <2> SUFFICES ASSUME IInv PROVE TypeOK
    OBVIOUS
  <2>1. /\ DOMAIN clients \subseteq Token \X (Console \cup Address)
        /\ \A k \in DOMAIN clients : clients[k] \in Endpoint
        /\ scopes \in [Endpoint -> Token]
    BY DEF IInv, Tables, Addr
  <2>2. \A c \in Console : /\ peers[c].map \in [1 .. PeerMapMax -> Peer]
                           /\ peers[c].next \in 1 .. PeerMapMax
                           /\ \A i, j \in 1 .. PeerMapMax :
                                 peers[c].map[i].real = peers[c].map[j].real
                                 => i = j \/ peers[c].map[i] = NoPeer
    BY DEF IInv, PeerMap
  <2> QED
    BY <2>1, <2>2 DEF IInv, Sockets, TypeOK
<1> QED
  BY <1>1, IInvInit, IInvInductive, PTL DEF Spec

\* FiledUnderScope: whatever order declarations, frames, announcements, expiries, restarts
\* and new sockets come in, an address of a socket in use is found in its session.
THEOREM ScopeIsTrue == Spec => []FiledUnderScope
<1>1. IInv => FiledUnderScope
  BY DEF IInv, Tables, FiledUnderScope, InUse
<1> QED
  BY <1>1, IInvInit, IInvInductive, PTL DEF Spec

\* OneBeaconMends: whatever moves, new sockets, overtaken datagrams and restarts have done
\* to the tables and the peer map, one beacon of each of two consoles in a session, hosts or
\* relayJoined, makes each reach the other, for every number of consoles and of entries in the map.
THEOREM BeaconsMend == Spec => []OneBeaconMends
<1>1. IInv => OneBeaconMends
  <2> SUFFICES ASSUME IInv, NEW c \in joined, NEW d \in joined, Mates(c, d)
               PROVE  LET after == AfterBeacon(AfterBeacon(server, c), d)
                          told == {i \in 1 .. PeerMapMax :
                                     LearnPeer(c, d).map[i] = [real |-> Real[d], vsrc |-> d]}
                      IN /\ Socket(c) \in Broadcast(after, Socket(d), FALSE)
                         /\ Socket(d) \in Broadcast(after, Socket(c), FALSE)
                         /\ Real[c] # Real[d] => told # {}
                         /\ Owner(after, Socket(c), d) = {Socket(d)}
                         /\ Owner(after, Socket(d), c) = {Socket(c)}
    BY DEF OneBeaconMends
  <2> DEFINE first == AfterBeacon(server, c)
             after == AfterBeacon(first, d)
  <2>1. /\ Tables(clients, scopes) /\ Sockets /\ peers \in [Console -> PeerMap]
        /\ c \in Console /\ d \in Console
    BY DEF IInv, Sockets
  <2>2. /\ first = [clients |-> first.clients, scopes |-> first.scopes]
        /\ Tables(first.clients, first.scopes) /\ Filed(first, c)
    BY <2>1, BeaconFiles DEF server
  <2> HIDE DEF first
  <2>3. c \in Console \ {d}
    BY <2>1 DEF Mates
  <2>4. Filed(after, d) /\ Filed(after, c)
    <3>1. PICK owner, declared : /\ first = [clients |-> owner, scopes |-> declared]
                                 /\ Tables(owner, declared)
      BY <2>2
    <3>2. Filed([clients |-> owner, scopes |-> declared], c)
      BY <2>2, <3>1
    <3>3. LET then == AfterBeacon([clients |-> owner, scopes |-> declared], d)
          IN Filed(then, d) /\ Filed(then, c)
      BY <2>1, <2>3, <3>1, <3>2, BeaconFiles
    <3> QED
      BY <3>1, <3>3
  <2> HIDE DEF after
  <2>5. Mates(d, c)
    BY DEF Mates
  <2>6. /\ Socket(d) \in Broadcast(after, Socket(c), FALSE)
        /\ Owner(after, Socket(c), d) = {Socket(d)}
    BY <2>1, <2>4, FiledReach
  <2>7. /\ Socket(c) \in Broadcast(after, Socket(d), FALSE)
        /\ Owner(after, Socket(d), c) = {Socket(c)}
    BY <2>1, <2>4, <2>5, FiledReach
  <2>8. Real[c] # Real[d] =>
           \E i \in 1 .. PeerMapMax : LearnPeer(c, d).map[i] = [real |-> Real[d], vsrc |-> d]
    BY <2>1, TellingIsKept
  <2> QED
    BY <2>6, <2>7, <2>8 DEF after, first
<1> QED
  BY <1>1, IInvInit, IInvInductive, PTL DEF Spec
=============================================================================
