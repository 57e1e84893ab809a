--------------------------- MODULE TcpTunnelProofs ---------------------------
(***************************************************************************)
(* Proofs about TcpTunnel, for any number of consoles, streams, ids and    *)
(* connections.                                                            *)
(***************************************************************************)
EXTENDS TcpTunnel, SequenceTheorems, FiniteSetTheorems, WellFoundedInduction, TLAPS

-----------------------------------------------------------------------------
(* The inductive invariant, in named parts. *)

Ids == 1 .. MaxIds

Stream == [used: BOOLEAN, originator: BOOLEAN, id: 0 .. MaxIds,
           peer: Consoles \cup {NoPeer}, game_fd: GameFds \cup {NoFd},
           listener: Fds \cup {NoFd}, sock: Fds \cup {NoFd}, pending: Seq(Chunk)]

End == [conn: 0 .. MaxConnects, game: {"none", "open", "closed", "reset", "absent"},
        in: Seq(Chunk)]

FrameSet == [type: {"open", "data", "close"}, from: Consoles, to: Consoles, id: Ids,
             conn: 0 .. MaxConnects, data: Seq(Chunk), owner: {"sender", "receiver"}]

\* The console that chose the id of a stream or a frame, and the id.
Key(c, s)   == <<IF s.originator THEN c ELSE s.peer, s.id>>
FrameKey(f) == <<IF f.owner = "sender" THEN f.from ELSE f.to, f.id>>

\* The connection that each id was chosen for (0: for none yet, or for one not made).
Naming == [Consoles \X Ids -> 0 .. MaxConnects]

Issued(key, next) == key \in Consoles \X Ids /\ key[2] < next[key[1]]

Of(chunks, n, from) ==
    \A j \in DOMAIN chunks : chunks[j].conn = n /\ chunks[j].from = from

\* What a stream of console c holds back is of its connection and of its peer, ...
StreamIs(F, next, c, s) ==
    /\ Len(s.pending) <= PendingMax
    /\ s.used => /\ s.peer \in Consoles \ {c}
                 /\ Issued(Key(c, s), next)
                 /\ Of(s.pending, F[Key(c, s)], s.peer)
    /\ ~s.used => s = Free

\* ... a descriptor of it is its end of that connection, ...
FdIs(F, c, s, kern, fd) ==
    fd # NoFd => kern[fd].conn # 0 /\ kern[fd].conn = F[Key(c, s)]

\* ... and of no other stream.
Apart(s, t) ==
    \A fd \in {s.listener, s.sock} : fd \in {t.listener, t.sock} => fd = NoFd

EndIs(c, e) == Of(e.in, e.conn, c) /\ (e.conn = 0 => e = Shut)

ConsoleIs(F, next, c, tab, kern) ==
    /\ tab \in [Slots -> Stream] /\ kern \in [Fds -> End]
    /\ \A k \in Slots : /\ StreamIs(F, next, c, tab[k])
                        /\ FdIs(F, c, tab[k], kern, tab[k].listener)
                        /\ FdIs(F, c, tab[k], kern, tab[k].sock)
                        /\ tab[k].listener = NoFd \/ tab[k].sock = NoFd
    /\ \A k, l \in Slots : k # l => Apart(tab[k], tab[l])
    /\ \A d \in Fds : EndIs(c, kern[d])

\* A frame to console c opens the connection its id was chosen for, or carries of it
\* what the sender's game has written.
FrameIs(F, next, c, f) ==
    /\ f \in FrameSet /\ f.to = c /\ f.from # c
    /\ Issued(FrameKey(f), next)
    /\ f.type = "open" => /\ f.owner = "sender"
                          /\ f.conn # 0 /\ f.conn = F[FrameKey(f)]
    /\ f.type = "data" => Len(f.data) = 1 /\ Of(f.data, F[FrameKey(f)], f.from)

WireType(w) == w \in [Consoles -> SUBSET FrameSet]

Consistent(F) ==
    \A c \in Consoles :
        /\ ConsoleIs(F, nextId, c, streams[c], kernel[c])
        /\ \A f \in wire[c] : FrameIs(F, nextId, c, f)

Polls == [Consoles -> [pc: {"collect", "poll", "serve"},
    of: SUBSET [slot: Slots, listens: BOOLEAN, fd: Fds, event: {"none", "in", "hup"}]]]

Types ==
    /\ streams \in [Consoles -> [Slots -> Stream]]
    /\ kernel \in [Consoles -> [Fds -> End]]
    /\ nextId \in [Consoles -> 1 .. MaxIds + 1]
    /\ running \in [Consoles -> {"on", "stopping", "off"}]
    /\ polled \in Polls
    /\ dialled \in [Consoles -> [GameFds -> 0 .. MaxConnects]]
    /\ opened \in 0 .. MaxConnects
    /\ wrote \in [Conns -> [Consoles -> 0 .. MaxChunks]]
    /\ got \in [Conns -> [Consoles -> Seq(Chunk)]]
    /\ WireType(wire)

Good(F) == Types /\ NoCrossTalk /\ Consistent(F)

-----------------------------------------------------------------------------
(* Least members. *)

\* The loops over the table and the kernel find what they look for.
LEMMA FirstIsMember ==
    ASSUME NEW S, S \subseteq Nat, S # {}
    PROVE  First(S) \in S /\ \A j \in S : First(S) <= j
<1>1. PICK k \in S : \A j \in S : <<j, k>> \notin OpToRel(<, Nat)
  BY WFMin, NatLessThanWellFounded
<1>2. \A j \in S : ~(j < k)
  BY <1>1 DEF OpToRel
<1>3. \A j \in S : k <= j
  BY <1>2
<1> QED
  BY <1>3 DEF First

-----------------------------------------------------------------------------
(* The relay and the table. *)

\* What has been sent after a sending was so before or is one of the frames sent.
LEMMA CarriedAdds ==
    ASSUME WireType(wire), NEW frames, \A i \in DOMAIN frames : frames[i] \in FrameSet
    PROVE  /\ WireType(Carried(frames))
           /\ \A c \in Consoles : \A f \in Carried(frames)[c] :
                 f \in wire[c] \/ \E i \in DOMAIN frames : f = frames[i] /\ f.to = c
<1> DEFINE Mine(c) == {i \in DOMAIN frames : frames[i].to = c /\ running[frames[i].from] # "off"}
           Sent(c) == {frames[i] : i \in Mine(c)}
<1>1. Carried(frames) = [c \in Consoles |-> wire[c] \cup Sent(c)]
  BY DEF Carried
<1>2. \A c \in Consoles : Sent(c) \in SUBSET FrameSet
  OBVIOUS
<1>3. wire \in [Consoles -> SUBSET FrameSet]
  BY DEF WireType
<1>4. \A c \in Consoles : \A f \in Sent(c) : \E i \in DOMAIN frames : f = frames[i] /\ f.to = c
  OBVIOUS
<1> HIDE DEF Sent
<1>5. WireType(Carried(frames))
  BY <1>1, <1>2, <1>3 DEF WireType
<1>6. \A c \in Consoles : Carried(frames)[c] = wire[c] \cup Sent(c)
  BY <1>1
<1> QED
  BY <1>4, <1>5, <1>6

\* Chunks held back may become others of the same connection.
LEMMA HoldBackKeeps ==
    ASSUME NEW F, NEW next, NEW c \in Consoles, NEW tab, NEW kern,
           ConsoleIs(F, next, c, tab, kern),
           NEW p \in [Slots -> Seq(Chunk)],
           \A k \in Slots : /\ Len(p[k]) <= PendingMax
                            /\ ~tab[k].used => p[k] = tab[k].pending
                            /\ tab[k].used => Of(p[k], F[Key(c, tab[k])], tab[k].peer)
    PROVE  ConsoleIs(F, next, c, [k \in Slots |-> [tab[k] EXCEPT !.pending = p[k]]], kern)
<1> DEFINE new == [k \in Slots |-> [tab[k] EXCEPT !.pending = p[k]]]
<1>1. tab \in [Slots -> Stream]
  BY DEF ConsoleIs
<1>2. ASSUME NEW k \in Slots
      PROVE  /\ new[k] \in Stream
             /\ new[k].used = tab[k].used /\ new[k].peer = tab[k].peer
             /\ new[k].listener = tab[k].listener /\ new[k].sock = tab[k].sock
             /\ new[k].pending = p[k] /\ Key(c, new[k]) = Key(c, tab[k])
             /\ ~tab[k].used => new[k] = Free
  <2>1. tab[k] \in Stream /\ p[k] \in Seq(Chunk) /\ new[k] = [tab[k] EXCEPT !.pending = p[k]]
    BY <1>1
  <2>2. /\ new[k] \in Stream /\ new[k].pending = p[k]
        /\ new[k].used = tab[k].used /\ new[k].peer = tab[k].peer
        /\ new[k].listener = tab[k].listener /\ new[k].sock = tab[k].sock
        /\ new[k].originator = tab[k].originator /\ new[k].id = tab[k].id
    BY <2>1 DEF Stream
  <2>3. ~tab[k].used => new[k] = Free
    <3> SUFFICES ASSUME ~tab[k].used PROVE new[k] = Free
      OBVIOUS
    <3>1. p[k] = tab[k].pending /\ tab[k] = Free
      BY DEF ConsoleIs, StreamIs
    <3> QED
      BY <2>1, <3>1 DEF Free
  <2> QED
    BY <2>2, <2>3 DEF Key
<1> HIDE DEF new
<1>3. ASSUME NEW k \in Slots
      PROVE  /\ StreamIs(F, next, c, new[k])
             /\ FdIs(F, c, new[k], kern, new[k].listener)
             /\ FdIs(F, c, new[k], kern, new[k].sock)
             /\ new[k].listener = NoFd \/ new[k].sock = NoFd
  BY <1>2 DEF ConsoleIs, StreamIs, FdIs
<1>4. \A k, l \in Slots : k # l => Apart(new[k], new[l])
  BY <1>2 DEF ConsoleIs, Apart
<1>5. new \in [Slots -> Stream]
  BY <1>2 DEF new
<1> QED
  BY <1>3, <1>4, <1>5 DEF ConsoleIs, new

Closed(kern, fds) == [d \in Fds |-> IF d \in fds THEN Shut ELSE kern[d]]
Emptied(tab, gone) == [k \in Slots |-> IF k \in gone THEN Free ELSE tab[k]]

\* Streams end, and their descriptors are closed.
LEMMA CloseKeeps ==
    ASSUME NEW F, NEW next, NEW c \in Consoles, NEW tab, NEW kern,
           ConsoleIs(F, next, c, tab, kern), NEW gone, NEW fds,
           \A k \in Slots \ gone : \A d \in Fds \cap fds : d # tab[k].listener /\ d # tab[k].sock
    PROVE  ConsoleIs(F, next, c, Emptied(tab, gone), Closed(kern, fds))
<1>1. tab \in [Slots -> Stream] /\ kern \in [Fds -> End]
  BY DEF ConsoleIs
<1>2. Free \in Stream /\ Shut \in End
  BY TunnelAssumption, EmptySeq DEF Free, Stream, NoFd, Shut, End
<1>3. Emptied(tab, gone) \in [Slots -> Stream] /\ Closed(kern, fds) \in [Fds -> End]
  BY <1>1, <1>2 DEF Emptied, Closed
<1>4. \A d \in Fds : EndIs(c, Closed(kern, fds)[d])
  BY DEF ConsoleIs, Closed, EndIs, Shut, Of
<1>5. /\ Free.used = FALSE /\ Free.listener = NoFd /\ Free.sock = NoFd
      /\ Free.pending = <<>> /\ Len(<<>>) = 0
  BY DEF Free
<1>6. ASSUME NEW k \in Slots
      PROVE  LET s == Emptied(tab, gone)[k]
             IN /\ StreamIs(F, next, c, s)
                /\ FdIs(F, c, s, Closed(kern, fds), s.listener)
                /\ FdIs(F, c, s, Closed(kern, fds), s.sock)
                /\ s.listener = NoFd \/ s.sock = NoFd
  <2>1. CASE k \in gone
    <3>1. Emptied(tab, gone)[k] = Free
      BY <2>1 DEF Emptied
    <3> QED
      BY <1>5, <3>1, TunnelAssumption DEF StreamIs, FdIs
  <2>2. CASE k \notin gone
    <3>1. Emptied(tab, gone)[k] = tab[k]
      BY <2>2 DEF Emptied
    <3>2. \A d \in {tab[k].listener, tab[k].sock} : d # NoFd => Closed(kern, fds)[d] = kern[d]
      BY <1>1, <2>2 DEF Closed, Stream
    <3> QED
      BY <3>1, <3>2 DEF ConsoleIs, FdIs
  <2> QED
    BY <2>1, <2>2
<1>7. \A k, l \in Slots : k # l => Apart(Emptied(tab, gone)[k], Emptied(tab, gone)[l])
  BY <1>5 DEF ConsoleIs, Apart, Emptied
<1> QED
  BY <1>3, <1>4, <1>6, <1>7 DEF ConsoleIs

\* What a console sends of a stream of its own is as it should be.
LEMMA FrameOfStream ==
    ASSUME NEW F, NEW next, NEW c \in Consoles, NEW s \in Stream, StreamIs(F, next, c, s), s.used,
           NEW type \in {"data", "close"}, NEW data \in Seq(Chunk),
           type = "data" => Len(data) = 1 /\ Of(data, F[Key(c, s)], c)
    PROVE  /\ Frame(c, s, type, 0, data) \in FrameSet
           /\ FrameIs(F, next, s.peer, Frame(c, s, type, 0, data))
<1> DEFINE f == Frame(c, s, type, 0, data)
<1>1. /\ f.type = type /\ f.from = c /\ f.to = s.peer /\ f.id = s.id /\ f.data = data
      /\ f.owner = IF s.originator THEN "sender" ELSE "receiver"
  BY DEF Frame
<1>2. s.peer \in Consoles \ {c} /\ Issued(Key(c, s), next)
  BY DEF StreamIs
<1>3. s.id \in Ids
  BY <1>2 DEF Issued, Key
<1>4. f \in FrameSet
  BY <1>2, <1>3, TunnelAssumption DEF Frame, FrameSet
<1>5. FrameKey(f) = Key(c, s)
  BY <1>1 DEF FrameKey, Key, Stream
<1> HIDE DEF f
<1>6. FrameIs(F, next, s.peer, f)
  BY <1>1, <1>2, <1>4, <1>5 DEF FrameIs
<1> QED
  BY <1>4, <1>6 DEF f

\* What remains of a stream's chunks is of its connection, and so is what was taken.
LEMMA PartsAreOf ==
    ASSUME NEW chunks \in Seq(Chunk), NEW t \in Nat, t <= Len(chunks)
    PROVE  /\ SubSeq(chunks, t + 1, Len(chunks)) \in Seq(Chunk)
           /\ SubSeq(chunks, 1, t) \in Seq(Chunk)
           /\ Len(SubSeq(chunks, t + 1, Len(chunks))) = Len(chunks) - t
           /\ Len(SubSeq(chunks, 1, t)) = t
           /\ \A j \in 1 .. Len(chunks) - t :
                 /\ j + t \in DOMAIN chunks
                 /\ SubSeq(chunks, t + 1, Len(chunks))[j] = chunks[j + t]
           /\ \A j \in 1 .. t : j \in DOMAIN chunks /\ SubSeq(chunks, 1, t)[j] = chunks[j]
<1>1. Len(chunks) \in Nat /\ DOMAIN chunks = 1 .. Len(chunks)
  OBVIOUS
<1>2. \A i \in 1 .. Len(chunks) : chunks[i] \in Chunk
  BY ElementOfSeq
<1>3. /\ SubSeq(chunks, t + 1, Len(chunks)) \in Seq(Chunk)
      /\ Len(SubSeq(chunks, t + 1, Len(chunks))) =
            IF t + 1 <= Len(chunks) THEN Len(chunks) - (t + 1) + 1 ELSE 0
      /\ \A i \in 1 .. Len(chunks) - (t + 1) + 1 :
            SubSeq(chunks, t + 1, Len(chunks))[i] = chunks[(t + 1) + i - 1]
  BY <1>1, <1>2, SubSeqProperties
<1>4. /\ SubSeq(chunks, 1, t) \in Seq(Chunk)
      /\ Len(SubSeq(chunks, 1, t)) = IF 1 <= t THEN t - 1 + 1 ELSE 0
      /\ \A i \in 1 .. t - 1 + 1 : SubSeq(chunks, 1, t)[i] = chunks[1 + i - 1]
  BY <1>1, <1>2, SubSeqProperties
<1>5. Len(SubSeq(chunks, t + 1, Len(chunks))) = Len(chunks) - t /\ Len(SubSeq(chunks, 1, t)) = t
  <2> DEFINE n == Len(chunks)
             a == Len(SubSeq(chunks, t + 1, n))
             b == Len(SubSeq(chunks, 1, t))
  <2>1. n \in Nat /\ t <= n
    BY <1>1
  <2>2. a = IF t + 1 <= n THEN n - (t + 1) + 1 ELSE 0
    BY <1>3
  <2>3. b = IF 1 <= t THEN t - 1 + 1 ELSE 0
    BY <1>4
  <2> HIDE DEF n, a, b
  <2>4. a = n - t /\ b = t
    BY <2>1, <2>2, <2>3
  <2> QED
    BY <2>4 DEF n, a, b
<1>6. ASSUME NEW j \in 1 .. Len(chunks) - t
      PROVE  /\ j + t \in DOMAIN chunks
             /\ SubSeq(chunks, t + 1, Len(chunks))[j] = chunks[j + t]
  <2>1. j \in 1 .. Len(chunks) - (t + 1) + 1 /\ (t + 1) + j - 1 = j + t
    BY <1>1
  <2> QED
    BY <1>1, <1>3, <2>1
<1>7. ASSUME NEW j \in 1 .. t
      PROVE  j \in DOMAIN chunks /\ SubSeq(chunks, 1, t)[j] = chunks[j]
  <2>1. j \in 1 .. t - 1 + 1 /\ 1 + j - 1 = j
    OBVIOUS
  <2> QED
    BY <1>1, <1>4, <2>1
<1> QED
  BY <1>3, <1>4, <1>5, <1>6, <1>7

\* A flush moves chunks from streams to the games at their ends, or ends streams.
LEMMA FlushKeeps ==
    ASSUME Types, NoCrossTalk, NEW F, NEW c \in Consoles, NEW K \in SUBSET Slots,
           NEW tab, NEW kern, ConsoleIs(F, nextId, c, tab, kern), FlushPending(c, K, tab, kern)
    PROVE  /\ \E t, k : /\ streams' = [streams EXCEPT ![c] = t]
                        /\ kernel' = [kernel EXCEPT ![c] = k]
                        /\ ConsoleIs(F, nextId, c, t, k)
           /\ got' \in [Conns -> [Consoles -> Seq(Chunk)]]
           /\ NoCrossTalk'
           /\ WireType(wire')
           /\ \A d \in Consoles : \A f \in wire'[d] :
                 f \in wire[d] \/ FrameIs(F, nextId, d, f)
<1> DEFINE up    == {k \in K : tab[k].sock # NoFd /\ tab[k].pending # <<>>}
           ended == {k \in up : kern[tab[k].sock].game # "open"}
           end(n) == {k \in up : kern[tab[k].sock].conn = n}
<1>1. PICK m \in [up -> 0 .. PendingMax] :
        LET taken(k) == IF k \in up \ ended THEN m[k] ELSE 0
        IN /\ \A k \in up : taken(k) <= Len(tab[k].pending)
           /\ streams' = [streams EXCEPT ![c] = [k \in Slots |->
                 IF k \in ended THEN Free
                 ELSE [tab[k] EXCEPT !.pending = SubSeq(tab[k].pending, taken(k) + 1, Len(tab[k].pending))]]]
           /\ kernel' = Shutting(c, kern, {tab[k].sock : k \in ended})
           /\ got' = [n \in Conns |-> IF end(n) = {} THEN got[n] ELSE
                 [got[n] EXCEPT ![c] = got[n][c] \o SubSeq(tab[First(end(n))].pending, 1, taken(First(end(n))))]]
           /\ wire' = Carried([k \in ended |-> Frame(c, tab[k], "close", 0, <<>>)])
  BY DEF FlushPending
<1> DEFINE taken(k) == IF k \in up \ ended THEN m[k] ELSE 0
           p == [k \in Slots |-> SubSeq(tab[k].pending, taken(k) + 1, Len(tab[k].pending))]
           cut == [k \in Slots |-> [tab[k] EXCEPT !.pending = p[k]]]
           fds == {tab[k].sock : k \in ended}
<1>2. tab \in [Slots -> Stream] /\ kern \in [Fds -> End]
  BY DEF ConsoleIs
<1>3. /\ up \subseteq Slots /\ ended \subseteq up
      /\ \A k \in up : tab[k].sock # NoFd /\ tab[k].pending # <<>>
  OBVIOUS
<1>4. \A k \in Slots : tab[k].pending \in Seq(Chunk) /\ Len(tab[k].pending) \in Nat
  BY <1>2 DEF Stream
<1>5. \A k \in Slots : taken(k) \in Nat /\ taken(k) <= Len(tab[k].pending)
  <2> SUFFICES ASSUME NEW k \in Slots PROVE taken(k) \in Nat /\ taken(k) <= Len(tab[k].pending)
    OBVIOUS
  <2>1. CASE k \in up
    <3>1. taken(k) <= Len(tab[k].pending)
      BY <1>1, <2>1
    <3>2. k \in up \ ended => m[k] \in Nat
      <4> HIDE DEF up, ended
      <4>1. m[k] \in 0 .. PendingMax
        BY <2>1
      <4> QED
        BY <4>1
    <3>3. taken(k) \in Nat
      BY <3>2
    <3> QED
      BY <3>1, <3>3
  <2>2. CASE k \notin up
    BY <1>4, <2>2
  <2> QED
    BY <2>1, <2>2
<1> HIDE DEF taken
<1>6. \A k \in Slots :
        /\ p[k] \in Seq(Chunk) /\ Len(p[k]) = Len(tab[k].pending) - taken(k)
        /\ \A j \in DOMAIN p[k] : j + taken(k) \in DOMAIN tab[k].pending
                                  /\ p[k][j] = tab[k].pending[j + taken(k)]
  <2> SUFFICES ASSUME NEW k \in Slots
               PROVE  /\ p[k] \in Seq(Chunk) /\ Len(p[k]) = Len(tab[k].pending) - taken(k)
                      /\ \A j \in DOMAIN p[k] : j + taken(k) \in DOMAIN tab[k].pending
                                                /\ p[k][j] = tab[k].pending[j + taken(k)]
    OBVIOUS
  <2> DEFINE q == tab[k].pending
             r == SubSeq(q, taken(k) + 1, Len(q))
  <2>1. q \in Seq(Chunk) /\ taken(k) \in Nat /\ taken(k) <= Len(q) /\ p[k] = r
    BY <1>4, <1>5
  <2> HIDE DEF q, p
  <2>2. /\ r \in Seq(Chunk) /\ Len(r) = Len(q) - taken(k)
        /\ \A j \in 1 .. Len(q) - taken(k) : j + taken(k) \in DOMAIN q /\ r[j] = q[j + taken(k)]
    BY <2>1, PartsAreOf
  <2>3. DOMAIN r = 1 .. Len(q) - taken(k)
    BY <2>2
  <2> QED
    BY <2>1, <2>2, <2>3 DEF q
<1>7. ConsoleIs(F, nextId, c, cut, kern)
  <2>1. p \in [Slots -> Seq(Chunk)]
    BY <1>6
  <2>2. ASSUME NEW k \in Slots
        PROVE  /\ Len(p[k]) <= PendingMax
               /\ ~tab[k].used => p[k] = tab[k].pending
               /\ tab[k].used => Of(p[k], F[Key(c, tab[k])], tab[k].peer)
    <3>1. StreamIs(F, nextId, c, tab[k])
      BY DEF ConsoleIs
    <3>2. Len(p[k]) <= PendingMax
      BY <1>4, <1>5, <1>6, <3>1, TunnelAssumption DEF StreamIs
    <3>3. tab[k].used => Of(p[k], F[Key(c, tab[k])], tab[k].peer)
      BY <1>6, <3>1 DEF StreamIs, Of
    <3>4. ASSUME ~tab[k].used PROVE p[k] = tab[k].pending
      <4>1. tab[k].pending = <<>>
        BY <3>1, <3>4 DEF StreamIs, Free
      <4>2. Len(p[k]) = 0
        BY <1>4, <1>5, <1>6, <4>1
      <4>3. p[k] \in Seq(Chunk)
        BY <1>6
      <4> HIDE DEF p
      <4> QED
        BY <4>1, <4>2, <4>3, EmptySeq
    <3> QED
      BY <3>2, <3>3, <3>4
  <2> HIDE DEF p
  <2> QED
    BY <2>1, <2>2, HoldBackKeeps
<1>8. \A k \in ended : tab[k].used /\ tab[k].sock \in Fds
  BY <1>2, <1>3 DEF ConsoleIs, StreamIs, Free, Stream
<1>9. ConsoleIs(F, nextId, c, Emptied(cut, ended), Closed(kern, fds))
  <2>1. ASSUME NEW k \in Slots \ ended, NEW d \in Fds \cap fds
        PROVE  d # cut[k].listener /\ d # cut[k].sock
    <3>1. PICK l \in ended : d = tab[l].sock
      OBVIOUS
    <3>2. d # NoFd /\ l \in Slots /\ l # k
      BY <1>3, <3>1
    <3>3. Apart(tab[l], tab[k])
      BY <3>2 DEF ConsoleIs
    <3>4. cut[k].listener = tab[k].listener /\ cut[k].sock = tab[k].sock
      BY <1>2 DEF Stream
    <3> QED
      BY <3>1, <3>2, <3>3, <3>4 DEF Apart
  <2> HIDE DEF cut, fds, ended
  <2> QED
    BY <1>7, <2>1, CloseKeeps
<1>10. /\ streams' = [streams EXCEPT ![c] = Emptied(cut, ended)]
       /\ kernel' = [kernel EXCEPT ![c] = Closed(kern, fds)]
  BY <1>1 DEF Shutting, Emptied, Closed, taken
<1>11. \A n \in Conns : end(n) # {} => First(end(n)) \in end(n)
  <2>1. \A n : end(n) \subseteq Nat
    BY <1>3 DEF Slots
  <2> HIDE DEF end
  <2> QED
    BY <2>1, FirstIsMember
<1>12. ASSUME NEW n \in Conns, NEW d \in Consoles
       PROVE  /\ got'[n] \in [Consoles -> Seq(Chunk)]
              /\ \A j \in DOMAIN got'[n][d] : got'[n][d][j].conn = n /\ got'[n][d][j].from # d
  <2>1. /\ got[n] \in [Consoles -> Seq(Chunk)]
        /\ \A j \in DOMAIN got[n][d] : got[n][d][j].conn = n /\ got[n][d][j].from # d
        /\ \A j \in DOMAIN got[n][c] : got[n][c][j].conn = n /\ got[n][c][j].from # c
    BY DEF Types, NoCrossTalk
  <2>2. CASE end(n) = {}
    <3>1. got'[n] = got[n]
      BY <1>1, <2>2
    <3> QED
      BY <2>1, <3>1
  <2>3. CASE end(n) # {}
    <3> DEFINE l == First(end(n))
               old == got[n][c]
               new == SubSeq(tab[l].pending, 1, taken(l))
    <3>1. l \in up /\ kern[tab[l].sock].conn = n /\ l \in Slots
      BY <1>3, <1>11, <2>3
    <3>2. got'[n] = [got[n] EXCEPT ![c] = old \o new]
      BY <1>1, <2>3 DEF taken
    <3> HIDE DEF l
    <3>3. tab[l].used /\ tab[l].sock # NoFd
      BY <1>2, <1>3, <3>1 DEF ConsoleIs, StreamIs, Free, Stream
    <3>4. StreamIs(F, nextId, c, tab[l]) /\ n = F[Key(c, tab[l])]
      BY <3>1, <3>3 DEF ConsoleIs, FdIs
    <3>5. Of(tab[l].pending, n, tab[l].peer) /\ tab[l].peer # c
      BY <3>3, <3>4 DEF StreamIs
    <3> DEFINE q == tab[l].pending
    <3>6. q \in Seq(Chunk) /\ taken(l) \in Nat /\ taken(l) <= Len(q)
      BY <1>4, <1>5, <3>1
    <3> HIDE DEF q
    <3>7. /\ SubSeq(q, 1, taken(l)) \in Seq(Chunk)
          /\ Len(SubSeq(q, 1, taken(l))) = taken(l)
          /\ \A j \in 1 .. taken(l) : j \in DOMAIN q /\ SubSeq(q, 1, taken(l))[j] = q[j]
      BY <3>6, PartsAreOf
    <3>8. /\ new \in Seq(Chunk) /\ Len(new) = taken(l)
          /\ \A j \in DOMAIN new : new[j].conn = n /\ new[j].from # c
      <4>1. new = SubSeq(q, 1, taken(l)) /\ \A j \in DOMAIN q : q[j].conn = n /\ q[j].from # c
        BY <3>5 DEF q, Of
      <4> HIDE DEF new
      <4>2. new \in Seq(Chunk) /\ Len(new) = taken(l) /\ DOMAIN new = 1 .. taken(l)
        BY <3>6, <3>7, <4>1
      <4> QED
        BY <3>7, <4>1, <4>2
    <3>9. old \in Seq(Chunk) /\ \A j \in DOMAIN old : old[j].conn = n /\ old[j].from # c
      BY <2>1
    <3> HIDE DEF old, new
    <3>10. /\ old \o new \in Seq(Chunk)
           /\ \A j \in DOMAIN (old \o new) :
                 (old \o new)[j].conn = n /\ (old \o new)[j].from # c
      BY <3>8, <3>9
    <3>11. got'[n] \in [Consoles -> Seq(Chunk)]
      BY <2>1, <3>2, <3>10
    <3>12. got'[n][d] = IF d = c THEN old \o new ELSE got[n][d]
      BY <2>1, <3>2
    <3> QED
      BY <2>1, <3>10, <3>11, <3>12
  <2> QED
    BY <2>2, <2>3
<1>13. got' \in [Conns -> [Consoles -> Seq(Chunk)]] /\ NoCrossTalk'
  <2>1. got' = [n \in Conns |-> got'[n]]
    BY <1>1
  <2>2. \A n \in Conns : got'[n] \in [Consoles -> Seq(Chunk)]
    BY <1>12
  <2>3. got' \in [Conns -> [Consoles -> Seq(Chunk)]]
    BY <2>1, <2>2
  <2> QED
    BY <1>12, <2>3 DEF NoCrossTalk
<1> DEFINE frames == [k \in ended |-> Frame(c, tab[k], "close", 0, <<>>)]
<1>14. \A k \in ended : frames[k] \in FrameSet /\ FrameIs(F, nextId, frames[k].to, frames[k])
  <2> SUFFICES ASSUME NEW k \in ended
               PROVE  frames[k] \in FrameSet /\ FrameIs(F, nextId, frames[k].to, frames[k])
    OBVIOUS
  <2>1. tab[k] \in Stream /\ StreamIs(F, nextId, c, tab[k]) /\ tab[k].used
    BY <1>2, <1>3, <1>8 DEF ConsoleIs
  <2>2. <<>> \in Seq(Chunk) /\ "close" \in {"data", "close"} /\ "close" # "data"
    OBVIOUS
  <2>3. /\ Frame(c, tab[k], "close", 0, <<>>) \in FrameSet
        /\ FrameIs(F, nextId, tab[k].peer, Frame(c, tab[k], "close", 0, <<>>))
    BY <2>1, <2>2, FrameOfStream
  <2> QED
    BY <2>3 DEF Frame
<1>15. /\ WireType(wire')
       /\ \A d \in Consoles : \A f \in wire'[d] :
             f \in wire[d] \/ FrameIs(F, nextId, d, f)
  <2>1. WireType(wire)
    BY DEF Types
  <2>2. wire' = Carried(frames)
    BY <1>1
  <2>3. DOMAIN frames = ended
    OBVIOUS
  <2> HIDE DEF frames
  <2>4. \A i \in DOMAIN frames : frames[i] \in FrameSet
    BY <1>14, <2>3
  <2>5. /\ WireType(Carried(frames))
        /\ \A d \in Consoles : \A f \in Carried(frames)[d] :
              f \in wire[d] \/ \E i \in DOMAIN frames : f = frames[i] /\ f.to = d
    BY <2>1, <2>4, CarriedAdds
  <2> QED
    BY <1>14, <2>2, <2>3, <2>5
<1> QED
  BY <1>9, <1>10, <1>13, <1>15

-----------------------------------------------------------------------------
(* What a step does to one console. *)

\* A step of one console that leaves it as it should be, and sends what it should.
LEMMA ConsoleStep ==
    ASSUME Types, NEW F, Consistent(F), NEW c \in Consoles, NEW t, NEW k,
           streams' = [streams EXCEPT ![c] = t], kernel' = [kernel EXCEPT ![c] = k],
           ConsoleIs(F, nextId, c, t, k), nextId' = nextId,
           \A d \in Consoles : \A f \in wire'[d] :
              f \in wire[d] \/ FrameIs(F, nextId, d, f)
    PROVE  /\ Consistent(F)'
           /\ streams' \in [Consoles -> [Slots -> Stream]]
           /\ kernel' \in [Consoles -> [Fds -> End]]
<1>1. t \in [Slots -> Stream] /\ k \in [Fds -> End]
  BY DEF ConsoleIs
<1>2. /\ streams' \in [Consoles -> [Slots -> Stream]]
      /\ kernel' \in [Consoles -> [Fds -> End]]
  BY <1>1 DEF Types
<1>3. ASSUME NEW d \in Consoles
      PROVE  /\ ConsoleIs(F, nextId', d, streams'[d], kernel'[d])
             /\ \A f \in wire'[d] : FrameIs(F, nextId', d, f)
  <2>1. /\ streams'[d] = IF d = c THEN t ELSE streams[d]
        /\ kernel'[d] = IF d = c THEN k ELSE kernel[d]
    BY DEF Types
  <2>2. ConsoleIs(F, nextId, d, streams[d], kernel[d])
    BY DEF Consistent
  <2> QED
    BY <2>1, <2>2 DEF Consistent
<1> QED
  BY <1>2, <1>3 DEF Consistent

\* A step in which nothing changes but what is under way, and that for the better.
LEMMA RelayStep ==
    ASSUME Types, NEW F, Consistent(F), UNCHANGED <<streams, kernel, nextId>>,
           \A d \in Consoles : \A f \in wire'[d] :
              f \in wire[d] \/ FrameIs(F, nextId, d, f)
    PROVE  Consistent(F)'
BY DEF Consistent

\* The console that sends the frame of one stream sends what it should.
LEMMA SendsOne ==
    ASSUME WireType(wire), NEW F, NEW f \in FrameSet, FrameIs(F, nextId, f.to, f),
           wire' = Carried(<<f>>)
    PROVE  /\ WireType(wire')
           /\ \A d \in Consoles : \A g \in wire'[d] :
                 g \in wire[d] \/ FrameIs(F, nextId, d, g)
<1> DEFINE frames == <<f>>
<1>1. DOMAIN frames = 1 .. 1 /\ \A i \in DOMAIN frames : frames[i] = f
  OBVIOUS
<1>2. \A i \in DOMAIN frames : frames[i] \in FrameSet
  BY <1>1
<1>3. wire' = Carried(frames)
  OBVIOUS
<1> HIDE DEF frames
<1>4. /\ WireType(Carried(frames))
      /\ \A d \in Consoles : \A g \in Carried(frames)[d] :
            g \in wire[d] \/ \E i \in DOMAIN frames : g = frames[i] /\ g.to = d
  BY <1>2, CarriedAdds
<1>5. \A d \in Consoles : \A g \in Carried(frames)[d] : g \in wire[d] \/ (g = f /\ f.to = d)
  BY <1>1, <1>4
<1> QED
  BY <1>3, <1>4, <1>5

\* Later names leave alone what has been named.
LEMMA RenameKeeps ==
    ASSUME NEW F, NEW G, NEW old, NEW new,
           \A key : Issued(key, old) => Issued(key, new) /\ G[key] = F[key]
    PROVE  /\ \A c \in Consoles : \A tab, kern :
                 ConsoleIs(F, old, c, tab, kern) => ConsoleIs(G, new, c, tab, kern)
           /\ \A c \in Consoles : \A f : FrameIs(F, old, c, f) => FrameIs(G, new, c, f)
<1>1. ASSUME NEW c \in Consoles, NEW tab, NEW kern, ConsoleIs(F, old, c, tab, kern)
      PROVE  ConsoleIs(G, new, c, tab, kern)
  <2>1. ASSUME NEW k \in Slots
        PROVE  /\ StreamIs(G, new, c, tab[k])
               /\ FdIs(G, c, tab[k], kern, tab[k].listener)
               /\ FdIs(G, c, tab[k], kern, tab[k].sock)
    <3>1. /\ StreamIs(F, old, c, tab[k])
          /\ FdIs(F, c, tab[k], kern, tab[k].listener)
          /\ FdIs(F, c, tab[k], kern, tab[k].sock)
      BY <1>1 DEF ConsoleIs
    <3>2. CASE tab[k].used
      BY <3>1, <3>2 DEF StreamIs, FdIs
    <3>3. CASE ~tab[k].used
      BY <3>1, <3>3 DEF StreamIs, FdIs, Free
    <3> QED
      BY <3>2, <3>3
  <2> QED
    BY <1>1, <2>1 DEF ConsoleIs
<1>2. ASSUME NEW c \in Consoles, NEW f, FrameIs(F, old, c, f)
      PROVE  FrameIs(G, new, c, f)
  BY <1>2 DEF FrameIs
<1> QED
  BY <1>1, <1>2

\* An entry is taken, and with it a descriptor.
LEMMA TakeKeeps ==
    ASSUME NEW F, NEW next, NEW c \in Consoles, NEW tab, NEW kern,
           ConsoleIs(F, next, c, tab, kern),
           NEW k \in Slots, ~tab[k].used, NEW fd \in Fds, kern[fd] = Shut,
           NEW s \in Stream, s.used, StreamIs(F, next, c, s),
           \/ s.listener = fd /\ s.sock = NoFd
           \/ s.listener = NoFd /\ s.sock = fd,
           NEW e \in End, EndIs(c, e), e.conn # 0, e.conn = F[Key(c, s)]
    PROVE  ConsoleIs(F, next, c, [tab EXCEPT ![k] = s], [kern EXCEPT ![fd] = e])
<1> DEFINE t == [tab EXCEPT ![k] = s]
           r == [kern EXCEPT ![fd] = e]
<1>1. tab \in [Slots -> Stream] /\ kern \in [Fds -> End]
  BY DEF ConsoleIs
<1>2. /\ t \in [Slots -> Stream] /\ r \in [Fds -> End]
      /\ t[k] = s /\ r[fd] = e
      /\ \A l \in Slots : l # k => t[l] = tab[l]
      /\ \A d \in Fds : d # fd => r[d] = kern[d]
  BY <1>1
<1> HIDE DEF t, r
<1>3. ASSUME NEW l \in Slots
      PROVE  /\ tab[l].listener # fd /\ tab[l].sock # fd
             /\ tab[l].listener \in Fds \cup {NoFd} /\ tab[l].sock \in Fds \cup {NoFd}
  <2>1. kern[fd].conn = 0 /\ fd # NoFd
    BY TunnelAssumption DEF Shut, Fds, NoFd
  <2> QED
    BY <1>1, <2>1 DEF ConsoleIs, FdIs, Stream
<1>4. ASSUME NEW l \in Slots
      PROVE  /\ StreamIs(F, next, c, t[l])
             /\ FdIs(F, c, t[l], r, t[l].listener)
             /\ FdIs(F, c, t[l], r, t[l].sock)
             /\ t[l].listener = NoFd \/ t[l].sock = NoFd
  <2>1. CASE l = k
    BY <1>2, <2>1 DEF FdIs
  <2>2. CASE l # k
    <3>1. /\ StreamIs(F, next, c, tab[l])
          /\ FdIs(F, c, tab[l], kern, tab[l].listener)
          /\ FdIs(F, c, tab[l], kern, tab[l].sock)
          /\ tab[l].listener = NoFd \/ tab[l].sock = NoFd
      BY DEF ConsoleIs
    <3> QED
      BY <1>2, <1>3, <2>2, <3>1 DEF FdIs
  <2> QED
    BY <2>1, <2>2
<1>5. ASSUME NEW l \in Slots, NEW j \in Slots, l # j
      PROVE  Apart(t[l], t[j])
  <2>1. Apart(tab[l], tab[j])
    BY <1>5 DEF ConsoleIs
  <2> QED
    BY <1>2, <1>3, <1>5, <2>1 DEF Apart
<1>6. \A d \in Fds : EndIs(c, r[d])
  BY <1>2 DEF ConsoleIs
<1> QED
  BY <1>2, <1>4, <1>5, <1>6 DEF ConsoleIs, t, r

\* Our end of a connection changes, and stays of that connection.
LEMMA EndKeeps ==
    ASSUME NEW F, NEW next, NEW c \in Consoles, NEW tab, NEW kern,
           ConsoleIs(F, next, c, tab, kern),
           NEW fd \in Fds, NEW e \in End, EndIs(c, e), e.conn = kern[fd].conn
    PROVE  ConsoleIs(F, next, c, tab, [kern EXCEPT ![fd] = e])
<1> DEFINE r == [kern EXCEPT ![fd] = e]
<1>1. kern \in [Fds -> End]
  BY DEF ConsoleIs
<1>2. /\ r \in [Fds -> End] /\ \A d \in Fds : r[d].conn = kern[d].conn
      /\ \A d \in Fds : r[d] = kern[d] \/ r[d] = e
  BY <1>1
<1> HIDE DEF r
<1>3. \A d \in Fds : EndIs(c, r[d])
  BY <1>2 DEF ConsoleIs
<1>4. ASSUME NEW l \in Slots
      PROVE  /\ FdIs(F, c, tab[l], r, tab[l].listener)
             /\ FdIs(F, c, tab[l], r, tab[l].sock)
  <2>1. tab[l].listener \in Fds \cup {NoFd} /\ tab[l].sock \in Fds \cup {NoFd}
    BY DEF ConsoleIs, Stream
  <2>2. /\ FdIs(F, c, tab[l], kern, tab[l].listener)
        /\ FdIs(F, c, tab[l], kern, tab[l].sock)
    BY DEF ConsoleIs
  <2> QED
    BY <1>2, <2>1, <2>2 DEF FdIs
<1>5. ConsoleIs(F, next, c, tab, r)
  BY <1>2, <1>3, <1>4 DEF ConsoleIs
<1> QED
  BY <1>5 DEF r

\* The listener of a stream gives way to the socket it has accepted.
LEMMA AcceptKeeps ==
    ASSUME NEW F, NEW next, NEW c \in Consoles, NEW tab, NEW kern,
           ConsoleIs(F, next, c, tab, kern),
           NEW k \in Slots, NEW old \in Fds, tab[k].listener = old,
           NEW fd \in Fds, kern[fd] = Shut
    PROVE  ConsoleIs(F, next, c, [tab EXCEPT ![k].listener = NoFd, ![k].sock = fd],
                     [kern EXCEPT ![old] = Shut, ![fd] = kern[old]])
<1> DEFINE t == [tab EXCEPT ![k].listener = NoFd, ![k].sock = fd]
           r == [kern EXCEPT ![old] = Shut, ![fd] = kern[old]]
           s == [tab[k] EXCEPT !.listener = NoFd, !.sock = fd]
<1>1. tab \in [Slots -> Stream] /\ kern \in [Fds -> End] /\ Shut \in End
  BY EmptySeq, TunnelAssumption DEF ConsoleIs, Shut, End
<1>2. /\ fd # NoFd /\ old # NoFd /\ kern[fd].conn = 0 /\ kern[old].conn # 0 /\ old # fd
      /\ kern[old].conn = F[Key(c, tab[k])]
  BY TunnelAssumption DEF ConsoleIs, FdIs, Shut, Fds, NoFd
<1>3. /\ s \in Stream /\ s.listener = NoFd /\ s.sock = fd
      /\ s.used = tab[k].used /\ s.peer = tab[k].peer /\ s.pending = tab[k].pending
      /\ s.originator = tab[k].originator /\ s.id = tab[k].id
  BY <1>1 DEF Stream
<1>4. t[k] = s /\ t \in [Slots -> Stream] /\ \A l \in Slots : l # k => t[l] = tab[l]
  BY <1>1, <1>3
<1>5. /\ r \in [Fds -> End] /\ r[fd] = kern[old] /\ r[old] = Shut
      /\ \A d \in Fds \ {old, fd} : r[d] = kern[d]
  BY <1>1, <1>2
<1> HIDE DEF t, r, s
<1>6. StreamIs(F, next, c, tab[k]) /\ tab[k].used
  BY <1>2 DEF ConsoleIs, StreamIs, Free
<1>7. ASSUME NEW l \in Slots, l # k
      PROVE  /\ tab[l].listener \in Fds \cup {NoFd} /\ tab[l].sock \in Fds \cup {NoFd}
             /\ tab[l].listener \notin {old, fd} /\ tab[l].sock \notin {old, fd}
  <2>1. Apart(tab[k], tab[l])
    BY <1>7 DEF ConsoleIs
  <2> QED
    BY <1>1, <1>2, <2>1 DEF ConsoleIs, FdIs, Stream, Apart
<1>8. ASSUME NEW l \in Slots
      PROVE  /\ StreamIs(F, next, c, t[l])
             /\ FdIs(F, c, t[l], r, t[l].listener)
             /\ FdIs(F, c, t[l], r, t[l].sock)
             /\ t[l].listener = NoFd \/ t[l].sock = NoFd
  <2>1. CASE l = k
    <3>1. Key(c, s) = Key(c, tab[k])
      BY <1>3 DEF Key
    <3>2. StreamIs(F, next, c, s)
      BY <1>3, <1>6, <3>1 DEF StreamIs
    <3> QED
      BY <1>2, <1>3, <1>4, <1>5, <2>1, <3>1, <3>2 DEF FdIs
  <2>2. CASE l # k
    <3>1. /\ StreamIs(F, next, c, tab[l])
          /\ FdIs(F, c, tab[l], kern, tab[l].listener)
          /\ FdIs(F, c, tab[l], kern, tab[l].sock)
          /\ tab[l].listener = NoFd \/ tab[l].sock = NoFd
      BY DEF ConsoleIs
    <3> QED
      BY <1>4, <1>5, <1>7, <2>2, <3>1 DEF FdIs
  <2> QED
    BY <2>1, <2>2
<1>9. ASSUME NEW l \in Slots, NEW j \in Slots, l # j
      PROVE  Apart(t[l], t[j])
  <2>1. Apart(tab[l], tab[j])
    BY <1>9 DEF ConsoleIs
  <2> QED
    BY <1>2, <1>3, <1>4, <1>7, <1>9, <2>1 DEF Apart
<1>10. \A d \in Fds : EndIs(c, r[d])
  <2>1. EndIs(c, Shut)
    BY DEF EndIs, Shut, Of
  <2> QED
    BY <1>5, <2>1 DEF ConsoleIs
<1> QED
  BY <1>4, <1>5, <1>8, <1>9, <1>10 DEF ConsoleIs, t, r

-----------------------------------------------------------------------------
(* What every step keeps. *)

\* No id has been chosen yet.
Nameless == [key \in Consoles \X Ids |-> 0]

\* At first no id is chosen and nothing is under way.
LEMMA InitIsGood == Init => Nameless \in Naming /\ Good(Nameless)
<1> SUFFICES ASSUME Init PROVE Nameless \in Naming /\ Good(Nameless)
  OBVIOUS
<1> DEFINE F == Nameless
<1>1. F \in Naming
  BY TunnelAssumption DEF Naming, Nameless
<1> HIDE DEF F
<1>2. Free \in Stream /\ Shut \in End /\ <<>> \in Seq(Chunk) /\ <<>> \in Seq(FrameSet)
  BY TunnelAssumption, EmptySeq DEF Free, Stream, NoFd, Shut, End
<1>3. Types
  <2>1. streams \in [Consoles -> [Slots -> Stream]] /\ kernel \in [Consoles -> [Fds -> End]]
    BY <1>2 DEF Init
  <2>2. /\ nextId \in [Consoles -> 1 .. MaxIds + 1]
        /\ dialled \in [Consoles -> [GameFds -> 0 .. MaxConnects]]
        /\ opened \in 0 .. MaxConnects
        /\ wrote \in [Conns -> [Consoles -> 0 .. MaxChunks]]
    BY TunnelAssumption DEF Init
  <2>3. /\ running \in [Consoles -> {"on", "stopping", "off"}]
        /\ polled \in Polls
        /\ got \in [Conns -> [Consoles -> Seq(Chunk)]]
        /\ WireType(wire)
    BY <1>2 DEF Init, WireType, Polls
  <2> QED
    BY <2>1, <2>2, <2>3 DEF Types
<1>4. NoCrossTalk
  BY DEF Init, NoCrossTalk
<1>5. Consistent(F)
  <2> SUFFICES ASSUME NEW c \in Consoles
               PROVE  /\ ConsoleIs(F, nextId, c, streams[c], kernel[c])
                      /\ \A f \in wire[c] : FrameIs(F, nextId, c, f)
    BY DEF Consistent
  <2>1. streams[c] = [k \in Slots |-> Free] /\ kernel[c] = [d \in Fds |-> Shut]
    BY DEF Init
  <2>2. Free.used = FALSE /\ Free.listener = NoFd /\ Free.sock = NoFd /\ Free.pending = <<>>
    BY DEF Free
  <2>3. Len(<<>>) <= PendingMax
    BY TunnelAssumption
  <2>4. StreamIs(F, nextId, c, Free)
    BY <2>2, <2>3 DEF StreamIs
  <2>5. EndIs(c, Shut)
    BY DEF EndIs, Shut, Of
  <2>6. ConsoleIs(F, nextId, c, streams[c], kernel[c])
    BY <1>2, <2>1, <2>2, <2>4, <2>5 DEF ConsoleIs, FdIs, Apart
  <2>7. wire[c] = {}
    BY DEF Init
  <2> QED
    BY <2>6, <2>7
<1> QED
  BY <1>1, <1>3, <1>4, <1>5 DEF Good, F

\* A stream is released, and perhaps its peer told.
LEMMA ReleaseKeeps ==
    ASSUME NEW F, Good(F), NEW c \in Consoles, NEW k \in Slots,
           Release(c, k), UNCHANGED <<nextId, running, dialled, opened, wrote>>,
           polled' \in Polls,
           WireType(wire'),
           \A d \in Consoles : \A f \in wire'[d] :
              f \in wire[d] \/ FrameIs(F, nextId, d, f)
    PROVE  Good(F)'
<1> DEFINE t == streams[c]
           fds == {t[k].listener, t[k].sock}
<1>1. Types /\ NoCrossTalk /\ Consistent(F)
  BY DEF Good
<1>2. ConsoleIs(F, nextId, c, t, kernel[c])
  BY <1>1 DEF Consistent
<1>3. ASSUME NEW l \in Slots \ {k}, NEW d \in Fds \cap fds
      PROVE  d # t[l].listener /\ d # t[l].sock
  <2>1. Apart(t[k], t[l]) /\ d # NoFd
    BY <1>2, TunnelAssumption DEF ConsoleIs, Fds, NoFd
  <2> QED
    BY <2>1 DEF Apart
<1>4. ConsoleIs(F, nextId, c, Emptied(t, {k}), Closed(kernel[c], fds))
  <2> HIDE DEF t, fds
  <2> QED
    BY <1>2, <1>3, CloseKeeps
<1>5. /\ streams' = [streams EXCEPT ![c] = Emptied(t, {k})]
      /\ kernel' = [kernel EXCEPT ![c] = Closed(kernel[c], fds)]
      /\ got' = got
  <2>1. t \in [Slots -> Stream]
    BY <1>2 DEF ConsoleIs
  <2>2. Emptied(t, {k}) = [t EXCEPT ![k] = Free]
    BY <2>1 DEF Emptied
  <2> QED
    BY <2>2 DEF Release, Shutting, Closed
<1> HIDE DEF t, fds
<1>6. /\ Consistent(F)'
      /\ streams' \in [Consoles -> [Slots -> Stream]]
      /\ kernel' \in [Consoles -> [Fds -> End]]
  BY <1>1, <1>4, <1>5, ConsoleStep
<1>7. NoCrossTalk'
  BY <1>1, <1>5 DEF NoCrossTalk
<1>8. Types'
  BY <1>1, <1>5, <1>6 DEF Types
<1> QED
  BY <1>6, <1>7, <1>8 DEF Good

\* A stream that hangs up.
LEMMA HangUpKeeps ==
    ASSUME NEW F, Good(F), NEW c \in Consoles, NEW k \in Slots, streams[c][k].used,
           HangUp(c, k), UNCHANGED <<nextId, running, dialled, opened, wrote>>,
           polled' \in Polls
    PROVE  Good(F)'
<1> DEFINE s == streams[c][k]
           f == Frame(c, s, "close", 0, <<>>)
<1>1. s \in Stream /\ s.used /\ StreamIs(F, nextId, c, s)
  BY DEF Good, Consistent, ConsoleIs
<1>2. f \in FrameSet /\ FrameIs(F, nextId, s.peer, f) /\ f.to = s.peer
  <2>1. <<>> \in Seq(Chunk) /\ "close" \in {"data", "close"} /\ "close" # "data"
    OBVIOUS
  <2>2. f.to = s.peer
    BY DEF Frame
  <2> HIDE DEF s
  <2>3. /\ Frame(c, s, "close", 0, <<>>) \in FrameSet
        /\ FrameIs(F, nextId, s.peer, Frame(c, s, "close", 0, <<>>))
    BY <1>1, <2>1, FrameOfStream
  <2> QED
    BY <2>2, <2>3
<1>3. wire' = Carried(<<f>>) /\ Release(c, k)
  BY DEF HangUp
<1>4. WireType(wire)
  BY DEF Good, Types
<1> HIDE DEF f, s
<1>5. /\ WireType(wire')
      /\ \A d \in Consoles : \A g \in wire'[d] :
            g \in wire[d] \/ FrameIs(F, nextId, d, g)
  BY <1>2, <1>3, <1>4, SendsOne
<1> QED
  BY <1>3, <1>5, ReleaseKeeps

\* A flush of a console that is as it should be, and so is what is under way.
LEMMA FlushIsGood ==
    ASSUME NEW F, Good(F), NEW c \in Consoles, NEW K \in SUBSET Slots, NEW tab, NEW kern,
           ConsoleIs(F, nextId, c, tab, kern),
           FlushPending(c, K, tab, kern), UNCHANGED <<nextId, running, dialled, opened, wrote>>,
           polled' \in Polls
    PROVE  Good(F)'
<1>1. Types /\ NoCrossTalk /\ Consistent(F)
  BY DEF Good
<1>2. /\ \E t, k : /\ streams' = [streams EXCEPT ![c] = t]
                   /\ kernel' = [kernel EXCEPT ![c] = k]
                   /\ ConsoleIs(F, nextId, c, t, k)
      /\ got' \in [Conns -> [Consoles -> Seq(Chunk)]]
      /\ NoCrossTalk'
      /\ WireType(wire')
      /\ \A d \in Consoles : \A f \in wire'[d] :
            f \in wire[d] \/ FrameIs(F, nextId, d, f)
  BY <1>1, FlushKeeps
<1>3. PICK t, k : /\ streams' = [streams EXCEPT ![c] = t]
                  /\ kernel' = [kernel EXCEPT ![c] = k]
                  /\ ConsoleIs(F, nextId, c, t, k)
  BY <1>2
<1>4. \A d \in Consoles : \A f \in wire'[d] :
         f \in wire[d] \/ FrameIs(F, nextId, d, f)
  BY <1>2
<1>5. /\ Consistent(F)'
      /\ streams' \in [Consoles -> [Slots -> Stream]]
      /\ kernel' \in [Consoles -> [Fds -> End]]
  BY <1>1, <1>3, <1>4, ConsoleStep
<1>6. Types'
  BY <1>1, <1>2, <1>5 DEF Types
<1> QED
  BY <1>2, <1>5, <1>6 DEF Good

\* A step of which the consoles' tables and what is under way see nothing.
LEMMA IdleKeeps ==
    ASSUME NEW F, Good(F), UNCHANGED <<streams, kernel, nextId, wire, got, wrote, opened>>,
           running' \in [Consoles -> {"on", "stopping", "off"}], polled' \in Polls,
           dialled' \in [Consoles -> [GameFds -> 0 .. MaxConnects]]
    PROVE  Good(F)'
BY DEF Good, Types, NoCrossTalk, Consistent

\* A step of one console that sends nothing.
LEMMA QuietKeeps ==
    ASSUME NEW F, Good(F), NEW c \in Consoles, NEW t, NEW k,
           streams' = [streams EXCEPT ![c] = t], kernel' = [kernel EXCEPT ![c] = k],
           ConsoleIs(F, nextId, c, t, k), UNCHANGED <<nextId, wire, got, opened>>,
           running' \in [Consoles -> {"on", "stopping", "off"}], polled' \in Polls,
           dialled' \in [Consoles -> [GameFds -> 0 .. MaxConnects]],
           wrote' \in [Conns -> [Consoles -> 0 .. MaxChunks]]
    PROVE  Good(F)'
<1>1. Types /\ NoCrossTalk /\ Consistent(F)
  BY DEF Good
<1>2. \A d \in Consoles : \A f \in wire'[d] :
         f \in wire[d] \/ FrameIs(F, nextId, d, f)
  OBVIOUS
<1>3. /\ Consistent(F)'
      /\ streams' \in [Consoles -> [Slots -> Stream]]
      /\ kernel' \in [Consoles -> [Fds -> End]]
  BY <1>1, <1>2, ConsoleStep
<1> QED
  BY <1>1, <1>3 DEF Good, Types, NoCrossTalk

\* What the kernel gives out is a descriptor that is free, and the entry as well.
LEMMA NewIsFree ==
    ASSUME NEW c \in Consoles
    PROVE  /\ UnusedFds(c) # {} => NewFd(c) \in Fds /\ kernel[c][NewFd(c)] = Shut
           /\ Unused(c) # {} => First(Unused(c)) \in Slots /\ ~streams[c][First(Unused(c))].used
<1>1. UnusedFds(c) \subseteq Nat /\ Unused(c) \subseteq Nat
  BY TunnelAssumption DEF UnusedFds, Unused, Fds, Slots
<1>2. UnusedFds(c) # {} => NewFd(c) \in UnusedFds(c)
  BY <1>1, FirstIsMember DEF NewFd
<1>3. Unused(c) # {} => First(Unused(c)) \in Unused(c)
  BY <1>1, FirstIsMember
<1> QED
  BY <1>2, <1>3 DEF UnusedFds, Unused

\* The id own is given the name n.
Names(F, G, own, n) == G = [F EXCEPT ![own] = n]

\* A new id is a new name.
LEMMA RedirectKeeps ==
    ASSUME NEW F \in Naming, Good(F), NEW c \in Consoles, NEW f \in GameFds,
           NEW p \in Consoles \ {c}, RedirectConnect(c, f, p)
    PROVE  \E G \in Naming : Names(F, G, <<c, nextId[c]>>, opened + 1) /\ Good(G)'
<1> DEFINE n == opened + 1
           i == nextId[c]
           k == First(Unused(c))
           fd == NewFd(c)
           fresh == dialled[c][f] = 0
           s == [Free EXCEPT !.used = TRUE, !.originator = TRUE, !.id = i,
                             !.peer = p, !.listener = fd, !.game_fd = f]
           e == [conn |-> n, game |-> IF fresh THEN "open" ELSE "absent", in |-> <<>>]
           open == Frame(c, s, "open", n, <<>>)
<1>1. Types /\ NoCrossTalk /\ Consistent(F)
  BY DEF Good
<1>2. /\ Unused(c) # {} /\ UnusedFds(c) # {} /\ i <= MaxIds /\ opened < MaxConnects
      /\ opened' = n /\ nextId' = [nextId EXCEPT ![c] = i + 1]
      /\ streams' = [streams EXCEPT ![c][k] = s]
      /\ kernel' = [kernel EXCEPT ![c][s.listener] = [conn |-> opened',
                        game |-> IF fresh THEN "open" ELSE "absent", in |-> <<>>]]
      /\ dialled' = IF fresh THEN [dialled EXCEPT ![c][f] = opened'] ELSE dialled
      /\ wire' = Carried(<<Frame(c, s, "open", opened', <<>>)>>)
      /\ UNCHANGED <<running, polled, wrote, got>>
  BY DEF RedirectConnect
<1>3. /\ k \in Slots /\ ~streams[c][k].used /\ fd \in Fds /\ kernel[c][fd] = Shut
  BY <1>2, NewIsFree
<1>4. /\ i \in Ids /\ n \in 1 .. MaxConnects /\ nextId \in [Consoles -> 1 .. MaxIds + 1]
      /\ opened' \in 0 .. MaxConnects
  BY <1>1, <1>2, TunnelAssumption DEF Types, Ids
<1> HIDE DEF k, fd, fresh, n, i
<1>5. /\ s \in Stream /\ s.used /\ s.originator /\ s.id = i /\ s.peer = p
      /\ s.listener = fd /\ s.sock = NoFd /\ s.pending = <<>>
  <2>1. Free \in Stream /\ Free.sock = NoFd /\ Free.pending = <<>>
    BY TunnelAssumption, EmptySeq DEF Free, Stream, NoFd
  <2>2. i \in 0 .. MaxIds
    BY <1>4, TunnelAssumption DEF Ids
  <2> QED
    BY <1>3, <2>1, <2>2 DEF Stream
<1>6. /\ e \in End /\ e.conn = n /\ e.in = <<>>
  BY <1>4, TunnelAssumption, EmptySeq DEF End
<1>7. /\ open.type = "open" /\ open.from = c /\ open.to = p /\ open.id = i
      /\ open.conn = n /\ open.data = <<>> /\ open.owner = "sender"
      /\ open \in FrameSet
  BY <1>4, <1>5, TunnelAssumption, EmptySeq DEF Frame, FrameSet
<1> HIDE DEF s, e, open
<1>8. PICK G \in Naming : G = [F EXCEPT ![<<c, i>>] = n]
  <2> DEFINE H == [F EXCEPT ![<<c, i>>] = n]
  <2>1. n \in 0 .. MaxConnects
    BY <1>4, TunnelAssumption
  <2>2. H \in Naming
    BY <2>1 DEF Naming
  <2> QED
    BY <2>2
<1>9. /\ nextId' \in [Consoles -> 1 .. MaxIds + 1] /\ nextId'[c] = i + 1
      /\ \A d \in Consoles : nextId[d] <= nextId'[d]
      /\ \A d \in Consoles : nextId[d] \in Nat /\ nextId'[d] \in Nat
  BY <1>2, <1>4, TunnelAssumption DEF Ids, i
<1>10. ASSUME NEW key, Issued(key, nextId)
       PROVE  Issued(key, nextId') /\ G[key] = F[key]
  <2>1. key[1] \in Consoles /\ key[2] \in Nat /\ key = <<key[1], key[2]>>
    BY <1>10, TunnelAssumption DEF Issued, Ids
  <2>2. Issued(key, nextId')
    BY <1>9, <1>10, <2>1 DEF Issued
  <2>3. key # <<c, i>>
    BY <1>10, <1>9, <2>1 DEF Issued, i
  <2> QED
    BY <1>8, <1>10, <2>2, <2>3 DEF Issued, Naming
<1>11. Issued(<<c, i>>, nextId')
  BY <1>4, <1>9 DEF Issued, Ids
<1>12. \A d \in Consoles : \A tab, kern :
           ConsoleIs(F, nextId, d, tab, kern) => ConsoleIs(G, nextId', d, tab, kern)
  BY <1>10, RenameKeeps
<1>13. \A d \in Consoles : \A g : FrameIs(F, nextId, d, g) => FrameIs(G, nextId', d, g)
  BY <1>10, RenameKeeps
<1>24. G[<<c, i>>] = n
  BY <1>4, <1>8 DEF Naming
<1>14. ConsoleIs(G, nextId', c, [streams[c] EXCEPT ![k] = s], [kernel[c] EXCEPT ![fd] = e])
  <2>1. ConsoleIs(G, nextId', c, streams[c], kernel[c])
    BY <1>1, <1>12 DEF Consistent
  <2>2. Key(c, s) = <<c, i>>
    BY <1>5 DEF Key
  <2>3. StreamIs(G, nextId', c, s)
    BY <1>5, <1>11, <2>2, TunnelAssumption DEF StreamIs, Of
  <2>4. EndIs(c, e) /\ e.conn # 0 /\ e.conn = G[Key(c, s)]
    BY <1>4, <1>6, <1>24, <2>2 DEF EndIs, Of
  <2> QED
    BY <1>3, <1>5, <1>6, <2>1, <2>3, <2>4, TakeKeeps
<1>15. /\ streams' = [streams EXCEPT ![c] = [streams[c] EXCEPT ![k] = s]]
       /\ kernel' = [kernel EXCEPT ![c] = [kernel[c] EXCEPT ![fd] = e]]
       /\ wire' = Carried(<<open>>)
  <2>1. opened' = n /\ s.listener = fd
    BY <1>2, <1>5
  <2>2. e = [conn |-> opened', game |-> IF fresh THEN "open" ELSE "absent", in |-> <<>>]
    BY <2>1 DEF e
  <2>3. open = Frame(c, s, "open", opened', <<>>)
    BY <2>1 DEF open
  <2> QED
    BY <1>2, <2>1, <2>2, <2>3 DEF s
<1>16. FrameIs(G, nextId', p, open)
  BY <1>4, <1>7, <1>24, <1>11 DEF FrameIs, FrameKey
<1>17. /\ WireType(wire')
       /\ \A d \in Consoles : \A g \in wire'[d] :
             g \in wire[d] \/ (g = open /\ d = p)
  <2> DEFINE frames == <<open>>
  <2>1. DOMAIN frames = 1 .. 1 /\ \A j \in DOMAIN frames : frames[j] = open
    OBVIOUS
  <2>2. \A j \in DOMAIN frames : frames[j] \in FrameSet
    BY <1>7, <2>1
  <2>3. WireType(wire) /\ wire' = Carried(frames)
    BY <1>1, <1>15 DEF Types
  <2> HIDE DEF frames
  <2>4. /\ WireType(Carried(frames))
        /\ \A d \in Consoles : \A g \in Carried(frames)[d] :
              g \in wire[d] \/ \E j \in DOMAIN frames : g = frames[j] /\ g.to = d
    BY <2>2, <2>3, CarriedAdds
  <2> QED
    BY <1>7, <2>1, <2>3, <2>4
<1>18. ASSUME NEW d \in Consoles
       PROVE  /\ ConsoleIs(G, nextId', d, streams'[d], kernel'[d])
              /\ \A g \in wire'[d] : FrameIs(G, nextId', d, g)
  <2>1. ConsoleIs(G, nextId', d, streams[d], kernel[d])
    BY <1>1, <1>12 DEF Consistent
  <2>2. \A g \in wire[d] : FrameIs(G, nextId', d, g)
    BY <1>1, <1>13 DEF Consistent
  <2>3. /\ streams'[d] = IF d = c THEN [streams[c] EXCEPT ![k] = s] ELSE streams[d]
        /\ kernel'[d] = IF d = c THEN [kernel[c] EXCEPT ![fd] = e] ELSE kernel[d]
    BY <1>1, <1>15 DEF Types
  <2> QED
    BY <1>14, <1>16, <1>17, <2>1, <2>2, <2>3
<1>19. Consistent(G)'
  BY <1>18 DEF Consistent
<1>20. /\ streams' \in [Consoles -> [Slots -> Stream]]
       /\ kernel' \in [Consoles -> [Fds -> End]]
  <2>1. /\ [streams[c] EXCEPT ![k] = s] \in [Slots -> Stream]
        /\ [kernel[c] EXCEPT ![fd] = e] \in [Fds -> End]
    BY <1>14 DEF ConsoleIs
  <2> QED
    BY <1>1, <1>15, <2>1 DEF Types
<1>21. dialled' \in [Consoles -> [GameFds -> 0 .. MaxConnects]]
  BY <1>1, <1>2, <1>4 DEF Types
<1>22. Types'
  BY <1>1, <1>2, <1>4, <1>9, <1>17, <1>20, <1>21 DEF Types
<1>23. NoCrossTalk'
  BY <1>1, <1>2 DEF NoCrossTalk
<1>25. Names(F, G, <<c, nextId[c]>>, opened + 1)
  BY <1>8 DEF Names, i, n
<1> QED
  BY <1>19, <1>22, <1>23, <1>25 DEF Good

\* An id that is spent on nothing.
LEMMA RedirectFailsKeeps ==
    ASSUME NEW F, Good(F), NEW c \in Consoles, NEW f, RedirectFails(c, f)
    PROVE  Good(F)'
<1>1. Types /\ NoCrossTalk /\ Consistent(F)
  BY DEF Good
<1>2. /\ nextId[c] <= MaxIds /\ nextId' = [nextId EXCEPT ![c] = nextId[c] + 1]
      /\ UNCHANGED <<streams, running, polled, kernel, dialled, wire, opened, wrote, got>>
  BY DEF RedirectFails
<1>3. /\ nextId' \in [Consoles -> 1 .. MaxIds + 1]
      /\ \A d \in Consoles : nextId[d] <= nextId'[d]
      /\ \A d \in Consoles : nextId[d] \in Nat /\ nextId'[d] \in Nat
  BY <1>1, <1>2, TunnelAssumption DEF Types
<1>4. ASSUME NEW key, Issued(key, nextId) PROVE Issued(key, nextId') /\ F[key] = F[key]
  <2>1. key[1] \in Consoles /\ key[2] \in Nat
    BY <1>4, TunnelAssumption DEF Issued, Ids
  <2> QED
    BY <1>3, <1>4, <2>1 DEF Issued
<1>5. \A d \in Consoles : \A tab, kern :
         ConsoleIs(F, nextId, d, tab, kern) => ConsoleIs(F, nextId', d, tab, kern)
  BY <1>4, RenameKeeps
<1>6. \A d \in Consoles : \A g : FrameIs(F, nextId, d, g) => FrameIs(F, nextId', d, g)
  BY <1>4, RenameKeeps
<1>7. Consistent(F)'
  BY <1>1, <1>2, <1>5, <1>6 DEF Consistent
<1> QED
  BY <1>1, <1>2, <1>3, <1>7 DEF Good, Types, NoCrossTalk

\* A frame that arrives is as it should be.
LEMMA ArrivalIsGood ==
    ASSUME NEW F, Good(F), NEW c \in Consoles, NEW f \in wire[c]
    PROVE  f.to = c /\ FrameIs(F, nextId, c, f)
BY DEF Good, Consistent, FrameIs

\* A frame that is ignored.
LEMMA IgnoredKeeps ==
    ASSUME NEW F, Good(F), Ignored, UNCHANGED <<nextId, running, polled, dialled, opened, wrote>>
    PROVE  Good(F)'
<1>1. UNCHANGED <<streams, kernel, nextId, wire, got, wrote, opened, running, polled, dialled>>
  BY DEF Ignored
<1> QED
  BY <1>1, IdleKeeps DEF Good, Types

\* OnOpen enters a stream, or refuses it, under the id in the frame.
LEMMA OnOpenKeeps ==
    ASSUME NEW F, Good(F), NEW c \in Consoles, NEW f \in wire[c], OnOpen(f)
    PROVE  Good(F)'
<1> DEFINE s == [Free EXCEPT !.used = TRUE, !.id = f.id, !.peer = f.from]
           fd == NewFd(c)
           k == First(Unused(c))
           u == [s EXCEPT !.sock = fd]
           e == [conn |-> f.conn, game |-> "open", in |-> <<>>]
           refusal == Frame(c, s, "close", 0, <<>>)
<1>1. Types /\ NoCrossTalk /\ Consistent(F)
  BY DEF Good
<1>2. f.to = c /\ FrameIs(F, nextId, c, f)
  BY ArrivalIsGood
<1>3. /\ f.type = "open"
      /\ UNCHANGED <<nextId, running, polled, dialled, opened, wrote>>
      /\ \/ Ignored
         \/ /\ Unused(c) # {} /\ UNCHANGED got
            /\ \/ /\ UnusedFds(c) # {}
                  /\ streams' = [streams EXCEPT ![c][k] = u]
                  /\ kernel' = [kernel EXCEPT ![c][fd] = e]
                  /\ wire' = wire
               \/ /\ wire' = Carried(<<refusal>>)
                  /\ UNCHANGED <<streams, kernel>>
  BY <1>2 DEF OnOpen, Received
<1>4. /\ f \in FrameSet /\ f.from \in Consoles \ {c} /\ f.id \in Ids
      /\ f.owner = "sender" /\ f.conn # 0 /\ f.conn = F[FrameKey(f)]
      /\ FrameKey(f) = <<f.from, f.id>> /\ Issued(<<f.from, f.id>>, nextId)
      /\ f.conn \in 0 .. MaxConnects
  BY <1>2, <1>3 DEF FrameIs, FrameKey, FrameSet
<1>5. /\ s \in Stream /\ s.used /\ ~s.originator /\ s.id = f.id /\ s.peer = f.from
      /\ s.listener = NoFd /\ s.sock = NoFd /\ s.pending = <<>>
  <2>1. /\ Free \in Stream /\ Free.originator = FALSE
        /\ Free.listener = NoFd /\ Free.sock = NoFd /\ Free.pending = <<>>
    BY TunnelAssumption, EmptySeq DEF Free, Stream, NoFd
  <2>2. f.id \in 0 .. MaxIds
    BY <1>4, TunnelAssumption DEF Ids
  <2> QED
    BY <1>4, <2>1, <2>2 DEF Stream
<1> HIDE DEF s
<1>6. CASE Ignored
  BY <1>3, <1>6, IgnoredKeeps
<1>7. CASE /\ Unused(c) # {} /\ UnusedFds(c) # {} /\ UNCHANGED got
           /\ streams' = [streams EXCEPT ![c][k] = u]
           /\ kernel' = [kernel EXCEPT ![c][fd] = e]
           /\ wire' = wire
  <2>1. k \in Slots /\ ~streams[c][k].used /\ fd \in Fds /\ kernel[c][fd] = Shut
    BY <1>7, NewIsFree
  <2> HIDE DEF k, fd
  <2>2. /\ u \in Stream /\ u.used /\ ~u.originator /\ u.id = f.id /\ u.peer = f.from
        /\ u.listener = NoFd /\ u.sock = fd /\ u.pending = <<>>
    BY <1>5, <2>1 DEF Stream
  <2> HIDE DEF u
  <2>3. Key(c, u) = <<f.from, f.id>>
    BY <2>2 DEF Key
  <2>4. StreamIs(F, nextId, c, u)
    BY <1>4, <2>2, <2>3, TunnelAssumption DEF StreamIs, Of
  <2>5. /\ e \in End /\ e.conn = f.conn /\ e.in = <<>>
    BY <1>4, EmptySeq DEF End
  <2> HIDE DEF e
  <2>6. EndIs(c, e) /\ e.conn # 0 /\ e.conn = F[Key(c, u)]
    BY <1>4, <2>3, <2>5 DEF EndIs, Of
  <2>7. ConsoleIs(F, nextId, c, streams[c], kernel[c])
    BY <1>1 DEF Consistent
  <2>8. ConsoleIs(F, nextId, c, [streams[c] EXCEPT ![k] = u], [kernel[c] EXCEPT ![fd] = e])
    BY <2>1, <2>2, <2>4, <2>5, <2>6, <2>7, TakeKeeps
  <2>9. /\ streams' = [streams EXCEPT ![c] = [streams[c] EXCEPT ![k] = u]]
        /\ kernel' = [kernel EXCEPT ![c] = [kernel[c] EXCEPT ![fd] = e]]
    BY <1>7
  <2>10. \A d \in Consoles : \A g \in wire'[d] :
            g \in wire[d] \/ FrameIs(F, nextId, d, g)
    BY <1>2, <1>7
  <2>11. /\ Consistent(F)'
         /\ streams' \in [Consoles -> [Slots -> Stream]]
         /\ kernel' \in [Consoles -> [Fds -> End]]
    BY <1>1, <1>3, <2>8, <2>9, <2>10, ConsoleStep
  <2> QED
    BY <1>1, <1>2, <1>3, <1>7, <2>11 DEF Good, Types, NoCrossTalk
<1>8. CASE /\ UNCHANGED <<streams, kernel, got>>
           /\ wire' = Carried(<<refusal>>)
  <2>1. <<>> \in Seq(Chunk) /\ "close" \in {"data", "close"} /\ "close" # "data"
    OBVIOUS
  <2>2. Key(c, s) = <<f.from, f.id>>
    BY <1>5 DEF Key
  <2>3. StreamIs(F, nextId, c, s)
    BY <1>4, <1>5, <2>2, TunnelAssumption DEF StreamIs, Of
  <2>4. /\ Frame(c, s, "close", 0, <<>>) \in FrameSet
        /\ FrameIs(F, nextId, s.peer, Frame(c, s, "close", 0, <<>>))
    BY <1>5, <2>1, <2>3, FrameOfStream
  <2>5. refusal \in FrameSet /\ FrameIs(F, nextId, refusal.to, refusal)
    BY <2>4 DEF Frame
  <2> HIDE DEF refusal
  <2>6. /\ WireType(wire')
        /\ \A d \in Consoles : \A g \in wire'[d] :
              g \in wire[d] \/ FrameIs(F, nextId, d, g)
    <3>1. WireType(wire)
      BY <1>1 DEF Types
    <3> QED
      BY <1>2, <1>8, <2>5, <3>1, SendsOne
  <2>7. Consistent(F)'
    BY <1>1, <1>3, <1>8, <2>6, RelayStep
  <2> QED
    BY <1>1, <1>3, <1>8, <2>6, <2>7 DEF Good, Types, NoCrossTalk
<1> QED
  BY <1>3, <1>6, <1>7, <1>8

\* The stream that a frame is about is of the id the frame names.
LEMMA TargetIsOf ==
    ASSUME NEW F, Good(F), NEW c \in Consoles, NEW f, f.to = c, FrameIs(F, nextId, c, f),
           NEW k \in Target(f)
    PROVE  /\ k \in Slots /\ streams[c][k].used
           /\ Key(c, streams[c][k]) = FrameKey(f) /\ streams[c][k].peer = f.from
<1>1. /\ k \in Slots /\ streams[c][k].used /\ streams[c][k].id = f.id
      /\ streams[c][k].peer = f.from
      /\ streams[c][k].originator = (f.owner = "receiver")
  BY DEF Target, FindById
<1>2. f.owner \in {"sender", "receiver"}
  BY DEF FrameIs, FrameSet
<1>3. Key(c, streams[c][k]) = FrameKey(f)
  <2>1. CASE f.owner = "sender"
    BY <1>1, <2>1 DEF Key, FrameKey
  <2>2. CASE f.owner = "receiver"
    BY <1>1, <2>2 DEF Key, FrameKey
  <2> QED
    BY <1>2, <2>1, <2>2
<1> QED
  BY <1>1, <1>3

\* What a stream holds back may grow by what a frame carries to it, if it finds room.
LEMMA GrowKeeps ==
    ASSUME NEW F, Good(F), NEW c \in Consoles, NEW f, f.to = c, FrameIs(F, nextId, c, f),
           f.type = "data", NEW k \in Target(f),
           ~(Len(streams[c][k].pending) + Len(f.data) > PendingMax)
    PROVE  ConsoleIs(F, nextId, c, With(c, k, f.data), kernel[c])
<1>0. /\ k \in Slots /\ streams[c][k].used
      /\ Key(c, streams[c][k]) = FrameKey(f) /\ streams[c][k].peer = f.from
  BY TargetIsOf
<1> DEFINE tab == streams[c]
           old == tab[k].pending
           data == f.data
           p == [l \in Slots |-> IF l = k THEN old \o data ELSE tab[l].pending]
<1>1. ConsoleIs(F, nextId, c, tab, kernel[c])
  BY DEF Good, Consistent
<1>2. tab \in [Slots -> Stream] /\ \A l \in Slots : StreamIs(F, nextId, c, tab[l])
  BY <1>1 DEF ConsoleIs
<1>3. /\ old \in Seq(Chunk) /\ data \in Seq(Chunk)
      /\ Of(old, F[FrameKey(f)], f.from) /\ Of(data, F[FrameKey(f)], f.from)
  BY <1>0, <1>2 DEF StreamIs, Stream, FrameIs, FrameSet
<1>4. ~(Len(old) + Len(data) > PendingMax)
  OBVIOUS
<1>5. p \in [Slots -> Seq(Chunk)]
  <2>1. old \o data \in Seq(Chunk)
    BY <1>3, ConcatProperties
  <2> QED
    BY <1>2, <2>1 DEF Stream
<1>6. /\ Len(old \o data) <= PendingMax
      /\ Of(old \o data, F[FrameKey(f)], f.from)
  <2> HIDE DEF old, data
  <2>1. Len(old) \in Nat /\ Len(data) \in Nat /\ Len(old \o data) = Len(old) + Len(data)
    BY <1>3
  <2>2. Len(old \o data) <= PendingMax
    BY <1>4, <2>1, TunnelAssumption
  <2>3. Of(old \o data, F[FrameKey(f)], f.from)
    BY <1>3, ConcatProperties DEF Of
  <2> QED
    BY <2>2, <2>3
<1>7. ASSUME NEW l \in Slots
      PROVE  /\ Len(p[l]) <= PendingMax
             /\ ~tab[l].used => p[l] = tab[l].pending
             /\ tab[l].used => Of(p[l], F[Key(c, tab[l])], tab[l].peer)
  <2>1. CASE l = k
    BY <1>0, <1>6, <2>1
  <2>2. CASE l # k
    BY <1>2, <2>2 DEF StreamIs
  <2> QED
    BY <2>1, <2>2
<1>8. With(c, k, data) = [l \in Slots |-> [tab[l] EXCEPT !.pending = p[l]]]
  <2> DEFINE new == [l \in Slots |-> [tab[l] EXCEPT !.pending = p[l]]]
             with == [tab EXCEPT ![k].pending = old \o data]
  <2>1. With(c, k, data) = with
    BY DEF With
  <2>2. with \in [Slots -> Stream] /\ new \in [Slots -> Stream]
    <3>1. old \o data \in Seq(Chunk)
      BY <1>3, ConcatProperties
    <3> DEFINE more == old \o data
    <3>2. more \in Seq(Chunk)
      BY <3>1
    <3>3. with = [tab EXCEPT ![k].pending = more]
      OBVIOUS
    <3> HIDE DEF more, p, tab
    <3>4. [tab EXCEPT ![k].pending = more] \in [Slots -> Stream]
      BY <1>2, <3>2 DEF Stream
    <3>5. new \in [Slots -> Stream]
      BY <1>2, <1>5 DEF Stream
    <3> QED
      BY <3>3, <3>4, <3>5
  <2>3. ASSUME NEW l \in Slots PROVE with[l] = new[l]
    <3>1. CASE l = k
      BY <1>2, <3>1
    <3>2. CASE l # k
      <4>1. with[l] = tab[l] /\ new[l] = [tab[l] EXCEPT !.pending = tab[l].pending]
        BY <1>2, <3>2
      <4>2. tab[l] \in Stream
        BY <1>2
      <4> QED
        BY <4>1, <4>2 DEF Stream
    <3> QED
      BY <3>1, <3>2
  <2> HIDE DEF with, new
  <2>4. with = new
    BY <2>2, <2>3
  <2> QED
    BY <2>1, <2>4 DEF new
<1> HIDE DEF p, tab
<1>9. ConsoleIs(F, nextId, c, With(c, k, data), kernel[c])
  BY <1>1, <1>5, <1>7, <1>8, HoldBackKeeps
<1> QED
  BY <1>9

\* OnData gives the bytes to the stream of the frame's id, holds them back or hangs up.
LEMMA OnDataKeeps ==
    ASSUME NEW F, Good(F), NEW c \in Consoles, NEW f \in wire[c], OnData(f)
    PROVE  Good(F)'
<1>1. f.to = c /\ FrameIs(F, nextId, c, f)
  BY ArrivalIsGood
<1>2. f.type = "data" /\ UNCHANGED <<nextId, running, polled, dialled, opened, wrote>>
  BY DEF OnData, Received
<1>3. polled' \in Polls
  BY <1>2 DEF Good, Types
<1>4. CASE Ignored
  BY <1>2, <1>4, IgnoredKeeps
<1>5. ASSUME NEW k \in Target(f),
             IF Len(streams[c][k].pending) + Len(f.data) > PendingMax
             THEN HangUp(c, k)
             ELSE FlushPending(c, {k}, With(c, k, f.data), kernel[c])
      PROVE  Good(F)'
  <2>1. /\ k \in Slots /\ streams[c][k].used
        /\ Key(c, streams[c][k]) = FrameKey(f) /\ streams[c][k].peer = f.from
    BY <1>1, TargetIsOf
  <2>2. CASE Len(streams[c][k].pending) + Len(f.data) > PendingMax
    <3>1. HangUp(c, k)
      BY <1>5, <2>2
    <3> QED
      BY <1>1, <1>2, <1>3, <2>1, <3>1, HangUpKeeps
  <2>3. CASE ~(Len(streams[c][k].pending) + Len(f.data) > PendingMax)
    <3>1. FlushPending(c, {k}, With(c, k, f.data), kernel[c])
      BY <1>5, <2>3
    <3>2. ConsoleIs(F, nextId, c, With(c, k, f.data), kernel[c])
      BY <1>1, <1>2, <2>3, GrowKeeps
    <3>3. {k} \in SUBSET Slots
      BY <2>1
    <3> QED
      BY <1>1, <1>2, <1>3, <3>1, <3>2, <3>3, FlushIsGood
  <2> QED
    BY <2>2, <2>3
<1> QED
  BY <1>1, <1>4, <1>5 DEF OnData

\* OnClose releases the stream.
LEMMA OnCloseKeeps ==
    ASSUME NEW F, Good(F), NEW c \in Consoles, NEW f \in wire[c], OnClose(f)
    PROVE  Good(F)'
<1>1. f.to = c /\ FrameIs(F, nextId, c, f)
  BY ArrivalIsGood
<1>2. UNCHANGED <<nextId, running, polled, dialled, opened, wrote>>
  BY DEF OnClose, Received
<1>3. polled' \in Polls
  BY <1>2 DEF Good, Types
<1>4. CASE Ignored
  BY <1>2, <1>4, IgnoredKeeps
<1>5. ASSUME NEW k \in Target(f), Release(c, k), wire' = wire
      PROVE  Good(F)'
  <2>1. k \in Slots
    BY <1>1, TargetIsOf
  <2>2. WireType(wire') /\ \A d \in Consoles : \A g \in wire'[d] :
            g \in wire[d] \/ FrameIs(F, nextId, d, g)
    BY <1>5 DEF Good, Types, WireType
  <2> QED
    BY <1>2, <1>3, <1>5, <2>1, <2>2, ReleaseKeeps
<1> QED
  BY <1>1, <1>4, <1>5 DEF OnClose

\* An event that is served, or dropped, leaves the pump well-formed.
LEMMA ServedPolls ==
    ASSUME Types, NEW c \in Consoles, NEW e, Served(c, e)
    PROVE  /\ e.slot \in Slots /\ e.listens \in BOOLEAN /\ e.fd \in Fds /\ e.fd # NoFd
           /\ polled' \in Polls
           /\ UNCHANGED <<nextId, running, dialled, opened, wrote>>
<1> DEFINE rest == polled[c].of \ {e}
           p == [pc |-> IF rest = {} THEN "collect" ELSE "serve", of |-> rest]
           Event == [slot: Slots, listens: BOOLEAN, fd: Fds, event: {"none", "in", "hup"}]
           Poll == [pc: {"collect", "poll", "serve"}, of: SUBSET Event]
<1>1. e \in polled[c].of /\ polled' = [polled EXCEPT ![c] = p]
      /\ UNCHANGED <<nextId, running, dialled, opened, wrote>>
  BY DEF Served, Pump
<1>2. polled \in [Consoles -> Poll]
  BY DEF Types, Polls
<1>3. polled[c].of \in SUBSET Event
  BY <1>2
<1>4. p \in Poll
  BY <1>3
<1> HIDE DEF p, Poll
<1>5. polled' \in [Consoles -> Poll]
  BY <1>1, <1>2, <1>4
<1>6. e \in Event
  BY <1>1, <1>3
<1> QED
  BY <1>1, <1>5, <1>6, TunnelAssumption DEF Poll, Polls, Fds, NoFd

\* The pump accepts the redirected connect: the socket takes the listener's place.
LEMMA PumpAcceptsKeeps ==
    ASSUME NEW F, Good(F), NEW c \in Consoles, PumpAccepts(c)
    PROVE  Good(F)'
<1>1. Types /\ Consistent(F) /\ WireType(wire)
  BY DEF Good, Types
<1>2. PICK e \in polled[c].of :
        /\ Served(c, e) /\ Owns(c, e) /\ e.listens
        /\ UnusedFds(c) # {}
        /\ FlushPending(c, {e.slot},
               [streams[c] EXCEPT ![e.slot].listener = NoFd, ![e.slot].sock = NewFd(c)],
               [kernel[c] EXCEPT ![e.fd] = Shut, ![NewFd(c)] = kernel[c][e.fd]])
  BY DEF PumpAccepts
<1> DEFINE k == e.slot
           old == e.fd
           fd == NewFd(c)
           t == [streams[c] EXCEPT ![k].listener = NoFd, ![k].sock = fd]
           r == [kernel[c] EXCEPT ![old] = Shut, ![fd] = kernel[c][old]]
<1>3. /\ k \in Slots /\ old \in Fds /\ polled' \in Polls
      /\ UNCHANGED <<nextId, running, dialled, opened, wrote>>
  BY <1>1, <1>2, ServedPolls
<1>4. streams[c][k].listener = old
  BY <1>2 DEF Owns
<1>5. fd \in Fds /\ kernel[c][fd] = Shut
  BY <1>2, NewIsFree
<1>6. ConsoleIs(F, nextId, c, streams[c], kernel[c])
  BY <1>1 DEF Consistent
<1>7. FlushPending(c, {k}, t, r)
  BY <1>2
<1> HIDE DEF k, old, fd
<1>8. ConsoleIs(F, nextId, c, t, r)
  BY <1>3, <1>4, <1>5, <1>6, AcceptKeeps
<1>9. {k} \in SUBSET Slots
  BY <1>3
<1> HIDE DEF t, r
<1> QED
  BY <1>1, <1>3, <1>7, <1>8, <1>9, FlushIsGood

\* The pump ends the stream of a socket that failed.
LEMMA PumpHangsUpKeeps ==
    ASSUME NEW F, Good(F), NEW c \in Consoles, PumpHangsUp(c)
    PROVE  Good(F)'
<1>1. Types /\ Consistent(F) /\ WireType(wire)
  BY DEF Good, Types
<1>2. PICK e \in polled[c].of :
        Served(c, e) /\ Owns(c, e) /\ ~e.listens /\ HangUp(c, e.slot)
  BY DEF PumpHangsUp
<1>3. /\ e.slot \in Slots /\ e.fd # NoFd /\ polled' \in Polls
      /\ UNCHANGED <<nextId, running, dialled, opened, wrote>>
  BY <1>1, <1>2, ServedPolls
<1>4. streams[c][e.slot].sock # NoFd
  BY <1>2, <1>3 DEF Owns
<1>5. streams[c][e.slot].used
  BY <1>1, <1>3, <1>4 DEF Consistent, ConsoleIs, StreamIs, Free
<1> QED
  BY <1>1, <1>2, <1>3, <1>5, HangUpKeeps

\* What the pump reads is the first chunk of the connection that its stream is of.
LEMMA PumpReadsKeeps ==
    ASSUME NEW F, Good(F), NEW c \in Consoles, PumpReads(c)
    PROVE  Good(F)'
<1>1. Types /\ NoCrossTalk /\ Consistent(F) /\ WireType(wire)
  BY DEF Good, Types
<1>2. PICK e \in polled[c].of :
        /\ Served(c, e) /\ Owns(c, e) /\ ~e.listens
        /\ IF kernel[c][e.fd].in # <<>>
           THEN /\ kernel' = [kernel EXCEPT ![c][e.fd].in = Tail(kernel[c][e.fd].in)]
                /\ wire' = Carried(<<Frame(c, streams[c][e.slot], "data", 0,
                                                 <<Head(kernel[c][e.fd].in)>>)>>)
           ELSE UNCHANGED <<kernel, wire>>
        /\ UNCHANGED <<streams, got>>
  BY DEF PumpReads
<1> DEFINE s == streams[c][e.slot]
           d == kernel[c][e.fd]
           in == d.in
           chunk == <<Head(in)>>
           f == Frame(c, s, "data", 0, chunk)
<1>3. /\ e.slot \in Slots /\ e.fd \in Fds /\ e.fd # NoFd /\ polled' \in Polls
      /\ UNCHANGED <<nextId, running, dialled, opened, wrote>>
  BY <1>1, <1>2, ServedPolls
<1>4. ConsoleIs(F, nextId, c, streams[c], kernel[c])
  BY <1>1 DEF Consistent
<1>5. s.sock = e.fd
  BY <1>2 DEF Owns
<1>6. /\ s \in Stream /\ s.used /\ StreamIs(F, nextId, c, s)
      /\ d \in End /\ d.conn = F[Key(c, s)] /\ d.conn # 0 /\ EndIs(c, d)
  BY <1>3, <1>4, <1>5 DEF ConsoleIs, StreamIs, FdIs, Free
<1>7. CASE in = <<>>
  <2>1. UNCHANGED <<kernel, wire, streams, got>>
    BY <1>2, <1>7
  <2>2. polled' \in Polls /\ UNCHANGED <<running, dialled>> /\ UNCHANGED <<nextId, wrote, opened>>
    BY <1>3
  <2>3. /\ running' \in [Consoles -> {"on", "stopping", "off"}]
        /\ dialled' \in [Consoles -> [GameFds -> 0 .. MaxConnects]]
    BY <1>1, <2>2 DEF Types
  <2> QED
    BY <2>1, <2>2, <2>3, IdleKeeps
<1>8. CASE in # <<>>
  <2>1. in \in Seq(Chunk) /\ Of(in, d.conn, c)
    BY <1>6 DEF End, EndIs
  <2> HIDE DEF s, in
  <2>2. /\ Head(in) \in Chunk /\ Head(in).conn = d.conn /\ Head(in).from = c
        /\ Tail(in) \in Seq(Chunk)
        /\ \A j \in DOMAIN Tail(in) : j + 1 \in DOMAIN in /\ Tail(in)[j] = in[j + 1]
    <3>1. 1 \in DOMAIN in /\ Head(in) = in[1]
      BY <1>8, <2>1
    <3>2. /\ Tail(in) \in Seq(Chunk)
          /\ \A j \in DOMAIN Tail(in) : j + 1 \in DOMAIN in /\ Tail(in)[j] = in[j + 1]
      BY <1>8, <2>1
    <3> QED
      BY <1>8, <2>1, <3>1, <3>2, HeadTailProperties DEF Of
  <2>3. chunk \in Seq(Chunk) /\ Len(chunk) = 1 /\ Of(chunk, F[Key(c, s)], c)
    BY <1>6, <2>2 DEF Of
  <2>4. f \in FrameSet /\ FrameIs(F, nextId, f.to, f)
    <3>1. "data" \in {"data", "close"}
      OBVIOUS
    <3> HIDE DEF chunk
    <3>2. /\ Frame(c, s, "data", 0, chunk) \in FrameSet
          /\ FrameIs(F, nextId, s.peer, Frame(c, s, "data", 0, chunk))
      BY <1>6, <2>3, <3>1, FrameOfStream
    <3> QED
      BY <3>2 DEF Frame
  <2> DEFINE new == [d EXCEPT !.in = Tail(in)]
  <2>5. new \in End /\ new.conn = d.conn /\ new.in = Tail(in) /\ EndIs(c, new)
    <3>1. new \in End /\ new.conn = d.conn /\ new.in = Tail(in)
      BY <1>6, <2>2 DEF End
    <3>2. Of(Tail(in), d.conn, c)
      BY <2>1, <2>2 DEF Of
    <3> HIDE DEF new, d
    <3> QED
      BY <1>6, <3>1, <3>2 DEF EndIs
  <2> DEFINE ends == [kernel[c] EXCEPT ![e.fd] = new]
  <2>6. kernel' = [kernel EXCEPT ![c] = ends] /\ wire' = Carried(<<f>>)
    BY <1>2, <1>8 DEF s, in
  <2>7. streams' = [streams EXCEPT ![c] = streams[c]]
    BY <1>1, <1>2 DEF Types
  <2> HIDE DEF new, f
  <2>8. ConsoleIs(F, nextId, c, streams[c], ends)
    BY <1>3, <1>4, <2>5, EndKeeps
  <2>10. /\ WireType(wire')
         /\ \A b \in Consoles : \A g \in wire'[b] :
               g \in wire[b] \/ FrameIs(F, nextId, b, g)
    BY <1>1, <2>4, <2>6, SendsOne
  <2> HIDE DEF ends
  <2>11. /\ Consistent(F)'
         /\ streams' \in [Consoles -> [Slots -> Stream]]
         /\ kernel' \in [Consoles -> [Fds -> End]]
    BY <1>1, <1>3, <2>6, <2>7, <2>8, <2>10, ConsoleStep
  <2> QED
    BY <1>1, <1>2, <1>3, <2>10, <2>11 DEF Good, Types, NoCrossTalk
<1> QED
  BY <1>7, <1>8

\* The steps of the pump that touch no stream, and the one that flushes them all.
LEMMA PumpRestKeeps ==
    ASSUME NEW F, Good(F), NEW c \in Consoles,
           PumpCollects(c) \/ PumpPolls(c) \/ PumpFlushes(c) \/ PumpSkips(c)
    PROVE  Good(F)'
<1>1. Types /\ Consistent(F) /\ WireType(wire)
  BY DEF Good, Types
<1> DEFINE Event == [slot: Slots, listens: BOOLEAN, fd: Fds, event: {"none", "in", "hup"}]
           Poll == [pc: {"collect", "poll", "serve"}, of: SUBSET Event]
<1>2. polled \in [Consoles -> Poll]
  BY <1>1 DEF Types, Polls
<1>3. ASSUME NEW p \in Poll, polled' = [polled EXCEPT ![c] = p] PROVE polled' \in Polls
  <2> HIDE DEF Poll
  <2>1. polled' \in [Consoles -> Poll]
    BY <1>2, <1>3
  <2> QED
    BY <2>1 DEF Poll, Polls
<1>4. ASSUME polled' \in Polls, UNCHANGED <<streams, kernel, wire, got>>,
             UNCHANGED <<nextId, running, dialled, opened, wrote>>
      PROVE  Good(F)'
  BY <1>1, <1>4, IdleKeeps DEF Types
<1>5. CASE PumpCollects(c)
  <2> DEFINE Entry(k, l, d) == [slot |-> k, listens |-> l, fd |-> d, event |-> "none"]
             all == {Entry(k, TRUE, streams[c][k].listener) : k \in Slots}
                        \cup {Entry(k, FALSE, streams[c][k].sock) : k \in Slots}
             used == {e \in all : e.fd # NoFd}
             p == [pc |-> "poll", of |-> used]
  <2>1. /\ polled' = [polled EXCEPT ![c] = p]
        /\ UNCHANGED <<streams, kernel, wire, got>>
        /\ UNCHANGED <<nextId, running, dialled, opened, wrote>>
    BY <1>5 DEF PumpCollects, Pump
  <2>2. \A k \in Slots : streams[c][k].listener \in Fds \cup {NoFd}
                         /\ streams[c][k].sock \in Fds \cup {NoFd}
    BY <1>1 DEF Types, Stream
  <2>3. ASSUME NEW k \in Slots, NEW l \in BOOLEAN, NEW d \in Fds PROVE Entry(k, l, d) \in Event
    OBVIOUS
  <2>3a. used \subseteq Event
    <3> HIDE DEF Event
    <3> SUFFICES ASSUME NEW e \in used PROVE e \in Event
      OBVIOUS
    <3>1. PICK k \in Slots, l \in BOOLEAN : \/ e = Entry(k, l, streams[c][k].listener)
                                           \/ e = Entry(k, l, streams[c][k].sock)
      OBVIOUS
    <3>2. e.fd # NoFd
      OBVIOUS
    <3>3. \/ streams[c][k].listener # NoFd /\ e = Entry(k, l, streams[c][k].listener)
          \/ streams[c][k].sock # NoFd /\ e = Entry(k, l, streams[c][k].sock)
      BY <3>1, <3>2
    <3> HIDE DEF Entry, used, all
    <3> QED
      BY <2>2, <2>3, <3>3
  <2>4. p \in Poll
    BY <2>3a
  <2> HIDE DEF p
  <2> QED
    BY <1>3, <1>4, <2>1, <2>4
<1>6. CASE PumpPolls(c)
  <2> DEFINE found == {[e EXCEPT !.event = Ready(c, e)] : e \in polled[c].of}
             ready == {e \in found : e.event # "none"}
             p == [pc |-> "serve", of |-> ready]
  <2>1. /\ polled' = [polled EXCEPT ![c] = p]
        /\ UNCHANGED <<streams, kernel, wire, got>>
        /\ UNCHANGED <<nextId, running, dialled, opened, wrote>>
    BY <1>6 DEF PumpPolls, Pump
  <2>2. \A e : Ready(c, e) \in {"none", "in", "hup"}
    BY DEF Ready
  <2>3. polled[c].of \subseteq Event
    BY <1>2
  <2>4. ASSUME NEW e \in Event, NEW v \in {"none", "in", "hup"} PROVE [e EXCEPT !.event = v] \in Event
    OBVIOUS
  <2>5. found \subseteq Event
    <3> HIDE DEF Event
    <3> QED
      BY <2>2, <2>3, <2>4
  <2>6. p \in Poll
    BY <2>5
  <2> HIDE DEF p
  <2> QED
    BY <1>3, <1>4, <2>1, <2>6
<1>7. CASE PumpFlushes(c)
  <2> DEFINE p == [pc |-> "collect", of |-> {}]
  <2>1. /\ polled' = [polled EXCEPT ![c] = p]
        /\ FlushPending(c, Slots, streams[c], kernel[c])
        /\ UNCHANGED <<nextId, running, dialled, opened, wrote>>
    BY <1>7 DEF PumpFlushes, Pump
  <2>2. p \in Poll
    OBVIOUS
  <2> HIDE DEF p
  <2>3. polled' \in Polls
    BY <1>3, <2>1, <2>2
  <2>4. ConsoleIs(F, nextId, c, streams[c], kernel[c]) /\ Slots \in SUBSET Slots
    BY <1>1 DEF Consistent
  <2> QED
    BY <1>1, <2>1, <2>3, <2>4, FlushIsGood
<1>8. CASE PumpSkips(c)
  <2>1. PICK e : Served(c, e) /\ UNCHANGED <<streams, kernel, wire, got>>
    BY <1>8 DEF PumpSkips
  <2>2. polled' \in Polls /\ UNCHANGED <<nextId, running, dialled, opened, wrote>>
    BY <1>1, <2>1, ServedPolls
  <2> QED
    BY <1>4, <2>1, <2>2
<1> QED
  BY <1>5, <1>6, <1>7, <1>8

\* The start and the end of the thread, with the whole table.
LEMMA ThreadKeeps ==
    ASSUME NEW F, Good(F), NEW c \in Consoles, Start(c) \/ Stop(c) \/ Stopped(c)
    PROVE  Good(F)'
<1>1. Types /\ Consistent(F) /\ ConsoleIs(F, nextId, c, streams[c], kernel[c])
  BY DEF Good, Consistent
<1>2. /\ streams \in [Consoles -> [Slots -> Stream]] /\ kernel \in [Consoles -> [Fds -> End]]
      /\ running \in [Consoles -> {"on", "stopping", "off"}] /\ polled \in Polls
      /\ dialled \in [Consoles -> [GameFds -> 0 .. MaxConnects]]
      /\ wrote \in [Conns -> [Consoles -> 0 .. MaxChunks]]
  BY <1>1 DEF Types
<1> DEFINE empty == [k \in Slots |-> Free]
<1>3. Emptied(streams[c], Slots) = empty
  BY DEF Emptied
<1>4. CASE Start(c)
  <2>1. /\ streams' = [streams EXCEPT ![c] = empty]
        /\ running' = [running EXCEPT ![c] = "on"]
        /\ UNCHANGED <<nextId, polled, kernel, dialled, wire, opened, wrote, got>>
    BY <1>4 DEF Start
  <2>2. ConsoleIs(F, nextId, c, empty, Closed(kernel[c], {}))
    BY <1>1, <1>3, CloseKeeps
  <2>3. Closed(kernel[c], {}) = kernel[c]
    BY <1>2 DEF Closed
  <2>4. kernel' = [kernel EXCEPT ![c] = kernel[c]]
    BY <1>2, <2>1
  <2>5. running' \in [Consoles -> {"on", "stopping", "off"}]
    BY <1>2, <2>1
  <2> HIDE DEF empty
  <2> QED
    BY <1>2, <2>1, <2>2, <2>3, <2>4, <2>5, QuietKeeps
<1>5. CASE Stop(c)
  <2>1. /\ running' = [running EXCEPT ![c] = "stopping"]
        /\ UNCHANGED <<streams, nextId, polled, kernel, dialled, wire, opened, wrote, got>>
    BY <1>5 DEF Stop
  <2>2. running' \in [Consoles -> {"on", "stopping", "off"}]
    BY <1>2, <2>1
  <2> QED
    BY <1>2, <2>1, <2>2, IdleKeeps
<1>6. CASE Stopped(c)
  <2> DEFINE fds == {streams[c][k].listener : k \in Slots} \cup {streams[c][k].sock : k \in Slots}
             kern == Closed(kernel[c], fds)
  <2>1. /\ streams' = [streams EXCEPT ![c] = empty]
        /\ kernel' = [kernel EXCEPT ![c] = kern]
        /\ running' = [running EXCEPT ![c] = "off"]
        /\ UNCHANGED <<nextId, polled, dialled, wire, opened, wrote, got>>
    BY <1>6 DEF Stopped, Shutting, Closed
  <2>2. ConsoleIs(F, nextId, c, empty, kern)
    BY <1>1, <1>3, CloseKeeps
  <2>3. running' \in [Consoles -> {"on", "stopping", "off"}]
    BY <1>2, <2>1
  <2> HIDE DEF empty, kern
  <2> QED
    BY <1>2, <2>1, <2>2, <2>3, QuietKeeps
<1> QED
  BY <1>4, <1>5, <1>6

\* What the games do with their ends.
LEMMA GameKeeps ==
    ASSUME NEW F, Good(F), NEW c \in Consoles, NEW d \in Fds, NEW f,
           GameWrites(c, d) \/ GameCloses(c, d) \/ GameDrops(c, f)
    PROVE  Good(F)'
<1>1. Types /\ Consistent(F) /\ ConsoleIs(F, nextId, c, streams[c], kernel[c])
  BY DEF Good, Consistent
<1>2. /\ streams \in [Consoles -> [Slots -> Stream]] /\ kernel \in [Consoles -> [Fds -> End]]
      /\ running \in [Consoles -> {"on", "stopping", "off"}] /\ polled \in Polls
      /\ dialled \in [Consoles -> [GameFds -> 0 .. MaxConnects]]
      /\ wrote \in [Conns -> [Consoles -> 0 .. MaxChunks]]
  BY <1>1 DEF Types
<1> DEFINE was == kernel[c][d]
           n == was.conn
<1>3. was \in End /\ EndIs(c, was)
  BY <1>1, <1>2 DEF ConsoleIs
<1>4. streams[c] \in [Slots -> Stream] /\ [streams EXCEPT ![c] = streams[c]] = streams
  BY <1>2
<1>5. ASSUME NEW e \in End, EndIs(c, e), e.conn = n,
             kernel' = [kernel EXCEPT ![c] = [kernel[c] EXCEPT ![d] = e]],
             UNCHANGED <<tables, polled, wire, opened, got>>,
             dialled' \in [Consoles -> [GameFds -> 0 .. MaxConnects]],
             wrote' \in [Conns -> [Consoles -> 0 .. MaxChunks]]
      PROVE  Good(F)'
  <2> DEFINE kern == [kernel[c] EXCEPT ![d] = e]
  <2>1. ConsoleIs(F, nextId, c, streams[c], kern)
    BY <1>1, <1>5, EndKeeps
  <2>2. kernel' = [kernel EXCEPT ![c] = kern] /\ streams' = [streams EXCEPT ![c] = streams[c]]
    BY <1>4, <1>5 DEF tables
  <2>3. UNCHANGED <<nextId, running, polled, wire, opened, got>>
    BY <1>5 DEF tables
  <2> HIDE DEF kern
  <2> QED
    BY <1>2, <1>5, <2>1, <2>2, <2>3, QuietKeeps
<1>6. CASE GameWrites(c, d)
  <2> DEFINE w == wrote[n][c] + 1
             chunk == [conn |-> n, from |-> c, k |-> w]
             in == Append(was.in, chunk)
             e == [was EXCEPT !.in = in]
  <2>1. /\ was # Shut /\ wrote[n][c] < MaxChunks
        /\ wrote' = [wrote EXCEPT ![n][c] = wrote[n][c] + 1]
        /\ kernel' = [kernel EXCEPT ![c][d].in = Append(kernel[c][d].in,
                         [conn |-> n, from |-> c, k |-> wrote'[n][c]])]
        /\ UNCHANGED <<tables, polled, dialled, wire, opened, got>>
    BY <1>6 DEF GameWrites
  <2>2. n \in Conns
    BY <1>3, <2>1, TunnelAssumption DEF End, EndIs, Conns
  <2>3. w \in 1 .. MaxChunks /\ wrote' \in [Conns -> [Consoles -> 0 .. MaxChunks]]
        /\ wrote'[n][c] = w
    <3>1. wrote[n][c] \in 0 .. MaxChunks
      BY <1>2, <2>2
    <3>2. w \in 1 .. MaxChunks
      <4> DEFINE before == wrote[n][c]
      <4>1. before \in 0 .. MaxChunks /\ before < MaxChunks /\ MaxChunks \in Nat
        BY <2>1, <3>1, TunnelAssumption
      <4> HIDE DEF before
      <4>2. before + 1 \in 1 .. MaxChunks
        BY <4>1
      <4> QED
        BY <4>2 DEF before
    <3>3. wrote' = [wrote EXCEPT ![n][c] = w]
      BY <2>1
    <3> HIDE DEF w
    <3>4. w \in 0 .. MaxChunks
      BY <3>2
    <3>5. wrote' = [wrote EXCEPT ![n] = [wrote[n] EXCEPT ![c] = w]]
      BY <3>3
    <3>6. wrote[n] \in [Consoles -> 0 .. MaxChunks]
      BY <1>2, <2>2
    <3>7. [wrote[n] EXCEPT ![c] = w] \in [Consoles -> 0 .. MaxChunks]
      BY <3>4, <3>6
    <3>8. wrote' \in [Conns -> [Consoles -> 0 .. MaxChunks]]
      BY <1>2, <3>5, <3>7
    <3>9. wrote'[n][c] = w
      BY <1>2, <2>2, <3>5, <3>6
    <3> QED
      BY <3>2, <3>8, <3>9
  <2>4. chunk \in Chunk
    BY <2>2, <2>3 DEF Chunk
  <2>5. was.in \in Seq(Chunk)
    BY <1>3 DEF End
  <2> HIDE DEF w
  <2>6. in \in Seq(Chunk) /\ Of(in, n, c)
    <3>1. Of(was.in, n, c)
      BY <1>3 DEF EndIs
    <3>2. chunk.conn = n /\ chunk.from = c
      OBVIOUS
    <3> DEFINE before == was.in
               m == n
    <3>3. before \in Seq(Chunk) /\ Of(before, m, c)
      BY <2>5, <3>1
    <3>4. chunk.conn = m /\ chunk.from = c
      BY <3>2
    <3> HIDE DEF chunk, before, m
    <3>5. Append(before, chunk) \in Seq(Chunk) /\ Of(Append(before, chunk), m, c)
      BY <2>4, <3>3, <3>4 DEF Of
    <3> QED
      BY <3>5 DEF before, m
  <2>7. kernel' = [kernel EXCEPT ![c] = [kernel[c] EXCEPT ![d] = e]]
    <3>1. kernel' = [kernel EXCEPT ![c][d].in = in]
      BY <2>1, <2>3
    <3> HIDE DEF in
    <3> QED
      BY <3>1
  <2> HIDE DEF in
  <2>8. e \in End /\ e.in = in /\ e.conn = n
    BY <1>3, <2>6 DEF End
  <2>9. n # 0
    BY <2>2 DEF Conns
  <2>10. EndIs(c, e)
    BY <2>6, <2>8, <2>9 DEF EndIs
  <2> HIDE DEF e
  <2>11. dialled' \in [Consoles -> [GameFds -> 0 .. MaxConnects]]
    BY <1>2, <2>1
  <2> QED
    BY <1>5, <2>1, <2>3, <2>7, <2>8, <2>10, <2>11
<1>7. CASE GameCloses(c, d)
  <2>1. PICK how \in {"closed", "reset"} : kernel' = [kernel EXCEPT ![c][d].game = how]
    BY <1>7 DEF GameCloses
  <2> DEFINE e == [was EXCEPT !.game = how]
             left == [g \in GameFds |-> IF dialled[c][g] = n THEN 0 ELSE dialled[c][g]]
  <2>2. /\ was # Shut
        /\ dialled' = [dialled EXCEPT ![c] = left]
        /\ UNCHANGED <<tables, polled, wire, opened, wrote, got>>
    BY <1>7 DEF GameCloses
  <2>3. e \in End /\ e.in = was.in /\ e.conn = n
    BY <1>3 DEF End
  <2>4. EndIs(c, e)
    BY <1>3, <2>2, <2>3 DEF EndIs
  <2>5. kernel' = [kernel EXCEPT ![c] = [kernel[c] EXCEPT ![d] = e]]
    BY <2>1
  <2>6. left \in [GameFds -> 0 .. MaxConnects]
    BY <1>2, TunnelAssumption
  <2> HIDE DEF left, e
  <2>7. dialled' \in [Consoles -> [GameFds -> 0 .. MaxConnects]]
    BY <1>2, <2>2, <2>6
  <2> QED
    BY <1>2, <1>5, <2>2, <2>3, <2>4, <2>5, <2>7
<1>8. CASE GameDrops(c, f)
  <2>1. /\ dialled' = [dialled EXCEPT ![c][f] = 0]
        /\ UNCHANGED <<tables, polled, kernel, wire, opened, wrote, got>>
    BY <1>8 DEF GameDrops
  <2> DEFINE left == [dialled[c] EXCEPT ![f] = 0]
  <2>2. 0 \in 0 .. MaxConnects /\ dialled[c] \in [GameFds -> 0 .. MaxConnects]
    BY <1>2, TunnelAssumption
  <2>3. left \in [GameFds -> 0 .. MaxConnects]
    BY <2>2
  <2>4. dialled' = [dialled EXCEPT ![c] = left]
    BY <2>1
  <2> HIDE DEF left
  <2>5. dialled' \in [Consoles -> [GameFds -> 0 .. MaxConnects]]
    BY <1>2, <2>3, <2>4
  <2> QED
    BY <1>2, <2>1, <2>5, IdleKeeps DEF tables
<1> QED
  BY <1>6, <1>7, <1>8

-----------------------------------------------------------------------------
(* What arrives: of the chunks that came for a stream its game has received all but *)
(* those the stream holds back.                                                     *)

\* Every connection has one id, and one that is not dialled yet has none.
Numbered(F, last) ==
    /\ \A key \in Consoles \X Ids : F[key] <= last
    /\ \A key, other \in Consoles \X Ids : F[key] = F[other] /\ F[key] # 0 => key = other

Ahead(a, g) == \A j \in DOMAIN g : j \in DOMAIN a /\ g[j] = a[j]

KeptAt(F, c, tab, gt, ar) ==
    /\ \A n \in Conns : Ahead(ar[n][c], gt[n][c])
    /\ \A k \in Slots : \A n \in Conns :
          tab[k].used /\ F[Key(c, tab[k])] = n => ar[n][c] = gt[n][c] \o tab[k].pending
    /\ \A k, l \in Slots :
          tab[k].used /\ tab[l].used /\ Key(c, tab[k]) = Key(c, tab[l]) => k = l

Histories == [Conns -> [Consoles -> Seq(Chunk)]]

Kept(F) ==
    /\ arrived \in Histories
    /\ Numbered(F, opened)
    /\ \A c \in Consoles : KeptAt(F, c, streams[c], got, arrived)

IInv == \E F \in Naming : Good(F) /\ Kept(F)

\* A connection has at most one stream on a console.
LEMMA OneStreamEach ==
    ASSUME NEW F, NEW next, NEW last, NEW c \in Consoles, NEW tab, NEW kern, NEW gt, NEW ar,
           ConsoleIs(F, next, c, tab, kern), Numbered(F, last), KeptAt(F, c, tab, gt, ar),
           NEW k \in Slots, NEW l \in Slots, tab[k].used, tab[l].used,
           F[Key(c, tab[k])] = F[Key(c, tab[l])], F[Key(c, tab[k])] # 0
    PROVE  k = l
<1>1. Key(c, tab[k]) \in Consoles \X Ids /\ Key(c, tab[l]) \in Consoles \X Ids
  BY DEF ConsoleIs, StreamIs, Issued
<1>2. Key(c, tab[k]) = Key(c, tab[l])
  BY <1>1 DEF Numbered
<1> QED
  BY <1>2 DEF KeptAt

\* It does not matter which descriptors a stream has.
LEMMA KeptByOthers ==
    ASSUME NEW F, NEW c, NEW tab, NEW t, NEW gt, NEW ar, KeptAt(F, c, tab, gt, ar),
           \A k \in Slots : t[k].used => /\ tab[k].used /\ t[k].pending = tab[k].pending
                                         /\ Key(c, t[k]) = Key(c, tab[k])
    PROVE  KeptAt(F, c, t, gt, ar)
BY DEF KeptAt

\* Nor what other consoles have received.
LEMMA KeptElsewhere ==
    ASSUME NEW F, NEW c, NEW tab, NEW gt, NEW ar, KeptAt(F, c, tab, gt, ar), NEW g, NEW a,
           \A n \in Conns : g[n][c] = gt[n][c] /\ a[n][c] = ar[n][c]
    PROVE  KeptAt(F, c, tab, g, a)
<1>1. \A n \in Conns : Ahead(a[n][c], g[n][c])
  BY DEF KeptAt
<1>2. \A k \in Slots : \A n \in Conns :
         tab[k].used /\ F[Key(c, tab[k])] = n => a[n][c] = g[n][c] \o tab[k].pending
  BY DEF KeptAt
<1> QED
  BY <1>1, <1>2 DEF KeptAt

\* Streams end.
LEMMA KeptByRest ==
    ASSUME NEW F, NEW c, NEW tab, NEW gone, NEW gt, NEW ar, KeptAt(F, c, tab, gt, ar)
    PROVE  KeptAt(F, c, Emptied(tab, gone), gt, ar)
<1>1. \A k \in Slots : Emptied(tab, gone)[k].used =>
          /\ tab[k].used /\ Emptied(tab, gone)[k].pending = tab[k].pending
          /\ Key(c, Emptied(tab, gone)[k]) = Key(c, tab[k])
  BY DEF Emptied, Free
<1> QED
  BY <1>1, KeptByOthers

\* A step of one console, as far as its streams and games see it.
LEMMA KeptStep ==
    ASSUME NEW F, Good(F), Kept(F), NEW c \in Consoles, NEW t,
           streams' = [streams EXCEPT ![c] = t], opened' = opened,
           arrived' \in Histories, KeptAt(F, c, t, got', arrived'),
           \A n \in Conns : \A d \in Consoles \ {c} :
              got'[n][d] = got[n][d] /\ arrived'[n][d] = arrived[n][d]
    PROVE  Kept(F)'
<1>1. streams \in [Consoles -> [Slots -> Stream]]
  BY DEF Good, Types
<1>2. ASSUME NEW d \in Consoles PROVE KeptAt(F, d, streams'[d], got', arrived')
  <2>1. CASE d = c
    BY <1>1, <2>1
  <2>2. CASE d # c
    <3>1. streams'[d] = streams[d] /\ KeptAt(F, d, streams[d], got, arrived)
      BY <1>1, <2>2 DEF Kept
    <3>2. \A n \in Conns : got'[n][d] = got[n][d] /\ arrived'[n][d] = arrived[n][d]
      BY <2>2
    <3>3. KeptAt(F, d, streams[d], got', arrived')
      BY <3>1, <3>2, KeptElsewhere
    <3> QED
      BY <3>1, <3>3
  <2> QED
    BY <2>1, <2>2
<1>3. Numbered(F, opened')
  BY DEF Kept
<1> QED
  BY <1>2, <1>3 DEF Kept

\* A step that changes no stream, and gives no game anything.
LEMMA KeptIdle ==
    ASSUME NEW F, Kept(F), UNCHANGED <<streams, got, arrived, opened>>
    PROVE  Kept(F)'
BY DEF Kept

\* A stream is released.
LEMMA ReleaseEmpties ==
    ASSUME Types, NEW c \in Consoles, NEW k \in Slots, Release(c, k)
    PROVE  streams' = [streams EXCEPT ![c] = Emptied(streams[c], {k})] /\ got' = got
<1>1. streams[c] \in [Slots -> Stream]
  BY DEF Types
<1>2. Emptied(streams[c], {k}) = [streams[c] EXCEPT ![k] = Free]
  BY <1>1 DEF Emptied
<1> QED
  BY <1>2 DEF Release

\* The others keep what they hold back.
LEMMA ReleaseRetains ==
    ASSUME NEW F, Good(F), Kept(F), NEW c \in Consoles, NEW k \in Slots, Release(c, k),
           UNCHANGED <<opened, arrived>>
    PROVE  Kept(F)'
<1>1. streams' = [streams EXCEPT ![c] = Emptied(streams[c], {k})] /\ got' = got
  BY ReleaseEmpties DEF Good
<1>2. KeptAt(F, c, Emptied(streams[c], {k}), got', arrived')
  BY <1>1, KeptByRest DEF Kept
<1>3. arrived' \in Histories
  BY DEF Kept
<1> QED
  BY <1>1, <1>2, <1>3, KeptStep

\* What has arrived for a stream is begun anew, ...
Begun(ar, c, n, q) == [ar EXCEPT ![n][c] = q]

\* ... for one connection and one console.
LEMMA BegunIs ==
    ASSUME NEW ar \in Histories, NEW c \in Consoles, NEW n \in Conns, NEW q \in Seq(Chunk)
    PROVE  /\ Begun(ar, c, n, q) \in Histories
           /\ Begun(ar, c, n, q)[n][c] = q
           /\ \A m \in Conns, d \in Consoles : m # n \/ d # c => Begun(ar, c, n, q)[m][d] = ar[m][d]
BY DEF Histories, Begun

\* A chunk that comes for a stream goes to the end of what has come for it.
Comes(ar, c, n, ch) == Begun(ar, c, n, Append(ar[n][c], ch))

LEMMA ComesIs ==
    ASSUME NEW ar \in Histories, NEW c \in Consoles, NEW n \in Conns, NEW ch \in Chunk
    PROVE  /\ Comes(ar, c, n, ch) \in Histories
           /\ Comes(ar, c, n, ch)[n][c] = Append(ar[n][c], ch)
           /\ \A m \in Conns, d \in Consoles : m # n \/ d # c => Comes(ar, c, n, ch)[m][d] = ar[m][d]
<1> DEFINE more == Append(ar[n][c], ch)
<1>1. more \in Seq(Chunk)
  <2>1. ar[n][c] \in Seq(Chunk)
    BY DEF Histories
  <2> QED
    BY <2>1
<1>2. Comes(ar, c, n, ch) = Begun(ar, c, n, more)
  BY DEF Comes
<1> HIDE DEF more
<1>3. /\ Begun(ar, c, n, more) \in Histories /\ Begun(ar, c, n, more)[n][c] = more
      /\ \A m \in Conns, d \in Consoles :
            m # n \/ d # c => Begun(ar, c, n, more)[m][d] = ar[m][d]
  BY <1>1, BegunIs
<1> QED
  BY <1>2, <1>3 DEF more

\* What is ahead stays so when more comes.
LEMMA AheadGrows ==
    ASSUME NEW a \in Seq(Chunk), NEW g \in Seq(Chunk), Ahead(a, g), NEW ch \in Chunk
    PROVE  Ahead(Append(a, ch), g)
<1>1. \A j \in DOMAIN a : j \in DOMAIN Append(a, ch) /\ Append(a, ch)[j] = a[j]
  OBVIOUS
<1> QED
  BY <1>1 DEF Ahead

\* A chunk comes for a stream, which ends.
LEMMA ComesAndEnds ==
    ASSUME NEW F, NEW next, NEW last, NEW c \in Consoles, NEW tab, NEW kern, NEW gt \in Histories,
           NEW ar \in Histories, ConsoleIs(F, next, c, tab, kern), Numbered(F, last),
           KeptAt(F, c, tab, gt, ar), NEW k \in Slots, tab[k].used, NEW n \in Conns,
           F[Key(c, tab[k])] = n, NEW ch \in Chunk
    PROVE  KeptAt(F, c, Emptied(tab, {k}), gt, Comes(ar, c, n, ch))
<1> DEFINE t == Emptied(tab, {k})
           b == Comes(ar, c, n, ch)
<1>1. /\ b \in Histories /\ b[n][c] = Append(ar[n][c], ch)
      /\ \A m \in Conns : m # n => b[m][c] = ar[m][c]
  BY ComesIs
<1> HIDE DEF b
<1>2. KeptAt(F, c, t, gt, ar)
  BY KeptByRest
<1>3. \A l \in Slots : t[l].used => l # k /\ tab[l].used /\ t[l] = tab[l]
  BY DEF Emptied, Free
<1>4. n # 0
  BY TunnelAssumption DEF Conns
<1>5. ASSUME NEW l \in Slots, t[l].used PROVE F[Key(c, t[l])] # n
  <2>1. l # k /\ tab[l].used /\ t[l] = tab[l]
    BY <1>3, <1>5
  <2>2. F[Key(c, tab[l])] # n
    BY <1>4, <2>1, OneStreamEach
  <2> QED
    BY <2>1, <2>2
<1> HIDE DEF t
<1>6. ASSUME NEW m \in Conns PROVE Ahead(b[m][c], gt[m][c])
  <2>1. Ahead(ar[m][c], gt[m][c])
    BY <1>2 DEF KeptAt
  <2>2. CASE m # n
    BY <1>1, <2>1, <2>2
  <2>3. CASE m = n
    <3> DEFINE old == ar[n][c]
               had == gt[n][c]
    <3>1. old \in Seq(Chunk) /\ had \in Seq(Chunk)
      BY DEF Histories
    <3>2. Ahead(old, had)
      BY <2>1, <2>3
    <3> HIDE DEF old, had
    <3>3. Ahead(Append(old, ch), had)
      BY <3>1, <3>2, AheadGrows
    <3> QED
      BY <1>1, <2>3, <3>3 DEF old, had
  <2> QED
    BY <2>2, <2>3
<1>7. ASSUME NEW l \in Slots, NEW m \in Conns, t[l].used, F[Key(c, t[l])] = m
      PROVE  b[m][c] = gt[m][c] \o t[l].pending
  <2>1. m # n
    BY <1>5, <1>7
  <2>2. ar[m][c] = gt[m][c] \o t[l].pending
    BY <1>2, <1>7 DEF KeptAt
  <2> QED
    BY <1>1, <2>1, <2>2
<1>8. \A l, m \in Slots : t[l].used /\ t[m].used /\ Key(c, t[l]) = Key(c, t[m]) => l = m
  BY <1>2 DEF KeptAt
<1>9. KeptAt(F, c, t, gt, b)
  BY <1>6, <1>7, <1>8 DEF KeptAt
<1> QED
  BY <1>9 DEF t, b

\* A chunk comes for a stream, which holds it back.
LEMMA ComesAndWaits ==
    ASSUME NEW F, NEW next, NEW last, NEW c \in Consoles, NEW tab, NEW kern, NEW gt \in Histories,
           NEW ar \in Histories, ConsoleIs(F, next, c, tab, kern), Numbered(F, last),
           KeptAt(F, c, tab, gt, ar), NEW k \in Slots, tab[k].used, NEW n \in Conns,
           F[Key(c, tab[k])] = n, NEW ch \in Chunk
    PROVE  KeptAt(F, c, [tab EXCEPT ![k].pending = tab[k].pending \o <<ch>>], gt,
                  Comes(ar, c, n, ch))
<1> DEFINE q == tab[k].pending \o <<ch>>
           t == [tab EXCEPT ![k].pending = q]
           b == Comes(ar, c, n, ch)
           old == ar[n][c]
           had == gt[n][c]
           p == tab[k].pending
<1>1. /\ b \in Histories /\ b[n][c] = Append(old, ch)
      /\ \A m \in Conns : m # n => b[m][c] = ar[m][c]
  BY ComesIs
<1> HIDE DEF b
<1>2. tab \in [Slots -> Stream] /\ p \in Seq(Chunk) /\ old \in Seq(Chunk) /\ had \in Seq(Chunk)
  BY DEF ConsoleIs, Stream, Histories
<1>3. old = had \o p
  BY DEF KeptAt
<1> HIDE DEF old, had
<1>4. Append(old, ch) = had \o (p \o <<ch>>) /\ Ahead(Append(old, ch), had)
  <2> HIDE DEF p
  <2>1. \A a, g \in Seq(Chunk) : Append(a \o g, ch) = a \o (g \o <<ch>>)
    OBVIOUS
  <2>2. Append(old, ch) = had \o (p \o <<ch>>)
    BY <1>2, <1>3, <2>1
  <2>3. Ahead(old, had)
    BY <1>2, <1>3 DEF Ahead
  <2> QED
    BY <1>2, <2>2, <2>3, AheadGrows
<1>5. ASSUME NEW l \in Slots
      PROVE  /\ t[l].used = tab[l].used /\ Key(c, t[l]) = Key(c, tab[l])
             /\ t[l].pending = IF l = k THEN q ELSE tab[l].pending
  <2>1. tab[l] \in Stream
    BY <1>2
  <2> HIDE DEF q
  <2>2. CASE l = k
    <3>1. t[l] = [tab[l] EXCEPT !.pending = q]
      BY <1>2, <2>2
    <3> QED
      BY <2>1, <2>2, <3>1 DEF Stream, Key
  <2>3. CASE l # k
    BY <1>2, <2>3
  <2> QED
    BY <2>2, <2>3
<1> HIDE DEF t
<1>6. n # 0
  BY TunnelAssumption DEF Conns
<1>7. \A l \in Slots : tab[l].used /\ F[Key(c, tab[l])] = n => l = k
  BY <1>6, OneStreamEach
<1>8. ASSUME NEW m \in Conns PROVE Ahead(b[m][c], gt[m][c])
  <2>1. Ahead(ar[m][c], gt[m][c])
    BY DEF KeptAt
  <2> QED
    BY <1>1, <1>4, <2>1 DEF had
<1>9. ASSUME NEW l \in Slots, NEW m \in Conns, t[l].used, F[Key(c, t[l])] = m
      PROVE  b[m][c] = gt[m][c] \o t[l].pending
  <2>1. CASE m = n
    <3>1. l = k
      BY <1>5, <1>7, <1>9, <2>1
    <3> QED
      BY <1>1, <1>4, <1>5, <2>1, <3>1 DEF had
  <2>2. CASE m # n
    <3>1. l # k /\ ar[m][c] = gt[m][c] \o tab[l].pending
      BY <1>5, <1>9, <2>2 DEF KeptAt
    <3> QED
      BY <1>1, <1>5, <2>2, <3>1
  <2> QED
    BY <2>1, <2>2
<1>10. \A l, m \in Slots : t[l].used /\ t[m].used /\ Key(c, t[l]) = Key(c, t[m]) => l = m
  BY <1>5 DEF KeptAt
<1>11. KeptAt(F, c, t, gt, b)
  BY <1>8, <1>9, <1>10 DEF KeptAt
<1> QED
  BY <1>11 DEF t, b, p, q

\* The parts of what a stream holds back, put together.
LEMMA PartsMakeWhole ==
    ASSUME NEW q \in Seq(Chunk), NEW g \in Seq(Chunk), NEW t \in Nat, t <= Len(q)
    PROVE  g \o q = (g \o SubSeq(q, 1, t)) \o SubSeq(q, t + 1, Len(q))
<1> DEFINE a == SubSeq(q, 1, t)
           b == SubSeq(q, t + 1, Len(q))
<1>1. /\ a \in Seq(Chunk) /\ b \in Seq(Chunk) /\ Len(a) = t /\ Len(b) = Len(q) - t
      /\ \A j \in 1 .. Len(q) - t : b[j] = q[j + t]
      /\ \A j \in 1 .. t : a[j] = q[j]
  BY PartsAreOf
<1> HIDE DEF a, b
<1>2. Len(q) \in Nat /\ Len(g) \in Nat
  OBVIOUS
<1> DEFINE x == g \o q
           y == (g \o a) \o b
<1>3. /\ x \in Seq(Chunk) /\ y \in Seq(Chunk)
      /\ Len(x) = Len(g) + Len(q) /\ Len(y) = Len(g) + Len(q)
  <2>1. g \o a \in Seq(Chunk) /\ Len(g \o a) = Len(g) + t
    BY <1>1, ConcatProperties
  <2> DEFINE ga == g \o a
  <2> HIDE DEF ga
  <2>2. ga \o b \in Seq(Chunk) /\ Len(ga \o b) = Len(ga) + Len(b)
    <3>1. ga \in Seq(Chunk)
      BY <2>1 DEF ga
    <3> QED
      BY <1>1, <3>1, ConcatProperties
  <2>3. g \o q \in Seq(Chunk) /\ Len(g \o q) = Len(g) + Len(q)
    OBVIOUS
  <2>4. Len(ga \o b) = Len(g) + Len(q)
    BY <1>1, <1>2, <2>1, <2>2 DEF ga
  <2> QED
    BY <2>2, <2>3, <2>4 DEF ga
<1>4. \A i \in 1 .. Len(g) + Len(q) : x[i] = y[i]
  <2> SUFFICES ASSUME NEW i \in 1 .. Len(g) + Len(q) PROVE x[i] = y[i]
    OBVIOUS
  <2>1. x[i] = IF i <= Len(g) THEN g[i] ELSE q[i - Len(g)]
    BY <1>2
  <2>2. y[i] = IF i <= Len(g) + t THEN (g \o a)[i] ELSE b[i - (Len(g) + t)]
    BY <1>1, <1>2
  <2>3. i <= Len(g) + t => (g \o a)[i] = IF i <= Len(g) THEN g[i] ELSE a[i - Len(g)]
    BY <1>1, <1>2
  <2> HIDE DEF x, y
  <2>4. CASE i <= Len(g)
    BY <1>2, <2>1, <2>2, <2>3, <2>4
  <2>5. CASE i > Len(g) /\ i <= Len(g) + t
    <3>1. i - Len(g) \in 1 .. t
      BY <1>2, <2>5
    <3> QED
      BY <1>1, <1>2, <2>1, <2>2, <2>3, <2>5, <3>1
  <2>6. CASE i > Len(g) + t
    <3>1. i - (Len(g) + t) \in 1 .. Len(q) - t /\ i - (Len(g) + t) + t = i - Len(g)
      BY <1>2, <2>6
    <3> QED
      BY <1>1, <1>2, <2>1, <2>2, <2>6, <3>1
  <2> QED
    BY <1>2, <2>4, <2>5, <2>6
<1> HIDE DEF x, y
<1>5. x = y
  BY <1>3, <1>4
<1> QED
  BY <1>5 DEF x, y, a, b

\* A flush gives the games the first of what their streams hold back.
LEMMA FlushRetains ==
    ASSUME Types, NEW F, NEW last, NEW c \in Consoles, NEW K \in SUBSET Slots, NEW tab, NEW kern,
           ConsoleIs(F, nextId, c, tab, kern), Numbered(F, last),
           NEW ar, KeptAt(F, c, tab, got, ar), FlushPending(c, K, tab, kern)
    PROVE  /\ \E t : streams' = [streams EXCEPT ![c] = t] /\ KeptAt(F, c, t, got', ar)
           /\ \A n \in Conns : \A d \in Consoles \ {c} : got'[n][d] = got[n][d]
<1> DEFINE up    == {k \in K : tab[k].sock # NoFd /\ tab[k].pending # <<>>}
           ended == {k \in up : kern[tab[k].sock].game # "open"}
           end(n) == {k \in up : kern[tab[k].sock].conn = n}
<1>1. PICK m \in [up -> 0 .. PendingMax] :
        LET taken(k) == IF k \in up \ ended THEN m[k] ELSE 0
        IN /\ \A k \in up : taken(k) <= Len(tab[k].pending)
           /\ streams' = [streams EXCEPT ![c] = [k \in Slots |->
                 IF k \in ended THEN Free
                 ELSE [tab[k] EXCEPT !.pending = SubSeq(tab[k].pending, taken(k) + 1, Len(tab[k].pending))]]]
           /\ got' = [n \in Conns |-> IF end(n) = {} THEN got[n] ELSE
                 [got[n] EXCEPT ![c] = got[n][c] \o SubSeq(tab[First(end(n))].pending, 1, taken(First(end(n))))]]
  BY DEF FlushPending
<1> DEFINE taken(k) == IF k \in up \ ended THEN m[k] ELSE 0
           p(k) == SubSeq(tab[k].pending, taken(k) + 1, Len(tab[k].pending))
           t == [k \in Slots |-> IF k \in ended THEN Free ELSE [tab[k] EXCEPT !.pending = p(k)]]
<1>2. tab \in [Slots -> Stream] /\ up \subseteq Slots /\ ended \subseteq up
  BY DEF ConsoleIs
<1>3. \A k \in Slots : tab[k] \in Stream /\ tab[k].pending \in Seq(Chunk)
  BY <1>2 DEF Stream
<1>4. ASSUME NEW k \in Slots
      PROVE  /\ taken(k) \in Nat /\ taken(k) <= Len(tab[k].pending)
             /\ k \in ended \/ k \notin up => taken(k) = 0
  <2>1. CASE k \in up \ ended
    <3> HIDE DEF up, ended
    <3>1. m[k] \in 0 .. PendingMax
      BY <2>1
    <3>2. taken(k) = m[k] /\ taken(k) <= Len(tab[k].pending)
      BY <1>1, <2>1
    <3> QED
      BY <2>1, <3>1, <3>2
  <2>2. CASE k \notin up \ ended
    <3>1. taken(k) = 0 /\ Len(tab[k].pending) \in Nat
      BY <1>3, <2>2
    <3> QED
      BY <2>2, <3>1
  <2> QED
    BY <2>1, <2>2
<1>5. ASSUME NEW k \in up
      PROVE  tab[k].used /\ kern[tab[k].sock].conn = F[Key(c, tab[k])] /\ kern[tab[k].sock].conn # 0
  <2>1. k \in Slots /\ tab[k].sock # NoFd
    BY <1>2
  <2> HIDE DEF up
  <2> QED
    BY <2>1 DEF ConsoleIs, FdIs, StreamIs, Free
<1>6. streams' = [streams EXCEPT ![c] = t]
  BY <1>1
<1>7. ASSUME NEW n \in Conns
      PROVE  /\ end(n) \subseteq up
             /\ end(n) # {} => First(end(n)) \in end(n)
  <2>1. end(n) \subseteq Nat /\ end(n) \subseteq up
    BY <1>2 DEF Slots
  <2> HIDE DEF end
  <2> QED
    BY <2>1, FirstIsMember
<1>8. ASSUME NEW n \in Conns
      PROVE  /\ end(n) = {} => got'[n] = got[n]
             /\ end(n) # {} => got'[n] = [got[n] EXCEPT ![c] = got[n][c] \o
                   SubSeq(tab[First(end(n))].pending, 1, taken(First(end(n))))]
  BY <1>1
<1>9. \A n \in Conns : got[n] \in [Consoles -> Seq(Chunk)]
  BY DEF Types
<1> HIDE DEF taken, end, ended
<1>10. ASSUME NEW n \in Conns, NEW d \in Consoles \ {c} PROVE got'[n][d] = got[n][d]
  BY <1>8, <1>9, <1>10
<1>11. ASSUME NEW k \in Slots
       PROVE  /\ t[k].used => k \notin ended /\ tab[k].used /\ t[k].pending = p(k)
                              /\ Key(c, t[k]) = Key(c, tab[k])
              /\ k \notin ended => t[k] = [tab[k] EXCEPT !.pending = p(k)]
  <2>1. CASE k \in ended
    BY <2>1 DEF Free
  <2>2. CASE k \notin ended
    <3>1. t[k] = [tab[k] EXCEPT !.pending = p(k)] /\ tab[k] \in Stream
      BY <1>3, <2>2
    <3> HIDE DEF t, p
    <3> QED
      BY <2>2, <3>1 DEF Stream, Key
  <2> QED
    BY <2>1, <2>2
<1> HIDE DEF t
\* The stream of connection n, if it has one that is flushed, is the first and only.
<1>12. ASSUME NEW k \in Slots, NEW n \in Conns, tab[k].used, F[Key(c, tab[k])] = n
       PROVE  \/ k \notin up /\ end(n) = {}
              \/ end(n) # {} /\ First(end(n)) = k /\ k \in up
  <2>1. n # 0
    BY TunnelAssumption DEF Conns
  <2>2. CASE end(n) = {}
    <3>1. k \notin up
      BY <1>5, <1>12, <2>2 DEF end
    <3> QED
      BY <2>2, <3>1
  <2>3. CASE end(n) # {}
    <3> DEFINE l == First(end(n))
    <3>1. l \in end(n) /\ l \in up
      BY <1>7, <2>3
    <3> HIDE DEF l
    <3>2. l \in Slots /\ tab[l].used /\ F[Key(c, tab[l])] = n
      BY <1>2, <1>5, <3>1 DEF end
    <3>3. F[Key(c, tab[l])] = F[Key(c, tab[k])] /\ F[Key(c, tab[l])] # 0
      BY <1>12, <2>1, <3>2
    <3>4. l = k
      BY <1>12, <3>2, <3>3, OneStreamEach
    <3> QED
      BY <2>3, <3>1, <3>4 DEF l
  <2> QED
    BY <2>2, <2>3
\* So what it has received and what it holds back are as much as before.
<1>13. ASSUME NEW k \in Slots, NEW n \in Conns, tab[k].used, F[Key(c, tab[k])] = n
       PROVE  ar[n][c] = got'[n][c] \o p(k)
  <2> DEFINE q == tab[k].pending
             g == got[n][c]
             h == SubSeq(q, 1, taken(k))
  <2>1. /\ q \in Seq(Chunk) /\ g \in Seq(Chunk) /\ taken(k) \in Nat /\ taken(k) <= Len(q)
        /\ h \in Seq(Chunk) /\ Len(h) = taken(k)
    <3>1. q \in Seq(Chunk) /\ g \in Seq(Chunk) /\ taken(k) \in Nat /\ taken(k) <= Len(q)
      BY <1>3, <1>4, <1>9
    <3> HIDE DEF q, g
    <3> QED
      BY <3>1, PartsAreOf
  <2>2. ar[n][c] = g \o q
    BY <1>13 DEF KeptAt
  <2>3. g \o q = (g \o h) \o p(k)
    <3> HIDE DEF g
    <3> QED
      BY <2>1, PartsMakeWhole
  <2>4. got'[n][c] = g \o h
    <3>1. CASE k \notin up /\ end(n) = {}
      <4>1. got'[n][c] = g /\ taken(k) = 0
        BY <1>4, <1>8, <3>1
      <4> HIDE DEF h, g
      <4>2. h = <<>>
        BY <2>1, <4>1, EmptySeq
      <4> QED
        BY <2>1, <4>1, <4>2
    <3>2. CASE end(n) # {} /\ First(end(n)) = k
      BY <1>8, <1>9, <3>2
    <3> QED
      BY <1>12, <1>13, <3>1, <3>2
  <2> QED
    BY <2>2, <2>3, <2>4
<1> HIDE DEF p
<1>14. ASSUME NEW n \in Conns PROVE Ahead(ar[n][c], got'[n][c])
  <2>1. CASE end(n) = {}
    BY <1>8, <2>1 DEF KeptAt
  <2>2. CASE end(n) # {}
    <3> DEFINE l == First(end(n))
    <3>1. l \in end(n) /\ l \in up
      BY <1>7, <2>2
    <3> HIDE DEF l
    <3>2. l \in Slots /\ tab[l].used /\ F[Key(c, tab[l])] = n
      BY <1>2, <1>5, <3>1 DEF end
    <3>3. ar[n][c] = got'[n][c] \o p(l)
      BY <1>13, <3>2
    <3>4. got'[n][c] \in Seq(Chunk) /\ p(l) \in Seq(Chunk)
      <4>1. /\ tab[l].pending \in Seq(Chunk) /\ taken(l) \in Nat
            /\ taken(l) <= Len(tab[l].pending)
        BY <1>3, <1>4, <3>2
      <4>2. p(l) \in Seq(Chunk) /\ SubSeq(tab[l].pending, 1, taken(l)) \in Seq(Chunk)
        BY <4>1, PartsAreOf DEF p
      <4>3. got'[n][c] = got[n][c] \o SubSeq(tab[l].pending, 1, taken(l))
        BY <1>8, <1>9, <2>2 DEF l
      <4> QED
        BY <1>9, <4>2, <4>3
    <3> QED
      BY <3>3, <3>4 DEF Ahead
  <2> QED
    BY <2>1, <2>2
<1>15. \A k \in Slots : \A n \in Conns :
          t[k].used /\ F[Key(c, t[k])] = n => ar[n][c] = got'[n][c] \o t[k].pending
  BY <1>11, <1>13
<1>16. \A k, l \in Slots : t[k].used /\ t[l].used /\ Key(c, t[k]) = Key(c, t[l]) => k = l
  BY <1>11 DEF KeptAt
<1>17. KeptAt(F, c, t, got', ar)
  BY <1>14, <1>15, <1>16 DEF KeptAt
<1> QED
  BY <1>6, <1>10, <1>17

\* It does not matter what the ids of other consoles' streams are called.
LEMMA KeptByName ==
    ASSUME NEW F, NEW G, NEW c, NEW tab, NEW gt, NEW ar, KeptAt(F, c, tab, gt, ar),
           \A k \in Slots : tab[k].used => G[Key(c, tab[k])] = F[Key(c, tab[k])]
    PROVE  KeptAt(G, c, tab, gt, ar)
<1>1. \A k \in Slots : \A n \in Conns :
          tab[k].used /\ G[Key(c, tab[k])] = n => ar[n][c] = gt[n][c] \o tab[k].pending
  BY DEF KeptAt
<1> QED
  BY <1>1 DEF KeptAt

\* No stream of the table is of the id or the connection of s.
Stranger(F, c, tab, s) ==
    \A l \in Slots : tab[l].used => /\ Key(c, tab[l]) # Key(c, s)
                                    /\ F[Key(c, tab[l])] # F[Key(c, s)]

\* A stream is entered, of an id that no other has.
LEMMA EnterRetains ==
    ASSUME NEW F, NEW c \in Consoles, NEW tab \in [Slots -> Stream], NEW k \in Slots, NEW s,
           s.used, s.pending = <<>>, NEW gt \in Histories, NEW ar \in Histories,
           NEW n \in Conns, F[Key(c, s)] = n, KeptAt(F, c, tab, gt, ar), Stranger(F, c, tab, s)
    PROVE  KeptAt(F, c, [tab EXCEPT ![k] = s], gt, Begun(ar, c, n, gt[n][c]))
<1> DEFINE t == [tab EXCEPT ![k] = s]
           had == gt[n][c]
           b == Begun(ar, c, n, had)
<1>1. had \in Seq(Chunk)
  BY DEF Histories
<1>2. b[n][c] = had /\ \A m \in Conns : m # n => b[m][c] = ar[m][c]
  <2> HIDE DEF had
  <2> QED
    BY <1>1, BegunIs
<1>3. \A l \in Slots : t[l] = IF l = k THEN s ELSE tab[l]
  OBVIOUS
<1>4. had \o <<>> = had
  <2> HIDE DEF had
  <2> QED
    BY <1>1, ConcatEmptySeq
<1> HIDE DEF t, b, had
<1>5. ASSUME NEW m \in Conns PROVE Ahead(b[m][c], gt[m][c])
  <2>1. CASE m = n
    BY <1>2, <2>1 DEF Ahead, had
  <2>2. CASE m # n
    BY <1>2, <2>2 DEF KeptAt
  <2> QED
    BY <2>1, <2>2
<1>6. ASSUME NEW l \in Slots, NEW m \in Conns, t[l].used, F[Key(c, t[l])] = m
      PROVE  b[m][c] = gt[m][c] \o t[l].pending
  <2>1. CASE l = k
    <3>1. t[l] = s /\ m = n
      BY <1>3, <1>6, <2>1
    <3>2. gt[m][c] = had
      BY <3>1 DEF had
    <3> QED
      BY <1>2, <1>4, <3>1, <3>2
  <2>2. CASE l # k
    <3>1. t[l] = tab[l] /\ tab[l].used
      BY <1>3, <1>6, <2>2
    <3>2. m # n /\ ar[m][c] = gt[m][c] \o tab[l].pending
      BY <1>6, <3>1 DEF Stranger, KeptAt
    <3> QED
      BY <1>2, <3>1, <3>2
  <2> QED
    BY <2>1, <2>2
<1>7. ASSUME NEW l \in Slots, NEW m \in Slots, t[l].used, t[m].used, Key(c, t[l]) = Key(c, t[m])
      PROVE  l = m
  <2>1. CASE l # k /\ m # k
    BY <1>3, <1>7, <2>1 DEF KeptAt
  <2>2. CASE l = k \/ m = k
    BY <1>3, <1>7, <2>2 DEF Stranger
  <2> QED
    BY <2>1, <2>2
<1>8. KeptAt(F, c, t, gt, b)
  BY <1>5, <1>6, <1>7 DEF KeptAt
<1> QED
  BY <1>8 DEF t, b, had

\* RedirectConnect names its connection, and enters the stream under that name.
LEMMA RedirectRetains ==
    ASSUME NEW F \in Naming, Good(F), Kept(F), NEW c \in Consoles, NEW f,
           NEW p \in Consoles \ {c}, RedirectConnect(c, f, p),
           NEW G, Names(F, G, <<c, nextId[c]>>, opened + 1)
    PROVE  Kept(G)'
<1> DEFINE n == opened + 1
           i == nextId[c]
           k == First(Unused(c))
           s == [Free EXCEPT !.used = TRUE, !.originator = TRUE, !.id = i,
                             !.peer = p, !.listener = NewFd(c), !.game_fd = f]
           t == [streams[c] EXCEPT ![k] = s]
           b == Begun(arrived, c, n, got[n][c])
<1>1. Types /\ Consistent(F) /\ arrived \in Histories /\ Numbered(F, opened)
  BY DEF Good, Kept
<1>2. /\ Unused(c) # {} /\ UnusedFds(c) # {} /\ i <= MaxIds /\ opened < MaxConnects
      /\ opened' = n /\ streams' = [streams EXCEPT ![c] = t]
      /\ got' = got /\ arrived' = b
  BY DEF RedirectConnect, Begun
<1>3. k \in Slots
  BY <1>2, NewIsFree
<1>4. /\ i \in Ids /\ n \in Conns /\ opened \in 0 .. MaxConnects
      /\ nextId \in [Consoles -> 1 .. MaxIds + 1]
      /\ streams \in [Consoles -> [Slots -> Stream]] /\ got \in Histories
  BY <1>1, <1>2, TunnelAssumption DEF Types, Ids, Conns, Histories
<1>5. s.used /\ s.pending = <<>> /\ Key(c, s) = <<c, i>>
  BY DEF Free, Key
<1> HIDE DEF s, k
<1>6. /\ G[<<c, i>>] = n
      /\ \A key \in Consoles \X Ids : key # <<c, i>> => G[key] = F[key]
  BY <1>4 DEF Names, Naming
<1>7. ASSUME NEW d \in Consoles, NEW l \in Slots, streams[d][l].used
      PROVE  /\ Key(d, streams[d][l]) \in Consoles \X Ids
             /\ Key(d, streams[d][l]) # <<c, i>>
  <2> DEFINE key == Key(d, streams[d][l])
  <2>1. Issued(key, nextId)
    BY <1>1, <1>7 DEF Consistent, ConsoleIs, StreamIs
  <2> HIDE DEF key
  <2>2. nextId[c] \in Nat
    BY <1>4, TunnelAssumption
  <2>3. key \in Consoles \X Ids /\ key # <<c, i>>
    BY <2>1, <2>2 DEF Issued
  <2> QED
    BY <2>3 DEF key
<1> HIDE DEF i
<1>8. ASSUME NEW d \in Consoles PROVE KeptAt(G, d, streams[d], got, arrived)
  <2>1. KeptAt(F, d, streams[d], got, arrived)
    BY DEF Kept
  <2>2. \A l \in Slots : streams[d][l].used =>
            G[Key(d, streams[d][l])] = F[Key(d, streams[d][l])]
    BY <1>6, <1>7
  <2> QED
    BY <2>1, <2>2, KeptByName
<1>9. \A key \in Consoles \X Ids : F[key] <= opened /\ F[key] \in Nat /\ F[key] # n
  BY <1>1, <1>4, TunnelAssumption DEF Naming, Numbered
<1> HIDE DEF n
<1>10. Stranger(G, c, streams[c], s)
  <2> SUFFICES ASSUME NEW l \in Slots, streams[c][l].used
               PROVE  /\ Key(c, streams[c][l]) # Key(c, s)
                      /\ G[Key(c, streams[c][l])] # G[Key(c, s)]
    BY DEF Stranger
  <2> DEFINE key == Key(c, streams[c][l])
  <2>1. key \in Consoles \X Ids /\ key # <<c, i>>
    BY <1>7
  <2>2. G[Key(c, s)] = n
    BY <1>5, <1>6
  <2> HIDE DEF key
  <2>3. key # Key(c, s) /\ G[key] # G[Key(c, s)]
    BY <1>5, <1>6, <1>9, <2>1, <2>2
  <2> QED
    BY <2>3 DEF key
<1>11. b \in Histories /\ \A m \in Conns, d \in Consoles : d # c => b[m][d] = arrived[m][d]
  <2>1. got[n][c] \in Seq(Chunk)
    BY <1>4 DEF Histories
  <2> QED
    BY <1>1, <1>4, <2>1, BegunIs
<1>12. KeptAt(G, c, t, got, b)
  <2>1. G[Key(c, s)] = n /\ streams[c] \in [Slots -> Stream] /\ KeptAt(G, c, streams[c], got, arrived)
    BY <1>4, <1>5, <1>6, <1>8
  <2> QED
    BY <1>1, <1>3, <1>4, <1>5, <1>10, <2>1, EnterRetains
<1> HIDE DEF t, b
<1>13. ASSUME NEW d \in Consoles PROVE KeptAt(G, d, streams'[d], got', arrived')
  <2>1. CASE d = c
    BY <1>2, <1>4, <1>12, <2>1
  <2>2. CASE d # c
    <3>1. streams'[d] = streams[d] /\ KeptAt(G, d, streams[d], got, arrived)
      BY <1>2, <1>4, <1>8, <2>2
    <3>2. \A m \in Conns : got'[m][d] = got[m][d] /\ arrived'[m][d] = arrived[m][d]
      BY <1>2, <1>11, <2>2
    <3>3. KeptAt(G, d, streams[d], got', arrived')
      BY <3>1, <3>2, KeptElsewhere
    <3> QED
      BY <3>1, <3>3
  <2> QED
    BY <2>1, <2>2
<1>14. Numbered(G, opened')
  <2>1. \A key \in Consoles \X Ids : G[key] = IF key = <<c, i>> THEN n ELSE F[key]
    BY <1>6
  <2>2. \A key \in Consoles \X Ids : G[key] <= n
    BY <1>4, <1>9, <2>1 DEF n
  <2>3. ASSUME NEW key \in Consoles \X Ids, NEW other \in Consoles \X Ids,
               G[key] = G[other], G[key] # 0
        PROVE  key = other
    BY <1>1, <1>9, <2>1, <2>3 DEF Numbered
  <2> QED
    BY <1>2, <2>2, <2>3 DEF Numbered
<1> QED
  BY <1>2, <1>11, <1>13, <1>14 DEF Kept

\* OnOpen enters a stream of an id that no other has, or none.
LEMMA OnOpenRetains ==
    ASSUME NEW F \in Naming, Good(F), Kept(F), NEW c \in Consoles, NEW f \in wire[c], OnOpen(f)
    PROVE  Kept(F)'
<1> DEFINE s == [Free EXCEPT !.used = TRUE, !.id = f.id, !.peer = f.from]
           u == [s EXCEPT !.sock = NewFd(c)]
           k == First(Unused(c))
           n == f.conn
           t == [streams[c] EXCEPT ![k] = u]
           b == Begun(arrived, c, n, got[n][c])
<1>1. f.to = c /\ FrameIs(F, nextId, c, f)
  BY ArrivalIsGood
<1>2. /\ f.type = "open" /\ opened' = opened /\ got' = got
      /\ \/ UNCHANGED <<streams, arrived>>
         \/ /\ Unused(c) # {} /\ FindById(c, f.from, f.id, FALSE) = {}
            /\ streams' = [streams EXCEPT ![c] = t] /\ arrived' = b
  BY <1>1 DEF OnOpen, Received, Ignored, Begun
<1>3. CASE UNCHANGED <<streams, arrived>>
  BY <1>2, <1>3, KeptIdle
<1>4. CASE /\ Unused(c) # {} /\ FindById(c, f.from, f.id, FALSE) = {}
           /\ streams' = [streams EXCEPT ![c] = t] /\ arrived' = b
  <2>1. k \in Slots
    BY <1>4, NewIsFree
  <2>2. /\ f.from \in Consoles \ {c} /\ f.id \in Ids /\ n # 0 /\ n = F[<<f.from, f.id>>]
        /\ n \in Conns
    BY <1>1, <1>2, TunnelAssumption DEF FrameIs, FrameKey, FrameSet, Conns
  <2>3. u.used /\ u.pending = <<>> /\ Key(c, u) = <<f.from, f.id>>
    BY DEF Free, Key
  <2>4. /\ streams[c] \in [Slots -> Stream] /\ got \in Histories /\ arrived \in Histories
        /\ KeptAt(F, c, streams[c], got, arrived) /\ Numbered(F, opened)
        /\ \A l \in Slots : StreamIs(F, nextId, c, streams[c][l])
    BY DEF Good, Types, Histories, Kept, Consistent, ConsoleIs
  <2> HIDE DEF u, k
  <2>5. Stranger(F, c, streams[c], u)
    <3> SUFFICES ASSUME NEW l \in Slots, streams[c][l].used
                 PROVE  /\ Key(c, streams[c][l]) # Key(c, u)
                        /\ F[Key(c, streams[c][l])] # F[Key(c, u)]
      BY DEF Stranger
    <3> DEFINE key == Key(c, streams[c][l])
    <3>1. key \in Consoles \X Ids
      BY <2>4 DEF StreamIs, Issued
    <3>2. key # <<f.from, f.id>>
      <4>1. streams[c][l] \in Stream /\ l \notin FindById(c, f.from, f.id, FALSE)
        BY <1>4, <2>4
      <4>2. \/ streams[c][l].id # f.id \/ streams[c][l].peer # f.from
            \/ streams[c][l].originator # FALSE
        BY <4>1 DEF FindById
      <4>3. CASE streams[c][l].originator
        BY <2>2, <4>3 DEF Key
      <4>4. CASE ~streams[c][l].originator
        <5>1. key = <<streams[c][l].peer, streams[c][l].id>>
          BY <4>4 DEF Key
        <5>2. streams[c][l].originator = FALSE
          BY <4>1, <4>4 DEF Stream
        <5> HIDE DEF key
        <5> QED
          BY <4>2, <5>1, <5>2
      <4> QED
        BY <4>3, <4>4
    <3>3. <<f.from, f.id>> \in Consoles \X Ids
      BY <2>2
    <3> HIDE DEF key
    <3>4. F[key] # F[<<f.from, f.id>>]
      BY <2>2, <2>4, <3>1, <3>2, <3>3 DEF Numbered
    <3>5. key # Key(c, u) /\ F[key] # F[Key(c, u)]
      BY <2>3, <3>2, <3>4
    <3> QED
      BY <3>5 DEF key
  <2>6. F[Key(c, u)] = n
    BY <2>2, <2>3
  <2> HIDE DEF n
  <2>7. KeptAt(F, c, t, got, b)
    BY <2>1, <2>2, <2>3, <2>4, <2>5, <2>6, EnterRetains
  <2>8. b \in Histories /\ \A m \in Conns, d \in Consoles : d # c => b[m][d] = arrived[m][d]
    <3>1. got[n][c] \in Seq(Chunk) /\ n \in Conns /\ arrived \in Histories
      BY <2>2, <2>4 DEF Histories
    <3> DEFINE q == got[n][c]
    <3> HIDE DEF q
    <3>2. /\ Begun(arrived, c, n, q) \in Histories
          /\ \A m \in Conns, d \in Consoles :
                m # n \/ d # c => Begun(arrived, c, n, q)[m][d] = arrived[m][d]
      BY <3>1, BegunIs DEF q
    <3> QED
      BY <3>2 DEF q
  <2> HIDE DEF t, b
  <2>9. KeptAt(F, c, t, got', arrived') /\ arrived' \in Histories
    BY <1>2, <1>4, <2>7, <2>8
  <2>10. \A m \in Conns : \A d \in Consoles \ {c} :
            got'[m][d] = got[m][d] /\ arrived'[m][d] = arrived[m][d]
    BY <1>2, <1>4, <2>8
  <2>11. streams' = [streams EXCEPT ![c] = t] /\ opened' = opened
    BY <1>2, <1>4
  <2> QED
    BY <2>9, <2>10, <2>11, KeptStep
<1> QED
  BY <1>2, <1>3, <1>4

\* A step that flushes what has come.
LEMMA FlushStep ==
    ASSUME NEW F, Good(F), Kept(F), NEW c \in Consoles, NEW K \in SUBSET Slots, NEW tab, NEW kern,
           ConsoleIs(F, nextId, c, tab, kern), KeptAt(F, c, tab, got, arrived'),
           arrived' \in Histories, opened' = opened, FlushPending(c, K, tab, kern),
           \A n \in Conns : \A d \in Consoles \ {c} : arrived'[n][d] = arrived[n][d]
    PROVE  Kept(F)'
<1>1. Types /\ Numbered(F, opened)
  BY DEF Good, Kept
<1> DEFINE ar == arrived'
<1>2. KeptAt(F, c, tab, got, ar)
  OBVIOUS
<1> HIDE DEF ar
<1>3. /\ \E t : streams' = [streams EXCEPT ![c] = t] /\ KeptAt(F, c, t, got', ar)
      /\ \A n \in Conns : \A d \in Consoles \ {c} : got'[n][d] = got[n][d]
  BY <1>1, <1>2, FlushRetains
<1>4. PICK t : streams' = [streams EXCEPT ![c] = t] /\ KeptAt(F, c, t, got', ar)
  BY <1>3
<1>5. \A n \in Conns : \A d \in Consoles \ {c} :
         got'[n][d] = got[n][d] /\ arrived'[n][d] = arrived[n][d]
  BY <1>3
<1>6. KeptAt(F, c, t, got', arrived')
  BY <1>4 DEF ar
<1> QED
  BY <1>4, <1>5, <1>6, KeptStep

\* A frame carries one chunk.
LEMMA OneChunk ==
    ASSUME NEW data \in Seq(Chunk), Len(data) = 1
    PROVE  /\ data = <<Head(data)>> /\ Head(data) \in Chunk
           /\ 1 \in DOMAIN data /\ data[1] = Head(data)
<1>1. 1 \in DOMAIN data /\ data[1] \in Chunk
  OBVIOUS
<1>2. Head(data) = data[1]
  OBVIOUS
<1> DEFINE one == <<data[1]>>
<1>3. one \in Seq(Chunk) /\ Len(one) = 1 /\ one[1] = data[1]
  BY <1>1
<1> HIDE DEF one
<1>4. one = data
  <2>1. \A i \in 1 .. Len(one) : one[i] = data[i]
    BY <1>3
  <2> QED
    BY <1>3, <2>1, SeqEqual
<1> QED
  BY <1>1, <1>2, <1>4 DEF one

\* OnData adds what came to what the stream holds back, and flushes it, or ends the stream.
LEMMA OnDataRetains ==
    ASSUME NEW F \in Naming, Good(F), Kept(F), NEW c \in Consoles, NEW f \in wire[c], OnData(f)
    PROVE  Kept(F)'
<1> DEFINE ch == Head(f.data)
           n == F[FrameKey(f)]
           b == Comes(arrived, c, n, ch)
<1>1. f.to = c /\ FrameIs(F, nextId, c, f)
  BY ArrivalIsGood
<1>2. f.type = "data" /\ opened' = opened /\ Arrives(f)
  BY DEF OnData, Received
<1>3. f.data = <<ch>> /\ ch \in Chunk /\ ch.conn = n /\ n \in Conns
  <2>1. f.data \in Seq(Chunk) /\ Len(f.data) = 1 /\ Of(f.data, n, f.from)
    BY <1>1, <1>2 DEF FrameIs, FrameSet
  <2>2. f.data = <<ch>> /\ ch \in Chunk /\ 1 \in DOMAIN f.data /\ f.data[1] = ch
    BY <2>1, OneChunk
  <2>3. ch.conn = n
    BY <2>1, <2>2 DEF Of
  <2> HIDE DEF ch, n
  <2> QED
    BY <2>2, <2>3 DEF Chunk
<1> HIDE DEF n, ch
<1>4. /\ Types /\ Numbered(F, opened) /\ ConsoleIs(F, nextId, c, streams[c], kernel[c])
      /\ got \in Histories /\ arrived \in Histories /\ KeptAt(F, c, streams[c], got, arrived)
  BY DEF Good, Types, Consistent, Kept, Histories
<1>5. CASE Target(f) = {} /\ Ignored
  <2>1. UNCHANGED <<streams, got, arrived, opened>>
    BY <1>2, <1>5 DEF Arrives, Ignored
  <2> QED
    BY <2>1, KeptIdle
<1>6. ASSUME NEW k \in Target(f),
             IF Len(streams[c][k].pending) + Len(f.data) > PendingMax
             THEN HangUp(c, k)
             ELSE FlushPending(c, {k}, With(c, k, f.data), kernel[c])
      PROVE  Kept(F)'
  <2>1. /\ k \in Slots /\ streams[c][k].used
        /\ Key(c, streams[c][k]) = FrameKey(f)
    BY <1>1, TargetIsOf
  <2>2. F[Key(c, streams[c][k])] = n
    BY <2>1 DEF n
  <2>3. arrived' = b
    <3>1. Target(f) # {}
      BY <1>6
    <3>2. arrived' = [arrived EXCEPT ![ch.conn][f.to] = Append(arrived[ch.conn][f.to], ch)]
      BY <1>2, <3>1 DEF Arrives, ch
    <3> QED
      BY <1>1, <1>3, <3>2 DEF Comes, Begun
  <2>4. b \in Histories /\ \A m \in Conns, d \in Consoles : d # c => b[m][d] = arrived[m][d]
    BY <1>3, <1>4, ComesIs
  <2>5. \A m \in Conns : \A d \in Consoles \ {c} : arrived'[m][d] = arrived[m][d]
    BY <2>3, <2>4
  <2>6. CASE Len(streams[c][k].pending) + Len(f.data) > PendingMax
    <3>1. Release(c, k)
      BY <1>6, <2>6 DEF HangUp
    <3>2. streams' = [streams EXCEPT ![c] = Emptied(streams[c], {k})] /\ got' = got
      BY <1>4, <2>1, <3>1, ReleaseEmpties
    <3>3. KeptAt(F, c, Emptied(streams[c], {k}), got, b)
      BY <1>3, <1>4, <2>1, <2>2, ComesAndEnds
    <3> HIDE DEF b
    <3>4. KeptAt(F, c, Emptied(streams[c], {k}), got', arrived') /\ arrived' \in Histories
      BY <2>3, <2>4, <3>2, <3>3
    <3>5. \A m \in Conns : \A d \in Consoles \ {c} :
             got'[m][d] = got[m][d] /\ arrived'[m][d] = arrived[m][d]
      BY <2>5, <3>2
    <3> QED
      BY <1>2, <3>2, <3>4, <3>5, KeptStep
  <2>7. CASE ~(Len(streams[c][k].pending) + Len(f.data) > PendingMax)
    <3>1. FlushPending(c, {k}, With(c, k, f.data), kernel[c])
      BY <1>6, <2>7
    <3>2. ConsoleIs(F, nextId, c, With(c, k, f.data), kernel[c])
      BY <1>1, <1>2, <2>7, GrowKeeps
    <3>3. {k} \in SUBSET Slots
      BY <2>1
    <3>4. KeptAt(F, c, With(c, k, f.data), got, b)
      <4>1. KeptAt(F, c, [streams[c] EXCEPT ![k].pending = streams[c][k].pending \o <<ch>>],
                   got, b)
        BY <1>3, <1>4, <2>1, <2>2, ComesAndWaits
      <4> QED
        BY <1>3, <4>1 DEF With
    <3> HIDE DEF b
    <3>5. KeptAt(F, c, With(c, k, f.data), got, arrived') /\ arrived' \in Histories
      BY <2>3, <2>4, <3>4
    <3> QED
      BY <1>2, <2>5, <3>1, <3>2, <3>3, <3>5, FlushStep
  <2> QED
    BY <2>6, <2>7
<1> QED
  BY <1>1, <1>5, <1>6 DEF OnData

\* OnClose releases the stream.
LEMMA OnCloseRetains ==
    ASSUME NEW F, Good(F), Kept(F), NEW c \in Consoles, NEW f \in wire[c], OnClose(f)
    PROVE  Kept(F)'
<1>1. f.to = c /\ FrameIs(F, nextId, c, f)
  BY ArrivalIsGood
<1>2. UNCHANGED <<opened, arrived>>
  BY DEF OnClose, Received
<1>3. CASE Ignored
  BY <1>2, <1>3, KeptIdle DEF Ignored
<1>4. ASSUME NEW k \in Target(f), Release(c, k) PROVE Kept(F)'
  <2>1. k \in Slots
    BY <1>1, TargetIsOf
  <2> QED
    BY <1>2, <1>4, <2>1, ReleaseRetains
<1> QED
  BY <1>1, <1>3, <1>4 DEF OnClose

\* What the pump does.
LEMMA PumpRetains ==
    ASSUME NEW F, Good(F), Kept(F), NEW c \in Consoles, PumpStep(c)
    PROVE  Kept(F)'
<1>1. /\ Types /\ ConsoleIs(F, nextId, c, streams[c], kernel[c]) /\ arrived \in Histories
      /\ KeptAt(F, c, streams[c], got, arrived)
  BY DEF Good, Consistent, Kept
<1>2. /\ UNCHANGED <<opened, arrived>>
      /\ \A n \in Conns : \A d \in Consoles \ {c} : arrived'[n][d] = arrived[n][d]
  BY DEF PumpStep, PumpCollects, PumpPolls, PumpFlushes, PumpSkips, PumpAccepts, PumpHangsUp,
         PumpReads, Served, Pump
<1>3. arrived' \in Histories /\ KeptAt(F, c, streams[c], got, arrived')
  BY <1>1, <1>2
<1>4. CASE PumpCollects(c) \/ PumpPolls(c) \/ PumpSkips(c) \/ PumpReads(c)
  <2>1. UNCHANGED <<streams, got>>
    BY <1>4 DEF PumpCollects, PumpPolls, PumpSkips, PumpReads
  <2> QED
    BY <1>2, <2>1, KeptIdle
<1>5. CASE PumpFlushes(c)
  <2>1. FlushPending(c, Slots, streams[c], kernel[c])
    BY <1>5 DEF PumpFlushes
  <2>2. Slots \in SUBSET Slots
    OBVIOUS
  <2> QED
    BY <1>1, <1>2, <1>3, <2>1, <2>2, FlushStep
<1>6. CASE PumpAccepts(c)
  <2>1. PICK e \in polled[c].of :
          /\ Served(c, e) /\ Owns(c, e) /\ e.listens
          /\ UnusedFds(c) # {}
          /\ FlushPending(c, {e.slot},
                 [streams[c] EXCEPT ![e.slot].listener = NoFd, ![e.slot].sock = NewFd(c)],
                 [kernel[c] EXCEPT ![e.fd] = Shut, ![NewFd(c)] = kernel[c][e.fd]])
    BY <1>6 DEF PumpAccepts
  <2> DEFINE k == e.slot
             old == e.fd
             fd == NewFd(c)
             t == [streams[c] EXCEPT ![k].listener = NoFd, ![k].sock = fd]
             r == [kernel[c] EXCEPT ![old] = Shut, ![fd] = kernel[c][old]]
  <2>2. k \in Slots /\ old \in Fds
    BY <1>1, <2>1, ServedPolls
  <2>3. streams[c][k].listener = old
    BY <2>1 DEF Owns
  <2>4. fd \in Fds /\ kernel[c][fd] = Shut
    BY <2>1, NewIsFree
  <2>5. FlushPending(c, {k}, t, r)
    BY <2>1
  <2> HIDE DEF k, old, fd
  <2>6. ConsoleIs(F, nextId, c, t, r)
    BY <1>1, <2>2, <2>3, <2>4, AcceptKeeps
  <2>7. ASSUME NEW l \in Slots
        PROVE  /\ t[l].used = streams[c][l].used /\ t[l].pending = streams[c][l].pending
               /\ Key(c, t[l]) = Key(c, streams[c][l])
    <3>1. streams[c] \in [Slots -> Stream] /\ streams[c][l] \in Stream
      BY <1>1 DEF Types
    <3>2. CASE l = k
      <4>1. t[l] = [streams[c][l] EXCEPT !.listener = NoFd, !.sock = fd]
        BY <3>1, <3>2
      <4> HIDE DEF t
      <4> QED
        BY <3>1, <4>1 DEF Stream, Key
    <3>3. CASE l # k
      BY <3>1, <3>3
    <3> QED
      BY <3>2, <3>3
  <2> HIDE DEF t, r
  <2>8. KeptAt(F, c, t, got, arrived')
    BY <1>3, <2>7, KeptByOthers
  <2>9. {k} \in SUBSET Slots
    BY <2>2
  <2> QED
    BY <1>2, <1>3, <2>5, <2>6, <2>8, <2>9, FlushStep
<1>7. CASE PumpHangsUp(c)
  <2>1. PICK e \in polled[c].of : Served(c, e) /\ HangUp(c, e.slot)
    BY <1>7 DEF PumpHangsUp
  <2>2. e.slot \in Slots /\ Release(c, e.slot)
    BY <1>1, <2>1, ServedPolls DEF HangUp
  <2> QED
    BY <1>2, <2>2, ReleaseRetains
<1> QED
  BY <1>4, <1>5, <1>6, <1>7 DEF PumpStep

\* Start and Stop: the streams end.
LEMMA ThreadRetains ==
    ASSUME NEW F, Good(F), Kept(F), NEW c \in Consoles, Start(c) \/ Stop(c) \/ Stopped(c)
    PROVE  Kept(F)'
<1>1. UNCHANGED <<got, opened, arrived>>
  BY DEF Start, Stop, Stopped
<1>2. CASE Stop(c)
  BY <1>1, <1>2, KeptIdle DEF Stop
<1>3. CASE Start(c) \/ Stopped(c)
  <2>1. streams' = [streams EXCEPT ![c] = Emptied(streams[c], Slots)]
    <3>1. Emptied(streams[c], Slots) = [k \in Slots |-> Free]
      BY DEF Emptied
    <3> QED
      BY <1>3, <3>1 DEF Start, Stopped
  <2>2. KeptAt(F, c, Emptied(streams[c], Slots), got', arrived')
    BY <1>1, KeptByRest DEF Kept
  <2>3. /\ arrived' \in Histories
        /\ \A n \in Conns : \A d \in Consoles \ {c} :
              got'[n][d] = got[n][d] /\ arrived'[n][d] = arrived[n][d]
    BY <1>1 DEF Kept
  <2> QED
    BY <1>1, <2>1, <2>2, <2>3, KeptStep
<1> QED
  BY <1>2, <1>3

\* At first nothing has come.
LEMMA IInvInit == Init => IInv
<1> SUFFICES ASSUME Init PROVE IInv
  OBVIOUS
<1>1. Nameless \in Naming /\ Good(Nameless)
  BY InitIsGood
<1>2. /\ arrived = got /\ opened = 0
      /\ \A n \in Conns, c \in Consoles : got[n][c] = <<>>
      /\ \A c \in Consoles, k \in Slots : ~streams[c][k].used
  BY DEF Init, Free
<1>3. arrived \in Histories
  BY <1>1, <1>2 DEF Good, Types, Histories
<1>4. Numbered(Nameless, opened)
  BY <1>2 DEF Numbered, Nameless
<1>5. \A c \in Consoles : KeptAt(Nameless, c, streams[c], got, arrived)
  BY <1>2 DEF KeptAt, Ahead
<1> QED
  BY <1>1, <1>3, <1>4, <1>5 DEF IInv, Kept

\* The invariant is inductive: a step keeps the naming, or names the id it takes.
LEMMA IInvInductive == IInv /\ [Next]_vars => IInv'
<1> SUFFICES ASSUME NEW F \in Naming, Good(F), Kept(F), [Next]_vars
             PROVE  IInv'
  BY DEF IInv
<1>1. Good(F)' /\ Kept(F)' => IInv'
  BY DEF IInv, Naming
<1>2. ASSUME NEW c \in Consoles, NEW f \in GameFds, NEW p \in Consoles \ {c},
             RedirectConnect(c, f, p)
      PROVE  IInv'
  <2>1. PICK G \in Naming : Names(F, G, <<c, nextId[c]>>, opened + 1) /\ Good(G)'
    BY <1>2, RedirectKeeps
  <2>2. Kept(G)'
    BY <1>2, <2>1, RedirectRetains
  <2> QED
    BY <2>1, <2>2 DEF IInv, Naming
<1>3. ASSUME Frames PROVE IInv'
  <2>1. PICK c \in Consoles : \E f \in wire[c] : OnOpen(f) \/ OnClose(f) \/ OnData(f)
    BY <1>3 DEF Frames
  <2>2. PICK f \in wire[c] : OnOpen(f) \/ OnClose(f) \/ OnData(f)
    BY <2>1
  <2>3. CASE OnOpen(f)
    BY <1>1, <2>3, OnOpenKeeps, OnOpenRetains
  <2>4. CASE OnClose(f)
    BY <1>1, <2>4, OnCloseKeeps, OnCloseRetains
  <2>5. CASE OnData(f)
    BY <1>1, <2>5, OnDataKeeps, OnDataRetains
  <2> QED
    BY <2>2, <2>3, <2>4, <2>5
<1>4. ASSUME NEW c \in Consoles, PumpStep(c) PROVE IInv'
  <2>1. Good(F)'
    BY <1>4, PumpRestKeeps, PumpAcceptsKeeps, PumpHangsUpKeeps, PumpReadsKeeps DEF PumpStep
  <2>2. Kept(F)'
    BY <1>4, PumpRetains
  <2> QED
    BY <1>1, <2>1, <2>2
<1>5. ASSUME NEW c \in Consoles, Game(c) PROVE IInv'
  <2>1. ASSUME NEW f \in GameFds, RedirectFails(c, f) PROVE IInv'
    <3>1. UNCHANGED <<streams, got, arrived, opened>>
      BY <2>1 DEF RedirectFails
    <3> QED
      BY <1>1, <2>1, <3>1, KeptIdle, RedirectFailsKeeps
  <2>2. ASSUME NEW f \in GameFds, GameDrops(c, f) PROVE IInv'
    <3>1. 1 \in Fds
      BY TunnelAssumption DEF Fds
    <3>2. UNCHANGED <<streams, got, arrived, opened>>
      BY <2>2 DEF GameDrops, tables
    <3> QED
      BY <1>1, <2>2, <3>1, <3>2, KeptIdle, GameKeeps
  <2>3. ASSUME NEW d \in Fds, GameWrites(c, d) \/ GameCloses(c, d)
        PROVE  IInv'
    <3>1. UNCHANGED <<streams, got, arrived, opened>>
      BY <2>3 DEF GameWrites, GameCloses, tables
    <3> QED
      BY <1>1, <2>3, <3>1, KeptIdle, GameKeeps
  <2> QED
    BY <1>2, <1>5, <2>1, <2>2, <2>3 DEF Game
<1>6. ASSUME NEW c \in Consoles, Start(c) \/ Stop(c) \/ Stopped(c) PROVE IInv'
  BY <1>1, <1>6, ThreadKeeps, ThreadRetains
<1>7. ASSUME UNCHANGED vars PROVE IInv'
  <2>1. /\ UNCHANGED <<streams, kernel, nextId, wire, got, wrote, opened>>
        /\ UNCHANGED <<running, polled, dialled>> /\ UNCHANGED <<streams, got, arrived, opened>>
    BY <1>7 DEF vars, tables
  <2>2. Types
    BY DEF Good
  <2>3. Good(F)'
    BY <2>1, <2>2, IdleKeeps DEF Types
  <2>4. Kept(F)'
    BY <2>1, KeptIdle
  <2> QED
    BY <1>1, <2>3, <2>4
<1> QED
  BY <1>3, <1>4, <1>5, <1>6, <1>7 DEF Next

-----------------------------------------------------------------------------
(* What holds of every behaviour. *)

\* The invariant holds always.
LEMMA InvariantHolds == Spec => []IInv
<1>1. Init => IInv
  BY IInvInit
<1>2. IInv /\ [Next]_vars => IInv'
  BY IInvInductive
<1> QED
  BY <1>1, <1>2, PTL DEF Spec

\* Every variable has its type and no stream holds back more than PendingMax chunks for
\* its local socket, for any number of consoles, entries and ids (OnData hangs up a
\* stream whose bytes no longer fit).
THEOREM TypeCorrect == Spec => []TypeOK
<1>1. IInv => TypeOK
  <2> SUFFICES ASSUME NEW F, Good(F), Kept(F) PROVE TypeOK
    BY DEF IInv
  <2>1. \A c \in Consoles, k \in Slots : Len(streams[c][k].pending) <= PendingMax
    BY DEF Good, Consistent, ConsoleIs, StreamIs
  <2>2. arrived \in [Conns -> [Consoles -> Seq(Chunk)]]
    BY DEF Kept, Histories
  <2> QED
    BY <2>1, <2>2 DEF Good, Types, TypeOK, Stream, End, Polls
<1> QED
  BY <1>1, InvariantHolds, PTL

\* What a game receives on a connection, its peer's game sent on that connection: though
\* both consoles choose the same ids, the entries of the table and the descriptors of the
\* kernel are used again, the pump acts on what poll said of a table that has changed
\* since, and the relay may lose, repeat and reorder frames.
THEOREM NoCrossTalkHolds == Spec => []NoCrossTalk
<1>1. IInv => NoCrossTalk
  BY DEF IInv, Good
<1> QED
  BY <1>1, InvariantHolds, PTL

\* What arrives for a stream its game receives in the order of its arrival and without a
\* gap, to the point where the stream ends: whatever the local socket takes at a time,
\* whatever else the pump and the games do in between, and although the same chunk may
\* come twice or too early (OnTunnelFrame, FlushPending, tcp_relay.cpp:467).
THEOREM GameGetsWhatArrives == Spec => []GotAsArrived
<1>1. IInv => GotAsArrived
  <2> SUFFICES ASSUME NEW F, Kept(F) PROVE GotAsArrived
    BY DEF IInv
  <2> QED
    BY DEF Kept, KeptAt, Ahead, GotAsArrived
<1> QED
  BY <1>1, InvariantHolds, PTL

=============================================================================
