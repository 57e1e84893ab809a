------------------------- MODULE RelaySessionProofs -------------------------
(***************************************************************************)
(* Proofs about RelaySession: a station keeps the newest sync, for every   *)
(* width of the counter and every window.                                  *)
(***************************************************************************)
EXTENDS RelaySession, FiniteSetTheorems, TLAPS

-----------------------------------------------------------------------------
(* The inductive invariant, in named parts. *)

\* What tells a sync: its number, the session it is of, and its stamp.
Label(m) == [n |-> m.n, epoch |-> m.epoch, seq |-> m.seq]

\* The syncs in flight, and those that a station's join has applied last.
Flying == {Label(m) : m \in {k \in net : k.kind = "Sync"}}
Heeded == {[n |-> view[s].n, epoch |-> view[s].epoch, seq |-> have[s]] :
              s \in {t \in Station : have[t] # None}}
Known  == Flying \cup Heeded

\* What the packets of n syncs come to at most.
Packets(n) == n * MaxJump

Stamps == 1 .. SeqSpace - 1
Labels == [n: 0 .. MaxSyncs, epoch: 1 .. MaxEpochs, seq: Stamps]

\* Each sync is as far ahead of an older one as the packets between them, which are few.
Spaced(x, y) == Lag(y.seq, x.seq) \in 1 .. Packets(y.n - x.n)

\* The counter is as far ahead of each sync of its session.
CounterAhead ==
    \A x \in Known :
        /\ x.epoch <= epoch /\ x.n <= syncs
        /\ x.epoch = epoch =>
              txSeq # 0 /\ Lag(txSeq, x.seq) \in 0 .. Packets(syncs - x.n)

Newer(x, y) == x.epoch = y.epoch /\ x.n < y.n

SyncsSpaced == \A x, y \in Known : Newer(x, y) => Spaced(x, y)

\* What is still in flight has been overtaken by few packets.
LateIsRecent == \A x \in Flying, y \in Known : Newer(x, y) => Lag(y.seq, x.seq) < MaxLag

\* The bound on syncs leaves one for each member that may be lost.
Budget == syncs + Cardinality(members) <= MaxSyncs

Order == CounterAhead /\ SyncsSpaced /\ LateIsRecent
IInv  == TypeOK /\ Budget /\ Order

-----------------------------------------------------------------------------
(* Arithmetic of the counter. *)

\* ModStep of the ring, for the counter: below twice the space the remainder is at most
\* one subtraction.
LEMMA StampRemainder ==
    ASSUME NEW N \in Nat \ {0}, NEW a \in 0 .. 2 * N - 1
    PROVE  a % N = IF a < N THEN a ELSE a - N
<1>1. CASE a < N
  BY <1>1
<1>2. CASE a >= N
  <2> DEFINE q == a \div N
             r == a % N
  <2>1. q \in Int /\ r \in 0 .. N - 1 /\ a = N * q + r
    OBVIOUS
  <2> HIDE DEF q, r
  <2>2. q # 0
    BY <1>2, <2>1
  <2>3. ASSUME q >= 2 PROVE FALSE
    <3>1. N * q >= N * 2
      BY <2>1, <2>3
    <3> QED
      BY <3>1, <2>1
  <2>4. ASSUME q <= -1 PROVE FALSE
    <3>1. N * q <= N * (-1)
      BY <2>1, <2>4
    <3> QED
      BY <3>1, <2>1
  <2>5. q = 1
    BY <2>1, <2>2, <2>3, <2>4
  <2>6. r = a - N
    BY <2>1, <2>5
  <2> QED
    BY <1>2, <2>6 DEF r
<1> QED
  BY <1>1, <1>2

\* The constants: the packets of all syncs and the window fit in the space.
LEMMA Sizes ==
    /\ SeqSpace \in Nat /\ Window \in Nat /\ MaxLag \in Nat /\ MaxJump \in Nat \ {0}
    /\ MaxSyncs \in Nat /\ MaxEpochs \in Nat \ {0} /\ Timeout \in Nat \ {0} /\ Slots \in Nat
    /\ MaxLag < Window /\ Packets(MaxSyncs) + Window < SeqSpace
    /\ Packets(MaxSyncs) \in Nat
<1>1. MaxSyncs * MaxJump \in Nat
  BY SessionAssumption
<1> QED
  BY <1>1, SessionAssumption, WindowAssumption DEF Packets

\* More syncs are more packets.
LEMMA PacketsGrow ==
    ASSUME NEW n \in 0 .. MaxSyncs
    PROVE  /\ Packets(n) \in Nat /\ Packets(n) <= Packets(MaxSyncs)
           /\ Packets(n + 1) = Packets(n) + MaxJump
<1>1. MaxSyncs \in Nat /\ MaxJump \in Nat
  BY Sizes
<1>2. n * MaxJump \in Nat /\ (n + 1) * MaxJump = n * MaxJump + MaxJump
  BY <1>1
<1>3. (MaxSyncs - n) * MaxJump \in Nat
  BY <1>1
<1>4. MaxSyncs * MaxJump = n * MaxJump + (MaxSyncs - n) * MaxJump
  BY <1>1
<1>5. MaxSyncs * MaxJump \in Nat
  BY <1>1
<1> QED
  BY <1>2, <1>3, <1>4, <1>5 DEF Packets

\* The counter passes over 0 and stays in its width.
LEMMA StampType ==
    ASSUME NEW q \in 0 .. SeqSpace - 1, NEW d \in 1 .. MaxJump, MaxSyncs >= 1
    PROVE  Stamp(q, d) \in Stamps
<1>1. MaxJump <= Packets(MaxSyncs)
  <2>1. 1 \in 0 .. MaxSyncs
    BY Sizes
  <2>2. Packets(1) <= Packets(MaxSyncs)
    BY <2>1, PacketsGrow
  <2>3. Packets(1) = MaxJump
    BY Sizes DEF Packets
  <2> QED
    BY <2>2, <2>3
<1> QED
  BY <1>1, Sizes DEF Stamp, Stamps

\* d packets on, the counter is d further ahead of a stamp, unless it has gone round.
LEMMA StampAhead ==
    ASSUME NEW p \in Stamps, NEW q \in Stamps, NEW d \in Nat \ {0},
           Lag(p, q) + d < SeqSpace - 1
    PROVE  Lag(Stamp(p, d), q) = Lag(p, q) + d
BY Sizes DEF Stamp, Stamps, Lag

\* The 16-bit difference: a stamp that is ahead, by less than the space leaves beside the
\* window, is not stale; one that is behind by less than the window is.
LEMMA WindowTells ==
    ASSUME NEW a \in Stamps, NEW b \in Stamps
    PROVE  /\ Lag(b, a) \in 1 .. Packets(MaxSyncs) => ~((a + SeqSpace - b) % SeqSpace < Window)
           /\ Lag(a, b) < MaxLag => (a + SeqSpace - b) % SeqSpace < Window
<1> DEFINE c == a + SeqSpace - b
<1>1. SeqSpace \in Nat \ {0} /\ c \in 0 .. 2 * SeqSpace - 1
  BY Sizes DEF Stamps
<1>2. c % SeqSpace = IF c < SeqSpace THEN c ELSE c - SeqSpace
  BY <1>1, StampRemainder, Zenon
<1>3. c % SeqSpace = IF b <= a THEN a - b ELSE a + SeqSpace - b
  BY <1>2, <1>1, Sizes DEF Stamps
<1> DEFINE e == c % SeqSpace
<1>4. e = IF b <= a THEN a - b ELSE a + SeqSpace - b
  BY <1>3
<1> HIDE DEF e
<1>5. Lag(b, a) \in 1 .. Packets(MaxSyncs) => ~(e < Window)
  BY <1>4, Sizes DEF Lag, Stamps
<1>6. Lag(a, b) < MaxLag => e < Window
  BY <1>4, Sizes DEF Lag, Stamps
<1> QED
  BY <1>5, <1>6 DEF e
-----------------------------------------------------------------------------
(* Types. *)

HostType ==
    /\ up \in BOOLEAN /\ epoch \in 1 .. MaxEpochs
    /\ up \/ members = {}

SlotType ==
    /\ txSeq \in 0 .. SeqSpace - 1
    /\ members \subseteq Station /\ Cardinality(members) <= Slots
    /\ quiet \in [Station -> 0 .. Timeout - 1]
    /\ syncs \in 0 .. MaxSyncs

StationType ==
    /\ state \in [Station -> {"Station", "StationConnected"}]
    /\ call \in [Station -> BOOLEAN]
    /\ active \in [Station -> BOOLEAN] /\ awaiting \in [Station -> BOOLEAN]
    /\ joined \in [Station -> BOOLEAN]
    /\ have \in [Station -> 0 .. SeqSpace - 1]
    /\ view \in [Station -> View]
    /\ hostQuiet \in [Station -> 0 .. Timeout - 1]

NetType ==
    /\ net \subseteq Message
    /\ calls \in 0 .. MaxCalls /\ repeats \in 0 .. MaxRepeats

LEMMA TypeParts ==
    /\ TypeOK <=> HostType /\ SlotType /\ StationType /\ NetType
    /\ HostType' /\ SlotType' /\ StationType' /\ NetType' => TypeOK'
BY DEF TypeOK, HostType, SlotType, StationType, NetType

\* The slots are finitely many, and with them what is said of their number.
LEMMA MembersFinite ==
    ASSUME NEW list \in SUBSET Station
    PROVE  IsFiniteSet(list) /\ Cardinality(list) \in Nat
BY SessionAssumption, FS_Subset, FS_CardinalityType

\* What is sent is a message, whatever part of it gets through.
LEMMA SendType ==
    ASSUME NEW old \in SUBSET Message, NEW msgs \in SUBSET Message, Send(old, msgs)
    PROVE  net' \subseteq Message
BY DEF Send

\* The messages that the two sides send.
LEMMA MessageTypes ==
    /\ [kind: {"ScanResp"}, to: Station] \subseteq Message
    /\ [kind: {"HostBye"}, to: Station] \subseteq Message
    /\ \A s \in Station :
          /\ [kind: {"Connect"}, from: {s}] \subseteq Message
          /\ [kind: {"Heartbeat"}, from: {s}] \subseteq Message
          /\ [kind: {"Bye"}, from: {s}] \subseteq Message
BY DEF Message

\* What a message of a kind carries.
LEMMA MessageFields ==
    ASSUME NEW m \in Message
    PROVE  /\ m.kind = "Sync" => /\ m.to \in Station /\ m.n \in 1 .. MaxSyncs
                                 /\ m.epoch \in 1 .. MaxEpochs /\ m.seq \in Stamps
           /\ m.kind \in {"ScanResp", "HostBye"} => m.to \in Station
           /\ m.kind \in {"Connect", "Heartbeat", "Bye"} => m.from \in Station
BY DEF Message, Stamps

\* Receiving leaves no more than there was, and uses up a repeat at most.
LEMMA ReceiveType ==
    ASSUME NetType, NEW m \in net, Receive(m)
    PROVE  repeats' \in 0 .. MaxRepeats /\ Rest(m) \subseteq net
BY SessionAssumption DEF NetType, Receive, Rest

\* Telling everyone of the slots keeps the slots' types and sends syncs.
LEMMA UpdateNodesType ==
    ASSUME SlotType, epoch \in 1 .. MaxEpochs, syncs + 1 <= MaxSyncs,
           NEW list \in SUBSET Station, Cardinality(list) <= Slots,
           NEW lastSeen \in [Station -> Nat],
           \A s \in list : lastSeen[s] < Timeout,
           NEW rest \in SUBSET Message,
           UpdateNodes(list, lastSeen, rest)
    PROVE  SlotType' /\ net' \subseteq Message
<1>1. PICK d \in 1 .. MaxJump :
        /\ txSeq' = Stamp(txSeq, d)
        /\ Send(Recent(rest, Stamp(txSeq, d)),
                [kind: {"Sync"}, to: Station, n: {syncs + 1}, epoch: {epoch},
                 seq: {Stamp(txSeq, d)}, list: {list}])
  BY DEF UpdateNodes
<1>2. members' = list /\ syncs' = syncs + 1
      /\ quiet' = [s \in Station |-> IF s \in list THEN lastSeen[s] ELSE 0]
  BY DEF UpdateNodes
<1>3. syncs \in Nat /\ MaxSyncs >= 1 /\ syncs' \in 0 .. MaxSyncs /\ syncs + 1 \in 1 .. MaxSyncs
  BY <1>2, Sizes DEF SlotType
<1>4. Stamp(txSeq, d) \in Stamps
  BY <1>3, StampType DEF SlotType
<1>5. txSeq' \in 0 .. SeqSpace - 1
  BY <1>1, <1>4 DEF Stamps
<1>6. quiet' \in [Station -> 0 .. Timeout - 1]
  BY <1>2, Sizes
<1>7. [kind: {"Sync"}, to: Station, n: {syncs + 1}, epoch: {epoch},
       seq: {Stamp(txSeq, d)}, list: {list}] \subseteq Message
  BY <1>3, <1>4 DEF Message, Stamps
<1>8. Recent(rest, Stamp(txSeq, d)) \subseteq Message
  BY DEF Recent
<1>9. net' \subseteq Message
  BY <1>1, <1>7, <1>8, SendType
<1> QED
  BY <1>2, <1>3, <1>5, <1>6, <1>9 DEF SlotType

\* A step of the host keeps the types, and leaves a sync for each member.
LEMMA HostStepType ==
    ASSUME TypeOK, Budget, HostStep
    PROVE  TypeOK' /\ Budget'
<1> USE DEF Budget, Room
<1>1. HostType /\ SlotType /\ StationType /\ NetType
  BY TypeParts
<1>2. members \in SUBSET Station /\ syncs \in Nat /\ MaxSyncs \in Nat
      /\ Cardinality(members) \in Nat /\ Cardinality(members) <= Slots
  BY <1>1, MembersFinite, Sizes DEF SlotType
<1>3. Cardinality({}) = 0 /\ {} \in SUBSET Station
  BY FS_EmptySet
<1>4. quiet \in [Station -> Nat] /\ \A s \in Station : quiet[s] < Timeout
  BY <1>1, Sizes DEF SlotType
<1>5. net \in SUBSET Message /\ epoch \in 1 .. MaxEpochs
  BY <1>1 DEF NetType, HostType
<1>6. CASE CreateNetwork
  <2>1. UpdateNodes({}, quiet, net) /\ up' = TRUE /\ epoch' = epoch /\ syncs + 1 <= MaxSyncs
    BY <1>6, <1>2 DEF CreateNetwork
  <2>2. SlotType' /\ net' \subseteq Message
    BY <1>1, <1>2, <1>3, <1>4, <1>5, <2>1, UpdateNodesType, Sizes
  <2>3. StationType' /\ NetType' /\ HostType'
    BY <1>1, <1>6, <2>1, <2>2 DEF CreateNetwork, StationType, NetType, HostType, station
  <2>4. members' = {} /\ syncs' = syncs + 1
    BY <2>1 DEF UpdateNodes
  <2> QED
    BY <1>2, <1>3, <2>1, <2>2, <2>3, <2>4, TypeParts
<1>7. CASE DestroyNetwork
  <2>1. /\ up' = FALSE /\ members' = {} /\ quiet' = [s \in Station |-> 0]
        /\ Send(net, [kind: {"HostBye"}, to: Station])
        /\ UNCHANGED <<epoch, txSeq, syncs, station, calls, repeats>>
    BY <1>7 DEF DestroyNetwork, Empty
  <2>2. net' \subseteq Message
    BY <1>5, <2>1, SendType, MessageTypes
  <2>3. SlotType'
    BY <1>1, <1>3, <2>1, Sizes DEF SlotType
  <2>4. HostType' /\ StationType' /\ NetType'
    BY <1>1, <2>1, <2>2, Sizes DEF HostType, StationType, NetType, station
  <2> QED
    BY <1>2, <1>3, <2>1, <2>3, <2>4, TypeParts
<1>8. CASE HostVanishes
  <2>1. /\ up' = FALSE /\ members' = {} /\ quiet' = [s \in Station |-> 0]
        /\ epoch' = epoch + 1 /\ epoch < MaxEpochs /\ txSeq' = 0
        /\ UNCHANGED <<syncs, station, net, calls, repeats>>
    BY <1>8 DEF HostVanishes, Empty
  <2>2. SlotType'
    BY <1>1, <1>3, <2>1, Sizes DEF SlotType
  <2>3. HostType'
    <3>1. epoch + 1 \in 1 .. MaxEpochs
      BY <1>5, <2>1, Sizes
    <3> QED
      BY <2>1, <3>1 DEF HostType
  <2>4. StationType' /\ NetType'
    BY <1>1, <2>1 DEF StationType, NetType, station
  <2> QED
    BY <1>2, <1>3, <2>1, <2>2, <2>3, <2>4, TypeParts
<1>9. CASE SetAdvertiseData
  <2>1. /\ UpdateNodes(members, quiet, net) /\ syncs + Cardinality(members) + 1 <= MaxSyncs
        /\ UNCHANGED <<up, epoch, station, calls, repeats>>
    BY <1>9 DEF SetAdvertiseData
  <2>2. SlotType' /\ net' \subseteq Message
    BY <1>1, <1>2, <1>4, <1>5, <2>1, UpdateNodesType
  <2>3. members' = members /\ syncs' = syncs + 1
    BY <2>1 DEF UpdateNodes
  <2>4. StationType' /\ NetType' /\ HostType'
    BY <1>1, <2>1, <2>2, <2>3 DEF StationType, NetType, HostType, station
  <2> QED
    BY <1>2, <2>1, <2>2, <2>3, <2>4, TypeParts
<1>10. CASE HostBeat
  <2> DEFINE beats  == [s \in Station |-> IF s \in members THEN quiet[s] + 1 ELSE 0]
             silent == {s \in members : beats[s] >= Timeout}
             scan   == [kind: {"ScanResp"}, to: Station]
  <2>1. UNCHANGED <<up, epoch, station, calls, repeats>>
    BY <1>10 DEF HostBeat
  <2>2. beats \in [Station -> Nat]
    BY <1>4
  <2>3. CASE silent = {} /\ quiet' = beats /\ Send(net, scan) /\ UNCHANGED <<txSeq, members, syncs>>
    <3>1. \A s \in Station : beats[s] < Timeout
      BY <1>2, <2>2, <2>3, Sizes
    <3>2. quiet' \in [Station -> 0 .. Timeout - 1]
      BY <2>2, <2>3, <3>1, Sizes
    <3>3. net' \subseteq Message
      BY <1>5, <2>3, SendType, MessageTypes
    <3>4. HostType' /\ SlotType' /\ StationType' /\ NetType'
      BY <1>1, <2>1, <2>3, <3>2, <3>3 DEF HostType, SlotType, StationType, NetType, station
    <3> QED
      BY <2>3, <3>4, TypeParts
  <2>4. CASE silent # {} /\ \E heard \in SUBSET scan :
                               UpdateNodes(members \ silent, beats, net \cup heard)
    <3>1. PICK heard \in SUBSET scan : UpdateNodes(members \ silent, beats, net \cup heard)
      BY <2>4
    <3>2. net \cup heard \in SUBSET Message
      BY <1>5, MessageTypes
    <3>3. members \ silent \in SUBSET Station /\ \A s \in members \ silent : beats[s] < Timeout
      BY <1>2, <2>2, Sizes
    <3>4. PICK s \in silent : TRUE
      BY <2>4
    <3>5. Cardinality(members \ silent) + 1 <= Cardinality(members)
          /\ Cardinality(members \ silent) \in Nat
      <4>1. Cardinality(members \ {s}) = Cardinality(members) - 1
        BY <1>2, <3>4, MembersFinite, FS_RemoveElement
      <4>2. Cardinality(members \ silent) <= Cardinality(members \ {s})
        BY <1>2, <3>4, MembersFinite, FS_Subset
      <4> QED
        BY <1>2, <3>3, <4>1, <4>2, MembersFinite
    <3> HIDE DEF silent, beats
    <3>6. Cardinality(members \ silent) <= Slots /\ syncs + 1 <= MaxSyncs
      BY <1>2, <3>5, Sizes
    <3>7. SlotType' /\ net' \subseteq Message
      BY <1>1, <1>5, <2>2, <3>1, <3>2, <3>3, <3>6, UpdateNodesType
    <3>8. members' = members \ silent /\ syncs' = syncs + 1
      BY <3>1 DEF UpdateNodes
    <3>9. StationType' /\ NetType' /\ HostType'
      BY <1>1, <2>1, <3>7, <3>8 DEF StationType, NetType, HostType, station
    <3> QED
      BY <1>2, <3>5, <3>7, <3>8, <3>9, TypeParts
  <2> QED
    BY <1>10, <2>3, <2>4 DEF HostBeat
<1> QED
  BY <1>6, <1>7, <1>8, <1>9, <1>10 DEF HostStep

\* A datagram that is received, whatever it is, keeps the types.
LEMMA DeliverType ==
    ASSUME TypeOK, Budget, Deliver
    PROVE  TypeOK' /\ Budget'
<1> USE DEF Budget
<1>1. HostType /\ SlotType /\ StationType /\ NetType
  BY TypeParts
<1>2. members \in SUBSET Station /\ syncs \in Nat /\ MaxSyncs \in Nat
      /\ Cardinality(members) \in Nat /\ Cardinality(members) <= Slots
  BY <1>1, MembersFinite, Sizes DEF SlotType
<1>3. quiet \in [Station -> 0 .. Timeout - 1]
      /\ quiet \in [Station -> Nat] /\ \A s \in Station : quiet[s] < Timeout
  BY <1>1, Sizes DEF SlotType
<1>4. epoch \in 1 .. MaxEpochs
  BY <1>1 DEF HostType
<1>5. PICK m \in net : \/ OnConnect(m) \/ OnHeartbeat(m) \/ OnBye(m)
                       \/ OnSyncNetwork(m) \/ OnScanResp(m) \/ OnHostBye(m)
  BY DEF Deliver
<1>6. Receive(m)
  BY <1>5 DEF OnConnect, OnHeartbeat, OnBye, OnSyncNetwork, OnScanResp, OnHostBye
<1>7. repeats' \in 0 .. MaxRepeats /\ Rest(m) \subseteq net
  BY <1>1, <1>6, ReceiveType
<1>8. Rest(m) \in SUBSET Message /\ m \in Message
  BY <1>1, <1>7 DEF NetType
<1>9. Consume(m) => net' \subseteq Message
  BY <1>8 DEF Consume
<1>10. CASE OnConnect(m)
  <2> DEFINE s == m.from
  <2>1. s \in Station /\ UNCHANGED <<up, epoch, station, calls>>
    BY <1>8, <1>10, MessageFields DEF OnConnect
  <2>2. CASE /\ up /\ (s \in members \/ Cardinality(members) < Slots)
             /\ Room(IF s \in members THEN 1 ELSE 2)
             /\ UpdateNodes(members \cup {s}, [quiet EXCEPT ![s] = 0], Rest(m))
    <3>1. members \cup {s} \in SUBSET Station
      BY <1>2, <2>1
    <3>2. Cardinality(members \cup {s}) = IF s \in members THEN Cardinality(members)
                                          ELSE Cardinality(members) + 1
      BY <1>2, MembersFinite, FS_AddElement
    <3>3. /\ Cardinality(members \cup {s}) <= Slots
          /\ syncs + 1 + Cardinality(members \cup {s}) <= MaxSyncs
          /\ syncs + 1 <= MaxSyncs
      BY <1>2, <2>2, <3>2, Sizes DEF Room
    <3>4. /\ [quiet EXCEPT ![s] = 0] \in [Station -> Nat]
          /\ \A t \in Station : [quiet EXCEPT ![s] = 0][t] < Timeout
      BY <1>3, <2>1, Sizes
    <3>5. SlotType' /\ net' \subseteq Message
      BY <1>1, <1>4, <1>8, <2>2, <3>1, <3>3, <3>4, UpdateNodesType
    <3>6. members' = members \cup {s} /\ syncs' = syncs + 1
      BY <2>2 DEF UpdateNodes
    <3>7. HostType' /\ StationType' /\ NetType'
      BY <1>1, <1>7, <2>1, <2>2, <3>5 DEF HostType, StationType, NetType, station
    <3> QED
      BY <3>3, <3>5, <3>6, <3>7, TypeParts
  <2>3. CASE Consume(m) /\ UNCHANGED <<quiet, txSeq, members, syncs>>
    <3>1. HostType' /\ SlotType' /\ StationType' /\ NetType'
      BY <1>1, <1>7, <1>9, <2>1, <2>3 DEF HostType, SlotType, StationType, NetType, station
    <3> QED
      BY <2>3, <3>1, TypeParts
  <2> QED
    BY <1>10, <2>2, <2>3 DEF OnConnect
<1>11. CASE OnHeartbeat(m)
  <2>1. /\ Consume(m) /\ UNCHANGED <<up, epoch, txSeq, members, syncs, station, calls>>
        /\ quiet' = IF up /\ m.from \in members THEN [quiet EXCEPT ![m.from] = 0] ELSE quiet
    BY <1>11 DEF OnHeartbeat
  <2>2. quiet' \in [Station -> 0 .. Timeout - 1]
    <3>1. [quiet EXCEPT ![m.from] = 0] \in [Station -> 0 .. Timeout - 1]
      <4>1. 0 \in 0 .. Timeout - 1
        BY Sizes
      <4> QED
        BY <1>3, <4>1, Zenon
    <3>2. quiet' = quiet \/ quiet' = [quiet EXCEPT ![m.from] = 0]
      BY <2>1
    <3> QED
      BY <1>3, <3>1, <3>2
  <2>3. HostType' /\ SlotType' /\ StationType' /\ NetType'
    BY <1>1, <1>7, <1>9, <2>1, <2>2 DEF HostType, SlotType, StationType, NetType, station
  <2> QED
    BY <2>1, <2>3, TypeParts
<1>12. CASE OnBye(m)
  <2> DEFINE s == m.from
  <2>1. UNCHANGED <<up, epoch, station, calls>>
    BY <1>12 DEF OnBye
  <2>2. CASE s \in members /\ UpdateNodes(members \ {s}, quiet, Rest(m))
    <3>1. members \ {s} \in SUBSET Station
      BY <1>2
    <3>2. Cardinality(members \ {s}) = Cardinality(members) - 1
      BY <1>2, <2>2, MembersFinite, FS_RemoveElement
    <3>3. Cardinality(members \ {s}) \in Nat
      BY <3>1, MembersFinite
    <3>4. /\ Cardinality(members \ {s}) <= Slots /\ syncs + 1 <= MaxSyncs
          /\ syncs + 1 + Cardinality(members \ {s}) <= MaxSyncs
      BY <1>2, <3>2, <3>3, Sizes
    <3>5. SlotType' /\ net' \subseteq Message
      BY <1>1, <1>3, <1>4, <1>8, <2>2, <3>1, <3>4, UpdateNodesType
    <3>6. members' = members \ {s} /\ syncs' = syncs + 1
      BY <2>2 DEF UpdateNodes
    <3>7. HostType' /\ StationType' /\ NetType'
      BY <1>1, <1>7, <2>1, <3>5, <3>6 DEF HostType, StationType, NetType, station
    <3> QED
      BY <3>4, <3>5, <3>6, <3>7, TypeParts
  <2>3. CASE Consume(m) /\ UNCHANGED <<txSeq, members, quiet, syncs>>
    <3>1. HostType' /\ SlotType' /\ StationType' /\ NetType'
      BY <1>1, <1>7, <1>9, <2>1, <2>3 DEF HostType, SlotType, StationType, NetType, station
    <3> QED
      BY <2>3, <3>1, TypeParts
  <2> QED
    BY <1>12, <2>2, <2>3 DEF OnBye
<1>13. ASSUME OnSyncNetwork(m) \/ OnScanResp(m) \/ OnHostBye(m)
       PROVE  Consume(m) /\ UNCHANGED <<host, call, active, awaiting, calls>>
  BY <1>13 DEF OnSyncNetwork, OnScanResp, OnHostBye
<1>14. ASSUME OnSyncNetwork(m) \/ OnScanResp(m) \/ OnHostBye(m), StationType'
       PROVE  TypeOK' /\ Budget'
  <2>1. HostType' /\ SlotType' /\ NetType'
    BY <1>1, <1>7, <1>9, <1>13, <1>14 DEF HostType, SlotType, NetType, host
  <2> QED
    BY <1>13, <1>14, <2>1, TypeParts DEF host
<1>15. ASSUME NEW s \in Station
       PROVE  /\ [hostQuiet EXCEPT ![s] = 0] \in [Station -> 0 .. Timeout - 1]
              /\ [state EXCEPT ![s] = "Station"] \in [Station -> {"Station", "StationConnected"}]
              /\ [state EXCEPT ![s] = "StationConnected"]
                    \in [Station -> {"Station", "StationConnected"}]
              /\ [joined EXCEPT ![s] = FALSE] \in [Station -> BOOLEAN]
  BY <1>1, Sizes DEF StationType
<1>16. CASE OnSyncNetwork(m)
  <2>1. m.to \in Station /\ m.n \in 1 .. MaxSyncs /\ m.epoch \in 1 .. MaxEpochs /\ m.seq \in Stamps
    BY <1>8, <1>16, MessageFields DEF OnSyncNetwork
  <2>2. UNCHANGED joined
    BY <1>16 DEF OnSyncNetwork
  <2>3. CASE Heed(m.to, m)
    <3>1. [n |-> m.n, epoch |-> m.epoch] \in View
      BY <2>1, Sizes DEF View
    <3>2. view' \in [Station -> View]
      BY <1>1, <2>3, <3>1 DEF Heed, StationType
    <3>3. have' \in [Station -> 0 .. SeqSpace - 1]
      BY <1>1, <2>1, <2>3, Sizes DEF Heed, StationType, Stamps
    <3>4. /\ state' \in [Station -> {"Station", "StationConnected"}]
          /\ hostQuiet' \in [Station -> 0 .. Timeout - 1]
      BY <1>1, <1>15, <2>1, <2>3 DEF Heed, StationType
    <3>5. StationType'
      BY <1>1, <1>13, <1>16, <2>2, <3>2, <3>3, <3>4 DEF StationType
    <3> QED
      BY <1>14, <1>16, <3>5
  <2>4. CASE UNCHANGED <<have, view, hostQuiet, state>>
    <3>1. StationType'
      BY <1>1, <1>13, <1>16, <2>2, <2>4 DEF StationType
    <3> QED
      BY <1>14, <1>16, <3>1
  <2> QED
    BY <1>16, <2>3, <2>4 DEF OnSyncNetwork
<1>17. CASE OnScanResp(m)
  <2>1. m.to \in Station
    BY <1>8, <1>17, MessageFields DEF OnScanResp
  <2>2. hostQuiet' \in [Station -> 0 .. Timeout - 1]
    BY <1>1, <1>15, <1>17, <2>1 DEF OnScanResp, StationType
  <2>3. UNCHANGED <<state, joined, have, view>>
    BY <1>17 DEF OnScanResp
  <2>4. StationType'
    BY <1>1, <1>13, <1>17, <2>2, <2>3 DEF StationType
  <2> QED
    BY <1>14, <1>17, <2>4
<1>18. CASE OnHostBye(m)
  <2>1. m.to \in Station
    BY <1>8, <1>18, MessageFields DEF OnHostBye
  <2>2. LeaveHost(m.to) \/ UNCHANGED <<state, joined, hostQuiet>>
    BY <1>18 DEF OnHostBye
  <2>3. /\ state' \in [Station -> {"Station", "StationConnected"}]
        /\ joined' \in [Station -> BOOLEAN]
        /\ hostQuiet' \in [Station -> 0 .. Timeout - 1]
    BY <1>1, <1>15, <2>1, <2>2 DEF LeaveHost, StationType
  <2>4. UNCHANGED <<have, view>>
    BY <1>18 DEF OnHostBye
  <2>5. StationType'
    BY <1>1, <1>13, <1>18, <2>3, <2>4 DEF StationType
  <2> QED
    BY <1>14, <1>18, <2>5
<1> QED
  BY <1>5, <1>10, <1>11, <1>12, <1>16, <1>17, <1>18

\* A step of a station keeps the types.
LEMMA StationStepType ==
    ASSUME TypeOK, Budget, NEW s \in Station, StationStep(s)
    PROVE  TypeOK' /\ Budget'
<1>1. HostType /\ SlotType /\ StationType /\ NetType
  BY TypeParts
<1>2. net \in SUBSET Message
  BY <1>1 DEF NetType
<1>3. /\ UNCHANGED host /\ UNCHANGED repeats
      /\ UNCHANGED calls \/ (calls < MaxCalls /\ calls' = calls + 1)
  <2>1. CASE Connect(s)
    BY <2>1 DEF Connect
  <2>2. CASE Retransmit(s)
    BY <2>2 DEF Retransmit
  <2>3. CASE ConnectReturns(s)
    BY <2>3 DEF ConnectReturns
  <2>4. CASE ConnectFails(s)
    BY <2>4 DEF ConnectFails
  <2>5. CASE StationBeat(s)
    BY <2>5 DEF StationBeat
  <2>6. CASE Disconnect(s)
    BY <2>6 DEF Disconnect
  <2>7. CASE StationVanishes(s)
    BY <2>7 DEF StationVanishes
  <2> QED
    BY <2>1, <2>2, <2>3, <2>4, <2>5, <2>6, <2>7 DEF StationStep
<1>4. net' \subseteq Message
  <2>1. \/ UNCHANGED net
        \/ Send(net, [kind: {"Connect"}, from: {s}])
        \/ Send(net, [kind: {"Heartbeat"}, from: {s}])
        \/ Send(net, [kind: {"Bye"}, from: {s}])
    BY DEF StationStep, Connect, Retransmit, ConnectReturns, ConnectFails, StationBeat,
           Disconnect, StationVanishes
  <2> QED
    BY <1>2, <2>1, SendType, MessageTypes
<1>5. HostType' /\ SlotType' /\ Budget'
  BY <1>1, <1>3 DEF HostType, SlotType, Budget, host
<1>6. NetType'
  BY <1>1, <1>3, <1>4, SessionAssumption DEF NetType
<1>7. ASSUME NEW b \in BOOLEAN
      PROVE  /\ [call EXCEPT ![s] = b] \in [Station -> BOOLEAN]
             /\ [active EXCEPT ![s] = b] \in [Station -> BOOLEAN]
             /\ [awaiting EXCEPT ![s] = b] \in [Station -> BOOLEAN]
             /\ [joined EXCEPT ![s] = b] \in [Station -> BOOLEAN]
  BY <1>1 DEF StationType
<1>8. /\ [state EXCEPT ![s] = "Station"] \in [Station -> {"Station", "StationConnected"}]
      /\ [have EXCEPT ![s] = None] \in [Station -> 0 .. SeqSpace - 1]
      /\ [hostQuiet EXCEPT ![s] = 0] \in [Station -> 0 .. Timeout - 1]
      /\ [view EXCEPT ![s] = NoView] \in [Station -> View]
  <2>1. NoView \in View
    BY Sizes DEF NoView, View
  <2>2. None \in 0 .. SeqSpace - 1 /\ 0 \in 0 .. Timeout - 1
    BY SessionAssumption DEF None
  <2> QED
    BY <1>1, <2>1, <2>2 DEF StationType
<1>9. StationType'
  <2>1. CASE Connect(s) \/ Retransmit(s) \/ ConnectReturns(s) \/ ConnectFails(s)
    BY <1>1, <1>7, <1>8, <2>1
       DEF Connect, Retransmit, ConnectReturns, ConnectFails, StationType, station
  <2>2. CASE StationBeat(s)
    <3>1. CASE LeaveHost(s)
      BY <1>1, <1>7, <1>8, <2>2, <3>1 DEF StationBeat, LeaveHost, StationType
    <3>2. CASE /\ hostQuiet[s] + 1 < Timeout
               /\ hostQuiet' = [hostQuiet EXCEPT ![s] = @ + 1]
               /\ UNCHANGED <<state, joined>>
      <4>1. hostQuiet[s] + 1 \in 0 .. Timeout - 1
        BY <1>1, <3>2, Sizes DEF StationType
      <4>2. hostQuiet' \in [Station -> 0 .. Timeout - 1]
        BY <1>1, <3>2, <4>1 DEF StationType
      <4> QED
        BY <1>1, <2>2, <3>2, <4>2 DEF StationBeat, StationType
    <3> QED
      BY <2>2, <3>1, <3>2 DEF StationBeat
  <2>3. CASE Disconnect(s) \/ StationVanishes(s)
    BY <1>1, <1>7, <1>8, <2>3 DEF Disconnect, StationVanishes, Forget, StationType
  <2> QED
    BY <2>1, <2>2, <2>3 DEF StationStep
<1> QED
  BY <1>5, <1>6, <1>9, TypeParts

LEMMA InitType == Init => TypeOK /\ Budget
<1> SUFFICES ASSUME Init PROVE TypeOK /\ Budget
  OBVIOUS
<1>1. Cardinality({}) = 0
  BY FS_EmptySet
<1>2. HostType
  <2>1. 1 \in 1 .. MaxEpochs
    BY Sizes
  <2> QED
    BY <2>1, Zenon DEF Init, HostType
<1>3. SlotType
  BY <1>1, Sizes, SessionAssumption DEF Init, SlotType
<1>4. NoView \in View
  BY Sizes DEF NoView, View
<1>5. StationType
  BY <1>4, SessionAssumption DEF Init, StationType, None
<1>6. NetType
  BY SessionAssumption DEF Init, NetType
<1>7. Budget
  BY <1>1, Sizes DEF Init, Budget
<1> QED
  BY <1>2, <1>3, <1>5, <1>6, <1>7, TypeParts

-----------------------------------------------------------------------------
(* The order of syncs. *)

LEMMA KnownType == TypeOK => Known \subseteq Labels /\ Flying \subseteq Known
<1> SUFFICES ASSUME TypeOK PROVE Known \subseteq Labels
  BY DEF Known
<1>1. StationType /\ NetType
  BY TypeParts
<1>2. ASSUME NEW m \in net, m.kind = "Sync" PROVE Label(m) \in Labels
  <2>1. /\ m.n \in 1 .. MaxSyncs /\ m.epoch \in 1 .. MaxEpochs /\ m.seq \in Stamps
    BY <1>1, <1>2, MessageFields DEF NetType
  <2> QED
    BY <2>1, Sizes DEF Label, Labels
<1>3. ASSUME NEW s \in Station, have[s] # None
      PROVE  [n |-> view[s].n, epoch |-> view[s].epoch, seq |-> have[s]] \in Labels
  <2>1. have[s] \in Stamps
    BY <1>1, <1>3, Sizes DEF StationType, None, Stamps
  <2>2. view[s].n \in 0 .. MaxSyncs /\ view[s].epoch \in 1 .. MaxEpochs
    BY <1>1 DEF StationType, View
  <2> QED
    BY <2>1, <2>2 DEF Labels
<1> QED
  BY <1>2, <1>3 DEF Known, Flying, Heeded

\* To lose syncs, or forget or apply some, leaves the rest in order.
LEMMA FewerInOrder ==
    ASSUME Order, UNCHANGED <<epoch, txSeq, syncs>>,
           Flying' \subseteq Flying, Known' \subseteq Known
    PROVE  Order'
<1>1. CounterAhead'
  BY DEF Order, CounterAhead
<1>2. SyncsSpaced'
  BY DEF Order, SyncsSpaced
<1>3. LateIsRecent'
  BY DEF Order, LateIsRecent
<1> QED
  BY <1>1, <1>2, <1>3 DEF Order

\* To publish a sync puts it ahead of all others, and leaves in flight only what it has
\* not overtaken too far.
LEMMA UpdateInOrder ==
    ASSUME TypeOK, Order, syncs + 1 <= MaxSyncs, UNCHANGED <<epoch, have, view>>,
           NEW list, NEW lastSeen, NEW rest,
           \A m \in rest : m.kind = "Sync" => m \in net,
           UpdateNodes(list, lastSeen, rest)
    PROVE  Order'
<1>1. PICK d \in 1 .. MaxJump :
        /\ txSeq' = Stamp(txSeq, d)
        /\ Send(Recent(rest, Stamp(txSeq, d)),
                [kind: {"Sync"}, to: Station, n: {syncs + 1}, epoch: {epoch},
                 seq: {Stamp(txSeq, d)}, list: {list}])
  BY DEF UpdateNodes
<1> DEFINE q == Stamp(txSeq, d)
           new == [n |-> syncs + 1, epoch |-> epoch, seq |-> q]
           Kept(x) == x \in Flying /\ (x.epoch = epoch => Lag(q, x.seq) < MaxLag)
<1>2. syncs' = syncs + 1 /\ syncs \in Nat /\ MaxSyncs \in Nat /\ d \in Nat \ {0}
      /\ txSeq \in 0 .. SeqSpace - 1 /\ MaxSyncs >= 1
  BY Sizes DEF UpdateNodes, TypeOK
<1>3. q \in Stamps
  BY <1>2, StampType
<1>4. Heeded' = Heeded
  BY DEF Heeded
<1>5. ASSUME NEW x \in Flying' PROVE Kept(x) \/ x = new
  <2>1. PICK m \in net' : m.kind = "Sync" /\ x = Label(m)
    BY DEF Flying, Label
  <2>2. CASE m \in Recent(rest, q)
    <3>1. m \in net /\ (m.epoch = epoch => Lag(q, m.seq) < MaxLag)
      BY <2>1, <2>2 DEF Recent
    <3>2. x \in Flying
      BY <2>1, <3>1 DEF Flying
    <3>3. x.epoch = m.epoch /\ x.seq = m.seq
      BY <2>1 DEF Label
    <3> QED
      BY <3>1, <3>2, <3>3
  <2>3. CASE m \in [kind: {"Sync"}, to: Station, n: {syncs + 1}, epoch: {epoch},
                    seq: {q}, list: {list}]
    BY <2>1, <2>3 DEF Label
  <2>4. net' \subseteq Recent(rest, q) \cup [kind: {"Sync"}, to: Station, n: {syncs + 1},
                                             epoch: {epoch}, seq: {q}, list: {list}]
    BY <1>1 DEF Send
  <2> QED
    BY <2>2, <2>3, <2>4
<1>6. Known \subseteq Labels /\ Flying \subseteq Known
  BY KnownType
<1>7. ASSUME NEW x \in Known'
      PROVE  x \in Known \/ x = new
  BY <1>4, <1>5, <1>6 DEF Known
<1>8. ASSUME NEW x \in Known, x.epoch = epoch
      PROVE  Lag(q, x.seq) \in 1 .. Packets((syncs + 1) - x.n)
  <2>1. /\ x.n \in 0 .. MaxSyncs /\ x.seq \in Stamps /\ x.n <= syncs
        /\ txSeq \in Stamps /\ Lag(txSeq, x.seq) \in 0 .. Packets(syncs - x.n)
    BY <1>2, <1>6, <1>8 DEF Labels, Order, CounterAhead, Stamps
  <2> DEFINE k == syncs - x.n
  <2>2. k \in 0 .. MaxSyncs /\ k + 1 \in 0 .. MaxSyncs /\ (syncs + 1) - x.n = k + 1
    BY <1>2, <2>1
  <2> HIDE DEF k
  <2>3. /\ Packets(k) \in Nat /\ Packets(k + 1) = Packets(k) + MaxJump
        /\ Packets(k + 1) <= Packets(MaxSyncs)
    BY <2>2, PacketsGrow
  <2>4. Lag(txSeq, x.seq) + d <= Packets(k + 1) /\ Lag(txSeq, x.seq) \in Nat
    BY <1>2, <2>1, <2>3, Sizes DEF k
  <2>5. Lag(txSeq, x.seq) + d < SeqSpace - 1
    BY <1>2, <2>3, <2>4, Sizes
  <2>6. Lag(q, x.seq) = Lag(txSeq, x.seq) + d
    BY <1>2, <2>1, <2>5, StampAhead
  <2> QED
    BY <1>2, <2>2, <2>3, <2>4, <2>6, Sizes
<1>9. Lag(q, q) = 0 /\ Packets(0) \in Nat
  BY <1>3, Sizes DEF Lag, Stamps, Packets
<1>10. new.n = syncs + 1 /\ new.epoch = epoch /\ new.seq = q
  OBVIOUS
<1> HIDE DEF new, q, Kept
<1>11. txSeq' = q
  BY <1>1 DEF q
<1>12. CounterAhead'
  <2> SUFFICES ASSUME NEW x \in Known'
               PROVE  /\ x.epoch <= epoch /\ x.n <= syncs + 1
                      /\ x.epoch = epoch => q # 0 /\ Lag(q, x.seq) \in 0 .. Packets((syncs + 1) - x.n)
    <3>1. epoch' = epoch /\ syncs' = syncs + 1 /\ txSeq' = q
      BY <1>2, <1>11
    <3> QED
      BY <3>1, Zenon DEF CounterAhead
  <2>1. q # 0
    BY <1>3 DEF Stamps
  <2>2. CASE x \in Known
    <3>1. x.epoch <= epoch /\ x.n <= syncs /\ x.n \in 0 .. MaxSyncs
      BY <1>6, <2>2 DEF Order, CounterAhead, Labels
    <3>2. x.epoch = epoch => Lag(q, x.seq) \in 0 .. Packets((syncs + 1) - x.n)
      BY <1>8, <2>2
    <3> QED
      BY <1>2, <2>1, <3>1, <3>2
  <2>3. CASE x = new
    <3>1. epoch <= epoch
      BY TypeParts DEF HostType
    <3>2. (syncs + 1) - x.n = 0 /\ x.n <= syncs + 1
      BY <1>2, <1>10, <2>3
    <3> QED
      BY <1>9, <1>10, <2>1, <2>3, <3>1, <3>2
  <2> QED
    BY <1>7, <2>2, <2>3
<1>13. ASSUME NEW x \in Known', NEW y \in Known', Newer(x, y)
       PROVE  x \in Known /\ (y \in Known \/ y = new)
  <2>1. \A z \in Known : z.n \in Nat /\ z.n <= syncs
    BY <1>6, Sizes DEF Labels, Order, CounterAhead
  <2>2. x # new
    BY <1>2, <1>7, <1>10, <1>13, <2>1 DEF Newer
  <2> QED
    BY <1>7, <2>2
<1>14. SyncsSpaced'
  <2> SUFFICES ASSUME NEW x \in Known', NEW y \in Known', Newer(x, y) PROVE Spaced(x, y)
    BY DEF SyncsSpaced
  <2>1. CASE y \in Known
    BY <1>13, <2>1 DEF Order, SyncsSpaced
  <2>2. CASE y = new
    <3>1. x.epoch = epoch /\ y.seq = q /\ y.n - x.n = (syncs + 1) - x.n
      <4>1. y.n = syncs + 1 /\ y.epoch = epoch /\ y.seq = q
        BY <1>10, <2>2
      <4>2. x.epoch = epoch
        BY <4>1 DEF Newer
      <4>3. y.n - x.n = (syncs + 1) - x.n
        BY <4>1, Zenon
      <4> QED
        BY <4>1, <4>2, <4>3
    <3>2. Lag(q, x.seq) \in 1 .. Packets((syncs + 1) - x.n)
      BY <1>8, <1>13, <3>1
    <3> QED
      BY <3>1, <3>2, Zenon DEF Spaced
  <2> QED
    BY <1>13, <2>1, <2>2
<1>15. LateIsRecent'
  <2> SUFFICES ASSUME NEW x \in Flying', NEW y \in Known', Newer(x, y)
               PROVE  Lag(y.seq, x.seq) < MaxLag
    BY DEF LateIsRecent
  <2>1. x \in Known' /\ x # new
    <3>1. x \in Known'
      BY DEF Known
    <3>2. \A z \in Known : z.n \in Nat /\ z.n <= syncs
      BY <1>6, Sizes DEF Labels, Order, CounterAhead
    <3> QED
      BY <1>2, <1>7, <1>10, <3>1, <3>2 DEF Newer
  <2>2. x \in Flying /\ (x.epoch = epoch => Lag(q, x.seq) < MaxLag)
    BY <1>5, <2>1 DEF Kept
  <2>3. CASE y \in Known
    BY <2>2, <2>3 DEF Order, LateIsRecent
  <2>4. CASE y = new
    BY <1>10, <2>2, <2>4 DEF Newer
  <2> QED
    BY <1>7, <2>3, <2>4
<1> QED
  BY <1>12, <1>14, <1>15 DEF Order

\* What is on the way but not a sync is not known by any number.
LEMMA OthersInOrder ==
    ASSUME Order, UNCHANGED <<epoch, txSeq, syncs, have, view>>,
           \A m \in net' : m.kind = "Sync" => m \in net
    PROVE  Order'
<1>1. Flying' \subseteq Flying /\ Heeded' = Heeded
  BY DEF Flying, Heeded, Label
<1> QED
  BY <1>1, FewerInOrder DEF Known

LEMMA OneAtLeast ==
    ASSUME members \subseteq Station, NEW s \in members
    PROVE  Cardinality(members) >= 1
<1>1. /\ Cardinality(members) \in Nat /\ Cardinality(members \ {s}) \in Nat
      /\ IsFiniteSet(members)
  BY MembersFinite
<1>2. Cardinality(members \ {s}) = Cardinality(members) - 1
  BY <1>1, FS_RemoveElement
<1> QED
  BY <1>1, <1>2

LEMMA HostStepInOrder ==
    ASSUME TypeOK, Order, Budget, HostStep
    PROVE  Order'
<1>1. \A m \in net : m.kind = "Sync" => m \in net
  OBVIOUS
<1>2. syncs \in Nat /\ MaxSyncs \in Nat /\ Cardinality(members) \in Nat /\ members \subseteq Station
  BY MembersFinite, Sizes DEF TypeOK
<1>3. Cardinality({}) = 0
  BY FS_EmptySet
<1>4. CASE CreateNetwork
  <2>1. /\ UpdateNodes({}, quiet, net) /\ UNCHANGED <<epoch, have, view>>
        /\ syncs + Cardinality(members) + 1 <= MaxSyncs
    BY <1>4 DEF CreateNetwork, Room, station
  <2>2. syncs + 1 <= MaxSyncs
    BY <1>2, <2>1
  <2> QED
    BY <1>1, <2>1, <2>2, UpdateInOrder
<1>5. CASE DestroyNetwork
  <2>1. Send(net, [kind: {"HostBye"}, to: Station])
        /\ UNCHANGED <<epoch, txSeq, syncs, have, view>>
    BY <1>5 DEF DestroyNetwork, station
  <2>2. \A m \in net' : m.kind = "Sync" => m \in net
    BY <2>1 DEF Send
  <2> QED
    BY <2>1, <2>2, OthersInOrder
<1>6. CASE HostVanishes
  <2>1. epoch' = epoch + 1 /\ UNCHANGED <<syncs, have, view, net>>
    BY <1>6 DEF HostVanishes, station
  <2>2. Flying' = Flying /\ Known' = Known
    BY <2>1 DEF Known, Flying, Heeded
  <2>3. \A x \in Known : x.epoch \in Nat /\ epoch \in Nat /\ x.epoch <= epoch /\ x.n <= syncs
    BY KnownType, Sizes DEF Labels, Order, CounterAhead, TypeOK
  <2>4. \A x \in Known : x.epoch <= epoch + 1 /\ x.epoch # epoch + 1
    BY <2>3
  <2>5. CounterAhead'
    BY <2>1, <2>2, <2>3, <2>4 DEF CounterAhead
  <2>6. SyncsSpaced' /\ LateIsRecent'
    BY <2>2 DEF Order, SyncsSpaced, LateIsRecent
  <2> QED
    BY <2>5, <2>6 DEF Order
<1>7. CASE SetAdvertiseData
  <2>1. /\ UpdateNodes(members, quiet, net) /\ UNCHANGED <<epoch, have, view>>
        /\ syncs + Cardinality(members) + 1 <= MaxSyncs
    BY <1>7 DEF SetAdvertiseData, Room, station
  <2>2. syncs + 1 <= MaxSyncs
    BY <1>2, <2>1
  <2> QED
    BY <1>1, <2>1, <2>2, UpdateInOrder
<1>8. CASE HostBeat
  <2> DEFINE beats  == [s \in Station |-> IF s \in members THEN quiet[s] + 1 ELSE 0]
             silent == {s \in members : beats[s] >= Timeout}
             scan   == [kind: {"ScanResp"}, to: Station]
  <2>1. UNCHANGED <<epoch, have, view>>
    BY <1>8 DEF HostBeat, station
  <2>2. CASE Send(net, scan) /\ UNCHANGED <<txSeq, members, syncs>>
    <3>1. \A m \in net' : m.kind = "Sync" => m \in net
      BY <2>2 DEF Send
    <3> QED
      BY <2>1, <2>2, <3>1, OthersInOrder
  <2>3. CASE silent # {} /\ \E heard \in SUBSET scan :
                               UpdateNodes(members \ silent, beats, net \cup heard)
    <3>1. PICK heard \in SUBSET scan : UpdateNodes(members \ silent, beats, net \cup heard)
      BY <2>3
    <3>2. \A m \in net \cup heard : m.kind = "Sync" => m \in net
      OBVIOUS
    <3>3. PICK s \in silent : TRUE
      BY <2>3
    <3>4. Cardinality(members) >= 1
      <4>1. s \in members
        BY <3>3
      <4> QED
        BY <1>2, <4>1, OneAtLeast
    <3>5. syncs + 1 <= MaxSyncs
      BY <1>2, <3>4 DEF Budget
    <3> HIDE DEF silent, beats, scan
    <3> QED
      BY <2>1, <3>1, <3>2, <3>5, UpdateInOrder
  <2> QED
    BY <1>8, <2>2, <2>3 DEF HostBeat
<1> QED
  BY <1>4, <1>5, <1>6, <1>7, <1>8 DEF HostStep

LEMMA DeliverInOrder ==
    ASSUME TypeOK, Order, Budget, Deliver
    PROVE  Order'
<1>1. syncs \in Nat /\ MaxSyncs \in Nat /\ Cardinality(members) \in Nat /\ members \subseteq Station
  BY MembersFinite, Sizes DEF TypeOK
<1>2. PICK m \in net : \/ OnConnect(m) \/ OnHeartbeat(m) \/ OnBye(m)
                       \/ OnSyncNetwork(m) \/ OnScanResp(m) \/ OnHostBye(m)
  BY DEF Deliver
<1>3. Rest(m) \subseteq net /\ \A k \in Rest(m) : k.kind = "Sync" => k \in net
  BY DEF Rest
<1>4. Consume(m) => net' \subseteq net
  BY <1>3 DEF Consume
<1>5. CASE OnConnect(m)
  <2> DEFINE s == m.from
  <2>1. UNCHANGED <<epoch, have, view>>
    BY <1>5 DEF OnConnect, station
  <2>2. CASE /\ Room(IF s \in members THEN 1 ELSE 2)
             /\ UpdateNodes(members \cup {s}, [quiet EXCEPT ![s] = 0], Rest(m))
    <3>1. syncs + 1 <= MaxSyncs
      BY <1>1, <2>2 DEF Room
    <3> QED
      BY <1>3, <2>1, <2>2, <3>1, UpdateInOrder
  <2>3. CASE Consume(m) /\ UNCHANGED <<quiet, txSeq, members, syncs>>
    BY <1>4, <2>1, <2>3, OthersInOrder
  <2> QED
    BY <1>5, <2>2, <2>3 DEF OnConnect
<1>6. CASE OnBye(m)
  <2> DEFINE s == m.from
  <2>1. UNCHANGED <<epoch, have, view>>
    BY <1>6 DEF OnBye, station
  <2>2. CASE s \in members /\ UpdateNodes(members \ {s}, quiet, Rest(m))
    <3>1. Cardinality(members) >= 1
      BY <1>1, <2>2, OneAtLeast
    <3>2. syncs + 1 <= MaxSyncs
      BY <1>1, <3>1 DEF Budget
    <3> QED
      BY <1>3, <2>1, <2>2, <3>2, UpdateInOrder
  <2>3. CASE Consume(m) /\ UNCHANGED <<txSeq, members, quiet, syncs>>
    BY <1>4, <2>1, <2>3, OthersInOrder
  <2> QED
    BY <1>6, <2>2, <2>3 DEF OnBye
<1>7. CASE OnHeartbeat(m) \/ OnScanResp(m) \/ OnHostBye(m)
  <2>1. Consume(m) /\ UNCHANGED <<epoch, txSeq, syncs, have, view>>
    BY <1>7 DEF OnHeartbeat, OnScanResp, OnHostBye, host, station
  <2> QED
    BY <1>4, <2>1, OthersInOrder
<1>8. CASE OnSyncNetwork(m)
  <2>1. m.kind = "Sync" /\ Consume(m) /\ UNCHANGED <<epoch, txSeq, syncs>>
    BY <1>8 DEF OnSyncNetwork, host
  <2>2. Flying' \subseteq Flying
    BY <1>4, <2>1 DEF Flying, Label
  <2>3. m.to \in Station
    BY <2>1, MessageFields DEF TypeOK
  <2>4. CASE UNCHANGED <<have, view>>
    <3>1. Known' \subseteq Known
      BY <2>2, <2>4 DEF Known, Heeded
    <3> QED
      BY <2>1, <2>2, <3>1, FewerInOrder
  <2>5. CASE Heed(m.to, m)
    <3>1. Heeded' \subseteq Heeded \cup {Label(m)}
      <4> SUFFICES ASSUME NEW s \in Station, have'[s] # None
                   PROVE  [n |-> view'[s].n, epoch |-> view'[s].epoch, seq |-> have'[s]]
                             \in Heeded \cup {Label(m)}
        BY DEF Heeded
      <4>1. CASE s = m.to
        BY <2>3, <2>5, <4>1 DEF Heed, Label, TypeOK
      <4>2. CASE s # m.to
        <5>1. have'[s] = have[s] /\ view'[s] = view[s]
          BY <2>3, <2>5, <4>2 DEF Heed, TypeOK
        <5> QED
          BY <5>1 DEF Heeded
      <4> QED
        BY <4>1, <4>2
    <3>2. Label(m) \in Flying
      BY <2>1 DEF Flying
    <3>3. Known' \subseteq Known
      BY <2>2, <3>1, <3>2 DEF Known
    <3> QED
      BY <2>1, <2>2, <3>3, FewerInOrder
  <2> QED
    BY <1>8, <2>4, <2>5 DEF OnSyncNetwork
<1> QED
  BY <1>2, <1>5, <1>6, <1>7, <1>8

LEMMA StationStepInOrder ==
    ASSUME TypeOK, Order, NEW s \in Station, StationStep(s)
    PROVE  Order'
<1>1. UNCHANGED <<epoch, txSeq, syncs>>
  <2>1. UNCHANGED host
    BY DEF StationStep, Connect, Retransmit, ConnectReturns, ConnectFails, StationBeat,
           Disconnect, StationVanishes
  <2> QED
    BY <2>1 DEF host
<1>2. \A m \in net' : m.kind = "Sync" => m \in net
  <2>1. \/ UNCHANGED net
        \/ Send(net, [kind: {"Connect"}, from: {s}])
        \/ Send(net, [kind: {"Heartbeat"}, from: {s}])
        \/ Send(net, [kind: {"Bye"}, from: {s}])
    BY DEF StationStep, Connect, Retransmit, ConnectReturns, ConnectFails, StationBeat,
           Disconnect, StationVanishes
  <2>2. ASSUME NEW kind \in {"Connect", "Heartbeat", "Bye"},
               Send(net, [kind: {kind}, from: {s}])
        PROVE  \A m \in net' : m.kind = "Sync" => m \in net
    BY <2>2 DEF Send
  <2> QED
    BY <2>1, <2>2
<1>3. \/ UNCHANGED <<have, view>>
      \/ have' = [have EXCEPT ![s] = None] /\ UNCHANGED view
      \/ have' = [have EXCEPT ![s] = None] /\ view' = [view EXCEPT ![s] = NoView]
  BY DEF StationStep, Connect, Retransmit, ConnectReturns, ConnectFails, StationBeat,
         Disconnect, StationVanishes, Forget, station
<1>4. Heeded' \subseteq Heeded
  <2> SUFFICES ASSUME NEW t \in Station, have'[t] # None
               PROVE  [n |-> view'[t].n, epoch |-> view'[t].epoch, seq |-> have'[t]] \in Heeded
    BY DEF Heeded
  <2>1. have'[t] = have[t] /\ view'[t] = view[t]
    BY <1>3 DEF TypeOK
  <2> QED
    BY <2>1 DEF Heeded
<1>5. Flying' \subseteq Flying
  BY <1>2 DEF Flying, Label
<1> QED
  BY <1>1, <1>4, <1>5, FewerInOrder DEF Known

-----------------------------------------------------------------------------
(* The theorems. *)

LEMMA IInvInductive == IInv /\ [Next]_vars => IInv'
<1> SUFFICES ASSUME IInv, [Next]_vars PROVE IInv'
  OBVIOUS
<1>1. TypeOK /\ Budget /\ Order
  BY DEF IInv
<1>2. CASE HostStep
  BY <1>1, <1>2, HostStepType, HostStepInOrder DEF IInv
<1>3. CASE Deliver
  BY <1>1, <1>3, DeliverType, DeliverInOrder DEF IInv
<1>4. CASE \E s \in Station : StationStep(s)
  BY <1>1, <1>4, StationStepType, StationStepInOrder DEF IInv
<1>5. CASE UNCHANGED vars
  <2>1. TypeOK' /\ Budget'
    BY <1>1, <1>5 DEF TypeOK, Budget, vars, host, station
  <2>2. UNCHANGED <<epoch, txSeq, syncs, have, view, net>>
    BY <1>5 DEF vars, host, station
  <2>3. Order'
    BY <1>1, <2>2, OthersInOrder
  <2> QED
    BY <2>1, <2>3 DEF IInv
<1> QED
  BY <1>2, <1>3, <1>4, <1>5 DEF Next

LEMMA IInvInit == Init => IInv
<1> SUFFICES ASSUME Init PROVE IInv
  OBVIOUS
<1>1. TypeOK /\ Budget
  BY InitType
<1>2. Known = {}
  BY DEF Init, Known, Flying, Heeded
<1>3. Order
  BY <1>2 DEF Order, CounterAhead, SyncsSpaced, LateIsRecent, Known
<1> QED
  BY <1>1, <1>3 DEF IInv

\* TypeOK: the counter, the slots, the numbers of syncs and the beats stay in range, for
\* every number of stations, width, window and bound.
THEOREM TypeCorrect == Spec => []TypeOK
<1>1. IInv => TypeOK
  BY DEF IInv
<1> QED
  BY <1>1, IInvInit, IInvInductive, PTL DEF Spec

\* NewestSyncWins: for every width of the counter and every window between what the relay
\* may delay and what a session sends, a station that has a sync replaces it by the newer
\* ones and by these only, whatever is lost, repeated or reordered and wherever the counter
\* wraps.
THEOREM WindowIsRight == Spec => NewestSyncWins
<1> DEFINE Heeds(m) ==
             (/\ OnSyncNetwork(m)
              /\ active[m.to] /\ have[m.to] # None
              /\ m.epoch = view[m.to].epoch)
             => view'[m.to].n = IF m.n > view[m.to].n THEN m.n ELSE view[m.to].n
<1>1. IInv => \A m \in net : Heeds(m)
  <2> SUFFICES ASSUME IInv, NEW m \in net, OnSyncNetwork(m),
                      active[m.to], have[m.to] # None, m.epoch = view[m.to].epoch
               PROVE  view'[m.to].n = IF m.n > view[m.to].n THEN m.n ELSE view[m.to].n
    OBVIOUS
  <2> DEFINE s == m.to
             x == Label(m)
             y == [n |-> view[s].n, epoch |-> view[s].epoch, seq |-> have[s]]
  <2>1. m.kind = "Sync" /\ s \in Station /\ view \in [Station -> View]
    BY MessageFields DEF OnSyncNetwork, IInv, TypeOK
  <2>2. x \in Flying /\ x \in Known /\ y \in Known /\ x \in Labels /\ y \in Labels
    <3>1. x \in Flying
      BY <2>1 DEF Flying
    <3>2. y \in Heeded
      BY <2>1 DEF Heeded
    <3> QED
      BY <3>1, <3>2, KnownType DEF Known, IInv
  <2>3. /\ x.n = m.n /\ x.epoch = m.epoch /\ x.seq = m.seq
        /\ y.n = view[s].n /\ y.epoch = m.epoch /\ y.seq = have[s]
    BY DEF Label
  <2>4. /\ m.n \in 0 .. MaxSyncs /\ view[s].n \in 0 .. MaxSyncs
        /\ m.seq \in Stamps /\ have[s] \in Stamps
    BY <2>2, <2>3 DEF Labels
  <2>5. Stale(s, m.seq) <=> (have[s] + SeqSpace - m.seq) % SeqSpace < Window
    BY Zenon DEF Stale
  <2>6. ~Stale(s, m.seq) => view'[s].n = m.n
    BY <2>1 DEF OnSyncNetwork, Heed
  <2>7. Stale(s, m.seq) => view' = view
    BY DEF OnSyncNetwork
  <2>8. CASE m.n > view[s].n
    <3>1. Newer(y, x)
      BY <2>3, <2>8 DEF Newer
    <3>2. Lag(m.seq, have[s]) \in 1 .. Packets(m.n - view[s].n)
      BY <2>2, <2>3, <3>1, Zenon DEF IInv, Order, SyncsSpaced, Spaced
    <3>3. m.n - view[s].n \in 0 .. MaxSyncs
      BY <2>4, <2>8, Sizes
    <3>4. Lag(m.seq, have[s]) \in 1 .. Packets(MaxSyncs)
      <4> DEFINE k == m.n - view[s].n
      <4>1. k \in 0 .. MaxSyncs /\ Lag(m.seq, have[s]) \in 1 .. Packets(k)
        BY <3>2, <3>3
      <4> HIDE DEF k
      <4>2. Packets(k) \in Nat /\ Packets(k) <= Packets(MaxSyncs)
        BY <4>1, PacketsGrow
      <4> QED
        BY <4>1, <4>2, Sizes
    <3>5. ~Stale(s, m.seq)
      BY <2>4, <2>5, <3>4, WindowTells
    <3> QED
      BY <2>6, <2>8, <3>5
  <2>9. CASE m.n < view[s].n
    <3>1. Newer(x, y)
      BY <2>3, <2>9 DEF Newer
    <3>2. Lag(have[s], m.seq) < MaxLag
      BY <2>2, <2>3, <3>1, Zenon DEF IInv, Order, LateIsRecent
    <3>3. Stale(s, m.seq)
      BY <2>4, <2>5, <3>2, WindowTells
    <3> QED
      BY <2>4, <2>7, <2>9, <3>3, Sizes
  <2>10. CASE m.n = view[s].n
    BY <2>4, <2>6, <2>7, <2>10, Sizes
  <2> QED
    BY <2>4, <2>8, <2>9, <2>10, Sizes
<1>2. IInv /\ [Next]_vars => [\A m \in net : Heeds(m)]_vars
  BY <1>1
<1> QED
  BY <1>2, IInvInit, IInvInductive, PTL DEF Spec, NewestSyncWins

=============================================================================
