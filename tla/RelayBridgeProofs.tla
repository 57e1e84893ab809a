-------------------------- MODULE RelayBridgeProofs --------------------------
(***************************************************************************)
(* Proofs about RelayBridge, for any number of sessions and addresses.     *)
(***************************************************************************)
EXTENDS RelayBridge, FiniteSetTheorems, TLAPS

-----------------------------------------------------------------------------
(* The inductive invariant, in named parts. *)

Transport ==
    [at: At, after: After, by: {"initialize", "finalize", "worker"},
     initialized: BOOLEAN, exists: BOOLEAN, session: BOOLEAN, request: BOOLEAN,
     fd: BOOLEAN, vsrc: Address \cup {None}, supported: BOOLEAN,
     misses: 0 .. PingMaxMisses]

Rewrite == [at: {"idle", "read", "compose", "truncate", "write"}, lines: 0 .. UserLines,
            id: Address \cup {None}]

Content == [lines: 0 .. UserLines, id: Address \cup {None}]

\* TypeOK but for the bounds of the counts.
Types ==
    /\ refcount \in Nat
    /\ clientId \in Address \cup {None}
    /\ bridge \in Session \cup {None}
    /\ pump \in [running: BOOLEAN, threads: Nat]
    /\ transport \in [Session -> Transport]
    /\ file \in Content
    /\ rewrite \in [Writer -> Rewrite]
    /\ tidy \in BOOLEAN

Opening == {"acquire", "request", "id", "draw", "persist", "dial"}
Closing == {"stop", "join", "unpublish", "shut", "release"}

\* What a transport holds at each point of Open and Close.
Holds(t) ==
    /\ t.at \in Opening \cup {"release"} => ~t.fd
    /\ t.at \in {"publish", "start"} => t.fd
    /\ t.fd \/ t.at \in {"id", "draw", "persist", "dial"} => t.request
    /\ t.at = "acquire" => ~t.session
    /\ ~t.exists => t.at = "idle" /\ ~t.fd /\ ~t.session
    /\ t.at # "idle" \/ t.by # "worker" => t.initialized
    /\ t.by = "finalize" => IF t.at = "idle" THEN ~t.exists
                            ELSE t.at \in Closing /\ t.after = "destroyed"

\* Whose address a transport uses.
OneAddress(t) ==
    t.fd \/ t.at \in {"persist", "dial"} => t.vsrc = clientId /\ clientId # None

\* The bridge leads to a transport from Publish to Unpublish.
BridgeInv ==
    bridge # None =>
        /\ transport[bridge].fd
        /\ transport[bridge].at \notin {"shut", "release"}

TransportInv == (\A s \in Session : Holds(transport[s]) /\ OneAddress(transport[s])) /\ BridgeInv

Carries(t) == t.fd /\ t.at \in {"idle", "start", "stop"}
Joining    == {s \in Session : transport[s].at = "join"}

\* A pump that runs has been started by a transport that has not stopped it yet; one
\* that ends is waited for.  Of the pumps that were stopped each has its waiter.
PumpInv ==
    /\ pump.running => \E s \in Session : Carries(transport[s])
    /\ pump.threads > 0 => pump.running \/ Joining # {}
    /\ pump.threads <= Cardinality(Joining) + (IF pump.running THEN 1 ELSE 0)

\* One rewrite at a time leaves the file as it ought to be but for the moment between
\* its truncation and its writing. What the file ought to hold of the user's lines:
Enough(n) == n >= Least(UserLines, LinesRead)

FileInv ==
    tidy =>
        /\ \A v, w \in Writer : Rewriting(v) /\ Rewriting(w) => v = w
        /\ (\A w \in Writer : rewrite[w].at # "write") => Enough(file.lines)
        /\ (\A w \in Writer : ~Rewriting(w)) => file.id = clientId
        /\ \A w \in Writer :
              /\ rewrite[w].at \in {"compose", "truncate", "write"} => Enough(rewrite[w].lines)
              /\ rewrite[w].at \in {"truncate", "write"} => rewrite[w].id = clientId

Initialized == {s \in Session : transport[s].initialized}
Sessions    == {s \in Session : transport[s].session}

BridgeSafe == Types /\ TransportInv /\ PumpInv /\ FileInv /\ NifmHeld
-----------------------------------------------------------------------------
(* Types. *)

\* A step of one transport, from t to a well-formed u.
Moves(s, u) == transport' = [transport EXCEPT ![s] = u]

LEMMA MovesType ==
    ASSUME Types, NEW s \in Session, NEW u \in Transport, Moves(s, u)
    PROVE  /\ transport' \in [Session -> Transport]
           /\ transport'[s] = u
           /\ \A r \in Session : r # s => transport'[r] = transport[r]
<1> QED
  BY DEF Types, Moves

\* Every record that Open and Close write is well-formed.
LEMMA OpenType ==
    ASSUME Types, NEW s \in Session, Open(s)
    PROVE  Types'
<1> DEFINE t == transport[s]
<1>1. t \in Transport /\ clientId \in Address \cup {None}
  BY DEF Types
<1>2. CASE OpenSession(s)
  <2>1. [t EXCEPT !.at = "request", !.session = TRUE] \in Transport
    BY <1>1 DEF Transport, At
  <2> QED
    BY <1>2, <2>1, MovesType DEF OpenSession, Acquire, Moves, Types, config
<1>3. CASE OpenRequest(s)
  <2>1. \A requested \in BOOLEAN :
          /\ [t EXCEPT !.at = "id", !.request = TRUE] \in Transport
          /\ [t EXCEPT !.at = "stop", !.after = "failed", !.request = requested] \in Transport
    BY <1>1 DEF Transport, At, After
  <2> QED
    BY <1>3, <2>1, MovesType DEF OpenRequest, GiveUp, Moves, Types, config, shared
<1>4. CASE LoadClientId(s)
  <2>1. /\ [t EXCEPT !.at = "draw"] \in Transport
        /\ [t EXCEPT !.at = "dial", !.vsrc = clientId] \in Transport
    BY <1>1 DEF Transport, At
  <2> QED
    BY <1>4, <2>1, MovesType DEF LoadClientId, Moves, Types, config, shared
<1>5. CASE DrawClientId(s)
  <2>1. CASE clientId = None
    <3>1. PICK fresh \in Address :
            /\ clientId' = fresh
            /\ transport' = [transport EXCEPT ![s] = [@ EXCEPT !.at = "persist", !.vsrc = fresh]]
      BY <1>5, <2>1 DEF DrawClientId
    <3>2. [t EXCEPT !.at = "persist", !.vsrc = fresh] \in Transport
      BY <1>1 DEF Transport, At
    <3>3. transport' \in [Session -> Transport]
      BY <3>1, <3>2, MovesType DEF Moves
    <3>4. rewrite' \in [Writer -> Rewrite] /\ tidy' \in BOOLEAN /\ file' = file
      <4>1. Begin(s)
        BY <1>5, <2>1 DEF DrawClientId
      <4>2. (tidy /\ \A v \in Writer : ~Rewriting(v)) \in BOOLEAN
        OBVIOUS
      <4> QED
        BY <4>1, <4>2 DEF Begin, Types, Rewrite
    <3> QED
      BY <1>5, <3>1, <3>3, <3>4 DEF DrawClientId, Types
  <2>2. CASE clientId # None
    <3>1. [t EXCEPT !.at = "dial", !.vsrc = clientId] \in Transport
      BY <1>1 DEF Transport, At
    <3> QED
      BY <1>5, <2>2, <3>1, MovesType DEF DrawClientId, Moves, Types, config
  <2> QED
    BY <2>1, <2>2
<1>6. ASSUME NEW from, NEW to \in At, Step(s, from, to)
      PROVE  transport' \in [Session -> Transport]
  <2>1. [t EXCEPT !.at = to] \in Transport
    BY <1>1 DEF Transport
  <2> QED
    BY <1>6, <2>1 DEF Step, Types
<1>7. CASE Persisted(s)
  BY <1>6, <1>7 DEF Persisted, At, Types, config, shared
<1>8. CASE Dial(s)
  <2>1. 0 \in 0 .. PingMaxMisses
    BY BridgeAssumption
  <2>2. /\ [t EXCEPT !.at = "publish", !.fd = TRUE, !.misses = 0, !.supported = FALSE] \in Transport
        /\ [t EXCEPT !.at = "stop", !.after = "failed", !.request = TRUE] \in Transport
    BY <1>1, <2>1 DEF Transport, At, After
  <2> QED
    BY <1>8, <2>2, MovesType DEF Dial, GiveUp, Moves, Types, config, shared
<1>9. CASE Publish(s)
  BY <1>6, <1>9 DEF Publish, At, Types, config
<1>10. CASE Start(s)
  <2>1. pump' \in [running: BOOLEAN, threads: Nat]
    <3>1. /\ pump.threads \in Nat
          /\ [running |-> TRUE, threads |-> pump.threads + 1] \in [running: BOOLEAN, threads: Nat]
      BY DEF Types
    <3>2. pump' \in {pump, [running |-> TRUE, threads |-> pump.threads + 1]}
      BY <1>10 DEF Start
    <3> QED
      BY <3>1, <3>2 DEF Types
  <2> QED
    BY <1>6, <1>10, <2>1 DEF Start, At, Types, config
<1> QED
  BY <1>2, <1>3, <1>4, <1>5, <1>7, <1>8, <1>9, <1>10 DEF Open

LEMMA CloseType ==
    ASSUME Types, NEW s \in Session, Close(s)
    PROVE  Types'
<1> DEFINE t == transport[s]
<1>1. t \in Transport
  BY DEF Types
<1>2. ASSUME NEW from, NEW to \in At, Step(s, from, to)
      PROVE  transport' \in [Session -> Transport]
  <2>1. [t EXCEPT !.at = to] \in Transport
    BY <1>1 DEF Transport
  <2> QED
    BY <1>2, <2>1 DEF Step, Types
<1>3. CASE Stop(s)
  <2>1. (IF pump.running THEN "join" ELSE "unpublish") \in At
    BY DEF At
  <2>2. transport' \in [Session -> Transport]
    BY <1>2, <1>3, <2>1 DEF Stop
  <2>3. pump' \in [running: BOOLEAN, threads: Nat]
    BY <1>3 DEF Stop, Types
  <2> QED
    BY <1>3, <2>2, <2>3 DEF Stop, Types, config
<1>4. CASE Join(s)
  BY <1>2, <1>4 DEF Join, At, Types, config, shared
<1>5. CASE Unpublish(s)
  BY <1>2, <1>5 DEF Unpublish, At, Types, config
<1>6. CASE Shut(s)
  <2>1. [t EXCEPT !.at = "release", !.fd = FALSE, !.request = FALSE] \in Transport
    BY <1>1 DEF Transport, At
  <2> QED
    BY <1>6, <2>1, MovesType DEF Shut, Moves, Types, config, shared
<1>7. CASE ReleaseSession(s)
  <2>1. Closed(s) \in Transport
    <3> DEFINE closed == [t EXCEPT !.session = FALSE, !.at = "idle", !.after = "idle"]
    <3>1. closed \in Transport
      BY <1>1 DEF Transport, At, After
    <3>2. [closed EXCEPT !.at = "acquire"] \in Transport
      BY <1>1 DEF Transport, At, After
    <3>3. [closed EXCEPT !.at = "stop", !.after = "destroyed"] \in Transport
      BY <1>1 DEF Transport, At, After
    <3>4. [NoTransport EXCEPT !.initialized = TRUE, !.by = t.by] \in Transport
      <4>1. NoTransport \in Transport
        BY BridgeAssumption DEF Transport, NoTransport, At, After
      <4> QED
        BY <1>1, <4>1 DEF Transport
    <3>5. Closed(s) \in {closed, [closed EXCEPT !.at = "acquire"],
                        [closed EXCEPT !.at = "stop", !.after = "destroyed"],
                        [NoTransport EXCEPT !.initialized = TRUE, !.by = t.by]}
      <4>1. CASE t.after = "acquire"
        BY <4>1 DEF Closed
      <4>2. CASE t.after = "failed" /\ t.by = "initialize"
        BY <4>2 DEF Closed
      <4>3. CASE t.after = "destroyed"
        BY <4>3 DEF Closed
      <4>4. CASE /\ t.after \notin {"acquire", "destroyed"}
                 /\ ~(t.after = "failed" /\ t.by = "initialize")
        BY <4>4 DEF Closed
      <4> QED
        BY <4>1, <4>2, <4>3, <4>4
    <3> QED
      BY <3>1, <3>2, <3>3, <3>4, <3>5
  <2>2. refcount' \in Nat
    BY <1>7 DEF ReleaseSession, Release, Types
  <2> QED
    BY <1>7, <2>1, <2>2, MovesType DEF ReleaseSession, Moves, Types, config
<1> QED
  BY <1>3, <1>4, <1>5, <1>6, <1>7 DEF Close

\* The callers of Open and Close.
Calls(s) ==
    \/ Initialize(s) \/ WorkerStarts(s) \/ Finalize(s) \/ Finalized(s)
    \/ Beacon(s) \/ RecvBroadcast(s) \/ OnClose(s)

LEMMA CallsType ==
    ASSUME Types, NEW s \in Session, Calls(s)
    PROVE  Types'
<1> DEFINE t == transport[s]
<1>1. t \in Transport
  BY DEF Types
<1>2. PICK u \in Transport : Moves(s, u)
  <2>1. CASE Initialize(s)
    <3>1. /\ [t EXCEPT !.initialized = TRUE] \in Transport
          /\ [t EXCEPT !.initialized = TRUE, !.exists = TRUE, !.by = "initialize",
                       !.at = IF t.exists THEN "stop" ELSE "acquire",
                       !.after = "acquire"] \in Transport
      BY <1>1 DEF Transport, At, After
    <3> QED
      BY <2>1, <3>1 DEF Initialize, Moves
  <2>2. CASE WorkerStarts(s)
    <3>1. /\ [t EXCEPT !.by = "worker"] \in Transport
          /\ [t EXCEPT !.by = "worker", !.initialized = FALSE] \in Transport
      BY <1>1 DEF Transport
    <3> QED
      BY <2>2, <3>1 DEF WorkerStarts, Moves
  <2>3. CASE Finalize(s)
    <3>1. /\ [t EXCEPT !.by = "finalize", !.at = "stop", !.after = "destroyed"] \in Transport
          /\ [t EXCEPT !.by = "finalize"] \in Transport
      BY <1>1 DEF Transport, At, After
    <3> QED
      BY <2>3, <3>1 DEF Finalize, Moves
  <2>4. CASE Finalized(s)
    <3>1. NoTransport \in Transport
      BY BridgeAssumption DEF Transport, NoTransport, At, After
    <3> QED
      BY <2>4, <3>1 DEF Finalized, Moves
  <2>5. CASE Beacon(s)
    <3>1. t.misses < PingMaxMisses => t.misses + 1 \in 0 .. PingMaxMisses
      BY <1>1, BridgeAssumption DEF Transport
    <3>2. /\ [t EXCEPT !.at = "stop", !.after = "acquire"] \in Transport
          /\ [t EXCEPT !.misses = IF t.misses < PingMaxMisses THEN t.misses + 1
                                  ELSE t.misses] \in Transport
      BY <1>1, <3>1 DEF Transport, At, After
    <3> QED
      <4>1. CASE PathDead(t)
        BY <2>5, <3>2, <4>1 DEF Beacon, Moves
      <4>2. CASE ~PathDead(t)
        BY <2>5, <3>2, <4>2 DEF Beacon, Moves
      <4> QED
        BY <4>1, <4>2
  <2>6. CASE RecvBroadcast(s)
    <3>1. 0 \in 0 .. PingMaxMisses
      BY BridgeAssumption
    <3>2. \A answered \in BOOLEAN :
            [t EXCEPT !.misses = 0, !.supported = answered] \in Transport
      BY <1>1, <3>1 DEF Transport
    <3> QED
      BY <2>6, <3>2 DEF RecvBroadcast, Moves
  <2>7. CASE OnClose(s)
    <3>1. [t EXCEPT !.at = "stop", !.after = "idle"] \in Transport
      BY <1>1 DEF Transport, At, After
    <3> QED
      BY <2>7, <3>1 DEF OnClose, Moves
  <2> QED
    BY <2>1, <2>2, <2>3, <2>4, <2>5, <2>6, <2>7 DEF Calls
<1>3. transport' \in [Session -> Transport]
  BY <1>2, MovesType
<1>4. UNCHANGED <<clientId, bridge, pump, config>>
  BY DEF Calls, Initialize, WorkerStarts, Finalize, Finalized, Beacon,
     RecvBroadcast, OnClose, shared
<1>5. refcount' \in {refcount, refcount + 1, IF refcount > 0 THEN refcount - 1 ELSE 0}
  BY DEF Calls, Initialize, WorkerStarts, Finalize, Finalized, Beacon,
     RecvBroadcast, OnClose, shared, Acquire, Release
<1>6. refcount' \in Nat
  BY <1>5 DEF Types
<1> QED
  BY <1>3, <1>4, <1>6 DEF Types, config

\* The rewrites of relay.cfg, the pump's end, a restart.
Others ==
    \/ \E w \in Writer : ReadConfigFile(w) \/ Compose(w) \/ SetFileSize(w) \/ WriteFile(w)
    \/ ChangeSetting \/ PumpEnds \/ Restart

LEMMA OthersType ==
    ASSUME Types, Others
    PROVE  Types'
<1>1. ASSUME NEW w \in Writer, ReadConfigFile(w) \/ Compose(w) \/ SetFileSize(w) \/ WriteFile(w)
      PROVE  Types'
  <2>1. rewrite[w] \in Rewrite /\ clientId \in Address \cup {None} /\ file \in Content
        /\ UserLines \in Nat /\ LinesRead \in Nat
    BY BridgeAssumption DEF Types
  <2>2. /\ \A n \in 0 .. UserLines : [rewrite[w] EXCEPT !.at = "compose", !.lines = n] \in Rewrite
        /\ [rewrite[w] EXCEPT !.at = "truncate", !.id = clientId] \in Rewrite
        /\ [rewrite[w] EXCEPT !.at = "write"] \in Rewrite
        /\ NoRewrite \in Rewrite
    <3>1. ASSUME NEW n \in 0 .. UserLines
          PROVE  [rewrite[w] EXCEPT !.at = "compose", !.lines = n] \in Rewrite
      BY <2>1 DEF Rewrite
    <3>2. [rewrite[w] EXCEPT !.at = "truncate", !.id = clientId] \in Rewrite
          /\ [rewrite[w] EXCEPT !.at = "write"] \in Rewrite
      BY <2>1 DEF Rewrite
    <3>3. NoRewrite \in Rewrite
      BY <2>1 DEF Rewrite, NoRewrite
    <3> QED
      BY <3>1, <3>2, <3>3
  <2>3. /\ 0 \in 0 .. UserLines
        /\ \A n \in Least(file.lines, LinesRead) .. file.lines : n \in 0 .. UserLines
        /\ \A n \in 0 .. rewrite[w].lines : n \in 0 .. UserLines
    BY <2>1 DEF Content, Rewrite, Least
  <2>4. \E u \in Rewrite : rewrite' = [rewrite EXCEPT ![w] = u]
    <3>1. CASE ReadConfigFile(w)
      BY <3>1, <2>2, <2>3 DEF ReadConfigFile
    <3>2. CASE Compose(w) \/ WriteFile(w)
      BY <3>2, <2>2 DEF Compose, WriteFile
    <3>3. CASE SetFileSize(w)
      BY <3>3, <2>2 DEF SetFileSize
    <3> QED
      BY <1>1, <3>1, <3>2, <3>3
  <2>5. rewrite' \in [Writer -> Rewrite]
    BY <2>4 DEF Types
  <2>6. file' \in Content
    <3>1. \A n \in 0 .. UserLines : /\ [lines |-> n, id |-> None] \in Content
                                  /\ [lines |-> n, id |-> rewrite[w].id] \in Content
      BY <2>1 DEF Rewrite, Content
    <3>2. CASE WriteFile(w)
      BY <3>2, <2>1, <2>3, <3>1 DEF WriteFile
    <3>3. CASE ReadConfigFile(w) \/ Compose(w) \/ SetFileSize(w)
      BY <3>3, <2>1, <2>3, <3>1 DEF ReadConfigFile, Compose, SetFileSize
    <3> QED
      BY <1>1, <3>2, <3>3
  <2>7. UNCHANGED <<shared, transport>> /\ tidy' \in BOOLEAN
    BY <1>1 DEF ReadConfigFile, Compose, SetFileSize, WriteFile, Types
  <2> QED
    BY <2>5, <2>6, <2>7 DEF Types, shared
<1>2. CASE ChangeSetting
  <2>1. rewrite' \in [Writer -> Rewrite] /\ tidy' \in BOOLEAN
    BY <1>2 DEF ChangeSetting, Begin, Types, Rewrite
  <2> QED
    BY <1>2, <2>1 DEF ChangeSetting, Begin, Types, shared
<1>3. CASE PumpEnds
  <2>1. pump' \in [running: BOOLEAN, threads: Nat]
    BY <1>3 DEF PumpEnds, Types
  <2> QED
    BY <1>3, <2>1 DEF PumpEnds, Types, config
<1>4. CASE Restart
  <2>1. transport' \in [Session -> Transport]
    BY <1>4, BridgeAssumption DEF Restart, NoTransport, Transport, At, After
  <2>2. rewrite' \in [Writer -> Rewrite]
    BY <1>4, BridgeAssumption DEF Restart, NoRewrite, Rewrite
  <2>3. clientId' \in Address \cup {None} /\ tidy' \in BOOLEAN
    BY <1>4 DEF Restart, Types, Content
  <2> QED
    BY <1>4, <2>1, <2>2, <2>3 DEF Restart, Types
<1> QED
  BY <1>1, <1>2, <1>3, <1>4 DEF Others

-----------------------------------------------------------------------------
(* What a transport holds, and where the bridge leads. *)

\* A step of one transport that keeps the address and does not publish another.
LEMMA TransportStep ==
    ASSUME Types, TransportInv, NEW s \in Session, NEW u, Moves(s, u),
           clientId' = clientId, Holds(u), OneAddress(u),
           bridge' \in {bridge, None, s},
           bridge' = s => u.fd /\ u.at \notin {"shut", "release"}
    PROVE  TransportInv'
<1>1. transport'[s] = u /\ \A r \in Session : r # s => transport'[r] = transport[r]
  BY DEF Types, Moves
<1>2. \A r \in Session : Holds(transport[r]) /\ OneAddress(transport[r])
  BY DEF TransportInv
<1>3. \A r \in Session : Holds(transport'[r])
  BY <1>1, <1>2
<1>4. \A r \in Session : transport'[r].fd \/ transport'[r].at \in {"persist", "dial"}
                           => transport'[r].vsrc = clientId' /\ clientId' # None
  BY <1>1, <1>2 DEF OneAddress
<1>5. BridgeInv'
  <2>1. CASE bridge' = s
    BY <1>1, <2>1 DEF BridgeInv
  <2>2. CASE bridge' # s /\ bridge' = bridge
    <3>1. bridge \in Session \cup {None}
      BY DEF Types
    <3>2. CASE bridge = None
      BY <2>2, <3>2 DEF BridgeInv
    <3>3. CASE bridge # None
      <4>1. transport'[bridge] = transport[bridge]
        BY <1>1, <2>2, <3>1, <3>3
      <4> QED
        BY <2>2, <4>1 DEF BridgeInv, TransportInv
    <3> QED
      BY <3>2, <3>3
  <2>3. CASE bridge' = None
    BY <2>3 DEF BridgeInv
  <2> QED
    BY <2>1, <2>2, <2>3
<1> QED
  BY <1>3, <1>4, <1>5 DEF TransportInv, OneAddress, Holds

\* Open, point by point.
LEMMA OpenTransport ==
    ASSUME Types, TransportInv, NEW s \in Session, Open(s)
    PROVE  TransportInv'
<1> DEFINE t == transport[s]
<1>1. t \in Transport /\ Holds(t) /\ OneAddress(t) /\ (bridge = s => t.fd)
  BY BridgeAssumption DEF Types, TransportInv, BridgeInv
<1>2. CASE OpenSession(s)
  <2> DEFINE u == [t EXCEPT !.at = "request", !.session = TRUE]
  <2>1. Moves(s, u) /\ t.at = "acquire" /\ UNCHANGED <<clientId, bridge>>
    BY <1>2 DEF OpenSession, Moves
  <2>2. Holds(u) /\ OneAddress(u) /\ (bridge = s => u.fd /\ u.at = "request")
    BY <1>1, <2>1 DEF Holds, OneAddress, Transport, Opening, Closing
  <2> QED
    BY <2>1, <2>2, TransportStep
<1>3. CASE OpenRequest(s)
  <2>1. t.at = "request" /\ UNCHANGED <<clientId, bridge>>
    BY <1>3 DEF OpenRequest, shared
  <2>2. PICK u :
          /\ Moves(s, u)
          /\ \E requested \in BOOLEAN :
                u \in {[t EXCEPT !.at = "id", !.request = TRUE],
                      [t EXCEPT !.at = "stop", !.after = "failed", !.request = requested]}
    BY <1>3 DEF OpenRequest, GiveUp, Moves
  <2>3. Holds(u) /\ OneAddress(u) /\ (bridge = s => u.fd /\ u.at \notin {"shut", "release"})
    BY <1>1, <2>1, <2>2 DEF Holds, OneAddress, Transport, Opening, Closing
  <2> QED
    BY <2>1, <2>2, <2>3, TransportStep
<1>4. ASSUME t.at \in {"id", "draw"}, UNCHANGED <<clientId, bridge>>,
             \/ Moves(s, [t EXCEPT !.at = "draw"])
             \/ clientId # None /\ Moves(s, [t EXCEPT !.at = "dial", !.vsrc = clientId])
      PROVE  TransportInv'
  <2>1. PICK u : /\ Moves(s, u)
                 /\ \/ u = [t EXCEPT !.at = "draw"]
                    \/ clientId # None /\ u = [t EXCEPT !.at = "dial", !.vsrc = clientId]
    BY <1>4
  <2>2. Holds(u) /\ OneAddress(u) /\ (bridge = s => u.fd /\ u.at \notin {"shut", "release"})
    BY <1>1, <1>4, <2>1 DEF Holds, OneAddress, Transport, Opening, Closing
  <2> QED
    BY <1>4, <2>1, <2>2, TransportStep
<1>5. CASE LoadClientId(s)
  BY <1>4, <1>5 DEF LoadClientId, Moves, shared
<1>6. CASE DrawClientId(s) /\ clientId # None
  BY <1>4, <1>6 DEF DrawClientId, Moves
<1>7. CASE DrawClientId(s) /\ clientId = None
  <2>1. PICK fresh \in Address :
          clientId' = fresh /\ Moves(s, [t EXCEPT !.at = "persist", !.vsrc = fresh])
    BY <1>7 DEF DrawClientId, Moves
  <2>2. t.at = "draw" /\ bridge' = bridge /\ fresh # None
    BY <1>7, BridgeAssumption DEF DrawClientId
  <2> DEFINE u == [t EXCEPT !.at = "persist", !.vsrc = fresh]
  <2>3. Holds(u) /\ u.vsrc = fresh
    BY <1>1, <2>2 DEF Holds, Transport, Opening, Closing
  <2>4. transport'[s] = u /\ \A r \in Session : r # s => transport'[r] = transport[r]
    BY <2>1 DEF Types, Moves
  <2>5. \A r \in Session : ~(transport[r].fd \/ transport[r].at \in {"persist", "dial"})
    BY <1>7 DEF TransportInv, OneAddress
  <2>6. bridge = None
    BY <2>5 DEF TransportInv, BridgeInv, Types
  <2> HIDE DEF u
  <2>7. \A r \in Session : Holds(transport'[r])
    BY <2>3, <2>4 DEF TransportInv
  <2>8. \A r \in Session : transport'[r].fd \/ transport'[r].at \in {"persist", "dial"}
                             => transport'[r].vsrc = clientId' /\ clientId' # None
    BY <2>1, <2>2, <2>3, <2>4, <2>5
  <2> QED
    BY <2>2, <2>6, <2>7, <2>8 DEF TransportInv, OneAddress, BridgeInv, Holds
<1>8. CASE Persisted(s)
  <2> DEFINE u == [t EXCEPT !.at = "dial"]
  <2>1. Moves(s, u) /\ t.at = "persist" /\ UNCHANGED <<clientId, bridge>>
    BY <1>8 DEF Persisted, Step, Moves, shared
  <2>2. Holds(u) /\ OneAddress(u) /\ (bridge = s => u.fd /\ u.at \notin {"shut", "release"})
    BY <1>1, <2>1 DEF Holds, OneAddress, Transport, Opening, Closing
  <2> QED
    BY <2>1, <2>2, TransportStep
<1>9. CASE Dial(s)
  <2>1. t.at = "dial" /\ UNCHANGED <<clientId, bridge>>
    BY <1>9 DEF Dial, shared
  <2>2. PICK u : /\ Moves(s, u)
                 /\ u \in {[t EXCEPT !.at = "publish", !.fd = TRUE, !.misses = 0, !.supported = FALSE],
                           [t EXCEPT !.at = "stop", !.after = "failed", !.request = TRUE]}
    BY <1>9 DEF Dial, GiveUp, Moves
  <2>3. Holds(u) /\ OneAddress(u) /\ (bridge = s => u.fd /\ u.at \notin {"shut", "release"})
    BY <1>1, <2>1, <2>2 DEF Holds, OneAddress, Transport, Opening, Closing
  <2> QED
    BY <2>1, <2>2, <2>3, TransportStep
<1>10. CASE Publish(s)
  <2> DEFINE u == [t EXCEPT !.at = "start"]
  <2>1. Moves(s, u) /\ t.at = "publish" /\ clientId' = clientId /\ bridge' = s
    BY <1>10 DEF Publish, Step, Moves
  <2>2. Holds(u) /\ OneAddress(u) /\ u.fd /\ u.at \notin {"shut", "release"}
    BY <1>1, <2>1 DEF Holds, OneAddress, Transport, Opening, Closing
  <2> QED
    BY <2>1, <2>2, TransportStep
<1>11. CASE Start(s)
  <2> DEFINE u == [t EXCEPT !.at = "idle"]
  <2>1. Moves(s, u) /\ t.at = "start" /\ UNCHANGED <<clientId, bridge>>
    BY <1>11 DEF Start, Step, Moves
  <2>2. Holds(u) /\ OneAddress(u) /\ u.fd /\ u.at \notin {"shut", "release"}
    BY <1>1, <2>1 DEF Holds, OneAddress, Transport, Opening, Closing
  <2> QED
    BY <2>1, <2>2, TransportStep
<1> QED
  BY <1>2, <1>3, <1>5, <1>6, <1>7, <1>8, <1>9, <1>10, <1>11 DEF Open

\* Close, point by point.
LEMMA CloseTransport ==
    ASSUME Types, TransportInv, NEW s \in Session, Close(s)
    PROVE  TransportInv'
<1> DEFINE t == transport[s]
<1>1. /\ t \in Transport /\ Holds(t) /\ OneAddress(t)
      /\ bridge = s => t.fd /\ t.at \notin {"shut", "release"}
  BY BridgeAssumption DEF Types, TransportInv, BridgeInv
<1>2. ASSUME NEW to \in {"join", "unpublish"}, Step(s, t.at, to), t.at \in {"stop", "join"},
             UNCHANGED <<clientId, bridge>>
      PROVE  TransportInv'
  <2> DEFINE u == [t EXCEPT !.at = to]
  <2>1. Moves(s, u)
    BY <1>2 DEF Step, Moves
  <2>2. Holds(u) /\ OneAddress(u) /\ (bridge = s => u.fd /\ u.at \notin {"shut", "release"})
    BY <1>1, <1>2 DEF Holds, OneAddress, Transport, Opening, Closing
  <2> QED
    BY <1>2, <2>1, <2>2, TransportStep
<1>3. CASE Stop(s)
  BY <1>2, <1>3 DEF Stop, Step
<1>4. CASE Join(s)
  BY <1>2, <1>4 DEF Join, Step, shared
<1>5. CASE Unpublish(s)
  <2> DEFINE u == [t EXCEPT !.at = "shut"]
  <2>1. /\ Moves(s, u) /\ t.at = "unpublish" /\ clientId' = clientId
        /\ bridge' \in {bridge, None} /\ bridge' # s
    BY <1>5, BridgeAssumption DEF Unpublish, Step, Moves
  <2>2. Holds(u) /\ OneAddress(u)
    BY <1>1, <2>1 DEF Holds, OneAddress, Transport, Opening, Closing
  <2> QED
    BY <2>1, <2>2, TransportStep
<1>6. CASE Shut(s)
  <2> DEFINE u == [t EXCEPT !.at = "release", !.fd = FALSE, !.request = FALSE]
  <2>1. Moves(s, u) /\ t.at = "shut" /\ UNCHANGED <<clientId, bridge>>
    BY <1>6 DEF Shut, Moves, shared
  <2>2. Holds(u) /\ OneAddress(u)
    BY <1>1, <2>1 DEF Holds, OneAddress, Transport, Opening, Closing
  <2> QED
    BY <1>1, <2>1, <2>2, TransportStep
<1>7. CASE ReleaseSession(s)
  <2>1. Moves(s, Closed(s)) /\ t.at = "release" /\ UNCHANGED <<clientId, bridge>>
    BY <1>7 DEF ReleaseSession, Moves
  <2> DEFINE closed == [t EXCEPT !.session = FALSE, !.at = "idle", !.after = "idle"]
  <2>2. Closed(s) \in {closed, [closed EXCEPT !.at = "acquire"],
                       [closed EXCEPT !.at = "stop", !.after = "destroyed"],
                       [NoTransport EXCEPT !.initialized = TRUE, !.by = t.by]}
        /\ (t.by = "finalize" => Closed(s) = [NoTransport EXCEPT !.initialized = TRUE, !.by = t.by])
    <3>1. CASE t.after = "acquire"
      BY <1>1, <2>1, <3>1 DEF Closed, Holds
    <3>2. CASE t.after = "failed" /\ t.by = "initialize"
      BY <3>2 DEF Closed
    <3>3. CASE t.after = "destroyed"
      BY <3>3 DEF Closed
    <3>4. CASE /\ t.after \notin {"acquire", "destroyed"}
               /\ ~(t.after = "failed" /\ t.by = "initialize")
      BY <1>1, <2>1, <3>4 DEF Closed, Holds
    <3> QED
      BY <3>1, <3>2, <3>3, <3>4
  <2>3. ~t.fd /\ t.initialized /\ t.exists
    BY <1>1, <2>1 DEF Holds
  <2>4. CASE Closed(s) = closed
    <3>1. Holds(Closed(s)) /\ OneAddress(Closed(s))
      BY <1>1, <2>1, <2>2, <2>3, <2>4 DEF Holds, OneAddress, Transport, Opening,
         Closing, NoTransport
    <3> QED
      BY <1>1, <2>1, <2>3, <3>1, TransportStep
  <2>5. CASE Closed(s) = [closed EXCEPT !.at = "acquire"]
    <3>1. Holds(Closed(s)) /\ OneAddress(Closed(s))
      BY <1>1, <2>1, <2>2, <2>3, <2>5 DEF Holds, OneAddress, Transport, Opening,
         Closing, NoTransport
    <3> QED
      BY <1>1, <2>1, <2>3, <3>1, TransportStep
  <2>6. CASE Closed(s) = [closed EXCEPT !.at = "stop", !.after = "destroyed"]
    <3>1. Holds(Closed(s)) /\ OneAddress(Closed(s))
      BY <1>1, <2>1, <2>2, <2>3, <2>6 DEF Holds, OneAddress, Transport, Opening,
         Closing, NoTransport
    <3> QED
      BY <1>1, <2>1, <2>3, <3>1, TransportStep
  <2>7. CASE Closed(s) = [NoTransport EXCEPT !.initialized = TRUE, !.by = t.by]
    <3>1. Holds(Closed(s)) /\ OneAddress(Closed(s))
      BY <1>1, <2>1, <2>2, <2>3, <2>7 DEF Holds, OneAddress, Transport, Opening,
         Closing, NoTransport
    <3> QED
      BY <1>1, <2>1, <2>3, <3>1, TransportStep
  <2> QED
    BY <2>2, <2>4, <2>5, <2>6, <2>7
<1> QED
  BY <1>3, <1>4, <1>5, <1>6, <1>7 DEF Close

\* What the callers of Open and Close do to a transport.
LEMMA CallsTransport ==
    ASSUME Types, TransportInv, NEW s \in Session, Calls(s)
    PROVE  TransportInv'
<1> USE DEF Holds, OneAddress, Transport, Opening, Closing
<1> DEFINE t == transport[s]
           Fits(u) == /\ Moves(s, u) /\ Holds(u) /\ OneAddress(u)
                      /\ bridge = s => u.fd /\ u.at \notin {"shut", "release"}
<1>1. /\ t \in Transport /\ Holds(t) /\ OneAddress(t)
      /\ bridge = s => t.fd /\ t.at \notin {"shut", "release"}
  BY BridgeAssumption DEF Types, TransportInv, BridgeInv
<1>2. \E u : Fits(u)
  <2>1. CASE Initialize(s)
    <3>1. PICK u \in {[t EXCEPT !.initialized = TRUE],
                      [t EXCEPT !.initialized = TRUE, !.exists = TRUE, !.by = "initialize",
                                !.at = IF t.exists THEN "stop" ELSE "acquire",
                                !.after = "acquire"]} : Moves(s, u)
      BY <2>1 DEF Initialize, Moves
    <3>2. t.at = "idle" /\ t.by # "finalize"
      BY <2>1 DEF Initialize, Idle
    <3>3. Fits(u)
      BY <1>1, <3>1, <3>2
    <3> QED
      BY <3>3
  <2>2. CASE WorkerStarts(s)
    <3>1. PICK u \in {[t EXCEPT !.by = "worker"],
                      [t EXCEPT !.by = "worker", !.initialized = FALSE]} : Moves(s, u)
      BY <2>2 DEF WorkerStarts, Moves
    <3>2. t.at = "idle"
      BY <2>2 DEF WorkerStarts, Idle
    <3>3. Fits(u)
      BY <1>1, <3>1, <3>2
    <3> QED
      BY <3>3
  <2>3. CASE Finalize(s)
    <3>1. Moves(s, IF t.exists THEN [t EXCEPT !.by = "finalize", !.at = "stop", !.after = "destroyed"]
                   ELSE [t EXCEPT !.by = "finalize"])
      BY <2>3 DEF Finalize, Moves
    <3>2. t.at = "idle" /\ t.initialized
      BY <2>3 DEF Finalize, Working, Idle
    <3>3. CASE t.exists
      <4>1. Fits([t EXCEPT !.by = "finalize", !.at = "stop", !.after = "destroyed"])
        BY <1>1, <3>1, <3>2, <3>3
      <4> QED
        BY <4>1
    <3>4. CASE ~t.exists
      <4>1. Fits([t EXCEPT !.by = "finalize"])
        BY <1>1, <3>1, <3>2, <3>4
      <4> QED
        BY <4>1
    <3> QED
      BY <3>3, <3>4
  <2>4. CASE Finalized(s)
    <3>1. Moves(s, NoTransport) /\ t.at = "idle" /\ t.by = "finalize"
      BY <2>4 DEF Finalized, Moves
    <3>2. Fits(NoTransport)
      BY <1>1, <3>1 DEF NoTransport
    <3> QED
      BY <3>2
  <2>5. CASE Beacon(s)
    <3> DEFINE missed == IF t.misses < PingMaxMisses THEN t.misses + 1 ELSE t.misses
    <3>1. PICK u \in {[t EXCEPT !.at = "stop", !.after = "acquire"],
                      [t EXCEPT !.misses = missed]} : Moves(s, u)
      <4>1. CASE PathDead(t)
        BY <2>5, <4>1 DEF Beacon, Moves
      <4>2. CASE ~PathDead(t)
        BY <2>5, <4>2 DEF Beacon, Moves
      <4> QED
        BY <4>1, <4>2
    <3>2. t.at = "idle" /\ t.initialized /\ t.by = "worker" /\ t.exists
      BY <2>5 DEF Beacon, Working, Idle
    <3> HIDE DEF missed
    <3>3. Fits(u)
      BY <1>1, <3>1, <3>2
    <3> QED
      BY <3>3
  <2>6. CASE RecvBroadcast(s)
    <3>1. PICK answered \in BOOLEAN :
             Moves(s, [t EXCEPT !.misses = 0, !.supported = answered])
      BY <2>6 DEF RecvBroadcast, Moves
    <3>2. Fits([t EXCEPT !.misses = 0, !.supported = answered])
      BY <1>1, <3>1
    <3> QED
      BY <3>2
  <2>7. CASE OnClose(s)
    <3>1. Moves(s, [t EXCEPT !.at = "stop", !.after = "idle"])
      BY <2>7 DEF OnClose, Moves
    <3>2. t.fd /\ t.initialized /\ t.by = "worker"
      BY <2>7 DEF OnClose, Working
    <3>3. Fits([t EXCEPT !.at = "stop", !.after = "idle"])
      BY <1>1, <3>1, <3>2
    <3> QED
      BY <3>3
  <2> QED
    BY <2>1, <2>2, <2>3, <2>4, <2>5, <2>6, <2>7 DEF Calls
<1>3. UNCHANGED <<clientId, bridge>>
  BY DEF Calls, Initialize, WorkerStarts, Finalize, Finalized, Beacon,
     RecvBroadcast, OnClose, shared
<1>4. PICK u : Fits(u)
  BY <1>2
<1> QED
  BY <1>3, <1>4, TransportStep

LEMMA OthersTransport ==
    ASSUME Types, TransportInv, Others
    PROVE  TransportInv'
<1>1. CASE Restart
  <2>1. \A r \in Session : transport'[r] = NoTransport
    BY <1>1 DEF Restart
  <2>2. bridge' = None
    BY <1>1 DEF Restart
  <2> QED
    BY <2>1, <2>2 DEF TransportInv, BridgeInv, Holds, OneAddress, NoTransport, Opening
<1>2. CASE ~Restart
  <2>1. UNCHANGED <<clientId, bridge, transport>>
    BY <1>2 DEF Others, ReadConfigFile, Compose, SetFileSize, WriteFile,
       ChangeSetting, PumpEnds, shared
  <2> QED
    BY <2>1 DEF TransportInv, BridgeInv, Holds, OneAddress
<1> QED
  BY <1>1, <1>2

-----------------------------------------------------------------------------
(* The references to nifm. *)

\* One element more or less in a finite set of sessions.
LEMMA OneMore ==
    ASSUME NEW S \in SUBSET Session, NEW s \in Session
    PROVE  /\ Cardinality(S) \in Nat
           /\ s \in S => Cardinality(S) > 0 /\ Cardinality(S \ {s}) = Cardinality(S) - 1
           /\ s \notin S => Cardinality(S \cup {s}) = Cardinality(S) + 1
           /\ Cardinality(S) <= Cardinality(Session)
<1>1. IsFiniteSet(S) /\ Cardinality(S) <= Cardinality(Session)
  BY FS_Subset, BridgeAssumption
<1>2. Cardinality(S) \in Nat /\ (Cardinality(S) = 0 <=> S = {})
  BY <1>1, FS_CardinalityType, FS_EmptySet
<1>3. Cardinality(S \ {s}) = IF s \in S THEN Cardinality(S) - 1 ELSE Cardinality(S)
  BY <1>1, FS_RemoveElement
<1>4. Cardinality(S \cup {s}) = IF s \in S THEN Cardinality(S) ELSE Cardinality(S) + 1
  BY <1>1, FS_AddElement
<1> QED
  BY <1>1, <1>2, <1>3, <1>4

\* How the numbers of holders follow a step of one transport.
LEMMA HoldersStep ==
    ASSUME Types, NEW s \in Session, NEW u \in Transport, Moves(s, u)
    PROVE  /\ Cardinality(Initialized) \in Nat /\ Cardinality(Sessions) \in Nat
           /\ (u.initialized <=> transport[s].initialized) => Initialized' = Initialized
           /\ u.initialized /\ ~transport[s].initialized =>
                 Cardinality(Initialized') = Cardinality(Initialized) + 1
           /\ ~u.initialized /\ transport[s].initialized =>
                 /\ Cardinality(Initialized) > 0
                 /\ Cardinality(Initialized') = Cardinality(Initialized) - 1
           /\ (u.session <=> transport[s].session) => Sessions' = Sessions
           /\ u.session /\ ~transport[s].session =>
                 Cardinality(Sessions') = Cardinality(Sessions) + 1
           /\ ~u.session /\ transport[s].session =>
                 /\ Cardinality(Sessions) > 0
                 /\ Cardinality(Sessions') = Cardinality(Sessions) - 1
<1>1. transport'[s] = u /\ \A r \in Session : r # s => transport'[r] = transport[r]
  BY MovesType
<1>2. Initialized \in SUBSET Session /\ Sessions \in SUBSET Session
  BY DEF Initialized, Sessions
<1>3. /\ (u.initialized <=> transport[s].initialized) => Initialized' = Initialized
      /\ (u.session <=> transport[s].session) => Sessions' = Sessions
  BY <1>1 DEF Initialized, Sessions
<1>4. /\ u.initialized => Initialized' = Initialized \cup {s}
      /\ ~u.initialized => Initialized' = Initialized \ {s}
  BY <1>1 DEF Initialized
<1>5. /\ u.session => Sessions' = Sessions \cup {s}
      /\ ~u.session => Sessions' = Sessions \ {s}
  BY <1>1 DEF Sessions
<1>6. /\ s \in Initialized <=> transport[s].initialized
      /\ s \in Sessions <=> transport[s].session
  BY DEF Initialized, Sessions
<1> QED
  BY <1>2, <1>3, <1>4, <1>5, <1>6, OneMore

LEMMA HeldIsCount ==
    NifmHeld <=> refcount = Cardinality(Initialized) + Cardinality(Sessions)
<1> QED
  BY DEF NifmHeld, Initialized, Sessions

\* A step that changes neither who is initialized nor who has a session.
LEMMA HeldKept ==
    ASSUME Types, NifmHeld, NEW s \in Session, NEW u \in Transport, Moves(s, u),
           (u.initialized <=> transport[s].initialized), (u.session <=> transport[s].session),
           refcount' = refcount
    PROVE  NifmHeld'
<1>1. Initialized' = Initialized /\ Sessions' = Sessions
  BY HoldersStep
<1> QED
  BY <1>1, HeldIsCount DEF NifmHeld, Initialized, Sessions

\* What the steps of Open and Close, its last step aside, leave alone.
SameHolder(v, t) == (v.initialized <=> t.initialized) /\ (v.session <=> t.session)

LEMMA SameHolders ==
    ASSUME NEW t \in Transport
    PROVE  /\ \A l : SameHolder([t EXCEPT !.at = l], t)
           /\ \A l, b : SameHolder([t EXCEPT !.at = l, !.request = b], t)
           /\ \A l, b, c : SameHolder([t EXCEPT !.at = l, !.after = c, !.request = b], t)
           /\ \A l, d : SameHolder([t EXCEPT !.at = l, !.vsrc = d], t)
           /\ SameHolder([t EXCEPT !.at = "publish", !.fd = TRUE, !.misses = 0,
                                   !.supported = FALSE], t)
           /\ SameHolder([t EXCEPT !.at = "release", !.fd = FALSE, !.request = FALSE], t)
<1> QED
  BY DEF Transport, SameHolder

LEMMA OpenHeld ==
    ASSUME Types, Types', TransportInv, NifmHeld, NEW s \in Session, Open(s)
    PROVE  NifmHeld'
<1> DEFINE t == transport[s]
           u == transport'[s]
<1>1. t \in Transport /\ u \in Transport /\ Holds(t)
  BY DEF Types, TransportInv
<1>2. CASE OpenSession(s)
  <2>1. /\ t.at = "acquire" /\ refcount' = refcount + 1
        /\ transport' = [transport EXCEPT ![s] = [t EXCEPT !.at = "request", !.session = TRUE]]
    BY <1>2 DEF OpenSession, Acquire
  <2>2. u = [t EXCEPT !.at = "request", !.session = TRUE] /\ Moves(s, u)
    BY <2>1 DEF Types, Moves
  <2>3. (u.initialized <=> t.initialized) /\ u.session /\ ~t.session
    <3>1. ~t.session
      BY <1>1, <2>1 DEF Holds
    <3>2. LET v == [t EXCEPT !.at = "request", !.session = TRUE]
          IN v.session /\ (v.initialized <=> t.initialized)
      BY <1>1 DEF Transport
    <3> QED
      BY <2>2, <3>1, <3>2
  <2> HIDE DEF u
  <2>4. /\ Initialized' = Initialized
        /\ Cardinality(Sessions') = Cardinality(Sessions) + 1
        /\ Cardinality(Initialized) \in Nat /\ Cardinality(Sessions) \in Nat
    BY <1>1, <2>2, <2>3, HoldersStep
  <2>5. refcount' = Cardinality(Initialized') + Cardinality(Sessions')
    BY <2>1, <2>4, HeldIsCount
  <2> QED
    BY <2>5 DEF NifmHeld, Initialized, Sessions
<1>3. CASE ~OpenSession(s)
  <2>1. refcount' = refcount
    BY <1>3 DEF Open, OpenRequest, LoadClientId, DrawClientId, Persisted, Dial,
       Publish, Start, shared
  <2>2. \E v : /\ Moves(s, v)
               /\ SameHolder(v, t)
    <3>1. CASE OpenRequest(s)
      <4>1. PICK requested \in BOOLEAN :
              Moves(s, [t EXCEPT !.at = "id", !.request = TRUE]) \/
              Moves(s, [t EXCEPT !.at = "stop", !.after = "failed", !.request = requested])
        BY <3>1 DEF OpenRequest, GiveUp, Moves
      <4> QED
        BY <1>1, <4>1, SameHolders
    <3>2. CASE LoadClientId(s) \/ DrawClientId(s)
      <4>1. PICK a : Moves(s, [t EXCEPT !.at = "draw"]) \/
                     Moves(s, [t EXCEPT !.at = "dial", !.vsrc = a]) \/
                     Moves(s, [t EXCEPT !.at = "persist", !.vsrc = a])
        BY <3>2 DEF LoadClientId, DrawClientId, Moves
      <4> QED
        BY <1>1, <4>1, SameHolders
    <3>3. CASE Persisted(s) \/ Publish(s) \/ Start(s)
      <4>1. PICK l : Moves(s, [t EXCEPT !.at = l])
        BY <3>3 DEF Persisted, Publish, Start, Step, Moves
      <4> QED
        BY <1>1, <4>1, SameHolders
    <3>4. CASE Dial(s)
      <4>1. Moves(s, [t EXCEPT !.at = "publish", !.fd = TRUE, !.misses = 0, !.supported = FALSE]) \/
            Moves(s, [t EXCEPT !.at = "stop", !.after = "failed", !.request = TRUE])
        BY <3>4 DEF Dial, GiveUp, Moves
      <4> QED
        BY <1>1, <4>1, SameHolders
    <3> QED
      BY <1>3, <3>1, <3>2, <3>3, <3>4 DEF Open
  <2>3. Moves(s, u) /\ (u.initialized <=> t.initialized) /\ (u.session <=> t.session)
    BY <2>2 DEF Types, Moves, SameHolder
  <2> QED
    BY <1>1, <2>1, <2>3, HeldKept
<1> QED
  BY <1>2, <1>3

LEMMA CloseHeld ==
    ASSUME Types, Types', TransportInv, NifmHeld, NEW s \in Session, Close(s)
    PROVE  NifmHeld'
<1> DEFINE t == transport[s]
           u == transport'[s]
<1>1. t \in Transport /\ u \in Transport /\ Holds(t)
  BY DEF Types, TransportInv
<1>2. CASE ReleaseSession(s)
  <2>1. /\ t.at = "release" /\ transport' = [transport EXCEPT ![s] = Closed(s)]
        /\ refcount' = IF t.session THEN (IF refcount > 0 THEN refcount - 1 ELSE 0) ELSE refcount
    BY <1>2 DEF ReleaseSession, Release
  <2>2. u = Closed(s) /\ Moves(s, u)
    BY <2>1 DEF Types, Moves
  <2>3. t.initialized
    BY <1>1, <2>1 DEF Holds
  <2>4. u.initialized /\ ~u.session
    <3>1. CASE t.after = "acquire"
      BY <1>1, <2>2, <2>3, <3>1 DEF Closed, Transport
    <3>2. CASE t.after = "failed" /\ t.by = "initialize"
      BY <1>1, <2>2, <2>3, <3>2 DEF Closed, Transport
    <3>3. CASE t.after = "destroyed"
      BY <1>1, <2>2, <2>3, <3>3 DEF Closed, NoTransport
    <3>4. CASE /\ t.after \notin {"acquire", "destroyed"}
               /\ ~(t.after = "failed" /\ t.by = "initialize")
      BY <1>1, <2>2, <2>3, <3>4 DEF Closed, Transport
    <3> QED
      BY <3>1, <3>2, <3>3, <3>4
  <2>5. (u.initialized <=> t.initialized) /\ (~t.session => (u.session <=> t.session))
    BY <1>1, <2>3, <2>4 DEF Transport
  <2> HIDE DEF u
  <2>6. /\ Initialized' = Initialized
        /\ Cardinality(Initialized) \in Nat /\ Cardinality(Sessions) \in Nat
        /\ t.session => /\ Cardinality(Sessions) > 0
                        /\ Cardinality(Sessions') = Cardinality(Sessions) - 1
        /\ ~t.session => Sessions' = Sessions
    BY <1>1, <2>2, <2>4, <2>5, HoldersStep
  <2>7. refcount' = Cardinality(Initialized') + Cardinality(Sessions')
    BY <2>1, <2>6, HeldIsCount
  <2> QED
    BY <2>7 DEF NifmHeld, Initialized, Sessions
<1>3. CASE ~ReleaseSession(s)
  <2>1. refcount' = refcount
    BY <1>3 DEF Close, Stop, Join, Unpublish, Shut, shared
  <2>2. \E v : /\ Moves(s, v)
               /\ SameHolder(v, t)
    <3>1. PICK l : Moves(s, [t EXCEPT !.at = l]) \/
                   Moves(s, [t EXCEPT !.at = "release", !.fd = FALSE, !.request = FALSE])
      BY <1>3 DEF Close, Stop, Join, Unpublish, Shut, Step, Moves
    <3> QED
      BY <1>1, <3>1, SameHolders
  <2>3. Moves(s, u) /\ (u.initialized <=> t.initialized) /\ (u.session <=> t.session)
    BY <2>2 DEF Types, Moves, SameHolder
  <2> QED
    BY <1>1, <2>1, <2>3, HeldKept
<1> QED
  BY <1>2, <1>3

LEMMA CallsHeld ==
    ASSUME Types, Types', TransportInv, NifmHeld, NEW s \in Session, Calls(s)
    PROVE  NifmHeld'
<1> DEFINE t == transport[s]
           u == transport'[s]
<1>1. t \in Transport /\ u \in Transport /\ Holds(t)
  BY DEF Types, TransportInv
<1>2. ASSUME NEW v, Moves(s, v)
      PROVE  u = v /\ Moves(s, u)
  BY <1>2 DEF Types, Moves
<1>3. CASE Initialize(s)
  <2>1. ~t.initialized /\ refcount' = refcount + 1
    BY <1>3 DEF Initialize, Acquire
  <2>2. PICK v : /\ Moves(s, v)
                 /\ v \in {[t EXCEPT !.initialized = TRUE],
                           [t EXCEPT !.initialized = TRUE, !.exists = TRUE, !.by = "initialize",
                                     !.at = IF t.exists THEN "stop" ELSE "acquire",
                                     !.after = "acquire"]}
    BY <1>3 DEF Initialize, Moves
  <2>3. v.initialized /\ (v.session <=> t.session)
    BY <1>1, <2>2 DEF Transport
  <2>4. u = v /\ Moves(s, u)
    BY <1>2, <2>2
  <2> HIDE DEF u
  <2>5. /\ Cardinality(Initialized') = Cardinality(Initialized) + 1 /\ Sessions' = Sessions
        /\ Cardinality(Initialized) \in Nat /\ Cardinality(Sessions) \in Nat
    BY <1>1, <2>1, <2>3, <2>4, HoldersStep
  <2>6. refcount' = Cardinality(Initialized') + Cardinality(Sessions')
    BY <2>1, <2>5, HeldIsCount
  <2> QED
    BY <2>6 DEF NifmHeld, Initialized, Sessions
<1>4. ASSUME NEW v, Moves(s, v), t.initialized, ~v.initialized, v.session <=> t.session,
             Release
      PROVE  NifmHeld'
  <2>1. u = v /\ Moves(s, u)
    BY <1>2, <1>4
  <2> HIDE DEF u
  <2>2. /\ Cardinality(Initialized) > 0
        /\ Cardinality(Initialized') = Cardinality(Initialized) - 1 /\ Sessions' = Sessions
        /\ Cardinality(Initialized) \in Nat /\ Cardinality(Sessions) \in Nat
    BY <1>1, <1>4, <2>1, HoldersStep
  <2>3. refcount' = Cardinality(Initialized') + Cardinality(Sessions')
    BY <1>4, <2>2, HeldIsCount DEF Release
  <2> QED
    BY <2>3 DEF NifmHeld, Initialized, Sessions
<1>5. CASE Finalized(s)
  <2>1. Moves(s, NoTransport) /\ Release /\ t.initialized /\ ~t.session
    BY <1>1, <1>5 DEF Finalized, Moves, Holds
  <2>2. ~NoTransport.initialized /\ ~NoTransport.session
    BY DEF NoTransport
  <2> QED
    BY <1>4, <2>1, <2>2
<1>6. ASSUME NEW v, Moves(s, v), SameHolder(v, t), refcount' = refcount
      PROVE  NifmHeld'
  <2>1. u = v /\ Moves(s, u)
    BY <1>2, <1>6
  <2> HIDE DEF u
  <2> QED
    BY <1>1, <1>6, <2>1, HeldKept DEF SameHolder
<1>7. CASE WorkerStarts(s)
  <2>1. t.initialized
    BY <1>1, <1>7 DEF WorkerStarts, Holds
  <2>2. CASE Moves(s, [t EXCEPT !.by = "worker"]) /\ refcount' = refcount
    <3>1. SameHolder([t EXCEPT !.by = "worker"], t)
      BY <1>1 DEF Transport, SameHolder
    <3> QED
      BY <1>6, <2>2, <3>1
  <2>3. CASE Moves(s, [t EXCEPT !.by = "worker", !.initialized = FALSE]) /\ Release
    <3>1. LET v == [t EXCEPT !.by = "worker", !.initialized = FALSE]
          IN ~v.initialized /\ (v.session <=> t.session)
      BY <1>1 DEF Transport
    <3> QED
      BY <1>4, <2>1, <2>3, <3>1
  <2> QED
    BY <1>7, <2>2, <2>3 DEF WorkerStarts, Moves
<1>8. CASE Finalize(s)
  <2>1. /\ SameHolder([t EXCEPT !.by = "finalize", !.at = "stop", !.after = "destroyed"], t)
        /\ SameHolder([t EXCEPT !.by = "finalize"], t)
    BY <1>1 DEF Transport, SameHolder
  <2> QED
    BY <1>6, <1>8, <2>1 DEF Finalize, Moves, shared
<1>9. CASE Beacon(s)
  <2> DEFINE missed == IF t.misses < PingMaxMisses THEN t.misses + 1 ELSE t.misses
  <2>1. /\ SameHolder([t EXCEPT !.at = "stop", !.after = "acquire"], t)
        /\ \A m : SameHolder([t EXCEPT !.misses = m], t)
    BY <1>1 DEF Transport, SameHolder
  <2>2. PICK v \in {[t EXCEPT !.at = "stop", !.after = "acquire"],
                    [t EXCEPT !.misses = missed]} : Moves(s, v)
    <3>1. CASE PathDead(t)
      BY <1>9, <3>1 DEF Beacon, Moves
    <3>2. CASE ~PathDead(t)
      BY <1>9, <3>2 DEF Beacon, Moves
    <3> QED
      BY <3>1, <3>2
  <2> QED
    BY <1>6, <1>9, <2>1, <2>2 DEF Beacon, shared
<1>10. CASE RecvBroadcast(s)
  <2>1. \A b : SameHolder([t EXCEPT !.misses = 0, !.supported = b], t)
    BY <1>1 DEF Transport, SameHolder
  <2> QED
    BY <1>6, <1>10, <2>1 DEF RecvBroadcast, Moves, shared
<1>11. CASE OnClose(s)
  <2>1. SameHolder([t EXCEPT !.at = "stop", !.after = "idle"], t)
    BY <1>1 DEF Transport, SameHolder
  <2> QED
    BY <1>6, <1>11, <2>1 DEF OnClose, Moves, shared
<1> QED
  BY <1>3, <1>5, <1>7, <1>8, <1>9, <1>10, <1>11 DEF Calls

LEMMA OthersHeld ==
    ASSUME Types, NifmHeld, Others
    PROVE  NifmHeld'
<1>1. CASE Restart
  <2>1. Initialized' = {} /\ Sessions' = {} /\ refcount' = 0
    BY <1>1 DEF Restart, Initialized, Sessions, NoTransport
  <2>2. refcount' = Cardinality(Initialized') + Cardinality(Sessions')
    BY <2>1, FS_EmptySet
  <2> QED
    BY <2>2 DEF NifmHeld, Initialized, Sessions
<1>2. CASE ~Restart
  <2>1. UNCHANGED <<refcount, transport>>
    BY <1>2 DEF Others, ReadConfigFile, Compose, SetFileSize, WriteFile,
       ChangeSetting, PumpEnds, shared
  <2> QED
    BY <2>1 DEF NifmHeld
<1> QED
  BY <1>1, <1>2

-----------------------------------------------------------------------------
(* The pump of the TCP tunnel. *)

LEMMA JoiningCount ==
    ASSUME Types
    PROVE  /\ Cardinality(Joining) \in Nat /\ pump.threads \in Nat
           /\ Cardinality(Joining) <= Cardinality(Session)
           /\ Cardinality(Joining) = Cardinality(Session) => Joining = Session
           /\ Cardinality(Session) \in Nat
<1>1. Joining \in SUBSET Session
  BY DEF Joining
<1>2. IsFiniteSet(Joining) /\ Cardinality(Joining) <= Cardinality(Session)
      /\ (Cardinality(Session) = Cardinality(Joining) => Session = Joining)
  BY <1>1, FS_Subset, BridgeAssumption
<1>3. Cardinality(Joining) \in Nat /\ Cardinality(Session) \in Nat
  BY <1>2, FS_CardinalityType, BridgeAssumption
<1> QED
  BY <1>2, <1>3 DEF Types

\* A step of one transport that leaves the pump alone.
LEMMA PumpKept ==
    ASSUME Types, PumpInv, NEW s \in Session, NEW u, Moves(s, u), pump' = pump,
           Carries(transport[s]) => Carries(u),
           u.at = "join" <=> transport[s].at = "join"
    PROVE  PumpInv'
<1>1. transport'[s] = u /\ \A r \in Session : r # s => transport'[r] = transport[r]
  BY DEF Types, Moves
<1>2. Joining' = Joining
  BY <1>1 DEF Joining
<1>3. \A r \in Session : Carries(transport[r]) => Carries(transport'[r])
  BY <1>1
<1>4. pump'.running => \E r \in Session : Carries(transport'[r])
  BY <1>3 DEF PumpInv
<1> QED
  BY <1>2, <1>4 DEF PumpInv, Carries

LEMMA OpenPump ==
    ASSUME Types, TransportInv, PumpInv, NEW s \in Session, Open(s)
    PROVE  PumpInv'
<1> DEFINE t == transport[s]
<1>1. t \in Transport /\ Holds(t)
  BY DEF Types, TransportInv
<1>2. CASE Start(s)
  <2> DEFINE u == [t EXCEPT !.at = "idle"]
  <2>1. Moves(s, u) /\ t.at = "start" /\ t.fd
    BY <1>1, <1>2 DEF Start, Step, Moves, Holds
  <2>2. Carries(u) /\ u.at # "join" /\ Carries(t)
    BY <1>1, <2>1 DEF Carries, Transport
  <2>3. CASE pump' = pump
    BY <2>1, <2>2, <2>3, PumpKept
  <2>4. CASE ~pump.running /\ pump' = [running |-> TRUE, threads |-> pump.threads + 1]
    <3>1. transport'[s] = u /\ \A r \in Session : r # s => transport'[r] = transport[r]
      BY <2>1 DEF Types, Moves
    <3>2. Joining' = Joining
      BY <2>1, <2>2, <3>1 DEF Joining
    <3>3. pump'.running /\ pump'.threads = pump.threads + 1
      BY <2>4
    <3>4. Carries(transport'[s])
      BY <2>2, <3>1
    <3>5. pump'.threads <= Cardinality(Joining') + 1
      BY <2>4, <3>2, <3>3, JoiningCount DEF PumpInv
    <3> QED
      BY <3>3, <3>4, <3>5 DEF PumpInv, Carries
  <2> QED
    BY <1>2, <2>3, <2>4 DEF Start
<1>3. CASE ~Start(s)
  <2>1. t.at \in Opening \cup {"publish"} /\ pump' = pump
    BY <1>3 DEF Open, OpenSession, OpenRequest, LoadClientId, DrawClientId, Persisted,
       Dial, Publish, Step, Opening, shared
  <2>2. ~Carries(t) /\ t.at # "join"
    BY <1>1, <2>1 DEF Carries, Holds, Opening
  <2>3. \E u : Moves(s, u) /\ u.at # "join"
    <3>1. PICK l, a, b, c :
            /\ l \in Opening \cup {"publish", "start", "stop"}
            /\ \/ Moves(s, [t EXCEPT !.at = l])
               \/ Moves(s, [t EXCEPT !.at = l, !.session = b])
               \/ Moves(s, [t EXCEPT !.at = l, !.request = b])
               \/ Moves(s, [t EXCEPT !.at = l, !.after = c, !.request = b])
               \/ Moves(s, [t EXCEPT !.at = l, !.vsrc = a])
               \/ Moves(s, [t EXCEPT !.at = l, !.fd = TRUE, !.misses = 0, !.supported = FALSE])
      <4>1. CASE OpenSession(s)
        BY <4>1 DEF OpenSession, Moves, Opening
      <4>2. CASE OpenRequest(s)
        BY <4>2 DEF OpenRequest, GiveUp, Moves, Opening
      <4>3. CASE LoadClientId(s)
        BY <4>3 DEF LoadClientId, Moves, Opening
      <4>4. CASE DrawClientId(s)
        BY <4>4 DEF DrawClientId, Moves, Opening
      <4>5. CASE Persisted(s) \/ Publish(s)
        BY <4>5 DEF Persisted, Publish, Step, Moves, Opening
      <4>6. CASE Dial(s)
        BY <4>6 DEF Dial, GiveUp, Moves, Opening
      <4> QED
        BY <1>3, <4>1, <4>2, <4>3, <4>4, <4>5, <4>6 DEF Open
    <3>2. l # "join"
      BY <3>1 DEF Opening
    <3>3. /\ [t EXCEPT !.at = l].at = l
          /\ [t EXCEPT !.at = l, !.session = b].at = l
          /\ [t EXCEPT !.at = l, !.request = b].at = l
          /\ [t EXCEPT !.at = l, !.after = c, !.request = b].at = l
          /\ [t EXCEPT !.at = l, !.vsrc = a].at = l
          /\ [t EXCEPT !.at = l, !.fd = TRUE, !.misses = 0, !.supported = FALSE].at = l
      BY <1>1 DEF Transport
    <3> QED
      BY <3>1, <3>2, <3>3
  <2> QED
    BY <2>1, <2>2, <2>3, PumpKept
<1> QED
  BY <1>2, <1>3

LEMMA ClosePump ==
    ASSUME Types, TransportInv, PumpInv, NEW s \in Session, Close(s)
    PROVE  PumpInv'
<1> DEFINE t == transport[s]
<1>1. t \in Transport /\ Holds(t)
  BY DEF Types, TransportInv
<1>2. CASE Stop(s) /\ pump.running
  <2> DEFINE u == [t EXCEPT !.at = "join"]
  <2>1. Moves(s, u) /\ t.at = "stop" /\ pump' = [pump EXCEPT !.running = FALSE]
    BY <1>2 DEF Stop, Step, Moves
  <2>2. transport'[s] = u /\ \A r \in Session : r # s => transport'[r] = transport[r]
    BY <2>1 DEF Types, Moves
  <2>3. u.at = "join"
    BY <1>1 DEF Transport
  <2>4. s \notin Joining /\ Joining' = Joining \cup {s} /\ Joining \in SUBSET Session
    BY <2>1, <2>2, <2>3 DEF Joining
  <2>5. Cardinality(Joining') = Cardinality(Joining) + 1
    BY <2>4, OneMore
  <2>6. ~pump'.running /\ pump'.threads = pump.threads
    BY <2>1 DEF Types
  <2> QED
    <3>1. pump.threads <= Cardinality(Joining) + 1
      BY <1>2 DEF PumpInv
    <3>2. pump'.threads <= Cardinality(Joining')
      BY <2>5, <2>6, <3>1
    <3>3. Cardinality(Joining') \in Nat /\ Joining' # {}
      BY <2>4, <2>5, JoiningCount
    <3> QED
      BY <2>6, <3>2, <3>3 DEF PumpInv
<1>3. CASE Stop(s) /\ ~pump.running
  <2> DEFINE u == [t EXCEPT !.at = "unpublish"]
  <2>1. Moves(s, u) /\ t.at = "stop" /\ pump' = [pump EXCEPT !.running = FALSE]
    BY <1>3 DEF Stop, Step, Moves
  <2>2. transport'[s] = u /\ \A r \in Session : r # s => transport'[r] = transport[r]
    BY <2>1 DEF Types, Moves
  <2>3. u.at = "unpublish"
    BY <1>1 DEF Transport
  <2>4. Joining' = Joining
    BY <2>1, <2>2, <2>3 DEF Joining
  <2>5. ~pump'.running /\ pump'.threads = pump.threads
    BY <2>1 DEF Types
  <2> QED
    BY <1>3, <2>4, <2>5 DEF PumpInv
<1>4. CASE Join(s)
  <2>1. pump.threads = 0 /\ pump' = pump /\ t.at = "join"
        /\ transport' = [transport EXCEPT ![s].at = "unpublish"]
    BY <1>4 DEF Join, Step, shared
  <2>2. \A r \in Session : Carries(transport[r]) => Carries(transport'[r])
    BY <2>1 DEF Types, Carries
  <2>3. Joining' \in SUBSET Session
    BY DEF Joining
  <2>4. Cardinality(Joining') \in Nat
    BY <2>3, OneMore
  <2>5. pump.running => \E r \in Session : Carries(transport'[r])
    BY <2>2 DEF PumpInv
  <2> QED
    BY <2>1, <2>4, <2>5 DEF PumpInv, Carries
<1>5. CASE Unpublish(s) \/ Shut(s) \/ ReleaseSession(s)
  <2>1. t.at \in {"unpublish", "shut", "release"} /\ pump' = pump
    BY <1>5 DEF Unpublish, Shut, ReleaseSession, Step, shared
  <2>2. ~Carries(t) /\ t.at # "join"
    BY <2>1 DEF Carries
  <2>3. PICK u : Moves(s, u) /\ u.at # "join"
    <3>1. CASE Unpublish(s)
      <4>1. [t EXCEPT !.at = "shut"].at = "shut"
        BY <1>1 DEF Transport
      <4> QED
        BY <3>1, <4>1 DEF Unpublish, Step, Moves
    <3>2. CASE Shut(s)
      <4>1. [t EXCEPT !.at = "release", !.fd = FALSE, !.request = FALSE].at = "release"
        BY <1>1 DEF Transport
      <4> QED
        BY <3>2, <4>1 DEF Shut, Moves
    <3>3. CASE ReleaseSession(s)
      <4>1. Closed(s).at \in {"idle", "acquire", "stop"}
        <5>1. CASE t.after = "acquire"
          BY <1>1, <5>1 DEF Closed, Transport
        <5>2. CASE t.after = "failed" /\ t.by = "initialize"
          BY <1>1, <5>2 DEF Closed, Transport
        <5>3. CASE t.after = "destroyed"
          BY <1>1, <5>3 DEF Closed, NoTransport
        <5>4. CASE /\ t.after \notin {"acquire", "destroyed"}
                   /\ ~(t.after = "failed" /\ t.by = "initialize")
          BY <1>1, <5>4 DEF Closed, Transport
        <5> QED
          BY <5>1, <5>2, <5>3, <5>4
      <4> QED
        BY <3>3, <4>1 DEF ReleaseSession, Moves
    <3> QED
      BY <1>5, <3>1, <3>2, <3>3
  <2> QED
    BY <2>1, <2>2, <2>3, PumpKept
<1> QED
  BY <1>2, <1>3, <1>4, <1>5 DEF Close

LEMMA CallsPump ==
    ASSUME Types, TransportInv, PumpInv, NEW s \in Session, Calls(s)
    PROVE  PumpInv'
<1> USE DEF Carries, Transport
<1> DEFINE t == transport[s]
           Fits(u) == Moves(s, u) /\ (Carries(t) => Carries(u)) /\ u.at # "join"
<1>1. t \in Transport /\ Holds(t)
  BY DEF Types, TransportInv
<1>2. t.at = "idle" /\ pump' = pump
  BY DEF Calls, Initialize, WorkerStarts, Finalize, Finalized, Beacon, RecvBroadcast,
     OnClose, Working, Idle, shared
<1>3. \E u : Fits(u)
  <2>1. CASE Initialize(s)
    <3>1. PICK u \in {[t EXCEPT !.initialized = TRUE],
                      [t EXCEPT !.initialized = TRUE, !.exists = TRUE, !.by = "initialize",
                                !.at = IF t.exists THEN "stop" ELSE "acquire",
                                !.after = "acquire"]} : Moves(s, u)
      BY <2>1 DEF Initialize, Moves
    <3>2. Fits(u)
      BY <1>1, <1>2, <3>1 DEF Holds
    <3> QED
      BY <3>2
  <2>2. CASE WorkerStarts(s)
    <3>1. PICK u \in {[t EXCEPT !.by = "worker"],
                      [t EXCEPT !.by = "worker", !.initialized = FALSE]} : Moves(s, u)
      BY <2>2 DEF WorkerStarts, Moves
    <3>2. Fits(u)
      BY <1>1, <1>2, <3>1
    <3> QED
      BY <3>2
  <2>3. CASE Finalize(s)
    <3>1. PICK u \in {[t EXCEPT !.by = "finalize", !.at = "stop", !.after = "destroyed"],
                      [t EXCEPT !.by = "finalize"]} : Moves(s, u)
      BY <2>3 DEF Finalize, Moves
    <3>2. Fits(u)
      BY <1>1, <1>2, <3>1
    <3> QED
      BY <3>2
  <2>4. CASE Finalized(s)
    <3>1. Moves(s, NoTransport) /\ ~t.fd
      BY <1>1, <2>4 DEF Finalized, Moves, Holds
    <3>2. Fits(NoTransport)
      BY <3>1 DEF NoTransport
    <3> QED
      BY <3>2
  <2>5. CASE Beacon(s)
    <3> DEFINE missed == IF t.misses < PingMaxMisses THEN t.misses + 1 ELSE t.misses
    <3>1. PICK u \in {[t EXCEPT !.at = "stop", !.after = "acquire"],
                      [t EXCEPT !.misses = missed]} : Moves(s, u)
      <4>1. CASE PathDead(t)
        BY <2>5, <4>1 DEF Beacon, Moves
      <4>2. CASE ~PathDead(t)
        BY <2>5, <4>2 DEF Beacon, Moves
      <4> QED
        BY <4>1, <4>2
    <3> HIDE DEF missed
    <3>2. Fits(u)
      BY <1>1, <1>2, <3>1
    <3> QED
      BY <3>2
  <2>6. CASE RecvBroadcast(s)
    <3>1. PICK answered \in BOOLEAN :
             Moves(s, [t EXCEPT !.misses = 0, !.supported = answered])
      BY <2>6 DEF RecvBroadcast, Moves
    <3>2. Fits([t EXCEPT !.misses = 0, !.supported = answered])
      BY <1>1, <1>2, <3>1
    <3> QED
      BY <3>2
  <2>7. CASE OnClose(s)
    <3>1. Moves(s, [t EXCEPT !.at = "stop", !.after = "idle"])
      BY <2>7 DEF OnClose, Moves
    <3>2. Fits([t EXCEPT !.at = "stop", !.after = "idle"])
      BY <1>1, <1>2, <3>1
    <3> QED
      BY <3>2
  <2> QED
    BY <2>1, <2>2, <2>3, <2>4, <2>5, <2>6, <2>7 DEF Calls
<1>4. PICK u : Fits(u)
  BY <1>3
<1> QED
  BY <1>2, <1>4, PumpKept

LEMMA OthersPump ==
    ASSUME Types, PumpInv, Others
    PROVE  PumpInv'
<1>1. CASE Restart
  <2>1. ~pump'.running /\ pump'.threads = 0
    BY <1>1 DEF Restart
  <2>2. Joining' \in SUBSET Session
    BY DEF Joining
  <2>3. Cardinality(Joining') \in Nat
    <3>1. IsFiniteSet(Joining')
      BY <2>2, FS_Subset, BridgeAssumption
    <3> QED
      BY <3>1, FS_CardinalityType
  <2> QED
    BY <2>1, <2>3 DEF PumpInv
<1>2. CASE PumpEnds
  <2>1. /\ pump'.running = pump.running /\ pump'.threads = pump.threads - 1
        /\ transport' = transport /\ pump.threads > 0 /\ ~pump.running
    BY <1>2 DEF PumpEnds, Types
  <2>2. Joining' = Joining
    BY <2>1 DEF Joining
  <2> QED
    BY <2>1, <2>2, JoiningCount DEF PumpInv
<1>3. CASE ~Restart /\ ~PumpEnds
  <2>1. UNCHANGED <<pump, transport>>
    BY <1>3 DEF Others, ReadConfigFile, Compose, SetFileSize, WriteFile,
       ChangeSetting, shared
  <2> QED
    BY <2>1 DEF PumpInv, Joining, Carries
<1> QED
  BY <1>1, <1>2, <1>3

-----------------------------------------------------------------------------
(* relay.cfg. *)

\* The steps that neither rewrite relay.cfg nor draw an address.
LEMMA FileKeptByOthers ==
    ASSUME FileInv, UNCHANGED <<clientId, config>>
    PROVE  FileInv'
<1> QED
  BY DEF FileInv, config, Rewriting

\* A rewrite begins.
LEMMA BeginFile ==
    ASSUME Types, FileInv, NEW w \in Writer, Begin(w)
    PROVE  FileInv'
<1>1. /\ rewrite' = [rewrite EXCEPT ![w].at = "read"] /\ file' = file
      /\ tidy' => tidy /\ \A v \in Writer : ~Rewriting(v)
  BY DEF Begin
<1>2. /\ rewrite'[w].at = "read"
      /\ \A v \in Writer : v # w => rewrite'[v] = rewrite[v]
  BY <1>1 DEF Types, Rewrite
<1>3. SUFFICES ASSUME tidy' PROVE FileInv'
  BY DEF FileInv
<1>4. /\ tidy /\ Enough(file.lines)
      /\ \A v \in Writer : rewrite[v].at = "idle"
  BY <1>1, <1>3 DEF FileInv, Rewriting
<1>5. \A v \in Writer : v # w => rewrite'[v].at = "idle"
  BY <1>2, <1>4
<1> QED
  BY <1>1, <1>2, <1>4, <1>5 DEF FileInv, Rewriting

LEMMA SessionFile ==
    ASSUME Types, FileInv, NEW s \in Session, Open(s) \/ Close(s) \/ Calls(s)
    PROVE  FileInv'
<1>1. CASE DrawClientId(s) /\ clientId = None
  <2>1. Begin(s) /\ s \in Writer
    BY <1>1 DEF DrawClientId, Writer
  <2> QED
    BY <2>1, BeginFile
<1>2. CASE ~(DrawClientId(s) /\ clientId = None)
  <2>1. UNCHANGED <<clientId, config>>
    BY <1>2 DEF Open, OpenSession, OpenRequest, LoadClientId, DrawClientId, Persisted,
       Dial, Publish, Start, Close, Stop, Join, Unpublish, Shut, ReleaseSession, Calls,
       Initialize, WorkerStarts, Finalize, Finalized, Beacon, RecvBroadcast, OnClose,
       shared
  <2> QED
    BY <2>1, FileKeptByOthers
<1> QED
  BY <1>1, <1>2

\* A rewrite goes on: in a tidy history it is the only one.
LEMMA RewriteFile ==
    ASSUME Types, FileInv, NEW w \in Writer,
           ReadConfigFile(w) \/ Compose(w) \/ SetFileSize(w) \/ WriteFile(w)
    PROVE  FileInv'
<1>1. clientId' = clientId
  BY DEF ReadConfigFile, Compose, SetFileSize, WriteFile, shared
<1>2. SUFFICES ASSUME tidy' PROVE FileInv'
  BY DEF FileInv
<1>3. rewrite[w] \in Rewrite /\ rewrite[w].at # "idle" /\ tidy
  BY <1>2 DEF ReadConfigFile, Compose, SetFileSize, WriteFile, Types
<1>4. \A v \in Writer : v # w => rewrite[v].at = "idle"
  BY <1>3 DEF FileInv, Rewriting
<1>5. \A u : rewrite' = [rewrite EXCEPT ![w] = u] =>
         rewrite'[w] = u /\ \A v \in Writer : v # w => rewrite'[v].at = "idle"
  BY <1>4 DEF Types
<1> USE <1>3
<1>6. CASE ReadConfigFile(w)
  <2>1. PICK n \in Least(file.lines, LinesRead) .. file.lines :
            /\ rewrite' = [rewrite EXCEPT ![w] = [@ EXCEPT !.at = "compose", !.lines = n]]
            /\ file' = file /\ rewrite[w].at = "read"
    BY <1>2, <1>6 DEF ReadConfigFile
  <2> DEFINE u == [rewrite[w] EXCEPT !.at = "compose", !.lines = n]
  <2>2. rewrite'[w] = u /\ \A v \in Writer : v # w => rewrite'[v].at = "idle"
    BY <1>5, <2>1
  <2>3. u.at = "compose" /\ u.lines = n
    BY DEF Rewrite
  <2>4. Enough(file.lines)
    BY <1>4, <2>1 DEF FileInv
  <2>5. Enough(n)
    BY <2>1, <2>4, BridgeAssumption DEF Enough, Least, Types, Content
  <2> HIDE DEF u
  <2> QED
    BY <1>1, <2>1, <2>2, <2>3, <2>4, <2>5 DEF FileInv, Rewriting
<1>7. CASE Compose(w)
  <2> DEFINE u == [rewrite[w] EXCEPT !.at = "truncate", !.id = clientId]
  <2>1. rewrite' = [rewrite EXCEPT ![w] = u] /\ file' = file /\ rewrite[w].at = "compose"
    BY <1>7 DEF Compose
  <2>2. rewrite'[w] = u /\ \A v \in Writer : v # w => rewrite'[v].at = "idle"
    BY <1>5, <2>1
  <2>3. u.at = "truncate" /\ u.lines = rewrite[w].lines /\ u.id = clientId
    BY DEF Rewrite
  <2>4. Enough(file.lines) /\ Enough(rewrite[w].lines)
    BY <1>4, <2>1 DEF FileInv
  <2> HIDE DEF u
  <2> QED
    BY <1>1, <2>1, <2>2, <2>3, <2>4 DEF FileInv, Rewriting
<1>8. CASE SetFileSize(w)
  <2> DEFINE u == [rewrite[w] EXCEPT !.at = "write"]
  <2>1. rewrite' = [rewrite EXCEPT ![w] = u] /\ rewrite[w].at = "truncate"
    BY <1>2, <1>8 DEF SetFileSize
  <2>2. rewrite'[w] = u /\ \A v \in Writer : v # w => rewrite'[v].at = "idle"
    BY <1>5, <2>1
  <2>3. u.at = "write" /\ u.lines = rewrite[w].lines /\ u.id = rewrite[w].id
    BY DEF Rewrite
  <2>4. Enough(rewrite[w].lines) /\ rewrite[w].id = clientId
    BY <2>1 DEF FileInv
  <2> HIDE DEF u
  <2> QED
    BY <1>1, <2>2, <2>3, <2>4 DEF FileInv, Rewriting
<1>9. CASE WriteFile(w)
  <2>1. PICK n \in 0 .. UserLines :
            /\ rewrite' = [rewrite EXCEPT ![w] = NoRewrite] /\ rewrite[w].at = "write"
            /\ rewrite[w].lines <= n
            /\ file' = [lines |-> n, id |-> rewrite[w].id]
    BY <1>2, <1>9 DEF WriteFile
  <2>2. rewrite'[w] = NoRewrite /\ \A v \in Writer : v # w => rewrite'[v].at = "idle"
    BY <1>5, <2>1
  <2>3. \A v \in Writer : rewrite'[v].at = "idle"
    BY <2>2 DEF NoRewrite
  <2>4. Enough(rewrite[w].lines) /\ rewrite[w].id = clientId
    BY <2>1 DEF FileInv
  <2>5. Enough(file'.lines) /\ file'.id = clientId
    BY <2>1, <2>4, BridgeAssumption DEF Enough, Least, Rewrite
  <2> QED
    BY <1>1, <2>3, <2>5 DEF FileInv, Rewriting
<1> QED
  BY <1>6, <1>7, <1>8, <1>9

LEMMA OthersFile ==
    ASSUME Types, FileInv, Others
    PROVE  FileInv'
<1>1. CASE ChangeSetting
  <2>1. Begin(Overlay) /\ Overlay \in Writer
    BY <1>1 DEF ChangeSetting, Writer
  <2> QED
    BY <2>1, BeginFile
<1>2. CASE PumpEnds
  BY <1>2, FileKeptByOthers DEF PumpEnds
<1>3. CASE Restart
  <2>1. SUFFICES ASSUME tidy' PROVE FileInv'
    BY DEF FileInv
  <2>2. tidy /\ clientId' = file.id /\ \A w \in Writer : rewrite[w].at # "write"
    BY <1>3, <2>1 DEF Restart
  <2>3. Enough(file.lines) /\ file' = file /\ clientId' = file.id
    BY <1>3, <2>2 DEF Restart, FileInv
  <2>4. \A w \in Writer : rewrite'[w].at = "idle"
    BY <1>3 DEF Restart, NoRewrite
  <2> QED
    BY <2>3, <2>4 DEF FileInv, Rewriting
<1> QED
  BY <1>1, <1>2, <1>3, RewriteFile DEF Others

-----------------------------------------------------------------------------
(* The invariants. *)

LEMMA BridgeSafeInit == Init => BridgeSafe
<1> SUFFICES ASSUME Init PROVE BridgeSafe
  OBVIOUS
<1>1. transport \in [Session -> Transport]
  BY BridgeAssumption DEF Init, NoTransport, Transport, At, After
<1>2. rewrite \in [Writer -> Rewrite]
  BY BridgeAssumption DEF Init, NoRewrite, Rewrite
<1>3. Types
  BY <1>1, <1>2, BridgeAssumption DEF Init, Types, Content
<1>4. TransportInv
  BY DEF Init, TransportInv, BridgeInv, Holds, OneAddress, NoTransport, Opening
<1>5. Joining = {} /\ Initialized = {} /\ Sessions = {}
  BY DEF Init, Joining, Initialized, Sessions, NoTransport
<1>6. PumpInv
  BY <1>5, FS_EmptySet DEF Init, PumpInv
<1>7. FileInv
  BY BridgeAssumption DEF Init, FileInv, Enough, Least, Rewriting, NoRewrite
<1>8. NifmHeld
  BY <1>5, FS_EmptySet, HeldIsCount DEF Init
<1> QED
  BY <1>3, <1>4, <1>6, <1>7, <1>8 DEF BridgeSafe

LEMMA BridgeSafeNext == BridgeSafe /\ [Next]_vars => BridgeSafe'
<1> SUFFICES ASSUME BridgeSafe, [Next]_vars PROVE BridgeSafe'
  OBVIOUS
<1>1. Types /\ TransportInv /\ PumpInv /\ FileInv /\ NifmHeld
  BY DEF BridgeSafe
<1>2. ASSUME NEW s \in Session, Open(s)
      PROVE  BridgeSafe'
  <2>1. Types'
    BY <1>1, <1>2, OpenType
  <2> QED
    BY <1>1, <1>2, <2>1, OpenTransport, OpenPump, SessionFile, OpenHeld DEF BridgeSafe
<1>3. ASSUME NEW s \in Session, Close(s)
      PROVE  BridgeSafe'
  <2>1. Types'
    BY <1>1, <1>3, CloseType
  <2> QED
    BY <1>1, <1>3, <2>1, CloseTransport, ClosePump, SessionFile, CloseHeld DEF BridgeSafe
<1>4. ASSUME NEW s \in Session, Calls(s)
      PROVE  BridgeSafe'
  <2>1. Types'
    BY <1>1, <1>4, CallsType
  <2> QED
    BY <1>1, <1>4, <2>1, CallsTransport, CallsPump, SessionFile, CallsHeld DEF BridgeSafe
<1>5. CASE Others
  BY <1>1, <1>5, OthersType, OthersTransport, OthersPump, OthersFile, OthersHeld
     DEF BridgeSafe
<1>6. CASE UNCHANGED vars
  <2>1. Types'
    BY <1>1, <1>6 DEF vars, Types
  <2>2. TransportInv'
    BY <1>1, <1>6 DEF vars, TransportInv, BridgeInv, Holds, OneAddress
  <2>3. PumpInv'
    BY <1>1, <1>6 DEF vars, PumpInv, Joining, Carries
  <2>4. FileInv'
    BY <1>1, <1>6, FileKeptByOthers DEF vars, config
  <2>5. NifmHeld'
    BY <1>1, <1>6 DEF vars, NifmHeld
  <2> QED
    BY <2>1, <2>2, <2>3, <2>4, <2>5 DEF BridgeSafe
<1> QED
  BY <1>2, <1>3, <1>4, <1>5, <1>6 DEF Next, Others, Calls

\* Everything above holds at every moment.
THEOREM BridgeIsSafe == Spec => []BridgeSafe
<1> QED
  BY BridgeSafeInit, BridgeSafeNext, PTL DEF Spec

\* The counts stay in range: no more references than sessions may hold, no more pump
\* threads than sessions, however often one is stopped while another starts it.
THEOREM TypesAndCounts == Spec => []TypeOK
<1>1. BridgeSafe => TypeOK
  <2> SUFFICES ASSUME BridgeSafe PROVE TypeOK
    OBVIOUS
  <2>1. Types /\ PumpInv /\ NifmHeld
    BY DEF BridgeSafe
  <2>2. Initialized \in SUBSET Session /\ Sessions \in SUBSET Session
    BY DEF Initialized, Sessions
  <2>3. IsFiniteSet(Initialized) /\ IsFiniteSet(Sessions)
        /\ Cardinality(Initialized) <= Cardinality(Session)
        /\ Cardinality(Sessions) <= Cardinality(Session)
    BY <2>2, FS_Subset, BridgeAssumption
  <2>4. Cardinality(Initialized) \in Nat /\ Cardinality(Sessions) \in Nat
        /\ Cardinality(Session) \in Nat
    BY <2>3, FS_CardinalityType, BridgeAssumption
  <2>5. refcount \in 0 .. 2 * Cardinality(Session)
    BY <2>1, <2>3, <2>4, HeldIsCount
  <2>6. pump.running => Joining # Session
    BY <2>1 DEF PumpInv, Joining, Carries
  <2>7. pump.threads \in 0 .. Cardinality(Session)
    BY <2>1, <2>6, JoiningCount DEF PumpInv
  <2>8. pump \in [running: BOOLEAN, threads: 0 .. Cardinality(Session)]
    BY <2>1, <2>7 DEF Types
  <2> QED
    BY <2>1, <2>5, <2>8 DEF TypeOK, Types, Transport, Rewrite, Content
<1> QED
  BY <1>1, BridgeIsSafe, PTL

\* No reference to nifm is lost or given back twice, however opens fail and closes repeat.
THEOREM NifmIsHeld == Spec => []NifmHeld
<1>1. BridgeSafe => NifmHeld
  BY DEF BridgeSafe
<1> QED
  BY <1>1, BridgeIsSafe, PTL

\* The game's threads are never led to a closed socket.
THEOREM BridgeStaysOpen == Spec => []BridgeIsOpen
<1>1. BridgeSafe => BridgeIsOpen
  BY DEF BridgeSafe, TransportInv, BridgeInv, Types, BridgeIsOpen, Holds
<1> QED
  BY <1>1, BridgeIsSafe, PTL

\* The last transport takes the pump with it.
THEOREM PumpDoesNotOutlive == Spec => []PumpEndsWithTransports
<1>1. BridgeSafe => PumpEndsWithTransports
  BY DEF BridgeSafe, PumpInv, Joining, Carries, Types, PumpEndsWithTransports
<1> QED
  BY <1>1, BridgeIsSafe, PTL

\* The console has one virtual address, whoever drew it.
THEOREM AddressIsOne == Spec => []OneClientId
<1>1. BridgeSafe => OneClientId
  BY DEF BridgeSafe, TransportInv, OneAddress, OneClientId
<1> QED
  BY <1>1, BridgeIsSafe, PTL

\* However many lines relay.cfg has: those within the bytes that are read and the address
\* survive every rewrite that neither fails nor meets another, and every restart outside one.
THEOREM FileIsKept == Spec => []FileKept
<1>1. BridgeSafe => FileKept
  BY DEF BridgeSafe, FileInv, Enough, Rewriting, FileKept
<1> QED
  BY <1>1, BridgeIsSafe, PTL

=============================================================================
