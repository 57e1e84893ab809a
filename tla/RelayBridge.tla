---------------------------- MODULE RelayBridge ----------------------------
(***************************************************************************)
(* The transports of several sessions on one console: how each opens,      *)
(* dies, is opened anew and closes, and what they share, which is the      *)
(* reference to nifm, the bridge by which the game's threads send, the     *)
(* pump of the TCP tunnel, the console's virtual address and relay.cfg.    *)
(*                                                                         *)
(* A call is cut where it takes a mutex, waits, or touches a file, and     *)
(* every call on a file may fail.  Of relay.cfg the model keeps the        *)
(* address and how many of the user's own lines, the list of servers, are  *)
(* there, from the first on.  What is read of the file is its first 1023   *)
(* bytes, in which the lines that begin it have room.                      *)
(***************************************************************************)
EXTENDS Naturals, FiniteSets

CONSTANTS
    Session,       \* who may have a transport: one LANDiscovery each
    Overlay,       \* the overlay, which changes settings
    Address,       \* virtual addresses that may be drawn
    None,          \* no transport, no address
    PingMaxMisses, \* 4 in the code
    UserLines,     \* how many lines of relay.cfg are the user's own
    LinesRead      \* how many of them the first 1023 bytes hold below the directives

ASSUME BridgeAssumption ==
    /\ IsFiniteSet(Session) /\ Overlay \notin Session
    /\ None \notin Session \cup Address
    /\ PingMaxMisses \in Nat \ {0}
    /\ UserLines \in Nat /\ LinesRead \in Nat

Writer == Session \cup {Overlay}

VARIABLES
    refcount,  \* NifmSessionManager::g_refcount
    clientId,  \* g_client_id
    bridge,    \* g_bridge_transport
    pump,      \* tcprelay: g_running, and how many pump threads there are
    transport, \* per session: its RelayTransport and what is being done to it
    file,      \* relay.cfg
    rewrite,   \* per writer of relay.cfg: where it is in PersistConfig
    tidy       \* no rewrites of relay.cfg overlapped, none was cut short, no call on it failed

vars == <<refcount, clientId, bridge, pump, transport, file, rewrite, tidy>>
shared == <<refcount, clientId, bridge, pump>>
config == <<file, rewrite, tidy>>

\* Where Open or Close is; "idle" when neither runs.
At == {"idle", "acquire", "request", "id", "draw", "persist", "dial", "publish", "start",
       "stop", "join", "unpublish", "shut", "release"}
\* What comes after Close: nothing, Open, a failed Open's caller, the destructor's caller.
After == {"idle", "acquire", "failed", "destroyed"}

NoTransport == [at |-> "idle", after |-> "idle", by |-> "worker", initialized |-> FALSE, exists |-> FALSE,
                session |-> FALSE, request |-> FALSE, fd |-> FALSE, vsrc |-> None,
                supported |-> FALSE, misses |-> 0]
NoRewrite == [at |-> "idle", lines |-> 0, id |-> None]

TypeOK ==
    /\ refcount \in 0 .. 2 * Cardinality(Session)
    /\ clientId \in Address \cup {None}
    /\ bridge \in Session \cup {None}
    /\ pump \in [running: BOOLEAN, threads: 0 .. Cardinality(Session)]
    /\ transport \in [Session ->
          [at: At, after: After, by: {"initialize", "finalize", "worker"}, initialized: BOOLEAN, exists: BOOLEAN,
           session: BOOLEAN, request: BOOLEAN, fd: BOOLEAN, vsrc: Address \cup {None},
           supported: BOOLEAN, misses: 0 .. PingMaxMisses]]
    /\ file \in [lines: 0 .. UserLines, id: Address \cup {None}]
    /\ rewrite \in [Writer -> [at: {"idle", "read", "compose", "truncate", "write"},
                               lines: 0 .. UserLines, id: Address \cup {None}]]
    /\ tidy \in BOOLEAN

-----------------------------------------------------------------------------
(* The reference to nifm. *)

Acquire == refcount' = refcount + 1

Release == refcount' = IF refcount > 0 THEN refcount - 1 ELSE 0

-----------------------------------------------------------------------------
(* relay.cfg: PersistConfig. *)

Rewriting(w) == rewrite[w].at # "idle"

Begin(w) ==
    /\ rewrite' = [rewrite EXCEPT ![w].at = "read"]
    /\ tidy' = (tidy /\ \A v \in Writer : ~Rewriting(v))
    /\ UNCHANGED file

Least(a, b) == IF a < b THEN a ELSE b

\* The lines within the first 1023 bytes; with fewer or shorter directives above them there may
\* be room for more. When the file cannot be opened or read: none.
ReadConfigFile(w) ==
    /\ rewrite[w].at = "read"
    /\ \/ /\ \E n \in Least(file.lines, LinesRead) .. file.lines :
                rewrite' = [rewrite EXCEPT ![w] = [@ EXCEPT !.at = "compose", !.lines = n]]
          /\ UNCHANGED tidy
       \/ /\ rewrite' = [rewrite EXCEPT ![w] = [@ EXCEPT !.at = "compose", !.lines = 0]]
          /\ tidy' = FALSE
    /\ UNCHANGED <<shared, transport, file>>

\* Faulty: directives are left out as lines of the file and not written anew.
Compose_NoId(w) ==
    /\ rewrite[w].at = "compose"
    /\ rewrite' = [rewrite EXCEPT ![w] = [@ EXCEPT !.at = "truncate", !.id = None]]
    /\ UNCHANGED <<shared, transport, file, tidy>>

\* The settings as they are now, above the lines that were read.
Compose(w) ==
    /\ rewrite[w].at = "compose"
    /\ rewrite' = [rewrite EXCEPT ![w] = [@ EXCEPT !.at = "truncate", !.id = clientId]]
    /\ UNCHANGED <<shared, transport, file, tidy>>

\* The file is opened, or the rewrite is given up; that it could not be truncated goes unnoticed.
SetFileSize(w) ==
    /\ rewrite[w].at = "truncate"
    /\ \/ /\ rewrite' = [rewrite EXCEPT ![w].at = "write"]
          /\ file' = [lines |-> 0, id |-> None]
          /\ UNCHANGED tidy
       \/ /\ rewrite' \in {[rewrite EXCEPT ![w].at = "write"], [rewrite EXCEPT ![w] = NoRewrite]}
          /\ tidy' = FALSE
          /\ UNCHANGED file
    /\ UNCHANGED <<shared, transport>>

\* The new text replaces as much of what is there as it is long. A write that fails leaves none
\* of it or a part.
WriteFile(w) ==
    /\ rewrite[w].at = "write"
    /\ rewrite' = [rewrite EXCEPT ![w] = NoRewrite]
    /\ \/ /\ \E n \in 0 .. UserLines :
                /\ rewrite[w].lines <= n
                /\ n <= rewrite[w].lines \/ n <= file.lines
                /\ file' = [lines |-> n, id |-> rewrite[w].id]
          /\ UNCHANGED tidy
       \/ /\ \E n \in 0 .. rewrite[w].lines :
                file' \in {file, [lines |-> n, id |-> rewrite[w].id]}
          /\ tidy' = FALSE
    /\ UNCHANGED <<shared, transport>>

\* SetRelayEnabled, SelectServer and SetBroadcastRelay end in a rewrite.
ChangeSetting ==
    /\ ~Rewriting(Overlay)
    /\ Begin(Overlay)
    /\ UNCHANGED <<shared, transport>>

-----------------------------------------------------------------------------
(* RelayTransport::Open. *)

Step(s, from, to) == transport[s].at = from /\ transport' = [transport EXCEPT ![s].at = to]

\* What fails before there is a socket: Close, and then Open's caller is told.
GiveUp(s, requested) ==
    transport' = [transport EXCEPT ![s] =
        [@ EXCEPT !.at = "stop", !.after = "failed", !.request = requested]]

\* With the reference of initialize() held, nifm is up and cannot fail here.
OpenSession(s) ==
    /\ transport[s].at = "acquire"
    /\ Acquire
    /\ transport' = [transport EXCEPT ![s] = [@ EXCEPT !.at = "request", !.session = TRUE]]
    /\ UNCHANGED <<clientId, bridge, pump, config>>

\* nifmCreateRequest, nifmRequestSubmitAndWait.
OpenRequest(s) ==
    /\ transport[s].at = "request"
    /\ \/ transport' = [transport EXCEPT ![s] = [@ EXCEPT !.at = "id", !.request = TRUE]]
       \/ \E requested \in BOOLEAN : GiveUp(s, requested)
    /\ UNCHANGED <<shared, config>>

\* EnsureClientId: the address is looked at,
LoadClientId(s) ==
    /\ transport[s].at = "id"
    /\ transport' = [transport EXCEPT ![s] =
          IF clientId = None THEN [@ EXCEPT !.at = "draw"]
          ELSE [@ EXCEPT !.at = "dial", !.vsrc = clientId]]
    /\ UNCHANGED <<shared, config>>

\* Faulty: what another has drawn meanwhile is overwritten.
DrawClientId_NoCompare(s) ==
    /\ transport[s].at = "draw"
    /\ \E fresh \in Address :
          /\ clientId' = fresh
          /\ transport' = [transport EXCEPT ![s] = [@ EXCEPT !.at = "persist", !.vsrc = fresh]]
    /\ Begin(s)
    /\ UNCHANGED <<refcount, bridge, pump>>

\* and drawn unless another has drawn one meanwhile.
DrawClientId(s) ==
    /\ transport[s].at = "draw"
    /\ IF clientId = None
       THEN /\ \E fresh \in Address :
                 /\ clientId' = fresh
                 /\ transport' = [transport EXCEPT ![s] = [@ EXCEPT !.at = "persist", !.vsrc = fresh]]
            /\ Begin(s)
       ELSE /\ transport' = [transport EXCEPT ![s] = [@ EXCEPT !.at = "dial", !.vsrc = clientId]]
            /\ UNCHANGED <<clientId, config>>
    /\ UNCHANGED <<refcount, bridge, pump>>

Persisted(s) ==
    /\ ~Rewriting(s)
    /\ Step(s, "persist", "dial")
    /\ UNCHANGED <<shared, config>>

\* The server is resolved, the socket opened and connected: each may fail.
Dial(s) ==
    /\ transport[s].at = "dial"
    /\ \/ transport' = [transport EXCEPT ![s] =
             [@ EXCEPT !.at = "publish", !.fd = TRUE, !.misses = 0, !.supported = FALSE]]
       \/ GiveUp(s, TRUE)
    /\ UNCHANGED <<shared, config>>

Publish(s) ==
    /\ Step(s, "publish", "start")
    /\ bridge' = s
    /\ UNCHANGED <<refcount, clientId, pump, config>>

\* Faulty: started although it runs.
Start_Always(s) ==
    /\ Step(s, "start", "idle")
    /\ pump' = [running |-> TRUE, threads |-> pump.threads + 1]
    /\ UNCHANGED <<refcount, clientId, bridge, config>>

\* tcprelay::Start; the thread may not come up.
Start(s) ==
    /\ Step(s, "start", "idle")
    /\ IF pump.running THEN UNCHANGED pump
       ELSE \/ pump' = [running |-> TRUE, threads |-> pump.threads + 1]
            \/ UNCHANGED pump
    /\ UNCHANGED <<refcount, clientId, bridge, config>>

-----------------------------------------------------------------------------
(* RelayTransport::Close. *)

\* Faulty: the pump is not waited for.
Stop_NoWait(s) ==
    /\ Step(s, "stop", "unpublish")
    /\ pump' = [pump EXCEPT !.running = FALSE]
    /\ UNCHANGED <<refcount, clientId, bridge, config>>

\* tcprelay::Stop, whoever's streams there are: the pump is told to end,
Stop(s) ==
    /\ Step(s, "stop", IF pump.running THEN "join" ELSE "unpublish")
    /\ pump' = [pump EXCEPT !.running = FALSE]
    /\ UNCHANGED <<refcount, clientId, bridge, config>>

PumpEnds ==
    /\ ~pump.running /\ pump.threads > 0
    /\ pump' = [pump EXCEPT !.threads = @ - 1]
    /\ UNCHANGED <<refcount, clientId, bridge, transport, config>>

\* and waited for.
Join(s) ==
    /\ Step(s, "join", "unpublish")
    /\ pump.threads = 0
    /\ UNCHANGED <<shared, config>>

\* Faulty: what is published stays.
Unpublish_Never(s) == Step(s, "unpublish", "shut") /\ UNCHANGED <<shared, config>>

Unpublish(s) ==
    /\ Step(s, "unpublish", "shut")
    /\ bridge' = IF bridge = s THEN None ELSE bridge
    /\ UNCHANGED <<refcount, clientId, pump, config>>

\* The socket and the request.
Shut(s) ==
    /\ transport[s].at = "shut"
    /\ transport' = [transport EXCEPT ![s] = [@ EXCEPT !.at = "release", !.fd = FALSE, !.request = FALSE]]
    /\ UNCHANGED <<shared, config>>

\* What follows the Close that ends now: Open; the destructor, when the Open of initialize()
\* failed; the end of initialize() or finalize(), with finalize()'s own reference.
Closed(s) ==
    LET t == transport[s]
        closed == [t EXCEPT !.session = FALSE, !.at = "idle", !.after = "idle"]
    IN CASE t.after = "acquire" -> [closed EXCEPT !.at = "acquire"]
         [] t.after = "failed" /\ t.by = "initialize" -> [closed EXCEPT !.at = "stop", !.after = "destroyed"]
         [] t.after = "destroyed" -> [NoTransport EXCEPT !.initialized = TRUE, !.by = t.by]
         [] OTHER -> closed

\* Faulty: the reference is given back as often as Close is called.
ReleaseSession_EachTime(s) ==
    /\ transport[s].at = "release"
    /\ Release
    /\ transport' = [transport EXCEPT ![s] = Closed(s)]
    /\ UNCHANGED <<clientId, bridge, pump, config>>

ReleaseSession(s) ==
    /\ transport[s].at = "release"
    /\ IF transport[s].session THEN Release ELSE UNCHANGED refcount
    /\ transport' = [transport EXCEPT ![s] = Closed(s)]
    /\ UNCHANGED <<clientId, bridge, pump, config>>

-----------------------------------------------------------------------------
(* The callers: the game's initialize() and finalize(), the worker. *)

Idle(s) == transport[s].at = "idle" /\ transport[s].by # "finalize"

\* With the relay turned on a transport replaces the one a failed initialize() left.
Initialize(s) ==
    /\ Idle(s) /\ ~transport[s].initialized
    /\ Acquire
    /\ \/ transport' = [transport EXCEPT ![s].initialized = TRUE]
       \/ transport' = [transport EXCEPT ![s] =
             [@ EXCEPT !.initialized = TRUE, !.exists = TRUE, !.by = "initialize",
                       !.at = IF transport[s].exists THEN "stop" ELSE "acquire", !.after = "acquire"]]
    /\ UNCHANGED <<clientId, bridge, pump, config>>

\* The worker thread starts, or it cannot: initialize() fails and leaves the transport.
WorkerStarts(s) ==
    /\ Idle(s) /\ transport[s].by = "initialize"
    /\ \/ /\ transport' = [transport EXCEPT ![s].by = "worker"]
          /\ UNCHANGED refcount
       \/ /\ transport' = [transport EXCEPT ![s] = [@ EXCEPT !.by = "worker", !.initialized = FALSE]]
          /\ Release
    /\ UNCHANGED <<clientId, bridge, pump, config>>

Working(s) == Idle(s) /\ transport[s].initialized /\ transport[s].by = "worker"

\* The worker is joined, the transport destroyed.
Finalize(s) ==
    /\ Working(s)
    /\ transport' = [transport EXCEPT ![s] =
          IF @.exists THEN [@ EXCEPT !.by = "finalize", !.at = "stop", !.after = "destroyed"]
          ELSE [@ EXCEPT !.by = "finalize"]]
    /\ UNCHANGED <<shared, config>>

Finalized(s) ==
    /\ transport[s].at = "idle" /\ transport[s].by = "finalize"
    /\ Release
    /\ transport' = [transport EXCEPT ![s] = NoTransport]
    /\ UNCHANGED <<clientId, bridge, pump, config>>

PathDead(t) == ~t.fd \/ (t.supported /\ t.misses = PingMaxMisses)

\* The beacon: a ping if the path lives, otherwise Close and Open.
Beacon(s) ==
    /\ Working(s) /\ transport[s].exists
    /\ LET t == transport[s]
           missed == IF t.misses < PingMaxMisses THEN t.misses + 1 ELSE t.misses
       IN transport' = [transport EXCEPT ![s] =
             IF PathDead(t) THEN [t EXCEPT !.at = "stop", !.after = "acquire"]
             ELSE [t EXCEPT !.misses = missed]]
    /\ UNCHANGED <<shared, config>>

\* The server sends something, an answer to a ping perhaps.
RecvBroadcast(s) ==
    /\ Working(s) /\ transport[s].fd
    /\ \E answered \in BOOLEAN :
          /\ transport[s].supported => answered
          /\ transport' = [transport EXCEPT ![s] =
                [@ EXCEPT !.misses = 0, !.supported = answered]]
    /\ UNCHANGED <<shared, config>>

\* The interface goes: RelayLanSocket::onClose.
OnClose(s) ==
    /\ Working(s) /\ transport[s].fd
    /\ transport' = [transport EXCEPT ![s] = [@ EXCEPT !.at = "stop", !.after = "idle"]]
    /\ UNCHANGED <<shared, config>>

\* The console restarts, and LoadConfig reads what is there, or cannot.
Restart ==
    /\ refcount' = 0 /\ bridge' = None
    /\ pump' = [running |-> FALSE, threads |-> 0]
    /\ transport' = [s \in Session |-> NoTransport]
    /\ rewrite' = [w \in Writer |-> NoRewrite]
    /\ \/ /\ clientId' = file.id
          /\ tidy' = (tidy /\ \A w \in Writer : rewrite[w].at # "write")
       \/ clientId' = None /\ tidy' = FALSE
    /\ UNCHANGED file

Init ==
    /\ refcount = 0 /\ clientId = None /\ bridge = None
    /\ pump = [running |-> FALSE, threads |-> 0]
    /\ transport = [s \in Session |-> NoTransport]
    /\ file = [lines |-> UserLines, id |-> None]
    /\ rewrite = [w \in Writer |-> NoRewrite]
    /\ tidy = TRUE

Open(s) ==
    \/ OpenSession(s) \/ OpenRequest(s) \/ LoadClientId(s) \/ DrawClientId(s) \/ Persisted(s)
    \/ Dial(s) \/ Publish(s) \/ Start(s)

Close(s) == Stop(s) \/ Join(s) \/ Unpublish(s) \/ Shut(s) \/ ReleaseSession(s)

Next ==
    \/ \E s \in Session :
          \/ Open(s) \/ Close(s)
          \/ Initialize(s) \/ WorkerStarts(s) \/ Finalize(s) \/ Finalized(s)
          \/ Beacon(s) \/ RecvBroadcast(s) \/ OnClose(s)
    \/ \E w \in Writer : ReadConfigFile(w) \/ Compose(w) \/ SetFileSize(w) \/ WriteFile(w)
    \/ ChangeSetting \/ PumpEnds \/ Restart

Spec == Init /\ [][Next]_vars

-----------------------------------------------------------------------------
(* Properties. *)

\* The count of references to nifm is the number of those that hold one: the initialized
\* sessions and the open transports. However often Close is called for one Open, by a failed
\* Open, its caller and the destructor, no one's reference is given back for another's.
NifmHeld ==
    refcount = Cardinality({s \in Session : transport[s].initialized})
             + Cardinality({s \in Session : transport[s].session})

\* What the bridge leads the game's threads to is a transport with an open socket, through
\* failures, reopening and the teardown of one session while another's goes on.
BridgeIsOpen == bridge # None => transport[bridge].fd /\ transport[bridge].request

\* Once no session has a transport open, or one that is being opened or closed, no thread of
\* the pump is left to work on streams, whoever started it and whoever stopped it.
PumpEndsWithTransports ==
    (\A s \in Session : transport[s].at = "idle" /\ ~transport[s].fd)
        => ~pump.running /\ pump.threads = 0

\* The transports of a console use one virtual address, although two may draw one at once.
OneClientId == \A s \in Session : transport[s].fd => transport[s].vsrc = clientId

\* Rewrites of relay.cfg that do not overlap, of which a restart cuts none short between the
\* truncation and the write and in which no call on the file fails, keep the address and every
\* line of the user's within the bytes that are read, however many there are and whoever makes
\* them, through restarts in their other steps.
FileKept ==
    tidy /\ (\A w \in Writer : ~Rewriting(w))
        => file.lines >= Least(UserLines, LinesRead) /\ file.id = clientId

\* A rewrite of relay.cfg preserves every line that is not a directive, as the comment on
\* PersistConfig says, if nothing fails, overlaps or cuts it short.
EveryOtherLineKept ==
    tidy /\ (\A w \in Writer : ~Rewriting(w)) => file.lines = UserLines
=============================================================================
