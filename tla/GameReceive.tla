----------------------------- MODULE GameReceive -----------------------------
(***************************************************************************)
(* How a peer's datagrams reach the game: the relay worker queues them in  *)
(* GameRx and the game's receive calls, intercepted on bsd:u, serve them.  *)
(*                                                                         *)
(* SessionRegistry and GameRx have a mutex each; every access to one of    *)
(* them is a step of its own, and between two of them any other thread may *)
(* run: the worker that injects frames, the thread that tears the session  *)
(* down or publishes it anew, and the other threads of the game.           *)
(***************************************************************************)
EXTENDS Naturals, Sequences

CONSTANTS
    Threads,     \* the game's threads in bsd:u calls
    Sockets,     \* the game's UDP sockets
    PortOf,      \* the port each is bound to
    NoSocket,    \* -1
    MaxEntries,  \* entries of the ring (32 in the code)
    MaxFrames,   \* bound: frames that come in
    MaxSessions  \* bound: sessions

Ports == {PortOf[s] : s \in Sockets}
NoPort == 0

ASSUME GameReceiveAssumption ==
    /\ NoSocket \notin Sockets
    /\ PortOf \in [Sockets -> Nat \ {NoPort}]
    /\ MaxEntries \in Nat \ {0}
    /\ MaxFrames \in Nat /\ MaxSessions \in Nat

Frames == [n: 1 .. MaxFrames, dport: Ports]
Cells  == 0 .. MaxEntries - 1
Empty  == [n |-> 0, dport |-> NoPort]
Injection   == [n: 0 .. MaxFrames, dport: Ports \cup {NoPort}, ready: BOOLEAN]
ThreadState == [pc: {"idle", "wait", "look", "pop", "forwarded", "parked", "latch", "note",
                     "poll", "polled", "missed"},
                sock: Sockets \cup {NoSocket}, dontwait: BOOLEAN, port: Ports \cup {NoPort}]

VARIABLES
    ring, head, count, \* GameRx: the entries, the next to pop, how many
    gameFd,    \* GameRx: the socket the game sends on
    dport,     \* GameRx: the session's port, from the last frame or the last send
    active,    \* SessionRegistry: a session is published
    sessions,  \* sessions published so far
    inject,    \* the worker: the frame it is about to push, if any
    tearing,   \* SessionRegistry::Clear has cleared the registry, not yet GameRx
    thread,    \* per thread: where it is in a call; whether a receive may wait; the
               \* socket of a poll or a send, and the port a send goes to
    served     \* the number of the frame served last

rx == <<ring, head, count, gameFd, dport>>
vars == <<rx, active, sessions, inject, tearing, thread, served>>

TypeOK ==
    /\ ring \in [Cells -> Frames \cup {Empty}]
    /\ head \in Cells
    /\ count \in 0 .. MaxEntries
    /\ gameFd \in Sockets \cup {NoSocket}
    /\ dport \in Ports \cup {NoPort}
    /\ active \in BOOLEAN
    /\ sessions \in 0 .. MaxSessions
    /\ inject \in Injection
    /\ tearing \in BOOLEAN
    /\ thread \in [Threads -> ThreadState]
    /\ served \in 0 .. MaxFrames

-----------------------------------------------------------------------------
(* The session: LANDiscovery. *)

\* Nothing keeps it out of the middle of a Clear.
Publish ==
    /\ active \/ sessions < MaxSessions
    /\ active' = TRUE
    /\ sessions' = IF active THEN sessions ELSE sessions + 1
    /\ UNCHANGED <<rx, inject, tearing, thread, served>>

\* SessionRegistry::Clear, its first half; one thread at a time tears a session down.
ClearRegistry ==
    /\ ~tearing
    /\ active
    /\ active' = FALSE
    /\ tearing' = TRUE
    /\ UNCHANGED <<rx, sessions, inject, thread, served>>

\* GameRx::Clear.
GameRxClear ==
    /\ tearing
    /\ tearing' = FALSE
    /\ count' = 0 /\ head' = 0 /\ gameFd' = NoSocket /\ dport' = NoPort
    /\ UNCHANGED <<ring, active, sessions, inject, thread, served>>

-----------------------------------------------------------------------------
(* The relay worker: InjectGameFrame. *)

\* A frame of a peer of the session that is published; another is dropped.
Inject ==
    /\ ~inject.ready
    /\ inject.n < MaxFrames
    /\ active
    /\ \E p \in Ports : inject' = [n |-> inject.n + 1, dport |-> p, ready |-> TRUE]
    /\ UNCHANGED <<rx, active, sessions, tearing, thread, served>>

Arrived == [n |-> inject.n, dport |-> inject.dport]

\* Faulty: takes a full ring for one with room.
Push_Unbounded ==
    /\ inject.ready
    /\ ring' = [ring EXCEPT ![(head + count) % MaxEntries] = Arrived]
    /\ count' = count + 1
    /\ dport' = inject.dport
    /\ inject' = [inject EXCEPT !.ready = FALSE]
    /\ UNCHANGED <<head, gameFd, active, sessions, tearing, thread, served>>

\* Faulty: a full ring loses its newest entry instead of its oldest.
Push_OverNewest ==
    /\ inject.ready
    /\ IF count = MaxEntries
       THEN /\ ring' = [ring EXCEPT ![(head + count - 1) % MaxEntries] = Arrived]
            /\ UNCHANGED count
       ELSE /\ ring' = [ring EXCEPT ![(head + count) % MaxEntries] = Arrived]
            /\ count' = count + 1
    /\ dport' = inject.dport
    /\ inject' = [inject EXCEPT !.ready = FALSE]
    /\ UNCHANGED <<head, gameFd, active, sessions, tearing, thread, served>>

\* GameRx::Push: behind the newest entry; when the ring is full, over the oldest.
Push ==
    /\ inject.ready
    /\ IF count = MaxEntries
       THEN /\ ring' = [ring EXCEPT ![head] = Arrived]
            /\ head' = (head + 1) % MaxEntries
            /\ UNCHANGED count
       ELSE /\ ring' = [ring EXCEPT ![(head + count) % MaxEntries] = Arrived]
            /\ count' = count + 1
            /\ UNCHANGED head
    /\ dport' = inject.dport
    /\ inject' = [inject EXCEPT !.ready = FALSE]
    /\ UNCHANGED <<gameFd, active, sessions, tearing, thread, served>>

-----------------------------------------------------------------------------
(* The game's receives: RecvFrom, Recv and Read, on a thread of the game. *)

At(t, pc) == thread[t].pc = pc
Goto(t, pc) == thread' = [thread EXCEPT ![t].pc = pc]
Idle == [pc |-> "idle", sock |-> NoSocket, dontwait |-> FALSE, port |-> NoPort]
Return(t) == thread' = [thread EXCEPT ![t] = Idle]
Forward(t) == thread' = [thread EXCEPT ![t] = [Idle EXCEPT !.pc = "forwarded"]]

\* Forwarded verbatim by a receive that may wait: it stays in the console's own stack, for
\* as long as the real socket gets nothing.
Park(t) == thread' = [thread EXCEPT ![t] = [Idle EXCEPT !.pc = "parked"]]

\* IsGameRecvSocket: the socket is bound to the session's port.  Another socket's call
\* is forwarded, which is no concern of the queue.
IsGameRecvSocket(s) == dport # NoPort /\ PortOf[s] = dport

ServeQueuedPayload(t, dontwait) ==
    /\ At(t, "idle")
    /\ \E s \in Sockets : IsGameRecvSocket(s)
    /\ thread' = [thread EXCEPT ![t] = [Idle EXCEPT !.pc = "wait", !.dontwait = dontwait]]
    /\ UNCHANGED <<rx, active, sessions, inject, tearing, served>>

RecvFrom(t) == \E dontwait \in BOOLEAN : ServeQueuedPayload(t, dontwait)
Recv(t)     == \E dontwait \in BOOLEAN : ServeQueuedPayload(t, dontwait)
Read(t)     == ServeQueuedPayload(t, FALSE)

\* HasData; without data a call that may not wait is forwarded.
HasData(t) ==
    /\ At(t, "wait")
    /\ \/ count > 0 /\ Goto(t, "pop")
       \/ count = 0 /\ thread[t].dontwait /\ Forward(t)
       \/ count = 0 /\ ~thread[t].dontwait /\ Goto(t, "look")
    /\ UNCHANGED <<rx, active, sessions, inject, tearing, served>>

\* Faulty: goes on waiting when the session is over.
Look_Forever(t) ==
    /\ At(t, "look")
    /\ Forward(t) \/ Goto(t, "wait")
    /\ UNCHANGED <<rx, active, sessions, inject, tearing, served>>

\* WaitForGameRx between two looks at the queue: the wait is over when the session is,
\* and the receive is left to the real socket; or when that has data of its own.
Look(t) ==
    /\ At(t, "look")
    /\ \/ ~active /\ Park(t)
       \/ active /\ (Forward(t) \/ Goto(t, "wait"))
    /\ UNCHANGED <<rx, active, sessions, inject, tearing, served>>

\* Faulty: hands out the entry and leaves it in place.
Pop_Keep(t) ==
    /\ At(t, "pop")
    /\ IF count = 0
       THEN Forward(t) /\ UNCHANGED served
       ELSE /\ served' = ring[head].n
            /\ Return(t)
    /\ UNCHANGED <<rx, active, sessions, inject, tearing>>

\* Pop, by a call that has seen data: another may have taken it.
Pop(t) ==
    /\ At(t, "pop")
    /\ IF count = 0
       THEN /\ IF thread[t].dontwait THEN Forward(t) ELSE Park(t)
            /\ UNCHANGED <<served, head, count>>
       ELSE /\ served' = ring[head].n
            /\ head' = (head + 1) % MaxEntries
            /\ count' = count - 1
            /\ Return(t)
    /\ UNCHANGED <<ring, gameFd, dport, active, sessions, inject, tearing>>

\* The console's own stack answers: at once, after the slice, or, for a parked receive,
\* when a datagram that does not come through the relay reaches the real socket.
StackAnswers(t) ==
    /\ At(t, "forwarded") \/ At(t, "missed") \/ At(t, "parked")
    /\ Return(t)
    /\ UNCHANGED <<rx, active, sessions, inject, tearing, served>>

-----------------------------------------------------------------------------
(* The game's waits: Poll and Select without a timeout, on one socket. *)

WaitOn(t, s) ==
    /\ At(t, "idle")
    /\ thread' = [thread EXCEPT ![t] = [Idle EXCEPT !.pc = "poll", !.sock = s]]
    /\ UNCHANGED <<rx, active, sessions, inject, tearing, served>>

Poll(t)   == \E s \in Sockets : WaitOn(t, s)
Select(t) == \E s \in Sockets : WaitOn(t, s)

\* Without data in the queue the console's stack is polled for one slice.
PollHasData(t) ==
    /\ At(t, "poll")
    /\ IF count > 0 THEN Goto(t, "polled") ELSE Forward(t)
    /\ UNCHANGED <<rx, active, sessions, inject, tearing, served>>

\* GameFd: with data, the call reports the socket the game last sent on, if it is the one
\* polled; otherwise the stack is polled for one slice all the same.
PollGameFd(t) ==
    /\ At(t, "polled")
    /\ IF gameFd = thread[t].sock THEN Return(t) ELSE Goto(t, "missed")
    /\ UNCHANGED <<rx, active, sessions, inject, tearing, served>>

-----------------------------------------------------------------------------
(* The game's sends: SendTo, towards a peer or the broadcast address. *)

SendTo(t) ==
    /\ At(t, "idle")
    /\ active
    /\ \E s \in Sockets, p \in Ports :
          thread' = [thread EXCEPT ![t] = [Idle EXCEPT !.pc = "latch", !.sock = s, !.port = p]]
    /\ UNCHANGED <<rx, active, sessions, inject, tearing, served>>

SetGameFd(t) ==
    /\ At(t, "latch")
    /\ gameFd' = thread[t].sock
    /\ thread' = [thread EXCEPT ![t].pc = "note", ![t].sock = NoSocket]
    /\ UNCHANGED <<ring, head, count, dport, active, sessions, inject, tearing, served>>

NoteSessionPort(t) ==
    /\ At(t, "note")
    /\ dport' = thread[t].port
    /\ Return(t)
    /\ UNCHANGED <<ring, head, count, gameFd, active, sessions, inject, tearing, served>>

-----------------------------------------------------------------------------
Init ==
    /\ ring = [c \in Cells |-> Empty] /\ head = 0 /\ count = 0
    /\ gameFd = NoSocket /\ dport = NoPort
    /\ active = FALSE /\ sessions = 0 /\ tearing = FALSE
    /\ inject = [n |-> 0, dport |-> NoPort, ready |-> FALSE]
    /\ thread = [t \in Threads |-> Idle]
    /\ served = 0

Call(t) == HasData(t) \/ Look(t) \/ Pop(t)

Next ==
    \/ Publish \/ ClearRegistry \/ GameRxClear
    \/ Inject \/ Push
    \/ \E t \in Threads : \/ RecvFrom(t) \/ Recv(t) \/ Read(t)
                          \/ Call(t) \/ StackAnswers(t)
                          \/ Poll(t) \/ Select(t) \/ PollHasData(t) \/ PollGameFd(t)
                          \/ SendTo(t) \/ SetGameFd(t) \/ NoteSessionPort(t)

Spec == Init /\ [][Next]_vars

\* A thread of the game runs, and teardown is not left half done.
FairSpec == Spec /\ WF_vars(GameRxClear) /\ \A t \in Threads : WF_vars(Call(t))

-----------------------------------------------------------------------------
(* What holds. *)

\* The ring is a queue of MaxEntries frames that pushes out the oldest, through every
\* wrap of its indices and every teardown.
Contents == [i \in 1 .. count |-> ring[(head + i - 1) % MaxEntries]]
Abstract == INSTANCE FrameQueue WITH Capacity <- MaxEntries, queue <- Contents
RingIsQueue == Abstract!Spec

\* No datagram is served twice and none overtakes another, whichever threads of the game
\* receive at the same time: what is queued is newer than what was served, in its order.
ServedInOrder ==
    \A i \in 1 .. count : /\ Contents[i].n > served
                          /\ \A j \in 1 .. i - 1 : Contents[j].n < Contents[i].n

\* A receive stops waiting for the relay when the session ends, unless a new session
\* begins: it serves a frame that is left or goes on to the console's own stack.  What
\* becomes of it there is not the relay's doing, and not part of this.
WaitsFor(t) == At(t, "look") \/ At(t, "wait")
WaitEnds == \A t \in Threads : (WaitsFor(t) /\ ~active) ~> (~WaitsFor(t) \/ active)

-----------------------------------------------------------------------------
(* What a comment of the code promises and the code does not keep. *)

\* WaitForGameRx: "In relay mode peer datagrams only arrive through the relay, so a blocking
\* receive forwarded verbatim would park inside the real bsd:u forever.  Wait while the
\* session is alive".  A receive parks in the console's own stack only without a session.
ParksOnlyWithoutSession ==
    [][\A t \in Threads : thread'[t].pc = "parked" /\ ~At(t, "parked") => ~active]_vars

\* Poll: "force POLLIN on the game fd so it proceeds to RecvFrom. Peer traffic arrives via
\* the relay, never the socket, so the game would otherwise never recv".  A poll of the
\* socket that RecvFrom would serve does not miss the frame that is queued for it.
PollSeesQueue ==
    [][\A t \in Threads :
          At(t, "polled") /\ thread'[t].pc = "missed" =>
              ~(IsGameRecvSocket(thread[t].sock) /\ count > 0)]_vars
=============================================================================
