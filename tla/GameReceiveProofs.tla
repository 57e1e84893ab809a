-------------------------- MODULE GameReceiveProofs --------------------------
(***************************************************************************)
(* Proofs about GameReceive, for rings of any size and any sets of threads *)
(* and sockets: the ring implements FrameQueue, and frames are served in   *)
(* their order.                                                            *)
(***************************************************************************)
EXTENDS GameReceive, Integers, TLAPS

-----------------------------------------------------------------------------
(* Arithmetic of the ring's indices. *)

\* Below twice the ring's size the remainder is one subtraction.
LEMMA ModStep ==
    ASSUME NEW N \in Nat \ {0}, NEW a \in 0 .. 2 * N - 1
    PROVE  /\ a < N => a % N = a
           /\ a >= N => a % N = a - N
<1>1. CASE a < N
  BY <1>1
<1>2. CASE a >= N
  <2> DEFINE q == a \div N
             r == a % N
  <2>1. q \in Int /\ r \in 0 .. N - 1 /\ a = N * q + r
    OBVIOUS
  <2> HIDE DEF q, r
  <2>2. q = 1
    <3>1. q # 0
      BY <1>2, <2>1
    <3>2. ~(q >= 2)
      <4> SUFFICES ASSUME q >= 2 PROVE FALSE
        OBVIOUS
      <4>1. N * q >= N * 2
        BY <2>1
      <4> QED
        BY <4>1, <2>1
    <3>3. ~(q <= -1)
      <4> SUFFICES ASSUME q <= -1 PROVE FALSE
        OBVIOUS
      <4>1. N * q <= N * (-1)
        BY <2>1
      <4> QED
        BY <4>1, <2>1, <1>2
    <3> QED
      BY <2>1, <3>1, <3>2, <3>3
  <2>3. a = N + r
    BY <2>1, <2>2
  <2>4. r = a - N
    BY <2>1, <2>3
  <2> QED
    BY <1>2, <2>4 DEF r
<1> QED
  BY <1>1, <1>2

\* An index below twice the ring's size, wrapped once.
Wrap(a) == IF a < MaxEntries THEN a ELSE a - MaxEntries

LEMMA RingSize == MaxEntries \in Nat \ {0}
  BY GameReceiveAssumption

LEMMA WrapIsRemainder ==
    ASSUME NEW a \in 0 .. 2 * MaxEntries - 1
    PROVE  a % MaxEntries = Wrap(a)
<1>1. /\ a < MaxEntries => a % MaxEntries = a
      /\ a >= MaxEntries => a % MaxEntries = a - MaxEntries
  BY RingSize, ModStep, Zenon
<1>2. a < MaxEntries \/ a >= MaxEntries
  BY RingSize
<1> QED
  BY <1>1, <1>2, RingSize DEF Wrap

-----------------------------------------------------------------------------
(* The ring as a queue. *)

Entries == Frames \cup {Empty}

\* The c entries of a ring r from h on.
Queue(r, h, c) == [i \in 1 .. c |-> r[(h + i - 1) % MaxEntries]]

LEMMA QueueWraps ==
    ASSUME NEW r, NEW h \in Cells, NEW c \in 0 .. MaxEntries
    PROVE  Queue(r, h, c) = [i \in 1 .. c |-> r[Wrap(h + i - 1)]]
<1>1. ASSUME NEW i \in 1 .. c PROVE (h + i - 1) % MaxEntries = Wrap(h + i - 1)
  <2>1. h + i - 1 \in 0 .. 2 * MaxEntries - 1
    BY RingSize DEF Cells
  <2> QED
    BY <2>1, WrapIsRemainder, Zenon
<1> QED
  BY <1>1, Zenon DEF Queue

LEMMA NextCells ==
    ASSUME NEW h \in Cells
    PROVE  /\ (h + 1) % MaxEntries = Wrap(h + 1)
           /\ Wrap(h + 1) \in Cells
           /\ \A c \in 0 .. MaxEntries : /\ (h + c) % MaxEntries = Wrap(h + c)
                                       /\ Wrap(h + c) \in Cells
<1>1. \A c \in 0 .. MaxEntries : h + c \in 0 .. 2 * MaxEntries - 1
  BY RingSize DEF Cells
<1>2. 1 \in 0 .. MaxEntries
  BY RingSize
<1>3. \A c \in 0 .. MaxEntries : (h + c) % MaxEntries = Wrap(h + c)
  BY <1>1, WrapIsRemainder, Zenon
<1>4. \A c \in 0 .. MaxEntries : Wrap(h + c) \in Cells
  BY RingSize DEF Cells, Wrap
<1> QED
  BY <1>2, <1>3, <1>4, Zenon

\* r2 is r but for the entry at x, which is f.
Writes(r, r2, x, f) == r2[x] = f /\ \A y \in Cells \ {x} : r2[y] = r[y]

\* Popping the first entry leaves the tail.
LEMMA PopIsTail ==
    ASSUME NEW r \in [Cells -> Entries], NEW h \in Cells, NEW c \in 1 .. MaxEntries
    PROVE  Queue(r, (h + 1) % MaxEntries, c - 1) = Tail(Queue(r, h, c))
<1>1. Queue(r, h, c) = [i \in 1 .. c |-> r[Wrap(h + i - 1)]]
  BY RingSize, QueueWraps
<1>2. Queue(r, Wrap(h + 1), c - 1) = [i \in 1 .. c - 1 |-> r[Wrap(Wrap(h + 1) + i - 1)]]
  <2>1. c - 1 \in 0 .. MaxEntries
    BY RingSize
  <2> QED
    BY <2>1, NextCells, QueueWraps, Zenon
<1>3. \A i \in 1 .. c - 1 : Wrap(Wrap(h + 1) + i - 1) = Wrap(h + (i + 1) - 1)
  BY RingSize DEF Cells, Wrap
<1>4. \A i \in 1 .. c : Wrap(h + i - 1) \in Cells
  BY RingSize DEF Cells, Wrap
<1>5. Tail([i \in 1 .. c |-> r[Wrap(h + i - 1)]])
        = [i \in 1 .. c - 1 |-> r[Wrap(h + (i + 1) - 1)]]
  <2> DEFINE q == [i \in 1 .. c |-> r[Wrap(h + i - 1)]]
  <2>1. q \in Seq(Entries) /\ Len(q) = c
    BY <1>4, RingSize
  <2>2. Tail(q) = [i \in 1 .. c - 1 |-> q[i + 1]]
    BY <2>1, RingSize
  <2>3. \A i \in 1 .. c - 1 : q[i + 1] = r[Wrap(h + (i + 1) - 1)]
    BY RingSize
  <2> HIDE DEF q
  <2> QED
    BY <2>2, <2>3 DEF q
<1> QED
  BY <1>1, <1>2, <1>3, <1>5, NextCells, Zenon

\* An entry written behind the last, where there is room, is appended.
LEMMA PushIsAppend ==
    ASSUME NEW r \in [Cells -> Entries], NEW h \in Cells, NEW c \in 0 .. MaxEntries,
           c < MaxEntries, NEW f \in Entries,
           NEW r2 \in [Cells -> Entries], Writes(r, r2, (h + c) % MaxEntries, f)
    PROVE  Queue(r2, h, c + 1) = Append(Queue(r, h, c), f)
<1>9. Writes(r, r2, Wrap(h + c), f)
  BY NextCells, Zenon
<1>1. Queue(r, h, c) = [i \in 1 .. c |-> r[Wrap(h + i - 1)]]
  BY QueueWraps, Zenon
<1>2. Queue(r2, h, c + 1) = [i \in 1 .. c + 1 |-> r2[Wrap(h + i - 1)]]
  <2>1. c + 1 \in 0 .. MaxEntries
    BY RingSize
  <2> QED
    BY <2>1, QueueWraps, Zenon
<1>3. \A i \in 1 .. c + 1 : Wrap(h + i - 1) \in Cells
  BY RingSize DEF Cells, Wrap
<1>4. \A i \in 1 .. c : Wrap(h + i - 1) # Wrap(h + c)
  BY RingSize DEF Cells, Wrap
<1>5. \A i \in 1 .. c : r2[Wrap(h + i - 1)] = r[Wrap(h + i - 1)]
  BY <1>3, <1>4, <1>9, RingSize DEF Writes
<1>6. r2[Wrap(h + (c + 1) - 1)] = f
  <2>1. Wrap(h + (c + 1) - 1) = Wrap(h + c) /\ Wrap(h + c) \in Cells
    BY RingSize DEF Cells, Wrap
  <2> QED
    BY <1>9, <2>1 DEF Writes
<1>7. [i \in 1 .. c |-> r[Wrap(h + i - 1)]] \in Seq(Entries)
  BY <1>3, RingSize
<1> QED
  BY <1>1, <1>2, <1>5, <1>6, <1>7, RingSize

\* In a full ring an entry written over the oldest is appended to the tail.
LEMMA PushIsOverwrite ==
    ASSUME NEW r \in [Cells -> Entries], NEW h \in Cells, NEW f \in Entries,
           NEW r2 \in [Cells -> Entries], Writes(r, r2, h, f)
    PROVE  Queue(r2, (h + 1) % MaxEntries, MaxEntries)
             = Append(Tail(Queue(r, h, MaxEntries)), f)
<1> DEFINE g == Wrap(h + 1)
<1>1. /\ Queue(r, g, MaxEntries - 1) = Tail(Queue(r, h, MaxEntries))
      /\ g \in Cells
      /\ (h + 1) % MaxEntries = g
  <2>1. MaxEntries \in 1 .. MaxEntries
    BY RingSize
  <2> QED
    BY <2>1, NextCells, PopIsTail, Zenon
<1>2. Wrap(g + (MaxEntries - 1)) = h
  BY RingSize DEF Cells, Wrap
<1>3. (g + (MaxEntries - 1)) % MaxEntries = h
  <2>1. MaxEntries - 1 \in 0 .. MaxEntries
    BY RingSize
  <2> QED
    BY <1>1, <1>2, <2>1, NextCells, Zenon
<1> HIDE DEF g
<1>4. Queue(r2, g, (MaxEntries - 1) + 1)
        = Append(Queue(r, g, MaxEntries - 1), f)
  <2>1. MaxEntries - 1 \in 0 .. MaxEntries /\ MaxEntries - 1 < MaxEntries
    BY RingSize
  <2>2. Writes(r, r2, (g + (MaxEntries - 1)) % MaxEntries, f)
    BY <1>3, Zenon
  <2>3. g \in Cells
    BY <1>1
  <2>4. ASSUME NEW c \in 0 .. MaxEntries, c < MaxEntries,
               Writes(r, r2, (g + c) % MaxEntries, f)
        PROVE  Queue(r2, g, c + 1) = Append(Queue(r, g, c), f)
    BY <2>3, <2>4, PushIsAppend, Zenon
  <2> QED
    BY <2>1, <2>2, <2>4, Zenon
<1>5. (MaxEntries - 1) + 1 = MaxEntries
  BY RingSize
<1> QED
  BY <1>1, <1>3, <1>4, <1>5, Zenon

-----------------------------------------------------------------------------
(* Types. *)

\* The frame the worker holds came in.
InjectIsFrame == inject.ready => Arrived \in Frames

\* A step of a thread of the game.
ThreadStep(t) == \/ RecvFrom(t) \/ Recv(t) \/ Read(t)
                 \/ HasData(t) \/ Look(t) \/ Pop(t) \/ StackAnswers(t)
                 \/ Poll(t) \/ Select(t) \/ PollHasData(t) \/ PollGameFd(t)
                 \/ SendTo(t) \/ SetGameFd(t) \/ NoteSessionPort(t)

LEMMA NextCases ==
    [Next]_vars => \/ Publish \/ ClearRegistry \/ GameRxClear \/ Inject \/ Push
                   \/ \E t \in Threads : ThreadStep(t)
                   \/ UNCHANGED vars
  BY DEF Next, Call, ThreadStep

\* A thread's step leaves it in a state of a thread.
LEMMA ThreadTyped ==
    ASSUME TypeOK, NEW t \in Threads, ThreadStep(t)
    PROVE  thread' \in [Threads -> ThreadState]
<1> DEFINE Set(v) == thread' = [thread EXCEPT ![t] = v]
<1>1. thread \in [Threads -> ThreadState] /\ thread[t] \in ThreadState
  BY DEF TypeOK
<1>2. ASSUME NEW v \in ThreadState, Set(v) PROVE thread' \in [Threads -> ThreadState]
  BY <1>1, <1>2
<1>3. /\ Idle \in ThreadState
      /\ \A pc \in {"forwarded", "parked"} : [Idle EXCEPT !.pc = pc] \in ThreadState
      /\ \A d \in BOOLEAN : [Idle EXCEPT !.pc = "wait", !.dontwait = d] \in ThreadState
      /\ \A x \in Sockets : [Idle EXCEPT !.pc = "poll", !.sock = x] \in ThreadState
      /\ \A x \in Sockets, p \in Ports :
            [Idle EXCEPT !.pc = "latch", !.sock = x, !.port = p] \in ThreadState
  BY DEF Idle, ThreadState
<1>4. /\ \A pc \in {"wait", "look", "pop", "polled", "missed"} :
            [thread[t] EXCEPT !.pc = pc] \in ThreadState
      /\ [thread[t] EXCEPT !.pc = "note", !.sock = NoSocket] \in ThreadState
  BY <1>1 DEF ThreadState
<1>5. \E v \in ThreadState : Set(v)
  <2>1. CASE \E d \in BOOLEAN : ServeQueuedPayload(t, d)
    BY <1>3, <2>1 DEF ServeQueuedPayload
  <2>2. CASE StackAnswers(t) \/ NoteSessionPort(t)
    BY <1>3, <2>2 DEF StackAnswers, NoteSessionPort, Return
  <2>3. CASE HasData(t) \/ Look(t) \/ Pop(t) \/ PollHasData(t) \/ PollGameFd(t)
    <3>1. Return(t) \/ Forward(t) \/ Park(t) \/ \E pc \in {"wait", "look", "pop", "polled", "missed"} : Goto(t, pc)
      BY <2>3, Zenon DEF HasData, Look, Pop, PollHasData, PollGameFd
    <3> QED
      BY <1>3, <1>4, <3>1 DEF Return, Forward, Park, Goto
  <2>4. CASE \E x \in Sockets : WaitOn(t, x)
    BY <1>3, <2>4 DEF WaitOn
  <2>5. CASE SendTo(t)
    BY <1>3, <2>5 DEF SendTo
  <2>6. CASE SetGameFd(t)
    BY <1>4, <2>6 DEF SetGameFd
  <2> QED
    BY <2>1, <2>2, <2>3, <2>4, <2>5, <2>6 DEF ThreadStep, RecvFrom, Recv, Read, Poll, Select
<1> QED
  BY <1>2, <1>5

LEMMA TypeNext ==
    ASSUME TypeOK, InjectIsFrame, [Next]_vars
    PROVE  TypeOK' /\ InjectIsFrame'
<1> USE DEF TypeOK, InjectIsFrame, Arrived
<1>1. CASE Publish
  BY <1>1, GameReceiveAssumption DEF Publish, rx
<1>2. CASE ClearRegistry
  BY <1>2 DEF ClearRegistry, rx
<1>3. CASE GameRxClear
  <2>1. head' \in Cells /\ count' \in 0 .. MaxEntries
    BY <1>3, RingSize DEF GameRxClear, Cells
  <2> QED
    BY <1>3, <2>1 DEF GameRxClear
<1>4. CASE Inject
  <2>1. inject' \in Injection /\ Arrived' \in Frames
    BY <1>4, GameReceiveAssumption DEF Inject, Injection, Frames
  <2> QED
    BY <1>4, <2>1 DEF Inject, rx
<1>5. CASE Push
  <2>1. inject' \in Injection /\ ~inject'.ready
    BY <1>5 DEF Push, Injection
  <2>2. dport' \in Ports \cup {NoPort}
    BY <1>5 DEF Push, Injection
  <2>3. ring' \in [Cells -> Frames \cup {Empty}] /\ head' \in Cells /\ count' \in 0 .. MaxEntries
    <3>1. CASE count = MaxEntries
      BY <1>5, <3>1, NextCells DEF Push
    <3>2. CASE count # MaxEntries
      BY <1>5, <3>2, RingSize DEF Push
    <3> QED
      BY <3>1, <3>2
  <2> QED
    BY <1>5, <2>1, <2>2, <2>3 DEF Push
<1>6. ASSUME NEW t \in Threads, ThreadStep(t) PROVE TypeOK' /\ InjectIsFrame'
  <2>1. thread' \in [Threads -> ThreadState]
    BY <1>6, ThreadTyped
  <2>2. CASE Pop(t)
    <3>1. head' \in Cells /\ count' \in 0 .. MaxEntries
      BY <2>2, NextCells, RingSize DEF Pop
    <3>2. ring[head].n \in 0 .. MaxFrames
      BY GameReceiveAssumption DEF Frames, Empty
    <3>3. served' \in 0 .. MaxFrames
      BY <2>2, <3>2 DEF Pop
    <3> QED
      BY <2>1, <2>2, <3>1, <3>3 DEF Pop
  <2>3. CASE SetGameFd(t)
    <3>1. gameFd' \in Sockets \cup {NoSocket}
      BY <2>3 DEF SetGameFd, ThreadState
    <3> QED
      BY <2>1, <2>3, <3>1 DEF SetGameFd
  <2>4. CASE NoteSessionPort(t)
    <3>1. dport' \in Ports \cup {NoPort}
      BY <2>4 DEF NoteSessionPort, ThreadState
    <3> QED
      BY <2>1, <2>4, <3>1 DEF NoteSessionPort
  <2>5. CASE UNCHANGED <<rx, active, sessions, inject, tearing, served>>
    BY <2>1, <2>5 DEF rx
  <2> QED
    BY <1>6, <2>2, <2>3, <2>4, <2>5
    DEF ThreadStep, RecvFrom, Recv, Read, ServeQueuedPayload, HasData, Look, StackAnswers, Poll,
        Select, WaitOn, PollHasData, PollGameFd, SendTo
<1>7. CASE UNCHANGED vars
  BY <1>7 DEF vars, rx
<1> QED
  BY <1>1, <1>2, <1>3, <1>4, <1>5, <1>6, <1>7, NextCases

-----------------------------------------------------------------------------
(* What a step does to the queue. *)

LEMMA ContentsIsQueue ==
    ASSUME TypeOK
    PROVE  /\ Contents = Queue(ring, head, count)
           /\ Contents \in Seq(Entries) /\ Len(Contents) = count
           /\ \A i \in 1 .. count : Contents[i] = ring[Wrap(head + i - 1)]
<1>1. Contents = Queue(ring, head, count)
  BY DEF Contents, Queue
<1>2. Contents = [i \in 1 .. count |-> ring[Wrap(head + i - 1)]]
  BY <1>1, QueueWraps DEF TypeOK
<1>3. \A i \in 1 .. count : Wrap(head + i - 1) \in Cells
  BY RingSize DEF TypeOK, Cells, Wrap
<1>4. \A i \in 1 .. count : ring[Wrap(head + i - 1)] \in Entries
  BY <1>3 DEF TypeOK, Entries
<1>5. count \in Nat
  BY RingSize DEF TypeOK
<1> QED
  BY <1>1, <1>2, <1>4, <1>5

\* Every step that changes the queue is one of FrameQueue's, and only a push brings a frame
\* in, only a pop serves one.
LEMMA QueueStep ==
    ASSUME TypeOK, TypeOK', InjectIsFrame, [Next]_vars
    PROVE  \/ /\ Push
              /\ \/ Len(Contents) < MaxEntries /\ Contents' = Append(Contents, Arrived)
                 \/ Len(Contents) = MaxEntries /\ Contents' = Append(Tail(Contents), Arrived)
           \/ /\ \E t \in Threads : Pop(t)
              /\ Contents # <<>> /\ Contents' = Tail(Contents)
              /\ served' = Contents[1].n
           \/ GameRxClear /\ Contents' = <<>>
           \/ /\ ~Push /\ Contents' = Contents /\ served' = served
<1>1. /\ Contents = Queue(ring, head, count) /\ Contents' = Queue(ring', head', count')
      /\ Len(Contents) = count /\ Contents \in Seq(Entries)
  BY ContentsIsQueue DEF Contents, Queue
<1>2. CASE Push
  <2>1. /\ ring \in [Cells -> Entries] /\ ring' \in [Cells -> Entries]
        /\ head \in Cells /\ count \in 0 .. MaxEntries /\ Arrived \in Entries
    BY <1>2 DEF TypeOK, Entries, Push, InjectIsFrame
  <2>2. CASE count = MaxEntries
    <3>1. Writes(ring, ring', head, Arrived)
      BY <1>2, <2>1, <2>2 DEF Push, Writes
    <3>2. head' = (head + 1) % MaxEntries /\ count' = MaxEntries
      BY <1>2, <2>2 DEF Push
    <3>3. Contents' = Append(Tail(Contents), Arrived)
      BY <1>1, <2>1, <2>2, <3>1, <3>2, PushIsOverwrite, Zenon
    <3> QED
      BY <1>1, <1>2, <2>2, <3>3
  <2>3. CASE count # MaxEntries
    <3>1. count < MaxEntries
      BY <2>1, <2>3, RingSize
    <3>2. Writes(ring, ring', (head + count) % MaxEntries, Arrived)
      BY <1>2, <2>1, <2>3, NextCells DEF Push, Writes
    <3>3. head' = head /\ count' = count + 1
      BY <1>2, <2>3 DEF Push
    <3>4. Contents' = Append(Contents, Arrived)
      BY <1>1, <2>1, <3>1, <3>2, <3>3, PushIsAppend, Zenon
    <3> QED
      BY <1>1, <1>2, <3>1, <3>4
  <2> QED
    BY <2>2, <2>3
<1>3. CASE GameRxClear
  <2>1. count' = 0
    BY <1>3 DEF GameRxClear
  <2>2. Contents' = <<>>
    BY <1>1, <2>1 DEF Queue
  <2> QED
    BY <1>3, <2>2
<1>4. ASSUME NEW t \in Threads, Pop(t), count # 0
      PROVE  Contents # <<>> /\ Contents' = Tail(Contents) /\ served' = Contents[1].n
  <2>1. /\ ring' = ring /\ head' = (head + 1) % MaxEntries /\ count' = count - 1
        /\ served' = ring[head].n
    BY <1>4 DEF Pop
  <2>2. count \in 1 .. MaxEntries /\ head \in Cells /\ ring \in [Cells -> Entries]
    BY <1>4, RingSize DEF TypeOK, Entries
  <2>3. Contents' = Tail(Contents)
    BY <1>1, <2>1, <2>2, PopIsTail, Zenon
  <2>4. Contents[1] = ring[Wrap(head + 1 - 1)]
    BY <2>2, ContentsIsQueue, RingSize
  <2>5. Wrap(head + 1 - 1) = head
    BY <2>2, RingSize DEF Wrap, Cells
  <2> QED
    BY <1>1, <2>1, <2>2, <2>3, <2>4, <2>5
<1>5. CASE ~Push /\ UNCHANGED <<ring, head, count, served>>
  BY <1>1, <1>5
<1>6. ASSUME NEW t \in Threads, ThreadStep(t), ~(Pop(t) /\ count # 0)
      PROVE  UNCHANGED <<ring, head, count, served>>
  BY <1>6
  DEF ThreadStep, RecvFrom, Recv, Read, ServeQueuedPayload, HasData, Look, Pop, StackAnswers,
      Poll, Select, WaitOn, PollHasData, PollGameFd, SendTo, SetGameFd, NoteSessionPort, rx
<1>7. Publish \/ ClearRegistry \/ Inject \/ UNCHANGED vars => UNCHANGED <<ring, head, count, served>>
  BY DEF Publish, ClearRegistry, Inject, vars, rx
<1> QED
  BY <1>2, <1>3, <1>4, <1>5, <1>6, <1>7, NextCases

-----------------------------------------------------------------------------
(* Order. *)

\* A queue of frames in their order, each newer than s and no newer than top.
InOrder(q, s, top) ==
    \A i \in 1 .. Len(q) : /\ q[i] \in Frames /\ s < q[i].n /\ q[i].n <= top
                            /\ \A j \in 1 .. i - 1 : q[j].n < q[i].n

LEMMA TailInOrder ==
    ASSUME NEW q \in Seq(Entries), q # <<>>, NEW s \in Nat, NEW top \in Nat, InOrder(q, s, top)
    PROVE  /\ InOrder(Tail(q), s, top) /\ InOrder(Tail(q), q[1].n, top)
           /\ q[1] \in Frames /\ s < q[1].n /\ q[1].n <= top
<1>1. /\ Tail(q) \in Seq(Entries) /\ Len(Tail(q)) = Len(q) - 1 /\ Len(q) \in Nat \ {0}
      /\ \A i \in 1 .. Len(q) - 1 : Tail(q)[i] = q[i + 1]
  OBVIOUS
<1> DEFINE p == Tail(q)
<1> HIDE DEF p
<1>2. ASSUME NEW i \in 1 .. Len(p)
      PROVE  /\ p[i] \in Frames /\ s < p[i].n /\ p[i].n <= top /\ q[1].n < p[i].n
             /\ \A j \in 1 .. i - 1 : p[j].n < p[i].n
  <2>1. p[i] = q[i + 1] /\ i + 1 \in 1 .. Len(q) /\ 1 \in 1 .. (i + 1) - 1
    BY <1>1 DEF p
  <2>2. \A j \in 1 .. i - 1 : p[j] = q[j + 1] /\ j + 1 \in 1 .. (i + 1) - 1
    BY <1>1 DEF p
  <2> QED
    BY <2>1, <2>2 DEF InOrder
<1>3. 1 \in 1 .. Len(q)
  BY <1>1
<1> QED
  BY <1>2, <1>3 DEF InOrder, p

LEMMA AppendInOrder ==
    ASSUME NEW q \in Seq(Entries), NEW s \in Nat, NEW top \in Nat, InOrder(q, s, top),
           s <= top, NEW f \in Frames, f.n = top + 1
    PROVE  InOrder(Append(q, f), s, top + 1)
<1> DEFINE p == Append(q, f)
<1>1. /\ Len(p) = Len(q) + 1 /\ p[Len(q) + 1] = f /\ Len(q) \in Nat
      /\ \A i \in 1 .. Len(q) : p[i] = q[i]
  BY DEF Entries
<1> HIDE DEF p
<1>2. \A i \in 1 .. Len(q) : q[i].n \in Nat
  BY GameReceiveAssumption DEF InOrder, Frames
<1>3. ASSUME NEW i \in 1 .. Len(p)
      PROVE  /\ p[i] \in Frames /\ s < p[i].n /\ p[i].n <= top + 1
             /\ \A j \in 1 .. i - 1 : p[j].n < p[i].n
  <2>1. CASE i = Len(q) + 1
    BY <1>1, <1>2, <2>1 DEF InOrder
  <2>2. CASE i # Len(q) + 1
    BY <1>1, <1>2, <2>2 DEF InOrder
  <2> QED
    BY <2>1, <2>2
<1> QED
  BY <1>3 DEF InOrder, p

-----------------------------------------------------------------------------
(* The invariant: what is queued is in order, newer than what was served, and no newer   *)
(* than the last frame pushed.                                                           *)

LastPushed == IF inject.ready THEN inject.n - 1 ELSE inject.n

QueueIsFresh == served <= LastPushed /\ InOrder(Contents, served, LastPushed)

IInv == TypeOK /\ InjectIsFrame /\ QueueIsFresh

LEMMA FreshNext ==
    ASSUME IInv, TypeOK', InjectIsFrame', [Next]_vars
    PROVE  QueueIsFresh'
<1> DEFINE q == Contents
<1>1. /\ q \in Seq(Entries) /\ served \in Nat /\ LastPushed \in Nat
      /\ served <= LastPushed /\ InOrder(q, served, LastPushed)
  <2>1. LastPushed \in Nat /\ served \in Nat
    BY GameReceiveAssumption DEF IInv, TypeOK, InjectIsFrame, Arrived, Injection, Frames, LastPushed
  <2> QED
    BY <2>1, ContentsIsQueue DEF IInv, QueueIsFresh
<1>2. ~Push => LastPushed' = LastPushed
  <2>1. CASE Inject
    BY <2>1, GameReceiveAssumption DEF Inject, LastPushed, IInv, TypeOK, Injection
  <2>2. CASE UNCHANGED inject
    BY <2>2 DEF LastPushed
  <2>3. \/ Push \/ Inject \/ UNCHANGED inject
    BY NextCases
    DEF Publish, ClearRegistry, GameRxClear, ThreadStep, RecvFrom, Recv, Read, ServeQueuedPayload,
        HasData, Look, Pop, StackAnswers, Poll, Select, WaitOn, PollHasData, PollGameFd, SendTo,
        SetGameFd, NoteSessionPort, vars
  <2> QED
    BY <2>1, <2>2, <2>3
<1>3. \/ /\ Push
         /\ q' = Append(q, Arrived) \/ (q # <<>> /\ q' = Append(Tail(q), Arrived))
      \/ /\ ~Push /\ q # <<>> /\ q' = Tail(q) /\ served' = q[1].n
      \/ /\ ~Push /\ q' = <<>> /\ served' = served
      \/ /\ ~Push /\ q' = q /\ served' = served
  <2>1. Len(q) = MaxEntries => q # <<>>
    BY <1>1, RingSize
  <2>2. \A t \in Threads : Pop(t) => inject' = inject
    BY DEF Pop
  <2>3. GameRxClear => inject' = inject /\ served' = served
    BY DEF GameRxClear
  <2>4. Push => inject' # inject
    BY DEF Push, IInv, TypeOK, Injection
  <2> QED
    BY <2>1, <2>2, <2>3, <2>4, QueueStep DEF IInv
<1> HIDE DEF q
<1>4. CASE Push /\ (q' = Append(q, Arrived) \/ (q # <<>> /\ q' = Append(Tail(q), Arrived)))
  <2>1. /\ Arrived \in Frames /\ Arrived.n = LastPushed + 1
        /\ LastPushed' = LastPushed + 1 /\ served' = served
    BY <1>4, GameReceiveAssumption
    DEF Push, IInv, TypeOK, InjectIsFrame, Arrived, Injection, LastPushed, Frames
  <2>2. InOrder(Append(q, Arrived), served, LastPushed + 1)
    BY <1>1, <2>1, AppendInOrder
  <2>3. ASSUME q # <<>> PROVE InOrder(Append(Tail(q), Arrived), served, LastPushed + 1)
    <3>1. Tail(q) \in Seq(Entries) /\ InOrder(Tail(q), served, LastPushed)
      BY <1>1, <2>3, TailInOrder
    <3> QED
      BY <1>1, <2>1, <3>1, AppendInOrder
  <2>4. InOrder(q', served', LastPushed')
    BY <1>4, <2>1, <2>2, <2>3
  <2> QED
    BY <1>1, <2>1, <2>4 DEF QueueIsFresh, q
<1>5. CASE ~Push /\ q # <<>> /\ q' = Tail(q) /\ served' = q[1].n
  <2>1. InOrder(q', served', LastPushed') /\ served' <= LastPushed'
    BY <1>1, <1>2, <1>5, TailInOrder
  <2> QED
    BY <2>1 DEF QueueIsFresh, q
<1>6. CASE ~Push /\ q' = <<>> /\ served' = served
  BY <1>1, <1>2, <1>6 DEF QueueIsFresh, InOrder, q
<1>7. CASE ~Push /\ q' = q /\ served' = served
  BY <1>1, <1>2, <1>7 DEF QueueIsFresh, q
<1> QED
  BY <1>3, <1>4, <1>5, <1>6, <1>7

LEMMA InitIInv == Init => IInv
<1> SUFFICES ASSUME Init PROVE IInv
  OBVIOUS
<1>1. TypeOK /\ InjectIsFrame
  <2>1. head \in Cells /\ count \in 0 .. MaxEntries
    BY RingSize DEF Init, Cells
  <2>2. inject \in Injection /\ sessions \in 0 .. MaxSessions /\ served \in 0 .. MaxFrames
    BY GameReceiveAssumption DEF Init, Injection
  <2>3. thread \in [Threads -> ThreadState]
    BY DEF Init, Idle, ThreadState
  <2> QED
    BY <2>1, <2>2, <2>3 DEF Init, TypeOK, InjectIsFrame
<1>2. QueueIsFresh
  BY <1>1, ContentsIsQueue DEF Init, QueueIsFresh, InOrder, LastPushed
<1> QED
  BY <1>1, <1>2 DEF IInv

LEMMA NextIInv == IInv /\ [Next]_vars => IInv'
  BY TypeNext, FreshNext DEF IInv

LEMMA Inductive == Spec => []IInv
  BY InitIInv, NextIInv, PTL DEF Spec

-----------------------------------------------------------------------------
(* The theorems. *)

\* GameRx and the calls that use it keep their types, whatever the size of the ring.
THEOREM TypeCorrect == Spec => []TypeOK
<1>1. IInv => TypeOK
  BY DEF IInv
<1> QED
  BY Inductive, <1>1, PTL

\* No datagram is served twice or out of its order, however many threads of the game
\* receive at the same time and however often the session is torn down.
THEOREM InOrderServed == Spec => []ServedInOrder
<1>1. IInv => ServedInOrder
  <2> SUFFICES ASSUME IInv PROVE ServedInOrder
    OBVIOUS
  <2>1. Len(Contents) = count
    BY ContentsIsQueue DEF IInv
  <2>2. \A i \in 1 .. count : Contents[i].n \in Nat
    BY <2>1, GameReceiveAssumption DEF IInv, QueueIsFresh, InOrder, Frames
  <2> QED
    BY <2>1, <2>2 DEF IInv, QueueIsFresh, InOrder, ServedInOrder, TypeOK
<1> QED
  BY Inductive, <1>1, PTL

\* GameRx, with its indices that wrap and its entries that are overwritten, is a queue of
\* MaxEntries frames that loses the oldest when one comes in too many.
THEOREM RingRefines == Spec => RingIsQueue
<1>1. Init => Abstract!Init
  BY InitIInv, ContentsIsQueue DEF Init, IInv, Abstract!Init
<1>2. IInv /\ IInv' /\ [Next]_vars => [Abstract!Next]_Contents
  <2> SUFFICES ASSUME IInv, IInv', [Next]_vars PROVE [Abstract!Next]_Contents
    OBVIOUS
  <2>1. Push => Arrived \in Frames
    BY DEF IInv, InjectIsFrame, Push
  <2> QED
    BY <2>1, QueueStep DEF IInv, Abstract!Next, Abstract!Push, Abstract!Pop, Abstract!Clear
<1> QED
  BY Inductive, <1>1, <1>2, PTL DEF Spec, RingIsQueue, Abstract!Spec
=============================================================================
