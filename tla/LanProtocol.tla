----------------------------- MODULE LanProtocol -----------------------------
(***************************************************************************)
(* One direction of a LanSocket: messages are compressed, framed and sent  *)
(* over a TCP connection or as datagrams; the receiver gathers bytes in a  *)
(* buffer and cuts one frame from it per read.                             *)
(*                                                                         *)
(* A connection hands over its bytes in pieces of any size.  Datagrams     *)
(* come in any order, never or with those of another program between       *)
(* them.  A byte of a frame is the frame's header and body at an offset.   *)
(* Bytes of a body are numbers.                                            *)
(***************************************************************************)
EXTENDS Naturals, SequencesExt, FiniteSetsExt, Functions

CONSTANTS
    HeaderSize, \* sizeof(LANPacketHeader), 12 in the code
    BufferSize, \* 2048 in the code
    MaxRun,     \* zeros a run may stand for beyond its first (255 in the code)
    Payloads,   \* the messages that may be sent
    Inputs,     \* the messages compression is checked on
    MaxSent,    \* bound: messages
    MaxNoise    \* bound: datagrams of another program

ASSUME FramingAssumption ==
    /\ HeaderSize \in Nat \ {0} /\ BufferSize \in Nat /\ MaxRun \in Nat
    /\ Payloads \subseteq Seq(Nat) /\ Inputs \subseteq Seq(Nat)
    /\ \A p \in Payloads : HeaderSize + Len(p) <= BufferSize
    /\ MaxSent \in Nat /\ MaxNoise \in Nat

-----------------------------------------------------------------------------
(* compress and decompress: a zero is followed by how many more there are. *)

\* How many zeros follow position i, as far as one run can say.
RunAfter(p, i) ==
    LET stop == Min({j \in i + 1 .. Len(p) : p[j] # 0} \cup {Len(p) + 1})
    IN Min({stop - i - 1, MaxRun})

\* Faulty: a run is never cut, its count is a byte and wraps.
Packed_LongRuns(p) ==
    LET zeros(i) == Min({j \in i + 1 .. Len(p) : p[j] # 0} \cup {Len(p) + 1}) - i
        from[i \in 1 .. Len(p) + 1] ==
            IF i > Len(p) THEN <<>>
            ELSE IF p[i] # 0 THEN <<p[i]>> \o from[i + 1]
            ELSE <<0, (zeros(i) - 1) % (MaxRun + 1)>> \o from[i + zeros(i)]
    IN from[1]

Packed(p) ==
    LET from[i \in 1 .. Len(p) + 1] ==
            IF i > Len(p) THEN <<>>
            ELSE IF p[i] # 0 THEN <<p[i]>> \o from[i + 1]
            ELSE <<0, RunAfter(p, i)>> \o from[i + RunAfter(p, i) + 1]
    IN from[1]

\* The message that b stands for, in a set: the empty set if b ends within a run.
Unpacked(b) ==
    LET from[i \in 1 .. Len(b) + 1] ==
            IF i > Len(b) THEN {<<>>}
            ELSE IF b[i] # 0 THEN {<<b[i]>> \o rest : rest \in from[i + 1]}
            ELSE IF i = Len(b) THEN {}
            ELSE {[k \in 1 .. b[i + 1] + 1 |-> 0] \o rest : rest \in from[i + 2]}
    IN from[1]

-----------------------------------------------------------------------------
(* Frames. *)

\* Faulty: the header does not say that the body is compressed.
FrameOf_Unmarked(p) ==
    [compressed |-> FALSE, body |-> IF Len(Packed(p)) <= Len(p) THEN Packed(p) ELSE p,
     decompress_length |-> 0]

\* sendPacket: compressed if that is not longer than the message.
FrameOf(p) == IF p # <<>> /\ Len(Packed(p)) <= Len(p)
              THEN [compressed |-> TRUE, body |-> Packed(p), decompress_length |-> Len(p)]
              ELSE [compressed |-> FALSE, body |-> p, decompress_length |-> 0]

Size(f) == HeaderSize + Len(f.body)
Bytes(f) == [k \in 1 .. Size(f) |-> [of |-> f, at |-> k]]

\* A byte that is of no frame.
Noise == [of |-> FrameOf(<<>>), at |-> 0]

\* What recvPacket makes of a frame: the message, or none, and the socket is closed.
Content(f) ==
    IF ~f.compressed THEN {f.body}
    ELSE {p \in Unpacked(f.body) : Len(p) = f.decompress_length /\ Len(p) <= BufferSize}

VARIABLES
    ordered,   \* a TCP connection; otherwise datagrams
    sent,      \* the messages sent
    fin,       \* the sender has closed the connection
    broken,    \* the receiver's interface died, or its socket fails otherwise
    stream,    \* the bytes of the connection not yet read
    datagrams, \* the datagrams not yet read
    buffer,    \* the receiver's buffer: recvSize is its length
    open,      \* the receiver's socket is open
    received,  \* the messages handed to the callback
    frames,    \* the datagrams read that were frames
    noise      \* the datagrams read that were of another program

vars == <<ordered, sent, fin, broken, stream, datagrams, buffer, open, received, frames, noise>>

Frame == {FrameOf(p) : p \in Payloads}
IsByte(b) == b = Noise \/ (b.of \in Frame /\ b.at \in 1 .. Size(b.of))

TypeOK ==
    /\ ordered \in BOOLEAN /\ fin \in BOOLEAN /\ broken \in BOOLEAN /\ open \in BOOLEAN
    /\ sent \in Seq(Payloads) /\ received \in Seq(Payloads)
    /\ \A b \in Range(stream) \cup Range(buffer) : IsByte(b)
    /\ \A d \in Range(datagrams) : \A b \in Range(d) : IsByte(b)
    /\ Len(buffer) <= BufferSize
    /\ frames \in Nat /\ noise \in Nat

-----------------------------------------------------------------------------
(* The sender. *)

Send(p) ==
    /\ Len(sent) < MaxSent
    /\ ~fin
    /\ sent' = Append(sent, p)
    /\ \/ ordered /\ stream' = stream \o Bytes(FrameOf(p)) /\ UNCHANGED datagrams
       \/ ~ordered /\ datagrams' = Append(datagrams, Bytes(FrameOf(p))) /\ UNCHANGED stream
    /\ UNCHANGED <<ordered, fin, broken, buffer, open, received, frames, noise>>

SenderCloses ==
    /\ ordered /\ ~fin
    /\ fin' = TRUE
    /\ UNCHANGED <<ordered, sent, broken, stream, datagrams, buffer, open, received, frames, noise>>

\* Another program sends a datagram of n bytes to the port.
Stray(n) ==
    /\ ~ordered
    /\ noise + Cardinality({i \in DOMAIN datagrams : datagrams[i][1] = Noise}) < MaxNoise
    /\ datagrams' = Append(datagrams, [k \in 1 .. n |-> Noise])
    /\ UNCHANGED <<ordered, sent, fin, broken, stream, buffer, open, received, frames, noise>>

-----------------------------------------------------------------------------
(* The receiver: Pollable::Poll, onRead, recvPacket. *)

Room == BufferSize - Len(buffer)

\* Faulty: what follows the frame is dropped with it.
AfterFrame_Dropped(b, f) == <<>>

AfterFrame(b, f) == SubSeq(b, Size(f) + 1, Len(b))

\* Faulty: takes a frame for complete when there is more.
Incomplete_NeedsMore(b, f) == Len(b) <= Size(f)

Incomplete(b, f) == Len(b) < Size(f)

\* Faulty: bytes that are no frame stay in the buffer.
AfterNoise_Kept(b) == b

AfterNoise(b) == <<>>

\* recvPartPacket and recvPacket with these bytes added to the buffer: one frame is cut
\* from its head, whatever follows waits for the next read.
Cut(new) ==
    LET b == buffer \o new
        f == b[1].of
        header == Len(b) >= HeaderSize
        magic == b[1].at = 1 /\ Size(f) <= BufferSize
    IN \/ /\ ~header \/ (magic /\ Incomplete(b, f))
          /\ buffer' = b
          /\ UNCHANGED <<open, received>>
       \/ /\ header /\ ~magic
          /\ buffer' = AfterNoise(b)
          /\ UNCHANGED <<open, received>>
       \/ /\ header /\ magic /\ ~Incomplete(b, f)
          /\ buffer' = AfterFrame(b, f)
          /\ \/ \E p \in Content(f) : received' = Append(received, p) /\ UNCHANGED open
             \/ Content(f) = {} /\ open' = FALSE /\ UNCHANGED received

\* The connection has bytes: the read takes as many as there are, or fewer.
ReadStream ==
    /\ ordered /\ open
    /\ \E n \in 1 .. Min({Room, Len(stream)}) :
          /\ Cut(SubSeq(stream, 1, n))
          /\ stream' = SubSeq(stream, n + 1, Len(stream))
    /\ UNCHANGED <<ordered, sent, fin, broken, datagrams, frames, noise>>

\* A read returns 0, which means the sender has closed: so it has, and all is read, or no
\* byte was asked for.
ReadNothing ==
    /\ ordered /\ open
    /\ \/ fin /\ stream = <<>>
       \/ stream # <<>> /\ Room = 0
    /\ open' = FALSE
    /\ UNCHANGED <<ordered, sent, fin, broken, stream, datagrams, buffer, received, frames, noise>>

\* Sleep, airplane mode, a lost network or a connection that is reset.
Breaks ==
    /\ ~broken
    /\ broken' = TRUE
    /\ UNCHANGED <<ordered, sent, fin, stream, datagrams, buffer, open, received, frames, noise>>

\* POLLHUP is looked at before POLLIN, and a read that fails closes the socket as well,
\* whether it is a connection or takes datagrams: what is unread stays unread.
HangUp ==
    /\ open
    /\ (ordered /\ fin) \/ broken
    /\ open' = FALSE
    /\ UNCHANGED <<ordered, sent, fin, broken, stream, datagrams, buffer, received, frames, noise>>

\* A datagram, any of those under way, is cut to the room there is.
ReadDatagram ==
    /\ ~ordered /\ open
    /\ \E i \in DOMAIN datagrams :
          LET d == datagrams[i] IN
          /\ Cut(SubSeq(d, 1, Min({Room, Len(d)})))
          /\ datagrams' = RemoveAt(datagrams, i)
          /\ frames' = IF d[1] = Noise THEN frames ELSE frames + 1
          /\ noise' = IF d[1] = Noise THEN noise + 1 ELSE noise
    /\ UNCHANGED <<ordered, sent, fin, broken, stream>>

Init ==
    /\ ordered \in BOOLEAN
    /\ sent = <<>> /\ fin = FALSE /\ broken = FALSE /\ stream = <<>> /\ datagrams = <<>>
    /\ buffer = <<>> /\ open = TRUE /\ received = <<>>
    /\ frames = 0 /\ noise = 0

Next ==
    \/ \E p \in Payloads : Send(p)
    \/ SenderCloses \/ Breaks
    \/ \E n \in 1 .. HeaderSize + 1 : Stray(n)
    \/ ReadStream \/ ReadNothing \/ HangUp \/ ReadDatagram

Spec == Init /\ [][Next]_vars

-----------------------------------------------------------------------------
(* Properties. *)

\* What compress makes of a message, decompress turns back into it, runs that are cut at
\* the largest count included. (No state changes the answer: it is asked before the first
\* message.)
CompressionUndone == sent = <<>> => \A p \in Inputs : Unpacked(Packed(p)) = {p}

\* Compression, framing, the receive buffer: whatever the pieces the bytes come in, the
\* socket hands over the messages that were sent, on a connection in order and each once.
Channel == INSTANCE MessageChannel
ImplementsChannel == Channel!Spec

\* recvfrom with no room left returns 0, which recvPacket takes for an orderly close by the
\* peer (LanSocketPeerClosed): the receive buffer is never full when it reads, so a
\* connection ends only when the sender has closed it or it has failed.
EndsBySender == ordered /\ ~open => fin \/ broken

\* A datagram too short for a header stays in the buffer and spoils the next, but no more:
\* every stray datagram costs one packet at most, and only a socket that failed is closed.
StrayCostsOne == ~ordered => (open \/ broken) /\ frames <= Len(received) + noise
=============================================================================
