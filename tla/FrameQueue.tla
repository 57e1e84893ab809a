----------------------------- MODULE FrameQueue -----------------------------
(***************************************************************************)
(* What the receive queue between the relay and the game promises: at most *)
(* Capacity frames, in the order they came; a frame too many pushes out    *)
(* the oldest; teardown drops them all.                                    *)
(***************************************************************************)
EXTENDS Naturals, Sequences

CONSTANTS Frames, Capacity

VARIABLE queue

Init == queue = <<>>

Push == \E f \in Frames :
    \/ Len(queue) < Capacity /\ queue' = Append(queue, f)
    \/ Len(queue) = Capacity /\ queue' = Append(Tail(queue), f)

Pop == queue # <<>> /\ queue' = Tail(queue)

Clear == queue' = <<>>

Next == Push \/ Pop \/ Clear

Spec == Init /\ [][Next]_queue
=============================================================================
