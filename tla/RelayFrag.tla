------------------------------ MODULE RelayFrag ------------------------------
(***************************************************************************)
(* Packets too large for one frame of the relay: a sender splits them into *)
(* fragments (SendFragmented), the receiver puts them together again in a  *)
(* handful of slots (ReassembleFrag).                                      *)
(*                                                                         *)
(* The relay loses, repeats and reorders fragments.  What a packet's bytes *)
(* are is left out: a packet is its sender, its id and its number, and a   *)
(* buffer is, for each part, the packet it was copied from.                *)
(***************************************************************************)
EXTENDS Naturals

CONSTANTS
    Senders,     \* the consoles that send to the one that receives
    NoSender,    \* src of a slot that was never used
    Parts,       \* parts of a packet that is split (2 in the code, 8 at most)
    FragSlots,   \* slots of the receiver (4 in the code)
    IdSpace,     \* ids of a sender (2^16 in the code)
    MaxPackets,  \* bound: packets each sender splits
    MaxRestarts, \* bound: times a sender's transport is made anew
    MaxOpens     \* bound: times the receiver's transport opens again

ASSUME FragAssumption ==
    /\ NoSender \notin Senders
    /\ Parts \in Nat \ {0} /\ FragSlots \in Nat \ {0} /\ IdSpace \in Nat \ {0}
    /\ MaxPackets \in Nat /\ MaxRestarts \in Nat /\ MaxOpens \in Nat

Slots    == 0 .. FragSlots - 1
Part     == 0 .. Parts - 1
Ids      == 0 .. IdSpace - 1
Packets  == [from: Senders, id: Ids, n: 1 .. MaxPackets]
NoPacket == [from |-> NoSender, id |-> 0, n |-> 0]
Buffers  == [Part -> Packets \cup {NoPacket}]
Fragment == [src: Senders, id: Ids, part: Part, of: Packets]
FragSlot == [used: BOOLEAN, src: Senders \cup {NoSender}, id: Ids, mask: SUBSET Part,
             buffer: Buffers]

VARIABLES
    m_frag_send_id, \* per sender: the id of its next packet
    sent,           \* per sender: packets it has split
    restarts,       \* times a sender has started over
    net,            \* the fragments that were sent
    m_frags,        \* the receiver's slots
    m_frag_evict,   \* the slot that is recycled next
    opens,          \* times the receiver's transport was opened again
    handed          \* the packet handed on last

sender   == <<m_frag_send_id, sent, restarts, net>>
receiver == <<m_frags, m_frag_evict, opens, handed>>
vars     == <<sender, receiver>>

TypeOK ==
    /\ m_frag_send_id \in [Senders -> Ids]
    /\ sent \in [Senders -> 0 .. MaxPackets]
    /\ restarts \in 0 .. MaxRestarts
    /\ net \subseteq Fragment
    /\ m_frags \in [Slots -> FragSlot]
    /\ m_frag_evict \in Slots
    /\ opens \in 0 .. MaxOpens
    /\ handed \in Buffers

-----------------------------------------------------------------------------
(* The senders. *)

\* Faulty: the counter is wider than the id.
SendFragmented_Wide(s) ==
    LET packet == [from |-> s, id |-> m_frag_send_id[s] % IdSpace, n |-> sent[s] + 1]
    IN /\ sent[s] < MaxPackets
       /\ sent' = [sent EXCEPT ![s] = @ + 1]
       /\ m_frag_send_id' = [m_frag_send_id EXCEPT ![s] = @ + 1]
       /\ net' = net \cup {[src |-> s, id |-> packet.id, part |-> p, of |-> packet] :
                              p \in Part}
       /\ UNCHANGED <<restarts, receiver>>

\* SendFragmented: the packet takes the next id; its parts are sent one after the other,
\* and what a failed send leaves out is lost like another fragment.
SendFragmented(s) ==
    LET packet == [from |-> s, id |-> m_frag_send_id[s], n |-> sent[s] + 1]
    IN /\ sent[s] < MaxPackets
       /\ sent' = [sent EXCEPT ![s] = @ + 1]
       /\ m_frag_send_id' = [m_frag_send_id EXCEPT ![s] = (@ + 1) % IdSpace]
       /\ net' = net \cup {[src |-> s, id |-> packet.id, part |-> p, of |-> packet] :
                              p \in Part}
       /\ UNCHANGED <<restarts, receiver>>

\* A new session has a new RelayTransport, which counts from 0.
Restart(s) ==
    /\ restarts < MaxRestarts
    /\ restarts' = restarts + 1
    /\ m_frag_send_id' = [m_frag_send_id EXCEPT ![s] = 0]
    /\ UNCHANGED <<sent, net, receiver>>

-----------------------------------------------------------------------------
(* The receiver. *)

\* Faulty: a slot that has this part collects another packet.
Collecting_NewPart(f) == {k \in Slots : /\ m_frags[k].used
                                        /\ m_frags[k].id = f.id
                                        /\ m_frags[k].src = f.src
                                        /\ f.part \notin m_frags[k].mask}

\* The slots that collect the packet of fragment f.
Collecting(f) == {k \in Slots : /\ m_frags[k].used
                                /\ m_frags[k].id = f.id
                                /\ m_frags[k].src = f.src}

Unused == {k \in Slots : ~m_frags[k].used}
IsFirst(k, S) == k \in S /\ \A j \in S : k <= j

\* The fragment joins a slot.  When no part is missing any more the slot becomes free
\* and the packet is handed on.
Stash(k, slot, f) ==
    LET mask   == slot.mask \cup {f.part}
        buffer == [slot.buffer EXCEPT ![f.part] = f.of]
    IN /\ m_frags' = [m_frags EXCEPT ![k] =
             [slot EXCEPT !.mask = mask, !.buffer = buffer, !.used = (mask # Part)]]
       /\ handed' = IF mask = Part THEN buffer ELSE handed
       /\ UNCHANGED <<sender, opens>>

\* Faulty: the mask of the packet before stays.
Taken_KeepMask(k, f) == [m_frags[k] EXCEPT !.used = TRUE, !.src = f.src, !.id = f.id]

\* A slot that is taken anew: what it had collected is forgotten, the bytes stay.
Taken(k, f) == [m_frags[k] EXCEPT !.used = TRUE, !.src = f.src, !.id = f.id, !.mask = {}]

Join(f) ==
    /\ \E k \in Slots : IsFirst(k, Collecting(f)) /\ Stash(k, m_frags[k], f)
    /\ UNCHANGED m_frag_evict

Fill(f) ==
    /\ Collecting(f) = {}
    /\ \E k \in Slots : IsFirst(k, Unused) /\ Stash(k, Taken(k, f), f)
    /\ UNCHANGED m_frag_evict

\* All slots hold packets that lack a part: round-robin, one is given up.
Recycle(f) ==
    /\ Collecting(f) = {} /\ Unused = {}
    /\ Stash(m_frag_evict, Taken(m_frag_evict, f), f)
    /\ m_frag_evict' = (m_frag_evict + 1) % FragSlots

ReassembleFrag(f) == Join(f) \/ Fill(f) \/ Recycle(f)

\* Close and Open on the same transport, when the path to the relay is dead.
Open ==
    /\ opens < MaxOpens
    /\ opens' = opens + 1
    /\ m_frags' = [k \in Slots |-> [m_frags[k] EXCEPT !.used = FALSE]]
    /\ UNCHANGED <<sender, m_frag_evict, handed>>

-----------------------------------------------------------------------------
Init ==
    /\ m_frag_send_id = [s \in Senders |-> 0]
    /\ sent = [s \in Senders |-> 0]
    /\ restarts = 0 /\ opens = 0
    /\ net = {}
    /\ m_frags = [k \in Slots |-> [used |-> FALSE, src |-> NoSender, id |-> 0, mask |-> {},
                                   buffer |-> [p \in Part |-> NoPacket]]]
    /\ m_frag_evict = 0
    /\ handed = [p \in Part |-> NoPacket]

Next ==
    \/ \E s \in Senders : SendFragmented(s) \/ Restart(s)
    \/ \E f \in net : ReassembleFrag(f)
    \/ Open

Spec == Init /\ [][Next]_vars

-----------------------------------------------------------------------------
(* What holds. *)

\* No packet handed on has a hole, and its parts are those of one packet, or of packets
\* of one sender that bear the same id: whichever fragments are lost, repeated or late
\* and however the slots are recycled, two consoles' packets never mix, and one
\* console's only when its ids start over.
PacketIsWhole ==
    \A p, q \in Part :
        handed[p] # NoPacket =>
            /\ handed[q] # NoPacket
            /\ handed[q].from = handed[p].from
            /\ handed[q].id = handed[p].id

\* A packet is collected in one place: no part of it can complete another slot.
OneSlotPerPacket ==
    \A j, k \in Slots :
        /\ m_frags[j].used /\ m_frags[k].used
        /\ m_frags[j].src = m_frags[k].src /\ m_frags[j].id = m_frags[k].id
        => j = k
=============================================================================
