--------------------------- MODULE RelayFragProofs ---------------------------
(***************************************************************************)
(* Proofs about RelayFrag, for any number of senders, slots, parts, ids,   *)
(* packets and restarts.                                                   *)
(***************************************************************************)
EXTENDS RelayFrag, TLAPS

\* What a slot has collected was sent by its src under its id.
Collected(slot) ==
    \A p \in slot.mask : /\ slot.buffer[p] \in Packets
                         /\ slot.buffer[p].from = slot.src
                         /\ slot.buffer[p].id = slot.id

\* The part of the receiver that reassembly maintains; OneSlotPerPacket and
\* PacketIsWhole are among it, Collected is what makes them inductive.
SlotsHold == \A k \in Slots : Collected(m_frags[k])

\* A fragment bears the sender and the id of its packet.
Labelled(f) == f.of.from = f.src /\ f.of.id = f.id
NetIsLabelled == \A f \in net : Labelled(f)

IInv == TypeOK /\ NetIsLabelled /\ SlotsHold /\ OneSlotPerPacket /\ PacketIsWhole

-----------------------------------------------------------------------------
LEMMA Ranges ==
    /\ 0 \in Slots /\ 0 \in Part /\ 0 \in Ids
    /\ \A i \in Ids : (i + 1) % IdSpace \in Ids
    /\ \A k \in Slots : (k + 1) % FragSlots \in Slots
    /\ \A s \in Packets : s # NoPacket
BY FragAssumption DEF Slots, Part, Ids, Packets, NoPacket

\* A slot that is taken anew is a slot, and has collected nothing.
LEMMA TakenType ==
    ASSUME TypeOK, NEW k \in Slots, NEW f \in Fragment
    PROVE  /\ Taken(k, f) \in FragSlot
           /\ Collected(Taken(k, f))
           /\ Taken(k, f).used /\ Taken(k, f).src = f.src /\ Taken(k, f).id = f.id
<1>1. m_frags[k] \in FragSlot
  BY DEF TypeOK
<1>2. f.src \in Senders /\ f.id \in Ids
  BY DEF Fragment
<1>3. Taken(k, f).mask = {}
  BY <1>1 DEF Taken, FragSlot
<1> QED
  BY <1>1, <1>2, <1>3 DEF Taken, FragSlot, Collected

\* Stash keeps the invariant, for a slot that is the one place for the fragment.
LEMMA StashStep ==
    ASSUME IInv, NEW f \in Fragment, Labelled(f),
           NEW k \in Slots, NEW slot \in FragSlot,
           slot.used, slot.src = f.src, slot.id = f.id, Collected(slot),
           \A j \in Slots \ {k} : m_frags[j].used =>
               ~(m_frags[j].src = f.src /\ m_frags[j].id = f.id),
           Stash(k, slot, f)
    PROVE  /\ m_frags' \in [Slots -> FragSlot] /\ handed' \in Buffers
           /\ SlotsHold' /\ OneSlotPerPacket' /\ PacketIsWhole'
<1> DEFINE mask   == slot.mask \cup {f.part}
           buffer == [slot.buffer EXCEPT ![f.part] = f.of]
           new    == [slot EXCEPT !.mask = mask, !.buffer = buffer, !.used = (mask # Part)]
<1>1. /\ m_frags' = [m_frags EXCEPT ![k] = new]
      /\ handed' = IF mask = Part THEN buffer ELSE handed
  BY DEF Stash
<1>2. f.part \in Part /\ f.of \in Packets
  BY DEF Fragment
<1>3. slot.mask \in SUBSET Part /\ slot.buffer \in Buffers
  BY DEF FragSlot
<1>4. mask \in SUBSET Part /\ buffer \in Buffers
  BY <1>2, <1>3 DEF Buffers
<1>5. new \in FragSlot /\ new.src = f.src /\ new.id = f.id /\ new.mask = mask
        /\ new.buffer = buffer
  BY <1>4 DEF FragSlot
<1>6. \A p \in mask : /\ buffer[p] \in Packets
                      /\ buffer[p].from = f.src /\ buffer[p].id = f.id
  <2> TAKE p \in mask
  <2>1. CASE p = f.part
    BY <2>1, <1>2, <1>3 DEF Buffers, Labelled
  <2>2. CASE p # f.part
    <3>1. p \in slot.mask /\ buffer[p] = slot.buffer[p]
      BY <2>2, <1>2, <1>3 DEF Buffers
    <3> QED
      BY <3>1 DEF Collected
  <2> QED
    BY <2>1, <2>2
<1>7. m_frags \in [Slots -> FragSlot] /\ handed \in Buffers
  BY DEF IInv, TypeOK
<1>8. m_frags' \in [Slots -> FragSlot] /\ handed' \in Buffers
  BY <1>1, <1>4, <1>5, <1>7
<1>9. /\ m_frags'[k] = new
      /\ \A j \in Slots \ {k} : m_frags'[j] = m_frags[j]
  BY <1>1, <1>7
<1>10. Collected(new)
  BY <1>5, <1>6 DEF Collected
<1> HIDE DEF new
<1>11. SlotsHold'
  <2> SUFFICES ASSUME NEW j \in Slots PROVE Collected(m_frags'[j])
    BY DEF SlotsHold, Collected
  <2>1. CASE j = k
    BY <2>1, <1>9, <1>10
  <2>2. CASE j # k
    BY <2>2, <1>9 DEF IInv, SlotsHold
  <2> QED
    BY <2>1, <2>2
<1>12. OneSlotPerPacket'
  <2> SUFFICES ASSUME NEW i \in Slots, NEW j \in Slots,
                      m_frags'[i].used, m_frags'[j].used,
                      m_frags'[i].src = m_frags'[j].src, m_frags'[i].id = m_frags'[j].id
               PROVE  i = j
    BY DEF OneSlotPerPacket
  <2>1. CASE i # k /\ j # k
    BY <2>1, <1>9 DEF IInv, OneSlotPerPacket
  <2>2. CASE i = k \/ j = k
    BY <2>2, <1>5, <1>9
  <2> QED
    BY <2>1, <2>2
<1>13. PacketIsWhole'
  <2>1. CASE mask = Part
    <3>1. \A p \in Part : handed'[p] \in Packets /\ handed'[p].from = f.src
                            /\ handed'[p].id = f.id
      BY <1>1, <1>6, <2>1
    <3> QED
      BY <3>1, Ranges DEF PacketIsWhole
  <2>2. CASE mask # Part
    BY <1>1, <2>2 DEF IInv, PacketIsWhole
  <2> QED
    BY <2>1, <2>2
<1> QED
  BY <1>8, <1>11, <1>12, <1>13

-----------------------------------------------------------------------------
LEMMA InitOK == Init => IInv
<1> SUFFICES ASSUME Init PROVE IInv
  OBVIOUS
<1>1. [p \in Part |-> NoPacket] \in Buffers
  BY DEF Buffers
<1>2. TypeOK
  BY <1>1, Ranges, FragAssumption DEF Init, TypeOK, FragSlot
<1>3. NetIsLabelled
  BY DEF Init, NetIsLabelled
<1>4. SlotsHold
  BY DEF Init, SlotsHold, Collected
<1>5. OneSlotPerPacket
  BY DEF Init, OneSlotPerPacket
<1>6. PacketIsWhole
  BY DEF Init, PacketIsWhole
<1> QED
  BY <1>2, <1>3, <1>4, <1>5, <1>6 DEF IInv

LEMMA SendStep ==
    ASSUME IInv, NEW s \in Senders, SendFragmented(s)
    PROVE  IInv'
<1> DEFINE packet == [from |-> s, id |-> m_frag_send_id[s], n |-> sent[s] + 1]
           new == {[src |-> s, id |-> packet.id, part |-> p, of |-> packet] : p \in Part}
<1>1. TypeOK /\ NetIsLabelled
  BY DEF IInv
<1>2. /\ m_frag_send_id[s] \in Ids /\ sent[s] \in 0 .. MaxPackets /\ sent[s] < MaxPackets
      /\ net' = net \cup new /\ UNCHANGED <<restarts, receiver>>
  BY <1>1 DEF SendFragmented, TypeOK
<1>3. packet \in Packets
  BY <1>2, FragAssumption DEF Packets
<1>4. \A f \in new : f \in Fragment /\ Labelled(f)
  BY <1>2, <1>3 DEF Fragment, Labelled
<1>5. net' \subseteq Fragment /\ NetIsLabelled'
  BY <1>1, <1>2, <1>4 DEF TypeOK, NetIsLabelled, Labelled
<1>6. /\ m_frag_send_id' \in [Senders -> Ids]
      /\ sent' \in [Senders -> 0 .. MaxPackets]
  BY <1>1, <1>2, Ranges, FragAssumption DEF SendFragmented, TypeOK
<1>7. TypeOK'
  BY <1>1, <1>2, <1>5, <1>6 DEF TypeOK, receiver
<1>8. SlotsHold' /\ OneSlotPerPacket' /\ PacketIsWhole'
  BY <1>2 DEF IInv, receiver, SlotsHold, Collected, OneSlotPerPacket, PacketIsWhole
<1> QED
  BY <1>5, <1>7, <1>8 DEF IInv

LEMMA RestartStep ==
    ASSUME IInv, NEW s \in Senders, Restart(s)
    PROVE  IInv'
<1>1. TypeOK'
  BY Ranges, FragAssumption DEF IInv, Restart, TypeOK, receiver
<1>2. NetIsLabelled' /\ SlotsHold' /\ OneSlotPerPacket' /\ PacketIsWhole'
  BY DEF IInv, Restart, receiver, NetIsLabelled, Labelled, SlotsHold, Collected,
         OneSlotPerPacket, PacketIsWhole
<1> QED
  BY <1>1, <1>2 DEF IInv

\* Stash leaves the senders alone: with its other results the invariant is whole.
LEMMA AfterStash ==
    ASSUME IInv, UNCHANGED sender, UNCHANGED opens, m_frag_evict' \in Slots,
           m_frags' \in [Slots -> FragSlot], handed' \in Buffers,
           SlotsHold', OneSlotPerPacket', PacketIsWhole'
    PROVE  IInv'
<1>1. TypeOK'
  BY DEF IInv, TypeOK, sender
<1>2. NetIsLabelled'
  BY DEF IInv, NetIsLabelled, Labelled, sender
<1> QED
  BY <1>1, <1>2 DEF IInv

LEMMA ReassembleStep ==
    ASSUME IInv, NEW f \in net, ReassembleFrag(f)
    PROVE  IInv'
<1>1. f \in Fragment /\ Labelled(f) /\ TypeOK /\ m_frag_evict \in Slots
  BY DEF IInv, TypeOK, NetIsLabelled
<1>2. ASSUME Join(f) PROVE IInv'
  <2>1. PICK k \in Slots : IsFirst(k, Collecting(f)) /\ Stash(k, m_frags[k], f)
    BY <1>2 DEF Join
  <2>2. /\ m_frags[k] \in FragSlot /\ m_frags[k].used
        /\ m_frags[k].src = f.src /\ m_frags[k].id = f.id
    BY <1>1, <2>1 DEF IsFirst, Collecting, TypeOK
  <2>3. Collected(m_frags[k])
    BY DEF IInv, SlotsHold
  <2>4. \A j \in Slots \ {k} : m_frags[j].used =>
            ~(m_frags[j].src = f.src /\ m_frags[j].id = f.id)
    BY <2>2 DEF IInv, OneSlotPerPacket
  <2>5. /\ m_frags' \in [Slots -> FragSlot] /\ handed' \in Buffers
        /\ SlotsHold' /\ OneSlotPerPacket' /\ PacketIsWhole'
    BY <1>1, <2>1, <2>2, <2>3, <2>4, StashStep
  <2> QED
    BY <1>1, <1>2, <2>1, <2>5, AfterStash DEF Join, Stash
<1>3. ASSUME NEW k \in Slots, Collecting(f) = {}, Stash(k, Taken(k, f), f)
      PROVE  /\ m_frags' \in [Slots -> FragSlot] /\ handed' \in Buffers
             /\ SlotsHold' /\ OneSlotPerPacket' /\ PacketIsWhole'
  <2>1. /\ Taken(k, f) \in FragSlot /\ Collected(Taken(k, f)) /\ Taken(k, f).used
        /\ Taken(k, f).src = f.src /\ Taken(k, f).id = f.id
    BY <1>1, TakenType
  <2>2. \A j \in Slots \ {k} : m_frags[j].used =>
            ~(m_frags[j].src = f.src /\ m_frags[j].id = f.id)
    BY <1>3 DEF Collecting
  <2> QED
    BY <1>1, <1>3, <2>1, <2>2, StashStep
<1>4. ASSUME Fill(f) PROVE IInv'
  <2>1. PICK k \in Slots : Stash(k, Taken(k, f), f)
    BY <1>4 DEF Fill
  <2>2. Collecting(f) = {} /\ m_frag_evict' \in Slots
    BY <1>1, <1>4 DEF Fill
  <2> QED
    BY <1>3, <2>1, <2>2, AfterStash DEF Stash
<1>5. ASSUME Recycle(f) PROVE IInv'
  <2>1. /\ Stash(m_frag_evict, Taken(m_frag_evict, f), f)
        /\ Collecting(f) = {} /\ m_frag_evict' \in Slots
    BY <1>1, <1>5, Ranges DEF Recycle
  <2> QED
    BY <1>1, <1>3, <2>1, AfterStash DEF Stash
<1> QED
  BY <1>2, <1>4, <1>5 DEF ReassembleFrag

LEMMA OpenStep ==
    ASSUME IInv, Open
    PROVE  IInv'
<1>1. \A k \in Slots : /\ m_frags[k] \in FragSlot
                       /\ m_frags'[k] = [m_frags[k] EXCEPT !.used = FALSE]
  BY DEF IInv, TypeOK, Open
<1>2. m_frags' \in [Slots -> FragSlot]
  <2>1. \A k \in Slots : [m_frags[k] EXCEPT !.used = FALSE] \in FragSlot
    BY <1>1 DEF FragSlot
  <2> QED
    BY <2>1 DEF Open
<1>3. TypeOK'
  BY <1>2, FragAssumption DEF IInv, TypeOK, Open, sender
<1>4. SlotsHold'
  <2>1. \A k \in Slots : /\ m_frags'[k].mask = m_frags[k].mask
                         /\ m_frags'[k].buffer = m_frags[k].buffer
                         /\ m_frags'[k].src = m_frags[k].src
                         /\ m_frags'[k].id = m_frags[k].id
    BY <1>1 DEF FragSlot
  <2> QED
    BY <2>1 DEF IInv, SlotsHold, Collected
<1>5. OneSlotPerPacket'
  BY <1>1 DEF OneSlotPerPacket, FragSlot
<1>6. NetIsLabelled' /\ PacketIsWhole'
  BY DEF IInv, Open, sender, NetIsLabelled, Labelled, PacketIsWhole
<1> QED
  BY <1>3, <1>4, <1>5, <1>6 DEF IInv

LEMMA NextOK == IInv /\ [Next]_vars => IInv'
<1> SUFFICES ASSUME IInv, [Next]_vars PROVE IInv'
  OBVIOUS
<1>1. CASE UNCHANGED vars
  BY <1>1 DEF vars, sender, receiver, IInv, TypeOK, NetIsLabelled, Labelled, SlotsHold,
              Collected, OneSlotPerPacket, PacketIsWhole
<1>2. CASE Next
  BY <1>2, SendStep, RestartStep, ReassembleStep, OpenStep DEF Next
<1> QED
  BY <1>1, <1>2

\* Whatever the relay does to the fragments, and whatever senders and receiver do
\* meanwhile, the receiver's state stays well-formed.
THEOREM TypeCorrect == Spec => []TypeOK
<1>1. IInv => TypeOK
  BY DEF IInv
<1> QED
  BY <1>1, InitOK, NextOK, PTL DEF Spec

\* The packets of two consoles, and those of one console under different ids, are never
\* put together into one, and none is handed on with a hole.
THEOREM WholePackets == Spec => []PacketIsWhole
<1>1. IInv => PacketIsWhole
  BY DEF IInv
<1> QED
  BY <1>1, InitOK, NextOK, PTL DEF Spec

\* At any time a packet is collected in one slot only.
THEOREM UniqueSlots == Spec => []OneSlotPerPacket
<1>1. IInv => OneSlotPerPacket
  BY DEF IInv
<1> QED
  BY <1>1, InitOK, NextOK, PTL DEF Spec
=============================================================================
