--------------------------- MODULE MessageChannel ---------------------------
(***************************************************************************)
(* What a socket of the LAN protocol promises: over a connection the       *)
(* messages come in the order they were sent, each once, up to where it    *)
(* breaks off; by datagrams each that comes was sent.                      *)
(***************************************************************************)
EXTENDS Naturals, Sequences

CONSTANT Payloads

VARIABLES ordered, sent, received

Init == ordered \in BOOLEAN /\ sent = <<>> /\ received = <<>>

Send == /\ \E p \in Payloads : sent' = Append(sent, p)
        /\ UNCHANGED <<ordered, received>>

Next1 == Len(received) + 1

Take == /\ \E i \in DOMAIN sent :
              /\ ordered => i = Next1
              /\ received' = Append(received, sent[i])
        /\ UNCHANGED <<ordered, sent>>

Spec == Init /\ [][Send \/ Take]_<<ordered, sent, received>>
=============================================================================
