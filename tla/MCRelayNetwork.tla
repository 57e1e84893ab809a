--------------------------- MODULE MCRelayNetwork ---------------------------
EXTENDS RelayNetwork, TLC

CONSTANTS a, b, s, ip1, ip2, ip3, t1, t2

\* Nobody is in a session yet.
Nobody == [c \in {a, b, s} |-> Unscoped]

\* a and b are in a session, s is in another.
TwoSessions == (a :> t1) @@ (b :> t1) @@ (s :> t2)

\* Every console has an address of its own.
OwnAddress == (a :> ip1) @@ (b :> ip2) @@ (s :> ip3)

\* The stranger s is behind another router, at the same private address as b.
SharedAddress == (a :> ip1) @@ (b :> ip2) @@ (s :> ip2)

\* Consoles are alike, each with its address, and so are sessions.
Alike ==
    {[x \in {a, b, s, ip1, ip2, ip3, t1, t2} |->
         IF x \in Console THEN p[x]
         ELSE IF x \in Scope THEN q[x]
         ELSE OwnAddress[p[CHOOSE c \in Console : OwnAddress[c] = x]]] :
        p \in Permutations(Console), q \in Permutations(Scope)}
=============================================================================
