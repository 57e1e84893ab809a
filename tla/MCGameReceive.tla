--------------------------- MODULE MCGameReceive ---------------------------
EXTENDS GameReceive, TLC

CONSTANTS s1, s2

TwoPorts == s1 :> 1 @@ s2 :> 2

=============================================================================
