---------------------------- MODULE MCTcpTunnel ----------------------------
EXTENDS TcpTunnel, TLC

Symmetry == Permutations(Consoles)
=============================================================================
