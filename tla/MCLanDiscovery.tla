--------------------------- MODULE MCLanDiscovery ---------------------------
EXTENDS LanDiscovery, TLC

Symmetry == Permutations(Peers)
=============================================================================
