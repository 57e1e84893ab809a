---------------------------- MODULE MCRelayBridge ----------------------------
EXTENDS RelayBridge, TLC

\* Sessions are alike, and so are addresses.
Alike == Permutations(Session) \cup Permutations(Address)
=============================================================================
