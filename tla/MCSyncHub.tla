----------------------------- MODULE MCSyncHub -----------------------------
EXTENDS SyncHub, TLC
PeerSymmetry == Permutations(Peers)
=============================================================================
