--------------------------- MODULE MCPersistence ----------------------------
(* Instance of Persistence for TLC: a fold threshold of two rows instead of *)
(* sixty-four, so that merges and folds happen with a handful of edits.     *)
EXTENDS Persistence, TLC

CONSTANTS l1, l2, r1

MCLocalEdits == {l1, l2}
MCRemoteEdits == {r1}
MCEdits == MCLocalEdits \union MCRemoteEdits
MCSymmetry == Permutations(MCLocalEdits)
=============================================================================
