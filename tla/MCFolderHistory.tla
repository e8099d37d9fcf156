-------------------------- MODULE MCFolderHistory --------------------------
(* FolderHistory for TLC.                                                  *)
EXTENDS FolderHistory, TLC

Symmetry == Permutations(Paths) \cup Permutations(Tabs)
=============================================================================
