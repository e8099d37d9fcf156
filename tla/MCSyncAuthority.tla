-------------------------- MODULE MCSyncAuthority ---------------------------
(* Instance of SyncAuthority for TLC: two edits, two activation ids.        *)
EXTENDS SyncAuthority, TLC

CONSTANTS e1, e2, op1, op2

MCEdits == {e1, e2}
MCInputs == {{e1}, {e2}}
MCOperations == {op1, op2}
MCSymmetry == Permutations(MCEdits) \union Permutations(MCOperations)
=============================================================================
