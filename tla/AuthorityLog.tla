---------------------------- MODULE AuthorityLog ----------------------------
(***************************************************************************)
(* The authority's two SQL relations and the private operations over them  *)
(* (packages/app/src/data/sync/authority.ts, createLogOperations).         *)
(*                                                                         *)
(* `_log` is a set of rows [seq, bytes] and `_snapshot` a set of rows      *)
(* [position, bytes].  The chunk column is abstracted: intoChunks and      *)
(* reassemble are inverse on one row, and every statement here addresses   *)
(* all chunks of a row together.  Bytes are opaque to the authority; the   *)
(* model gives them a meaning (the set of edits they carry) only so that   *)
(* "covers" can be stated.                                                 *)
(***************************************************************************)
EXTENDS Naturals, FiniteSets

CONSTANTS Edits,         \* what an update may carry
          SNAPSHOTS_KEPT \* the live snapshot and the ones to fall back to

ASSUME KeptAssumption == SNAPSHOTS_KEPT \in Nat \ {0}

Update == SUBSET Edits

LogRow == [seq : Nat \ {0}, bytes : Update]
SnapshotRow == [position : Nat \ {0}, bytes : Update]

\* COALESCE(MAX(column), 0): an upper bound of the set that it contains.
MaxOr0(S) == IF S = {} THEN 0 ELSE CHOOSE m \in S : \A x \in S : x <= m

Seqs(log) == {row.seq : row \in log}
Positions(snaps) == {row.position : row \in snaps}

snapshotPosition(snaps) == MaxOr0(Positions(snaps))

head(log, snaps) ==
    LET s == MaxOr0(Seqs(log))
        p == snapshotPosition(snaps)
    IN  IF s > p THEN s ELSE p

\* writeSnapshot is INSERT OR REPLACE keyed by the position.
writeSnapshot(snaps, p, bytes) ==
    {row \in snaps : row.position # p} \union {[position |-> p, bytes |-> bytes]}

append(log, snaps, bytes) ==
    log \union {[seq |-> head(log, snaps) + 1, bytes |-> bytes]}

\* Every complete entry after a cursor.  The limit of one read is the caller's
\* loop: both callers read again until nothing is left.
since(log, cursor) == {row \in log : row.seq > cursor}

\* snapshot(): the row at the highest position.
snapshot(snaps) == CHOOSE row \in snaps : row.position = snapshotPosition(snaps)

\* Mutant: the ORDER BY of the retention query without its DESC.
KeepOldest(snaps) ==
    {row \in snaps :
        Cardinality({p \in Positions(snaps) : p < row.position}) < SNAPSHOTS_KEPT}

\* The rows at the SNAPSHOTS_KEPT highest positions.
KeepNewest(snaps) ==
    {row \in snaps :
        Cardinality({p \in Positions(snaps) : p > row.position}) < SNAPSHOTS_KEPT}

\* Mutant: the fold deletes one entry past the position it stands for.
foldedLogOneMore(log, p) == {row \in log : row.seq > p + 1}

\* fold(): the entries a snapshot at p stands for are deleted, and the
\* snapshots older than the ones kept.
foldedLog(log, p) == {row \in log : row.seq > p}
foldedSnaps(snaps, p, bytes) == KeepNewest(writeSnapshot(snaps, p, bytes))

\* replaceSnapshot's two reasons to refuse an offer.
SnapshotUsable(log, snaps, p) ==
    /\ p <= head(log, snaps)
    /\ p > snapshotPosition(snaps)
=============================================================================
