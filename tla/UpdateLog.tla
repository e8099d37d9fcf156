----------------------------- MODULE UpdateLog ------------------------------
(***************************************************************************)
(* A store's durable engine: the `_updates` relation and what one batch    *)
(* does to it (packages/app/src/data/store/log.ts and idb-updates.ts).     *)
(*                                                                         *)
(* The relation is a set of rows [id, bytes, authoritySeq].  Bytes are the *)
(* set of edits they carry, so merging updates is set union; a whole       *)
(* document re-encode of the folded rows is the union of their bytes.      *)
(***************************************************************************)
EXTENDS Integers, FiniteSets

CONSTANTS Edits,                  \* what an update may carry
          SNAPSHOT_FOLD_THRESHOLD \* rows before a fold or a merge is worth it

ASSUME ThresholdAssumption == SNAPSHOT_FOLD_THRESHOLD \in Nat \ {0, 1}

NULL == -1         \* owed: no authority position yet

Update == SUBSET Edits
Position == Nat \union {NULL}
Row == [id : Nat \ {0}, bytes : Update, authoritySeq : Position]
OutboxEntry == [id : Nat \ {0}, bytes : Update]

AppendOp == [kind : {"append"}, id : Nat \ {0}, bytes : Update, authoritySeq : Position]
AckOp == [kind : {"ack"}, throughId : Nat \ {0}, authoritySeq : Nat \ {0}]
MergeOp == [kind : {"mergeOwed"}, id : Nat \ {0}, replaces : SUBSET (Nat \ {0}),
            bytes : Update]
DurableOp == AppendOp \union AckOp \union MergeOp

\* COALESCE(MAX(column), 0).
MaxOr0(S) == IF S = {} THEN 0 ELSE CHOOSE m \in S : \A x \in S : x <= m

Content(rows) == UNION {row.bytes : row \in rows}

OwedRows(rows) == {row \in rows : row.authoritySeq = NULL}
FoldableRows(rows) == {row \in rows : row.authoritySeq # NULL}

readOutbox(rows) == {[id |-> row.id, bytes |-> row.bytes] : row \in OwedRows(rows)}
readCursor(rows) == MaxOr0({row.authoritySeq : row \in FoldableRows(rows)})
readLastId(rows) == MaxOr0({row.id : row \in rows})

\* Mutant: an acknowledgement that also covers rows written after its submission.
acknowledgeEverything(rows, throughId, seq) ==
    {IF row.authoritySeq = NULL THEN [row EXCEPT !.authoritySeq = seq] ELSE row :
        row \in rows}

\* UPDATE ... WHERE id <= throughId AND authoritySeq IS NULL.
acknowledge(rows, throughId, seq) ==
    {IF row.id <= throughId /\ row.authoritySeq = NULL
       THEN [row EXCEPT !.authoritySeq = seq] ELSE row : row \in rows}

\* One operation of a batch, inside the transaction.
applyOp(rows, op) ==
    CASE op.kind = "append" ->
           rows \union {[id |-> op.id, bytes |-> op.bytes, authoritySeq |-> op.authoritySeq]}
      [] op.kind = "ack" -> acknowledge(rows, op.throughId, op.authoritySeq)
      [] op.kind = "mergeOwed" ->
           {row \in rows : row.id \notin op.replaces}
             \union {[id |-> op.id, bytes |-> op.bytes, authoritySeq |-> NULL]}

\* Mutant: the baseline is the last of the folded rows and not their union.
foldBaselineLastRow(rows) ==
    CHOOSE row \in FoldableRows(rows) : \A other \in FoldableRows(rows) : other.id <= row.id

\* The row a fold leaves: the highest id and the highest position it replaced.
foldBaseline(rows) ==
    [id |-> MaxOr0({row.id : row \in FoldableRows(rows)}),
     bytes |-> Content(FoldableRows(rows)),
     authoritySeq |-> readCursor(rows)]

\* The SQL port asks this once, after the whole batch.
FoldDue(rows) == Cardinality(FoldableRows(rows)) >= SNAPSHOT_FOLD_THRESHOLD

\* An owed row is never folded: its bytes are still to be offered.
fold(rows) ==
    IF FoldDue(rows) THEN OwedRows(rows) \union {foldBaseline(rows)} ELSE rows

\* Mutant: a merged row is not counted beside the rows it replaced.
CountedMergeless(chain, op) ==
    CASE op.kind = "append" -> chain + 1
      [] op.kind = "ack" -> chain
      [] op.kind = "mergeOwed" -> chain - Cardinality(op.replaces)

\* The IndexedDB port never counts its rows: it keeps a running length of the
\* chain, and this is what one operation does to it.
Counted(chain, op) ==
    CASE op.kind = "append" -> chain + 1
      [] op.kind = "ack" -> chain
      [] op.kind = "mergeOwed" -> chain - Cardinality(op.replaces) + 1

\* The IndexedDB port's gate: the batch grew the chain, the count says that the
\* chain is long enough, and enough of the rows it then reads are foldable.
IdbFoldDue(rows, grew, chain) ==
    /\ grew
    /\ chain >= SNAPSHOT_FOLD_THRESHOLD
    /\ Cardinality(FoldableRows(rows)) >= SNAPSHOT_FOLD_THRESHOLD

\* The count the port is left with once the batch landed.
CountedFold(rows, grew, chain) ==
    IF IdbFoldDue(rows, grew, chain)
      THEN chain - Cardinality(FoldableRows(rows)) + 1 ELSE chain
=============================================================================
