------------------------- MODULE PersistenceProofs --------------------------
(***************************************************************************)
(* Proofs about Persistence, for every set of edits, every fold threshold  *)
(* and every number of crashes, refused commits and lost answers.          *)
(*                                                                         *)
(* A commit under way sees the relation `txn.rows` and the operations that *)
(* are still to come; a restart sees `rows`, and a refused commit sees     *)
(* `rows` with every unconfirmed operation again to come.  The inductive   *)
(* invariant says the same of both pairs: of a relation and of the         *)
(* operations that will be applied to it.                                  *)
(***************************************************************************)
EXTENDS Persistence, FiniteSetTheorems, SequenceTheorems, WellFoundedInduction, TLAPS

\* What the current commit has still to apply, and what a refused one would.
Rest == batch \o queue
Pending == applied \o Rest

HasId(op) == op.kind \in {"append", "mergeOwed"}
HasSeq(op) == op.kind = "ack" \/ (op.kind = "append" /\ op.authoritySeq # NULL)

Holds(R, bytes) == \A e \in bytes : \E row \in R : e \in row.bytes
InLog(bytes, log) == \A e \in bytes : \E i \in 1..Len(log) : e \in log[i]

Flight == [throughId : Nat, bytes : Update, position : Nat]

\* Ids name one row each, and are handed out and applied in increasing order.
IdsOrdered(R, ops, next) ==
    /\ \A row \in R : row.id < next
    /\ \A r1, r2 \in R : r1.id = r2.id => r1 = r2
    /\ \A i \in 1..Len(ops) : HasId(ops[i]) =>
          ops[i].id < next /\ \A row \in R : row.id < ops[i].id
    /\ \A i, k \in 1..Len(ops) :
          i < k /\ HasId(ops[i]) /\ HasId(ops[k]) => ops[i].id < ops[k].id

\* A merge is the first operation to come, it replaces owed rows only, whose bytes
\* it carries, and it finds every row it replaces.
MergeSafe(R, ops) ==
    \A i \in 1..Len(ops) : ops[i].kind = "mergeOwed" =>
        /\ i = 1
        /\ \A row \in R : row.id \in ops[i].replaces =>
              row.authoritySeq = NULL /\ row.bytes \subseteq ops[i].bytes
        /\ \A id \in ops[i].replaces : \E row \in R : row.id = id

\* What an acknowledgement that is queued or may still arrive can reach is in
\* the authority's log, or is what the outstanding submission carries.
AcksSafe(R, ops, acked, flight, log) ==
    /\ \A row \in R : row.authoritySeq # NULL \/ row.id <= acked => InLog(row.bytes, log)
    /\ \A row \in R : row.authoritySeq = NULL /\ row.id <= flight.throughId =>
          \A e \in row.bytes : e \in flight.bytes \/ InLog({e}, log)
    /\ \A i \in 1..Len(ops) :
          /\ HasId(ops[i]) => ops[i].id > acked /\ ops[i].id > flight.throughId
          /\ ops[i].kind = "append" /\ ops[i].authoritySeq # NULL => InLog(ops[i].bytes, log)
          /\ ops[i].kind = "ack" => ops[i].throughId <= acked

\* Before a position is recorded, the bytes of every position up to it are held
\* or come first.
CursorSafe(R, ops, log) ==
    /\ \A row \in R : row.authoritySeq # NULL =>
          /\ row.authoritySeq <= Len(log)
          /\ \A j \in 1..row.authoritySeq : Holds(R, log[j])
    /\ \A i \in 1..Len(ops) : HasSeq(ops[i]) =>
          /\ ops[i].authoritySeq \in 1..Len(log)
          /\ \A j \in 1..ops[i].authoritySeq :
                \/ Holds(R, log[j])
                \/ \E k \in 1..i : ops[k].kind = "append" /\ ops[k].bytes = log[j]

\* Everything the client has read is held or to come.
ReadKept(R, ops, log, read) ==
    \A j \in 1..read :
        \/ Holds(R, log[j])
        \/ \E k \in 1..Len(ops) : ops[k].kind = "append" /\ ops[k].bytes = log[j]

\* The document is what is held and what is to come.
DocKept(R, ops, d) ==
    \A e \in Edits : e \in d <=> \/ \E row \in R : e \in row.bytes
                                 \/ \E k \in 1..Len(ops) : HasId(ops[k]) /\ e \in ops[k].bytes

\* All of it: of a relation and the operations to come, in a session that has
\* handed out ids below `next`; `kept` unless the session's work was discarded.
ComingIn(R, ops, next, acked, flight, log, kept, read, d) ==
    /\ R \in SUBSET Row /\ IsFiniteSet(R)
    /\ IdsOrdered(R, ops, next)
    /\ MergeSafe(R, ops)
    /\ AcksSafe(R, ops, acked, flight, log)
    /\ CursorSafe(R, ops, log)
    /\ kept => ReadKept(R, ops, log, read) /\ DocKept(R, ops, d)

Coming(R, ops) ==
    ComingIn(R, ops, nextId, acknowledgedThroughId, inflight, server, ~discarded,
             clientCursor, doc)

\* Everything the file holds is still held by the transaction, and what the
\* transaction added to the owed rows has a higher id than any of the file's.
NothingDropped ==
    /\ \A row \in rows : /\ Holds(txn.rows, row.bytes)
                         /\ \E other \in txn.rows : row.id <= other.id
    /\ ~txn.grew => FoldableRows(txn.rows) \subseteq FoldableRows(rows)
    /\ ~discarded => txn.outbox = readOutbox(txn.rows)
    /\ applied = <<>> => txn.rows = rows
    /\ \A row \in OwedRows(txn.rows) : row \in rows \/ \A old \in rows : old.id < row.id

FlightSafe ==
    /\ inflight.position # 0 =>
         inflight.position \in 1..Len(server) /\ server[inflight.position] = inflight.bytes
    /\ Holds(rows, inflight.bytes)
    /\ inflight.throughId < nextId /\ acknowledgedThroughId < nextId
    /\ closed => inflight = None
    /\ inflight # None => inflight.throughId # 0
    /\ discarded => closed /\ queue = <<>>
    /\ clientCursor <= Len(server)

PhaseSafe ==
    /\ phase # "committing" => applied = <<>> /\ batch = <<>>
    /\ phase = "idle" /\ queue # <<>> => failedLast
    /\ ~FoldDue(rows)

IInv ==
    /\ TypeOK
    /\ Coming(rows, Pending)
    /\ phase = "committing" => Coming(txn.rows, Rest) /\ NothingDropped
    /\ MirrorFaithful
    /\ FlightSafe
    /\ PhaseSafe
-----------------------------------------------------------------------------
(* Lemmas about the engine's operators *)

\* A bounded nonempty set of numbers has a greatest element, which MaxOr0 finds.
LEMMA BoundedHasMax ==
    ASSUME NEW S \in SUBSET Nat, S # {}, NEW b \in Nat, \A x \in S : x <= b
    PROVE  \E m \in S : \A x \in S : x <= m
<1>. DEFINE U == {n \in Nat : \A x \in S : x <= n}
<1>1. U \subseteq Nat /\ U # {}
  OBVIOUS
<1>2. IsWellFoundedOn(OpToRel(<, Nat), Nat)
  BY NatLessThanWellFounded
<1>. DEFINE Less == OpToRel(<, Nat)
<1>3. \E m \in U : \A y \in U : ~(<<y, m>> \in Less)
  <2>1. IsWellFoundedOn(Less, Nat)
    BY <1>2
  <2>. HIDE DEF U, Less
  <2>. QED
    BY <1>1, <2>1, WFMin
<1>4. PICK m \in U : \A y \in U : ~(y < m)
  <2>1. \A y, m \in Nat : <<y, m>> \in Less <=> y < m
    BY DEF OpToRel
  <2>. HIDE DEF Less
  <2>. QED
    BY <1>3, <2>1
<1>5. m \in S
  <2>. SUFFICES ASSUME m \notin S PROVE FALSE
    OBVIOUS
  <2>1. \A x \in S : x <= m - 1
    OBVIOUS
  <2>2. m - 1 \in Nat
    <3>1. PICK x \in S : x \in Nat
      OBVIOUS
    <3>2. x <= m - 1
      BY <2>1
    <3>. QED
      BY <3>2
  <2>3. m - 1 \in U
    BY <2>1, <2>2
  <2>. QED
    BY <1>4, <2>3
<1>. QED
  BY <1>5

LEMMA MaxOr0Finds ==
    ASSUME NEW S \in SUBSET Nat, NEW b \in Nat, \A x \in S : x <= b
    PROVE  /\ MaxOr0(S) \in Nat
           /\ MaxOr0(S) <= b
           /\ \A x \in S : x <= MaxOr0(S)
           /\ S # {} => MaxOr0(S) \in S
<1>1. CASE S = {}
  BY <1>1 DEF MaxOr0
<1>2. CASE S # {}
  <2>1. \E m \in S : \A x \in S : x <= m
    BY <1>2, BoundedHasMax
  <2>. QED
    BY <1>2, <2>1 DEF MaxOr0
<1>. QED
  BY <1>1, <1>2

LEMMA HoldsIsContent ==
    ASSUME NEW R, NEW bytes
    PROVE  Holds(R, bytes) <=> bytes \subseteq Content(R)
BY DEF Holds, Content

\* A row of the relation and an operation, taken apart.
LEMMA OpShape ==
    ASSUME NEW op \in DurableOp
    PROVE  /\ op.kind \in {"append", "ack", "mergeOwed"}
           /\ HasId(op) => op.id \in Nat \ {0} /\ op.bytes \in Update
           /\ op.kind = "append" => op.authoritySeq \in Position
           /\ op.kind = "ack" => op.throughId \in Nat \ {0} /\ op.authoritySeq \in Nat \ {0}
           /\ HasSeq(op) => op.authoritySeq \in Nat
BY DEF DurableOp, AppendOp, AckOp, MergeOp, HasId, HasSeq, Position, NULL

\* The rows after an acknowledgement, one by one.
LEMMA AcknowledgeRows ==
    ASSUME NEW R \in SUBSET Row, NEW t \in Nat, NEW q \in Nat
    PROVE  /\ acknowledge(R, t, q) \in SUBSET Row
           /\ \A row \in acknowledge(R, t, q) : \E old \in R :
                /\ row.id = old.id /\ row.bytes = old.bytes
                /\ IF old.id <= t /\ old.authoritySeq = NULL
                     THEN row.authoritySeq = q ELSE row = old
           /\ \A old \in R : \E row \in acknowledge(R, t, q) :
                /\ row.id = old.id /\ row.bytes = old.bytes
                /\ IF old.id <= t /\ old.authoritySeq = NULL
                     THEN row.authoritySeq = q ELSE row = old
<1>. DEFINE A(old) == IF old.id <= t /\ old.authoritySeq = NULL
                        THEN [old EXCEPT !.authoritySeq = q] ELSE old
<1>1. \A old \in R : /\ A(old) \in Row /\ A(old).id = old.id /\ A(old).bytes = old.bytes
                     /\ IF old.id <= t /\ old.authoritySeq = NULL
                          THEN A(old).authoritySeq = q ELSE A(old) = old
  BY DEF Row, Position
<1>2. acknowledge(R, t, q) = {A(old) : old \in R}
  BY DEF acknowledge
<1>. HIDE DEF A
<1>. QED
  BY <1>1, <1>2
SeqOf(op) == IF op.kind = "append" THEN op.authoritySeq ELSE NULL

\* What one operation makes of a relation: a row comes from a row or from the
\* operation, and a row stays unless a merge replaces it.
LEMMA ApplyShape ==
    ASSUME NEW R \in SUBSET Row, NEW op \in DurableOp
    PROVE  /\ applyOp(R, op) \in SUBSET Row
           /\ \A row \in applyOp(R, op) :
                \/ row \in R
                \/ /\ op.kind = "ack"
                   /\ \E old \in R :
                        /\ row.id = old.id /\ row.bytes = old.bytes
                        /\ old.id <= op.throughId /\ old.authoritySeq = NULL
                        /\ row.authoritySeq = op.authoritySeq
                \/ /\ HasId(op)
                   /\ row.id = op.id /\ row.bytes = op.bytes /\ row.authoritySeq = SeqOf(op)
           /\ \A old \in R :
                \/ old \in applyOp(R, op)
                \/ op.kind = "mergeOwed" /\ old.id \in op.replaces
                \/ /\ op.kind = "ack" /\ old.id <= op.throughId /\ old.authoritySeq = NULL
                   /\ \E row \in applyOp(R, op) :
                        /\ row.id = old.id /\ row.bytes = old.bytes
                        /\ row.authoritySeq = op.authoritySeq
           /\ HasId(op) => \E row \in applyOp(R, op) :
                /\ row.id = op.id /\ row.bytes = op.bytes /\ row.authoritySeq = SeqOf(op)
           /\ op.kind = "mergeOwed" => \A old \in applyOp(R, op) :
                old.id \in op.replaces => old.id = op.id /\ old.bytes = op.bytes
<1>1. CASE op.kind = "append"
  <2>. DEFINE new == [id |-> op.id, bytes |-> op.bytes, authoritySeq |-> op.authoritySeq]
  <2>1. applyOp(R, op) = R \union {new}
    BY <1>1 DEF applyOp
  <2>2. /\ new \in Row /\ new.id = op.id /\ new.bytes = op.bytes
        /\ new.authoritySeq = SeqOf(op)
    BY <1>1, OpShape DEF Row, HasId, SeqOf
  <2>3. HasId(op) /\ op.kind # "ack" /\ op.kind # "mergeOwed"
    BY <1>1 DEF HasId
  <2>. HIDE DEF new
  <2>. QED
    BY <2>1, <2>2, <2>3
<1>2. CASE op.kind = "ack"
  <2>1. applyOp(R, op) = acknowledge(R, op.throughId, op.authoritySeq)
    BY <1>2 DEF applyOp
  <2>2. op.throughId \in Nat /\ op.authoritySeq \in Nat /\ ~HasId(op)
    BY <1>2, OpShape DEF HasId
  <2>3. /\ applyOp(R, op) \in SUBSET Row
        /\ \A row \in applyOp(R, op) : \E old \in R :
                /\ row.id = old.id /\ row.bytes = old.bytes
                /\ IF old.id <= op.throughId /\ old.authoritySeq = NULL
                     THEN row.authoritySeq = op.authoritySeq ELSE row = old
        /\ \A old \in R : \E row \in applyOp(R, op) :
                /\ row.id = old.id /\ row.bytes = old.bytes
                /\ IF old.id <= op.throughId /\ old.authoritySeq = NULL
                     THEN row.authoritySeq = op.authoritySeq ELSE row = old
    BY <2>1, <2>2, AcknowledgeRows
  <2>. QED
    BY <1>2, <2>2, <2>3
<1>3. CASE op.kind = "mergeOwed"
  <2>. DEFINE new == [id |-> op.id, bytes |-> op.bytes, authoritySeq |-> NULL]
  <2>1. applyOp(R, op) = {row \in R : row.id \notin op.replaces} \union {new}
    BY <1>3 DEF applyOp
  <2>2. /\ new \in Row /\ new.id = op.id /\ new.bytes = op.bytes
        /\ new.authoritySeq = SeqOf(op)
    BY <1>3, OpShape DEF Row, HasId, SeqOf, Position
  <2>3. HasId(op) /\ op.kind # "ack"
    BY <1>3 DEF HasId
  <2>. HIDE DEF new
  <2>. QED
    BY <1>3, <2>1, <2>2, <2>3
<1>. QED
  BY <1>1, <1>2, <1>3, OpShape

\* Where a row after the operation comes from.
LEMMA ApplyRow ==
    ASSUME NEW R \in SUBSET Row, NEW op \in DurableOp, NEW row \in applyOp(R, op)
    PROVE  \/ row \in R
           \/ /\ op.kind = "ack"
              /\ \E old \in R :
                   /\ row.id = old.id /\ row.bytes = old.bytes
                   /\ old.id <= op.throughId /\ old.authoritySeq = NULL
                   /\ row.authoritySeq = op.authoritySeq
           \/ /\ HasId(op)
              /\ row.id = op.id /\ row.bytes = op.bytes /\ row.authoritySeq = SeqOf(op)
BY ApplyShape

LEMMA ApplyFinite ==
    ASSUME NEW R \in SUBSET Row, IsFiniteSet(R), NEW op \in DurableOp
    PROVE  IsFiniteSet(applyOp(R, op))
<1>1. CASE op.kind = "append"
  <2>1. PICK new : applyOp(R, op) = R \union {new}
    BY <1>1 DEF applyOp
  <2>. QED
    BY <2>1, FS_AddElement
<1>2. CASE op.kind = "ack"
  <2>. DEFINE A(old) == IF old.id <= op.throughId /\ old.authoritySeq = NULL
                          THEN [old EXCEPT !.authoritySeq = op.authoritySeq] ELSE old
  <2>. DEFINE f == [old \in R |-> A(old)]
  <2>. DEFINE T == {A(old) : old \in R}
  <2>1. applyOp(R, op) = T
    BY <1>2 DEF applyOp, acknowledge
  <2>2. f \in Surjection(R, T)
    <3>. HIDE DEF A
    <3>. QED
      BY DEF Surjection
  <2>. HIDE DEF f, T
  <2>. QED
    BY <2>1, <2>2, FS_Surjection
<1>3. CASE op.kind = "mergeOwed"
  <2>1. IsFiniteSet({row \in R : row.id \notin op.replaces})
    BY FS_Subset
  <2>. QED
    BY <1>3, <2>1, FS_AddElement DEF applyOp
<1>. QED
  BY <1>1, <1>2, <1>3, OpShape
LEMMA HeadAndTail ==
    ASSUME NEW ops \in Seq(DurableOp), ops # <<>>
    PROVE  /\ Head(ops) = ops[1] /\ Head(ops) \in DurableOp
           /\ Tail(ops) \in Seq(DurableOp)
           /\ Len(ops) \in Nat \ {0} /\ Len(Tail(ops)) = Len(ops) - 1
           /\ \A i \in 1..Len(Tail(ops)) : i + 1 \in 1..Len(ops) /\ Tail(ops)[i] = ops[i + 1]
           /\ \A i \in 1..Len(ops) : ops[i] \in DurableOp
BY EmptySeq, HeadTailProperties, ElementOfSeq, LenProperties

\* Applying the first operation adds its bytes and loses none.
LEMMA ApplyHolds ==
    ASSUME NEW R \in SUBSET Row, NEW ops \in Seq(DurableOp), ops # <<>>,
           MergeSafe(R, ops), NEW e
    PROVE  (\E row \in applyOp(R, Head(ops)) : e \in row.bytes)
             <=> \/ \E row \in R : e \in row.bytes
                 \/ HasId(Head(ops)) /\ e \in Head(ops).bytes
<1>. DEFINE op == Head(ops)
<1>1. op = ops[1] /\ op \in DurableOp /\ 1 \in 1..Len(ops)
  BY HeadAndTail
<1>2. op.kind = "mergeOwed" => \A row \in R : row.id \in op.replaces => row.bytes \subseteq op.bytes
  BY <1>1 DEF MergeSafe
<1>3. op.kind = "mergeOwed" => HasId(op)
  BY DEF HasId
<1>. HIDE DEF op
<1>. QED
  BY <1>1, <1>2, <1>3, ApplyShape DEF op

LEMMA ApplyIds ==
    ASSUME NEW R \in SUBSET Row, NEW ops \in Seq(DurableOp), ops # <<>>, NEW next \in Nat,
           IdsOrdered(R, ops, next)
    PROVE  IdsOrdered(applyOp(R, Head(ops)), Tail(ops), next)
<1>. DEFINE op == Head(ops)
<1>1. op = ops[1] /\ op \in DurableOp /\ 1 \in 1..Len(ops)
  BY HeadAndTail
<1>. HIDE DEF op
<1>2. HasId(op) => op.id < next /\ \A row \in R : row.id < op.id
  BY <1>1 DEF IdsOrdered
<1>3. \A row \in applyOp(R, op) :
          (\E old \in R : row.id = old.id) \/ (HasId(op) /\ row.id = op.id)
  BY <1>1, ApplyShape
<1>4. \A row \in applyOp(R, op) : row.id < next
  BY <1>2, <1>3 DEF IdsOrdered
<1>5. \A r1, r2 \in applyOp(R, op) : r1.id = r2.id => r1 = r2
  <2>. SUFFICES ASSUME NEW r1 \in applyOp(R, op), NEW r2 \in applyOp(R, op), r1.id = r2.id
                PROVE  r1 = r2
    OBVIOUS
  <2>1. r1 \in Row /\ r2 \in Row
    BY <1>1, ApplyShape
  <2>2. r1.bytes = r2.bytes /\ r1.authoritySeq = r2.authoritySeq
    <3>1. \A row \in R : row.id \in Nat
      BY DEF Row
    <3>2. HasId(op) => op.kind # "ack" /\ op.id \in Nat /\ \A row \in R : row.id # op.id
      BY <1>1, <1>2, <3>1, OpShape DEF HasId
    <3>3. \A o1, o2 \in R : o1.id = o2.id => o1 = o2
      BY DEF IdsOrdered
    <3>4. CASE HasId(op)
      <4>1. ASSUME NEW row \in applyOp(R, op)
            PROVE  \/ row \in R
                   \/ row.id = op.id /\ row.bytes = op.bytes /\ row.authoritySeq = SeqOf(op)
        <5>1. op.kind # "ack"
          BY <3>2, <3>4
        <5>. QED
          BY <1>1, <5>1, ApplyShape
      <4>. QED
        BY <3>2, <3>3, <3>4, <4>1
    <3>5. CASE op.kind = "ack"
      <4>1. applyOp(R, op) = acknowledge(R, op.throughId, op.authoritySeq)
        BY <3>5 DEF applyOp
      <4>2. \A row \in applyOp(R, op) : \E old \in R :
                /\ row.id = old.id /\ row.bytes = old.bytes
                /\ IF old.id <= op.throughId /\ old.authoritySeq = NULL
                     THEN row.authoritySeq = op.authoritySeq ELSE row = old
        <5>1. op.throughId \in Nat /\ op.authoritySeq \in Nat
          BY <1>1, <3>5, OpShape
        <5>. QED
          BY <4>1, <5>1, AcknowledgeRows
      <4>. QED
        BY <3>3, <4>2
    <3>. QED
      BY <1>1, <3>4, <3>5, OpShape DEF HasId
  <2>. QED
    BY <2>1, <2>2 DEF Row
<1>6. ASSUME NEW i \in 1..Len(Tail(ops)), HasId(Tail(ops)[i])
      PROVE  Tail(ops)[i].id < next /\ \A row \in applyOp(R, op) : row.id < Tail(ops)[i].id
  <2>1. i + 1 \in 1..Len(ops) /\ Tail(ops)[i] = ops[i + 1] /\ 1 < i + 1
    BY HeadAndTail
  <2>2. ops[i + 1].id < next /\ \A row \in R : row.id < ops[i + 1].id
    BY <1>6, <2>1 DEF IdsOrdered
  <2>3. HasId(op) => op.id < ops[i + 1].id
    BY <1>1, <1>6, <2>1 DEF IdsOrdered
  <2>. QED
    BY <1>3, <2>1, <2>2, <2>3
<1>7. \A i, k \in 1..Len(Tail(ops)) :
          i < k /\ HasId(Tail(ops)[i]) /\ HasId(Tail(ops)[k]) => Tail(ops)[i].id < Tail(ops)[k].id
  BY HeadAndTail DEF IdsOrdered
<1>8. IdsOrdered(applyOp(R, op), Tail(ops), next)
  BY <1>4, <1>5, <1>6, <1>7 DEF IdsOrdered
<1>. QED
  BY <1>8 DEF op

LEMMA ApplyMerge ==
    ASSUME NEW R, NEW S, NEW ops \in Seq(DurableOp), ops # <<>>, MergeSafe(R, ops)
    PROVE  MergeSafe(S, Tail(ops))
<1>1. \A i \in 1..Len(Tail(ops)) : Tail(ops)[i].kind # "mergeOwed"
  BY HeadAndTail DEF MergeSafe
<1>. QED
  BY <1>1 DEF MergeSafe
\* Rows with ids of their own are as many as their ids.
LEMMA IdsCount ==
    ASSUME NEW R \in SUBSET Row, IsFiniteSet(R), \A r1, r2 \in R : r1.id = r2.id => r1 = r2
    PROVE  LET ids == {row.id : row \in R}
           IN  IsFiniteSet(ids) /\ Cardinality(ids) = Cardinality(R)
<1>. DEFINE ids == {row.id : row \in R}
            f == [row \in R |-> row.id]
<1>1. f \in Bijection(R, ids)
  BY DEF Bijection, Injection, IsInjective, Surjection
<1>2. ExistsBijection(R, ids)
  BY <1>1 DEF ExistsBijection
<1>. HIDE DEF ids
<1>3. IsFiniteSet(ids) /\ Cardinality(ids) = Cardinality(R)
  BY <1>2, FS_Bijection
<1>. QED
  BY <1>3 DEF ids

\* What a merge deletes is as many rows as it names.
LEMMA MergeDeletes ==
    ASSUME NEW R \in SUBSET Row, IsFiniteSet(R), NEW ops \in Seq(DurableOp), ops # <<>>,
           NEW next, IdsOrdered(R, ops, next), MergeSafe(R, ops),
           Head(ops).kind = "mergeOwed"
    PROVE  LET gone == {row \in R : row.id \in Head(ops).replaces}
           IN  /\ IsFiniteSet(gone) /\ Cardinality(gone) = Cardinality(Head(ops).replaces)
               /\ Cardinality(Head(ops).replaces) \in Nat
<1>. DEFINE op == Head(ops)
            gone == {row \in R : row.id \in op.replaces}
            ids == {row.id : row \in gone}
<1>1. op = ops[1] /\ op \in DurableOp /\ 1 \in 1..Len(ops)
  BY HeadAndTail
<1>2. \A id \in op.replaces : \E row \in R : row.id = id
  BY <1>1 DEF MergeSafe
<1>3. ids = op.replaces
  BY <1>2
<1>4. /\ gone \in SUBSET Row /\ gone \in SUBSET R
      /\ \A r1, r2 \in gone : r1.id = r2.id => r1 = r2
  BY DEF IdsOrdered
<1>. HIDE DEF gone
<1>5. IsFiniteSet(gone)
  BY <1>4, FS_Subset
<1>6. IsFiniteSet(ids) /\ Cardinality(ids) = Cardinality(gone)
  BY <1>4, <1>5, IdsCount
<1>7. Cardinality(gone) \in Nat
  BY <1>5, FS_CardinalityType
<1>. HIDE DEF ids
<1>. QED
  BY <1>3, <1>5, <1>6, <1>7 DEF gone

\* The IndexedDB port's count follows the relation through every operation.
LEMMA CountedApply ==
    ASSUME NEW R \in SUBSET Row, IsFiniteSet(R), NEW ops \in Seq(DurableOp), ops # <<>>,
           NEW next \in Nat, IdsOrdered(R, ops, next), MergeSafe(R, ops)
    PROVE  /\ Counted(Cardinality(R), Head(ops)) = Cardinality(applyOp(R, Head(ops)))
           /\ \A chain \in Int : Counted(chain, Head(ops)) \in Int
<1>. DEFINE op == Head(ops)
            T == applyOp(R, op)
<1>1. op = ops[1] /\ op \in DurableOp /\ 1 \in 1..Len(ops)
  BY HeadAndTail
<1>2. /\ T \in SUBSET Row /\ IsFiniteSet(T) /\ IdsOrdered(T, Tail(ops), next)
      /\ Cardinality(R) \in Nat
  BY <1>1, ApplyShape, ApplyFinite, ApplyIds, FS_CardinalityType
<1>3. HasId(op) => op.id \in Nat /\ \A row \in R : row.id \in Nat /\ row.id < op.id
  BY <1>1, OpShape DEF IdsOrdered, Row
<1>4. CASE op.kind = "append"
  <2>. DEFINE new == [id |-> op.id, bytes |-> op.bytes, authoritySeq |-> op.authoritySeq]
  <2>1. T = R \union {new} /\ new.id = op.id
    BY <1>4 DEF applyOp
  <2>2. new \notin R
    <3>1. HasId(op)
      BY <1>4 DEF HasId
    <3>. HIDE DEF new
    <3>. QED
      BY <1>3, <2>1, <3>1
  <2>. HIDE DEF new
  <2>3. Cardinality(T) = Cardinality(R) + 1
    BY <2>1, <2>2, FS_AddElement
  <2>4. \A chain : Counted(chain, op) = chain + 1
    BY <1>4 DEF Counted
  <2>. QED
    BY <2>3, <2>4
<1>5. CASE op.kind = "ack"
  <2>1. \A chain : Counted(chain, op) = chain
    BY <1>5 DEF Counted
  <2>2. {row.id : row \in T} = {row.id : row \in R}
    <3>1. ~HasId(op) /\ op.kind # "mergeOwed"
      BY <1>5 DEF HasId
    <3>2. \A row \in T : \E old \in R : row.id = old.id
      BY <1>1, <3>1, ApplyShape
    <3>3. \A old \in R : \E row \in T : row.id = old.id
      BY <1>1, <3>1, ApplyShape
    <3>. HIDE DEF T
    <3>. QED
      BY <3>2, <3>3
  <2>3. Cardinality({row.id : row \in R}) = Cardinality(R)
    BY IdsCount DEF IdsOrdered
  <2>4. Cardinality({row.id : row \in T}) = Cardinality(T)
    <3>1. \A r1, r2 \in T : r1.id = r2.id => r1 = r2
      BY <1>2 DEF IdsOrdered
    <3>. HIDE DEF T
    <3>. QED
      BY <1>2, <3>1, IdsCount
  <2>. QED
    BY <2>1, <2>2, <2>3, <2>4
<1>6. CASE op.kind = "mergeOwed"
  <2>. DEFINE new == [id |-> op.id, bytes |-> op.bytes, authoritySeq |-> NULL]
              gone == {row \in R : row.id \in op.replaces}
              left == {row \in R : row.id \notin op.replaces}
  <2>1. T = left \union {new} /\ new.id = op.id
    BY <1>6 DEF applyOp
  <2>2. /\ IsFiniteSet(gone) /\ Cardinality(gone) = Cardinality(op.replaces)
        /\ Cardinality(op.replaces) \in Nat
    BY <1>6, MergeDeletes
  <2>3. R \cap gone = gone /\ R \ gone = left
    OBVIOUS
  <2>4. new \notin left
    <3>1. HasId(op)
      BY <1>6 DEF HasId
    <3>. HIDE DEF new
    <3>. QED
      BY <1>3, <2>1, <3>1
  <2>5. \A chain : Counted(chain, op) = chain - Cardinality(op.replaces) + 1
    BY <1>6 DEF Counted
  <2>. HIDE DEF new, gone, left, op, T
  <2>6. IsFiniteSet(left) /\ Cardinality(left) = Cardinality(R) - Cardinality(gone)
    <3>1. IsFiniteSet(R \ gone) /\ Cardinality(R \ gone) = Cardinality(R) - Cardinality(R \cap gone)
      BY FS_Difference
    <3>. QED
      BY <2>3, <3>1
  <2>7. Cardinality(T) = Cardinality(left) + 1
    BY <2>1, <2>4, <2>6, FS_AddElement
  <2>8. Counted(Cardinality(R), op) = Cardinality(T)
    BY <1>2, <2>2, <2>5, <2>6, <2>7
  <2>9. \A chain \in Int : Counted(chain, op) \in Int
    BY <2>2, <2>5
  <2>. QED
    BY <2>8, <2>9 DEF op, T
<1>. QED
  BY <1>1, <1>4, <1>5, <1>6, OpShape

LEMMA ApplyAcks ==
    ASSUME NEW R \in SUBSET Row, NEW ops \in Seq(DurableOp), ops # <<>>,
           NEW acked \in Nat, NEW flight \in Flight, NEW log \in Seq(Update),
           AcksSafe(R, ops, acked, flight, log)
    PROVE  AcksSafe(applyOp(R, Head(ops)), Tail(ops), acked, flight, log)
<1>. DEFINE op == Head(ops)
<1>1. op = ops[1] /\ op \in DurableOp /\ 1 \in 1..Len(ops)
  BY HeadAndTail
<1>. HIDE DEF op
<1>2. /\ HasId(op) => op.id > acked /\ op.id > flight.throughId /\ op.id \in Nat
      /\ op.kind = "append" /\ op.authoritySeq # NULL => InLog(op.bytes, log)
      /\ op.kind = "ack" => op.throughId <= acked /\ op.throughId \in Nat /\ op.authoritySeq # NULL
  BY <1>1, OpShape DEF AcksSafe, NULL
<1>3. flight.throughId \in Nat
  BY DEF Flight
<1>4. \A row \in R : row.id \in Nat
  BY DEF Row
<1>5. ASSUME NEW row \in applyOp(R, op)
      PROVE  /\ row.authoritySeq # NULL \/ row.id <= acked => InLog(row.bytes, log)
             /\ row.authoritySeq = NULL /\ row.id <= flight.throughId =>
                   \A e \in row.bytes : e \in flight.bytes \/ InLog({e}, log)
  <2>1. CASE row \in R
    BY <2>1 DEF AcksSafe
  <2>2. CASE /\ op.kind = "ack"
             /\ \E old \in R : /\ row.id = old.id /\ row.bytes = old.bytes
                               /\ old.id <= op.throughId /\ old.authoritySeq = NULL
                               /\ row.authoritySeq = op.authoritySeq
    <3>1. PICK old \in R : /\ row.id = old.id /\ row.bytes = old.bytes
                           /\ old.id <= op.throughId /\ row.authoritySeq = op.authoritySeq
      BY <2>2
    <3>2. old.id <= acked
      BY <1>2, <1>4, <2>2, <3>1
    <3>3. InLog(old.bytes, log)
      BY <3>2 DEF AcksSafe
    <3>. QED
      BY <1>2, <2>2, <3>1, <3>3
  <2>3. CASE /\ HasId(op) /\ row.id = op.id /\ row.bytes = op.bytes
             /\ row.authoritySeq = SeqOf(op)
    <3>1. ~(row.id <= acked) /\ ~(row.id <= flight.throughId)
      BY <1>2, <1>3, <2>3
    <3>2. row.authoritySeq # NULL => InLog(row.bytes, log)
      BY <1>2, <2>3 DEF SeqOf
    <3>. QED
      BY <3>1, <3>2
  <2>. QED
    BY <1>1, <2>1, <2>2, <2>3, ApplyRow
<1>6. \A i \in 1..Len(Tail(ops)) :
          /\ HasId(Tail(ops)[i]) => Tail(ops)[i].id > acked /\ Tail(ops)[i].id > flight.throughId
          /\ Tail(ops)[i].kind = "append" /\ Tail(ops)[i].authoritySeq # NULL
                => InLog(Tail(ops)[i].bytes, log)
          /\ Tail(ops)[i].kind = "ack" => Tail(ops)[i].throughId <= acked
  BY HeadAndTail DEF AcksSafe
<1>7. AcksSafe(applyOp(R, op), Tail(ops), acked, flight, log)
  BY <1>5, <1>6 DEF AcksSafe
<1>. QED
  BY <1>7 DEF op

LEMMA ApplyCursor ==
    ASSUME NEW R \in SUBSET Row, NEW ops \in Seq(DurableOp), ops # <<>>,
           NEW log \in Seq(Update), MergeSafe(R, ops), CursorSafe(R, ops, log)
    PROVE  CursorSafe(applyOp(R, Head(ops)), Tail(ops), log)
<1>. DEFINE op == Head(ops)
<1>. DEFINE S == applyOp(R, op)
<1>1. op = ops[1] /\ op \in DurableOp /\ 1 \in 1..Len(ops)
  BY HeadAndTail
<1>2. \A bytes : Holds(R, bytes) => Holds(S, bytes)
  BY ApplyHolds DEF Holds
<1>3. HasId(op) => Holds(S, op.bytes)
  BY ApplyHolds DEF Holds
<1>4. op.kind = "append" => HasId(op)
  BY DEF HasId
<1>5. \A row \in S : \/ row \in R
                     \/ HasSeq(op) /\ row.authoritySeq = op.authoritySeq
                     \/ row.authoritySeq = NULL
  <2>. HIDE DEF op
  <2>. QED
    BY <1>1, ApplyShape, OpShape DEF SeqOf, HasSeq, HasId
<1>. HIDE DEF op, S
<1>6. ASSUME NEW row \in S, row.authoritySeq # NULL
      PROVE  row.authoritySeq <= Len(log) /\ \A j \in 1..row.authoritySeq : Holds(S, log[j])
  <2>1. CASE row \in R
    BY <1>2, <1>6, <2>1 DEF CursorSafe
  <2>2. CASE HasSeq(op) /\ row.authoritySeq = op.authoritySeq
    <3>1. /\ op.authoritySeq \in 1..Len(log)
          /\ \A j \in 1..op.authoritySeq :
                \/ Holds(R, log[j])
                \/ \E k \in 1..1 : ops[k].kind = "append" /\ ops[k].bytes = log[j]
      BY <1>1, <2>2 DEF CursorSafe
    <3>2. \A j \in 1..op.authoritySeq :
             Holds(R, log[j]) \/ (op.kind = "append" /\ op.bytes = log[j])
      BY <1>1, <3>1
    <3>. QED
      BY <1>2, <1>3, <1>4, <2>2, <3>1, <3>2
  <2>. QED
    BY <1>5, <1>6, <2>1, <2>2
<1>7. ASSUME NEW i \in 1..Len(Tail(ops)), HasSeq(Tail(ops)[i])
      PROVE  /\ Tail(ops)[i].authoritySeq \in 1..Len(log)
             /\ \A j \in 1..Tail(ops)[i].authoritySeq :
                \/ Holds(S, log[j])
                \/ \E k \in 1..i : Tail(ops)[k].kind = "append" /\ Tail(ops)[k].bytes = log[j]
  <2>1. i + 1 \in 1..Len(ops) /\ Tail(ops)[i] = ops[i + 1]
    BY HeadAndTail
  <2>2. /\ ops[i + 1].authoritySeq \in 1..Len(log)
        /\ \A j \in 1..ops[i + 1].authoritySeq :
                \/ Holds(R, log[j])
                \/ \E k \in 1..(i + 1) : ops[k].kind = "append" /\ ops[k].bytes = log[j]
    BY <1>7, <2>1 DEF CursorSafe
  <2>3. ASSUME NEW j \in 1..ops[i + 1].authoritySeq
        PROVE  \/ Holds(S, log[j])
               \/ \E k \in 1..i : Tail(ops)[k].kind = "append" /\ Tail(ops)[k].bytes = log[j]
    <3>1. CASE Holds(R, log[j])
      BY <1>2, <3>1
    <3>2. ASSUME NEW k \in 1..(i + 1), ops[k].kind = "append", ops[k].bytes = log[j]
          PROVE  \/ Holds(S, log[j])
                 \/ \E m \in 1..i : Tail(ops)[m].kind = "append" /\ Tail(ops)[m].bytes = log[j]
      <4>1. CASE k = 1
        BY <1>1, <1>3, <1>4, <3>2, <4>1
      <4>2. CASE k # 1
        <5>1. k - 1 \in 1..i /\ k - 1 \in 1..Len(Tail(ops)) /\ Tail(ops)[k - 1] = ops[(k - 1) + 1]
          BY <4>2, HeadAndTail
        <5>. QED
          BY <3>2, <5>1
      <4>. QED
        BY <4>1, <4>2
    <3>. QED
      BY <2>2, <3>1, <3>2
  <2>. QED
    BY <2>1, <2>2, <2>3
<1>8. CursorSafe(S, Tail(ops), log)
  BY <1>6, <1>7 DEF CursorSafe
<1>. QED
  BY <1>8 DEF op, S

LEMMA ApplyRead ==
    ASSUME NEW R \in SUBSET Row, NEW ops \in Seq(DurableOp), ops # <<>>,
           NEW log, NEW read, MergeSafe(R, ops), ReadKept(R, ops, log, read)
    PROVE  ReadKept(applyOp(R, Head(ops)), Tail(ops), log, read)
<1>. DEFINE op == Head(ops)
<1>. DEFINE S == applyOp(R, op)
<1>1. op = ops[1]
  BY HeadAndTail
<1>2. \A bytes : Holds(R, bytes) => Holds(S, bytes)
  BY ApplyHolds DEF Holds
<1>3. op.kind = "append" => Holds(S, op.bytes)
  BY ApplyHolds DEF Holds, HasId
<1>. HIDE DEF op, S
<1>4. ASSUME NEW j \in 1..read
      PROVE  \/ Holds(S, log[j])
             \/ \E k \in 1..Len(Tail(ops)) :
                  Tail(ops)[k].kind = "append" /\ Tail(ops)[k].bytes = log[j]
  <2>1. CASE Holds(R, log[j])
    BY <1>2, <2>1
  <2>2. ASSUME NEW k \in 1..Len(ops), ops[k].kind = "append", ops[k].bytes = log[j]
        PROVE  \/ Holds(S, log[j])
               \/ \E m \in 1..Len(Tail(ops)) :
                    Tail(ops)[m].kind = "append" /\ Tail(ops)[m].bytes = log[j]
    <3>1. CASE k = 1
      BY <1>1, <1>3, <2>2, <3>1
    <3>2. CASE k # 1
      <4>1. k - 1 \in 1..Len(Tail(ops)) /\ Tail(ops)[k - 1] = ops[(k - 1) + 1]
        BY <3>2, HeadAndTail
      <4>. QED
        BY <2>2, <4>1
    <3>. QED
      BY <3>1, <3>2
  <2>. QED
    BY <2>1, <2>2 DEF ReadKept
<1>5. ReadKept(S, Tail(ops), log, read)
  BY <1>4 DEF ReadKept
<1>. QED
  BY <1>5 DEF op, S

LEMMA ApplyDoc ==
    ASSUME NEW R \in SUBSET Row, NEW ops \in Seq(DurableOp), ops # <<>>,
           NEW d, MergeSafe(R, ops), DocKept(R, ops, d)
    PROVE  DocKept(applyOp(R, Head(ops)), Tail(ops), d)
<1>. DEFINE op == Head(ops)
<1>. DEFINE S == applyOp(R, op)
<1>1. op = ops[1] /\ 1 \in 1..Len(ops)
  BY HeadAndTail
<1>2. \A e : (\E row \in S : e \in row.bytes)
               <=> (\E row \in R : e \in row.bytes) \/ (HasId(op) /\ e \in op.bytes)
  BY ApplyHolds
<1>. HIDE DEF op, S
<1>3. ASSUME NEW e
      PROVE  (\E k \in 1..Len(ops) : HasId(ops[k]) /\ e \in ops[k].bytes)
               <=> \/ HasId(op) /\ e \in op.bytes
                   \/ \E k \in 1..Len(Tail(ops)) : HasId(Tail(ops)[k]) /\ e \in Tail(ops)[k].bytes
  <2>1. ASSUME NEW k \in 1..Len(ops), HasId(ops[k]), e \in ops[k].bytes
        PROVE  \/ HasId(op) /\ e \in op.bytes
               \/ \E m \in 1..Len(Tail(ops)) : HasId(Tail(ops)[m]) /\ e \in Tail(ops)[m].bytes
    <3>1. CASE k = 1
      BY <1>1, <2>1, <3>1
    <3>2. CASE k # 1
      <4>1. k - 1 \in 1..Len(Tail(ops)) /\ Tail(ops)[k - 1] = ops[(k - 1) + 1]
        BY <3>2, HeadAndTail
      <4>2. Tail(ops)[k - 1] = ops[k]
        BY <4>1
      <4>. QED
        BY <2>1, <4>1, <4>2
    <3>. QED
      BY <3>1, <3>2
  <2>2. \A k \in 1..Len(Tail(ops)) : k + 1 \in 1..Len(ops) /\ Tail(ops)[k] = ops[k + 1]
    BY HeadAndTail
  <2>. QED
    BY <1>1, <2>1, <2>2
<1>4. DocKept(S, Tail(ops), d)
  BY <1>2, <1>3 DEF DocKept
<1>. QED
  BY <1>4 DEF op, S
-----------------------------------------------------------------------------
(* The fold *)

\* The baseline a fold leaves, for a relation whose ids and positions are bounded.
LEMMA BaselineShape ==
    ASSUME NEW R \in SUBSET Row, IsFiniteSet(R), FoldDue(R),
           NEW next \in Nat, \A row \in R : row.id < next,
           NEW last \in Nat, \A row \in R : row.authoritySeq # NULL => row.authoritySeq <= last
    PROVE  /\ foldBaseline(R) \in Row
           /\ foldBaseline(R).authoritySeq # NULL
           /\ \E row \in FoldableRows(R) : row.id = foldBaseline(R).id
           /\ \E row \in FoldableRows(R) : row.authoritySeq = foldBaseline(R).authoritySeq
           /\ \A row \in FoldableRows(R) : row.id <= foldBaseline(R).id
           /\ \A e : e \in foldBaseline(R).bytes
                       <=> \E row \in FoldableRows(R) : e \in row.bytes
<1>. DEFINE F == FoldableRows(R)
            Ids == {row.id : row \in F}
            Seqs == {row.authoritySeq : row \in F}
<1>1. F # {}
  BY FS_EmptySet, ThresholdAssumption DEF FoldDue
<1>2. F \subseteq R /\ \A row \in F : row.authoritySeq \in Nat /\ row.id \in Nat \ {0}
  BY DEF FoldableRows, Row, Position
<1>3. Ids \in SUBSET Nat /\ Ids # {} /\ \A x \in Ids : x <= next
  BY <1>1, <1>2
<1>4. Seqs \in SUBSET Nat /\ Seqs # {} /\ \A x \in Seqs : x <= last
  BY <1>1, <1>2 DEF FoldableRows
<1>5. MaxOr0(Ids) \in Ids /\ \A x \in Ids : x <= MaxOr0(Ids)
  <2>. HIDE DEF Ids
  <2>. QED
    BY <1>3, MaxOr0Finds
<1>6. MaxOr0(Seqs) \in Seqs
  <2>. HIDE DEF Seqs
  <2>. QED
    BY <1>4, MaxOr0Finds
<1>. DEFINE b == foldBaseline(R)
<1>7. b = [id |-> MaxOr0(Ids), bytes |-> Content(F), authoritySeq |-> MaxOr0(Seqs)]
  BY DEF foldBaseline, readCursor
<1>8. b.id = MaxOr0(Ids) /\ b.bytes = Content(F) /\ b.authoritySeq = MaxOr0(Seqs)
  BY <1>7
<1>9. Content(F) \in Update
  BY <1>2 DEF Content, Row, Update
<1>10. MaxOr0(Ids) \in Nat \ {0} /\ MaxOr0(Seqs) \in Nat
  BY <1>2, <1>5, <1>6
<1>11. b \in Row /\ b.authoritySeq # NULL
  <2>1. MaxOr0(Seqs) \in Position /\ MaxOr0(Seqs) # NULL
    BY <1>10 DEF Position, NULL
  <2>. HIDE DEF Ids, Seqs, b, F
  <2>. QED
    BY <1>7, <1>8, <1>9, <1>10, <2>1 DEF Row
<1>12. \A e : e \in b.bytes <=> \E row \in F : e \in row.bytes
  BY <1>8 DEF Content
<1>13. \E row \in F : row.id = b.id
  BY <1>5, <1>8
<1>14. \E row \in F : row.authoritySeq = b.authoritySeq
  BY <1>6, <1>8
<1>15. \A row \in F : row.id <= b.id
  BY <1>5, <1>8
<1>. QED
  BY <1>11, <1>12, <1>13, <1>14, <1>15

\* The rows after a fold: the owed ones, and possibly one other that stands for
\* all the rest.
LEMMA FoldShape ==
    ASSUME NEW R \in SUBSET Row, IsFiniteSet(R),
           NEW next \in Nat, \A row \in R : row.id < next,
           NEW last \in Nat, \A row \in R : row.authoritySeq # NULL => row.authoritySeq <= last
    PROVE  /\ fold(R) \in SUBSET Row /\ IsFiniteSet(fold(R)) /\ ~FoldDue(fold(R))
           /\ OwedRows(fold(R)) = OwedRows(R)
           /\ \A e : (\E row \in fold(R) : e \in row.bytes) <=> (\E row \in R : e \in row.bytes)
           /\ \A row \in R : \E other \in fold(R) : row.id <= other.id
           /\ \A row \in fold(R) : \E other \in R : row.id = other.id
           /\ \A row \in fold(R) : row.authoritySeq # NULL =>
                /\ \E other \in FoldableRows(R) : row.id = other.id
                /\ \E other \in FoldableRows(R) : row.authoritySeq = other.authoritySeq
                /\ \A e \in row.bytes : \E other \in FoldableRows(R) : e \in other.bytes
           /\ fold(R) # R => \A r1, r2 \in fold(R) :
                r1.authoritySeq # NULL /\ r2.authoritySeq # NULL => r1 = r2
<1>1. CASE ~FoldDue(R)
  <2>1. fold(R) = R
    BY <1>1 DEF fold
  <2>2. \A row \in R : row.id <= row.id
    BY DEF Row
  <2>. QED
    BY <1>1, <2>1, <2>2 DEF FoldableRows
<1>2. CASE FoldDue(R)
  <2>. DEFINE b == foldBaseline(R)
  <2>1. fold(R) = OwedRows(R) \union {b}
    BY <1>2 DEF fold
  <2>2. /\ b \in Row /\ b.authoritySeq # NULL
        /\ \E row \in FoldableRows(R) : row.id = b.id
        /\ \E row \in FoldableRows(R) : row.authoritySeq = b.authoritySeq
        /\ \A row \in FoldableRows(R) : row.id <= b.id
        /\ \A e : e \in b.bytes <=> \E row \in FoldableRows(R) : e \in row.bytes
    BY <1>2, BaselineShape
  <2>3. OwedRows(R) \subseteq R /\ FoldableRows(R) \subseteq R
    BY DEF OwedRows, FoldableRows
  <2>. HIDE DEF b
  <2>4. OwedRows(fold(R)) = OwedRows(R) /\ FoldableRows(fold(R)) = {b}
    BY <2>1, <2>2 DEF OwedRows, FoldableRows
  <2>5. ~FoldDue(fold(R))
    <3>1. Cardinality({b}) = 1
      BY FS_Singleton
    <3>. QED
      BY <2>4, <3>1, ThresholdAssumption DEF FoldDue
  <2>6. IsFiniteSet(fold(R))
    <3>1. IsFiniteSet(OwedRows(R))
      BY <2>3, FS_Subset
    <3>. QED
      BY <2>1, <3>1, FS_AddElement
  <2>7. \A row \in R : row \in OwedRows(R) \/ row \in FoldableRows(R)
    BY DEF OwedRows, FoldableRows
  <2>8. \A row \in R : row.id <= row.id
    BY DEF Row
  <2>9. \A row \in fold(R) : row.authoritySeq # NULL => row = b
    BY <2>1 DEF OwedRows
  <2>10. \A e : (\E row \in fold(R) : e \in row.bytes) <=> (\E row \in R : e \in row.bytes)
    BY <2>1, <2>2, <2>3, <2>7
  <2>11. \A row \in R : \E other \in fold(R) : row.id <= other.id
    BY <2>1, <2>2, <2>7, <2>8
  <2>12. \A row \in fold(R) : \E other \in R : row.id = other.id
    BY <2>1, <2>2, <2>3
  <2>13. fold(R) \in SUBSET Row
    BY <2>1, <2>2, <2>3
  <2>. QED
    BY <2>2, <2>4, <2>5, <2>6, <2>9, <2>10, <2>11, <2>12, <2>13
<1>. QED
  BY <1>1, <1>2

\* A fold leaves one row for the rows it folds, as the port counts it.
LEMMA FoldCounted ==
    ASSUME NEW R \in SUBSET Row, IsFiniteSet(R),
           NEW next \in Nat, \A row \in R : row.id < next,
           NEW last \in Nat, \A row \in R : row.authoritySeq # NULL => row.authoritySeq <= last,
           NEW grew, FoldDue(R) <=> IdbFoldDue(R, grew, Cardinality(R))
    PROVE  CountedFold(R, grew, Cardinality(R)) = Cardinality(fold(R))
<1>1. CASE ~FoldDue(R)
  BY <1>1 DEF fold, CountedFold
<1>2. CASE FoldDue(R)
  <2>. DEFINE b == foldBaseline(R)
              O == OwedRows(R)
              F == FoldableRows(R)
  <2>1. fold(R) = O \union {b}
    BY <1>2 DEF fold
  <2>2. b \notin O
    BY <1>2, BaselineShape DEF OwedRows
  <2>3. R \cap F = F /\ R \ F = O
    BY DEF OwedRows, FoldableRows
  <2>4. CountedFold(R, grew, Cardinality(R)) = Cardinality(R) - Cardinality(F) + 1
    BY <1>2 DEF CountedFold
  <2>. HIDE DEF b, O, F
  <2>5. IsFiniteSet(O) /\ Cardinality(O) = Cardinality(R) - Cardinality(F)
    <3>1. IsFiniteSet(R \ F) /\ Cardinality(R \ F) = Cardinality(R) - Cardinality(R \cap F)
      BY FS_Difference
    <3>. QED
      BY <2>3, <3>1
  <2>6. Cardinality(fold(R)) = Cardinality(O) + 1
    BY <2>1, <2>2, <2>5, FS_AddElement
  <2>. QED
    BY <2>4, <2>5, <2>6
<1>. QED
  BY <1>1, <1>2

\* A fold changes nothing for the operations to come.
LEMMA FoldComing ==
    ASSUME NEW R \in SUBSET Row, IsFiniteSet(R), NEW ops, NEW next \in Nat,
           NEW acked, NEW flight, NEW log \in Seq(Update),
           IdsOrdered(R, ops, next), MergeSafe(R, ops),
           AcksSafe(R, ops, acked, flight, log), CursorSafe(R, ops, log)
    PROVE  /\ fold(R) \in SUBSET Row /\ IsFiniteSet(fold(R)) /\ ~FoldDue(fold(R))
           /\ OwedRows(fold(R)) = OwedRows(R)
           /\ \A row \in R : \E other \in fold(R) : row.id <= other.id
           /\ \A bytes : Holds(fold(R), bytes) <=> Holds(R, bytes)
           /\ \A e : (\E row \in fold(R) : e \in row.bytes) <=> (\E row \in R : e \in row.bytes)
           /\ IdsOrdered(fold(R), ops, next)
           /\ MergeSafe(fold(R), ops)
           /\ AcksSafe(fold(R), ops, acked, flight, log)
           /\ CursorSafe(fold(R), ops, log)
<1>. DEFINE S == fold(R)
<1>1. Len(log) \in Nat
  BY LenProperties
<1>2. \A row \in R : row.id < next
  BY DEF IdsOrdered
<1>3. \A row \in R : row.authoritySeq # NULL => row.authoritySeq <= Len(log)
  BY DEF CursorSafe
<1>4. /\ S \in SUBSET Row /\ IsFiniteSet(S) /\ ~FoldDue(S) /\ OwedRows(S) = OwedRows(R)
      /\ \A e : (\E row \in S : e \in row.bytes) <=> (\E row \in R : e \in row.bytes)
      /\ \A row \in R : \E other \in S : row.id <= other.id
  BY <1>1, <1>2, <1>3, FoldShape
<1>5. /\ \A row \in S : \E other \in R : row.id = other.id
      /\ \A row \in S : row.authoritySeq # NULL =>
                /\ \E other \in FoldableRows(R) : row.id = other.id
                /\ \E other \in FoldableRows(R) : row.authoritySeq = other.authoritySeq
                /\ \A e \in row.bytes : \E other \in FoldableRows(R) : e \in other.bytes
      /\ S # R => \A r1, r2 \in S :
                r1.authoritySeq # NULL /\ r2.authoritySeq # NULL => r1 = r2
  BY <1>1, <1>2, <1>3, FoldShape
<1>. HIDE DEF S
<1>6. \A bytes : Holds(S, bytes) <=> Holds(R, bytes)
  BY <1>4 DEF Holds
<1>7. /\ \A row \in S : row.authoritySeq = NULL => row \in R
      /\ \A row \in FoldableRows(R) : row \in R /\ row.authoritySeq # NULL
  BY <1>4 DEF OwedRows, FoldableRows
<1>8. IdsOrdered(S, ops, next)
  <2>1. ASSUME NEW r1 \in S, NEW r2 \in S, r1.id = r2.id PROVE r1 = r2
    <3>1. CASE S = R
      BY <2>1, <3>1 DEF IdsOrdered
    <3>2. CASE S # R
      <4>1. CASE r1.authoritySeq = NULL
        <5>1. CASE r2.authoritySeq = NULL
          BY <1>7, <2>1, <4>1, <5>1 DEF IdsOrdered
        <5>2. CASE r2.authoritySeq # NULL
          <6>1. PICK other \in FoldableRows(R) : r2.id = other.id
            BY <1>5, <5>2
          <6>. QED
            BY <1>7, <2>1, <4>1, <6>1 DEF IdsOrdered
        <5>. QED
          BY <5>1, <5>2
      <4>2. CASE r1.authoritySeq # NULL
        <5>1. CASE r2.authoritySeq = NULL
          <6>1. PICK other \in FoldableRows(R) : r1.id = other.id
            BY <1>5, <4>2
          <6>. QED
            BY <1>7, <2>1, <5>1, <6>1 DEF IdsOrdered
        <5>2. CASE r2.authoritySeq # NULL
          BY <1>5, <3>2, <4>2, <5>2
        <5>. QED
          BY <5>1, <5>2
      <4>. QED
        BY <4>1, <4>2
    <3>. QED
      BY <3>1, <3>2
  <2>2. \A row \in S : row.id < next
    BY <1>2, <1>5
  <2>3. \A i \in 1..Len(ops) : HasId(ops[i]) =>
            ops[i].id < next /\ \A row \in S : row.id < ops[i].id
    BY <1>5 DEF IdsOrdered
  <2>. QED
    BY <2>1, <2>2, <2>3 DEF IdsOrdered
<1>9. MergeSafe(S, ops)
  <2>1. ASSUME NEW i \in 1..Len(ops), ops[i].kind = "mergeOwed",
               NEW row \in S, row.id \in ops[i].replaces
        PROVE  row.authoritySeq = NULL /\ row.bytes \subseteq ops[i].bytes
    <3>1. row.authoritySeq = NULL
      <4>. SUFFICES ASSUME row.authoritySeq # NULL PROVE FALSE
        OBVIOUS
      <4>1. PICK other \in FoldableRows(R) : row.id = other.id
        BY <1>5
      <4>. QED
        BY <1>7, <2>1, <4>1 DEF MergeSafe
    <3>. QED
      BY <1>7, <2>1, <3>1 DEF MergeSafe
  <2>2. ASSUME NEW i \in 1..Len(ops), ops[i].kind = "mergeOwed", NEW id \in ops[i].replaces
        PROVE  \E row \in S : row.id = id
    <3>1. PICK row \in R : row.id = id /\ row.authoritySeq = NULL
      BY <2>2 DEF MergeSafe
    <3>2. row \in S
      BY <1>4, <3>1 DEF OwedRows
    <3>. QED
      BY <3>1, <3>2
  <2>. QED
    BY <2>1, <2>2 DEF MergeSafe
<1>10. AcksSafe(S, ops, acked, flight, log)
  <2>1. ASSUME NEW row \in S, row.authoritySeq # NULL PROVE InLog(row.bytes, log)
    <3>1. \A other \in FoldableRows(R) : InLog(other.bytes, log)
      BY <1>7 DEF AcksSafe
    <3>. QED
      BY <1>5, <2>1, <3>1 DEF InLog
  <2>2. \A row \in S : row.id <= acked => InLog(row.bytes, log)
    BY <1>7, <2>1 DEF AcksSafe
  <2>3. \A row \in S : row.authoritySeq = NULL /\ row.id <= flight.throughId =>
            \A e \in row.bytes : e \in flight.bytes \/ InLog({e}, log)
    BY <1>7 DEF AcksSafe
  <2>. QED
    BY <2>1, <2>2, <2>3 DEF AcksSafe
<1>11. CursorSafe(S, ops, log)
  <2>1. ASSUME NEW row \in S, row.authoritySeq # NULL
        PROVE  row.authoritySeq <= Len(log) /\ \A j \in 1..row.authoritySeq : Holds(S, log[j])
    <3>1. PICK other \in FoldableRows(R) : row.authoritySeq = other.authoritySeq
      BY <1>5, <2>1
    <3>. QED
      BY <1>6, <1>7, <3>1 DEF CursorSafe
  <2>2. \A i \in 1..Len(ops) : HasSeq(ops[i]) =>
          /\ ops[i].authoritySeq \in 1..Len(log)
          /\ \A j \in 1..ops[i].authoritySeq :
                \/ Holds(S, log[j])
                \/ \E k \in 1..i : ops[k].kind = "append" /\ ops[k].bytes = log[j]
    BY <1>6 DEF CursorSafe
  <2>. QED
    BY <2>1, <2>2 DEF CursorSafe
<1>. QED
  BY <1>4, <1>6, <1>8, <1>9, <1>10, <1>11 DEF S
-----------------------------------------------------------------------------
(* One more operation to come *)

LEMMA AppendFacts ==
    ASSUME NEW ops \in Seq(DurableOp), NEW op \in DurableOp
    PROVE  /\ Append(ops, op) \in Seq(DurableOp) /\ Len(ops) \in Nat
           /\ Len(Append(ops, op)) = Len(ops) + 1
           /\ Append(ops, op)[Len(ops) + 1] = op
           /\ \A i \in 1..Len(ops) : i \in 1..(Len(ops) + 1) /\ Append(ops, op)[i] = ops[i]
           /\ \A i \in 1..(Len(ops) + 1) : i \in 1..Len(ops) \/ i = Len(ops) + 1
BY AppendProperties, LenProperties

LEMMA AppendIds ==
    ASSUME NEW R \in SUBSET Row, NEW ops \in Seq(DurableOp), NEW op \in DurableOp,
           NEW next \in Nat, NEW next2 \in Nat, next <= next2,
           IdsOrdered(R, ops, next), HasId(op) => op.id >= next /\ op.id < next2
    PROVE  IdsOrdered(R, Append(ops, op), next2)
<1>. DEFINE more == Append(ops, op)
            n == Len(ops)
<1>1. /\ n \in Nat /\ Len(more) = n + 1 /\ more[n + 1] = op
      /\ \A i \in 1..n : i \in 1..(n + 1) /\ more[i] = ops[i]
      /\ \A i \in 1..(n + 1) : i \in 1..n \/ i = n + 1
      /\ \A i \in 1..n : ops[i] \in DurableOp
  BY AppendFacts, ElementOfSeq
<1>. HIDE DEF more, n
<1>2. HasId(op) => op.id \in Nat
  BY OpShape
<1>3. \A i \in 1..n : HasId(ops[i]) => ops[i].id \in Nat /\ ops[i].id < next
                                       /\ \A row \in R : row.id < ops[i].id
  BY <1>1, OpShape DEF IdsOrdered, n
<1>4. \A row \in R : row.id \in Nat /\ row.id < next
  BY DEF IdsOrdered, Row
<1>5. \A i, k \in 1..n : i < k /\ HasId(ops[i]) /\ HasId(ops[k]) => ops[i].id < ops[k].id
  BY DEF IdsOrdered, n
<1>6. \A i \in 1..Len(more) : HasId(more[i]) =>
          more[i].id < next2 /\ \A row \in R : row.id < more[i].id
  BY <1>1, <1>2, <1>3, <1>4
<1>7. ASSUME NEW i \in 1..Len(more), NEW k \in 1..Len(more), i < k, HasId(more[i]), HasId(more[k])
      PROVE  more[i].id < more[k].id
  <2>1. i \in 1..n
    BY <1>1, <1>7
  <2>2. CASE k \in 1..n
    BY <1>1, <1>5, <1>7, <2>1, <2>2
  <2>3. CASE k = n + 1
    BY <1>1, <1>2, <1>3, <1>7, <2>1, <2>3
  <2>. QED
    BY <1>1, <2>2, <2>3
<1>8. IdsOrdered(R, more, next2)
  <2>1. \A row \in R : row.id < next2
    BY <1>4
  <2>2. \A r1, r2 \in R : r1.id = r2.id => r1 = r2
    BY DEF IdsOrdered
  <2>. QED
    BY <1>6, <1>7, <2>1, <2>2 DEF IdsOrdered
<1>. QED
  BY <1>8 DEF more

LEMMA AppendMerge ==
    ASSUME NEW R, NEW ops \in Seq(DurableOp), NEW op \in DurableOp,
           op.kind # "mergeOwed", MergeSafe(R, ops)
    PROVE  MergeSafe(R, Append(ops, op))
BY AppendFacts DEF MergeSafe

LEMMA AppendAcks ==
    ASSUME NEW R, NEW ops \in Seq(DurableOp), NEW op \in DurableOp,
           NEW acked \in Nat, NEW flight \in Flight, NEW log \in Seq(Update),
           AcksSafe(R, ops, acked, flight, log),
           HasId(op) => op.id > acked /\ op.id > flight.throughId,
           op.kind = "append" /\ op.authoritySeq # NULL => InLog(op.bytes, log),
           op.kind = "ack" => op.throughId <= acked
    PROVE  AcksSafe(R, Append(ops, op), acked, flight, log)
<1>. DEFINE more == Append(ops, op)
<1>1. \A i \in 1..Len(more) : (i \in 1..Len(ops) /\ more[i] = ops[i]) \/ more[i] = op
  BY AppendFacts
<1>. HIDE DEF more
<1>2. AcksSafe(R, more, acked, flight, log)
  BY <1>1 DEF AcksSafe
<1>. QED
  BY <1>2 DEF more

LEMMA AppendCursor ==
    ASSUME NEW R, NEW ops \in Seq(DurableOp), NEW op \in DurableOp,
           NEW log \in Seq(Update), CursorSafe(R, ops, log),
           HasSeq(op) =>
              /\ op.authoritySeq \in 1..Len(log)
              /\ \A j \in 1..op.authoritySeq :
                    \/ Holds(R, log[j])
                    \/ \E k \in 1..Len(ops) : ops[k].kind = "append" /\ ops[k].bytes = log[j]
                    \/ op.kind = "append" /\ op.bytes = log[j]
    PROVE  CursorSafe(R, Append(ops, op), log)
<1>. DEFINE more == Append(ops, op)
            n == Len(ops)
<1>1. /\ n \in Nat /\ Len(more) = n + 1 /\ more[n + 1] = op
      /\ \A i \in 1..n : i \in 1..(n + 1) /\ more[i] = ops[i]
      /\ \A i \in 1..(n + 1) : i \in 1..n \/ i = n + 1
  BY AppendFacts
<1>. HIDE DEF more
<1>2. ASSUME NEW i \in 1..Len(more), HasSeq(more[i])
      PROVE  /\ more[i].authoritySeq \in 1..Len(log)
             /\ \A j \in 1..more[i].authoritySeq :
                  \/ Holds(R, log[j])
                  \/ \E k \in 1..i : more[k].kind = "append" /\ more[k].bytes = log[j]
  <2>1. CASE i \in 1..n
    <3>1. \A k \in 1..i : more[k] = ops[k]
      BY <1>1, <2>1
    <3>. QED
      BY <1>1, <1>2, <2>1, <3>1 DEF CursorSafe
  <2>2. CASE i = n + 1
    <3>1. more[i] = op /\ n + 1 \in 1..i /\ \A k \in 1..n : k \in 1..i /\ more[k] = ops[k]
      BY <1>1, <2>2
    <3>. QED
      BY <1>1, <1>2, <2>2, <3>1
  <2>. QED
    BY <1>1, <2>1, <2>2
<1>3. CursorSafe(R, more, log)
  BY <1>2 DEF CursorSafe
<1>. QED
  BY <1>3 DEF more

LEMMA AppendRead ==
    ASSUME NEW R, NEW ops \in Seq(DurableOp), NEW op \in DurableOp, NEW log,
           NEW read, NEW read2, ReadKept(R, ops, log, read),
           \A j \in 1..read2 : j \in 1..read \/ Holds(R, log[j])
                                 \/ (op.kind = "append" /\ op.bytes = log[j])
    PROVE  ReadKept(R, Append(ops, op), log, read2)
<1>. DEFINE more == Append(ops, op)
            n == Len(ops)
<1>1. /\ n \in Nat /\ Len(more) = n + 1 /\ more[n + 1] = op /\ n + 1 \in 1..(n + 1)
      /\ \A i \in 1..n : i \in 1..(n + 1) /\ more[i] = ops[i]
  BY AppendFacts
<1>. HIDE DEF more
<1>2. ReadKept(R, more, log, read2)
  BY <1>1 DEF ReadKept
<1>. QED
  BY <1>2 DEF more

LEMMA AppendDoc ==
    ASSUME NEW R, NEW ops \in Seq(DurableOp), NEW op \in DurableOp, NEW d, NEW d2,
           DocKept(R, ops, d),
           \A e \in Edits : e \in d2 <=> e \in d \/ (HasId(op) /\ e \in op.bytes)
    PROVE  DocKept(R, Append(ops, op), d2)
<1>. DEFINE more == Append(ops, op)
            n == Len(ops)
<1>1. /\ n \in Nat /\ Len(more) = n + 1 /\ more[n + 1] = op /\ n + 1 \in 1..(n + 1)
      /\ \A i \in 1..n : i \in 1..(n + 1) /\ more[i] = ops[i]
      /\ \A i \in 1..(n + 1) : i \in 1..n \/ i = n + 1
  BY AppendFacts
<1>. HIDE DEF more
<1>2. DocKept(R, more, d2)
  BY <1>1 DEF DocKept
<1>. QED
  BY <1>2 DEF more

\* Fewer operations to come, from the end: discard() drops the queue.
LEMMA PrefixComing ==
    ASSUME NEW R, NEW ops, NEW fewer, Len(ops) \in Nat, Len(fewer) \in Nat,
           Len(fewer) <= Len(ops), \A i \in 1..Len(fewer) : fewer[i] = ops[i],
           NEW next, NEW acked, NEW flight, NEW log,
           IdsOrdered(R, ops, next), MergeSafe(R, ops),
           AcksSafe(R, ops, acked, flight, log), CursorSafe(R, ops, log)
    PROVE  /\ IdsOrdered(R, fewer, next) /\ MergeSafe(R, fewer)
           /\ AcksSafe(R, fewer, acked, flight, log) /\ CursorSafe(R, fewer, log)
<1>1. \A i \in 1..Len(fewer) : i \in 1..Len(ops)
  OBVIOUS
<1>2. IdsOrdered(R, fewer, next)
  BY <1>1 DEF IdsOrdered
<1>3. MergeSafe(R, fewer)
  BY <1>1 DEF MergeSafe
<1>4. AcksSafe(R, fewer, acked, flight, log)
  BY <1>1 DEF AcksSafe
<1>5. CursorSafe(R, fewer, log)
  <2>1. \A i \in 1..Len(fewer) : \A k \in 1..i : fewer[k] = ops[k]
    OBVIOUS
  <2>. QED
    BY <1>1, <2>1 DEF CursorSafe
<1>. QED
  BY <1>2, <1>3, <1>4, <1>5

\* The authority's log grows at its end.
LEMMA LogGrows ==
    ASSUME NEW log \in Seq(Update), NEW bytes \in Update
    PROVE  /\ Append(log, bytes) \in Seq(Update)
           /\ Len(log) \in Nat /\ Len(Append(log, bytes)) = Len(log) + 1
           /\ Append(log, bytes)[Len(log) + 1] = bytes
           /\ \A i \in 1..Len(log) : i \in 1..(Len(log) + 1) /\ Append(log, bytes)[i] = log[i]
           /\ \A x : InLog(x, log) => InLog(x, Append(log, bytes))
<1>1. /\ Append(log, bytes) \in Seq(Update)
      /\ Len(log) \in Nat /\ Len(Append(log, bytes)) = Len(log) + 1
      /\ Append(log, bytes)[Len(log) + 1] = bytes
      /\ \A i \in 1..Len(log) : i \in 1..(Len(log) + 1) /\ Append(log, bytes)[i] = log[i]
  BY AppendProperties, LenProperties
<1>. QED
  BY <1>1 DEF InLog

LEMMA LogGrowsComing ==
    ASSUME NEW R \in SUBSET Row, NEW ops \in Seq(DurableOp), NEW log \in Seq(Update),
           NEW bytes \in Update,
           NEW acked, NEW flight, AcksSafe(R, ops, acked, flight, log), CursorSafe(R, ops, log)
    PROVE  /\ AcksSafe(R, ops, acked, flight, Append(log, bytes))
           /\ CursorSafe(R, ops, Append(log, bytes))
<1>. DEFINE longer == Append(log, bytes)
<1>1. /\ Len(log) \in Nat /\ Len(longer) = Len(log) + 1
      /\ \A i \in 1..Len(log) : longer[i] = log[i]
      /\ \A x : InLog(x, log) => InLog(x, longer)
  BY LogGrows
<1>. HIDE DEF longer
<1>2. AcksSafe(R, ops, acked, flight, longer)
  BY <1>1 DEF AcksSafe
<1>3. CursorSafe(R, ops, longer)
  <2>1. \A row \in R : row.authoritySeq # NULL => row.authoritySeq \in Nat
    BY DEF Row, Position
  <2>2. ASSUME NEW row \in R, row.authoritySeq # NULL
        PROVE  row.authoritySeq <= Len(longer) /\ \A j \in 1..row.authoritySeq : Holds(R, longer[j])
    <3>1. row.authoritySeq <= Len(log) /\ \A j \in 1..row.authoritySeq : Holds(R, log[j])
      BY <2>2 DEF CursorSafe
    <3>2. \A j \in 1..row.authoritySeq : longer[j] = log[j]
      BY <1>1, <2>1, <2>2, <3>1
    <3>. QED
      BY <1>1, <2>1, <2>2, <3>1, <3>2
  <2>3. ASSUME NEW i \in 1..Len(ops), HasSeq(ops[i])
        PROVE  /\ ops[i].authoritySeq \in 1..Len(longer)
               /\ \A j \in 1..ops[i].authoritySeq :
                    \/ Holds(R, longer[j])
                    \/ \E k \in 1..i : ops[k].kind = "append" /\ ops[k].bytes = longer[j]
    <3>1. /\ ops[i].authoritySeq \in 1..Len(log)
          /\ \A j \in 1..ops[i].authoritySeq :
                    \/ Holds(R, log[j])
                    \/ \E k \in 1..i : ops[k].kind = "append" /\ ops[k].bytes = log[j]
      BY <2>3 DEF CursorSafe
    <3>2. \A j \in 1..ops[i].authoritySeq : longer[j] = log[j]
      BY <1>1, <3>1
    <3>. QED
      BY <1>1, <3>1, <3>2
  <2>. QED
    BY <2>2, <2>3 DEF CursorSafe
<1>. QED
  BY <1>2, <1>3 DEF longer
-----------------------------------------------------------------------------
(* The two pairs under each kind of step *)

\* A row to come: a local edit or an entry of the authority.
LEMMA ComingAppend ==
    ASSUME NEW R, NEW ops \in Seq(DurableOp), NEW op \in DurableOp,
           NEW next \in Nat, NEW acked \in Nat, NEW flight \in Flight, NEW log \in Seq(Update),
           NEW read, NEW read2, NEW d, NEW d2,
           ComingIn(R, ops, next, acked, flight, log, TRUE, read, d),
           op.kind = "append", op.id = next, acked < next, flight.throughId < next,
           op.authoritySeq # NULL =>
              /\ InLog(op.bytes, log)
              /\ op.authoritySeq \in 1..Len(log)
              /\ \A j \in 1..op.authoritySeq : j \in 1..read \/ op.bytes = log[j],
           \A j \in 1..read2 : j \in 1..read \/ op.bytes = log[j],
           \A e \in Edits : e \in d2 <=> e \in d \/ e \in op.bytes
    PROVE  ComingIn(R, Append(ops, op), next + 1, acked, flight, log, TRUE, read2, d2)
<1>. USE DEF ComingIn
<1>1. HasId(op) /\ op.kind # "mergeOwed" /\ op.kind # "ack"
  BY DEF HasId
<1>2. IdsOrdered(R, Append(ops, op), next + 1)
  BY AppendIds
<1>3. MergeSafe(R, Append(ops, op))
  BY <1>1, AppendMerge
<1>4. AcksSafe(R, Append(ops, op), acked, flight, log)
  <2>1. op.id > acked /\ op.id > flight.throughId
    BY DEF Flight
  <2>. QED
    BY <1>1, <2>1, AppendAcks
<1>5. CursorSafe(R, Append(ops, op), log)
  <2>1. HasSeq(op) =>
              /\ op.authoritySeq \in 1..Len(log)
              /\ \A j \in 1..op.authoritySeq :
                    \/ Holds(R, log[j])
                    \/ \E k \in 1..Len(ops) : ops[k].kind = "append" /\ ops[k].bytes = log[j]
                    \/ op.kind = "append" /\ op.bytes = log[j]
    BY <1>1 DEF HasSeq, ReadKept
  <2>. QED
    BY <2>1, AppendCursor
<1>6. ReadKept(R, Append(ops, op), log, read2)
  BY AppendRead
<1>7. DocKept(R, Append(ops, op), d2)
  BY <1>1, AppendDoc
<1>. QED
  BY <1>2, <1>3, <1>4, <1>5, <1>6, <1>7

\* An acknowledgement to come: the submission was logged at the next position.
LEMMA ComingAck ==
    ASSUME NEW R, NEW ops \in Seq(DurableOp), NEW op \in DurableOp,
           NEW next \in Nat, NEW acked \in Nat, NEW acked2 \in Nat, NEW flight \in Flight,
           NEW log \in Seq(Update), NEW read \in Nat, NEW d,
           ComingIn(R, ops, next, acked, flight, log, TRUE, read, d),
           op.kind = "ack", op.throughId = flight.throughId, op.authoritySeq = read + 1,
           acked2 = IF flight.throughId > acked THEN flight.throughId ELSE acked,
           read + 1 <= Len(log), log[read + 1] = flight.bytes, Holds(R, flight.bytes)
    PROVE  ComingIn(R, Append(ops, op), next, acked2, None, log, TRUE, read + 1, d)
<1>. USE DEF ComingIn
<1>1. ~HasId(op) /\ op.kind # "mergeOwed" /\ op.kind # "append" /\ Len(log) \in Nat
  BY LenProperties DEF HasId
<1>2. IdsOrdered(R, Append(ops, op), next)
  BY <1>1, AppendIds
<1>3. MergeSafe(R, Append(ops, op))
  BY <1>1, AppendMerge
<1>4. None \in Flight /\ None.throughId = 0 /\ None.bytes = {} /\ flight.throughId \in Nat
  BY DEF None, Flight, Update
<1>5. AcksSafe(R, ops, acked2, None, log)
  <2>1. InLog(flight.bytes, log)
    <3>1. read + 1 \in 1..Len(log)
      BY <1>1
    <3>. QED
      BY <3>1 DEF InLog
  <2>2. \A row \in R : row.id \in Nat \ {0}
    BY DEF Row
  <2>3. ASSUME NEW row \in R, row.authoritySeq # NULL \/ row.id <= acked2
        PROVE  InLog(row.bytes, log)
    <3>1. CASE row.authoritySeq # NULL \/ row.id <= acked
      BY <3>1 DEF AcksSafe
    <3>2. CASE row.authoritySeq = NULL /\ row.id <= flight.throughId
      <4>1. \A e \in row.bytes : e \in flight.bytes \/ InLog({e}, log)
        BY <3>2 DEF AcksSafe
      <4>. QED
        BY <2>1, <4>1 DEF InLog
    <3>. QED
      BY <2>2, <2>3, <3>1, <3>2
  <2>4. \A row \in R : ~(row.id <= None.throughId)
    BY <1>4, <2>2
  <2>5. \A i \in 1..Len(ops) :
          /\ HasId(ops[i]) => ops[i].id > acked2 /\ ops[i].id > None.throughId
          /\ ops[i].kind = "append" /\ ops[i].authoritySeq # NULL => InLog(ops[i].bytes, log)
          /\ ops[i].kind = "ack" => ops[i].throughId <= acked2
    <3>1. \A i \in 1..Len(ops) : ops[i] \in DurableOp
      BY ElementOfSeq
    <3>2. \A i \in 1..Len(ops) : HasId(ops[i]) => ops[i].id \in Nat \ {0}
      BY <3>1, OpShape
    <3>3. \A i \in 1..Len(ops) : ops[i].kind = "ack" => ops[i].throughId \in Nat
      BY <3>1, OpShape
    <3>. QED
      BY <1>4, <3>2, <3>3 DEF AcksSafe
  <2>. QED
    BY <2>3, <2>4, <2>5 DEF AcksSafe
<1>6. AcksSafe(R, Append(ops, op), acked2, None, log)
  <2>1. op.throughId <= acked2
    BY <1>4
  <2>. QED
    BY <1>1, <1>4, <1>5, <2>1, AppendAcks
<1>7. \A j \in 1..(read + 1) : j \in 1..read \/ Holds(R, log[j])
  OBVIOUS
<1>8. CursorSafe(R, Append(ops, op), log)
  <2>1. op.authoritySeq \in 1..Len(log)
    BY <1>1
  <2>2. \A j \in 1..op.authoritySeq :
           \/ Holds(R, log[j])
           \/ \E k \in 1..Len(ops) : ops[k].kind = "append" /\ ops[k].bytes = log[j]
    BY <1>7 DEF ReadKept
  <2>. QED
    BY <2>1, <2>2, AppendCursor
<1>9. ReadKept(R, Append(ops, op), log, read + 1)
  BY <1>7, AppendRead
<1>10. DocKept(R, Append(ops, op), d)
  BY <1>1, AppendDoc
<1>. QED
  BY <1>2, <1>3, <1>6, <1>8, <1>9, <1>10

\* The first operation is applied.
LEMMA ComingApply ==
    ASSUME NEW R, NEW ops \in Seq(DurableOp), ops # <<>>,
           NEW next \in Nat, NEW acked \in Nat, NEW flight \in Flight, NEW log \in Seq(Update),
           NEW kept, NEW read, NEW d,
           ComingIn(R, ops, next, acked, flight, log, kept, read, d)
    PROVE  ComingIn(applyOp(R, Head(ops)), Tail(ops), next, acked, flight, log, kept, read, d)
<1>. USE DEF ComingIn
<1>1. Head(ops) \in DurableOp
  BY HeadAndTail
<1>2. applyOp(R, Head(ops)) \in SUBSET Row /\ IsFiniteSet(applyOp(R, Head(ops)))
  BY <1>1, ApplyShape, ApplyFinite
<1>3. /\ IdsOrdered(applyOp(R, Head(ops)), Tail(ops), next)
      /\ MergeSafe(applyOp(R, Head(ops)), Tail(ops))
  BY ApplyIds, ApplyMerge
<1>4. AcksSafe(applyOp(R, Head(ops)), Tail(ops), acked, flight, log)
  BY ApplyAcks
<1>5. CursorSafe(applyOp(R, Head(ops)), Tail(ops), log)
  BY ApplyCursor
<1>6. kept => /\ ReadKept(applyOp(R, Head(ops)), Tail(ops), log, read)
              /\ DocKept(applyOp(R, Head(ops)), Tail(ops), d)
  BY ApplyRead, ApplyDoc
<1>. QED
  BY <1>2, <1>3, <1>4, <1>5, <1>6

\* The transaction ends with its fold.
LEMMA ComingFold ==
    ASSUME NEW R, NEW ops, NEW next \in Nat, NEW acked, NEW flight,
           NEW log \in Seq(Update), NEW kept, NEW read, NEW d,
           ComingIn(R, ops, next, acked, flight, log, kept, read, d)
    PROVE  /\ ComingIn(fold(R), ops, next, acked, flight, log, kept, read, d)
           /\ ~FoldDue(fold(R)) /\ OwedRows(fold(R)) = OwedRows(R)
           /\ \A row \in R : \E other \in fold(R) : row.id <= other.id
           /\ \A bytes : Holds(fold(R), bytes) <=> Holds(R, bytes)
<1>. USE DEF ComingIn
<1>1. /\ fold(R) \in SUBSET Row /\ IsFiniteSet(fold(R)) /\ ~FoldDue(fold(R))
      /\ OwedRows(fold(R)) = OwedRows(R)
      /\ \A row \in R : \E other \in fold(R) : row.id <= other.id
      /\ \A bytes : Holds(fold(R), bytes) <=> Holds(R, bytes)
      /\ \A e : (\E row \in fold(R) : e \in row.bytes) <=> (\E row \in R : e \in row.bytes)
  BY FoldComing
<1>2. /\ IdsOrdered(fold(R), ops, next)
      /\ MergeSafe(fold(R), ops)
      /\ AcksSafe(fold(R), ops, acked, flight, log)
      /\ CursorSafe(fold(R), ops, log)
  BY FoldComing
<1>3. kept => ReadKept(fold(R), ops, log, read)
  BY <1>1 DEF ReadKept
<1>4. kept => DocKept(fold(R), ops, d)
  BY <1>1 DEF DocKept
<1>. QED
  BY <1>1, <1>2, <1>3, <1>4
\* maintain(): the merge of some owed rows, with nothing else to come.
LEMMA ComingMerge ==
    ASSUME NEW R, NEW next \in Nat \ {0}, NEW acked \in Nat, NEW flight \in Flight,
           NEW log \in Seq(Update), NEW kept, NEW read, NEW d,
           ComingIn(R, <<>>, next, acked, flight, log, kept, read, d),
           acked < next, flight.throughId < next,
           NEW entries \in SUBSET readOutbox(R), NEW op,
           op = [kind |-> "mergeOwed", id |-> next,
                 replaces |-> {entry.id : entry \in entries}, bytes |-> merge(entries)]
    PROVE  /\ op \in DurableOp
           /\ ComingIn(R, <<op>>, next + 1, acked, flight, log, kept, read, d)
<1>. USE DEF ComingIn
<1>. DEFINE ops == <<op>>
<1>1. /\ op.kind = "mergeOwed" /\ op.id = next
      /\ op.replaces = {entry.id : entry \in entries} /\ op.bytes = merge(entries)
  OBVIOUS
<1>2. /\ Len(ops) = 1 /\ ops[1] = op /\ \A i \in 1..Len(ops) : i = 1
      /\ Len(<<>>) = 0
  OBVIOUS
<1>3. HasId(op) /\ ~HasSeq(op) /\ op.kind # "append" /\ op.kind # "ack"
  BY <1>1 DEF HasId, HasSeq
<1>4. ASSUME NEW entry \in entries
      PROVE  \E row \in R : /\ row.authoritySeq = NULL /\ row.id = entry.id
                            /\ row.bytes = entry.bytes /\ row \in Row
  BY DEF readOutbox, OwedRows
<1>5. op \in DurableOp
  <2>1. {entry.id : entry \in entries} \in SUBSET (Nat \ {0})
    BY <1>4 DEF Row
  <2>2. merge(entries) \in Update
    BY <1>4 DEF merge, Row, Update
  <2>. QED
    BY <2>1, <2>2 DEF DurableOp, MergeOp
<1>6. \A e \in op.bytes : \E row \in R : e \in row.bytes
  BY <1>1, <1>4 DEF merge
<1>. HIDE DEF ops
<1>7. IdsOrdered(R, ops, next + 1)
  <2>1. \A row \in R : row.id \in Nat /\ row.id < next
    BY DEF IdsOrdered, Row
  <2>. QED
    BY <1>1, <1>2, <2>1 DEF IdsOrdered
<1>8. MergeSafe(R, ops)
  <2>1. ASSUME NEW row \in R, row.id \in op.replaces
        PROVE  row.authoritySeq = NULL /\ row.bytes \subseteq op.bytes
    <3>1. PICK entry \in entries : row.id = entry.id
      BY <1>1, <2>1
    <3>2. PICK other \in R : other.authoritySeq = NULL /\ other.id = entry.id
                             /\ other.bytes = entry.bytes
      BY <1>4
    <3>3. row = other
      BY <3>1, <3>2 DEF IdsOrdered
    <3>. QED
      BY <1>1, <3>2, <3>3 DEF merge
  <2>2. \A id \in op.replaces : \E row \in R : row.id = id
    BY <1>1, <1>4
  <2>. QED
    BY <1>2, <2>1, <2>2 DEF MergeSafe
<1>9. AcksSafe(R, ops, acked, flight, log)
  <2>1. op.id > acked /\ op.id > flight.throughId
    BY <1>1 DEF Flight
  <2>. QED
    BY <1>2, <1>3, <2>1 DEF AcksSafe
<1>10. CursorSafe(R, ops, log)
  <2>1. \A i \in 1..Len(ops) : ~HasSeq(ops[i])
    BY <1>2, <1>3
  <2>2. \A row \in R : row.authoritySeq # NULL =>
          /\ row.authoritySeq <= Len(log)
          /\ \A j \in 1..row.authoritySeq : Holds(R, log[j])
    BY DEF CursorSafe
  <2>. QED
    BY <2>1, <2>2, Zenon DEF CursorSafe
<1>11. kept => ReadKept(R, ops, log, read)
  BY <1>2 DEF ReadKept
<1>12. kept => DocKept(R, ops, d)
  BY <1>1, <1>2, <1>6 DEF DocKept
<1>. QED
  BY <1>5, <1>7, <1>8, <1>9, <1>10, <1>11, <1>12 DEF ops

\* discard(): the end of the operations to come is dropped with the session.
LEMMA ComingDiscard ==
    ASSUME NEW R, NEW ops \in Seq(DurableOp), NEW more \in Seq(DurableOp), NEW next, NEW acked,
           NEW flight, NEW log, NEW kept, NEW read, NEW d,
           ComingIn(R, ops \o more, next, acked, flight, log, kept, read, d)
    PROVE  ComingIn(R, ops, next, acked, flight, log, FALSE, read, d)
<1>1. /\ Len(ops \o more) \in Nat /\ Len(ops) \in Nat /\ Len(ops) <= Len(ops \o more)
      /\ \A i \in 1..Len(ops) : ops[i] = (ops \o more)[i]
  BY ConcatProperties, LenProperties
<1>. DEFINE all == ops \o more
<1>. HIDE DEF all
<1>2. /\ IdsOrdered(R, ops, next) /\ MergeSafe(R, ops)
      /\ AcksSafe(R, ops, acked, flight, log) /\ CursorSafe(R, ops, log)
  BY <1>1, PrefixComing DEF ComingIn, all
<1>. QED
  BY <1>2 DEF ComingIn

\* The authority's log grows.
LEMMA ComingLog ==
    ASSUME NEW R, NEW ops \in Seq(DurableOp), NEW next, NEW acked, NEW flight,
           NEW log \in Seq(Update), NEW bytes \in Update, NEW kept, NEW read \in Nat, NEW d,
           read <= Len(log),
           ComingIn(R, ops, next, acked, flight, log, kept, read, d)
    PROVE  ComingIn(R, ops, next, acked, flight, Append(log, bytes), kept, read, d)
<1>. USE DEF ComingIn
<1>1. AcksSafe(R, ops, acked, flight, Append(log, bytes)) /\ CursorSafe(R, ops, Append(log, bytes))
  BY LogGrowsComing
<1>2. Len(log) \in Nat /\ \A j \in 1..Len(log) : Append(log, bytes)[j] = log[j]
  BY LogGrows
<1>3. \A j \in 1..read : Append(log, bytes)[j] = log[j]
  BY <1>2
<1>4. kept => ReadKept(R, ops, Append(log, bytes), read)
  BY <1>3 DEF ReadKept
<1>. QED
  BY <1>1, <1>4

\* Another submission is outstanding, or none is: what it can reach is what it
\* carries or what the log has.
LEMMA ComingFlight ==
    ASSUME NEW R, NEW ops, NEW next, NEW acked, NEW flight, NEW flight2, NEW log,
           NEW kept, NEW read, NEW d,
           ComingIn(R, ops, next, acked, flight, log, kept, read, d),
           \A row \in R : row.authoritySeq = NULL /\ row.id <= flight2.throughId =>
              \A e \in row.bytes : e \in flight2.bytes \/ InLog({e}, log),
           \A i \in 1..Len(ops) : HasId(ops[i]) => ops[i].id > flight2.throughId
    PROVE  ComingIn(R, ops, next, acked, flight2, log, kept, read, d)
BY DEF ComingIn, AcksSafe

LEMMA ComingNoFlight ==
    ASSUME NEW R, NEW ops \in Seq(DurableOp), NEW next, NEW acked, NEW flight, NEW log,
           NEW kept, NEW read, NEW d,
           ComingIn(R, ops, next, acked, flight, log, kept, read, d)
    PROVE  ComingIn(R, ops, next, acked, None, log, kept, read, d)
<1>1. None.throughId = 0
  BY DEF None
<1>2. \A row \in R : ~(row.id <= 0)
  BY DEF ComingIn, Row
<1>3. \A i \in 1..Len(ops) : HasId(ops[i]) => ops[i].id > 0
  BY ElementOfSeq, OpShape
<1>. QED
  BY <1>1, <1>2, <1>3, ComingFlight

\* Rows of a transaction that hold a row's bytes and more hold what it held.
LEMMA HoldsThrough ==
    ASSUME NEW R, NEW S, \A row \in R : Holds(S, row.bytes), NEW bytes, Holds(R, bytes)
    PROVE  Holds(S, bytes)
BY DEF Holds

\* The mirror follows the engine operation by operation.
LEMMA MirrorApply ==
    ASSUME NEW R \in SUBSET Row, NEW op \in DurableOp
    PROVE  mirrorOutbox(readOutbox(R), op) = readOutbox(applyOp(R, op))
<1>1. CASE op.kind = "append"
  <2>. DEFINE new == [id |-> op.id, bytes |-> op.bytes, authoritySeq |-> op.authoritySeq]
  <2>1. applyOp(R, op) = R \union {new}
    BY <1>1 DEF applyOp
  <2>2. mirrorOutbox(readOutbox(R), op) =
           IF op.authoritySeq = NULL
             THEN readOutbox(R) \union {[id |-> op.id, bytes |-> op.bytes]} ELSE readOutbox(R)
    BY <1>1 DEF mirrorOutbox
  <2>3. new.id = op.id /\ new.bytes = op.bytes /\ new.authoritySeq = op.authoritySeq
    OBVIOUS
  <2>4. OwedRows(R \union {new}) = IF op.authoritySeq = NULL THEN OwedRows(R) \union {new}
                                   ELSE OwedRows(R)
    BY <2>3 DEF OwedRows
  <2>. HIDE DEF new
  <2>. QED
    BY <2>1, <2>2, <2>3, <2>4 DEF readOutbox
<1>2. CASE op.kind = "ack"
  <2>1. op.throughId \in Nat /\ op.authoritySeq \in Nat /\ op.authoritySeq # NULL
    BY <1>2, OpShape DEF NULL
  <2>2. applyOp(R, op) = acknowledge(R, op.throughId, op.authoritySeq)
    BY <1>2 DEF applyOp
  <2>3. mirrorOutbox(readOutbox(R), op) = {entry \in readOutbox(R) : entry.id > op.throughId}
    BY <1>2 DEF mirrorOutbox
  <2>4. OwedRows(applyOp(R, op)) = {row \in OwedRows(R) : row.id > op.throughId}
    <3>1. \A row \in R : row.id \in Nat
      BY DEF Row
    <3>2. \A row \in acknowledge(R, op.throughId, op.authoritySeq) : \E old \in R :
                /\ row.id = old.id /\ row.bytes = old.bytes
                /\ IF old.id <= op.throughId /\ old.authoritySeq = NULL
                     THEN row.authoritySeq = op.authoritySeq ELSE row = old
      BY <2>1, AcknowledgeRows
    <3>3. \A old \in R : \E row \in acknowledge(R, op.throughId, op.authoritySeq) :
                /\ row.id = old.id /\ row.bytes = old.bytes
                /\ IF old.id <= op.throughId /\ old.authoritySeq = NULL
                     THEN row.authoritySeq = op.authoritySeq ELSE row = old
      BY <2>1, AcknowledgeRows
    <3>4. \A row \in OwedRows(applyOp(R, op)) : row \in OwedRows(R) /\ row.id > op.throughId
      BY <2>1, <2>2, <3>1, <3>2 DEF OwedRows
    <3>5. \A row \in OwedRows(R) : row.id > op.throughId => row \in OwedRows(applyOp(R, op))
      BY <2>1, <2>2, <3>1, <3>3 DEF OwedRows
    <3>. QED
      BY <3>4, <3>5
  <2>. QED
    BY <2>3, <2>4 DEF readOutbox
<1>3. CASE op.kind = "mergeOwed"
  <2>. DEFINE new == [id |-> op.id, bytes |-> op.bytes, authoritySeq |-> NULL]
              stay == {row \in R : row.id \notin op.replaces}
  <2>1. applyOp(R, op) = stay \union {new}
    BY <1>3 DEF applyOp
  <2>2. mirrorOutbox(readOutbox(R), op) =
           {entry \in readOutbox(R) : entry.id \notin op.replaces}
             \union {[id |-> op.id, bytes |-> op.bytes]}
    BY <1>3 DEF mirrorOutbox
  <2>3. OwedRows(stay \union {new}) = {row \in OwedRows(R) : row.id \notin op.replaces} \union {new}
    BY DEF OwedRows
  <2>4. new.id = op.id /\ new.bytes = op.bytes
    OBVIOUS
  <2>. HIDE DEF new, stay
  <2>. DEFINE kept == {row \in OwedRows(R) : row.id \notin op.replaces}
  <2>5. readOutbox(applyOp(R, op)) = {[id |-> row.id, bytes |-> row.bytes] : row \in kept}
                                       \union {[id |-> op.id, bytes |-> op.bytes]}
    <3>1. readOutbox(applyOp(R, op))
             = {[id |-> row.id, bytes |-> row.bytes] : row \in kept \union {new}}
      BY <2>1, <2>3 DEF readOutbox
    <3>. HIDE DEF kept
    <3>. QED
      BY <2>4, <3>1
  <2>6. {entry \in readOutbox(R) : entry.id \notin op.replaces}
           = {[id |-> row.id, bytes |-> row.bytes] : row \in kept}
    <3>. DEFINE E(row) == [id |-> row.id, bytes |-> row.bytes]
    <3>1. \A row : E(row).id = row.id
      OBVIOUS
    <3>2. readOutbox(R) = {E(row) : row \in OwedRows(R)}
      BY DEF readOutbox
    <3>. HIDE DEF E
    <3>3. {entry \in readOutbox(R) : entry.id \notin op.replaces} = {E(row) : row \in kept}
      BY <3>1, <3>2
    <3>. QED
      BY <3>3 DEF E
  <2>. QED
    BY <2>2, <2>5, <2>6
<1>. QED
  BY <1>1, <1>2, <1>3, OpShape
-----------------------------------------------------------------------------
(* The steps of the controller *)

LEMMA SeqsOK ==
    ASSUME TypeOK
    PROVE  /\ Rest \in Seq(DurableOp) /\ Pending \in Seq(DurableOp)
           /\ applied \in Seq(DurableOp) /\ batch \in Seq(DurableOp) /\ queue \in Seq(DurableOp)
           /\ inflight \in Flight /\ inflight.throughId \in Nat /\ inflight.position \in Nat
           /\ inflight.bytes \in Update
           /\ nextId \in Nat \ {0} /\ acknowledgedThroughId \in Nat
           /\ server \in Seq(Update) /\ Len(server) \in Nat /\ clientCursor \in Nat
<1>1. applied \in Seq(DurableOp) /\ batch \in Seq(DurableOp) /\ queue \in Seq(DurableOp)
  BY DEF TypeOK
<1>2. Rest \in Seq(DurableOp)
  BY <1>1, ConcatProperties DEF Rest
<1>3. Pending \in Seq(DurableOp)
  BY <1>1, <1>2, ConcatProperties DEF Pending
<1>4. server \in Seq(Update) /\ Len(server) \in Nat
  BY LenProperties DEF TypeOK
<1>5. /\ inflight \in Flight /\ inflight.throughId \in Nat /\ inflight.position \in Nat
      /\ inflight.bytes \in Update
  BY DEF TypeOK, Flight
<1>6. nextId \in Nat \ {0} /\ acknowledgedThroughId \in Nat /\ clientCursor \in Nat
  BY DEF TypeOK
<1>. QED
  BY <1>1, <1>2, <1>3, <1>4, <1>5, <1>6

\* RequestFlush leaves a drain that will see the queue.
LEMMA Requested ==
    ASSUME TypeOK, RequestFlush
    PROVE  /\ phase' \in {"scheduled", "committing"}
           /\ (phase' = "committing") <=> (phase = "committing")
           /\ requested' \in BOOLEAN
BY DEF RequestFlush, TypeOK

LEMMA ConcatAppend ==
    ASSUME NEW s1 \in Seq(DurableOp), NEW s2 \in Seq(DurableOp), NEW op \in DurableOp
    PROVE  s1 \o Append(s2, op) = Append(s1 \o s2, op)
OBVIOUS

LEMMA Enqueued ==
    ASSUME TypeOK, ~discarded, NEW op \in DurableOp, enqueue(op), UNCHANGED <<applied, batch>>
    PROVE  /\ Rest' = Append(Rest, op) /\ Pending' = Append(Pending, op)
           /\ queue' \in Seq(DurableOp)
           /\ phase' \in {"scheduled", "committing"}
           /\ (phase' = "committing") <=> (phase = "committing")
           /\ requested' \in BOOLEAN
<1>1. queue' = Append(queue, op) /\ RequestFlush
  BY DEF enqueue
<1>2. queue' \in Seq(DurableOp)
  BY <1>1, SeqsOK, AppendProperties
<1>3. Rest' = Append(Rest, op)
  BY <1>1, SeqsOK, ConcatAppend DEF Rest
<1>4. Pending' = Append(Pending, op)
  BY <1>3, SeqsOK, ConcatAppend DEF Pending
<1>. QED
  BY <1>1, <1>2, <1>3, <1>4, Requested

LEMMA EditKeeps ==
    ASSUME IInv, NEW e \in LocalEdits, Edit(e)
    PROVE  IInv'
<1>. DEFINE op == [kind |-> "append", id |-> nextId, bytes |-> {e}, authoritySeq |-> NULL]
<1>1. TypeOK /\ ~closed /\ ~discarded /\ FlightSafe
  BY DEF IInv, Edit, FlightSafe
<1>2. e \in Edits
  BY EditsAssumption
<1>3. /\ op \in DurableOp /\ op.kind = "append" /\ op.id = nextId /\ op.bytes = {e}
      /\ op.authoritySeq = NULL
  BY <1>1, <1>2 DEF TypeOK, DurableOp, AppendOp, Update, Position
<1>4. enqueue(op) /\ UNCHANGED <<applied, batch>>
  BY DEF Edit
<1>. HIDE DEF op
<1>5. /\ Rest' = Append(Rest, op) /\ Pending' = Append(Pending, op)
      /\ queue' \in Seq(DurableOp) /\ phase' \in {"scheduled", "committing"}
      /\ ((phase' = "committing") <=> (phase = "committing")) /\ requested' \in BOOLEAN
  BY <1>1, <1>3, <1>4, Enqueued
<1>6. /\ doc' = doc \union {e} /\ nextId' = nextId + 1
      /\ UNCHANGED <<rows, held, applied, batch, txn, outbox, cursor, lastCoalescedId,
                     acknowledgedThroughId, closed, discarded, clientCursor, inflight,
                     server, failedLast, budgets>>
  BY DEF Edit
<1>7. TypeOK'
  <2>1. doc' \in Update /\ nextId' \in Nat \ {0} /\ authored' \subseteq LocalEdits
    BY <1>1, <1>2, <1>6 DEF TypeOK, Update, Edit
  <2>. QED
    BY <1>1, <1>5, <1>6, <2>1 DEF TypeOK, budgets
<1>8. ASSUME NEW R, NEW ops \in Seq(DurableOp), Coming(R, ops)
      PROVE  ComingIn(R, Append(ops, op), nextId + 1, acknowledgedThroughId, inflight, server,
                      TRUE, clientCursor, doc')
  <2>1. ComingIn(R, ops, nextId, acknowledgedThroughId, inflight, server, TRUE, clientCursor, doc)
    BY <1>1, <1>8 DEF Coming, ComingIn
  <2>2. acknowledgedThroughId < nextId /\ inflight.throughId < nextId
    BY <1>1 DEF FlightSafe
  <2>3. \A x \in Edits : x \in doc' <=> x \in doc \/ x \in op.bytes
    BY <1>3, <1>6
  <2>. QED
    BY <1>1, <1>3, <2>1, <2>2, <2>3, SeqsOK, ComingAppend
<1>9. Coming(rows, Pending)'
  BY <1>1, <1>5, <1>6, <1>8, SeqsOK DEF IInv, Coming, ComingIn
<1>10. phase' = "committing" => Coming(txn.rows, Rest)' /\ NothingDropped'
  <2>. SUFFICES ASSUME phase = "committing" PROVE Coming(txn.rows, Rest)' /\ NothingDropped'
    BY <1>5
  <2>1. Coming(txn.rows, Rest)'
    BY <1>1, <1>5, <1>6, <1>8, SeqsOK DEF IInv, Coming, ComingIn
  <2>2. NothingDropped'
    BY <1>6 DEF IInv, NothingDropped
  <2>. QED
    BY <2>1, <2>2
<1>11. MirrorFaithful'
  BY <1>6 DEF IInv, MirrorFaithful
<1>12. FlightSafe'
  BY <1>1, <1>6, SeqsOK DEF FlightSafe
<1>13. PhaseSafe'
  BY <1>5, <1>6 DEF IInv, PhaseSafe
<1>. QED
  BY <1>7, <1>9, <1>10, <1>11, <1>12, <1>13 DEF IInv

LEMMA ReceiveEntryKeeps ==
    ASSUME IInv, ReceiveEntry
    PROVE  IInv'
<1>. DEFINE seq == clientCursor + 1
            op == [kind |-> "append", id |-> nextId, bytes |-> server[seq], authoritySeq |-> seq]
<1>1. TypeOK /\ ~closed /\ ~discarded /\ FlightSafe
  BY DEF IInv, ReceiveEntry, FlightSafe
<1>2. seq \in 1..Len(server) /\ server[seq] \in Update /\ seq \in Nat \ {0} /\ seq # NULL
  BY <1>1, SeqsOK, ElementOfSeq DEF ReceiveEntry, NULL
<1>3. /\ op \in DurableOp /\ op.kind = "append" /\ op.id = nextId /\ op.bytes = server[seq]
      /\ op.authoritySeq = seq
  BY <1>1, <1>2 DEF TypeOK, DurableOp, AppendOp, Position
<1>4. /\ enqueue(op)
      /\ doc' = doc \union server[seq] /\ clientCursor' = seq /\ nextId' = nextId + 1
      /\ UNCHANGED <<rows, held, applied, batch, txn, outbox, cursor, lastCoalescedId,
                     acknowledgedThroughId, closed, discarded, inflight, environment,
                     failedLast, budgets>>
  BY DEF ReceiveEntry
<1>. HIDE DEF op
<1>5. /\ Rest' = Append(Rest, op) /\ Pending' = Append(Pending, op)
      /\ queue' \in Seq(DurableOp) /\ phase' \in {"scheduled", "committing"}
      /\ ((phase' = "committing") <=> (phase = "committing")) /\ requested' \in BOOLEAN
  BY <1>1, <1>3, <1>4, Enqueued
<1>7. TypeOK'
  <2>1. doc' \in Update /\ nextId' \in Nat \ {0} /\ clientCursor' \in Nat
    BY <1>1, <1>2, <1>4 DEF TypeOK, Update
  <2>. QED
    BY <1>1, <1>4, <1>5, <2>1 DEF TypeOK, budgets, environment
<1>8. ASSUME NEW R, NEW ops \in Seq(DurableOp), Coming(R, ops)
      PROVE  ComingIn(R, Append(ops, op), nextId + 1, acknowledgedThroughId, inflight, server,
                      TRUE, seq, doc')
  <2>1. ComingIn(R, ops, nextId, acknowledgedThroughId, inflight, server, TRUE, clientCursor, doc)
    BY <1>1, <1>8 DEF Coming, ComingIn
  <2>2. acknowledgedThroughId < nextId /\ inflight.throughId < nextId
    BY <1>1 DEF FlightSafe
  <2>3. \A x \in Edits : x \in doc' <=> x \in doc \/ x \in op.bytes
    BY <1>3, <1>4
  <2>4. InLog(op.bytes, server)
    BY <1>2, <1>3 DEF InLog
  <2>5. \A j \in 1..seq : j \in 1..clientCursor \/ op.bytes = server[j]
    BY <1>1, <1>3, SeqsOK
  <2>. HIDE DEF seq
  <2>. QED
    BY <1>1, <1>2, <1>3, <2>1, <2>2, <2>3, <2>4, <2>5, SeqsOK, ComingAppend
<1>. HIDE DEF seq
<1>9. Coming(rows, Pending)'
  BY <1>1, <1>4, <1>5, <1>8, SeqsOK DEF IInv, Coming, ComingIn, environment
<1>10. phase' = "committing" => Coming(txn.rows, Rest)' /\ NothingDropped'
  <2>. SUFFICES ASSUME phase = "committing" PROVE Coming(txn.rows, Rest)' /\ NothingDropped'
    BY <1>5
  <2>1. Coming(txn.rows, Rest)'
    BY <1>1, <1>4, <1>5, <1>8, SeqsOK DEF IInv, Coming, ComingIn, environment
  <2>2. NothingDropped'
    BY <1>4 DEF IInv, NothingDropped
  <2>. QED
    BY <2>1, <2>2
<1>11. MirrorFaithful'
  BY <1>4 DEF IInv, MirrorFaithful
<1>12. FlightSafe'
  BY <1>1, <1>2, <1>4, SeqsOK DEF FlightSafe, environment
<1>13. PhaseSafe'
  BY <1>4, <1>5 DEF IInv, PhaseSafe
<1>. QED
  BY <1>7, <1>9, <1>10, <1>11, <1>12, <1>13 DEF IInv

LEMMA ReceiveAckKeeps ==
    ASSUME IInv, ReceiveAck
    PROVE  IInv'
<1>. DEFINE op == [kind |-> "ack", throughId |-> inflight.throughId,
                   authoritySeq |-> inflight.position]
<1>1. TypeOK /\ ~closed /\ ~discarded /\ FlightSafe
  BY DEF IInv, ReceiveAck, FlightSafe
<1>2. /\ inflight.position = clientCursor + 1 /\ inflight.throughId \in Nat \ {0}
      /\ inflight.position \in 1..Len(server) /\ server[inflight.position] = inflight.bytes
      /\ clientCursor + 1 <= Len(server) /\ inflight.position \in Nat \ {0}
  <2>1. inflight # None /\ inflight.position = clientCursor + 1
    BY DEF ReceiveAck, AnswersNext
  <2>0. clientCursor \in Nat /\ inflight.throughId \in Nat /\ Len(server) \in Nat
    BY <1>1, SeqsOK
  <2>2. inflight.position # 0 /\ inflight.throughId # 0
    BY <1>1, <2>0, <2>1 DEF FlightSafe
  <2>3. inflight.position \in 1..Len(server) /\ server[inflight.position] = inflight.bytes
    BY <1>1, <2>2 DEF FlightSafe
  <2>. QED
    BY <2>0, <2>1, <2>2, <2>3
<1>3. /\ op \in DurableOp /\ op.kind = "ack" /\ op.throughId = inflight.throughId
      /\ op.authoritySeq = clientCursor + 1
  BY <1>1, <1>2 DEF DurableOp, AckOp
<1>. DEFINE acked == IF inflight.throughId > acknowledgedThroughId
                       THEN inflight.throughId ELSE acknowledgedThroughId
<1>4. /\ enqueue(op)
      /\ clientCursor' = clientCursor + 1 /\ acknowledgedThroughId' = acked /\ inflight' = None
      /\ UNCHANGED <<doc, rows, held, applied, batch, txn, outbox, cursor, nextId, lastCoalescedId,
                     closed, discarded, environment, failedLast, budgets>>
  BY <1>2 DEF ReceiveAck
<1>. HIDE DEF op
<1>5. /\ Rest' = Append(Rest, op) /\ Pending' = Append(Pending, op)
      /\ queue' \in Seq(DurableOp) /\ phase' \in {"scheduled", "committing"}
      /\ ((phase' = "committing") <=> (phase = "committing")) /\ requested' \in BOOLEAN
  BY <1>1, <1>3, <1>4, Enqueued
<1>6. acked \in Nat /\ acked < nextId
  BY <1>1, <1>2, SeqsOK DEF FlightSafe
<1>7. TypeOK'
  <2>1. clientCursor' \in Nat /\ acknowledgedThroughId' \in Nat
    BY <1>1, <1>4, <1>6, SeqsOK
  <2>2. inflight' \in [throughId : Nat, bytes : Update, position : Nat]
    BY <1>4 DEF None, Update
  <2>. HIDE DEF acked
  <2>. QED
    BY <1>1, <1>4, <1>5, <2>1, <2>2 DEF TypeOK, budgets, environment
<1>8. ASSUME NEW R, NEW ops \in Seq(DurableOp), Coming(R, ops), Holds(R, inflight.bytes)
      PROVE  ComingIn(R, Append(ops, op), nextId, acked, None, server, TRUE,
                      clientCursor + 1, doc)
  <2>1. ComingIn(R, ops, nextId, acknowledgedThroughId, inflight, server, TRUE, clientCursor, doc)
    BY <1>1, <1>8 DEF Coming, ComingIn
  <2>2. server[clientCursor + 1] = inflight.bytes
    BY <1>2
  <2>. QED
    BY <1>1, <1>2, <1>3, <1>6, <1>8, <2>1, <2>2, SeqsOK, ComingAck
<1>. HIDE DEF acked
<1>9. Coming(rows, Pending)'
  BY <1>1, <1>4, <1>5, <1>8, SeqsOK DEF IInv, Coming, ComingIn, environment, FlightSafe
<1>10. phase' = "committing" => Coming(txn.rows, Rest)' /\ NothingDropped'
  <2>. SUFFICES ASSUME phase = "committing" PROVE Coming(txn.rows, Rest)' /\ NothingDropped'
    BY <1>5
  <2>1. Holds(txn.rows, inflight.bytes)
    BY <1>1, HoldsThrough DEF IInv, NothingDropped, FlightSafe
  <2>2. Coming(txn.rows, Rest)'
    BY <1>1, <1>4, <1>5, <1>8, <2>1, SeqsOK DEF IInv, Coming, ComingIn, environment
  <2>3. NothingDropped'
    BY <1>4 DEF IInv, NothingDropped
  <2>. QED
    BY <2>2, <2>3
<1>11. MirrorFaithful'
  BY <1>4 DEF IInv, MirrorFaithful
<1>12. FlightSafe'
  <2>1. None.position = 0 /\ None.throughId = 0 /\ None.bytes = {}
    BY DEF None
  <2>2. Holds(rows, {})
    BY DEF Holds
  <2>. QED
    BY <1>1, <1>2, <1>4, <1>6, <2>1, <2>2, SeqsOK DEF FlightSafe, environment
<1>13. PhaseSafe'
  BY <1>4, <1>5 DEF IInv, PhaseSafe
<1>. QED
  BY <1>7, <1>9, <1>10, <1>11, <1>12, <1>13 DEF IInv

LEMMA FlushKeeps ==
    ASSUME IInv, Flush
    PROVE  IInv'
<1>1. /\ TypeOK /\ RequestFlush
      /\ UNCHANGED <<doc, rows, held, queue, applied, batch, txn, outbox, cursor, nextId,
                   lastCoalescedId, acknowledgedThroughId, closed, discarded,
                   clientCursor, inflight, environment, failedLast, budgets>>
  BY DEF IInv, Flush
<1>2. /\ phase' \in {"scheduled", "committing"}
      /\ ((phase' = "committing") <=> (phase = "committing")) /\ requested' \in BOOLEAN
  BY <1>1, Requested
<1>3. TypeOK'
  BY <1>1, <1>2 DEF TypeOK, budgets, environment
<1>4. Pending' = Pending /\ Rest' = Rest
  BY <1>1 DEF Pending, Rest
<1>5. Coming(rows, Pending)' /\ (phase' = "committing" => Coming(txn.rows, Rest)')
  BY <1>1, <1>2, <1>4 DEF IInv, Coming, environment
<1>6. phase' = "committing" => NothingDropped'
  BY <1>1, <1>2 DEF IInv, NothingDropped
<1>7. MirrorFaithful' /\ FlightSafe' /\ PhaseSafe'
  BY <1>1, <1>2 DEF IInv, MirrorFaithful, FlightSafe, PhaseSafe, environment
<1>. QED
  BY <1>3, <1>5, <1>6, <1>7 DEF IInv

\* A batch is taken: everything unconfirmed is what the transaction has to apply.
LEMMA EmptyConcat ==
    ASSUME NEW s \in Seq(DurableOp)
    PROVE  <<>> \o s = s /\ s \o <<>> = s /\ <<>> \in Seq(DurableOp)
OBVIOUS

LEMMA Taken ==
    ASSUME NEW ops \in Seq(DurableOp), TakeBatch(ops)
    PROVE  /\ Rest' = ops /\ Pending' = ops
           /\ queue' \in Seq(DurableOp) /\ applied' \in Seq(DurableOp) /\ batch' \in Seq(DurableOp)
           /\ phase' = "committing" /\ requested' \in BOOLEAN
           /\ applied' = <<>> /\ queue' = <<>>
<1>1. /\ requested' = FALSE /\ applied' = <<>> /\ batch' = ops /\ queue' = <<>>
      /\ phase' = "committing"
  BY DEF TakeBatch
<1>2. Rest' = ops
  BY <1>1, EmptyConcat DEF Rest
<1>3. Pending' = ops
  BY <1>1, <1>2, EmptyConcat DEF Pending
<1>. QED
  BY <1>1, <1>2, <1>3, EmptyConcat

\* A transaction starts as a copy of the file and of the mirror.
LEMMA FreshTxn ==
    ASSUME rows' \in SUBSET Row, outbox' \in SUBSET OutboxEntry, cursor' \in Nat, held' \in Int,
           MirrorFaithful',
           txn' = [rows |-> rows', outbox |-> outbox', cursor |-> cursor', grew |-> FALSE, chain |-> held']
    PROVE  /\ txn' \in [rows : SUBSET Row, outbox : SUBSET OutboxEntry, cursor : Nat, grew : BOOLEAN,
                   chain : Int]
           /\ txn'.rows = rows' /\ NothingDropped'
<1>1. /\ txn'.rows = rows' /\ txn'.outbox = outbox' /\ txn'.grew = FALSE
      /\ txn' \in [rows : SUBSET Row, outbox : SUBSET OutboxEntry, cursor : Nat, grew : BOOLEAN,
                   chain : Int]
  OBVIOUS
<1>2. ASSUME NEW row \in rows'
      PROVE  /\ Holds(txn'.rows, row.bytes)
             /\ \E other \in txn'.rows : row.id <= other.id
  <2>1. row.id <= row.id
    BY DEF Row
  <2>. QED
    BY <1>1, <2>1 DEF Holds
<1>3. FoldableRows(txn'.rows) \subseteq FoldableRows(rows')
  BY <1>1
<1>4. ~discarded' => txn'.outbox = readOutbox(txn'.rows)
  BY <1>1 DEF MirrorFaithful
<1>5. \A row \in OwedRows(txn'.rows) : row \in rows'
  BY <1>1 DEF OwedRows
<1>. QED
  BY <1>1, <1>2, <1>3, <1>4, <1>5 DEF NothingDropped

LEMMA StartDrainKeeps ==
    ASSUME IInv, StartDrain
    PROVE  IInv'
<1>1. /\ TypeOK /\ phase = "scheduled" /\ applied = <<>> /\ batch = <<>>
      /\ UNCHANGED <<doc, rows, held, outbox, cursor, nextId, lastCoalescedId,
                     acknowledgedThroughId, closed, discarded, clientCursor, inflight,
                     environment, failedLast, budgets>>
  BY DEF IInv, StartDrain, PhaseSafe
<1>2. Pending = queue
  <2>1. Rest = queue
    BY <1>1, SeqsOK, EmptyConcat DEF Rest
  <2>. QED
    BY <1>1, <2>1, SeqsOK, EmptyConcat DEF Pending
<1>3. MirrorFaithful'
  BY <1>1 DEF IInv, MirrorFaithful
<1>4. CASE queue = <<>>
  <2>1. phase' = "idle" /\ UNCHANGED <<requested, applied, batch, queue, txn>>
    BY <1>4 DEF StartDrain
  <2>2. TypeOK'
    BY <1>1, <2>1 DEF TypeOK, budgets, environment
  <2>3. Coming(rows, Pending)'
    BY <1>1, <2>1 DEF IInv, Coming, environment, Pending, Rest
  <2>4. FlightSafe' /\ PhaseSafe'
    BY <1>1, <1>4, <2>1 DEF IInv, FlightSafe, PhaseSafe, environment
  <2>. QED
    BY <1>3, <2>1, <2>2, <2>3, <2>4 DEF IInv
<1>5. CASE queue # <<>>
  <2>1. /\ TakeBatch(queue)
        /\ txn' = [rows |-> rows, outbox |-> outbox, cursor |-> cursor, grew |-> FALSE, chain |-> held]
    BY <1>5 DEF StartDrain
  <2>2. /\ Rest' = queue /\ Pending' = queue
        /\ queue' \in Seq(DurableOp) /\ applied' \in Seq(DurableOp) /\ batch' \in Seq(DurableOp)
        /\ phase' = "committing" /\ requested' \in BOOLEAN
        /\ applied' = <<>> /\ queue' = <<>>
    BY <1>1, <2>1, SeqsOK, Taken
  <2>3. /\ txn' \in [rows : SUBSET Row, outbox : SUBSET OutboxEntry, cursor : Nat, grew : BOOLEAN,
                   chain : Int]
        /\ txn'.rows = rows' /\ NothingDropped'
    <3>1. /\ rows' \in SUBSET Row /\ outbox' \in SUBSET OutboxEntry /\ cursor' \in Nat
          /\ held' \in Int
      BY <1>1 DEF TypeOK
    <3>2. txn' = [rows |-> rows', outbox |-> outbox', cursor |-> cursor', grew |-> FALSE, chain |-> held']
      BY <1>1, <2>1
    <3>. QED
      BY <1>3, <3>1, <3>2, FreshTxn
  <2>4. TypeOK'
    BY <1>1, <2>2, <2>3 DEF TypeOK, budgets, environment
  <2>5. Coming(rows, Pending)' /\ Coming(txn.rows, Rest)'
    BY <1>1, <1>2, <2>2, <2>3 DEF IInv, Coming, environment
  <2>6. FlightSafe' /\ PhaseSafe'
    BY <1>1, <2>2 DEF IInv, FlightSafe, PhaseSafe, environment
  <2>. QED
    BY <1>3, <2>3, <2>4, <2>5, <2>6 DEF IInv
<1>. QED
  BY <1>4, <1>5

LEMMA SplitIndex ==
    ASSUME NEW m \in Nat, NEW n \in Nat \ {0}, NEW i \in 1..(m + n)
    PROVE  \/ i <= m
           \/ i = m + 1
           \/ /\ i > m + 1 /\ i - (m + 1) \in 1..(n - 1) /\ (i - (m + 1)) + 1 = i - m
              /\ i \in 1..((m + 1) + (n - 1))
OBVIOUS

\* The batch gives its head to the applied part.
LEMMA MoveHead ==
    ASSUME NEW s1 \in Seq(DurableOp), NEW s2 \in Seq(DurableOp), s2 # <<>>,
           NEW s3 \in Seq(DurableOp)
    PROVE  /\ Append(s1, Head(s2)) \in Seq(DurableOp) /\ Append(s1, Head(s2)) # <<>>
           /\ Tail(s2) \in Seq(DurableOp)
           /\ s2 \o s3 # <<>> /\ Head(s2 \o s3) = Head(s2)
           /\ Tail(s2) \o s3 = Tail(s2 \o s3)
           /\ Append(s1, Head(s2)) \o (Tail(s2) \o s3) = s1 \o (s2 \o s3)
           /\ Len(s1) + 1 \in 1..Len(s1 \o (s2 \o s3))
           /\ (s1 \o (s2 \o s3))[Len(s1) + 1] = Head(s2)
<1>1. /\ Head(s2) = s2[1] /\ Head(s2) \in DurableOp /\ Tail(s2) \in Seq(DurableOp)
      /\ Len(s2) \in Nat \ {0} /\ Len(Tail(s2)) = Len(s2) - 1 /\ Len(s1) \in Nat
      /\ Len(s3) \in Nat
      /\ \A i \in 1..Len(Tail(s2)) : i + 1 \in 1..Len(s2) /\ Tail(s2)[i] = s2[i + 1]
  BY HeadAndTail, LenProperties
<1>2. /\ Append(s1, Head(s2)) \in Seq(DurableOp) /\ Len(Append(s1, Head(s2))) = Len(s1) + 1
      /\ \A i \in 1..(Len(s1) + 1) :
            Append(s1, Head(s2))[i] = IF i <= Len(s1) THEN s1[i] ELSE Head(s2)
  BY <1>1, AppendProperties
<1>3. Append(s1, Head(s2)) # <<>>
  BY <1>1, <1>2
<1>4. /\ s2 \o s3 \in Seq(DurableOp) /\ Len(s2 \o s3) = Len(s2) + Len(s3)
      /\ \A i \in 1..(Len(s2) + Len(s3)) :
            (s2 \o s3)[i] = IF i <= Len(s2) THEN s2[i] ELSE s3[i - Len(s2)]
  BY ConcatProperties
<1>5. s2 \o s3 # <<>> /\ (s2 \o s3)[1] = Head(s2) /\ Head(s2 \o s3) = Head(s2)
  BY <1>1, <1>4
<1>6. /\ Tail(s2) \o s3 \in Seq(DurableOp) /\ Len(Tail(s2) \o s3) = Len(s2) - 1 + Len(s3)
      /\ \A i \in 1..(Len(s2) - 1 + Len(s3)) :
            (Tail(s2) \o s3)[i] = IF i <= Len(s2) - 1 THEN Tail(s2)[i] ELSE s3[i - (Len(s2) - 1)]
  BY <1>1, ConcatProperties
<1>7. /\ Tail(s2 \o s3) \in Seq(DurableOp) /\ Len(Tail(s2 \o s3)) = Len(s2) + Len(s3) - 1
      /\ \A i \in 1..(Len(s2) + Len(s3) - 1) : Tail(s2 \o s3)[i] = (s2 \o s3)[i + 1]
  BY <1>1, <1>4, <1>5, HeadAndTail
<1>8. Tail(s2) \o s3 = Tail(s2 \o s3)
  <2>1. \A i \in 1..(Len(s2) + Len(s3) - 1) : (Tail(s2) \o s3)[i] = Tail(s2 \o s3)[i]
    BY <1>1, <1>4, <1>6, <1>7
  <2>. QED
    BY <1>1, <1>6, <1>7, <2>1, SeqEqual
<1>9. /\ s1 \o (s2 \o s3) \in Seq(DurableOp)
      /\ Len(s1 \o (s2 \o s3)) = Len(s1) + Len(s2 \o s3)
      /\ \A i \in 1..(Len(s1) + Len(s2 \o s3)) :
            (s1 \o (s2 \o s3))[i] = IF i <= Len(s1) THEN s1[i] ELSE (s2 \o s3)[i - Len(s1)]
  BY <1>4, ConcatProperties
<1>10. Append(s1, Head(s2)) \o (Tail(s2) \o s3) = s1 \o (s2 \o s3)
  <2>. DEFINE a == Append(s1, Head(s2))
              t == Tail(s2 \o s3)
              u == s2 \o s3
  <2>1. /\ a \in Seq(DurableOp) /\ t \in Seq(DurableOp) /\ Len(a) = Len(s1) + 1
        /\ Len(t) = Len(u) - 1 /\ Len(u) \in Nat \ {0} /\ u \in Seq(DurableOp)
        /\ u[1] = Head(s2)
    BY <1>1, <1>2, <1>4, <1>5, <1>7
  <2>2. \A i \in 1..(Len(u) - 1) : t[i] = u[i + 1]
    BY <1>1, <1>4, <1>7
  <2>3. \A i \in 1..(Len(s1) + 1) : a[i] = IF i <= Len(s1) THEN s1[i] ELSE u[1]
    BY <1>2, <2>1
  <2>4. \A i \in 1..(Len(s1) + Len(u)) : (s1 \o u)[i] = IF i <= Len(s1) THEN s1[i] ELSE u[i - Len(s1)]
    BY <1>9
  <2>. HIDE DEF a, t, u
  <2>5. /\ a \o t \in Seq(DurableOp) /\ s1 \o u \in Seq(DurableOp)
        /\ Len(a \o t) = Len(a) + Len(t) /\ Len(s1 \o u) = Len(s1) + Len(u)
        /\ \A i \in 1..(Len(a) + Len(t)) : (a \o t)[i] = IF i <= Len(a) THEN a[i] ELSE t[i - Len(a)]
    BY <2>1, ConcatProperties
  <2>6. \A i \in 1..(Len(s1) + Len(u)) : (a \o t)[i] = (s1 \o u)[i]
    <3>. SUFFICES ASSUME NEW i \in 1..(Len(s1) + Len(u)) PROVE (a \o t)[i] = (s1 \o u)[i]
      OBVIOUS
    <3>0. Len(s1) \in Nat /\ Len(u) \in Nat
      BY <1>1, <2>1
    <3>1. CASE i <= Len(s1)
      <4>1. (a \o t)[i] = a[i] /\ a[i] = s1[i] /\ (s1 \o u)[i] = s1[i]
        BY <3>0, <3>1, <2>1, <2>3, <2>4, <2>5
      <4>. QED
        BY <4>1
    <3>2. CASE i = Len(s1) + 1
      <4>1. (a \o t)[i] = a[i] /\ a[i] = u[1] /\ (s1 \o u)[i] = u[1]
        BY <3>0, <3>2, <2>1, <2>3, <2>4, <2>5
      <4>. QED
        BY <4>1
    <3>3. CASE i > Len(s1) + 1
      <4>. DEFINE k == i - (Len(s1) + 1)
      <4>1. k \in 1..(Len(u) - 1) /\ k + 1 = i - Len(s1) /\ i \in 1..(Len(a) + Len(t))
        BY <3>0, <3>3, <2>1, SplitIndex
      <4>2. (a \o t)[i] = t[k]
        BY <3>0, <3>3, <4>1, <2>1, <2>5
      <4>3. t[k] = u[i - Len(s1)]
        <5>. HIDE DEF k
        <5>. QED
          BY <4>1, <2>2
      <4>4. (s1 \o u)[i] = u[i - Len(s1)]
        BY <3>0, <3>3, <2>4
      <4>. QED
        BY <4>2, <4>3, <4>4
    <3>. QED
      BY <3>0, <3>1, <3>2, <3>3, <2>1, SplitIndex
  <2>7. a \o t = s1 \o u
    <3>1. Len(a \o t) = Len(s1 \o u) /\ Len(s1 \o u) = Len(s1) + Len(u)
      BY <1>1, <2>1, <2>5
    <3>. QED
      BY <2>5, <2>6, <3>1, SeqEqual
  <2>. QED
    BY <1>8, <2>7 DEF a, t, u
<1>11. Len(s1) + 1 \in 1..Len(s1 \o (s2 \o s3)) /\ (s1 \o (s2 \o s3))[Len(s1) + 1] = Head(s2)
  BY <1>1, <1>4, <1>5, <1>9
<1>. QED
  BY <1>1, <1>2, <1>3, <1>5, <1>8, <1>10, <1>11

\* What one operation does to what the transaction keeps of the file.
LEMMA ApplyKeeps ==
    ASSUME NEW R \in SUBSET Row, NEW S \in SUBSET Row, NEW ops \in Seq(DurableOp), ops # <<>>,
           NEW next \in Nat, MergeSafe(S, ops), IdsOrdered(S, ops, next),
           \A row \in R : Holds(S, row.bytes) /\ \E other \in S : row.id <= other.id,
           \A row \in OwedRows(S) : row \in R \/ \A old \in R : old.id < row.id,
           HasId(Head(ops)) => \A old \in R : old.id < Head(ops).id
    PROVE  /\ \A row \in R : /\ Holds(applyOp(S, Head(ops)), row.bytes)
                             /\ \E other \in applyOp(S, Head(ops)) : row.id <= other.id
           /\ \A row \in OwedRows(applyOp(S, Head(ops))) :
                row \in R \/ \A old \in R : old.id < row.id
           /\ ~Grew(S, Head(ops)) => FoldableRows(applyOp(S, Head(ops))) \subseteq FoldableRows(S)
<1>. DEFINE op == Head(ops)
            T == applyOp(S, op)
<1>1. op = ops[1] /\ op \in DurableOp /\ 1 \in 1..Len(ops)
  BY HeadAndTail
<1>2. \A row \in R : row.id \in Nat
  BY DEF Row
<1>3. \A row \in S : row.id \in Nat
  BY DEF Row
<1>4. HasId(op) => op.id \in Nat /\ \A row \in S : row.id < op.id
  BY <1>1, OpShape DEF IdsOrdered
<1>5. \A row \in R : Holds(T, row.bytes)
  <2>. HIDE DEF op
  <2>. QED
    BY ApplyHolds DEF Holds, op
<1>. HIDE DEF op
<1>6. ASSUME NEW row \in R
      PROVE  \E other \in T : row.id <= other.id
  <2>1. PICK mine \in S : row.id <= mine.id
    OBVIOUS
  <2>2. CASE HasId(op)
    <3>1. PICK new \in T : new.id = op.id
      BY <1>1, <2>2, ApplyShape
    <3>2. row.id <= op.id
      BY <1>2, <1>3, <1>4, <2>1, <2>2
    <3>. QED
      BY <3>1, <3>2
  <2>3. CASE ~HasId(op)
    <3>1. op.kind # "mergeOwed"
      BY <2>3 DEF HasId
    <3>2. mine \in T \/ \E other \in T : other.id = mine.id
      BY <1>1, <3>1, ApplyShape
    <3>. QED
      BY <2>1, <3>2
  <2>. QED
    BY <2>2, <2>3
<1>7. ASSUME NEW row \in OwedRows(T)
      PROVE  row \in R \/ \A old \in R : old.id < row.id
  <2>1. row \in T /\ row.authoritySeq = NULL
    BY DEF OwedRows
  <2>2. op.kind = "ack" => op.authoritySeq # NULL
    BY <1>1, OpShape DEF NULL
  <2>3. \/ row \in S
        \/ HasId(op) /\ row.id = op.id
    BY <1>1, <2>1, <2>2, ApplyRow
  <2>4. row \in S => row \in OwedRows(S)
    BY <2>1 DEF OwedRows
  <2>. QED
    BY <2>3, <2>4 DEF op
<1>8. ASSUME ~Grew(S, op), NEW row \in FoldableRows(T)
      PROVE  row \in FoldableRows(S)
  <2>1. row \in T /\ row.authoritySeq # NULL
    BY DEF FoldableRows
  <2>2. op.kind # "append"
    BY <1>8 DEF Grew
  <2>3. SeqOf(op) = NULL
    BY <2>2 DEF SeqOf
  <2>4. op.kind = "ack" => \A old \in S : ~(old.id <= op.throughId /\ old.authoritySeq = NULL)
    BY <1>8 DEF Grew, OwedRows
  <2>5. row \in S
    BY <1>1, <2>1, <2>3, <2>4, ApplyRow
  <2>. QED
    BY <2>1, <2>5 DEF FoldableRows
<1>. QED
  BY <1>5, <1>6, <1>7, <1>8 DEF op

LEMMA ApplyOpKeeps ==
    ASSUME IInv, ApplyOp
    PROVE  IInv'
<1>. DEFINE op == Head(batch)
<1>1. /\ TypeOK /\ phase = "committing" /\ batch # <<>>
      /\ txn' = [rows   |-> applyOp(txn.rows, op),
                 outbox |-> mirrorOutbox(txn.outbox, op),
                 cursor |-> mirrorCursor(txn.cursor, op),
                 grew   |-> txn.grew \/ Grew(txn.rows, op),
                 chain  |-> Counted(txn.chain, op)]
      /\ applied' = Append(applied, op) /\ batch' = Tail(batch)
      /\ UNCHANGED <<doc, rows, held, queue, phase, requested, outbox, cursor, nextId,
                     lastCoalescedId, acknowledgedThroughId, closed, discarded,
                     clientCursor, inflight, environment, failedLast, budgets>>
  BY DEF IInv, ApplyOp
<1>2. /\ applied' \in Seq(DurableOp) /\ applied' # <<>> /\ batch' \in Seq(DurableOp)
      /\ Rest # <<>> /\ Head(Rest) = op /\ Rest' = Tail(Rest) /\ Pending' = Pending
      /\ Len(applied) + 1 \in 1..Len(Pending) /\ Pending[Len(applied) + 1] = op
  <2>1. applied \in Seq(DurableOp) /\ batch \in Seq(DurableOp) /\ queue \in Seq(DurableOp)
    BY <1>1, SeqsOK
  <2>2. /\ Append(applied, Head(batch)) \in Seq(DurableOp) /\ Append(applied, Head(batch)) # <<>>
        /\ Tail(batch) \in Seq(DurableOp)
        /\ batch \o queue # <<>> /\ Head(batch \o queue) = Head(batch)
        /\ Tail(batch) \o queue = Tail(batch \o queue)
        /\ Append(applied, Head(batch)) \o (Tail(batch) \o queue) = applied \o (batch \o queue)
        /\ Len(applied) + 1 \in 1..Len(applied \o (batch \o queue))
        /\ (applied \o (batch \o queue))[Len(applied) + 1] = Head(batch)
    BY <1>1, <2>1, MoveHead
  <2>3. Rest' = Tail(batch) \o queue
    BY <1>1 DEF Rest
  <2>4. Pending' = Append(applied, Head(batch)) \o (Tail(batch) \o queue)
    BY <1>1, <2>3 DEF Pending
  <2>. QED
    BY <1>1, <2>2, <2>3, <2>4 DEF Rest, Pending
<1>3. op \in DurableOp
  BY <1>1, SeqsOK, HeadAndTail
<1>. HIDE DEF op
<1>4. /\ txn'.rows = applyOp(txn.rows, op) /\ txn'.outbox = mirrorOutbox(txn.outbox, op)
      /\ txn'.cursor = mirrorCursor(txn.cursor, op)
      /\ txn'.grew = (txn.grew \/ Grew(txn.rows, op))
  BY <1>1
<1>5. /\ txn.rows \in SUBSET Row /\ txn.outbox \in SUBSET OutboxEntry
      /\ txn.cursor \in Nat /\ txn.grew \in BOOLEAN
  BY <1>1 DEF TypeOK
<1>6. txn'.rows \in SUBSET Row
  BY <1>3, <1>4, <1>5, ApplyShape
<1>7. TypeOK'
  <2>1. mirrorOutbox(txn.outbox, op) \in SUBSET OutboxEntry
    <3>1. HasId(op) => [id |-> op.id, bytes |-> op.bytes] \in OutboxEntry
      BY <1>3, OpShape DEF OutboxEntry
    <3>2. op.kind \in {"append", "mergeOwed"} => HasId(op)
      BY DEF HasId
    <3>. QED
      BY <1>3, <1>5, <3>1, <3>2, OpShape DEF mirrorOutbox
  <2>2. mirrorCursor(txn.cursor, op) \in Nat
    <3>1. op.kind # "mergeOwed" => op.authoritySeq \in Nat \/ op.authoritySeq = NULL
      BY <1>3, OpShape DEF Position
    <3>. QED
      BY <1>5, <3>1 DEF mirrorCursor, NULL
  <2>3. (txn.grew \/ Grew(txn.rows, op)) \in BOOLEAN
    OBVIOUS
  <2>4. Counted(txn.chain, op) \in Int
    <3>1. /\ Rest \in Seq(DurableOp) /\ nextId \in Nat /\ txn.chain \in Int
      BY <1>1, SeqsOK DEF TypeOK
    <3>2. /\ IsFiniteSet(txn.rows) /\ IdsOrdered(txn.rows, Rest, nextId)
          /\ MergeSafe(txn.rows, Rest)
      BY <1>1 DEF IInv, Coming, ComingIn
    <3>. QED
      BY <1>2, <1>5, <3>1, <3>2, CountedApply
  <2>5. txn' \in [rows : SUBSET Row, outbox : SUBSET OutboxEntry, cursor : Nat, grew : BOOLEAN,
                  chain : Int]
    BY <1>1, <1>4, <1>6, <2>1, <2>2, <2>3, <2>4
  <2>. QED
    BY <1>1, <1>2, <2>5 DEF TypeOK, budgets, environment
<1>8. Coming(rows, Pending)'
  BY <1>1, <1>2 DEF IInv, Coming, environment
<1>9. Coming(txn.rows, Rest)'
  <2>1. ComingIn(txn.rows, Rest, nextId, acknowledgedThroughId, inflight, server, ~discarded,
                 clientCursor, doc)
    BY <1>1 DEF IInv, Coming
  <2>2. ComingIn(applyOp(txn.rows, op), Tail(Rest), nextId, acknowledgedThroughId, inflight,
                 server, ~discarded, clientCursor, doc)
    BY <1>1, <1>2, <2>1, SeqsOK, ComingApply
  <2>. QED
    BY <1>1, <1>2, <1>4, <2>2 DEF Coming, environment
<1>10. NothingDropped'
  <2>1. NothingDropped /\ rows \in SUBSET Row
    BY <1>1 DEF IInv, TypeOK
  <2>2. HasId(op) => \A old \in rows : old.id < op.id
    <3>1. IdsOrdered(rows, Pending, nextId)
      BY DEF IInv, Coming, ComingIn
    <3>. QED
      BY <1>2, <3>1 DEF IdsOrdered
  <2>3. MergeSafe(txn.rows, Rest) /\ IdsOrdered(txn.rows, Rest, nextId)
    BY <1>1 DEF IInv, Coming, ComingIn
  <2>4. \A row \in rows : Holds(txn.rows, row.bytes) /\ \E other \in txn.rows : row.id <= other.id
    BY <2>1 DEF NothingDropped
  <2>5. \A row \in OwedRows(txn.rows) : row \in rows \/ \A old \in rows : old.id < row.id
    BY <2>1 DEF NothingDropped
  <2>6. /\ \A row \in rows : /\ Holds(applyOp(txn.rows, op), row.bytes)
                             /\ \E other \in applyOp(txn.rows, op) : row.id <= other.id
        /\ \A row \in OwedRows(applyOp(txn.rows, op)) :
                row \in rows \/ \A old \in rows : old.id < row.id
        /\ ~Grew(txn.rows, op) => FoldableRows(applyOp(txn.rows, op)) \subseteq FoldableRows(txn.rows)
    <3>1. Rest \in Seq(DurableOp) /\ nextId \in Nat
      BY <1>1, SeqsOK
    <3>2. Rest # <<>> /\ op = Head(Rest)
      BY <1>2
    <3>3. HasId(Head(Rest)) => \A old \in rows : old.id < Head(Rest).id
      BY <2>2, <3>2
    <3>4. /\ \A row \in rows : /\ Holds(applyOp(txn.rows, Head(Rest)), row.bytes)
                               /\ \E other \in applyOp(txn.rows, Head(Rest)) : row.id <= other.id
          /\ \A row \in OwedRows(applyOp(txn.rows, Head(Rest))) :
                row \in rows \/ \A old \in rows : old.id < row.id
          /\ ~Grew(txn.rows, Head(Rest)) =>
                FoldableRows(applyOp(txn.rows, Head(Rest))) \subseteq FoldableRows(txn.rows)
      BY <1>5, <2>1, <2>3, <2>4, <2>5, <3>1, <3>2, <3>3, ApplyKeeps
    <3>. QED
      BY <3>2, <3>4
  <2>7. ~txn'.grew => FoldableRows(txn'.rows) \subseteq FoldableRows(rows)
    BY <1>4, <2>1, <2>6 DEF NothingDropped
  <2>8. ~discarded => txn'.outbox = readOutbox(txn'.rows)
    BY <1>3, <1>4, <1>5, <2>1, MirrorApply DEF NothingDropped
  <2>. QED
    BY <1>1, <1>2, <1>4, <2>6, <2>7, <2>8 DEF NothingDropped
<1>11. MirrorFaithful' /\ FlightSafe' /\ PhaseSafe'
  BY <1>1 DEF IInv, MirrorFaithful, FlightSafe, PhaseSafe, environment
<1>. QED
  BY <1>7, <1>8, <1>9, <1>10, <1>11 DEF IInv

\* maintain() queues nothing, or one merge behind an empty queue.
LEMMA MaintainShape ==
    ASSUME TypeOK, NEW entries
    PROVE  LET op == [kind |-> "mergeOwed", id |-> nextId,
                      replaces |-> {entry.id : entry \in Mergeable(entries)},
                      bytes |-> merge(Mergeable(entries))]
           IN  \/ Remaining(entries) = queue /\ Len(MaintainOps(entries)) = 0
               \/ /\ queue = <<>> /\ Remaining(entries) = <<op>>
                  /\ Len(MaintainOps(entries)) = 1
<1>. DEFINE op == [kind |-> "mergeOwed", id |-> nextId,
                   replaces |-> {entry.id : entry \in Mergeable(entries)},
                   bytes |-> merge(Mergeable(entries))]
<1>1. MaintainOps(entries) = <<>> \/ (queue = <<>> /\ MaintainOps(entries) = <<op>>)
  BY DEF MaintainOps
<1>2. CASE MaintainOps(entries) = <<>>
  BY <1>2, SeqsOK, EmptyConcat DEF Remaining
<1>3. CASE queue = <<>> /\ MaintainOps(entries) = <<op>>
  <2>. HIDE DEF op
  <2>1. <<>> \o <<op>> = <<op>> /\ Len(<<op>>) = 1
    OBVIOUS
  <2>. QED
    BY <1>3, <2>1 DEF Remaining, op
<1>. QED
  BY <1>1, <1>2, <1>3

LEMMA CommitBatchKeeps ==
    ASSUME IInv, CommitBatch
    PROVE  IInv'
<1>1. /\ TypeOK /\ phase = "committing" /\ batch = <<>> /\ rows' = fold(txn.rows)
      /\ failedLast' = FALSE
      /\ UNCHANGED <<doc, lastCoalescedId, acknowledgedThroughId, closed, discarded,
                     clientCursor, inflight, environment, budgets>>
      /\ NothingDropped /\ FlightSafe
      /\ held' = CountedFold(txn.rows, txn.grew, txn.chain)
  BY DEF IInv, CommitBatch
<1>2. Rest = queue
  BY <1>1, SeqsOK, EmptyConcat DEF Rest
<1>3. ComingIn(txn.rows, queue, nextId, acknowledgedThroughId, inflight, server, ~discarded,
               clientCursor, doc)
  BY <1>1, <1>2 DEF IInv, Coming
<1>4. /\ ComingIn(rows', queue, nextId, acknowledgedThroughId, inflight, server, ~discarded,
                  clientCursor, doc)
      /\ ~FoldDue(rows') /\ OwedRows(rows') = OwedRows(txn.rows)
      /\ \A bytes : Holds(rows', bytes) <=> Holds(txn.rows, bytes)
  BY <1>1, <1>3, SeqsOK, ComingFold
<1>5. rows' \in SUBSET Row /\ held' \in Int
  <2>1. IsFiniteSet(txn.rows) /\ FoldableRows(txn.rows) \in SUBSET txn.rows
    BY <1>3 DEF ComingIn, FoldableRows
  <2>2. Cardinality(FoldableRows(txn.rows)) \in Nat
    BY <2>1, FS_Subset, FS_CardinalityType
  <2>3. txn.chain \in Int
    BY <1>1 DEF TypeOK
  <2>. QED
    BY <1>1, <1>4, <2>2, <2>3 DEF ComingIn, CountedFold
<1>6. Holds(rows', inflight.bytes)
  <2>1. Holds(txn.rows, inflight.bytes)
    BY <1>1, HoldsThrough DEF NothingDropped, FlightSafe
  <2>. QED
    BY <1>4, <2>1
<1>7. txn.outbox \in SUBSET OutboxEntry /\ txn.cursor \in Nat
  BY <1>1 DEF TypeOK
<1>8. CASE discarded
  <2>1. /\ phase' = "idle" /\ applied' = <<>>
        /\ UNCHANGED <<queue, requested, batch, txn, outbox, cursor, nextId>>
    BY <1>8 DEF CommitBatch, Release
  <2>2. Pending' = queue
    <3>1. Rest' = queue
      BY <1>2, <2>1 DEF Rest
    <3>. QED
      BY <1>1, <2>1, <3>1, SeqsOK, EmptyConcat DEF Pending
  <2>3. queue = <<>>
    BY <1>1, <1>8 DEF FlightSafe
  <2>4. TypeOK'
    <3>1. applied' \in Seq(DurableOp) /\ failedLast' \in BOOLEAN
      BY <1>1, <2>1, SeqsOK, EmptyConcat
    <3>. QED
      BY <1>1, <1>5, <2>1, <3>1 DEF TypeOK, budgets, environment
  <2>5. Coming(rows, Pending)'
    BY <1>1, <1>4, <2>1, <2>2 DEF Coming, environment
  <2>6. MirrorFaithful' /\ FlightSafe' /\ PhaseSafe'
    BY <1>1, <1>4, <1>6, <1>8, <2>1, <2>3 DEF MirrorFaithful, FlightSafe, PhaseSafe, environment
  <2>. QED
    BY <2>1, <2>4, <2>5, <2>6 DEF IInv
<1>9. CASE ~discarded
  <2>. DEFINE more == Remaining(txn.outbox)
              added == Len(MaintainOps(txn.outbox))
  <2>1. /\ outbox' = txn.outbox /\ cursor' = txn.cursor /\ nextId' = nextId + added
        /\ IF more = <<>>
             THEN phase' = "idle" /\ applied' = <<>> /\ UNCHANGED <<queue, requested, batch, txn>>
             ELSE /\ TakeBatch(more)
                  /\ txn' = [rows |-> rows', outbox |-> outbox', cursor |-> cursor', grew |-> FALSE, chain |-> held']
    BY <1>9 DEF CommitBatch, Release
  <2>2. MirrorFaithful' /\ outbox' = readOutbox(rows')
    BY <1>1, <1>4, <1>9, <2>1 DEF MirrorFaithful, NothingDropped, readOutbox
  <2>3. /\ more \in Seq(DurableOp) /\ nextId' \in Nat \ {0} /\ nextId' >= nextId
        /\ more = <<>> => queue = <<>>
        /\ ComingIn(rows', more, nextId', acknowledgedThroughId, inflight, server, ~discarded,
                    clientCursor, doc)
    <3>. DEFINE op == [kind |-> "mergeOwed", id |-> nextId,
                       replaces |-> {entry.id : entry \in Mergeable(txn.outbox)},
                       bytes |-> merge(Mergeable(txn.outbox))]
    <3>1. CASE more = queue /\ added = 0
      <4>1. nextId' = nextId
        BY <1>1, <2>1, <3>1, SeqsOK
      <4>. QED
        BY <1>1, <1>4, <3>1, <4>1, SeqsOK
    <3>2. CASE queue = <<>> /\ more = <<op>> /\ added = 1
      <4>1. nextId' = nextId + 1 /\ nextId \in Nat \ {0}
        BY <1>1, <2>1, <3>2, SeqsOK
      <4>2. Mergeable(txn.outbox) \in SUBSET readOutbox(rows')
        BY <2>1, <2>2 DEF Mergeable
      <4>3. /\ ComingIn(rows', <<>>, nextId, acknowledgedThroughId, inflight, server, ~discarded,
                        clientCursor, doc)
            /\ acknowledgedThroughId < nextId /\ inflight.throughId < nextId
        BY <1>1, <1>4, <3>2 DEF FlightSafe
      <4>4. /\ op \in DurableOp
            /\ ComingIn(rows', <<op>>, nextId + 1, acknowledgedThroughId, inflight, server,
                        ~discarded, clientCursor, doc)
        <5>1. /\ acknowledgedThroughId \in Nat /\ inflight \in Flight /\ server \in Seq(Update)
          BY <1>1, SeqsOK
        <5>. DEFINE mergeable == Mergeable(txn.outbox)
        <5>2. /\ mergeable \in SUBSET readOutbox(rows')
              /\ op = [kind |-> "mergeOwed", id |-> nextId,
                       replaces |-> {entry.id : entry \in mergeable}, bytes |-> merge(mergeable)]
          BY <4>2
        <5>. HIDE DEF op, mergeable
        <5>. QED
          BY <4>1, <4>3, <5>1, <5>2, ComingMerge
      <4>5. <<op>> \in Seq(DurableOp)
        <5>. HIDE DEF op
        <5>. QED
          BY <4>4
      <4>. HIDE DEF op
      <4>. QED
        BY <3>2, <4>1, <4>4, <4>5
    <3>. QED
      BY <1>1, <3>1, <3>2, MaintainShape
  <2>. HIDE DEF more, added
  <2>4. FlightSafe' 
    <3>1. discarded' = FALSE
      BY <1>1, <1>9 DEF TypeOK
    <3>2. acknowledgedThroughId < nextId' /\ inflight.throughId < nextId'
      <4>1. acknowledgedThroughId < nextId /\ inflight.throughId < nextId
        BY <1>1 DEF FlightSafe
      <4>2. acknowledgedThroughId \in Nat /\ inflight.throughId \in Nat /\ nextId \in Nat
        BY <1>1, SeqsOK
      <4>. QED
        BY <2>3, <4>1, <4>2
    <3>. QED
      BY <1>1, <1>6, <3>1, <3>2 DEF FlightSafe, environment
  <2>5. CASE more = <<>>
    <3>1. /\ queue' = <<>> /\ phase' = "idle" /\ applied' = <<>> /\ batch' = <<>>
          /\ UNCHANGED <<queue, requested, batch, txn>>
      BY <1>1, <2>1, <2>3, <2>5
    <3>2. Pending' = more
      <4>1. Rest' = <<>>
        BY <3>1, EmptyConcat DEF Rest
      <4>. QED
        BY <2>5, <3>1, <4>1, EmptyConcat DEF Pending
    <3>3. Coming(rows, Pending)'
      BY <1>1, <2>3, <3>2 DEF Coming, environment
    <3>4. PhaseSafe'
      BY <1>4, <3>1 DEF PhaseSafe
    <3>5. TypeOK'
      <4>0. applied' \in Seq(DurableOp)
        BY <3>1
      <4>1. failedLast' \in BOOLEAN
        BY <1>1
      <4>. QED
        BY <1>1, <1>5, <1>7, <2>1, <2>3, <3>1, <4>0, <4>1 DEF TypeOK, budgets, environment
    <3>. QED
      BY <2>2, <2>4, <3>1, <3>3, <3>4, <3>5 DEF IInv
  <2>6. CASE more # <<>>
    <3>1. /\ Rest' = more /\ Pending' = more
          /\ queue' \in Seq(DurableOp) /\ applied' \in Seq(DurableOp) /\ batch' \in Seq(DurableOp)
          /\ phase' = "committing" /\ requested' \in BOOLEAN
          /\ applied' = <<>> /\ queue' = <<>>
      BY <2>1, <2>3, <2>6, Taken
    <3>2. /\ txn' \in [rows : SUBSET Row, outbox : SUBSET OutboxEntry, cursor : Nat, grew : BOOLEAN,
                   chain : Int]
          /\ txn'.rows = rows' /\ NothingDropped'
      BY <1>5, <1>7, <2>1, <2>2, <2>6, FreshTxn
    <3>3. Coming(rows, Pending)' /\ Coming(txn.rows, Rest)'
      BY <1>1, <2>3, <3>1, <3>2 DEF Coming, environment
    <3>4. PhaseSafe'
      BY <1>4, <3>1 DEF PhaseSafe
    <3>5. TypeOK'
      <4>1. failedLast' \in BOOLEAN
        BY <1>1
      <4>. QED
        BY <1>1, <1>5, <1>7, <2>1, <2>3, <3>1, <3>2, <4>1 DEF TypeOK, budgets, environment
    <3>. QED
      BY <2>2, <2>4, <3>2, <3>3, <3>4, <3>5 DEF IInv
  <2>. QED
    BY <2>5, <2>6
<1>. QED
  BY <1>8, <1>9

LEMMA OpsConcat ==
    ASSUME NEW s1 \in Seq(DurableOp), NEW s2 \in Seq(DurableOp), NEW s3 \in Seq(DurableOp)
    PROVE  (s1 \o s2) \o s3 = s1 \o (s2 \o s3) /\ s1 \o s2 \in Seq(DurableOp)
BY ConcatAssociative, ConcatProperties

LEMMA FailBatchKeeps ==
    ASSUME IInv, FailBatch
    PROVE  IInv'
<1>1. /\ TypeOK /\ phase = "committing" /\ FlightSafe /\ PhaseSafe /\ MirrorFaithful
      /\ failures < MaxFailures /\ failures' = failures + 1
      /\ UNCHANGED <<doc, rows, held, outbox, cursor, nextId, lastCoalescedId,
                     acknowledgedThroughId, closed, discarded, clientCursor, inflight,
                     environment, crashes, drops>>
  BY DEF IInv, FailBatch
<1>2. /\ MirrorFaithful' /\ rows' \in SUBSET Row /\ outbox' \in SUBSET OutboxEntry
      /\ cursor' \in Nat /\ held' \in Int
  BY <1>1 DEF MirrorFaithful, TypeOK
<1>3. Retained = Pending /\ Retained \in Seq(DurableOp)
  <2>1. (applied \o batch) \o queue = applied \o (batch \o queue)
    <3>1. applied \in Seq(DurableOp) /\ batch \in Seq(DurableOp) /\ queue \in Seq(DurableOp)
      BY <1>1, SeqsOK
    <3>. QED
      BY <3>1, OpsConcat
  <2>. QED
    BY <1>1, <2>1, SeqsOK DEF Retained, Pending, Rest
<1>4. failures' \in 0..MaxFailures
  BY <1>1, BoundsAssumption DEF TypeOK
<1>5. CASE discarded
  <2>1. /\ phase' = "idle" /\ applied' = <<>> /\ batch' = <<>>
        /\ UNCHANGED <<queue, requested, txn, failedLast>>
    BY <1>5 DEF FailBatch, Release
  <2>2. queue = <<>> /\ discarded' = discarded
    BY <1>1, <1>5 DEF FlightSafe
  <2>3. Pending' = <<>>
    <3>1. Rest' = <<>>
      BY <2>1, <2>2, EmptyConcat DEF Rest
    <3>. QED
      BY <2>1, <3>1, EmptyConcat DEF Pending
  <2>4. Coming(rows, Pending)'
    <3>1. <<>> \o Pending = Pending /\ <<>> \in Seq(DurableOp) /\ Pending \in Seq(DurableOp)
      BY <1>1, SeqsOK, EmptyConcat
    <3>2. ComingIn(rows, <<>> \o Pending, nextId, acknowledgedThroughId, inflight, server,
                   ~discarded, clientCursor, doc)
      BY <3>1 DEF IInv, Coming
    <3>3. ComingIn(rows, <<>>, nextId, acknowledgedThroughId, inflight, server, FALSE,
                   clientCursor, doc)
      BY <3>1, <3>2, ComingDiscard
    <3>. QED
      BY <1>1, <1>5, <2>2, <2>3, <3>3 DEF Coming, ComingIn, environment
  <2>5. TypeOK'
    <3>1. applied' \in Seq(DurableOp) /\ batch' \in Seq(DurableOp)
      BY <2>1
    <3>. QED
      BY <1>1, <1>4, <2>1, <3>1 DEF TypeOK, environment
  <2>6. FlightSafe' /\ PhaseSafe'
    BY <1>1, <2>1, <2>2 DEF FlightSafe, PhaseSafe, environment
  <2>. QED
    BY <1>2, <2>1, <2>4, <2>5, <2>6 DEF IInv
<1>6. CASE ~discarded /\ requested
  <2>1. /\ TakeBatch(Retained) /\ failedLast' = failedLast
        /\ txn' = [rows |-> rows', outbox |-> outbox', cursor |-> cursor', grew |-> FALSE, chain |-> held']
    BY <1>1, <1>6 DEF FailBatch
  <2>2. /\ Rest' = Pending /\ Pending' = Pending
        /\ queue' \in Seq(DurableOp) /\ applied' \in Seq(DurableOp) /\ batch' \in Seq(DurableOp)
        /\ phase' = "committing" /\ requested' \in BOOLEAN
        /\ applied' = <<>> /\ queue' = <<>>
    BY <1>3, <2>1, Taken
  <2>3. /\ txn' \in [rows : SUBSET Row, outbox : SUBSET OutboxEntry, cursor : Nat, grew : BOOLEAN,
                   chain : Int]
        /\ txn'.rows = rows' /\ NothingDropped'
    BY <1>2, <2>1, FreshTxn
  <2>4. Coming(rows, Pending)' /\ Coming(txn.rows, Rest)'
    BY <1>1, <2>2, <2>3 DEF IInv, Coming, environment
  <2>5. TypeOK'
    BY <1>1, <1>4, <2>1, <2>2, <2>3 DEF TypeOK, environment
  <2>6. FlightSafe' /\ PhaseSafe'
    BY <1>1, <2>2 DEF FlightSafe, PhaseSafe, environment
  <2>. QED
    BY <1>2, <2>3, <2>4, <2>5, <2>6 DEF IInv
<1>7. CASE ~discarded /\ ~requested
  <2>1. /\ queue' = Retained /\ phase' = "idle" /\ applied' = <<>> /\ batch' = <<>>
        /\ failedLast' = TRUE /\ UNCHANGED <<requested, txn>>
    BY <1>7 DEF FailBatch, Release
  <2>2. Pending' = Pending
    <3>1. Rest' = Pending
      BY <1>3, <2>1, EmptyConcat DEF Rest
    <3>. QED
      BY <1>3, <2>1, <3>1, EmptyConcat DEF Pending
  <2>3. Coming(rows, Pending)'
    BY <1>1, <2>2 DEF IInv, Coming, environment
  <2>4. TypeOK'
    <3>1. applied' \in Seq(DurableOp) /\ batch' \in Seq(DurableOp) /\ queue' \in Seq(DurableOp)
      BY <1>3, <2>1
    <3>2. failedLast' \in BOOLEAN
      BY <2>1
    <3>. QED
      BY <1>1, <1>4, <2>1, <3>1, <3>2 DEF TypeOK, environment
  <2>5. FlightSafe' /\ PhaseSafe'
    BY <1>1, <1>7, <2>1 DEF FlightSafe, PhaseSafe, environment
  <2>. QED
    BY <1>2, <2>1, <2>3, <2>4, <2>5 DEF IInv
<1>. QED
  BY <1>5, <1>6, <1>7

LEMMA FlightLogged ==
    ASSUME NEW flight \in Flight, NEW q \in Nat
    PROVE  LET logged == [flight EXCEPT !.position = q]
           IN  /\ logged \in Flight /\ logged.throughId = flight.throughId
               /\ logged.bytes = flight.bytes /\ logged.position = q
BY DEF Flight

LEMMA AuthorityLogsKeeps ==
    ASSUME IInv, AuthorityLogs
    PROVE  IInv'
<1>1. /\ TypeOK /\ FlightSafe /\ inflight # None /\ inflight.position = 0
      /\ server' = Append(server, inflight.bytes)
      /\ inflight' = [inflight EXCEPT !.position = Len(server) + 1]
      /\ UNCHANGED <<doc, rows, held, controller, clientCursor, authored, failedLast, budgets>>
  BY DEF IInv, AuthorityLogs
<1>2. /\ inflight' \in Flight /\ inflight'.throughId = inflight.throughId
      /\ inflight'.bytes = inflight.bytes /\ inflight'.position = Len(server) + 1
  <2>1. inflight \in Flight /\ Len(server) + 1 \in Nat
    BY <1>1, SeqsOK
  <2>. QED
    BY <1>1, <2>1, FlightLogged
<1>3. /\ server' \in Seq(Update) /\ Len(server) \in Nat /\ Len(server') = Len(server) + 1
      /\ server'[Len(server) + 1] = inflight.bytes
  BY <1>1, SeqsOK, LogGrows
<1>4. TypeOK'
  BY <1>1, <1>2, <1>3 DEF TypeOK, controller, budgets, Flight
<1>5. Pending' = Pending /\ Rest' = Rest
  BY <1>1 DEF Pending, Rest, controller
<1>6. ASSUME NEW R, NEW ops \in Seq(DurableOp), Coming(R, ops)
      PROVE  ComingIn(R, ops, nextId, acknowledgedThroughId, inflight', server', ~discarded,
                      clientCursor, doc)
  <2>1. ComingIn(R, ops, nextId, acknowledgedThroughId, inflight, server', ~discarded,
                 clientCursor, doc)
    <3>1. /\ clientCursor \in Nat /\ clientCursor <= Len(server) /\ inflight.bytes \in Update
          /\ server \in Seq(Update)
      BY <1>1, SeqsOK DEF FlightSafe
    <3>. QED
      BY <1>1, <1>6, <3>1, ComingLog DEF Coming
  <2>2. \A row \in R : row.authoritySeq = NULL /\ row.id <= inflight'.throughId =>
              \A e \in row.bytes : e \in inflight'.bytes \/ InLog({e}, server')
    <3>1. AcksSafe(R, ops, acknowledgedThroughId, inflight, server')
      BY <2>1 DEF ComingIn
    <3>2. \A row \in R : row.authoritySeq = NULL /\ row.id <= inflight.throughId =>
              \A e \in row.bytes : e \in inflight.bytes \/ InLog({e}, server')
      BY <3>1, Zenon DEF AcksSafe
    <3>. QED
      BY <1>2, <3>2, Zenon
  <2>3. \A i \in 1..Len(ops) : HasId(ops[i]) => ops[i].id > inflight'.throughId
    BY <1>2, <2>1 DEF ComingIn, AcksSafe
  <2>. QED
    BY <2>1, <2>2, <2>3, ComingFlight
<1>7. Coming(rows, Pending)' /\ (phase' = "committing" => Coming(txn.rows, Rest)')
  BY <1>1, <1>5, <1>6, SeqsOK DEF IInv, Coming, controller
<1>8. phase' = "committing" => NothingDropped'
  BY <1>1 DEF IInv, NothingDropped, controller
<1>9. FlightSafe'
  <2>1. ~closed
    BY <1>1 DEF FlightSafe
  <2>2. inflight'.position \in 1..Len(server') /\ server'[inflight'.position] = inflight'.bytes
    BY <1>2, <1>3
  <2>3. clientCursor <= Len(server')
    <3>1. clientCursor \in Nat /\ clientCursor <= Len(server)
      BY <1>1, SeqsOK DEF FlightSafe
    <3>. QED
      BY <1>3, <3>1
  <2>4. inflight.throughId # 0
    BY <1>1 DEF FlightSafe
  <2>. QED
    BY <1>1, <1>2, <2>1, <2>2, <2>3, <2>4 DEF FlightSafe, controller
<1>10. MirrorFaithful' /\ PhaseSafe'
  BY <1>1 DEF IInv, MirrorFaithful, PhaseSafe, controller
<1>. QED
  BY <1>4, <1>7, <1>8, <1>9, <1>10 DEF IInv

LEMMA RemoteWriteKeeps ==
    ASSUME IInv, NEW e \in RemoteEdits, RemoteWrite(e)
    PROVE  IInv'
<1>1. /\ TypeOK /\ FlightSafe /\ server' = Append(server, {e})
      /\ UNCHANGED <<doc, rows, held, controller, clientCursor, inflight, authored, failedLast,
                     budgets>>
  BY DEF IInv, RemoteWrite
<1>2. {e} \in Update
  BY EditsAssumption DEF Update
<1>3. /\ server' \in Seq(Update) /\ Len(server) \in Nat /\ Len(server') = Len(server) + 1
      /\ \A i \in 1..Len(server) : i \in 1..(Len(server) + 1) /\ server'[i] = server[i]
  BY <1>1, <1>2, SeqsOK, LogGrows
<1>4. TypeOK'
  BY <1>1, <1>3 DEF TypeOK, controller, budgets
<1>5. Pending' = Pending /\ Rest' = Rest
  BY <1>1 DEF Pending, Rest, controller
<1>6. clientCursor \in Nat /\ clientCursor <= Len(server) /\ server \in Seq(Update)
  BY <1>1, SeqsOK DEF FlightSafe
<1>7. ASSUME NEW R, NEW ops \in Seq(DurableOp), Coming(R, ops)
      PROVE  ComingIn(R, ops, nextId, acknowledgedThroughId, inflight, server', ~discarded,
                      clientCursor, doc)
  BY <1>1, <1>2, <1>6, <1>7, ComingLog DEF Coming
<1>8. Coming(rows, Pending)' /\ (phase' = "committing" => Coming(txn.rows, Rest)')
  BY <1>1, <1>5, <1>7, SeqsOK DEF IInv, Coming, controller
<1>9. phase' = "committing" => NothingDropped'
  BY <1>1 DEF IInv, NothingDropped, controller
<1>10. FlightSafe'
  <2>1. clientCursor <= Len(server')
    BY <1>3, <1>6
  <2>2. inflight.position # 0 =>
           inflight.position \in 1..Len(server') /\ server'[inflight.position] = inflight.bytes
    BY <1>1, <1>3 DEF FlightSafe
  <2>. QED
    BY <1>1, <2>1, <2>2 DEF FlightSafe, controller
<1>11. MirrorFaithful' /\ PhaseSafe'
  BY <1>1 DEF IInv, MirrorFaithful, PhaseSafe, controller
<1>. QED
  BY <1>4, <1>8, <1>9, <1>10, <1>11 DEF IInv

LEMMA NoneShape ==
    /\ None \in Flight /\ None.position = 0 /\ None.throughId = 0 /\ None.bytes = {}
    /\ \A R : Holds(R, None.bytes)
BY DEF None, Flight, Update, Holds

LEMMA LoseAnswerKeeps ==
    ASSUME IInv, LoseAnswer
    PROVE  IInv'
<1>1. /\ TypeOK /\ FlightSafe /\ drops < MaxDrops /\ drops' = drops + 1 /\ inflight' = None
      /\ UNCHANGED <<doc, rows, held, controller, clientCursor, environment, failedLast,
                     crashes, failures>>
  BY DEF IInv, LoseAnswer
<1>2. drops' \in 0..MaxDrops
  BY <1>1, BoundsAssumption DEF TypeOK
<1>3. TypeOK'
  BY <1>1, <1>2, NoneShape DEF TypeOK, controller, environment, Flight
<1>4. Pending' = Pending /\ Rest' = Rest
  BY <1>1 DEF Pending, Rest, controller
<1>5. Coming(rows, Pending)' /\ (phase' = "committing" => Coming(txn.rows, Rest)')
  BY <1>1, <1>4, SeqsOK, ComingNoFlight DEF IInv, Coming, controller, environment
<1>6. phase' = "committing" => NothingDropped'
  BY <1>1 DEF IInv, NothingDropped, controller
<1>7. FlightSafe'
  <2>1. None.throughId < nextId
    BY <1>1, NoneShape, SeqsOK
  <2>. QED
    BY <1>1, <2>1, NoneShape DEF FlightSafe, controller, environment
<1>8. MirrorFaithful' /\ PhaseSafe'
  BY <1>1 DEF IInv, MirrorFaithful, PhaseSafe, controller
<1>. QED
  BY <1>3, <1>5, <1>6, <1>7, <1>8 DEF IInv

LEMMA CloseKeeps ==
    ASSUME IInv, Close
    PROVE  IInv'
<1>1. /\ TypeOK /\ FlightSafe /\ ~closed /\ closed' = TRUE /\ inflight' = None
      /\ IF phase # "idle" \/ queue # <<>> THEN RequestFlush ELSE UNCHANGED <<phase, requested>>
      /\ UNCHANGED <<doc, rows, held, queue, applied, batch, txn, outbox, cursor, nextId,
                     lastCoalescedId, acknowledgedThroughId, discarded, clientCursor,
                     environment, failedLast, budgets>>
  BY DEF IInv, Close
<1>2. /\ phase' \in {"idle", "scheduled", "committing"}
      /\ (phase' = "committing") <=> (phase = "committing")
      /\ requested' \in BOOLEAN
      /\ phase' = "idle" /\ queue # <<>> => phase = "idle"
  BY <1>1, Requested DEF TypeOK
<1>3. TypeOK'
  <2>1. closed' \in BOOLEAN
    BY <1>1
  <2>. QED
    BY <1>1, <1>2, <2>1, NoneShape DEF TypeOK, environment, budgets, Flight
<1>4. Pending' = Pending /\ Rest' = Rest
  BY <1>1 DEF Pending, Rest
<1>5. Coming(rows, Pending)' /\ (phase' = "committing" => Coming(txn.rows, Rest)')
  BY <1>1, <1>2, <1>4, SeqsOK, ComingNoFlight DEF IInv, Coming, environment
<1>6. phase' = "committing" => NothingDropped'
  BY <1>1, <1>2 DEF IInv, NothingDropped
<1>7. FlightSafe'
  <2>1. None.throughId < nextId
    BY <1>1, NoneShape, SeqsOK
  <2>. QED
    BY <1>1, <2>1, NoneShape DEF FlightSafe, environment
<1>8. MirrorFaithful' /\ PhaseSafe'
  BY <1>1, <1>2 DEF IInv, MirrorFaithful, PhaseSafe
<1>. QED
  BY <1>3, <1>5, <1>6, <1>7, <1>8 DEF IInv

LEMMA DiscardKeeps ==
    ASSUME IInv, Discard
    PROVE  IInv'
<1>1. /\ TypeOK /\ FlightSafe /\ discarded' = TRUE /\ closed' = TRUE /\ inflight' = None
      /\ queue' = <<>> /\ outbox' = {} /\ requested' = FALSE
      /\ UNCHANGED <<doc, rows, held, phase, applied, batch, txn, cursor, nextId, lastCoalescedId,
                     acknowledgedThroughId, clientCursor, environment, failedLast, budgets>>
  BY DEF IInv, Discard
<1>2. applied \in Seq(DurableOp) /\ batch \in Seq(DurableOp) /\ queue \in Seq(DurableOp)
  BY <1>1, SeqsOK
<1>3. Rest' = batch /\ Pending' = applied \o batch /\ Pending = (applied \o batch) \o queue
  <2>1. Rest' = batch
    BY <1>1, <1>2, EmptyConcat DEF Rest
  <2>2. (applied \o batch) \o queue = applied \o (batch \o queue)
    BY <1>2, OpsConcat
  <2>. QED
    BY <1>1, <2>1, <2>2 DEF Pending, Rest
<1>4. applied \o batch \in Seq(DurableOp)
  BY <1>2, OpsConcat
<1>5. TypeOK'
  <2>1. /\ closed' \in BOOLEAN /\ discarded' \in BOOLEAN /\ requested' \in BOOLEAN
        /\ outbox' \subseteq OutboxEntry
    BY <1>1
  <2>2. queue' \in Seq(DurableOp)
    BY <1>1
  <2>. QED
    BY <1>1, <2>1, <2>2, NoneShape DEF TypeOK, environment, budgets, Flight
<1>6. ASSUME NEW R, NEW ops \in Seq(DurableOp), NEW more \in Seq(DurableOp), Coming(R, ops \o more)
      PROVE  ComingIn(R, ops, nextId, acknowledgedThroughId, None, server, FALSE, clientCursor, doc)
  BY <1>6, ComingDiscard, ComingNoFlight DEF Coming
<1>7. Coming(rows, Pending)'
  <2>1. ComingIn(rows, applied \o batch, nextId, acknowledgedThroughId, None, server, FALSE,
                 clientCursor, doc)
    BY <1>2, <1>3, <1>4, <1>6 DEF IInv
  <2>. QED
    BY <1>1, <1>3, <2>1 DEF Coming, ComingIn, environment
<1>8. phase' = "committing" => Coming(txn.rows, Rest)'
  <2>. SUFFICES ASSUME phase = "committing" PROVE Coming(txn.rows, Rest)'
    BY <1>1
  <2>1. ComingIn(txn.rows, batch, nextId, acknowledgedThroughId, None, server, FALSE,
                 clientCursor, doc)
    BY <1>2, <1>6 DEF IInv, Rest
  <2>. QED
    BY <1>1, <1>3, <2>1 DEF Coming, ComingIn, environment
<1>9. phase' = "committing" => NothingDropped'
  BY <1>1 DEF IInv, NothingDropped
<1>10. FlightSafe'
  <2>1. None.throughId < nextId
    BY <1>1, NoneShape, SeqsOK
  <2>. QED
    BY <1>1, <2>1, NoneShape DEF FlightSafe, environment
<1>11. MirrorFaithful' /\ PhaseSafe'
  BY <1>1 DEF IInv, MirrorFaithful, PhaseSafe
<1>. QED
  BY <1>5, <1>7, <1>8, <1>9, <1>10, <1>11 DEF IInv

\* A submission reaches no owed row it does not carry, of a relation whose owed
\* rows are the file's or newer than the file's, with newer operations to come.
LEMMA SubmitReach ==
    ASSUME IInv, ~discarded, NEW last \in Nat, NEW lastRow \in rows, lastRow.id = last,
           NEW R, NEW ops \in Seq(DurableOp), Coming(R, ops),
           \E other \in R : lastRow.id <= other.id,
           \A row \in OwedRows(R) : row \in rows \/ \A old \in rows : old.id < row.id,
           NEW flight, flight.throughId = last, flight.bytes = merge(Sendable)
    PROVE  ComingIn(R, ops, nextId, acknowledgedThroughId, flight, server, ~discarded,
                    clientCursor, doc)
<1>1. ComingIn(R, ops, nextId, acknowledgedThroughId, inflight, server, ~discarded,
               clientCursor, doc)
  BY DEF Coming
<1>2. IdsOrdered(R, ops, nextId) /\ R \in SUBSET Row
      /\ AcksSafe(R, ops, acknowledgedThroughId, inflight, server)
  BY <1>1 DEF ComingIn
<1>3. /\ rows \in SUBSET Row /\ outbox = readOutbox(rows) /\ acknowledgedThroughId \in Nat
  BY DEF IInv, TypeOK, MirrorFaithful
<1>4. ASSUME NEW row \in R, row.authoritySeq = NULL, row.id <= last
      PROVE  \A e \in row.bytes : e \in flight.bytes \/ InLog({e}, server)
  <2>1. row \in OwedRows(R) /\ row.id \in Nat
    BY <1>2, <1>4 DEF OwedRows, Row
  <2>2. row \in rows
    BY <1>3, <1>4, <2>1 DEF Row
  <2>3. CASE row.id <= acknowledgedThroughId
    <3>1. InLog(row.bytes, server)
      BY <1>2, <2>3 DEF AcksSafe
    <3>. QED
      BY <3>1 DEF InLog
  <2>4. CASE row.id > acknowledgedThroughId
    <3>. DEFINE entry == [id |-> row.id, bytes |-> row.bytes]
    <3>1. entry \in outbox
      BY <1>3, <1>4, <2>2 DEF readOutbox, OwedRows
    <3>2. entry \in Sendable
      BY <2>4, <3>1 DEF Sendable
    <3>3. row.bytes \subseteq merge(Sendable)
      BY <3>2 DEF merge
    <3>. QED
      BY <3>3
  <2>5. row.id <= acknowledgedThroughId \/ row.id > acknowledgedThroughId
    BY <1>3, <2>1
  <2>. QED
    BY <2>3, <2>4, <2>5
<1>5. ASSUME NEW i \in 1..Len(ops), HasId(ops[i])
      PROVE  ops[i].id > last
  <2>1. PICK other \in R : lastRow.id <= other.id
    OBVIOUS
  <2>2. other.id < ops[i].id
    BY <1>2, <1>5 DEF IdsOrdered
  <2>3. ops[i].id \in Nat /\ other.id \in Nat
    BY <1>2, <1>5, ElementOfSeq, OpShape DEF Row
  <2>. QED
    BY <2>1, <2>2, <2>3
<1>. QED
  BY <1>1, <1>4, <1>5, ComingFlight

LEMMA SubmitKeeps ==
    ASSUME IInv, Submit
    PROVE  IInv'
<1>. DEFINE ids == {entry.id : entry \in Sendable}
            last == MaxOr0(ids)
<1>1. /\ TypeOK /\ FlightSafe /\ ~closed /\ Sendable # {}
      /\ inflight' = [throughId |-> last, bytes |-> merge(Sendable), position |-> 0]
      /\ lastCoalescedId' = IF last > lastCoalescedId THEN last ELSE lastCoalescedId
      /\ UNCHANGED <<doc, rows, held, queue, phase, requested, applied, batch, txn, outbox, cursor,
                     nextId, acknowledgedThroughId, closed, discarded, clientCursor,
                     environment, failedLast, budgets>>
  BY DEF IInv, Submit
<1>2. ~discarded /\ outbox = readOutbox(rows) /\ rows \in SUBSET Row
  BY <1>1 DEF IInv, FlightSafe, MirrorFaithful, TypeOK
<1>3. ASSUME NEW entry \in Sendable
      PROVE  \E row \in rows : row.id = entry.id /\ row.bytes = entry.bytes
  BY <1>2 DEF Sendable, readOutbox, OwedRows
<1>4. \A row \in rows : row.id \in Nat \ {0} /\ row.id < nextId /\ row.bytes \in Update
  BY <1>2 DEF IInv, Coming, ComingIn, IdsOrdered, Row
<1>5. ids \in SUBSET Nat /\ ids # {} /\ \A x \in ids : x <= nextId
  <2>1. nextId \in Nat
    BY <1>1, SeqsOK
  <2>. QED
    BY <1>1, <1>3, <1>4, <2>1
<1>6. last \in Nat /\ last \in ids
  <2>1. nextId \in Nat
    BY <1>1, SeqsOK
  <2>. HIDE DEF ids
  <2>. QED
    BY <1>5, <2>1, MaxOr0Finds
<1>7. PICK lastRow \in rows : lastRow.id = last
  <2>. HIDE DEF last
  <2>. QED
    BY <1>3, <1>6
<1>. HIDE DEF last
<1>8. last \in Nat \ {0} /\ last < nextId
  BY <1>4, <1>7
<1>9. /\ inflight'.throughId = last /\ inflight'.bytes = merge(Sendable)
      /\ inflight'.position = 0
  BY <1>1
<1>10. merge(Sendable) \in Update /\ Holds(rows, merge(Sendable))
  <2>1. \A e \in merge(Sendable) : \E row \in rows : e \in row.bytes
    BY <1>3 DEF merge
  <2>. QED
    BY <1>4, <2>1 DEF Holds, Update
<1>11. TypeOK'
  <2>1. inflight' \in [throughId : Nat, bytes : Update, position : Nat]
    BY <1>1, <1>6, <1>10
  <2>2. lastCoalescedId' \in Nat
    BY <1>1, <1>6 DEF TypeOK
  <2>. QED
    BY <1>1, <2>1, <2>2 DEF TypeOK, environment, budgets
<1>12. Pending' = Pending /\ Rest' = Rest
  BY <1>1 DEF Pending, Rest
<1>13. Coming(rows, Pending)'
  <2>1. \E other \in rows : lastRow.id <= other.id
    BY <1>7, <1>8
  <2>2. \A row \in OwedRows(rows) : row \in rows
    BY DEF OwedRows
  <2>3. ComingIn(rows, Pending, nextId, acknowledgedThroughId, inflight', server, ~discarded,
                 clientCursor, doc)
    <3>1. Pending \in Seq(DurableOp) /\ Coming(rows, Pending)
      BY <1>1, SeqsOK DEF IInv
    <3>. QED
      BY <1>2, <1>6, <1>7, <1>9, <2>1, <2>2, <3>1, SubmitReach
  <2>. QED
    BY <1>1, <1>12, <2>3 DEF Coming, environment
<1>14. phase' = "committing" => Coming(txn.rows, Rest)'
  <2>. SUFFICES ASSUME phase = "committing" PROVE Coming(txn.rows, Rest)'
    BY <1>1
  <2>1. \E other \in txn.rows : lastRow.id <= other.id
    BY DEF IInv, NothingDropped
  <2>2. \A row \in OwedRows(txn.rows) : row \in rows \/ \A old \in rows : old.id < row.id
    BY DEF IInv, NothingDropped
  <2>3. ComingIn(txn.rows, Rest, nextId, acknowledgedThroughId, inflight', server, ~discarded,
                 clientCursor, doc)
    <3>1. Rest \in Seq(DurableOp) /\ Coming(txn.rows, Rest)
      BY <1>1, SeqsOK DEF IInv
    <3>. QED
      BY <1>2, <1>6, <1>7, <1>9, <2>1, <2>2, <3>1, SubmitReach
  <2>. QED
    BY <1>1, <1>12, <2>3 DEF Coming, environment
<1>15. phase' = "committing" => NothingDropped'
  BY <1>1 DEF IInv, NothingDropped
<1>16. FlightSafe'
  BY <1>1, <1>8, <1>9, <1>10 DEF FlightSafe, environment
<1>17. MirrorFaithful' /\ PhaseSafe'
  BY <1>1 DEF IInv, MirrorFaithful, PhaseSafe
<1>. QED
  BY <1>11, <1>13, <1>14, <1>15, <1>16, <1>17 DEF IInv

\* What a session that starts from the file alone finds.
LEMMA Restart ==
    ASSUME NEW R, NEW ops, NEW next \in Nat, NEW acked, NEW flight, NEW log \in Seq(Update),
           NEW kept, NEW read, NEW d,
           ComingIn(R, ops, next, acked, flight, log, kept, read, d)
    PROVE  /\ readLastId(R) \in Nat /\ readCursor(R) \in Nat /\ readCursor(R) <= Len(log)
           /\ readOutbox(R) \in SUBSET OutboxEntry /\ Content(R) \in Update
           /\ \A row \in R : row.id <= readLastId(R)
           /\ R # {} => \E row \in R : row.id = readLastId(R)
           /\ \A j \in 1..readCursor(R) : Holds(R, log[j])
           /\ ComingIn(R, <<>>, readLastId(R) + 1, 0, None, log, TRUE, readCursor(R), Content(R))
<1>1. /\ R \in SUBSET Row /\ IsFiniteSet(R) /\ IdsOrdered(R, ops, next)
      /\ AcksSafe(R, ops, acked, flight, log) /\ CursorSafe(R, ops, log) /\ Len(log) \in Nat
  BY LenProperties DEF ComingIn
<1>2. \A row \in R : /\ row.id \in Nat \ {0} /\ row.bytes \in Update
                     /\ row.authoritySeq # NULL => row.authoritySeq \in Nat
  BY <1>1 DEF Row, Position
<1>. DEFINE ids == {row.id : row \in R}
            seqs == {row.authoritySeq : row \in FoldableRows(R)}
<1>3. /\ MaxOr0(ids) \in Nat /\ \A x \in ids : x <= MaxOr0(ids)
      /\ ids # {} => MaxOr0(ids) \in ids
  <2>1. ids \in SUBSET Nat /\ \A x \in ids : x <= next
    BY <1>1, <1>2 DEF IdsOrdered
  <2>. HIDE DEF ids
  <2>. QED
    BY <2>1, MaxOr0Finds
<1>4. /\ MaxOr0(seqs) \in Nat /\ MaxOr0(seqs) <= Len(log)
      /\ seqs # {} => MaxOr0(seqs) \in seqs
      /\ seqs = {} => MaxOr0(seqs) = 0
  <2>1. seqs \in SUBSET Nat /\ \A x \in seqs : x <= Len(log)
    BY <1>1, <1>2 DEF CursorSafe, FoldableRows
  <2>. HIDE DEF seqs
  <2>2. seqs = {} => MaxOr0(seqs) = 0
    BY DEF MaxOr0
  <2>. QED
    BY <1>1, <2>1, <2>2, MaxOr0Finds
<1>5. readLastId(R) = MaxOr0(ids) /\ readCursor(R) = MaxOr0(seqs)
  BY DEF readLastId, readCursor
<1>6. /\ \A row \in R : row.id <= readLastId(R)
      /\ R # {} => \E row \in R : row.id = readLastId(R)
      /\ readLastId(R) \in Nat
  BY <1>3, <1>5
<1>7. \A j \in 1..readCursor(R) : Holds(R, log[j])
  <2>1. CASE seqs = {}
    <3>1. readCursor(R) = 0
      BY <1>4, <1>5, <2>1
    <3>. QED
      BY <3>1
  <2>2. CASE seqs # {}
    <3>1. PICK row \in R : row.authoritySeq # NULL /\ row.authoritySeq = readCursor(R)
      BY <1>4, <1>5, <2>2 DEF FoldableRows
    <3>. QED
      BY <1>1, <3>1 DEF CursorSafe
  <2>. QED
    BY <2>1, <2>2
<1>8. readOutbox(R) \in SUBSET OutboxEntry
  BY <1>2 DEF readOutbox, OwedRows, OutboxEntry
<1>9. Content(R) \in Update
  BY <1>2 DEF Content, Update
<1>10. Len(<<>>) = 0 /\ \A i \in 1..Len(<<>>) : FALSE
  OBVIOUS
<1>. DEFINE none == <<>>
<1>11. Len(none) = 0 /\ \A i \in 1..Len(none) : FALSE
  BY <1>10
<1>. HIDE DEF none, ids, seqs
<1>12. IdsOrdered(R, none, readLastId(R) + 1)
  <2>1. \A row \in R : row.id < readLastId(R) + 1
    BY <1>2, <1>6
  <2>. QED
    BY <1>1, <1>11, <2>1 DEF IdsOrdered
<1>13. MergeSafe(R, none)
  BY <1>11 DEF MergeSafe
<1>14. AcksSafe(R, none, 0, None, log)
  <2>1. \A row \in R : ~(row.id <= 0)
    BY <1>2
  <2>. QED
    BY <1>1, <1>11, <2>1, NoneShape DEF AcksSafe
<1>15. CursorSafe(R, none, log)
  BY <1>1, <1>11 DEF CursorSafe
<1>16. ReadKept(R, none, log, readCursor(R))
  BY <1>7 DEF ReadKept
<1>17. DocKept(R, none, Content(R))
  BY <1>11 DEF DocKept, Content
<1>18. ComingIn(R, none, readLastId(R) + 1, 0, None, log, TRUE, readCursor(R), Content(R))
  BY <1>1, <1>12, <1>13, <1>14, <1>15, <1>16, <1>17 DEF ComingIn
<1>. QED
  BY <1>4, <1>5, <1>6, <1>7, <1>8, <1>9, <1>18 DEF none

LEMMA CrashKeeps ==
    ASSUME IInv, Crash
    PROVE  IInv'
<1>1. /\ TypeOK /\ PhaseSafe /\ crashes < MaxCrashes /\ crashes' = crashes + 1
      /\ doc' = Content(rows)
      /\ queue' = <<>> /\ applied' = <<>> /\ batch' = <<>>
      /\ phase' = "idle" /\ requested' = FALSE
      /\ txn' = [rows |-> {}, outbox |-> {}, cursor |-> 0, grew |-> FALSE, chain |-> 0]
      /\ outbox' = readOutbox(rows) /\ cursor' = readCursor(rows)
      /\ nextId' = readLastId(rows) + 1
      /\ lastCoalescedId' = 0 /\ acknowledgedThroughId' = 0
      /\ closed' = FALSE /\ discarded' = FALSE
      /\ clientCursor' = readCursor(rows) /\ inflight' = None /\ failedLast' = FALSE
      /\ held' = Cardinality(rows)
      /\ UNCHANGED <<rows, environment, failures, drops>>
  BY DEF IInv, Crash
<1>2. /\ readLastId(rows) \in Nat /\ readCursor(rows) \in Nat /\ readCursor(rows) <= Len(server)
      /\ readOutbox(rows) \in SUBSET OutboxEntry /\ Content(rows) \in Update
      /\ ComingIn(rows, <<>>, readLastId(rows) + 1, 0, None, server, TRUE, readCursor(rows),
                  Content(rows))
  <2>1. ComingIn(rows, Pending, nextId, acknowledgedThroughId, inflight, server, ~discarded,
                 clientCursor, doc)
    BY DEF IInv, Coming
  <2>2. nextId \in Nat /\ server \in Seq(Update)
    BY <1>1, SeqsOK
  <2>. QED
    BY <2>1, <2>2, Restart
<1>3. Pending' = <<>>
  <2>1. Rest' = <<>>
    BY <1>1, EmptyConcat DEF Rest
  <2>. QED
    BY <1>1, <2>1, EmptyConcat DEF Pending
<1>4. TypeOK'
  <2>1. queue' \in Seq(DurableOp) /\ applied' \in Seq(DurableOp) /\ batch' \in Seq(DurableOp)
    BY <1>1
  <2>2. crashes' \in 0..MaxCrashes
    BY <1>1, BoundsAssumption DEF TypeOK
  <2>3. txn' \in [rows : SUBSET Row, outbox : SUBSET OutboxEntry, cursor : Nat, grew : BOOLEAN,
                   chain : Int]
    BY <1>1
  <2>4. /\ closed' \in BOOLEAN /\ discarded' \in BOOLEAN /\ requested' \in BOOLEAN
        /\ failedLast' \in BOOLEAN
    BY <1>1
  <2>5. /\ nextId' \in Nat \ {0} /\ lastCoalescedId' \in Nat /\ acknowledgedThroughId' \in Nat
        /\ phase' \in {"idle", "scheduled", "committing"}
    BY <1>1, <1>2
  <2>6. held' \in Int
    BY <1>1, <1>2, FS_CardinalityType DEF ComingIn
  <2>. QED
    BY <1>1, <1>2, <2>1, <2>2, <2>3, <2>4, <2>5, <2>6, NoneShape DEF TypeOK, environment, Flight
<1>5. Coming(rows, Pending)'
  BY <1>1, <1>2, <1>3 DEF Coming, ComingIn, environment
<1>6. FlightSafe'
  <2>1. 0 < nextId' /\ None.throughId < nextId'
    BY <1>1, <1>2, NoneShape
  <2>2. Holds(rows, None.bytes) /\ None.position = 0
    BY NoneShape
  <2>. QED
    BY <1>1, <1>2, <2>1, <2>2 DEF FlightSafe, environment
<1>7. MirrorFaithful' /\ PhaseSafe'
  BY <1>1 DEF MirrorFaithful, PhaseSafe
<1>. QED
  BY <1>1, <1>4, <1>5, <1>6, <1>7 DEF IInv

LEMMA InitHolds == ASSUME Init PROVE IInv
<1>. DEFINE R == {Baseline}
            log == <<{}>>
            none == <<>>
<1>1. /\ Baseline \in Row /\ Baseline.id = 1 /\ Baseline.bytes = {} /\ Baseline.authoritySeq = 1
      /\ 1 # NULL
  BY DEF Baseline, Row, Update, Position, NULL
<1>2. /\ Len(log) = 1 /\ log \in Seq(Update) /\ log[1] = {}
      /\ Len(none) = 0 /\ none \in Seq(DurableOp) /\ \A i \in 1..Len(none) : FALSE
  BY DEF Update
<1>3. R \in SUBSET Row /\ IsFiniteSet(R) /\ \A row \in R : row = Baseline
  BY <1>1, FS_Singleton
<1>. HIDE DEF R, log, none
<1>4. ComingIn(R, none, 2, 0, None, log, TRUE, 1, {})
  <2>1. IdsOrdered(R, none, 2)
    BY <1>1, <1>2, <1>3 DEF IdsOrdered
  <2>2. MergeSafe(R, none)
    BY <1>2 DEF MergeSafe
  <2>3. AcksSafe(R, none, 0, None, log)
    BY <1>1, <1>2, <1>3, NoneShape DEF AcksSafe, InLog
  <2>4. Holds(R, log[1])
    BY <1>2 DEF Holds
  <2>5. CursorSafe(R, none, log)
    <3>1. \A j \in 1..1 : j = 1
      OBVIOUS
    <3>2. \A row \in R : row.authoritySeq = 1 /\ row.authoritySeq <= Len(log)
      BY <1>1, <1>2, <1>3
    <3>3. \A row \in R : \A j \in 1..row.authoritySeq : Holds(R, log[j])
      BY <2>4, <3>1, <3>2
    <3>. QED
      BY <1>2, <3>2, <3>3 DEF CursorSafe
  <2>6. ReadKept(R, none, log, 1)
    <3>1. \A j \in 1..1 : j = 1
      OBVIOUS
    <3>. QED
      BY <2>4, <3>1 DEF ReadKept
  <2>7. DocKept(R, none, {})
    BY <1>1, <1>2, <1>3 DEF DocKept
  <2>. QED
    BY <1>3, <2>1, <2>2, <2>3, <2>5, <2>6, <2>7 DEF ComingIn
<1>5. FoldableRows(R) = R /\ OwedRows(R) = {}
  BY <1>1, <1>3 DEF FoldableRows, OwedRows
<1>6. readCursor(R) = 1 /\ readLastId(R) = 1 /\ readOutbox(R) = {}
  <2>1. {row.authoritySeq : row \in R} = {1} /\ {row.id : row \in R} = {1}
    BY <1>1 DEF R
  <2>2. MaxOr0({1}) = 1
    BY DEF MaxOr0
  <2>. QED
    BY <1>5, <2>1, <2>2 DEF readCursor, readLastId, readOutbox
<1>7. ~FoldDue(R)
  <2>1. Cardinality(R) = 1
    BY FS_Singleton DEF R
  <2>. QED
    BY <1>5, <2>1, ThresholdAssumption DEF FoldDue
<1>8. /\ doc = {} /\ rows = R /\ held = 1
      /\ queue = none /\ applied = none /\ batch = none
      /\ phase = "idle" /\ requested = FALSE
      /\ txn = [rows |-> {}, outbox |-> {}, cursor |-> 0, grew |-> FALSE, chain |-> 0]
      /\ outbox = {} /\ cursor = 1
      /\ nextId = 2 /\ lastCoalescedId = 0 /\ acknowledgedThroughId = 0
      /\ closed = FALSE /\ discarded = FALSE
      /\ clientCursor = 1 /\ inflight = None
      /\ server = log /\ authored = {} /\ failedLast = FALSE
      /\ crashes = 0 /\ failures = 0 /\ drops = 0
  <2>1. Cardinality(R) = 1
    BY FS_Singleton DEF R
  <2>2. rows = R /\ held = Cardinality(rows)
    BY DEF Init, R
  <2>. QED
    BY <1>6, <2>1, <2>2 DEF Init, R, log, none
<1>9. TypeOK
  <2>1. doc \in Update /\ outbox \subseteq OutboxEntry /\ authored \subseteq LocalEdits
    BY <1>8 DEF Update
  <2>2. txn \in [rows : SUBSET Row, outbox : SUBSET OutboxEntry, cursor : Nat, grew : BOOLEAN,
                   chain : Int]
    BY <1>8
  <2>3. crashes \in 0..MaxCrashes /\ failures \in 0..MaxFailures /\ drops \in 0..MaxDrops
    BY <1>8, BoundsAssumption
  <2>4. inflight \in [throughId : Nat, bytes : Update, position : Nat]
    BY <1>8, NoneShape DEF Flight
  <2>5. /\ cursor \in Nat /\ nextId \in Nat \ {0} /\ lastCoalescedId \in Nat
        /\ acknowledgedThroughId \in Nat /\ clientCursor \in Nat
        /\ phase \in {"idle", "scheduled", "committing"}
    BY <1>8
  <2>6. requested \in BOOLEAN /\ closed \in BOOLEAN /\ discarded \in BOOLEAN /\ failedLast \in BOOLEAN
    BY <1>8
  <2>. QED
    BY <1>2, <1>3, <1>8, <2>1, <2>2, <2>3, <2>4, <2>5, <2>6 DEF TypeOK
<1>10. Pending = none
  <2>1. none \o none = none
    BY DEF none
  <2>. QED
    BY <1>8, <2>1 DEF Pending, Rest
<1>11. Coming(rows, Pending)
  BY <1>4, <1>8, <1>10 DEF Coming, ComingIn
<1>12. FlightSafe
  <2>1. /\ None.position = 0 /\ None.throughId < nextId /\ acknowledgedThroughId < nextId
        /\ clientCursor <= Len(server)
    <3>1. nextId = 2 /\ acknowledgedThroughId = 0 /\ clientCursor = 1 /\ server = log
      BY <1>8
    <3>2. None.position = 0 /\ None.throughId = 0
      BY NoneShape
    <3>. QED
      BY <1>2, <3>1, <3>2
  <2>2. Holds(rows, None.bytes)
    BY NoneShape
  <2>. QED
    BY <1>8, <2>1, <2>2 DEF FlightSafe
<1>13. MirrorFaithful /\ PhaseSafe
  BY <1>6, <1>7, <1>8 DEF MirrorFaithful, PhaseSafe, none
<1>. QED
  BY <1>8, <1>9, <1>11, <1>12, <1>13 DEF IInv

-----------------------------------------------------------------------------
(* The theorems *)

LEMMA NextKeeps == ASSUME IInv, [Next]_vars PROVE IInv'
<1>1. ASSUME NEW e \in LocalEdits, Edit(e) PROVE IInv'
  BY <1>1, EditKeeps
<1>2. CASE Flush
  BY <1>2, FlushKeeps
<1>3. CASE StartDrain
  BY <1>3, StartDrainKeeps
<1>4. CASE ApplyOp
  BY <1>4, ApplyOpKeeps
<1>5. CASE CommitBatch
  BY <1>5, CommitBatchKeeps
<1>6. CASE FailBatch
  BY <1>6, FailBatchKeeps
<1>7. CASE Submit
  BY <1>7, SubmitKeeps
<1>8. CASE AuthorityLogs
  BY <1>8, AuthorityLogsKeeps
<1>9. ASSUME NEW e \in RemoteEdits, RemoteWrite(e) PROVE IInv'
  BY <1>9, RemoteWriteKeeps
<1>10. CASE ReceiveEntry
  BY <1>10, ReceiveEntryKeeps
<1>11. CASE ReceiveAck
  BY <1>11, ReceiveAckKeeps
<1>12. CASE LoseAnswer
  BY <1>12, LoseAnswerKeeps
<1>13. CASE Close
  BY <1>13, CloseKeeps
<1>14. CASE Discard
  BY <1>14, DiscardKeeps
<1>15. CASE Crash
  BY <1>15, CrashKeeps
<1>16. CASE UNCHANGED vars
  <2>1. UNCHANGED <<doc, rows, held, queue, phase, requested, applied, batch, txn, outbox, cursor,
                    nextId, lastCoalescedId, acknowledgedThroughId, closed, discarded,
                    clientCursor, inflight, server, authored, failedLast, crashes, failures,
                    drops>>
    BY <1>16 DEF vars, controller, environment, budgets
  <2>2. Pending' = Pending /\ Rest' = Rest
    BY <2>1 DEF Pending, Rest
  <2>3. TypeOK'
    BY <2>1 DEF IInv, TypeOK
  <2>4. Coming(rows, Pending)' /\ (phase' = "committing" => Coming(txn.rows, Rest)')
    BY <2>1, <2>2 DEF IInv, Coming
  <2>5. (phase' = "committing" => NothingDropped') /\ MirrorFaithful' /\ FlightSafe' /\ PhaseSafe'
    BY <2>1 DEF IInv, NothingDropped, MirrorFaithful, FlightSafe, PhaseSafe
  <2>. QED
    BY <2>3, <2>4, <2>5 DEF IInv
<1>. QED
  BY <1>1, <1>2, <1>3, <1>4, <1>5, <1>6, <1>7, <1>8, <1>9, <1>10, <1>11, <1>12, <1>13, <1>14,
     <1>15, <1>16 DEF Next

\* The inductive invariant holds in every state of the controller, whatever
\* edits, commits, refusals, acknowledgements and crashes interleave.
THEOREM Invariance == Spec => []IInv
<1>1. Init => IInv
  BY InitHolds
<1>2. IInv /\ [Next]_vars => IInv'
  BY NextKeeps
<1>. QED
  BY <1>1, <1>2, PTL DEF Spec

\* coalesce() reads exactly the owed rows of the file, and every submission's
\* bytes are already durable.
THEOREM MirrorIsTheFile == Spec => []MirrorSound
<1>1. IInv => MirrorSound
  <2>. SUFFICES ASSUME IInv PROVE MirrorSound
    OBVIOUS
  <2>1. OnlyDurableOffered
    BY HoldsIsContent DEF IInv, FlightSafe, OnlyDurableOffered
  <2>. QED
    BY <2>1 DEF IInv, MirrorSound
<1>. QED
  BY <1>1, Invariance, PTL

\* The file never claims that the authority holds bytes it does not, and its
\* cursor never covers a position whose bytes the file lacks.
THEOREM AcknowledgedIsLogged == Spec => []AcksHonest
<1>1. IInv => AcksHonest
  <2>. SUFFICES ASSUME IInv PROVE AcksHonest
    OBVIOUS
  <2>1. /\ TypeOK /\ ComingIn(rows, Pending, nextId, acknowledgedThroughId, inflight, server,
                              ~discarded, clientCursor, doc)
    BY DEF IInv, Coming
  <2>2. NothingUnsentRetired
    <3>1. \A row \in rows : row.authoritySeq # NULL => InLog(row.bytes, server)
      BY <2>1 DEF ComingIn, AcksSafe
    <3>. QED
      BY <3>1 DEF NothingUnsentRetired, Logged, InLog
  <2>3. DurableCursorCovered
    <3>1. nextId \in Nat /\ server \in Seq(Update) /\ Len(server) \in Nat
      BY <2>1, SeqsOK
    <3>2. readCursor(rows) \in Nat /\ \A j \in 1..readCursor(rows) : Holds(rows, server[j])
      BY <2>1, <3>1, Restart
    <3>3. \A j \in 1..Len(server) : j <= readCursor(rows) => j \in 1..readCursor(rows)
      BY <3>1, <3>2
    <3>. QED
      BY <3>2, <3>3, HoldsIsContent DEF DurableCursorCovered
  <2>. QED
    BY <2>2, <2>3 DEF AcksHonest
<1>. QED
  BY <1>1, Invariance, PTL

\* A controller at rest has saved everything the user sees, or was refused.
THEOREM RestIsSaved == Spec => []NothingStranded
<1>1. IInv => NothingStranded
  <2>. SUFFICES ASSUME IInv PROVE NothingStranded
    OBVIOUS
  <2>1. ASSUME phase = "idle", queue = <<>>, ~discarded
        PROVE  doc = Content(rows)
    <3>1. applied = <<>> /\ batch = <<>>
      BY <2>1 DEF IInv, PhaseSafe
    <3>2. Pending = <<>>
      <4>1. Rest = <<>>
        BY <2>1, <3>1, EmptyConcat DEF Rest
      <4>. QED
        BY <3>1, <4>1, EmptyConcat DEF Pending
    <3>3. DocKept(rows, <<>>, doc)
      BY <2>1, <3>2 DEF IInv, Coming, ComingIn
    <3>4. \A i \in 1..Len(<<>>) : FALSE
      OBVIOUS
    <3>5. \A e \in Edits : e \in doc <=> \E row \in rows : e \in row.bytes
      BY <3>3, <3>4 DEF DocKept
    <3>6. doc \in SUBSET Edits /\ \A row \in rows : row.bytes \in SUBSET Edits
      BY DEF IInv, TypeOK, Row, Update
    <3>. QED
      BY <3>5, <3>6 DEF Content
  <2>2. phase = "idle" /\ queue # <<>> => failedLast
    BY DEF IInv, PhaseSafe
  <2>. QED
    BY <2>1, <2>2 DEF NothingStranded, SavedMeansDurable, BlockedOnlyAfterFailure
<1>. QED
  BY <1>1, Invariance, PTL

\* With an exact count the two gates agree: a batch that did not grow the chain
\* left no more foldable rows than the file had, too few for a fold.
LEMMA GatesAgree ==
    ASSUME IInv, CountIsExact, phase = "committing"
    PROVE  FoldDue(txn.rows) <=> IdbFoldDue(txn.rows, txn.grew, txn.chain)
<1>. DEFINE few == FoldableRows(rows)
            mine == FoldableRows(txn.rows)
<1>1. IsFiniteSet(rows) /\ IsFiniteSet(txn.rows)
  BY DEF IInv, Coming, ComingIn
<1>2. few \subseteq rows /\ mine \subseteq txn.rows
  BY DEF FoldableRows
<1>3. /\ ~(Cardinality(few) >= SNAPSHOT_FOLD_THRESHOLD)
      /\ ~txn.grew => mine \subseteq few
  BY DEF IInv, PhaseSafe, FoldDue, NothingDropped
<1>. HIDE DEF few, mine
<1>4. IsFiniteSet(few) /\ IsFiniteSet(mine) /\ Cardinality(mine) <= Cardinality(txn.rows)
  BY <1>1, <1>2, FS_Subset
<1>5. Cardinality(mine) \in Nat /\ Cardinality(txn.rows) \in Nat /\ Cardinality(few) \in Nat
  BY <1>1, <1>4, FS_CardinalityType
<1>6. mine \subseteq few => Cardinality(mine) <= Cardinality(few)
  BY <1>4, FS_Subset
<1>7. txn.grew \in BOOLEAN
  BY DEF IInv, TypeOK
<1>8. Cardinality(mine) >= SNAPSHOT_FOLD_THRESHOLD =>
         txn.grew /\ Cardinality(txn.rows) >= SNAPSHOT_FOLD_THRESHOLD
  BY <1>3, <1>4, <1>5, <1>6, ThresholdAssumption
<1>9. txn.chain = Cardinality(txn.rows)
  BY DEF CountIsExact
<1>. QED
  BY <1>8, <1>9 DEF FoldDue, IdbFoldDue, mine

\* A batch starts with the count of the file.
LEMMA FreshCount ==
    ASSUME held' = Cardinality(rows'), txn'.rows = rows', txn'.chain = held'
    PROVE  CountIsExact'
BY DEF CountIsExact

\* Every operation, fold, refused batch and restart keeps the count exact.
LEMMA CountKeeps ==
    ASSUME IInv, CountIsExact, [Next]_vars
    PROVE  CountIsExact'
<1>1. CASE StartDrain
  <2>1. rows' = rows /\ held' = held /\ held = Cardinality(rows)
    BY <1>1 DEF StartDrain, CountIsExact
  <2>2. CASE queue = <<>>
    BY <1>1, <2>1, <2>2 DEF StartDrain, CountIsExact
  <2>3. CASE queue # <<>>
    <3>1. txn'.rows = rows /\ txn'.chain = held
      BY <1>1, <2>3 DEF StartDrain
    <3>. QED
      BY <2>1, <3>1, FreshCount
  <2>. QED
    BY <2>2, <2>3
<1>2. CASE ApplyOp
  <2>. DEFINE op == Head(batch)
  <2>1. /\ TypeOK /\ phase = "committing" /\ batch # <<>> /\ UNCHANGED <<rows, held, phase>>
        /\ txn'.rows = applyOp(txn.rows, op) /\ txn'.chain = Counted(txn.chain, op)
    BY <1>2 DEF IInv, ApplyOp
  <2>2. batch \o queue # <<>> /\ Head(batch \o queue) = op
    BY <2>1, SeqsOK, MoveHead
  <2>3. /\ txn.rows \in SUBSET Row /\ IsFiniteSet(txn.rows)
        /\ IdsOrdered(txn.rows, Rest, nextId) /\ MergeSafe(txn.rows, Rest)
    BY <2>1 DEF IInv, Coming, ComingIn
  <2>4. Rest \in Seq(DurableOp) /\ nextId \in Nat /\ Rest # <<>> /\ Head(Rest) = op
    BY <2>1, <2>2, SeqsOK DEF Rest
  <2>. HIDE DEF op
  <2>5. Counted(Cardinality(txn.rows), op) = Cardinality(applyOp(txn.rows, op))
    BY <2>3, <2>4, CountedApply
  <2>. QED
    BY <2>1, <2>5 DEF CountIsExact
<1>3. CASE CommitBatch
  <2>1. /\ TypeOK /\ phase = "committing" /\ rows' = fold(txn.rows)
        /\ held' = CountedFold(txn.rows, txn.grew, txn.chain)
        /\ txn.chain = Cardinality(txn.rows)
    BY <1>3 DEF IInv, CommitBatch, CountIsExact
  <2>2. /\ txn.rows \in SUBSET Row /\ IsFiniteSet(txn.rows)
        /\ \A row \in txn.rows : row.id < nextId
        /\ \A row \in txn.rows : row.authoritySeq # NULL => row.authoritySeq <= Len(server)
        /\ nextId \in Nat /\ Len(server) \in Nat
    BY <2>1, SeqsOK, LenProperties DEF IInv, Coming, ComingIn, IdsOrdered, CursorSafe
  <2>3. FoldDue(txn.rows) <=> IdbFoldDue(txn.rows, txn.grew, Cardinality(txn.rows))
    BY <2>1, GatesAgree
  <2>4. held' = Cardinality(rows')
    BY <2>1, <2>2, <2>3, FoldCounted
  <2>5. phase' = "idle" \/ (txn'.rows = rows' /\ txn'.chain = held')
    BY <1>3 DEF CommitBatch, Release
  <2>. QED
    BY <2>4, <2>5, FreshCount DEF CountIsExact
<1>4. CASE FailBatch
  <2>1. rows' = rows /\ held' = held /\ held = Cardinality(rows)
    BY <1>4 DEF FailBatch, CountIsExact
  <2>2. phase' = "idle" \/ (txn'.rows = rows' /\ txn'.chain = held')
    BY <1>4 DEF FailBatch, Release
  <2>. QED
    BY <2>1, <2>2, FreshCount DEF CountIsExact
<1>5. CASE Crash
  BY <1>5 DEF Crash, CountIsExact
<1>6. ASSUME UNCHANGED <<rows, held, txn>>, phase' = "committing" => phase = "committing"
      PROVE  CountIsExact'
  BY <1>6 DEF CountIsExact
<1>. QED
  <2>1. RequestFlush => (phase' = "committing" => phase = "committing")
    BY DEF RequestFlush
  <2>2. \A op : enqueue(op) => (phase' = "committing" => phase = "committing")
    BY <2>1 DEF enqueue
  <2>3. ASSUME NEW e \in LocalEdits, Edit(e) PROVE CountIsExact'
    BY <1>6, <2>2, <2>3 DEF Edit
  <2>4. CASE Flush
    BY <1>6, <2>1, <2>4 DEF Flush
  <2>5. CASE Submit
    BY <1>6, <2>5 DEF Submit
  <2>6. CASE AuthorityLogs
    BY <1>6, <2>6 DEF AuthorityLogs, controller
  <2>7. ASSUME NEW e \in RemoteEdits, RemoteWrite(e) PROVE CountIsExact'
    BY <1>6, <2>7 DEF RemoteWrite, controller
  <2>8. CASE ReceiveEntry
    BY <1>6, <2>2, <2>8 DEF ReceiveEntry
  <2>9. CASE ReceiveAck
    BY <1>6, <2>2, <2>9 DEF ReceiveAck
  <2>10. CASE LoseAnswer
    BY <1>6, <2>10 DEF LoseAnswer, controller
  <2>11. CASE Close
    BY <1>6, <2>1, <2>11 DEF Close
  <2>12. CASE Discard
    BY <1>6, <2>12 DEF Discard
  <2>13. CASE UNCHANGED vars
    BY <1>6, <2>13 DEF vars, controller
  <2>. QED
    BY <1>1, <1>2, <1>3, <1>4, <1>5, <2>3, <2>4, <2>5, <2>6, <2>7, <2>8, <2>9, <2>10, <2>11,
       <2>12, <2>13 DEF Next

\* The count the IndexedDB port keeps in memory never drifts from its relation,
\* and with it the port folds in exactly the commits in which the SQL port, which
\* counts the foldable rows after the batch, does.
THEOREM FoldsAgree == Spec => []PortsFoldAlike
<1>1. Init => CountIsExact
  BY DEF Init, CountIsExact
<1>2. IInv /\ CountIsExact /\ [Next]_vars => CountIsExact'
  BY CountKeeps
<1>3. IInv /\ CountIsExact => PortsFoldAlike
  BY GatesAgree DEF PortsFoldAlike
<1>. QED
  BY <1>1, <1>2, <1>3, Invariance, PTL DEF Spec

\* No commit, fold, merge or crash takes bytes out of the file, and the ids the
\* next session hands out start above every id the file has used.
THEOREM FileOnlyGrows == Spec => DurableNeverShrinks
<1>1. IInv /\ IInv' /\ [Next]_vars =>
        [Content(rows) \subseteq Content(rows') /\ readLastId(rows) <= readLastId(rows')]_vars
  <2>. SUFFICES ASSUME IInv, IInv', [Next]_vars
                PROVE  Content(rows) \subseteq Content(rows') /\ readLastId(rows) <= readLastId(rows')
    OBVIOUS
  <2>1. /\ ComingIn(rows, Pending, nextId, acknowledgedThroughId, inflight, server, ~discarded,
                    clientCursor, doc)
        /\ nextId \in Nat /\ server \in Seq(Update)
    BY SeqsOK DEF IInv, Coming
  <2>2. /\ readLastId(rows) \in Nat
        /\ rows # {} => \E row \in rows : row.id = readLastId(rows)
        /\ rows = {} => readLastId(rows) = 0
    <3>1. rows = {} => readLastId(rows) = 0
      BY DEF readLastId, MaxOr0
    <3>. QED
      BY <2>1, <3>1, Restart
  <2>3. CASE rows' = rows
    BY <2>2, <2>3
  <2>4. CASE CommitBatch
    <3>1. rows' = fold(txn.rows) /\ phase = "committing"
      BY <2>4 DEF CommitBatch
    <3>2. /\ ComingIn(txn.rows, Rest, nextId, acknowledgedThroughId, inflight, server, ~discarded,
                      clientCursor, doc)
          /\ NothingDropped
      BY <3>1 DEF IInv, Coming
    <3>3. /\ \A row \in txn.rows : \E other \in rows' : row.id <= other.id
          /\ \A bytes : Holds(rows', bytes) <=> Holds(txn.rows, bytes)
          /\ ComingIn(rows', Rest, nextId, acknowledgedThroughId, inflight, server, ~discarded,
                      clientCursor, doc)
      BY <2>1, <3>1, <3>2, ComingFold
    <3>4. Content(rows) \subseteq Content(rows')
      <4>1. \A row \in rows : Holds(rows', row.bytes)
        BY <3>2, <3>3 DEF NothingDropped
      <4>. QED
        BY <4>1 DEF Holds, Content
    <3>5. readLastId(rows') \in Nat /\ \A row \in rows' : row.id <= readLastId(rows')
      BY <2>1, <3>3, Restart
    <3>6. readLastId(rows) <= readLastId(rows')
      <4>1. CASE rows = {}
        BY <2>2, <3>5, <4>1
      <4>2. CASE rows # {}
        <5>1. PICK row \in rows : row.id = readLastId(rows)
          BY <2>2, <4>2
        <5>2. PICK mine \in txn.rows : row.id <= mine.id
          BY <3>2 DEF NothingDropped
        <5>3. PICK other \in rows' : mine.id <= other.id
          BY <3>3
        <5>4. mine.id \in Nat /\ other.id \in Nat
          BY <3>2, <3>3 DEF ComingIn, Row
        <5>. QED
          BY <2>2, <3>5, <5>1, <5>2, <5>3, <5>4
      <4>. QED
        BY <4>1, <4>2
    <3>. QED
      BY <3>4, <3>6
  <2>5. rows' = rows \/ CommitBatch
    BY DEF Next, vars, Edit, Flush, StartDrain, ApplyOp, FailBatch, Submit, AuthorityLogs,
           RemoteWrite, ReceiveEntry, ReceiveAck, LoseAnswer, Close, Discard, Crash
  <2>. QED
    BY <2>3, <2>4, <2>5
<1>. QED
  BY <1>1, Invariance, PTL DEF Spec, DurableNeverShrinks
=============================================================================
