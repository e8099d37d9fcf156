------------------------ MODULE SyncAuthorityProofs -------------------------
(***************************************************************************)
(* Proofs about SyncAuthority, for every set of edits and operations and   *)
(* every bound.  The inductive invariant describes the two relations by    *)
(* the ghost history: the log is exactly the part of the history after the *)
(* newest snapshot, and every snapshot covers the part up to its position. *)
(***************************************************************************)
EXTENDS SyncAuthority, FiniteSetTheorems, TLAPS

\* Before the first ensureCurrent nothing is stored and nobody holds anything.
EmptyBeforeFirst ==
    generation = 0 => /\ log = {} /\ snaps = {} /\ history = <<>>
                      /\ receipts = {} /\ prepared = {}

\* p is the newest snapshot position and the log is the history after it.
TailAfter(p) ==
    /\ p \in Positions(snaps)
    /\ \A q \in Positions(snaps) : q <= p
    /\ log = {[seq |-> i, bytes |-> history[i]] : i \in (p + 1)..Len(history)}

LogIsTail == generation # 0 => \E p \in 1..Len(history) : TailAfter(p)

SnapshotsCover ==
    \A s \in snaps : /\ s.position \in 1..Len(history)
                     /\ CoversThrough(s.bytes, s.position)

\* What a caller captured covers the history up to the head it expects.
RequestsHonest ==
    \A request \in prepared :
        /\ request.expectedGeneration <= generation
        /\ request.expectedGeneration = generation =>
              /\ request.expectedHead \in 1..Len(history)
              /\ CoversThrough(request.seen, request.expectedHead)

IInv ==
    /\ TypeOK
    /\ EmptyBeforeFirst
    /\ LogIsTail
    /\ SnapshotsCover
    /\ RequestsHonest
    /\ ReceiptsChain
    /\ HubIsCurrent
-----------------------------------------------------------------------------
\* MaxOr0 returns the element of the set that bounds it.
LEMMA MaxOr0Is ==
    ASSUME NEW S \in SUBSET Nat, NEW m \in S, \A x \in S : x <= m
    PROVE  MaxOr0(S) = m
<1>1. S # {}
  OBVIOUS
<1>2. \A y \in S : (\A x \in S : x <= y) => y = m
  OBVIOUS
<1>. QED
  BY <1>1, <1>2 DEF MaxOr0

\* While a generation exists, the derived head and snapshot position are what
\* the history says they are.
LEMMA HeadIsLength ==
    ASSUME TypeOK, NEW p \in 1..Len(history), TailAfter(p)
    PROVE  /\ snapshotPosition(snaps) = p
           /\ LogHead = Len(history)
<1>1. Positions(snaps) \in SUBSET Nat
  BY DEF TypeOK, SnapshotRow, Positions
<1>2. snapshotPosition(snaps) = p
  BY <1>1, MaxOr0Is DEF TailAfter, snapshotPosition
<1>3. Seqs(log) = (p + 1)..Len(history)
  <2>1. \A i \in (p + 1)..Len(history) :
            [seq |-> i, bytes |-> history[i]] \in log
    BY DEF TailAfter
  <2>2. (p + 1)..Len(history) \subseteq Seqs(log)
    <3>. SUFFICES ASSUME NEW i \in (p + 1)..Len(history) PROVE i \in Seqs(log)
      OBVIOUS
    <3>1. [seq |-> i, bytes |-> history[i]].seq = i
      OBVIOUS
    <3>. QED
      BY <2>1, <3>1 DEF Seqs
  <2>3. Seqs(log) \subseteq (p + 1)..Len(history)
    BY DEF TailAfter, Seqs
  <2>. QED
    BY <2>2, <2>3
<1>4. Len(history) \in Nat
  BY DEF TypeOK
<1>5. CASE p = Len(history)
  <2>1. Seqs(log) = {}
    BY <1>3, <1>4, <1>5
  <2>. QED
    BY <1>2, <1>5, <2>1 DEF LogHead, head, MaxOr0
<1>6. CASE p < Len(history)
  <2>1. Len(history) \in Seqs(log) /\ \A x \in Seqs(log) : x <= Len(history)
    BY <1>3, <1>4, <1>6
  <2>2. Seqs(log) \in SUBSET Nat
    BY <1>3, <1>4
  <2>3. MaxOr0(Seqs(log)) = Len(history)
    BY <2>1, <2>2, MaxOr0Is
  <2>. QED
    BY <1>2, <1>6, <2>3 DEF LogHead, head
<1>. QED
  BY <1>2, <1>4, <1>5, <1>6

\* Reading the rows of the log back gives the history after p.
LEMMA CapturedCovers ==
    ASSUME TypeOK, SnapshotsCover, NEW p \in 1..Len(history), TailAfter(p)
    PROVE  \A i \in 1..Len(history) : history[i] \subseteq Captured
<1>1. snapshotPosition(snaps) = p
  BY HeadIsLength
<1>2. PICK s \in snaps : s.position = p
  BY DEF TailAfter, Positions
<1>3. snapshot(snaps) \in snaps /\ snapshot(snaps).position = p
  BY <1>1, <1>2 DEF snapshot
<1>. SUFFICES ASSUME NEW i \in 1..Len(history) PROVE history[i] \subseteq Captured
  OBVIOUS
<1>4. CASE i <= p
  <2>1. i \in 1..p
    BY <1>4
  <2>2. history[i] \subseteq snapshot(snaps).bytes
    BY <1>3, <2>1 DEF SnapshotsCover, CoversThrough
  <2>. QED
    BY <2>2 DEF Captured
<1>5. CASE i > p
  <2>. DEFINE row == [seq |-> i, bytes |-> history[i]]
  <2>1. i \in (p + 1)..Len(history)
    BY <1>5
  <2>2. row \in log
    BY <2>1 DEF TailAfter
  <2>3. row.seq = i /\ row.bytes = history[i]
    OBVIOUS
  <2>4. row \in since(log, snapshotPosition(snaps))
    BY <1>1, <1>5, <2>2, <2>3 DEF since
  <2>. QED
    BY <2>3, <2>4 DEF Captured
<1>. QED
  BY <1>4, <1>5

LEMMA CapturedIsUpdate ==
    ASSUME TypeOK, generation # 0, LogIsTail
    PROVE  Captured \in Update
<1>1. PICK p \in 1..Len(history) : TailAfter(p)
  BY DEF LogIsTail
<1>2. snapshotPosition(snaps) = p
  BY <1>1, HeadIsLength
<1>3. \E s \in snaps : s.position = p
  BY <1>1 DEF TailAfter, Positions
<1>4. snapshot(snaps) \in snaps
  BY <1>2, <1>3 DEF snapshot
<1>. QED
  BY <1>4 DEF Captured, TypeOK, SnapshotRow, LogRow, Update, since

\* The positions of a relation of one row.
LEMMA PositionsOfOne ==
    ASSUME NEW p, NEW b
    PROVE  Positions({[position |-> p, bytes |-> b]}) = {p}
<1>1. [position |-> p, bytes |-> b].position = p
  OBVIOUS
<1>. QED
  BY <1>1, Zenon DEF Positions
-----------------------------------------------------------------------------
LEMMA InitIInv == Init => IInv
  BY DEF Init, IInv, TypeOK, EmptyBeforeFirst, LogIsTail, SnapshotsCover,
         RequestsHonest, ReceiptsChain, HubIsCurrent

\* ensureCurrent: the first snapshot is the whole history.
LEMMA EnsureCurrentStep ==
    ASSUME IInv, NEW bytes \in Inputs, EnsureCurrent(bytes)
    PROVE  IInv'
<1>. USE DEF IInv, EnsureCurrent
<1>1. log = {} /\ snaps = {} /\ history = <<>> /\ receipts = {} /\ prepared = {}
  BY DEF EmptyBeforeFirst
<1>2. bytes \in Update
  BY InputsAssumption
<1>3. snaps' = {[position |-> 1, bytes |-> bytes]}
  BY <1>1 DEF writeSnapshot
<1>4. Len(history') = 1 /\ history'[1] = bytes
  OBVIOUS
<1>5. TypeOK'
  BY <1>2, <1>3 DEF TypeOK, SnapshotRow
<1>6. TailAfter(1)'
  <2>1. Positions(snaps') = {1}
    BY <1>3, PositionsOfOne
  <2>2. log' = {}
    BY <1>1
  <2>. QED
    BY <1>4, <2>1, <2>2 DEF TailAfter
<1>7. LogIsTail'
  BY <1>4, <1>6 DEF LogIsTail
<1>8. SnapshotsCover'
  BY <1>3, <1>4 DEF SnapshotsCover, CoversThrough
<1>9. EmptyBeforeFirst' /\ RequestsHonest'
  BY <1>1 DEF EmptyBeforeFirst, RequestsHonest
<1>10. ReceiptsChain' /\ HubIsCurrent'
  BY <1>1 DEF ReceiptsChain, HubIsCurrent
<1>. QED
  BY <1>5, <1>7, <1>8, <1>9, <1>10

\* append: the new row is the next element of the history.
LEMMA AppendStep ==
    ASSUME IInv, NEW g \in 1..MaxGeneration, NEW bytes \in Inputs, Append_(g, bytes)
    PROVE  IInv'
<1>. USE DEF IInv, Append_, Admitted
<1>0. generation # 0
  BY BoundsAssumption
<1>1. PICK p \in 1..Len(history) : TailAfter(p)
  BY <1>0 DEF LogIsTail
<1>2. LogHead = Len(history)
  BY <1>1, HeadIsLength
<1>3. bytes \in Update /\ history \in Seq(Update) /\ Len(history) \in Nat
  BY InputsAssumption DEF TypeOK
<1>4. /\ history' \in Seq(Update)
      /\ Len(history') = Len(history) + 1
      /\ \A i \in 1..Len(history) : history'[i] = history[i]
      /\ history'[Len(history) + 1] = bytes
  BY <1>3
<1>. DEFINE new == [seq |-> Len(history) + 1, bytes |-> bytes]
<1>5. log' = log \union {new}
  BY <1>2 DEF append, LogHead
<1>6. TypeOK'
  <2>1. new \in LogRow
    BY <1>3 DEF LogRow
  <2>. QED
    BY <1>4, <1>5, <2>1 DEF TypeOK
<1>7. TailAfter(p)'
  <2>. DEFINE tail == {[seq |-> i, bytes |-> history[i]] : i \in (p + 1)..Len(history)}
              tail1 == {[seq |-> i, bytes |-> history'[i]] : i \in (p + 1)..Len(history')}
  <2>1. \A i \in (p + 1)..Len(history) :
           [seq |-> i, bytes |-> history[i]] = [seq |-> i, bytes |-> history'[i]]
    BY <1>4
  <2>2. (p + 1)..Len(history') = ((p + 1)..Len(history)) \union {Len(history) + 1}
    BY <1>3, <1>4
  <2>3. new = [seq |-> Len(history) + 1, bytes |-> history'[Len(history) + 1]]
    BY <1>4
  <2>4. tail1 = tail \union {new}
    <3>1. tail1 \subseteq tail \union {new}
      <4>. SUFFICES ASSUME NEW i \in (p + 1)..Len(history')
                    PROVE  [seq |-> i, bytes |-> history'[i]] \in tail \union {new}
        OBVIOUS
      <4>1. CASE i \in (p + 1)..Len(history)
        BY <2>1, <4>1
      <4>2. CASE i = Len(history) + 1
        BY <2>3, <4>2
      <4>. QED
        BY <2>2, <4>1, <4>2
    <3>2. tail \subseteq tail1
      BY <2>1, <2>2
    <3>3. new \in tail1
      BY <2>2, <2>3
    <3>. QED
      BY <3>1, <3>2, <3>3
  <2>5. log' = tail1
    BY <1>1, <1>5, <2>4 DEF TailAfter
  <2>6. snaps' = snaps
    OBVIOUS
  <2>. QED
    BY <1>1, <2>5, <2>6 DEF TailAfter
<1>8. LogIsTail'
  BY <1>3, <1>4, <1>7 DEF LogIsTail
<1>9. SnapshotsCover'
  <2>. SUFFICES ASSUME NEW s \in snaps
                PROVE  /\ s.position \in 1..Len(history')
                       /\ \A i \in 1..s.position : history'[i] \subseteq s.bytes
    BY DEF SnapshotsCover, CoversThrough
  <2>1. s.position \in 1..Len(history)
    BY DEF SnapshotsCover
  <2>. QED
    BY <1>3, <1>4, <2>1 DEF SnapshotsCover, CoversThrough
<1>10. RequestsHonest'
  <2>. SUFFICES ASSUME NEW r \in prepared, r.expectedGeneration = generation
                PROVE  /\ r.expectedHead \in 1..Len(history')
                       /\ \A i \in 1..r.expectedHead : history'[i] \subseteq r.seen
    BY DEF RequestsHonest, CoversThrough
  <2>1. r.expectedHead \in 1..Len(history)
    BY DEF RequestsHonest
  <2>. QED
    BY <1>3, <1>4, <2>1 DEF RequestsHonest, CoversThrough
<1>11. EmptyBeforeFirst' /\ ReceiptsChain' /\ HubIsCurrent'
  BY <1>0 DEF EmptyBeforeFirst, ReceiptsChain, HubIsCurrent
<1>. QED
  BY <1>6, <1>8, <1>9, <1>10, <1>11

\* replaceSnapshot: the fold keeps the new snapshot and deletes the rows it
\* stands for.
LEMMA ReplaceSnapshotStep ==
    ASSUME IInv, NEW g \in 1..MaxGeneration, NEW q \in 1..MaxHead,
           NEW bytes \in Update, ReplaceSnapshot(g, q, bytes)
    PROVE  IInv'
<1>. USE DEF IInv, ReplaceSnapshot, Admitted
<1>0. generation # 0
  BY BoundsAssumption
<1>1. PICK p \in 1..Len(history) : TailAfter(p)
  BY <1>0 DEF LogIsTail
<1>2. q > p /\ q <= Len(history)
  BY <1>1, HeadIsLength DEF SnapshotUsable, LogHead
<1>3. Len(history) \in Nat /\ q \in Nat \ {0}
  BY BoundsAssumption DEF TypeOK
<1>. DEFINE new == [position |-> q, bytes |-> bytes]
            written == writeSnapshot(snaps, q, bytes)
<1>4. new.position = q /\ new.bytes = bytes
  OBVIOUS
<1>5. \A s \in written : s = new \/ s \in snaps
  BY DEF writeSnapshot
<1>6. \A x \in Positions(written) : x <= q
  <2>1. \A s \in snaps : s.position <= p /\ s.position \in Nat
    BY <1>1 DEF TailAfter, Positions, TypeOK, SnapshotRow
  <2>2. \A s \in written : s.position <= q
    BY <1>2, <1>3, <1>4, <1>5, <2>1
  <2>. QED
    BY <2>2 DEF Positions
<1>7. new \in snaps'
  <2>1. {x \in Positions(written) : x > q} = {}
    <3>1. Positions(written) \subseteq Nat
      BY <1>3, <1>4, <1>5 DEF Positions, TypeOK, SnapshotRow
    <3>. QED
      BY <1>3, <1>6, <3>1
  <2>2. Cardinality({x \in Positions(written) : x > q}) = 0
    BY <2>1, FS_EmptySet
  <2>3. new \in written
    BY DEF writeSnapshot
  <2>. QED
    BY <1>4, <2>2, <2>3, KeptAssumption DEF foldedSnaps, KeepNewest
<1>8. snaps' \subseteq written
  BY DEF foldedSnaps, KeepNewest
<1>9. TypeOK'
  <2>1. new \in SnapshotRow
    BY <1>3 DEF SnapshotRow
  <2>2. snaps' \subseteq SnapshotRow
    BY <1>5, <1>8, <2>1 DEF TypeOK
  <2>3. log' \subseteq LogRow
    BY DEF TypeOK, foldedLog
  <2>. QED
    BY <2>2, <2>3 DEF TypeOK
<1>10. TailAfter(q)'
  <2>1. q \in Positions(snaps')
    BY <1>4, <1>7 DEF Positions
  <2>2. \A x \in Positions(snaps') : x <= q
    BY <1>6, <1>8 DEF Positions
  <2>. DEFINE rest == {[seq |-> i, bytes |-> history[i]] : i \in (q + 1)..Len(history)}
  <2>3. rest \subseteq log'
    <3>. SUFFICES ASSUME NEW i \in (q + 1)..Len(history)
                  PROVE  [seq |-> i, bytes |-> history[i]] \in log'
      OBVIOUS
    <3>1. i \in (p + 1)..Len(history) /\ i > q
      BY <1>2, <1>3
    <3>2. [seq |-> i, bytes |-> history[i]] \in log
      BY <1>1, <3>1 DEF TailAfter
    <3>. QED
      BY <3>1, <3>2 DEF foldedLog
  <2>4. log' \subseteq rest
    <3>. SUFFICES ASSUME NEW row \in log, row.seq > q PROVE row \in rest
      BY DEF foldedLog
    <3>1. PICK i \in (p + 1)..Len(history) : row = [seq |-> i, bytes |-> history[i]]
      BY <1>1 DEF TailAfter
    <3>2. i \in (q + 1)..Len(history)
      BY <1>3, <3>1
    <3>. QED
      BY <3>1, <3>2
  <2>5. log' = rest
    BY <2>3, <2>4
  <2>. QED
    BY <2>1, <2>2, <2>5 DEF TailAfter
<1>11. LogIsTail'
  BY <1>2, <1>3, <1>10 DEF LogIsTail
<1>12. SnapshotsCover'
  BY <1>2, <1>3, <1>4, <1>5, <1>8 DEF SnapshotsCover, CoversThrough
<1>13. RequestsHonest'
  BY DEF RequestsHonest, CoversThrough
<1>14. EmptyBeforeFirst' /\ ReceiptsChain' /\ HubIsCurrent'
  BY <1>0 DEF EmptyBeforeFirst, ReceiptsChain, HubIsCurrent
<1>. QED
  BY <1>9, <1>11, <1>12, <1>13, <1>14

\* prepareActivation: a caller's capture covers the head it names.
LEMMA PrepareStep ==
    ASSUME IInv, NEW op \in Operations, NEW bytes \in Inputs,
           PrepareActivation(op, bytes)
    PROVE  IInv'
<1>. USE DEF IInv, PrepareActivation, durable
<1>1. PICK p \in 1..Len(history) : TailAfter(p)
  BY DEF LogIsTail
<1>2. LogHead = Len(history) /\ Len(history) \in 1..Len(history)
  BY <1>1, HeadIsLength DEF TypeOK
<1>3. \A i \in 1..Len(history) : history[i] \subseteq Captured
  BY <1>1, CapturedCovers
<1>. DEFINE new == [operation |-> op, expectedGeneration |-> generation,
                    expectedHead |-> LogHead, bytes |-> bytes, seen |-> Captured]
<1>4. new \in Request
  <2>1. Captured \in Update
    BY CapturedIsUpdate
  <2>. QED
    BY <1>2, <2>1, InputsAssumption DEF Request, TypeOK
<1>5. TypeOK'
  BY <1>4 DEF TypeOK
<1>6. RequestsHonest'
  <2>. SUFFICES ASSUME NEW r \in prepared'
                PROVE  /\ r.expectedGeneration <= generation
                       /\ r.expectedGeneration = generation =>
                            /\ r.expectedHead \in 1..Len(history)
                            /\ CoversThrough(r.seen, r.expectedHead)
    BY DEF RequestsHonest, CoversThrough
  <2>1. CASE r \in prepared
    BY <2>1 DEF RequestsHonest
  <2>2. CASE r = new
    BY <1>2, <1>3, <2>2 DEF CoversThrough, TypeOK
  <2>. QED
    BY <2>1, <2>2
<1>7. LogIsTail' /\ SnapshotsCover'
  BY DEF LogIsTail, TailAfter, SnapshotsCover, CoversThrough
<1>8. EmptyBeforeFirst' /\ ReceiptsChain' /\ HubIsCurrent'
  BY DEF EmptyBeforeFirst, ReceiptsChain, HubIsCurrent
<1>. QED
  BY <1>5, <1>6, <1>7, <1>8

\* activate: the new generation starts with one snapshot and one receipt, and
\* every request still held now names an earlier generation.
LEMMA ActivateStep ==
    ASSUME IInv, NEW request \in prepared, Activate(request)
    PROVE  IInv'
<1>. USE DEF IInv, Activate, AsExpected
<1>0. request \in Request /\ generation \in Nat
  BY DEF TypeOK
<1>. DEFINE g1 == generation + 1
            receipt == [operation |-> request.operation,
                        expectedGeneration |-> request.expectedGeneration,
                        expectedHead |-> request.expectedHead,
                        bytes |-> request.bytes,
                        generation |-> request.expectedGeneration + 1]
<1>1. generation' = g1 /\ g1 \in Nat /\ generation # 0
  BY <1>0 DEF EmptyBeforeFirst
<1>2. Len(history') = 1 /\ history'[1] = request.bytes
  OBVIOUS
<1>3. receipt \in Receipt /\ receipt.generation = g1
      /\ receipt.operation = request.operation
  BY <1>0 DEF Receipt, Request
<1>4. receipts' = receipts \union {receipt}
  OBVIOUS
<1>5. hub' \in {0, hub}
  BY DEF HubAfter
<1>6. TypeOK'
  <2>1. [position |-> 1, bytes |-> request.bytes] \in SnapshotRow
    BY <1>0 DEF SnapshotRow, Request
  <2>2. <<request.bytes>> \in Seq(Update)
    BY <1>0 DEF Request
  <2>. QED
    BY <1>1, <1>3, <1>4, <1>5, <2>1, <2>2 DEF TypeOK
<1>7. TailAfter(1)'
  <2>1. Positions(snaps') = {1}
    BY PositionsOfOne
  <2>. QED
    BY <1>2, <2>1 DEF TailAfter
<1>8. LogIsTail'
  BY <1>2, <1>7 DEF LogIsTail
<1>9. SnapshotsCover'
  BY <1>2 DEF SnapshotsCover, CoversThrough
<1>10. RequestsHonest'
  BY <1>0, <1>1 DEF RequestsHonest, TypeOK, Request
<1>11. ReceiptsChain'
  <2>1. \A r \in receipts : r.generation \in 2..generation /\ r.operation # request.operation
    BY DEF ReceiptsChain, Previous
  <2>2. g1 \in 2..g1 /\ 2..g1 = (2..generation) \union {g1}
    BY <1>0, <1>1
  <2>3. \A r \in receipts' : r.generation \in 2..g1
    BY <1>3, <1>4, <2>1, <2>2
  <2>4. \A g \in 2..g1 : \E r \in receipts' : r.generation = g
    BY <1>3, <1>4, <2>2 DEF ReceiptsChain
  <2>5. \A r \in receipts : r.generation # g1
    BY <1>0, <2>1
  <2>6. \A r, s \in receipts' :
            r.operation = s.operation \/ r.generation = s.generation => r = s
    BY <1>3, <1>4, <2>1, <2>5 DEF ReceiptsChain
  <2>. QED
    BY <1>1, <2>3, <2>4, <2>6 DEF ReceiptsChain
<1>12. HubIsCurrent'
  BY <1>0, <1>1 DEF HubIsCurrent, HubAfter, TypeOK
<1>13. EmptyBeforeFirst'
  BY <1>0, <1>1 DEF EmptyBeforeFirst
<1>. QED
  BY <1>6, <1>8, <1>9, <1>10, <1>11, <1>12, <1>13

LEMMA NextIInv == IInv /\ [Next]_vars => IInv'
<1>. SUFFICES ASSUME IInv, [Next]_vars PROVE IInv'
  OBVIOUS
<1>1. ASSUME NEW bytes \in Inputs, EnsureCurrent(bytes) PROVE IInv'
  BY <1>1, EnsureCurrentStep
<1>2. ASSUME NEW g \in 1..MaxGeneration, NEW bytes \in Inputs, Append_(g, bytes)
      PROVE  IInv'
  BY <1>2, AppendStep
<1>3. ASSUME NEW g \in 1..MaxGeneration, NEW p \in 1..MaxHead, NEW bytes \in Update,
             ReplaceSnapshot(g, p, bytes)
      PROVE  IInv'
  BY <1>3, ReplaceSnapshotStep
<1>4. ASSUME NEW g \in 1..MaxGeneration, CreateHub(g) PROVE IInv'
  BY <1>4 DEF IInv, CreateHub, Admitted, durable, TypeOK, EmptyBeforeFirst, LogIsTail,
              TailAfter, SnapshotsCover, CoversThrough, RequestsHonest, ReceiptsChain,
              HubIsCurrent
<1>5. ASSUME NEW op \in Operations, NEW bytes \in Inputs, PrepareActivation(op, bytes)
      PROVE  IInv'
  BY <1>5, PrepareStep
<1>6. ASSUME NEW request \in prepared, Activate(request) PROVE IInv'
  BY <1>6, ActivateStep
<1>7. ASSUME NEW request \in prepared, DropActivation(request) PROVE IInv'
  BY <1>7 DEF IInv, DropActivation, durable, TypeOK, EmptyBeforeFirst, LogIsTail,
              TailAfter, SnapshotsCover, CoversThrough, RequestsHonest, ReceiptsChain,
              HubIsCurrent
<1>8. CASE Reopen
  BY <1>8 DEF IInv, Reopen, durable, TypeOK, EmptyBeforeFirst, LogIsTail,
              TailAfter, SnapshotsCover, CoversThrough, RequestsHonest, ReceiptsChain,
              HubIsCurrent
<1>9. CASE UNCHANGED vars
  BY <1>9 DEF vars, IInv, TypeOK, EmptyBeforeFirst, LogIsTail,
              TailAfter, SnapshotsCover, CoversThrough, RequestsHonest, ReceiptsChain,
              HubIsCurrent
<1>. QED
  BY <1>1, <1>2, <1>3, <1>4, <1>5, <1>6, <1>7, <1>8, <1>9 DEF Next
-----------------------------------------------------------------------------
\* The inductive invariant holds of every behaviour of the authority.
THEOREM Invariant == Spec => []IInv
<1>. QED
  BY InitIInv, NextIInv, PTL DEF Spec

\* Type correctness of the authority's relations and in-memory state.
THEOREM TypeCorrect == Spec => []TypeOK
<1>1. IInv => TypeOK
  BY DEF IInv
<1>. QED
  BY Invariant, <1>1, PTL

\* A position is handed out once: the head derived from what the folds left
\* behind counts every position of the generation.
THEOREM PositionsNeverReused == Spec => []HeadCountsPositions
<1>1. IInv => HeadCountsPositions
  <2>. SUFFICES ASSUME IInv PROVE HeadCountsPositions
    OBVIOUS
  <2>1. CASE generation = 0
    <3>1. Seqs(log) = {} /\ Positions(snaps) = {} /\ history = <<>>
      BY <2>1 DEF IInv, EmptyBeforeFirst, Seqs, Positions
    <3>2. Len(history) = 0
      BY <3>1
    <3>. QED
      BY <3>1, <3>2 DEF HeadCountsPositions, LogHead, head, snapshotPosition, MaxOr0
  <2>2. CASE generation # 0
    <3>1. PICK p \in 1..Len(history) : TailAfter(p)
      BY <2>2 DEF IInv, LogIsTail
    <3>. QED
      BY <3>1, HeadIsLength DEF IInv, HeadCountsPositions
  <2>. QED
    BY <2>1, <2>2
<1>. QED
  BY Invariant, <1>1, PTL

\* A new device is always handed the whole generation: ensureCurrent and
\* capture carry every accepted update.
THEOREM NothingForgotten == Spec => []CaptureComplete
<1>1. IInv => CaptureComplete
  <2>. SUFFICES ASSUME IInv, generation # 0 PROVE Accepted \subseteq Captured
    BY DEF CaptureComplete
  <2>1. PICK p \in 1..Len(history) : TailAfter(p)
    BY DEF IInv, LogIsTail
  <2>. QED
    BY <2>1, CapturedCovers DEF IInv, Accepted
<1>. QED
  BY Invariant, <1>1, PTL

\* The stored tail never has a gap after the newest snapshot.
THEOREM NoGap == Spec => []TailContiguous
<1>1. IInv => TailContiguous
  <2>. SUFFICES ASSUME IInv, generation # 0
                PROVE  /\ snaps # {}
                       /\ Seqs(since(log, snapshotPosition(snaps)))
                            = (snapshotPosition(snaps) + 1)..Len(history)
    BY DEF TailContiguous
  <2>1. PICK p \in 1..Len(history) : TailAfter(p)
    BY DEF IInv, LogIsTail
  <2>2. snapshotPosition(snaps) = p
    BY <2>1, HeadIsLength DEF IInv
  <2>3. snaps # {}
    BY <2>1 DEF TailAfter, Positions
  <2>. DEFINE S == Seqs(since(log, p))
  <2>4. S \subseteq (p + 1)..Len(history)
    BY <2>1 DEF TailAfter, Seqs, since
  <2>5. (p + 1)..Len(history) \subseteq S
    <3>. SUFFICES ASSUME NEW i \in (p + 1)..Len(history) PROVE i \in S
      OBVIOUS
    <3>. DEFINE row == [seq |-> i, bytes |-> history[i]]
    <3>1. row \in log /\ row.seq = i
      BY <2>1 DEF TailAfter
    <3>2. i > p
      OBVIOUS
    <3>3. row \in since(log, p)
      BY <3>1, <3>2 DEF since
    <3>. QED
      BY <3>1, <3>3 DEF Seqs
  <2>. QED
    BY <2>2, <2>3, <2>4, <2>5
<1>. QED
  BY Invariant, <1>1, PTL

\* The log a generation leaves behind is typed, counts every position it handed
\* out once, and has no gap after its newest snapshot (append, fold).
THEOREM LogIsSound == Spec => []LogSound
  BY TypeCorrect, PositionsNeverReused, NoGap, PTL DEF LogSound

\* Activation is exactly-once: one receipt per generation and per operation.
THEOREM ActivatedOnce == Spec => []ReceiptsChain
<1>1. IInv => ReceiptsChain
  BY DEF IInv
<1>. QED
  BY Invariant, <1>1, PTL

\* A hub never serves a generation the store has left.
THEOREM HubNeverStale == Spec => []HubIsCurrent
<1>1. IInv => HubIsCurrent
  BY DEF IInv
<1>. QED
  BY Invariant, <1>1, PTL

\* There is one line of generations, and the hub in memory serves its last one
\* (activate, createHub).
THEOREM OneLineOfGenerations == Spec => []OneGeneration
  BY ActivatedOnce, HubNeverStale, PTL DEF OneGeneration

\* Optimistic replacement is safe: what an activation replaces is covered by
\* what its caller had captured.
THEOREM ReplacementFresh == Spec => ActivationFresh
<1>. DEFINE Fresh ==
       generation # 0 /\ generation' # generation =>
         \E request \in prepared :
            /\ \E r \in receipts' \ receipts : r.operation = request.operation
            /\ Accepted \subseteq request.seen
<1>1. IInv /\ [Next]_vars => [Fresh]_vars
  <2>. SUFFICES ASSUME IInv, Next, generation # 0, generation' # generation
                PROVE  \E request \in prepared :
                         /\ \E r \in receipts' \ receipts : r.operation = request.operation
                         /\ Accepted \subseteq request.seen
    BY DEF vars
  <2>1. PICK request \in prepared : Activate(request)
    BY DEF Next, EnsureCurrent, Append_, ReplaceSnapshot, CreateHub, PrepareActivation,
           DropActivation, Reopen, durable
  <2>2. PICK p \in 1..Len(history) : TailAfter(p)
    BY DEF IInv, LogIsTail
  <2>3. request.expectedHead = Len(history) /\ request.expectedGeneration = generation
    BY <2>1, <2>2, HeadIsLength DEF IInv, Activate, AsExpected
  <2>4. Accepted \subseteq request.seen
    BY <2>3 DEF IInv, RequestsHonest, CoversThrough, Accepted
  <2>. DEFINE receipt == [operation |-> request.operation,
                          expectedGeneration |-> request.expectedGeneration,
                          expectedHead |-> request.expectedHead,
                          bytes |-> request.bytes,
                          generation |-> request.expectedGeneration + 1]
  <2>5. receipt \in receipts' /\ receipt.operation = request.operation
    BY <2>1 DEF Activate
  <2>6. receipt \notin receipts
    BY <2>1, <2>5 DEF Activate, Previous
  <2>. QED
    BY <2>4, <2>5, <2>6
<1>. QED
  BY Invariant, <1>1, PTL DEF Spec, ActivationFresh
=============================================================================
