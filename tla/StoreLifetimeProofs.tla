------------------------ MODULE StoreLifetimeProofs -------------------------
(***************************************************************************)
(* Proofs about StoreLifetime, for every number of openers, edits,         *)
(* generations and failures.                                               *)
(*                                                                         *)
(* The invariant has two halves.  What the flags of one opener say of each *)
(* other (`Local`) is kept by every close and retirement whoever else runs. *)
(* What an opener may believe of the shared database (`Shared`) is kept    *)
(* because only the claim's holder has anything open on it.                *)
(***************************************************************************)
EXTENDS StoreLifetime, SequenceTheorems, TLAPS

Ended == {"dispose", "done", "failed"}
Committing(r) == r.running = "committing"
InFlight(r) == IF Committing(r) THEN r.txns[1].edits ELSE {}

\* A commit comes before the discard that a retirement asked for, and there is
\* at most one of each.
TxnsInOrder(r) ==
    /\ Committing(r) => r.txns # <<>> /\ r.txns[1].kind = "commit"
    /\ Len(r.txns) = (IF Committing(r) THEN 1 ELSE 0) + (IF r.invalidation = "running" THEN 1 ELSE 0)
    /\ r.invalidation = "running" => r.txns[Len(r.txns)].kind = "discard"
    /\ r.invalidation = "done" => ~Committing(r)

\* What exists only in a store that acquired its document and became ready.
ReadyNeeded(k, r) ==
    /\ r.acq = "none" <=> r.outcome \in {"none", "gone"}
    /\ r.acq = "none" => r = [Absent(r.host) EXCEPT !.outcome = r.outcome]
    /\ r.acq \in {"installing", "held", "disposed"} => r.gen # 0
    /\ r.acq = "disposed" => r.docClosing \in {"done", "failed"}
    /\ r.acq \in Acquiring => r.ready = "pending"
    /\ r.ready = "ok" => r.acq \in {"held", "disposed"}
    /\ r.outcome = "open" => r.ready = "ok"
    /\ r.ready # "ok" => /\ ~r.retired /\ r.connection = "none" /\ r.queue = {}
                         /\ r.running = "idle" /\ r.accepted = {}
    /\ r.running # "idle" => r.acq = "held"
    /\ r.connection = "live" => r.acq = "held" /\ k = "personal" /\ ~r.disposed /\ ~r.retired

\* Retirement: discarded, fenced, and an invalidation that was asked for.
RetiredSound(k, r) ==
    /\ r.retired => k = "personal"
    /\ r.discarded <=> r.retired
    /\ r.retired <=> r.invalidation # "none"
    /\ r.fenced <=> r.retired \/ r.docClosing \in {"done", "failed"}
    /\ r.retired => r.queue = {}

\* How far a close has come says what it waited for.
ClosingSound(r) ==
    /\ r.disposed <=> r.docClosing # "none"
    /\ r.syncStopped = r.disposed
    /\ r.docClosing \in {"invalidation", "discarded", "rejected"} => r.retired
    /\ r.docClosing \notin {"none", "acquisition"} => r.acq \notin Acquiring
    /\ r.docClosing \in {"discarded", "persistence"} \cup Ended /\ r.retired => r.invalidation = "done"
    /\ r.docClosing \in {"persistence"} \cup Ended /\ r.retired => r.running = "idle"
    /\ r.docClosing = "rejected" => r.invalidation = "failed"
    /\ r.docClosing \in Ended => r.running = "idle"
    /\ r.docClosing = "done" => r.acq # "held"
    /\ r.persistenceClosed # "none" <=> r.ready = "ok" /\ r.disposed /\ ~r.retired
    /\ r.persistenceClosed = "done" => r.running = "idle"
    /\ r.docClosing \in Ended => r.persistenceClosed \in {"none", "done"}
    /\ r.host = "store" => (r.closing = "none" <=> r.docClosing = "none")
    /\ r.host = "parts" => r.closing = "none" /\ r.sqlite = "none" /\ r.blobs = "none"
    /\ r.closing \in {"sqlite", "done", "failed"} => Settled(r.blobs)

\* A refused commit is the only reason for queued work that nothing drains.
DrainsWhatIsQueued(r) ==
    ~r.refused /\ ~r.retired /\ r.running = "idle" => r.queue = {}

Local(k, r) ==
    /\ TxnsInOrder(r) /\ ReadyNeeded(k, r) /\ RetiredSound(k, r)
    /\ ClosingSound(r) /\ DrainsWhatIsQueued(r)

\* What the database is to the opener that has it open or is about to.
CacheIs(r, h) ==
    /\ r.acq = "held" => h = IF r.invalidation = "done" THEN 0 ELSE r.gen
    /\ r.acq \in {"downloading", "installing"} => h = 0

\* A retired opener's generation is the past for the authority and the database.
GenerationPast(r, h, g) ==
    /\ r.retired => r.gen < g
    /\ r.retired /\ r.docClosing = "done" => h = 0 \/ h > r.gen

\* An accepted edit is durable, being committed, or queued.
AcceptedKept(r, durably) ==
    ~r.refused /\ ~r.retired => r.accepted \subseteq durably \cup r.queue \cup InFlight(r)

Shared(r, h, g, durably) ==
    CacheIs(r, h) /\ GenerationPast(r, h, g) /\ AcceptedKept(r, durably)

\* What is being installed was downloaded after every retirement.
InstallsNewer ==
    \A o, p \in Openers : s[o].retired /\ s[p].acq = "installing" => s[o].gen < s[p].gen

RowsOfHeader == \A row \in rows : row[1] = header

IInv ==
    /\ Exclusive
    /\ \A o \in Openers : Local(kind, s[o]) /\ Shared(s[o], header, serverGen, saved)
    /\ InstallsNewer
    /\ RowsOfHeader

-----------------------------------------------------------------------------
(* Lemmas about the operations on one opener's state *)

LEMMA TxnsType ==
    ASSUME NEW txns \in Seq(Txn)
    PROVE  /\ Append(txns, [kind |-> "discard"]) \in Seq(Txn)
           /\ \A E \in SUBSET Edits : Append(txns, [kind |-> "commit", edits |-> E]) \in Seq(Txn)
           /\ txns # <<>> => Tail(txns) \in Seq(Txn)
<1>1. [kind |-> "discard"] \in Txn
  BY DEF Txn
<1>2. \A E \in SUBSET Edits : [kind |-> "commit", edits |-> E] \in Txn
  BY DEF Txn
<1>. HIDE DEF Txn
<1>. QED
  BY <1>1, <1>2



\* The words the operations write, in the sets they are written to.
LEMMA Words ==
    /\ {"opening", "open", "failed", "gone"} \subseteq Outcome
    /\ {"opening", "downloading", "installing", "held", "err", "threw", "disposed"} \subseteq Acquisition
    /\ {"pending", "ok", "err"} \subseteq Readiness
    /\ {"none", "live", "stopped"} \subseteq Connection
    /\ {"idle", "scheduled", "committing"} \subseteq DrainState
    /\ {"none", "running", "done", "failed"} \subseteq Invalidation
    /\ {"none", "queued", "draining", "done"} \subseteq FlushState
    /\ DocumentStage = {"none", "acquisition", "invalidation", "discarded", "persistence",
                        "rejected"} \cup Ended
    /\ {"none", "acquiring", "held", "err", "threw", "closing", "closed", "stuck"} \subseteq Resource
    /\ {"none", "document", "blobs", "sqlite", "done", "failed"} \subseteq CloseStage
BY DEF Outcome, Acquisition, Acquiring, Readiness, Connection, DrainState, Invalidation,
       FlushState, DocumentStage, Resource, CloseStage, Ended

LEMMA InvalidateType == ASSUME NEW r \in Opener PROVE invalidate(r) \in Opener
<1>. DEFINE T == IF r.invalidation = "running" THEN r.txns ELSE Append(r.txns, [kind |-> "discard"])
<1>1. T \in Seq(Txn)
  BY TxnsType DEF Opener
<1>2. invalidate(r) = [r EXCEPT !.fenced = TRUE, !.invalidation = "running", !.txns = T]
  BY DEF invalidate
<1>3. "running" \in Invalidation
  BY Words
<1>. HIDE DEF T
<1>. QED
  BY <1>1, <1>2, <1>3 DEF Opener

\* invalidate() asks for one discard, which comes after the commit under way.
LEMMA InvalidateTxns ==
    ASSUME NEW r \in Opener, TxnsInOrder(r), NEW q, q = invalidate(r)
    PROVE  /\ TxnsInOrder(q) /\ q.txns # <<>>
           /\ q.running = r.running /\ InFlight(q) = InFlight(r)
<1>. DEFINE d == [kind |-> "discard"]
            T == IF r.invalidation = "running" THEN r.txns ELSE Append(r.txns, d)
            n == IF r.running = "committing" THEN 1 ELSE 0
<1>1. q.txns = T /\ q.invalidation = "running" /\ q.running = r.running
  BY DEF invalidate, Opener
<1>2. r.txns \in Seq(Txn) /\ d.kind = "discard"
  BY DEF Opener
<1>. HIDE DEF d
<1>3. /\ T # <<>> /\ Len(T) = n + 1 /\ T[Len(T)].kind = "discard"
      /\ r.running = "committing" => T[1] = r.txns[1] /\ r.txns[1].kind = "commit"
  <2>1. CASE r.invalidation = "running"
    BY <1>2, <2>1 DEF TxnsInOrder, Committing
  <2>2. CASE r.invalidation # "running"
    <3>1. T = Append(r.txns, d) /\ T # <<>> /\ Len(T) = Len(r.txns) + 1 /\ T[Len(T)] = d
      BY <1>2, <2>2
    <3>2. Len(r.txns) = n
      BY <2>2, <1>2 DEF TxnsInOrder, Committing
    <3>3. Len(r.txns) = 1 => T[1] = r.txns[1]
      BY <1>2, <3>1
    <3>4. r.running = "committing" => r.txns[1].kind = "commit"
      BY DEF TxnsInOrder, Committing
    <3>. HIDE DEF T
    <3>. QED
      BY <1>2, <3>1, <3>2, <3>3, <3>4
  <2>. QED
    BY <2>1, <2>2
<1>. HIDE DEF T
<1>. QED
  BY <1>1, <1>3 DEF TxnsInOrder, Committing, InFlight

\* What a close leaves alone, and what it leaves behind.
Closes(r, q) ==
    /\ q.acq = r.acq /\ q.gen = r.gen /\ q.host = r.host /\ q.outcome = r.outcome
    /\ q.ready = r.ready /\ q.retired = r.retired /\ q.discarded = r.discarded
    /\ q.queue = r.queue /\ q.running = r.running /\ q.requested = r.requested
    /\ q.accepted = r.accepted /\ q.refused = r.refused /\ InFlight(q) = InFlight(r)
    /\ q.disposed = TRUE /\ q.connection # "live"
    /\ q.docClosing = "done" <=> r.docClosing = "done"
    /\ q.invalidation = "done" <=> r.invalidation = "done"
    /\ r.docClosing = "none" => /\ q.docClosing = "acquisition" /\ q.invalidation = r.invalidation
                               /\ q.persistenceClosed \in {"none", "queued"}
    /\ Busy(q) => Busy(r)

\* close() called where there is nothing left to do.
LEMMA CloseAgain ==
    ASSUME NEW k, NEW r \in Opener, Local(k, r), r.docClosing # "none"
    PROVE  Closes(r, r)
BY DEF Opener, Local, ReadyNeeded, ClosingSound, Closes

\* The first close of the document.
LEMMA CloseFirst ==
    ASSUME NEW k, NEW r \in Opener, Local(k, r), r.acq # "none", r.docClosing = "none",
           NEW q, NEW sq \in Resource, NEW bl \in Resource, NEW c \in CloseStage,
           q = [r EXCEPT !.disposed = TRUE,
                    !.persistenceClosed = IF r.ready = "ok" /\ ~r.retired THEN "queued" ELSE "none",
                    !.syncStopped = TRUE,
                    !.connection = IF @ = "live" THEN "stopped" ELSE @,
                    !.docClosing = "acquisition",
                    !.closing = c, !.sqlite = sq, !.blobs = bl],
           r.host = "store" => c = "document",
           r.host = "parts" => c = "none" /\ sq = "none" /\ bl = "none",
           sq \in {r.sqlite, "closing"} /\ (sq = "closing" => r.sqlite \in {"held", "closing"}),
           bl \in {r.blobs, "closing"} /\ (bl = "closing" => r.blobs \in {"held", "closing"}),
           c \in {"none", "document"}
    PROVE  q \in Opener /\ Local(k, q) /\ Closes(r, q)
<1>1. "acquisition" \in DocumentStage /\ {"queued", "none"} \subseteq FlushState /\ "stopped" \in Connection
  BY Words
<1>2. q \in Opener
  BY <1>1 DEF Opener
<1>3. TxnsInOrder(q)
  BY DEF Opener, Local, TxnsInOrder, Committing
<1>4. ReadyNeeded(k, q)
  BY DEF Opener, Local, ReadyNeeded
<1>5. RetiredSound(k, q)
  BY DEF Opener, Local, RetiredSound
<1>6. ClosingSound(q)
  BY DEF Opener, Local, ClosingSound, Ended
<1>7. DrainsWhatIsQueued(q)
  BY DEF Opener, Local, DrainsWhatIsQueued
<1>8. Busy(q) => Busy(r)
  BY DEF Opener, Busy
<1>9. Closes(r, q)
  BY <1>8 DEF Opener, Closes, InFlight, Committing
<1>. QED
  BY <1>2, <1>3, <1>4, <1>5, <1>6, <1>7, <1>9 DEF Local

\* A close that was rejected because the discard failed asks for another.
LEMMA CloseRejected ==
    ASSUME NEW k, NEW r \in Opener, Local(k, r), r.docClosing = "rejected", r.host = "parts",
           NEW q, q = DocumentClose(r)
    PROVE  q \in Opener /\ Local(k, q) /\ Closes(r, q)
<1>. DEFINE a == invalidate(r)
<1>1. /\ a \in Opener /\ TxnsInOrder(a) /\ a.txns # <<>>
      /\ InFlight(a) = InFlight(r)
  BY InvalidateType, InvalidateTxns DEF Local
<1>2. /\ r.retired /\ r.ready = "ok" /\ r.acq = "held" /\ r.invalidation = "failed" /\ r.disposed
      /\ r.persistenceClosed = "none" /\ r.connection # "live" /\ r.closing = "none"
  BY DEF Opener, Local, ReadyNeeded, RetiredSound, ClosingSound
<1>3. a = [r EXCEPT !.fenced = TRUE, !.invalidation = "running", !.txns = a.txns]
  BY DEF invalidate, Opener
<1>4. q = [a EXCEPT !.disposed = TRUE, !.persistenceClosed = "none", !.syncStopped = TRUE,
                    !.connection = IF @ = "live" THEN "stopped" ELSE @,
                    !.docClosing = "acquisition"]
  BY <1>2 DEF DocumentClose
<1>. HIDE DEF a
<1>5. "acquisition" \in DocumentStage /\ "none" \in FlushState /\ "stopped" \in Connection
  BY Words
<1>6. q \in Opener
  BY <1>1, <1>4, <1>5 DEF Opener
<1>7. q = [r EXCEPT !.fenced = TRUE, !.invalidation = "running", !.txns = a.txns,
                    !.disposed = TRUE, !.persistenceClosed = "none", !.syncStopped = TRUE,
                    !.connection = r.connection, !.docClosing = "acquisition"]
  <2>1. a.connection = r.connection
    BY <1>3 DEF Opener
  <2>2. q = [a EXCEPT !.disposed = TRUE, !.persistenceClosed = "none", !.syncStopped = TRUE,
                      !.connection = r.connection, !.docClosing = "acquisition"]
    BY <1>2, <1>4, <2>1
  <2>3. q = [[r EXCEPT !.fenced = TRUE, !.invalidation = "running", !.txns = a.txns]
                  EXCEPT !.disposed = TRUE, !.persistenceClosed = "none", !.syncStopped = TRUE,
                         !.connection = r.connection, !.docClosing = "acquisition"]
    BY <1>3, <2>2
  <2>. QED
    BY <2>3
<1>16. a.invalidation = "running" /\ a.running = r.running
  BY <1>3 DEF Opener
<1>8. TxnsInOrder(q)
  BY <1>1, <1>7, <1>16 DEF Opener, TxnsInOrder, Committing
<1>9. ReadyNeeded(k, q)
  BY <1>2, <1>7 DEF Opener, Local, ReadyNeeded
<1>10. RetiredSound(k, q)
  BY <1>2, <1>7 DEF Opener, Local, RetiredSound
<1>11. ClosingSound(q)
  BY <1>2, <1>7 DEF Opener, Local, ClosingSound, Ended
<1>12. DrainsWhatIsQueued(q)
  BY <1>2, <1>7 DEF Opener, Local, DrainsWhatIsQueued
<1>13. Busy(r)
  BY <1>2 DEF Busy
<1>14. InFlight(q) = InFlight(r)
  <2>1. q.txns = a.txns /\ q.running = a.running
    BY <1>7, <1>16 DEF Opener
  <2>. QED
    BY <1>1, <2>1 DEF InFlight, Committing
<1>15. Closes(r, q)
  <2>1. /\ q.acq = r.acq /\ q.gen = r.gen /\ q.host = r.host /\ q.outcome = r.outcome
        /\ q.ready = r.ready /\ q.queue = r.queue /\ q.running = r.running
        /\ q.accepted = r.accepted
    BY <1>7 DEF Opener
  <2>2. /\ q.retired = r.retired /\ q.discarded = r.discarded
        /\ q.requested = r.requested /\ q.refused = r.refused
    BY <1>7 DEF Opener
  <2>3. /\ q.disposed = TRUE /\ q.connection = r.connection /\ q.docClosing = "acquisition"
        /\ q.invalidation = "running"
    BY <1>7 DEF Opener
  <2>. QED
    BY <1>2, <1>13, <1>14, <2>1, <2>2, <2>3 DEF Closes
<1>. QED
  BY <1>6, <1>8, <1>9, <1>10, <1>11, <1>12, <1>15 DEF Local

\* close() of either host, whenever it is called.
LEMMA CloseKeeps ==
    ASSUME NEW k, NEW r \in Opener, Local(k, r), r.acq # "none", NEW q, q = Close(r)
    PROVE  q \in Opener /\ Local(k, q) /\ Closes(r, q)
<1>1. CASE r.host = "parts" /\ r.docClosing \notin {"none", "rejected"}
  BY <1>1, CloseAgain DEF Close, DocumentClose
<1>2. CASE r.host = "parts" /\ r.docClosing = "rejected"
  BY <1>2, CloseRejected DEF Close
<1>3. CASE r.host = "parts" /\ r.docClosing = "none"
  <2>1. r.closing = "none" /\ r.sqlite = "none" /\ r.blobs = "none"
    BY <1>3 DEF Local, ClosingSound
  <2>2. q = [r EXCEPT !.disposed = TRUE,
                    !.persistenceClosed = IF r.ready = "ok" /\ ~r.retired THEN "queued" ELSE "none",
                    !.syncStopped = TRUE,
                    !.connection = IF @ = "live" THEN "stopped" ELSE @,
                    !.docClosing = "acquisition",
                    !.closing = "none", !.sqlite = "none", !.blobs = "none"]
    BY <1>3, <2>1 DEF Close, DocumentClose, ClosePersistence, Opener
  <2>. QED
    BY <1>3, <2>1, <2>2, Words, CloseFirst
<1>4. CASE r.host # "parts" /\ r.closing # "none"
  BY <1>4, CloseAgain, LifetimeAssumption DEF Close, Local, ClosingSound, Opener
<1>5. CASE r.host # "parts" /\ r.closing = "none"
  <2>. DEFINE sq == CloseResource(r.sqlite)
              bl == CloseResource(r.blobs)
  <2>1. r.host = "store" /\ r.docClosing = "none"
    BY <1>5, LifetimeAssumption DEF Local, ClosingSound, Opener
  <2>2. /\ sq \in Resource /\ sq \in {r.sqlite, "closing"} /\ (sq = "closing" => r.sqlite \in {"held", "closing"})
        /\ bl \in Resource /\ bl \in {r.blobs, "closing"} /\ (bl = "closing" => r.blobs \in {"held", "closing"})
    BY Words DEF CloseResource, Opener
  <2>3. q = [r EXCEPT !.disposed = TRUE,
                    !.persistenceClosed = IF r.ready = "ok" /\ ~r.retired THEN "queued" ELSE "none",
                    !.syncStopped = TRUE,
                    !.connection = IF @ = "live" THEN "stopped" ELSE @,
                    !.docClosing = "acquisition",
                    !.closing = "document", !.sqlite = sq, !.blobs = bl]
    BY <1>5, <2>1 DEF Close, DocumentClose, ClosePersistence, Opener
  <2>. HIDE DEF sq, bl
  <2>. QED
    BY <2>1, <2>2, <2>3, Words, CloseFirst
<1>. QED
  BY <1>1, <1>2, <1>3, <1>4, <1>5

\* onRetired() of a ready store that was not closed.
LEMMA OnRetiredKeeps ==
    ASSUME NEW r \in Opener, Local("personal", r), r.acq = "held", r.ready = "ok",
           ~r.retired, ~r.syncStopped, NEW q, q = OnRetired(r)
    PROVE  /\ q \in Opener /\ Local("personal", q)
           /\ q.retired = TRUE /\ q.acq = "held" /\ q.gen = r.gen
           /\ q.invalidation = "running" /\ q.docClosing # "done" /\ q.connection # "live"
           /\ q.outcome = r.outcome /\ q.host = r.host
<1>. DEFINE k == "personal"
            a == invalidate(r)
            e == [a EXCEPT !.retired = TRUE, !.connection = "stopped", !.discarded = TRUE,
                           !.queue = {}, !.requested = FALSE]
<1>1. a \in Opener /\ TxnsInOrder(a)
  BY InvalidateType, InvalidateTxns DEF Local
<1>2. a = [r EXCEPT !.fenced = TRUE, !.invalidation = "running", !.txns = a.txns]
  BY DEF invalidate, Opener
<1>3. q = IF r.host = "store" THEN Close(e) ELSE e
  BY DEF OnRetired
<1>. HIDE DEF a
<1>4. r.docClosing = "none" /\ ~r.disposed /\ r.persistenceClosed = "none" /\ r.closing = "none"
  BY LifetimeAssumption DEF Local, ClosingSound, Opener
<1>5. e \in Opener
  BY <1>1, Words DEF Opener
<1>6. e = [r EXCEPT !.fenced = TRUE, !.invalidation = "running", !.txns = a.txns,
                    !.retired = TRUE, !.connection = "stopped", !.discarded = TRUE,
                    !.queue = {}, !.requested = FALSE]
  <2>1. e = [[r EXCEPT !.fenced = TRUE, !.invalidation = "running", !.txns = a.txns]
                EXCEPT !.retired = TRUE, !.connection = "stopped", !.discarded = TRUE,
                       !.queue = {}, !.requested = FALSE]
    BY <1>2
  <2>. QED
    BY <2>1
<1>7. a.invalidation = "running" /\ a.running = r.running
  BY <1>2 DEF Opener
<1>. HIDE DEF e
<1>8. TxnsInOrder(e)
  <2>1. e.txns = a.txns /\ e.running = a.running /\ e.invalidation = a.invalidation
    BY <1>6, <1>7 DEF Opener
  <2>. QED
    BY <1>1, <2>1 DEF TxnsInOrder, Committing
<1>9. ReadyNeeded(k, e)
  BY <1>4, <1>6 DEF Opener, Local, ReadyNeeded
<1>10. RetiredSound(k, e)
  BY <1>4, <1>6 DEF Opener, Local, RetiredSound
<1>11. ClosingSound(e)
  BY <1>4, <1>6 DEF Opener, Local, ClosingSound, Ended
<1>12. DrainsWhatIsQueued(e)
  BY <1>6 DEF Opener, DrainsWhatIsQueued
<1>13. Local(k, e)
  BY <1>8, <1>9, <1>10, <1>11, <1>12 DEF Local
<1>14. /\ e.retired = TRUE /\ e.acq = "held" /\ e.gen = r.gen /\ e.host = r.host
       /\ e.invalidation = "running" /\ e.docClosing = "none" /\ e.connection = "stopped"
       /\ e.outcome = r.outcome
  BY <1>4, <1>6 DEF Opener
<1>15. CASE r.host = "store"
  <2>1. q = Close(e) /\ e.acq # "none"
    BY <1>3, <1>14, <1>15
  <2>2. q \in Opener /\ Local(k, q) /\ Closes(e, q)
    BY <1>5, <1>13, <2>1, CloseKeeps
  <2>. QED
    BY <1>14, <2>2 DEF Closes
<1>16. CASE r.host # "store"
  BY <1>3, <1>5, <1>13, <1>14, <1>16
<1>. QED
  BY <1>15, <1>16

\* An edit accepted by a store that was not retired is drained.
LEMMA EnqueueKeeps ==
    ASSUME NEW k, NEW r \in Opener, Local(k, r), NEW x \in Edits, NEW q, q = Enqueue(r, x),
           r.acq = "held", r.ready = "ok", ~r.retired,
           r.persistenceClosed \in {"none", "queued"}, r.docClosing \in {"none", "acquisition"}
    PROVE  /\ q \in Opener /\ Local(k, q)
           /\ q.acq = r.acq /\ q.gen = r.gen /\ q.retired = r.retired
           /\ q.docClosing = r.docClosing /\ q.invalidation = r.invalidation
           /\ q.refused = r.refused /\ InFlight(q) = InFlight(r)
           /\ q.accepted = r.accepted \cup {x} /\ q.queue = r.queue \cup {x}
           /\ Busy(q) => Busy(r)
<1>1. ~r.discarded
  BY DEF Local, RetiredSound
<1>. DEFINE run == IF r.running = "idle" THEN "scheduled" ELSE r.running
            req == (r.requested \/ r.running # "idle")
<1>2. q = [r EXCEPT !.queue = @ \cup {x}, !.accepted = @ \cup {x}, !.running = run, !.requested = req]
  BY <1>1 DEF Enqueue
<1>3. run \in DrainState /\ req \in BOOLEAN /\ (run = "committing" <=> r.running = "committing") /\ run # "idle"
  BY Words DEF Opener
<1>. HIDE DEF run, req
<1>4. q \in Opener
  <2>. DEFINE qu == r.queue \cup {x}
              ac == r.accepted \cup {x}
  <2>1. qu \in SUBSET Edits /\ ac \in SUBSET Edits
    BY DEF Opener
  <2>2. q = [r EXCEPT !.queue = qu, !.accepted = ac, !.running = run, !.requested = req]
    BY <1>2
  <2>. DEFINE e == [r EXCEPT !.queue = qu, !.accepted = ac]
  <2>. HIDE DEF qu, ac
  <2>3. e \in Opener
    BY <2>1 DEF Opener
  <2>4. q = [e EXCEPT !.running = run, !.requested = req]
    BY <2>2
  <2>. HIDE DEF e
  <2>5. run \in DrainState /\ req \in BOOLEAN
    BY <1>3
  <2>. QED
    BY <2>3, <2>4, <2>5, Zenon DEF Opener
<1>5. TxnsInOrder(q)
  BY <1>2, <1>3 DEF Opener, Local, TxnsInOrder, Committing
<1>6. ReadyNeeded(k, q)
  BY <1>2, <1>3 DEF Opener, Local, ReadyNeeded
<1>7. RetiredSound(k, q)
  BY <1>2 DEF Opener, Local, RetiredSound
<1>8. ClosingSound(q)
  BY <1>2, <1>3 DEF Opener, Local, ClosingSound, Ended
<1>9. DrainsWhatIsQueued(q)
  BY <1>2, <1>3 DEF Opener, DrainsWhatIsQueued
<1>10. InFlight(q) = InFlight(r)
  BY <1>2, <1>3 DEF Opener, InFlight, Committing
<1>11. Busy(q) => Busy(r)
  BY <1>2 DEF Opener, Busy
<1>12. /\ q.acq = r.acq /\ q.gen = r.gen /\ q.retired = r.retired
       /\ q.docClosing = r.docClosing /\ q.invalidation = r.invalidation
       /\ q.refused = r.refused
       /\ q.accepted = r.accepted \cup {x} /\ q.queue = r.queue \cup {x}
  BY <1>2 DEF Opener
<1>. QED
  BY <1>4, <1>5, <1>6, <1>7, <1>8, <1>9, <1>10, <1>11, <1>12 DEF Local

-----------------------------------------------------------------------------
(* Steps *)

\* Only the holder of the claim has anything open on the database.
LEMMA OthersIdle ==
    ASSUME IInv, NEW o \in Openers, NEW p \in Openers, Busy(s[o]), Busy(s[p])
    PROVE  o = p
BY DEF IInv, Exclusive

\* A step of one opener keeps the invariant if it keeps that opener's half of
\* it, and changes the database only under the claim.
LEMMA StepKeeps ==
    ASSUME IInv, NEW o \in Openers, NEW q \in Opener, s' = [s EXCEPT ![o] = q],
           Local(kind, q), Shared(q, header', serverGen, saved'),
           Busy(q) => claim' = {o},
           claim' = claim \/ claim' = claim \ {o} \/ (claim = {} /\ claim' = {o}),
           header' \in 0..MaxGeneration, rows' \subseteq Generations \X Edits, RowsOfHeader',
           nextEdit' \in 1..(MaxEdits + 1), faults' \in 0..MaxFaults,
           saved' \subseteq Edits, saved \subseteq saved',
           kind' = kind, serverGen' = serverGen,
           header' = header \/ Busy(s[o]),
           header' \in {header, 0} \/ \A p \in Openers : s[p].retired => header' > s[p].gen,
           q.acq = "installing" => \A p \in Openers : s[p].retired => s[p].gen < q.gen,
           q.retired => q.acq # "installing" /\ ((s[o].retired /\ q.gen = s[o].gen) \/ Busy(s[o]))
    PROVE  IInv'
<1>1. /\ s'[o] = q /\ \A p \in Openers : p # o => s'[p] = s[p]
      /\ s' \in [Openers -> Opener]
  BY DEF IInv, Exclusive, TypeOK
<1>2. TypeOK'
  <2>1. claim' \subseteq Openers
    BY DEF IInv, Exclusive, TypeOK
  <2>. QED
    BY <1>1, <2>1 DEF IInv, Exclusive, TypeOK
<1>3. \A p \in Openers : Busy(s'[p]) => claim' = {p}
  <2>. SUFFICES ASSUME NEW p \in Openers, Busy(s'[p]) PROVE claim' = {p}
    OBVIOUS
  <2>1. CASE p = o
    BY <1>1, <2>1
  <2>2. CASE p # o
    <3>1. claim = {p}
      BY <1>1, <2>2 DEF IInv, Exclusive
    <3>. QED
      BY <2>2, <3>1
  <2>. QED
    BY <2>1, <2>2
<1>4. Exclusive'
  BY <1>2, <1>3 DEF Exclusive
<1>5. \A p \in Openers : Local(kind', s'[p])
  BY <1>1 DEF IInv
<1>6. \A p \in Openers : Shared(s'[p], header', serverGen', saved')
  <2>. SUFFICES ASSUME NEW p \in Openers, p # o
                PROVE  Shared(s[p], header', serverGen, saved')
    BY <1>1
  <2>. DEFINE r == s[p]
  <2>1. r \in Opener /\ Shared(r, header, serverGen, saved) /\ header \in 0..MaxGeneration
    BY DEF IInv, Exclusive, TypeOK
  <2>2. CacheIs(r, header')
    <3>1. CASE header' = header
      BY <2>1, <3>1 DEF Shared
    <3>2. CASE header' # header
      <4>1. ~Busy(r)
        BY <3>2, OthersIdle
      <4>. QED
        BY <4>1 DEF CacheIs, Busy, Acquiring
    <3>. QED
      BY <3>1, <3>2
  <2>3. GenerationPast(r, header', serverGen)
    BY <2>1 DEF Shared, GenerationPast
  <2>4. AcceptedKept(r, saved')
    BY <2>1 DEF Shared, AcceptedKept
  <2>. QED
    BY <2>2, <2>3, <2>4 DEF Shared
<1>7. InstallsNewer'
  <2>. SUFFICES ASSUME NEW a \in Openers, NEW b \in Openers, s'[a].retired, s'[b].acq = "installing"
                PROVE  s'[a].gen < s'[b].gen
    BY DEF InstallsNewer
  <2>1. CASE b = o
    <3>1. a # o
      BY <1>1, <2>1
    <3>. QED
      BY <1>1, <2>1, <3>1
  <2>2. CASE b # o
    <3>1. Busy(s[b]) /\ s'[b] = s[b]
      BY <1>1, <2>2 DEF Busy, Acquiring
    <3>2. ~Busy(s[o])
      BY <2>2, <3>1, OthersIdle
    <3>3. s[a].retired /\ s'[a].gen = s[a].gen
      BY <1>1, <3>2
    <3>. QED
      BY <3>1, <3>3 DEF IInv, InstallsNewer
  <2>. QED
    BY <2>1, <2>2
<1>. QED
  BY <1>4, <1>5, <1>6, <1>7 DEF IInv

\* A step that concerns only its opener's memory.
LEMMA QuietKeeps ==
    ASSUME IInv, NEW o \in Openers, NEW q \in Opener, s' = [s EXCEPT ![o] = q],
           Local(kind, q), Shared(q, header, serverGen, saved),
           Busy(q) => Busy(s[o]),
           claim' = claim \/ (claim' = claim \ {o} /\ ~Busy(q)),
           kind' = kind, header' = header, rows' = rows, saved' = saved, serverGen' = serverGen,
           nextEdit' \in 1..(MaxEdits + 1), faults' \in 0..MaxFaults,
           q.acq = "installing" => \A p \in Openers : s[p].retired => s[p].gen < q.gen,
           q.retired => q.acq # "installing" /\ ((s[o].retired /\ q.gen = s[o].gen) \/ Busy(s[o]))
    PROVE  IInv'
<1>1. Busy(q) => claim' = {o}
  BY DEF IInv, Exclusive
<1>2. /\ header \in 0..MaxGeneration /\ rows \subseteq Generations \X Edits /\ saved \subseteq Edits
      /\ RowsOfHeader'
  BY DEF IInv, Exclusive, TypeOK, RowsOfHeader
<1>. QED
  BY <1>1, <1>2, StepKeeps

\* What an untouched part of the opener's state still says of the database.
LEMMA SharedKept ==
    ASSUME NEW r, NEW q, NEW h, NEW g, NEW d, Shared(r, h, g, d),
           q.acq = r.acq, q.gen = r.gen, q.retired = r.retired, q.refused = r.refused,
           q.accepted = r.accepted, q.queue = r.queue, InFlight(q) = InFlight(r),
           q.invalidation = "done" <=> r.invalidation = "done",
           q.docClosing = "done" <=> r.docClosing = "done"
    PROVE  Shared(q, h, g, d)
BY DEF Shared, CacheIs, GenerationPast, AcceptedKept

LEMMA Facts ==
    ASSUME IInv, NEW o \in Openers
    PROVE  /\ s[o] \in Opener /\ Local(kind, s[o]) /\ Shared(s[o], header, serverGen, saved)
           /\ Busy(s[o]) => claim = {o}
           /\ faults \in 0..MaxFaults /\ nextEdit \in 1..(MaxEdits + 1)
           /\ Fault \/ UNCHANGED faults => faults' \in 0..MaxFaults
           /\ kind \in {"local", "personal"} /\ header \in 0..MaxGeneration
           /\ serverGen \in Generations /\ MaxGeneration \in Nat /\ MaxEdits \in Nat
<1>1. TypeOK /\ s[o] \in Opener
  BY DEF IInv, Exclusive, TypeOK
<1>2. Fault \/ UNCHANGED faults => faults' \in 0..MaxFaults
  BY <1>1, LifetimeAssumption DEF Fault, TypeOK
<1>. QED
  BY <1>1, <1>2, LifetimeAssumption DEF IInv, Exclusive, TypeOK

LEMMA OpenKeeps == ASSUME IInv, NEW o \in Openers, Open(o) PROVE IInv'
<1>. DEFINE r == s[o]
            sq == IF r.host = "store" THEN "acquiring" ELSE r.sqlite
            bl == IF r.host = "store" /\ kind = "local" THEN "acquiring" ELSE r.blobs
            q == [r EXCEPT !.outcome = "opening", !.acq = "opening", !.sqlite = sq, !.blobs = bl]
<1>1. r \in Opener /\ Local(kind, r) /\ Shared(r, header, serverGen, saved)
  BY Facts
<1>2. s' = [s EXCEPT ![o] = q] /\ claim = {} /\ claim' = {o} /\ r.outcome = "none"
  BY DEF Open, NoClaim
<1>3. r = [Absent(r.host) EXCEPT !.outcome = r.outcome]
  BY <1>1, <1>2 DEF Local, ReadyNeeded
<1>4. sq \in Resource /\ bl \in Resource /\ (r.host = "parts" => sq = r.sqlite /\ bl = r.blobs)
  BY <1>1, Words DEF Opener
<1>5. /\ r.gen = 0 /\ r.ready = "pending" /\ ~r.disposed /\ ~r.retired /\ r.connection = "none"
      /\ ~r.syncStopped /\ r.queue = {} /\ r.running = "idle" /\ ~r.discarded /\ r.txns = <<>>
      /\ ~r.fenced /\ r.invalidation = "none" /\ r.persistenceClosed = "none"
      /\ r.docClosing = "none" /\ r.closing = "none" /\ r.accepted = {} /\ ~r.refused
      /\ r.sqlite = "none" /\ r.blobs = "none"
  BY <1>3 DEF Absent
<1>. HIDE DEF r, sq, bl
<1>6. q \in Opener
  BY <1>1, <1>4, Words DEF Opener
<1>7. TxnsInOrder(q) /\ RetiredSound(kind, q) /\ DrainsWhatIsQueued(q)
  BY <1>1, <1>5 DEF Opener, TxnsInOrder, Committing, RetiredSound, DrainsWhatIsQueued
<1>8. ReadyNeeded(kind, q) /\ ClosingSound(q)
  BY <1>1, <1>4, <1>5 DEF Opener, ReadyNeeded, ClosingSound, Ended, Acquiring
<1>9. Shared(q, header, serverGen, saved)
  BY <1>1, <1>5 DEF Opener, Shared, CacheIs, GenerationPast, AcceptedKept
<1>10. Local(kind, q) /\ q.acq = "opening" /\ ~q.retired
  BY <1>1, <1>5, <1>7, <1>8 DEF Local, Opener
<1>11. /\ header' = header /\ rows' = rows /\ saved' = saved /\ kind' = kind /\ serverGen' = serverGen
       /\ nextEdit' \in 1..(MaxEdits + 1) /\ faults' \in 0..MaxFaults
       /\ header \in 0..MaxGeneration /\ rows \subseteq Generations \X Edits /\ saved \subseteq Edits
       /\ RowsOfHeader'
  BY DEF Open, durable, IInv, Exclusive, TypeOK, RowsOfHeader
<1>. HIDE DEF q
<1>. QED
  BY <1>2, <1>6, <1>9, <1>10, <1>11, StepKeeps

\* A failed acquisition leaves the opener with nothing.
LEMMA AcquisitionFailsKeeps ==
    ASSUME NEW k, NEW r \in Opener, Local(k, r), r.acq \in Acquiring,
           NEW failure \in {"err", "threw"}, NEW q, q = [r EXCEPT !.acq = failure, !.gen = 0],
           NEW h, NEW g, NEW d
    PROVE  q \in Opener /\ Local(k, q) /\ Shared(q, h, g, d) /\ q.acq = failure /\ ~q.retired /\ Busy(r)
<1>1. /\ r.ready = "pending" /\ ~r.retired /\ r.running = "idle" /\ r.connection = "none"
      /\ r.accepted = {} /\ r.acq # "none" /\ r.outcome \notin {"none", "gone"}
      /\ r.docClosing \in {"none", "acquisition"}
  BY DEF Opener, Local, ReadyNeeded, ClosingSound, Acquiring
<1>2. q \in Opener
  <2>1. 0 \in 0..MaxGeneration /\ failure \in Acquisition
    BY Words, LifetimeAssumption
  <2>. QED
    BY <2>1 DEF Opener
<1>3. TxnsInOrder(q) /\ RetiredSound(k, q) /\ DrainsWhatIsQueued(q)
  BY <1>1 DEF Opener, Local, TxnsInOrder, Committing, RetiredSound, DrainsWhatIsQueued
<1>4. ReadyNeeded(k, q)
  BY <1>1 DEF Opener, Local, ReadyNeeded, Acquiring
<1>5. ClosingSound(q)
  BY <1>1 DEF Opener, Local, ClosingSound, Ended, Acquiring
<1>6. Shared(q, h, g, d)
  BY <1>1 DEF Opener, Shared, CacheIs, GenerationPast, AcceptedKept
<1>7. Busy(r)
  BY DEF Busy
<1>. QED
  BY <1>1, <1>2, <1>3, <1>4, <1>5, <1>6, <1>7 DEF Local, Opener

Acquired(r, stage, n) == [r EXCEPT !.acq = stage, !.gen = n]

\* An acquisition that moves on, holding nothing before it holds its generation.
LEMMA AcquisitionKeeps ==
    ASSUME NEW k, NEW r \in Opener, Local(k, r), r.acq \in Acquiring,
           NEW stage \in {"downloading", "installing", "held"}, NEW n \in 0..MaxGeneration,
           stage # "downloading" => n # 0,
           NEW q, q = Acquired(r, stage, n)
    PROVE  /\ q \in Opener /\ Local(k, q) /\ Busy(r)
           /\ q.acq = stage /\ q.gen = n /\ ~q.retired /\ q.invalidation = "none" /\ q.accepted = {}
<1>. USE DEF Acquired
<1>1. /\ r.ready = "pending" /\ ~r.retired /\ r.running = "idle" /\ r.connection = "none"
      /\ r.accepted = {} /\ r.acq # "none" /\ r.outcome \notin {"none", "gone"}
      /\ r.docClosing \in {"none", "acquisition"} /\ r.invalidation = "none"
  BY DEF Opener, Local, ReadyNeeded, ClosingSound, RetiredSound, Acquiring
<1>2. q \in Opener
  BY Words DEF Opener
<1>3. TxnsInOrder(q) /\ RetiredSound(k, q) /\ DrainsWhatIsQueued(q)
  BY <1>1 DEF Opener, Local, TxnsInOrder, Committing, RetiredSound, DrainsWhatIsQueued
<1>4. ReadyNeeded(k, q)
  BY <1>1 DEF Opener, Local, ReadyNeeded, Acquiring
<1>5. ClosingSound(q)
  BY <1>1 DEF Opener, Local, ClosingSound, Ended, Acquiring
<1>6. Busy(r)
  BY DEF Busy
<1>7. q.acq = stage /\ q.gen = n /\ ~q.retired /\ q.invalidation = "none" /\ q.accepted = {}
  BY <1>1 DEF Opener
<1>. QED
  BY <1>2, <1>3, <1>4, <1>5, <1>6, <1>7 DEF Local

LEMMA FailedAcquisitionKeeps ==
    ASSUME IInv, NEW o \in Openers, s[o].acq \in Acquiring, Fault, AcquisitionFails(o),
           UNCHANGED <<kind, claim, serverGen, nextEdit, saved, rows>>,
           header' = header \/ (header = 0 /\ s[o].acq = "installing" /\ header' = s[o].gen)
    PROVE  IInv'
<1>. DEFINE r == s[o]
<1>1. PICK failure \in {"err", "threw"} : s' = [s EXCEPT ![o] = [r EXCEPT !.acq = failure, !.gen = 0]]
  BY DEF AcquisitionFails, IInv, Exclusive, TypeOK
<1>. DEFINE q == [r EXCEPT !.acq = failure, !.gen = 0]
<1>2. /\ r \in Opener /\ Local(kind, r) /\ r.acq \in Acquiring /\ (Busy(r) => claim = {o})
      /\ faults' \in 0..MaxFaults /\ nextEdit' \in 1..(MaxEdits + 1) /\ header \in 0..MaxGeneration
      /\ r.gen \in 0..MaxGeneration /\ MaxGeneration \in Nat
  BY Facts DEF Opener
<1>3. s' = [s EXCEPT ![o] = q]
  BY <1>1
<1>9. q = [r EXCEPT !.acq = failure, !.gen = 0]
  OBVIOUS
<1>. HIDE DEF r, q
<1>10. r \in Opener /\ Local(kind, r) /\ r.acq \in Acquiring
  BY <1>2
<1>4. /\ q \in Opener /\ Local(kind, q) /\ Shared(q, header', serverGen, saved')
      /\ q.acq = failure /\ ~q.retired /\ Busy(r)
  BY <1>9, <1>10, AcquisitionFailsKeeps, ZenonT(30)
<1>5. rows' \subseteq Generations \X Edits /\ saved' \subseteq Edits /\ RowsOfHeader'
  <2>1. rows' \subseteq Generations \X Edits /\ saved' \subseteq Edits
    BY DEF IInv, Exclusive, TypeOK
  <2>2. header = 0 => rows = {}
    BY LifetimeAssumption DEF IInv, Exclusive, TypeOK, RowsOfHeader, Generations
  <2>. QED
    BY <2>1, <2>2 DEF IInv, RowsOfHeader
<1>6. header' \in 0..MaxGeneration
  BY <1>2 DEF r
<1>7. header' \in {header, 0} \/ \A p \in Openers : s[p].retired => header' > s[p].gen
  BY <1>2 DEF r, IInv, InstallsNewer, Exclusive, TypeOK, Opener
<1>8. q.acq # "installing"
  BY <1>4
<1>. QED
  BY <1>2, <1>3, <1>4, <1>5, <1>6, <1>7, <1>8, StepKeeps DEF r

LEMMA OpenCacheKeeps == ASSUME IInv, NEW o \in Openers, OpenCache(o) PROVE IInv'
<1>. DEFINE r == s[o]
<1>1. r.acq = "opening" /\ r.acq \in Acquiring
  BY DEF OpenCache, Acquiring
<1>2. CASE Fault /\ AcquisitionFails(o)
  BY <1>1, <1>2, FailedAcquisitionKeeps DEF OpenCache, durable
<1>3. CASE ~(Fault /\ AcquisitionFails(o))
  <2>. DEFINE stage == IF header # 0 THEN "held" ELSE IF kind = "local" THEN "installing"
                       ELSE "downloading"
              n == IF header # 0 THEN header ELSE IF kind = "local" THEN 1 ELSE 0
              q == [r EXCEPT !.acq = stage, !.gen = n]
  <2>1. s' = [s EXCEPT ![o] = q] /\ UNCHANGED <<faults, kind, claim, header, rows, saved, serverGen, nextEdit>>
    BY <1>3 DEF OpenCache, durable, IInv, Exclusive, TypeOK
  <2>2. /\ r \in Opener /\ Local(kind, r) /\ faults' \in 0..MaxFaults /\ nextEdit' \in 1..(MaxEdits + 1)
        /\ header \in 0..MaxGeneration
    BY <2>1, Facts
  <2>3. stage \in {"downloading", "installing", "held"} /\ n \in 0..MaxGeneration
        /\ (stage # "downloading" => n # 0)
        /\ (stage = "held" => header = n) /\ (stage # "held" => header = 0)
        /\ (stage = "installing" => kind = "local")
    BY <2>2, LifetimeAssumption
  <2>7. q = Acquired(r, stage, n)
    BY DEF Acquired
  <2>. HIDE DEF r, stage, n, q
  <2>4. /\ q \in Opener /\ Local(kind, q) /\ Busy(r)
        /\ q.acq = stage /\ q.gen = n /\ ~q.retired /\ q.invalidation = "none" /\ q.accepted = {}
    <3>1. /\ r \in Opener /\ Local(kind, r) /\ r.acq \in Acquiring
          /\ stage \in {"downloading", "installing", "held"} /\ n \in 0..MaxGeneration
          /\ stage # "downloading" => n # 0
      BY <1>1, <2>2, <2>3
    <3>. QED
      BY <2>7, <3>1, AcquisitionKeeps
  <2>5. Shared(q, header, serverGen, saved)
    BY <2>3, <2>4 DEF Shared, CacheIs, GenerationPast, AcceptedKept
  <2>6. kind = "local" => \A p \in Openers : ~s[p].retired
    BY DEF IInv, Local, RetiredSound
  <2>. QED
    BY <2>1, <2>2, <2>3, <2>4, <2>5, <2>6, QuietKeeps DEF r
<1>. QED
  BY <1>2, <1>3

LEMMA DownloadKeeps == ASSUME IInv, NEW o \in Openers, Download(o) PROVE IInv'
<1>. DEFINE r == s[o]
<1>1. r.acq = "downloading" /\ r.acq \in Acquiring
  BY DEF Download, Acquiring
<1>2. CASE Fault /\ AcquisitionFails(o)
  BY <1>1, <1>2, FailedAcquisitionKeeps DEF Download, durable
<1>3. CASE ~(Fault /\ AcquisitionFails(o))
  <2>. DEFINE q == [r EXCEPT !.acq = "installing", !.gen = serverGen]
  <2>1. s' = [s EXCEPT ![o] = q] /\ UNCHANGED <<faults, kind, claim, header, rows, saved, serverGen, nextEdit>>
    BY <1>3 DEF Download, durable, IInv, Exclusive, TypeOK
  <2>2. /\ r \in Opener /\ Local(kind, r) /\ faults' \in 0..MaxFaults /\ nextEdit' \in 1..(MaxEdits + 1)
        /\ serverGen \in 0..MaxGeneration /\ serverGen # 0 /\ Shared(r, header, serverGen, saved)
    BY <2>1, Facts DEF Generations
  <2>7. q = Acquired(r, "installing", serverGen)
    BY DEF Acquired
  <2>. HIDE DEF r, q
  <2>4. /\ q \in Opener /\ Local(kind, q) /\ Busy(r)
        /\ q.acq = "installing" /\ q.gen = serverGen /\ ~q.retired /\ q.invalidation = "none" /\ q.accepted = {}
    <3>1. /\ r \in Opener /\ Local(kind, r) /\ r.acq \in Acquiring
          /\ "installing" \in {"downloading", "installing", "held"} /\ serverGen \in 0..MaxGeneration
          /\ "installing" # "downloading" => serverGen # 0
      BY <1>1, <2>2
    <3>. QED
      BY <2>7, <3>1, AcquisitionKeeps
  <2>5. Shared(q, header, serverGen, saved)
    BY <1>1, <2>2, <2>4 DEF Shared, CacheIs, GenerationPast, AcceptedKept
  <2>6. \A p \in Openers : s[p].retired => s[p].gen < serverGen
    BY DEF IInv, Shared, GenerationPast
  <2>. QED
    BY <2>1, <2>2, <2>4, <2>5, <2>6, QuietKeeps DEF r
<1>. QED
  BY <1>2, <1>3

LEMMA InstallKeeps == ASSUME IInv, NEW o \in Openers, Install(o) PROVE IInv'
<1>. DEFINE r == s[o]
<1>1. r.acq = "installing" /\ r.acq \in Acquiring /\ header = 0
  BY DEF Install, Acquiring, IInv, Shared, CacheIs
<1>2. CASE Fault /\ AcquisitionFails(o) /\ rows' = rows /\ header' \in {header, s[o].gen}
  BY <1>1, <1>2, FailedAcquisitionKeeps DEF Install
<1>3. CASE header' = r.gen /\ rows' = {} /\ s' = [s EXCEPT ![o].acq = "held"] /\ UNCHANGED faults
  <2>. DEFINE q == [r EXCEPT !.acq = "held", !.gen = r.gen]
  <2>2. /\ r \in Opener /\ Local(kind, r) /\ faults' \in 0..MaxFaults /\ nextEdit' \in 1..(MaxEdits + 1)
        /\ r.gen \in 0..MaxGeneration /\ r.gen # 0 /\ (Busy(r) => claim = {o})
        /\ MaxGeneration \in Nat
    BY <1>1, <1>3, Facts DEF Opener, Local, ReadyNeeded, Install
  <2>1. s' = [s EXCEPT ![o] = q] /\ UNCHANGED <<kind, claim, saved, serverGen, nextEdit>>
    <3>1. q = [r EXCEPT !.acq = "held"]
      BY <2>2 DEF Opener
    <3>. QED
      BY <1>3, <3>1 DEF Install
  <2>3. header' = r.gen
    BY <1>3
  <2>8. q = Acquired(r, "held", r.gen)
    BY DEF Acquired
  <2>. HIDE DEF r, q
  <2>4. /\ q \in Opener /\ Local(kind, q) /\ Busy(r)
        /\ q.acq = "held" /\ q.gen = r.gen /\ ~q.retired /\ q.invalidation = "none" /\ q.accepted = {}
    <3>1. /\ r \in Opener /\ Local(kind, r) /\ r.acq \in Acquiring
          /\ "held" \in {"downloading", "installing", "held"} /\ r.gen \in 0..MaxGeneration
          /\ "held" # "downloading" => r.gen # 0
      BY <1>1, <2>2
    <3>. QED
      BY <2>8, <3>1, AcquisitionKeeps
  <2>5. Shared(q, header', serverGen, saved')
    BY <1>1, <2>1, <2>2, <2>3, <2>4 DEF Shared, CacheIs, GenerationPast, AcceptedKept
  <2>6. \A p \in Openers : s[p].retired => header' > s[p].gen
    BY <1>1, <2>2, <2>3 DEF r, IInv, InstallsNewer, Exclusive, TypeOK, Opener
  <2>7. rows' \subseteq Generations \X Edits /\ RowsOfHeader' /\ saved' \subseteq Edits
    BY <1>3, <2>1 DEF RowsOfHeader, IInv, Exclusive, TypeOK
  <2>. QED
    BY <2>1, <2>2, <2>3, <2>4, <2>5, <2>6, <2>7, StepKeeps DEF r
<1>. QED
  BY <1>2, <1>3 DEF Install

\* What the database knows of the opener did not change.
Same(r, q) ==
    /\ q.acq = r.acq /\ q.gen = r.gen /\ q.retired = r.retired /\ q.refused = r.refused
    /\ q.accepted = r.accepted /\ q.queue = r.queue /\ InFlight(q) = InFlight(r)
    /\ q.invalidation = "done" <=> r.invalidation = "done"
    /\ q.docClosing = "done" <=> r.docClosing = "done"
    /\ Busy(q) => Busy(r)

LEMMA SameKeeps ==
    ASSUME IInv, NEW o \in Openers, NEW q \in Opener, s' = [s EXCEPT ![o] = q],
           Local(kind, q), Same(s[o], q),
           claim' = claim \/ (claim' = claim \ {o} /\ ~Busy(q)),
           kind' = kind, header' = header, rows' = rows, saved' = saved, serverGen' = serverGen,
           nextEdit' \in 1..(MaxEdits + 1), Fault \/ faults' = faults
    PROVE  IInv'
<1>1. Shared(q, header, serverGen, saved)
  BY SharedKept, Facts DEF Same
<1>2. q.acq = "installing" => \A p \in Openers : s[p].retired => s[p].gen < q.gen
  BY DEF Same, IInv, InstallsNewer
<1>3. q.retired => q.acq # "installing" /\ s[o].retired /\ q.gen = s[o].gen
  BY DEF Same, Local, ReadyNeeded, Acquiring
<1>4. (Busy(q) => Busy(s[o])) /\ faults' \in 0..MaxFaults
  BY Facts DEF Same
<1>. QED
  BY <1>1, <1>2, <1>3, <1>4, QuietKeeps

SetSqlite(r, v) == [r EXCEPT !.sqlite = v]
SetBlobs(r, v) == [r EXCEPT !.blobs = v]
SetOutcome(r, v) == [r EXCEPT !.outcome = v]
SetClosing(r, v) == [r EXCEPT !.closing = v]

\* SQL or blobs that are being acquired or closed become anything.
LEMMA ResourceSets ==
    ASSUME NEW k, NEW r \in Opener, Local(k, r), NEW v \in Resource, v # "none", NEW q,
           \/ r.sqlite \in {"acquiring", "closing"} /\ q = SetSqlite(r, v)
           \/ r.blobs \in {"acquiring", "closing"} /\ q = SetBlobs(r, v)
    PROVE  q \in Opener /\ Local(k, q) /\ Same(r, q)
<1>. USE DEF SetSqlite, SetBlobs
<1>1. q \in Opener
  BY DEF Opener
<1>2. r.host = "store"
  BY LifetimeAssumption DEF Opener, Local, ClosingSound
<1>3. r.acq # "none" /\ Busy(r)
  <2>1. r.acq # "none"
    <3>. SUFFICES ASSUME r.acq = "none" PROVE FALSE
      OBVIOUS
    <3>1. r = [Absent(r.host) EXCEPT !.outcome = r.outcome]
      BY DEF Local, ReadyNeeded
    <3>2. r.sqlite = "none" /\ r.blobs = "none"
      BY <3>1 DEF Absent
    <3>. QED
      BY <3>2
  <2>. QED
    BY <2>1 DEF Busy
<1>4. TxnsInOrder(q) /\ RetiredSound(k, q) /\ DrainsWhatIsQueued(q)
  BY DEF Opener, Local, TxnsInOrder, Committing, RetiredSound, DrainsWhatIsQueued
<1>5. ReadyNeeded(k, q)
  BY <1>3 DEF Opener, Local, ReadyNeeded
<1>6. ClosingSound(q)
  BY <1>2 DEF Opener, Local, ClosingSound, Settled
<1>7. Same(r, q)
  BY <1>3 DEF Opener, Same, InFlight, Committing
<1>. QED
  BY <1>1, <1>4, <1>5, <1>6, <1>7 DEF Local

LEMMA ResourcesKeep ==
    ASSUME IInv, NEW o \in Openers, AcquireSqlite(o) \/ AcquireBlobs(o) \/ ResourceCloses(o)
    PROVE  IInv'
<1>1. /\ s[o] \in Opener /\ Local(kind, s[o])
      /\ claim' = claim /\ kind' = kind /\ header' = header /\ rows' = rows /\ saved' = saved
      /\ serverGen' = serverGen /\ nextEdit' \in 1..(MaxEdits + 1) /\ (Fault \/ faults' = faults)
  BY Facts DEF AcquireSqlite, AcquireBlobs, ResourceCloses, durable
<1>2. \E v \in Resource : v # "none" /\
        \/ s[o].sqlite \in {"acquiring", "closing"} /\ s' = [s EXCEPT ![o] = SetSqlite(s[o], v)]
        \/ s[o].blobs \in {"acquiring", "closing"} /\ s' = [s EXCEPT ![o] = SetBlobs(s[o], v)]
  <2>1. \A v : /\ [s EXCEPT ![o].sqlite = v] = [s EXCEPT ![o] = SetSqlite(s[o], v)]
               /\ [s EXCEPT ![o].blobs = v] = [s EXCEPT ![o] = SetBlobs(s[o], v)]
    BY DEF SetSqlite, SetBlobs
  <2>2. /\ {"held", "closing", "threw", "err", "closed", "stuck"} \subseteq Resource
        /\ Arrived(s[o]) \in {"held", "closing"}
    BY Words DEF Arrived
  <2>3. CASE AcquireSqlite(o)
    BY <2>1, <2>2, <2>3 DEF AcquireSqlite
  <2>4. CASE AcquireBlobs(o)
    BY <2>1, <2>2, <2>4 DEF AcquireBlobs
  <2>5. CASE ResourceCloses(o)
    BY <2>1, <2>2, <2>5 DEF ResourceCloses
  <2>. QED
    BY <2>3, <2>4, <2>5
<1>3. \E q \in Opener : s' = [s EXCEPT ![o] = q] /\ Local(kind, q) /\ Same(s[o], q)
  BY <1>1, <1>2, ResourceSets
<1>. QED
  BY <1>1, <1>3, SameKeeps

LEMMA ClosesSame == ASSUME NEW r, NEW q, Closes(r, q) PROVE Same(r, q)
BY DEF Closes, Same

SetReady(r, v) == [r EXCEPT !.ready = v]
SetConnection(r, v) == [r EXCEPT !.connection = v]

\* The ready continuation of a store that has its document: its state is up.
LEMMA ReadyUp ==
    ASSUME NEW k, NEW r \in Opener, Local(k, r), r.acq = "held", ~r.disposed, r.ready = "pending",
           NEW q, q = SetReady(r, "ok")
    PROVE  /\ q \in Opener /\ Local(k, q) /\ Same(r, q) /\ Busy(r)
           /\ q.acq = "held" /\ q.ready = "ok" /\ ~q.retired /\ ~q.syncStopped /\ ~q.disposed
           /\ q.connection = "none" /\ q.gen = r.gen
<1>. USE DEF SetReady
<1>1. /\ ~r.retired /\ r.connection = "none" /\ r.running = "idle" /\ r.docClosing = "none"
      /\ ~r.syncStopped /\ r.persistenceClosed = "none"
  BY DEF Opener, Local, ReadyNeeded, ClosingSound
<1>2. q \in Opener
  BY Words DEF Opener
<1>3. TxnsInOrder(q) /\ RetiredSound(k, q) /\ DrainsWhatIsQueued(q)
  BY DEF Opener, Local, TxnsInOrder, Committing, RetiredSound, DrainsWhatIsQueued
<1>4. ReadyNeeded(k, q)
  BY <1>1 DEF Opener, Local, ReadyNeeded, Acquiring
<1>5. ClosingSound(q)
  BY <1>1 DEF Opener, Local, ClosingSound
<1>6. Busy(q) => Busy(r)
  BY DEF Opener, Busy
<1>7. Same(r, q)
  BY <1>6 DEF Opener, Same, InFlight, Committing
<1>8. Busy(r)
  BY DEF Busy
<1>9. /\ q.acq = "held" /\ q.ready = "ok" /\ ~q.retired /\ ~q.syncStopped /\ ~q.disposed
      /\ q.connection = "none" /\ q.gen = r.gen
  BY <1>1 DEF Opener
<1>. QED
  BY <1>2, <1>3, <1>4, <1>5, <1>7, <1>8, <1>9 DEF Local

\* The connection that attach returned.
LEMMA ConnectionSets ==
    ASSUME NEW r \in Opener, NEW k, Local(k, r), r.acq = "held", r.ready = "ok",
           NEW v, v = "stopped" \/ (v = "live" /\ k = "personal" /\ ~r.disposed /\ ~r.retired),
           NEW q, q = SetConnection(r, v)
    PROVE  q \in Opener /\ Local(k, q) /\ Same(r, q)
<1>. USE DEF SetConnection
<1>1. q \in Opener
  BY Words DEF Opener
<1>2. TxnsInOrder(q) /\ RetiredSound(k, q) /\ DrainsWhatIsQueued(q)
  BY DEF Opener, Local, TxnsInOrder, Committing, RetiredSound, DrainsWhatIsQueued
<1>3. ReadyNeeded(k, q)
  BY DEF Opener, Local, ReadyNeeded, Acquiring
<1>4. ClosingSound(q)
  BY DEF Opener, Local, ClosingSound
<1>5. Busy(q) => Busy(r)
  BY DEF Opener, Busy
<1>6. Same(r, q)
  BY <1>5 DEF Opener, Same, InFlight, Committing
<1>. QED
  BY <1>1, <1>2, <1>3, <1>4, <1>6 DEF Local

LEMMA NeverReady ==
    ASSUME NEW k, NEW r \in Opener, Local(k, r), r.acq \in {"held", "err", "threw"},
           r.ready = "pending", NEW q, q = SetReady(r, "err")
    PROVE  q \in Opener /\ Local(k, q) /\ Same(r, q)
<1>. USE DEF SetReady
<1>1. q \in Opener
  BY Words DEF Opener
<1>2. TxnsInOrder(q) /\ RetiredSound(k, q) /\ DrainsWhatIsQueued(q)
  BY DEF Opener, Local, TxnsInOrder, Committing, RetiredSound, DrainsWhatIsQueued
<1>3. ReadyNeeded(k, q)
  BY DEF Opener, Local, ReadyNeeded, Acquiring
<1>4. ClosingSound(q)
  BY DEF Opener, Local, ClosingSound
<1>5. Busy(q) => Busy(r)
  BY DEF Opener, Busy
<1>6. Same(r, q)
  BY <1>5 DEF Opener, Same, InFlight, Committing
<1>. QED
  BY <1>1, <1>2, <1>3, <1>4, <1>6 DEF Local

\* failOpening(): the store is closed and never becomes ready.
LEMMA ReadyFails ==
    ASSUME NEW k, NEW r \in Opener, Local(k, r), r.acq \in {"held", "err", "threw"},
           r.ready = "pending", NEW q, q = SetReady(Close(r), "err")
    PROVE  q \in Opener /\ Local(k, q) /\ Same(r, q)
<1>. DEFINE c == Close(r)
<1>1. c \in Opener /\ Local(k, c) /\ Closes(r, c)
  BY CloseKeeps
<1>2. q = SetReady(c, "err")
  OBVIOUS
<1>. HIDE DEF c
<1>3. c.acq \in {"held", "err", "threw"} /\ c.ready = "pending" /\ Same(r, c)
  BY <1>1, ClosesSame DEF Closes
<1>4. q \in Opener /\ Local(k, q) /\ Same(c, q)
  BY <1>1, <1>2, <1>3, NeverReady
<1>. QED
  BY <1>3, <1>4 DEF Same

\* A retirement is of a generation that has been replaced.
LEMMA RetirementKeeps ==
    ASSUME IInv, NEW o \in Openers, NEW q \in Opener, s' = [s EXCEPT ![o] = q],
           Local(kind, q), q.retired = TRUE, q.acq = "held", q.gen = s[o].gen,
           q.invalidation # "done", q.docClosing # "done",
           s[o].acq = "held", s[o].invalidation # "done", s[o].gen < serverGen,
           claim' = claim, kind' = kind, header' = header, rows' = rows, saved' = saved,
           serverGen' = serverGen, nextEdit' = nextEdit, faults' = faults
    PROVE  IInv'
<1>1. Shared(s[o], header, serverGen, saved) /\ faults' \in 0..MaxFaults /\ nextEdit' \in 1..(MaxEdits + 1)
  BY Facts
<1>2. Shared(q, header, serverGen, saved)
  BY <1>1 DEF Shared, CacheIs, GenerationPast, AcceptedKept
<1>3. Busy(s[o])
  BY DEF Busy
<1>. QED
  BY <1>1, <1>2, <1>3, QuietKeeps

LEMMA RetireKeeps == ASSUME IInv, NEW o \in Openers, Retire(o) PROVE IInv'
<1>. DEFINE r == s[o]
            q == OnRetired(r)
<1>1. /\ r.connection = "live" /\ r.gen < serverGen /\ ~r.retired /\ ~r.syncStopped
      /\ s' = [s EXCEPT ![o] = q]
      /\ claim' = claim /\ kind' = kind /\ header' = header /\ rows' = rows /\ saved' = saved
      /\ serverGen' = serverGen /\ nextEdit' = nextEdit /\ faults' = faults
  BY DEF Retire, Retirable, durable
<1>2. r \in Opener /\ Local(kind, r)
  BY Facts
<1>3. kind = "personal" /\ r.acq = "held" /\ r.ready = "ok" /\ r.invalidation # "done"
  BY <1>1, <1>2 DEF Local, ReadyNeeded, RetiredSound
<1>4. /\ q \in Opener /\ Local("personal", q)
      /\ q.retired = TRUE /\ q.acq = "held" /\ q.gen = r.gen
      /\ q.invalidation = "running" /\ q.docClosing # "done"
  BY <1>1, <1>2, <1>3, OnRetiredKeeps
<1>. HIDE DEF q
<1>. QED
  BY <1>1, <1>3, <1>4, RetirementKeeps

LEMMA ReadyKeeps == ASSUME IInv, NEW o \in Openers, Ready(o) PROVE IInv'
<1>. DEFINE r == s[o]
<1>1. /\ r \in Opener /\ Local(kind, r) /\ r.acq \in {"held", "err", "threw"} /\ r.ready = "pending"
      /\ claim' = claim /\ kind' = kind /\ header' = header /\ rows' = rows /\ saved' = saved
      /\ serverGen' = serverGen /\ nextEdit' \in 1..(MaxEdits + 1) /\ nextEdit' = nextEdit
      /\ kind \in {"local", "personal"}
  BY Facts DEF Ready, durable
<1>2. CASE s' = [s EXCEPT ![o] = SetReady(Close(r), "err")] /\ (Fault \/ faults' = faults)
  <2>1. \E q \in Opener : s' = [s EXCEPT ![o] = q] /\ Local(kind, q) /\ Same(r, q)
    BY <1>1, <1>2, ReadyFails
  <2>. QED
    BY <1>1, <1>2, <2>1, SameKeeps
<1>3. CASE r.acq = "held" /\ ~r.disposed /\ faults' = faults
           /\ \E q \in Initialized(r) : s' = [s EXCEPT ![o] = q]
  <2>. DEFINE up == SetReady(r, "ok")
  <2>1. /\ up \in Opener /\ Local(kind, up) /\ Same(r, up) /\ Busy(r)
        /\ up.acq = "held" /\ up.ready = "ok" /\ ~up.retired /\ ~up.syncStopped /\ ~up.disposed
        /\ up.connection = "none" /\ up.gen = r.gen
    BY <1>1, <1>3, ReadyUp
  <2>2. \/ s' = [s EXCEPT ![o] = up]
        \/ kind # "local" /\ s' = [s EXCEPT ![o] = SetConnection(up, "live")]
        \/ /\ kind # "local" /\ r.gen < serverGen
           /\ s' = [s EXCEPT ![o] = SetConnection(OnRetired(up), AttachedConnection(OnRetired(up)))]
        \/ s' = [s EXCEPT ![o] = SetConnection(Close(up), AttachedConnection(Close(up)))]
    BY <1>3 DEF Initialized, SetReady, SetConnection
  <2>. HIDE DEF up
  <2>3. CASE s' = [s EXCEPT ![o] = up]
    BY <1>1, <1>3, <2>1, <2>3, SameKeeps
  <2>4. CASE kind # "local" /\ s' = [s EXCEPT ![o] = SetConnection(up, "live")]
    <3>1. \E q \in Opener : s' = [s EXCEPT ![o] = q] /\ Local(kind, q) /\ Same(up, q)
      BY <1>1, <2>1, <2>4, ConnectionSets
    <3>2. \E q \in Opener : s' = [s EXCEPT ![o] = q] /\ Local(kind, q) /\ Same(r, q)
      BY <2>1, <3>1 DEF Same
    <3>. QED
      BY <1>1, <1>3, <3>2, SameKeeps
  <2>5. CASE /\ kind # "local" /\ r.gen < serverGen
             /\ s' = [s EXCEPT ![o] = SetConnection(OnRetired(up), AttachedConnection(OnRetired(up)))]
    <3>. DEFINE e == OnRetired(up)
                q == SetConnection(e, "stopped")
    <3>0. kind = "personal"
      BY <1>1, <2>5
    <3>1. /\ e \in Opener /\ Local(kind, e)
          /\ e.retired = TRUE /\ e.acq = "held" /\ e.gen = up.gen
          /\ e.invalidation = "running" /\ e.docClosing # "done"
      BY <2>1, <3>0, OnRetiredKeeps
    <3>. HIDE DEF e
    <3>2. s' = [s EXCEPT ![o] = q]
      BY <2>5, <3>1 DEF AttachedConnection, e
    <3>3. e.ready = "ok"
      BY <3>1 DEF Local, ReadyNeeded
    <3>4. q \in Opener /\ Local(kind, q) /\ Same(e, q)
      BY <3>1, <3>3, ConnectionSets
    <3>. HIDE DEF q
    <3>5. /\ q.retired = TRUE /\ q.acq = "held" /\ q.gen = r.gen
          /\ q.invalidation # "done" /\ q.docClosing # "done"
      BY <2>1, <3>1, <3>4 DEF Same
    <3>6. r.invalidation # "done" /\ r.acq = "held"
      BY <1>1, <1>3 DEF Local, ReadyNeeded, RetiredSound
    <3>. QED
      BY <1>1, <1>3, <2>5, <3>2, <3>4, <3>5, <3>6, RetirementKeeps
  <2>6. CASE s' = [s EXCEPT ![o] = SetConnection(Close(up), AttachedConnection(Close(up)))]
    <3>. DEFINE e == Close(up)
                q == SetConnection(e, "stopped")
    <3>1. e \in Opener /\ Local(kind, e) /\ Closes(up, e)
      BY <2>1, CloseKeeps
    <3>. HIDE DEF e
    <3>2. s' = [s EXCEPT ![o] = q] /\ e.acq = "held" /\ e.ready = "ok" /\ Same(up, e)
      BY <2>1, <2>6, <3>1, ClosesSame DEF AttachedConnection, e, Closes
    <3>3. q \in Opener /\ Local(kind, q) /\ Same(e, q)
      BY <3>1, <3>2, ConnectionSets
    <3>. HIDE DEF q
    <3>4. Same(r, q)
      BY <2>1, <3>2, <3>3 DEF Same
    <3>. QED
      BY <1>1, <1>3, <3>2, <3>3, <3>4, SameKeeps
  <2>. QED
    BY <2>2, <2>3, <2>4, <2>5, <2>6
<1>. QED
  BY <1>2, <1>3 DEF Ready, SetReady

\* Reporting the outcome of an opening.
LEMMA OutcomeSets ==
    ASSUME NEW k, NEW r \in Opener, Local(k, r), r.outcome = "opening", NEW v \in {"open", "failed"},
           v = "open" => r.ready = "ok", NEW q, q = SetOutcome(r, v)
    PROVE  q \in Opener /\ Local(k, q) /\ Same(r, q)
<1>. USE DEF SetOutcome
<1>1. q \in Opener
  BY Words DEF Opener
<1>2. TxnsInOrder(q) /\ RetiredSound(k, q) /\ DrainsWhatIsQueued(q)
  BY DEF Opener, Local, TxnsInOrder, Committing, RetiredSound, DrainsWhatIsQueued
<1>3. ReadyNeeded(k, q)
  BY DEF Opener, Local, ReadyNeeded
<1>4. ClosingSound(q)
  BY DEF Opener, Local, ClosingSound
<1>5. Busy(q) => Busy(r)
  BY DEF Opener, Busy
<1>6. Same(r, q)
  BY <1>5 DEF Opener, Same, InFlight, Committing
<1>. QED
  BY <1>1, <1>2, <1>3, <1>4, <1>6 DEF Local

LEMMA ReturnKeeps == ASSUME IInv, NEW o \in Openers, Return(o) PROVE IInv'
<1>. DEFINE r == s[o]
<1>1. /\ r \in Opener /\ Local(kind, r) /\ r.outcome = "opening"
      /\ claim' = claim /\ kind' = kind /\ header' = header /\ rows' = rows /\ saved' = saved
      /\ serverGen' = serverGen /\ nextEdit' \in 1..(MaxEdits + 1) /\ faults' = faults
  BY Facts DEF Return, durable
<1>2. \/ \E v \in {"open", "failed"} :
           (v = "open" => r.ready = "ok") /\ s' = [s EXCEPT ![o] = SetOutcome(r, v)]
      \/ s' = [s EXCEPT ![o] = Close(r)]
  <2>1. \A v : [s EXCEPT ![o].outcome = v] = [s EXCEPT ![o] = SetOutcome(r, v)]
    BY DEF SetOutcome
  <2>2. Opened(r) => r.ready = "ok"
    BY DEF Opened
  <2>. HIDE DEF r
  <2>3. \/ Opened(r) /\ s' = [s EXCEPT ![o].outcome = "open"]
        \/ s' = [s EXCEPT ![o] = Close(r)]
        \/ s' = [s EXCEPT ![o].outcome = "failed"]
    BY DEF Return, r
  <2>. QED
    BY <2>1, <2>2, <2>3
<1>3. r.acq # "none"
  BY <1>1 DEF Local, ReadyNeeded
<1>4. \E q \in Opener : s' = [s EXCEPT ![o] = q] /\ Local(kind, q) /\ Same(r, q)
  <2>1. CASE s' = [s EXCEPT ![o] = Close(r)]
    BY <1>1, <1>3, <2>1, CloseKeeps, ClosesSame
  <2>2. CASE \E v \in {"open", "failed"} :
           (v = "open" => r.ready = "ok") /\ s' = [s EXCEPT ![o] = SetOutcome(r, v)]
    <3>1. PICK v \in {"open", "failed"} :
           (v = "open" => r.ready = "ok") /\ s' = [s EXCEPT ![o] = SetOutcome(r, v)]
      BY <2>2
    <3>. QED
      BY <1>1, <3>1, OutcomeSets
  <2>. QED
    BY <1>2, <2>1, <2>2
<1>. QED
  BY <1>1, <1>4, SameKeeps

LEMMA CallCloseKeeps == ASSUME IInv, NEW o \in Openers, CallClose(o) PROVE IInv'
<1>. DEFINE r == s[o]
<1>1. /\ r \in Opener /\ Local(kind, r) /\ s' = [s EXCEPT ![o] = Close(r)]
      /\ claim' = claim /\ kind' = kind /\ header' = header /\ rows' = rows /\ saved' = saved
      /\ serverGen' = serverGen /\ nextEdit' \in 1..(MaxEdits + 1) /\ faults' = faults
  BY Facts DEF CallClose, durable
<1>2. r.outcome \notin {"none", "gone"}
  BY DEF CallClose
<1>3. r.acq # "none"
  BY <1>1, <1>2 DEF Local, ReadyNeeded
<1>4. \E q \in Opener : s' = [s EXCEPT ![o] = q] /\ Local(kind, q) /\ Same(r, q)
  BY <1>1, <1>3, CloseKeeps, ClosesSame
<1>. QED
  BY <1>1, <1>4, SameKeeps

\* An edit is queued by an open store, or by one that its transaction closed.
LEMMA EditsKeep ==
    ASSUME IInv, NEW o \in Openers, Edit(o) \/ EditAndClose(o)
    PROVE  IInv'
<1>. DEFINE r == s[o]
<1>1. /\ r \in Opener /\ Local(kind, r) /\ Shared(r, header, serverGen, saved)
      /\ r.outcome = "open" /\ ~r.disposed /\ ~r.retired
      /\ claim' = claim /\ kind' = kind /\ header' = header /\ rows' = rows /\ saved' = saved
      /\ serverGen' = serverGen /\ faults' = faults
  BY Facts DEF Edit, EditAndClose, Usable, durable
<1>2. nextEdit \in Edits /\ nextEdit' \in 1..(MaxEdits + 1) /\ faults' \in 0..MaxFaults
  <2>1. nextEdit \in 1..(MaxEdits + 1) /\ MaxEdits \in Nat /\ nextEdit <= MaxEdits
        /\ nextEdit' = nextEdit + 1 /\ faults \in 0..MaxFaults /\ faults' = faults
    BY <1>1, Facts DEF Edit, EditAndClose
  <2>. QED
    BY <2>1 DEF Edits
<1>3. r.ready = "ok" /\ r.acq = "held"
  BY <1>1 DEF Local, ReadyNeeded, ClosingSound
<1>4. PICK c \in {r, Close(r)} : s' = [s EXCEPT ![o] = Enqueue(c, nextEdit)]
  BY DEF Edit, EditAndClose
<1>5. r.docClosing = "none" /\ r.persistenceClosed = "none" /\ r.invalidation = "none"
  BY <1>1 DEF Local, ClosingSound, RetiredSound
<1>6. /\ c \in Opener /\ Local(kind, c) /\ Same(r, c) /\ c.ready = "ok"
      /\ c.docClosing \in {"none", "acquisition"} /\ c.persistenceClosed \in {"none", "queued"}
  <2>1. CASE c = r
    BY <1>1, <1>3, <1>5, <2>1 DEF Same
  <2>2. CASE c = Close(r)
    <3>1. c \in Opener /\ Local(kind, c) /\ Closes(r, c)
      BY <1>1, <1>3, <2>2, CloseKeeps
    <3>. QED
      BY <1>3, <1>5, <3>1, ClosesSame DEF Closes
  <2>. QED
    BY <1>4, <2>1, <2>2
<1>. DEFINE q == Enqueue(c, nextEdit)
<1>7. c.acq = "held" /\ ~c.retired
  BY <1>1, <1>3, <1>6 DEF Same
<1>8. /\ q \in Opener /\ Local(kind, q)
      /\ q.acq = c.acq /\ q.gen = c.gen /\ q.retired = c.retired
      /\ q.docClosing = c.docClosing /\ q.invalidation = c.invalidation
      /\ q.refused = c.refused /\ InFlight(q) = InFlight(c)
      /\ q.accepted = c.accepted \cup {nextEdit} /\ q.queue = c.queue \cup {nextEdit}
      /\ Busy(q) => Busy(c)
  BY <1>2, <1>6, <1>7, EnqueueKeeps
<1>. HIDE DEF q
<1>9. Shared(c, header, serverGen, saved)
  BY <1>1, <1>6, SharedKept DEF Same
<1>10. Shared(q, header, serverGen, saved)
  BY <1>8, <1>9 DEF Shared, CacheIs, GenerationPast, AcceptedKept
<1>11. (Busy(q) => Busy(r)) /\ q.acq = "held" /\ ~q.retired
  BY <1>6, <1>7, <1>8 DEF Same
<1>12. s' = [s EXCEPT ![o] = q]
  BY <1>4 DEF q
<1>. QED
  BY <1>1, <1>2, <1>8, <1>10, <1>11, <1>12, QuietKeeps

Stopped(r) == [r EXCEPT !.running = "idle"]
Taken(r) == [r EXCEPT !.queue = {}, !.requested = FALSE]
Handed(r) == [Taken(r) EXCEPT !.running = "committing",
                              !.txns = Append(@, [kind |-> "commit", edits |-> r.queue])]

\* The drain finds nothing, or finds its work discarded.
LEMMA DrainStops ==
    ASSUME NEW k, NEW r \in Opener, Local(k, r), r.running = "scheduled", r.queue = {},
           NEW q, q = Stopped(r)
    PROVE  q \in Opener /\ Local(k, q) /\ Same(r, q)
<1>. USE DEF Stopped
<1>1. q \in Opener
  BY Words DEF Opener
<1>2. TxnsInOrder(q) /\ RetiredSound(k, q) /\ DrainsWhatIsQueued(q)
  BY DEF Opener, Local, TxnsInOrder, Committing, RetiredSound, DrainsWhatIsQueued
<1>3. ReadyNeeded(k, q)
  BY DEF Opener, Local, ReadyNeeded
<1>4. ClosingSound(q)
  BY DEF Opener, Local, ClosingSound, Ended
<1>5. Busy(q) => Busy(r)
  BY DEF Opener, Busy
<1>6. Same(r, q)
  BY <1>5 DEF Opener, Same, InFlight, Committing
<1>. QED
  BY <1>1, <1>2, <1>3, <1>4, <1>6 DEF Local

\* The drain hands its batch to the port.
LEMMA DrainHands ==
    ASSUME NEW k, NEW r \in Opener, Local(k, r), r.running = "scheduled", ~r.fenced,
           NEW q, q = Handed(r)
    PROVE  /\ q \in Opener /\ Local(k, q)
           /\ q.acq = "held" /\ r.acq = "held" /\ q.gen = r.gen /\ ~q.retired /\ ~r.retired
           /\ q.refused = r.refused
           /\ q.invalidation = r.invalidation /\ q.docClosing = r.docClosing
           /\ q.accepted = r.accepted /\ InFlight(q) = r.queue
<1>. DEFINE b == [kind |-> "commit", edits |-> r.queue]
            T == Append(r.txns, b)
<1>1. q = [r EXCEPT !.queue = {}, !.requested = FALSE, !.running = "committing", !.txns = T]
  BY DEF Handed, Taken, Opener
<1>2. T \in Seq(Txn) /\ r.txns \in Seq(Txn) /\ b.kind = "commit" /\ b.edits = r.queue
  BY TxnsType DEF Opener
<1>. HIDE DEF b
<1>3. ~r.retired /\ r.invalidation = "none" /\ r.acq = "held" /\ r.ready = "ok"
  BY DEF Opener, Local, ReadyNeeded, RetiredSound
<1>4. r.txns = <<>>
  BY <1>2, <1>3 DEF Local, TxnsInOrder, Committing
<1>5. T[1] = b /\ Len(T) = 1 /\ T # <<>>
  BY <1>4
<1>. HIDE DEF T
<1>6. q \in Opener
  <2>1. {} \in SUBSET Edits /\ "committing" \in DrainState /\ FALSE \in BOOLEAN
    BY Words
  <2>. QED
    BY <1>1, <1>2, <2>1 DEF Opener
<1>7. q.txns = T /\ q.running = "committing" /\ q.invalidation = "none"
  BY <1>1, <1>3 DEF Opener
<1>8. TxnsInOrder(q) /\ InFlight(q) = r.queue
  BY <1>2, <1>5, <1>7 DEF TxnsInOrder, Committing, InFlight
<1>9. RetiredSound(k, q) /\ DrainsWhatIsQueued(q)
  BY <1>1, <1>3 DEF Opener, Local, RetiredSound, DrainsWhatIsQueued
<1>10. ReadyNeeded(k, q)
  BY <1>1, <1>3 DEF Opener, Local, ReadyNeeded
<1>11. ClosingSound(q)
  BY <1>1, <1>3 DEF Opener, Local, ClosingSound, Ended
<1>12. /\ q.acq = r.acq /\ q.gen = r.gen /\ q.retired = r.retired /\ q.refused = r.refused
       /\ q.invalidation = r.invalidation /\ q.docClosing = r.docClosing
       /\ q.accepted = r.accepted
  BY <1>1 DEF Opener
<1>. QED
  BY <1>3, <1>6, <1>8, <1>9, <1>10, <1>11, <1>12 DEF Local

LEMMA DrainKeeps == ASSUME IInv, NEW o \in Openers, Drain(o) PROVE IInv'
<1>. DEFINE r == s[o]
<1>1. /\ r \in Opener /\ Local(kind, r) /\ Shared(r, header, serverGen, saved)
      /\ r.running = "scheduled"
      /\ claim' = claim /\ kind' = kind /\ header' = header /\ rows' = rows /\ saved' = saved
      /\ serverGen' = serverGen /\ nextEdit' \in 1..(MaxEdits + 1) /\ faults' = faults
      /\ faults' \in 0..MaxFaults
  BY Facts DEF Drain, durable
<1>2. CASE r.queue = {}
  <2>1. s' = [s EXCEPT ![o] = Stopped(r)]
    BY <1>2 DEF Drain, Stopped
  <2>2. \E q \in Opener : s' = [s EXCEPT ![o] = q] /\ Local(kind, q) /\ Same(r, q)
    BY <1>1, <1>2, <2>1, DrainStops
  <2>. QED
    BY <1>1, <2>2, SameKeeps
<1>3. CASE r.queue # {}
  <2>1. ~r.fenced
    BY <1>1, <1>3 DEF Opener, Local, RetiredSound, ClosingSound, Ended
  <2>2. s' = [s EXCEPT ![o] = Handed(r)]
    BY <1>3, <2>1 DEF Drain, Handed, Taken
  <2>. DEFINE q == Handed(r)
  <2>3. /\ q \in Opener /\ Local(kind, q)
        /\ q.acq = "held" /\ r.acq = "held" /\ q.gen = r.gen /\ ~q.retired /\ ~r.retired
        /\ q.refused = r.refused
        /\ q.invalidation = r.invalidation /\ q.docClosing = r.docClosing
        /\ q.accepted = r.accepted /\ InFlight(q) = r.queue
    BY <1>1, <2>1, DrainHands
  <2>4. s' = [s EXCEPT ![o] = q]
    BY <2>2
  <2>. HIDE DEF q
  <2>5. InFlight(r) = {}
    BY <1>1 DEF InFlight, Committing
  <2>6. Shared(q, header, serverGen, saved)
    BY <1>1, <2>3, <2>5 DEF Shared, CacheIs, GenerationPast, AcceptedKept
  <2>7. Busy(r)
    BY <2>3 DEF Busy
  <2>. QED
    BY <1>1, <2>3, <2>4, <2>6, <2>7, QuietKeeps
<1>. QED
  BY <1>2, <1>3

Committed(r) ==
    [r EXCEPT !.txns = Tail(@), !.running = IF ~r.discarded /\ r.queue # {} THEN "scheduled" ELSE "idle"]
Refused(r) ==
    [CommitRefused([r EXCEPT !.txns = Tail(@)], r.txns[1].edits) EXCEPT !.refused = TRUE]
Invalidated(r, v) == [r EXCEPT !.txns = Tail(@), !.invalidation = v]

\* The first transaction is a commit exactly while the drain waits for one.
LEMMA FirstTxn ==
    ASSUME NEW k, NEW r \in Opener, Local(k, r), r.txns # <<>>
    PROVE  /\ Tail(r.txns) \in Seq(Txn) /\ Len(Tail(r.txns)) = Len(r.txns) - 1
           /\ Head(r.txns) = r.txns[1]
           /\ r.acq = "held" /\ r.ready = "ok"
           /\ r.running = "committing" =>
                /\ r.txns[1].kind = "commit" /\ r.txns[1].edits \subseteq Edits
                /\ InFlight(r) = r.txns[1].edits
                /\ Len(Tail(r.txns)) = IF r.invalidation = "running" THEN 1 ELSE 0
                /\ r.invalidation = "running" => Tail(r.txns)[1].kind = "discard"
                /\ r.invalidation # "done" /\ r.docClosing \notin Ended
           /\ r.running # "committing" =>
                /\ r.txns[1].kind = "discard" /\ r.invalidation = "running" /\ Tail(r.txns) = <<>>
                /\ r.retired /\ r.docClosing \in {"none", "acquisition", "invalidation"}
<1>1. r.txns \in Seq(Txn) /\ Len(r.txns) \in Nat /\ Len(r.txns) > 0
  BY DEF Opener
<1>2. /\ Tail(r.txns) \in Seq(Txn) /\ Len(Tail(r.txns)) = Len(r.txns) - 1 /\ Head(r.txns) = r.txns[1]
      /\ \A i \in 1..(Len(r.txns) - 1) : Tail(r.txns)[i] = r.txns[i + 1]
  <2>. HIDE DEF Txn
  <2>. QED
    BY <1>1
<1>3. TxnsInOrder(r)
  BY DEF Local
<1>4. CASE r.running = "committing"
  <2>1. r.txns[1].kind = "commit" /\ r.acq = "held" /\ r.invalidation # "done"
    BY <1>3, <1>4 DEF TxnsInOrder, Committing, Local, ReadyNeeded
  <2>2. r.txns[1] \in Txn
    BY <1>1
  <2>3. r.txns[1].edits \subseteq Edits
    BY <2>1, <2>2 DEF Txn
  <2>4. /\ Len(Tail(r.txns)) = IF r.invalidation = "running" THEN 1 ELSE 0
        /\ r.invalidation = "running" => Tail(r.txns)[1].kind = "discard"
    BY <1>1, <1>2, <1>3, <1>4 DEF TxnsInOrder, Committing
  <2>5. r.docClosing \notin Ended /\ r.ready = "ok"
    BY <1>4 DEF Local, ClosingSound, ReadyNeeded
  <2>. QED
    BY <1>2, <1>4, <2>1, <2>3, <2>4, <2>5 DEF InFlight, Committing
<1>5. CASE r.running # "committing"
  <2>1. Len(r.txns) = 1 /\ r.invalidation = "running" /\ r.txns[1].kind = "discard"
    BY <1>1, <1>3, <1>5 DEF TxnsInOrder, Committing
  <2>2. Tail(r.txns) = <<>>
    <3>. HIDE DEF Txn
    <3>1. Len(Tail(r.txns)) = 0 /\ Tail(r.txns) \in Seq(Txn)
      BY <1>2, <2>1
    <3>. QED
      BY <3>1, EmptySeq
  <2>3. r.retired /\ r.docClosing \in {"none", "acquisition", "invalidation"} /\ r.ready = "ok"
    <3>1. r.retired
      BY <2>1 DEF Local, RetiredSound
    <3>2. r.docClosing \in DocumentStage
      BY DEF Opener
    <3>3. r.docClosing \notin {"discarded", "persistence", "rejected"} \cup Ended /\ r.ready = "ok"
      BY <2>1, <3>1 DEF Local, ClosingSound, ReadyNeeded
    <3>. QED
      BY <3>1, <3>2, <3>3, Words
  <2>4. r.acq = "held"
    BY <2>3 DEF Local, ReadyNeeded
  <2>. QED
    BY <1>2, <1>5, <2>1, <2>2, <2>3, <2>4
<1>. QED
  BY <1>4, <1>5

\* A commit that storage took.
LEMMA CommitDone ==
    ASSUME NEW k, NEW r \in Opener, Local(k, r), r.txns # <<>>, r.running = "committing",
           NEW q, q = Committed(r)
    PROVE  /\ q \in Opener /\ Local(k, q)
           /\ q.acq = "held" /\ q.gen = r.gen /\ q.retired = r.retired /\ q.refused = r.refused
           /\ q.invalidation = r.invalidation /\ q.docClosing = r.docClosing
           /\ q.accepted = r.accepted /\ q.queue = r.queue
<1>. DEFINE T == Tail(r.txns)
            run == IF ~r.discarded /\ r.queue # {} THEN "scheduled" ELSE "idle"
<1>1. /\ T \in Seq(Txn) /\ r.acq = "held" /\ r.ready = "ok"
      /\ Len(T) = IF r.invalidation = "running" THEN 1 ELSE 0
      /\ r.invalidation = "running" => T[1].kind = "discard"
      /\ r.invalidation # "done" /\ r.docClosing \notin Ended
  BY FirstTxn
<1>2. q = [r EXCEPT !.txns = T, !.running = run]
  BY DEF Committed
<1>3. run \in DrainState /\ run # "committing" /\ (run = "idle" => r.discarded \/ r.queue = {})
  BY Words
<1>. HIDE DEF T, run
<1>4. q \in Opener
  BY <1>1, <1>2, <1>3 DEF Opener
<1>5. /\ q.acq = r.acq /\ q.gen = r.gen /\ q.retired = r.retired /\ q.refused = r.refused
      /\ q.invalidation = r.invalidation /\ q.docClosing = r.docClosing
      /\ q.accepted = r.accepted /\ q.queue = r.queue /\ q.running = run /\ q.txns = T
  BY <1>2 DEF Opener
<1>6. TxnsInOrder(q)
  BY <1>1, <1>3, <1>5 DEF TxnsInOrder, Committing
<1>7. RetiredSound(k, q)
  BY <1>2 DEF Opener, Local, RetiredSound
<1>8. DrainsWhatIsQueued(q)
  BY <1>3, <1>5 DEF Local, RetiredSound, DrainsWhatIsQueued
<1>9. ReadyNeeded(k, q)
  BY <1>1, <1>2 DEF Opener, Local, ReadyNeeded
<1>10. ClosingSound(q)
  BY <1>1, <1>2 DEF Opener, Local, ClosingSound, Ended
<1>. QED
  BY <1>1, <1>4, <1>5, <1>6, <1>7, <1>8, <1>9, <1>10 DEF Local

\* A commit that storage refused: its edits go back, unless they were discarded.
LEMMA CommitFails ==
    ASSUME NEW k, NEW r \in Opener, Local(k, r), r.txns # <<>>, r.running = "committing",
           NEW q, q = Refused(r)
    PROVE  /\ q \in Opener /\ Local(k, q)
           /\ q.acq = "held" /\ q.gen = r.gen /\ q.retired = r.retired /\ q.refused = TRUE
           /\ q.invalidation = r.invalidation /\ q.docClosing = r.docClosing
<1>. DEFINE T == Tail(r.txns)
            qu == IF r.discarded THEN r.queue ELSE r.queue \cup r.txns[1].edits
            run == IF ~r.discarded /\ r.requested THEN "scheduled" ELSE "idle"
<1>1. /\ T \in Seq(Txn) /\ r.acq = "held" /\ r.ready = "ok"
      /\ Len(T) = IF r.invalidation = "running" THEN 1 ELSE 0
      /\ r.invalidation = "running" => T[1].kind = "discard"
      /\ r.invalidation # "done" /\ r.docClosing \notin Ended
      /\ r.txns[1].edits \subseteq Edits
  BY FirstTxn
<1>2. q = [r EXCEPT !.txns = T, !.queue = qu, !.running = run, !.refused = TRUE]
  BY DEF Refused, CommitRefused, Opener
<1>3. run \in DrainState /\ run # "committing" /\ qu \in SUBSET Edits
      /\ (r.discarded => qu = r.queue)
  BY <1>1, Words DEF Opener
<1>. HIDE DEF T, run, qu
<1>4. q \in Opener
  BY <1>1, <1>2, <1>3 DEF Opener
<1>5. /\ q.acq = r.acq /\ q.gen = r.gen /\ q.retired = r.retired /\ q.refused = TRUE
      /\ q.invalidation = r.invalidation /\ q.docClosing = r.docClosing
      /\ q.queue = qu /\ q.running = run /\ q.txns = T
  BY <1>2 DEF Opener
<1>6. TxnsInOrder(q)
  BY <1>1, <1>3, <1>5 DEF TxnsInOrder, Committing
<1>7. RetiredSound(k, q)
  BY <1>2, <1>3 DEF Opener, Local, RetiredSound
<1>8. DrainsWhatIsQueued(q)
  BY <1>5 DEF DrainsWhatIsQueued
<1>9. ReadyNeeded(k, q)
  BY <1>1, <1>2 DEF Opener, Local, ReadyNeeded
<1>10. ClosingSound(q)
  BY <1>1, <1>2 DEF Opener, Local, ClosingSound, Ended
<1>. QED
  BY <1>1, <1>4, <1>5, <1>6, <1>7, <1>8, <1>9, <1>10 DEF Local

AfterDiscard(r, q, v) ==
    /\ q.acq = "held" /\ q.gen = r.gen /\ q.invalidation = v /\ q.retired = TRUE
    /\ r.retired = TRUE /\ r.invalidation # "done" /\ q.docClosing # "done" /\ Busy(r)

\* The discard ends, done or failed.
LEMMA DiscardEnds ==
    ASSUME NEW k, NEW r \in Opener, Local(k, r), r.txns # <<>>, r.running # "committing",
           NEW v \in {"done", "failed"}, NEW q, q = Invalidated(r, v)
    PROVE  q \in Opener /\ Local(k, q) /\ AfterDiscard(r, q, v)
<1>1. /\ r.acq = "held" /\ r.ready = "ok" /\ Tail(r.txns) = <<>> /\ r.retired
      /\ r.docClosing \in {"none", "acquisition", "invalidation"} /\ r.invalidation = "running"
  BY FirstTxn
<1>2. q = [r EXCEPT !.txns = <<>>, !.invalidation = v]
  BY <1>1 DEF Invalidated
<1>3. q \in Opener
  <2>1. <<>> \in Seq(Txn) /\ v \in Invalidation
    BY Words
  <2>. QED
    BY <1>2, <2>1 DEF Opener
<1>4. TxnsInOrder(q)
  <2>1. q.txns = <<>> /\ q.running # "committing" /\ q.invalidation # "running"
    BY <1>2 DEF Opener
  <2>. QED
    BY <2>1 DEF TxnsInOrder, Committing
<1>5. RetiredSound(k, q) /\ DrainsWhatIsQueued(q)
  BY <1>1, <1>2 DEF Opener, Local, RetiredSound, DrainsWhatIsQueued
<1>6. ReadyNeeded(k, q)
  BY <1>1, <1>2 DEF Opener, Local, ReadyNeeded
<1>7. ClosingSound(q)
  BY <1>1, <1>2 DEF Opener, Local, ClosingSound, Ended
<1>8. Busy(r) /\ r.retired = TRUE
  BY <1>1 DEF Busy, Opener
<1>9. q.acq = "held" /\ q.gen = r.gen /\ q.invalidation = v /\ q.docClosing # "done"
  BY <1>1, <1>2 DEF Opener
<1>10. q.retired = TRUE
  BY <1>2, <1>8 DEF Opener
<1>. QED
  BY <1>1, <1>3, <1>4, <1>5, <1>6, <1>7, <1>8, <1>9, <1>10 DEF Local, AfterDiscard

LEMMA TxnDoneKeeps == ASSUME IInv, NEW o \in Openers, TxnDone(o) PROVE IInv'
<1>. DEFINE r == s[o]
            t == Head(r.txns)
<1>1. /\ r \in Opener /\ Local(kind, r) /\ Shared(r, header, serverGen, saved) /\ r.txns # <<>>
      /\ claim' = claim /\ kind' = kind /\ serverGen' = serverGen
      /\ nextEdit' \in 1..(MaxEdits + 1) /\ (Busy(r) => claim = {o})
      /\ header \in 0..MaxGeneration
  BY Facts DEF TxnDone
<1>2. faults' \in 0..MaxFaults
  <2>1. Fault \/ UNCHANGED faults
    BY DEF TxnDone
  <2>. QED
    BY <2>1, Facts
<1>3. /\ t = r.txns[1] /\ r.acq = "held" /\ Busy(r) /\ claim = {o}
  BY <1>1, FirstTxn DEF Busy
<1>4. rows \subseteq Generations \X Edits /\ saved \subseteq Edits /\ RowsOfHeader
  BY DEF IInv, Exclusive, TypeOK
<1>5. CASE r.running = "committing"
  <2>1. /\ t.kind = "commit" /\ t.edits \subseteq Edits /\ InFlight(r) = t.edits
        /\ r.invalidation # "done" /\ header = r.gen
    BY <1>1, <1>3, <1>5, FirstTxn DEF Shared, CacheIs
  <2>2. \/ /\ header' = header /\ rows' = rows \cup {<<r.gen, e>> : e \in t.edits}
           /\ saved' = saved \cup t.edits
           /\ s' = [s EXCEPT ![o] = Committed(r)]
        \/ /\ header' = header /\ rows' = rows /\ saved' = saved
           /\ s' = [s EXCEPT ![o] = Refused(r)]
    <3>1. t.kind # "discard"
      BY <2>1
    <3>. QED
      BY <1>3, <3>1 DEF TxnDone, HeaderAfter, RowsAfter, SavedAfter, Committed, Refused, durable
  <2>3. CASE /\ header' = header /\ rows' = rows \cup {<<r.gen, e>> : e \in t.edits}
             /\ saved' = saved \cup t.edits
             /\ s' = [s EXCEPT ![o] = Committed(r)]
    <3>. DEFINE q == Committed(r)
    <3>1. /\ q \in Opener /\ Local(kind, q)
          /\ q.acq = "held" /\ q.gen = r.gen /\ q.retired = r.retired /\ q.refused = r.refused
          /\ q.invalidation = r.invalidation /\ q.docClosing = r.docClosing
          /\ q.accepted = r.accepted /\ q.queue = r.queue
      BY <1>1, <1>5, CommitDone
    <3>2. s' = [s EXCEPT ![o] = q]
      BY <2>3
    <3>. HIDE DEF q
    <3>3. Shared(q, header', serverGen, saved')
      <4>1. CacheIs(q, header') /\ GenerationPast(q, header', serverGen)
        BY <1>1, <1>3, <2>3, <3>1 DEF Shared, CacheIs, GenerationPast
      <4>2. AcceptedKept(q, saved')
        BY <1>1, <2>1, <2>3, <3>1 DEF Shared, AcceptedKept
      <4>. QED
        BY <4>1, <4>2 DEF Shared
    <3>4. r.gen \in Generations
      <4>1. r.gen # 0 /\ r.gen \in 0..MaxGeneration
        BY <1>1, <1>3 DEF Opener, Local, ReadyNeeded
      <4>. QED
        BY <4>1, LifetimeAssumption DEF Generations
    <3>5. rows' \subseteq Generations \X Edits /\ saved' \subseteq Edits /\ saved \subseteq saved'
      BY <1>4, <2>1, <2>3, <3>4
    <3>6. RowsOfHeader'
      BY <1>4, <2>1, <2>3 DEF RowsOfHeader
    <3>. QED
      BY <1>1, <1>2, <1>3, <2>3, <3>1, <3>2, <3>3, <3>5, <3>6, StepKeeps
  <2>4. CASE /\ header' = header /\ rows' = rows /\ saved' = saved
             /\ s' = [s EXCEPT ![o] = Refused(r)]
    <3>. DEFINE q == Refused(r)
    <3>1. /\ q \in Opener /\ Local(kind, q)
          /\ q.acq = "held" /\ q.gen = r.gen /\ q.retired = r.retired /\ q.refused = TRUE
          /\ q.invalidation = r.invalidation /\ q.docClosing = r.docClosing
      BY <1>1, <1>5, CommitFails
    <3>2. s' = [s EXCEPT ![o] = q]
      BY <2>4
    <3>. HIDE DEF q
    <3>3. Shared(q, header, serverGen, saved)
      BY <1>1, <1>3, <3>1 DEF Shared, CacheIs, GenerationPast, AcceptedKept
    <3>. QED
      BY <1>1, <1>2, <1>3, <2>4, <3>1, <3>2, <3>3, QuietKeeps
  <2>. QED
    BY <2>2, <2>3, <2>4
<1>6. CASE r.running # "committing"
  <2>1. t.kind = "discard"
    BY <1>1, <1>3, <1>6, FirstTxn
  <2>2. \/ /\ header' = 0 /\ rows' = {} /\ saved' = saved
           /\ s' = [s EXCEPT ![o] = Invalidated(r, "done")]
        \/ /\ header' = header /\ rows' = rows /\ saved' = saved
           /\ s' = [s EXCEPT ![o] = Invalidated(r, "failed")]
    BY <2>1 DEF TxnDone, HeaderAfter, HeaderDiscarded, RowsAfter, SavedAfter, Invalidated, durable
  <2>3. PICK v \in {"done", "failed"} :
          /\ s' = [s EXCEPT ![o] = Invalidated(r, v)]
          /\ saved' = saved
          /\ v = "done" => header' = 0 /\ rows' = {}
          /\ v = "failed" => header' = header /\ rows' = rows
    BY <2>2
  <2>. DEFINE q == Invalidated(r, v)
  <2>5. s' = [s EXCEPT ![o] = q]
    BY <2>3
  <2>8. r \in Opener /\ Local(kind, r) /\ r.txns # <<>> /\ q = Invalidated(r, v)
    BY <1>1
  <2>. HIDE DEF q, r
  <2>9. q \in Opener /\ Local(kind, q) /\ AfterDiscard(r, q, v)
    BY <1>6, <2>8, DiscardEnds
  <2>4. /\ q.acq = "held" /\ q.gen = r.gen
        /\ q.invalidation = v /\ q.retired = TRUE /\ r.retired = TRUE /\ r.invalidation # "done"
        /\ q.docClosing # "done"
    BY <2>9 DEF AfterDiscard
  <2>6. Shared(q, header', serverGen, saved')
    BY <1>1, <1>3, <2>3, <2>4 DEF Shared, CacheIs, GenerationPast, AcceptedKept
  <2>7. rows' \subseteq Generations \X Edits /\ RowsOfHeader' /\ header' \in {header, 0}
        /\ header' \in 0..MaxGeneration /\ saved' \subseteq Edits /\ saved \subseteq saved'
    BY <1>1, <1>4, <2>3, LifetimeAssumption DEF RowsOfHeader
  <2>. QED
    BY <1>1, <1>2, <1>3, <2>4, <2>5, <2>6, <2>7, <2>9, StepKeeps DEF r
<1>. QED
  BY <1>5, <1>6

Flushed(r) ==
    [r EXCEPT !.persistenceClosed = IF r.running = "idle" /\ r.queue = {} THEN "done" ELSE "draining",
              !.running = IF r.running = "idle" /\ r.queue # {} THEN "scheduled" ELSE r.running,
              !.requested = r.requested \/ r.running # "idle"]
FlushDone(r) == [r EXCEPT !.persistenceClosed = "done"]
SetStage(r, v) == [r EXCEPT !.docClosing = v]

\* The final flush of a store that was closed and not retired.
LEMMA Flushes ==
    ASSUME NEW k, NEW r \in Opener, Local(k, r), r.persistenceClosed = "queued", NEW q, q = Flushed(r)
    PROVE  q \in Opener /\ Local(k, q) /\ Same(r, q)
<1>. DEFINE pc == IF r.running = "idle" /\ r.queue = {} THEN "done" ELSE "draining"
            run == IF r.running = "idle" /\ r.queue # {} THEN "scheduled" ELSE r.running
            req == (r.requested \/ r.running # "idle")
<1>1. q = [r EXCEPT !.persistenceClosed = pc, !.running = run, !.requested = req]
  BY DEF Flushed
<1>2. r.ready = "ok" /\ r.disposed /\ ~r.retired /\ r.docClosing \notin Ended /\ r.acq = "held"
  <2>1. r.ready = "ok" /\ r.disposed /\ ~r.retired /\ r.docClosing \notin Ended
    BY DEF Local, ClosingSound
  <2>. QED
    BY <2>1 DEF Local, ReadyNeeded, Ended
<1>3. /\ pc \in FlushState /\ run \in DrainState /\ req \in BOOLEAN
      /\ pc \in {"done", "draining"} /\ (pc = "done" => run = "idle")
      /\ (run = "committing" <=> r.running = "committing")
      /\ (run = "idle" => r.running = "idle" /\ r.queue = {})
  BY Words DEF Opener
<1>. HIDE DEF pc, run, req
<1>4. q \in Opener
  BY <1>1, <1>3 DEF Opener
<1>5. TxnsInOrder(q) /\ RetiredSound(k, q)
  BY <1>1, <1>3 DEF Opener, Local, TxnsInOrder, Committing, RetiredSound
<1>6. DrainsWhatIsQueued(q)
  BY <1>1, <1>3 DEF Opener, DrainsWhatIsQueued
<1>7. ReadyNeeded(k, q)
  BY <1>1, <1>2 DEF Opener, Local, ReadyNeeded
<1>8. ClosingSound(q)
  <2>1. /\ q.docClosing = r.docClosing /\ q.acq = r.acq /\ q.ready = r.ready /\ q.host = r.host
        /\ q.closing = r.closing /\ q.sqlite = r.sqlite /\ q.blobs = r.blobs
        /\ q.invalidation = r.invalidation /\ q.persistenceClosed = pc /\ q.running = run
    BY <1>1 DEF Opener
  <2>2. q.disposed = r.disposed /\ q.syncStopped = r.syncStopped /\ q.retired = r.retired
    BY <1>1 DEF Opener
  <2>3. ClosingSound(r)
    BY DEF Local
  <2>. QED
    BY <1>2, <1>3, <2>1, <2>2, <2>3 DEF ClosingSound
<1>9. Busy(q) => Busy(r)
  BY <1>1 DEF Opener, Busy
<1>10. InFlight(q) = InFlight(r)
  BY <1>1, <1>3 DEF Opener, InFlight, Committing
<1>11. Same(r, q)
  BY <1>1, <1>9, <1>10 DEF Opener, Same
<1>. QED
  BY <1>4, <1>5, <1>6, <1>7, <1>8, <1>11 DEF Local

\* The final flush ends with its drain.
LEMMA FlushEnds ==
    ASSUME NEW k, NEW r \in Opener, Local(k, r), r.persistenceClosed = "draining", r.running = "idle",
           NEW q, q = FlushDone(r)
    PROVE  q \in Opener /\ Local(k, q) /\ Same(r, q)
<1>. USE DEF FlushDone
<1>1. q \in Opener
  BY Words DEF Opener
<1>2. TxnsInOrder(q) /\ RetiredSound(k, q) /\ DrainsWhatIsQueued(q)
  BY DEF Opener, Local, TxnsInOrder, Committing, RetiredSound, DrainsWhatIsQueued
<1>3. ReadyNeeded(k, q)
  <2>1. r.acq # "none"
    BY DEF Opener, Local, ReadyNeeded, ClosingSound
  <2>. QED
    BY <2>1 DEF Opener, Local, ReadyNeeded
<1>4. ClosingSound(q)
  BY DEF Opener, Local, ClosingSound
<1>5. Busy(q) => Busy(r)
  BY DEF Opener, Busy
<1>6. Same(r, q)
  BY <1>5 DEF Opener, Same, InFlight, Committing
<1>. QED
  BY <1>1, <1>2, <1>3, <1>4, <1>6 DEF Local

LEMMA FlushesKeep ==
    ASSUME IInv, NEW o \in Openers, FinalFlush(o) \/ FinalFlushEnds(o)
    PROVE  IInv'
<1>. DEFINE r == s[o]
<1>1. /\ r \in Opener /\ Local(kind, r)
      /\ claim' = claim /\ kind' = kind /\ header' = header /\ rows' = rows /\ saved' = saved
      /\ serverGen' = serverGen /\ nextEdit' \in 1..(MaxEdits + 1) /\ faults' = faults
  BY Facts DEF FinalFlush, FinalFlushEnds, durable
<1>2. \E q \in Opener : s' = [s EXCEPT ![o] = q] /\ Local(kind, q) /\ Same(r, q)
  <2>1. CASE FinalFlush(o)
    <3>1. s' = [s EXCEPT ![o] = Flushed(r)] /\ r.persistenceClosed = "queued"
      BY <2>1 DEF FinalFlush, Flushed
    <3>. QED
      BY <1>1, <3>1, Flushes
  <2>2. CASE FinalFlushEnds(o)
    <3>1. s' = [s EXCEPT ![o] = FlushDone(r)] /\ r.persistenceClosed = "draining" /\ r.running = "idle"
      BY <2>2 DEF FinalFlushEnds, DrainEnded, FlushDone
    <3>. QED
      BY <1>1, <3>1, FlushEnds
  <2>. QED
    BY <2>1, <2>2
<1>. QED
  BY <1>1, <1>2, SameKeeps

\* A close that waited for what it had to moves on.
LEMMA StageSets ==
    ASSUME NEW k, NEW r \in Opener, Local(k, r), NEW v, NEW q, q = SetStage(r, v),
           \/ r.docClosing = "acquisition" /\ r.acq \notin Acquiring /\ v = AfterAcquisition(r)
           \/ r.docClosing = "invalidation" /\ r.invalidation = "done" /\ v = "discarded"
           \/ r.docClosing = "invalidation" /\ r.invalidation = "failed" /\ v = "rejected"
           \/ r.docClosing = "discarded" /\ r.running = "idle" /\ v = "persistence"
           \/ /\ r.docClosing = "persistence" /\ r.persistenceClosed \in {"none", "done"}
              /\ v = "dispose"
    PROVE  q \in Opener /\ Local(k, q) /\ Same(r, q)
<1>. USE DEF SetStage
<1>1. v \in DocumentStage /\ v \notin {"none", "done", "failed"}
  BY Words DEF AfterAcquisition, Ended
<1>2. q \in Opener
  BY <1>1 DEF Opener
<1>3. TxnsInOrder(q) /\ RetiredSound(k, q) /\ DrainsWhatIsQueued(q)
  BY <1>1 DEF Opener, Local, TxnsInOrder, Committing, RetiredSound, DrainsWhatIsQueued
<1>4. r.acq # "none" /\ r.docClosing # "done" /\ r.docClosing # "none"
  <2>1. r.acq = "none" => r.docClosing = "none"
    <3>. SUFFICES ASSUME r.acq = "none" PROVE r.docClosing = "none"
      OBVIOUS
    <3>1. r = [Absent(r.host) EXCEPT !.outcome = r.outcome]
      BY DEF Local, ReadyNeeded
    <3>. QED
      BY <3>1 DEF Absent
  <2>. QED
    BY <2>1
<1>5. ReadyNeeded(k, q)
  BY <1>4 DEF Opener, Local, ReadyNeeded
<1>6. ClosingSound(q)
  BY <1>1, <1>4 DEF Opener, Local, ClosingSound, RetiredSound, ReadyNeeded, Ended, AfterAcquisition
<1>7. Busy(q) => Busy(r)
  BY DEF Opener, Busy
<1>8. Same(r, q)
  BY <1>1, <1>4, <1>7 DEF Opener, Same, InFlight, Committing
<1>. QED
  BY <1>2, <1>3, <1>5, <1>6, <1>8 DEF Local

LEMMA DocumentStepKeeps == ASSUME IInv, NEW o \in Openers, DocumentStep(o) PROVE IInv'
<1>. DEFINE r == s[o]
<1>1. /\ r \in Opener /\ Local(kind, r)
      /\ claim' = claim /\ kind' = kind /\ header' = header /\ rows' = rows /\ saved' = saved
      /\ serverGen' = serverGen /\ nextEdit' \in 1..(MaxEdits + 1) /\ faults' = faults
  BY Facts DEF DocumentStep, durable
<1>2. \A v : [s EXCEPT ![o].docClosing = v] = [s EXCEPT ![o] = SetStage(r, v)]
  BY DEF SetStage
<1>3. PICK v : /\ s' = [s EXCEPT ![o] = SetStage(r, v)]
               /\ \/ r.docClosing = "acquisition" /\ r.acq \notin Acquiring /\ v = AfterAcquisition(r)
                  \/ r.docClosing = "invalidation" /\ r.invalidation = "done" /\ v = "discarded"
                  \/ r.docClosing = "invalidation" /\ r.invalidation = "failed" /\ v = "rejected"
                  \/ r.docClosing = "discarded" /\ r.running = "idle" /\ v = "persistence"
                  \/ /\ r.docClosing = "persistence" /\ r.persistenceClosed \in {"none", "done"}
                     /\ v = "dispose"
  BY <1>2 DEF DocumentStep
<1>4. \E q \in Opener : s' = [s EXCEPT ![o] = q] /\ Local(kind, q) /\ Same(r, q)
  BY <1>1, <1>3, StageSets
<1>. QED
  BY <1>1, <1>4, SameKeeps

\* The backing is gone, whether the close then reports a failure or not; or it stays.
Disposed(r, end) ==
    [r EXCEPT !.docClosing = end, !.fenced = TRUE,
              !.acq = IF r.acq = "held" THEN "disposed" ELSE r.acq]
DisposeFailed(r) == [r EXCEPT !.docClosing = "failed", !.fenced = TRUE]

\* A close that has come to its end has nothing left to run.
LEMMA EndedIsStill ==
    ASSUME NEW k, NEW r \in Opener, Local(k, r), r.docClosing \in Ended
    PROVE  /\ r.running = "idle" /\ r.txns = <<>> /\ r.acq \notin Acquiring /\ r.acq # "none"
           /\ r.disposed /\ r.connection # "live"
           /\ r.retired => r.invalidation = "done" /\ r.ready = "ok"
           /\ ~r.retired => r.invalidation = "none"
           /\ r.retired /\ r.docClosing = "dispose" => r.acq = "held"
<1>1. /\ r.running = "idle" /\ r.acq \notin Acquiring /\ r.disposed
      /\ r.retired => r.invalidation = "done"
  BY DEF Local, ClosingSound, Ended
<1>2. /\ ~r.retired => r.invalidation = "none"
      /\ r.retired => r.ready = "ok"
      /\ r.connection # "live"
  BY <1>1 DEF Local, RetiredSound, ReadyNeeded
<1>3. r.txns = <<>>
  <2>1. r.txns \in Seq(Txn) /\ Len(r.txns) = 0
    BY <1>1, <1>2 DEF Local, TxnsInOrder, Committing, Opener
  <2>. HIDE DEF Txn
  <2>. QED
    BY <2>1, EmptySeq
<1>4. r.acq # "none"
  <2>. SUFFICES ASSUME r.acq = "none" PROVE FALSE
    OBVIOUS
  <2>1. r = [Absent(r.host) EXCEPT !.outcome = r.outcome]
    BY DEF Local, ReadyNeeded
  <2>2. r.docClosing = "none"
    BY <2>1 DEF Absent
  <2>. QED
    BY <2>2 DEF Ended
<1>5. r.retired /\ r.docClosing = "dispose" => r.acq = "held"
  BY <1>2 DEF Local, ReadyNeeded
<1>. QED
  BY <1>1, <1>2, <1>3, <1>4, <1>5

\* The backing is disposed of.
LEMMA Disposes ==
    ASSUME NEW k, NEW r \in Opener, Local(k, r), r.docClosing = "dispose",
           NEW end \in {"done", "failed"}, NEW q, q = Disposed(r, end)
    PROVE  /\ q \in Opener /\ Local(k, q)
           /\ q.acq \notin {"held"} \cup Acquiring /\ (q.acq = "threw" => r.acq = "threw")
           /\ q.gen = r.gen /\ q.retired = r.retired /\ q.refused = r.refused
           /\ q.accepted = r.accepted /\ q.queue = r.queue /\ InFlight(q) = InFlight(r)
           /\ q.txns = <<>> /\ q.sqlite = r.sqlite /\ q.blobs = r.blobs
<1>. DEFINE a == IF r.acq = "held" THEN "disposed" ELSE r.acq
<1>0. r.docClosing \in Ended
  BY DEF Ended
<1>1. /\ r.running = "idle" /\ r.txns = <<>> /\ r.acq \notin Acquiring /\ r.acq # "none"
      /\ r.disposed /\ r.connection # "live"
      /\ r.retired => r.invalidation = "done" /\ r.ready = "ok"
      /\ ~r.retired => r.invalidation = "none"
  BY <1>0, EndedIsStill
<1>2. q = [r EXCEPT !.docClosing = end, !.fenced = TRUE, !.acq = a]
  BY DEF Disposed
<1>3. /\ a \in Acquisition /\ a \notin {"held", "none"} \cup Acquiring /\ (a = "threw" => r.acq = "threw")
      /\ (r.acq = "held" => a = "disposed") /\ (a # r.acq => r.acq = "held")
  BY <1>1, Words DEF Opener, Acquiring
<1>. HIDE DEF a
<1>4. q \in Opener
  <2>1. end \in DocumentStage /\ TRUE \in BOOLEAN
    BY Words DEF Ended
  <2>. QED
    BY <1>2, <1>3, <2>1 DEF Opener
<1>5. TxnsInOrder(q) /\ DrainsWhatIsQueued(q)
  BY <1>1, <1>2 DEF Opener, Local, TxnsInOrder, Committing, DrainsWhatIsQueued
<1>6. RetiredSound(k, q)
  BY <1>1, <1>2 DEF Opener, Local, RetiredSound
<1>7. ReadyNeeded(k, q)
  BY <1>1, <1>2, <1>3 DEF Opener, Local, ReadyNeeded
<1>8. ClosingSound(q)
  <2>1. /\ q.docClosing = end /\ q.acq = a /\ q.ready = r.ready /\ q.host = r.host
        /\ q.closing = r.closing /\ q.sqlite = r.sqlite /\ q.blobs = r.blobs
        /\ q.invalidation = r.invalidation /\ q.persistenceClosed = r.persistenceClosed
        /\ q.running = r.running
    BY <1>2 DEF Opener
  <2>2. q.disposed = r.disposed /\ q.syncStopped = r.syncStopped /\ q.retired = r.retired
    BY <1>2 DEF Opener
  <2>3. ClosingSound(r)
    BY DEF Local
  <2>. QED
    BY <1>0, <1>1, <1>3, <2>1, <2>2, <2>3 DEF ClosingSound
<1>9. /\ q.acq = a /\ q.gen = r.gen /\ q.retired = r.retired /\ q.refused = r.refused
      /\ q.accepted = r.accepted /\ q.queue = r.queue /\ q.txns = <<>> /\ q.running = r.running
      /\ q.sqlite = r.sqlite /\ q.blobs = r.blobs
  BY <1>1, <1>2 DEF Opener
<1>10. InFlight(q) = InFlight(r)
  BY <1>1, <1>9 DEF InFlight, Committing
<1>. QED
  BY <1>3, <1>4, <1>5, <1>6, <1>7, <1>8, <1>9, <1>10 DEF Local

\* Disposing of the backing fails and the backing stays.
LEMMA DisposeFails ==
    ASSUME NEW k, NEW r \in Opener, Local(k, r), r.docClosing = "dispose", r.acq = "held",
           NEW q, q = DisposeFailed(r)
    PROVE  q \in Opener /\ Local(k, q) /\ Same(r, q)
<1>0. r.docClosing \in Ended
  BY DEF Ended
<1>1. /\ r.running = "idle" /\ r.disposed /\ r.connection # "live"
      /\ r.retired => r.invalidation = "done" /\ r.ready = "ok"
  BY <1>0, EndedIsStill
<1>. USE DEF DisposeFailed
<1>2. q \in Opener
  <2>1. "failed" \in DocumentStage /\ TRUE \in BOOLEAN
    BY Words DEF Ended
  <2>. QED
    BY <2>1 DEF Opener
<1>3. TxnsInOrder(q) /\ RetiredSound(k, q) /\ DrainsWhatIsQueued(q)
  BY DEF Opener, Local, TxnsInOrder, Committing, RetiredSound, DrainsWhatIsQueued
<1>4. ReadyNeeded(k, q)
  BY DEF Opener, Local, ReadyNeeded
<1>5. ClosingSound(q)
  BY <1>1 DEF Opener, Local, ClosingSound, Ended, Acquiring
<1>6. Busy(q) => Busy(r)
  BY DEF Opener, Busy
<1>7. Same(r, q)
  BY <1>6 DEF Opener, Same, InFlight, Committing
<1>. QED
  BY <1>2, <1>3, <1>4, <1>5, <1>7 DEF Local

LEMMA DisposeKeeps == ASSUME IInv, NEW o \in Openers, Dispose(o) PROVE IInv'
<1>. DEFINE r == s[o]
<1>1. /\ r \in Opener /\ Local(kind, r) /\ Shared(r, header, serverGen, saved)
      /\ r.docClosing = "dispose" /\ r.docClosing \in Ended
      /\ kind' = kind /\ header' = header /\ rows' = rows /\ saved' = saved
      /\ serverGen' = serverGen /\ nextEdit' \in 1..(MaxEdits + 1)
  BY Facts DEF Dispose, durable, Ended
<1>2. ASSUME NEW end \in {"done", "failed"}, s' = [s EXCEPT ![o] = Disposed(r, end)],
             \/ claim' = claim
             \/ r.host = "parts" /\ r.acq # "threw" /\ claim' = claim \ {o},
             Fault \/ UNCHANGED faults
      PROVE  IInv'
  <2>. DEFINE q == Disposed(r, end)
  <2>1. /\ q \in Opener /\ Local(kind, q)
        /\ q.acq \notin {"held"} \cup Acquiring /\ (q.acq = "threw" => r.acq = "threw")
        /\ q.gen = r.gen /\ q.retired = r.retired /\ q.refused = r.refused
        /\ q.accepted = r.accepted /\ q.queue = r.queue /\ InFlight(q) = InFlight(r)
        /\ q.txns = <<>> /\ q.sqlite = r.sqlite /\ q.blobs = r.blobs
    BY <1>1, Disposes
  <2>2. s' = [s EXCEPT ![o] = q]
    BY <1>2
  <2>. HIDE DEF q
  <2>3. Busy(q) => Busy(r)
    BY <2>1 DEF Busy
  <2>4. r.host = "parts" => r.sqlite = "none" /\ r.blobs = "none"
    BY <1>1 DEF Local, ClosingSound
  <2>5. claim' = claim \/ (claim' = claim \ {o} /\ ~Busy(q))
    BY <1>2, <2>1, <2>4 DEF Busy
  <2>6. Shared(q, header, serverGen, saved)
    <3>1. CacheIs(q, header)
      BY <2>1 DEF CacheIs, Acquiring
    <3>2. q.retired => header = 0
      BY <1>1, <2>1, EndedIsStill DEF Shared, CacheIs
    <3>. QED
      BY <1>1, <2>1, <3>1, <3>2 DEF Shared, GenerationPast, AcceptedKept
  <2>7. faults' \in 0..MaxFaults /\ q.acq # "installing"
    BY <1>2, <2>1, Facts DEF Acquiring, Fault
  <2>. QED
    BY <1>1, <2>1, <2>2, <2>3, <2>5, <2>6, <2>7, QuietKeeps
<1>3. CASE r.acq = "held" /\ Fault /\ s' = [s EXCEPT ![o] = DisposeFailed(r)] /\ claim' = claim
  <2>1. \E q \in Opener : s' = [s EXCEPT ![o] = q] /\ Local(kind, q) /\ Same(r, q)
    BY <1>1, <1>3, DisposeFails
  <2>. QED
    BY <1>1, <1>3, <2>1, SameKeeps
<1>4. CASE /\ s' = [s EXCEPT ![o].docClosing = "done", ![o].fenced = TRUE,
                              ![o].acq = IF @ = "held" THEN "disposed" ELSE @]
           /\ claim' = IF r.host = "parts" /\ r.acq # "threw" THEN claim \ {o} ELSE claim
           /\ UNCHANGED faults
  <2>1. s' = [s EXCEPT ![o] = Disposed(r, "done")]
    BY <1>4 DEF Disposed
  <2>. QED
    BY <1>2, <1>4, <2>1
<1>5. CASE /\ r.acq = "held" /\ Fault /\ UNCHANGED claim
           /\ \E left \in {"held", "disposed"} :
                s' = [s EXCEPT ![o].docClosing = "failed", ![o].fenced = TRUE, ![o].acq = left]
  <2>1. PICK left \in {"held", "disposed"} :
          s' = [s EXCEPT ![o].docClosing = "failed", ![o].fenced = TRUE, ![o].acq = left]
    BY <1>5
  <2>2. CASE left = "held"
    <3>1. s' = [s EXCEPT ![o] = [r EXCEPT !.docClosing = "failed", !.fenced = TRUE, !.acq = "held"]]
      BY <2>1, <2>2
    <3>2. [r EXCEPT !.docClosing = "failed", !.fenced = TRUE, !.acq = "held"] = DisposeFailed(r)
      BY <1>1, <1>5 DEF DisposeFailed, Opener
    <3>. QED
      BY <1>3, <1>5, <3>1, <3>2
  <2>3. CASE left = "disposed"
    <3>1. s' = [s EXCEPT ![o] = Disposed(r, "failed")]
      BY <1>5, <2>1, <2>3 DEF Disposed
    <3>. QED
      BY <1>2, <1>5, <3>1
  <2>. QED
    BY <2>1, <2>2, <2>3
<1>. QED
  BY <1>4, <1>5 DEF Dispose

\* openStore()'s close moves on; it ends once blobs and SQL have settled.
LEMMA ClosingSets ==
    ASSUME NEW k, NEW r \in Opener, Local(k, r), NEW v, NEW q, q = SetClosing(r, v),
           \/ r.closing = "document" /\ v = "blobs"
           \/ r.closing = "blobs" /\ Settled(r.blobs) /\ v = "sqlite"
           \/ r.closing = "sqlite" /\ v \in {"done", "failed"}
    PROVE  q \in Opener /\ Local(k, q) /\ Same(r, q)
<1>. USE DEF SetClosing
<1>1. v \in CloseStage /\ v # "none" /\ r.closing # "none"
  BY Words
<1>2. q \in Opener
  BY <1>1 DEF Opener
<1>3. TxnsInOrder(q) /\ RetiredSound(k, q) /\ DrainsWhatIsQueued(q)
  BY <1>1 DEF Opener, Local, TxnsInOrder, Committing, RetiredSound, DrainsWhatIsQueued
<1>4. r.acq # "none"
  <2>. SUFFICES ASSUME r.acq = "none" PROVE FALSE
    OBVIOUS
  <2>1. r = [Absent(r.host) EXCEPT !.outcome = r.outcome]
    BY DEF Local, ReadyNeeded
  <2>2. r.closing = "none"
    BY <2>1 DEF Absent
  <2>. QED
    BY <1>1, <2>2
<1>5. ReadyNeeded(k, q)
  BY <1>4 DEF Opener, Local, ReadyNeeded
<1>6. ClosingSound(q)
  <2>1. /\ q.docClosing = r.docClosing /\ q.acq = r.acq /\ q.ready = r.ready /\ q.host = r.host
        /\ q.closing = v /\ q.sqlite = r.sqlite /\ q.blobs = r.blobs
        /\ q.invalidation = r.invalidation /\ q.persistenceClosed = r.persistenceClosed
        /\ q.running = r.running
    BY DEF Opener
  <2>2. q.disposed = r.disposed /\ q.syncStopped = r.syncStopped /\ q.retired = r.retired
    BY DEF Opener
  <2>3. ClosingSound(r)
    BY DEF Local
  <2>. QED
    BY <1>1, <2>1, <2>2, <2>3 DEF ClosingSound
<1>7. Busy(q) => Busy(r)
  BY DEF Opener, Busy
<1>8. Same(r, q)
  BY <1>7 DEF Opener, Same, InFlight, Committing
<1>. QED
  BY <1>2, <1>3, <1>5, <1>6, <1>8 DEF Local

\* A clean close leaves nothing open, so the claim can go.
LEMMA CleanIsIdle ==
    ASSUME NEW k, NEW r \in Opener, Local(k, r), r.closing = "sqlite", Settled(r.sqlite), Clean(r)
    PROVE  ~Busy(r)
<1>1. r.docClosing \in Ended
  BY DEF Clean, Ended
<1>2. r.txns = <<>> /\ r.acq \notin Acquiring
  BY <1>1, EndedIsStill
<1>3. r.acq # "held" /\ Settled(r.blobs)
  BY DEF Local, ClosingSound, Clean
<1>. QED
  BY <1>2, <1>3 DEF Busy, Settled, Clean

LEMMA CloseStepKeeps == ASSUME IInv, NEW o \in Openers, CloseStep(o) PROVE IInv'
<1>. DEFINE r == s[o]
<1>1. /\ r \in Opener /\ Local(kind, r)
      /\ kind' = kind /\ header' = header /\ rows' = rows /\ saved' = saved
      /\ serverGen' = serverGen /\ nextEdit' \in 1..(MaxEdits + 1) /\ faults' = faults
  BY Facts DEF CloseStep, durable
<1>2. \A v : [s EXCEPT ![o].closing = v] = [s EXCEPT ![o] = SetClosing(r, v)]
  BY DEF SetClosing
<1>3. PICK v : /\ s' = [s EXCEPT ![o] = SetClosing(r, v)]
               /\ \/ r.closing = "document" /\ v = "blobs"
                  \/ r.closing = "blobs" /\ Settled(r.blobs) /\ v = "sqlite"
                  \/ r.closing = "sqlite" /\ v \in {"done", "failed"}
               /\ \/ claim' = claim
                  \/ /\ claim' = claim \ {o}
                     /\ r.closing = "sqlite" /\ Settled(r.sqlite) /\ Clean(r)
  BY <1>2 DEF CloseStep
<1>. DEFINE q == SetClosing(r, v)
<1>4. q \in Opener /\ Local(kind, q) /\ Same(r, q)
  BY <1>1, <1>3, ClosingSets
<1>5. claim' = claim \/ (claim' = claim \ {o} /\ ~Busy(q))
  BY <1>1, <1>3, <1>4, CleanIsIdle DEF Same
<1>6. s' = [s EXCEPT ![o] = q]
  BY <1>3
<1>. HIDE DEF q
<1>. QED
  BY <1>1, <1>4, <1>5, <1>6, SameKeeps

Away(h, w) == [Absent(h) EXCEPT !.outcome = w]

\* An opener that has not started, or whose page has gone, has nothing in memory.
LEMMA AwayIsNothing ==
    ASSUME NEW k, NEW h \in Hosts, NEW w \in {"none", "gone"}, NEW q, q = Away(h, w),
           NEW hd, NEW g, NEW d
    PROVE  /\ q \in Opener /\ Local(k, q) /\ Shared(q, hd, g, d) /\ ~Busy(q)
           /\ q.retired = FALSE /\ q.acq = "none"
<1>1. /\ q.host = h /\ q.outcome = w /\ q.acq = "none" /\ q.gen = 0 /\ q.ready = "pending"
      /\ q.connection = "none" /\ q.queue = {} /\ q.running = "idle" /\ q.txns = <<>>
      /\ q.invalidation = "none" /\ q.persistenceClosed = "none" /\ q.docClosing = "none"
      /\ q.sqlite = "none" /\ q.blobs = "none" /\ q.closing = "none" /\ q.accepted = {}
  BY DEF Away, Absent
<1>2. /\ q.disposed = FALSE /\ q.retired = FALSE /\ q.syncStopped = FALSE /\ q.requested = FALSE
      /\ q.discarded = FALSE /\ q.fenced = FALSE /\ q.refused = FALSE
  BY DEF Away, Absent
<1>3. q \in Opener
  <2>1. /\ w \in Outcome /\ "none" \in Acquisition /\ 0 \in 0..MaxGeneration
        /\ "pending" \in Readiness /\ "none" \in Connection /\ "idle" \in DrainState
        /\ "none" \in Invalidation /\ "none" \in FlushState /\ "none" \in DocumentStage
        /\ "none" \in Resource /\ "none" \in CloseStage
    BY LifetimeAssumption DEF Outcome, Acquisition, Readiness, Connection, DrainState, Invalidation,
         FlushState, DocumentStage, Resource, CloseStage
  <2>2. <<>> \in Seq(Txn) /\ {} \in SUBSET Edits
    OBVIOUS
  <2>. QED
    BY <2>1, <2>2 DEF Away, Absent, Opener
<1>4. TxnsInOrder(q)
  BY <1>1 DEF TxnsInOrder, Committing
<1>5. ReadyNeeded(k, q)
  <2>1. q = [Absent(q.host) EXCEPT !.outcome = q.outcome]
    BY <1>1 DEF Away
  <2>. QED
    BY <1>1, <1>2, <2>1 DEF ReadyNeeded, Acquiring
<1>6. RetiredSound(k, q)
  BY <1>1, <1>2 DEF RetiredSound
<1>7. ClosingSound(q)
  BY <1>1, <1>2 DEF ClosingSound, Ended, Acquiring
<1>8. DrainsWhatIsQueued(q)
  BY <1>1 DEF DrainsWhatIsQueued
<1>9. Shared(q, hd, g, d)
  BY <1>1, <1>2 DEF Shared, CacheIs, GenerationPast, AcceptedKept
<1>10. ~Busy(q)
  BY <1>1 DEF Busy, Acquiring
<1>. QED
  BY <1>1, <1>2, <1>3, <1>4, <1>5, <1>6, <1>7, <1>8, <1>9, <1>10 DEF Local

LEMMA PageGoneKeeps == ASSUME IInv, NEW o \in Openers, PageGone(o) PROVE IInv'
<1>. DEFINE r == s[o]
            q == Away(r.host, "gone")
<1>1. /\ r \in Opener /\ Local(kind, r) /\ Shared(r, header, serverGen, saved) /\ r.host \in Hosts
      /\ kind' = kind /\ serverGen' = serverGen /\ nextEdit' \in 1..(MaxEdits + 1)
      /\ faults' \in 0..MaxFaults /\ header \in 0..MaxGeneration /\ claim' = claim \ {o}
      /\ r.gen \in 0..MaxGeneration
  BY Facts DEF PageGone, Opener
<1>2. rows \subseteq Generations \X Edits /\ saved \subseteq Edits /\ RowsOfHeader
  BY DEF IInv, Exclusive, TypeOK
<1>3. s' = [s EXCEPT ![o] = q] /\ q = Away(r.host, "gone")
  BY DEF PageGone, Away
<1>. HIDE DEF q
<1>4. /\ q \in Opener /\ Local(kind, q) /\ Shared(q, header', serverGen, saved') /\ ~Busy(q)
      /\ q.retired = FALSE /\ q.acq = "none"
  BY <1>1, <1>3, AwayIsNothing
<1>5. SUFFICES /\ header' \in 0..MaxGeneration /\ rows' \subseteq Generations \X Edits /\ RowsOfHeader'
               /\ saved' \subseteq Edits /\ saved \subseteq saved'
               /\ header' = header \/ Busy(r)
               /\ header' \in {header, 0} \/ \A p \in Openers : s[p].retired => header' > s[p].gen
  BY <1>1, <1>3, <1>4, StepKeeps
<1>6. CASE UNCHANGED durable
  BY <1>1, <1>2, <1>6 DEF durable, RowsOfHeader
<1>7. CASE r.acq = "installing" /\ header' = r.gen /\ rows' = {} /\ UNCHANGED saved
  <2>1. Busy(r)
    BY <1>7 DEF Busy, Acquiring
  <2>2. \A p \in Openers : s[p].retired => header' > s[p].gen
    BY <1>7 DEF IInv, InstallsNewer, Exclusive, TypeOK, Opener
  <2>. QED
    BY <1>1, <1>2, <1>7, <2>1, <2>2 DEF RowsOfHeader
<1>8. CASE r.txns # <<>> /\ header' = HeaderDiscarded /\ rows' = {}
             /\ saved' = SavedAfter(Head(r.txns))
  <2>1. Busy(r)
    BY <1>8 DEF Busy
  <2>2. saved' \subseteq Edits /\ saved \subseteq saved'
    BY <1>1, <1>2, <1>8, FirstTxn DEF SavedAfter
  <2>. QED
    BY <1>1, <1>8, <2>1, <2>2, LifetimeAssumption DEF HeaderDiscarded, RowsOfHeader
<1>9. CASE /\ r.txns # <<>>
           /\ header' = HeaderAfter(Head(r.txns))
           /\ rows' = RowsAfter(r, Head(r.txns))
           /\ saved' = SavedAfter(Head(r.txns))
  <2>1. CASE Head(r.txns).kind = "discard"
    BY <1>8, <1>9, <2>1 DEF HeaderAfter, RowsAfter
  <2>2. CASE Head(r.txns).kind # "discard"
    <3>1. r.acq = "held" /\ r.running = "committing"
      BY <1>1, <1>9, <2>2, FirstTxn
    <3>2. Head(r.txns).edits \subseteq Edits /\ r.invalidation # "done"
      BY <1>1, <1>9, <3>1, FirstTxn
    <3>3. header = r.gen /\ r.gen # 0
      BY <1>1, <3>1, <3>2 DEF Shared, CacheIs, Local, ReadyNeeded
    <3>4. r.gen \in Generations
      BY <1>1, <3>3, LifetimeAssumption DEF Generations
    <3>5. /\ header' = header /\ rows' = rows \cup {<<r.gen, e>> : e \in Head(r.txns).edits}
          /\ saved' = saved \cup Head(r.txns).edits
      BY <1>9, <2>2 DEF HeaderAfter, RowsAfter, SavedAfter
    <3>. QED
      BY <1>1, <1>2, <3>2, <3>3, <3>4, <3>5 DEF RowsOfHeader
  <2>. QED
    BY <2>1, <2>2
<1>10. CASE /\ Len(r.txns) = 2 /\ header' = HeaderDiscarded /\ rows' = {}
            /\ saved' = SavedAfter(Head(r.txns))
  <2>1. r.txns # <<>>
    BY <1>10
  <2>. QED
    BY <1>8, <1>10, <2>1
<1>. QED
  BY <1>6, <1>7, <1>9, <1>10 DEF PageGone

\* The authority's generation only grows.
LEMMA ActivateKeeps == ASSUME IInv, Activate PROVE IInv'
<1>1. UNCHANGED <<kind, s, claim, header, rows, saved, nextEdit, faults>> /\ serverGen' = serverGen + 1
  BY DEF Activate, durable
<1>2. serverGen \in Generations /\ serverGen' \in Generations
  BY LifetimeAssumption DEF IInv, Exclusive, TypeOK, Activate, Generations
<1>3. Exclusive'
  BY <1>1, <1>2 DEF IInv, Exclusive, TypeOK
<1>4. \A o \in Openers : Local(kind', s'[o])
  BY <1>1 DEF IInv
<1>5. \A o \in Openers : Shared(s'[o], header', serverGen', saved')
  <2>. SUFFICES ASSUME NEW o \in Openers PROVE Shared(s[o], header, serverGen + 1, saved)
    BY <1>1
  <2>1. Shared(s[o], header, serverGen, saved) /\ s[o] \in Opener
    BY Facts
  <2>2. s[o].gen \in Int /\ serverGen \in Int
    BY <1>2, <2>1, LifetimeAssumption DEF Opener, Generations
  <2>. QED
    BY <2>1, <2>2 DEF Shared, GenerationPast
<1>6. InstallsNewer' /\ RowsOfHeader'
  BY <1>1 DEF IInv, InstallsNewer, RowsOfHeader
<1>. QED
  BY <1>3, <1>4, <1>5, <1>6 DEF IInv

LEMMA InitHolds == ASSUME Init PROVE IInv
<1>1. \A o \in Openers : \E h \in Hosts : s[o] = Absent(h)
  BY DEF Init
<1>2. \A o \in Openers : /\ s[o] \in Opener /\ Local(kind, s[o]) /\ ~Busy(s[o])
                         /\ Shared(s[o], header, serverGen, saved) /\ s[o].retired = FALSE
  <2>1. ASSUME NEW h PROVE Absent(h) = Away(h, "none")
    <3>. DEFINE r == Absent(h)
    <3>1. r.outcome = "none" /\ DOMAIN r = DOMAIN [r EXCEPT !.outcome = "none"]
      BY DEF Absent
    <3>2. r = [i \in DOMAIN r |-> r[i]]
      BY DEF Absent
    <3>. HIDE DEF r
    <3>3. r = [r EXCEPT !.outcome = "none"]
      BY <3>1, <3>2
    <3>. QED
      BY <3>3 DEF Away, r
  <2>. TAKE o \in Openers
  <2>2. PICK h \in Hosts : s[o] = Away(h, "none")
    BY <1>1, <2>1
  <2>. DEFINE q == s[o]
  <2>3. q = Away(h, "none")
    BY <2>2
  <2>. HIDE DEF q
  <2>4. /\ q \in Opener /\ Local(kind, q) /\ Shared(q, header, serverGen, saved) /\ ~Busy(q)
        /\ q.retired = FALSE
    BY <2>3, AwayIsNothing
  <2>. QED
    BY <2>4 DEF q
<1>3. s \in [Openers -> Opener]
  <2>1. s = [o \in Openers |-> s[o]]
    BY DEF Init
  <2>. HIDE DEF Opener
  <2>. QED
    BY <1>2, <2>1
<1>4. TypeOK
  BY <1>3, LifetimeAssumption DEF Init, TypeOK, Generations, NoClaim
<1>5. Exclusive /\ InstallsNewer /\ RowsOfHeader
  BY <1>2, <1>4 DEF Exclusive, InstallsNewer, RowsOfHeader, Init
<1>. QED
  BY <1>2, <1>5 DEF IInv

LEMMA StutterKeeps == ASSUME IInv, UNCHANGED vars PROVE IInv'
<1>1. Exclusive'
  BY DEF vars, IInv, Exclusive, TypeOK
<1>2. \A o \in Openers : Local(kind', s'[o]) /\ Shared(s'[o], header', serverGen', saved')
  BY DEF vars, IInv
<1>3. InstallsNewer' /\ RowsOfHeader'
  BY DEF vars, IInv, InstallsNewer, RowsOfHeader
<1>. QED
  BY <1>1, <1>2, <1>3 DEF IInv

LEMMA ProgressKeeps == ASSUME IInv, NEW o \in Openers, Progress(o) PROVE IInv'
<1>1. CASE OpenCache(o) \/ Download(o) \/ Install(o)
  BY <1>1, OpenCacheKeeps, DownloadKeeps, InstallKeeps
<1>2. CASE AcquireSqlite(o) \/ AcquireBlobs(o) \/ ResourceCloses(o)
  BY <1>2, ResourcesKeep
<1>3. CASE Ready(o) \/ Return(o)
  BY <1>3, ReadyKeeps, ReturnKeeps
<1>4. CASE Drain(o) \/ TxnDone(o)
  BY <1>4, DrainKeeps, TxnDoneKeeps
<1>5. CASE FinalFlush(o) \/ FinalFlushEnds(o)
  BY <1>5, FlushesKeep
<1>6. CASE DocumentStep(o) \/ Dispose(o) \/ CloseStep(o)
  BY <1>6, DocumentStepKeeps, DisposeKeeps, CloseStepKeeps
<1>. QED
  BY <1>1, <1>2, <1>3, <1>4, <1>5, <1>6 DEF Progress

LEMMA NextKeeps == ASSUME IInv, [Next]_vars PROVE IInv'
<1>1. ASSUME NEW o \in Openers,
             Open(o) \/ Progress(o) \/ Edit(o) \/ EditAndClose(o) \/ Retire(o) \/ CallClose(o)
               \/ PageGone(o)
      PROVE  IInv'
  <2>1. CASE Edit(o) \/ EditAndClose(o)
    BY <2>1, EditsKeep
  <2>2. CASE Open(o) \/ Progress(o)
    BY <2>2, OpenKeeps, ProgressKeeps
  <2>3. CASE Retire(o) \/ CallClose(o) \/ PageGone(o)
    BY <2>3, RetireKeeps, CallCloseKeeps, PageGoneKeeps
  <2>. QED
    BY <1>1, <2>1, <2>2, <2>3
<1>. QED
  BY <1>1, ActivateKeeps, StutterKeeps DEF Next

-----------------------------------------------------------------------------
(* Theorems *)

\* The inductive invariant: the claim, what each opener's flags say of each
\* other, and what each may believe of the database.
THEOREM Invariance == Spec => []IInv
<1>1. Init => IInv
  BY InitHolds
<1>2. IInv /\ [Next]_vars => IInv'
  BY NextKeeps
<1>. QED
  BY <1>1, <1>2, PTL DEF Spec

\* The state has its type, and whatever has a database, a transaction, SQL or
\* blobs open, under way or in an unknown state holds the claim alone.
THEOREM ClaimOutlivesCleanup == Spec => []Exclusive
<1>1. IInv => Exclusive
  BY DEF IInv
<1>. QED
  BY <1>1, Invariance, PTL

\* A store that was retired and closed leaves nothing of its generation, and no
\* row in the cache is of another generation than the installed one.
THEOREM RetirementErases == Spec => []RetiredIsGone
<1>1. IInv => RetiredIsGone
  <2>. SUFFICES ASSUME IInv PROVE RetiredIsGone
    OBVIOUS
  <2>1. \A o \in Openers : GenerationPast(s[o], header, serverGen)
    BY DEF IInv, Shared
  <2>2. RowsOfHeader
    BY DEF IInv
  <2>. QED
    BY <2>1, <2>2 DEF GenerationPast, RowsOfHeader, RetiredIsGone
<1>. QED
  BY <1>1, Invariance, PTL

\* A store closed without retirement and without a refused commit has saved
\* everything it accepted, the edit whose transaction called close() included.
THEOREM CloseSaves == Spec => []CleanCloseSaves
<1>1. IInv => CleanCloseSaves
  <2>. SUFFICES ASSUME IInv, NEW o \in Openers,
                       s[o].docClosing = "done", ~s[o].retired, ~s[o].refused
                PROVE  s[o].accepted \subseteq saved
    BY DEF CleanCloseSaves
  <2>1. s[o] \in Opener /\ Local(kind, s[o]) /\ s[o].docClosing \in Ended
    BY Facts DEF Ended
  <2>2. s[o].running = "idle"
    BY <2>1, EndedIsStill
  <2>3. s[o].queue = {} /\ InFlight(s[o]) = {}
    BY <2>1, <2>2 DEF Local, DrainsWhatIsQueued, InFlight, Committing
  <2>4. AcceptedKept(s[o], saved)
    BY Facts DEF Shared
  <2>. QED
    BY <2>3, <2>4 DEF AcceptedKept
<1>. QED
  BY <1>1, Invariance, PTL

\* A disposed or retired store has no live connection.
THEOREM EndedIsQuiet == Spec => []QuietAfterEnd
<1>1. IInv => QuietAfterEnd
  <2>. SUFFICES ASSUME IInv, NEW o \in Openers, s[o].disposed \/ s[o].retired
                PROVE  s[o].connection # "live"
    BY DEF QuietAfterEnd
  <2>1. ReadyNeeded(kind, s[o])
    BY DEF IInv, Local
  <2>. QED
    BY <2>1 DEF ReadyNeeded
<1>. QED
  BY <1>1, Invariance, PTL
=============================================================================
