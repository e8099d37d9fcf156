---------------------------- MODULE Persistence -----------------------------
(***************************************************************************)
(* One store's persistence controller                                      *)
(* (packages/app/src/data/store/persistence.ts) over its durable engine    *)
(* (UpdateLog), driven by the live document above it and by the sync       *)
(* client beside it.                                                       *)
(*                                                                         *)
(* JavaScript runs one continuation at a time, so an action is everything  *)
(* that happens between two awaits.  A commit is one transaction: its      *)
(* operations are applied one at a time to a private copy (`txn`), other   *)
(* continuations run in between, and the copy becomes the relation only at *)
(* the end.  A crash loses everything but `rows`.                          *)
(*                                                                         *)
(* The authority's log and the connection are the environment: `server` is *)
(* the sequence of updates the authority holds, of which this replica      *)
(* reads one position after another.  The store is an account's: it starts *)
(* with the baseline its cache installed (current-cache.ts), row 1 at      *)
(* position 1.                                                             *)
(***************************************************************************)
EXTENDS UpdateLog, Sequences

CONSTANTS LocalEdits,  \* edits made on this device
          RemoteEdits, \* edits other devices put in the authority's log
          MaxCrashes,  \* bound: restarts
          MaxFailures, \* bound: refused commits
          MaxDrops     \* bound: submissions whose answer never arrives

ASSUME EditsAssumption ==
    /\ Edits = LocalEdits \union RemoteEdits
    /\ LocalEdits \intersect RemoteEdits = {}

ASSUME BoundsAssumption == {MaxCrashes, MaxFailures, MaxDrops} \subseteq Nat

None == [throughId |-> 0, bytes |-> {}, position |-> 0]

VARIABLES
    doc,       \* the live document
    rows,      \* the durable relation
    held,      \* the IndexedDB port's count of the rows, kept in memory
    queue,     \* accepted operations the engine has not confirmed
    phase,     \* of the one drain: "idle", "scheduled" or "committing"
    requested, \* a flush was asked for while the drain ran
    applied,   \* operations of the batch already applied inside the transaction
    batch,     \* operations of the batch still to apply
    txn,       \* the transaction's private relation, mirror and cursor
    outbox,    \* mirror of the owed rows
    cursor,    \* mirror of the durable cursor
    nextId, lastCoalescedId, acknowledgedThroughId,
    closed, discarded,
    clientCursor, \* sync client: how far it has read the authority's log
    inflight,     \* sync client: the one outstanding submission, or None
    server,       \* environment: the authority's log
    authored,     \* local edits made so far
    failedLast,   \* ghost: the last commit was refused
    crashes, failures, drops

controller == <<queue, phase, requested, applied, batch, txn, outbox, cursor,
                nextId, lastCoalescedId, acknowledgedThroughId, closed, discarded>>
environment == <<server, authored>>
budgets == <<crashes, failures, drops>>
vars == <<doc, rows, held, controller, clientCursor, inflight, environment, failedLast, budgets>>

\* install(): the downloaded baseline is the first row.
Baseline == [id |-> 1, bytes |-> {}, authoritySeq |-> 1]

Init ==
    /\ doc = {}
    /\ rows = {Baseline}
    /\ held = Cardinality(rows)
    /\ queue = <<>> /\ applied = <<>> /\ batch = <<>>
    /\ phase = "idle" /\ requested = FALSE
    /\ txn = [rows |-> {}, outbox |-> {}, cursor |-> 0, grew |-> FALSE, chain |-> 0]
    /\ outbox = {} /\ cursor = readCursor(rows)
    /\ nextId = readLastId(rows) + 1 /\ lastCoalescedId = 0 /\ acknowledgedThroughId = 0
    /\ closed = FALSE /\ discarded = FALSE
    /\ clientCursor = readCursor(rows) /\ inflight = None
    /\ server = <<{}>> /\ authored = {}
    /\ failedLast = FALSE
    /\ crashes = 0 /\ failures = 0 /\ drops = 0
-----------------------------------------------------------------------------
(* enqueue and flush *)

\* flush() with `work` already in the queue: one drain owns every commit.
RequestFlush ==
    IF phase # "idle"
      THEN requested' = TRUE /\ phase' = phase
      ELSE requested' = requested /\ phase' = "scheduled"

enqueue(op) ==
    IF discarded
      THEN UNCHANGED <<queue, phase, requested>>
      ELSE queue' = Append(queue, op) /\ RequestFlush

\* A local transaction: the document changes at once, the record is queued.
Edit(e) ==
    /\ ~closed
    /\ e \in LocalEdits \ authored
    /\ doc' = doc \union {e}
    /\ authored' = authored \union {e}
    /\ enqueue([kind |-> "append", id |-> nextId, bytes |-> {e}, authoritySeq |-> NULL])
    /\ nextId' = nextId + 1
    /\ UNCHANGED <<rows, held, applied, batch, txn, outbox, cursor, lastCoalescedId,
                   acknowledgedThroughId, closed, discarded, clientCursor, inflight,
                   server, failedLast, budgets>>

\* persistence.flush(), and the flush that close() runs after its caller's stack.
Flush ==
    /\ ~discarded
    /\ IF phase = "idle" THEN queue # <<>> ELSE ~requested
    /\ RequestFlush
    /\ UNCHANGED <<doc, rows, held, queue, applied, batch, txn, outbox, cursor, nextId,
                   lastCoalescedId, acknowledgedThroughId, closed, discarded,
                   clientCursor, inflight, environment, failedLast, budgets>>

\* Take the whole queue as one batch and open the transaction.
TakeBatch(ops) ==
    /\ requested' = FALSE
    /\ applied' = <<>>
    /\ batch' = ops
    /\ queue' = <<>>
    /\ phase' = "committing"

StartDrain ==
    /\ phase = "scheduled"
    /\ IF queue = <<>>   \* discarded before the microtask ran
         THEN phase' = "idle" /\ UNCHANGED <<requested, applied, batch, queue, txn>>
         ELSE /\ TakeBatch(queue)
              /\ txn' = [rows |-> rows, outbox |-> outbox, cursor |-> cursor,
                         grew |-> FALSE, chain |-> held]
    /\ UNCHANGED <<doc, rows, held, outbox, cursor, nextId, lastCoalescedId,
                   acknowledgedThroughId, closed, discarded, clientCursor, inflight,
                   environment, failedLast, budgets>>
-----------------------------------------------------------------------------
(* One commit *)

\* Mutant: the replaced entries stay in the mirror beside their merge.
mirrorOutboxKeepsReplaced(entries, op) ==
    CASE op.kind = "append" ->
           IF op.authoritySeq = NULL
             THEN entries \union {[id |-> op.id, bytes |-> op.bytes]} ELSE entries
      [] op.kind = "ack" -> {entry \in entries : entry.id > op.throughId}
      [] op.kind = "mergeOwed" -> entries \union {[id |-> op.id, bytes |-> op.bytes]}

\* succeeded(): what a confirmed operation does to the mirror.
mirrorOutbox(entries, op) ==
    CASE op.kind = "append" ->
           IF op.authoritySeq = NULL
             THEN entries \union {[id |-> op.id, bytes |-> op.bytes]} ELSE entries
      [] op.kind = "ack" -> {entry \in entries : entry.id > op.throughId}
      [] op.kind = "mergeOwed" ->
           {entry \in entries : entry.id \notin op.replaces}
             \union {[id |-> op.id, bytes |-> op.bytes]}

mirrorCursor(position, op) ==
    IF op.kind # "mergeOwed" /\ op.authoritySeq > position THEN op.authoritySeq ELSE position

\* What the IndexedDB port counts as growth of the chain.
Grew(relation, op) ==
    \/ op.kind = "append"
    \/ op.kind = "ack" /\ \E row \in OwedRows(relation) : row.id <= op.throughId

ApplyOp ==
    /\ phase = "committing"
    /\ batch # <<>>
    /\ LET op == Head(batch)
       IN  txn' = [rows   |-> applyOp(txn.rows, op),
                   outbox |-> mirrorOutbox(txn.outbox, op),
                   cursor |-> mirrorCursor(txn.cursor, op),
                   grew   |-> txn.grew \/ Grew(txn.rows, op),
                   chain  |-> Counted(txn.chain, op)]
    /\ applied' = Append(applied, Head(batch))
    /\ batch' = Tail(batch)
    /\ UNCHANGED <<doc, rows, held, queue, phase, requested, outbox, cursor, nextId,
                   lastCoalescedId, acknowledgedThroughId, closed, discarded,
                   clientCursor, inflight, environment, failedLast, budgets>>

\* The owed rows no submission of this session has carried.
Mergeable(entries) ==
    {entry \in entries : entry.id > lastCoalescedId /\ entry.id > acknowledgedThroughId}

\* merge(): Y.mergeUpdatesV2 of the entries.
merge(entries) == UNION {entry.bytes : entry \in entries}

\* maintain(): with nothing queued and enough owed rows, queue their merge.  The
\* merged row takes a fresh id, above every id an acknowledgement can name.
MaintainOps(entries) ==
    LET owed == Mergeable(entries)
        replaces == {entry.id : entry \in owed}
    IN  IF queue = <<>> /\ Cardinality(owed) >= SNAPSHOT_FOLD_THRESHOLD
          THEN <<[kind |-> "mergeOwed", id |-> nextId,
                  replaces |-> replaces, bytes |-> merge(owed)]>>
          ELSE <<>>

\* while (queue.length > 0): what the drain goes on with.
Remaining(entries) == queue \o MaintainOps(entries)

\* finally { running = undefined }, in the continuation of the last commit.
Release == phase' = "idle"

\* The transaction commits.  The continuation advances the mirror, maintains,
\* and goes on with whatever is queued by now or gives the drain up.
CommitBatch ==
    /\ phase = "committing"
    /\ batch = <<>>
    /\ rows' = fold(txn.rows)
    /\ held' = CountedFold(txn.rows, txn.grew, txn.chain)
    /\ failedLast' = FALSE
    /\ \/ /\ discarded
          /\ Release
          /\ applied' = <<>>
          /\ UNCHANGED <<queue, requested, batch, txn, outbox, cursor, nextId>>
       \/ LET more == Remaining(txn.outbox)
          IN  /\ ~discarded
              /\ outbox' = txn.outbox
              /\ cursor' = txn.cursor
              /\ nextId' = nextId + Len(MaintainOps(txn.outbox))
              /\ IF more = <<>>
                   THEN /\ Release
                        /\ applied' = <<>>
                        /\ UNCHANGED <<queue, requested, batch, txn>>
                   ELSE /\ TakeBatch(more)
                        /\ txn' = [rows |-> rows', outbox |-> outbox',
                                   cursor |-> cursor', grew |-> FALSE, chain |-> held']
    /\ UNCHANGED <<doc, lastCoalescedId, acknowledgedThroughId, closed, discarded,
                   clientCursor, inflight, environment, budgets>>

\* Mutant: only what arrived meanwhile survives a refused commit.
RetainedLosesBatch == queue

\* failed(): everything comes back, in order, ahead of what arrived meanwhile.
Retained == applied \o batch \o queue

\* The transaction aborts and nothing of it stays; a request made meanwhile
\* permits one retry.
FailBatch ==
    /\ phase = "committing"
    /\ failures < MaxFailures
    /\ failures' = failures + 1
    /\ \/ /\ discarded
          /\ Release
          /\ applied' = <<>> /\ batch' = <<>>
          /\ UNCHANGED <<queue, requested, txn, failedLast>>
       \/ /\ ~discarded /\ requested
          /\ TakeBatch(Retained)
          /\ txn' = [rows |-> rows, outbox |-> outbox, cursor |-> cursor,
                     grew |-> FALSE, chain |-> held]
          /\ UNCHANGED failedLast
       \/ /\ ~discarded /\ ~requested
          /\ queue' = Retained
          /\ Release
          /\ applied' = <<>> /\ batch' = <<>>
          /\ failedLast' = TRUE
          /\ UNCHANGED <<requested, txn>>
    /\ UNCHANGED <<doc, rows, held, outbox, cursor, nextId, lastCoalescedId,
                   acknowledgedThroughId, closed, discarded, clientCursor, inflight,
                   environment, crashes, drops>>
-----------------------------------------------------------------------------
(* The sync client's use of the controller, and the authority behind it *)

\* coalesce(): the owed entries this session has no acknowledgement for.
Sendable == {entry \in outbox : entry.id > acknowledgedThroughId}

\* The client's send(): one submission at a time.
Submit ==
    /\ ~closed
    /\ inflight = None
    /\ Sendable # {}
    /\ LET last == MaxOr0({entry.id : entry \in Sendable})
       IN  /\ inflight' = [throughId |-> last, bytes |-> merge(Sendable), position |-> 0]
           /\ lastCoalescedId' = IF last > lastCoalescedId THEN last ELSE lastCoalescedId
    /\ UNCHANGED <<doc, rows, held, queue, phase, requested, applied, batch, txn, outbox, cursor,
                   nextId, acknowledgedThroughId, closed, discarded, clientCursor,
                   environment, failedLast, budgets>>

\* The authority logs the submission at its next position.
AuthorityLogs ==
    /\ inflight # None
    /\ inflight.position = 0
    /\ server' = Append(server, inflight.bytes)
    /\ inflight' = [inflight EXCEPT !.position = Len(server) + 1]
    /\ UNCHANGED <<doc, rows, held, controller, clientCursor, authored, failedLast, budgets>>

\* Another device's edit reaches the authority.
RemoteWrite(e) ==
    /\ e \in RemoteEdits
    /\ \A i \in 1..Len(server) : e \notin server[i]
    /\ server' = Append(server, {e})
    /\ UNCHANGED <<doc, rows, held, controller, clientCursor, inflight, authored, failedLast,
                   budgets>>

\* applyRemote: live at once; bytes and position are one queued row.
ReceiveEntry ==
    LET seq == clientCursor + 1
    IN  /\ ~closed
        /\ seq <= Len(server)
        /\ inflight.position # seq
        /\ doc' = doc \union server[seq]
        /\ clientCursor' = seq
        /\ enqueue([kind |-> "append", id |-> nextId, bytes |-> server[seq],
                    authoritySeq |-> seq])
        /\ nextId' = nextId + 1
        /\ UNCHANGED <<rows, held, applied, batch, txn, outbox, cursor, lastCoalescedId,
                       acknowledgedThroughId, closed, discarded, inflight, environment,
                       failedLast, budgets>>

\* The check that makes the elided payload sound.
AnswersNext == inflight.position = clientCursor + 1

\* An ack is an entry with its payload elided: it names the next position.
ReceiveAck ==
    /\ ~closed
    /\ inflight # None
    /\ AnswersNext
    /\ clientCursor' = inflight.position
    /\ acknowledgedThroughId' =
         IF inflight.throughId > acknowledgedThroughId
           THEN inflight.throughId ELSE acknowledgedThroughId
    /\ enqueue([kind |-> "ack", throughId |-> inflight.throughId,
                authoritySeq |-> inflight.position])
    /\ inflight' = None
    /\ UNCHANGED <<doc, rows, held, applied, batch, txn, outbox, cursor, nextId, lastCoalescedId,
                   closed, discarded, environment, failedLast, budgets>>

\* A refusal or a dead socket: the submission is owed again, logged or not.
LoseAnswer ==
    /\ inflight # None
    /\ drops < MaxDrops
    /\ drops' = drops + 1
    /\ inflight' = None
    /\ UNCHANGED <<doc, rows, held, controller, clientCursor, environment, failedLast,
                   crashes, failures>>
-----------------------------------------------------------------------------
(* The end of a session *)

\* close(): the sync client is gone; what is queued is still drained.
Close ==
    /\ ~closed
    /\ closed' = TRUE
    /\ inflight' = None
    /\ IF phase # "idle" \/ queue # <<>> THEN RequestFlush ELSE UNCHANGED <<phase, requested>>
    /\ UNCHANGED <<doc, rows, held, queue, applied, batch, txn, outbox, cursor, nextId,
                   lastCoalescedId, acknowledgedThroughId, discarded, clientCursor,
                   environment, failedLast, budgets>>

\* discard(): the retired queue ends without being submitted or retried.
Discard ==
    /\ ~discarded
    /\ discarded' = TRUE
    /\ closed' = TRUE
    /\ inflight' = None
    /\ queue' = <<>>
    /\ outbox' = {}
    /\ requested' = FALSE
    /\ UNCHANGED <<doc, rows, held, phase, applied, batch, txn, cursor, nextId, lastCoalescedId,
                   acknowledgedThroughId, clientCursor, environment, failedLast, budgets>>

\* The process ends; the next one loads the durable snapshot and starts over.
Crash ==
    /\ crashes < MaxCrashes
    /\ crashes' = crashes + 1
    /\ doc' = Content(rows)
    /\ queue' = <<>> /\ applied' = <<>> /\ batch' = <<>>
    /\ phase' = "idle" /\ requested' = FALSE
    /\ txn' = [rows |-> {}, outbox |-> {}, cursor |-> 0, grew |-> FALSE, chain |-> 0]
    /\ outbox' = readOutbox(rows)
    /\ cursor' = readCursor(rows)
    /\ nextId' = readLastId(rows) + 1
    /\ lastCoalescedId' = 0 /\ acknowledgedThroughId' = 0
    /\ closed' = FALSE /\ discarded' = FALSE
    /\ clientCursor' = readCursor(rows)
    /\ inflight' = None
    /\ failedLast' = FALSE
    /\ held' = Cardinality(rows)
    /\ UNCHANGED <<rows, environment, failures, drops>>

Next ==
    \/ \E e \in LocalEdits : Edit(e)
    \/ Flush
    \/ StartDrain
    \/ ApplyOp
    \/ CommitBatch
    \/ FailBatch
    \/ Submit
    \/ AuthorityLogs
    \/ \E e \in RemoteEdits : RemoteWrite(e)
    \/ ReceiveEntry
    \/ ReceiveAck
    \/ LoseAnswer
    \/ Close
    \/ Discard
    \/ Crash

Spec == Init /\ [][Next]_vars
-----------------------------------------------------------------------------
TypeOK ==
    /\ doc \in Update
    /\ rows \subseteq Row
    /\ held \in Int
    /\ queue \in Seq(DurableOp) /\ applied \in Seq(DurableOp) /\ batch \in Seq(DurableOp)
    /\ phase \in {"idle", "scheduled", "committing"}
    /\ requested \in BOOLEAN
    /\ txn \in [rows : SUBSET Row, outbox : SUBSET OutboxEntry, cursor : Nat, grew : BOOLEAN,
               chain : Int]
    /\ outbox \subseteq OutboxEntry
    /\ cursor \in Nat
    /\ nextId \in Nat \ {0} /\ lastCoalescedId \in Nat /\ acknowledgedThroughId \in Nat
    /\ closed \in BOOLEAN /\ discarded \in BOOLEAN
    /\ clientCursor \in Nat
    /\ inflight \in [throughId : Nat, bytes : Update, position : Nat]
    /\ server \in Seq(Update)
    /\ authored \subseteq LocalEdits
    /\ failedLast \in BOOLEAN
    /\ crashes \in 0..MaxCrashes /\ failures \in 0..MaxFailures /\ drops \in 0..MaxDrops

Logged == UNION {server[i] : i \in 1..Len(server)}

\* The sender's mirror is the durable truth: what coalesce() reads is exactly
\* the owed rows of the file, whatever merged, folded or failed in between.
MirrorFaithful == ~discarded => outbox = readOutbox(rows)

\* Only durable work is offered: the bytes of a submission are all in the file,
\* so a crash cannot make this device forget what it already sent.
OnlyDurableOffered == inflight.bytes \subseteq Content(rows)

\* What the sender sees and sends is what the file holds, while edits, acks,
\* merges, discard and close run beside a commit.
MirrorSound == TypeOK /\ MirrorFaithful /\ OnlyDurableOffered

\* A row stops being owed only when the authority holds its bytes: no merge,
\* fold, acknowledgement or retry marks unsent work as sent.
NothingUnsentRetired ==
    \A row \in rows : row.authoritySeq # NULL => row.bytes \subseteq Logged

\* The durable cursor never outruns the bytes it accounts for: after any crash
\* the replica asks from a position whose prefix it really holds.
DurableCursorCovered ==
    \A i \in 1..Len(server) : i <= readCursor(rows) => server[i] \subseteq Content(rows)

\* The file claims no more than the authority has: neither a row marked as sent
\* nor a position whose bytes are missing, through crashes and lost answers.
AcksHonest == NothingUnsentRetired /\ DurableCursorCovered

\* Status 'saved' means that a restart loses nothing the user sees.
SavedMeansDurable ==
    phase = "idle" /\ queue = <<>> /\ ~discarded => doc = Content(rows)

\* No edit is stranded: work waits without a drain only after a refused commit.
BlockedOnlyAfterFailure ==
    phase = "idle" /\ queue # <<>> => failedLast

\* A controller at rest has saved everything, or was refused and says so.
NothingStranded == SavedMeansDurable /\ BlockedOnlyAfterFailure

\* The count the IndexedDB port keeps in memory is the number of rows in the file
\* and, inside a transaction, in the relation it has written so far: through
\* appends, merges, folds, refused batches and restarts it neither drifts up nor down.
CountIsExact ==
    /\ held = Cardinality(rows)
    /\ phase = "committing" => txn.chain = Cardinality(txn.rows)

\* The two ports fold at the same moments although they gate the fold on
\* different quantities, one of them a count that is never read back.
PortsFoldAlike ==
    /\ CountIsExact
    /\ phase = "committing" /\ batch = <<>> =>
         (FoldDue(txn.rows) <=> IdbFoldDue(txn.rows, txn.grew, txn.chain))

\* What is durable stays durable, and an id is never handed out below one the
\* file has used: folds and merges move bytes between rows and lose none.
DurableNeverShrinks ==
    [][Content(rows) \subseteq Content(rows') /\ readLastId(rows) <= readLastId(rows')]_vars
=============================================================================
