----------------------------- MODULE StoreSync ------------------------------
(***************************************************************************)
(* One generation of one account store, replicated: the sync clients       *)
(* (packages/app/src/data/sync/client.ts) of several devices, the hub      *)
(* (hub.ts) that relays between their sockets, the authority's log under   *)
(* it (AuthorityLog), and the Durable Object that holds the sockets        *)
(* (packages/server/src/store-sync/authority.ts).                          *)
(*                                                                         *)
(* A document is the set of edits it holds, the ones Yjs has buffered for  *)
(* a missing dependency included.  Edits are numbered in the order they    *)
(* are made, and an owed row has the number of its edit as its id.  The    *)
(* controller below the client is what Persistence shows it to be: a queue *)
(* that becomes durable in order.  It is committed one operation at a time *)
(* here, which allows a crash at more points than a batch does.            *)
(*                                                                         *)
(* The generation exists: ensureCurrent wrote its empty baseline at        *)
(* position 1.  A device first installs what the authority has (browser.ts *)
(* and current-cache.ts) and only then is a replica.                       *)
(*                                                                         *)
(* A frame is whole: ChunkCollector has the chunks.  A connection carries  *)
(* at most one unanswered push, so submission numbers are left out.        *)
(***************************************************************************)
EXTENDS AuthorityLog, Integers, Sequences

CONSTANTS Replicas,
          MaxEdits,      \* bound: edits made by all replicas together
          MaxLog,        \* bound: entries ever logged
          Failures,      \* the kinds of failure that may happen
          MaxFailures    \* bound: how many do

ASSUME StoreSyncAssumption ==
    /\ Edits = 1..MaxEdits /\ MaxEdits \in Nat /\ MaxLog \in Nat
    /\ Failures \subseteq {"crash", "drop", "wake", "storage", "unapplyable"}
    /\ MaxFailures \in Nat

VARIABLES
    log, snaps,  \* the authority's relations
    history,     \* ghost: history[i] is what was logged at position i
    deps,        \* ghost: deps[e] is what its author saw when it made edit e
    live,        \* the document in memory
    queue,       \* operations its storage has not confirmed
    saved, owed, durableCursor, \* what its storage has confirmed
    written,     \* ghost: its own edits that its storage ever confirmed
    cursor,      \* the client's position in the log
    acknowledgedThroughId,
    outstanding, \* the last row id of the unanswered submission, or 0
    idle,        \* the nudge timer runs
    conn,        \* the socket: "down", "dialled" or "attached"
    c2s, s2c,    \* frames on the socket, each direction in order
    hubCursor,   \* the hub's record of what it sent this socket
    attachment,  \* that record as the hibernated socket keeps it
    late,        \* what an abandoned socket still brings to the hub
    lastError,   \* the client's last error
    refuses,     \* edits its Yjs turned out to be unable to apply
    failures     \* how many failures happened

replica == <<live, queue, saved, owed, durableCursor, written>>
client == <<cursor, acknowledgedThroughId, outstanding, idle, lastError>>
socket == <<conn, c2s, s2c, hubCursor, attachment, late>>
authority == <<log, snaps, history>>
outside == <<refuses, failures>>
vars == <<authority, deps, replica, client, socket, outside>>

Authored == DOMAIN deps

Init ==
    /\ log = {} /\ snaps = {[position |-> 1, bytes |-> {}]} /\ history = <<{}>>
    /\ deps = <<>>
    /\ live = [r \in Replicas |-> {}]
    /\ queue = [r \in Replicas |-> <<>>]
    /\ saved = [r \in Replicas |-> {}]
    /\ owed = [r \in Replicas |-> {}]
    /\ written = [r \in Replicas |-> {}]
    /\ durableCursor = [r \in Replicas |-> 0]
    /\ cursor = [r \in Replicas |-> 0]
    /\ acknowledgedThroughId = [r \in Replicas |-> 0]
    /\ outstanding = [r \in Replicas |-> 0]
    /\ idle = [r \in Replicas |-> FALSE]
    /\ conn = [r \in Replicas |-> "down"]
    /\ c2s = [r \in Replicas |-> <<>>]
    /\ s2c = [r \in Replicas |-> <<>>]
    /\ hubCursor = [r \in Replicas |-> 0]
    /\ attachment = [r \in Replicas |-> 0]
    /\ late = [r \in Replicas |-> [frames |-> <<>>, cursor |-> 0]]
    /\ lastError = [r \in Replicas |-> "none"]
    /\ refuses = [r \in Replicas |-> {}]
    /\ failures = 0

Fail(kind) ==
    /\ kind \in Failures
    /\ failures < MaxFailures
    /\ failures' = failures + 1
-----------------------------------------------------------------------------
(* Frames *)

Admitted == [kind |-> "admitted"]
Refuse == [kind |-> "refuse"]
AckFrame(seq) == [kind |-> "ack", seq |-> seq]
Wanted(position) == [kind |-> "wanted", position |-> position]
EntryFrame(row) == [kind |-> "entry", seq |-> row.seq, bytes |-> row.bytes]
SnapshotFrame(row) == [kind |-> "snapshot", position |-> row.position, bytes |-> row.bytes]
Push(bytes) == [kind |-> "push", bytes |-> bytes]
Offer(position, bytes) == [kind |-> "offer", position |-> position, bytes |-> bytes]
-----------------------------------------------------------------------------
(* The replica's store *)

Installed(r) == cursor[r] > 0

\* hasUnresolvedDependencies(): Yjs holds an update whose past never arrived.
Unresolved(document) == \E e \in document : ~(deps[e] \subseteq document)

\* The captured head of the log: its newest snapshot and the tail after it.
Download == snapshot(snaps).bytes
            \union UNION {row.bytes : row \in since(log, snapshotPosition(snaps))}

\* acquireStoreData() with an empty cache: the download is applied to a fresh
\* document and becomes the first durable row, at the head's position.
Install(r) ==
    /\ ~Installed(r)
    /\ ~Unresolved(Download)
    /\ live' = [live EXCEPT ![r] = Download]
    /\ saved' = [saved EXCEPT ![r] = Download]
    /\ durableCursor' = [durableCursor EXCEPT ![r] = head(log, snaps)]
    /\ cursor' = [cursor EXCEPT ![r] = head(log, snaps)]
    /\ UNCHANGED <<authority, deps, queue, owed, written, acknowledgedThroughId, outstanding, idle,
                   lastError, socket, outside>>

\* A local transaction.
Edit(r) ==
    LET e == Len(deps) + 1
    IN  /\ Installed(r)
        /\ e <= MaxEdits
        /\ deps' = Append(deps, live[r])
        /\ live' = [live EXCEPT ![r] = @ \union {e}]
        /\ queue' = [queue EXCEPT ![r] = Append(@, [kind |-> "append", bytes |-> {e}, seq |-> 0])]
        /\ UNCHANGED <<authority, saved, owed, durableCursor, written, client, socket, outside>>

\* Mutant: an acknowledgement that also covers rows written after its submission.
StillOwedNone(rows, throughId) == {}

\* UPDATE ... WHERE id <= throughId.
StillOwed(rows, throughId) == {e \in rows : e > throughId}

\* An operation becomes durable.  A new owed row wakes the transport.
Commit(r) ==
    /\ queue[r] # <<>>
    /\ queue' = [queue EXCEPT ![r] = Tail(@)]
    /\ LET op == Head(queue[r])
       IN  \/ /\ op.kind = "append" /\ op.seq = 0
              /\ saved' = [saved EXCEPT ![r] = @ \union op.bytes]
              /\ owed' = [owed EXCEPT ![r] = @ \union op.bytes]
              /\ written' = [written EXCEPT ![r] = @ \union op.bytes]
              /\ idle' = [idle EXCEPT ![r] = TRUE]
              /\ UNCHANGED durableCursor
           \/ /\ op.kind = "append" /\ op.seq > 0
              /\ saved' = [saved EXCEPT ![r] = @ \union op.bytes]
              /\ durableCursor' = [durableCursor EXCEPT ![r] = MaxOr0({@, op.seq})]
              /\ UNCHANGED <<owed, written, idle>>
           \/ /\ op.kind = "ack"
              /\ owed' = [owed EXCEPT ![r] = StillOwed(@, op.throughId)]
              /\ durableCursor' = [durableCursor EXCEPT ![r] = MaxOr0({@, op.seq})]
              /\ UNCHANGED <<saved, written, idle>>
    /\ UNCHANGED <<authority, deps, live, cursor, acknowledgedThroughId, outstanding,
                   lastError, socket, outside>>
-----------------------------------------------------------------------------
(* The client *)

\* Mutant: only the newest of the owed rows.
CoalescedLast(r, floor) ==
    {e \in owed[r] : e > floor /\ \A other \in owed[r] : other <= e}

\* coalesce(): what is owed and not yet acknowledged in this session.
Coalesced(r, floor) == {e \in owed[r] : e > floor}

\* send(): at most one submission is out.
send(r, free, floor, frames) ==
    LET rows == Coalesced(r, floor)
    IN  IF free /\ rows # {}
          THEN /\ outstanding' = [outstanding EXCEPT ![r] = MaxOr0(rows)]
               /\ c2s' = [c2s EXCEPT ![r] = frames \o <<Push(rows)>>]
          ELSE /\ outstanding' = [outstanding EXCEPT ![r] = IF free THEN 0 ELSE @]
               /\ c2s' = [c2s EXCEPT ![r] = frames]

\* The nudge timer fires.
IdleFires(r) ==
    /\ idle[r]
    /\ idle' = [idle EXCEPT ![r] = FALSE]
    /\ IF conn[r] = "attached"
         THEN send(r, outstanding[r] = 0, acknowledgedThroughId[r], c2s[r])
         ELSE UNCHANGED <<outstanding, c2s>>
    /\ UNCHANGED <<authority, deps, replica, cursor, acknowledgedThroughId, lastError,
                   conn, s2c, hubCursor, attachment, late, outside>>

\* flush() without a nudge pending: it finds work after a refusal.
Flush(r) ==
    /\ ~idle[r]
    /\ conn[r] = "attached"
    /\ outstanding[r] = 0 /\ Coalesced(r, acknowledgedThroughId[r]) # {}
    /\ send(r, TRUE, acknowledgedThroughId[r], c2s[r])
    /\ UNCHANGED <<authority, deps, replica, cursor, acknowledgedThroughId, idle, lastError,
                   conn, s2c, hubCursor, attachment, late, outside>>

\* The socket is let go: detach(), and what is on the wire may still arrive.
Abandon(r) ==
    /\ conn' = [conn EXCEPT ![r] = "down"]
    /\ late' = IF c2s[r] = <<>> THEN late
               ELSE [late EXCEPT ![r] = [frames |-> c2s[r], cursor |-> hubCursor[r]]]
    /\ c2s' = [c2s EXCEPT ![r] = <<>>]
    /\ s2c' = [s2c EXCEPT ![r] = <<>>]
    /\ outstanding' = [outstanding EXCEPT ![r] = 0]
    /\ idle' = [idle EXCEPT ![r] = FALSE]
    /\ hubCursor' = [hubCursor EXCEPT ![r] = 0]
    /\ attachment' = [attachment EXCEPT ![r] = 0]

Consume(r) == s2c' = [s2c EXCEPT ![r] = Tail(@)]

Arrived(r, kind) ==
    /\ conn[r] # "down"
    /\ s2c[r] # <<>>
    /\ Head(s2c[r]).kind = kind

\* admitted: attach() sends at once.  A woken hub repeats it.
ReceiveAdmitted(r) ==
    /\ Arrived(r, "admitted")
    /\ Consume(r)
    /\ IF conn[r] = "dialled"
         THEN /\ conn' = [conn EXCEPT ![r] = "attached"]
              /\ send(r, TRUE, acknowledgedThroughId[r], c2s[r])
         ELSE UNCHANGED <<conn, outstanding, c2s>>
    /\ UNCHANGED <<authority, deps, replica, cursor, acknowledgedThroughId, idle, lastError,
                   hubCursor, attachment, late, outside>>

\* needsResync: the driver reconnects from the cursor.
Gap(r) ==
    /\ lastError' = [lastError EXCEPT ![r] = "Gap"]
    /\ Abandon(r)
    /\ UNCHANGED <<replica, cursor, acknowledgedThroughId>>

\* Mutant: the position is queued on its own, ahead of the bytes.
RemoteOpsCursorFirst(bytes, position) ==
    <<[kind |-> "ack", throughId |-> 0, seq |-> position],
      [kind |-> "append", bytes |-> bytes, seq |-> position]>>

\* Received bytes carry their bookmark in the same durable row.
RemoteOps(bytes, position) == <<[kind |-> "append", bytes |-> bytes, seq |-> position]>>

\* applyRemote: live at once, then queued.  Bytes that Yjs cannot apply once
\* it never can.
ApplyRemote(r, bytes, position) ==
    \/ /\ bytes \intersect refuses[r] # {}
       /\ lastError' = [lastError EXCEPT ![r] = "Unapplyable"]
       /\ UNCHANGED <<live, queue, cursor, outside>>
    \/ /\ bytes \intersect refuses[r] = {}
       /\ Fail("unapplyable")
       /\ \E e \in bytes \ live[r] : refuses' = [refuses EXCEPT ![r] = {e}]
       /\ lastError' = [lastError EXCEPT ![r] = "Unapplyable"]
       /\ UNCHANGED <<live, queue, cursor>>
    \/ /\ bytes \intersect refuses[r] = {}
       /\ live' = [live EXCEPT ![r] = @ \union bytes]
       /\ queue' = [queue EXCEPT ![r] = @ \o RemoteOps(bytes, position)]
       /\ cursor' = [cursor EXCEPT ![r] = position]
       /\ UNCHANGED <<lastError, outside>>

\* Nothing is skipped.
Contiguous(r, seq) == seq = cursor[r] + 1

\* apply()
ReceiveEntry(r) ==
    /\ Arrived(r, "entry")
    /\ LET f == Head(s2c[r])
       IN  \/ /\ f.seq <= cursor[r]   \* delivered again
              /\ Consume(r)
              /\ UNCHANGED <<replica, client, conn, c2s, hubCursor, attachment, late, outside>>
           \/ /\ f.seq > cursor[r] /\ Contiguous(r, f.seq)
              /\ Consume(r)
              /\ ApplyRemote(r, f.bytes, f.seq)
              /\ UNCHANGED <<saved, owed, durableCursor, written, acknowledgedThroughId,
                             outstanding, idle, conn, c2s, hubCursor, attachment, late>>
           \/ f.seq > cursor[r] /\ ~Contiguous(r, f.seq) /\ Gap(r) /\ UNCHANGED outside
    /\ UNCHANGED <<authority, deps>>

\* adopt(): the one place a cursor may jump.
ReceiveSnapshot(r) ==
    /\ Arrived(r, "snapshot")
    /\ Consume(r)
    /\ LET f == Head(s2c[r])
       IN  \/ f.position <= cursor[r] /\ UNCHANGED <<live, queue, cursor, lastError, outside>>
           \/ f.position > cursor[r] /\ ApplyRemote(r, f.bytes, f.position)
    /\ UNCHANGED <<authority, deps, saved, owed, durableCursor, written, acknowledgedThroughId,
                   outstanding, idle, conn, c2s, hubCursor, attachment, late>>

\* Mutant: the next submission waits for the next nudge.
AfterAckWaits(r, floor) ==
    /\ outstanding' = [outstanding EXCEPT ![r] = 0]
    /\ UNCHANGED c2s

\* Work authored while the submission was out is still owed.
AfterAck(r, floor) == send(r, TRUE, floor, c2s[r])

\* An ack is an entry with its payload elided.
ReceiveAck(r) ==
    /\ Arrived(r, "ack")
    /\ LET seq == Head(s2c[r]).seq
       IN  \/ /\ Contiguous(r, seq)
              /\ Consume(r)
              /\ cursor' = [cursor EXCEPT ![r] = seq]
              /\ acknowledgedThroughId' =
                   [acknowledgedThroughId EXCEPT ![r] = MaxOr0({@, outstanding[r]})]
              /\ queue' = [queue EXCEPT ![r] = Append(@,
                             [kind |-> "ack", throughId |-> outstanding[r], seq |-> seq])]
              /\ AfterAck(r, acknowledgedThroughId'[r])
              /\ UNCHANGED <<live, saved, owed, durableCursor, written, idle, lastError,
                             conn, hubCursor, attachment, late>>
           \/ ~Contiguous(r, seq) /\ Gap(r)
    /\ UNCHANGED <<authority, deps, outside>>

\* A refusal: the work stays owed, until a nudge or a new socket sends it again.
ReceiveRefuse(r) ==
    /\ Arrived(r, "refuse")
    /\ Consume(r)
    /\ outstanding' = [outstanding EXCEPT ![r] = 0]
    /\ lastError' = [lastError EXCEPT ![r] = "Refused"]
    /\ UNCHANGED <<authority, deps, replica, cursor, acknowledgedThroughId, idle,
                   conn, c2s, hubCursor, attachment, late, outside>>

\* offerSnapshot()'s two guards.
Offerable(r, position) == position = cursor[r] /\ ~Unresolved(live[r])

\* Mutant: only what is durable is encoded, at the position of the live document.
SnapshotBytesSaved(r) == saved[r]

\* encodeSnapshot(): the whole live document.
SnapshotBytes(r) == live[r]

\* A snapshot is wanted: the answer is an offer or nothing.
ReceiveWanted(r) ==
    /\ Arrived(r, "wanted")
    /\ Consume(r)
    /\ LET position == Head(s2c[r]).position
       IN  c2s' = IF Offerable(r, position)
                    THEN [c2s EXCEPT ![r] = Append(@, Offer(position, SnapshotBytes(r)))]
                    ELSE c2s
    /\ UNCHANGED <<authority, deps, replica, client, conn, hubCursor, attachment, late, outside>>
-----------------------------------------------------------------------------
(* The hub *)

\* The k-th of the log's entries after a cursor and up to a ceiling.
EntriesAfter(rows, from, ceiling) ==
    LET S == {row \in since(rows, from) : row.seq <= ceiling}
    IN  [k \in 1..Cardinality(S) |->
           CHOOSE row \in S : Cardinality({x \in S : x.seq < row.seq}) = k - 1]

\* connection.cursor after the last entry.
SentThrough(start, entries) == IF entries = <<>> THEN start ELSE entries[Len(entries)].seq

\* catchUpToSnapshot() and deliver(): what a connection at `from` is sent, and
\* its cursor after the last frame and before it.
Delivery(rows, from, ceiling) ==
    LET behind == from < snapshotPosition(snaps)
        start == IF behind THEN snapshotPosition(snaps) ELSE from
        entries == EntriesAfter(rows, start, ceiling)
        n == Len(entries)
    IN  [frames |-> (IF behind THEN <<SnapshotFrame(snapshot(snaps))>> ELSE <<>>)
                      \o [k \in 1..n |-> EntryFrame(entries[k])],
         cursor |-> SentThrough(start, entries),
         before |-> IF n > 1 THEN entries[n - 1].seq
                    ELSE IF n = 1 THEN start ELSE from]

\* A delivery that meets a storage failure: before anything was sent, or after
\* some entry, which then is not counted if the failure follows its send.
BrokenDeliveries(rows, from, ceiling) ==
    LET whole == {Delivery(rows, from, c) : c \in 0..ceiling}
    IN  {[frames |-> <<>>, cursor |-> from, before |-> from]}
          \union whole \union {[d EXCEPT !.cursor = d.before] : d \in whole}

\* The Durable Object writes a socket's position down as it sends: the cursor
\* before the frame, which is not counted until it is sent.
AttachmentAfter(r, delivery) ==
    IF delivery.frames = <<>> THEN attachment[r] ELSE delivery.before

Joined == {r \in Replicas : conn[r] # "down"}

\* Every connection in `relay` is sent its delivery.
Relayed(relay) ==
    /\ s2c' = [o \in Replicas |->
         IF o \in DOMAIN relay THEN s2c[o] \o relay[o].frames ELSE s2c[o]]
    /\ hubCursor' = [o \in Replicas |->
         IF o \in DOMAIN relay THEN relay[o].cursor ELSE hubCursor[o]]
    /\ attachment' = [o \in Replicas |->
         IF o \in DOMAIN relay THEN AttachmentAfter(o, relay[o]) ELSE attachment[o]]

\* A dial reaches the hub: join() admits and catches the replica up.
Dial(r) ==
    /\ Installed(r)
    /\ conn[r] = "down"
    /\ conn' = [conn EXCEPT ![r] = "dialled"]
    /\ LET delivery == Delivery(log, cursor[r], head(log, snaps))
       IN  /\ s2c' = [s2c EXCEPT ![r] = <<Admitted>> \o delivery.frames]
           /\ hubCursor' = [hubCursor EXCEPT ![r] = delivery.cursor]
           /\ attachment' = [attachment EXCEPT ![r] =
                               IF delivery.frames = <<>> THEN cursor[r] ELSE delivery.before]
    /\ UNCHANGED <<authority, deps, replica, client, c2s, late, outside>>

\* process() of a push, up to its append.
Log(bytes) ==
    /\ Len(history) < MaxLog
    /\ log' = append(log, snaps, bytes)
    /\ history' = Append(history, bytes)
    /\ UNCHANGED snaps

Waiting(r, kind) ==
    /\ conn[r] # "down"
    /\ c2s[r] # <<>>
    /\ Head(c2s[r]).kind = kind
    /\ c2s' = [c2s EXCEPT ![r] = Tail(@)]

\* Anything not sent yet goes out before the ack, this entry not included.
OwnCeiling(seq) == seq - 1

\* What a push is answered with: what was missed, the ack, the wish for a
\* snapshot.  A failure can swallow the ack, which nobody looks at.
Answer(r, rows, seq, acked, asked) ==
    LET mine == Delivery(rows, hubCursor[r], OwnCeiling(seq))
    IN  [frames |-> mine.frames \o (IF acked THEN <<AckFrame(seq)>> ELSE <<>>)
                      \o (IF asked THEN <<Wanted(seq)>> ELSE <<>>),
         cursor |-> seq,
         before |-> IF acked \/ asked THEN seq ELSE mine.before]

\* A push: logged, answered, relayed to everyone else, and when the tail has
\* grown enough followed by the wish for a snapshot.
HubPush(r) ==
    /\ Waiting(r, "push")
    /\ LET bytes == Head(c2s[r]).bytes
           seq == head(log, snaps) + 1
           rows == append(log, snaps, bytes)
       IN  /\ Log(bytes)
           /\ \E asked \in BOOLEAN :
                Relayed([o \in Joined |->
                   IF o = r THEN Answer(r, rows, seq, TRUE, asked)
                            ELSE Delivery(rows, hubCursor[o], seq)])
    /\ UNCHANGED <<deps, replica, client, conn, late, outside>>

\* The same with the storage failing on the way to someone.
HubPushBroken(r) ==
    /\ Waiting(r, "push")
    /\ Fail("storage")
    /\ UNCHANGED refuses
    /\ Log(Head(c2s[r]).bytes)
    /\ \E asked \in BOOLEAN :
        LET seq == head(log, snaps) + 1
            rows == append(log, snaps, Head(c2s[r]).bytes)
            outcomes(o) == IF o = r THEN {Answer(r, rows, seq, acked, asked) : acked \in BOOLEAN}
                                    ELSE BrokenDeliveries(rows, hubCursor[o], seq)
        IN  \E relay \in [Joined -> UNION {outcomes(o) : o \in Joined}] :
                /\ \A o \in Joined : relay[o] \in outcomes(o)
                /\ Relayed(relay)
    /\ UNCHANGED <<deps, replica, client, conn, late>>

\* Storage fails before the append, or after it on the way to this connection.
HubRefuses(r) ==
    /\ Waiting(r, "push")
    /\ Fail("storage")
    /\ UNCHANGED refuses
    /\ \/ /\ Relayed([o \in {r} |-> [frames |-> <<Refuse>>, cursor |-> hubCursor[r],
                           before |-> hubCursor[r]]])
          /\ UNCHANGED authority
       \/ /\ Log(Head(c2s[r]).bytes)
          /\ \E d \in BrokenDeliveries(log, hubCursor[r], head(log, snaps)) :
               Relayed([o \in {r} |-> [frames |-> Append(d.frames, Refuse), cursor |-> d.cursor,
                             before |-> d.cursor]])
    /\ UNCHANGED <<deps, replica, client, conn, late>>

\* takeOffer() and replaceSnapshot(): the position is one this socket was sent.
Acceptable(position, sent) ==
    /\ sent >= position
    /\ SnapshotUsable(log, snaps, position)

TakeOffer(offer, sent) ==
    /\ IF Acceptable(offer.position, sent)
         THEN /\ log' = foldedLog(log, offer.position)
              /\ snaps' = foldedSnaps(snaps, offer.position, offer.bytes)
         ELSE UNCHANGED <<log, snaps>>
    /\ UNCHANGED history

HubOffer(r) ==
    /\ Waiting(r, "offer")
    /\ TakeOffer(Head(c2s[r]), hubCursor[r])
    /\ UNCHANGED <<deps, replica, client, conn, s2c, hubCursor, attachment, late, outside>>

\* A frame of an abandoned socket reaches the hub; its answer goes nowhere.
HubLate(r) ==
    /\ late[r].frames # <<>>
    /\ late' = [late EXCEPT ![r].frames = Tail(@)]
    /\ LET f == Head(late[r].frames)
           seq == head(log, snaps) + 1
           rows == append(log, snaps, f.bytes)
       IN  \/ /\ f.kind = "offer"
              /\ TakeOffer(f, late[r].cursor)
              /\ UNCHANGED <<s2c, hubCursor, attachment>>
           \/ /\ f.kind = "push"
              /\ Log(f.bytes)
              /\ Relayed([o \in Joined |-> Delivery(rows, hubCursor[o], seq)])
    /\ UNCHANGED <<deps, replica, client, conn, c2s, outside>>
-----------------------------------------------------------------------------
(* Failures *)

\* The socket dies, or the watchdog gives it up.
Drop(r) ==
    /\ conn[r] # "down"
    /\ Fail("drop")
    /\ UNCHANGED refuses
    /\ Abandon(r)
    /\ UNCHANGED <<authority, deps, replica, cursor, acknowledgedThroughId, lastError>>

\* Mutant: the bookmark is kept apart from the rows and survives them.
RestartCursorAhead(r) == cursor[r]

\* initialize(): the cursor is read off the durable rows.
RestartCursor(r) == durableCursor[r]

\* The process ends; the next one starts from what is durable.
Crash(r) ==
    /\ Installed(r)
    /\ Fail("crash")
    /\ UNCHANGED refuses
    /\ Abandon(r)
    /\ live' = [live EXCEPT ![r] = saved[r]]
    /\ queue' = [queue EXCEPT ![r] = <<>>]
    /\ cursor' = [cursor EXCEPT ![r] = RestartCursor(r)]
    /\ acknowledgedThroughId' = [acknowledgedThroughId EXCEPT ![r] = 0]
    /\ lastError' = [lastError EXCEPT ![r] = "none"]
    /\ UNCHANGED <<authority, deps, saved, owed, durableCursor, written>>

\* The Durable Object hibernates and wakes: every socket joins again from its
\* attachment, which is behind what was really sent.
Wake ==
    /\ Joined # {}
    /\ Fail("wake")
    /\ UNCHANGED refuses
    /\ Relayed([o \in Joined |->
         LET again == Delivery(log, attachment[o], head(log, snaps))
         IN  [again EXCEPT !.frames = <<Admitted>> \o again.frames]])
    /\ UNCHANGED <<authority, deps, replica, client, conn, c2s, late>>

Receive(r) ==
    \/ ReceiveAdmitted(r)
    \/ ReceiveEntry(r)
    \/ ReceiveSnapshot(r)
    \/ ReceiveAck(r)
    \/ ReceiveRefuse(r)
    \/ ReceiveWanted(r)

Hub(r) == HubPush(r) \/ HubOffer(r)

Next ==
    \/ \E r \in Replicas :
         \/ Install(r)
         \/ Edit(r)
         \/ Commit(r)
         \/ IdleFires(r)
         \/ Flush(r)
         \/ Dial(r)
         \/ Receive(r)
         \/ Hub(r)
         \/ HubPushBroken(r)
         \/ HubRefuses(r)
         \/ HubLate(r)
         \/ Drop(r)
         \/ Crash(r)
    \/ Wake

Spec == Init /\ [][Next]_vars

\* Storage answers, timers fire, the driver dials, and a socket that is not
\* lost delivers in order.  Only the system as a whole is assumed to go on: no
\* replica is promised a turn before another.
Progress ==
    \E r \in Replicas :
        Install(r) \/ Commit(r) \/ IdleFires(r) \/ Dial(r) \/ Receive(r) \/ Hub(r)

FairSpec == Spec /\ WF_vars(Progress)
-----------------------------------------------------------------------------
TypeOK ==
    /\ log \subseteq LogRow /\ snaps \subseteq SnapshotRow /\ history \in Seq(Update)
    /\ deps \in Seq(Update) /\ Len(deps) <= MaxEdits
    /\ live \in [Replicas -> Update] /\ saved \in [Replicas -> Update]
    /\ owed \in [Replicas -> Update] /\ written \in [Replicas -> Update]
    /\ durableCursor \in [Replicas -> 0..Len(history)]
    /\ cursor \in [Replicas -> 0..Len(history)]
    /\ acknowledgedThroughId \in [Replicas -> 0..MaxEdits]
    /\ outstanding \in [Replicas -> 0..MaxEdits]
    /\ idle \in [Replicas -> BOOLEAN]
    /\ conn \in [Replicas -> {"down", "dialled", "attached"}]
    /\ hubCursor \in [Replicas -> 0..Len(history)]
    /\ attachment \in [Replicas -> 0..Len(history)]
    /\ refuses \in [Replicas -> Update] /\ failures \in 0..MaxFailures
    /\ lastError \in [Replicas -> {"none", "Gap", "Unapplyable", "Refused"}]

\* A cursor is a promise: a replica at position p holds everything the log ever
\* recorded through p, however it got there (entries, acks of its own pushes, a
\* snapshot jump, re-delivery after a wake).
CursorCovers ==
    \A r \in Replicas : \A i \in 1..cursor[r] : history[i] \subseteq live[r]

\* The durable cursor makes the same promise of the durable document, so a
\* restarted replica never asks past something it does not hold.
DurableCursorCovers ==
    \A r \in Replicas : \A i \in 1..durableCursor[r] : history[i] \subseteq saved[r]

\* A snapshot replaces history, so what it misses is gone for everybody: it
\* holds everything logged through its position.
SnapshotCovers ==
    \A row \in snaps : \A i \in 1..row.position : history[i] \subseteq row.bytes

\* What the authority can still hand a new device.
Held == (UNION {row.bytes : row \in log}) \union (UNION {row.bytes : row \in snaps})

\* No durable write is lost: an edit that its device's storage has confirmed is
\* still owed, or the authority holds it, through refusals, lost acks, retries,
\* crashes and folds.  (An edit that only a snapshot brought in is not covered:
\* its author may have crashed before it was durable, and a later snapshot may
\* be without it.)
NoWriteLost ==
    \A r \in Replicas : written[r] \subseteq owed[r] \union Held

\* What the frames on the way to a replica carry.
OnTheWire(r) ==
    UNION {s2c[r][k].bytes : k \in {j \in 1..Len(s2c[r]) :
                                       s2c[r][j].kind \in {"entry", "snapshot"}}}

\* The hub accepts a snapshot on the word of its own record of the socket, so
\* that record is never ahead of a replica that can apply what it is sent:
\* everything logged through it is in the replica's document or on the wire, also
\* when an ack was swallowed by a storage failure or a hibernated object resumed
\* from its attachment.
HubCursorCovers ==
    \A r \in Joined : refuses[r] = {} =>
        \A i \in 1..hubCursor[r] : history[i] \subseteq live[r] \union OnTheWire(r)

\* Every cursor is honest: the replica's, the one it saved, and the hub's
\* record of what it sent.
CursorsHonest == CursorCovers /\ DurableCursorCovers /\ HubCursorCovers

\* "The authority relays to every other socket before it answers this one and a
\* socket delivers in order, so it is, by construction": no replica that can
\* apply what it receives ever meets a gap.
NoGap == \A r \in Replicas : lastError[r] # "Gap"

\* "Entries are applied in log order and the log is causally complete, so after
\* a contiguous read this is false": a replica that reads the log in order never
\* holds an update whose dependencies did not arrive.
CausallyComplete == \A r \in Replicas : ~Unresolved(live[r])

\* An edit that waits for its author's storage.
Queued(r, e) ==
    \E k \in 1..Len(queue[r]) :
        queue[r][k].kind = "append" /\ queue[r][k].seq = 0 /\ e \in queue[r][k].bytes

\* While no device crashes no edit is lost, durable or not: its author's storage
\* has still to confirm it, its author owes it, or the authority holds it.
NoEditLost ==
    \A e \in Authored :
        e \in Held \/ \E r \in Replicas : e \in owed[r] \/ Queued(r, e)

\* The order of frames alone, also over a socket that was lost and dialled
\* again, keeps every replica contiguous and every edit on its way.
InOrder == TypeOK /\ NoGap /\ NoEditLost

\* The clients, the hub and the authority together implement the replicated
\* log: whatever is lost, repeated or forgotten on the way, a replica's position
\* moves only over work it holds, and what is logged is some replica's work.
Abstract == INSTANCE ReplicatedLog
              WITH authored <- Authored, record <- history, doc <- live, position <- cursor
ImplementsReplicatedLog == Abstract!Spec

\* When the faults are over and nobody writes, every replica ends up with
\* every edit, nothing owed and everything saved.
Converged ==
    \A r \in Replicas : live[r] = Authored /\ saved[r] = live[r] /\ owed[r] = {}

Convergence == <>[]Converged
=============================================================================
