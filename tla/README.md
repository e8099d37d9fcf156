# Verification of the Epicenter store

Epicenter keeps a person's data in a *store*: one Yjs document, durable on each
device and replicated through an *authority* that orders updates without
reading them. Beside it are the session that says whose data it is, and
*folders*: plain files with a Git history. This directory models that core,
checks it with TLC on small instances, and proves the safety properties of those
runs with TLAPS for every instance. Paths below are relative to
`src/packages/app/src/data` unless they begin with `packages/`.

## 1. Inventory

| Part | State | Operations | Talks to |
|---|---|---|---|
| sync authority, `sync/authority.ts` | `_log`, `_snapshot`, `_current_generation`, `_restore_receipts`, the hub in memory | `ensureCurrent`, `append`, `since`, `replaceSnapshot` and its fold, `createHub`, `prepareActivation`/`activate` | called by the hub, the socket runtimes, the download route |
| hub, `sync/hub.ts` | joined connections, a cursor and a chunk collector for each, queued messages, dispatch depth | `join`, `leave`, `receive` (push, offer), `deliver`, `askForSnapshot`, `retire` | authority below, sockets above; a peer may call back inside a send |
| socket runtimes, `packages/server/src/store-sync/authority.ts` and `bun.ts` | sockets, their hibernation attachments, an alarm or an interval | upgrade, `adopt`, message/close/error handlers, wake, alarm, sweep, stop | hub, Cloudflare or Bun |
| frames, `sync/frames.ts` | partial payloads and a byte count | `intoChunks`, collector `accept`/`forget`, codec | client and hub |
| sync client, `sync/client.ts` | cursor, the outstanding submission, nudge timer, `needsResync`, `lastError` | `attach`, `detach`, `nudge`, `flush`, `receive` | driver above, store engine below |
| connection driver, `sync/connection.ts` with `sync/attach.ts` | attempt number, held socket, four timers, failures | `start`, `open`, `reconnect`, host callbacks, watchdog, retirement, dispose | client, host sockets |
| persistence controller, `store/persistence.ts` | queue, one drain, mirror of outbox and cursor, id and floor counters | `append`, `acknowledge`, `coalesce`, `flush`, `maintain`, `close`, `discard` | store above, durable port below |
| durable ports, `store/log.ts`, `store/idb-updates.ts` | the `_updates` relation | `commit` of a batch and its fold, `load` | SQLite, IndexedDB |
| store runtime, `packages/app/src/open-store.ts`, `store/store.ts` | the claim, three acquisitions, live document, lifetime flags, the closing promise | `openStore`, `initialize`, local transactions, `applyRemote`, `encodeSnapshot`, `onRetired`, `close` | all of the above |
| current cache, `store/current-cache.ts`, `store/browser.ts` | generation header, rows, commit fence | `openCurrentCache`, `install`, `commit`, `discard` | store runtime, download route |
| session auth, `packages/auth/src/create-session-auth.ts` | stored cell, attachment, the running attempt, one queue of writes | `startSignIn`, `completeSignIn`, `cancelSignIn`, `signOut`, `fetch`, verification, dispose | credential storage, launcher, server |
| folder history, `packages/folder/src` (`git/history.ts`, `git/opfs-git.ts`, `git/browser-backend.ts`, `git/merge.ts`, `opfs-store.ts`) | files, index, refs, the incoming-update record, two Web Locks, the automatic worker of each tab | saves, automatic and explicit commit, fetch, push, pull, merge, publication, recovery, close | OPFS, isomorphic-git, other tabs |

What is hard here: a browser tab may die between any two awaits; storage may
refuse a commit while newer work is queued; a socket may lose an ack whose work
was logged; abandoned sockets call back late, and peers inside a send; the
authority's storage may fail in the middle of a relay; the Durable Object may
forget everything but a stale attachment; a restore replaces a store while
devices write to it; a store is closed while it opens or retires; a sign-in is
cancelled after the server issued its token; an incoming Git update replaces
files one at a time while the user saves. What must hold all the same: no
durable edit or save is lost, no replica's position claims work it does not hold,
snapshots that replace history contain it, a restore discards nothing its
author had not seen, a retired generation does not come back, two openers never
share a database, the driver is never stranded, no half-applied update passes
for the user's work, and all replicas converge. `PROJECT.json` lists every
hazard at its line with the properties that would notice it going wrong.

The rest of the repository (applications, UI, server auth, blobs, agents) is
listed in `PROJECT.json` by its entry files as not modelled, with reasons.

## 2. Modules

```
AuthorityLog ──┬── SyncAuthority
               └── StoreSync  ══implements══>  ReplicatedLog
UpdateLog ──── Persistence
StoreLifetime      SyncHub         StoreAuthority
SyncConnection     ChunkCollector
SessionAuth        FolderHistory
```

`M` is model-checked by way of `MCM`. The theorems about `M` are in `MProofs`, for
`M` any of SyncAuthority, Persistence, StoreSync, StoreLifetime, SyncHub,
StoreAuthority and FolderHistory. Those about SyncConnection, ChunkCollector and
SessionAuth, three parts of a client that share no state, are in `ClientProofs`.

In the store's modules an update or a document is the *set of edits* it carries.
Yjs merging is idempotent, commutative and associative, so union is what it does
as far as these properties can tell. Every definition's comment names its code;
the `map` of `PROJECT.json` gives the lines. Definitions whose comment starts
with *Mutant* are plausible bugs, used only to show that a property notices
them.

**AuthorityLog** is the SQL of the authority as operators over two sets of
rows: `head`, `append`, `since`, `writeSnapshot`, the fold and its retention.
Chunk columns are not represented: a row's chunks are written and read in one
transaction.

**SyncAuthority** is `openCurrentAuthority`: generations, admission, the hub
kept in memory, and activation in two steps with other callers' steps between
them (the digest is awaited). The receipt's digest is represented by the bytes.
`ReplaceSnapshot` assumes that an offer covers its position, which the authority
cannot check; `StoreSync` checks that real offers do (`SnapshotCovers`).

**UpdateLog** is the `_updates` relation and one batch's operations, with the
fold gates of both engines. **Persistence** is the controller above it. An
action is what runs between two awaits. A commit applies its operations to a
private copy, other actions run meanwhile, and the copy becomes durable or is
dropped at the end. The sync client is reduced to its calls (`Submit`,
`ReceiveEntry`, `ReceiveAck`, `LoseAnswer`) and the authority to its log. Locally
authored work of a store without an account (`NO_AUTHORITY`) is not enumerated.
The rows stand for either engine. What only IndexedDB has is the length it keeps
by its own increments (`held`, and `chain` in a batch): an append and a merge move
it, a fold takes what it folded, a batch that aborts leaves it alone, a restart
reads it afresh. `PortsFoldAlike` is that this length is the number of rows and
that the two gates, one on it and one on a count by SQL, decide alike.

**StoreSync** composes the clients of several devices, the hub, the authority's
log and the Durable Object's attachments. Sockets are two FIFO queues; a socket
the client lets go may still bring its frames to the hub (`late`). The
controller below a client is what `Persistence` shows it to be, a queue that
becomes durable in order, here one operation at a time, which lets a crash fall
at more points than a batch does. The hub handles one message at a time
(`dispatchDepth`), so one message is one action; `HubPushBroken` and
`HubRefuses` are the same handlers with storage failing at some send, after which
the hub may still ask for a snapshot.
`HubPush` may ask for a snapshot at any time: the size policy of
`shouldSnapshot` is abstracted to a choice. `Failures` names the kinds of failure
a run allows (a crash, a dropped socket, a wake from hibernation, a storage
failure at the authority, an edit one replica's Yjs cannot apply) and
`MaxFailures` how many; `refuses` remembers what a replica turned out to be unable
to apply. The ghost `written` is what each device's storage has confirmed of its
own edits.

**ReplicatedLog** is the promise without sockets: one growing log, replicas that
move forward only over what they hold, restarts that fall back to a state that
covers their position. `StoreSync!ImplementsReplicatedLog` maps `authored`,
`record`, `doc` and `position` to the authored edits, the ghost history, the
live documents and the client cursors.

**SyncHub** is one lifetime of the hub with its call stack made explicit, for
peers in the same process whose `send` answers before it returns. A record of
`stack` is a call under way: a join, a delivery at some chunk, a drain, the
handling of one message, the retirement notices. When a peer is on top it may
push, offer, join, leave, or replace the generation; each storage access may
fail. This is what StoreSync's atomic messages rest on: it shows that the
dispatch depth really keeps two deliveries apart.

**StoreAuthority** is the runtime around the hub, the Durable Object or the Bun
process as `adapter` says: upgrade, adoption, the attachment written after each
delivery, hibernation and wake, dying sockets whose event comes late or not at
all, the ten-minute authorization, the alarm that closes idle sockets and the
interval that does so in Bun. Input gates make one handler one action. A loop
over sockets whose body touches only its own socket is one function of the
sockets (`Each`), or a set of them where storage decides what each body does
(`EachOf`). A push is refused before the append (`PushRefused`), refused after it
because what the pusher lacks could not be delivered (`PushUndelivered`), or taken
(`PushTaken`), in which storage may swallow the ack and break off any of the
relays. A delivery is broken off (`BrokenOff`) between two frames or inside a
payload, and the attachment is what the last frame that went out wrote. The ghosts
are `got`, the positions the socket was sent; `unacked`, its own entries whose ack
was swallowed; and `lags`, that storage broke off the last delivery due to it.

**StoreLifetime** is a store address of one device from opening to closing. An
opener holds the claim, acquires the document backing, SQL and blobs
concurrently, becomes ready, edits, is retired by a late frame, and is closed at
any moment, also inside an edit's transaction or inside the transport's `attach`.
Transactions of one database run in order; a retirement's discard waits behind
commits and may fail. A close fails when the backing's disposal does, or when
stopping the connection did earlier. Two hosts are modelled: `openStore`, whose
close is final, and an owner of the parts that may call close again.

**SyncConnection** is the driver alone. The host's socket per attempt is
dialling, open, stopped (closed by us, may still call back) or closed; a timer
is a flag that may fire whenever it is set; a dial may fail inside `dial()` and
an attachment may end inside `attach()`.

**ChunkCollector** is reassembly at either end of a socket, with the error path
of each owner: the client reconnects, the hub forgets the key and reads on. Which
of the two it is, `atHub`, is chosen at the start and never changes. A client
numbers its pushes upwards and the positions it offers grow (`newest`), but both
kinds share one key space, so the hub may see a key twice on a socket. The ghost
`refused` holds the keys under which a payload was refused.

**SessionAuth** is the session client: attempts that are superseded or cancelled
at every await, the queue of storage writes with its rollback, verification shared
by requests, and what a 401 may conclude. A credential object is its token, and
`issued` is every token the server has handed out. A token may die on the server
at any time; a cell may hold a cached principal that is wrong.

**FolderHistory** is the browser folder: saves under the files lock, checkpoints
that capture file by file *without* it, fetch and push outside all locks, pull
and merge under the Git lock, and publication in its real steps (admission,
record, removals, writes, index, branch, read-back, clearing the record), each of
which may fail, end unconfirmed, or be the last thing its tab does. A file is a
content number and a commit its tree and ancestors; merging competing text
yields a new content or a conflict. `sync.run` and `resolveSync` chain requests
that are actions here.

## 3. Runs

| Run | Shows | States |
|---|---|---|
| `authority` | positions, captures, receipts, hub and activations under appends, folds, two pending activations, reopening | 676,625 |
| `persistence` | mirror, ownership of owed rows, durability and the folds of both ports under every order of 2 local and 1 remote edits, one refused commit, one lost answer, one crash, close, discard | 1,407,624 |
| `sync_failures` | one failure of any kind at any moment, late frames: cursors and hub records honest, snapshots complete, no write lost, refinement of `ReplicatedLog`; 2 replicas, 2 edits | 389,924 |
| `sync_converges` | no gap, no edit lost, and convergence after a lost socket or a hibernation | 346,511 |
| `connection` | 4 dials, 4 submissions: one socket, never stranded, ended for good, stalls noticed and only real ones | 18,688 |
| `chunks` | either end: exact byte counts under the ceiling, whole payloads; 4 payloads of up to 8 chunks, 3 keys | 653,129 |
| `lifetime` | 2 openings, 2 edits, 2 generations, 2 faults: exclusion, retirement, clean closes, quiet connections, and every close settles | 312,535 |
| `hub` | 2 re-entrant peers, 3 messages, 2 chunks each, one storage failure: no gap, no history after retirement, nothing stranded | 1,391,172 |
| `sockets` | both adapters, 2 sockets, 2 hibernations, one storage failure at any access: joined and served or closed, honest cursors and attachments, deadlines kept | 833,086 |
| `auth` | 2 attempts, tokens of 2 principals, one failed write: storage agrees, no token forgotten, only the current credential judged | 2,828,991 |
| `folder` | 2 files, 2 Git requests, one fault, with one tab and 2 saves or two tabs and one save: dirty files and checkpoints are the user's, saves are kept and committed | 1,693,490 |

Several invariants are conjunctions of named parts: `LogSound`, `OneGeneration`,
`MirrorSound`, `AcksHonest`, `NothingStranded`, `CursorsHonest`, `InOrder`,
`OneLiveSocket`, `Reassembled`; one of each module's also carries its `TypeOK`.
The comment of each part says what it is about.

`NoWriteLost` speaks of edits that the device which made them has saved. An edit
that reached the authority only inside a snapshot offer may not be durable at its
author; when the author crashes, no later snapshot has to contain it.

`sync_causal` is expected to fail. The client documents that
`unresolvedDependencies` is false after a contiguous read. But a snapshot offer
encodes the *live* document, which holds edits that were not pushed yet. With
three devices and no failure at all: one offers such a snapshot, a second starts
from it and builds on the unpushed edit, and the third, reading the log in order,
receives the dependent edit before its dependency. While no device crashes the
hole is temporary: the theorem `SpecHolesFill` says that what is missing is in the
log past the cursor, or queued or owed by a device that will send it. When the
author crashes before its storage confirmed the edit, the hole may stay, for a
cursor already past the snapshot is never sent it. The same offer is at odds with
ADR-0302 (line 68): "An edit made while storage is blocked reaches no peer until
storage recovers."

Other places where a comment and the code differ, met while modelling, with no
run of their own:

* `sync/client.ts:453` says a refused ack costs one duplicate entry that the next
  fold reclaims. With a cursor pinned by an entry that cannot be applied, every
  reconnect costs one.
* `sync/hub.ts:73` says a payload over the ceiling is dropped. Chunks of it that
  were already written open a new partial, which stays for the connection's life
  and counts against its ceiling. Worse, once other
  partials are freed, a later payload with the same key (pushes and offers share
  the key space) and the same number of chunks completes with a chunk of the
  refused one. With a ceiling of 4: a push of 8 chunks under key 1 leaves three, a
  push of 3 under key 2 is refused at its second chunk and leaves its third, an
  offer of 2 chunks under key 1 is refused and frees key 1, and an offer of 3 under
  key 2 is complete after two of its own chunks. `Reassembled` therefore excepts
  the keys in `refused`; an attempt to prove it without them showed this.
* `sync/hub.ts:327-342`: the cursor is set before the ack is sent and the ack's
  result is ignored, so a storage failure in the send's admission swallows the
  ack, and the next one is two past what the replica holds; the gap is repaired
  by a reconnect. `Contiguous` and `NoStrandedMessage` except this case (`unacked`).
  It reaches further in the Durable Object. The next frame to that socket, a
  `wanted` (`sync/hub.ts:365`) or a relay, writes the cursor into the attachment,
  which is then past an entry the socket was never told of, while
  `packages/server/src/store-sync/authority.ts:19-23` says that the attachment can
  only be behind. What is ahead is the socket's own push, which its replica still
  holds and owes, so no work is skipped; the replica notices the gap at its next
  entry or ack, or its watchdog does, and reconnects. `AttachmentNeverAhead` and
  `NeitherDeafNorLeaked` name exactly this exception.
* `sync/hub.ts:344-346` ignores a relay that storage broke off. The socket stays
  joined and behind until the next delivery to it, which may be a long time after;
  `NeitherDeafNorLeaked` therefore says where a socket stands only unless its last
  delivery was broken off (`lags`).
* `packages/auth/src/auth-contract.ts:50` says that cancelling a sign-in settles
  persistence. `cancelSignIn` takes a last write that was aborted by its own
  signal as settled although an earlier write may have failed; `StorageAgrees`
  therefore says nothing while the last write to the cell has failed (`dirty`).
* The comment on `OfferFrame` asks for equality with the head, while `takeOffer`
  accepts any position sent and not past the head; `reconnect` speaks of three
  reasons and has five; the client says the authority relays to other sockets
  before it answers, while the hub acks first.

**Bounds.** They are named `Max*` in the modules and set in the cfgs. Two
replicas, peers, sockets, openers or tabs are enough for every pairwise order;
three edits let an edit depend on one that depends on another's. A fold threshold
of 2 stands for 64 so that folds and merges happen. A run of `StoreSync` allows
one failure, of any kind and at any moment, because each failure's handler is the
recovery another would meet (reconnect from the cursor); two at a time are not
covered. The causal run has three replicas, because two cannot show a dependent
edit to someone who saw neither. `MaxLog` binds only in `sync_failures`, where a
replica that cannot apply an entry makes the log grow for ever. Chunks of a
payload are of equal size, so the ceiling is a number of chunks. In `lifetime`
the second fault lets a failed discard be followed by another failure. In
`sockets` the clock runs to 4 and a lease lasts 2: a socket expires while one
that came later, or at the same time, is alive. In `folder` one fault is a crash,
a close, a failed step or an unconfirmed one; the request after it may be the
recovery. Runs end when their bounded events are used up, so deadlock is checked
only in `authority`, which never rests.

**Fairness.** `StoreSync`: weak fairness of `Progress` as a whole, that is, as
long as someone can commit, fire a nudge, dial, install or deliver, something of
that happens. Failures are bounded and not fair. `SyncConnection`: the redial,
admission and watchdog timers fire; nothing is assumed of the host.
`StoreLifetime`: each opener's own promises settle, with success or failure
(`WF(Progress(o))`); nobody is obliged to edit, close or retire.
`StoreAuthority`: time passes, a stored alarm wakes the object and fires, and
Bun's interval fires; close events of dead sockets are never assumed.

## 4. Proofs

The theorems hold for every value of the constants that satisfies the named
assumptions: any number of replicas, peers, sockets, openers, edits, messages,
crashes and failures. Each `...Proofs` module has the same plan. `IInv` is the
inductive invariant (`DriverI`, `CollectorI` and `SessionI` in `ClientProofs`);
one lemma per action shows that the action keeps it; `Spec => []IInv` follows; and
the properties of the runs are consequences of `IInv`, or of `IInv` and one step
where they are action properties. `PROJECT.json` lists the theorems by the
property they state.

**SyncAuthorityProofs**, the four properties of the run `authority`. None is
inductive: `head`, `since` and `capture` are computed from two relations that
folds rewrite. `IInv` describes the relations by the ghost `history` instead: the
log *is* the history after the newest snapshot position (`LogIsTail`), every kept
snapshot covers the history up to its position (`SnapshotsCover`), and a pending
request of the current generation has seen everything up to the head it expects
(`RequestsHonest`). From the first, `HeadIsLength` derives that the head counts
the history; with the second, `CapturedCovers` derives that a capture covers
everything; with the third, a committed activation, whose expected head equals
the head, has seen everything. Assumed: `SNAPSHOTS_KEPT \in Nat \ {0}`, inputs are
updates, and, in `ReplaceSnapshot`, that an offer covers its position, which is a
theorem about the clients (`SpecSnapshotCovers`).

**PersistenceProofs**, the five properties of `persistence`. A crash falls back to
the rows, a refused commit to the rows with every unconfirmed operation again to
come, and a commit under way has its own copy. `IInv` therefore says one thing,
`Coming`, of a relation and the operations still to be applied to it, and says it
of both pairs: of `rows` and everything pending, and of `txn.rows` and the rest of
the batch. `MirrorFaithful` ties the controller's mirror to the owed rows;
`FlightSafe` says what the client offered is durable and owed. Ids are fresh
against both relations, which is what the SQL's `MAX(id)` and the floor provide.
`FoldsAgree` needs the IndexedDB port's length to be the number of its rows through
every increment: an append is counted because its id is fresh, and a merge because
each row it replaces is there when its turn comes (`MergeSafe`), also after a
refused batch went back to the queue.
Assumed: edits and bounds are finite sets and numbers, and the fold threshold is
at least 2.

**StoreSyncProofs**, `CursorsHonest`, `NoWriteLost` and `SnapshotCovers`, for any
number of failures of every kind, the refinement of `ReplicatedLog`, and
`InOrder`. That a cursor is honest depends on what is on the wire, on what the hub
believes, on what is queued for storage and on the relations of the authority; the
invariant has a part for each: `StoredI` (the log is the history after the newest
snapshot, and snapshots cover), and for each replica `StoreI` (memory is durable
or queued, and both cursors are behind the bytes), `SessionI` (what is not owed is
logged), `FlightI` (one submission or its answer is in flight), `DownI` (frames
downwards are honest, and the hub's record is covered by the document and the
wire), `UpI` and `LateI` (pushes are durable work, offers cover their position,
also from an abandoned socket) and `ClosedI`. The refinement is proved step by
step: each action changes the mapped variables as an action of `ReplicatedLog`
does, or not at all.

Three results about order need hypotheses on `Failures`, each no more than its
argument uses. `SpecNoGap` excludes storage failures at the authority and an edit
a replica cannot apply: the first may swallow an ack, the second pins a cursor.
Its invariant `OrderI` says that the hub has sent a connected socket everything
logged and that the frames on the wire lead from the cursor to the end of the log
without a hole. `SpecNoEditLost` and `SpecHolesFill` exclude only a crash, which
loses what storage had not confirmed; their invariant `MadeI` adds to `IInv` that
every edit was written or is queued at some replica. `SpecInOrder` combines them
for dropped sockets and hibernations, the failures of the run `sync_converges`.

**SyncHubProofs**, `Contiguous`, `NothingAfterRetired` and `NoStrandedMessage`,
for calls nested to any depth. The first half of `IInv` is about the stack alone:
who may call whom (`Structured`), one drain, and no join past its admission under
it. At most one call at a time therefore feeds a connection. The second half fits
each call to the connection it is about (`CallsFit`) and counts what is owed while
it is under way (`OwedI`: what is queued and at hand is at most what is owed, and
exactly that for a member). Lemmas speak of the role a call plays for a
connection, so that pushing and popping a call need no case for each depth.

**ClientProofs**, three invariants over disjoint variables.

*The driver*: `OneLiveSocket`, `EndedForGood` and `StalledMeansSilent`. `DriverI`
ties the driver's flags to what the host's sockets are in: a held socket is the
live attempt's and not closed, sockets of earlier attempts are stopped or closed,
none exists for a later attempt, and the submission the watchdog remembers is
never one that was answered.

*The collector*: `Reassembled`. That a completed payload is one sending needs to
know what its partial holds before the last chunk: the wire is the rest of one
payload (`RestOfPayload`), a partial lacks its last chunk (`LastIsMissing`), and,
unless the key was refused, the slots before the chunk at the front of the wire
were filled by this very sending (`FreshSoFar`). The byte count is the number of
occupied slots, which `SlotsFinite` and the library's cardinality facts carry
through each chunk.

*The session*: `StorageAgrees`, `NoTokenForgotten` and `RefusalIsCurrent`. The
hard part is the queue of writes. `QueueI` says that while a clear waits nothing
is persisted and every install ahead of it belongs to an aborted attempt;
`WriteI` describes the write under way by how far it has come and what it found
in the cell; `StoreI` says that the cell is what memory believes, or a clear is
still to come. A commit therefore happens only when no clear is behind it, and
the token it replaces is given back. A mismatch's token belongs to no attempt, so
dropping it forgets none. `AttemptsI` (only the latest attempt is not aborted, and
each knows its own token), `HeldI` (attachment and persisted cell agree) and
`TokensI` account for the tokens of attempts that are over: revoked, in use, or
about to be replaced by the write under way. `RequestsI` and `PausedI` are the two
halves of `RefusalIsCurrent`, kept through every replacement of the credential.

**StoreLifetimeProofs**, `Exclusive`, `RetiredIsGone`, `CleanCloseSaves` and
`QuietAfterEnd`. `Local` relates the flags of one opener to each other: a commit
comes before the discard a retirement asked for, and a stage of closing implies
what ended before it. `Shared` is what an opener may believe of the database, kept
because only the claim's holder has anything open on it. An installed generation
is never older than the rows (`InstallsNewer`, `RowsOfHeader`).

**StoreAuthorityProofs**, `NeitherDeafNorLeaked`, `AttachmentNeverAhead` and
`NothingPastDeadline`. A handler touches one socket, so `IInv` is about one socket
at a time: `Sound` always (nothing is kept for a closed socket, and its attachment
is backed: each position through it was sent or is the socket's own unacknowledged
entry), `Served` while the runtime is awake (an authorized socket is joined, the
hub's cursor for it is backed too, and it is at the head or lags), and a sleeping
object holds no connections. The cursor is needed because a delivery sends only
what it says is missing and writes it into the attachment. `ThroughIs` and
`BrokenOffIs` say what one delivery, whole or broken off anywhere, does to a
socket; `DeliveredIs` and `AckedIs` carry that to the handlers, and `LoopedIs` to
the relays and the wake. `NothingPastDeadline` comes from the same lemmas: every
handler that changes what a socket was sent found it in time.

**FolderHistoryProofs**, `DirtyIsMine`, `CheckpointsAreMine`, `NoSaveLost` and
`EverySaveCommitted`, for any number of tabs, files, saves and faults. `RepoI` is
about what survives a tab: commits contain their parents' history, and each file
is the branch's version or one the user put there, or, under a recorded incoming
update, one of that update's two ends (`FilesI`, `RecordI`). `LocksI` says that
whoever holds a Web Lock is the work standing inside it. `JobsI` is about work in
progress: what a capture has read, although it holds no files lock, is still there
or was overwritten by a user (`CaptureI`), and a publication has written what its
step says and nothing else (`PublishI`, `ApplyI`). A crash drops the work and the
locks together, and `RepoI` is what remains for recovery. `EverySaveCommitted`
speaks of runs without a fault; for those `QuietI` says that files that differ
from the branch have a worker or a request that will see them.

Only model-checked are the four liveness properties (`Convergence`,
`NoSilentStall`, `ClosingSettles`, `EverySocketEnds`), because fairness is outside
the prover's reach. `CausallyComplete` is false.

## 5. Not modelled

The binary layout of frames; sizes (the snapshot policy; the 64 MiB ceiling is a
small number of units); backoff durations; subscriptions and the typed view of
the document; HTTP routing and the download's encoding; `deleteStore`, which drops
a Durable Object whole; `openWebSocket` of the session, which takes the same
authorization step as `fetch`; the desktop's native auth process; server auth.
Of folders: the desktop adapter, which runs the same `history.ts` over the git
program and a native watcher whose atomicity lies outside this repository;
opening and downloading a folder; directories that become files; ignored files
and attributes; index stages left by other Git programs; typed tables and values.
Applications, UI, agents, blobs and media are I/O and presentation around
external services with no multi-step protocol of their own.

Three smaller things are left out of parts that are modelled. A host socket whose
`send` throws: the Durable Object looks at the socket before it sends, Bun drops
what it cannot send, and a browser's throws only before the socket is open.
Listeners of the auth state that call back into the session while it notifies
them. And a failure of an attachment's disposal other than by its effect on the
close, which is `Dispose` of StoreLifetime.

## 6. Plan

1. Stores without an account in `Persistence`.
2. Two failures at a time in the runs of `StoreSync`; the theorems already allow
   any number.
3. `sync.run` of folders as one request, with its resolutions of conflicts.
