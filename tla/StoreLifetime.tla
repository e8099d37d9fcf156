--------------------------- MODULE StoreLifetime ---------------------------
(***************************************************************************)
(* Opening, retiring and closing one store address of a device             *)
(* (packages/app/src/open-store.ts, data/store/store.ts, current-cache.ts, *)
(* browser.ts).                                                            *)
(*                                                                         *)
(* Openers compete for the address's claim.  Each acquires a document      *)
(* backing, SQL and blobs concurrently, may be told by the authority that  *)
(* its generation was replaced, may be closed at any time, and may vanish  *)
(* with its page.  A "store" opener is openStore(); a "parts" opener owns  *)
(* createStoreOverPort() directly, holds the claim itself and may close    *)
(* again after a refused close.                                            *)
(*                                                                         *)
(* A step is one synchronous stack of the event loop.  Transactions of one *)
(* opener's database run in the order they were created.                   *)
(***************************************************************************)
EXTENDS Integers, Sequences, FiniteSets

CONSTANTS MaxOpeners,    \* bound: openings of the address
          Kinds, Hosts,
          MaxGeneration, \* bound: generations of the authority
          MaxEdits,      \* bound: edits made
          MaxFaults      \* bound: failures of storage, network or cleanup

ASSUME LifetimeAssumption ==
    /\ Kinds \subseteq {"local", "personal"}
    /\ Hosts \subseteq {"store", "parts"}
    /\ MaxOpeners \in Nat /\ MaxGeneration \in Nat \ {0} /\ MaxEdits \in Nat /\ MaxFaults \in Nat

VARIABLES
    kind,      \* whose data the address holds: "local" never replicates
    s,         \* s[o]: the in-memory state of opener o
    claim,     \* the openers holding the address's claim
    header,    \* durable: the installed generation, or 0
    rows,      \* durable: the edits in the cache, each with its generation
    serverGen, \* the authority's current generation
    nextEdit, faults,
    saved      \* ghost: the edits that were ever durable

vars == <<kind, s, claim, header, rows, serverGen, nextEdit, faults, saved>>
durable == <<header, rows, saved>>

\* Opener n is the n-th to be given the claim.
Openers == 1..MaxOpeners
NoClaim == {}
Edits == 1..MaxEdits
Generations == 1..MaxGeneration

Outcome == {"none", "opening", "open", "failed", "gone"}
Acquiring == {"opening", "downloading", "installing"}
Acquisition == Acquiring \cup {"none", "held", "err", "threw", "disposed"}
Readiness == {"pending", "ok", "err"}
Connection == {"none", "live", "stopped"}
DrainState == {"idle", "scheduled", "committing"}
Txn == [kind : {"commit"}, edits : SUBSET Edits] \cup [kind : {"discard"}]
Invalidation == {"none", "running", "done", "failed"}
FlushState == {"none", "queued", "draining", "done"}
DocumentStage == {"none", "acquisition", "invalidation", "discarded", "persistence",
                  "dispose", "done", "failed", "rejected"}
Resource == {"none", "acquiring", "held", "err", "threw", "closing", "closed", "stuck"}
CloseStage == {"none", "document", "blobs", "sqlite", "done", "failed"}

Opener == [
    host : Hosts, outcome : Outcome, acq : Acquisition, gen : 0..MaxGeneration,
    ready : Readiness, disposed : BOOLEAN, retired : BOOLEAN,
    connection : Connection, syncStopped : BOOLEAN,
    queue : SUBSET Edits, running : DrainState, requested : BOOLEAN, discarded : BOOLEAN,
    txns : Seq(Txn), fenced : BOOLEAN, invalidation : Invalidation,
    persistenceClosed : FlushState, docClosing : DocumentStage,
    sqlite : Resource, blobs : Resource, closing : CloseStage,
    accepted : SUBSET Edits, \* ghost: edits taken from the application
    refused : BOOLEAN]       \* ghost: storage refused a commit

Absent(h) == [
    host |-> h, outcome |-> "none", acq |-> "none", gen |-> 0, ready |-> "pending",
    disposed |-> FALSE, retired |-> FALSE, connection |-> "none", syncStopped |-> FALSE,
    queue |-> {}, running |-> "idle", requested |-> FALSE, discarded |-> FALSE,
    txns |-> <<>>, fenced |-> FALSE, invalidation |-> "none",
    persistenceClosed |-> "none", docClosing |-> "none", sqlite |-> "none",
    blobs |-> "none", closing |-> "none", accepted |-> {}, refused |-> FALSE]

Init ==
    /\ kind \in Kinds
    /\ s \in [Openers -> {Absent(h) : h \in Hosts}]
    /\ claim = NoClaim /\ header = 0 /\ rows = {} /\ serverGen = 1
    /\ nextEdit = 1 /\ faults = 0 /\ saved = {}

\* One storage, network or cleanup failure.
Fault == faults < MaxFaults /\ faults' = faults + 1

-----------------------------------------------------------------------------
(* Claiming the address *)

\* openStore(): claims, then starts the three acquisitions.  A claim that is held
\* refuses the opener, which then has no state.
Open(o) ==
    /\ s[o].outcome = "none" /\ \A p \in 1..(o - 1) : s[p].outcome # "none"
    /\ claim = NoClaim
    /\ claim' = {o}
    /\ LET r == s[o] IN
       s' = [s EXCEPT ![o] = [r EXCEPT
                !.outcome = "opening", !.acq = "opening",
                !.sqlite = IF r.host = "store" THEN "acquiring" ELSE r.sqlite,
                !.blobs = IF r.host = "store" /\ kind = "local" THEN "acquiring" ELSE r.blobs]]
    /\ UNCHANGED <<kind, durable, serverGen, nextEdit, faults>>

-----------------------------------------------------------------------------
(* Retirement and the two closes, as functions of an opener's state *)

\* invalidate(): the backing is fenced at once, and one discard runs at a time.
invalidate(r) ==
    [r EXCEPT !.fenced = TRUE,
              !.invalidation = "running",
              !.txns = IF r.invalidation = "running" THEN @
                       ELSE Append(@, [kind |-> "discard"])]

\* Mutant: the final flush looks at the queue before close() returns.
ClosePersistenceAtOnce(r) ==
    IF r.running = "idle" /\ r.queue = {} THEN "done" ELSE "queued"

\* controller.close(): the final flush runs after the current stack.
ClosePersistence(r) == "queued"

\* The close() of createStoreOverPort().
DocumentClose(r) ==
    IF r.docClosing \notin {"none", "rejected"} THEN r
    ELSE LET again == IF r.docClosing = "rejected" THEN invalidate(r) ELSE r
         IN  [again EXCEPT
                !.disposed = TRUE,
                !.persistenceClosed = IF r.ready = "ok" /\ ~r.retired
                                      THEN ClosePersistence(r) ELSE "none",
                !.syncStopped = TRUE,
                !.connection = IF @ = "live" THEN "stopped" ELSE @,
                !.docClosing = "acquisition"]

\* closeSqlite(), closeBlobs(): what is held is closed, once.
CloseResource(state) == IF state = "held" THEN "closing" ELSE state

\* The close() of openStore().  The document's abort listener calls it too, so
\* either close starts both.
Close(r) ==
    IF r.host = "parts" THEN DocumentClose(r)
    ELSE IF r.closing # "none" THEN r
    ELSE [DocumentClose(r) EXCEPT !.closing = "document",
                                  !.sqlite = CloseResource(@),
                                  !.blobs = CloseResource(@)]

Retirable(r) == ~r.retired /\ ~r.syncStopped

\* onRetired()
OnRetired(r) ==
    LET ended == [invalidate(r) EXCEPT !.retired = TRUE, !.connection = "stopped",
                                       !.discarded = TRUE, !.queue = {},
                                       !.requested = FALSE]
    IN  IF r.host = "store" THEN Close(ended) ELSE ended
-----------------------------------------------------------------------------
(* Acquiring *)

\* A returned error proves rollback; a thrown one leaves ownership unknown.
AcquisitionFails(o) ==
    \E failure \in {"err", "threw"} :
        s' = [s EXCEPT ![o].acq = failure, ![o].gen = 0]

\* openCurrentCache(), openIdbBacking(): opens the database and reads it.
OpenCache(o) ==
    /\ s[o].acq = "opening"
    /\ \/ /\ s' = [s EXCEPT ![o].acq = IF header # 0 THEN "held"
                                       ELSE IF kind = "local" THEN "installing"
                                       ELSE "downloading",
                            ![o].gen = IF header # 0 THEN header
                                       ELSE IF kind = "local" THEN 1 ELSE 0]
          /\ UNCHANGED faults
       \/ Fault /\ AcquisitionFails(o)
    /\ UNCHANGED <<kind, claim, durable, serverGen, nextEdit>>

\* The POST answers with the generation that is current when it is served.
Download(o) ==
    /\ s[o].acq = "downloading"
    /\ \/ /\ s' = [s EXCEPT ![o].acq = "installing", ![o].gen = serverGen]
          /\ UNCHANGED faults
       \/ Fault /\ AcquisitionFails(o)
    /\ UNCHANGED <<kind, claim, durable, serverGen, nextEdit>>

\* install(), create(): header and baseline in one transaction.  The device's
\* own store reopens afterwards, which may fail with the baseline in place.
Install(o) ==
    /\ s[o].acq = "installing"
    /\ \/ /\ header' = s[o].gen /\ rows' = {}
          /\ s' = [s EXCEPT ![o].acq = "held"]
          /\ UNCHANGED faults
       \/ /\ Fault /\ AcquisitionFails(o)
          /\ rows' = rows
          /\ header' \in IF kind = "local" THEN {header, s[o].gen} ELSE {header}
    /\ UNCHANGED <<kind, claim, saved, serverGen, nextEdit>>

\* SQL or blobs arrive; a late arrival while closing is closed at once, before
\* the close that waits for it looks for something to close.
Arrived(r) == IF r.closing = "none" THEN "held" ELSE "closing"

AcquireSqlite(o) ==
    /\ s[o].sqlite = "acquiring"
    /\ \/ s' = [s EXCEPT ![o].sqlite = Arrived(s[o])] /\ UNCHANGED faults
       \/ Fault /\ s' = [s EXCEPT ![o].sqlite = "threw"]
    /\ UNCHANGED <<kind, claim, durable, serverGen, nextEdit>>

AcquireBlobs(o) ==
    /\ s[o].blobs = "acquiring"
    /\ \/ s' = [s EXCEPT ![o].blobs = Arrived(s[o])] /\ UNCHANGED faults
       \/ Fault /\ \E failure \in {"err", "threw"} :
                        s' = [s EXCEPT ![o].blobs = failure]
    /\ UNCHANGED <<kind, claim, durable, serverGen, nextEdit>>

\* Mutant: close() inside attach leaves the connection it could not see.
AttachedLive(r) == "live"

\* The connection attach returned is stopped if its store ended meanwhile.
AttachedConnection(r) == IF r.disposed \/ r.retired THEN "stopped" ELSE "live"

\* initialize(): a device store has no transport; a replica attaches, and the
\* transport may retire or (its owner) close the store before attach returns.
Initialized(r) ==
    LET up == [r EXCEPT !.ready = "ok"]
        live == [up EXCEPT !.connection = "live"]
        after(e) == [e EXCEPT !.connection = AttachedConnection(e)]
    IN  IF kind = "local" THEN {up}
        ELSE {live} \cup (IF r.gen < serverGen THEN {after(OnRetired(up))} ELSE {})
                    \cup (IF r.host = "parts" THEN {after(Close(up))} ELSE {})

\* The ready continuation, with failOpening().
Ready(o) ==
    /\ s[o].acq \in {"held", "err", "threw"} /\ s[o].ready = "pending"
    /\ IF s[o].acq = "held" /\ ~s[o].disposed
       THEN \/ \E r \in Initialized(s[o]) : s' = [s EXCEPT ![o] = r] /\ UNCHANGED faults
            \/ Fault /\ s' = [s EXCEPT ![o] = [Close(s[o]) EXCEPT !.ready = "err"]]
       ELSE /\ s' = [s EXCEPT ![o] = [Close(s[o]) EXCEPT !.ready = "err"]]
            /\ UNCHANGED faults
    /\ UNCHANGED <<kind, claim, durable, serverGen, nextEdit>>

\* openStore() returns the store once all three are there, or cleans up.
Opened(r) ==
    /\ r.ready = "ok" /\ ~r.disposed /\ ~r.retired
    /\ r.host = "store" => r.sqlite = "held" /\ r.blobs \in {"none", "held"}

Failed(r) == r.sqlite = "threw" \/ r.blobs \in {"err", "threw"}

Return(o) ==
    /\ s[o].outcome = "opening"
    /\ \/ Opened(s[o]) /\ s' = [s EXCEPT ![o].outcome = "open"]
       \/ s[o].closing = "none" /\ Failed(s[o]) /\ s' = [s EXCEPT ![o] = Close(@)]
       \/ /\ \/ s[o].host = "store" /\ s[o].closing \in {"done", "failed"}
             \/ s[o].host = "parts" /\ s[o].docClosing \in {"done", "failed", "rejected"}
             \/ s[o].host = "parts" /\ s[o].ready = "ok" /\ s[o].retired
          /\ s' = [s EXCEPT ![o].outcome = "failed"]
    /\ UNCHANGED <<kind, claim, durable, serverGen, nextEdit, faults>>
-----------------------------------------------------------------------------
(* Use: edits and their commits *)

\* append() and the flush it asks for.
Enqueue(r, e) ==
    IF r.discarded THEN r
    ELSE [r EXCEPT !.queue = @ \cup {e}, !.accepted = @ \cup {e},
                   !.running = IF @ = "idle" THEN "scheduled" ELSE @,
                   !.requested = @ \/ r.running # "idle"]

Usable(r) == r.outcome = "open" /\ ~r.disposed /\ ~r.retired

Edit(o) ==
    /\ Usable(s[o]) /\ nextEdit <= MaxEdits
    /\ s' = [s EXCEPT ![o] = Enqueue(@, nextEdit)]
    /\ nextEdit' = nextEdit + 1
    /\ UNCHANGED <<kind, claim, durable, serverGen, faults>>

\* The application closes the store inside a transaction: its update is
\* enqueued after close() returned.
EditAndClose(o) ==
    /\ Usable(s[o]) /\ nextEdit <= MaxEdits
    /\ s' = [s EXCEPT ![o] = Enqueue(Close(@), nextEdit)]
    /\ nextEdit' = nextEdit + 1
    /\ UNCHANGED <<kind, claim, durable, serverGen, faults>>

\* flush() on a refused batch: it goes back ahead of newer work.
CommitRefused(r, batch) ==
    IF r.discarded THEN [r EXCEPT !.running = "idle"]
    ELSE [r EXCEPT !.queue = @ \cup batch,
                   !.running = IF r.requested THEN "scheduled" ELSE "idle"]

\* The drain takes a batch and hands it to the port, which refuses when fenced.
Drain(o) ==
    /\ s[o].running = "scheduled"
    /\ LET r == s[o]
           taken == [r EXCEPT !.queue = {}, !.requested = FALSE]
       IN  s' = [s EXCEPT ![o] =
                    IF r.queue = {} THEN [r EXCEPT !.running = "idle"]
                    ELSE IF r.fenced THEN CommitRefused(taken, r.queue)
                    ELSE [taken EXCEPT !.running = "committing",
                              !.txns = Append(@, [kind |-> "commit", edits |-> r.queue])]]
    /\ UNCHANGED <<kind, claim, durable, serverGen, nextEdit, faults>>

\* Mutant: the discard clears the rows and leaves the generation.
HeaderKept == header

\* discard(): header and rows go in one transaction.
HeaderDiscarded == 0

\* What one transaction of opener r does to the database.
HeaderAfter(t) == IF t.kind = "discard" THEN HeaderDiscarded ELSE header
RowsAfter(r, t) ==
    IF t.kind = "discard" THEN {} ELSE rows \cup {<<r.gen, e>> : e \in t.edits}
SavedAfter(t) == IF t.kind = "discard" THEN saved ELSE saved \cup t.edits

TxnDone(o) ==
    /\ s[o].txns # <<>>
    /\ LET r == s[o]
           t == Head(r.txns)
           rest == [r EXCEPT !.txns = Tail(@)]
       IN  \/ /\ header' = HeaderAfter(t) /\ rows' = RowsAfter(r, t)
              /\ saved' = SavedAfter(t)
              /\ s' = [s EXCEPT ![o] =
                        IF t.kind = "discard" THEN [rest EXCEPT !.invalidation = "done"]
                        ELSE [rest EXCEPT !.running = IF ~r.discarded /\ r.queue # {}
                                                      THEN "scheduled" ELSE "idle"]]
              /\ UNCHANGED faults
           \/ /\ Fault
              /\ s' = [s EXCEPT ![o] =
                        IF t.kind = "discard" THEN [rest EXCEPT !.invalidation = "failed"]
                        ELSE [CommitRefused(rest, t.edits) EXCEPT !.refused = TRUE]]
              /\ UNCHANGED durable
    /\ UNCHANGED <<kind, claim, serverGen, nextEdit>>

\* The authority activates a replacement generation.
Activate ==
    /\ kind = "personal" /\ serverGen < MaxGeneration
    /\ serverGen' = serverGen + 1
    /\ UNCHANGED <<kind, s, claim, durable, nextEdit, faults>>

\* The authority answers the replica's socket with retirement.
Retire(o) ==
    /\ s[o].connection = "live" /\ s[o].gen < serverGen
    /\ Retirable(s[o])
    /\ s' = [s EXCEPT ![o] = OnRetired(@)]
    /\ UNCHANGED <<kind, claim, durable, serverGen, nextEdit, faults>>
-----------------------------------------------------------------------------
(* Closing *)

\* The owner of an open store closes it; the owner of parts may close at any
\* time, and again after a refused close.
CallClose(o) ==
    /\ IF s[o].host = "store" THEN s[o].outcome = "open" /\ s[o].closing = "none"
       ELSE /\ s[o].outcome \in {"opening", "open", "failed"}
            /\ s[o].docClosing \in {"none", "rejected"}
    /\ s' = [s EXCEPT ![o] = Close(@)]
    /\ UNCHANGED <<kind, claim, durable, serverGen, nextEdit, faults>>

\* The final flush of controller.close(), and its end.
FinalFlush(o) ==
    /\ s[o].persistenceClosed = "queued"
    /\ LET r == s[o] IN
       s' = [s EXCEPT ![o] = [r EXCEPT
                !.persistenceClosed = IF r.running = "idle" /\ r.queue = {} THEN "done"
                                      ELSE "draining",
                !.running = IF r.running = "idle" /\ r.queue # {} THEN "scheduled"
                            ELSE r.running,
                !.requested = r.requested \/ r.running # "idle"]]
    /\ UNCHANGED <<kind, claim, durable, serverGen, nextEdit, faults>>

\* Mutant: the close waits until storage has taken everything.
DrainEndedEmpty(r) == r.running = "idle" /\ r.queue = {}

\* The drain's promise resolves, with refused work still queued or without.
DrainEnded(r) == r.running = "idle"

FinalFlushEnds(o) ==
    /\ s[o].persistenceClosed = "draining" /\ DrainEnded(s[o])
    /\ s' = [s EXCEPT ![o].persistenceClosed = "done"]
    /\ UNCHANGED <<kind, claim, durable, serverGen, nextEdit, faults>>

\* Where the document's close goes once the acquisition has settled.
AfterAcquisition(r) == IF r.retired THEN "invalidation" ELSE "persistence"

\* close(): every wait in order.  A failed invalidation releases nothing and
\* lets another close try again.
DocumentStep(o) ==
    LET r == s[o]
        goes(stage) == s' = [s EXCEPT ![o].docClosing = stage]
    IN  /\ \/ r.docClosing = "acquisition" /\ r.acq \notin Acquiring /\ goes(AfterAcquisition(r))
           \/ r.docClosing = "invalidation" /\ r.invalidation = "done" /\ goes("discarded")
           \/ r.docClosing = "invalidation" /\ r.invalidation = "failed" /\ goes("rejected")
           \/ r.docClosing = "discarded" /\ r.running = "idle" /\ goes("persistence")
           \/ /\ r.docClosing = "persistence" /\ r.persistenceClosed \in {"none", "done"}
              /\ goes("dispose")
        /\ UNCHANGED <<kind, claim, durable, serverGen, nextEdit, faults>>

\* held.dispose(); the owner of parts gives up the claim with a clean close.  A
\* failure is the backing's own, or one noted earlier, when the connection stopped.
Dispose(o) ==
    /\ s[o].docClosing = "dispose"
    /\ \/ /\ s' = [s EXCEPT ![o].docClosing = "done", ![o].fenced = TRUE,
                            ![o].acq = IF @ = "held" THEN "disposed" ELSE @]
          /\ claim' = IF s[o].host = "parts" /\ s[o].acq # "threw"
                      THEN claim \ {o} ELSE claim
          /\ UNCHANGED faults
       \/ /\ s[o].acq = "held" /\ Fault
          /\ \E left \in {"held"} \cup (IF s[o].connection = "stopped" THEN {"disposed"} ELSE {}) :
               s' = [s EXCEPT ![o].docClosing = "failed", ![o].fenced = TRUE, ![o].acq = left]
          /\ UNCHANGED claim
    /\ UNCHANGED <<kind, durable, serverGen, nextEdit>>

\* SQL or blobs finish closing.
ResourceCloses(o) ==
    /\ \/ /\ s[o].sqlite = "closing"
          /\ \/ s' = [s EXCEPT ![o].sqlite = "closed"] /\ UNCHANGED faults
             \/ Fault /\ s' = [s EXCEPT ![o].sqlite = "stuck"]
       \/ /\ s[o].blobs = "closing"
          /\ \/ s' = [s EXCEPT ![o].blobs = "closed"] /\ UNCHANGED faults
             \/ Fault /\ s' = [s EXCEPT ![o].blobs = "stuck"]
    /\ UNCHANGED <<kind, claim, durable, serverGen, nextEdit>>

\* An acquisition has settled and what it returned is closed.
Settled(state) == state \notin {"acquiring", "held", "closing"}

\* Mutant: only a failed close keeps the claim.
CleanWithoutAcquisitions(r) ==
    r.docClosing = "done" /\ r.sqlite # "stuck" /\ r.blobs # "stuck"

\* Every close succeeded and no acquisition threw.
Clean(r) ==
    /\ r.docClosing = "done" /\ r.acq # "threw"
    /\ r.sqlite \notin {"stuck", "threw"} /\ r.blobs \notin {"stuck", "threw"}

\* openStore()'s close(): document, blobs, SQL, then the claim.
CloseStep(o) ==
    LET r == s[o]
        goes(stage) == s' = [s EXCEPT ![o].closing = stage]
    IN  /\ \/ /\ r.closing = "document" /\ r.docClosing \in {"done", "failed", "rejected"}
              /\ goes("blobs") /\ UNCHANGED claim
           \/ r.closing = "blobs" /\ Settled(r.blobs) /\ goes("sqlite") /\ UNCHANGED claim
           \/ /\ r.closing = "sqlite" /\ Settled(r.sqlite)
              /\ IF Clean(r) THEN goes("done") /\ claim' = claim \ {o}
                 ELSE goes("failed") /\ UNCHANGED claim
        /\ UNCHANGED <<kind, durable, serverGen, nextEdit, faults>>

\* The page goes away: memory and claim end with it.  Transactions under way
\* are finished in order up to some point, and the rest never happens.
PageGone(o) ==
    /\ s[o].outcome \notin {"none", "gone"}
    /\ s' = [s EXCEPT ![o] = [Absent(s[o].host) EXCEPT !.outcome = "gone"]]
    /\ claim' = claim \ {o}
    /\ \/ UNCHANGED durable
       \/ /\ s[o].acq = "installing" /\ header' = s[o].gen /\ rows' = {}
          /\ UNCHANGED saved
       \/ /\ s[o].txns # <<>>
          /\ header' = HeaderAfter(Head(s[o].txns))
          /\ rows' = RowsAfter(s[o], Head(s[o].txns))
          /\ saved' = SavedAfter(Head(s[o].txns))
       \/ /\ Len(s[o].txns) = 2 \* a commit, then the discard
          /\ header' = HeaderDiscarded /\ rows' = {}
          /\ saved' = SavedAfter(Head(s[o].txns))
    /\ UNCHANGED <<kind, serverGen, nextEdit, faults>>

\* What runs by itself once started.
Progress(o) ==
    \/ OpenCache(o) \/ Download(o) \/ Install(o) \/ AcquireSqlite(o) \/ AcquireBlobs(o)
    \/ Ready(o) \/ Return(o) \/ Drain(o) \/ TxnDone(o) \/ FinalFlush(o)
    \/ FinalFlushEnds(o) \/ DocumentStep(o) \/ Dispose(o) \/ ResourceCloses(o)
    \/ CloseStep(o)

Next ==
    \/ Activate
    \/ \E o \in Openers :
         \/ Open(o) \/ Progress(o)
         \/ Edit(o) \/ EditAndClose(o) \/ Retire(o) \/ CallClose(o) \/ PageGone(o)

Spec == Init /\ [][Next]_vars

\* Storage, network and the event loop answer; nobody is obliged to open, edit,
\* close, retire or go away.
FairSpec == Spec /\ \A o \in Openers : WF_vars(Progress(o))
-----------------------------------------------------------------------------
(* Properties *)

TypeOK ==
    /\ kind \in Kinds
    /\ s \in [Openers -> Opener]
    /\ claim \subseteq Openers
    /\ header \in 0..MaxGeneration
    /\ rows \subseteq Generations \X Edits
    /\ serverGen \in Generations
    /\ nextEdit \in 1..(MaxEdits + 1)
    /\ faults \in 0..MaxFaults
    /\ saved \subseteq Edits

\* Something of the opener may still touch the address's storage.
Busy(r) ==
    \/ r.acq \in Acquiring \cup {"held", "threw"}
    \/ r.txns # <<>>
    \/ {r.sqlite, r.blobs} \cap {"acquiring", "held", "threw", "closing", "stuck"} # {}

\* The claim outlives everything its holder opened: as long as a database, a
\* transaction, SQL or blobs of an opener is open, being acquired or in an
\* unknown state, that opener alone has the claim (open-store.ts: "this
\* boundary owns exclusion until cleanup is proven").
Exclusive ==
    /\ TypeOK
    /\ \A o \in Openers : Busy(s[o]) => claim = {o}

\* A store that was retired and closed leaves nothing of its generation behind,
\* and the cache never holds a row of a generation other than the installed one:
\* a commit under way when the notice came is gone with the rest.
RetiredIsGone ==
    /\ \A o \in Openers : s[o].retired /\ s[o].docClosing = "done"
                            => header = 0 \/ header > s[o].gen
    /\ \A row \in rows : row[1] = header

\* A store closed without retirement and without a refused commit has saved
\* every edit it accepted, the one whose transaction called close() included.
CleanCloseSaves ==
    \A o \in Openers : s[o].docClosing = "done" /\ ~s[o].retired /\ ~s[o].refused
                          => s[o].accepted \subseteq saved

\* A store that was disposed or retired has no live connection, also when its
\* transport closed or retired it inside attach.
QuietAfterEnd ==
    \A o \in Openers : s[o].disposed \/ s[o].retired => s[o].connection # "live"

\* Nothing of the opener is under way, and a close that kept the claim had a
\* failure of storage, network or cleanup to report.
AtRest(r) ==
    /\ r.outcome # "opening"
    /\ r.docClosing \in {"none", "done", "failed", "rejected"}
    /\ r.closing \in {"none", "done"} \/ (r.closing = "failed" /\ faults > 0)

\* Every opening ends open or failed and every close settles; only a failure
\* makes a close keep the claim.
ClosingSettles == \A o \in Openers : []<>AtRest(s[o])
=============================================================================
