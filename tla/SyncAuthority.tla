---------------------------- MODULE SyncAuthority ---------------------------
(***************************************************************************)
(* The current-generation authority of one store                           *)
(* (packages/app/src/data/sync/authority.ts): one log of opaque updates, a  *)
(* snapshot that stands for its prefix, the generation they belong to, and *)
(* the receipts of the activations that replaced a whole generation.       *)
(*                                                                         *)
(* Every verb is one SQLite transaction, so every verb is one action; a     *)
(* storage failure rolls the transaction back and is a stuttering step.    *)
(* prepareActivation awaits a digest, so preparing and activating are two  *)
(* actions and any verb may run between them.                              *)
(***************************************************************************)
EXTENDS AuthorityLog, Sequences

CONSTANTS Inputs,        \* the nonempty updates callers author
          Operations,    \* ids a caller may give an activation
          MaxHead,       \* bound: entries per generation
          MaxGeneration, \* bound: activations
          MaxPrepared    \* bound: activations prepared and held by a caller

\* ensureCurrent and prepareActivation refuse empty bytes.
ASSUME InputsAssumption == Inputs \subseteq Update \ {{}}

ASSUME BoundsAssumption ==
    /\ MaxHead \in Nat \ {0}
    /\ MaxGeneration \in Nat \ {0}
    /\ MaxPrepared \in Nat \ {0}

VARIABLES log,        \* _log
          snaps,      \* _snapshot
          generation, \* _current_generation; 0 while the row is absent
          receipts,   \* _restore_receipts
          hub,        \* generation of currentHub; 0 while undefined
          prepared,   \* activations some caller holds and has not dropped
          history     \* ghost: what each position of this generation stood for

durable == <<log, snaps, generation, receipts, history>>
vars == <<log, snaps, generation, receipts, hub, prepared, history>>

\* What an activation asks for: which generation and head it replaces, and by
\* what.  The digest column identifies the bytes, so the bytes stand for it.
\* `seen` is a ghost: what the caller had captured when it asked.
Request == [operation : Operations, expectedGeneration : Nat, expectedHead : Nat,
            bytes : Update, seen : Update]

Receipt == [operation : Operations, expectedGeneration : Nat, expectedHead : Nat,
            bytes : Update, generation : Nat]

LogHead == head(log, snaps)

\* Everything the current generation has accepted.
Accepted == UNION {history[i] : i \in 1..Len(history)}

\* capture(): the newest snapshot and the tail after it.
Captured == snapshot(snaps).bytes
            \union UNION {row.bytes : row \in since(log, snapshotPosition(snaps))}

Init ==
    /\ log = {}
    /\ snaps = {}
    /\ generation = 0
    /\ receipts = {}
    /\ hub = 0
    /\ prepared = {}
    /\ history = <<>>

\* ensureCurrent initializes once; a later opener only reads.
EnsureCurrent(bytes) ==
    /\ generation = 0
    /\ LogHead = 0
    /\ snaps' = writeSnapshot(snaps, 1, bytes)
    /\ generation' = 1
    /\ history' = <<bytes>>
    /\ UNCHANGED <<log, receipts, hub, prepared>>

\* A verb of bind(g): admitted only while g is the current generation.
Admitted(g) == generation = g

Append_(g, bytes) ==
    /\ Admitted(g)
    /\ LogHead < MaxHead
    /\ log' = append(log, snaps, bytes)
    /\ history' = Append(history, bytes)
    /\ UNCHANGED <<snaps, generation, receipts, hub, prepared>>

\* What an offered state must carry to stand for the first p positions.  The
\* authority cannot check it; StoreSync shows that every offer meets it.
CoversThrough(bytes, p) == \A i \in 1..p : history[i] \subseteq bytes

ReplaceSnapshot(g, p, bytes) ==
    /\ Admitted(g)
    /\ SnapshotUsable(log, snaps, p)
    /\ CoversThrough(bytes, p)
    /\ log' = foldedLog(log, p)
    /\ snaps' = foldedSnaps(snaps, p, bytes)
    /\ UNCHANGED <<generation, receipts, hub, prepared, history>>

\* createHub reuses the hub of this generation and retires an older one.
CreateHub(g) ==
    /\ Admitted(g)
    /\ hub # g
    /\ hub' = g
    /\ UNCHANGED <<durable, prepared>>

\* A caller captures, builds replacement bytes, and awaits the digest.
PrepareActivation(operation, bytes) ==
    /\ generation # 0
    /\ Cardinality(prepared) < MaxPrepared
    /\ prepared' = prepared \union
         {[operation |-> operation, expectedGeneration |-> generation,
           expectedHead |-> LogHead, bytes |-> bytes, seen |-> Captured]}
    /\ UNCHANGED <<durable, hub>>

\* Mutant: activate() without the lookup of an earlier receipt.
PreviousNotLookedUp(operation) == {}

\* The receipts an operation id already has.
Previous(operation) == {r \in receipts : r.operation = operation}

\* Mutant: the precondition compares the generation and not the head.
AsExpectedGenerationOnly(request) == generation = request.expectedGeneration

\* The precondition of a replacement, read inside its transaction.
AsExpected(request) ==
    /\ generation = request.expectedGeneration
    /\ LogHead = request.expectedHead

\* After the commit the hub of an older generation is retired.
HubAfter(g) == IF hub # 0 /\ hub < g THEN 0 ELSE hub

\* activate() with no earlier receipt, on exactly the state it expected.
Activate(request) ==
    /\ request \in prepared
    /\ generation < MaxGeneration
    /\ Previous(request.operation) = {}
    /\ AsExpected(request)
    /\ log' = {}
    /\ snaps' = {[position |-> 1, bytes |-> request.bytes]}
    /\ generation' = request.expectedGeneration + 1
    /\ receipts' = receipts \union
         {[operation |-> request.operation,
           expectedGeneration |-> request.expectedGeneration,
           expectedHead |-> request.expectedHead,
           bytes |-> request.bytes,
           generation |-> request.expectedGeneration + 1]}
    /\ history' = <<request.bytes>>
    /\ hub' = HubAfter(request.expectedGeneration + 1)
    /\ UNCHANGED prepared

\* The caller gives an activation up, whatever the answer was: a replayed
\* receipt, 'operation-conflict' and 'conflict' change nothing in the store.
DropActivation(request) ==
    /\ request \in prepared
    /\ prepared' = prepared \ {request}
    /\ UNCHANGED <<durable, hub>>

\* The process ends and reopens over the same file.
Reopen ==
    /\ hub # 0 \/ prepared # {}
    /\ hub' = 0
    /\ prepared' = {}
    /\ UNCHANGED durable

Next ==
    \/ \E bytes \in Inputs : EnsureCurrent(bytes)
    \/ \E g \in 1..MaxGeneration, bytes \in Inputs : Append_(g, bytes)
    \/ \E g \in 1..MaxGeneration, p \in 1..MaxHead, bytes \in Update :
            ReplaceSnapshot(g, p, bytes)
    \/ \E g \in 1..MaxGeneration : CreateHub(g)
    \/ \E op \in Operations, bytes \in Inputs : PrepareActivation(op, bytes)
    \/ \E request \in prepared : Activate(request) \/ DropActivation(request)
    \/ Reopen

Spec == Init /\ [][Next]_vars
-----------------------------------------------------------------------------
TypeOK ==
    /\ log \subseteq LogRow
    /\ snaps \subseteq SnapshotRow
    /\ generation \in Nat
    /\ receipts \subseteq Receipt
    /\ hub \in Nat
    /\ prepared \subseteq Request
    /\ history \in Seq(Update)

\* Positions are never reused: the derived head is the number of positions
\* handed out in this generation, however much of the log a fold deleted.
HeadCountsPositions == LogHead = Len(history)

\* capture() never throws 'has no baseline' or 'has a gap', and a connection
\* at or past the snapshot is always served a contiguous tail.
TailContiguous ==
    generation # 0 =>
        /\ snaps # {}
        /\ Seqs(since(log, snapshotPosition(snaps)))
             = (snapshotPosition(snaps) + 1)..Len(history)

\* The log of a generation is sound: typed, its positions never reused, and
\* without a gap after the newest snapshot, whatever folds removed.
LogSound == TypeOK /\ HeadCountsPositions /\ TailContiguous

\* What ensureCurrent and capture hand a new device carries every update the
\* generation accepted, although folds discarded the entries themselves.
CaptureComplete == generation # 0 => Accepted \subseteq Captured

\* Each generation after the first came from exactly one activation, no
\* operation id activated twice, and a receipt names a generation that existed.
ReceiptsChain ==
    /\ \A r \in receipts : r.generation \in 2..generation
    /\ \A g \in 2..generation : \E r \in receipts : r.generation = g
    /\ \A r, s \in receipts :
            r.operation = s.operation \/ r.generation = s.generation => r = s

\* No hub outlives its generation: a connection is never served by a hub that
\* is bound to a generation the store has left.
HubIsCurrent == hub \in {0, generation}

\* There is one line of generations, whatever activations raced or were
\* repeated, and the hub in memory serves its last one.
OneGeneration == ReceiptsChain /\ HubIsCurrent

\* An activation never discards an accepted update its caller had not captured,
\* although appends and other activations may run while its digest is awaited.
ActivationFresh ==
    [][generation # 0 /\ generation' # generation =>
         \E request \in prepared :
            /\ \E r \in receipts' \ receipts : r.operation = request.operation
            /\ Accepted \subseteq request.seen]_vars
=============================================================================
