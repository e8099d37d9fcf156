--------------------------- MODULE ChunkCollector ---------------------------
(***************************************************************************)
(* Reassembly of chunked frames at one end of a socket                     *)
(* (packages/app/src/data/sync/frames.ts, createChunkCollector), with what *)
(* its two owners do: a client that meets an error reconnects with a new   *)
(* collector, and the hub forgets the position, answers and reads on.      *)
(*                                                                         *)
(* A payload is cut into chunks of one unit each (intoChunks); a chunk is  *)
(* the sending it belongs to and its index, so "the bytes that were sent"  *)
(* can be stated.  A sender writes all chunks of a payload in one go, so   *)
(* payloads do not interleave on a socket, but a failing authority may     *)
(* break one off in the middle.  Pushes, offers, entries and snapshots     *)
(* share one key space: a submission number, a seq or a position.  A       *)
(* client numbers its pushes upwards, also after a refusal, and the        *)
(* positions it is asked to offer grow, so the hub sees a key at most      *)
(* twice on a socket; a client may see it again and again.                 *)
(***************************************************************************)
EXTENDS Integers, Sequences, FiniteSets

CONSTANTS Positions,   \* keys: submission numbers, seqs, positions
          MaxChunks,   \* bound: chunks of one payload
          MaxSends,    \* bound: payloads sent
          LimitBytes   \* BUFFER_CEILING_BYTES, in units

ASSUME CollectorAssumption ==
    /\ Positions \subseteq Nat \ {0} /\ IsFiniteSet(Positions)
    /\ MaxChunks \in Nat \ {0} /\ MaxSends \in Nat /\ LimitBytes \in Nat

VARIABLES atHub,    \* whose collector this is: the hub's or a client's; fixed
          partials, \* position -> the chunks of an incomplete payload, by index
          buffered, \* the byte count kept beside them
          wire,     \* chunks on the socket
          sends,    \* payloads sent so far
          newest,   \* at the hub, the last key of each kind, or 0
          whole,    \* the payload accept() returned last and its key, or Nothing
          refused   \* ghost: the keys under which this collector refused a payload

collectorVars == <<atHub, partials, buffered, wire, sends, newest, whole, refused>>

\* What a key numbers: push and entry, or offer and snapshot.
Kinds == {"entry", "snapshot"}

\* A hole of the sparse array.
Hole == [send |-> 0, chunk |-> 0]
Nothing == [position |-> 0, chunks |-> <<>>]

CollectorInit ==
    /\ atHub \in BOOLEAN
    /\ partials = <<>>
    /\ buffered = 0
    /\ wire = <<>>
    /\ sends = 0
    /\ newest = [kind \in Kinds |-> 0]
    /\ whole = Nothing
    /\ refused = {}

Held(p) == {i \in DOMAIN partials[p] : partials[p][i] # Hole}

\* partials.delete(position)
Without(p) == [q \in DOMAIN partials \ {p} |-> partials[q]]

\* The sender cuts a payload and writes its chunks.
SendPayload(kind, p, n) ==
    /\ wire = <<>>
    /\ sends < MaxSends
    /\ atHub => newest[kind] < p
    /\ newest' = IF atHub THEN [newest EXCEPT ![kind] = p] ELSE newest
    /\ sends' = sends + 1
    /\ wire' = [i \in 1..n |-> [position |-> p, chunk |-> i, chunks |-> n, send |-> sends + 1]]
    /\ whole' = Nothing
    /\ UNCHANGED <<atHub, partials, buffered, refused>>

\* The sender stops in the middle of a payload: only the hub does, when its
\* storage fails between two chunks of a delivery.
BreakOff ==
    /\ ~atHub
    /\ wire # <<>>
    /\ wire' = <<>>
    /\ whole' = Nothing
    /\ UNCHANGED <<atHub, partials, buffered, sends, newest, refused>>

Frame == Head(wire)
Partial ==
    IF Frame.position \in DOMAIN partials
      THEN partials[Frame.position] ELSE [i \in 1..Frame.chunks |-> Hole]
PartialHeld == {i \in DOMAIN Partial : Partial[i] # Hole}

\* buffered -= partial.held
BufferedWithout == buffered - Cardinality(PartialHeld)

Fits == buffered + 1 <= LimitBytes

\* accept() of the only chunk of a payload: nothing is buffered.
AcceptSingle ==
    /\ wire # <<>> /\ Frame.chunks = 1
    /\ whole' = [position |-> Frame.position, chunks |-> <<[send |-> Frame.send, chunk |-> 1]>>]
    /\ wire' = Tail(wire)
    /\ UNCHANGED <<atHub, partials, buffered, sends, newest, refused>>

\* accept() refuses: the chunk count changed, or the ceiling is reached.
AcceptRefuses ==
    /\ wire # <<>> /\ Frame.chunks > 1
    /\ Len(Partial) # Frame.chunks \/ ~Fits
    /\ whole' = Nothing
    /\ IF atHub
         THEN \* refuse() and forget(); the rest of the payload still arrives
              /\ partials' = Without(Frame.position)
              /\ buffered' = BufferedWithout
              /\ wire' = Tail(wire)
              /\ refused' = refused \union {Frame.position}
         ELSE \* brokenStream(): a new socket and a new collector
              /\ partials' = <<>>
              /\ buffered' = 0
              /\ wire' = <<>>
              /\ UNCHANGED refused
    /\ UNCHANGED <<atHub, sends, newest>>

\* Mutant: complete when no slot that was ever set is missing, holes skipped.
CompleteBySlots(chunks) == TRUE

\* Counted rather than probed: a sparse array's holes are not filled.
Complete(chunks) == \A i \in DOMAIN chunks : chunks[i] # Hole

\* accept() of one chunk among several; a re-sent chunk replaces its slot.
AcceptChunk ==
    /\ wire # <<>> /\ Frame.chunks > 1
    /\ Len(Partial) = Frame.chunks /\ Fits
    /\ LET p == Frame.position
           i == Frame.chunk
           chunks == [Partial EXCEPT ![i] = [send |-> Frame.send, chunk |-> i]]
           added == IF i \in PartialHeld THEN 0 ELSE 1
       IN  IF Complete(chunks)
             THEN /\ partials' = Without(p)
                  /\ buffered' = BufferedWithout
                  /\ whole' = [position |-> p, chunks |-> chunks]
             ELSE /\ partials' = [q \in DOMAIN partials \union {p} |->
                                    IF q = p THEN chunks ELSE partials[q]]
                  /\ buffered' = buffered + added
                  /\ whole' = Nothing
    /\ wire' = Tail(wire)
    /\ UNCHANGED <<atHub, sends, newest, refused>>

CollectorNext ==
    \/ \E kind \in Kinds, p \in Positions, n \in 1..MaxChunks : SendPayload(kind, p, n)
    \/ BreakOff
    \/ AcceptSingle
    \/ AcceptRefuses
    \/ AcceptChunk

CollectorSpec == CollectorInit /\ [][CollectorNext]_collectorVars
-----------------------------------------------------------------------------
CollectorTypeOK ==
    /\ atHub \in BOOLEAN
    /\ DOMAIN partials \subseteq Positions
    /\ \A p \in DOMAIN partials : Len(partials[p]) \in 2..MaxChunks
    /\ buffered \in Nat
    /\ sends \in 0..MaxSends /\ newest \in [Kinds -> Positions \union {0}]
    /\ refused \subseteq Positions

\* The count kept beside the partials is exactly what they hold, and never
\* more than the ceiling, whatever was replaced, dropped or completed.
BufferedSlots ==
    {s \in Positions \X (1..MaxChunks) : s[1] \in DOMAIN partials /\ s[2] \in Held(s[1])}
BufferedExact == buffered = Cardinality(BufferedSlots) /\ buffered <= LimitBytes

\* "Collect the chunks of one submission until it is whole": what comes out is
\* one payload as it was sent, all its chunks, in order and of one sending,
\* though a position may be sent again after it was broken off and entries and
\* snapshots share their keys.  The one exception is a key of which the hub
\* refused an earlier payload: the chunks that arrived after the refusal are
\* still there.
WholeIsOnePayload ==
    whole.position \notin refused =>
        \A i \in DOMAIN whole.chunks :
            whole.chunks[i] = [send |-> whole.chunks[1].send, chunk |-> i]

\* Reassembly: the count is exact and under the ceiling, and what comes out is
\* one payload.
Reassembled == CollectorTypeOK /\ BufferedExact /\ WholeIsOnePayload
=============================================================================
