--------------------------- MODULE ReplicatedLog ----------------------------
(***************************************************************************)
(* What syncing a store promises, without sockets, frames, queues or       *)
(* snapshots: there is one log that only grows; each replica holds a       *)
(* document and a position, and a replica at a position holds everything   *)
(* the log recorded through it.  A restart may forget work that was never  *)
(* made durable and may go back to an earlier position, but never to one   *)
(* that its document does not cover.                                       *)
(***************************************************************************)
EXTENDS Integers, Sequences

CONSTANTS Replicas, Edits

VARIABLES authored, \* edits made so far
          record,   \* record[i] is what the log holds at position i
          doc,      \* each replica's document
          position  \* each replica's position in the log

vars == <<authored, record, doc, position>>

Through(p) == UNION {record[i] : i \in 1..p}

Init ==
    /\ authored = {}
    /\ record = <<{}>>   \* a generation begins with its baseline
    /\ doc = [r \in Replicas |-> {}]
    /\ position = [r \in Replicas |-> 0]

\* A replica makes an edit of its own.
Author(r) ==
    /\ \E e \in Edits \ authored :
         /\ authored' = authored \union {e}
         /\ doc' = [doc EXCEPT ![r] = @ \union {e}]
    /\ UNCHANGED <<record, position>>

\* The log records work of some replica at its next position.
Record ==
    /\ \E r \in Replicas : \E work \in SUBSET doc[r] : record' = Append(record, work)
    /\ UNCHANGED <<authored, doc, position>>

\* A replica moves forward and holds everything on the way.
Advance(r) ==
    /\ \E p \in (position[r] + 1)..Len(record), known \in SUBSET authored :
         /\ doc[r] \union Through(p) \subseteq known
         /\ doc' = [doc EXCEPT ![r] = known]
         /\ position' = [position EXCEPT ![r] = p]
    /\ UNCHANGED <<authored, record>>

\* A replica restarts from an earlier state that covers its position.
Restart(r) ==
    /\ \E p \in 0..position[r], known \in SUBSET doc[r] :
         /\ Through(p) \subseteq known
         /\ doc' = [doc EXCEPT ![r] = known]
         /\ position' = [position EXCEPT ![r] = p]
    /\ UNCHANGED <<authored, record>>

Next ==
    \/ \E r \in Replicas : Author(r) \/ Advance(r) \/ Restart(r)
    \/ Record

Spec == Init /\ [][Next]_vars
=============================================================================
