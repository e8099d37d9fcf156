------------------------------ MODULE SyncHub ------------------------------
(***************************************************************************)
(* One lifetime of the hub (packages/app/src/data/sync/hub.ts) under       *)
(* synchronous peers.                                                      *)
(*                                                                         *)
(* Every connection.send() hands control to a peer, which may call back    *)
(* into the hub before it returns: push, join, leave, or replace the       *)
(* generation.  The call stack is explicit: `stack` holds one record per   *)
(* call under way, and a "peer" record on top means a peer has control.    *)
(* StoreSync covers the same hub with asynchronous sockets and no calls    *)
(* inside calls.                                                           *)
(***************************************************************************)
EXTENDS Integers, Sequences, FiniteSets

CONSTANTS Peers, NoPeer,
          Chunks,        \* frames per payload
          SnapshotFloor, \* entries in the log that make the hub ask for a snapshot
          MaxMessages,   \* bound: messages the peers send
          MaxFailures    \* bound: storage failures

ASSUME HubAssumption ==
    /\ NoPeer \notin Peers
    /\ Chunks \in Nat \ {0} /\ SnapshotFloor \in Nat \ {0}
    /\ MaxMessages \in Nat /\ MaxFailures \in Nat

VARIABLES
    stack,
    up,       \* lifetime is defined
    members,  \* lifetime.connections
    pending,  \* lifetime.pending
    moved,    \* the authority's generation is past this hub's
    head, snap, \* the log and its newest snapshot
    p,        \* p[c]: a connection and what its peer has seen
    messages, failures

vars == <<stack, up, members, pending, moved, head, snap, p, messages, failures>>
lifetime == <<up, members, pending>>
log == <<head, snap>>

MaxHead == 1 + MaxMessages

Peer == [
    joined : BOOLEAN,
    cursor : 0..MaxHead,  \* connection.cursor
    pos : 0..MaxHead,     \* what the peer holds, by its own contiguity rule
    part : {"none", "entry", "snapshot"} \X (0..MaxHead) \X (0..Chunks),
    told : {"none", "admitted", "retired"},
    owed : 0..MaxMessages, \* pushes without an answer
    unacked : BOOLEAN,     \* ghost: an ack for it was dropped
    gap : BOOLEAN,         \* ghost: a frame did not continue what came before
    late : BOOLEAN]        \* ghost: history or an answer came after retirement

Rec(op, c) == [op |-> op, c |-> c, pc |-> "start", n |-> 0,
               item |-> <<"none", 0, 0>>, seen |-> {}, ret |-> "none"]

Init ==
    /\ stack = <<>> /\ up = TRUE /\ members = {} /\ pending = <<>> /\ moved = FALSE
    /\ head = 1 /\ snap = 1 \* seeded with a baseline
    /\ p \in [Peers -> {[joined |-> FALSE, cursor |-> n, pos |-> n,
                         part |-> <<"none", 0, 0>>, told |-> "none", owed |-> 0,
                         unacked |-> FALSE,
                         gap |-> FALSE, late |-> FALSE] : n \in 0..1}]
    /\ messages = 0 /\ failures = 0

-----------------------------------------------------------------------------
(* The call stack *)

Top == stack[Len(stack)]
Below == SubSeq(stack, 1, Len(stack) - 1)
Goes(pc) == Append(Below, [Top EXCEPT !.pc = pc])

\* The call on top returns a Result to its caller.
Returns(result) ==
    LET k == Len(stack) - 1 IN [Below EXCEPT ![k].ret = result]

\* A call of this kind has control.
Running(op) == stack # <<>> /\ Top.op = op

\* A peer has control, or the event loop does.
Free == stack = <<>> \/ Running("peer")

\* dispatchDepth: a join past its admission, or a drain, is under way.
DispatchDepth ==
    Cardinality({k \in DOMAIN stack :
        stack[k].op = "drain" \/ (stack[k].op = "join" /\ stack[k].pc \notin {"start", "refused"})})

-----------------------------------------------------------------------------
(* What a peer makes of a frame *)

Frame(kind, pos, chunk) == [kind |-> kind, pos |-> pos, chunk |-> chunk]

\* A payload's chunks must follow each other; a whole one must continue.
GotChunk(x, f) ==
    LET follows == f.chunk = 1 \/ x.part = <<f.kind, f.pos, f.chunk - 1>>
        whole == f.chunk = Chunks
        fits == f.kind = "snapshot" \/ f.pos <= x.pos + 1
    IN  [x EXCEPT !.part = <<f.kind, f.pos, f.chunk>>,
                  !.gap = @ \/ ~follows \/ (whole /\ ~fits),
                  !.pos = IF whole /\ follows /\ fits /\ f.pos > @ THEN f.pos ELSE @]

Got(x, f) ==
    LET seen == [x EXCEPT !.late = @ \/ (x.told = "retired" /\ f.kind # "retired")]
    IN  CASE f.kind \in {"admitted", "retired"} -> [seen EXCEPT !.told = f.kind]
          [] f.kind \in {"entry", "snapshot"}   -> GotChunk(seen, f)
          [] f.kind = "ack"    -> [seen EXCEPT !.owed = @ - 1, !.pos = f.pos,
                                               !.gap = @ \/ f.pos # x.pos + 1]
          [] f.kind = "refuse" -> [seen EXCEPT !.owed = @ - 1]
          [] OTHER             -> seen

Sent(c, f) == [p EXCEPT ![c] = Got(@, f)]

-----------------------------------------------------------------------------
(* Retirement and admission *)

\* Mutant: the lifetime ends after its members were told.
UpDuringNotices == TRUE

\* retire(): membership ends before any callback can send or join.
UpWhileNotifying == FALSE

Retire ==
    /\ up' = UpWhileNotifying
    /\ members' = IF up' THEN members ELSE {}
    /\ pending' = IF up' THEN pending ELSE <<>>

RetireRec == [Rec("retire", NoPeer) EXCEPT !.seen = members]

\* admission(): one of passing, storage failing, this hub's generation being
\* over (which retires it), or its lifetime having ended.
Admission(okStack, okPeers, failStack) ==
    \/ /\ up /\ ~moved
       /\ stack' = okStack /\ p' = okPeers
       /\ UNCHANGED <<lifetime, failures>>
    \/ /\ up /\ failures < MaxFailures
       /\ failures' = failures + 1
       /\ stack' = failStack /\ UNCHANGED <<lifetime, p>>
    \/ /\ up /\ moved
       /\ stack' = Append(failStack, RetireRec)
       /\ Retire /\ UNCHANGED <<p, failures>>
    \/ /\ ~up
       /\ stack' = failStack /\ UNCHANGED <<lifetime, p, failures>>

\* send(): admission before, the peer's callback, and (in the step that follows
\* it) admission after.
Send(c, f, pc, failStack) ==
    Admission(Append(Goes(pc), Rec("peer", c)), Sent(c, f), failStack)

\* A read or write of the bound log fails.
StorageFails(failStack) ==
    /\ failures < MaxFailures
    /\ failures' = failures + 1
    /\ stack' = failStack
    /\ UNCHANGED <<lifetime, p>>

-----------------------------------------------------------------------------
(* Calls into the hub *)

JoinCall(c) ==
    /\ Free /\ ~p[c].joined
    /\ p' = [p EXCEPT ![c].joined = TRUE]
    /\ stack' = Append(stack, Rec("join", c))
    /\ UNCHANGED <<lifetime, moved, log, messages, failures>>

\* Mutant: a message is processed inside the delivery that provoked it.
MayDrainAlways == TRUE

\* drain(): only the outermost call processes messages.
MayDrain == DispatchDepth = 0

\* receive(): queued, then drained unless a delivery is under way.
ReceiveCall(c) ==
    /\ Free /\ p[c].joined /\ messages < MaxMessages
    /\ \E item \in {<<"push", 0, 0>>, <<"offer", p[c].pos, 0>>} :
        /\ pending' = IF up THEN Append(pending, [c |-> c, item |-> item]) ELSE pending
        /\ p' = IF up /\ item[1] = "push" THEN [p EXCEPT ![c].owed = @ + 1] ELSE p
    /\ stack' = IF MayDrain THEN Append(stack, Rec("drain", NoPeer)) ELSE stack
    /\ messages' = messages + 1
    /\ UNCHANGED <<up, members, moved, log, failures>>

LeaveCall(c) ==
    /\ Free /\ c \in members
    /\ members' = members \ {c}
    /\ UNCHANGED <<stack, up, pending, moved, log, p, messages, failures>>

\* hub.retire(), from an activation here or from createHub(); the generation may
\* also be replaced through another authority over the same database.
RetireCall ==
    /\ Free /\ up
    /\ moved' \in {moved, TRUE}
    /\ stack' = Append(stack, RetireRec)
    /\ Retire
    /\ UNCHANGED <<log, p, messages, failures>>

ReplacedElsewhere ==
    /\ Free /\ ~moved
    /\ moved' = TRUE
    /\ UNCHANGED <<stack, lifetime, log, p, messages, failures>>

\* The peer's callback returns.
PeerReturns ==
    /\ Running("peer")
    /\ stack' = Below
    /\ UNCHANGED <<lifetime, moved, log, p, messages, failures>>

\* retire() tells one member after the other.
RetireStep ==
    /\ Running("retire")
    /\ \/ \E c \in Top.seen :
            /\ p' = Sent(c, Frame("retired", 0, 0))
            /\ stack' = Append(Append(Below, [Top EXCEPT !.seen = @ \ {c}]), Rec("peer", c))
            /\ UNCHANGED lifetime
       \/ /\ Top.seen = {}
          /\ stack' = Below /\ up' = FALSE /\ members' = {} /\ pending' = <<>>
          /\ UNCHANGED p
    /\ UNCHANGED <<moved, log, messages, failures>>

-----------------------------------------------------------------------------
(* join() *)

\* Mutant: a failed catch-up keeps its membership.
MembersAfterFailureKept(c) == members

\* Catch-up must succeed for membership to survive.
MembersAfterFailure(c) == members \ {c}

JoinStep ==
    LET c == Top.c
    IN  /\ Running("join")
        /\ \/ /\ Top.pc = "start"
              /\ Admission(Goes("enter"), p, Goes("refused"))
           \/ /\ Top.pc = "refused" \* told so if the lifetime is over
              /\ IF up THEN stack' = Below /\ p' = p
                 ELSE /\ stack' = Append(Below, Rec("peer", c))
                      /\ p' = Sent(c, Frame("retired", 0, 0))
              /\ UNCHANGED <<lifetime, failures>>
           \/ /\ Top.pc = "enter"
              /\ members' = members \cup {c} /\ stack' = Goes("admit")
              /\ UNCHANGED <<up, pending, p, failures>>
           \/ /\ Top.pc = "admit"
              /\ Send(c, Frame("admitted", 0, 0), "admitted", Goes("failed"))
           \/ /\ Top.pc = "admitted"
              /\ Admission(Append(Goes("delivered"), [Rec("deliver", c) EXCEPT !.n = MaxHead]),
                           p, Goes("failed"))
           \/ /\ Top.pc = "delivered"
              /\ stack' = Goes(IF Top.ret = "ok" THEN "end" ELSE "failed")
              /\ UNCHANGED <<lifetime, p, failures>>
           \/ /\ Top.pc = "failed"
              /\ members' = MembersAfterFailure(c) /\ stack' = Goes("end")
              /\ UNCHANGED <<up, pending, p, failures>>
           \/ /\ Top.pc = "end" \* drain(), if this was the outermost call
              /\ stack' = IF DispatchDepth = 1 THEN Append(Below, Rec("drain", NoPeer)) ELSE Below
              /\ UNCHANGED <<lifetime, p, failures>>
        /\ UNCHANGED <<moved, log, messages>>

-----------------------------------------------------------------------------
(* deliver(), with catchUpToSnapshot() *)

DeliverStep ==
    LET c == Top.c
        item == Top.item
        Chunk(i) == Append(Below, [Top EXCEPT !.pc = "chunk", !.item = i])
        reading == Top.pc \in {"snapshot", "next"}
    IN  /\ Running("deliver")
        /\ \/ Top.pc = "start" /\ Admission(Goes("snapshot"), p, Goes("failed"))
           \/ reading /\ StorageFails(Goes("failed"))
           \/ /\ Top.pc = "snapshot"
              /\ stack' = IF p[c].cursor < snap THEN Chunk(<<"snapshot", snap, 1>>)
                          ELSE Goes("next")
              /\ UNCHANGED <<lifetime, p, failures>>
           \/ /\ Top.pc = "next"
              /\ LET done == p[c].cursor >= head \/ p[c].cursor >= Top.n
                 IN  stack' = IF done THEN Returns("ok")
                              ELSE Chunk(<<"entry", p[c].cursor + 1, 1>>)
              /\ UNCHANGED <<lifetime, p, failures>>
           \/ /\ Top.pc = "chunk"
              /\ Send(c, Frame(item[1], item[2], item[3]), "sent", Goes("failed"))
           \/ /\ Top.pc = "sent"
              /\ IF item[3] < Chunks
                 THEN Admission(Chunk(<<item[1], item[2], item[3] + 1>>), p, Goes("failed"))
                 ELSE Admission(Goes("next"), [p EXCEPT ![c].cursor = item[2]], Goes("failed"))
           \/ /\ Top.pc = "failed"
              /\ stack' = Returns("err") /\ UNCHANGED <<lifetime, p, failures>>
        /\ UNCHANGED <<moved, log, messages>>

-----------------------------------------------------------------------------
(* drain() and process() *)

DrainStep ==
    /\ Running("drain")
    /\ IF pending # <<>>
       THEN /\ stack' = Append(stack, [Rec("process", Head(pending).c)
                                         EXCEPT !.item = Head(pending).item])
            /\ pending' = Tail(pending)
       ELSE stack' = Below /\ UNCHANGED pending
    /\ UNCHANGED <<up, members, moved, log, p, messages, failures>>

\* takeOffer(), with the authority's own check.
TakesOffer(c, position) ==
    p[c].cursor >= position /\ position <= head /\ position > snap

Delivering(pc, rec, d, ceiling) ==
    Append(Append(Below, [rec EXCEPT !.pc = pc]), [Rec("deliver", d) EXCEPT !.n = ceiling])

\* process(): the append, what the pusher has not been sent, its ack, the
\* relays, and the request for a snapshot.
ProcessStep ==
    LET c == Top.c
        rest == members \ (Top.seen \cup {c})
        wanted == up /\ ~moved /\ head - snap >= SnapshotFloor /\ p[c].cursor = head
    IN  /\ Running("process")
        /\ \/ /\ Top.pc = "start"
              /\ IF up /\ c \in members
                 THEN Admission(Goes(Top.item[1]), p,
                                Goes(IF Top.item[1] = "push" THEN "refuse" ELSE "end"))
                 ELSE stack' = Below /\ UNCHANGED <<lifetime, p, failures>>
              /\ UNCHANGED log
           \/ /\ Top.pc = "offer"
              /\ snap' = IF TakesOffer(c, Top.item[2]) THEN Top.item[2] ELSE snap
              /\ stack' = Below
              /\ UNCHANGED <<lifetime, p, failures, head>>
           \/ /\ Top.pc = "push"
              /\ \/ /\ head' = head + 1
                    /\ stack' = Delivering("delivered", [Top EXCEPT !.n = head + 1], c, head)
                    /\ UNCHANGED <<lifetime, p, failures, snap>>
                 \/ StorageFails(Goes("refuse")) /\ UNCHANGED log
           \/ /\ Top.pc = "delivered"
              /\ IF Top.ret = "ok"
                 THEN stack' = Goes("ack") /\ p' = [p EXCEPT ![c].cursor = Top.n]
                 ELSE stack' = Goes("refuse") /\ p' = p
              /\ UNCHANGED <<lifetime, failures, log>>
           \/ /\ Top.pc = "ack"
              /\ Send(c, Frame("ack", Top.n, 1), "acked", Goes("unacked"))
              /\ UNCHANGED log
           \/ /\ Top.pc = "unacked" \* send()'s error is not looked at
              /\ stack' = Goes("relay") /\ p' = [p EXCEPT ![c].unacked = TRUE]
              /\ UNCHANGED <<lifetime, failures, log>>
           \/ Top.pc = "acked" /\ Admission(Goes("relay"), p, Goes("relay")) /\ UNCHANGED log
           \/ /\ Top.pc = "relay"
              /\ \/ \E d \in rest :
                      stack' = Delivering("relay", [Top EXCEPT !.seen = @ \cup {d}], d, MaxHead)
                 \/ rest = {} /\ stack' = Goes("ask")
              /\ UNCHANGED <<lifetime, p, failures, log>>
           \/ /\ Top.pc = "ask"
              /\ IF wanted THEN Send(c, Frame("wanted", head, 1), "asked", Below)
                 ELSE stack' = Below /\ UNCHANGED <<lifetime, p, failures>>
              /\ UNCHANGED log
           \/ Top.pc = "asked" /\ Admission(Below, p, Below) /\ UNCHANGED log
           \/ /\ Top.pc = "refuse" \* without admission, to a member only
              /\ IF up /\ c \in members
                 THEN stack' = Append(Goes("end"), Rec("peer", c)) /\ p' = Sent(c, Frame("refuse", 0, 1))
                 ELSE stack' = Below /\ p' = p
              /\ UNCHANGED <<lifetime, failures, log>>
           \/ Top.pc = "end" /\ stack' = Below /\ UNCHANGED <<lifetime, p, failures, log>>
        /\ UNCHANGED <<moved, messages>>

HubStep == PeerReturns \/ RetireStep \/ JoinStep \/ DeliverStep \/ DrainStep \/ ProcessStep

Next ==
    \/ HubStep
    \/ RetireCall \/ ReplacedElsewhere
    \/ \E c \in Peers : JoinCall(c) \/ ReceiveCall(c) \/ LeaveCall(c)

Spec == Init /\ [][Next]_vars
-----------------------------------------------------------------------------
(* Properties *)

TypeOK ==
    /\ \A k \in DOMAIN stack : stack[k].op \in {"peer", "retire", "join", "deliver", "drain", "process"}
    /\ up \in BOOLEAN /\ moved \in BOOLEAN
    /\ members \subseteq Peers
    /\ ~up => members = {} /\ pending = <<>>
    /\ head \in 1..MaxHead /\ snap \in 1..head
    /\ p \in [Peers -> Peer]

\* Whatever peers do inside a send, each of them sees whole payloads whose
\* chunks follow each other, positions without a gap, and an ack exactly one
\* past what it holds, unless storage failed between an append and its ack.
Contiguous == TypeOK /\ \A c \in Peers : p[c].gap => p[c].unacked

\* Once a peer was told that its generation is retired it gets no history and
\* no answer from this hub, also when it pushes or joins inside the notice.
NothingAfterRetired == \A c \in Peers : ~p[c].late

\* When no call is under way nothing is queued.  Every member was admitted, is at
\* the head unless a storage failure broke off a delivery or its relays, and has
\* one answer to each of its pushes unless storage failed between the append
\* and the ack.
NoStrandedMessage ==
    stack = <<>> =>
        /\ pending = <<>>
        /\ \A c \in members : /\ p[c].owed = 0 \/ p[c].unacked
                              /\ p[c].cursor = head \/ failures > 0
                              /\ p[c].told = "admitted"
=============================================================================
