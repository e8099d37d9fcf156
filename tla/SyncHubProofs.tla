--------------------------- MODULE SyncHubProofs ---------------------------
(***************************************************************************)
(* Proofs about SyncHub, for every set of peers, every number of chunks,   *)
(* messages and storage failures, and any depth of calls inside calls.     *)
(*                                                                         *)
(* The inductive invariant has two halves.  The first is about the stack   *)
(* alone: who called whom, that there is one drain and that no join past   *)
(* its admission is below it.  It follows that at most one call at a time  *)
(* feeds a connection.  The second relates each call under way to the      *)
(* connection it is about, and says what is owed while it is under way.    *)
(***************************************************************************)
EXTENDS SyncHub, FiniteSetTheorems, SequenceTheorems, TLAPS

Ops == {"peer", "retire", "join", "deliver", "drain", "process"}
Pcs == {"start", "refused", "enter", "admit", "admitted", "delivered", "failed", "end",
        "snapshot", "next", "chunk", "sent", "push", "offer", "refuse", "ack", "unacked",
        "acked", "relay", "ask", "asked", "none", "entry"}
Items == {"none", "push", "offer", "entry", "snapshot"} \X (0..MaxHead) \X (0..Chunks)
Kinds == {"push", "offer"}

\* A record of the stack.
Call == [op : Ops, c : Peers \cup {NoPeer}, pc : Pcs, n : 0..MaxHead, item : Items,
         seen : SUBSET Peers, ret : {"none", "ok", "err"}]

About(r, c) == r.op \in {"join", "deliver", "process"} /\ r.c = c

\* What dispatchDepth counts.
Active(r) == r.op = "drain" \/ (r.op = "join" /\ r.pc \notin {"start", "refused"})

\* The call a (the caller) may have made the call r.
Delivers(a, r) ==
    \/ a.op = "join" /\ a.pc = "delivered" /\ a.c = r.c /\ r.n = MaxHead
    \/ /\ a.op = "process" /\ a.pc = "delivered" /\ a.c = r.c
       /\ r.n = a.n - 1 /\ r.item[2] < a.n
    \/ a.op = "process" /\ a.pc = "relay" /\ r.c \in a.seen /\ a.c # r.c /\ r.n = MaxHead

Waiting(r) == r.op = "process" /\ r.pc = "delivered" /\ r.ret = "none"
Entering(r, c) == r.op = "join" /\ r.c = c /\ r.pc \in {"start", "enter"}

\* A push waits for its delivery only, and a join goes from its admission to its
\* membership before anything else runs.
Calls(a, r) ==
    /\ r.op = "process" => a.op = "drain"
    /\ r.op = "deliver" => Delivers(a, r)
    /\ Waiting(a) => r.op = "deliver"
    /\ ~Entering(a, a.c)

Parents(s) ==
    \A k \in 1..Len(s) :
        IF k = 1 THEN s[k].op \notin {"process", "deliver"} ELSE Calls(s[k - 1], s[k])

OneDrain(s) ==
    \A j, k \in 1..Len(s) : j < k /\ s[k].op = "drain" => ~Active(s[j])

JoinFirst(s) ==
    \A j, k \in 1..Len(s) : s[j].op = "join" /\ About(s[k], s[j].c) => j <= k

Structured(s) ==
    /\ s \in Seq(Call)
    /\ \A k \in 1..Len(s) : s[k].op \in {"peer", "join", "deliver", "process"} => s[k].c \in Peers
    /\ Parents(s) /\ OneDrain(s) /\ JoinFirst(s)

-----------------------------------------------------------------------------
(* A call and its connection x, given the head and the newest snapshot;    *)
(* broke says that storage failed or that the lifetime is over.            *)

JoinFits(r, x, hd) ==
    r.op = "join" =>
        /\ r.pc \in {"start", "refused", "enter", "admit", "admitted"} => r.ret = "none"
        /\ r.pc = "delivered" /\ r.ret = "ok" => x.cursor = hd

DeliverFits(r, x, hd, broke) ==
    r.op = "deliver" =>
        /\ r.pc = "failed" => broke
        /\ r.pc \in {"chunk", "sent"} =>
              /\ r.item[1] \in {"entry", "snapshot"} /\ r.item[3] \in 1..Chunks
              /\ r.item[2] <= hd /\ x.cursor < r.item[2]
              /\ r.item[1] = "entry" => r.item[2] = x.cursor + 1
        /\ r.pc = "chunk" =>
              r.item[3] = 1 \/ x.part = <<r.item[1], r.item[2], r.item[3] - 1>>
        /\ r.pc = "sent" =>
              /\ x.part = r.item
              /\ r.item[3] = Chunks => x.unacked = TRUE \/ r.item[2] <= x.pos

ProcessFits(r, x, hd, sn, broke) ==
    r.op = "process" =>
        /\ r.item[1] \in Kinds
        /\ r.pc \in {"start", "push"} => r.ret = "none"
        /\ r.pc \in {"push", "delivered", "ack", "unacked", "refuse"} => r.item[1] = "push"
        /\ r.pc \in {"start", "push", "delivered", "ack", "unacked", "acked"} => r.seen = {}
        /\ r.pc \in {"delivered", "ack"} => r.n = hd /\ sn < hd
        /\ r.pc = "delivered" =>
              /\ x.unacked = TRUE \/ x.pos < hd
              /\ r.ret = "ok" => hd - 1 <= x.cursor
              /\ r.ret = "err" => broke
        /\ r.pc = "ack" => x.unacked = TRUE \/ x.pos = hd - 1

Fits(r, x, hd, sn, broke) ==
    JoinFits(r, x, hd) /\ DeliverFits(r, x, hd, broke) /\ ProcessFits(r, x, hd, sn, broke)

Broke == failures > 0 \/ ~up

FitAll(s, x, hd, sn, broke) == \A k \in 1..Len(s) : Fits(s[k], x[s[k].c], hd, sn, broke)

CallsFit == FitAll(stack, p, head, snap, Broke)

\* The call that has control is not waiting for a delivery, and is between its
\* admission and its membership only while the lifetime lasts.
Ready(r) == ~Waiting(r) /\ (r.op = "join" /\ r.pc = "enter" => up = TRUE)
NotWaiting == stack # <<>> => Ready(stack[Len(stack)])

-----------------------------------------------------------------------------
(* Types, membership and retirement *)

Queued == [c : Peers, item : Items]

TypeI ==
    /\ up \in BOOLEAN /\ moved \in BOOLEAN
    /\ members \in SUBSET Peers
    /\ pending \in Seq(Queued) /\ \A i \in 1..Len(pending) : pending[i].item[1] \in Kinds
    /\ head \in Nat /\ snap \in 1..head
    /\ messages \in 0..MaxMessages /\ failures \in Nat
    /\ p \in [Peers -> Peer]

-----------------------------------------------------------------------------
(* Calls under way *)

WillAppend(r) == r.op = "process" /\ r.pc \in {"start", "push"}
Acking(r, c) == r.op = "process" /\ r.c = c /\ r.pc \in {"ack", "unacked"}
Unanswered(r, c) ==
    /\ r.op = "process" /\ r.c = c /\ r.item[1] = "push"
    /\ r.pc \in {"start", "push", "delivered", "ack", "unacked", "refuse"}
Admitting(r, c) == r.op = "join" /\ r.c = c /\ r.pc \in {"admit", "failed"}

\* A call that will bring c to the head.
Feeding(r, c) ==
    \/ r.op = "join" /\ r.c = c /\ r.pc \in {"admit", "admitted", "delivered", "failed"}
    \/ r.op = "deliver" /\ r.c = c
    \/ r.op = "process" /\ r.pc = "delivered"
    \/ /\ r.op = "process" /\ r.pc \in {"ack", "unacked", "acked", "relay"}
       /\ c \notin r.seen /\ c # r.c

\* The part a call plays for a connection.
Plays(r, role, c) ==
    \/ role = "about" /\ About(r, c)
    \/ role = "active" /\ Active(r)
    \/ role = "append" /\ WillAppend(r)
    \/ role = "acking" /\ Acking(r, c)
    \/ role = "unanswered" /\ Unanswered(r, c)
    \/ role = "entering" /\ Entering(r, c)
    \/ role = "admitting" /\ Admitting(r, c)
    \/ role = "feeding" /\ Feeding(r, c)
    \/ role = "retire" /\ r.op = "retire"

Has(s, role, c) == \E k \in 1..Len(s) : Plays(s[k], role, c)

KnownI ==
    /\ \A c \in members : p[c].joined = TRUE
    /\ \A i \in 1..Len(pending) : p[pending[i].c].joined = TRUE
    /\ \A c \in Peers : Has(stack, "about", c) => p[c].joined = TRUE

OverI ==
    /\ ~up => members = {} /\ pending = <<>>
    /\ Has(stack, "retire", NoPeer) => ~up
    /\ \A c \in Peers : p[c].told = "retired" => ~up

-----------------------------------------------------------------------------
(* Positions, and what is owed *)

\* Every position was a message.
CountI ==
    /\ head + Len(pending) <= 1 + messages
    /\ Has(stack, "append", NoPeer) => head + Len(pending) <= messages

\* The hub's cursor is never past what the peer holds, except while an ack that
\* will close the difference is being sent.
PositionFits(x, hd, acking) ==
    /\ x.cursor <= hd /\ x.pos <= hd
    /\ x.unacked = TRUE \/ x.cursor <= x.pos \/ acking
    /\ x.gap = TRUE => x.unacked = TRUE

PositionsI ==
    \A c \in Peers : PositionFits(p[c], head, Has(stack, "acking", c))

QueuedBy(q, c) == {i \in 1..Len(q) : q[i].c = c /\ q[i].item[1] = "push"}
Pushes(q, c) == Cardinality(QueuedBy(q, c))
AtHand(s, c) == IF Has(s, "unanswered", c) THEN 1 ELSE 0

\* Each push of a member is queued, at hand, or answered.
OwedI ==
    \A c \in Peers :
        /\ Pushes(pending, c) + AtHand(stack, c) <= p[c].owed
        /\ p[c].owed <= messages
        /\ /\ up
           /\ c \in members \/ p[c].joined = FALSE \/ Has(stack, "entering", c)
           => p[c].unacked = TRUE \/ p[c].owed = Pushes(pending, c) + AtHand(stack, c)

CaughtUpI ==
    \A c \in members : p[c].cursor = head \/ failures > 0 \/ Has(stack, "feeding", c)

ToldI == \A c \in members : p[c].told = "admitted" \/ Has(stack, "admitting", c)

QueueI == pending # <<>> => Has(stack, "active", NoPeer)

\* The inductive invariant.
IInv ==
    /\ Structured(stack) /\ NotWaiting /\ CallsFit
    /\ TypeI /\ KnownI /\ OverI /\ NothingAfterRetired
    /\ CountI /\ PositionsI /\ OwedI /\ CaughtUpI /\ ToldI /\ QueueI

-----------------------------------------------------------------------------
(* Stacks *)

\* The calls below the one that has control.
Under(s) == SubSeq(s, 1, Len(s) - 1)

\* Popping keeps the calls below as they are.
LEMMA UnderIs ==
    ASSUME NEW S, NEW s \in Seq(S), s # <<>>
    PROVE  /\ Under(s) \in Seq(S) /\ Len(Under(s)) = Len(s) - 1
           /\ \A k \in 1..Len(s) - 1 : Under(s)[k] = s[k]
           /\ Len(s) \in Nat \ {0} /\ Len(s) \in 1..Len(s) /\ s[Len(s)] \in S
  <1>1. Len(s) \in Nat \ {0} /\ Len(s) \in 1..Len(s) /\ s[Len(s)] \in S
    BY EmptySeq, ElementOfSeq
  <1>2. \A i \in 1..(Len(s) - 1) : s[i] \in S
    BY <1>1, ElementOfSeq
  <1> DEFINE n == Len(s) - 1
  <1>3. n \in Int /\ 1 \in Int
    BY <1>1
  <1>4. /\ SubSeq(s, 1, n) \in Seq(S)
        /\ Len(SubSeq(s, 1, n)) = IF 1 <= n THEN n - 1 + 1 ELSE 0
        /\ \A i \in 1..(n - 1 + 1) : SubSeq(s, 1, n)[i] = s[1 + i - 1]
    <2> HIDE DEF n
    <2> QED BY <1>2, <1>3, SubSeqProperties DEF n
  <1>5. Under(s) = SubSeq(s, 1, n)
    BY Zenon DEF Under
  <1>6. /\ Under(s) \in Seq(S)
        /\ Len(Under(s)) = IF 1 <= n THEN n - 1 + 1 ELSE 0
        /\ \A i \in 1..(n - 1 + 1) : Under(s)[i] = s[1 + i - 1]
    <2> HIDE DEF n
    <2> QED BY <1>4, <1>5, Zenon
  <1>7. Len(Under(s)) = Len(s) - 1
    <2> DEFINE m == Len(Under(s))
               l == Len(s)
    <2>1. m = (IF 1 <= l - 1 THEN l - 1 - 1 + 1 ELSE 0) /\ l \in Nat \ {0}
      BY <1>1, <1>6, Zenon
    <2> HIDE DEF m, l
    <2>2. m = l - 1
      BY <2>1
    <2> QED BY <2>2 DEF m, l
  <1>8. \A k \in 1..Len(s) - 1 : Under(s)[k] = s[k]
    <2> TAKE k \in 1..Len(s) - 1
    <2>1. k \in 1..(n - 1 + 1) /\ 1 + k - 1 = k
      BY <1>1
    <2> QED BY <2>1, <1>6
  <1> QED BY <1>1, <1>6, <1>7, <1>8

\* Pushing puts one call above the others.
LEMMA AppendIs ==
    ASSUME NEW S, NEW s \in Seq(S), NEW r \in S
    PROVE  /\ Append(s, r) \in Seq(S) /\ Len(Append(s, r)) = Len(s) + 1
           /\ \A k \in 1..Len(s) : Append(s, r)[k] = s[k]
           /\ Append(s, r)[Len(s) + 1] = r
           /\ Append(s, r) # <<>> /\ Under(Append(s, r)) = s
  <1>1. /\ Append(s, r) \in Seq(S) /\ Len(Append(s, r)) = Len(s) + 1
        /\ \A k \in 1..Len(s) : Append(s, r)[k] = s[k]
        /\ Append(s, r)[Len(s) + 1] = r
        /\ Append(s, r) # <<>> 
    OBVIOUS
  <1>2. Under(Append(s, r)) = s
    <2> DEFINE t == Append(s, r)
    <2>1. t \in Seq(S) /\ t # <<>> /\ Len(t) = Len(s) + 1 /\ Len(s) \in Nat
          /\ \A k \in 1..Len(s) : t[k] = s[k]
      BY <1>1
    <2> HIDE DEF t
    <2>2. /\ Under(t) \in Seq(S) /\ Len(Under(t)) = Len(t) - 1
          /\ \A k \in 1..Len(t) - 1 : Under(t)[k] = t[k]
      BY <2>1, UnderIs
    <2>3. /\ Len(Under(t)) = Len(s)
          /\ \A k \in 1..Len(s) : Under(t)[k] = s[k]
      BY <2>1, <2>2
    <2>4. Under(t) = s
      BY <2>2, <2>3, SeqEqual
    <2> QED BY <2>4 DEF t
  <1> QED BY <1>1, <1>2

\* A part is played on a stack by the call on top or by one below it.
LEMMA HasUnder ==
    ASSUME NEW S, NEW s \in Seq(S), s # <<>>, NEW role, NEW c
    PROVE  Has(s, role, c) <=> Has(Under(s), role, c) \/ Plays(s[Len(s)], role, c)
  <1>1. \A k \in 1..Len(s) : k \in 1..Len(s) - 1 \/ k = Len(s)
    OBVIOUS
  <1>2. /\ Len(s) \in 1..Len(s) /\ Len(s) \in Nat /\ Len(Under(s)) = Len(s) - 1
        /\ \A k \in 1..Len(s) - 1 : Under(s)[k] = s[k]
    BY UnderIs
  <1> QED BY <1>1, <1>2 DEF Has

LEMMA HasAppend ==
    ASSUME NEW S, NEW s \in Seq(S), NEW r \in S, NEW role, NEW c
    PROVE  Has(Append(s, r), role, c) <=> Has(s, role, c) \/ Plays(r, role, c)
  <1>1. /\ Append(s, r) \in Seq(S) /\ Append(s, r) # <<>> /\ Under(Append(s, r)) = s
        /\ Append(s, r)[Len(Append(s, r))] = r
    BY AppendIs
  <1> DEFINE t == Append(s, r)
  <1>2. t \in Seq(S) /\ t # <<>> /\ Under(t) = s /\ t[Len(t)] = r
    BY <1>1
  <1> HIDE DEF t
  <1>3. Has(t, role, c) <=> Has(s, role, c) \/ Plays(r, role, c)
    BY <1>2, HasUnder
  <1> QED BY <1>3 DEF t

LEMMA FitUnder ==
    ASSUME NEW S, NEW s \in Seq(S), s # <<>>, NEW x, NEW hd, NEW sn, NEW b
    PROVE  FitAll(s, x, hd, sn, b) <=>
              FitAll(Under(s), x, hd, sn, b) /\ Fits(s[Len(s)], x[s[Len(s)].c], hd, sn, b)
  <1>1. \A k \in 1..Len(s) : k \in 1..Len(s) - 1 \/ k = Len(s)
    OBVIOUS
  <1>2. /\ Len(s) \in 1..Len(s) /\ Len(s) \in Nat /\ Len(Under(s)) = Len(s) - 1
        /\ \A k \in 1..Len(s) - 1 : Under(s)[k] = s[k]
    BY UnderIs
  <1> QED BY <1>1, <1>2 DEF FitAll

LEMMA FitAppend ==
    ASSUME NEW S, NEW s \in Seq(S), NEW r \in S, NEW x, NEW hd, NEW sn, NEW b
    PROVE  FitAll(Append(s, r), x, hd, sn, b) <=>
              FitAll(s, x, hd, sn, b) /\ Fits(r, x[r.c], hd, sn, b)
  <1>1. /\ Append(s, r) \in Seq(S) /\ Append(s, r) # <<>> /\ Under(Append(s, r)) = s
        /\ Append(s, r)[Len(Append(s, r))] = r
    BY AppendIs
  <1> DEFINE t == Append(s, r)
  <1>2. t \in Seq(S) /\ t # <<>> /\ Under(t) = s /\ t[Len(t)] = r
    BY <1>1
  <1> HIDE DEF t
  <1>3. FitAll(t, x, hd, sn, b) <=> FitAll(s, x, hd, sn, b) /\ Fits(r, x[r.c], hd, sn, b)
    BY <1>2, FitUnder
  <1> QED BY <1>3 DEF t

Who(r) == r.op \in {"peer", "join", "deliver", "process"} => r.c \in Peers

\* The call r may be pushed on s.
MayPush(s, r) ==
    /\ r \in Call /\ Who(r)
    /\ s = <<>> => r.op \notin {"process", "deliver"}
    /\ s # <<>> => Calls(s[Len(s)], r)
    /\ r.op = "drain" => \A k \in 1..Len(s) : ~Active(s[k])
    /\ r.op = "join" => \A k \in 1..Len(s) : ~About(s[k], r.c)

\* Returning from a call keeps the structure of the stack.
LEMMA PopKeeps ==
    ASSUME NEW s, Structured(s), s # <<>>
    PROVE  Structured(Under(s))
  <1>1. s \in Seq(Call)
    BY DEF Structured
  <1> DEFINE t == Under(s)
  <1>2. /\ t \in Seq(Call) /\ Len(t) = Len(s) - 1 /\ Len(s) \in Nat
        /\ \A k \in 1..Len(s) - 1 : t[k] = s[k]
    BY <1>1, UnderIs
  <1> HIDE DEF t
  <1>3. \A k \in 1..Len(t) : k \in 1..Len(s) /\ t[k] = s[k] /\ (k = 1 \/ (k - 1 \in 1..Len(t) /\ t[k - 1] = s[k - 1]))
    BY <1>2
  <1>4. \A k \in 1..Len(t) : t[k].op \in {"peer", "join", "deliver", "process"} => t[k].c \in Peers
    BY <1>3 DEF Structured
  <1>5. Parents(t)
    BY <1>3 DEF Structured, Parents
  <1>6. OneDrain(t)
    BY <1>3 DEF Structured, OneDrain
  <1>7. JoinFirst(t)
    BY <1>3 DEF Structured, JoinFirst
  <1> QED BY <1>2, <1>4, <1>5, <1>6, <1>7 DEF Structured, t

\* So does a call that may be made.
LEMMA PushKeeps ==
    ASSUME NEW s, Structured(s), NEW r, MayPush(s, r)
    PROVE  Structured(Append(s, r))
  <1>1. s \in Seq(Call) /\ r \in Call
    BY DEF Structured, MayPush
  <1> DEFINE t == Append(s, r)
  <1>2. /\ t \in Seq(Call) /\ Len(t) = Len(s) + 1 /\ Len(s) \in Nat
        /\ \A k \in 1..Len(s) : t[k] = s[k]
        /\ t[Len(s) + 1] = r
    BY <1>1, AppendIs
  <1> HIDE DEF t
  <1>3. \A k \in 1..Len(t) : IF k = Len(s) + 1 THEN t[k] = r ELSE k \in 1..Len(s) /\ t[k] = s[k]
    BY <1>2
  <1>4. \A k \in 1..Len(t) : t[k].op \in {"peer", "join", "deliver", "process"} => t[k].c \in Peers
    BY <1>3 DEF Structured, MayPush, Who
  <1>5. Parents(t)
    <2> SUFFICES ASSUME NEW k \in 1..Len(t)
                 PROVE  IF k = 1 THEN t[k].op \notin {"process", "deliver"} ELSE Calls(t[k - 1], t[k])
      BY DEF Parents
    <2>1. CASE k \in 1..Len(s)
      <3>1. t[k] = s[k] /\ (k = 1 \/ t[k - 1] = s[k - 1])
        BY <1>2, <2>1
      <3> QED BY <3>1, <2>1 DEF Structured, Parents
    <2>2. CASE k = Len(s) + 1 /\ s = <<>>
      <3>1. k = 1 /\ t[k] = r
        BY <1>2, <2>2
      <3> QED BY <3>1, <2>2 DEF MayPush
    <2>3. CASE k = Len(s) + 1 /\ s # <<>>
      <3>1. Len(s) \in 1..Len(s)
        BY <2>3, <1>1, UnderIs
      <3>2. k # 1 /\ t[k] = r /\ t[k - 1] = s[Len(s)]
        BY <1>2, <2>3, <3>1
      <3> QED BY <3>2, <2>3 DEF MayPush
    <2> QED BY <1>2, <2>1, <2>2, <2>3
  <1>6. OneDrain(t)
    <2> SUFFICES ASSUME NEW j \in 1..Len(t), NEW k \in 1..Len(t), j < k, t[k].op = "drain"
                 PROVE  ~Active(t[j])
      BY DEF OneDrain
    <2>1. j \in 1..Len(s) /\ t[j] = s[j]
      BY <1>2, <1>3
    <2>2. CASE k \in 1..Len(s)
      BY <1>2, <2>1, <2>2 DEF Structured, OneDrain
    <2>3. CASE k = Len(s) + 1
      BY <1>2, <2>1, <2>3 DEF MayPush
    <2> QED BY <1>2, <2>2, <2>3
  <1>7. JoinFirst(t)
    <2> SUFFICES ASSUME NEW j \in 1..Len(t), NEW k \in 1..Len(t), t[j].op = "join", About(t[k], t[j].c), k < j
                 PROVE  FALSE
      BY <1>2 DEF JoinFirst
    <2>1. k \in 1..Len(s) /\ t[k] = s[k]
      BY <1>2, <1>3
    <2>2. CASE j \in 1..Len(s)
      BY <1>2, <2>1, <2>2 DEF Structured, JoinFirst
    <2>3. CASE j = Len(s) + 1
      BY <1>2, <2>1, <2>3 DEF MayPush
    <2> QED BY <1>2, <2>2, <2>3
  <1> QED BY <1>2, <1>4, <1>5, <1>6, <1>7 DEF Structured, t

\* A call that goes on takes its own place.
LEMMA TopMayStay ==
    ASSUME NEW s, Structured(s), s # <<>>, NEW r \in Call,
           r.op = s[Len(s)].op, r.c = s[Len(s)].c,
           r.op = "deliver" => r.n = s[Len(s)].n,
           r.op = "deliver" =>
               \A a \in Call : a.op = "process" /\ a.pc = "delivered" /\ a.c = r.c
                   /\ Delivers(a, s[Len(s)]) => r.item[2] < a.n
    PROVE  Structured(Under(s)) /\ MayPush(Under(s), r)
  <1>1. s \in Seq(Call)
    BY DEF Structured
  <1> DEFINE t == Under(s)
             n == Len(s)
  <1>2. /\ t \in Seq(Call) /\ Len(t) = n - 1 /\ n \in Nat \ {0} /\ n \in 1..n
        /\ \A k \in 1..n - 1 : t[k] = s[k]
    BY <1>1, UnderIs
  <1>3. Structured(t)
    BY PopKeeps
  <1> HIDE DEF t
  <1>4. Who(r)
    BY <1>2 DEF Structured, Who
  <1>5. IF n = 1 THEN s[n].op \notin {"process", "deliver"} ELSE Calls(s[n - 1], s[n])
    BY <1>2 DEF Structured, Parents
  <1>6. t = <<>> => n = 1
    BY <1>2
  <1>7. t # <<>> => n - 1 \in 1..Len(s) /\ t[Len(t)] = s[n - 1] /\ n # 1 /\ t[Len(t)] \in Call
    <2> HAVE t # <<>>
    <2>1. Len(t) \in 1..Len(t) /\ t[Len(t)] \in Call
      BY <1>2, UnderIs
    <2> QED BY <2>1, <1>2
  <1>8. t # <<>> => Calls(t[Len(t)], r)
    <2> HAVE t # <<>>
    <2>1. Calls(t[Len(t)], s[n]) /\ t[Len(t)] \in Call
      BY <1>5, <1>7
    <2>2. r.op = "deliver" => Delivers(t[Len(t)], r)
      BY <2>1 DEF Calls, Delivers
    <2> QED BY <2>1, <2>2 DEF Calls
  <1>12. t = <<>> => r.op \notin {"process", "deliver"}
    BY <1>5, <1>6
  <1>11. \A k \in 1..Len(t) : k \in 1..n /\ k < n /\ ~(n <= k) /\ t[k] = s[k]
    BY <1>2
  <1> HIDE DEF n
  <1>9. r.op = "drain" => \A k \in 1..Len(t) : ~Active(t[k])
    BY <1>2, <1>11 DEF Structured, OneDrain, n
  <1>10. r.op = "join" => \A k \in 1..Len(t) : ~About(t[k], r.c)
    BY <1>2, <1>11 DEF Structured, JoinFirst, n
  <1> QED BY <1>3, <1>4, <1>8, <1>9, <1>10, <1>12 DEF MayPush, t

\* A message is handled in the one drain, with no delivery and no join past its
\* admission below it.
LEMMA UnderProcess ==
    ASSUME NEW s, Structured(s), s # <<>>, s[Len(s)].op = "process"
    PROVE  /\ Under(s) # <<>> /\ Under(s)[Len(Under(s))].op = "drain"
           /\ \A k \in 1..Len(Under(s)) :
                 /\ Under(s)[k].op \notin {"process", "deliver"}
                 /\ Under(s)[k].op = "join" => Under(s)[k].pc \in {"start", "refused"}
  <1>1. s \in Seq(Call)
    BY DEF Structured
  <1> DEFINE t == Under(s)
             n == Len(s)
  <1>2. /\ t \in Seq(Call) /\ Len(t) = n - 1 /\ n \in Nat \ {0} /\ n \in 1..n
        /\ \A k \in 1..n - 1 : t[k] = s[k]
    BY <1>1, UnderIs
  <1> HIDE DEF t
  <1>3. n # 1 /\ s[n - 1].op = "drain" /\ n - 1 \in 1..n
    BY <1>2 DEF Structured, Parents, Calls
  <1>4. t # <<>> /\ t[Len(t)].op = "drain"
    BY <1>2, <1>3
  <1>5. \A j \in 1..n : j < n - 1 => ~Active(s[j])
    BY <1>3 DEF Structured, OneDrain
  <1>6. \A j \in 1..n : j < n => s[j].op # "process"
    <2> SUFFICES ASSUME NEW j \in 1..n, j < n, s[j].op = "process" PROVE FALSE
      OBVIOUS
    <2>1. j # 1 /\ s[j - 1].op = "drain"
      BY DEF Structured, Parents, Calls
    <2>2. j - 1 \in 1..n /\ j - 1 < n - 1
      BY <2>1, <1>2
    <2> QED BY <2>1, <2>2, <1>5 DEF Active
  <1>7. \A j \in 1..n : j < n => s[j].op # "deliver"
    <2> SUFFICES ASSUME NEW j \in 1..n, j < n, s[j].op = "deliver" PROVE FALSE
      OBVIOUS
    <2>1. j # 1 /\ Delivers(s[j - 1], s[j])
      BY DEF Structured, Parents, Calls
    <2>2. j - 1 \in 1..n /\ j - 1 < n - 1 /\ j - 1 < n
      BY <2>1, <1>2
    <2>3. ~Active(s[j - 1]) /\ s[j - 1].op # "process"
      BY <2>2, <1>5, <1>6
    <2> QED BY <2>1, <2>3 DEF Active, Delivers
  <1>8. ASSUME NEW k \in 1..Len(t)
        PROVE  /\ t[k].op \notin {"process", "deliver"}
               /\ t[k].op = "join" => t[k].pc \in {"start", "refused"}
    <2>1. k \in 1..n /\ k < n /\ t[k] = s[k] /\ (k = n - 1 \/ k < n - 1)
      BY <1>2
    <2>2. t[k].op \notin {"process", "deliver"}
      BY <2>1, <1>6, <1>7
    <2>3. k < n - 1 => ~Active(t[k])
      BY <2>1, <1>5
    <2> QED BY <2>1, <2>2, <2>3, <1>3 DEF Active
  <1> QED BY <1>4, <1>8 DEF t

\* No other delivery to the same connection is under way, and only the push that
\* made this one is about it.
LEMMA UnderDeliver ==
    ASSUME NEW s, Structured(s), s # <<>>, s[Len(s)].op = "deliver"
    PROVE  /\ Under(s) # <<>> /\ Delivers(Under(s)[Len(Under(s))], s[Len(s)])
           /\ \A k \in 1..Len(Under(s)) : Under(s)[k].c = s[Len(s)].c =>
                 /\ Under(s)[k].op # "deliver"
                 /\ Under(s)[k].op = "process" => k = Len(Under(s)) /\ Under(s)[k].pc = "delivered"
  <1>1. s \in Seq(Call)
    BY DEF Structured
  <1> DEFINE t == Under(s)
             n == Len(s)
             c == s[n].c
  <1>2. /\ t \in Seq(Call) /\ Len(t) = n - 1 /\ n \in Nat \ {0} /\ n \in 1..n
        /\ \A k \in 1..n - 1 : t[k] = s[k]
    BY <1>1, UnderIs
  <1> HIDE DEF t
  <1>3. n # 1 /\ Delivers(s[n - 1], s[n]) /\ n - 1 \in 1..n
    BY <1>2 DEF Structured, Parents, Calls
  <1>4. t # <<>> /\ Delivers(t[Len(t)], s[n])
    BY <1>2, <1>3
  <1>5. \A j, k \in 1..n : s[j].op = "drain" /\ s[k].op = "drain" => j = k
    BY DEF Structured, OneDrain, Active
  <1>6. \A j \in 1..n : s[j].op = "process" => j # 1 /\ j - 1 \in 1..n /\ s[j - 1].op = "drain"
    BY DEF Structured, Parents, Calls
  <1>7. \A j, k \in 1..n : s[j].op = "process" /\ s[k].op = "process" => j = k
    BY <1>5, <1>6
  <1>8. \A j, k \in 1..n : s[j].op = "join" /\ About(s[k], s[j].c) => j <= k
    BY DEF Structured, JoinFirst
  <1>9. ASSUME NEW k \in 1..n, k < n, s[k].c = c, s[k].op = "process"
        PROVE  k = n - 1 /\ s[k].pc = "delivered"
    <2>1. CASE s[n - 1].op = "process"
      <3>1. k = n - 1
        BY <2>1, <1>3, <1>7, <1>9
      <3> QED BY <3>1, <1>3, <1>9 DEF Delivers
    <2>2. CASE s[n - 1].op = "join"
      <3>1. s[n - 1].c = c
        BY <2>2, <1>3 DEF Delivers
      <3>2. n - 1 <= k
        BY <3>1, <2>2, <1>3, <1>8, <1>9 DEF About
      <3> QED BY <3>2, <2>2, <1>9
    <2> QED BY <2>1, <2>2, <1>3 DEF Delivers
  <1>10. ASSUME NEW k \in 1..n, k < n, s[k].c = c, s[k].op = "deliver"
         PROVE  FALSE
    <2>1. k # 1 /\ Delivers(s[k - 1], s[k]) /\ k - 1 \in 1..n
      BY <1>10 DEF Structured, Parents, Calls
    <2>2. CASE s[n - 1].op = "join"
      <3>1. s[n - 1].c = c
        BY <2>2, <1>3 DEF Delivers
      <3>2. n - 1 <= k
        BY <3>1, <2>2, <1>3, <1>8, <1>10 DEF About
      <3> QED BY <3>2, <2>2, <1>10
    <2>3. CASE s[n - 1].op = "process" /\ s[k - 1].op = "process"
      BY <2>3, <2>1, <1>3, <1>7, <1>10
    <2>4. CASE s[n - 1].op = "process" /\ s[k - 1].op = "join"
      <3>1. Active(s[k - 1])
        BY <2>4, <2>1 DEF Delivers, Active
      <3>2. n - 1 # 1 /\ n - 1 - 1 \in 1..n /\ s[n - 1 - 1].op = "drain"
        BY <1>3, <1>6, <2>4
      <3>3. k - 1 < n - 1 - 1
        BY <3>2, <2>4, <1>10
      <3> QED BY <3>1, <3>2, <3>3, <2>1 DEF Structured, OneDrain
    <2> QED BY <2>1, <2>2, <2>3, <2>4, <1>3 DEF Delivers
  <1>11. ASSUME NEW k \in 1..Len(t), t[k].c = c
         PROVE  /\ t[k].op # "deliver"
                /\ t[k].op = "process" => k = Len(t) /\ t[k].pc = "delivered"
    <2>1. k \in 1..n /\ k < n /\ t[k] = s[k] /\ Len(t) = n - 1
      BY <1>2
    <2> QED BY <2>1, <1>9, <1>10, <1>11
  <1> QED BY <1>4, <1>11 DEF t

\* A connection is joined once, and nothing else is about it before.
LEMMA UnderJoin ==
    ASSUME NEW s, Structured(s), s # <<>>, s[Len(s)].op = "join"
    PROVE  \A k \in 1..Len(Under(s)) : ~About(Under(s)[k], s[Len(s)].c)
  <1>1. s \in Seq(Call)
    BY DEF Structured
  <1> DEFINE t == Under(s)
             n == Len(s)
  <1>2. /\ t \in Seq(Call) /\ Len(t) = n - 1 /\ n \in Nat \ {0} /\ n \in 1..n
        /\ \A k \in 1..n - 1 : t[k] = s[k]
    BY <1>1, UnderIs
  <1> HIDE DEF t
  <1>3. \A k \in 1..Len(t) : k \in 1..n /\ ~(n <= k) /\ t[k] = s[k]
    BY <1>2
  <1>4. \A k \in 1..n : About(s[k], s[n].c) => n <= k
    BY <1>2 DEF Structured, JoinFirst
  <1>5. \A k \in 1..Len(t) : ~About(t[k], s[n].c)
    BY <1>3, <1>4
  <1> QED BY <1>5 DEF t

-----------------------------------------------------------------------------
(* What a step leaves alone *)

SameData(x, y) ==
    y.cursor = x.cursor /\ y.pos = x.pos /\ y.part = x.part /\ y.unacked = x.unacked

LEMMA FitsSoft ==
    ASSUME NEW r, NEW x, NEW y, NEW hd, NEW sn, NEW b, NEW b2,
           Fits(r, x, hd, sn, b), SameData(x, y), b => b2
    PROVE  Fits(r, y, hd, sn, b2)
    BY DEF Fits, JoinFits, DeliverFits, ProcessFits, SameData

LEMMA FitsOther ==
    ASSUME NEW r, r.op \notin {"join", "deliver", "process"},
           NEW x, NEW hd, NEW sn, NEW b
    PROVE  Fits(r, x, hd, sn, b)
    BY DEF Fits, JoinFits, DeliverFits, ProcessFits

LEMMA FitAllSoft ==
    ASSUME NEW s, Structured(s), NEW P, NEW Q, \A c \in Peers : SameData(P[c], Q[c]),
           NEW hd, NEW sn, NEW b, NEW b2, b => b2, FitAll(s, P, hd, sn, b)
    PROVE  FitAll(s, Q, hd, sn, b2)
  <1> SUFFICES ASSUME NEW k \in 1..Len(s)
               PROVE  Fits(s[k], Q[s[k].c], hd, sn, b2)
    BY DEF FitAll
  <1>1. CASE s[k].op \in {"join", "deliver", "process"}
    <2>1. s[k].c \in Peers /\ Fits(s[k], P[s[k].c], hd, sn, b)
      BY <1>1 DEF Structured, FitAll
    <2>2. SameData(P[s[k].c], Q[s[k].c])
      BY <2>1
    <2> QED BY <2>1, <2>2, FitsSoft
  <1>2. CASE s[k].op \notin {"join", "deliver", "process"}
    BY <1>2, FitsOther
  <1> QED BY <1>1, <1>2

\* All but the stack and the calls on it.
RestI ==
    /\ TypeI /\ KnownI /\ OverI /\ NothingAfterRetired
    /\ CountI /\ PositionsI /\ OwedI /\ CaughtUpI /\ ToldI /\ QueueI

LEMMA UnansweredAbout ==
    ASSUME NEW s, NEW c, Has(s, "unanswered", c)
    PROVE  Has(s, "about", c)
    BY DEF Has, Plays, Unanswered, About

LEMMA NoPushes ==
    ASSUME NEW c
    PROVE  Pushes(<<>>, c) = 0
  <1>1. QueuedBy(<<>>, c) = {}
    BY DEF QueuedBy
  <1> QED BY <1>1, FS_EmptySet DEF Pushes

LEMMA PushesIsNat ==
    ASSUME NEW q \in Seq(Queued), NEW c
    PROVE  IsFiniteSet(QueuedBy(q, c)) /\ Pushes(q, c) \in Nat
  <1>1. Len(q) \in Nat
    OBVIOUS
  <1>2. IsFiniteSet(1..Len(q))
    BY <1>1, FS_Interval
  <1>3. QueuedBy(q, c) \in SUBSET (1..Len(q))
    BY DEF QueuedBy
  <1>4. IsFiniteSet(QueuedBy(q, c))
    BY <1>2, <1>3, FS_Subset
  <1> QED BY <1>4, FS_CardinalityType DEF Pushes

Soft(x, y) ==
    /\ y.joined = x.joined /\ y.owed = x.owed /\ y.gap = x.gap /\ y.late = x.late
    /\ SameData(x, y)

\* The step says no more to a connection than that it is admitted or retired.
PeersKept ==
    /\ p' \in [Peers -> Peer]
    /\ \A c \in Peers :
          /\ Soft(p[c], p'[c])
          /\ p'[c].told = "retired" => p[c].told = "retired" \/ ~up'
          /\ p[c].told = "admitted" => p'[c].told = "admitted" \/ ~up'

NewMember(c) ==
    /\ up = TRUE /\ c \in Peers /\ p[c].joined = TRUE
    /\ Has(stack, "entering", c)
    /\ Has(stack', "feeding", c) /\ Has(stack', "admitting", c)

\* The lifetime goes on, or ends.
LifeKept ==
    \/ /\ up' = up /\ pending' = pending
       /\ \A c \in members' : c \in members \/ NewMember(c)
    \/ up' = FALSE /\ members' = {} /\ pending' = <<>>

\* What a call was to do for a connection is done or still to be done.
RolesKept ==
    /\ \A c \in Peers :
        /\ Has(stack', "about", c) => Has(stack, "about", c) \/ p[c].joined = TRUE
        /\ Has(stack, "acking", c) => Has(stack', "acking", c)
        /\ Has(stack', "unanswered", c) => Has(stack, "unanswered", c)
        /\ Has(stack, "unanswered", c) =>
              \/ Has(stack', "unanswered", c)
              \/ c \notin members' /\ ~Has(stack', "entering", c)
        /\ Has(stack', "entering", c) => Has(stack, "entering", c)
        /\ Has(stack, "feeding", c) =>
              \/ Has(stack', "feeding", c)
              \/ p[c].cursor = head \/ failures' > 0 \/ c \notin members'
        /\ Has(stack, "admitting", c) =>
              Has(stack', "admitting", c) \/ p'[c].told = "admitted" \/ c \notin members'
    /\ Has(stack', "append", NoPeer) => Has(stack, "append", NoPeer)
    /\ Has(stack', "retire", NoPeer) => Has(stack, "retire", NoPeer) \/ ~up'
    /\ Has(stack, "active", NoPeer) => Has(stack', "active", NoPeer) \/ pending' = <<>>

LEMMA SoftSnapStep ==
    ASSUME RestI, PeersKept, LifeKept, RolesKept,
           UNCHANGED <<head, messages>>, snap' \in 1..head,
           moved' \in BOOLEAN, failures' \in Nat, failures <= failures'
    PROVE  RestI'
  <1> USE DEF RestI
  <1>1. TypeI'
    <2>1. pending' \in Seq(Queued) /\ \A i \in 1..Len(pending') : pending'[i].item[1] \in Kinds
      <3>1. CASE pending' = pending
        BY <3>1 DEF TypeI
      <3>2. CASE pending' = <<>>
        <4>1. pending' \in Seq(Queued) /\ Len(pending') = 0
          BY <3>2, EmptySeq
        <4> QED BY <4>1
      <3> QED BY <3>1, <3>2 DEF LifeKept
    <2>2. up' \in BOOLEAN /\ members' \in SUBSET Peers
      BY DEF TypeI, LifeKept, NewMember
    <2>3. head' \in Nat /\ snap' \in 1..head' /\ messages' \in 0..MaxMessages
      BY DEF TypeI
    <2> QED BY <2>1, <2>2, <2>3 DEF TypeI, PeersKept
  <1>2. KnownI'
    <2>1. \A c \in members' : p'[c].joined = TRUE
      BY DEF KnownI, TypeI, PeersKept, Soft, LifeKept, NewMember
    <2>2. \A i \in 1..Len(pending') : p'[pending'[i].c].joined = TRUE
      <3> SUFFICES ASSUME NEW i \in 1..Len(pending')
                   PROVE  p'[pending'[i].c].joined = TRUE
        OBVIOUS
      <3>1. pending' = pending
        BY DEF LifeKept
      <3>2. pending[i] \in Queued /\ p[pending[i].c].joined = TRUE
        BY <3>1 DEF KnownI, TypeI
      <3>3. pending[i].c \in Peers
        BY <3>2 DEF Queued
      <3> QED BY <3>1, <3>2, <3>3 DEF PeersKept, Soft
    <2>3. \A c \in Peers : Has(stack', "about", c) => p'[c].joined = TRUE
      BY DEF KnownI, TypeI, PeersKept, Soft, RolesKept
    <2> QED BY <2>1, <2>2, <2>3 DEF KnownI
  <1>3. OverI'
    <2>1. ~up' => members' = {} /\ pending' = <<>>
      BY DEF OverI, LifeKept, NewMember, TypeI
    <2>2. ~up => ~up'
      BY DEF LifeKept
    <2>3. Has(stack', "retire", NoPeer) => ~up'
      BY <2>2 DEF OverI, RolesKept
    <2>4. \A c \in Peers : p'[c].told = "retired" => ~up'
      BY <2>2 DEF OverI, PeersKept
    <2> QED BY <2>1, <2>3, <2>4 DEF OverI
  <1>4. NothingAfterRetired'
    BY DEF NothingAfterRetired, PeersKept, Soft
  <1>5. CountI'
    <2>1. Len(pending') <= Len(pending) /\ Len(pending') \in Nat /\ Len(pending) \in Nat
      BY DEF LifeKept, TypeI
    <2> QED BY <2>1 DEF CountI, RolesKept, TypeI
  <1>6. PositionsI'
    BY DEF PositionsI, PositionFits, PeersKept, Soft, SameData, RolesKept, TypeI, Peer
  <1>7. OwedI'
    <2> SUFFICES ASSUME NEW c \in Peers
                 PROVE  /\ Pushes(pending', c) + AtHand(stack', c) <= p'[c].owed
                        /\ p'[c].owed <= messages'
                        /\ /\ up'
                           /\ c \in members' \/ p'[c].joined = FALSE \/ Has(stack', "entering", c)
                           => p'[c].unacked = TRUE \/ p'[c].owed = Pushes(pending', c) + AtHand(stack', c)
      BY DEF OwedI
    <2>1. /\ Pushes(pending', c) <= Pushes(pending, c)
          /\ Pushes(pending', c) \in Nat /\ Pushes(pending, c) \in Nat
      BY NoPushes, PushesIsNat DEF LifeKept, TypeI
    <2>2. AtHand(stack', c) <= AtHand(stack, c) /\ AtHand(stack', c) \in 0..1 /\ AtHand(stack, c) \in 0..1
      BY DEF AtHand, RolesKept
    <2>3. p'[c].owed = p[c].owed /\ p[c].owed \in Nat /\ p'[c].unacked = p[c].unacked
          /\ p'[c].joined = p[c].joined
      BY HubAssumption DEF PeersKept, Soft, SameData, TypeI, Peer
    <2>4. /\ Pushes(pending, c) + AtHand(stack, c) <= p[c].owed
          /\ p[c].owed <= messages
          /\ /\ up
             /\ c \in members \/ p[c].joined = FALSE \/ Has(stack, "entering", c)
             => p[c].unacked = TRUE \/ p[c].owed = Pushes(pending, c) + AtHand(stack, c)
      BY DEF OwedI
    <2>5. ASSUME up', c \in members' \/ p'[c].joined = FALSE \/ Has(stack', "entering", c)
          PROVE  p'[c].unacked = TRUE \/ p'[c].owed = Pushes(pending', c) + AtHand(stack', c)
      <3>1. up /\ pending' = pending /\ (c \in members' => c \in members \/ NewMember(c))
        BY <2>5 DEF LifeKept
      <3>2. c \in members \/ p[c].joined = FALSE \/ Has(stack, "entering", c)
        BY <3>1, <2>3, <2>5 DEF RolesKept, NewMember
      <3>3. Has(stack, "unanswered", c) => Has(stack', "unanswered", c)
        <4>1. CASE p[c].joined = FALSE
          BY <4>1, UnansweredAbout DEF KnownI
        <4>2. CASE p[c].joined # FALSE
          BY <4>2, <2>3, <2>5 DEF RolesKept
        <4> QED BY <4>1, <4>2
      <3>4. AtHand(stack', c) = AtHand(stack, c)
        BY <3>3 DEF AtHand, RolesKept
      <3> QED BY <3>1, <3>2, <3>4, <2>3, <2>4
    <2>6. Pushes(pending', c) + AtHand(stack', c) <= p'[c].owed
      BY <2>1, <2>2, <2>3, <2>4
    <2>7. p'[c].owed <= messages'
      BY <2>3, <2>4
    <2> QED BY <2>5, <2>6, <2>7
  <1>8. CaughtUpI'
    <2> SUFFICES ASSUME NEW c \in members'
                 PROVE  p'[c].cursor = head' \/ failures' > 0 \/ Has(stack', "feeding", c)
      BY DEF CaughtUpI
    <2>1. c \in members \/ NewMember(c)
      BY DEF LifeKept
    <2>2. CASE NewMember(c)
      BY <2>2 DEF NewMember
    <2>3. CASE c \in members
      <3>1. c \in Peers /\ p'[c].cursor = p[c].cursor
        BY <2>3 DEF TypeI, PeersKept, Soft, SameData
      <3> QED BY <2>3, <3>1 DEF CaughtUpI, RolesKept, TypeI
    <2> QED BY <2>1, <2>2, <2>3
  <1>9. ToldI'
    <2> SUFFICES ASSUME NEW c \in members'
                 PROVE  p'[c].told = "admitted" \/ Has(stack', "admitting", c)
      BY DEF ToldI
    <2>1. c \in members \/ NewMember(c)
      BY DEF LifeKept
    <2>2. CASE NewMember(c)
      BY <2>2 DEF NewMember
    <2>3. CASE c \in members
      <3>1. c \in Peers /\ up'
        BY <2>3 DEF LifeKept, TypeI, OverI
      <3> QED BY <2>3, <3>1 DEF ToldI, RolesKept, PeersKept
    <2> QED BY <2>1, <2>2, <2>3
  <1>10. QueueI'
    BY DEF QueueI, LifeKept, RolesKept
  <1> QED BY <1>1, <1>2, <1>3, <1>4, <1>5, <1>6, <1>7, <1>8, <1>9, <1>10

LEMMA SoftStep ==
    ASSUME RestI, PeersKept, LifeKept, RolesKept,
           UNCHANGED <<head, snap, messages>>,
           moved' \in BOOLEAN, failures' \in Nat, failures <= failures'
    PROVE  RestI'
  <1>1. snap' \in 1..head
    BY DEF RestI, TypeI
  <1> QED BY <1>1, SoftSnapStep

-----------------------------------------------------------------------------
(* The shapes of a step on the stack *)

\* The parts played after the call on top went on as r.
LEMMA RolesAfter ==
    ASSUME NEW s, Structured(s), s # <<>>, NEW r \in Call
    PROVE  \A role, c :
              /\ Has(s, role, c) <=> Has(Under(s), role, c) \/ Plays(s[Len(s)], role, c)
              /\ Has(Append(Under(s), r), role, c) <=> Has(Under(s), role, c) \/ Plays(r, role, c)
  <1>1. s \in Seq(Call)
    BY DEF Structured
  <1>2. Under(s) \in Seq(Call)
    BY <1>1, UnderIs
  <1> QED BY <1>1, <1>2, HasUnder, HasAppend

LEMMA Silent ==
    ASSUME NEW r, r.op = "peer", NEW role, NEW c
    PROVE  ~Plays(r, role, c)
    BY DEF Plays, About, Active, WillAppend, Acking, Unanswered, Entering, Admitting, Feeding

LEMMA OnlyRetires ==
    ASSUME NEW r, r.op = "retire", NEW role, NEW c, role # "retire"
    PROVE  ~Plays(r, role, c)
    BY DEF Plays, About, Active, WillAppend, Acking, Unanswered, Entering, Admitting, Feeding

\* Control may be handed to a peer, or to the notices of a retirement.
LEMMA LightPush ==
    ASSUME NEW s, Structured(s), NEW q \in Call, q.op \in {"peer", "retire"}, Who(q),
           s # <<>> => ~Waiting(s[Len(s)]) /\ ~Entering(s[Len(s)], s[Len(s)].c)
    PROVE  /\ Structured(Append(s, q)) /\ ~Waiting(q)
           /\ \A x, hd, sn, b : FitAll(s, x, hd, sn, b) => FitAll(Append(s, q), x, hd, sn, b)
           /\ Append(s, q) # <<>> /\ Append(s, q)[Len(Append(s, q))] = q
           /\ \A role, c : Has(Append(s, q), role, c) <=>
                 Has(s, role, c) \/ (role = "retire" /\ q.op = "retire")
  <1>1. MayPush(s, q)
    BY DEF MayPush, Calls
  <1>2. Structured(Append(s, q))
    BY <1>1, PushKeeps
  <1>3. s \in Seq(Call)
    BY DEF Structured
  <1>4. ASSUME NEW x, NEW hd, NEW sn, NEW b, FitAll(s, x, hd, sn, b)
        PROVE  FitAll(Append(s, q), x, hd, sn, b)
    <2>1. Fits(q, x[q.c], hd, sn, b)
      BY FitsOther
    <2> QED BY <1>3, <1>4, <2>1, FitAppend
  <1>5. ASSUME NEW role, NEW c
        PROVE  Has(Append(s, q), role, c) <=> Has(s, role, c) \/ (role = "retire" /\ q.op = "retire")
    <2>1. Has(Append(s, q), role, c) <=> Has(s, role, c) \/ Plays(q, role, c)
      BY <1>3, HasAppend
    <2>2. Plays(q, role, c) <=> role = "retire" /\ q.op = "retire"
      <3>1. q.op = "peer" => ~Plays(q, role, c)
        BY Silent
      <3>2. q.op = "retire" /\ role # "retire" => ~Plays(q, role, c)
        BY OnlyRetires
      <3>3. q.op = "retire" /\ role = "retire" => Plays(q, role, c)
        BY DEF Plays
      <3> QED BY <3>1, <3>2, <3>3
    <2> QED BY <2>1, <2>2
  <1>6. Append(s, q) # <<>> /\ Append(s, q)[Len(Append(s, q))] = q
    BY <1>3, AppendIs
  <1> QED BY <1>2, <1>4, <1>5, <1>6 DEF Waiting

\* What the call on top was to do, it is still to do as r.
TopKept(t, r) ==
    /\ \A c \in Peers :
        /\ Plays(r, "about", c) => Plays(t, "about", c)
        /\ Plays(t, "acking", c) => Plays(r, "acking", c)
        /\ Plays(t, "unanswered", c) <=> Plays(r, "unanswered", c)
        /\ Plays(r, "entering", c) => Plays(t, "entering", c)
        /\ Plays(t, "admitting", c) => Plays(r, "admitting", c)
    /\ Plays(r, "append", NoPeer) => Plays(t, "append", NoPeer)
    /\ Plays(r, "retire", NoPeer) => Plays(t, "retire", NoPeer)
    /\ Plays(t, "active", NoPeer) => Plays(r, "active", NoPeer)

FailedTo(f) ==
    /\ p' = p /\ LifeKept
    /\ failures' \in Nat /\ failures <= failures'
    /\ failures' > 0 \/ up' = FALSE
    /\ stack' = f \/ (stack' = Append(f, RetireRec) /\ up' = FALSE)

Passed(ok, peers) == up = TRUE /\ stack' = ok /\ p' = peers /\ UNCHANGED <<lifetime, failures>>

LEMMA ConstantsAre == Chunks \in Nat \ {0} /\ MaxHead \in Nat \ {0} /\ MaxMessages \in Nat
    BY HubAssumption DEF MaxHead

LEMMA RecIs ==
    ASSUME NEW op \in Ops, NEW c \in Peers \cup {NoPeer}
    PROVE  /\ Rec(op, c) \in Call /\ Rec(op, c).op = op /\ Rec(op, c).c = c
           /\ Rec(op, c).pc = "start" /\ Rec(op, c).ret = "none" /\ Rec(op, c).seen = {}
           /\ Rec(op, c).item = <<"none", 0, 0>> /\ Rec(op, c).n = 0
  <1>1. <<"none", 0, 0>> \in Items /\ 0 \in 0..MaxHead
    BY ConstantsAre DEF Items
  <1> QED BY <1>1 DEF Rec, Call, Pcs

LEMMA RetireRecIs ==
    ASSUME TypeI
    PROVE  RetireRec \in Call /\ RetireRec.op = "retire" /\ Who(RetireRec)
  <1>1. Rec("retire", NoPeer) \in Call /\ Rec("retire", NoPeer).op = "retire"
    <2>1. "retire" \in Ops /\ NoPeer \in Peers \cup {NoPeer}
      BY DEF Ops
    <2> QED BY <2>1, RecIs
  <1>2. members \in SUBSET Peers
    BY DEF TypeI
  <1> QED BY <1>1, <1>2 DEF RetireRec, Call, Who

LEMMA RetireIs ==
    ASSUME Retire
    PROVE  up' = FALSE /\ members' = {} /\ pending' = <<>>
  <1>1. up' = FALSE
    BY DEF Retire, UpWhileNotifying
  <1>2. members' = {} /\ pending' = <<>>
    BY <1>1, Zenon DEF Retire
  <1> QED BY <1>1, <1>2

LEMMA AdmissionCases ==
    ASSUME TypeI, OverI, NEW ok, NEW peers, NEW f, Admission(ok, peers, f)
    PROVE  Passed(ok, peers) \/ FailedTo(f)
  <1>1. CASE up /\ ~moved /\ stack' = ok /\ p' = peers /\ UNCHANGED <<lifetime, failures>>
    BY <1>1 DEF Passed, TypeI
  <1>2. CASE /\ up /\ failures < MaxFailures
             /\ failures' = failures + 1
             /\ stack' = f /\ UNCHANGED <<lifetime, p>>
    BY <1>2 DEF FailedTo, LifeKept, lifetime, TypeI
  <1>3. CASE /\ up /\ moved
             /\ stack' = Append(f, RetireRec)
             /\ Retire /\ UNCHANGED <<p, failures>>
    BY <1>3, RetireIs DEF FailedTo, LifeKept, TypeI
  <1>4. CASE ~up /\ stack' = f /\ UNCHANGED <<lifetime, p, failures>>
    BY <1>4 DEF FailedTo, LifeKept, lifetime, TypeI
  <1> QED BY <1>1, <1>2, <1>3, <1>4 DEF Admission

LEMMA StorageFailsTo ==
    ASSUME TypeI, NEW f, StorageFails(f)
    PROVE  FailedTo(f)
    BY DEF StorageFails, FailedTo, LifeKept, lifetime, TypeI

\* Where storage fails or the lifetime is over, a call goes on to its error path.
LEMMA FailStep ==
    ASSUME IInv, stack # <<>>, NEW r \in Call, r.op = Top.op, r.c = Top.c,
           r.op = "deliver" => r.n = Top.n /\ r.item = Top.item,
           FailedTo(Append(Under(stack), r)), UNCHANGED <<moved, head, snap, messages>>,
           TopKept(Top, r), ~Waiting(r), ~Entering(r, r.c),
           Fits(r, p[r.c], head, snap, TRUE)
    PROVE  IInv'
  <1> DEFINE f == Append(Under(stack), r)
             t == stack[Len(stack)]
  <1>1. Structured(stack) /\ stack \in Seq(Call) /\ RestI /\ TypeI
    BY DEF IInv, RestI, Structured
  <1>2. t = Top
    BY DEF Top
  <1>3. Structured(Under(stack)) /\ MayPush(Under(stack), r)
    BY <1>1, <1>2, TopMayStay DEF Delivers
  <1>4. Structured(f) /\ Under(stack) \in Seq(Call)
    BY <1>3, PushKeeps DEF Structured
  <1>5. f # <<>> /\ f[Len(f)] = r
    BY <1>4, AppendIs
  <1>6. \A role, c :
              /\ Has(stack, role, c) <=> Has(Under(stack), role, c) \/ Plays(t, role, c)
              /\ Has(f, role, c) <=> Has(Under(stack), role, c) \/ Plays(r, role, c)
    BY <1>1, RolesAfter
  <1>7. FitAll(f, p, head, snap, TRUE)
    <2>1. FitAll(Under(stack), p, head, snap, Broke)
      BY <1>1, FitUnder DEF IInv, CallsFit
    <2>2. \A c \in Peers : SameData(p[c], p[c])
      BY DEF SameData
    <2>3. FitAll(Under(stack), p, head, snap, TRUE)
      BY <2>1, <2>2, <1>3, FitAllSoft
    <2> QED BY <2>3, <1>4, FitAppend
  <1>8. /\ Structured(stack') /\ stack' # <<>> /\ ~Waiting(stack'[Len(stack')])
        /\ ~Entering(stack'[Len(stack')], stack'[Len(stack')].c)
        /\ FitAll(stack', p, head, snap, TRUE)
        /\ \A role, c : role # "retire" => (Has(stack', role, c) <=> Has(f, role, c))
        /\ up' = FALSE \/ \A role, c : Has(stack', role, c) <=> Has(f, role, c)
    <2>1. CASE stack' = f
      BY <2>1, <1>4, <1>5, <1>7
    <2>2. CASE stack' = Append(f, RetireRec) /\ up' = FALSE
      <3>1. RetireRec \in Call /\ RetireRec.op = "retire" /\ Who(RetireRec)
        BY <1>1, RetireRecIs
      <3> HIDE DEF f
      <3>2. /\ Structured(Append(f, RetireRec)) /\ ~Waiting(RetireRec)
            /\ FitAll(Append(f, RetireRec), p, head, snap, TRUE)
            /\ Append(f, RetireRec) # <<>>
            /\ Append(f, RetireRec)[Len(Append(f, RetireRec))] = RetireRec
            /\ \A role, c : Has(Append(f, RetireRec), role, c) <=>
                  Has(f, role, c) \/ (role = "retire" /\ RetireRec.op = "retire")
        BY <3>1, <1>4, <1>5, <1>7, LightPush
      <3> QED BY <3>1, <3>2, <2>2 DEF Entering
    <2> QED BY <2>1, <2>2 DEF FailedTo
  <1>9. RolesKept
    <2>1. \A c \in members' : failures' > 0
      BY DEF FailedTo, LifeKept, NewMember, IInv, OverI
    <2> HIDE DEF f, t
    <2> QED BY <2>1, <1>2, <1>6, <1>8 DEF RolesKept, TopKept
  <1>10. RestI'
    <2>1. PeersKept
      BY <1>1 DEF PeersKept, FailedTo, Soft, SameData, TypeI
    <2>2. LifeKept /\ failures' \in Nat /\ failures <= failures' /\ moved' \in BOOLEAN
      BY <1>1 DEF FailedTo, TypeI
    <2> QED BY <2>1, <2>2, <1>1, <1>9, SoftStep
  <1>11. CallsFit'
    <2>1. Broke'
      BY DEF Broke, FailedTo
    <2>2. \A c \in Peers : SameData(p[c], p[c])
      BY DEF SameData
    <2>3. FitAll(stack', p, head, snap, Broke')
      BY <2>1, <2>2, <1>8, FitAllSoft
    <2> QED BY <2>3 DEF CallsFit, FailedTo
  <1>12. NotWaiting'
    BY <1>8 DEF NotWaiting, Ready, Entering
  <1> QED BY <1>8, <1>10, <1>11, <1>12 DEF IInv, RestI

\* As RolesKept, of the call on top that goes on as r.
RolesGo(t, r) ==
    /\ \A c \in Peers :
        /\ Plays(r, "about", c) => Plays(t, "about", c)
        /\ Plays(t, "acking", c) => Plays(r, "acking", c)
        /\ Plays(t, "unanswered", c) <=> Plays(r, "unanswered", c)
        /\ Plays(r, "entering", c) => Plays(t, "entering", c)
        /\ Plays(t, "feeding", c) =>
              Plays(r, "feeding", c) \/ p[c].cursor = head \/ failures' > 0 \/ c \notin members'
        /\ Plays(t, "admitting", c) =>
              Plays(r, "admitting", c) \/ p'[c].told = "admitted" \/ c \notin members'
    /\ Plays(r, "append", NoPeer) => Plays(t, "append", NoPeer)
    /\ Plays(r, "retire", NoPeer) => Plays(t, "retire", NoPeer)
    /\ Plays(t, "active", NoPeer) => Plays(r, "active", NoPeer)

\* The item of a delivery stays below the position of the push that waits for it.
ItemBelow(t, r) ==
    r.op = "deliver" =>
        /\ r.n = t.n
        /\ \A a \in Call : a.op = "process" /\ a.pc = "delivered" /\ a.c = r.c
               /\ Delivers(a, t) => r.item[2] < a.n

\* A call goes on as r, and may hand control to a peer.
GoesOn(r) ==
    LET f == Append(Under(stack), r)
    IN  \/ stack' = f
        \/ \E c \in Peers : stack' = Append(f, Rec("peer", c)) /\ ~Entering(r, r.c)

LEMMA GoShape ==
    ASSUME IInv, stack # <<>>, NEW r \in Call, r.op = Top.op, r.c = Top.c, ItemBelow(Top, r),
           GoesOn(r), ~Waiting(r), r.op = "join" /\ r.pc = "enter" => up' = TRUE
    PROVE  /\ Structured(stack') /\ NotWaiting'
           /\ Structured(Under(stack)) /\ Under(stack) \in Seq(Call)
           /\ \A role, c :
                /\ Has(stack, role, c) <=> Has(Under(stack), role, c) \/ Plays(Top, role, c)
                /\ Has(stack', role, c) <=> Has(Under(stack), role, c) \/ Plays(r, role, c)
           /\ \A x, hd, sn, b :
                FitAll(Under(stack), x, hd, sn, b) /\ Fits(r, x[r.c], hd, sn, b)
                => FitAll(stack', x, hd, sn, b)
           /\ FitAll(Under(stack), p, head, snap, Broke)
           /\ Fits(Top, p[Top.c], head, snap, Broke) /\ Top \in Call
  <1> DEFINE f == Append(Under(stack), r)
             t == stack[Len(stack)]
  <1>1. Structured(stack) /\ stack \in Seq(Call)
    BY DEF IInv, Structured
  <1>2. t = Top
    BY DEF Top
  <1>3. Structured(Under(stack)) /\ MayPush(Under(stack), r)
    BY <1>1, <1>2, TopMayStay DEF ItemBelow
  <1>4. Structured(f) /\ Under(stack) \in Seq(Call)
    BY <1>3, PushKeeps DEF Structured
  <1>5. f # <<>> /\ f[Len(f)] = r
    BY <1>4, AppendIs
  <1>6. \A role, c :
              /\ Has(stack, role, c) <=> Has(Under(stack), role, c) \/ Plays(t, role, c)
              /\ Has(f, role, c) <=> Has(Under(stack), role, c) \/ Plays(r, role, c)
    BY <1>1, RolesAfter
  <1>7. \A x, hd, sn, b :
            FitAll(Under(stack), x, hd, sn, b) /\ Fits(r, x[r.c], hd, sn, b) => FitAll(f, x, hd, sn, b)
    BY <1>4, FitAppend
  <1>8. /\ FitAll(Under(stack), p, head, snap, Broke)
        /\ Fits(t, p[t.c], head, snap, Broke) /\ t \in Call
    BY <1>1, FitUnder, UnderIs DEF IInv, CallsFit
  <1>9. /\ Structured(stack') /\ stack' # <<>> /\ Ready(stack[Len(stack)])'
        /\ \A role, c : Has(stack', role, c) <=> Has(f, role, c)
        /\ \A x, hd, sn, b : FitAll(f, x, hd, sn, b) => FitAll(stack', x, hd, sn, b)
    <2>1. CASE stack' = f
      BY <2>1, <1>4, <1>5 DEF Ready
    <2>2. ASSUME NEW c \in Peers, stack' = Append(f, Rec("peer", c)), ~Entering(r, r.c)
          PROVE  <1>9!:
      <3> DEFINE q == Rec("peer", c)
      <3>1. "peer" \in Ops /\ c \in Peers \cup {NoPeer}
        BY DEF Ops
      <3>2. q \in Call /\ q.op = "peer" /\ q.c = c
        BY <3>1, RecIs
      <3>3. Who(q) /\ q.op \in {"peer", "retire"}
        BY <3>2 DEF Who
      <3> HIDE DEF f, q
      <3>4. /\ Structured(Append(f, q)) /\ ~Waiting(q)
            /\ \A x, hd, sn, b : FitAll(f, x, hd, sn, b) => FitAll(Append(f, q), x, hd, sn, b)
            /\ Append(f, q) # <<>> /\ Append(f, q)[Len(Append(f, q))] = q
            /\ \A role, d : Has(Append(f, q), role, d) <=>
                  Has(f, role, d) \/ (role = "retire" /\ q.op = "retire")
        BY <3>2, <3>3, <1>4, <1>5, <2>2, LightPush
      <3> QED BY <3>2, <3>4, <2>2 DEF q, Ready
    <2> QED BY <2>1, <2>2 DEF GoesOn
  <1>10. \A role, c :
                /\ Has(stack, role, c) <=> Has(Under(stack), role, c) \/ Plays(t, role, c)
                /\ Has(stack', role, c) <=> Has(Under(stack), role, c) \/ Plays(r, role, c)
    <2> HIDE DEF f
    <2> QED BY <1>6, <1>9
  <1>11. \A x, hd, sn, b :
                FitAll(Under(stack), x, hd, sn, b) /\ Fits(r, x[r.c], hd, sn, b)
                => FitAll(stack', x, hd, sn, b)
    <2> HIDE DEF f
    <2> QED BY <1>7, <1>9
  <1>12. NotWaiting'
    BY <1>9 DEF NotWaiting
  <1> HIDE DEF f, t
  <1> QED BY <1>2, <1>3, <1>4, <1>8, <1>9, <1>10, <1>11, <1>12

LEMMA GoStep ==
    ASSUME IInv, stack # <<>>, NEW r \in Call, r.op = Top.op, r.c = Top.c, ItemBelow(Top, r),
           GoesOn(r), ~Waiting(r), r.op = "join" /\ r.pc = "enter" => up' = TRUE,
           RolesGo(Top, r),
           PeersKept, LifeKept, UNCHANGED <<head, snap, messages, failures>>,
           moved' \in BOOLEAN,
           Fits(r, p[r.c], head, snap, Broke)
    PROVE  IInv'
  <1>1. /\ Structured(stack') /\ NotWaiting'
        /\ Structured(Under(stack))
        /\ \A role, c :
                /\ Has(stack, role, c) <=> Has(Under(stack), role, c) \/ Plays(Top, role, c)
                /\ Has(stack', role, c) <=> Has(Under(stack), role, c) \/ Plays(r, role, c)
        /\ \A x, hd, sn, b :
                FitAll(Under(stack), x, hd, sn, b) /\ Fits(r, x[r.c], hd, sn, b)
                => FitAll(stack', x, hd, sn, b)
        /\ FitAll(Under(stack), p, head, snap, Broke)
    BY GoShape
  <1>2. RolesKept
    BY <1>1 DEF RolesKept, RolesGo
  <1>3. RestI'
    <2>1. RestI /\ failures' \in Nat /\ failures <= failures'
      BY DEF IInv, RestI, TypeI
    <2> QED BY <2>1, <1>2, SoftStep
  <1>4. CallsFit'
    <2>1. FitAll(stack', p, head, snap, Broke)
      BY <1>1
    <2>2. Broke => Broke'
      BY DEF Broke, LifeKept
    <2>3. \A c \in Peers : SameData(p[c], p'[c])
      BY DEF PeersKept, Soft
    <2>4. FitAll(stack', p', head, snap, Broke')
      BY <1>1, <2>1, <2>2, <2>3, FitAllSoft
    <2> QED BY <2>4 DEF CallsFit
  <1> QED BY <1>1, <1>3, <1>4 DEF IInv, RestI

\* Only the call that has control can be between its admission and its membership.
LEMMA NoEnteringUnder ==
    ASSUME NEW s, Structured(s), s # <<>>, NEW c
    PROVE  ~Has(Under(s), "entering", c)
  <1>1. s \in Seq(Call)
    BY DEF Structured
  <1> DEFINE t == Under(s)
             n == Len(s)
  <1>2. /\ Len(t) = n - 1 /\ n \in Nat \ {0}
        /\ \A k \in 1..n - 1 : t[k] = s[k]
    BY <1>1, UnderIs
  <1> HIDE DEF t
  <1>3. ASSUME NEW k \in 1..Len(t) PROVE ~Entering(t[k], c)
    <2>1. k + 1 \in 1..n /\ k + 1 # 1 /\ k + 1 - 1 = k /\ t[k] = s[k]
      BY <1>2
    <2>2. Calls(s[k], s[k + 1])
      BY <2>1 DEF Structured, Parents
    <2> QED BY <2>1, <2>2 DEF Calls, Entering
  <1>4. ~Has(t, "entering", c)
    BY <1>3 DEF Has, Plays
  <1> QED BY <1>4 DEF t

\* The call on top returns, and may leave control to a peer.
Leaves ==
    \/ stack' = Under(stack)
    \/ \E c \in Peers : stack' = Append(Under(stack), Rec("peer", c))

LEMMA PopShape ==
    ASSUME IInv, stack # <<>>, Top.op # "deliver", Leaves
    PROVE  /\ Structured(stack') /\ NotWaiting'
           /\ Structured(Under(stack)) /\ Under(stack) \in Seq(Call)
           /\ \A role, c :
                /\ Has(stack, role, c) <=> Has(Under(stack), role, c) \/ Plays(Top, role, c)
                /\ Has(stack', role, c) <=> Has(Under(stack), role, c)
           /\ \A x, hd, sn, b :
                FitAll(Under(stack), x, hd, sn, b) => FitAll(stack', x, hd, sn, b)
           /\ FitAll(Under(stack), p, head, snap, Broke)
  <1> DEFINE f == Under(stack)
             t == stack[Len(stack)]
             n == Len(stack)
  <1>1. Structured(stack) /\ stack \in Seq(Call)
    BY DEF IInv, Structured
  <1>2. t = Top
    BY DEF Top
  <1>3. Structured(f) /\ f \in Seq(Call) /\ Len(f) = n - 1 /\ n \in Nat \ {0}
        /\ \A k \in 1..n - 1 : f[k] = stack[k]
    BY <1>1, PopKeeps, UnderIs
  <1>4. \A role, c : Has(stack, role, c) <=> Has(f, role, c) \/ Plays(t, role, c)
    BY <1>1, HasUnder
  <1>5. FitAll(f, p, head, snap, Broke)
    BY <1>1, FitUnder DEF IInv, CallsFit
  <1>6. f # <<>> => ~Waiting(f[Len(f)]) /\ ~Entering(f[Len(f)], f[Len(f)].c)
    <2> HIDE DEF f
    <2> HAVE f # <<>>
    <2>1. n # 1 /\ n - 1 \in 1..n /\ n \in 1..n /\ f[Len(f)] = stack[n - 1]
      BY <1>3
    <2>2. Calls(stack[n - 1], stack[n])
      BY <2>1, <1>1 DEF Structured, Parents
    <2> QED BY <2>1, <2>2, <1>2 DEF Calls
  <1>7. /\ Structured(stack') /\ (stack' # <<>> => Ready(stack[Len(stack)])')
        /\ \A role, c : Has(stack', role, c) <=> Has(f, role, c)
        /\ \A x, hd, sn, b : FitAll(f, x, hd, sn, b) => FitAll(stack', x, hd, sn, b)
    <2>1. CASE stack' = f
      BY <2>1, <1>3, <1>6 DEF Ready, Entering
    <2>2. ASSUME NEW c \in Peers, stack' = Append(f, Rec("peer", c))
          PROVE  <1>7!:
      <3> DEFINE q == Rec("peer", c)
      <3>1. "peer" \in Ops /\ c \in Peers \cup {NoPeer}
        BY DEF Ops
      <3>2. q \in Call /\ q.op = "peer" /\ q.c = c
        BY <3>1, RecIs
      <3>3. Who(q) /\ q.op \in {"peer", "retire"}
        BY <3>2 DEF Who
      <3> HIDE DEF f, q
      <3>4. /\ Structured(Append(f, q)) /\ ~Waiting(q)
            /\ \A x, hd, sn, b : FitAll(f, x, hd, sn, b) => FitAll(Append(f, q), x, hd, sn, b)
            /\ Append(f, q) # <<>> /\ Append(f, q)[Len(Append(f, q))] = q
            /\ \A role, d : Has(Append(f, q), role, d) <=>
                  Has(f, role, d) \/ (role = "retire" /\ q.op = "retire")
        BY <3>2, <3>3, <1>3, <1>6, LightPush
      <3> QED BY <3>2, <3>4, <2>2 DEF q, Ready
    <2> QED BY <2>1, <2>2 DEF Leaves
  <1>8. NotWaiting'
    BY <1>7 DEF NotWaiting
  <1>9. \A role, c : Has(stack', role, c) <=> Has(f, role, c)
    BY <1>7
  <1> HIDE DEF f, t
  <1> QED BY <1>2, <1>3, <1>4, <1>5, <1>7, <1>8, <1>9 DEF f

\* As RolesKept, of the call on top that returns.
RolesPop(t) ==
    /\ \A c \in Peers :
        /\ ~Plays(t, "acking", c)
        /\ Plays(t, "unanswered", c) => c \notin members'
        /\ Plays(t, "feeding", c) => p[c].cursor = head \/ failures' > 0 \/ c \notin members'
        /\ Plays(t, "admitting", c) => p'[c].told = "admitted" \/ c \notin members'
    /\ Plays(t, "active", NoPeer) => Has(Under(stack), "active", NoPeer) \/ pending' = <<>>

LEMMA PopStep ==
    ASSUME IInv, stack # <<>>, Top.op # "deliver", Leaves, RolesPop(Top),
           PeersKept, LifeKept, UNCHANGED <<head, snap, messages>>,
           failures' \in Nat, failures <= failures', moved' \in BOOLEAN
    PROVE  IInv'
  <1>1. /\ Structured(stack') /\ NotWaiting'
        /\ Structured(Under(stack))
        /\ \A role, c :
                /\ Has(stack, role, c) <=> Has(Under(stack), role, c) \/ Plays(Top, role, c)
                /\ Has(stack', role, c) <=> Has(Under(stack), role, c)
        /\ \A x, hd, sn, b :
                FitAll(Under(stack), x, hd, sn, b) => FitAll(stack', x, hd, sn, b)
        /\ FitAll(Under(stack), p, head, snap, Broke)
    BY PopShape
  <1>2. \A c : ~Has(Under(stack), "entering", c)
    BY NoEnteringUnder DEF IInv
  <1>3. RolesKept
    BY <1>1, <1>2 DEF RolesKept, RolesPop
  <1>4. RestI'
    <2>1. RestI
      BY DEF IInv, RestI
    <2> QED BY <2>1, <1>3, SoftStep
  <1>5. CallsFit'
    <2>1. FitAll(stack', p, head, snap, Broke)
      BY <1>1
    <2>2. Broke => Broke'
      BY DEF Broke, LifeKept, IInv, TypeI
    <2>3. \A c \in Peers : SameData(p[c], p'[c])
      BY DEF PeersKept, Soft
    <2>4. FitAll(stack', p', head, snap, Broke')
      BY <1>1, <2>1, <2>2, <2>3, FitAllSoft
    <2> QED BY <2>4 DEF CallsFit
  <1> QED BY <1>1, <1>4, <1>5 DEF IInv, RestI

\* What is known of the call that has control.
LEMMA TopIs ==
    ASSUME IInv, stack # <<>>
    PROVE  /\ Top \in Call /\ Who(Top) /\ Below = Under(stack)
           /\ Fits(Top, p[Top.c], head, snap, Broke) /\ Ready(Top)
  <1>1. Structured(stack) /\ stack \in Seq(Call)
    BY DEF IInv, Structured
  <1>2. Len(stack) \in 1..Len(stack) /\ stack[Len(stack)] \in Call
    BY <1>1, UnderIs
  <1>3. Who(Top)
    BY <1>1, <1>2 DEF Structured, Who, Top
  <1>4. Fits(Top, p[Top.c], head, snap, Broke)
    BY <1>2 DEF IInv, CallsFit, FitAll, Top
  <1>5. Ready(Top)
    BY DEF IInv, NotWaiting, Top
  <1>6. Below = Under(stack)
    BY Zenon DEF Below, Under
  <1> QED BY <1>2, <1>3, <1>4, <1>5, <1>6 DEF Top

At(t, pc) == [t EXCEPT !.pc = pc]

LEMMA AtIs ==
    ASSUME NEW t \in Call, NEW pc \in Pcs
    PROVE  /\ At(t, pc) \in Call /\ At(t, pc).op = t.op /\ At(t, pc).c = t.c
           /\ At(t, pc).pc = pc /\ At(t, pc).n = t.n /\ At(t, pc).item = t.item
           /\ At(t, pc).seen = t.seen /\ At(t, pc).ret = t.ret
    BY DEF At, Call

LEMMA GoesIs ==
    ASSUME IInv, stack # <<>>, NEW pc
    PROVE  Goes(pc) = Append(Under(stack), At(Top, pc))
  <1>1. Below = Under(stack)
    BY TopIs
  <1> QED BY <1>1, Zenon DEF Goes, At

LEMMA PeersSame ==
    ASSUME TypeI, p' = p
    PROVE  PeersKept
    BY DEF PeersKept, Soft, SameData, TypeI

LEMMA LifeSame ==
    ASSUME UNCHANGED lifetime
    PROVE  LifeKept
    BY DEF LifeKept, lifetime

-----------------------------------------------------------------------------
(* Frames *)

\* A notice changes only what the peer was told.
LEMMA NoticeIs ==
    ASSUME NEW x \in Peer, NEW k \in {"admitted", "retired"},
           x.late = FALSE, x.told = "retired" => k = "retired"
    PROVE  /\ Got(x, Frame(k, 0, 0)) \in Peer
           /\ Soft(x, Got(x, Frame(k, 0, 0))) /\ Got(x, Frame(k, 0, 0)).told = k
  <1> DEFINE f == Frame(k, 0, 0)
             late == x.late \/ (x.told = "retired" /\ f.kind # "retired")
             y == [x EXCEPT !.late = late]
  <1>1. f.kind = k
    BY DEF Frame
  <1>2. late = FALSE
    BY <1>1
  <1> HIDE DEF f
  <1>3. Got(x, f) = [y EXCEPT !.told = k]
    BY <1>1 DEF Got
  <1> HIDE DEF late
  <1>4. y \in Peer /\ Soft(x, y) 
    BY <1>2 DEF Peer, Soft, SameData
  <1> HIDE DEF y
  <1> QED BY <1>3, <1>4 DEF Peer, Soft, SameData, f

\* Telling c that it is admitted, or, when the lifetime is over, retired.
LEMMA NoticeKept ==
    ASSUME TypeI, OverI, NothingAfterRetired, NEW c \in Peers, NEW k \in {"admitted", "retired"},
           p' = Sent(c, Frame(k, 0, 0)), up' = up, k = "admitted" => up, k = "retired" => ~up
    PROVE  PeersKept /\ p'[c].told = k
  <1> DEFINE y == Got(p[c], Frame(k, 0, 0))
  <1>1. p[c] \in Peer /\ p[c].late = FALSE
    BY DEF TypeI, NothingAfterRetired, Peer
  <1>2. p[c].told = "retired" => k = "retired"
    BY DEF OverI
  <1>3. y \in Peer /\ Soft(p[c], y) /\ y.told = k
    BY <1>1, <1>2, NoticeIs
  <1>4. p' = [p EXCEPT ![c] = y]
    BY DEF Sent
  <1> HIDE DEF y
  <1>5. p' \in [Peers -> Peer] /\ p'[c] = y /\ \A d \in Peers : d # c => p'[d] = p[d]
    BY <1>3, <1>4 DEF TypeI
  <1>6. \A d \in Peers : Soft(p[d], p'[d])
    BY <1>3, <1>5 DEF Soft, SameData
  <1>7. \A d \in Peers : p'[d].told = "retired" => p[d].told = "retired" \/ ~up'
    BY <1>3, <1>5
  <1>8. \A d \in Peers : p[d].told = "admitted" => p'[d].told = "admitted" \/ ~up'
    BY <1>3, <1>5
  <1> QED BY <1>3, <1>5, <1>6, <1>7, <1>8 DEF PeersKept

-----------------------------------------------------------------------------
(* A call that starts a delivery *)

Delivery(d, ceiling) == [Rec("deliver", d) EXCEPT !.n = ceiling]

LEMMA DeliveryIs ==
    ASSUME NEW d \in Peers, NEW ceiling \in 0..MaxHead
    PROVE  /\ Delivery(d, ceiling) \in Call /\ Delivery(d, ceiling).op = "deliver"
           /\ Delivery(d, ceiling).c = d /\ Delivery(d, ceiling).pc = "start"
           /\ Delivery(d, ceiling).n = ceiling /\ Delivery(d, ceiling).item = <<"none", 0, 0>>
  <1>1. "deliver" \in Ops /\ d \in Peers \cup {NoPeer}
    BY DEF Ops
  <1>2. /\ Rec("deliver", d) \in Call /\ Rec("deliver", d).op = "deliver"
        /\ Rec("deliver", d).c = d /\ Rec("deliver", d).pc = "start"
        /\ Rec("deliver", d).item = <<"none", 0, 0>>
    BY <1>1, RecIs
  <1> QED BY <1>2 DEF Delivery, Call

LEMMA DeliverShape ==
    ASSUME IInv, stack # <<>>, NEW r \in Call, r.op = Top.op, r.c = Top.c, r.op # "deliver",
           ~Entering(r, r.c),
           NEW e \in Peers, NEW ceiling \in 0..MaxHead, Delivers(r, Delivery(e, ceiling)),
           stack' = Append(Append(Under(stack), r), Delivery(e, ceiling))
    PROVE  /\ Structured(stack') /\ NotWaiting'
           /\ Structured(Under(stack)) /\ Under(stack) \in Seq(Call)
           /\ \A role, c :
                /\ Has(stack, role, c) <=> Has(Under(stack), role, c) \/ Plays(Top, role, c)
                /\ Has(stack', role, c) <=>
                      \/ Has(Under(stack), role, c) \/ Plays(r, role, c)
                      \/ role \in {"about", "feeding"} /\ c = e
           /\ \A x, hd, sn, b :
                FitAll(Under(stack), x, hd, sn, b) /\ Fits(r, x[r.c], hd, sn, b)
                => FitAll(stack', x, hd, sn, b)
           /\ FitAll(Under(stack), p, head, snap, Broke)
  <1> DEFINE f == Append(Under(stack), r)
             t == stack[Len(stack)]
             d == Delivery(e, ceiling)
  <1>1. Structured(stack) /\ stack \in Seq(Call)
    BY DEF IInv, Structured
  <1>2. t = Top
    BY DEF Top
  <1>3. Structured(Under(stack)) /\ MayPush(Under(stack), r)
    BY <1>1, <1>2, TopMayStay
  <1>4. Structured(f) /\ Under(stack) \in Seq(Call) /\ f \in Seq(Call)
    BY <1>3, PushKeeps DEF Structured
  <1>5. f # <<>> /\ f[Len(f)] = r
    BY <1>4, AppendIs
  <1>6. d \in Call /\ d.op = "deliver" /\ d.c = e /\ d.pc = "start"
    BY DeliveryIs
  <1> HIDE DEF f, d
  <1>7. MayPush(f, d)
    BY <1>5, <1>6 DEF MayPush, Who, Calls, d
  <1>8. Structured(Append(f, d))
    BY <1>4, <1>7, PushKeeps
  <1>9. Append(f, d) # <<>> /\ Append(f, d)[Len(Append(f, d))] = d /\ ~Waiting(d)
    BY <1>4, <1>6, AppendIs DEF Waiting
  <1>10. stack' = Append(f, d)
    BY DEF f, d
  <1>11. \A role, c : Plays(d, role, c) <=> role \in {"about", "feeding"} /\ c = e
    BY <1>6 DEF Plays, About, Active, WillAppend, Acking, Unanswered, Entering, Admitting, Feeding
  <1>12. \A role, c : Has(Append(f, d), role, c) <=> Has(f, role, c) \/ Plays(d, role, c)
    BY <1>4, <1>6, HasAppend
  <1>13. \A role, c :
              /\ Has(stack, role, c) <=> Has(Under(stack), role, c) \/ Plays(t, role, c)
              /\ Has(f, role, c) <=> Has(Under(stack), role, c) \/ Plays(r, role, c)
    BY <1>1, RolesAfter DEF f
  <1>14. ASSUME NEW x, NEW hd, NEW sn, NEW b,
                FitAll(Under(stack), x, hd, sn, b), Fits(r, x[r.c], hd, sn, b)
         PROVE  FitAll(Append(f, d), x, hd, sn, b)
    <2>1. FitAll(f, x, hd, sn, b)
      BY <1>4, <1>14, FitAppend DEF f
    <2>2. Fits(d, x[d.c], hd, sn, b)
      BY <1>6 DEF Fits, JoinFits, DeliverFits, ProcessFits
    <2> QED BY <2>1, <2>2, <1>4, <1>6, FitAppend
  <1>15. FitAll(Under(stack), p, head, snap, Broke)
    BY <1>1, FitUnder DEF IInv, CallsFit
  <1>16. NotWaiting'
    BY <1>6, <1>9, <1>10 DEF NotWaiting, Ready
  <1>17. \A role, c :
                /\ Has(stack, role, c) <=> Has(Under(stack), role, c) \/ Plays(t, role, c)
                /\ Has(stack', role, c) <=>
                      \/ Has(Under(stack), role, c) \/ Plays(r, role, c)
                      \/ role \in {"about", "feeding"} /\ c = e
    BY <1>10, <1>11, <1>12, <1>13
  <1>18. \A x, hd, sn, b :
                FitAll(Under(stack), x, hd, sn, b) /\ Fits(r, x[r.c], hd, sn, b)
                => FitAll(stack', x, hd, sn, b)
    BY <1>10, <1>14
  <1>19. Structured(stack')
    BY <1>8, <1>10
  <1> HIDE DEF t
  <1> QED BY <1>2, <1>3, <1>4, <1>15, <1>16, <1>17, <1>18, <1>19

\* A delivery is started while nothing else changes.
LEMMA DeliverCallStep ==
    ASSUME IInv, stack # <<>>, NEW r \in Call, r.op = Top.op, r.c = Top.c, r.op # "deliver",
           ~Entering(r, r.c),
           NEW e \in Peers, NEW ceiling \in 0..MaxHead, Delivers(r, Delivery(e, ceiling)),
           stack' = Append(Append(Under(stack), r), Delivery(e, ceiling)),
           p[e].joined = TRUE,
           \A c \in Peers :
              /\ Plays(r, "about", c) => Plays(Top, "about", c)
              /\ Plays(Top, "acking", c) => Plays(r, "acking", c)
              /\ Plays(Top, "unanswered", c) <=> Plays(r, "unanswered", c)
              /\ Plays(r, "entering", c) => Plays(Top, "entering", c)
              /\ Plays(Top, "feeding", c) => Plays(r, "feeding", c) \/ c = e
              /\ Plays(Top, "admitting", c) => Plays(r, "admitting", c),
           Plays(r, "append", NoPeer) => Plays(Top, "append", NoPeer),
           Plays(r, "retire", NoPeer) => Plays(Top, "retire", NoPeer),
           Plays(Top, "active", NoPeer) => Plays(r, "active", NoPeer),
           UNCHANGED <<lifetime, moved, head, snap, p, messages, failures>>,
           Fits(r, p[r.c], head, snap, Broke)
    PROVE  IInv'
  <1>1. /\ Structured(stack') /\ NotWaiting'
        /\ Structured(Under(stack)) /\ Under(stack) \in Seq(Call)
        /\ \A role, c :
                /\ Has(stack, role, c) <=> Has(Under(stack), role, c) \/ Plays(Top, role, c)
                /\ Has(stack', role, c) <=>
                      \/ Has(Under(stack), role, c) \/ Plays(r, role, c)
                      \/ role \in {"about", "feeding"} /\ c = e
        /\ \A x, hd, sn, b :
                FitAll(Under(stack), x, hd, sn, b) /\ Fits(r, x[r.c], hd, sn, b)
                => FitAll(stack', x, hd, sn, b)
        /\ FitAll(Under(stack), p, head, snap, Broke)
    BY DeliverShape
  <1>2. RolesKept
    BY <1>1 DEF RolesKept
  <1>3. RestI'
    <2>1. RestI /\ failures' \in Nat /\ failures <= failures' /\ TypeI /\ moved' \in BOOLEAN
      BY DEF IInv, RestI, TypeI
    <2>2. PeersKept /\ LifeKept
      BY <2>1, PeersSame, LifeSame
    <2> QED BY <2>1, <2>2, <1>2, SoftStep
  <1>4. CallsFit'
    <2>1. FitAll(stack', p, head, snap, Broke)
      BY <1>1
    <2>2. Broke' = Broke
      BY DEF Broke, lifetime
    <2> QED BY <2>1, <2>2 DEF CallsFit
  <1> QED BY <1>1, <1>3, <1>4 DEF IInv, RestI

-----------------------------------------------------------------------------
(* join() *)

\* dispatchDepth is zero when no delivery or drain is under way.
LEMMA DepthIs ==
    ASSUME IInv
    PROVE  /\ DispatchDepth = 0 <=> ~Has(stack, "active", NoPeer)
           /\ stack # <<>> /\ Plays(Top, "active", NoPeer) =>
                 (DispatchDepth = 1 <=> ~Has(Under(stack), "active", NoPeer))
  <1> DEFINE D == {k \in 1..Len(stack) : Active(stack[k])}
             n == Len(stack)
  <1>1. stack \in Seq(Call) /\ n \in Nat
    BY DEF IInv, Structured
  <1>2. DispatchDepth = Cardinality(D)
    <2>1. DOMAIN stack = 1..n
      BY <1>1
    <2>2. D = {k \in DOMAIN stack :
                 stack[k].op = "drain" \/ (stack[k].op = "join" /\ stack[k].pc \notin {"start", "refused"})}
      BY <2>1 DEF Active
    <2> QED BY <2>2 DEF DispatchDepth
  <1>3. IsFiniteSet(D)
    <2>1. IsFiniteSet(1..n) /\ D \in SUBSET (1..n)
      BY <1>1, FS_Interval
    <2> QED BY <2>1, FS_Subset
  <1>4. DispatchDepth = 0 <=> D = {}
    BY <1>2, <1>3, FS_EmptySet
  <1>5. \A k : Plays(stack[k], "active", NoPeer) <=> Active(stack[k])
    BY DEF Plays
  <1>6. Has(stack, "active", NoPeer) <=> D # {}
    BY <1>5 DEF Has
  <1>7. ASSUME stack # <<>>, Plays(Top, "active", NoPeer)
        PROVE  DispatchDepth = 1 <=> ~Has(Under(stack), "active", NoPeer)
    <2>1. /\ n \in 1..n /\ Len(Under(stack)) = n - 1
          /\ \A k \in 1..n - 1 : Under(stack)[k] = stack[k]
      BY <1>1, <1>7, UnderIs
    <2>2. n \in D
      BY <1>5, <1>7, <2>1 DEF Top
    <2>3. Has(Under(stack), "active", NoPeer) <=> \E k \in D : k # n
      BY <2>1, <1>1, <1>5 DEF Has
    <2> HIDE DEF D, n
    <2>4. Cardinality(D) = 1 <=> \E x : D = {x}
      BY <1>3, FS_Singleton
    <2>5. (\E x : D = {x}) <=> ~\E k \in D : k # n
      BY <2>2
    <2> QED BY <2>3, <2>4, <2>5, <1>2
  <1> QED BY <1>4, <1>6, <1>7

LEMMA JoinFails ==
    ASSUME IInv, Running("join"), NEW pc, UNCHANGED <<moved, log, messages>>,
           FailedTo(Goes(pc)),
           \/ Top.pc = "start" /\ pc = "refused"
           \/ Top.pc \in {"admit", "admitted"} /\ pc = "failed"
    PROVE  IInv'
  <1> DEFINE r == At(Top, pc)
  <1>1. stack # <<>> /\ Top.op = "join"
    BY DEF Running
  <1>2. /\ Top \in Call /\ pc \in Pcs /\ Goes(pc) = Append(Under(stack), r)
        /\ Fits(Top, p[Top.c], head, snap, Broke)
    BY <1>1, TopIs, GoesIs DEF Pcs
  <1>3. r \in Call /\ r.op = "join" /\ r.c = Top.c /\ r.pc = pc /\ r.ret = Top.ret
    BY <1>1, <1>2, AtIs
  <1> HIDE DEF r
  <1>4. TopKept(Top, r)
    BY <1>1, <1>3 DEF TopKept, Plays, About, Active, WillAppend, Acking, Unanswered, Entering, Admitting, Feeding
  <1>5. ~Waiting(r) /\ ~Entering(r, r.c) /\ Fits(r, p[r.c], head, snap, TRUE)
    BY <1>1, <1>2, <1>3 DEF Waiting, Entering, Fits, JoinFits, DeliverFits, ProcessFits
  <1>6. UNCHANGED <<moved, head, snap, messages>>
    BY DEF log
  <1> QED BY <1>1, <1>2, <1>3, <1>4, <1>5, <1>6, FailStep

LEMMA JoinGoes ==
    ASSUME IInv, Running("join"), NEW pc \in Pcs, GoesOn(At(Top, pc)),
           PeersKept, LifeKept, UNCHANGED <<moved, log, messages, failures>>,
           \/ Top.pc = "start" /\ pc = "enter" /\ up' = TRUE
           \/ Top.pc = "enter" /\ pc = "admit"
           \/ Top.pc = "admit" /\ pc = "admitted" /\ p'[Top.c].told = "admitted"
           \/ Top.pc = "delivered" /\ Top.ret = "ok" /\ pc = "end"
           \/ Top.pc = "delivered" /\ pc = "failed"
           \/ Top.pc = "failed" /\ pc = "end" /\ Top.c \notin members'
    PROVE  IInv'
  <1> DEFINE r == At(Top, pc)
  <1>1. stack # <<>> /\ Top.op = "join"
    BY DEF Running
  <1>2. Top \in Call /\ Fits(Top, p[Top.c], head, snap, Broke)
    BY <1>1, TopIs
  <1>3. r \in Call /\ r.op = "join" /\ r.c = Top.c /\ r.pc = pc /\ r.ret = Top.ret
    BY <1>1, <1>2, AtIs
  <1> HIDE DEF r
  <1>4. Top.pc = "delivered" /\ Top.ret = "ok" => p[Top.c].cursor = head
    BY <1>1, <1>2 DEF Fits, JoinFits
  <1>5. RolesGo(Top, r)
    BY <1>1, <1>3, <1>4 DEF RolesGo, Plays, About, Active, WillAppend, Acking, Unanswered, Entering, Admitting, Feeding
  <1>6. ~Waiting(r) /\ ItemBelow(Top, r) /\ Fits(r, p[r.c], head, snap, Broke)
    BY <1>1, <1>2, <1>3 DEF Waiting, ItemBelow, Fits, JoinFits, DeliverFits, ProcessFits
  <1>7. UNCHANGED <<head, snap, messages, failures>> /\ moved' \in BOOLEAN
    BY DEF log, IInv, TypeI
  <1> QED BY <1>1, <1>3, <1>5, <1>6, <1>7, GoStep DEF r

\* The outermost call starts the drain.
LEMMA DrainOn ==
    ASSUME NEW s, Structured(s), ~Has(s, "active", NoPeer),
           s # <<>> => ~Waiting(s[Len(s)]) /\ ~Entering(s[Len(s)], s[Len(s)].c)
    PROVE  LET q == Rec("drain", NoPeer)
           IN  /\ Structured(Append(s, q))
               /\ \A x, hd, sn, b : FitAll(s, x, hd, sn, b) => FitAll(Append(s, q), x, hd, sn, b)
               /\ Append(s, q) # <<>> /\ Append(s, q)[Len(Append(s, q))] = q
               /\ q.op = "drain"
               /\ \A role, c : Has(Append(s, q), role, c) <=> Has(s, role, c) \/ role = "active"
  <1> DEFINE q == Rec("drain", NoPeer)
  <1>1. "drain" \in Ops /\ NoPeer \in Peers \cup {NoPeer}
    BY DEF Ops
  <1>2. q \in Call /\ q.op = "drain"
    BY <1>1, RecIs
  <1> HIDE DEF q
  <1>3. s \in Seq(Call)
    BY DEF Structured
  <1>4. \A k \in 1..Len(s) : ~Active(s[k])
    BY DEF Has, Plays
  <1>5. MayPush(s, q)
    BY <1>2, <1>4 DEF MayPush, Calls, Who
  <1>6. Structured(Append(s, q))
    BY <1>5, PushKeeps
  <1>7. ASSUME NEW x, NEW hd, NEW sn, NEW b, FitAll(s, x, hd, sn, b)
        PROVE  FitAll(Append(s, q), x, hd, sn, b)
    <2>1. Fits(q, x[q.c], hd, sn, b)
      BY <1>2, FitsOther
    <2> QED BY <1>2, <1>3, <1>7, <2>1, FitAppend
  <1>8. Append(s, q) # <<>> /\ Append(s, q)[Len(Append(s, q))] = q
    BY <1>2, <1>3, AppendIs
  <1>9. ASSUME NEW role, NEW c
        PROVE  Has(Append(s, q), role, c) <=> Has(s, role, c) \/ role = "active"
    <2>1. Plays(q, role, c) <=> role = "active"
      BY <1>2 DEF Plays, About, Active, WillAppend, Acking, Unanswered, Entering, Admitting, Feeding
    <2> QED BY <1>2, <1>3, <2>1, HasAppend
  <1> QED BY <1>2, <1>6, <1>7, <1>8, <1>9 DEF q

\* No call but a delivery returns to one that waits, and none to one that enters.
LEMMA UnderIsFree ==
    ASSUME NEW s, Structured(s), s # <<>>, s[Len(s)].op # "deliver", Under(s) # <<>>
    PROVE  ~Waiting(Under(s)[Len(Under(s))])
           /\ ~Entering(Under(s)[Len(Under(s))], Under(s)[Len(Under(s))].c)
  <1>1. s \in Seq(Call)
    BY DEF Structured
  <1> DEFINE t == Under(s)
             n == Len(s)
  <1>2. /\ t \in Seq(Call) /\ Len(t) = n - 1 /\ n \in Nat \ {0}
        /\ \A k \in 1..n - 1 : t[k] = s[k]
    BY <1>1, UnderIs
  <1> HIDE DEF t
  <1>3. n # 1 /\ n - 1 \in 1..n /\ n \in 1..n /\ t[Len(t)] = s[n - 1]
    BY <1>2 DEF t
  <1>4. Calls(s[n - 1], s[n])
    BY <1>3 DEF Structured, Parents
  <1> QED BY <1>3, <1>4 DEF Calls, t

\* The end of a join: the outermost one drains what was queued meanwhile.
LEMMA JoinEnds ==
    ASSUME IInv, Running("join"), Top.pc = "end",
           stack' = IF DispatchDepth = 1 THEN Append(Below, Rec("drain", NoPeer)) ELSE Below,
           UNCHANGED <<lifetime, moved, log, p, messages, failures>>
    PROVE  IInv'
  <1>1. stack # <<>> /\ Top.op = "join"
    BY DEF Running
  <1>2. Top \in Call /\ Below = Under(stack) /\ Structured(stack) /\ TypeI
    BY <1>1, TopIs DEF IInv
  <1>3. Plays(Top, "active", NoPeer)
    BY <1>1 DEF Plays, Active
  <1>4. DispatchDepth = 1 <=> ~Has(Under(stack), "active", NoPeer)
    BY <1>1, <1>3, DepthIs
  <1>5. /\ PeersKept /\ LifeKept /\ UNCHANGED <<head, snap, messages, failures>>
        /\ failures' \in Nat /\ failures <= failures' /\ moved' \in BOOLEAN
    BY <1>2, PeersSame, LifeSame DEF TypeI, log
  <1>6. CASE DispatchDepth # 1
    <2>1. stack' = Under(stack)
      BY <1>2, <1>6
    <2>2. RolesPop(Top)
      BY <1>1, <1>4, <1>6 DEF RolesPop, Plays, About, Active, WillAppend, Acking, Unanswered, Entering, Admitting, Feeding
    <2> QED BY <2>1, <2>2, <1>1, <1>5, PopStep DEF Leaves
  <1>7. CASE DispatchDepth = 1
    <2> DEFINE q == Rec("drain", NoPeer)
               U == Under(stack)
    <2>1. Structured(U) /\ Top = stack[Len(stack)]
      BY <1>1, <1>2, PopKeeps DEF Top
    <2>2. U # <<>> => ~Waiting(U[Len(U)]) /\ ~Entering(U[Len(U)], U[Len(U)].c)
      BY <1>1, <1>2, <2>1, UnderIsFree
    <2> HIDE DEF q, U
    <2>3. /\ Structured(Append(U, q))
          /\ \A x, hd, sn, b : FitAll(U, x, hd, sn, b) => FitAll(Append(U, q), x, hd, sn, b)
          /\ Append(U, q) # <<>> /\ Append(U, q)[Len(Append(U, q))] = q
          /\ q.op = "drain"
          /\ \A role, c : Has(Append(U, q), role, c) <=> Has(U, role, c) \/ role = "active"
      BY <2>1, <2>2, <1>4, <1>7, DrainOn DEF q, U
    <2>4. stack' = Append(U, q)
      BY <1>2, <1>7 DEF U, q
    <2>5. \A role, c : Has(stack, role, c) <=> Has(U, role, c) \/ Plays(Top, role, c)
      BY <1>1, <1>2, <2>1, HasUnder DEF U, Structured
    <2>6. \A c : ~Has(U, "entering", c)
      BY <1>1, <1>2, NoEnteringUnder DEF U
    <2>7. RolesKept
      <3>1. \A c : /\ ~Plays(Top, "acking", c) /\ ~Plays(Top, "unanswered", c)
                   /\ ~Plays(Top, "feeding", c) /\ ~Plays(Top, "admitting", c)
        BY <1>1 DEF Plays, About, Active, WillAppend, Acking, Unanswered, Entering, Admitting, Feeding
      <3> QED BY <3>1, <2>3, <2>4, <2>5, <2>6 DEF RolesKept
    <2>8. RestI'
      <3>1. RestI
        BY DEF IInv, RestI
      <3> QED BY <3>1, <2>7, <1>5, SoftStep
    <2>9. CallsFit'
      <3>1. FitAll(U, p, head, snap, Broke)
        BY <1>1, FitUnder DEF IInv, CallsFit, Structured, U
      <3>2. FitAll(stack', p, head, snap, Broke)
        BY <3>1, <2>3, <2>4
      <3>3. Broke' = Broke
        BY DEF Broke, lifetime
      <3> QED BY <3>2, <3>3 DEF CallsFit, log
    <2>10. NotWaiting' /\ Structured(stack')
      BY <2>3, <2>4 DEF NotWaiting, Ready, Waiting
    <2> QED BY <2>8, <2>9, <2>10 DEF IInv, RestI
  <1> QED BY <1>6, <1>7

LEMMA JoinKeeps ==
    ASSUME IInv, JoinStep
    PROVE  IInv'
  <1> DEFINE c == Top.c
  <1>1. Running("join") /\ stack # <<>> /\ Top.op = "join" /\ UNCHANGED <<moved, log, messages>>
    BY DEF JoinStep, Running
  <1>2. /\ Top \in Call /\ c \in Peers /\ Below = Under(stack) /\ Ready(Top)
        /\ Structured(stack) /\ TypeI /\ OverI /\ NothingAfterRetired /\ KnownI
    BY <1>1, TopIs DEF IInv, Who
  <1>3. \A pc : Goes(pc) = Append(Under(stack), At(Top, pc))
    BY <1>1, GoesIs
  <1>4. CASE Top.pc = "start" /\ Admission(Goes("enter"), p, Goes("refused"))
    <2>1. CASE FailedTo(Goes("refused"))
      BY <1>1, <1>4, <2>1, JoinFails
    <2>2. CASE Passed(Goes("enter"), p)
      <3>1. /\ GoesOn(At(Top, "enter")) /\ PeersKept /\ LifeKept /\ UNCHANGED failures
            /\ up' = TRUE
        BY <1>2, <1>3, <2>2, PeersSame, LifeSame DEF Passed, GoesOn, lifetime
      <3>2. "enter" \in Pcs
        BY DEF Pcs
      <3> QED BY <1>1, <1>4, <3>1, <3>2, JoinGoes
    <2> QED BY <1>2, <1>4, <2>1, <2>2, AdmissionCases
  <1>5. CASE /\ Top.pc = "refused"
             /\ IF up THEN stack' = Below /\ p' = p
                ELSE /\ stack' = Append(Below, Rec("peer", c))
                     /\ p' = Sent(c, Frame("retired", 0, 0))
             /\ UNCHANGED <<lifetime, failures>>
    <2>1. PeersKept
      <3>1. CASE up
        BY <3>1, <1>2, <1>5, PeersSame
      <3>2. CASE ~up
        <4>1. p' = Sent(c, Frame("retired", 0, 0)) /\ up' = up
          BY <3>2, <1>5 DEF lifetime
        <4> QED BY <4>1, <3>2, <1>2, NoticeKept
      <3> QED BY <3>1, <3>2
    <2>2. LifeKept /\ UNCHANGED <<head, snap, messages, failures>> /\ failures' \in Nat
          /\ failures <= failures' /\ moved' \in BOOLEAN
      BY <1>1, <1>2, <1>5, LifeSame DEF log, TypeI
    <2>3. Leaves
      BY <1>2, <1>5 DEF Leaves
    <2>4. RolesPop(Top)
      BY <1>1, <1>5 DEF RolesPop, Plays, About, Active, WillAppend, Acking, Unanswered, Entering, Admitting, Feeding
    <2> QED BY <2>1, <2>2, <2>3, <2>4, <1>1, PopStep
  <1>6. CASE /\ Top.pc = "enter"
             /\ members' = members \cup {c} /\ stack' = Goes("admit")
             /\ UNCHANGED <<up, pending, p, failures>>
    <2>1. PeersKept /\ GoesOn(At(Top, "admit"))
      BY <1>2, <1>3, <1>6, PeersSame DEF GoesOn
    <2>2. "admit" \in Pcs
      BY DEF Pcs
    <2>3. At(Top, "admit") \in Call /\ At(Top, "admit").op = "join" /\ At(Top, "admit").c = c
          /\ At(Top, "admit").pc = "admit"
      BY <1>1, <1>2, <2>2, AtIs
    <2>4. NewMember(c)
      <3>1. up = TRUE
        BY <1>1, <1>2, <1>6 DEF Ready
      <3>2. /\ Has(stack, "entering", c) <=> Has(Under(stack), "entering", c) \/ Plays(stack[Len(stack)], "entering", c)
            /\ Has(stack, "about", c) <=> Has(Under(stack), "about", c) \/ Plays(stack[Len(stack)], "about", c)
            /\ Has(stack', "feeding", c) <=> Has(Under(stack), "feeding", c) \/ Plays(At(Top, "admit"), "feeding", c)
            /\ Has(stack', "admitting", c) <=> Has(Under(stack), "admitting", c) \/ Plays(At(Top, "admit"), "admitting", c)
        BY <1>1, <1>2, <1>3, <1>6, <2>3, RolesAfter
      <3>3. Has(stack, "entering", c) /\ Has(stack, "about", c)
        BY <1>1, <1>6, <3>2 DEF Plays, Entering, About, Top
      <3>4. Has(stack', "feeding", c) /\ Has(stack', "admitting", c)
        BY <2>3, <3>2 DEF Plays, Feeding, Admitting
      <3>5. p[c].joined = TRUE
        BY <1>2, <3>3 DEF KnownI
      <3> QED BY <3>1, <3>3, <3>4, <3>5, <1>2 DEF NewMember
    <2>5. LifeKept
      BY <2>4, <1>6 DEF LifeKept
    <2> QED BY <1>1, <1>6, <2>1, <2>2, <2>5, JoinGoes
  <1>7. CASE Top.pc = "admit" /\ Send(c, Frame("admitted", 0, 0), "admitted", Goes("failed"))
    <2> DEFINE ok == Append(Goes("admitted"), Rec("peer", c))
               peers == Sent(c, Frame("admitted", 0, 0))
    <2>1. Admission(ok, peers, Goes("failed"))
      BY <1>7 DEF Send
    <2>2. CASE FailedTo(Goes("failed"))
      BY <1>1, <1>7, <2>2, JoinFails
    <2>3. CASE Passed(ok, peers)
      <3>1. "admitted" \in Pcs
        BY DEF Pcs
      <3>2. At(Top, "admitted").pc = "admitted"
        BY <1>2, <3>1, AtIs
      <3>3. GoesOn(At(Top, "admitted")) /\ LifeKept /\ UNCHANGED failures
        BY <1>2, <1>3, <2>3, <3>2, LifeSame DEF Passed, GoesOn, Entering
      <3>4. PeersKept /\ p'[c].told = "admitted"
        <4>1. p' = Sent(c, Frame("admitted", 0, 0)) /\ up' = up /\ up
          BY <2>3 DEF Passed, lifetime
        <4> QED BY <4>1, <1>2, NoticeKept
      <3> QED BY <1>1, <1>7, <3>1, <3>3, <3>4, JoinGoes
    <2> HIDE DEF ok, peers
    <2> QED BY <1>2, <2>1, <2>2, <2>3, AdmissionCases
  <1>8. CASE /\ Top.pc = "admitted"
             /\ Admission(Append(Goes("delivered"), [Rec("deliver", c) EXCEPT !.n = MaxHead]),
                          p, Goes("failed"))
    <2> DEFINE ok == Append(Goes("delivered"), Delivery(c, MaxHead))
               r == At(Top, "delivered")
    <2>1. Admission(ok, p, Goes("failed"))
      BY <1>8 DEF Delivery
    <2>2. CASE FailedTo(Goes("failed"))
      BY <1>1, <1>8, <2>2, JoinFails
    <2>3. CASE Passed(ok, p)
      <3>1. "delivered" \in Pcs /\ MaxHead \in 0..MaxHead
        BY ConstantsAre DEF Pcs
      <3>2. r \in Call /\ r.op = "join" /\ r.c = c /\ r.pc = "delivered" /\ r.ret = Top.ret
        BY <1>1, <1>2, <3>1, AtIs
      <3>3. stack' = Append(Append(Under(stack), r), Delivery(c, MaxHead))
            /\ UNCHANGED <<lifetime, moved, head, snap, p, messages, failures>>
        BY <1>1, <1>3, <2>3 DEF Passed, log
      <3>4. Delivery(c, MaxHead).op = "deliver" /\ Delivery(c, MaxHead).c = c /\ Delivery(c, MaxHead).n = MaxHead
        BY <1>2, <3>1, DeliveryIs
      <3> HIDE DEF r
      <3>5. Delivers(r, Delivery(c, MaxHead)) /\ ~Entering(r, r.c)
        BY <3>2, <3>4 DEF Delivers, Entering
      <3>6. Top.ret = "none" /\ Fits(Top, p[c], head, snap, Broke)
        BY <1>1, <1>8, TopIs DEF Fits, JoinFits
      <3>7. Fits(r, p[r.c], head, snap, Broke)
        BY <3>2, <3>6 DEF Fits, JoinFits, DeliverFits, ProcessFits
      <3>8. p[c].joined = TRUE
        <4>1. Has(stack, "about", c) <=> Has(Under(stack), "about", c) \/ Plays(stack[Len(stack)], "about", c)
          BY <1>1, <1>2, HasUnder DEF Structured
        <4>2. Has(stack, "about", c)
          BY <4>1, <1>1 DEF Plays, About, Top
        <4> QED BY <4>2, <1>2 DEF KnownI
      <3>9. /\ \A d \in Peers :
                /\ Plays(r, "about", d) => Plays(Top, "about", d)
                /\ Plays(Top, "acking", d) => Plays(r, "acking", d)
                /\ Plays(Top, "unanswered", d) <=> Plays(r, "unanswered", d)
                /\ Plays(r, "entering", d) => Plays(Top, "entering", d)
                /\ Plays(Top, "feeding", d) => Plays(r, "feeding", d) \/ d = c
                /\ Plays(Top, "admitting", d) => Plays(r, "admitting", d)
            /\ Plays(r, "append", NoPeer) => Plays(Top, "append", NoPeer)
            /\ Plays(r, "retire", NoPeer) => Plays(Top, "retire", NoPeer)
            /\ Plays(Top, "active", NoPeer) => Plays(r, "active", NoPeer)
        BY <1>1, <1>8, <3>2 DEF Plays, About, Active, WillAppend, Acking, Unanswered, Entering, Admitting, Feeding
      <3> QED BY <1>1, <1>2, <3>1, <3>2, <3>3, <3>5, <3>7, <3>8, <3>9, DeliverCallStep
    <2> HIDE DEF ok
    <2> QED BY <1>2, <2>1, <2>2, <2>3, AdmissionCases
  <1>9. CASE /\ Top.pc = "delivered"
             /\ stack' = Goes(IF Top.ret = "ok" THEN "end" ELSE "failed")
             /\ UNCHANGED <<lifetime, p, failures>>
    <2>1. PeersKept /\ LifeKept /\ "end" \in Pcs /\ "failed" \in Pcs
      BY <1>2, <1>9, PeersSame, LifeSame DEF Pcs
    <2>2. CASE Top.ret = "ok"
      <3>1. GoesOn(At(Top, "end"))
        BY <2>2, <1>3, <1>9 DEF GoesOn
      <3> QED BY <1>1, <1>9, <2>1, <2>2, <3>1, JoinGoes
    <2>3. CASE Top.ret # "ok"
      <3>1. GoesOn(At(Top, "failed"))
        BY <2>3, <1>3, <1>9 DEF GoesOn
      <3> QED BY <1>1, <1>9, <2>1, <2>3, <3>1, JoinGoes
    <2> QED BY <2>2, <2>3
  <1>10. CASE /\ Top.pc = "failed"
              /\ members' = MembersAfterFailure(c) /\ stack' = Goes("end")
              /\ UNCHANGED <<up, pending, p, failures>>
    <2>1. PeersKept /\ LifeKept /\ "end" \in Pcs /\ GoesOn(At(Top, "end")) /\ c \notin members'
      BY <1>2, <1>3, <1>10, PeersSame DEF Pcs, GoesOn, LifeKept, MembersAfterFailure
    <2> QED BY <1>1, <1>10, <2>1, JoinGoes
  <1>11. CASE /\ Top.pc = "end"
              /\ stack' = IF DispatchDepth = 1 THEN Append(Below, Rec("drain", NoPeer)) ELSE Below
              /\ UNCHANGED <<lifetime, p, failures>>
    BY <1>1, <1>11, JoinEnds
  <1> QED BY <1>4, <1>5, <1>6, <1>7, <1>8, <1>9, <1>10, <1>11 DEF JoinStep

-----------------------------------------------------------------------------
(* Peers returning, retirement, and what peers do while they have control *)

LEMMA PeerReturnsKeeps ==
    ASSUME IInv, PeerReturns
    PROVE  IInv'
  <1>1. stack # <<>> /\ Top.op = "peer" /\ stack' = Below
    BY DEF PeerReturns, Running
  <1>2. Below = Under(stack) /\ TypeI
    BY <1>1, TopIs DEF IInv
  <1>3. /\ PeersKept /\ LifeKept /\ UNCHANGED <<head, snap, messages, failures>>
        /\ failures' \in Nat /\ failures <= failures' /\ moved' \in BOOLEAN
    BY <1>2, PeersSame, LifeSame DEF TypeI, log, PeerReturns
  <1>4. \A role, c : ~Plays(Top, role, c)
    BY <1>1, Silent
  <1>5. RolesPop(Top) /\ Leaves
    BY <1>1, <1>2, <1>4 DEF RolesPop, Leaves
  <1> QED BY <1>1, <1>3, <1>5, PopStep

LEMMA RetireStepKeeps ==
    ASSUME IInv, RetireStep
    PROVE  IInv'
  <1>1. stack # <<>> /\ Top.op = "retire" /\ UNCHANGED <<moved, log, messages, failures>>
    BY DEF RetireStep, Running
  <1>2. /\ Top \in Call /\ Below = Under(stack) /\ TypeI /\ OverI /\ NothingAfterRetired
        /\ Structured(stack)
    BY <1>1, TopIs DEF IInv
  <1>3. /\ UNCHANGED <<head, snap, messages, failures>>
        /\ failures' \in Nat /\ failures <= failures' /\ moved' \in BOOLEAN
    BY <1>1, <1>2 DEF TypeI, log
  <1>4. ~up
    <2>1. Has(stack, "retire", NoPeer) <=> Has(Under(stack), "retire", NoPeer) \/ Plays(stack[Len(stack)], "retire", NoPeer)
      BY <1>1, <1>2, HasUnder DEF Structured
    <2>2. Has(stack, "retire", NoPeer)
      BY <1>1, <2>1 DEF Plays, Top
    <2> QED BY <2>2, <1>2 DEF OverI
  <1>5. ASSUME NEW c \in Top.seen,
               p' = Sent(c, Frame("retired", 0, 0)),
               stack' = Append(Append(Below, [Top EXCEPT !.seen = @ \ {c}]), Rec("peer", c)),
               UNCHANGED lifetime
        PROVE  IInv'
    <2> DEFINE r == [Top EXCEPT !.seen = @ \ {c}]
    <2>1. c \in Peers
      BY <1>2 DEF Call
    <2>2. r \in Call /\ r.op = "retire" /\ r.c = Top.c
      BY <1>1, <1>2 DEF Call
    <2>3. stack' = Append(Append(Under(stack), r), Rec("peer", c)) /\ up' = up
      BY <1>2, <1>5 DEF lifetime
    <2> HIDE DEF r
    <2>4. ~Waiting(r) /\ ~Entering(r, r.c) /\ ItemBelow(Top, r) /\ Fits(r, p[r.c], head, snap, Broke)
      BY <2>2, FitsOther DEF Waiting, Entering, ItemBelow
    <2>5. GoesOn(r)
      BY <2>1, <2>3, <2>4 DEF GoesOn
    <2>6. PeersKept /\ LifeKept
      BY <1>2, <1>4, <1>5, <2>1, <2>3, NoticeKept, LifeSame
    <2>7. RolesGo(Top, r)
      BY <1>1, <2>2 DEF RolesGo, Plays, About, Active, WillAppend, Acking, Unanswered, Entering, Admitting, Feeding
    <2> QED BY <1>1, <1>3, <2>2, <2>4, <2>5, <2>6, <2>7, GoStep
  <1>6. CASE Top.seen = {} /\ stack' = Below /\ up' = FALSE /\ members' = {} /\ pending' = <<>> /\ UNCHANGED p
    <2>1. PeersKept /\ LifeKept /\ Leaves
      BY <1>2, <1>6, PeersSame DEF LifeKept, Leaves
    <2>2. RolesPop(Top)
      BY <1>1, <1>6 DEF RolesPop, Plays, About, Active, WillAppend, Acking, Unanswered, Entering, Admitting, Feeding
    <2> QED BY <1>1, <1>3, <2>1, <2>2, PopStep
  <1> QED BY <1>5, <1>6 DEF RetireStep

\* A peer, or the event loop, has control.
LEMMA FreeIs ==
    ASSUME IInv, Free
    PROVE  stack # <<>> => ~Waiting(stack[Len(stack)]) /\ ~Entering(stack[Len(stack)], stack[Len(stack)].c)
    BY DEF Free, Running, Top, Waiting, Entering

LEMMA RetireCallKeeps ==
    ASSUME IInv, RetireCall
    PROVE  IInv'
  <1>1. Structured(stack) /\ TypeI /\ RestI
    BY DEF IInv, RestI
  <1>2. up' = FALSE /\ members' = {} /\ pending' = <<>>
    BY RetireIs DEF RetireCall
  <1>3. RetireRec \in Call /\ RetireRec.op = "retire" /\ Who(RetireRec)
    BY <1>1, RetireRecIs
  <1>4. stack' = Append(stack, RetireRec) /\ UNCHANGED <<log, p, messages, failures>> /\ moved' \in BOOLEAN
    BY <1>1 DEF RetireCall, TypeI
  <1>5. /\ Structured(stack') /\ ~Waiting(RetireRec)
        /\ FitAll(stack, p, head, snap, Broke) => FitAll(stack', p, head, snap, Broke)
        /\ stack' # <<>> /\ stack'[Len(stack')] = RetireRec
        /\ \A role, c : Has(stack', role, c) <=>
                 Has(stack, role, c) \/ (role = "retire" /\ RetireRec.op = "retire")
    <2> HIDE DEF RetireRec
    <2> QED BY <1>1, <1>3, <1>4, FreeIs, LightPush DEF RetireCall
  <1>6. RolesKept
    BY <1>2, <1>5 DEF RolesKept
  <1>7. RestI'
    <2>1. PeersKept /\ LifeKept /\ UNCHANGED <<head, snap, messages>> /\ failures' \in Nat /\ failures <= failures'
      BY <1>1, <1>2, <1>4, PeersSame DEF LifeKept, log, TypeI
    <2> QED BY <1>1, <1>4, <1>6, <2>1, SoftStep
  <1>8. CallsFit'
    <2>1. FitAll(stack', p, head, snap, Broke)
      BY <1>5 DEF IInv, CallsFit
    <2>2. \A c \in Peers : SameData(p[c], p[c])
      BY DEF SameData
    <2>3. Broke'
      BY <1>2 DEF Broke
    <2>4. FitAll(stack', p, head, snap, Broke')
      BY <1>5, <2>1, <2>2, <2>3, FitAllSoft
    <2> QED BY <2>4, <1>4 DEF CallsFit, log
  <1>9. NotWaiting'
    BY <1>3, <1>5 DEF NotWaiting, Ready
  <1> QED BY <1>5, <1>7, <1>8, <1>9 DEF IInv, RestI

\* The stack stays, and so do the connections.
LEMMA StillKeeps ==
    ASSUME IInv, UNCHANGED <<stack, log, p, messages, failures>>, LifeKept, moved' \in BOOLEAN,
           up' = up
    PROVE  IInv'
  <1>1. RestI /\ TypeI
    BY DEF IInv, RestI
  <1>2. PeersKept /\ UNCHANGED <<head, snap, messages>> /\ failures' \in Nat /\ failures <= failures'
    BY <1>1, PeersSame DEF log, TypeI
  <1>4. RolesKept
    BY DEF RolesKept, LifeKept
  <1>5. RestI'
    BY <1>1, <1>2, <1>4, SoftStep
  <1>6. Structured(stack') /\ NotWaiting' /\ CallsFit'
    BY DEF IInv, NotWaiting, Ready, CallsFit, Broke, log
  <1> QED BY <1>5, <1>6 DEF IInv, RestI

LEMMA LeaveCallKeeps ==
    ASSUME IInv, NEW c, LeaveCall(c)
    PROVE  IInv'
  <1>1. LifeKept /\ moved' \in BOOLEAN /\ up' = up /\ UNCHANGED <<stack, log, p, messages, failures>>
    BY DEF LifeKept, LeaveCall, IInv, TypeI
  <1> QED BY <1>1, StillKeeps

LEMMA ReplacedElsewhereKeeps ==
    ASSUME IInv, ReplacedElsewhere
    PROVE  IInv'
  <1>1. LifeKept /\ moved' \in BOOLEAN /\ up' = up /\ UNCHANGED <<stack, log, p, messages, failures>>
    BY DEF LifeKept, ReplacedElsewhere, lifetime
  <1> QED BY <1>1, StillKeeps

-----------------------------------------------------------------------------
(* The queue *)

IsPush(x, c) == x.c = c /\ x.item[1] = "push"
One(x, c) == IF IsPush(x, c) THEN 1 ELSE 0

LEMMA PushesAppend ==
    ASSUME NEW q \in Seq(Queued), NEW x \in Queued, NEW c
    PROVE  Pushes(Append(q, x), c) = Pushes(q, c) + One(x, c)
  <1> DEFINE n == Len(q)
             A == QueuedBy(q, c)
             B == QueuedBy(Append(q, x), c)
  <1>1. /\ n \in Nat /\ Len(Append(q, x)) = n + 1 /\ Append(q, x)[n + 1] = x
        /\ \A k \in 1..n : Append(q, x)[k] = q[k]
    OBVIOUS
  <1>2. IsFiniteSet(A) /\ n + 1 \notin A /\ Cardinality(A) \in Nat
    <2>1. IsFiniteSet(A) /\ Cardinality(A) \in Nat
      BY PushesIsNat DEF Pushes
    <2> QED BY <2>1, <1>1 DEF QueuedBy
  <1>3. CASE IsPush(x, c)
    <2>1. B = A \cup {n + 1}
      BY <1>1, <1>3 DEF QueuedBy, IsPush
    <2> HIDE DEF A, B, n
    <2>2. Cardinality(A \cup {n + 1}) = Cardinality(A) + 1
      BY <1>2, FS_AddElement
    <2>3. Cardinality(B) = Cardinality(A) + 1
      BY <2>1, <2>2
    <2> QED BY <2>3, <1>3 DEF Pushes, One, A, B
  <1>4. CASE ~IsPush(x, c)
    <2>1. B = A
      BY <1>1, <1>4 DEF QueuedBy, IsPush
    <2>2. One(x, c) = 0
      BY <1>4 DEF One
    <2> QED BY <2>1, <2>2, <1>2 DEF Pushes
  <1> QED BY <1>3, <1>4

LEMMA PushesTail ==
    ASSUME NEW q \in Seq(Queued), q # <<>>, NEW c
    PROVE  Pushes(q, c) = Pushes(Tail(q), c) + One(Head(q), c)
  <1> DEFINE n == Len(q)
             t == Tail(q)
             A == QueuedBy(q, c)
             B == QueuedBy(t, c)
             f == [i \in A \ {1} |-> i - 1]
  <1>1. /\ n \in Nat \ {0} /\ t \in Seq(Queued) /\ Len(t) = n - 1 /\ Head(q) = q[1]
        /\ \A k \in 1..Len(t) : t[k] = q[k + 1]
    BY HeadTailProperties, EmptySeq
  <1>2. /\ IsFiniteSet(A) /\ Cardinality(A) \in Nat
        /\ IsFiniteSet(B) /\ Cardinality(B) \in Nat
    BY <1>1, PushesIsNat DEF Pushes
  <1> HIDE DEF t
  <1>3. f \in Bijection(A \ {1}, B)
    <2>1. \A i \in A \ {1} : i \in 2..n /\ i - 1 \in 1..Len(t) /\ t[i - 1] = q[i]
      BY <1>1 DEF QueuedBy
    <2>2. \A i \in A \ {1} : i - 1 \in B
      BY <2>1 DEF QueuedBy
    <2>3. \A i, j \in A \ {1} : i - 1 = j - 1 => i = j
      BY <2>1
    <2>4. \A k \in B : k + 1 \in A \ {1} /\ k \in Int
      BY <1>1 DEF QueuedBy
    <2> HIDE DEF A, B
    <2>5. f \in [A \ {1} -> B]
      BY <2>2
    <2>6. f \in Injection(A \ {1}, B)
      BY <2>3, <2>5 DEF Injection, IsInjective
    <2>7. \A k \in B : \E i \in A \ {1} : f[i] = k
      <3> TAKE k \in B
      <3> DEFINE j == k + 1
      <3>1. j \in A \ {1} /\ j - 1 = k
        BY <2>4
      <3> HIDE DEF j
      <3>2. f[j] = k
        BY <3>1
      <3> QED BY <3>1, <3>2
    <2>8. f \in Surjection(A \ {1}, B)
      <3> HIDE DEF f
      <3> QED BY <2>7, <2>5 DEF Surjection
    <2> QED BY <2>6, <2>8 DEF Bijection
  <1>4. Cardinality(B) = Cardinality(A \ {1})
    <2>1. IsFiniteSet(A \ {1})
      BY <1>2, FS_RemoveElement
    <2> HIDE DEF A, B, f
    <2>2. ExistsBijection(A \ {1}, B)
      BY <1>3 DEF ExistsBijection
    <2> QED BY <2>1, <2>2, FS_Bijection
  <1>5. Cardinality(A \ {1}) = IF 1 \in A THEN Cardinality(A) - 1 ELSE Cardinality(A)
    BY <1>2, FS_RemoveElement
  <1>6. 1 \in A <=> IsPush(Head(q), c)
    BY <1>1 DEF QueuedBy, IsPush
  <1> HIDE DEF A, B
  <1>7. Cardinality(A) = Cardinality(B) + One(Head(q), c)
    BY <1>2, <1>4, <1>5, <1>6 DEF One
  <1> QED BY <1>7 DEF Pushes, A, B, t

-----------------------------------------------------------------------------
(* Steps that change what a peer holds or is owed *)

\* What such a step leaves alone.
LEMMA OthersStep ==
    ASSUME RestI, TypeI', UNCHANGED <<up, members>>,
           \A c \in Peers :
              /\ p[c].joined = TRUE => p'[c].joined = TRUE
              /\ p'[c].told = p[c].told /\ p'[c].late = FALSE
              /\ Has(stack', "about", c) => Has(stack, "about", c) \/ p'[c].joined = TRUE
              /\ Has(stack, "admitting", c) => Has(stack', "admitting", c),
           \A i \in 1..Len(pending') : p'[pending'[i].c].joined = TRUE,
           ~up => pending' = <<>>,
           Has(stack', "retire", NoPeer) => Has(stack, "retire", NoPeer),
           pending' # <<>> => Has(stack', "active", NoPeer)
    PROVE  KnownI' /\ OverI' /\ NothingAfterRetired' /\ ToldI' /\ QueueI'
  <1> USE DEF RestI
  <1>1. \A c \in members : c \in Peers
    BY DEF TypeI
  <1>2. KnownI'
    BY <1>1 DEF KnownI
  <1>3. OverI'
    BY <1>1 DEF OverI
  <1>4. NothingAfterRetired'
    BY DEF NothingAfterRetired
  <1>5. ToldI'
    BY <1>1 DEF ToldI
  <1>6. QueueI'
    BY DEF QueueI
  <1> QED BY <1>2, <1>3, <1>4, <1>5, <1>6

\* What c is owed, when it is y after the step: nothing changed, a push at hand
\* was answered, or its ack was dropped.
OwedFits(x, y, c) ==
    \/ y.owed = x.owed /\ y.unacked = x.unacked
       /\ (Has(stack', "unanswered", c) <=> Has(stack, "unanswered", c))
    \/ y.owed = x.owed - 1 /\ y.unacked = x.unacked
       /\ Has(stack, "unanswered", c) /\ ~Has(stack', "unanswered", c)
    \/ y.owed = x.owed /\ y.unacked = TRUE
       /\ (Has(stack', "unanswered", c) => Has(stack, "unanswered", c))

\* One connection c is y after the step.
LEMMA DataStep ==
    ASSUME RestI, NEW c \in Peers, NEW y \in Peer, p' = [p EXCEPT ![c] = y],
           UNCHANGED <<lifetime, moved, head, snap, messages, failures>>,
           y.joined = p[c].joined, y.told = p[c].told, y.late = FALSE,
           PositionFits(y, head, Has(stack', "acking", c)),
           OwedFits(p[c], y, c),
           \A d \in Peers :
              /\ Has(stack', "about", d) => Has(stack, "about", d)
              /\ Has(stack', "entering", d) => Has(stack, "entering", d)
              /\ Has(stack, "admitting", d) => Has(stack', "admitting", d)
              /\ Has(stack, "feeding", d) => Has(stack', "feeding", d) \/ (d = c /\ y.cursor = head),
           p[c].cursor = head => y.cursor = head,
           \A d \in Peers \ {c} :
              /\ Has(stack, "acking", d) => Has(stack', "acking", d)
              /\ Has(stack, "unanswered", d) <=> Has(stack', "unanswered", d),
           Has(stack', "append", NoPeer) => Has(stack, "append", NoPeer),
           Has(stack', "retire", NoPeer) => Has(stack, "retire", NoPeer),
           Has(stack, "active", NoPeer) => Has(stack', "active", NoPeer)
    PROVE  RestI'
  <1>1. /\ p \in [Peers -> Peer] /\ p' \in [Peers -> Peer] /\ p'[c] = y
        /\ \A d \in Peers \ {c} : p'[d] = p[d]
    BY DEF RestI, TypeI
  <1>2. TypeI'
    BY <1>1 DEF RestI, TypeI, lifetime
  <1>3. KnownI' /\ OverI' /\ NothingAfterRetired' /\ ToldI' /\ QueueI'
    <2>1. ASSUME NEW d \in Peers
          PROVE  /\ p[d].joined = TRUE => p'[d].joined = TRUE
                 /\ p'[d].told = p[d].told /\ p'[d].late = FALSE
                 /\ Has(stack', "about", d) => Has(stack, "about", d) \/ p'[d].joined = TRUE
                 /\ Has(stack, "admitting", d) => Has(stack', "admitting", d)
      <3>1. p[d].late = FALSE
        BY <1>1 DEF RestI, NothingAfterRetired, Peer
      <3> QED BY <1>1, <3>1
    <2>2. /\ UNCHANGED <<up, members>> /\ pending' = pending
          /\ ~up => pending' = <<>>
          /\ pending' # <<>> => Has(stack', "active", NoPeer)
      BY DEF lifetime, RestI, OverI, QueueI
    <2>3. \A i \in 1..Len(pending') : p'[pending'[i].c].joined = TRUE
      <3> TAKE i \in 1..Len(pending')
      <3>1. pending[i] \in Queued /\ p[pending[i].c].joined = TRUE
        BY <2>2 DEF RestI, TypeI, KnownI
      <3>2. pending[i].c \in Peers
        BY <3>1 DEF Queued
      <3> QED BY <3>1, <3>2, <2>1, <2>2
    <2> QED BY <1>2, <2>1, <2>2, <2>3, OthersStep
  <1>4. CountI'
    BY DEF RestI, CountI, lifetime
  <1>5. PositionsI'
    <2> SUFFICES ASSUME NEW d \in Peers
                 PROVE  PositionFits(p'[d], head, Has(stack', "acking", d))
      BY DEF PositionsI
    <2>1. CASE d = c
      BY <2>1, <1>1
    <2>2. CASE d # c
      BY <2>2, <1>1 DEF PositionFits, RestI, PositionsI
    <2> QED BY <2>1, <2>2
  <1>6. OwedI'
    <2> SUFFICES ASSUME NEW d \in Peers
                 PROVE  /\ Pushes(pending', d) + AtHand(stack', d) <= p'[d].owed
                        /\ p'[d].owed <= messages'
                        /\ /\ up'
                           /\ d \in members' \/ p'[d].joined = FALSE \/ Has(stack', "entering", d)
                           => p'[d].unacked = TRUE \/ p'[d].owed = Pushes(pending', d) + AtHand(stack', d)
      BY DEF OwedI
    <2>1. /\ Pushes(pending, d) + AtHand(stack, d) <= p[d].owed
          /\ p[d].owed <= messages
          /\ /\ up
             /\ d \in members \/ p[d].joined = FALSE \/ Has(stack, "entering", d)
             => p[d].unacked = TRUE \/ p[d].owed = Pushes(pending, d) + AtHand(stack, d)
      BY DEF RestI, OwedI
    <2>2. Pushes(pending, d) \in Nat
      BY PushesIsNat DEF RestI, TypeI
    <2>3. UNCHANGED <<up, members, pending, messages>>
      BY DEF lifetime
    <2>4. p[d].owed \in Nat /\ p'[d].owed \in Nat /\ messages \in Nat
      BY <1>1, ConstantsAre DEF RestI, TypeI, Peer
    <2>5. p'[d].joined = p[d].joined /\ (Has(stack', "entering", d) => Has(stack, "entering", d))
      BY <1>1
    <2>6. CASE d = c
      <3>1. OwedFits(p[d], p'[d], d)
        BY <2>6, <1>1
      <3>2. AtHand(stack, d) = IF Has(stack, "unanswered", d) THEN 1 ELSE 0
        BY DEF AtHand
      <3>3. AtHand(stack', d) = IF Has(stack', "unanswered", d) THEN 1 ELSE 0
        BY DEF AtHand
      <3> QED BY <3>1, <3>2, <3>3, <2>1, <2>2, <2>3, <2>4, <2>5 DEF OwedFits
    <2>7. CASE d # c
      <3>1. AtHand(stack', d) = AtHand(stack, d) /\ p'[d] = p[d]
        BY <2>7, <1>1 DEF AtHand
      <3> QED BY <3>1, <2>1, <2>3, <2>5
    <2> QED BY <2>6, <2>7
  <1>7. CaughtUpI'
    <2> SUFFICES ASSUME NEW d \in members
                 PROVE  p'[d].cursor = head \/ failures > 0 \/ Has(stack', "feeding", d)
      BY DEF CaughtUpI, lifetime
    <2>1. d \in Peers /\ (p[d].cursor = head \/ failures > 0 \/ Has(stack, "feeding", d))
      BY DEF RestI, TypeI, CaughtUpI
    <2> QED BY <2>1, <1>1
  <1> QED BY <1>2, <1>3, <1>4, <1>5, <1>6, <1>7 DEF RestI

-----------------------------------------------------------------------------
(* drain(), and the calls of a peer that has control *)

\* No message is being handled when the drain has control.
LEMMA UnderDrain ==
    ASSUME NEW s, Structured(s), s # <<>>, s[Len(s)].op = "drain"
    PROVE  \A k \in 1..Len(s) : s[k].op # "process"
  <1> DEFINE n == Len(s)
  <1>1. n \in Nat \ {0} /\ n \in 1..n
    BY UnderIs DEF Structured
  <1> SUFFICES ASSUME NEW k \in 1..n, s[k].op = "process" PROVE FALSE
    OBVIOUS
  <1>2. k # 1 /\ s[k - 1].op = "drain"
    BY DEF Structured, Parents, Calls
  <1>3. k - 1 \in 1..n /\ k - 1 < n
    BY <1>1, <1>2
  <1> QED BY <1>1, <1>2, <1>3 DEF Structured, OneDrain, Active

\* The head of the queue, being handled.
Handled(x) == [Rec("process", x.c) EXCEPT !.item = x.item]

LEMMA HandledIs ==
    ASSUME NEW x \in Queued
    PROVE  /\ Handled(x) \in Call /\ Handled(x).op = "process" /\ Handled(x).c = x.c
           /\ Handled(x).pc = "start" /\ Handled(x).item = x.item /\ Handled(x).ret = "none"
           /\ Handled(x).seen = {} /\ x.c \in Peers
  <1>1. "process" \in Ops /\ x.c \in Peers \cup {NoPeer} /\ x.item \in Items /\ x.c \in Peers
    BY DEF Ops, Queued
  <1>2. /\ Rec("process", x.c) \in Call /\ Rec("process", x.c).op = "process"
        /\ Rec("process", x.c).c = x.c /\ Rec("process", x.c).ret = "none"
        /\ Rec("process", x.c).pc = "start" /\ Rec("process", x.c).seen = {}
    BY <1>1, RecIs
  <1> QED BY <1>1, <1>2 DEF Handled, Call

\* drain() takes the head of the queue.
LEMMA DrainTakes ==
    ASSUME IInv, Running("drain"), pending # <<>>,
           stack' = Append(stack, Handled(Head(pending))), pending' = Tail(pending),
           UNCHANGED <<up, members, moved, log, p, messages, failures>>
    PROVE  IInv'
  <1> DEFINE x == Head(pending)
             r == Handled(x)
  <1>1. stack # <<>> /\ Top.op = "drain" /\ Top = stack[Len(stack)]
    BY DEF Running, Top
  <1>2. Structured(stack) /\ stack \in Seq(Call) /\ RestI /\ TypeI
    BY DEF IInv, RestI, Structured
  <1>3. /\ pending \in Seq(Queued) /\ x \in Queued /\ x = pending[1] /\ Len(pending) \in Nat \ {0}
        /\ pending' \in Seq(Queued) /\ Len(pending') = Len(pending) - 1
        /\ \A i \in 1..Len(pending') : pending'[i] = pending[i + 1]
    BY <1>2, HeadTailProperties, EmptySeq DEF TypeI
  <1>4. /\ r \in Call /\ r.op = "process" /\ r.c = x.c /\ r.pc = "start" /\ r.item = x.item
        /\ r.ret = "none" /\ r.seen = {} /\ x.c \in Peers
    BY <1>3, HandledIs
  <1>5. x.item[1] \in Kinds /\ p[x.c].joined = TRUE
    BY <1>2, <1>3 DEF RestI, TypeI, KnownI
  <1>6. stack' = Append(stack, r)
    OBVIOUS
  <1> HIDE DEF r, x
  <1>7. MayPush(stack, r)
    BY <1>1, <1>4 DEF MayPush, Who, Calls, Waiting, Entering
  <1>8. Structured(stack')
    BY <1>2, <1>6, <1>7, PushKeeps
  <1>9. stack' # <<>> /\ stack'[Len(stack')] = r
    BY <1>2, <1>4, <1>6, AppendIs
  <1>10. NotWaiting'
    BY <1>4, <1>9 DEF NotWaiting, Ready, Waiting
  <1>11. \A role, c : Has(stack', role, c) <=> Has(stack, role, c) \/ Plays(r, role, c)
    BY <1>2, <1>4, <1>6, HasAppend
  <1>12. CallsFit'
    <2>1. Fits(r, p[r.c], head, snap, Broke)
      BY <1>4, <1>5 DEF Fits, JoinFits, DeliverFits, ProcessFits
    <2>2. FitAll(stack', p, head, snap, Broke)
      BY <2>1, <1>2, <1>4, <1>6, FitAppend DEF IInv, CallsFit
    <2>3. Broke' = Broke
      BY DEF Broke
    <2> QED BY <2>2, <2>3 DEF CallsFit, log
  <1>13. /\ \A c : Plays(r, "about", c) <=> c = x.c
         /\ \A c : Plays(r, "unanswered", c) <=> IsPush(x, c)
         /\ \A c : ~Plays(r, "acking", c) /\ ~Plays(r, "entering", c)
         /\ ~Plays(r, "retire", NoPeer)
    BY <1>4 DEF Plays, About, Active, WillAppend, Acking, Unanswered, Entering, Admitting, Feeding, IsPush
  <1>14. \A c : ~Has(stack, "unanswered", c)
    <2>1. \A k \in 1..Len(stack) : stack[k].op # "process"
      BY <1>1, <1>2, UnderDrain
    <2> QED BY <2>1 DEF Has, Plays, Unanswered
  <1>15. Has(stack, "active", NoPeer)
    <2>1. Has(stack, "active", NoPeer) <=> Has(Under(stack), "active", NoPeer) \/ Plays(stack[Len(stack)], "active", NoPeer)
      BY <1>1, <1>2, HasUnder
    <2> QED BY <2>1, <1>1 DEF Plays, Active
  <1>16. TypeI'
    <2>1. \A i \in 1..Len(pending') : i + 1 \in 1..Len(pending)
      BY <1>3
    <2>2. \A i \in 1..Len(pending') : pending'[i].item[1] \in Kinds
      BY <2>1, <1>2, <1>3 DEF TypeI
    <2> QED BY <2>2, <1>2, <1>3 DEF TypeI, log
  <1>17. KnownI' /\ OverI' /\ NothingAfterRetired' /\ ToldI' /\ QueueI'
    <2>1. \A i \in 1..Len(pending') : p'[pending'[i].c].joined = TRUE
      <3>1. \A i \in 1..Len(pending') : i + 1 \in 1..Len(pending)
        BY <1>3
      <3> QED BY <3>1, <1>2, <1>3 DEF RestI, KnownI
    <2>2. ~up => pending' = <<>>
      BY <1>2 DEF RestI, OverI
    <2>3. \A c \in Peers : p[c].late = FALSE
      BY <1>2 DEF RestI, NothingAfterRetired, TypeI, Peer
    <2> QED BY <1>2, <1>5, <1>11, <1>13, <1>15, <1>16, <2>1, <2>2, <2>3, OthersStep
  <1>18. CountI'
    <2> DEFINE m == Len(pending)
               l == Len(pending')
    <2>1. m \in Nat \ {0} /\ l = m - 1 /\ head + m <= 1 + messages /\ head \in Nat /\ messages \in Nat
      BY <1>2, <1>3, ConstantsAre DEF CountI, RestI, TypeI
    <2> HIDE DEF m, l
    <2>2. head + l <= messages /\ head + l <= 1 + messages
      BY <2>1
    <2> QED BY <2>2 DEF CountI, log, l
  <1>19. PositionsI' /\ CaughtUpI'
    BY <1>2, <1>11 DEF PositionsI, PositionFits, CaughtUpI, RestI, log
  <1>20. OwedI'
    <2>1. ASSUME NEW c \in Peers
          PROVE  Pushes(pending', c) + AtHand(stack', c) = Pushes(pending, c) + AtHand(stack, c)
      <3>1. Pushes(pending, c) = Pushes(pending', c) + One(x, c)
        BY <1>3, PushesTail DEF x
      <3>2. AtHand(stack, c) = 0
        BY <1>14 DEF AtHand
      <3>3. AtHand(stack', c) = One(x, c)
        BY <1>11, <1>13, <1>14 DEF AtHand, One
      <3>4. Pushes(pending', c) \in Nat /\ One(x, c) \in Nat
        BY <1>3, PushesIsNat DEF One
      <3> QED BY <3>1, <3>2, <3>3, <3>4
    <2> QED BY <2>1, <1>2, <1>11, <1>13 DEF OwedI, RestI
  <1> QED BY <1>8, <1>10, <1>12, <1>16, <1>17, <1>18, <1>19, <1>20 DEF IInv

LEMMA DrainKeeps ==
    ASSUME IInv, DrainStep
    PROVE  IInv'
  <1>1. stack # <<>> /\ Top.op = "drain" /\ UNCHANGED <<up, members, moved, log, p, messages, failures>>
    BY DEF DrainStep, Running
  <1>2. CASE pending # <<>>
    <2>1. stack' = Append(stack, Handled(Head(pending))) /\ pending' = Tail(pending)
      BY <1>2 DEF DrainStep, Handled
    <2> QED BY <2>1, <1>1, <1>2, DrainTakes DEF Running
  <1>3. CASE pending = <<>>
    <2>1. stack' = Under(stack) /\ pending' = pending /\ TypeI
      BY <1>1, <1>3, TopIs DEF DrainStep, IInv
    <2>2. /\ PeersKept /\ LifeKept /\ UNCHANGED <<head, snap, messages, failures>>
          /\ failures' \in Nat /\ failures <= failures' /\ moved' \in BOOLEAN
      BY <1>1, <2>1, PeersSame DEF TypeI, log, LifeKept
    <2>3. RolesPop(Top) /\ Leaves
      BY <1>1, <1>3, <2>1 DEF Leaves, RolesPop, Plays, About, Active, WillAppend, Acking, Unanswered, Entering, Admitting, Feeding
    <2> QED BY <1>1, <2>2, <2>3, PopStep
  <1> QED BY <1>2, <1>3

LEMMA JoinCallKeeps ==
    ASSUME IInv, NEW c \in Peers, JoinCall(c)
    PROVE  IInv'
  <1> DEFINE r == Rec("join", c)
             y == [p[c] EXCEPT !.joined = TRUE]
  <1>1. /\ Structured(stack) /\ stack \in Seq(Call) /\ RestI /\ TypeI
        /\ FitAll(stack, p, head, snap, Broke)
    BY DEF IInv, RestI, Structured, CallsFit
  <1>2. /\ Free /\ p[c].joined = FALSE /\ stack' = Append(stack, r)
        /\ UNCHANGED <<lifetime, moved, log, messages, failures>>
    BY <1>1 DEF JoinCall, TypeI, Peer
  <1>3. p' = [p EXCEPT ![c] = y]
    BY <1>1 DEF JoinCall, TypeI
  <1>4. /\ y \in Peer /\ y.joined = TRUE /\ y.told = p[c].told /\ y.late = p[c].late
        /\ y.owed = p[c].owed /\ y.gap = p[c].gap /\ SameData(p[c], y)
    BY <1>1 DEF TypeI, Peer, SameData
  <1>5. "join" \in Ops /\ c \in Peers \cup {NoPeer}
    BY DEF Ops
  <1>6. r \in Call /\ r.op = "join" /\ r.c = c /\ r.pc = "start" /\ r.ret = "none"
    BY <1>5, RecIs
  <1> HIDE DEF r, y
  <1>7. p' \in [Peers -> Peer] /\ p'[c] = y /\ \A d \in Peers \ {c} : p'[d] = p[d]
    BY <1>1, <1>3, <1>4 DEF TypeI
  <1>8. ~Has(stack, "about", c) /\ c \notin members
    BY <1>1, <1>2 DEF RestI, KnownI
  <1>9. \A k \in 1..Len(stack) : ~About(stack[k], c)
    BY <1>8 DEF Has, Plays
  <1>10. MayPush(stack, r)
    BY <1>2, <1>6, <1>9, FreeIs DEF MayPush, Who, Calls
  <1>11. Structured(stack')
    BY <1>1, <1>2, <1>10, PushKeeps
  <1>12. stack' # <<>> /\ stack'[Len(stack')] = r
    BY <1>1, <1>2, <1>6, AppendIs
  <1>13. NotWaiting'
    BY <1>6, <1>12 DEF NotWaiting, Ready, Waiting
  <1>14. \A role, d : Has(stack', role, d) <=> Has(stack, role, d) \/ Plays(r, role, d)
    BY <1>1, <1>2, <1>6, HasAppend
  <1>15. \A role, d : Plays(r, role, d) <=> role \in {"about", "entering"} /\ d = c
    BY <1>6 DEF Plays, About, Active, WillAppend, Acking, Unanswered, Entering, Admitting, Feeding
  <1>16. CallsFit'
    <2>1. Fits(r, p[r.c], head, snap, Broke)
      BY <1>6 DEF Fits, JoinFits, DeliverFits, ProcessFits
    <2>2. FitAll(stack', p, head, snap, Broke)
      BY <2>1, <1>1, <1>2, <1>6, FitAppend
    <2>3. Broke' = Broke
      BY <1>2 DEF Broke, lifetime
    <2>4. \A d \in Peers : SameData(p[d], p'[d])
      BY <1>4, <1>7 DEF SameData
    <2>5. FitAll(stack', p', head, snap, Broke')
      BY <2>2, <2>3, <2>4, <1>11, FitAllSoft
    <2> QED BY <2>5, <1>2 DEF CallsFit, log
  <1>17. TypeI'
    BY <1>1, <1>2, <1>7 DEF TypeI, lifetime, log
  <1>18. UNCHANGED <<up, members, pending, head, messages, failures>>
    BY <1>2 DEF lifetime, log
  <1>19. KnownI' /\ OverI' /\ NothingAfterRetired' /\ ToldI' /\ QueueI'
    <2>1. ASSUME NEW d \in Peers
          PROVE  /\ p[d].joined = TRUE => p'[d].joined = TRUE
                 /\ p'[d].told = p[d].told /\ p'[d].late = FALSE
                 /\ Has(stack', "about", d) => Has(stack, "about", d) \/ p'[d].joined = TRUE
                 /\ Has(stack, "admitting", d) => Has(stack', "admitting", d)
      <3>1. p[d].late = FALSE
        BY <1>1 DEF RestI, NothingAfterRetired, TypeI, Peer
      <3> QED BY <3>1, <1>4, <1>7, <1>14, <1>15
    <2>2. \A i \in 1..Len(pending') : p'[pending'[i].c].joined = TRUE
      <3> TAKE i \in 1..Len(pending')
      <3>1. pending[i] \in Queued /\ p[pending[i].c].joined = TRUE /\ pending' = pending
        BY <1>1, <1>18 DEF RestI, TypeI, KnownI
      <3>2. pending[i].c \in Peers
        BY <3>1 DEF Queued
      <3> QED BY <3>1, <3>2, <2>1
    <2>3. /\ ~up => pending' = <<>>
          /\ pending' # <<>> => Has(stack', "active", NoPeer)
          /\ Has(stack', "retire", NoPeer) => Has(stack, "retire", NoPeer)
      BY <1>1, <1>14, <1>15, <1>18 DEF RestI, OverI, QueueI
    <2> QED BY <1>1, <1>17, <1>18, <2>1, <2>2, <2>3, OthersStep
  <1>20. CountI'
    BY <1>1, <1>14, <1>15, <1>18 DEF RestI, CountI
  <1>21. PositionsI'
    BY <1>1, <1>4, <1>7, <1>14, <1>18 DEF RestI, PositionsI, PositionFits, SameData
  <1>22. CaughtUpI'
    <2> SUFFICES ASSUME NEW d \in members
                 PROVE  p'[d].cursor = head \/ failures > 0 \/ Has(stack', "feeding", d)
      BY <1>18 DEF CaughtUpI
    <2>1. d \in Peers /\ d # c
      BY <1>1, <1>8 DEF TypeI
    <2> QED BY <2>1, <1>1, <1>7, <1>14 DEF RestI, CaughtUpI
  <1>23. OwedI'
    <2>1. \A d \in Peers : AtHand(stack', d) = AtHand(stack, d)
      BY <1>14, <1>15 DEF AtHand
    <2>2. \A d \in Peers : p'[d].owed = p[d].owed /\ p'[d].unacked = p[d].unacked
      BY <1>4, <1>7 DEF SameData
    <2>3. \A d \in Peers \ {c} : Has(stack', "entering", d) <=> Has(stack, "entering", d)
      BY <1>14, <1>15
    <2> QED BY <2>1, <2>2, <2>3, <1>1, <1>2, <1>7, <1>18 DEF RestI, OwedI
  <1> QED BY <1>11, <1>13, <1>16, <1>17, <1>19, <1>20, <1>21, <1>22, <1>23 DEF IInv

\* receive() leaves a drain under way.
LEMMA ReceiveShape ==
    ASSUME IInv, Free, UNCHANGED up,
           stack' = IF MayDrain THEN Append(stack, Rec("drain", NoPeer)) ELSE stack
    PROVE  /\ Structured(stack') /\ NotWaiting' /\ Has(stack', "active", NoPeer)
           /\ \A role, c : role # "active" => (Has(stack', role, c) <=> Has(stack, role, c))
           /\ \A x, hd, sn, b : FitAll(stack, x, hd, sn, b) => FitAll(stack', x, hd, sn, b)
  <1>1. Structured(stack)
    BY DEF IInv
  <1>2. MayDrain <=> ~Has(stack, "active", NoPeer)
    BY DepthIs DEF MayDrain
  <1>3. CASE ~MayDrain
    <2>1. stack' = stack
      BY <1>3
    <2> QED BY <1>1, <1>2, <1>3, <2>1 DEF IInv, NotWaiting, Ready
  <1>4. CASE MayDrain
    <2> DEFINE q == Rec("drain", NoPeer)
    <2>1. stack' = Append(stack, q)
      BY <1>4
    <2>2. /\ Structured(Append(stack, q))
          /\ \A x, hd, sn, b : FitAll(stack, x, hd, sn, b) => FitAll(Append(stack, q), x, hd, sn, b)
          /\ Append(stack, q) # <<>> /\ Append(stack, q)[Len(Append(stack, q))] = q
          /\ q.op = "drain"
          /\ \A role, c : Has(Append(stack, q), role, c) <=> Has(stack, role, c) \/ role = "active"
      BY <1>1, <1>2, <1>4, FreeIs, DrainOn
    <2> HIDE DEF q
    <2>3. NotWaiting'
      BY <2>1, <2>2 DEF NotWaiting, Ready, Waiting
    <2> QED BY <2>1, <2>2, <2>3
  <1> QED BY <1>3, <1>4

\* The message x of c is queued.
Queues(x, c) ==
    /\ Free /\ p[c].joined = TRUE /\ up = TRUE /\ messages < MaxMessages
    /\ x \in Queued /\ x.c = c /\ x.item[1] \in Kinds
    /\ pending' = Append(pending, x)
    /\ p' = IF x.item[1] = "push" THEN [p EXCEPT ![c].owed = @ + 1] ELSE p
    /\ stack' = IF MayDrain THEN Append(stack, Rec("drain", NoPeer)) ELSE stack
    /\ messages' = messages + 1
    /\ UNCHANGED <<up, members, moved, log, failures>>

LEMMA ReceiveQueues ==
    ASSUME IInv, NEW c \in Peers, NEW x, Queues(x, c)
    PROVE  IInv'
  <1>1. RestI /\ TypeI /\ FitAll(stack, p, head, snap, Broke)
    BY DEF IInv, RestI, CallsFit
  <1>a. /\ messages < MaxMessages /\ messages' = messages + 1
        /\ UNCHANGED <<up, members, moved, head, snap, failures>>
        /\ p[c].joined = TRUE /\ up = TRUE
    BY DEF Queues, log
  <1>b. x \in Queued /\ x.c = c /\ x.item[1] \in Kinds
    BY DEF Queues
  <1>2. /\ Structured(stack') /\ NotWaiting' /\ Has(stack', "active", NoPeer)
        /\ \A role, d : role # "active" => (Has(stack', role, d) <=> Has(stack, role, d))
        /\ FitAll(stack', p, head, snap, Broke)
    BY <1>1, ReceiveShape DEF Queues
  <1>3. messages \in Nat /\ messages' \in 0..MaxMessages /\ p[c].owed \in Nat /\ p[c].owed + 1 \in 0..MaxMessages
    <2>1. messages \in Nat /\ MaxMessages \in Nat /\ p[c].owed \in Nat
      BY <1>1, ConstantsAre DEF TypeI, Peer
    <2>2. p[c].owed <= messages
      BY <1>1 DEF RestI, OwedI
    <2> QED BY <2>1, <2>2, <1>a
  <1>4. /\ p' \in [Peers -> Peer]
        /\ p'[c].owed = p[c].owed + One(x, c)
        /\ \A d \in Peers \ {c} : p'[d].owed = p[d].owed
        /\ \A d \in Peers : /\ p'[d].joined = p[d].joined /\ p'[d].told = p[d].told
                            /\ p'[d].late = p[d].late /\ p'[d].gap = p[d].gap
                            /\ SameData(p[d], p'[d])
    <2>1. CASE x.item[1] = "push"
      <3> DEFINE y == [p[c] EXCEPT !.owed = @ + 1]
      <3>1. p \in [Peers -> Peer] /\ p' = [p EXCEPT ![c] = y]
        BY <1>1, <2>1 DEF TypeI, Queues
      <3>2. /\ y \in Peer /\ y.owed = p[c].owed + 1 /\ y.joined = p[c].joined /\ y.told = p[c].told
            /\ y.late = p[c].late /\ y.gap = p[c].gap /\ SameData(p[c], y)
        BY <1>1, <1>3 DEF TypeI, Peer, SameData
      <3> HIDE DEF y
      <3>3. p' \in [Peers -> Peer] /\ p'[c] = y /\ \A d \in Peers \ {c} : p'[d] = p[d]
        BY <3>1, <3>2
      <3>4. One(x, c) = 1
        BY <2>1, <1>b DEF One, IsPush
      <3> QED BY <3>2, <3>3, <3>4 DEF SameData
    <2>2. CASE x.item[1] # "push"
      <3>1. p' = p /\ One(x, c) = 0
        BY <2>2 DEF One, IsPush, Queues
      <3> QED BY <3>1, <1>1, <1>3 DEF TypeI, SameData
    <2> QED BY <2>1, <2>2
  <1>5. CallsFit'
    <2>1. Broke' = Broke
      BY <1>a DEF Broke
    <2>2. \A d \in Peers : SameData(p[d], p'[d])
      BY <1>4
    <2>3. FitAll(stack', p', head, snap, Broke')
      BY <2>1, <2>2, <1>2, FitAllSoft
    <2> QED BY <2>3, <1>a DEF CallsFit
  <1> DEFINE n == Len(pending)
  <1>c. pending' = Append(pending, x) /\ pending \in Seq(Queued)
    BY <1>1 DEF TypeI, Queues
  <1>6. /\ pending \in Seq(Queued) /\ n \in Nat
        /\ pending' \in Seq(Queued) /\ Len(pending') = n + 1 /\ pending'[n + 1] = x
        /\ \A k \in 1..n : pending'[k] = pending[k]
    BY <1>b, <1>c
  <1>7. \A i \in 1..Len(pending') : i \in 1..n \/ i = n + 1
    BY <1>6
  <1>8. TypeI'
    <2>1. \A i \in 1..Len(pending') : pending'[i].item[1] \in Kinds
      BY <1>1, <1>b, <1>6, <1>7 DEF TypeI
    <2> QED BY <2>1, <1>1, <1>3, <1>4, <1>6, <1>a DEF TypeI
  <1>9. KnownI' /\ OverI' /\ NothingAfterRetired' /\ ToldI' /\ QueueI'
    <2>1. \A d \in Peers : p[d].late = FALSE
      BY <1>1 DEF RestI, NothingAfterRetired, TypeI, Peer
    <2>2. ASSUME NEW i \in 1..Len(pending') PROVE p'[pending'[i].c].joined = TRUE
      <3>1. CASE i = n + 1
        BY <3>1, <1>4, <1>6, <1>a, <1>b
      <3>2. CASE i \in 1..n
        <4>1. pending[i] \in Queued /\ p[pending[i].c].joined = TRUE /\ pending'[i] = pending[i]
          BY <1>1, <1>6, <3>2 DEF RestI, TypeI, KnownI
        <4>2. pending[i].c \in Peers
          BY <4>1 DEF Queued
        <4> QED BY <4>1, <4>2, <1>4
      <3> QED BY <3>1, <3>2, <1>7
    <2>3. \A d \in Peers :
              /\ p[d].joined = TRUE => p'[d].joined = TRUE
              /\ p'[d].told = p[d].told /\ p'[d].late = FALSE
              /\ Has(stack', "about", d) => Has(stack, "about", d) \/ p'[d].joined = TRUE
              /\ Has(stack, "admitting", d) => Has(stack', "admitting", d)
      BY <1>2, <1>4, <2>1
    <2> QED BY <1>1, <1>2, <1>8, <1>a, <2>2, <2>3, OthersStep
  <1>10. CountI'
    <2>1. /\ head + n <= 1 + messages /\ head \in Nat
          /\ Has(stack, "append", NoPeer) => head + n <= messages
      BY <1>1 DEF RestI, CountI, TypeI
    <2>2. /\ head + (n + 1) <= 1 + (messages + 1)
          /\ Has(stack, "append", NoPeer) => head + (n + 1) <= messages + 1
      BY <2>1, <1>3, <1>6
    <2> QED BY <2>2, <1>2, <1>6, <1>a DEF CountI
  <1>11. PositionsI' /\ CaughtUpI'
    <2>1. \A d \in members : d \in Peers
      BY <1>1 DEF TypeI
    <2> QED BY <2>1, <1>1, <1>2, <1>4, <1>a DEF RestI, PositionsI, PositionFits, CaughtUpI, SameData
  <1>12. OwedI'
    <2> SUFFICES ASSUME NEW d \in Peers
                 PROVE  /\ Pushes(pending', d) + AtHand(stack', d) <= p'[d].owed
                        /\ p'[d].owed <= messages'
                        /\ /\ up'
                           /\ d \in members' \/ p'[d].joined = FALSE \/ Has(stack', "entering", d)
                           => p'[d].unacked = TRUE \/ p'[d].owed = Pushes(pending', d) + AtHand(stack', d)
      BY DEF OwedI
    <2>1. /\ Pushes(pending, d) + AtHand(stack, d) <= p[d].owed
          /\ p[d].owed <= messages
          /\ /\ up
             /\ d \in members \/ p[d].joined = FALSE \/ Has(stack, "entering", d)
             => p[d].unacked = TRUE \/ p[d].owed = Pushes(pending, d) + AtHand(stack, d)
      BY <1>1 DEF RestI, OwedI
    <2>2. Pushes(pending, d) \in Nat /\ Pushes(pending', d) = Pushes(pending, d) + One(x, d)
      BY <1>6, <1>b, PushesIsNat, PushesAppend DEF Queues
    <2>3. AtHand(stack', d) = AtHand(stack, d) /\ AtHand(stack, d) \in Nat
      BY <1>2 DEF AtHand
    <2>4. p[d].owed \in Nat /\ One(x, d) \in 0..1
      BY <1>1 DEF TypeI, Peer, One
    <2>5. p'[d].owed = p[d].owed + One(x, d)
      <3>1. CASE d = c
        BY <3>1, <1>4
      <3>2. CASE d # c
        <4>1. One(x, d) = 0
          BY <3>2, <1>b DEF One, IsPush
        <4> QED BY <4>1, <3>2, <1>4, <2>4
      <3> QED BY <3>1, <3>2
    <2>6. /\ p'[d].unacked = p[d].unacked /\ p'[d].joined = p[d].joined
          /\ (Has(stack', "entering", d) <=> Has(stack, "entering", d))
      BY <1>2, <1>4 DEF SameData
    <2>7. /\ p'[d].owed <= messages'
          /\ Pushes(pending', d) + AtHand(stack', d) <= p'[d].owed
          /\ p[d].owed = Pushes(pending, d) + AtHand(stack, d)
             => p'[d].owed = Pushes(pending', d) + AtHand(stack', d)
      <3> DEFINE o == p[d].owed
                 one == One(x, d)
                 w == Pushes(pending, d)
                 h == AtHand(stack, d)
                 m == messages
      <3>1. /\ o \in Nat /\ one \in 0..1 /\ w \in Nat /\ h \in Nat /\ m \in Nat
            /\ w + h <= o /\ o <= m
        BY <2>1, <2>2, <2>3, <2>4, <1>3
      <3>2. /\ p'[d].owed = o + one /\ messages' = m + 1
            /\ Pushes(pending', d) = w + one /\ AtHand(stack', d) = h
        BY <2>2, <2>3, <2>5, <1>a
      <3> HIDE DEF o, one, w, h, m
      <3>3. o + one <= m + 1 /\ (w + one) + h <= o + one /\ (o = w + h => o + one = (w + one) + h)
        BY <3>1
      <3> QED BY <3>2, <3>3 DEF o, w, h
    <2> QED BY <2>1, <2>6, <2>7, <1>a
  <1> QED BY <1>2, <1>5, <1>8, <1>9, <1>10, <1>11, <1>12 DEF IInv

LEMMA ReceiveKeeps ==
    ASSUME IInv, NEW c \in Peers, ReceiveCall(c)
    PROVE  IInv'
  <1>1. RestI /\ TypeI /\ FitAll(stack, p, head, snap, Broke)
    BY DEF IInv, RestI, CallsFit
  <1>2. /\ Free /\ messages < MaxMessages /\ messages' = messages + 1
        /\ stack' = IF MayDrain THEN Append(stack, Rec("drain", NoPeer)) ELSE stack
        /\ UNCHANGED <<up, members, moved, log, failures>>
    BY DEF ReceiveCall
  <1>3. p[c].joined = TRUE /\ up \in BOOLEAN
    BY <1>1 DEF ReceiveCall, TypeI, Peer
  <1>4. PICK item \in {<<"push", 0, 0>>, <<"offer", p[c].pos, 0>>} :
            /\ pending' = IF up THEN Append(pending, [c |-> c, item |-> item]) ELSE pending
            /\ p' = IF up /\ item[1] = "push" THEN [p EXCEPT ![c].owed = @ + 1] ELSE p
    BY DEF ReceiveCall
  <1>5. CASE up = TRUE
    <2> DEFINE x == [c |-> c, item |-> item]
    <2>1. p[c].pos \in 0..MaxHead /\ 0 \in 0..MaxHead /\ 0 \in 0..Chunks
      BY <1>1, ConstantsAre DEF TypeI, Peer
    <2>2. item \in Items /\ item[1] \in Kinds
      BY <2>1, <1>4 DEF Items, Kinds
    <2>3. x \in Queued /\ x.c = c /\ x.item = item
      BY <2>2 DEF Queued
    <2>4. pending' = Append(pending, x) /\ p' = IF x.item[1] = "push" THEN [p EXCEPT ![c].owed = @ + 1] ELSE p
      BY <1>4, <1>5
    <2> HIDE DEF x
    <2>5. Queues(x, c)
      BY <1>2, <1>3, <1>5, <2>2, <2>3, <2>4 DEF Queues
    <2> QED BY <2>5, ReceiveQueues
  <1>6. CASE up = FALSE
    <2>1. pending' = pending /\ p' = p
      BY <1>4, <1>6
    <2>2. /\ Structured(stack') /\ NotWaiting' /\ Has(stack', "active", NoPeer)
          /\ \A role, d : role # "active" => (Has(stack', role, d) <=> Has(stack, role, d))
          /\ FitAll(stack', p, head, snap, Broke)
      BY <1>1, <1>2, ReceiveShape
    <2>3. CallsFit'
      BY <2>1, <2>2, <1>2 DEF CallsFit, Broke, log
    <2>4. messages \in Nat /\ messages' \in 0..MaxMessages
      BY <1>1, <1>2, ConstantsAre DEF TypeI
    <2>5. TypeI'
      BY <1>1, <1>2, <2>1, <2>4 DEF TypeI, log
    <2>6. KnownI' /\ OverI' /\ NothingAfterRetired' /\ ToldI' /\ QueueI'
      BY <1>1, <1>2, <2>1, <2>2 DEF RestI, KnownI, OverI, NothingAfterRetired, ToldI, QueueI
    <2>7. CountI'
      <3> DEFINE n == Len(pending)
      <3>1. /\ head + n <= 1 + messages /\ head \in Nat /\ n \in Nat
            /\ Has(stack, "append", NoPeer) => head + n <= messages
        BY <1>1 DEF RestI, CountI, TypeI
      <3> HIDE DEF n
      <3>2. /\ head + n <= 1 + (messages + 1)
            /\ Has(stack, "append", NoPeer) => head + n <= messages + 1
        BY <3>1, <2>4
      <3> QED BY <3>2, <1>2, <2>1, <2>2 DEF CountI, log, n
    <2>8. PositionsI' /\ CaughtUpI'
      BY <1>1, <1>2, <2>1, <2>2 DEF RestI, PositionsI, PositionFits, CaughtUpI, log
    <2>9. OwedI'
      <3>1. \A d \in Peers : AtHand(stack', d) = AtHand(stack, d)
        BY <2>2 DEF AtHand
      <3>2. \A d \in Peers : p[d].owed \in Nat
        BY <1>1 DEF TypeI, Peer
      <3> QED BY <3>1, <3>2, <1>1, <1>2, <1>6, <2>1, <2>4 DEF RestI, OwedI
    <2> QED BY <2>2, <2>3, <2>5, <2>6, <2>7, <2>8, <2>9 DEF IInv
  <1> QED BY <1>3, <1>5, <1>6

-----------------------------------------------------------------------------
(* deliver() *)

Caller == Under(stack)[Len(Under(stack))]

\* What is known of the call that waits for the delivery.
LEMMA CallerIs ==
    ASSUME IInv, Running("deliver")
    PROVE  /\ Under(stack) # <<>> /\ Structured(Under(stack)) /\ Under(stack) \in Seq(Call)
           /\ Caller \in Call /\ Delivers(Caller, Top) /\ Caller.op \in {"join", "process"}
           /\ Fits(Caller, p[Caller.c], head, snap, Broke)
           /\ FitAll(Under(stack), p, head, snap, Broke)
           /\ \A k \in 1..Len(Under(stack)) : Under(stack)[k].c = Top.c =>
                 /\ Under(stack)[k].op # "deliver"
                 /\ Under(stack)[k].op = "process" =>
                       k = Len(Under(stack)) /\ Under(stack)[k].pc = "delivered"
  <1> DEFINE U == Under(stack)
             t == stack[Len(stack)]
  <1>1. stack # <<>> /\ Top.op = "deliver" /\ t = Top
    BY DEF Running, Top
  <1>2. Structured(stack) /\ stack \in Seq(Call) /\ FitAll(stack, p, head, snap, Broke)
    BY DEF IInv, Structured, CallsFit
  <1>3. Structured(U) /\ U \in Seq(Call)
    BY <1>1, <1>2, PopKeeps DEF Structured
  <1>4. /\ U # <<>> /\ Delivers(U[Len(U)], t)
        /\ \A k \in 1..Len(U) : U[k].c = t.c =>
                 /\ U[k].op # "deliver"
                 /\ U[k].op = "process" => k = Len(U) /\ U[k].pc = "delivered"
    BY <1>1, <1>2, UnderDeliver
  <1>5. FitAll(U, p, head, snap, Broke)
    BY <1>1, <1>2, FitUnder
  <1> HIDE DEF U
  <1>6. Len(U) \in 1..Len(U) /\ U[Len(U)] \in Call
    BY <1>3, <1>4, UnderIs
  <1>7. Fits(U[Len(U)], p[U[Len(U)].c], head, snap, Broke)
    BY <1>5, <1>6 DEF FitAll
  <1>8. U[Len(U)].op \in {"join", "process"}
    BY <1>4 DEF Delivers
  <1> QED BY <1>1, <1>3, <1>4, <1>5, <1>6, <1>7, <1>8 DEF Caller, U

LEMMA HeadBound ==
    ASSUME RestI
    PROVE  head \in Nat /\ snap \in Nat /\ snap <= head /\ head <= MaxHead /\ MaxHead \in Nat
  <1> DEFINE n == Len(pending)
  <1>1. n \in Nat /\ head + n <= 1 + messages /\ messages \in 0..MaxMessages /\ head \in Nat /\ snap \in 1..head
    BY DEF RestI, TypeI, CountI
  <1> HIDE DEF n
  <1>2. head <= MaxHead
    BY <1>1, ConstantsAre DEF MaxHead
  <1> QED BY <1>1, <1>2, ConstantsAre

\* A delivery goes up to the head, or to the push that waits for it.
LEMMA CeilingIs ==
    ASSUME IInv, Running("deliver")
    PROVE  snap <= Top.n /\ Top.n \in Nat
  <1>1. Delivers(Caller, Top) /\ Fits(Caller, p[Caller.c], head, snap, Broke) /\ Caller \in Call
    BY CallerIs
  <1>2. head \in Nat /\ snap \in Nat /\ snap <= head /\ head <= MaxHead /\ MaxHead \in Nat
    BY HeadBound DEF IInv, RestI
  <1>3. CASE Top.n = MaxHead
    BY <1>2, <1>3
  <1>4. CASE Caller.op = "process" /\ Caller.pc = "delivered" /\ Top.n = Caller.n - 1
    <2>1. Caller.n = head /\ snap < head
      BY <1>1, <1>4 DEF Fits, ProcessFits
    <2> QED BY <2>1, <1>2, <1>4
  <1> QED BY <1>1, <1>3, <1>4 DEF Delivers

\* The delivery returns to the call that made it.
LEMMA ReturnShape ==
    ASSUME IInv, Running("deliver"), NEW result \in {"ok", "err"}, stack' = Returns(result),
           NEW r, r = [Caller EXCEPT !.ret = result]
    PROVE  /\ Structured(stack') /\ NotWaiting' /\ r \in Call
           /\ \A role, c :
                /\ Has(stack, role, c) => Has(stack', role, c)
                      \/ (role \in {"about", "feeding"} /\ c = Top.c)
                /\ Has(stack', role, c) => Has(stack, role, c)
                /\ Plays(Caller, role, c) => Has(stack', role, c)
           /\ Fits(r, p[r.c], head, snap, Broke) => FitAll(stack', p, head, snap, Broke)
  <1> DEFINE U == Under(stack)
             V == Under(U)
             n == Len(U)
  <1>1. stack # <<>> /\ Top.op = "deliver" /\ Below = U /\ Top = stack[Len(stack)]
    BY TopIs DEF Running, Top
  <1>2. Structured(stack) /\ stack \in Seq(Call)
    BY DEF IInv, Structured
  <1>3. /\ U # <<>> /\ Structured(U) /\ U \in Seq(Call)
        /\ Caller \in Call /\ Delivers(Caller, Top) /\ Caller.op \in {"join", "process"}
        /\ FitAll(U, p, head, snap, Broke)
    BY CallerIs
  <1>4. Caller = U[n]
    BY DEF Caller
  <1>5. n = Len(stack) - 1 /\ n \in Nat \ {0} /\ n \in 1..n
    <2>1. Len(Under(stack)) = Len(stack) - 1
      BY <1>1, <1>2, UnderIs
    <2> HIDE DEF U
    <2>2. Len(U) \in Nat \ {0} /\ Len(U) \in 1..Len(U)
      BY <1>3, UnderIs
    <2> QED BY <2>1, <2>2 DEF U
  <1>6. /\ r \in Call /\ r.op = Caller.op /\ r.c = Caller.c /\ r.pc = Caller.pc /\ r.n = Caller.n
        /\ r.item = Caller.item /\ r.seen = Caller.seen /\ r.ret = result
    BY <1>3 DEF Call
  <1>7. stack' = [U EXCEPT ![n] = r]
    <2>1. stack' = [Below EXCEPT ![Len(stack) - 1].ret = result]
      BY Zenon DEF Returns
    <2>2. stack' = [U EXCEPT ![n].ret = result]
      BY <2>1, <1>1, <1>5, Zenon
    <2> HIDE DEF U, n
    <2> QED BY <2>2, <1>3, <1>4, <1>5
  <1> HIDE DEF U
  <1>8. /\ V \in Seq(Call) /\ Len(V) = n - 1 /\ \A k \in 1..n - 1 : V[k] = U[k]
    BY <1>3, UnderIs
  <1> HIDE DEF V
  <1>9. stack' = Append(V, r)
    <2> DEFINE W == Append(V, r)
    <2>1. W \in Seq(Call) /\ Len(W) = n /\ W[n] = r /\ \A k \in 1..n - 1 : W[k] = V[k]
      <3>1. W \in Seq(Call) /\ Len(W) = Len(V) + 1 /\ W[Len(V) + 1] = r /\ \A k \in 1..Len(V) : W[k] = V[k]
        BY <1>6, <1>8, AppendIs
      <3> HIDE DEF W
      <3> QED BY <3>1, <1>5, <1>8
    <2> HIDE DEF W
    <2>2. stack' \in Seq(Call) /\ Len(stack') = n /\ stack'[n] = r /\ \A k \in 1..n - 1 : stack'[k] = U[k]
      <3> DEFINE X == [U EXCEPT ![n] = r]
      <3>1. /\ X \in Seq(Call) /\ Len(X) = Len(U)
            /\ \A k \in 1..Len(U) : X[k] = IF k = n THEN r ELSE U[k]
        BY <1>3, <1>5, <1>6, ExceptSeq
      <3> HIDE DEF X
      <3>2. stack' = X
        BY <1>7 DEF X
      <3> QED BY <3>1, <3>2, <1>5
    <2>3. \A k \in 1..Len(W) : W[k] = stack'[k]
      <3> TAKE k \in 1..Len(W)
      <3>1. k = n \/ k \in 1..n - 1
        BY <2>1, <1>5
      <3> QED BY <3>1, <2>1, <2>2, <1>8
    <2>4. W = stack'
      BY <2>1, <2>2, <2>3, SeqEqual
    <2> QED BY <2>4 DEF W
  <1>10. Structured(V) /\ MayPush(V, r)
    BY <1>3, <1>4, <1>6, TopMayStay DEF V
  <1>11. Structured(stack')
    BY <1>9, <1>10, PushKeeps
  <1>12. stack' # <<>> /\ stack'[Len(stack')] = r
    BY <1>6, <1>8, <1>9, AppendIs
  <1>13. NotWaiting'
    BY <1>3, <1>6, <1>12 DEF NotWaiting, Ready, Waiting, Delivers
  <1>14. ASSUME NEW role, NEW c
         PROVE  /\ Has(stack, role, c) <=> Has(V, role, c) \/ Plays(Caller, role, c) \/ Plays(Top, role, c)
                /\ Has(stack', role, c) <=> Has(V, role, c) \/ Plays(Caller, role, c)
                /\ Plays(Top, role, c) <=> role \in {"about", "feeding"} /\ c = Top.c
    <2>1. Has(stack, role, c) <=> Has(U, role, c) \/ Plays(Top, role, c)
      BY <1>1, <1>2, HasUnder DEF U
    <2>2. Has(U, role, c) <=> Has(V, role, c) \/ Plays(Caller, role, c)
      BY <1>3, <1>4, HasUnder DEF V
    <2>3. Has(stack', role, c) <=> Has(V, role, c) \/ Plays(r, role, c)
      BY <1>6, <1>8, <1>9, HasAppend
    <2>4. Plays(r, role, c) <=> Plays(Caller, role, c)
      BY <1>6 DEF Plays, About, Active, WillAppend, Acking, Unanswered, Entering, Admitting, Feeding
    <2>5. Plays(Top, role, c) <=> role \in {"about", "feeding"} /\ c = Top.c
      BY <1>1 DEF Plays, About, Active, WillAppend, Acking, Unanswered, Entering, Admitting, Feeding
    <2> QED BY <2>1, <2>2, <2>3, <2>4, <2>5
  <1>15. ASSUME NEW role, NEW c
         PROVE  /\ Has(stack, role, c) => Has(stack', role, c)
                      \/ (role \in {"about", "feeding"} /\ c = Top.c)
                /\ Has(stack', role, c) => Has(stack, role, c)
                /\ Plays(Caller, role, c) => Has(stack', role, c)
    BY <1>14
  <1>16. ASSUME Fits(r, p[r.c], head, snap, Broke)
         PROVE  FitAll(stack', p, head, snap, Broke)
    <2>1. FitAll(V, p, head, snap, Broke)
      BY <1>3, FitUnder DEF V
    <2>2. r \in Call /\ V \in Seq(Call)
      BY <1>6, <1>8
    <2>3. FitAll(Append(V, r), p, head, snap, Broke)
      BY <2>1, <2>2, <1>16, FitAppend
    <2> QED BY <2>3, <1>9
  <1> QED BY <1>6, <1>11, <1>13, <1>15, <1>16

LEMMA DeliverReturns ==
    ASSUME IInv, Running("deliver"), NEW result \in {"ok", "err"}, stack' = Returns(result),
           UNCHANGED <<lifetime, moved, log, p, messages, failures>>,
           result = "ok" => p[Top.c].cursor >= head \/ p[Top.c].cursor >= Top.n,
           result = "err" => Broke
    PROVE  IInv'
  <1> DEFINE r == [Caller EXCEPT !.ret = result]
             x == p[Top.c]
  <1>1. /\ Caller \in Call /\ Delivers(Caller, Top) /\ Fits(Caller, p[Caller.c], head, snap, Broke)
        /\ Caller.op \in {"join", "process"}
    BY CallerIs
  <1>2. Top \in Call /\ Top.c \in Peers /\ RestI /\ TypeI
    BY TopIs DEF Running, Who, IInv, RestI
  <1>3. head \in Nat /\ snap \in Nat /\ snap <= head /\ head <= MaxHead /\ MaxHead \in Nat
    BY <1>2, HeadBound
  <1>4. x.cursor \in Nat /\ x.cursor <= head /\ x = p[Top.c]
    BY <1>2, <1>3 DEF RestI, TypeI, Peer, PositionsI, PositionFits
  <1>5. /\ r \in Call /\ r.op = Caller.op /\ r.c = Caller.c /\ r.pc = Caller.pc /\ r.n = Caller.n
        /\ r.item = Caller.item /\ r.seen = Caller.seen /\ r.ret = result
    BY <1>1 DEF Call
  <1> HIDE DEF r, x
  <1>6. result = "ok" /\ Top.n = MaxHead => x.cursor = head
    BY <1>3, <1>4
  <1>7. Fits(r, p[r.c], head, snap, Broke)
    <2>1. CASE Caller.op = "join"
      <3>1. Top.n = MaxHead /\ Caller.pc = "delivered" /\ Caller.c = Top.c
        BY <1>1, <2>1 DEF Delivers
      <3> QED BY <3>1, <2>1, <1>4, <1>5, <1>6 DEF Fits, JoinFits, DeliverFits, ProcessFits
    <2>2. CASE Caller.op = "process" /\ Caller.pc = "relay"
      BY <2>2, <1>1, <1>5 DEF Fits, JoinFits, DeliverFits, ProcessFits
    <2>3. CASE Caller.op = "process" /\ Caller.pc = "delivered"
      <3>1. Caller.c = Top.c /\ Top.n = Caller.n - 1
        BY <1>1, <2>3 DEF Delivers
      <3>2. /\ Caller.item[1] \in Kinds /\ Caller.item[1] = "push" /\ Caller.seen = {}
            /\ Caller.n = head /\ snap < head /\ (x.unacked = TRUE \/ x.pos < head)
        BY <3>1, <2>3, <1>1, <1>4 DEF Fits, ProcessFits
      <3>3. result = "ok" => head - 1 <= x.cursor
        BY <3>1, <3>2, <1>3, <1>4
      <3>4. p[r.c] = x
        BY <3>1, <1>4, <1>5
      <3>5. ProcessFits(r, x, head, snap, Broke)
        BY <3>2, <3>3, <2>3, <1>5 DEF ProcessFits
      <3>6. JoinFits(r, x, head) /\ DeliverFits(r, x, head, Broke)
        BY <2>3, <1>5 DEF JoinFits, DeliverFits
      <3> QED BY <3>4, <3>5, <3>6 DEF Fits
    <2> QED BY <2>1, <2>2, <2>3, <1>1 DEF Delivers
  <1>8. /\ Structured(stack') /\ NotWaiting'
        /\ \A role, c :
             /\ Has(stack, role, c) => Has(stack', role, c)
                   \/ (role \in {"about", "feeding"} /\ c = Top.c)
             /\ Has(stack', role, c) => Has(stack, role, c)
             /\ Plays(Caller, role, c) => Has(stack', role, c)
        /\ FitAll(stack', p, head, snap, Broke)
    BY <1>7, ReturnShape DEF r
  <1>9. Has(stack', "feeding", Top.c) \/ p[Top.c].cursor = head \/ failures > 0 \/ Top.c \notin members
    <2>1. CASE result = "err"
      BY <2>1, <1>2 DEF Broke, RestI, OverI
    <2>2. CASE result = "ok" /\ Top.n = MaxHead
      BY <2>2, <1>4, <1>6
    <2>3. CASE Caller.op = "process" /\ Caller.pc = "delivered"
      BY <2>3, <1>8 DEF Plays, Feeding
    <2> QED BY <2>1, <2>2, <2>3, <1>1 DEF Delivers
  <1>10. RolesKept
    BY <1>8, <1>9 DEF RolesKept, lifetime
  <1>11. RestI'
    <2>1. /\ PeersKept /\ LifeKept /\ UNCHANGED <<head, snap, messages, failures>>
          /\ failures' \in Nat /\ failures <= failures' /\ moved' \in BOOLEAN
      BY <1>2, PeersSame, LifeSame DEF TypeI, log
    <2> QED BY <2>1, <1>2, <1>10, SoftStep
  <1>12. CallsFit'
    BY <1>8 DEF CallsFit, Broke, lifetime, log
  <1> QED BY <1>8, <1>11, <1>12 DEF IInv, RestI

LEMMA DeliverFails ==
    ASSUME IInv, Running("deliver"), FailedTo(Goes("failed")), UNCHANGED <<moved, log, messages>>
    PROVE  IInv'
  <1> DEFINE r == At(Top, "failed")
  <1>1. stack # <<>> /\ Top.op = "deliver"
    BY DEF Running
  <1>2. Top \in Call /\ "failed" \in Pcs /\ Goes("failed") = Append(Under(stack), r)
    BY <1>1, TopIs, GoesIs DEF Pcs
  <1>3. /\ r \in Call /\ r.op = "deliver" /\ r.c = Top.c /\ r.pc = "failed" /\ r.n = Top.n
        /\ r.item = Top.item
    BY <1>1, <1>2, AtIs
  <1> HIDE DEF r
  <1>4. TopKept(Top, r)
    BY <1>1, <1>3 DEF TopKept, Plays, About, Active, WillAppend, Acking, Unanswered, Entering, Admitting, Feeding
  <1>5. ~Waiting(r) /\ ~Entering(r, r.c) /\ Fits(r, p[r.c], head, snap, TRUE)
    BY <1>3 DEF Waiting, Entering, Fits, JoinFits, DeliverFits, ProcessFits
  <1>6. UNCHANGED <<moved, head, snap, messages>>
    BY DEF log
  <1> QED BY <1>1, <1>2, <1>3, <1>4, <1>5, <1>6, FailStep

\* A delivery that goes on as r, while nothing else changes.
LEMMA DeliverGoes ==
    ASSUME IInv, Running("deliver"), NEW r \in Call, r.op = "deliver", r.c = Top.c, r.n = Top.n,
           stack' = Append(Under(stack), r),
           UNCHANGED <<lifetime, moved, log, p, messages, failures>>,
           r.item[2] = Top.item[2] \/ r.item[2] <= Top.n,
           Fits(r, p[r.c], head, snap, Broke)
    PROVE  IInv'
  <1>1. stack # <<>> /\ Top.op = "deliver" /\ Top \in Call /\ TypeI
    BY TopIs DEF Running, IInv
  <1>2. ~Waiting(r) /\ GoesOn(r)
    BY DEF Waiting, GoesOn
  <1>3. ItemBelow(Top, r)
    <2>1. r.item[2] \in Nat /\ Top.n \in Nat
      BY <1>1, ConstantsAre DEF Call, Items
    <2> SUFFICES ASSUME NEW a \in Call, a.op = "process", a.pc = "delivered", a.c = r.c, Delivers(a, Top)
                 PROVE  r.item[2] < a.n
      BY DEF ItemBelow
    <2>2. a.n \in Nat
      BY ConstantsAre DEF Call
    <2>3. Top.n = a.n - 1 /\ Top.item[2] < a.n
      BY DEF Delivers
    <2> QED BY <2>1, <2>2, <2>3
  <1>4. RolesGo(Top, r)
    BY <1>1 DEF RolesGo, Plays, About, Active, WillAppend, Acking, Unanswered, Entering, Admitting, Feeding
  <1>5. PeersKept /\ LifeKept /\ UNCHANGED <<head, snap, messages, failures>> /\ moved' \in BOOLEAN
    BY <1>1, PeersSame, LifeSame DEF log, TypeI
  <1> QED BY <1>1, <1>2, <1>3, <1>4, <1>5, GoStep

\* What a delivery does to its connection suits the calls below it.
LEMMA UnderFits ==
    ASSUME IInv, Running("deliver"), NEW y, p' = [p EXCEPT ![Top.c] = y],
           p[Top.c].cursor < head, y.unacked = p[Top.c].unacked,
           p[Top.c].cursor <= y.cursor, y.cursor \in Nat,
           y.pos = p[Top.c].pos \/ y.pos = Top.item[2]
    PROVE  FitAll(Under(stack), p', head, snap, Broke)
  <1> DEFINE U == Under(stack)
             c == Top.c
             x == p[c]
  <1>1. /\ Structured(U) /\ Delivers(Caller, Top) /\ Caller \in Call
        /\ FitAll(U, p, head, snap, Broke)
        /\ \A k \in 1..Len(U) : U[k].c = c =>
                 /\ U[k].op # "deliver"
                 /\ U[k].op = "process" => k = Len(U) /\ U[k].pc = "delivered"
        /\ Caller = U[Len(U)]
    BY CallerIs DEF Caller
  <1>2. Top \in Call /\ c \in Peers /\ RestI /\ p \in [Peers -> Peer]
    BY TopIs DEF Running, Who, IInv, RestI, TypeI
  <1>3. p'[c] = y /\ \A d \in Peers \ {c} : p'[d] = p[d]
    BY <1>2
  <1>4. head \in Nat /\ x.cursor \in Nat /\ x.pos \in Nat
    BY <1>2, HeadBound DEF Peer
  <1> HIDE DEF U
  <1> SUFFICES ASSUME NEW k \in 1..Len(U)
               PROVE  Fits(U[k], p'[U[k].c], head, snap, Broke)
    BY DEF FitAll, U
  <1>5. Fits(U[k], p[U[k].c], head, snap, Broke)
    BY <1>1 DEF FitAll
  <1>6. U[k].op \in {"join", "deliver", "process"} => U[k].c \in Peers
    BY <1>1 DEF Structured
  <1>7. CASE U[k].op \notin {"join", "deliver", "process"}
    BY <1>7, FitsOther
  <1>8. CASE U[k].op \in {"join", "deliver", "process"} /\ U[k].c # c
    BY <1>3, <1>5, <1>6, <1>8
  <1>9. CASE U[k].op = "join" /\ U[k].c = c
    <2>1. JoinFits(U[k], x, head) /\ x.cursor # head
      BY <1>4, <1>5, <1>9 DEF Fits
    <2>2. JoinFits(U[k], y, head)
      BY <2>1 DEF JoinFits
    <2> QED BY <2>2, <1>3, <1>9 DEF Fits, DeliverFits, ProcessFits
  <1>10. CASE U[k].op = "process" /\ U[k].c = c
    <2>1. U[k] = Caller /\ U[k].pc = "delivered"
      BY <1>1, <1>10
    <2>2. ProcessFits(U[k], x, head, snap, Broke)
      BY <1>5, <1>10 DEF Fits
    <2>3. Top.item[2] < U[k].n /\ U[k].n = head
      BY <2>1, <2>2, <1>1, <1>10 DEF Delivers, ProcessFits
    <2>4. x.unacked = TRUE \/ y.pos < head
      BY <2>1, <2>2, <2>3, <1>10 DEF ProcessFits
    <2>5. U[k].ret = "ok" => head - 1 <= y.cursor
      <3>1. U[k].ret = "ok" => head - 1 <= x.cursor
        BY <2>1, <2>2, <1>10 DEF ProcessFits
      <3> QED BY <3>1, <1>4
    <2>6. ProcessFits(U[k], y, head, snap, Broke)
      BY <2>1, <2>2, <2>4, <2>5 DEF ProcessFits
    <2> QED BY <2>6, <1>3, <1>10 DEF Fits, JoinFits, DeliverFits
  <1> QED BY <1>1, <1>7, <1>8, <1>9, <1>10

\* No ack to c is being sent during a delivery to it.
LEMMA NoAcking ==
    ASSUME IInv, Running("deliver")
    PROVE  ~Has(stack, "acking", Top.c)
  <1> DEFINE U == Under(stack)
  <1>1. \A k \in 1..Len(U) : U[k].c = Top.c => (U[k].op = "process" => U[k].pc = "delivered")
    BY CallerIs
  <1>2. stack # <<>> /\ Top.op = "deliver" /\ stack \in Seq(Call) /\ Top = stack[Len(stack)]
    BY DEF Running, IInv, Structured, Top
  <1>3. Has(stack, "acking", Top.c) <=> Has(U, "acking", Top.c) \/ Plays(Top, "acking", Top.c)
    BY <1>2, HasUnder
  <1>4. ~Plays(Top, "acking", Top.c)
    BY <1>2 DEF Plays, Acking
  <1> HIDE DEF U
  <1>5. ~Has(U, "acking", Top.c)
    BY <1>1 DEF Has, Plays, Acking
  <1> QED BY <1>3, <1>4, <1>5

\* A delivery that goes on as r, with its connection as y.
LEMMA DeliverData ==
    ASSUME IInv, Running("deliver"), NEW r \in Call, r.op = "deliver", r.c = Top.c, r.n = Top.n,
           r.item = Top.item, GoesOn(r),
           NEW y \in Peer, p' = [p EXCEPT ![Top.c] = y],
           UNCHANGED <<lifetime, moved, log, messages, failures>>,
           y.joined = p[Top.c].joined, y.told = p[Top.c].told, y.late = FALSE,
           y.owed = p[Top.c].owed, y.unacked = p[Top.c].unacked,
           p[Top.c].cursor < head, p[Top.c].cursor <= y.cursor,
           y.pos = p[Top.c].pos \/ y.pos = Top.item[2],
           PositionFits(y, head, FALSE), Fits(r, y, head, snap, Broke)
    PROVE  IInv'
  <1> DEFINE c == Top.c
  <1>1. stack # <<>> /\ Top.op = "deliver" /\ Top \in Call /\ c \in Peers /\ RestI /\ TypeI
    BY TopIs DEF Running, Who, IInv, RestI
  <1>2. ~Waiting(r) /\ ItemBelow(Top, r)
    BY DEF Waiting, ItemBelow, Delivers
  <1>3. /\ Structured(stack') /\ NotWaiting'
        /\ \A role, d :
             /\ Has(stack, role, d) <=> Has(Under(stack), role, d) \/ Plays(Top, role, d)
             /\ Has(stack', role, d) <=> Has(Under(stack), role, d) \/ Plays(r, role, d)
        /\ \A x, hd, sn, b :
             FitAll(Under(stack), x, hd, sn, b) /\ Fits(r, x[r.c], hd, sn, b)
             => FitAll(stack', x, hd, sn, b)
    BY <1>1, <1>2, GoShape
  <1>4. \A role, d : Plays(r, role, d) <=> Plays(Top, role, d)
    BY <1>1 DEF Plays, About, Active, WillAppend, Acking, Unanswered, Entering, Admitting, Feeding
  <1>5. \A role, d : Has(stack', role, d) <=> Has(stack, role, d)
    BY <1>3, <1>4
  <1>6. CallsFit'
    <2>1. y.cursor \in Nat
      BY ConstantsAre DEF Peer
    <2>2. FitAll(Under(stack), p', head, snap, Broke)
      BY <2>1, UnderFits
    <2>3. p'[r.c] = y
      BY <1>1 DEF TypeI
    <2>4. Fits(r, p'[r.c], head, snap, Broke)
      BY <2>3
    <2>5. FitAll(stack', p', head, snap, Broke)
      BY <1>3, <2>2, <2>4
    <2> QED BY <2>5 DEF CallsFit, Broke, lifetime, log
  <1>7. RestI'
    <2>1. PositionFits(y, head, Has(stack', "acking", c))
      BY DEF PositionFits
    <2>2. OwedFits(p[c], y, c)
      BY <1>5 DEF OwedFits
    <2>3. p[c].cursor # head
      BY <1>1 DEF TypeI, Peer
    <2>4. UNCHANGED <<lifetime, moved, head, snap, messages, failures>>
      BY DEF log
    <2> QED BY <1>1, <1>5, <2>1, <2>2, <2>3, <2>4, DataStep
  <1> QED BY <1>3, <1>6, <1>7 DEF IInv, RestI

\* The chunk i of a payload follows what the peer x has, and makes it y.
Follows(x, kind, pos, i) == i = 1 \/ x.part = <<kind, pos, i - 1>>

Advances(x, y, kind, pos, i) ==
    /\ y \in Peer /\ y.part = <<kind, pos, i>> /\ y.late = FALSE
    /\ y.joined = x.joined /\ y.told = x.told /\ y.owed = x.owed
    /\ y.unacked = x.unacked /\ y.cursor = x.cursor
    /\ y.pos = x.pos \/ y.pos = pos
    /\ x.pos <= y.pos
    /\ y.gap = TRUE => x.gap = TRUE \/ (kind = "entry" /\ pos > x.pos + 1)
    /\ i = Chunks /\ (kind = "snapshot" \/ pos <= x.pos + 1) => pos <= y.pos

\* What a peer that was not told of its retirement makes of a frame of history.
LEMMA ChunkIs ==
    ASSUME NEW x \in Peer, x.late = FALSE, x.told # "retired",
           NEW kind \in {"entry", "snapshot"}, NEW pos \in 0..MaxHead, NEW i \in 1..Chunks,
           Follows(x, kind, pos, i), NEW y, y = Got(x, Frame(kind, pos, i))
    PROVE  Advances(x, y, kind, pos, i)
  <1> DEFINE f == Frame(kind, pos, i)
             seen == [x EXCEPT !.late = @ \/ (x.told = "retired" /\ f.kind # "retired")]
             follows == f.chunk = 1 \/ seen.part = <<f.kind, f.pos, f.chunk - 1>>
             whole == f.chunk = Chunks
             fits == f.kind = "snapshot" \/ f.pos <= seen.pos + 1
             gap == seen.gap \/ ~follows \/ (whole /\ ~fits)
             new == IF whole /\ follows /\ fits /\ f.pos > seen.pos THEN f.pos ELSE seen.pos
  <1>1. f.kind = kind /\ f.pos = pos /\ f.chunk = i
    BY DEF Frame
  <1>2. seen = x
    <2>1. (x.late \/ (x.told = "retired" /\ f.kind # "retired")) = FALSE
      OBVIOUS
    <2> QED BY <2>1 DEF Peer
  <1>3. y = GotChunk(seen, f)
    BY <1>1 DEF Got
  <1>4. y = [seen EXCEPT !.part = <<f.kind, f.pos, f.chunk>>, !.gap = gap, !.pos = new]
    BY <1>3, <1>2 DEF GotChunk, Peer
  <1>5. follows = TRUE
    BY <1>1, <1>2 DEF Follows
  <1>6. x.pos \in 0..MaxHead /\ MaxHead \in Nat /\ Chunks \in Nat
    BY ConstantsAre DEF Peer
  <1>7. new \in 0..MaxHead /\ (new = x.pos \/ new = pos) /\ x.pos <= new
    BY <1>1, <1>2, <1>6
  <1>8. gap \in BOOLEAN /\ (gap = TRUE => x.gap = TRUE \/ (kind = "entry" /\ pos > x.pos + 1))
    BY <1>1, <1>2, <1>5, <1>6 DEF Peer
  <1>9. i = Chunks /\ (kind = "snapshot" \/ pos <= x.pos + 1) => pos <= new
    BY <1>1, <1>2, <1>5, <1>6
  <1>10. <<kind, pos, i>> \in {"none", "entry", "snapshot"} \X (0..MaxHead) \X (0..Chunks)
    BY <1>6
  <1>11. y = [x EXCEPT !.part = <<kind, pos, i>>, !.gap = gap, !.pos = new]
    BY <1>1, <1>2, <1>4
  <1> HIDE DEF gap, new
  <1> QED BY <1>7, <1>8, <1>9, <1>10, <1>11 DEF Peer, Advances

LEMMA DeliverChunk ==
    ASSUME IInv, Running("deliver"), Top.pc = "chunk", UNCHANGED <<moved, log, messages>>,
           Passed(Append(Goes("sent"), Rec("peer", Top.c)),
                  Sent(Top.c, Frame(Top.item[1], Top.item[2], Top.item[3])))
    PROVE  IInv'
  <1> DEFINE c == Top.c
             x == p[c]
             i == Top.item
             y == Got(x, Frame(i[1], i[2], i[3]))
             r == At(Top, "sent")
  <1>1. /\ stack # <<>> /\ Top.op = "deliver" /\ Top \in Call /\ c \in Peers /\ RestI /\ TypeI
        /\ Fits(Top, x, head, snap, Broke)
    BY TopIs DEF Running, Who, IInv, RestI
  <1>2. "sent" \in Pcs /\ Goes("sent") = Append(Under(stack), r)
    BY <1>1, GoesIs DEF Pcs
  <1>3. r \in Call /\ r.op = "deliver" /\ r.c = c /\ r.pc = "sent" /\ r.n = Top.n /\ r.item = i
    BY <1>1, <1>2, AtIs
  <1>4. /\ stack' = Append(Append(Under(stack), r), Rec("peer", c)) /\ up = TRUE
        /\ p' = [p EXCEPT ![c] = y] /\ UNCHANGED <<lifetime, moved, log, messages, failures>>
    BY <1>1, <1>2 DEF Passed, Sent, TypeI
  <1>5. x \in Peer /\ x.late = FALSE /\ x.told # "retired"
    BY <1>1, <1>4 DEF RestI, TypeI, NothingAfterRetired, OverI, Peer
  <1>6. head \in Nat /\ head <= MaxHead /\ x.cursor \in Nat /\ x.pos \in Nat
    BY <1>1, <1>5, HeadBound DEF Peer
  <1>7. /\ i[1] \in {"entry", "snapshot"} /\ i[3] \in 1..Chunks
        /\ i[2] <= head /\ x.cursor < i[2]
        /\ i[1] = "entry" => i[2] = x.cursor + 1
        /\ i[3] = 1 \/ x.part = <<i[1], i[2], i[3] - 1>>
    BY <1>1 DEF Fits, DeliverFits
  <1>8. i[2] \in 0..MaxHead /\ i = <<i[1], i[2], i[3]>>
    BY <1>1 DEF Call, Items
  <1>9. /\ x.cursor <= head /\ x.pos <= head /\ (x.unacked = TRUE \/ x.cursor <= x.pos)
        /\ x.gap = TRUE => x.unacked = TRUE
    BY <1>1, NoAcking DEF RestI, PositionsI, PositionFits
  <1> HIDE DEF i, y, r, x
  <1>10. Advances(x, y, i[1], i[2], i[3])
    <2>1. Follows(x, i[1], i[2], i[3])
      BY <1>7 DEF Follows
    <2>2. y = Got(x, Frame(i[1], i[2], i[3]))
      BY DEF y
    <2> QED BY <1>5, <1>7, <1>8, <2>1, <2>2, ChunkIs
  <1>11. i[2] \in Nat /\ y.pos \in Nat
    BY <1>8, <1>10, ConstantsAre DEF Peer, Advances
  <1>12. x.unacked = TRUE \/ i[1] = "snapshot" \/ i[2] <= x.pos + 1
    BY <1>6, <1>7, <1>9, <1>11
  <1>13. y.gap = TRUE => y.unacked = TRUE
    BY <1>6, <1>7, <1>9, <1>10, <1>11, <1>12 DEF Advances
  <1>14. PositionFits(y, head, FALSE)
    BY <1>6, <1>7, <1>9, <1>10, <1>11, <1>13 DEF PositionFits, Advances
  <1>15. Fits(r, y, head, snap, Broke)
    <2>1. y.part = i /\ (i[3] = Chunks => y.unacked = TRUE \/ i[2] <= y.pos)
      BY <1>8, <1>10, <1>12 DEF Advances
    <2> QED BY <2>1, <1>3, <1>7, <1>10 DEF Advances, Fits, JoinFits, DeliverFits, ProcessFits
  <1>16. GoesOn(r)
    <2>1. ~Entering(r, r.c)
      BY <1>3 DEF Entering
    <2> QED BY <2>1, <1>1, <1>4 DEF GoesOn
  <1>17. x.cursor < head /\ x.cursor <= y.cursor
    BY <1>6, <1>7, <1>10, <1>11 DEF Advances
  <1> QED BY <1>3, <1>4, <1>10, <1>14, <1>15, <1>16, <1>17, DeliverData DEF x, i, Advances

\* The last chunk was sent: the hub's cursor follows.
LEMMA DeliverSent ==
    ASSUME IInv, Running("deliver"), Top.pc = "sent", UNCHANGED <<moved, log, messages>>,
           ~(Top.item[3] < Chunks),
           Passed(Goes("next"), [p EXCEPT ![Top.c].cursor = Top.item[2]])
    PROVE  IInv'
  <1> DEFINE c == Top.c
             x == p[c]
             i == Top.item
             y == [x EXCEPT !.cursor = i[2]]
             r == At(Top, "next")
  <1>1. /\ stack # <<>> /\ Top.op = "deliver" /\ Top \in Call /\ c \in Peers /\ RestI /\ TypeI
        /\ Fits(Top, x, head, snap, Broke)
    BY TopIs DEF Running, Who, IInv, RestI
  <1>2. "next" \in Pcs /\ Goes("next") = Append(Under(stack), r)
    BY <1>1, GoesIs DEF Pcs
  <1>3. r \in Call /\ r.op = "deliver" /\ r.c = c /\ r.pc = "next" /\ r.n = Top.n /\ r.item = i
    BY <1>1, <1>2, AtIs
  <1>4. /\ stack' = Append(Under(stack), r)
        /\ p' = [p EXCEPT ![c] = y] /\ UNCHANGED <<lifetime, moved, log, messages, failures>>
    BY <1>1, <1>2 DEF Passed, TypeI
  <1>5. x \in Peer /\ x.late = FALSE
    BY <1>1 DEF RestI, TypeI, NothingAfterRetired, Peer
  <1>6. head \in Nat /\ head <= MaxHead /\ x.cursor \in Nat /\ x.pos \in Nat
    BY <1>1, <1>5, HeadBound DEF Peer
  <1>7. /\ i[3] \in 1..Chunks /\ i[2] <= head /\ x.cursor < i[2]
        /\ i[3] = Chunks => x.unacked = TRUE \/ i[2] <= x.pos
    BY <1>1 DEF Fits, DeliverFits
  <1>8. i[2] \in 0..MaxHead /\ i[2] \in Nat /\ i[3] = Chunks
    BY <1>1, <1>7, ConstantsAre DEF Call, Items
  <1>9. x.pos <= head /\ (x.gap = TRUE => x.unacked = TRUE)
    BY <1>1 DEF RestI, PositionsI, PositionFits
  <1>10. /\ y \in Peer /\ y.late = FALSE /\ y.joined = x.joined /\ y.told = x.told
         /\ y.owed = x.owed /\ y.unacked = x.unacked /\ y.cursor = i[2] /\ y.pos = x.pos /\ y.gap = x.gap
    BY <1>5, <1>8 DEF Peer
  <1> HIDE DEF i, y, r, x
  <1>11. PositionFits(y, head, FALSE)
    BY <1>7, <1>8, <1>9, <1>10 DEF PositionFits
  <1>12. Fits(r, y, head, snap, Broke)
    BY <1>3 DEF Fits, JoinFits, DeliverFits, ProcessFits
  <1>13. x.cursor < head /\ x.cursor <= y.cursor /\ GoesOn(r)
    BY <1>4, <1>6, <1>7, <1>8, <1>10 DEF GoesOn
  <1> QED BY <1>3, <1>4, <1>10, <1>11, <1>12, <1>13, DeliverData DEF x, i

LEMMA DeliverKeeps ==
    ASSUME IInv, DeliverStep
    PROVE  IInv'
  <1> DEFINE c == Top.c
             i == Top.item
             Chunk(e) == [Top EXCEPT !.pc = "chunk", !.item = e]
  <1>1. Running("deliver") /\ stack # <<>> /\ Top.op = "deliver" /\ UNCHANGED <<moved, log, messages>>
    BY DEF DeliverStep, Running
  <1>2. /\ Top \in Call /\ c \in Peers /\ Below = Under(stack) /\ RestI /\ TypeI /\ OverI
        /\ Fits(Top, p[c], head, snap, Broke)
    BY <1>1, TopIs DEF IInv, Who, RestI
  <1>3. \A pc : Goes(pc) = Append(Under(stack), At(Top, pc))
    BY <1>1, GoesIs
  <1>4. snap <= Top.n /\ Top.n \in Nat
    BY <1>1, CeilingIs
  <1>5. /\ head \in Nat /\ snap \in Nat /\ snap <= head /\ head <= MaxHead /\ MaxHead \in Nat
        /\ p[c].cursor \in Nat /\ Chunks \in Nat \ {0}
    BY <1>2, HeadBound, ConstantsAre DEF TypeI, Peer
  <1>6. ASSUME NEW pc \in {"snapshot", "next"}, stack' = Goes(pc), UNCHANGED <<lifetime, p, failures>>
        PROVE  IInv'
    <2> DEFINE r == At(Top, pc)
    <2>1. pc \in Pcs /\ stack' = Append(Under(stack), r)
      BY <1>3, <1>6 DEF Pcs
    <2>2. r \in Call /\ r.op = "deliver" /\ r.c = c /\ r.pc = pc /\ r.n = Top.n /\ r.item = i
      BY <1>1, <1>2, <2>1, AtIs
    <2> HIDE DEF r
    <2>3. Fits(r, p[r.c], head, snap, Broke)
      BY <1>6, <2>2 DEF Fits, JoinFits, DeliverFits, ProcessFits
    <2> QED BY <1>1, <1>6, <2>1, <2>2, <2>3, DeliverGoes
  <1>7. ASSUME NEW e \in Items, stack' = Append(Below, Chunk(e)), UNCHANGED <<lifetime, p, failures>>,
               e[2] = i[2] \/ e[2] <= Top.n,
               /\ e[1] \in {"entry", "snapshot"} /\ e[3] \in 1..Chunks
               /\ e[2] <= head /\ p[c].cursor < e[2]
               /\ e[1] = "entry" => e[2] = p[c].cursor + 1
               /\ e[3] = 1 \/ p[c].part = <<e[1], e[2], e[3] - 1>>
        PROVE  IInv'
    <2> DEFINE r == Chunk(e)
    <2>1. /\ r \in Call /\ r.op = "deliver" /\ r.c = c /\ r.pc = "chunk" /\ r.n = Top.n /\ r.item = e
          /\ stack' = Append(Under(stack), r)
      BY <1>1, <1>2, <1>7 DEF Call, Pcs
    <2> HIDE DEF r
    <2>2. Fits(r, p[r.c], head, snap, Broke)
      BY <1>7, <2>1 DEF Fits, JoinFits, DeliverFits, ProcessFits
    <2> QED BY <1>1, <1>7, <2>1, <2>2, DeliverGoes
  <1>8. CASE Top.pc = "start" /\ Admission(Goes("snapshot"), p, Goes("failed"))
    <2>1. CASE FailedTo(Goes("failed"))
      BY <1>1, <2>1, DeliverFails
    <2>2. CASE Passed(Goes("snapshot"), p)
      BY <2>2, <1>6 DEF Passed
    <2> QED BY <1>2, <1>8, <2>1, <2>2, AdmissionCases
  <1>9. CASE StorageFails(Goes("failed"))
    BY <1>1, <1>2, <1>9, StorageFailsTo, DeliverFails
  <1>10. CASE /\ Top.pc = "snapshot"
              /\ stack' = IF p[c].cursor < snap THEN Append(Below, Chunk(<<"snapshot", snap, 1>>))
                          ELSE Goes("next")
              /\ UNCHANGED <<lifetime, p, failures>>
    <2>1. CASE p[c].cursor < snap
      <3> DEFINE e == <<"snapshot", snap, 1>>
      <3>1. e[1] = "snapshot" /\ e[2] = snap /\ e[3] = 1
        OBVIOUS
      <3>2. e \in Items /\ 1 \in 1..Chunks
        BY <1>5 DEF Items
      <3>3. stack' = Append(Below, Chunk(e))
        BY <2>1, <1>10
      <3> HIDE DEF e, Chunk
      <3> QED BY <3>1, <3>2, <3>3, <2>1, <1>4, <1>5, <1>7, <1>10
    <2>2. CASE ~(p[c].cursor < snap)
      BY <2>2, <1>6, <1>10
    <2> QED BY <2>1, <2>2
  <1>11. CASE /\ Top.pc = "next"
              /\ LET done == p[c].cursor >= head \/ p[c].cursor >= Top.n
                 IN  stack' = IF done THEN Returns("ok")
                              ELSE Append(Below, Chunk(<<"entry", p[c].cursor + 1, 1>>))
              /\ UNCHANGED <<lifetime, p, failures>>
    <2>1. CASE p[c].cursor >= head \/ p[c].cursor >= Top.n
      <3>1. stack' = Returns("ok")
        BY <2>1, <1>11
      <3> QED BY <3>1, <2>1, <1>1, <1>11, DeliverReturns
    <2>2. CASE ~(p[c].cursor >= head \/ p[c].cursor >= Top.n)
      <3> DEFINE e == <<"entry", p[c].cursor + 1, 1>>
      <3>1. e[1] = "entry" /\ e[2] = p[c].cursor + 1 /\ e[3] = 1
        OBVIOUS
      <3>2. e \in Items /\ 1 \in 1..Chunks
        BY <1>5, <2>2 DEF Items
      <3>3. stack' = Append(Below, Chunk(e))
        BY <2>2, <1>11
      <3>4. p[c].cursor + 1 <= Top.n /\ p[c].cursor + 1 <= head /\ p[c].cursor < p[c].cursor + 1
        BY <2>2, <1>4, <1>5
      <3> HIDE DEF e, Chunk
      <3> QED BY <3>1, <3>2, <3>3, <3>4, <1>7, <1>11
    <2> QED BY <2>1, <2>2
  <1>12. CASE Top.pc = "chunk" /\ Send(c, Frame(i[1], i[2], i[3]), "sent", Goes("failed"))
    <2> DEFINE ok == Append(Goes("sent"), Rec("peer", c))
               peers == Sent(c, Frame(i[1], i[2], i[3]))
    <2>1. Admission(ok, peers, Goes("failed"))
      BY <1>12 DEF Send
    <2>2. CASE FailedTo(Goes("failed"))
      BY <1>1, <2>2, DeliverFails
    <2>3. CASE Passed(ok, peers)
      BY <2>3, <1>1, <1>12, DeliverChunk
    <2> HIDE DEF ok, peers
    <2> QED BY <1>2, <2>1, <2>2, <2>3, AdmissionCases
  <1>13. CASE /\ Top.pc = "sent"
              /\ IF i[3] < Chunks
                 THEN Admission(Append(Below, Chunk(<<i[1], i[2], i[3] + 1>>)), p, Goes("failed"))
                 ELSE Admission(Goes("next"), [p EXCEPT ![c].cursor = i[2]], Goes("failed"))
    <2>1. CASE FailedTo(Goes("failed"))
      BY <1>1, <2>1, DeliverFails
    <2>2. CASE i[3] < Chunks
      <3> DEFINE e == <<i[1], i[2], i[3] + 1>>
                 ok == Append(Below, Chunk(e))
      <3>1. Admission(ok, p, Goes("failed"))
        BY <2>2, <1>13
      <3>2. CASE Passed(ok, p)
        <4>1. /\ i[1] \in {"entry", "snapshot"} /\ i[3] \in 1..Chunks
              /\ i[2] <= head /\ p[c].cursor < i[2]
              /\ i[1] = "entry" => i[2] = p[c].cursor + 1
              /\ p[c].part = i
          BY <1>1, <1>2, <1>13 DEF Fits, DeliverFits
        <4>2. i \in Items /\ i = <<i[1], i[2], i[3]>> /\ i[2] \in 0..MaxHead
          BY <1>2 DEF Call, Items
        <4>3. /\ e[1] = i[1] /\ e[2] = i[2] /\ e[3] = i[3] + 1 /\ e[3] - 1 = i[3] /\ e[3] \in 1..Chunks
          BY <4>1, <1>5, <2>2
        <4>4. e \in Items
          BY <4>1, <4>2, <4>3, <1>5 DEF Items
        <4>5. stack' = ok /\ UNCHANGED <<lifetime, p, failures>>
          BY <3>2 DEF Passed
        <4>6. p[c].part = <<e[1], e[2], e[3] - 1>>
          BY <4>1, <4>2, <4>3
        <4> HIDE DEF e, Chunk, i
        <4> QED BY <4>1, <4>3, <4>4, <4>5, <4>6, <1>7
      <3> HIDE DEF ok
      <3> QED BY <1>2, <2>1, <3>1, <3>2, AdmissionCases
    <2>3. CASE ~(i[3] < Chunks)
      <3> DEFINE peers == [p EXCEPT ![c].cursor = i[2]]
      <3>1. Admission(Goes("next"), peers, Goes("failed"))
        BY <2>3, <1>13
      <3>2. CASE Passed(Goes("next"), peers)
        BY <2>3, <3>2, <1>1, <1>13, DeliverSent
      <3> HIDE DEF peers
      <3> QED BY <1>2, <2>1, <3>1, <3>2, AdmissionCases
    <2> QED BY <2>2, <2>3
  <1>14. CASE /\ Top.pc = "failed"
              /\ stack' = Returns("err") /\ UNCHANGED <<lifetime, p, failures>>
    <2>1. Broke
      BY <1>1, <1>2, <1>14 DEF Fits, DeliverFits
    <2> QED BY <2>1, <1>1, <1>14, DeliverReturns
  <1> QED BY <1>8, <1>9, <1>10, <1>11, <1>12, <1>13, <1>14 DEF DeliverStep

-----------------------------------------------------------------------------
(* process() *)

\* What is known while a message is handled: the calls below it, the drain
\* among them, are about no connection that is being fed.
LEMMA ProcessIs ==
    ASSUME IInv, Running("process")
    PROVE  /\ stack # <<>> /\ Top.op = "process" /\ Top \in Call /\ Top.c \in Peers
           /\ Below = Under(stack) /\ RestI /\ TypeI /\ OverI /\ KnownI
           /\ Fits(Top, p[Top.c], head, snap, Broke) /\ ~Waiting(Top)
           /\ \A role \in {"append", "acking", "unanswered", "admitting", "feeding"} : \A c :
                 ~Has(Under(stack), role, c)
           /\ Has(Under(stack), "active", NoPeer)
           /\ \A x, hd, sn, b : FitAll(Under(stack), x, hd, sn, b)
           /\ p[Top.c].joined = TRUE
  <1> DEFINE U == Under(stack)
  <1>1. stack # <<>> /\ Top.op = "process" /\ Structured(stack) /\ stack \in Seq(Call) /\ Top = stack[Len(stack)]
    BY DEF Running, IInv, Structured, Top
  <1>2. /\ Top \in Call /\ Top.c \in Peers /\ Below = U /\ RestI /\ TypeI /\ OverI /\ KnownI
        /\ Fits(Top, p[Top.c], head, snap, Broke) /\ ~Waiting(Top)
    BY <1>1, TopIs DEF Who, IInv, RestI, Ready
  <1>3. /\ U # <<>> /\ U[Len(U)].op = "drain"
        /\ \A k \in 1..Len(U) :
              /\ U[k].op \notin {"process", "deliver"}
              /\ U[k].op = "join" => U[k].pc \in {"start", "refused"}
    BY <1>1, UnderProcess
  <1>4. FitAll(U, p, head, snap, Broke) /\ U \in Seq(Call)
    BY <1>1, FitUnder, UnderIs DEF IInv, CallsFit
  <1>5. Has(stack, "about", Top.c) <=> Has(U, "about", Top.c) \/ Plays(Top, "about", Top.c)
    BY <1>1, HasUnder
  <1>6. Plays(Top, "about", Top.c)
    BY <1>1 DEF Plays, About
  <1>7. p[Top.c].joined = TRUE
    BY <1>2, <1>5, <1>6 DEF KnownI
  <1> HIDE DEF U
  <1>8. ASSUME NEW role \in {"append", "acking", "unanswered", "admitting", "feeding"}, NEW c
        PROVE  ~Has(U, role, c)
    <2> SUFFICES ASSUME NEW k \in 1..Len(U) PROVE ~Plays(U[k], role, c)
      BY DEF Has
    <2>1. /\ U[k].op \notin {"process", "deliver"}
          /\ U[k].op = "join" => U[k].pc \in {"start", "refused"}
      BY <1>3
    <2> QED BY <2>1 DEF Plays, About, Active, WillAppend, Acking, Unanswered, Entering, Admitting, Feeding
  <1>9. Has(U, "active", NoPeer)
    <2>1. Len(U) \in 1..Len(U)
      BY <1>3, <1>4, UnderIs
    <2>2. Plays(U[Len(U)], "active", NoPeer)
      BY <1>3 DEF Plays, Active
    <2> QED BY <2>1, <2>2 DEF Has
  <1>10. ASSUME NEW x, NEW hd, NEW sn, NEW b
         PROVE  FitAll(U, x, hd, sn, b)
    <2> SUFFICES ASSUME NEW k \in 1..Len(U) PROVE Fits(U[k], x[U[k].c], hd, sn, b)
      BY DEF FitAll
    <2>1. JoinFits(U[k], p[U[k].c], head)
      BY <1>4 DEF FitAll, Fits
    <2>2. JoinFits(U[k], x[U[k].c], hd)
      BY <2>1, <1>3 DEF JoinFits
    <2> QED BY <2>2, <1>3 DEF Fits, DeliverFits, ProcessFits
  <1> QED BY <1>1, <1>2, <1>3, <1>7, <1>8, <1>9, <1>10 DEF U

\* The call on top, r before, answers c, as OwedFits says.
Answers(t, r, x, y, c) ==
    \/ y.owed = x.owed /\ y.unacked = x.unacked
       /\ (Plays(r, "unanswered", c) <=> Plays(t, "unanswered", c))
    \/ y.owed = x.owed - 1 /\ y.unacked = x.unacked
       /\ Plays(t, "unanswered", c) /\ ~Plays(r, "unanswered", c)
    \/ y.owed = x.owed /\ y.unacked = TRUE
       /\ (Plays(r, "unanswered", c) => Plays(t, "unanswered", c))

\* The handling goes on as r, with its connection as y.
LEMMA ProcessData ==
    ASSUME IInv, Running("process"), NEW r \in Call, r.op = "process", r.c = Top.c, GoesOn(r),
           ~Waiting(r), NEW y \in Peer, p' = [p EXCEPT ![Top.c] = y],
           UNCHANGED <<lifetime, moved, log, messages, failures>>,
           y.joined = p[Top.c].joined, y.told = p[Top.c].told, y.late = FALSE,
           PositionFits(y, head, Plays(r, "acking", Top.c)),
           Answers(Top, r, p[Top.c], y, Top.c),
           Plays(r, "append", NoPeer) => Plays(Top, "append", NoPeer),
           \A d \in Peers : Plays(Top, "feeding", d) =>
               Plays(r, "feeding", d) \/ (d = Top.c /\ y.cursor = head),
           p[Top.c].cursor = head => y.cursor = head,
           Fits(r, y, head, snap, Broke)
    PROVE  IInv'
  <1> DEFINE c == Top.c
  <1>1. /\ stack # <<>> /\ Top.op = "process" /\ Top \in Call /\ c \in Peers
        /\ RestI /\ TypeI
        /\ \A role \in {"append", "acking", "unanswered", "admitting", "feeding"} : \A d :
              ~Has(Under(stack), role, d)
        /\ \A x, hd, sn, b : FitAll(Under(stack), x, hd, sn, b)
    BY ProcessIs
  <1>2. ItemBelow(Top, r)
    BY DEF ItemBelow
  <1>3. /\ Structured(stack') /\ NotWaiting'
        /\ \A role, d :
             /\ Has(stack, role, d) <=> Has(Under(stack), role, d) \/ Plays(Top, role, d)
             /\ Has(stack', role, d) <=> Has(Under(stack), role, d) \/ Plays(r, role, d)
        /\ \A x, hd, sn, b :
             FitAll(Under(stack), x, hd, sn, b) /\ Fits(r, x[r.c], hd, sn, b)
             => FitAll(stack', x, hd, sn, b)
    BY <1>1, <1>2, GoShape
  <1>4. CallsFit'
    <2>1. p'[r.c] = y
      BY <1>1 DEF TypeI
    <2>2. Fits(r, p'[r.c], head, snap, Broke)
      BY <2>1
    <2>3. FitAll(stack', p', head, snap, Broke)
      BY <1>1, <1>3, <2>2
    <2> QED BY <2>3 DEF CallsFit, Broke, lifetime, log
  <1>5. /\ \A d \in Peers \ {c} :
              /\ ~Plays(r, "acking", d) /\ ~Plays(Top, "acking", d)
              /\ ~Plays(r, "unanswered", d) /\ ~Plays(Top, "unanswered", d)
        /\ \A d : /\ Plays(r, "about", d) <=> Plays(Top, "about", d)
                  /\ ~Plays(r, "entering", d)
                  /\ ~Plays(Top, "admitting", d)
        /\ ~Plays(r, "retire", NoPeer) /\ ~Plays(Top, "active", NoPeer)
    BY <1>1 DEF Plays, About, Active, WillAppend, Acking, Unanswered, Entering, Admitting, Feeding
  <1>6. RestI'
    <2>1. Has(stack', "acking", c) <=> Plays(r, "acking", c)
      BY <1>1, <1>3
    <2>2. PositionFits(y, head, Has(stack', "acking", c))
      BY <2>1 DEF PositionFits
    <2>3. /\ Has(stack, "unanswered", c) <=> Plays(Top, "unanswered", c)
          /\ Has(stack', "unanswered", c) <=> Plays(r, "unanswered", c)
      BY <1>1, <1>3
    <2>4. OwedFits(p[c], y, c)
      BY <2>3 DEF OwedFits, Answers
    <2>5. UNCHANGED <<lifetime, moved, head, snap, messages, failures>>
      BY DEF log
    <2>6. \A d \in Peers :
              /\ Has(stack', "about", d) => Has(stack, "about", d)
              /\ Has(stack', "entering", d) => Has(stack, "entering", d)
              /\ Has(stack, "admitting", d) => Has(stack', "admitting", d)
              /\ Has(stack, "feeding", d) => Has(stack', "feeding", d) \/ (d = c /\ y.cursor = head)
      BY <1>3, <1>5
    <2>7. \A d \in Peers \ {c} :
              /\ Has(stack, "acking", d) => Has(stack', "acking", d)
              /\ Has(stack, "unanswered", d) <=> Has(stack', "unanswered", d)
      BY <1>3, <1>5
    <2>8. /\ Has(stack', "append", NoPeer) => Has(stack, "append", NoPeer)
          /\ Has(stack', "retire", NoPeer) => Has(stack, "retire", NoPeer)
          /\ Has(stack, "active", NoPeer) => Has(stack', "active", NoPeer)
      BY <1>3, <1>5
    <2> QED BY <1>1, <2>2, <2>4, <2>5, <2>6, <2>7, <2>8, DataStep
  <1> QED BY <1>3, <1>4, <1>6 DEF IInv, RestI

LEMMA ProcessFails ==
    ASSUME IInv, Running("process"), NEW pc, FailedTo(Goes(pc)),
           UNCHANGED <<moved, log, messages>>,
           \/ Top.pc = "start" /\ pc = IF Top.item[1] = "push" THEN "refuse" ELSE "end"
           \/ Top.pc = "push" /\ pc = "refuse"
           \/ Top.pc = "ack" /\ pc = "unacked"
           \/ Top.pc = "acked" /\ pc = "relay"
    PROVE  IInv'
  <1> DEFINE r == At(Top, pc)
  <1>1. stack # <<>> /\ Top.op = "process" /\ Top \in Call /\ Fits(Top, p[Top.c], head, snap, Broke)
    BY ProcessIs
  <1>2. pc \in Pcs /\ Goes(pc) = Append(Under(stack), r) /\ pc \in {"refuse", "end", "unacked", "relay"}
    BY <1>1, GoesIs DEF Pcs
  <1>3. /\ r \in Call /\ r.op = "process" /\ r.c = Top.c /\ r.pc = pc /\ r.item = Top.item
        /\ r.seen = Top.seen /\ r.n = Top.n /\ r.ret = Top.ret
    BY <1>1, <1>2, AtIs
  <1> HIDE DEF r
  <1>4. ProcessFits(Top, p[Top.c], head, snap, Broke)
    BY <1>1 DEF Fits
  <1>5. Top.pc = "push" => Top.item[1] = "push"
    BY <1>1, <1>4 DEF ProcessFits
  <1>6. TopKept(Top, r)
    BY <1>1, <1>3, <1>5 DEF TopKept, Plays, About, Active, WillAppend, Acking, Unanswered, Entering, Admitting, Feeding
  <1>7. ~Waiting(r) /\ ~Entering(r, r.c)
    BY <1>2, <1>3 DEF Waiting, Entering
  <1>8. ProcessFits(r, p[r.c], head, snap, TRUE)
    BY <1>1, <1>2, <1>3, <1>4 DEF ProcessFits
  <1>9. Fits(r, p[r.c], head, snap, TRUE)
    BY <1>3, <1>8 DEF Fits, JoinFits, DeliverFits
  <1>10. UNCHANGED <<moved, head, snap, messages>>
    BY DEF log
  <1> QED BY <1>1, <1>2, <1>3, <1>6, <1>7, <1>9, <1>10, FailStep

LEMMA ProcessGoes ==
    ASSUME IInv, Running("process"), NEW pc \in Pcs, GoesOn(At(Top, pc)), PeersKept,
           UNCHANGED <<lifetime, moved, log, messages, failures>>,
           \/ Top.pc = "start" /\ pc = Top.item[1]
           \/ Top.pc = "delivered" /\ Top.ret # "ok" /\ pc = "refuse"
           \/ Top.pc = "acked" /\ pc = "relay"
           \/ Top.pc = "relay" /\ pc = "ask" /\ members \ (Top.seen \cup {Top.c}) = {}
           \/ Top.pc = "ask" /\ pc = "asked"
    PROVE  IInv'
  <1> DEFINE r == At(Top, pc)
  <1>1. /\ stack # <<>> /\ Top.op = "process" /\ Top \in Call /\ Fits(Top, p[Top.c], head, snap, Broke)
        /\ ~Waiting(Top) /\ TypeI /\ OverI
    BY ProcessIs
  <1>2. /\ r \in Call /\ r.op = "process" /\ r.c = Top.c /\ r.pc = pc /\ r.item = Top.item
        /\ r.seen = Top.seen /\ r.n = Top.n /\ r.ret = Top.ret
    BY <1>1, AtIs
  <1> HIDE DEF r
  <1>3. ProcessFits(Top, p[Top.c], head, snap, Broke) /\ Top.item[1] \in Kinds
    BY <1>1 DEF Fits, ProcessFits
  <1>4. pc \in {"push", "offer", "refuse", "relay", "ask", "asked"}
    BY <1>3 DEF Kinds
  <1>5. Top.pc = "delivered" => Top.item[1] = "push"
    BY <1>1, <1>3 DEF ProcessFits
  <1>6. Top.pc = "delivered" /\ Top.ret # "ok" => failures > 0 \/ members = {}
    <2> HAVE Top.pc = "delivered" /\ Top.ret # "ok"
    <2>1. Top.ret = "err"
      BY <1>1 DEF Waiting, Call
    <2>2. Broke
      BY <2>1, <1>1, <1>3 DEF ProcessFits
    <2> QED BY <2>2, <1>1 DEF Broke, OverI
  <1>7. members' = members /\ failures' = failures
    BY DEF lifetime
  <1>8. RolesGo(Top, r)
    BY <1>1, <1>2, <1>3, <1>5, <1>6, <1>7 DEF Kinds, RolesGo, Plays, About, Active, WillAppend, Acking, Unanswered, Entering, Admitting, Feeding
  <1>9. ~Waiting(r) /\ ItemBelow(Top, r)
    BY <1>2, <1>4 DEF Waiting, ItemBelow
  <1>10. ProcessFits(r, p[r.c], head, snap, Broke)
    <2>1. pc = "push" => Top.pc = "start" /\ Top.item[1] = "push"
      BY <1>3, <1>5 DEF Kinds
    <2>2. Top.pc = "start" => Top.ret = "none" /\ Top.seen = {}
      BY <1>1, <1>3 DEF ProcessFits
    <2>3. pc = "refuse" => Top.item[1] = "push"
      BY <1>3, <1>5 DEF Kinds
    <2> QED BY <2>1, <2>2, <2>3, <1>2, <1>3, <1>4 DEF ProcessFits
  <1>11. Fits(r, p[r.c], head, snap, Broke)
    BY <1>2, <1>10 DEF Fits, JoinFits, DeliverFits
  <1>12. LifeKept /\ UNCHANGED <<head, snap, messages, failures>> /\ moved' \in BOOLEAN
    BY <1>1, LifeSame DEF log, TypeI
  <1> QED BY <1>1, <1>2, <1>8, <1>9, <1>11, <1>12, GoStep DEF r

LEMMA ProcessPops ==
    ASSUME IInv, Running("process"), stack' = Below,
           UNCHANGED <<lifetime, moved, log, p, messages, failures>>,
           \/ Top.pc \in {"start", "refuse"} /\ ~(up /\ Top.c \in members)
           \/ Top.pc \in {"ask", "asked", "end"}
    PROVE  IInv'
  <1>1. /\ stack # <<>> /\ Top.op = "process" /\ TypeI /\ OverI /\ Below = Under(stack)
        /\ Has(Under(stack), "active", NoPeer)
    BY ProcessIs
  <1>2. /\ PeersKept /\ LifeKept /\ UNCHANGED <<head, snap, messages, failures>>
        /\ failures' \in Nat /\ failures <= failures' /\ moved' \in BOOLEAN
    BY <1>1, PeersSame, LifeSame DEF TypeI, log
  <1>3. Top.pc \in {"start", "refuse"} => Top.c \notin members'
    BY <1>1 DEF OverI, lifetime
  <1>4. RolesPop(Top) /\ Leaves
    BY <1>1, <1>3 DEF Leaves, RolesPop, Plays, About, Active, WillAppend, Acking, Unanswered, Entering, Admitting, Feeding
  <1> QED BY <1>1, <1>2, <1>4, PopStep

\* The request for a snapshot is given up.
LEMMA ProcessGivesUp ==
    ASSUME IInv, Running("process"), FailedTo(Below), UNCHANGED <<moved, log, messages>>,
           Top.pc \in {"ask", "asked"}
    PROVE  IInv'
  <1> DEFINE U == Under(stack)
  <1>1. /\ stack # <<>> /\ Top.op = "process" /\ TypeI /\ RestI /\ OverI /\ Below = U
        /\ Has(U, "active", NoPeer) /\ \A x, hd, sn, b : FitAll(U, x, hd, sn, b)
    BY ProcessIs
  <1>2. Structured(stack) /\ stack \in Seq(Call) /\ Top = stack[Len(stack)]
    BY DEF IInv, Structured, Top
  <1>3. Structured(U) /\ (U # <<>> => ~Waiting(U[Len(U)]) /\ ~Entering(U[Len(U)], U[Len(U)].c))
    BY <1>1, <1>2, PopKeeps, UnderIsFree
  <1>4. \A role, c : Has(stack, role, c) <=> Has(U, role, c) \/ Plays(Top, role, c)
    BY <1>1, <1>2, HasUnder
  <1>5. RetireRec \in Call /\ RetireRec.op = "retire" /\ Who(RetireRec)
    BY <1>1, RetireRecIs
  <1>6. FitAll(U, p, head, snap, Broke')
    BY <1>1
  <1> HIDE DEF U
  <1>7. /\ Structured(stack') /\ (stack' # <<>> => Ready(stack[Len(stack)])')
        /\ \A role, c : role # "retire" => (Has(stack', role, c) <=> Has(U, role, c))
        /\ Has(stack', "retire", NoPeer) => Has(U, "retire", NoPeer) \/ ~up'
        /\ FitAll(stack', p, head, snap, Broke')
    <2>1. CASE stack' = U
      BY <2>1, <1>3, <1>6 DEF Ready, Entering
    <2>2. CASE stack' = Append(U, RetireRec) /\ up' = FALSE
      <3> HIDE DEF RetireRec
      <3>1. /\ Structured(Append(U, RetireRec)) /\ ~Waiting(RetireRec)
            /\ FitAll(Append(U, RetireRec), p, head, snap, Broke')
            /\ Append(U, RetireRec) # <<>>
            /\ Append(U, RetireRec)[Len(Append(U, RetireRec))] = RetireRec
            /\ \A role, c : Has(Append(U, RetireRec), role, c) <=>
                  Has(U, role, c) \/ (role = "retire" /\ RetireRec.op = "retire")
        BY <1>3, <1>5, <1>6, LightPush
      <3> DEFINE W == Append(U, RetireRec)
      <3>2. stack' = W
        BY <2>2
      <3>3. Ready(stack[Len(stack)])'
        BY <3>1, <3>2, <1>5 DEF Ready
      <3> HIDE DEF W
      <3> QED BY <3>1, <3>2, <3>3, <2>2 DEF W
    <2> QED BY <2>1, <2>2, <1>1 DEF FailedTo
  <1>8. /\ \A c : /\ ~Plays(Top, "acking", c) /\ ~Plays(Top, "unanswered", c)
                  /\ ~Plays(Top, "feeding", c) /\ ~Plays(Top, "admitting", c)
        /\ ~Plays(Top, "active", NoPeer)
    BY <1>1 DEF Plays, About, Active, WillAppend, Acking, Unanswered, Entering, Admitting, Feeding
  <1>9. RolesKept
    BY <1>4, <1>7, <1>8 DEF RolesKept
  <1>10. RestI'
    <2>1. /\ PeersKept /\ LifeKept /\ UNCHANGED <<head, snap, messages>>
          /\ failures' \in Nat /\ failures <= failures' /\ moved' \in BOOLEAN
      BY <1>1, PeersSame DEF FailedTo, TypeI, log
    <2> QED BY <2>1, <1>1, <1>9, SoftStep
  <1>11. CallsFit' /\ NotWaiting'
    BY <1>7 DEF CallsFit, FailedTo, log, NotWaiting
  <1> QED BY <1>7, <1>10, <1>11 DEF IInv, RestI

\* takeOffer(): the snapshot moves up to a position of the log.
LEMMA ProcessOffer ==
    ASSUME IInv, Running("process"), Top.pc = "offer", stack' = Below,
           snap' = IF TakesOffer(Top.c, Top.item[2]) THEN Top.item[2] ELSE snap,
           UNCHANGED <<lifetime, moved, head, p, messages, failures>>
    PROVE  IInv'
  <1>1. /\ stack # <<>> /\ Top.op = "process" /\ TypeI /\ RestI /\ Below = Under(stack) /\ Top \in Call
        /\ \A x, hd, sn, b : FitAll(Under(stack), x, hd, sn, b)
    BY ProcessIs
  <1>2. Leaves
    BY <1>1 DEF Leaves
  <1>3. /\ Structured(stack') /\ NotWaiting'
        /\ \A role, c :
             /\ Has(stack, role, c) <=> Has(Under(stack), role, c) \/ Plays(Top, role, c)
             /\ Has(stack', role, c) <=> Has(Under(stack), role, c)
    BY <1>1, <1>2, PopShape
  <1>4. \A c : ~Has(Under(stack), "entering", c)
    BY <1>1, NoEnteringUnder DEF IInv
  <1>5. /\ \A c : /\ ~Plays(Top, "acking", c) /\ ~Plays(Top, "unanswered", c)
                  /\ ~Plays(Top, "feeding", c) /\ ~Plays(Top, "admitting", c)
        /\ ~Plays(Top, "active", NoPeer)
    BY <1>1 DEF Plays, About, Active, WillAppend, Acking, Unanswered, Entering, Admitting, Feeding
  <1>6. RolesKept
    BY <1>3, <1>5 DEF RolesKept
  <1>7. snap' \in 1..head
    <2>1. snap \in 1..head /\ head \in Nat /\ Top.item[2] \in Nat
      BY <1>1, ConstantsAre DEF TypeI, Call, Items
    <2> QED BY <2>1 DEF TakesOffer
  <1>8. RestI'
    <2>1. /\ PeersKept /\ LifeKept /\ UNCHANGED <<head, messages>>
          /\ failures' \in Nat /\ failures <= failures' /\ moved' \in BOOLEAN
      BY <1>1, PeersSame, LifeSame DEF TypeI
    <2> QED BY <2>1, <1>1, <1>6, <1>7, SoftSnapStep
  <1>9. CallsFit'
    BY <1>1 DEF CallsFit
  <1> QED BY <1>3, <1>8, <1>9 DEF IInv, RestI

\* What a peer that was not told of its retirement makes of an answer.
Answered(x, y) ==
    /\ y \in Peer /\ y.late = FALSE /\ y.joined = x.joined /\ y.told = x.told
    /\ y.owed = x.owed - 1 /\ y.unacked = x.unacked /\ y.cursor = x.cursor

Acked(x, y, n) ==
    Answered(x, y) /\ y.pos = n /\ (y.gap = TRUE => x.gap = TRUE \/ n # x.pos + 1)
Refused(x, y) ==
    Answered(x, y) /\ y.pos = x.pos /\ y.gap = x.gap

LEMMA AnswerIs ==
    ASSUME NEW x \in Peer, x.late = FALSE, x.told # "retired", x.owed > 0, NEW n \in 0..MaxHead
    PROVE  Acked(x, Got(x, Frame("ack", n, 1)), n) /\ Refused(x, Got(x, Frame("refuse", 0, 1)))
  <1>1. \A k \in {"ack", "refuse"} :
            [x EXCEPT !.late = @ \/ (x.told = "retired" /\ k # "retired")] = x
    <2>1. (x.late \/ FALSE) = FALSE
      OBVIOUS
    <2> QED BY <2>1 DEF Peer
  <1>2. x.owed - 1 \in 0..MaxMessages
    BY ConstantsAre DEF Peer
  <1> DEFINE gap == x.gap \/ n # x.pos + 1
  <1>3. Got(x, Frame("ack", n, 1)) = [x EXCEPT !.owed = @ - 1, !.pos = n, !.gap = gap]
    <2> DEFINE f == Frame("ack", n, 1)
    <2>1. f.kind = "ack" /\ f.pos = n
      BY DEF Frame
    <2> HIDE DEF f
    <2>2. [x EXCEPT !.late = @ \/ (x.told = "retired" /\ f.kind # "retired")] = x
      BY <1>1, <2>1
    <2>3. Got(x, f) = [x EXCEPT !.owed = @ - 1, !.pos = n, !.gap = @ \/ n # x.pos + 1]
      BY <2>1, <2>2 DEF Got
    <2> QED BY <2>3 DEF f, Peer
  <1>4. Got(x, Frame("refuse", 0, 1)) = [x EXCEPT !.owed = @ - 1]
    <2> DEFINE f == Frame("refuse", 0, 1)
    <2>1. f.kind = "refuse"
      BY DEF Frame
    <2> HIDE DEF f
    <2>2. [x EXCEPT !.late = @ \/ (x.told = "retired" /\ f.kind # "retired")] = x
      BY <1>1, <2>1
    <2>3. Got(x, f) = [x EXCEPT !.owed = @ - 1]
      BY <2>1, <2>2 DEF Got
    <2> QED BY <2>3 DEF f
  <1>6. gap \in BOOLEAN /\ (gap = TRUE => x.gap = TRUE \/ n # x.pos + 1)
    BY DEF Peer
  <1> HIDE DEF gap
  <1> QED BY <1>2, <1>3, <1>4, <1>6 DEF Peer, Acked, Refused, Answered

LEMMA WantedIs ==
    ASSUME NEW x \in Peer, x.late = FALSE, x.told # "retired", NEW n
    PROVE  Got(x, Frame("wanted", n, 1)) = x
  <1> DEFINE f == Frame("wanted", n, 1)
  <1>1. f.kind = "wanted"
    BY DEF Frame
  <1> HIDE DEF f
  <1>2. [x EXCEPT !.late = @ \/ (x.told = "retired" /\ f.kind # "retired")] = x
    <2>1. (x.late \/ (x.told = "retired" /\ f.kind # "retired")) = FALSE
      OBVIOUS
    <2> QED BY <2>1 DEF Peer
  <1>3. Got(x, f) = x
    BY <1>1, <1>2 DEF Got
  <1> QED BY <1>3 DEF f

\* The connection whose message is handled.
LEMMA HandledPeer ==
    ASSUME IInv, Running("process")
    PROVE  LET x == p[Top.c] IN
           /\ x \in Peer /\ x.late = FALSE /\ (up => x.told # "retired")
           /\ x.cursor \in Nat /\ x.pos \in Nat /\ x.owed \in Nat
           /\ x.cursor <= head /\ x.pos <= head /\ (x.gap = TRUE => x.unacked = TRUE)
           /\ Plays(Top, "unanswered", Top.c) => x.owed > 0
           /\ x.unacked = TRUE \/ x.cursor <= x.pos \/ Plays(Top, "acking", Top.c)
  <1> DEFINE c == Top.c
             x == p[c]
  <1>1. /\ stack # <<>> /\ Top.op = "process" /\ RestI /\ TypeI /\ OverI /\ c \in Peers
        /\ \A role \in {"append", "acking", "unanswered", "admitting", "feeding"} : \A d :
              ~Has(Under(stack), role, d)
    BY ProcessIs
  <1>2. x \in Peer /\ x.cursor \in Nat /\ x.pos \in Nat /\ x.owed \in Nat
    BY <1>1, ConstantsAre DEF TypeI, Peer
  <1>3. x.late = FALSE
    BY <1>1, <1>2 DEF RestI, NothingAfterRetired, Peer
  <1>4. up => x.told # "retired"
    BY <1>1 DEF OverI
  <1>5. \A role : Has(stack, role, c) <=> Has(Under(stack), role, c) \/ Plays(Top, role, c)
    BY <1>1, HasUnder DEF IInv, Structured, Top
  <1>6. PositionFits(x, head, Has(stack, "acking", c))
    BY <1>1 DEF RestI, PositionsI
  <1>7. Has(stack, "acking", c) <=> Plays(Top, "acking", c)
    BY <1>1, <1>5
  <1>8. Plays(Top, "unanswered", c) => x.owed > 0
    <2> HAVE Plays(Top, "unanswered", c)
    <2>1. Has(stack, "unanswered", c)
      BY <1>5
    <2>2. AtHand(stack, c) = 1
      BY <2>1 DEF AtHand
    <2>3. Pushes(pending, c) + AtHand(stack, c) <= x.owed /\ Pushes(pending, c) \in Nat
      BY <1>1, PushesIsNat DEF RestI, OwedI, TypeI
    <2> QED BY <2>2, <2>3, <1>2
  <1> QED BY <1>2, <1>3, <1>4, <1>6, <1>7, <1>8 DEF PositionFits

\* The pusher has what came before its push: the hub's cursor takes the push.
LEMMA ProcessDelivered ==
    ASSUME IInv, Running("process"), Top.pc = "delivered", Top.ret = "ok",
           stack' = Goes("ack"), p' = [p EXCEPT ![Top.c].cursor = Top.n],
           UNCHANGED <<lifetime, moved, log, messages, failures>>
    PROVE  IInv'
  <1> DEFINE c == Top.c
             x == p[c]
             y == [x EXCEPT !.cursor = Top.n]
             r == At(Top, "ack")
  <1>1. /\ stack # <<>> /\ Top.op = "process" /\ Top \in Call /\ RestI /\ TypeI /\ c \in Peers
        /\ Fits(Top, x, head, snap, Broke)
    BY ProcessIs
  <1>2. "ack" \in Pcs /\ stack' = Append(Under(stack), r)
    BY <1>1, GoesIs DEF Pcs
  <1>3. /\ r \in Call /\ r.op = "process" /\ r.c = c /\ r.pc = "ack" /\ r.item = Top.item
        /\ r.seen = Top.seen /\ r.n = Top.n /\ r.ret = Top.ret
    BY <1>1, <1>2, AtIs
  <1>4. /\ x \in Peer /\ x.late = FALSE
        /\ x.cursor \in Nat /\ x.pos \in Nat
        /\ x.cursor <= head /\ x.pos <= head /\ (x.gap = TRUE => x.unacked = TRUE)
        /\ x.unacked = TRUE \/ x.cursor <= x.pos \/ Plays(Top, "acking", c)
    BY HandledPeer
  <1>5. /\ Top.item[1] \in Kinds /\ Top.item[1] = "push" /\ Top.seen = {} /\ Top.n = head /\ snap < head
        /\ x.unacked = TRUE \/ x.pos < head
        /\ head - 1 <= x.cursor
    BY <1>1 DEF Fits, ProcessFits
  <1>6. head \in Nat /\ ~Plays(Top, "acking", c)
    BY <1>1 DEF TypeI, Plays, Acking
  <1>7. p' = [p EXCEPT ![c] = y]
    BY <1>1 DEF TypeI
  <1>8. /\ y \in Peer /\ y.joined = x.joined /\ y.told = x.told /\ y.late = FALSE /\ y.pos = x.pos
        /\ y.cursor = head /\ y.gap = x.gap /\ y.unacked = x.unacked /\ y.owed = x.owed
    <2>1. Top.n \in 0..MaxHead
      BY <1>1 DEF Call
    <2> QED BY <2>1, <1>4, <1>5 DEF Peer
  <1> HIDE DEF x, y, r
  <1>9. x.unacked = TRUE \/ x.pos = head - 1
    BY <1>4, <1>5, <1>6
  <1>10. Fits(r, y, head, snap, Broke)
    <2>1. ProcessFits(r, y, head, snap, Broke)
      BY <1>3, <1>5, <1>8, <1>9 DEF ProcessFits
    <2> QED BY <2>1, <1>3 DEF Fits, JoinFits, DeliverFits
  <1>11. /\ Plays(r, "acking", c) /\ Plays(r, "unanswered", c) /\ Plays(Top, "unanswered", c)
         /\ ~Plays(r, "append", NoPeer)
         /\ \A d \in Peers : d # c => Plays(r, "feeding", d)
    BY <1>1, <1>3, <1>5 DEF Plays, About, Active, WillAppend, Acking, Unanswered, Entering, Admitting, Feeding
  <1>12. PositionFits(y, head, Plays(r, "acking", c))
    BY <1>4, <1>6, <1>8, <1>11 DEF PositionFits
  <1>13. Answers(Top, r, x, y, c)
    BY <1>8, <1>11 DEF Answers
  <1>14. GoesOn(r) /\ ~Waiting(r)
    BY <1>2, <1>3 DEF GoesOn, Waiting
  <1> QED BY <1>1, <1>3, <1>7, <1>8, <1>10, <1>11, <1>12, <1>13, <1>14, ProcessData DEF x

\* The ack closes the difference between the cursor and what the peer holds.
LEMMA ProcessAck ==
    ASSUME IInv, Running("process"), Top.pc = "ack", UNCHANGED <<moved, log, messages>>,
           Passed(Append(Goes("acked"), Rec("peer", Top.c)), Sent(Top.c, Frame("ack", Top.n, 1)))
    PROVE  IInv'
  <1> DEFINE c == Top.c
             x == p[c]
             y == Got(x, Frame("ack", Top.n, 1))
             r == At(Top, "acked")
  <1>1. /\ stack # <<>> /\ Top.op = "process" /\ Top \in Call /\ RestI /\ TypeI /\ c \in Peers
        /\ Fits(Top, x, head, snap, Broke)
    BY ProcessIs
  <1>2. "acked" \in Pcs /\ Goes("acked") = Append(Under(stack), r)
    BY <1>1, GoesIs DEF Pcs
  <1>3. /\ r \in Call /\ r.op = "process" /\ r.c = c /\ r.pc = "acked" /\ r.item = Top.item
        /\ r.seen = Top.seen /\ r.n = Top.n /\ r.ret = Top.ret
    BY <1>1, <1>2, AtIs
  <1>4. /\ stack' = Append(Append(Under(stack), r), Rec("peer", c)) /\ up = TRUE
        /\ p' = [p EXCEPT ![c] = y] /\ UNCHANGED <<lifetime, moved, log, messages, failures>>
    BY <1>1, <1>2 DEF Passed, Sent, TypeI
  <1>5. /\ Top.item[1] \in Kinds /\ Top.item[1] = "push" /\ Top.seen = {} /\ Top.n = head
        /\ x.unacked = TRUE \/ x.pos = head - 1
    BY <1>1 DEF Fits, ProcessFits
  <1>6. Plays(Top, "unanswered", c)
    BY <1>1, <1>5 DEF Plays, Unanswered
  <1>7. /\ x \in Peer /\ x.late = FALSE /\ x.told # "retired" /\ x.owed > 0
        /\ x.cursor \in Nat /\ x.pos \in Nat
        /\ x.cursor <= head /\ x.pos <= head /\ (x.gap = TRUE => x.unacked = TRUE)
    BY <1>4, <1>6, HandledPeer
  <1>8. head \in Nat /\ Top.n \in 0..MaxHead
    BY <1>1 DEF TypeI, Call
  <1> HIDE DEF x, y, r
  <1>9. /\ y \in Peer /\ y.late = FALSE /\ y.joined = x.joined /\ y.told = x.told
        /\ y.owed = x.owed - 1 /\ y.unacked = x.unacked /\ y.cursor = x.cursor
        /\ y.pos = Top.n /\ (y.gap = TRUE => x.gap = TRUE \/ Top.n # x.pos + 1)
    <2>1. Acked(x, y, Top.n)
      BY <1>7, <1>8, AnswerIs DEF y
    <2> QED BY <2>1 DEF Acked, Answered
  <1>10. y.gap = TRUE => y.unacked = TRUE
    BY <1>5, <1>7, <1>8, <1>9
  <1>11. PositionFits(y, head, Plays(r, "acking", c))
    BY <1>5, <1>7, <1>8, <1>9, <1>10 DEF PositionFits
  <1>12. /\ ~Plays(r, "unanswered", c) /\ ~Plays(r, "append", NoPeer)
         /\ \A d \in Peers : Plays(Top, "feeding", d) => Plays(r, "feeding", d)
    BY <1>1, <1>3, <1>5 DEF Plays, About, Active, WillAppend, Acking, Unanswered, Entering, Admitting, Feeding
  <1>13. Answers(Top, r, x, y, c)
    BY <1>6, <1>9, <1>12 DEF Answers
  <1>14. Fits(r, y, head, snap, Broke)
    BY <1>3, <1>5 DEF Fits, JoinFits, DeliverFits, ProcessFits
  <1>15. ~Entering(r, r.c) /\ ~Waiting(r)
    BY <1>3 DEF Entering, Waiting
  <1>16. GoesOn(r)
    BY <1>1, <1>4, <1>15 DEF GoesOn
  <1> QED BY <1>1, <1>3, <1>4, <1>9, <1>11, <1>12, <1>13, <1>14, <1>15, <1>16, ProcessData DEF x

\* The ack was dropped, and its error is not looked at.
LEMMA ProcessUnacked ==
    ASSUME IInv, Running("process"), Top.pc = "unacked", stack' = Goes("relay"),
           p' = [p EXCEPT ![Top.c].unacked = TRUE],
           UNCHANGED <<lifetime, moved, log, messages, failures>>
    PROVE  IInv'
  <1> DEFINE c == Top.c
             x == p[c]
             y == [x EXCEPT !.unacked = TRUE]
             r == At(Top, "relay")
  <1>1. /\ stack # <<>> /\ Top.op = "process" /\ Top \in Call /\ RestI /\ TypeI /\ c \in Peers
        /\ Fits(Top, x, head, snap, Broke)
    BY ProcessIs
  <1>2. "relay" \in Pcs /\ stack' = Append(Under(stack), r)
    BY <1>1, GoesIs DEF Pcs
  <1>3. /\ r \in Call /\ r.op = "process" /\ r.c = c /\ r.pc = "relay" /\ r.item = Top.item
        /\ r.seen = Top.seen /\ r.n = Top.n /\ r.ret = Top.ret
    BY <1>1, <1>2, AtIs
  <1>4. Top.item[1] \in Kinds
    BY <1>1 DEF Fits, ProcessFits
  <1>5. /\ x \in Peer /\ x.late = FALSE /\ x.cursor <= head /\ x.pos <= head
    BY HandledPeer
  <1>6. p' = [p EXCEPT ![c] = y]
    BY <1>1 DEF TypeI
  <1>7. /\ y \in Peer /\ y.joined = x.joined /\ y.told = x.told /\ y.late = FALSE /\ y.pos = x.pos
        /\ y.cursor = x.cursor /\ y.gap = x.gap /\ y.unacked = TRUE /\ y.owed = x.owed
    BY <1>5 DEF Peer
  <1> HIDE DEF x, y, r
  <1>8. PositionFits(y, head, Plays(r, "acking", c))
    BY <1>5, <1>7 DEF PositionFits
  <1>9. /\ ~Plays(r, "unanswered", c) /\ ~Plays(r, "append", NoPeer)
        /\ \A d \in Peers : Plays(Top, "feeding", d) => Plays(r, "feeding", d)
    BY <1>1, <1>3 DEF Plays, About, Active, WillAppend, Acking, Unanswered, Entering, Admitting, Feeding
  <1>10. Answers(Top, r, x, y, c)
    BY <1>7, <1>9 DEF Answers
  <1>11. Fits(r, y, head, snap, Broke)
    BY <1>3, <1>4 DEF Fits, JoinFits, DeliverFits, ProcessFits
  <1>12. GoesOn(r) /\ ~Waiting(r)
    BY <1>2, <1>3 DEF GoesOn, Waiting
  <1> QED BY <1>1, <1>3, <1>6, <1>7, <1>8, <1>9, <1>10, <1>11, <1>12, ProcessData DEF x

\* The push is refused.
LEMMA ProcessRefuse ==
    ASSUME IInv, Running("process"), Top.pc = "refuse", up,
           stack' = Append(Goes("end"), Rec("peer", Top.c)),
           p' = Sent(Top.c, Frame("refuse", 0, 1)),
           UNCHANGED <<lifetime, moved, log, messages, failures>>
    PROVE  IInv'
  <1> DEFINE c == Top.c
             x == p[c]
             y == Got(x, Frame("refuse", 0, 1))
             r == At(Top, "end")
  <1>1. /\ stack # <<>> /\ Top.op = "process" /\ Top \in Call /\ RestI /\ TypeI /\ c \in Peers
        /\ Fits(Top, x, head, snap, Broke)
    BY ProcessIs
  <1>2. "end" \in Pcs /\ stack' = Append(Append(Under(stack), r), Rec("peer", c))
    BY <1>1, GoesIs DEF Pcs
  <1>3. /\ r \in Call /\ r.op = "process" /\ r.c = c /\ r.pc = "end" /\ r.item = Top.item
        /\ r.seen = Top.seen /\ r.n = Top.n /\ r.ret = Top.ret
    BY <1>1, <1>2, AtIs
  <1>4. p' = [p EXCEPT ![c] = y]
    BY <1>1 DEF Sent, TypeI
  <1>5. Top.item[1] \in Kinds /\ Top.item[1] = "push"
    BY <1>1 DEF Fits, ProcessFits
  <1>6. Plays(Top, "unanswered", c) /\ ~Plays(Top, "acking", c)
    BY <1>1, <1>5 DEF Plays, Unanswered, Acking
  <1>7. /\ x \in Peer /\ x.late = FALSE /\ x.told # "retired" /\ x.owed > 0
        /\ x.cursor <= head /\ x.pos <= head /\ (x.gap = TRUE => x.unacked = TRUE)
        /\ x.unacked = TRUE \/ x.cursor <= x.pos
    BY <1>6, HandledPeer
  <1>8. 0 \in 0..MaxHead
    BY ConstantsAre
  <1> HIDE DEF x, y, r
  <1>9. /\ y \in Peer /\ y.late = FALSE /\ y.joined = x.joined /\ y.told = x.told
        /\ y.owed = x.owed - 1 /\ y.unacked = x.unacked /\ y.cursor = x.cursor
        /\ y.pos = x.pos /\ y.gap = x.gap
    <2>1. Refused(x, y)
      BY <1>7, <1>8, AnswerIs DEF y
    <2> QED BY <2>1 DEF Refused, Answered
  <1>10. PositionFits(y, head, Plays(r, "acking", c))
    BY <1>7, <1>9 DEF PositionFits
  <1>11. /\ ~Plays(r, "unanswered", c) /\ ~Plays(r, "append", NoPeer)
         /\ \A d \in Peers : ~Plays(Top, "feeding", d)
    BY <1>1, <1>3 DEF Plays, About, Active, WillAppend, Acking, Unanswered, Entering, Admitting, Feeding
  <1>12. Answers(Top, r, x, y, c)
    BY <1>6, <1>9, <1>11 DEF Answers
  <1>13. Fits(r, y, head, snap, Broke)
    BY <1>3, <1>5 DEF Fits, JoinFits, DeliverFits, ProcessFits
  <1>14. ~Entering(r, r.c) /\ ~Waiting(r)
    BY <1>3 DEF Entering, Waiting
  <1>15. GoesOn(r)
    BY <1>1, <1>2, <1>14 DEF GoesOn
  <1> QED BY <1>1, <1>3, <1>4, <1>9, <1>10, <1>11, <1>12, <1>13, <1>14, <1>15, ProcessData DEF x

\* The append: from here to its last relay, the handling feeds every member.
LEMMA ProcessPush ==
    ASSUME IInv, Running("process"), Top.pc = "push", head' = head + 1,
           stack' = Delivering("delivered", [Top EXCEPT !.n = head + 1], Top.c, head),
           UNCHANGED <<lifetime, moved, snap, p, messages, failures>>
    PROVE  IInv'
  <1> DEFINE c == Top.c
             r == [[Top EXCEPT !.n = head + 1] EXCEPT !.pc = "delivered"]
             n == Len(pending)
  <1>1. /\ stack # <<>> /\ Top.op = "process" /\ Top \in Call /\ RestI /\ TypeI /\ c \in Peers
        /\ Below = Under(stack) /\ Fits(Top, p[c], head, snap, Broke)
        /\ \A role \in {"append", "acking", "unanswered", "admitting", "feeding"} : \A d :
              ~Has(Under(stack), role, d)
        /\ Has(Under(stack), "active", NoPeer)
        /\ \A x, hd, sn, b : FitAll(Under(stack), x, hd, sn, b)
        /\ p[c].joined = TRUE
    BY ProcessIs
  <1>2. Top.item[1] \in Kinds /\ Top.item[1] = "push" /\ Top.seen = {} /\ Top.ret = "none"
    BY <1>1 DEF Fits, ProcessFits
  <1>3. head \in Nat /\ head + 1 \in Nat /\ snap \in 1..head /\ n \in Nat /\ messages \in 0..MaxMessages
    BY <1>1 DEF TypeI
  <1>4. head + n <= messages
    <2>1. Has(stack, "append", NoPeer) <=> Has(Under(stack), "append", NoPeer) \/ Plays(Top, "append", NoPeer)
      BY <1>1, HasUnder DEF IInv, Structured, Top
    <2>2. Plays(Top, "append", NoPeer)
      BY <1>1 DEF Plays, WillAppend
    <2> QED BY <2>1, <2>2, <1>1 DEF RestI, CountI
  <1> HIDE DEF n
  <1>5. head \in 0..MaxHead /\ head + 1 \in 0..MaxHead /\ head + 1 <= MaxHead
    BY <1>3, <1>4, ConstantsAre DEF MaxHead
  <1>6. /\ r \in Call /\ r.op = "process" /\ r.c = c /\ r.pc = "delivered" /\ r.item = Top.item
        /\ r.seen = Top.seen /\ r.n = head + 1 /\ r.ret = Top.ret
    <2>1. "delivered" \in Pcs
      BY DEF Pcs
    <2> QED BY <2>1, <1>1, <1>5 DEF Call
  <1>7. stack' = Append(Append(Under(stack), r), Delivery(c, head))
    BY <1>1, Zenon DEF Delivering, Delivery
  <1> HIDE DEF r
  <1>8. Delivers(r, Delivery(c, head)) /\ ~Entering(r, r.c)
    <2> DEFINE d == Delivery(c, head)
    <2>1. d.c = c /\ d.n = head /\ d.item = <<"none", 0, 0>>
      BY <1>1, <1>5, DeliveryIs
    <2> HIDE DEF d
    <2>2. d.n = r.n - 1 /\ d.item[2] < r.n
      BY <2>1, <1>3, <1>6
    <2>3. Delivers(r, d)
      BY <2>1, <2>2, <1>6 DEF Delivers
    <2> QED BY <2>3, <1>6 DEF d, Entering
  <1>9. /\ Structured(stack') /\ NotWaiting'
        /\ \A role, d :
             /\ Has(stack, role, d) <=> Has(Under(stack), role, d) \/ Plays(Top, role, d)
             /\ Has(stack', role, d) <=>
                   \/ Has(Under(stack), role, d) \/ Plays(r, role, d)
                   \/ role \in {"about", "feeding"} /\ d = c
        /\ \A x, hd, sn, b :
             FitAll(Under(stack), x, hd, sn, b) /\ Fits(r, x[r.c], hd, sn, b)
             => FitAll(stack', x, hd, sn, b)
    BY <1>1, <1>5, <1>6, <1>7, <1>8, DeliverShape
  <1>10. \A d \in Peers :
            /\ p[d] \in Peer /\ p[d].cursor \in Nat /\ p[d].pos \in Nat /\ p[d].late = FALSE
            /\ p[d].cursor <= head /\ p[d].pos <= head
    <2> TAKE d \in Peers
    <2>1. p[d] \in Peer /\ p[d].cursor \in Nat /\ p[d].pos \in Nat
      <3>1. p[d] \in Peer
        BY <1>1 DEF TypeI
      <3> QED BY <3>1, ConstantsAre DEF Peer
    <2>2. p[d].late = FALSE
      BY <1>1, <2>1 DEF RestI, NothingAfterRetired, Peer
    <2> QED BY <2>1, <2>2, <1>1 DEF RestI, PositionsI, PositionFits
  <1>11. CallsFit'
    <2>1. ProcessFits(r, p[r.c], head + 1, snap, Broke)
      BY <1>1, <1>2, <1>3, <1>6, <1>10 DEF ProcessFits
    <2>2. Fits(r, p[r.c], head + 1, snap, Broke)
      BY <2>1, <1>6 DEF Fits, JoinFits, DeliverFits
    <2>3. FitAll(stack', p, head + 1, snap, Broke)
      BY <1>1, <1>9, <2>2
    <2> QED BY <2>3 DEF CallsFit, Broke, lifetime
  <1>12. /\ \A d : /\ ~Plays(r, "acking", d) /\ ~Plays(Top, "acking", d)
                   /\ Plays(r, "unanswered", d) <=> Plays(Top, "unanswered", d)
                   /\ Plays(r, "about", d) <=> Plays(Top, "about", d)
                   /\ ~Plays(r, "entering", d) /\ ~Plays(Top, "admitting", d)
                   /\ Plays(r, "feeding", d)
         /\ ~Plays(r, "retire", NoPeer) /\ ~Plays(r, "append", NoPeer)
    BY <1>1, <1>2, <1>6 DEF Plays, About, Active, WillAppend, Acking, Unanswered, Entering, Admitting, Feeding
  <1>13. TypeI'
    BY <1>1, <1>3 DEF TypeI, lifetime
  <1>14. KnownI' /\ OverI' /\ NothingAfterRetired' /\ ToldI' /\ QueueI'
    <2>1. \A i \in 1..Len(pending') : p'[pending'[i].c].joined = TRUE
      BY <1>1 DEF RestI, KnownI, lifetime
    <2>2. (~up => pending' = <<>>) /\ UNCHANGED <<up, members>>
      BY <1>1 DEF RestI, OverI, lifetime
    <2>3. \A d \in Peers :
              /\ p[d].joined = TRUE => p'[d].joined = TRUE
              /\ p'[d].told = p[d].told /\ p'[d].late = FALSE
              /\ Has(stack', "about", d) => Has(stack, "about", d) \/ p'[d].joined = TRUE
              /\ Has(stack, "admitting", d) => Has(stack', "admitting", d)
      BY <1>1, <1>9, <1>10, <1>12
    <2>4. /\ Has(stack', "retire", NoPeer) => Has(stack, "retire", NoPeer)
          /\ Has(stack', "active", NoPeer)
      BY <1>1, <1>9, <1>12
    <2> QED BY <1>1, <1>13, <2>1, <2>2, <2>3, <2>4, OthersStep
  <1>15. CountI'
    <2>1. ~Has(stack', "append", NoPeer)
      BY <1>1, <1>9, <1>12
    <2>2. head' + n <= 1 + messages
      BY <1>3, <1>4
    <2> QED BY <2>1, <2>2 DEF CountI, lifetime, n
  <1>16. PositionsI'
    <2> SUFFICES ASSUME NEW d \in Peers
                 PROVE  PositionFits(p[d], head + 1, Has(stack', "acking", d))
      BY DEF PositionsI
    <2>1. PositionFits(p[d], head, Has(stack, "acking", d))
      BY <1>1 DEF RestI, PositionsI
    <2>2. ~Has(stack, "acking", d)
      BY <1>1, <1>9, <1>12
    <2> QED BY <2>1, <2>2, <1>3, <1>10 DEF PositionFits
  <1>17. OwedI'
    <2>1. \A d \in Peers : /\ Has(stack', "unanswered", d) <=> Has(stack, "unanswered", d)
                           /\ Has(stack', "entering", d) => Has(stack, "entering", d)
      BY <1>9, <1>12
    <2>2. \A d \in Peers : AtHand(stack', d) = AtHand(stack, d)
      BY <2>1 DEF AtHand
    <2> QED BY <2>1, <2>2, <1>1 DEF OwedI, RestI, lifetime
  <1>18. CaughtUpI'
    BY <1>9, <1>12 DEF CaughtUpI
  <1> QED BY <1>9, <1>11, <1>13, <1>14, <1>15, <1>16, <1>17, <1>18 DEF IInv

\* One more member is relayed to.
LEMMA ProcessRelay ==
    ASSUME IInv, Running("process"), Top.pc = "relay",
           NEW d \in members \ (Top.seen \cup {Top.c}),
           stack' = Delivering("relay", [Top EXCEPT !.seen = @ \cup {d}], d, MaxHead),
           UNCHANGED <<lifetime, moved, log, p, messages, failures>>
    PROVE  IInv'
  <1> DEFINE c == Top.c
             r == [[Top EXCEPT !.seen = @ \cup {d}] EXCEPT !.pc = "relay"]
  <1>1. /\ stack # <<>> /\ Top.op = "process" /\ Top \in Call /\ TypeI /\ KnownI /\ c \in Peers
        /\ Below = Under(stack) /\ Fits(Top, p[c], head, snap, Broke)
    BY ProcessIs
  <1>2. d \in Peers /\ p[d].joined = TRUE /\ d # c /\ Top.item[1] \in Kinds
    BY <1>1 DEF TypeI, KnownI, Fits, ProcessFits
  <1>3. /\ r \in Call /\ r.op = "process" /\ r.c = c /\ r.pc = "relay" /\ r.item = Top.item
        /\ r.seen = Top.seen \cup {d} /\ r.n = Top.n /\ r.ret = Top.ret
    BY <1>1, <1>2 DEF Call
  <1>4. stack' = Append(Append(Under(stack), r), Delivery(d, MaxHead))
    BY <1>1, Zenon DEF Delivering, Delivery
  <1>5. MaxHead \in 0..MaxHead
    BY ConstantsAre
  <1> HIDE DEF r
  <1>6. Delivers(r, Delivery(d, MaxHead)) /\ ~Entering(r, r.c)
    <2>1. Delivery(d, MaxHead).c = d /\ Delivery(d, MaxHead).n = MaxHead
      BY <1>2, <1>5, DeliveryIs
    <2> QED BY <2>1, <1>2, <1>3 DEF Delivers, Entering
  <1>7. Fits(r, p[r.c], head, snap, Broke)
    BY <1>2, <1>3 DEF Fits, JoinFits, DeliverFits, ProcessFits
  <1>8. /\ \A e \in Peers :
              /\ Plays(r, "about", e) => Plays(Top, "about", e)
              /\ Plays(Top, "acking", e) => Plays(r, "acking", e)
              /\ Plays(Top, "unanswered", e) <=> Plays(r, "unanswered", e)
              /\ Plays(r, "entering", e) => Plays(Top, "entering", e)
              /\ Plays(Top, "feeding", e) => Plays(r, "feeding", e) \/ e = d
              /\ Plays(Top, "admitting", e) => Plays(r, "admitting", e)
        /\ Plays(r, "append", NoPeer) => Plays(Top, "append", NoPeer)
        /\ Plays(r, "retire", NoPeer) => Plays(Top, "retire", NoPeer)
        /\ Plays(Top, "active", NoPeer) => Plays(r, "active", NoPeer)
    BY <1>1, <1>3 DEF Plays, About, Active, WillAppend, Acking, Unanswered, Entering, Admitting, Feeding
  <1>9. UNCHANGED <<lifetime, moved, head, snap, p, messages, failures>>
    BY DEF log
  <1> QED BY <1>1, <1>2, <1>3, <1>4, <1>5, <1>6, <1>7, <1>8, <1>9, DeliverCallStep

LEMMA ProcessKeeps ==
    ASSUME IInv, ProcessStep
    PROVE  IInv'
  <1> DEFINE c == Top.c
             rest == members \ (Top.seen \cup {c})
             wanted == up /\ ~moved /\ head - snap >= SnapshotFloor /\ p[c].cursor = head
  <1>1. Running("process") /\ UNCHANGED <<moved, messages>>
    BY DEF ProcessStep
  <1>2. /\ stack # <<>> /\ Top.op = "process" /\ Top \in Call /\ c \in Peers
        /\ TypeI /\ OverI /\ Below = Under(stack) /\ Fits(Top, p[c], head, snap, Broke)
    BY <1>1, ProcessIs
  <1>3. \A pc : Goes(pc) = Append(Under(stack), At(Top, pc))
    BY <1>2, GoesIs
  <1>4. \A pc : stack' = Goes(pc) => GoesOn(At(Top, pc))
    BY <1>3 DEF GoesOn
  <1>5. Top.item[1] \in Kinds /\ Top.item[1] \in Pcs
    BY <1>2 DEF Fits, ProcessFits, Kinds, Pcs
  <1>6. CASE /\ Top.pc = "start"
             /\ IF up /\ c \in members
                THEN Admission(Goes(Top.item[1]), p,
                               Goes(IF Top.item[1] = "push" THEN "refuse" ELSE "end"))
                ELSE stack' = Below /\ UNCHANGED <<lifetime, p, failures>>
             /\ UNCHANGED log
    <2> DEFINE pc == IF Top.item[1] = "push" THEN "refuse" ELSE "end"
    <2>1. CASE up /\ c \in members
      <3>1. Admission(Goes(Top.item[1]), p, Goes(pc))
        BY <1>6, <2>1
      <3>2. CASE FailedTo(Goes(pc))
        <4>1. Top.pc = "start" /\ pc = IF Top.item[1] = "push" THEN "refuse" ELSE "end"
          BY <1>6
        <4> HIDE DEF pc
        <4> QED BY <1>1, <1>6, <3>2, <4>1, ProcessFails
      <3>3. CASE Passed(Goes(Top.item[1]), p)
        <4>1. GoesOn(At(Top, Top.item[1])) /\ PeersKept /\ UNCHANGED <<lifetime, failures>>
          BY <1>2, <1>4, <3>3, PeersSame DEF Passed
        <4> QED BY <1>1, <1>5, <1>6, <4>1, ProcessGoes
      <3> HIDE DEF pc
      <3> QED BY <1>2, <3>1, <3>2, <3>3, AdmissionCases
    <2>2. CASE ~(up /\ c \in members)
      <3>1. stack' = Below /\ UNCHANGED <<lifetime, p, failures>>
        BY <1>6, <2>2
      <3> QED BY <1>1, <1>6, <2>2, <3>1, ProcessPops
    <2> QED BY <2>1, <2>2
  <1>7. CASE /\ Top.pc = "offer"
             /\ snap' = IF TakesOffer(c, Top.item[2]) THEN Top.item[2] ELSE snap
             /\ stack' = Below
             /\ UNCHANGED <<lifetime, p, failures, head>>
    BY <1>1, <1>7, ProcessOffer
  <1>8. CASE /\ Top.pc = "push"
             /\ head' = head + 1
             /\ stack' = Delivering("delivered", [Top EXCEPT !.n = head + 1], c, head)
             /\ UNCHANGED <<lifetime, p, failures, snap>>
    BY <1>1, <1>8, ProcessPush
  <1>9. CASE Top.pc = "push" /\ StorageFails(Goes("refuse")) /\ UNCHANGED log
    <2>1. FailedTo(Goes("refuse"))
      BY <1>2, <1>9, StorageFailsTo
    <2> QED BY <1>1, <1>9, <2>1, ProcessFails
  <1>10. CASE /\ Top.pc = "delivered"
              /\ IF Top.ret = "ok"
                 THEN stack' = Goes("ack") /\ p' = [p EXCEPT ![c].cursor = Top.n]
                 ELSE stack' = Goes("refuse") /\ p' = p
              /\ UNCHANGED <<lifetime, failures, log>>
    <2>1. CASE Top.ret = "ok"
      BY <1>1, <1>10, <2>1, ProcessDelivered
    <2>2. CASE Top.ret # "ok"
      <3>1. "refuse" \in Pcs /\ PeersKept
        BY <1>2, <1>10, <2>2, PeersSame DEF Pcs
      <3> QED BY <1>1, <1>4, <1>10, <2>2, <3>1, ProcessGoes
    <2> QED BY <2>1, <2>2
  <1>11. CASE /\ Top.pc = "ack"
              /\ Send(c, Frame("ack", Top.n, 1), "acked", Goes("unacked"))
              /\ UNCHANGED log
    <2> DEFINE ok == Append(Goes("acked"), Rec("peer", c))
               peers == Sent(c, Frame("ack", Top.n, 1))
    <2>1. Admission(ok, peers, Goes("unacked"))
      BY <1>11 DEF Send
    <2>2. CASE FailedTo(Goes("unacked"))
      BY <1>1, <1>11, <2>2, ProcessFails
    <2>3. CASE Passed(ok, peers)
      BY <1>1, <1>11, <2>3, ProcessAck
    <2> HIDE DEF ok, peers
    <2> QED BY <1>2, <2>1, <2>2, <2>3, AdmissionCases
  <1>12. CASE /\ Top.pc = "unacked"
              /\ stack' = Goes("relay") /\ p' = [p EXCEPT ![c].unacked = TRUE]
              /\ UNCHANGED <<lifetime, failures, log>>
    BY <1>1, <1>12, ProcessUnacked
  <1>13. CASE Top.pc = "acked" /\ Admission(Goes("relay"), p, Goes("relay")) /\ UNCHANGED log
    <2>1. CASE FailedTo(Goes("relay"))
      BY <1>1, <1>13, <2>1, ProcessFails
    <2>2. CASE Passed(Goes("relay"), p)
      <3>1. "relay" \in Pcs /\ PeersKept /\ GoesOn(At(Top, "relay")) /\ UNCHANGED <<lifetime, failures>>
        BY <1>2, <1>4, <2>2, PeersSame DEF Pcs, Passed
      <3> QED BY <1>1, <1>13, <3>1, ProcessGoes
    <2> QED BY <1>2, <1>13, <2>1, <2>2, AdmissionCases
  <1>14. CASE /\ Top.pc = "relay"
              /\ \E d \in rest :
                    stack' = Delivering("relay", [Top EXCEPT !.seen = @ \cup {d}], d, MaxHead)
              /\ UNCHANGED <<lifetime, p, failures, log>>
    <2> PICK d \in rest :
               stack' = Delivering("relay", [Top EXCEPT !.seen = @ \cup {d}], d, MaxHead)
      BY <1>14
    <2> QED BY <1>1, <1>14, ProcessRelay
  <1>15. CASE /\ Top.pc = "relay" /\ rest = {} /\ stack' = Goes("ask")
              /\ UNCHANGED <<lifetime, p, failures, log>>
    <2>1. "ask" \in Pcs /\ PeersKept
      BY <1>2, <1>15, PeersSame DEF Pcs
    <2> QED BY <1>1, <1>4, <1>15, <2>1, ProcessGoes
  <1>16. CASE Top.pc = "ask" /\ wanted /\ Send(c, Frame("wanted", head, 1), "asked", Below) /\ UNCHANGED log
    <2> DEFINE ok == Append(Goes("asked"), Rec("peer", c))
               peers == Sent(c, Frame("wanted", head, 1))
    <2>1. Admission(ok, peers, Below)
      BY <1>16 DEF Send
    <2>2. CASE FailedTo(Below)
      BY <1>1, <1>16, <2>2, ProcessGivesUp
    <2>3. CASE Passed(ok, peers)
      <3>1. p[c] \in Peer /\ p[c].late = FALSE /\ p[c].told # "retired"
        BY <1>1, <2>3, HandledPeer DEF Passed
      <3>2. Got(p[c], Frame("wanted", head, 1)) = p[c]
        BY <3>1, WantedIs
      <3>3. p' = p
        BY <3>2, <2>3, <1>2 DEF Passed, Sent, TypeI
      <3>4. "asked" \in Pcs /\ PeersKept
        BY <1>2, <3>3, PeersSame DEF Pcs
      <3>5. At(Top, "asked").op = "process"
        BY <1>2, <3>4, AtIs
      <3>6. GoesOn(At(Top, "asked")) /\ UNCHANGED <<lifetime, failures>>
        BY <3>5, <1>2, <1>3, <2>3 DEF Passed, GoesOn, Entering
      <3> QED BY <1>1, <1>16, <3>4, <3>6, ProcessGoes
    <2> HIDE DEF ok, peers
    <2> QED BY <1>2, <2>1, <2>2, <2>3, AdmissionCases
  <1>17. CASE Top.pc = "ask" /\ stack' = Below /\ UNCHANGED <<lifetime, p, failures, log>>
    BY <1>1, <1>17, ProcessPops
  <1>18. CASE Top.pc = "asked" /\ Admission(Below, p, Below) /\ UNCHANGED log
    <2>1. CASE FailedTo(Below)
      BY <1>1, <1>18, <2>1, ProcessGivesUp
    <2>2. CASE Passed(Below, p)
      BY <1>1, <1>18, <2>2, ProcessPops DEF Passed
    <2> QED BY <1>2, <1>18, <2>1, <2>2, AdmissionCases
  <1>19. CASE /\ Top.pc = "refuse"
              /\ IF up /\ c \in members
                 THEN stack' = Append(Goes("end"), Rec("peer", c)) /\ p' = Sent(c, Frame("refuse", 0, 1))
                 ELSE stack' = Below /\ p' = p
              /\ UNCHANGED <<lifetime, failures, log>>
    <2>1. CASE up /\ c \in members
      BY <1>1, <1>19, <2>1, ProcessRefuse
    <2>2. CASE ~(up /\ c \in members)
      <3>1. stack' = Below /\ UNCHANGED <<lifetime, p, failures>>
        BY <1>19, <2>2
      <3> QED BY <1>1, <1>19, <2>2, <3>1, ProcessPops
    <2> QED BY <2>1, <2>2
  <1>20. CASE Top.pc = "end" /\ stack' = Below /\ UNCHANGED <<lifetime, p, failures, log>>
    BY <1>1, <1>20, ProcessPops
  <1>21. CASE /\ Top.pc = "ask"
              /\ IF wanted THEN Send(c, Frame("wanted", head, 1), "asked", Below)
                 ELSE stack' = Below /\ UNCHANGED <<lifetime, p, failures>>
              /\ UNCHANGED log
    <2> HIDE DEF wanted
    <2>1. CASE wanted
      BY <1>16, <1>21, <2>1
    <2>2. CASE ~wanted
      BY <1>17, <1>21, <2>2
    <2> QED BY <2>1, <2>2
  <1> QED BY <1>6, <1>7, <1>8, <1>9, <1>10, <1>11, <1>12, <1>13, <1>14, <1>15, <1>18, <1>19, <1>20, <1>21 DEF ProcessStep

-----------------------------------------------------------------------------
(* The invariant holds *)

LEMMA NoCalls ==
    ASSUME stack = <<>>
    PROVE  \A role, c : ~Has(stack, role, c)
  <1>1. Len(stack) = 0
    BY EmptySeq
  <1> QED BY <1>1 DEF Has

LEMMA InitIs ==
    ASSUME Init
    PROVE  IInv
  <1> USE DEF Init
  <1>1. \A role, c : ~Has(stack, role, c)
    BY NoCalls
  <1>2. stack \in Seq(Call) /\ Len(stack) = 0 /\ pending \in Seq(Queued) /\ Len(pending) = 0
    BY EmptySeq
  <1>3. Structured(stack) /\ NotWaiting /\ CallsFit
    BY <1>2 DEF Structured, Parents, OneDrain, JoinFirst, NotWaiting, CallsFit, FitAll
  <1>4. ASSUME NEW c \in Peers
        PROVE  /\ p[c] \in Peer /\ p[c].joined = FALSE /\ p[c].cursor \in 0..1 /\ p[c].pos = p[c].cursor
               /\ p[c].told = "none" /\ p[c].owed = 0 /\ p[c].gap = FALSE /\ p[c].late = FALSE
    <2>1. PICK n \in 0..1 :
             p[c] = [joined |-> FALSE, cursor |-> n, pos |-> n,
                     part |-> <<"none", 0, 0>>, told |-> "none", owed |-> 0,
                     unacked |-> FALSE, gap |-> FALSE, late |-> FALSE]
      OBVIOUS
    <2>2. n \in 0..MaxHead /\ 0 \in 0..MaxHead /\ 0 \in 0..Chunks /\ 0 \in 0..MaxMessages
      BY ConstantsAre
    <2> QED BY <2>1, <2>2 DEF Peer
  <1>5. p \in [Peers -> Peer]
    <2> DEFINE S == {[joined |-> FALSE, cursor |-> n, pos |-> n,
                     part |-> <<"none", 0, 0>>, told |-> "none", owed |-> 0,
                     unacked |-> FALSE, gap |-> FALSE, late |-> FALSE] : n \in 0..1}
    <2>1. p \in [Peers -> S]
      OBVIOUS
    <2> HIDE DEF S
    <2> QED BY <2>1, <1>4
  <1>6. TypeI
    <2>1. up = TRUE /\ moved = FALSE /\ members = {} /\ head = 1 /\ snap = 1 /\ messages = 0 /\ failures = 0
      OBVIOUS
    <2> HIDE DEF Init
    <2>2. up \in BOOLEAN /\ moved \in BOOLEAN /\ members \in SUBSET Peers
      BY <2>1
    <2>3. \A i \in 1..Len(pending) : pending[i].item[1] \in Kinds
      BY <1>2
    <2>4. head \in Nat /\ snap \in 1..head /\ messages \in 0..MaxMessages /\ failures \in Nat
      BY <2>1, ConstantsAre
    <2> QED BY <2>2, <2>3, <2>4, <1>2, <1>5 DEF TypeI
  <1>7. KnownI /\ OverI /\ NothingAfterRetired /\ CaughtUpI /\ ToldI /\ QueueI
    BY <1>1, <1>2, <1>4 DEF KnownI, OverI, NothingAfterRetired, CaughtUpI, ToldI, QueueI
  <1>8. CountI
    BY <1>1, <1>2 DEF CountI
  <1>9. PositionsI
    BY <1>4 DEF PositionsI, PositionFits
  <1>10. OwedI
    <2>1. \A c \in Peers : Pushes(pending, c) = 0 /\ AtHand(stack, c) = 0
      BY <1>1, NoPushes DEF AtHand
    <2> QED BY <2>1, <1>4 DEF OwedI
  <1> QED BY <1>3, <1>6, <1>7, <1>8, <1>9, <1>10 DEF IInv

LEMMA NextKeeps ==
    ASSUME IInv, [Next]_vars
    PROVE  IInv'
  <1>1. CASE HubStep
    <2>1. CASE PeerReturns
      BY <2>1, PeerReturnsKeeps
    <2>2. CASE RetireStep
      BY <2>2, RetireStepKeeps
    <2>3. CASE JoinStep
      BY <2>3, JoinKeeps
    <2>4. CASE DeliverStep
      BY <2>4, DeliverKeeps
    <2>5. CASE DrainStep
      BY <2>5, DrainKeeps
    <2>6. CASE ProcessStep
      BY <2>6, ProcessKeeps
    <2> QED BY <1>1, <2>1, <2>2, <2>3, <2>4, <2>5, <2>6 DEF HubStep
  <1>2. CASE RetireCall
    BY <1>2, RetireCallKeeps
  <1>3. CASE ReplacedElsewhere
    BY <1>3, ReplacedElsewhereKeeps
  <1>4. ASSUME NEW c \in Peers, JoinCall(c)
        PROVE  IInv'
    BY <1>4, JoinCallKeeps
  <1>5. ASSUME NEW c \in Peers, ReceiveCall(c)
        PROVE  IInv'
    BY <1>5, ReceiveKeeps
  <1>6. ASSUME NEW c \in Peers, LeaveCall(c)
        PROVE  IInv'
    BY <1>6, LeaveCallKeeps
  <1>7. CASE UNCHANGED vars
    <2>1. /\ UNCHANGED <<stack, log, p, messages, failures>> /\ LifeKept
          /\ moved' \in BOOLEAN /\ up' = up
      BY <1>7 DEF vars, log, LifeKept, IInv, TypeI
    <2> QED BY <2>1, StillKeeps
  <1> QED BY <1>1, <1>2, <1>3, <1>4, <1>5, <1>6, <1>7 DEF Next

THEOREM Invariance == Spec => []IInv
  <1>1. Init => IInv
    BY InitIs
  <1>2. IInv /\ [Next]_vars => IInv'
    BY NextKeeps
  <1> QED BY <1>1, <1>2, PTL DEF Spec

\* The state has its type, and whatever peers do inside a send, each of them
\* sees whole payloads, positions without a gap and acks one past what it holds,
\* unless storage failed between an append and its ack.
THEOREM HistoryIsContiguous == Spec => []Contiguous
  <1>1. IInv => Contiguous
    <2> SUFFICES ASSUME IInv PROVE Contiguous
      OBVIOUS
    <2>1. TypeI /\ OverI /\ CountI /\ PositionsI /\ Structured(stack)
      BY DEF IInv
    <2>2. \A k \in DOMAIN stack : stack[k].op \in {"peer", "retire", "join", "deliver", "drain", "process"}
      <3>1. stack \in Seq(Call) /\ DOMAIN stack = 1..Len(stack)
        BY <2>1 DEF Structured
      <3>2. \A k \in DOMAIN stack : stack[k] \in Call
        BY <3>1
      <3> QED BY <3>2 DEF Call, Ops
    <2>3. head \in 1..MaxHead /\ snap \in 1..head
      <3>1. head \in Nat /\ snap \in 1..head /\ Len(pending) \in Nat /\ messages \in 0..MaxMessages
        BY <2>1 DEF TypeI
      <3>2. head + Len(pending) <= 1 + messages
        BY <2>1 DEF CountI
      <3> DEFINE n == Len(pending)
      <3> HIDE DEF n
      <3>3. head <= 1 + messages
        BY <3>1, <3>2 DEF n
      <3> QED BY <3>1, <3>3, ConstantsAre DEF MaxHead
    <2>4. ~up => members = {} /\ pending = <<>>
      BY <2>1 DEF OverI
    <2>5. TypeOK
      BY <2>1, <2>2, <2>3, <2>4 DEF TypeOK, TypeI
    <2>6. ASSUME NEW c \in Peers, p[c].gap
          PROVE  p[c].unacked
      <3>1. p[c].gap = TRUE
        BY <2>1, <2>6 DEF TypeI, Peer
      <3>2. p[c].unacked = TRUE
        BY <2>1, <3>1 DEF PositionsI, PositionFits
      <3> QED BY <3>2
    <2> QED BY <2>5, <2>6 DEF Contiguous
  <1> QED BY <1>1, Invariance, PTL

\* Once a peer was told that its generation is retired it gets no history and no
\* answer from this hub, also when it pushes or joins inside the notice.
THEOREM RetiredIsLast == Spec => []NothingAfterRetired
  <1>1. IInv => NothingAfterRetired
    BY DEF IInv
  <1> QED BY <1>1, Invariance, PTL

\* When no call is under way nothing is queued, and every member was admitted,
\* is at the head and has its answers, unless storage failed under them.
THEOREM NothingStranded == Spec => []NoStrandedMessage
  <1>1. IInv => NoStrandedMessage
    <2> SUFFICES ASSUME IInv, stack = <<>>
                 PROVE  /\ pending = <<>>
                        /\ \A c \in members : /\ p[c].owed = 0 \/ p[c].unacked
                                              /\ p[c].cursor = head \/ failures > 0
                                              /\ p[c].told = "admitted"
      BY DEF NoStrandedMessage
    <2>1. \A role, c : ~Has(stack, role, c)
      BY NoCalls
    <2>2. TypeI /\ OverI /\ OwedI /\ CaughtUpI /\ ToldI /\ QueueI
      BY DEF IInv
    <2>3. pending = <<>>
      BY <2>1, <2>2 DEF QueueI
    <2>4. ASSUME NEW c \in members
          PROVE  /\ p[c].owed = 0 \/ p[c].unacked
                 /\ p[c].cursor = head \/ failures > 0
                 /\ p[c].told = "admitted"
      <3>1. c \in Peers /\ up
        BY <2>2 DEF TypeI, OverI
      <3>2. Pushes(pending, c) = 0 /\ AtHand(stack, c) = 0
        BY <2>1, <2>3, NoPushes DEF AtHand
      <3>3. p[c].unacked = TRUE \/ p[c].owed = Pushes(pending, c) + AtHand(stack, c)
        BY <2>2, <3>1 DEF OwedI
      <3>4. p[c].owed = 0 \/ p[c].unacked
        BY <3>2, <3>3
      <3> QED BY <3>4, <2>1, <2>2 DEF CaughtUpI, ToldI
    <2> QED BY <2>3, <2>4
  <1> QED BY <1>1, Invariance, PTL
=============================================================================
