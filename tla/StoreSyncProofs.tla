-------------------------- MODULE StoreSyncProofs ---------------------------
(***************************************************************************)
(* Proofs about StoreSync, for every set of replicas, every number of      *)
(* edits, every set of failures and every bound.                           *)
(*                                                                         *)
(* The inductive invariant has one part for the authority and one for each *)
(* replica with its socket.  The parts are predicates of values: `h` is    *)
(* the history, `n` the number of edits made so far, and of a replica `lv` *)
(* is the document in memory, `q` the queue, `sv`, `ow`, `wr` and `dc`     *)
(* what its storage confirmed, `cu` the cursor, `ak` and `out` the two row *)
(* ids of the client, `cn` the state of the socket, `cs` and `sc` its      *)
(* frames, `hc` and `at` the hub's two records of it, `lt` what an         *)
(* abandoned socket still brings, `rf` what the replica cannot apply.      *)
(***************************************************************************)
EXTENDS StoreSync, FiniteSetTheorems, WellFoundedInduction, TLAPS

Op == [kind : {"append"}, bytes : Update, seq : Nat]
        \union [kind : {"ack"}, throughId : Nat, seq : Nat]

UpFrame == [kind : {"push"}, bytes : Update]
             \union [kind : {"offer"}, position : Nat, bytes : Update]

DownFrame == [kind : {"admitted", "refuse"}]
               \union [kind : {"ack"}, seq : Nat]
               \union [kind : {"wanted"}, position : Nat]
               \union [kind : {"entry"}, seq : Nat, bytes : Update]
               \union [kind : {"snapshot"}, position : Nat, bytes : Update]

\* Everything logged through p is in the document d.
Covered(h, p, d) == \A i \in 1..p : h[i] \subseteq d

Logged(h, e) == \E i \in 1..Len(h) : e \in h[i]

\* The first k operations of a queue bring the edit e.
Brings(q, k, e) == \E j \in 1..k : q[j].kind = "append" /\ e \in q[j].bytes

IsOwn(op) == op.kind = "append" /\ op.seq = 0
-----------------------------------------------------------------------------
(* The parts of the invariant *)

\* p is the newest snapshot position and the log is the history after it.
TailAfter(lg, sn, h, p) ==
    /\ p \in Positions(sn)
    /\ \A x \in Positions(sn) : x <= p
    /\ lg = {[seq |-> i, bytes |-> h[i]] : i \in (p + 1)..Len(h)}

Stored(lg, sn, h, n) ==
    /\ h \in Seq(Update)
    /\ n \in 0..MaxEdits
    /\ \A i \in 1..Len(h) : h[i] \subseteq 1..n
    /\ \E p \in 1..Len(h) : TailAfter(lg, sn, h, p)
    /\ \A s \in sn : /\ s \in SnapshotRow
                     /\ s.position \in 1..Len(h)
                     /\ s.bytes \subseteq 1..n
                     /\ Covered(h, s.position, s.bytes)

\* What is in memory is durable or on its way, every cursor on the way is
\* behind the bytes it stands for, and the replica's own edits become durable
\* in the order of their numbers.
Store(h, n, lv, q, sv, ow, wr, dc, cu) ==
    /\ q \in Seq(Op)
    /\ ow \subseteq wr /\ wr \subseteq sv /\ sv \subseteq lv /\ lv \subseteq 1..n
    /\ \A e \in lv : e \in sv \/ Brings(q, Len(q), e)
    /\ \A k \in 1..Len(q) :
         /\ q[k].kind = "append" => q[k].bytes \subseteq lv
         /\ q[k].seq <= cu
         /\ \A i \in 1..q[k].seq : \A e \in h[i] : e \in sv \/ Brings(q, k, e)
         /\ IsOwn(q[k]) => \A e \in q[k].bytes : \A x \in wr : x < e
    /\ \A j, k \in 1..Len(q) : j < k /\ IsOwn(q[j]) /\ IsOwn(q[k]) =>
         \A d \in q[j].bytes, e \in q[k].bytes : d < e
    /\ cu \in 0..Len(h) /\ dc \in 0..cu
    /\ Covered(h, cu, lv) /\ Covered(h, dc, sv)
    /\ dc = 0 => cu = 0
    /\ cu = 0 => lv = {} /\ q = <<>>

\* t is an own row, and nothing up to it is owed that is not logged.
Settles(h, ow, wr, t) ==
    /\ t \in wr \union {0}
    /\ \A e \in ow : e <= t => Logged(h, e)

Session(h, q, ow, wr, ak, out) ==
    /\ \A e \in wr : e \in ow \/ Logged(h, e)
    /\ Settles(h, ow, wr, ak)
    /\ \A k \in 1..Len(q) : q[k].kind = "ack" => Settles(h, ow, wr, q[k].throughId)
    /\ out \in wr \union {0}

\* One submission is unanswered at a time, and it or its acknowledgement
\* accounts for every owed row through `out`.
Flight(h, ow, out, cn, cs, sc) ==
    /\ \A j, k \in 1..Len(cs) : cs[j].kind = "push" /\ cs[k].kind = "push" => j = k
    /\ \A j, k \in 1..Len(sc) :
         sc[j].kind \in {"ack", "refuse"} /\ sc[k].kind \in {"ack", "refuse"} => j = k
    /\ \A j \in 1..Len(cs), k \in 1..Len(sc) :
         ~(cs[j].kind = "push" /\ sc[k].kind \in {"ack", "refuse"})
    /\ out = 0 => /\ \A j \in 1..Len(cs) : cs[j].kind # "push"
                  /\ \A k \in 1..Len(sc) : sc[k].kind \notin {"ack", "refuse"}
    /\ cn # "attached" => out = 0
    /\ \A j \in 1..Len(cs) : cs[j].kind = "push" =>
         \A e \in ow : e <= out => e \in cs[j].bytes \/ Logged(h, e)
    /\ \A k \in 1..Len(sc) : sc[k].kind = "ack" =>
         \A e \in ow : e <= out => Logged(h, e)

\* A frame of the hub tells the truth about the log.
Honest(h, n, wr, f) ==
    /\ f \in DownFrame
    /\ f.kind = "entry" => f.seq \in 1..Len(h) /\ f.bytes = h[f.seq]
    /\ f.kind = "snapshot" =>
         f.position \in 1..Len(h) /\ f.bytes \subseteq 1..n /\ Covered(h, f.position, f.bytes)
    /\ f.kind = "ack" => f.seq \in 1..Len(h) /\ h[f.seq] \subseteq wr

\* Some frame brings what was logged at position i.
Carried(frames, i) ==
    \E k \in 1..Len(frames) :
        \/ frames[k].kind = "entry" /\ frames[k].seq = i
        \/ frames[k].kind = "snapshot" /\ frames[k].position >= i

\* What the hub has on its record for a socket is in the document or on the
\* wire, unless the replica cannot apply it.
Down(h, n, lv, wr, sc, hc, at, rf) ==
    /\ sc \in Seq(DownFrame)
    /\ \A k \in 1..Len(sc) : Honest(h, n, wr, sc[k])
    /\ hc \in 0..Len(h) /\ at \in 0..hc
    /\ rf = {} => \A i \in 1..hc : h[i] \subseteq lv \/ Carried(sc, i)

\* A push is durable work of its replica, an offer covers its position.
Fair(h, n, wr, f) ==
    /\ f \in UpFrame
    /\ f.kind = "push" => f.bytes \subseteq wr
    /\ f.kind = "offer" =>
         f.position \in 0..Len(h) /\ f.bytes \subseteq 1..n /\ Covered(h, f.position, f.bytes)

Up(h, n, wr, cs) ==
    /\ cs \in Seq(UpFrame)
    /\ \A k \in 1..Len(cs) : Fair(h, n, wr, cs[k])

\* A socket that is down carries nothing, and only an installed replica dials.
Closed(cu, cn, cs, sc, hc, at) ==
    /\ cn \in {"down", "dialled", "attached"}
    /\ cn # "down" => cu > 0
    /\ cn = "down" => cs = <<>> /\ sc = <<>> /\ hc = 0 /\ at = 0

StoredI == Stored(log, snaps, history, Len(deps))
StoreI(r) == Store(history, Len(deps), live[r], queue[r], saved[r], owed[r], written[r],
                   durableCursor[r], cursor[r])
SessionI(r) == Session(history, queue[r], owed[r], written[r],
                       acknowledgedThroughId[r], outstanding[r])
FlightI(r) == Flight(history, owed[r], outstanding[r], conn[r], c2s[r], s2c[r])
DownI(r) == Down(history, Len(deps), live[r], written[r], s2c[r], hubCursor[r],
                 attachment[r], refuses[r])
UpI(r) == Up(history, Len(deps), written[r], c2s[r])
LateI(r) == Up(history, Len(deps), written[r], late[r].frames)
ClosedI(r) == Closed(cursor[r], conn[r], c2s[r], s2c[r], hubCursor[r], attachment[r])

\* Every variable that belongs to the replicas has a value for each.
IsFn(f) == f = [r \in Replicas |-> f[r]]

Shape ==
    /\ IsFn(live) /\ IsFn(queue) /\ IsFn(saved) /\ IsFn(owed) /\ IsFn(written)
    /\ IsFn(durableCursor) /\ IsFn(cursor) /\ IsFn(acknowledgedThroughId)
    /\ IsFn(outstanding) /\ IsFn(conn) /\ IsFn(c2s) /\ IsFn(s2c)
    /\ IsFn(hubCursor) /\ IsFn(attachment)
    /\ late \in [Replicas -> [frames : Seq(UpFrame), cursor : Nat]]
    /\ deps \in Seq(Update)
    /\ idle \in [Replicas -> BOOLEAN]
    /\ refuses \in [Replicas -> Update] /\ failures \in 0..MaxFailures
    /\ lastError \in [Replicas -> {"none", "Gap", "Unapplyable", "Refused"}]

IInv ==
    /\ Shape
    /\ StoredI
    /\ \A r \in Replicas : StoreI(r)
    /\ \A r \in Replicas : SessionI(r)
    /\ \A r \in Replicas : FlightI(r)
    /\ \A r \in Replicas : DownI(r)
    /\ \A r \in Replicas : UpI(r)
    /\ \A r \in Replicas : LateI(r)
    /\ \A r \in Replicas : ClosedI(r)

-----------------------------------------------------------------------------
(* Numbers and sequences *)

\* A bounded nonempty set of numbers has a greatest element, which MaxOr0 finds.
LEMMA BoundedHasMax ==
    ASSUME NEW S \in SUBSET Nat, S # {}, NEW b \in Nat, \A x \in S : x <= b
    PROVE  \E m \in S : \A x \in S : x <= m
<1>. DEFINE U == {n \in Nat : \A x \in S : x <= n}
            Less == OpToRel(<, Nat)
<1>1. U \subseteq Nat /\ U # {}
  OBVIOUS
<1>2. IsWellFoundedOn(Less, Nat)
  BY NatLessThanWellFounded
<1>3. \E m \in U : \A y \in U : ~(<<y, m>> \in Less)
  <2>. HIDE DEF U, Less
  <2>. QED
    BY <1>1, <1>2, WFMin
<1>4. PICK m \in U : \A y \in U : ~(y < m)
  <2>1. \A y, m \in Nat : <<y, m>> \in Less <=> y < m
    BY DEF OpToRel
  <2>. HIDE DEF Less
  <2>. QED
    BY <1>3, <2>1
<1>5. m \in S
  <2>. SUFFICES ASSUME m \notin S PROVE FALSE
    OBVIOUS
  <2>1. \A x \in S : x <= m - 1
    OBVIOUS
  <2>2. m - 1 \in Nat
    <3>1. PICK x \in S : x \in Nat
      OBVIOUS
    <3>. QED
      BY <2>1, <3>1
  <2>. QED
    BY <1>4, <2>1, <2>2
<1>. QED
  BY <1>5

LEMMA MaxOr0Finds ==
    ASSUME NEW S \in SUBSET Nat, NEW b \in Nat, \A x \in S : x <= b
    PROVE  /\ MaxOr0(S) \in Nat
           /\ MaxOr0(S) <= b
           /\ \A x \in S : x <= MaxOr0(S)
           /\ S # {} => MaxOr0(S) \in S
<1>1. CASE S = {}
  BY <1>1 DEF MaxOr0
<1>2. CASE S # {}
  <2>1. \E m \in S : \A x \in S : x <= m
    BY <1>2, BoundedHasMax
  <2>. QED
    BY <1>2, <2>1 DEF MaxOr0
<1>. QED
  BY <1>1, <1>2

LEMMA MaxOfTwo ==
    ASSUME NEW x \in Nat, NEW y \in Nat
    PROVE  MaxOr0({x, y}) = IF x > y THEN x ELSE y
<1>. DEFINE S == {x, y}
<1>1. S \in SUBSET Nat /\ S # {} /\ x + y \in Nat /\ \A z \in S : z <= x + y
  OBVIOUS
<1>2. MaxOr0(S) \in S /\ \A z \in S : z <= MaxOr0(S)
  <2>. HIDE DEF S
  <2>. QED
    BY <1>1, MaxOr0Finds
<1>. QED
  BY <1>2

\* The greatest element of a set is the one that bounds it.
LEMMA MaxOr0Is ==
    ASSUME NEW S \in SUBSET Nat, NEW m \in S, \A x \in S : x <= m
    PROVE  MaxOr0(S) = m
<1>1. \A y \in S : (\A x \in S : x <= y) => y = m
  OBVIOUS
<1>. QED
  BY <1>1 DEF MaxOr0

LEMMA LengthOf ==
    ASSUME NEW m \in Nat, NEW f, f = [k \in 1..m |-> f[k]]
    PROVE  Len(f) = m /\ (f = <<>> <=> m = 0)
<1>. DEFINE T == {f[k] : k \in 1..m}
<1>1. f \in [1..m -> T]
  OBVIOUS
<1>. HIDE DEF T
<1>2. f \in Seq(T) /\ Len(f) = m
  BY <1>1
<1>. QED
  BY <1>2

\* What a sequence is after its head is taken.
LEMMA TailFacts ==
    ASSUME NEW T, NEW s \in Seq(T), s # <<>>
    PROVE  /\ Tail(s) \in Seq(T)
           /\ Len(s) \in Nat /\ Len(s) >= 1
           /\ Len(Tail(s)) = Len(s) - 1
           /\ Head(s) = s[1] /\ Head(s) \in T
           /\ \A k \in 1..Len(Tail(s)) : k + 1 \in 1..Len(s) /\ Tail(s)[k] = s[k + 1]
  OBVIOUS

LEMMA AppendFacts ==
    ASSUME NEW T, NEW s \in Seq(T), NEW x \in T
    PROVE  /\ Append(s, x) \in Seq(T)
           /\ Len(s) \in Nat
           /\ Len(Append(s, x)) = Len(s) + 1
           /\ Append(s, x)[Len(s) + 1] = x
           /\ \A k \in 1..Len(s) : Append(s, x)[k] = s[k]
           /\ \A k \in 1..Len(Append(s, x)) : k \in 1..Len(s) \/ k = Len(s) + 1
  OBVIOUS

LEMMA ConcatFacts ==
    ASSUME NEW T, NEW s \in Seq(T), NEW t \in Seq(T)
    PROVE  /\ s \o t \in Seq(T)
           /\ Len(s) \in Nat /\ Len(t) \in Nat
           /\ Len(s \o t) = Len(s) + Len(t)
           /\ \A k \in 1..Len(s) : (s \o t)[k] = s[k]
           /\ \A k \in 1..Len(t) : (s \o t)[Len(s) + k] = t[k]
           /\ \A k \in 1..Len(s \o t) :
                k \in 1..Len(s) \/ \E j \in 1..Len(t) : k = Len(s) + j
<1>. DEFINE c == s \o t
<1>1. /\ c \in Seq(T) /\ Len(s) \in Nat /\ Len(t) \in Nat /\ Len(c) = Len(s) + Len(t)
      /\ \A k \in 1..Len(s) : c[k] = s[k]
      /\ \A k \in 1..Len(t) : c[Len(s) + k] = t[k]
  OBVIOUS
<1>2. \A k \in 1..Len(c) : k \in 1..Len(s) \/ \E j \in 1..Len(t) : k = Len(s) + j
  <2>. HIDE DEF c
  <2>. SUFFICES ASSUME NEW k \in 1..Len(c), k \notin 1..Len(s)
                PROVE  \E j \in 1..Len(t) : k = Len(s) + j
    OBVIOUS
  <2>1. k - Len(s) \in 1..Len(t) /\ k = Len(s) + (k - Len(s))
    BY <1>1
  <2>. QED
    BY <2>1
<1>. QED
  BY <1>1, <1>2


\* The same facts under one name.
Joins(T, s, t, c) ==
    /\ c \in Seq(T) /\ Len(s) \in Nat /\ Len(t) \in Nat /\ Len(c) = Len(s) + Len(t)
    /\ \A k \in 1..Len(s) : c[k] = s[k]
    /\ \A k \in 1..Len(t) : c[Len(s) + k] = t[k]
    /\ \A k \in 1..Len(c) : k \in 1..Len(s) \/ \E j \in 1..Len(t) : k = Len(s) + j

LEMMA ConcatJoins ==
    ASSUME NEW T, NEW s \in Seq(T), NEW t \in Seq(T)
    PROVE  Joins(T, s, t, s \o t)
  BY ConcatFacts DEF Joins
-----------------------------------------------------------------------------
(* Nothing that the log, the number of edits or a document gains breaks a    *)
(* part of the invariant.                                                    *)

Grows(h, H) ==
    /\ h \in Seq(Update) /\ H \in Seq(Update)
    /\ Len(h) \in Nat /\ Len(H) \in Nat /\ Len(h) <= Len(H)
    /\ \A i \in 1..Len(h) : H[i] = h[i]

LEMMA GrowsSelf ==
    ASSUME NEW h \in Seq(Update) PROVE Grows(h, h)
  BY DEF Grows

LEMMA GrowsAppend ==
    ASSUME NEW h \in Seq(Update), NEW b \in Update
    PROVE  /\ Grows(h, Append(h, b))
           /\ Len(Append(h, b)) = Len(h) + 1
           /\ Append(h, b)[Len(h) + 1] = b
<1>1. Append(h, b) \in Seq(Update) /\ Len(Append(h, b)) = Len(h) + 1 /\ Len(h) \in Nat
      /\ Append(h, b)[Len(h) + 1] = b /\ \A i \in 1..Len(h) : Append(h, b)[i] = h[i]
  BY AppendFacts
<1>. QED
  BY <1>1 DEF Grows

LEMMA CoveredGrows ==
    ASSUME NEW h, NEW H, Grows(h, H), NEW p \in 0..Len(h), NEW d, NEW D,
           d \subseteq D, Covered(h, p, d)
    PROVE  p \in 0..Len(H) /\ Covered(H, p, D)
  BY DEF Grows, Covered

LEMMA LoggedGrows ==
    ASSUME NEW h, NEW H, Grows(h, H), NEW e, Logged(h, e) PROVE Logged(H, e)
  BY DEF Grows, Logged

LEMMA StoreGrows ==
    ASSUME NEW h, NEW H, Grows(h, H), NEW n \in Nat, NEW N \in Nat, n <= N,
           NEW lv, NEW q, NEW sv, NEW ow, NEW wr, NEW dc, NEW cu,
           Store(h, n, lv, q, sv, ow, wr, dc, cu)
    PROVE  Store(H, N, lv, q, sv, ow, wr, dc, cu)
<1>. USE DEF Store
<1>1. cu \in 0..Len(H) /\ Covered(H, cu, lv) /\ dc \in 0..Len(h) /\ Covered(H, dc, sv)
  <2>1. dc \in 0..Len(h)
    BY DEF Grows
  <2>. QED
    BY <2>1, CoveredGrows
<1>2. lv \subseteq 1..N
  OBVIOUS
<1>3. \A k \in 1..Len(q) : \A i \in 1..q[k].seq : H[i] = h[i]
  <2>. SUFFICES ASSUME NEW k \in 1..Len(q), NEW i \in 1..q[k].seq PROVE H[i] = h[i]
    OBVIOUS
  <2>1. q[k].seq \in Nat
    BY DEF Op
  <2>2. i \in 1..Len(h)
    BY <2>1 DEF Grows
  <2>. QED
    BY <2>2 DEF Grows
<1>. QED
  BY <1>1, <1>2, <1>3

LEMMA SessionGrows ==
    ASSUME NEW h, NEW H, Grows(h, H), NEW q, NEW ow, NEW wr, NEW ak, NEW out,
           Session(h, q, ow, wr, ak, out)
    PROVE  Session(H, q, ow, wr, ak, out)
<1>1. \A e : Logged(h, e) => Logged(H, e)
  BY LoggedGrows
<1>. QED
  BY <1>1 DEF Session, Settles

LEMMA FlightGrows ==
    ASSUME NEW h, NEW H, Grows(h, H), NEW ow, NEW out, NEW cn, NEW cs, NEW sc,
           Flight(h, ow, out, cn, cs, sc)
    PROVE  Flight(H, ow, out, cn, cs, sc)
<1>1. \A e : Logged(h, e) => Logged(H, e)
  BY LoggedGrows
<1>. QED
  BY <1>1 DEF Flight

LEMMA HonestGrows ==
    ASSUME NEW h, NEW H, Grows(h, H), NEW n \in Nat, NEW N \in Nat, n <= N,
           NEW wr, NEW WR, wr \subseteq WR, NEW f, Honest(h, n, wr, f)
    PROVE  Honest(H, N, WR, f)
<1>. USE DEF Honest
<1>1. f.kind = "entry" => f.seq \in 1..Len(H) /\ f.bytes = H[f.seq]
  BY DEF Grows
<1>2. f.kind = "snapshot" =>
        f.position \in 1..Len(H) /\ f.bytes \subseteq 1..N /\ Covered(H, f.position, f.bytes)
  BY DEF Grows, Covered
<1>3. f.kind = "ack" => f.seq \in 1..Len(H) /\ H[f.seq] \subseteq WR
  BY DEF Grows
<1>. QED
  BY <1>1, <1>2, <1>3

LEMMA DownGrows ==
    ASSUME NEW h, NEW H, Grows(h, H), NEW n \in Nat, NEW N \in Nat, n <= N,
           NEW lv, NEW LV, lv \subseteq LV, NEW wr, NEW WR, wr \subseteq WR,
           NEW sc, NEW hc, NEW at, NEW rf,
           Down(h, n, lv, wr, sc, hc, at, rf)
    PROVE  Down(H, N, LV, WR, sc, hc, at, rf)
<1>1. \A k \in 1..Len(sc) : Honest(H, N, WR, sc[k])
  BY HonestGrows DEF Down
<1>2. hc \in 0..Len(H) /\ \A i \in 1..hc : H[i] = h[i]
  BY DEF Down, Grows
<1>. QED
  BY <1>1, <1>2 DEF Down

LEMMA FairGrows ==
    ASSUME NEW h, NEW H, Grows(h, H), NEW n \in Nat, NEW N \in Nat, n <= N,
           NEW wr, NEW WR, wr \subseteq WR, NEW f, Fair(h, n, wr, f)
    PROVE  Fair(H, N, WR, f)
<1>. USE DEF Fair
<1>1. f.kind = "offer" =>
        f.position \in 0..Len(H) /\ f.bytes \subseteq 1..N /\ Covered(H, f.position, f.bytes)
  BY DEF Grows, Covered
<1>. QED
  BY <1>1

LEMMA UpGrows ==
    ASSUME NEW h, NEW H, Grows(h, H), NEW n \in Nat, NEW N \in Nat, n <= N,
           NEW wr, NEW WR, wr \subseteq WR, NEW cs, Up(h, n, wr, cs)
    PROVE  Up(H, N, WR, cs)
  BY FairGrows DEF Up

-----------------------------------------------------------------------------
(* The replica's store *)

\* An operation joins the queue: an edit, received bytes or an acknowledgement.
LEMMA StoreQueues ==
    ASSUME NEW h \in Seq(Update), NEW n \in Nat, NEW N \in Nat, n <= N,
           NEW lv, NEW q, NEW sv, NEW ow, NEW wr, NEW dc, NEW cu,
           Store(h, n, lv, q, sv, ow, wr, dc, cu), cu > 0,
           NEW op \in Op, NEW LV, NEW p \in cu..Len(h),
           LV = IF op.kind = "append" THEN lv \union op.bytes ELSE lv,
           LV \subseteq 1..N, op.seq <= p, Covered(h, p, LV),
           IsOwn(op) => \A e \in op.bytes : e > n
    PROVE  Store(h, N, LV, Append(q, op), sv, ow, wr, dc, p)
<1>. DEFINE Q == Append(q, op)
<1>1. q \in Seq(Op) /\ cu \in 0..Len(h) /\ dc \in 0..cu
  BY DEF Store
<1>2. /\ Q \in Seq(Op) /\ Len(q) \in Nat /\ Len(Q) = Len(q) + 1 /\ Q[Len(q) + 1] = op
      /\ \A k \in 1..Len(q) : Q[k] = q[k]
      /\ \A k \in 1..Len(Q) : k \in 1..Len(q) \/ k = Len(q) + 1
  BY <1>1, AppendFacts
<1>. HIDE DEF Q
<1>3. \A k \in 1..Len(q) : \A e : Brings(q, k, e) => Brings(Q, k, e) /\ Brings(Q, Len(Q), e)
  BY <1>2 DEF Brings
<1>4. op.kind = "append" => \A e \in op.bytes : Brings(Q, Len(Q), e)
  BY <1>2 DEF Brings
<1>5. \A e \in LV : e \in sv \/ Brings(Q, Len(Q), e)
  <2>1. \A e \in lv : e \in sv \/ Brings(Q, Len(Q), e)
    <3>1. \A e : Brings(q, Len(q), e) => Brings(Q, Len(Q), e)
      BY <1>2 DEF Brings
    <3>. QED
      BY <3>1 DEF Store
  <2>. QED
    BY <1>4, <2>1
<1>6. ow \subseteq wr /\ wr \subseteq sv /\ sv \subseteq LV
  BY DEF Store
<1>7. ASSUME NEW k \in 1..Len(Q)
      PROVE  /\ Q[k].kind = "append" => Q[k].bytes \subseteq LV
             /\ Q[k].seq <= p
             /\ \A i \in 1..Q[k].seq : \A e \in h[i] : e \in sv \/ Brings(Q, k, e)
             /\ IsOwn(Q[k]) => \A e \in Q[k].bytes : \A x \in wr : x < e
  <2>1. CASE k \in 1..Len(q)
    <3>1. Q[k] = q[k] /\ q[k] \in Op /\ q[k].seq \in Nat
      BY <1>1, <1>2, <2>1 DEF Op
    <3>2. q[k].kind = "append" => q[k].bytes \subseteq LV
      BY <2>1 DEF Store
    <3>3. q[k].seq <= p
      BY <1>1, <2>1, <3>1 DEF Store
    <3>4. \A i \in 1..q[k].seq : \A e \in h[i] : e \in sv \/ Brings(Q, k, e)
      BY <1>3, <2>1 DEF Store
    <3>5. IsOwn(q[k]) => \A e \in q[k].bytes : \A x \in wr : x < e
      BY <2>1 DEF Store
    <3>. QED
      BY <3>1, <3>2, <3>3, <3>4, <3>5
  <2>2. CASE k = Len(q) + 1
    <3>1. Q[k] = op /\ op.seq \in Nat /\ k = Len(Q)
      BY <1>2, <2>2 DEF Op
    <3>2. \A i \in 1..op.seq : \A e \in h[i] : e \in sv \/ Brings(Q, k, e)
      <4>1. \A i \in 1..op.seq : h[i] \subseteq LV
        BY <1>1, <3>1 DEF Covered
      <4>. QED
        BY <1>5, <3>1, <4>1
    <3>3. IsOwn(op) => \A e \in op.bytes : \A x \in wr : x < e
      <4>. SUFFICES ASSUME IsOwn(op), NEW e \in op.bytes, NEW x \in wr PROVE x < e
        OBVIOUS
      <4>1. e > n
        OBVIOUS
      <4>2. e \in 1..N /\ x \in 1..n
        BY DEF Store, IsOwn
      <4>. QED
        BY <4>1, <4>2
    <3>. QED
      BY <3>1, <3>2, <3>3
  <2>. QED
    BY <1>2, <2>1, <2>2
<1>8. ASSUME NEW j \in 1..Len(Q), NEW k \in 1..Len(Q), j < k, IsOwn(Q[j]), IsOwn(Q[k])
      PROVE  \A d \in Q[j].bytes, e \in Q[k].bytes : d < e
  <2>1. j \in 1..Len(q) /\ Q[j] = q[j]
    BY <1>2, <1>8
  <2>2. CASE k \in 1..Len(q)
    BY <1>2, <1>8, <2>1, <2>2 DEF Store
  <2>3. CASE k = Len(q) + 1
    <3>1. Q[k] = op
      BY <1>2, <2>3
    <3>2. \A e \in op.bytes : e > n /\ e \in 1..N
      BY <1>8, <3>1 DEF IsOwn
    <3>3. \A d \in q[j].bytes : d \in 1..n
      BY <1>8, <2>1 DEF Store, IsOwn
    <3>. QED
      BY <2>1, <3>1, <3>2, <3>3
  <2>. QED
    BY <1>2, <2>2, <2>3
<1>9. p \in 0..Len(h) /\ dc \in 0..p /\ Covered(h, dc, sv) /\ dc # 0 /\ p # 0
  BY <1>1 DEF Store
<1>10. Store(h, N, LV, Q, sv, ow, wr, dc, p)
  BY <1>2, <1>5, <1>6, <1>7, <1>8, <1>9 DEF Store
<1>. QED
  BY <1>10 DEF Q

\* The operation at the head of the queue becomes durable.
LEMMA StoreCommits ==
    ASSUME NEW h \in Seq(Update), NEW n \in Nat,
           NEW lv, NEW q, NEW sv, NEW ow, NEW wr, NEW dc, NEW cu,
           Store(h, n, lv, q, sv, ow, wr, dc, cu), q # <<>>,
           NEW SV, NEW OW, NEW WR,
           SV = IF Head(q).kind = "append" THEN sv \union Head(q).bytes ELSE sv,
           WR = IF IsOwn(Head(q)) THEN wr \union Head(q).bytes ELSE wr,
           OW \subseteq WR
    PROVE  Store(h, n, lv, Tail(q), SV, OW, WR, MaxOr0({dc, Head(q).seq}), cu)
<1>. DEFINE Q == Tail(q)
            op == Head(q)
            DC == MaxOr0({dc, op.seq})
<1>1. q \in Seq(Op) /\ cu \in 0..Len(h) /\ dc \in 0..cu
  BY DEF Store
<1>2. /\ Q \in Seq(Op) /\ Len(q) \in Nat /\ Len(q) >= 1 /\ Len(Q) = Len(q) - 1
      /\ op = q[1] /\ op \in Op
      /\ \A k \in 1..Len(Q) : k + 1 \in 1..Len(q) /\ Q[k] = q[k + 1]
  BY <1>1, TailFacts
<1>3. op.seq \in Nat /\ op.seq <= cu
  BY <1>2 DEF Op, Store
<1>4. DC = IF dc > op.seq THEN dc ELSE op.seq
  BY <1>1, <1>3, MaxOfTwo
<1>. HIDE DEF Q, op, DC
<1>5. \A e, k : k \in 0..Len(Q) /\ Brings(q, k + 1, e) => e \in SV \/ Brings(Q, k, e)
  <2>. SUFFICES ASSUME NEW e, NEW k \in 0..Len(Q), Brings(q, k + 1, e), e \notin SV
                PROVE  Brings(Q, k, e)
    OBVIOUS
  <2>1. PICK j \in 1..(k + 1) : q[j].kind = "append" /\ e \in q[j].bytes
    BY DEF Brings
  <2>2. j # 1
    BY <1>2, <2>1 DEF op
  <2>3. j - 1 \in 1..k /\ j - 1 \in 1..Len(Q) /\ (j - 1) + 1 = j
    BY <1>2, <2>1, <2>2
  <2>4. Q[j - 1] = q[j]
    BY <1>2, <2>3
  <2>. QED
    BY <2>1, <2>3, <2>4 DEF Brings
<1>6. \A e \in lv : e \in SV \/ Brings(Q, Len(Q), e)
  <2>1. Len(q) = Len(Q) + 1 /\ Len(Q) \in 0..Len(Q)
    BY <1>2
  <2>2. \A e \in lv : e \in SV \/ Brings(q, Len(q), e)
    BY DEF Store
  <2>. QED
    BY <1>5, <2>1, <2>2
<1>7. OW \subseteq WR /\ WR \subseteq SV /\ SV \subseteq lv /\ lv \subseteq 1..n
  <2>1. op.kind = "append" => op.bytes \subseteq lv
    BY <1>2 DEF Store
  <2>2. sv \subseteq SV /\ (op.kind = "append" => op.bytes \subseteq SV)
    BY DEF op
  <2>3. WR \subseteq SV
    BY <2>2 DEF Store, IsOwn, op
  <2>4. SV \subseteq lv
    BY <2>1 DEF Store, op
  <2>. QED
    BY <2>3, <2>4 DEF Store
<1>8. ASSUME NEW k \in 1..Len(Q)
      PROVE  /\ Q[k].kind = "append" => Q[k].bytes \subseteq lv
             /\ Q[k].seq <= cu
             /\ \A i \in 1..Q[k].seq : \A e \in h[i] : e \in SV \/ Brings(Q, k, e)
             /\ IsOwn(Q[k]) => \A e \in Q[k].bytes : \A x \in WR : x < e
  <2>1. k + 1 \in 1..Len(q) /\ Q[k] = q[k + 1] /\ k \in 0..Len(Q) /\ 1 \in 1..Len(q) /\ 1 < k + 1
    BY <1>2
  <2>2. /\ q[k + 1].kind = "append" => q[k + 1].bytes \subseteq lv
        /\ q[k + 1].seq <= cu
        /\ \A i \in 1..q[k + 1].seq : \A e \in h[i] : e \in sv \/ Brings(q, k + 1, e)
        /\ IsOwn(q[k + 1]) => \A e \in q[k + 1].bytes : \A x \in wr : x < e
    BY <2>1 DEF Store
  <2>3. IsOwn(q[1]) /\ IsOwn(q[k + 1]) => \A d \in q[1].bytes, e \in q[k + 1].bytes : d < e
    BY <2>1 DEF Store
  <2>4. \A i \in 1..Q[k].seq : \A e \in h[i] : e \in SV \/ Brings(Q, k, e)
    BY <1>5, <2>1, <2>2
  <2>5. IsOwn(Q[k]) => \A e \in Q[k].bytes : \A x \in WR : x < e
    BY <1>2, <2>1, <2>2, <2>3 DEF op
  <2>. QED
    BY <2>1, <2>2, <2>4, <2>5
<1>9. ASSUME NEW j \in 1..Len(Q), NEW k \in 1..Len(Q), j < k, IsOwn(Q[j]), IsOwn(Q[k])
      PROVE  \A d \in Q[j].bytes, e \in Q[k].bytes : d < e
  <2>1. j + 1 \in 1..Len(q) /\ k + 1 \in 1..Len(q) /\ j + 1 < k + 1
        /\ Q[j] = q[j + 1] /\ Q[k] = q[k + 1]
    BY <1>2, <1>9
  <2>. QED
    BY <1>9, <2>1 DEF Store
<1>10. DC \in 0..cu /\ Covered(h, DC, SV)
  <2>1. Covered(h, dc, SV)
    BY DEF Store, Covered
  <2>2. Covered(h, op.seq, SV)
    <3>1. \A i \in 1..op.seq : \A e \in h[i] : e \in sv \/ Brings(q, 1, e)
      BY <1>2 DEF Store
    <3>2. \A e : Brings(q, 1, e) => e \in SV
      BY <1>2 DEF Brings, op
    <3>. QED
      BY <3>1, <3>2 DEF Covered
  <2>. QED
    BY <1>1, <1>3, <1>4, <2>1, <2>2
<1>11. DC = 0 => cu = 0
  BY <1>1, <1>3, <1>4 DEF Store
<1>12. cu = 0 => lv = {} /\ Q = <<>>
  BY DEF Store
<1>13. Covered(h, cu, lv)
  BY DEF Store
<1>14. Store(h, n, lv, Q, SV, OW, WR, DC, cu)
  BY <1>1, <1>2, <1>6, <1>7, <1>8, <1>9, <1>10, <1>11, <1>12, <1>13 DEF Store
<1>. QED
  BY <1>14 DEF Q, DC, op

-----------------------------------------------------------------------------
(* The session: what is owed, submitted and answered *)

\* No row that was submitted or acknowledged before becomes owed.
OwesNoOlder(ow, wr, OW, WR) ==
    /\ wr \subseteq WR
    /\ \A t \in wr \union {0} : \A e \in OW : e <= t => e \in ow

LEMMA SettlesStays ==
    ASSUME NEW h, NEW ow, NEW wr, NEW OW, NEW WR, NEW t,
           OwesNoOlder(ow, wr, OW, WR), Settles(h, ow, wr, t)
    PROVE  Settles(h, OW, WR, t)
  BY DEF OwesNoOlder, Settles

LEMMA FlightOwes ==
    ASSUME NEW h, NEW ow, NEW wr, NEW OW, NEW WR, NEW out, NEW cn, NEW cs, NEW sc,
           OwesNoOlder(ow, wr, OW, WR), out \in wr \union {0},
           Flight(h, ow, out, cn, cs, sc)
    PROVE  Flight(h, OW, out, cn, cs, sc)
<1>1. \A e \in OW : e <= out => e \in ow
  BY DEF OwesNoOlder
<1>. QED
  BY <1>1 DEF Flight

\* The operation at the head of the queue becomes durable.
LEMMA SessionCommits ==
    ASSUME NEW h, NEW q \in Seq(Op), q # <<>>, NEW ow, NEW wr, NEW OW, NEW WR,
           NEW ak, NEW out, Session(h, q, ow, wr, ak, out),
           OwesNoOlder(ow, wr, OW, WR),
           \A e \in WR : e \in OW \/ e \in wr,
           \A e \in ow : e \in OW \/ Logged(h, e)
    PROVE  Session(h, Tail(q), OW, WR, ak, out)
<1>1. \A k \in 1..Len(Tail(q)) : k + 1 \in 1..Len(q) /\ Tail(q)[k] = q[k + 1]
  BY TailFacts
<1>2. \A t : Settles(h, ow, wr, t) => Settles(h, OW, WR, t)
  BY SettlesStays
<1>3. \A e \in WR : e \in OW \/ Logged(h, e)
  BY DEF Session
<1>4. \A k \in 1..Len(Tail(q)) :
        Tail(q)[k].kind = "ack" => Settles(h, OW, WR, Tail(q)[k].throughId)
  BY <1>1, <1>2 DEF Session
<1>5. Settles(h, OW, WR, ak) /\ out \in WR \union {0}
  BY <1>2 DEF Session, OwesNoOlder
<1>. QED
  BY <1>3, <1>4, <1>5 DEF Session

\* An operation that acknowledges nothing, or only settled rows, is queued.
LEMMA SessionQueues ==
    ASSUME NEW h, NEW q \in Seq(Op), NEW ow, NEW wr, NEW ak, NEW out, NEW OUT, NEW AK,
           Session(h, q, ow, wr, ak, out), Settles(h, ow, wr, AK), OUT \in wr \union {0},
           NEW op \in Op, op.kind = "ack" => Settles(h, ow, wr, op.throughId)
    PROVE  Session(h, Append(q, op), ow, wr, AK, OUT)
<1>. DEFINE Q == Append(q, op)
<1>1. /\ \A k \in 1..Len(q) : Q[k] = q[k]
      /\ Q[Len(q) + 1] = op
      /\ \A k \in 1..Len(Q) : k \in 1..Len(q) \/ k = Len(q) + 1
  BY AppendFacts
<1>. HIDE DEF Q
<1>2. \A k \in 1..Len(Q) : Q[k].kind = "ack" => Settles(h, ow, wr, Q[k].throughId)
  BY <1>1 DEF Session
<1>3. Session(h, Q, ow, wr, AK, OUT)
  BY <1>2 DEF Session
<1>. QED
  BY <1>3 DEF Q

LEMMA SessionMoves ==
    ASSUME NEW h, NEW q, NEW ow, NEW wr, NEW ak, NEW out, NEW OUT, NEW AK,
           Session(h, q, ow, wr, ak, out), Settles(h, ow, wr, AK), OUT \in wr \union {0}
    PROVE  Session(h, q, ow, wr, AK, OUT)
  BY DEF Session

LEMMA SettlesZero ==
    ASSUME NEW h, NEW n \in Nat, NEW ow, NEW wr, ow \subseteq wr, wr \subseteq 1..n
    PROVE  Settles(h, ow, wr, 0)
  BY DEF Settles

LEMMA SettlesMax ==
    ASSUME NEW h, NEW n \in Nat, NEW ow, NEW wr, ow \subseteq wr, wr \subseteq 1..n,
           NEW x, NEW y, Settles(h, ow, wr, x), Settles(h, ow, wr, y)
    PROVE  Settles(h, ow, wr, MaxOr0({x, y}))
<1>1. x \in Nat /\ y \in Nat
  BY DEF Settles
<1>2. MaxOr0({x, y}) = x \/ MaxOr0({x, y}) = y
  BY <1>1, MaxOfTwo
<1>. QED
  BY <1>2

\* What send() makes of the queue of frames and of the outstanding row.
Submission(ow, floor) == {e \in ow : e > floor}
SentOut(ow, floor) == MaxOr0(Submission(ow, floor))
SentUp(ow, floor, frames) ==
    IF Submission(ow, floor) = {} THEN frames
    ELSE frames \o <<Push(Submission(ow, floor))>>

NoPush(cs) == \A k \in 1..Len(cs) : cs[k].kind # "push"
NoAnswer(sc) == \A k \in 1..Len(sc) : sc[k].kind \notin {"ack", "refuse"}

LEMMA SubmissionFacts ==
    ASSUME NEW n \in 0..MaxEdits, NEW ow, NEW wr, ow \subseteq wr, wr \subseteq 1..n,
           NEW floor \in Nat
    PROVE  /\ Submission(ow, floor) \subseteq wr
           /\ Submission(ow, floor) \in Update
           /\ Submission(ow, floor) = {} => SentOut(ow, floor) = 0
           /\ Submission(ow, floor) # {} =>
                SentOut(ow, floor) \in wr /\ SentOut(ow, floor) > 0
           /\ \A e \in Submission(ow, floor) : e <= SentOut(ow, floor)
<1>. DEFINE S == Submission(ow, floor)
<1>1. S \subseteq wr /\ S \subseteq 1..n
  BY DEF Submission
<1>2. n \in Nat /\ S \in SUBSET Nat /\ \A x \in S : x <= n
  BY <1>1, StoreSyncAssumption
<1>3. S \in Update
  BY <1>1, StoreSyncAssumption DEF Update
<1>. HIDE DEF S
<1>4. S = {} => MaxOr0(S) = 0
  BY DEF MaxOr0
<1>5. (S # {} => MaxOr0(S) \in S) /\ \A e \in S : e <= MaxOr0(S)
  BY <1>2, MaxOr0Finds
<1>6. S # {} => MaxOr0(S) \in wr /\ MaxOr0(S) > 0
  <2>1. \A x \in S : x \in wr /\ x > 0
    BY <1>1, <1>2
  <2>. QED
    BY <1>5, <2>1
<1>. QED
  BY <1>1, <1>3, <1>4, <1>5, <1>6 DEF S, SentOut

LEMMA FlightSends ==
    ASSUME NEW h, NEW n \in 0..MaxEdits, NEW ow, NEW wr, ow \subseteq wr, wr \subseteq 1..n,
           NEW floor, Settles(h, ow, wr, floor), NEW cn, cn = "attached",
           NEW cs, NEW sc, Up(h, n, wr, cs), NoPush(cs), NoAnswer(sc)
    PROVE  /\ Flight(h, ow, SentOut(ow, floor), cn, SentUp(ow, floor, cs), sc)
           /\ Up(h, n, wr, SentUp(ow, floor, cs))
           /\ SentOut(ow, floor) \in wr \union {0}
<1>. DEFINE S == Submission(ow, floor)
            out == SentOut(ow, floor)
            CS == SentUp(ow, floor, cs)
<1>0. floor \in Nat
  BY StoreSyncAssumption DEF Settles
<1>1. /\ S \subseteq wr /\ S \in Update /\ (S = {} => out = 0)
      /\ S # {} => out \in wr /\ out > 0
  BY <1>0, SubmissionFacts
<1>. HIDE DEF out, CS
<1>2. CASE S = {}
  <2>1. CS = cs /\ out = 0
    BY <1>1, <1>2 DEF CS, SentUp
  <2>2. Flight(h, ow, out, cn, cs, sc)
    BY <2>1 DEF Flight, NoPush, NoAnswer
  <2>. QED
    BY <2>1, <2>2 DEF out, CS
<1>3. CASE S # {}
  <2>. DEFINE f == Push(S)
  <2>1. f \in UpFrame /\ f.kind = "push" /\ f.bytes = S
    BY <1>1 DEF Push, UpFrame
  <2>2. cs \in Seq(UpFrame) /\ <<f>> \in Seq(UpFrame) /\ Len(<<f>>) = 1 /\ <<f>>[1] = f
    BY <2>1 DEF Up
  <2>. HIDE DEF f
  <2>3. CS = cs \o <<f>>
    BY <1>3 DEF CS, SentUp, f
  <2>4. /\ CS \in Seq(UpFrame) /\ Len(cs) \in Nat /\ Len(CS) = Len(cs) + 1
        /\ CS[Len(cs) + 1] = f
        /\ \A k \in 1..Len(cs) : CS[k] = cs[k]
        /\ \A k \in 1..Len(CS) : k \in 1..Len(cs) \/ k = Len(cs) + 1
    <3>1. /\ CS \in Seq(UpFrame) /\ Len(cs) \in Nat /\ Len(CS) = Len(cs) + 1
          /\ \A k \in 1..1 : CS[Len(cs) + k] = <<f>>[k]
          /\ \A k \in 1..Len(cs) : CS[k] = cs[k]
      BY <2>2, <2>3, ConcatFacts
    <3>. QED
      BY <2>2, <3>1
  <2>5. \A k \in 1..Len(CS) : CS[k].kind = "push" => k = Len(cs) + 1 /\ CS[k] = f
    BY <2>4 DEF NoPush
  <2>6. \A e \in ow : e <= out => e \in f.bytes \/ Logged(h, e)
    <3>. SUFFICES ASSUME NEW e \in ow, e \notin S PROVE Logged(h, e)
      BY <2>1
    <3>1. e <= floor
      BY <1>0, StoreSyncAssumption DEF Submission
    <3>. QED
      BY <3>1 DEF Settles
  <2>7. out # 0
    BY <1>1, <1>3
  <2>8. Flight(h, ow, out, cn, CS, sc)
    BY <2>5, <2>6, <2>7 DEF Flight, NoAnswer
  <2>9. Fair(h, n, wr, f)
    BY <1>1, <2>1 DEF Fair
  <2>10. Up(h, n, wr, CS)
    BY <2>4, <2>9 DEF Up
  <2>. QED
    BY <1>1, <1>3, <2>8, <2>10 DEF out, CS
<1>. QED
  BY <1>2, <1>3

\* A frame from the hub is taken off the wire.
LEMMA FlightConsumes ==
    ASSUME NEW h, NEW ow, NEW out, NEW cn, NEW cs, NEW sc \in Seq(DownFrame), sc # <<>>,
           Flight(h, ow, out, cn, cs, sc)
    PROVE  /\ Flight(h, ow, out, cn, cs, Tail(sc))
           /\ Head(sc).kind \in {"ack", "refuse"} => NoPush(cs) /\ NoAnswer(Tail(sc))
           /\ Head(sc).kind = "ack" => \A e \in ow : e <= out => Logged(h, e)
<1>. DEFINE SC == Tail(sc)
            f == Head(sc)
<1>1. /\ 1 \in 1..Len(sc) /\ f = sc[1]
      /\ \A k \in 1..Len(SC) : k + 1 \in 1..Len(sc) /\ SC[k] = sc[k + 1] /\ k \in Nat
  BY TailFacts
<1>. HIDE DEF SC, f
<1>2. Flight(h, ow, out, cn, cs, SC)
  <2>1. \A j, k \in 1..Len(SC) :
          SC[j].kind \in {"ack", "refuse"} /\ SC[k].kind \in {"ack", "refuse"} => j = k
    <3>. SUFFICES ASSUME NEW j \in 1..Len(SC), NEW k \in 1..Len(SC),
                         SC[j].kind \in {"ack", "refuse"}, SC[k].kind \in {"ack", "refuse"}
                  PROVE  j = k
      OBVIOUS
    <3>1. j + 1 = k + 1
      BY <1>1 DEF Flight
    <3>. QED
      BY <1>1, <3>1
  <2>2. \A j \in 1..Len(cs), k \in 1..Len(SC) :
         ~(cs[j].kind = "push" /\ SC[k].kind \in {"ack", "refuse"})
    BY <1>1 DEF Flight
  <2>3. out = 0 => \A k \in 1..Len(SC) : SC[k].kind \notin {"ack", "refuse"}
    BY <1>1 DEF Flight
  <2>4. \A k \in 1..Len(SC) : SC[k].kind = "ack" => \A e \in ow : e <= out => Logged(h, e)
    BY <1>1 DEF Flight
  <2>. QED
    BY <2>1, <2>2, <2>3, <2>4 DEF Flight
<1>3. f.kind \in {"ack", "refuse"} => NoPush(cs)
  BY <1>1 DEF Flight, NoPush
<1>4. f.kind \in {"ack", "refuse"} => NoAnswer(SC)
  <2>. SUFFICES ASSUME f.kind \in {"ack", "refuse"}, NEW k \in 1..Len(SC),
                       SC[k].kind \in {"ack", "refuse"}
                PROVE  FALSE
    BY DEF NoAnswer
  <2>1. k + 1 = 1
    BY <1>1 DEF Flight
  <2>. QED
    BY <1>1, <2>1
<1>5. f.kind = "ack" => \A e \in ow : e <= out => Logged(h, e)
  BY <1>1 DEF Flight
<1>. QED
  BY <1>2, <1>3, <1>4, <1>5 DEF SC, f

\* A frame from the replica is taken off the wire.
LEMMA FlightTaken ==
    ASSUME NEW h, NEW ow, NEW out, NEW cn, NEW cs \in Seq(UpFrame), cs # <<>>, NEW sc,
           Flight(h, ow, out, cn, cs, sc)
    PROVE  /\ Flight(h, ow, out, cn, Tail(cs), sc)
           /\ Head(cs).kind = "push" =>
                /\ NoPush(Tail(cs)) /\ NoAnswer(sc) /\ out # 0
                /\ \A e \in ow : e <= out => e \in Head(cs).bytes \/ Logged(h, e)
<1>. DEFINE CS == Tail(cs)
            f == Head(cs)
<1>1. /\ 1 \in 1..Len(cs) /\ f = cs[1]
      /\ \A k \in 1..Len(CS) : k + 1 \in 1..Len(cs) /\ CS[k] = cs[k + 1] /\ k \in Nat
  BY TailFacts
<1>. HIDE DEF CS, f
<1>2. Flight(h, ow, out, cn, CS, sc)
  <2>1. \A j, k \in 1..Len(CS) : CS[j].kind = "push" /\ CS[k].kind = "push" => j = k
    <3>. SUFFICES ASSUME NEW j \in 1..Len(CS), NEW k \in 1..Len(CS),
                         CS[j].kind = "push", CS[k].kind = "push"
                  PROVE  j = k
      OBVIOUS
    <3>1. j + 1 = k + 1
      BY <1>1 DEF Flight
    <3>. QED
      BY <1>1, <3>1
  <2>2. \A j \in 1..Len(CS), k \in 1..Len(sc) :
         ~(CS[j].kind = "push" /\ sc[k].kind \in {"ack", "refuse"})
    BY <1>1 DEF Flight
  <2>3. out = 0 => \A j \in 1..Len(CS) : CS[j].kind # "push"
    BY <1>1 DEF Flight
  <2>4. \A j \in 1..Len(CS) : CS[j].kind = "push" =>
          \A e \in ow : e <= out => e \in CS[j].bytes \/ Logged(h, e)
    BY <1>1 DEF Flight
  <2>. QED
    BY <2>1, <2>2, <2>3, <2>4 DEF Flight
<1>3. f.kind = "push" => NoPush(CS)
  <2>. SUFFICES ASSUME f.kind = "push", NEW k \in 1..Len(CS), CS[k].kind = "push"
                PROVE  FALSE
    BY DEF NoPush
  <2>1. k + 1 = 1
    BY <1>1 DEF Flight
  <2>. QED
    BY <1>1, <2>1
<1>4. f.kind = "push" => NoAnswer(sc) /\ out # 0
  BY <1>1 DEF Flight, NoAnswer
<1>5. f.kind = "push" => \A e \in ow : e <= out => e \in f.bytes \/ Logged(h, e)
  BY <1>1 DEF Flight
<1>. QED
  BY <1>2, <1>3, <1>4, <1>5 DEF CS, f

\* Frames that answer nothing follow the ones on the wire.
LEMMA FlightRelays ==
    ASSUME NEW h, NEW ow, NEW out, NEW cn, NEW cs, NEW sc \in Seq(DownFrame),
           Flight(h, ow, out, cn, cs, sc), NEW fs \in Seq(DownFrame), NoAnswer(fs)
    PROVE  Flight(h, ow, out, cn, cs, sc \o fs)
<1>. DEFINE SC == sc \o fs
<1>1. /\ Len(sc) \in Nat
      /\ \A k \in 1..Len(sc) : SC[k] = sc[k]
      /\ \A k \in 1..Len(fs) : SC[Len(sc) + k] = fs[k]
      /\ \A k \in 1..Len(SC) : k \in 1..Len(sc) \/ \E j \in 1..Len(fs) : k = Len(sc) + j
  <2>1. sc \in Seq(DownFrame) /\ fs \in Seq(DownFrame)
    OBVIOUS
  <2>. QED
    BY <2>1, ConcatFacts
<1>. HIDE DEF SC
<1>2. \A k \in 1..Len(SC) : SC[k].kind \in {"ack", "refuse"} => k \in 1..Len(sc) /\ SC[k] = sc[k]
  BY <1>1 DEF NoAnswer
<1>3. Flight(h, ow, out, cn, cs, SC)
  BY <1>2 DEF Flight
<1>. QED
  BY <1>3 DEF SC

\* At most one answer to the submission that was taken.
OneAnswer(fs) ==
    \A j, k \in 1..Len(fs) :
        fs[j].kind \in {"ack", "refuse"} /\ fs[k].kind \in {"ack", "refuse"} => j = k
HasAck(fs) == \E k \in 1..Len(fs) : fs[k].kind = "ack"

LEMMA FlightAnswered ==
    ASSUME NEW h, NEW ow, NEW out, NEW cn, NEW cs, NEW sc \in Seq(DownFrame),
           Flight(h, ow, out, cn, cs, sc), NoPush(cs), NoAnswer(sc), out # 0,
           NEW fs \in Seq(DownFrame), OneAnswer(fs),
           HasAck(fs) => \A e \in ow : e <= out => Logged(h, e)
    PROVE  Flight(h, ow, out, cn, cs, sc \o fs)
<1>. DEFINE SC == sc \o fs
<1>1. /\ Len(sc) \in Nat
      /\ \A k \in 1..Len(sc) : SC[k] = sc[k]
      /\ \A k \in 1..Len(fs) : SC[Len(sc) + k] = fs[k]
      /\ \A k \in 1..Len(SC) : k \in 1..Len(sc) \/ \E j \in 1..Len(fs) : k = Len(sc) + j
  BY ConcatFacts
<1>. HIDE DEF SC
<1>2. \A k \in 1..Len(SC) : SC[k].kind \in {"ack", "refuse"} =>
        \E j \in 1..Len(fs) : k = Len(sc) + j /\ SC[k] = fs[j]
  BY <1>1 DEF NoAnswer
<1>3. \A j, k \in 1..Len(SC) :
        SC[j].kind \in {"ack", "refuse"} /\ SC[k].kind \in {"ack", "refuse"} => j = k
  <2>. SUFFICES ASSUME NEW j \in 1..Len(SC), NEW k \in 1..Len(SC),
                       SC[j].kind \in {"ack", "refuse"}, SC[k].kind \in {"ack", "refuse"}
                PROVE  j = k
    OBVIOUS
  <2>1. PICK a \in 1..Len(fs) : j = Len(sc) + a /\ SC[j] = fs[a]
    BY <1>2
  <2>2. PICK b \in 1..Len(fs) : k = Len(sc) + b /\ SC[k] = fs[b]
    BY <1>2
  <2>3. a = b
    BY <2>1, <2>2 DEF OneAnswer
  <2>. QED
    BY <2>1, <2>2, <2>3
<1>4. \A k \in 1..Len(SC) : SC[k].kind = "ack" => \A e \in ow : e <= out => Logged(h, e)
  BY <1>2 DEF HasAck
<1>5. Flight(h, ow, out, cn, cs, SC)
  BY <1>3, <1>4 DEF Flight, NoPush
<1>. QED
  BY <1>5 DEF SC

\* An offer follows the frames on the wire.
LEMMA FlightOffers ==
    ASSUME NEW h, NEW ow, NEW out, NEW cn, NEW cs \in Seq(UpFrame), NEW sc,
           Flight(h, ow, out, cn, cs, sc), NEW f \in UpFrame, f.kind = "offer"
    PROVE  Flight(h, ow, out, cn, Append(cs, f), sc)
<1>. DEFINE CS == Append(cs, f)
<1>1. /\ \A k \in 1..Len(cs) : CS[k] = cs[k]
      /\ CS[Len(cs) + 1] = f
      /\ \A k \in 1..Len(CS) : k \in 1..Len(cs) \/ k = Len(cs) + 1
  BY AppendFacts
<1>. HIDE DEF CS
<1>2. \A k \in 1..Len(CS) : CS[k].kind = "push" => k \in 1..Len(cs) /\ CS[k] = cs[k]
  BY <1>1
<1>3. Flight(h, ow, out, cn, CS, sc)
  BY <1>2 DEF Flight
<1>. QED
  BY <1>3 DEF CS

LEMMA FlightDown ==
    ASSUME NEW h, NEW ow
    PROVE  Flight(h, ow, 0, "down", <<>>, <<>>)
  BY DEF Flight
-----------------------------------------------------------------------------
(* The frames on the wire *)

\* What a frame brings is in the document.
Taken(h, lv, f) ==
    /\ f.kind = "entry" => h[f.seq] \subseteq lv
    /\ f.kind = "snapshot" => Covered(h, f.position, lv)

LEMMA DownConsumes ==
    ASSUME NEW h, NEW n, NEW lv, NEW wr, NEW sc, NEW hc, NEW at, NEW rf, NEW LV, NEW RF,
           Down(h, n, lv, wr, sc, hc, at, rf), sc # <<>>, lv \subseteq LV,
           RF = {} => rf = {} /\ Taken(h, LV, Head(sc))
    PROVE  Down(h, n, LV, wr, Tail(sc), hc, at, RF)
<1>. DEFINE SC == Tail(sc)
            f == Head(sc)
<1>1. sc \in Seq(DownFrame)
  BY DEF Down
<1>2. /\ SC \in Seq(DownFrame) /\ Len(sc) \in Nat /\ Len(SC) = Len(sc) - 1 /\ f = sc[1]
      /\ \A k \in 1..Len(SC) : k + 1 \in 1..Len(sc) /\ SC[k] = sc[k + 1]
  BY <1>1, TailFacts
<1>. HIDE DEF SC, f
<1>3. \A k \in 1..Len(SC) : Honest(h, n, wr, SC[k])
  BY <1>2 DEF Down
<1>4. ASSUME RF = {}, NEW i \in 1..hc
      PROVE  h[i] \subseteq LV \/ Carried(SC, i)
  <2>1. rf = {} /\ Taken(h, LV, f)
    BY <1>4 DEF f
  <2>2. CASE h[i] \subseteq lv
    BY <2>2
  <2>3. CASE Carried(sc, i)
    <3>1. PICK k \in 1..Len(sc) : \/ sc[k].kind = "entry" /\ sc[k].seq = i
                                  \/ sc[k].kind = "snapshot" /\ sc[k].position >= i
      BY <2>3 DEF Carried
    <3>2. CASE k = 1
      <4>1. i \in Nat /\ i >= 1
        BY <1>4
      <4>2. sc[k].kind = "snapshot" => sc[k].position \in Nat
        BY <1>1, <3>1 DEF Down, Honest
      <4>. QED
        BY <1>2, <2>1, <3>1, <3>2, <4>1, <4>2 DEF Taken, Covered
    <3>3. CASE k # 1
      <4>1. k - 1 \in 1..Len(SC) /\ (k - 1) + 1 = k
        BY <1>2, <3>3
      <4>2. SC[k - 1] = sc[k]
        BY <1>2, <4>1
      <4>. QED
        BY <3>1, <4>1, <4>2 DEF Carried
    <3>. QED
      BY <3>2, <3>3
  <2>. QED
    BY <2>1, <2>2, <2>3 DEF Down
<1>5. Down(h, n, LV, wr, SC, hc, at, RF)
  BY <1>2, <1>3, <1>4 DEF Down
<1>. QED
  BY <1>5 DEF SC

\* The hub sends frames that account for what it adds to its record.
LEMMA DownSends ==
    ASSUME NEW h \in Seq(Update), NEW n, NEW lv, NEW wr, NEW sc, NEW hc, NEW at, NEW rf,
           Down(h, n, lv, wr, sc, hc, at, rf),
           NEW fs \in Seq(DownFrame), \A k \in 1..Len(fs) : Honest(h, n, wr, fs[k]),
           NEW from \in 0..hc, NEW c \in from..Len(h), NEW b \in 0..c,
           \A i \in (from + 1)..c : h[i] \subseteq lv \/ Carried(fs, i)
    PROVE  Down(h, n, lv, wr, sc \o fs, c, b, rf)
<1>. DEFINE SC == sc \o fs
<1>1. sc \in Seq(DownFrame) /\ Len(h) \in Nat /\ hc \in 0..Len(h)
  BY DEF Down
<1>2. /\ SC \in Seq(DownFrame) /\ Len(sc) \in Nat /\ Len(fs) \in Nat
      /\ Len(SC) = Len(sc) + Len(fs)
      /\ \A k \in 1..Len(sc) : SC[k] = sc[k]
      /\ \A k \in 1..Len(fs) : SC[Len(sc) + k] = fs[k]
      /\ \A k \in 1..Len(SC) : k \in 1..Len(sc) \/ \E j \in 1..Len(fs) : k = Len(sc) + j
  BY <1>1, ConcatFacts
<1>. HIDE DEF SC
<1>3. \A k \in 1..Len(SC) : Honest(h, n, wr, SC[k])
  BY <1>2 DEF Down
<1>4. \A i : Carried(sc, i) => Carried(SC, i)
  BY <1>2 DEF Carried
<1>5. \A i : Carried(fs, i) => Carried(SC, i)
  <2>. SUFFICES ASSUME NEW i, NEW k \in 1..Len(fs),
                       \/ fs[k].kind = "entry" /\ fs[k].seq = i
                       \/ fs[k].kind = "snapshot" /\ fs[k].position >= i
                PROVE  Carried(SC, i)
    BY DEF Carried
  <2>1. SC[Len(sc) + k] = fs[k]
    BY <1>2
  <2>2. Len(sc) + k \in 1..Len(SC)
    <3>1. Len(sc) \in Nat /\ Len(fs) \in Nat /\ Len(SC) = Len(sc) + Len(fs)
      BY <1>2
    <3>. QED
      BY <3>1
  <2>. QED
    BY <2>1, <2>2 DEF Carried
<1>6. ASSUME rf = {}, NEW i \in 1..c
      PROVE  h[i] \subseteq lv \/ Carried(SC, i)
  <2>1. i \in 1..hc \/ i \in (from + 1)..c
    BY <1>1
  <2>. QED
    BY <1>4, <1>5, <1>6, <2>1 DEF Down
<1>7. c \in 0..Len(h)
  BY <1>1
<1>8. Down(h, n, lv, wr, SC, c, b, rf)
  BY <1>2, <1>3, <1>6, <1>7 DEF Down
<1>. QED
  BY <1>8 DEF SC

LEMMA DownEmpty ==
    ASSUME NEW h \in Seq(Update), NEW n, NEW lv, NEW wr, NEW rf
    PROVE  Down(h, n, lv, wr, <<>>, 0, 0, rf)
<1>1. <<>> \in Seq(DownFrame) /\ Len(<<>>) = 0 /\ Len(h) \in Nat
  OBVIOUS
<1>. QED
  BY <1>1 DEF Down

LEMMA UpEmpty ==
    ASSUME NEW h, NEW n, NEW wr PROVE Up(h, n, wr, <<>>)
<1>1. <<>> \in Seq(UpFrame) /\ Len(<<>>) = 0
  OBVIOUS
<1>. QED
  BY <1>1 DEF Up

LEMMA UpTaken ==
    ASSUME NEW h, NEW n, NEW wr, NEW cs, cs # <<>>, Up(h, n, wr, cs)
    PROVE  Up(h, n, wr, Tail(cs)) /\ Fair(h, n, wr, Head(cs))
<1>1. cs \in Seq(UpFrame)
  BY DEF Up
<1>2. /\ Tail(cs) \in Seq(UpFrame) /\ 1 \in 1..Len(cs) /\ Head(cs) = cs[1]
      /\ \A k \in 1..Len(Tail(cs)) : k + 1 \in 1..Len(cs) /\ Tail(cs)[k] = cs[k + 1]
  BY <1>1, TailFacts
<1>. QED
  BY <1>2 DEF Up

LEMMA UpOffers ==
    ASSUME NEW h, NEW n, NEW wr, NEW cs, Up(h, n, wr, cs), NEW f, Fair(h, n, wr, f)
    PROVE  Up(h, n, wr, Append(cs, f))
<1>1. cs \in Seq(UpFrame) /\ f \in UpFrame
  BY DEF Up, Fair
<1>2. /\ Append(cs, f) \in Seq(UpFrame)
      /\ \A k \in 1..Len(Append(cs, f)) : Append(cs, f)[k] = f \/ \E j \in 1..Len(cs) : Append(cs, f)[k] = cs[j]
  BY <1>1, AppendFacts
<1>. QED
  BY <1>2 DEF Up

-----------------------------------------------------------------------------
(* The order of the frames *)

\* A frame that a replica at position a takes in brings it to position b.
Moves(a, f, b) ==
    /\ f.kind = "entry" => (f.seq = a + 1 /\ b = f.seq) \/ (f.seq <= a /\ b = a)
    /\ f.kind = "ack" => f.seq = a + 1 /\ b = f.seq
    /\ f.kind = "snapshot" => (f.position > a /\ b = f.position) \/ (f.position <= a /\ b = a)
    /\ f.kind \notin {"entry", "ack", "snapshot"} => b = a

\* The frames s, taken in order, lead from position a to position b.
Leads(a, s, b) ==
    \E p \in [0..Len(s) -> Nat] :
        /\ p[0] = a /\ p[Len(s)] = b
        /\ \A k \in 1..Len(s) : Moves(p[k - 1], s[k], p[k])

LEMMA LeadsNowhere ==
    ASSUME NEW a \in Nat PROVE Leads(a, <<>>, a)
<1>. DEFINE p == [k \in 0..0 |-> a]
<1>1. Len(<<>>) = 0 /\ 1..0 = {} /\ p \in [0..0 -> Nat] /\ p[0] = a
  OBVIOUS
<1>. HIDE DEF p
<1>. QED  BY <1>1 DEF Leads

LEMMA LeadsOne ==
    ASSUME NEW a \in Nat, NEW b \in Nat, NEW f \in DownFrame, Moves(a, f, b)
    PROVE  Leads(a, <<f>>, b)
<1>. DEFINE p == [k \in 0..1 |-> IF k = 0 THEN a ELSE b]
<1>1. Len(<<f>>) = 1 /\ <<f>>[1] = f /\ p \in [0..1 -> Nat] /\ p[0] = a /\ p[1] = b
  OBVIOUS
<1>. HIDE DEF p
<1>2. \A k \in 1..1 : k = 1 /\ k - 1 = 0
  OBVIOUS
<1>3. \A k \in 1..1 : Moves(p[k - 1], <<f>>[k], p[k])
  BY <1>1, <1>2
<1>. QED  BY <1>1, <1>3 DEF Leads

LEMMA LeadsJoin ==
    ASSUME NEW s \in Seq(DownFrame), NEW t \in Seq(DownFrame), NEW a, NEW b, NEW c,
           Leads(a, s, b), Leads(b, t, c)
    PROVE  Leads(a, s \o t, c)
<1>1. Joins(DownFrame, s, t, s \o t)  BY ConcatJoins
<1>. DEFINE m == Len(s)
            n == Len(t)
            u == s \o t
<1>2. m \in Nat /\ n \in Nat /\ Len(u) = m + n
      /\ (\A k \in 1..m : u[k] = s[k]) /\ (\A k \in 1..n : u[m + k] = t[k])
  BY <1>1 DEF Joins
<1>3. PICK p \in [0..m -> Nat] : p[0] = a /\ p[m] = b
                                 /\ \A k \in 1..m : Moves(p[k - 1], s[k], p[k])
  BY DEF Leads
<1>4. PICK q \in [0..n -> Nat] : q[0] = b /\ q[n] = c
                                 /\ \A k \in 1..n : Moves(q[k - 1], t[k], q[k])
  BY DEF Leads
<1>. HIDE DEF u, m, n
<1>. DEFINE w == [k \in 0..(m + n) |-> IF k <= m THEN p[k] ELSE q[k - m]]
<1>5. w \in [0..(m + n) -> Nat]  BY <1>2, <1>3, <1>4
<1>6. (\A k \in 0..m : w[k] = p[k]) /\ \A k \in 0..n : w[m + k] = q[k]
  <2>1. \A k \in 0..m : w[k] = p[k]
    BY <1>2
  <2>2. ASSUME NEW k \in 0..n PROVE w[m + k] = q[k]
    <3>1. CASE k = 0
      <4>1. m + k = m /\ m \in 0..m
        BY <1>2, <3>1
      <4>. HIDE DEF w
      <4>. QED
        BY <1>3, <1>4, <2>1, <3>1, <4>1
    <3>2. CASE k > 0
      <4>1. m + k \in 0..(m + n) /\ ~(m + k <= m) /\ (m + k) - m = k
        BY <1>2, <3>2
      <4>. QED
        BY <4>1
    <3>. QED
      BY <1>2, <3>1, <3>2
  <2>. QED
    BY <2>1, <2>2
<1>7. w[0] = a /\ w[m + n] = c
  <2>1. 0 \in 0..m /\ n \in 0..n  BY <1>2
  <2>. HIDE DEF w
  <2>. QED  BY <1>3, <1>4, <1>6, <2>1
<1>. HIDE DEF w
<1>8. ASSUME NEW k \in 1..(m + n) PROVE Moves(w[k - 1], u[k], w[k])
  <2>1. CASE k <= m
    <3>1. k \in 1..m /\ k \in 0..m /\ k - 1 \in 0..m  BY <1>2, <2>1
    <3>. QED  BY <1>2, <1>3, <1>6, <3>1
  <2>2. CASE k > m
    <3>1. k - m \in 1..n /\ k - m \in 0..n /\ (k - m) - 1 \in 0..n /\ m + (k - m) = k
          /\ m + ((k - m) - 1) = k - 1
      BY <1>2, <2>2
    <3>2. w[k] = q[k - m] /\ w[k - 1] = q[(k - m) - 1] /\ u[k] = t[k - m]
      BY <1>2, <1>6, <3>1
    <3>3. Moves(q[(k - m) - 1], t[k - m], q[k - m])
      BY <1>4, <3>1
    <3>. QED  BY <3>2, <3>3
  <2>. QED  BY <1>2, <2>1, <2>2
<1>9. Leads(a, u, c)  BY <1>2, <1>5, <1>7, <1>8 DEF Leads
<1>. QED  BY <1>9 DEF u

\* The first frame is the first to be taken.
LEMMA LeadsTail ==
    ASSUME NEW s \in Seq(DownFrame), s # <<>>, NEW a, NEW c, Leads(a, s, c)
    PROVE  \E b \in Nat : Moves(a, Head(s), b) /\ Leads(b, Tail(s), c)
<1>. DEFINE m == Len(Tail(s))
<1>1. /\ Len(s) = m + 1 /\ m \in Nat /\ Head(s) = s[1]
      /\ \A k \in 1..m : Tail(s)[k] = s[k + 1]
  BY TailFacts
<1>2. PICK p \in [0..Len(s) -> Nat] : p[0] = a /\ p[Len(s)] = c
                                 /\ \A k \in 1..Len(s) : Moves(p[k - 1], s[k], p[k])
  BY DEF Leads
<1>. HIDE DEF m
<1>. DEFINE q == [k \in 0..m |-> p[k + 1]]
<1>3. q \in [0..m -> Nat] /\ q[0] = p[1] /\ q[m] = c /\ p[1] \in Nat
  BY <1>1, <1>2
<1>4. \A k \in 1..m : q[k - 1] = p[k] /\ q[k] = p[k + 1]
  BY <1>1, <1>2
<1>. HIDE DEF q
<1>5. Moves(a, Head(s), p[1])
  <2>1. 1 \in 1..Len(s) /\ 1 - 1 = 0  BY <1>1
  <2>2. Moves(p[1 - 1], s[1], p[1])  BY <1>2, <2>1
  <2>. QED  BY <1>1, <1>2, <2>1, <2>2
<1>6. ASSUME NEW k \in 1..m PROVE Moves(q[k - 1], Tail(s)[k], q[k])
  <2>1. k + 1 \in 1..Len(s) /\ (k + 1) - 1 = k  BY <1>1
  <2>2. Moves(p[(k + 1) - 1], s[k + 1], p[k + 1])  BY <1>2, <2>1
  <2>. QED  BY <1>1, <1>4, <2>1, <2>2
<1>7. Leads(p[1], Tail(s), c)  BY <1>3, <1>6 DEF Leads, m
<1>. QED  BY <1>3, <1>5, <1>7

\* Frames that a replica at the end of the log has seen already leave it there.
LEMMA LeadsAgain ==
    ASSUME NEW s \in Seq(DownFrame), NEW a \in Nat,
           \A k \in 1..Len(s) : /\ s[k].kind # "ack"
                                /\ s[k].kind = "entry" => s[k].seq <= a
                                /\ s[k].kind = "snapshot" => s[k].position <= a
    PROVE  Leads(a, s, a)
<1>. DEFINE p == [k \in 0..Len(s) |-> a]
<1>1. Len(s) \in Nat  OBVIOUS
<1>2. p \in [0..Len(s) -> Nat] /\ \A k \in 0..Len(s) : p[k] = a
  BY <1>1
<1>3. 0 \in 0..Len(s) /\ Len(s) \in 0..Len(s)
      /\ \A k \in 1..Len(s) : k \in 0..Len(s) /\ k - 1 \in 0..Len(s)
  BY <1>1
<1>. HIDE DEF p
<1>4. ASSUME NEW k \in 1..Len(s) PROVE Moves(p[k - 1], s[k], p[k])
  <2>1. p[k - 1] = a /\ p[k] = a  BY <1>2, <1>3
  <2>. QED  BY <2>1 DEF Moves
<1>5. p[0] = a /\ p[Len(s)] = a  BY <1>2, <1>3
<1>. QED  BY <1>2, <1>4, <1>5 DEF Leads

-----------------------------------------------------------------------------
(* The authority *)

Row(h, i) == [seq |-> i, bytes |-> h[i]]
Rows(h, a, b) == {Row(h, i) : i \in a..b}

LEMMA RowFacts ==
    ASSUME NEW h, NEW i
    PROVE  Row(h, i).seq = i /\ Row(h, i).bytes = h[i]
  BY DEF Row

LEMMA RowsCount ==
    ASSUME NEW h, NEW a \in Int, NEW b \in Int
    PROVE  Cardinality(Rows(h, a, b)) = IF a > b THEN 0 ELSE b - a + 1
<1>. DEFINE S == a..b
            T == Rows(h, a, b)
            f == [i \in S |-> Row(h, i)]
<1>1. f \in [S -> T]
  BY DEF Rows
<1>2. \A i, j \in S : f[i] = f[j] => i = j
  BY RowFacts
<1>3. \A t \in T : \E i \in S : f[i] = t
  BY DEF Rows
<1>4. DOMAIN f = S
  OBVIOUS
<1>. HIDE DEF f, T
<1>5. f \in Bijection(S, T)
  BY <1>1, <1>2, <1>3, <1>4 DEF Bijection, Injection, Surjection, IsInjective
<1>6. IsFiniteSet(S) /\ Cardinality(S) = IF a > b THEN 0 ELSE b - a + 1
  BY FS_Interval
<1>. HIDE DEF S
<1>7. ExistsBijection(S, T)
  BY <1>5 DEF ExistsBijection
<1>8. Cardinality(T) = Cardinality(S)
  BY <1>6, <1>7, FS_Bijection
<1>. QED
  BY <1>6, <1>8 DEF T

\* The log above a cursor, in order, is the history from there on.
LEMMA EntriesAre ==
    ASSUME NEW h, NEW p \in Nat, NEW N \in Nat, NEW start \in p..N, NEW c \in Nat,
           NEW m \in Nat,
           m = IF c < start THEN 0 ELSE IF c < N THEN c - start ELSE N - start
    PROVE  EntriesAfter(Rows(h, p + 1, N), start, c) = [k \in 1..m |-> Row(h, start + k)]
<1>. DEFINE R == Rows(h, p + 1, N)
            S == {row \in since(R, start) : row.seq <= c}
<1>1. S = Rows(h, start + 1, start + m)
  <2>1. ASSUME NEW row \in S PROVE row \in Rows(h, start + 1, start + m)
    <3>1. PICK i \in (p + 1)..N : row = Row(h, i)
      BY <2>1 DEF since, Rows
    <3>2. row.seq = i
      BY <3>1, RowFacts
    <3>3. i > start /\ i <= c
      BY <2>1, <3>2 DEF since
    <3>4. i \in (start + 1)..(start + m)
      BY <3>1, <3>3
    <3>. QED
      BY <3>1, <3>4 DEF Rows
  <2>2. ASSUME NEW i \in (start + 1)..(start + m) PROVE Row(h, i) \in S
    <3>1. i \in (p + 1)..N /\ i > start /\ i <= c
      BY <2>2
    <3>2. Row(h, i) \in R
      BY <3>1 DEF Rows
    <3>. QED
      BY <3>1, <3>2, RowFacts DEF since
  <2>. HIDE DEF S
  <2>3. Rows(h, start + 1, start + m) \subseteq S
    BY <2>2, Zenon DEF Rows
  <2>. QED
    BY <2>1, <2>3, Zenon
<1>2. Cardinality(S) = m
  <2>1. start + 1 \in Int /\ start + m \in Int
    OBVIOUS
  <2>2. Cardinality(Rows(h, start + 1, start + m)) =
          IF start + 1 > start + m THEN 0 ELSE (start + m) - (start + 1) + 1
    BY <2>1, RowsCount
  <2>3. (IF start + 1 > start + m THEN 0 ELSE (start + m) - (start + 1) + 1) = m
    OBVIOUS
  <2>. HIDE DEF S
  <2>. QED
    BY <1>1, <2>2, <2>3
<1>. DEFINE Below(row) == {x \in S : x.seq < row.seq}
<1>3. \A i \in (start + 1)..(start + m) : Cardinality(Below(Row(h, i))) = i - 1 - start
  <2>. SUFFICES ASSUME NEW i \in (start + 1)..(start + m)
                PROVE  Cardinality(Below(Row(h, i))) = i - 1 - start
    OBVIOUS
  <2>1. Below(Row(h, i)) = Rows(h, start + 1, i - 1)
    <3>. HIDE DEF S
    <3>1. Row(h, i).seq = i
      BY RowFacts
    <3>2. ASSUME NEW x \in S, x.seq < i PROVE x \in Rows(h, start + 1, i - 1)
      <4>1. PICK j \in (start + 1)..(start + m) : x = Row(h, j)
        BY <1>1, <3>2 DEF Rows
      <4>2. j < i
        BY <3>2, <4>1, RowFacts
      <4>3. j \in (start + 1)..(i - 1)
        BY <4>2
      <4>. QED
        BY <4>1, <4>3 DEF Rows
    <3>3. ASSUME NEW j \in (start + 1)..(i - 1) PROVE Row(h, j) \in S /\ Row(h, j).seq < i
      <4>1. j \in (start + 1)..(start + m)
        OBVIOUS
      <4>2. Row(h, j) \in S
        BY <1>1, <4>1 DEF Rows
      <4>. QED
        BY <4>2, RowFacts
    <3>. QED
      BY <3>1, <3>2, <3>3 DEF Rows
  <2>2. start + 1 \in Int /\ i - 1 \in Int
    OBVIOUS
  <2>3. Cardinality(Rows(h, start + 1, i - 1)) =
          IF start + 1 > i - 1 THEN 0 ELSE (i - 1) - (start + 1) + 1
    BY <2>2, RowsCount
  <2>. QED
    BY <2>1, <2>3
<1>4. ASSUME NEW k \in 1..m
      PROVE  (CHOOSE row \in S : Cardinality(Below(row)) = k - 1) = Row(h, start + k)
  <2>. HIDE DEF S, Below
  <2>1. start + k \in (start + 1)..(start + m)
    OBVIOUS
  <2>2. Row(h, start + k) \in S
    BY <1>1, <2>1 DEF Rows
  <2>3. Cardinality(Below(Row(h, start + k))) = k - 1
    BY <1>3, <2>1
  <2>4. ASSUME NEW row \in S, Cardinality(Below(row)) = k - 1
        PROVE  row = Row(h, start + k)
    <3>1. PICK i \in (start + 1)..(start + m) : row = Row(h, i)
      BY <1>1, <2>4 DEF Rows
    <3>2. i - 1 - start = k - 1
      BY <1>3, <2>4, <3>1
    <3>3. i = start + k
      BY <3>2
    <3>. QED
      BY <3>1, <3>3
  <2>. QED
    BY <2>2, <2>3, <2>4
<1>5. EntriesAfter(R, start, c) =
        [k \in 1..Cardinality(S) |-> CHOOSE row \in S : Cardinality(Below(row)) = k - 1]
  BY DEF EntriesAfter
<1>. HIDE DEF S, Below
<1>6. EntriesAfter(R, start, c) = [k \in 1..m |-> Row(h, start + k)]
  BY <1>2, <1>4, <1>5
<1>. QED
  BY <1>6

\* The newest snapshot is at p and covers the history up to it.
Newest(sn, h, n, p) ==
    /\ p \in 1..Len(h)
    /\ snapshotPosition(sn) = p
    /\ snapshot(sn) \in sn /\ snapshot(sn) \in SnapshotRow /\ snapshot(sn).position = p
    /\ snapshot(sn).bytes \subseteq 1..n /\ Covered(h, p, snapshot(sn).bytes)

\* A delivery brings the log from a cursor on, and never counts what it does
\* not bring.
Sound(h, n, from, d) ==
    /\ d.frames \in Seq(DownFrame)
    /\ \A k \in 1..Len(d.frames) :
         d.frames[k].kind \in {"entry", "snapshot"} /\ Honest(h, n, {}, d.frames[k])
    /\ d.cursor \in from..Len(h) /\ d.before \in from..d.cursor
    /\ \A i \in (from + 1)..d.cursor : Carried(d.frames, i)

LEMMA DeliveryIs ==
    ASSUME NEW h \in Seq(Update), NEW n, NEW p, Newest(snaps, h, n, p),
           NEW from \in 0..Len(h), NEW c \in Nat
    PROVE  /\ Sound(h, n, from, Delivery(Rows(h, p + 1, Len(h)), from, c))
           /\ c \in from..Len(h) /\ c >= p =>
                Delivery(Rows(h, p + 1, Len(h)), from, c).cursor = c
           /\ Leads(from, Delivery(Rows(h, p + 1, Len(h)), from, c).frames,
                    Delivery(Rows(h, p + 1, Len(h)), from, c).cursor)
<1>. DEFINE N == Len(h)
            rows == Rows(h, p + 1, N)
            start == IF from < p THEN p ELSE from
            m == IF c < start THEN 0 ELSE IF c < N THEN c - start ELSE N - start
            entries == [k \in 1..m |-> Row(h, start + k)]
            pre == IF from < p THEN <<SnapshotFrame(snapshot(snaps))>> ELSE <<>>
            E == [k \in 1..m |-> EntryFrame(Row(h, start + k))]
            d == Delivery(rows, from, c)
<1>1. N \in Nat /\ p \in 1..N /\ start \in p..N /\ start \in from..N /\ m \in Nat
      /\ start + m \in start..N /\ snapshotPosition(snaps) = p
  <2>1. N \in Nat /\ p \in 1..N /\ from \in 0..N /\ snapshotPosition(snaps) = p
    BY DEF Newest
  <2>. HIDE DEF N
  <2>2. start \in p..N /\ start \in from..N
    BY <2>1
  <2>. HIDE DEF start
  <2>. QED
    BY <2>1, <2>2
<1>2. EntriesAfter(rows, start, c) = entries
  <2>1. p \in Nat /\ N \in Nat /\ start \in p..N /\ m \in Nat
        /\ m = IF c < start THEN 0 ELSE IF c < N THEN c - start ELSE N - start
    BY <1>1
  <2>. HIDE DEF N, start, m
  <2>. QED
    BY <2>1, EntriesAre
<1>3. Len(entries) = m /\ (entries = <<>> <=> m = 0)
  <2>. HIDE DEF m, start
  <2>1. m \in Nat /\ entries = [k \in 1..m |-> entries[k]]
    BY <1>1
  <2>. HIDE DEF entries
  <2>. QED
    BY <2>1, LengthOf
<1>4. m > 0 => entries[m] = Row(h, start + m)
  <2>. HIDE DEF m
  <2>. QED
    BY <1>1
<1>5. m > 1 => entries[m - 1] = Row(h, start + (m - 1))
  <2>. HIDE DEF m
  <2>. QED
    BY <1>1
<1>. HIDE DEF entries
<1>6. SentThrough(start, entries) = start + m
  <2>1. m > 0 => entries[m].seq = start + m
    BY <1>4, RowFacts
  <2>. HIDE DEF m, start
  <2>. QED
    BY <1>1, <1>3, <2>1 DEF SentThrough
<1>7. E = [k \in 1..m |-> EntryFrame(entries[k])]
  BY DEF entries
<1>8. d = [frames |-> pre \o E, cursor |-> start + m,
           before |-> IF m > 1 THEN entries[m - 1].seq ELSE IF m = 1 THEN start ELSE from]
  <2>. HIDE DEF m, E, entries
  <2>. QED
    BY <1>1, <1>2, <1>3, <1>6, <1>7 DEF Delivery
<1>9. d.frames = pre \o E /\ d.cursor = start + m /\ d.before \in from..(start + m)
  <2>1. m > 1 => entries[m - 1].seq = start + (m - 1)
    BY <1>5, RowFacts
  <2>2. d.frames = pre \o E /\ d.cursor = start + m
        /\ d.before = IF m > 1 THEN entries[m - 1].seq ELSE IF m = 1 THEN start ELSE from
    <3>. HIDE DEF pre, E, m, start, entries, d
    <3>. QED
      BY <1>8
  <2>. HIDE DEF d, pre, E, m, start
  <2>3. d.before \in from..(start + m)
    <3>1. CASE m > 1
      BY <1>1, <2>1, <2>2, <3>1
    <3>2. CASE m = 1
      BY <1>1, <2>2, <3>2
    <3>3. CASE m = 0
      BY <1>1, <2>2, <3>3
    <3>. QED
      BY <1>1, <3>1, <3>2, <3>3
  <2>. QED
    BY <2>2, <2>3
<1>10. E \in Seq(DownFrame) /\ Len(E) = m
       /\ \A k \in 1..m : /\ E[k].kind = "entry" /\ E[k].seq = start + k
                          /\ Honest(h, n, {}, E[k])
  <2>. HIDE DEF m, start
  <2>1. \A k \in 1..m : LET f == EntryFrame(Row(h, start + k))
                        IN  f \in DownFrame /\ f.kind = "entry" /\ f.seq = start + k
                            /\ Honest(h, n, {}, f)
    <3>. SUFFICES ASSUME NEW k \in 1..m
                  PROVE  LET f == EntryFrame(Row(h, start + k))
                         IN  f \in DownFrame /\ f.kind = "entry" /\ f.seq = start + k
                             /\ Honest(h, n, {}, f)
      OBVIOUS
    <3>. DEFINE f == EntryFrame(Row(h, start + k))
    <3>1. start + k \in 1..N /\ start + k \in Nat /\ h[start + k] \in Update
      BY <1>1
    <3>2. f = [kind |-> "entry", seq |-> start + k, bytes |-> h[start + k]]
      BY RowFacts DEF EntryFrame
    <3>3. f \in DownFrame
      BY <3>1, <3>2 DEF DownFrame
    <3>4. f.kind = "entry" /\ f.seq = start + k /\ f.bytes = h[start + k]
      BY <3>2
    <3>. QED
      BY <3>1, <3>3, <3>4 DEF Honest
  <2>2. E \in Seq(DownFrame) /\ Len(E) = m
    BY <1>1, <2>1
  <2>. QED
    BY <2>1, <2>2
<1>11. /\ pre \in Seq(DownFrame) /\ Len(pre) \in Nat
       /\ \A k \in 1..Len(pre) : /\ pre[k].kind = "snapshot" /\ pre[k].position = p
                                 /\ Honest(h, n, {}, pre[k])
       /\ from < p => 1 \in 1..Len(pre)
       /\ Leads(from, pre, start)
  <2>. DEFINE f == SnapshotFrame(snapshot(snaps))
  <2>1. f = [kind |-> "snapshot", position |-> p, bytes |-> snapshot(snaps).bytes]
    BY DEF SnapshotFrame, Newest
  <2>2. p \in Nat /\ snapshot(snaps).bytes \in Update
    BY <1>1 DEF Newest, SnapshotRow
  <2>3. f \in DownFrame
    BY <2>1, <2>2 DEF DownFrame
  <2>4. f.kind = "snapshot" /\ f.position = p /\ f.bytes = snapshot(snaps).bytes
    BY <2>1
  <2>5. Honest(h, n, {}, f)
    BY <2>3, <2>4 DEF Honest, Newest
  <2>. HIDE DEF f
  <2>6. <<f>> \in Seq(DownFrame) /\ Len(<<f>>) = 1 /\ <<f>>[1] = f
    BY <2>3
  <2>7. <<>> \in Seq(DownFrame) /\ Len(<<>>) = 0
    OBVIOUS
  <2>8. pre = IF from < p THEN <<f>> ELSE <<>>
    BY DEF f
  <2>. HIDE DEF pre
  <2>9. CASE from < p
    <3>1. start = p /\ from \in Nat /\ p \in Nat
      BY <1>1, <2>9
    <3>2. Moves(from, f, p)
      BY <2>4, <2>9 DEF Moves
    <3>3. Leads(from, <<f>>, start)
      BY <2>3, <3>1, <3>2, LeadsOne
    <3>. QED
      BY <2>4, <2>5, <2>6, <2>8, <2>9, <3>3
  <2>10. CASE ~(from < p)
    <3>1. start = from /\ from \in Nat
      BY <1>1, <2>10
    <3>2. Leads(from, <<>>, start)
      BY <3>1, LeadsNowhere
    <3>. HIDE DEF start
    <3>. QED
      BY <2>7, <2>8, <2>10, <3>2
  <2>. QED
    BY <2>9, <2>10
<1>18. Leads(start, E, start + m)
  <2>. DEFINE w == [k \in 0..m |-> start + k]
  <2>1. start \in Nat /\ m \in Nat
    BY <1>1
  <2>. HIDE DEF start, m, E
  <2>2. w \in [0..m -> Nat] /\ w[0] = start /\ w[m] = start + m
    BY <2>1
  <2>3. ASSUME NEW k \in 1..m PROVE Moves(w[k - 1], E[k], w[k])
    <3>1. w[k - 1] = start + (k - 1) /\ w[k] = start + k
      BY <2>1
    <3>2. E[k].kind = "entry" /\ E[k].seq = start + k
      BY <1>10
    <3>3. start + k = (start + (k - 1)) + 1
      BY <2>1
    <3>. HIDE DEF w
    <3>. QED
      BY <3>1, <3>2, <3>3 DEF Moves
  <2>4. Len(E) = m
    BY <1>10
  <2>. HIDE DEF w
  <2>. QED
    BY <2>2, <2>3, <2>4 DEF Leads
<1>19. Leads(from, pre \o E, start + m)
  <2>1. pre \in Seq(DownFrame) /\ E \in Seq(DownFrame) /\ Leads(from, pre, start)
    BY <1>10, <1>11
  <2>. HIDE DEF pre, E, start, m
  <2>. QED
    BY <1>18, <2>1, LeadsJoin
<1>. DEFINE F == pre \o E
<1>. HIDE DEF pre, E
<1>12. /\ F \in Seq(DownFrame) /\ Len(F) = Len(pre) + m /\ Len(pre) \in Nat
       /\ \A k \in 1..Len(pre) : F[k] = pre[k]
       /\ \A k \in 1..m : F[Len(pre) + k] = E[k]
       /\ \A k \in 1..Len(F) : k \in 1..Len(pre) \/ \E j \in 1..m : k = Len(pre) + j
  <2>0. pre \in Seq(DownFrame)
    BY <1>11
  <2>1. E \in Seq(DownFrame) /\ Len(E) = m
    BY <1>10
  <2>. HIDE DEF m, N, start, d
  <2>2. Joins(DownFrame, pre, E, F)
    BY <2>0, <2>1, ConcatJoins
  <2>. HIDE DEF F
  <2>. QED
    BY <2>1, <2>2 DEF Joins
<1>. HIDE DEF F, m, start, N
<1>13. \A k \in 1..Len(F) : F[k].kind \in {"entry", "snapshot"} /\ Honest(h, n, {}, F[k])
  <2>. SUFFICES ASSUME NEW k \in 1..Len(F)
                PROVE  F[k].kind \in {"entry", "snapshot"} /\ Honest(h, n, {}, F[k])
    OBVIOUS
  <2>1. CASE k \in 1..Len(pre)
    <3>1. F[k] = pre[k]
      BY <1>12, <2>1
    <3>. QED
      BY <1>11, <2>1, <3>1
  <2>2. CASE \E j \in 1..m : k = Len(pre) + j
    <3>1. PICK j \in 1..m : F[k] = E[j]
      BY <1>12, <2>2
    <3>. QED
      BY <1>10, <3>1
  <2>. QED
    BY <1>12, <2>1, <2>2
<1>14. \A i \in (from + 1)..(start + m) : Carried(F, i)
  <2>. SUFFICES ASSUME NEW i \in (from + 1)..(start + m) PROVE Carried(F, i)
    OBVIOUS
  <2>1. CASE i > start
    <3>1. i - start \in 1..m /\ start + (i - start) = i
      BY <1>1, <2>1
    <3>2. E[i - start].kind = "entry" /\ E[i - start].seq = i
      BY <1>10, <3>1
    <3>3. Len(pre) + (i - start) \in 1..Len(F) /\ F[Len(pre) + (i - start)] = E[i - start]
      BY <1>1, <1>12, <3>1
    <3>4. PICK x \in 1..Len(F) : F[x] = E[i - start]
      BY <3>3
    <3>. QED
      BY <3>2, <3>4 DEF Carried
  <2>2. CASE i <= start
    <3>1. from < p /\ start = p
      BY <1>1, <2>2 DEF start
    <3>2. 1 \in 1..Len(pre) /\ 1 \in 1..Len(F) /\ F[1] = pre[1]
      <4>1. 1 \in 1..Len(pre)
        BY <1>11, <3>1
      <4>. QED
        BY <1>1, <1>12, <4>1
    <3>3. F[1].kind = "snapshot" /\ F[1].position = p /\ p >= i
      BY <1>1, <1>11, <2>2, <3>1, <3>2
    <3>. QED
      BY <3>2, <3>3 DEF Carried
  <2>. QED
    BY <1>1, <2>1, <2>2
<1>15. d.frames = F /\ d.cursor = start + m /\ d.before \in from..(start + m)
  BY <1>9 DEF F
<1>. HIDE DEF d
<1>16. Sound(h, n, from, d)
  BY <1>1, <1>12, <1>13, <1>14, <1>15 DEF Sound, N
<1>17. c \in from..N /\ c >= p => d.cursor = c
  BY <1>1, <1>15 DEF m, start
<1>20. Leads(from, d.frames, d.cursor)
  BY <1>15, <1>19 DEF F
<1>. QED
  BY <1>16, <1>17, <1>20 DEF d, rows, N

\* A broken delivery is sound too: it stops early, and may not count its last frame.
LEMMA BrokenIsSound ==
    ASSUME NEW h \in Seq(Update), NEW n, NEW p, Newest(snaps, h, n, p),
           NEW from \in 0..Len(h), NEW c \in Nat,
           NEW d \in BrokenDeliveries(Rows(h, p + 1, Len(h)), from, c)
    PROVE  Sound(h, n, from, d)
<1>. DEFINE rows == Rows(h, p + 1, Len(h))
<1>0. Len(h) \in Nat /\ from \in Nat
  OBVIOUS
<1>. HIDE DEF rows
<1>1. CASE d = [frames |-> <<>>, cursor |-> from, before |-> from]
  <2>1. d.frames = <<>> /\ d.cursor = from /\ d.before = from
    BY <1>1
  <2>2. <<>> \in Seq(DownFrame) /\ Len(<<>>) = 0
    OBVIOUS
  <2>3. from \in from..Len(h) /\ from \in from..from /\ (from + 1)..from = {}
    BY <1>0
  <2>. QED
    BY <2>1, <2>2, <2>3 DEF Sound
<1>2. ASSUME NEW x \in 0..c, d = Delivery(rows, from, x)
      PROVE  Sound(h, n, from, d)
  BY <1>2, DeliveryIs DEF rows
<1>3. ASSUME NEW x \in 0..c, NEW w, w = Delivery(rows, from, x),
             d = [w EXCEPT !.cursor = w.before]
      PROVE  Sound(h, n, from, d)
  <2>1. Sound(h, n, from, w)
    BY <1>3, DeliveryIs DEF rows
  <2>2. d.frames = w.frames /\ d.before = w.before /\ d.cursor = w.before
    <3>1. w = [frames |-> w.frames, cursor |-> w.cursor, before |-> w.before]
      BY <1>3 DEF Delivery
    <3>2. d = [frames |-> w.frames, cursor |-> w.before, before |-> w.before]
      BY <1>3, <3>1
    <3>. QED
      BY <3>2
  <2>3. w.cursor \in from..Len(h) /\ w.before \in from..w.cursor
    BY <2>1 DEF Sound
  <2>4. w.before \in from..Len(h) /\ w.before \in from..w.before
        /\ (from + 1)..w.before \subseteq (from + 1)..w.cursor
    BY <1>0, <2>3
  <2>. QED
    BY <2>1, <2>2, <2>4 DEF Sound
<1>. QED
  BY <1>1, <1>2, <1>3 DEF BrokenDeliveries, rows

LEMMA NewestOf ==
    ASSUME NEW lg, NEW sn, NEW h, NEW n, Stored(lg, sn, h, n),
           NEW p \in 1..Len(h), TailAfter(lg, sn, h, p)
    PROVE  /\ Newest(sn, h, n, p)
           /\ head(lg, sn) = Len(h)
           /\ lg = Rows(h, p + 1, Len(h))
<1>0. Len(h) \in Nat /\ p \in Nat
  BY DEF Stored
<1>1. Positions(sn) \in SUBSET Nat
  BY DEF Stored, SnapshotRow, Positions
<1>2. snapshotPosition(sn) = p
  BY <1>1, MaxOr0Is DEF TailAfter, snapshotPosition
<1>3. lg = Rows(h, p + 1, Len(h))
  BY DEF TailAfter, Rows, Row
<1>4. Seqs(lg) = (p + 1)..Len(h)
  <2>1. \A i \in (p + 1)..Len(h) : Row(h, i) \in lg /\ Row(h, i).seq = i
    BY <1>3, RowFacts DEF Rows
  <2>2. \A row \in lg : row.seq \in (p + 1)..Len(h)
    BY <1>3, RowFacts DEF Rows
  <2>3. (p + 1)..Len(h) \subseteq Seqs(lg)
    BY <2>1 DEF Seqs
  <2>. QED
    BY <2>2, <2>3 DEF Seqs
<1>5. head(lg, sn) = Len(h)
  <2>1. CASE p = Len(h)
    <3>1. Seqs(lg) = {}
      BY <1>0, <1>4, <2>1
    <3>. QED
      BY <1>0, <1>2, <2>1, <3>1 DEF head, MaxOr0
  <2>2. CASE p < Len(h)
    <3>1. Len(h) \in Seqs(lg) /\ (\A x \in Seqs(lg) : x <= Len(h)) /\ Seqs(lg) \in SUBSET Nat
      BY <1>0, <1>4, <2>2
    <3>2. MaxOr0(Seqs(lg)) = Len(h)
      BY <3>1, MaxOr0Is
    <3>. QED
      BY <1>2, <2>2, <3>2 DEF head
  <2>. QED
    BY <1>0, <2>1, <2>2
<1>6. \E s \in sn : s.position = p
  BY DEF TailAfter, Positions
<1>7. snapshot(sn) \in sn /\ snapshot(sn).position = p
  BY <1>2, <1>6 DEF snapshot
<1>8. Newest(sn, h, n, p)
  BY <1>2, <1>7 DEF Newest, Stored
<1>. QED
  BY <1>3, <1>5, <1>8

LEMMA StoredNewest ==
    ASSUME NEW lg, NEW sn, NEW h, NEW n, Stored(lg, sn, h, n)
    PROVE  /\ \E p \in 1..Len(h) : Newest(sn, h, n, p) /\ lg = Rows(h, p + 1, Len(h))
           /\ head(lg, sn) = Len(h)
<1>1. PICK p \in 1..Len(h) : TailAfter(lg, sn, h, p)
  BY DEF Stored
<1>. QED
  BY <1>1, NewestOf

\* The authority logs an entry at the next position.
LEMMA StoredLogs ==
    ASSUME NEW lg, NEW sn, NEW h, NEW n, Stored(lg, sn, h, n),
           NEW b \in Update, b \subseteq 1..n
    PROVE  Stored(append(lg, sn, b), sn, Append(h, b), n)
<1>1. PICK p \in 1..Len(h) : TailAfter(lg, sn, h, p)
  BY DEF Stored
<1>2. head(lg, sn) = Len(h) /\ lg = Rows(h, p + 1, Len(h))
  BY <1>1, NewestOf
<1>. DEFINE H == Append(h, b)
            LG == append(lg, sn, b)
<1>3. h \in Seq(Update) /\ Len(h) \in Nat
  BY DEF Stored
<1>4. Grows(h, H) /\ Len(H) = Len(h) + 1 /\ H[Len(h) + 1] = b
  BY <1>3, GrowsAppend
<1>5. LG = lg \union {[seq |-> Len(h) + 1, bytes |-> b]}
  BY <1>2 DEF append
<1>. HIDE DEF H, LG
<1>6. LG = Rows(H, p + 1, Len(H))
  <2>1. \A i \in 1..Len(h) : Row(H, i) = Row(h, i)
    BY <1>4 DEF Grows, Row
  <2>2. Row(H, Len(H)) = [seq |-> Len(h) + 1, bytes |-> b]
    BY <1>4 DEF Row
  <2>3. (p + 1)..Len(H) = ((p + 1)..Len(h)) \union {Len(H)}
    BY <1>3, <1>4
  <2>4. (p + 1)..Len(h) \subseteq 1..Len(h)
    BY <1>3
  <2>5. Rows(H, p + 1, Len(H)) = {Row(H, i) : i \in (p + 1)..Len(h)} \union {Row(H, Len(H))}
    BY <2>3, Zenon DEF Rows
  <2>6. {Row(H, i) : i \in (p + 1)..Len(h)} = Rows(h, p + 1, Len(h))
    <3>1. \A i \in (p + 1)..Len(h) : Row(H, i) = Row(h, i)
      BY <2>1, <2>4
    <3>. HIDE DEF Row
    <3>. QED
      BY <3>1 DEF Rows
  <2>. QED
    BY <1>2, <1>5, <2>2, <2>5, <2>6
<1>7. TailAfter(LG, sn, H, p)
  BY <1>1, <1>6 DEF TailAfter, Rows, Row
<1>8. \A i \in 1..Len(H) : H[i] \subseteq 1..n
  <2>. SUFFICES ASSUME NEW i \in 1..Len(H) PROVE H[i] \subseteq 1..n
    OBVIOUS
  <2>1. CASE i = Len(h) + 1
    BY <1>4, <2>1
  <2>2. CASE i \in 1..Len(h)
    BY <1>4, <2>2 DEF Stored, Grows
  <2>. QED
    BY <1>3, <1>4, <2>1, <2>2
<1>9. \A s \in sn : s.position \in 1..Len(H) /\ Covered(H, s.position, s.bytes)
  BY <1>3, <1>4 DEF Stored, Grows, Covered
<1>10. p \in 1..Len(H) /\ H \in Seq(Update)
  BY <1>3, <1>4 DEF Grows
<1>11. Stored(LG, sn, H, n)
  BY <1>7, <1>8, <1>9, <1>10 DEF Stored
<1>. QED
  BY <1>11 DEF H, LG

\* The authority accepts a snapshot: the rows it stands for are deleted.
LEMMA StoredFolds ==
    ASSUME NEW lg, NEW sn, NEW h, NEW n, Stored(lg, sn, h, n),
           NEW q \in 0..Len(h), NEW b \in Update, b \subseteq 1..n,
           Covered(h, q, b), SnapshotUsable(lg, sn, q)
    PROVE  Stored(foldedLog(lg, q), foldedSnaps(sn, q, b), h, n)
<1>1. PICK p \in 1..Len(h) : TailAfter(lg, sn, h, p)
  BY DEF Stored
<1>2. Newest(sn, h, n, p) /\ lg = Rows(h, p + 1, Len(h)) /\ head(lg, sn) = Len(h)
  BY <1>1, NewestOf
<1>3. Len(h) \in Nat /\ p \in Nat /\ q \in Nat /\ q > p /\ q \in 1..Len(h)
  BY <1>2 DEF Stored, SnapshotUsable, Newest
<1>. DEFINE new == [position |-> q, bytes |-> b]
            all == writeSnapshot(sn, q, b)
            SN == foldedSnaps(sn, q, b)
            LG == foldedLog(lg, q)
<1>4. new.position = q /\ new.bytes = b /\ new \in SnapshotRow
  BY <1>3 DEF SnapshotRow
<1>5. new \in all /\ \A s \in all : s = new \/ s \in sn
  BY DEF writeSnapshot
<1>6. \A s \in sn : s.position <= p /\ s.position \in Nat
  BY <1>1 DEF Stored, SnapshotRow, TailAfter, Positions
<1>. HIDE DEF new, all
<1>7. \A x \in Positions(all) : x <= q /\ x \in Nat
  <2>1. \A s \in all : s.position <= q /\ s.position \in Nat
    BY <1>3, <1>4, <1>5, <1>6
  <2>. QED
    BY <2>1 DEF Positions
<1>8. SN \subseteq all
  BY DEF foldedSnaps, KeepNewest, all
<1>9. new \in SN
  <2>1. {x \in Positions(all) : x > q} = {}
    BY <1>3, <1>7
  <2>2. Cardinality({x \in Positions(all) : x > q}) = 0
    BY <2>1, FS_EmptySet
  <2>. QED
    <3>1. 0 < SNAPSHOTS_KEPT
      BY KeptAssumption
    <3>2. Cardinality({x \in Positions(all) : x > new.position}) < SNAPSHOTS_KEPT
      BY <1>4, <2>2, <3>1
    <3>3. SN = {row \in all : Cardinality({x \in Positions(all) : x > row.position}) < SNAPSHOTS_KEPT}
      BY DEF foldedSnaps, KeepNewest, all
    <3>. QED
      BY <1>5, <3>2, <3>3
<1>. HIDE DEF SN
<1>10. LG = Rows(h, q + 1, Len(h))
  <2>1. ASSUME NEW row \in LG PROVE row \in Rows(h, q + 1, Len(h))
    <3>1. row \in lg /\ row.seq > q
      BY <2>1 DEF foldedLog
    <3>2. PICK i \in (p + 1)..Len(h) : row = Row(h, i)
      BY <1>2, <3>1 DEF Rows
    <3>3. i \in (q + 1)..Len(h)
      BY <1>3, <3>1, <3>2, RowFacts
    <3>. QED
      BY <3>2, <3>3 DEF Rows
  <2>2. ASSUME NEW i \in (q + 1)..Len(h) PROVE Row(h, i) \in LG
    <3>1. i \in (p + 1)..Len(h) /\ i > q
      BY <1>3, <2>2
    <3>2. Row(h, i) \in lg
      BY <1>2, <3>1 DEF Rows
    <3>. QED
      BY <3>1, <3>2, RowFacts DEF foldedLog
  <2>. HIDE DEF LG
  <2>3. Rows(h, q + 1, Len(h)) \subseteq LG
    BY <2>2, Zenon DEF Rows
  <2>. QED
    BY <2>1, <2>3, Zenon
<1>11. TailAfter(LG, SN, h, q)
  <2>1. q \in Positions(SN)
    BY <1>4, <1>9 DEF Positions
  <2>2. \A x \in Positions(SN) : x <= q
    BY <1>7, <1>8 DEF Positions
  <2>. QED
    BY <1>10, <2>1, <2>2 DEF TailAfter, Rows, Row
<1>12. \A s \in SN : /\ s \in SnapshotRow
                     /\ s.position \in 1..Len(h)
                     /\ s.bytes \subseteq 1..n
                     /\ Covered(h, s.position, s.bytes)
  BY <1>3, <1>4, <1>5, <1>8 DEF Stored
<1>13. Stored(LG, SN, h, n)
  BY <1>3, <1>11, <1>12 DEF Stored
<1>. QED
  BY <1>13 DEF LG, SN

\* Whatever was logged, a row or a snapshot still holds.
LEMMA LoggedIsHeld ==
    ASSUME Stored(log, snaps, history, Len(deps)), NEW e, Logged(history, e)
    PROVE  e \in Held
<1>1. PICK p \in 1..Len(history) : TailAfter(log, snaps, history, p)
  BY DEF Stored
<1>2. Newest(snaps, history, Len(deps), p) /\ log = Rows(history, p + 1, Len(history))
  BY <1>1, NewestOf
<1>3. PICK i \in 1..Len(history) : e \in history[i]
  BY DEF Logged
<1>4. CASE i <= p
  <2>1. i \in 1..p
    BY <1>4
  <2>2. e \in snapshot(snaps).bytes /\ snapshot(snaps) \in snaps
    BY <1>2, <1>3, <2>1 DEF Newest, Covered
  <2>3. PICK row \in snaps : e \in row.bytes
    BY <2>2
  <2>4. e \in UNION {x.bytes : x \in snaps}
    BY <2>3
  <2>. QED
    BY <2>4 DEF Held
<1>5. CASE i > p
  <2>1. i \in (p + 1)..Len(history)
    BY <1>5
  <2>2. Row(history, i) \in log
    BY <1>2, <2>1 DEF Rows
  <2>3. e \in Row(history, i).bytes
    BY <1>3, RowFacts
  <2>. QED
    BY <2>2, <2>3 DEF Held
<1>. QED
  BY <1>4, <1>5

\* What a new device downloads covers the whole history.
LEMMA DownloadCovers ==
    ASSUME Stored(log, snaps, history, Len(deps))
    PROVE  /\ Covered(history, Len(history), Download)
           /\ Download \subseteq 1..Len(deps)
<1>1. PICK p \in 1..Len(history) : TailAfter(log, snaps, history, p)
  BY DEF Stored
<1>2. /\ Newest(snaps, history, Len(deps), p)
      /\ log = Rows(history, p + 1, Len(history))
      /\ snapshotPosition(snaps) = p
  BY <1>1, NewestOf DEF Newest
<1>3. \A i \in 1..Len(history) : history[i] \subseteq Download
  <2>. SUFFICES ASSUME NEW i \in 1..Len(history) PROVE history[i] \subseteq Download
    OBVIOUS
  <2>1. CASE i <= p
    <3>1. i \in 1..p
      BY <2>1
    <3>2. history[i] \subseteq snapshot(snaps).bytes
      BY <1>2, <3>1 DEF Newest, Covered
    <3>. QED
      BY <3>2 DEF Download
  <2>2. CASE i > p
    <3>1. i \in (p + 1)..Len(history)
      BY <2>2
    <3>2. Row(history, i) \in log
      BY <1>2, <3>1 DEF Rows
    <3>3. Row(history, i) \in since(log, p) /\ Row(history, i).bytes = history[i]
      BY <2>2, <3>2, RowFacts DEF since
    <3>. QED
      BY <1>2, <3>3 DEF Download
  <2>. QED
    BY <2>1, <2>2
<1>4. \A row \in log : row.bytes \subseteq 1..Len(deps)
  <2>. SUFFICES ASSUME NEW row \in log PROVE row.bytes \subseteq 1..Len(deps)
    OBVIOUS
  <2>1. PICK i \in (p + 1)..Len(history) : row = Row(history, i)
    BY <1>2 DEF Rows
  <2>2. i \in 1..Len(history)
    BY <2>1 DEF Stored
  <2>3. row.bytes = history[i]
    BY <2>1, RowFacts
  <2>. QED
    BY <2>2, <2>3 DEF Stored
<1>5. Download \subseteq 1..Len(deps)
  <2>1. snapshot(snaps).bytes \subseteq 1..Len(deps)
    BY <1>2 DEF Newest
  <2>. QED
    BY <1>4, <2>1 DEF Download, since
<1>. QED
  BY <1>3, <1>5 DEF Covered

-----------------------------------------------------------------------------
(* What the hub sends *)

Sends(h, n, lv, wr, from, x) ==
    /\ x.frames \in Seq(DownFrame)
    /\ \A k \in 1..Len(x.frames) : Honest(h, n, wr, x.frames[k])
    /\ x.cursor \in from..Len(h) /\ x.before \in 0..x.cursor
    /\ \A i \in (from + 1)..x.cursor : h[i] \subseteq lv \/ Carried(x.frames, i)

LEMMA DownRelays ==
    ASSUME NEW h \in Seq(Update), NEW n, NEW lv, NEW wr, NEW sc, NEW hc, NEW at, NEW rf,
           Down(h, n, lv, wr, sc, hc, at, rf),
           NEW from \in 0..hc, NEW x, Sends(h, n, lv, wr, from, x),
           x.frames = <<>> => from = hc
    PROVE  Down(h, n, lv, wr, sc \o x.frames, x.cursor,
                IF x.frames = <<>> THEN at ELSE x.before, rf)
<1>. DEFINE b == IF x.frames = <<>> THEN at ELSE x.before
<1>1. hc \in 0..Len(h) /\ at \in 0..hc /\ Len(h) \in Nat
  BY DEF Down
<1>2. /\ x.frames \in Seq(DownFrame)
      /\ \A k \in 1..Len(x.frames) : Honest(h, n, wr, x.frames[k])
      /\ x.cursor \in from..Len(h) /\ x.before \in 0..x.cursor
      /\ \A i \in (from + 1)..x.cursor : h[i] \subseteq lv \/ Carried(x.frames, i)
  BY DEF Sends
<1>3. b \in 0..x.cursor
  BY <1>1, <1>2
<1>. HIDE DEF b
<1>4. Down(h, n, lv, wr, sc \o x.frames, x.cursor, b, rf)
  BY <1>2, <1>3, DownSends
<1>. QED
  BY <1>4 DEF b

LEMMA SoundSends ==
    ASSUME NEW h \in Seq(Update), NEW n \in Nat, NEW lv, NEW wr, NEW from \in 0..Len(h),
           NEW x, Sound(h, n, from, x)
    PROVE  Sends(h, n, lv, wr, from, x) /\ NoAnswer(x.frames)
<1>1. Len(h) \in Nat /\ Grows(h, h) /\ {} \subseteq wr /\ n <= n
  BY GrowsSelf
<1>2. \A k \in 1..Len(x.frames) : Honest(h, n, wr, x.frames[k])
  BY <1>1, HonestGrows DEF Sound
<1>3. NoAnswer(x.frames)
  BY DEF Sound, NoAnswer
<1>4. x.before \in 0..x.cursor
  BY <1>1 DEF Sound
<1>. QED
  BY <1>2, <1>3, <1>4 DEF Sound, Sends

LEMMA HonestOther ==
    ASSUME NEW h, NEW n, NEW wr, NEW f \in DownFrame,
           f.kind \in {"admitted", "refuse", "wanted"}
    PROVE  Honest(h, n, wr, f)
  BY DEF Honest

\* A frame at the end of a delivery.
LEMMA SendsMore ==
    ASSUME NEW h \in Seq(Update), NEW n, NEW lv, NEW wr, NEW from \in Nat,
           NEW fs \in Seq(DownFrame), NEW c, NEW b, NEW C, NEW B, NEW x, NEW f \in DownFrame,
           \A k \in 1..Len(fs) : Honest(h, n, wr, fs[k]), Honest(h, n, wr, f),
           c \in from..Len(h), C \in c..Len(h), B \in 0..C,
           \A i \in (from + 1)..c : h[i] \subseteq lv \/ Carried(fs, i),
           \A i \in (c + 1)..C : h[i] \subseteq lv,
           x.frames = Append(fs, f), x.cursor = C, x.before = B
    PROVE  Sends(h, n, lv, wr, from, x)
<1>. DEFINE F == Append(fs, f)
<1>1. /\ F \in Seq(DownFrame) /\ Len(F) = Len(fs) + 1 /\ Len(fs) \in Nat
      /\ F[Len(fs) + 1] = f
      /\ \A k \in 1..Len(fs) : F[k] = fs[k]
      /\ \A k \in 1..Len(F) : k \in 1..Len(fs) \/ k = Len(fs) + 1
  BY AppendFacts
<1>. HIDE DEF F
<1>2. \A k \in 1..Len(F) : Honest(h, n, wr, F[k])
  BY <1>1
<1>3. \A i : Carried(fs, i) => Carried(F, i)
  BY <1>1 DEF Carried
<1>4. Len(h) \in Nat
  OBVIOUS
<1>5. C \in from..Len(h) /\ \A i \in (from + 1)..C : i \in (from + 1)..c \/ i \in (c + 1)..C
  BY <1>4
<1>6. \A i \in (from + 1)..C : h[i] \subseteq lv \/ Carried(F, i)
  BY <1>3, <1>5
<1>7. x.frames = F
  BY DEF F
<1>. QED
  BY <1>1, <1>2, <1>5, <1>6, <1>7 DEF Sends

\* A frame in front of a delivery, when a socket joins.
LEMMA SendsAdmitted ==
    ASSUME NEW h \in Seq(Update), NEW n \in Nat, NEW lv, NEW wr, NEW from \in 0..Len(h),
           NEW d, Sound(h, n, from, d), NEW x,
           x.frames = <<Admitted>> \o d.frames, x.cursor = d.cursor, x.before = d.before
    PROVE  Sends(h, n, lv, wr, from, x) /\ NoAnswer(x.frames) /\ x.frames # <<>>
<1>. DEFINE F == <<Admitted>> \o d.frames
            A == <<Admitted>>
<1>1. Sends(h, n, lv, wr, from, d) /\ NoAnswer(d.frames)
  BY SoundSends
<1>2. /\ d.frames \in Seq(DownFrame)
      /\ \A k \in 1..Len(d.frames) : Honest(h, n, wr, d.frames[k])
      /\ d.cursor \in from..Len(h) /\ d.before \in 0..d.cursor
      /\ \A i \in (from + 1)..d.cursor : h[i] \subseteq lv \/ Carried(d.frames, i)
  BY <1>1 DEF Sends
<1>3. Admitted \in DownFrame /\ Admitted.kind = "admitted"
  BY DEF Admitted, DownFrame
<1>4. Honest(h, n, wr, Admitted)
  BY <1>3, HonestOther
<1>5. A \in Seq(DownFrame) /\ Len(A) = 1 /\ A[1] = Admitted
  BY <1>3
<1>. HIDE DEF A
<1>6. Joins(DownFrame, A, d.frames, A \o d.frames)
  BY <1>2, <1>5, ConcatJoins
<1>7. F = A \o d.frames
  BY DEF A
<1>. HIDE DEF F
<1>8. /\ F \in Seq(DownFrame) /\ Len(F) = 1 + Len(d.frames) /\ Len(d.frames) \in Nat
      /\ \A k \in 1..1 : F[k] = A[k]
      /\ \A k \in 1..Len(d.frames) : F[1 + k] = d.frames[k]
      /\ \A k \in 1..Len(F) : k \in 1..1 \/ \E j \in 1..Len(d.frames) : k = 1 + j
  BY <1>5, <1>6, <1>7 DEF Joins
<1>9. \A k \in 1..Len(F) : F[k] = Admitted \/ \E j \in 1..Len(d.frames) : F[k] = d.frames[j]
  BY <1>5, <1>8
<1>10. \A k \in 1..Len(F) : Honest(h, n, wr, F[k])
  BY <1>2, <1>4, <1>9
<1>11. NoAnswer(F) /\ F # <<>>
  <2>1. NoAnswer(F)
    BY <1>1, <1>3, <1>9 DEF NoAnswer
  <2>2. Len(F) # 0
    BY <1>8
  <2>. QED
    BY <2>1, <2>2
<1>12. \A i : Carried(d.frames, i) => Carried(F, i)
  <2>1. ASSUME NEW k \in 1..Len(d.frames)
        PROVE  \E m \in 1..Len(F) : F[m] = d.frames[k]
    <3>1. F[1 + k] = d.frames[k]
      BY <1>8
    <3>2. 1 + k \in 1..Len(F)
      <4>1. Len(F) = 1 + Len(d.frames) /\ Len(d.frames) \in Nat
        BY <1>8
      <4>. QED
        BY <4>1
    <3>. QED
      BY <3>1, <3>2
  <2>. QED
    BY <2>1 DEF Carried
<1>13. x.frames = F
  BY DEF F, A
<1>14. Sends(h, n, lv, wr, from, x)
  BY <1>2, <1>8, <1>10, <1>12, <1>13 DEF Sends
<1>. QED
  BY <1>11, <1>13, <1>14

LEMMA ConcatOne ==
    ASSUME NEW T, NEW s \in Seq(T), NEW x \in T
    PROVE  s \o <<x>> = Append(s, x) /\ s \o <<>> = s
  OBVIOUS

\* One frame after others that answer nothing, and one that answers nothing.
LEMMA AnswersOne ==
    ASSUME NEW fs \in Seq(DownFrame), NEW f \in DownFrame, NEW g \in DownFrame,
           NoAnswer(fs), g.kind \notin {"ack", "refuse"}
    PROVE  /\ OneAnswer(fs) /\ OneAnswer(Append(fs, f)) /\ OneAnswer(Append(Append(fs, f), g))
           /\ HasAck(Append(fs, f)) => f.kind = "ack"
<1>. DEFINE F == Append(fs, f)
            G == Append(F, g)
<1>1. /\ F \in Seq(DownFrame) /\ Len(F) = Len(fs) + 1 /\ Len(fs) \in Nat
      /\ F[Len(fs) + 1] = f
      /\ \A k \in 1..Len(fs) : F[k] = fs[k]
      /\ \A k \in 1..Len(F) : k \in 1..Len(fs) \/ k = Len(fs) + 1
  BY AppendFacts
<1>. HIDE DEF F
<1>2. /\ G \in Seq(DownFrame) /\ Len(G) = Len(F) + 1 /\ Len(F) \in Nat
      /\ G[Len(F) + 1] = g
      /\ \A k \in 1..Len(F) : G[k] = F[k]
      /\ \A k \in 1..Len(G) : k \in 1..Len(F) \/ k = Len(F) + 1
  BY <1>1, AppendFacts
<1>. HIDE DEF G
<1>3. \A k \in 1..Len(F) : F[k].kind \in {"ack", "refuse"} => k = Len(fs) + 1 /\ F[k] = f
  BY <1>1 DEF NoAnswer
<1>4. \A k \in 1..Len(G) : G[k].kind \in {"ack", "refuse"} => k = Len(fs) + 1
  BY <1>2, <1>3
<1>5. OneAnswer(fs) /\ OneAnswer(F) /\ OneAnswer(G)
  BY <1>3, <1>4 DEF OneAnswer, NoAnswer
<1>6. HasAck(F) => f.kind = "ack"
  BY <1>3 DEF HasAck
<1>. QED
  BY <1>5, <1>6 DEF F, G

\* The answer to a push of durable work that was logged last.
LEMMA AnswerSends ==
    ASSUME NEW h \in Seq(Update), NEW n \in Nat, NEW p, Newest(snaps, h, n, p),
           NEW lv, NEW wr, wr \subseteq lv, NEW r,
           hubCursor[r] \in 0..(Len(h) - 1), p <= Len(h) - 1, h[Len(h)] \subseteq wr,
           NEW acked \in BOOLEAN, NEW asked \in BOOLEAN
    PROVE  LET x == Answer(r, Rows(h, p + 1, Len(h)), Len(h), acked, asked)
           IN  Sends(h, n, lv, wr, hubCursor[r], x) /\ OneAnswer(x.frames)
<1>. DEFINE rows == Rows(h, p + 1, Len(h))
            hc == hubCursor[r]
            seq == Len(h)
            mine == Delivery(rows, hc, seq - 1)
            x == Answer(r, rows, seq, acked, asked)
            A == AckFrame(seq)
            W == Wanted(seq)
<1>1. seq \in Nat /\ seq >= 1 /\ hc \in 0..seq /\ hc \in Nat /\ seq - 1 \in Nat
      /\ seq - 1 \in hc..seq /\ seq - 1 >= p
  BY DEF Newest
<1>2. Sound(h, n, hc, mine) /\ mine.cursor = seq - 1
  BY <1>1, DeliveryIs
<1>3. Sends(h, n, lv, wr, hc, mine) /\ NoAnswer(mine.frames)
  BY <1>1, <1>2, SoundSends
<1>. HIDE DEF mine
<1>4. x = [frames |-> mine.frames \o (IF acked THEN <<A>> ELSE <<>>)
                        \o (IF asked THEN <<W>> ELSE <<>>),
           cursor |-> seq,
           before |-> IF acked \/ asked THEN seq ELSE mine.before]
  BY DEF Answer, OwnCeiling, mine
<1>5. A \in DownFrame /\ W \in DownFrame /\ A.kind = "ack" /\ A.seq = seq /\ W.kind = "wanted"
  BY <1>1 DEF AckFrame, Wanted, DownFrame
<1>6. Honest(h, n, wr, A) /\ Honest(h, n, wr, W)
  <2>1. Honest(h, n, wr, A)
    BY <1>1, <1>5 DEF Honest
  <2>. QED
    BY <1>5, <2>1, HonestOther
<1>. HIDE DEF A, W, rows, x, seq, hc
<1>7. /\ mine.frames \in Seq(DownFrame)
      /\ \A k \in 1..Len(mine.frames) : Honest(h, n, wr, mine.frames[k])
      /\ mine.before \in 0..mine.cursor
      /\ \A i \in (hc + 1)..mine.cursor : h[i] \subseteq lv \/ Carried(mine.frames, i)
  BY <1>3 DEF Sends
<1>8. h[seq] \subseteq lv /\ seq \in (seq - 1)..Len(h) /\ seq \in seq..Len(h)
      /\ (\A i \in ((seq - 1) + 1)..seq : h[i] \subseteq lv)
      /\ (\A i \in (seq + 1)..seq : h[i] \subseteq lv)
  BY <1>1 DEF seq
<1>. DEFINE F == Append(mine.frames, A)
            y == [frames |-> F, cursor |-> seq, before |-> seq]
<1>9. mine.frames \o <<A>> = F /\ F \o <<W>> = Append(F, W)
      /\ mine.frames \o <<>> = mine.frames /\ F \o <<>> = F
      /\ F \in Seq(DownFrame)
  BY <1>5, <1>7, ConcatOne, AppendFacts
<1>10. OneAnswer(mine.frames) /\ OneAnswer(F) /\ OneAnswer(Append(F, W))
  BY <1>3, <1>5, <1>7, AnswersOne
<1>11. y.frames = F /\ y.cursor = seq /\ y.before = seq
  OBVIOUS
<1>. HIDE DEF y
<1>12. Sends(h, n, lv, wr, hc, y)
  <2>1. seq \in 0..seq /\ seq - 1 \in hc..Len(h) /\ hc \in Nat
    BY <1>1 DEF seq
  <2>. QED
    BY <1>2, <1>5, <1>6, <1>7, <1>8, <1>11, <2>1, SendsMore DEF F
<1>. HIDE DEF F
<1>13. CASE acked /\ asked
  <2>1. x.frames = Append(F, W) /\ x.cursor = seq /\ x.before = seq
    BY <1>4, <1>9, <1>13
  <2>2. /\ F \in Seq(DownFrame)
        /\ \A k \in 1..Len(F) : Honest(h, n, wr, F[k])
        /\ seq \in hc..Len(h) /\ seq \in 0..seq
        /\ \A i \in (hc + 1)..seq : h[i] \subseteq lv \/ Carried(F, i)
    BY <1>11, <1>12 DEF Sends
  <2>3. Sends(h, n, lv, wr, hc, x)
    BY <1>1, <1>5, <1>6, <1>8, <2>1, <2>2, SendsMore
  <2>. QED
    BY <1>10, <2>1, <2>3 DEF x, rows, seq, hc
<1>14. CASE acked /\ ~asked
  <2>1. x.frames = F /\ x.cursor = seq /\ x.before = seq
    BY <1>4, <1>9, <1>14
  <2>2. Sends(h, n, lv, wr, hc, x)
    BY <1>11, <1>12, <2>1 DEF Sends
  <2>. QED
    BY <1>10, <2>1, <2>2 DEF x, rows, seq, hc
<1>15. CASE ~acked /\ ~asked
  <2>1. x.frames = mine.frames /\ x.cursor = seq /\ x.before = mine.before
    BY <1>4, <1>9, <1>15
  <2>2. seq \in hc..Len(h) /\ mine.before \in 0..seq
    BY <1>1, <1>2, <1>7 DEF seq
  <2>3. \A i \in (hc + 1)..seq : h[i] \subseteq lv \/ Carried(mine.frames, i)
    <3>1. \A i \in (hc + 1)..seq : i = seq \/ i \in (hc + 1)..(seq - 1)
      BY <1>1
    <3>. QED
      BY <1>2, <1>7, <1>8, <3>1
  <2>4. Sends(h, n, lv, wr, hc, x)
    BY <1>7, <2>1, <2>2, <2>3 DEF Sends
  <2>. QED
    BY <1>10, <2>1, <2>4 DEF x, rows, seq, hc
<1>16. CASE ~acked /\ asked
  <2>. DEFINE G == Append(mine.frames, W)
  <2>1. mine.frames \o <<W>> = G
    BY <1>5, <1>7, ConcatOne
  <2>2. x.frames = G /\ x.cursor = seq /\ x.before = seq
    BY <1>4, <1>9, <1>16, <2>1
  <2>3. seq \in 0..seq /\ seq - 1 \in hc..Len(h) /\ hc \in Nat
    BY <1>1 DEF seq
  <2>4. Sends(h, n, lv, wr, hc, x)
    BY <1>2, <1>5, <1>6, <1>7, <1>8, <2>2, <2>3, SendsMore
  <2>5. OneAnswer(G)
    BY <1>3, <1>5, <1>7, AnswersOne
  <2>. QED
    BY <2>2, <2>4, <2>5 DEF x, rows, seq, hc
<1>. QED
  BY <1>13, <1>14, <1>15, <1>16

\* A refusal after a delivery that broke off.
LEMMA RefusalSends ==
    ASSUME NEW h \in Seq(Update), NEW n \in Nat, NEW lv, NEW wr, NEW from \in 0..Len(h),
           NEW d, Sound(h, n, from, d), NEW x, x.frames = Append(d.frames, Refuse),
           x.cursor = d.cursor, x.before = d.cursor
    PROVE  /\ Sends(h, n, lv, wr, from, x)
           /\ OneAnswer(x.frames) /\ ~HasAck(x.frames) /\ x.frames # <<>>
<1>1. Sends(h, n, lv, wr, from, d) /\ NoAnswer(d.frames)
  BY SoundSends
<1>2. /\ d.frames \in Seq(DownFrame)
      /\ \A k \in 1..Len(d.frames) : Honest(h, n, wr, d.frames[k])
      /\ d.cursor \in from..Len(h)
      /\ \A i \in (from + 1)..d.cursor : h[i] \subseteq lv \/ Carried(d.frames, i)
  BY <1>1 DEF Sends
<1>3. Refuse \in DownFrame /\ Refuse.kind = "refuse" /\ Admitted \in DownFrame /\ Admitted.kind = "admitted"
  BY DEF Refuse, Admitted, DownFrame
<1>4. Honest(h, n, wr, Refuse)
  BY <1>3, HonestOther
<1>5. from \in Nat /\ d.cursor \in d.cursor..Len(h) /\ d.cursor \in 0..d.cursor
      /\ \A i \in (d.cursor + 1)..d.cursor : h[i] \subseteq lv
  BY <1>2
<1>6. Sends(h, n, lv, wr, from, x)
  BY <1>2, <1>3, <1>4, <1>5, SendsMore
<1>7. OneAnswer(x.frames) /\ ~HasAck(x.frames)
  <2>1. OneAnswer(Append(d.frames, Refuse))
        /\ (HasAck(Append(d.frames, Refuse)) => Refuse.kind = "ack")
    BY <1>1, <1>2, <1>3, AnswersOne
  <2>. QED
    BY <1>3, <2>1
<1>8. Len(Append(d.frames, Refuse)) = Len(d.frames) + 1 /\ Len(d.frames) \in Nat
  BY <1>2, <1>3, AppendFacts
<1>9. Append(d.frames, Refuse) # <<>>
  BY <1>2, <1>3
<1>. QED
  BY <1>6, <1>7, <1>9

-----------------------------------------------------------------------------
(* The states *)

\* g is f but for the value v at r.
Sets(f, g, r, v) ==
    /\ IsFn(g)
    /\ g[r] = v
    /\ \A o \in Replicas : o # r => g[o] = f[o]

LEMMA ExceptSets ==
    ASSUME NEW f, IsFn(f), NEW r \in Replicas, NEW v, NEW g, g = [f EXCEPT ![r] = v]
    PROVE  Sets(f, g, r, v)
<1>1. DOMAIN f = Replicas
  BY DEF IsFn
<1>2. g = [o \in Replicas |-> IF o = r THEN v ELSE f[o]]
  BY <1>1
<1>. QED
  BY <1>2 DEF IsFn, Sets

LEMMA SameSets ==
    ASSUME NEW f, IsFn(f), NEW r \in Replicas
    PROVE  Sets(f, f, r, f[r])
  BY DEF Sets

\* What the invariant says of the values at one replica.
LEMMA Facts ==
    ASSUME IInv, NEW r \in Replicas
    PROVE  /\ history \in Seq(Update) /\ Len(history) \in Nat
           /\ Len(deps) \in 0..MaxEdits /\ Len(deps) \in Nat
           /\ owed[r] \subseteq written[r] /\ written[r] \subseteq saved[r]
           /\ saved[r] \subseteq live[r] /\ live[r] \subseteq 1..Len(deps)
           /\ written[r] \subseteq 1..Len(deps) /\ written[r] \subseteq live[r]
           /\ queue[r] \in Seq(Op) /\ c2s[r] \in Seq(UpFrame) /\ s2c[r] \in Seq(DownFrame)
           /\ late[r].frames \in Seq(UpFrame)
           /\ cursor[r] \in 0..Len(history) /\ Covered(history, cursor[r], live[r])
           /\ outstanding[r] \in written[r] \union {0} /\ outstanding[r] \in Nat
           /\ Settles(history, owed[r], written[r], acknowledgedThroughId[r])
           /\ acknowledgedThroughId[r] \in Nat
           /\ hubCursor[r] \in 0..Len(history) /\ attachment[r] \in 0..hubCursor[r]
<1>1. StoredI /\ StoreI(r) /\ SessionI(r) /\ DownI(r) /\ UpI(r) /\ LateI(r)
  BY DEF IInv
<1>2. history \in Seq(Update) /\ Len(history) \in Nat /\ Len(deps) \in 0..MaxEdits
      /\ Len(deps) \in Nat
  BY <1>1, StoreSyncAssumption DEF StoredI, Stored
<1>3. /\ owed[r] \subseteq written[r] /\ written[r] \subseteq saved[r]
      /\ saved[r] \subseteq live[r] /\ live[r] \subseteq 1..Len(deps) /\ queue[r] \in Seq(Op)
      /\ cursor[r] \in 0..Len(history) /\ Covered(history, cursor[r], live[r])
  BY <1>1 DEF StoreI, Store
<1>4. /\ outstanding[r] \in written[r] \union {0}
      /\ Settles(history, owed[r], written[r], acknowledgedThroughId[r])
  BY <1>1 DEF SessionI, Session
<1>5. acknowledgedThroughId[r] \in written[r] \union {0}
  BY <1>4 DEF Settles
<1>6. /\ s2c[r] \in Seq(DownFrame) /\ c2s[r] \in Seq(UpFrame) /\ late[r].frames \in Seq(UpFrame)
      /\ hubCursor[r] \in 0..Len(history) /\ attachment[r] \in 0..hubCursor[r]
  BY <1>1 DEF DownI, Down, UpI, LateI, Up
<1>7. written[r] \subseteq 1..Len(deps) /\ written[r] \subseteq live[r]
  BY <1>3
<1>8. \A x \in written[r] \union {0} : x \in Nat
  BY <1>2, <1>7
<1>. QED
  BY <1>2, <1>3, <1>4, <1>5, <1>6, <1>7, <1>8

\* Sets of edits made so far are updates.
LEMMA MadeIsUpdate ==
    ASSUME NEW n \in 0..MaxEdits, NEW S, S \subseteq 1..n PROVE S \in Update
  BY StoreSyncAssumption DEF Update

LEMMA InitIInv == Init => IInv
<1>. SUFFICES ASSUME Init PROVE IInv
  OBVIOUS
<1>. USE DEF Init
<1>1. StoredI
  <2>1. history = <<{}>> /\ {} \in Update /\ history \in Seq(Update) /\ Len(history) = 1
        /\ history[1] = {} /\ Len(deps) = 0
    BY DEF Update
  <2>. DEFINE new == [position |-> 1, bytes |-> {}]
  <2>2. new.position = 1 /\ new.bytes = {} /\ new \in SnapshotRow
    BY <2>1 DEF SnapshotRow
  <2>3. snaps = {new} /\ log = {}
    OBVIOUS
  <2>. HIDE DEF new
  <2>4. Positions(snaps) = {1}
    BY <2>2, <2>3 DEF Positions
  <2>5. TailAfter(log, snaps, history, 1)
    <3>1. (1 + 1)..Len(history) = {}
      BY <2>1
    <3>2. {[seq |-> i, bytes |-> history[i]] : i \in (1 + 1)..Len(history)} = {}
      BY <3>1, Zenon
    <3>. HIDE DEF Init
    <3>. QED
      BY <2>3, <2>4, <3>2 DEF TailAfter
  <2>6. 0 \in 0..MaxEdits
    BY StoreSyncAssumption
  <2>. HIDE DEF Init
  <2>7. \A s \in snaps : /\ s \in SnapshotRow
                         /\ s.position \in 1..Len(history)
                         /\ s.bytes \subseteq 1..Len(deps)
                         /\ Covered(history, s.position, s.bytes)
    BY <2>1, <2>2, <2>3 DEF Covered
  <2>. QED
    BY <2>1, <2>5, <2>6, <2>7 DEF StoredI, Stored
<1>2. <<>> \in Seq(Op) /\ <<>> \in Seq(UpFrame) /\ <<>> \in Seq(DownFrame) /\ Len(<<>>) = 0
  OBVIOUS
<1>3. Len(history) \in Nat
  OBVIOUS
<1>4. Shape
  <2>1. IsFn(live) /\ IsFn(queue) /\ IsFn(saved) /\ IsFn(owed) /\ IsFn(written)
        /\ IsFn(durableCursor) /\ IsFn(cursor) /\ IsFn(acknowledgedThroughId)
        /\ IsFn(outstanding) /\ IsFn(conn) /\ IsFn(c2s) /\ IsFn(s2c)
        /\ IsFn(hubCursor) /\ IsFn(attachment)
    BY DEF IsFn
  <2>2. late \in [Replicas -> [frames : Seq(UpFrame), cursor : Nat]]
    BY <1>2
  <2>3. deps \in Seq(Update) /\ idle \in [Replicas -> BOOLEAN]
        /\ refuses \in [Replicas -> Update] /\ failures \in 0..MaxFailures
        /\ lastError \in [Replicas -> {"none", "Gap", "Unapplyable", "Refused"}]
    BY StoreSyncAssumption DEF Update
  <2>. QED
    BY <2>1, <2>2, <2>3 DEF Shape
<1>5. ASSUME NEW r \in Replicas
      PROVE  StoreI(r) /\ SessionI(r) /\ FlightI(r) /\ DownI(r) /\ UpI(r) /\ LateI(r) /\ ClosedI(r)
  <2>1. StoreI(r)
    BY <1>2, <1>3 DEF StoreI, Store, Covered
  <2>2. SessionI(r)
    BY <1>2 DEF SessionI, Session, Settles
  <2>3. FlightI(r)
    BY <1>2 DEF FlightI, Flight
  <2>4. DownI(r)
    <3>1. s2c[r] = <<>> /\ hubCursor[r] = 0 /\ attachment[r] = 0
      OBVIOUS
    <3>2. history \in Seq(Update)
      BY <1>1 DEF StoredI, Stored
    <3>. HIDE DEF Init
    <3>. QED
      BY <3>1, <3>2, DownEmpty DEF DownI
  <2>5. UpI(r) /\ LateI(r)
    <3>1. c2s[r] = <<>> /\ late[r].frames = <<>>
      OBVIOUS
    <3>. HIDE DEF Init
    <3>. QED
      BY <3>1, UpEmpty DEF UpI, LateI
  <2>6. ClosedI(r)
    BY DEF ClosedI, Closed
  <2>. QED
    BY <2>1, <2>2, <2>3, <2>4, <2>5, <2>6
<1>. QED
  BY <1>1, <1>4, <1>5 DEF IInv

-----------------------------------------------------------------------------
(* A step at one replica *)

RepI(r) ==
    /\ StoreI(r) /\ SessionI(r) /\ FlightI(r) /\ DownI(r) /\ UpI(r) /\ LateI(r) /\ ClosedI(r)

KeptStore(o) ==
    /\ live'[o] = live[o] /\ queue'[o] = queue[o] /\ saved'[o] = saved[o]
    /\ owed'[o] = owed[o] /\ written'[o] = written[o]
    /\ durableCursor'[o] = durableCursor[o] /\ cursor'[o] = cursor[o]
    /\ acknowledgedThroughId'[o] = acknowledgedThroughId[o]
    /\ outstanding'[o] = outstanding[o]

KeptWire(o) ==
    /\ conn'[o] = conn[o] /\ c2s'[o] = c2s[o] /\ s2c'[o] = s2c[o]
    /\ hubCursor'[o] = hubCursor[o] /\ attachment'[o] = attachment[o]
    /\ late'[o] = late[o] /\ refuses'[o] = refuses[o]

LEMMA StoredMore ==
    ASSUME NEW lg, NEW sn, NEW h, NEW n, Stored(lg, sn, h, n), NEW N \in 0..MaxEdits, n <= N
    PROVE  Stored(lg, sn, h, N)
<1>1. n \in Nat /\ N \in Nat
  BY StoreSyncAssumption DEF Stored
<1>2. 1..n \subseteq 1..N
  BY <1>1
<1>. QED
  BY <1>2 DEF Stored

LEMMA KeptGrows ==
    ASSUME IInv, NEW o \in Replicas, Grows(history, history'),
           Len(deps') \in Nat, Len(deps) <= Len(deps'), KeptStore(o), KeptWire(o)
    PROVE  RepI(o)'
<1>1. Len(deps) \in Nat /\ live[o] \subseteq live[o] /\ written[o] \subseteq written[o]
  BY Facts
<1>2. StoreI(o) /\ SessionI(o) /\ FlightI(o) /\ DownI(o) /\ UpI(o) /\ LateI(o) /\ ClosedI(o)
  BY DEF IInv
<1>3. StoreI(o)'
  <2>1. Store(history', Len(deps'), live[o], queue[o], saved[o], owed[o], written[o],
              durableCursor[o], cursor[o])
    BY <1>1, <1>2, StoreGrows DEF StoreI
  <2>. QED
    BY <2>1 DEF StoreI, KeptStore
<1>4. SessionI(o)'
  <2>1. Session(history', queue[o], owed[o], written[o], acknowledgedThroughId[o],
                outstanding[o])
    BY <1>2, SessionGrows DEF SessionI
  <2>. QED
    BY <2>1 DEF SessionI, KeptStore
<1>5. FlightI(o)'
  <2>1. Flight(history', owed[o], outstanding[o], conn[o], c2s[o], s2c[o])
    BY <1>2, FlightGrows DEF FlightI
  <2>. QED
    BY <2>1 DEF FlightI, KeptStore, KeptWire
<1>6. DownI(o)'
  <2>1. Down(history', Len(deps'), live[o], written[o], s2c[o], hubCursor[o],
             attachment[o], refuses[o])
    BY <1>1, <1>2, DownGrows DEF DownI
  <2>. QED
    BY <2>1 DEF DownI, KeptStore, KeptWire
<1>7. UpI(o)' /\ LateI(o)'
  <2>1. Up(history', Len(deps'), written[o], c2s[o])
        /\ Up(history', Len(deps'), written[o], late[o].frames)
    BY <1>1, <1>2, UpGrows DEF UpI, LateI
  <2>. QED
    BY <2>1 DEF UpI, LateI, KeptStore, KeptWire
<1>8. ClosedI(o)'
  BY <1>2 DEF ClosedI, KeptStore, KeptWire
<1>. QED
  BY <1>3, <1>4, <1>5, <1>6, <1>7, <1>8 DEF RepI

\* A step that changes one replica, and perhaps the authority's relations.
LEMMA LocalStep ==
    ASSUME IInv, NEW r \in Replicas, Shape', StoredI', Grows(history, history'),
           Len(deps') \in Nat, Len(deps) <= Len(deps'),
           \A o \in Replicas : o # r => KeptStore(o) /\ KeptWire(o),
           RepI(r)'
    PROVE  IInv'
<1>1. \A o \in Replicas : RepI(o)'
  BY KeptGrows
<1>. QED
  BY <1>1 DEF IInv, RepI

\* The same when history and edits stay as they are.
LEMMA QuietLocalStep ==
    ASSUME IInv, NEW r \in Replicas, Shape', UNCHANGED <<authority, deps>>,
           \A o \in Replicas : o # r => KeptStore(o) /\ KeptWire(o),
           RepI(r)'
    PROVE  IInv'
<1>1. history' = history /\ deps' = deps /\ log' = log /\ snaps' = snaps
  BY DEF authority
<1>2. history \in Seq(Update) /\ Len(deps) \in Nat /\ StoredI
  BY Facts DEF IInv
<1>3. Grows(history, history') /\ Len(deps') \in Nat /\ Len(deps) <= Len(deps')
  BY <1>1, <1>2, GrowsSelf
<1>4. StoredI'
  BY <1>1, <1>2 DEF StoredI
<1>. QED
  BY <1>3, <1>4, LocalStep

LEMMA InstallStep ==
    ASSUME IInv, NEW r \in Replicas, Install(r)
    PROVE  IInv'
<1>. DEFINE D == Download
            N == Len(history)
<1>1. /\ history \in Seq(Update) /\ N \in Nat /\ Len(deps) \in 0..MaxEdits /\ Len(deps) \in Nat
      /\ owed[r] \subseteq written[r] /\ written[r] \subseteq live[r] /\ cursor[r] \in 0..N
  BY Facts
<1>2. StoreI(r) /\ SessionI(r) /\ FlightI(r) /\ DownI(r) /\ UpI(r) /\ LateI(r) /\ ClosedI(r)
      /\ Shape /\ StoredI
  BY DEF IInv
<1>3. cursor[r] = 0 /\ conn[r] = "down"
  BY <1>1, <1>2 DEF Install, Installed, ClosedI, Closed
<1>4. live[r] = {} /\ queue[r] = <<>> /\ owed[r] = {} /\ written[r] = {}
  BY <1>1, <1>2, <1>3 DEF StoreI, Store
<1>5. Covered(history, N, D) /\ D \subseteq 1..Len(deps)
  BY <1>2, DownloadCovers DEF StoredI
<1>6. head(log, snaps) = N /\ N \in 1..N
  BY <1>2, StoredNewest DEF StoredI, Newest
<1>. HIDE DEF D, N
<1>7. /\ Sets(live, live', r, D) /\ Sets(saved, saved', r, D)
      /\ Sets(durableCursor, durableCursor', r, N) /\ Sets(cursor, cursor', r, N)
  <2>1. IsFn(live) /\ IsFn(saved) /\ IsFn(durableCursor) /\ IsFn(cursor)
    BY <1>2 DEF Shape
  <2>2. /\ live' = [live EXCEPT ![r] = D] /\ saved' = [saved EXCEPT ![r] = D]
        /\ durableCursor' = [durableCursor EXCEPT ![r] = N]
        /\ cursor' = [cursor EXCEPT ![r] = N]
    BY <1>6 DEF Install, D
  <2>. QED
    BY <2>1, <2>2, ExceptSets
<1>8. UNCHANGED <<authority, deps, queue, owed, written, acknowledgedThroughId, outstanding, idle,
                  lastError, socket, outside>>
  BY DEF Install
<1>9. Shape'
  BY <1>2, <1>7, <1>8 DEF Shape, Sets, socket, outside
<1>10. \A o \in Replicas : o # r => KeptStore(o) /\ KeptWire(o)
  BY <1>7, <1>8 DEF KeptStore, KeptWire, Sets, socket, outside
<1>11. StoreI(r)'
  <2>1. <<>> \in Seq(Op) /\ Len(<<>>) = 0
    OBVIOUS
  <2>2. Store(history, Len(deps), D, <<>>, D, {}, {}, N, N)
    <3>1. N \in 0..Len(history) /\ N \in 0..N /\ N # 0
      BY <1>1, <1>6 DEF N
    <3>. QED
      BY <1>5, <2>1, <3>1 DEF Store
  <2>. QED
    BY <1>4, <1>7, <1>8, <2>2 DEF StoreI, Sets, authority
<1>12. SessionI(r)' /\ FlightI(r)' /\ UpI(r)' /\ LateI(r)'
  BY <1>2, <1>8 DEF SessionI, FlightI, UpI, LateI, authority, socket
<1>13. DownI(r)'
  <2>1. Down(history, Len(deps), D, written[r], s2c[r], hubCursor[r], attachment[r], refuses[r])
    <3>1. Grows(history, history) /\ Len(deps) <= Len(deps) /\ live[r] \subseteq D
          /\ written[r] \subseteq written[r]
      BY <1>1, <1>4, GrowsSelf
    <3>. QED
      BY <1>1, <1>2, <3>1, DownGrows DEF DownI
  <2>. QED
    BY <1>7, <1>8, <2>1 DEF DownI, Sets, authority, socket, outside
<1>14. ClosedI(r)'
  BY <1>2, <1>3, <1>8 DEF ClosedI, Closed, socket
<1>. QED
  BY <1>8, <1>9, <1>10, <1>11, <1>12, <1>13, <1>14, QuietLocalStep DEF RepI

LEMMA EditStep ==
    ASSUME IInv, NEW r \in Replicas, Edit(r)
    PROVE  IInv'
<1>. DEFINE n == Len(deps)
            e == n + 1
            LV == live[r] \union {e}
            op == [kind |-> "append", bytes |-> {e}, seq |-> 0]
            Q == Append(queue[r], op)
<1>1. /\ history \in Seq(Update) /\ Len(history) \in Nat /\ n \in 0..MaxEdits /\ n \in Nat
      /\ live[r] \subseteq 1..n /\ cursor[r] \in 0..Len(history) /\ queue[r] \in Seq(Op)
      /\ Covered(history, cursor[r], live[r])
  BY Facts
<1>2. StoreI(r) /\ SessionI(r) /\ FlightI(r) /\ DownI(r) /\ UpI(r) /\ LateI(r) /\ ClosedI(r)
      /\ Shape /\ StoredI
  BY DEF IInv
<1>3. cursor[r] > 0 /\ e <= MaxEdits /\ e \in 1..MaxEdits /\ MaxEdits \in Nat /\ e \in 0..MaxEdits
  BY <1>1, StoreSyncAssumption DEF Edit, Installed
<1>4. live[r] \in Update /\ {e} \in Update
  BY <1>1, <1>3, MadeIsUpdate, StoreSyncAssumption DEF Update
<1>5. deps' = Append(deps, live[r]) /\ deps' \in Seq(Update) /\ Len(deps') = e
  BY <1>2, <1>4 DEF Edit, Shape
<1>6. op \in Op /\ op.kind = "append" /\ op.bytes = {e} /\ op.seq = 0
  BY <1>4 DEF Op
<1>7. /\ live' = [live EXCEPT ![r] = LV]
      /\ queue' = [queue EXCEPT ![r] = Q]
      /\ UNCHANGED <<authority, saved, owed, durableCursor, written, client, socket, outside>>
  BY DEF Edit
<1>. HIDE DEF e, LV, Q
<1>8. Sets(live, live', r, LV) /\ Sets(queue, queue', r, Q)
  <2>1. IsFn(live) /\ IsFn(queue)
    BY <1>2 DEF Shape
  <2>. QED
    BY <1>7, <2>1, ExceptSets
<1>9. Shape'
  BY <1>2, <1>5, <1>7, <1>8 DEF Shape, Sets, client, socket, outside
<1>10. \A o \in Replicas : o # r => KeptStore(o) /\ KeptWire(o)
  BY <1>7, <1>8 DEF KeptStore, KeptWire, Sets, client, socket, outside
<1>11. n <= e /\ e \in Nat /\ live[r] \subseteq LV /\ LV \subseteq 1..e /\ written[r] \subseteq written[r]
  BY <1>1, <1>3 DEF e, LV
<1>12. history' = history /\ Grows(history, history)
  BY <1>1, <1>7, GrowsSelf DEF authority
<1>13. StoredI'
  <2>1. Stored(log, snaps, history, e)
    BY <1>2, <1>3, <1>11, StoredMore DEF StoredI
  <2>. QED
    BY <1>5, <1>7, <2>1 DEF StoredI, authority
<1>14. StoreI(r)'
  <2>1. cursor[r] \in cursor[r]..Len(history) /\ op.seq <= cursor[r]
    BY <1>1, <1>6
  <2>2. LV = IF op.kind = "append" THEN live[r] \union op.bytes ELSE live[r]
    BY <1>6 DEF LV
  <2>3. Covered(history, cursor[r], LV)
    BY <1>1, <1>11 DEF Covered
  <2>4. IsOwn(op) => \A x \in op.bytes : x > n
    BY <1>1, <1>6 DEF e
  <2>. HIDE DEF n, op
  <2>5. Store(history, e, LV, Append(queue[r], op), saved[r], owed[r], written[r],
              durableCursor[r], cursor[r])
    BY <1>1, <1>2, <1>3, <1>6, <1>11, <2>1, <2>2, <2>3, <2>4, StoreQueues DEF StoreI, n
  <2>. QED
    BY <1>5, <1>7, <1>8, <1>12, <2>5 DEF StoreI, Sets, client, Q
<1>15. SessionI(r)'
  <2>1. Settles(history, owed[r], written[r], acknowledgedThroughId[r])
        /\ outstanding[r] \in written[r] \union {0}
    BY <1>2 DEF SessionI, Session
  <2>. HIDE DEF op
  <2>2. Session(history, Append(queue[r], op), owed[r], written[r],
                acknowledgedThroughId[r], outstanding[r])
    BY <1>1, <1>2, <1>6, <2>1, SessionQueues DEF SessionI
  <2>. QED
    BY <1>7, <1>8, <1>12, <2>2 DEF SessionI, Sets, client, Q
<1>16. FlightI(r)' /\ ClosedI(r)'
  BY <1>2, <1>7, <1>12 DEF FlightI, ClosedI, client, socket
<1>17. DownI(r)'
  <2>1. Down(history, e, LV, written[r], s2c[r], hubCursor[r], attachment[r], refuses[r])
    BY <1>1, <1>2, <1>11, <1>12, DownGrows DEF DownI
  <2>. QED
    BY <1>5, <1>7, <1>8, <1>12, <2>1 DEF DownI, Sets, socket, outside
<1>18. UpI(r)' /\ LateI(r)'
  <2>1. Up(history, e, written[r], c2s[r]) /\ Up(history, e, written[r], late[r].frames)
    BY <1>1, <1>2, <1>11, <1>12, UpGrows DEF UpI, LateI
  <2>. QED
    BY <1>5, <1>7, <1>12, <2>1 DEF UpI, LateI, socket
<1>. QED
  BY <1>5, <1>9, <1>10, <1>11, <1>12, <1>13, <1>14, <1>15, <1>16, <1>17, <1>18, LocalStep DEF RepI

\* The three kinds of operation that become durable.
LEMMA CommitStep ==
    ASSUME IInv, NEW r \in Replicas, Commit(r)
    PROVE  IInv'
<1>. DEFINE op == Head(queue[r])
            SV == IF op.kind = "append" THEN saved[r] \union op.bytes ELSE saved[r]
            WR == IF IsOwn(op) THEN written[r] \union op.bytes ELSE written[r]
            OW == IF IsOwn(op) THEN owed[r] \union op.bytes
                  ELSE IF op.kind = "ack" THEN StillOwed(owed[r], op.throughId) ELSE owed[r]
            DC == MaxOr0({durableCursor[r], op.seq})
            n == Len(deps)
<1>1. /\ history \in Seq(Update) /\ n \in Nat /\ queue[r] \in Seq(Op)
      /\ owed[r] \subseteq written[r] /\ written[r] \subseteq 1..n
      /\ cursor[r] \in 0..Len(history)
  BY Facts
<1>2. StoreI(r) /\ SessionI(r) /\ FlightI(r) /\ DownI(r) /\ UpI(r) /\ LateI(r) /\ ClosedI(r)
      /\ Shape /\ StoredI
  BY DEF IInv
<1>3. queue[r] # <<>> /\ op \in Op /\ op = queue[r][1] /\ 1 \in 1..Len(queue[r])
  BY <1>1, TailFacts DEF Commit
<1>4. op.seq \in Nat /\ op.kind \in {"append", "ack"} /\ durableCursor[r] \in Nat
      /\ (IsOwn(op) => DC = durableCursor[r]) /\ (op.kind = "ack" => op.throughId \in Nat)
  <2>1. op.seq \in Nat /\ op.kind \in {"append", "ack"} /\ (op.kind = "ack" => op.throughId \in Nat)
    BY <1>3 DEF Op
  <2>2. durableCursor[r] \in Nat
    BY <1>1, <1>2 DEF StoreI, Store
  <2>. HIDE DEF op
  <2>3. DC = IF durableCursor[r] > op.seq THEN durableCursor[r] ELSE op.seq
    BY <2>1, <2>2, MaxOfTwo
  <2>. QED
    BY <2>1, <2>2, <2>3 DEF IsOwn
<1>5. /\ queue' = [queue EXCEPT ![r] = Tail(queue[r])]
      /\ saved' = [saved EXCEPT ![r] = SV]
      /\ owed' = [owed EXCEPT ![r] = OW]
      /\ written' = [written EXCEPT ![r] = WR]
      /\ durableCursor' = [durableCursor EXCEPT ![r] = DC]
      /\ idle' = [idle EXCEPT ![r] = IF IsOwn(op) THEN TRUE ELSE idle[r]]
  <2>0. /\ saved = [saved EXCEPT ![r] = saved[r]] /\ owed = [owed EXCEPT ![r] = owed[r]]
        /\ written = [written EXCEPT ![r] = written[r]]
        /\ durableCursor = [durableCursor EXCEPT ![r] = durableCursor[r]]
    BY <1>2 DEF Shape, IsFn
  <2>1. idle = [idle EXCEPT ![r] = idle[r]]
    BY <1>2 DEF Shape
  <2>2. queue' = [queue EXCEPT ![r] = Tail(queue[r])]
    BY DEF Commit
  <2>. HIDE DEF op
  <2>3. CASE op.kind = "append" /\ op.seq = 0
    <3>1. IsOwn(op) /\ op.kind # "ack"
      BY <2>3 DEF IsOwn
    <3>2. /\ saved' = [saved EXCEPT ![r] = saved[r] \union op.bytes]
          /\ owed' = [owed EXCEPT ![r] = owed[r] \union op.bytes]
          /\ written' = [written EXCEPT ![r] = written[r] \union op.bytes]
          /\ idle' = [idle EXCEPT ![r] = TRUE]
          /\ durableCursor' = durableCursor
      BY <2>3 DEF Commit, op
    <3>3. SV = saved[r] \union op.bytes /\ OW = owed[r] \union op.bytes
          /\ WR = written[r] \union op.bytes /\ DC = durableCursor[r]
      BY <1>4, <2>3, <3>1
    <3>. QED
      BY <2>0, <2>2, <3>1, <3>2, <3>3
  <2>4. CASE op.kind = "append" /\ op.seq > 0
    <3>1. ~IsOwn(op) /\ op.kind # "ack"
      BY <1>4, <2>4 DEF IsOwn
    <3>2. /\ saved' = [saved EXCEPT ![r] = saved[r] \union op.bytes]
          /\ durableCursor' = [durableCursor EXCEPT ![r] = DC]
          /\ owed' = owed /\ written' = written /\ idle' = idle
      BY <1>4, <2>4 DEF Commit, op
    <3>3. SV = saved[r] \union op.bytes /\ OW = owed[r] /\ WR = written[r]
      BY <2>4, <3>1
    <3>. HIDE DEF DC
    <3>. QED
      BY <2>0, <2>1, <2>2, <3>1, <3>2, <3>3
  <2>5. CASE op.kind = "ack"
    <3>1. ~IsOwn(op) /\ op.kind # "append"
      BY <2>5 DEF IsOwn
    <3>2. /\ owed' = [owed EXCEPT ![r] = StillOwed(owed[r], op.throughId)]
          /\ durableCursor' = [durableCursor EXCEPT ![r] = DC]
          /\ saved' = saved /\ written' = written /\ idle' = idle
      BY <2>5 DEF Commit, op
    <3>3. SV = saved[r] /\ OW = StillOwed(owed[r], op.throughId) /\ WR = written[r]
      BY <2>5, <3>1
    <3>. HIDE DEF DC
    <3>. QED
      BY <2>0, <2>1, <2>2, <3>1, <3>2, <3>3
  <2>6. \/ op.kind = "append" /\ op.seq = 0
        \/ op.kind = "append" /\ op.seq > 0
        \/ op.kind = "ack"
    BY <1>4
  <2>. HIDE DEF SV, WR, OW, DC
  <2>. QED
    BY <2>3, <2>4, <2>5, <2>6
<1>6. UNCHANGED <<authority, deps, live, cursor, acknowledgedThroughId, outstanding,
                  lastError, socket, outside>>
  BY DEF Commit
<1>7. \A x \in WR : x \in written[r] \/ (IsOwn(op) /\ x \in op.bytes)
  OBVIOUS
<1>8. IsOwn(op) => \A x \in op.bytes : x \in Nat /\ x > 0 /\ \A y \in written[r] : y < x
  <2>1. op.kind = "append" => op.bytes \subseteq live[r]
    BY <1>3, <1>2 DEF StoreI, Store
  <2>2. live[r] \subseteq 1..n
    BY Facts
  <2>3. IsOwn(op) => \A x \in op.bytes : \A y \in written[r] : y < x
    BY <1>3, <1>2 DEF StoreI, Store
  <2>. HIDE DEF op
  <2>. QED
    BY <1>1, <2>1, <2>2, <2>3 DEF IsOwn
<1>9. OW \subseteq WR
  BY <1>1 DEF StillOwed, IsOwn
<1>10. OwesNoOlder(owed[r], written[r], OW, WR)
  <2>. HIDE DEF op
  <2>1. written[r] \subseteq WR
    OBVIOUS
  <2>2. ASSUME NEW t \in written[r] \union {0}, NEW e \in OW, e <= t
        PROVE  e \in owed[r]
    <3>1. t \in Nat
      BY <1>1
    <3>2. CASE IsOwn(op)
      <4>1. e \in owed[r] \/ e \in op.bytes
        BY <3>2
      <4>2. e \notin op.bytes
        BY <1>8, <2>2, <3>1, <3>2
      <4>. QED
        BY <4>1, <4>2
    <3>3. CASE ~IsOwn(op)
      BY <3>3 DEF StillOwed
    <3>. QED
      BY <3>2, <3>3
  <2>. HIDE DEF OW, WR
  <2>. QED
    BY <2>1, <2>2 DEF OwesNoOlder
<1>11. (\A e \in WR : e \in OW \/ e \in written[r])
       /\ (\A e \in owed[r] : e \in OW \/ Logged(history, e))
  <2>1. \A e \in WR : e \in OW \/ e \in written[r]
    BY <1>7
  <2>2. ASSUME NEW e \in owed[r], e \notin OW PROVE Logged(history, e)
    <3>1. op.kind = "ack" /\ ~IsOwn(op)
      BY <2>2
    <3>2. Settles(history, owed[r], written[r], op.throughId)
      BY <1>2, <1>3, <3>1 DEF SessionI, Session
    <3>3. e <= op.throughId
      <4>1. e \in Nat /\ op.throughId \in Nat
        BY <1>1, <1>4, <3>1
      <4>2. ~(e > op.throughId)
        BY <2>2, <3>1 DEF StillOwed
      <4>. QED
        BY <4>1, <4>2
    <3>. QED
      BY <3>2, <3>3 DEF Settles
  <2>. QED
    BY <2>1, <2>2
<1>12. Store(history, n, live[r], Tail(queue[r]), SV, OW, WR, DC, cursor[r])
  <2>1. Store(history, n, live[r], queue[r], saved[r], owed[r], written[r],
              durableCursor[r], cursor[r])
    BY <1>2 DEF StoreI
  <2>. HIDE DEF OW, n
  <2>. QED
    BY <1>1, <1>3, <1>9, <2>1, StoreCommits
<1>13. Session(history, Tail(queue[r]), OW, WR, acknowledgedThroughId[r], outstanding[r])
  <2>1. Session(history, queue[r], owed[r], written[r], acknowledgedThroughId[r], outstanding[r])
    BY <1>2 DEF SessionI
  <2>. HIDE DEF OW, WR
  <2>. QED
    BY <1>1, <1>3, <1>10, <1>11, <2>1, SessionCommits
<1>14. Flight(history, OW, outstanding[r], conn[r], c2s[r], s2c[r])
  <2>1. Flight(history, owed[r], outstanding[r], conn[r], c2s[r], s2c[r])
        /\ outstanding[r] \in written[r] \union {0}
    BY <1>2 DEF FlightI, SessionI, Session
  <2>. HIDE DEF OW, WR
  <2>. QED
    BY <1>10, <2>1, FlightOwes
<1>15. written[r] \subseteq WR
  OBVIOUS
<1>. HIDE DEF op, SV, WR, OW, DC, n
<1>16. /\ Sets(queue, queue', r, Tail(queue[r])) /\ Sets(saved, saved', r, SV)
       /\ Sets(owed, owed', r, OW) /\ Sets(written, written', r, WR)
       /\ Sets(durableCursor, durableCursor', r, DC)
  <2>1. IsFn(queue) /\ IsFn(saved) /\ IsFn(owed) /\ IsFn(written) /\ IsFn(durableCursor)
    BY <1>2 DEF Shape
  <2>. QED
    BY <1>5, <2>1, ExceptSets
<1>17. Shape'
  <2>1. idle' \in [Replicas -> BOOLEAN]
    BY <1>2, <1>5 DEF Shape
  <2>. QED
    BY <1>2, <1>6, <1>16, <2>1 DEF Shape, Sets, socket, outside
<1>18. \A o \in Replicas : o # r => KeptStore(o) /\ KeptWire(o)
  BY <1>6, <1>16 DEF KeptStore, KeptWire, Sets, socket, outside
<1>19. history' = history /\ deps' = deps /\ n = Len(deps)
  BY <1>6 DEF authority, n
<1>20. StoreI(r)' /\ SessionI(r)' /\ FlightI(r)'
  BY <1>6, <1>12, <1>13, <1>14, <1>16, <1>19 DEF StoreI, SessionI, FlightI, Sets, socket
<1>21. Grows(history, history) /\ n <= n /\ live[r] \subseteq live[r]
  BY <1>1, GrowsSelf
<1>22. DownI(r)'
  <2>1. Down(history, n, live[r], WR, s2c[r], hubCursor[r], attachment[r], refuses[r])
    BY <1>1, <1>2, <1>15, <1>19, <1>21, DownGrows DEF DownI
  <2>. QED
    BY <1>6, <1>16, <1>19, <2>1 DEF DownI, Sets, socket, outside
<1>23. UpI(r)' /\ LateI(r)'
  <2>1. Up(history, n, WR, c2s[r]) /\ Up(history, n, WR, late[r].frames)
    BY <1>1, <1>2, <1>15, <1>19, <1>21, UpGrows DEF UpI, LateI
  <2>. QED
    BY <1>6, <1>16, <1>19, <2>1 DEF UpI, LateI, Sets, socket
<1>24. ClosedI(r)'
  BY <1>2, <1>6 DEF ClosedI, socket
<1>. QED
  BY <1>6, <1>17, <1>18, <1>20, <1>22, <1>23, <1>24, QuietLocalStep DEF RepI

\* A submission goes out.
LEMMA SendStep ==
    ASSUME IInv, NEW r \in Replicas,
           NEW floor, Settles(history, owed[r], written[r], floor),
           NEW sc, NoPush(c2s[r]), NoAnswer(sc), send(r, TRUE, floor, c2s[r])
    PROVE  /\ Sets(outstanding, outstanding', r, outstanding'[r])
           /\ Sets(c2s, c2s', r, c2s'[r])
           /\ outstanding'[r] \in written[r] \union {0}
           /\ Flight(history, owed[r], outstanding'[r], "attached", c2s'[r], sc)
           /\ Up(history, Len(deps), written[r], c2s'[r])
<1>1. IsFn(outstanding) /\ IsFn(c2s) /\ UpI(r)
  BY DEF IInv, Shape
<1>2. Coalesced(r, floor) = Submission(owed[r], floor)
  BY DEF Coalesced, Submission
<1>3. outstanding' = [outstanding EXCEPT ![r] = SentOut(owed[r], floor)]
  <2>1. CASE Submission(owed[r], floor) = {}
    BY <1>2, <2>1 DEF send, SentOut, MaxOr0
  <2>2. CASE Submission(owed[r], floor) # {}
    BY <1>2, <2>2 DEF send, SentOut
  <2>. QED
    BY <2>1, <2>2
<1>4. c2s' = [c2s EXCEPT ![r] = SentUp(owed[r], floor, c2s[r])]
  BY <1>2 DEF send, SentUp
<1>5. /\ Sets(outstanding, outstanding', r, SentOut(owed[r], floor))
      /\ Sets(c2s, c2s', r, SentUp(owed[r], floor, c2s[r]))
  BY <1>1, <1>3, <1>4, ExceptSets
<1>6. outstanding'[r] = SentOut(owed[r], floor) /\ c2s'[r] = SentUp(owed[r], floor, c2s[r])
  BY <1>5 DEF Sets
<1>7. /\ Len(deps) \in 0..MaxEdits /\ owed[r] \subseteq written[r]
      /\ written[r] \subseteq 1..Len(deps) /\ Up(history, Len(deps), written[r], c2s[r])
  BY <1>1, Facts DEF UpI
<1>8. /\ Flight(history, owed[r], SentOut(owed[r], floor), "attached",
                SentUp(owed[r], floor, c2s[r]), sc)
      /\ Up(history, Len(deps), written[r], SentUp(owed[r], floor, c2s[r]))
      /\ SentOut(owed[r], floor) \in written[r] \union {0}
  BY <1>7, FlightSends
<1>. QED
  BY <1>5, <1>6, <1>8

\* Nothing is on the way when nothing is outstanding.
LEMMA NothingOut ==
    ASSUME IInv, NEW r \in Replicas, outstanding[r] = 0
    PROVE  NoPush(c2s[r]) /\ NoAnswer(s2c[r])
<1>1. FlightI(r)
  BY DEF IInv
<1>. QED
  BY <1>1 DEF FlightI, Flight, NoPush, NoAnswer

\* A timer or a flush sends what is owed.
LEMMA SubmitStep ==
    ASSUME IInv, NEW r \in Replicas, conn[r] = "attached", outstanding[r] = 0,
           send(r, TRUE, acknowledgedThroughId[r], c2s[r]),
           idle' \in [Replicas -> BOOLEAN],
           UNCHANGED <<authority, deps, replica, cursor, acknowledgedThroughId, lastError,
                       conn, s2c, hubCursor, attachment, late, outside>>
    PROVE  IInv'
<1>1. StoreI(r) /\ SessionI(r) /\ FlightI(r) /\ DownI(r) /\ UpI(r) /\ LateI(r) /\ ClosedI(r)
      /\ Shape /\ StoredI
  BY DEF IInv
<1>2. Settles(history, owed[r], written[r], acknowledgedThroughId[r])
  BY Facts
<1>3. NoPush(c2s[r]) /\ NoAnswer(s2c[r])
  BY NothingOut
<1>4. /\ Sets(outstanding, outstanding', r, outstanding'[r])
      /\ Sets(c2s, c2s', r, c2s'[r])
      /\ outstanding'[r] \in written[r] \union {0}
      /\ Flight(history, owed[r], outstanding'[r], "attached", c2s'[r], s2c[r])
      /\ Up(history, Len(deps), written[r], c2s'[r])
  BY <1>2, <1>3, SendStep
<1>5. Shape'
  BY <1>1, <1>4 DEF Shape, Sets, replica, outside
<1>6. \A o \in Replicas : o # r => KeptStore(o) /\ KeptWire(o)
  BY <1>4 DEF KeptStore, KeptWire, Sets, replica, outside
<1>7. StoreI(r)' /\ DownI(r)' /\ LateI(r)'
  BY <1>1 DEF StoreI, DownI, LateI, replica, outside, authority
<1>8. SessionI(r)'
  <2>1. Session(history, queue[r], owed[r], written[r], acknowledgedThroughId[r], outstanding'[r])
    BY <1>1, <1>2, <1>4, SessionMoves DEF SessionI
  <2>. QED
    BY <2>1 DEF SessionI, replica, authority
<1>9. FlightI(r)' /\ UpI(r)'
  BY <1>4 DEF FlightI, UpI, replica, authority
<1>10. ClosedI(r)'
  BY <1>1 DEF ClosedI, Closed
<1>. QED
  BY <1>5, <1>6, <1>7, <1>8, <1>9, <1>10, QuietLocalStep DEF RepI

LEMMA IdleFiresStep ==
    ASSUME IInv, NEW r \in Replicas, IdleFires(r)
    PROVE  IInv'
<1>1. /\ UNCHANGED <<authority, deps, replica, cursor, acknowledgedThroughId, lastError,
                     conn, s2c, hubCursor, attachment, late, outside>>
      /\ idle' \in [Replicas -> BOOLEAN] /\ Shape
  BY DEF IdleFires, IInv, Shape
<1>2. CASE conn[r] = "attached" /\ outstanding[r] = 0
  <2>1. send(r, TRUE, acknowledgedThroughId[r], c2s[r])
    BY <1>2 DEF IdleFires, send
  <2>. QED
    BY <1>1, <1>2, <2>1, SubmitStep
<1>3. CASE ~(conn[r] = "attached" /\ outstanding[r] = 0)
  <2>1. outstanding' = outstanding /\ c2s' = c2s
    <3>1. outstanding = [outstanding EXCEPT ![r] = outstanding[r]] /\ c2s = [c2s EXCEPT ![r] = c2s[r]]
      BY <1>1 DEF Shape, IsFn
    <3>. QED
      BY <1>3, <3>1 DEF IdleFires, send
  <2>2. Shape'
    BY <1>1, <2>1 DEF Shape, replica, outside
  <2>3. \A o \in Replicas : o # r => KeptStore(o) /\ KeptWire(o)
    BY <1>1, <2>1 DEF KeptStore, KeptWire, replica, outside
  <2>4. RepI(r)'
    <3>1. RepI(r)
      BY DEF RepI, IInv
    <3>. QED
      BY <1>1, <2>1, <3>1 DEF RepI, StoreI, SessionI, FlightI, DownI, UpI, LateI, ClosedI,
                               replica, outside, authority
  <2>. QED
    BY <1>1, <2>2, <2>3, <2>4, QuietLocalStep
<1>. QED
  BY <1>2, <1>3

LEMMA FlushStep ==
    ASSUME IInv, NEW r \in Replicas, Flush(r)
    PROVE  IInv'
<1>1. /\ UNCHANGED <<authority, deps, replica, cursor, acknowledgedThroughId, lastError,
                     conn, s2c, hubCursor, attachment, late, outside>>
      /\ idle' = idle /\ conn[r] = "attached" /\ outstanding[r] = 0
      /\ send(r, TRUE, acknowledgedThroughId[r], c2s[r])
  BY DEF Flush
<1>2. idle' \in [Replicas -> BOOLEAN]
  BY <1>1 DEF IInv, Shape
<1>. QED
  BY <1>1, <1>2, SubmitStep

LEMMA ConsumeSets ==
    ASSUME IInv, NEW r \in Replicas, Consume(r)
    PROVE  Sets(s2c, s2c', r, Tail(s2c[r]))
<1>1. IsFn(s2c) /\ s2c' = [s2c EXCEPT ![r] = Tail(s2c[r])]
  BY DEF Consume, IInv, Shape
<1>. QED
  BY <1>1, ExceptSets

\* A frame that brings nothing is taken off the wire.
LEMMA ConsumeDown ==
    ASSUME IInv, NEW r \in Replicas, s2c[r] # <<>>,
           Head(s2c[r]).kind \notin {"entry", "snapshot"}
    PROVE  Down(history, Len(deps), live[r], written[r], Tail(s2c[r]), hubCursor[r],
                attachment[r], refuses[r])
<1>1. DownI(r)
  BY DEF IInv
<1>2. Taken(history, live[r], Head(s2c[r]))
  BY DEF Taken
<1>. QED
  BY <1>1, <1>2, DownConsumes DEF DownI

LEMMA ReceiveAdmittedStep ==
    ASSUME IInv, NEW r \in Replicas, ReceiveAdmitted(r)
    PROVE  IInv'
<1>1. StoreI(r) /\ SessionI(r) /\ FlightI(r) /\ DownI(r) /\ UpI(r) /\ LateI(r) /\ ClosedI(r)
      /\ Shape /\ StoredI
  BY DEF IInv
<1>2. /\ UNCHANGED <<authority, deps, replica, cursor, acknowledgedThroughId, idle, lastError,
                     hubCursor, attachment, late, outside>>
      /\ s2c[r] # <<>> /\ Head(s2c[r]).kind = "admitted" /\ conn[r] # "down" /\ Consume(r)
  BY DEF ReceiveAdmitted, Arrived
<1>3. Sets(s2c, s2c', r, Tail(s2c[r]))
  BY <1>2, ConsumeSets
<1>4. s2c[r] \in Seq(DownFrame)
  BY Facts
<1>5. Flight(history, owed[r], outstanding[r], conn[r], c2s[r], Tail(s2c[r]))
  BY <1>1, <1>2, <1>4, FlightConsumes DEF FlightI
<1>6. Down(history, Len(deps), live[r], written[r], Tail(s2c[r]), hubCursor[r],
           attachment[r], refuses[r])
  BY <1>2, ConsumeDown
<1>7. StoreI(r)' /\ DownI(r)' /\ LateI(r)'
  BY <1>1, <1>2, <1>3, <1>6 DEF StoreI, DownI, LateI, Sets, replica, outside, authority
<1>8. CASE conn[r] = "dialled"
  <2>1. Sets(conn, conn', r, "attached")
    <3>1. IsFn(conn) /\ conn' = [conn EXCEPT ![r] = "attached"]
      BY <1>1, <1>8 DEF ReceiveAdmitted, Shape
    <3>. QED
      BY <3>1, ExceptSets
  <2>2. outstanding[r] = 0
    BY <1>1, <1>8 DEF FlightI, Flight
  <2>3. NoPush(c2s[r]) /\ NoAnswer(Tail(s2c[r]))
    BY <1>5, <2>2 DEF Flight, NoPush, NoAnswer
  <2>4. Settles(history, owed[r], written[r], acknowledgedThroughId[r])
    BY Facts
  <2>5. /\ Sets(outstanding, outstanding', r, outstanding'[r])
        /\ Sets(c2s, c2s', r, c2s'[r])
        /\ outstanding'[r] \in written[r] \union {0}
        /\ Flight(history, owed[r], outstanding'[r], "attached", c2s'[r], Tail(s2c[r]))
        /\ Up(history, Len(deps), written[r], c2s'[r])
    <3>1. send(r, TRUE, acknowledgedThroughId[r], c2s[r])
      BY <1>8 DEF ReceiveAdmitted
    <3>. QED
      BY <2>3, <2>4, <3>1, SendStep
  <2>6. Shape'
    BY <1>1, <1>2, <1>3, <2>1, <2>5 DEF Shape, Sets, replica, outside
  <2>7. \A o \in Replicas : o # r => KeptStore(o) /\ KeptWire(o)
    BY <1>2, <1>3, <2>1, <2>5 DEF KeptStore, KeptWire, Sets, replica, outside
  <2>8. SessionI(r)'
    <3>1. Session(history, queue[r], owed[r], written[r], acknowledgedThroughId[r], outstanding'[r])
      BY <1>1, <2>4, <2>5, SessionMoves DEF SessionI
    <3>. QED
      BY <1>2, <3>1 DEF SessionI, replica, authority
  <2>9. FlightI(r)' /\ UpI(r)'
    BY <1>2, <1>3, <2>1, <2>5 DEF FlightI, UpI, Sets, replica, authority
  <2>10. ClosedI(r)'
    BY <1>1, <1>2, <2>1 DEF ClosedI, Closed, Sets
  <2>. QED
    BY <1>2, <1>7, <2>6, <2>7, <2>8, <2>9, <2>10, QuietLocalStep DEF RepI
<1>9. CASE conn[r] # "dialled"
  <2>1. UNCHANGED <<conn, outstanding, c2s>>
    BY <1>9 DEF ReceiveAdmitted
  <2>2. Shape'
    BY <1>1, <1>2, <1>3, <2>1 DEF Shape, Sets, replica, outside
  <2>3. \A o \in Replicas : o # r => KeptStore(o) /\ KeptWire(o)
    BY <1>2, <1>3, <2>1 DEF KeptStore, KeptWire, Sets, replica, outside
  <2>4. SessionI(r)' /\ FlightI(r)' /\ UpI(r)'
    BY <1>1, <1>2, <1>3, <1>5, <2>1 DEF SessionI, FlightI, UpI, Sets, replica, authority
  <2>5. ClosedI(r)'
    BY <1>1, <1>2, <2>1 DEF ClosedI, Closed
  <2>. QED
    BY <1>2, <1>7, <2>2, <2>3, <2>4, <2>5, QuietLocalStep DEF RepI
<1>. QED
  BY <1>8, <1>9

-----------------------------------------------------------------------------
(* A socket is let go *)

LetGo(r) ==
    /\ Sets(conn, conn', r, "down") /\ Sets(c2s, c2s', r, <<>>) /\ Sets(s2c, s2c', r, <<>>)
    /\ Sets(outstanding, outstanding', r, 0)
    /\ Sets(hubCursor, hubCursor', r, 0) /\ Sets(attachment, attachment', r, 0)
    /\ idle' \in [Replicas -> BOOLEAN]
    /\ late' \in [Replicas -> [frames : Seq(UpFrame), cursor : Nat]]
    /\ \A o \in Replicas : o # r => late'[o] = late[o]
    /\ Up(history, Len(deps), written[r], late'[r].frames)

LEMMA AbandonLetsGo ==
    ASSUME IInv, NEW r \in Replicas, Abandon(r)
    PROVE  LetGo(r)
<1>1. Shape /\ UpI(r) /\ LateI(r) /\ c2s[r] \in Seq(UpFrame) /\ hubCursor[r] \in Nat
  BY Facts DEF IInv
<1>2. /\ Sets(conn, conn', r, "down") /\ Sets(c2s, c2s', r, <<>>) /\ Sets(s2c, s2c', r, <<>>)
      /\ Sets(outstanding, outstanding', r, 0)
      /\ Sets(hubCursor, hubCursor', r, 0) /\ Sets(attachment, attachment', r, 0)
  <2>1. /\ IsFn(conn) /\ IsFn(c2s) /\ IsFn(s2c) /\ IsFn(outstanding) /\ IsFn(hubCursor)
        /\ IsFn(attachment)
    BY <1>1 DEF Shape
  <2>2. /\ conn' = [conn EXCEPT ![r] = "down"] /\ c2s' = [c2s EXCEPT ![r] = <<>>]
        /\ s2c' = [s2c EXCEPT ![r] = <<>>] /\ outstanding' = [outstanding EXCEPT ![r] = 0]
        /\ hubCursor' = [hubCursor EXCEPT ![r] = 0]
        /\ attachment' = [attachment EXCEPT ![r] = 0]
    BY DEF Abandon
  <2>. QED
    BY <2>1, <2>2, ExceptSets
<1>3. idle' \in [Replicas -> BOOLEAN]
  BY <1>1 DEF Abandon, Shape
<1>. DEFINE L == [frames : Seq(UpFrame), cursor : Nat]
            new == [frames |-> c2s[r], cursor |-> hubCursor[r]]
<1>4. late \in [Replicas -> L] /\ new \in L /\ new.frames = c2s[r]
  BY <1>1 DEF Shape
<1>. HIDE DEF new, L
<1>5. late' = late \/ late' = [late EXCEPT ![r] = new]
  BY DEF Abandon, new
<1>6. late' \in [Replicas -> L] /\ (\A o \in Replicas : o # r => late'[o] = late[o])
      /\ (late'[r] = late[r] \/ late'[r] = new)
  BY <1>4, <1>5
<1>7. Up(history, Len(deps), written[r], late'[r].frames)
  BY <1>1, <1>4, <1>6 DEF UpI, LateI
<1>. QED
  BY <1>2, <1>3, <1>6, <1>7 DEF LetGo, L

\* The socket goes, and with it perhaps what was not durable.
LEMMA LetGoStep ==
    ASSUME IInv, NEW r \in Replicas, LetGo(r),
           UNCHANGED <<authority, deps, saved, owed, durableCursor, written, refuses>>,
           NEW lv, NEW q, NEW cu, NEW ak,
           Sets(live, live', r, lv), Sets(queue, queue', r, q), Sets(cursor, cursor', r, cu),
           Sets(acknowledgedThroughId, acknowledgedThroughId', r, ak),
           Store(history, Len(deps), lv, q, saved[r], owed[r], written[r], durableCursor[r], cu),
           Session(history, q, owed[r], written[r], ak, 0),
           failures' \in 0..MaxFailures,
           lastError' \in [Replicas -> {"none", "Gap", "Unapplyable", "Refused"}]
    PROVE  IInv'
<1>1. Shape /\ history \in Seq(Update)
  BY Facts DEF IInv
<1>2. Shape'
  BY <1>1 DEF Shape, Sets, LetGo
<1>3. \A o \in Replicas : o # r => KeptStore(o) /\ KeptWire(o)
  BY DEF KeptStore, KeptWire, Sets, LetGo
<1>4. StoreI(r)' /\ SessionI(r)'
  BY DEF StoreI, SessionI, Sets, LetGo, authority
<1>5. FlightI(r)'
  BY FlightDown DEF FlightI, Sets, LetGo
<1>6. DownI(r)'
  <2>1. Down(history, Len(deps), lv, written[r], <<>>, 0, 0, refuses[r])
    BY <1>1, DownEmpty
  <2>. QED
    BY <2>1 DEF DownI, Sets, LetGo, authority
<1>7. UpI(r)' /\ LateI(r)'
  <2>1. Up(history, Len(deps), written[r], <<>>)
    BY UpEmpty
  <2>. QED
    BY <2>1 DEF UpI, LateI, Sets, LetGo, authority
<1>8. ClosedI(r)'
  BY DEF ClosedI, Closed, Sets, LetGo
<1>. QED
  BY <1>2, <1>3, <1>4, <1>5, <1>6, <1>7, <1>8, QuietLocalStep DEF RepI

\* The socket goes and the replica keeps what it has.
LEMMA LetGoKeeps ==
    ASSUME IInv, NEW r \in Replicas, Abandon(r),
           UNCHANGED <<authority, deps, replica, cursor, acknowledgedThroughId, refuses>>,
           failures' \in 0..MaxFailures,
           lastError' \in [Replicas -> {"none", "Gap", "Unapplyable", "Refused"}]
    PROVE  IInv'
<1>1. LetGo(r)
  BY AbandonLetsGo
<1>2. /\ Sets(live, live', r, live[r]) /\ Sets(queue, queue', r, queue[r])
      /\ Sets(cursor, cursor', r, cursor[r])
      /\ Sets(acknowledgedThroughId, acknowledgedThroughId', r, acknowledgedThroughId[r])
  BY SameSets DEF IInv, Shape, replica
<1>3. Store(history, Len(deps), live[r], queue[r], saved[r], owed[r], written[r],
            durableCursor[r], cursor[r])
  BY DEF IInv, StoreI
<1>4. Session(history, queue[r], owed[r], written[r], acknowledgedThroughId[r], 0)
  <2>1. Session(history, queue[r], owed[r], written[r], acknowledgedThroughId[r], outstanding[r])
        /\ Settles(history, owed[r], written[r], acknowledgedThroughId[r])
    BY Facts DEF IInv, SessionI
  <2>. QED
    BY <2>1, SessionMoves
<1>. QED
  BY <1>1, <1>2, <1>3, <1>4, LetGoStep DEF replica

\* One more failure is still within the bound.
LEMMA FailCounts ==
    ASSUME IInv, NEW kind, Fail(kind)
    PROVE  failures' \in 0..MaxFailures
  BY StoreSyncAssumption DEF IInv, Shape, Fail

LEMMA DropStep ==
    ASSUME IInv, NEW r \in Replicas, Drop(r)
    PROVE  IInv'
<1>1. /\ Abandon(r) /\ Fail("drop")
      /\ UNCHANGED <<authority, deps, replica, cursor, acknowledgedThroughId, refuses, lastError>>
  BY DEF Drop
<1>2. failures' \in 0..MaxFailures
  BY <1>1, FailCounts
<1>3. lastError' \in [Replicas -> {"none", "Gap", "Unapplyable", "Refused"}]
  BY <1>1 DEF IInv, Shape
<1>. QED
  BY <1>1, <1>2, <1>3, LetGoKeeps

LEMMA GapStep ==
    ASSUME IInv, NEW r \in Replicas, Gap(r), UNCHANGED <<authority, deps, outside>>
    PROVE  IInv'
<1>1. /\ Abandon(r)
      /\ UNCHANGED <<authority, deps, replica, cursor, acknowledgedThroughId, refuses>>
  BY DEF Gap, outside
<1>2. failures' \in 0..MaxFailures
  BY DEF IInv, Shape, outside
<1>3. lastError' \in [Replicas -> {"none", "Gap", "Unapplyable", "Refused"}]
  BY DEF IInv, Shape, Gap
<1>. QED
  BY <1>1, <1>2, <1>3, LetGoKeeps

LEMMA CrashStep ==
    ASSUME IInv, NEW r \in Replicas, Crash(r)
    PROVE  IInv'
<1>1. /\ Abandon(r) /\ Fail("crash") /\ Shape
      /\ UNCHANGED <<authority, deps, saved, owed, durableCursor, written, refuses>>
      /\ live' = [live EXCEPT ![r] = saved[r]] /\ queue' = [queue EXCEPT ![r] = <<>>]
      /\ cursor' = [cursor EXCEPT ![r] = durableCursor[r]]
      /\ acknowledgedThroughId' = [acknowledgedThroughId EXCEPT ![r] = 0]
      /\ lastError' = [lastError EXCEPT ![r] = "none"]
  BY DEF Crash, RestartCursor, IInv
<1>2. failures' \in 0..MaxFailures
  BY <1>1, FailCounts
<1>3. lastError' \in [Replicas -> {"none", "Gap", "Unapplyable", "Refused"}]
  BY <1>1 DEF Shape
<1>4. LetGo(r)
  BY <1>1, AbandonLetsGo
<1>5. /\ Sets(live, live', r, saved[r]) /\ Sets(queue, queue', r, <<>>)
      /\ Sets(cursor, cursor', r, durableCursor[r])
      /\ Sets(acknowledgedThroughId, acknowledgedThroughId', r, 0)
  <2>1. IsFn(live) /\ IsFn(queue) /\ IsFn(cursor) /\ IsFn(acknowledgedThroughId)
    BY <1>1 DEF Shape
  <2>. QED
    BY <1>1, <2>1, ExceptSets
<1>6. /\ Len(history) \in Nat /\ Len(deps) \in Nat
      /\ owed[r] \subseteq written[r] /\ written[r] \subseteq 1..Len(deps)
      /\ StoreI(r) /\ SessionI(r)
  BY Facts DEF IInv
<1>7. Store(history, Len(deps), saved[r], <<>>, saved[r], owed[r], written[r],
            durableCursor[r], durableCursor[r])
  <2>1. durableCursor[r] \in 0..Len(history) /\ durableCursor[r] \in 0..durableCursor[r]
    BY <1>6 DEF StoreI, Store
  <2>2. durableCursor[r] = 0 => saved[r] = {}
    BY <1>6 DEF StoreI, Store
  <2>3. <<>> \in Seq(Op) /\ Len(<<>>) = 0
    OBVIOUS
  <2>. QED
    BY <1>6, <2>1, <2>2, <2>3 DEF StoreI, Store
<1>8. Session(history, <<>>, owed[r], written[r], 0, 0)
  <2>1. Settles(history, owed[r], written[r], 0)
    BY <1>6, SettlesZero
  <2>. QED
    BY <1>6, <2>1 DEF SessionI, Session
<1>. QED
  BY <1>1, <1>2, <1>3, <1>4, <1>5, <1>7, <1>8, LetGoStep

-----------------------------------------------------------------------------
(* A frame that brings bytes *)

\* The frame at the head is taken, and the document, its queue and the cursor
\* take what it brings.
LEMMA TakeStep ==
    ASSUME IInv, NEW r \in Replicas, Consume(r), s2c[r] # <<>>,
           UNCHANGED <<authority, deps, saved, owed, durableCursor, written,
                       acknowledgedThroughId, outstanding, idle, conn, c2s, hubCursor,
                       attachment, late>>,
           NEW LV, NEW Q, NEW CU, NEW RF,
           Sets(live, live', r, LV), Sets(queue, queue', r, Q), Sets(cursor, cursor', r, CU),
           Sets(refuses, refuses', r, RF), refuses' \in [Replicas -> Update],
           failures' \in 0..MaxFailures,
           lastError' \in [Replicas -> {"none", "Gap", "Unapplyable", "Refused"}],
           live[r] \subseteq LV,
           Store(history, Len(deps), LV, Q, saved[r], owed[r], written[r], durableCursor[r], CU),
           Session(history, Q, owed[r], written[r], acknowledgedThroughId[r], outstanding[r]),
           RF = {} => refuses[r] = {} /\ Taken(history, LV, Head(s2c[r])),
           cursor[r] > 0 => CU > 0
    PROVE  IInv'
<1>1. StoreI(r) /\ SessionI(r) /\ FlightI(r) /\ DownI(r) /\ UpI(r) /\ LateI(r) /\ ClosedI(r)
      /\ Shape /\ s2c[r] \in Seq(DownFrame) /\ cursor[r] \in Nat
  BY Facts DEF IInv
<1>2. Sets(s2c, s2c', r, Tail(s2c[r]))
  BY ConsumeSets
<1>3. Shape'
  BY <1>1, <1>2 DEF Shape, Sets
<1>4. \A o \in Replicas : o # r => KeptStore(o) /\ KeptWire(o)
  BY <1>2 DEF KeptStore, KeptWire, Sets
<1>5. StoreI(r)' /\ SessionI(r)'
  BY DEF StoreI, SessionI, Sets, authority
<1>6. FlightI(r)'
  <2>1. Flight(history, owed[r], outstanding[r], conn[r], c2s[r], Tail(s2c[r]))
    BY <1>1, FlightConsumes DEF FlightI
  <2>. QED
    BY <1>2, <2>1 DEF FlightI, Sets, authority
<1>7. DownI(r)'
  <2>1. Down(history, Len(deps), LV, written[r], Tail(s2c[r]), hubCursor[r], attachment[r], RF)
    BY <1>1, DownConsumes DEF DownI
  <2>. QED
    BY <1>2, <2>1 DEF DownI, Sets, authority
<1>8. UpI(r)' /\ LateI(r)'
  BY <1>1 DEF UpI, LateI, authority
<1>9. ClosedI(r)'
  BY <1>1, <1>2 DEF ClosedI, Closed, Sets
<1>. QED
  BY <1>3, <1>4, <1>5, <1>6, <1>7, <1>8, <1>9, QuietLocalStep DEF RepI

\* A frame that brings nothing new.
LEMMA QuietTakeStep ==
    ASSUME IInv, NEW r \in Replicas, Consume(r), s2c[r] # <<>>,
           UNCHANGED <<authority, deps>>,
           UNCHANGED <<replica, client, conn, c2s, hubCursor, attachment, late, outside>>,
           Taken(history, live[r], Head(s2c[r]))
    PROVE  IInv'
<1>1. Shape /\ StoreI(r) /\ SessionI(r)
  BY DEF IInv
<1>2. /\ Sets(live, live', r, live[r]) /\ Sets(queue, queue', r, queue[r])
      /\ Sets(cursor, cursor', r, cursor[r]) /\ Sets(refuses, refuses', r, refuses[r])
  BY <1>1, SameSets DEF Shape, IsFn, replica, client, outside
<1>3. /\ refuses' \in [Replicas -> Update] /\ failures' \in 0..MaxFailures
      /\ lastError' \in [Replicas -> {"none", "Gap", "Unapplyable", "Refused"}]
  BY <1>1 DEF Shape, client, outside
<1>4. /\ Store(history, Len(deps), live[r], queue[r], saved[r], owed[r], written[r],
               durableCursor[r], cursor[r])
      /\ Session(history, queue[r], owed[r], written[r], acknowledgedThroughId[r],
                 outstanding[r])
  BY <1>1 DEF StoreI, SessionI
<1>5. UNCHANGED <<authority, deps, saved, owed, durableCursor, written,
                  acknowledgedThroughId, outstanding, idle, conn, c2s, hubCursor,
                  attachment, late>>
  BY DEF replica, client
<1>. QED
  BY <1>2, <1>3, <1>4, <1>5, TakeStep

LEMMA RemoteStep ==
    ASSUME IInv, NEW r \in Replicas, Consume(r), s2c[r] # <<>>, conn[r] # "down",
           UNCHANGED <<authority, deps, saved, owed, durableCursor, written,
                       acknowledgedThroughId, outstanding, idle, conn, c2s, hubCursor,
                       attachment, late>>,
           NEW bytes, NEW position, ApplyRemote(r, bytes, position),
           position \in cursor[r]..Len(history), bytes \subseteq 1..Len(deps),
           Covered(history, position, live[r] \union bytes),
           Taken(history, live[r] \union bytes, Head(s2c[r]))
    PROVE  IInv'
<1>1. /\ history \in Seq(Update) /\ Len(history) \in Nat
      /\ Len(deps) \in 0..MaxEdits /\ Len(deps) \in Nat
      /\ live[r] \subseteq 1..Len(deps) /\ queue[r] \in Seq(Op)
      /\ Settles(history, owed[r], written[r], acknowledgedThroughId[r])
      /\ outstanding[r] \in written[r] \union {0}
      /\ cursor[r] \in 0..Len(history)
  BY Facts
<1>2. Shape /\ StoreI(r) /\ SessionI(r) /\ ClosedI(r)
  BY DEF IInv
<1>3. cursor[r] > 0
  BY <1>2 DEF ClosedI, Closed
<1>4. Store(history, Len(deps), live[r], queue[r], saved[r], owed[r], written[r],
            durableCursor[r], cursor[r])
      /\ Session(history, queue[r], owed[r], written[r], acknowledgedThroughId[r],
                 outstanding[r])
  BY <1>2 DEF StoreI, SessionI
<1>5. IsFn(live) /\ IsFn(queue) /\ IsFn(cursor) /\ IsFn(refuses)
      /\ refuses \in [Replicas -> Update] /\ failures \in 0..MaxFailures
      /\ lastError \in [Replicas -> {"none", "Gap", "Unapplyable", "Refused"}]
  BY <1>2 DEF Shape, IsFn
<1>6. CASE bytes \intersect refuses[r] # {} /\ UNCHANGED <<live, queue, cursor, outside>>
           /\ lastError' = [lastError EXCEPT ![r] = "Unapplyable"]
  <2>1. /\ Sets(live, live', r, live[r]) /\ Sets(queue, queue', r, queue[r])
        /\ Sets(cursor, cursor', r, cursor[r]) /\ Sets(refuses, refuses', r, refuses[r])
    BY <1>5, <1>6, SameSets DEF outside
  <2>2. /\ refuses' \in [Replicas -> Update] /\ failures' \in 0..MaxFailures
        /\ lastError' \in [Replicas -> {"none", "Gap", "Unapplyable", "Refused"}]
    BY <1>5, <1>6 DEF outside
  <2>3. refuses[r] # {}
    BY <1>6
  <2>. QED
    BY <1>4, <2>1, <2>2, <2>3, TakeStep
<1>7. CASE /\ Fail("unapplyable")
           /\ \E e \in bytes \ live[r] : refuses' = [refuses EXCEPT ![r] = {e}]
           /\ lastError' = [lastError EXCEPT ![r] = "Unapplyable"]
           /\ UNCHANGED <<live, queue, cursor>>
  <2>1. PICK e \in bytes : refuses' = [refuses EXCEPT ![r] = {e}]
    BY <1>7
  <2>2. {e} \in Update /\ {e} # {}
    BY <1>1, MadeIsUpdate
  <2>3. /\ Sets(live, live', r, live[r]) /\ Sets(queue, queue', r, queue[r])
        /\ Sets(cursor, cursor', r, cursor[r]) /\ Sets(refuses, refuses', r, {e})
    BY <1>5, <1>7, <2>1, SameSets, ExceptSets
  <2>4. /\ refuses' \in [Replicas -> Update]
        /\ lastError' \in [Replicas -> {"none", "Gap", "Unapplyable", "Refused"}]
    BY <1>5, <1>7, <2>1, <2>2
  <2>5. failures' \in 0..MaxFailures
    BY <1>7, FailCounts
  <2>. QED
    BY <1>4, <2>2, <2>3, <2>4, <2>5, TakeStep
<1>8. CASE /\ live' = [live EXCEPT ![r] = live[r] \union bytes]
           /\ queue' = [queue EXCEPT ![r] = queue[r] \o RemoteOps(bytes, position)]
           /\ cursor' = [cursor EXCEPT ![r] = position]
           /\ bytes \intersect refuses[r] = {}
           /\ UNCHANGED <<lastError, outside>>
  <2>. DEFINE op == [kind |-> "append", bytes |-> bytes, seq |-> position]
  <2>1. op.kind = "append" /\ op.bytes = bytes /\ op.seq = position
    OBVIOUS
  <2>2. op \in Op /\ ~IsOwn(op)
    <3>1. bytes \in Update
      BY <1>1, MadeIsUpdate
    <3>2. position \in Nat /\ position # 0
      BY <1>1, <1>3
    <3>. QED
      BY <2>1, <3>1, <3>2 DEF Op, IsOwn
  <2>3. queue[r] \o RemoteOps(bytes, position) = Append(queue[r], op)
    BY <1>1, <2>2, ConcatOne DEF RemoteOps
  <2>. HIDE DEF op
  <2>4. /\ Sets(live, live', r, live[r] \union bytes)
        /\ Sets(queue, queue', r, Append(queue[r], op))
        /\ Sets(cursor, cursor', r, position)
    BY <1>5, <1>8, <2>3, ExceptSets
  <2>5. Sets(refuses, refuses', r, refuses[r])
    BY <1>5, <1>8, SameSets DEF outside
  <2>6. /\ refuses' \in [Replicas -> Update] /\ failures' \in 0..MaxFailures
        /\ lastError' \in [Replicas -> {"none", "Gap", "Unapplyable", "Refused"}]
    BY <1>5, <1>8 DEF outside
  <2>7. live[r] \union bytes = IF op.kind = "append" THEN live[r] \union op.bytes ELSE live[r]
    BY <2>1
  <2>8. live[r] \union bytes \subseteq 1..Len(deps) /\ op.seq <= position
        /\ Len(deps) <= Len(deps) /\ position > 0
    BY <1>1, <1>3, <2>1
  <2>9. Store(history, Len(deps), live[r] \union bytes, Append(queue[r], op), saved[r],
              owed[r], written[r], durableCursor[r], position)
    BY <1>1, <1>3, <1>4, <2>2, <2>7, <2>8, StoreQueues
  <2>10. Session(history, Append(queue[r], op), owed[r], written[r],
                 acknowledgedThroughId[r], outstanding[r])
    BY <1>1, <1>4, <2>1, <2>2, SessionQueues
  <2>11. live[r] \subseteq live[r] \union bytes
    OBVIOUS
  <2>. QED
    BY <2>4, <2>5, <2>6, <2>8, <2>9, <2>10, <2>11, TakeStep
<1>. QED
  BY <1>6, <1>7, <1>8 DEF ApplyRemote

\* What the frame at the head of the wire says of the log.
LEMMA HeadHonest ==
    ASSUME IInv, NEW r \in Replicas, s2c[r] # <<>>
    PROVE  Honest(history, Len(deps), written[r], Head(s2c[r]))
<1>1. DownI(r) /\ s2c[r] \in Seq(DownFrame)
  BY Facts DEF IInv
<1>2. Len(s2c[r]) >= 1 /\ Len(s2c[r]) \in Nat /\ Head(s2c[r]) = s2c[r][1]
  BY <1>1, TailFacts
<1>3. 1 \in 1..Len(s2c[r])
  BY <1>2
<1>. QED
  BY <1>1, <1>2, <1>3 DEF DownI, Down

LEMMA ReceiveEntryStep ==
    ASSUME IInv, NEW r \in Replicas, ReceiveEntry(r)
    PROVE  IInv'
<1>. DEFINE f == Head(s2c[r])
<1>1. /\ history \in Seq(Update) /\ Len(history) \in Nat /\ cursor[r] \in 0..Len(history)
      /\ Covered(history, cursor[r], live[r])
  BY Facts
<1>2. /\ s2c[r] # <<>> /\ f.kind = "entry" /\ conn[r] # "down"
      /\ UNCHANGED <<authority, deps>>
  BY DEF ReceiveEntry, Arrived
<1>3. f.seq \in 1..Len(history) /\ f.bytes = history[f.seq]
  BY <1>2, HeadHonest DEF Honest
<1>4. \/ /\ f.seq <= cursor[r] /\ Consume(r)
         /\ UNCHANGED <<replica, client, conn, c2s, hubCursor, attachment, late, outside>>
      \/ /\ f.seq > cursor[r] /\ f.seq = cursor[r] + 1 /\ Consume(r)
         /\ ApplyRemote(r, f.bytes, f.seq)
         /\ UNCHANGED <<saved, owed, durableCursor, written, acknowledgedThroughId,
                        outstanding, idle, conn, c2s, hubCursor, attachment, late>>
      \/ Gap(r) /\ UNCHANGED outside
  BY DEF ReceiveEntry, Contiguous
<1>. HIDE DEF f
<1>5. CASE /\ f.seq <= cursor[r] /\ Consume(r)
           /\ UNCHANGED <<replica, client, conn, c2s, hubCursor, attachment, late, outside>>
  <2>1. Taken(history, live[r], Head(s2c[r]))
    <3>1. f.seq \in 1..cursor[r]
      BY <1>1, <1>3, <1>5
    <3>. QED
      BY <1>1, <1>2, <3>1 DEF Taken, Covered, f
  <2>. QED
    BY <1>2, <1>5, <2>1, QuietTakeStep
<1>6. CASE /\ f.seq > cursor[r] /\ f.seq = cursor[r] + 1 /\ Consume(r)
           /\ ApplyRemote(r, f.bytes, f.seq)
           /\ UNCHANGED <<saved, owed, durableCursor, written, acknowledgedThroughId,
                          outstanding, idle, conn, c2s, hubCursor, attachment, late>>
  <2>1. f.seq \in cursor[r]..Len(history)
    BY <1>1, <1>3, <1>6
  <2>2. f.bytes \subseteq 1..Len(deps)
    BY <1>3 DEF IInv, StoredI, Stored
  <2>3. Covered(history, f.seq, live[r] \union f.bytes)
    <3>1. \A i \in 1..f.seq : i \in 1..cursor[r] \/ i = f.seq
      BY <1>1, <1>3, <1>6
    <3>. QED
      BY <1>1, <1>3, <3>1 DEF Covered
  <2>4. Taken(history, live[r] \union f.bytes, Head(s2c[r]))
    BY <1>2, <1>3 DEF Taken, f
  <2>. QED
    BY <1>2, <1>6, <2>1, <2>2, <2>3, <2>4, RemoteStep
<1>7. CASE Gap(r) /\ UNCHANGED outside
  BY <1>2, <1>7, GapStep
<1>. QED
  BY <1>4, <1>5, <1>6, <1>7

LEMMA ReceiveSnapshotStep ==
    ASSUME IInv, NEW r \in Replicas, ReceiveSnapshot(r)
    PROVE  IInv'
<1>. DEFINE f == Head(s2c[r])
<1>1. /\ history \in Seq(Update) /\ Len(history) \in Nat /\ cursor[r] \in 0..Len(history)
      /\ Covered(history, cursor[r], live[r])
  BY Facts
<1>2. /\ s2c[r] # <<>> /\ f.kind = "snapshot" /\ conn[r] # "down" /\ Consume(r)
      /\ UNCHANGED <<authority, deps>>
      /\ UNCHANGED <<authority, deps, saved, owed, durableCursor, written,
                     acknowledgedThroughId, outstanding, idle, conn, c2s, hubCursor,
                     attachment, late>>
  BY DEF ReceiveSnapshot, Arrived
<1>3. /\ f.position \in 1..Len(history) /\ f.bytes \subseteq 1..Len(deps)
      /\ Covered(history, f.position, f.bytes)
  BY <1>2, HeadHonest DEF Honest
<1>4. \/ f.position <= cursor[r] /\ UNCHANGED <<live, queue, cursor, lastError, outside>>
      \/ f.position > cursor[r] /\ ApplyRemote(r, f.bytes, f.position)
  BY DEF ReceiveSnapshot
<1>. HIDE DEF f
<1>5. CASE f.position <= cursor[r] /\ UNCHANGED <<live, queue, cursor, lastError, outside>>
  <2>1. Taken(history, live[r], Head(s2c[r]))
    <3>1. 1..f.position \subseteq 1..cursor[r]
      BY <1>1, <1>3, <1>5
    <3>. QED
      BY <1>1, <1>2, <3>1 DEF Taken, Covered, f
  <2>2. UNCHANGED <<replica, client, conn, c2s, hubCursor, attachment, late, outside>>
    BY <1>2, <1>5 DEF replica, client
  <2>. QED
    BY <1>2, <2>1, <2>2, QuietTakeStep
<1>6. CASE f.position > cursor[r] /\ ApplyRemote(r, f.bytes, f.position)
  <2>1. f.position \in cursor[r]..Len(history)
    BY <1>1, <1>3, <1>6
  <2>2. Covered(history, f.position, live[r] \union f.bytes)
    BY <1>3 DEF Covered
  <2>3. Taken(history, live[r] \union f.bytes, Head(s2c[r]))
    BY <1>2, <2>2 DEF Taken, f
  <2>. QED
    BY <1>2, <1>3, <1>6, <2>1, <2>2, <2>3, RemoteStep
<1>. QED
  BY <1>4, <1>5, <1>6

LEMMA ReceiveAckStep ==
    ASSUME IInv, NEW r \in Replicas, ReceiveAck(r)
    PROVE  IInv'
<1>. DEFINE seq == Head(s2c[r]).seq
            floor == MaxOr0({acknowledgedThroughId[r], outstanding[r]})
            op == [kind |-> "ack", throughId |-> outstanding[r], seq |-> seq]
<1>1. /\ history \in Seq(Update) /\ Len(history) \in Nat
      /\ Len(deps) \in 0..MaxEdits /\ Len(deps) \in Nat
      /\ owed[r] \subseteq written[r] /\ written[r] \subseteq 1..Len(deps)
      /\ written[r] \subseteq live[r] /\ live[r] \subseteq 1..Len(deps)
      /\ queue[r] \in Seq(Op) /\ s2c[r] \in Seq(DownFrame)
      /\ Settles(history, owed[r], written[r], acknowledgedThroughId[r])
      /\ outstanding[r] \in written[r] \union {0} /\ outstanding[r] \in Nat
      /\ cursor[r] \in 0..Len(history) /\ Covered(history, cursor[r], live[r])
  BY Facts
<1>2. StoreI(r) /\ SessionI(r) /\ FlightI(r) /\ DownI(r) /\ UpI(r) /\ LateI(r) /\ ClosedI(r)
      /\ Shape /\ StoredI
  BY DEF IInv
<1>3. /\ s2c[r] # <<>> /\ Head(s2c[r]).kind = "ack" /\ conn[r] # "down"
      /\ UNCHANGED <<authority, deps, outside>>
  BY DEF ReceiveAck, Arrived
<1>4. CASE Gap(r)
  BY <1>3, <1>4, GapStep
<1>5. CASE /\ Contiguous(r, seq) /\ Consume(r)
           /\ cursor' = [cursor EXCEPT ![r] = seq]
           /\ acknowledgedThroughId' = [acknowledgedThroughId EXCEPT ![r] = floor]
           /\ queue' = [queue EXCEPT ![r] = Append(queue[r], op)]
           /\ AfterAck(r, acknowledgedThroughId'[r])
           /\ UNCHANGED <<live, saved, owed, durableCursor, written, idle, lastError,
                          conn, hubCursor, attachment, late>>
  <2>1. seq = cursor[r] + 1 /\ seq \in 1..Len(history) /\ history[seq] \subseteq written[r]
    BY <1>3, <1>5, HeadHonest DEF Honest, Contiguous
  <2>2. /\ Flight(history, owed[r], outstanding[r], conn[r], c2s[r], Tail(s2c[r]))
        /\ NoPush(c2s[r]) /\ NoAnswer(Tail(s2c[r]))
        /\ \A e \in owed[r] : e <= outstanding[r] => Logged(history, e)
    BY <1>1, <1>2, <1>3, FlightConsumes DEF FlightI
  <2>3. conn[r] = "attached"
    <3>1. outstanding[r] # 0
      <4>1. 1 \in 1..Len(s2c[r]) /\ s2c[r][1] = Head(s2c[r])
        <5>1. Len(s2c[r]) >= 1 /\ Len(s2c[r]) \in Nat /\ Head(s2c[r]) = s2c[r][1]
          BY <1>1, <1>3, TailFacts
        <5>. QED
          BY <5>1
      <4>. QED
        BY <1>2, <1>3, <4>1 DEF FlightI, Flight
    <3>. QED
      BY <1>2, <3>1 DEF FlightI, Flight
  <2>4. Settles(history, owed[r], written[r], outstanding[r])
    BY <1>1, <2>2 DEF Settles
  <2>5. Settles(history, owed[r], written[r], floor)
    BY <1>1, <2>4, SettlesMax
  <2>6. op.kind = "ack" /\ op.throughId = outstanding[r] /\ op.seq = seq
    OBVIOUS
  <2>7. op \in Op /\ ~IsOwn(op)
    BY <1>1, <2>1, <2>6 DEF Op, IsOwn
  <2>. HIDE DEF op, floor, seq
  <2>8. /\ Sets(cursor, cursor', r, seq) /\ Sets(queue, queue', r, Append(queue[r], op))
        /\ Sets(acknowledgedThroughId, acknowledgedThroughId', r, floor)
    <3>1. IsFn(cursor) /\ IsFn(queue) /\ IsFn(acknowledgedThroughId)
      BY <1>2 DEF Shape
    <3>. QED
      BY <1>5, <3>1, ExceptSets
  <2>9. send(r, TRUE, floor, c2s[r])
    <3>1. acknowledgedThroughId'[r] = floor
      BY <2>8 DEF Sets
    <3>. QED
      BY <1>5, <3>1 DEF AfterAck
  <2>10. /\ Sets(outstanding, outstanding', r, outstanding'[r])
         /\ Sets(c2s, c2s', r, c2s'[r])
         /\ outstanding'[r] \in written[r] \union {0}
         /\ Flight(history, owed[r], outstanding'[r], "attached", c2s'[r], Tail(s2c[r]))
         /\ Up(history, Len(deps), written[r], c2s'[r])
    BY <2>2, <2>5, <2>9, SendStep
  <2>11. Sets(s2c, s2c', r, Tail(s2c[r]))
    BY <1>5, ConsumeSets
  <2>12. Down(history, Len(deps), live[r], written[r], Tail(s2c[r]), hubCursor[r],
              attachment[r], refuses[r])
    BY <1>3, ConsumeDown
  <2>13. Store(history, Len(deps), live[r], Append(queue[r], op), saved[r], owed[r],
               written[r], durableCursor[r], seq)
    <3>1. seq \in cursor[r]..Len(history) /\ op.seq <= seq /\ Len(deps) <= Len(deps)
          /\ live[r] = IF op.kind = "append" THEN live[r] \union op.bytes ELSE live[r]
      BY <1>1, <2>1, <2>6
    <3>2. Covered(history, seq, live[r])
      <4>1. \A i \in 1..seq : i \in 1..cursor[r] \/ i = seq
        BY <1>1, <2>1
      <4>. QED
        BY <1>1, <2>1, <4>1 DEF Covered
    <3>3. cursor[r] > 0
      BY <1>1, <1>2, <1>3 DEF ClosedI, Closed
    <3>4. Store(history, Len(deps), live[r], queue[r], saved[r], owed[r], written[r],
                durableCursor[r], cursor[r])
      BY <1>2 DEF StoreI
    <3>. QED
      BY <1>1, <2>7, <3>1, <3>2, <3>3, <3>4, StoreQueues
  <2>14. Session(history, Append(queue[r], op), owed[r], written[r], floor, outstanding'[r])
    <3>1. Session(history, queue[r], owed[r], written[r], acknowledgedThroughId[r],
                  outstanding[r])
      BY <1>2 DEF SessionI
    <3>. QED
      BY <1>1, <2>4, <2>5, <2>6, <2>7, <2>10, <3>1, SessionQueues
  <2>15. Shape'
    BY <1>2, <1>3, <1>5, <2>8, <2>10, <2>11 DEF Shape, Sets, outside
  <2>16. \A o \in Replicas : o # r => KeptStore(o) /\ KeptWire(o)
    BY <1>3, <1>5, <2>8, <2>10, <2>11 DEF KeptStore, KeptWire, Sets, outside
  <2>17. StoreI(r)' /\ SessionI(r)'
    BY <1>3, <1>5, <2>8, <2>10, <2>13, <2>14 DEF StoreI, SessionI, Sets, authority
  <2>18. FlightI(r)' /\ UpI(r)'
    BY <1>3, <1>5, <2>3, <2>10, <2>11 DEF FlightI, UpI, Sets, authority
  <2>19. DownI(r)' /\ LateI(r)'
    BY <1>2, <1>3, <1>5, <2>11, <2>12 DEF DownI, LateI, Sets, authority, outside
  <2>20. ClosedI(r)'
    BY <1>2, <1>5, <2>1, <2>3, <2>8 DEF ClosedI, Closed, Sets
  <2>. QED
    BY <1>3, <2>15, <2>16, <2>17, <2>18, <2>19, <2>20, QuietLocalStep DEF RepI
<1>. QED
  BY <1>4, <1>5 DEF ReceiveAck

\* Nothing is out when neither a submission nor its answer is on the way.
LEMMA FlightIdle ==
    ASSUME NEW h, NEW ow, NEW cn, NEW cs, NEW sc, NoPush(cs), NoAnswer(sc)
    PROVE  Flight(h, ow, 0, cn, cs, sc)
  BY DEF Flight, NoPush, NoAnswer

LEMMA ReceiveRefuseStep ==
    ASSUME IInv, NEW r \in Replicas, ReceiveRefuse(r)
    PROVE  IInv'
<1>1. StoreI(r) /\ SessionI(r) /\ FlightI(r) /\ DownI(r) /\ UpI(r) /\ LateI(r) /\ ClosedI(r)
      /\ Shape /\ s2c[r] \in Seq(DownFrame)
      /\ Settles(history, owed[r], written[r], acknowledgedThroughId[r])
  BY Facts DEF IInv
<1>2. /\ s2c[r] # <<>> /\ Head(s2c[r]).kind = "refuse" /\ conn[r] # "down" /\ Consume(r)
      /\ outstanding' = [outstanding EXCEPT ![r] = 0]
      /\ lastError' = [lastError EXCEPT ![r] = "Refused"]
      /\ UNCHANGED <<authority, deps, replica, cursor, acknowledgedThroughId, idle,
                     conn, c2s, hubCursor, attachment, late, outside>>
  BY DEF ReceiveRefuse, Arrived
<1>3. Sets(s2c, s2c', r, Tail(s2c[r])) /\ Sets(outstanding, outstanding', r, 0)
  BY <1>1, <1>2, ConsumeSets, ExceptSets DEF Shape
<1>4. NoPush(c2s[r]) /\ NoAnswer(Tail(s2c[r]))
  BY <1>1, <1>2, FlightConsumes DEF FlightI
<1>5. Shape'
  BY <1>1, <1>2, <1>3 DEF Shape, Sets, replica, outside
<1>6. \A o \in Replicas : o # r => KeptStore(o) /\ KeptWire(o)
  BY <1>2, <1>3 DEF KeptStore, KeptWire, Sets, replica, outside
<1>7. StoreI(r)' /\ UpI(r)' /\ LateI(r)' /\ ClosedI(r)'
  BY <1>1, <1>2 DEF StoreI, UpI, LateI, ClosedI, Closed, replica, authority
<1>8. SessionI(r)'
  <2>1. Session(history, queue[r], owed[r], written[r], acknowledgedThroughId[r], 0)
    BY <1>1, SessionMoves DEF SessionI
  <2>. QED
    BY <1>2, <1>3, <2>1 DEF SessionI, Sets, replica, authority
<1>9. FlightI(r)'
  <2>1. Flight(history, owed[r], 0, conn[r], c2s[r], Tail(s2c[r]))
    BY <1>4, FlightIdle
  <2>. QED
    BY <1>2, <1>3, <2>1 DEF FlightI, Sets, replica, authority
<1>10. DownI(r)'
  <2>1. Down(history, Len(deps), live[r], written[r], Tail(s2c[r]), hubCursor[r],
             attachment[r], refuses[r])
    BY <1>2, ConsumeDown
  <2>. QED
    BY <1>2, <1>3, <2>1 DEF DownI, Sets, replica, authority, outside
<1>. QED
  BY <1>2, <1>5, <1>6, <1>7, <1>8, <1>9, <1>10, QuietLocalStep DEF RepI

LEMMA ReceiveWantedStep ==
    ASSUME IInv, NEW r \in Replicas, ReceiveWanted(r)
    PROVE  IInv'
<1>. DEFINE position == Head(s2c[r]).position
            f == Offer(position, live[r])
<1>1. StoreI(r) /\ SessionI(r) /\ FlightI(r) /\ DownI(r) /\ UpI(r) /\ LateI(r) /\ ClosedI(r)
      /\ Shape /\ s2c[r] \in Seq(DownFrame) /\ c2s[r] \in Seq(UpFrame)
  BY Facts DEF IInv
<1>2. /\ s2c[r] # <<>> /\ Head(s2c[r]).kind = "wanted" /\ conn[r] # "down" /\ Consume(r)
      /\ c2s' = IF Offerable(r, position) THEN [c2s EXCEPT ![r] = Append(c2s[r], f)] ELSE c2s
      /\ UNCHANGED <<authority, deps, replica, client, conn, hubCursor, attachment, late,
                     outside>>
  BY DEF ReceiveWanted, Arrived, SnapshotBytes
<1>3. Sets(s2c, s2c', r, Tail(s2c[r]))
  BY <1>2, ConsumeSets
<1>4. Flight(history, owed[r], outstanding[r], conn[r], c2s[r], Tail(s2c[r]))
  BY <1>1, <1>2, FlightConsumes DEF FlightI
<1>5. /\ Sets(c2s, c2s', r, c2s'[r])
      /\ Flight(history, owed[r], outstanding[r], conn[r], c2s'[r], Tail(s2c[r]))
      /\ Up(history, Len(deps), written[r], c2s'[r])
  <2>1. CASE Offerable(r, position)
    <3>1. f.kind = "offer" /\ f.position = cursor[r] /\ f.bytes = live[r]
      BY <2>1 DEF Offerable, Offer
    <3>2. /\ Covered(history, cursor[r], live[r]) /\ live[r] \subseteq 1..Len(deps)
          /\ cursor[r] \in 0..Len(history) /\ Len(deps) \in 0..MaxEdits
          /\ Len(history) \in Nat
      BY Facts
    <3>3. f \in UpFrame
      <4>1. live[r] \in Update /\ position \in Nat
        BY <2>1, <3>2, MadeIsUpdate DEF Offerable
      <4>. QED
        BY <4>1 DEF UpFrame, Offer
    <3>4. Fair(history, Len(deps), written[r], f)
      BY <3>1, <3>2, <3>3 DEF Fair
    <3>. HIDE DEF f, position
    <3>5. Sets(c2s, c2s', r, Append(c2s[r], f))
      BY <1>1, <1>2, <2>1, ExceptSets DEF Shape
    <3>6. Flight(history, owed[r], outstanding[r], conn[r], Append(c2s[r], f), Tail(s2c[r]))
      BY <1>1, <1>4, <3>1, <3>3, FlightOffers
    <3>7. Up(history, Len(deps), written[r], Append(c2s[r], f))
      BY <1>1, <3>4, UpOffers DEF UpI
    <3>. QED
      BY <3>5, <3>6, <3>7 DEF Sets
  <2>2. CASE ~Offerable(r, position)
    BY <1>1, <1>2, <1>4, <2>2, SameSets DEF Shape, UpI
  <2>. QED
    BY <2>1, <2>2
<1>6. Down(history, Len(deps), live[r], written[r], Tail(s2c[r]), hubCursor[r],
           attachment[r], refuses[r])
  BY <1>2, ConsumeDown
<1>7. Shape'
  BY <1>1, <1>2, <1>3, <1>5 DEF Shape, Sets, replica, client, outside
<1>8. \A o \in Replicas : o # r => KeptStore(o) /\ KeptWire(o)
  BY <1>2, <1>3, <1>5 DEF KeptStore, KeptWire, Sets, replica, client, outside
<1>9. StoreI(r)' /\ SessionI(r)' /\ LateI(r)'
  BY <1>1, <1>2 DEF StoreI, SessionI, LateI, replica, client, authority
<1>10. FlightI(r)' /\ UpI(r)' /\ DownI(r)'
  BY <1>2, <1>3, <1>5, <1>6 DEF FlightI, UpI, DownI, Sets, replica, client, authority, outside
<1>11. ClosedI(r)'
  BY <1>1, <1>2 DEF ClosedI, Closed, client
<1>. QED
  BY <1>2, <1>7, <1>8, <1>9, <1>10, <1>11, QuietLocalStep DEF RepI

-----------------------------------------------------------------------------
(* The hub *)

\* A dial: the replica is caught up from its own cursor.
LEMMA DialStep ==
    ASSUME IInv, NEW r \in Replicas, Dial(r)
    PROVE  IInv'
<1>. DEFINE d == Delivery(log, cursor[r], head(log, snaps))
            F == <<Admitted>> \o d.frames
            before == IF d.frames = <<>> THEN cursor[r] ELSE d.before
<1>1. StoreI(r) /\ SessionI(r) /\ FlightI(r) /\ DownI(r) /\ UpI(r) /\ LateI(r) /\ ClosedI(r)
      /\ Shape /\ StoredI
  BY DEF IInv
<1>2. /\ history \in Seq(Update) /\ Len(history) \in Nat /\ Len(deps) \in Nat
      /\ cursor[r] \in 0..Len(history) /\ Covered(history, cursor[r], live[r])
      /\ outstanding[r] \in Nat
  BY Facts
<1>3. /\ cursor[r] > 0 /\ conn[r] = "down"
      /\ conn' = [conn EXCEPT ![r] = "dialled"] /\ s2c' = [s2c EXCEPT ![r] = F]
      /\ hubCursor' = [hubCursor EXCEPT ![r] = d.cursor]
      /\ attachment' = [attachment EXCEPT ![r] = before]
      /\ UNCHANGED <<authority, deps, replica, client, c2s, late, outside>>
  BY DEF Dial, Installed
<1>4. Sound(history, Len(deps), cursor[r], d)
  <2>1. PICK p \in 1..Len(history) : /\ Newest(snaps, history, Len(deps), p)
                                     /\ log = Rows(history, p + 1, Len(history))
    BY <1>1, StoredNewest DEF StoredI
  <2>2. head(log, snaps) = Len(history)
    BY <1>1, StoredNewest DEF StoredI
  <2>. QED
    BY <1>2, <2>1, <2>2, DeliveryIs
<1>. HIDE DEF d
<1>. DEFINE x == [frames |-> F, cursor |-> d.cursor, before |-> d.before]
<1>5. x.frames = F /\ x.cursor = d.cursor /\ x.before = d.before
  OBVIOUS
<1>. HIDE DEF x
<1>6. Sends(history, Len(deps), live[r], written[r], cursor[r], x) /\ NoAnswer(F)
  BY <1>2, <1>4, <1>5, SendsAdmitted
<1>7. Down(history, Len(deps), live[r], written[r], <<>>, cursor[r], cursor[r], refuses[r])
  <2>1. <<>> \in Seq(DownFrame) /\ Len(<<>>) = 0
    OBVIOUS
  <2>. QED
    BY <1>2, <2>1 DEF Down, Covered
<1>8. d.cursor \in cursor[r]..Len(history)
  BY <1>4 DEF Sound
<1>9. F \in Seq(DownFrame) /\ <<>> \o F = F
  <2>1. F \in Seq(DownFrame)
    BY <1>5, <1>6 DEF Sends
  <2>. HIDE DEF F
  <2>. QED
    BY <2>1
<1>. HIDE DEF F
<1>10. Down(history, Len(deps), live[r], written[r], F, d.cursor, before, refuses[r])
  <2>1. cursor[r] \in 0..cursor[r]
    BY <1>2
  <2>2. Down(history, Len(deps), live[r], written[r], <<>> \o x.frames, x.cursor,
             IF x.frames = <<>> THEN cursor[r] ELSE x.before, refuses[r])
    BY <1>2, <1>6, <1>7, <2>1, DownRelays
  <2>3. before \in 0..d.cursor
    <3>1. d.before \in cursor[r]..d.cursor
      BY <1>4 DEF Sound
    <3>. QED
      BY <1>2, <1>8, <3>1
  <2>. HIDE DEF before
  <2>. QED
    BY <1>5, <1>9, <2>2, <2>3 DEF Down
<1>. HIDE DEF before
<1>11. outstanding[r] = 0 /\ c2s[r] = <<>>
  BY <1>1, <1>3 DEF FlightI, Flight, ClosedI, Closed
<1>12. /\ Sets(conn, conn', r, "dialled") /\ Sets(s2c, s2c', r, F)
       /\ Sets(hubCursor, hubCursor', r, d.cursor) /\ Sets(attachment, attachment', r, before)
  <2>1. IsFn(conn) /\ IsFn(s2c) /\ IsFn(hubCursor) /\ IsFn(attachment)
    BY <1>1 DEF Shape
  <2>. QED
    BY <1>3, <2>1, ExceptSets
<1>13. Shape'
  BY <1>1, <1>3, <1>12 DEF Shape, Sets, replica, client, outside
<1>14. \A o \in Replicas : o # r => KeptStore(o) /\ KeptWire(o)
  BY <1>3, <1>12 DEF KeptStore, KeptWire, Sets, replica, client, outside
<1>15. StoreI(r)' /\ SessionI(r)' /\ UpI(r)' /\ LateI(r)'
  BY <1>1, <1>3 DEF StoreI, SessionI, UpI, LateI, replica, client, authority
<1>16. FlightI(r)'
  <2>1. NoPush(<<>>)
    BY DEF NoPush
  <2>2. Flight(history, owed[r], 0, "dialled", <<>>, F)
    BY <1>6, <2>1, FlightIdle
  <2>. QED
    BY <1>3, <1>11, <1>12, <2>2 DEF FlightI, Sets, replica, client, authority
<1>17. DownI(r)'
  BY <1>3, <1>10, <1>12 DEF DownI, Sets, replica, authority, outside
<1>18. ClosedI(r)'
  BY <1>3, <1>12 DEF ClosedI, Closed, Sets, client
<1>. QED
  BY <1>3, <1>13, <1>14, <1>15, <1>16, <1>17, <1>18, QuietLocalStep DEF RepI

\* A connection is sent x.
Serves(o, x) ==
    /\ s2c'[o] = s2c[o] \o x.frames
    /\ hubCursor'[o] = x.cursor
    /\ attachment'[o] = IF x.frames = <<>> THEN attachment[o] ELSE x.before

Spares(o) == s2c'[o] = s2c[o] /\ hubCursor'[o] = hubCursor[o] /\ attachment'[o] = attachment[o]

LEMMA RelayedServes ==
    ASSUME NEW relay, Relayed(relay)
    PROVE  /\ IsFn(s2c') /\ IsFn(hubCursor') /\ IsFn(attachment')
           /\ \A o \in Replicas : IF o \in DOMAIN relay THEN Serves(o, relay[o]) ELSE Spares(o)
  BY DEF Relayed, IsFn, Serves, Spares, AttachmentAfter

\* A step of the hub leaves every replica's store alone.
HubFrame ==
    /\ UNCHANGED <<deps, replica, client, conn, refuses>>
    /\ failures' \in 0..MaxFailures
    /\ IsFn(c2s') /\ IsFn(s2c') /\ IsFn(hubCursor') /\ IsFn(attachment')
    /\ late' \in [Replicas -> [frames : Seq(UpFrame), cursor : Nat]]

LEMMA HubStep ==
    ASSUME IInv, HubFrame, StoredI', Grows(history, history'),
           \A o \in Replicas :
               /\ FlightI(o)' /\ DownI(o)' /\ UpI(o)'
               /\ Up(history', Len(deps), written[o], late'[o].frames)
               /\ conn[o] = "down" => c2s'[o] = <<>> /\ s2c'[o] = <<>> /\ hubCursor'[o] = 0
                                      /\ attachment'[o] = 0
    PROVE  IInv'
<1>1. Shape'
  BY DEF IInv, Shape, HubFrame, replica, client
<1>2. ASSUME NEW o \in Replicas
      PROVE  StoreI(o)' /\ SessionI(o)' /\ LateI(o)' /\ ClosedI(o)'
  <2>1. Len(deps) \in Nat /\ Len(deps) <= Len(deps) /\ StoreI(o) /\ SessionI(o) /\ ClosedI(o)
    BY Facts DEF IInv
  <2>2. Store(history', Len(deps), live[o], queue[o], saved[o], owed[o], written[o],
              durableCursor[o], cursor[o])
    BY <2>1, StoreGrows DEF StoreI
  <2>3. Session(history', queue[o], owed[o], written[o], acknowledgedThroughId[o],
                outstanding[o])
    BY <2>1, SessionGrows DEF SessionI
  <2>4. StoreI(o)' /\ SessionI(o)' /\ LateI(o)'
    BY <2>2, <2>3 DEF StoreI, SessionI, LateI, HubFrame, replica, client
  <2>5. ClosedI(o)'
    BY <2>1 DEF ClosedI, Closed, HubFrame, client
  <2>. QED
    BY <2>4, <2>5
<1>. QED
  BY <1>1, <1>2 DEF IInv

\* A connection that the hub sends nothing new.
LEMMA SparedStep ==
    ASSUME IInv, HubFrame, Grows(history, history'), NEW o \in Replicas, Spares(o),
           c2s'[o] = c2s[o]
    PROVE  /\ FlightI(o)' /\ DownI(o)' /\ UpI(o)'
           /\ conn[o] = "down" => c2s'[o] = <<>> /\ s2c'[o] = <<>> /\ hubCursor'[o] = 0
                                  /\ attachment'[o] = 0
<1>1. FlightI(o) /\ DownI(o) /\ UpI(o) /\ ClosedI(o) /\ Len(deps) \in Nat
      /\ Len(deps) <= Len(deps) /\ live[o] \subseteq live[o] /\ written[o] \subseteq written[o]
  BY Facts DEF IInv
<1>2. Flight(history', owed[o], outstanding[o], conn[o], c2s[o], s2c[o])
  BY <1>1, FlightGrows DEF FlightI
<1>3. Down(history', Len(deps), live[o], written[o], s2c[o], hubCursor[o], attachment[o],
           refuses[o])
  BY <1>1, DownGrows DEF DownI
<1>4. Up(history', Len(deps), written[o], c2s[o])
  BY <1>1, UpGrows DEF UpI
<1>5. FlightI(o)' /\ DownI(o)' /\ UpI(o)'
  BY <1>2, <1>3, <1>4 DEF FlightI, DownI, UpI, HubFrame, Spares, replica, client
<1>. QED
  BY <1>1, <1>5 DEF ClosedI, Closed, Spares

\* A connection that is relayed what it missed.
LEMMA ServedStep ==
    ASSUME IInv, HubFrame, Grows(history, history'), NEW o \in Replicas, conn[o] # "down",
           c2s'[o] = c2s[o],
           NEW from \in 0..hubCursor[o], NEW x, Serves(o, x),
           Sends(history', Len(deps), live[o], written[o], from, x), NoAnswer(x.frames),
           x.frames = <<>> => from = hubCursor[o]
    PROVE  /\ FlightI(o)' /\ DownI(o)' /\ UpI(o)'
           /\ conn[o] = "down" => c2s'[o] = <<>> /\ s2c'[o] = <<>> /\ hubCursor'[o] = 0
                                  /\ attachment'[o] = 0
<1>1. FlightI(o) /\ DownI(o) /\ UpI(o) /\ Len(deps) \in Nat
      /\ Len(deps) <= Len(deps) /\ live[o] \subseteq live[o] /\ written[o] \subseteq written[o]
      /\ s2c[o] \in Seq(DownFrame) /\ history' \in Seq(Update)
  BY Facts DEF IInv, Grows
<1>2. x.frames \in Seq(DownFrame)
  BY DEF Sends
<1>3. Flight(history', owed[o], outstanding[o], conn[o], c2s[o], s2c[o] \o x.frames)
  <2>1. Flight(history', owed[o], outstanding[o], conn[o], c2s[o], s2c[o])
    BY <1>1, FlightGrows DEF FlightI
  <2>. QED
    BY <1>1, <1>2, <2>1, FlightRelays
<1>4. Down(history', Len(deps), live[o], written[o], s2c[o] \o x.frames, x.cursor,
           IF x.frames = <<>> THEN attachment[o] ELSE x.before, refuses[o])
  <2>1. Down(history', Len(deps), live[o], written[o], s2c[o], hubCursor[o], attachment[o],
             refuses[o])
    BY <1>1, DownGrows DEF DownI
  <2>. QED
    BY <1>1, <2>1, DownRelays
<1>5. Up(history', Len(deps), written[o], c2s[o])
  BY <1>1, UpGrows DEF UpI
<1>. QED
  BY <1>3, <1>4, <1>5 DEF FlightI, DownI, UpI, HubFrame, Serves, replica, client

\* The frame at the head of the way up is taken.
LEMMA WaitingTakes ==
    ASSUME IInv, NEW r \in Replicas, NEW kind, Waiting(r, kind)
    PROVE  /\ Sets(c2s, c2s', r, Tail(c2s[r]))
           /\ conn[r] # "down" /\ c2s[r] # <<>> /\ Head(c2s[r]).kind = kind
           /\ c2s[r] \in Seq(UpFrame)
           /\ Fair(history, Len(deps), written[r], Head(c2s[r]))
           /\ Up(history, Len(deps), written[r], Tail(c2s[r]))
<1>1. /\ conn[r] # "down" /\ c2s[r] # <<>> /\ Head(c2s[r]).kind = kind
      /\ c2s' = [c2s EXCEPT ![r] = Tail(c2s[r])]
  BY DEF Waiting
<1>2. IsFn(c2s) /\ UpI(r) /\ c2s[r] \in Seq(UpFrame)
  BY Facts DEF IInv, Shape
<1>3. Sets(c2s, c2s', r, Tail(c2s[r]))
  BY <1>1, <1>2, ExceptSets
<1>. QED
  BY <1>1, <1>2, <1>3, UpTaken DEF UpI

\* The replica whose submission is answered.
LEMMA AnsweredStep ==
    ASSUME IInv, HubFrame, Grows(history, history'), NEW r \in Replicas,
           Waiting(r, "push"), NEW x, Serves(r, x),
           Sends(history', Len(deps), live[r], written[r], hubCursor[r], x),
           OneAnswer(x.frames),
           HasAck(x.frames) => \A e \in Head(c2s[r]).bytes : Logged(history', e)
    PROVE  /\ FlightI(r)' /\ DownI(r)' /\ UpI(r)'
           /\ conn[r] = "down" => c2s'[r] = <<>> /\ s2c'[r] = <<>> /\ hubCursor'[r] = 0
                                  /\ attachment'[r] = 0
<1>1. FlightI(r) /\ DownI(r) /\ Len(deps) \in Nat
      /\ Len(deps) <= Len(deps) /\ live[r] \subseteq live[r] /\ written[r] \subseteq written[r]
      /\ s2c[r] \in Seq(DownFrame) /\ history' \in Seq(Update) /\ hubCursor[r] \in Nat
  BY Facts DEF IInv, Grows
<1>2. /\ Sets(c2s, c2s', r, Tail(c2s[r]))
      /\ conn[r] # "down" /\ c2s[r] # <<>> /\ Head(c2s[r]).kind = "push"
      /\ c2s[r] \in Seq(UpFrame)
      /\ Up(history, Len(deps), written[r], Tail(c2s[r]))
  BY WaitingTakes
<1>3. x.frames \in Seq(DownFrame)
  BY DEF Sends
<1>4. Flight(history', owed[r], outstanding[r], conn[r], Tail(c2s[r]), s2c[r] \o x.frames)
  <2>1. /\ Flight(history, owed[r], outstanding[r], conn[r], Tail(c2s[r]), s2c[r])
        /\ NoPush(Tail(c2s[r])) /\ NoAnswer(s2c[r]) /\ outstanding[r] # 0
        /\ \A e \in owed[r] : e <= outstanding[r] =>
             e \in Head(c2s[r]).bytes \/ Logged(history, e)
    BY <1>1, <1>2, FlightTaken DEF FlightI
  <2>2. Flight(history', owed[r], outstanding[r], conn[r], Tail(c2s[r]), s2c[r])
    BY <2>1, FlightGrows
  <2>3. HasAck(x.frames) => \A e \in owed[r] : e <= outstanding[r] => Logged(history', e)
    BY <2>1, LoggedGrows
  <2>. QED
    BY <1>1, <1>3, <2>1, <2>2, <2>3, FlightAnswered
<1>5. Down(history', Len(deps), live[r], written[r], s2c[r] \o x.frames, x.cursor,
           IF x.frames = <<>> THEN attachment[r] ELSE x.before, refuses[r])
  <2>1. Down(history', Len(deps), live[r], written[r], s2c[r], hubCursor[r], attachment[r],
             refuses[r])
    BY <1>1, DownGrows DEF DownI
  <2>2. hubCursor[r] \in 0..hubCursor[r]
    BY <1>1
  <2>. QED
    BY <1>1, <2>1, <2>2, DownRelays
<1>6. Up(history', Len(deps), written[r], Tail(c2s[r]))
  BY <1>1, <1>2, UpGrows
<1>. QED
  BY <1>2, <1>4, <1>5, <1>6 DEF FlightI, DownI, UpI, HubFrame, Serves, Sets, replica, client

\* What an abandoned socket still brings stays true.
LEMMA LateStays ==
    ASSUME IInv, Grows(history, history'), NEW o \in Replicas, late'[o] = late[o]
    PROVE  Up(history', Len(deps), written[o], late'[o].frames)
<1>1. LateI(o) /\ Len(deps) \in Nat /\ Len(deps) <= Len(deps) /\ written[o] \subseteq written[o]
  BY Facts DEF IInv
<1>. QED
  BY <1>1, UpGrows DEF LateI

\* A submission enters the log at the next position.
Logs(bytes, rows) ==
    /\ Grows(history, history')
    /\ Len(history') = Len(history) + 1 /\ history'[Len(history')] = bytes
    /\ head(log, snaps) + 1 = Len(history')
    /\ \E p \in 1..Len(history) : /\ Newest(snaps, history', Len(deps), p)
                                  /\ rows = Rows(history', p + 1, Len(history'))
    /\ Stored(log', snaps', history', Len(deps))

LEMMA LogStep ==
    ASSUME IInv, NEW bytes \in Update, bytes \subseteq 1..Len(deps), Log(bytes)
    PROVE  Logs(bytes, append(log, snaps, bytes))
<1>. DEFINE n == Len(deps)
            rows == append(log, snaps, bytes)
            H == Append(history, bytes)
<1>1. history \in Seq(Update) /\ Len(history) \in Nat /\ Stored(log, snaps, history, n)
  BY DEF IInv, StoredI, Stored
<1>2. log' = rows /\ history' = H /\ snaps' = snaps
  BY DEF Log
<1>3. Grows(history, H) /\ Len(H) = Len(history) + 1 /\ H[Len(history) + 1] = bytes
  BY <1>1, GrowsAppend
<1>4. Stored(rows, snaps, H, n)
  BY <1>1, StoredLogs
<1>5. PICK p \in 1..Len(history) : Newest(snaps, history, n, p)
  BY <1>1, StoredNewest
<1>6. head(log, snaps) = Len(history)
  BY <1>1, StoredNewest
<1>. HIDE DEF H, rows
<1>7. PICK q \in 1..Len(H) : Newest(snaps, H, n, q) /\ rows = Rows(H, q + 1, Len(H))
  BY <1>4, StoredNewest
<1>8. q = p
  BY <1>5, <1>7 DEF Newest
<1>. QED
  BY <1>2, <1>3, <1>4, <1>6, <1>7, <1>8 DEF Logs, rows

\* What is relayed of a log that just grew is sound for everyone.
LEMMA RelayIsSound ==
    ASSUME IInv, NEW bytes, NEW rows, Logs(bytes, rows), NEW o \in Replicas
    PROVE  /\ Sends(history', Len(deps), live[o], written[o], hubCursor[o],
                    Delivery(rows, hubCursor[o], Len(history')))
           /\ NoAnswer(Delivery(rows, hubCursor[o], Len(history')).frames)
           /\ \A d \in BrokenDeliveries(rows, hubCursor[o], Len(history')) :
                Sends(history', Len(deps), live[o], written[o], hubCursor[o], d)
                /\ NoAnswer(d.frames)
<1>1. /\ history' \in Seq(Update) /\ Len(history') \in Nat /\ Len(deps) \in Nat
      /\ hubCursor[o] \in 0..Len(history')
  BY Facts DEF Logs, Grows
<1>2. PICK p : /\ Newest(snaps, history', Len(deps), p)
               /\ rows = Rows(history', p + 1, Len(history'))
  BY DEF Logs
<1>3. Sound(history', Len(deps), hubCursor[o], Delivery(rows, hubCursor[o], Len(history')))
  BY <1>1, <1>2, DeliveryIs
<1>4. \A d \in BrokenDeliveries(rows, hubCursor[o], Len(history')) :
        Sound(history', Len(deps), hubCursor[o], d)
  BY <1>1, <1>2, BrokenIsSound
<1>. QED
  BY <1>1, <1>3, <1>4, SoundSends

\* The answer to a submission that was just logged.
LEMMA AnswerIsSound ==
    ASSUME IInv, NEW r \in Replicas, NEW bytes, bytes \subseteq written[r],
           NEW rows, Logs(bytes, rows), NEW acked \in BOOLEAN, NEW asked \in BOOLEAN
    PROVE  /\ Sends(history', Len(deps), live[r], written[r], hubCursor[r],
                    Answer(r, rows, Len(history'), acked, asked))
           /\ OneAnswer(Answer(r, rows, Len(history'), acked, asked).frames)
<1>1. /\ history' \in Seq(Update) /\ Len(history') \in Nat /\ Len(deps) \in Nat
      /\ hubCursor[r] \in 0..(Len(history') - 1)
      /\ written[r] \subseteq live[r] /\ history'[Len(history')] \subseteq written[r]
  BY Facts DEF Logs, Grows
<1>2. PICK p \in 1..Len(history) : /\ Newest(snaps, history', Len(deps), p)
                                   /\ rows = Rows(history', p + 1, Len(history'))
  BY DEF Logs
<1>3. p <= Len(history') - 1
  <2>1. Len(history') = Len(history) + 1 /\ Len(history) \in Nat
    BY Facts DEF Logs
  <2>. QED
    BY <1>2, <2>1
<1>. QED
  BY <1>1, <1>2, <1>3, AnswerSends

\* The submission at the head of the way up.
LEMMA PushBytes ==
    ASSUME IInv, NEW r \in Replicas, Waiting(r, "push")
    PROVE  LET b == Head(c2s[r]).bytes
           IN  b \in Update /\ b \subseteq written[r] /\ b \subseteq 1..Len(deps)
<1>1. Fair(history, Len(deps), written[r], Head(c2s[r])) /\ Head(c2s[r]).kind = "push"
  BY WaitingTakes
<1>2. Len(deps) \in 0..MaxEdits /\ written[r] \subseteq 1..Len(deps)
  BY Facts
<1>3. Head(c2s[r]).bytes \subseteq written[r]
  BY <1>1 DEF Fair
<1>. QED
  BY <1>2, <1>3, MadeIsUpdate

\* The authority's relations and the sockets after a submission was logged.
LEMMA HubLogs ==
    ASSUME IInv, NEW bytes, NEW rows, Logs(bytes, rows), UNCHANGED deps
    PROVE  StoredI' /\ Grows(history, history')
  BY DEF Logs, StoredI

LEMMA WaitingFrame ==
    ASSUME IInv, NEW r \in Replicas, NEW kind, Waiting(r, kind),
           UNCHANGED <<deps, replica, client, conn, late, refuses>>,
           failures' \in 0..MaxFailures,
           IsFn(s2c') /\ IsFn(hubCursor') /\ IsFn(attachment')
    PROVE  /\ HubFrame
           /\ \A o \in Replicas : o # r => c2s'[o] = c2s[o]
<1>1. Sets(c2s, c2s', r, Tail(c2s[r]))
  BY WaitingTakes
<1>2. late' \in [Replicas -> [frames : Seq(UpFrame), cursor : Nat]]
  BY DEF IInv, Shape
<1>. QED
  BY <1>1, <1>2 DEF HubFrame, Sets

\* A submission is logged, its replica is answered, and the others are sent
\* what they can be sent.
LEMMA PushStep ==
    ASSUME IInv, NEW r \in Replicas, Waiting(r, "push"),
           UNCHANGED <<deps, replica, client, conn, late, refuses>>,
           failures' \in 0..MaxFailures,
           Log(Head(c2s[r]).bytes),
           NEW relay, DOMAIN relay = Joined, Relayed(relay),
           NEW rows, rows = append(log, snaps, Head(c2s[r]).bytes),
           NEW seq, seq = head(log, snaps) + 1,
           \E acked, asked \in BOOLEAN :
               relay[r] = Answer(r, rows, seq, acked, asked),
           \A o \in Joined : o # r => \/ relay[o] = Delivery(rows, hubCursor[o], seq)
                                      \/ relay[o] \in BrokenDeliveries(rows, hubCursor[o], seq)
    PROVE  IInv'
<1>. DEFINE bytes == Head(c2s[r]).bytes
<1>1. bytes \in Update /\ bytes \subseteq written[r] /\ bytes \subseteq 1..Len(deps)
  BY PushBytes
<1>2. Logs(bytes, rows) /\ seq = Len(history')
  <2>. HIDE DEF bytes
  <2>1. Logs(bytes, append(log, snaps, bytes))
    <3>1. Log(bytes)
      BY DEF bytes
    <3>. QED
      BY <1>1, <3>1, LogStep
  <2>2. rows = append(log, snaps, bytes)
    BY DEF bytes
  <2>. QED
    BY <2>1, <2>2 DEF Logs
<1>. HIDE DEF bytes
<1>3. StoredI' /\ Grows(history, history')
  BY <1>2, HubLogs
<1>4. /\ IsFn(s2c') /\ IsFn(hubCursor') /\ IsFn(attachment')
      /\ \A o \in Replicas : IF o \in Joined THEN Serves(o, relay[o]) ELSE Spares(o)
  BY RelayedServes
<1>5. HubFrame /\ \A o \in Replicas : o # r => c2s'[o] = c2s[o]
  BY <1>4, WaitingFrame
<1>6. conn[r] # "down" /\ r \in Joined
  BY WaitingTakes DEF Joined
<1>7. ASSUME NEW o \in Replicas
      PROVE  /\ FlightI(o)' /\ DownI(o)' /\ UpI(o)'
             /\ conn[o] = "down" => c2s'[o] = <<>> /\ s2c'[o] = <<>> /\ hubCursor'[o] = 0
                                    /\ attachment'[o] = 0
  <2>1. CASE o = r
    <3>1. /\ Sends(history', Len(deps), live[r], written[r], hubCursor[r], relay[r])
          /\ OneAnswer(relay[r].frames)
      <4>1. PICK acked \in BOOLEAN, asked \in BOOLEAN :
                   relay[r] = Answer(r, rows, seq, acked, asked)
        OBVIOUS
      <4>. QED
        BY <1>1, <1>2, <4>1, AnswerIsSound
    <3>2. \A e \in bytes : Logged(history', e)
      <4>1. Len(history') \in 1..Len(history') /\ history'[Len(history')] = bytes
        <5>1. Len(history') = Len(history) + 1 /\ Len(history) \in Nat
              /\ history'[Len(history')] = bytes
          BY <1>2, Facts DEF Logs
        <5>. QED
          BY <5>1
      <4>. QED
        BY <4>1 DEF Logged
    <3>3. Serves(r, relay[r])
      BY <1>4, <1>6
    <3>. QED
      BY <1>3, <1>5, <2>1, <3>1, <3>2, <3>3, AnsweredStep DEF bytes
  <2>2. CASE o # r /\ o \in Joined
    <3>1. Serves(o, relay[o]) /\ conn[o] # "down" /\ c2s'[o] = c2s[o]
      BY <1>4, <1>5, <2>2 DEF Joined
    <3>2. /\ Sends(history', Len(deps), live[o], written[o], hubCursor[o], relay[o])
          /\ NoAnswer(relay[o].frames)
      BY <1>2, <2>2, RelayIsSound
    <3>3. hubCursor[o] \in 0..hubCursor[o]
      BY Facts
    <3>. QED
      BY <1>3, <1>5, <3>1, <3>2, <3>3, ServedStep
  <2>3. CASE o \notin Joined
    <3>1. Spares(o) /\ c2s'[o] = c2s[o]
      BY <1>4, <1>5, <1>6, <2>3
    <3>. QED
      BY <1>3, <1>5, <3>1, SparedStep
  <2>. QED
    BY <2>1, <2>2, <2>3
<1>8. \A o \in Replicas : Up(history', Len(deps), written[o], late'[o].frames)
  BY <1>3, LateStays
<1>. QED
  BY <1>3, <1>5, <1>7, <1>8, HubStep

LEMMA HubPushStep ==
    ASSUME IInv, NEW r \in Replicas, HubPush(r)
    PROVE  IInv'
<1>. DEFINE bytes == Head(c2s[r]).bytes
            seq == head(log, snaps) + 1
            rows == append(log, snaps, bytes)
<1>1. /\ Waiting(r, "push") /\ Log(bytes)
      /\ UNCHANGED <<deps, replica, client, conn, late, outside>>
  BY DEF HubPush
<1>2. PICK asked \in BOOLEAN :
        Relayed([o \in Joined |->
                   IF o = r THEN Answer(r, rows, seq, TRUE, asked)
                            ELSE Delivery(rows, hubCursor[o], seq)])
  BY DEF HubPush
<1>. DEFINE relay == [o \in Joined |->
                        IF o = r THEN Answer(r, rows, seq, TRUE, asked)
                                 ELSE Delivery(rows, hubCursor[o], seq)]
<1>3. r \in Joined
  BY <1>1, WaitingTakes DEF Joined
<1>. HIDE DEF seq, rows
<1>4. /\ DOMAIN relay = Joined /\ relay[r] = Answer(r, rows, seq, TRUE, asked)
      /\ \A o \in Joined : o # r => relay[o] = Delivery(rows, hubCursor[o], seq)
  BY <1>3
<1>5. Relayed(relay)
  BY <1>2
<1>6. UNCHANGED <<deps, replica, client, conn, late, refuses>>
      /\ failures' \in 0..MaxFailures
  BY <1>1 DEF outside, IInv, Shape
<1>7. rows = append(log, snaps, bytes) /\ seq = head(log, snaps) + 1
  BY DEF rows, seq
<1>8. \E acked, asked2 \in BOOLEAN :
        relay[r] = Answer(r, rows, seq, acked, asked2)
  BY <1>4, Zenon
<1>. HIDE DEF relay, bytes
<1>9. rows = append(log, snaps, Head(c2s[r]).bytes) /\ Log(Head(c2s[r]).bytes)
  BY <1>1, <1>7 DEF bytes
<1>. QED
  BY <1>1, <1>4, <1>5, <1>6, <1>7, <1>8, <1>9, PushStep

LEMMA HubPushBrokenStep ==
    ASSUME IInv, NEW r \in Replicas, HubPushBroken(r)
    PROVE  IInv'
<1>. DEFINE bytes == Head(c2s[r]).bytes
            seq == head(log, snaps) + 1
            rows == append(log, snaps, bytes)
            outcomes(o, asked) ==
                IF o = r THEN {Answer(r, rows, seq, acked, asked) : acked \in BOOLEAN}
                         ELSE BrokenDeliveries(rows, hubCursor[o], seq)
<1>1. /\ Waiting(r, "push") /\ Log(bytes) /\ Fail("storage")
      /\ UNCHANGED <<deps, replica, client, conn, late, refuses>>
  BY DEF HubPushBroken
<1>2. PICK asked \in BOOLEAN :
        \E x \in [Joined -> UNION {outcomes(o, asked) : o \in Joined}] :
            /\ \A o \in Joined : x[o] \in outcomes(o, asked)
            /\ Relayed(x)
  BY DEF HubPushBroken
<1>3. PICK relay \in [Joined -> UNION {outcomes(o, asked) : o \in Joined}] :
        /\ \A o \in Joined : relay[o] \in outcomes(o, asked)
        /\ Relayed(relay)
  BY <1>2
<1>4. r \in Joined
  BY <1>1, WaitingTakes DEF Joined
<1>. HIDE DEF seq, rows
<1>5. PICK acked \in BOOLEAN : relay[r] = Answer(r, rows, seq, acked, asked)
  BY <1>3, <1>4
<1>6. DOMAIN relay = Joined
      /\ \A o \in Joined : o # r => relay[o] \in BrokenDeliveries(rows, hubCursor[o], seq)
  BY <1>3
<1>7. failures' \in 0..MaxFailures
  BY <1>1, FailCounts
<1>8. rows = append(log, snaps, bytes) /\ seq = head(log, snaps) + 1
  BY DEF rows, seq
<1>9. \E acked2, asked2 \in BOOLEAN :
        relay[r] = Answer(r, rows, seq, acked2, asked2)
  BY <1>2, <1>5, Zenon
<1>. HIDE DEF bytes, outcomes
<1>10. rows = append(log, snaps, Head(c2s[r]).bytes) /\ Log(Head(c2s[r]).bytes)
  BY <1>1, <1>8 DEF bytes
<1>. QED
  BY <1>1, <1>3, <1>6, <1>7, <1>8, <1>9, <1>10, PushStep

LEMMA SendsGrows ==
    ASSUME NEW h, NEW H, Grows(h, H), NEW n \in Nat, NEW lv, NEW wr, NEW from, NEW x,
           Sends(h, n, lv, wr, from, x), from \in Nat
    PROVE  Sends(H, n, lv, wr, from, x)
<1>1. \A k \in 1..Len(x.frames) : Honest(H, n, wr, x.frames[k])
  <2>1. n <= n /\ wr \subseteq wr
    OBVIOUS
  <2>. QED
    BY <2>1, HonestGrows DEF Sends
<1>2. x.cursor \in from..Len(H) /\ \A i \in (from + 1)..x.cursor : H[i] = h[i]
  BY DEF Sends, Grows
<1>. QED
  BY <1>1, <1>2 DEF Sends

\* Storage fails, the submission is refused and nobody else is sent anything.
LEMMA RefusedStep ==
    ASSUME IInv, NEW r \in Replicas, Waiting(r, "push"),
           UNCHANGED <<deps, replica, client, conn, late, refuses>>,
           failures' \in 0..MaxFailures, StoredI', Grows(history, history'),
           NEW d, Sound(history, Len(deps), hubCursor[r], d), NEW x,
           x.frames = Append(d.frames, Refuse), x.cursor = d.cursor, x.before = d.cursor,
           Relayed([o \in {r} |-> x])
    PROVE  IInv'
<1>. DEFINE relay == [o \in {r} |-> x]
<1>1. DOMAIN relay = {r} /\ relay[r] = x /\ Relayed(relay)
  OBVIOUS
<1>. HIDE DEF relay
<1>2. /\ IsFn(s2c') /\ IsFn(hubCursor') /\ IsFn(attachment')
      /\ \A o \in Replicas : IF o = r THEN Serves(o, x) ELSE Spares(o)
  BY <1>1, RelayedServes
<1>3. HubFrame /\ \A o \in Replicas : o # r => c2s'[o] = c2s[o]
  BY <1>2, WaitingFrame
<1>4. /\ Sends(history', Len(deps), live[r], written[r], hubCursor[r], x)
      /\ OneAnswer(x.frames) /\ ~HasAck(x.frames)
  <2>1. history \in Seq(Update) /\ Len(deps) \in Nat /\ hubCursor[r] \in 0..Len(history)
        /\ hubCursor[r] \in Nat
    BY Facts
  <2>2. /\ Sends(history, Len(deps), live[r], written[r], hubCursor[r], x)
        /\ OneAnswer(x.frames) /\ ~HasAck(x.frames)
    BY <2>1, RefusalSends
  <2>. QED
    BY <2>1, <2>2, SendsGrows
<1>5. ASSUME NEW o \in Replicas
      PROVE  /\ FlightI(o)' /\ DownI(o)' /\ UpI(o)'
             /\ conn[o] = "down" => c2s'[o] = <<>> /\ s2c'[o] = <<>> /\ hubCursor'[o] = 0
                                    /\ attachment'[o] = 0
  <2>1. CASE o = r
    <3>1. Serves(r, x)
      BY <1>2
    <3>. QED
      BY <1>3, <1>4, <2>1, <3>1, AnsweredStep
  <2>2. CASE o # r
    BY <1>2, <1>3, <2>2, SparedStep
  <2>. QED
    BY <2>1, <2>2
<1>6. \A o \in Replicas : Up(history', Len(deps), written[o], late'[o].frames)
  BY LateStays
<1>. QED
  BY <1>3, <1>5, <1>6, HubStep

LEMMA HubRefusesStep ==
    ASSUME IInv, NEW r \in Replicas, HubRefuses(r)
    PROVE  IInv'
<1>. DEFINE bytes == Head(c2s[r]).bytes
            hc == hubCursor[r]
<1>1. /\ Waiting(r, "push") /\ Fail("storage")
      /\ UNCHANGED <<deps, replica, client, conn, late, refuses>>
  BY DEF HubRefuses
<1>2. failures' \in 0..MaxFailures
  BY <1>1, FailCounts
<1>3. /\ history \in Seq(Update) /\ Len(history) \in Nat /\ Len(deps) \in Nat
      /\ hc \in 0..Len(history) /\ StoredI
  BY Facts DEF IInv
<1>4. CASE /\ Relayed([o \in {r} |-> [frames |-> <<Refuse>>, cursor |-> hc, before |-> hc]])
           /\ UNCHANGED authority
  <2>. DEFINE d == [frames |-> <<>>, cursor |-> hc, before |-> hc]
              x == [frames |-> <<Refuse>>, cursor |-> hc, before |-> hc]
  <2>1. d.frames = <<>> /\ d.cursor = hc /\ d.before = hc
    OBVIOUS
  <2>2. x.frames = Append(d.frames, Refuse) /\ x.cursor = d.cursor /\ x.before = d.cursor
    OBVIOUS
  <2>3. StoredI' /\ Grows(history, history')
    BY <1>1, <1>3, <1>4, GrowsSelf DEF StoredI, authority
  <2>4. Relayed([o \in {r} |-> x])
    BY <1>4
  <2>. HIDE DEF d, x
  <2>5. Sound(history, Len(deps), hc, d)
    <3>1. <<>> \in Seq(DownFrame) /\ Len(<<>>) = 0
      OBVIOUS
    <3>2. hc \in hc..Len(history) /\ hc \in hc..hc /\ (hc + 1)..hc = {}
      BY <1>3
    <3>. HIDE DEF hc
    <3>. QED
      BY <2>1, <3>1, <3>2 DEF Sound
  <2>. QED
    BY <1>1, <1>2, <2>2, <2>3, <2>4, <2>5, RefusedStep
<1>5. CASE /\ Log(bytes)
           /\ \E d \in BrokenDeliveries(log, hc, head(log, snaps)) :
                Relayed([o \in {r} |-> [frames |-> Append(d.frames, Refuse),
                                        cursor |-> d.cursor, before |-> d.cursor]])
  <2>1. PICK d \in BrokenDeliveries(log, hc, head(log, snaps)) :
               Relayed([o \in {r} |-> [frames |-> Append(d.frames, Refuse),
                                       cursor |-> d.cursor, before |-> d.cursor]])
    BY <1>5
  <2>. DEFINE x == [frames |-> Append(d.frames, Refuse), cursor |-> d.cursor,
                    before |-> d.cursor]
  <2>2. x.frames = Append(d.frames, Refuse) /\ x.cursor = d.cursor /\ x.before = d.cursor
    OBVIOUS
  <2>3. Relayed([o \in {r} |-> x])
    BY <2>1
  <2>. HIDE DEF x
  <2>4. Logs(bytes, append(log, snaps, bytes))
    <3>1. bytes \in Update /\ bytes \subseteq 1..Len(deps)
      BY <1>1, PushBytes
    <3>. HIDE DEF bytes
    <3>. QED
      BY <1>5, <3>1, LogStep
  <2>5. StoredI' /\ Grows(history, history')
    BY <1>1, <2>4, HubLogs
  <2>6. Sound(history, Len(deps), hc, d)
    <3>1. head(log, snaps) = Len(history)
      BY <1>3, StoredNewest DEF StoredI
    <3>2. PICK p \in 1..Len(history) : /\ Newest(snaps, history, Len(deps), p)
                                       /\ log = Rows(history, p + 1, Len(history))
      BY <1>3, StoredNewest DEF StoredI
    <3>. QED
      BY <1>3, <2>1, <3>1, <3>2, BrokenIsSound
  <2>. QED
    BY <1>1, <1>2, <2>2, <2>3, <2>5, <2>6, RefusedStep
<1>. QED
  BY <1>4, <1>5 DEF HubRefuses

\* A snapshot is accepted or not; the history stays.
LEMMA OfferStored ==
    ASSUME StoredI, NEW f, NEW wr, Fair(history, Len(deps), wr, f), f.kind = "offer",
           NEW sent, TakeOffer(f, sent), UNCHANGED deps
    PROVE  StoredI' /\ Grows(history, history')
<1>1. /\ Stored(log, snaps, history, Len(deps)) /\ history \in Seq(Update)
      /\ Len(deps) \in 0..MaxEdits
  BY DEF StoredI, Stored
<1>2. /\ f.position \in 0..Len(history) /\ f.bytes \subseteq 1..Len(deps)
      /\ Covered(history, f.position, f.bytes)
  BY DEF Fair
<1>3. f.bytes \in Update
  BY <1>1, <1>2, MadeIsUpdate
<1>4. history' = history
  BY DEF TakeOffer
<1>5. Stored(log', snaps', history, Len(deps))
  <2>1. CASE Acceptable(f.position, sent)
    <3>1. /\ SnapshotUsable(log, snaps, f.position)
          /\ log' = foldedLog(log, f.position)
          /\ snaps' = foldedSnaps(snaps, f.position, f.bytes)
      BY <2>1 DEF TakeOffer, Acceptable
    <3>. QED
      BY <1>1, <1>2, <1>3, <3>1, StoredFolds
  <2>2. CASE ~Acceptable(f.position, sent)
    BY <1>1, <2>2 DEF TakeOffer
  <2>. QED
    BY <2>1, <2>2
<1>. QED
  BY <1>1, <1>4, <1>5, GrowsSelf DEF StoredI

LEMMA HubOfferStep ==
    ASSUME IInv, NEW r \in Replicas, HubOffer(r)
    PROVE  IInv'
<1>1. /\ Waiting(r, "offer") /\ TakeOffer(Head(c2s[r]), hubCursor[r])
      /\ UNCHANGED <<deps, replica, client, conn, s2c, hubCursor, attachment, late, outside>>
  BY DEF HubOffer
<1>2. /\ Sets(c2s, c2s', r, Tail(c2s[r])) /\ conn[r] # "down" /\ c2s[r] # <<>>
      /\ Head(c2s[r]).kind = "offer" /\ c2s[r] \in Seq(UpFrame)
      /\ Fair(history, Len(deps), written[r], Head(c2s[r]))
      /\ Up(history, Len(deps), written[r], Tail(c2s[r]))
  BY <1>1, WaitingTakes
<1>3. StoredI /\ FlightI(r) /\ DownI(r) /\ Shape
  BY DEF IInv
<1>4. StoredI' /\ Grows(history, history') /\ history' = history
  BY <1>1, <1>2, <1>3, OfferStored DEF TakeOffer
<1>5. HubFrame /\ \A o \in Replicas : o # r => c2s'[o] = c2s[o]
  <2>1. /\ IsFn(s2c') /\ IsFn(hubCursor') /\ IsFn(attachment')
        /\ failures' \in 0..MaxFailures /\ refuses' = refuses
    BY <1>1, <1>3 DEF Shape, outside
  <2>. QED
    BY <1>1, <2>1, WaitingFrame
<1>6. \A o \in Replicas : Spares(o)
  BY <1>1 DEF Spares
<1>7. ASSUME NEW o \in Replicas
      PROVE  /\ FlightI(o)' /\ DownI(o)' /\ UpI(o)'
             /\ conn[o] = "down" => c2s'[o] = <<>> /\ s2c'[o] = <<>> /\ hubCursor'[o] = 0
                                    /\ attachment'[o] = 0
  <2>1. CASE o = r
    <3>1. Flight(history, owed[r], outstanding[r], conn[r], Tail(c2s[r]), s2c[r])
      BY <1>2, <1>3, FlightTaken DEF FlightI
    <3>. QED
      BY <1>1, <1>2, <1>3, <1>4, <2>1, <3>1
         DEF FlightI, DownI, UpI, Sets, replica, client, outside
  <2>2. CASE o # r
    BY <1>4, <1>5, <1>6, <2>2, SparedStep
  <2>. QED
    BY <2>1, <2>2
<1>8. \A o \in Replicas : Up(history', Len(deps), written[o], late'[o].frames)
  BY <1>1, <1>4, LateStays
<1>. QED
  BY <1>4, <1>5, <1>7, <1>8, HubStep

LEMMA HubLateStep ==
    ASSUME IInv, NEW r \in Replicas, HubLate(r)
    PROVE  IInv'
<1>. DEFINE f == Head(late[r].frames)
            L == [frames : Seq(UpFrame), cursor : Nat]
            seq == head(log, snaps) + 1
            rows == append(log, snaps, f.bytes)
<1>1. /\ late[r].frames # <<>>
      /\ late' = [late EXCEPT ![r].frames = Tail(late[r].frames)]
      /\ UNCHANGED <<deps, replica, client, conn, c2s, outside>>
  BY DEF HubLate
<1>2. /\ \/ /\ f.kind = "offer" /\ TakeOffer(f, late[r].cursor)
            /\ UNCHANGED <<s2c, hubCursor, attachment>>
         \/ /\ f.kind = "push" /\ Log(f.bytes)
            /\ Relayed([o \in Joined |-> Delivery(rows, hubCursor[o], seq)])
  BY DEF HubLate
<1>3. /\ StoredI /\ Shape /\ late[r].frames \in Seq(UpFrame)
      /\ Up(history, Len(deps), written[r], late[r].frames)
      /\ Len(deps) \in 0..MaxEdits /\ Len(deps) \in Nat /\ written[r] \subseteq 1..Len(deps)
  BY Facts DEF IInv, LateI
<1>4. Up(history, Len(deps), written[r], Tail(late[r].frames))
      /\ Fair(history, Len(deps), written[r], f)
  BY <1>1, <1>3, UpTaken
<1>5. /\ late' \in [Replicas -> L] /\ late'[r].frames = Tail(late[r].frames)
      /\ \A o \in Replicas : o # r => late'[o] = late[o]
  <2>1. late \in [Replicas -> L] /\ late[r] \in L /\ Tail(late[r].frames) \in Seq(UpFrame)
    BY <1>1, <1>3, TailFacts DEF Shape
  <2>. QED
    BY <1>1, <2>1
<1>6. UNCHANGED <<deps, replica, client, conn, refuses, c2s>> /\ failures' \in 0..MaxFailures
  BY <1>1, <1>3 DEF Shape, outside
<1>. HIDE DEF f, seq, rows
<1>7. ASSUME Grows(history, history'), NEW o \in Replicas
      PROVE  Up(history', Len(deps), written[o], late'[o].frames)
  <2>1. CASE o = r
    <3>1. Len(deps) <= Len(deps) /\ written[r] \subseteq written[r]
      BY <1>3
    <3>2. Up(history', Len(deps), written[r], Tail(late[r].frames))
      BY <1>3, <1>4, <1>7, <3>1, UpGrows
    <3>. QED
      BY <1>5, <2>1, <3>2
  <2>2. CASE o # r
    BY <1>5, <1>7, <2>2, LateStays
  <2>. QED
    BY <2>1, <2>2
<1>8. CASE /\ f.kind = "offer" /\ TakeOffer(f, late[r].cursor)
           /\ UNCHANGED <<s2c, hubCursor, attachment>>
  <2>1. StoredI' /\ Grows(history, history')
    BY <1>3, <1>4, <1>6, <1>8, OfferStored
  <2>2. HubFrame
    BY <1>3, <1>5, <1>6, <1>8 DEF HubFrame, Shape
  <2>3. \A o \in Replicas : Spares(o) /\ c2s'[o] = c2s[o]
    BY <1>6, <1>8 DEF Spares
  <2>4. \A o \in Replicas :
          /\ FlightI(o)' /\ DownI(o)' /\ UpI(o)'
          /\ conn[o] = "down" => c2s'[o] = <<>> /\ s2c'[o] = <<>> /\ hubCursor'[o] = 0
                                 /\ attachment'[o] = 0
    BY <2>1, <2>2, <2>3, SparedStep
  <2>. QED
    BY <1>7, <2>1, <2>2, <2>4, HubStep
<1>9. CASE /\ f.kind = "push" /\ Log(f.bytes)
           /\ Relayed([o \in Joined |-> Delivery(rows, hubCursor[o], seq)])
  <2>1. f.bytes \in Update /\ f.bytes \subseteq 1..Len(deps)
    <3>1. f.bytes \subseteq 1..Len(deps)
      BY <1>3, <1>4, <1>9 DEF Fair
    <3>. QED
      BY <1>3, <3>1, MadeIsUpdate
  <2>2. Logs(f.bytes, rows) /\ seq = Len(history')
    <3>1. Logs(f.bytes, append(log, snaps, f.bytes))
      BY <1>9, <2>1, LogStep
    <3>. QED
      BY <3>1 DEF rows, seq, Logs
  <2>3. StoredI' /\ Grows(history, history')
    BY <1>6, <2>2, HubLogs
  <2>. DEFINE relay == [o \in Joined |-> Delivery(rows, hubCursor[o], seq)]
  <2>4. DOMAIN relay = Joined /\ Relayed(relay)
        /\ \A o \in Joined : relay[o] = Delivery(rows, hubCursor[o], seq)
    BY <1>9
  <2>. HIDE DEF relay
  <2>5. /\ IsFn(s2c') /\ IsFn(hubCursor') /\ IsFn(attachment')
        /\ \A o \in Replicas : IF o \in Joined THEN Serves(o, relay[o]) ELSE Spares(o)
    BY <2>4, RelayedServes
  <2>6. HubFrame
    BY <1>3, <1>5, <1>6, <2>5 DEF HubFrame, Shape
  <2>7. ASSUME NEW o \in Replicas
        PROVE  /\ FlightI(o)' /\ DownI(o)' /\ UpI(o)'
               /\ conn[o] = "down" => c2s'[o] = <<>> /\ s2c'[o] = <<>> /\ hubCursor'[o] = 0
                                      /\ attachment'[o] = 0
    <3>1. c2s'[o] = c2s[o]
      BY <1>6
    <3>2. CASE o \in Joined
      <4>1. Serves(o, relay[o]) /\ conn[o] # "down"
        BY <2>5, <3>2 DEF Joined
      <4>2. /\ Sends(history', Len(deps), live[o], written[o], hubCursor[o], relay[o])
            /\ NoAnswer(relay[o].frames)
        BY <2>2, <2>4, <3>2, RelayIsSound
      <4>3. hubCursor[o] \in 0..hubCursor[o]
        BY Facts
      <4>. QED
        BY <2>3, <2>6, <3>1, <4>1, <4>2, <4>3, ServedStep
    <3>3. CASE o \notin Joined
      BY <2>3, <2>5, <2>6, <3>1, <3>3, SparedStep
    <3>. QED
      BY <3>2, <3>3
  <2>. QED
    BY <1>7, <2>3, <2>6, <2>7, HubStep
<1>. QED
  BY <1>2, <1>8, <1>9

\* A hub that wakes sends every socket what it may have missed.
LEMMA WakeStep == ASSUME IInv, Wake PROVE IInv'
<1>. DEFINE again(o) == Delivery(log, attachment[o], head(log, snaps))
            x(o) == [again(o) EXCEPT !.frames = <<Admitted>> \o again(o).frames]
            relay == [o \in Joined |-> x(o)]
<1>1. /\ Relayed(relay) /\ Fail("wake")
      /\ UNCHANGED <<authority, deps, replica, client, conn, c2s, late, refuses>>
  BY DEF Wake
<1>2. /\ Shape /\ StoredI
      /\ Stored(log, snaps, history, Len(deps))
      /\ history \in Seq(Update)
  BY DEF IInv, StoredI, Stored
<1>3. failures' \in 0..MaxFailures
  BY <1>1, FailCounts
<1>4. history' = history /\ Grows(history, history') /\ StoredI'
  BY <1>1, <1>2, GrowsSelf DEF StoredI, authority
<1>5. DOMAIN relay = Joined /\ \A o \in Joined : relay[o] = x(o)
  OBVIOUS
<1>6. ASSUME NEW o \in Replicas
      PROVE  /\ Sends(history, Len(deps), live[o], written[o], attachment[o], x(o))
             /\ NoAnswer(x(o).frames) /\ x(o).frames # <<>>
  <2>1. /\ Len(history) \in Nat /\ Len(deps) \in Nat /\ attachment[o] \in 0..Len(history)
    BY Facts
  <2>2. head(log, snaps) = Len(history)
    BY <1>2, StoredNewest
  <2>3. PICK p \in 1..Len(history) : /\ Newest(snaps, history, Len(deps), p)
                                     /\ log = Rows(history, p + 1, Len(history))
    BY <1>2, StoredNewest
  <2>4. Sound(history, Len(deps), attachment[o], again(o))
    BY <1>2, <2>1, <2>2, <2>3, DeliveryIs
  <2>5. /\ x(o).frames = <<Admitted>> \o again(o).frames /\ x(o).cursor = again(o).cursor
        /\ x(o).before = again(o).before
    BY DEF Delivery
  <2>. HIDE DEF x, again
  <2>. QED
    BY <1>2, <2>1, <2>4, <2>5, SendsAdmitted
<1>. HIDE DEF relay, x, again
<1>7. /\ IsFn(s2c') /\ IsFn(hubCursor') /\ IsFn(attachment')
      /\ \A o \in Replicas : IF o \in Joined THEN Serves(o, relay[o]) ELSE Spares(o)
  BY <1>1, <1>5, RelayedServes
<1>8. HubFrame
  BY <1>1, <1>2, <1>3, <1>7 DEF HubFrame, Shape
<1>9. ASSUME NEW o \in Replicas
      PROVE  /\ FlightI(o)' /\ DownI(o)' /\ UpI(o)'
             /\ conn[o] = "down" => c2s'[o] = <<>> /\ s2c'[o] = <<>> /\ hubCursor'[o] = 0
                                    /\ attachment'[o] = 0
  <2>1. c2s'[o] = c2s[o]
    BY <1>1
  <2>2. CASE o \in Joined
    <3>1. Serves(o, x(o)) /\ conn[o] # "down"
      BY <1>5, <1>7, <2>2 DEF Joined
    <3>2. attachment[o] \in 0..hubCursor[o]
      BY Facts
    <3>. QED
      BY <1>4, <1>6, <1>8, <2>1, <3>1, <3>2, ServedStep
  <2>3. CASE o \notin Joined
    BY <1>4, <1>7, <1>8, <2>1, <2>3, SparedStep
  <2>. QED
    BY <2>2, <2>3
<1>10. \A o \in Replicas : Up(history', Len(deps), written[o], late'[o].frames)
  BY <1>1, <1>4, LateStays
<1>. QED
  BY <1>4, <1>8, <1>9, <1>10, HubStep
-----------------------------------------------------------------------------
(* The invariant *)

LEMMA NextKeepsIInv == ASSUME IInv, [Next]_vars PROVE IInv'
<1>1. CASE UNCHANGED vars
  BY <1>1 DEF vars, authority, replica, client, socket, outside, IInv, Shape, IsFn, StoredI,
              StoreI, SessionI, FlightI, DownI, UpI, LateI, ClosedI
<1>2. CASE Wake
  BY <1>2, WakeStep
<1>3. ASSUME NEW r \in Replicas,
             \/ Install(r) \/ Edit(r) \/ Commit(r) \/ IdleFires(r) \/ Flush(r) \/ Dial(r)
             \/ Receive(r) \/ Hub(r) \/ HubPushBroken(r) \/ HubRefuses(r) \/ HubLate(r)
             \/ Drop(r) \/ Crash(r)
      PROVE  IInv'
  <2>1. CASE Install(r) \/ Edit(r) \/ Commit(r)
    BY <2>1, InstallStep, EditStep, CommitStep
  <2>2. CASE IdleFires(r) \/ Flush(r) \/ Dial(r)
    BY <2>2, IdleFiresStep, FlushStep, DialStep
  <2>3. CASE Receive(r)
    BY <2>3, ReceiveAdmittedStep, ReceiveEntryStep, ReceiveSnapshotStep, ReceiveAckStep,
       ReceiveRefuseStep, ReceiveWantedStep DEF Receive
  <2>4. CASE Hub(r)
    BY <2>4, HubPushStep, HubOfferStep DEF Hub
  <2>5. CASE HubPushBroken(r) \/ HubRefuses(r) \/ HubLate(r)
    BY <2>5, HubPushBrokenStep, HubRefusesStep, HubLateStep
  <2>6. CASE Drop(r) \/ Crash(r)
    BY <2>6, DropStep, CrashStep
  <2>. QED
    BY <1>3, <2>1, <2>2, <2>3, <2>4, <2>5, <2>6
<1>. QED
  BY <1>1, <1>2, <1>3 DEF Next

\* The invariant holds of every behaviour: documents, queues, cursors and the
\* frames in flight stay in step with the log.
THEOREM SpecKeepsIInv == Spec => []IInv
<1>1. Init => IInv
  BY InitIInv
<1>2. IInv /\ [Next]_vars => IInv'
  BY NextKeepsIInv
<1>. QED
  BY <1>1, <1>2, PTL DEF Spec

-----------------------------------------------------------------------------
(* What the invariant says *)

LEMMA IInvTypes == IInv => TypeOK
<1>. SUFFICES ASSUME IInv PROVE TypeOK
  OBVIOUS
<1>1. Stored(log, snaps, history, Len(deps)) /\ Shape
  BY DEF IInv, StoredI
<1>2. /\ history \in Seq(Update) /\ Len(history) \in Nat /\ Len(deps) \in 0..MaxEdits
      /\ snaps \subseteq SnapshotRow
  BY <1>1 DEF Stored
<1>3. log \subseteq LogRow
  <2>1. PICK p \in 1..Len(history) : TailAfter(log, snaps, history, p)
    BY <1>1 DEF Stored
  <2>2. ASSUME NEW i \in (p + 1)..Len(history)
        PROVE  [seq |-> i, bytes |-> history[i]] \in LogRow
    <3>1. i \in 1..Len(history) /\ i \in Nat \ {0}
      BY <1>2
    <3>2. history[i] \in Update
      BY <1>2, <3>1
    <3>. QED
      BY <3>1, <3>2 DEF LogRow
  <2>. QED
    BY <2>1, <2>2 DEF TailAfter
<1>4. Len(deps) <= MaxEdits /\ Len(deps) \in Nat /\ MaxEdits \in Nat
  BY <1>2, StoreSyncAssumption
<1>5. ASSUME NEW r \in Replicas
      PROVE  /\ live[r] \in Update /\ saved[r] \in Update /\ owed[r] \in Update
             /\ written[r] \in Update
             /\ durableCursor[r] \in 0..Len(history) /\ cursor[r] \in 0..Len(history)
             /\ acknowledgedThroughId[r] \in 0..MaxEdits /\ outstanding[r] \in 0..MaxEdits
             /\ conn[r] \in {"down", "dialled", "attached"}
             /\ hubCursor[r] \in 0..Len(history) /\ attachment[r] \in 0..Len(history)
  <2>1. /\ owed[r] \subseteq written[r] /\ written[r] \subseteq saved[r]
        /\ saved[r] \subseteq live[r] /\ live[r] \subseteq 1..Len(deps)
        /\ cursor[r] \in 0..Len(history) /\ hubCursor[r] \in 0..Len(history)
        /\ attachment[r] \in 0..hubCursor[r] /\ outstanding[r] \in written[r] \union {0}
        /\ Settles(history, owed[r], written[r], acknowledgedThroughId[r])
    BY Facts
  <2>2. live[r] \in Update /\ saved[r] \in Update /\ owed[r] \in Update /\ written[r] \in Update
    <3>1. saved[r] \subseteq 1..Len(deps) /\ written[r] \subseteq 1..Len(deps)
          /\ owed[r] \subseteq 1..Len(deps)
      BY <2>1
    <3>. QED
      BY <1>2, <2>1, <3>1, MadeIsUpdate
  <2>3. durableCursor[r] \in 0..cursor[r]
    BY DEF IInv, StoreI, Store
  <2>4. \A t \in written[r] \union {0} : t \in 0..MaxEdits
    <3>1. \A t \in 1..Len(deps) : t \in 0..MaxEdits
      BY <1>4
    <3>2. 0 \in 0..MaxEdits /\ written[r] \subseteq 1..Len(deps)
      BY <1>4, <2>1
    <3>. QED
      BY <3>1, <3>2
  <2>5. acknowledgedThroughId[r] \in written[r] \union {0}
    BY <2>1 DEF Settles
  <2>6. conn[r] \in {"down", "dialled", "attached"}
    BY DEF IInv, ClosedI, Closed
  <2>7. durableCursor[r] \in 0..Len(history) /\ attachment[r] \in 0..Len(history)
    BY <1>2, <2>1, <2>3
  <2>. QED
    BY <2>1, <2>2, <2>4, <2>5, <2>6, <2>7
<1>6. /\ live \in [Replicas -> Update] /\ saved \in [Replicas -> Update]
      /\ owed \in [Replicas -> Update] /\ written \in [Replicas -> Update]
      /\ durableCursor \in [Replicas -> 0..Len(history)]
      /\ cursor \in [Replicas -> 0..Len(history)]
      /\ acknowledgedThroughId \in [Replicas -> 0..MaxEdits]
      /\ outstanding \in [Replicas -> 0..MaxEdits]
      /\ conn \in [Replicas -> {"down", "dialled", "attached"}]
      /\ hubCursor \in [Replicas -> 0..Len(history)]
      /\ attachment \in [Replicas -> 0..Len(history)]
  BY <1>1, <1>5 DEF Shape, IsFn
<1>. QED
  BY <1>1, <1>2, <1>3, <1>4, <1>6 DEF TypeOK, Shape

\* Every cursor of every replica is honest: the one in memory, the durable one
\* and the hub's record of what it sent.
LEMMA IInvHonest == IInv => CursorsHonest
<1>. SUFFICES ASSUME IInv PROVE CursorsHonest
  OBVIOUS
<1>1. CursorCovers
  BY Facts DEF CursorCovers, Covered
<1>2. DurableCursorCovers
  BY DEF IInv, StoreI, Store, DurableCursorCovers, Covered
<1>3. HubCursorCovers
  <2>. SUFFICES ASSUME NEW r \in Replicas, refuses[r] = {}, NEW i \in 1..hubCursor[r]
                PROVE  history[i] \subseteq live[r] \union OnTheWire(r)
    BY DEF HubCursorCovers, Joined
  <2>. DEFINE sc == s2c[r]
              W == {j \in 1..Len(sc) : sc[j].kind \in {"entry", "snapshot"}}
  <2>1. /\ \A k \in 1..Len(sc) : Honest(history, Len(deps), written[r], sc[k])
        /\ history[i] \subseteq live[r] \/ Carried(sc, i)
        /\ hubCursor[r] \in 0..Len(history) /\ Len(history) \in Nat
    BY Facts DEF IInv, DownI, Down
  <2>2. OnTheWire(r) = UNION {sc[k].bytes : k \in W}
    BY DEF OnTheWire
  <2>. HIDE DEF sc
  <2>3. ASSUME Carried(sc, i) PROVE history[i] \subseteq OnTheWire(r)
    <3>1. PICK k \in 1..Len(sc) : \/ sc[k].kind = "entry" /\ sc[k].seq = i
                                  \/ sc[k].kind = "snapshot" /\ sc[k].position >= i
      BY <2>3 DEF Carried
    <3>2. Honest(history, Len(deps), written[r], sc[k]) /\ k \in W
      BY <2>1, <3>1
    <3>3. history[i] \subseteq sc[k].bytes
      <4>1. CASE sc[k].kind = "entry" /\ sc[k].seq = i
        BY <3>2, <4>1 DEF Honest
      <4>2. CASE sc[k].kind = "snapshot" /\ sc[k].position >= i
        <5>1. sc[k].position \in 1..Len(history)
              /\ Covered(history, sc[k].position, sc[k].bytes)
          BY <3>2, <4>2 DEF Honest
        <5>2. i \in 1..sc[k].position
          BY <2>1, <4>2, <5>1
        <5>. QED
          BY <5>1, <5>2 DEF Covered
      <4>. QED
        BY <3>1, <4>1, <4>2
    <3>. HIDE DEF W
    <3>. QED
      BY <2>2, <3>2, <3>3
  <2>. QED
    BY <2>1, <2>3
<1>. QED
  BY <1>1, <1>2, <1>3 DEF CursorsHonest

LEMMA IInvCovers == IInv => SnapshotCovers
  BY DEF IInv, StoredI, Stored, SnapshotCovers, Covered

LEMMA IInvLoses == IInv => NoWriteLost
<1>. SUFFICES ASSUME IInv, NEW r \in Replicas, NEW e \in written[r], e \notin owed[r]
              PROVE  e \in Held
  BY DEF NoWriteLost
<1>1. Logged(history, e)
  BY DEF IInv, SessionI, Session
<1>. QED
  BY <1>1, LoggedIsHeld DEF IInv, StoredI

\* The state stays well formed in every behaviour: no cursor passes the end of
\* the log, no document holds an edit that was never made.
THEOREM SpecTypeOK == Spec => []TypeOK
  BY SpecKeepsIInv, IInvTypes, PTL

\* A cursor is a promise, in memory, on disk and in the hub's record of each
\* socket, whatever is dropped, repeated, refused or forgotten by a crash.
THEOREM SpecCursorsHonest == Spec => []CursorsHonest
  BY SpecKeepsIInv, IInvHonest, PTL

\* No snapshot that a replica offers and the authority accepts loses anything
\* the log recorded through its position.
THEOREM SpecSnapshotCovers == Spec => []SnapshotCovers
  BY SpecKeepsIInv, IInvCovers, PTL

\* A durable edit is owed until the authority holds it, across refusals, lost
\* acknowledgements, retries, crashes and folds.
THEOREM SpecNoWriteLost == Spec => []NoWriteLost
  BY SpecKeepsIInv, IInvLoses, PTL

-----------------------------------------------------------------------------
(* The replicated log *)

LEMMA AuthoredAre == ASSUME IInv PROVE Authored = 1..Len(deps) /\ Len(deps) \in Nat
  BY DEF IInv, Shape, Authored

\* The position of a replica moves forward.
LEMMA Advances ==
    ASSUME IInv, IInv', NEW r \in Replicas, UNCHANGED <<history, deps>>,
           NEW LV, live' = [live EXCEPT ![r] = LV],
           NEW CU, cursor' = [cursor EXCEPT ![r] = CU],
           CU > cursor[r], live[r] \subseteq LV
    PROVE  Abstract!Advance(r)
<1>1. Shape /\ history \in Seq(Update) /\ cursor[r] \in Nat
  BY Facts DEF IInv
<1>2. cursor'[r] = CU /\ live'[r] = LV
  BY <1>1 DEF Shape, IsFn
<1>3. CU \in 0..Len(history) /\ LV \subseteq 1..Len(deps) /\ Covered(history, CU, LV)
  <2>1. StoreI(r)'
    BY DEF IInv
  <2>. QED
    BY <1>2, <2>1 DEF StoreI, Store
<1>4. CU \in (cursor[r] + 1)..Len(history)
  BY <1>1, <1>3
<1>5. LV \in SUBSET Authored
  BY <1>3, AuthoredAre
<1>6. live[r] \union Abstract!Through(CU) \subseteq LV
  BY <1>3 DEF Abstract!Through, Covered
<1>7. Authored' = Authored
  BY DEF Authored
<1>. QED
  BY <1>4, <1>5, <1>6, <1>7 DEF Abstract!Advance

\* The log grows by work of some replica.
LEMMA Records ==
    ASSUME IInv, NEW r \in Replicas, NEW bytes, bytes \subseteq written[r], Log(bytes),
           UNCHANGED <<deps, replica, client>>
    PROVE  Abstract!Record
<1>1. bytes \in SUBSET live[r]
  BY Facts
<1>2. history' = Append(history, bytes) /\ Authored' = Authored /\ live' = live
      /\ cursor' = cursor
  BY DEF Log, Authored, replica, client
<1>. QED
  BY <1>1, <1>2 DEF Abstract!Record

\* A step below the replicated log.
LEMMA Stutters ==
    ASSUME UNCHANGED <<history, deps, live, cursor>>
    PROVE  UNCHANGED Abstract!vars
  BY DEF Abstract!vars, Authored

LEMMA ReceivesAbstractly ==
    ASSUME IInv, IInv', NEW r \in Replicas, Receive(r)
    PROVE  Abstract!Advance(r) \/ UNCHANGED Abstract!vars
<1>1. IsFn(live) /\ cursor[r] \in Nat /\ outstanding[r] \in Nat
  BY Facts DEF IInv, Shape
<1>2. ASSUME NEW bytes, NEW position, ApplyRemote(r, bytes, position),
             position > cursor[r], UNCHANGED <<authority, deps>>
      PROVE  Abstract!Advance(r) \/ UNCHANGED Abstract!vars
  <2>1. CASE UNCHANGED <<live, cursor>>
    BY <1>2, <2>1, Stutters DEF authority
  <2>2. CASE /\ live' = [live EXCEPT ![r] = live[r] \union bytes]
             /\ cursor' = [cursor EXCEPT ![r] = position]
    <3>1. live[r] \subseteq live[r] \union bytes /\ UNCHANGED <<history, deps>>
      BY <1>2 DEF authority
    <3>. QED
      BY <1>2, <2>2, <3>1, Advances
  <2>. QED
    BY <1>2, <2>1, <2>2 DEF ApplyRemote
<1>3. ASSUME Gap(r), UNCHANGED <<authority, deps>>
      PROVE  UNCHANGED Abstract!vars
  BY <1>3, Stutters DEF Gap, replica, authority
<1>4. CASE ReceiveAdmitted(r)
  BY <1>4, Stutters DEF ReceiveAdmitted, replica, authority
<1>5. CASE ReceiveEntry(r)
  <2>. DEFINE f == Head(s2c[r])
  <2>1. UNCHANGED <<authority, deps>>
        /\ \/ UNCHANGED <<live, cursor>>
           \/ f.seq > cursor[r] /\ ApplyRemote(r, f.bytes, f.seq)
           \/ Gap(r)
    BY <1>5 DEF ReceiveEntry, replica, client
  <2>. HIDE DEF f
  <2>2. CASE UNCHANGED <<live, cursor>>
    BY <2>1, <2>2, Stutters DEF authority
  <2>. QED
    BY <1>2, <1>3, <2>1, <2>2
<1>6. CASE ReceiveSnapshot(r)
  <2>. DEFINE f == Head(s2c[r])
  <2>1. UNCHANGED <<authority, deps>>
        /\ \/ UNCHANGED <<live, cursor>>
           \/ f.position > cursor[r] /\ ApplyRemote(r, f.bytes, f.position)
    BY <1>6 DEF ReceiveSnapshot
  <2>. HIDE DEF f
  <2>2. CASE UNCHANGED <<live, cursor>>
    BY <2>1, <2>2, Stutters DEF authority
  <2>. QED
    BY <1>2, <2>1, <2>2
<1>7. CASE ReceiveAck(r)
  <2>. DEFINE seq == Head(s2c[r]).seq
  <2>1. UNCHANGED <<authority, deps>>
        /\ \/ /\ seq = cursor[r] + 1 /\ live' = live
              /\ cursor' = [cursor EXCEPT ![r] = seq]
           \/ Gap(r)
    BY <1>7 DEF ReceiveAck, Contiguous
  <2>2. CASE /\ seq = cursor[r] + 1 /\ live' = live
             /\ cursor' = [cursor EXCEPT ![r] = seq]
    <3>1. live' = [live EXCEPT ![r] = live[r]]
      BY <1>1, <2>2 DEF IsFn
    <3>2. seq > cursor[r] /\ live[r] \subseteq live[r] /\ UNCHANGED <<history, deps>>
      BY <1>1, <2>1, <2>2 DEF authority
    <3>. HIDE DEF seq
    <3>. QED
      BY <2>2, <3>1, <3>2, Advances
  <2>. QED
    BY <1>3, <2>1, <2>2
<1>8. CASE ReceiveRefuse(r) \/ ReceiveWanted(r)
  BY <1>8, Stutters DEF ReceiveRefuse, ReceiveWanted, replica, client, authority
<1>. QED
  BY <1>4, <1>5, <1>6, <1>7, <1>8 DEF Receive

LEMMA StoreStepsAbstractly ==
    ASSUME IInv, IInv', NEW r \in Replicas, Install(r) \/ Edit(r) \/ Commit(r) \/ Crash(r)
    PROVE  \/ Abstract!Advance(r) \/ Abstract!Author(r) \/ Abstract!Restart(r)
           \/ UNCHANGED Abstract!vars
<1>1. Shape /\ StoreI(r) /\ live[r] \subseteq 1..Len(deps) /\ cursor[r] \in 0..Len(history)
      /\ Len(history) \in Nat /\ Len(deps) \in 0..MaxEdits
  BY Facts DEF IInv
<1>2. CASE Install(r)
  <2>1. /\ cursor[r] = 0 /\ UNCHANGED <<history, deps>>
        /\ live' = [live EXCEPT ![r] = Download]
        /\ cursor' = [cursor EXCEPT ![r] = head(log, snaps)]
    BY <1>1, <1>2 DEF Install, Installed, authority
  <2>2. live[r] = {}
    BY <1>1, <2>1 DEF StoreI, Store
  <2>3. head(log, snaps) > 0
    <3>1. PICK p \in 1..Len(history) : TRUE
      BY StoredNewest DEF IInv, StoredI
    <3>2. head(log, snaps) = Len(history)
      BY StoredNewest DEF IInv, StoredI
    <3>. QED
      BY <1>1, <3>1, <3>2
  <2>4. head(log, snaps) > cursor[r] /\ live[r] \subseteq Download
    BY <2>1, <2>2, <2>3
  <2>. QED
    BY <2>1, <2>4, Advances
<1>3. CASE Edit(r)
  <2>. DEFINE e == Len(deps) + 1
  <2>1. /\ e <= MaxEdits /\ deps' = Append(deps, live[r])
        /\ live' = [live EXCEPT ![r] = live[r] \union {e}]
        /\ history' = history /\ cursor' = cursor
    BY <1>3 DEF Edit, authority, client
  <2>2. deps \in Seq(Update) /\ live[r] \in Update
    BY <1>1, MadeIsUpdate DEF Shape
  <2>3. DOMAIN deps = 1..Len(deps) /\ DOMAIN Append(deps, live[r]) = 1..(Len(deps) + 1)
        /\ Len(deps) \in Nat
    BY <2>2
  <2>4. e \in Edits /\ e \notin Authored /\ Authored' = Authored \union {e}
    <3>1. e \in 1..MaxEdits
      BY <2>1, <2>3, StoreSyncAssumption
    <3>2. 1..(Len(deps) + 1) = (1..Len(deps)) \union {Len(deps) + 1}
      BY <2>3
    <3>3. Len(deps) + 1 \notin 1..Len(deps)
      BY <2>3
    <3>. QED
      BY <2>1, <2>3, <3>1, <3>2, <3>3, StoreSyncAssumption DEF Authored
  <2>. HIDE DEF e
  <2>. QED
    BY <2>1, <2>4 DEF Abstract!Author
<1>4. CASE Commit(r)
  BY <1>4, Stutters DEF Commit, authority
<1>5. CASE Crash(r)
  <2>1. /\ live' = [live EXCEPT ![r] = saved[r]]
        /\ cursor' = [cursor EXCEPT ![r] = durableCursor[r]]
        /\ UNCHANGED <<history, deps>>
    BY <1>5 DEF Crash, RestartCursor, authority
  <2>2. /\ durableCursor[r] \in 0..cursor[r] /\ saved[r] \in SUBSET live[r]
        /\ Covered(history, durableCursor[r], saved[r])
    BY <1>1 DEF StoreI, Store
  <2>3. Abstract!Through(durableCursor[r]) \subseteq saved[r]
    BY <2>2 DEF Abstract!Through, Covered
  <2>4. Authored' = Authored
    BY <2>1 DEF Authored
  <2>. QED
    BY <2>1, <2>2, <2>3, <2>4 DEF Abstract!Restart
<1>. QED
  BY <1>2, <1>3, <1>4, <1>5

LEMMA HubStepsAbstractly ==
    ASSUME IInv, NEW r \in Replicas,
           Hub(r) \/ HubPushBroken(r) \/ HubRefuses(r) \/ HubLate(r)
    PROVE  Abstract!Record \/ UNCHANGED Abstract!vars
<1>. DEFINE bytes == Head(c2s[r]).bytes
            f == Head(late[r].frames)
<1>1. CASE Waiting(r, "push") /\ Log(bytes) /\ UNCHANGED <<deps, replica, client>>
  <2>1. bytes \subseteq written[r]
    BY <1>1, PushBytes
  <2>. QED
    BY <1>1, <2>1, Records
<1>2. CASE HubPush(r) \/ HubPushBroken(r)
  BY <1>1, <1>2 DEF HubPush, HubPushBroken
<1>3. CASE HubRefuses(r)
  <2>1. CASE Log(bytes)
    BY <1>1, <1>3, <2>1 DEF HubRefuses
  <2>2. CASE UNCHANGED authority
    BY <1>3, <2>2, Stutters DEF HubRefuses, authority, replica, client
  <2>. QED
    BY <1>3, <2>1, <2>2 DEF HubRefuses
<1>4. CASE HubOffer(r)
  BY <1>4, Stutters DEF HubOffer, TakeOffer, replica, client
<1>5. CASE HubLate(r)
  <2>1. UNCHANGED <<deps, replica, client>> /\ late[r].frames # <<>>
    BY <1>5 DEF HubLate
  <2>2. CASE TakeOffer(f, late[r].cursor)
    BY <2>1, <2>2, Stutters DEF TakeOffer, replica, client
  <2>3. CASE f.kind = "push" /\ Log(f.bytes)
    <3>1. Fair(history, Len(deps), written[r], f)
      BY <2>1, UpTaken DEF IInv, LateI
    <3>2. f.bytes \subseteq written[r]
      BY <2>3, <3>1 DEF Fair
    <3>. QED
      BY <2>1, <2>3, <3>2, Records
  <2>. QED
    BY <1>5, <2>2, <2>3 DEF HubLate
<1>. QED
  BY <1>2, <1>3, <1>4, <1>5 DEF Hub

LEMMA NextAbstractly == ASSUME IInv, IInv', [Next]_vars PROVE [Abstract!Next]_(Abstract!vars)
<1>1. CASE UNCHANGED vars
  BY <1>1, Stutters DEF vars, authority, replica, client
<1>2. CASE Wake
  BY <1>2, Stutters DEF Wake, authority, replica, client
<1>3. ASSUME NEW r \in Replicas,
             \/ Install(r) \/ Edit(r) \/ Commit(r) \/ IdleFires(r) \/ Flush(r) \/ Dial(r)
             \/ Receive(r) \/ Hub(r) \/ HubPushBroken(r) \/ HubRefuses(r) \/ HubLate(r)
             \/ Drop(r) \/ Crash(r)
      PROVE  [Abstract!Next]_(Abstract!vars)
  <2>1. CASE Install(r) \/ Edit(r) \/ Commit(r) \/ Crash(r)
    BY <2>1, StoreStepsAbstractly DEF Abstract!Next
  <2>2. CASE IdleFires(r) \/ Flush(r) \/ Dial(r) \/ Drop(r)
    BY <2>2, Stutters DEF IdleFires, Flush, Dial, Drop, authority, replica, client
  <2>3. CASE Receive(r)
    BY <2>3, ReceivesAbstractly DEF Abstract!Next
  <2>4. CASE Hub(r) \/ HubPushBroken(r) \/ HubRefuses(r) \/ HubLate(r)
    BY <2>4, HubStepsAbstractly DEF Abstract!Next
  <2>. QED
    BY <1>3, <2>1, <2>2, <2>3, <2>4
<1>. QED
  BY <1>1, <1>2, <1>3 DEF Next

\* The clients, the hub and the authority implement the replicated log: every
\* step of theirs is a step of it, or none.
THEOREM SpecImplementsReplicatedLog == Spec => ImplementsReplicatedLog
<1>1. Init => Abstract!Init
  <2>. SUFFICES ASSUME Init PROVE Abstract!Init
    OBVIOUS
  <2>1. Authored = {}
    BY DEF Init, Authored
  <2>. QED
    BY <2>1 DEF Init, Abstract!Init
<1>2. IInv /\ IInv' /\ [Next]_vars => [Abstract!Next]_(Abstract!vars)
  BY NextAbstractly
<1>. QED
  BY <1>1, <1>2, SpecKeepsIInv, PTL DEF Spec, ImplementsReplicatedLog, Abstract!Spec

-----------------------------------------------------------------------------
(* Frames in order *)

\* Neither the hub's storage nor a replica's document fails.
Orderly == Failures \subseteq {"crash", "drop", "wake"}

\* The hub has sent a socket that is up everything logged, and what is on the
\* wire leads the replica from its cursor to the end of the log, step by step.
Ordered(cu, cn, sc, hc, N) == cn # "down" => hc = N /\ Leads(cu, sc, N)

OrderedI(r) ==
    /\ lastError[r] # "Gap" /\ refuses[r] = {}
    /\ Ordered(cursor[r], conn[r], s2c[r], hubCursor[r], Len(history))

OrderI == \A r \in Replicas : OrderedI(r)

SameOrder(o) ==
    /\ cursor'[o] = cursor[o] /\ conn'[o] = conn[o] /\ s2c'[o] = s2c[o]
    /\ hubCursor'[o] = hubCursor[o] /\ lastError'[o] = lastError[o] /\ refuses'[o] = refuses[o]

LEMMA InitOrderI == Init => OrderI
  BY DEF Init, OrderI, OrderedI, Ordered

LEMMA OrderKept ==
    ASSUME OrderI, history' = history, \A o \in Replicas : SameOrder(o)
    PROVE  OrderI'
  BY DEF OrderI, OrderedI, SameOrder

\* Only one replica moves.
LEMMA OrderLocal ==
    ASSUME OrderI, NEW r \in Replicas, history' = history,
           \A o \in Replicas : o # r => SameOrder(o), OrderedI(r)'
    PROVE  OrderI'
<1>1. ASSUME NEW o \in Replicas, o # r PROVE OrderedI(o)'
  BY <1>1 DEF OrderI, OrderedI, SameOrder
<1>. QED  BY <1>1 DEF OrderI

\* Steps that neither send nor take a frame.
LEMMA QuietOrder ==
    ASSUME IInv, OrderI, NEW r \in Replicas,
           Edit(r) \/ Commit(r) \/ IdleFires(r) \/ Flush(r) \/ HubOffer(r)
    PROVE  OrderI'
<1>1. UNCHANGED <<cursor, conn, s2c, hubCursor, lastError, refuses, history>>
  <2>1. CASE Edit(r)  BY <2>1 DEF Edit, authority, client, socket, outside
  <2>2. CASE Commit(r)  BY <2>2 DEF Commit, authority, socket, outside
  <2>3. CASE IdleFires(r)  BY <2>3 DEF IdleFires, authority, outside
  <2>4. CASE Flush(r)  BY <2>4 DEF Flush, authority, outside
  <2>5. CASE HubOffer(r)  BY <2>5 DEF HubOffer, TakeOffer, client, outside
  <2>. QED  BY <2>1, <2>2, <2>3, <2>4, <2>5
<1>. QED  BY <1>1, OrderKept DEF SameOrder

LEMMA InstallOrder ==
    ASSUME IInv, OrderI, NEW r \in Replicas, Install(r)
    PROVE  OrderI'
<1>1. UNCHANGED <<conn, s2c, hubCursor, lastError, refuses, history>>
      /\ cursor' = [cursor EXCEPT ![r] = head(log, snaps)] /\ ~(cursor[r] > 0)
  BY DEF Install, Installed, authority, socket, outside
<1>2. conn[r] = "down"
  BY <1>1 DEF IInv, ClosedI, Closed
<1>3. Sets(cursor, cursor', r, head(log, snaps))
  <2>1. IsFn(cursor)  BY DEF IInv, Shape
  <2>. QED  BY <1>1, <2>1, ExceptSets
<1>4. \A o \in Replicas : o # r => SameOrder(o)
  BY <1>1, <1>3 DEF SameOrder, Sets
<1>5. OrderedI(r)'
  BY <1>1, <1>2 DEF OrderI, OrderedI, Ordered
<1>. QED  BY <1>1, <1>4, <1>5, OrderLocal

\* A socket that is let go owes its replica nothing.
LEMMA AbandonOrder ==
    ASSUME IInv, OrderI, NEW r \in Replicas, Drop(r) \/ Crash(r)
    PROVE  OrderI'
<1>1. Abandon(r) /\ UNCHANGED <<history, refuses>>
  BY DEF Drop, Crash, authority
<1>2. LetGo(r)  BY <1>1, AbandonLetsGo
<1>3. /\ lastError'[r] # "Gap"
      /\ \A o \in Replicas : o # r => cursor'[o] = cursor[o] /\ lastError'[o] = lastError[o]
  <2>1. CASE Drop(r)
    BY <2>1 DEF Drop, OrderI, OrderedI
  <2>2. CASE Crash(r)
    <3>1. /\ cursor' = [cursor EXCEPT ![r] = RestartCursor(r)]
          /\ lastError' = [lastError EXCEPT ![r] = "none"]
          /\ IsFn(cursor) /\ DOMAIN lastError = Replicas
      BY <2>2 DEF Crash, IInv, Shape
    <3>2. Sets(cursor, cursor', r, RestartCursor(r))
      BY <3>1, ExceptSets
    <3>. QED  BY <3>1, <3>2 DEF Sets
  <2>. QED  BY <2>1, <2>2
<1>4. \A o \in Replicas : o # r => SameOrder(o)
  BY <1>1, <1>2, <1>3 DEF LetGo, Sets, SameOrder
<1>5. OrderedI(r)'
  <2>1. conn'[r] = "down" /\ refuses'[r] = {}
    BY <1>1, <1>2 DEF LetGo, Sets, OrderI, OrderedI
  <2>. QED  BY <1>3, <2>1 DEF OrderedI, Ordered
<1>. QED  BY <1>1, <1>4, <1>5, OrderLocal

\* A replica takes the next frame and arrives where the frame leads.
LEMMA TakeOrder ==
    ASSUME IInv, OrderI, NEW r \in Replicas, history' = history, refuses' = refuses,
           hubCursor' = hubCursor, Consume(r), conn[r] # "down", s2c[r] # <<>>,
           \A o \in Replicas : o # r => /\ cursor'[o] = cursor[o] /\ conn'[o] = conn[o]
                                        /\ lastError'[o] = lastError[o],
           lastError'[r] # "Gap", Leads(cursor'[r], Tail(s2c[r]), Len(history))
    PROVE  OrderI'
<1>1. Sets(s2c, s2c', r, Tail(s2c[r]))  BY ConsumeSets
<1>2. \A o \in Replicas : o # r => SameOrder(o)
  BY <1>1 DEF Sets, SameOrder
<1>3. OrderedI(r)'
  <2>1. s2c'[r] = Tail(s2c[r])  BY <1>1 DEF Sets
  <2>2. hubCursor[r] = Len(history) /\ refuses[r] = {}
    BY DEF OrderI, OrderedI, Ordered
  <2>. QED  BY <2>1, <2>2 DEF OrderedI, Ordered
<1>. QED  BY <1>2, <1>3, OrderLocal

\* What the next frame is and where it leads.
LEMMA NextFrame ==
    ASSUME IInv, OrderI, NEW r \in Replicas, NEW kind, Arrived(r, kind)
    PROVE  /\ conn[r] # "down" /\ s2c[r] # <<>> /\ Head(s2c[r]).kind = kind
           /\ Head(s2c[r]) \in DownFrame /\ cursor[r] \in Nat
           /\ \E b \in Nat : /\ Moves(cursor[r], Head(s2c[r]), b)
                             /\ Leads(b, Tail(s2c[r]), Len(history))
<1>1. conn[r] # "down" /\ s2c[r] # <<>> /\ Head(s2c[r]).kind = kind
  BY DEF Arrived
<1>2. s2c[r] \in Seq(DownFrame) /\ cursor[r] \in Nat
  BY Facts
<1>3. Leads(cursor[r], s2c[r], Len(history))
  BY <1>1 DEF OrderI, OrderedI, Ordered
<1>4. Head(s2c[r]) \in DownFrame
  BY <1>1, <1>2, TailFacts
<1>. QED  BY <1>1, <1>2, <1>3, <1>4, LeadsTail

LEMMA IdleFrameOrder ==
    ASSUME IInv, OrderI, NEW r \in Replicas,
           ReceiveAdmitted(r) \/ ReceiveRefuse(r) \/ ReceiveWanted(r)
    PROVE  OrderI'
<1>1. /\ Arrived(r, "admitted") \/ Arrived(r, "refuse") \/ Arrived(r, "wanted")
      /\ Consume(r) /\ UNCHANGED <<history, refuses, hubCursor, cursor>>
  BY DEF ReceiveAdmitted, ReceiveRefuse, ReceiveWanted, authority, outside, client
<1>2. PICK kind \in {"admitted", "refuse", "wanted"} : Arrived(r, kind)
  BY <1>1
<1>3. PICK b \in Nat : Moves(cursor[r], Head(s2c[r]), b) /\ Leads(b, Tail(s2c[r]), Len(history))
  BY <1>2, NextFrame
<1>4. conn[r] # "down" /\ s2c[r] # <<>> /\ Head(s2c[r]).kind = kind
  BY <1>2, NextFrame
<1>5. b = cursor[r]  BY <1>3, <1>4 DEF Moves
<1>6. DOMAIN lastError = Replicas /\ IsFn(conn)  BY DEF IInv, Shape
<1>7. \A o \in Replicas : o # r => conn'[o] = conn[o] /\ lastError'[o] = lastError[o]
  BY <1>6 DEF ReceiveAdmitted, ReceiveRefuse, ReceiveWanted, client, IsFn
<1>8. lastError'[r] # "Gap"
  <2>1. lastError[r] # "Gap"  BY DEF OrderI, OrderedI
  <2>. QED  BY <1>6, <2>1 DEF ReceiveAdmitted, ReceiveRefuse, ReceiveWanted, client
<1>9. Leads(cursor'[r], Tail(s2c[r]), Len(history))
  BY <1>1, <1>3, <1>5
<1>. QED  BY <1>1, <1>4, <1>7, <1>8, <1>9, TakeOrder

\* Without edits that cannot be applied, received bytes always move the cursor.
LEMMA AppliesOrder ==
    ASSUME IInv, OrderI, Orderly, NEW r \in Replicas, NEW bytes, NEW position,
           ApplyRemote(r, bytes, position)
    PROVE  cursor' = [cursor EXCEPT ![r] = position] /\ UNCHANGED <<lastError, outside>>
<1>1. bytes \intersect refuses[r] = {}
  BY DEF OrderI, OrderedI
<1>2. ~Fail("unapplyable")
  BY DEF Fail, Orderly
<1>. QED  BY <1>1, <1>2 DEF ApplyRemote

LEMMA EntryOrder ==
    ASSUME IInv, OrderI, Orderly, NEW r \in Replicas, ReceiveEntry(r)
    PROVE  OrderI'
<1>. DEFINE f == Head(s2c[r])
<1>1. Arrived(r, "entry") /\ UNCHANGED <<history, deps>>
  BY DEF ReceiveEntry, authority
<1>2. PICK b \in Nat : Moves(cursor[r], f, b) /\ Leads(b, Tail(s2c[r]), Len(history))
  BY <1>1, NextFrame
<1>3. conn[r] # "down" /\ s2c[r] # <<>> /\ f.kind = "entry" /\ f \in DownFrame
      /\ cursor[r] \in Nat /\ lastError[r] # "Gap" /\ IsFn(cursor)
  BY <1>1, NextFrame DEF OrderI, OrderedI, IInv, Shape
<1>4. f.seq \in Nat  BY <1>3 DEF DownFrame
<1>. HIDE DEF f
<1>5. (f.seq = cursor[r] + 1 /\ b = f.seq) \/ (f.seq <= cursor[r] /\ b = cursor[r])
  BY <1>2, <1>3 DEF Moves
<1>6. CASE f.seq <= cursor[r]
  <2>1. Consume(r) /\ UNCHANGED <<cursor, lastError, conn, hubCursor, refuses>>
    BY <1>3, <1>4, <1>6 DEF ReceiveEntry, f, client, outside
  <2>2. b = cursor'[r]  BY <1>3, <1>4, <1>5, <1>6, <2>1
  <2>. QED  BY <1>1, <1>2, <1>3, <2>1, <2>2, TakeOrder
<1>7. CASE f.seq = cursor[r] + 1
  <2>1. /\ Consume(r) /\ ApplyRemote(r, f.bytes, f.seq) /\ UNCHANGED <<conn, hubCursor>>
    BY <1>3, <1>4, <1>7 DEF ReceiveEntry, f, Contiguous
  <2>2. cursor' = [cursor EXCEPT ![r] = f.seq] /\ UNCHANGED <<lastError, refuses>>
    BY <2>1, AppliesOrder DEF outside
  <2>3. Sets(cursor, cursor', r, f.seq)  BY <1>3, <2>2, ExceptSets
  <2>4. b = f.seq  BY <1>3, <1>4, <1>5, <1>7
  <2>5. /\ cursor'[r] = b
        /\ \A o \in Replicas : o # r => /\ cursor'[o] = cursor[o] /\ conn'[o] = conn[o]
                                        /\ lastError'[o] = lastError[o]
    BY <2>1, <2>2, <2>3, <2>4 DEF Sets
  <2>. QED  BY <1>1, <1>2, <1>3, <2>1, <2>2, <2>5, TakeOrder
<1>. QED  BY <1>5, <1>6, <1>7

LEMMA SnapshotOrder ==
    ASSUME IInv, OrderI, Orderly, NEW r \in Replicas, ReceiveSnapshot(r)
    PROVE  OrderI'
<1>. DEFINE f == Head(s2c[r])
<1>1. /\ Arrived(r, "snapshot") /\ Consume(r) /\ UNCHANGED <<history, conn, hubCursor>>
      /\ \/ f.position <= cursor[r] /\ UNCHANGED <<cursor, lastError, outside>>
         \/ f.position > cursor[r] /\ ApplyRemote(r, f.bytes, f.position)
  BY DEF ReceiveSnapshot, authority
<1>2. PICK b \in Nat : Moves(cursor[r], f, b) /\ Leads(b, Tail(s2c[r]), Len(history))
  BY <1>1, NextFrame
<1>3. conn[r] # "down" /\ s2c[r] # <<>> /\ f.kind = "snapshot" /\ f \in DownFrame
      /\ cursor[r] \in Nat /\ lastError[r] # "Gap" /\ IsFn(cursor)
  BY <1>1, NextFrame DEF OrderI, OrderedI, IInv, Shape
<1>4. f.position \in Nat  BY <1>3 DEF DownFrame
<1>. HIDE DEF f
<1>5. \/ f.position > cursor[r] /\ b = f.position
      \/ f.position <= cursor[r] /\ b = cursor[r]
  BY <1>2, <1>3 DEF Moves
<1>6. CASE f.position <= cursor[r]
  <2>1. b = cursor[r] /\ UNCHANGED <<cursor, lastError, refuses>>
    BY <1>1, <1>3, <1>4, <1>5, <1>6 DEF outside
  <2>. QED  BY <1>1, <1>2, <1>3, <2>1, TakeOrder
<1>7. CASE f.position > cursor[r]
  <2>1. b = f.position /\ ApplyRemote(r, f.bytes, f.position)
    BY <1>1, <1>3, <1>4, <1>5, <1>7
  <2>2. cursor' = [cursor EXCEPT ![r] = f.position] /\ UNCHANGED <<lastError, refuses>>
    BY <2>1, AppliesOrder DEF outside
  <2>3. Sets(cursor, cursor', r, f.position)  BY <1>3, <2>2, ExceptSets
  <2>4. /\ cursor'[r] = b
        /\ \A o \in Replicas : o # r => /\ cursor'[o] = cursor[o] /\ conn'[o] = conn[o]
                                        /\ lastError'[o] = lastError[o]
    BY <1>1, <2>1, <2>2, <2>3 DEF Sets
  <2>. QED  BY <1>1, <1>2, <1>3, <2>2, <2>4, TakeOrder
<1>. QED  BY <1>5, <1>6, <1>7

LEMMA AckOrder ==
    ASSUME IInv, OrderI, NEW r \in Replicas, ReceiveAck(r)
    PROVE  OrderI'
<1>. DEFINE f == Head(s2c[r])
<1>1. Arrived(r, "ack") /\ UNCHANGED <<history, refuses>>
  BY DEF ReceiveAck, authority, outside
<1>2. PICK b \in Nat : Moves(cursor[r], f, b) /\ Leads(b, Tail(s2c[r]), Len(history))
  BY <1>1, NextFrame
<1>3. conn[r] # "down" /\ s2c[r] # <<>> /\ f.kind = "ack" /\ lastError[r] # "Gap" /\ IsFn(cursor)
  BY <1>1, NextFrame DEF OrderI, OrderedI, IInv, Shape
<1>4. f.seq = cursor[r] + 1 /\ b = f.seq
  BY <1>2, <1>3 DEF Moves
<1>5. /\ Consume(r) /\ cursor' = [cursor EXCEPT ![r] = f.seq]
      /\ UNCHANGED <<lastError, conn, hubCursor>>
  BY <1>4 DEF ReceiveAck, Contiguous
<1>. HIDE DEF f
<1>6. Sets(cursor, cursor', r, f.seq)  BY <1>3, <1>5, ExceptSets
<1>7. /\ cursor'[r] = b
      /\ \A o \in Replicas : o # r => /\ cursor'[o] = cursor[o] /\ conn'[o] = conn[o]
                                      /\ lastError'[o] = lastError[o]
  BY <1>4, <1>5, <1>6 DEF Sets
<1>. QED  BY <1>1, <1>2, <1>3, <1>5, <1>7, TakeOrder

\* A frame that moves nobody, in front of others.
LEMMA AdmittedLeads ==
    ASSUME NEW s \in Seq(DownFrame), NEW a \in Nat, NEW b, Leads(a, s, b)
    PROVE  Leads(a, <<Admitted>> \o s, b)
<1>1. Admitted \in DownFrame /\ Admitted.kind = "admitted"
  BY DEF Admitted, DownFrame
<1>2. Moves(a, Admitted, a)  BY <1>1 DEF Moves
<1>3. Leads(a, <<Admitted>>, a)  BY <1>1, <1>2, LeadsOne
<1>4. <<Admitted>> \in Seq(DownFrame)  BY <1>1
<1>. QED  BY <1>3, <1>4, LeadsJoin

\* The head of the log delivered to a cursor.
LEMMA HeadDelivery ==
    ASSUME IInv, NEW from \in 0..Len(history)
    PROVE  LET d == Delivery(log, from, head(log, snaps))
           IN  /\ Sound(history, Len(deps), from, d) /\ d.cursor = Len(history)
               /\ Leads(from, d.frames, Len(history))
<1>1. Stored(log, snaps, history, Len(deps)) /\ history \in Seq(Update) /\ Len(history) \in Nat
  BY DEF IInv, StoredI, Stored
<1>2. PICK p \in 1..Len(history) : /\ Newest(snaps, history, Len(deps), p)
                                   /\ log = Rows(history, p + 1, Len(history))
  BY <1>1, StoredNewest
<1>3. head(log, snaps) = Len(history)
  BY <1>1, StoredNewest
<1>4. Len(history) \in from..Len(history) /\ Len(history) >= p
  BY <1>1, <1>2
<1>. QED  BY <1>1, <1>2, <1>3, <1>4, DeliveryIs

LEMMA DialOrder ==
    ASSUME IInv, OrderI, NEW r \in Replicas, Dial(r)
    PROVE  OrderI'
<1>. DEFINE d == Delivery(log, cursor[r], head(log, snaps))
            F == <<Admitted>> \o d.frames
<1>1. /\ conn' = [conn EXCEPT ![r] = "dialled"] /\ s2c' = [s2c EXCEPT ![r] = F]
      /\ hubCursor' = [hubCursor EXCEPT ![r] = d.cursor]
      /\ UNCHANGED <<history, cursor, lastError, refuses>>
  BY DEF Dial, authority, client, outside
<1>2. cursor[r] \in 0..Len(history) /\ cursor[r] \in Nat
  BY Facts
<1>3. Sound(history, Len(deps), cursor[r], d) /\ d.cursor = Len(history)
      /\ Leads(cursor[r], d.frames, Len(history))
  BY <1>2, HeadDelivery
<1>. HIDE DEF d
<1>4. Leads(cursor[r], F, Len(history))
  BY <1>2, <1>3, AdmittedLeads DEF Sound
<1>. HIDE DEF F
<1>5. /\ Sets(conn, conn', r, "dialled") /\ Sets(s2c, s2c', r, F)
      /\ Sets(hubCursor, hubCursor', r, d.cursor)
  <2>1. IsFn(conn) /\ IsFn(s2c) /\ IsFn(hubCursor)  BY DEF IInv, Shape
  <2>. QED  BY <1>1, <2>1, ExceptSets
<1>6. \A o \in Replicas : o # r => SameOrder(o)
  BY <1>1, <1>5 DEF Sets, SameOrder
<1>7. OrderedI(r)'
  BY <1>1, <1>3, <1>4, <1>5 DEF Sets, OrderI, OrderedI, Ordered
<1>. QED  BY <1>1, <1>6, <1>7, OrderLocal

\* A socket that is served continues from where it was.
LEMMA ServeOrder ==
    ASSUME IInv, OrderI, NEW o \in Replicas, o \in Joined, NEW x, Serves(o, x),
           x.frames \in Seq(DownFrame), x.cursor = Len(history'),
           Leads(Len(history), x.frames, Len(history')),
           UNCHANGED <<cursor, lastError, refuses, conn>>
    PROVE  OrderedI(o)'
<1>1. s2c[o] \in Seq(DownFrame)  BY Facts
<1>2. lastError[o] # "Gap" /\ refuses[o] = {} /\ Leads(cursor[o], s2c[o], Len(history))
  BY DEF OrderI, OrderedI, Ordered, Joined
<1>3. Leads(cursor[o], s2c[o] \o x.frames, Len(history'))
  BY <1>1, <1>2, LeadsJoin
<1>. QED  BY <1>2, <1>3 DEF Serves, OrderedI, Ordered

\* A socket that is down stays out of it.
LEMMA SpareOrder ==
    ASSUME IInv, OrderI, NEW o \in Replicas, o \notin Joined,
           UNCHANGED <<cursor, lastError, refuses, conn>>
    PROVE  OrderedI(o)'
<1>1. conn[o] = "down"  BY DEF Joined
<1>. QED  BY <1>1 DEF OrderI, OrderedI, Ordered

LEMMA WakeOrder ==
    ASSUME IInv, OrderI, Wake
    PROVE  OrderI'
<1>. DEFINE again(o) == Delivery(log, attachment[o], head(log, snaps))
            x(o) == [again(o) EXCEPT !.frames = <<Admitted>> \o again(o).frames]
            relay == [o \in Joined |-> x(o)]
<1>1. Relayed(relay) /\ UNCHANGED <<history, cursor, lastError, refuses, conn>>
  BY DEF Wake, authority, client
<1>2. DOMAIN relay = Joined /\ \A o \in Joined : relay[o] = x(o)
  OBVIOUS
<1>3. Len(history) \in Nat  BY DEF IInv, StoredI, Stored
<1>4. ASSUME NEW o \in Replicas, o \in Joined
      PROVE  /\ x(o).frames \in Seq(DownFrame) /\ x(o).cursor = Len(history)
             /\ Leads(Len(history), x(o).frames, Len(history))
  <2>1. attachment[o] \in 0..Len(history)  BY <1>3, Facts
  <2>2. Sound(history, Len(deps), attachment[o], again(o)) /\ again(o).cursor = Len(history)
    BY <2>1, HeadDelivery
  <2>3. x(o).frames = <<Admitted>> \o again(o).frames /\ x(o).cursor = again(o).cursor
    BY DEF Delivery
  <2>. DEFINE F == again(o).frames
  <2>. HIDE DEF x, again
  <2>4. /\ F \in Seq(DownFrame)
        /\ \A k \in 1..Len(F) : F[k].kind \in {"entry", "snapshot"}
                                /\ Honest(history, Len(deps), {}, F[k])
    BY <2>2 DEF Sound
  <2>. HIDE DEF F
  <2>5. \A k \in 1..Len(F) : /\ F[k].kind # "ack"
                             /\ F[k].kind = "entry" => F[k].seq <= Len(history)
                             /\ F[k].kind = "snapshot" => F[k].position <= Len(history)
    BY <1>3, <2>4 DEF Honest
  <2>6. Leads(Len(history), F, Len(history))
    BY <1>3, <2>4, <2>5, LeadsAgain
  <2>7. Leads(Len(history), <<Admitted>> \o F, Len(history))
    BY <1>3, <2>4, <2>6, AdmittedLeads
  <2>8. <<Admitted>> \o F \in Seq(DownFrame)
    <3>1. <<Admitted>> \in Seq(DownFrame)  BY DEF Admitted, DownFrame
    <3>. QED  BY <2>4, <3>1, ConcatFacts
  <2>. QED  BY <2>2, <2>3, <2>7, <2>8 DEF F
<1>. HIDE DEF relay, x, again
<1>5. \A o \in Replicas : o \in Joined => Serves(o, x(o))
  BY <1>1, <1>2, RelayedServes
<1>6. ASSUME NEW o \in Replicas PROVE OrderedI(o)'
  <2>1. CASE o \in Joined  BY <1>1, <1>4, <1>5, <2>1, ServeOrder
  <2>2. CASE o \notin Joined  BY <1>1, <2>2, SpareOrder
  <2>. QED  BY <2>1, <2>2
<1>. QED  BY <1>6 DEF OrderI

\* What the others are sent of a submission that was just logged.
LEMMA RelayOrder ==
    ASSUME IInv, OrderI, NEW bytes, NEW rows, Logs(bytes, rows),
           NEW o \in Replicas, o \in Joined
    PROVE  LET d == Delivery(rows, hubCursor[o], Len(history'))
           IN  /\ d.frames \in Seq(DownFrame) /\ d.cursor = Len(history')
               /\ Leads(Len(history), d.frames, Len(history'))
<1>1. /\ history' \in Seq(Update) /\ Len(history') \in Nat /\ Len(history) \in Nat
      /\ Len(history') = Len(history) + 1
  BY Facts DEF Logs, Grows
<1>2. PICK p \in 1..Len(history) : /\ Newest(snaps, history', Len(deps), p)
                                   /\ rows = Rows(history', p + 1, Len(history'))
  BY DEF Logs
<1>3. hubCursor[o] = Len(history)
  BY DEF OrderI, OrderedI, Ordered, Joined
<1>4. /\ hubCursor[o] \in 0..Len(history') /\ Len(history') >= p
      /\ Len(history') \in hubCursor[o]..Len(history')
  BY <1>1, <1>2, <1>3
<1>. DEFINE d == Delivery(rows, hubCursor[o], Len(history'))
<1>5. /\ Sound(history', Len(deps), hubCursor[o], d) /\ d.cursor = Len(history')
      /\ Leads(hubCursor[o], d.frames, d.cursor)
  BY <1>1, <1>2, <1>4, DeliveryIs
<1>. HIDE DEF d
<1>6. d.frames \in Seq(DownFrame) /\ d.cursor = Len(history')
      /\ Leads(Len(history), d.frames, Len(history'))
  BY <1>3, <1>5 DEF Sound
<1>. QED  BY <1>6 DEF d

\* The author is acknowledged at the very next position.
LEMMA AnswerOrder ==
    ASSUME IInv, OrderI, NEW bytes, NEW rows, Logs(bytes, rows),
           NEW r \in Replicas, r \in Joined, NEW asked \in BOOLEAN
    PROVE  LET d == Answer(r, rows, Len(history'), TRUE, asked)
           IN  /\ d.frames \in Seq(DownFrame) /\ d.cursor = Len(history')
               /\ Leads(Len(history), d.frames, Len(history'))
<1>. DEFINE N == Len(history)
            M == Len(history')
            mine == Delivery(rows, hubCursor[r], M - 1)
            d == Answer(r, rows, M, TRUE, asked)
            A == AckFrame(M)
            W == Wanted(M)
            last == IF asked THEN <<W>> ELSE <<>>
<1>1. history' \in Seq(Update) /\ M \in Nat /\ N \in Nat /\ M = N + 1
  BY Facts DEF Logs, Grows
<1>2. PICK p \in 1..N : /\ Newest(snaps, history', Len(deps), p)
                        /\ rows = Rows(history', p + 1, M)
  BY DEF Logs
<1>3. hubCursor[r] = N
  BY DEF OrderI, OrderedI, Ordered, Joined
<1>4. M - 1 = N /\ N \in 0..M /\ N \in Nat /\ N >= p /\ N \in N..M
  BY <1>1, <1>2
<1>5. mine.frames \in Seq(DownFrame) /\ Leads(N, mine.frames, N)
  <2>1. Sound(history', Len(deps), N, mine) /\ mine.cursor = N /\ Leads(N, mine.frames, mine.cursor)
    BY <1>1, <1>2, <1>3, <1>4, DeliveryIs
  <2>. HIDE DEF mine
  <2>. QED  BY <2>1 DEF Sound
<1>6. A \in DownFrame /\ W \in DownFrame /\ A.kind = "ack" /\ A.seq = M /\ W.kind = "wanted"
  BY <1>1 DEF AckFrame, Wanted, DownFrame
<1>7. d.frames = mine.frames \o <<A>> \o last /\ d.cursor = M
  BY DEF Answer, OwnCeiling
<1>. HIDE DEF A, W, mine, d, M, N
<1>8. Leads(N, <<A>>, M) /\ <<A>> \in Seq(DownFrame)
  <2>1. Moves(N, A, M)  BY <1>1, <1>6 DEF Moves
  <2>. QED  BY <1>1, <1>6, <2>1, LeadsOne
<1>9. Leads(M, last, M) /\ last \in Seq(DownFrame)
  <2>1. CASE asked
    <3>1. Moves(M, W, M)  BY <1>6 DEF Moves
    <3>2. Leads(M, <<W>>, M) /\ <<W>> \in Seq(DownFrame)  BY <1>1, <1>6, <3>1, LeadsOne
    <3>. QED  BY <2>1, <3>2
  <2>2. CASE ~asked
    <3>1. Leads(M, <<>>, M) /\ <<>> \in Seq(DownFrame)  BY <1>1, LeadsNowhere
    <3>. QED  BY <2>2, <3>1
  <2>. QED  BY <2>1, <2>2
<1>. HIDE DEF last
<1>10. Leads(N, mine.frames \o <<A>>, M) /\ mine.frames \o <<A>> \in Seq(DownFrame)
  BY <1>5, <1>8, LeadsJoin, ConcatFacts
<1>. DEFINE G == mine.frames \o <<A>>
<1>11. Leads(N, G, M) /\ G \in Seq(DownFrame)  BY <1>10
<1>12. d.frames = G \o last  BY <1>7
<1>. HIDE DEF G
<1>13. Leads(N, G \o last, M) /\ G \o last \in Seq(DownFrame)
  BY <1>9, <1>11, LeadsJoin, ConcatFacts
<1>. QED  BY <1>7, <1>12, <1>13 DEF d, M, N

LEMMA HubPushOrder ==
    ASSUME IInv, OrderI, NEW r \in Replicas, HubPush(r)
    PROVE  OrderI'
<1>. DEFINE bytes == Head(c2s[r]).bytes
            seq == head(log, snaps) + 1
            rows == append(log, snaps, bytes)
<1>1. /\ Waiting(r, "push") /\ Log(bytes)
      /\ UNCHANGED <<cursor, lastError, refuses, conn>>
  BY DEF HubPush, client, outside
<1>2. PICK asked \in BOOLEAN :
        Relayed([o \in Joined |->
                   IF o = r THEN Answer(r, rows, seq, TRUE, asked)
                            ELSE Delivery(rows, hubCursor[o], seq)])
  BY DEF HubPush
<1>. DEFINE relay == [o \in Joined |->
                        IF o = r THEN Answer(r, rows, seq, TRUE, asked)
                                 ELSE Delivery(rows, hubCursor[o], seq)]
<1>3. r \in Joined  BY <1>1, WaitingTakes DEF Joined
<1>4. bytes \in Update /\ bytes \subseteq 1..Len(deps)  BY <1>1, PushBytes
<1>. HIDE DEF bytes
<1>5. Logs(bytes, rows) /\ seq = Len(history')
  <2>1. Logs(bytes, append(log, snaps, bytes))  BY <1>1, <1>4, LogStep
  <2>. QED  BY <2>1 DEF Logs
<1>. HIDE DEF seq, rows
<1>6. /\ DOMAIN relay = Joined /\ relay[r] = Answer(r, rows, Len(history'), TRUE, asked)
      /\ \A o \in Joined : o # r => relay[o] = Delivery(rows, hubCursor[o], Len(history'))
  BY <1>3, <1>5
<1>7. Relayed(relay)  BY <1>2
<1>. HIDE DEF relay
<1>8. \A o \in Replicas : o \in Joined => Serves(o, relay[o])
  BY <1>6, <1>7, RelayedServes
<1>9. ASSUME NEW o \in Replicas PROVE OrderedI(o)'
  <2>1. CASE o \in Joined
    <3>1. /\ relay[o].frames \in Seq(DownFrame) /\ relay[o].cursor = Len(history')
          /\ Leads(Len(history), relay[o].frames, Len(history'))
      <4>1. CASE o = r  BY <1>3, <1>5, <1>6, <4>1, AnswerOrder
      <4>2. CASE o # r  BY <1>5, <1>6, <2>1, <4>2, RelayOrder
      <4>. QED  BY <4>1, <4>2
    <3>. QED  BY <1>1, <1>8, <2>1, <3>1, ServeOrder
  <2>2. CASE o \notin Joined  BY <1>1, <2>2, SpareOrder
  <2>. QED  BY <2>1, <2>2
<1>. QED  BY <1>9 DEF OrderI

LEMMA HubLateOrder ==
    ASSUME IInv, OrderI, NEW r \in Replicas, HubLate(r)
    PROVE  OrderI'
<1>. DEFINE f == Head(late[r].frames)
            seq == head(log, snaps) + 1
            rows == append(log, snaps, f.bytes)
<1>1. late[r].frames # <<>> /\ UNCHANGED <<cursor, lastError, refuses, conn>>
  BY DEF HubLate, client, outside
<1>2. \/ /\ f.kind = "offer" /\ TakeOffer(f, late[r].cursor)
         /\ UNCHANGED <<s2c, hubCursor, attachment>>
      \/ /\ f.kind = "push" /\ Log(f.bytes)
         /\ Relayed([o \in Joined |-> Delivery(rows, hubCursor[o], seq)])
  BY DEF HubLate
<1>3. f.kind = "push" => f.bytes \in Update /\ f.bytes \subseteq 1..Len(deps)
  <2>1. Fair(history, Len(deps), written[r], f)
    BY <1>1, UpTaken DEF IInv, LateI
  <2>2. Len(deps) \in 0..MaxEdits /\ written[r] \subseteq 1..Len(deps)  BY Facts
  <2>3. f.kind = "push" => f.bytes \subseteq 1..Len(deps)  BY <2>1, <2>2 DEF Fair
  <2>. QED  BY <2>2, <2>3, MadeIsUpdate
<1>. HIDE DEF f
<1>4. CASE TakeOffer(f, late[r].cursor) /\ UNCHANGED <<s2c, hubCursor, attachment>>
  BY <1>1, <1>4, OrderKept DEF TakeOffer, SameOrder
<1>5. CASE /\ f.kind = "push" /\ Log(f.bytes)
           /\ Relayed([o \in Joined |-> Delivery(rows, hubCursor[o], seq)])
  <2>1. Logs(f.bytes, rows) /\ seq = Len(history')
    <3>1. Logs(f.bytes, append(log, snaps, f.bytes))  BY <1>3, <1>5, LogStep
    <3>. QED  BY <3>1 DEF Logs
  <2>. HIDE DEF rows, seq
  <2>. DEFINE relay == [o \in Joined |-> Delivery(rows, hubCursor[o], seq)]
  <2>2. DOMAIN relay = Joined /\ Relayed(relay)
        /\ \A o \in Joined : relay[o] = Delivery(rows, hubCursor[o], Len(history'))
    BY <1>5, <2>1
  <2>. HIDE DEF relay
  <2>3. \A o \in Replicas : o \in Joined => Serves(o, relay[o])
    BY <2>2, RelayedServes
  <2>4. ASSUME NEW o \in Replicas PROVE OrderedI(o)'
    <3>1. CASE o \in Joined
      <4>1. /\ relay[o].frames \in Seq(DownFrame) /\ relay[o].cursor = Len(history')
            /\ Leads(Len(history), relay[o].frames, Len(history'))
        BY <2>1, <2>2, <3>1, RelayOrder
      <4>. QED  BY <1>1, <2>3, <3>1, <4>1, ServeOrder
    <3>2. CASE o \notin Joined  BY <1>1, <3>2, SpareOrder
    <3>. QED  BY <3>1, <3>2
  <2>. QED  BY <2>4 DEF OrderI
<1>. QED  BY <1>2, <1>4, <1>5

LEMMA NextKeepsOrder == ASSUME IInv, OrderI, Orderly, [Next]_vars PROVE OrderI'
<1>1. CASE UNCHANGED vars
  <2>1. UNCHANGED <<cursor, conn, s2c, hubCursor, lastError, refuses, history>>
    BY <1>1 DEF vars, authority, client, socket, outside
  <2>. QED  BY <2>1, OrderKept DEF SameOrder
<1>2. CASE Wake  BY <1>2, WakeOrder
<1>3. ASSUME NEW r \in Replicas,
             \/ Install(r) \/ Edit(r) \/ Commit(r) \/ IdleFires(r) \/ Flush(r) \/ Dial(r)
             \/ Receive(r) \/ Hub(r) \/ HubPushBroken(r) \/ HubRefuses(r) \/ HubLate(r)
             \/ Drop(r) \/ Crash(r)
      PROVE  OrderI'
  <2>1. CASE Edit(r) \/ Commit(r) \/ IdleFires(r) \/ Flush(r)  BY <2>1, QuietOrder
  <2>2. CASE Install(r) \/ Dial(r)  BY <2>2, InstallOrder, DialOrder
  <2>3. CASE Receive(r)
    BY <2>3, IdleFrameOrder, EntryOrder, SnapshotOrder, AckOrder DEF Receive
  <2>4. CASE Hub(r)  BY <2>4, HubPushOrder, QuietOrder DEF Hub
  <2>5. CASE HubPushBroken(r) \/ HubRefuses(r)
    BY <2>5 DEF HubPushBroken, HubRefuses, Fail, Orderly
  <2>6. CASE HubLate(r)  BY <2>6, HubLateOrder
  <2>7. CASE Drop(r) \/ Crash(r)  BY <2>7, AbandonOrder
  <2>. QED  BY <1>3, <2>1, <2>2, <2>3, <2>4, <2>5, <2>6, <2>7
<1>. QED  BY <1>1, <1>2, <1>3 DEF Next

\* No replica ever meets a gap while the hub's storage and the documents do
\* not fail, over crashes of devices, lost sockets, late frames and hibernation:
\* what is on the wire leads contiguously to the end of the log.
THEOREM SpecNoGap == ASSUME Orderly PROVE Spec => []NoGap
<1>1. Init => OrderI  BY InitOrderI
<1>2. IInv /\ OrderI /\ [Next]_vars => OrderI'  BY NextKeepsOrder
<1>3. OrderI => NoGap  BY DEF OrderI, OrderedI, NoGap
<1>. QED  BY <1>1, <1>2, <1>3, SpecKeepsIInv, PTL DEF Spec

-----------------------------------------------------------------------------
(* Edits on their way *)

\* An edit is durable with some replica, or waits for its storage.
Somewhere(e) == \E r \in Replicas : e \in written[r] \/ Queued(r, e)

\* Every edit is somewhere, and was made on top of edits made before.
MadeI ==
    /\ \A e \in 1..Len(deps) : Somewhere(e)
    /\ \A e \in 1..Len(deps) : deps[e] \subseteq 1..Len(deps)

\* What replica o has of its own, it keeps.
KeepsOwn(o) ==
    \A e : e \in written[o] \/ Queued(o, e) => e \in written'[o] \/ Queued(o, e)'

LEMMA InitMadeI == Init => MadeI
  BY DEF Init, MadeI

LEMMA MadeKept ==
    ASSUME MadeI, deps' = deps, \A o \in Replicas : KeepsOwn(o)
    PROVE  MadeI'
<1>1. ASSUME NEW e \in 1..Len(deps) PROVE Somewhere(e)'
  <2>1. PICK r \in Replicas : e \in written[r] \/ Queued(r, e)
    BY <1>1 DEF MadeI, Somewhere
  <2>. QED  BY <2>1 DEF KeepsOwn, Somewhere
<1>. QED  BY <1>1 DEF MadeI

LEMMA SameOwn ==
    ASSUME NEW o \in Replicas, queue'[o] = queue[o], written'[o] = written[o]
    PROVE  KeepsOwn(o)
  BY DEF KeepsOwn, Queued

LEMMA LongerOwn ==
    ASSUME NEW o \in Replicas, queue[o] \in Seq(Op), NEW more \in Seq(Op),
           queue'[o] = queue[o] \o more, written'[o] = written[o]
    PROVE  KeepsOwn(o)
<1>1. Joins(Op, queue[o], more, queue[o] \o more)  BY ConcatJoins
<1>2. \A k \in 1..Len(queue[o]) : k \in 1..Len(queue'[o]) /\ queue'[o][k] = queue[o][k]
  <2>. DEFINE u == queue[o] \o more
  <2>1. Joins(Op, queue[o], more, u) /\ queue'[o] = u  BY <1>1
  <2>. HIDE DEF u
  <2>. QED  BY <2>1 DEF Joins
<1>. QED  BY <1>2 DEF KeepsOwn, Queued

\* A step that appends at most to one queue.
LEMMA QueueMade ==
    ASSUME IInv, MadeI, deps' = deps, written' = written, NEW r \in Replicas,
           NEW more \in Seq(Op), queue' = [queue EXCEPT ![r] = queue[r] \o more]
    PROVE  MadeI'
<1>1. IsFn(queue)  BY DEF IInv, Shape
<1>2. Sets(queue, queue', r, queue[r] \o more)  BY <1>1, ExceptSets
<1>3. ASSUME NEW o \in Replicas PROVE KeepsOwn(o)
  <2>1. queue[o] \in Seq(Op) /\ written'[o] = written[o]  BY Facts
  <2>2. CASE o = r  BY <1>2, <2>1, <2>2, LongerOwn DEF Sets
  <2>3. CASE o # r  BY <1>2, <2>1, <2>3, SameOwn DEF Sets
  <2>. QED  BY <2>2, <2>3
<1>. QED  BY <1>3, MadeKept

LEMMA QuietMade ==
    ASSUME MadeI, UNCHANGED <<deps, written, queue>>
    PROVE  MadeI'
  BY SameOwn, MadeKept

LEMMA EditMade ==
    ASSUME IInv, MadeI, NEW r \in Replicas, Edit(r)
    PROVE  MadeI'
<1>. DEFINE n == Len(deps)
            op == [kind |-> "append", bytes |-> {n + 1}, seq |-> 0]
<1>1. /\ deps' = Append(deps, live[r]) /\ n + 1 <= MaxEdits /\ written' = written
      /\ queue' = [queue EXCEPT ![r] = Append(queue[r], op)]
  BY DEF Edit
<1>2. /\ deps \in Seq(Update) /\ n \in Nat /\ live[r] \subseteq 1..n /\ IsFn(queue)
      /\ live[r] \in Update
  <2>1. Len(deps) \in 0..MaxEdits /\ live[r] \subseteq 1..Len(deps)  BY Facts
  <2>2. live[r] \in Update  BY <2>1, MadeIsUpdate
  <2>. QED  BY <2>1, <2>2, Facts DEF IInv, Shape
<1>3. /\ Len(deps') = n + 1 /\ deps'[n + 1] = live[r]
      /\ \A e \in 1..n : deps'[e] = deps[e]
  BY <1>1, <1>2, AppendFacts
<1>4. op \in Op /\ op.kind = "append" /\ op.bytes = {n + 1} /\ op.seq = 0
  <2>1. {n + 1} \in Update
    BY <1>1, <1>2, StoreSyncAssumption DEF Update
  <2>. QED  BY <2>1 DEF Op
<1>. HIDE DEF op, n
<1>5. Sets(queue, queue', r, Append(queue[r], op))  BY <1>1, <1>2, ExceptSets
<1>6. queue[r] \in Seq(Op)  BY Facts
<1>7. /\ \A k \in 1..Len(queue[r]) : k \in 1..Len(queue'[r]) /\ queue'[r][k] = queue[r][k]
      /\ Len(queue[r]) + 1 \in 1..Len(queue'[r]) /\ queue'[r][Len(queue[r]) + 1] = op
  <2>1. queue'[r] = Append(queue[r], op)  BY <1>5 DEF Sets
  <2>. QED  BY <1>4, <1>6, <2>1, AppendFacts
<1>8. \A o \in Replicas : KeepsOwn(o)
  <2>1. KeepsOwn(r)  BY <1>1, <1>7 DEF KeepsOwn, Queued
  <2>2. \A o \in Replicas : o # r => KeepsOwn(o)  BY <1>1, <1>5, SameOwn DEF Sets
  <2>. QED  BY <2>1, <2>2
<1>9. ASSUME NEW e, e = n + 1 PROVE Queued(r, e)'
  <2>1. e \in op.bytes  BY <1>4, <1>9
  <2>2. PICK k \in 1..Len(queue'[r]) : queue'[r][k] = op  BY <1>7
  <2>. QED  BY <1>4, <2>1, <2>2 DEF Queued
<1>10. ASSUME NEW e \in 1..(n + 1) PROVE Somewhere(e)' /\ deps'[e] \subseteq 1..(n + 1)
  <2>0. 1..n \subseteq 1..(n + 1)  BY <1>2
  <2>1. CASE e = n + 1
    <3>1. Queued(r, e)'  BY <1>9, <2>1
    <3>2. Somewhere(e)'  BY <3>1 DEF Somewhere
    <3>. QED  BY <1>2, <1>3, <2>0, <2>1, <3>2
  <2>2. CASE e \in 1..n
    <3>1. Somewhere(e) /\ deps[e] \subseteq 1..n  BY <2>2 DEF MadeI, n
    <3>2. PICK o \in Replicas : e \in written[o] \/ Queued(o, e)  BY <3>1 DEF Somewhere
    <3>3. Somewhere(e)'  BY <1>8, <3>2 DEF KeepsOwn, Somewhere
    <3>. QED  BY <1>3, <2>0, <2>2, <3>1, <3>3
  <2>. QED  BY <1>2, <2>1, <2>2
<1>. QED  BY <1>3, <1>10 DEF MadeI

\* The operation that becomes durable takes its edit along.
LEMMA CommitMade ==
    ASSUME IInv, MadeI, NEW r \in Replicas, Commit(r)
    PROVE  MadeI'
<1>. DEFINE op == Head(queue[r])
<1>1. /\ queue[r] # <<>> /\ queue' = [queue EXCEPT ![r] = Tail(queue[r])] /\ deps' = deps
      /\ \/ /\ op.kind = "append" /\ op.seq = 0
            /\ written' = [written EXCEPT ![r] = written[r] \union op.bytes]
         \/ /\ ~(op.kind = "append" /\ op.seq = 0) /\ written' = written
  BY DEF Commit
<1>2. queue[r] \in Seq(Op) /\ IsFn(queue) /\ IsFn(written)
  BY Facts DEF IInv, Shape
<1>3. Sets(queue, queue', r, Tail(queue[r]))  BY <1>1, <1>2, ExceptSets
<1>4. /\ Len(Tail(queue[r])) = Len(queue[r]) - 1 /\ Len(queue[r]) \in Nat /\ op = queue[r][1]
      /\ \A k \in 1..Len(Tail(queue[r])) : Tail(queue[r])[k] = queue[r][k + 1]
  BY <1>1, <1>2, TailFacts
<1>. HIDE DEF op
<1>5. /\ \A o \in Replicas : o # r => written'[o] = written[o]
      /\ written[r] \subseteq written'[r]
      /\ op.kind = "append" /\ op.seq = 0 => op.bytes \subseteq written'[r]
  <2>1. CASE written' = written /\ ~(op.kind = "append" /\ op.seq = 0)  BY <2>1
  <2>2. CASE written' = [written EXCEPT ![r] = written[r] \union op.bytes]
    <3>1. Sets(written, written', r, written[r] \union op.bytes)  BY <1>2, <2>2, ExceptSets
    <3>. QED  BY <3>1 DEF Sets
  <2>. QED  BY <1>1, <2>1, <2>2
<1>6. ASSUME NEW o \in Replicas PROVE KeepsOwn(o)
  <2>1. CASE o # r  BY <1>3, <1>5, <2>1, SameOwn DEF Sets
  <2>2. CASE o = r
    <3>. SUFFICES ASSUME NEW e, Queued(r, e) PROVE e \in written'[r] \/ Queued(r, e)'
      BY <1>5, <2>2 DEF KeepsOwn
    <3>1. PICK k \in 1..Len(queue[r]) : /\ queue[r][k].kind = "append" /\ queue[r][k].seq = 0
                                        /\ e \in queue[r][k].bytes
      BY DEF Queued
    <3>2. CASE k = 1  BY <1>4, <1>5, <3>1, <3>2
    <3>3. CASE k > 1
      <4>1. k - 1 \in 1..Len(Tail(queue[r])) /\ (k - 1) + 1 = k  BY <1>4, <3>3
      <4>2. Tail(queue[r])[k - 1] = queue[r][k]  BY <1>4, <4>1
      <4>3. queue'[r] = Tail(queue[r])  BY <1>3 DEF Sets
      <4>4. PICK j \in 1..Len(queue'[r]) : queue'[r][j] = queue[r][k]  BY <4>1, <4>2, <4>3
      <4>. QED  BY <3>1, <4>4 DEF Queued
    <3>. QED  BY <1>4, <3>2, <3>3
  <2>. QED  BY <2>1, <2>2
<1>. QED  BY <1>1, <1>6, MadeKept

LEMMA ReceiveMade ==
    ASSUME IInv, MadeI, NEW r \in Replicas, Receive(r)
    PROVE  MadeI'
<1>1. deps' = deps /\ written' = written
  BY DEF Receive, ReceiveAdmitted, ReceiveEntry, ReceiveSnapshot, ReceiveAck, ReceiveRefuse,
         ReceiveWanted, Gap, replica
<1>2. ASSUME NEW bytes, NEW position \in Nat, bytes \in Update, ApplyRemote(r, bytes, position)
      PROVE  MadeI'
  <2>1. CASE queue' = queue  BY <1>1, <2>1, QuietMade
  <2>2. CASE queue' = [queue EXCEPT ![r] = queue[r] \o RemoteOps(bytes, position)]
    <3>1. RemoteOps(bytes, position) \in Seq(Op)  BY <1>2 DEF RemoteOps, Op
    <3>. QED  BY <1>1, <2>2, <3>1, QueueMade
  <2>. QED  BY <1>2, <2>1, <2>2 DEF ApplyRemote
<1>3. CASE ReceiveAdmitted(r) \/ ReceiveRefuse(r) \/ ReceiveWanted(r)
  <2>1. queue' = queue  BY <1>3 DEF ReceiveAdmitted, ReceiveRefuse, ReceiveWanted, replica
  <2>. QED  BY <1>1, <2>1, QuietMade
<1>4. ASSUME NEW kind, Arrived(r, kind)
      PROVE  Head(s2c[r]) \in DownFrame /\ Head(s2c[r]).kind = kind
  <2>1. s2c[r] \in Seq(DownFrame) /\ s2c[r] # <<>> /\ Head(s2c[r]).kind = kind
    BY <1>4, Facts DEF Arrived
  <2>. QED  BY <2>1, TailFacts
<1>5. CASE ReceiveEntry(r)
  <2>. DEFINE f == Head(s2c[r])
  <2>1. queue' = queue \/ ApplyRemote(r, f.bytes, f.seq)
    BY <1>5 DEF ReceiveEntry, Gap, replica
  <2>2. f.seq \in Nat /\ f.bytes \in Update
    <3>1. f \in DownFrame /\ f.kind = "entry"  BY <1>4, <1>5 DEF ReceiveEntry
    <3>. QED  BY <3>1 DEF DownFrame
  <2>. HIDE DEF f
  <2>. QED  BY <1>1, <1>2, <2>1, <2>2, QuietMade
<1>6. CASE ReceiveSnapshot(r)
  <2>. DEFINE f == Head(s2c[r])
  <2>1. queue' = queue \/ ApplyRemote(r, f.bytes, f.position)
    BY <1>6 DEF ReceiveSnapshot
  <2>2. f.position \in Nat /\ f.bytes \in Update
    <3>1. f \in DownFrame /\ f.kind = "snapshot"  BY <1>4, <1>6 DEF ReceiveSnapshot
    <3>. QED  BY <3>1 DEF DownFrame
  <2>. HIDE DEF f
  <2>. QED  BY <1>1, <1>2, <2>1, <2>2, QuietMade
<1>7. CASE ReceiveAck(r)
  <2>. DEFINE seq == Head(s2c[r]).seq
              op == [kind |-> "ack", throughId |-> outstanding[r], seq |-> seq]
  <2>1. queue' = queue \/ queue' = [queue EXCEPT ![r] = Append(queue[r], op)]
    BY <1>7 DEF ReceiveAck, Gap, replica
  <2>2. seq \in Nat /\ outstanding[r] \in Nat /\ queue[r] \in Seq(Op)
    <3>1. Head(s2c[r]) \in DownFrame /\ Head(s2c[r]).kind = "ack"
      BY <1>4, <1>7 DEF ReceiveAck
    <3>. QED  BY <3>1, Facts DEF DownFrame
  <2>3. op \in Op  BY <2>2 DEF Op
  <2>. HIDE DEF op
  <2>4. <<op>> \in Seq(Op) /\ queue[r] \o <<op>> = Append(queue[r], op)  BY <2>2, <2>3
  <2>. QED  BY <1>1, <2>1, <2>4, QuietMade, QueueMade
<1>. QED  BY <1>3, <1>5, <1>6, <1>7 DEF Receive

LEMMA NextKeepsMade == ASSUME IInv, MadeI, "crash" \notin Failures, [Next]_vars PROVE MadeI'
<1>1. CASE UNCHANGED vars
  BY <1>1, QuietMade DEF vars, replica
<1>2. CASE Wake
  BY <1>2, QuietMade DEF Wake, replica
<1>3. ASSUME NEW r \in Replicas,
             \/ Install(r) \/ Edit(r) \/ Commit(r) \/ IdleFires(r) \/ Flush(r) \/ Dial(r)
             \/ Receive(r) \/ Hub(r) \/ HubPushBroken(r) \/ HubRefuses(r) \/ HubLate(r)
             \/ Drop(r) \/ Crash(r)
      PROVE  MadeI'
  <2>1. CASE Install(r) \/ IdleFires(r) \/ Flush(r) \/ Dial(r) \/ Drop(r)
    BY <2>1, QuietMade DEF Install, IdleFires, Flush, Dial, Drop, replica
  <2>2. CASE Hub(r) \/ HubPushBroken(r) \/ HubRefuses(r) \/ HubLate(r)
    BY <2>2, QuietMade DEF Hub, HubPush, HubOffer, HubPushBroken, HubRefuses, HubLate, replica
  <2>3. CASE Crash(r)  BY <2>3 DEF Crash, Fail
  <2>. QED  BY <1>3, <2>1, <2>2, <2>3, EditMade, CommitMade, ReceiveMade
<1>. QED  BY <1>1, <1>2, <1>3 DEF Next

\* An edit that is nowhere else is in the log.
LEMMA MadeLeads ==
    ASSUME IInv, MadeI, NEW e \in 1..Len(deps)
    PROVE  Logged(history, e) \/ \E r \in Replicas : e \in owed[r] \/ Queued(r, e)
<1>1. PICK r \in Replicas : e \in written[r] \/ Queued(r, e)
  BY DEF MadeI, Somewhere
<1>2. e \in written[r] => e \in owed[r] \/ Logged(history, e)
  BY DEF IInv, SessionI, Session
<1>. QED  BY <1>1, <1>2

LEMMA MadeNotLost == ASSUME IInv, MadeI PROVE NoEditLost
<1>. SUFFICES ASSUME NEW e \in Authored
              PROVE  e \in Held \/ \E r \in Replicas : e \in owed[r] \/ Queued(r, e)
  BY DEF NoEditLost
<1>1. e \in 1..Len(deps)  BY AuthoredAre
<1>2. Logged(history, e) => e \in Held  BY LoggedIsHeld DEF IInv, StoredI
<1>. QED  BY <1>1, <1>2, MadeLeads

\* While no device crashes no edit is lost: not when the hub's storage fails, a
\* document refuses bytes, a socket is dropped or the hub forgets.
THEOREM SpecNoEditLost == ASSUME "crash" \notin Failures PROVE Spec => []NoEditLost
<1>1. Init => MadeI  BY InitMadeI
<1>2. IInv /\ MadeI /\ [Next]_vars => MadeI'  BY NextKeepsMade
<1>3. IInv /\ MadeI => NoEditLost  BY MadeNotLost
<1>. QED  BY <1>1, <1>2, <1>3, SpecKeepsIInv, PTL DEF Spec

\* A dependency that a replica misses is in the log ahead of its cursor, or its
\* author has it and will send it.
HolesFill ==
    \A r \in Replicas : \A e \in live[r] : \A d \in deps[e] \ live[r] :
        \/ \E i \in (cursor[r] + 1)..Len(history) : d \in history[i]
        \/ \E o \in Replicas : d \in owed[o] \/ Queued(o, d)

LEMMA MadeFills == ASSUME IInv, MadeI PROVE HolesFill
<1>. SUFFICES ASSUME NEW r \in Replicas, NEW e \in live[r], NEW d \in deps[e], d \notin live[r],
                     ~ \E o \in Replicas : d \in owed[o] \/ Queued(o, d)
              PROVE  \E i \in (cursor[r] + 1)..Len(history) : d \in history[i]
  BY DEF HolesFill
<1>1. /\ live[r] \subseteq 1..Len(deps) /\ cursor[r] \in 0..Len(history)
      /\ Len(history) \in Nat /\ Covered(history, cursor[r], live[r])
  BY Facts
<1>2. d \in 1..Len(deps)  BY <1>1 DEF MadeI
<1>3. PICK i \in 1..Len(history) : d \in history[i]
  BY <1>2, MadeLeads DEF Logged
<1>4. ~(i \in 1..cursor[r])  BY <1>1, <1>3 DEF Covered
<1>5. i \in (cursor[r] + 1)..Len(history)  BY <1>1, <1>4
<1>. QED  BY <1>3, <1>5

\* Snapshots can run ahead of the log, so a replica that reads the log in order
\* may hold an edit without what it was made on; while no device crashes such a
\* hole is always about to be filled.
THEOREM SpecHolesFill == ASSUME "crash" \notin Failures PROVE Spec => []HolesFill
<1>1. Init => MadeI  BY InitMadeI
<1>2. IInv /\ MadeI /\ [Next]_vars => MadeI'  BY NextKeepsMade
<1>3. IInv /\ MadeI => HolesFill  BY MadeFills
<1>. QED  BY <1>1, <1>2, <1>3, SpecKeepsIInv, PTL DEF Spec

\* Lost sockets and a hibernating hub alone never make a replica meet a gap,
\* and never cost an edit.
THEOREM SpecInOrder == ASSUME Failures \subseteq {"drop", "wake"} PROVE Spec => []InOrder
<1>1. Orderly /\ "crash" \notin Failures  BY DEF Orderly
<1>2. Spec => []TypeOK  BY SpecTypeOK
<1>3. Spec => []NoGap  BY <1>1, SpecNoGap
<1>4. Spec => []NoEditLost  BY <1>1, SpecNoEditLost
<1>5. TypeOK /\ NoGap /\ NoEditLost => InOrder  BY DEF InOrder
<1>. QED  BY <1>2, <1>3, <1>4, <1>5, PTL
=============================================================================
