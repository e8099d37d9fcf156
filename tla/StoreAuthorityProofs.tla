------------------------ MODULE StoreAuthorityProofs ------------------------
(***************************************************************************)
(* Proofs about StoreAuthority, for every set of sockets, any lease, clock *)
(* and log, and every number of hibernations and storage failures.         *)
(*                                                                         *)
(* A handler touches one socket, so the invariant is stated of one socket  *)
(* at a time: `Sound` holds of it always, `Served` while the runtime is    *)
(* awake.  The lemmas say what each handler makes of them.                 *)
(***************************************************************************)
EXTENDS StoreAuthority, WellFoundedInduction, TLAPS

State == [sock : [Sockets -> Socket], connections : SUBSET Sockets, members : SUBSET Sockets]

\* The socket was sent, or pushed itself, every entry up to n.
Covers(s, n) == 1..n \subseteq s.got \cup s.unacked

\* What the attachment, and the hub's cursor, stand for.
Held(s, hd) == s.attached <= hd /\ Covers(s, s.attached)
Backed(s, hd) == s.cursor <= hd /\ Covers(s, s.cursor)

\* Nothing is kept for a closed socket, and its attachment stands for what it has.
Sound(x, k, hd) ==
    /\ k \in x.members => k \in x.connections
    /\ k \in x.connections => x.sock[k].state \in {"open", "lost"}
    /\ Held(x.sock[k], hd)

\* An authorized socket is known and joined, and the hub's cursor stands for what
\* it has.
Reached(x, k, hd) ==
    Authorized(x, k) => k \in x.connections /\ k \in x.members /\ Backed(x.sock[k], hd)

\* And it is at the head, unless storage broke off its delivery.
Served(x, k, hd) ==
    Reached(x, k, hd) /\ (Authorized(x, k) => x.sock[k].cursor = hd \/ x.sock[k].lags)

IInv ==
    /\ adapter \in {"durable", "bun"} /\ adapter \in Adapters
    /\ now \in 1..MaxTime /\ head \in 1..MaxHead
    /\ alarm \in 0..MaxTime /\ awake \in BOOLEAN
    /\ d \in State
    /\ \A k \in Sockets : Sound(d, k, head)
    /\ awake = TRUE => \A k \in Sockets : Served(d, k, head)
    /\ awake = FALSE => adapter = "durable" /\ d.connections = {}

-----------------------------------------------------------------------------
(* What a handler does to its socket k and leaves alone *)

Kept(x, y) == y.connections = x.connections /\ y.members = x.members

\* The other sockets are as they were, and k was sent something only in time.
Touches(x, y, k) ==
    /\ y \in State
    /\ \A j \in Sockets \ {k} :
          /\ y.sock[j] = x.sock[j]
          /\ j \in y.connections <=> j \in x.connections
          /\ j \in y.members <=> j \in x.members
    /\ y.sock[k].deadline = x.sock[k].deadline
    /\ y.sock[k].got # x.sock[k].got => now < x.sock[k].deadline

LEMMA TouchesTwice ==
    ASSUME NEW x, NEW y, NEW z, NEW k, Touches(x, y, k), Touches(y, z, k)
    PROVE  Touches(x, z, k)
    BY DEF Touches

\* Another socket's lot is what it was.
LEMMA TouchesOther ==
    ASSUME NEW x, NEW y, NEW k, Touches(x, y, k), NEW j \in Sockets \ {k}, NEW hd
    PROVE  /\ Sound(x, j, hd) <=> Sound(y, j, hd)
           /\ Served(x, j, hd) <=> Served(y, j, hd)
           /\ Reached(x, j, hd) <=> Reached(y, j, hd)
           /\ Authorized(x, j) <=> Authorized(y, j)
  <1>1. /\ y.sock[j] = x.sock[j]
        /\ j \in y.connections <=> j \in x.connections
        /\ j \in y.members <=> j \in x.members
    BY DEF Touches
  <1> QED BY <1>1 DEF Sound, Served, Reached, Authorized, Open, InTime

\* A socket of the state, taken apart.
LEMMA SocketIs ==
    ASSUME NEW x \in State, NEW k \in Sockets
    PROVE  /\ x.sock \in [Sockets -> Socket] /\ x.sock[k] \in Socket
           /\ x.connections \in SUBSET Sockets /\ x.members \in SUBSET Sockets
           /\ x.sock[k].attached \in Nat /\ x.sock[k].cursor \in Nat
           /\ x.sock[k].deadline \in Nat /\ x.sock[k].deadline <= MaxTime
  <1>1. x.sock[k] \in Socket
    BY DEF State
  <1> QED BY <1>1, AuthorityAssumption DEF State, Socket

LEMMA ClosedIs ==
    ASSUME NEW x \in State, NEW k \in Sockets
    PROVE  /\ Touches(x, Closed(x, k), k) /\ Closed(x, k).sock[k].state = "closed"
           /\ ~Open(Closed(x, k), k)
           /\ \A hd : Held(x.sock[k], hd) => Held(Closed(x, k).sock[k], hd)
           /\ Closed(x, k).connections = x.connections /\ Closed(x, k).members = x.members
  <1> DEFINE y == Closed(x, k)
  <1>1. x.sock[k] \in Socket
    BY DEF State
  <1>2. /\ y.sock = [x.sock EXCEPT ![k].state = "closed"]
        /\ y.connections = x.connections /\ y.members = x.members /\ y \in State
    BY <1>1 DEF Closed, State, Socket
  <1> HIDE DEF y
  <1>3. y.sock[k] = [x.sock[k] EXCEPT !.state = "closed"] /\ \A j \in Sockets \ {k} : y.sock[j] = x.sock[j]
    BY <1>2 DEF State
  <1>4. \A hd : Held(x.sock[k], hd) => Held(y.sock[k], hd)
    BY <1>1, <1>3 DEF Held, Covers, Socket
  <1> QED BY <1>1, <1>2, <1>3, <1>4 DEF Touches, Open, y, Socket

LEMMA ForgetIs ==
    ASSUME NEW x \in State, NEW k \in Sockets, k \in x.members => k \in x.connections
    PROVE  /\ Touches(x, forget(x, k), k) /\ forget(x, k).sock = x.sock
           /\ k \notin forget(x, k).connections /\ k \notin forget(x, k).members
  <1> DEFINE y == forget(x, k)
  <1>1. /\ y.sock = x.sock /\ y.connections = x.connections \ {k} /\ y.members = x.members \ {k}
        /\ y \in State
    <2>1. CASE k \in x.connections
      BY <2>1 DEF forget, State
    <2>2. CASE k \notin x.connections
      BY <2>2 DEF forget, State
    <2> QED BY <2>1, <2>2
  <1> HIDE DEF y
  <1> QED BY <1>1 DEF Touches, y

LEMMA LeftIs ==
    ASSUME NEW x \in State, NEW k \in Sockets, NEW hd, Sound(x, k, hd)
    PROVE  LET y == Closed(forget(x, k), k)
           IN  /\ Touches(x, y, k) /\ Sound(y, k, hd) /\ ~Authorized(y, k)
               /\ k \notin y.connections
  <1> DEFINE f == forget(x, k)
             y == Closed(f, k)
  <1>1. /\ Touches(x, f, k) /\ f.sock = x.sock /\ f \in State
        /\ k \notin f.connections /\ k \notin f.members
    BY ForgetIs DEF Sound, Touches
  <1> HIDE DEF f
  <1>2. /\ Touches(f, y, k) /\ ~Open(y, k)
        /\ Held(f.sock[k], hd) => Held(y.sock[k], hd)
        /\ y.connections = f.connections /\ y.members = f.members
    BY <1>1, ClosedIs
  <1> HIDE DEF y
  <1>3. Touches(x, y, k)
    BY <1>1, <1>2, TouchesTwice
  <1>4. Sound(y, k, hd)
    BY <1>1, <1>2 DEF Sound
  <1>5. k \notin y.connections
    BY <1>1, <1>2
  <1> QED BY <1>2, <1>3, <1>4, <1>5 DEF Authorized, y, f

LEMMA TouchesSelf ==
    ASSUME NEW x \in State, NEW k
    PROVE  Touches(x, x, k)
    BY DEF Touches

\* isAuthorized(): the socket is as it was, or gone.
LEMMA CheckedIs ==
    ASSUME NEW x \in State, NEW k \in Sockets, NEW hd, Sound(x, k, hd)
    PROVE  /\ Touches(x, Checked(x, k), k) /\ Sound(Checked(x, k), k, hd)
           /\ Authorized(x, k) => Checked(x, k) = x
           /\ ~Authorized(x, k) => ~Authorized(Checked(x, k), k)
           /\ k \in Checked(x, k).connections => k \in x.connections
  <1>1. CASE Open(x, k) /\ ~InTime(x, k)
    <2>1. Checked(x, k) = Closed(forget(x, k), k)
      BY <1>1 DEF Checked
    <2> QED BY <1>1, <2>1, LeftIs DEF Authorized
  <1>2. CASE ~(Open(x, k) /\ ~InTime(x, k))
    <2>1. Checked(x, k) = x
      BY <1>2 DEF Checked
    <2> QED BY <2>1, TouchesSelf
  <1> QED BY <1>1, <1>2

\* Socket k is put at s; the rest stays.
Put(x, k, s) == [x EXCEPT !.sock[k] = s]

LEMMA PutIs ==
    ASSUME NEW x \in State, NEW k \in Sockets, NEW s \in Socket
    PROVE  /\ Put(x, k, s) \in State /\ Kept(x, Put(x, k, s)) /\ Put(x, k, s).sock[k] = s
           /\ (/\ s.deadline = x.sock[k].deadline
               /\ s.got # x.sock[k].got => now < x.sock[k].deadline) => Touches(x, Put(x, k, s), k)
  <1> DEFINE y == Put(x, k, s)
  <1>1. /\ y.sock = [x.sock EXCEPT ![k] = s]
        /\ y.connections = x.connections /\ y.members = x.members /\ y \in State
    BY DEF Put, State
  <1> HIDE DEF y
  <1>2. y.sock[k] = s /\ \A j \in Sockets \ {k} : y.sock[j] = x.sock[j]
    BY <1>1 DEF State
  <1> QED BY <1>1, <1>2 DEF Touches, Kept, y

\* What a send needs of a socket and keeps: both cursors stand for what it has.
Fit(s, hd) == s \in Socket /\ Held(s, hd) /\ Backed(s, hd)

\* The frame is the same socket's.
Alive(s, t) == t.state = s.state /\ t.deadline = s.deadline

LEMMA AttachIs ==
    ASSUME NEW hd \in 0..MaxHead, NEW s, Fit(s, hd), NEW at \in 0..hd, Covers(s, at)
    PROVE  /\ Fit(Attach(s, at), hd) /\ Alive(s, Attach(s, at))
           /\ Attach(s, at).cursor = s.cursor /\ Attach(s, at).lags = s.lags
           /\ Attach(s, at).got = s.got
  <1> USE AuthorityAssumption
  <1> DEFINE v == IF adapter = "durable" THEN at ELSE s.attached
             t == Attach(s, at)
  <1>1. s \in Socket /\ Held(s, hd) /\ Backed(s, hd)
    BY DEF Fit
  <1>2. v \in 0..MaxHead /\ v <= hd /\ Covers(s, v)
    BY <1>1 DEF Held, Socket
  <1>3. t = [s EXCEPT !.attached = v]
    BY DEF Attach
  <1> HIDE DEF v, t
  <1>4. /\ t \in Socket /\ t.attached = v /\ t.cursor = s.cursor /\ t.lags = s.lags
        /\ t.got = s.got /\ t.unacked = s.unacked
        /\ t.state = s.state /\ t.deadline = s.deadline
    BY <1>1, <1>2, <1>3 DEF Socket
  <1>5. Held(t, hd) /\ Backed(t, hd)
    BY <1>1, <1>2, <1>4 DEF Held, Backed, Covers
  <1> QED BY <1>4, <1>5 DEF Fit, Alive, t

\* Positions up to p are out and counted.
LEMMA ThroughIs ==
    ASSUME NEW hd \in 0..MaxHead, NEW s, Fit(s, hd), NEW p \in 0..hd, NEW t \in Through(s, p)
    PROVE  /\ Fit(t, hd) /\ Alive(s, t)
           /\ t.cursor = IF p <= s.cursor THEN s.cursor ELSE p
  <1> USE AuthorityAssumption
  <1>0. s \in Socket /\ s.cursor \in Nat /\ s.cursor <= hd
    BY DEF Fit, Backed, Socket
  <1>1. CASE p <= s.cursor
    BY <1>1 DEF Through, Alive
  <1>2. CASE ~(p <= s.cursor)
    <2> DEFINE u == [s EXCEPT !.cursor = p, !.got = @ \cup (s.cursor + 1)..p]
    <2>1. /\ u \in Socket /\ u.cursor = p /\ u.got = s.got \cup (s.cursor + 1)..p
          /\ u.unacked = s.unacked /\ u.attached = s.attached /\ u.lags = s.lags
          /\ u.state = s.state /\ u.deadline = s.deadline
      <3>1. p \in 0..MaxHead /\ s.got \cup (s.cursor + 1)..p \in SUBSET (1..MaxHead)
        BY <1>0 DEF Socket
      <3> QED BY <1>0, <3>1 DEF Socket
    <2>2. PICK at \in {p - 1, s.cursor} : t = Attach(u, at)
      BY <1>2 DEF Through
    <2> HIDE DEF u
    <2>3. Covers(s, s.cursor) /\ Covers(s, s.attached) /\ s.attached <= hd
      BY DEF Fit, Held, Backed
    <2>4. Covers(u, p)
      <3>1. \A i \in 1..p : i \in 1..s.cursor \/ i \in (s.cursor + 1)..p
        BY <1>0
      <3> QED BY <2>1, <2>3, <3>1 DEF Covers
    <2>5. Fit(u, hd)
      BY <2>1, <2>3, <2>4 DEF Fit, Held, Backed, Covers
    <2>6. at \in 0..hd /\ at <= p
      BY <1>0, <1>2
    <2>7. Covers(u, at)
      <3>1. 1..at \subseteq 1..p
        BY <2>6
      <3> QED BY <2>4, <3>1 DEF Covers
    <2>8. Fit(t, hd) /\ Alive(u, t) /\ t.cursor = u.cursor
      BY <2>2, <2>5, <2>6, <2>7, AttachIs
    <2> QED BY <1>2, <2>1, <2>8 DEF Alive
  <1> QED BY <1>1, <1>2

\* Frames went out that nobody counted.
LEMMA BrokenOffIs ==
    ASSUME NEW hd \in 0..MaxHead, NEW s, Fit(s, hd), NEW t \in BrokenOff(s, hd)
    PROVE  Fit(t, hd) /\ Alive(s, t)
  <1> USE AuthorityAssumption
  <1>0. s \in Socket /\ s.cursor \in Nat /\ s.cursor <= hd
    BY DEF Fit, Backed, Socket
  <1>1. CASE \E p \in s.cursor..hd : t \in Through(s, p)
    <2>1. PICK p \in s.cursor..hd : t \in Through(s, p)
      BY <1>1
    <2>2. p \in 0..hd
      BY <1>0
    <2> QED BY <2>1, <2>2, ThroughIs
  <1>2. CASE \E p \in s.cursor..(hd - 1) : \E u \in Through(s, p) : \E q \in p..hd :
                t = Attach([u EXCEPT !.got = @ \cup (p + 1)..q], p)
    <2>0. PICK p \in s.cursor..(hd - 1) : \E v \in Through(s, p) : \E r \in p..hd :
                t = Attach([v EXCEPT !.got = @ \cup (p + 1)..r], p)
      BY <1>2
    <2>1. PICK u \in Through(s, p), q \in p..hd :
                t = Attach([u EXCEPT !.got = @ \cup (p + 1)..q], p)
      BY <2>0
    <2>2. p \in 0..hd
      BY <1>0
    <2>3. Fit(u, hd) /\ Alive(s, u) /\ u.cursor = p
      BY <1>0, <2>1, <2>2, ThroughIs
    <2> DEFINE w == [u EXCEPT !.got = @ \cup (p + 1)..q]
    <2>4. /\ w \in Socket /\ u.got \subseteq w.got
          /\ w.unacked = u.unacked /\ w.attached = u.attached /\ w.cursor = u.cursor
          /\ w.state = u.state /\ w.deadline = u.deadline
      <3>1. u \in Socket
        BY <2>3 DEF Fit
      <3>2. u.got \cup (p + 1)..q \in SUBSET (1..MaxHead)
        BY <3>1, <2>2 DEF Socket
      <3> QED BY <3>1, <3>2 DEF Socket
    <2> HIDE DEF w
    <2>5. Fit(w, hd) /\ Covers(w, p)
      BY <2>3, <2>4 DEF Fit, Held, Backed, Covers
    <2>6. Fit(t, hd) /\ Alive(w, t)
      BY <2>1, <2>2, <2>5, AttachIs DEF w
    <2> QED BY <2>3, <2>4, <2>6 DEF Alive
  <1>3. \/ \E p \in s.cursor..hd : t \in Through(s, p)
        \/ \E p \in s.cursor..(hd - 1) : \E u \in Through(s, p) : \E q \in p..hd :
                t = Attach([u EXCEPT !.got = @ \cup (p + 1)..q], p)
    <2> DEFINE Q(p) == {r \in p..hd : r <= p + 1 \/ (p = s.cursor /\ r <= head)}
               W(p) == {Attach([u EXCEPT !.got = @ \cup (p + 1)..q], p) : u \in Through(s, p), q \in Q(p)}
    <2>0. BrokenOff(s, hd) = (UNION {Through(s, p) : p \in s.cursor..hd}) \cup
                             (UNION {W(p) : p \in s.cursor..(hd - 1)})
      BY DEF BrokenOff
    <2> HIDE DEF W
    <2>1. \/ t \in UNION {Through(s, p) : p \in s.cursor..hd}
          \/ t \in UNION {W(p) : p \in s.cursor..(hd - 1)}
      BY <2>0
    <2>2. CASE t \in UNION {Through(s, p) : p \in s.cursor..hd}
      BY <2>2
    <2>3. CASE t \in UNION {W(p) : p \in s.cursor..(hd - 1)}
      <3>1. PICK p \in s.cursor..(hd - 1) : t \in W(p)
        BY <2>3
      <3> USE DEF W
      <3>2. PICK u \in Through(s, p), q \in Q(p) : t = Attach([u EXCEPT !.got = @ \cup (p + 1)..q], p)
        BY <3>1
      <3> QED BY <3>2
    <2> QED BY <2>1, <2>2, <2>3
  <1> QED BY <1>1, <1>2, <1>3

\* deliver() up to n: an authorized socket keeps what its cursors stand for, and
\* is at n unless storage broke it off.
DeliversTo(x, y, k, n, breaks) ==
    /\ Touches(x, y, k) /\ Sound(y, k, n)
    /\ Authorized(y, k) => Authorized(x, k)
    /\ k \in y.connections => k \in x.connections
    /\ (Open(x, k) => InTime(x, k)) => y.sock[k].state = x.sock[k].state
    /\ Authorized(x, k) =>
          /\ Kept(x, y) /\ Fit(y.sock[k], n) /\ y.sock[k].lags = breaks
          /\ breaks = FALSE => y.sock[k].cursor = n

LEMMA UnsentIs ==
    ASSUME NEW x \in State, NEW k \in Sockets, NEW hd, Sound(x, k, hd), ~Authorized(x, k),
           NEW y, y = Unsent(x, k) \/ y = x
    PROVE  /\ y \in State /\ Touches(x, y, k) /\ Sound(y, k, hd) /\ ~Authorized(y, k)
           /\ k \in y.connections => k \in x.connections
           /\ (Open(x, k) => InTime(x, k)) => y.sock[k].state = x.sock[k].state
  <1>1. y = Checked(x, k) \/ y = x
    BY DEF Unsent
  <1>2. CASE y = x
    BY <1>2, TouchesSelf
  <1>3. CASE y = Checked(x, k)
    <2>1. /\ Touches(x, y, k) /\ Sound(y, k, hd) /\ ~Authorized(y, k)
          /\ k \in y.connections => k \in x.connections
      BY <1>3, CheckedIs
    <2>2. (Open(x, k) => InTime(x, k)) => y = x
      BY <1>3 DEF Checked
    <2> QED BY <2>1, <2>2 DEF Touches
  <1> QED BY <1>1, <1>2, <1>3

LEMMA DeliveredIs ==
    ASSUME NEW x \in State, NEW k \in Sockets, NEW n \in 1..MaxHead, NEW breaks \in BOOLEAN,
           Sound(x, k, n), Authorized(x, k) => Fit(x.sock[k], n),
           NEW y \in Delivered(x, k, n, breaks)
    PROVE  DeliversTo(x, y, k, n, breaks)
  <1> USE AuthorityAssumption
  <1> DEFINE s == x.sock[k]
  <1>0. s \in Socket /\ s.cursor \in Nat /\ n \in 0..MaxHead
    BY SocketIs
  <1>1. CASE Authorized(x, k)
    <2>0. Fit(s, n)
      BY <1>1
    <2>1. PICK t \in (IF breaks THEN BrokenOff(s, n) ELSE Through(s, n)) :
              y = Put(x, k, [t EXCEPT !.lags = breaks])
      BY <1>1 DEF Delivered, Sendable, Put
    <2>2. Fit(t, n) /\ Alive(s, t) /\ (breaks = FALSE => t.cursor = n)
      <3>1. CASE breaks = TRUE
        BY <1>0, <2>0, <2>1, <3>1, BrokenOffIs
      <3>2. CASE breaks = FALSE
        <4>1. n \in 0..n /\ s.cursor <= n
          BY <2>0 DEF Fit, Backed
        <4>2. t \in Through(s, n)
          BY <2>1, <3>2
        <4>3. Fit(t, n) /\ Alive(s, t) /\ t.cursor = IF n <= s.cursor THEN s.cursor ELSE n
          BY <1>0, <2>0, <4>1, <4>2, ThroughIs
        <4> QED BY <1>0, <4>1, <4>3
      <3> QED BY <3>1, <3>2
    <2> DEFINE u == [t EXCEPT !.lags = breaks]
    <2>3. /\ u \in Socket /\ u.lags = breaks /\ u.cursor = t.cursor
          /\ u.got = t.got /\ u.unacked = t.unacked /\ u.attached = t.attached
          /\ u.state = t.state /\ u.deadline = t.deadline
      BY <2>2 DEF Fit, Socket
    <2> HIDE DEF u
    <2>4. Fit(u, n) /\ Alive(s, u)
      BY <2>2, <2>3 DEF Fit, Held, Backed, Covers, Alive
    <2>5. y = Put(x, k, u)
      BY <2>1 DEF u
    <2>6. now < s.deadline
      BY <1>1 DEF Authorized, InTime
    <2>7. y \in State /\ Kept(x, y) /\ y.sock[k] = u /\ Touches(x, y, k)
      BY <2>3, <2>4, <2>5, <2>6, PutIs DEF Alive
    <2>8. Sound(y, k, n)
      BY <2>4, <2>7 DEF Sound, Kept, Fit, Alive
    <2> QED BY <1>1, <2>2, <2>3, <2>4, <2>7, <2>8 DEF DeliversTo, Kept, Alive
  <1>2. CASE ~Authorized(x, k)
    <2>1. \/ y = x
          \/ \E p \in 0..MaxHead : y = Put(Unsent(x, k), k, [Unsent(x, k).sock[k] EXCEPT !.cursor = p])
      BY <1>0, <1>2 DEF Delivered, Sendable, Put
    <2>2. CASE y = x
      BY <1>2, <2>2, TouchesSelf DEF DeliversTo
    <2>3. CASE \E p \in 0..MaxHead : y = Put(Unsent(x, k), k, [Unsent(x, k).sock[k] EXCEPT !.cursor = p])
      <3> DEFINE z == Unsent(x, k)
      <3>1. PICK p \in 0..MaxHead : y = Put(z, k, [z.sock[k] EXCEPT !.cursor = p])
        BY <2>3
      <3>2. /\ z \in State /\ Touches(x, z, k) /\ Sound(z, k, n) /\ ~Authorized(z, k)
            /\ k \in z.connections => k \in x.connections
            /\ (Open(x, k) => InTime(x, k)) => z.sock[k].state = x.sock[k].state
        BY <1>2, UnsentIs
      <3> HIDE DEF z
      <3> DEFINE u == [z.sock[k] EXCEPT !.cursor = p]
      <3>3. /\ u \in Socket /\ u.got = z.sock[k].got /\ u.unacked = z.sock[k].unacked
            /\ u.attached = z.sock[k].attached
            /\ u.state = z.sock[k].state /\ u.deadline = z.sock[k].deadline
        <4>1. z.sock[k] \in Socket
          BY <3>2, SocketIs
        <4> QED BY <4>1 DEF Socket
      <3>4. y = Put(z, k, u)
        BY <3>1
      <3> HIDE DEF u
      <3>5. Kept(z, y) /\ y.sock[k] = u /\ Touches(z, y, k)
        BY <3>2, <3>3, <3>4, PutIs
      <3>6. Sound(y, k, n) /\ ~Authorized(y, k)
        BY <3>2, <3>3, <3>5 DEF Sound, Held, Covers, Kept, Authorized, Open, InTime
      <3>7. Touches(x, y, k)
        BY <3>2, <3>5, TouchesTwice
      <3> QED BY <1>2, <3>2, <3>3, <3>5, <3>6, <3>7 DEF DeliversTo, Kept
    <2> QED BY <2>1, <2>2, <2>3
  <1> QED BY <1>1, <1>2

\* A frame without history takes the cursor along.
LEMMA FramedIs ==
    ASSUME NEW x \in State, NEW k \in Sockets, NEW hd \in 1..MaxHead,
           Sound(x, k, hd), Authorized(x, k) => Fit(x.sock[k], hd)
    PROVE  LET y == Framed(x, k)
           IN  /\ Touches(x, y, k) /\ Sound(y, k, hd)
               /\ Authorized(y, k) => Authorized(x, k)
               /\ Authorized(x, k) => /\ Kept(x, y) /\ Fit(y.sock[k], hd)
                                      /\ y.sock[k].cursor = x.sock[k].cursor
                                      /\ y.sock[k].lags = x.sock[k].lags
  <1> USE AuthorityAssumption
  <1> DEFINE s == x.sock[k]
             y == Framed(x, k)
  <1>1. CASE Authorized(x, k)
    <2> DEFINE t == Attach(s, s.cursor)
    <2>1. y = Put(x, k, t)
      BY <1>1 DEF Framed, Sendable, Put
    <2>2. Fit(s, hd) /\ s.cursor \in 0..hd /\ Covers(s, s.cursor) /\ hd \in 0..MaxHead
      BY <1>1 DEF Fit, Backed, Socket
    <2>3. Fit(t, hd) /\ Alive(s, t) /\ t.cursor = s.cursor /\ t.lags = s.lags /\ t.got = s.got
      BY <2>2, AttachIs
    <2> HIDE DEF t, y
    <2>4. Kept(x, y) /\ y.sock[k] = t /\ Touches(x, y, k)
      BY <2>1, <2>3, PutIs DEF Fit, Alive
    <2>5. Sound(y, k, hd)
      BY <2>3, <2>4 DEF Sound, Kept, Fit, Alive
    <2> QED BY <1>1, <2>3, <2>4, <2>5 DEF y
  <1>2. CASE ~Authorized(x, k)
    <2>1. y = Unsent(x, k)
      BY <1>2 DEF Framed, Sendable
    <2> QED BY <1>2, <2>1, UnsentIs
  <1> QED BY <1>1, <1>2

\* What is sound against a log is sound against a longer one.
LEMMA SoundGrows ==
    ASSUME NEW x \in State, NEW k \in Sockets, NEW hd \in Nat, Sound(x, k, hd)
    PROVE  /\ Sound(x, k, hd + 1)
           /\ Reached(x, k, hd) => Reached(x, k, hd + 1)
           /\ Fit(x.sock[k], hd) => Fit(x.sock[k], hd + 1)
  <1>1. x.sock[k].attached \in Nat /\ x.sock[k].cursor \in Nat
    BY SocketIs
  <1> QED BY <1>1 DEF Sound, Held, Reached, Backed, Fit

\* The socket of a served connection can be sent to.
LEMMA ReachedIsFit ==
    ASSUME NEW x \in State, NEW k \in Sockets, NEW hd, Sound(x, k, hd), Reached(x, k, hd),
           Authorized(x, k)
    PROVE  Fit(x.sock[k], hd)
    BY SocketIs DEF Sound, Reached, Fit

\* The ack of entry hd + 1, sent or swallowed: k stands at the head.
LEMMA AckedIs ==
    ASSUME NEW x \in State, NEW k \in Sockets, NEW hd \in 1..MaxHead, hd + 1 \in 1..MaxHead,
           NEW swallowed \in BOOLEAN,
           Sound(x, k, hd), Reached(x, k, hd), Authorized(x, k) => x.sock[k].cursor = hd
    PROVE  LET y == Acked(x, k, hd + 1, swallowed)
           IN  Touches(x, y, k) /\ Sound(y, k, hd + 1) /\ Served(y, k, hd + 1)
  <1> USE AuthorityAssumption
  <1> DEFINE n == hd + 1
             s == x.sock[k]
             y == Acked(x, k, n, swallowed)
  <1>0. /\ s \in Socket /\ n \in 0..MaxHead /\ n \in 1..MaxHead /\ hd < n /\ Sound(x, k, n)
        /\ 1..n \subseteq (1..hd) \cup {n} /\ Held(s, n)
    <2>1. Sound(x, k, n)
      BY SoundGrows
    <2> QED BY <2>1, SocketIs DEF Sound
  <1>1. CASE swallowed = TRUE
    <2> DEFINE r == [s EXCEPT !.cursor = n, !.lags = FALSE]
               t == [r EXCEPT !.unacked = @ \cup {n}]
    <2>1. y = Put(x, k, t)
      BY <1>1 DEF Acked, Put
    <2> HIDE DEF n, y
    <2>2. /\ t \in Socket /\ t.cursor = n /\ t.unacked = s.unacked \cup {n} /\ t.got = s.got
          /\ t.attached = s.attached /\ t.state = s.state /\ t.deadline = s.deadline
      <3>1. s.unacked \cup {n} \in SUBSET (1..MaxHead) /\ s.got \cup {n} \in SUBSET (1..MaxHead)
        BY <1>0 DEF Socket
      <3> QED BY <1>0, <3>1 DEF Socket
    <2> HIDE DEF t
    <2>3. Kept(x, y) /\ y.sock[k] = t /\ Touches(x, y, k)
      BY <2>1, <2>2, PutIs
    <2>4. Sound(y, k, n)
      BY <1>0, <2>2, <2>3 DEF Sound, Held, Covers, Kept
    <2>5. Authorized(y, k) => Authorized(x, k)
      BY <2>2, <2>3 DEF Authorized, Open, InTime
    <2>6. Authorized(x, k) => Backed(t, n)
      <3> SUFFICES ASSUME Authorized(x, k) PROVE Backed(t, n)
        OBVIOUS
      <3>1. Covers(s, hd)
        BY DEF Reached, Backed
      <3> QED BY <1>0, <2>2, <3>1 DEF Backed, Covers
    <2>7. Served(y, k, n)
      BY <2>2, <2>3, <2>5, <2>6 DEF Served, Reached, Kept
    <2> QED BY <2>3, <2>4, <2>7 DEF y, n
  <1>2. CASE swallowed = FALSE /\ Authorized(x, k)
    <2> DEFINE r == [s EXCEPT !.cursor = n, !.lags = FALSE]
               t == [r EXCEPT !.got = @ \cup {n}]
               u == Attach(t, n)
    <2>1. y = Put(x, k, u)
      BY <1>2 DEF Acked, Put, Sendable
    <2> HIDE DEF n, y
    <2>2. /\ t \in Socket /\ t.cursor = n /\ t.unacked = s.unacked /\ t.got = s.got \cup {n}
          /\ t.attached = s.attached /\ t.state = s.state /\ t.deadline = s.deadline
      <3>1. s.unacked \cup {n} \in SUBSET (1..MaxHead) /\ s.got \cup {n} \in SUBSET (1..MaxHead)
        BY <1>0 DEF Socket
      <3> QED BY <1>0, <3>1 DEF Socket
    <2> HIDE DEF t
    <2>3. Covers(s, hd)
      BY <1>2 DEF Reached, Backed
    <2>4. Covers(t, n)
      BY <1>0, <2>2, <2>3 DEF Covers
    <2>5. Fit(t, n)
      BY <1>0, <2>2, <2>4 DEF Fit, Held, Backed, Covers
    <2>6. Fit(u, n) /\ Alive(t, u) /\ u.cursor = n
      <3>1. n \in 0..n
        BY <1>0
      <3> QED BY <1>0, <2>2, <2>4, <2>5, <3>1, AttachIs
    <2> HIDE DEF u
    <2>7. now < s.deadline
      BY <1>2 DEF Authorized, InTime
    <2>8. Kept(x, y) /\ y.sock[k] = u /\ Touches(x, y, k)
      BY <2>1, <2>2, <2>6, <2>7, PutIs DEF Fit, Alive
    <2>9. Sound(y, k, n)
      BY <1>0, <2>2, <2>6, <2>8 DEF Sound, Fit, Kept, Alive
    <2>10. Served(y, k, n)
      BY <1>2, <2>6, <2>8 DEF Served, Reached, Kept, Fit
    <2> QED BY <2>8, <2>9, <2>10 DEF y, n
  <1>3. CASE swallowed = FALSE /\ ~Authorized(x, k)
    <2> DEFINE z == Unsent(x, k)
               t == [z.sock[k] EXCEPT !.cursor = n]
    <2>1. y = Put(z, k, t)
      BY <1>3 DEF Acked, Put, Sendable
    <2>2. z \in State /\ Touches(x, z, k) /\ Sound(z, k, n) /\ ~Authorized(z, k)
      BY <1>0, <1>3, UnsentIs
    <2> HIDE DEF n, y, z
    <2>3. /\ t \in Socket /\ t.unacked = z.sock[k].unacked /\ t.got = z.sock[k].got
          /\ t.attached = z.sock[k].attached
          /\ t.state = z.sock[k].state /\ t.deadline = z.sock[k].deadline
      <3>1. z.sock[k] \in Socket
        BY <2>2, SocketIs
      <3> QED BY <1>0, <3>1 DEF Socket
    <2> HIDE DEF t
    <2>4. Kept(z, y) /\ y.sock[k] = t /\ Touches(z, y, k)
      BY <2>1, <2>2, <2>3, PutIs
    <2>5. Sound(y, k, n) /\ ~Authorized(y, k)
      BY <2>2, <2>3, <2>4 DEF Sound, Held, Covers, Kept, Authorized, Open, InTime
    <2> QED BY <2>2, <2>4, <2>5, TouchesTwice DEF Served, Reached, y, n
  <1> QED BY <1>1, <1>2, <1>3

\* Another field of the socket is set; what the invariant reads of it stays.
Same(x, y, k) ==
    /\ Touches(x, y, k)
    /\ y.sock[k].cursor = x.sock[k].cursor /\ y.sock[k].attached = x.sock[k].attached
    /\ y.sock[k].got = x.sock[k].got /\ y.sock[k].unacked = x.sock[k].unacked
    /\ y.sock[k].lags = x.sock[k].lags /\ y.sock[k].deadline = x.sock[k].deadline

Turned(x, k, v) == [x EXCEPT !.sock[k].state = v]

LEMMA TurnedIs ==
    ASSUME NEW x \in State, NEW k \in Sockets, NEW v \in {"none", "open", "lost", "closed"}
    PROVE  /\ Same(x, Turned(x, k, v), k) /\ Kept(x, Turned(x, k, v))
           /\ Turned(x, k, v).sock[k].state = v
  <1> DEFINE y == Turned(x, k, v)
  <1>1. x.sock[k] \in Socket
    BY DEF State
  <1>2. /\ y.sock = [x.sock EXCEPT ![k].state = v]
        /\ y.connections = x.connections /\ y.members = x.members /\ y \in State
    BY <1>1 DEF Turned, State, Socket
  <1> HIDE DEF y
  <1>3. y.sock[k] = [x.sock[k] EXCEPT !.state = v] /\ \A j \in Sockets \ {k} : y.sock[j] = x.sock[j]
    BY <1>2 DEF State
  <1> QED BY <1>1, <1>2, <1>3 DEF Touches, Same, Kept, y, Socket

Told(x, k, v) == [x EXCEPT !.sock[k].told = v]

LEMMA ToldIs ==
    ASSUME NEW x \in State, NEW k \in Sockets, NEW v \in {"none", "admitted", "retired"}
    PROVE  /\ Same(x, Told(x, k, v), k) /\ Kept(x, Told(x, k, v))
           /\ Told(x, k, v).sock[k].state = x.sock[k].state
  <1> DEFINE y == Told(x, k, v)
  <1>1. x.sock[k] \in Socket
    BY DEF State
  <1>2. /\ y.sock = [x.sock EXCEPT ![k].told = v]
        /\ y.connections = x.connections /\ y.members = x.members /\ y \in State
    BY <1>1 DEF Told, State, Socket
  <1> HIDE DEF y
  <1>3. y.sock[k] = [x.sock[k] EXCEPT !.told = v] /\ \A j \in Sockets \ {k} : y.sock[j] = x.sock[j]
    BY <1>2 DEF State
  <1> QED BY <1>1, <1>2, <1>3 DEF Touches, Same, Kept, y, Socket

\* Of the two cursors the invariant says the same.
LEMMA SameIs ==
    ASSUME NEW x, NEW y, NEW k, Same(x, y, k), NEW hd
    PROVE  /\ Held(x.sock[k], hd) <=> Held(y.sock[k], hd)
           /\ Backed(x.sock[k], hd) <=> Backed(y.sock[k], hd)
    BY DEF Same, Held, Backed, Covers

Joined(x, k) == [x EXCEPT !.members = @ \cup {k}, !.connections = @ \cup {k}]

LEMMA JoinedIs ==
    ASSUME NEW x \in State, NEW k \in Sockets
    PROVE  /\ Same(x, Joined(x, k), k) /\ k \in Joined(x, k).members /\ k \in Joined(x, k).connections
           /\ Joined(x, k).sock = x.sock
  <1> DEFINE z == Joined(x, k)
  <1>1. /\ z.sock = x.sock /\ z.members = x.members \cup {k} /\ z.connections = x.connections \cup {k}
        /\ z \in State
    BY DEF State, Joined
  <1> HIDE DEF z
  <1> QED BY <1>1 DEF Touches, Same, z

\* What adopt() is given: a sound socket that it may catch up from its cursor.
Adoptable(x, k) ==
    /\ Sound(x, k, head)
    /\ adapter \in {"durable", "bun"}
    /\ adapter = "bun" => Authorized(x, k)
    /\ k \in x.connections => Served(x, k, head)
    /\ Backed(x.sock[k], head) \/ ~Authorized(x, k) \/ k \in x.connections

\* What a handler leaves: only k is touched, and k is sound and served.
Handled(x, y, k) == Touches(x, y, k) /\ Sound(y, k, head) /\ Served(y, k, head)

LEMMA ClosedUnknown ==
    ASSUME NEW x \in State, NEW k \in Sockets, Sound(x, k, head), k \notin x.connections
    PROVE  Handled(x, Closed(x, k), k)
  <1> DEFINE y == Closed(x, k)
  <1>1. /\ Touches(x, y, k) /\ ~Open(y, k)
        /\ Held(x.sock[k], head) => Held(y.sock[k], head)
        /\ y.connections = x.connections /\ y.members = x.members
    BY ClosedIs
  <1> HIDE DEF y
  <1>2. Sound(y, k, head) /\ Served(y, k, head)
    BY <1>1 DEF Sound, Served, Reached, Authorized
  <1> QED BY <1>1, <1>2 DEF Handled, y

\* A socket the hub does not know is told v and closed.
LEMMA ToldAndClosed ==
    ASSUME NEW x \in State, NEW k \in Sockets, NEW v \in {"none", "admitted", "retired"},
           Sound(x, k, head), k \notin x.connections
    PROVE  Handled(x, Closed(Told(x, k, v), k), k)
  <1> DEFINE t == Told(x, k, v)
             z == Closed(t, k)
  <1>1. Same(x, t, k) /\ Kept(x, t) /\ t.sock[k].state = x.sock[k].state
    BY ToldIs
  <1> HIDE DEF t
  <1>2. t \in State /\ Touches(x, t, k) /\ k \notin t.connections
    BY <1>1 DEF Same, Touches, Kept
  <1>3. Sound(t, k, head)
    BY <1>1, SameIs DEF Sound, Kept
  <1>4. Handled(t, z, k)
    BY <1>2, <1>3, ClosedUnknown
  <1> HIDE DEF z
  <1> QED BY <1>2, <1>4, TouchesTwice DEF Handled, z, t

\* Membership after a catch-up that went through.
LEMMA JoinedAfterCatchUp ==
    ASSUME NEW m \in State, NEW k \in Sockets, adapter \in {"durable", "bun"},
           Sound(m, k, head), m.sock[k].state \in {"open", "lost"},
           Authorized(m, k) => Backed(m.sock[k], head) /\ m.sock[k].cursor = head
    PROVE  Handled(m, StillAuthorized(Joined(Told(m, k, "admitted"), k), k), k)
  <1> DEFINE t == Told(m, k, "admitted")
             j == Joined(t, k)
             z == StillAuthorized(j, k)
  <1>1. Same(m, t, k) /\ t.sock[k].state = m.sock[k].state
    BY ToldIs
  <1> HIDE DEF t
  <1>2. t \in State /\ Touches(m, t, k)
    BY <1>1 DEF Same, Touches
  <1>3. Same(t, j, k) /\ k \in j.members /\ k \in j.connections /\ j.sock = t.sock
    BY <1>2, JoinedIs
  <1> HIDE DEF j
  <1>4. j \in State /\ Touches(m, j, k)
    <2>1. j \in State /\ Touches(t, j, k)
      BY <1>3 DEF Same, Touches
    <2> QED BY <1>2, <2>1, TouchesTwice
  <1>5. Same(m, j, k) /\ j.sock[k].state = m.sock[k].state
    BY <1>1, <1>3, <1>4 DEF Same
  <1>6. Sound(j, k, head)
    BY <1>3, <1>5, SameIs DEF Sound
  <1>7. Authorized(j, k) => Authorized(m, k)
    BY <1>5 DEF Same, Authorized, Open, InTime
  <1>8. Backed(m.sock[k], head) => Backed(j.sock[k], head)
    BY <1>5, SameIs
  <1>9. Served(j, k, head)
    BY <1>3, <1>5, <1>7, <1>8 DEF Served, Reached, Same
  <1>10. CASE adapter = "bun" \/ Authorized(j, k)
    BY <1>10, <1>4, <1>6, <1>9 DEF StillAuthorized, Handled, j, t
  <1>11. CASE ~(adapter = "bun" \/ Authorized(j, k))
    <2>1. z = forget(j, k)
      BY <1>11 DEF StillAuthorized
    <2> HIDE DEF z
    <2>2. /\ Touches(j, z, k) /\ z.sock = j.sock
          /\ k \notin z.connections /\ k \notin z.members
      BY <2>1, <1>4, <1>6, ForgetIs DEF Sound
    <2>3. Sound(z, k, head) /\ ~Authorized(z, k)
      BY <2>2, <1>6, <1>11 DEF Sound, Authorized, Open, InTime
    <2>4. Touches(m, z, k)
      BY <2>2, <1>4, TouchesTwice
    <2> QED BY <2>3, <2>4 DEF Handled, Served, Reached, z, j, t
  <1> QED BY <1>10, <1>11

LEMMA AdoptIs ==
    ASSUME NEW x \in State, NEW k \in Sockets, NEW dies \in BOOLEAN, NEW fails \in BOOLEAN,
           head \in 1..MaxHead, Adoptable(x, k), NEW z \in adopt(x, k, dies, fails)
    PROVE  Handled(x, z, k)
  <1>0. Sound(x, k, head) /\ adapter \in {"durable", "bun"}
    BY DEF Adoptable
  <1>1. CASE adapter = "durable" /\ ~Authorized(x, k)
    <2>1. z = Checked(x, k)
      BY <1>1 DEF adopt
    <2> QED BY <1>0, <1>1, <2>1, CheckedIs DEF Handled, Served, Reached
  <1>2. CASE ~(adapter = "durable" /\ ~Authorized(x, k)) /\ k \in x.connections
    <2>1. z = x
      BY <1>2 DEF adopt
    <2>2. Served(x, k, head)
      BY <1>2 DEF Adoptable
    <2> QED BY <1>0, <2>1, <2>2, TouchesSelf DEF Handled
  <1>3. CASE ~(adapter = "durable" /\ ~Authorized(x, k)) /\ k \notin x.connections
    <2>0. Authorized(x, k) /\ Backed(x.sock[k], head)
      BY <1>3, <1>0 DEF Adoptable
    <2>1. CASE x.sock[k].gen # Generation
      <3>1. z = Closed(Told(x, k, "retired"), k)
        BY <1>3, <2>1 DEF adopt, Told
      <3> QED BY <1>0, <1>3, <3>1, ToldAndClosed
    <2>2. CASE x.sock[k].gen = Generation
      <3> DEFINE v == IF dies THEN "lost" ELSE x.sock[k].state
                 dead == Turned(x, k, v)
      <3>1. \/ fails = TRUE /\ z = Closed(x, k)
            \/ fails = TRUE /\ \E m \in Delivered(dead, k, head, fails) :
                                    z = Closed(Told(m, k, "admitted"), k)
            \/ fails = FALSE /\ \E m \in Delivered(dead, k, head, fails) :
                                    z = StillAuthorized(Joined(Told(m, k, "admitted"), k), k)
        BY <1>3, <2>2 DEF adopt, Turned, Joined, Told
      <3>2. v \in {"open", "lost"}
        BY <2>0 DEF Authorized, Open
      <3> HIDE DEF v
      <3>3. Same(x, dead, k) /\ Kept(x, dead) /\ dead.sock[k].state = v
        BY <3>2, TurnedIs
      <3> HIDE DEF dead
      <3>4. /\ dead \in State /\ InTime(dead, k) /\ Touches(x, dead, k) /\ k \notin dead.connections
            /\ dead.sock[k] \in Socket
        <4>1. dead \in State
          BY <3>3 DEF Same, Touches
        <4> QED BY <1>3, <2>0, <3>3, <4>1, SocketIs DEF Same, Kept, Authorized, InTime
      <3>5. Sound(dead, k, head) /\ Fit(dead.sock[k], head)
        BY <1>0, <2>0, <3>2, <3>3, <3>4, SameIs DEF Sound, Kept, Fit
      <3>6. ASSUME NEW m \in Delivered(dead, k, head, fails)
            PROVE  /\ DeliversTo(dead, m, k, head, fails)
                   /\ m \in State /\ Touches(x, m, k) /\ k \notin m.connections
                   /\ m.sock[k].state \in {"open", "lost"}
        <4>1. DeliversTo(dead, m, k, head, fails)
          BY <3>4, <3>5, <3>6, DeliveredIs
        <4>2. Touches(dead, m, k) /\ m \in State /\ k \notin m.connections /\ m.sock[k].state = v
          BY <3>3, <3>4, <4>1 DEF DeliversTo, Touches
        <4> QED BY <3>2, <3>4, <4>1, <4>2, TouchesTwice
      <3>7. CASE fails = TRUE /\ z = Closed(x, k)
        BY <3>7, <1>0, <1>3, ClosedUnknown
      <3>8. ASSUME fails = TRUE, NEW m \in Delivered(dead, k, head, fails),
                   z = Closed(Told(m, k, "admitted"), k)
            PROVE  Handled(x, z, k)
        <4>1. Sound(m, k, head) /\ m \in State /\ Touches(x, m, k) /\ k \notin m.connections
          BY <3>6, <3>8 DEF DeliversTo
        <4>2. Handled(m, z, k)
          BY <3>8, <4>1, ToldAndClosed
        <4> QED BY <4>1, <4>2, TouchesTwice DEF Handled
      <3>9. ASSUME fails = FALSE, NEW m \in Delivered(dead, k, head, fails),
                   z = StillAuthorized(Joined(Told(m, k, "admitted"), k), k)
            PROVE  Handled(x, z, k)
        <4>1. /\ DeliversTo(dead, m, k, head, fails)
              /\ m \in State /\ Touches(x, m, k) /\ m.sock[k].state \in {"open", "lost"}
          BY <3>6, <3>9
        <4>2. Sound(m, k, head) /\ (Authorized(m, k) => Backed(m.sock[k], head) /\ m.sock[k].cursor = head)
          BY <3>9, <4>1 DEF DeliversTo, Fit
        <4>3. Handled(m, z, k)
          BY <1>0, <3>9, <4>1, <4>2, JoinedAfterCatchUp
        <4> QED BY <4>1, <4>3, TouchesTwice DEF Handled
      <3> QED BY <3>1, <3>7, <3>8, <3>9
    <2> QED BY <2>1, <2>2
  <1> QED BY <1>1, <1>2, <1>3

-----------------------------------------------------------------------------
(* Loops over the sockets *)

\* Of socket k, y says what g says.
Alike(y, g, k) ==
    /\ y.sock[k] = g.sock[k]
    /\ k \in y.connections <=> k \in g.connections
    /\ k \in y.members <=> k \in g.members

\* What k was sent between x and y it was sent in time.
InTimeOnly(x, y, k) == y.sock[k].got # x.sock[k].got => now < y.sock[k].deadline

Paced(x, y, k) == InTimeOnly(x, y, k) /\ y.sock[k].deadline = x.sock[k].deadline

LEMMA AlikeIs ==
    ASSUME NEW y, NEW g, NEW k, NEW hd, Alike(y, g, k)
    PROVE  /\ Sound(g, k, hd) => Sound(y, k, hd)
           /\ Served(g, k, hd) => Served(y, k, hd)
           /\ \A x : Touches(x, g, k) => Paced(x, y, k)
  <1>1. Sound(g, k, hd) => Sound(y, k, hd)
    BY DEF Alike, Sound
  <1>2. Served(g, k, hd) => Served(y, k, hd)
    BY DEF Alike, Served, Reached, Authorized, Open, InTime
  <1>3. \A x : Touches(x, g, k) => Paced(x, y, k)
    BY DEF Alike, Touches, Paced, InTimeOnly
  <1> QED BY <1>1, <1>2, <1>3

\* scheduleAuthorizationAlarm() closes sockets and disturbs no other.
LEMMA SweptIs ==
    ASSUME NEW x \in State, NEW hd, \A k \in Sockets : Sound(x, k, hd)
    PROVE  /\ Swept(x) \in State
           /\ \A k \in Sockets : /\ Sound(Swept(x), k, hd)
                                 /\ Served(x, k, hd) => Served(Swept(x), k, hd)
                                 /\ Paced(x, Swept(x), k)
  <1> DEFINE y == Swept(x)
  <1>1. \A k \in Sockets : /\ Touches(x, Checked(x, k), k) /\ Sound(Checked(x, k), k, hd)
                           /\ Served(x, k, hd) => Served(Checked(x, k), k, hd)
    BY CheckedIs DEF Served, Reached
  <1>2. \A k \in Sockets : Checked(x, k) \in State
    BY <1>1 DEF Touches
  <1>3. /\ y.sock = [k \in Sockets |-> Checked(x, k).sock[k]]
        /\ y.connections = {k \in Sockets : k \in Checked(x, k).connections}
        /\ y.members = {k \in Sockets : k \in Checked(x, k).members}
        /\ y = [sock |-> y.sock, connections |-> y.connections, members |-> y.members]
    BY DEF Swept, Each
  <1> HIDE DEF y
  <1>4. \A k \in Sockets : Checked(x, k).sock[k] \in Socket
    BY <1>2, SocketIs
  <1>5. y \in State
    BY <1>3, <1>4 DEF State
  <1>6. \A k \in Sockets : Alike(y, Checked(x, k), k)
    BY <1>3 DEF Alike
  <1>7. \A k \in Sockets : /\ Sound(y, k, hd)
                           /\ Served(x, k, hd) => Served(y, k, hd)
                           /\ Paced(x, y, k)
    BY <1>1, <1>6, AlikeIs
  <1> QED BY <1>5, <1>7 DEF y

\* The process closes the sockets K.
LEMMA DroppedIs ==
    ASSUME d \in State, NEW hd, NEW K \in SUBSET Sockets, \A k \in Sockets : Sound(d, k, hd)
    PROVE  /\ Dropped(K) \in State
           /\ \A k \in Sockets : /\ Sound(Dropped(K), k, hd)
                                 /\ Served(d, k, hd) => Served(Dropped(K), k, hd)
                                 /\ Paced(d, Dropped(K), k)
  <1> DEFINE g(k) == IF k \in K THEN Closed(forget(d, k), k) ELSE d
             y == Dropped(K)
  <1>1. \A k \in Sockets : /\ Touches(d, g(k), k) /\ Sound(g(k), k, hd)
                           /\ Served(d, k, hd) => Served(g(k), k, hd)
    BY LeftIs, TouchesSelf DEF Served, Reached
  <1>2. \A k \in Sockets : g(k) \in State
    BY <1>1 DEF Touches
  <1>3. /\ y.sock = [k \in Sockets |-> g(k).sock[k]]
        /\ y.connections = {k \in Sockets : k \in g(k).connections}
        /\ y.members = {k \in Sockets : k \in g(k).members}
        /\ y = [sock |-> y.sock, connections |-> y.connections, members |-> y.members]
    BY DEF Dropped, Each
  <1> HIDE DEF y, g
  <1>4. \A k \in Sockets : g(k).sock[k] \in Socket
    BY <1>2, SocketIs
  <1>5. y \in State
    BY <1>3, <1>4 DEF State
  <1>6. \A k \in Sockets : Alike(y, g(k), k)
    BY <1>3 DEF Alike
  <1>7. \A k \in Sockets : /\ Sound(y, k, hd)
                           /\ Served(d, k, hd) => Served(y, k, hd)
                           /\ Paced(d, y, k)
    BY <1>1, <1>6, AlikeIs
  <1> QED BY <1>5, <1>7 DEF y

\* A loop whose body, at k, came out as f[k].
Looped(x, K, f) == Each(x, K, LAMBDA k : f[k])

LEMMA LoopedIs ==
    ASSUME NEW x \in State, NEW K \in SUBSET Sockets, NEW f, \A k \in K : f[k] \in State
    PROVE  /\ Looped(x, K, f) \in State
           /\ \A k \in K : Alike(Looped(x, K, f), f[k], k)
           /\ \A k \in Sockets \ K : Alike(Looped(x, K, f), x, k)
  <1> DEFINE g(k) == IF k \in K THEN f[k] ELSE x
             y == Looped(x, K, f)
  <1>1. \A k \in Sockets : g(k) \in State
    OBVIOUS
  <1>2. /\ y.sock = [k \in Sockets |-> g(k).sock[k]]
        /\ y.connections = {k \in Sockets : k \in g(k).connections}
        /\ y.members = {k \in Sockets : k \in g(k).members}
        /\ y = [sock |-> y.sock, connections |-> y.connections, members |-> y.members]
    BY DEF Looped, Each
  <1>3. /\ \A k \in K : g(k) = f[k]
        /\ \A k \in Sockets \ K : g(k) = x
    OBVIOUS
  <1> HIDE DEF y, g
  <1>4. \A k \in Sockets : g(k).sock[k] \in Socket
    BY <1>1, SocketIs
  <1>5. y \in State
    BY <1>2, <1>4 DEF State
  <1>6. \A k \in Sockets : Alike(y, g(k), k)
    BY <1>2 DEF Alike
  <1> QED BY <1>3, <1>5, <1>6 DEF y

\* The relays of the new entry: who is authorized has it then, unless storage
\* broke the relay off.
LEMMA RelayedIs ==
    ASSUME NEW x \in State, NEW k \in Sockets, NEW hd \in 1..MaxHead, hd + 1 \in 1..MaxHead,
           \A j \in Sockets \ {k} : Sound(x, j, hd) /\ Reached(x, j, hd),
           Sound(x, k, hd + 1), Served(x, k, hd + 1),
           NEW K \in SUBSET (Sockets \ {k}),
           \A j \in Sockets \ {k} : j \in x.members => j \in K,
           NEW broken, NEW y \in Relayed(x, K, hd + 1, broken)
    PROVE  /\ y \in State
           /\ \A j \in Sockets : /\ Sound(y, j, hd + 1)
                                 /\ Served(y, j, hd + 1)
                                 /\ Paced(x, y, j)
  <1> USE AuthorityAssumption
  <1> DEFINE n == hd + 1
  <1>0. n \in 1..MaxHead /\ hd \in Nat /\ K \in SUBSET Sockets
    OBVIOUS
  <1>1. PICK f : /\ \A j \in K : f[j] \in Delivered(x, j, n, j \in broken)
                 /\ y = Looped(x, K, f)
    <2> DEFINE F(j) == Delivered(x, j, n, j \in broken)
               Outcomes == {f \in [K -> UNION {F(j) : j \in K}] : \A j \in K : f[j] \in F(j)}
    <2>1. y \in {Looped(x, K, f) : f \in Outcomes}
      BY DEF Relayed, EachOf, Looped, Each
    <2> HIDE DEF Outcomes
    <2>2. PICK f \in Outcomes : y = Looped(x, K, f)
      BY <2>1
    <2>3. \A j \in K : f[j] \in F(j)
      BY <2>2 DEF Outcomes
    <2> QED BY <2>2, <2>3
  <1>2. \A j \in Sockets : Sound(x, j, n)
    BY <1>0, SoundGrows
  <1>3. \A j \in Sockets \ {k} : Reached(x, j, n)
    BY <1>0, SoundGrows
  <1> HIDE DEF n
  <1>4. ASSUME NEW j \in K
        PROVE  Touches(x, f[j], j) /\ Sound(f[j], j, n) /\ Served(f[j], j, n)
    <2> DEFINE b == j \in broken
               z == f[j]
    <2>0. j \in Sockets /\ j # k /\ b \in BOOLEAN /\ z \in Delivered(x, j, n, b)
      BY <1>1
    <2> HIDE DEF b, z
    <2>1. Authorized(x, j) => Fit(x.sock[j], n)
      BY <2>0, <1>2, <1>3, ReachedIsFit
    <2>2. DeliversTo(x, z, j, n, b)
      BY <1>0, <1>2, <2>0, <2>1, DeliveredIs
    <2>3. Reached(z, j, n)
      BY <1>3, <2>0, <2>2 DEF DeliversTo, Reached, Kept, Fit
    <2>4. Served(z, j, n)
      BY <2>0, <2>2, <2>3 DEF DeliversTo, Served
    <2> QED BY <2>2, <2>4 DEF DeliversTo, z
  <1>5. \A j \in K : f[j] \in State
    BY <1>4 DEF Touches
  <1>6. /\ y \in State
        /\ \A j \in K : Alike(y, f[j], j)
        /\ \A j \in Sockets \ K : Alike(y, x, j)
    BY <1>0, <1>1, <1>5, LoopedIs
  <1>7. \A j \in K : Sound(y, j, n) /\ Served(y, j, n) /\ Paced(x, y, j)
    BY <1>4, <1>6, AlikeIs
  <1>8. ASSUME NEW j \in Sockets \ K
        PROVE  Sound(y, j, n) /\ Served(y, j, n) /\ Paced(x, y, j)
    <2>1. Served(x, j, n)
      <3>1. CASE j = k
        BY <3>1 DEF n
      <3>2. CASE j # k
        <4>1. Reached(x, j, n) /\ j \notin x.members
          BY <1>3, <3>2
        <4> QED BY <4>1 DEF Served, Reached
      <3> QED BY <3>1, <3>2
    <2> QED BY <1>2, <1>6, <2>1, AlikeIs, TouchesSelf
  <1> QED BY <1>6, <1>7, <1>8 DEF n

\* The constructor: every socket the object still has is adopted at its
\* attachment, so that an authorized one is served again.
Woken(broken) ==
    EachOf(d, {k \in Sockets : Open(d, k)}, LAMBDA k : AdoptedOnWake(d, k, k \in broken))

LEMMA WokenIs ==
    ASSUME d \in State, head \in 1..MaxHead, \A k \in Sockets : Sound(d, k, head),
           adapter = "durable", d.connections = {}, NEW broken,
           NEW y, y \in Woken(broken)
    PROVE  /\ y \in State
           /\ \A k \in Sockets : Sound(y, k, head) /\ Served(y, k, head) /\ Paced(d, y, k)
  <1> DEFINE K == {k \in Sockets : Open(d, k)}
  <1>1. PICK f : /\ \A k \in K : f[k] \in AdoptedOnWake(d, k, k \in broken)
                 /\ y = Looped(d, K, f)
    <2> DEFINE F(k) == AdoptedOnWake(d, k, k \in broken)
               Outcomes == {f \in [K -> UNION {F(k) : k \in K}] : \A k \in K : f[k] \in F(k)}
    <2>1. y \in {Looped(d, K, f) : f \in Outcomes}
      BY DEF Woken, EachOf, Looped, Each
    <2> HIDE DEF Outcomes, K
    <2>2. PICK f \in Outcomes : y = Looped(d, K, f)
      BY <2>1
    <2>3. \A k \in K : f[k] \in F(k)
      BY <2>2 DEF Outcomes
    <2> QED BY <2>2, <2>3
  <1>2. ASSUME NEW k \in K
        PROVE  Touches(d, f[k], k) /\ Sound(f[k], k, head) /\ Served(f[k], k, head)
    <2> DEFINE s == [d.sock[k] EXCEPT !.cursor = d.sock[k].attached]
               z == Put(d, k, s)
               b == k \in broken
               a == f[k]
    <2>0. k \in Sockets /\ b \in BOOLEAN /\ FALSE \in BOOLEAN
      OBVIOUS
    <2>1. a \in adopt(z, k, FALSE, b)
      BY <1>1 DEF AdoptedOnWake, Put
    <2>2. /\ s \in Socket /\ s.cursor = d.sock[k].attached /\ s.got = d.sock[k].got
          /\ s.unacked = d.sock[k].unacked /\ s.attached = d.sock[k].attached
          /\ s.state = d.sock[k].state /\ s.deadline = d.sock[k].deadline
      <3>1. d.sock[k] \in Socket
        BY <2>0, SocketIs
      <3> QED BY <3>1 DEF Socket
    <2> HIDE DEF s, b, a
    <2>3. z \in State /\ Kept(d, z) /\ z.sock[k] = s /\ Touches(d, z, k)
      BY <2>0, <2>2, PutIs
    <2> HIDE DEF z
    <2>4. Held(d.sock[k], head)
      BY <2>0 DEF Sound
    <2>5. Held(s, head) /\ Backed(s, head)
      BY <2>2, <2>4 DEF Held, Backed, Covers
    <2>6. Adoptable(z, k)
      BY <2>0, <2>2, <2>3, <2>5 DEF Adoptable, Sound, Kept
    <2>7. Handled(z, a, k)
      BY <2>0, <2>1, <2>3, <2>6, AdoptIs
    <2>8. Touches(d, a, k)
      BY <2>3, <2>7, TouchesTwice DEF Handled
    <2> QED BY <2>7, <2>8 DEF Handled, a
  <1>3. \A k \in K : f[k] \in State
    BY <1>2 DEF Touches
  <1>4. /\ y \in State
        /\ \A k \in K : Alike(y, f[k], k)
        /\ \A k \in Sockets \ K : Alike(y, d, k)
    <2>1. K \in SUBSET Sockets
      OBVIOUS
    <2> HIDE DEF K
    <2> QED BY <1>1, <1>3, <2>1, LoopedIs
  <1>5. \A k \in K : Sound(y, k, head) /\ Served(y, k, head) /\ Paced(d, y, k)
    <2> HIDE DEF K
    <2> QED BY <1>2, <1>4, AlikeIs
  <1>6. \A k \in Sockets \ K : Served(d, k, head)
    BY DEF Served, Reached, Authorized
  <1> HIDE DEF K
  <1>7. \A k \in Sockets \ K : Sound(y, k, head) /\ Served(y, k, head) /\ Paced(d, y, k)
    BY <1>4, <1>6, AlikeIs, TouchesSelf
  <1> QED BY <1>4, <1>5, <1>7

-----------------------------------------------------------------------------
(* The alarm *)

LEMMA HasMin ==
    ASSUME NEW S \in SUBSET Nat, S # {}
    PROVE  \E m \in S : \A n \in S : m <= n
  <1> DEFINE Less == OpToRel(<, Nat)
  <1>1. IsWellFoundedOn(Less, Nat)
    BY NatLessThanWellFounded
  <1>2. \E m \in S : \A n \in S : ~(<<n, m>> \in Less)
    <2> HIDE DEF Less
    <2> QED BY <1>1, WFMin
  <1>3. \A n, m \in Nat : <<n, m>> \in Less <=> n < m
    BY DEF OpToRel
  <1> HIDE DEF Less
  <1>4. PICK m \in S : \A n \in S : ~(<<n, m>> \in Less)
    BY <1>2
  <1>5. \A n \in S : ~(n < m)
    BY <1>3, <1>4
  <1>6. \A n \in S : m <= n
    BY <1>5
  <1> QED BY <1>4, <1>6

LEMMA AlarmIs ==
    ASSUME NEW x \in State
    PROVE  AlarmAtFirst(x) \in 0..MaxTime
  <1>1. \A k \in Sockets : x.sock[k].deadline \in 0..MaxTime
    <2>1. \A k \in Sockets : x.sock[k] \in Socket
      BY SocketIs
    <2> QED BY <2>1 DEF Socket
  <1>2. Deadlines(x) \in SUBSET (0..MaxTime)
    BY <1>1 DEF Deadlines
  <1>3. CASE Deadlines(x) = {}
    BY <1>3, AuthorityAssumption DEF AlarmAtFirst
  <1>4. CASE Deadlines(x) # {}
    <2>1. \E m \in Deadlines(x) : \A n \in Deadlines(x) : m <= n
      BY <1>2, <1>4, HasMin
    <2>2. Min(Deadlines(x)) \in Deadlines(x)
      BY <2>1 DEF Min
    <2> QED BY <1>2, <1>4, <2>2 DEF AlarmAtFirst
  <1> QED BY <1>3, <1>4

-----------------------------------------------------------------------------
(* The steps *)

\* A step keeps the invariant and sends only in time.
Pace == \A k \in Sockets : InTimeOnly(d, d', k)

\* The end of a handler that reschedules.
LEMMA ScheduledIs ==
    ASSUME IInv, NEW x \in State, Scheduled(x), \A k \in Sockets : Sound(x, k, head)
    PROVE  /\ d' \in State /\ alarm' \in 0..MaxTime
           /\ \A k \in Sockets : Sound(d', k, head)
           /\ \A k \in Sockets : Served(x, k, head) => Served(d', k, head)
           /\ \A k \in Sockets : Paced(x, d', k)
  <1>1. CASE adapter = "durable"
    <2>1. d' = Swept(x) /\ alarm' = AlarmAtFirst(Swept(x))
      BY <1>1 DEF Scheduled
    <2>2. /\ Swept(x) \in State
          /\ \A k \in Sockets : /\ Sound(Swept(x), k, head)
                                /\ Served(x, k, head) => Served(Swept(x), k, head)
                                /\ Paced(x, Swept(x), k)
      BY SweptIs
    <2>3. AlarmAtFirst(Swept(x)) \in 0..MaxTime
      BY <2>2, AlarmIs
    <2> QED BY <2>1, <2>2, <2>3
  <1>2. CASE adapter # "durable"
    <2>1. d' = x /\ alarm' = alarm
      BY <1>2 DEF Scheduled
    <2> QED BY <2>1 DEF IInv, Paced, InTimeOnly
  <1> QED BY <1>1, <1>2

\* The invariant, put together from what a step of the sockets gives.
LEMMA Rebuilt ==
    ASSUME IInv, UNCHANGED <<adapter, now, awake>>, head' \in 1..MaxHead, alarm' \in 0..MaxTime,
           d' \in State, \A k \in Sockets : Sound(d', k, head') /\ Served(d', k, head'),
           awake = TRUE
    PROVE  IInv'
  <1>1. \A k \in Sockets : Sound(d, k, head)' /\ Served(d, k, head)'
    BY DEF Sound, Held, Served, Reached, Backed, Covers, Authorized, Open, InTime
  <1>2. (d \in State)'
    BY DEF State, Socket
  <1> QED BY <1>1, <1>2 DEF IInv

LEMMA UpgradeStep ==
    ASSUME IInv, NEW k \in Sockets, Upgrade(k)
    PROVE  IInv' /\ Pace
  <1> USE AuthorityAssumption
  <1>0. /\ d \in State /\ head \in 1..MaxHead /\ now \in 1..MaxTime /\ awake = TRUE
        /\ adapter \in {"durable", "bun"}
        /\ \A j \in Sockets : Sound(d, j, head) /\ Served(d, j, head)
    BY DEF IInv, Upgrade
  <1>1. PICK gen \in 1..Generation, cursor \in 0..head, dies \in BOOLEAN, fails \in BOOLEAN :
            \E u \in adopt([d EXCEPT !.sock[k] =
                [NoSocket EXCEPT !.state = "open", !.gen = gen, !.deadline = now + Lease,
                                 !.cursor = cursor, !.attached = cursor, !.got = 1..cursor]],
                k, dies, fails) : Scheduled(u)
    BY DEF Upgrade
  <1> DEFINE s == [NoSocket EXCEPT !.state = "open", !.gen = gen, !.deadline = now + Lease,
                                   !.cursor = cursor, !.attached = cursor, !.got = 1..cursor]
             x == [d EXCEPT !.sock[k] = s]
  <1>2. /\ s \in Socket /\ s.state = "open" /\ s.deadline = now + Lease
        /\ s.cursor = cursor /\ s.attached = cursor /\ s.got = 1..cursor
    <2>1. now + Lease \in 0..MaxTime /\ cursor \in 0..MaxHead /\ gen \in 0..Generation
          /\ 1..cursor \in SUBSET (1..MaxHead)
      BY <1>0 DEF Upgrade, Generation
    <2> QED BY <2>1 DEF Socket, NoSocket
  <1>3. PICK y \in adopt(x, k, dies, fails) : Scheduled(y)
    BY <1>1
  <1> HIDE DEF s
  <1>4. /\ x \in State /\ x.sock[k] = s /\ Kept(d, x)
        /\ \A j \in Sockets \ {k} : x.sock[j] = d.sock[j]
    BY <1>0, <1>2 DEF State, Kept
  <1> HIDE DEF x
  <1>5. d.sock[k].state = "none" /\ k \notin d.connections /\ k \notin d.members
    BY <1>0 DEF Upgrade, Sound
  <1>6. Held(s, head) /\ Backed(s, head)
    BY <1>2 DEF Held, Backed, Covers
  <1>7. Sound(x, k, head) /\ Authorized(x, k) /\ k \notin x.connections
    BY <1>0, <1>2, <1>4, <1>5, <1>6 DEF Sound, Authorized, Open, InTime, Kept
  <1>8. Adoptable(x, k)
    BY <1>0, <1>4, <1>7, <1>6 DEF Adoptable
  <1>9. Handled(x, y, k)
    BY <1>0, <1>4, <1>8, <1>3, AdoptIs
  <1>10. y \in State /\ Touches(x, y, k)
    BY <1>9 DEF Handled, Touches
  <1>11. \A j \in Sockets : Sound(y, j, head) /\ Served(y, j, head)
    <2> SUFFICES ASSUME NEW j \in Sockets PROVE Sound(y, j, head) /\ Served(y, j, head)
      OBVIOUS
    <2>1. CASE j = k
      BY <2>1, <1>9 DEF Handled
    <2>2. CASE j # k
      <3>1. Sound(x, j, head) /\ Served(x, j, head)
        BY <1>0, <1>4, <2>2 DEF Sound, Served, Reached, Authorized, Open, InTime, Kept
      <3> QED BY <3>1, <1>10, <2>2, TouchesOther
    <2> QED BY <2>1, <2>2
  <1>12. Scheduled(y)
    BY <1>3
  <1>13. /\ d' \in State /\ alarm' \in 0..MaxTime
         /\ \A j \in Sockets : Sound(d', j, head) /\ Served(d', j, head)
         /\ \A j \in Sockets : Paced(y, d', j)
    BY <1>10, <1>11, <1>12, ScheduledIs
  <1>14. IInv'
    BY <1>0, <1>13, Rebuilt DEF Upgrade
  <1>15. Pace
    <2> SUFFICES ASSUME NEW j \in Sockets PROVE InTimeOnly(d, d', j)
      BY DEF Pace
    <2>1. InTimeOnly(y, d', j) /\ d'.sock[j].deadline = y.sock[j].deadline
      BY <1>13 DEF Paced
    <2>2. CASE j # k
      <3>1. y.sock[j] = d.sock[j]
        BY <2>2, <1>4, <1>10 DEF Touches
      <3> QED BY <2>1, <3>1 DEF InTimeOnly
    <2>3. CASE j = k
      <3>1. y.sock[k].deadline = now + Lease /\ now < now + Lease
        BY <1>0, <1>2, <1>4, <1>10 DEF Touches
      <3> QED BY <2>1, <3>1, <2>3 DEF InTimeOnly
    <2> QED BY <2>2, <2>3
  <1> QED BY <1>14, <1>15

\* A state in which one socket moved, out of one in which all are served.
LEMMA OneTouched ==
    ASSUME NEW x \in State, NEW y, NEW k \in Sockets, NEW hd,
           \A j \in Sockets : Sound(x, j, hd) /\ Served(x, j, hd),
           Touches(x, y, k), Sound(y, k, hd), Served(y, k, hd)
    PROVE  /\ y \in State
           /\ \A j \in Sockets : Sound(y, j, hd) /\ Served(y, j, hd) /\ Paced(x, y, j)
  <1>1. \A j \in Sockets : Sound(y, j, hd) /\ Served(y, j, hd)
    <2> SUFFICES ASSUME NEW j \in Sockets PROVE Sound(y, j, hd) /\ Served(y, j, hd)
      OBVIOUS
    <2>1. CASE j = k
      BY <2>1
    <2>2. CASE j # k
      BY <2>2, TouchesOther
    <2> QED BY <2>1, <2>2
  <1>2. y \in State /\ \A j \in Sockets : Paced(x, y, j)
    BY DEF Paced, InTimeOnly, Touches
  <1> QED BY <1>1, <1>2

\* A step that touches one socket, and leaves the log and the clock alone.
LEMMA OneSocketStep ==
    ASSUME IInv, NEW k \in Sockets, NEW x, Handled(d, x, k), awake = TRUE
    PROVE  /\ x \in State
           /\ \A j \in Sockets : Sound(x, j, head) /\ Served(x, j, head) /\ Paced(d, x, j)
  <1>1. d \in State /\ \A j \in Sockets : Sound(d, j, head) /\ Served(d, j, head)
    BY DEF IInv
  <1>2. Touches(d, x, k) /\ Sound(x, k, head) /\ Served(x, k, head)
    BY DEF Handled
  <1> QED BY <1>1, <1>2, OneTouched

\* Whatever the message finds, k is sound and served before it is taken.
LEMMA MessageFinds ==
    ASSUME IInv, NEW k \in Sockets, awake = TRUE,
           NEW x \in IF adapter = "durable" THEN adopt(Checked(d, k), k, FALSE, FALSE)
                     ELSE {IF InTime(d, k) THEN d ELSE Closed(forget(d, k), k)}
    PROVE  Handled(d, x, k)
  <1>0. /\ d \in State /\ head \in 1..MaxHead /\ adapter \in {"durable", "bun"}
        /\ Sound(d, k, head) /\ Served(d, k, head)
    BY DEF IInv
  <1>1. CASE adapter = "durable"
    <2> DEFINE y == Checked(d, k)
    <2>1. /\ Touches(d, y, k) /\ Sound(y, k, head)
          /\ Authorized(d, k) => y = d
          /\ ~Authorized(d, k) => ~Authorized(y, k)
      BY <1>0, CheckedIs
    <2> HIDE DEF y
    <2>2. y \in State /\ Served(y, k, head)
      BY <1>0, <2>1 DEF Touches, Served, Reached
    <2>3. Adoptable(y, k)
      BY <1>1, <2>1, <2>2 DEF Adoptable, Served, Reached
    <2>4. x \in adopt(y, k, FALSE, FALSE)
      BY <1>1 DEF y
    <2>5. Handled(y, x, k)
      <3>1. FALSE \in BOOLEAN
        OBVIOUS
      <3> QED BY <1>0, <2>2, <2>3, <2>4, <3>1, AdoptIs
    <2> QED BY <2>1, <2>5, TouchesTwice DEF Handled
  <1>2. CASE adapter # "durable" /\ InTime(d, k)
    <2>1. x = d
      BY <1>2
    <2> QED BY <1>0, <2>1, TouchesSelf DEF Handled
  <1>3. CASE adapter # "durable" /\ ~InTime(d, k)
    <2>1. x = Closed(forget(d, k), k)
      BY <1>3
    <2> QED BY <1>0, <2>1, LeftIs DEF Handled, Served, Reached
  <1> QED BY <1>1, <1>2, <1>3

\* A frame without history leaves its socket served.
LEMMA FramedServed ==
    ASSUME NEW x \in State, NEW k \in Sockets, NEW hd \in 1..MaxHead,
           Sound(x, k, hd), Served(x, k, hd)
    PROVE  LET y == Framed(x, k)
           IN  Touches(x, y, k) /\ Sound(y, k, hd) /\ Served(y, k, hd)
  <1> DEFINE y == Framed(x, k)
  <1>1. Authorized(x, k) => Fit(x.sock[k], hd)
    BY ReachedIsFit DEF Served
  <1>2. /\ Touches(x, y, k) /\ Sound(y, k, hd)
        /\ Authorized(y, k) => Authorized(x, k)
        /\ Authorized(x, k) => /\ Kept(x, y) /\ Fit(y.sock[k], hd)
                               /\ y.sock[k].cursor = x.sock[k].cursor
                               /\ y.sock[k].lags = x.sock[k].lags
    BY <1>1, FramedIs
  <1> HIDE DEF y
  <1>3. Served(y, k, hd)
    BY <1>2 DEF Served, Reached, Kept, Fit
  <1> QED BY <1>2, <1>3 DEF y

\* The append is durable and nobody gets it: all sockets are behind the log.
Behind(x) == [x EXCEPT !.sock = [j \in Sockets |-> [x.sock[j] EXCEPT !.lags = TRUE]]]

LEMMA BehindIs ==
    ASSUME NEW x \in State, NEW hd, \A j \in Sockets : Sound(x, j, hd) /\ Reached(x, j, hd)
    PROVE  /\ Behind(x) \in State
           /\ \A j \in Sockets : /\ Sound(Behind(x), j, hd) /\ Served(Behind(x), j, hd)
                                 /\ Paced(x, Behind(x), j)
  <1> DEFINE s(j) == [x.sock[j] EXCEPT !.lags = TRUE]
             y == Behind(x)
  <1>1. \A j \in Sockets : /\ s(j) \in Socket /\ s(j).lags = TRUE
                           /\ s(j).got = x.sock[j].got /\ s(j).unacked = x.sock[j].unacked
                           /\ s(j).cursor = x.sock[j].cursor /\ s(j).attached = x.sock[j].attached
                           /\ s(j).state = x.sock[j].state /\ s(j).deadline = x.sock[j].deadline
    <2>1. \A j \in Sockets : x.sock[j] \in Socket
      BY SocketIs
    <2> QED BY <2>1 DEF Socket
  <1>2. /\ y.sock = [j \in Sockets |-> s(j)] /\ y.connections = x.connections /\ y.members = x.members
        /\ y = [sock |-> y.sock, connections |-> y.connections, members |-> y.members]
    <2> DEFINE f == [j \in Sockets |-> s(j)]
    <2>1. y = [x EXCEPT !.sock = f]
      BY DEF Behind
    <2> HIDE DEF f, y
    <2>2. /\ y.sock = f /\ y.connections = x.connections /\ y.members = x.members
          /\ y = [sock |-> y.sock, connections |-> y.connections, members |-> y.members]
      BY <2>1 DEF State
    <2> QED BY <2>2 DEF f
  <1> HIDE DEF y, s
  <1>3. y \in State /\ \A j \in Sockets : y.sock[j] = s(j)
    BY <1>1, <1>2 DEF State
  <1>4. \A j \in Sockets : Sound(y, j, hd)
    BY <1>1, <1>2, <1>3 DEF Sound, Held, Covers
  <1>5. \A j \in Sockets : Served(y, j, hd)
    BY <1>1, <1>2, <1>3 DEF Served, Reached, Backed, Covers, Authorized, Open, InTime
  <1>6. \A j \in Sockets : Paced(x, y, j)
    BY <1>1, <1>3 DEF Paced, InTimeOnly
  <1> QED BY <1>3, <1>4, <1>5, <1>6 DEF y

\* All sockets are sound and served against hd, and were sent to in time since x.
AllServed(x, y, hd) ==
    /\ y \in State
    /\ \A j \in Sockets : Sound(y, j, hd) /\ Served(y, j, hd) /\ Paced(x, y, j)

LEMMA RefusedIs ==
    ASSUME NEW x, NEW k \in Sockets, head \in 1..MaxHead, AllServed(d, x, head), PushRefused(x, k)
    PROVE  AllServed(x, d', head) /\ head' = head
  <1>1. d' = Framed(x, k) /\ head' = head
    BY DEF PushRefused
  <1>2. x \in State /\ \A j \in Sockets : Sound(x, j, head) /\ Served(x, j, head)
    BY DEF AllServed
  <1>3. Touches(x, d', k) /\ Sound(d', k, head) /\ Served(d', k, head)
    BY <1>1, <1>2, FramedServed
  <1>4. /\ d' \in State
        /\ \A j \in Sockets : Sound(d', j, head) /\ Served(d', j, head) /\ Paced(x, d', j)
    BY <1>2, <1>3, OneTouched
  <1> QED BY <1>1, <1>4 DEF AllServed

LEMMA UndeliveredIs ==
    ASSUME NEW x, NEW k \in Sockets, head \in 1..MaxHead, head < MaxHead,
           AllServed(d, x, head), PushUndelivered(x, k)
    PROVE  AllServed(x, d', head + 1) /\ head' = head + 1
  <1> USE AuthorityAssumption
  <1>1. head' = head + 1 /\ \E y \in Delivered(x, k, head, TRUE) : d' = Behind(Framed(y, k))
    BY DEF PushUndelivered, Behind
  <1>2. PICK y \in Delivered(x, k, head, TRUE) : d' = Behind(Framed(y, k))
    BY <1>1
  <1> DEFINE z == Framed(y, k)
  <1>3. x \in State /\ \A j \in Sockets : Sound(x, j, head) /\ Served(x, j, head)
    BY DEF AllServed
  <1>4. DeliversTo(x, y, k, head, TRUE)
    <2>1. Authorized(x, k) => Fit(x.sock[k], head)
      BY <1>3, ReachedIsFit DEF Served
    <2>2. TRUE \in BOOLEAN
      OBVIOUS
    <2> QED BY <1>2, <1>3, <2>1, <2>2, DeliveredIs
  <1>5. Touches(x, y, k) /\ y \in State /\ Sound(y, k, head) /\ Served(y, k, head)
    BY <1>3, <1>4 DEF DeliversTo, Touches, Served, Reached, Kept, Fit
  <1>6. Touches(y, z, k) /\ Sound(z, k, head) /\ Served(z, k, head)
    BY <1>5, FramedServed
  <1> HIDE DEF z
  <1>7. Touches(x, z, k)
    BY <1>5, <1>6, TouchesTwice
  <1>8. /\ z \in State
        /\ \A j \in Sockets : Sound(z, j, head) /\ Served(z, j, head) /\ Paced(x, z, j)
    BY <1>3, <1>6, <1>7, OneTouched
  <1>9. \A j \in Sockets : Sound(z, j, head + 1) /\ Reached(z, j, head + 1)
    <2>1. head \in Nat
      OBVIOUS
    <2> QED BY <1>8, <2>1, SoundGrows DEF Served
  <1>10. /\ d' \in State
         /\ \A j \in Sockets : Sound(d', j, head + 1) /\ Served(d', j, head + 1) /\ Paced(z, d', j)
    BY <1>2, <1>8, <1>9, BehindIs DEF z
  <1>11. \A j \in Sockets : Paced(x, d', j)
    BY <1>8, <1>10 DEF Paced, InTimeOnly
  <1> QED BY <1>1, <1>10, <1>11 DEF AllServed

LEMMA TakenIs ==
    ASSUME NEW x, NEW k \in Sockets, head \in 1..MaxHead, head < MaxHead,
           AllServed(d, x, head), PushTaken(x, k)
    PROVE  AllServed(x, d', head + 1) /\ head' = head + 1
  <1> USE AuthorityAssumption
  <1> DEFINE n == head + 1
             K == x.members \ {k}
  <1>1. head' = n /\ \E swallowed \in BOOLEAN, asked \in BOOLEAN, broken \in SUBSET K :
            \E y \in Delivered(x, k, head, FALSE) :
            \E z \in Relayed(Acked(y, k, n, swallowed), K, n, broken) :
                d' = IF asked THEN Framed(z, k) ELSE z
    BY DEF PushTaken
  <1>2. PICK swallowed \in BOOLEAN, asked \in BOOLEAN, broken \in SUBSET K :
            \E y \in Delivered(x, k, head, FALSE) :
            \E z \in Relayed(Acked(y, k, n, swallowed), K, n, broken) :
                d' = IF asked THEN Framed(z, k) ELSE z
    BY <1>1
  <1>3. PICK y \in Delivered(x, k, head, FALSE) :
            \E z \in Relayed(Acked(y, k, n, swallowed), K, n, broken) :
                d' = IF asked THEN Framed(z, k) ELSE z
    BY <1>2
  <1>4. PICK z \in Relayed(Acked(y, k, n, swallowed), K, n, broken) :
                d' = IF asked THEN Framed(z, k) ELSE z
    BY <1>3
  <1> DEFINE a == Acked(y, k, n, swallowed)
  <1>0. n \in 1..MaxHead
    OBVIOUS
  <1>5. x \in State /\ \A j \in Sockets : Sound(x, j, head) /\ Served(x, j, head)
    BY DEF AllServed
  <1>6. DeliversTo(x, y, k, head, FALSE)
    <2>1. Authorized(x, k) => Fit(x.sock[k], head)
      BY <1>5, ReachedIsFit DEF Served
    <2>2. FALSE \in BOOLEAN
      OBVIOUS
    <2> QED BY <1>3, <1>5, <2>1, <2>2, DeliveredIs
  <1>7. /\ Touches(x, y, k) /\ y \in State /\ Sound(y, k, head) /\ Reached(y, k, head)
        /\ Authorized(y, k) => y.sock[k].cursor = head
    BY <1>5, <1>6 DEF DeliversTo, Touches, Served, Reached, Kept, Fit
  <1>8. Touches(y, a, k) /\ Sound(a, k, n) /\ Served(a, k, n)
    BY <1>0, <1>2, <1>7, AckedIs
  <1> HIDE DEF a
  <1>9. Touches(x, a, k) /\ a \in State
    <2>1. Touches(x, a, k)
      BY <1>7, <1>8, TouchesTwice
    <2> QED BY <2>1 DEF Touches
  <1>10. \A j \in Sockets \ {k} : Sound(a, j, head) /\ Reached(a, j, head)
    BY <1>5, <1>9, TouchesOther DEF Served
  <1>11. K \in SUBSET (Sockets \ {k}) /\ \A j \in Sockets \ {k} : j \in a.members => j \in K
    BY <1>5, <1>9 DEF Touches, State
  <1>12. z \in Relayed(a, K, n, broken)
    BY <1>4 DEF a
  <1> HIDE DEF K
  <1>13. /\ z \in State
         /\ \A j \in Sockets : Sound(z, j, n) /\ Served(z, j, n) /\ Paced(a, z, j)
    BY <1>0, <1>8, <1>9, <1>10, <1>11, <1>12, RelayedIs
  <1>14. /\ d' \in State
         /\ \A j \in Sockets : Sound(d', j, n) /\ Served(d', j, n) /\ Paced(z, d', j)
    <2>1. CASE asked = FALSE
      BY <1>4, <1>13, <2>1 DEF Paced, InTimeOnly
    <2>2. CASE asked = TRUE
      <3>1. d' = Framed(z, k)
        BY <1>4, <2>2
      <3> HIDE DEF n
      <3>2. Touches(z, d', k) /\ Sound(d', k, n) /\ Served(d', k, n)
        BY <1>0, <1>13, <3>1, FramedServed
      <3> QED BY <1>13, <3>2, OneTouched
    <2> QED BY <1>2, <2>1, <2>2
  <1>15. \A j \in Sockets : Paced(x, a, j)
    BY <1>9 DEF Paced, InTimeOnly, Touches
  <1>16. \A j \in Sockets : Paced(x, d', j)
    BY <1>13, <1>14, <1>15 DEF Paced, InTimeOnly
  <1> QED BY <1>1, <1>14, <1>16 DEF AllServed

LEMMA MessageStep ==
    ASSUME IInv, NEW k \in Sockets, Message(k)
    PROVE  IInv' /\ Pace
  <1> USE AuthorityAssumption
  <1>0. /\ d \in State /\ head \in 1..MaxHead /\ awake = TRUE /\ head < MaxHead
        /\ alarm \in 0..MaxTime /\ UNCHANGED <<adapter, now, awake, alarm>>
    BY DEF IInv, Message
  <1>1. PICK x \in IF adapter = "durable" THEN adopt(Checked(d, k), k, FALSE, FALSE)
                   ELSE {IF InTime(d, k) THEN d ELSE Closed(forget(d, k), k)} :
            \/ PushRefused(x, k) \/ PushUndelivered(x, k) \/ PushTaken(x, k)
            \/ d' = x /\ head' = head
    BY DEF Message
  <1>2. Handled(d, x, k)
    BY <1>0, <1>1, MessageFinds
  <1>3. AllServed(d, x, head)
    BY <1>0, <1>2, OneSocketStep DEF AllServed
  <1>4. AllServed(x, d', head') /\ head' \in 1..MaxHead
    <2>1. CASE PushRefused(x, k)
      BY <1>0, <1>3, <2>1, RefusedIs
    <2>2. CASE PushUndelivered(x, k)
      BY <1>0, <1>3, <2>2, UndeliveredIs
    <2>3. CASE PushTaken(x, k)
      BY <1>0, <1>3, <2>3, TakenIs
    <2>4. CASE d' = x /\ head' = head
      BY <1>0, <1>3, <2>4 DEF AllServed, Paced, InTimeOnly
    <2> QED BY <1>1, <2>1, <2>2, <2>3, <2>4
  <1>5. IInv'
    BY <1>0, <1>4, Rebuilt DEF AllServed
  <1>6. Pace
    BY <1>3, <1>4 DEF Pace, AllServed, Paced, InTimeOnly
  <1> QED BY <1>5, <1>6

LEMMA SocketDiesStep ==
    ASSUME IInv, NEW k \in Sockets, SocketDies(k)
    PROVE  IInv' /\ Pace
  <1>0. /\ d \in State /\ head \in 1..MaxHead /\ alarm \in 0..MaxTime
        /\ \A j \in Sockets : Sound(d, j, head)
    BY DEF IInv
  <1>1. d' = Turned(d, k, "lost") /\ UNCHANGED <<adapter, now, head, awake, alarm>>
    BY DEF SocketDies, Turned
  <1>2. Same(d, d', k) /\ Kept(d, d') /\ d'.sock[k].state = "lost"
    BY <1>0, <1>1, TurnedIs
  <1>3. d' \in State /\ Touches(d, d', k)
    BY <1>2 DEF Same, Touches
  <1>4. Sound(d', k, head) /\ ~Authorized(d', k)
    BY <1>0, <1>2, SameIs DEF Sound, Kept, Authorized, Open
  <1>5. \A j \in Sockets : /\ Sound(d', j, head)
                           /\ Served(d, j, head) => Served(d', j, head)
    BY <1>0, <1>3, <1>4, TouchesOther DEF Served, Reached
  <1>6. \A j \in Sockets : Sound(d, j, head)' /\ (Served(d, j, head) => Served(d, j, head)')
    BY <1>1, <1>5 DEF Sound, Held, Served, Reached, Backed, Covers, Authorized, Open, InTime
  <1>7. (d \in State)'
    BY <1>3 DEF State, Socket
  <1>8. IInv'
    BY <1>1, <1>2, <1>6, <1>7 DEF IInv, Kept
  <1>9. Pace
    BY <1>3 DEF Pace, InTimeOnly, Touches
  <1> QED BY <1>8, <1>9

LEMMA SocketClosedStep ==
    ASSUME IInv, NEW k \in Sockets, SocketClosed(k) \/ SocketErrs(k)
    PROVE  IInv' /\ Pace
  <1> DEFINE x == Closed(forget(d, k), k)
  <1>0. /\ d \in State /\ head \in 1..MaxHead /\ alarm \in 0..MaxTime /\ Sound(d, k, head)
        /\ awake = TRUE /\ UNCHANGED <<adapter, now, head, awake>>
    BY DEF IInv, SocketClosed, SocketErrs
  <1>1. Handled(d, x, k)
    BY <1>0, LeftIs DEF Handled, Served, Reached
  <1>2. Scheduled(x) \/ (d' = x /\ alarm' = alarm)
    BY DEF SocketClosed, SocketErrs
  <1> HIDE DEF x
  <1>3. /\ x \in State
        /\ \A j \in Sockets : Sound(x, j, head) /\ Served(x, j, head) /\ Paced(d, x, j)
    BY <1>0, <1>1, OneSocketStep
  <1>4. /\ d' \in State /\ alarm' \in 0..MaxTime
        /\ \A j \in Sockets : Sound(d', j, head) /\ Served(d', j, head) /\ Paced(x, d', j)
    <2>1. CASE Scheduled(x)
      BY <1>3, <2>1, ScheduledIs
    <2>2. CASE d' = x /\ alarm' = alarm
      BY <1>0, <1>3, <2>2 DEF Paced, InTimeOnly
    <2> QED BY <1>2, <2>1, <2>2
  <1>5. IInv'
    <2>1. head' \in 1..MaxHead /\ \A j \in Sockets : Sound(d', j, head') /\ Served(d', j, head')
      BY <1>0, <1>4
    <2> QED BY <1>0, <1>4, <2>1, Rebuilt
  <1>6. Pace
    <2> SUFFICES ASSUME NEW j \in Sockets PROVE InTimeOnly(d, d', j)
      BY DEF Pace
    <2>1. Paced(d, x, j) /\ Paced(x, d', j)
      BY <1>3, <1>4
    <2> QED BY <2>1 DEF Paced, InTimeOnly
  <1> QED BY <1>5, <1>6

\* Time only takes authority away.
LEMMA TickStep ==
    ASSUME IInv, Tick
    PROVE  IInv' /\ Pace
  <1> USE AuthorityAssumption
  <1>0. /\ now \in 1..MaxTime /\ now < MaxTime /\ now' = now + 1 /\ d \in State
        /\ UNCHANGED <<adapter, head, awake, alarm, d>>
    BY DEF IInv, Tick
  <1>1. \A j \in Sockets : Authorized(d, j)' => Authorized(d, j)
    <2>1. \A j \in Sockets : d.sock[j].deadline \in Nat
      BY <1>0, SocketIs
    <2> QED BY <1>0, <2>1 DEF Authorized, Open, InTime
  <1>2. \A j \in Sockets : /\ Sound(d, j, head)' <=> Sound(d, j, head)
                           /\ Served(d, j, head) => Served(d, j, head)'
    BY <1>0, <1>1 DEF Sound, Held, Served, Reached, Backed, Covers
  <1>3. (d \in State)' <=> d \in State
    BY <1>0 DEF State, Socket
  <1>4. now' \in 1..MaxTime
    BY <1>0
  <1>5. IInv'
    BY <1>0, <1>2, <1>3, <1>4 DEF IInv
  <1>6. Pace
    BY <1>0 DEF Pace, InTimeOnly
  <1> QED BY <1>5, <1>6

LEMMA HibernateStep ==
    ASSUME IInv, Hibernate
    PROVE  IInv' /\ Pace
  <1>0. /\ d \in State /\ adapter = "durable" /\ awake' = FALSE
        /\ UNCHANGED <<adapter, now, head, alarm>>
        /\ \A j \in Sockets : Sound(d, j, head)
    BY DEF IInv, Hibernate
  <1>1. d'.sock = d.sock /\ d'.connections = {} /\ d'.members = {} /\ d' \in State
    BY <1>0 DEF Hibernate, State
  <1>2. \A j \in Sockets : Sound(d, j, head)'
    BY <1>0, <1>1 DEF Sound, Held, Covers
  <1>3. (d \in State)'
    BY <1>1 DEF State, Socket
  <1>4. IInv'
    BY <1>0, <1>1, <1>2, <1>3 DEF IInv
  <1>5. Pace
    BY <1>1 DEF Pace, InTimeOnly
  <1> QED BY <1>4, <1>5

LEMMA WakeStep ==
    ASSUME IInv, Wake
    PROVE  IInv' /\ Pace
  <1>0. /\ d \in State /\ head \in 1..MaxHead /\ adapter = "durable" /\ d.connections = {}
        /\ awake' = TRUE /\ UNCHANGED <<adapter, now, head, alarm>>
        /\ \A j \in Sockets : Sound(d, j, head)
    BY DEF IInv, Wake
  <1>1. PICK broken \in SUBSET {k \in Sockets : Open(d, k)} : d' \in Woken(broken)
    BY DEF Wake, Woken
  <1>2. /\ d' \in State
        /\ \A k \in Sockets : Sound(d', k, head) /\ Served(d', k, head) /\ Paced(d, d', k)
    BY <1>0, <1>1, WokenIs
  <1>3. \A j \in Sockets : Sound(d, j, head)' /\ Served(d, j, head)'
    BY <1>0, <1>2 DEF Sound, Held, Served, Reached, Backed, Covers, Authorized, Open, InTime
  <1>4. (d \in State)'
    BY <1>2 DEF State, Socket
  <1>5. IInv'
    BY <1>0, <1>3, <1>4 DEF IInv
  <1>6. Pace
    BY <1>2 DEF Pace, Paced
  <1> QED BY <1>5, <1>6

LEMMA AlarmStep ==
    ASSUME IInv, AlarmFires
    PROVE  IInv' /\ Pace
  <1>0. /\ d \in State /\ head \in 1..MaxHead /\ awake = TRUE
        /\ UNCHANGED <<adapter, now, head, awake>> /\ Scheduled(d)
        /\ \A j \in Sockets : Sound(d, j, head) /\ Served(d, j, head)
    BY DEF IInv, AlarmFires, AlarmHandled
  <1>1. /\ d' \in State /\ alarm' \in 0..MaxTime
        /\ \A j \in Sockets : Sound(d', j, head) /\ Served(d', j, head) /\ Paced(d, d', j)
    BY <1>0, ScheduledIs
  <1>2. head' \in 1..MaxHead /\ \A j \in Sockets : Sound(d', j, head') /\ Served(d', j, head')
    BY <1>0, <1>1
  <1>3. IInv'
    BY <1>0, <1>1, <1>2, Rebuilt
  <1> QED BY <1>1, <1>3 DEF Pace, Paced

\* The process's interval and its end.
LEMMA DropStep ==
    ASSUME IInv, Sweep \/ Stop
    PROVE  IInv' /\ Pace
  <1>0. /\ d \in State /\ head \in 1..MaxHead /\ awake = TRUE /\ alarm \in 0..MaxTime
        /\ UNCHANGED <<adapter, now, head, awake, alarm>>
        /\ \A j \in Sockets : Sound(d, j, head) /\ Served(d, j, head)
    BY DEF IInv, Sweep, Stop
  <1>1. PICK K \in SUBSET Sockets : d' = Dropped(K)
    <2>1. {k \in d.connections : ~InTime(d, k)} \in SUBSET Sockets /\ d.connections \in SUBSET Sockets
      BY <1>0 DEF State
    <2> QED BY <2>1 DEF Sweep, Stop
  <1>2. /\ d' \in State
        /\ \A j \in Sockets : Sound(d', j, head) /\ Served(d', j, head) /\ Paced(d, d', j)
    BY <1>0, <1>1, DroppedIs
  <1>3. /\ head' \in 1..MaxHead /\ alarm' \in 0..MaxTime
        /\ \A j \in Sockets : Sound(d', j, head') /\ Served(d', j, head')
    BY <1>0, <1>2
  <1>4. IInv'
    BY <1>0, <1>2, <1>3, Rebuilt
  <1> QED BY <1>2, <1>4 DEF Pace, Paced

-----------------------------------------------------------------------------
(* The theorems *)

LEMMA InitIInv == Init => IInv
  <1> USE AuthorityAssumption
  <1> SUFFICES ASSUME Init PROVE IInv
    OBVIOUS
  <1>1. NoSocket \in Socket /\ NoSocket.state = "none" /\ NoSocket.attached = 0
    BY DEF NoSocket, Socket, Generation
  <1>2. /\ d.sock = [k \in Sockets |-> NoSocket] /\ d.connections = {} /\ d.members = {}
        /\ d = [sock |-> d.sock, connections |-> d.connections, members |-> d.members]
    BY DEF Init
  <1>3. d \in State
    BY <1>1, <1>2 DEF State
  <1>4. head = 1 /\ now = 1 /\ alarm = 0 /\ awake = TRUE /\ adapter \in Adapters
    BY DEF Init
  <1>5. \A k \in Sockets : d.sock[k] = NoSocket
    BY <1>2
  <1>6. \A k \in Sockets : Sound(d, k, head) /\ Served(d, k, head)
    BY <1>1, <1>2, <1>4, <1>5 DEF Sound, Held, Covers, Served, Reached, Authorized, Open
  <1>7. adapter \in {"durable", "bun"} /\ head \in 1..MaxHead /\ now \in 1..MaxTime /\ alarm \in 0..MaxTime
    BY <1>4
  <1> QED BY <1>3, <1>4, <1>6, <1>7 DEF IInv

LEMMA NextStep ==
    ASSUME IInv, Next
    PROVE  IInv' /\ Pace
  <1>1. CASE Tick
    BY <1>1, TickStep
  <1>2. CASE Hibernate
    BY <1>2, HibernateStep
  <1>3. CASE Wake
    BY <1>3, WakeStep
  <1>4. CASE AlarmFires
    BY <1>4, AlarmStep
  <1>5. CASE Sweep \/ Stop
    BY <1>5, DropStep
  <1>6. ASSUME NEW k \in Sockets,
               Upgrade(k) \/ Message(k) \/ SocketDies(k) \/ SocketClosed(k) \/ SocketErrs(k)
        PROVE  IInv' /\ Pace
    BY <1>6, UpgradeStep, MessageStep, SocketDiesStep, SocketClosedStep
  <1> QED BY <1>1, <1>2, <1>3, <1>4, <1>5, <1>6 DEF Next

LEMMA StutterIInv ==
    ASSUME IInv, UNCHANGED vars
    PROVE  IInv'
  <1>1. UNCHANGED <<adapter, now, head, awake, alarm, d>>
    BY DEF vars
  <1>2. \A j \in Sockets : /\ Sound(d, j, head)' <=> Sound(d, j, head)
                           /\ Served(d, j, head)' <=> Served(d, j, head)
    BY <1>1 DEF Sound, Held, Served, Reached, Backed, Covers, Authorized, Open, InTime
  <1>3. (d \in State)' <=> d \in State
    BY <1>1 DEF State, Socket
  <1> QED BY <1>1, <1>2, <1>3 DEF IInv

\* The inductive invariant holds of every behaviour: each socket is sound
\* always, and served while the runtime is awake.
THEOREM Invariance == Spec => []IInv
  <1>1. Init => IInv
    BY InitIInv
  <1>2. IInv /\ [Next]_vars => IInv'
    BY NextStep, StutterIInv
  <1> QED BY <1>1, <1>2, PTL DEF Spec

\* No authorized socket of an awake runtime is deaf: it is known and joined, the
\* hub's cursor stands for entries that it has, and it is at the head unless
\* storage broke off its delivery; nothing is kept for a socket the server closed.
THEOREM AuthorizedAreServed == Spec => []NeitherDeafNorLeaked
  <1>1. IInv => NeitherDeafNorLeaked
    <2> SUFFICES ASSUME IInv PROVE NeitherDeafNorLeaked
      OBVIOUS
    <2>1. d \in State
      BY DEF IInv
    <2>2. TypeOK
      BY <2>1 DEF IInv, TypeOK, State
    <2>3. \A k \in Sockets : Sound(d, k, head)
      BY DEF IInv
    <2>4. d.members \subseteq d.connections /\ \A k \in d.connections : d.sock[k].state \in {"open", "lost"}
      BY <2>1, <2>3 DEF Sound, State
    <2>5. awake => \A k \in Sockets : Authorized(d, k) =>
                       /\ k \in d.connections \cap d.members
                       /\ 1..d.sock[k].cursor \subseteq d.sock[k].got \cup d.sock[k].unacked
                       /\ d.sock[k].cursor = head \/ d.sock[k].lags
      BY DEF IInv, Served, Reached, Backed, Covers
    <2> QED BY <2>2, <2>4, <2>5 DEF NeitherDeafNorLeaked
  <1> QED BY <1>1, Invariance, PTL

\* A woken object skips no work of another device: the attachment is ahead of what
\* its socket was sent by no entry but the socket's own, of a swallowed ack.
THEOREM NoEntrySkipped == Spec => []AttachmentNeverAhead
  <1>1. IInv => AttachmentNeverAhead
    BY DEF IInv, Sound, Held, Covers, AttachmentNeverAhead
  <1> QED BY <1>1, Invariance, PTL

\* No step, of any actor, sends to a socket at or past its deadline.
THEOREM SendsAreInTime == Spec => NothingPastDeadline
  <1>1. IInv /\ [Next]_vars =>
            [\A k \in Sockets : d'.sock[k].got # d.sock[k].got => now < d'.sock[k].deadline]_vars
    BY NextStep DEF Pace, InTimeOnly
  <1> QED BY <1>1, Invariance, PTL DEF Spec, NothingPastDeadline
=============================================================================
