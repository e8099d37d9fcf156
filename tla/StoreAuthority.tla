--------------------------- MODULE StoreAuthority ---------------------------
(***************************************************************************)
(* The runtimes that hold the authority's sockets: the Durable Object      *)
(* (packages/server/src/store-sync/authority.ts) and the self-hosted       *)
(* process (bun.ts).                                                       *)
(*                                                                         *)
(* A socket is authorized for a fixed time.  The object keeps its sockets  *)
(* and their attachments through hibernation and loses its memory; an      *)
(* alarm, stored, closes idle sockets.  The process sweeps its sockets     *)
(* instead.  An action is one event: the runtime delivers no other event   *)
(* while a handler waits for the object's own storage (input gates), and   *)
(* the clock does not move inside one.                                     *)
(***************************************************************************)
EXTENDS Integers, FiniteSets, FiniteSetsExt

CONSTANTS Sockets, Adapters,
          Lease,    \* how long an upgrade authorizes its socket
          MaxTime,  \* bound: the clock
          MaxHead,  \* bound: the log
          MaxSleeps, MaxFailures \* bounds: hibernations, storage failures

ASSUME AuthorityAssumption ==
    /\ Adapters \subseteq {"durable", "bun"}
    /\ Lease \in Nat \ {0} /\ MaxTime \in Nat \ {0} /\ MaxHead \in Nat \ {0}
    /\ MaxSleeps \in Nat /\ MaxFailures \in Nat

VARIABLES
    adapter,
    now, head,
    awake, sleeps, failures,
    alarm, \* the stored alarm, or 0
    d      \* the sockets and what the runtime holds in memory about them

vars == <<adapter, now, head, awake, sleeps, failures, alarm, d>>

\* The object's generation is 2; a dial from a cache of generation 1 is retired.
Generation == 2

Socket == [
    state : {"none", "open", "lost", "closed"}, \* lost: dead, its event not delivered
    gen : 0..Generation, deadline : 0..MaxTime,
    attached : 0..MaxHead,  \* the attachment's cursor
    cursor : 0..MaxHead,    \* connection.cursor
    got : SUBSET (1..MaxHead),     \* ghost: the positions the socket was sent
    unacked : SUBSET (1..MaxHead), \* ghost: its own entries whose ack was swallowed
    lags : BOOLEAN,         \* ghost: storage broke off the last delivery due to it
    told : {"none", "admitted", "retired"}]

NoSocket == [state |-> "none", gen |-> 0, deadline |-> 0, attached |-> 0, cursor |-> 0,
             got |-> {}, unacked |-> {}, lags |-> FALSE, told |-> "none"]

Init ==
    /\ adapter \in Adapters
    /\ now = 1 /\ head = 1 /\ alarm = 0
    /\ awake = TRUE /\ sleeps = 0 /\ failures = 0
    /\ d = [sock |-> [k \in Sockets |-> NoSocket],
            connections |-> {}, \* connections and hubs; bun's sockets map
            members |-> {}]     \* the hub's

-----------------------------------------------------------------------------
(* Handlers as functions of the sockets and the memory *)

Open(x, k) == x.sock[k].state = "open"
InTime(x, k) == now < x.sock[k].deadline

Closed(x, k) == [x EXCEPT !.sock[k].state = "closed"]

\* A loop over the sockets K whose body, F(k), touches k and no other socket.
Each(x, K, F(_)) ==
    [sock |-> [k \in Sockets |-> IF k \in K THEN F(k).sock[k] ELSE x.sock[k]],
     connections |-> {k \in Sockets : k \in IF k \in K THEN F(k).connections ELSE x.connections},
     members |-> {k \in Sockets : k \in IF k \in K THEN F(k).members ELSE x.members}]

\* The same with a body of which storage decides the outcome: F(k) is the set of them.
EachOf(x, K, F(_)) ==
    LET Outcomes == {f \in [K -> UNION {F(k) : k \in K}] : \A k \in K : f[k] \in F(k)}
    IN  {Each(x, K, LAMBDA k : f[k]) : f \in Outcomes}

\* forget(), leave(): membership goes with a connection that is known.
forget(x, k) ==
    IF k \in x.connections
    THEN [x EXCEPT !.connections = @ \ {k}, !.members = @ \ {k}]
    ELSE x

\* isAuthorized(), the answer and the effect: an open socket past its deadline
\* is forgotten and closed.
Authorized(x, k) == Open(x, k) /\ InTime(x, k)
Checked(x, k) == IF Open(x, k) /\ ~InTime(x, k) THEN Closed(forget(x, k), k) ELSE x

\* Mutant: a send looks at the socket and not at its deadline.
SendableOpen(x, k) == Open(x, k)

\* What connection.send() lets through.
Sendable(x, k) == Authorized(x, k)

\* connection.send(): the frame that follows a move of the cursor takes the cursor
\* into the attachment; the process keeps none.
Attach(s, at) == [s EXCEPT !.attached = IF adapter = "durable" THEN at ELSE @]

\* What connection.send() does for a socket that takes nothing.
Unsent(x, k) == IF adapter = "durable" THEN Checked(x, k) ELSE x

\* A frame without history, a refusal or a request for a snapshot.
Framed(x, k) ==
    IF Sendable(x, k)
    THEN [x EXCEPT !.sock[k] = Attach(@, @.cursor)]
    ELSE Unsent(x, k)

\* Every position up to p is out.  The last frame was entry p, or one of a
\* snapshot at p, which the log had before this event.
Through(s, p) ==
    IF p <= s.cursor THEN {s}
    ELSE {Attach([s EXCEPT !.cursor = p, !.got = @ \cup (s.cursor + 1)..p], at) :
             at \in {p - 1} \cup (IF p <= head THEN {s.cursor} ELSE {})}

\* Mutant: the cursor moves before the frames of the entry are sent.
BrokenOffAhead(s, n) ==
    (UNION {Through(s, p) : p \in s.cursor..n}) \cup
    (UNION {{Attach(t, p + 1) : t \in Through(s, p)} : p \in s.cursor..(n - 1)})

\* Storage ends deliver() behind position p: between two frames, or with the next
\* entry or the snapshot out, in part or whole (q), and not counted.
BrokenOff(s, n) ==
    LET Uncounted(p) == {Attach([t EXCEPT !.got = @ \cup (p + 1)..q], p) : t \in Through(s, p),
                            q \in {r \in p..n : r <= p + 1 \/ (p = s.cursor /\ r <= head)}}
    IN  (UNION {Through(s, p) : p \in s.cursor..n}) \cup
        (UNION {Uncounted(p) : p \in s.cursor..(n - 1)})

\* deliver() of everything up to position n, `breaks` when storage fails in it.
\* The hub's cursor moves whatever the socket takes.
Delivered(x, k, n, breaks) ==
    LET s == x.sock[k]
    IN  IF Sendable(x, k)
        THEN {[x EXCEPT !.sock[k] = [t EXCEPT !.lags = breaks]] :
                 t \in IF breaks THEN BrokenOff(s, n) ELSE Through(s, n)}
        ELSE (IF breaks \/ s.cursor >= n THEN {x} ELSE {}) \cup
             {[Unsent(x, k) EXCEPT !.sock[k].cursor = p] :
                 p \in IF breaks THEN s.cursor..n ELSE {n} \ 0..s.cursor}

\* Catch-up may have closed the socket while the hub was joining it.
StillAuthorized(x, k) ==
    IF adapter = "bun" \/ Authorized(x, k) THEN x ELSE forget(x, k)

\* adopt(), connect(): the hub of the socket's generation, membership and
\* catch-up.  `dies` says the socket dies during it, `fails` that storage does.
adopt(x, k, dies, fails) ==
    IF adapter = "durable" /\ ~Authorized(x, k) THEN {Checked(x, k)}
    ELSE IF k \in x.connections THEN {x}
    ELSE IF x.sock[k].gen # Generation
    THEN {Closed([x EXCEPT !.sock[k].told = "retired"], k)}
    ELSE LET dead == [x EXCEPT !.sock[k].state = IF dies THEN "lost" ELSE @]
             Told(y) == [y EXCEPT !.sock[k].told = "admitted"]
             Joined(y) == [y EXCEPT !.members = @ \cup {k}, !.connections = @ \cup {k}]
             caughtUp == Delivered(dead, k, head, fails)
         IN  IF fails
             THEN {Closed(x, k)} \cup {Closed(Told(y), k) : y \in caughtUp}
             ELSE {StillAuthorized(Joined(Told(y)), k) : y \in caughtUp}

\* scheduleAuthorizationAlarm(): closes what has expired and aims the alarm at
\* the first deadline that is left.
Swept(x) == Each(x, Sockets, LAMBDA k : Checked(x, k))

Deadlines(x) == {x.sock[k].deadline : k \in {j \in Sockets : Open(x, j)}}

AlarmAtFirst(x) == IF Deadlines(x) = {} THEN 0 ELSE Min(Deadlines(x))

Scheduled(x) ==
    IF adapter = "durable" THEN d' = Swept(x) /\ alarm' = AlarmAtFirst(Swept(x))
    ELSE d' = x /\ UNCHANGED alarm
-----------------------------------------------------------------------------
(* Events *)

Storage(fails) ==
    IF fails THEN failures < MaxFailures /\ failures' = failures + 1
    ELSE UNCHANGED failures

\* fetch() with an upgrade; upgrade() and connect().
Upgrade(k) ==
    /\ awake /\ d.sock[k].state = "none" /\ now + Lease <= MaxTime
    /\ \E gen \in 1..Generation, cursor \in 0..head, dies \in BOOLEAN, fails \in BOOLEAN :
        /\ Storage(fails)
        /\ \E x \in adopt([d EXCEPT !.sock[k] =
                [NoSocket EXCEPT !.state = "open", !.gen = gen, !.deadline = now + Lease,
                                 !.cursor = cursor, !.attached = cursor, !.got = 1..cursor]],
                k, dies, fails) : Scheduled(x)
    /\ UNCHANGED <<adapter, now, head, awake, sleeps>>

\* The ack of k's push, position seq.  The cursor is there before the send, whose
\* own admission storage may refuse; then the ack is swallowed.
Acked(x, k, seq, swallowed) ==
    LET s == [x.sock[k] EXCEPT !.cursor = seq, !.lags = FALSE]
    IN  IF swallowed
        THEN [x EXCEPT !.sock[k] = [s EXCEPT !.unacked = @ \cup {seq}]]
        ELSE IF Sendable(x, k)
        THEN [x EXCEPT !.sock[k] = Attach([s EXCEPT !.got = @ \cup {seq}], seq)]
        ELSE [Unsent(x, k) EXCEPT !.sock[k].cursor = seq]

\* The relays, of which the hub ignores the errors.
Relayed(x, others, seq, broken) ==
    EachOf(x, others, LAMBDA j : Delivered(x, j, seq, j \in broken))

\* process() of a push: refused for its framing, or because storage failed before
\* or in the append.
PushRefused(x, k) ==
    /\ d' = Framed(x, k)
    /\ UNCHANGED <<head, failures>>

\* The append is durable, and what k lacks cannot be delivered: a refusal, no
\* relay, and everybody is behind the log.
PushUndelivered(x, k) ==
    /\ Storage(TRUE)
    /\ head' = head + 1
    /\ \E y \in Delivered(x, k, head, TRUE) :
        LET z == Framed(y, k)
        IN  d' = [z EXCEPT !.sock = [j \in Sockets |-> [z.sock[j] EXCEPT !.lags = TRUE]]]

\* The append, what k lacks, its ack, the relays, and perhaps a request.
PushTaken(x, k) ==
    LET others == x.members \ {k}
    IN  \E swallowed \in BOOLEAN, asked \in BOOLEAN, broken \in SUBSET others :
        /\ Storage(swallowed \/ broken # {})
        /\ head' = head + 1
        /\ \E y \in Delivered(x, k, head, FALSE) :
           \E z \in Relayed(Acked(y, k, head + 1, swallowed), others, head + 1, broken) :
                d' = IF asked THEN Framed(z, k) ELSE z

\* webSocketMessage(), receive() with a push.  A message of a socket that died
\* meanwhile may still be delivered.
Message(k) ==
    /\ awake /\ d.sock[k].state \in {"open", "lost"} /\ head < MaxHead
    /\ \E x \in IF adapter = "durable" THEN adopt(Checked(d, k), k, FALSE, FALSE)
                 ELSE {IF InTime(d, k) THEN d ELSE Closed(forget(d, k), k)} :
        IF /\ adapter = "durable" => Authorized(d, k)
           /\ k \in x.connections \cap x.members
        THEN PushRefused(x, k) \/ PushUndelivered(x, k) \/ PushTaken(x, k)
        ELSE d' = x /\ UNCHANGED <<head, failures>>
    /\ UNCHANGED <<adapter, now, awake, sleeps, alarm>>

\* The peer goes away or the network does; the runtime hears of it later.
SocketDies(k) ==
    /\ Open(d, k)
    /\ d' = [d EXCEPT !.sock[k].state = "lost"]
    /\ UNCHANGED <<adapter, now, head, awake, sleeps, failures, alarm>>

\* webSocketClose(); leave() for the process.
SocketClosed(k) ==
    /\ awake /\ d.sock[k].state = "lost"
    /\ Scheduled(Closed(forget(d, k), k))
    /\ UNCHANGED <<adapter, now, head, awake, sleeps, failures>>

\* webSocketError() leaves the alarm alone.
SocketErrs(k) ==
    /\ awake /\ d.sock[k].state = "lost" /\ adapter = "durable"
    /\ d' = Closed(forget(d, k), k)
    /\ UNCHANGED <<adapter, now, head, awake, sleeps, failures, alarm>>

Tick ==
    /\ now < MaxTime
    /\ now' = now + 1
    /\ UNCHANGED <<adapter, head, awake, sleeps, failures, alarm, d>>

\* The idle object leaves memory.
Hibernate ==
    /\ adapter = "durable" /\ awake /\ sleeps < MaxSleeps
    /\ awake' = FALSE /\ sleeps' = sleeps + 1
    /\ d' = [d EXCEPT !.connections = {}, !.members = {}]
    /\ UNCHANGED <<adapter, now, head, failures, alarm>>

\* Mutant: the woken object rebuilds its map and not the membership.
AdoptedUnjoined(x, k, fails) ==
    {IF Authorized(x, k) THEN [x EXCEPT !.connections = @ \cup {k}] ELSE x}

AdoptedOnWake(x, k, fails) ==
    LET y == [x EXCEPT !.sock[k].cursor = x.sock[k].attached]
    IN  adopt(y, k, FALSE, fails)

\* The constructor, before the event that woke the object: every socket the
\* object still has is adopted at its attachment.
Wake ==
    /\ ~awake
    /\ awake' = TRUE
    /\ LET held == {k \in Sockets : Open(d, k)}
       IN  \E broken \in SUBSET held :
            /\ Storage(broken # {})
            /\ d' \in EachOf(d, held, LAMBDA k : AdoptedOnWake(d, k, k \in broken))
    /\ UNCHANGED <<adapter, now, head, sleeps, alarm>>

\* Mutant: the handler closes what has expired and sets no further alarm.
AlarmNotRenewed(x) == d' = Swept(x) /\ alarm' = 0

\* alarm(): the runtime clears the alarm it delivers.
AlarmHandled(x) == Scheduled(x)

AlarmFires ==
    /\ adapter = "durable" /\ awake /\ alarm # 0 /\ now >= alarm
    /\ AlarmHandled(d)
    /\ UNCHANGED <<adapter, now, head, awake, sleeps, failures>>

\* The process closes some of the sockets it knows.
Dropped(K) == Each(d, K, LAMBDA k : Closed(forget(d, k), k))

\* The process's interval goes over its map, dead sockets included.
Sweep ==
    /\ adapter = "bun"
    /\ LET late == {k \in d.connections : ~InTime(d, k)}
       IN  late # {} /\ d' = Dropped(late)
    /\ UNCHANGED <<adapter, now, head, awake, sleeps, failures, alarm>>

\* close(): the server stops.
Stop ==
    /\ adapter = "bun" /\ d.connections # {}
    /\ d' = Dropped(d.connections)
    /\ UNCHANGED <<adapter, now, head, awake, sleeps, failures, alarm>>

WakeForAlarm == alarm # 0 /\ now >= alarm /\ Wake

Next ==
    \/ Tick \/ Hibernate \/ Wake \/ AlarmFires \/ Sweep \/ Stop
    \/ \E k \in Sockets : Upgrade(k) \/ Message(k) \/ SocketDies(k) \/ SocketClosed(k) \/ SocketErrs(k)

Spec == Init /\ [][Next]_vars

\* Time passes, a due alarm is delivered (waking the object for it), the
\* interval fires, and a dead socket is reported, through a wake if need be.
FairSpec ==
    /\ Spec
    /\ WF_vars(Tick) /\ WF_vars(WakeForAlarm) /\ WF_vars(AlarmFires) /\ WF_vars(Sweep)
-----------------------------------------------------------------------------
(* Properties *)

TypeOK ==
    /\ adapter \in Adapters
    /\ now \in 1..MaxTime /\ head \in 1..MaxHead
    /\ alarm \in 0..MaxTime /\ awake \in BOOLEAN
    /\ d.sock \in [Sockets -> Socket]
    /\ d.connections \subseteq Sockets /\ d.members \subseteq Sockets

\* While the object is awake no authorized socket is deaf or mute: it is known and
\* joined, the hub's cursor stands for entries it was sent or pushed itself, and
\* it is at the head unless storage broke off the last delivery due to it.  And
\* nothing is kept for a socket that the server closed.
NeitherDeafNorLeaked ==
    /\ TypeOK
    /\ awake => \A k \in Sockets : Authorized(d, k) =>
          LET s == d.sock[k]
          IN  /\ k \in d.connections \cap d.members
              /\ 1..s.cursor \subseteq s.got \cup s.unacked
              /\ s.cursor = head \/ s.lags
    /\ d.members \subseteq d.connections
    /\ \A k \in d.connections : d.sock[k].state \in {"open", "lost"}

\* The attachment is ahead of what the socket was really sent by no entry but the
\* socket's own, whose ack was swallowed and which its replica still holds and
\* owes: a woken object may repeat entries and skips no work of another device.
AttachmentNeverAhead ==
    \A k \in Sockets : 1..d.sock[k].attached \subseteq d.sock[k].got \cup d.sock[k].unacked

\* Nothing is sent to a socket at or past its deadline, also when the alarm is
\* late and another socket's push is relayed.
NothingPastDeadline ==
    [][\A k \in Sockets : d'.sock[k].got # d.sock[k].got => now < d'.sock[k].deadline]_vars

\* Every socket ends: an idle one is closed after its deadline although the
\* object slept through it.
EverySocketEnds == \A k \in Sockets : Open(d, k) ~> ~Open(d, k)
=============================================================================
