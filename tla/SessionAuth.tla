------------------------------ MODULE SessionAuth ------------------------------
(***************************************************************************)
(* The session client (packages/auth/src/create-session-auth.ts): one      *)
(* stored credential, one uninterrupted attachment to an account, sign-in  *)
(* attempts that are cancelled or superseded at any await, and one queue   *)
(* of storage writes.                                                      *)
(*                                                                         *)
(* What runs between two awaits is one step.  A credential object of the   *)
(* code is its token here: a launcher hands out every token once.          *)
(***************************************************************************)
EXTENDS Naturals, Sequences, FiniteSets

CONSTANTS
    Alice, Bob,      \* the tokens the server issues to two principals
    MaxAttempts,     \* bound: sign-in attempts
    MaxFailures,     \* bound: storage writes that fail
    MaxRequests,     \* bound: account requests in flight at once
    MaxWrites        \* bound: writes waiting when a sign-out adds one

ASSUME TokensAssumption == Alice \cap Bob = {} /\ "none" \notin Alice \cup Bob
ASSUME BoundsAssumption == {MaxAttempts, MaxFailures, MaxRequests, MaxWrites} \subseteq Nat

Tokens == Alice \cup Bob
PrincipalOf(t) == IF t \in Alice THEN "alice" ELSE "bob"

\* The cell: a token and the principal cached with it, or nothing.
PersistedAuth == [token : Tokens, principal : {"alice", "bob"}]
None == [token |-> "none", principal |-> "none"]
Credential(t) == [token |-> t, principal |-> PrincipalOf(t)]

Attachment == [token : Tokens, principal : {"alice", "bob"},
               verified : BOOLEAN, paused : BOOLEAN]
Detached == [token |-> "none", principal |-> "none", verified |-> FALSE, paused |-> FALSE]

Attempt == [kind : {"start", "complete"}, aborted : BOOLEAN, token : Tokens \cup {"none"},
            pc : {"unused", "launching", "reading", "queued", "revoking", "ended"}]
SignIns == 1 .. MaxAttempts

\* An operation of `writes`, and how one settled.
Write == [op : {"install", "clear", "mismatch", "restore"}, by : 0 .. MaxAttempts,
          token : Tokens \cup {"none"}]
Outcome == [how : {"done", "failed", "aborted"}, by : 0 .. MaxAttempts]

Request == [phase : {"verifying", "sent"}, token : Tokens, retry : BOOLEAN]

VARIABLES
    c,        \* the client's memory
    stored,   \* the cell in storage
    dirty,    \* the last write failed: what the cell holds is not known
    dead,     \* the tokens the server no longer accepts
    faults    \* storage writes that failed

authVars == <<c, stored, dirty, dead, faults>>

Attached(p, verified) == [token |-> p.token, principal |-> p.principal,
                          verified |-> verified, paused |-> FALSE]

\* Storage may hold a token beside a principal that is not its own any more.
AuthInit ==
    /\ stored \in {None} \cup (IF Alice = {} THEN {} ELSE
                   LET t == CHOOSE t \in Alice : TRUE
                   IN  [token : {t}, principal : {"alice", "bob"}])
    /\ dirty = FALSE /\ dead = {} /\ faults = 0
    /\ c = [persisted    |-> stored,
            attachment   |-> IF stored = None THEN Detached ELSE Attached(stored, FALSE),
            queue        |-> <<>>,     \* the writes that have not settled
            step         |-> "start",  \* of the first of them,
            cell         |-> None,     \*   the value it is writing
            previous     |-> None,     \*   and the one it replaces
            last         |-> [how |-> "done", by |-> 0],
            attempts     |-> [a \in SignIns |-> [kind |-> "start", pc |-> "unused",
                                                  aborted |-> FALSE, token |-> "none"]],
            attempt      |-> 0,        \* the latest
            flight       |-> 0,        \* the one a second call would join
            cancellation |-> [phase |-> "none", signal |-> 0, wait |-> 0, result |-> "none"],
            disposed     |-> FALSE,
            verifying    |-> {},       \* tokens with a verification in flight
            requests     |-> {},       \* of the attached account
            asked        |-> {},       \* tokens with a revocation requested
            forgotten    |-> {},       \* tokens dropped when clearing the cell failed
            issued       |-> {stored.token} \ {"none"}] \* tokens ever handed out

-------------------------------------------------------------------------------
(* Pieces of the handlers, as functions of the client's memory *)

revoke(x, t) == [x EXCEPT !.asked = IF t = "none" THEN @ ELSE @ \cup {t}]
enqueue(x, w) == [x EXCEPT !.queue = Append(@, w)]
retire(x) == [x EXCEPT !.attachment = Detached, !.requests = {}]

Current(x, t) == x.attachment.token = t

\* Mutant: a refusal counts against whatever credential there is now.
pauseAnyway(x, t) == IF x.attachment = Detached THEN x ELSE [x EXCEPT !.attachment.paused = TRUE]

\* A refusal counts against the credential it was an answer to.
pause(x, t) == IF Current(x, t) THEN [x EXCEPT !.attachment.paused = TRUE] ELSE x

End(x, a) == [x EXCEPT !.attempts[a].pc = "ended", !.flight = IF @ = a THEN 0 ELSE @]

\* Mutant: only a signed-out client gives a token back.
OrphanedSignedOut(x, t) == x.persisted = None

\* install's catch: a token that is not the one in use is given back.
Orphaned(x, t) == x.persisted.token # t
InstallFails(x, a) ==
    LET t == x.attempts[a].token
    IN  End(IF Orphaned(x, t) THEN revoke(x, t) ELSE x, a)

\* The aborted attempt's promise settles at once; its work goes on unseen,
\* except for a session read, which is given up.
Abort(x) ==
    LET a == x.attempt
        y == [x EXCEPT !.attempts[a].aborted = TRUE, !.flight = 0]
    IN  IF a = 0 THEN x
        ELSE IF x.attempts[a].pc = "reading" THEN InstallFails(y, a) ELSE y

\* authorize(): the account's request goes out, waits for a verification or fails.
Authorized(x, retry) ==
    LET t == x.attachment.token
        phase == IF x.attachment.verified THEN "sent" ELSE "verifying"
        y == [x EXCEPT !.requests = @ \cup {[phase |-> phase, token |-> t, retry |-> retry]}]
    IN  IF x.attachment = Detached \/ x.attachment.paused THEN x
        ELSE IF x.attachment.verified THEN y
        ELSE [y EXCEPT !.verifying = @ \cup {t}]

\* The verification of t is over: who waited for it looks again.
VerificationEnds(x, t) ==
    LET waiting == {r \in x.requests : r.phase = "verifying" /\ r.token = t}
        y == [x EXCEPT !.requests = @ \ waiting, !.verifying = @ \ {t}]
        first == IF \E r \in waiting : ~r.retry THEN Authorized(y, FALSE) ELSE y
    IN  IF Current(x, t) /\ ~x.attachment.verified THEN y
        ELSE IF \E r \in waiting : r.retry THEN Authorized(first, TRUE) ELSE first

\* What a pending cancelSignIn() does when the write it waits for settles.
Resolved(x, result) ==
    [x EXCEPT !.cancellation = [phase |-> "none", signal |-> 0, wait |-> 0, result |-> result]]
OwnAbort(x, outcome) == outcome = [how |-> "aborted", by |-> x.cancellation.signal]
CancellationHears(x, outcome) ==
    IF x.cancellation.phase = "retrying"
    THEN Resolved(x, IF outcome.how = "done" THEN "resolved" ELSE "rejected")
    ELSE IF outcome.how = "done" \/ OwnAbort(x, outcome)
    THEN Resolved(x, "resolved")
    ELSE LET y == enqueue(x, [op |-> "restore", by |-> 0, token |-> "none"])
         IN  [y EXCEPT !.cancellation.phase = "retrying", !.cancellation.wait = Len(y.queue)]

\* The first write settles; the next one starts at a later step.
Settle(x, outcome) ==
    LET y == [x EXCEPT !.queue = Tail(@), !.step = "start", !.cell = None,
                       !.previous = None, !.last = outcome]
    IN  IF x.cancellation.wait = 0 THEN y
        ELSE IF x.cancellation.wait = 1
        THEN CancellationHears([y EXCEPT !.cancellation.wait = 0], outcome)
        ELSE [y EXCEPT !.cancellation.wait = @ - 1]

Done == [how |-> "done", by |-> 0]
Failed == [how |-> "failed", by |-> 0]
InstallRejects(x, a, outcome) == Settle(InstallFails(x, a), outcome)
InstallAborts(x, a) == InstallRejects(x, a, [how |-> "aborted", by |-> a])

-------------------------------------------------------------------------------
(* Sign-in attempts *)

Client(y) == c' = y /\ UNCHANGED <<stored, dirty, dead, faults>>

\* run(): startSignIn() or completeSignIn() supersedes an attempt of the other kind.
Run(kind) ==
    /\ ~c.disposed /\ c.cancellation.phase = "none"
    /\ \A b \in SignIns : b = c.flight => c.attempts[b].kind # kind
    /\ \E a \in SignIns :
        /\ a = c.attempt + 1
        /\ Client([Abort(c) EXCEPT !.attempt = a, !.flight = a,
                                   !.attempts[a].kind = kind, !.attempts[a].pc = "launching"])

\* The launcher only opened a page, or threw.
LauncherEnds(a) ==
    /\ c.attempts[a].pc = "launching"
    /\ Client(End(c, a))

\* The launcher returns a token; install() begins.
LauncherReturns(a) ==
    /\ c.attempts[a].pc = "launching"
    /\ \E t \in Tokens \ c.issued :
        LET x == [c EXCEPT !.attempts[a].token = t, !.issued = @ \cup {t}]
        IN  Client(IF x.attempts[a].aborted THEN InstallFails(x, a)
                   ELSE [x EXCEPT !.attempts[a].pc = "reading"])

SessionRead(a) ==
    /\ c.attempts[a].pc = "reading"
    /\ \/ Client(enqueue([c EXCEPT !.attempts[a].pc = "queued"],
                         [op |-> "install", by |-> a, token |-> c.attempts[a].token]))
       \/ Client(InstallFails(c, a)) \* refused or unreachable

RevocationEnds(a) ==
    /\ c.attempts[a].pc = "revoking"
    /\ Client(IF c.attempts[a].aborted THEN InstallFails(c, a) ELSE End(c, a))

-------------------------------------------------------------------------------
(* The serialized writes *)

Head1 == Head(c.queue)
Writing(x, step, cell) == [x EXCEPT !.step = step, !.cell = cell]

BeginClear ==
    /\ Head1.op = "clear"
    /\ Client(Writing(c, "last", None))

BeginRestore ==
    /\ Head1.op = "restore"
    /\ Client(Writing(c, "last", c.persisted))

\* verify() found another principal behind the token.
BeginMismatch ==
    /\ Head1.op = "mismatch"
    /\ Client(IF Current(c, Head1.token)
              THEN Writing([retire(c) EXCEPT !.persisted = None], "last", None)
              ELSE VerificationEnds(Settle(c, Done), Head1.token))

OtherAccount(x, t) == x.attachment # Detached /\ x.attachment.principal # PrincipalOf(t)

BeginInstall ==
    /\ Head1.op = "install"
    /\ LET a == Head1.by
           t == Head1.token
       IN  Client(IF c.attempts[a].aborted THEN InstallAborts(c, a)
                  ELSE IF OtherAccount(c, t)
                  THEN Writing([retire(c) EXCEPT !.persisted = None, !.previous = c.persisted],
                               "clearing", None)
                  ELSE Writing(c, "writing", Credential(t)))

Begin ==
    /\ c.queue # <<>> /\ c.step = "start"
    /\ BeginClear \/ BeginRestore \/ BeginMismatch \/ BeginInstall

\* The new credential is in the cell: it becomes the client's.
Commit(x, a) ==
    LET next == x.cell
        old  == x.persisted.token
        y    == [x EXCEPT !.persisted = next, !.attachment = Attached(next, TRUE),
                          !.attempts[a].pc = "revoking"]
    IN  Settle(revoke(y, old), Done)

\* Mutant: the write stays although its attempt was aborted.
MustRollBackNever(x, a) == FALSE

\* The sign-in was aborted while its credential was being written.
MustRollBack(x, a) == x.attempts[a].aborted

AfterWrite(x) ==
    LET a == Head1.by
    IN  CASE x.step = "last" /\ Head1.op = "mismatch" ->
                 VerificationEnds(Settle(x, Done), Head1.token)
          [] x.step = "last" /\ Head1.op # "mismatch" -> Settle(x, Done)
          [] x.step = "clearing" ->
                 LET y == revoke(x, x.previous.token)
                 IN  IF x.attempts[a].aborted THEN InstallAborts(y, a)
                     ELSE Writing(y, "writing", Credential(Head1.token))
          [] x.step = "writing" -> IF MustRollBack(x, a) THEN Writing(x, "rollback", x.persisted)
                                   ELSE Commit(x, a)
          [] x.step = "rollback" -> InstallAborts(x, a)

SetReturns ==
    /\ c.queue # <<>> /\ c.step # "start"
    /\ c' = AfterWrite(c)
    /\ stored' = c.cell /\ dirty' = FALSE
    /\ UNCHANGED <<dead, faults>>

\* A failed write may or may not have changed the cell.
SetFails ==
    /\ c.queue # <<>> /\ c.step # "start" /\ faults < MaxFailures
    /\ LET x == IF c.step = "clearing" /\ c.previous # None
                THEN [c EXCEPT !.forgotten = @ \cup {c.previous.token}] ELSE c
       IN  c' = IF Head1.op = "install" THEN InstallRejects(x, Head1.by, Failed)
                ELSE IF Head1.op = "mismatch" THEN VerificationEnds(Settle(x, Failed), Head1.token)
                ELSE Settle(x, Failed)
    /\ stored' \in {stored, c.cell} /\ dirty' = TRUE
    /\ faults' = faults + 1 /\ UNCHANGED dead

-------------------------------------------------------------------------------
(* The client's other calls *)

signOut ==
    LET y == retire([Abort(c) EXCEPT !.persisted = None, !.flight = 0])
    IN  /\ Len(c.queue) < MaxWrites
        /\ Client(revoke(enqueue(y, [op |-> "clear", by |-> 0, token |-> "none"]),
                         c.persisted.token))

dispose ==
    /\ ~c.disposed
    /\ Client(retire([Abort(c) EXCEPT !.disposed = TRUE, !.flight = 0]))

cancelSignIn ==
    /\ c.cancellation.phase = "none"
    /\ Client([Abort(c) EXCEPT !.cancellation = [phase |-> "called", signal |-> c.attempt,
                                                 wait |-> 0, result |-> "none"]])

\* The cancelled flight is over: wait for the last write there is now.
CancellationWaits ==
    /\ c.cancellation.phase = "called"
    /\ LET x == [c EXCEPT !.cancellation.phase = "waiting", !.cancellation.wait = Len(c.queue)]
       IN  Client(IF c.queue = <<>> THEN CancellationHears(x, c.last) ELSE x)

-------------------------------------------------------------------------------
(* The account's requests *)

Fetch ==
    /\ c.attachment # Detached /\ Cardinality(c.requests) < MaxRequests
    /\ Client(Authorized(c, FALSE))

\* verify(): the session read of a restored credential is answered.
VerifyPasses(t) ==
    /\ PrincipalOf(t) = c.attachment.principal \/ ~Current(c, t)
    /\ Client(VerificationEnds(IF Current(c, t) THEN [c EXCEPT !.attachment.verified = TRUE]
                               ELSE c, t))
VerifyRefused(t) ==
    /\ t \in dead
    /\ Client(VerificationEnds(pause(c, t), t))
VerifyUnreachable(t) == Client(VerificationEnds(c, t))
VerifyMismatch(t) ==
    /\ Current(c, t) /\ PrincipalOf(t) # c.attachment.principal
    /\ Client(enqueue(c, [op |-> "mismatch", by |-> 0, token |-> t]))

Verifies ==
    \E t \in c.verifying :
        /\ \A i \in 1 .. Len(c.queue) : c.queue[i].op # "mismatch" \* it has its answer
        /\ \/ VerifyPasses(t) \/ VerifyRefused(t) \/ VerifyUnreachable(t) \/ VerifyMismatch(t)

\* Any other answer than 401, or a caller that stops waiting.
Answered(r) == Client([c EXCEPT !.requests = @ \ {r}])

\* A 401 for a credential that has been replaced is retried once.
Refused(r) ==
    /\ r.phase = "sent" /\ r.token \in dead
    /\ LET y == [c EXCEPT !.requests = @ \ {r}]
       IN  Client(IF r.retry \/ Current(y, r.token) THEN pause(y, r.token)
                  ELSE Authorized(y, TRUE))

\* The server ends a session: it expires, or a revocation reaches it.
TokenDies ==
    /\ \E t \in c.issued \ dead : dead' = dead \cup {t}
    /\ UNCHANGED <<c, stored, dirty, faults>>

-------------------------------------------------------------------------------
AuthNext ==
    \/ \E kind \in {"start", "complete"} : Run(kind)
    \/ \E a \in SignIns : LauncherEnds(a) \/ LauncherReturns(a) \/ SessionRead(a) \/ RevocationEnds(a)
    \/ Begin \/ SetReturns \/ SetFails
    \/ signOut \/ dispose \/ cancelSignIn \/ CancellationWaits
    \/ Fetch \/ Verifies \/ (\E r \in c.requests : Answered(r) \/ Refused(r))
    \/ TokenDies

AuthSpec == AuthInit /\ [][AuthNext]_authVars

-------------------------------------------------------------------------------
AuthTypeOK ==
    /\ {c.persisted, c.cell, c.previous, stored} \subseteq PersistedAuth \cup {None}
    /\ c.attachment \in Attachment \cup {Detached}
    /\ c.attempts \in [SignIns -> Attempt] /\ {c.attempt, c.flight} \subseteq 0 .. MaxAttempts
    /\ \A i \in 1 .. Len(c.queue) : c.queue[i] \in Write
    /\ c.last \in Outcome /\ c.requests \subseteq Request /\ c.verifying \subseteq Tokens
    /\ c.asked \cup c.forgotten \cup c.issued \cup dead \subseteq Tokens

\* Once the writes have settled, and the last of them did not fail, the cell
\* holds the credential the client believes in: whatever was cancelled,
\* superseded, signed out or disposed in between, no half-made sign-in is left
\* for the next start.  The attached account is always the persisted one
\* (install's rollback, signOut, verify).
StorageAgrees ==
    /\ AuthTypeOK
    /\ c.queue = <<>> /\ ~dirty => stored = c.persisted
    /\ c.attachment # Detached =>
        /\ c.attachment.token = c.persisted.token
        /\ c.attachment.principal = c.persisted.principal
    /\ c.persisted # None /\ ~c.disposed => c.attachment # Detached

\* A token a sign-in obtained is in use or its revocation has been requested
\* once the attempt is over, however it ended; the one exception is a token
\* whose cell could not be cleared for the next account (install's catch, the
\* replaced credential, signOut).
NoTokenForgotten ==
    \A a \in SignIns : c.attempts[a].pc \in {"ended", "revoking"} =>
        c.attempts[a].token \in c.asked \cup c.forgotten
                               \cup {"none", c.persisted.token, c.previous.token}

\* The account asks for a new sign-in only when its present credential was
\* refused, never for a late 401 or verification of one that has been replaced;
\* and no request carries a token of another principal, even from a cell whose
\* cached principal is wrong (pause, verify, accountFetch).
RefusalIsCurrent ==
    /\ c.attachment.paused => c.attachment.token \in dead
    /\ \A r \in c.requests : r.phase = "sent" => PrincipalOf(r.token) = c.attachment.principal
================================================================================
