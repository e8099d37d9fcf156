--------------------------- MODULE SyncConnection ---------------------------
(***************************************************************************)
(* The driver that keeps one replica's sync client on a socket             *)
(* (packages/app/src/data/sync/connection.ts): dialling, admission, the    *)
(* watchdog, backoff, retirement and disposal.                             *)
(*                                                                         *)
(* The host's sockets (attach.ts) call back whenever they like, also long  *)
(* after the driver has let them go, and also inside the call that creates *)
(* or feeds them.  A timer is a flag: armed, and free to fire at any time. *)
(***************************************************************************)
EXTENDS Integers

CONSTANTS MaxDials,      \* bound: sockets dialled
          MaxSubmissions \* bound: submissions sent

ASSUME DialsAssumption == MaxDials \in Nat \ {0} /\ MaxSubmissions \in Nat

Attempts == 1..(2 * MaxDials)

VARIABLES
    running, disposed, retired, connected,
    attempt,   \* which attempt is the live one
    teardown,  \* the attempt whose socket is held, or 0
    redial, admission, healthy, watchdog, \* timers
    watched,   \* the submission the watchdog saw on its previous tick, or 0
    failures, lastReconnect,
    submission, nextSubmission, \* the client's unanswered submission, or 0
    host,      \* host[n]: the socket of attempt n
    onRetired, \* how often the owner was told to discard its backing
    answered   \* ghost: a submission was answered since the last tick

flags == <<running, disposed, retired, onRetired>>
timers == <<redial, admission, healthy, watchdog, watched>>
vars == <<flags, connected, attempt, teardown, timers, failures, lastReconnect,
          submission, nextSubmission, host, answered>>

Init ==
    /\ running = FALSE /\ disposed = FALSE /\ retired = FALSE /\ connected = FALSE
    /\ attempt = 0 /\ teardown = 0
    /\ redial = FALSE /\ admission = FALSE /\ healthy = FALSE /\ watchdog = FALSE
    /\ watched = 0 /\ failures = 0 /\ lastReconnect = "none"
    /\ submission = 0 /\ nextSubmission = 1
    /\ host = [n \in Attempts |-> "none"]
    /\ onRetired = 0 /\ answered = FALSE

-----------------------------------------------------------------------------
(* Letting go *)

\* cancelTimers() and the client's detach().
LetGo ==
    /\ attempt' = attempt + 1
    /\ admission' = FALSE /\ healthy' = FALSE /\ watchdog' = FALSE /\ watched' = 0
    /\ teardown' = 0
    /\ connected' = FALSE
    /\ submission' = 0

\* The held socket is closed; its close event comes later, if at all.
Stopped(sockets, n) ==
    IF n = 0 \/ sockets[n] = "closed" THEN sockets ELSE [sockets EXCEPT ![n] = "stopped"]

\* reconnect(): one path for every reason.
Reconnect(reason, sockets) ==
    /\ lastReconnect' = reason
    /\ LetGo
    /\ host' = Stopped(sockets, teardown)
    /\ failures' = failures + 1
    /\ redial' = TRUE
    /\ UNCHANGED flags

\* Mutant: a redial that was already scheduled still comes.
RedialKept == redial

\* cancelRedial()
RedialCancelled == FALSE

\* shutdown()
Shutdown(sockets) ==
    /\ running' = FALSE
    /\ redial' = RedialCancelled
    /\ LetGo
    /\ host' = Stopped(sockets, teardown)
-----------------------------------------------------------------------------
(* Dialling *)

\* Mutant: the teardown of an attempt that ended inside dial() is kept.
HeldAfterSyncClose(n) == n

\* The attempt ended during dial() itself: its teardown runs at once.
HeldAfterClosedInDial(n) == 0

\* open(): the host answers later, or reports its failure before dial() returns.
Open ==
    /\ teardown = 0
    /\ attempt + 2 <= 2 * MaxDials
    /\ LET n == attempt + 1
       IN  \/ /\ attempt' = n
              /\ admission' = TRUE
              /\ teardown' = n
              /\ host' = [host EXCEPT ![n] = "dialling"]
              /\ redial' = FALSE
              /\ UNCHANGED <<failures, lastReconnect>>
           \/ /\ attempt' = n + 1
              /\ admission' = FALSE
              /\ teardown' = HeldAfterClosedInDial(n)
              /\ host' = [host EXCEPT ![n] = "closed"]
              /\ redial' = TRUE
              /\ failures' = failures + 1
              /\ lastReconnect' = "closed"

Start ==
    /\ ~disposed /\ ~running
    /\ running' = TRUE
    /\ Open
    /\ UNCHANGED <<disposed, retired, onRetired, connected, healthy, watchdog, watched,
                   submission, nextSubmission, answered>>

\* The redial timer fires; open() does nothing while a socket is held.
RedialFires ==
    /\ redial
    /\ IF teardown = 0 THEN Open
       ELSE redial' = FALSE /\ UNCHANGED <<attempt, admission, teardown, host, failures,
                                           lastReconnect>>
    /\ UNCHANGED <<flags, connected, healthy, watchdog, watched, submission,
                   nextSubmission, answered>>

live(n) == running /\ attempt = n

\* opened: the socket is known.  A socket that was stopped while dialling is
\* closed by the host without a word.
HostOpens(n) ==
    /\ host[n] = "dialling"
    /\ host' = [host EXCEPT ![n] = "open"]
    /\ UNCHANGED <<flags, connected, attempt, teardown, timers, failures, lastReconnect,
                   submission, nextSubmission, answered>>

\* What a host may do late: a stopped socket's queued messages and its close.
Callback(n) == host[n] \in {"open", "stopped"}

\* closed(), refused or not, of a live or of an abandoned attempt.
HostCloses(n) ==
    /\ Callback(n) \/ host[n] = "dialling"
    /\ LET sockets == [host EXCEPT ![n] = "closed"]
       IN  IF live(n)
             THEN \E reason \in {"closed", "refused"} :
                    /\ reason = "refused" => host[n] = "dialling"
                    /\ Reconnect(reason, sockets)
                    /\ UNCHANGED <<nextSubmission, answered>>
             ELSE /\ host' = sockets
                  /\ UNCHANGED <<flags, connected, attempt, teardown, timers, failures,
                                 lastReconnect, submission, nextSubmission, answered>>
-----------------------------------------------------------------------------
(* Frames *)

\* The client's send(): it may or may not owe something.
MaySend ==
    \/ submission' = 0 /\ UNCHANGED nextSubmission
    \/ /\ nextSubmission <= MaxSubmissions
       /\ submission' = nextSubmission
       /\ nextSubmission' = nextSubmission + 1

\* attach's own send may be answered, and the attempt ended, before it returns:
\* nothing is armed for it.
ArmedAfterEnd == FALSE

\* admitted: attach() sends at once, and the health timer and watchdog start.
ReceiveAdmitted(n) ==
    /\ Callback(n)
    /\ live(n) /\ host[n] = "open" /\ ~connected
    /\ \/ /\ connected' = TRUE
          /\ admission' = FALSE
          /\ MaySend
          /\ healthy' = TRUE /\ watchdog' = TRUE
          /\ watched' = submission'
          /\ answered' = FALSE
          /\ UNCHANGED <<flags, attempt, teardown, redial, failures, lastReconnect, host>>
       \/ /\ nextSubmission <= MaxSubmissions
          /\ nextSubmission' = nextSubmission + 1
          /\ lastReconnect' = "closed"
          /\ attempt' = attempt + 1
          /\ admission' = FALSE
          /\ healthy' = ArmedAfterEnd /\ watchdog' = ArmedAfterEnd /\ watched' = 0
          /\ teardown' = 0 /\ connected' = FALSE /\ submission' = 0
          /\ host' = [host EXCEPT ![n] = "closed"]
          /\ failures' = failures + 1
          /\ redial' = TRUE
          /\ UNCHANGED <<flags, answered>>

\* An answer to the submission in flight: the next one may follow at once.
ReceiveAnswer(n) ==
    /\ Callback(n) /\ live(n) /\ connected
    /\ submission # 0
    /\ MaySend
    /\ answered' = TRUE
    /\ UNCHANGED <<flags, connected, attempt, teardown, timers, failures, lastReconnect, host>>

\* A frame that leaves the client needing a catch-up from its cursor.
ReceiveGap(n) ==
    /\ Callback(n) /\ live(n) /\ connected
    /\ Reconnect("resync", host)
    /\ UNCHANGED <<nextSubmission, answered>>

\* retired: sends and retries stop before the owner is told, once.
ReceiveRetired(n) ==
    /\ Callback(n) /\ live(n)
    /\ retired' = TRUE
    /\ disposed' = TRUE
    /\ Shutdown(host)
    /\ onRetired' = onRetired + 1
    /\ UNCHANGED <<failures, lastReconnect, nextSubmission, answered>>

\* A nudge or a flush() finds work and no submission out.
Send ==
    /\ connected /\ submission = 0 /\ nextSubmission <= MaxSubmissions
    /\ submission' = nextSubmission
    /\ nextSubmission' = nextSubmission + 1
    /\ UNCHANGED <<flags, connected, attempt, teardown, timers, failures, lastReconnect,
                   host, answered>>
-----------------------------------------------------------------------------
(* Timers *)

AdmissionFires ==
    /\ admission
    /\ Reconnect("admission", host)
    /\ UNCHANGED <<nextSubmission, answered>>

HealthyFires ==
    /\ healthy
    /\ healthy' = FALSE
    /\ failures' = 0
    /\ UNCHANGED <<flags, connected, attempt, teardown, redial, admission, watchdog, watched,
                   lastReconnect, submission, nextSubmission, host, answered>>

\* Mutant: the flag is compared and not the submission's number.
StalledByFlag == submission # 0 /\ watched # 0

Stalled == submission # 0 /\ submission = watched

\* Mutant: the tick reports and does not start the next one.
RearmedNever == FALSE

Rearmed == TRUE

WatchdogFires ==
    /\ watchdog
    /\ \/ /\ Stalled
          /\ Reconnect("stalled", host)
          /\ UNCHANGED <<nextSubmission, answered>>
       \/ /\ ~Stalled
          /\ watched' = submission
          /\ watchdog' = Rearmed
          /\ answered' = FALSE
          /\ UNCHANGED <<flags, connected, attempt, teardown, redial, admission, healthy,
                         failures, lastReconnect, submission, nextSubmission, host>>

Dispose ==
    /\ ~disposed
    /\ disposed' = TRUE
    /\ Shutdown(host)
    /\ UNCHANGED <<retired, onRetired, failures, lastReconnect, nextSubmission, answered>>

Next ==
    \/ Start
    \/ RedialFires
    \/ AdmissionFires
    \/ HealthyFires
    \/ WatchdogFires
    \/ Send
    \/ Dispose
    \/ \E n \in Attempts :
         \/ HostOpens(n)
         \/ HostCloses(n)
         \/ ReceiveAdmitted(n)
         \/ ReceiveAnswer(n)
         \/ ReceiveGap(n)
         \/ ReceiveRetired(n)

Spec == Init /\ [][Next]_vars

\* An armed timer fires.  Nothing is assumed of the host or of the network.
FairSpec == Spec /\ WF_vars(RedialFires) /\ WF_vars(AdmissionFires) /\ WF_vars(WatchdogFires)
-----------------------------------------------------------------------------
TypeOK ==
    /\ running \in BOOLEAN /\ disposed \in BOOLEAN /\ retired \in BOOLEAN
    /\ connected \in BOOLEAN
    /\ attempt \in 0..(2 * MaxDials + 1) /\ teardown \in 0..(2 * MaxDials)
    /\ redial \in BOOLEAN /\ admission \in BOOLEAN /\ healthy \in BOOLEAN
    /\ watchdog \in BOOLEAN
    /\ watched \in 0..MaxSubmissions /\ submission \in 0..MaxSubmissions
    /\ nextSubmission \in 1..(MaxSubmissions + 1)
    /\ failures \in Nat
    /\ lastReconnect \in {"none", "closed", "refused", "resync", "admission", "stalled"}
    /\ host \in [Attempts -> {"none", "dialling", "open", "stopped", "closed"}]
    /\ onRetired \in Nat
    /\ answered \in BOOLEAN

\* One socket at a time, and it is the live attempt's: a late close or a
\* synchronous failure neither leaves a second socket open nor keeps a dead one.
OneSocket ==
    /\ teardown \in {0, attempt}
    /\ \A n \in Attempts : host[n] \in {"dialling", "open"} => n = teardown

\* A running driver is never stranded: it waits for a redial, for admission
\* under a deadline, or on a connection under the watchdog's eye.
NeverStranded ==
    running => \/ redial
               \/ teardown # 0 /\ ~connected /\ admission
               \/ teardown # 0 /\ connected /\ watchdog

\* A timer of an attempt does not outlive it.
TimersBelong ==
    /\ admission => teardown # 0 /\ ~connected
    /\ healthy \/ watchdog => connected

\* At every moment the driver holds one attempt, with its own timers and a way
\* forward, whatever callbacks of abandoned sockets arrive, early or late.
OneLiveSocket == TypeOK /\ OneSocket /\ NeverStranded /\ TimersBelong

\* After retirement or disposal nothing sends, retries or fires, and the owner
\* is told to discard its backing once and only for a retirement.
EndedForGood ==
    /\ disposed => ~running /\ ~connected /\ teardown = 0
                   /\ ~redial /\ ~admission /\ ~healthy /\ ~watchdog
    /\ onRetired = (IF retired THEN 1 ELSE 0)

\* The watchdog ends only a connection that answered nothing for a whole
\* interval: sustained work on a healthy socket is not mistaken for a stall.
StalledMeansSilent ==
    [][attempt' # attempt /\ running' /\ watchdog /\ lastReconnect' = "stalled"
         => ~answered]_vars

\* A submission the authority never answers does not stay in flight for ever.
NoSilentStall ==
    \A n \in 1..MaxSubmissions : (submission = n) ~> (submission # n)
=============================================================================
