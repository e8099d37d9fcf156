---------------------------- MODULE ClientProofs ----------------------------
(***************************************************************************)
(* Proofs about three parts of a client that share no state:               *)
(*  - SyncConnection: what the driver's flags say is tied to what the      *)
(*    host's sockets are in (a held socket is the live attempt's, every    *)
(*    socket of an earlier attempt is stopped or closed, and none exists   *)
(*    for a later one);                                                    *)
(*  - ChunkCollector: a payload is complete only with its own last chunk,  *)
(*    and the chunks beside it are of the same sending;                    *)
(*  - SessionAuth: the credential, the attempts, the queue of writes and   *)
(*    the write under way agree with each other at every await.            *)
(* Each holds for every value of that component's constants.               *)
(***************************************************************************)
EXTENDS SyncConnection, ChunkCollector, SessionAuth, FiniteSetTheorems, TLAPS

(* SyncConnection: the driver *)

\* A socket is held only while running, and it has not been closed.
HeldIsAlive ==
    /\ teardown # 0 => running /\ host[teardown] \in {"dialling", "open"}
    /\ connected => teardown # 0
    /\ submission # 0 => connected

\* No socket exists for an attempt that was not dialled.
NotYetDialled ==
    \A n \in Attempts : n >= attempt /\ n # teardown => host[n] = "none"

\* Every held socket leaves room for the attempt that lets it go.
RoomToLetGo ==
    /\ teardown # 0 => attempt < 2 * MaxDials
    /\ ~disposed => attempt <= 2 * MaxDials

RedialWaits == redial => running /\ teardown = 0

\* Retirement disposes, and is reported once.
EndIsFinal ==
    /\ disposed => ~running
    /\ retired => disposed
    /\ onRetired = IF retired THEN 1 ELSE 0

\* A submission number is used once, so an answered one is never the one the
\* watchdog saw on its previous tick.
WatchedIsOld ==
    /\ submission < nextSubmission
    /\ watched < nextSubmission
    /\ answered => submission = 0 \/ watched # submission

DriverI ==
    /\ TypeOK /\ OneSocket /\ NeverStranded /\ TimersBelong
    /\ HeldIsAlive /\ NotYetDialled /\ RoomToLetGo /\ RedialWaits
    /\ EndIsFinal /\ WatchedIsOld
-----------------------------------------------------------------------------
LEMMA DriverInitHolds == Init => DriverI
<1>. SUFFICES ASSUME Init PROVE DriverI
  OBVIOUS
<1>. USE DialsAssumption DEF Init
<1>1. TypeOK
  <2>1. /\ 0 \in 0..(2 * MaxDials + 1) /\ 0 \in 0..(2 * MaxDials)
        /\ 0 \in 0..MaxSubmissions /\ 1 \in 1..(MaxSubmissions + 1)
    OBVIOUS
  <2>2. host \in [Attempts -> {"none", "dialling", "open", "stopped", "closed"}]
    OBVIOUS
  <2>. QED
    BY <2>1, <2>2 DEF TypeOK
<1>2. OneSocket /\ NotYetDialled
  BY DEF OneSocket, NotYetDialled
<1>3. NeverStranded /\ TimersBelong /\ HeldIsAlive /\ RedialWaits
  BY DEF NeverStranded, TimersBelong, HeldIsAlive, RedialWaits
<1>4. RoomToLetGo /\ EndIsFinal /\ WatchedIsOld
  BY DEF RoomToLetGo, EndIsFinal, WatchedIsOld
<1>. QED
  BY <1>1, <1>2, <1>3, <1>4 DEF DriverI

\* Whatever made the driver let go of the socket it held, the next state waits
\* for a redial and holds nothing.
LEMMA ReconnectKeeps ==
    ASSUME DriverI, teardown # 0, NEW reason, NEW sockets,
           reason \in {"closed", "refused", "resync", "admission", "stalled"},
           \/ sockets = host
           \/ sockets = [host EXCEPT ![teardown] = "closed"],
           Reconnect(reason, sockets),
           UNCHANGED <<nextSubmission, answered>>
    PROVE  DriverI'
<1>. USE DialsAssumption DEF DriverI, Reconnect, LetGo, flags
<1>1. teardown = attempt /\ attempt \in Attempts /\ attempt < 2 * MaxDials
  BY DEF OneSocket, RoomToLetGo, TypeOK, Attempts
<1>2. /\ host' \in [Attempts -> {"none", "dialling", "open", "stopped", "closed"}]
      /\ host'[attempt] \in {"stopped", "closed"}
      /\ \A n \in Attempts : n # attempt => host'[n] = host[n]
  BY <1>1 DEF Stopped, TypeOK
<1>3. TypeOK'
  <2>1. attempt' \in 0..(2 * MaxDials + 1) /\ teardown' \in 0..(2 * MaxDials)
    BY <1>1 DEF TypeOK
  <2>2. /\ watched' \in 0..MaxSubmissions /\ submission' \in 0..MaxSubmissions
        /\ failures' \in Nat
    BY DEF TypeOK
  <2>. QED
    BY <1>2, <2>1, <2>2 DEF TypeOK
<1>4. OneSocket'
  BY <1>1, <1>2 DEF OneSocket, TypeOK, Attempts
<1>5. NeverStranded' /\ TimersBelong'
  BY DEF NeverStranded, TimersBelong
<1>6. HeldIsAlive'
  BY DEF HeldIsAlive
<1>7. NotYetDialled'
  BY <1>1, <1>2 DEF NotYetDialled, TypeOK, Attempts
<1>8. RoomToLetGo'
  BY <1>1 DEF RoomToLetGo, TypeOK
<1>9. RedialWaits' /\ EndIsFinal'
  BY DEF RedialWaits, EndIsFinal, HeldIsAlive
<1>10. WatchedIsOld'
  BY DEF WatchedIsOld, TypeOK
<1>. QED
  BY <1>3, <1>4, <1>5, <1>6, <1>7, <1>8, <1>9, <1>10

\* shutdown() leaves nothing armed and nothing held.
LEMMA ShutdownKeeps ==
    ASSUME DriverI, ~disposed, disposed' = TRUE, Shutdown(host),
           \/ retired' = retired /\ onRetired' = onRetired
           \/ retired' = TRUE /\ onRetired' = onRetired + 1,
           UNCHANGED <<failures, lastReconnect, nextSubmission, answered>>
    PROVE  DriverI'
<1>. USE DialsAssumption DEF DriverI, Shutdown, LetGo, RedialCancelled
<1>1. attempt \in 0..(2 * MaxDials)
  BY DEF RoomToLetGo, TypeOK
<1>2. /\ host' \in [Attempts -> {"none", "dialling", "open", "stopped", "closed"}]
      /\ \A n \in Attempts : host'[n] \notin {"dialling", "open"}
      /\ \A n \in Attempts : n # teardown => host'[n] = host[n]
  BY DEF Stopped, TypeOK, OneSocket, Attempts
<1>3. TypeOK'
  <2>1. retired' \in BOOLEAN /\ disposed' \in BOOLEAN
    BY Zenon DEF TypeOK
  <2>2. onRetired' \in Nat
    BY DEF TypeOK
  <2>3. /\ attempt' \in 0..(2 * MaxDials + 1) /\ teardown' \in 0..(2 * MaxDials)
        /\ watched' \in 0..MaxSubmissions /\ submission' \in 0..MaxSubmissions
    BY <1>1
  <2>. QED
    BY <1>2, <2>1, <2>2, <2>3, Zenon DEF TypeOK
<1>5. OneSocket' /\ NeverStranded' /\ TimersBelong' /\ HeldIsAlive'
  BY <1>2 DEF OneSocket, NeverStranded, TimersBelong, HeldIsAlive
<1>6. NotYetDialled'
  BY <1>1, <1>2 DEF NotYetDialled, OneSocket, TypeOK, Attempts
<1>7. RoomToLetGo' /\ RedialWaits'
  BY <1>1 DEF RoomToLetGo, RedialWaits
<1>8. EndIsFinal'
  BY DEF EndIsFinal, TypeOK
<1>9. WatchedIsOld'
  BY DEF WatchedIsOld, TypeOK
<1>. QED
  BY <1>3, <1>5, <1>6, <1>7, <1>8, <1>9

\* open() finds no socket, and leaves one under its deadline or a redial.
LEMMA OpenKeeps ==
    ASSUME DriverI, Open, running' = TRUE, ~disposed, ~connected,
           UNCHANGED <<disposed, retired, onRetired, connected, healthy, watchdog, watched,
                       submission, nextSubmission, answered>>
    PROVE  DriverI'
<1>. USE DialsAssumption DEF DriverI
<1>. DEFINE n == attempt + 1
<1>1. /\ n \in Attempts /\ n + 1 \in Attempts /\ teardown = 0
      /\ host[n] = "none" /\ host[n + 1] = "none"
  BY DEF Open, NotYetDialled, TypeOK, Attempts
<1>2. CASE /\ attempt' = n /\ admission' = TRUE /\ teardown' = n
           /\ host' = [host EXCEPT ![n] = "dialling"] /\ redial' = FALSE
           /\ UNCHANGED <<failures, lastReconnect>>
  <2>1. TypeOK'
    <3>1. attempt' \in 0..(2 * MaxDials + 1) /\ teardown' \in 0..(2 * MaxDials)
      BY <1>1, <1>2 DEF Attempts
    <3>2. failures' \in Nat
      BY <1>2 DEF TypeOK
    <3>3. host' \in [Attempts -> {"none", "dialling", "open", "stopped", "closed"}]
      BY <1>1, <1>2 DEF TypeOK
    <3>. QED
      BY <1>2, <3>1, <3>2, <3>3, Zenon DEF TypeOK
  <2>2. OneSocket' /\ NotYetDialled'
    BY <1>1, <1>2 DEF OneSocket, NotYetDialled, TypeOK, Attempts
  <2>3. NeverStranded' /\ TimersBelong' /\ HeldIsAlive' /\ RedialWaits'
    BY <1>1, <1>2 DEF NeverStranded, TimersBelong, HeldIsAlive, RedialWaits, TypeOK, Attempts
  <2>4. RoomToLetGo'
    BY <1>1, <1>2 DEF RoomToLetGo, Attempts, TypeOK
  <2>5. EndIsFinal' /\ WatchedIsOld'
    BY DEF EndIsFinal, WatchedIsOld
  <2>. QED
    BY <2>1, <2>2, <2>3, <2>4, <2>5
<1>3. CASE /\ attempt' = n + 1 /\ admission' = FALSE /\ teardown' = 0
           /\ host' = [host EXCEPT ![n] = "closed"] /\ redial' = TRUE
           /\ failures' = failures + 1 /\ lastReconnect' = "closed"
  <2>1. TypeOK'
    <3>1. attempt' \in 0..(2 * MaxDials + 1) /\ teardown' \in 0..(2 * MaxDials)
      BY <1>1, <1>3 DEF Attempts
    <3>2. failures' \in Nat
      BY <1>3 DEF TypeOK
    <3>3. host' \in [Attempts -> {"none", "dialling", "open", "stopped", "closed"}]
      BY <1>1, <1>3 DEF TypeOK
    <3>. QED
      BY <1>3, <3>1, <3>2, <3>3, Zenon DEF TypeOK
  <2>2. OneSocket' /\ NotYetDialled'
    BY <1>1, <1>3 DEF OneSocket, NotYetDialled, TypeOK, Attempts
  <2>3. NeverStranded' /\ TimersBelong' /\ HeldIsAlive' /\ RedialWaits'
    BY <1>1, <1>3 DEF NeverStranded, TimersBelong, HeldIsAlive, RedialWaits
  <2>4. RoomToLetGo'
    BY <1>1, <1>3 DEF RoomToLetGo, Attempts, TypeOK
  <2>5. EndIsFinal' /\ WatchedIsOld'
    BY DEF EndIsFinal, WatchedIsOld
  <2>. QED
    BY <2>1, <2>2, <2>3, <2>4, <2>5
<1>. QED
  BY <1>2, <1>3 DEF Open, HeldAfterClosedInDial
\* A step that leaves the flags, the attempt and its socket alone.
LEMMA StutterKeeps == DriverI /\ UNCHANGED vars => DriverI'
BY DEF DriverI, vars, flags, timers, TypeOK, OneSocket, NeverStranded, TimersBelong,
       HeldIsAlive, NotYetDialled, RoomToLetGo, RedialWaits, EndIsFinal, WatchedIsOld

\* A submission that follows another carries a new number.
LEMMA MaySendIsNew ==
    ASSUME TypeOK, WatchedIsOld, MaySend
    PROVE  /\ submission' \in 0..MaxSubmissions
           /\ nextSubmission' \in 1..(MaxSubmissions + 1)
           /\ submission' < nextSubmission' /\ nextSubmission <= nextSubmission'
           /\ submission' = 0 \/ submission' = nextSubmission
<1>1. CASE submission' = 0 /\ UNCHANGED nextSubmission
  BY <1>1, DialsAssumption DEF TypeOK
<1>2. CASE /\ nextSubmission <= MaxSubmissions
           /\ submission' = nextSubmission
           /\ nextSubmission' = nextSubmission + 1
  BY <1>2, DialsAssumption DEF TypeOK
<1>. QED
  BY <1>1, <1>2 DEF MaySend

LEMMA DriverNextKeeps == DriverI /\ [Next]_vars => DriverI'
<1>. SUFFICES ASSUME DriverI, [Next]_vars PROVE DriverI'
  OBVIOUS
<1>. USE DialsAssumption DEF DriverI
<1>1. CASE Start
  <2>1. ~connected
    BY <1>1 DEF Start, HeldIsAlive
  <2>. QED
    BY <1>1, <2>1, OpenKeeps DEF Start
<1>2. CASE RedialFires
  <2>1. teardown = 0 /\ running /\ ~disposed /\ ~connected
    BY <1>2 DEF RedialFires, RedialWaits, EndIsFinal, HeldIsAlive
  <2>2. running' = TRUE
    BY <1>2, <2>1, Zenon DEF RedialFires, flags, TypeOK
  <2>. QED
    BY <1>2, <2>1, <2>2, OpenKeeps DEF RedialFires, flags
<1>3. CASE AdmissionFires
  <2>1. teardown # 0
    BY <1>3 DEF AdmissionFires, TimersBelong
  <2>. QED
    BY <1>3, <2>1, ReconnectKeeps DEF AdmissionFires
<1>4. CASE HealthyFires
  <2>. USE <1>4 DEF HealthyFires, flags
  <2>1. TypeOK'
    BY DEF TypeOK
  <2>2. OneSocket' /\ NotYetDialled' /\ RoomToLetGo'
    BY DEF OneSocket, NotYetDialled, RoomToLetGo
  <2>3. NeverStranded' /\ TimersBelong' /\ HeldIsAlive' /\ RedialWaits'
    BY DEF NeverStranded, TimersBelong, HeldIsAlive, RedialWaits
  <2>4. EndIsFinal' /\ WatchedIsOld'
    BY DEF EndIsFinal, WatchedIsOld
  <2>. QED
    BY <2>1, <2>2, <2>3, <2>4
<1>5. CASE WatchdogFires
  <2>1. connected /\ teardown # 0
    BY <1>5 DEF WatchdogFires, TimersBelong, HeldIsAlive
  <2>2. CASE Reconnect("stalled", host) /\ UNCHANGED <<nextSubmission, answered>>
    BY <2>1, <2>2, ReconnectKeeps
  <2>3. CASE /\ watched' = submission /\ watchdog' = TRUE /\ answered' = FALSE
             /\ UNCHANGED <<flags, connected, attempt, teardown, redial, admission, healthy,
                            failures, lastReconnect, submission, nextSubmission, host>>
    <3>. USE <2>3 DEF flags
    <3>1. TypeOK'
      BY Zenon DEF TypeOK
    <3>2. OneSocket' /\ NotYetDialled' /\ RoomToLetGo'
      BY DEF OneSocket, NotYetDialled, RoomToLetGo
    <3>3. NeverStranded' /\ TimersBelong' /\ HeldIsAlive' /\ RedialWaits'
      BY <2>1 DEF NeverStranded, TimersBelong, HeldIsAlive, RedialWaits
    <3>4. EndIsFinal' /\ WatchedIsOld'
      BY DEF EndIsFinal, WatchedIsOld
    <3>. QED
      BY <3>1, <3>2, <3>3, <3>4
  <2>. QED
    BY <1>5, <2>2, <2>3 DEF WatchdogFires, Rearmed
<1>6. CASE Send
  <2>. USE <1>6 DEF Send, flags, timers
  <2>1. /\ submission' \in 0..MaxSubmissions
        /\ nextSubmission' \in 1..(MaxSubmissions + 1)
    BY DEF TypeOK
  <2>2. TypeOK'
    BY <2>1, Zenon DEF TypeOK
  <2>3. OneSocket' /\ NotYetDialled' /\ RoomToLetGo'
    BY DEF OneSocket, NotYetDialled, RoomToLetGo
  <2>4. NeverStranded' /\ TimersBelong' /\ HeldIsAlive' /\ RedialWaits'
    BY DEF NeverStranded, TimersBelong, HeldIsAlive, RedialWaits
  <2>5. EndIsFinal'
    BY DEF EndIsFinal
  <2>6. WatchedIsOld'
    BY DEF WatchedIsOld, TypeOK
  <2>. QED
    BY <2>2, <2>3, <2>4, <2>5, <2>6
<1>7. CASE Dispose
  BY <1>7, ShutdownKeeps DEF Dispose
<1>8. ASSUME NEW n \in Attempts, HostOpens(n) PROVE DriverI'
  <2>. USE <1>8 DEF HostOpens, flags, timers
  <2>1. n = teardown
    BY DEF OneSocket
  <2>2. TypeOK'
    BY DEF TypeOK
  <2>3. OneSocket' /\ NotYetDialled' /\ RoomToLetGo'
    BY <2>1 DEF OneSocket, NotYetDialled, RoomToLetGo, TypeOK
  <2>4. NeverStranded' /\ TimersBelong' /\ HeldIsAlive' /\ RedialWaits'
    BY <2>1 DEF NeverStranded, TimersBelong, HeldIsAlive, RedialWaits, TypeOK
  <2>5. EndIsFinal' /\ WatchedIsOld'
    BY DEF EndIsFinal, WatchedIsOld
  <2>. QED
    BY <2>2, <2>3, <2>4, <2>5
<1>9. ASSUME NEW n \in Attempts, HostCloses(n) PROVE DriverI'
  <2>. DEFINE sockets == [host EXCEPT ![n] = "closed"]
  <2>1. CASE live(n)
    <3>1. n = teardown /\ teardown # 0
      BY <1>9, <2>1 DEF live, HostCloses, Callback, NotYetDialled, Attempts
    <3>2. PICK reason \in {"closed", "refused"} :
              Reconnect(reason, sockets) /\ UNCHANGED <<nextSubmission, answered>>
      BY <1>9, <2>1 DEF HostCloses
    <3>3. Reconnect(reason, [host EXCEPT ![teardown] = "closed"])
      BY <3>1, <3>2
    <3>4. reason \in {"closed", "refused", "resync", "admission", "stalled"}
      BY <3>2
    <3>5. DriverI
      OBVIOUS
    <3>. HIDE DEF DriverI
    <3>. QED
      BY <3>1, <3>2, <3>3, <3>4, <3>5, ReconnectKeeps
  <2>2. CASE ~live(n)
    <3>1. host' = sockets /\ UNCHANGED <<flags, connected, attempt, teardown, timers, failures,
                                 lastReconnect, submission, nextSubmission, answered>>
      BY <1>9, <2>2 DEF HostCloses
    <3>2. n # teardown /\ n < attempt
      BY <1>9, <2>2 DEF HostCloses, Callback, live, OneSocket, HeldIsAlive, NotYetDialled,
                        TypeOK, Attempts
    <3>. USE <3>1 DEF flags, timers
    <3>3. TypeOK'
      BY DEF TypeOK
    <3>4. OneSocket' /\ NotYetDialled' /\ RoomToLetGo'
      BY <3>2 DEF OneSocket, NotYetDialled, RoomToLetGo, TypeOK, Attempts
    <3>5. NeverStranded' /\ TimersBelong' /\ HeldIsAlive' /\ RedialWaits'
      BY <3>2 DEF NeverStranded, TimersBelong, HeldIsAlive, RedialWaits, TypeOK
    <3>6. EndIsFinal' /\ WatchedIsOld'
      BY DEF EndIsFinal, WatchedIsOld
    <3>. QED
      BY <3>3, <3>4, <3>5, <3>6
  <2>. QED
    BY <2>1, <2>2
<1>10. ASSUME NEW n \in Attempts, ReceiveAdmitted(n) PROVE DriverI'
  <2>1. /\ running /\ attempt = n /\ n = teardown /\ teardown # 0 /\ host[n] = "open"
        /\ attempt < 2 * MaxDials
    BY <1>10 DEF ReceiveAdmitted, live, OneSocket, RoomToLetGo, Attempts
  <2>2. CASE /\ connected' = TRUE /\ admission' = FALSE
             /\ MaySend
             /\ healthy' = TRUE /\ watchdog' = TRUE
             /\ watched' = submission'
             /\ answered' = FALSE
             /\ UNCHANGED <<flags, attempt, teardown, redial, failures, lastReconnect, host>>
    <3>. USE <2>2 DEF flags
    <3>1. TypeOK'
      <4>1. /\ submission' \in 0..MaxSubmissions /\ watched' \in 0..MaxSubmissions
            /\ nextSubmission' \in 1..(MaxSubmissions + 1)
        BY MaySendIsNew
      <4>. QED
        BY <4>1, Zenon DEF TypeOK
    <3>2. OneSocket' /\ NotYetDialled' /\ RoomToLetGo'
      BY DEF OneSocket, NotYetDialled, RoomToLetGo
    <3>3. NeverStranded' /\ TimersBelong' /\ HeldIsAlive' /\ RedialWaits'
      BY <2>1 DEF NeverStranded, TimersBelong, HeldIsAlive, RedialWaits
    <3>4. EndIsFinal'
      BY DEF EndIsFinal
    <3>5. WatchedIsOld'
      BY MaySendIsNew, Zenon DEF WatchedIsOld
    <3>. QED
      BY <3>1, <3>2, <3>3, <3>4, <3>5
  <2>3. CASE /\ nextSubmission <= MaxSubmissions
             /\ nextSubmission' = nextSubmission + 1
             /\ lastReconnect' = "closed"
             /\ attempt' = attempt + 1
             /\ admission' = FALSE
             /\ healthy' = FALSE /\ watchdog' = FALSE /\ watched' = 0
             /\ teardown' = 0 /\ connected' = FALSE /\ submission' = 0
             /\ host' = [host EXCEPT ![n] = "closed"]
             /\ failures' = failures + 1
             /\ redial' = TRUE
             /\ UNCHANGED <<flags, answered>>
    <3>. USE <2>3 DEF flags
    <3>1. /\ attempt' \in 0..(2 * MaxDials + 1) /\ teardown' \in 0..(2 * MaxDials)
          /\ watched' \in 0..MaxSubmissions /\ submission' \in 0..MaxSubmissions
          /\ nextSubmission' \in 1..(MaxSubmissions + 1)
          /\ failures' \in Nat
      BY <2>1 DEF TypeOK
    <3>2. host' \in [Attempts -> {"none", "dialling", "open", "stopped", "closed"}]
      BY DEF TypeOK
    <3>3. TypeOK'
      BY <3>1, <3>2, Zenon DEF TypeOK
    <3>4. OneSocket' /\ NotYetDialled' /\ RoomToLetGo'
      BY <2>1 DEF OneSocket, NotYetDialled, RoomToLetGo, TypeOK, Attempts
    <3>5. NeverStranded' /\ TimersBelong' /\ HeldIsAlive' /\ RedialWaits'
      BY <2>1 DEF NeverStranded, TimersBelong, HeldIsAlive, RedialWaits
    <3>6. EndIsFinal'
      BY DEF EndIsFinal
    <3>7. WatchedIsOld'
      BY DEF WatchedIsOld, TypeOK
    <3>. QED
      BY <3>3, <3>4, <3>5, <3>6, <3>7
  <2>. QED
    BY <1>10, <2>2, <2>3 DEF ReceiveAdmitted, ArmedAfterEnd
<1>11. ASSUME NEW n \in Attempts, ReceiveAnswer(n) PROVE DriverI'
  <2>. USE <1>11 DEF ReceiveAnswer, flags, timers
  <2>1. TypeOK'
    BY MaySendIsNew, Zenon DEF TypeOK
  <2>2. OneSocket' /\ NotYetDialled' /\ RoomToLetGo'
    BY DEF OneSocket, NotYetDialled, RoomToLetGo
  <2>3. NeverStranded' /\ TimersBelong' /\ HeldIsAlive' /\ RedialWaits'
    BY DEF NeverStranded, TimersBelong, HeldIsAlive, RedialWaits
  <2>4. EndIsFinal'
    BY DEF EndIsFinal
  <2>5. WatchedIsOld'
    BY MaySendIsNew DEF WatchedIsOld, TypeOK
  <2>. QED
    BY <2>1, <2>2, <2>3, <2>4, <2>5
<1>12. ASSUME NEW n \in Attempts, ReceiveGap(n) PROVE DriverI'
  <2>1. teardown # 0
    BY <1>12 DEF ReceiveGap, HeldIsAlive
  <2>. QED
    BY <1>12, <2>1, ReconnectKeeps DEF ReceiveGap
<1>13. ASSUME NEW n \in Attempts, ReceiveRetired(n) PROVE DriverI'
  <2>1. ~disposed
    BY <1>13 DEF ReceiveRetired, live, EndIsFinal
  <2>. QED
    BY <1>13, <2>1, ShutdownKeeps DEF ReceiveRetired
<1>14. CASE UNCHANGED vars
  BY <1>14, StutterKeeps
<1>. QED
  BY <1>1, <1>2, <1>3, <1>4, <1>5, <1>6, <1>7, <1>8, <1>9, <1>10, <1>11, <1>12, <1>13,
     <1>14 DEF Next
-----------------------------------------------------------------------------
\* The inductive invariant holds in every state of the driver, whatever the host
\* reports, the timers do and the owner asks for.
THEOREM DriverInvariant == Spec => []DriverI
BY DriverInitHolds, DriverNextKeeps, PTL DEF Spec

\* The driver of connection.ts holds at most one socket, always the live
\* attempt's; a running driver always waits for something that will come, and
\* no timer outlives its attempt: for any number of dials and any order of
\* late, early and missing callbacks of the host.
THEOREM OneSocketAndAWayForward == Spec => []OneLiveSocket
<1>1. DriverI => OneLiveSocket
  BY DEF DriverI, OneLiveSocket
<1>. QED
  BY <1>1, DriverInvariant, PTL

\* After dispose() or a retirement nothing is held, armed or retried, and
\* onRetired has been called exactly when the store was retired, once.
THEOREM EndIsForGood == Spec => []EndedForGood
<1>1. DriverI => EndedForGood
  BY DEF DriverI, EndedForGood, EndIsFinal, HeldIsAlive, TimersBelong, RedialWaits
<1>. QED
  BY <1>1, DriverInvariant, PTL

\* A reconnection for a stall happens only when nothing was answered since the
\* watchdog's previous tick.
THEOREM StallIsSilence == Spec => StalledMeansSilent
<1>. DEFINE Silent == attempt' # attempt /\ running' /\ watchdog /\ lastReconnect' = "stalled"
                        => ~answered
<1>1. ASSUME DriverI, [Next]_vars PROVE [Silent]_vars
  <2>. SUFFICES ASSUME Next, attempt' # attempt, running', watchdog,
                       lastReconnect' = "stalled"
                PROVE  ~answered
    BY <1>1
  <2>. USE <1>1 DEF DriverI
  <2>1. connected /\ teardown # 0 /\ running /\ ~redial
    BY DEF TimersBelong, HeldIsAlive, RedialWaits
  <2>2. CASE WatchdogFires
    BY <2>2 DEF WatchdogFires, Stalled, WatchedIsOld, Reconnect, LetGo
  <2>3. CASE AdmissionFires
    BY <2>3 DEF AdmissionFires, Reconnect
  <2>4. CASE Start \/ RedialFires \/ HealthyFires \/ Send \/ Dispose
    BY <2>1, <2>4 DEF Start, RedialFires, HealthyFires, Send, Dispose, Shutdown
  <2>5. ASSUME NEW n \in Attempts, HostCloses(n) PROVE ~answered
    BY <2>5 DEF HostCloses, Reconnect
  <2>6. ASSUME NEW n \in Attempts,
               HostOpens(n) \/ ReceiveAdmitted(n) \/ ReceiveAnswer(n) \/ ReceiveGap(n)
                 \/ ReceiveRetired(n)
        PROVE  ~answered
    BY <2>6 DEF HostOpens, ReceiveAdmitted, ReceiveAnswer, ReceiveGap, ReceiveRetired,
                Reconnect, Shutdown
  <2>. QED
    BY <2>2, <2>3, <2>4, <2>5, <2>6 DEF Next
<1>. QED
  BY <1>1, DriverInvariant, PTL DEF Spec, StalledMeansSilent

-----------------------------------------------------------------------------
(* ChunkCollector: reassembly *)

Slot == [send : Nat, chunk : Nat]
WireChunk == [position : Positions, chunk : 1..MaxChunks, chunks : 1..MaxChunks, send : Nat \ {0}]

\* What is on the socket is the rest of one payload.
RestOfPayload ==
    /\ wire \in Seq(WireChunk)
    /\ \A i \in 1..Len(wire) :
          wire[i] = [position |-> Frame.position, chunk |-> Frame.chunk + i - 1,
                     chunks |-> Frame.chunks, send |-> Frame.send]
    /\ wire # <<>> => Frame.chunk + Len(wire) = Frame.chunks + 1

PartialsShape ==
    /\ partials = [p \in DOMAIN partials |-> partials[p]]
    /\ \A p \in DOMAIN partials : partials[p] \in Seq(Slot)

\* Unless its payload was refused, a partial lacks its last chunk,
LastIsMissing ==
    \A p \in DOMAIN partials \ refused : partials[p][Len(partials[p])] = Hole

\* and every slot before the chunk that arrives next is of the same sending.
FreshSoFar ==
    wire # <<>> /\ Frame.chunk > 1 /\ Frame.position \notin refused =>
        /\ Frame.position \in DOMAIN partials
        /\ Len(partials[Frame.position]) = Frame.chunks
        /\ \A i \in 1..(Frame.chunk - 1) :
              partials[Frame.position][i] = [send |-> Frame.send, chunk |-> i]

CollectorI ==
    /\ CollectorTypeOK /\ RestOfPayload /\ PartialsShape
    /\ BufferedExact /\ LastIsMissing /\ FreshSoFar /\ WholeIsOnePayload

-----------------------------------------------------------------------------
LEMMA SlotsFinite == IsFiniteSet(BufferedSlots)
<1>0. 1 \in Int /\ MaxChunks \in Int  BY CollectorAssumption
<1>1. IsFiniteSet(Positions \X (1..MaxChunks))
  BY <1>0, FS_Interval, FS_Product, CollectorAssumption
<1>. QED  BY <1>1, FS_Subset DEF BufferedSlots

LEMMA CollectorInitHolds == CollectorInit => CollectorI
<1>. SUFFICES ASSUME CollectorInit PROVE CollectorI
  OBVIOUS
<1>. USE CollectorAssumption DEF CollectorInit
<1>1. DOMAIN partials = {}  OBVIOUS
<1>2. BufferedSlots = {}  BY <1>1 DEF BufferedSlots
<1>3. BufferedExact  BY <1>2, FS_EmptySet DEF BufferedExact
<1>4. CollectorTypeOK  BY <1>1 DEF CollectorTypeOK
<1>5. PartialsShape /\ LastIsMissing  BY <1>1 DEF PartialsShape, LastIsMissing
<1>6. RestOfPayload /\ FreshSoFar  BY DEF RestOfPayload, FreshSoFar
<1>7. WholeIsOnePayload  BY DEF WholeIsOnePayload, Nothing
<1>. QED  BY <1>3, <1>4, <1>5, <1>6, <1>7 DEF CollectorI

\* The first chunk on the socket.
LEMMA FrameIs ==
    ASSUME RestOfPayload, wire # <<>>
    PROVE  /\ Frame \in WireChunk /\ Frame = wire[1]
           /\ Frame.position \in Positions /\ Frame.chunk \in 1..Frame.chunks
           /\ Frame.chunks \in 1..MaxChunks /\ Frame.send \in Nat \ {0}
<1>1. Len(wire) \in Nat \ {0} /\ Frame = wire[1] /\ wire[1] \in WireChunk
  BY DEF RestOfPayload, Frame
<1>. QED  BY <1>1, CollectorAssumption DEF RestOfPayload, WireChunk

\* What is left when the first chunk is taken.
LEMMA RestAfter ==
    ASSUME RestOfPayload, wire # <<>>, wire' = Tail(wire)
    PROVE  /\ RestOfPayload'
           /\ wire' # <<>> => Frame' = [position |-> Frame.position, chunk |-> Frame.chunk + 1,
                                         chunks |-> Frame.chunks, send |-> Frame.send]
           /\ wire' = <<>> <=> Frame.chunk = Frame.chunks
<1>. DEFINE At(i) == [position |-> Frame.position, chunk |-> i,
                      chunks |-> Frame.chunks, send |-> Frame.send]
<1>1. /\ Frame \in WireChunk /\ Frame = wire[1] /\ Len(wire) \in Nat \ {0}
      /\ Frame.chunk \in Nat /\ Frame.chunks \in Nat
  BY FrameIs, CollectorAssumption DEF RestOfPayload
<1>2. /\ wire' \in Seq(WireChunk) /\ Len(wire') = Len(wire) - 1
      /\ \A i \in 1..Len(wire') : wire'[i] = wire[i + 1]
  BY <1>1 DEF RestOfPayload
<1>3. wire' = <<>> <=> Frame.chunk = Frame.chunks
  <2>1. Frame.chunk + Len(wire) = Frame.chunks + 1  BY DEF RestOfPayload
  <2>2. wire' = <<>> <=> Len(wire') = 0  BY <1>2
  <2>. QED  BY <1>1, <1>2, <2>1, <2>2
<1>4. \A i \in 1..Len(wire') : wire'[i] = At(Frame.chunk + i)
  <2>. TAKE i \in 1..Len(wire')
  <2>1. i + 1 \in 1..Len(wire) /\ i \in Nat /\ Frame.chunk + (i + 1) - 1 = Frame.chunk + i
    BY <1>1, <1>2
  <2>. QED  BY <1>2, <2>1 DEF RestOfPayload
<1>5. wire' # <<>> => Len(wire') >= 1 /\ Frame' = At(Frame.chunk + 1)
  <2>. HAVE wire' # <<>>
  <2>1. Len(wire') >= 1 /\ Frame' = wire'[1] /\ 1 \in 1..Len(wire')  BY <1>2 DEF Frame
  <2>. QED  BY <1>4, <2>1
<1>6. ASSUME NEW i \in 1..Len(wire')
      PROVE  wire'[i] = [position |-> Frame'.position, chunk |-> Frame'.chunk + i - 1,
                         chunks |-> Frame'.chunks, send |-> Frame'.send]
  <2>1. Len(wire') \in Nat /\ Len(wire') # 0  BY <1>2
  <2>2. wire' # <<>>  BY <2>1
  <2>3. /\ Frame'.position = Frame.position /\ Frame'.chunks = Frame.chunks
        /\ Frame'.send = Frame.send /\ Frame'.chunk = Frame.chunk + 1
    BY <1>5, <2>2
  <2>4. Frame.chunk + 1 + i - 1 = Frame.chunk + i  BY <1>1
  <2>. QED  BY <1>4, <2>3, <2>4
<1>7. wire' # <<>> => Frame'.chunk + Len(wire') = Frame'.chunks + 1
  <2>. HAVE wire' # <<>>
  <2>1. Frame'.chunk = Frame.chunk + 1 /\ Frame'.chunks = Frame.chunks  BY <1>5
  <2>2. Frame.chunk + Len(wire) = Frame.chunks + 1  BY <1>1 DEF RestOfPayload
  <2>. QED  BY <1>1, <1>2, <2>1, <2>2
<1>. QED  BY <1>2, <1>3, <1>5, <1>6, <1>7 DEF RestOfPayload

\* The partial the chunk belongs to, new or not.
LEMMA PartialIs ==
    ASSUME CollectorI, wire # <<>>, Frame.chunks > 1
    PROVE  /\ Partial \in Seq(Slot) /\ Len(Partial) \in 2..MaxChunks
           /\ Frame.position \notin DOMAIN partials => PartialHeld = {}
           /\ Frame.position \in DOMAIN partials => PartialHeld = Held(Frame.position)
           /\ PartialHeld \subseteq 1..MaxChunks
<1>1. /\ Frame.position \in Positions /\ Frame.chunks \in 2..MaxChunks
  BY FrameIs, CollectorAssumption DEF CollectorI
<1>2. CASE Frame.position \in DOMAIN partials
  <2>1. Partial = partials[Frame.position] /\ Partial \in Seq(Slot) /\ Len(Partial) \in 2..MaxChunks
    BY <1>2 DEF Partial, CollectorI, PartialsShape, CollectorTypeOK
  <2>2. DOMAIN Partial = 1..Len(Partial) /\ 1..Len(Partial) \subseteq 1..MaxChunks
    BY <2>1, CollectorAssumption
  <2>. QED  BY <1>2, <2>1, <2>2 DEF PartialHeld, Held
<1>3. CASE Frame.position \notin DOMAIN partials
  <2>1. Partial = [i \in 1..Frame.chunks |-> Hole]  BY <1>3 DEF Partial
  <2>2. Hole \in Slot  BY DEF Hole, Slot
  <2>3. Partial \in Seq(Slot) /\ Len(Partial) = Frame.chunks  BY <1>1, <2>1, <2>2
  <2>4. PartialHeld = {}  BY <2>1 DEF PartialHeld
  <2>. QED  BY <1>1, <1>3, <2>3, <2>4
<1>. QED  BY <1>2, <1>3

\* Forgetting a key takes exactly what it held out of the count.
LEMMA ForgetKeepsCount ==
    ASSUME CollectorI, wire # <<>>, Frame.chunks > 1,
           partials' = Without(Frame.position), buffered' = BufferedWithout
    PROVE  /\ BufferedExact' /\ buffered' \in Nat
           /\ DOMAIN partials' = DOMAIN partials \ {Frame.position}
           /\ \A q \in DOMAIN partials' : partials'[q] = partials[q]
           /\ PartialsShape'
<1>. DEFINE p == Frame.position
            gone == {p} \X PartialHeld
<1>1. p \in Positions /\ PartialHeld \subseteq 1..MaxChunks
  BY FrameIs, PartialIs DEF CollectorI
<1>2. /\ DOMAIN partials' = DOMAIN partials \ {p}
      /\ \A q \in DOMAIN partials' : partials'[q] = partials[q]
  BY DEF Without
<1>3. PartialsShape'
  BY <1>2 DEF Without, PartialsShape, CollectorI
<1>4. BufferedSlots' = BufferedSlots \ gone
  <2>1. ASSUME NEW s \in Positions \X (1..MaxChunks)
        PROVE  s \in BufferedSlots' <=> s \in BufferedSlots /\ s \notin gone
    <3>1. s[1] \in Positions /\ s[2] \in 1..MaxChunks /\ s = <<s[1], s[2]>>  OBVIOUS
    <3>2. CASE s[1] = p
      <4>1. s \notin BufferedSlots'  BY <1>2, <3>2 DEF BufferedSlots
      <4>2. s \in BufferedSlots => s[2] \in PartialHeld
        BY <3>2, PartialIs DEF BufferedSlots
      <4>. QED  BY <3>1, <3>2, <4>1, <4>2
    <3>3. CASE s[1] # p
      <4>1. s \notin gone  BY <3>3
      <4>2. s[1] \in DOMAIN partials' <=> s[1] \in DOMAIN partials  BY <1>2, <3>3
      <4>3. s[1] \in DOMAIN partials => Held(s[1])' = Held(s[1])
        BY <1>2, <4>2 DEF Held
      <4>. QED  BY <4>1, <4>2, <4>3 DEF BufferedSlots
    <3>. QED  BY <3>2, <3>3
  <2>. QED  BY <2>1 DEF BufferedSlots
<1>5. gone \subseteq BufferedSlots
  BY <1>1, PartialIs DEF BufferedSlots
<1>6. IsFiniteSet(BufferedSlots) /\ IsFiniteSet(gone)
  BY <1>5, SlotsFinite, FS_Subset
<1>7. IsFiniteSet(PartialHeld)
  <2>1. 1 \in Int /\ MaxChunks \in Int  BY CollectorAssumption
  <2>. QED  BY <1>1, <2>1, FS_Interval, FS_Subset
<1>8. Cardinality(gone) = Cardinality(PartialHeld)
  <2>1. IsFiniteSet({p}) /\ Cardinality({p}) = 1  BY FS_Singleton
  <2>2. Cardinality(gone) = Cardinality({p}) * Cardinality(PartialHeld)
    BY <1>7, <2>1, FS_Product
  <2>3. Cardinality(PartialHeld) \in Nat  BY <1>7, FS_CardinalityType
  <2>. QED  BY <2>1, <2>2, <2>3
<1>9. Cardinality(BufferedSlots \ gone) = Cardinality(BufferedSlots) - Cardinality(BufferedSlots \cap gone)
  BY <1>6, FS_Difference
<1>10. BufferedSlots \cap gone = gone  BY <1>5
<1>11. /\ Cardinality(BufferedSlots) \in Nat /\ Cardinality(gone) \in Nat
       /\ Cardinality(BufferedSlots \ gone) \in Nat
  BY <1>6, FS_CardinalityType, FS_Subset
<1>12. buffered' = Cardinality(BufferedSlots')
  BY <1>4, <1>8, <1>9, <1>10 DEF BufferedWithout, BufferedExact, CollectorI
<1>13. buffered' \in Nat /\ buffered' <= LimitBytes
  BY <1>4, <1>9, <1>10, <1>11, <1>12, CollectorAssumption DEF BufferedExact, CollectorI
<1>. QED  BY <1>2, <1>3, <1>12, <1>13 DEF BufferedExact

\* No step but AcceptChunk touches a slot: what a partial holds stays.
LEMMA SendKeeps ==
    ASSUME CollectorI, NEW kind \in Kinds, NEW p \in Positions, NEW n \in 1..MaxChunks,
           SendPayload(kind, p, n)
    PROVE  CollectorI'
<1>. USE CollectorAssumption DEF SendPayload
<1>1. /\ sends \in Nat /\ sends + 1 \in Nat \ {0} /\ sends' \in 0..MaxSends /\ n \in Nat \ {0}
  BY DEF CollectorI, CollectorTypeOK
<1>2. newest' \in [Kinds -> Positions \union {0}]
  BY DEF CollectorI, CollectorTypeOK
<1>3. CollectorTypeOK'
  BY <1>1, <1>2 DEF CollectorI, CollectorTypeOK
<1>4. /\ wire' \in Seq(WireChunk) /\ Len(wire') = n /\ wire' # <<>>
      /\ \A i \in 1..n : wire'[i] = [position |-> p, chunk |-> i, chunks |-> n, send |-> sends + 1]
  <2>1. \A i \in 1..n : [position |-> p, chunk |-> i, chunks |-> n, send |-> sends + 1] \in WireChunk
    BY <1>1 DEF WireChunk
  <2>2. wire' \in Seq(WireChunk) /\ Len(wire') = n  BY <1>1, <2>1
  <2>. QED  BY <1>1, <2>2
<1>5. Frame' = [position |-> p, chunk |-> 1, chunks |-> n, send |-> sends + 1]
  <2>1. Frame' = wire'[1] /\ 1 \in 1..n  BY <1>1, <1>4 DEF Frame
  <2>. QED  BY <1>4, <2>1
<1>6. RestOfPayload'
  <2>1. ASSUME NEW i \in 1..Len(wire')
        PROVE wire'[i] = [position |-> Frame'.position, chunk |-> Frame'.chunk + i - 1,
                          chunks |-> Frame'.chunks, send |-> Frame'.send]
    <3>1. 1 + i - 1 = i /\ i \in 1..n  BY <1>1, <1>4
    <3>. QED  BY <1>4, <1>5, <3>1
  <2>2. Frame'.chunk + Len(wire') = Frame'.chunks + 1  BY <1>1, <1>4, <1>5
  <2>. QED  BY <1>4, <2>1, <2>2 DEF RestOfPayload
<1>7. PartialsShape' /\ LastIsMissing'
  BY DEF CollectorI, PartialsShape, LastIsMissing
<1>8. BufferedExact'
  BY DEF CollectorI, BufferedExact, BufferedSlots, Held
<1>9. FreshSoFar'  BY <1>5 DEF FreshSoFar
<1>10. WholeIsOnePayload'  BY DEF WholeIsOnePayload, Nothing
<1>. QED  BY <1>3, <1>6, <1>7, <1>8, <1>9, <1>10 DEF CollectorI

LEMMA BreakOffKeeps == ASSUME CollectorI, BreakOff PROVE CollectorI'
<1>. USE CollectorAssumption DEF BreakOff
<1>1. CollectorTypeOK'  BY DEF CollectorI, CollectorTypeOK
<1>2. RestOfPayload' /\ FreshSoFar'  BY DEF RestOfPayload, FreshSoFar
<1>3. PartialsShape' /\ LastIsMissing'  BY DEF CollectorI, PartialsShape, LastIsMissing
<1>4. BufferedExact'  BY DEF CollectorI, BufferedExact, BufferedSlots, Held
<1>5. WholeIsOnePayload'  BY DEF WholeIsOnePayload, Nothing
<1>. QED  BY <1>1, <1>2, <1>3, <1>4, <1>5 DEF CollectorI

LEMMA AcceptSingleKeeps == ASSUME CollectorI, AcceptSingle PROVE CollectorI'
<1>. USE CollectorAssumption DEF AcceptSingle
<1>1. CollectorTypeOK'  BY DEF CollectorI, CollectorTypeOK
<1>2. RestOfPayload' /\ wire' = <<>>
  <2>1. Frame.chunk = 1  BY FrameIs DEF CollectorI
  <2>. QED  BY <2>1, RestAfter DEF CollectorI
<1>3. FreshSoFar'  BY <1>2 DEF FreshSoFar
<1>4. PartialsShape' /\ LastIsMissing'  BY DEF CollectorI, PartialsShape, LastIsMissing
<1>5. BufferedExact'  BY DEF CollectorI, BufferedExact, BufferedSlots, Held
<1>6. WholeIsOnePayload'  BY DEF WholeIsOnePayload
<1>. QED  BY <1>1, <1>2, <1>3, <1>4, <1>5, <1>6 DEF CollectorI

LEMMA AcceptRefusesKeeps == ASSUME CollectorI, AcceptRefuses PROVE CollectorI'
<1>. USE CollectorAssumption DEF AcceptRefuses
<1>1. Frame.position \in Positions  BY FrameIs DEF CollectorI
<1>2. WholeIsOnePayload'  BY DEF WholeIsOnePayload, Nothing
<1>3. CASE ~atHub
  <2>1. DOMAIN partials' = {} /\ wire' = <<>> /\ buffered' = 0  BY <1>3
  <2>2. CollectorTypeOK'  BY <1>3, <2>1 DEF CollectorI, CollectorTypeOK
  <2>3. RestOfPayload' /\ FreshSoFar'  BY <2>1 DEF RestOfPayload, FreshSoFar
  <2>4. PartialsShape' /\ LastIsMissing'  BY <1>3, <2>1 DEF PartialsShape, LastIsMissing
  <2>5. BufferedSlots' = {}  BY <2>1 DEF BufferedSlots
  <2>6. BufferedExact'  BY <2>1, <2>5, FS_EmptySet DEF BufferedExact
  <2>. QED  BY <1>2, <2>2, <2>3, <2>4, <2>6 DEF CollectorI
<1>4. CASE atHub
  <2>1. /\ partials' = Without(Frame.position) /\ buffered' = BufferedWithout
        /\ wire' = Tail(wire) /\ refused' = refused \union {Frame.position}
    BY <1>4
  <2>2. /\ BufferedExact' /\ buffered' \in Nat /\ PartialsShape'
        /\ DOMAIN partials' = DOMAIN partials \ {Frame.position}
        /\ \A q \in DOMAIN partials' : partials'[q] = partials[q]
    BY <2>1, ForgetKeepsCount
  <2>3. CollectorTypeOK'
    BY <1>1, <2>1, <2>2 DEF CollectorI, CollectorTypeOK
  <2>4. /\ RestOfPayload'
        /\ wire' # <<>> => Frame'.position = Frame.position
    BY <2>1, RestAfter DEF CollectorI
  <2>5. FreshSoFar'  BY <2>1, <2>4 DEF FreshSoFar
  <2>6. LastIsMissing'  BY <2>1, <2>2 DEF CollectorI, LastIsMissing
  <2>. QED  BY <1>2, <2>2, <2>3, <2>4, <2>5, <2>6 DEF CollectorI
<1>. QED  BY <1>3, <1>4

LEMMA AcceptChunkKeeps == ASSUME CollectorI, AcceptChunk PROVE CollectorI'
<1>. DEFINE p == Frame.position
            i == Frame.chunk
            n == Frame.chunks
            new == [send |-> Frame.send, chunk |-> i]
            chunks == [Partial EXCEPT ![i] = new]
            added == IF i \in PartialHeld THEN 0 ELSE 1
<1>1. /\ p \in Positions /\ n \in 2..MaxChunks /\ i \in 1..n /\ Frame.send \in Nat \ {0}
      /\ wire # <<>> /\ wire' = Tail(wire) /\ n > 1
  BY FrameIs, CollectorAssumption DEF CollectorI, AcceptChunk
<1>2. /\ Partial \in Seq(Slot) /\ Len(Partial) = n /\ Fits
      /\ PartialHeld = IF p \in DOMAIN partials THEN Held(p) ELSE {}
  BY <1>1, PartialIs DEF AcceptChunk
<1>3. new \in Slot /\ new # Hole  BY <1>1, CollectorAssumption DEF Slot, Hole
<1>4. /\ chunks \in Seq(Slot) /\ Len(chunks) = n /\ DOMAIN chunks = 1..n
      /\ chunks[i] = new /\ \A j \in 1..n \ {i} : chunks[j] = Partial[j]
  BY <1>1, <1>2, <1>3
<1>5. /\ RestOfPayload' /\ (wire' = <<>> <=> i = n)
      /\ wire' # <<>> => /\ Frame'.position = p /\ Frame'.chunks = n
                         /\ Frame'.send = Frame.send /\ Frame'.chunk = i + 1
  BY <1>1, RestAfter DEF CollectorI
\* For a key that was not refused, the slots before this chunk are its payload's.
<1>6. p \notin refused => \A j \in 1..(i - 1) : Partial[j] = [send |-> Frame.send, chunk |-> j]
  <2>. HAVE p \notin refused
  <2>1. CASE i = 1  BY <2>1
  <2>2. CASE i > 1
    <3>1. p \in DOMAIN partials /\ \A j \in 1..(i - 1) : partials[p][j] = [send |-> Frame.send, chunk |-> j]
      BY <1>1, <2>2 DEF CollectorI, FreshSoFar
    <3>. QED  BY <3>1 DEF Partial
  <2>. QED  BY <1>1, <2>1, <2>2
<1>7. p \notin refused => Partial[n] = Hole
  <2>. HAVE p \notin refused
  <2>1. CASE p \in DOMAIN partials
    <3>1. Partial = partials[p]  BY <2>1 DEF Partial
    <3>. QED  BY <1>2, <2>1, <3>1 DEF CollectorI, LastIsMissing
  <2>2. CASE p \notin DOMAIN partials
    <3>1. Partial = [j \in 1..n |-> Hole]  BY <2>2 DEF Partial
    <3>. QED  BY <1>1, <3>1
  <2>. QED  BY <2>1, <2>2
<1>. HIDE DEF chunks, new
<1>8. p \notin refused => (Complete(chunks) <=> i = n)
  <2>. HAVE p \notin refused
  <2>1. ASSUME i # n PROVE ~Complete(chunks)
    <3>1. chunks[n] = Hole /\ n \in DOMAIN chunks  BY <1>1, <1>4, <1>7, <2>1
    <3>. QED  BY <3>1 DEF Complete
  <2>2. ASSUME i = n PROVE Complete(chunks)
    <3>. SUFFICES ASSUME NEW j \in 1..n PROVE chunks[j] # Hole  BY <1>4 DEF Complete
    <3>1. CASE j = n  BY <1>3, <1>4, <2>2, <3>1
    <3>2. CASE j # n
      <4>1. j \in 1..(i - 1) /\ j \in 1..n \ {i}  BY <1>1, <2>2, <3>2
      <4>2. chunks[j] = [send |-> Frame.send, chunk |-> j]  BY <1>4, <1>6, <4>1
      <4>. QED  BY <1>1, <4>2 DEF Hole
    <3>. QED  BY <3>1, <3>2
  <2>. QED  BY <2>1, <2>2
<1>9. CASE Complete(chunks)
  <2>1. /\ partials' = Without(p) /\ buffered' = BufferedWithout
        /\ whole' = [position |-> p, chunks |-> chunks]
        /\ UNCHANGED <<atHub, sends, newest, refused>>
    BY <1>9 DEF AcceptChunk, chunks, new
  <2>2. /\ BufferedExact' /\ buffered' \in Nat /\ PartialsShape'
        /\ DOMAIN partials' = DOMAIN partials \ {p}
        /\ \A q \in DOMAIN partials' : partials'[q] = partials[q]
    BY <1>1, <2>1, ForgetKeepsCount
  <2>3. CollectorTypeOK'  BY <2>1, <2>2 DEF CollectorI, CollectorTypeOK
  <2>4. LastIsMissing'  BY <2>1, <2>2 DEF CollectorI, LastIsMissing
  <2>5. FreshSoFar'
    <3>. SUFFICES ASSUME wire' # <<>>, p \notin refused PROVE FALSE
      BY <1>5, <2>1 DEF FreshSoFar
    <3>. QED  BY <1>5, <1>8, <1>9
  <2>6. WholeIsOnePayload'
    <3>. SUFFICES ASSUME p \notin refused
                  PROVE  \A j \in 1..n : chunks[j] = [send |-> chunks[1].send, chunk |-> j]
      BY <1>4, <2>1 DEF WholeIsOnePayload
    <3>1. i = n  BY <1>8, <1>9
    <3>2. \A j \in 1..n : chunks[j] = [send |-> Frame.send, chunk |-> j]
      <4>. TAKE j \in 1..n
      <4>1. CASE j = n  BY <1>4, <3>1, <4>1 DEF new
      <4>2. CASE j # n
        <5>1. j \in 1..(i - 1) /\ j \in 1..n \ {i}  BY <1>1, <3>1, <4>2
        <5>. QED  BY <1>4, <1>6, <5>1
      <4>. QED  BY <4>1, <4>2
    <3>3. 1 \in 1..n  BY <1>1
    <3>5. chunks[1] = [send |-> Frame.send, chunk |-> 1]  BY <3>2, <3>3
    <3>4. chunks[1].send = Frame.send  BY <3>5
    <3>. QED  BY <3>2, <3>4
  <2>. QED  BY <1>5, <2>2, <2>3, <2>4, <2>5, <2>6 DEF CollectorI
<1>10. CASE ~Complete(chunks)
  <2>1. /\ partials' = [q \in DOMAIN partials \union {p} |-> IF q = p THEN chunks ELSE partials[q]]
        /\ buffered' = buffered + added /\ whole' = Nothing
        /\ UNCHANGED <<atHub, sends, newest, refused>>
    BY <1>10 DEF AcceptChunk, chunks, new
  <2>2. /\ DOMAIN partials' = DOMAIN partials \union {p} /\ partials'[p] = chunks
        /\ \A q \in DOMAIN partials \ {p} : partials'[q] = partials[q]
    BY <2>1
  <2>3. PartialsShape'
    BY <1>4, <2>1, <2>2 DEF CollectorI, PartialsShape
  <2>4. buffered' \in Nat /\ buffered' <= LimitBytes
    BY <1>2, <2>1, CollectorAssumption DEF CollectorI, CollectorTypeOK, BufferedExact, Fits
  <2>5. CollectorTypeOK'
    <3>1. \A q \in DOMAIN partials' : Len(partials'[q]) \in 2..MaxChunks
      BY <1>1, <1>4, <2>2 DEF CollectorI, CollectorTypeOK
    <3>. QED  BY <1>1, <2>1, <2>2, <2>4, <3>1 DEF CollectorI, CollectorTypeOK
  <2>6. buffered' = Cardinality(BufferedSlots')
    <3>1. BufferedSlots' = BufferedSlots \union {<<p, i>>}
      <4>1. <<p, i>> \in Positions \X (1..MaxChunks)  BY <1>1, CollectorAssumption
      <4>2. ASSUME NEW s \in Positions \X (1..MaxChunks)
            PROVE  s \in BufferedSlots' <=> s \in BufferedSlots \/ s = <<p, i>>
        <5>1. s[1] \in Positions /\ s[2] \in 1..MaxChunks /\ s = <<s[1], s[2]>>  OBVIOUS
        <5>2. CASE s[1] # p
          <6>1. s[1] \in DOMAIN partials' <=> s[1] \in DOMAIN partials  BY <2>2, <5>2
          <6>2. s[1] \in DOMAIN partials => Held(s[1])' = Held(s[1])
            BY <2>2, <5>2, <6>1 DEF Held
          <6>3. s # <<p, i>>  BY <5>2
          <6>. QED  BY <6>1, <6>2, <6>3 DEF BufferedSlots
        <5>3. CASE s[1] = p
          <6>1. s \in BufferedSlots' <=> s[2] \in 1..n /\ chunks[s[2]] # Hole
            BY <1>4, <2>2, <5>3 DEF BufferedSlots, Held
          <6>2. s \in BufferedSlots <=> s[2] \in PartialHeld
            BY <1>2, <5>3 DEF BufferedSlots
          <6>3. s[2] \in PartialHeld <=> s[2] \in 1..n /\ Partial[s[2]] # Hole
            BY <1>2 DEF PartialHeld
          <6>4. CASE s[2] = i
            BY <1>1, <1>3, <1>4, <5>1, <5>3, <6>1, <6>4
          <6>5. CASE s[2] # i
            <7>1. s # <<p, i>>  BY <6>5
            <7>. QED  BY <1>4, <6>1, <6>2, <6>3, <6>5, <7>1
          <6>. QED  BY <6>4, <6>5
        <5>. QED  BY <5>2, <5>3
      <4>. QED  BY <4>1, <4>2 DEF BufferedSlots
    <3>2. <<p, i>> \in BufferedSlots <=> i \in PartialHeld
      BY <1>1, <1>2, CollectorAssumption DEF BufferedSlots
    <3>3. Cardinality(BufferedSlots \union {<<p, i>>}) =
             IF <<p, i>> \in BufferedSlots THEN Cardinality(BufferedSlots)
                                           ELSE Cardinality(BufferedSlots) + 1
      BY SlotsFinite, FS_AddElement
    <3>4. buffered = Cardinality(BufferedSlots) /\ buffered \in Nat
      BY DEF CollectorI, BufferedExact, CollectorTypeOK
    <3>5. CASE i \in PartialHeld  BY <2>1, <3>1, <3>2, <3>3, <3>4, <3>5
    <3>6. CASE i \notin PartialHeld  BY <2>1, <3>1, <3>2, <3>3, <3>4, <3>6
    <3>. QED  BY <3>5, <3>6
  <2>7. LastIsMissing'
    <3>. SUFFICES ASSUME NEW q \in DOMAIN partials', q \notin refused
                  PROVE  partials'[q][Len(partials'[q])] = Hole
      BY <2>1 DEF LastIsMissing
    <3>1. CASE q = p
      <4>1. i # n  BY <1>8, <1>10, <3>1
      <4>. QED  BY <1>1, <1>4, <1>7, <2>2, <3>1, <4>1
    <3>2. CASE q # p  BY <2>2, <3>2 DEF CollectorI, LastIsMissing
    <3>. QED  BY <3>1, <3>2
  <2>8. FreshSoFar'
    <3>. SUFFICES ASSUME wire' # <<>>, p \notin refused
                  PROVE  /\ Frame'.position \in DOMAIN partials'
                         /\ Len(partials'[Frame'.position]) = Frame'.chunks
                         /\ \A j \in 1..(Frame'.chunk - 1) :
                              partials'[Frame'.position][j] = [send |-> Frame'.send, chunk |-> j]
      BY <1>5, <2>1 DEF FreshSoFar
    <3>1. /\ Frame'.position = p /\ Frame'.chunks = n /\ Frame'.send = Frame.send
          /\ Frame'.chunk - 1 = i
      BY <1>1, <1>5
    <3>2. \A j \in 1..i : chunks[j] = [send |-> Frame.send, chunk |-> j]
      <4>. TAKE j \in 1..i
      <4>1. CASE j = i  BY <1>4, <4>1 DEF new
      <4>2. CASE j # i
        <5>1. j \in 1..(i - 1) /\ j \in 1..n \ {i}  BY <1>1, <4>2
        <5>. QED  BY <1>4, <1>6, <5>1
      <4>. QED  BY <4>1, <4>2
    <3>. QED  BY <1>4, <2>2, <3>1, <3>2
  <2>9. WholeIsOnePayload'  BY <2>1 DEF WholeIsOnePayload, Nothing
  <2>. QED  BY <1>5, <2>3, <2>4, <2>5, <2>6, <2>7, <2>8, <2>9 DEF CollectorI, BufferedExact
<1>. QED  BY <1>9, <1>10

\* The collector's count is exact and under its ceiling, and what it returns is
\* one payload as sent, at either end of a socket, for every ceiling and any
\* number of keys, chunks and payloads (createChunkCollector's accept).
THEOREM PayloadsAreReassembled == CollectorSpec => []Reassembled
<1>1. CollectorInit => CollectorI  BY CollectorInitHolds
<1>2. CollectorI /\ [CollectorNext]_collectorVars => CollectorI'
  <2>. SUFFICES ASSUME CollectorI, [CollectorNext]_collectorVars PROVE CollectorI'
    OBVIOUS
  <2>1. CASE CollectorNext
    BY <2>1, SendKeeps, BreakOffKeeps, AcceptSingleKeeps, AcceptRefusesKeeps, AcceptChunkKeeps
       DEF CollectorNext
  <2>2. CASE UNCHANGED collectorVars
    BY <2>2 DEF collectorVars, CollectorI, CollectorTypeOK, RestOfPayload, PartialsShape,
                BufferedExact, BufferedSlots, Held, LastIsMissing, FreshSoFar,
                WholeIsOnePayload, Frame
  <2>. QED  BY <2>1, <2>2
<1>3. CollectorI => Reassembled  BY DEF CollectorI, Reassembled
<1>. QED  BY <1>1, <1>2, <1>3, PTL DEF CollectorSpec

-----------------------------------------------------------------------------
(* SessionAuth: the session client *)

Cancellation == [phase : {"none", "called", "waiting", "retrying"}, signal : 0 .. MaxAttempts,
                 wait : Nat, result : {"none", "resolved", "rejected"}]

Memory ==
    [persisted : PersistedAuth \cup {None}, attachment : Attachment \cup {Detached},
     queue : Seq(Write), step : {"start", "last", "clearing", "writing", "rollback"},
     cell : PersistedAuth \cup {None}, previous : PersistedAuth \cup {None},
     last : Outcome, attempts : [SignIns -> Attempt],
     attempt : 0 .. MaxAttempts, flight : 0 .. MaxAttempts,
     cancellation : Cancellation, disposed : BOOLEAN,
     verifying : SUBSET Tokens, requests : SUBSET Request,
     asked : SUBSET Tokens, forgotten : SUBSET Tokens, issued : SUBSET Tokens]

\* Only the latest attempt is not aborted, and tokens are attempts' own.
AttemptI(x, a) ==
    /\ x.attempts[a].pc \in {"launching", "reading", "queued"} /\ a # x.attempt
          => x.attempts[a].aborted
    /\ a > x.attempt => x.attempts[a].pc = "unused"
    /\ x.attempts[a].pc \in {"unused", "launching"} => x.attempts[a].token = "none"
    /\ x.attempts[a].pc \in {"reading", "queued", "revoking"} => x.attempts[a].token # "none"
    /\ x.attempts[a].token \in x.issued \cup {"none"}
AttemptsI(x) == \A a \in SignIns : AttemptI(x, a)

\* A queued install is its attempt's only one, a clear comes after installs that
\* were aborted by the sign-out that asked for it, and a mismatch is about a
\* token no attempt obtained.
HasClear(q) == \E i \in 1 .. Len(q) : q[i].op = "clear"
InstallI(x, w) ==
    w.op = "install" => /\ w.by \in SignIns /\ x.attempts[w.by].pc = "queued"
                        /\ x.attempts[w.by].token = w.token
MismatchI(x, w) ==
    w.op = "mismatch" => w.token \in x.issued /\ \A a \in SignIns : x.attempts[a].token # w.token
WritesI(x, q) == \A i \in 1 .. Len(q) : InstallI(x, q[i]) /\ MismatchI(x, q[i])
OneInstall(q) ==
    \A i, j \in 1 .. Len(q) :
        q[i].op = "install" /\ q[j].op = "install" /\ q[i].by = q[j].by => i = j
ClearsBehind(x, q) ==
    \A i, j \in 1 .. Len(q) :
        i < j /\ q[i].op = "install" /\ q[j].op = "clear" => x.attempts[q[i].by].aborted
QueueI(x, q) ==
    /\ WritesI(x, q) /\ OneInstall(q) /\ ClearsBehind(x, q)
    /\ HasClear(q) => x.persisted = None

\* The credential and the account attached to it.
HeldI(x) ==
    /\ x.persisted # None =>
        /\ x.persisted.token \in x.issued
        /\ \/ x.persisted.principal = PrincipalOf(x.persisted.token)
           \/ \A a \in SignIns : x.attempts[a].token # x.persisted.token
    /\ x.attachment # Detached =>
        /\ x.attachment.token = x.persisted.token
        /\ x.attachment.principal = x.persisted.principal
    /\ x.persisted # None /\ ~x.disposed => x.attachment # Detached
    /\ x.attachment.verified => x.attachment.principal = PrincipalOf(x.attachment.token)

Accounted(x, t) == t \in x.asked \cup x.forgotten \cup {"none", x.persisted.token, x.previous.token}
TokensI(x) ==
    \A a \in SignIns : x.attempts[a].pc \in {"ended", "revoking"} => Accounted(x, x.attempts[a].token)

RequestsI(x) ==
    /\ x.attachment = Detached => x.requests = {}
    /\ \A r \in x.requests : r.phase = "sent" => PrincipalOf(r.token) = x.attachment.principal

\* The write under way.
Believed(x) == x.cell = x.persisted \/ HasClear(x.queue)
PreviousGiven(x) == x.previous.token \in x.asked \cup x.forgotten \cup {"none"}
WriteI(x) ==
    /\ x.step # "start" => x.queue # <<>>
    /\ x.step \in {"start", "last"} => x.previous = None
    /\ x.step = "last" =>
        /\ Head(x.queue).op # "install" /\ Believed(x)
        /\ Head(x.queue).op = "clear" => x.cell = None
    /\ x.step \in {"clearing", "writing", "rollback"} => Head(x.queue).op = "install"
    /\ x.step = "clearing" => x.cell = None /\ x.persisted = None
    /\ x.step = "writing" =>
        /\ x.cell = Credential(Head(x.queue).token) /\ PreviousGiven(x)
        /\ \/ x.attempts[Head(x.queue).by].aborted
           \/ x.attachment = Detached
           \/ x.attachment.principal = PrincipalOf(Head(x.queue).token)
    /\ x.step = "rollback" => Believed(x) /\ PreviousGiven(x)

Sound(x, q) ==
    x \in Memory /\ AttemptsI(x) /\ QueueI(x, q) /\ HeldI(x) /\ TokensI(x) /\ RequestsI(x)
AuthI(x) == Sound(x, x.queue) /\ WriteI(x)

PausedI(x, gone) == x.attachment.paused => x.attachment.token \in gone
StoreI(x, cell, unknown) ==
    x.step = "start" /\ ~unknown => cell = x.persisted \/ HasClear(x.queue)

SessionI ==
    /\ AuthI(c) /\ PausedI(c, dead) /\ StoreI(c, stored, dirty)
    /\ stored \in PersistedAuth \cup {None} /\ dirty \in BOOLEAN /\ dead \subseteq Tokens

-----------------------------------------------------------------------------
(* What the handlers' pieces do to the client's memory *)

SameHeld(x, y) == /\ y.persisted = x.persisted /\ y.attachment = x.attachment
                  /\ y.disposed = x.disposed /\ y.requests = x.requests
SameWrite(x, y) == /\ y.queue = x.queue /\ y.step = x.step /\ y.cell = x.cell
                   /\ y.previous = x.previous
SameTries(x, y) == y.attempts = x.attempts /\ y.attempt = x.attempt
MoreTokens(x, y) == /\ x.asked \subseteq y.asked /\ x.forgotten \subseteq y.forgotten
                    /\ y.issued = x.issued

LEMMA NoneIsNobody ==
    /\ "none" \notin Tokens /\ None \notin PersistedAuth /\ Detached \notin Attachment
    /\ None.token = "none" /\ None.principal = "none"
    /\ Detached.token = "none" /\ ~Detached.verified /\ ~Detached.paused
BY TokensAssumption DEF Tokens, None, PersistedAuth, Detached, Attachment

LEMMA SoundKept ==
    ASSUME NEW x, NEW y, NEW q, Sound(x, q), y \in Memory, SameHeld(x, y), SameTries(x, y),
           MoreTokens(x, y), y.previous = x.previous
    PROVE  Sound(y, q)
<1>. USE DEF SameHeld, SameTries, MoreTokens
<1>1. AttemptsI(y)  BY DEF Sound, AttemptsI, AttemptI
<1>2. QueueI(y, q)  BY DEF Sound, QueueI, WritesI, InstallI, MismatchI, ClearsBehind
<1>3. HeldI(y)  BY DEF Sound, HeldI
<1>4. TokensI(y)  BY DEF Sound, TokensI, Accounted
<1>5. RequestsI(y)  BY DEF Sound, RequestsI
<1>. QED  BY <1>1, <1>2, <1>3, <1>4, <1>5 DEF Sound

LEMMA WriteKept ==
    ASSUME NEW x, NEW y, WriteI(x), SameHeld(x, y), SameTries(x, y), MoreTokens(x, y),
           SameWrite(x, y)
    PROVE  WriteI(y)
BY DEF SameHeld, SameTries, MoreTokens, SameWrite, WriteI, Believed, PreviousGiven

LEMMA AuthKept ==
    ASSUME NEW x, NEW y, AuthI(x), y \in Memory, SameHeld(x, y), SameTries(x, y),
           MoreTokens(x, y), SameWrite(x, y)
    PROVE  AuthI(y)
<1>1. Sound(y, x.queue)  BY SoundKept DEF AuthI, SameWrite
<1>. QED  BY <1>1, WriteKept DEF AuthI, SameWrite

LEMMA RevokeIs ==
    ASSUME NEW x \in Memory, NEW t \in Tokens \cup {"none"}
    PROVE  LET y == revoke(x, t)
           IN  /\ y \in Memory /\ SameHeld(x, y) /\ SameTries(x, y) /\ MoreTokens(x, y)
               /\ SameWrite(x, y) /\ y.cancellation = x.cancellation
               /\ t \in y.asked \cup {"none"}
<1>. DEFINE y == revoke(x, t)
<1>1. (IF t = "none" THEN x.asked ELSE x.asked \cup {t}) \in SUBSET Tokens  BY DEF Memory
<1>2. y \in Memory /\ y.asked = IF t = "none" THEN x.asked ELSE x.asked \cup {t}
  BY <1>1 DEF revoke, Memory
<1>. QED
  BY <1>2 DEF revoke, Memory, SameHeld, SameTries, MoreTokens, SameWrite

\* A token is given back, or is the one in use.
LEMMA EndIs ==
    ASSUME NEW x, NEW q, NEW a \in SignIns, Sound(x, q), Accounted(x, x.attempts[a].token),
           x.attempts[a].pc # "unused",
           \A i \in 1 .. Len(q) : q[i].op = "install" => q[i].by # a
    PROVE  LET y == End(x, a)
           IN  /\ Sound(y, q) /\ SameHeld(x, y) /\ SameWrite(x, y) /\ MoreTokens(x, y)
               /\ y.attempt = x.attempt /\ y.cancellation = x.cancellation
               /\ \A b \in SignIns : /\ y.attempts[b].token = x.attempts[b].token
                                     /\ y.attempts[b].aborted = x.attempts[b].aborted
                                     /\ b # a => y.attempts[b] = x.attempts[b]
<1>. DEFINE y == End(x, a)
<1>0. x \in Memory /\ SignIns \subseteq Nat  BY BoundsAssumption DEF Sound, SignIns
<1>1. [x.attempts EXCEPT ![a].pc = "ended"] \in [SignIns -> Attempt]
  BY <1>0 DEF Memory, Attempt
<1>2. (IF x.flight = a THEN 0 ELSE x.flight) \in 0 .. MaxAttempts
  BY <1>0, BoundsAssumption DEF Memory
<1>3. /\ y \in Memory /\ y.attempts = [x.attempts EXCEPT ![a].pc = "ended"]
      /\ SameHeld(x, y) /\ SameWrite(x, y) /\ MoreTokens(x, y)
      /\ y.attempt = x.attempt /\ y.cancellation = x.cancellation
  BY <1>0, <1>1, <1>2 DEF End, Memory, SameHeld, SameWrite, MoreTokens
<1>4. /\ y.attempts[a].pc = "ended" /\ x.attempts[a] \in Attempt
      /\ \A b \in SignIns : /\ y.attempts[b].token = x.attempts[b].token
                            /\ y.attempts[b].aborted = x.attempts[b].aborted
                            /\ b # a => y.attempts[b] = x.attempts[b]
  BY <1>0, <1>3 DEF Memory, Attempt
<1>. HIDE DEF y
<1>5. AttemptsI(y)
  <2>. SUFFICES ASSUME NEW b \in SignIns PROVE AttemptI(y, b)  BY DEF AttemptsI
  <2>0. AttemptI(x, b)  BY DEF Sound, AttemptsI
  <2>1. CASE b = a
    <3>1. ~(a > x.attempt)  BY <2>0, <2>1 DEF AttemptI
    <3>. QED  BY <1>3, <1>4, <2>0, <2>1, <3>1 DEF AttemptI, MoreTokens
  <2>2. CASE b # a  BY <1>3, <1>4, <2>0, <2>2 DEF AttemptI, MoreTokens
  <2>. QED  BY <2>1, <2>2
<1>6. QueueI(y, q)
  <2>1. \A i \in 1 .. Len(q) : InstallI(y, q[i])
    BY <1>4 DEF Sound, QueueI, WritesI, InstallI
  <2>2. \A i \in 1 .. Len(q) : MismatchI(y, q[i])
    BY <1>3, <1>4 DEF Sound, QueueI, WritesI, MismatchI, MoreTokens
  <2>3. ClearsBehind(y, q)
    BY <1>4 DEF Sound, QueueI, WritesI, InstallI, ClearsBehind
  <2>. QED  BY <1>3, <2>1, <2>2, <2>3 DEF Sound, QueueI, WritesI, SameHeld
<1>7. HeldI(y)
  BY <1>3, <1>4 DEF Sound, HeldI, SameHeld, MoreTokens
<1>8. TokensI(y)
  <2>. SUFFICES ASSUME NEW b \in SignIns, y.attempts[b].pc \in {"ended", "revoking"}
                PROVE  Accounted(y, y.attempts[b].token)
    BY DEF TokensI
  <2>1. Accounted(x, x.attempts[b].token)
    BY <1>4 DEF Sound, TokensI
  <2>. QED  BY <1>3, <1>4, <2>1 DEF Accounted, SameHeld, SameWrite, MoreTokens
<1>9. RequestsI(y)
  BY <1>3 DEF Sound, RequestsI, SameHeld
<1>. QED  BY <1>3, <1>4, <1>5, <1>6, <1>7, <1>8, <1>9 DEF Sound, y

LEMMA InstallFailsIs ==
    ASSUME NEW x, NEW q, NEW a \in SignIns, Sound(x, q), x.attempts[a].pc # "unused",
           \A i \in 1 .. Len(q) : q[i].op = "install" => q[i].by # a
    PROVE  LET y == InstallFails(x, a)
           IN  /\ Sound(y, q) /\ SameHeld(x, y) /\ SameWrite(x, y) /\ MoreTokens(x, y)
               /\ y.attempt = x.attempt /\ y.cancellation = x.cancellation
               /\ \A b \in SignIns : /\ y.attempts[b].token = x.attempts[b].token
                                     /\ y.attempts[b].aborted = x.attempts[b].aborted
                                     /\ b # a => y.attempts[b] = x.attempts[b]
<1>. DEFINE t == x.attempts[a].token
            z == IF Orphaned(x, t) THEN revoke(x, t) ELSE x
<1>1. x \in Memory /\ t \in Tokens \cup {"none"}  BY DEF Sound, Memory, Attempt
<1>2. /\ z \in Memory /\ SameHeld(x, z) /\ SameTries(x, z) /\ MoreTokens(x, z)
      /\ SameWrite(x, z) /\ z.cancellation = x.cancellation
  <2>1. CASE Orphaned(x, t)  BY <1>1, <2>1, RevokeIs
  <2>2. CASE ~Orphaned(x, t)
    BY <1>1, <2>2 DEF SameHeld, SameTries, MoreTokens, SameWrite
  <2>. QED  BY <2>1, <2>2
<1>3. Accounted(z, t)
  <2>1. CASE Orphaned(x, t)
    <3>1. t \in revoke(x, t).asked \cup {"none"}  BY <1>1, RevokeIs
    <3>. QED  BY <2>1, <3>1 DEF Accounted
  <2>2. CASE ~Orphaned(x, t)  BY <2>2 DEF Orphaned, Accounted
  <2>. QED  BY <2>1, <2>2
<1>. HIDE DEF z
<1>4. Sound(z, q)  BY <1>2, SoundKept DEF SameWrite
<1>5. z.attempts = x.attempts /\ z.attempt = x.attempt  BY <1>2 DEF SameTries
<1>6. InstallFails(x, a) = End(z, a)  BY DEF InstallFails, z
<1>7. Accounted(z, z.attempts[a].token) /\ z.attempts[a].pc # "unused"
  BY <1>3, <1>5
<1>. HIDE DEF t
<1>8. LET y == End(z, a)
      IN  /\ Sound(y, q) /\ SameHeld(z, y) /\ SameWrite(z, y) /\ MoreTokens(z, y)
          /\ y.attempt = z.attempt /\ y.cancellation = z.cancellation
          /\ \A b \in SignIns : /\ y.attempts[b].token = z.attempts[b].token
                                /\ y.attempts[b].aborted = z.attempts[b].aborted
                                /\ b # a => y.attempts[b] = z.attempts[b]
  BY <1>4, <1>7, EndIs
<1>. QED
  BY <1>2, <1>5, <1>6, <1>8 DEF SameHeld, SameWrite, MoreTokens

\* The first write, when it is an install, is of an attempt.
LEMMA HeadIs ==
    ASSUME NEW x, Sound(x, x.queue), x.queue # <<>>
    PROVE  /\ Head(x.queue) \in Write
           /\ InstallI(x, Head(x.queue)) /\ MismatchI(x, Head(x.queue))
<1>1. x.queue \in Seq(Write)  BY DEF Sound, Memory
<1>2. Head(x.queue) = x.queue[1] /\ 1 \in 1 .. Len(x.queue)  BY <1>1
<1>. QED  BY <1>1, <1>2 DEF Sound, QueueI, WritesI

LEMMA WriteMoves ==
    ASSUME NEW x, NEW y, AuthI(x), SameHeld(x, y), SameWrite(x, y),
           x.asked \subseteq y.asked, x.forgotten \subseteq y.forgotten,
           \A b \in SignIns : x.attempts[b].aborted => y.attempts[b].aborted
    PROVE  WriteI(y)
<1>. USE DEF SameHeld, SameWrite
<1>1. x.step = "writing" =>
        \/ y.attempts[Head(y.queue).by].aborted
        \/ y.attachment = Detached
        \/ y.attachment.principal = PrincipalOf(Head(y.queue).token)
  <2>. HAVE x.step = "writing"
  <2>1. x.queue # <<>> /\ Head(x.queue).op = "install"  BY DEF AuthI, WriteI
  <2>2. Head(x.queue).by \in SignIns  BY <2>1, HeadIs DEF AuthI, InstallI
  <2>. QED  BY <2>2 DEF AuthI, WriteI
<1>. QED  BY <1>1 DEF AuthI, WriteI, Believed, PreviousGiven

\* Abort() keeps the queue and the credential, and leaves no queued install
\* that is not aborted.
LEMMA AbortIs ==
    ASSUME NEW x, AuthI(x)
    PROVE  LET y == Abort(x)
           IN  /\ AuthI(y) /\ SameHeld(x, y) /\ SameWrite(x, y) /\ MoreTokens(x, y)
               /\ y.attempt = x.attempt /\ y.cancellation = x.cancellation
               /\ \A b \in SignIns : y.attempts[b].pc \in {"launching", "reading", "queued"}
                                        => y.attempts[b].aborted
<1>. DEFINE a == x.attempt
            z == [x EXCEPT !.attempts[a].aborted = TRUE, !.flight = 0]
<1>0. x \in Memory /\ SignIns = 1 .. MaxAttempts /\ MaxAttempts \in Nat /\ a \in 0 .. MaxAttempts
  BY BoundsAssumption DEF AuthI, Sound, SignIns, Memory
<1>1. CASE a = 0
  <2>1. Abort(x) = x  BY <1>1 DEF Abort
  <2>2. \A b \in SignIns : x.attempts[b].pc = "unused"
    BY <1>0, <1>1 DEF AuthI, Sound, AttemptsI, AttemptI
  <2>. QED  BY <2>1, <2>2 DEF SameHeld, SameWrite, MoreTokens
<1>2. CASE a # 0
  <2>0. a \in SignIns /\ x.attempts[a] \in Attempt  BY <1>0, <1>2 DEF Memory
  <2>1. [x.attempts EXCEPT ![a].aborted = TRUE] \in [SignIns -> Attempt]
    BY <1>0, <2>0 DEF Memory, Attempt
  <2>2. /\ z \in Memory /\ z.attempts = [x.attempts EXCEPT ![a].aborted = TRUE]
        /\ SameHeld(x, z) /\ SameWrite(x, z) /\ MoreTokens(x, z)
        /\ z.attempt = a /\ z.cancellation = x.cancellation
    <3>. DEFINE tries == [x.attempts EXCEPT ![a].aborted = TRUE]
    <3>1. z = [x EXCEPT !.attempts = tries, !.flight = 0]  BY <1>0 DEF Memory
    <3>2. tries \in [SignIns -> Attempt] /\ 0 \in 0 .. MaxAttempts  BY <1>0, <2>1
    <3>. HIDE DEF tries, z
    <3>3. z \in Memory /\ z.attempts = tries  BY <1>0, <3>1, <3>2 DEF Memory
    <3>4. SameHeld(x, z) /\ SameWrite(x, z) /\ MoreTokens(x, z)
      BY <1>0, <3>1 DEF Memory, SameHeld, SameWrite, MoreTokens
    <3>5. z.attempt = a /\ z.cancellation = x.cancellation  BY <1>0, <3>1 DEF Memory
    <3>. QED  BY <3>3, <3>4, <3>5 DEF tries
  <2>3. \A b \in SignIns : /\ z.attempts[b].token = x.attempts[b].token
                           /\ z.attempts[b].pc = x.attempts[b].pc
                           /\ b # a => z.attempts[b] = x.attempts[b]
    BY <1>0, <2>0, <2>2 DEF Memory, Attempt
  <2>4. z.attempts[a].aborted
    <3>1. z.attempts[a] = [x.attempts[a] EXCEPT !.aborted = TRUE]
      BY <1>0, <2>0, <2>2 DEF Memory
    <3>2. [x.attempts[a] EXCEPT !.aborted = TRUE].aborted  BY <2>0 DEF Attempt
    <3>. QED  BY <3>1, <3>2
  <2>. HIDE DEF z
  <2>5. AttemptsI(z)
    <3>. SUFFICES ASSUME NEW b \in SignIns PROVE AttemptI(z, b)  BY DEF AttemptsI
    <3>0. AttemptI(x, b)  BY DEF AuthI, Sound, AttemptsI
    <3>1. CASE b = a  BY <2>2, <2>3, <2>4, <3>0, <3>1 DEF AttemptI, MoreTokens
    <3>2. CASE b # a  BY <2>2, <2>3, <3>0, <3>2 DEF AttemptI, MoreTokens
    <3>. QED  BY <3>1, <3>2
  <2>6. \A b \in SignIns : x.attempts[b].aborted => z.attempts[b].aborted
    BY <2>3, <2>4
  <2>7. QueueI(z, x.queue)
    <3>1. WritesI(z, x.queue)
      BY <2>2, <2>3 DEF AuthI, Sound, QueueI, WritesI, InstallI, MismatchI, MoreTokens
    <3>2. ClearsBehind(z, x.queue)
      <4>. SUFFICES ASSUME NEW i \in 1 .. Len(x.queue), NEW j \in 1 .. Len(x.queue), i < j,
                           x.queue[i].op = "install", x.queue[j].op = "clear"
                    PROVE  z.attempts[x.queue[i].by].aborted
        BY DEF ClearsBehind
      <4>1. x.queue[i].by \in SignIns /\ x.attempts[x.queue[i].by].aborted
        BY DEF AuthI, Sound, QueueI, WritesI, InstallI, ClearsBehind
      <4>. QED  BY <2>6, <4>1
    <3>. QED  BY <2>2, <3>1, <3>2 DEF AuthI, Sound, QueueI, SameHeld
  <2>8. HeldI(z) /\ RequestsI(z)
    BY <2>2, <2>3 DEF AuthI, Sound, HeldI, RequestsI, SameHeld, MoreTokens
  <2>9. TokensI(z)
    BY <2>2, <2>3 DEF AuthI, Sound, TokensI, Accounted, SameHeld, SameWrite, MoreTokens
  <2>10. Sound(z, x.queue)  BY <2>2, <2>5, <2>7, <2>8, <2>9 DEF Sound
  <2>11. ASSUME NEW y, SameHeld(x, y), SameWrite(x, y), MoreTokens(x, y),
                \A b \in SignIns : x.attempts[b].aborted => y.attempts[b].aborted
         PROVE  WriteI(y)
    BY <2>11, WriteMoves DEF MoreTokens
  <2>12. \A b \in SignIns : z.attempts[b].pc \in {"launching", "reading", "queued"}
                              => z.attempts[b].aborted
    <3>. TAKE b \in SignIns
    <3>1. CASE b = a  BY <2>4, <3>1
    <3>2. CASE b # a  BY <2>2, <2>5, <3>2 DEF AttemptsI, AttemptI
    <3>. QED  BY <3>1, <3>2
  <2>13. CASE x.attempts[a].pc = "reading"
    <3>1. Abort(x) = InstallFails(z, a)  BY <1>2, <2>13 DEF Abort, z
    <3>2. \A i \in 1 .. Len(x.queue) : x.queue[i].op = "install" => x.queue[i].by # a
      BY <2>13 DEF AuthI, Sound, QueueI, WritesI, InstallI
    <3>3. z.attempts[a].pc # "unused"  BY <2>0, <2>3, <2>13
    <3>4. LET y == InstallFails(z, a)
          IN  /\ Sound(y, x.queue) /\ SameHeld(z, y) /\ SameWrite(z, y) /\ MoreTokens(z, y)
              /\ y.attempt = z.attempt /\ y.cancellation = z.cancellation
              /\ \A b \in SignIns : /\ y.attempts[b].token = z.attempts[b].token
                                    /\ y.attempts[b].aborted = z.attempts[b].aborted
                                    /\ b # a => y.attempts[b] = z.attempts[b]
      BY <2>0, <2>10, <3>2, <3>3, InstallFailsIs
    <3>. DEFINE y == Abort(x)
    <3>5. /\ SameHeld(x, y) /\ SameWrite(x, y) /\ MoreTokens(x, y) /\ Sound(y, y.queue)
          /\ y.attempt = x.attempt /\ y.cancellation = x.cancellation
      BY <2>2, <3>1, <3>4 DEF SameHeld, SameWrite, MoreTokens
    <3>6. \A b \in SignIns : x.attempts[b].aborted => y.attempts[b].aborted
      BY <2>6, <3>1, <3>4
    <3>7. \A b \in SignIns : y.attempts[b].pc \in {"launching", "reading", "queued"}
                              => y.attempts[b].aborted
      <4>. TAKE b \in SignIns
      <4>1. CASE b = a  BY <2>4, <3>1, <3>4, <4>1
      <4>2. CASE b # a  BY <2>12, <3>1, <3>4, <4>2
      <4>. QED  BY <4>1, <4>2
    <3>. HIDE DEF y
    <3>8. WriteI(y)  BY <2>11, <3>5, <3>6
    <3>. QED  BY <3>5, <3>7, <3>8 DEF AuthI, y
  <2>14. CASE x.attempts[a].pc # "reading"
    <3>1. Abort(x) = z  BY <1>2, <2>14 DEF Abort, z
    <3>2. WriteI(z)  BY <2>2, <2>6, <2>11
    <3>3. z.queue = x.queue  BY <2>2 DEF SameWrite
    <3>. QED  BY <2>2, <2>10, <2>12, <3>1, <3>2, <3>3 DEF AuthI
  <2>. QED  BY <2>13, <2>14
<1>. QED  BY <1>1, <1>2

\* A write joins the queue.
LEMMA EnqueueSound ==
    ASSUME NEW x, NEW w \in Write, Sound(x, x.queue), InstallI(x, w), MismatchI(x, w),
           \A i \in 1 .. Len(x.queue) :
              w.op = "install" /\ x.queue[i].op = "install" => x.queue[i].by # w.by,
           w.op = "clear" => /\ x.persisted = None
                             /\ \A i \in 1 .. Len(x.queue) : x.queue[i].op = "install" =>
                                   x.attempts[x.queue[i].by].aborted
    PROVE  LET y == enqueue(x, w)
           IN  /\ Sound(y, y.queue) /\ SameHeld(x, y) /\ SameTries(x, y) /\ MoreTokens(x, y)
               /\ y.step = x.step /\ y.cell = x.cell /\ y.previous = x.previous
               /\ y.cancellation = x.cancellation
               /\ HasClear(x.queue) \/ w.op = "clear" => HasClear(y.queue)
               /\ x.queue # <<>> => y.queue # <<>> /\ Head(y.queue) = Head(x.queue)
<1>. DEFINE y == enqueue(x, w)
            n == Len(x.queue)
<1>1. x \in Memory /\ x.queue \in Seq(Write) /\ n \in Nat  BY DEF Sound, Memory
<1>2. Append(x.queue, w) \in Seq(Write)  BY <1>1
<1>3. /\ y \in Memory /\ y.queue = Append(x.queue, w)
      /\ y.step = x.step /\ y.cell = x.cell /\ y.previous = x.previous
      /\ y.cancellation = x.cancellation
      /\ SameHeld(x, y) /\ SameTries(x, y) /\ MoreTokens(x, y)
  BY <1>1, <1>2 DEF enqueue, Memory, SameHeld, SameTries, MoreTokens
<1>4. /\ Len(y.queue) = n + 1 /\ y.queue[n + 1] = w
      /\ \A i \in 1 .. n : y.queue[i] = x.queue[i]
  BY <1>1, <1>3
<1>5. Sound(y, x.queue)  BY <1>3, SoundKept
<1>6. InstallI(y, w) /\ MismatchI(y, w)
  BY <1>3 DEF InstallI, MismatchI, SameTries, MoreTokens
<1>. HIDE DEF y, n
<1>7. WritesI(y, y.queue)
  <2>. SUFFICES ASSUME NEW i \in 1 .. (n + 1) PROVE InstallI(y, y.queue[i]) /\ MismatchI(y, y.queue[i])
    BY <1>4 DEF WritesI
  <2>1. CASE i = n + 1  BY <1>4, <1>6, <2>1
  <2>2. CASE i \in 1 .. n  BY <1>4, <1>5, <2>2 DEF Sound, QueueI, WritesI, n
  <2>. QED  BY <1>1, <2>1, <2>2
<1>8. OneInstall(y.queue)
  <2>. SUFFICES ASSUME NEW i \in 1 .. (n + 1), NEW j \in 1 .. (n + 1),
                       y.queue[i].op = "install", y.queue[j].op = "install",
                       y.queue[i].by = y.queue[j].by
                PROVE  i = j
    BY <1>4 DEF OneInstall
  <2>1. CASE i \in 1 .. n /\ j \in 1 .. n
    BY <1>4, <1>5, <2>1 DEF Sound, QueueI, OneInstall, n
  <2>2. CASE i = n + 1 /\ j \in 1 .. n  BY <1>4, <2>2 DEF n
  <2>3. CASE j = n + 1 /\ i \in 1 .. n  BY <1>4, <2>3 DEF n
  <2>. QED  BY <1>1, <2>1, <2>2, <2>3
<1>9. ClearsBehind(y, y.queue)
  <2>. SUFFICES ASSUME NEW i \in 1 .. (n + 1), NEW j \in 1 .. (n + 1), i < j,
                       y.queue[i].op = "install", y.queue[j].op = "clear"
                PROVE  y.attempts[y.queue[i].by].aborted
    BY <1>4 DEF ClearsBehind
  <2>0. i \in 1 .. n  BY <1>1
  <2>1. CASE j \in 1 .. n
    BY <1>4, <1>5, <2>0, <2>1 DEF Sound, QueueI, ClearsBehind, n
  <2>2. CASE j = n + 1
    BY <1>3, <1>4, <2>0, <2>2 DEF SameTries, n
  <2>. QED  BY <1>1, <2>1, <2>2
<1>10. HasClear(y.queue) => y.persisted = None
  <2>. SUFFICES ASSUME NEW i \in 1 .. (n + 1), y.queue[i].op = "clear" PROVE y.persisted = None
    BY <1>4 DEF HasClear
  <2>1. CASE i = n + 1  BY <1>3, <1>4, <2>1 DEF SameHeld
  <2>2. CASE i \in 1 .. n  BY <1>4, <1>5, <2>2 DEF Sound, QueueI, HasClear, n
  <2>. QED  BY <1>1, <2>1, <2>2
<1>11. HasClear(x.queue) \/ w.op = "clear" => HasClear(y.queue)
  <2>1. \A i \in 1 .. n : i \in 1 .. (n + 1)  BY <1>1
  <2>2. n + 1 \in 1 .. (n + 1)  BY <1>1
  <2>. QED  BY <1>4, <2>1, <2>2 DEF HasClear, n
<1>12. x.queue # <<>> => y.queue # <<>> /\ Head(y.queue) = Head(x.queue)
  <2>. HAVE x.queue # <<>>
  <2>1. n # 0 /\ Head(x.queue) = x.queue[1]  BY <1>1 DEF n
  <2>2. 1 \in 1 .. n /\ y.queue \in Seq(Write) /\ y.queue # <<>>  BY <1>1, <1>2, <1>3, <1>4, <2>1
  <2>. QED  BY <1>4, <2>1, <2>2
<1>. QED
  BY <1>3, <1>5, <1>7, <1>8, <1>9, <1>10, <1>11, <1>12 DEF Sound, QueueI, y

LEMMA EnqueueIs ==
    ASSUME NEW x, NEW w \in Write, AuthI(x), InstallI(x, w), MismatchI(x, w),
           \A i \in 1 .. Len(x.queue) :
              w.op = "install" /\ x.queue[i].op = "install" => x.queue[i].by # w.by,
           w.op = "clear" => /\ x.persisted = None
                             /\ \A i \in 1 .. Len(x.queue) : x.queue[i].op = "install" =>
                                   x.attempts[x.queue[i].by].aborted
    PROVE  LET y == enqueue(x, w)
           IN  /\ AuthI(y) /\ SameHeld(x, y) /\ SameTries(x, y) /\ MoreTokens(x, y)
               /\ y.step = x.step /\ y.cancellation = x.cancellation
               /\ HasClear(x.queue) \/ w.op = "clear" => HasClear(y.queue)
<1>. DEFINE y == enqueue(x, w)
<1>1. /\ Sound(y, y.queue) /\ SameHeld(x, y) /\ SameTries(x, y) /\ MoreTokens(x, y)
      /\ y.step = x.step /\ y.cell = x.cell /\ y.previous = x.previous
      /\ y.cancellation = x.cancellation
      /\ HasClear(x.queue) \/ w.op = "clear" => HasClear(y.queue)
      /\ x.queue # <<>> => y.queue # <<>> /\ Head(y.queue) = Head(x.queue)
  BY EnqueueSound DEF AuthI
<1>. HIDE DEF y
<1>2. WriteI(y)
  BY <1>1 DEF AuthI, WriteI, Believed, PreviousGiven, SameHeld, SameTries, MoreTokens
<1>. QED  BY <1>1, <1>2 DEF AuthI, y

LEMMA CancellationIs ==
    ASSUME NEW x, NEW k \in Cancellation, AuthI(x)
    PROVE  LET y == [x EXCEPT !.cancellation = k]
           IN  /\ AuthI(y) /\ SameHeld(x, y) /\ SameTries(x, y) /\ MoreTokens(x, y)
               /\ SameWrite(x, y) /\ y.cancellation = k
<1>. DEFINE y == [x EXCEPT !.cancellation = k]
<1>1. x \in Memory  BY DEF AuthI, Sound
<1>2. /\ y \in Memory /\ SameHeld(x, y) /\ SameTries(x, y) /\ MoreTokens(x, y)
      /\ SameWrite(x, y) /\ y.cancellation = k
  BY <1>1 DEF Memory, SameHeld, SameTries, MoreTokens, SameWrite
<1>. QED  BY <1>2, AuthKept

\* A cancellation hears of a write: it changes nothing but its own state, and
\* may ask for the cell to be written again.
LEMMA HearsIs ==
    ASSUME NEW x, NEW outcome \in Outcome, AuthI(x)
    PROVE  LET y == CancellationHears(x, outcome)
           IN  /\ AuthI(y) /\ SameHeld(x, y) /\ SameTries(x, y) /\ MoreTokens(x, y)
               /\ y.step = x.step /\ (HasClear(x.queue) => HasClear(y.queue))
<1>. DEFINE w == [op |-> "restore", by |-> 0, token |-> "none"]
            z == enqueue(x, w)
            k == [z.cancellation EXCEPT !.phase = "retrying", !.wait = Len(z.queue)]
<1>0. x \in Memory /\ MaxAttempts \in Nat  BY BoundsAssumption DEF AuthI, Sound
<1>1. ASSUME NEW result \in {"resolved", "rejected"}, CancellationHears(x, outcome) = Resolved(x, result)
      PROVE  LET y == CancellationHears(x, outcome)
             IN  /\ AuthI(y) /\ SameHeld(x, y) /\ SameTries(x, y) /\ MoreTokens(x, y)
                 /\ y.step = x.step /\ (HasClear(x.queue) => HasClear(y.queue))
  <2>1. [phase |-> "none", signal |-> 0, wait |-> 0, result |-> result] \in Cancellation
    BY <1>0 DEF Cancellation
  <2>. QED  BY <1>1, <2>1, CancellationIs DEF Resolved, SameWrite
<1>2. w \in Write /\ InstallI(x, w) /\ MismatchI(x, w) /\ w.op = "restore"
  BY <1>0 DEF Write, InstallI, MismatchI
<1>3. /\ AuthI(z) /\ SameHeld(x, z) /\ SameTries(x, z) /\ MoreTokens(x, z)
      /\ z.step = x.step /\ (HasClear(x.queue) => HasClear(z.queue))
  <2>. HIDE DEF w
  <2>. QED  BY <1>2, EnqueueIs
<1>. HIDE DEF z
<1>4. k \in Cancellation
  <2>1. z.cancellation \in Cancellation /\ Len(z.queue) \in Nat  BY <1>3 DEF AuthI, Sound, Memory
  <2>. QED  BY <2>1 DEF Cancellation
<1>5. [z EXCEPT !.cancellation.phase = "retrying", !.cancellation.wait = Len(z.queue)]
        = [z EXCEPT !.cancellation = k]
  <2>1. z \in Memory /\ z.cancellation \in Cancellation  BY <1>3 DEF AuthI, Sound, Memory
  <2>. QED  BY <2>1 DEF Memory, Cancellation
<1>. HIDE DEF k
<1>6. LET y == [z EXCEPT !.cancellation = k]
      IN  /\ AuthI(y) /\ SameHeld(x, y) /\ SameTries(x, y) /\ MoreTokens(x, y)
          /\ y.step = x.step /\ (HasClear(x.queue) => HasClear(y.queue))
  BY <1>3, <1>4, CancellationIs DEF SameHeld, SameTries, MoreTokens, SameWrite
<1>7. CASE /\ x.cancellation.phase # "retrying"
           /\ ~(outcome.how = "done" \/ OwnAbort(x, outcome))
  <2>1. CancellationHears(x, outcome) = [z EXCEPT !.cancellation = k]
    BY <1>5, <1>7 DEF CancellationHears, z, w
  <2>. QED  BY <1>6, <2>1
<1>8. CASE ~(/\ x.cancellation.phase # "retrying"
             /\ ~(outcome.how = "done" \/ OwnAbort(x, outcome)))
  <2>1. \/ CancellationHears(x, outcome) = Resolved(x, "resolved")
        \/ CancellationHears(x, outcome) = Resolved(x, "rejected")
    BY <1>8 DEF CancellationHears
  <2>. QED  BY <1>1, <2>1
<1>. QED  BY <1>7, <1>8

\* The first write settles.
LEMMA SettleIs ==
    ASSUME NEW x, NEW outcome \in Outcome, Sound(x, Tail(x.queue)), x.queue # <<>>,
           PreviousGiven(x)
    PROVE  LET y == Settle(x, outcome)
           IN  /\ AuthI(y) /\ SameHeld(x, y) /\ SameTries(x, y) /\ MoreTokens(x, y)
               /\ y.step = "start" /\ (HasClear(Tail(x.queue)) => HasClear(y.queue))
<1>. DEFINE z == [x EXCEPT !.queue = Tail(@), !.step = "start", !.cell = None,
                           !.previous = None, !.last = outcome]
<1>1. x \in Memory /\ x.queue \in Seq(Write)  BY DEF Sound, Memory
<1>2. Tail(x.queue) \in Seq(Write)  BY <1>1
<1>3. z \in Memory  BY <1>1, <1>2 DEF Memory
<1>4. /\ z.queue = Tail(x.queue) /\ z.step = "start" /\ z.previous = None
      /\ z.cancellation = x.cancellation
      /\ SameHeld(x, z) /\ SameTries(x, z) /\ MoreTokens(x, z)
  BY <1>1 DEF Memory, SameHeld, SameTries, MoreTokens
<1>. HIDE DEF z
<1>5. TokensI(z)
  <2>. SUFFICES ASSUME NEW a \in SignIns, z.attempts[a].pc \in {"ended", "revoking"}
                PROVE  Accounted(z, z.attempts[a].token)
    BY DEF TokensI
  <2>1. Accounted(x, x.attempts[a].token) /\ z.attempts[a] = x.attempts[a]
    BY <1>4 DEF Sound, TokensI, SameTries
  <2>. QED  BY <1>4, <2>1 DEF Accounted, PreviousGiven, SameHeld, MoreTokens
<1>6. Sound(z, z.queue)
  <2>. USE <1>4 DEF SameHeld, SameTries, MoreTokens
  <2>1. AttemptsI(z)  BY DEF Sound, AttemptsI, AttemptI
  <2>2. QueueI(z, Tail(x.queue))
    <3>. DEFINE q == Tail(x.queue)
    <3>1. QueueI(x, q)  BY DEF Sound
    <3>. HIDE DEF q
    <3>2. QueueI(z, q)
      BY <3>1 DEF QueueI, WritesI, InstallI, MismatchI, ClearsBehind
    <3>. QED  BY <3>2 DEF q
  <2>3. HeldI(z)  BY DEF Sound, HeldI
  <2>4. RequestsI(z)  BY DEF Sound, RequestsI
  <2>. QED  BY <1>3, <1>5, <2>1, <2>2, <2>3, <2>4 DEF Sound
<1>7. AuthI(z)  BY <1>4, <1>6 DEF AuthI, WriteI
<1>8. ASSUME NEW y, AuthI(y), SameHeld(z, y), SameTries(z, y), MoreTokens(z, y),
             y.step = z.step, HasClear(z.queue) => HasClear(y.queue)
      PROVE  /\ AuthI(y) /\ SameHeld(x, y) /\ SameTries(x, y) /\ MoreTokens(x, y)
             /\ y.step = "start" /\ (HasClear(Tail(x.queue)) => HasClear(y.queue))
  BY <1>4, <1>8 DEF SameHeld, SameTries, MoreTokens
<1>9. ASSUME NEW n \in Nat
      PROVE  LET y == [z EXCEPT !.cancellation.wait = n]
             IN  /\ AuthI(y) /\ SameHeld(z, y) /\ SameTries(z, y) /\ MoreTokens(z, y)
                 /\ SameWrite(z, y)
  <2>. DEFINE k == [z.cancellation EXCEPT !.wait = n]
  <2>1. z.cancellation \in Cancellation  BY <1>3 DEF Memory
  <2>2. k \in Cancellation  BY <2>1 DEF Cancellation
  <2>3. [z EXCEPT !.cancellation.wait = n] = [z EXCEPT !.cancellation = k]
    BY <1>3, <2>1 DEF Memory
  <2>. HIDE DEF k
  <2>. QED  BY <1>7, <2>2, <2>3, CancellationIs
<1>10. x.cancellation.wait \in Nat  BY <1>1 DEF Memory, Cancellation
<1>11. CASE x.cancellation.wait = 0
  <2>1. Settle(x, outcome) = z  BY <1>11 DEF Settle, z
  <2>. QED  BY <1>4, <1>7, <2>1
<1>12. CASE x.cancellation.wait = 1
  <2>. DEFINE v == [z EXCEPT !.cancellation.wait = 0]
  <2>1. Settle(x, outcome) = CancellationHears(v, outcome)  BY <1>12 DEF Settle, z
  <2>2. AuthI(v) /\ SameHeld(z, v) /\ SameTries(z, v) /\ MoreTokens(z, v) /\ SameWrite(z, v)
    BY <1>9
  <2>. HIDE DEF v
  <2>3. LET y == CancellationHears(v, outcome)
        IN  /\ AuthI(y) /\ SameHeld(v, y) /\ SameTries(v, y) /\ MoreTokens(v, y)
            /\ y.step = v.step /\ (HasClear(v.queue) => HasClear(y.queue))
    BY <2>2, HearsIs
  <2>4. LET y == CancellationHears(v, outcome)
        IN  /\ AuthI(y) /\ SameHeld(z, y) /\ SameTries(z, y) /\ MoreTokens(z, y)
            /\ y.step = z.step /\ (HasClear(z.queue) => HasClear(y.queue))
    BY <2>2, <2>3 DEF SameHeld, SameTries, MoreTokens, SameWrite
  <2>. QED  BY <1>8, <2>1, <2>4
<1>13. CASE x.cancellation.wait \notin {0, 1}
  <2>. DEFINE n == x.cancellation.wait - 1
              v == [z EXCEPT !.cancellation.wait = n]
  <2>0. n \in Nat  BY <1>10, <1>13
  <2>1. Settle(x, outcome) = v
    <3>1. Settle(x, outcome) = [z EXCEPT !.cancellation.wait = z.cancellation.wait - 1]
      <4>1. z \in Memory /\ z.cancellation \in Cancellation  BY <1>3 DEF Memory
      <4>. QED  BY <1>13, <4>1 DEF Settle, z, Memory, Cancellation
    <3>. QED  BY <1>4, <3>1
  <2>. HIDE DEF n
  <2>2. AuthI(v) /\ SameHeld(z, v) /\ SameTries(z, v) /\ MoreTokens(z, v) /\ SameWrite(z, v)
    BY <1>9, <2>0
  <2>. HIDE DEF v
  <2>3. v.step = z.step /\ v.queue = z.queue  BY <2>2 DEF SameWrite
  <2>. QED  BY <1>8, <2>1, <2>2, <2>3
<1>. QED  BY <1>11, <1>12, <1>13

-----------------------------------------------------------------------------
(* Requests *)

\* Only the requests and the verifications differ.
ButRequests(x, y) ==
    /\ y.persisted = x.persisted /\ y.attachment = x.attachment /\ y.disposed = x.disposed
    /\ SameTries(x, y) /\ MoreTokens(x, y) /\ SameWrite(x, y)

LEMMA RequestsKept ==
    ASSUME NEW x, NEW y, AuthI(x), y \in Memory, ButRequests(x, y), RequestsI(y)
    PROVE  AuthI(y)
<1>. USE DEF ButRequests, SameTries, MoreTokens, SameWrite
<1>1. AttemptsI(y)  BY DEF AuthI, Sound, AttemptsI, AttemptI
<1>2. QueueI(y, y.queue)
  BY DEF AuthI, Sound, QueueI, WritesI, InstallI, MismatchI, ClearsBehind
<1>3. HeldI(y)  BY DEF AuthI, Sound, HeldI
<1>4. TokensI(y)  BY DEF AuthI, Sound, TokensI, Accounted
<1>5. WriteI(y)  BY DEF AuthI, WriteI, Believed, PreviousGiven
<1>. QED  BY <1>1, <1>2, <1>3, <1>4, <1>5 DEF AuthI, Sound

\* authorize(): a request that goes out carries a verified token.
LEMMA AuthorizedIs ==
    ASSUME NEW x, NEW retry \in BOOLEAN, AuthI(x)
    PROVE  AuthI(Authorized(x, retry)) /\ ButRequests(x, Authorized(x, retry))
<1>. DEFINE t == x.attachment.token
            phase == IF x.attachment.verified THEN "sent" ELSE "verifying"
            r == [phase |-> phase, token |-> t, retry |-> retry]
            y == [x EXCEPT !.requests = @ \cup {r}]
            z == [y EXCEPT !.verifying = @ \cup {t}]
<1>0. x \in Memory  BY DEF AuthI, Sound
<1>1. CASE x.attachment = Detached \/ x.attachment.paused
  <2>1. Authorized(x, retry) = x  BY <1>1 DEF Authorized
  <2>. QED  BY <2>1 DEF ButRequests, SameTries, MoreTokens, SameWrite
<1>2. CASE ~(x.attachment = Detached \/ x.attachment.paused)
  <2>1. x.attachment \in Attachment /\ t \in Tokens  BY <1>0, <1>2 DEF Memory, Attachment
  <2>2. phase \in {"sent", "verifying"} /\ (phase = "sent" => x.attachment.verified)  OBVIOUS
  <2>3. r \in Request  BY <2>1, <2>2 DEF Request
  <2>4. r.phase = "sent" => PrincipalOf(r.token) = x.attachment.principal
    BY <2>2 DEF AuthI, Sound, HeldI
  <2>. HIDE DEF phase, r
  <2>5. y \in Memory /\ y.requests = x.requests \cup {r} /\ ButRequests(x, y)
    BY <1>0, <2>3 DEF Memory, ButRequests, SameTries, MoreTokens, SameWrite
  <2>6. RequestsI(y)
    BY <1>2, <2>4, <2>5 DEF AuthI, Sound, RequestsI, ButRequests
  <2>. HIDE DEF y
  <2>7. z \in Memory /\ z.requests = y.requests /\ ButRequests(x, z)
    BY <2>1, <2>5 DEF Memory, ButRequests, SameTries, MoreTokens, SameWrite
  <2>. HIDE DEF z
  <2>8. RequestsI(z)
    BY <2>5, <2>6, <2>7 DEF RequestsI, ButRequests
  <2>9. AuthI(y) /\ AuthI(z)  BY <2>5, <2>6, <2>7, <2>8, RequestsKept
  <2>10. Authorized(x, retry) \in {y, z}
    BY <1>2 DEF Authorized, y, z, r, phase
  <2>. QED  BY <2>5, <2>7, <2>9, <2>10
<1>. QED  BY <1>1, <1>2

LEMMA ButTrans ==
    ASSUME NEW x, NEW y, NEW z, ButRequests(x, y), ButRequests(y, z)
    PROVE  ButRequests(x, z)
BY DEF ButRequests, SameTries, MoreTokens, SameWrite

LEMMA VerificationEndsIs ==
    ASSUME NEW x, NEW t \in Tokens, AuthI(x)
    PROVE  AuthI(VerificationEnds(x, t)) /\ ButRequests(x, VerificationEnds(x, t))
<1>. DEFINE waiting == {r \in x.requests : r.phase = "verifying" /\ r.token = t}
            y == [x EXCEPT !.requests = @ \ waiting, !.verifying = @ \ {t}]
            first == IF \E r \in waiting : ~r.retry THEN Authorized(y, FALSE) ELSE y
<1>0. x \in Memory  BY DEF AuthI, Sound
<1>1. y \in Memory /\ y.requests = x.requests \ waiting /\ ButRequests(x, y)
  BY <1>0 DEF Memory, ButRequests, SameTries, MoreTokens, SameWrite
<1>. HIDE DEF y, waiting
<1>2. RequestsI(y)  BY <1>1 DEF AuthI, Sound, RequestsI, ButRequests
<1>3. AuthI(y)  BY <1>1, <1>2, RequestsKept
<1>4. AuthI(first) /\ ButRequests(x, first)
  <2>1. AuthI(Authorized(y, FALSE)) /\ ButRequests(y, Authorized(y, FALSE))
    BY <1>3, AuthorizedIs
  <2>. QED  BY <1>1, <1>3, <2>1, ButTrans
<1>. HIDE DEF first
<1>5. AuthI(Authorized(first, TRUE)) /\ ButRequests(x, Authorized(first, TRUE))
  <2>1. AuthI(Authorized(first, TRUE)) /\ ButRequests(first, Authorized(first, TRUE))
    BY <1>4, AuthorizedIs
  <2>. QED  BY <1>4, <2>1, ButTrans
<1>6. VerificationEnds(x, t) \in {y, first, Authorized(first, TRUE)}
  BY DEF VerificationEnds, first, y, waiting
<1>. QED  BY <1>1, <1>3, <1>4, <1>5, <1>6

-----------------------------------------------------------------------------
(* The account's attachment *)

\* The attachment changes only in what it knows of its token.
LEMMA AttachmentKept ==
    ASSUME NEW x, NEW y, AuthI(x), y \in Memory,
           x.attachment # Detached, y.attachment # Detached,
           y.attachment.token = x.attachment.token,
           y.attachment.principal = x.attachment.principal,
           y.attachment.verified => y.attachment.principal = PrincipalOf(y.attachment.token),
           y.persisted = x.persisted, y.disposed = x.disposed, y.requests = x.requests,
           SameTries(x, y), MoreTokens(x, y), SameWrite(x, y)
    PROVE  AuthI(y)
<1>. USE DEF SameTries, MoreTokens, SameWrite
<1>1. AttemptsI(y)  BY DEF AuthI, Sound, AttemptsI, AttemptI
<1>2. QueueI(y, y.queue)
  BY DEF AuthI, Sound, QueueI, WritesI, InstallI, MismatchI, ClearsBehind
<1>3. HeldI(y)  BY DEF AuthI, Sound, HeldI
<1>4. TokensI(y)  BY DEF AuthI, Sound, TokensI, Accounted
<1>5. RequestsI(y)  BY DEF AuthI, Sound, RequestsI
<1>6. WriteI(y)  BY DEF AuthI, WriteI, Believed, PreviousGiven
<1>. QED  BY <1>1, <1>2, <1>3, <1>4, <1>5, <1>6 DEF AuthI, Sound

\* A refusal pauses the credential it is about.
LEMMA PauseIs ==
    ASSUME NEW x, NEW gone, NEW t \in Tokens, AuthI(x), PausedI(x, gone), t \in gone
    PROVE  LET y == pause(x, t)
           IN  /\ AuthI(y) /\ PausedI(y, gone) /\ y.persisted = x.persisted
               /\ SameWrite(x, y)
<1>. DEFINE m == [x.attachment EXCEPT !.paused = TRUE]
            y == [x EXCEPT !.attachment = m]
<1>0. x \in Memory /\ x.attachment \in Attachment \cup {Detached}  BY DEF AuthI, Sound, Memory
<1>1. CASE Current(x, t)
  <2>1. x.attachment \in Attachment  BY <1>0, <1>1, NoneIsNobody DEF Current
  <2>2. /\ m \in Attachment /\ m.token = t /\ m.principal = x.attachment.principal
        /\ m.verified = x.attachment.verified
    BY <1>1, <2>1 DEF Attachment, Current
  <2>3. pause(x, t) = y  BY <1>0, <1>1 DEF pause, Memory
  <2>. HIDE DEF m
  <2>4. /\ y \in Memory /\ y.attachment = m /\ y.persisted = x.persisted
        /\ y.disposed = x.disposed /\ y.requests = x.requests
    BY <1>0, <2>2 DEF Memory
  <2>5. SameTries(x, y) /\ MoreTokens(x, y) /\ SameWrite(x, y)
    BY <1>0 DEF Memory, SameTries, MoreTokens, SameWrite
  <2>. HIDE DEF y
  <2>6. x.attachment # Detached /\ y.attachment # Detached  BY <2>1, <2>2, <2>4, NoneIsNobody
  <2>7. y.attachment.verified => y.attachment.principal = PrincipalOf(y.attachment.token)
    BY <1>1, <2>2, <2>4 DEF AuthI, Sound, HeldI, Current
  <2>8. AuthI(y)  BY <1>1, <2>2, <2>4, <2>5, <2>6, <2>7, AttachmentKept DEF Current
  <2>. QED  BY <2>2, <2>3, <2>4, <2>5, <2>8 DEF PausedI
<1>2. CASE ~Current(x, t)
  BY <1>2 DEF pause, SameWrite
<1>. QED  BY <1>1, <1>2

\* The attachment ends; the credential stays.
LEMMA DetachedIs ==
    ASSUME NEW x, NEW y, AuthI(x), y \in Memory, y.disposed, y.attachment = Detached,
           y.requests = {}, y.persisted = x.persisted,
           SameTries(x, y), MoreTokens(x, y), SameWrite(x, y)
    PROVE  AuthI(y)
<1>. USE DEF SameTries, MoreTokens, SameWrite
<1>1. AttemptsI(y)  BY DEF AuthI, Sound, AttemptsI, AttemptI
<1>2. QueueI(y, y.queue)
  BY DEF AuthI, Sound, QueueI, WritesI, InstallI, MismatchI, ClearsBehind
<1>3. HeldI(y)  BY NoneIsNobody DEF AuthI, Sound, HeldI
<1>4. TokensI(y)  BY DEF AuthI, Sound, TokensI, Accounted
<1>5. RequestsI(y)  BY DEF RequestsI
<1>6. WriteI(y)  BY DEF AuthI, WriteI, Believed, PreviousGiven
<1>. QED  BY <1>1, <1>2, <1>3, <1>4, <1>5, <1>6 DEF AuthI, Sound

\* The credential is dropped, and its token is accounted for.
LEMMA DroppedIs ==
    ASSUME NEW x, NEW y, NEW q, Sound(x, q), y \in Memory,
           y.persisted = None, y.attachment = Detached, y.requests = {},
           SameTries(x, y), MoreTokens(x, y),
           \A a \in SignIns : Accounted(x, x.attempts[a].token) => Accounted(y, x.attempts[a].token)
    PROVE  Sound(y, q)
<1>. USE DEF SameTries, MoreTokens
<1>1. AttemptsI(y)  BY DEF Sound, AttemptsI, AttemptI
<1>2. QueueI(y, q)
  BY DEF Sound, QueueI, WritesI, InstallI, MismatchI, ClearsBehind
<1>3. HeldI(y)  BY NoneIsNobody DEF HeldI
<1>4. TokensI(y)  BY DEF Sound, TokensI
<1>5. RequestsI(y)  BY DEF RequestsI
<1>. QED  BY <1>1, <1>2, <1>3, <1>4, <1>5 DEF Sound

-----------------------------------------------------------------------------
(* Attempts, and the first write *)

\* An attempt moves on: no queued install is touched, and a token it obtains
\* was never handed out.
LEMMA TriesKept ==
    ASSUME NEW x, NEW y, AuthI(x), y \in Memory, SameHeld(x, y), SameWrite(x, y),
           x.asked \subseteq y.asked, x.forgotten \subseteq y.forgotten, x.issued \subseteq y.issued,
           AttemptsI(y), TokensI(y),
           \A b \in SignIns :
              /\ x.attempts[b].pc = "queued" => y.attempts[b] = x.attempts[b]
              /\ x.attempts[b].aborted => y.attempts[b].aborted
              /\ y.attempts[b].token = x.attempts[b].token \/ y.attempts[b].token \notin x.issued
    PROVE  AuthI(y)
<1>1. WriteI(y)  BY WriteMoves
<1>2. \A i \in 1 .. Len(x.queue) : InstallI(y, x.queue[i])
  BY DEF AuthI, Sound, QueueI, WritesI, InstallI
<1>3. \A i \in 1 .. Len(x.queue) : MismatchI(y, x.queue[i])
  BY DEF AuthI, Sound, QueueI, WritesI, MismatchI
<1>4. ClearsBehind(y, x.queue)
  <2>. SUFFICES ASSUME NEW i \in 1 .. Len(x.queue), NEW j \in 1 .. Len(x.queue), i < j,
                       x.queue[i].op = "install", x.queue[j].op = "clear"
                PROVE  y.attempts[x.queue[i].by].aborted
    BY DEF ClearsBehind
  <2>1. x.queue[i].by \in SignIns /\ x.attempts[x.queue[i].by].aborted
    BY DEF AuthI, Sound, QueueI, WritesI, InstallI, ClearsBehind
  <2>. QED  BY <2>1
<1>5. QueueI(y, y.queue)
  BY <1>2, <1>3, <1>4 DEF AuthI, Sound, QueueI, WritesI, SameHeld, SameWrite
<1>6. HeldI(y)  BY DEF AuthI, Sound, HeldI, SameHeld
<1>7. RequestsI(y)  BY DEF AuthI, Sound, RequestsI, SameHeld
<1>. QED  BY <1>1, <1>5, <1>6, <1>7 DEF AuthI, Sound

\* What is left of the queue when its first write settles.
LEMMA TailIs ==
    ASSUME NEW x, Sound(x, x.queue), x.queue # <<>>
    PROVE  LET w == Head(x.queue)
               q == Tail(x.queue)
           IN  /\ Sound(x, q)
               /\ HasClear(x.queue) /\ w.op # "clear" => HasClear(q)
               /\ w.op = "install" =>
                    /\ \A i \in 1 .. Len(q) : q[i].op = "install" => q[i].by # w.by
                    /\ HasClear(q) => x.attempts[w.by].aborted
<1>. DEFINE w == Head(x.queue)
            q == Tail(x.queue)
            n == Len(x.queue)
<1>1. x.queue \in Seq(Write)  BY DEF Sound, Memory
<1>2. /\ n \in Nat /\ n # 0 /\ q \in Seq(Write) /\ Len(q) = n - 1
      /\ w = x.queue[1] /\ \A i \in 1 .. Len(q) : q[i] = x.queue[i + 1]
  BY <1>1
<1>. HIDE DEF q, n, w
<1>3. 1 \in 1 .. n /\ \A i \in 1 .. Len(q) : i + 1 \in 1 .. n /\ 1 < i + 1 /\ i + 1 # 1  BY <1>2
<1>4. WritesI(x, q)  BY <1>2, <1>3 DEF Sound, QueueI, WritesI, n
<1>5. OneInstall(q)
  <2>. SUFFICES ASSUME NEW i \in 1 .. Len(q), NEW j \in 1 .. Len(q),
                       q[i].op = "install", q[j].op = "install", q[i].by = q[j].by
                PROVE  i = j
    BY DEF OneInstall
  <2>1. i + 1 = j + 1  BY <1>2, <1>3 DEF Sound, QueueI, OneInstall, n
  <2>. QED  BY <1>2, <2>1
<1>6. ClearsBehind(x, q)
  <2>. SUFFICES ASSUME NEW i \in 1 .. Len(q), NEW j \in 1 .. Len(q), i < j,
                       q[i].op = "install", q[j].op = "clear"
                PROVE  x.attempts[q[i].by].aborted
    BY DEF ClearsBehind
  <2>1. i + 1 < j + 1  BY <1>2
  <2>. QED  BY <1>2, <1>3, <2>1 DEF Sound, QueueI, ClearsBehind, n
<1>7. HasClear(q) => HasClear(x.queue)  BY <1>2, <1>3 DEF HasClear, n
<1>8. Sound(x, q)  BY <1>4, <1>5, <1>6, <1>7 DEF Sound, QueueI
<1>9. HasClear(x.queue) /\ w.op # "clear" => HasClear(q)
  <2>. SUFFICES ASSUME NEW i \in 1 .. n, x.queue[i].op = "clear", w.op # "clear"
                PROVE  HasClear(q)
    BY DEF HasClear, n
  <2>1. i # 1  BY <1>2
  <2>2. i - 1 \in 1 .. Len(q) /\ (i - 1) + 1 = i  BY <1>2, <2>1
  <2>. QED  BY <1>2, <2>2 DEF HasClear
<1>10. ASSUME w.op = "install"
       PROVE  /\ \A i \in 1 .. Len(q) : q[i].op = "install" => q[i].by # w.by
              /\ HasClear(q) => x.attempts[w.by].aborted
  <2>1. \A i \in 1 .. Len(q) : q[i].op = "install" => q[i].by # w.by
    BY <1>2, <1>3, <1>10 DEF Sound, QueueI, OneInstall, n
  <2>2. HasClear(q) => x.attempts[w.by].aborted
    BY <1>2, <1>3, <1>10 DEF Sound, QueueI, ClearsBehind, HasClear, n
  <2>. QED  BY <2>1, <2>2
<1>. QED  BY <1>8, <1>9, <1>10 DEF w, q

\* An install's write settles without its credential becoming the client's.
LEMMA RejectsIs ==
    ASSUME NEW x, NEW outcome \in Outcome, Sound(x, x.queue), x.queue # <<>>,
           Head(x.queue).op = "install", PreviousGiven(x)
    PROVE  LET y == InstallRejects(x, Head(x.queue).by, outcome)
           IN  /\ AuthI(y) /\ SameHeld(x, y) /\ y.step = "start"
               /\ HasClear(x.queue) => HasClear(y.queue)
<1>. DEFINE a == Head(x.queue).by
            q == Tail(x.queue)
            z == InstallFails(x, a)
<1>1. a \in SignIns /\ x.attempts[a].pc = "queued"  BY HeadIs DEF InstallI
<1>2. /\ Sound(x, q) /\ \A i \in 1 .. Len(q) : q[i].op = "install" => q[i].by # a
      /\ HasClear(x.queue) => HasClear(q)
  BY TailIs
<1>. HIDE DEF a, q
<1>3. Sound(z, q) /\ SameHeld(x, z) /\ SameWrite(x, z) /\ MoreTokens(x, z)
  BY <1>1, <1>2, InstallFailsIs
<1>. HIDE DEF z
<1>4. z.queue = x.queue /\ z.queue # <<>> /\ PreviousGiven(z)
  BY <1>3 DEF PreviousGiven, SameWrite, MoreTokens
<1>5. Sound(z, Tail(z.queue))  BY <1>3, <1>4 DEF q
<1>6. LET y == Settle(z, outcome)
      IN  /\ AuthI(y) /\ SameHeld(z, y) /\ y.step = "start"
          /\ HasClear(Tail(z.queue)) => HasClear(y.queue)
  BY <1>4, <1>5, SettleIs
<1>7. InstallRejects(x, a, outcome) = Settle(z, outcome)  BY DEF InstallRejects, z
<1>. QED  BY <1>2, <1>3, <1>4, <1>6, <1>7 DEF SameHeld, a, q

\* The new credential becomes the client's: no clear waits behind its write,
\* the requests under way are of the same principal, and the token it replaces
\* is given back.
LEMMA CommitIs ==
    ASSUME NEW x, AuthI(x), x.step = "writing", ~x.attempts[Head(x.queue).by].aborted
    PROVE  LET y == Commit(x, Head(x.queue).by)
           IN  /\ AuthI(y) /\ y.step = "start" /\ y.persisted = x.cell /\ ~y.attachment.paused
<1>. DEFINE a == Head(x.queue).by
            t == Head(x.queue).token
            q == Tail(x.queue)
            old == x.persisted.token
            tries == [x.attempts EXCEPT ![a].pc = "revoking"]
            m == Attached(x.cell, TRUE)
            v == [x EXCEPT !.persisted = x.cell, !.attachment = m, !.attempts = tries]
            z == revoke(v, old)
<1>0. x \in Memory /\ Sound(x, x.queue) /\ SignIns \subseteq Nat
  BY BoundsAssumption DEF AuthI, Sound, SignIns
<1>1. x.queue # <<>> /\ Head(x.queue).op = "install" /\ x.cell = Credential(t)
  BY DEF AuthI, WriteI
<1>2. a \in SignIns /\ x.attempts[a].pc = "queued" /\ x.attempts[a].token = t
  BY <1>0, <1>1, HeadIs DEF InstallI
<1>3. /\ Sound(x, q) /\ \A i \in 1 .. Len(q) : q[i].op = "install" => q[i].by # a
      /\ ~HasClear(q)
  BY <1>0, <1>1, TailIs
<1>4. /\ PreviousGiven(x)
      /\ x.attachment # Detached => x.attachment.principal = PrincipalOf(t)
  BY DEF AuthI, WriteI
<1>5. t \in x.issued /\ t \in Tokens
  <2>1. AttemptI(x, a)  BY <1>2, <1>3 DEF Sound, AttemptsI
  <2>2. t # "none" /\ t \in x.issued \cup {"none"}  BY <1>2, <2>1 DEF AttemptI
  <2>. QED  BY <1>0, <2>2 DEF Memory
<1>. HIDE DEF a, q, t
<1>6. x.cell \in PersistedAuth /\ x.cell.token = t /\ x.cell.principal = PrincipalOf(t)
  BY <1>1, <1>5 DEF Credential, PersistedAuth, PrincipalOf
<1>7. /\ m \in Attachment /\ m.token = t /\ m.principal = PrincipalOf(t)
      /\ m.verified /\ ~m.paused
  BY <1>6 DEF Attached, Attachment, PersistedAuth
<1>8. tries \in [SignIns -> Attempt]  BY <1>0, <1>2 DEF Memory, Attempt
<1>9. /\ tries[a].pc = "revoking" /\ tries[a].token = t
      /\ \A b \in SignIns : /\ tries[b].token = x.attempts[b].token
                            /\ tries[b].aborted = x.attempts[b].aborted
                            /\ b # a => tries[b] = x.attempts[b]
  BY <1>0, <1>2 DEF Memory, Attempt
<1>10. old \in Tokens \cup {"none"}
  BY <1>0, NoneIsNobody DEF Memory, PersistedAuth
<1>. HIDE DEF m, tries, old
<1>11. v \in Memory  BY <1>0, <1>6, <1>7, <1>8 DEF Memory
<1>12. /\ v.persisted = x.cell /\ v.attachment = m /\ v.attempts = tries
       /\ v.requests = x.requests /\ v.attempt = x.attempt /\ v.issued = x.issued
       /\ v.asked = x.asked /\ v.forgotten = x.forgotten /\ v.previous = x.previous
       /\ v.queue = x.queue /\ v.disposed = x.disposed
  BY <1>0 DEF Memory
<1>. HIDE DEF v
<1>13. /\ z \in Memory /\ SameHeld(v, z) /\ SameTries(v, z) /\ MoreTokens(v, z)
       /\ SameWrite(v, z) /\ old \in z.asked \cup {"none"}
  BY <1>10, <1>11, RevokeIs
<1>14. /\ z.persisted = x.cell /\ z.attachment = m /\ z.attempts = tries
       /\ z.requests = x.requests /\ z.attempt = x.attempt /\ z.issued = x.issued
       /\ x.asked \subseteq z.asked /\ x.forgotten \subseteq z.forgotten
       /\ z.previous = x.previous /\ z.queue = x.queue
  BY <1>12, <1>13 DEF SameHeld, SameTries, MoreTokens, SameWrite
<1>. HIDE DEF z
<1>15. AttemptsI(z)
  <2>. SUFFICES ASSUME NEW b \in SignIns PROVE AttemptI(z, b)  BY DEF AttemptsI
  <2>0. AttemptI(x, b)  BY <1>3 DEF Sound, AttemptsI
  <2>1. CASE b = a
    <3>1. ~(a > x.attempt)  BY <1>2, <2>0, <2>1 DEF AttemptI
    <3>. QED  BY <1>2, <1>5, <1>9, <1>14, <2>0, <2>1, <3>1, NoneIsNobody DEF AttemptI
  <2>2. CASE b # a  BY <1>9, <1>14, <2>0, <2>2 DEF AttemptI
  <2>. QED  BY <2>1, <2>2
<1>16. QueueI(z, q)
  <2>1. \A i \in 1 .. Len(q) : InstallI(z, q[i])
    BY <1>3, <1>9, <1>14 DEF Sound, QueueI, WritesI, InstallI
  <2>2. \A i \in 1 .. Len(q) : MismatchI(z, q[i])
    BY <1>3, <1>9, <1>14 DEF Sound, QueueI, WritesI, MismatchI
  <2>3. ClearsBehind(z, q)
    BY <1>3, <1>9, <1>14 DEF Sound, QueueI, WritesI, InstallI, ClearsBehind
  <2>. QED  BY <1>3, <2>1, <2>2, <2>3 DEF Sound, QueueI, WritesI
<1>17. HeldI(z)
  BY <1>5, <1>6, <1>7, <1>14, NoneIsNobody DEF HeldI
<1>18. TokensI(z)
  <2>. SUFFICES ASSUME NEW b \in SignIns, z.attempts[b].pc \in {"ended", "revoking"}
                PROVE  Accounted(z, z.attempts[b].token)
    BY DEF TokensI
  <2>1. CASE b = a  BY <1>6, <1>9, <1>14, <2>1 DEF Accounted
  <2>2. CASE b # a
    <3>1. Accounted(x, x.attempts[b].token)  BY <1>3, <1>9, <1>14, <2>2 DEF Sound, TokensI
    <3>2. z.attempts[b].token = x.attempts[b].token  BY <1>9, <1>14
    <3>. QED  BY <1>13, <1>14, <3>1, <3>2 DEF Accounted, old
  <2>. QED  BY <2>1, <2>2
<1>19. RequestsI(z)
  <2>1. z.attachment # Detached  BY <1>7, <1>14, NoneIsNobody
  <2>2. ASSUME NEW r \in z.requests, r.phase = "sent"
        PROVE  PrincipalOf(r.token) = z.attachment.principal
    <3>1. r \in x.requests /\ x.attachment # Detached  BY <1>3, <1>14, <2>2 DEF Sound, RequestsI
    <3>. QED  BY <1>3, <1>4, <1>7, <1>14, <2>2, <3>1 DEF Sound, RequestsI
  <2>. QED  BY <2>1, <2>2 DEF RequestsI
<1>20. Sound(z, Tail(z.queue))
  BY <1>13, <1>14, <1>15, <1>16, <1>17, <1>18, <1>19 DEF Sound, q
<1>21. PreviousGiven(z) /\ z.queue # <<>>
  BY <1>1, <1>4, <1>14 DEF PreviousGiven
<1>22. Done \in Outcome  BY BoundsAssumption DEF Done, Outcome
<1>23. LET y == Settle(z, Done)
       IN  AuthI(y) /\ SameHeld(z, y) /\ y.step = "start"
  BY <1>20, <1>21, <1>22, SettleIs
<1>24. Commit(x, a) = Settle(z, Done)
  <2>1. [x EXCEPT !.persisted = x.cell, !.attachment = Attached(x.cell, TRUE),
                  !.attempts[a].pc = "revoking"] = v
    BY <1>0, <1>2 DEF v, m, tries, Memory
  <2>. QED  BY <2>1 DEF Commit, z, old
<1>. QED  BY <1>7, <1>14, <1>23, <1>24 DEF SameHeld, a

-----------------------------------------------------------------------------
(* Every action keeps the invariant *)

\* A step of the client's memory alone.
LEMMA ClientKeeps ==
    ASSUME SessionI, NEW y, Client(y), AuthI(y), PausedI(y, dead), StoreI(y, stored, dirty)
    PROVE  SessionI'
BY DEF SessionI, Client

\* The credential, its attachment and the step of the first write stay.
Quiet(x, y) ==
    /\ y.persisted = x.persisted /\ y.attachment = x.attachment /\ y.step = x.step
    /\ HasClear(x.queue) => HasClear(y.queue)

LEMMA QuietKeeps ==
    ASSUME SessionI, NEW y, Client(y), AuthI(y), Quiet(c, y)
    PROVE  SessionI'
<1>1. PausedI(y, dead)  BY DEF SessionI, PausedI, Quiet
<1>2. StoreI(y, stored, dirty)  BY DEF SessionI, StoreI, Quiet
<1>. QED  BY <1>1, <1>2, ClientKeeps

\* The cell starts with a restored credential, or with none.
LEMMA AuthInitHolds == AuthInit => SessionI
<1>. SUFFICES ASSUME AuthInit PROVE SessionI  OBVIOUS
<1>0. MaxAttempts \in Nat /\ SignIns \subseteq Nat  BY BoundsAssumption DEF SignIns
<1>1. stored \in PersistedAuth \cup {None} /\ (stored # None => stored.token \in Tokens)
  <2>1. CASE stored = None  BY <2>1
  <2>2. CASE stored # None
    <3>. DEFINE s == CHOOSE s \in Alice : TRUE
    <3>1. Alice # {} /\ stored \in [token : {s}, principal : {"alice", "bob"}]
      BY <2>2 DEF AuthInit
    <3>2. s \in Alice  BY <3>1
    <3>. QED  BY <3>1, <3>2 DEF PersistedAuth, Tokens
  <2>. QED  BY <2>1, <2>2
<1>2. c.persisted = stored /\ c.attachment = (IF stored = None THEN Detached ELSE Attached(stored, FALSE))
  BY DEF AuthInit
<1>3. /\ c.queue = <<>> /\ c.step = "start" /\ c.cell = None /\ c.previous = None
      /\ c.attempt = 0 /\ c.requests = {} /\ c.issued = {stored.token} \ {"none"}
      /\ c.attempts = [a \in SignIns |-> [kind |-> "start", pc |-> "unused",
                                          aborted |-> FALSE, token |-> "none"]]
  BY DEF AuthInit
<1>4. c.attachment \in Attachment \cup {Detached}
  BY <1>1, <1>2 DEF Attached, Attachment, PersistedAuth
<1>5. c.issued \subseteq Tokens  BY <1>1, <1>3, NoneIsNobody
<1>6. c.attempts \in [SignIns -> Attempt]  BY <1>3 DEF Attempt
<1>7. [how |-> "done", by |-> 0] \in Outcome  BY <1>0 DEF Outcome
<1>8. [phase |-> "none", signal |-> 0, wait |-> 0, result |-> "none"] \in Cancellation
  BY <1>0 DEF Cancellation
<1>9. c \in Memory
  <2>. DEFINE p == c.attachment
              t == c.attempts
              i == c.issued
              l == [how |-> "done", by |-> 0]
              k == [phase |-> "none", signal |-> 0, wait |-> 0, result |-> "none"]
  <2>1. c = [persisted |-> stored, attachment |-> p, queue |-> <<>>, step |-> "start",
             cell |-> None, previous |-> None, last |-> l, attempts |-> t, attempt |-> 0,
             flight |-> 0, cancellation |-> k, disposed |-> FALSE, verifying |-> {},
             requests |-> {}, asked |-> {}, forgotten |-> {}, issued |-> i]
    BY DEF AuthInit
  <2>2. /\ p \in Attachment \cup {Detached} /\ t \in [SignIns -> Attempt]
        /\ i \subseteq Tokens /\ l \in Outcome /\ k \in Cancellation
    BY <1>4, <1>5, <1>6, <1>7, <1>8
  <2>. HIDE DEF p, t, i, l, k
  <2>3. <<>> \in Seq(Write) /\ 0 \in 0 .. MaxAttempts  BY <1>0
  <2>. QED  BY <1>1, <2>1, <2>2, <2>3 DEF Memory
<1>10. \A a \in SignIns : c.attempts[a].pc = "unused" /\ c.attempts[a].token = "none"
  BY <1>3
<1>11. AttemptsI(c) /\ TokensI(c)
  BY <1>10 DEF AttemptsI, AttemptI, TokensI
<1>12. QueueI(c, c.queue)
  <2>1. \A i \in 1 .. Len(c.queue) : FALSE  BY <1>3
  <2>. QED  BY <2>1 DEF QueueI, WritesI, OneInstall, ClearsBehind, HasClear
<1>13. HeldI(c) /\ PausedI(c, dead)
  <2>1. CASE stored = None
    BY <1>2, <2>1, NoneIsNobody DEF HeldI, PausedI
  <2>2. CASE stored # None
    <3>1. stored.token \in c.issued  BY <1>1, <1>3, <2>2, NoneIsNobody
    <3>2. \A a \in SignIns : c.attempts[a].token # stored.token
      BY <1>1, <1>10, <2>2, NoneIsNobody
    <3>3. /\ c.attachment.token = stored.token /\ c.attachment.principal = stored.principal
          /\ ~c.attachment.verified /\ ~c.attachment.paused
      BY <1>2, <2>2 DEF Attached
    <3>4. c.attachment # Detached
      BY <1>1, <2>2, <3>3, NoneIsNobody
    <3>. QED  BY <1>2, <3>1, <3>2, <3>3, <3>4 DEF HeldI, PausedI
  <2>. QED  BY <2>1, <2>2
<1>14. RequestsI(c)  BY <1>3 DEF RequestsI
<1>15. WriteI(c)  BY <1>3 DEF WriteI
<1>16. StoreI(c, stored, dirty)  BY <1>2 DEF StoreI
<1>17. stored \in PersistedAuth \cup {None} /\ dirty \in BOOLEAN /\ dead \subseteq Tokens
  BY <1>1 DEF AuthInit
<1>. QED
  BY <1>9, <1>11, <1>12, <1>13, <1>14, <1>15, <1>16, <1>17 DEF SessionI, AuthI, Sound

\* An attempt that is over leaves its token accounted for.
LEMMA EndQuiet ==
    ASSUME NEW x, NEW a \in SignIns, AuthI(x), x.attempts[a].pc # "unused", x.attempts[a].pc # "queued"
    PROVE  /\ AuthI(InstallFails(x, a)) /\ Quiet(x, InstallFails(x, a))
           /\ Accounted(x, x.attempts[a].token) => AuthI(End(x, a)) /\ Quiet(x, End(x, a))
<1>0. Sound(x, x.queue)  BY DEF AuthI
<1>1. \A i \in 1 .. Len(x.queue) : x.queue[i].op = "install" => x.queue[i].by # a
  BY <1>0 DEF Sound, QueueI, WritesI, InstallI
<1>2. ASSUME NEW y, Sound(y, x.queue), SameHeld(x, y), SameWrite(x, y), MoreTokens(x, y),
             \A b \in SignIns : y.attempts[b].aborted = x.attempts[b].aborted
      PROVE  AuthI(y) /\ Quiet(x, y)
  <2>1. WriteI(y)  BY <1>0, <1>2, WriteMoves DEF MoreTokens
  <2>. QED  BY <1>2, <2>1 DEF AuthI, Quiet, SameHeld, SameWrite
<1>3. LET y == InstallFails(x, a)
      IN  /\ Sound(y, x.queue) /\ SameHeld(x, y) /\ SameWrite(x, y) /\ MoreTokens(x, y)
          /\ \A b \in SignIns : y.attempts[b].aborted = x.attempts[b].aborted
  BY <1>0, <1>1, InstallFailsIs
<1>4. ASSUME Accounted(x, x.attempts[a].token)
      PROVE  LET y == End(x, a)
             IN  /\ Sound(y, x.queue) /\ SameHeld(x, y) /\ SameWrite(x, y) /\ MoreTokens(x, y)
                 /\ \A b \in SignIns : y.attempts[b].aborted = x.attempts[b].aborted
  BY <1>0, <1>1, <1>4, EndIs
<1>. QED  BY <1>2, <1>3, <1>4

LEMMA LauncherEndsKeeps ==
    ASSUME SessionI, NEW a \in SignIns, LauncherEnds(a)
    PROVE  SessionI'
<1>1. AuthI(c) /\ c.attempts[a].pc = "launching" /\ Client(End(c, a))  BY DEF LauncherEnds, SessionI
<1>2. Accounted(c, c.attempts[a].token)
  BY <1>1 DEF AuthI, Sound, AttemptsI, AttemptI, Accounted
<1>3. AuthI(End(c, a)) /\ Quiet(c, End(c, a))  BY <1>1, <1>2, EndQuiet
<1>. QED  BY <1>1, <1>3, QuietKeeps

LEMMA RevocationEndsKeeps ==
    ASSUME SessionI, NEW a \in SignIns, RevocationEnds(a)
    PROVE  SessionI'
<1>1. AuthI(c) /\ c.attempts[a].pc = "revoking"  BY DEF RevocationEnds, SessionI
<1>2. Accounted(c, c.attempts[a].token)  BY <1>1 DEF AuthI, Sound, TokensI
<1>3. /\ AuthI(End(c, a)) /\ Quiet(c, End(c, a))
      /\ AuthI(InstallFails(c, a)) /\ Quiet(c, InstallFails(c, a))
  BY <1>1, <1>2, EndQuiet
<1>. DEFINE y == IF c.attempts[a].aborted THEN InstallFails(c, a) ELSE End(c, a)
<1>4. Client(y)  BY DEF RevocationEnds
<1>5. AuthI(y) /\ Quiet(c, y)  BY <1>3
<1>. HIDE DEF y
<1>. QED  BY <1>4, <1>5, QuietKeeps

\* The launcher's token goes to its attempt; no one had it before.
Returned(x, a, t) ==
    [x EXCEPT !.issued = x.issued \cup {t},
              !.attempts = [x.attempts EXCEPT ![a] = [x.attempts[a] EXCEPT !.token = t, !.pc = "reading"]]]

LEMMA ReturnedIs ==
    ASSUME NEW x, NEW a \in SignIns, NEW t \in Tokens \ x.issued, AuthI(x),
           x.attempts[a].pc = "launching"
    PROVE  LET y == Returned(x, a, t)
           IN  /\ AuthI(y) /\ SameHeld(x, y) /\ SameWrite(x, y)
               /\ y.attempts[a].pc = "reading"
<1>. DEFINE one == [x.attempts[a] EXCEPT !.token = t, !.pc = "reading"]
            tries == [x.attempts EXCEPT ![a] = one]
            some == x.issued \cup {t}
            y == [x EXCEPT !.issued = some, !.attempts = tries]
<1>0. x \in Memory /\ x.attempts[a] \in Attempt /\ SignIns \subseteq Nat
  BY BoundsAssumption DEF AuthI, Sound, Memory, SignIns
<1>1. /\ one \in Attempt /\ one.token = t /\ one.pc = "reading"
      /\ one.aborted = x.attempts[a].aborted
  BY <1>0 DEF Attempt
<1>. HIDE DEF one
<1>2. /\ tries \in [SignIns -> Attempt] /\ tries[a] = one
      /\ \A b \in SignIns : b # a => tries[b] = x.attempts[b]
  BY <1>0, <1>1 DEF Memory
<1>3. some \in SUBSET Tokens /\ x.issued \subseteq some /\ t \in some  BY <1>0 DEF Memory
<1>. HIDE DEF tries, some
<1>4. y \in Memory /\ y.attempts = tries /\ y.issued = some  BY <1>0, <1>2, <1>3 DEF Memory
<1>5. /\ SameHeld(x, y) /\ SameWrite(x, y) /\ y.attempt = x.attempt
      /\ y.asked = x.asked /\ y.forgotten = x.forgotten
  BY <1>0 DEF Memory, SameHeld, SameWrite
<1>. HIDE DEF y
<1>6. AttemptsI(y)
  <2>. SUFFICES ASSUME NEW b \in SignIns PROVE AttemptI(y, b)  BY DEF AttemptsI
  <2>0. AttemptI(x, b)  BY DEF AuthI, Sound, AttemptsI
  <2>1. CASE b = a
    <3>1. ~(a > x.attempt)  BY <2>0, <2>1 DEF AttemptI
    <3>2. a # x.attempt => x.attempts[a].aborted  BY <2>0, <2>1 DEF AttemptI
    <3>. QED  BY <1>1, <1>2, <1>3, <1>4, <1>5, <2>1, <3>1, <3>2, NoneIsNobody DEF AttemptI
  <2>2. CASE b # a  BY <1>2, <1>3, <1>4, <1>5, <2>0, <2>2 DEF AttemptI
  <2>. QED  BY <2>1, <2>2
<1>7. TokensI(y)
  <2>. SUFFICES ASSUME NEW b \in SignIns, y.attempts[b].pc \in {"ended", "revoking"}
                PROVE  Accounted(y, y.attempts[b].token)
    BY DEF TokensI
  <2>1. b # a /\ y.attempts[b] = x.attempts[b]  BY <1>1, <1>2, <1>4
  <2>2. Accounted(x, x.attempts[b].token)  BY <2>1 DEF AuthI, Sound, TokensI
  <2>. QED  BY <1>5, <2>1, <2>2 DEF Accounted, SameHeld, SameWrite
<1>8. \A b \in SignIns :
        /\ x.attempts[b].pc = "queued" => y.attempts[b] = x.attempts[b]
        /\ x.attempts[b].aborted => y.attempts[b].aborted
        /\ y.attempts[b].token = x.attempts[b].token \/ y.attempts[b].token \notin x.issued
  <2>. TAKE b \in SignIns
  <2>1. CASE b = a  BY <1>1, <1>2, <1>4, <2>1
  <2>2. CASE b # a  BY <1>2, <1>4, <2>2
  <2>. QED  BY <2>1, <2>2
<1>9. AuthI(y)  BY <1>3, <1>4, <1>5, <1>6, <1>7, <1>8, TriesKept
<1>10. y = Returned(x, a, t)  BY DEF Returned, y, tries, some, one
<1>. QED  BY <1>1, <1>2, <1>4, <1>5, <1>9, <1>10

\* It does not matter how far an attempt was when its sign-in fails.
LEMMA FailsAnywhere ==
    ASSUME NEW x \in Memory, NEW a \in SignIns
    PROVE  InstallFails([x EXCEPT !.attempts = [x.attempts EXCEPT ![a].pc = "reading"]], a)
              = InstallFails(x, a)
<1>. DEFINE t == x.attempts[a].token
            tries == [x.attempts EXCEPT ![a].pc = "reading"]
            over == [x.attempts EXCEPT ![a].pc = "ended"]
            At(u) == [u EXCEPT !.attempts = tries]
<1>1. x.attempts[a] \in Attempt /\ x.attempts \in [SignIns -> Attempt]  BY DEF Memory
<1>2. tries[a].token = t /\ [tries EXCEPT ![a].pc = "ended"] = over
  BY <1>1 DEF Attempt
<1>. HIDE DEF tries, over
<1>3. ASSUME NEW u \in Memory, u.attempts = x.attempts
      PROVE  End(At(u), a) = End(u, a)
  <2>. DEFINE f == IF u.flight = a THEN 0 ELSE u.flight
  <2>1. End(u, a) = [u EXCEPT !.attempts = over, !.flight = f]
    BY <1>3 DEF End, Memory, over
  <2>2. At(u).attempts = tries /\ At(u).flight = u.flight
    BY <1>3 DEF Memory
  <2>3. End(At(u), a) = [At(u) EXCEPT !.attempts = over, !.flight = f]
    BY <1>2, <1>3, <2>2 DEF End, Memory
  <2>. HIDE DEF f
  <2>4. [At(u) EXCEPT !.attempts = over, !.flight = f] = [u EXCEPT !.attempts = over, !.flight = f]
    BY <1>3 DEF Memory
  <2>. QED  BY <2>1, <2>3, <2>4
<1>4. /\ At(x).attempts[a].token = t /\ At(x).persisted = x.persisted
      /\ revoke(At(x), t) = At(revoke(x, t))
  BY <1>2 DEF Memory, revoke
<1>5. t \in Tokens \cup {"none"}  BY <1>1 DEF Attempt
<1>6. revoke(x, t) \in Memory /\ revoke(x, t).attempts = x.attempts
  BY <1>5, RevokeIs DEF SameTries
<1>7. CASE Orphaned(x, t)
  <2>1. InstallFails(x, a) = End(revoke(x, t), a)  BY <1>7 DEF InstallFails
  <2>2. InstallFails(At(x), a) = End(revoke(At(x), t), a)  BY <1>4, <1>7 DEF InstallFails, Orphaned
  <2>. QED  BY <1>3, <1>4, <1>6, <2>1, <2>2 DEF tries
<1>8. CASE ~Orphaned(x, t)
  <2>1. InstallFails(x, a) = End(x, a)  BY <1>8 DEF InstallFails
  <2>2. InstallFails(At(x), a) = End(At(x), a)  BY <1>4, <1>8 DEF InstallFails, Orphaned
  <2>. QED  BY <1>3, <2>1, <2>2 DEF tries
<1>. QED  BY <1>7, <1>8

LEMMA LauncherReturnsKeeps ==
    ASSUME SessionI, NEW a \in SignIns, LauncherReturns(a)
    PROVE  SessionI'
<1>0. AuthI(c) /\ c \in Memory /\ c.attempts[a] \in Attempt /\ c.attempts[a].pc = "launching"
  BY DEF SessionI, AuthI, Sound, Memory, LauncherReturns
<1>1. PICK t \in Tokens \ c.issued :
        LET x == [c EXCEPT !.attempts[a].token = t, !.issued = @ \cup {t}]
        IN  Client(IF x.attempts[a].aborted THEN InstallFails(x, a)
                   ELSE [x EXCEPT !.attempts[a].pc = "reading"])
  BY DEF LauncherReturns
<1>. DEFINE one == [c.attempts[a] EXCEPT !.token = t]
            tries == [c.attempts EXCEPT ![a] = one]
            x == [c EXCEPT !.issued = c.issued \cup {t}, !.attempts = tries]
            y == Returned(c, a, t)
<1>2. AuthI(y) /\ SameHeld(c, y) /\ SameWrite(c, y) /\ y.attempts[a].pc = "reading"
  BY <1>0, ReturnedIs
<1>3. one \in Attempt /\ tries \in [SignIns -> Attempt] /\ tries[a] = one
  BY <1>0 DEF Memory, Attempt
<1>4. [c EXCEPT !.attempts[a].token = t, !.issued = @ \cup {t}] = x
  BY <1>0 DEF Memory
<1>5. x \in Memory /\ x.attempts = tries
  <2>. HIDE DEF tries
  <2>. QED  BY <1>0, <1>3 DEF Memory
<1>6. [tries EXCEPT ![a].pc = "reading"]
        = [c.attempts EXCEPT ![a] = [c.attempts[a] EXCEPT !.token = t, !.pc = "reading"]]
  BY <1>0, <1>3 DEF Memory, Attempt
<1>7. [x EXCEPT !.attempts = [tries EXCEPT ![a].pc = "reading"]] = y
  <2>. DEFINE some == [tries EXCEPT ![a].pc = "reading"]
  <2>1. y = [c EXCEPT !.issued = c.issued \cup {t}, !.attempts = some]  BY <1>6 DEF Returned
  <2>. HIDE DEF some, tries, y
  <2>2. [x EXCEPT !.attempts = some] = [c EXCEPT !.issued = c.issued \cup {t}, !.attempts = some]
    BY <1>0 DEF Memory
  <2>. QED  BY <2>1, <2>2 DEF some
<1>. HIDE DEF x, tries, one
<1>8. [x EXCEPT !.attempts[a].pc = "reading"] = y
  BY <1>5, <1>7 DEF Memory
<1>9. InstallFails(x, a) = InstallFails(y, a)
  BY <1>5, <1>7, FailsAnywhere
<1>. HIDE DEF y
<1>10. Client(InstallFails(y, a)) \/ Client(y)
  <2>1. CASE x.attempts[a].aborted  BY <1>1, <1>4, <1>9, <2>1
  <2>2. CASE ~x.attempts[a].aborted  BY <1>1, <1>4, <1>8, <2>2
  <2>. QED  BY <2>1, <2>2
<1>11. Quiet(c, y)  BY <1>2 DEF Quiet, SameHeld, SameWrite
<1>12. CASE Client(y)  BY <1>2, <1>11, <1>12, QuietKeeps
<1>13. CASE Client(InstallFails(y, a))
  <2>. DEFINE z == InstallFails(y, a)
  <2>1. AuthI(z) /\ Quiet(y, z)  BY <1>2, EndQuiet
  <2>2. Quiet(c, z)  BY <1>11, <2>1 DEF Quiet
  <2>. QED  BY <1>13, <2>1, <2>2, QuietKeeps
<1>. QED  BY <1>10, <1>12, <1>13

LEMMA SessionReadKeeps ==
    ASSUME SessionI, NEW a \in SignIns, SessionRead(a)
    PROVE  SessionI'
<1>0. /\ AuthI(c) /\ c \in Memory /\ c.attempts[a] \in Attempt /\ c.attempts[a].pc = "reading"
      /\ SignIns \subseteq Nat
  BY BoundsAssumption DEF SessionI, AuthI, Sound, Memory, SessionRead, SignIns
<1>1. CASE Client(InstallFails(c, a))
  <2>1. AuthI(InstallFails(c, a)) /\ Quiet(c, InstallFails(c, a))  BY <1>0, EndQuiet
  <2>. QED  BY <1>1, <2>1, QuietKeeps
<1>2. CASE Client(enqueue([c EXCEPT !.attempts[a].pc = "queued"],
                          [op |-> "install", by |-> a, token |-> c.attempts[a].token]))
  <2>. DEFINE w == [op |-> "install", by |-> a, token |-> c.attempts[a].token]
              tries == [c.attempts EXCEPT ![a].pc = "queued"]
              y == [c EXCEPT !.attempts = tries]
  <2>1. /\ tries \in [SignIns -> Attempt] /\ tries[a].pc = "queued"
        /\ \A b \in SignIns : /\ tries[b].token = c.attempts[b].token
                              /\ tries[b].aborted = c.attempts[b].aborted
                              /\ b # a => tries[b] = c.attempts[b]
    BY <1>0 DEF Memory, Attempt
  <2>2. [c EXCEPT !.attempts[a].pc = "queued"] = y  BY <1>0 DEF Memory
  <2>. HIDE DEF tries
  <2>3. y \in Memory /\ y.attempts = tries  BY <1>0, <2>1 DEF Memory
  <2>4. SameHeld(c, y) /\ SameWrite(c, y) /\ MoreTokens(c, y) /\ y.attempt = c.attempt
    BY <1>0 DEF Memory, SameHeld, SameWrite, MoreTokens
  <2>. HIDE DEF y
  <2>5. AttemptsI(y)
    <3>. SUFFICES ASSUME NEW b \in SignIns PROVE AttemptI(y, b)  BY DEF AttemptsI
    <3>0. AttemptI(c, b)  BY <1>0 DEF AuthI, Sound, AttemptsI
    <3>1. CASE b = a
      <4>1. ~(a > c.attempt)  BY <1>0, <3>0, <3>1 DEF AttemptI
      <4>2. a # c.attempt => c.attempts[a].aborted  BY <1>0, <3>0, <3>1 DEF AttemptI
      <4>. QED  BY <1>0, <2>1, <2>3, <2>4, <3>0, <3>1, <4>1, <4>2 DEF AttemptI, MoreTokens
    <3>2. CASE b # a  BY <2>1, <2>3, <2>4, <3>0, <3>2 DEF AttemptI, MoreTokens
    <3>. QED  BY <3>1, <3>2
  <2>6. TokensI(y)
    <3>. SUFFICES ASSUME NEW b \in SignIns, y.attempts[b].pc \in {"ended", "revoking"}
                  PROVE  Accounted(y, y.attempts[b].token)
      BY DEF TokensI
    <3>1. b # a /\ y.attempts[b] = c.attempts[b]  BY <2>1, <2>3
    <3>2. Accounted(c, c.attempts[b].token)  BY <1>0, <3>1 DEF AuthI, Sound, TokensI
    <3>. QED  BY <2>4, <3>1, <3>2 DEF Accounted, SameHeld, SameWrite, MoreTokens
  <2>7. \A b \in SignIns :
          /\ c.attempts[b].pc = "queued" => y.attempts[b] = c.attempts[b]
          /\ c.attempts[b].aborted => y.attempts[b].aborted
          /\ y.attempts[b].token = c.attempts[b].token \/ y.attempts[b].token \notin c.issued
    BY <1>0, <2>1, <2>3
  <2>8. AuthI(y)  BY <1>0, <2>3, <2>4, <2>5, <2>6, <2>7, TriesKept DEF MoreTokens
  <2>9. /\ w \in Write /\ InstallI(y, w) /\ MismatchI(y, w) /\ w.op = "install" /\ w.by = a
    BY <1>0, <2>1, <2>3, BoundsAssumption DEF Write, InstallI, MismatchI, Attempt, SignIns
  <2>10. \A i \in 1 .. Len(y.queue) : y.queue[i].op = "install" => y.queue[i].by # a
    BY <1>0, <2>4 DEF AuthI, Sound, QueueI, WritesI, InstallI, SameWrite
  <2>. HIDE DEF w
  <2>. DEFINE z == enqueue(y, w)
  <2>11. AuthI(z) /\ SameHeld(y, z) /\ z.step = y.step /\ (HasClear(y.queue) => HasClear(z.queue))
    BY <2>8, <2>9, <2>10, EnqueueIs
  <2>12. Client(z)  BY <1>2, <2>2 DEF w
  <2>. HIDE DEF z
  <2>13. Quiet(c, z)  BY <2>4, <2>11 DEF Quiet, SameHeld, SameWrite
  <2>. QED  BY <2>11, <2>12, <2>13, QuietKeeps
<1>. QED  BY <1>1, <1>2 DEF SessionRead

\* A new attempt: the one before it was aborted.
LEMMA RunKeeps ==
    ASSUME SessionI, NEW kind \in {"start", "complete"}, Run(kind)
    PROVE  SessionI'
<1>. DEFINE x == Abort(c)
<1>1. PICK a \in SignIns :
        /\ a = c.attempt + 1
        /\ Client([x EXCEPT !.attempt = a, !.flight = a,
                            !.attempts[a].kind = kind, !.attempts[a].pc = "launching"])
  BY DEF Run
<1>2. /\ AuthI(x) /\ SameHeld(c, x) /\ SameWrite(c, x) /\ x.attempt = c.attempt
      /\ \A b \in SignIns : x.attempts[b].pc \in {"launching", "reading", "queued"}
                               => x.attempts[b].aborted
  BY AbortIs DEF SessionI
<1>. HIDE DEF x
<1>3. /\ x \in Memory /\ x.attempts[a] \in Attempt /\ a \in 0 .. MaxAttempts /\ SignIns \subseteq Nat
      /\ x.attempt \in Nat /\ a = x.attempt + 1
  BY <1>1, <1>2, BoundsAssumption DEF AuthI, Sound, Memory, SignIns
<1>4. x.attempts[a].pc = "unused" /\ x.attempts[a].token = "none"
  <2>1. AttemptI(x, a) /\ a > x.attempt  BY <1>2, <1>3 DEF AuthI, Sound, AttemptsI
  <2>. QED  BY <2>1 DEF AttemptI
<1>. DEFINE one == [x.attempts[a] EXCEPT !.kind = kind, !.pc = "launching"]
            tries == [x.attempts EXCEPT ![a] = one]
            y == [x EXCEPT !.attempt = a, !.flight = a, !.attempts = tries]
<1>5. /\ one \in Attempt /\ one.pc = "launching" /\ one.token = "none"
      /\ one.aborted = x.attempts[a].aborted
  BY <1>3, <1>4 DEF Attempt
<1>6. [x EXCEPT !.attempt = a, !.flight = a,
                !.attempts[a].kind = kind, !.attempts[a].pc = "launching"] = y
  <2>. DEFINE both == [[x.attempts EXCEPT ![a].kind = kind] EXCEPT ![a].pc = "launching"]
  <2>1. both = tries  BY <1>3 DEF Memory, Attempt
  <2>2. [x EXCEPT !.attempt = a, !.flight = a,
                  !.attempts[a].kind = kind, !.attempts[a].pc = "launching"]
          = [x EXCEPT !.attempt = a, !.flight = a, !.attempts = both]
    BY <1>3 DEF Memory
  <2>. QED  BY <2>1, <2>2
<1>. HIDE DEF one
<1>7. /\ tries \in [SignIns -> Attempt] /\ tries[a] = one
      /\ \A b \in SignIns : b # a => tries[b] = x.attempts[b]
  BY <1>3, <1>5 DEF Memory
<1>. HIDE DEF tries
<1>8. y \in Memory /\ y.attempts = tries /\ y.attempt = a  BY <1>3, <1>7 DEF Memory
<1>9. SameHeld(x, y) /\ SameWrite(x, y) /\ MoreTokens(x, y)
  BY <1>3 DEF Memory, SameHeld, SameWrite, MoreTokens
<1>. HIDE DEF y
<1>10. AttemptsI(y)
  <2>. SUFFICES ASSUME NEW b \in SignIns PROVE AttemptI(y, b)  BY DEF AttemptsI
  <2>0. AttemptI(x, b)  BY <1>2 DEF AuthI, Sound, AttemptsI
  <2>1. CASE b = a
    <3>1. ~(a > a)  BY <1>3
    <3>. QED  BY <1>5, <1>7, <1>8, <2>1, <3>1 DEF AttemptI
  <2>2. CASE b # a
    <3>1. b > a => b > x.attempt  BY <1>3
    <3>. QED  BY <1>2, <1>7, <1>8, <1>9, <2>0, <2>2, <3>1 DEF AttemptI, MoreTokens
  <2>. QED  BY <2>1, <2>2
<1>11. TokensI(y)
  <2>. SUFFICES ASSUME NEW b \in SignIns, y.attempts[b].pc \in {"ended", "revoking"}
                PROVE  Accounted(y, y.attempts[b].token)
    BY DEF TokensI
  <2>1. b # a /\ y.attempts[b] = x.attempts[b]  BY <1>5, <1>7, <1>8
  <2>2. Accounted(x, x.attempts[b].token)  BY <1>2, <2>1 DEF AuthI, Sound, TokensI
  <2>. QED  BY <1>9, <2>1, <2>2 DEF Accounted, SameHeld, SameWrite, MoreTokens
<1>12. \A b \in SignIns :
         /\ x.attempts[b].pc = "queued" => y.attempts[b] = x.attempts[b]
         /\ x.attempts[b].aborted => y.attempts[b].aborted
         /\ y.attempts[b].token = x.attempts[b].token \/ y.attempts[b].token \notin x.issued
  <2>. TAKE b \in SignIns
  <2>1. CASE b = a  BY <1>4, <1>5, <1>7, <1>8, <2>1
  <2>2. CASE b # a  BY <1>7, <1>8, <2>2
  <2>. QED  BY <2>1, <2>2
<1>13. AuthI(y)  BY <1>2, <1>8, <1>9, <1>10, <1>11, <1>12, TriesKept DEF MoreTokens
<1>14. Quiet(c, y)  BY <1>2, <1>9 DEF Quiet, SameHeld, SameWrite
<1>. QED  BY <1>1, <1>6, <1>13, <1>14, QuietKeeps

\* The account is left: a clear joins the queue behind aborted installs.
LEMMA SignOutKeeps ==
    ASSUME SessionI, signOut
    PROVE  SessionI'
<1>. DEFINE x == Abort(c)
            old == c.persisted.token
            w == [op |-> "clear", by |-> 0, token |-> "none"]
            v == retire([x EXCEPT !.persisted = None, !.flight = 0])
            u == revoke(v, old)
            y == enqueue(u, w)
<1>1. /\ AuthI(x) /\ SameHeld(c, x) /\ SameWrite(c, x)
      /\ \A b \in SignIns : x.attempts[b].pc \in {"launching", "reading", "queued"}
                               => x.attempts[b].aborted
  BY AbortIs DEF SessionI
<1>2. x \in Memory /\ Sound(x, x.queue) /\ MaxAttempts \in Nat /\ old = x.persisted.token
  BY <1>1, BoundsAssumption DEF AuthI, Sound, SameHeld
<1>3. old \in Tokens \cup {"none"}
  BY <1>2, NoneIsNobody DEF Memory, PersistedAuth
<1>4. Client(revoke(enqueue(v, w), old))  BY DEF signOut
<1>. HIDE DEF x, old
<1>5. v \in Memory
  <2>1. 0 \in 0 .. MaxAttempts /\ {} \in SUBSET Request  BY <1>2
  <2>2. v = [x EXCEPT !.persisted = None, !.flight = 0, !.attachment = Detached, !.requests = {}]
    BY <1>2 DEF retire, Memory
  <2>. QED  BY <1>2, <2>1, <2>2 DEF Memory
<1>6. /\ v.persisted = None /\ v.attachment = Detached /\ v.requests = {}
      /\ SameTries(x, v) /\ MoreTokens(x, v) /\ SameWrite(x, v)
  BY <1>2 DEF retire, Memory, SameTries, MoreTokens, SameWrite
<1>. HIDE DEF v
<1>7. revoke(enqueue(v, w), old) = y
  BY <1>5 DEF revoke, enqueue, Memory
<1>8. /\ u \in Memory /\ SameHeld(v, u) /\ SameTries(v, u) /\ MoreTokens(v, u)
      /\ SameWrite(v, u) /\ old \in u.asked \cup {"none"}
  BY <1>3, <1>5, RevokeIs
<1>. HIDE DEF u
<1>9. /\ u.persisted = None /\ u.attachment = Detached /\ u.requests = {}
      /\ SameTries(x, u) /\ MoreTokens(x, u) /\ SameWrite(x, u)
  BY <1>6, <1>8 DEF SameHeld, SameTries, MoreTokens, SameWrite
<1>10. \A a \in SignIns : Accounted(x, x.attempts[a].token) => Accounted(u, x.attempts[a].token)
  BY <1>2, <1>8, <1>9 DEF Accounted, MoreTokens, SameWrite
<1>11. Sound(u, u.queue)
  <2>1. Sound(u, x.queue)  BY <1>2, <1>8, <1>9, <1>10, DroppedIs
  <2>. QED  BY <1>9, <2>1 DEF SameWrite
<1>12. w \in Write /\ InstallI(u, w) /\ MismatchI(u, w) /\ w.op = "clear"
  BY <1>2 DEF Write, InstallI, MismatchI
<1>13. \A i \in 1 .. Len(u.queue) : u.queue[i].op = "install" =>
         u.attempts[u.queue[i].by].aborted
  BY <1>1, <1>9, <1>11 DEF Sound, QueueI, WritesI, InstallI, SameTries
<1>. HIDE DEF w
<1>14. /\ Sound(y, y.queue) /\ SameHeld(u, y) /\ SameTries(u, y) /\ MoreTokens(u, y)
       /\ y.step = u.step /\ y.cell = u.cell /\ y.previous = u.previous
       /\ HasClear(y.queue)
       /\ u.queue # <<>> => y.queue # <<>> /\ Head(y.queue) = Head(u.queue)
  BY <1>9, <1>11, <1>12, <1>13, EnqueueSound
<1>15. Client(y)  BY <1>4, <1>7
<1>. HIDE DEF y
<1>16. WriteI(y)
  BY <1>1, <1>9, <1>14
     DEF AuthI, WriteI, Believed, PreviousGiven, SameHeld, SameTries, MoreTokens, SameWrite
<1>17. AuthI(y)  BY <1>14, <1>16 DEF AuthI
<1>18. PausedI(y, dead) /\ StoreI(y, stored, dirty)
  BY <1>9, <1>14, NoneIsNobody DEF PausedI, StoreI, SameHeld
<1>. QED  BY <1>15, <1>17, <1>18, ClientKeeps

LEMMA DisposeKeeps ==
    ASSUME SessionI, dispose
    PROVE  SessionI'
<1>. DEFINE x == Abort(c)
            y == retire([x EXCEPT !.disposed = TRUE, !.flight = 0])
<1>1. AuthI(x) /\ SameHeld(c, x) /\ SameWrite(c, x)  BY AbortIs DEF SessionI
<1>2. x \in Memory /\ MaxAttempts \in Nat  BY <1>1, BoundsAssumption DEF AuthI, Sound
<1>3. Client(y)  BY DEF dispose
<1>. HIDE DEF x
<1>4. y \in Memory
  <2>1. 0 \in 0 .. MaxAttempts /\ {} \in SUBSET Request  BY <1>2
  <2>2. y = [x EXCEPT !.disposed = TRUE, !.flight = 0, !.attachment = Detached, !.requests = {}]
    BY <1>2 DEF retire, Memory
  <2>. QED  BY <1>2, <2>1, <2>2 DEF Memory
<1>5. /\ y.attachment = Detached /\ y.requests = {} /\ y.persisted = x.persisted
      /\ SameTries(x, y) /\ MoreTokens(x, y) /\ SameWrite(x, y)
  BY <1>2 DEF retire, Memory, SameTries, MoreTokens, SameWrite
<1>6. y.disposed
  <2>1. y.disposed = TRUE  BY <1>2 DEF retire, Memory
  <2>. QED  BY <2>1
<1>. HIDE DEF y
<1>7. AuthI(y)  BY <1>1, <1>4, <1>5, <1>6, DetachedIs
<1>8. PausedI(y, dead)  BY <1>5, NoneIsNobody DEF PausedI
<1>9. StoreI(y, stored, dirty)  BY <1>1, <1>5 DEF SessionI, StoreI, SameHeld, SameWrite
<1>. QED  BY <1>3, <1>7, <1>8, <1>9, ClientKeeps

LEMMA CancelKeeps ==
    ASSUME SessionI, cancelSignIn
    PROVE  SessionI'
<1>. DEFINE x == Abort(c)
            k == [phase |-> "called", signal |-> c.attempt, wait |-> 0, result |-> "none"]
            y == [x EXCEPT !.cancellation = k]
<1>1. AuthI(x) /\ SameHeld(c, x) /\ SameWrite(c, x)  BY AbortIs DEF SessionI
<1>2. k \in Cancellation  BY DEF SessionI, AuthI, Sound, Memory, Cancellation
<1>3. Client(y)  BY DEF cancelSignIn
<1>. HIDE DEF x, k
<1>4. AuthI(y) /\ SameHeld(x, y) /\ SameWrite(x, y)  BY <1>1, <1>2, CancellationIs
<1>. HIDE DEF y
<1>5. Quiet(c, y)  BY <1>1, <1>4 DEF Quiet, SameHeld, SameWrite
<1>. QED  BY <1>3, <1>4, <1>5, QuietKeeps

LEMMA CancellationWaitsKeeps ==
    ASSUME SessionI, CancellationWaits
    PROVE  SessionI'
<1>. DEFINE k == [c.cancellation EXCEPT !.phase = "waiting", !.wait = Len(c.queue)]
            x == [c EXCEPT !.cancellation = k]
            y == CancellationHears(x, c.last)
<1>0. /\ AuthI(c) /\ c \in Memory /\ c.cancellation \in Cancellation /\ c.last \in Outcome
      /\ Len(c.queue) \in Nat
  BY DEF SessionI, AuthI, Sound, Memory
<1>1. k \in Cancellation  BY <1>0 DEF Cancellation
<1>2. [c EXCEPT !.cancellation.phase = "waiting", !.cancellation.wait = Len(c.queue)] = x
  BY <1>0 DEF Memory, Cancellation
<1>. HIDE DEF k
<1>3. AuthI(x) /\ SameHeld(c, x) /\ SameWrite(c, x)  BY <1>0, <1>1, CancellationIs
<1>4. Client(IF c.queue = <<>> THEN y ELSE x)  BY <1>2 DEF CancellationWaits
<1>. HIDE DEF x
<1>5. /\ AuthI(y) /\ SameHeld(x, y) /\ y.step = x.step
      /\ HasClear(x.queue) => HasClear(y.queue)
  BY <1>0, <1>3, HearsIs
<1>6. Quiet(c, x) /\ Quiet(c, y)  BY <1>3, <1>5 DEF Quiet, SameHeld, SameWrite
<1>. HIDE DEF y
<1>. QED  BY <1>3, <1>4, <1>5, <1>6, QuietKeeps

-----------------------------------------------------------------------------
(* The serialized writes *)

\* The first write moves to another step of its own.
Steps == {"last", "clearing", "writing", "rollback"}
LEMMA StepNames == {"last", "clearing", "writing", "rollback"} \subseteq Steps /\ "start" \notin Steps
BY DEF Steps

LEMMA WritingIs ==
    ASSUME NEW x, NEW s \in Steps,
           NEW cell \in PersistedAuth \cup {None}, Sound(x, x.queue)
    PROVE  LET y == Writing(x, s, cell)
           IN  /\ Sound(y, y.queue) /\ SameHeld(x, y) /\ SameTries(x, y) /\ MoreTokens(x, y)
               /\ y.queue = x.queue /\ y.previous = x.previous
               /\ y.step = s /\ y.cell = cell
<1>. DEFINE y == Writing(x, s, cell)
<1>1. x \in Memory  BY DEF Sound
<1>2. /\ y \in Memory /\ y.queue = x.queue /\ y.previous = x.previous
      /\ y.step = s /\ y.cell = cell
  BY <1>1 DEF Writing, Memory, Steps
<1>3. SameHeld(x, y) /\ SameTries(x, y) /\ MoreTokens(x, y)
  BY <1>1 DEF Writing, Memory, SameHeld, SameTries, MoreTokens
<1>. HIDE DEF y
<1>4. Sound(y, x.queue)  BY <1>2, <1>3, SoundKept
<1>. QED  BY <1>2, <1>3, <1>4 DEF y

\* The credential is dropped by the first write itself.
Dropping(x, s, p) == Writing([retire(x) EXCEPT !.persisted = None, !.previous = p], s, None)

MayDrop(x, p) ==
    \/ p = x.persisted
    \/ p = None /\ \A a \in SignIns : x.attempts[a].token # x.persisted.token

LEMMA DroppingIs ==
    ASSUME NEW x, NEW s \in Steps, NEW p \in PersistedAuth \cup {None},
           AuthI(x), x.step = "start", MayDrop(x, p)
    PROVE  LET y == Dropping(x, s, p)
           IN  /\ Sound(y, y.queue) /\ y.persisted = None /\ y.attachment = Detached
               /\ y.queue = x.queue /\ y.previous = p /\ y.step = s /\ y.cell = None
<1>. DEFINE z == [x EXCEPT !.attachment = Detached, !.requests = {}, !.persisted = None,
                           !.previous = p, !.step = s, !.cell = None]
<1>1. x \in Memory /\ Sound(x, x.queue)  BY DEF AuthI, Sound
<1>2. Dropping(x, s, p) = z  BY <1>1 DEF Dropping, Writing, retire, Memory
<1>3. z \in Memory  BY <1>1 DEF Memory, Steps
<1>4. /\ z.persisted = None /\ z.attachment = Detached /\ z.requests = {} /\ z.queue = x.queue
      /\ z.previous = p /\ z.step = s /\ z.cell = None
      /\ SameTries(x, z) /\ MoreTokens(x, z)
  BY <1>1 DEF Memory, SameTries, MoreTokens
<1>. HIDE DEF z
<1>5. x.previous = None /\ None.token = "none"  BY NoneIsNobody DEF AuthI, WriteI
<1>6. \A a \in SignIns : Accounted(x, x.attempts[a].token) => Accounted(z, x.attempts[a].token)
  BY <1>4, <1>5 DEF Accounted, MoreTokens, MayDrop
<1>7. Sound(z, x.queue)  BY <1>1, <1>3, <1>4, <1>6, DroppedIs
<1>. QED  BY <1>2, <1>4, <1>7

LEMMA BeginKeeps ==
    ASSUME SessionI, Begin
    PROVE  SessionI'
<1>0. /\ AuthI(c) /\ Sound(c, c.queue) /\ c \in Memory /\ c.queue # <<>> /\ c.step = "start"
      /\ c.previous = None /\ MaxAttempts \in Nat
  BY BoundsAssumption DEF Begin, SessionI, AuthI, Sound, WriteI
<1>1. /\ Head1 = Head(c.queue) /\ Head1 \in Write /\ InstallI(c, Head1) /\ MismatchI(c, Head1)
  BY <1>0, HeadIs DEF Head1
<1>2. PreviousGiven(c)  BY <1>0, NoneIsNobody DEF PreviousGiven
<1>3. c.persisted \in PersistedAuth \cup {None} /\ None \in PersistedAuth \cup {None}
  BY <1>0 DEF Memory
<1>4. ASSUME NEW y, Client(y), AuthI(y), y.step # "start", y.attachment \in {c.attachment, Detached}
      PROVE  SessionI'
  <2>1. PausedI(y, dead)  BY <1>4, NoneIsNobody DEF SessionI, PausedI
  <2>2. StoreI(y, stored, dirty)  BY <1>4 DEF StoreI
  <2>. QED  BY <1>4, <2>1, <2>2, ClientKeeps
<1>5. CASE BeginClear
  <2>. DEFINE y == Writing(c, "last", None)
  <2>1. Head1.op = "clear" /\ Client(y)  BY <1>5 DEF BeginClear
  <2>2. /\ Sound(y, y.queue) /\ SameHeld(c, y) /\ y.queue = c.queue /\ y.previous = c.previous
        /\ y.step = "last" /\ y.cell = None
    <3>. DEFINE s == "last"
                z == Writing(c, s, None)
    <3>1. s \in Steps  BY StepNames
    <3>. HIDE DEF s
    <3>2. /\ Sound(z, z.queue) /\ SameHeld(c, z) /\ z.queue = c.queue /\ z.previous = c.previous
          /\ z.step = s /\ z.cell = None
      BY <1>0, <1>3, <3>1, WritingIs
    <3>. QED  BY <3>2 DEF s
  <2>. HIDE DEF y
  <2>3. HasClear(y.queue)
    <3>1. c.queue \in Seq(Write)  BY <1>0 DEF Memory
    <3>2. Head(c.queue) = c.queue[1] /\ 1 \in 1 .. Len(c.queue)  BY <1>0, <3>1
    <3>. QED  BY <1>1, <2>1, <2>2, <3>2 DEF HasClear
  <2>4. WriteI(y)  BY <1>0, <1>1, <2>1, <2>2, <2>3 DEF WriteI, Believed
  <2>. QED  BY <1>4, <2>1, <2>2, <2>4 DEF AuthI, SameHeld
<1>6. CASE BeginRestore
  <2>. DEFINE y == Writing(c, "last", c.persisted)
  <2>1. Head1.op = "restore" /\ Client(y)  BY <1>6 DEF BeginRestore
  <2>2. /\ Sound(y, y.queue) /\ SameHeld(c, y) /\ y.queue = c.queue /\ y.previous = c.previous
        /\ y.step = "last" /\ y.cell = c.persisted
    <3>. DEFINE s == "last"
                z == Writing(c, s, c.persisted)
    <3>1. s \in Steps  BY StepNames
    <3>. HIDE DEF s
    <3>2. /\ Sound(z, z.queue) /\ SameHeld(c, z) /\ z.queue = c.queue /\ z.previous = c.previous
          /\ z.step = s /\ z.cell = c.persisted
      BY <1>0, <1>3, <3>1, WritingIs
    <3>. QED  BY <3>2 DEF s
  <2>. HIDE DEF y
  <2>3. WriteI(y)  BY <1>0, <1>1, <2>1, <2>2 DEF WriteI, Believed, SameHeld
  <2>. QED  BY <1>4, <2>1, <2>2, <2>3 DEF AuthI, SameHeld
<1>7. CASE BeginMismatch
  <2>0. /\ Head1.op = "mismatch" /\ Head1.token \in Tokens
        /\ \A a \in SignIns : c.attempts[a].token # Head1.token
    BY <1>0, <1>1, <1>7 DEF BeginMismatch, MismatchI, Memory
  <2>1. CASE Current(c, Head1.token)
    <3>. DEFINE v == [retire(c) EXCEPT !.persisted = None]
                y == Writing([retire(c) EXCEPT !.persisted = None, !.previous = None], "last", None)
    <3>1. Client(Writing(v, "last", None))  BY <1>7, <2>1 DEF BeginMismatch
    <3>2. Writing(v, "last", None) = y
      BY <1>0 DEF Writing, retire, Memory
    <3>3. c.persisted.token = Head1.token
      <4>1. c.attachment # Detached  BY <2>0, <2>1, NoneIsNobody DEF Current
      <4>. QED  BY <1>0, <2>1, <4>1 DEF Sound, HeldI, Current
    <3>4. /\ Sound(y, y.queue) /\ y.persisted = None /\ y.attachment = Detached
          /\ y.queue = c.queue /\ y.previous = None /\ y.step = "last" /\ y.cell = None
      <4>. DEFINE s == "last"
                  z == Dropping(c, s, None)
      <4>1. s \in Steps /\ MayDrop(c, None)  BY <2>0, <3>3, StepNames DEF MayDrop
      <4>. HIDE DEF s
      <4>2. /\ Sound(z, z.queue) /\ z.persisted = None /\ z.attachment = Detached
            /\ z.queue = c.queue /\ z.previous = None /\ z.step = s /\ z.cell = None
        BY <1>0, <1>3, <4>1, DroppingIs
      <4>. QED  BY <4>2 DEF s, Dropping
    <3>5. Client(y)  BY <3>1, <3>2
    <3>. HIDE DEF y
    <3>6. WriteI(y)  BY <1>0, <1>1, <2>0, <3>4 DEF WriteI, Believed
    <3>. QED  BY <1>4, <3>4, <3>5, <3>6 DEF AuthI
  <2>2. CASE ~Current(c, Head1.token)
    <3>. DEFINE v == Settle(c, Done)
                y == VerificationEnds(v, Head1.token)
    <3>1. Client(y)  BY <1>7, <2>2 DEF BeginMismatch
    <3>2. Sound(c, Tail(c.queue)) /\ (HasClear(c.queue) => HasClear(Tail(c.queue)))
      BY <1>0, <1>1, <2>0, TailIs
    <3>3. Done \in Outcome  BY <1>0 DEF Done, Outcome
    <3>4. /\ AuthI(v) /\ SameHeld(c, v) /\ v.step = "start"
          /\ HasClear(Tail(c.queue)) => HasClear(v.queue)
      BY <1>0, <1>2, <3>2, <3>3, SettleIs
    <3>. HIDE DEF v
    <3>5. AuthI(y) /\ ButRequests(v, y)  BY <2>0, <3>4, VerificationEndsIs
    <3>. HIDE DEF y
    <3>6. Quiet(c, y)
      BY <1>0, <3>2, <3>4, <3>5 DEF Quiet, ButRequests, SameHeld, SameWrite
    <3>. QED  BY <3>1, <3>5, <3>6, QuietKeeps
  <2>. QED  BY <2>1, <2>2
<1>8. CASE BeginInstall
  <2>. DEFINE a == Head1.by
              t == Head1.token
  <2>0. /\ Head1.op = "install" /\ a \in SignIns /\ a \in 0 .. MaxAttempts
        /\ c.attempts[a].pc = "queued" /\ c.attempts[a].token = t
    BY <1>0, <1>1, <1>8 DEF BeginInstall, InstallI, SignIns
  <2>1. Client(IF c.attempts[a].aborted THEN InstallAborts(c, a)
               ELSE IF OtherAccount(c, t)
               THEN Writing([retire(c) EXCEPT !.persisted = None, !.previous = c.persisted],
                            "clearing", None)
               ELSE Writing(c, "writing", Credential(t)))
    BY <1>8 DEF BeginInstall
  <2>2. t \in Tokens
    <3>1. AttemptI(c, a) /\ c.attempts[a] \in Attempt
      BY <1>0, <2>0 DEF Sound, AttemptsI, Memory
    <3>. QED  BY <2>0, <3>1 DEF AttemptI, Attempt
  <2>. HIDE DEF a, t
  <2>3. CASE c.attempts[a].aborted
    <3>. DEFINE outcome == [how |-> "aborted", by |-> a]
                y == InstallRejects(c, a, outcome)
    <3>1. Client(y)  BY <2>1, <2>3 DEF InstallAborts
    <3>2. outcome \in Outcome  BY <2>0 DEF Outcome
    <3>. HIDE DEF outcome
    <3>3. /\ AuthI(y) /\ SameHeld(c, y) /\ y.step = "start"
          /\ HasClear(c.queue) => HasClear(y.queue)
      BY <1>0, <1>1, <1>2, <2>0, <3>2, RejectsIs DEF a
    <3>. HIDE DEF y
    <3>4. Quiet(c, y)  BY <1>0, <3>3 DEF Quiet, SameHeld
    <3>. QED  BY <3>1, <3>3, <3>4, QuietKeeps
  <2>4. CASE ~c.attempts[a].aborted /\ OtherAccount(c, t)
    <3>. DEFINE y == Writing([retire(c) EXCEPT !.persisted = None, !.previous = c.persisted],
                             "clearing", None)
    <3>1. Client(y)  BY <2>1, <2>4
    <3>2. /\ Sound(y, y.queue) /\ y.persisted = None /\ y.attachment = Detached
          /\ y.queue = c.queue /\ y.step = "clearing" /\ y.cell = None
      <4>. DEFINE s == "clearing"
                  z == Dropping(c, s, c.persisted)
      <4>0. MayDrop(c, c.persisted)  BY DEF MayDrop
      <4>1. s \in Steps  BY StepNames
      <4>. HIDE DEF s
      <4>2. /\ Sound(z, z.queue) /\ z.persisted = None /\ z.attachment = Detached
            /\ z.queue = c.queue /\ z.step = s /\ z.cell = None
        BY <1>0, <1>3, <4>0, <4>1, DroppingIs
      <4>. QED  BY <4>2 DEF s, Dropping
    <3>. HIDE DEF y
    <3>3. WriteI(y)  BY <1>0, <1>1, <2>0, <3>2 DEF WriteI
    <3>. QED  BY <1>4, <3>1, <3>2, <3>3 DEF AuthI
  <2>5. CASE ~c.attempts[a].aborted /\ ~OtherAccount(c, t)
    <3>. DEFINE y == Writing(c, "writing", Credential(t))
    <3>1. Client(y)  BY <2>1, <2>5
    <3>2. Credential(t) \in PersistedAuth \cup {None}
      BY <2>2 DEF Credential, PersistedAuth, PrincipalOf
    <3>3. /\ Sound(y, y.queue) /\ SameHeld(c, y) /\ y.queue = c.queue /\ y.previous = c.previous
          /\ y.step = "writing" /\ y.cell = Credential(t) /\ MoreTokens(c, y)
      <4>. DEFINE s == "writing"
                  z == Writing(c, s, Credential(t))
      <4>1. s \in Steps  BY StepNames
      <4>. HIDE DEF s
      <4>2. /\ Sound(z, z.queue) /\ SameHeld(c, z) /\ z.queue = c.queue /\ z.previous = c.previous
            /\ z.step = s /\ z.cell = Credential(t) /\ MoreTokens(c, z)
        BY <1>0, <3>2, <4>1, WritingIs
      <4>. QED  BY <4>2 DEF s
    <3>. HIDE DEF y
    <3>4. PreviousGiven(y)  BY <1>2, <3>3 DEF PreviousGiven, MoreTokens
    <3>5. y.attachment = Detached \/ y.attachment.principal = PrincipalOf(t)
      BY <2>5, <3>3 DEF OtherAccount, SameHeld
    <3>6. WriteI(y)  BY <1>0, <1>1, <2>0, <3>3, <3>4, <3>5 DEF WriteI, t
    <3>. QED  BY <1>4, <3>1, <3>3, <3>6 DEF AuthI, SameHeld
  <2>. QED  BY <2>3, <2>4, <2>5
<1>. QED  BY <1>5, <1>6, <1>7, <1>8 DEF Begin

\* What the first write leaves behind, when the cell holds what it wrote.
LEMMA AfterWriteIs ==
    ASSUME SessionI, c.queue # <<>>, c.step # "start"
    PROVE  LET y == AfterWrite(c)
           IN  /\ AuthI(y) /\ PausedI(y, dead) /\ StoreI(y, c.cell, FALSE)
<1>. DEFINE a == Head1.by
            t == Head1.token
            y == AfterWrite(c)
<1>0. /\ AuthI(c) /\ Sound(c, c.queue) /\ c \in Memory /\ WriteI(c) /\ PausedI(c, dead)
      /\ MaxAttempts \in Nat
  BY BoundsAssumption DEF SessionI, AuthI, Sound
<1>1. /\ Head1 = Head(c.queue) /\ Head1 \in Write /\ InstallI(c, Head1) /\ MismatchI(c, Head1)
  BY <1>0, HeadIs DEF Head1
<1>2. Done \in Outcome  BY <1>0 DEF Done, Outcome
<1>3. /\ Sound(c, Tail(c.queue))
      /\ HasClear(c.queue) /\ Head1.op # "clear" => HasClear(Tail(c.queue))
  BY <1>0, <1>1, TailIs
<1>4. c.step \in {"last", "clearing", "writing", "rollback"}  BY <1>0 DEF Memory
<1>5. ASSUME NEW z, AuthI(z), z.attachment = c.attachment, z.persisted = c.persisted,
             z.step = "start", c.cell = c.persisted \/ HasClear(z.queue)
      PROVE  AuthI(z) /\ PausedI(z, dead) /\ StoreI(z, c.cell, FALSE)
  BY <1>0, <1>5 DEF PausedI, StoreI
<1>6. ASSUME NEW z, AuthI(z), z.attachment = c.attachment, z.step # "start"
      PROVE  AuthI(z) /\ PausedI(z, dead) /\ StoreI(z, c.cell, FALSE)
  BY <1>0, <1>6 DEF PausedI, StoreI
<1>7. CASE c.step = "last"
  <2>. DEFINE v == Settle(c, Done)
              u == VerificationEnds(v, t)
  <2>0. Head1.op # "install" /\ PreviousGiven(c)
    BY <1>0, <1>1, <1>7, NoneIsNobody DEF WriteI, PreviousGiven
  <2>1. c.cell = c.persisted \/ HasClear(Tail(c.queue))
    <3>1. CASE Head1.op = "clear"
      <4>1. c.cell = None /\ HasClear(c.queue)
        <5>1. c.queue \in Seq(Write)  BY <1>0 DEF Memory
        <5>2. Head(c.queue) = c.queue[1] /\ 1 \in 1 .. Len(c.queue)  BY <5>1
        <5>. QED  BY <1>0, <1>1, <1>7, <3>1, <5>2 DEF WriteI, HasClear
      <4>. QED  BY <1>0, <4>1 DEF Sound, QueueI
    <3>2. CASE Head1.op # "clear"
      BY <1>0, <1>3, <1>7, <3>2 DEF WriteI, Believed
    <3>. QED  BY <3>1, <3>2
  <2>2. /\ AuthI(v) /\ SameHeld(c, v) /\ v.step = "start"
        /\ HasClear(Tail(c.queue)) => HasClear(v.queue)
    BY <1>2, <1>3, <2>0, SettleIs
  <2>. HIDE DEF v
  <2>3. AuthI(v) /\ PausedI(v, dead) /\ StoreI(v, c.cell, FALSE)
    BY <1>5, <2>1, <2>2 DEF SameHeld
  <2>4. CASE Head1.op = "mismatch"
    <3>1. t \in Tokens  BY <1>0, <1>1, <2>4 DEF MismatchI, Memory
    <3>2. AuthI(u) /\ ButRequests(v, u)  BY <2>2, <3>1, VerificationEndsIs
    <3>3. y = u  BY <1>7, <2>4 DEF AfterWrite, v
    <3>. HIDE DEF u
    <3>4. AuthI(u) /\ PausedI(u, dead) /\ StoreI(u, c.cell, FALSE)
      BY <2>3, <3>2 DEF ButRequests, SameWrite, PausedI, StoreI
    <3>. QED  BY <3>3, <3>4
  <2>5. CASE Head1.op # "mismatch"
    <3>1. y = v  BY <1>7, <2>5 DEF AfterWrite, v
    <3>. QED  BY <2>3, <3>1
  <2>. QED  BY <2>4, <2>5
<1>8. CASE c.step # "last"
  <2>0. /\ Head1.op = "install" /\ Head(c.queue).op = "install"
        /\ a \in SignIns /\ a \in 0 .. MaxAttempts /\ a = Head(c.queue).by
        /\ c.attempts[a].pc = "queued" /\ c.attempts[a].token = t /\ t = Head(c.queue).token
    BY <1>0, <1>1, <1>4, <1>8 DEF WriteI, InstallI, SignIns
  <2>1. t \in Tokens
    <3>1. AttemptI(c, a) /\ c.attempts[a] \in Attempt
      BY <1>0, <2>0 DEF Sound, AttemptsI, Memory
    <3>. QED  BY <2>0, <3>1 DEF AttemptI, Attempt
  <2>. DEFINE outcome == [how |-> "aborted", by |-> a]
  <2>2. outcome \in Outcome  BY <2>0 DEF Outcome
  <2>3. Credential(t) \in PersistedAuth \cup {None}
    BY <2>1 DEF Credential, PersistedAuth, PrincipalOf
  <2>4. CASE c.step = "clearing"
    <3>. DEFINE v == revoke(c, c.previous.token)
    <3>0. c.previous.token \in Tokens \cup {"none"} /\ c.cell = None /\ c.persisted = None
      BY <1>0, <2>4, NoneIsNobody DEF Memory, PersistedAuth, WriteI
    <3>1. /\ v \in Memory /\ SameHeld(c, v) /\ SameTries(c, v) /\ MoreTokens(c, v)
          /\ SameWrite(c, v) /\ c.previous.token \in v.asked \cup {"none"}
      BY <1>0, <3>0, RevokeIs
    <3>2. Sound(v, v.queue)
      <4>. HIDE DEF v
      <4>1. Sound(v, c.queue)  BY <1>0, <3>1, SoundKept DEF SameWrite
      <4>. QED  BY <3>1, <4>1 DEF SameWrite
    <3>3. PreviousGiven(v)
      <4>. HIDE DEF v
      <4>. QED  BY <3>1 DEF PreviousGiven, SameWrite
    <3>4. y = IF c.attempts[a].aborted THEN InstallRejects(v, a, outcome)
              ELSE Writing(v, "writing", Credential(t))
      BY <2>4 DEF AfterWrite, InstallAborts
    <3>5. v.queue = c.queue /\ v.queue # <<>>  BY <3>1 DEF SameWrite
    <3>. HIDE DEF v, a, t, outcome
    <3>6. CASE c.attempts[a].aborted
      <4>. DEFINE z == InstallRejects(v, a, outcome)
      <4>1. AuthI(z) /\ SameHeld(v, z) /\ z.step = "start"
        BY <2>0, <2>2, <3>2, <3>3, <3>5, RejectsIs
      <4>2. y = z  BY <3>4, <3>6
      <4>. HIDE DEF z
      <4>. QED  BY <1>5, <3>0, <3>1, <4>1, <4>2 DEF SameHeld
    <3>7. CASE ~c.attempts[a].aborted
      <4>. DEFINE s == "writing"
                  z == Writing(v, s, Credential(t))
      <4>0. s \in Steps  BY StepNames
      <4>1. y = z  BY <3>4, <3>7
      <4>. HIDE DEF s
      <4>2. /\ Sound(z, z.queue) /\ SameHeld(v, z) /\ SameTries(v, z) /\ MoreTokens(v, z)
            /\ z.queue = v.queue /\ z.previous = v.previous /\ z.step = s /\ z.cell = Credential(t)
        BY <2>3, <3>2, <4>0, WritingIs
      <4>. HIDE DEF z
      <4>3. z.step = "writing" /\ PreviousGiven(z)
        BY <3>3, <4>2 DEF s, PreviousGiven, MoreTokens
      <4>4. z.attachment = Detached
        <5>1. c.attachment = Detached
          <6>1. ~(c.attachment # Detached /\ c.attachment.token = "none")
            BY <1>0, NoneIsNobody DEF Memory, Attachment
          <6>. QED  BY <1>0, <3>0, <6>1, NoneIsNobody DEF Sound, HeldI
        <5>. QED  BY <3>1, <4>2, <5>1 DEF SameHeld
      <4>5. WriteI(z)
        BY <2>0, <3>5, <4>2, <4>3, <4>4 DEF WriteI
      <4>6. z.attachment = c.attachment /\ AuthI(z) /\ z.step # "start"
        BY <3>1, <4>2, <4>3, <4>5 DEF SameHeld, AuthI
      <4>. QED  BY <1>6, <4>1, <4>6
    <3>. QED  BY <3>6, <3>7
  <2>5. CASE c.step = "writing" /\ c.attempts[a].aborted
    <3>. DEFINE s == "rollback"
                z == Writing(c, s, c.persisted)
    <3>0. s \in Steps /\ c.persisted \in PersistedAuth \cup {None}  BY <1>0, StepNames DEF Memory
    <3>1. y = z  BY <2>5 DEF AfterWrite, MustRollBack
    <3>. HIDE DEF s
    <3>2. /\ Sound(z, z.queue) /\ SameHeld(c, z) /\ SameTries(c, z) /\ MoreTokens(c, z)
          /\ z.queue = c.queue /\ z.previous = c.previous /\ z.step = s /\ z.cell = c.persisted
      BY <1>0, <3>0, WritingIs
    <3>. HIDE DEF z
    <3>3. z.step = "rollback" /\ PreviousGiven(z)
      BY <1>0, <2>5, <3>2 DEF s, WriteI, PreviousGiven, MoreTokens
    <3>4. WriteI(z)
      BY <2>0, <3>2, <3>3 DEF WriteI, Believed, SameHeld
    <3>. QED  BY <1>6, <3>1, <3>2, <3>3, <3>4 DEF AuthI, SameHeld
  <2>6. CASE c.step = "writing" /\ ~c.attempts[a].aborted
    <3>. DEFINE z == Commit(c, a)
    <3>1. y = z  BY <2>6 DEF AfterWrite, MustRollBack
    <3>. HIDE DEF a
    <3>2. AuthI(z) /\ z.step = "start" /\ z.persisted = c.cell /\ ~z.attachment.paused
      BY <1>0, <2>0, <2>6, CommitIs
    <3>. HIDE DEF z
    <3>. QED  BY <3>1, <3>2 DEF PausedI, StoreI
  <2>7. CASE c.step = "rollback"
    <3>. DEFINE z == InstallRejects(c, a, outcome)
    <3>0. PreviousGiven(c) /\ Believed(c)  BY <1>0, <2>7 DEF WriteI
    <3>1. y = z  BY <2>7 DEF AfterWrite, InstallAborts
    <3>. HIDE DEF a, outcome
    <3>2. AuthI(z) /\ SameHeld(c, z) /\ z.step = "start" /\ (HasClear(c.queue) => HasClear(z.queue))
      BY <1>0, <2>0, <2>2, <3>0, RejectsIs
    <3>. HIDE DEF z
    <3>. QED  BY <1>5, <3>0, <3>1, <3>2 DEF Believed, SameHeld
  <2>. QED  BY <1>4, <1>8, <2>4, <2>5, <2>6, <2>7
<1>. QED  BY <1>7, <1>8

LEMMA SetReturnsKeeps ==
    ASSUME SessionI, SetReturns
    PROVE  SessionI'
<1>. DEFINE y == AfterWrite(c)
<1>1. /\ c' = y /\ stored' = c.cell /\ dirty' = FALSE /\ dead' = dead
      /\ c.queue # <<>> /\ c.step # "start"
  BY DEF SetReturns
<1>2. AuthI(y) /\ PausedI(y, dead) /\ StoreI(y, c.cell, FALSE)
  BY <1>1, AfterWriteIs
<1>3. c.cell \in PersistedAuth \cup {None} /\ dead \subseteq Tokens
  BY DEF SessionI, AuthI, Sound, Memory
<1>. HIDE DEF y
<1>. QED  BY <1>1, <1>2, <1>3 DEF SessionI

LEMMA SetFailsKeeps ==
    ASSUME SessionI, SetFails
    PROVE  SessionI'
<1>. DEFINE p == c.previous.token
            lost == c.forgotten \cup {p}
            x == IF c.step = "clearing" /\ c.previous # None
                 THEN [c EXCEPT !.forgotten = lost] ELSE c
            y == IF Head1.op = "install" THEN InstallRejects(x, Head1.by, Failed)
                 ELSE IF Head1.op = "mismatch" THEN VerificationEnds(Settle(x, Failed), Head1.token)
                 ELSE Settle(x, Failed)
<1>0. /\ AuthI(c) /\ Sound(c, c.queue) /\ c \in Memory /\ WriteI(c) /\ PausedI(c, dead)
      /\ MaxAttempts \in Nat
  BY BoundsAssumption DEF SessionI, AuthI, Sound
<1>1. /\ c' = y /\ stored' \in {stored, c.cell} /\ dirty' = TRUE /\ dead' = dead
      /\ c.queue # <<>> /\ c.step # "start"
  BY DEF SetFails
<1>2. /\ Head1 = Head(c.queue) /\ Head1 \in Write /\ InstallI(c, Head1) /\ MismatchI(c, Head1)
  BY <1>0, <1>1, HeadIs DEF Head1
<1>3. /\ x \in Memory /\ SameHeld(c, x) /\ SameTries(c, x) /\ MoreTokens(c, x) /\ SameWrite(c, x)
      /\ PreviousGiven(x)
  <2>1. CASE c.step = "clearing" /\ c.previous # None
    <3>. DEFINE z == [c EXCEPT !.forgotten = lost]
    <3>1. p \in Tokens /\ lost \in SUBSET Tokens
      BY <1>0, <2>1 DEF Memory, PersistedAuth
    <3>2. p \in lost /\ c.forgotten \subseteq lost  OBVIOUS
    <3>. HIDE DEF lost
    <3>3. z \in Memory /\ z.forgotten = lost /\ z.previous = c.previous  BY <1>0, <3>1 DEF Memory
    <3>4. SameHeld(c, z) /\ SameTries(c, z) /\ SameWrite(c, z) /\ MoreTokens(c, z)
      BY <1>0, <3>2 DEF Memory, SameHeld, SameTries, MoreTokens, SameWrite
    <3>5. x = z  BY <2>1
    <3>. HIDE DEF z, x
    <3>. QED  BY <3>2, <3>3, <3>4, <3>5 DEF PreviousGiven
  <2>2. CASE ~(c.step = "clearing" /\ c.previous # None)
    <3>1. x = c  BY <2>2
    <3>2. c.step \in {"last", "clearing", "writing", "rollback"}  BY <1>0, <1>1 DEF Memory
    <3>3. PreviousGiven(c)
      BY <1>0, <2>2, <3>2, NoneIsNobody DEF WriteI, PreviousGiven
    <3>. QED
      BY <1>0, <3>1, <3>3 DEF SameHeld, SameTries, MoreTokens, SameWrite
  <2>. QED  BY <2>1, <2>2
<1>. HIDE DEF x
<1>4. x.queue = c.queue /\ Sound(x, x.queue)
  <2>1. Sound(x, c.queue)  BY <1>0, <1>3, SoundKept DEF SameWrite
  <2>. QED  BY <1>3, <2>1 DEF SameWrite
<1>5. Failed \in Outcome  BY <1>0 DEF Failed, Outcome
<1>6. Sound(x, Tail(x.queue)) /\ x.queue # <<>>  BY <1>1, <1>4, TailIs
<1>7. AuthI(y) /\ y.attachment = c.attachment
  <2>1. CASE Head1.op = "install"
    <3>1. AuthI(InstallRejects(x, Head1.by, Failed)) /\ SameHeld(x, InstallRejects(x, Head1.by, Failed))
      BY <1>2, <1>3, <1>4, <1>5, <1>6, <2>1, RejectsIs
    <3>. QED  BY <1>3, <2>1, <3>1 DEF SameHeld
  <2>. DEFINE v == Settle(x, Failed)
  <2>2. AuthI(v) /\ SameHeld(x, v)  BY <1>3, <1>5, <1>6, SettleIs
  <2>3. CASE Head1.op = "mismatch"
    <3>0. Head1.token \in Tokens  BY <1>0, <1>2, <2>3 DEF MismatchI, Memory
    <3>1. y = VerificationEnds(v, Head1.token)  BY <2>3
    <3>. HIDE DEF v
    <3>2. AuthI(VerificationEnds(v, Head1.token)) /\ ButRequests(v, VerificationEnds(v, Head1.token))
      BY <2>2, <3>0, VerificationEndsIs
    <3>. QED  BY <1>3, <2>2, <3>1, <3>2 DEF SameHeld, ButRequests
  <2>4. CASE Head1.op \notin {"install", "mismatch"}
    <3>1. y = v  BY <2>4
    <3>. QED  BY <1>3, <2>2, <3>1 DEF SameHeld
  <2>. QED  BY <2>1, <2>3, <2>4
<1>. HIDE DEF y
<1>8. stored' \in PersistedAuth \cup {None} /\ dead \subseteq Tokens
  BY <1>0, <1>1 DEF SessionI, Memory
<1>9. PausedI(y, dead) /\ StoreI(y, stored', TRUE)
  BY <1>0, <1>7 DEF PausedI, StoreI
<1>10. StoreI(c', stored', dirty')  BY <1>1, <1>9
<1>. QED  BY <1>1, <1>7, <1>8, <1>9, <1>10 DEF SessionI

-----------------------------------------------------------------------------
(* The account's requests, and the server *)

LEMMA FetchKeeps ==
    ASSUME SessionI, Fetch
    PROVE  SessionI'
<1>. DEFINE y == Authorized(c, FALSE)
<1>1. Client(y) /\ AuthI(c)  BY DEF Fetch, SessionI
<1>2. AuthI(y) /\ ButRequests(c, y)  BY <1>1, AuthorizedIs
<1>. HIDE DEF y
<1>3. Quiet(c, y)  BY <1>2 DEF Quiet, ButRequests, SameWrite
<1>. QED  BY <1>1, <1>2, <1>3, QuietKeeps

\* The verification of a token ends in a memory that is sound.
LEMMA EndOfVerification ==
    ASSUME SessionI, NEW x, NEW t \in Tokens, Client(VerificationEnds(x, t)),
           AuthI(x), PausedI(x, dead), x.persisted = c.persisted, SameWrite(c, x)
    PROVE  SessionI'
<1>. DEFINE y == VerificationEnds(x, t)
<1>1. AuthI(y) /\ ButRequests(x, y)  BY VerificationEndsIs
<1>. HIDE DEF y
<1>2. PausedI(y, dead)  BY <1>1 DEF PausedI, ButRequests
<1>3. StoreI(y, stored, dirty)  BY <1>1 DEF SessionI, StoreI, ButRequests, SameWrite
<1>. QED  BY <1>1, <1>2, <1>3, ClientKeeps DEF y

LEMMA VerifiesKeeps ==
    ASSUME SessionI, Verifies
    PROVE  SessionI'
<1>0. AuthI(c) /\ Sound(c, c.queue) /\ c \in Memory /\ PausedI(c, dead) /\ MaxAttempts \in Nat
  BY BoundsAssumption DEF SessionI, AuthI, Sound
<1>1. PICK t \in c.verifying :
        VerifyPasses(t) \/ VerifyRefused(t) \/ VerifyUnreachable(t) \/ VerifyMismatch(t)
  BY DEF Verifies
<1>2. t \in Tokens  BY <1>0 DEF Memory
<1>3. Current(c, t) => c.attachment \in Attachment /\ c.attachment # Detached
  BY <1>0, <1>2, NoneIsNobody DEF Memory, Current
<1>4. CASE VerifyPasses(t)
  <2>. DEFINE m == [c.attachment EXCEPT !.verified = TRUE]
              z == [c EXCEPT !.attachment = m]
  <2>1. CASE Current(c, t)
    <3>1. PrincipalOf(t) = c.attachment.principal /\ c.attachment.token = t
      BY <1>4, <2>1 DEF VerifyPasses, Current
    <3>2. /\ m \in Attachment /\ m.token = t /\ m.principal = PrincipalOf(t)
          /\ m.paused = c.attachment.paused
      BY <1>3, <2>1, <3>1 DEF Attachment
    <3>3. Client(VerificationEnds([c EXCEPT !.attachment.verified = TRUE], t))
      BY <1>4, <2>1 DEF VerifyPasses
    <3>4. [c EXCEPT !.attachment.verified = TRUE] = z  BY <1>0 DEF Memory
    <3>. HIDE DEF m
    <3>5. /\ z \in Memory /\ z.attachment = m /\ z.persisted = c.persisted
          /\ z.disposed = c.disposed /\ z.requests = c.requests
      BY <1>0, <3>2 DEF Memory
    <3>6. SameTries(c, z) /\ MoreTokens(c, z) /\ SameWrite(c, z)
      BY <1>0 DEF Memory, SameTries, MoreTokens, SameWrite
    <3>. HIDE DEF z
    <3>7. c.attachment # Detached /\ z.attachment # Detached
      BY <1>3, <2>1, <3>2, <3>5, NoneIsNobody
    <3>8. AuthI(z)  BY <1>0, <3>1, <3>2, <3>5, <3>6, <3>7, AttachmentKept
    <3>9. PausedI(z, dead)  BY <1>0, <3>1, <3>2, <3>5 DEF PausedI
    <3>10. Client(VerificationEnds(z, t))  BY <3>3, <3>4
    <3>. QED  BY <1>2, <3>5, <3>6, <3>8, <3>9, <3>10, EndOfVerification
  <2>2. CASE ~Current(c, t)
    <3>1. Client(VerificationEnds(c, t))  BY <1>4, <2>2 DEF VerifyPasses
    <3>. QED  BY <1>0, <1>2, <3>1, EndOfVerification DEF SameWrite
  <2>. QED  BY <2>1, <2>2
<1>5. CASE VerifyRefused(t)
  <2>. DEFINE z == pause(c, t)
  <2>1. t \in dead /\ Client(VerificationEnds(z, t))  BY <1>5 DEF VerifyRefused
  <2>2. AuthI(z) /\ PausedI(z, dead) /\ z.persisted = c.persisted /\ SameWrite(c, z)
    BY <1>0, <1>2, <2>1, PauseIs
  <2>. HIDE DEF z
  <2>. QED  BY <1>2, <2>1, <2>2, EndOfVerification
<1>6. CASE VerifyUnreachable(t)
  <2>1. Client(VerificationEnds(c, t))  BY <1>6 DEF VerifyUnreachable
  <2>. QED  BY <1>0, <1>2, <2>1, EndOfVerification DEF SameWrite
<1>7. CASE VerifyMismatch(t)
  <2>. DEFINE w == [op |-> "mismatch", by |-> 0, token |-> t]
              y == enqueue(c, w)
  <2>1. Current(c, t) /\ PrincipalOf(t) # c.attachment.principal /\ Client(y)
    BY <1>7 DEF VerifyMismatch
  <2>2. c.persisted.token = t /\ c.persisted.principal # PrincipalOf(t) /\ c.persisted # None
    BY <1>0, <1>2, <1>3, <2>1, NoneIsNobody DEF Sound, HeldI, Current
  <2>3. t \in c.issued /\ \A a \in SignIns : c.attempts[a].token # t
    BY <1>0, <2>2 DEF Sound, HeldI
  <2>4. w \in Write /\ w.op = "mismatch" /\ InstallI(c, w) /\ MismatchI(c, w)
    BY <1>0, <1>2, <2>3 DEF Write, InstallI, MismatchI
  <2>. HIDE DEF w
  <2>5. AuthI(y) /\ SameHeld(c, y) /\ y.step = c.step /\ (HasClear(c.queue) => HasClear(y.queue))
    BY <1>0, <2>4, EnqueueIs
  <2>. HIDE DEF y
  <2>6. Quiet(c, y)  BY <2>5 DEF Quiet, SameHeld
  <2>. QED  BY <2>1, <2>5, <2>6, QuietKeeps
<1>. QED  BY <1>1, <1>4, <1>5, <1>6, <1>7

\* A request that is over.
LEMMA ForgetRequest ==
    ASSUME NEW x, NEW r, AuthI(x)
    PROVE  LET y == [x EXCEPT !.requests = @ \ {r}]
           IN  AuthI(y) /\ ButRequests(x, y)
<1>. DEFINE y == [x EXCEPT !.requests = @ \ {r}]
<1>0. x \in Memory  BY DEF AuthI, Sound
<1>1. y \in Memory /\ y.requests = x.requests \ {r} /\ ButRequests(x, y)
  BY <1>0 DEF Memory, ButRequests, SameTries, MoreTokens, SameWrite
<1>. HIDE DEF y
<1>2. RequestsI(y)  BY <1>1 DEF AuthI, Sound, RequestsI, ButRequests
<1>3. AuthI(y)  BY <1>1, <1>2, RequestsKept
<1>. QED  BY <1>1, <1>3 DEF y

LEMMA AnsweredKeeps ==
    ASSUME SessionI, NEW r, Answered(r)
    PROVE  SessionI'
<1>. DEFINE y == [c EXCEPT !.requests = @ \ {r}]
<1>1. Client(y) /\ AuthI(c)  BY DEF Answered, SessionI
<1>2. AuthI(y) /\ ButRequests(c, y)  BY <1>1, ForgetRequest
<1>. HIDE DEF y
<1>3. Quiet(c, y)  BY <1>2 DEF Quiet, ButRequests, SameWrite
<1>. QED  BY <1>1, <1>2, <1>3, QuietKeeps

LEMMA RefusedKeeps ==
    ASSUME SessionI, NEW r, Refused(r)
    PROVE  SessionI'
<1>. DEFINE y == [c EXCEPT !.requests = @ \ {r}]
            t == r.token
            z == pause(y, t)
            u == Authorized(y, TRUE)
<1>0. AuthI(c) /\ PausedI(c, dead) /\ dead \subseteq Tokens  BY DEF SessionI
<1>1. t \in dead /\ Client(IF r.retry \/ Current(y, t) THEN z ELSE u)  BY DEF Refused
<1>2. t \in Tokens  BY <1>0, <1>1
<1>3. AuthI(y) /\ ButRequests(c, y)  BY <1>0, ForgetRequest
<1>. HIDE DEF y, t
<1>4. PausedI(y, dead)  BY <1>0, <1>3 DEF PausedI, ButRequests
<1>5. CASE r.retry \/ Current(y, t)
  <2>1. Client(z)  BY <1>1, <1>5
  <2>2. AuthI(z) /\ PausedI(z, dead) /\ z.persisted = y.persisted /\ SameWrite(y, z)
    BY <1>1, <1>2, <1>3, <1>4, PauseIs
  <2>. HIDE DEF z
  <2>3. StoreI(z, stored, dirty)
    BY <1>3, <2>2 DEF SessionI, StoreI, ButRequests, SameWrite
  <2>. QED  BY <2>1, <2>2, <2>3, ClientKeeps
<1>6. CASE ~(r.retry \/ Current(y, t))
  <2>1. Client(u)  BY <1>1, <1>6
  <2>2. AuthI(u) /\ ButRequests(y, u)  BY <1>3, AuthorizedIs
  <2>. HIDE DEF u
  <2>3. Quiet(c, u)  BY <1>3, <2>2 DEF Quiet, ButRequests, SameWrite
  <2>. QED  BY <2>1, <2>2, <2>3, QuietKeeps
<1>. QED  BY <1>5, <1>6

LEMMA TokenDiesKeeps ==
    ASSUME SessionI, TokenDies
    PROVE  SessionI'
<1>1. PICK t \in c.issued \ dead : dead' = dead \cup {t}  BY DEF TokenDies
<1>2. t \in Tokens  BY <1>1 DEF SessionI, AuthI, Sound, Memory
<1>3. c' = c /\ stored' = stored /\ dirty' = dirty  BY DEF TokenDies
<1>4. PausedI(c, dead')  BY <1>1 DEF SessionI, PausedI
<1>. QED  BY <1>1, <1>2, <1>3, <1>4 DEF SessionI

-----------------------------------------------------------------------------
(* The theorems *)

LEMMA AuthNextKeeps == SessionI /\ [AuthNext]_authVars => SessionI'
<1>. SUFFICES ASSUME SessionI, [AuthNext]_authVars PROVE SessionI'  OBVIOUS
<1>1. ASSUME NEW kind \in {"start", "complete"}, Run(kind) PROVE SessionI'
  BY <1>1, RunKeeps
<1>2. ASSUME NEW a \in SignIns, LauncherEnds(a) PROVE SessionI'  BY <1>2, LauncherEndsKeeps
<1>3. ASSUME NEW a \in SignIns, LauncherReturns(a) PROVE SessionI'  BY <1>3, LauncherReturnsKeeps
<1>4. ASSUME NEW a \in SignIns, SessionRead(a) PROVE SessionI'  BY <1>4, SessionReadKeeps
<1>5. ASSUME NEW a \in SignIns, RevocationEnds(a) PROVE SessionI'  BY <1>5, RevocationEndsKeeps
<1>6. ASSUME NEW r \in c.requests, Answered(r) PROVE SessionI'  BY <1>6, AnsweredKeeps
<1>7. ASSUME NEW r \in c.requests, Refused(r) PROVE SessionI'  BY <1>7, RefusedKeeps
<1>8. CASE UNCHANGED authVars  BY <1>8 DEF authVars, SessionI
<1>9. CASE AuthNext
  BY <1>1, <1>2, <1>3, <1>4, <1>5, <1>6, <1>7, <1>9, BeginKeeps, SetReturnsKeeps, SetFailsKeeps,
     SignOutKeeps, DisposeKeeps, CancelKeeps, CancellationWaitsKeeps, FetchKeeps, VerifiesKeeps,
     TokenDiesKeeps DEF AuthNext
<1>. QED  BY <1>8, <1>9

\* The inductive invariant holds in every state of the session client, for any
\* tokens and any number of attempts, writes, failures and requests.
THEOREM SessionInvariant == AuthSpec => []SessionI
BY AuthInitHolds, AuthNextKeeps, PTL DEF AuthSpec

\* Once the writes have settled, the cell holds what the client believes in;
\* the attached account is the persisted one (install's rollback, signOut, verify).
THEOREM TheCellAgrees == AuthSpec => []StorageAgrees
<1>1. SessionI => StorageAgrees
  <2>. SUFFICES ASSUME SessionI PROVE StorageAgrees  OBVIOUS
  <2>0. c \in Memory /\ Sound(c, c.queue)  BY DEF SessionI, AuthI, Sound
  <2>1. AuthTypeOK
    <3>1. \A i \in 1 .. Len(c.queue) : c.queue[i] \in Write  BY <2>0 DEF Memory
    <3>. QED  BY <2>0, <3>1 DEF AuthTypeOK, Memory, SessionI
  <2>2. c.queue = <<>> /\ ~dirty => stored = c.persisted
    <3>. SUFFICES ASSUME c.queue = <<>>, ~dirty PROVE stored = c.persisted  OBVIOUS
    <3>1. ~HasClear(c.queue)  BY DEF HasClear
    <3>2. c.step = "start"  BY DEF SessionI, AuthI, WriteI
    <3>. QED  BY <3>1, <3>2 DEF SessionI, StoreI
  <2>. QED  BY <2>0, <2>1, <2>2 DEF StorageAgrees, Sound, HeldI
<1>. QED  BY <1>1, SessionInvariant, PTL

\* A token a sign-in obtained is in use or was given back once the attempt is
\* over, but for the one whose cell could not be cleared (install's catch).
THEOREM TokensAreAccounted == AuthSpec => []NoTokenForgotten
<1>1. SessionI => NoTokenForgotten
  BY DEF SessionI, AuthI, Sound, TokensI, Accounted, NoTokenForgotten
<1>. QED  BY <1>1, SessionInvariant, PTL

\* The account pauses only for a refusal of its present credential, and no
\* request carries a token of another principal (pause, verify, accountFetch).
THEOREM RefusalsAreCurrent == AuthSpec => []RefusalIsCurrent
<1>1. SessionI => RefusalIsCurrent
  BY DEF SessionI, PausedI, AuthI, Sound, RequestsI, RefusalIsCurrent
<1>. QED  BY <1>1, SessionInvariant, PTL
=============================================================================
