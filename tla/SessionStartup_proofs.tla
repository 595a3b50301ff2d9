------------------------ MODULE SessionStartup_proofs ------------------------
(***************************************************************************)
(* The start-up keeps its books for every set of programs, every choice of *)
(* priorities and every bound: an inductive invariant of SessionStartup,   *)
(* and from it the ownership of properties, the timeouts, the progress of  *)
(* the queue and the order of the priority groups.                         *)
(***************************************************************************)
EXTENDS SessionHandover, FiniteSetTheorems, WellFoundedInduction,
        TLAPS

\* Whoever may still be started again has a restart left.
AttemptsLeft ==
  \A p \in pending \cup starting \cup timers \cup clients :
    attempts[p] <= MaxRestartAttempts

\* Before the first dispatch nothing has happened.
NothingLoaded ==
  mgr = "LOADED" =>
    /\ starting = {} /\ timers = {} /\ watched = {} /\ silent = {}
    /\ failsafePending = 0

\* The failsafe session is started with default hints, so nothing of it is
\* ever restarted or kept for the next session.
FailsafeIsPlain ==
  failsafe => /\ clients = {} /\ parked = {}
              /\ \A p \in Programs : hint[p] = "IfRunning"

\* Saved session: whose process is awaited is still starting.
AwaitedAreStarting == ~failsafe => silent \ failed \subseteq starting

\* Failsafe session: the counter is behind the silent processes by at most
\* the outsiders that were counted in their place.
CounterCovers ==
  failsafe /\ mgr = "STARTUP" =>
    Cardinality(silent) <= failsafePending + outsiders

\* Programs whose group ended without them.
Missed == (silent \ failed) \ starting
FewMissed == Cardinality(Missed) <= outsiders

\* The part about sets, and the part about numbers.
Books ==
  /\ TypeOK
  /\ PropertiesHaveOneOwner
  /\ StartersAreTimed
  /\ NeverStranded
  /\ AttemptsLeft
  /\ NothingLoaded
  /\ FailsafeIsPlain
  /\ AwaitedAreStarting
Counts == CounterIsPositive /\ CounterCovers /\ FewMissed

StartupInv == Books /\ Counts

-----------------------------------------------------------------------------
(* What the operators of the model return.                                 *)

\* A failure restarts only where a restart is left, and keeps properties
\* only of programs with a hint that asks for it.
LEMMA FailureFacts ==
  ASSUME NEW p, NEW o \in FailureOutcomes(p)
  PROVE  /\ o \in {"restarted", "parked", "freed"}
         /\ o = "restarted" => hint[p] = "Immediately" /\ MayRestart(p)
         /\ o = "parked" => hint[p] # "IfRunning"
BY DEF FailureOutcomes

\* A launch takes programs from the queue; the ones it starts are the last
\* in priority, and if it starts none the whole queue was tried.
LEMMA LaunchFacts ==
  ASSUME NEW queue \in SUBSET Programs, NEW f \in Launches(queue)
  PROVE  /\ DOMAIN f \subseteq queue
         /\ f \in [DOMAIN f -> Outcomes]
         /\ \A p \in DOMAIN f : f[p] \in {"started"} \cup FailureOutcomes(p)
         /\ \A p, q \in DOMAIN f : f[p] = "started" => Prio[q] <= Prio[p]
         /\ \A p \in Having(f, {"started"}) : \A q \in DOMAIN f :
              Prio[q] <= Prio[p]
<1> DEFINE UpTo(p) == {q \in queue : Prio[q] <= Prio[p]}
           Fate(g, last) ==
             /\ \A p \in UpTo(last) :
                  /\ g[p] \in {"started"} \cup FailureOutcomes(p)
                  /\ g[p] = "started" => Prio[p] = Prio[last]
             /\ UpTo(last) = queue \/ \E p \in UpTo(last) : g[p] = "started"
<1>1. CASE queue = {}
  <2>1. f = None
    BY <1>1 DEF Launches
  <2> QED
    BY <2>1 DEF None, Having
<1>2. CASE queue # {}
  <2>1. PICK last \in queue : f \in [UpTo(last) -> Outcomes] /\ Fate(f, last)
    <3>1. f \in UNION {{g \in [UpTo(l) -> Outcomes] : Fate(g, l)} : l \in queue}
      BY <1>2 DEF Launches
    <3> HIDE DEF UpTo, Fate
    <3> QED
      BY <3>1
  <2>2. DOMAIN f = UpTo(last)
    BY <2>1
  <2> QED
    BY <2>1, <2>2 DEF Having
<1> QED
  BY <1>1, <1>2

\* The same of the programs a handler goes on with, if any.
LEMMA FollowFacts ==
  ASSUME NEW left, NEW queue \in SUBSET Programs, NEW f \in Follow(left, queue)
  PROVE  /\ DOMAIN f \subseteq queue
         /\ f \in [DOMAIN f -> Outcomes]
         /\ \A p \in DOMAIN f : f[p] \in {"started"} \cup FailureOutcomes(p)
         /\ \A p \in Having(f, {"started"}) : \A q \in DOMAIN f :
              Prio[q] <= Prio[p]
         /\ ~Due(left, queue) => DOMAIN f = {}
<1>1. CASE Due(left, queue)
  BY <1>1, LaunchFacts DEF Follow
<1>2. CASE ~Due(left, queue)
  BY <1>2 DEF Follow, None, Having
<1> QED
  BY <1>1, <1>2

\* The programs with given outcomes when one more program is handled.
LEMMA WithFacts ==
  ASSUME NEW f, NEW p, NEW o, p \notin DOMAIN f, NEW S
  PROVE  Having(With(f, p, o), S)
           = Having(f, S) \cup (IF o \in S THEN {p} ELSE {})
BY DEF Having, With

\* What a handler does to the one program it handles.
LEMMA OneSettled ==
  ASSUME NEW p, NEW o \in FailureOutcomes(p), Settle(With(None, p, o), {p})
  PROVE  /\ parked' = parked \cup (IF o = "parked" THEN {p} ELSE {})
         /\ timers' = (timers \ {p}) \cup (IF o = "restarted" THEN {p} ELSE {})
         /\ watched'
              = (watched \ {p}) \cup (IF o = "restarted" THEN {p} ELSE {})
         /\ attempts' = [q \in Programs |->
              IF q = p /\ o # "freed" /\ hint[q] = "Immediately"
              THEN attempts[q] + 1 ELSE attempts[q]]
         /\ failed' = failed \cup {p}
<1> DEFINE again == IF o = "restarted" THEN {p} ELSE {}
           kept == IF o = "parked" THEN {p} ELSE {}
<1>1. o \in {"restarted", "parked", "freed"}
  BY FailureFacts
<1>2. DOMAIN With(None, p, o) = {p} /\ With(None, p, o)[p] = o
  BY DEF None, With
<1>3. \A X : Having(With(None, p, o), X) = IF o \in X THEN {p} ELSE {}
  BY <1>2 DEF Having
<1>4. /\ Having(With(None, p, o), Spawned)
           = IF o \in Spawned THEN {p} ELSE {}
      /\ Having(With(None, p, o), {"parked"})
           = IF o \in {"parked"} THEN {p} ELSE {}
      /\ Having(With(None, p, o), {"restarted", "parked"})
           = IF o \in {"restarted", "parked"} THEN {p} ELSE {}
      /\ Having(With(None, p, o), Outcomes \ {"started"})
           = IF o \in Outcomes \ {"started"} THEN {p} ELSE {}
  BY <1>3
<1>5. /\ Having(With(None, p, o), Spawned) = again
      /\ Having(With(None, p, o), {"parked"}) = kept
      /\ Having(With(None, p, o), {"restarted", "parked"}) = again \cup kept
      /\ Having(With(None, p, o), Outcomes \ {"started"}) = {p}
  BY <1>1, <1>4 DEF Spawned, Outcomes
<1>6. \A q : q \in again \cup kept <=> q = p /\ o # "freed"
  BY <1>1
<1> QED
  BY <1>5, <1>6 DEF Settle, TimersWithout

\* Finite sets of programs, and how their sizes compare.
LEMMA ProgramSets ==
  ASSUME NEW A \in SUBSET Programs, NEW B \in SUBSET Programs
  PROVE  /\ IsFiniteSet(A) /\ Cardinality(A) \in Nat
         /\ A \subseteq B => Cardinality(A) <= Cardinality(B)
         /\ Cardinality(A \cup B) <= Cardinality(A) + Cardinality(B)
         /\ A # {} => Cardinality(A) >= 1
         /\ \A p \in A : Cardinality(A \ {p}) = Cardinality(A) - 1
<1>1. IsFiniteSet(A) /\ IsFiniteSet(B)
  BY FS_Subset, StartupAssumption
<1>2. Cardinality(A) \in Nat /\ Cardinality(B) \in Nat
  BY <1>1, FS_CardinalityType
<1>3. A \subseteq B => Cardinality(A) <= Cardinality(B)
  BY <1>1, FS_Subset
<1>4. Cardinality(A \cup B) <= Cardinality(A) + Cardinality(B)
  <2>1. Cardinality(A \cup B)
          = Cardinality(A) + Cardinality(B) - Cardinality(A \cap B)
    BY <1>1, FS_Union
  <2>2. Cardinality(A \cap B) \in Nat
    BY <1>1, FS_Intersection, FS_CardinalityType
  <2> QED
    BY <1>2, <2>1, <2>2
<1>5. A # {} => Cardinality(A) >= 1
  BY <1>1, <1>2, FS_EmptySet
<1>6. \A p \in A : Cardinality(A \ {p}) = Cardinality(A) - 1
  BY <1>1, FS_RemoveElement
<1> QED
  BY <1>1, <1>2, <1>3, <1>4, <1>5, <1>6

\* What a launch did to the programs it tried, as sets.
LEMMA LaunchedSets ==
  ASSUME NEW queue \in SUBSET Programs, NEW f,
         DOMAIN f \subseteq queue,
         f \in [DOMAIN f -> Outcomes],
         \A p \in DOMAIN f : f[p] \in {"started"} \cup FailureOutcomes(p)
  PROVE  /\ Having(f, Spawned) \subseteq DOMAIN f
         /\ Having(f, {"started"}) \subseteq Having(f, Spawned)
         /\ Having(f, {"parked"}) \subseteq DOMAIN f \ Having(f, Spawned)
         /\ Having(f, {"restarted", "parked"})
              \subseteq Having(f, Outcomes \ {"started"})
         /\ Having(f, Outcomes \ {"started"})
              = DOMAIN f \ Having(f, {"started"})
         /\ \A p \in Having(f, Spawned) \ Having(f, {"started"}) :
              p \in Having(f, {"restarted", "parked"}) /\ MayRestart(p)
         /\ \A p \in Having(f, {"started"}) :
              p \notin Having(f, {"restarted", "parked"})
         /\ (\A p \in Programs : hint[p] = "IfRunning") =>
              /\ Having(f, {"parked"}) = {}
              /\ Having(f, Spawned) = Having(f, {"started"})
<1>1. \A p \in DOMAIN f : f[p] # "started" =>
        /\ f[p] \in {"restarted", "parked", "freed"}
        /\ f[p] = "restarted" => hint[p] = "Immediately" /\ MayRestart(p)
        /\ f[p] = "parked" => hint[p] # "IfRunning"
  BY FailureFacts
<1> QED
  BY <1>1 DEF Having, Spawned, Outcomes

\* The first dispatch.
LEMMA BeginKeepsBooks ==
  ASSUME StartupInv, Begin
  PROVE  Books'
<1> USE DEF StartupInv
<1>1. PICK f \in Launches(pending) :
        /\ pending' = pending \ DOMAIN f
        /\ starting' = Having(f, Spawned)
        /\ Settle(f, {})
        /\ mgr' = AfterLaunch(f, TRUE)
        /\ failsafePending' = Count(f, failsafePending)
        /\ silent' = Having(f, Spawned)
  BY DEF Begin
<1>2. /\ mgr = "LOADED"
      /\ UNCHANGED <<failsafe, hint, clients, resetTimer, outsiders>>
  BY DEF Begin
<1>3. pending \in SUBSET Programs
  BY DEF Books, TypeOK
<1>4. /\ DOMAIN f \subseteq pending
      /\ f \in [DOMAIN f -> Outcomes]
      /\ \A p \in DOMAIN f : f[p] \in {"started"} \cup FailureOutcomes(p)
  BY <1>3, LaunchFacts
<1> DEFINE S == Having(f, Spawned)
           Up == Having(f, {"started"})
           K == Having(f, {"parked"})
           R == Having(f, {"restarted", "parked"})
           D == Having(f, Outcomes \ {"started"})
<1>5. /\ S \subseteq DOMAIN f /\ Up \subseteq S
      /\ K \subseteq DOMAIN f \ S
      /\ R \subseteq D /\ D = DOMAIN f \ Up
      /\ \A p \in S \ Up : p \in R /\ MayRestart(p)
      /\ \A p \in Up : p \notin R
      /\ (\A p \in Programs : hint[p] = "IfRunning") => K = {} /\ S = Up
  BY <1>3, <1>4, LaunchedSets
<1>6. /\ parked' = parked \cup K
      /\ timers' = timers \cup S
      /\ watched' = watched \cup S
      /\ attempts' = [p \in Programs |->
           IF p \in R /\ hint[p] = "Immediately"
           THEN attempts[p] + 1 ELSE attempts[p]]
      /\ failed' = failed \cup D
  BY <1>1 DEF Settle, TimersWithout
<1>7. starting = {} /\ timers = {} /\ watched = {} /\ silent = {}
      /\ failsafePending = 0
  BY <1>2 DEF Books, NothingLoaded
<1>8. mgr' \in {"STARTUP", "IDLE"} /\ (mgr' = "STARTUP" => Up # {})
  BY <1>1 DEF AfterLaunch
<1>9. failsafePending' \in Int
  <2>1. Cardinality(DOMAIN f) \in Nat
    BY <1>3, <1>4, ProgramSets
  <2> QED
    BY <1>1, <1>7, <2>1 DEF Count
<1>10. \A p \in pending : attempts[p] \in 0 .. MaxRestartAttempts
  BY <1>3, StartupAssumption DEF Books, TypeOK, AttemptsLeft
<1> HIDE DEF S, Up, K, R, D
<1>11. TypeOK'
  <2>1. attempts' \in [Programs -> 0 .. MaxRestartAttempts + 1]
    BY <1>3, <1>4, <1>5, <1>6, <1>10, StartupAssumption DEF Books, TypeOK
  <2> QED
    BY <1>1, <1>2, <1>3, <1>4, <1>5, <1>6, <1>8, <1>9, <2>1
       DEF Books, TypeOK, S
<1>12. PropertiesHaveOneOwner'
  BY <1>1, <1>2, <1>4, <1>5, <1>6 DEF Books, PropertiesHaveOneOwner, S
<1>13. StartersAreTimed'
  BY <1>1, <1>2, <1>4, <1>5, <1>6, <1>7
     DEF Books, PropertiesHaveOneOwner, StartersAreTimed, S
<1>14. NeverStranded'
  BY <1>1, <1>5, <1>8 DEF NeverStranded, S
<1>15. AttemptsLeft'
  BY <1>1, <1>2, <1>3, <1>4, <1>5, <1>6, <1>7, <1>10, StartupAssumption
     DEF Books, TypeOK, PropertiesHaveOneOwner, AttemptsLeft, MayRestart, S
<1>16. NothingLoaded' /\ FailsafeIsPlain' /\ AwaitedAreStarting'
  BY <1>1, <1>2, <1>5, <1>6, <1>8
     DEF Books, NothingLoaded, FailsafeIsPlain, AwaitedAreStarting, S
<1> QED
  BY <1>11, <1>12, <1>13, <1>14, <1>15, <1>16 DEF Books

\* A program that is late or has exited.
LEMMA FailureKeepsBooks ==
  ASSUME StartupInv, NEW p \in timers, NEW exited, Serving,
         HandleFailedStartup(p, exited)
  PROVE  Books'
<1> USE DEF StartupInv
<1>1. PICK o \in FailureOutcomes(p) :
        LET left == IF o = "restarted" THEN starting \cup {p}
                                       ELSE starting \ {p}
        IN \E f \in Follow(left, pending) :
             /\ pending' = pending \ DOMAIN f
             /\ starting' = left \cup Having(f, Spawned)
             /\ Settle(With(f, p, o), {p})
             /\ mgr' = AfterLaunch(f, Due(left, pending))
             /\ failsafePending' = Count(f, failsafePending)
             /\ silent' = (silent \ exited) \cup Having(With(f, p, o), Spawned)
             /\ resetTimer' = resetTimer \ {p}
             /\ UNCHANGED <<failsafe, hint, clients, outsiders>>
  BY DEF HandleFailedStartup
<1> DEFINE left == IF o = "restarted" THEN starting \cup {p}
                                      ELSE starting \ {p}
           again == IF o = "restarted" THEN {p} ELSE {}
           kept == IF o = "parked" THEN {p} ELSE {}
<1>2. PICK f \in Follow(left, pending) :
        /\ pending' = pending \ DOMAIN f
        /\ starting' = left \cup Having(f, Spawned)
        /\ Settle(With(f, p, o), {p})
        /\ mgr' = AfterLaunch(f, Due(left, pending))
        /\ failsafePending' = Count(f, failsafePending)
        /\ silent' = (silent \ exited) \cup Having(With(f, p, o), Spawned)
        /\ resetTimer' = resetTimer \ {p}
        /\ UNCHANGED <<failsafe, hint, clients, outsiders>>
  BY <1>1
<1>3. pending \in SUBSET Programs /\ p \in Programs
  BY DEF Books, TypeOK
<1>4. /\ DOMAIN f \subseteq pending
      /\ f \in [DOMAIN f -> Outcomes]
      /\ \A q \in DOMAIN f : f[q] \in {"started"} \cup FailureOutcomes(q)
      /\ ~Due(left, pending) => DOMAIN f = {}
  BY <1>3, FollowFacts
<1>5. p \notin pending \cup parked \cup clients
  BY DEF Books, StartersAreTimed
<1> DEFINE S == Having(f, Spawned)
           Up == Having(f, {"started"})
           K == Having(f, {"parked"})
           R == Having(f, {"restarted", "parked"})
           D == Having(f, Outcomes \ {"started"})
<1>6. /\ S \subseteq DOMAIN f /\ Up \subseteq S
      /\ K \subseteq DOMAIN f \ S
      /\ R \subseteq D /\ D = DOMAIN f \ Up
      /\ \A q \in S \ Up : q \in R /\ MayRestart(q)
      /\ \A q \in Up : q \notin R
      /\ (\A q \in Programs : hint[q] = "IfRunning") => K = {} /\ S = Up
  BY <1>3, <1>4, LaunchedSets
<1>7. /\ o \in {"restarted", "parked", "freed"}
      /\ o = "restarted" => hint[p] = "Immediately" /\ MayRestart(p)
      /\ o = "parked" => hint[p] # "IfRunning"
  BY FailureFacts
<1>8. /\ Having(With(f, p, o), Spawned) = S \cup again
      /\ Having(With(f, p, o), {"parked"}) = K \cup kept
      /\ Having(With(f, p, o), {"restarted", "parked"})
           = R \cup again \cup kept
      /\ Having(With(f, p, o), Outcomes \ {"started"}) = D \cup {p}
  <2>1. p \notin DOMAIN f
    BY <1>4, <1>5
  <2>2. Having(With(f, p, o), Spawned)
          = S \cup (IF o \in Spawned THEN {p} ELSE {})
    BY <2>1, WithFacts
  <2>3. Having(With(f, p, o), {"parked"})
          = K \cup (IF o \in {"parked"} THEN {p} ELSE {})
    BY <2>1, WithFacts
  <2>4. Having(With(f, p, o), {"restarted", "parked"})
          = R \cup (IF o \in {"restarted", "parked"} THEN {p} ELSE {})
    BY <2>1, WithFacts
  <2>5. Having(With(f, p, o), Outcomes \ {"started"})
          = D \cup (IF o \in Outcomes \ {"started"} THEN {p} ELSE {})
    BY <2>1, WithFacts
  <2> QED
    BY <1>7, <2>2, <2>3, <2>4, <2>5 DEF Spawned, Outcomes
<1>9. /\ parked' = parked \cup K \cup kept
      /\ timers' = (timers \ {p}) \cup S \cup again
      /\ watched' = (watched \ {p}) \cup S \cup again
      /\ attempts' = [q \in Programs |->
           IF q \in R \cup again \cup kept /\ hint[q] = "Immediately"
           THEN attempts[q] + 1 ELSE attempts[q]]
      /\ failed' = failed \cup D \cup {p}
      /\ silent' = (silent \ exited) \cup S \cup again
      /\ starting' = (starting \ {p}) \cup S \cup again
  BY <1>2, <1>8 DEF Settle, TimersWithout
<1>10. mgr' \in {"STARTUP", "IDLE"}
       /\ (mgr' = "STARTUP" => starting' # {})
  BY <1>2 DEF AfterLaunch, Serving, Due, Having, Spawned
<1>11. failsafePending' \in Int
  <2>1. Cardinality(DOMAIN f) \in Nat
    BY <1>3, <1>4, ProgramSets
  <2> QED
    BY <1>2, <2>1 DEF Count, Books, TypeOK
<1>12. \A q \in pending \cup {p} : attempts[q] \in 0 .. MaxRestartAttempts
  BY <1>3, StartupAssumption DEF Books, TypeOK, AttemptsLeft
<1> HIDE DEF S, Up, K, R, D
<1>13. TypeOK'
  <2>1. attempts' \in [Programs -> 0 .. MaxRestartAttempts + 1]
    BY <1>3, <1>4, <1>6, <1>9, <1>12, StartupAssumption DEF Books, TypeOK
  <2> QED
    BY <1>2, <1>3, <1>4, <1>6, <1>9, <1>10, <1>11, <2>1 DEF Books, TypeOK
<1>14. PropertiesHaveOneOwner'
  BY <1>2, <1>4, <1>5, <1>6, <1>7, <1>9 DEF Books, PropertiesHaveOneOwner
<1>15. StartersAreTimed'
  BY <1>2, <1>4, <1>5, <1>6, <1>7, <1>9
     DEF Books, PropertiesHaveOneOwner, StartersAreTimed
<1>16. NeverStranded'
  BY <1>10 DEF NeverStranded
<1>17. AttemptsLeft'
  BY <1>2, <1>3, <1>4, <1>5, <1>6, <1>7, <1>9, <1>12, StartupAssumption
     DEF Books, TypeOK, PropertiesHaveOneOwner, StartersAreTimed,
         AttemptsLeft, MayRestart
<1>18. NothingLoaded' /\ FailsafeIsPlain'
  BY <1>2, <1>3, <1>6, <1>7, <1>9, <1>10
     DEF Books, NothingLoaded, FailsafeIsPlain
<1>19. AwaitedAreStarting'
  BY <1>2, <1>6, <1>9 DEF Books, AwaitedAreStarting
<1> QED
  BY <1>13, <1>14, <1>15, <1>16, <1>17, <1>18, <1>19 DEF Books

\* A client takes over the properties of a program of the saved session.
LEMMA ReregisterKeepsBooks ==
  ASSUME StartupInv, NEW p \in Programs, Reregister(p)
  PROVE  Books'
<1> USE DEF StartupInv
<1> DEFINE left == starting \ {p}
<1>1. PICK f \in Follow(left, Take(p)) :
        /\ pending' = Take(p) \ DOMAIN f
        /\ starting' = left \cup Having(f, Spawned)
        /\ Settle(f, {p})
        /\ mgr' = AfterLaunch(f, Due(left, Take(p)))
        /\ silent' = (silent \ {p}) \cup Having(f, Spawned)
  BY DEF Reregister
<1>2. /\ Serving
      /\ ~failsafe
      /\ p \in starting \cup pending
      /\ clients' = clients \cup {p}
      /\ resetTimer' = IF attempts[p] > 0 THEN resetTimer \cup {p}
                                          ELSE resetTimer
      /\ UNCHANGED <<failsafe, hint, failsafePending, outsiders>>
  BY DEF Reregister
<1>3. /\ Take(p) = pending \ {p}
      /\ Take(p) \in SUBSET Programs
  BY <1>2 DEF Take, Books, TypeOK, PropertiesHaveOneOwner
<1>4. /\ DOMAIN f \subseteq Take(p)
      /\ f \in [DOMAIN f -> Outcomes]
      /\ \A q \in DOMAIN f : f[q] \in {"started"} \cup FailureOutcomes(q)
      /\ ~Due(left, Take(p)) => DOMAIN f = {}
  BY <1>3, FollowFacts
<1> DEFINE S == Having(f, Spawned)
           Up == Having(f, {"started"})
           K == Having(f, {"parked"})
           R == Having(f, {"restarted", "parked"})
           D == Having(f, Outcomes \ {"started"})
<1>6. /\ S \subseteq DOMAIN f /\ Up \subseteq S
      /\ K \subseteq DOMAIN f \ S
      /\ R \subseteq D /\ D = DOMAIN f \ Up
      /\ \A q \in S \ Up : q \in R /\ MayRestart(q)
      /\ \A q \in Up : q \notin R
  BY <1>3, <1>4, LaunchedSets
<1>9. /\ parked' = parked \cup K
      /\ timers' = (timers \ {p}) \cup S
      /\ watched' = (watched \ {p}) \cup S
      /\ attempts' = [q \in Programs |->
           IF q \in R /\ hint[q] = "Immediately"
           THEN attempts[q] + 1 ELSE attempts[q]]
      /\ failed' = failed \cup D
      /\ silent' = (silent \ {p}) \cup S
      /\ starting' = (starting \ {p}) \cup S
      /\ pending' = pending \ ({p} \cup DOMAIN f)
  BY <1>1, <1>3 DEF Settle, TimersWithout
<1>10. mgr' \in {"STARTUP", "IDLE"}
       /\ (mgr' = "STARTUP" => starting' # {})
  BY <1>1, <1>2 DEF AfterLaunch, Serving, Due, Having, Spawned
<1>12. \A q \in pending \cup {p} : attempts[q] \in 0 .. MaxRestartAttempts
  BY <1>2, <1>3, StartupAssumption DEF Books, TypeOK, AttemptsLeft
<1> HIDE DEF S, Up, K, R, D
<1>13. TypeOK'
  <2>1. attempts' \in [Programs -> 0 .. MaxRestartAttempts + 1]
    BY <1>3, <1>4, <1>6, <1>9, <1>12, StartupAssumption DEF Books, TypeOK
  <2> QED
    BY <1>2, <1>3, <1>4, <1>6, <1>9, <1>10, <2>1 DEF Books, TypeOK
<1>14. PropertiesHaveOneOwner'
  BY <1>2, <1>3, <1>4, <1>6, <1>9 DEF Books, PropertiesHaveOneOwner
<1>15. StartersAreTimed'
  BY <1>2, <1>3, <1>4, <1>6, <1>9
     DEF Books, PropertiesHaveOneOwner, StartersAreTimed
<1>16. NeverStranded'
  BY <1>10 DEF NeverStranded
<1>17. AttemptsLeft'
  <2>1. \A q \in Programs \ DOMAIN f : attempts'[q] = attempts[q]
    BY <1>6, <1>9
  <2>2. \A q \in S : attempts'[q] <= MaxRestartAttempts
    BY <1>3, <1>4, <1>6, <1>9, <1>12, StartupAssumption DEF MayRestart
  <2>3. DOMAIN f \cap (clients \cup {p} \cup pending' \cup left
                       \cup (timers \ {p})) = {}
    BY <1>3, <1>4, <1>9 DEF Books, PropertiesHaveOneOwner, StartersAreTimed
  <2>4. \A q \in clients \cup {p} \cup pending' \cup left \cup (timers \ {p}) :
          attempts'[q] <= MaxRestartAttempts
    BY <1>2, <1>3, <1>9, <2>1, <2>3, StartupAssumption
       DEF Books, TypeOK, AttemptsLeft
  <2> QED
    BY <1>2, <1>9, <2>2, <2>4 DEF AttemptsLeft
<1>18. NothingLoaded' /\ FailsafeIsPlain'
  BY <1>2, <1>10 DEF NothingLoaded, FailsafeIsPlain
<1>19. AwaitedAreStarting'
  BY <1>2, <1>6, <1>9 DEF Books, AwaitedAreStarting
<1> QED
  BY <1>13, <1>14, <1>15, <1>16, <1>17, <1>18, <1>19 DEF Books

\* A registration without an id.
LEMMA RegisterNewKeepsBooks ==
  ASSUME StartupInv, NEW who \in SUBSET Programs, RegisterNew(who),
         outsiders' \in 0 .. MaxOutsiders
  PROVE  Books'
<1> USE DEF StartupInv
<1> DEFINE count == failsafePending - 1
           left == IF count = 0 THEN {} ELSE starting
<1>1. Serving /\ UNCHANGED <<failsafe, hint, resetTimer>>
  BY DEF RegisterNew
<1>2. CASE ~(failsafe /\ mgr = "STARTUP")
  <2>1. /\ silent' = silent \ who
        /\ UNCHANGED <<mgr, ownerVars, watchVars, attempts, failsafePending,
                       failed>>
    BY <1>2 DEF RegisterNew
  <2> QED
    BY <1>1, <2>1
       DEF Books, TypeOK, PropertiesHaveOneOwner, StartersAreTimed,
           NeverStranded, AttemptsLeft, NothingLoaded, FailsafeIsPlain,
           AwaitedAreStarting, ownerVars, watchVars
<1>3. CASE failsafe /\ mgr = "STARTUP"
  <2>1. PICK f \in Follow(left, pending) :
          /\ pending' = pending \ DOMAIN f
          /\ starting' = left \cup Having(f, Spawned)
          /\ Settle(f, {})
          /\ mgr' = AfterLaunch(f, Due(left, pending))
          /\ failsafePending' = Count(f, count)
          /\ silent' = (silent \ who) \cup Having(f, Spawned)
          /\ UNCHANGED clients
    BY <1>3 DEF RegisterNew
  <2>2. pending \in SUBSET Programs /\ \A p \in Programs : hint[p] = "IfRunning"
    BY <1>3 DEF Books, TypeOK, FailsafeIsPlain
  <2>3. /\ DOMAIN f \subseteq pending
        /\ f \in [DOMAIN f -> Outcomes]
        /\ \A q \in DOMAIN f : f[q] \in {"started"} \cup FailureOutcomes(q)
        /\ ~Due(left, pending) => DOMAIN f = {}
    BY <2>2, FollowFacts
  <2> DEFINE S == Having(f, Spawned)
             Up == Having(f, {"started"})
             D == Having(f, Outcomes \ {"started"})
  <2>4. /\ S \subseteq DOMAIN f /\ S = Up
        /\ D = DOMAIN f \ Up
        /\ Having(f, {"parked"}) = {}
    BY <2>2, <2>3, LaunchedSets
  <2>5. /\ parked' = parked
        /\ timers' = timers \cup S
        /\ watched' = watched \cup S
        /\ attempts' = attempts
        /\ failed' = failed \cup D
        /\ silent' = (silent \ who) \cup S
        /\ starting' = left \cup S
        /\ clients' = clients
    BY <2>1, <2>2, <2>4 DEF Settle, TimersWithout, Books, TypeOK
  <2>6. mgr' \in {"STARTUP", "IDLE"}
        /\ (mgr' = "STARTUP" => starting' # {})
    BY <1>3, <2>1 DEF AfterLaunch, Due, Having, Spawned
  <2>7. failsafePending' \in Int
    <3>1. Cardinality(DOMAIN f) \in Nat
      BY <2>2, <2>3, ProgramSets
    <3> QED
      BY <2>1, <3>1 DEF Count, Books, TypeOK
  <2> HIDE DEF S, Up, D
  <2>8. TypeOK'
    BY <1>1, <2>1, <2>2, <2>3, <2>4, <2>5, <2>6, <2>7 DEF Books, TypeOK
  <2>9. PropertiesHaveOneOwner' /\ StartersAreTimed'
    BY <1>1, <1>3, <2>1, <2>3, <2>4, <2>5
       DEF Books, PropertiesHaveOneOwner, StartersAreTimed
  <2>10. NeverStranded'
    BY <2>6 DEF NeverStranded
  <2>11. AttemptsLeft'
    BY <2>1, <2>3, <2>4, <2>5 DEF Books, AttemptsLeft
  <2>12. NothingLoaded' /\ FailsafeIsPlain' /\ AwaitedAreStarting'
    BY <1>1, <1>3, <2>5, <2>6
       DEF Books, NothingLoaded, FailsafeIsPlain, AwaitedAreStarting
  <2> QED
    BY <2>8, <2>9, <2>10, <2>11, <2>12 DEF Books
<1> QED
  BY <1>2, <1>3

\* A client of the saved session leaves.
LEMMA ClientLeftKeepsBooks ==
  ASSUME StartupInv, NEW p \in Programs, ClientLeft(p)
  PROVE  Books'
<1> USE DEF StartupInv
<1>1. PICK o \in FailureOutcomes(p) :
        /\ starting' = IF o = "restarted" THEN starting \cup {p} ELSE starting
        /\ Settle(With(None, p, o), {p})
        /\ silent' = IF o = "restarted" THEN silent \cup {p} ELSE silent
  BY DEF ClientLeft
<1>2. /\ Serving
      /\ p \in clients
      /\ clients' = clients \ {p}
      /\ resetTimer' = resetTimer \ {p}
      /\ UNCHANGED <<mgr, failsafe, hint, pending, failsafePending, outsiders>>
  BY DEF ClientLeft
<1>3. /\ o \in {"restarted", "parked", "freed"}
      /\ o = "restarted" => hint[p] = "Immediately" /\ MayRestart(p)
  BY FailureFacts
<1> DEFINE again == IF o = "restarted" THEN {p} ELSE {}
           kept == IF o = "parked" THEN {p} ELSE {}
<1>5. /\ parked' = parked \cup kept
      /\ timers' = (timers \ {p}) \cup again
      /\ watched' = (watched \ {p}) \cup again
      /\ attempts' = [q \in Programs |->
           IF q = p /\ o # "freed" /\ hint[q] = "Immediately"
           THEN attempts[q] + 1 ELSE attempts[q]]
      /\ failed' = failed \cup {p}
      /\ silent' = silent \cup again
      /\ starting' = starting \cup again
  <2>1. Settle(With(None, p, o), {p})
    BY <1>1
  <2>2. /\ parked' = parked \cup kept
        /\ timers' = (timers \ {p}) \cup again
        /\ watched' = (watched \ {p}) \cup again
        /\ attempts' = [q \in Programs |->
             IF q = p /\ o # "freed" /\ hint[q] = "Immediately"
             THEN attempts[q] + 1 ELSE attempts[q]]
        /\ failed' = failed \cup {p}
    BY <2>1, OneSettled
  <2> QED
    BY <1>1, <2>2
<1>6. attempts[p] \in 0 .. MaxRestartAttempts
  BY <1>2, StartupAssumption DEF Books, TypeOK, AttemptsLeft
<1>7. TypeOK'
  <2>1. attempts' \in [Programs -> 0 .. MaxRestartAttempts + 1]
    BY <1>5, <1>6, StartupAssumption DEF Books, TypeOK
  <2> QED
    BY <1>2, <1>5, <2>1 DEF Books, TypeOK
<1>8. PropertiesHaveOneOwner'
  BY <1>2, <1>3, <1>5 DEF Books, PropertiesHaveOneOwner
<1>9. StartersAreTimed'
  BY <1>2, <1>3, <1>5
     DEF Books, PropertiesHaveOneOwner, StartersAreTimed
<1>10. NeverStranded'
  BY <1>2, <1>5 DEF Books, NeverStranded
<1>11. AttemptsLeft'
  BY <1>2, <1>3, <1>5, <1>6, StartupAssumption
     DEF Books, TypeOK, PropertiesHaveOneOwner, StartersAreTimed,
         AttemptsLeft, MayRestart
<1>12. NothingLoaded' /\ FailsafeIsPlain' /\ AwaitedAreStarting'
  BY <1>2, <1>5
     DEF Books, NothingLoaded, FailsafeIsPlain, AwaitedAreStarting, Serving
<1> QED
  BY <1>7, <1>8, <1>9, <1>10, <1>11, <1>12 DEF Books

\* Every step keeps the sets in order.
LEMMA StepKeepsBooks ==
  ASSUME StartupInv, [Next]_vars
  PROVE  Books'
<1> USE DEF StartupInv
<1>1. CASE Begin
  BY <1>1, BeginKeepsBooks
<1>2. ASSUME NEW p \in Programs, ProgramStep(p)
      PROVE  Books'
  <2>1. CASE StartupTimeout(p)
    BY <2>1, FailureKeepsBooks DEF StartupTimeout
  <2>2. CASE ChildExited(p)
    <3>1. p \in timers
      BY <2>2 DEF ChildExited, Books, StartersAreTimed
    <3>2. CASE p \in starting
      BY <2>2, <3>1, <3>2, FailureKeepsBooks DEF ChildExited
    <3>3. CASE p \notin starting
      BY <2>2, <3>3
         DEF ChildExited, Books, TypeOK, PropertiesHaveOneOwner,
             StartersAreTimed, NeverStranded, AttemptsLeft, NothingLoaded,
             FailsafeIsPlain, AwaitedAreStarting, ownerVars
    <3> QED
      BY <3>2, <3>3
  <2>3. CASE Reregister(p)
    BY <2>3, ReregisterKeepsBooks
  <2>4. CASE ProgramRegisters(p)
    BY <2>4, RegisterNewKeepsBooks DEF ProgramRegisters, Books, TypeOK
  <2>5. CASE ClientLeft(p)
    BY <2>5, ClientLeftKeepsBooks
  <2>6. CASE ResetRestartAttempts(p)
    BY <2>6, StartupAssumption
       DEF ResetRestartAttempts, Books, TypeOK, PropertiesHaveOneOwner,
           StartersAreTimed, NeverStranded, AttemptsLeft, NothingLoaded,
           FailsafeIsPlain, AwaitedAreStarting, ownerVars, watchVars
  <2>7. ASSUME NEW h \in Hints, SetProperties(p, h)
        PROVE  Books'
    BY <2>7
       DEF SetProperties, Books, TypeOK, PropertiesHaveOneOwner,
           StartersAreTimed, NeverStranded, AttemptsLeft, NothingLoaded,
           FailsafeIsPlain, AwaitedAreStarting, ownerVars, watchVars
  <2> QED
    BY <1>2, <2>1, <2>2, <2>3, <2>4, <2>5, <2>6, <2>7 DEF ProgramStep
<1>3. CASE OutsiderRegisters
  <2>1. outsiders' \in 0 .. MaxOutsiders
    BY <1>3, StartupAssumption DEF OutsiderRegisters, Books, TypeOK
  <2> QED
    BY <1>3, <2>1, RegisterNewKeepsBooks DEF OutsiderRegisters
<1>4. CASE RegisterWithId
  BY <1>4
     DEF RegisterWithId, Books, TypeOK, PropertiesHaveOneOwner,
         StartersAreTimed, NeverStranded, AttemptsLeft, NothingLoaded,
         FailsafeIsPlain, AwaitedAreStarting, ownerVars, watchVars
<1>5. CASE UNCHANGED vars
  BY <1>5
     DEF Books, TypeOK, PropertiesHaveOneOwner, StartersAreTimed,
         NeverStranded, AttemptsLeft, NothingLoaded, FailsafeIsPlain,
         AwaitedAreStarting, vars, ownerVars, watchVars
<1> QED
  BY <1>1, <1>2, <1>3, <1>4, <1>5 DEF Next

-----------------------------------------------------------------------------
(* The numbers.  In a saved session they follow from the sets.             *)

LEMMA SavedCounts ==
  ASSUME Books', ~failsafe'
  PROVE  Counts'
<1>1. Missed' = {}
  BY DEF Books, AwaitedAreStarting, Missed
<1>2. Cardinality({}) = 0 /\ outsiders' >= 0
  BY FS_EmptySet, StartupAssumption DEF Books, TypeOK
<1>3. Cardinality(Missed') = 0
  BY <1>1, <1>2
<1> QED
  BY <1>2, <1>3 DEF Counts, CounterIsPositive, CounterCovers, FewMissed

\* A failsafe launch adds at least as much to the counter as to the silent
\* processes, and something if it starts anything.
LEMMA LaunchCounted ==
  ASSUME TypeOK, failsafe,
         NEW f, DOMAIN f \subseteq Programs, NEW count \in Int,
         NEW base \in SUBSET Programs
  PROVE  /\ Count(f, count) \in Int
         /\ Count(f, count) >= count
         /\ DOMAIN f # {} => Count(f, count) >= count + 1
         /\ DOMAIN f = {} => Count(f, count) = count
         /\ Cardinality(base \cup Having(f, Spawned)) - Cardinality(base)
              <= Count(f, count) - count
<1>1. Cardinality(DOMAIN f) \in Nat /\ Cardinality(base) \in Nat
  BY ProgramSets
<1>2. Count(f, count) = count + Cardinality(DOMAIN f)
  BY DEF Count
<1>3. DOMAIN f # {} => Cardinality(DOMAIN f) >= 1
  BY ProgramSets
<1>4. DOMAIN f = {} => Cardinality(DOMAIN f) = 0
  BY FS_EmptySet
<1>5. Cardinality(base \cup Having(f, Spawned))
        <= Cardinality(base) + Cardinality(DOMAIN f)
  <2>1. Having(f, Spawned) \subseteq DOMAIN f
    BY DEF Having
  <2>2. /\ Cardinality(base \cup Having(f, Spawned)) \in Nat
        /\ Cardinality(base \cup Having(f, Spawned))
             <= Cardinality(base) + Cardinality(Having(f, Spawned))
    BY <2>1, ProgramSets
  <2>3. /\ Cardinality(Having(f, Spawned)) \in Nat
        /\ Cardinality(Having(f, Spawned)) <= Cardinality(DOMAIN f)
    BY <2>1, ProgramSets
  <2> QED
    BY <1>1, <2>2, <2>3
<1>6. Cardinality(base \cup Having(f, Spawned)) \in Nat
  <2>1. base \cup Having(f, Spawned) \subseteq Programs
    BY DEF Having
  <2> QED
    BY <2>1, ProgramSets
<1> QED
  BY <1>1, <1>2, <1>3, <1>4, <1>5, <1>6

LEMMA BeginKeepsCounts ==
  ASSUME StartupInv, Begin, failsafe, Books'
  PROVE  Counts'
<1>1. PICK f \in Launches(pending) :
        /\ starting' = Having(f, Spawned)
        /\ mgr' = AfterLaunch(f, TRUE)
        /\ failsafePending' = Count(f, failsafePending)
        /\ silent' = Having(f, Spawned)
        /\ outsiders' = outsiders
  BY DEF Begin
<1>2. /\ TypeOK /\ pending \in SUBSET Programs
      /\ failsafePending = 0 /\ failsafePending \in Int
      /\ silent = {} /\ silent \in SUBSET Programs
      /\ outsiders \in Nat
  BY StartupAssumption DEF StartupInv, Books, TypeOK, NothingLoaded, Begin
<1>3. DOMAIN f \subseteq Programs
  BY <1>2, LaunchFacts
<1>4. /\ failsafePending' \in Int
      /\ DOMAIN f # {} => failsafePending' >= failsafePending + 1
      /\ Cardinality(silent \cup Having(f, Spawned)) - Cardinality(silent)
           <= failsafePending' - failsafePending
  BY <1>1, <1>2, <1>3, LaunchCounted
<1>5. Cardinality(silent) = 0
  BY <1>2, FS_EmptySet
<1>6. silent' = silent \cup Having(f, Spawned)
  BY <1>1, <1>2
<1>7. Cardinality(silent') \in Nat
  BY ProgramSets DEF Books, TypeOK
<1>8. Cardinality(silent') - Cardinality(silent)
        <= failsafePending' - failsafePending
  BY <1>4, <1>6
<1>9. mgr' = "STARTUP" => DOMAIN f # {}
  BY <1>1 DEF AfterLaunch, Having
<1>10. CounterIsPositive'
  BY <1>2, <1>4, <1>9 DEF CounterIsPositive
<1>11. CounterCovers'
  BY <1>1, <1>2, <1>4, <1>5, <1>7, <1>8 DEF CounterCovers
<1>12. FewMissed'
  <2>1. Missed' = {}
    BY <1>1 DEF Missed
  <2>2. Cardinality(Missed') = 0
    BY <2>1, FS_EmptySet
  <2> QED
    BY <1>1, <1>2, <2>2 DEF FewMissed
<1> QED
  BY <1>10, <1>11, <1>12 DEF Counts

LEMMA FailureKeepsCounts ==
  ASSUME StartupInv, failsafe, NEW p \in timers, NEW exited, Serving,
         HandleFailedStartup(p, exited), Books'
  PROVE  Counts'
<1>1. /\ TypeOK /\ pending \in SUBSET Programs /\ p \in Programs
      /\ silent \in SUBSET Programs /\ failsafePending \in Int
      /\ outsiders \in Nat
      /\ hint[p] = "IfRunning"
  BY StartupAssumption DEF StartupInv, Books, TypeOK, FailsafeIsPlain
<1>2. FailureOutcomes(p) = {"freed"}
  BY <1>1 DEF FailureOutcomes
<1> DEFINE left == starting \ {p}
<1>3. PICK f \in Follow(left, pending) :
        /\ pending' = pending \ DOMAIN f
        /\ starting' = left \cup Having(f, Spawned)
        /\ Settle(With(f, p, "freed"), {p})
        /\ mgr' = AfterLaunch(f, Due(left, pending))
        /\ failsafePending' = Count(f, failsafePending)
        /\ silent' = (silent \ exited)
                       \cup Having(With(f, p, "freed"), Spawned)
        /\ outsiders' = outsiders
  BY <1>2 DEF HandleFailedStartup
<1>4. DOMAIN f \subseteq pending
  BY <1>1, FollowFacts
<1>5. p \notin DOMAIN f
  BY <1>4 DEF StartupInv, Books, StartersAreTimed
<1>6. /\ Having(With(f, p, "freed"), Spawned) = Having(f, Spawned)
      /\ p \in failed' /\ failed \subseteq failed'
  <2>1. Having(With(f, p, "freed"), Spawned)
          = Having(f, Spawned) \cup (IF "freed" \in Spawned THEN {p} ELSE {})
    BY <1>5, WithFacts
  <2>2. Having(With(f, p, "freed"), Outcomes \ {"started"})
          = Having(f, Outcomes \ {"started"})
              \cup (IF "freed" \in Outcomes \ {"started"} THEN {p} ELSE {})
    BY <1>5, WithFacts
  <2> QED
    BY <1>3, <2>1, <2>2 DEF Settle, Spawned, Outcomes
<1>7. Missed' \subseteq Missed
  BY <1>3, <1>6 DEF Missed
<1>8. FewMissed'
  <2>1. Missed \in SUBSET Programs /\ Missed' \in SUBSET Programs
    BY <1>1, <1>7 DEF Missed
  <2>2. /\ Cardinality(Missed') <= Cardinality(Missed)
        /\ Cardinality(Missed) \in Nat /\ Cardinality(Missed') \in Nat
    BY <1>7, <2>1, ProgramSets
  <2> QED
    BY <1>1, <1>3, <2>2 DEF StartupInv, Counts, FewMissed
<1>9. mgr' = "STARTUP" => mgr = "STARTUP"
  BY <1>3 DEF AfterLaunch, Due, Serving
<1> DEFINE base == silent \ exited
<1>10. /\ failsafePending' \in Int
       /\ failsafePending' >= failsafePending
       /\ Cardinality(base \cup Having(f, Spawned)) - Cardinality(base)
            <= failsafePending' - failsafePending
  BY <1>1, <1>3, <1>4, LaunchCounted
<1>11. /\ Cardinality(base) <= Cardinality(silent)
       /\ Cardinality(base) \in Nat /\ Cardinality(silent) \in Nat
  BY <1>1, ProgramSets
<1>12. silent' = base \cup Having(f, Spawned)
  BY <1>3, <1>6
<1>13. Cardinality(silent') \in Nat
  BY ProgramSets DEF Books, TypeOK
<1>14. Cardinality(silent') - Cardinality(base)
         <= failsafePending' - failsafePending
  BY <1>10, <1>12
<1> HIDE DEF base
<1>15. CounterCovers' /\ CounterIsPositive'
  BY <1>1, <1>3, <1>9, <1>10, <1>11, <1>13, <1>14
     DEF StartupInv, Counts, CounterCovers, CounterIsPositive
<1> QED
  BY <1>8, <1>15 DEF Counts

LEMMA RegisterKeepsCounts ==
  ASSUME StartupInv, failsafe, NEW who \in SUBSET silent, RegisterNew(who),
         Books',
         \/ (\E p \in silent : who = {p}) /\ outsiders' = outsiders
         \/ who = {} /\ outsiders' = outsiders + 1
  PROVE  Counts'
<1>1. /\ TypeOK /\ pending \in SUBSET Programs
      /\ silent \in SUBSET Programs /\ failsafePending \in Int
      /\ outsiders \in Nat
  BY StartupAssumption DEF StartupInv, Books, TypeOK
<1> DEFINE base == silent \ who
           count == failsafePending - 1
           left == IF count = 0 THEN {} ELSE starting
<1>2. /\ Cardinality(base) \in Nat /\ Cardinality(silent) \in Nat
      /\ Cardinality(base) + outsiders + 1
           = Cardinality(silent) + outsiders'
      /\ outsiders' \in Nat /\ outsiders' >= outsiders
  <2>1. base \in SUBSET Programs
    BY <1>1
  <2>2. Cardinality(base) \in Nat /\ Cardinality(silent) \in Nat
    BY <1>1, <2>1, ProgramSets
  <2>3. CASE \E p \in silent : who = {p} /\ outsiders' = outsiders
    <3>1. PICK p \in silent : who = {p} /\ outsiders' = outsiders
      BY <2>3
    <3>2. Cardinality(silent \ {p}) = Cardinality(silent) - 1
      BY <1>1, ProgramSets
    <3>3. Cardinality(base) = Cardinality(silent) - 1
      BY <3>1, <3>2
    <3> QED
      BY <1>1, <2>2, <3>1, <3>3
  <2>4. CASE who = {} /\ outsiders' = outsiders + 1
    <3>1. base = silent
      BY <2>4
    <3>2. Cardinality(base) = Cardinality(silent)
      BY <3>1
    <3> QED
      BY <1>1, <2>2, <2>4, <3>2
  <2> QED
    BY <2>3, <2>4
<1>3. CASE mgr # "STARTUP"
  <2>1. /\ mgr' = mgr /\ starting' = starting /\ failed' = failed
        /\ silent' = base
    BY <1>3 DEF RegisterNew, ownerVars
  <2>2. Missed' \subseteq Missed
    BY <2>1 DEF Missed
  <2>3. Missed \in SUBSET Programs /\ Missed' \in SUBSET Programs
    BY <1>1, <2>2 DEF Missed
  <2>4. /\ Cardinality(Missed') <= Cardinality(Missed)
        /\ Cardinality(Missed) \in Nat /\ Cardinality(Missed') \in Nat
    BY <2>2, <2>3, ProgramSets
  <2>5. FewMissed'
    BY <1>1, <1>2, <2>4 DEF StartupInv, Counts, FewMissed
  <2> QED
    BY <1>3, <2>1, <2>5 DEF Counts, CounterIsPositive, CounterCovers
<1>4. CASE mgr = "STARTUP"
  <2>1. PICK f \in Follow(left, pending) :
          /\ starting' = left \cup Having(f, Spawned)
          /\ Settle(f, {})
          /\ mgr' = AfterLaunch(f, Due(left, pending))
          /\ failsafePending' = Count(f, count)
          /\ silent' = base \cup Having(f, Spawned)
    BY <1>4 DEF RegisterNew
  <2>2. /\ DOMAIN f \subseteq Programs
        /\ ~Due(left, pending) => DOMAIN f = {}
    BY <1>1, FollowFacts
  <2>3. failsafePending >= 1
        /\ Cardinality(silent) <= failsafePending + outsiders
    BY <1>4 DEF StartupInv, Counts, CounterIsPositive, CounterCovers
  <2>4. count \in Int /\ base \in SUBSET Programs
    BY <1>1
  <2>5. Cardinality(base) <= count + outsiders'
    BY <1>1, <1>2, <2>3
  <2>6. /\ failsafePending' \in Int
        /\ failsafePending' >= count
        /\ DOMAIN f # {} => failsafePending' >= count + 1
        /\ Cardinality(base \cup Having(f, Spawned)) - Cardinality(base)
             <= failsafePending' - count
    BY <1>1, <2>1, <2>2, <2>4, LaunchCounted
  <2>7. Cardinality(silent') \in Nat
    BY ProgramSets DEF Books, TypeOK
  <2>8. Cardinality(silent') - Cardinality(base) <= failsafePending' - count
    BY <2>1, <2>6
  <2>9. count = 0 => Missed' \subseteq base
    BY <2>1 DEF Missed
  <2>10. count # 0 => Missed' \subseteq Missed
    BY <2>1 DEF Missed, Settle
  <2>11. FewMissed'
    <3>1. /\ Missed \in SUBSET Programs /\ Missed' \in SUBSET Programs
          /\ base \in SUBSET Programs
      BY <1>1, <2>4 DEF Missed, Books, TypeOK
    <3>2. /\ Cardinality(Missed) \in Nat /\ Cardinality(Missed') \in Nat
          /\ Missed' \subseteq Missed =>
               Cardinality(Missed') <= Cardinality(Missed)
          /\ Missed' \subseteq base =>
               Cardinality(Missed') <= Cardinality(base)
      BY <3>1, ProgramSets
    <3>3. Cardinality(Missed) <= outsiders
      BY DEF StartupInv, Counts, FewMissed
    <3> HIDE DEF base
    <3> QED
      BY <1>1, <1>2, <2>4, <2>5, <2>9, <2>10, <3>2, <3>3 DEF FewMissed
  <2>12. mgr' = "STARTUP" => count # 0 \/ DOMAIN f # {}
    BY <2>1, <1>4 DEF AfterLaunch, Due, Having
  <2> HIDE DEF base
  <2>13. CounterIsPositive'
    BY <1>1, <2>3, <2>6, <2>12 DEF CounterIsPositive
  <2>14. CounterCovers'
    BY <1>1, <1>2, <2>4, <2>5, <2>6, <2>7, <2>8 DEF CounterCovers
  <2> QED
    BY <2>11, <2>13, <2>14 DEF Counts
<1> QED
  BY <1>3, <1>4

\* A step that leaves alone what the numbers are about.
LEMMA SameCounts ==
  ASSUME StartupInv, mgr' = mgr \/ mgr' = "UNDEFINED", Books',
         UNCHANGED <<failsafe, starting, failsafePending, failed, outsiders>>,
         silent' \subseteq silent
  PROVE  Counts'
<1>1. /\ silent \in SUBSET Programs /\ failsafePending \in Int
      /\ outsiders \in Nat
  BY StartupAssumption DEF StartupInv, Books, TypeOK
<1>2. /\ Missed' \subseteq Missed
      /\ Missed \in SUBSET Programs /\ Missed' \in SUBSET Programs
      /\ silent' \in SUBSET Programs
  BY <1>1 DEF Missed
<1>3. /\ Cardinality(Missed') <= Cardinality(Missed)
      /\ Cardinality(Missed) \in Nat /\ Cardinality(Missed') \in Nat
      /\ Cardinality(silent') <= Cardinality(silent)
      /\ Cardinality(silent) \in Nat /\ Cardinality(silent') \in Nat
  BY <1>1, <1>2, ProgramSets
<1> QED
  BY <1>1, <1>3
     DEF StartupInv, Counts, CounterIsPositive, CounterCovers, FewMissed

LEMMA StepKeepsCounts ==
  ASSUME StartupInv, [Next]_vars, Books'
  PROVE  Counts'
<1>1. failsafe' = failsafe
  <2>1. CASE Begin \/ OutsiderRegisters \/ RegisterWithId \/ UNCHANGED vars
    BY <2>1 DEF Begin, OutsiderRegisters, RegisterNew, RegisterWithId, vars
  <2>2. ASSUME NEW p \in Programs, ProgramStep(p)
        PROVE  failsafe' = failsafe
    <3>1. CASE StartupTimeout(p) \/ ChildExited(p)
      BY <3>1 DEF StartupTimeout, ChildExited, HandleFailedStartup
    <3>2. CASE Reregister(p) \/ ProgramRegisters(p) \/ ClientLeft(p)
      BY <3>2 DEF Reregister, ProgramRegisters, RegisterNew, ClientLeft
    <3>3. CASE ResetRestartAttempts(p) \/ \E h \in Hints : SetProperties(p, h)
      BY <3>3 DEF ResetRestartAttempts, SetProperties
    <3> QED
      BY <2>2, <3>1, <3>2, <3>3 DEF ProgramStep
  <2> QED
    BY <2>1, <2>2 DEF Next
<1>2. CASE ~failsafe
  BY <1>1, <1>2, SavedCounts
<1>3. CASE failsafe
  <2>1. CASE Begin
    BY <1>3, <2>1, BeginKeepsCounts
  <2>2. ASSUME NEW p \in Programs, ProgramStep(p)
        PROVE  Counts'
    <3>1. CASE StartupTimeout(p)
      BY <1>3, <3>1, FailureKeepsCounts DEF StartupTimeout
    <3>2. CASE ChildExited(p)
      <4>1. p \in timers /\ Serving
        BY <3>2 DEF ChildExited, StartupInv, Books, StartersAreTimed
      <4>2. CASE p \in starting
        BY <1>3, <3>2, <4>1, <4>2, FailureKeepsCounts DEF ChildExited
      <4>3. CASE p \notin starting
        BY <3>2, <4>3, SameCounts DEF ChildExited, ownerVars
      <4> QED
        BY <4>2, <4>3
    <3>3. CASE ProgramRegisters(p)
      BY <1>3, <3>3, RegisterKeepsCounts DEF ProgramRegisters
    <3>4. ~Reregister(p) /\ ~ClientLeft(p)
      BY <1>3 DEF Reregister, ClientLeft, StartupInv, Books, FailsafeIsPlain
    <3>5. CASE ResetRestartAttempts(p)
      BY <3>5, SameCounts DEF ResetRestartAttempts, ownerVars
    <3>6. ASSUME NEW h \in Hints, SetProperties(p, h)
          PROVE  Counts'
      BY <3>6, SameCounts DEF SetProperties, ownerVars
    <3> QED
      BY <2>2, <3>1, <3>2, <3>3, <3>4, <3>5, <3>6 DEF ProgramStep
  <2>3. CASE OutsiderRegisters
    BY <1>3, <2>3, RegisterKeepsCounts DEF OutsiderRegisters
  <2>4. CASE RegisterWithId
    BY <2>4, SameCounts DEF RegisterWithId, ownerVars
  <2>5. CASE UNCHANGED vars
    BY <2>5, SameCounts DEF vars, ownerVars
  <2> QED
    BY <2>1, <2>2, <2>3, <2>4, <2>5 DEF Next
<1> QED
  BY <1>2, <1>3

-----------------------------------------------------------------------------
(* The order of the groups.                                                *)

\* Programs a launch starts leave behind only programs that were missed.
LEMMA LaunchInOrder ==
  ASSUME NEW f, NEW left,
         f \in [DOMAIN f -> Outcomes],
         \A p \in Having(f, {"started"}) : \A q \in DOMAIN f :
           Prio[q] <= Prio[p],
         StartupAssumption, DOMAIN f \subseteq Programs,
         left \cap pending = {},
         left = {} \/ DOMAIN f = {},
         starting' = left \cup Having(f, Spawned),
         Having(f, Outcomes \ {"started"}) \subseteq failed'
  PROVE  \A p \in pending \cap starting' :
           {q \in silent' \ failed' : Prio[q] < Prio[p]} \subseteq Missed'
<1> SUFFICES ASSUME NEW p \in pending \cap starting',
                    NEW q \in silent' \ failed', Prio[q] < Prio[p],
                    q \in starting'
             PROVE  FALSE
  BY DEF Missed
<1>1. p \in DOMAIN f /\ left = {}
  BY DEF Having
<1>2. q \in DOMAIN f /\ f[q] = "started"
  BY <1>1 DEF Having
<1>3. Prio[p] <= Prio[q]
  BY <1>1, <1>2 DEF Having
<1> QED
  BY <1>1, <1>2, <1>3 DEF StartupAssumption

LEMMA StepInOrder ==
  ASSUME StartupInv, StartupInv', [Next]_vars
  PROVE  \A p \in pending \cap starting' :
           Cardinality({q \in silent' \ failed' : Prio[q] < Prio[p]})
             <= outsiders'
<1>1. /\ pending \in SUBSET Programs
      /\ silent' \in SUBSET Programs
      /\ pending \cap (starting \cup clients \cup timers) = {}
      /\ outsiders' \in Nat
  BY StartupAssumption
     DEF StartupInv, Books, TypeOK, PropertiesHaveOneOwner, StartersAreTimed
<1> SUFFICES ASSUME NEW p \in pending \cap starting'
             PROVE  {q \in silent' \ failed' : Prio[q] < Prio[p]}
                      \subseteq Missed'
  <2>1. Missed' \in SUBSET Programs
    BY <1>1 DEF Missed
  <2> DEFINE Early(p) == {q \in silent' \ failed' : Prio[q] < Prio[p]}
  <2>2. ASSUME NEW p \in pending \cap starting', Early(p) \subseteq Missed'
        PROVE  Cardinality(Early(p)) <= outsiders'
    <3>1. Early(p) \in SUBSET Programs
      BY <1>1
    <3>2. /\ Cardinality(Early(p)) <= Cardinality(Missed')
          /\ Cardinality(Early(p)) \in Nat /\ Cardinality(Missed') \in Nat
      BY <2>1, <2>2, <3>1, ProgramSets
    <3> QED
      BY <1>1, <3>2 DEF StartupInv, Counts, FewMissed
  <2> QED
    BY <2>2
<1>2. p \in starting' /\ p \notin starting /\ p \notin clients
  BY <1>1
<1>3. CASE Begin
  <2>1. PICK f \in Launches(pending) :
          starting' = Having(f, Spawned) /\ Settle(f, {})
    BY <1>3 DEF Begin
  <2>2. Having(f, Outcomes \ {"started"}) \subseteq failed'
    BY <2>1 DEF Settle
  <2>3. /\ DOMAIN f \subseteq Programs
        /\ f \in [DOMAIN f -> Outcomes]
        /\ \A a \in Having(f, {"started"}) : \A b \in DOMAIN f :
             Prio[b] <= Prio[a]
    BY <1>1, LaunchFacts
  <2> DEFINE left == {}
  <2>4. left \cap pending = {} /\ starting' = left \cup Having(f, Spawned)
    BY <2>1
  <2>5. left = {} \/ DOMAIN f = {}
    OBVIOUS
  <2> HIDE DEF left
  <2> QED
    BY <2>2, <2>3, <2>4, <2>5, LaunchInOrder, StartupAssumption
<1>4. ASSUME NEW r \in Programs, NEW exited, r \in timers,
             HandleFailedStartup(r, exited)
      PROVE  {q \in silent' \ failed' : Prio[q] < Prio[p]} \subseteq Missed'
  <2>1. PICK o \in FailureOutcomes(r) :
          LET left == IF o = "restarted" THEN starting \cup {r}
                                         ELSE starting \ {r}
          IN \E f \in Follow(left, pending) :
               /\ starting' = left \cup Having(f, Spawned)
               /\ Settle(With(f, r, o), {r})
    BY <1>4 DEF HandleFailedStartup
  <2> DEFINE left == IF o = "restarted" THEN starting \cup {r}
                                        ELSE starting \ {r}
  <2>2. PICK f \in Follow(left, pending) :
          /\ starting' = left \cup Having(f, Spawned)
          /\ Settle(With(f, r, o), {r})
    BY <2>1
  <2>3. left \cap pending = {}
    BY <1>1, <1>4
  <2> HIDE DEF left
  <2>4. /\ DOMAIN f \subseteq pending
        /\ f \in [DOMAIN f -> Outcomes]
        /\ \A a \in Having(f, {"started"}) : \A b \in DOMAIN f :
             Prio[b] <= Prio[a]
        /\ left = {} \/ DOMAIN f = {}
    BY <1>1, FollowFacts DEF Due
  <2>5. Having(f, Outcomes \ {"started"}) \subseteq failed'
    <3>1. r \notin DOMAIN f
      BY <1>1, <1>4, <2>4
    <3>2. Having(f, Outcomes \ {"started"})
            \subseteq Having(With(f, r, o), Outcomes \ {"started"})
      BY <3>1, WithFacts
    <3> QED
      BY <2>2, <3>2 DEF Settle
  <2> QED
    BY <1>1, <2>2, <2>3, <2>4, <2>5, LaunchInOrder, StartupAssumption
<1>5. ASSUME NEW who, RegisterNew(who)
      PROVE  {q \in silent' \ failed' : Prio[q] < Prio[p]} \subseteq Missed'
  <2>1. CASE ~(failsafe /\ mgr = "STARTUP")
    BY <1>2, <1>5, <2>1 DEF RegisterNew, ownerVars
  <2>2. CASE failsafe /\ mgr = "STARTUP"
    <3> DEFINE left == IF failsafePending - 1 = 0 THEN {} ELSE starting
    <3>1. PICK f \in Follow(left, pending) :
            /\ starting' = left \cup Having(f, Spawned)
            /\ Settle(f, {})
      BY <1>5, <2>2 DEF RegisterNew
    <3>2. left \cap pending = {}
      BY <1>1
    <3> HIDE DEF left
    <3>3. /\ DOMAIN f \subseteq Programs
          /\ f \in [DOMAIN f -> Outcomes]
          /\ \A a \in Having(f, {"started"}) : \A b \in DOMAIN f :
               Prio[b] <= Prio[a]
          /\ left = {} \/ DOMAIN f = {}
      BY <1>1, FollowFacts DEF Due
    <3>4. Having(f, Outcomes \ {"started"}) \subseteq failed'
      BY <3>1 DEF Settle
    <3> QED
      BY <3>1, <3>2, <3>3, <3>4, LaunchInOrder, StartupAssumption
  <2> QED
    BY <2>1, <2>2
<1>6. ASSUME NEW r \in Programs, ProgramStep(r)
      PROVE  {q \in silent' \ failed' : Prio[q] < Prio[p]} \subseteq Missed'
  <2>1. CASE StartupTimeout(r)
    BY <1>4, <2>1 DEF StartupTimeout
  <2>2. CASE ChildExited(r)
    <3>1. r \in timers
      BY <2>2 DEF ChildExited, StartupInv, Books, StartersAreTimed
    <3> QED
      BY <1>2, <1>4, <2>2, <3>1 DEF ChildExited, ownerVars
  <2>3. CASE Reregister(r)
    <3> DEFINE left == starting \ {r}
    <3>1. PICK f \in Follow(left, Take(r)) :
            /\ starting' = left \cup Having(f, Spawned)
            /\ Settle(f, {r})
      BY <2>3 DEF Reregister
    <3>2. Take(r) \in SUBSET Programs /\ left \cap pending = {}
      BY <1>1 DEF Take
    <3> HIDE DEF left
    <3>3. /\ DOMAIN f \subseteq Programs
          /\ f \in [DOMAIN f -> Outcomes]
          /\ \A a \in Having(f, {"started"}) : \A b \in DOMAIN f :
               Prio[b] <= Prio[a]
          /\ left = {} \/ DOMAIN f = {}
      BY <3>2, FollowFacts DEF Due
    <3>4. Having(f, Outcomes \ {"started"}) \subseteq failed'
      BY <3>1 DEF Settle
    <3> QED
      BY <3>1, <3>2, <3>3, <3>4, LaunchInOrder, StartupAssumption
  <2>4. CASE ProgramRegisters(r)
    BY <1>5, <2>4 DEF ProgramRegisters
  <2>5. CASE ClientLeft(r)
    BY <1>1, <1>2, <2>5 DEF ClientLeft
  <2>6. CASE ResetRestartAttempts(r) \/ \E h \in Hints : SetProperties(r, h)
    BY <1>2, <2>6 DEF ResetRestartAttempts, SetProperties, ownerVars
  <2> QED
    BY <1>6, <2>1, <2>2, <2>3, <2>4, <2>5, <2>6 DEF ProgramStep
<1>7. CASE OutsiderRegisters
  BY <1>5, <1>7 DEF OutsiderRegisters
<1>8. CASE RegisterWithId \/ UNCHANGED vars
  BY <1>2, <1>8 DEF RegisterWithId, vars, ownerVars
<1> QED
  BY <1>3, <1>6, <1>7, <1>8 DEF Next

-----------------------------------------------------------------------------
(* The theorems.                                                           *)

LEMMA InitEstablishes == Init => StartupInv
<1> SUFFICES ASSUME Init
             PROVE  StartupInv
  OBVIOUS
<1>1. TypeOK
  BY StartupAssumption DEF Init, TypeOK
<1>2. Missed = {}
  BY DEF Init, Missed
<1>3. FewMissed
  BY <1>2, FS_EmptySet, StartupAssumption DEF Init, FewMissed
<1> QED
  BY <1>1, <1>3, StartupAssumption
     DEF Init, StartupInv, Books, Counts, PropertiesHaveOneOwner,
         StartersAreTimed, NeverStranded, CounterIsPositive, AttemptsLeft,
         NothingLoaded, FailsafeIsPlain, AwaitedAreStarting, CounterCovers

\* The invariant of the start-up: every dispatch of the main loop keeps it.
THEOREM StartupHolds == Spec => []StartupInv
<1>1. StartupInv /\ [Next]_vars => StartupInv'
  BY StepKeepsBooks, StepKeepsCounts DEF StartupInv
<1> QED
  BY InitEstablishes, <1>1, PTL DEF Spec

\* Every variable keeps its type; nobody is restarted more often than
\* MAX_RESTART_ATTEMPTS.
THEOREM StartupTyped == Spec => []TypeOK
<1>1. StartupInv => TypeOK
  BY DEF StartupInv, Books
<1> QED
  BY StartupHolds, <1>1, PTL

\* The queues of xfsm-manager.c and the clients never share properties.
THEOREM StartupOwnership == Spec => []PropertiesHaveOneOwner
<1>1. StartupInv => PropertiesHaveOneOwner
  BY DEF StartupInv, Books
<1> QED
  BY StartupHolds, <1>1, PTL

\* Every start-up timeout belongs to properties that are still starting, or,
\* in the failsafe session, to nobody else.
THEOREM StartupTimers == Spec => []StartersAreTimed
<1>1. StartupInv => StartersAreTimed
  BY DEF StartupInv, Books
<1> QED
  BY StartupHolds, <1>1, PTL

\* While the manager is starting up, there is a program whose end of waiting
\* will continue the start-up.
THEOREM StartupNotStranded == Spec => []NeverStranded
<1>1. StartupInv => NeverStranded
  BY DEF StartupInv, Books
<1> QED
  BY StartupHolds, <1>1, PTL

\* The failsafe counter stays above zero until the group is over.
THEOREM StartupCounter == Spec => []CounterIsPositive
<1>1. StartupInv => CounterIsPositive
  BY DEF StartupInv, Counts
<1> QED
  BY StartupHolds, <1>1, PTL

\* The priority groups are started in order, up to one program for every
\* outsider that was counted.
THEOREM StartupOrder == Spec => GroupsInOrder
<1>1. StartupInv /\ StartupInv' /\ [Next]_vars =>
        [\A p \in pending \cap starting' :
           Cardinality({q \in silent' \ failed' : Prio[q] < Prio[p]})
             <= outsiders']_vars
  BY StepInOrder
<1> QED
  BY StartupHolds, <1>1, PTL DEF Spec, GroupsInOrder
-----------------------------------------------------------------------------
(* The hand-over.                                                          *)

\* What the manager has besides, so that the end of the start-up leaves only
\* what SessionManager starts from: properties are kept for the next session
\* only if their hint asks for it, whoever was restarted has its attempts
\* forgiven later, and what is starting when the manager is idle are restarts.
Remains ==
  /\ \A p \in parked : hint[p] \in {"Anyway", "Immediately"}
  /\ resetTimer = {p \in clients : attempts[p] > 0}
  /\ mgr = "IDLE" =>
       /\ pending = {}
       /\ \A p \in starting : hint[p] = "Immediately" /\ attempts[p] >= 1

\* Properties that are kept, or started again, have the hint for it.
LEMMA KeptFacts ==
  ASSUME NEW p, NEW o \in FailureOutcomes(p)
  PROVE  /\ o = "parked" => hint[p] \in {"Anyway", "Immediately"}
         /\ o = "restarted" => hint[p] = "Immediately"
BY DEF FailureOutcomes

\* A launch that starts nothing has tried the whole queue.
LEMMA LaunchedAll ==
  ASSUME NEW queue \in SUBSET Programs, NEW f \in Launches(queue),
         Having(f, {"started"}) = {}
  PROVE  DOMAIN f = queue
<1> DEFINE UpTo(p) == {q \in queue : Prio[q] <= Prio[p]}
           Fate(g, last) ==
             /\ \A p \in UpTo(last) :
                  /\ g[p] \in {"started"} \cup FailureOutcomes(p)
                  /\ g[p] = "started" => Prio[p] = Prio[last]
             /\ UpTo(last) = queue \/ \E p \in UpTo(last) : g[p] = "started"
<1>1. CASE queue = {}
  BY <1>1 DEF Launches, None
<1>2. CASE queue # {}
  <2>1. PICK last \in queue : f \in [UpTo(last) -> Outcomes] /\ Fate(f, last)
    <3>1. f \in UNION {{g \in [UpTo(l) -> Outcomes] : Fate(g, l)} : l \in queue}
      BY <1>2 DEF Launches
    <3> HIDE DEF UpTo, Fate
    <3> QED
      BY <3>1
  <2>2. DOMAIN f = UpTo(last)
    BY <2>1
  <2>3. ~\E p \in UpTo(last) : f[p] = "started"
    BY <2>2 DEF Having
  <2> QED
    BY <2>1, <2>2, <2>3
<1> QED
  BY <1>1, <1>2

\* A handler that goes on with the queue keeps what remains in order, if the
\* programs of the queue and those that are still starting are not with a
\* client, and what it leaves in the queue when the manager is idle was
\* restarted.
LEMMA FollowRemains ==
  ASSUME StartupInv, Remains,
         NEW queue \in SUBSET pending, NEW left \in SUBSET Programs,
         NEW f, NEW due \in BOOLEAN,
         IF due THEN f \in Launches(queue) /\ left = {} ELSE f = None,
         NEW old \in SUBSET Programs,
         pending' = queue \ DOMAIN f,
         starting' = left \cup Having(f, Spawned),
         mgr' = AfterLaunch(f, due),
         UNCHANGED hint,
         parked' = old \cup Having(f, {"parked"}),
         \A p \in old : hint[p] \in {"Anyway", "Immediately"},
         \A p \in DOMAIN f : attempts'[p] =
            IF p \in Having(f, {"restarted", "parked"}) /\ hint[p] = "Immediately"
            THEN attempts[p] + 1 ELSE attempts[p],
         ~due /\ mgr = "IDLE" =>
            \A p \in left : hint[p] = "Immediately" /\ attempts'[p] >= 1,
         resetTimer' = {p \in clients' : attempts'[p] > 0}
  PROVE  Remains'
<1>0. queue \in SUBSET Programs /\ pending \in SUBSET Programs
      /\ \A p \in Programs : attempts[p] \in Nat
  BY StartupAssumption DEF StartupInv, Books, TypeOK
<1>1. /\ DOMAIN f \subseteq queue
      /\ \A p \in DOMAIN f : f[p] \in {"started"} \cup FailureOutcomes(p)
  <2>1. CASE due
    BY <1>0, <2>1, LaunchFacts
  <2>2. CASE ~due
    BY <2>2 DEF None
  <2> QED
    BY <2>1, <2>2
<1>2. \A p \in parked' : hint'[p] \in {"Anyway", "Immediately"}
  BY <1>1, KeptFacts DEF Having
<1>3. ASSUME mgr' = "IDLE"
      PROVE  /\ pending' = {}
             /\ \A p \in starting' : hint'[p] = "Immediately" /\ attempts'[p] >= 1
  <2>1. CASE due
    <3>1. Having(f, {"started"}) = {}
      BY <1>3, <2>1 DEF AfterLaunch
    <3>2. DOMAIN f = queue
      BY <1>0, <2>1, <3>1, LaunchedAll
    <3>3. \A p \in Having(f, Spawned) :
            p \in Having(f, {"restarted", "parked"}) /\ f[p] = "restarted"
      BY <3>1 DEF Having, Spawned
    <3>4. \A p \in Having(f, Spawned) :
            hint[p] = "Immediately" /\ attempts'[p] = attempts[p] + 1
      BY <1>1, <3>3, KeptFacts DEF Having
    <3> QED
      BY <1>0, <1>1, <2>1, <3>2, <3>4 DEF Having
  <2>2. CASE ~due
    <3>1. mgr = "IDLE" /\ Having(f, Spawned) = {} /\ queue = {}
      BY <1>3, <2>2 DEF AfterLaunch, Remains, Having, None
    <3> QED
      BY <2>2, <3>1
  <2> QED
    BY <2>1, <2>2
<1> QED
  BY <1>2, <1>3 DEF Remains

LEMMA BeginRemains ==
  ASSUME StartupInv, Remains, Begin
  PROVE  Remains'
<1>1. PICK f \in Launches(pending) :
        /\ pending' = pending \ DOMAIN f
        /\ starting' = Having(f, Spawned)
        /\ Settle(f, {})
        /\ mgr' = AfterLaunch(f, TRUE)
  BY DEF Begin
<1>2. UNCHANGED <<hint, clients, resetTimer>>
  BY DEF Begin
<1>3. pending \in SUBSET Programs /\ pending \in SUBSET pending
      /\ parked \in SUBSET Programs
      /\ clients \in SUBSET Programs /\ pending \cap clients = {}
  BY DEF StartupInv, Books, TypeOK, PropertiesHaveOneOwner
<1>4. DOMAIN f \subseteq pending
  BY <1>3, LaunchFacts
<1>5. /\ parked' = parked \cup Having(f, {"parked"})
      /\ attempts' = [p \in Programs |->
           IF p \in Having(f, {"restarted", "parked"}) /\ hint[p] = "Immediately"
           THEN attempts[p] + 1 ELSE attempts[p]]
  BY <1>1 DEF Settle
<1>6. resetTimer' = {p \in clients' : attempts'[p] > 0}
  <2>1. \A p \in clients : attempts'[p] = attempts[p]
    BY <1>3, <1>4, <1>5 DEF Having
  <2> QED
    BY <1>2, <2>1 DEF Remains
<1>7. \A p \in DOMAIN f : attempts'[p] =
        IF p \in Having(f, {"restarted", "parked"}) /\ hint[p] = "Immediately"
        THEN attempts[p] + 1 ELSE attempts[p]
  BY <1>3, <1>4, <1>5
<1>8. starting' = {} \cup Having(f, Spawned) /\ {} \in SUBSET Programs
      /\ TRUE \in BOOLEAN /\ UNCHANGED hint
      /\ \A p \in parked : hint[p] \in {"Anyway", "Immediately"}
  BY <1>1, <1>2 DEF Remains
<1> QED
  BY <1>1, <1>3, <1>5, <1>6, <1>7, <1>8, FollowRemains

LEMMA FailureRemains ==
  ASSUME StartupInv, Remains, NEW p \in timers, NEW exited,
         HandleFailedStartup(p, exited)
  PROVE  Remains'
<1>1. PICK o \in FailureOutcomes(p) :
        LET left == IF o = "restarted" THEN starting \cup {p}
                                       ELSE starting \ {p}
        IN \E f \in Follow(left, pending) :
             /\ pending' = pending \ DOMAIN f
             /\ starting' = left \cup Having(f, Spawned)
             /\ Settle(With(f, p, o), {p})
             /\ mgr' = AfterLaunch(f, Due(left, pending))
             /\ resetTimer' = resetTimer \ {p}
             /\ UNCHANGED <<hint, clients>>
  BY DEF HandleFailedStartup
<1> DEFINE left == IF o = "restarted" THEN starting \cup {p}
                                      ELSE starting \ {p}
           due == Due(left, pending)
           old == IF o = "parked" THEN parked \cup {p} ELSE parked
<1>2. PICK f \in Follow(left, pending) :
        /\ pending' = pending \ DOMAIN f
        /\ starting' = left \cup Having(f, Spawned)
        /\ Settle(With(f, p, o), {p})
        /\ mgr' = AfterLaunch(f, due)
        /\ resetTimer' = resetTimer \ {p}
        /\ UNCHANGED <<hint, clients>>
  BY <1>1
<1>3. /\ pending \in SUBSET Programs /\ pending \in SUBSET pending
      /\ p \in Programs /\ left \in SUBSET Programs /\ old \in SUBSET Programs
      /\ clients \in SUBSET Programs /\ attempts[p] \in Nat
      /\ p \notin pending \cup clients
      /\ pending \cap (clients \cup starting) = {}
  BY StartupAssumption
     DEF StartupInv, Books, TypeOK, StartersAreTimed, PropertiesHaveOneOwner
<1>4. /\ DOMAIN f \subseteq pending
      /\ due \in BOOLEAN
      /\ IF due THEN f \in Launches(pending) /\ left = {} ELSE f = None
  BY <1>3, FollowFacts DEF Follow, Due
<1>5. p \notin DOMAIN f
  BY <1>3, <1>4
<1>6. /\ Having(With(f, p, o), {"parked"})
           = Having(f, {"parked"}) \cup (IF o \in {"parked"} THEN {p} ELSE {})
      /\ Having(With(f, p, o), {"restarted", "parked"})
           = Having(f, {"restarted", "parked"})
               \cup (IF o \in {"restarted", "parked"} THEN {p} ELSE {})
  BY <1>5, WithFacts
<1>7. parked' = old \cup Having(f, {"parked"})
  BY <1>2, <1>6 DEF Settle
<1>8. attempts' = [q \in Programs |->
        IF /\ q \in Having(f, {"restarted", "parked"})
                      \cup (IF o \in {"restarted", "parked"} THEN {p} ELSE {})
           /\ hint[q] = "Immediately"
        THEN attempts[q] + 1 ELSE attempts[q]]
  BY <1>2, <1>6 DEF Settle
<1>9. /\ \A q \in DOMAIN f : attempts'[q] =
           IF q \in Having(f, {"restarted", "parked"}) /\ hint[q] = "Immediately"
           THEN attempts[q] + 1 ELSE attempts[q]
      /\ \A q \in Programs \ (DOMAIN f \cup {p}) : attempts'[q] = attempts[q]
      /\ o = "restarted" => attempts'[p] = attempts[p] + 1
  BY <1>3, <1>4, <1>5, <1>8, KeptFacts DEF Having
<1>10. resetTimer' = {q \in clients' : attempts'[q] > 0}
  BY <1>2, <1>3, <1>4, <1>9 DEF Remains
<1>11. \A q \in old : hint[q] \in {"Anyway", "Immediately"}
  BY KeptFacts DEF Remains
<1>12. ~due /\ mgr = "IDLE" =>
         \A q \in left : hint[q] = "Immediately" /\ attempts'[q] >= 1
  <2> SUFFICES ASSUME mgr = "IDLE", NEW q \in left
               PROVE  hint[q] = "Immediately" /\ attempts'[q] >= 1
    OBVIOUS
  <2>1. CASE q = p
    <3>1. o = "restarted"
      BY <2>1
    <3> QED
      BY <1>3, <1>9, <2>1, <3>1, KeptFacts
  <2>2. CASE q # p
    BY <1>3, <1>4, <1>9, <2>2 DEF Remains
  <2> QED
    BY <2>1, <2>2
<1> HIDE DEF left, due, old
<1> QED
  BY <1>2, <1>3, <1>4, <1>7, <1>9, <1>10, <1>11, <1>12, FollowRemains

LEMMA ReregisterRemains ==
  ASSUME StartupInv, Remains, NEW p \in Programs, Reregister(p)
  PROVE  Remains'
<1> DEFINE left == starting \ {p}
           queue == pending \ {p}
           due == Due(left, queue)
<1>1. /\ p \in starting \cup pending
      /\ clients' = clients \cup {p}
      /\ resetTimer' = IF attempts[p] > 0 THEN resetTimer \cup {p}
                                          ELSE resetTimer
      /\ UNCHANGED hint
  BY DEF Reregister
<1>2. Take(p) = queue
  BY <1>1 DEF Take, StartupInv, Books, PropertiesHaveOneOwner
<1>3. PICK f \in Follow(left, queue) :
        /\ pending' = queue \ DOMAIN f
        /\ starting' = left \cup Having(f, Spawned)
        /\ Settle(f, {p})
        /\ mgr' = AfterLaunch(f, due)
  BY <1>2 DEF Reregister
<1>4. /\ queue \in SUBSET pending /\ queue \in SUBSET Programs
      /\ left \in SUBSET Programs /\ parked \in SUBSET Programs
      /\ clients \in SUBSET Programs /\ attempts[p] \in Nat
      /\ pending \cap (clients \cup starting) = {}
  BY StartupAssumption DEF StartupInv, Books, TypeOK, PropertiesHaveOneOwner
<1>5. /\ DOMAIN f \subseteq queue
      /\ due \in BOOLEAN
      /\ IF due THEN f \in Launches(queue) /\ left = {} ELSE f = None
  BY <1>4, FollowFacts DEF Follow, Due
<1>6. /\ parked' = parked \cup Having(f, {"parked"})
      /\ attempts' = [q \in Programs |->
           IF q \in Having(f, {"restarted", "parked"}) /\ hint[q] = "Immediately"
           THEN attempts[q] + 1 ELSE attempts[q]]
  BY <1>3 DEF Settle
<1>7. /\ \A q \in DOMAIN f : attempts'[q] =
           IF q \in Having(f, {"restarted", "parked"}) /\ hint[q] = "Immediately"
           THEN attempts[q] + 1 ELSE attempts[q]
      /\ \A q \in Programs \ DOMAIN f : attempts'[q] = attempts[q]
  BY <1>4, <1>5, <1>6 DEF Having
<1>8. resetTimer' = {q \in clients' : attempts'[q] > 0}
  BY <1>1, <1>4, <1>5, <1>7 DEF Remains
<1>9. \A q \in parked : hint[q] \in {"Anyway", "Immediately"}
  BY DEF Remains
<1>10. ~due /\ mgr = "IDLE" =>
         \A q \in left : hint[q] = "Immediately" /\ attempts'[q] >= 1
  BY <1>4, <1>5, <1>7 DEF Remains
<1> HIDE DEF left, queue, due
<1> QED
  BY <1>1, <1>3, <1>4, <1>5, <1>6, <1>7, <1>8, <1>9, <1>10, FollowRemains

LEMMA RegisterNewRemains ==
  ASSUME StartupInv, Remains, NEW who, RegisterNew(who)
  PROVE  Remains'
<1> DEFINE left == IF failsafePending - 1 = 0 THEN {} ELSE starting
           due == Due(left, pending)
<1>0. UNCHANGED <<hint, resetTimer>>
  BY DEF RegisterNew
<1>1. CASE ~(failsafe /\ mgr = "STARTUP")
  BY <1>0, <1>1 DEF RegisterNew, Remains, ownerVars
<1>2. CASE failsafe /\ mgr = "STARTUP"
  <2>1. PICK f \in Follow(left, pending) :
          /\ pending' = pending \ DOMAIN f
          /\ starting' = left \cup Having(f, Spawned)
          /\ Settle(f, {})
          /\ mgr' = AfterLaunch(f, due)
          /\ UNCHANGED clients
    BY <1>2 DEF RegisterNew
  <2>2. /\ pending \in SUBSET pending /\ pending \in SUBSET Programs
        /\ left \in SUBSET Programs /\ parked \in SUBSET Programs
        /\ clients = {}
    BY <1>2 DEF StartupInv, Books, TypeOK, FailsafeIsPlain
  <2>3. /\ DOMAIN f \subseteq pending
        /\ due \in BOOLEAN
        /\ IF due THEN f \in Launches(pending) /\ left = {} ELSE f = None
    BY <2>2, FollowFacts DEF Follow, Due
  <2>4. /\ parked' = parked \cup Having(f, {"parked"})
        /\ \A q \in DOMAIN f : attempts'[q] =
             IF q \in Having(f, {"restarted", "parked"}) /\ hint[q] = "Immediately"
             THEN attempts[q] + 1 ELSE attempts[q]
    BY <2>1, <2>2, <2>3 DEF Settle
  <2>5. resetTimer' = {q \in clients' : attempts'[q] > 0}
    BY <1>0, <2>1, <2>2 DEF Remains
  <2>6. /\ \A q \in parked : hint[q] \in {"Anyway", "Immediately"}
        /\ UNCHANGED hint /\ mgr # "IDLE"
    BY <1>0, <1>2 DEF Remains
  <2> HIDE DEF left, due
  <2> QED
    BY <2>1, <2>2, <2>3, <2>4, <2>5, <2>6, FollowRemains
<1> QED
  BY <1>1, <1>2

LEMMA ClientLeftRemains ==
  ASSUME StartupInv, Remains, NEW p \in Programs, ClientLeft(p)
  PROVE  Remains'
<1>1. PICK o \in FailureOutcomes(p) :
        /\ starting' = IF o = "restarted" THEN starting \cup {p} ELSE starting
        /\ Settle(With(None, p, o), {p})
  BY DEF ClientLeft
<1>2. /\ p \in clients
      /\ clients' = clients \ {p}
      /\ resetTimer' = resetTimer \ {p}
      /\ UNCHANGED <<mgr, hint, pending>>
  BY DEF ClientLeft
<1>3. /\ parked' = parked \cup (IF o = "parked" THEN {p} ELSE {})
      /\ attempts' = [q \in Programs |->
           IF q = p /\ o # "freed" /\ hint[q] = "Immediately"
           THEN attempts[q] + 1 ELSE attempts[q]]
  <2> DEFINE again == IF o = "restarted" THEN {p} ELSE {}
             kept == IF o = "parked" THEN {p} ELSE {}
  <2>1. Settle(With(None, p, o), {p})
    BY <1>1
  <2>2. /\ parked' = parked \cup kept
        /\ timers' = (timers \ {p}) \cup again
        /\ watched' = (watched \ {p}) \cup again
        /\ attempts' = [q \in Programs |->
             IF q = p /\ o # "freed" /\ hint[q] = "Immediately"
             THEN attempts[q] + 1 ELSE attempts[q]]
        /\ failed' = failed \cup {p}
    BY <2>1, OneSettled
  <2> QED
    BY <2>2
<1>4. clients \in SUBSET Programs /\ starting \in SUBSET Programs
      /\ attempts[p] \in Nat /\ p \notin starting
  BY <1>2, StartupAssumption
     DEF StartupInv, Books, TypeOK, PropertiesHaveOneOwner
<1>5. /\ \A q \in Programs \ {p} : attempts'[q] = attempts[q]
      /\ o = "restarted" => attempts'[p] = attempts[p] + 1
  BY <1>3, KeptFacts
<1>6. \A q \in parked' : hint'[q] \in {"Anyway", "Immediately"}
  BY <1>2, <1>3, KeptFacts DEF Remains
<1>7. resetTimer' = {q \in clients' : attempts'[q] > 0}
  BY <1>2, <1>4, <1>5 DEF Remains
<1>8. mgr' = "IDLE" =>
        /\ pending' = {}
        /\ \A q \in starting' : hint'[q] = "Immediately" /\ attempts'[q] >= 1
  BY <1>1, <1>2, <1>4, <1>5, KeptFacts DEF Remains
<1> QED
  BY <1>6, <1>7, <1>8 DEF Remains

LEMMA StepRemains ==
  ASSUME StartupInv, Remains, [Next]_vars
  PROVE  Remains'
<1>1. CASE Begin
  BY <1>1, BeginRemains
<1>2. ASSUME NEW p \in Programs, ProgramStep(p)
      PROVE  Remains'
  <2>0. /\ starting \subseteq timers /\ watched \subseteq timers
        /\ p \in clients => p \notin starting \cup parked
        /\ clients \subseteq Programs /\ attempts \in [Programs -> Nat]
        /\ hint \in [Programs -> Hints]
    BY StartupAssumption
       DEF StartupInv, Books, TypeOK, StartersAreTimed, PropertiesHaveOneOwner
  <2>1. CASE StartupTimeout(p)
    BY <2>1, FailureRemains DEF StartupTimeout
  <2>2. CASE ChildExited(p)
    <3>1. CASE p \in starting
      BY <2>0, <2>2, <3>1, FailureRemains DEF ChildExited
    <3>2. CASE p \notin starting
      BY <2>2, <3>2 DEF ChildExited, Remains, ownerVars
    <3> QED
      BY <3>1, <3>2
  <2>3. CASE Reregister(p)
    BY <2>3, ReregisterRemains
  <2>4. CASE ProgramRegisters(p)
    BY <2>4, RegisterNewRemains DEF ProgramRegisters
  <2>5. CASE ClientLeft(p)
    BY <2>5, ClientLeftRemains
  <2>6. CASE ResetRestartAttempts(p)
    <3>1. /\ p \in resetTimer /\ resetTimer' = resetTimer \ {p}
          /\ attempts' = [attempts EXCEPT ![p] = 0]
          /\ UNCHANGED <<mgr, hint, pending, starting, parked, clients>>
      BY <2>6 DEF ResetRestartAttempts, ownerVars
    <3>2. p \in clients
      BY <3>1 DEF Remains
    <3>3. attempts'[p] = 0 /\ \A q \in Programs \ {p} : attempts'[q] = attempts[q]
      BY <2>0, <3>1
    <3>4. starting \subseteq Programs \ {p}
      BY <2>0, <3>2 DEF StartupInv, Books, TypeOK
    <3>5. resetTimer' = {q \in clients' : attempts'[q] > 0}
      BY <2>0, <3>1, <3>2, <3>3 DEF Remains
    <3> QED
      BY <3>1, <3>3, <3>4, <3>5 DEF Remains
  <2>7. ASSUME NEW h \in Hints, SetProperties(p, h)
        PROVE  Remains'
    <3>1. /\ p \in clients /\ hint' = [hint EXCEPT ![p] = h]
          /\ UNCHANGED <<mgr, pending, starting, parked, clients, attempts,
                         resetTimer>>
      BY <2>7 DEF SetProperties, ownerVars
    <3>2. \A q \in starting \cup parked : hint'[q] = hint[q]
      BY <2>0, <3>1 DEF StartupInv, Books, TypeOK
    <3> QED
      BY <3>1, <3>2 DEF Remains
  <2> QED
    BY <1>2, <2>1, <2>2, <2>3, <2>4, <2>5, <2>6, <2>7 DEF ProgramStep
<1>3. CASE OutsiderRegisters
  BY <1>3, RegisterNewRemains DEF OutsiderRegisters
<1>4. CASE RegisterWithId \/ UNCHANGED vars
  BY <1>4 DEF RegisterWithId, Remains, vars, ownerVars
<1> QED
  BY <1>1, <1>2, <1>3, <1>4 DEF Next

LEMMA RemainsHolds == Spec => []Remains
<1>1. Init => Remains
  BY DEF Init, Remains
<1> QED
  BY <1>1, StepRemains, StartupHolds, PTL DEF Spec

\* SessionManager's view of the clients.
LEMMA SeenFacts ==
  ASSUME StartupInv
  PROVE  /\ Manager!Clients = Programs
         /\ Manager!Running(ClientsSeen) = clients
         /\ \A p \in Programs :
              /\ ClientsSeen[p] = (IF p \in clients THEN "IDLE" ELSE "GONE")
              /\ PropsSeen[p] = (IF p \in Owned THEN hint[p] ELSE "none")
              /\ AttemptsSeen[p] = (IF p \in Owned THEN attempts[p] ELSE 0)
         /\ clients \in SUBSET Programs /\ parked \in SUBSET Programs
         /\ starting \in SUBSET Programs /\ pending \in SUBSET Programs
         /\ resetTimer \in SUBSET Programs
         /\ starting \cap (parked \cup clients) = {} /\ parked \cap clients = {}
<1>1. /\ clients \in SUBSET Programs /\ parked \in SUBSET Programs
      /\ starting \in SUBSET Programs /\ pending \in SUBSET Programs
      /\ resetTimer \in SUBSET Programs
      /\ starting \cap (parked \cup clients) = {} /\ parked \cap clients = {}
  BY DEF StartupInv, Books, TypeOK, PropertiesHaveOneOwner
<1>2. Manager!Clients = Programs
  BY DEF Manager!Clients
<1>3. \A p \in Programs :
        /\ ClientsSeen[p] = (IF p \in clients THEN "IDLE" ELSE "GONE")
        /\ PropsSeen[p] = (IF p \in Owned THEN hint[p] ELSE "none")
        /\ AttemptsSeen[p] = (IF p \in Owned THEN attempts[p] ELSE 0)
  BY DEF ClientsSeen, PropsSeen, AttemptsSeen
<1>4. Manager!Running(ClientsSeen) = clients
  BY <1>1, <1>2, <1>3 DEF Manager!Running
<1> QED
  BY <1>1, <1>2, <1>3, <1>4

\* An idle manager has what RestoredSpec starts from.
LEMMA IdleIsHandedOver ==
  ASSUME StartupInv, Remains, mgr = "IDLE"
  PROVE  Manager!HandedOver
<1>0. /\ Manager!Clients = Programs
      /\ Manager!Running(ClientsSeen) = clients
      /\ \A p \in Programs :
           /\ ClientsSeen[p] = (IF p \in clients THEN "IDLE" ELSE "GONE")
           /\ PropsSeen[p] = (IF p \in Owned THEN hint[p] ELSE "none")
           /\ AttemptsSeen[p] = (IF p \in Owned THEN attempts[p] ELSE 0)
      /\ clients \in SUBSET Programs /\ parked \in SUBSET Programs
      /\ starting \in SUBSET Programs /\ pending \in SUBSET Programs
      /\ starting \cap (parked \cup clients) = {} /\ parked \cap clients = {}
  BY SeenFacts
<1>1. Owned = starting \cup parked \cup clients
  BY DEF Owned, Remains
<1>2. /\ hint \in [Programs -> Hints] /\ MaxRestartAttempts \in Nat
      /\ attempts \in [Programs -> 0 .. MaxRestartAttempts + 1]
      /\ \A p \in starting \cup clients : attempts[p] <= MaxRestartAttempts
  BY StartupAssumption DEF StartupInv, Books, TypeOK, AttemptsLeft
<1>3. /\ ClientsSeen \in [Programs -> {"GONE", "CONNECTED", "IDLE", "SAVINGLOCAL"}]
      /\ \A p \in Programs : ClientsSeen[p] \in {"GONE", "IDLE"}
      /\ {} = {p \in Programs : ClientsSeen[p] = "SAVINGLOCAL"}
  BY <1>0 DEF ClientsSeen
<1>4. PropsSeen \in [Programs -> Hints \cup {"IfRunning", "none"}]
  BY <1>2 DEF PropsSeen
<1>5. AttemptsSeen \in [Programs -> 0 .. MaxRestartAttempts + 1]
  BY <1>2 DEF AttemptsSeen
<1>6. /\ \A p \in starting : PropsSeen[p] = "Immediately"
      /\ \A p \in parked \ clients : PropsSeen[p] \in {"Anyway", "Immediately"}
      /\ \A p \in Programs \ (clients \cup starting \cup parked) :
           PropsSeen[p] = "none"
  BY <1>0, <1>1 DEF Remains
<1>7. resetTimer = {p \in clients : AttemptsSeen[p] > 0}
  BY <1>0, <1>1 DEF Remains
<1>8. Manager!PropertiesHaveOneOwner
  BY DEF Manager!PropertiesHaveOneOwner
<1>9. Manager!RestartsAreBounded
  BY <1>0, <1>1, <1>2 DEF Manager!RestartsAreBounded, Remains
<1>10. Manager!Ledger
  <2>1. \A p \in Programs : ClientsSeen[p] # "CONNECTED"
    BY <1>0
  <2>2. \A p \in clients \cup starting :
          AttemptsSeen[p] \in 0 .. MaxRestartAttempts
    BY <1>0, <1>1, <1>2
  <2>3. \A p \in Programs \ (clients \cup starting \cup parked) :
          AttemptsSeen[p] = 0
    BY <1>0, <1>1
  <2> QED
    BY <1>0, <2>1, <2>2, <2>3 DEF Manager!Ledger
<1>11. /\ [p \in Programs |-> "none"] = Manager!Silence
       /\ [group |-> "none", ids |-> {}] = Manager!Nothing
       /\ [held |-> {}, lost |-> {}, stray |-> FALSE] = Manager!NoKillTimer
  BY <1>0 DEF Manager!Silence, Manager!Nothing, Manager!NoKillTimer
<1> QED
  BY <1>0, <1>3, <1>4, <1>5, <1>6, <1>7, <1>8, <1>9, <1>10, <1>11
     DEF Manager!HandedOver

\* What SessionManager does with the properties of a client that failed is
\* what becomes of them here.
LEMMA FailureSeen ==
  ASSUME StartupInv, Remains, NEW p \in Programs, NEW queue \in SUBSET Programs,
         NEW o \in FailureOutcomes(p), p \in Owned,
         UNCHANGED hint,
         parked' = parked \cup (IF o = "parked" THEN {p} ELSE {}),
         starting' = queue \cup (IF o = "restarted" THEN {p} ELSE {}),
         resetTimer' = resetTimer \ {p},
         Owned' = IF o = "freed" THEN Owned \ {p} ELSE Owned,
         \A q \in Programs : attempts'[q] =
           IF q = p /\ o # "freed" /\ hint[q] = "Immediately"
           THEN attempts[q] + 1 ELSE attempts[q]
  PROVE  Manager!HandleFailedProperties(p, queue)
<1>0. /\ \A q \in Programs :
           /\ PropsSeen[q] = (IF q \in Owned THEN hint[q] ELSE "none")
           /\ AttemptsSeen[q] = (IF q \in Owned THEN attempts[q] ELSE 0)
           /\ PropsSeen'[q] = (IF q \in Owned' THEN hint[q] ELSE "none")
           /\ AttemptsSeen'[q] = (IF q \in Owned' THEN attempts'[q] ELSE 0)
      /\ PropsSeen \in [Programs -> Hints]
      /\ PropsSeen' = [q \in Programs |-> IF q \in Owned' THEN hint[q] ELSE "none"]
      /\ AttemptsSeen' = [q \in Programs |-> IF q \in Owned' THEN attempts'[q] ELSE 0]
      /\ PropsSeen = [q \in Programs |-> IF q \in Owned THEN hint[q] ELSE "none"]
      /\ AttemptsSeen = [q \in Programs |-> IF q \in Owned THEN attempts[q] ELSE 0]
  BY DEF PropsSeen, AttemptsSeen, StartupInv, Books, TypeOK, Hints
<1>1. CASE hint[p] = "Anyway"
  <2>1. o = "parked"
    BY <1>1 DEF FailureOutcomes
  <2>2. PropsSeen[p] = "Anyway" /\ UNCHANGED <<PropsSeen, AttemptsSeen>>
    BY <1>0, <1>1, <2>1
  <2>3. Manager!Park(p) /\ starting' = queue
    BY <2>1 DEF Manager!Park
  <2> QED
    BY <2>2, <2>3 DEF Manager!HandleFailedProperties
<1>2. CASE hint[p] = "Immediately"
  <2>1. /\ o \in {"restarted", "parked"}
        /\ o = "restarted" => attempts[p] < MaxRestartAttempts
    BY <1>2 DEF FailureOutcomes, MayRestart
  <2>2. /\ PropsSeen[p] = "Immediately" /\ UNCHANGED PropsSeen
        /\ AttemptsSeen' = [AttemptsSeen EXCEPT ![p] = @ + 1]
        /\ AttemptsSeen[p] = attempts[p]
    <3>1. PropsSeen[p] = "Immediately" /\ AttemptsSeen[p] = attempts[p]
          /\ Owned' = Owned
      BY <1>0, <1>2, <2>1
    <3>2. UNCHANGED PropsSeen
      BY <1>0, <3>1
    <3>3. \A q \in Programs : AttemptsSeen'[q] =
            IF q = p THEN AttemptsSeen[q] + 1 ELSE AttemptsSeen[q]
      BY <1>0, <1>2, <2>1, <3>1
    <3> QED
      BY <1>0, <3>1, <3>2, <3>3
  <2>3. CASE o = "restarted"
    <3>1. Manager!MayRestart(p)
      BY <2>1, <2>2, <2>3 DEF Manager!MayRestart
    <3>2. starting' = queue \cup {p} /\ UNCHANGED parked
      BY <2>3
    <3> QED
      BY <2>2, <3>1, <3>2 DEF Manager!HandleFailedProperties
  <2>4. CASE o = "parked"
    <3>1. Manager!Park(p) /\ starting' = queue
      BY <2>4 DEF Manager!Park
    <3> QED
      BY <2>2, <3>1 DEF Manager!HandleFailedProperties
  <2> QED
    BY <2>1, <2>3, <2>4
<1>3. CASE hint[p] \notin {"Anyway", "Immediately"}
  <2>1. o = "freed"
    BY <1>3 DEF FailureOutcomes
  <2>2. /\ PropsSeen[p] \notin {"Anyway", "Immediately"}
        /\ PropsSeen' = [PropsSeen EXCEPT ![p] = "none"]
        /\ AttemptsSeen' = [AttemptsSeen EXCEPT ![p] = 0]
    BY <1>0, <1>3, <2>1
  <2>3. Manager!FreeProperties(p)
    BY <2>2 DEF Manager!FreeProperties
  <2>4. starting' = queue /\ UNCHANGED parked
    BY <2>1
  <2> QED
    BY <2>2, <2>3, <2>4 DEF Manager!HandleFailedProperties
<1> QED
  BY <1>1, <1>2, <1>3

\* Nothing is sent or stored in these views.
LEMMA SeenQuiet ==
  /\ Manager!Quiet
  /\ \A p : Manager!CleanupNote(p, FALSE) = [q \in Programs |-> "none"]
BY DEF Manager!Quiet, Manager!NotStored, Manager!Silence, Manager!Nothing,
       Manager!CleanupNote, Manager!Clients

\* A program that does not come back although it was restarted.
LEMMA IdleFailure ==
  ASSUME StartupInv, Remains, mgr = "IDLE", NEW p \in timers, NEW exited,
         HandleFailedStartup(p, exited)
  PROVE  Manager!Next \/ UNCHANGED Manager!vars
<1>1. PICK o \in FailureOutcomes(p) :
        LET left == IF o = "restarted" THEN starting \cup {p}
                                       ELSE starting \ {p}
        IN \E f \in Follow(left, pending) :
             /\ pending' = pending \ DOMAIN f
             /\ starting' = left \cup Having(f, Spawned)
             /\ Settle(With(f, p, o), {p})
             /\ mgr' = AfterLaunch(f, Due(left, pending))
             /\ resetTimer' = resetTimer \ {p}
             /\ UNCHANGED <<hint, clients>>
  BY DEF HandleFailedStartup
<1> DEFINE left == IF o = "restarted" THEN starting \cup {p}
                                      ELSE starting \ {p}
<1>2. /\ pending' = pending \ DOMAIN None
      /\ starting' = left \cup Having(None, Spawned)
      /\ Settle(With(None, p, o), {p})
      /\ mgr' = mgr
      /\ resetTimer' = resetTimer \ {p}
      /\ UNCHANGED <<hint, clients>>
  BY <1>1 DEF Follow, Due, AfterLaunch
<1> DEFINE again == IF o = "restarted" THEN {p} ELSE {}
           kept == IF o = "parked" THEN {p} ELSE {}
<1>3. /\ parked' = parked \cup kept
      /\ timers' = (timers \ {p}) \cup again
      /\ watched' = (watched \ {p}) \cup again
      /\ attempts' = [q \in Programs |->
           IF q = p /\ o # "freed" /\ hint[q] = "Immediately"
           THEN attempts[q] + 1 ELSE attempts[q]]
      /\ failed' = failed \cup {p}
  <2>1. Settle(With(None, p, o), {p})
    BY <1>2
  <2> QED
    BY <2>1, OneSettled
<1>4. /\ o \in {"restarted", "parked", "freed"}
      /\ starting' = (starting \ {p}) \cup again
      /\ pending' = {} /\ pending = {}
  BY <1>2, FailureFacts DEF Remains, None, Having
<1>5. /\ p \in Programs /\ starting \ {p} \in SUBSET Programs
      /\ resetTimer \subseteq clients
      /\ p \notin parked \cup clients /\ pending = {}
  BY DEF StartupInv, Books, TypeOK, StartersAreTimed, Remains
<1>6. UNCHANGED ClientsSeen
  BY <1>2 DEF ClientsSeen
<1>7. CASE p \in starting
  <2>1. Owned' = (IF o = "freed" THEN Owned \ {p} ELSE Owned) /\ p \in Owned
    BY <1>2, <1>3, <1>4, <1>5, <1>7 DEF Owned
  <2>2. \A q \in Programs : attempts'[q] =
           IF q = p /\ o # "freed" /\ hint[q] = "Immediately"
           THEN attempts[q] + 1 ELSE attempts[q]
    BY <1>3
  <2>3. Manager!HandleFailedProperties(p, starting \ {p})
    BY <1>2, <1>3, <1>4, <1>5, <2>1, <2>2, FailureSeen
  <2>4. Manager!StartupFailed(p)
    BY <1>2, <1>6, <1>7, <2>3, SeenQuiet
       DEF Manager!StartupFailed, Manager!clientVars, Manager!reqVars
  <2>5. p \in Manager!Clients /\ Manager!Alive
    BY <1>5 DEF Manager!Clients, Manager!Alive
  <2> QED
    BY <2>4, <2>5 DEF Manager!Next, Manager!TimerStep
<1>8. CASE p \notin starting
  <2>1. p \notin Owned
    BY <1>5, <1>8 DEF Owned
  <2>2. failsafe
    BY <1>8 DEF StartupInv, Books, StartersAreTimed
  <2>3. o = "freed"
    BY <1>5, <2>2 DEF StartupInv, Books, FailsafeIsPlain, FailureOutcomes
  <2>4. UNCHANGED <<starting, parked, attempts, pending, resetTimer>>
    BY <1>2, <1>3, <1>4, <1>5, <1>8, <2>3 DEF StartupInv, Books, TypeOK
  <2>5. UNCHANGED Owned
    BY <1>2, <2>4 DEF Owned
  <2>6. UNCHANGED <<PropsSeen, AttemptsSeen>>
    BY <1>2, <2>4, <2>5 DEF PropsSeen, AttemptsSeen
  <2> QED
    BY <1>2, <1>6, <2>4, <2>6
       DEF Manager!vars, Manager!clientVars, Manager!propVars, Manager!reqVars
<1> QED
  BY <1>7, <1>8

\* The other steps of an idle manager.
LEMMA IdleReregisters ==
  ASSUME StartupInv, Remains, mgr = "IDLE", NEW p \in Programs, Reregister(p)
  PROVE  Manager!Next
<1>1. /\ p \in starting \cup pending /\ pending = {}
      /\ \E f \in Follow(starting \ {p}, Take(p)) :
           /\ pending' = Take(p) \ DOMAIN f
           /\ starting' = (starting \ {p}) \cup Having(f, Spawned)
           /\ Settle(f, {p})
           /\ mgr' = AfterLaunch(f, Due(starting \ {p}, Take(p)))
      /\ clients' = clients \cup {p}
      /\ resetTimer' = IF attempts[p] > 0 THEN resetTimer \cup {p}
                                          ELSE resetTimer
      /\ UNCHANGED hint
  BY DEF Reregister, Remains
<1>2. /\ starting' = (starting \ {p}) \cup Having(None, Spawned)
      /\ pending' = Take(p) \ DOMAIN None
      /\ Settle(None, {p})
      /\ mgr' = mgr
  BY <1>1 DEF Follow, Due, AfterLaunch
<1>3. \A X : Having(None, X) = {}
  BY DEF Having, None
<1>4. /\ starting' = starting \ {p} /\ pending' = {}
      /\ parked' = parked
      /\ attempts' = [q \in Programs |-> attempts[q]]
  BY <1>1, <1>2, <1>3 DEF Settle, Take, None
<1>5. UNCHANGED attempts
  BY <1>4 DEF StartupInv, Books, TypeOK
<1>6. p \in starting /\ p \notin clients
  BY <1>1, SeenFacts
<1>7. Owned' = Owned /\ p \in Owned
  BY <1>1, <1>4, <1>6 DEF Owned
<1>8. UNCHANGED <<PropsSeen, AttemptsSeen>> /\ AttemptsSeen[p] = attempts[p]
  BY <1>1, <1>5, <1>7 DEF PropsSeen, AttemptsSeen
<1>9. ClientsSeen[p] = "GONE" /\ ClientsSeen' = [ClientsSeen EXCEPT ![p] = "IDLE"]
  BY <1>1, <1>6 DEF ClientsSeen
<1>10. Manager!Reregister(p)
  BY <1>1, <1>2, <1>4, <1>6, <1>8, <1>9, SeenQuiet
     DEF Manager!Reregister, Manager!TakeProperties, Manager!reqVars
<1>11. p \in Manager!Clients /\ Manager!Alive
  BY DEF Manager!Clients, Manager!Alive
<1> QED
  BY <1>10, <1>11 DEF Manager!Next, Manager!ClientStep

LEMMA IdleLoses ==
  ASSUME StartupInv, Remains, mgr = "IDLE", NEW p \in Programs, ClientLeft(p)
  PROVE  Manager!Next
<1>1. PICK o \in FailureOutcomes(p) :
        /\ starting' = IF o = "restarted" THEN starting \cup {p} ELSE starting
        /\ Settle(With(None, p, o), {p})
  BY DEF ClientLeft
<1>2. /\ p \in clients
      /\ clients' = clients \ {p}
      /\ resetTimer' = resetTimer \ {p}
      /\ UNCHANGED <<mgr, hint, pending>>
  BY DEF ClientLeft
<1> DEFINE again == IF o = "restarted" THEN {p} ELSE {}
           kept == IF o = "parked" THEN {p} ELSE {}
<1>3. /\ parked' = parked \cup kept
      /\ timers' = (timers \ {p}) \cup again
      /\ watched' = (watched \ {p}) \cup again
      /\ attempts' = [q \in Programs |->
           IF q = p /\ o # "freed" /\ hint[q] = "Immediately"
           THEN attempts[q] + 1 ELSE attempts[q]]
      /\ failed' = failed \cup {p}
  <2>1. Settle(With(None, p, o), {p})
    BY <1>1
  <2> QED
    BY <2>1, OneSettled
<1>4. /\ o \in {"restarted", "parked", "freed"}
      /\ starting' = starting \cup again
      /\ starting \in SUBSET Programs /\ pending = {}
      /\ p \notin starting \cup parked
  BY <1>1, <1>2, FailureFacts, SeenFacts DEF Remains
<1>5. Owned' = (IF o = "freed" THEN Owned \ {p} ELSE Owned) /\ p \in Owned
  BY <1>2, <1>3, <1>4 DEF Owned
<1>6. \A q \in Programs : attempts'[q] =
         IF q = p /\ o # "freed" /\ hint[q] = "Immediately"
         THEN attempts[q] + 1 ELSE attempts[q]
  BY <1>3
<1>7. Manager!HandleFailedProperties(p, starting)
  BY <1>2, <1>3, <1>4, <1>5, <1>6, FailureSeen
<1>8. ClientsSeen[p] = "IDLE" /\ ClientsSeen' = [ClientsSeen EXCEPT ![p] = "GONE"]
  BY <1>2 DEF ClientsSeen
<1>9. Manager!CloseWhenIdle(p, FALSE)
  BY <1>2, <1>7, <1>8, SeenQuiet
     DEF Manager!CloseWhenIdle, Manager!KillTimersOfClosed, Manager!Released,
         Manager!Quiet
<1>10. Manager!DBusClientLeft(p)
  <2>1. p \in Programs \cap Manager!Running(ClientsSeen)
    BY <1>2, SeenFacts
  <2> QED
    BY <1>9, <2>1
       DEF Manager!DBusClientLeft, Manager!CloseConnection, Manager!reqVars
<1>11. Manager!Alive
  BY DEF Manager!Alive
<1> QED
  BY <1>10, <1>11 DEF Manager!Next, Manager!DBusStep

LEMMA IdleSets ==
  ASSUME StartupInv, Remains, mgr = "IDLE", NEW p \in Programs,
         ResetRestartAttempts(p) \/ \E h \in Hints : SetProperties(p, h)
  PROVE  Manager!Next
<1>0. /\ p \in Manager!Clients /\ Manager!Alive
      /\ UNCHANGED <<mgr, pending, starting, parked, clients>>
  BY DEF Manager!Clients, Manager!Alive, ResetRestartAttempts, SetProperties,
         ownerVars
<1>1. UNCHANGED <<ClientsSeen, Owned>>
  BY <1>0 DEF ClientsSeen, Owned
<1>2. /\ hint \in [Programs -> Hints] /\ attempts \in [Programs -> Nat]
  BY StartupAssumption DEF StartupInv, Books, TypeOK
<1>3. CASE ResetRestartAttempts(p)
  <2>1. /\ p \in resetTimer /\ resetTimer' = resetTimer \ {p}
        /\ attempts' = [attempts EXCEPT ![p] = 0]
        /\ UNCHANGED hint
    BY <1>3 DEF ResetRestartAttempts
  <2>2. AttemptsSeen' = [AttemptsSeen EXCEPT ![p] = 0] /\ UNCHANGED PropsSeen
    BY <1>1, <1>2, <2>1 DEF AttemptsSeen, PropsSeen
  <2>3. Manager!ResetRestartAttempts(p)
    BY <1>0, <1>1, <2>1, <2>2, SeenQuiet
       DEF Manager!ResetRestartAttempts, Manager!clientVars, Manager!reqVars
  <2> QED
    BY <1>0, <2>3 DEF Manager!Next, Manager!TimerStep
<1>4. ASSUME NEW h \in Hints, SetProperties(p, h)
      PROVE  Manager!Next
  <2>1. /\ p \in clients /\ hint' = [hint EXCEPT ![p] = h]
        /\ UNCHANGED <<attempts, resetTimer>>
    BY <1>4 DEF SetProperties
  <2>2. p \in Owned
    BY <2>1 DEF Owned
  <2>3. PropsSeen' = [PropsSeen EXCEPT ![p] = h] /\ UNCHANGED AttemptsSeen
    BY <1>1, <1>2, <2>1, <2>2 DEF AttemptsSeen, PropsSeen
  <2>4. p \in Programs /\ p \in Manager!Running(ClientsSeen)
    BY <2>1, SeenFacts
  <2>5. Manager!SetProperties(p, h)
    BY <1>0, <1>1, <2>1, <2>3, <2>4, SeenQuiet
       DEF Manager!SetProperties, Manager!clientVars, Manager!reqVars
  <2> QED
    BY <1>0, <2>5 DEF Manager!Next, Manager!ClientStep
<1> QED
  BY <1>3, <1>4

LEMMA IdleStep ==
  ASSUME StartupInv, Remains, mgr = "IDLE", [Next]_vars
  PROVE  Manager!Next \/ UNCHANGED Manager!vars
<1>0. /\ pending = {} /\ starting \subseteq timers /\ watched \subseteq timers
      /\ failsafe => starting = {}
  BY DEF Remains, StartupInv, Books, StartersAreTimed, FailsafeIsPlain, TypeOK
<1>1. ASSUME UNCHANGED <<mgr, hint, ownerVars, attempts, resetTimer>>
      PROVE  UNCHANGED Manager!vars
  <2>1. UNCHANGED <<ClientsSeen, Owned>>
    BY <1>1 DEF ownerVars, ClientsSeen, Owned
  <2>2. UNCHANGED <<PropsSeen, AttemptsSeen>>
    BY <1>1, <2>1 DEF PropsSeen, AttemptsSeen
  <2> QED
    BY <1>1, <2>1, <2>2
       DEF ownerVars, Manager!vars, Manager!clientVars, Manager!propVars,
           Manager!reqVars
<1>2. ASSUME NEW p \in Programs, ProgramStep(p)
      PROVE  Manager!Next \/ UNCHANGED Manager!vars
  <2>1. CASE StartupTimeout(p)
    BY <2>1, IdleFailure DEF StartupTimeout
  <2>2. CASE ChildExited(p)
    <3>1. CASE p \in starting
      BY <1>0, <2>2, <3>1, IdleFailure DEF ChildExited
    <3>2. CASE p \notin starting
      BY <1>1, <2>2, <3>2 DEF ChildExited
    <3> QED
      BY <3>1, <3>2
  <2>3. CASE Reregister(p)
    BY <2>3, IdleReregisters
  <2>4. CASE ProgramRegisters(p)
    BY <1>1, <2>4 DEF ProgramRegisters, RegisterNew
  <2>5. CASE ClientLeft(p)
    BY <2>5, IdleLoses
  <2>6. CASE ResetRestartAttempts(p) \/ \E h \in Hints : SetProperties(p, h)
    BY <2>6, IdleSets
  <2> QED
    BY <1>2, <2>1, <2>2, <2>3, <2>4, <2>5, <2>6 DEF ProgramStep
<1>3. CASE UNCHANGED vars
  BY <1>1, <1>3 DEF vars
<1>4. ~Begin /\ ~OutsiderRegisters
  BY DEF Begin, OutsiderRegisters
<1>5. ~RegisterWithId
  BY <1>0 DEF RegisterWithId
<1> QED
  BY <1>2, <1>3, <1>4, <1>5 DEF Next

\* The start-up and the manager fit together, for every session: the state in
\* which xfsm_manager_signal_startup_done leaves the session is one that
\* RestoredSpec starts from, and what happens to the programs of the session
\* from then on are steps of SessionManager, so that what is proved of
\* RestoredSpec holds of every session that was restored.
THEOREM TakenOver == Spec => ManagerTakesOver
<1>1. StartupInv /\ Remains => (mgr = "IDLE" => Manager!HandedOver)
  BY IdleIsHandedOver
<1>2. StartupInv /\ Remains /\ [Next]_vars
        => [mgr = "IDLE" => Manager!Next \/ UNCHANGED Manager!vars]_vars
  BY IdleStep
<1>3. (mgr = "IDLE" => Manager!HandedOver)'
        => [mgr # "IDLE" /\ mgr' = "IDLE" => Manager!HandedOver']_vars
  OBVIOUS
<1>4. [mgr = "IDLE" => Manager!Next \/ UNCHANGED Manager!vars]_vars
      /\ [mgr # "IDLE" /\ mgr' = "IDLE" => Manager!HandedOver']_vars
        => [/\ mgr # "IDLE" /\ mgr' = "IDLE" => Manager!HandedOver'
            /\ mgr = "IDLE" => Manager!Next \/ UNCHANGED Manager!vars]_vars
  OBVIOUS
<1> QED
  BY <1>1, <1>2, <1>3, <1>4, StartupHolds, RemainsHolds, PTL
     DEF Spec, ManagerTakesOver

-----------------------------------------------------------------------------
(* The start-up advances.                                                  *)

\* How much of the start-up a program may still go through.  Every attempt
\* left to it is a start, a registration and a loss: what waits has all of
\* them before it, what is timed the registration and the loss of the attempt
\* it is at, and a client its loss.
AttemptsAhead(p) == 3 * (MaxRestartAttempts + 1 - attempts[p])
Ahead(p) ==
  IF p \in pending THEN 3 * (MaxRestartAttempts + 2)
  ELSE IF p \in timers THEN AttemptsAhead(p) + 2
  ELSE IF p \in clients THEN AttemptsAhead(p) + 1
  ELSE 0

\* In the start-up no step gives a program more to go through, and a program
\* that is late, registers or is lost has less before it than it had.
Advancing ==
  mgr \in {"LOADED", "STARTUP"} =>
    /\ \A p \in Programs : Ahead(p)' <= Ahead(p)
    /\ \A p \in Programs :
         StartupTimeout(p) \/ Reregister(p) \/ ClientLeft(p) =>
           Ahead(p)' < Ahead(p)

\* Some start-up timeout is running, and whatever the hint of its program, its
\* handler has something to do.
TimeoutsLead ==
  mgr = "STARTUP" =>
    \E p \in timers :
      \E o \in FailureOutcomes(p) :
        Follow(IF o = "restarted" THEN starting \cup {p} ELSE starting \ {p},
               pending) # {}

\* A set of priorities has a lowest one.
LEMMA LowestNat ==
  ASSUME NEW T \in SUBSET Nat, T # {}
  PROVE  \E n \in T : \A m \in T : n <= m
<1> DEFINE R == {ss \in Nat \X Nat : ss[1] < ss[2]}
<1>1. IsWellFoundedOn(R, Nat)
  BY NatLessThanWellFounded DEF OpToRel
<1> HIDE DEF R
<1>2. PICK n \in T : \A m \in T : ~(<<m, n>> \in R)
  BY <1>1, WFMin
<1>3. \A m \in T : ~(m < n)
  BY <1>2 DEF R
<1> QED
  BY <1>3

\* There is always something to do with a queue: its first group can be
\* started.
LEMMA LaunchPossible ==
  ASSUME NEW queue \in SUBSET Programs
  PROVE  Launches(queue) # {}
<1> DEFINE UpTo(p) == {q \in queue : Prio[q] <= Prio[p]}
           Fate(g, last) ==
             /\ \A p \in UpTo(last) :
                  /\ g[p] \in {"started"} \cup FailureOutcomes(p)
                  /\ g[p] = "started" => Prio[p] = Prio[last]
             /\ UpTo(last) = queue \/ \E p \in UpTo(last) : g[p] = "started"
<1>1. CASE queue = {}
  BY <1>1 DEF Launches
<1>2. CASE queue # {}
  <2>1. \A q \in queue : Prio[q] \in Nat
    BY StartupAssumption
  <2>2. PICK last \in queue : \A q \in queue : Prio[last] <= Prio[q]
    <3> DEFINE T == {Prio[q] : q \in queue}
    <3>1. T \in SUBSET Nat /\ T # {}
      BY <1>2, <2>1
    <3>2. PICK n \in T : \A m \in T : n <= m
      BY <3>1, LowestNat
    <3> QED
      BY <3>2
  <2> DEFINE g == [p \in UpTo(last) |-> "started"]
  <2>3. last \in UpTo(last)
    BY <2>1
  <2>4. \A p \in UpTo(last) : Prio[p] = Prio[last]
    BY <2>1, <2>2
  <2>5. g \in [UpTo(last) -> Outcomes] /\ Fate(g, last)
    BY <2>3, <2>4 DEF Outcomes
  <2>6. g \in UNION {{f \in [UpTo(l) -> Outcomes] : Fate(f, l)} : l \in queue}
    <3> HIDE DEF UpTo, Fate, g
    <3> QED
      BY <2>5
  <2> QED
    BY <1>2, <2>6 DEF Launches
<1> QED
  BY <1>1, <1>2

\* The measure is a number, and what is not waiting has less than what is.
Measured ==
  \A p \in Programs :
    /\ Ahead(p) \in Nat
    /\ p \notin pending => Ahead(p) <= 3 * (MaxRestartAttempts + 1) + 2

LEMMA AheadBounds == StartupInv => Measured
<1> SUFFICES ASSUME StartupInv, NEW p \in Programs
             PROVE  /\ Ahead(p) \in Nat
                    /\ p \notin pending =>
                         Ahead(p) <= 3 * (MaxRestartAttempts + 1) + 2
  BY DEF Measured
<1>1. MaxRestartAttempts \in Nat
  BY StartupAssumption
<1>2. p \in timers \cup clients => attempts[p] \in 0 .. MaxRestartAttempts
  BY <1>1 DEF StartupInv, Books, TypeOK, AttemptsLeft
<1>3. p \in timers \cup clients =>
        /\ AttemptsAhead(p) \in Nat
        /\ AttemptsAhead(p) <= 3 * (MaxRestartAttempts + 1)
  BY <1>1, <1>2 DEF AttemptsAhead
<1> QED
  BY <1>1, <1>3 DEF Ahead

LEMMA AheadBoundsThen == StartupInv' => Measured'
  BY AheadBounds, PTL

\* Programs a step does not concern have the same before them.
LEMMA AheadSame ==
  ASSUME NEW p \in Programs,
         p \in pending' <=> p \in pending,
         p \in timers' <=> p \in timers,
         p \in clients' <=> p \in clients,
         attempts'[p] = attempts[p]
  PROVE  Ahead(p)' = Ahead(p)
  BY DEF Ahead, AttemptsAhead

\* Programs that leave the pending queue have less before them.
LEMMA LaunchAdvances ==
  ASSUME StartupInv, StartupInv', NEW p \in pending, p \notin pending'
  PROVE  Ahead(p)' < Ahead(p)
<1>1. p \in Programs /\ MaxRestartAttempts \in Nat
  BY StartupAssumption DEF StartupInv, Books, TypeOK
<1>2. Ahead(p)' \in Nat /\ Ahead(p)' <= 3 * (MaxRestartAttempts + 1) + 2
  BY <1>1, AheadBoundsThen DEF Measured
<1>3. Ahead(p) = 3 * (MaxRestartAttempts + 2)
  BY DEF Ahead
<1> QED
  BY <1>1, <1>2, <1>3

\* The step of a handler: the programs it handles, one or none, have less
\* before them, those it launches too, and the others what they had.
LEMMA HandlerAdvances ==
  ASSUME StartupInv, StartupInv', NEW handled \in SUBSET Programs, NEW launched,
         launched \subseteq pending, launched \cap pending' = {},
         \A q \in Programs \ (handled \cup launched) :
           /\ q \in pending' <=> q \in pending
           /\ q \in timers' <=> q \in timers
           /\ q \in clients' <=> q \in clients
           /\ attempts'[q] = attempts[q],
         \A p \in handled : Ahead(p)' < Ahead(p)
  PROVE  \A q \in Programs : Ahead(q)' <= Ahead(q)
<1> SUFFICES ASSUME NEW q \in Programs PROVE Ahead(q)' <= Ahead(q)
  OBVIOUS
<1>0. Ahead(q) \in Nat /\ Ahead(q)' \in Nat
  BY AheadBounds, AheadBoundsThen DEF Measured
<1>1. CASE q \in handled
  BY <1>0, <1>1
<1>2. CASE q \in launched
  <2>1. Ahead(q)' < Ahead(q)
    BY <1>2, LaunchAdvances
  <2> QED
    BY <1>0, <2>1
<1>3. CASE q \notin handled \cup launched
  <2>1. Ahead(q)' = Ahead(q)
    BY <1>3, AheadSame
  <2> QED
    BY <1>0, <2>1
<1> QED
  BY <1>1, <1>2, <1>3

\* The step of a handler that launches nothing.
LEMMA AloneAdvances ==
  ASSUME StartupInv, StartupInv', NEW handled \in SUBSET Programs,
         \A q \in Programs \ handled :
           /\ q \in pending' <=> q \in pending
           /\ q \in timers' <=> q \in timers
           /\ q \in clients' <=> q \in clients
           /\ attempts'[q] = attempts[q],
         \A p \in handled : Ahead(p)' < Ahead(p)
  PROVE  \A q \in Programs : Ahead(q)' <= Ahead(q)
<1> SUFFICES ASSUME NEW q \in Programs PROVE Ahead(q)' <= Ahead(q)
  OBVIOUS
<1>0. Ahead(q) \in Nat /\ Ahead(q)' \in Nat
  BY AheadBounds, AheadBoundsThen DEF Measured
<1>1. CASE q \in handled
  BY <1>0, <1>1
<1>2. CASE q \notin handled
  <2>1. Ahead(q)' = Ahead(q)
    BY <1>2, AheadSame
  <2> QED
    BY <1>0, <2>1
<1> QED
  BY <1>1, <1>2

\* The first launch.
LEMMA BeginAdvances ==
  ASSUME StartupInv, StartupInv', Begin
  PROVE  \A q \in Programs : Ahead(q)' <= Ahead(q)
<1>1. PICK f \in Launches(pending) :
        /\ pending' = pending \ DOMAIN f
        /\ Settle(f, {})
        /\ UNCHANGED clients
  BY DEF Begin
<1>2. pending \in SUBSET Programs /\ {} \in SUBSET Programs
  BY DEF StartupInv, Books, TypeOK
<1>3. DOMAIN f \subseteq pending
  BY <1>2, LaunchFacts
<1>4. \A q \in Programs \ DOMAIN f :
        /\ q \in pending' <=> q \in pending
        /\ q \in timers' <=> q \in timers
        /\ q \in clients' <=> q \in clients
        /\ attempts'[q] = attempts[q]
  BY <1>1 DEF Settle, TimersWithout, Having
<1> QED
  BY <1>1, <1>2, <1>3, <1>4, HandlerAdvances

\* A program that is late, or exits, and what is launched after it.
LEMMA FailureAdvances ==
  ASSUME StartupInv, StartupInv', NEW p \in timers, NEW exited,
         HandleFailedStartup(p, exited)
  PROVE  /\ \A q \in Programs : Ahead(q)' <= Ahead(q)
         /\ Ahead(p)' < Ahead(p)
<1>1. PICK o \in FailureOutcomes(p) :
        LET left == IF o = "restarted" THEN starting \cup {p}
                                       ELSE starting \ {p}
        IN \E f \in Follow(left, pending) :
             /\ pending' = pending \ DOMAIN f
             /\ Settle(With(f, p, o), {p})
             /\ UNCHANGED clients
  BY DEF HandleFailedStartup
<1> DEFINE left == IF o = "restarted" THEN starting \cup {p}
                                      ELSE starting \ {p}
<1>2. PICK f \in Follow(left, pending) :
        /\ pending' = pending \ DOMAIN f
        /\ Settle(With(f, p, o), {p})
        /\ UNCHANGED clients
  BY <1>1
<1>3. /\ pending \in SUBSET Programs
      /\ p \in Programs /\ p \notin pending \cup clients
      /\ attempts[p] \in 0 .. MaxRestartAttempts /\ MaxRestartAttempts \in Nat
  BY StartupAssumption
     DEF StartupInv, Books, TypeOK, StartersAreTimed, AttemptsLeft
<1>4. DOMAIN f \subseteq pending
  BY <1>3, FollowFacts
<1>5. p \notin DOMAIN f
  BY <1>3, <1>4
<1>6. /\ Having(With(f, p, o), Spawned)
           = Having(f, Spawned) \cup (IF o \in Spawned THEN {p} ELSE {})
      /\ Having(With(f, p, o), {"restarted", "parked"})
           = Having(f, {"restarted", "parked"})
               \cup (IF o \in {"restarted", "parked"} THEN {p} ELSE {})
  BY <1>5, WithFacts
<1>7. /\ timers' = (timers \ {p}) \cup Having(f, Spawned)
                      \cup (IF o \in Spawned THEN {p} ELSE {})
      /\ attempts' = [q \in Programs |->
           IF /\ q \in Having(f, {"restarted", "parked"})
                         \cup (IF o \in {"restarted", "parked"} THEN {p} ELSE {})
              /\ hint[q] = "Immediately"
           THEN attempts[q] + 1 ELSE attempts[q]]
  BY <1>2, <1>6 DEF Settle, TimersWithout
<1>8. /\ o \in {"restarted", "parked", "freed"}
      /\ o = "restarted" => hint[p] = "Immediately"
  BY FailureFacts
<1>9. Ahead(p)' < Ahead(p)
  <2>1. Ahead(p) = 3 * (MaxRestartAttempts + 1 - attempts[p]) + 2
    BY <1>3 DEF Ahead, AttemptsAhead
  <2>2. p \notin pending' \cup clients' /\ p \notin Having(f, Spawned)
    BY <1>2, <1>3, <1>5 DEF Having
  <2>3. CASE o = "restarted"
    <3>1. p \in timers' /\ attempts'[p] = attempts[p] + 1
      BY <1>3, <1>7, <1>8, <2>3 DEF Spawned
    <3>2. Ahead(p)' = 3 * (MaxRestartAttempts + 1 - (attempts[p] + 1)) + 2
      BY <2>2, <3>1 DEF Ahead, AttemptsAhead
    <3> QED
      BY <1>3, <2>1, <3>2
  <2>4. CASE o # "restarted"
    <3>1. p \notin timers'
      BY <1>7, <1>8, <2>2, <2>4 DEF Spawned
    <3>2. Ahead(p)' = 0
      BY <2>2, <3>1 DEF Ahead
    <3> QED
      BY <1>3, <2>1, <3>2
  <2> QED
    BY <2>3, <2>4
<1>10. \A q \in Programs \ ({p} \cup DOMAIN f) :
         /\ q \in pending' <=> q \in pending
         /\ q \in timers' <=> q \in timers
         /\ q \in clients' <=> q \in clients
         /\ attempts'[q] = attempts[q]
  BY <1>2, <1>7 DEF Having
<1>11. \A q \in {p} : Ahead(q)' < Ahead(q)
  BY <1>9
<1>12. {p} \in SUBSET Programs /\ DOMAIN f \cap pending' = {}
  BY <1>2, <1>3
<1> QED
  BY <1>4, <1>9, <1>10, <1>11, <1>12, HandlerAdvances

\* A program that registers with its id, and what is launched after it.
LEMMA ReregisterAdvances ==
  ASSUME StartupInv, StartupInv', NEW p \in Programs, Reregister(p)
  PROVE  /\ \A q \in Programs : Ahead(q)' <= Ahead(q)
         /\ Ahead(p)' < Ahead(p)
<1>1. /\ p \in starting \cup pending
      /\ clients' = clients \cup {p}
  BY DEF Reregister
<1>2. Take(p) = pending \ {p} /\ Take(p) \in SUBSET Programs
  BY <1>1 DEF Take, StartupInv, Books, TypeOK, PropertiesHaveOneOwner
<1>3. PICK f \in Follow(starting \ {p}, Take(p)) :
        /\ pending' = Take(p) \ DOMAIN f
        /\ Settle(f, {p})
  BY DEF Reregister
<1>4. DOMAIN f \subseteq Take(p)
  BY <1>2, FollowFacts
<1>5. /\ timers' = (timers \ {p}) \cup Having(f, Spawned)
      /\ attempts' = [q \in Programs |->
           IF q \in Having(f, {"restarted", "parked"}) /\ hint[q] = "Immediately"
           THEN attempts[q] + 1 ELSE attempts[q]]
  BY <1>3 DEF Settle, TimersWithout
<1>6. /\ p \notin pending' /\ p \notin timers' /\ p \in clients'
      /\ attempts'[p] = attempts[p]
  BY <1>1, <1>2, <1>3, <1>4, <1>5 DEF Having
<1>7. /\ MaxRestartAttempts \in Nat /\ attempts[p] \in 0 .. MaxRestartAttempts
      /\ starting \subseteq timers /\ starting \cap pending = {}
  BY <1>1, StartupAssumption
     DEF StartupInv, Books, TypeOK, StartersAreTimed, AttemptsLeft,
         PropertiesHaveOneOwner
<1>8. Ahead(p)' = 3 * (MaxRestartAttempts + 1 - attempts[p]) + 1
  BY <1>6 DEF Ahead, AttemptsAhead
<1>9. Ahead(p)' < Ahead(p)
  <2>1. CASE p \in pending
    <3>1. Ahead(p) = 3 * (MaxRestartAttempts + 2)
      BY <2>1 DEF Ahead
    <3> QED
      BY <1>7, <1>8, <3>1
  <2>2. CASE p \notin pending
    <3>1. Ahead(p) = 3 * (MaxRestartAttempts + 1 - attempts[p]) + 2
      BY <1>1, <1>7, <2>2 DEF Ahead, AttemptsAhead
    <3> QED
      BY <1>7, <1>8, <3>1
  <2> QED
    BY <2>1, <2>2
<1>10. \A q \in Programs \ ({p} \cup DOMAIN f) :
         /\ q \in pending' <=> q \in pending
         /\ q \in timers' <=> q \in timers
         /\ q \in clients' <=> q \in clients
         /\ attempts'[q] = attempts[q]
  BY <1>1, <1>2, <1>3, <1>5 DEF Having
<1>11. \A q \in {p} : Ahead(q)' < Ahead(q)
  BY <1>9
<1>12. {p} \in SUBSET Programs /\ DOMAIN f \subseteq pending
       /\ DOMAIN f \cap pending' = {}
  BY <1>2, <1>3, <1>4
<1> QED
  BY <1>9, <1>10, <1>11, <1>12, HandlerAdvances

\* A registration without an id, and what is launched after it.
LEMMA RegisterNewAdvances ==
  ASSUME StartupInv, StartupInv', NEW who, RegisterNew(who)
  PROVE  \A q \in Programs : Ahead(q)' <= Ahead(q)
<1> DEFINE left == IF failsafePending - 1 = 0 THEN {} ELSE starting
<1>0. pending \in SUBSET Programs /\ {} \in SUBSET Programs
  BY DEF StartupInv, Books, TypeOK
<1>1. CASE ~(failsafe /\ mgr = "STARTUP")
  <2>1. UNCHANGED <<pending, timers, clients, attempts>>
    BY <1>1 DEF RegisterNew, ownerVars, watchVars
  <2>2. \A q \in Programs \ ({} \cup {}) :
         /\ q \in pending' <=> q \in pending
         /\ q \in timers' <=> q \in timers
         /\ q \in clients' <=> q \in clients
         /\ attempts'[q] = attempts[q]
    BY <2>1
  <2> QED
    BY <1>0, <2>2, HandlerAdvances
<1>2. CASE failsafe /\ mgr = "STARTUP"
  <2>1. PICK f \in Follow(left, pending) :
          /\ pending' = pending \ DOMAIN f
          /\ Settle(f, {})
          /\ UNCHANGED clients
    BY <1>2 DEF RegisterNew
  <2>2. DOMAIN f \subseteq pending
    BY <1>0, FollowFacts
  <2>3. \A q \in Programs \ DOMAIN f :
          /\ q \in pending' <=> q \in pending
          /\ q \in timers' <=> q \in timers
          /\ q \in clients' <=> q \in clients
          /\ attempts'[q] = attempts[q]
    BY <2>1 DEF Settle, TimersWithout, Having
  <2> QED
    BY <1>0, <2>1, <2>2, <2>3, HandlerAdvances
<1> QED
  BY <1>1, <1>2

\* A client that leaves.
LEMMA ClientLeftAdvances ==
  ASSUME StartupInv, StartupInv', NEW p \in Programs, ClientLeft(p)
  PROVE  /\ \A q \in Programs : Ahead(q)' <= Ahead(q)
         /\ Ahead(p)' < Ahead(p)
<1>1. PICK o \in FailureOutcomes(p) : Settle(With(None, p, o), {p})
  BY DEF ClientLeft
<1>2. p \in clients /\ clients' = clients \ {p} /\ UNCHANGED pending
  BY DEF ClientLeft
<1> DEFINE again == IF o = "restarted" THEN {p} ELSE {}
           kept == IF o = "parked" THEN {p} ELSE {}
<1>3. /\ parked' = parked \cup kept
      /\ timers' = (timers \ {p}) \cup again
      /\ watched' = (watched \ {p}) \cup again
      /\ attempts' = [q \in Programs |->
           IF q = p /\ o # "freed" /\ hint[q] = "Immediately"
           THEN attempts[q] + 1 ELSE attempts[q]]
      /\ failed' = failed \cup {p}
  BY <1>1, OneSettled
<1>4. /\ MaxRestartAttempts \in Nat /\ attempts[p] \in 0 .. MaxRestartAttempts
      /\ p \notin pending \cup timers
  BY <1>2, StartupAssumption
     DEF StartupInv, Books, TypeOK, StartersAreTimed, AttemptsLeft,
         PropertiesHaveOneOwner
<1>5. Ahead(p) = 3 * (MaxRestartAttempts + 1 - attempts[p]) + 1
  BY <1>2, <1>4 DEF Ahead, AttemptsAhead
<1>6. Ahead(p)' < Ahead(p)
  <2>1. p \notin pending' \cup clients'
    BY <1>2, <1>4
  <2>2. CASE o = "restarted"
    <3>1. p \in timers' /\ attempts'[p] = attempts[p] + 1
      BY <1>3, <2>2, KeptFacts
    <3>2. Ahead(p)' = 3 * (MaxRestartAttempts + 1 - (attempts[p] + 1)) + 2
      BY <2>1, <3>1 DEF Ahead, AttemptsAhead
    <3> QED
      BY <1>4, <1>5, <3>2
  <2>3. CASE o # "restarted"
    <3>1. Ahead(p)' = 0
      BY <1>3, <2>1, <2>3 DEF Ahead
    <3> QED
      BY <1>4, <1>5, <3>1
  <2> QED
    BY <2>2, <2>3
<1>7. \A q \in Programs \ {p} :
        /\ q \in pending' <=> q \in pending
        /\ q \in timers' <=> q \in timers
        /\ q \in clients' <=> q \in clients
        /\ attempts'[q] = attempts[q]
  BY <1>2, <1>3
<1>8. \A q \in {p} : Ahead(q)' < Ahead(q)
  BY <1>6
<1>9. {p} \in SUBSET Programs
  OBVIOUS
<1> QED
  BY <1>6, <1>7, <1>8, <1>9, AloneAdvances

LEMMA StepAdvances ==
  ASSUME StartupInv, StartupInv', [Next]_vars
  PROVE  [Advancing]_vars
<1> SUFFICES ASSUME Next, mgr \in {"LOADED", "STARTUP"} PROVE Advancing
  BY DEF Advancing
<1>0. \A p \in Programs :
        /\ StartupTimeout(p) => Ahead(p)' < Ahead(p)
        /\ Reregister(p) => Ahead(p)' < Ahead(p)
        /\ ClientLeft(p) => Ahead(p)' < Ahead(p)
  BY FailureAdvances, ReregisterAdvances, ClientLeftAdvances
     DEF StartupTimeout
<1>1. ASSUME UNCHANGED <<pending, timers, clients, attempts>>
      PROVE  \A q \in Programs : Ahead(q)' <= Ahead(q)
  <2>1. \A q \in Programs \ {} :
         /\ q \in pending' <=> q \in pending
         /\ q \in timers' <=> q \in timers
         /\ q \in clients' <=> q \in clients
         /\ attempts'[q] = attempts[q]
    BY <1>1
  <2>2. {} \in SUBSET Programs /\ \A p \in {} : Ahead(p)' < Ahead(p)
    OBVIOUS
  <2> QED
    BY <2>1, <2>2, AloneAdvances
<1>2. ASSUME NEW p \in Programs, ProgramStep(p)
      PROVE  \A q \in Programs : Ahead(q)' <= Ahead(q)
  <2>0. watched \subseteq timers
    BY DEF StartupInv, Books, StartersAreTimed
  <2>1. CASE StartupTimeout(p)
    BY <2>1, FailureAdvances DEF StartupTimeout
  <2>2. CASE ChildExited(p)
    <3>1. CASE p \in starting
      BY <2>0, <2>2, <3>1, FailureAdvances DEF ChildExited
    <3>2. CASE p \notin starting
      BY <1>1, <2>2, <3>2 DEF ChildExited, ownerVars
    <3> QED
      BY <3>1, <3>2
  <2>3. CASE Reregister(p)
    BY <2>3, ReregisterAdvances
  <2>4. CASE ProgramRegisters(p)
    BY <2>4, RegisterNewAdvances DEF ProgramRegisters
  <2>5. CASE ClientLeft(p)
    BY <2>5, ClientLeftAdvances
  <2>6. ~ResetRestartAttempts(p)
    BY DEF ResetRestartAttempts
  <2>7. CASE \E h \in Hints : SetProperties(p, h)
    BY <1>1, <2>7 DEF SetProperties, ownerVars, watchVars
  <2> QED
    BY <1>2, <2>1, <2>2, <2>3, <2>4, <2>5, <2>6, <2>7 DEF ProgramStep
<1>3. ASSUME Begin PROVE \A q \in Programs : Ahead(q)' <= Ahead(q)
  BY <1>3, BeginAdvances
<1>4. ASSUME OutsiderRegisters
      PROVE  \A q \in Programs : Ahead(q)' <= Ahead(q)
  BY <1>4, RegisterNewAdvances DEF OutsiderRegisters
<1>5. ASSUME RegisterWithId PROVE \A q \in Programs : Ahead(q)' <= Ahead(q)
  BY <1>1, <1>5 DEF RegisterWithId, ownerVars, watchVars
<1>6. \A q \in Programs : Ahead(q)' <= Ahead(q)
  BY <1>2, <1>3, <1>4, <1>5 DEF Next
<1> QED
  BY <1>0, <1>6 DEF Advancing

\* While the manager is starting up a timeout is running, and there is
\* something to do when it ends.
LEMMA TimeoutLeads == StartupInv => TimeoutsLead
<1> SUFFICES ASSUME StartupInv, mgr = "STARTUP" PROVE TimeoutsLead
  BY DEF TimeoutsLead
<1>1. PICK p \in timers : p \in starting
  BY DEF StartupInv, Books, StartersAreTimed, NeverStranded
<1>2. PICK o \in {"parked", "freed"} : o \in FailureOutcomes(p)
  BY DEF FailureOutcomes
<1>3. pending \in SUBSET Programs
  BY DEF StartupInv, Books, TypeOK
<1>4. Follow(starting \ {p}, pending) # {}
  BY <1>3, LaunchPossible DEF Follow
<1> QED
  BY <1>2, <1>4 DEF TimeoutsLead

\* The start-up cannot go on for ever, for any number of programs, groups and
\* attempts: each program has a number of steps before it that never grows and
\* shrinks whenever the program is late, registers or is lost, and until the
\* manager is idle some timeout is running whose handler goes on
\* (xfsm_startup_timeout, xfsm_startup_session_continue).
THEOREM StartupAdvances ==
  Spec => [](Measured /\ TimeoutsLead) /\ [][Advancing]_vars
<1>1. StartupInv => Measured /\ TimeoutsLead
  BY AheadBounds, TimeoutLeads
<1>2. StartupInv /\ StartupInv' /\ [Next]_vars => [Advancing]_vars
  BY StepAdvances
<1> QED
  BY <1>1, <1>2, StartupHolds, PTL DEF Spec

=============================================================================
