---------------------------- MODULE SessionStartup ----------------------------
(***************************************************************************)
(* The start-up of xfce4-session: the programs of the saved session, or of *)
(* the failsafe session, are started one priority group after the other.   *)
(* A group is over when each of its programs has registered, has exited or *)
(* has let its start-up timeout pass; then the next group is started, and  *)
(* when none is left the manager enters its IDLE state, where              *)
(* SessionManager goes on.                                                 *)
(*                                                                         *)
(* A program stands for its XfsmProperties object, whose owners are the    *)
(* queues pending, starting and parked (manager->restart_properties) or    *)
(* the client that registered with its id.  The properties of the failsafe *)
(* session carry no client id, so a registration there cannot be matched   *)
(* with one of them: the manager only counts.                              *)
(*                                                                         *)
(* One action is one dispatch of the main loop.  Spawning a program may    *)
(* fail at any time.  Processes register, exit or stay silent as they      *)
(* like; other clients register during a failsafe start-up too.            *)
(***************************************************************************)
EXTENDS Integers, FiniteSets

CONSTANTS
  Programs,            \* the entries of the session that is started
  Prio,                \* their GsmPriority
  MaxRestartAttempts,  \* MAX_RESTART_ATTEMPTS
  MaxOutsiders         \* bound: other clients that register in the start-up

ASSUME StartupAssumption ==
  /\ IsFiniteSet(Programs)
  /\ Prio \in [Programs -> Nat]
  /\ MaxRestartAttempts \in Nat
  /\ MaxOutsiders \in Nat

\* SmRestartIfRunning, the default, also stands for SmRestartNever, and "none"
\* for properties without Program or RestartCommand.
Hints == {"IfRunning", "Anyway", "Immediately", "none"}

\* What one attempt to start a program comes to; the last three are what
\* becomes of it when it fails.
Outcomes == {"started", "restarted", "parked", "freed"}
Spawned == {"started", "restarted"}

VARIABLES
  mgr,              \* manager->state; "LOADED": STARTUP, but the idle callback
                    \* xfsm_manager_startup has not run yet
  failsafe,         \* manager->failsafe_mode
  hint,             \* SmRestartStyleHint of each program's properties
  pending,          \* manager->pending_properties
  starting,         \* manager->starting_properties
  parked,           \* manager->restart_properties
  clients,          \* programs whose properties a running client owns
  timers,           \* properties with a startup_timeout_id
  watched,          \* properties whose child_watch_id is the start-up watch
  attempts,         \* properties->restart_attempts
  resetTimer,       \* properties with a restart_attempts_reset_id
  failsafePending,  \* manager->failsafe_clients_pending
  silent,           \* programs with a process that has not registered
  failed,           \* programs that failed to start, exited or were late
  outsiders         \* other clients that registered in a failsafe start-up

ownerVars == <<pending, starting, parked, clients>>
watchVars == <<timers, watched>>
vars == <<mgr, failsafe, hint, ownerVars, watchVars, attempts, resetTimer,
          failsafePending, silent, failed, outsiders>>

TypeOK ==
  /\ mgr \in {"LOADED", "STARTUP", "IDLE", "UNDEFINED"}
  /\ failsafe \in BOOLEAN
  /\ hint \in [Programs -> Hints]
  /\ pending \subseteq Programs /\ starting \subseteq Programs
  /\ parked \subseteq Programs /\ clients \subseteq Programs
  /\ timers \subseteq Programs /\ watched \subseteq Programs
  /\ resetTimer \subseteq Programs
  /\ silent \subseteq Programs /\ failed \subseteq Programs
  /\ attempts \in [Programs -> 0 .. MaxRestartAttempts + 1]
  /\ failsafePending \in Int
  /\ outsiders \in 0 .. MaxOutsiders

-----------------------------------------------------------------------------
(* What becomes of programs.  An outcome function says for each program a  *)
(* dispatch handled what its attempt came to.                              *)

None == [p \in {} |-> "freed"]

With(f, p, o) == [q \in DOMAIN f \cup {p} |-> IF q = p THEN o ELSE f[q]]

\* Only so many restarts.  Mutant: one more.
MayRestartOnceMore(p) == attempts[p] <= MaxRestartAttempts
MayRestart(p) == attempts[p] < MaxRestartAttempts

\* xfsm_manager_handle_failed_properties: the hint decides, and the new
\* attempt may fail to spawn.
FailureOutcomes(p) ==
  IF hint[p] = "Anyway" THEN {"parked"}
  ELSE IF hint[p] # "Immediately" THEN {"freed"}
  ELSE IF MayRestart(p) THEN {"restarted", "parked"}
  ELSE {"parked"}

\* The loop of xfsm_startup_session_continue: groups are tried in turn until
\* one has a program that is started.  One that is only started again after
\* a failure to spawn does not count.  Mutant: every group is started.
LaunchesOfAll(queue) ==
  {f \in [queue -> Outcomes] :
     \A p \in queue : f[p] \in {"started"} \cup FailureOutcomes(p)}
Launches(queue) ==
  LET UpTo(p) == {q \in queue : Prio[q] <= Prio[p]}
      Fate(f, last) ==
        /\ \A p \in UpTo(last) :
             /\ f[p] \in {"started"} \cup FailureOutcomes(p)
             /\ f[p] = "started" => Prio[p] = Prio[last]
        /\ UpTo(last) = queue \/ \E p \in UpTo(last) : f[p] = "started"
  IN IF queue = {} THEN {None}
     ELSE UNION {{f \in [UpTo(last) -> Outcomes] : Fate(f, last)} :
                 last \in queue}

\* The programs with one of these outcomes.
Having(f, outcomes) == {p \in DOMAIN f : f[p] \in outcomes}

\* The g_source_remove of a start-up timeout.  Mutant: it is left running.
TimersKept(dropped) == timers
TimersWithout(dropped) == timers \ dropped

\* Everything xfsm_startup_start_properties and
\* xfsm_manager_handle_failed_properties do to the programs of f.  dropped:
\* the programs whose start-up timeout and watch the handler removed.
Settle(f, dropped) ==
  /\ parked' = parked \cup Having(f, {"parked"})
  /\ timers' = TimersWithout(dropped) \cup Having(f, Spawned)
  /\ watched' = (watched \ dropped) \cup Having(f, Spawned)
  /\ attempts' = [p \in Programs |->
       IF p \in Having(f, {"restarted", "parked"}) /\ hint[p] = "Immediately"
       THEN attempts[p] + 1 ELSE attempts[p]]
  /\ failed' = failed \cup Having(f, Outcomes \ {"started"})

\* A handler that leaves the queue left in starting_properties goes on with
\* the next group if that is empty.  Mutant: only if there is a next group.
DueIfPending(left, queue) == left = {} /\ mgr = "STARTUP" /\ queue # {}
Due(left, queue) == left = {} /\ mgr = "STARTUP"

\* What the programs such a handler tries come to, and the state of the
\* manager afterwards: done when a launch was due and started nothing.
\* Mutant: done when nothing is left to be launched.
Follow(left, queue) == IF Due(left, queue) THEN Launches(queue) ELSE {None}
AfterLaunchEarly(f, due) ==
  IF ~due THEN mgr ELSE IF DOMAIN f = pending THEN "IDLE" ELSE "STARTUP"
AfterLaunch(f, due) ==
  IF ~due THEN mgr
  ELSE IF Having(f, {"started"}) = {} THEN "IDLE" ELSE "STARTUP"

\* xfsm_manager_increase_failsafe_pending_clients, once per program tried.
\* Mutant: in the first launch only.
CountFirst(f, count) ==
  IF failsafe /\ mgr = "LOADED" THEN count + Cardinality(DOMAIN f) ELSE count
Count(f, count) == IF failsafe THEN count + Cardinality(DOMAIN f) ELSE count

Serving == mgr \in {"STARTUP", "IDLE"}

-----------------------------------------------------------------------------
(* Handlers.                                                               *)

\* xfsm_manager_startup, xfsm_startup_begin
Begin ==
  /\ mgr = "LOADED"
  /\ \E f \in Launches(pending) :
       /\ pending' = pending \ DOMAIN f
       /\ starting' = Having(f, Spawned)
       /\ Settle(f, {})
       /\ mgr' = AfterLaunch(f, TRUE)
       /\ failsafePending' = Count(f, failsafePending)
       /\ silent' = Having(f, Spawned)
  /\ UNCHANGED <<failsafe, hint, clients, resetTimer, outsiders>>

\* xfsm_startup_handle_failed_startup.  exited: the processes known to be gone.
HandleFailedStartup(p, exited) ==
  \E o \in FailureOutcomes(p) :
    LET left == IF o = "restarted" THEN starting \cup {p} ELSE starting \ {p}
    IN \E f \in Follow(left, pending) :
         /\ pending' = pending \ DOMAIN f
         /\ starting' = left \cup Having(f, Spawned)
         /\ Settle(With(f, p, o), {p})
         /\ mgr' = AfterLaunch(f, Due(left, pending))
         /\ failsafePending' = Count(f, failsafePending)
         /\ silent' = (silent \ exited) \cup Having(With(f, p, o), Spawned)
         /\ resetTimer' = resetTimer \ {p}
         /\ UNCHANGED <<failsafe, hint, clients, outsiders>>

\* xfsm_startup_timeout; the process is not killed.
StartupTimeout(p) ==
  /\ Serving
  /\ p \in timers
  /\ HandleFailedStartup(p, {})

\* xfsm_startup_child_watch: the exit of a program that is not starting any
\* more is only noted.
ChildExited(p) ==
  /\ Serving
  /\ p \in watched
  /\ \/ /\ p \in starting
        /\ HandleFailedStartup(p, {p})
     \/ /\ p \notin starting
        /\ watched' = watched \ {p}
        /\ silent' = silent \ {p}
        /\ UNCHANGED <<mgr, failsafe, hint, ownerVars, timers, attempts,
                       resetTimer, failsafePending, failed, outsiders>>

\* xfsm_manager_get_pending_properties: from starting, else from pending.
\* Mutant: an entry that is pending stays there.
TakeStarting(p) == pending
Take(p) == IF p \in starting THEN pending ELSE pending \ {p}

\* xfsm_manager_register_client with an id of the saved session, over XSMP
\* or D-Bus, by a program of the session or by one the user started.
Reregister(p) ==
  LET left == starting \ {p}
  IN /\ Serving
     /\ ~failsafe
     /\ p \in starting \cup pending
     /\ \E f \in Follow(left, Take(p)) :
          /\ pending' = Take(p) \ DOMAIN f
          /\ starting' = left \cup Having(f, Spawned)
          /\ Settle(f, {p})
          /\ mgr' = AfterLaunch(f, Due(left, Take(p)))
          /\ silent' = (silent \ {p}) \cup Having(f, Spawned)
     /\ clients' = clients \cup {p}
     /\ resetTimer' = IF attempts[p] > 0 THEN resetTimer \cup {p}
                                         ELSE resetTimer
     /\ UNCHANGED <<failsafe, hint, failsafePending, outsiders>>

\* xfsm_manager_register_client without an id.  In a failsafe start-up it is
\* counted, and the last one ends the group: the queue is emptied, but the
\* timeouts of what was in it keep running.
RegisterNew(who) ==
  LET count == failsafePending - 1
      left == IF count = 0 THEN {} ELSE starting
  IN /\ Serving
     /\ \/ /\ failsafe
           /\ mgr = "STARTUP"
           /\ \E f \in Follow(left, pending) :
                /\ pending' = pending \ DOMAIN f
                /\ starting' = left \cup Having(f, Spawned)
                /\ Settle(f, {})
                /\ mgr' = AfterLaunch(f, Due(left, pending))
                /\ failsafePending' = Count(f, count)
                /\ silent' = (silent \ who) \cup Having(f, Spawned)
           /\ UNCHANGED clients
        \/ /\ ~(failsafe /\ mgr = "STARTUP")
           /\ silent' = silent \ who
           /\ UNCHANGED <<mgr, ownerVars, watchVars, attempts,
                          failsafePending, failed>>
     /\ UNCHANGED <<failsafe, hint, resetTimer>>

ProgramRegisters(p) ==
  /\ p \in silent
  /\ RegisterNew({p})
  /\ UNCHANGED outsiders

OutsiderRegisters ==
  /\ failsafe
  /\ mgr = "STARTUP"
  /\ outsiders < MaxOutsiders
  /\ RegisterNew({})
  /\ outsiders' = outsiders + 1

\* In a failsafe start-up, a client that names an id, as every D-Bus client
\* does, is looked for among properties whose client_id is NULL, and strcmp
\* dereferences it.
RegisterWithId ==
  /\ Serving
  /\ failsafe
  /\ starting \cup pending # {}
  /\ mgr' = "UNDEFINED"
  /\ UNCHANGED <<failsafe, hint, ownerVars, watchVars, attempts, resetTimer,
                 failsafePending, silent, failed, outsiders>>

\* A client sets its restart hint, or deletes Program or RestartCommand.
SetProperties(p, h) ==
  /\ Serving
  /\ p \in clients
  /\ hint' = [hint EXCEPT ![p] = h]
  /\ UNCHANGED <<mgr, failsafe, ownerVars, watchVars, attempts, resetTimer,
                 failsafePending, silent, failed, outsiders>>

\* xfsm_manager_close_connection outside a save.
ClientLeft(p) ==
  /\ Serving
  /\ p \in clients
  /\ \E o \in FailureOutcomes(p) :
       /\ starting' = IF o = "restarted" THEN starting \cup {p} ELSE starting
       /\ Settle(With(None, p, o), {p})
       /\ silent' = IF o = "restarted" THEN silent \cup {p} ELSE silent
  /\ clients' = clients \ {p}
  /\ resetTimer' = resetTimer \ {p}
  /\ UNCHANGED <<mgr, failsafe, hint, pending, failsafePending, outsiders>>

\* xfsm_manager_reset_restart_attempts.  Bound: RESTART_RESET_TIMEOUT, five
\* minutes, is taken to be longer than a start-up, at most eight seconds a
\* group.
ResetRestartAttempts(p) ==
  /\ mgr = "IDLE"
  /\ p \in resetTimer
  /\ attempts' = [attempts EXCEPT ![p] = 0]
  /\ resetTimer' = resetTimer \ {p}
  /\ UNCHANGED <<mgr, failsafe, hint, ownerVars, watchVars, failsafePending,
                 silent, failed, outsiders>>

-----------------------------------------------------------------------------

\* xfsm_manager_load_session or, with default hints,
\* xfsm_manager_load_failsafe has filled the pending queue.
Init ==
  /\ mgr = "LOADED"
  /\ failsafe \in BOOLEAN
  /\ hint \in [Programs -> Hints \ {"none"}]
  /\ failsafe => \A p \in Programs : hint[p] = "IfRunning"
  /\ pending = Programs
  /\ starting = {} /\ parked = {} /\ clients = {}
  /\ timers = {} /\ watched = {}
  /\ attempts = [p \in Programs |-> 0]
  /\ resetTimer = {}
  /\ failsafePending = 0
  /\ silent = {} /\ failed = {}
  /\ outsiders = 0

ProgramStep(p) ==
  \/ StartupTimeout(p) \/ ChildExited(p)
  \/ Reregister(p) \/ ProgramRegisters(p)
  \/ ClientLeft(p) \/ ResetRestartAttempts(p)
  \/ \E h \in Hints : SetProperties(p, h)

Next ==
  \/ Begin
  \/ \E p \in Programs : ProgramStep(p)
  \/ OutsiderRegisters
  \/ RegisterWithId

Spec == Init /\ [][Next]_vars

\* GLib runs idle callbacks and expired timers; nothing is assumed of the
\* programs.
FairSpec ==
  Spec /\ WF_vars(Begin) /\ \A p \in Programs : WF_vars(StartupTimeout(p))

-----------------------------------------------------------------------------
(* Properties.                                                             *)

\* A program's properties are in one queue or with one client: freeing them
\* twice, or starting them while a client owns them, would need two owners.
PropertiesHaveOneOwner ==
  /\ pending \cap (starting \cup parked \cup clients) = {}
  /\ starting \cap (parked \cup clients) = {}
  /\ parked \cap clients = {}

\* What is starting has a timeout that ends the wait, and no timeout or
\* watch refers to properties that somebody else owns or that were freed;
\* only a counted failsafe group leaves timed properties that are in no queue.
StartersAreTimed ==
  /\ starting \cup watched \subseteq timers
  /\ timers \cap (pending \cup parked \cup clients) = {}
  /\ ~failsafe => timers = starting

\* In the start-up somebody is always starting: only the end of such a wait
\* goes on to the next group, so an empty queue would leave the manager in
\* STARTUP, where it refuses every request, for good.
NeverStranded == mgr = "STARTUP" => starting # {}

\* The counter of a failsafe start-up never skips zero, whatever fails.
CounterIsPositive ==
  mgr = "STARTUP" /\ failsafe => failsafePending >= 1

\* A program is started only when those of lower priority have registered,
\* exited, failed or timed out at least once; in a failsafe start-up, where
\* registrations are only counted, each outsider lets one of them be missed.
GroupsInOrder ==
  [][\A p \in pending \cap starting' :
       Cardinality({q \in silent' \ failed' : Prio[q] < Prio[p]})
         <= outsiders']_vars

\* The start-up ends, whatever the programs do.
StartupEnds == <>(mgr \notin {"LOADED", "STARTUP"})
=============================================================================
