--------------------------- MODULE SessionManager ---------------------------
(***************************************************************************)
(* The session manager of xfce4-session once startup is over: the client   *)
(* table, the save round (a checkpoint or a shutdown), the shutdown phase  *)
(* and the queues of saved properties.                                     *)
(*                                                                         *)
(* The daemon is one GLib main loop, so every handler is one atomic step;  *)
(* what interleaves is the order in which messages of clients, D-Bus       *)
(* calls, idle callbacks, timers and the nested loop of the logout dialog  *)
(* are dispatched.  Clients are of two kinds: XSMP clients (a SmsConn,     *)
(* X11 only) and D-Bus clients (no SmsConn).  A client here is a client    *)
(* id: the XfsmClient object that carries it while it is connected, and    *)
(* the XfsmProperties object that outlives the connection when the client  *)
(* is to be restarted.                                                     *)
(*                                                                         *)
(* The clients are not constrained: any registered client may send any     *)
(* message at any time.  The messages the manager emits in a step are the  *)
(* value of "sent" after it, so that a module of the client side can       *)
(* queue them and a property can speak about them.                         *)
(***************************************************************************)
EXTENDS Naturals, FiniteSets

CONSTANTS
  XsmpClients,         \* client ids that speak XSMP over ICE
  DBusClients,         \* client ids that registered over D-Bus
  XTerms,              \* XSMP clients whose Program property is "xterm"
  Stoppable,           \* clients that are told to stop more than they must
                       \* be: Terminate is called for them, and they answer
                       \* EndSession again (a bound)
  Hints,               \* the restart style hints clients set
  MaxRestartAttempts,  \* MAX_RESTART_ATTEMPTS
  Types,               \* the shutdown types that are requested or picked
  Wayland,             \* WINDOWING_IS_WAYLAND ()
  Bus                  \* stands for the D-Bus idle callback as dialog owner

ASSUME SessionAssumption ==
  /\ XsmpClients \cap DBusClients = {}
  /\ XTerms \subseteq XsmpClients
  /\ Stoppable \subseteq XsmpClients \cup DBusClients
  /\ Hints \subseteq {"IfRunning", "Anyway", "Immediately", "Never", "none"}
  /\ MaxRestartAttempts \in Nat
  /\ Types \subseteq {"ask", "logout", "halt", "sleep"}
  /\ Wayland \in BOOLEAN
  /\ Wayland => XsmpClients = {}
  /\ Bus \notin XsmpClients \cup DBusClients

Clients == XsmpClients \cup DBusClients

ManagerStates ==
  {"IDLE", "CHECKPOINT", "SHUTDOWN", "SHUTDOWNPHASE2", "QUIT", "UNDEFINED"}

ClientStates ==
  {"GONE", "CONNECTED", "IDLE", "INTERACTING", "SAVEDONE", "SAVING",
   "SAVINGLOCAL", "WAITFORINTERACT", "WAITFORPHASE2", "DISCONNECTED"}

\* "ask" lets the user choose; "halt" stands for shutdown and restart,
\* "sleep" for suspend, hibernate, hybrid sleep and switch user.
ShutdownTypes == {"logout", "halt", "sleep"}

Messages ==
  {"none", "SaveYourselfLocal", "SaveYourself", "SaveYourselfShutdown",
   "SaveYourselfPhase2", "SaveComplete", "Interact", "ShutdownCancelled",
   "Die", "Closed", "QueryEndSession", "EndSession", "CancelEndSession",
   "Stop"}

\* The 15 second sources of kill_hung_client.  A client knows one of them at
\* most, the last it began, and only until any of its sources has fired.
\*   held   clients whose quit_timeout is the id of a source
\*   lost   clients that also have sources whose ids are forgotten, any number
\*   stray  there are sources whose client has been released
KillTimers == [held : SUBSET DBusClients, lost : SUBSET DBusClients, stray : BOOLEAN]
NoKillTimer == [held |-> {}, lost |-> {}, stray |-> FALSE]

\* What a step writes to the sessions file: a group and the ids in it.
Nothing == [group |-> "none", ids |-> {}]
Writes == [group : {"none", "session", "checkpoint"}, ids : SUBSET Clients]

VARIABLES
  mgr,             \* manager->state, "QUIT" once main () returned
  cstate,          \* client->state; "GONE": no object, "CONNECTED": an XSMP
                   \* connection that has not registered yet
  saveTimer,       \* clients with a "--save-timeout-id"
  killTimer,       \* the sources behind the clients' quit_timeout
  dieTimer,        \* manager->die_timeout_id # 0
  props,           \* the restart hint in a client's properties, "none" while
                   \* Program and RestartCommand are not set
  starting,        \* manager->starting_properties
  restartProps,    \* manager->restart_properties
  attempts,        \* properties->restart_attempts
  resetTimer,      \* properties with a restart_attempts_reset_id
  saveSession,     \* manager->save_session
  checkpointName,  \* manager->checkpoint_session_name # NULL
  shutdownType,    \* manager->shutdown_type
  idleReq,         \* the callback behind manager->save_idle_id, if any
  dialog,          \* the logout dialog on the screen, if any
  sent,            \* the message emitted to each client in the last step
  stored           \* what the last step wrote to the sessions file

clientVars == <<cstate, saveTimer, killTimer>>
propVars   == <<props, starting, restartProps, attempts, resetTimer>>
reqVars    == <<shutdownType, idleReq, dialog>>
vars == <<mgr, clientVars, dieTimer, propVars, saveSession, checkpointName,
          reqVars, sent, stored>>

Requests ==
  [shutdown : BOOLEAN, type : ShutdownTypes \cup {"ask"}, save : BOOLEAN]

TypeOK ==
  /\ mgr \in ManagerStates
  /\ cstate \in [Clients -> ClientStates]
  /\ saveTimer \subseteq Clients
  /\ killTimer \in KillTimers
  /\ dieTimer \in BOOLEAN
  /\ props \in [Clients -> Hints \cup {"IfRunning", "none"}]
  /\ starting \subseteq Clients
  /\ restartProps \subseteq Clients
  /\ attempts \in [Clients -> 0 .. MaxRestartAttempts + 1]
  /\ resetTimer \subseteq Clients
  /\ saveSession \in BOOLEAN
  /\ checkpointName \in BOOLEAN
  /\ shutdownType \in ShutdownTypes
  /\ idleReq \subseteq Requests
  /\ dialog \subseteq [from : XsmpClients \cup {Bus}, save : BOOLEAN]
  /\ sent \in [Clients -> Messages]
  /\ stored \in Writes

-----------------------------------------------------------------------------
(* Helpers.  st is a client state function: a handler that changes the     *)
(* state of its client and then calls another passes the changed one on.   *)

Silence == [c \in Clients |-> "none"]

\* The clients in manager->running_clients.
Running(st) == {c \in Clients : st[c] \notin {"GONE", "CONNECTED"}}

\* XSMP clients whose connection is open.
Talking == {c \in XsmpClients \cap Running(cstate) : cstate[c] # "DISCONNECTED"}

\* While the dialog runs inside the dispatch of an ICE connection, GLib does
\* not dispatch that connection again.
Heard(c) == \A d \in dialog : d.from # c

\* xfsm_manager_check_clients_saving.  Mutants: a state is left out.
SavingStatesNoWait == {"SAVING", "INTERACTING"}
SavingStatesNoInteract == {"SAVING", "WAITFORINTERACT"}
SavingStates == {"SAVING", "WAITFORINTERACT", "INTERACTING"}
ClientsSaving(st) == \E c \in Clients : st[c] \in SavingStates

AwaitingPhase2(st) == {c \in Clients : st[c] = "WAITFORPHASE2"}

\* Mutant of EnterPhase2: the save timeouts are not started again.
EnterPhase2Untimed(st, timers, note) ==
  LET W == AwaitingPhase2(st)
  IN /\ cstate' = [c \in Clients |-> IF c \in W THEN "SAVING" ELSE st[c]]
     /\ saveTimer' = timers
     /\ sent' = [c \in Clients |->
                   IF c \in W THEN "SaveYourselfPhase2" ELSE note[c]]

\* xfsm_manager_maybe_enter_phase2, when some client waits for phase 2.
EnterPhase2(st, timers, note) ==
  LET W == AwaitingPhase2(st)
  IN /\ cstate' = [c \in Clients |-> IF c \in W THEN "SAVING" ELSE st[c]]
     /\ saveTimer' = timers \cup W
     /\ sent' = [c \in Clients |->
                   IF c \in W THEN "SaveYourselfPhase2" ELSE note[c]]

NotStored == stored' = Nothing /\ UNCHANGED checkpointName
Quiet == sent' = Silence /\ NotStored

\* xfsm_manager_store_session: the file is written, or it cannot be opened
\* (early return, the checkpoint name stays), or saving it fails.
StoreSession(st) ==
  LET group == IF mgr = "CHECKPOINT" /\ checkpointName
               THEN "checkpoint" ELSE "session"
      ids   == restartProps \cup
                 {c \in Running(st) : props[c] \notin {"none", "Never"}}
  IN \/ /\ stored' = [group |-> group, ids |-> ids]
        /\ checkpointName' = FALSE
     \/ /\ stored' = Nothing
        /\ checkpointName' \in {checkpointName, FALSE}

\* Mutant of PerformShutdown: no time limit is put on the die phase.
PerformShutdownUntimed(st, note) ==
  /\ mgr' = "SHUTDOWNPHASE2"
  /\ cstate' = st
  /\ sent' = [c \in Clients |->
                IF c \notin Running(st) THEN note[c]
                ELSE IF c \in XsmpClients THEN "Die" ELSE "EndSession"]
  /\ UNCHANGED dieTimer

\* xfsm_manager_perform_shutdown
PerformShutdown(st, note) ==
  /\ mgr' = "SHUTDOWNPHASE2"
  /\ cstate' = st
  /\ dieTimer' = TRUE
  /\ sent' = [c \in Clients |->
                IF c \notin Running(st) THEN note[c]
                ELSE IF c \in XsmpClients THEN "Die" ELSE "EndSession"]

\* Mutant of FinishCheckpoint: the clients stay as the save left them.
FinishCheckpointNoReset(st, note) ==
  /\ mgr' = "IDLE"
  /\ cstate' = st
  /\ sent' = note
  /\ UNCHANGED dieTimer

\* The reset of every client to idle that ends a checkpoint.
FinishCheckpoint(st, note) ==
  /\ mgr' = "IDLE"
  /\ cstate' = [c \in Clients |-> IF c \in Running(st) THEN "IDLE" ELSE st[c]]
  /\ sent' = [c \in Clients |->
                IF c \in Running(st) \cap XsmpClients THEN "SaveComplete"
                ELSE note[c]]
  /\ UNCHANGED dieTimer

\* Writing to a client whose connection is closed already uses a released
\* SmsConn: nothing is said of the program from here on.
UseReleasedSmsConn(st) ==
  /\ mgr' = "UNDEFINED"
  /\ cstate' = st
  /\ sent' = Silence
  /\ UNCHANGED dieTimer

\* xfsm_manager_complete_saveyourself
CompleteSaveYourself(st, timers, note) ==
  \/ /\ ClientsSaving(st)
     /\ cstate' = st
     /\ saveTimer' = timers
     /\ sent' = note
     /\ NotStored /\ UNCHANGED <<mgr, dieTimer>>
  \/ /\ ~ClientsSaving(st)
     /\ AwaitingPhase2(st) # {}
     /\ EnterPhase2(st, timers, note)
     /\ NotStored /\ UNCHANGED <<mgr, dieTimer>>
  \/ /\ ~ClientsSaving(st)
     /\ AwaitingPhase2(st) = {}
     /\ saveTimer' = timers
     /\ IF saveSession THEN StoreSession(st) ELSE NotStored
     /\ IF \E c \in XsmpClients : st[c] = "DISCONNECTED"
        THEN UseReleasedSmsConn(st)
        ELSE IF mgr = "CHECKPOINT" THEN FinishCheckpoint(st, note)
        ELSE PerformShutdown(st, note)

\* Freeing a client's XfsmProperties cancels its reset timer.  Mutant: it does
\* not.
FreePropertiesTimed(c) ==
  /\ props' = [props EXCEPT ![c] = "none"]
  /\ attempts' = [attempts EXCEPT ![c] = 0]
  /\ UNCHANGED resetTimer
FreeProperties(c) ==
  /\ props' = [props EXCEPT ![c] = "none"]
  /\ attempts' = [attempts EXCEPT ![c] = 0]
  /\ resetTimer' = resetTimer \ {c}

\* Only so many restarts.  Mutant: one more.
MayRestartOnceMore(c) == attempts[c] <= MaxRestartAttempts
MayRestart(c) == attempts[c] < MaxRestartAttempts

\* Properties that are not started again wait for the next session.
Park(c) ==
  /\ restartProps' = restartProps \cup {c}
  /\ resetTimer' = resetTimer \ {c}

\* xfsm_manager_handle_failed_properties; queue is what starting_properties
\* holds when it is called.
HandleFailedProperties(c, queue) ==
  \/ /\ props[c] = "Anyway"
     /\ Park(c)
     /\ starting' = queue
     /\ UNCHANGED <<props, attempts>>
  \/ /\ props[c] = "Immediately"
     /\ attempts' = [attempts EXCEPT ![c] = @ + 1]
     /\ \/ /\ MayRestart(c)    \* started again
           /\ starting' = queue \cup {c}
           /\ resetTimer' = resetTimer \ {c}
           /\ UNCHANGED restartProps
        \/ /\ Park(c)          \* too often, or it could not be spawned
           /\ starting' = queue
     /\ UNCHANGED props
  \/ /\ props[c] \notin {"Anyway", "Immediately"}
     /\ FreeProperties(c)
     /\ starting' = queue
     /\ UNCHANGED restartProps

-----------------------------------------------------------------------------
(* The end of a client's connection.                                       *)

\* What the client is told: IceCloseConnection, or the Stop signal.
CleanupNote(c, cleanup) ==
  [Silence EXCEPT ![c] = IF ~cleanup THEN "none"
                         ELSE IF c \in XsmpClients THEN "Closed" ELSE "Stop"]

\* xfsm_client_terminate begins one more source, and its id takes the place of
\* the one before, which runs on.
Terminated(timers, c) ==
  [timers EXCEPT !.held = @ \cup {c}, !.lost = @ \cup ({c} \cap timers.held)]

\* xfsm_client_finalize removes the source whose id is held, and no other.
Released(timers, c) ==
  [held  |-> timers.held \ {c},
   lost  |-> timers.lost \ {c},
   stray |-> timers.stray \/ c \in timers.lost]

\* A D-Bus client that is closed is told to stop.
KillTimersOfClosed(c, cleanup) ==
  IF cleanup /\ c \in DBusClients THEN Terminated(killTimer, c) ELSE killTimer

\* In the die phase the client stays in the list; the last one to leave ends
\* the session.  An unregistered connection is in no list and is just lost.
CloseInDiePhase(c, cleanup) ==
  LET st == [cstate EXCEPT ![c] =
               IF @ = "CONNECTED" THEN "GONE" ELSE "DISCONNECTED"]
  IN /\ mgr = "SHUTDOWNPHASE2"
     /\ cstate' = st
     /\ saveTimer' = saveTimer \ {c}
     /\ killTimer' = KillTimersOfClosed(c, cleanup)
     /\ sent' = CleanupNote(c, cleanup)
     /\ IF \A d \in Running(st) : st[d] = "DISCONNECTED"
        THEN /\ mgr' = "QUIT"
             /\ dieTimer' = FALSE
        ELSE UNCHANGED <<mgr, dieTimer>>
     /\ NotStored
     /\ UNCHANGED <<propVars>>

\* During a save the client is dropped with its properties, and the save is
\* completed if nobody else holds it up.
DropInSave(c, cleanup) ==
  /\ mgr \in {"CHECKPOINT", "SHUTDOWN"}
  /\ CompleteSaveYourself([cstate EXCEPT ![c] = "GONE"], saveTimer \ {c},
                          CleanupNote(c, cleanup))
  /\ IF cstate[c] = "CONNECTED" THEN UNCHANGED <<props, attempts, resetTimer>>
     ELSE FreeProperties(c)
  /\ UNCHANGED <<starting, restartProps>>

CloseInSave(c, cleanup) ==
  /\ DropInSave(c, cleanup)
  /\ killTimer' = Released(KillTimersOfClosed(c, cleanup), c)

\* Otherwise the restart hint decides what becomes of its properties; a
\* connection that has not registered has none.
CloseWhenIdle(c, cleanup) ==
  /\ mgr = "IDLE"
  /\ cstate' = [cstate EXCEPT ![c] = "GONE"]
  /\ saveTimer' = saveTimer \ {c}
  /\ killTimer' = Released(KillTimersOfClosed(c, cleanup), c)
  /\ sent' = CleanupNote(c, cleanup)
  /\ IF cstate[c] = "CONNECTED" THEN UNCHANGED propVars
     ELSE HandleFailedProperties(c, starting)
  /\ NotStored
  /\ UNCHANGED <<mgr, dieTimer>>

\* xfsm_manager_close_connection.  Outside the die phase the XfsmClient is
\* released, with the source its quit_timeout stands for by then.
CloseConnection(c, cleanup) ==
  /\ \/ CloseInDiePhase(c, cleanup)
     \/ CloseInSave(c, cleanup)
     \/ CloseWhenIdle(c, cleanup)
  /\ UNCHANGED <<saveSession, reqVars>>

\* A released client has been used.
UseAfterRelease ==
  /\ mgr' = "UNDEFINED"
  /\ Quiet
  /\ UNCHANGED <<clientVars, dieTimer, propVars, saveSession, reqVars>>

-----------------------------------------------------------------------------
(* Registration.                                                           *)

\* sm_new_client: the protocol is set up on a new ICE connection.
NewClient(c) ==
  /\ mgr = "IDLE"
  /\ cstate[c] = "GONE"
  /\ cstate' = [cstate EXCEPT ![c] = "CONNECTED"]
  /\ Quiet
  /\ UNCHANGED <<mgr, saveTimer, killTimer, dieTimer, propVars, saveSession, reqVars>>

\* xfsm_manager_get_pending_properties.  Mutant: they are left in the queue.
TakePropertiesShared(c) == c \in starting /\ UNCHANGED starting
TakeProperties(c) == c \in starting /\ starting' = starting \ {c}

\* A client that was restarted under its old id: its properties are taken
\* from starting_properties, and its attempts are forgiven after a while.
Reregister(c) ==
  /\ cstate[c] = (IF c \in XsmpClients THEN "CONNECTED" ELSE "GONE")
  /\ TakeProperties(c)
  /\ resetTimer' = IF attempts[c] > 0 THEN resetTimer \cup {c} ELSE resetTimer
  /\ cstate' = [cstate EXCEPT ![c] = "IDLE"]
  /\ Quiet
  /\ UNCHANGED <<mgr, saveTimer, killTimer, dieTimer, props, restartProps,
                 attempts, saveSession, reqVars>>

\* A first registration over XSMP gets a generated id, one no properties
\* carry, and is asked for an initial local save.
RegisterXsmp(c) ==
  /\ cstate[c] = "CONNECTED"
  /\ c \notin starting \cup restartProps
  /\ cstate' = [cstate EXCEPT ![c] = "SAVINGLOCAL"]
  /\ saveTimer' = saveTimer \cup {c}
  /\ sent' = [Silence EXCEPT ![c] = "SaveYourselfLocal"]
  /\ NotStored
  /\ UNCHANGED <<mgr, killTimer, dieTimer, propVars, saveSession,
                 reqVars>>

\* xfsm_manager_dbus_register_client: refused in no state of the manager.
\* Program and RestartCommand are read from the caller's process.
RegisterDBus(c) ==
  /\ cstate[c] = "GONE"
  /\ c \notin starting
  /\ cstate' = [cstate EXCEPT ![c] = "IDLE"]
  /\ props' = [props EXCEPT ![c] = "IfRunning"]
  /\ attempts' = [attempts EXCEPT ![c] = 0]
  /\ Quiet
  /\ UNCHANGED <<mgr, saveTimer, killTimer, dieTimer, starting, restartProps,
                 resetTimer, saveSession, reqVars>>

\* Setting and deleting properties, over XSMP or D-Bus; "none" is the deletion
\* of Program or RestartCommand.
SetProperties(c, hint) ==
  /\ c \in Talking \/ (c \in DBusClients /\ c \in Running(cstate))
  /\ props' = [props EXCEPT ![c] = hint]
  /\ Quiet
  /\ UNCHANGED <<mgr, clientVars, dieTimer, starting, restartProps, attempts,
                 resetTimer, saveSession, reqVars>>

\* xfsm_startup_timeout or xfsm_startup_child_watch of a started client.
StartupFailed(c) ==
  /\ c \in starting
  /\ HandleFailedProperties(c, starting \ {c})
  /\ Quiet
  /\ UNCHANGED <<mgr, clientVars, dieTimer, saveSession, reqVars>>

\* xfsm_manager_reset_restart_attempts
ResetRestartAttempts(c) ==
  /\ c \in resetTimer
  /\ attempts' = [attempts EXCEPT ![c] = 0]
  /\ resetTimer' = resetTimer \ {c}
  /\ Quiet
  /\ UNCHANGED <<mgr, clientVars, dieTimer, props, starting, restartProps,
                 saveSession, reqVars>>

-----------------------------------------------------------------------------
(* Requests for a save of the whole session.                               *)

\* The clients a global save addresses: it skips xterms.
Participants ==
  {c \in Running(cstate) : ~(c \in XTerms /\ props[c] # "none")}

\* A client in its local save is not asked again.
GlobalSaveNote(shutdown) ==
  [c \in Clients |->
     IF c \notin Participants THEN "none"
     ELSE IF c \in XsmpClients
     THEN IF cstate[c] = "SAVINGLOCAL" THEN "none"
          ELSE IF shutdown THEN "SaveYourselfShutdown" ELSE "SaveYourself"
     ELSE IF shutdown /\ cstate[c] # "SAVING" THEN "QueryEndSession" ELSE "none"]

\* Where a global save takes the manager; on Wayland a shutdown is over at
\* once.  Mutant: Wayland is treated as X11 is.
SaveTargetX11(shutdown) == IF shutdown THEN "SHUTDOWN" ELSE "CHECKPOINT"
SaveTarget(shutdown) ==
  IF ~shutdown THEN "CHECKPOINT" ELSE IF Wayland THEN "QUIT" ELSE "SHUTDOWN"

\* The second half of xfsm_manager_save_yourself_global; type is the
\* shutdown type by then.
GlobalSave(shutdown, type, save) ==
  IF \E c \in Participants \cap XsmpClients : cstate[c] = "DISCONNECTED"
  THEN /\ UseReleasedSmsConn(cstate)
       /\ shutdownType' = type
       /\ UNCHANGED <<saveTimer, saveSession>>
  ELSE /\ shutdownType' = type
       /\ saveSession' = (~shutdown \/ save)
       /\ cstate' = [c \in Clients |->
                       IF c \in Participants THEN "SAVING" ELSE cstate[c]]
       /\ saveTimer' = saveTimer \cup Participants
       /\ sent' = GlobalSaveNote(shutdown)
       /\ mgr' = SaveTarget(shutdown)

\* From the choice of the type on: suspending returns to the session as is.
ProceedWith(shutdown, type, save) ==
  IF shutdown /\ type = "sleep"
  THEN /\ shutdownType' = type
       /\ sent' = Silence
       /\ UNCHANGED <<mgr, cstate, saveTimer, saveSession>>
  ELSE GlobalSave(shutdown, type, save)

\* xfsm_logout_dialog, from the point of view of a caller that gets no answer
\* in this step: the dialog goes up, or one is up already and this request is
\* dropped.
AskUser(save, from) ==
  /\ dialog' = IF dialog = {} THEN {[from |-> from, save |-> save]} ELSE dialog
  /\ sent' = Silence
  /\ UNCHANGED <<mgr, cstate, saveTimer, saveSession, shutdownType>>

\* xfsm_manager_save_yourself_global.  allowed: the caller allows a shutdown
\* to save; whether it does is up to the kiosk and SaveOnExit settings too.
\* With the setting PromptOnLogout off, "ask" means logout.
SaveYourselfGlobal(shutdown, fast, type, allowed, from) ==
  /\ \E save \in IF allowed THEN BOOLEAN ELSE {FALSE} :
       LET prompts == shutdown /\ ~fast /\ type = "ask"
       IN \/ prompts /\ AskUser(save, from)
          \/ /\ prompts
             /\ ProceedWith(TRUE, "logout", save)
             /\ UNCHANGED dialog
          \/ /\ ~prompts
             /\ ProceedWith(shutdown,
                            IF shutdown /\ type # "ask" THEN type ELSE shutdownType,
                            save)
             /\ UNCHANGED dialog
  /\ NotStored
  /\ UNCHANGED <<killTimer, dieTimer, propVars>>

\* The user picks an action in the logout dialog.  The manager may be gone by
\* then: the nested loop does not end with the session.
DialogConfirmed ==
  \E d \in dialog, type \in Types \ {"ask"} :
    /\ dialog' = {}
    /\ IF mgr = "QUIT"
       THEN /\ mgr' = "UNDEFINED"
            /\ sent' = Silence
            /\ UNCHANGED <<cstate, saveTimer, saveSession, shutdownType>>
       ELSE ProceedWith(TRUE, type, d.save)
    /\ NotStored
    /\ UNCHANGED <<killTimer, dieTimer, propVars, idleReq>>

\* The user cancels the dialog.
DialogCancelled ==
  /\ dialog # {}
  /\ dialog' = {}
  /\ Quiet
  /\ UNCHANGED <<mgr, clientVars, dieTimer, propVars, saveSession,
                 shutdownType, idleReq>>

\* xfsm_manager_dbus_checkpoint, with a session name or with the empty one.
DBusCheckpoint(named) ==
  /\ mgr = "IDLE"
  /\ idleReq = {}
  /\ checkpointName' = named
  /\ idleReq' = {[shutdown |-> FALSE, type |-> "ask", save |-> TRUE]}
  /\ sent' = Silence
  /\ UNCHANGED <<mgr, clientVars, dieTimer, propVars, saveSession,
                 shutdownType, dialog>>
  /\ stored' = Nothing

\* xfsm_manager_save_yourself_dbus: Logout, Shutdown, Restart, Suspend ...
DBusShutdown(type, save) ==
  /\ mgr = "IDLE"
  /\ idleReq = {}
  /\ type = "sleep" => ~save
  /\ idleReq' = {[shutdown |-> TRUE, type |-> type, save |-> save]}
  /\ Quiet
  /\ UNCHANGED <<mgr, clientVars, dieTimer, propVars, saveSession,
                 shutdownType, dialog>>

\* xfsm_manager_dbus_checkpoint_idled, xfsm_manager_dbus_shutdown_idled: the
\* state of the manager is not looked at again.
RequestIdled ==
  \E r \in idleReq :
    /\ idleReq' = {}
    /\ SaveYourselfGlobal(r.shutdown, FALSE, r.type, r.save, Bus)

-----------------------------------------------------------------------------
(* Requests of one client.                                                 *)

Unchanged ==
  /\ NotStored
  /\ UNCHANGED <<killTimer, dieTimer, propVars, saveSession, reqVars>>

\* xfsm_manager_save_yourself: only from an idle client to an idle manager.
\* A local save.
SaveYourselfLocal(c) ==
  /\ mgr = "IDLE" /\ cstate[c] = "IDLE"
  /\ cstate' = [cstate EXCEPT ![c] = "SAVINGLOCAL"]
  /\ saveTimer' = saveTimer \cup {c}
  /\ sent' = [Silence EXCEPT ![c] = "SaveYourselfLocal"]
  /\ Unchanged /\ UNCHANGED mgr

\* A save of the session, with or without the end of it.
SaveYourselfOfSession(c, shutdown, fast) ==
  /\ mgr = "IDLE" /\ cstate[c] = "IDLE"
  /\ SaveYourselfGlobal(shutdown, fast, "ask", TRUE, c)
  /\ UNCHANGED idleReq

SaveYourself(c) ==
  /\ c \in Talking /\ Heard(c)
  /\ \/ SaveYourselfLocal(c)
     \/ \E shutdown, fast \in BOOLEAN : SaveYourselfOfSession(c, shutdown, fast)
     \/ /\ mgr # "IDLE" \/ cstate[c] # "IDLE"
        /\ CloseConnection(c, TRUE)

\* xfsm_manager_interact: the first client to ask interacts, the others wait.
\* Either way its save timeout is stopped.  Mutant: only if it interacts.
BeginInteractTimed(c, busy) ==
  /\ cstate' = [cstate EXCEPT ![c] =
                  IF busy THEN "WAITFORINTERACT" ELSE "INTERACTING"]
  /\ saveTimer' = IF busy THEN saveTimer ELSE saveTimer \ {c}
  /\ sent' = [Silence EXCEPT ![c] = IF busy THEN "none" ELSE "Interact"]
BeginInteract(c, busy) ==
  /\ cstate' = [cstate EXCEPT ![c] =
                  IF busy THEN "WAITFORINTERACT" ELSE "INTERACTING"]
  /\ saveTimer' = saveTimer \ {c}
  /\ sent' = [Silence EXCEPT ![c] = IF busy THEN "none" ELSE "Interact"]

InteractRequest(c) ==
  /\ c \in Talking /\ Heard(c)
  /\ IF cstate[c] = "SAVING" /\ mgr \in {"CHECKPOINT", "SHUTDOWN"}
     THEN /\ BeginInteract(c, \E d \in Clients : cstate[d] = "INTERACTING")
          /\ Unchanged /\ UNCHANGED mgr
     ELSE CloseConnection(c, TRUE)

\* The client goes on saving.  Mutant: its state is forgotten.
ResumedNot(c) == cstate
Resumed(c) == [cstate EXCEPT ![c] = "SAVING"]

\* xfsm_manager_interact_done with cancel-shutdown in a shutdown.  The state
\* set in the loop is that of c, not of the client the loop is at, and the
\* D-Bus signal is emitted on c as well.
CancelShutdown(c) ==
  /\ mgr' = "CHECKPOINT"
  /\ cstate' = Resumed(c)
  /\ sent' = [d \in Clients |->
                IF d = c
                THEN IF DBusClients \cap Running(cstate) # {}
                     THEN "CancelEndSession" ELSE "none"
                ELSE IF d \in XsmpClients /\ cstate[d] = "WAITFORINTERACT"
                THEN "ShutdownCancelled" ELSE "none"]
  /\ saveTimer' = saveTimer \cup {c}

\* Otherwise the next waiting client interacts.
NextInteracts(c) ==
  LET waiting == {d \in Clients : cstate[d] = "WAITFORINTERACT"}
      resumed == Resumed(c)
  IN /\ \/ /\ waiting = {}
           /\ cstate' = resumed
           /\ sent' = Silence
           /\ saveTimer' = saveTimer \cup {c}
        \/ \E d \in waiting :    \* the first in the list, whichever it is
             /\ cstate' = [resumed EXCEPT ![d] = "INTERACTING"]
             /\ sent' = [Silence EXCEPT ![d] = "Interact"]
             /\ saveTimer' = (saveTimer \ {d}) \cup {c}
     /\ UNCHANGED mgr

InteractDone(c, cancel) ==
  /\ c \in Talking /\ Heard(c)
  /\ IF cstate[c] = "INTERACTING" /\ mgr \in {"CHECKPOINT", "SHUTDOWN"}
     THEN /\ IF cancel /\ mgr = "SHUTDOWN" THEN CancelShutdown(c)
             ELSE NextInteracts(c)
          /\ Unchanged
     ELSE CloseConnection(c, TRUE)

\* xfsm_manager_save_yourself_phase2.  Outside a save of the session it is
\* granted at once, as a local save.
SaveYourselfPhase2(c) ==
  /\ c \in Talking /\ Heard(c)
  /\ IF mgr \in {"CHECKPOINT", "SHUTDOWN"}
     THEN LET st == [cstate EXCEPT ![c] = "WAITFORPHASE2"]
          IN IF ClientsSaving(st)
             THEN /\ cstate' = st
                  /\ saveTimer' = saveTimer \ {c}
                  /\ sent' = Silence
             ELSE EnterPhase2(st, saveTimer \ {c}, Silence)
     ELSE /\ cstate' = [cstate EXCEPT ![c] = "SAVINGLOCAL"]
          /\ saveTimer' = saveTimer \cup {c}
          /\ sent' = [Silence EXCEPT ![c] = "SaveYourselfPhase2"]
  /\ Unchanged /\ UNCHANGED mgr

\* xfsm_manager_save_yourself_done.
LocalSaveDone(c) ==
  /\ cstate[c] = "SAVINGLOCAL"
  /\ cstate' = [cstate EXCEPT ![c] = "IDLE"]
  /\ saveTimer' = saveTimer \ {c}
  /\ sent' = [Silence EXCEPT ![c] = "SaveComplete"]
  /\ Unchanged /\ UNCHANGED mgr

GlobalSaveDone(c) ==
  /\ cstate[c] \in {"SAVING", "WAITFORINTERACT"}
  /\ IF mgr \in {"CHECKPOINT", "SHUTDOWN"}
     THEN /\ CompleteSaveYourself([cstate EXCEPT ![c] = "SAVEDONE"],
                                  saveTimer \ {c}, Silence)
          /\ UNCHANGED <<killTimer, propVars, saveSession, reqVars>>
     ELSE CloseConnection(c, TRUE)

\* A client in no saving state is closed, and then the handler goes on with
\* the client it has just closed.  An XSMP client is released by then, or its
\* SmsConn is.  The dispatch of a D-Bus call keeps its client alive: what is
\* left to do changes nothing, unless the close began the die phase, in which
\* the client is closed and told to stop once more, and the session ends if
\* nobody else is left.
UnexpectedDone(c) ==
  LET st == [cstate EXCEPT ![c] = "GONE"]
      leavesNobody == \A d \in Running(st) :
                        d \in DBusClients /\ st[d] = "DISCONNECTED"
      stopped == Terminated(killTimer, c)
      stoppedTwice == Terminated(stopped, c)
  IN /\ cstate[c] \notin {"SAVING", "SAVINGLOCAL", "WAITFORINTERACT"}
     /\ \/ c \in XsmpClients /\ UseAfterRelease
        \/ /\ c \in DBusClients /\ leavesNobody
           /\ mgr' = "QUIT"
           /\ dieTimer' = FALSE
           /\ cstate' = st
           /\ saveTimer' = saveTimer \ {c}
           /\ sent' = CleanupNote(c, TRUE)
           /\ IF saveSession THEN StoreSession(st) ELSE NotStored
           /\ killTimer' = Released(stoppedTwice, c)
           /\ FreeProperties(c)
           /\ UNCHANGED <<starting, restartProps, saveSession, reqVars>>
        \/ /\ c \in DBusClients /\ ~leavesNobody
           /\ DropInSave(c, TRUE)
           /\ killTimer' = Released(IF mgr' = "SHUTDOWNPHASE2" THEN stoppedTwice
                                   ELSE stopped, c)
           /\ UNCHANGED <<saveSession, reqVars>>

HandleSaveYourselfDone(c) ==
  LocalSaveDone(c) \/ GlobalSaveDone(c) \/ UnexpectedDone(c)

SaveYourselfDone(c) == c \in Talking /\ Heard(c) /\ HandleSaveYourselfDone(c)

\* xfsm_client_dbus_end_session_response: the answer itself (is_ok) is
\* ignored.  In the die phase each answer closes the client once more; only a
\* Stoppable one gives a second.
EndSessionResponse(c) ==
  /\ c \in DBusClients \cap Running(cstate)
  /\ \/ mgr = "SHUTDOWN" /\ HandleSaveYourselfDone(c)
     \/ /\ mgr = "SHUTDOWNPHASE2"
        /\ cstate[c] = "DISCONNECTED" => c \in Stoppable
        /\ CloseConnection(c, TRUE)

\* xfsm_manager_terminate_client, called by the D-Bus method Terminate, which
\* leaves the client idle: it can be called again.
Terminate(c) ==
  /\ c \in Stoppable
  /\ mgr = "IDLE" /\ cstate[c] = "IDLE"
  /\ sent' = [Silence EXCEPT ![c] = IF c \in XsmpClients THEN "Die" ELSE "Stop"]
  /\ killTimer' = IF c \in DBusClients THEN Terminated(killTimer, c) ELSE killTimer
  /\ NotStored
  /\ UNCHANGED <<mgr, cstate, saveTimer, dieTimer, propVars, saveSession, reqVars>>

\* sm_close_connection
CloseRequest(c) ==
  /\ c \in Talking \/ cstate[c] = "CONNECTED"
  /\ c \in XsmpClients /\ Heard(c)
  /\ CloseConnection(c, TRUE)

\* xfsm_manager_close_connection_by_ice_conn: the connection broke.  One that
\* has not registered is not found in the list.
IceError(c) ==
  /\ Heard(c)
  /\ \/ c \in Talking /\ CloseConnection(c, FALSE)
     \/ /\ cstate[c] = "CONNECTED"
        /\ cstate' = [cstate EXCEPT ![c] = "GONE"]
        /\ sent' = Silence
        /\ NotStored
        /\ UNCHANGED <<mgr, saveTimer, killTimer, dieTimer, propVars,
                       saveSession, reqVars>>

\* xfsm_manager_dbus_unregister_client, on_name_owner_notify
DBusClientLeft(c) ==
  /\ c \in DBusClients \cap Running(cstate)
  /\ CloseConnection(c, FALSE)

-----------------------------------------------------------------------------
(* Timers.                                                                 *)

\* xfsm_manager_save_timeout
SaveTimeout(c) ==
  /\ c \in saveTimer
  /\ CloseConnection(c, TRUE)

\* manager_quit_signal
DieTimeout ==
  /\ dieTimer
  /\ mgr' = "QUIT"
  /\ dieTimer' = FALSE
  /\ Quiet
  /\ UNCHANGED <<clientVars, propVars, saveSession, reqVars>>

\* kill_hung_client: what follows is that its bus name vanishes.  It clears
\* quit_timeout, whichever of the client's sources has fired, so that a source
\* begun later is forgotten; of the forgotten ones it may be the last.
KillHungClient(c) ==
  /\ c \in killTimer.held \cup killTimer.lost
  /\ LET cleared == [killTimer EXCEPT !.held = @ \ {c}]
     IN killTimer' \in IF c \in killTimer.held THEN {cleared}
                       ELSE {cleared, [cleared EXCEPT !.lost = @ \ {c}]}
  /\ Quiet
  /\ UNCHANGED <<mgr, cstate, saveTimer, dieTimer, propVars, saveSession, reqVars>>

\* kill_hung_client of a client that has been released.
KillReleasedClient == killTimer.stray /\ UseAfterRelease

-----------------------------------------------------------------------------
(* The state in which xfsm_manager_signal_startup_done leaves a session    *)
(* with nothing to restore; manager_init gave shutdown_type LOGOUT.        *)
Init ==
  /\ mgr = "IDLE"
  /\ cstate = [c \in Clients |-> "GONE"]
  /\ saveTimer = {}
  /\ killTimer = NoKillTimer
  /\ dieTimer = FALSE
  /\ props = [c \in Clients |-> "none"]
  /\ starting = {}
  /\ restartProps = {}
  /\ attempts = [c \in Clients |-> 0]
  /\ resetTimer = {}
  /\ saveSession = TRUE
  /\ checkpointName = FALSE
  /\ shutdownType = "logout"
  /\ idleReq = {}
  /\ dialog = {}
  /\ sent = Silence
  /\ stored = Nothing

XsmpStep(c) ==
  \/ NewClient(c) \/ RegisterXsmp(c)
  \/ SaveYourself(c) \/ SaveYourselfPhase2(c) \/ SaveYourselfDone(c)
  \/ InteractRequest(c)
  \/ \E cancel \in BOOLEAN : InteractDone(c, cancel)
  \/ CloseRequest(c) \/ IceError(c)

DBusStep(c) == RegisterDBus(c) \/ EndSessionResponse(c) \/ DBusClientLeft(c)

ClientStep(c) ==
  \/ Reregister(c) \/ Terminate(c)
  \/ \E hint \in Hints : SetProperties(c, hint)

TimerStep(c) ==
  \/ SaveTimeout(c) \/ KillHungClient(c)
  \/ StartupFailed(c) \/ ResetRestartAttempts(c)

RequestStep ==
  \/ \E named \in BOOLEAN : DBusCheckpoint(named)
  \/ \E type \in Types, save \in BOOLEAN :
       DBusShutdown(type, save)
  \/ RequestIdled

DialogStep == DialogConfirmed \/ DialogCancelled

Alive == mgr \notin {"QUIT", "UNDEFINED"}

Next ==
  \/ /\ Alive
     /\ \/ \E c \in XsmpClients : XsmpStep(c)
        \/ \E c \in DBusClients : DBusStep(c)
        \/ \E c \in Clients : ClientStep(c) \/ TimerStep(c)
        \/ RequestStep
        \/ DieTimeout \/ KillReleasedClient
  \/ /\ mgr # "UNDEFINED"
     /\ DialogStep

Spec == Init /\ [][Next]_vars

\* The main loop dispatches every timer that has expired.
TimersFair ==
  /\ \A c \in Clients : WF_vars(Alive /\ SaveTimeout(c))
  /\ WF_vars(Alive /\ DieTimeout)

\* The user answers the dialog of a client that interacts.
UsersFair ==
  \A c \in XsmpClients :
    WF_vars(/\ Alive /\ cstate[c] = "INTERACTING"
            /\ \E cancel \in BOOLEAN : InteractDone(c, cancel))

FairSpec == Spec /\ TimersFair
UserSpec == FairSpec /\ UsersFair

-----------------------------------------------------------------------------
(* Safety.                                                                 *)

\* At most one client holds the user's attention: the grants of
\* xfsm_manager_interact and the hand-over of xfsm_manager_interact_done do
\* not cross, whatever restarts of the save come in between.
OneInteracts ==
  \A c, d \in Clients :
    cstate[c] = "INTERACTING" /\ cstate[d] = "INTERACTING" => c = d

\* No save depends on a client alone: whoever the manager waits for without
\* the user being involved has a save timeout running.
SaversAreTimed ==
  \A c \in Clients : cstate[c] \in {"SAVING", "SAVINGLOCAL"} => c \in saveTimer

\* The user is never rushed: a client that interacts, or waits for the
\* manager to let it go on, has no save timeout left over.
WaitersAreNotTimed ==
  \A c \in Clients :
    cstate[c] \in {"INTERACTING", "WAITFORINTERACT", "WAITFORPHASE2"} =>
      c \notin saveTimer

\* The state of the manager and those of its clients agree: in IDLE no client
\* is left in the middle of a save, and nobody is still saving when the
\* clients have been told to die.
StatesAgree ==
  /\ mgr = "IDLE" =>
       \A c \in Clients :
         cstate[c] \in {"GONE", "CONNECTED", "IDLE", "SAVINGLOCAL"}
  /\ mgr = "SHUTDOWNPHASE2" =>
       \A c \in Clients :
         cstate[c] \in {"GONE", "CONNECTED", "IDLE", "SAVINGLOCAL", "SAVEDONE",
                       "DISCONNECTED"}

\* Properties have one owner: those of an XSMP client are held by the client
\* while it runs, or by one of the queues, so that they are neither freed nor
\* stored twice.
PropertiesHaveOneOwner ==
  /\ starting \cap restartProps \cap XsmpClients = {}
  /\ Running(cstate) \cap XsmpClients \cap (starting \cup restartProps) = {}

\* No save timeout outlives its client, and no timer that forgives restart
\* attempts the properties it works on, which such a client holds.  Of the kill
\* timeouts the same cannot be said: see KillTimersHaveClients in
\* SessionClaims.
TimersHaveClients == saveTimer \cup resetTimer \subseteq Running(cstate)

\* A client that keeps dying is not restarted for ever: between two times its
\* attempts are forgiven it is started MAX_RESTART_ATTEMPTS times at most,
\* and they are never forgiven while it has yet to come back.
RestartsAreBounded ==
  \A c \in starting : attempts[c] \in 1 .. MaxRestartAttempts

\* What keeps the count of restarts within its bound: no properties that have
\* reached the limit are started or handed to a client again, and properties
\* nobody holds count from 0.
Ledger ==
  /\ \A c \in Clients : cstate[c] = "CONNECTED" => c \in XsmpClients
  /\ starting \cap Running(cstate) = {}
  /\ \A c \in Running(cstate) \cup starting :
       attempts[c] \in 0 .. MaxRestartAttempts
  /\ \A c \in Clients \ (Running(cstate) \cup starting \cup restartProps) :
       attempts[c] = 0

\* Phase 2 is a barrier: when a client enters it in a save of the session,
\* every client that is saving then is one that enters it too.
Phase2IsBarrier ==
  [][(mgr \in {"CHECKPOINT", "SHUTDOWN"}
        /\ \E c \in Clients : sent'[c] = "SaveYourselfPhase2")
     => \A c \in Clients :
          cstate'[c] \in {"SAVING", "WAITFORINTERACT", "INTERACTING"} =>
            sent'[c] = "SaveYourselfPhase2"]_vars

\* The sessions file is written once per save, when every client is through
\* with it, and a shutdown goes on to the die phase in the same step.
StoredWhenAllSaved ==
  [][stored' # Nothing
     => /\ mgr \in {"CHECKPOINT", "SHUTDOWN"}
        /\ mgr' \in (IF mgr = "CHECKPOINT" THEN {"IDLE", "UNDEFINED"}
                     ELSE {"SHUTDOWNPHASE2", "QUIT", "UNDEFINED"})
        /\ \A c \in Clients :
             cstate'[c] \in {"GONE", "CONNECTED", "IDLE", "SAVINGLOCAL",
                            "SAVEDONE", "DISCONNECTED"}]_vars

\* On Wayland a shutdown ends the session on the spot, so only a checkpoint
\* ever writes the sessions file, whatever SaveOnExit says.
OnlyCheckpointsStore ==
  [][Wayland /\ stored' # Nothing => mgr = "CHECKPOINT"]_vars

-----------------------------------------------------------------------------
(* The manager of a session with something to restore.                     *)

\* What a start-up may leave to the manager, whichever programs registered in
\* it, exited, failed or were too slow: what is starting still are restarts of
\* programs that failed, and XSMP clients may be in their initial local save,
\* or have connected and not registered.  The save and shutdown requests that
\* came in the start-up have been refused.
HandedOver ==
  /\ mgr = "IDLE"
  /\ cstate \in [Clients -> {"GONE", "CONNECTED", "IDLE", "SAVINGLOCAL"}]
  /\ \A c \in DBusClients : cstate[c] \in {"GONE", "IDLE"}
  /\ saveTimer = {c \in Clients : cstate[c] = "SAVINGLOCAL"}
  /\ killTimer = NoKillTimer
  /\ dieTimer = FALSE
  /\ starting \in SUBSET Clients
  /\ restartProps \in SUBSET Clients
  /\ props \in [Clients -> Hints \cup {"IfRunning", "none"}]
  /\ \A c \in starting : props[c] = "Immediately"
  /\ \A c \in restartProps \ Running(cstate) :
       props[c] \in {"Anyway", "Immediately"}
  /\ \A c \in Clients \ (Running(cstate) \cup starting \cup restartProps) :
       props[c] = "none"
  /\ attempts \in [Clients -> 0 .. MaxRestartAttempts + 1]
  /\ resetTimer = {c \in Running(cstate) : attempts[c] > 0}
  /\ PropertiesHaveOneOwner /\ RestartsAreBounded /\ Ledger
  /\ saveSession = TRUE
  /\ checkpointName = FALSE
  /\ shutdownType = "logout"
  /\ idleReq = {}
  /\ dialog = {}
  /\ sent = Silence
  /\ stored = Nothing

RestoredSpec == HandedOver /\ [][Next]_vars

-----------------------------------------------------------------------------
(* Liveness.                                                               *)

\* A client is not saving for ever: it answers or its timeout removes it.
SavingEnds ==
  \A c \in Clients : cstate[c] = "SAVING" ~> cstate[c] # "SAVING" \/ ~Alive

\* The die phase ends the session.
DieEnds == mgr = "SHUTDOWNPHASE2" ~> ~Alive
=============================================================================
