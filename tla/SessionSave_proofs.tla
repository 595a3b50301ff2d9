------------------------- MODULE SessionSave_proofs -------------------------
(***************************************************************************)
(* Proofs about the save round of SessionManager: who is timed, who        *)
(* interacts, and that the states of the manager and of its clients agree. *)
(***************************************************************************)
EXTENDS SessionManager_proofs

-----------------------------------------------------------------------------
(* The invariant, for a client state function and a set of timers: the     *)
(* handlers pass changed ones on to one another.                           *)

Timed(st, timers) ==
  \A c \in Clients :
    /\ st[c] \in {"SAVING", "SAVINGLOCAL"} => c \in timers
    /\ st[c] \in {"INTERACTING", "WAITFORINTERACT", "WAITFORPHASE2"} =>
         c \notin timers

OneTurn(st) ==
  \A c, d \in Clients : st[c] = "INTERACTING" /\ st[d] = "INTERACTING" => c = d

SaveInv == SaversAreTimed /\ WaitersAreNotTimed /\ OneInteracts /\ StatesAgree

\* The invariant in the terms of the lemmas.
LEMMA SaveInvParts ==
  /\ SaveInv <=> Timed(cstate, saveTimer) /\ OneTurn(cstate) /\ StatesAgree
  /\ SaveInv' <=> Timed(cstate', saveTimer') /\ OneTurn(cstate') /\ StatesAgree'
  BY DEF SaveInv, SaversAreTimed, WaitersAreNotTimed, OneInteracts, Timed,
         OneTurn

\* A start-up leaves no save but local ones, which are timed.
LEMMA HandoverSave == HandedOver => SaveInv
  BY DEF HandedOver, SaveInv, SaversAreTimed, WaitersAreNotTimed, OneInteracts,
         StatesAgree

\* A step of one client, from one state to another with its own timer, keeps
\* the invariant if the two fit each other.
LEMMA OneMoves ==
  ASSUME TypeOK, SaveInv, NEW c \in Clients,
         \A d \in Clients \ {c} :
           cstate'[d] = cstate[d] /\ (d \in saveTimer' <=> d \in saveTimer),
         cstate'[c] \in {"SAVING", "SAVINGLOCAL"} => c \in saveTimer',
         cstate'[c] \in {"INTERACTING", "WAITFORINTERACT", "WAITFORPHASE2"} =>
           c \notin saveTimer',
         cstate'[c] = "INTERACTING" =>
           \A d \in Clients \ {c} : cstate[d] # "INTERACTING",
         \/ mgr' \notin {"IDLE", "SHUTDOWNPHASE2"}
         \/ mgr' = mgr /\ cstate'[c] \in {"GONE", "CONNECTED", "IDLE", "SAVINGLOCAL"}
         \/ /\ mgr' = mgr /\ mgr' = "SHUTDOWNPHASE2"
            /\ cstate'[c] \in {"SAVEDONE", "DISCONNECTED"}
  PROVE  SaveInv'
<1>1. SaversAreTimed' /\ WaitersAreNotTimed'
  BY DEF SaveInv, SaversAreTimed, WaitersAreNotTimed
<1>2. OneInteracts'
  BY DEF SaveInv, OneInteracts
<1>3. StatesAgree'
  BY DEF SaveInv, StatesAgree
<1> QED
  BY <1>1, <1>2, <1>3 DEF SaveInv

\* A step that changes no client and no save timeout, and leaves the manager
\* where it is or ends it.
LEMMA NobodyMoves ==
  ASSUME SaveInv, UNCHANGED <<cstate, saveTimer>>,
         mgr' = mgr \/ mgr' \in {"QUIT", "UNDEFINED"}
  PROVE  SaveInv'
  BY DEF SaveInv, SaversAreTimed, WaitersAreNotTimed, OneInteracts, StatesAgree

\* Completing a save keeps the invariant: the die phase and the reset to idle
\* begin only when nobody is saving, waiting or interacting, and phase 2 puts
\* everybody who enters it under a timeout.
LEMMA CompleteSaveSafe ==
  ASSUME NEW st \in [Clients -> ClientStates], NEW timers \in SUBSET Clients,
         NEW note, Timed(st, timers), OneTurn(st),
         mgr \in {"CHECKPOINT", "SHUTDOWN"},
         CompleteSaveYourself(st, timers, note)
  PROVE  SaveInv'
<1>1. CASE cstate' = st /\ saveTimer' = timers /\ UNCHANGED mgr
  BY <1>1, SaveInvParts DEF StatesAgree
<1>2. CASE EnterPhase2(st, timers, note) /\ UNCHANGED mgr
  <2>1. /\ cstate' \in [Clients -> ClientStates]
        /\ \A c \in Clients : cstate'[c] = IF st[c] = "WAITFORPHASE2"
                                           THEN "SAVING" ELSE st[c]
        /\ \A c \in Clients : st[c] = "WAITFORPHASE2" => c \in saveTimer'
        /\ \A c \in Clients : st[c] # "WAITFORPHASE2" =>
             (c \in saveTimer' <=> c \in timers)
    BY <1>2 DEF EnterPhase2, AwaitingPhase2, ClientStates
  <2>2. Timed(cstate', saveTimer')
    BY <2>1 DEF Timed
  <2>3. OneTurn(cstate')
    BY <2>1 DEF OneTurn
  <2> QED
    BY <1>2, <2>2, <2>3, SaveInvParts DEF StatesAgree
<1>3. CASE /\ saveTimer' = timers /\ ~ClientsSaving(st)
           /\ AwaitingPhase2(st) = {} /\ PerformShutdown(st, note)
  <2>1. \A c \in Clients :
          st[c] \in {"GONE", "CONNECTED", "IDLE", "SAVINGLOCAL", "SAVEDONE",
                     "DISCONNECTED"}
    BY <1>3 DEF ClientsSaving, SavingStates, AwaitingPhase2, ClientStates
  <2>2. StatesAgree'
    BY <1>3, <2>1 DEF PerformShutdown, StatesAgree
  <2> QED
    BY <1>3, <2>2, SaveInvParts DEF PerformShutdown
<1>4. CASE saveTimer' = timers /\ FinishCheckpoint(st, note)
  <2>1. \A c \in Clients : cstate'[c] \in {"GONE", "CONNECTED", "IDLE"}
    BY <1>4 DEF FinishCheckpoint, Running
  <2> QED
    BY <1>4, <2>1, SaveInvParts
    DEF FinishCheckpoint, Timed, OneTurn, StatesAgree
<1>5. CASE saveTimer' = timers /\ UseReleasedSmsConn(st)
  BY <1>5, SaveInvParts DEF UseReleasedSmsConn, StatesAgree
<1> QED
  BY <1>1, <1>2, <1>3, <1>4, <1>5 DEF CompleteSaveYourself

\* In a save, who leaves takes its timeout along, and the save is completed for
\* the others.
LEMMA DropInSaveSafe ==
  ASSUME TypeOK, SaveInv, NEW c \in Clients, NEW cleanup \in BOOLEAN,
         DropInSave(c, cleanup)
  PROVE  SaveInv'
<1> DEFINE st == [cstate EXCEPT ![c] = "GONE"]
<1>1. cstate \in [Clients -> ClientStates] /\ saveTimer \ {c} \in SUBSET Clients
  BY DEF TypeOK
<1>2. st \in [Clients -> ClientStates]
      /\ \A d \in Clients : st[d] = IF d = c THEN "GONE" ELSE cstate[d]
  BY <1>1 DEF ClientStates
<1>3. CompleteSaveYourself(st, saveTimer \ {c}, CleanupNote(c, cleanup))
      /\ mgr \in {"CHECKPOINT", "SHUTDOWN"}
  BY DEF DropInSave
<1> HIDE DEF st
<1>4. Timed(st, saveTimer \ {c}) /\ OneTurn(st)
  BY <1>2, SaveInvParts DEF Timed, OneTurn
<1> QED
  BY <1>1, <1>2, <1>3, <1>4, CompleteSaveSafe

\* xfsm_manager_close_connection: who leaves takes its timeout along.
LEMMA CloseConnectionSafe ==
  ASSUME TypeOK, SaveInv, NEW c \in Clients, NEW cleanup \in BOOLEAN,
         CloseConnection(c, cleanup)
  PROVE  SaveInv'
<1>1. cstate \in [Clients -> ClientStates] /\ saveTimer \ {c} \in SUBSET Clients
  BY DEF TypeOK
<1>2. CASE CloseInDiePhase(c, cleanup)
  <2>1. /\ cstate'[c] \in {"GONE", "DISCONNECTED"}
        /\ \A d \in Clients \ {c} : cstate'[d] = cstate[d]
        /\ saveTimer' = saveTimer \ {c}
        /\ mgr = "SHUTDOWNPHASE2" /\ mgr' \in {mgr, "QUIT"}
    BY <1>1, <1>2 DEF CloseInDiePhase
  <2> QED
    BY <2>1, OneMoves
<1>3. CASE CloseInSave(c, cleanup)
  BY <1>3, DropInSaveSafe DEF CloseInSave
<1>4. CASE CloseWhenIdle(c, cleanup)
  BY <1>1, <1>4, OneMoves DEF CloseWhenIdle
<1> QED
  BY <1>2, <1>3, <1>4 DEF CloseConnection

\* A save of the session puts every client it addresses in SAVING, with a
\* timeout, whatever the client was doing.
LEMMA ProceedWithSafe ==
  ASSUME SaveInv, NEW shutdown \in BOOLEAN, NEW save \in BOOLEAN, NEW type,
         ProceedWith(shutdown, type, save)
  PROVE  SaveInv'
<1>1. CASE UNCHANGED <<cstate, saveTimer>> /\ mgr' \in {mgr, "UNDEFINED"}
  BY <1>1, NobodyMoves
<1>2. CASE /\ cstate' = [c \in Clients |->
                           IF c \in Participants THEN "SAVING" ELSE cstate[c]]
           /\ saveTimer' = saveTimer \cup Participants
           /\ mgr' = SaveTarget(shutdown)
  <2>1. Timed(cstate', saveTimer')
    BY <1>2, SaveInvParts DEF Timed
  <2>2. OneTurn(cstate')
    BY <1>2, SaveInvParts DEF OneTurn
  <2>3. StatesAgree'
    BY <1>2 DEF StatesAgree, SaveTarget
  <2> QED
    BY <2>1, <2>2, <2>3, SaveInvParts
<1> QED
  BY <1>1, <1>2 DEF ProceedWith, GlobalSave, UseReleasedSmsConn

LEMMA SaveYourselfGlobalSafe ==
  ASSUME SaveInv, NEW shutdown \in BOOLEAN, NEW fast \in BOOLEAN,
         NEW type, NEW allowed \in BOOLEAN, NEW from,
         SaveYourselfGlobal(shutdown, fast, type, allowed, from)
  PROVE  SaveInv'
<1>1. PICK save \in BOOLEAN :
        \/ AskUser(save, from)
        \/ ProceedWith(TRUE, "logout", save)
        \/ ProceedWith(shutdown,
                       IF shutdown /\ type # "ask" THEN type ELSE shutdownType,
                       save)
  <2>1. \A save \in IF allowed THEN BOOLEAN ELSE {FALSE} : save \in BOOLEAN
    OBVIOUS
  <2> QED
    BY <2>1 DEF SaveYourselfGlobal
<1>2. CASE AskUser(save, from)
  BY <1>2, NobodyMoves DEF AskUser
<1> QED
  BY <1>1, <1>2, ProceedWithSafe

-----------------------------------------------------------------------------
(* The actions.                                                            *)

\* Connections, registrations, properties and requests.
LEMMA OthersSafe ==
  ASSUME TypeOK, SaveInv
  PROVE  /\ \A c \in Clients :
              \/ NewClient(c) \/ RegisterXsmp(c) \/ RegisterDBus(c)
              \/ Reregister(c) \/ Terminate(c)
              => SaveInv'
         /\ \A c \in Clients : (\E hint \in Hints : SetProperties(c, hint))
              => SaveInv'
         /\ RequestStep \/ DialogStep => SaveInv'
<1>1. cstate \in [Clients -> ClientStates]
  BY DEF TypeOK
<1>2. ASSUME NEW c \in Clients,
             \/ NewClient(c) \/ RegisterXsmp(c) \/ RegisterDBus(c)
             \/ Reregister(c)
      PROVE  SaveInv'
  <2>1. /\ cstate'[c] \in {"CONNECTED", "SAVINGLOCAL", "IDLE"}
        /\ \A d \in Clients \ {c} : cstate'[d] = cstate[d]
        /\ mgr' = mgr
        /\ cstate'[c] = "SAVINGLOCAL" => saveTimer' = saveTimer \cup {c}
        /\ cstate'[c] # "SAVINGLOCAL" => saveTimer' = saveTimer
    BY <1>1, <1>2 DEF NewClient, RegisterXsmp, RegisterDBus, Reregister
  <2>2. \A d \in Clients \ {c} : d \in saveTimer' <=> d \in saveTimer
    BY <2>1
  <2> QED
    BY <2>1, <2>2, OneMoves
<1>3. ASSUME NEW c \in Clients,
             Terminate(c) \/ \E hint \in Hints : SetProperties(c, hint)
      PROVE  SaveInv'
  BY <1>3, NobodyMoves DEF Terminate, SetProperties, clientVars
<1>4. ASSUME \/ \E named \in BOOLEAN : DBusCheckpoint(named)
             \/ \E type \in Types, save \in BOOLEAN : DBusShutdown(type, save)
             \/ DialogCancelled
      PROVE  SaveInv'
  BY <1>4, NobodyMoves
  DEF DBusCheckpoint, DBusShutdown, DialogCancelled, clientVars
<1>5. CASE RequestIdled
  <2>1. PICK r \in idleReq : SaveYourselfGlobal(r.shutdown, FALSE, r.type, r.save, Bus)
    BY <1>5 DEF RequestIdled
  <2>2. r.shutdown \in BOOLEAN /\ r.save \in BOOLEAN
    BY <2>1 DEF TypeOK, Requests
  <2> QED
    BY <2>1, <2>2, SaveYourselfGlobalSafe
<1>6. CASE DialogConfirmed
  <2>1. PICK d \in dialog, type \in Types \ {"ask"} :
          \/ mgr' = "UNDEFINED" /\ UNCHANGED <<cstate, saveTimer>>
          \/ ProceedWith(TRUE, type, d.save)
    BY <1>6 DEF DialogConfirmed
  <2>2. d.save \in BOOLEAN
    BY <2>1 DEF TypeOK
  <2> QED
    BY <2>1, <2>2, ProceedWithSafe, NobodyMoves
<1> QED
  BY <1>2, <1>3, <1>4, <1>5, <1>6 DEF RequestStep, DialogStep

\* The requests of a client in its save.
LEMMA SaveRequestSafe ==
  ASSUME TypeOK, SaveInv, NEW c \in Clients,
         SaveYourself(c) \/ SaveYourselfPhase2(c) \/ InteractRequest(c)
           \/ \E cancel \in BOOLEAN : InteractDone(c, cancel)
  PROVE  SaveInv'
<1>1. cstate \in [Clients -> ClientStates] /\ saveTimer \subseteq Clients
      /\ saveTimer \ {c} \in SUBSET Clients /\ TRUE \in BOOLEAN
  BY DEF TypeOK
<1>2. CASE CloseConnection(c, TRUE)
  BY <1>1, <1>2, CloseConnectionSafe
<1>3. CASE SaveYourselfLocal(c)
  BY <1>1, <1>3, OneMoves DEF SaveYourselfLocal
<1>4. ASSUME NEW shutdown \in BOOLEAN, NEW fast \in BOOLEAN,
             SaveYourselfOfSession(c, shutdown, fast)
      PROVE  SaveInv'
  BY <1>1, <1>4, SaveYourselfGlobalSafe DEF SaveYourselfOfSession
<1>5. ASSUME NEW busy, busy = (\E d \in Clients : cstate[d] = "INTERACTING"),
             BeginInteract(c, busy), UNCHANGED mgr,
             mgr \in {"CHECKPOINT", "SHUTDOWN"}
      PROVE  SaveInv'
  <2>1. cstate'[c] = IF busy THEN "WAITFORINTERACT" ELSE "INTERACTING"
    BY <1>1, <1>5 DEF BeginInteract
  <2> QED
    BY <1>1, <1>5, <2>1, OneMoves DEF BeginInteract
<1>6. CASE CancelShutdown(c)
  BY <1>1, <1>6, OneMoves DEF CancelShutdown, Resumed
<1>7. CASE /\ NextInteracts(c) /\ mgr \in {"CHECKPOINT", "SHUTDOWN"}
           /\ cstate[c] = "INTERACTING"
  <2>1. \A d \in Clients : Resumed(c)[d] = IF d = c THEN "SAVING" ELSE cstate[d]
    BY <1>1 DEF Resumed
  <2>2. CASE cstate' = Resumed(c) /\ saveTimer' = saveTimer \cup {c} /\ mgr' = mgr
    BY <1>1, <1>7, <2>1, <2>2, OneMoves
  <2>3. ASSUME NEW d \in Clients, cstate[d] = "WAITFORINTERACT",
               cstate' = [Resumed(c) EXCEPT ![d] = "INTERACTING"],
               saveTimer' = (saveTimer \ {d}) \cup {c}, mgr' = mgr
        PROVE  SaveInv'
    <3>1. c # d /\ DOMAIN Resumed(c) = Clients
      BY <1>1, <1>7, <2>3 DEF Resumed
    <3>2. \A e \in Clients : cstate'[e] = IF e = d THEN "INTERACTING"
                                          ELSE IF e = c THEN "SAVING" ELSE cstate[e]
      BY <2>1, <2>3, <3>1
    <3>3. Timed(cstate', saveTimer')
      BY <2>3, <3>1, <3>2, SaveInvParts DEF Timed
    <3>4. OneTurn(cstate')
      BY <1>7, <3>1, <3>2, SaveInvParts DEF OneTurn
    <3> QED
      BY <1>7, <2>3, <3>3, <3>4, SaveInvParts DEF StatesAgree
  <2> QED
    BY <1>7, <2>2, <2>3 DEF NextInteracts
<1>8. CASE SaveYourselfPhase2(c)
  <2> DEFINE st == [cstate EXCEPT ![c] = "WAITFORPHASE2"]
  <2>1. st \in [Clients -> ClientStates]
        /\ \A d \in Clients : st[d] = IF d = c THEN "WAITFORPHASE2" ELSE cstate[d]
    BY <1>1 DEF ClientStates
  <2> HIDE DEF st
  <2>2. CASE cstate' = st /\ saveTimer' = saveTimer \ {c} /\ mgr' = mgr
             /\ mgr \in {"CHECKPOINT", "SHUTDOWN"}
    BY <2>1, <2>2, OneMoves
  <2>3. CASE EnterPhase2(st, saveTimer \ {c}, Silence) /\ mgr' = mgr
             /\ mgr \in {"CHECKPOINT", "SHUTDOWN"}
    <3>1. \A d \in Clients : cstate'[d] = IF st[d] = "WAITFORPHASE2"
                                          THEN "SAVING" ELSE st[d]
      BY <2>3 DEF EnterPhase2, AwaitingPhase2
    <3>2. \A d \in Clients :
            /\ st[d] = "WAITFORPHASE2" => d \in saveTimer'
            /\ st[d] # "WAITFORPHASE2" => (d \in saveTimer' <=> d \in saveTimer)
      BY <2>1, <2>3 DEF EnterPhase2, AwaitingPhase2
    <3>3. Timed(cstate', saveTimer')
      BY <2>1, <3>1, <3>2, SaveInvParts DEF Timed
    <3>4. OneTurn(cstate')
      BY <2>1, <3>1, SaveInvParts DEF OneTurn
    <3> QED
      BY <2>3, <3>3, <3>4, SaveInvParts DEF StatesAgree
  <2>4. CASE /\ cstate' = [cstate EXCEPT ![c] = "SAVINGLOCAL"]
             /\ saveTimer' = saveTimer \cup {c} /\ mgr' = mgr
    BY <1>1, <2>4, OneMoves
  <2> QED
    BY <1>8, <2>2, <2>3, <2>4 DEF SaveYourselfPhase2, st
<1>9. CASE SaveYourself(c)
  BY <1>2, <1>3, <1>4, <1>9 DEF SaveYourself
<1>10. CASE InteractRequest(c)
  BY <1>2, <1>5, <1>10 DEF InteractRequest
<1>11. CASE \E cancel \in BOOLEAN : InteractDone(c, cancel)
  BY <1>2, <1>6, <1>7, <1>11 DEF InteractDone
<1> QED
  BY <1>8, <1>9, <1>10, <1>11

\* The answer of a client, whichever way it comes.
LEMMA SaveDoneSafe ==
  ASSUME TypeOK, SaveInv, NEW c \in Clients, HandleSaveYourselfDone(c)
  PROVE  SaveInv'
<1>1. cstate \in [Clients -> ClientStates] /\ saveTimer \ {c} \in SUBSET Clients
      /\ TRUE \in BOOLEAN
  BY DEF TypeOK
<1>2. CASE CloseConnection(c, TRUE)
  BY <1>1, <1>2, CloseConnectionSafe
<1>3. CASE LocalSaveDone(c)
  BY <1>1, <1>3, OneMoves DEF LocalSaveDone
<1>4. CASE CompleteSaveYourself([cstate EXCEPT ![c] = "SAVEDONE"],
                                saveTimer \ {c}, Silence)
           /\ mgr \in {"CHECKPOINT", "SHUTDOWN"}
  <2> DEFINE st == [cstate EXCEPT ![c] = "SAVEDONE"]
  <2>1. st \in [Clients -> ClientStates]
        /\ \A d \in Clients : st[d] = IF d = c THEN "SAVEDONE" ELSE cstate[d]
    BY <1>1 DEF ClientStates
  <2> HIDE DEF st
  <2>2. Timed(st, saveTimer \ {c}) /\ OneTurn(st)
    BY <2>1, SaveInvParts DEF Timed, OneTurn
  <2> QED
    BY <1>1, <1>4, <2>1, <2>2, CompleteSaveSafe DEF st
<1>5. CASE UseAfterRelease
  BY <1>5, NobodyMoves DEF UseAfterRelease, clientVars
<1>6. CASE mgr' = "QUIT" /\ cstate' = [cstate EXCEPT ![c] = "GONE"]
           /\ saveTimer' = saveTimer \ {c}
  BY <1>1, <1>6, OneMoves
<1>7. CASE DropInSave(c, TRUE)
  BY <1>1, <1>7, DropInSaveSafe
<1> QED
  BY <1>2, <1>3, <1>4, <1>5, <1>6, <1>7
  DEF HandleSaveYourselfDone, GlobalSaveDone, UnexpectedDone

-----------------------------------------------------------------------------
(* The theorems.                                                           *)

LEMMA NextSave == LedgerInv /\ SaveInv /\ [Next]_vars => SaveInv'
<1> SUFFICES ASSUME TypeOK, SaveInv, [Next]_vars PROVE SaveInv'
  BY DEF LedgerInv
<1>0. XsmpClients \subseteq Clients /\ DBusClients \subseteq Clients
      /\ TRUE \in BOOLEAN /\ FALSE \in BOOLEAN
      /\ cstate \in [Clients -> ClientStates]
  BY DEF Clients, TypeOK
<1>1. ASSUME NEW c \in Clients,
             SaveYourselfDone(c) \/ EndSessionResponse(c) \/ CloseRequest(c)
               \/ IceError(c) \/ DBusClientLeft(c)
      PROVE  SaveInv'
  <2>1. CASE SaveYourselfDone(c)
    BY <2>1, SaveDoneSafe DEF SaveYourselfDone
  <2>2. CASE EndSessionResponse(c)
    BY <1>0, <2>2, SaveDoneSafe, CloseConnectionSafe DEF EndSessionResponse
  <2>3. CASE CloseRequest(c)
    BY <1>0, <2>3, CloseConnectionSafe DEF CloseRequest
  <2>4. CASE DBusClientLeft(c)
    BY <1>0, <2>4, CloseConnectionSafe DEF DBusClientLeft
  <2>5. CASE IceError(c)
    <3>1. CASE CloseConnection(c, FALSE)
      BY <1>0, <3>1, CloseConnectionSafe
    <3>2. CASE cstate' = [cstate EXCEPT ![c] = "GONE"]
               /\ UNCHANGED <<mgr, saveTimer>>
      BY <1>0, <3>2, OneMoves
    <3> QED
      BY <2>5, <3>1, <3>2 DEF IceError
  <2> QED
    BY <1>1, <2>1, <2>2, <2>3, <2>4, <2>5
<1>2. ASSUME NEW c \in XsmpClients, XsmpStep(c) PROVE SaveInv'
  <2>1. c \in Clients
    BY <1>0
  <2> QED
    BY <1>1, <1>2, <2>1, OthersSafe, SaveRequestSafe DEF XsmpStep
<1>3. ASSUME NEW c \in DBusClients, DBusStep(c) PROVE SaveInv'
  <2>1. c \in Clients
    BY <1>0
  <2> QED
    BY <1>1, <1>3, <2>1, OthersSafe DEF DBusStep
<1>4. ASSUME NEW c \in Clients, ClientStep(c) PROVE SaveInv'
  BY <1>4, OthersSafe DEF ClientStep
<1>5. ASSUME NEW c \in Clients, TimerStep(c) PROVE SaveInv'
  <2>1. CASE SaveTimeout(c)
    BY <1>0, <2>1, CloseConnectionSafe DEF SaveTimeout
  <2>2. CASE KillHungClient(c) \/ StartupFailed(c) \/ ResetRestartAttempts(c)
    BY <2>2, NobodyMoves
    DEF KillHungClient, StartupFailed, ResetRestartAttempts, clientVars
  <2> QED
    BY <1>5, <2>1, <2>2 DEF TimerStep
<1>6. CASE RequestStep \/ DialogStep
  BY <1>6, OthersSafe
<1>7. CASE DieTimeout \/ KillReleasedClient
  BY <1>7, NobodyMoves
  DEF DieTimeout, KillReleasedClient, UseAfterRelease, clientVars
<1>8. CASE UNCHANGED vars
  BY <1>8, NobodyMoves DEF vars, clientVars
<1> QED
  BY <1>2, <1>3, <1>4, <1>5, <1>6, <1>7, <1>8 DEF Next

LEMMA SaveInvHolds == RestoredSpec => []SaveInv
  BY HandoverSave, NextSave, LedgerHolds, PTL DEF RestoredSpec

\* Saves are safe whatever the start-up left to the manager, programs that are
\* starting and local saves that are under way included: one client interacts,
\* who saves is timed, who waits is not, and IDLE means that no save goes on.
THEOREM RestoredSaves ==
  RestoredSpec => [](/\ SaversAreTimed /\ WaitersAreNotTimed
                     /\ OneInteracts /\ StatesAgree)
<1>1. SaveInv => SaversAreTimed /\ WaitersAreNotTimed
                 /\ OneInteracts /\ StatesAgree
  BY DEF SaveInv
<1> QED
  BY <1>1, SaveInvHolds, PTL

\* Two clients never hold the user's attention at once, for any number of
\* clients (xfsm_manager_interact, xfsm_manager_interact_done).
THEOREM Turns == Spec => []OneInteracts
<1>1. SaveInv => OneInteracts
  BY DEF SaveInv
<1> QED
  BY <1>1, SpecRestored, SaveInvHolds, PTL

\* The manager waits for no client without a save timeout, the clients whose
\* user is involved excepted (xfsm_manager_start_client_save_timeout).
THEOREM SaversTimed == Spec => []SaversAreTimed
<1>1. SaveInv => SaversAreTimed
  BY DEF SaveInv
<1> QED
  BY <1>1, SpecRestored, SaveInvHolds, PTL

\* A client whose user is involved, or that waits for phase 2, is never
\* removed by a save timeout (xfsm_manager_cancel_client_save_timeout).
THEOREM WaitersUntimed == Spec => []WaitersAreNotTimed
<1>1. SaveInv => WaitersAreNotTimed
  BY DEF SaveInv
<1> QED
  BY <1>1, SpecRestored, SaveInvHolds, PTL

\* Idle means that no save is going on, and the die phase that none is left
\* (xfsm_manager_complete_saveyourself).
THEOREM Agreement == Spec => []StatesAgree
<1>1. SaveInv => StatesAgree
  BY DEF SaveInv
<1> QED
  BY <1>1, SpecRestored, SaveInvHolds, PTL
-----------------------------------------------------------------------------
(* The two time limits.  That they come to pass is a matter of fairness    *)
(* (SavingEnds, DieEnds); what they bring about when they do, and that     *)
(* nothing takes them away before, is not.                                 *)

\* The die phase has its time limit.
DyingIsTimed == mgr = "SHUTDOWNPHASE2" => dieTimer

\* Whatever happens in the die phase, a logout dialog that is confirmed late
\* included, its time limit stays until the session is over, and then ends it;
\* and a client whose save timeout expires is not in the save any more.
LimitsDecide ==
  /\ dieTimer => dieTimer' \/ ~Alive'
  /\ DieTimeout => ~Alive'
  /\ \A c \in Clients : SaveTimeout(c) => cstate'[c] \in {"GONE", "DISCONNECTED"}

\* What a handler may do to the manager and to the time limit.
Limited ==
  \/ UNCHANGED <<mgr, dieTimer>>
  \/ UNCHANGED dieTimer /\ mgr' # "SHUTDOWNPHASE2"
  \/ dieTimer'
  \/ ~Alive'

LEMMA CompleteSaveLimited ==
  ASSUME NEW st, NEW timers, NEW note, CompleteSaveYourself(st, timers, note)
  PROVE  Limited
  BY DEF CompleteSaveYourself, EnterPhase2, UseReleasedSmsConn,
         FinishCheckpoint, PerformShutdown, Limited, Alive

LEMMA CloseConnectionLimited ==
  ASSUME NEW c, NEW cleanup, CloseConnection(c, cleanup)
  PROVE  Limited
<1>1. CASE CloseInDiePhase(c, cleanup)
  BY <1>1 DEF CloseInDiePhase, Limited, Alive
<1>2. CASE CloseInSave(c, cleanup)
  BY <1>2, CompleteSaveLimited DEF CloseInSave, DropInSave
<1>3. CASE CloseWhenIdle(c, cleanup)
  BY <1>3 DEF CloseWhenIdle, Limited
<1> QED
  BY <1>1, <1>2, <1>3 DEF CloseConnection

LEMMA ProceedWithLimited ==
  ASSUME NEW shutdown, NEW type, NEW save, ProceedWith(shutdown, type, save),
         UNCHANGED dieTimer
  PROVE  Limited
  BY DEF ProceedWith, GlobalSave, UseReleasedSmsConn, SaveTarget, Limited

LEMMA SaveYourselfGlobalLimited ==
  ASSUME NEW shutdown, NEW fast, NEW type, NEW allowed, NEW from,
         SaveYourselfGlobal(shutdown, fast, type, allowed, from)
  PROVE  Limited
<1>1. UNCHANGED dieTimer
  BY DEF SaveYourselfGlobal
<1>2. CASE UNCHANGED mgr
  BY <1>1, <1>2 DEF Limited
<1>3. CASE \E s, t, v : ProceedWith(s, t, v)
  BY <1>1, <1>3, ProceedWithLimited
<1>4. PICK save \in IF allowed THEN BOOLEAN ELSE {FALSE} :
        \/ AskUser(save, from)
        \/ ProceedWith(TRUE, "logout", save)
        \/ ProceedWith(shutdown, IF shutdown /\ type # "ask" THEN type
                                 ELSE shutdownType, save)
  BY DEF SaveYourselfGlobal
<1>5. AskUser(save, from) => UNCHANGED mgr
  BY DEF AskUser
<1> QED
  BY <1>2, <1>3, <1>4, <1>5

LEMMA HandleDoneLimited ==
  ASSUME NEW c \in Clients, HandleSaveYourselfDone(c)
  PROVE  Limited
<1>1. CASE LocalSaveDone(c)
  BY <1>1 DEF LocalSaveDone, Unchanged, Limited
<1>2. CASE GlobalSaveDone(c)
  BY <1>2, CompleteSaveLimited, CloseConnectionLimited DEF GlobalSaveDone
<1>3. CASE UnexpectedDone(c)
  <2>1. CASE ~DropInSave(c, TRUE)
    BY <1>3, <2>1 DEF UnexpectedDone, UseAfterRelease, Limited, Alive
  <2> QED
    BY <2>1, CompleteSaveLimited DEF DropInSave
<1> QED
  BY <1>1, <1>2, <1>3 DEF HandleSaveYourselfDone

LEMMA RequestsLimited ==
  ASSUME NEW c \in Clients,
         \/ SaveYourself(c) \/ SaveYourselfPhase2(c) \/ InteractRequest(c)
         \/ \E cancel \in BOOLEAN : InteractDone(c, cancel)
  PROVE  Limited
<1>1. CASE \E cleanup \in BOOLEAN : CloseConnection(c, cleanup)
  BY <1>1, CloseConnectionLimited
<1>2. CASE SaveYourself(c)
  <2>1. CASE SaveYourselfLocal(c)
    BY <2>1 DEF SaveYourselfLocal, Unchanged, Limited
  <2>2. CASE \E s, f \in BOOLEAN : SaveYourselfOfSession(c, s, f)
    BY <2>2, SaveYourselfGlobalLimited DEF SaveYourselfOfSession
  <2> QED
    BY <1>1, <1>2, <2>1, <2>2 DEF SaveYourself
<1>3. CASE SaveYourselfPhase2(c)
  BY <1>3 DEF SaveYourselfPhase2, Unchanged, Limited
<1>4. CASE InteractRequest(c)
  BY <1>1, <1>4 DEF InteractRequest, Unchanged, Limited
<1>5. CASE \E cancel \in BOOLEAN : InteractDone(c, cancel)
  BY <1>1, <1>5
  DEF InteractDone, CancelShutdown, NextInteracts, Unchanged, Limited
<1> QED
  BY <1>2, <1>3, <1>4, <1>5

LEMMA NextLimited == ASSUME [Next]_vars PROVE Limited
<1>0. XsmpClients \subseteq Clients /\ DBusClients \subseteq Clients
  BY DEF Clients
<1>1. ASSUME NEW c \in Clients,
             \/ SaveYourselfDone(c) \/ EndSessionResponse(c) \/ CloseRequest(c)
             \/ IceError(c) \/ DBusClientLeft(c) \/ SaveTimeout(c)
      PROVE  Limited
  BY <1>1, HandleDoneLimited, CloseConnectionLimited
  DEF SaveYourselfDone, EndSessionResponse, CloseRequest, IceError,
      DBusClientLeft, SaveTimeout, Limited
<1>2. ASSUME NEW c \in Clients,
             \/ NewClient(c) \/ RegisterXsmp(c) \/ RegisterDBus(c)
             \/ ClientStep(c) \/ KillHungClient(c) \/ StartupFailed(c)
             \/ ResetRestartAttempts(c)
      PROVE  Limited
  BY <1>2
  DEF NewClient, RegisterXsmp, RegisterDBus, ClientStep, Reregister, Terminate,
      SetProperties, KillHungClient, StartupFailed, ResetRestartAttempts, Limited
<1>3. ASSUME NEW c \in XsmpClients, XsmpStep(c) PROVE Limited
  BY <1>0, <1>1, <1>2, <1>3, RequestsLimited DEF XsmpStep
<1>4. ASSUME NEW c \in DBusClients, DBusStep(c) PROVE Limited
  BY <1>0, <1>1, <1>2, <1>4 DEF DBusStep
<1>5. ASSUME NEW c \in Clients, ClientStep(c) \/ TimerStep(c) PROVE Limited
  BY <1>1, <1>2, <1>5 DEF TimerStep
<1>6. CASE RequestStep
  <2>1. CASE RequestIdled
    BY <2>1, SaveYourselfGlobalLimited DEF RequestIdled
  <2> QED
    BY <1>6, <2>1 DEF RequestStep, DBusCheckpoint, DBusShutdown, Limited
<1>7. CASE DialogStep
  <2>1. CASE DialogConfirmed
    <3>1. CASE \E t, v : ProceedWith(TRUE, t, v)
      BY <2>1, <3>1, ProceedWithLimited DEF DialogConfirmed
    <3> QED
      BY <2>1, <3>1 DEF DialogConfirmed, Limited, Alive
  <2>2. CASE DialogCancelled
    BY <2>2 DEF DialogCancelled, Limited
  <2> QED
    BY <1>7, <2>1, <2>2 DEF DialogStep
<1>8. CASE DieTimeout \/ KillReleasedClient
  BY <1>8 DEF DieTimeout, KillReleasedClient, UseAfterRelease, Limited, Alive
<1>9. CASE UNCHANGED vars
  BY <1>9 DEF vars, Limited
<1> QED
  BY <1>3, <1>4, <1>5, <1>6, <1>7, <1>8, <1>9 DEF Next

\* Removing a client takes it out of every save.
LEMMA CloseRemoves ==
  ASSUME TypeOK, NEW c \in Clients, NEW cleanup, CloseConnection(c, cleanup)
  PROVE  cstate'[c] \in {"GONE", "DISCONNECTED"}
<1>0. cstate \in [Clients -> ClientStates]
  BY DEF TypeOK
<1>1. CASE CloseInDiePhase(c, cleanup) \/ CloseWhenIdle(c, cleanup)
  BY <1>0, <1>1 DEF CloseInDiePhase, CloseWhenIdle
<1>2. CASE CloseInSave(c, cleanup)
  <2> DEFINE st == [cstate EXCEPT ![c] = "GONE"]
  <2>1. st[c] = "GONE"
    BY <1>0
  <2>2. CompleteSaveYourself(st, saveTimer \ {c}, CleanupNote(c, cleanup))
    BY <1>2 DEF CloseInSave, DropInSave
  <2> HIDE DEF st
  <2>3. cstate'[c] = "GONE"
    BY <2>1, <2>2
    DEF CompleteSaveYourself, EnterPhase2, UseReleasedSmsConn,
        FinishCheckpoint, PerformShutdown, AwaitingPhase2, Running
  <2> QED
    BY <2>3
<1> QED
  BY <1>1, <1>2 DEF CloseConnection

\* For any number of clients, and after whatever start-up: the die phase is
\* never without its time limit (xfsm_manager_perform_shutdown), which ends
\* the session even if a late answer to the logout dialog has taken the
\* manager back to a save; and a save timeout takes its client out of the
\* save (xfsm_manager_save_timeout, manager_quit_signal).
THEOREM LimitsAreKept ==
  RestoredSpec => []DyingIsTimed /\ [][LimitsDecide]_vars
<1>1. HandedOver => DyingIsTimed
  BY DEF HandedOver, DyingIsTimed
<1>2. DyingIsTimed /\ [Next]_vars => DyingIsTimed'
  BY NextLimited DEF DyingIsTimed, Limited, Alive
<1>3. LedgerInv /\ [Next]_vars => [LimitsDecide]_vars
  <2> SUFFICES ASSUME TypeOK, [Next]_vars PROVE LimitsDecide
    BY DEF LedgerInv
  <2>1. dieTimer => dieTimer' \/ ~Alive'
    BY NextLimited DEF Limited
  <2>2. DieTimeout => ~Alive'
    BY DEF DieTimeout, Alive
  <2>3. ASSUME NEW c \in Clients, SaveTimeout(c)
        PROVE  cstate'[c] \in {"GONE", "DISCONNECTED"}
    BY <2>3, CloseRemoves DEF SaveTimeout
  <2> QED
    BY <2>1, <2>2, <2>3 DEF LimitsDecide
<1> QED
  BY <1>1, <1>2, <1>3, LedgerHolds, PTL DEF RestoredSpec
=============================================================================
