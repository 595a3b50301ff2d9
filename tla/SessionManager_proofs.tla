------------------------ MODULE SessionManager_proofs ------------------------
(***************************************************************************)
(* Proofs about SessionManager, for any number of clients, any restart     *)
(* limit and both windowing systems.                                       *)
(***************************************************************************)
EXTENDS SessionManager, TLAPS

-----------------------------------------------------------------------------
(* The bookkeeping invariant.                                              *)

\* The type invariant is inductive only with the ledger: restart_attempts is
\* bounded because of where the properties that reached the limit may be.
LedgerInv ==
  TypeOK /\ PropertiesHaveOneOwner /\ TimersHaveClients /\ RestartsAreBounded
  /\ Ledger

\* The part of the state that the end of a save changes.
SaveStateOK(st, timers) ==
  /\ mgr' \in ManagerStates
  /\ cstate' \in [Clients -> ClientStates]
  /\ saveTimer' \subseteq timers \cup Running(st)
  /\ dieTimer' \in BOOLEAN
  /\ sent' \in [Clients -> Messages]
  /\ stored' \in Writes
  /\ checkpointName' \in BOOLEAN
  /\ \A c \in Clients :
       /\ cstate'[c] = "GONE" <=> st[c] = "GONE"
       /\ cstate'[c] = "CONNECTED" <=> st[c] = "CONNECTED"

\* A session with nothing to restore is one of those a start-up may leave.
LEMMA InitHandedOver == Init => HandedOver
<1> SUFFICES ASSUME Init PROVE HandedOver
  OBVIOUS
<1> USE DEF Init
<1>1. Running(cstate) = {}
  BY DEF Running
<1>2. /\ PropertiesHaveOneOwner /\ RestartsAreBounded /\ Ledger
      /\ resetTimer = {c \in Running(cstate) : attempts[c] > 0}
  BY <1>1 DEF PropertiesHaveOneOwner, RestartsAreBounded, Ledger
<1>3. attempts \in [Clients -> 0 .. MaxRestartAttempts + 1]
  BY SessionAssumption
<1> QED
  BY <1>1, <1>2, <1>3 DEF HandedOver, Clients

\* Whatever a start-up leaves satisfies the bookkeeping invariant.
LEMMA HandoverLedger == HandedOver => LedgerInv
<1> SUFFICES ASSUME HandedOver PROVE LedgerInv
  OBVIOUS
<1>0. Nothing \in Writes
  BY DEF Nothing, Writes
<1>1. TypeOK
  <2>1. sent \in [Clients -> Messages]
    BY DEF HandedOver, Silence, Messages
  <2>2. cstate \in [Clients -> ClientStates]
    BY DEF HandedOver, ClientStates
  <2>3. mgr \in ManagerStates /\ shutdownType \in ShutdownTypes
    BY DEF HandedOver, ManagerStates, ShutdownTypes
  <2>4. saveTimer \subseteq Clients /\ resetTimer \subseteq Clients
    BY DEF HandedOver, Running
  <2> QED
    BY <1>0, <2>1, <2>2, <2>3, <2>4
    DEF TypeOK, HandedOver, KillTimers, NoKillTimer
<1>2. TimersHaveClients
  BY DEF HandedOver, TimersHaveClients, Running
<1> QED
  BY <1>1, <1>2 DEF LedgerInv, HandedOver

\* Storing the session writes client ids and keeps the name a name.
LEMMA StoreSessionOK ==
  ASSUME NEW st \in [Clients -> ClientStates], TypeOK,
         StoreSession(st) \/ NotStored
  PROVE  stored' \in Writes /\ checkpointName' \in BOOLEAN
<1>1. CASE NotStored
  BY <1>1 DEF NotStored, TypeOK, Writes, Nothing
<1>2. CASE StoreSession(st)
  <2> DEFINE group == IF mgr = "CHECKPOINT" /\ checkpointName
                      THEN "checkpoint" ELSE "session"
             ids == restartProps \cup
                      {c \in Running(st) : props[c] \notin {"none", "Never"}}
  <2>1. group \in {"none", "session", "checkpoint"} /\ ids \in SUBSET Clients
    BY DEF TypeOK, Running
  <2>2. [group |-> group, ids |-> ids] \in Writes
    BY <2>1 DEF Writes
  <2>3. Nothing \in Writes
    BY DEF Nothing, Writes
  <2>4. checkpointName' \in BOOLEAN
    BY <1>2 DEF StoreSession, TypeOK
  <2> QED
    BY <1>2, <2>2, <2>3, <2>4 DEF StoreSession
<1> QED
  BY <1>1, <1>2

\* Completing a save adds no client to the list and removes none.
LEMMA CompleteSaveOK ==
  ASSUME NEW st \in [Clients -> ClientStates], NEW timers \in SUBSET Clients,
         NEW note \in [Clients -> Messages], TypeOK,
         CompleteSaveYourself(st, timers, note)
  PROVE  SaveStateOK(st, timers)
<1>1. stored' \in Writes /\ checkpointName' \in BOOLEAN
  BY StoreSessionOK DEF CompleteSaveYourself
<1>2. CASE cstate' = st /\ saveTimer' = timers /\ sent' = note
           /\ UNCHANGED <<mgr, dieTimer>>
  BY <1>1, <1>2 DEF SaveStateOK, TypeOK
<1>3. CASE EnterPhase2(st, timers, note) /\ UNCHANGED <<mgr, dieTimer>>
  BY <1>1, <1>3
  DEF SaveStateOK, TypeOK, EnterPhase2, AwaitingPhase2, Running, ClientStates,
      Messages
<1>4. CASE saveTimer' = timers /\ UseReleasedSmsConn(st)
  BY <1>1, <1>4
  DEF SaveStateOK, TypeOK, UseReleasedSmsConn, ManagerStates, Silence, Messages
<1>5. CASE saveTimer' = timers /\ FinishCheckpoint(st, note)
  BY <1>1, <1>5
  DEF SaveStateOK, TypeOK, FinishCheckpoint, ManagerStates, ClientStates,
      Running, Messages
<1>6. CASE saveTimer' = timers /\ PerformShutdown(st, note)
  BY <1>1, <1>6
  DEF SaveStateOK, TypeOK, PerformShutdown, ManagerStates, Messages
<1> QED
  BY <1>2, <1>3, <1>4, <1>5, <1>6 DEF CompleteSaveYourself

\* What becomes of the properties of a client that died or failed to start:
\* they go to one queue at most, and to starting_properties only while there
\* are attempts left.
LEMMA HandleFailedOK ==
  ASSUME LedgerInv, NEW c \in Running(cstate) \cup starting,
         HandleFailedProperties(c, starting \ {c})
  PROVE  /\ props' \in [Clients -> Hints \cup {"IfRunning", "none"}]
         /\ attempts' \in [Clients -> 0 .. MaxRestartAttempts + 1]
         /\ starting' \in {starting \ {c}, starting \cup {c}}
         /\ restartProps' \in {restartProps, restartProps \cup {c}}
         /\ resetTimer' = resetTimer \ {c}
         /\ \A d \in Clients \ {c} : attempts'[d] = attempts[d]
         /\ c \in starting' => attempts'[c] \in 1 .. MaxRestartAttempts
         /\ c \notin starting' \cup restartProps' => attempts'[c] = 0
         /\ c \in starting' => restartProps' = restartProps
<1>1. c \in Clients /\ attempts[c] \in 0 .. MaxRestartAttempts
      /\ MaxRestartAttempts \in Nat
  BY SessionAssumption DEF LedgerInv, Ledger, TypeOK, Running
<1>2. CASE props[c] = "Anyway"
  BY <1>1, <1>2 DEF HandleFailedProperties, Park, LedgerInv, TypeOK
<1>3. CASE props[c] = "Immediately"
  BY <1>1, <1>3
  DEF HandleFailedProperties, Park, MayRestart, LedgerInv, TypeOK
<1>4. CASE props[c] \notin {"Anyway", "Immediately"}
  BY <1>1, <1>4 DEF HandleFailedProperties, FreeProperties, LedgerInv, TypeOK
<1> QED
  BY <1>2, <1>3, <1>4

\* Nobody else is concerned: the invariant survives the loss of a client that
\* was in the list, or of one that was being started.
LEMMA FailedKeepsLedger ==
  ASSUME LedgerInv, NEW c \in Running(cstate) \cup starting,
         HandleFailedProperties(c, starting \ {c}), TypeOK',
         cstate' \in {cstate, [cstate EXCEPT ![c] = "GONE"]},
         Running(cstate)' = Running(cstate) \ {c},
         saveTimer' = saveTimer \ {c}
  PROVE  LedgerInv'
<1>0. c \in Clients /\ cstate \in [Clients -> ClientStates]
  BY DEF LedgerInv, TypeOK, Running
<1>1. Running(cstate)' = Running(cstate) \ {c}
  OBVIOUS
<1>2. PropertiesHaveOneOwner'
  BY <1>0, <1>1, HandleFailedOK DEF LedgerInv, PropertiesHaveOneOwner, Clients
<1>3. TimersHaveClients'
  BY <1>0, <1>1, HandleFailedOK DEF LedgerInv, TimersHaveClients
<1>4. RestartsAreBounded'
  BY <1>0, HandleFailedOK DEF LedgerInv, RestartsAreBounded, TypeOK
<1>5. Ledger'
  <2>1. \A d \in Clients : cstate'[d] = "CONNECTED" => d \in XsmpClients
    BY <1>0 DEF LedgerInv, Ledger
  <2>2. starting' \cap Running(cstate)' = {}
    BY <1>1, HandleFailedOK DEF LedgerInv, Ledger
  <2>3. \A d \in Running(cstate)' \cup starting' :
          attempts'[d] \in 0 .. MaxRestartAttempts
    <3> SUFFICES ASSUME NEW d \in Running(cstate)' \cup starting'
                 PROVE  attempts'[d] \in 0 .. MaxRestartAttempts
      OBVIOUS
    <3>1. CASE d = c
      BY <1>1, <3>1, HandleFailedOK, SessionAssumption
    <3>2. CASE d # c
      BY <1>1, <3>2, HandleFailedOK DEF LedgerInv, Ledger, TypeOK, Running
    <3> QED
      BY <3>1, <3>2
  <2>4. \A d \in Clients \ (Running(cstate)' \cup starting' \cup restartProps') :
          attempts'[d] = 0
    BY <1>1, HandleFailedOK DEF LedgerInv, Ledger
  <2> QED
    BY <2>1, <2>2, <2>3, <2>4 DEF Ledger
<1> QED
  BY <1>2, <1>3, <1>4, <1>5 DEF LedgerInv

\* A handler that leaves the properties alone keeps the invariant if the
\* clients in the list stay there and the timers it starts are theirs.
LEMMA ListKeepsLedger ==
  ASSUME LedgerInv, TypeOK', UNCHANGED propVars,
         \A c \in Clients :
           /\ cstate'[c] \in {"GONE", "CONNECTED"} <=>
                cstate[c] \in {"GONE", "CONNECTED"}
           /\ cstate'[c] = "CONNECTED" => c \in XsmpClients,
         saveTimer' \subseteq Running(cstate)
  PROVE  LedgerInv'
<1>1. Running(cstate)' = Running(cstate)
  BY DEF Running
<1>2. TimersHaveClients'
  BY <1>1 DEF LedgerInv, TimersHaveClients, propVars
<1>3. PropertiesHaveOneOwner' /\ RestartsAreBounded'
  BY <1>1
  DEF LedgerInv, PropertiesHaveOneOwner, RestartsAreBounded, propVars
<1>4. Ledger'
  BY <1>1 DEF LedgerInv, Ledger, propVars
<1> QED
  BY <1>2, <1>3, <1>4 DEF LedgerInv

\* The same for a client that leaves the list with its properties, as in a
\* save.
LEMMA DropKeepsLedger ==
  ASSUME LedgerInv, TypeOK', NEW c \in Running(cstate),
         FreeProperties(c), UNCHANGED <<starting, restartProps>>,
         Running(cstate)' = Running(cstate) \ {c},
         \A d \in Clients : cstate'[d] = "CONNECTED" => d \in XsmpClients,
         saveTimer' \subseteq Running(cstate)'
  PROVE  LedgerInv'
<1>0. c \in Clients /\ attempts \in [Clients -> 0 .. MaxRestartAttempts + 1]
      /\ MaxRestartAttempts \in Nat /\ c \notin starting
  BY SessionAssumption DEF LedgerInv, Ledger, TypeOK, Running
<1>1. TimersHaveClients'
  BY DEF LedgerInv, TimersHaveClients, FreeProperties
<1>2. PropertiesHaveOneOwner' /\ RestartsAreBounded'
  BY <1>0
  DEF LedgerInv, PropertiesHaveOneOwner, RestartsAreBounded, FreeProperties,
      TypeOK
<1>3. Ledger'
  BY <1>0 DEF LedgerInv, Ledger, FreeProperties, TypeOK
<1> QED
  BY <1>1, <1>2, <1>3 DEF LedgerInv

-----------------------------------------------------------------------------
(* The handlers, one lemma for each that others call.                      *)

LEMMA CleanupNoteOK ==
  ASSUME NEW c \in Clients, NEW cleanup \in BOOLEAN
  PROVE  CleanupNote(c, cleanup) \in [Clients -> Messages]
  BY DEF CleanupNote, Silence, Messages

\* What a handler leaves when it sends nothing and stores nothing.
LEMMA QuietOK ==
  ASSUME TypeOK, NotStored \/ Quiet
  PROVE  /\ stored' \in Writes /\ checkpointName' \in BOOLEAN
         /\ Quiet => sent' \in [Clients -> Messages]
  BY DEF Quiet, NotStored, TypeOK, Writes, Nothing, Silence, Messages

\* Freeing properties keeps their types.
LEMMA FreeOK ==
  ASSUME TypeOK, NEW c \in Clients, FreeProperties(c)
  PROVE  /\ props' \in [Clients -> Hints \cup {"IfRunning", "none"}]
         /\ attempts' \in [Clients -> 0 .. MaxRestartAttempts + 1]
         /\ resetTimer' \subseteq Clients
  BY SessionAssumption DEF FreeProperties, TypeOK

\* What becomes of the sources behind quit_timeout when one more begins, and
\* when its client is released.
LEMMA KillTimersOK ==
  ASSUME NEW timers \in KillTimers, NEW c \in Clients
  PROVE  /\ Released(timers, c) \in KillTimers
         /\ c \in DBusClients => Terminated(timers, c) \in KillTimers
  BY DEF KillTimers, Released, Terminated

LEMMA KillTimersOfClosedOK ==
  ASSUME TypeOK, NEW c \in Clients, NEW cleanup \in BOOLEAN
  PROVE  /\ KillTimersOfClosed(c, cleanup) \in KillTimers
         /\ Released(KillTimersOfClosed(c, cleanup), c) \in KillTimers
<1>1. KillTimersOfClosed(c, cleanup) \in KillTimers
  BY KillTimersOK DEF KillTimersOfClosed, TypeOK
<1> QED
  BY <1>1, KillTimersOK

LEMMA CloseInDiePhaseOK ==
  ASSUME LedgerInv, NEW c \in Clients, NEW cleanup \in BOOLEAN,
         cstate[c] # "GONE", CloseInDiePhase(c, cleanup),
         UNCHANGED <<saveSession, reqVars>>
  PROVE  LedgerInv'
<1>1. cstate \in [Clients -> ClientStates] /\ TypeOK
  BY DEF LedgerInv, TypeOK
<1>2. cstate' = [cstate EXCEPT ![c] =
                   IF @ = "CONNECTED" THEN "GONE" ELSE "DISCONNECTED"]
  BY DEF CloseInDiePhase
<1>3. TypeOK'
  <2>1. cstate' \in [Clients -> ClientStates] /\ mgr' \in ManagerStates
    BY <1>1, <1>2 DEF CloseInDiePhase, TypeOK, ClientStates, ManagerStates
  <2>2. sent' \in [Clients -> Messages] /\ stored' \in Writes
        /\ checkpointName' \in BOOLEAN
    BY <1>1, CleanupNoteOK, QuietOK DEF CloseInDiePhase
  <2>3. dieTimer' \in BOOLEAN /\ saveTimer' \subseteq Clients
        /\ killTimer' \in KillTimers
    BY <1>1, KillTimersOfClosedOK DEF CloseInDiePhase, TypeOK
  <2> QED
    BY <1>1, <2>1, <2>2, <2>3
    DEF CloseInDiePhase, TypeOK, propVars, reqVars
<1>4. UNCHANGED propVars /\ saveTimer' \subseteq Running(cstate)
  BY <1>1 DEF CloseInDiePhase, LedgerInv, TimersHaveClients
<1>5. \A d \in Clients :
        /\ cstate'[d] \in {"GONE", "CONNECTED"} <=>
             cstate[d] \in {"GONE", "CONNECTED"}
        /\ cstate'[d] = "CONNECTED" => d \in XsmpClients
  BY <1>1, <1>2 DEF LedgerInv, Ledger
<1> QED
  BY <1>3, <1>4, <1>5, ListKeepsLedger

LEMMA DropInSaveOK ==
  ASSUME LedgerInv, NEW c \in Clients, NEW cleanup \in BOOLEAN,
         cstate[c] # "GONE", DropInSave(c, cleanup),
         killTimer' \in KillTimers, UNCHANGED <<saveSession, reqVars>>
  PROVE  LedgerInv'
<1> DEFINE st == [cstate EXCEPT ![c] = "GONE"]
<1>1. cstate \in [Clients -> ClientStates] /\ TypeOK
  BY DEF LedgerInv, TypeOK
<1>2. st \in [Clients -> ClientStates] /\ saveTimer \ {c} \in SUBSET Clients
  BY <1>1 DEF ClientStates, TypeOK
<1>3. SaveStateOK(st, saveTimer \ {c})
  <2> HIDE DEF st
  <2> QED
    BY <1>1, <1>2, CleanupNoteOK, CompleteSaveOK DEF DropInSave, st
<1>4. saveTimer' \subseteq Running(st)
  BY <1>1, <1>3 DEF SaveStateOK, LedgerInv, TimersHaveClients, Running
<1>5. Running(cstate)' = Running(st) /\ Running(st) = Running(cstate) \ {c}
  BY <1>1, <1>3 DEF SaveStateOK, Running
<1>6. /\ props' \in [Clients -> Hints \cup {"IfRunning", "none"}]
      /\ attempts' \in [Clients -> 0 .. MaxRestartAttempts + 1]
      /\ resetTimer' \subseteq Clients
      /\ UNCHANGED <<starting, restartProps>>
  BY <1>1, FreeOK DEF DropInSave, TypeOK
<1>7. TypeOK'
  <2>1. saveTimer' \subseteq Clients
    BY <1>4 DEF Running
  <2> QED
    BY <1>1, <1>3, <1>6, <2>1 DEF SaveStateOK, TypeOK, reqVars
<1>8. \A d \in Clients : cstate'[d] = "CONNECTED" => d \in XsmpClients
  BY <1>1, <1>3 DEF SaveStateOK, LedgerInv, Ledger
<1>9. CASE cstate[c] = "CONNECTED"
  <2>1. c \notin Running(cstate)
    BY <1>9 DEF Running
  <2>2. UNCHANGED propVars /\ saveTimer' \subseteq Running(cstate)
    BY <1>4, <1>5, <1>6, <1>9
    DEF DropInSave, propVars, LedgerInv, TimersHaveClients
  <2>3. \A d \in Clients : cstate'[d] \in {"GONE", "CONNECTED"} <=>
                            cstate[d] \in {"GONE", "CONNECTED"}
    BY <1>5, <2>1 DEF Running
  <2> QED
    BY <1>7, <1>8, <2>2, <2>3, ListKeepsLedger
<1>10. CASE cstate[c] # "CONNECTED"
  <2>1. c \in Running(cstate) /\ FreeProperties(c)
    BY <1>10 DEF Running, DropInSave
  <2> QED
    BY <1>4, <1>5, <1>6, <1>7, <1>8, <2>1, DropKeepsLedger
<1> QED
  BY <1>9, <1>10

LEMMA CloseInSaveOK ==
  ASSUME LedgerInv, NEW c \in Clients, NEW cleanup \in BOOLEAN,
         cstate[c] # "GONE", CloseInSave(c, cleanup),
         UNCHANGED <<saveSession, reqVars>>
  PROVE  LedgerInv'
<1>1. killTimer' \in KillTimers
  BY KillTimersOfClosedOK DEF CloseInSave, LedgerInv
<1> QED
  BY <1>1, DropInSaveOK DEF CloseInSave

LEMMA CloseWhenIdleOK ==
  ASSUME LedgerInv, NEW c \in Clients, NEW cleanup \in BOOLEAN,
         cstate[c] # "GONE", CloseWhenIdle(c, cleanup),
         UNCHANGED <<saveSession, reqVars>>
  PROVE  LedgerInv'
<1>1. /\ cstate \in [Clients -> ClientStates] /\ TypeOK
      /\ cstate' = [cstate EXCEPT ![c] = "GONE"]
      /\ saveTimer' = saveTimer \ {c}
  BY DEF LedgerInv, TypeOK, CloseWhenIdle
<1>2. /\ stored' \in Writes /\ checkpointName' \in BOOLEAN
      /\ sent' \in [Clients -> Messages]
      /\ cstate' \in [Clients -> ClientStates]
      /\ killTimer' \in KillTimers
  BY <1>1, QuietOK, CleanupNoteOK, KillTimersOfClosedOK
  DEF CloseWhenIdle, ClientStates
<1>3. CASE cstate[c] = "CONNECTED"
  <2>1. UNCHANGED propVars
    BY <1>3 DEF CloseWhenIdle
  <2>2. TypeOK'
    BY <1>1, <1>2, <2>1 DEF CloseWhenIdle, TypeOK, propVars, reqVars
  <2>3. \A d \in Clients :
          /\ cstate'[d] \in {"GONE", "CONNECTED"} <=>
               cstate[d] \in {"GONE", "CONNECTED"}
          /\ cstate'[d] = "CONNECTED" => d \in XsmpClients
    BY <1>1, <1>3 DEF LedgerInv, Ledger
  <2>4. saveTimer' \subseteq Running(cstate)
    BY <1>1 DEF LedgerInv, TimersHaveClients
  <2> QED
    BY <2>1, <2>2, <2>3, <2>4, ListKeepsLedger
<1>4. CASE cstate[c] # "CONNECTED"
  <2>1. c \in Running(cstate) /\ starting = starting \ {c}
    BY <1>4 DEF Running, LedgerInv, Ledger
  <2>2. HandleFailedProperties(c, starting \ {c})
    BY <1>4, <2>1 DEF CloseWhenIdle
  <2>3. TypeOK'
    <3>1. starting' \subseteq Clients /\ restartProps' \subseteq Clients
          /\ resetTimer' \subseteq Clients
      BY <1>1, <2>1, <2>2, HandleFailedOK DEF TypeOK
    <3>2. /\ props' \in [Clients -> Hints \cup {"IfRunning", "none"}]
          /\ attempts' \in [Clients -> 0 .. MaxRestartAttempts + 1]
      BY <2>1, <2>2, HandleFailedOK
    <3> QED
      BY <1>1, <1>2, <3>1, <3>2 DEF CloseWhenIdle, TypeOK, reqVars
  <2>4. Running(cstate)' = Running(cstate) \ {c}
    BY <1>1 DEF Running
  <2> QED
    BY <1>1, <2>1, <2>2, <2>3, <2>4, FailedKeepsLedger
<1> QED
  BY <1>3, <1>4

\* xfsm_manager_close_connection keeps the bookkeeping right in every state
\* of the manager.
LEMMA CloseConnectionOK ==
  ASSUME LedgerInv, NEW c \in Clients, NEW cleanup \in BOOLEAN,
         cstate[c] # "GONE", CloseConnection(c, cleanup)
  PROVE  LedgerInv'
  BY CloseInDiePhaseOK, CloseInSaveOK, CloseWhenIdleOK DEF CloseConnection

\* Using a released client changes only what the manager is.
LEMMA UseAfterReleaseOK ==
  ASSUME LedgerInv, UseAfterRelease
  PROVE  LedgerInv'
<1>1. TypeOK'
  BY QuietOK DEF UseAfterRelease, LedgerInv, TypeOK, ManagerStates, clientVars,
                 propVars, reqVars
<1> QED
  BY <1>1, ListKeepsLedger
  DEF UseAfterRelease, clientVars, LedgerInv, Ledger, TimersHaveClients

\* A global save takes clients of the list from one state to another.
LEMMA ProceedWithOK ==
  ASSUME LedgerInv, NEW shutdown \in BOOLEAN, NEW save \in BOOLEAN,
         NEW type \in ShutdownTypes, ProceedWith(shutdown, type, save),
         UNCHANGED <<killTimer, dieTimer, propVars>>, NotStored,
         idleReq' \subseteq Requests,
         dialog' \subseteq [from : XsmpClients \cup {Bus}, save : BOOLEAN]
  PROVE  LedgerInv'
<1>1. cstate \in [Clients -> ClientStates] /\ TypeOK
  BY DEF LedgerInv, TypeOK
<1>2. stored' \in Writes /\ checkpointName' \in BOOLEAN
  BY <1>1, QuietOK
<1>3. Participants \subseteq Running(cstate)
  BY DEF Participants
<1>4. CASE UNCHANGED <<cstate, saveTimer, saveSession>> /\ sent' = Silence
           /\ mgr' \in {mgr, "UNDEFINED"} /\ shutdownType' = type
  <2>1. TypeOK'
    BY <1>1, <1>2, <1>4
    DEF TypeOK, Silence, Messages, ManagerStates, propVars
  <2> QED
    BY <1>4, <2>1, ListKeepsLedger DEF LedgerInv, Ledger, TimersHaveClients
<1>5. CASE /\ cstate' = [c \in Clients |->
                           IF c \in Participants THEN "SAVING" ELSE cstate[c]]
           /\ saveTimer' = saveTimer \cup Participants
           /\ sent' = GlobalSaveNote(shutdown)
           /\ mgr' = SaveTarget(shutdown)
           /\ shutdownType' = type /\ saveSession' = (~shutdown \/ save)
  <2>1. cstate' \in [Clients -> ClientStates] /\ mgr' \in ManagerStates
    BY <1>1, <1>5 DEF ClientStates, ManagerStates, SaveTarget
  <2>2. sent' \in [Clients -> Messages]
    BY <1>5 DEF GlobalSaveNote, Messages
  <2>3. saveTimer' \subseteq Running(cstate)
    BY <1>3, <1>5 DEF LedgerInv, TimersHaveClients
  <2>4. saveTimer' \subseteq Clients
    BY <2>3 DEF Running
  <2>5. TypeOK'
    BY <1>1, <1>2, <1>5, <2>1, <2>2, <2>4 DEF TypeOK, propVars
  <2>6. \A c \in Clients :
          /\ cstate'[c] \in {"GONE", "CONNECTED"} <=>
               cstate[c] \in {"GONE", "CONNECTED"}
          /\ cstate'[c] = "CONNECTED" => c \in XsmpClients
    BY <1>3, <1>5 DEF Running, LedgerInv, Ledger
  <2> QED
    BY <2>3, <2>5, <2>6, ListKeepsLedger
<1> QED
  BY <1>4, <1>5 DEF ProceedWith, GlobalSave, UseReleasedSmsConn

LEMMA SaveYourselfGlobalOK ==
  ASSUME LedgerInv, NEW shutdown \in BOOLEAN, NEW fast \in BOOLEAN,
         NEW type \in ShutdownTypes \cup {"ask"}, NEW allowed \in BOOLEAN,
         NEW from \in XsmpClients \cup {Bus},
         SaveYourselfGlobal(shutdown, fast, type, allowed, from),
         idleReq' \subseteq Requests
  PROVE  LedgerInv'
<1> DEFINE prompts == shutdown /\ ~fast /\ type = "ask"
           chosen == IF shutdown /\ type # "ask" THEN type ELSE shutdownType
<1>1. /\ NotStored /\ UNCHANGED <<killTimer, dieTimer, propVars>>
      /\ TypeOK /\ shutdownType \in ShutdownTypes
  BY DEF SaveYourselfGlobal, LedgerInv, TypeOK
<1>2. PICK save \in BOOLEAN :
        \/ AskUser(save, from)
        \/ ProceedWith(TRUE, "logout", save) /\ UNCHANGED dialog
        \/ ProceedWith(shutdown, chosen, save) /\ UNCHANGED dialog
  <2>1. \A save \in IF allowed THEN BOOLEAN ELSE {FALSE} : save \in BOOLEAN
    OBVIOUS
  <2> QED
    BY <2>1 DEF SaveYourselfGlobal
<1>3. chosen \in ShutdownTypes /\ "logout" \in ShutdownTypes
  BY <1>1 DEF ShutdownTypes
<1>4. CASE AskUser(save, from)
  <2>1. TypeOK'
    BY <1>1, <1>4, QuietOK
    DEF AskUser, TypeOK, Silence, Messages, propVars
  <2> QED
    BY <1>1, <1>4, <2>1, ListKeepsLedger
    DEF AskUser, LedgerInv, Ledger, TimersHaveClients
<1>5. CASE ProceedWith(TRUE, "logout", save) /\ UNCHANGED dialog
  BY <1>1, <1>3, <1>5, ProceedWithOK DEF TypeOK
<1>6. CASE ProceedWith(shutdown, chosen, save) /\ UNCHANGED dialog
  <2> HIDE DEF chosen
  <2> QED
    BY <1>1, <1>3, <1>6, ProceedWithOK DEF TypeOK
<1> QED
  BY <1>2, <1>4, <1>5, <1>6

-----------------------------------------------------------------------------
(* The actions.                                                            *)

\* Registration and properties.
LEMMA RegistrationOK ==
  ASSUME LedgerInv, NEW c \in Clients,
         \/ c \in XsmpClients /\ (NewClient(c) \/ RegisterXsmp(c))
         \/ c \in DBusClients /\ RegisterDBus(c)
         \/ Reregister(c)
         \/ \E hint \in Hints : SetProperties(c, hint)
  PROVE  LedgerInv'
<1>1. /\ cstate \in [Clients -> ClientStates] /\ TypeOK
      /\ attempts \in [Clients -> 0 .. MaxRestartAttempts + 1]
      /\ 0 \in 0 .. MaxRestartAttempts
      /\ starting \subseteq Clients /\ Running(cstate) \subseteq Clients
  BY SessionAssumption DEF LedgerInv, TypeOK, Running
<1>2. NotStored \/ Quiet => stored' \in Writes /\ checkpointName' \in BOOLEAN
  BY <1>1, QuietOK
<1>3. Quiet => sent' \in [Clients -> Messages]
  BY <1>1, QuietOK
<1>4. CASE c \in XsmpClients /\ NewClient(c)
  <2>1. TypeOK'
    BY <1>1, <1>2, <1>3, <1>4
    DEF NewClient, TypeOK, ClientStates, propVars, reqVars
  <2> QED
    BY <1>1, <1>4, <2>1, ListKeepsLedger
    DEF NewClient, LedgerInv, Ledger, TimersHaveClients
<1>5. CASE RegisterXsmp(c)
  <2>1. sent' \in [Clients -> Messages] /\ cstate' \in [Clients -> ClientStates]
    BY <1>1, <1>5 DEF RegisterXsmp, Silence, Messages, ClientStates
  <2>2. TypeOK'
    BY <1>1, <1>2, <1>5, <2>1 DEF RegisterXsmp, TypeOK, propVars, reqVars
  <2>3. Running(cstate)' = Running(cstate) \cup {c} /\ c \notin Running(cstate)
    BY <1>1, <1>5 DEF RegisterXsmp, Running
  <2>4. UNCHANGED propVars /\ c \notin starting \cup restartProps
        /\ saveTimer' = saveTimer \cup {c}
    BY <1>5 DEF RegisterXsmp
  <2>5. PropertiesHaveOneOwner' /\ TimersHaveClients' /\ RestartsAreBounded'
    BY <2>3, <2>4
    DEF LedgerInv, PropertiesHaveOneOwner, TimersHaveClients,
        RestartsAreBounded, propVars
  <2>6. attempts[c] = 0
    BY <2>3, <2>4 DEF LedgerInv, Ledger
  <2>7. \A d \in Clients : cstate'[d] = "CONNECTED" => d \in XsmpClients
    BY <1>1, <1>5 DEF RegisterXsmp, LedgerInv, Ledger
  <2>8. Ledger'
    BY <1>1, <2>3, <2>4, <2>6, <2>7 DEF LedgerInv, Ledger, propVars
  <2> QED
    BY <2>2, <2>5, <2>8 DEF LedgerInv
<1>6. CASE c \in DBusClients /\ RegisterDBus(c)
  <2>1. /\ cstate' \in [Clients -> ClientStates]
        /\ props' \in [Clients -> Hints \cup {"IfRunning", "none"}]
        /\ attempts' \in [Clients -> 0 .. MaxRestartAttempts + 1]
    BY <1>1, <1>6, SessionAssumption DEF RegisterDBus, ClientStates, TypeOK
  <2>2. TypeOK'
    BY <1>1, <1>2, <1>3, <1>6, <2>1 DEF RegisterDBus, TypeOK, reqVars
  <2>3. Running(cstate)' = Running(cstate) \cup {c}
    BY <1>1, <1>6 DEF RegisterDBus, Running
  <2>4. c \notin XsmpClients
    BY <1>6, SessionAssumption
  <2>5. /\ attempts'[c] = 0 /\ c \notin starting
        /\ \A d \in Clients \ {c} : attempts'[d] = attempts[d]
        /\ UNCHANGED <<saveTimer, starting, restartProps, resetTimer>>
    BY <1>1, <1>6 DEF RegisterDBus
  <2>6. PropertiesHaveOneOwner' /\ TimersHaveClients' /\ RestartsAreBounded'
    BY <1>1, <2>3, <2>4, <2>5
    DEF LedgerInv, PropertiesHaveOneOwner, TimersHaveClients,
        RestartsAreBounded
  <2>7. \A d \in Clients : cstate'[d] = "CONNECTED" => d \in XsmpClients
    BY <1>1, <1>6 DEF RegisterDBus, LedgerInv, Ledger
  <2>8. Ledger'
    BY <1>1, <2>3, <2>5, <2>7 DEF LedgerInv, Ledger
  <2> QED
    BY <2>2, <2>6, <2>8 DEF LedgerInv
<1>7. CASE Reregister(c)
  <2>1. cstate' \in [Clients -> ClientStates]
        /\ starting' = starting \ {c} /\ c \in starting
    BY <1>1, <1>7 DEF Reregister, TakeProperties, ClientStates
  <2>2. TypeOK'
    BY <1>1, <1>2, <1>3, <1>7, <2>1 DEF Reregister, TypeOK, reqVars
  <2>3. Running(cstate)' = Running(cstate) \cup {c}
    BY <1>1, <1>7 DEF Reregister, Running
  <2>4. PropertiesHaveOneOwner' /\ TimersHaveClients' /\ RestartsAreBounded'
    <3>1. PropertiesHaveOneOwner'
      BY <1>1, <1>7, <2>1, <2>3
      DEF Reregister, LedgerInv, PropertiesHaveOneOwner
    <3>2. TimersHaveClients'
      BY <1>1, <1>7, <2>3 DEF Reregister, LedgerInv, TimersHaveClients
    <3>3. RestartsAreBounded'
      BY <1>1, <1>7, <2>1 DEF Reregister, LedgerInv, RestartsAreBounded
    <3> QED
      BY <3>1, <3>2, <3>3
  <2>5. Ledger'
    BY <1>1, <1>7, <2>1, <2>3 DEF Reregister, LedgerInv, Ledger
  <2> QED
    BY <2>2, <2>4, <2>5 DEF LedgerInv
<1>8. CASE \E hint \in Hints : SetProperties(c, hint)
  <2>1. TypeOK'
    BY <1>1, <1>2, <1>3, <1>8
    DEF SetProperties, TypeOK, clientVars, reqVars
  <2>2. UNCHANGED <<clientVars, starting, restartProps, attempts, resetTimer>>
    BY <1>8 DEF SetProperties
  <2>3. Running(cstate)' = Running(cstate)
    BY <2>2 DEF Running, clientVars
  <2> QED
    BY <2>1, <2>2, <2>3
    DEF LedgerInv, Ledger, PropertiesHaveOneOwner, TimersHaveClients,
        RestartsAreBounded, clientVars
<1> QED
  BY <1>4, <1>5, <1>6, <1>7, <1>8

\* Restarts that fail, attempts that are forgiven.
LEMMA RestartOK ==
  ASSUME LedgerInv, NEW c \in Clients,
         StartupFailed(c) \/ ResetRestartAttempts(c)
  PROVE  LedgerInv'
<1>1. /\ TypeOK /\ Quiet /\ UNCHANGED <<clientVars, reqVars>>
      /\ 0 \in 0 .. MaxRestartAttempts
      /\ starting \subseteq Clients /\ Running(cstate) \subseteq Clients
  BY SessionAssumption
  DEF LedgerInv, TypeOK, StartupFailed, ResetRestartAttempts, Running
<1>2. stored' \in Writes /\ checkpointName' \in BOOLEAN
      /\ sent' \in [Clients -> Messages]
  BY <1>1, QuietOK
<1>3. CASE StartupFailed(c)
  <2>1. c \in Running(cstate) \cup starting
        /\ HandleFailedProperties(c, starting \ {c})
    BY <1>3 DEF StartupFailed
  <2>2. TypeOK'
    <3>1. starting' \subseteq Clients /\ restartProps' \subseteq Clients
          /\ resetTimer' \subseteq Clients
      BY <1>1, <2>1, HandleFailedOK DEF TypeOK
    <3>2. /\ props' \in [Clients -> Hints \cup {"IfRunning", "none"}]
          /\ attempts' \in [Clients -> 0 .. MaxRestartAttempts + 1]
      BY <2>1, HandleFailedOK
    <3> QED
      BY <1>1, <1>2, <1>3, <3>1, <3>2
      DEF StartupFailed, TypeOK, clientVars, reqVars
  <2>3. c \notin Running(cstate)
    BY <1>3 DEF StartupFailed, LedgerInv, Ledger
  <2>4. /\ cstate' = cstate /\ saveTimer' = saveTimer \ {c}
        /\ Running(cstate)' = Running(cstate) \ {c}
    BY <1>1, <2>3 DEF clientVars, LedgerInv, TimersHaveClients, Running
  <2> QED
    BY <2>1, <2>2, <2>4, FailedKeepsLedger
<1>4. CASE ResetRestartAttempts(c)
  <2>1. /\ attempts' \in [Clients -> 0 .. MaxRestartAttempts + 1]
        /\ attempts'[c] = 0
        /\ \A d \in Clients \ {c} : attempts'[d] = attempts[d]
        /\ resetTimer' = resetTimer \ {c}
        /\ UNCHANGED <<cstate, saveTimer, killTimer, starting, restartProps>>
    BY <1>1, <1>4, SessionAssumption
    DEF ResetRestartAttempts, TypeOK, clientVars
  <2>2. TypeOK'
    BY <1>1, <1>2, <1>4, <2>1 DEF ResetRestartAttempts, TypeOK, reqVars
  <2>3. Running(cstate)' = Running(cstate)
    BY <2>1 DEF Running
  <2>4. c \notin starting
    BY <1>4 DEF ResetRestartAttempts, LedgerInv, TimersHaveClients, Ledger
  <2> QED
    BY <1>1, <2>1, <2>2, <2>3, <2>4
    DEF LedgerInv, Ledger, PropertiesHaveOneOwner, TimersHaveClients,
        RestartsAreBounded
<1> QED
  BY <1>3, <1>4

\* Requests for a save of the session, and what the user says to them.
LEMMA RequestOK ==
  ASSUME LedgerInv, RequestStep \/ DialogStep
  PROVE  LedgerInv'
<1>1. TypeOK /\ "ask" \in ShutdownTypes \cup {"ask"}
      /\ Bus \in XsmpClients \cup {Bus}
      /\ Types \subseteq ShutdownTypes \cup {"ask"}
  BY SessionAssumption DEF LedgerInv, ShutdownTypes
<1>2. \A named \in BOOLEAN : DBusCheckpoint(named) => LedgerInv'
  <2> SUFFICES ASSUME NEW named \in BOOLEAN, DBusCheckpoint(named)
               PROVE  LedgerInv'
    OBVIOUS
  <2>1. idleReq' \subseteq Requests
    BY <1>1 DEF DBusCheckpoint, Requests
  <2>2. stored' \in Writes /\ sent' \in [Clients -> Messages]
    BY DEF DBusCheckpoint, Writes, Nothing, Silence, Messages
  <2>3. TypeOK'
    BY <1>1, <2>1, <2>2 DEF DBusCheckpoint, TypeOK, clientVars, propVars
  <2> QED
    BY <2>3, ListKeepsLedger
    DEF DBusCheckpoint, LedgerInv, Ledger, TimersHaveClients, clientVars
<1>3. \A type \in Types, save \in BOOLEAN : DBusShutdown(type, save) => LedgerInv'
  <2> SUFFICES ASSUME NEW type \in Types, NEW save \in BOOLEAN,
                      DBusShutdown(type, save)
               PROVE  LedgerInv'
    OBVIOUS
  <2>1. idleReq' \subseteq Requests
    BY <1>1 DEF DBusShutdown, Requests
  <2>2. TypeOK'
    BY <1>1, <2>1, QuietOK DEF DBusShutdown, TypeOK, clientVars, propVars
  <2> QED
    BY <2>2, ListKeepsLedger
    DEF DBusShutdown, LedgerInv, Ledger, TimersHaveClients, clientVars
<1>4. CASE RequestIdled
  <2>1. PICK r \in idleReq :
          idleReq' = {} /\ SaveYourselfGlobal(r.shutdown, FALSE, r.type, r.save, Bus)
    BY <1>4 DEF RequestIdled
  <2>2. r.shutdown \in BOOLEAN /\ r.type \in ShutdownTypes \cup {"ask"}
        /\ r.save \in BOOLEAN
    BY <1>1, <2>1 DEF TypeOK, Requests
  <2> QED
    BY <1>1, <2>1, <2>2, SaveYourselfGlobalOK
<1>5. CASE DialogConfirmed
  <2>1. PICK d \in dialog, type \in Types \ {"ask"} :
          /\ dialog' = {}
          /\ \/ /\ mgr' = "UNDEFINED" /\ sent' = Silence
                /\ UNCHANGED <<cstate, saveTimer, saveSession, shutdownType>>
             \/ ProceedWith(TRUE, type, d.save)
    BY <1>5 DEF DialogConfirmed
  <2>2. NotStored /\ UNCHANGED <<killTimer, dieTimer, propVars, idleReq>>
    BY <1>5 DEF DialogConfirmed
  <2>3. type \in ShutdownTypes /\ d.save \in BOOLEAN
    BY <1>1, <2>1 DEF TypeOK
  <2>4. CASE ProceedWith(TRUE, type, d.save)
    BY <1>1, <2>1, <2>2, <2>3, <2>4, ProceedWithOK DEF TypeOK
  <2>5. CASE mgr' = "UNDEFINED" /\ sent' = Silence
             /\ UNCHANGED <<cstate, saveTimer, saveSession, shutdownType>>
    <3>1. TypeOK'
      BY <1>1, <2>1, <2>2, <2>5, QuietOK
      DEF TypeOK, ManagerStates, Silence, Messages, propVars
    <3> QED
      BY <2>2, <2>5, <3>1, ListKeepsLedger
      DEF LedgerInv, Ledger, TimersHaveClients
  <2> QED
    BY <2>1, <2>4, <2>5
<1>6. CASE DialogCancelled
  <2>1. TypeOK'
    BY <1>1, <1>6, QuietOK DEF DialogCancelled, TypeOK, clientVars, propVars
  <2> QED
    BY <1>6, <2>1, ListKeepsLedger
    DEF DialogCancelled, LedgerInv, Ledger, TimersHaveClients, clientVars
<1> QED
  BY <1>2, <1>3, <1>4, <1>5, <1>6 DEF RequestStep, DialogStep

\* A handler that only moves clients of the list from one state to another,
\* and starts timers of theirs.
LEMMA MoveOK ==
  ASSUME LedgerInv, Unchanged, mgr' \in ManagerStates,
         cstate' \in [Clients -> ClientStates],
         \A d \in Clients :
           \/ cstate'[d] = cstate[d]
           \/ d \in Running(cstate) /\ cstate'[d] \notin {"GONE", "CONNECTED"},
         saveTimer' \subseteq Running(cstate),
         sent' \in [Clients -> Messages]
  PROVE  LedgerInv'
<1>1. TypeOK /\ Running(cstate) \subseteq Clients
  BY DEF LedgerInv, Running
<1>2. TypeOK'
  BY <1>1, QuietOK DEF Unchanged, TypeOK, propVars, reqVars
<1>3. UNCHANGED propVars
  BY DEF Unchanged
<1>4. \A d \in Clients :
        /\ cstate'[d] \in {"GONE", "CONNECTED"} <=>
             cstate[d] \in {"GONE", "CONNECTED"}
        /\ cstate'[d] = "CONNECTED" => d \in XsmpClients
  BY DEF Running, LedgerInv, Ledger
<1> QED
  BY <1>2, <1>3, <1>4, ListKeepsLedger

\* xfsm_manager_save_yourself
LEMMA SaveYourselfOK ==
  ASSUME LedgerInv, NEW c \in Clients, SaveYourself(c)
  PROVE  LedgerInv'
<1>1. TypeOK /\ c \in Talking
  BY DEF LedgerInv, SaveYourself
<1>2. c \in Running(cstate) /\ c \in XsmpClients /\ cstate[c] # "GONE"
      /\ "ask" \in ShutdownTypes \cup {"ask"} /\ TRUE \in BOOLEAN
  BY <1>1 DEF Talking, Running
<1>3. CASE SaveYourselfLocal(c)
  <2>1. sent' \in [Clients -> Messages] /\ cstate' \in [Clients -> ClientStates]
    BY <1>1, <1>3
    DEF SaveYourselfLocal, Silence, Messages, ClientStates, TypeOK
  <2>2. saveTimer' \subseteq Running(cstate)
    BY <1>2, <1>3 DEF SaveYourselfLocal, LedgerInv, TimersHaveClients
  <2> QED
    BY <1>1, <1>2, <1>3, <2>1, <2>2, MoveOK DEF SaveYourselfLocal, TypeOK
<1>4. ASSUME NEW shutdown \in BOOLEAN, NEW fast \in BOOLEAN,
             SaveYourselfOfSession(c, shutdown, fast)
      PROVE  LedgerInv'
  <2>1. idleReq' \subseteq Requests
    BY <1>1, <1>4 DEF SaveYourselfOfSession, TypeOK
  <2> QED
    BY <1>2, <1>4, <2>1, SaveYourselfGlobalOK DEF SaveYourselfOfSession
<1>5. CASE CloseConnection(c, TRUE)
  BY <1>2, <1>5, CloseConnectionOK
<1> QED
  BY <1>3, <1>4, <1>5 DEF SaveYourself

\* xfsm_manager_interact, xfsm_manager_interact_done
LEMMA InteractOK ==
  ASSUME LedgerInv, NEW c \in Clients,
         InteractRequest(c) \/ \E cancel \in BOOLEAN : InteractDone(c, cancel)
  PROVE  LedgerInv'
<1>1. TypeOK /\ c \in Talking /\ cstate \in [Clients -> ClientStates]
      /\ mgr \in ManagerStates /\ "CHECKPOINT" \in ManagerStates
  BY DEF LedgerInv, TypeOK, InteractRequest, InteractDone, ManagerStates
<1>2. c \in Running(cstate) /\ cstate[c] # "GONE"
      /\ saveTimer \subseteq Running(cstate) /\ TRUE \in BOOLEAN
  BY <1>1 DEF Talking, Running, LedgerInv, TimersHaveClients
<1>3. CASE CloseConnection(c, TRUE)
  BY <1>2, <1>3, CloseConnectionOK
<1>4. ASSUME NEW busy \in BOOLEAN, BeginInteract(c, busy), Unchanged,
             UNCHANGED mgr
      PROVE  LedgerInv'
  <2>1. sent' \in [Clients -> Messages] /\ cstate' \in [Clients -> ClientStates]
    BY <1>1, <1>4 DEF BeginInteract, Silence, Messages, ClientStates
  <2> QED
    BY <1>1, <1>2, <1>4, <2>1, MoveOK DEF BeginInteract
<1>5. CASE CancelShutdown(c) /\ Unchanged
  <2>1. sent' \in [Clients -> Messages] /\ cstate' \in [Clients -> ClientStates]
    BY <1>1, <1>5 DEF CancelShutdown, Resumed, Messages, ClientStates
  <2> QED
    BY <1>1, <1>2, <1>5, <2>1, MoveOK DEF CancelShutdown, Resumed
<1>6. CASE NextInteracts(c) /\ Unchanged
  <2>1. Resumed(c) \in [Clients -> ClientStates]
        /\ \A d \in Clients :
             Resumed(c)[d] = IF d = c THEN "SAVING" ELSE cstate[d]
    BY <1>1 DEF Resumed, ClientStates
  <2>2. CASE cstate' = Resumed(c) /\ sent' = Silence
             /\ saveTimer' = saveTimer \cup {c}
    <3>1. sent' \in [Clients -> Messages]
      BY <2>2 DEF Silence, Messages
    <3> QED
      BY <1>1, <1>2, <1>6, <2>1, <2>2, <3>1, MoveOK DEF NextInteracts
  <2>3. ASSUME NEW d \in Clients, cstate[d] = "WAITFORINTERACT",
               cstate' = [Resumed(c) EXCEPT ![d] = "INTERACTING"],
               sent' = [Silence EXCEPT ![d] = "Interact"],
               saveTimer' = (saveTimer \ {d}) \cup {c}
        PROVE  LedgerInv'
    <3>1. sent' \in [Clients -> Messages] /\ cstate' \in [Clients -> ClientStates]
      BY <2>1, <2>3 DEF Silence, Messages, ClientStates
    <3>2. d \in Running(cstate)
      BY <2>3 DEF Running
    <3> QED
      BY <1>1, <1>2, <1>6, <2>1, <2>3, <3>1, <3>2, MoveOK DEF NextInteracts
  <2> QED
    BY <1>6, <2>2, <2>3 DEF NextInteracts
<1> QED
  BY <1>3, <1>4, <1>5, <1>6 DEF InteractRequest, InteractDone

\* xfsm_manager_save_yourself_phase2
LEMMA SaveYourselfPhase2OK ==
  ASSUME LedgerInv, NEW c \in Clients, SaveYourselfPhase2(c)
  PROVE  LedgerInv'
<1> DEFINE st == [cstate EXCEPT ![c] = "WAITFORPHASE2"]
<1>1. TypeOK /\ c \in Talking /\ cstate \in [Clients -> ClientStates]
      /\ mgr \in ManagerStates /\ Unchanged /\ UNCHANGED mgr
  BY DEF LedgerInv, TypeOK, SaveYourselfPhase2
<1>2. c \in Running(cstate) /\ saveTimer \subseteq Running(cstate)
  BY <1>1 DEF Talking, Running, LedgerInv, TimersHaveClients
<1>3. st \in [Clients -> ClientStates]
      /\ \A d \in Clients : st[d] = IF d = c THEN "WAITFORPHASE2" ELSE cstate[d]
  BY <1>1 DEF ClientStates
<1> HIDE DEF st
<1>4. CASE cstate' = st /\ saveTimer' = saveTimer \ {c} /\ sent' = Silence
  <2>1. sent' \in [Clients -> Messages]
    BY <1>4 DEF Silence, Messages
  <2> QED
    BY <1>1, <1>2, <1>3, <1>4, <2>1, MoveOK
<1>5. CASE EnterPhase2(st, saveTimer \ {c}, Silence)
  <2>1. sent' \in [Clients -> Messages] /\ cstate' \in [Clients -> ClientStates]
    BY <1>3, <1>5 DEF EnterPhase2, Silence, Messages, ClientStates
  <2>2. AwaitingPhase2(st) \subseteq Running(cstate)
    BY <1>2, <1>3 DEF AwaitingPhase2, Running
  <2>3. saveTimer' \subseteq Running(cstate)
    BY <1>2, <1>5, <2>2 DEF EnterPhase2
  <2>4. \A d \in Clients :
          \/ cstate'[d] = cstate[d]
          \/ d \in Running(cstate) /\ cstate'[d] \notin {"GONE", "CONNECTED"}
    BY <1>2, <1>3, <1>5, <2>2 DEF EnterPhase2
  <2> QED
    BY <1>1, <2>1, <2>3, <2>4, MoveOK
<1>6. CASE /\ cstate' = [cstate EXCEPT ![c] = "SAVINGLOCAL"]
           /\ saveTimer' = saveTimer \cup {c}
           /\ sent' = [Silence EXCEPT ![c] = "SaveYourselfPhase2"]
  <2>1. sent' \in [Clients -> Messages] /\ cstate' \in [Clients -> ClientStates]
    BY <1>1, <1>6 DEF Silence, Messages, ClientStates
  <2> QED
    BY <1>1, <1>2, <1>6, <2>1, MoveOK
<1> QED
  BY <1>4, <1>5, <1>6 DEF SaveYourselfPhase2, st

\* xfsm_manager_save_yourself_done, from either kind of client.
LEMMA SaveYourselfDoneOK ==
  ASSUME LedgerInv, NEW c \in Running(cstate), HandleSaveYourselfDone(c)
  PROVE  LedgerInv'
<1>1. /\ TypeOK /\ cstate \in [Clients -> ClientStates] /\ c \in Clients
      /\ saveTimer \subseteq Running(cstate) /\ TRUE \in BOOLEAN
      /\ cstate[c] \notin {"GONE", "CONNECTED"} /\ saveTimer \subseteq Clients
      /\ \A d \in Clients : cstate[d] = "CONNECTED" => d \in XsmpClients
  BY DEF LedgerInv, TypeOK, Running, TimersHaveClients, Ledger
<1>2. CASE CloseConnection(c, TRUE)
  BY <1>1, <1>2, CloseConnectionOK
<1>3. CASE LocalSaveDone(c)
  <2>1. sent' \in [Clients -> Messages] /\ cstate' \in [Clients -> ClientStates]
    BY <1>1, <1>3 DEF LocalSaveDone, Silence, Messages, ClientStates
  <2> QED
    BY <1>1, <1>3, <2>1, MoveOK DEF LocalSaveDone, TypeOK
<1>4. CASE /\ CompleteSaveYourself([cstate EXCEPT ![c] = "SAVEDONE"],
                                   saveTimer \ {c}, Silence)
           /\ UNCHANGED <<killTimer, propVars, saveSession, reqVars>>
  <2> DEFINE st == [cstate EXCEPT ![c] = "SAVEDONE"]
  <2>1. st \in [Clients -> ClientStates] /\ Running(st) = Running(cstate)
        /\ Silence \in [Clients -> Messages] /\ saveTimer \ {c} \in SUBSET Clients
        /\ \A d \in Clients : st[d] \in {"GONE", "CONNECTED"} =>
                              st[d] = cstate[d]
    BY <1>1 DEF ClientStates, Running, Silence, Messages
  <2>2. SaveStateOK(st, saveTimer \ {c})
    <3> HIDE DEF st
    <3> QED
      BY <1>1, <1>4, <2>1, CompleteSaveOK DEF st
  <2> HIDE DEF st
  <2>3. Running(cstate)' = Running(cstate) /\ saveTimer' \subseteq Running(cstate)
    BY <1>1, <2>1, <2>2 DEF SaveStateOK, Running
  <2>4. TypeOK'
    <3>1. saveTimer' \subseteq Clients
      BY <2>3 DEF Running
    <3> QED
      BY <1>1, <1>4, <2>2, <3>1 DEF SaveStateOK, TypeOK, propVars, reqVars
  <2>5. \A d \in Clients :
          /\ cstate'[d] \in {"GONE", "CONNECTED"} <=>
               cstate[d] \in {"GONE", "CONNECTED"}
          /\ cstate'[d] = "CONNECTED" => d \in XsmpClients
    BY <1>1, <2>1, <2>2, <2>3 DEF SaveStateOK, Running
  <2> QED
    BY <1>4, <2>3, <2>4, <2>5, ListKeepsLedger DEF LedgerInv, TimersHaveClients
<1>5. CASE UseAfterRelease
  BY <1>5, UseAfterReleaseOK
<1>6. ASSUME NEW st, st = [cstate EXCEPT ![c] = "GONE"],
             mgr' = "QUIT", dieTimer' = FALSE, cstate' = st,
             saveTimer' = saveTimer \ {c}, sent' = CleanupNote(c, TRUE),
             IF saveSession THEN StoreSession(st) ELSE NotStored,
             killTimer' \in KillTimers, FreeProperties(c),
             UNCHANGED <<starting, restartProps, saveSession, reqVars>>
      PROVE  LedgerInv'
  <2>1. st \in [Clients -> ClientStates]
        /\ \A d \in Clients : st[d] = IF d = c THEN "GONE" ELSE cstate[d]
    BY <1>1, <1>6 DEF ClientStates
  <2>2. stored' \in Writes /\ checkpointName' \in BOOLEAN
    BY <1>1, <1>6, <2>1, StoreSessionOK
  <2>3. /\ props' \in [Clients -> Hints \cup {"IfRunning", "none"}]
        /\ attempts' \in [Clients -> 0 .. MaxRestartAttempts + 1]
        /\ resetTimer' \subseteq Clients
        /\ sent' \in [Clients -> Messages]
    BY <1>1, <1>6, FreeOK, CleanupNoteOK
  <2>4. TypeOK'
    BY <1>1, <1>6, <2>1, <2>2, <2>3 DEF TypeOK, ManagerStates, reqVars
  <2>5. Running(cstate)' = Running(cstate) \ {c}
        /\ \A d \in Clients : cstate'[d] = "CONNECTED" => d \in XsmpClients
    BY <1>1, <1>6, <2>1 DEF Running
  <2> QED
    BY <1>1, <1>6, <2>4, <2>5, DropKeepsLedger
<1>7. GlobalSaveDone(c) => LedgerInv'
  BY <1>2, <1>4 DEF GlobalSaveDone
<1>8. ASSUME UnexpectedDone(c) PROVE LedgerInv'
  <2> DEFINE stopped == Terminated(killTimer, c)
  <2>1. c \in DBusClients =>
          /\ Released(stopped, c) \in KillTimers
          /\ Released(Terminated(stopped, c), c) \in KillTimers
    BY <1>1, KillTimersOK DEF TypeOK
  <2>2. CASE c \in DBusClients /\ mgr' = "QUIT" /\ cstate' = [cstate EXCEPT ![c] = "GONE"]
             /\ dieTimer' = FALSE
             /\ saveTimer' = saveTimer \ {c} /\ sent' = CleanupNote(c, TRUE)
             /\ (IF saveSession THEN StoreSession([cstate EXCEPT ![c] = "GONE"])
                 ELSE NotStored)
             /\ killTimer' = Released(Terminated(stopped, c), c)
             /\ FreeProperties(c)
             /\ UNCHANGED <<starting, restartProps, saveSession, reqVars>>
    BY <1>6, <2>1, <2>2
  <2>3. CASE c \in DBusClients /\ DropInSave(c, TRUE)
             /\ killTimer' \in {Released(stopped, c),
                                Released(Terminated(stopped, c), c)}
             /\ UNCHANGED <<saveSession, reqVars>>
    BY <1>1, <2>1, <2>3, DropInSaveOK
  <2> QED
    BY <1>5, <1>8, <2>2, <2>3 DEF UnexpectedDone
<1> QED
  BY <1>3, <1>7, <1>8 DEF HandleSaveYourselfDone

\* Requests to stop and connections that end.
LEMMA LeaveOK ==
  ASSUME LedgerInv, NEW c \in Clients,
         \/ SaveYourselfDone(c) \/ EndSessionResponse(c) \/ Terminate(c)
         \/ CloseRequest(c) \/ IceError(c) \/ DBusClientLeft(c)
  PROVE  LedgerInv'
<1>1. TypeOK /\ cstate \in [Clients -> ClientStates] /\ Talking \subseteq Running(cstate)
      /\ TRUE \in BOOLEAN /\ FALSE \in BOOLEAN
  BY DEF LedgerInv, TypeOK, Talking
<1>2. CASE SaveYourselfDone(c)
  BY <1>1, <1>2, SaveYourselfDoneOK DEF SaveYourselfDone
<1>3. CASE EndSessionResponse(c)
  BY <1>1, <1>3, SaveYourselfDoneOK, CloseConnectionOK
  DEF EndSessionResponse, Running
<1>4. CASE Terminate(c)
  <2>1. sent' \in [Clients -> Messages]
    BY <1>4 DEF Terminate, Silence, Messages
  <2>2. c \in Running(cstate) /\ UNCHANGED propVars
    BY <1>4 DEF Terminate, Running
  <2>3. killTimer' \in KillTimers
    BY <1>1, <1>4, KillTimersOK DEF Terminate, TypeOK
  <2>4. TypeOK'
    BY <1>1, <1>4, <2>1, <2>3, QuietOK DEF Terminate, TypeOK, propVars, reqVars
  <2> QED
    BY <1>4, <2>2, <2>4, ListKeepsLedger
    DEF Terminate, LedgerInv, Ledger, TimersHaveClients
<1>5. CASE CloseRequest(c)
  BY <1>1, <1>5, CloseConnectionOK DEF CloseRequest, Running
<1>6. CASE IceError(c)
  <2>1. CASE c \in Talking /\ CloseConnection(c, FALSE)
    BY <1>1, <2>1, CloseConnectionOK DEF Running
  <2>2. CASE /\ cstate[c] = "CONNECTED"
             /\ cstate' = [cstate EXCEPT ![c] = "GONE"]
             /\ sent' = Silence /\ NotStored
             /\ UNCHANGED <<mgr, saveTimer, killTimer, dieTimer, propVars,
                            saveSession, reqVars>>
    <3>1. Quiet /\ cstate' \in [Clients -> ClientStates]
      BY <1>1, <2>2 DEF Quiet, ClientStates
    <3>2. TypeOK'
      BY <1>1, <2>2, <3>1, QuietOK DEF TypeOK, propVars, reqVars
    <3>3. \A d \in Clients :
            /\ cstate'[d] \in {"GONE", "CONNECTED"} <=>
                 cstate[d] \in {"GONE", "CONNECTED"}
            /\ cstate'[d] = "CONNECTED" => d \in XsmpClients
      BY <1>1, <2>2 DEF LedgerInv, Ledger
    <3> QED
      BY <2>2, <3>2, <3>3, ListKeepsLedger DEF LedgerInv, TimersHaveClients
  <2> QED
    BY <1>6, <2>1, <2>2 DEF IceError
<1>7. CASE DBusClientLeft(c)
  BY <1>1, <1>7, CloseConnectionOK DEF DBusClientLeft, Running
<1> QED
  BY <1>2, <1>3, <1>4, <1>5, <1>6, <1>7

\* The timers of clients and of the die phase.
LEMMA TimersOK ==
  ASSUME LedgerInv,
         \/ DieTimeout \/ KillReleasedClient
         \/ \E c \in Clients : SaveTimeout(c) \/ KillHungClient(c)
  PROVE  LedgerInv'
<1>1. TypeOK /\ saveTimer \subseteq Running(cstate) /\ TRUE \in BOOLEAN
  BY DEF LedgerInv, TimersHaveClients
<1>2. CASE DieTimeout
  <2>1. TypeOK'
    BY <1>1, <1>2, QuietOK
    DEF DieTimeout, TypeOK, ManagerStates, clientVars, propVars, reqVars
  <2> QED
    BY <1>2, <2>1, ListKeepsLedger
    DEF DieTimeout, LedgerInv, Ledger, TimersHaveClients, clientVars
<1>3. ASSUME NEW c \in Clients, SaveTimeout(c) PROVE LedgerInv'
  BY <1>1, <1>3, CloseConnectionOK DEF SaveTimeout, Running
<1>4. ASSUME NEW c \in Clients, KillHungClient(c) PROVE LedgerInv'
  <2>1. killTimer' \in KillTimers
    <3> DEFINE cleared == [killTimer EXCEPT !.held = @ \ {c}]
    <3>1. killTimer \in KillTimers
      BY <1>1 DEF TypeOK
    <3>2. cleared \in KillTimers
      BY <3>1 DEF KillTimers
    <3> HIDE DEF cleared
    <3>3. [cleared EXCEPT !.lost = @ \ {c}] \in KillTimers
      BY <3>2 DEF KillTimers
    <3>4. killTimer' \in {cleared, [cleared EXCEPT !.lost = @ \ {c}]}
      BY <1>4 DEF KillHungClient, cleared
    <3> QED
      BY <3>2, <3>3, <3>4
  <2>2. TypeOK'
    BY <1>1, <1>4, <2>1, QuietOK DEF KillHungClient, TypeOK, propVars, reqVars
  <2> QED
    BY <1>4, <2>2, ListKeepsLedger
    DEF KillHungClient, LedgerInv, Ledger, TimersHaveClients
<1>5. CASE KillReleasedClient
  BY <1>5, UseAfterReleaseOK DEF KillReleasedClient
<1> QED
  BY <1>2, <1>3, <1>4, <1>5

-----------------------------------------------------------------------------
(* The theorems.                                                           *)

LEMMA NextLedger == LedgerInv /\ [Next]_vars => LedgerInv'
<1> SUFFICES ASSUME LedgerInv, [Next]_vars PROVE LedgerInv'
  OBVIOUS
<1>0. XsmpClients \subseteq Clients /\ DBusClients \subseteq Clients
  BY DEF Clients
<1>1. ASSUME NEW c \in XsmpClients, XsmpStep(c) PROVE LedgerInv'
  <2>1. c \in Clients
    BY <1>0
  <2> QED
    BY <1>1, <2>1, RegistrationOK, SaveYourselfOK, SaveYourselfPhase2OK,
       InteractOK, LeaveOK
    DEF XsmpStep
<1>2. ASSUME NEW c \in DBusClients, DBusStep(c) PROVE LedgerInv'
  <2>1. c \in Clients
    BY <1>0
  <2> QED
    BY <1>2, <2>1, RegistrationOK, LeaveOK DEF DBusStep
<1>3. ASSUME NEW c \in Clients, ClientStep(c) PROVE LedgerInv'
  BY <1>3, RegistrationOK, LeaveOK DEF ClientStep
<1>4. ASSUME NEW c \in Clients, TimerStep(c) PROVE LedgerInv'
  BY <1>4, TimersOK, RestartOK DEF TimerStep
<1>5. CASE RequestStep \/ DialogStep
  BY <1>5, RequestOK
<1>6. CASE DieTimeout \/ KillReleasedClient
  BY <1>6, TimersOK
<1>7. CASE UNCHANGED vars
  <2>1. TypeOK'
    BY <1>7 DEF LedgerInv, TypeOK, vars, clientVars, propVars, reqVars
  <2> QED
    BY <1>7, <2>1, ListKeepsLedger
    DEF vars, clientVars, LedgerInv, Ledger, TimersHaveClients
<1> QED
  BY <1>1, <1>2, <1>3, <1>4, <1>5, <1>6, <1>7 DEF Next

\* Every history that starts with nothing to restore is one that starts with
\* what a start-up may leave: what is proved of the latter holds of both.
THEOREM SpecRestored == Spec => RestoredSpec
  BY InitHandedOver, PTL DEF Spec, RestoredSpec

\* The bookkeeping of clients, properties, timers and attempts is right in
\* every state the manager reaches after whatever start-up.
LEMMA LedgerHolds == RestoredSpec => []LedgerInv
  BY HandoverLedger, NextLedger, PTL DEF RestoredSpec

\* The bookkeeping is right whatever the start-up left to the manager: the
\* types, one owner for the properties of an XSMP client, no save timeout and no
\* reset of restart attempts without its client, and a limit to the restarts of
\* properties that were tried before.
THEOREM RestoredLedger ==
  RestoredSpec => [](/\ TypeOK /\ PropertiesHaveOneOwner
                     /\ TimersHaveClients /\ RestartsAreBounded)
<1>1. LedgerInv => TypeOK /\ PropertiesHaveOneOwner
                   /\ TimersHaveClients /\ RestartsAreBounded
  BY DEF LedgerInv
<1> QED
  BY <1>1, LedgerHolds, PTL

\* Every variable keeps its type; restart_attempts stays within one of the
\* limit.
THEOREM TypeCorrect == Spec => []TypeOK
<1>1. LedgerInv => TypeOK
  BY DEF LedgerInv
<1> QED
  BY <1>1, SpecRestored, LedgerHolds, PTL

\* Properties of an XSMP client are never both held by a client and queued,
\* nor in two queues (xfsm_manager_get_pending_properties,
\* xfsm_manager_handle_failed_properties).
THEOREM OneOwner == Spec => []PropertiesHaveOneOwner
<1>1. LedgerInv => PropertiesHaveOneOwner
  BY DEF LedgerInv
<1> QED
  BY <1>1, SpecRestored, LedgerHolds, PTL

\* No save timeout outlives its client, and no reset of restart attempts the
\* client whose properties it works on (xfsm_manager_cancel_client_save_timeout,
\* xfsm_properties_free).  The third kind of timer, the kill timeouts of
\* xfsm_client_terminate, does outlive it: KillTimersHaveClients is refuted.
THEOREM SaveAndResetTimersEnd == Spec => []TimersHaveClients
<1>1. LedgerInv => TimersHaveClients
  BY DEF LedgerInv
<1> QED
  BY <1>1, SpecRestored, LedgerHolds, PTL

\* A client that keeps dying is started MaxRestartAttempts times at most
\* before its attempts are forgiven.
THEOREM BoundedRestarts == Spec => []RestartsAreBounded
<1>1. LedgerInv => RestartsAreBounded
  BY DEF LedgerInv
<1> QED
  BY <1>1, SpecRestored, LedgerHolds, PTL

=============================================================================
