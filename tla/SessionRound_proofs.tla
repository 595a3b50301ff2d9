------------------------- MODULE SessionRound_proofs -------------------------
(***************************************************************************)
(* SessionManager implements SaveRound, for any clients, and what a step   *)
(* of a round may not do: the action properties of SessionManager.         *)
(***************************************************************************)
EXTENDS SessionSave_proofs, SessionRound

-----------------------------------------------------------------------------
(* What is proved of every step.                                           *)

BarrierStep ==
  (mgr \in {"CHECKPOINT", "SHUTDOWN"}
     /\ \E c \in Clients : sent'[c] = "SaveYourselfPhase2")
  => \A c \in Clients :
       cstate'[c] \in {"SAVING", "WAITFORINTERACT", "INTERACTING"} =>
         sent'[c] = "SaveYourselfPhase2"

StoredStep ==
  stored' # Nothing
  => /\ mgr \in {"CHECKPOINT", "SHUTDOWN"}
     /\ mgr' \in (IF mgr = "CHECKPOINT" THEN {"IDLE", "UNDEFINED"}
                  ELSE {"SHUTDOWNPHASE2", "QUIT", "UNDEFINED"})
     /\ \A c \in Clients :
          cstate'[c] \in {"GONE", "CONNECTED", "IDLE", "SAVINGLOCAL",
                         "SAVEDONE", "DISCONNECTED"}

\* On Wayland there is no SHUTDOWN to be in.
WaylandStep == mgr' = "SHUTDOWN" => mgr = "SHUTDOWN" \/ ~Wayland

StepsWell == Round!Next /\ BarrierStep /\ StoredStep /\ WaylandStep

\* Saving and Waiting of a client state function a handler works on.
SavingIn(st) ==
  {c \in Clients : st[c] \in {"SAVING", "WAITFORINTERACT", "INTERACTING"}}
WaitingIn(st) == {c \in Clients : st[c] = "WAITFORPHASE2"}

\* No client is told to enter phase 2.
NoPhase2(note) == \A c \in Clients : note[c] # "SaveYourselfPhase2"

LEMMA SetsNow ==
  /\ Saving = SavingIn(cstate) /\ Waiting = WaitingIn(cstate)
  /\ Saving' = SavingIn(cstate') /\ Waiting' = WaitingIn(cstate')
  BY DEF Saving, Waiting, SavingIn, WaitingIn

LEMMA StageNow ==
  ASSUME mgr \in ManagerStates, mgr' \in ManagerStates
  PROVE  /\ mgr = "IDLE" <=> Stage = "idle"
         /\ mgr = "CHECKPOINT" <=> Stage = "checkpoint"
         /\ mgr = "SHUTDOWN" <=> Stage = "shutdown"
         /\ mgr = "SHUTDOWNPHASE2" <=> Stage = "dying"
         /\ mgr = "QUIT" <=> Stage = "ended"
         /\ mgr = "UNDEFINED" <=> Stage = "undefined"
         /\ mgr' = "IDLE" <=> Stage' = "idle"
         /\ mgr' = "CHECKPOINT" <=> Stage' = "checkpoint"
         /\ mgr' = "SHUTDOWN" <=> Stage' = "shutdown"
         /\ mgr' = "SHUTDOWNPHASE2" <=> Stage' = "dying"
         /\ mgr' = "QUIT" <=> Stage' = "ended"
         /\ mgr' = "UNDEFINED" <=> Stage' = "undefined"
         /\ mgr' = mgr => Stage' = Stage
  BY DEF Stage, ManagerStates

LEMMA NothingIs == Nothing.group = "none"
  BY DEF Nothing

\* A step that stores nothing, and changes the state of no client as far as a
\* round is concerned, while the manager stays where it is.
LEMMA QuietStep ==
  ASSUME mgr \in ManagerStates, mgr' = mgr, Saving' = Saving, Waiting' = Waiting,
         stored' = Nothing,
         NoPhase2(sent') \/ mgr \notin {"CHECKPOINT", "SHUTDOWN"}
  PROVE  StepsWell
<1>1. Round!Other
  BY StageNow, NothingIs DEF Round!Other
<1>2. BarrierStep /\ StoredStep /\ WaylandStep
  BY DEF BarrierStep, StoredStep, WaylandStep, NoPhase2
<1> QED
  BY <1>1, <1>2 DEF StepsWell, Round!Next

\* One client moves between states that are none of a round's.
LEMMA OneMovesQuietly ==
  ASSUME mgr \in ManagerStates, mgr' = mgr, stored' = Nothing, NEW c \in Clients,
         NoPhase2(sent') \/ mgr \notin {"CHECKPOINT", "SHUTDOWN"},
         \A d \in Clients \ {c} : cstate'[d] = cstate[d],
         cstate[c] \in {"SAVING", "WAITFORINTERACT", "INTERACTING"} <=>
           cstate'[c] \in {"SAVING", "WAITFORINTERACT", "INTERACTING"},
         cstate[c] = "WAITFORPHASE2" <=> cstate'[c] = "WAITFORPHASE2"
  PROVE  StepsWell
<1>1. Saving' = Saving /\ Waiting' = Waiting
  BY DEF Saving, Waiting
<1> QED
  BY <1>1, QuietStep

-----------------------------------------------------------------------------
(* What handlers have in common.                                           *)

\* Completing a save is the abstract decision how to go on.
LEMMA CompleteImplements ==
  ASSUME NEW st \in [Clients -> ClientStates], NEW timers, NEW note,
         NoPhase2(note), mgr \in {"CHECKPOINT", "SHUTDOWN"},
         CompleteSaveYourself(st, timers, note)
  PROVE  /\ Round!GoOn(SavingIn(st), WaitingIn(st))
         /\ BarrierStep /\ StoredStep /\ WaylandStep
<1>0. mgr \in ManagerStates
  BY DEF ManagerStates
<1>1. /\ ClientsSaving(st) <=> SavingIn(st) # {}
      /\ AwaitingPhase2(st) = WaitingIn(st)
  BY DEF ClientsSaving, SavingStates, SavingIn, AwaitingPhase2, WaitingIn
<1>2. CASE /\ ClientsSaving(st) /\ cstate' = st /\ sent' = note
           /\ stored' = Nothing /\ UNCHANGED mgr
  <2>1. Round!GoOn(SavingIn(st), WaitingIn(st))
    BY <1>0, <1>1, <1>2, SetsNow, StageNow, NothingIs DEF Round!GoOn
  <2> QED
    BY <1>2, <2>1 DEF BarrierStep, StoredStep, WaylandStep, NoPhase2
<1>3. CASE /\ ~ClientsSaving(st) /\ AwaitingPhase2(st) # {}
           /\ EnterPhase2(st, timers, note)
           /\ stored' = Nothing /\ UNCHANGED mgr
  <2>1. /\ \A c \in Clients : cstate'[c] = IF c \in WaitingIn(st)
                                           THEN "SAVING" ELSE st[c]
        /\ \A c \in Clients : c \in WaitingIn(st) =>
             sent'[c] = "SaveYourselfPhase2"
    BY <1>1, <1>3 DEF EnterPhase2
  <2>2. SavingIn(cstate') = WaitingIn(st) /\ WaitingIn(cstate') = {}
    BY <1>1, <1>3, <2>1 DEF SavingIn, WaitingIn
  <2>3. Round!GoOn(SavingIn(st), WaitingIn(st))
    BY <1>0, <1>1, <1>3, <2>2, SetsNow, StageNow, NothingIs DEF Round!GoOn
  <2>4. BarrierStep
    BY <2>1, <2>2 DEF BarrierStep, SavingIn
  <2> QED
    BY <1>3, <2>3, <2>4 DEF StoredStep, WaylandStep
<1>4. CASE /\ ~ClientsSaving(st) /\ AwaitingPhase2(st) = {}
           /\ IF saveSession THEN StoreSession(st) ELSE NotStored
           /\ IF \E c \in XsmpClients : st[c] = "DISCONNECTED"
              THEN UseReleasedSmsConn(st)
              ELSE IF mgr = "CHECKPOINT" THEN FinishCheckpoint(st, note)
              ELSE PerformShutdown(st, note)
  <2>1. \A c \in Clients :
          st[c] \in {"GONE", "CONNECTED", "IDLE", "SAVINGLOCAL", "SAVEDONE",
                     "DISCONNECTED"}
    BY <1>1, <1>4 DEF SavingIn, WaitingIn, ClientStates
  <2>2. /\ mgr = "CHECKPOINT" => mgr' \in {"IDLE", "UNDEFINED"}
        /\ mgr = "SHUTDOWN" => mgr' \in {"SHUTDOWNPHASE2", "UNDEFINED"}
        /\ \A c \in Clients : cstate'[c] \in {st[c], "IDLE"}
        /\ NoPhase2(sent')
    BY <1>4 DEF UseReleasedSmsConn, FinishCheckpoint, PerformShutdown, NoPhase2,
                Silence
  <2>3. /\ stored'.group \in {"none", "session", "checkpoint"}
        /\ mgr = "SHUTDOWN" => stored'.group \in {"none", "session"}
    <3> DEFINE G == IF mgr = "CHECKPOINT" /\ checkpointName
                    THEN "checkpoint" ELSE "session"
               I == restartProps \cup
                      {c \in Running(st) : props[c] \notin {"none", "Never"}}
    <3>1. stored' = Nothing \/ stored' = [group |-> G, ids |-> I]
      BY <1>4 DEF StoreSession, NotStored
    <3>2. stored' = [group |-> G, ids |-> I] => stored'.group = G
      <4> HIDE DEF G, I
      <4> QED
        OBVIOUS
    <3>3. G \in {"session", "checkpoint"} /\ (mgr = "SHUTDOWN" => G = "session")
      OBVIOUS
    <3> HIDE DEF G, I
    <3> QED
      BY <3>1, <3>2, <3>3, NothingIs
  <2>4. \A c \in Clients :
          cstate'[c] \in {"GONE", "CONNECTED", "IDLE", "SAVINGLOCAL", "SAVEDONE",
                         "DISCONNECTED"}
    BY <2>1, <2>2
  <2>5. Saving' = {} /\ Waiting' = {}
    BY <2>4 DEF Saving, Waiting
  <2>6. mgr' \in ManagerStates
    BY <2>2 DEF ManagerStates
  <2>7. Round!Finish
    BY <1>0, <2>2, <2>3, <2>5, <2>6, StageNow DEF Round!Finish
  <2>8. Round!GoOn(SavingIn(st), WaitingIn(st))
    BY <1>1, <1>4, <2>7 DEF Round!GoOn
  <2> QED
    BY <2>2, <2>4, <2>8 DEF BarrierStep, StoredStep, WaylandStep, NoPhase2
<1> QED
  BY <1>2, <1>3, <1>4 DEF CompleteSaveYourself, NotStored

\* A client that is dropped in a save is through with the round.
LEMMA DropImplements ==
  ASSUME TypeOK, NEW c \in Clients, NEW cleanup \in BOOLEAN,
         DropInSave(c, cleanup)
  PROVE  StepsWell
<1> DEFINE st == [cstate EXCEPT ![c] = "GONE"]
<1>0. /\ cstate \in [Clients -> ClientStates] /\ mgr \in ManagerStates
      /\ NoPhase2(CleanupNote(c, cleanup))
  BY DEF TypeOK, NoPhase2, CleanupNote, Silence
<1>1. st \in [Clients -> ClientStates]
      /\ \A d \in Clients : st[d] = IF d = c THEN "GONE" ELSE cstate[d]
  BY <1>0 DEF ClientStates
<1>2. CompleteSaveYourself(st, saveTimer \ {c}, CleanupNote(c, cleanup))
      /\ mgr \in {"CHECKPOINT", "SHUTDOWN"}
  BY DEF DropInSave
<1> HIDE DEF st
<1>3. SavingIn(st) = Saving \ {c} /\ WaitingIn(st) = Waiting \ {c}
  BY <1>1 DEF Saving, Waiting, SavingIn, WaitingIn
<1>4. /\ Round!GoOn(SavingIn(st), WaitingIn(st))
      /\ BarrierStep /\ StoredStep /\ WaylandStep
  BY <1>0, <1>1, <1>2, CompleteImplements
<1>5. Round!InRound
  BY <1>2 DEF Round!InRound, Stage
<1> QED
  BY <1>3, <1>4, <1>5 DEF StepsWell, Round!Next, Round!Through

\* A client that leaves, or is removed, is through with the round.
LEMMA CloseImplements ==
  ASSUME TypeOK, StatesAgree, NEW c \in Clients, NEW cleanup \in BOOLEAN,
         CloseConnection(c, cleanup)
  PROVE  StepsWell
<1>0. /\ cstate \in [Clients -> ClientStates] /\ mgr \in ManagerStates
      /\ NoPhase2(CleanupNote(c, cleanup))
  BY DEF TypeOK, NoPhase2, CleanupNote, Silence
<1>1. CASE CloseInDiePhase(c, cleanup)
  <2>1. /\ cstate'[c] \in {"GONE", "DISCONNECTED"}
        /\ \A d \in Clients \ {c} : cstate'[d] = cstate[d]
        /\ cstate[c] \notin {"SAVING", "WAITFORINTERACT", "INTERACTING",
                             "WAITFORPHASE2"}
        /\ mgr = "SHUTDOWNPHASE2" /\ stored' = Nothing
    BY <1>0, <1>1 DEF CloseInDiePhase, StatesAgree, NotStored
  <2>2. CASE mgr' = mgr
    BY <1>0, <2>1, <2>2, OneMovesQuietly
  <2>3. CASE mgr' = "QUIT"
    <3>1. Saving' = Saving /\ Waiting' = Waiting /\ mgr' \in ManagerStates
      BY <2>1, <2>3 DEF Saving, Waiting, ManagerStates
    <3>2. Round!End
      BY <1>0, <2>1, <2>3, <3>1, StageNow, NothingIs DEF Round!End
    <3> QED
      BY <2>1, <2>3, <3>2
      DEF StepsWell, Round!Next, BarrierStep, StoredStep, WaylandStep
  <2> QED
    BY <1>1, <2>2, <2>3 DEF CloseInDiePhase
<1>2. CASE CloseInSave(c, cleanup)
  BY <1>2, DropImplements DEF CloseInSave
<1>3. CASE CloseWhenIdle(c, cleanup)
  <2>1. /\ cstate'[c] = "GONE" /\ stored' = Nothing /\ mgr' = mgr
        /\ \A d \in Clients \ {c} : cstate'[d] = cstate[d]
        /\ cstate[c] \notin {"SAVING", "WAITFORINTERACT", "INTERACTING",
                             "WAITFORPHASE2"}
        /\ NoPhase2(sent')
    BY <1>0, <1>3 DEF CloseWhenIdle, StatesAgree, NotStored
  <2> QED
    BY <1>0, <2>1, OneMovesQuietly
<1> QED
  BY <1>1, <1>2, <1>3 DEF CloseConnection

\* A save of the session begins, or the machine is suspended.
LEMMA ProceedImplements ==
  ASSUME TypeOK, mgr \in {"IDLE", "CHECKPOINT", "SHUTDOWN", "SHUTDOWNPHASE2"},
         stored' = Nothing,
         NEW shutdown \in BOOLEAN, NEW save \in BOOLEAN, NEW type,
         ProceedWith(shutdown, type, save)
  PROVE  StepsWell
<1>0. mgr \in ManagerStates /\ NoPhase2(Silence)
  BY DEF ManagerStates, NoPhase2, Silence
<1>1. CASE mgr' = mgr /\ cstate' = cstate /\ sent' = Silence
  BY <1>0, <1>1, QuietStep DEF Saving, Waiting
<1>2. CASE UseReleasedSmsConn(cstate)
  <2>1. Saving' = Saving /\ Waiting' = Waiting /\ mgr' = "UNDEFINED"
        /\ NoPhase2(sent')
    BY <1>0, <1>2 DEF UseReleasedSmsConn, Saving, Waiting
  <2>2. Round!Break
    BY <2>1, NothingIs DEF Round!Break, Stage
  <2> QED
    BY <2>1, <2>2
    DEF StepsWell, Round!Next, BarrierStep, StoredStep, WaylandStep, NoPhase2
<1>3. CASE /\ cstate' = [c \in Clients |->
                           IF c \in Participants THEN "SAVING" ELSE cstate[c]]
           /\ sent' = GlobalSaveNote(shutdown)
           /\ mgr' = SaveTarget(shutdown)
  <2> DEFINE kind == IF ~shutdown THEN "checkpoint"
                     ELSE IF Wayland THEN "ended" ELSE "shutdown"
  <2>1. Stage' = kind /\ WaylandStep
    BY <1>3 DEF Stage, SaveTarget, WaylandStep
  <2>2. Participants \in SUBSET Clients
    BY DEF Participants, Running
  <2>3. Saving' = Saving \cup Participants /\ Waiting' = Waiting \ Participants
    BY <1>3, <2>2 DEF Saving, Waiting
  <2>4. Stage \in {"idle", "checkpoint", "shutdown", "dying"}
    BY DEF Stage
  <2>5. kind \in {"checkpoint", "shutdown", "ended"}
    OBVIOUS
  <2> HIDE DEF kind
  <2>6. Round!Begin(kind, Participants)
    BY <2>1, <2>3, <2>4, NothingIs DEF Round!Begin
  <2>7. NoPhase2(sent')
    BY <1>3 DEF NoPhase2, GlobalSaveNote
  <2> QED
    BY <2>1, <2>2, <2>5, <2>6, <2>7
    DEF StepsWell, Round!Next, BarrierStep, StoredStep, NoPhase2
<1> QED
  BY <1>1, <1>2, <1>3 DEF ProceedWith, GlobalSave

LEMMA SaveYourselfGlobalImplements ==
  ASSUME TypeOK, mgr \in {"IDLE", "CHECKPOINT", "SHUTDOWN", "SHUTDOWNPHASE2"},
         NEW shutdown \in BOOLEAN, NEW fast \in BOOLEAN,
         NEW type, NEW allowed \in BOOLEAN, NEW from,
         SaveYourselfGlobal(shutdown, fast, type, allowed, from)
  PROVE  StepsWell
<1>1. PICK save \in BOOLEAN :
        \/ AskUser(save, from)
        \/ ProceedWith(TRUE, "logout", save)
        \/ ProceedWith(shutdown,
                       IF shutdown /\ type # "ask" THEN type ELSE shutdownType,
                       save)
  <2>1. \A save \in IF allowed THEN BOOLEAN ELSE {FALSE} : save \in BOOLEAN
    OBVIOUS
  <2> QED
    BY <2>1 DEF SaveYourselfGlobal
<1>2. stored' = Nothing /\ mgr \in ManagerStates
  BY DEF SaveYourselfGlobal, NotStored, ManagerStates
<1>3. CASE AskUser(save, from)
  BY <1>2, <1>3, QuietStep DEF AskUser, Saving, Waiting, NoPhase2, Silence
<1> QED
  BY <1>1, <1>2, <1>3, ProceedImplements

-----------------------------------------------------------------------------
(* The actions.                                                            *)

InSession == mgr \in {"IDLE", "CHECKPOINT", "SHUTDOWN", "SHUTDOWNPHASE2"}

\* Registrations, properties and what else touches no round.
LEMMA OthersImplement ==
  ASSUME TypeOK, NEW c \in Clients,
         \/ NewClient(c) \/ RegisterXsmp(c) \/ RegisterDBus(c)
         \/ Reregister(c) \/ Terminate(c)
         \/ (\E hint \in Hints : SetProperties(c, hint))
         \/ KillHungClient(c) \/ StartupFailed(c) \/ ResetRestartAttempts(c)
  PROVE  StepsWell
<1>0. cstate \in [Clients -> ClientStates] /\ mgr \in ManagerStates
      /\ NoPhase2(Silence)
  BY DEF TypeOK, NoPhase2, Silence
<1>1. CASE NewClient(c) \/ RegisterXsmp(c) \/ RegisterDBus(c) \/ Reregister(c)
  <2>1. /\ cstate'[c] \in {"CONNECTED", "SAVINGLOCAL", "IDLE"}
        /\ cstate[c] \in {"GONE", "CONNECTED"}
        /\ \A d \in Clients \ {c} : cstate'[d] = cstate[d]
        /\ mgr' = mgr /\ stored' = Nothing
        /\ NoPhase2(sent')
    BY <1>0, <1>1 DEF NewClient, RegisterXsmp, RegisterDBus, Reregister,
                      Quiet, NotStored, NoPhase2, Silence
  <2> QED
    BY <1>0, <2>1, OneMovesQuietly
<1>2. CASE \/ Terminate(c) \/ (\E hint \in Hints : SetProperties(c, hint))
           \/ KillHungClient(c) \/ StartupFailed(c) \/ ResetRestartAttempts(c)
  <2>1. cstate' = cstate /\ mgr' = mgr /\ stored' = Nothing /\ NoPhase2(sent')
    BY <1>0, <1>2 DEF Terminate, SetProperties, KillHungClient, StartupFailed,
                      ResetRestartAttempts, clientVars, Quiet, NotStored,
                      NoPhase2, Silence
  <2> QED
    BY <1>0, <2>1, QuietStep DEF Saving, Waiting
<1> QED
  BY <1>1, <1>2

\* D-Bus requests, their idle callback and the logout dialog.
LEMMA RequestsImplement ==
  ASSUME TypeOK, mgr # "UNDEFINED",
         (InSession /\ RequestStep) \/ DialogStep
  PROVE  StepsWell
<1>0. mgr \in ManagerStates /\ NoPhase2(Silence)
  BY DEF TypeOK, NoPhase2, Silence
<1>1. CASE \/ \E named \in BOOLEAN : DBusCheckpoint(named)
           \/ \E type \in Types, save \in BOOLEAN : DBusShutdown(type, save)
           \/ DialogCancelled
  <2>1. cstate' = cstate /\ mgr' = mgr /\ stored' = Nothing /\ sent' = Silence
    BY <1>1 DEF DBusCheckpoint, DBusShutdown, DialogCancelled, clientVars,
                Quiet, NotStored
  <2> QED
    BY <1>0, <2>1, QuietStep DEF Saving, Waiting
<1>2. CASE InSession /\ RequestIdled
  <2>1. PICK r \in idleReq :
          SaveYourselfGlobal(r.shutdown, FALSE, r.type, r.save, Bus)
    BY <1>2 DEF RequestIdled
  <2>2. r.shutdown \in BOOLEAN /\ r.save \in BOOLEAN
    BY <2>1 DEF TypeOK, Requests
  <2> QED
    BY <1>2, <2>1, <2>2, SaveYourselfGlobalImplements DEF InSession
<1>3. CASE DialogConfirmed
  <2>1. PICK d \in dialog, type \in Types \ {"ask"} :
          /\ IF mgr = "QUIT"
             THEN mgr' = "UNDEFINED" /\ sent' = Silence /\ cstate' = cstate
             ELSE ProceedWith(TRUE, type, d.save)
          /\ stored' = Nothing
    BY <1>3 DEF DialogConfirmed, NotStored
  <2>2. d.save \in BOOLEAN
    BY <2>1 DEF TypeOK
  <2>3. CASE mgr = "QUIT"
    <3>1. Saving' = Saving /\ Waiting' = Waiting /\ mgr' = "UNDEFINED"
      BY <2>1, <2>3 DEF Saving, Waiting
    <3>2. Round!Break
      BY <2>1, <3>1, NothingIs DEF Round!Break, Stage
    <3> QED
      BY <2>1, <2>3, <3>1, <3>2
      DEF StepsWell, Round!Next, BarrierStep, StoredStep, WaylandStep
  <2>4. CASE mgr # "QUIT"
    <3>1. mgr \in {"IDLE", "CHECKPOINT", "SHUTDOWN", "SHUTDOWNPHASE2"}
      BY <1>0, <2>4 DEF ManagerStates
    <3> QED
      BY <2>1, <2>2, <2>4, <3>1, ProceedImplements
  <2> QED
    BY <2>3, <2>4
<1> QED
  BY <1>1, <1>2, <1>3 DEF RequestStep, DialogStep

\* The requests of a client in its save.
LEMMA SaveRequestImplements ==
  ASSUME TypeOK, SaveInv, InSession, NEW c \in Clients,
         SaveYourself(c) \/ SaveYourselfPhase2(c) \/ InteractRequest(c)
           \/ \E cancel \in BOOLEAN : InteractDone(c, cancel)
  PROVE  StepsWell
<1>0. /\ cstate \in [Clients -> ClientStates] /\ mgr \in ManagerStates
      /\ NoPhase2(Silence) /\ StatesAgree /\ TRUE \in BOOLEAN
  BY DEF TypeOK, NoPhase2, Silence, SaveInv
<1>1. CASE CloseConnection(c, TRUE)
  BY <1>0, <1>1, CloseImplements
<1>2. CASE SaveYourselfLocal(c)
  <2>1. /\ cstate'[c] = "SAVINGLOCAL" /\ cstate[c] = "IDLE" /\ mgr = "IDLE"
        /\ \A d \in Clients \ {c} : cstate'[d] = cstate[d]
        /\ mgr' = mgr /\ stored' = Nothing
    BY <1>0, <1>2 DEF SaveYourselfLocal, Unchanged, NotStored
  <2> QED
    BY <1>0, <2>1, OneMovesQuietly
<1>3. ASSUME NEW shutdown \in BOOLEAN, NEW fast \in BOOLEAN,
             SaveYourselfOfSession(c, shutdown, fast)
      PROVE  StepsWell
  BY <1>3, SaveYourselfGlobalImplements DEF SaveYourselfOfSession, InSession
<1>4. CASE \E busy \in BOOLEAN :
             BeginInteract(c, busy) /\ Unchanged /\ UNCHANGED mgr
               /\ cstate[c] = "SAVING"
  <2>1. /\ cstate'[c] \in {"WAITFORINTERACT", "INTERACTING"}
        /\ cstate[c] = "SAVING"
        /\ \A d \in Clients \ {c} : cstate'[d] = cstate[d]
        /\ mgr' = mgr /\ stored' = Nothing /\ NoPhase2(sent')
    BY <1>0, <1>4 DEF BeginInteract, Unchanged, NotStored, NoPhase2, Silence
  <2> QED
    BY <1>0, <2>1, OneMovesQuietly
<1>5. CASE /\ CancelShutdown(c) /\ mgr = "SHUTDOWN" /\ Unchanged
           /\ cstate[c] = "INTERACTING"
  <2>1. /\ cstate'[c] = "SAVING"
        /\ \A d \in Clients \ {c} : cstate'[d] = cstate[d]
        /\ mgr' = "CHECKPOINT" /\ stored' = Nothing /\ NoPhase2(sent')
    BY <1>0, <1>5 DEF CancelShutdown, Resumed, Unchanged, NotStored, NoPhase2
  <2>2. Saving' = Saving /\ Waiting' = Waiting
    BY <1>5, <2>1 DEF Saving, Waiting
  <2>3. Round!Cancel
    BY <1>5, <2>1, <2>2, NothingIs DEF Round!Cancel, Stage
  <2> QED
    BY <1>5, <2>1, <2>3
    DEF StepsWell, Round!Next, BarrierStep, StoredStep, WaylandStep, NoPhase2
<1>6. CASE /\ NextInteracts(c) /\ Unchanged /\ cstate[c] = "INTERACTING"
  <2>1. \A d \in Clients : Resumed(c)[d] = IF d = c THEN "SAVING" ELSE cstate[d]
    BY <1>0 DEF Resumed
  <2>2. CASE cstate' = Resumed(c) /\ sent' = Silence
    <3>1. Saving' = Saving /\ Waiting' = Waiting
      BY <1>6, <2>1, <2>2 DEF Saving, Waiting
    <3> QED
      BY <1>0, <1>6, <2>2, <3>1, QuietStep DEF NextInteracts, Unchanged, NotStored
  <2>3. ASSUME NEW d \in Clients, cstate[d] = "WAITFORINTERACT",
               cstate' = [Resumed(c) EXCEPT ![d] = "INTERACTING"],
               sent' = [Silence EXCEPT ![d] = "Interact"]
        PROVE  StepsWell
    <3>1. DOMAIN Resumed(c) = Clients
      BY <1>0 DEF Resumed
    <3>2. \A e \in Clients : cstate'[e] = IF e = d THEN "INTERACTING"
                                          ELSE IF e = c THEN "SAVING" ELSE cstate[e]
      BY <2>1, <2>3, <3>1
    <3>3. Saving' = Saving /\ Waiting' = Waiting
      BY <1>6, <2>3, <3>2 DEF Saving, Waiting
    <3>4. NoPhase2(sent')
      BY <2>3 DEF NoPhase2, Silence
    <3> QED
      BY <1>0, <1>6, <3>3, <3>4, QuietStep DEF NextInteracts, Unchanged, NotStored
  <2> QED
    BY <1>6, <2>2, <2>3 DEF NextInteracts
<1>7. CASE SaveYourselfPhase2(c)
  <2> DEFINE st == [cstate EXCEPT ![c] = "WAITFORPHASE2"]
  <2>0. st \in [Clients -> ClientStates]
        /\ \A d \in Clients : st[d] = IF d = c THEN "WAITFORPHASE2" ELSE cstate[d]
    BY <1>0 DEF ClientStates
  <2>1. CASE mgr \in {"CHECKPOINT", "SHUTDOWN"}
    <3>1. /\ stored' = Nothing /\ mgr' = mgr
          /\ \/ ClientsSaving(st) /\ cstate' = st /\ sent' = Silence
             \/ /\ ~ClientsSaving(st)
                /\ EnterPhase2(st, saveTimer \ {c}, Silence)
      BY <1>7, <2>1 DEF SaveYourselfPhase2, Unchanged, NotStored
    <3> HIDE DEF st
    <3>2. /\ SavingIn(st) = Saving \ {c} /\ WaitingIn(st) = Waiting \cup {c}
          /\ ClientsSaving(st) <=> SavingIn(st) # {}
          /\ AwaitingPhase2(st) = WaitingIn(st)
      BY <2>0 DEF Saving, Waiting, SavingIn, WaitingIn, ClientsSaving,
                  SavingStates, AwaitingPhase2
    <3>3. Round!InRound
      BY <2>1 DEF Round!InRound, Stage
    <3>4. CASE ClientsSaving(st) /\ cstate' = st /\ sent' = Silence
      <4>1. Round!GoOn(SavingIn(st), WaitingIn(st))
        BY <1>0, <3>1, <3>2, <3>4, SetsNow, StageNow, NothingIs DEF Round!GoOn
      <4> QED
        BY <1>0, <3>1, <3>2, <3>3, <3>4, <4>1
        DEF StepsWell, Round!Next, Round!HoldBack, BarrierStep, StoredStep,
            WaylandStep, NoPhase2
    <3>5. CASE ~ClientsSaving(st) /\ EnterPhase2(st, saveTimer \ {c}, Silence)
      <4>1. /\ \A d \in Clients : cstate'[d] = IF d \in WaitingIn(st)
                                                THEN "SAVING" ELSE st[d]
            /\ \A d \in Clients : d \in WaitingIn(st) =>
                 sent'[d] = "SaveYourselfPhase2"
        BY <3>2, <3>5 DEF EnterPhase2
      <4>2. SavingIn(cstate') = WaitingIn(st) /\ WaitingIn(cstate') = {}
        BY <3>2, <3>5, <4>1 DEF SavingIn, WaitingIn
      <4>3. Round!GoOn(SavingIn(st), WaitingIn(st))
        BY <1>0, <3>1, <3>2, <3>5, <4>2, SetsNow, StageNow, NothingIs
        DEF Round!GoOn
      <4>4. BarrierStep
        BY <4>1, <4>2 DEF BarrierStep, SavingIn
      <4> QED
        BY <3>1, <3>2, <3>3, <4>3, <4>4
        DEF StepsWell, Round!Next, Round!HoldBack, StoredStep, WaylandStep
    <3> QED
      BY <3>1, <3>4, <3>5
  <2>2. CASE mgr \notin {"CHECKPOINT", "SHUTDOWN"}
    <3>1. /\ cstate'[c] = "SAVINGLOCAL"
          /\ cstate[c] \notin {"SAVING", "WAITFORINTERACT", "INTERACTING",
                               "WAITFORPHASE2"}
          /\ \A d \in Clients \ {c} : cstate'[d] = cstate[d]
          /\ mgr' = mgr /\ stored' = Nothing
      BY <1>0, <1>7, <2>2
      DEF SaveYourselfPhase2, Unchanged, NotStored, InSession, StatesAgree
    <3> QED
      BY <1>0, <2>2, <3>1, OneMovesQuietly
  <2> QED
    BY <2>1, <2>2
<1>8. CASE SaveYourself(c)
  BY <1>1, <1>2, <1>3, <1>8 DEF SaveYourself
<1>9. CASE InteractRequest(c)
  <2>1. (\E d \in Clients : cstate[d] = "INTERACTING") \in BOOLEAN
    OBVIOUS
  <2> QED
    BY <1>1, <1>4, <1>9, <2>1 DEF InteractRequest
<1>10. CASE \E cancel \in BOOLEAN : InteractDone(c, cancel)
  BY <1>1, <1>5, <1>6, <1>10 DEF InteractDone
<1> QED
  BY <1>7, <1>8, <1>9, <1>10

\* Using a released client breaks the round off.
LEMMA UseAfterReleaseImplements ==
  ASSUME UseAfterRelease
  PROVE  StepsWell
<1>1. Saving' = Saving /\ Waiting' = Waiting /\ mgr' = "UNDEFINED"
      /\ sent' = Silence /\ stored' = Nothing
  BY DEF UseAfterRelease, Quiet, NotStored, clientVars, Saving, Waiting
<1>2. Round!Break
  BY <1>1, NothingIs DEF Round!Break, Stage
<1> QED
  BY <1>1, <1>2
  DEF StepsWell, Round!Next, BarrierStep, StoredStep, WaylandStep, Silence

\* The answer of a client, whichever way it comes.
LEMMA SaveDoneImplements ==
  ASSUME TypeOK, SaveInv, InSession, NEW c \in Clients,
         HandleSaveYourselfDone(c),
         c \in DBusClients => mgr = "SHUTDOWN"
  PROVE  StepsWell
<1>0. /\ cstate \in [Clients -> ClientStates] /\ mgr \in ManagerStates
      /\ NoPhase2(Silence) /\ StatesAgree /\ TRUE \in BOOLEAN
  BY DEF TypeOK, NoPhase2, Silence, SaveInv
<1>1. CASE CloseConnection(c, TRUE)
  BY <1>0, <1>1, CloseImplements
<1>2. CASE LocalSaveDone(c)
  <2>1. /\ cstate'[c] = "IDLE" /\ cstate[c] = "SAVINGLOCAL"
        /\ \A d \in Clients \ {c} : cstate'[d] = cstate[d]
        /\ mgr' = mgr /\ stored' = Nothing /\ NoPhase2(sent')
    BY <1>0, <1>2 DEF LocalSaveDone, Unchanged, NotStored, NoPhase2, Silence
  <2> QED
    BY <1>0, <2>1, OneMovesQuietly
<1>3. CASE CompleteSaveYourself([cstate EXCEPT ![c] = "SAVEDONE"],
                                saveTimer \ {c}, Silence)
           /\ mgr \in {"CHECKPOINT", "SHUTDOWN"}
           /\ cstate[c] \in {"SAVING", "WAITFORINTERACT"}
  <2> DEFINE st == [cstate EXCEPT ![c] = "SAVEDONE"]
  <2>1. st \in [Clients -> ClientStates]
        /\ \A d \in Clients : st[d] = IF d = c THEN "SAVEDONE" ELSE cstate[d]
    BY <1>0 DEF ClientStates
  <2>2. CompleteSaveYourself(st, saveTimer \ {c}, Silence)
    BY <1>3
  <2> HIDE DEF st
  <2>3. SavingIn(st) = Saving \ {c} /\ WaitingIn(st) = Waiting \ {c}
    BY <2>1 DEF Saving, Waiting, SavingIn, WaitingIn
  <2>4. /\ Round!GoOn(SavingIn(st), WaitingIn(st))
        /\ BarrierStep /\ StoredStep /\ WaylandStep
    BY <1>0, <1>3, <2>1, <2>2, CompleteImplements
  <2>5. Round!InRound
    BY <1>3 DEF Round!InRound, Stage
  <2> QED
    BY <2>3, <2>4, <2>5 DEF StepsWell, Round!Next, Round!Through
<1>4. CASE UseAfterRelease
  BY <1>4, UseAfterReleaseImplements
<1>5. CASE /\ c \in DBusClients /\ mgr' = "QUIT"
           /\ cstate' = [cstate EXCEPT ![c] = "GONE"]
           /\ \A d \in Running([cstate EXCEPT ![c] = "GONE"]) :
                d \in DBusClients /\ [cstate EXCEPT ![c] = "GONE"][d] = "DISCONNECTED"
           /\ sent' = CleanupNote(c, TRUE)
           /\ IF saveSession THEN StoreSession([cstate EXCEPT ![c] = "GONE"])
              ELSE NotStored
  <2> DEFINE st == [cstate EXCEPT ![c] = "GONE"]
  <2>1. \A d \in Clients : st[d] = IF d = c THEN "GONE" ELSE cstate[d]
    BY <1>0
  <2>2. \A d \in Clients : st[d] \in {"GONE", "CONNECTED", "DISCONNECTED"}
    BY <1>0, <1>5 DEF Running
  <2>3. mgr = "SHUTDOWN" /\ cstate' = st
    BY <1>5
  <2> HIDE DEF st
  <2>4. /\ Saving' = {} /\ Waiting' = {}
        /\ Saving \ {c} = {} /\ Waiting \ {c} = {}
    BY <2>1, <2>2, <2>3 DEF Saving, Waiting
  <2>5. stored'.group \in {"none", "session"}
    <3> DEFINE I == restartProps \cup
                      {d \in Running([cstate EXCEPT ![c] = "GONE"]) :
                         props[d] \notin {"none", "Never"}}
    <3>1. stored' = Nothing \/ stored' = [group |-> "session", ids |-> I]
      BY <1>5, <2>3 DEF StoreSession, NotStored
    <3> HIDE DEF I
    <3> QED
      BY <3>1, NothingIs
  <2>6. Round!Finish /\ Round!InRound
    BY <1>5, <2>3, <2>4, <2>5 DEF Round!Finish, Round!InRound, Stage
  <2>7. Round!Through(c)
    BY <2>4, <2>6 DEF Round!Through, Round!GoOn
  <2>8. NoPhase2(sent')
    BY <1>5 DEF NoPhase2, CleanupNote, Silence
  <2> QED
    BY <1>5, <2>2, <2>3, <2>7, <2>8
    DEF StepsWell, Round!Next, BarrierStep, StoredStep, WaylandStep, NoPhase2
<1>6. CASE DropInSave(c, TRUE)
  BY <1>0, <1>6, DropImplements
<1> QED
  BY <1>1, <1>2, <1>3, <1>4, <1>5, <1>6
  DEF HandleSaveYourselfDone, GlobalSaveDone, UnexpectedDone

\* The end of the session by its timer.
LEMMA DieTimeoutImplements ==
  ASSUME TypeOK, InSession, DieTimeout
  PROVE  StepsWell
<1>1. Saving' = Saving /\ Waiting' = Waiting /\ mgr' = "QUIT"
      /\ sent' = Silence /\ stored' = Nothing
  BY DEF DieTimeout, Quiet, NotStored, clientVars, Saving, Waiting
<1>2. Round!End
  BY <1>1, NothingIs DEF Round!End, Stage, InSession
<1>3. BarrierStep /\ StoredStep /\ WaylandStep
  BY <1>1 DEF BarrierStep, StoredStep, WaylandStep, Silence
<1> QED
  BY <1>2, <1>3 DEF StepsWell, Round!Next

\* What a D-Bus client does about the save itself.
LEMMA DBusImplements ==
  ASSUME TypeOK, SaveInv, InSession, NEW c \in DBusClients,
         EndSessionResponse(c) \/ DBusClientLeft(c)
  PROVE  StepsWell
<1>0. c \in Clients /\ StatesAgree /\ TRUE \in BOOLEAN /\ FALSE \in BOOLEAN
  BY DEF Clients, SaveInv
<1>1. CASE mgr = "SHUTDOWN" /\ HandleSaveYourselfDone(c)
  BY <1>0, <1>1, SaveDoneImplements
<1>2. CASE CloseConnection(c, TRUE)
  BY <1>0, <1>2, CloseImplements
<1>3. CASE CloseConnection(c, FALSE)
  BY <1>0, <1>3, CloseImplements
<1> QED
  BY <1>1, <1>2, <1>3 DEF EndSessionResponse, DBusClientLeft

\* What an XSMP client does to end its connection, or to answer.
LEMMA XsmpImplements ==
  ASSUME TypeOK, SaveInv, InSession, NEW c \in XsmpClients,
         SaveYourselfDone(c) \/ CloseRequest(c) \/ IceError(c)
  PROVE  StepsWell
<1>0. /\ c \in Clients /\ StatesAgree /\ TRUE \in BOOLEAN /\ FALSE \in BOOLEAN
      /\ c \notin DBusClients /\ cstate \in [Clients -> ClientStates]
      /\ mgr \in ManagerStates
  BY SessionAssumption DEF Clients, SaveInv, TypeOK
<1>1. CASE SaveYourselfDone(c)
  BY <1>0, <1>1, SaveDoneImplements DEF SaveYourselfDone
<1>2. CASE CloseRequest(c)
  BY <1>0, <1>2, CloseImplements DEF CloseRequest
<1>3. CASE IceError(c)
  <2>1. CASE CloseConnection(c, FALSE)
    BY <1>0, <2>1, CloseImplements
  <2>2. CASE /\ cstate[c] = "CONNECTED"
             /\ cstate' = [cstate EXCEPT ![c] = "GONE"]
             /\ sent' = Silence /\ NotStored /\ mgr' = mgr
    <3>1. /\ \A d \in Clients \ {c} : cstate'[d] = cstate[d]
          /\ cstate'[c] = "GONE" /\ NoPhase2(sent') /\ stored' = Nothing
      BY <1>0, <2>2 DEF NoPhase2, Silence, NotStored
    <3> QED
      BY <1>0, <2>2, <3>1, OneMovesQuietly
  <2> QED
    BY <1>3, <2>1, <2>2 DEF IceError
<1> QED
  BY <1>1, <1>2, <1>3

\* Every step of the session manager is one of SaveRound.
LEMMA NextWell ==
  ASSUME TypeOK, SaveInv, Next
  PROVE  StepsWell
<1>1. CASE mgr # "UNDEFINED" /\ DialogStep
  BY <1>1, RequestsImplement
<1>2. CASE /\ Alive
           /\ \/ \E c \in XsmpClients : XsmpStep(c)
              \/ \E c \in DBusClients : DBusStep(c)
              \/ \E c \in Clients : ClientStep(c) \/ TimerStep(c)
              \/ RequestStep
              \/ DieTimeout \/ KillReleasedClient
  <2>0. /\ InSession /\ mgr # "UNDEFINED" /\ TRUE \in BOOLEAN /\ StatesAgree
        /\ XsmpClients \subseteq Clients /\ DBusClients \subseteq Clients
    BY <1>2 DEF Alive, InSession, TypeOK, ManagerStates, Clients, SaveInv
  <2>1. ASSUME NEW c \in XsmpClients, XsmpStep(c)
        PROVE  StepsWell
    <3>0. c \in Clients
      BY <2>0
    <3>1. CASE NewClient(c) \/ RegisterXsmp(c)
      BY <3>0, <3>1, OthersImplement
    <3>2. CASE SaveYourself(c) \/ SaveYourselfPhase2(c) \/ InteractRequest(c)
                 \/ \E cancel \in BOOLEAN : InteractDone(c, cancel)
      BY <2>0, <3>0, <3>2, SaveRequestImplements
    <3>3. CASE SaveYourselfDone(c) \/ CloseRequest(c) \/ IceError(c)
      BY <2>0, <3>3, XsmpImplements
    <3> QED
      BY <2>1, <3>1, <3>2, <3>3 DEF XsmpStep
  <2>2. ASSUME NEW c \in DBusClients, DBusStep(c)
        PROVE  StepsWell
    <3>1. CASE RegisterDBus(c)
      BY <2>0, <3>1, OthersImplement
    <3>2. CASE EndSessionResponse(c) \/ DBusClientLeft(c)
      BY <2>0, <3>2, DBusImplements
    <3> QED
      BY <2>2, <3>1, <3>2 DEF DBusStep
  <2>3. ASSUME NEW c \in Clients, ClientStep(c) \/ TimerStep(c)
        PROVE  StepsWell
    <3>1. CASE SaveTimeout(c)
      BY <2>0, <3>1, CloseImplements DEF SaveTimeout
    <3>2. CASE ~SaveTimeout(c)
      BY <2>3, <3>2, OthersImplement DEF ClientStep, TimerStep
    <3> QED
      BY <3>1, <3>2
  <2>4. CASE RequestStep
    BY <2>0, <2>4, RequestsImplement
  <2>5. CASE DieTimeout
    BY <2>0, <2>5, DieTimeoutImplements
  <2>6. CASE KillReleasedClient
    BY <2>6, UseAfterReleaseImplements DEF KillReleasedClient
  <2> QED
    BY <1>2, <2>1, <2>2, <2>3, <2>4, <2>5, <2>6
<1> QED
  BY <1>1, <1>2 DEF Next

-----------------------------------------------------------------------------
(* The theorems.                                                           *)

LEMMA EveryStepWell == RestoredSpec => [][StepsWell]_vars
<1>1. LedgerInv => TypeOK
  BY DEF LedgerInv
<1>2. TypeOK /\ SaveInv /\ [Next]_vars => [StepsWell]_vars
  BY NextWell
<1> QED
  BY <1>1, <1>2, LedgerHolds, SaveInvHolds, PTL DEF RestoredSpec

\* The session manager implements SaveRound: a save neither ends nor is stored
\* before everybody is through with it, for any number of clients of either
\* kind.
LEMMA RestoredRound == RestoredSpec => RoundIsImplemented
<1>1. HandedOver => Round!Init
  BY NothingIs DEF HandedOver, Round!Init, Stage, Saving, Waiting
<1>2. [StepsWell]_vars => [Round!Next]_(Round!vars)
  BY DEF StepsWell, vars, clientVars, Round!vars, Stage, Saving, Waiting
<1> QED
  BY <1>1, <1>2, EveryStepWell, PTL DEF RestoredSpec, RoundIsImplemented, Round!Spec

\* Phase 2 is a barrier: whoever saves once a client is told to enter phase 2
\* has been told so in the same step.
LEMMA RestoredBarrier == RestoredSpec => Phase2IsBarrier
<1>1. [StepsWell]_vars =>
        [(mgr \in {"CHECKPOINT", "SHUTDOWN"}
            /\ \E c \in Clients : sent'[c] = "SaveYourselfPhase2")
         => \A c \in Clients :
              cstate'[c] \in {"SAVING", "WAITFORINTERACT", "INTERACTING"} =>
                sent'[c] = "SaveYourselfPhase2"]_vars
  BY DEF StepsWell, BarrierStep
<1> QED
  BY <1>1, EveryStepWell, PTL DEF Phase2IsBarrier

\* The sessions file is written at the end of a save, when nobody is in the
\* middle of it.
LEMMA RestoredStored == RestoredSpec => StoredWhenAllSaved
<1>1. [StepsWell]_vars =>
        [stored' # Nothing
         => /\ mgr \in {"CHECKPOINT", "SHUTDOWN"}
            /\ mgr' \in (IF mgr = "CHECKPOINT" THEN {"IDLE", "UNDEFINED"}
                         ELSE {"SHUTDOWNPHASE2", "QUIT", "UNDEFINED"})
            /\ \A c \in Clients :
                 cstate'[c] \in {"GONE", "CONNECTED", "IDLE", "SAVINGLOCAL",
                                "SAVEDONE", "DISCONNECTED"}]_vars
  BY DEF StepsWell, StoredStep
<1> QED
  BY <1>1, EveryStepWell, PTL DEF StoredWhenAllSaved

\* On Wayland the manager is never in SHUTDOWN, so that only checkpoints write
\* the sessions file.
LEMMA RestoredWayland == RestoredSpec => OnlyCheckpointsStore
<1> DEFINE NoShutdown == Wayland => mgr # "SHUTDOWN"
<1>1. HandedOver => NoShutdown
  BY DEF HandedOver
<1>2. NoShutdown /\ [StepsWell]_vars => NoShutdown'
  BY SessionAssumption DEF StepsWell, WaylandStep, vars
<1>3. NoShutdown /\ [StepsWell]_vars =>
        [Wayland /\ stored' # Nothing => mgr = "CHECKPOINT"]_vars
  BY DEF StepsWell, StoredStep
<1> QED
  BY <1>1, <1>2, <1>3, EveryStepWell, PTL DEF RestoredSpec, OnlyCheckpointsStore

\* A session that was restored saves as a new one does: its manager implements
\* SaveRound, phase 2 is a barrier, the sessions file is written when nobody is
\* in the middle of a save, and on Wayland by a checkpoint only, whatever the
\* start-up left behind.
THEOREM RestoredRounds ==
  RestoredSpec => /\ RoundIsImplemented /\ Phase2IsBarrier
                  /\ StoredWhenAllSaved /\ OnlyCheckpointsStore
  BY RestoredRound, RestoredBarrier, RestoredStored, RestoredWayland

\* The session manager implements SaveRound: a save neither ends nor is stored
\* before everybody is through with it, for any number of clients of either
\* kind.
THEOREM RoundImplemented == Spec => RoundIsImplemented
  BY SpecRestored, RestoredRound, PTL

\* Phase 2 is a barrier: whoever saves once a client is told to enter phase 2
\* has been told so in the same step (xfsm_manager_maybe_enter_phase2).
THEOREM BarrierHolds == Spec => Phase2IsBarrier
  BY SpecRestored, RestoredBarrier, PTL

\* The sessions file is written at the end of a save, when nobody is in the
\* middle of it (xfsm_manager_complete_saveyourself).
THEOREM StoredOnce == Spec => StoredWhenAllSaved
  BY SpecRestored, RestoredStored, PTL

\* On Wayland only a checkpoint writes the sessions file
\* (xfsm_manager_save_yourself_global).
THEOREM NoWaylandStore == Spec => OnlyCheckpointsStore
  BY SpecRestored, RestoredWayland, PTL
=============================================================================
