---------------------------- MODULE SettingsStore ----------------------------
(***************************************************************************)
(* The settings daemon xfconfd with its per-channel XML backend, as one    *)
(* property of one channel sees it: the value in memory over the value of  *)
(* the system files, the user's file, the delayed save, the notifications  *)
(* that wait for an idle main loop, and the ways the daemon ends.          *)
(*                                                                         *)
(* The daemon is one main loop, so a method call is one step.  The         *)
(* operators StoreSet and StoreReset are what a call does to the store; a  *)
(* module that knows the callers composes them with the reply.  The        *)
(* property is a leaf of the tree.  The other properties of the channel    *)
(* share its file and its dirty flag, and only cause more saves.           *)
(***************************************************************************)
EXTENDS Naturals

CONSTANTS
  Values,        \* the values a client may write
  NoValue,       \* an unset GValue
  NoFile,        \* the user's file of the channel does not exist
  SystemValues,  \* what the system files may say of the property
  Locks,         \* how the system files may lock it
  Faults         \* the faults that may happen, each of them once

ASSUME StoreAssumption ==
  /\ NoValue \notin Values /\ NoFile \notin Values /\ NoFile # NoValue
  /\ SystemValues \subseteq Values \cup {NoValue}
  /\ Locks \subseteq {"no", "property", "channel"}
  /\ Faults \subseteq {"write", "unlink", "timeout", "restart"}

VARIABLES
  system,     \* prop->system_value, fixed by files the daemon never writes
  lock,       \* "property": prop->locked; "channel": channel->locked, and
              \* the system files do not mention the property
  user,       \* prop->value
  file,       \* what the user's file says: NoFile, NoValue or a value
  dirty,      \* channel->dirty
  saveTimer,  \* xbpx->save_id # 0
  notify,     \* idle callbacks that will announce the property
  faults      \* history: the faults so far that lost something

storeVars == <<system, lock, user, file, dirty, saveTimer, notify, faults>>

StoreTypeOK ==
  /\ system \in SystemValues
  /\ lock \in Locks
  /\ user \in Values \cup {NoValue}
  /\ file \in Values \cup {NoValue, NoFile}
  /\ dirty \in BOOLEAN
  /\ saveTimer \in BOOLEAN
  /\ notify \in Nat
  /\ faults \subseteq Faults

\* xfconf_backend_perchannel_xml_get.
Current == IF user # NoValue THEN user ELSE system

\* xfconf_backend_perchannel_xml_load_channel: what the user's file adds.  A
\* locked channel does not read it, a locked property skips its entry there.
Load(f) == IF lock # "no" \/ f = NoFile THEN NoValue ELSE f

\* The fault may happen now.
May(fault) == fault \in Faults \ faults

StoreInit ==
  /\ system \in SystemValues
  /\ lock \in Locks
  /\ lock = "channel" => system = NoValue
  /\ file \in Values \cup {NoFile}
  /\ user = Load(file)
  /\ dirty = FALSE
  /\ saveTimer = FALSE
  /\ notify = 0
  /\ faults = {}

-----------------------------------------------------------------------------
(* Method calls.                                                           *)

\* xfconf_daemon_backend_property_changed: an idle callback that will emit
\* whatever the value is by then.
Announce == notify' = notify + 1

\* xfconf_backend_perchannel_xml_schedule_save.  Mutant: the channel is only
\* marked when no save is due yet.
ScheduleSaveOnce ==
  /\ dirty' = (dirty \/ ~saveTimer)
  /\ saveTimer' = TRUE
ScheduleSave ==
  /\ dirty' = TRUE
  /\ saveTimer' = TRUE

\* The value is stored, announced and saved later.
Change(u) ==
  /\ user' = u
  /\ Announce
  /\ ScheduleSave
  /\ UNCHANGED <<system, lock, file, faults>>

\* prop->locked; a property that only its channel locks has no node yet, and
\* is not found to be locked.  Mutant: the lock is not looked at.
NeverLocked == FALSE
Locked == lock = "property"

\* xfconf_backend_perchannel_xml_set
StoreSet(v, ok) ==
  \/ /\ Locked
     /\ ~ok
     /\ UNCHANGED storeVars
  \/ /\ ~Locked
     /\ ok
     /\ IF v = Current THEN UNCHANGED storeVars ELSE Change(v)

\* xfconf_backend_perchannel_xml_reset of the property itself.
ResetOne(ok) ==
  \/ /\ user = NoValue
     /\ ~ok
     /\ UNCHANGED storeVars
  \/ /\ user # NoValue
     /\ ok
     /\ Change(NoValue)

\* ... of the tree below the property, which is the property: it has a node
\* if anything is known of it, and the node may have no user value.
ResetTree(ok) ==
  \/ /\ user = NoValue /\ system = NoValue /\ ~Locked
     /\ ~ok
     /\ UNCHANGED storeVars
  \/ /\ user = NoValue /\ (system # NoValue \/ Locked)
     /\ ok
     /\ ScheduleSave
     /\ UNCHANGED <<system, lock, user, file, notify, faults>>
  \/ /\ user # NoValue
     /\ ok
     /\ Change(NoValue)

\* do_reset_channel: the channel is dropped, saved or not, and loaded again
\* when it is next asked for; the call fails if there is no file to remove,
\* or it cannot be removed.
ResetChannel(ok) ==
  /\ notify' = IF user # NoValue THEN notify + 1 ELSE notify
  /\ dirty' = FALSE
  /\ \/ /\ ok = (file # NoFile)
        /\ file' = NoFile
        /\ user' = NoValue
        /\ UNCHANGED faults
     \/ /\ ~ok
        /\ file # NoFile
        /\ May("unlink")
        /\ faults' = faults \cup {"unlink"}
        /\ user' = Load(file)
        /\ UNCHANGED file
  /\ UNCHANGED <<system, lock, saveTimer>>

StoreReset(how, ok) ==
  \/ how = "ResetOne" /\ ResetOne(ok)
  \/ how = "ResetTree" /\ ResetTree(ok)
  \/ how \in {"ResetChannel", "ResetRoot"} /\ ResetChannel(ok)

-----------------------------------------------------------------------------
(* Saving, and the end of the daemon.                                      *)

\* xfconf_backend_perchannel_xml_flush: what the file holds after it.  The
\* file is replaced as a whole; a failure leaves the old one, and nobody is
\* told.
Flushed(f, fl) ==
  \/ /\ f = IF dirty THEN user ELSE file
     /\ fl = faults
  \/ /\ dirty /\ May("write")
     /\ f = file
     /\ fl = faults \cup {"write"}

\* xfconf_backend_perchannel_xml_save_timeout.  Mutant: a channel that could
\* not be written stays dirty, but nothing tries again.
SaveTimeoutStaysDirty ==
  /\ saveTimer
  /\ saveTimer' = FALSE
  /\ \E f \in Values \cup {NoValue, NoFile}, fl \in {faults, faults \cup {"write"}} :
        /\ Flushed(f, fl) /\ file' = f /\ faults' = fl
        /\ dirty' = (fl # faults)
  /\ UNCHANGED <<system, lock, user, notify>>
SaveTimeout ==
  /\ saveTimer
  /\ saveTimer' = FALSE
  /\ \E f \in Values \cup {NoValue, NoFile}, fl \in {faults, faults \cup {"write"}} :
        Flushed(f, fl) /\ file' = f /\ faults' = fl
  /\ dirty' = FALSE
  /\ UNCHANGED <<system, lock, user, notify>>

\* A new daemon, started by the next call, knows what was in the file.  It
\* announces nothing.  "interrupted": a call was waiting for its reply.
StartAnew(f, fl, interrupted) ==
  /\ file' = f
  /\ user' = Load(f)
  /\ dirty' = FALSE
  /\ saveTimer' = FALSE
  /\ notify' = 0
  /\ \/ user' = user /\ notify = 0 /\ ~interrupted /\ faults' = fl
     \/ /\ user' # user \/ notify # 0 \/ interrupted
        /\ May("restart")
        /\ faults' = fl \cup {"restart"}
  /\ UNCHANGED <<system, lock>>

\* The process is killed.
Crash(interrupted) == StartAnew(file, faults, interrupted)

\* main () returns: a signal, the lost bus name or five idle minutes ended
\* the main loop.  xfconf_daemon_finalize flushes the backend, unless a
\* notification still holds a reference to the daemon.
Quit(interrupted) ==
  \/ /\ notify = 0
     /\ \E f \in Values \cup {NoValue, NoFile}, fl \in {faults, faults \cup {"write"}} :
           Flushed(f, fl) /\ StartAnew(f, fl, interrupted)
  \/ /\ notify # 0
     /\ StartAnew(file, faults, interrupted)

-----------------------------------------------------------------------------
(* Properties.                                                             *)

\* What is in memory is in the file or about to be written: no set, reset,
\* save, restart or removal of the file loses track of a change.  A channel
\* that is locked as a whole is the exception: it may be written, and the
\* file is never read again.
SavedOrDirty ==
  "write" \in faults \/ lock = "channel" \/ dirty \/ Load(file) = user

\* A change that is not saved has a timer that will save it.
DirtyIsTimed == dirty => saveTimer

\* A locked property has the value of the system files whatever is written,
\* reset, saved or restarted (xfconf_channel_is_property_locked).
LockHolds == lock = "property" => Current = system

=============================================================================
