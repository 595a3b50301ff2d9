# Formal models of the XFCE Wayland port

The repository is a port of the XFCE desktop to Wayland: the session manager
and its libraries, the panel, the file manager, the settings daemon and the
client-side Wayland glue. The compositor `xfwl4` that the top-level README
names is not in the tree. These modules model three parts whose correctness is
hard to see by reading or testing, because their handlers are simple and their
histories are not: the *session manager*, the *settings* daemon with the caches
of its clients, and the *panel's plug-in processes*.

Everything below was read from the C source. Paths without a prefix are under
`src/xfce4-session/xfce4-session/`; in the sections on settings they are under
`src/xfce4-libs/xfconf/`, in those on plug-ins under `src/xfce4-panel/`.

## Inventory

| Component | State it keeps | Operations | What makes it correct |
|---|---|---|---|
| Session manager (`xfsm-manager.c`, `xfsm-client.c`, `sm-layer.c`, `ice-layer.c`) | `state`, the client list, queues of saved properties, timers, the requested shutdown type | XSMP messages, D-Bus methods, timeouts, lost connections | A save ends, is stored once and when all are through with it; one client interacts at a time; everyone waited for is timed or with the user; properties and timers have one owner; restarts are bounded |
| Start-up (`xfsm-startup.c`) | pending and starting properties, child watches, start-up timeouts, the failsafe counter | start a priority group; a client registers, fails or dies | groups start in order; start-up ends; a saved property object has one owner and no stray timer |
| Saved properties (`xfsm-properties.c`) | values, restart attempts, timers | load, store, merge, free | freed once, with its timers |
| Logout dialog (`xfsm-logout-dialog.c`) | at most one dialog, a nested main loop | show, answer | one at a time; the answer is applied to the state it finds |
| Inhibitor store (`xfsm-inhibitor.c`) | cookies | inhibit, uninhibit | a cookie names one inhibition; inhibitions go with their application |
| Shutdown back ends (`xfsm-shutdown*.c`) | none of their own | halt, suspend, ... | out of the models: synchronous calls of other services |
| Session client library (`xfce-sm-client.c` in libxfce4ui) | client state, properties, save phase | the client's half of XSMP | answers every SaveYourself once, asks for interaction only while saving |
| Settings daemon (`xfconf/xfconfd`) | a tree of properties per channel over the system's values and locks, the user's file, the dirty flag and the save timer, notifications that wait for idleness | get, set, reset, save, end | no change is lost between memory and file; what is locked stays; every change is announced |
| Settings cache (`xfconf/xfconf`: cache, channel, binding) | cached values, writes that are not through with what they replaced | prefetch, lookup, set, reset, reply and signal handlers, finalize | a cache shows no stale value; older news do not overwrite one's own write; a closed channel is written; nobody hangs |
| Window tracking (`libxfce4windowing`, `*-wayland.c`) | mirrors of compositor objects | protocol events, `done` batches | observers see only complete batches; no signal about a dead object |
| Layer surfaces (`gtk-layer-shell`) | a configure in flight, margins, anchors | configure, ack, commit | commits acknowledge the configure they react to |
| Panel and plug-in processes (`xfce4-panel/panel`, `wrapper`) | per plug-in: the pid, the child watch, whether the child is embedded, the queue of property changes, the respawn timer; per process: its proxy and its plug | spawn, embed, set properties, move, crash, respawn, ask, remove | one process per plug-in, which is watched; what is due comes to pass; a removed plug-in leaves nothing behind; the process learns the panel's properties in order |
| File manager jobs (`thunar`) | jobs, frozen state, undo history | run, pause, cancel, undo | a job ends once; undo reverts what was done |
| Window manager (`xfwm4`), desktop, settings dialogs, menus | user interface state | | not modelled: X11 only, or little state beyond one call |

How the session manager's parts interact: one GLib main loop dispatches ICE
connections (`ice_process_messages` → the callbacks of `sm-layer.c` →
`xfsm_manager_*`), D-Bus calls, idle callbacks and timers. Every handler runs to
its end, so it is one step; what interleaves is the order of the dispatches. The
exception is the logout dialog: `xfsm_logout_dialog` runs a nested main loop
*inside* `xfsm_manager_save_yourself_global`, so everything but the connection
that asked for it goes on while the handler is half done. Client objects and
properties are reference counted or owned by hand; timers hold bare pointers.

The settings daemon is one such main loop as well. Its clients talk to it over
D-Bus, blocking or not; what it changes is announced to all of them from an idle
callback, and every client has a main loop of its own in which replies and
signals wait. The panel is a main loop with one widget for each external
plug-in; the widget and its wrapper process talk over D-Bus in both directions
and through the exit status, and a dialog may run the panel's loop inside a
child watch. The three parts share no state: the session manager starts the
panel like any other program, and reads its settings once.

The hard behaviours, and the list of hazards in `PROJECT.json` with the
properties that watch them, follow from that: messages that cross, clients that
die or answer late, a save that is restarted in the middle, timers that
outlive what they point at, turns and barriers among several clients, replies
and signals that cross writes, processes that end before their last message is
read, and daemons that end with work undone.

## Modules

* `SessionManager.tla`: the session manager after start-up.
* `SessionStartup.tla`: the start-up itself, from the loaded session to the
  manager's IDLE state, where `SessionManager` begins; `SessionHandover.tla`:
  how the one is continued by the other.
* `SessionClaims.tla`: sentences of the D-Bus interface descriptions and of
  comments that the code does not keep, as formulas the runs refute;
  `SessionAnswers.tla`: the same with XSMP clients that keep to the protocol.
* `SaveRound.tla`: what a save of the session promises, as an abstract
  specification; `SessionRound.tla`: `SessionManager` as its implementation.
* `SettingsStore.tla`: the settings daemon with its XML backend;
  `SettingsCache.tla`: the clients' caches, composed with the daemon.
* `PanelPlugin.tla`: one external plug-in of the panel, with its processes.
* `MCSessionManager.tla`, `MCSessionStartup.tla`, `MCSettingsCache.tla`: the
  instances TLC checks (`PanelPlugin` has nothing but numbers to give values to).
* `SessionManager_proofs.tla`: the bookkeeping invariant, its proof and its
  corollaries.
* `SessionSave_proofs.tla`: the invariant of the save round, its proof and
  its corollaries.
* `SessionRound_proofs.tla`: the refinement and the action properties of the
  save round.
* `SessionStartup_proofs.tla`: the invariant of the start-up, its proof and
  its corollaries.
* `SettingsCache_proofs.tla`: the invariant of store and caches, its proof and
  its corollaries; `SettingsReplies_proofs.tla`: the counting of replies;
  `SettingsNews_proofs.tla`: why no cache keeps a stale value.
* `PanelPlugin_proofs.tla`: the invariants of the plug-in's widget.

### SessionManager and the code

| Variable | Code |
|---|---|
| `mgr` | `manager->state`; `QUIT` once the main loop is left; `UNDEFINED` once a released object has been used |
| `cstate` | `client->state`; `GONE`: no such client, `CONNECTED`: an ICE connection that has not registered |
| `saveTimer` | clients with `--save-timeout-id` |
| `killTimer` | the 15 second sources of `kill_hung_client`: `held`, clients whose `quit_timeout` is the id of one; `lost`, clients that also have sources whose id was overwritten; `stray`, whether there are sources whose client has been released |
| `dieTimer` | `manager->die_timeout_id` |
| `props` | the restart style hint of the client's properties; `none` while Program or RestartCommand is missing (`xfsm_properties_check`) |
| `starting`, `restartProps` | the two queues of properties without a client |
| `attempts`, `resetTimer` | `restart_attempts` and its reset timer |
| `saveSession`, `checkpointName`, `shutdownType` | the fields of the manager |
| `idleReq` | the pending idle callback of a D-Bus request, with its arguments |
| `dialog` | the logout dialog, with whose dispatch it blocks and what it will do |
| `sent` | the messages the last step emitted, one per client at most |
| `stored` | what the last step wrote to the sessions file |

One action per handler: `RegisterXsmp`, `RegisterDBus`, `Reregister`,
`SetProperties`; `SaveYourself` (a local save, a save of the session, or the
closing of a client that must not ask), `InteractRequest`, `InteractDone`,
`SaveYourselfPhase2`, `SaveYourselfDone`, `EndSessionResponse`; `CloseRequest`,
`IceError`, `DBusClientLeft`; `DBusCheckpoint`, `DBusShutdown`, `RequestIdled`,
`DialogConfirmed`, `DialogCancelled`; `SaveTimeout`, `DieTimeout`,
`KillHungClient`, `KillReleasedClient`, `StartupFailed`,
`ResetRestartAttempts`. What several handlers call (`CloseConnection`,
`CompleteSaveYourself`, `HandleFailedProperties`, `SaveYourselfGlobal`) is an
operator that takes the client states as its caller has changed them.

Clients are unconstrained: a registered client may send any message in any
state, and any call may fail where its caller handles the failure (`Stoppable`,
a bound, is the one exception; see Runs). Three points need care when reading
the code beside the model:

* `xfsm_client_set_state` emits `QueryEndSession` as a side effect when a client
  becomes `SAVING` in a shutdown; `GlobalSaveNote` is where it shows.
* Undefined behaviour. An SmsConn is released by `close_connection`, but in the
  die phase the client stays in the list; writing to it, and going on with a
  client that was just closed, take the model to `UNDEFINED`, from where
  nothing is said. For a D-Bus client the dispatch of the call holds a
  reference, so `UnexpectedDone` spells out what the rest of the handler does.
* Kill timeouts. `xfsm_client_terminate` puts a new id over the one in
  `quit_timeout` (`xfsm-client.c:665`), and nothing removes the source of the old
  one; finalizing the client removes the last (109). `Terminated` and
  `Released` are these two, so `killTimer` tells the source that has its id kept
  from those that do not, and from those whose client is gone. When one of the
  last fires (`KillReleasedClient`), the model goes to `UNDEFINED`.

`SessionAnswers` adds to the manager what `xfce-sm-client.c` knows of where it
is in a save (`doing`: idle, saving, interacting, or waiting to be told to go
on), and admits only the messages the library sends there: one answer for each
SaveYourself, requests for the user or for phase 2 before it, no save request but
for a shutdown. D-Bus clients are left as they are. Messages take no time in it,
with one exception, which the code has to live with: a client that is told
SaveComplete while it saves still sends the answer it owes, as it does when the
two cross on the wire. libSM, between the library and the wire, is external and
left out.

Abstractions: the values of properties other than the restart hint and the name
of the program; the order of the client list, where it only decides who is told
first (who interacts next is a choice in `NextInteracts`); several D-Bus clients
on one bus connection leave in several steps; kiosk and SaveOnExit settings are
a choice in `SaveYourselfGlobal`; halt and restart are one type, the four types
that return to the session another. `SAVINGLOCAL` of an interact-style or fast
save does not differ from a plain one.

### SessionStartup and the code

A *program* is one entry of the session, that is, one `XfsmProperties` object
and the process started for it.

| Variable | Code |
|---|---|
| `mgr` | `manager->state`; `LOADED`: STARTUP, but `xfsm_manager_startup` is still to be dispatched; `UNDEFINED` once a NULL id was compared |
| `failsafe` | `manager->failsafe_mode` |
| `pending`, `starting`, `parked` | `pending_properties`, `starting_properties`, `restart_properties` |
| `clients` | programs whose properties a client owns |
| `timers`, `watched` | properties with `startup_timeout_id`, and those whose child watch is the one of the start-up |
| `hint`, `attempts`, `resetTimer` | the restart hint, `restart_attempts` and its reset timer |
| `failsafePending` | `failsafe_clients_pending` |
| `silent` | processes that run and have not registered |
| `failed`, `outsiders` | history: programs that failed, exited or were late; registrations of others |

Actions: `Begin` (the idle callback), `StartupTimeout`, `ChildExited`,
`Reregister` (a registration with an id of the session), `ProgramRegisters` and
`OutsiderRegisters` (without an id), `RegisterWithId` (with an id, in a failsafe
start-up), `SetProperties`, `ClientLeft`, `ResetRestartAttempts`. Four of them go
on with the next group in the same step. That loop
(`xfsm_startup_session_continue`) spawns many programs, each of which may fail
and be handled by `xfsm_manager_handle_failed_properties`, which may start it
anew; `Launches` is the set of functions that say what each program tried came
to, and `Settle` applies such a function to queues, timers and attempts.

The queue order within a priority group makes no difference to the properties
and is left out. Nobody is taken to register before `xfsm_manager_startup` is
dispatched: the callback is added when the session is loaded, and idle sources
run as soon as nothing else is pending. A process that is late is not killed;
it stays in `silent` and may register later. In a failsafe session hints are the
default, and programs carry no id.

The two modules meet in IDLE: what is parked or still starting there is
`restartProps` and `starting` of `SessionManager`. In STARTUP the manager
refuses every save, so nothing of a save round interleaves with a start-up, and
the two follow one another instead of being composed. `HandedOver` in
`SessionManager` is what a start-up may leave: programs that run, restart or are
parked, with whatever hints and attempts, clients in their initial local save,
nobody in a save of the session. `Spec` begins with nothing to restore, which is
the special case (`SpecRestored`), and `RestoredSpec` with any such state.
`SessionHandover` shows that `HandedOver` asks for no less than the start-up
delivers: it views the programs of the session as D-Bus clients of
`SessionManager` (`INSTANCE SessionManager WITH`), and `ManagerTakesOver` says
that the step into IDLE makes `HandedOver` true, and that every step after it is
a step of `SessionManager` or leaves its variables alone. So start-up timeouts
and child watches that are still installed then do only what `StartupFailed`
does.

### SaveRound and SessionManager

`SaveRound` knows a stage, the clients a save waits for (`saving`), those that
are held back until phase 2 (`waiting`), and what the last step wrote. It has
no messages, dialogs, timers or kinds of clients. A round begins for some
clients, goes on as they are through or held back, and `GoOn` says when phase 2
begins (nobody is saving, somebody is held back) and when the round is finished
(nobody is left). `SessionRound` maps to it: interaction is part of saving, and
`mgr` and `stored` give stage and writing. Steps that only touch timers, turns,
dialogs, properties or idle callbacks are `Other`. `RoundIsImplemented`, that is
`Round!Spec`, is checked by `save_round` and proved. Whom a save asks is
left open in `Begin`: the code asks only clients that are neither in a save
of their own nor, on a restart of the round, through with it.

### Settings and the code

| Variable | Code |
|---|---|
| `system`, `lock` | `prop->system_value`, `prop->locked` or `channel->locked`: what the system's files say |
| `user` | `prop->value` |
| `file` | the user's file of the channel |
| `dirty`, `saveTimer` | `channel->dirty`, `xbpx->save_id` |
| `notify` | idle callbacks added by `xfconf_daemon_backend_property_changed` |
| `phase` | whether the program has opened or closed its channel |
| `cache` | `cache->properties`: no item, an item without value, or a value |
| `pending` | `cache->old_properties`: `XfconfCacheOldItem` with the value to go back to and the number of replies to come |
| `call`, `answer` | the synchronous call the client is in, and its reply |
| `requests`, `inbox` | the D-Bus connection in both directions, with the replies and signals that wait in the client's main loop |
| `faults`, `writes` | history: the faults that lost something; the number of writes and resets |

The composition has one channel and one property; the others of the channel
share the file and the dirty flag and cause more saves. A method call is one
step of the daemon (`Serve`), which answers in order on each connection. `Emit`
is the idle callback, which announces *the value by then*, `Save` the save
timer, `Restart` a kill or a clean end with a new daemon after it, `CallTimeout`
the 25 seconds of GDBus. In a client, `Open`, `Lookup`, `Set`, `Reset` and
`Close` are the calls of the library, `...Answered` what they do with a reply
they have waited for, `ReplyArrives`, `PropertyChanged` and `PropertyRemoved`
the three handlers of its main loop. A write is asynchronous; a later one
cancels it, and cancelling makes its reply handler run with an error, in the
main loop, while the daemon executes the call all the same (`Failures`,
`Unwanted`). Finalizing with a write outstanding cancels it and writes again,
waiting.

Left out: trees of several properties and prefixes, arrays, listing, GObject
bindings (they read through the cache and write through it), the parsing of the
files, migration. The four forms of a reset are kept apart, since they differ in
what they announce, evict and fail with.

### Panel plug-ins and the code

| Variable | Code |
|---|---|
| `exists`, `realized` | the `PanelPluginExternal` widget, and `gtk_widget_get_realized` |
| `locked` | `panel_window_get_locked` |
| `pid`, `watch`, `embedded`, `timer`, `recent` | `priv->pid`, `watch_id`, `embedded`, `spawn_timeout_id`, `restart_timer` under 60 seconds |
| `sources` | the child watches that are installed |
| `queue` | `priv->queue`, oldest first |
| `asking` | nested runs of the restart dialog, innermost last |
| `idle`, `infoIdle` | the idle calls of `panel_plugin_external_remove` and `set_all_provider_info` |
| `info` | the state of the panel's properties, as the number of its last change |
| `proc`, `inbox`, `applied` | the processes with how they ended, the `Set` signals they have not dispatched, what they have applied |
| `bus` | messages of processes the panel has not dispatched |
| `embedder`, `reentered`, `moves`, `born` | not in the code: who sent the Embedded that set `embedded`; something was spawned or removed inside a dialog; two counters |

Actions of the panel: `Insert`, `Show` (the two ways a plug-in comes on the
screen), `SetAllProviderInfo`, `SetInfo`, `Move` (to another panel: unrealize,
realize and new properties in one handler), `UserRemove`, `RemoveIdle`,
`Deliver` (`Embedded` or `ProviderSignal`), `Respawn`, `ChildWatch`,
`AnswerExecute`, `AnswerRemove`, `Elapse`. Of a process: `Connect`, `Plug`,
`GproxySet`, `MenuRemove`, `Refuse`, `Fail`.

What a process sent and the bus has not got when it ends may be lost from some
point on (`Flushed`). The idle removal has `G_PRIORITY_HIGH` and runs before
everything else (`Ready`). The dialog is modal, so the user neither moves nor
removes the plug-in from the preferences meanwhile; the process, its menu, the
timer and the bus go on. `kill` sends SIGTERM, which ends a wrapper (it
installs no handler for it). A finalized widget hears nothing, and steps inside
a dialog after the removal are not modelled: the code then uses freed memory.

Left out: geometry and remote events of the Wayland wrapper, menu and configure
flags, the counter that freezes autohide, plug-ins in the panel's own process,
X11 sockets, `panel_plugin_external_restart` (which nothing calls) with the exit
statuses it would cause, and the exit of the panel.

## Runs

All runs finish within three minutes with two workers. `MaxRestartAttempts` is 5
in the code and at most 2 here, which reaches "the last attempt" and "one too
many" soonest. `MaxOutsiders` bounds the other clients that register in a
failsafe start-up: two are as many as the first group has programs, so they can
end it all by themselves. The five minutes of `RESTART_RESET_TIMEOUT` are taken
to be longer than a start-up, of at most eight seconds a group
(`ResetRestartAttempts`). `MaxEvents` bounds the sum of writes, resets and faults
in `settings` (by the constraint `Bounded`; `MaxWrites` is never reached first),
each kind of fault happening once at most; signals and replies are bounded by
them. `MaxSpawns`, `MaxInfo` and `MaxMoves` bound the processes of a plug-in,
the states of the panel's properties and the moves; a spawn beyond the bound
fails, which it may always do. `Stoppable` bounds whom the manager tells to stop
where the session does not need it: by the D-Bus method `Terminate`, which may be
repeated, and by a second answer to EndSession from a client that was closed in
the die phase. `save_round` has nobody who is: kill timeouts only come from
closes there, and the one way left to lose one is an unexpected answer that
begins the die phase (`UnexpectedDone`). The other passing runs tell every D-Bus
client to stop as often as the code allows. Nothing else is bounded, the state
spaces are finite.

Three runs have a view, which identifies states that no property of the run and
no fairness condition tells apart: they differ in `sent` and `stored`, the output
of the last step, which no action reads, and in what only decides that output,
`checkpointName` (the group that is written) and, in `restart` and `endings`,
`saveSession` (whether anything is). The action properties and the refinement of
`save_round` look at the output after a step only, and what they ask is the same
for both groups in a checkpoint, where alone the name matters. The part of
`TypeOK` about these variables is checked in `restart` for one of the states that
are identified; `TypeCorrect` proves it for all.

| Run | Instance | Shows |
|---|---|---|
| `save_round` | 2 XSMP clients, 1 D-Bus client, types ask and logout, no hints, nobody told to stop needlessly, symmetry, view `WithoutOutput` | `OneInteracts`, `SaversAreTimed`, `WaitersAreNotTimed`, `StatesAgree`, `Phase2IsBarrier`, `StoredWhenAllSaved`, and the refinement `RoundIsImplemented` |
| `restart` | 1 XSMP and 1 D-Bus client, hints Anyway and Immediately, one attempt, both stopped again and again, view `WithoutStore`; every state that a start-up may leave (`RestoredSpec`) | `TypeOK`, `PropertiesHaveOneOwner`, `TimersHaveClients`, `RestartsAreBounded` |
| `endings` | an xterm and a D-Bus client, types ask, logout and sleep, view `WithoutStore`, timers fair | `SavingEnds`, `DieEnds` |
| `wayland` | 2 D-Bus clients under Wayland, types logout and sleep | `OnlyCheckpointsStore` |
| `startup` | groups of 2 and 1 programs, saved and failsafe, all hints, 2 attempts, 2 outsiders, callbacks and timers fair | `TypeOK`, `PropertiesHaveOneOwner`, `StartersAreTimed`, `NeverStranded`, `CounterIsPositive`, `GroupsInOrder`, `ManagerTakesOver`, `StartupEnds` |
| `settings` | 2 clients, 2 values, with and without system default, 3 kinds of locks, 4 faults, symmetry | `TypeOK`, `Converged`, `OwnWriteFirst`, `RepliesAreDue`, `BlockedAreAnswered`, `ClosedIsWritten`, `SavedOrDirty`, `DirtyIsTimed`, `LockHolds` |
| `plugins` | 3 processes, 2 states of the properties, 1 move, locked or not; main loops fair | `TypeOK`, `OneChild`, `Watched`, `NothingOutlives`, `InfoReaches`, `ChildrenDepart`, `InfoInOrder`, `RespawnEnds`, `OrphansLeave` |
| `checkpoint_nobody` | 1 D-Bus client | refutes `CheckpointEnds` |
| `waiting_forever` | 2 XSMP clients, timers and users fair | refutes `WaitersAreServed` |
| `cancel_untold` | 1 XSMP and 1 D-Bus client | refutes `CancelIsTold` |
| `closed_then_used` | 2 XSMP clients that keep to the protocol (`SessionAnswers`) | refutes `NothingUsedAfterRelease` |
| `kill_timer_lost` | 1 D-Bus client | refutes `KillTimersHaveClients` |

Two XSMP clients are what turns and barriers need: one that holds something up
and one that is held up; the D-Bus client adds the other way to answer and to
leave. Restart bookkeeping is per client, and one of each kind reaches every
branch; the theorems below cover any number. A start-up needs two groups for
the order between them and two programs in one of them for the question who is
the last; a third group repeats the step from the first to the second.

Two clients of a channel are one that writes and one that hears of it, or two
that write at once; two events let a write cross a write, a reset or a fault,
and let the second write of a client supersede its first. Three processes are
the first, one spawned after it ended, and one spawned inside a dialog about the
second; the first fault in a minute is repaired silently, so fewer would reach
no dialog with a child behind it. One change of the properties is what can be
lost or overtaken, and one move is enough to meet a child in each of its states.

Deadlock is not checked: the session ends in `QUIT`, a finished start-up waits for
nothing, the models stop in `UNDEFINED`, the clients of `settings` have no
events left, and a plug-in that was removed is silent when its process has ended.

**Fairness.** `FairSpec` has weak fairness of `SaveTimeout` of each client and of
`DieTimeout`: a GLib timeout that stays installed is dispatched in the end.
`UserSpec` adds that the user answers the dialog of the client that interacts;
it is used only to show that a violation does not come from an idle user.
`FairSpec` of `SessionStartup` has weak fairness of `Begin`, an idle callback, and
of `StartupTimeout` of each program. Clients are never assumed to do anything.
`Spec` of `PanelPlugin` has weak fairness of what the panel's main loop and the
processes' dispatch once it is ready: the idle callbacks, the bus, the respawn
timer, the child watches and the `Set` signals. Users, faults, time and the
start-up of a process, which may hang, owe nothing. The settings run has no
liveness property and states no fairness.

The symmetry of `save_round` is sound: XSMP clients are treated alike there
(`XTerms` is empty), and its properties are invariants and action properties, of
which `Round!Spec` is one: neither side has fairness. That of `settings` is sound
as well: clients are alike, and only invariants are checked.

## Proofs

`SessionManager_proofs` proves, for every set of clients, every restart limit,
every set of hints and types and both windowing systems:

* `TypeCorrect`, `OneOwner`, `SaveAndResetTimersEnd`, `BoundedRestarts`, from the
  inductive invariant `LedgerInv`. The four invariants are not inductive:
  that `restart_attempts` stays in its bounds depends on which properties may
  be started again. `Ledger` adds that clients in the list and properties being
  started have attempts within the limit (properties that reached it are only
  in `restart_properties`), that properties nobody holds count from zero, that
  nobody is both running and being started, and that only XSMP clients are
  connected without being registered. `SaveAndResetTimersEnd` is about save
  timeouts and the timers that reset restart attempts, which go with their
  client; the same of kill timeouts is false, and `kill_timer_lost` shows it.
* `RestoredLedger`, the same four for `RestoredSpec`, that is, after any
  start-up. All invariants of `SessionManager` are proved from `RestoredSpec`;
  the theorems about `Spec` are corollaries by `SpecRestored`.

`SessionSave_proofs` proves `Turns`, `SaversTimed`, `WaitersUntimed` and
`Agreement` from `SaveInv`, the conjunction of the four invariants of the save
round, which is inductive once types are known. The work is in
`CompleteSaveSafe` and `CloseConnectionSafe`: a handler passes a changed client
state on to `xfsm_manager_complete_saveyourself`, so the lemmas speak about an
arbitrary state function and set of timers (`Timed`, `OneTurn`).
`RestoredSaves` says the same of a session after any start-up. `LimitsAreKept`
is the part of `SavingEnds` and `DieEnds` that needs no fairness: the die phase
has its timer, nothing takes that timer away before the session is over, and
both timers do what they are for. It is less obvious than it looks, because a
logout dialog that is confirmed in the die phase begins another save
(`DialogConfirmed`): the manager leaves the die phase then, but not its timer
(`Limited` is what every handler does to the two).

`SessionStartup_proofs` proves, for every finite session, every assignment of
priorities, every restart limit and every number of outsiders,
`StartupOwnership`, `StartupTimers`, `StartupNotStranded`, `StartupCounter` and
`StartupTyped`, and from the same invariant the action property
`StartupOrder`. `StartupInv` has two halves. `Books` is about sets: owners,
timers, who may still be restarted, and that every program that is silent and
has not failed is awaited in `starting` (saved session). `Counts` is about
the counter of a failsafe session: it covers the programs that are still
silent, up to the outsiders that were counted in their place, and it is
positive while the start-up lasts. `GroupsInOrder` needs both, because the
queue is emptied by the counter there. The counting lemmas rest on
`FiniteSetTheorems`.

`TakenOver` proves `ManagerTakesOver`. It needs more than `StartupInv`, because
`HandedOver` is more precise about what may be left: `Remains` adds that parked
properties have a hint that keeps them, that exactly the clients with attempts to
forgive have a reset timer, and that in IDLE nothing is pending and what is
starting are restarts. The lemmas `IdleFailure`, `IdleReregisters`, `IdleLoses`
and `IdleSets` then give, handler by handler, the step of `SessionManager` that
it is.

`StartupAdvances` says why a start-up ends, for any number of programs, groups
and attempts (`StartupEnds` is checked for three programs). `Ahead` counts the
steps that a program may still go through: a start, a registration and a loss
for every attempt that is left. It is a number (`Measured`); until the manager
is idle no step lets it grow, and it shrinks for the program that is late,
registers or is lost (`Advancing`). And while the manager is starting up, a
timeout is running whose handler has something to do (`TimeoutsLead`), which
rests on there being a first group in any queue (`LaunchPossible`, from
`LowestNat`, by well-founded induction on sets). With fair timeouts the start-up
cannot last: what is left to conclude that is fairness alone.

`SessionRound_proofs` proves `RoundImplemented`: `SessionManager` implements
`SaveRound`. Types are all it needs; the work is to show, for each handler, that
it is *one* step of the round. Handlers end in `xfsm_manager_complete_saveyourself`
or `xfsm_manager_close_connection` with a changed state function, so the lemmas
are about those two with any function, and give `GoOn`, the barrier, what is
written and the Wayland condition at once: `StepsWell` is the conjunction that
every step satisfies, and `BarrierHolds`, `StoredOnce` and `NoWaylandStore` are
read off it. `RestoredRounds` is the same for `RestoredSpec`: the refinement
and the barrier hold whatever a start-up left.

`SettingsCache_proofs` proves, for any clients, values, bounds and sets of
faults, from `IInv`: for the store that a locked property has no user value
(`LockedUnset`), and for each client how its call, its requests, its answer and
its record of a write hang together (`ClientInv`): what a client is blocked in
is the last thing it sent or has been answered, only the newest write of a
client is wanted, and what it waits for a record exists for. `SavedOrDirty`,
`DirtyIsTimed`, `LockHolds`, `BlockedAreAnswered`, `OwnWriteFirst` and `TypeOK`
follow.

`SettingsReplies_proofs` proves `NoReplyMissed` and `NothingUnwritten`. `Due` says
that a record counts the replies in the inbox and the write on its way; what
makes it inductive is that at most one write of a client is wanted (`OneWrite`).
That a client that did not give up a call waits for the last one it sent
(`LastWanted`) shows that the daemon has served everything when a channel is
closed (`Written`). The lemmas count the replies of a queue when events are
appended and taken off, with `FiniteSetTheorems`.

`SettingsNews_proofs` proves `NothingStale`. What holds at rest says little about
the steps before, so the invariant is about the last event in the inbox of a
client with no write on its way (`Unlocked`): either the daemon has still to
announce something, or the last event is a signal with the present value
(`Told`), or it is a reply or there is none (`Untold`), and then what the client
shows, and what a fetch has brought, is the present value or none. The last
reply is that of the newest write, so it is taken back only if that was refused
(`LastReplyOk`). A locked property is another matter (`Fixed`): every write is
refused, and every record goes back to the value of the system. A step of the
daemon changes the value only with an announcement (`Moves`), so the lemmas about
one client leave the others alone (`NewsOfOthers`).

`PanelPlugin_proofs` proves `AtMostOneProcess`, `ChildIsWatched`,
`FinalizeIsClean` and `ChildIsUpToDate`. `OneChild`, `Watched` and `NothingOutlives` are not inductive:
a child watch resets `pid` whoever it is about, and a removal forgets the watches
that `watch_id` does not name. `Single` (the only watch is that of the process in
`pid`) makes the first harmless, and `AskedWithoutChild` (behind a dialog there
is no child, unless one was spawned inside it) is what an answer needs, which
resets `watch_id`. `NeverOutOfOrder` is an action property, from `InOrder`: what a
process has applied, its inbox, the panel's queue and the panel's properties are
in order, one after the other; its lemmas are about concatenations of sequences.
`ChildIsUpToDate` (`InfoReaches`) says that the newest of them gets through; it
rests on `Reach`, which adds that only a process that was spawned and has shown
its plug is or will be taken for embedded (`Senders`), and that for a child that
is not embedded yet the queue ends with the newest state, or the idle call that
puts it there is due (`Told`).

`ChildrenAreToldToGo` (`ChildrenDepart`) and `QuitComesNearer` are the part of
`RespawnEnds` and `OrphansLeave` that needs no fairness, for any number of
processes, moves and changes: whoever waits for a child to go, the child has
ended or has `Quit` in its inbox, and a `Quit` there comes nearer with every
message that is read and is never overtaken or lost. The invariant `Departs`
adds that the timer runs and dialogs ask for realized widgets only, and that
`pid` names a process that was spawned; that an embedded child is one that has
shown its plug, and so hears the `Quit`, is `Senders` again.

The assumptions are `StartupAssumption` (a finite session, priorities and bounds
are numbers), `SessionAssumption` (ids of the two kinds are disjoint, XSMP
clients only exist under X11, and the sets have the types their comments say),
`StoreAssumption` and `CacheAssumption` (the special values are no values), and
`BoundsAssumption` (numbers). TLC evaluates them in every run.

Only model-checked: the liveness properties `SavingEnds`, `DieEnds`,
`StartupEnds`, `RespawnEnds` and `OrphansLeave`, because fairness and ENABLED are
out of the prover's reach; `LimitsAreKept`, `StartupAdvances`,
`ChildrenAreToldToGo` and `QuitComesNearer` prove what they rest on besides:
what is due stays due, and a count goes down. Every invariant and every action
property of the passing runs is proved.

## Known divergences

The five `violation` runs are findings of `PROJECT.json`. The same model shows
others; each was confirmed as a violated formula and is described here instead
of being kept as a run:

* A checkpoint *stops D-Bus clients*. `QueryEndSession` is only emitted in
  SHUTDOWN (`xfsm-client.c:325`) and `EndSessionResponse` is refused in
  CHECKPOINT, so a D-Bus client can answer nothing, and after
  SAVE_TIMEOUT it is told to Stop and dropped.
* `Stop` is not always followed by a kill. `xfsm-client-dbus.xml:223-225` calls it
  "the friendly version [...] before it is forcefully killed"; when the manager
  closes a client itself, the client object goes and takes the last timer along
  (`xfsm-client.c:109`). An earlier one stays and fires without a client, which
  is the finding of `kill_timer_lost`.
* A D-Bus request is refused unless the manager is idle, but served from an idle
  callback that does not look again (`xfsm-manager.c:2337`, `2380`).
* A fast shutdown of a client prompts nobody and chooses nothing, and ends as
  the last request would have (`xfsm-manager.c:1301`).
* A client reset to idle at the end of a checkpoint keeps the save timeout of
  its local save, and is closed by it (`xfsm-manager.c:1834`).
* On Wayland the session ends in the step that emits `QueryEndSession`
  (`xfsm-manager.c:1392`), although `xfsm-client-dbus.xml:187-190` has the client
  wait for `EndSession`.
* State 4 of the D-Bus interface, "allowing clients which have requested extra
  time" (`xfsm-manager-dbus.xml:61-63`), is the die phase; clients save in phase
  2 in state 3.
* A failsafe start-up *compares ids that are NULL*. The programs of a failsafe
  session have none (`xfsm-manager.c:583`, `634`), and `xfsm-startup.c:655-656` says
  that "clients cannot be uniquely identified in failsafe mode"; yet a client
  that registers with an id, as every D-Bus client does, is looked up among them
  (`xfsm-manager.c:1044`), and `xfsm_properties_compare_id` gives the NULL to
  `strcmp` (`xfsm-properties.c:414`). `RegisterWithId` of `SessionStartup` goes to
  `UNDEFINED`; TLC reaches it in the first group.
* `is_ok` of `EndSessionResponse` is ignored, a client in its local save when a
  global one starts is not asked and its local answer counts, and a D-Bus id
  that is both running and in `restart_properties` is stored twice.

Of the session client library (`xfce-sm-client.c`), beyond the order of messages
that `SessionAnswers` has: the
comment about a cancelled shutdown in a recursive main loop (about line 1192)
describes what cannot happen, since the ICE watch is not dispatched recursively;
and clients that agreed to quit are never told that the shutdown was cancelled,
because the manager tells only those that wait to interact.

### Settings

None of these is a run of its own: the properties of `settings` are stated up to
them, and each statement says so.

* *A property that is there and said not to be.* The handler of PropertyRemoved
  (`xfconf/xfconf-cache.c:586`), unlike that of PropertyChanged (563), does not
  look whether a write is outstanding. The property has been reset, which is
  still to be announced. Clients 1 and 2 both set it to *a*, the removal is on
  its way to client 2 when the daemon serves client 1, which makes *a* the value.
  Client 2 takes in the removal, and its item has no value; it ignores the
  PropertyChanged, for its own write is outstanding; that write changes nothing,
  so nothing is announced, and it is acknowledged. An item without a value is not
  looked up again (848), so for client 2 the property does not exist until
  somebody changes it, although `xfconf_channel_has_property` is documented as
  "%TRUE if @property exists" (`xfconf/xfconf-channel.c:601`). `Converged` therefore
  allows no value beside the present one. Three writes are needed, one more than
  the events of `settings`; the attempt to prove the stronger formula showed it,
  and TLC found the sequence with the larger bound.
* A lookup made between the daemon's change and its signal fills the cache with
  the new value; the signal then finds nothing changed and tells no listener
  (`xfconf/xfconf-cache.c:565`), although `xfconf-channel.c:147` documents the
  signal as emitted whenever a property changes.
* A *channel* that is locked can be written: `set` looks at the property's lock
  only (`xfconfd/xfconf-backend-perchannel-xml.c:313`), though `is_property_locked`
  (741) says yes. What is written is saved and never read again (1707).
* `xfconf_channel_is_property_locked` asks about the name without the channel's
  property base (`xfconf-channel.c`, about 647).
* Setting a locked property returns TRUE and is taken back when the reply comes.
* Saving clears the dirty flag and reports success when the file could not be
  written (`xfconf-backend-perchannel-xml.c:1927`, `xfconf-backend.c:504`).
* A clean end with a notification pending does not flush
  (`xfconf-daemon.c:132`): the idle callback holds a reference.
* After a call that timed out, or the end of a daemon with writes in flight,
  caches may stay stale; a new daemon announces nothing.
* Finalizing writes a value again that may have been written before, and so may
  overwrite a later write of somebody else (`xfconf-cache.c:210`, `470`).
* Resetting a channel fails if it never had a user file (576), although there
  was nothing to do.
* Resetting "/" evicts nothing from the cache, because the prefix becomes "//"
  (`xfconf-cache.c`, about 1094); the items go when the signals come.

### Panel plug-ins

* *A child spawned inside the restart dialog.* A plug-in that crashed twice
  within a minute has the panel ask; if the respawn timer was running (a move
  had killed the child, and the kill counts as a crash), it spawns a child
  while the dialog waits. After "Execute" the destroy notify of the outer watch
  resets `watch_id`, which names the new child's watch: a removal will not find
  it, and the watch goes to a freed widget. The timer set by "Execute" waits for a
  healthy child, ten times a second. After "Remove" the new child's watch is
  removed and nobody waits for it.
* *A removal inside the dialog* (the last message of the dead child, or the menu
  of a new one) finalizes the widget under the handler that shows it.
* *A late Embedded.* The signal of a child that has ended may be dispatched after
  its child watch: `embedded` is set with no child. `child_respawn` then waits for
  ever (`panel/panel-plugin-external.c:630`), or, after a move, a child is spawned
  that never gets the queue; on removal `Quit` goes to a process that does not
  listen yet and stays.
* A child the panel itself kills while it starts counts as one that left
  unexpectedly, and may bring up the dialog.
* In a locked panel `REMOVE_PLUGIN` is ignored: a plug-in that cannot work stays,
  without a process. Autohide then waits for it on Wayland
  (`panel/panel-window.c:3373`).
* A plug-in that sent `LOCK_PANEL` and crashes leaves the panel's autohide frozen
  (`panel/panel-application.c:757`): nothing is undone when a child ends.
* Geometry queued for a child is freed at a respawn and sent again only when the
  widget's size changes.

## Plan

1. Done: `SessionManager` with its runs and its two invariants proved.
2. Done: `SessionStartup` with its run, its invariants and its action property
   proved, and `SessionHandover`, by which the manager's theorems hold after
   any start-up.
3. Done: `SaveRound`, with the refinement and the action properties proved.
4. Done: `SettingsStore` and `SettingsCache`, with all nine invariants proved.
5. Done: `PanelPlugin`, with its safety properties proved, and what its liveness
   properties rest on.
6. Open: `SessionClient`, the client library composed with `SessionManager` over
   FIFO channels fed from `sent`; it needs a model of what libSM lets through.
   `SessionAnswers` has the order of its messages already, but not the channels.
7. Open: `Inhibitor` (cookies and applications that leave), the batches of window
   tracking, bindings, jobs of the file manager.

## Not modelled, and why

User interface, drawing and parsing; the contents of properties and files; calls
of logind, ConsoleKit and polkit, which are synchronous and whose outcome is a
Boolean; legacy clients, compiled only with an option; the loss of the bus
name (`main.c:212`), after which the process ends with whatever shutdown type
was recorded last. The session client library follows callbacks of libSM, which
is not in the repository and which drops messages that do not fit its own
state; beyond the order of the messages (`SessionAnswers`), a model of the
library alone would say little. Window tracking and layer
surfaces depend on the order in which a compositor sends events, and the
compositor is not in the tree either. The window manager, the file manager's
jobs and the desktop share no state with what is modelled and are listed in
`PROJECT.json` with the reason for each. The map covers a small share of the
tree's lines: most of them are widgets, drawing, parsing and vendored headers.
