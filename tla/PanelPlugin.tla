----------------------------- MODULE PanelPlugin -----------------------------
(***************************************************************************)
(* A plug-in of the panel that runs in a process of its own: the widget    *)
(* that stands for it in the panel (PanelPluginExternal and its Wayland    *)
(* subclass), the wrapper processes it spawns one after the other, and the *)
(* D-Bus messages and the exit statuses between them.                      *)
(*                                                                         *)
(* The panel is one main loop.  A step of the panel is what one source of  *)
(* it runs; sources of a higher priority run first (RemoveIdle).  One      *)
(* handler, ChildWatch, may open a dialog and run the loop again inside    *)
(* itself: asking holds the child watches that wait for an answer, the     *)
(* innermost last.                                                         *)
(*                                                                         *)
(* A property of the panel that the plug-in must know (size, mode, icon    *)
(* size, number of rows ...) is the number of its last change.             *)
(***************************************************************************)
EXTENDS Naturals, Sequences

CONSTANTS
  MaxSpawns,  \* bound on the processes: to spawn one more fails
  MaxInfo,    \* bound on the states of the panel's properties
  MaxMoves    \* bound on the moves from one panel to another

ASSUME BoundsAssumption ==
  MaxSpawns \in Nat /\ MaxInfo \in Nat \ {0} /\ MaxMoves \in Nat

Pids == 1 .. MaxSpawns

VARIABLES
  exists,     \* the widget has not been finalized
  realized,   \* gtk_widget_get_realized
  locked,     \* panel_window_get_locked: the panel may not be changed
  pid,        \* priv->pid, 0 for none
  watch,      \* priv->watch_id: the process whose watch it names, 0 for none
  sources,    \* the child watches installed for this widget
  embedded,   \* priv->embedded
  embedder,   \* the process that said so, 0 for none (not in the code)
  queue,      \* priv->queue, oldest first
  timer,      \* priv->spawn_timeout_id # 0
  recent,     \* priv->restart_timer is set and shows 60 seconds at most
  asking,     \* the child watches waiting for the answer to a dialog
  idle,       \* an idle call of panel_plugin_external_remove is queued
  infoIdle,   \* an idle call of set_all_provider_info is queued
  info,       \* the panel's properties
  moves,      \* number of moves
  born,       \* number of processes spawned
  reentered,  \* a child was spawned or the plug-in removed inside a dialog
              \* (not in the code)
  proc,       \* the processes, and how they ended
  inbox,      \* Set signals on their way to a process, or in its main loop
  applied,    \* what a process knows of info
  bus         \* messages of the processes on their way to the panel

widgetVars == <<exists, realized, locked, pid, watch, sources, embedded,
                embedder, queue, timer, recent, asking, idle, infoIdle>>
childVars == <<proc, inbox, applied, bus>>
vars == <<widgetVars, info, moves, born, reentered, childVars>>

Living == {"born", "connected", "running"}
Gone == {"success", "refused", "fault"}

Alive(p) == proc[p] \in Living

Item(k, v) == [k |-> k, v |-> v]
Quit == Item("quit", 0)
Removed == Item("removed", 0)
Items == [k : {"info", "quit", "removed"}, v : Nat]
Messages == [k : {"embedded", "remove"}, from : Pids]

TypeOK ==
  /\ exists \in BOOLEAN /\ realized \in BOOLEAN /\ locked \in BOOLEAN
  /\ pid \in {0} \cup Pids /\ watch \in {0} \cup Pids
  /\ embedder \in {0} \cup Pids
  /\ sources \subseteq Pids
  /\ embedded \in BOOLEAN /\ timer \in BOOLEAN /\ recent \in BOOLEAN
  /\ idle \in BOOLEAN /\ infoIdle \in BOOLEAN /\ reentered \in BOOLEAN
  /\ queue \in Seq(Items)
  /\ asking \in Seq(Pids)
  /\ info \in 1 .. MaxInfo /\ moves \in 0 .. MaxMoves
  /\ born \in 0 .. MaxSpawns
  /\ proc \in [Pids -> Living \cup Gone \cup {"unborn"}]
  /\ inbox \in [Pids -> Seq(Items)]
  /\ applied \in [Pids -> Nat]
  /\ bus \in Seq(Messages)

\* A plug-in that was put in a window that is not on the screen yet.
Init ==
  /\ exists = TRUE /\ realized = FALSE
  /\ locked \in BOOLEAN
  /\ pid = 0 /\ watch = 0 /\ sources = {}
  /\ embedded = FALSE /\ embedder = 0
  /\ queue = <<>>
  /\ timer = FALSE /\ recent = FALSE /\ asking = <<>>
  /\ idle = FALSE /\ infoIdle = FALSE
  /\ info = 1 /\ moves = 0 /\ born = 0 /\ reentered = FALSE
  /\ proc = [p \in Pids |-> "unborn"]
  /\ inbox = [p \in Pids |-> <<>>]
  /\ applied = [p \in Pids |-> 0]
  /\ bus = <<>>
----------------------------------------------------------------------------
(***************************************************************************)
(* What the handlers share.                                                *)
(***************************************************************************)
\* The idle call of panel_plugin_external_remove goes before everything else.
Ready == exists /\ ~idle

\* A Set signal reaches every process that has made its proxy.
Heard(items) ==
  [p \in Pids |-> IF proc[p] \in {"connected", "running"}
                  THEN inbox[p] \o items ELSE inbox[p]]

\* Mutant: the queue goes out as the list holds it, newest first.
EnqueueUnreversed(items) ==
  IF embedded
  THEN inbox' = Heard(items \o queue) /\ queue' = <<>>
  ELSE queue' = items \o queue /\ UNCHANGED inbox

\* queue_add: at once if a child is embedded, else when one will be.
Enqueue(items) ==
  IF embedded
  THEN inbox' = Heard(queue \o items) /\ queue' = <<>>
  ELSE queue' = queue \o items /\ UNCHANGED inbox

ProviderInfo == <<Item("info", info)>>

\* What the bus still gets of p when it ends without flushing.
Flushed(p) ==
  {SubSeq(bus, 1, n) :
     n \in {m \in 0 .. Len(bus) :
              \A i \in m + 1 .. Len(bus) : bus[i].from = p}}

\* Process p ends.
Ends(p, how) ==
  /\ proc' = [proc EXCEPT ![p] = how]
  /\ inbox' = [inbox EXCEPT ![p] = <<>>]

\* kill: it does nothing to a process that has ended.
Kill ==
  IF Alive(pid) THEN Ends(pid, "fault") ELSE UNCHANGED <<proc, inbox>>

\* Mutant: the id of the child watch is not kept.
SpawnedNoId ==
  /\ born < MaxSpawns
  /\ born' = born + 1
  /\ pid' = born + 1
  /\ sources' = sources \cup {born + 1}
  /\ proc' = [proc EXCEPT ![born + 1] = "born"]
  /\ reentered' = (reentered \/ asking # <<>>)
  /\ UNCHANGED watch

Spawned ==
  /\ born < MaxSpawns
  /\ born' = born + 1
  /\ pid' = born + 1
  /\ watch' = born + 1
  /\ sources' = sources \cup {born + 1}
  /\ proc' = [proc EXCEPT ![born + 1] = "born"]
  /\ reentered' = (reentered \/ asking # <<>>)

\* The failure is only written to the log.
NotSpawned == UNCHANGED <<born, pid, watch, sources, proc, reentered>>

ChildSpawn == Spawned \/ NotSpawned
----------------------------------------------------------------------------
(***************************************************************************)
(* The panel.                                                              *)
(***************************************************************************)
\* The plug-in is put in a window on the screen, and told about the panel.
Insert ==
  /\ Ready /\ ~realized /\ pid = 0 /\ queue = <<>>
  /\ realized' = TRUE
  /\ queue' = ProviderInfo
  /\ ChildSpawn
  /\ UNCHANGED <<exists, locked, embedded, embedder, timer, recent, asking,
                 idle, infoIdle, info, moves, inbox, applied, bus>>

\* The window comes on the screen, and tells its plug-ins in an idle call.
Show ==
  /\ Ready /\ ~realized /\ pid = 0
  /\ realized' = TRUE
  /\ infoIdle' = TRUE
  /\ ChildSpawn
  /\ UNCHANGED <<exists, locked, embedded, embedder, queue, timer, recent,
                 asking, idle, info, moves, inbox, applied, bus>>

SetAllProviderInfo ==
  /\ Ready /\ infoIdle
  /\ infoIdle' = FALSE
  /\ Enqueue(ProviderInfo)
  /\ UNCHANGED <<exists, realized, locked, pid, watch, sources, embedded,
                 embedder, timer, recent, asking, idle, info, moves, born,
                 reentered, proc, applied, bus>>

\* A property of the panel changes.
SetInfo ==
  /\ Ready /\ info < MaxInfo
  /\ info' = info + 1
  /\ Enqueue(<<Item("info", info + 1)>>)
  /\ UNCHANGED <<exists, realized, locked, pid, watch, sources, embedded,
                 embedder, timer, recent, asking, idle, infoIdle, moves, born,
                 reentered, proc, applied, bus>>

\* Unrealize, then realize: there is no child, so one is spawned at once.
MoveWithoutChild ==
  /\ pid = 0
  /\ timer' = FALSE
  /\ ChildSpawn
  /\ Enqueue(ProviderInfo)
  /\ UNCHANGED bus

\* Mutant: unrealize leaves the child alone.
MoveQuietly ==
  /\ pid # 0 /\ embedded
  /\ timer' = TRUE
  /\ Enqueue(ProviderInfo)
  /\ UNCHANGED <<born, pid, watch, sources, proc, reentered, bus>>

\* The child is asked to quit, and another one will be spawned after it.
MoveEmbedded ==
  /\ pid # 0 /\ embedded
  /\ timer' = TRUE
  /\ Enqueue(<<Quit>> \o ProviderInfo)
  /\ UNCHANGED <<born, pid, watch, sources, proc, reentered, bus>>

\* The child is killed, and another one will be spawned after it.
MoveStarting ==
  /\ pid # 0 /\ ~embedded
  /\ timer' = TRUE
  /\ queue' = queue \o ProviderInfo
  /\ Kill
  /\ bus' \in Flushed(pid)
  /\ UNCHANGED <<born, pid, watch, sources, reentered>>

\* The user drags the plug-in to another panel; a dialog would be in the way.
Move ==
  /\ Ready /\ realized /\ asking = <<>> /\ moves < MaxMoves
  /\ moves' = moves + 1
  /\ MoveWithoutChild \/ MoveEmbedded \/ MoveStarting
  /\ UNCHANGED <<exists, realized, locked, embedded, embedder, recent, asking,
                 idle, infoIdle, info, applied>>

\* Mutant: a child that is not embedded yet is forgotten.
UnrealizeNoKill ==
  /\ inbox' = IF ~embedded THEN inbox
              ELSE Heard(IF pid = 0 THEN <<Removed>> ELSE <<Removed, Quit>>)
  /\ UNCHANGED proc

\* The child goes with the widget: it is asked to, if embedded, else killed.
Unrealize ==
  IF pid # 0 /\ ~embedded
  THEN Kill
  ELSE /\ inbox' = IF ~embedded THEN inbox
                   ELSE Heard(IF pid = 0 THEN <<Removed>>
                              ELSE <<Removed, Quit>>)
       /\ UNCHANGED proc

\* Mutant: finalize leaves the respawn timer behind.
RemovePluginKeepsTimer ==
  IF locked
  THEN UNCHANGED <<exists, realized, watch, sources, queue, timer, infoIdle,
                   reentered, proc, inbox>>
  ELSE /\ exists' = FALSE
       /\ realized' = FALSE
       /\ Unrealize
       /\ sources' = sources \ {watch}
       /\ watch' = 0
       /\ queue' = <<>>
       /\ infoIdle' = FALSE
       /\ reentered' = (reentered \/ asking # <<>>)
       /\ UNCHANGED timer

\* Nobody may remove a plug-in from a locked panel.  Else the widget is
\* finalized, and no longer hears the bus.
RemovePlugin ==
  IF locked
  THEN UNCHANGED <<exists, realized, watch, sources, queue, timer, infoIdle,
                   reentered, proc, inbox>>
  ELSE /\ exists' = FALSE
       /\ realized' = FALSE
       /\ Unrealize
       /\ timer' = FALSE
       /\ sources' = sources \ {watch}
       /\ watch' = 0
       /\ queue' = <<>>
       /\ infoIdle' = FALSE
       /\ reentered' = (reentered \/ asking # <<>>)

\* The user removes the plug-in in the panel's preferences.
UserRemove ==
  /\ Ready /\ realized /\ asking = <<>>
  /\ RemovePlugin
  /\ bus' = IF exists' THEN bus ELSE <<>>
  /\ UNCHANGED <<locked, pid, embedded, embedder, recent, asking, idle, info,
                 moves, born, applied>>

RemoveIdle ==
  /\ exists /\ idle
  /\ idle' = FALSE
  /\ RemovePlugin
  /\ bus' = IF exists' THEN bus ELSE <<>>
  /\ UNCHANGED <<locked, pid, embedded, embedder, recent, asking, info, moves,
                 born, applied>>

\* The signal Embedded: the queue goes out, unless one was embedded already.
ProxyEmbedded(p) ==
  /\ bus' = Tail(bus)
  /\ embedded' = TRUE
  /\ embedder' = IF embedded THEN embedder ELSE p
  /\ IF embedded THEN UNCHANGED <<queue, inbox>>
     ELSE inbox' = Heard(queue) /\ queue' = <<>>
  /\ UNCHANGED <<exists, realized, watch, sources, timer, infoIdle, reentered,
                 proc>>

\* The method ProviderSignal, with REMOVE_PLUGIN.
ProviderSignal ==
  /\ RemovePlugin
  /\ bus' = IF exists' THEN Tail(bus) ELSE <<>>
  /\ UNCHANGED <<embedded, embedder>>

\* The panel dispatches the next message.
Deliver ==
  /\ Ready /\ bus # <<>>
  /\ IF Head(bus).k = "embedded" THEN ProxyEmbedded(Head(bus).from)
     ELSE ProviderSignal
  /\ UNCHANGED <<locked, pid, recent, asking, idle, info, moves, born, applied>>

\* Mutant: the respawn does not wait for the old child to be gone.
RespawnAnyway ==
  /\ Ready /\ timer /\ realized /\ ~embedded
  /\ queue' = ProviderInfo
  /\ ChildSpawn
  /\ timer' = FALSE
  /\ UNCHANGED <<exists, realized, locked, embedded, embedder, recent, asking,
                 idle, infoIdle, info, moves, inbox, applied, bus>>

\* Mutant: the new child gets what has gathered in the queue.
RespawnUntold ==
  /\ Ready /\ timer /\ realized /\ ~embedded /\ pid = 0
  /\ ChildSpawn
  /\ timer' = FALSE
  /\ UNCHANGED <<exists, realized, locked, embedded, embedder, queue, recent,
                 asking, idle, infoIdle, info, moves, inbox, applied, bus>>

\* The respawn timer: it waits as long as there is a child.
Respawn ==
  /\ Ready /\ timer
  /\ \/ /\ ~realized
        /\ NotSpawned
        /\ UNCHANGED queue
     \/ /\ realized /\ ~embedded /\ pid = 0
        /\ queue' = ProviderInfo
        /\ ChildSpawn
  /\ timer' = FALSE
  /\ UNCHANGED <<exists, realized, locked, embedded, embedder, recent, asking,
                 idle, infoIdle, info, moves, inbox, applied, bus>>

\* A child that ended so is not spawned again.  (That a child asks to be spawned
\* again, by SUCCESS_AND_RESTART or SIGUSR1, does not happen: nothing calls
\* panel_plugin_external_restart.)
NoRestart(p) ==
  /\ proc[p] = "success" \/ (proc[p] = "fault" /\ ~realized)
  /\ watch' = 0
  /\ UNCHANGED <<timer, recent, asking, idle>>

\* A child that cannot work: its plug-in leaves the panel.
Refused(p) ==
  /\ proc[p] = "refused"
  /\ watch' = 0
  /\ idle' = TRUE
  /\ UNCHANGED <<timer, recent, asking>>

\* The first fault in a minute is repaired silently.
RestartSilently(p) ==
  /\ proc[p] = "fault" /\ realized /\ ~recent
  /\ watch' = 0
  /\ recent' = TRUE
  /\ timer' = TRUE
  /\ UNCHANGED <<asking, idle>>

\* Mutant: the dialog is about priv->pid, which was reset.
AskNobody(p) ==
  /\ proc[p] = "fault" /\ realized /\ recent
  /\ asking' = Append(asking, pid')
  /\ UNCHANGED <<watch, timer, recent, idle>>

\* At the next one the panel asks, in a main loop inside the child watch.
Ask(p) ==
  /\ proc[p] = "fault" /\ realized /\ recent
  /\ asking' = Append(asking, p)
  /\ UNCHANGED <<watch, timer, recent, idle>>

ChildWatch(p) ==
  /\ Ready /\ p \in sources /\ proc[p] \in Gone
  /\ sources' = sources \ {p}
  /\ pid' = 0
  /\ embedded' = FALSE /\ embedder' = 0
  /\ NoRestart(p) \/ Refused(p) \/ RestartSilently(p) \/ Ask(p)
  /\ UNCHANGED <<exists, realized, locked, queue, infoIdle, info, moves, born,
                 reentered, proc, inbox, applied, bus>>

\* "Execute".  watch_id is reset when the child watch returns.
AnswerExecute ==
  /\ Ready /\ asking # <<>>
  /\ asking' = SubSeq(asking, 1, Len(asking) - 1)
  /\ recent' = TRUE
  /\ timer' = TRUE
  /\ watch' = 0
  /\ UNCHANGED <<exists, realized, locked, pid, sources, embedded, embedder,
                 queue, idle, infoIdle, info, moves, born, reentered, proc,
                 inbox, applied, bus>>

\* "Remove".  The watch it removes is the one that watch_id names by now.
AnswerRemove ==
  /\ Ready /\ asking # <<>>
  /\ asking' = SubSeq(asking, 1, Len(asking) - 1)
  /\ sources' = sources \ {watch}
  /\ watch' = 0
  /\ idle' = TRUE
  /\ UNCHANGED <<exists, realized, locked, pid, embedded, embedder, queue,
                 timer, recent, infoIdle, info, moves, born, reentered, proc,
                 inbox, applied, bus>>

\* restart_timer passes PANEL_PLUGIN_AUTO_RESTART.
Elapse ==
  /\ exists /\ recent
  /\ recent' = FALSE
  /\ UNCHANGED <<exists, realized, locked, pid, watch, sources, embedded,
                 embedder, queue, timer, asking, idle, infoIdle, info, moves,
                 born, reentered, proc, inbox, applied, bus>>
----------------------------------------------------------------------------
(***************************************************************************)
(* A wrapper process.                                                      *)
(***************************************************************************)
\* It makes its proxy of the panel, and hears the panel's signals.
Connect(p) ==
  /\ proc[p] = "born"
  /\ proc' = [proc EXCEPT ![p] = "connected"]
  /\ UNCHANGED <<widgetVars, info, moves, born, reentered, inbox, applied, bus>>

\* It shows its plug, and enters its main loop.
Plug(p) ==
  /\ proc[p] = "connected"
  /\ proc' = [proc EXCEPT ![p] = "running"]
  /\ bus' = IF exists THEN Append(bus, [k |-> "embedded", from |-> p]) ELSE bus
  /\ UNCHANGED <<widgetVars, info, moves, born, reentered, inbox, applied>>

\* The preinit function says no, or there is no provider in the module.
Refuse(p) ==
  /\ proc[p] \in {"born", "connected"}
  /\ Ends(p, "refused")
  /\ UNCHANGED <<widgetVars, info, moves, born, reentered, applied, bus>>

\* One item of a Set signal.
GproxySet(p) ==
  /\ proc[p] = "running" /\ inbox[p] # <<>>
  /\ IF Head(inbox[p]).k = "quit"
     THEN Ends(p, "success") /\ bus' \in Flushed(p) /\ UNCHANGED applied
     ELSE /\ inbox' = [inbox EXCEPT ![p] = Tail(inbox[p])]
          /\ applied' = IF Head(inbox[p]).k = "info"
                        THEN [applied EXCEPT ![p] = Head(inbox[p]).v]
                        ELSE applied
          /\ UNCHANGED <<proc, bus>>
  /\ UNCHANGED <<widgetVars, info, moves, born, reentered>>

\* The user chooses "Remove" in the menu of the plug-in.
MenuRemove(p) ==
  /\ exists /\ proc[p] = "running"
  /\ \A i \in DOMAIN bus : bus[i] # [k |-> "remove", from |-> p]
  /\ bus' = Append(bus, [k |-> "remove", from |-> p])
  /\ UNCHANGED <<widgetVars, info, moves, born, reentered, proc, inbox, applied>>

\* It fails: a signal, an error while it starts, its plug or its name lost.
Fail(p) ==
  /\ Alive(p)
  /\ Ends(p, "fault")
  /\ bus' \in Flushed(p)
  /\ UNCHANGED <<widgetVars, info, moves, born, reentered, applied>>
----------------------------------------------------------------------------
Panel == Insert \/ Show \/ SetAllProviderInfo \/ SetInfo \/ Move \/ UserRemove
           \/ RemoveIdle \/ Deliver \/ Respawn \/ AnswerExecute
           \/ AnswerRemove \/ Elapse

Child(p) == ChildWatch(p) \/ Connect(p) \/ Plug(p) \/ Refuse(p)
              \/ GproxySet(p) \/ MenuRemove(p) \/ Fail(p)

Next == Panel \/ \E p \in Pids : Child(p)

\* Main loops dispatch what is ready.  Users, faults and time owe nothing,
\* and a process may hang while it starts.
Fairness ==
  /\ WF_vars(SetAllProviderInfo) /\ WF_vars(RemoveIdle)
  /\ WF_vars(Deliver) /\ WF_vars(Respawn)
  /\ \A p \in Pids : WF_vars(ChildWatch(p)) /\ WF_vars(GproxySet(p))

Spec == Init /\ [][Next]_vars /\ Fairness
----------------------------------------------------------------------------
(***************************************************************************)
(* What the widget promises.                                               *)
(***************************************************************************)
\* However the moves, faults, dialogs and timers interleave, the plug-in has
\* at most one process, and as long as the widget exists it is the one that
\* pid names: child_respawn and realize spawn only when pid is 0, and only a
\* child watch makes it so.
OneChild == \A p \in Pids : Alive(p) => p = pid

\* The end of the child will be noticed, and finalize knows the watch that it
\* has to remove.  This fails once a child is spawned inside a dialog: when
\* the outer child watch returns, its destroy notify resets watch_id, which is
\* by then the new child's, and the answer "Remove" even drops its watch.
Watched ==
  exists /\ pid # 0 /\ ~reentered => sources = {pid} /\ watch = pid

\* After finalize no timer, idle call, child watch or open dialog will come
\* back to the widget, whose memory is gone: nothing holds a reference.  The
\* exception is again what ran inside a dialog: a removal (a child's last
\* message may be REMOVE_PLUGIN), or a child spawned by the timer.
NothingOutlives ==
  ~exists /\ ~reentered =>
    ~timer /\ ~idle /\ asking = <<>> /\ sources = {}

\* The panel takes an old child's Embedded for that of the next one: the
\* signal arrived after the child watch had dealt with its sender.
Ghost == embedded /\ embedder # pid

\* What process p will know when it has read its messages.
Knows(p) == IF inbox[p] = <<>> THEN applied[p] ELSE inbox[p][Len(inbox[p])].v

Leaving(p) == \E i \in DOMAIN inbox[p] : inbox[p][i] = Quit

\* A child that is embedded knows the panel's properties, or will from what is
\* on its way, although changes made while there was no child, or a dying one,
\* went to a queue that is freed or to nobody.
InfoReaches ==
  exists /\ embedded /\ ~Ghost /\ proc[pid] = "running" /\ ~Leaving(pid)
    /\ ~infoIdle
  => Knows(pid) = info

\* A process never goes back to older properties of the panel: the queue goes
\* out in the order it was filled, and before what follows it.
InfoInOrder ==
  [][\A p \in Pids : applied[p] <= applied'[p]]_applied

\* It has ended, or reads its way to the item that ends it.
Departing(p) == proc[p] \in Gone \/ (proc[p] = "running" /\ Leaving(p))

\* Nobody waits for a child that was not told to go: while a respawn is due,
\* the child that is in its way has ended, by a signal maybe, or the Quit that
\* unrealize queued is on its way to it; so it is for every process that is
\* left when the widget is gone.  With the exceptions below, of a Ghost and of
\* what was spawned inside a dialog.
ChildrenDepart ==
  /\ exists /\ timer /\ pid # 0 /\ ~Ghost /\ ~reentered => Departing(pid)
  /\ ~exists /\ ~Ghost => \A p \in Pids : Alive(p) => Departing(p)

\* A respawn that is due comes to pass, or fails to spawn, for the old child
\* ends.  It may wait for ever behind a Ghost: child_respawn sees a child that
\* is embedded, and no child will end.  So it may behind a healthy child that
\* was spawned inside a dialog.
RespawnEnds == timer ~> (~timer \/ Ghost \/ reentered)

\* When the plug-in has left the panel its process ends too; a Ghost makes
\* the panel send Quit to a process that may not listen yet.
OrphansLeave == ~exists ~> (Ghost \/ \A p \in Pids : ~Alive(p))
=============================================================================
