-------------------------- MODULE PanelPlugin_proofs --------------------------
(***************************************************************************)
(* PanelPlugin for any bounds: types; the widget has one process, knows    *)
(* it, leaves nothing behind, and tells it of all changes in their order.  *)
(***************************************************************************)
EXTENDS PanelPlugin, TLAPS

\* A child watch is never about another process than the one in pid: a child
\* is spawned when there is none, and pid is reset by its watch only.
Single == sources \subseteq {pid}

\* While a dialog asks, and nothing was spawned behind it, there is no child.
AskedWithoutChild == exists /\ ~reentered /\ asking # <<>> => pid = 0

IInv ==
  TypeOK /\ OneChild /\ Single /\ Watched /\ AskedWithoutChild
    /\ NothingOutlives

USE BoundsAssumption DEF Pids
----------------------------------------------------------------------------
(***************************************************************************)
(* Types of what the handlers share.                                       *)
(***************************************************************************)
LEMMA ProviderInfoTyped ==
  ASSUME TypeOK PROVE ProviderInfo \in Seq(Items)
<1>1. Item("info", info) \in Items
  BY DEF TypeOK, Item, Items
<1> QED BY <1>1 DEF ProviderInfo

\* The type invariant in two halves: flags and numbers, and the rest.
ScalarsOK ==
  /\ exists \in BOOLEAN /\ realized \in BOOLEAN /\ locked \in BOOLEAN
  /\ pid \in {0} \cup Pids /\ watch \in {0} \cup Pids
  /\ embedder \in {0} \cup Pids
  /\ embedded \in BOOLEAN /\ timer \in BOOLEAN /\ recent \in BOOLEAN
  /\ idle \in BOOLEAN /\ infoIdle \in BOOLEAN /\ reentered \in BOOLEAN
  /\ info \in 1 .. MaxInfo /\ moves \in 0 .. MaxMoves
  /\ born \in 0 .. MaxSpawns

QueuesOK ==
  /\ sources \subseteq Pids
  /\ queue \in Seq(Items)
  /\ asking \in Seq(Pids)
  /\ proc \in [Pids -> Living \cup Gone \cup {"unborn"}]
  /\ inbox \in [Pids -> Seq(Items)]
  /\ applied \in [Pids -> Nat]
  /\ bus \in Seq(Messages)

LEMMA HeardTyped ==
  ASSUME TypeOK, NEW items \in Seq(Items)
  PROVE  Heard(items) \in [Pids -> Seq(Items)]
<1> SUFFICES ASSUME NEW p \in Pids
             PROVE  (IF proc[p] \in {"connected", "running"}
                     THEN inbox[p] \o items ELSE inbox[p]) \in Seq(Items)
  BY DEF Heard
<1>1. inbox[p] \in Seq(Items)
  BY DEF TypeOK
<1>2. inbox[p] \o items \in Seq(Items)
  BY <1>1
<1> QED BY <1>1, <1>2

LEMMA EnqueueTyped ==
  ASSUME TypeOK, NEW items \in Seq(Items), Enqueue(items)
  PROVE  inbox' \in [Pids -> Seq(Items)] /\ queue' \in Seq(Items)
<1>1. queue \o items \in Seq(Items)
  BY DEF TypeOK
<1>2. Heard(queue \o items) \in [Pids -> Seq(Items)]
  BY <1>1, HeardTyped
<1>3. CASE embedded
  <2>1. inbox' = Heard(queue \o items) /\ queue' = <<>>
    BY <1>3 DEF Enqueue
  <2> QED BY <2>1, <1>2
<1>4. CASE ~embedded
  <2>1. queue' = queue \o items /\ inbox' = inbox
    BY <1>4 DEF Enqueue
  <2> QED BY <2>1, <1>1 DEF TypeOK
<1> QED BY <1>3, <1>4

LEMMA FlushedTyped ==
  ASSUME TypeOK, NEW p, NEW s \in Flushed(p)
  PROVE  s \in Seq(Messages)
<1>1. PICK n \in 0 .. Len(bus) : s = SubSeq(bus, 1, n)
  BY DEF Flushed
<1>2. bus \in Seq(Messages)
  BY DEF TypeOK
<1> QED BY <1>1, <1>2

LEMMA EndsTyped ==
  ASSUME TypeOK, NEW p \in Pids, NEW how \in Gone, Ends(p, how)
  PROVE  /\ proc' \in [Pids -> Living \cup Gone \cup {"unborn"}]
         /\ inbox' \in [Pids -> Seq(Items)]
BY DEF TypeOK, Ends

\* A process that ends makes nobody else alive.
LEMMA EndsSole ==
  ASSUME TypeOK, OneChild, NEW p \in Pids, NEW how \in Gone, Ends(p, how)
  PROVE  \A q \in Pids : proc'[q] \in Living => q = pid
BY DEF TypeOK, OneChild, Alive, Ends, Gone, Living

LEMMA KillTyped ==
  ASSUME TypeOK, OneChild, pid # 0, Kill
  PROVE  /\ proc' \in [Pids -> Living \cup Gone \cup {"unborn"}]
         /\ inbox' \in [Pids -> Seq(Items)]
         /\ \A q \in Pids : proc'[q] \in Living => q = pid
<1>1. pid \in Pids
  BY DEF TypeOK
<1>2. CASE Alive(pid)
  <2>1. Ends(pid, "fault") /\ "fault" \in Gone
    BY <1>2 DEF Kill, Gone
  <2> QED BY <1>1, <2>1, EndsTyped, EndsSole
<1>3. CASE ~Alive(pid)
  BY <1>3 DEF Kill, TypeOK, OneChild, Alive
<1> QED BY <1>2, <1>3
----------------------------------------------------------------------------
(***************************************************************************)
(* The invariant without types and without NothingOutlives: what a step    *)
(* does to the child and to its watch.                                     *)
(***************************************************************************)
ChildInv == OneChild /\ Single /\ Watched /\ AskedWithoutChild

ChildTypeOK ==
  /\ pid \in {0} \cup Pids /\ watch \in {0} \cup Pids
  /\ sources \subseteq Pids
  /\ born \in 0 .. MaxSpawns
  /\ reentered \in BOOLEAN
  /\ proc \in [Pids -> Living \cup Gone \cup {"unborn"}]

\* A child is spawned when there is none.
LEMMA ChildSpawnInv ==
  ASSUME TypeOK, ChildInv, pid = 0, ChildSpawn,
         UNCHANGED <<exists, asking>>
  PROVE  ChildTypeOK' /\ ChildInv'
<1>1. CASE NotSpawned
  BY <1>1 DEF NotSpawned, TypeOK, ChildTypeOK, ChildInv, OneChild, Single,
              Watched, AskedWithoutChild, Alive
<1>2. CASE Spawned
  <2>1. born + 1 \in Pids /\ born + 1 # 0
    BY <1>2 DEF Spawned, TypeOK
  <2>2. /\ pid' = born + 1 /\ watch' = born + 1 /\ born' = born + 1
        /\ sources' = sources \cup {born + 1}
        /\ proc' = [proc EXCEPT ![born + 1] = "born"]
        /\ reentered' = (reentered \/ asking # <<>>)
    BY <1>2 DEF Spawned
  <2>3. sources = {}
    BY DEF ChildInv, Single, TypeOK
  <2>4. \A p \in Pids : proc[p] \notin Living
    BY DEF ChildInv, OneChild, Alive
  <2>5. ChildTypeOK'
    <3>1. reentered' \in BOOLEAN
      BY <2>2, Zenon DEF TypeOK
    <3>2. proc' \in [Pids -> Living \cup Gone \cup {"unborn"}]
      BY <2>1, <2>2 DEF TypeOK, Living
    <3>3. pid' \in {0} \cup Pids /\ watch' \in {0} \cup Pids
      BY <2>1, <2>2
    <3>4. sources' \subseteq Pids
      BY <2>1, <2>2 DEF TypeOK
    <3>5. born' \in 0 .. MaxSpawns
      BY <2>1, <2>2 DEF TypeOK
    <3> QED BY <3>1, <3>2, <3>3, <3>4, <3>5 DEF ChildTypeOK
  <2>6. OneChild'
    BY <2>1, <2>2, <2>4 DEF TypeOK, OneChild, Alive
  <2>7. Single' /\ Watched'
    BY <2>2, <2>3 DEF Single, Watched
  <2>8. AskedWithoutChild'
    BY <2>2 DEF AskedWithoutChild
  <2> QED BY <2>5, <2>6, <2>7, <2>8 DEF ChildInv
<1> QED BY <1>1, <1>2 DEF ChildSpawn

\* Steps that leave the watches and pid alone, and bring nobody to life.
LEMMA ChildKept ==
  ASSUME TypeOK, ChildInv,
         \A q \in Pids : proc'[q] \in Living => q = pid,
         UNCHANGED <<exists, pid, watch, sources, asking, reentered>>
  PROVE  ChildInv'
BY DEF ChildInv, OneChild, Single, Watched, AskedWithoutChild, Alive

\* A removal, whichever of the four ways to it was taken.
LEMMA RemovePluginInv ==
  ASSUME TypeOK, ChildInv, exists, RemovePlugin, UNCHANGED <<pid, asking>>
  PROVE  /\ exists' \in BOOLEAN /\ realized' \in BOOLEAN
         /\ watch' \in {0} \cup Pids /\ sources' \subseteq Pids
         /\ queue' \in Seq(Items)
         /\ timer' \in BOOLEAN /\ infoIdle' \in BOOLEAN
         /\ reentered' \in BOOLEAN
         /\ proc' \in [Pids -> Living \cup Gone \cup {"unborn"}]
         /\ inbox' \in [Pids -> Seq(Items)]
         /\ ChildInv'
         /\ ~exists' /\ ~reentered' =>
              ~timer' /\ asking' = <<>> /\ sources' = {}
<1>1. CASE locked
  <2>1. UNCHANGED <<exists, realized, watch, sources, queue, timer, infoIdle,
                    reentered, proc, inbox>>
    BY <1>1 DEF RemovePlugin
  <2>2. \A q \in Pids : proc'[q] \in Living => q = pid
    BY <2>1 DEF ChildInv, OneChild, Alive
  <2>3. ChildInv'
    BY <2>1, <2>2, ChildKept
  <2> QED BY <2>1, <2>3 DEF TypeOK
<1>2. CASE ~locked
  <2>1. /\ exists' = FALSE /\ realized' = FALSE /\ timer' = FALSE
        /\ sources' = sources \ {watch} /\ watch' = 0 /\ queue' = <<>>
        /\ infoIdle' = FALSE /\ reentered' = (reentered \/ asking # <<>>)
        /\ Unrealize
    BY <1>2 DEF RemovePlugin
  <2>2. /\ proc' \in [Pids -> Living \cup Gone \cup {"unborn"}]
        /\ inbox' \in [Pids -> Seq(Items)]
        /\ \A q \in Pids : proc'[q] \in Living => q = pid
    <3>1. CASE pid # 0 /\ ~embedded
      BY <2>1, <3>1, KillTyped DEF Unrealize, ChildInv
    <3>2. CASE ~(pid # 0 /\ ~embedded)
      <4>1. <<Removed>> \in Seq(Items) /\ <<Removed, Quit>> \in Seq(Items)
        BY DEF Removed, Quit, Item, Items
      <4>2. /\ Heard(<<Removed>>) \in [Pids -> Seq(Items)]
            /\ Heard(<<Removed, Quit>>) \in [Pids -> Seq(Items)]
        BY <4>1, HeardTyped
      <4>3. proc' = proc
        BY <2>1, <3>2 DEF Unrealize
      <4>4. inbox' \in {inbox, Heard(<<Removed>>), Heard(<<Removed, Quit>>)}
        BY <2>1, <3>2 DEF Unrealize
      <4> QED BY <4>2, <4>3, <4>4 DEF TypeOK, ChildInv, OneChild, Alive
    <3> QED BY <3>1, <3>2
  <2>3. ChildInv'
    BY <2>1, <2>2 DEF ChildInv, OneChild, Single, Watched, AskedWithoutChild,
                      Alive
  <2>4. ~reentered' => asking' = <<>> /\ sources' = {}
    <3> SUFFICES ASSUME ~reentered' PROVE asking' = <<>> /\ sources' = {}
      OBVIOUS
    <3>1. ~reentered /\ asking = <<>>
      BY <2>1
    <3>2. CASE pid = 0
      <4>1. sources = {}
        BY <3>2 DEF ChildInv, Single, TypeOK
      <4> QED BY <2>1, <3>1, <4>1
    <3>3. CASE pid # 0
      <4>1. sources = {pid} /\ watch = pid
        BY <3>1, <3>3 DEF ChildInv, Watched
      <4> QED BY <2>1, <3>1, <4>1
    <3> QED BY <3>2, <3>3
  <2>5. /\ watch' \in {0} \cup Pids /\ sources' \subseteq Pids
        /\ reentered' \in BOOLEAN
    BY <2>1 DEF TypeOK
  <2>6. queue' \in Seq(Items)
    BY <2>1
  <2> QED BY <2>1, <2>2, <2>3, <2>4, <2>5, <2>6
<1> QED BY <1>1, <1>2
----------------------------------------------------------------------------
(***************************************************************************)
(* The steps.                                                              *)
(***************************************************************************)
LEMMA InitInv == Init => IInv
<1> SUFFICES ASSUME Init PROVE IInv
  OBVIOUS
<1>1. TypeOK
  <2>1. /\ exists \in BOOLEAN /\ realized \in BOOLEAN /\ locked \in BOOLEAN
        /\ embedded \in BOOLEAN /\ timer \in BOOLEAN /\ recent \in BOOLEAN
        /\ idle \in BOOLEAN /\ infoIdle \in BOOLEAN /\ reentered \in BOOLEAN
    BY Zenon DEF Init
  <2>2. /\ pid \in {0} \cup Pids /\ watch \in {0} \cup Pids
        /\ embedder \in {0} \cup Pids /\ sources \subseteq Pids
        /\ info \in 1 .. MaxInfo /\ moves \in 0 .. MaxMoves
        /\ born \in 0 .. MaxSpawns
    BY DEF Init
  <2>3. /\ queue \in Seq(Items) /\ asking \in Seq(Pids)
        /\ bus \in Seq(Messages)
    BY DEF Init
  <2>4. /\ proc \in [Pids -> Living \cup Gone \cup {"unborn"}]
        /\ applied \in [Pids -> Nat]
    BY DEF Init
  <2>5. inbox \in [Pids -> Seq(Items)]
    <3>1. <<>> \in Seq(Items)
      OBVIOUS
    <3> QED BY <3>1 DEF Init
  <2> QED BY <2>1, <2>2, <2>3, <2>4, <2>5 DEF TypeOK
<1>2. \A p \in Pids : ~Alive(p)
  BY DEF Init, Alive, Living
<1>3. Single /\ Watched /\ AskedWithoutChild /\ NothingOutlives
  BY DEF Init, Single, Watched, AskedWithoutChild, NothingOutlives
<1> QED BY <1>1, <1>2, <1>3 DEF IInv, OneChild

\* What of the invariant a step has to show that leaves the child, its watch
\* and the dialogs alone.
LEMMA QuietInv ==
  ASSUME IInv, TypeOK', exists,
         \A q \in Pids : proc'[q] \in Living => q = pid,
         UNCHANGED <<exists, pid, watch, sources, asking, reentered>>
  PROVE  IInv'
<1>1. ChildInv'
  BY ChildKept DEF IInv, ChildInv
<1>2. NothingOutlives'
  BY DEF NothingOutlives
<1> QED BY <1>1, <1>2 DEF IInv, ChildInv

\* Nothing is spawned or ends.
LEMMA SameProcesses ==
  ASSUME IInv, UNCHANGED <<proc, pid>>
  PROVE  \A q \in Pids : proc'[q] \in Living => q = pid
BY DEF IInv, OneChild, Alive

LEMMA InsertInv == ASSUME IInv, Insert PROVE IInv'
<1>1. /\ ChildTypeOK' /\ ChildInv'
  <2>1. /\ pid = 0 /\ ChildSpawn /\ UNCHANGED <<exists, asking>>
    BY DEF Insert
  <2> QED BY <2>1, ChildSpawnInv DEF IInv, ChildInv
<1>2. TypeOK'
  <2>1. queue' \in Seq(Items)
    BY ProviderInfoTyped DEF Insert, IInv
  <2> QED BY <1>1, <2>1 DEF Insert, IInv, TypeOK, ChildTypeOK
<1>3. NothingOutlives'
  BY DEF Insert, Ready, NothingOutlives
<1> QED BY <1>1, <1>2, <1>3 DEF IInv, ChildInv

LEMMA ShowInv == ASSUME IInv, Show PROVE IInv'
<1>1. /\ ChildTypeOK' /\ ChildInv'
  <2>1. /\ pid = 0 /\ ChildSpawn /\ UNCHANGED <<exists, asking>>
    BY DEF Show
  <2> QED BY <2>1, ChildSpawnInv DEF IInv, ChildInv
<1>2. TypeOK'
  BY <1>1 DEF Show, IInv, TypeOK, ChildTypeOK
<1>3. NothingOutlives'
  BY DEF Show, Ready, NothingOutlives
<1> QED BY <1>1, <1>2, <1>3 DEF IInv, ChildInv

LEMMA SetAllProviderInfoInv == ASSUME IInv, SetAllProviderInfo PROVE IInv'
<1>1. inbox' \in [Pids -> Seq(Items)] /\ queue' \in Seq(Items)
  BY ProviderInfoTyped, EnqueueTyped DEF SetAllProviderInfo, IInv
<1>2. TypeOK'
  <2>1. ScalarsOK'
    <3>1. /\ infoIdle' \in BOOLEAN
          /\ UNCHANGED <<exists, realized, locked, pid, watch, embedded, embedder,
                         timer, recent, idle, info, moves, born, reentered>>
      BY DEF SetAllProviderInfo
    <3>2. ScalarsOK
      BY DEF IInv, TypeOK, ScalarsOK
    <3> QED BY <3>1, <3>2 DEF ScalarsOK
  <2>2. /\ sources' \subseteq Pids /\ asking' \in Seq(Pids)
        /\ proc' \in [Pids -> Living \cup Gone \cup {"unborn"}]
        /\ applied' \in [Pids -> Nat] /\ bus' \in Seq(Messages)
    <3>1. UNCHANGED <<sources, asking, proc, applied, bus>>
      BY DEF SetAllProviderInfo
    <3> QED BY <3>1 DEF IInv, TypeOK
  <2>3. QueuesOK'
    BY <1>1, <2>2 DEF QueuesOK
  <2> QED BY <2>1, <2>3 DEF TypeOK, ScalarsOK, QueuesOK
<1>3. exists /\ UNCHANGED <<exists, pid, watch, sources, asking, reentered, proc>>
  BY DEF SetAllProviderInfo, Ready
<1> QED BY <1>2, <1>3, SameProcesses, QuietInv

LEMMA SetInfoInv == ASSUME IInv, SetInfo PROVE IInv'
<1>1. <<Item("info", info + 1)>> \in Seq(Items)
  BY DEF IInv, TypeOK, Item, Items
<1>2. inbox' \in [Pids -> Seq(Items)] /\ queue' \in Seq(Items)
  BY <1>1, EnqueueTyped DEF SetInfo, IInv
<1>3. info' \in 1 .. MaxInfo
  BY DEF SetInfo, IInv, TypeOK
<1>4. TypeOK'
  <2>1. ScalarsOK'
    BY <1>3 DEF SetInfo, IInv, TypeOK, ScalarsOK
  <2>2. QueuesOK'
    BY <1>2 DEF SetInfo, IInv, TypeOK, QueuesOK
  <2> QED BY <2>1, <2>2 DEF TypeOK, ScalarsOK, QueuesOK
<1>5. exists /\ UNCHANGED <<exists, pid, watch, sources, asking, reentered, proc>>
  BY DEF SetInfo, Ready
<1> QED BY <1>4, <1>5, SameProcesses, QuietInv

LEMMA MoveInv == ASSUME IInv, Move PROVE IInv'
<1> USE DEF IInv
<1>1. /\ exists /\ moves' \in 0 .. MaxMoves
      /\ UNCHANGED <<exists, realized, locked, embedded, embedder, recent,
                     asking, idle, infoIdle, info, applied>>
  BY DEF Move, Ready, TypeOK
<1>2. NothingOutlives'
  BY <1>1 DEF NothingOutlives
<1>3. CASE MoveWithoutChild
  <2>1. ChildTypeOK' /\ ChildInv'
    BY <1>1, <1>3, ChildSpawnInv DEF MoveWithoutChild, ChildInv
  <2>2. inbox' \in [Pids -> Seq(Items)] /\ queue' \in Seq(Items)
    BY <1>3, ProviderInfoTyped, EnqueueTyped DEF MoveWithoutChild
  <2>3. timer' \in BOOLEAN /\ UNCHANGED bus
    BY <1>3 DEF MoveWithoutChild
  <2>4. TypeOK'
    BY <1>1, <2>1, <2>2, <2>3 DEF TypeOK, ChildTypeOK
  <2> QED BY <1>2, <2>1, <2>4 DEF ChildInv
<1>4. CASE MoveEmbedded
  <2>1. <<Quit>> \o ProviderInfo \in Seq(Items)
    <3>1. <<Quit>> \in Seq(Items)
      BY DEF Quit, Item, Items
    <3> QED BY <3>1, ProviderInfoTyped
  <2>2. inbox' \in [Pids -> Seq(Items)] /\ queue' \in Seq(Items)
    BY <1>4, <2>1, EnqueueTyped DEF MoveEmbedded
  <2>3. /\ timer' \in BOOLEAN
        /\ UNCHANGED <<born, pid, watch, sources, proc, reentered, bus>>
    BY <1>4 DEF MoveEmbedded
  <2>4. TypeOK'
    <3>1. ScalarsOK'
      <4>1. ScalarsOK
        BY DEF TypeOK, ScalarsOK
      <4>2. timer' \in BOOLEAN /\ UNCHANGED <<born, pid, watch, reentered>>
        BY <2>3
      <4> QED BY <1>1, <4>1, <4>2 DEF ScalarsOK
    <3>2. QueuesOK'
      BY <1>1, <2>2, <2>3 DEF TypeOK, QueuesOK
    <3> QED BY <3>1, <3>2 DEF TypeOK, ScalarsOK, QueuesOK
  <2> QED BY <1>1, <2>3, <2>4, SameProcesses, QuietInv
<1>5. CASE MoveStarting
  <2>1. /\ pid # 0 /\ Kill /\ timer' = TRUE /\ queue' = queue \o ProviderInfo
        /\ bus' \in Flushed(pid)
        /\ UNCHANGED <<born, pid, watch, sources, reentered>>
    BY <1>5 DEF MoveStarting
  <2>2. /\ proc' \in [Pids -> Living \cup Gone \cup {"unborn"}]
        /\ inbox' \in [Pids -> Seq(Items)]
        /\ \A q \in Pids : proc'[q] \in Living => q = pid
    BY <2>1, KillTyped
  <2>3. queue' \in Seq(Items)
    BY <2>1, ProviderInfoTyped DEF TypeOK
  <2>4. bus' \in Seq(Messages)
    BY <2>1, FlushedTyped
  <2>5. TypeOK'
    <3>1. ScalarsOK'
      <4>1. ScalarsOK
        BY DEF TypeOK, ScalarsOK
      <4>2. timer' \in BOOLEAN /\ UNCHANGED <<born, pid, watch, reentered>>
        BY <2>1
      <4> QED BY <1>1, <4>1, <4>2 DEF ScalarsOK
    <3>2. sources' \subseteq Pids /\ asking' \in Seq(Pids) /\ applied' \in [Pids -> Nat]
      BY <1>1, <2>1 DEF TypeOK
    <3>3. proc' \in [Pids -> Living \cup Gone \cup {"unborn"}]
          /\ inbox' \in [Pids -> Seq(Items)]
      BY <2>2
    <3>4. QueuesOK'
      BY <2>3, <2>4, <3>2, <3>3, Zenon DEF QueuesOK
    <3> QED BY <3>1, <3>4 DEF TypeOK, ScalarsOK, QueuesOK
  <2> QED BY <1>1, <2>1, <2>2, <2>5, QuietInv
<1> QED BY <1>3, <1>4, <1>5 DEF Move

\* A step that removes the plug-in, and is not in debt of anything else.
LEMMA RemovalInv ==
  ASSUME IInv, exists, RemovePlugin,
         UNCHANGED <<pid, asking, locked, embedded, embedder, recent, info,
                     moves, born, applied>>,
         idle' \in BOOLEAN, ~exists' => ~idle',
         bus' \in Seq(Messages)
  PROVE  IInv'
<1>1. /\ exists' \in BOOLEAN /\ realized' \in BOOLEAN
      /\ watch' \in {0} \cup Pids /\ sources' \subseteq Pids
      /\ queue' \in Seq(Items)
      /\ timer' \in BOOLEAN /\ infoIdle' \in BOOLEAN
      /\ reentered' \in BOOLEAN
      /\ proc' \in [Pids -> Living \cup Gone \cup {"unborn"}]
      /\ inbox' \in [Pids -> Seq(Items)]
      /\ ChildInv'
      /\ ~exists' /\ ~reentered' =>
           ~timer' /\ asking' = <<>> /\ sources' = {}
  BY RemovePluginInv DEF IInv, ChildInv
<1>2. TypeOK'
  BY <1>1 DEF IInv, TypeOK
<1>3. NothingOutlives'
  BY <1>1 DEF NothingOutlives
<1> QED BY <1>1, <1>2, <1>3 DEF IInv, ChildInv

LEMMA UserRemoveInv == ASSUME IInv, UserRemove PROVE IInv'
<1>1. bus' \in Seq(Messages)
  BY DEF UserRemove, IInv, TypeOK
<1>2. idle' \in BOOLEAN /\ ~idle'
  BY DEF UserRemove, Ready, IInv, TypeOK
<1> QED BY <1>1, <1>2, RemovalInv DEF UserRemove, Ready

LEMMA RemoveIdleInv == ASSUME IInv, RemoveIdle PROVE IInv'
<1>1. bus' \in Seq(Messages)
  BY DEF RemoveIdle, IInv, TypeOK
<1>2. idle' \in BOOLEAN /\ ~idle'
  BY DEF RemoveIdle
<1> QED BY <1>1, <1>2, RemovalInv DEF RemoveIdle

LEMMA DeliverInv == ASSUME IInv, Deliver PROVE IInv'
<1>1. /\ exists /\ ~idle /\ bus # <<>>
      /\ UNCHANGED <<locked, pid, recent, asking, idle, info, moves, born,
                     applied>>
  BY DEF Deliver, Ready
<1>2. bus \in Seq(Messages)
  BY DEF IInv, TypeOK
<1>3. Tail(bus) \in Seq(Messages) /\ Head(bus) \in Messages
  BY <1>1, <1>2
<1>4. CASE Head(bus).k = "embedded"
  <2> DEFINE p == Head(bus).from
  <2>1. p \in Pids
    BY <1>3 DEF Messages
  <2>2. ProxyEmbedded(p)
    BY <1>4 DEF Deliver
  <2>3. inbox' \in [Pids -> Seq(Items)] /\ queue' \in Seq(Items)
    <3>1. queue \in Seq(Items) /\ inbox \in [Pids -> Seq(Items)]
      BY DEF IInv, TypeOK
    <3>2. Heard(queue) \in [Pids -> Seq(Items)]
      BY <3>1, HeardTyped DEF IInv
    <3>3. CASE embedded
      <4>1. UNCHANGED <<queue, inbox>>
        BY <2>2, <3>3 DEF ProxyEmbedded
      <4> QED BY <3>1, <4>1
    <3>4. CASE ~embedded
      <4>1. inbox' = Heard(queue) /\ queue' = <<>>
        BY <2>2, <3>4 DEF ProxyEmbedded
      <4> QED BY <3>2, <4>1
    <3> QED BY <3>3, <3>4
  <2>4. embedder' \in {0} \cup Pids
    BY <2>1, <2>2 DEF ProxyEmbedded, IInv, TypeOK
  <2>5. /\ bus' = Tail(bus) /\ embedded' = TRUE
        /\ UNCHANGED <<exists, realized, watch, sources, timer, infoIdle,
                       reentered, proc>>
    BY <2>2 DEF ProxyEmbedded
  <2>6. TypeOK'
    BY <1>1, <1>3, <2>3, <2>4, <2>5 DEF IInv, TypeOK
  <2> QED BY <1>1, <2>5, <2>6, SameProcesses, QuietInv
<1>5. CASE Head(bus).k # "embedded"
  <2>1. /\ RemovePlugin /\ UNCHANGED <<embedded, embedder>>
        /\ bus' = IF exists' THEN Tail(bus) ELSE <<>>
    BY <1>5 DEF Deliver, ProviderSignal
  <2>2. bus' \in Seq(Messages)
    BY <1>3, <2>1
  <2>3. idle' \in BOOLEAN /\ ~idle'
    BY <1>1 DEF IInv, TypeOK
  <2> QED BY <1>1, <2>1, <2>2, <2>3, RemovalInv
<1> QED BY <1>4, <1>5

LEMMA RespawnInv == ASSUME IInv, Respawn PROVE IInv'
<1>1. /\ exists /\ timer' = FALSE
      /\ UNCHANGED <<exists, realized, locked, embedded, embedder, recent,
                     asking, idle, infoIdle, info, moves, inbox, applied, bus>>
  BY DEF Respawn, Ready
<1>2. NothingOutlives'
  BY <1>1 DEF NothingOutlives
<1>3. CASE NotSpawned /\ UNCHANGED queue
  <2>1. UNCHANGED <<born, pid, watch, sources, proc, reentered, queue>>
    BY <1>3 DEF NotSpawned
  <2>2. TypeOK'
    <3>1. ScalarsOK'
      <4>1. ScalarsOK
        BY DEF IInv, TypeOK, ScalarsOK
      <4> QED BY <1>1, <2>1, <4>1 DEF ScalarsOK
    <3>2. QueuesOK'
      BY <1>1, <2>1 DEF IInv, TypeOK, QueuesOK
    <3> QED BY <3>1, <3>2 DEF TypeOK, ScalarsOK, QueuesOK
  <2> QED BY <1>1, <2>1, <2>2, SameProcesses, QuietInv
<1>4. CASE pid = 0 /\ queue' = ProviderInfo /\ ChildSpawn
  <2>1. ChildTypeOK' /\ ChildInv'
    BY <1>1, <1>4, ChildSpawnInv DEF IInv, ChildInv
  <2>2. queue' \in Seq(Items)
    BY <1>4, ProviderInfoTyped DEF IInv
  <2>3. TypeOK'
    BY <1>1, <2>1, <2>2 DEF IInv, TypeOK, ChildTypeOK
  <2> QED BY <1>2, <2>1, <2>3 DEF IInv, ChildInv
<1> QED BY <1>3, <1>4 DEF Respawn

\* The end of the child: its watch is the only one.
LEMMA ChildWatchInv ==
  ASSUME IInv, NEW p \in Pids, ChildWatch(p) PROVE IInv'
<1>1. /\ exists /\ p \in sources /\ proc[p] \in Gone
      /\ sources' = sources \ {p} /\ pid' = 0
      /\ embedded' = FALSE /\ embedder' = 0
      /\ UNCHANGED <<exists, realized, locked, queue, infoIdle, info, moves,
                     born, reentered, proc, inbox, applied, bus>>
  BY DEF ChildWatch, Ready
<1>2. pid = p /\ sources' = {}
  BY <1>1 DEF IInv, Single
<1>3. /\ watch' \in {0, watch} /\ timer' \in {TRUE, timer}
      /\ recent' \in {TRUE, recent} /\ idle' \in {TRUE, idle}
      /\ asking' \in {asking, Append(asking, p)}
  BY DEF ChildWatch, NoRestart, Refused, RestartSilently, Ask
<1>4. TypeOK'
  <2>1. asking' \in Seq(Pids)
    <3>1. asking \in Seq(Pids)
      BY DEF IInv, TypeOK
    <3>2. Append(asking, p) \in Seq(Pids)
      BY <3>1
    <3> QED BY <1>3, <3>1, <3>2
  <2>2. /\ watch' \in {0} \cup Pids /\ sources' \subseteq Pids
        /\ timer' \in BOOLEAN /\ recent' \in BOOLEAN /\ idle' \in BOOLEAN
    BY <1>2, <1>3 DEF IInv, TypeOK
  <2> QED BY <1>1, <2>1, <2>2 DEF IInv, TypeOK
<1>5. OneChild'
  <2>1. proc[p] \notin Living
    BY <1>1 DEF Living, Gone
  <2> QED BY <1>1, <1>2, <2>1 DEF IInv, OneChild, Alive
<1>6. Single' /\ Watched' /\ AskedWithoutChild' /\ NothingOutlives'
  BY <1>1, <1>2 DEF Single, Watched, AskedWithoutChild, NothingOutlives
<1> QED BY <1>4, <1>5, <1>6 DEF IInv

LEMMA AskingTyped ==
  ASSUME TypeOK, asking # <<>>
  PROVE  SubSeq(asking, 1, Len(asking) - 1) \in Seq(Pids)
<1>1. asking \in Seq(Pids)
  BY DEF TypeOK
<1>2. Len(asking) - 1 \in Nat /\ Len(asking) - 1 <= Len(asking)
  BY <1>1
<1>3. \A i \in 1 .. Len(asking) - 1 : asking[i] \in Pids
  BY <1>1, <1>2
<1> QED BY <1>1, <1>2, <1>3

LEMMA AnswerExecuteInv == ASSUME IInv, AnswerExecute PROVE IInv'
<1>1. /\ exists /\ asking # <<>>
      /\ asking' = SubSeq(asking, 1, Len(asking) - 1)
      /\ recent' = TRUE /\ timer' = TRUE /\ watch' = 0
      /\ UNCHANGED <<exists, realized, locked, pid, sources, embedded, embedder,
                     queue, idle, infoIdle, info, moves, born, reentered, proc,
                     inbox, applied, bus>>
  BY DEF AnswerExecute, Ready
<1>2. TypeOK'
  <2>1. asking' \in Seq(Pids)
    BY <1>1, AskingTyped DEF IInv
  <2> QED BY <1>1, <2>1 DEF IInv, TypeOK
<1>3. ~reentered => pid = 0
  BY <1>1 DEF IInv, AskedWithoutChild
<1> QED BY <1>1, <1>2, <1>3
        DEF IInv, OneChild, Alive, Single, Watched, AskedWithoutChild,
            NothingOutlives

LEMMA AnswerRemoveInv == ASSUME IInv, AnswerRemove PROVE IInv'
<1>1. /\ exists /\ asking # <<>>
      /\ asking' = SubSeq(asking, 1, Len(asking) - 1)
      /\ sources' = sources \ {watch} /\ watch' = 0 /\ idle' = TRUE
      /\ UNCHANGED <<exists, realized, locked, pid, embedded, embedder, queue,
                     timer, recent, infoIdle, info, moves, born, reentered,
                     proc, inbox, applied, bus>>
  BY DEF AnswerRemove, Ready
<1>2. TypeOK'
  <2>1. asking' \in Seq(Pids)
    BY <1>1, AskingTyped DEF IInv
  <2>2. sources' \subseteq Pids
    BY <1>1 DEF IInv, TypeOK
  <2>3. ScalarsOK'
    BY <1>1 DEF IInv, TypeOK, ScalarsOK
  <2>4. QueuesOK'
    BY <1>1, <2>1, <2>2 DEF IInv, TypeOK, QueuesOK
  <2> QED BY <2>3, <2>4 DEF TypeOK, ScalarsOK, QueuesOK
<1>3. ~reentered => pid = 0
  BY <1>1 DEF IInv, AskedWithoutChild
<1> QED BY <1>1, <1>2, <1>3
        DEF IInv, OneChild, Alive, Single, Watched, AskedWithoutChild,
            NothingOutlives

LEMMA ElapseInv == ASSUME IInv, Elapse PROVE IInv'
<1>1. TypeOK'
  <2>1. /\ recent' \in BOOLEAN
        /\ UNCHANGED <<exists, realized, locked, pid, watch, embedded, embedder,
                       timer, idle, infoIdle, info, moves, born, reentered>>
        /\ UNCHANGED <<sources, queue, asking, proc, inbox, applied, bus>>
    BY DEF Elapse
  <2>2. ScalarsOK'
    <3>1. ScalarsOK
      BY DEF IInv, TypeOK, ScalarsOK
    <3> QED BY <2>1, <3>1 DEF ScalarsOK
  <2>3. QueuesOK'
    BY <2>1 DEF IInv, TypeOK, QueuesOK
  <2> QED BY <2>2, <2>3 DEF TypeOK, ScalarsOK, QueuesOK
<1>2. exists /\ UNCHANGED <<exists, pid, watch, sources, asking, reentered, proc>>
  BY DEF Elapse
<1> QED BY <1>1, <1>2, SameProcesses, QuietInv

\* What a process does by itself: it brings nobody to life.
LEMMA ProcessInv ==
  ASSUME IInv, UNCHANGED <<widgetVars, info, moves, born, reentered>>,
         proc' \in [Pids -> Living \cup Gone \cup {"unborn"}],
         \A q \in Pids : proc'[q] \in Living => q = pid,
         inbox' \in [Pids -> Seq(Items)],
         applied' \in [Pids -> Nat],
         bus' \in Seq(Messages)
  PROVE  IInv'
<1>1. TypeOK'
  BY DEF IInv, TypeOK, widgetVars
<1>2. ChildInv'
  BY ChildKept DEF IInv, ChildInv, widgetVars
<1>3. NothingOutlives'
  BY DEF IInv, NothingOutlives, widgetVars
<1> QED BY <1>1, <1>2, <1>3 DEF IInv, ChildInv

LEMMA ConnectInv == ASSUME IInv, NEW p \in Pids, Connect(p) PROVE IInv'
<1>1. /\ proc' \in [Pids -> Living \cup Gone \cup {"unborn"}]
      /\ \A q \in Pids : proc'[q] \in Living => q = pid
  BY DEF Connect, IInv, TypeOK, OneChild, Alive, Living
<1> QED BY <1>1, ProcessInv DEF Connect, IInv, TypeOK

LEMMA PlugInv == ASSUME IInv, NEW p \in Pids, Plug(p) PROVE IInv'
<1>1. /\ proc' \in [Pids -> Living \cup Gone \cup {"unborn"}]
      /\ \A q \in Pids : proc'[q] \in Living => q = pid
  BY DEF Plug, IInv, TypeOK, OneChild, Alive, Living
<1>2. bus' \in Seq(Messages)
  <2>1. [k |-> "embedded", from |-> p] \in Messages
    BY DEF Messages
  <2> QED BY <2>1 DEF Plug, IInv, TypeOK
<1> QED BY <1>1, <1>2, ProcessInv DEF Plug, IInv, TypeOK

LEMMA RefuseInv == ASSUME IInv, NEW p \in Pids, Refuse(p) PROVE IInv'
<1>1. "refused" \in Gone /\ Ends(p, "refused")
  BY DEF Refuse, Gone
<1>2. /\ proc' \in [Pids -> Living \cup Gone \cup {"unborn"}]
      /\ inbox' \in [Pids -> Seq(Items)]
      /\ \A q \in Pids : proc'[q] \in Living => q = pid
  BY <1>1, EndsTyped, EndsSole DEF IInv
<1> QED BY <1>2, ProcessInv DEF Refuse, IInv, TypeOK

LEMMA FailInv == ASSUME IInv, NEW p \in Pids, Fail(p) PROVE IInv'
<1>1. "fault" \in Gone /\ Ends(p, "fault")
  BY DEF Fail, Gone
<1>2. /\ proc' \in [Pids -> Living \cup Gone \cup {"unborn"}]
      /\ inbox' \in [Pids -> Seq(Items)]
      /\ \A q \in Pids : proc'[q] \in Living => q = pid
  BY <1>1, EndsTyped, EndsSole DEF IInv
<1>3. bus' \in Seq(Messages)
  BY FlushedTyped DEF Fail, IInv
<1> QED BY <1>2, <1>3, ProcessInv DEF Fail, IInv, TypeOK

LEMMA GproxySetInv == ASSUME IInv, NEW p \in Pids, GproxySet(p) PROVE IInv'
<1>1. inbox[p] \in Seq(Items) /\ inbox[p] # <<>>
  BY DEF GproxySet, IInv, TypeOK
<1>2. Head(inbox[p]) \in Items /\ Tail(inbox[p]) \in Seq(Items)
  BY <1>1
<1>3. UNCHANGED <<widgetVars, info, moves, born, reentered>>
  BY DEF GproxySet
<1>4. CASE Head(inbox[p]).k = "quit"
  <2>1. /\ Ends(p, "success") /\ "success" \in Gone
        /\ bus' \in Flushed(p) /\ UNCHANGED applied
    BY <1>4 DEF GproxySet, Gone
  <2>2. /\ proc' \in [Pids -> Living \cup Gone \cup {"unborn"}]
        /\ inbox' \in [Pids -> Seq(Items)]
        /\ \A q \in Pids : proc'[q] \in Living => q = pid
    BY <2>1, EndsTyped, EndsSole DEF IInv
  <2>3. bus' \in Seq(Messages)
    BY <2>1, FlushedTyped DEF IInv
  <2>4. applied' \in [Pids -> Nat]
    BY <2>1 DEF IInv, TypeOK
  <2> QED BY <1>3, <2>2, <2>3, <2>4, ProcessInv
<1>5. CASE Head(inbox[p]).k # "quit"
  <2>1. /\ inbox' = [inbox EXCEPT ![p] = Tail(inbox[p])]
        /\ applied' = IF Head(inbox[p]).k = "info"
                      THEN [applied EXCEPT ![p] = Head(inbox[p]).v]
                      ELSE applied
        /\ UNCHANGED <<proc, bus>>
    BY <1>5 DEF GproxySet
  <2>2. inbox' \in [Pids -> Seq(Items)]
    BY <1>2, <2>1 DEF IInv, TypeOK
  <2>3. applied' \in [Pids -> Nat]
    <3>1. Head(inbox[p]).v \in Nat
      BY <1>2 DEF Items
    <3> QED BY <2>1, <3>1 DEF IInv, TypeOK
  <2>4. /\ proc' \in [Pids -> Living \cup Gone \cup {"unborn"}]
        /\ bus' \in Seq(Messages)
    BY <2>1 DEF IInv, TypeOK
  <2>5. \A q \in Pids : proc'[q] \in Living => q = pid
    BY <2>1 DEF IInv, OneChild, Alive
  <2> QED BY <1>3, <2>2, <2>3, <2>4, <2>5, ProcessInv
<1> QED BY <1>4, <1>5

LEMMA MenuRemoveInv == ASSUME IInv, NEW p \in Pids, MenuRemove(p) PROVE IInv'
<1>1. bus' \in Seq(Messages)
  <2>1. [k |-> "remove", from |-> p] \in Messages
    BY DEF Messages
  <2> QED BY <2>1 DEF MenuRemove, IInv, TypeOK
<1>2. \A q \in Pids : proc'[q] \in Living => q = pid
  BY DEF MenuRemove, IInv, OneChild, Alive
<1> QED BY <1>1, <1>2, ProcessInv DEF MenuRemove, IInv, TypeOK

LEMMA StutterInv == ASSUME IInv, UNCHANGED vars PROVE IInv'
<1>1. \A q \in Pids : proc'[q] \in Living => q = pid
  BY DEF vars, childVars, IInv, OneChild, Alive
<1>2. /\ UNCHANGED <<widgetVars, info, moves, born, reentered>>
      /\ UNCHANGED <<proc, inbox, applied, bus>>
  BY DEF vars, childVars
<1> QED BY <1>1, <1>2, ProcessInv DEF IInv, TypeOK

LEMMA NextInv == IInv /\ [Next]_vars => IInv'
<1> SUFFICES ASSUME IInv, [Next]_vars PROVE IInv'
  OBVIOUS
<1>1. CASE Panel
  BY <1>1, InsertInv, ShowInv, SetAllProviderInfoInv, SetInfoInv, MoveInv,
     UserRemoveInv, RemoveIdleInv, DeliverInv, RespawnInv, AnswerExecuteInv,
     AnswerRemoveInv, ElapseInv DEF Panel
<1>2. CASE \E p \in Pids : Child(p)
  <2> PICK p \in Pids : Child(p)
    BY <1>2
  <2> QED BY ChildWatchInv, ConnectInv, PlugInv, RefuseInv, GproxySetInv,
             MenuRemoveInv, FailInv DEF Child
<1> QED BY <1>1, <1>2, StutterInv DEF Next
----------------------------------------------------------------------------
(***************************************************************************)
(* What the widget promises, for any number of processes, changes, moves.  *)
(***************************************************************************)
\* IInv is an inductive invariant of the widget and its processes.
THEOREM Inductive == Spec => []IInv
<1> QED BY InitInv, NextInv, PTL DEF Spec

\* The types of the widget's fields, of the queues and of the processes.
THEOREM Types == Spec => []TypeOK
<1>1. IInv => TypeOK
  BY DEF IInv
<1> QED BY <1>1, Inductive, PTL

\* No interleaving of moves, faults, dialogs and timers gives a plug-in two
\* processes, and pid (panel-plugin-external.c, child_respawn) names the one.
THEOREM AtMostOneProcess == Spec => []OneChild
<1>1. IInv => OneChild
  BY DEF IInv
<1> QED BY <1>1, Inductive, PTL

\* Unless something was spawned or removed inside the restart dialog, the end
\* of the child is watched for, and watch_id names the watch.
THEOREM ChildIsWatched == Spec => []Watched
<1>1. IInv => Watched
  BY DEF IInv
<1> QED BY <1>1, Inductive, PTL

\* With the same exception, no timer, idle call, child watch or dialog is left
\* when panel_plugin_external_finalize has freed the widget.
THEOREM FinalizeIsClean == Spec => []NothingOutlives
<1>1. IInv => NothingOutlives
  BY DEF IInv
<1> QED BY <1>1, Inductive, PTL
----------------------------------------------------------------------------
(***************************************************************************)
(* The order in which a process learns the panel's properties.  A process  *)
(* knows the oldest, its inbox holds newer ones, the queue of the panel    *)
(* newer ones still, and each of the two is in order.                      *)
(***************************************************************************)
IsInfo(x) == x.k = "info"

Sorted(s) ==
  \A i, j \in DOMAIN s :
    i <= j /\ IsInfo(s[i]) /\ IsInfo(s[j]) => s[i].v <= s[j].v

Before(s, t) ==
  \A i \in DOMAIN s, j \in DOMAIN t :
    IsInfo(s[i]) /\ IsInfo(t[j]) => s[i].v <= t[j].v

UpTo(s, n) == \A i \in DOMAIN s : IsInfo(s[i]) => s[i].v <= n

From(s, n) == \A i \in DOMAIN s : IsInfo(s[i]) => n <= s[i].v

InOrder ==
  /\ Sorted(queue) /\ UpTo(queue, info)
  /\ \A p \in Pids :
       /\ Sorted(inbox[p]) /\ UpTo(inbox[p], info)
       /\ Before(inbox[p], queue)
       /\ From(inbox[p], applied[p]) /\ From(queue, applied[p])
       /\ applied[p] <= info

LEMMA ConcatAt ==
  ASSUME NEW s \in Seq(Items), NEW t \in Seq(Items), NEW i \in DOMAIN (s \o t)
  PROVE  \/ i \in DOMAIN s /\ (s \o t)[i] = s[i]
         \/ /\ i > Len(s) /\ i - Len(s) \in DOMAIN t
            /\ (s \o t)[i] = t[i - Len(s)]
OBVIOUS

LEMMA ItemValue == ASSUME NEW s \in Seq(Items), NEW i \in DOMAIN s
                   PROVE  s[i].v \in Nat
<1>1. s[i] \in Items
  OBVIOUS
<1> QED BY <1>1 DEF Items

LEMMA ConcatSorted ==
  ASSUME NEW s \in Seq(Items), NEW t \in Seq(Items),
         Sorted(s), Sorted(t), Before(s, t)
  PROVE  Sorted(s \o t)
<1> SUFFICES ASSUME NEW i \in DOMAIN (s \o t), NEW j \in DOMAIN (s \o t),
                    i <= j, IsInfo((s \o t)[i]), IsInfo((s \o t)[j])
             PROVE  (s \o t)[i].v <= (s \o t)[j].v
  BY DEF Sorted
<1>1. CASE i \in DOMAIN s /\ (s \o t)[i] = s[i]
  <2>1. CASE j \in DOMAIN s /\ (s \o t)[j] = s[j]
    BY <1>1, <2>1 DEF Sorted
  <2>2. CASE j - Len(s) \in DOMAIN t /\ (s \o t)[j] = t[j - Len(s)]
    BY <1>1, <2>2 DEF Before
  <2> QED BY <2>1, <2>2, ConcatAt
<1>2. CASE /\ i > Len(s) /\ i - Len(s) \in DOMAIN t
           /\ (s \o t)[i] = t[i - Len(s)]
  <2>1. j > Len(s) /\ i \in Nat /\ j \in Nat /\ Len(s) \in Nat
    BY <1>2
  <2>2. j - Len(s) \in DOMAIN t /\ (s \o t)[j] = t[j - Len(s)]
    BY <2>1, ConcatAt
  <2>3. i - Len(s) <= j - Len(s)
    BY <2>1
  <2> QED BY <1>2, <2>2, <2>3 DEF Sorted
<1> QED BY <1>1, <1>2, ConcatAt

LEMMA ConcatBounds ==
  ASSUME NEW s \in Seq(Items), NEW t \in Seq(Items), NEW n \in Nat
  PROVE  /\ UpTo(s, n) /\ UpTo(t, n) => UpTo(s \o t, n)
         /\ From(s, n) /\ From(t, n) => From(s \o t, n)
BY ConcatAt DEF UpTo, From

LEMMA ConcatBefore ==
  ASSUME NEW r \in Seq(Items), NEW s \in Seq(Items), NEW t \in Seq(Items)
  PROVE  Before(r, s) /\ Before(r, t) => Before(r, s \o t)
BY ConcatAt DEF Before

\* What is below and what is above the panel's properties is in order.
LEMMA BeforeThrough ==
  ASSUME NEW s \in Seq(Items), NEW t \in Seq(Items), NEW n \in Nat,
         UpTo(s, n), From(t, n)
  PROVE  Before(s, t)
<1> SUFFICES ASSUME NEW i \in DOMAIN s, NEW j \in DOMAIN t,
                    IsInfo(s[i]), IsInfo(t[j])
             PROVE  s[i].v <= t[j].v
  BY DEF Before
<1>1. s[i].v \in Nat /\ t[j].v \in Nat
  BY ItemValue
<1>2. s[i].v <= n /\ n <= t[j].v
  BY DEF UpTo, From
<1> QED BY <1>1, <1>2

\* Items that carry nothing but the present properties, or none at all.
Fresh(s, n) == \A i \in DOMAIN s : IsInfo(s[i]) => s[i].v = n

LEMMA FreshOrder ==
  ASSUME NEW s \in Seq(Items), NEW n \in Nat, Fresh(s, n)
  PROVE  Sorted(s) /\ UpTo(s, n) /\ From(s, n)
BY ItemValue DEF Fresh, Sorted, UpTo, From

LEMMA EmptyOrder ==
  /\ Sorted(<<>>)
  /\ \A n : UpTo(<<>>, n) /\ From(<<>>, n)
  /\ \A s : Before(s, <<>>) /\ Before(<<>>, s)
BY DEF Sorted, UpTo, From, Before

\* What the panel may send, when its properties are those of number n.
Sendable(t, n) ==
  /\ t \in Seq(Items) /\ Sorted(t) /\ UpTo(t, n)
  /\ \A p \in Pids : Before(inbox[p], t) /\ From(t, applied[p])

LEMMA UpToMore ==
  ASSUME NEW s \in Seq(Items), NEW n \in Nat, NEW m \in Nat, n <= m, UpTo(s, n)
  PROVE  UpTo(s, m)
BY ItemValue DEF UpTo

LEMMA FromLess ==
  ASSUME NEW s \in Seq(Items), NEW n \in Nat, NEW m \in Nat, n <= m, From(s, m)
  PROVE  From(s, n)
BY ItemValue DEF From

LEMMA QueueSendable == ASSUME TypeOK, InOrder PROVE Sendable(queue, info)
BY DEF TypeOK, InOrder, Sendable

LEMMA FreshSendable ==
  ASSUME TypeOK, InOrder, NEW items \in Seq(Items), NEW n \in Nat, info <= n,
         Fresh(items, n)
  PROVE  Sendable(items, n)
<1>1. Sorted(items) /\ UpTo(items, n) /\ From(items, n)
  BY FreshOrder
<1>2. ASSUME NEW p \in Pids PROVE Before(inbox[p], items) /\ From(items, applied[p])
  <2>1. /\ inbox[p] \in Seq(Items) /\ UpTo(inbox[p], info) /\ info \in Nat
        /\ applied[p] \in Nat /\ applied[p] <= info
    BY DEF TypeOK, InOrder
  <2>2. UpTo(inbox[p], n)
    BY <2>1, UpToMore
  <2>3. applied[p] <= n
    BY <2>1
  <2> QED BY <1>1, <2>1, <2>2, <2>3, BeforeThrough, FromLess
<1> QED BY <1>1, <1>2 DEF Sendable

LEMMA LongerSendable ==
  ASSUME TypeOK, InOrder, NEW items \in Seq(Items), NEW n \in Nat, info <= n,
         Fresh(items, n)
  PROVE  Sendable(queue \o items, n)
<1>1. Sendable(items, n)
  BY FreshSendable
<1>2. /\ queue \in Seq(Items) /\ info \in Nat
      /\ Sorted(queue) /\ UpTo(queue, info) /\ UpTo(queue, n)
  BY UpToMore DEF TypeOK, InOrder
<1>3. Before(queue, items)
  BY <1>2, FreshOrder, BeforeThrough
<1>4. /\ queue \o items \in Seq(Items)
      /\ Sorted(queue \o items) /\ UpTo(queue \o items, n)
  BY <1>1, <1>2, <1>3, ConcatSorted, ConcatBounds DEF Sendable
<1>5. ASSUME NEW p \in Pids
      PROVE  Before(inbox[p], queue \o items) /\ From(queue \o items, applied[p])
  <2>1. /\ inbox[p] \in Seq(Items) /\ applied[p] \in Nat
        /\ Before(inbox[p], queue) /\ From(queue, applied[p])
    BY DEF TypeOK, InOrder
  <2>2. Before(inbox[p], items) /\ From(items, applied[p])
    BY <1>1 DEF Sendable
  <2> QED BY <1>2, <2>1, <2>2, ConcatBefore, ConcatBounds
<1> QED BY <1>4, <1>5 DEF Sendable

\* Every process that listens gets t, and the queue is empty.
LEMMA SendOrder ==
  ASSUME TypeOK, InOrder, NEW t, NEW n \in Nat, info <= n, Sendable(t, n),
         info' = n, inbox' = Heard(t), queue' = <<>>, applied' = applied
  PROVE  InOrder'
<1>1. Sorted(queue') /\ UpTo(queue', info')
  BY EmptyOrder
<1>2. ASSUME NEW p \in Pids
      PROVE  /\ Sorted(inbox'[p]) /\ UpTo(inbox'[p], n)
             /\ Before(inbox'[p], queue')
             /\ From(inbox'[p], applied[p]) /\ From(queue', applied[p])
             /\ applied[p] <= n
  <2>1. /\ inbox[p] \in Seq(Items) /\ info \in Nat /\ applied[p] \in Nat
        /\ Sorted(inbox[p]) /\ UpTo(inbox[p], info)
        /\ From(inbox[p], applied[p]) /\ applied[p] <= info
    BY DEF TypeOK, InOrder
  <2>2. UpTo(inbox[p], n) /\ applied[p] <= n
    BY <2>1, UpToMore
  <2>3. /\ t \in Seq(Items) /\ Sorted(t) /\ UpTo(t, n)
        /\ Before(inbox[p], t) /\ From(t, applied[p])
    BY DEF Sendable
  <2>4. inbox'[p] = inbox[p] \/ inbox'[p] = inbox[p] \o t
    BY DEF Heard
  <2>5. /\ Sorted(inbox[p] \o t) /\ UpTo(inbox[p] \o t, n)
        /\ From(inbox[p] \o t, applied[p])
    BY <2>1, <2>2, <2>3, ConcatSorted, ConcatBounds
  <2> QED BY <2>1, <2>2, <2>4, <2>5, EmptyOrder
<1> QED BY <1>1, <1>2 DEF InOrder

\* The queue becomes t, and some inboxes are gone with their process.
LEMMA QueueOrder ==
  ASSUME TypeOK, InOrder, NEW t, NEW n \in Nat, info <= n, Sendable(t, n),
         info' = n, queue' = t, applied' = applied,
         \A p \in Pids : inbox'[p] = inbox[p] \/ inbox'[p] = <<>>
  PROVE  InOrder'
<1>1. Sorted(queue') /\ UpTo(queue', info')
  BY DEF Sendable
<1>2. ASSUME NEW p \in Pids
      PROVE  /\ Sorted(inbox'[p]) /\ UpTo(inbox'[p], n)
             /\ Before(inbox'[p], queue')
             /\ From(inbox'[p], applied[p]) /\ From(queue', applied[p])
             /\ applied[p] <= n
  <2>1. /\ inbox[p] \in Seq(Items) /\ info \in Nat /\ applied[p] \in Nat
        /\ Sorted(inbox[p]) /\ UpTo(inbox[p], info)
        /\ From(inbox[p], applied[p]) /\ applied[p] <= info
    BY DEF TypeOK, InOrder
  <2>2. UpTo(inbox[p], n) /\ applied[p] <= n
    BY <2>1, UpToMore
  <2>3. Before(inbox[p], t) /\ From(t, applied[p])
    BY DEF Sendable
  <2> QED BY <2>1, <2>2, <2>3, EmptyOrder
<1> QED BY <1>1, <1>2 DEF InOrder

LEMMA EnqueueOrder ==
  ASSUME TypeOK, InOrder, NEW items \in Seq(Items), info' \in Nat,
         info <= info', Fresh(items, info'), Enqueue(items), applied' = applied
  PROVE  InOrder'
<1>1. Sendable(queue \o items, info')
  BY LongerSendable
<1>2. CASE embedded
  <2>1. inbox' = Heard(queue \o items) /\ queue' = <<>>
    BY <1>2 DEF Enqueue
  <2> QED BY <1>1, <2>1, SendOrder
<1>3. CASE ~embedded
  <2>1. queue' = queue \o items /\ inbox' = inbox
    BY <1>3 DEF Enqueue
  <2> QED BY <1>1, <2>1, QueueOrder
<1> QED BY <1>2, <1>3

\* The queue is left as it is, and so are the panel's properties.
LEMMA SameQueueOrder ==
  ASSUME TypeOK, InOrder, UNCHANGED <<info, queue, applied>>,
         \A p \in Pids : inbox'[p] = inbox[p] \/ inbox'[p] = <<>>
  PROVE  InOrder'
<1>1. info \in Nat /\ info <= info
  BY DEF TypeOK
<1> QED BY <1>1, QueueSendable, QueueOrder

LEMMA FreshProviderInfo ==
  ASSUME TypeOK
  PROVE  /\ ProviderInfo \in Seq(Items) /\ Fresh(ProviderInfo, info)
         /\ info \in Nat /\ info <= info
BY ProviderInfoTyped DEF TypeOK, ProviderInfo, Fresh, Item

\* The queue is filled anew.
LEMMA NewQueueOrder ==
  ASSUME TypeOK, InOrder, queue' = ProviderInfo, UNCHANGED <<info, inbox, applied>>
  PROVE  InOrder'
<1>1. Sendable(ProviderInfo, info)
  BY FreshProviderInfo, FreshSendable
<1> QED BY <1>1, FreshProviderInfo, QueueOrder

LEMMA EndsEmpties ==
  ASSUME TypeOK, NEW p \in Pids, NEW how, Ends(p, how)
  PROVE  \A q \in Pids : inbox'[q] = inbox[q] \/ inbox'[q] = <<>>
BY DEF Ends, TypeOK

LEMMA KillEmpties ==
  ASSUME TypeOK, pid # 0, Kill
  PROVE  \A q \in Pids : inbox'[q] = inbox[q] \/ inbox'[q] = <<>>
<1>1. pid \in Pids
  BY DEF TypeOK
<1> QED BY <1>1, EndsEmpties DEF Kill
----------------------------------------------------------------------------
(***************************************************************************)
(* The steps keep the order.                                               *)
(***************************************************************************)
LEMMA InitOrder == Init => InOrder
<1> SUFFICES ASSUME Init PROVE InOrder
  OBVIOUS
<1>1. queue = <<>> /\ info = 1
  BY DEF Init
<1>2. \A p \in Pids : inbox[p] = <<>> /\ applied[p] = 0
  BY DEF Init
<1>3. \A p \in Pids : applied[p] <= info
  BY <1>1, <1>2
<1> QED BY <1>1, <1>2, <1>3, EmptyOrder DEF InOrder

LEMMA MoveOrder == ASSUME TypeOK, InOrder, Move PROVE InOrder'
<1>1. UNCHANGED <<info, applied>> /\ info' \in Nat /\ info <= info'
  BY DEF Move, TypeOK
<1>2. ProviderInfo \in Seq(Items) /\ Fresh(ProviderInfo, info')
  BY <1>1, FreshProviderInfo
<1>3. CASE MoveWithoutChild
  BY <1>1, <1>2, <1>3, EnqueueOrder DEF MoveWithoutChild
<1>4. CASE MoveEmbedded
  <2>1. <<Quit>> \o ProviderInfo \in Seq(Items)
    <3>1. <<Quit>> \in Seq(Items)
      BY DEF Quit, Item, Items
    <3> QED BY <1>2, <3>1
  <2>2. Fresh(<<Quit>> \o ProviderInfo, info')
    BY <1>1 DEF Fresh, IsInfo, Quit, ProviderInfo, Item
  <2> QED BY <1>1, <1>4, <2>1, <2>2, EnqueueOrder DEF MoveEmbedded
<1>5. CASE MoveStarting
  <2>1. pid # 0 /\ Kill /\ queue' = queue \o ProviderInfo
    BY <1>5 DEF MoveStarting
  <2>2. Sendable(queue \o ProviderInfo, info')
    BY <1>1, <1>2, LongerSendable
  <2> QED BY <1>1, <2>1, <2>2, KillEmpties, QueueOrder
<1> QED BY <1>3, <1>4, <1>5 DEF Move

LEMMA RemovePluginOrder ==
  ASSUME TypeOK, InOrder, RemovePlugin, UNCHANGED <<info, applied>>
  PROVE  InOrder'
<1>1. info \in Nat /\ info <= info
  BY DEF TypeOK
<1>2. CASE locked
  BY <1>2, SameQueueOrder DEF RemovePlugin
<1>3. CASE ~locked
  <2>1. queue' = <<>> /\ Unrealize
    BY <1>3 DEF RemovePlugin
  <2>2. Sendable(<<>>, info)
    <3>1. Fresh(<<>>, info) /\ <<>> \in Seq(Items)
      BY DEF Fresh
    <3> QED BY <1>1, <3>1, FreshSendable
  <2>3. CASE pid # 0 /\ ~embedded
    BY <1>1, <2>1, <2>2, <2>3, KillEmpties, QueueOrder DEF Unrealize
  <2>4. CASE ~(pid # 0 /\ ~embedded)
    <3> DEFINE r == <<Removed>>
               q == <<Removed, Quit>>
    <3>1. r \in Seq(Items) /\ q \in Seq(Items)
      BY DEF Removed, Quit, Item, Items
    <3>2. Fresh(r, info) /\ Fresh(q, info)
      BY DEF Fresh, IsInfo, Removed, Quit, Item
    <3>3. Sendable(r, info) /\ Sendable(q, info)
      BY <1>1, <3>1, <3>2, FreshSendable
    <3>4. inbox' \in {inbox, Heard(r), Heard(q)}
      BY <2>1, <2>4 DEF Unrealize
    <3>5. CASE inbox' = inbox
      BY <1>1, <2>1, <2>2, <3>5, QueueOrder
    <3>6. CASE inbox' \in {Heard(r), Heard(q)}
      BY <1>1, <2>1, <3>3, <3>6, SendOrder
    <3> QED BY <3>4, <3>5, <3>6
  <2> QED BY <2>3, <2>4
<1> QED BY <1>2, <1>3

LEMMA DeliverOrder == ASSUME TypeOK, InOrder, Deliver PROVE InOrder'
<1>1. UNCHANGED <<info, applied>> /\ info \in Nat /\ info <= info
  BY DEF Deliver, TypeOK
<1>2. CASE Head(bus).k = "embedded"
  <2>1. ProxyEmbedded(Head(bus).from)
    BY <1>2 DEF Deliver
  <2>2. CASE embedded
    BY <1>1, <2>1, <2>2, SameQueueOrder DEF ProxyEmbedded
  <2>3. CASE ~embedded
    BY <1>1, <2>1, <2>3, QueueSendable, SendOrder DEF ProxyEmbedded
  <2> QED BY <2>2, <2>3
<1>3. CASE Head(bus).k # "embedded"
  BY <1>1, <1>3, RemovePluginOrder DEF Deliver, ProviderSignal
<1> QED BY <1>2, <1>3

\* A process reads the first item of its inbox.
LEMMA GproxySetOrder ==
  ASSUME TypeOK, InOrder, NEW p \in Pids, GproxySet(p)
  PROVE  InOrder' /\ \A q \in Pids : applied[q] <= applied'[q]
<1>1. UNCHANGED <<info, queue>>
  BY DEF GproxySet, widgetVars
<1>2. applied \in [Pids -> Nat] /\ inbox \in [Pids -> Seq(Items)]
  BY DEF TypeOK
<1>3. CASE Head(inbox[p]).k = "quit"
  <2>1. Ends(p, "success") /\ UNCHANGED applied
    BY <1>3 DEF GproxySet
  <2>2. InOrder'
    BY <1>1, <2>1, EndsEmpties, SameQueueOrder
  <2> QED BY <1>2, <2>1, <2>2
<1>4. CASE Head(inbox[p]).k # "quit"
  <2> DEFINE s == inbox[p]
  <2>1. /\ inbox' = [inbox EXCEPT ![p] = Tail(s)]
        /\ applied' = IF Head(s).k = "info"
                      THEN [applied EXCEPT ![p] = Head(s).v] ELSE applied
    BY <1>4 DEF GproxySet
  <2>2. s \in Seq(Items) /\ s # <<>> /\ Tail(s) \in Seq(Items)
    BY <1>2 DEF GproxySet
  <2>3. /\ 1 \in DOMAIN s /\ Head(s) = s[1]
        /\ \A i \in DOMAIN Tail(s) : i + 1 \in DOMAIN s /\ Tail(s)[i] = s[i + 1]
        /\ \A i \in DOMAIN Tail(s) : i \in Nat /\ i >= 1
    BY <2>2
  <2>4. /\ Sorted(s) /\ UpTo(s, info) /\ Before(s, queue)
        /\ From(s, applied[p]) /\ From(queue, applied[p])
        /\ applied[p] <= info
    BY DEF InOrder
  <2>5. /\ Sorted(Tail(s)) /\ UpTo(Tail(s), info) /\ Before(Tail(s), queue)
        /\ From(Tail(s), applied[p])
    <3>1. Sorted(Tail(s))
      <4> SUFFICES ASSUME NEW i \in DOMAIN Tail(s), NEW j \in DOMAIN Tail(s),
                          i <= j, IsInfo(Tail(s)[i]), IsInfo(Tail(s)[j])
                   PROVE  Tail(s)[i].v <= Tail(s)[j].v
        BY DEF Sorted
      <4>1. i + 1 \in DOMAIN s /\ j + 1 \in DOMAIN s /\ i + 1 <= j + 1
        BY <2>3
      <4>2. Tail(s)[i] = s[i + 1] /\ Tail(s)[j] = s[j + 1]
        BY <2>3
      <4> QED BY <2>4, <4>1, <4>2 DEF Sorted
    <3>2. UpTo(Tail(s), info)
      BY <2>3, <2>4 DEF UpTo
    <3>3. Before(Tail(s), queue)
      BY <2>3, <2>4 DEF Before
    <3>4. From(Tail(s), applied[p])
      BY <2>3, <2>4 DEF From
    <3> QED BY <3>1, <3>2, <3>3, <3>4
  <2>6. Head(s).k = "info" =>
          /\ applied[p] <= Head(s).v /\ Head(s).v <= info
          /\ From(Tail(s), Head(s).v) /\ From(queue, Head(s).v)
    <3> SUFFICES ASSUME Head(s).k = "info"
                 PROVE  /\ applied[p] <= Head(s).v /\ Head(s).v <= info
                        /\ From(Tail(s), Head(s).v) /\ From(queue, Head(s).v)
      OBVIOUS
    <3>1. IsInfo(s[1])
      BY <2>3 DEF IsInfo
    <3>2. applied[p] <= Head(s).v /\ Head(s).v <= info
      BY <2>3, <2>4, <3>1 DEF From, UpTo
    <3>3. From(Tail(s), Head(s).v)
      <4> SUFFICES ASSUME NEW i \in DOMAIN Tail(s), IsInfo(Tail(s)[i])
                   PROVE  Head(s).v <= Tail(s)[i].v
        BY DEF From
      <4>1. i + 1 \in DOMAIN s /\ Tail(s)[i] = s[i + 1] /\ 1 <= i + 1
        BY <2>3
      <4> QED BY <2>3, <2>4, <3>1, <4>1 DEF Sorted
    <3>4. From(queue, Head(s).v)
      BY <2>3, <2>4, <3>1 DEF From, Before
    <3> QED BY <3>2, <3>3, <3>4
  <2>7. /\ Sorted(inbox'[p]) /\ UpTo(inbox'[p], info)
        /\ Before(inbox'[p], queue)
        /\ From(inbox'[p], applied'[p]) /\ From(queue, applied'[p])
        /\ applied[p] <= applied'[p] /\ applied'[p] <= info
    <3>1. inbox'[p] = Tail(s)
      BY <1>2, <2>1
    <3>2. CASE Head(s).k = "info"
      <4>1. applied'[p] = Head(s).v
        BY <1>2, <2>1, <3>2
      <4> QED BY <2>5, <2>6, <3>1, <3>2, <4>1
    <3>3. CASE Head(s).k # "info"
      <4>1. applied' = applied
        BY <2>1, <3>3
      <4>2. applied[p] <= applied[p]
        BY <1>2
      <4> QED BY <2>4, <2>5, <3>1, <4>1, <4>2
    <3> QED BY <3>2, <3>3
  <2>8. \A q \in Pids : q # p => inbox'[q] = inbox[q] /\ applied'[q] = applied[q]
    BY <1>2, <2>1
  <2>9. ASSUME NEW q \in Pids
        PROVE  /\ Sorted(inbox'[q]) /\ UpTo(inbox'[q], info)
               /\ Before(inbox'[q], queue)
               /\ From(inbox'[q], applied'[q]) /\ From(queue, applied'[q])
               /\ applied'[q] <= info
    BY <2>7, <2>8 DEF InOrder
  <2>10. InOrder'
    <3>1. Sorted(queue) /\ UpTo(queue, info)
      BY DEF InOrder
    <3> QED BY <1>1, <2>9, <3>1 DEF InOrder
  <2>11. ASSUME NEW q \in Pids PROVE applied[q] <= applied'[q]
    <3>1. applied[q] <= applied[q]
      BY <1>2
    <3> QED BY <2>7, <2>8, <3>1
  <2> QED BY <2>10, <2>11
<1> QED BY <1>3, <1>4

LEMMA PanelOrder ==
  ASSUME TypeOK, InOrder, Panel
  PROVE  InOrder' /\ applied' = applied
<1>1. applied' = applied
  BY DEF Panel, Insert, Show, SetAllProviderInfo, SetInfo, Move, UserRemove,
         RemoveIdle, Deliver, Respawn, AnswerExecute, AnswerRemove, Elapse
<1>2. CASE Insert \/ Respawn
  <2>1. CASE queue' = ProviderInfo
    BY <1>1, <1>2, <2>1, NewQueueOrder DEF Insert, Respawn
  <2>2. CASE queue' = queue
    BY <1>1, <1>2, <2>2, SameQueueOrder DEF Insert, Respawn
  <2> QED BY <1>2, <2>1, <2>2 DEF Insert, Respawn
<1>3. CASE Show \/ AnswerExecute \/ AnswerRemove \/ Elapse
  BY <1>3, SameQueueOrder DEF Show, AnswerExecute, AnswerRemove, Elapse
<1>4. CASE SetAllProviderInfo
  <2>1. /\ Enqueue(ProviderInfo) /\ UNCHANGED <<info, applied>>
    BY <1>4 DEF SetAllProviderInfo
  <2> QED BY <2>1, FreshProviderInfo, EnqueueOrder
<1>5. CASE SetInfo
  <2>1. /\ info' = info + 1 /\ info \in Nat
        /\ Enqueue(<<Item("info", info + 1)>>)
    BY <1>5 DEF SetInfo, TypeOK
  <2>2. <<Item("info", info + 1)>> \in Seq(Items)
    BY <2>1 DEF Item, Items
  <2>3. Fresh(<<Item("info", info + 1)>>, info')
    BY <2>1 DEF Fresh, Item
  <2>4. info' \in Nat /\ info <= info' /\ Enqueue(<<Item("info", info + 1)>>)
    BY <2>1
  <2> QED BY <1>1, <2>2, <2>3, <2>4, EnqueueOrder
<1>6. CASE UserRemove \/ RemoveIdle
  <2>1. RemovePlugin
    BY <1>6 DEF UserRemove, RemoveIdle
  <2>2. UNCHANGED <<info, applied>>
    <3>1. CASE UserRemove
      BY <3>1 DEF UserRemove
    <3>2. CASE RemoveIdle
      BY <3>2 DEF RemoveIdle
    <3> QED BY <1>6, <3>1, <3>2
  <2> QED BY <1>1, <2>1, <2>2, RemovePluginOrder
<1>7. CASE Move
  BY <1>1, <1>7, MoveOrder
<1>8. CASE Deliver
  BY <1>1, <1>8, DeliverOrder
<1>9. InOrder'
  BY <1>2, <1>3, <1>4, <1>5, <1>6, <1>7, <1>8 DEF Panel
<1> QED BY <1>1, <1>9

LEMMA ChildOrder ==
  ASSUME TypeOK, InOrder, NEW p \in Pids, Child(p)
  PROVE  InOrder' /\ \A q \in Pids : applied[q] <= applied'[q]
<1> DEFINE kept == UNCHANGED <<info, queue, applied>>
<1>1. CASE GproxySet(p)
  BY <1>1, GproxySetOrder
<1>2. CASE Refuse(p) \/ Fail(p)
  <2>1. kept /\ \A q \in Pids : inbox'[q] = inbox[q] \/ inbox'[q] = <<>>
    BY <1>2, EndsEmpties DEF Refuse, Fail, widgetVars
  <2> QED BY <2>1, SameQueueOrder DEF TypeOK
<1>3. CASE ChildWatch(p) \/ Connect(p) \/ Plug(p) \/ MenuRemove(p)
  <2>1. kept /\ UNCHANGED inbox
    BY <1>3 DEF ChildWatch, Connect, Plug, MenuRemove, widgetVars
  <2> QED BY <2>1, SameQueueOrder DEF TypeOK
<1> QED BY <1>1, <1>2, <1>3 DEF Child

LEMMA NextOrder ==
  ASSUME TypeOK, InOrder, [Next]_vars
  PROVE  InOrder' /\ [\A p \in Pids : applied[p] <= applied'[p]]_applied
<1>1. CASE Panel
  BY <1>1, PanelOrder
<1>2. CASE \E p \in Pids : Child(p)
  BY <1>2, ChildOrder
<1>3. CASE UNCHANGED vars
  <2>1. UNCHANGED <<info, queue, applied, inbox>>
    BY <1>3 DEF vars, widgetVars, childVars
  <2> QED BY <2>1, SameQueueOrder
<1> QED BY <1>1, <1>2, <1>3 DEF Next

\* For any number of changes, moves and processes: what queue_add collects and
\* what is sent at once reach a process in the order of the changes, so that
\* wrapper_gproxy_set never applies an older size or mode after a newer one.
THEOREM NeverOutOfOrder == Spec => InfoInOrder
<1>1. Spec => []InOrder
  <2>1. TypeOK /\ InOrder /\ [Next]_vars => InOrder'
    BY NextOrder
  <2> QED BY InitOrder, Types, <2>1, PTL DEF Spec
<1>2. TypeOK /\ InOrder /\ [Next]_vars =>
        [\A p \in Pids : applied[p] <= applied'[p]]_applied
  BY NextOrder
<1> QED BY <1>1, <1>2, Types, PTL DEF Spec, InfoInOrder
----------------------------------------------------------------------------
(***************************************************************************)
(* What an embedded child knows of the panel's properties.  A child that   *)
(* is not embedded yet will get a queue that ends with the present ones,   *)
(* or an idle call is about to put them there; once it is embedded it      *)
(* hears every change.                                                     *)
(***************************************************************************)
Shown == {"running"} \cup Gone

Infos(s) == \A i \in DOMAIN s : IsInfo(s[i])

Plain(s) == \A i \in DOMAIN s : IsInfo(s[i]) \/ s[i] = Quit

EndsWith(s, n) == s # <<>> /\ s[Len(s)] = Item("info", n)

\* Who is or will be embedded has shown its plug, and was spawned before.
Senders ==
  /\ \A p \in Pids : p > born => proc[p] = "unborn"
  /\ \A i \in DOMAIN bus : bus[i].k = "embedded" => proc[bus[i].from] \in Shown
  /\ embedder # 0 => proc[embedder] \in Shown
  /\ embedded <=> embedder # 0

Told ==
  exists => /\ Infos(queue) /\ \A p \in Pids : Plain(inbox[p])
            /\ pid # 0 /\ ~embedded => infoIdle \/ EndsWith(queue, info)

Reach == Senders /\ Told /\ InfoReaches

LEMMA ConcatEnds ==
  ASSUME NEW s \in Seq(Items), NEW t \in Seq(Items), NEW n, EndsWith(t, n)
  PROVE  EndsWith(s \o t, n)
BY DEF EndsWith

LEMMA ConcatPlain ==
  ASSUME NEW s \in Seq(Items), NEW t \in Seq(Items)
  PROVE  /\ Infos(s) /\ Infos(t) => Infos(s \o t)
         /\ Plain(s) /\ Plain(t) => Plain(s \o t)
         /\ Infos(s) => Plain(s)
BY ConcatAt DEF Infos, Plain

LEMMA ProviderInfoEnds ==
  ASSUME TypeOK
  PROVE  Infos(ProviderInfo) /\ EndsWith(ProviderInfo, info)
BY DEF Infos, EndsWith, ProviderInfo, IsInfo, Item

\* An inbox that ends with the present properties.
LEMMA KnowsEnd ==
  ASSUME NEW p \in Pids, NEW n, EndsWith(inbox'[p], n)
  PROVE  Knows(p)' = n
BY DEF EndsWith, Knows, Item

\* No process comes back, and the bus carries no new Embedded.
LEMMA SendersKept ==
  ASSUME TypeOK, Senders, UNCHANGED <<born, embedder, embedded>>,
         \A p \in Pids : proc[p] = "unborn" => proc'[p] = "unborn",
         \A p \in Pids : proc[p] \in Shown => proc'[p] \in Shown,
         \E n \in 0 .. Len(bus) : bus' = SubSeq(bus, 1, n) \/ bus' = Tail(bus)
  PROVE  Senders'
<1>1. bus \in Seq(Messages)
  BY DEF TypeOK
<1>2. \A i \in DOMAIN bus' : \E j \in DOMAIN bus : bus'[i] = bus[j]
  <2>1. PICK n \in 0 .. Len(bus) : bus' = SubSeq(bus, 1, n) \/ bus' = Tail(bus)
    OBVIOUS
  <2>2. CASE bus' = SubSeq(bus, 1, n)
    <3>1. \A i \in DOMAIN bus' : i \in DOMAIN bus /\ bus'[i] = bus[i]
      BY <1>1, <2>2
    <3> QED BY <3>1
  <2>3. CASE bus' = Tail(bus) /\ bus # <<>>
    <3>1. \A i \in DOMAIN bus' : i + 1 \in DOMAIN bus /\ bus'[i] = bus[i + 1]
      BY <1>1, <2>3
    <3> QED BY <3>1
  <2>4. CASE bus' = Tail(bus) /\ bus = <<>>
    <3>1. DOMAIN bus' = {}
      BY <2>4
    <3> QED BY <3>1
  <2> QED BY <2>1, <2>2, <2>3, <2>4
<1>3. ASSUME NEW j \in DOMAIN bus PROVE bus[j].from \in Pids
  <2>1. bus[j] \in Messages
    BY <1>1
  <2> QED BY <2>1 DEF Messages
<1>4. ASSUME NEW i \in DOMAIN bus', bus'[i].k = "embedded"
      PROVE  proc'[bus'[i].from] \in Shown
  <2>1. PICK j \in DOMAIN bus : bus'[i] = bus[j]
    BY <1>2
  <2>2. bus[j].from \in Pids /\ proc[bus[j].from] \in Shown
    BY <1>3, <1>4, <2>1 DEF Senders
  <2> QED BY <2>1, <2>2
<1>5. embedder' # 0 => proc'[embedder'] \in Shown
  BY DEF TypeOK, Senders
<1>6. \A p \in Pids : p > born' => proc'[p] = "unborn"
  BY DEF Senders
<1>7. embedded' <=> embedder' # 0
  BY DEF Senders
<1> QED BY <1>4, <1>5, <1>6, <1>7 DEF Senders

\* There is no child, and one may be spawned: who is embedded is a Ghost then.
LEMMA SpawnReach ==
  ASSUME TypeOK, Reach, pid = 0, ChildSpawn,
         UNCHANGED <<embedded, embedder, bus>>
  PROVE  /\ Senders' /\ InfoReaches'
         /\ pid' # 0 => Spawned
<1>1. embedder # 0 => embedder <= born
  BY DEF TypeOK, Reach, Senders, Shown, Gone
<1>2. CASE Spawned
  <2>1. /\ born + 1 \in Pids /\ born' = born + 1 /\ pid' = born + 1
        /\ proc' = [proc EXCEPT ![born + 1] = "born"]
    BY <1>2 DEF Spawned, TypeOK
  <2>2. proc[born + 1] = "unborn"
    BY <2>1 DEF TypeOK, Reach, Senders
  <2>3. \A p \in Pids : proc[p] \in Shown => proc'[p] \in Shown
    BY <2>1, <2>2 DEF TypeOK, Shown, Gone
  <2>4. \A p \in Pids : p > born' => proc'[p] = "unborn"
    BY <2>1 DEF TypeOK, Reach, Senders
  <2>5. ASSUME NEW i \in DOMAIN bus, bus[i].k = "embedded"
        PROVE  proc'[bus[i].from] \in Shown
    <3>1. bus[i] \in Messages
      BY DEF TypeOK
    <3>2. bus[i].from \in Pids /\ proc[bus[i].from] \in Shown
      BY <2>5, <3>1 DEF Messages, Reach, Senders
    <3> QED BY <2>3, <3>2
  <2>6. embedder' # 0 => proc'[embedder'] \in Shown
    BY <2>3 DEF TypeOK, Reach, Senders
  <2>7. Senders'
    BY <2>4, <2>5, <2>6 DEF Reach, Senders
  <2>8. embedded' => embedder' # pid'
    BY <1>1, <2>1 DEF TypeOK, Reach, Senders
  <2>9. InfoReaches'
    BY <2>8 DEF InfoReaches, Ghost
  <2> QED BY <1>2, <2>7, <2>9
<1>3. CASE NotSpawned
  <2>1. UNCHANGED <<born, pid, proc>>
    BY <1>3 DEF NotSpawned
  <2>2. Senders'
    BY <2>1 DEF Reach, Senders
  <2>3. InfoReaches'
    BY <2>1 DEF Reach, Senders, InfoReaches, Ghost
  <2> QED BY <2>1, <2>2, <2>3
<1> QED BY <1>2, <1>3 DEF ChildSpawn

\* A change is enqueued, or a new child is awaited as well.
LEMMA EnqueueReach ==
  ASSUME TypeOK, Reach, NEW items \in Seq(Items), Enqueue(items),
         Plain(items), ~embedded => Infos(items),
         EndsWith(items, info'),
         UNCHANGED <<exists, embedded, embedder, pid, proc, born, bus>>
  PROVE  Reach'
<1>1. Senders'
  BY DEF Reach, Senders
<1>2. queue \in Seq(Items) /\ \A p \in Pids : inbox[p] \in Seq(Items)
  BY DEF TypeOK
<1>3. queue \o items \in Seq(Items) /\ EndsWith(queue \o items, info')
  BY <1>2, ConcatEnds
<1>4. CASE embedded
  <2>1. inbox' = Heard(queue \o items) /\ queue' = <<>>
    BY <1>4 DEF Enqueue
  <2>2. exists => Plain(queue \o items)
    BY <1>2, ConcatPlain DEF Reach, Told
  <2>3. ASSUME NEW p \in Pids, exists PROVE Plain(inbox'[p])
    <3>1. inbox'[p] = inbox[p] \/ inbox'[p] = inbox[p] \o (queue \o items)
      BY <2>1 DEF Heard
    <3>2. Plain(inbox[p])
      BY <2>3 DEF Reach, Told
    <3>3. Plain(inbox[p] \o (queue \o items))
      BY <1>2, <1>3, <2>2, <2>3, <3>2, ConcatPlain
    <3> QED BY <3>1, <3>2, <3>3
  <2>4. Infos(queue')
    BY <2>1 DEF Infos
  <2>5. Told'
    BY <1>4, <2>3, <2>4 DEF Told
  <2>6. ASSUME pid \in Pids, proc[pid] = "running" PROVE Knows(pid)' = info'
    <3>1. inbox'[pid] = inbox[pid] \o (queue \o items)
      BY <2>1, <2>6 DEF Heard
    <3>2. EndsWith(inbox'[pid], info')
      BY <1>2, <1>3, <2>6, <3>1, ConcatEnds
    <3> QED BY <3>2 DEF Knows, EndsWith, Item
  <2>7. embedder # 0
    BY <1>4 DEF Reach, Senders
  <2>8. InfoReaches'
    BY <2>6, <2>7 DEF TypeOK, InfoReaches, Ghost
  <2> QED BY <1>1, <2>5, <2>8 DEF Reach
<1>5. CASE ~embedded
  <2>1. queue' = queue \o items /\ inbox' = inbox
    BY <1>5 DEF Enqueue
  <2>2. exists => Infos(queue')
    BY <1>2, <1>5, <2>1, ConcatPlain DEF Reach, Told
  <2>3. Told'
    BY <1>3, <2>1, <2>2 DEF Reach, Told
  <2>4. InfoReaches'
    BY <1>5 DEF InfoReaches
  <2> QED BY <1>1, <2>3, <2>4 DEF Reach
<1> QED BY <1>4, <1>5

LEMMA InitReach == Init => Reach
<1> SUFFICES ASSUME Init PROVE Reach
  OBVIOUS
<1>1. Senders
  BY DEF Init, Senders
<1>2. Told
  BY DEF Init, Told, Infos, Plain
<1>3. InfoReaches
  BY DEF Init, InfoReaches
<1> QED BY <1>1, <1>2, <1>3 DEF Reach

\* The queue is filled anew for a child that is spawned.
LEMMA NewQueueReach ==
  ASSUME TypeOK, Reach, pid = 0, ChildSpawn, queue' = ProviderInfo,
         UNCHANGED <<exists, embedded, embedder, bus, info, inbox>>
  PROVE  Reach'
<1>1. Senders' /\ InfoReaches'
  BY SpawnReach
<1>2. Infos(ProviderInfo) /\ EndsWith(ProviderInfo, info)
  BY ProviderInfoEnds
<1>3. Told'
  BY <1>2 DEF Reach, Told
<1> QED BY <1>1, <1>3 DEF Reach

LEMMA ShowReach == ASSUME TypeOK, Reach, Show PROVE Reach'
<1>1. /\ pid = 0 /\ ChildSpawn /\ infoIdle' = TRUE
      /\ UNCHANGED <<exists, embedded, embedder, queue, inbox, bus>>
  BY DEF Show
<1>2. Senders' /\ InfoReaches'
  BY <1>1, SpawnReach
<1>3. Told'
  BY <1>1 DEF Reach, Told
<1> QED BY <1>2, <1>3 DEF Reach

LEMMA RespawnReach == ASSUME TypeOK, Reach, Respawn PROVE Reach'
<1>1. UNCHANGED <<exists, embedded, embedder, infoIdle, info, inbox, applied,
                  bus>>
  BY DEF Respawn
<1>2. CASE NotSpawned /\ UNCHANGED queue
  <2>1. UNCHANGED <<born, pid, proc, queue>>
    BY <1>2 DEF NotSpawned
  <2> QED BY <1>1, <2>1 DEF Reach, Senders, Told, InfoReaches, Ghost, Leaving,
                            Knows
<1>3. CASE pid = 0 /\ queue' = ProviderInfo /\ ChildSpawn
  BY <1>1, <1>3, NewQueueReach
<1> QED BY <1>2, <1>3 DEF Respawn

LEMMA SetInfoReach == ASSUME TypeOK, Reach, SetInfo PROVE Reach'
<1> DEFINE items == <<Item("info", info + 1)>>
<1>1. /\ Enqueue(items) /\ info' = info + 1 /\ info \in Nat
      /\ UNCHANGED <<exists, embedded, embedder, pid, proc, born, bus>>
  BY DEF SetInfo, TypeOK
<1>2. items \in Seq(Items)
  BY <1>1 DEF Item, Items
<1>3. Infos(items) /\ Plain(items) /\ EndsWith(items, info')
  BY <1>1 DEF Infos, Plain, EndsWith, IsInfo, Item
<1> HIDE DEF items
<1> QED BY <1>1, <1>2, <1>3, EnqueueReach

LEMMA SetAllProviderInfoReach ==
  ASSUME TypeOK, Reach, SetAllProviderInfo PROVE Reach'
<1>1. /\ Enqueue(ProviderInfo) /\ info' = info
      /\ UNCHANGED <<exists, embedded, embedder, pid, proc, born, bus>>
  BY DEF SetAllProviderInfo
<1>2. /\ ProviderInfo \in Seq(Items)
      /\ Infos(ProviderInfo) /\ EndsWith(ProviderInfo, info)
  BY ProviderInfoTyped, ProviderInfoEnds
<1>3. Plain(ProviderInfo)
  BY <1>2 DEF Infos, Plain
<1> QED BY <1>1, <1>2, <1>3, EnqueueReach

\* A process ends.
LEMMA EndsReach ==
  ASSUME TypeOK, Reach, NEW p \in Pids, NEW how \in Gone, Alive(p),
         Ends(p, how),
         UNCHANGED <<born, embedder, embedded, exists, pid, queue, infoIdle,
                     info, applied>>,
         bus' \in Flushed(p)
  PROVE  Reach'
<1>1. /\ proc' = [proc EXCEPT ![p] = how]
      /\ inbox' = [inbox EXCEPT ![p] = <<>>]
  BY DEF Ends
<1>2. Senders'
  <2>1. \A q \in Pids : proc[q] = "unborn" => proc'[q] = "unborn"
    BY <1>1 DEF TypeOK, Alive, Living
  <2>2. \A q \in Pids : proc[q] \in Shown => proc'[q] \in Shown
    BY <1>1 DEF TypeOK, Shown
  <2>3. \E n \in 0 .. Len(bus) : bus' = SubSeq(bus, 1, n) \/ bus' = Tail(bus)
    BY DEF Flushed
  <2> QED BY <2>1, <2>2, <2>3, SendersKept DEF Reach
<1>3. Told'
  <2>1. Plain(<<>>)
    BY DEF Plain
  <2>2. \A q \in Pids : inbox'[q] = inbox[q] \/ inbox'[q] = <<>>
    BY <1>1 DEF TypeOK
  <2> QED BY <2>1, <2>2 DEF Reach, Told
<1>4. InfoReaches'
  <2>1. proc'[p] # "running"
    BY <1>1 DEF TypeOK, Gone
  <2>2. CASE pid = p
    BY <2>1, <2>2 DEF InfoReaches
  <2>3. CASE pid \in Pids /\ pid # p
    <3>1. proc'[pid] = proc[pid] /\ inbox'[pid] = inbox[pid]
      BY <1>1, <2>3 DEF TypeOK
    <3> QED BY <3>1 DEF Reach, InfoReaches, Ghost, Leaving, Knows
  <2>4. CASE pid = 0
    BY <2>4 DEF Reach, Senders, InfoReaches, Ghost
  <2> QED BY <2>2, <2>3, <2>4 DEF TypeOK
<1> QED BY <1>2, <1>3, <1>4 DEF Reach

LEMMA MoveReach == ASSUME TypeOK, Reach, Move PROVE Reach'
<1>1. UNCHANGED <<exists, embedded, embedder, infoIdle, info, applied>>
  BY DEF Move
<1>2. /\ ProviderInfo \in Seq(Items) /\ queue \in Seq(Items)
      /\ Infos(ProviderInfo) /\ EndsWith(ProviderInfo, info)
      /\ Plain(ProviderInfo)
  BY ProviderInfoTyped, ProviderInfoEnds DEF TypeOK, Infos, Plain
<1>3. /\ EndsWith(queue \o ProviderInfo, info)
      /\ Infos(queue) => Infos(queue \o ProviderInfo)
  BY <1>2, ConcatEnds, ConcatPlain
<1>4. CASE MoveWithoutChild
  <2>1. pid = 0 /\ ChildSpawn /\ Enqueue(ProviderInfo) /\ UNCHANGED bus
    BY <1>4 DEF MoveWithoutChild
  <2>2. Senders' /\ InfoReaches'
    BY <1>1, <2>1, SpawnReach
  <2>3. Told'
    <3>1. CASE embedded
      <4>1. inbox' = Heard(queue \o ProviderInfo) /\ queue' = <<>>
        BY <2>1, <3>1 DEF Enqueue
      <4>2. ASSUME NEW p \in Pids, exists PROVE Plain(inbox'[p])
        <5>1. \/ inbox'[p] = inbox[p]
              \/ inbox'[p] = inbox[p] \o (queue \o ProviderInfo)
          BY <4>1 DEF Heard
        <5>2. /\ Plain(inbox[p]) /\ Plain(queue \o ProviderInfo)
              /\ inbox[p] \in Seq(Items) /\ queue \o ProviderInfo \in Seq(Items)
          BY <1>2, <1>3, <4>2, ConcatPlain DEF Reach, Told, TypeOK
        <5> QED BY <5>1, <5>2, ConcatPlain
      <4>3. Infos(queue')
        BY <4>1 DEF Infos
      <4> QED BY <1>1, <3>1, <4>2, <4>3 DEF Told
    <3>2. CASE ~embedded
      <4>1. queue' = queue \o ProviderInfo /\ inbox' = inbox
        BY <2>1, <3>2 DEF Enqueue
      <4> QED BY <1>1, <1>3, <4>1 DEF Reach, Told
    <3> QED BY <3>1, <3>2
  <2> QED BY <2>2, <2>3 DEF Reach
<1>5. CASE MoveEmbedded
  <2> DEFINE items == <<Quit>> \o ProviderInfo
  <2>1. <<Quit>> \in Seq(Items) /\ Plain(<<Quit>>)
    BY DEF Quit, Item, Items, Plain
  <2>2. items \in Seq(Items) /\ Plain(items) /\ EndsWith(items, info)
    <3>1. items \in Seq(Items)
      BY <1>2, <2>1
    <3>2. Plain(items)
      BY <1>2, <2>1, ConcatPlain
    <3>3. EndsWith(items, info)
      BY <1>2, <2>1, ConcatEnds
    <3> QED BY <3>1, <3>2, <3>3
  <2>3. /\ embedded /\ Enqueue(items)
        /\ UNCHANGED <<pid, proc, born, bus>>
    BY <1>5 DEF MoveEmbedded
  <2> HIDE DEF items
  <2> QED BY <1>1, <2>2, <2>3, EnqueueReach
<1>6. CASE MoveStarting
  <2>1. /\ pid # 0 /\ ~embedded /\ Kill /\ queue' = queue \o ProviderInfo
        /\ bus' \in Flushed(pid) /\ UNCHANGED <<born, pid>>
    BY <1>6 DEF MoveStarting
  <2>2. pid \in Pids
    BY <2>1 DEF TypeOK
  <2>3. /\ \A q \in Pids : proc[q] = "unborn" => proc'[q] = "unborn"
        /\ \A q \in Pids : proc[q] \in Shown => proc'[q] \in Shown
    BY <2>1, <2>2 DEF TypeOK, Kill, Ends, Alive, Living, Shown, Gone
  <2>4. \E n \in 0 .. Len(bus) : bus' = SubSeq(bus, 1, n) \/ bus' = Tail(bus)
    BY <2>1 DEF Flushed
  <2>5. Senders'
    BY <1>1, <2>1, <2>3, <2>4, SendersKept DEF Reach
  <2>6. Told'
    <3>1. Plain(<<>>)
      BY DEF Plain
    <3>2. \A q \in Pids : inbox'[q] = inbox[q] \/ inbox'[q] = <<>>
      BY <2>1, KillEmpties
    <3> QED BY <1>1, <1>3, <2>1, <3>1, <3>2 DEF Reach, Told
  <2>7. InfoReaches'
    BY <1>1, <2>1 DEF InfoReaches
  <2> QED BY <2>5, <2>6, <2>7 DEF Reach
<1> QED BY <1>4, <1>5, <1>6 DEF Move

\* A removal: nobody is told of anything any more.
LEMMA RemovalReach ==
  ASSUME TypeOK, Reach, exists, RemovePlugin,
         UNCHANGED <<pid, embedded, embedder, info, born, applied>>,
         ~exists' => bus' = <<>>,
         exists' => bus' \in {bus, Tail(bus)}
  PROVE  Reach'
<1>1. /\ \A q \in Pids : proc[q] = "unborn" => proc'[q] = "unborn"
      /\ \A q \in Pids : proc[q] \in Shown => proc'[q] \in Shown
  <2>1. CASE pid # 0 /\ Kill
    <3>1. pid \in Pids
      BY <2>1 DEF TypeOK
    <3> QED BY <2>1, <3>1 DEF TypeOK, Kill, Ends, Alive, Living, Shown, Gone
  <2>2. CASE proc' = proc
    BY <2>2
  <2> QED BY <2>1, <2>2 DEF RemovePlugin, Unrealize
<1>2. bus \in Seq(Messages)
  BY DEF TypeOK
<1>3. \E n \in 0 .. Len(bus) : bus' = SubSeq(bus, 1, n) \/ bus' = Tail(bus)
  <2>1. SubSeq(bus, 1, 0) = <<>> /\ SubSeq(bus, 1, Len(bus)) = bus
    BY <1>2
  <2>2. 0 \in 0 .. Len(bus) /\ Len(bus) \in 0 .. Len(bus)
    BY <1>2
  <2> QED BY <2>1, <2>2
<1>4. Senders'
  BY <1>1, <1>3, SendersKept DEF Reach
<1>5. CASE locked
  <2>1. UNCHANGED <<exists, queue, infoIdle, proc, inbox>>
    BY <1>5 DEF RemovePlugin
  <2> QED BY <1>4, <2>1 DEF Reach, Told, InfoReaches, Ghost, Leaving, Knows
<1>6. CASE ~locked
  <2>1. ~exists'
    BY <1>6 DEF RemovePlugin
  <2> QED BY <1>4, <2>1 DEF Reach, Told, InfoReaches
<1> QED BY <1>5, <1>6

\* Everything that matters here stays as it is.
LEMMA SameReach ==
  ASSUME Reach, UNCHANGED <<exists, pid, embedded, embedder, queue, infoIdle,
                            info, born, proc, inbox, applied, bus>>
  PROVE  Reach'
BY DEF Reach, Senders, Told, InfoReaches, Ghost, Leaving, Knows

LEMMA DeliverReach == ASSUME TypeOK, Reach, Deliver PROVE Reach'
<1>1. /\ exists /\ bus # <<>> /\ bus \in Seq(Messages)
      /\ UNCHANGED <<pid, info, born, applied>>
  BY DEF Deliver, Ready, TypeOK
<1>2. CASE Head(bus).k = "embedded"
  <2> DEFINE p == Head(bus).from
  <2>1. ProxyEmbedded(p)
    BY <1>2 DEF Deliver
  <2>2. /\ bus' = Tail(bus) /\ embedded' = TRUE
        /\ embedder' = IF embedded THEN embedder ELSE p
        /\ UNCHANGED <<exists, infoIdle, proc>>
    BY <2>1 DEF ProxyEmbedded
  <2>3. /\ 1 \in DOMAIN bus /\ Head(bus) = bus[1]
        /\ \A i \in DOMAIN Tail(bus) :
             i + 1 \in DOMAIN bus /\ Tail(bus)[i] = bus[i + 1]
    BY <1>1
  <2>4. p \in Pids /\ proc[p] \in Shown
    <3>1. bus[1] \in Messages
      BY <1>1, <2>3
    <3> QED BY <1>2, <2>3, <3>1 DEF Messages, Reach, Senders
  <2>5. Senders'
    <3>1. \A i \in DOMAIN bus' :
            bus'[i].k = "embedded" => proc'[bus'[i].from] \in Shown
      BY <2>2, <2>3 DEF Reach, Senders
    <3>2. embedder' # 0 /\ proc'[embedder'] \in Shown
      BY <2>2, <2>4 DEF Reach, Senders
    <3> QED BY <1>1, <2>2, <3>1, <3>2 DEF Reach, Senders
  <2>6. CASE embedded
    <3>1. UNCHANGED <<queue, inbox, embedder, embedded>>
      BY <2>1, <2>6 DEF ProxyEmbedded
    <3> QED BY <1>1, <2>2, <2>5, <2>6, <3>1
            DEF Reach, Told, InfoReaches, Ghost, Leaving, Knows
  <2>7. CASE ~embedded
    <3>1. inbox' = Heard(queue) /\ queue' = <<>> /\ embedder' = p
      BY <2>1, <2>7 DEF ProxyEmbedded
    <3>2. queue \in Seq(Items) /\ \A q \in Pids : inbox[q] \in Seq(Items)
      BY DEF TypeOK
    <3>3. ASSUME NEW q \in Pids PROVE Plain(inbox'[q])
      <4>1. inbox'[q] = inbox[q] \/ inbox'[q] = inbox[q] \o queue
        BY <3>1 DEF Heard
      <4>2. Plain(inbox[q]) /\ Plain(queue)
        BY <1>1, <3>2, ConcatPlain DEF Reach, Told
      <4> QED BY <3>2, <4>1, <4>2, ConcatPlain
    <3>4. Infos(queue')
      BY <3>1 DEF Infos
    <3>5. Told'
      BY <2>2, <3>3, <3>4 DEF Told
    <3>6. ASSUME pid = p, proc[pid] = "running", ~infoIdle
          PROVE  Knows(pid)' = info
      <4>1. EndsWith(queue, info)
        BY <1>1, <2>4, <2>7, <3>6 DEF Reach, Told
      <4>2. inbox'[pid] = inbox[pid] \o queue
        BY <2>4, <3>1, <3>6 DEF Heard
      <4>3. inbox[pid] \in Seq(Items)
        BY <2>4, <3>2, <3>6
      <4>4. EndsWith(inbox'[pid], info)
        BY <3>2, <4>1, <4>2, <4>3, ConcatEnds
      <4> QED BY <1>1, <4>4 DEF Knows, EndsWith, Item
    <3>7. InfoReaches'
      BY <1>1, <2>2, <3>1, <3>6 DEF InfoReaches, Ghost
    <3> QED BY <2>5, <3>5, <3>7 DEF Reach
  <2> QED BY <2>6, <2>7
<1>3. CASE Head(bus).k # "embedded"
  <2>1. /\ RemovePlugin /\ UNCHANGED <<embedded, embedder>>
        /\ bus' = IF exists' THEN Tail(bus) ELSE <<>>
    BY <1>3 DEF Deliver, ProviderSignal
  <2> QED BY <1>1, <2>1, RemovalReach
<1> QED BY <1>2, <1>3

\* A process reads one item: it knows the same, once it has read the others.
LEMMA GproxySetReach ==
  ASSUME TypeOK, Reach, NEW p \in Pids, GproxySet(p) PROVE Reach'
<1>1. /\ proc[p] = "running" /\ inbox[p] # <<>> /\ inbox[p] \in Seq(Items)
      /\ applied \in [Pids -> Nat] /\ inbox \in [Pids -> Seq(Items)]
      /\ UNCHANGED <<exists, pid, embedded, embedder, queue, infoIdle, info,
                     born>>
  BY DEF GproxySet, TypeOK, widgetVars
<1>2. CASE Head(inbox[p]).k = "quit"
  <2>1. /\ Ends(p, "success") /\ "success" \in Gone /\ Alive(p)
        /\ bus' \in Flushed(p) /\ UNCHANGED applied
    BY <1>1, <1>2 DEF GproxySet, Gone, Alive, Living
  <2> QED BY <1>1, <2>1, EndsReach
<1>3. CASE Head(inbox[p]).k # "quit"
  <2> DEFINE s == inbox[p]
  <2>1. /\ inbox' = [inbox EXCEPT ![p] = Tail(s)]
        /\ applied' = IF Head(s).k = "info"
                      THEN [applied EXCEPT ![p] = Head(s).v] ELSE applied
        /\ UNCHANGED <<proc, bus>>
    BY <1>3 DEF GproxySet
  <2>2. /\ 1 \in DOMAIN s /\ Head(s) = s[1]
        /\ \A i \in DOMAIN Tail(s) : i + 1 \in DOMAIN s /\ Tail(s)[i] = s[i + 1]
    BY <1>1
  <2>3. Senders'
    BY <1>1, <2>1 DEF Reach, Senders
  <2>4. Told'
    <3>1. exists => Plain(Tail(s))
      BY <2>2 DEF Reach, Told, Plain
    <3>2. \A q \in Pids : q # p => inbox'[q] = inbox[q]
      BY <1>1, <2>1
    <3>3. inbox'[p] = Tail(s)
      BY <1>1, <2>1
    <3> QED BY <1>1, <3>1, <3>2, <3>3 DEF Reach, Told
  <2>5. InfoReaches'
    <3>1. CASE pid # p
      <4>1. CASE pid = 0
        BY <1>1, <4>1 DEF Reach, Senders, InfoReaches, Ghost
      <4>2. CASE pid # 0
        <5>1. pid \in Pids
          BY <4>2 DEF TypeOK
        <5>2. inbox'[pid] = inbox[pid] /\ applied'[pid] = applied[pid]
          BY <1>1, <2>1, <3>1, <5>1
        <5> QED BY <1>1, <2>1, <5>2
                DEF Reach, InfoReaches, Ghost, Leaving, Knows
      <4> QED BY <4>1, <4>2
    <3>2. CASE pid = p
      <4> SUFFICES ASSUME exists, embedded, ~Ghost, ~infoIdle,
                          \A i \in DOMAIN Tail(s) : Tail(s)[i] # Quit
                   PROVE  Knows(p)' = info
        BY <1>1, <2>1, <3>2 DEF InfoReaches, Ghost, Leaving
      <4>1. Head(s).k = "info" /\ Head(s) # Quit
        BY <1>3, <2>2 DEF Reach, Told, Plain, IsInfo, Quit, Item
      <4>2. \A i \in DOMAIN s : i # 1 => i - 1 \in DOMAIN Tail(s)
                                        /\ s[i] = Tail(s)[i - 1]
        BY <1>1
      <4>3. ~Leaving(p)
        BY <2>2, <4>1, <4>2 DEF Leaving
      <4>4. s[Len(s)].v = info
        BY <1>1, <3>2, <4>3 DEF Reach, InfoReaches, Knows
      <4>5. applied'[p] = Head(s).v /\ inbox'[p] = Tail(s)
        BY <1>1, <2>1, <4>1
      <4>6. CASE Tail(s) = <<>>
        <5>1. Len(s) = 1
          <6>1. Len(Tail(s)) = Len(s) - 1 /\ Len(s) \in Nat
            BY <1>1
          <6>2. Len(<<>>) = 0
            OBVIOUS
          <6>3. Len(Tail(s)) = 0
            BY <4>6, <6>2, Zenon
          <6> QED BY <6>1, <6>3
        <5> QED BY <2>2, <4>4, <4>5, <4>6, <5>1 DEF Knows
      <4>7. CASE Tail(s) # <<>>
        <5>1. Tail(s)[Len(Tail(s))] = s[Len(s)]
          BY <1>1, <4>7
        <5> QED BY <4>4, <4>5, <4>7, <5>1 DEF Knows
      <4> QED BY <4>6, <4>7
    <3> QED BY <3>1, <3>2
  <2> QED BY <2>3, <2>4, <2>5 DEF Reach
<1> QED BY <1>2, <1>3

\* A process comes further, or says something.
LEMMA ComesFurtherReach ==
  ASSUME TypeOK, Reach, NEW p \in Pids, Connect(p) \/ Plug(p) \/ MenuRemove(p)
  PROVE  Reach'
<1>1. /\ UNCHANGED <<exists, pid, embedded, embedder, queue, infoIdle, info,
                     born, inbox, applied>>
      /\ bus \in Seq(Messages)
  BY DEF Connect, Plug, MenuRemove, widgetVars, TypeOK
<1>2. \A q \in Pids : proc[q] = "unborn" => proc'[q] = "unborn"
  BY DEF Connect, Plug, MenuRemove, TypeOK
<1>3. \A q \in Pids : proc[q] \in Shown => proc'[q] \in Shown
  BY DEF Connect, Plug, MenuRemove, TypeOK, Shown, Gone
<1>4. ASSUME NEW i \in DOMAIN bus', bus'[i].k = "embedded"
      PROVE  proc'[bus'[i].from] \in Shown
  <2>1. CASE i \in DOMAIN bus /\ bus'[i] = bus[i]
    <3>1. bus[i] \in Messages
      BY <1>1, <2>1
    <3> QED BY <1>3, <1>4, <2>1, <3>1 DEF Messages, Reach, Senders
  <2>2. CASE Plug(p) /\ bus'[i] = [k |-> "embedded", from |-> p]
    BY <2>2 DEF Plug, TypeOK, Shown
  <2>3. \/ i \in DOMAIN bus /\ bus'[i] = bus[i]
        \/ Plug(p) /\ bus'[i] = [k |-> "embedded", from |-> p]
        \/ bus'[i] = [k |-> "remove", from |-> p]
    BY <1>1 DEF Connect, Plug, MenuRemove
  <2> QED BY <1>4, <2>1, <2>2, <2>3
<1>5. Senders'
  <2>1. embedder' # 0 => proc'[embedder'] \in Shown
    BY <1>1, <1>3 DEF TypeOK, Reach, Senders
  <2>2. \A q \in Pids : q > born' => proc'[q] = "unborn"
    BY <1>1, <1>2 DEF Reach, Senders
  <2> QED BY <1>1, <1>4, <2>1, <2>2 DEF Reach, Senders
<1>6. Told'
  BY <1>1 DEF Reach, Told
<1>7. InfoReaches'
  <2>1. embedded /\ ~Ghost => pid \in Pids /\ proc[pid] \in Shown
    BY DEF TypeOK, Reach, Senders, Ghost
  <2>2. pid \in Pids /\ proc[pid] \in Shown /\ proc'[pid] = "running"
          => proc[pid] = "running"
    BY DEF Connect, Plug, MenuRemove, TypeOK, Shown, Gone
  <2> QED BY <1>1, <2>1, <2>2 DEF Reach, InfoReaches, Ghost, Leaving, Knows
<1> QED BY <1>5, <1>6, <1>7 DEF Reach

LEMMA PanelReach == ASSUME TypeOK, Reach, Panel PROVE Reach'
<1>1. CASE Insert
  BY <1>1, NewQueueReach DEF Insert
<1>2. CASE UserRemove
  <2>1. /\ RemovePlugin /\ exists /\ bus' = IF exists' THEN bus ELSE <<>>
        /\ UNCHANGED <<pid, embedded, embedder, info, born, applied>>
    BY <1>2 DEF UserRemove, Ready
  <2> QED BY <2>1, RemovalReach
<1>3. CASE RemoveIdle
  <2>1. /\ RemovePlugin /\ exists /\ bus' = IF exists' THEN bus ELSE <<>>
        /\ UNCHANGED <<pid, embedded, embedder, info, born, applied>>
    BY <1>3 DEF RemoveIdle
  <2> QED BY <2>1, RemovalReach
<1>4. CASE AnswerExecute
  BY <1>4, SameReach DEF AnswerExecute
<1>5. CASE AnswerRemove
  BY <1>5, SameReach DEF AnswerRemove
<1>6. CASE Elapse
  BY <1>6, SameReach DEF Elapse
<1> QED BY <1>1, <1>2, <1>3, <1>4, <1>5, <1>6, ShowReach,
           SetAllProviderInfoReach, SetInfoReach, MoveReach, DeliverReach,
           RespawnReach DEF Panel

LEMMA ChildReach == ASSUME TypeOK, Reach, NEW p \in Pids, Child(p) PROVE Reach'
<1>1. CASE ChildWatch(p)
  <2>1. /\ pid' = 0 /\ embedded' = FALSE /\ embedder' = 0
        /\ UNCHANGED <<exists, queue, infoIdle, info, born, proc, inbox,
                       applied, bus>>
    BY <1>1 DEF ChildWatch
  <2>2. Senders'
    BY <2>1 DEF Reach, Senders
  <2> QED BY <2>1, <2>2 DEF Reach, Told, InfoReaches
<1>2. CASE Refuse(p)
  <2>1. /\ Alive(p) /\ Ends(p, "refused") /\ "refused" \in Gone
        /\ UNCHANGED <<born, embedder, embedded, exists, pid, queue, infoIdle,
                       info, applied>>
        /\ bus' = bus
    BY <1>2 DEF Refuse, Alive, Living, Gone, widgetVars
  <2>2. bus' \in Flushed(p)
    <3>1. bus \in Seq(Messages)
      BY DEF TypeOK
    <3>2. Len(bus) \in 0 .. Len(bus) /\ SubSeq(bus, 1, Len(bus)) = bus
      BY <3>1
    <3>3. \A i \in Len(bus) + 1 .. Len(bus) : bus[i].from = p
      BY <3>1
    <3> QED BY <2>1, <3>2, <3>3 DEF Flushed
  <2> QED BY <2>1, <2>2, EndsReach
<1>3. CASE Fail(p)
  <2>1. /\ Alive(p) /\ Ends(p, "fault") /\ "fault" \in Gone
        /\ UNCHANGED <<born, embedder, embedded, exists, pid, queue, infoIdle,
                       info, applied>>
        /\ bus' \in Flushed(p)
    BY <1>3 DEF Fail, Gone, widgetVars
  <2> QED BY <2>1, EndsReach
<1> QED BY <1>1, <1>2, <1>3, GproxySetReach, ComesFurtherReach DEF Child

LEMMA NextReach == ASSUME TypeOK, Reach, [Next]_vars PROVE Reach'
<1>1. CASE UNCHANGED vars
  BY <1>1, SameReach DEF vars, widgetVars, childVars
<1> QED BY <1>1, PanelReach, ChildReach DEF Next

\* For any number of processes, moves and changes: a child that the panel
\* takes for embedded, and that it has not asked to leave, knows the panel's
\* properties once it has read what was sent to it, although the queue was
\* thrown away and filled again by child_respawn for every new child.
THEOREM ChildIsUpToDate == Spec => []InfoReaches
<1>1. TypeOK /\ Reach /\ [Next]_vars => Reach'
  BY NextReach
<1>2. Reach => InfoReaches
  BY DEF Reach
<1> QED BY InitReach, Types, <1>1, <1>2, PTL DEF Spec
----------------------------------------------------------------------------
(***************************************************************************)
(* A child that must go.  What RespawnEnds and OrphansLeave need besides   *)
(* fair main loops: the child in the way has ended or is sent Quit, and    *)
(* every message that it reads brings the Quit nearer.                     *)
(***************************************************************************)
\* The timer runs and a dialog asks for a widget on the screen, and pid names a
\* process that was spawned.
Departs ==
  /\ ChildrenDepart
  /\ exists /\ (timer \/ asking # <<>>) => realized
  /\ pid # 0 => proc[pid] # "unborn"

\* Whether a process departs is seen from its own state.
LEMMA DepartingKept ==
  ASSUME NEW p \in Pids, Departing(p),
         proc'[p] = proc[p] \/ proc'[p] \in Gone,
         proc'[p] = "running" => inbox'[p] = inbox[p]
  PROVE  Departing(p)'
<1>1. CASE proc'[p] \in Gone
  BY <1>1 DEF Departing
<1>2. CASE proc'[p] \notin Gone
  <2>1. proc'[p] = "running" /\ Leaving(p) /\ inbox'[p] = inbox[p]
    BY <1>2 DEF Departing
  <2> QED BY <2>1 DEF Departing, Leaving
<1> QED BY <1>1, <1>2

\* What a process was sent stays where it is when more is sent to it.
LEMMA HeardAt ==
  ASSUME TypeOK, NEW items \in Seq(Items), inbox' = Heard(items),
         NEW p \in Pids
  PROVE  /\ Len(inbox'[p]) >= Len(inbox[p])
         /\ \A n \in DOMAIN inbox[p] :
              n \in DOMAIN inbox'[p] /\ inbox'[p][n] = inbox[p][n]
<1>1. inbox[p] \in Seq(Items)
  BY DEF TypeOK
<1>2. inbox'[p] = inbox[p] \/ inbox'[p] = inbox[p] \o items
  BY DEF Heard
<1>3. ASSUME NEW s \in Seq(Items)
      PROVE  /\ Len(s \o items) >= Len(s)
             /\ \A n \in DOMAIN s :
                  n \in DOMAIN (s \o items) /\ (s \o items)[n] = s[n]
  OBVIOUS
<1>4. /\ Len(inbox[p] \o items) >= Len(inbox[p])
      /\ \A n \in DOMAIN inbox[p] :
           /\ n \in DOMAIN (inbox[p] \o items)
           /\ (inbox[p] \o items)[n] = inbox[p][n]
  BY <1>1, <1>3
<1>5. Len(inbox[p]) >= Len(inbox[p])
  BY <1>1
<1> QED BY <1>2, <1>4, <1>5

\* A child that is embedded, and is not taken for another, is running or has
\* ended.
LEMMA EmbeddedShown ==
  ASSUME TypeOK, Reach, embedded, ~Ghost
  PROVE  pid \in Pids /\ (proc[pid] = "running" \/ proc[pid] \in Gone)
<1>1. pid = embedder /\ embedder # 0
  BY DEF Reach, Senders, Ghost
<1>2. proc[embedder] \in Shown
  BY <1>1 DEF Reach, Senders
<1> QED BY <1>1, <1>2 DEF TypeOK, Shown

\* A running child that is sent Quit departs.
LEMMA QuitSent ==
  ASSUME TypeOK, NEW p \in Pids, proc[p] = "running" \/ proc[p] \in Gone,
         proc' = proc, NEW items \in Seq(Items), inbox' = Heard(items),
         NEW i \in DOMAIN items, items[i] = Quit
  PROVE  Departing(p)'
<1>1. CASE proc[p] \in Gone
  BY <1>1 DEF Departing
<1>2. CASE proc[p] = "running"
  <2>1. inbox'[p] = inbox[p] \o items /\ inbox[p] \in Seq(Items)
    BY <1>2 DEF Heard, TypeOK
  <2>2. /\ Len(inbox[p]) + i \in DOMAIN inbox'[p]
        /\ inbox'[p][Len(inbox[p]) + i] = Quit
    BY <2>1
  <2> QED BY <1>2, <2>2 DEF Departing, Leaving
<1> QED BY <1>1, <1>2

\* Steps that set no timer and remove nothing: what departs goes on doing so,
\* and a new child finds no timer running.
LEMMA DepartsKept ==
  ASSUME TypeOK, Departs,
         UNCHANGED <<exists, pid, reentered>>,
         Ghost => Ghost',
         timer' => timer, asking' # <<>> => asking # <<>>, realized' = realized,
         \A p \in Pids : proc[p] # "unborn" => proc'[p] # "unborn",
         \A p \in Pids : Departing(p) => Departing(p)',
         \A p \in Pids : Alive(p)' => Alive(p)
  PROVE  Departs'
<1>1. ChildrenDepart'
  BY DEF Departs, ChildrenDepart, TypeOK
<1>2. exists' /\ (timer' \/ asking' # <<>>) => realized'
  BY DEF Departs
<1>3. pid' # 0 => proc'[pid'] # "unborn"
  BY DEF Departs, TypeOK
<1> QED BY <1>1, <1>2, <1>3 DEF Departs

LEMMA SpawnDeparts ==
  ASSUME TypeOK, exists', pid = 0, ChildSpawn, ~timer',
         asking' # <<>> => realized'
  PROVE  Departs'
<1>1. pid' # 0 => proc'[pid'] # "unborn"
  <2>1. CASE Spawned
    <3>1. born + 1 \in Pids /\ pid' = born + 1
          /\ proc' = [proc EXCEPT ![born + 1] = "born"]
      BY <2>1 DEF Spawned, TypeOK
    <3> QED BY <3>1 DEF TypeOK
  <2>2. CASE NotSpawned
    BY <2>2 DEF NotSpawned
  <2> QED BY <2>1, <2>2 DEF ChildSpawn
<1> QED BY <1>1 DEF Departs, ChildrenDepart

LEMMA EnqueueKept ==
  ASSUME TypeOK, NEW items \in Seq(Items), Enqueue(items), proc' = proc
  PROVE  \A p \in Pids : Departing(p) => Departing(p)'
<1> SUFFICES ASSUME NEW p \in Pids, Departing(p) PROVE Departing(p)'
  OBVIOUS
<1>1. CASE embedded
  <2>1. queue \o items \in Seq(Items)
    BY DEF TypeOK
  <2>2. inbox' = Heard(queue \o items)
    BY <1>1 DEF Enqueue
  <2> QED BY <2>1, <2>2, HeardAt DEF Departing, Leaving
<1>2. CASE ~embedded
  BY <1>2, DepartingKept DEF Enqueue
<1> QED BY <1>1, <1>2

LEMMA SetAllProviderInfoDeparts ==
  ASSUME TypeOK, Departs, SetAllProviderInfo PROVE Departs'
<1>1. \A p \in Pids : Departing(p) => Departing(p)'
  BY ProviderInfoTyped, EnqueueKept DEF SetAllProviderInfo
<1> QED BY <1>1, DepartsKept DEF SetAllProviderInfo, Ghost, Alive

LEMMA SetInfoDeparts == ASSUME TypeOK, Departs, SetInfo PROVE Departs'
<1>1. <<Item("info", info + 1)>> \in Seq(Items)
  BY DEF TypeOK, Item, Items
<1>2. \A p \in Pids : Departing(p) => Departing(p)'
  BY <1>1, EnqueueKept DEF SetInfo
<1> QED BY <1>2, DepartsKept DEF SetInfo, Ghost, Alive

LEMMA MoveDeparts == ASSUME TypeOK, Reach, Departs, Move PROVE Departs'
<1>1. /\ exists /\ realized /\ asking = <<>>
      /\ UNCHANGED <<exists, realized, asking, embedded, embedder>>
  BY DEF Move, Ready
<1>2. CASE MoveWithoutChild
  BY <1>1, <1>2, SpawnDeparts DEF MoveWithoutChild
<1>3. CASE MoveEmbedded
  <2> DEFINE items == <<Quit>> \o ProviderInfo
  <2>1. /\ queue \in Seq(Items) /\ items \in Seq(Items)
        /\ 1 \in DOMAIN items /\ items[1] = Quit
    <3>1. <<Quit>> \in Seq(Items) /\ ProviderInfo \in Seq(Items)
      BY ProviderInfoTyped DEF Quit, Item, Items
    <3>2. queue \in Seq(Items)
      BY DEF TypeOK
    <3> QED BY <3>1, <3>2
  <2>2. /\ embedded /\ Enqueue(items) /\ UNCHANGED <<pid, proc, reentered>>
    BY <1>3 DEF MoveEmbedded
  <2> HIDE DEF items
  <2>3. /\ queue \o items \in Seq(Items)
        /\ Len(queue) + 1 \in DOMAIN (queue \o items)
        /\ (queue \o items)[Len(queue) + 1] = Quit
    BY <2>1
  <2>4. inbox' = Heard(queue \o items)
    BY <2>2 DEF Enqueue
  <2>5. ~Ghost => Departing(pid)'
    BY <2>2, <2>3, <2>4, EmbeddedShown, QuitSent
  <2> QED BY <1>1, <2>2, <2>5 DEF Departs, ChildrenDepart, Ghost, Departing, Leaving
<1>4. CASE MoveStarting
  <2>1. pid # 0 /\ Kill /\ UNCHANGED <<pid, reentered>>
    BY <1>4 DEF MoveStarting
  <2>2. proc'[pid] \in Gone
    BY <2>1 DEF Kill, Ends, Departs, TypeOK, Alive, Gone, Living
  <2> QED BY <1>1, <2>1, <2>2 DEF Departs, ChildrenDepart, Departing, Gone
<1> QED BY <1>2, <1>3, <1>4 DEF Move

\* A removal: the child is killed, or sent Quit, if the panel takes it for
\* embedded.
LEMMA RemovalDeparts ==
  ASSUME TypeOK, OneChild, Reach, Departs, exists, RemovePlugin,
         UNCHANGED <<pid, embedded, embedder, asking>>
  PROVE  Departs'
<1>1. CASE locked
  <2>1. UNCHANGED <<exists, realized, timer, reentered, proc, inbox>>
    BY <1>1 DEF RemovePlugin
  <2>2. \A p \in Pids : Departing(p) => Departing(p)'
    BY <2>1 DEF Departing, Leaving
  <2> QED BY <2>1, <2>2, DepartsKept DEF Ghost, Alive
<1>2. CASE ~locked
  <2>1. ~exists' /\ Unrealize
    BY <1>2 DEF RemovePlugin
  <2>2. ASSUME ~Ghost', NEW p \in Pids, Alive(p)' PROVE Departing(p)'
    <3>1. CASE pid # 0 /\ ~embedded
      <4>1. Kill
        BY <2>1, <3>1 DEF Unrealize
      <4> QED BY <2>2, <3>1, <4>1
              DEF Kill, Ends, TypeOK, OneChild, Alive, Living
    <3>2. CASE pid # 0 /\ embedded
      <4>1. inbox' = Heard(<<Removed, Quit>>) /\ proc' = proc
        BY <2>1, <3>2 DEF Unrealize
      <4>2. /\ <<Removed, Quit>> \in Seq(Items)
            /\ 2 \in DOMAIN <<Removed, Quit>> /\ <<Removed, Quit>>[2] = Quit
        BY DEF Removed, Quit, Item, Items
      <4>3. p = pid
        BY <2>2, <4>1 DEF OneChild, Alive
      <4>4. ~Ghost
        BY <2>2 DEF Ghost
      <4> QED BY <3>2, <4>1, <4>2, <4>3, <4>4, EmbeddedShown, QuitSent
    <3>3. CASE pid = 0
      <4>1. proc' = proc
        BY <2>1, <3>3 DEF Unrealize
      <4> QED BY <2>2, <3>3, <4>1 DEF OneChild, Alive
    <3> QED BY <3>1, <3>2, <3>3
  <2>3. pid # 0 => proc'[pid] # "unborn"
    BY <2>1 DEF Unrealize, Kill, Ends, Departs, TypeOK
  <2> QED BY <2>1, <2>2, <2>3 DEF Departs, ChildrenDepart
<1> QED BY <1>1, <1>2

LEMMA DeliverDeparts ==
  ASSUME TypeOK, OneChild, Reach, Departs, Deliver PROVE Departs'
<1>1. exists /\ UNCHANGED <<pid, asking>>
  BY DEF Deliver, Ready
<1>2. CASE Head(bus).k = "embedded"
  <2> DEFINE p == Head(bus).from
  <2>1. ProxyEmbedded(p)
    BY <1>2 DEF Deliver
  <2>2. /\ UNCHANGED <<exists, realized, timer, reentered, proc>>
        /\ Ghost => Ghost'
    BY <1>1, <2>1 DEF ProxyEmbedded, Ghost
  <2>3. \A q \in Pids : Departing(q) => Departing(q)'
    <3>1. CASE embedded
      BY <2>1, <3>1 DEF ProxyEmbedded, Departing, Leaving
    <3>2. CASE ~embedded
      <4>1. inbox' = Heard(queue) /\ queue \in Seq(Items)
        BY <2>1, <3>2 DEF ProxyEmbedded, TypeOK
      <4> QED BY <2>2, <4>1, HeardAt DEF Departing, Leaving
    <3> QED BY <3>1, <3>2
  <2> QED BY <1>1, <2>2, <2>3, DepartsKept DEF Alive
<1>3. CASE Head(bus).k # "embedded"
  BY <1>1, <1>3, RemovalDeparts DEF Deliver, ProviderSignal
<1> QED BY <1>2, <1>3

LEMMA RespawnDeparts == ASSUME TypeOK, Departs, Respawn PROVE Departs'
<1>1. /\ exists /\ ~timer'
      /\ UNCHANGED <<exists, realized, asking, embedded, embedder, inbox>>
  BY DEF Respawn, Ready
<1>2. asking' # <<>> => realized'
  BY <1>1 DEF Departs
<1>3. CASE NotSpawned
  BY <1>1, <1>2, <1>3 DEF NotSpawned, Departs, ChildrenDepart
<1>4. CASE pid = 0 /\ ChildSpawn
  BY <1>1, <1>2, <1>4, SpawnDeparts
<1> QED BY <1>3, <1>4 DEF Respawn

LEMMA ChildWatchDeparts ==
  ASSUME TypeOK, Departs, NEW p \in Pids, ChildWatch(p) PROVE Departs'
<1>1. /\ exists /\ UNCHANGED <<exists, realized>> /\ pid' = 0
      /\ NoRestart(p) \/ Refused(p) \/ RestartSilently(p) \/ Ask(p)
  BY DEF ChildWatch, Ready
<1>2. exists' /\ (timer' \/ asking' # <<>>) => realized'
  BY <1>1 DEF NoRestart, Refused, RestartSilently, Ask, Departs
<1> QED BY <1>1, <1>2 DEF Departs, ChildrenDepart

LEMMA AnswerExecuteDeparts ==
  ASSUME TypeOK, AskedWithoutChild, Departs, AnswerExecute PROVE Departs'
<1>1. /\ exists /\ asking # <<>>
      /\ UNCHANGED <<exists, realized, pid, proc, reentered>>
  BY DEF AnswerExecute, Ready
<1>2. ~reentered => pid = 0
  BY <1>1 DEF AskedWithoutChild
<1> QED BY <1>1, <1>2 DEF Departs, ChildrenDepart

LEMMA AnswerRemoveDeparts ==
  ASSUME TypeOK, Departs, AnswerRemove PROVE Departs'
<1>1. /\ asking # <<>>
      /\ UNCHANGED <<exists, realized, pid, proc, reentered, timer, embedded,
                     embedder, inbox>>
  BY DEF AnswerRemove
<1>2. \A p \in Pids : Departing(p) => Departing(p)'
  BY <1>1 DEF Departing, Leaving
<1> QED BY <1>1, <1>2, DepartsKept DEF Ghost, Alive

\* Every step of a process ends it, or leaves what it was told to go.
LEMMA GproxySetDeparting ==
  ASSUME TypeOK, NEW p \in Pids, GproxySet(p), NEW q \in Pids, Departing(q)
  PROVE  Departing(q)'
<1>1. /\ proc[p] = "running" /\ inbox[p] # <<>> /\ inbox[p] \in Seq(Items)
      /\ inbox \in [Pids -> Seq(Items)]
  BY DEF GproxySet, TypeOK
<1>2. CASE Head(inbox[p]).k = "quit"
  <2>1. Ends(p, "success")
    BY <1>2 DEF GproxySet
  <2> QED BY <2>1, DepartingKept DEF Ends, TypeOK, Gone
<1>3. CASE Head(inbox[p]).k # "quit"
  <2>1. inbox' = [inbox EXCEPT ![p] = Tail(inbox[p])] /\ proc' = proc
    BY <1>3 DEF GproxySet
  <2>2. CASE q # p
    BY <1>1, <2>1, <2>2, DepartingKept
  <2>3. CASE q = p
    <3>1. PICK i \in DOMAIN inbox[p] : inbox[p][i] = Quit
      BY <1>1, <2>3 DEF Departing, Gone, Leaving
    <3>2. i # 1
      BY <1>1, <1>3, <3>1 DEF Quit, Item
    <3>3. /\ inbox'[p] = Tail(inbox[p])
          /\ i - 1 \in DOMAIN Tail(inbox[p])
          /\ Tail(inbox[p])[i - 1] = Quit
      BY <1>1, <2>1, <3>1, <3>2
    <3> QED BY <1>1, <2>1, <2>3, <3>3 DEF Departing, Leaving
  <2> QED BY <2>2, <2>3
<1> QED BY <1>2, <1>3

LEMMA ProcessDeparts ==
  ASSUME TypeOK, Departs, NEW p \in Pids,
         \/ Connect(p) \/ Plug(p) \/ Refuse(p) \/ GproxySet(p)
         \/ MenuRemove(p) \/ Fail(p)
  PROVE  Departs'
<1>1. UNCHANGED <<exists, pid, reentered, timer, asking, realized, embedded,
                  embedder>>
  BY DEF Connect, Plug, Refuse, GproxySet, MenuRemove, Fail, widgetVars
<1>2. /\ \A q \in Pids : proc[q] # "unborn" => proc'[q] # "unborn"
      /\ \A q \in Pids : Alive(q)' => Alive(q)
  BY DEF Connect, Plug, Refuse, GproxySet, MenuRemove, Fail, Ends, TypeOK,
         Alive, Living, Gone
<1>3. ASSUME NEW q \in Pids, Departing(q) PROVE Departing(q)'
  <2>1. CASE GproxySet(p)
    BY <1>3, <2>1, GproxySetDeparting
  <2>2. CASE Connect(p) \/ Plug(p) \/ MenuRemove(p)
    <3>1. proc'[q] = proc[q] /\ inbox' = inbox
      BY <1>3, <2>2
         DEF Connect, Plug, MenuRemove, TypeOK, Departing, Gone
    <3> QED BY <1>3, <3>1, DepartingKept
  <2>3. CASE Ends(p, "refused") \/ Ends(p, "fault")
    BY <1>3, <2>3, DepartingKept DEF Ends, TypeOK, Gone
  <2> QED BY <2>1, <2>2, <2>3 DEF Refuse, Fail
<1> QED BY <1>1, <1>2, <1>3, DepartsKept DEF Ghost

LEMMA SameDeparts ==
  ASSUME Departs, UNCHANGED <<exists, pid, reentered, timer, asking, realized,
                              embedded, embedder, proc, inbox>>
  PROVE  Departs'
BY DEF Departs, ChildrenDepart, Departing, Leaving, Ghost, Alive

LEMMA NextDeparts ==
  ASSUME IInv, Reach, Departs, [Next]_vars PROVE Departs'
<1>1. TypeOK /\ OneChild /\ AskedWithoutChild
  BY DEF IInv
<1>2. CASE Panel
  <2>1. CASE Insert \/ Show
    <3>1. /\ exists /\ exists' /\ realized' /\ ~timer' /\ pid = 0 /\ ChildSpawn
      BY <1>1, <2>1 DEF Insert, Show, Ready, Departs, TypeOK
    <3> QED BY <1>1, <3>1, SpawnDeparts
  <2>2. CASE UserRemove
    BY <1>1, <2>2, RemovalDeparts DEF UserRemove, Ready
  <2>3. CASE RemoveIdle
    BY <1>1, <2>3, RemovalDeparts DEF RemoveIdle
  <2>4. CASE Elapse
    BY <2>4, SameDeparts DEF Elapse
  <2> QED BY <1>1, <1>2, <2>1, <2>2, <2>3, <2>4, SetAllProviderInfoDeparts,
             SetInfoDeparts, MoveDeparts, DeliverDeparts, RespawnDeparts,
             AnswerExecuteDeparts, AnswerRemoveDeparts DEF Panel
<1>3. CASE \E p \in Pids : Child(p)
  BY <1>1, <1>3, ChildWatchDeparts, ProcessDeparts DEF Child
<1>4. CASE UNCHANGED vars
  BY <1>4, SameDeparts DEF vars, widgetVars, childVars
<1> QED BY <1>2, <1>3, <1>4 DEF Next

LEMMA InitDeparts == Init => Departs
BY DEF Init, Departs, ChildrenDepart

\* For any number of processes and moves: whoever waits for a child to go,
\* the respawn timer or nobody any more, the child has ended or is going to read
\* that it must (panel_plugin_external_unrealize, child_respawn); the two
\* exceptions are those that ChildrenDepart names.
THEOREM ChildrenAreToldToGo == Spec => []ChildrenDepart
<1>1. IInv /\ Reach /\ Departs /\ [Next]_vars => Departs'
  BY NextDeparts
<1>2. TypeOK /\ Reach /\ [Next]_vars => Reach'
  BY NextReach
<1>3. Departs => ChildrenDepart
  BY DEF Departs
<1> QED BY InitReach, InitDeparts, Inductive, Types, <1>1, <1>2, <1>3, PTL
        DEF Spec

\* A Quit in the inbox of a process is never lost or overtaken: every step of
\* the process that reads brings it nearer, and every other step leaves it
\* where it is, unless the process is not alive after it.
QuitNears ==
  \A p \in Pids : \A n \in DOMAIN inbox[p] :
    inbox[p][n] = Quit =>
      \/ ~Alive(p)'
      \/ GproxySet(p) /\ n > 1 /\ inbox'[p][n - 1] = Quit
      \/ ~GproxySet(p) /\ n \in DOMAIN inbox'[p] /\ inbox'[p][n] = Quit

\* What a process does with its inbox.
LEMMA ReadNears ==
  ASSUME TypeOK, NEW p \in Pids, GproxySet(p), NEW n \in DOMAIN inbox[p],
         inbox[p][n] = Quit
  PROVE  ~Alive(p)' \/ (n > 1 /\ inbox'[p][n - 1] = Quit)
<1>1. inbox[p] \in Seq(Items) /\ inbox \in [Pids -> Seq(Items)]
  BY DEF TypeOK
<1>2. CASE Head(inbox[p]).k = "quit"
  BY <1>2 DEF GproxySet, Ends, TypeOK, Alive, Living
<1>3. CASE Head(inbox[p]).k # "quit"
  <2>1. inbox'[p] = Tail(inbox[p])
    BY <1>1, <1>3 DEF GproxySet
  <2>2. n # 1
    BY <1>1, <1>3 DEF Quit, Item
  <2>3. n > 1 /\ Tail(inbox[p])[n - 1] = inbox[p][n]
    BY <1>1, <2>2
  <2> QED BY <2>1, <2>3
<1> QED BY <1>2, <1>3

\* What anybody else does with it.
LEMMA OthersLeaveInbox ==
  ASSUME TypeOK, [Next]_vars, NEW p \in Pids, ~GproxySet(p),
         NEW n \in DOMAIN inbox[p]
  PROVE  ~Alive(p)' \/ (n \in DOMAIN inbox'[p] /\ inbox'[p][n] = inbox[p][n])
<1> DEFINE Kept == n \in DOMAIN inbox'[p] /\ inbox'[p][n] = inbox[p][n]
<1>1. ASSUME NEW items \in Seq(Items), Enqueue(items) PROVE Kept
  <2>1. CASE embedded
    <3>1. queue \o items \in Seq(Items) /\ inbox' = Heard(queue \o items)
      BY <1>1, <2>1 DEF TypeOK, Enqueue
    <3> QED BY <3>1, HeardAt
  <2>2. CASE ~embedded
    BY <1>1, <2>2 DEF Enqueue
  <2> QED BY <2>1, <2>2
<1>2. ASSUME NEW q \in Pids, NEW how \in Gone, Ends(q, how)
      PROVE  ~Alive(p)' \/ Kept
  BY <1>2 DEF Ends, TypeOK, Alive, Living, Gone
<1>3. ASSUME pid # 0, Kill PROVE ~Alive(p)' \/ Kept
  <2>1. CASE Alive(pid)
    BY <1>2, <1>3, <2>1 DEF Kill, Gone, TypeOK
  <2>2. CASE ~Alive(pid)
    BY <1>3, <2>2 DEF Kill
  <2> QED BY <2>1, <2>2
<1>4. ASSUME RemovePlugin PROVE ~Alive(p)' \/ Kept
  <2>1. CASE pid # 0 /\ Kill
    BY <1>3, <2>1
  <2>2. CASE inbox' \in {inbox, Heard(<<Removed>>), Heard(<<Removed, Quit>>)}
    <3>1. <<Removed>> \in Seq(Items) /\ <<Removed, Quit>> \in Seq(Items)
      BY DEF Removed, Quit, Item, Items
    <3> QED BY <2>2, <3>1, HeardAt
  <2> QED BY <1>4, <2>1, <2>2 DEF RemovePlugin, Unrealize
<1>5. CASE Panel
  <2>1. /\ ProviderInfo \in Seq(Items)
        /\ <<Quit>> \o ProviderInfo \in Seq(Items)
        /\ <<Item("info", info + 1)>> \in Seq(Items)
    <3>1. /\ ProviderInfo \in Seq(Items) /\ <<Quit>> \in Seq(Items)
          /\ <<Item("info", info + 1)>> \in Seq(Items)
      BY ProviderInfoTyped DEF TypeOK, Quit, Item, Items
    <3> QED BY <3>1
  <2>2. CASE SetAllProviderInfo \/ SetInfo \/ Move
    <3>1. CASE SetAllProviderInfo \/ SetInfo
      BY <1>1, <2>1, <3>1 DEF SetAllProviderInfo, SetInfo
    <3>2. CASE MoveWithoutChild \/ MoveEmbedded
      BY <1>1, <2>1, <3>2 DEF MoveWithoutChild, MoveEmbedded
    <3>3. CASE MoveStarting
      BY <1>3, <3>3 DEF MoveStarting
    <3> QED BY <2>2, <3>1, <3>2, <3>3 DEF Move
  <2>3. CASE UserRemove \/ RemoveIdle
    BY <1>4, <2>3 DEF UserRemove, RemoveIdle
  <2>4. CASE Deliver
    <3>1. CASE ProviderSignal
      BY <1>4, <3>1 DEF ProviderSignal
    <3>2. CASE inbox' \in {inbox, Heard(queue)}
      BY <3>2, HeardAt DEF TypeOK
    <3> QED BY <2>4, <3>1, <3>2 DEF Deliver, ProxyEmbedded
  <2>5. CASE \/ Insert \/ Show \/ Respawn \/ AnswerExecute \/ AnswerRemove
             \/ Elapse
    BY <2>5 DEF Insert, Show, Respawn, AnswerExecute, AnswerRemove, Elapse
  <2> QED BY <1>5, <2>2, <2>3, <2>4, <2>5 DEF Panel
<1>6. CASE \E q \in Pids : Child(q)
  <2> PICK q \in Pids : Child(q)
    BY <1>6
  <2>1. CASE ChildWatch(q) \/ Connect(q) \/ Plug(q) \/ MenuRemove(q)
    BY <2>1 DEF ChildWatch, Connect, Plug, MenuRemove
  <2>2. CASE Refuse(q) \/ Fail(q)
    BY <1>2, <2>2 DEF Refuse, Fail, Gone
  <2>3. CASE GproxySet(q)
    <3>1. q # p /\ inbox \in [Pids -> Seq(Items)]
      BY <2>3 DEF TypeOK
    <3>2. inbox'[p] = inbox[p]
      BY <2>3, <3>1 DEF GproxySet, Ends
    <3> QED BY <3>2
  <2> QED BY <2>1, <2>2, <2>3 DEF Child
<1>7. CASE UNCHANGED vars
  BY <1>7 DEF vars, childVars
<1> QED BY <1>5, <1>6, <1>7 DEF Next

\* For any number of messages before it: the Quit that a removal or a move sent
\* (panel_plugin_external_queue_add) comes nearer with every message that the
\* process reads, and nothing that the panel sends later gets in front of it.
\* With ChildrenAreToldToGo that is why children leave, given that the main
\* loop of the process runs.
THEOREM QuitComesNearer == Spec => [][QuitNears]_vars
<1>1. TypeOK /\ [Next]_vars => [QuitNears]_vars
  BY ReadNears, OthersLeaveInbox DEF QuitNears
<1> QED BY Types, <1>1, PTL DEF Spec
=============================================================================
