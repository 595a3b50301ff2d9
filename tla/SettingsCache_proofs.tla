------------------------ MODULE SettingsCache_proofs ------------------------
(***************************************************************************)
(* Proofs about the settings daemon and its clients: type correctness, what*)
(* the store keeps (SavedOrDirty, DirtyIsTimed, LockHolds), that nobody    *)
(* hangs, and that a client's own write is not overwritten by older news.  *)
(*                                                                         *)
(* The invariant adds to them: a property that is locked has no user value *)
(* (LockedUnset); the call a client is blocked in is the last of its       *)
(* queue, wanted and answered by nothing else (Sync); what a fetch answers *)
(* is a value (Typed); and the replies a write waits for are bounded by    *)
(* the writes made so far (Counted).                                       *)
(***************************************************************************)
EXTENDS SettingsCache, TLAPS

LockedUnset == lock = "property" => user = NoValue

StoreInv == StoreTypeOK /\ SavedOrDirty /\ DirtyIsTimed /\ LockedUnset

-----------------------------------------------------------------------------
(* The store: each of its operations preserves StoreInv.                   *)

\* What is read from a file is a value or nothing.
LEMMA LoadType ==
  ASSUME NEW f \in Values \cup {NoValue, NoFile}
  PROVE  Load(f) \in Values \cup {NoValue}
BY DEF Load

\* A locked property keeps the system's value because it has no other.
LEMMA LockHoldsFromInv == StoreInv => LockHolds
BY DEF StoreInv, LockHolds, LockedUnset, Current

\* The initial states satisfy the invariant.
LEMMA StoreInitInv == StoreInit => StoreInv
<1> SUFFICES ASSUME StoreInit PROVE StoreInv
  OBVIOUS
<1>1. user \in Values \cup {NoValue}
  BY LoadType DEF StoreInit
<1>2. StoreTypeOK
  BY <1>1 DEF StoreInit, StoreTypeOK
<1>3. SavedOrDirty /\ DirtyIsTimed /\ LockedUnset
  BY DEF StoreInit, SavedOrDirty, DirtyIsTimed, LockedUnset, Load
<1> QED BY <1>2, <1>3 DEF StoreInv

\* A step that leaves the store alone.
LEMMA StoreStutter == StoreInv /\ UNCHANGED storeVars => StoreInv'
BY DEF StoreInv, StoreTypeOK, SavedOrDirty, DirtyIsTimed, LockedUnset, Load,
       storeVars

\* A change of an unlocked property, or to no value.
LEMMA ChangeInv ==
  ASSUME StoreInv, NEW u \in Values \cup {NoValue}, Change(u),
         lock # "property" \/ u = NoValue
  PROVE  StoreInv'
BY DEF StoreInv, StoreTypeOK, SavedOrDirty, DirtyIsTimed, LockedUnset, Change,
       Announce, ScheduleSave

\* xfconf_backend_perchannel_xml_set
LEMMA StoreSetInv ==
  ASSUME StoreInv, NEW v \in Values \cup {NoValue}, NEW ok \in BOOLEAN,
         StoreSet(v, ok)
  PROVE  StoreInv'
BY StoreStutter, ChangeInv DEF StoreSet, Locked

\* xfconf_backend_perchannel_xml_reset
LEMMA StoreResetInv ==
  ASSUME StoreInv, NEW how, NEW ok \in BOOLEAN, StoreReset(how, ok)
  PROVE  StoreInv'
<1>1. CASE ResetOne(ok)
  BY <1>1, StoreStutter, ChangeInv DEF ResetOne
<1>2. CASE ResetTree(ok)
  <2>1. CASE ScheduleSave /\ UNCHANGED <<system, lock, user, file, notify, faults>>
    BY <2>1 DEF StoreInv, StoreTypeOK, SavedOrDirty, DirtyIsTimed, LockedUnset,
                ScheduleSave
  <2>2. CASE UNCHANGED storeVars
    BY <2>2, StoreStutter
  <2>3. CASE Change(NoValue)
    BY <2>3, ChangeInv
  <2> QED BY <1>2, <2>1, <2>2, <2>3 DEF ResetTree
<1>3. CASE ResetChannel(ok)
  <2>1. user' = Load(file') /\ file' \in {file, NoFile}
    BY <1>3 DEF ResetChannel, Load
  <2>2. user' \in Values \cup {NoValue} /\ file' \in Values \cup {NoValue, NoFile}
    BY <2>1, LoadType DEF StoreInv, StoreTypeOK
  <2>3. faults' \subseteq Faults /\ notify' \in Nat
    BY <1>3 DEF ResetChannel, StoreInv, StoreTypeOK, May
  <2>4. StoreTypeOK'
    BY <1>3, <2>2, <2>3 DEF ResetChannel, StoreInv, StoreTypeOK
  <2>5. SavedOrDirty' /\ DirtyIsTimed' /\ LockedUnset'
    BY <1>3, <2>1 DEF ResetChannel, StoreInv, SavedOrDirty, DirtyIsTimed,
                      LockedUnset, Load
  <2> QED BY <2>4, <2>5 DEF StoreInv
<1> QED BY <1>1, <1>2, <1>3 DEF StoreReset

\* What a flush leaves in the file will be loaded as what is in memory.
LEMMA FlushedIsLoaded ==
  ASSUME StoreInv, NEW f, NEW fl, Flushed(f, fl)
  PROVE  /\ fl \subseteq Faults /\ faults \subseteq fl
         /\ "write" \in fl \/ lock = "channel" \/ Load(f) = user
<1> USE DEF StoreInv, StoreTypeOK
<1>1. fl \subseteq Faults /\ faults \subseteq fl
  BY DEF Flushed, May
<1>2. CASE dirty /\ f = user
  BY <1>1, <1>2, StoreAssumption DEF Load, LockedUnset
<1>3. CASE ~dirty /\ f = file
  BY <1>1, <1>3 DEF SavedOrDirty
<1>4. CASE "write" \in fl
  BY <1>1, <1>4
<1> QED BY <1>1, <1>2, <1>3, <1>4 DEF Flushed

\* xfconf_backend_perchannel_xml_save_timeout
LEMMA SaveTimeoutInv == StoreInv /\ SaveTimeout => StoreInv'
<1> SUFFICES ASSUME StoreInv, SaveTimeout PROVE StoreInv'
  OBVIOUS
<1>1. PICK f \in Values \cup {NoValue, NoFile},
           fl \in {faults, faults \cup {"write"}} :
        Flushed(f, fl) /\ file' = f /\ faults' = fl
  BY DEF SaveTimeout
<1>2. fl \subseteq Faults /\ ("write" \in fl \/ lock = "channel" \/ Load(f) = user)
  BY <1>1, FlushedIsLoaded
<1>3. StoreTypeOK'
  BY <1>1, <1>2 DEF SaveTimeout, StoreInv, StoreTypeOK
<1>4. SavedOrDirty' /\ DirtyIsTimed' /\ LockedUnset'
  BY <1>1, <1>2 DEF SaveTimeout, StoreInv, SavedOrDirty, DirtyIsTimed,
                    LockedUnset, Load
<1> QED BY <1>3, <1>4 DEF StoreInv

\* A new daemon knows what is in the file.
LEMMA StartAnewInv ==
  ASSUME StoreInv, NEW f \in Values \cup {NoValue, NoFile}, NEW fl,
         fl \subseteq Faults, NEW interrupted \in BOOLEAN,
         StartAnew(f, fl, interrupted)
  PROVE  StoreInv'
<1>1. user' \in Values \cup {NoValue}
  BY LoadType DEF StartAnew
<1>2. StoreTypeOK'
  BY <1>1 DEF StartAnew, StoreInv, StoreTypeOK, May
<1>3. SavedOrDirty' /\ DirtyIsTimed' /\ LockedUnset'
  BY DEF StartAnew, SavedOrDirty, DirtyIsTimed, LockedUnset, Load
<1> QED BY <1>2, <1>3 DEF StoreInv

\* The daemon is killed, or ends.
LEMMA RestartInv ==
  ASSUME StoreInv, NEW interrupted \in BOOLEAN,
         Crash(interrupted) \/ Quit(interrupted)
  PROVE  StoreInv'
<1>1. CASE StartAnew(file, faults, interrupted)
  BY <1>1, StartAnewInv DEF StoreInv, StoreTypeOK
<1>2. CASE \E f \in Values \cup {NoValue, NoFile}, fl \in {faults, faults \cup {"write"}} :
             Flushed(f, fl) /\ StartAnew(f, fl, interrupted)
  BY <1>2, FlushedIsLoaded, StartAnewInv
<1> QED BY <1>1, <1>2 DEF Crash, Quit

-----------------------------------------------------------------------------
(* The queue of calls of one client.                                       *)

NoneWanted(q) == \A i \in DOMAIN q : ~q[i].wanted
NoSync(q) == \A i \in DOMAIN q : q[i].wanted => q[i].op = "Set"
NoWrite(q) == \A i \in DOMAIN q : q[i].wanted => q[i].op # "Set"
SyncIsLast(q) ==
  \A i \in DOMAIN q : q[i].wanted /\ q[i].op # "Set" => i = Len(q)

\* The last call is synchronous, not answered, and a Get if get holds.
EndsIn(q, get) ==
  /\ q # <<>>
  /\ q[Len(q)].wanted
  /\ q[Len(q)].op # "Set"
  /\ get => q[Len(q)].op = "Get"

\* Appending a synchronous call to a queue without one.
LEMMA AppendSync ==
  ASSUME NEW q \in Seq(Requests), NoSync(q), NEW r \in Requests,
         r.wanted, r.op # "Set", NEW get \in BOOLEAN, get => r.op = "Get"
  PROVE  /\ Append(q, r) \in Seq(Requests)
         /\ SyncIsLast(Append(q, r)) /\ EndsIn(Append(q, r), get)
         /\ NoWrite(q) => NoWrite(Append(q, r))
BY DEF NoSync, SyncIsLast, EndsIn, NoWrite

\* A call that is not waited for.
LEMMA CancelledCall ==
  ASSUME NEW r \in Requests
  PROVE  /\ [r EXCEPT !.wanted = FALSE] \in Requests
         /\ [r EXCEPT !.wanted = FALSE].op = r.op
         /\ ~[r EXCEPT !.wanted = FALSE].wanted
BY DEF Requests

\* Cancelling all calls of a queue.
LEMMA Cancelled ==
  ASSUME NEW q \in Seq(Requests)
  PROVE  /\ Unwanted(q) \in Seq(Requests) /\ Len(Unwanted(q)) = Len(q)
         /\ NoneWanted(Unwanted(q)) /\ NoSync(Unwanted(q)) /\ NoWrite(Unwanted(q))
<1>1. \A i \in 1 .. Len(q) : q[i] \in Requests
  OBVIOUS
<1>2. DOMAIN q = 1 .. Len(q) /\ Len(q) \in Nat
  OBVIOUS
<1>3. Unwanted(q) \in Seq(Requests) /\ Len(Unwanted(q)) = Len(q)
  BY <1>1, <1>2, CancelledCall DEF Unwanted
<1>4. \A i \in 1 .. Len(q) : ~Unwanted(q)[i].wanted
  BY <1>1, <1>2, CancelledCall DEF Unwanted
<1> QED BY <1>2, <1>3, <1>4 DEF NoneWanted, NoSync, NoWrite, Unwanted

\* A write after cancelled calls.
LEMMA AppendWrite ==
  ASSUME NEW q \in Seq(Requests), NoneWanted(q), NEW r \in Requests,
         r.op = "Set"
  PROVE  Append(q, r) \in Seq(Requests) /\ NoSync(Append(q, r))
BY DEF NoneWanted, NoSync

\* The daemon takes the first call.
LEMMA TailOf ==
  ASSUME NEW q \in Seq(Requests), q # <<>>
  PROVE  /\ Tail(q) \in Seq(Requests)
         /\ Head(q) \in Requests
         /\ SyncIsLast(q) => SyncIsLast(Tail(q))
         /\ NoSync(q) => NoSync(Tail(q))
         /\ NoneWanted(q) => NoneWanted(Tail(q)) /\ ~Head(q).wanted
         /\ NoWrite(q) => NoWrite(Tail(q))
         /\ SyncIsLast(q) /\ Head(q).wanted /\ Head(q).op # "Set"
              => NoneWanted(Tail(q)) /\ Head(q) = q[Len(q)]
         /\ \A get \in BOOLEAN :
              EndsIn(q, get) /\ ~(Head(q).wanted /\ Head(q).op # "Set")
                => EndsIn(Tail(q), get)
<1>1. /\ Tail(q) \in Seq(Requests) /\ Head(q) = q[1] /\ Len(q) \in Nat \ {0}
      /\ Len(Tail(q)) = Len(q) - 1
      /\ \A i \in 1 .. Len(q) - 1 : Tail(q)[i] = q[i + 1]
  OBVIOUS
<1> QED BY <1>1 DEF SyncIsLast, NoSync, NoneWanted, NoWrite, EndsIn

\* The client gives up the first call that it waits for.
Given(q, i) == [q EXCEPT ![i].wanted = FALSE]

LEMMA GivenUp ==
  ASSUME NEW q \in Seq(Requests), NEW i \in DOMAIN q, q[i].wanted,
         \A j \in DOMAIN q : q[j].wanted => i <= j
  PROVE  /\ Given(q, i) \in Seq(Requests)
         /\ SyncIsLast(q) => SyncIsLast(Given(q, i))
         /\ NoSync(q) => NoSync(Given(q, i))
         /\ NoWrite(q) => NoWrite(Given(q, i))
         /\ SyncIsLast(q) /\ q[i].op # "Set" => NoneWanted(Given(q, i))
         /\ \A get \in BOOLEAN :
              EndsIn(q, get) /\ q[i].op = "Set" => EndsIn(Given(q, i), get)
<1> DEFINE p == Given(q, i)
<1>1. DOMAIN q = 1 .. Len(q) /\ Len(q) \in Nat /\ q[i] \in Requests
  OBVIOUS
<1>2. p = [q EXCEPT ![i] = [q[i] EXCEPT !.wanted = FALSE]]
  BY DEF Given
<1> HIDE DEF p
<1>3. p \in Seq(Requests) /\ Len(p) = Len(q) /\ DOMAIN p = DOMAIN q
  BY <1>1, <1>2, CancelledCall
<1>4. \A j \in DOMAIN p : p[j].op = q[j].op /\ (p[j].wanted <=> q[j].wanted /\ j # i)
  BY <1>1, <1>2, <1>3, CancelledCall
<1>5. /\ p \in Seq(Requests)
      /\ SyncIsLast(q) => SyncIsLast(p)
      /\ NoSync(q) => NoSync(p)
      /\ NoWrite(q) => NoWrite(p)
      /\ SyncIsLast(q) /\ q[i].op # "Set" => NoneWanted(p)
      /\ \A get \in BOOLEAN : EndsIn(q, get) /\ q[i].op = "Set" => EndsIn(p, get)
  BY <1>1, <1>3, <1>4 DEF SyncIsLast, NoSync, NoWrite, NoneWanted, EndsIn
<1> QED BY <1>5 DEF p

-----------------------------------------------------------------------------
(* The invariant of the clients.                                           *)

ClientTypeOK ==
  /\ phase \in [Clients -> {"new", "open", "closed"}]
  /\ cache \in [Clients -> Values \cup {NoItem, Absent}]
  /\ pending \in [Clients -> SUBSET OldItems]
  /\ call \in [Clients -> SUBSET Calls]
  /\ requests \in [Clients -> Seq(Requests)]
  /\ answer \in [Clients -> SUBSET Answers]
  /\ inbox \in [Clients -> Seq(Events)]
  /\ writes \in 0 .. MaxWrites

Fetches == {"Prefetch", "Lookup", "Set"}
Calling(c, ops) == \E k \in call[c] : k.op \in ops

Sync(c) ==
  /\ phase[c] = "new" => call[c] = {}
  /\ call[c] = {} => answer[c] = {} /\ NoSync(requests[c])
  /\ answer[c] # {} => NoneWanted(requests[c])
  /\ SyncIsLast(requests[c])
  /\ call[c] # {} /\ answer[c] = {} =>
       EndsIn(requests[c], Calling(c, Fetches))

Typed(c) ==
  /\ \A k \in call[c] : call[c] = {k} /\ (k.op = "Set" => k.v \in Values)
  /\ \A a \in answer[c] :
       Calling(c, Fetches) /\ a.result = "ok" => a.v \in Values

Counted(c) ==
  /\ Calling(c, {"Set"}) => 1 <= writes
  /\ \A p \in pending[c] :
       p.count <= writes /\ (Calling(c, {"Set"}) => p.count < writes)

Fresh(c) ==
  \A p \in pending[c] : NoWrite(requests[c]) \/ cache[c] \in {p.v, Absent}

ClientInv(c) == Sync(c) /\ Typed(c) /\ Counted(c) /\ Fresh(c)
ClientsInv == ClientTypeOK /\ \A c \in Clients : ClientInv(c)
IInv == StoreInv /\ ClientsInv

\* TypeOK is the types of the store and of the clients.
LEMMA TypeOKSplit == TypeOK <=> StoreTypeOK /\ ClientTypeOK
BY DEF TypeOK, ClientTypeOK

\* The two claims about the queues, in terms of the invariant.
LEMMA QueueClaims ==
  ASSUME ClientsInv, NEW c \in Clients
  PROVE  /\ Outstanding(c) <=> ~NoWrite(requests[c])
         /\ Waiting(c) <=> ~NoSync(requests[c])
         /\ call[c] # {} <=> answer[c] # {} \/ Waiting(c)
         /\ Wanted(c) = {} <=> NoneWanted(requests[c])
<1>1. /\ Outstanding(c) <=> ~NoWrite(requests[c])
      /\ Waiting(c) <=> ~NoSync(requests[c])
      /\ Wanted(c) = {} <=> NoneWanted(requests[c])
  BY DEF Outstanding, Waiting, Wanted, NoWrite, NoSync, NoneWanted
<1>2. ASSUME EndsIn(requests[c], Calling(c, Fetches)) PROVE ~NoSync(requests[c])
  <2>1. requests[c] \in Seq(Requests)
    BY DEF ClientsInv, ClientTypeOK
  <2> QED BY <1>2, <2>1 DEF EndsIn, NoSync
<1> QED BY <1>1, <1>2 DEF ClientsInv, ClientInv, Sync

\* What only concerns client c, and writes nothing off.
Local(c) ==
  /\ \A d \in Clients \ {c} :
       /\ phase'[d] = phase[d] /\ cache'[d] = cache[d]
       /\ pending'[d] = pending[d] /\ call'[d] = call[d]
       /\ requests'[d] = requests[d] /\ answer'[d] = answer[d]
  /\ writes' \in Nat /\ writes <= writes'

LEMMA LocalStep ==
  ASSUME ClientsInv, NEW c \in Clients, Local(c), ClientTypeOK', ClientInv(c)'
  PROVE  ClientsInv'
<1> SUFFICES ASSUME NEW d \in Clients \ {c} PROVE ClientInv(d)'
  BY DEF ClientsInv
<1>1. ClientInv(d)
  BY DEF ClientsInv
<1>2. Sync(d)' /\ Typed(d)' /\ Fresh(d)'
  BY <1>1 DEF ClientInv, Sync, Typed, Fresh, Calling, Local
<1>3. \A p \in pending[d] : p.count \in Nat
  BY CacheAssumption DEF ClientsInv, ClientTypeOK, OldItems
<1>4. writes \in Nat
  BY DEF ClientsInv, ClientTypeOK
<1>5. Counted(d)'
  BY <1>1, <1>3, <1>4 DEF ClientInv, Counted, Calling, Local
<1> QED BY <1>2, <1>5 DEF ClientInv

-----------------------------------------------------------------------------
(* Calls of the library.                                                   *)

\* A client that waits for nothing blocks in a call.
LEMMA BlockInv ==
  ASSUME ClientsInv, NEW c \in Clients, call[c] = {},
         NEW op \in {"Prefetch", "Lookup", "Set", "Reset", "ResetRoot"},
         NEW v \in Values \cup {NoValue}, NEW request \in {"Get"} \cup Resets,
         op \in Fetches => request = "Get",
         op = "Set" => v \in Values /\ writes < writes',
         Block(c, op, v, request),
         phase' \in [Clients -> {"new", "open", "closed"}], phase'[c] # "new",
         \A d \in Clients \ {c} : phase'[d] = phase[d],
         writes' \in 0 .. MaxWrites, writes <= writes',
         UNCHANGED <<cache, pending, answer, inbox>>
  PROVE  ClientsInv'
<1> DEFINE r == [op |-> request, v |-> v, wanted |-> TRUE]
           k == [op |-> op, v |-> v]
<1> USE CacheAssumption
<1>1. ClientTypeOK /\ ClientInv(c)
  BY DEF ClientsInv
<1>2. r \in Requests /\ k \in Calls
  BY DEF Requests, Calls, Resets
<1>3. /\ requests[c] \in Seq(Requests)
      /\ requests' = [requests EXCEPT ![c] = Append(requests[c], r)]
      /\ call' = [call EXCEPT ![c] = {k}]
  BY <1>1 DEF ClientTypeOK, Block, Put
<1>4. /\ requests'[c] = Append(requests[c], r)
      /\ call'[c] = {k}
      /\ Calling(c, Fetches)' <=> op \in Fetches
      /\ Calling(c, {"Set"})' <=> op = "Set"
  <2>1. requests'[c] = Append(requests[c], r) /\ call'[c] = {k}
    BY <1>1, <1>3 DEF ClientTypeOK
  <2> QED BY <2>1 DEF Calling
<1>5. NoSync(requests[c]) /\ answer[c] = {}
  BY <1>1 DEF ClientInv, Sync
<1>6. /\ requests'[c] \in Seq(Requests)
      /\ SyncIsLast(requests'[c])
      /\ EndsIn(requests'[c], op \in Fetches)
      /\ NoWrite(requests[c]) => NoWrite(requests'[c])
  <2>1. r.wanted /\ r.op # "Set" /\ (op \in Fetches => r.op = "Get")
    BY DEF Resets
  <2>2. (op \in Fetches) \in BOOLEAN
    OBVIOUS
  <2> HIDE DEF r
  <2>3. /\ Append(requests[c], r) \in Seq(Requests)
        /\ SyncIsLast(Append(requests[c], r))
        /\ EndsIn(Append(requests[c], r), op \in Fetches)
        /\ NoWrite(requests[c]) => NoWrite(Append(requests[c], r))
    <3> DEFINE q == requests[c]
               g == op \in Fetches
    <3>1. q \in Seq(Requests) /\ NoSync(q)
      BY <1>3, <1>5
    <3>2. r \in Requests /\ r.wanted /\ r.op # "Set"
          /\ g \in BOOLEAN /\ (g => r.op = "Get")
      BY <1>2, <2>1, <2>2
    <3> HIDE DEF q, g
    <3>3. /\ Append(q, r) \in Seq(Requests)
          /\ SyncIsLast(Append(q, r)) /\ EndsIn(Append(q, r), g)
          /\ NoWrite(q) => NoWrite(Append(q, r))
      BY <3>1, <3>2, AppendSync
    <3> QED BY <3>3 DEF q, g
  <2> QED BY <1>4, <2>3
<1> HIDE DEF r, k
<1>7. ClientTypeOK'
  BY <1>1, <1>2, <1>3, <1>6, <1>4 DEF ClientTypeOK
<1>8. Sync(c)'
  <2>1. EndsIn(requests'[c], Calling(c, Fetches)')
    BY <1>4, <1>6 DEF EndsIn
  <2>2. answer'[c] = {} /\ call'[c] # {} /\ phase'[c] # "new"
    BY <1>4, <1>5
  <2> QED BY <1>6, <2>1, <2>2 DEF Sync
<1>9. Typed(c)' /\ Fresh(c)'
  BY <1>1, <1>4, <1>5, <1>6 DEF Typed, Fresh, ClientInv, k
<1>10. Counted(c)'
  <2>1. \A p \in pending[c] : p.count \in Nat /\ p.count <= writes
    BY <1>1 DEF ClientInv, Counted, ClientTypeOK, OldItems
  <2>2. writes \in Nat /\ writes' \in Nat
    BY <1>1 DEF ClientTypeOK
  <2>3. pending' = pending /\ (op = "Set" => writes < writes') /\ writes <= writes'
    OBVIOUS
  <2> QED BY <1>4, <2>1, <2>2, <2>3 DEF Counted
<1>11. Local(c)
  BY <1>1, <1>3 DEF Local, ClientTypeOK
<1> QED BY <1>7, <1>8, <1>9, <1>10, <1>11, LocalStep DEF ClientInv

\* xfconf_cache_new and xfconf_cache_prefetch
LEMMA OpenInv == ASSUME ClientsInv, NEW c \in Clients, Open(c) PROVE ClientsInv'
<1>1. ClientTypeOK /\ call[c] = {}
  BY DEF ClientsInv, ClientInv, Sync, Open
<1>2. /\ phase' \in [Clients -> {"new", "open", "closed"}] /\ phase'[c] # "new"
      /\ \A d \in Clients \ {c} : phase'[d] = phase[d]
      /\ writes' \in 0 .. MaxWrites /\ writes <= writes'
  BY <1>1, CacheAssumption DEF Open, Put, ClientTypeOK
<1> QED BY <1>1, <1>2, BlockInv DEF Open

\* xfconf_cache_lookup
LEMMA LookupInv == ASSUME ClientsInv, NEW c \in Clients, Lookup(c) PROVE ClientsInv'
<1>1. ClientTypeOK /\ call[c] = {}
  BY DEF ClientsInv, Lookup, Free
<1>2. /\ phase' \in [Clients -> {"new", "open", "closed"}] /\ phase'[c] # "new"
      /\ \A d \in Clients \ {c} : phase'[d] = phase[d]
      /\ writes' \in 0 .. MaxWrites /\ writes <= writes'
  BY <1>1, CacheAssumption DEF Lookup, Free, ClientTypeOK
<1> QED BY <1>1, <1>2, BlockInv DEF Lookup

\* xfconf_cache_reset
LEMMA ResetInv ==
  ASSUME ClientsInv, NEW c \in Clients, NEW how \in Resets, Reset(c, how)
  PROVE  ClientsInv'
<1>1. ClientTypeOK /\ call[c] = {}
  BY DEF ClientsInv, Reset, Free
<1>2. /\ phase' \in [Clients -> {"new", "open", "closed"}] /\ phase'[c] # "new"
      /\ \A d \in Clients \ {c} : phase'[d] = phase[d]
      /\ writes' \in 0 .. MaxWrites /\ writes <= writes'
  BY <1>1, CacheAssumption DEF Reset, Free, ClientTypeOK
<1>3. CASE how = "ResetRoot" /\ Block(c, "ResetRoot", NoValue, how)
  BY <1>1, <1>2, <1>3, BlockInv DEF Reset, Fetches
<1>4. CASE how # "ResetRoot" /\ Block(c, "Reset", NoValue, how)
  BY <1>1, <1>2, <1>4, BlockInv DEF Reset, Fetches
<1> QED BY <1>3, <1>4 DEF Reset

\* The replies of a queue of events grow by what is cancelled.
LEMMA FailuresType ==
  ASSUME NEW c \in Clients, NEW q \in Seq(Events)
  PROVE  q \o Failures(c) \in Seq(Events)
<1>1. Reply(FALSE) \in Events
  BY DEF Events
<1>2. Failures(c) \in Seq(Events)
  <2>1. <<>> \in Seq(Events) /\ \A e \in Events : <<e>> \in Seq(Events)
    OBVIOUS
  <2> QED BY <1>1, <2>1 DEF Failures
<1> QED BY <1>2

\* xfconf_cache_set once the cached value is known, by a client that is then
\* not blocked.
LEMMA SetKnownInv ==
  ASSUME ClientsInv, NEW c \in Clients, NEW v \in Values,
         NEW item \in Values \cup {NoItem, Absent}, SetKnown(c, v, item),
         call' \in [Clients -> SUBSET Calls], call'[c] = {},
         answer' \in [Clients -> SUBSET Answers], answer'[c] = {},
         \A d \in Clients \ {c} : call'[d] = call[d] /\ answer'[d] = answer[d],
         phase' = phase,
         NoSync(requests[c]), NoWrite(requests[c]) \/ cache[c] = item,
         writes' \in 1 .. MaxWrites, writes <= writes',
         \A p \in pending[c] : p.count < writes'
  PROVE  ClientsInv'
<1> DEFINE r == [op |-> "Set", v |-> v, wanted |-> TRUE]
           q == Unwanted(requests[c])
<1> USE CacheAssumption
<1>1. ClientTypeOK /\ ClientInv(c)
  BY DEF ClientsInv
<1>2. Calling(c, {"Set"})' = FALSE /\ Calling(c, Fetches)' = FALSE
  BY DEF Calling
<1>3. CASE /\ item = v
           /\ Put(cache, c, item)
           /\ UNCHANGED <<pending, requests, inbox>>
  <2>1. ClientTypeOK'
    BY <1>1, <1>3 DEF ClientTypeOK, Put
  <2>2. cache'[c] = item
    BY <1>1, <1>3 DEF ClientTypeOK, Put
  <2>3. Sync(c)' /\ Typed(c)'
    BY <1>1, <1>3 DEF ClientInv, Sync, Typed
  <2>4. Counted(c)'
    <3>1. \A p \in pending[c] : p.count \in Nat
      BY <1>1 DEF ClientTypeOK, OldItems
    <3> QED BY <1>2, <1>3, <3>1 DEF Counted
  <2>5. Fresh(c)'
    BY <1>1, <1>3, <2>2 DEF ClientInv, Fresh
  <2>6. Local(c)
    BY <1>1, <1>3 DEF Local, ClientTypeOK, Put
  <2> QED BY <2>1, <2>3, <2>4, <2>5, <2>6, LocalStep DEF ClientInv
<1>4. CASE /\ item # v
           /\ Put(pending, c, OneMore(c, item, v))
           /\ Put(requests, c, Append(q, r))
           /\ Put(inbox, c, inbox[c] \o Failures(c))
           /\ Put(cache, c, v)
  <2>1. requests[c] \in Seq(Requests) /\ inbox[c] \in Seq(Events)
        /\ pending[c] \subseteq OldItems
    BY <1>1 DEF ClientTypeOK
  <2>2. q \in Seq(Requests) /\ NoneWanted(q)
    BY <2>1, Cancelled
  <2>3. r \in Requests /\ r.op = "Set"
    BY DEF Requests
  <2>4. Append(q, r) \in Seq(Requests) /\ NoSync(Append(q, r))
    <3> HIDE DEF q, r
    <3> QED BY <2>2, <2>3, AppendWrite
  <2>5. \A p \in OneMore(c, item, v) :
          p \in OldItems /\ p.v = v /\ p.count <= writes'
    <3>1. CASE pending[c] = {}
      <4>1. (IF item \in Values THEN item ELSE NoValue) \in Values \cup {NoValue}
        OBVIOUS
      <4>2. Write(item, v) \in OldItems
        BY <4>1 DEF Write, OldItems
      <4>3. Write(item, v).v = v /\ Write(item, v).count = 1
        BY DEF Write
      <4> QED BY <3>1, <4>2, <4>3 DEF OneMore
    <3>2. CASE pending[c] # {}
      <4>1. ASSUME NEW p \in pending[c],
                   NEW n, n = [p EXCEPT !.v = v, !.count = @ + 1]
            PROVE  n \in OldItems /\ n.v = v /\ n.count <= writes'
        <5>1. p \in OldItems /\ p.count + 1 \in 1 .. MaxWrites /\ p.count + 1 <= writes'
          BY <2>1 DEF OldItems
        <5> QED BY <4>1, <5>1 DEF OldItems
      <4> QED BY <3>2, <4>1 DEF OneMore
    <3> QED BY <3>1, <3>2
  <2>6. ClientTypeOK'
    BY <1>1, <1>4, <2>1, <2>4, <2>5, FailuresType DEF ClientTypeOK, Put
  <2>7. cache'[c] = v /\ requests'[c] = Append(q, r)
        /\ pending'[c] = OneMore(c, item, v)
    BY <1>1, <1>4 DEF ClientTypeOK, Put
  <2>8. Sync(c)' /\ Typed(c)'
    <3>1. SyncIsLast(Append(q, r))
      BY <2>4 DEF NoSync, SyncIsLast
    <3>2. phase'[c] = "new" => call'[c] = {}
      OBVIOUS
    <3> QED BY <2>4, <2>7, <3>1, <3>2 DEF Sync, Typed
  <2>9. Counted(c)' /\ Fresh(c)'
    BY <1>2, <2>5, <2>7 DEF Counted, Fresh
  <2>10. Local(c)
    BY <1>1, <1>4 DEF Local, ClientTypeOK, Put
  <2> QED BY <2>6, <2>8, <2>9, <2>10, LocalStep DEF ClientInv
<1> QED BY <1>3, <1>4 DEF SetKnown

\* xfconf_cache_set
LEMMA SetInv ==
  ASSUME ClientsInv, NEW c \in Clients, NEW v \in Values, Set(c, v)
  PROVE  ClientsInv'
<1> USE CacheAssumption
<1>1. ClientTypeOK /\ ClientInv(c) /\ call[c] = {} /\ phase[c] = "open"
  BY DEF ClientsInv, Set, Free
<1>2. /\ writes' \in 1 .. MaxWrites /\ writes < writes' /\ writes <= writes'
      /\ writes' \in 0 .. MaxWrites
  BY <1>1 DEF Set, ClientTypeOK
<1>3. CASE Block(c, "Set", v, "Get") /\ UNCHANGED <<cache, pending, inbox>>
  BY <1>1, <1>2, <1>3, BlockInv DEF Set, ClientTypeOK
<1>4. CASE SetKnown(c, v, cache[c]) /\ UNCHANGED call
  <2>1. answer[c] = {} /\ NoSync(requests[c])
    BY <1>1 DEF ClientInv, Sync
  <2>2. \A p \in pending[c] : p.count < writes'
    <3>1. \A p \in pending[c] : p.count \in Nat /\ p.count <= writes
      BY <1>1 DEF ClientInv, Counted, ClientTypeOK, OldItems
    <3> QED BY <1>1, <1>2, <3>1 DEF ClientTypeOK
  <2>3. cache[c] \in Values \cup {NoItem, Absent}
    BY <1>1 DEF ClientTypeOK
  <2>4. /\ call' \in [Clients -> SUBSET Calls] /\ call'[c] = {}
        /\ answer' \in [Clients -> SUBSET Answers] /\ answer'[c] = {}
        /\ \A d \in Clients \ {c} : call'[d] = call[d] /\ answer'[d] = answer[d]
        /\ phase' = phase
    BY <1>1, <1>4, <2>1 DEF Set, ClientTypeOK
  <2>5. PICK item \in Values \cup {NoItem, Absent} : item = cache[c]
    BY <2>3
  <2>6. SetKnown(c, v, item)
    BY <1>4, <2>5 DEF SetKnown, OneMore, Write
  <2> QED BY <1>2, <2>1, <2>2, <2>4, <2>5, <2>6, SetKnownInv
<1> QED BY <1>3, <1>4 DEF Set

\* xfconf_cache_finalize
LEMMA CloseInv == ASSUME ClientsInv, NEW c \in Clients, Close(c) PROVE ClientsInv'
<1> USE CacheAssumption
<1>1. ClientTypeOK /\ ClientInv(c) /\ call[c] = {} /\ phase[c] = "open"
  BY DEF ClientsInv, Close, Free
<1>2. answer[c] = {} /\ NoSync(requests[c])
  BY <1>1 DEF ClientInv, Sync
<1>3. CASE /\ pending[c] = {}
           /\ Put(phase, c, "closed")
           /\ Put(cache, c, NoItem)
           /\ UNCHANGED <<pending, requests, inbox, call>>
  <2>1. ClientTypeOK' /\ Local(c) /\ phase'[c] = "closed"
    BY <1>1, <1>3 DEF Close, ClientTypeOK, Local, Put
  <2>2. ClientInv(c)'
    BY <1>1, <1>2, <1>3, <2>1 DEF Close, ClientInv, Sync, Typed, Counted, Fresh, Calling
  <2> QED BY <2>1, <2>2, LocalStep
<1>4. ASSUME NEW p \in pending[c],
             Put(pending, c, {[p EXCEPT !.closing = TRUE]}),
             Put(requests, c, Append(Unwanted(requests[c]),
                 [op |-> "SetSync", v |-> p.v, wanted |-> TRUE])),
             Put(inbox, c, inbox[c] \o Failures(c)),
             Put(call, c, {[op |-> "Close", v |-> NoValue]}),
             UNCHANGED <<phase, cache>>
      PROVE  ClientsInv'
  <2> DEFINE r == [op |-> "SetSync", v |-> p.v, wanted |-> TRUE]
             q == Unwanted(requests[c])
             cl == {[p EXCEPT !.closing = TRUE]}
  <2>1. requests[c] \in Seq(Requests) /\ inbox[c] \in Seq(Events)
        /\ pending[c] \subseteq OldItems /\ p \in OldItems
    BY <1>1 DEF ClientTypeOK
  <2>2. q \in Seq(Requests) /\ NoneWanted(q) /\ NoSync(q) /\ NoWrite(q)
    BY <2>1, Cancelled
  <2>3. r \in Requests /\ r.wanted /\ r.op # "Set"
    BY <2>1 DEF Requests, OldItems
  <2>4. /\ Append(q, r) \in Seq(Requests) /\ SyncIsLast(Append(q, r))
        /\ EndsIn(Append(q, r), FALSE) /\ NoWrite(Append(q, r))
    <3> HIDE DEF q, r
    <3> QED BY <2>2, <2>3, AppendSync
  <2>5. \A y \in cl : y \in OldItems /\ \E x \in pending[c] : y.count = x.count
    BY <2>1 DEF OldItems
  <2>6. [op |-> "Close", v |-> NoValue] \in Calls
    BY DEF Calls
  <2>7. ClientTypeOK'
    <3>1. cl \in SUBSET OldItems
      BY <2>5
    <3> HIDE DEF cl, q, r
    <3>2. inbox' \in [Clients -> Seq(Events)] /\ requests' \in [Clients -> Seq(Requests)]
      BY <1>1, <1>4, <2>1, <2>4, FailuresType DEF ClientTypeOK, Put, q, r
    <3>3. pending' \in [Clients -> SUBSET OldItems] /\ call' \in [Clients -> SUBSET Calls]
      BY <1>1, <1>4, <2>6, <3>1 DEF ClientTypeOK, Put, cl
    <3> QED BY <1>1, <1>4, <3>2, <3>3 DEF Close, ClientTypeOK
  <2>8. /\ requests'[c] = Append(q, r) /\ pending'[c] = cl
        /\ call'[c] = {[op |-> "Close", v |-> NoValue]}
        /\ answer'[c] = {} /\ phase'[c] = "open" /\ writes' = writes
    BY <1>1, <1>2, <1>4 DEF Close, ClientTypeOK, Put
  <2>9. Calling(c, {"Set"})' = FALSE /\ Calling(c, Fetches)' = FALSE
    BY <2>8 DEF Calling, Fetches
  <2> HIDE DEF cl, q, r
  <2>10. Sync(c)' /\ Typed(c)' /\ Fresh(c)'
    <3>1. EndsIn(requests'[c], Calling(c, Fetches)') /\ call'[c] # {}
      BY <2>4, <2>8, <2>9 DEF EndsIn
    <3>2. \A k \in call'[c] : k.op # "Set"
      BY <2>8
    <3> QED BY <2>4, <2>8, <3>1, <3>2 DEF Sync, Typed, Fresh
  <2>11. Counted(c)'
    BY <1>1, <2>5, <2>8, <2>9 DEF Counted, ClientInv
  <2>12. Local(c)
    BY <1>1, <1>4 DEF Close, Local, ClientTypeOK, Put
  <2> QED BY <2>7, <2>10, <2>11, <2>12, LocalStep DEF ClientInv
<1> QED BY <1>3, <1>4 DEF Close

-----------------------------------------------------------------------------
(* What a synchronous call does when it is answered.                       *)

\* When the answer is there, nothing the client waits for is left in the queue.
LEMMA AnsweredFacts ==
  ASSUME ClientsInv, NEW c \in Clients, NEW op, Answered(c, op)
  PROVE  /\ NoneWanted(requests[c]) /\ NoSync(requests[c])
         /\ NoWrite(requests[c]) /\ SyncIsLast(requests[c])
         /\ Calling(c, {op})
         /\ call' \in [Clients -> SUBSET Calls] /\ call'[c] = {}
         /\ answer' \in [Clients -> SUBSET Answers] /\ answer'[c] = {}
         /\ \A d \in Clients \ {c} : call'[d] = call[d] /\ answer'[d] = answer[d]
<1>1. ClientTypeOK /\ ClientInv(c)
  BY DEF ClientsInv
<1>2. NoneWanted(requests[c])
  BY <1>1 DEF Answered, ClientInv, Sync
<1>3. Calling(c, {op})
  BY DEF Answered, Calling
<1>4. /\ call' \in [Clients -> SUBSET Calls] /\ call'[c] = {}
      /\ answer' \in [Clients -> SUBSET Answers] /\ answer'[c] = {}
      /\ \A d \in Clients \ {c} : call'[d] = call[d] /\ answer'[d] = answer[d]
  BY <1>1 DEF Answered, Put, ClientTypeOK
<1> QED BY <1>2, <1>3, <1>4 DEF NoneWanted, NoSync, NoWrite, SyncIsLast

\* An answer that changes the cache or the phase of the client only.
LEMMA AnsweredInv ==
  ASSUME ClientsInv, NEW c \in Clients, NEW op, Answered(c, op),
         cache' \in [Clients -> Values \cup {NoItem, Absent}],
         phase' \in [Clients -> {"new", "open", "closed"}],
         \A d \in Clients \ {c} : cache'[d] = cache[d] /\ phase'[d] = phase[d],
         UNCHANGED <<pending, requests, inbox, writes>>
  PROVE  ClientsInv'
<1>1. ClientTypeOK /\ ClientInv(c)
  BY DEF ClientsInv
<1>2. /\ NoSync(requests[c]) /\ NoWrite(requests[c]) /\ SyncIsLast(requests[c])
      /\ call' \in [Clients -> SUBSET Calls] /\ call'[c] = {}
      /\ answer' \in [Clients -> SUBSET Answers] /\ answer'[c] = {}
      /\ \A d \in Clients \ {c} : call'[d] = call[d] /\ answer'[d] = answer[d]
  BY AnsweredFacts
<1>3. ClientTypeOK' /\ Local(c)
  BY <1>1, <1>2, CacheAssumption DEF ClientTypeOK, Local
<1>4. Sync(c)' /\ Typed(c)' /\ Fresh(c)'
  BY <1>2 DEF Sync, Typed, Fresh
<1>5. Counted(c)'
  BY <1>1, <1>2 DEF ClientInv, Counted, Calling
<1> QED BY <1>3, <1>4, <1>5, LocalStep DEF ClientInv

\* xfconf_cache_prefetch
LEMMA PrefetchAnsweredInv ==
  ASSUME ClientsInv, NEW c \in Clients, PrefetchAnswered(c) PROVE ClientsInv'
<1>1. ClientTypeOK /\ ClientInv(c) /\ Calling(c, {"Prefetch"})
  BY AnsweredFacts DEF ClientsInv, PrefetchAnswered
<1>2. PICK a \in answer[c] :
        Put(cache, c, IF a.result = "ok" THEN a.v ELSE NoItem)
  BY DEF PrefetchAnswered
<1>3. a.result = "ok" => a.v \in Values
  BY <1>1, <1>2 DEF ClientInv, Typed, Calling, Fetches
<1>4. cache' \in [Clients -> Values \cup {NoItem, Absent}]
      /\ \A d \in Clients \ {c} : cache'[d] = cache[d]
  BY <1>1, <1>2, <1>3 DEF Put, ClientTypeOK
<1> QED BY <1>1, <1>4, AnsweredInv DEF PrefetchAnswered, ClientTypeOK

\* What a fetch leaves in the cache.
LEMMA FetchedType ==
  ASSUME ClientsInv, NEW c \in Clients, Calling(c, Fetches), NEW a \in answer[c]
  PROVE  Fetched(a) \in Values \cup {NoItem, Absent}
BY DEF ClientsInv, ClientInv, Typed, Fetched

\* xfconf_cache_lookup
LEMMA LookupAnsweredInv ==
  ASSUME ClientsInv, NEW c \in Clients, LookupAnswered(c) PROVE ClientsInv'
<1>1. ClientTypeOK /\ Calling(c, {"Lookup"})
  BY AnsweredFacts DEF ClientsInv, LookupAnswered
<1>2. PICK a \in answer[c] : Put(cache, c, Fetched(a))
  BY DEF LookupAnswered
<1>3. Fetched(a) \in Values \cup {NoItem, Absent}
  BY <1>1, FetchedType DEF Calling, Fetches
<1>4. cache' \in [Clients -> Values \cup {NoItem, Absent}]
      /\ \A d \in Clients \ {c} : cache'[d] = cache[d]
  BY <1>1, <1>2, <1>3 DEF Put, ClientTypeOK
<1> QED BY <1>1, <1>4, AnsweredInv DEF LookupAnswered, ClientTypeOK

\* xfconf_cache_set, after the fetch
LEMMA SetAnsweredInv ==
  ASSUME ClientsInv, NEW c \in Clients, SetAnswered(c) PROVE ClientsInv'
<1>1. ClientTypeOK /\ ClientInv(c) /\ Calling(c, {"Set"}) /\ Answered(c, "Set")
  BY AnsweredFacts DEF ClientsInv, SetAnswered
<1>2. PICK a \in answer[c], k \in call[c] :
        IF a.result = "lost"
        THEN UNCHANGED <<cache, pending, requests, inbox>>
        ELSE SetKnown(c, k.v, Fetched(a))
  BY DEF SetAnswered
<1>3. CASE UNCHANGED <<cache, pending, requests, inbox>>
  BY <1>1, <1>3, AnsweredInv DEF SetAnswered, ClientTypeOK
<1>4. CASE SetKnown(c, k.v, Fetched(a))
  <2>1. Fetched(a) \in Values \cup {NoItem, Absent}
    BY <1>1, FetchedType DEF Calling, Fetches
  <2>2. k.op = "Set"
    BY <1>1, <1>2 DEF Answered, ClientInv, Typed
  <2>3. k.v \in Values /\ 1 <= writes /\ \A p \in pending[c] : p.count < writes
    BY <1>1, <1>2, <2>2 DEF ClientInv, Typed, Counted
  <2>4. writes' = writes /\ writes \in 1 .. MaxWrites /\ phase' = phase
    BY <1>1, <2>3 DEF SetAnswered, ClientTypeOK
  <2>5. /\ NoSync(requests[c]) /\ NoWrite(requests[c])
        /\ call' \in [Clients -> SUBSET Calls] /\ call'[c] = {}
        /\ answer' \in [Clients -> SUBSET Answers] /\ answer'[c] = {}
        /\ \A d \in Clients \ {c} : call'[d] = call[d] /\ answer'[d] = answer[d]
    BY <1>1, AnsweredFacts
  <2> QED BY <1>4, <2>1, <2>3, <2>4, <2>5, SetKnownInv
<1> QED BY <1>2, <1>3, <1>4

\* xfconf_cache_reset
LEMMA ResetAnsweredInv ==
  ASSUME ClientsInv, NEW c \in Clients, ResetAnswered(c) PROVE ClientsInv'
<1>1. ClientTypeOK
  BY DEF ClientsInv
<1>2. PICK a \in answer[c] :
        Put(cache, c, IF a.result = "ok" THEN NoItem ELSE cache[c])
  BY DEF ResetAnswered
<1>3. cache' \in [Clients -> Values \cup {NoItem, Absent}]
      /\ \A d \in Clients \ {c} : cache'[d] = cache[d]
  BY <1>1, <1>2 DEF Put, ClientTypeOK
<1> QED BY <1>1, <1>3, AnsweredInv DEF ResetAnswered, ClientTypeOK

LEMMA ResetRootAnsweredInv ==
  ASSUME ClientsInv, NEW c \in Clients, ResetRootAnswered(c) PROVE ClientsInv'
<1>1. ClientTypeOK
  BY DEF ClientsInv
<1> QED BY <1>1, AnsweredInv DEF ResetRootAnswered, ClientTypeOK

\* xfconf_cache_finalize, after the last write
LEMMA CloseAnsweredInv ==
  ASSUME ClientsInv, NEW c \in Clients, CloseAnswered(c) PROVE ClientsInv'
<1>1. ClientTypeOK
  BY DEF ClientsInv
<1>2. /\ cache' \in [Clients -> Values \cup {NoItem, Absent}]
      /\ phase' \in [Clients -> {"new", "open", "closed"}]
      /\ \A d \in Clients \ {c} : cache'[d] = cache[d] /\ phase'[d] = phase[d]
  BY <1>1 DEF CloseAnswered, Put, ClientTypeOK
<1> QED BY <1>2, AnsweredInv DEF CloseAnswered

-----------------------------------------------------------------------------
(* The main loop of a client.                                              *)

\* A reply or a signal: the record of the write shrinks or goes, or stays;
\* while it stays the cache keeps its value, or has none.
LEMMA DispatchInv ==
  ASSUME ClientsInv, NEW c \in Clients, NEW k, Dispatching(c, k),
         pending' \in [Clients -> SUBSET OldItems],
         cache' \in [Clients -> Values \cup {NoItem, Absent}],
         \A d \in Clients \ {c} : cache'[d] = cache[d] /\ pending'[d] = pending[d],
         \A n \in pending'[c] :
            /\ \E p \in pending[c] : n.v = p.v /\ n.count <= p.count
            /\ cache'[c] \in {cache[c], Absent}
  PROVE  ClientsInv'
<1>1. ClientTypeOK /\ ClientInv(c)
  BY DEF ClientsInv
<1>2. inbox' \in [Clients -> Seq(Events)]
  BY <1>1 DEF Dispatching, Put, ClientTypeOK
<1>3. ClientTypeOK' /\ Local(c)
  BY <1>1, <1>2, CacheAssumption DEF Dispatching, ClientTypeOK, Local
<1>4. Sync(c)' /\ Typed(c)'
  BY <1>1 DEF Dispatching, ClientInv, Sync, Typed, Calling
<1>5. Counted(c)'
  <2>1. \A n \in pending'[c] : n.count \in Nat
    BY <1>3, CacheAssumption DEF ClientTypeOK, OldItems
  <2>2. \A p \in pending[c] : p.count \in Nat
    BY <1>1, CacheAssumption DEF ClientTypeOK, OldItems
  <2>3. call' = call /\ writes' = writes /\ writes \in Nat
    BY <1>1 DEF Dispatching, ClientTypeOK
  <2> QED BY <1>1, <2>1, <2>2, <2>3 DEF ClientInv, Counted, Calling
<1>6. Fresh(c)'
  BY <1>1 DEF Dispatching, ClientInv, Fresh
<1> QED BY <1>3, <1>4, <1>5, <1>6, LocalStep DEF ClientInv

\* xfconf_cache_set_property_reply_handler
LEMMA ReplyArrivesInv ==
  ASSUME ClientsInv, NEW c \in Clients, ReplyArrives(c) PROVE ClientsInv'
<1>1. ClientTypeOK
  BY DEF ClientsInv
<1>2. PICK p \in pending[c] :
        \/ /\ p.count > 1
           /\ Put(pending, c, {[p EXCEPT !.count = @ - 1]})
           /\ UNCHANGED cache
        \/ /\ p.count = 1
           /\ Put(pending, c, {})
           /\ RollBack(c, p, Head(inbox[c]).ok)
  BY DEF ReplyArrives
<1>3. p \in OldItems
  BY <1>1 DEF ClientTypeOK
<1>4. CASE /\ p.count > 1
           /\ Put(pending, c, {[p EXCEPT !.count = @ - 1]})
           /\ UNCHANGED cache
  <2> DEFINE n == [p EXCEPT !.count = @ - 1]
  <2>1. n \in OldItems /\ n.v = p.v /\ n.count <= p.count
    BY <1>3, <1>4, CacheAssumption DEF OldItems
  <2>2. /\ pending' \in [Clients -> SUBSET OldItems] /\ pending'[c] = {n}
        /\ \A d \in Clients \ {c} : pending'[d] = pending[d]
    BY <1>1, <1>4, <2>1 DEF Put, ClientTypeOK
  <2> QED BY <1>1, <1>4, <2>1, <2>2, DispatchInv DEF ReplyArrives, ClientTypeOK
<1>5. CASE /\ p.count = 1
           /\ Put(pending, c, {})
           /\ RollBack(c, p, Head(inbox[c]).ok)
  <2>1. /\ pending' \in [Clients -> SUBSET OldItems] /\ pending'[c] = {}
        /\ \A d \in Clients \ {c} : pending'[d] = pending[d]
    BY <1>1, <1>5 DEF Put, ClientTypeOK
  <2>2. /\ cache' \in [Clients -> Values \cup {NoItem, Absent}]
        /\ \A d \in Clients \ {c} : cache'[d] = cache[d]
    BY <1>1, <1>5 DEF Put, ClientTypeOK, RollBack
  <2> QED BY <2>1, <2>2, DispatchInv DEF ReplyArrives
<1> QED BY <1>2, <1>4, <1>5

\* xfconf_cache_handle_property_changed
LEMMA PropertyChangedInv ==
  ASSUME ClientsInv, NEW c \in Clients, PropertyChanged(c) PROVE ClientsInv'
<1>1. ClientTypeOK /\ inbox[c] # <<>> /\ Head(inbox[c]).k = "Changed"
  BY DEF ClientsInv, PropertyChanged, Dispatching
<1>2. Head(inbox[c]) \in Events
  BY <1>1 DEF ClientTypeOK
<1>3. Head(inbox[c]).v \in Values
  BY <1>1, <1>2 DEF Events, Reply, Signal
<1>4. /\ cache' \in [Clients -> Values \cup {NoItem, Absent}]
      /\ \A d \in Clients \ {c} : cache'[d] = cache[d]
      /\ pending[c] # {} => cache'[c] = cache[c]
  BY <1>1, <1>3 DEF PropertyChanged, Put, ClientTypeOK
<1>5. \A n \in pending[c] : n.count <= n.count
  BY <1>1, CacheAssumption DEF ClientTypeOK, OldItems
<1> QED BY <1>1, <1>4, <1>5, DispatchInv DEF PropertyChanged, ClientTypeOK

\* xfconf_cache_handle_property_removed
LEMMA PropertyRemovedInv ==
  ASSUME ClientsInv, NEW c \in Clients, PropertyRemoved(c) PROVE ClientsInv'
<1>1. ClientTypeOK
  BY DEF ClientsInv
<1>2. /\ cache' \in [Clients -> Values \cup {NoItem, Absent}]
      /\ \A d \in Clients \ {c} : cache'[d] = cache[d]
      /\ cache'[c] \in {cache[c], Absent}
  BY <1>1 DEF PropertyRemoved, Put, ClientTypeOK
<1>3. \A n \in pending[c] : n.count <= n.count
  BY <1>1, CacheAssumption DEF ClientTypeOK, OldItems
<1> QED BY <1>1, <1>2, <1>3, DispatchInv DEF PropertyRemoved, ClientTypeOK

-----------------------------------------------------------------------------
(* The daemon, lost calls and restarts.                                    *)

\* What is stored is a value if there is one.
LEMMA CurrentType ==
  ASSUME StoreInv PROVE Current \in Values \cup {NoValue}
BY StoreAssumption DEF StoreInv, StoreTypeOK, Current

\* A call is taken from the queue and, if it is synchronous, answered.
LEMMA ServeInv == ASSUME IInv, NEW c \in Clients, Serve(c) PROVE IInv'
<1> DEFINE r == Head(requests[c])
<1>1. ClientTypeOK /\ ClientInv(c) /\ requests[c] # <<>> /\ StoreInv
      /\ requests[c] \in Seq(Requests)
  BY DEF IInv, ClientsInv, ClientTypeOK, Serve
<1>2. r \in Requests /\ Put(requests, c, Tail(requests[c]))
  BY <1>1, TailOf DEF Serve
<1>3. r.v \in Values \cup {NoValue} /\ r.wanted \in BOOLEAN
      /\ r.op \in {"Get", "Set", "SetSync"} \cup Resets
  BY <1>2 DEF Requests
<1>4. StoreInv'
  <2>1. \/ \E ok \in BOOLEAN : StoreSet(r.v, ok)
        \/ UNCHANGED storeVars
        \/ \E ok \in BOOLEAN : StoreReset(r.op, ok)
    BY DEF Serve
  <2> QED BY <1>1, <1>3, <2>1, StoreSetInv, StoreResetInv, StoreStutter
<1>5. \/ /\ r.op = "Set" \/ ~r.wanted
         /\ UNCHANGED answer
      \/ /\ r.op # "Set" /\ r.wanted
         /\ \E a \in Answers : /\ Put(answer, c, {a})
                               /\ r.op = "Get" /\ a.result = "ok" => a.v \in Values
  <2>1. CASE r.op = "Set"
    BY <1>3, <2>1 DEF Serve, Resets
  <2>2. CASE r.op # "Set" /\ ~r.wanted
    BY <2>2 DEF Serve
  <2>3. CASE r.op # "Set" /\ r.wanted
    <3>1. PICK ok \in BOOLEAN, v \in Values \cup {NoValue} :
            /\ Put(answer, c, {[result |-> Result(ok), v |-> v]})
            /\ r.op = "Get" => ok = (v # NoValue)
      <4>1. CASE r.op = "Get"
        BY <1>1, <2>3, <4>1, CurrentType DEF Serve, Resets
      <4>2. CASE r.op # "Get"
        BY <2>3, <4>2 DEF Serve
      <4> QED BY <4>1, <4>2
    <3>2. [result |-> Result(ok), v |-> v] \in Answers
      BY DEF Answers, Result
    <3>3. [result |-> Result(ok), v |-> v].result = "ok" => ok
      BY DEF Result
    <3> QED BY <2>3, <3>1, <3>2, <3>3
  <2> QED BY <2>1, <2>2, <2>3
<1>6. inbox' \in [Clients -> Seq(Events)]
  <2>1. \A ok \in BOOLEAN : Reply(ok) \in Events
    BY DEF Events
  <2>2. \A e \in Events : Append(inbox[c], e) \in Seq(Events)
    BY <1>1 DEF ClientTypeOK
  <2>3. \/ UNCHANGED inbox
        \/ \E ok \in BOOLEAN : Put(inbox, c, IF r.wanted THEN Append(inbox[c], Reply(ok))
                                            ELSE inbox[c])
    BY DEF Serve
  <2>4. ASSUME NEW ok \in BOOLEAN,
               Put(inbox, c, IF r.wanted THEN Append(inbox[c], Reply(ok)) ELSE inbox[c])
        PROVE  inbox' \in [Clients -> Seq(Events)]
    <3>1. Append(inbox[c], Reply(ok)) \in Seq(Events)
      BY <2>1, <2>2
    <3> QED BY <1>1, <2>4, <3>1 DEF Put, ClientTypeOK
  <2>5. CASE UNCHANGED inbox
    BY <1>1, <2>5 DEF ClientTypeOK
  <2> QED BY <2>3, <2>4, <2>5
<1>7. /\ requests' \in [Clients -> Seq(Requests)] /\ requests'[c] = Tail(requests[c])
      /\ \A d \in Clients \ {c} : requests'[d] = requests[d]
  BY <1>1, <1>2, TailOf DEF Put, ClientTypeOK
<1>8. /\ answer' \in [Clients -> SUBSET Answers]
      /\ \A d \in Clients \ {c} : answer'[d] = answer[d]
  <2>1. CASE UNCHANGED answer
    BY <1>1, <2>1 DEF ClientTypeOK
  <2>2. ASSUME NEW a \in Answers, Put(answer, c, {a})
        PROVE  /\ answer' \in [Clients -> SUBSET Answers]
               /\ \A d \in Clients \ {c} : answer'[d] = answer[d]
    BY <1>1, <2>2 DEF Put, ClientTypeOK
  <2> QED BY <1>5, <2>1, <2>2
<1>9. UNCHANGED <<phase, cache, pending, call, writes>>
  BY DEF Serve
<1>10. ClientTypeOK' /\ Local(c)
  BY <1>1, <1>6, <1>7, <1>8, <1>9, CacheAssumption DEF ClientTypeOK, Local
<1>11. Counted(c)' /\ Fresh(c)'
  BY <1>1, <1>7, <1>9, TailOf DEF ClientInv, Counted, Fresh, Calling
<1>12. Sync(c)' /\ Typed(c)'
  <2>1. CASE UNCHANGED answer /\ (r.op = "Set" \/ ~r.wanted)
    <3>1. EndsIn(requests[c], Calling(c, Fetches)) =>
             EndsIn(Tail(requests[c]), Calling(c, Fetches))
      <4>1. Calling(c, Fetches) \in BOOLEAN
        BY DEF Calling
      <4> QED BY <1>1, <2>1, <4>1, TailOf
    <3>2. Calling(c, Fetches)' <=> Calling(c, Fetches)
      BY <1>9 DEF Calling
    <3>3. EndsIn(requests[c], Calling(c, Fetches)) =>
             EndsIn(requests'[c], Calling(c, Fetches)')
      BY <1>7, <3>1, <3>2 DEF EndsIn
    <3> QED BY <1>1, <1>7, <1>9, <2>1, <3>2, <3>3, TailOf DEF ClientInv, Sync, Typed
  <2>2. ASSUME r.op # "Set", r.wanted, NEW a \in Answers, Put(answer, c, {a}),
               r.op = "Get" /\ a.result = "ok" => a.v \in Values
        PROVE  Sync(c)' /\ Typed(c)'
    <3>1. call[c] # {} /\ answer[c] = {}
      <4>1. ~NoSync(requests[c]) /\ ~NoneWanted(requests[c])
        BY <1>1, <2>2 DEF NoSync, NoneWanted
      <4> QED BY <1>1, <4>1 DEF ClientInv, Sync
    <3>2. NoneWanted(requests'[c]) /\ r = requests[c][Len(requests[c])]
      BY <1>1, <1>7, <2>2, TailOf DEF ClientInv, Sync
    <3>3. Calling(c, Fetches) => r.op = "Get"
      BY <1>1, <3>1, <3>2 DEF ClientInv, Sync, EndsIn
    <3>4. answer'[c] = {a}
      BY <1>1, <2>2 DEF Put, ClientTypeOK
    <3>5. SyncIsLast(requests'[c])
      BY <3>2 DEF NoneWanted, SyncIsLast
    <3>6. Sync(c)'
      BY <1>1, <1>9, <3>1, <3>2, <3>4, <3>5 DEF ClientInv, Sync
    <3>7. Typed(c)'
      BY <1>1, <1>9, <2>2, <3>3, <3>4 DEF ClientInv, Typed, Calling
    <3> QED BY <3>6, <3>7
  <2> QED BY <1>5, <2>1, <2>2
<1> QED BY <1>4, <1>10, <1>11, <1>12, LocalStep DEF IInv, ClientInv

\* The idle daemon announces the property.
LEMMA EmitInv == IInv /\ Emit => IInv'
<1> SUFFICES ASSUME IInv, Emit PROVE IInv'
  OBVIOUS
<1>1. StoreInv /\ ClientTypeOK /\ \A c \in Clients : ClientInv(c)
  BY DEF IInv, ClientsInv
<1>2. StoreInv'
  BY <1>1 DEF Emit, StoreInv, StoreTypeOK, SavedOrDirty, DirtyIsTimed,
              LockedUnset, Load
<1>3. Signal(Current) \in Events
  BY <1>1, CurrentType DEF Events
<1>4. inbox' \in [Clients -> Seq(Events)]
  <2>1. \A c \in Clients : Append(inbox[c], Signal(Current)) \in Seq(Events)
    BY <1>1, <1>3 DEF ClientTypeOK
  <2> QED BY <1>1, <2>1 DEF Emit, ClientTypeOK
<1>5. ClientTypeOK'
  BY <1>1, <1>4 DEF Emit, ClientTypeOK
<1>6. \A c \in Clients : ClientInv(c)'
  BY <1>1 DEF Emit, ClientInv, Sync, Typed, Counted, Fresh, Calling
<1> QED BY <1>2, <1>5, <1>6 DEF IInv, ClientsInv

\* A save touches no client.
LEMMA SaveInv == IInv /\ Save => IInv'
<1> SUFFICES ASSUME IInv, Save PROVE IInv'
  OBVIOUS
<1>1. UNCHANGED <<phase, cache, pending, call, requests, answer, inbox, writes>>
  BY DEF Save, clientVars
<1>2. ClientsInv'
  BY <1>1 DEF IInv, ClientsInv, ClientTypeOK, ClientInv, Sync, Typed, Counted,
              Fresh, Calling
<1> QED BY <1>2, SaveTimeoutInv DEF IInv, Save

\* The client gives up a call.
LEMMA CallTimeoutInv == ASSUME IInv, NEW c \in Clients, CallTimeout(c) PROVE IInv'
<1>1. ClientTypeOK /\ ClientInv(c) /\ StoreInv /\ requests[c] \in Seq(Requests)
  BY DEF IInv, ClientsInv, ClientTypeOK
<1>2. StoreInv'
  BY <1>1 DEF CallTimeout, May, StoreInv, StoreTypeOK, SavedOrDirty,
              DirtyIsTimed, LockedUnset, Load
<1>3. PICK i \in Wanted(c) :
        /\ \A j \in Wanted(c) : i <= j
        /\ Put(requests, c, [requests[c] EXCEPT ![i].wanted = FALSE])
        /\ GiveUp(c, i)
  BY DEF CallTimeout
<1> DEFINE q == requests[c]
           p == Given(q, i)
<1>4. i \in DOMAIN q /\ q[i].wanted /\ \A j \in DOMAIN q : q[j].wanted => i <= j
  BY <1>3 DEF Wanted
<1>5. /\ p \in Seq(Requests)
      /\ SyncIsLast(q) => SyncIsLast(p)
      /\ NoSync(q) => NoSync(p)
      /\ NoWrite(q) => NoWrite(p)
      /\ SyncIsLast(q) /\ q[i].op # "Set" => NoneWanted(p)
      /\ \A get \in BOOLEAN : EndsIn(q, get) /\ q[i].op = "Set" => EndsIn(p, get)
  BY <1>1, <1>4, GivenUp
<1>6. /\ requests' \in [Clients -> Seq(Requests)] /\ requests'[c] = p
      /\ \A d \in Clients \ {c} : requests'[d] = requests[d]
  BY <1>1, <1>3, <1>5 DEF Put, ClientTypeOK, Given
<1>7. UNCHANGED <<phase, cache, pending, call, writes>>
  BY DEF CallTimeout
<1>8. ~NoneWanted(q)
  BY <1>4 DEF NoneWanted
<1> HIDE DEF p, q
<1>9. answer[c] = {}
  BY <1>1, <1>8 DEF ClientInv, Sync, q
<1>10. CASE q[i].op = "Set"
  <2>1. inbox' \in [Clients -> Seq(Events)] /\ UNCHANGED answer
    <3>1. inbox[c] \o Failures(c) \in Seq(Events)
      BY <1>1, FailuresType DEF ClientTypeOK
    <3> QED BY <1>1, <1>3, <1>10, <3>1 DEF GiveUp, Put, ClientTypeOK, q
  <2>2. ClientTypeOK' /\ Local(c)
    BY <1>1, <1>6, <1>7, <2>1, CacheAssumption DEF ClientTypeOK, Local
  <2>3. Calling(c, Fetches)' <=> Calling(c, Fetches)
    BY <1>7 DEF Calling
  <2>4. EndsIn(q, Calling(c, Fetches)) => EndsIn(requests'[c], Calling(c, Fetches)')
    <3>1. Calling(c, Fetches) \in BOOLEAN
      BY DEF Calling
    <3> QED BY <1>5, <1>6, <1>10, <2>3, <3>1 DEF EndsIn
  <2>5. Sync(c)' /\ Typed(c)'
    BY <1>1, <1>5, <1>6, <1>7, <1>9, <2>1, <2>3, <2>4 DEF ClientInv, Sync, Typed, q
  <2>6. Counted(c)' /\ Fresh(c)'
    BY <1>1, <1>5, <1>6, <1>7 DEF ClientInv, Counted, Fresh, Calling, q
  <2> QED BY <1>1, <1>2, <2>2, <2>5, <2>6, LocalStep DEF IInv, ClientInv
<1>11. CASE q[i].op # "Set"
  <2> DEFINE a == [result |-> "lost", v |-> NoValue]
  <2>1. a \in Answers /\ a.result # "ok"
    BY DEF Answers
  <2>2. /\ Put(answer, c, {a}) /\ UNCHANGED inbox
    BY <1>3, <1>11 DEF GiveUp, q
  <2> HIDE DEF a
  <2>3. /\ answer' \in [Clients -> SUBSET Answers] /\ answer'[c] = {a}
        /\ \A d \in Clients \ {c} : answer'[d] = answer[d]
    BY <1>1, <2>1, <2>2 DEF Put, ClientTypeOK
  <2>4. ClientTypeOK' /\ Local(c)
    BY <1>1, <1>6, <1>7, <2>2, <2>3, CacheAssumption DEF ClientTypeOK, Local
  <2>5. call[c] # {}
    BY <1>1, <1>4, <1>11 DEF ClientInv, Sync, NoSync, q
  <2>6. NoneWanted(p) /\ SyncIsLast(p)
    BY <1>1, <1>5, <1>11 DEF ClientInv, Sync, q
  <2>7. Sync(c)' /\ Typed(c)'
    BY <1>1, <1>6, <1>7, <2>1, <2>3, <2>5, <2>6 DEF ClientInv, Sync, Typed
  <2>8. Counted(c)' /\ Fresh(c)'
    BY <1>1, <1>5, <1>6, <1>7 DEF ClientInv, Counted, Fresh, Calling, q
  <2> QED BY <1>1, <1>2, <2>4, <2>7, <2>8, LocalStep DEF IInv, ClientInv
<1> QED BY <1>10, <1>11

\* The daemon ends, and what was sent to it is lost.
LEMMA RestartClientsInv == IInv /\ Restart => IInv'
<1> SUFFICES ASSUME IInv, Restart PROVE IInv'
  OBVIOUS
<1>1. StoreInv /\ ClientsInv /\ ClientTypeOK /\ \A c \in Clients : ClientInv(c)
  BY DEF IInv, ClientsInv
<1>2. StoreInv'
  <2>1. Interrupted \in BOOLEAN
    BY DEF Interrupted
  <2> QED BY <1>1, <2>1, RestartInv DEF Restart
<1> DEFINE a == [result |-> "lost", v |-> NoValue]
<1>3. a \in Answers /\ a.result # "ok"
  BY DEF Answers
<1>4. inbox' \in [Clients -> Seq(Events)]
  <2>1. \A c \in Clients : inbox[c] \o Failures(c) \in Seq(Events)
    BY <1>1, FailuresType DEF ClientTypeOK
  <2> QED BY <2>1 DEF Restart
<1> HIDE DEF a
<1>5. /\ answer' \in [Clients -> SUBSET Answers]
      /\ \A c \in Clients : answer'[c] = IF Waiting(c) THEN {a} ELSE answer[c]
  BY <1>1, <1>3 DEF Restart, ClientTypeOK, a
<1>6. /\ requests' \in [Clients -> Seq(Requests)]
      /\ \A c \in Clients : requests'[c] = <<>>
  BY DEF Restart
<1>7. UNCHANGED <<phase, cache, pending, call, writes>>
  BY DEF Restart
<1>8. ClientTypeOK'
  BY <1>1, <1>4, <1>5, <1>6, <1>7 DEF ClientTypeOK
<1>9. ASSUME NEW c \in Clients PROVE ClientInv(c)'
  <2>1. call[c] # {} <=> answer'[c] # {}
    BY <1>1, <1>5, QueueClaims
  <2>2. /\ NoneWanted(requests'[c]) /\ NoSync(requests'[c])
        /\ NoWrite(requests'[c]) /\ SyncIsLast(requests'[c])
    BY <1>6 DEF NoneWanted, NoSync, NoWrite, SyncIsLast
  <2>3. Sync(c)' /\ Fresh(c)'
    BY <1>1, <1>7, <2>1, <2>2 DEF ClientInv, Sync, Fresh
  <2>4. Typed(c)' /\ Counted(c)'
    BY <1>1, <1>3, <1>5, <1>7 DEF ClientInv, Typed, Counted, Calling
  <2> QED BY <2>3, <2>4 DEF ClientInv
<1> QED BY <1>2, <1>8, <1>9 DEF IInv, ClientsInv

-----------------------------------------------------------------------------
(* The theorems.                                                           *)

\* The initial states satisfy the invariant.
LEMMA InitInv == Init => IInv
<1> SUFFICES ASSUME Init PROVE IInv
  OBVIOUS
<1>1. StoreInv
  BY StoreInitInv DEF Init
<1>2. ClientTypeOK
  BY CacheAssumption DEF Init, ClientTypeOK
<1>3. \A c \in Clients : ClientInv(c)
  BY DEF Init, ClientInv, Sync, Typed, Counted, Fresh, Calling, NoSync, SyncIsLast
<1> QED BY <1>1, <1>2, <1>3 DEF IInv, ClientsInv

\* Every step preserves it.
LEMMA NextInv == IInv /\ [Next]_vars => IInv'
<1> SUFFICES ASSUME IInv, [Next]_vars PROVE IInv'
  OBVIOUS
<1>1. StoreInv /\ ClientsInv
  BY DEF IInv
<1>2. ASSUME NEW c \in Clients,
             \/ Open(c) \/ Lookup(c) \/ Close(c)
             \/ \E v \in Values : Set(c, v)
             \/ \E how \in Resets : Reset(c, how)
      PROVE  IInv'
  <2>1. ClientsInv'
    BY <1>1, <1>2, OpenInv, LookupInv, CloseInv, SetInv, ResetInv
  <2>2. UNCHANGED storeVars
    BY <1>2 DEF Open, Lookup, Close, Set, Reset
  <2> QED BY <1>1, <2>1, <2>2, StoreStutter DEF IInv
<1>3. ASSUME NEW c \in Clients,
             \/ PrefetchAnswered(c) \/ LookupAnswered(c) \/ SetAnswered(c)
             \/ ResetAnswered(c) \/ ResetRootAnswered(c) \/ CloseAnswered(c)
             \/ ReplyArrives(c) \/ PropertyChanged(c) \/ PropertyRemoved(c)
      PROVE  IInv'
  <2>1. ClientsInv'
    BY <1>1, <1>3, PrefetchAnsweredInv, LookupAnsweredInv, SetAnsweredInv,
       ResetAnsweredInv, ResetRootAnsweredInv, CloseAnsweredInv,
       ReplyArrivesInv, PropertyChangedInv, PropertyRemovedInv
  <2>2. UNCHANGED storeVars
    BY <1>3 DEF PrefetchAnswered, LookupAnswered, SetAnswered, ResetAnswered,
                ResetRootAnswered, CloseAnswered, ReplyArrives,
                PropertyChanged, PropertyRemoved, Dispatching
  <2> QED BY <1>1, <2>1, <2>2, StoreStutter DEF IInv
<1>4. CASE UNCHANGED vars
  <2>1. ClientsInv'
    BY <1>1, <1>4 DEF vars, clientVars, ClientsInv, ClientTypeOK, ClientInv,
                      Sync, Typed, Counted, Fresh, Calling
  <2> QED BY <1>1, <1>4, <2>1, StoreStutter DEF IInv, vars
<1> QED BY <1>2, <1>3, <1>4, ServeInv, CallTimeoutInv, EmitInv, SaveInv,
           RestartClientsInv DEF Next

\* The inductive invariant.
THEOREM Invariance == Spec => []IInv
BY InitInv, NextInv, PTL DEF Spec

\* Types of the daemon and its clients (TypeOK).
THEOREM TypeCorrect == Spec => []TypeOK
<1>1. IInv => TypeOK
  BY TypeOKSplit DEF IInv, StoreInv, ClientsInv
<1> QED BY <1>1, Invariance, PTL

\* Whatever is set, reset, saved, removed or restarted, in any order, no
\* change is lost track of between memory and file (SavedOrDirty).
THEOREM StoreSaved == Spec => []SavedOrDirty
<1>1. IInv => SavedOrDirty
  BY DEF IInv, StoreInv
<1> QED BY <1>1, Invariance, PTL

\* A change that is not saved has a timer (DirtyIsTimed).
THEOREM StoreTimed == Spec => []DirtyIsTimed
<1>1. IInv => DirtyIsTimed
  BY DEF IInv, StoreInv
<1> QED BY <1>1, Invariance, PTL

\* A locked property keeps the value of the system files (LockHolds).
THEOREM StoreLocked == Spec => []LockHolds
<1>1. IInv => LockHolds
  BY LockHoldsFromInv DEF IInv
<1> QED BY <1>1, Invariance, PTL

\* A client that is blocked has been answered or will be, through timeouts
\* and restarts of the daemon (BlockedAreAnswered).
THEOREM NobodyHangs == Spec => []BlockedAreAnswered
<1>1. IInv => BlockedAreAnswered
  BY QueueClaims DEF IInv, BlockedAreAnswered
<1> QED BY <1>1, Invariance, PTL

\* While a client's write is on its way, no news of older or other writes
\* replaces it in the client's cache (OwnWriteFirst).
THEOREM OwnWritesFirst == Spec => []OwnWriteFirst
<1>1. IInv => OwnWriteFirst
  BY QueueClaims DEF IInv, ClientsInv, ClientInv, Fresh, OwnWriteFirst
<1> QED BY <1>1, Invariance, PTL

=============================================================================
