---------------------------- MODULE SettingsCache ----------------------------
(***************************************************************************)
(* The clients of the settings daemon: libxfconf's cache of a channel, as  *)
(* one property sees it, composed with the daemon (SettingsStore) over     *)
(* D-Bus.                                                                  *)
(*                                                                         *)
(* A write is asynchronous: the cache takes the new value at once, and     *)
(* takes it back if the reply says that the daemon refused it.  All other  *)
(* calls block the client until they are answered, while signals and       *)
(* replies of earlier writes gather in its main loop.  Between a client    *)
(* and the daemon nothing is reordered; among clients everything is.       *)
(*                                                                         *)
(* A program opens its channel once, and may close it (xfconf_shutdown).   *)
(***************************************************************************)
EXTENDS SettingsStore, FiniteSets, Sequences

CONSTANTS
  Clients,
  MaxWrites,   \* bound on the writes and resets of all clients
  NoItem,      \* the cache has no item
  Absent       \* an item without a value: the daemon does not know it

ASSUME CacheAssumption ==
  /\ MaxWrites \in Nat
  /\ {NoItem, Absent} \cap (Values \cup {NoValue, NoFile}) = {}
  /\ NoItem # Absent

\* A property, the tree below it, and the channel, which is spelt "" or "/".
Resets == {"ResetOne", "ResetTree", "ResetChannel", "ResetRoot"}

\* What a client may be blocked in, and what it will write afterwards.
Calls == [op : {"Prefetch", "Lookup", "Set", "Reset", "ResetRoot", "Close"},
          v : Values \cup {NoValue}]

VARIABLES
  phase,     \* whether the client has a cache: "new", "open" or "closed"
  cache,     \* cache->properties: NoItem, Absent or a value
  pending,   \* cache->old_properties: at most one record
  call,      \* the synchronous call the client is blocked in, if any
  requests,  \* calls on their way to the daemon
  answer,    \* the reply to the synchronous call, if any
  inbox,     \* what is queued in the client's main loop
  writes     \* number of writes so far

clientVars == <<phase, cache, pending, call, requests, answer, inbox>>
vars == <<storeVars, clientVars, writes>>

\* wanted: neither cancelled nor given up by a timeout.
Requests == [op : {"Get", "Set", "SetSync"} \cup Resets,
             v : Values \cup {NoValue}, wanted : BOOLEAN]

\* "lost": the daemon did not answer.
Answers == [result : {"ok", "error", "lost"}, v : Values \cup {NoValue}]

Reply(ok) == [k |-> "Reply", ok |-> ok, v |-> NoValue]
Signal(v) ==
  [k |-> IF v = NoValue THEN "Removed" ELSE "Changed", ok |-> TRUE, v |-> v]
Events == {Reply(ok) : ok \in BOOLEAN}
            \cup {Signal(v) : v \in Values \cup {NoValue}}

\* XfconfCacheOldItem: the value before the first write that is not through,
\* the value of the last one, and how many replies are to come.  closing:
\* the cancellable was cancelled because the cache is finalized.
OldItems == [old : Values \cup {NoValue}, v : Values,
             count : 1 .. MaxWrites, closing : BOOLEAN]

TypeOK ==
  /\ StoreTypeOK
  /\ phase \in [Clients -> {"new", "open", "closed"}]
  /\ cache \in [Clients -> Values \cup {NoItem, Absent}]
  /\ pending \in [Clients -> SUBSET OldItems]
  /\ call \in [Clients -> SUBSET Calls]
  /\ requests \in [Clients -> Seq(Requests)]
  /\ answer \in [Clients -> SUBSET Answers]
  /\ inbox \in [Clients -> Seq(Events)]
  /\ writes \in 0 .. MaxWrites

Init ==
  /\ StoreInit
  /\ phase = [c \in Clients |-> "new"]
  /\ cache = [c \in Clients |-> NoItem]
  /\ pending = [c \in Clients |-> {}]
  /\ call = [c \in Clients |-> {}]
  /\ requests = [c \in Clients |-> <<>>]
  /\ answer = [c \in Clients |-> {}]
  /\ inbox = [c \in Clients |-> <<>>]
  /\ writes = 0

Put(f, c, x) == f' = [f EXCEPT ![c] = x]

-----------------------------------------------------------------------------
(* Calls of the library.                                                   *)

\* A client runs its main loop, or calls the library, while it is not blocked.
Free(c) == phase[c] = "open" /\ call[c] = {}

Block(c, op, v, request) ==
  /\ Put(call, c, {[op |-> op, v |-> v]})
  /\ Put(requests, c,
         Append(requests[c], [op |-> request, v |-> v, wanted |-> TRUE]))

\* The calls whose reply the client still waits for.
Wanted(c) == {i \in DOMAIN requests[c] : requests[c][i].wanted}
Outstanding(c) == \E i \in Wanted(c) : requests[c][i].op = "Set"
Waiting(c) == \E i \in Wanted(c) : requests[c][i].op # "Set"

\* A write that is cancelled, or will not be answered, calls back as a failure.
\* Only the newest write of a client is not cancelled.
Failures(c) == IF Outstanding(c) THEN <<Reply(FALSE)>> ELSE <<>>

\* Cancelling: the daemon executes the calls all the same.
Unwanted(q) == [i \in DOMAIN q |-> [q[i] EXCEPT !.wanted = FALSE]]

\* xfconf_cache_new and xfconf_cache_prefetch, for a channel that is opened.
Open(c) ==
  /\ phase[c] = "new"
  /\ Put(phase, c, "open")
  /\ Block(c, "Prefetch", NoValue, "Get")
  /\ UNCHANGED <<storeVars, cache, pending, answer, inbox, writes>>

\* xfconf_cache_lookup of a property that is not in the cache.
Lookup(c) ==
  /\ Free(c)
  /\ cache[c] = NoItem
  /\ Block(c, "Lookup", NoValue, "Get")
  /\ UNCHANGED <<storeVars, phase, cache, pending, answer, inbox, writes>>

\* The record of a first write: an item without a value is not kept.
Write(item, v) == [old |-> IF item \in Values THEN item ELSE NoValue,
                       v |-> v, count |-> 1, closing |-> FALSE]

\* A write that is not through is superseded, but what it replaced stays the
\* value to go back to, and its reply still counts.  Mutant: it is forgotten.
OneMoreForgets(c, item, v) == {Write(item, v)}
OneMore(c, item, v) ==
  IF pending[c] = {} THEN {Write(item, v)}
  ELSE {[p EXCEPT !.v = v, !.count = @ + 1] : p \in pending[c]}

\* xfconf_cache_set once the cached value is known.
SetKnown(c, v, item) ==
  \/ /\ item = v
     /\ Put(cache, c, item)
     /\ UNCHANGED <<pending, requests, inbox>>
  \/ /\ item # v
     /\ Put(pending, c, OneMore(c, item, v))
     /\ Put(requests, c, Append(Unwanted(requests[c]),
            [op |-> "Set", v |-> v, wanted |-> TRUE]))
     /\ Put(inbox, c, inbox[c] \o Failures(c))
     /\ Put(cache, c, v)

\* xfconf_cache_set; a property that is not in the cache is fetched first.
Set(c, v) ==
  /\ Free(c)
  /\ writes < MaxWrites
  /\ writes' = writes + 1
  /\ IF cache[c] = NoItem
     THEN /\ Block(c, "Set", v, "Get")
          /\ UNCHANGED <<cache, pending, inbox>>
     ELSE /\ SetKnown(c, v, cache[c])
          /\ UNCHANGED call
  /\ UNCHANGED <<storeVars, phase, answer>>

\* xfconf_cache_reset
Reset(c, how) ==
  /\ Free(c)
  /\ writes < MaxWrites
  /\ writes' = writes + 1
  /\ Block(c, IF how = "ResetRoot" THEN how ELSE "Reset", NoValue, how)
  /\ UNCHANGED <<storeVars, phase, cache, pending, answer, inbox>>

\* xfconf_cache_finalize: a write whose reply is outstanding is made again,
\* this time waiting for it; the reply handlers run later and find that their
\* call was cancelled.  Mutant: the write is left to its own.
CloseNoWait(c) ==
  /\ Free(c)
  /\ Put(phase, c, "closed")
  /\ Put(cache, c, NoItem)
  /\ Put(pending, c, {[p EXCEPT !.closing = TRUE] : p \in pending[c]})
  /\ UNCHANGED <<storeVars, requests, inbox, call, answer, writes>>
Close(c) ==
  /\ Free(c)
  /\ \/ /\ pending[c] = {}
        /\ Put(phase, c, "closed")
        /\ Put(cache, c, NoItem)
        /\ UNCHANGED <<pending, requests, inbox, call>>
     \/ \E p \in pending[c] :
          /\ Put(pending, c, {[p EXCEPT !.closing = TRUE]})
          /\ Put(requests, c, Append(Unwanted(requests[c]),
                 [op |-> "SetSync", v |-> p.v, wanted |-> TRUE]))
          /\ Put(inbox, c, inbox[c] \o Failures(c))
          /\ Put(call, c, {[op |-> "Close", v |-> NoValue]})
          /\ UNCHANGED <<phase, cache>>
  /\ UNCHANGED <<storeVars, answer, writes>>

-----------------------------------------------------------------------------
(* What a synchronous call does when it is answered.                       *)

\* The call is over; a is its answer.
Answered(c, op) ==
  /\ answer[c] # {} /\ \E k \in call[c] : k.op = op
  /\ Put(answer, c, {})
  /\ Put(call, c, {})

\* What a Get puts into the cache: that nothing was found is remembered too.
Fetched(a) == IF a.result = "ok" THEN a.v
              ELSE IF a.result = "error" THEN Absent ELSE NoItem

\* The channel starts with what exists, and so does the program.
PrefetchAnswered(c) ==
  /\ Answered(c, "Prefetch")
  /\ \E a \in answer[c] :
       /\ Put(cache, c, IF a.result = "ok" THEN a.v ELSE NoItem)
  /\ UNCHANGED <<storeVars, phase, pending, requests, inbox, writes>>

LookupAnswered(c) ==
  /\ Answered(c, "Lookup")
  /\ \E a \in answer[c] :
       /\ Put(cache, c, Fetched(a))
  /\ UNCHANGED <<storeVars, phase, pending, requests, inbox, writes>>

SetAnswered(c) ==
  /\ Answered(c, "Set")
  /\ \E a \in answer[c], k \in call[c] :
       IF a.result = "lost"
       THEN UNCHANGED <<cache, pending, requests, inbox>>
       ELSE SetKnown(c, k.v, Fetched(a))
  /\ UNCHANGED <<storeVars, phase, writes>>

\* A reset that is done evicts the item; the daemon's signal will tell.
ResetAnswered(c) ==
  /\ Answered(c, "Reset")
  /\ \E a \in answer[c] :
       /\ Put(cache, c, IF a.result = "ok" THEN NoItem ELSE cache[c])
  /\ UNCHANGED <<storeVars, phase, pending, requests, inbox, writes>>

\* The names below "/" are taken to begin with "//": nothing is evicted.
ResetRootAnswered(c) ==
  /\ Answered(c, "ResetRoot")
  /\ UNCHANGED <<storeVars, phase, cache, pending, requests, inbox, writes>>

CloseAnswered(c) ==
  /\ Answered(c, "Close")
  /\ Put(phase, c, "closed")
  /\ Put(cache, c, NoItem)
  /\ UNCHANGED <<storeVars, pending, requests, inbox, writes>>

-----------------------------------------------------------------------------
(* The main loop of a client: replies to writes, and signals.              *)

Dispatching(c, k) ==
  /\ phase[c] # "new" /\ call[c] = {}
  /\ inbox[c] # <<>> /\ Head(inbox[c]).k = k
  /\ Put(inbox, c, Tail(inbox[c]))
  /\ UNCHANGED <<storeVars, phase, call, requests, answer, writes>>

\* The item goes back to what it was before the write.
RollBack(c, p, ok) ==
  IF ok \/ p.closing \/ cache[c] = NoItem THEN UNCHANGED cache
  ELSE Put(cache, c, IF p.old \in Values THEN p.old ELSE NoItem)

\* xfconf_cache_set_property_reply_handler: only the last reply counts, and
\* only while the cache exists.  Mutants: the last reply is waited for once
\* more; a failed write is kept.
ReplyOneTooFew(c) ==
  /\ Dispatching(c, "Reply")
  /\ Put(pending, c, {[p EXCEPT !.count = @ - 1] : p \in pending[c]})
  /\ UNCHANGED cache
ReplyKeepsFailed(c) ==
  /\ Dispatching(c, "Reply")
  /\ \E p \in pending[c] :
       Put(pending, c, IF p.count > 1 THEN {[p EXCEPT !.count = @ - 1]} ELSE {})
  /\ UNCHANGED cache
ReplyArrives(c) ==
  /\ Dispatching(c, "Reply")
  /\ \E p \in pending[c] :
       \/ /\ p.count > 1
          /\ Put(pending, c, {[p EXCEPT !.count = @ - 1]})
          /\ UNCHANGED cache
       \/ /\ p.count = 1
          /\ Put(pending, c, {})
          /\ RollBack(c, p, Head(inbox[c]).ok)

\* xfconf_cache_handle_property_changed: ignored while a write is not
\* through.  Mutant: not ignored.
PropertyChangedAlways(c) ==
  /\ Dispatching(c, "Changed")
  /\ IF phase[c] = "closed" THEN UNCHANGED cache
     ELSE Put(cache, c, Head(inbox[c]).v)
  /\ UNCHANGED pending
PropertyChanged(c) ==
  /\ Dispatching(c, "Changed")
  /\ IF phase[c] = "closed" \/ pending[c] # {} THEN UNCHANGED cache
     ELSE Put(cache, c, Head(inbox[c]).v)
  /\ UNCHANGED pending

\* xfconf_cache_handle_property_removed: never ignored, though there may be
\* no item to blank.
PropertyRemoved(c) ==
  /\ Dispatching(c, "Removed")
  /\ IF phase[c] = "closed" \/ cache[c] = NoItem THEN UNCHANGED cache
     ELSE Put(cache, c, Absent)
  /\ UNCHANGED pending

-----------------------------------------------------------------------------
(* The daemon serves a call, or its main loop is idle.                     *)

Result(ok) == IF ok THEN "ok" ELSE "error"

\* xfconf_set_property, xfconf_get_property and xfconf_reset_property.
Serve(c) ==
  /\ requests[c] # <<>>
  /\ LET r == Head(requests[c])
         Answering(ok, v) ==
           IF r.wanted
           THEN Put(answer, c, {[result |-> Result(ok), v |-> v]})
           ELSE UNCHANGED answer
     IN /\ Put(requests, c, Tail(requests[c]))
        /\ \/ /\ r.op = "Set"
              /\ \E ok \in BOOLEAN :
                   /\ StoreSet(r.v, ok)
                   /\ Put(inbox, c, IF r.wanted THEN Append(inbox[c], Reply(ok))
                                    ELSE inbox[c])
              /\ UNCHANGED answer
           \/ /\ r.op = "SetSync"
              /\ \E ok \in BOOLEAN : StoreSet(r.v, ok) /\ Answering(ok, NoValue)
              /\ UNCHANGED inbox
           \/ /\ r.op = "Get"
              /\ Answering(Current # NoValue, Current)
              /\ UNCHANGED <<storeVars, inbox>>
           \/ /\ r.op \in Resets
              /\ \E ok \in BOOLEAN : StoreReset(r.op, ok) /\ Answering(ok, NoValue)
              /\ UNCHANGED inbox
  /\ UNCHANGED <<phase, cache, pending, call, writes>>

\* xfconf_daemon_emit_property_changed_idled: all caches hear what the value
\* is now.
Emit ==
  /\ notify > 0
  /\ notify' = notify - 1
  /\ inbox' = [c \in Clients |-> IF phase[c] = "open"
                                 THEN Append(inbox[c], Signal(Current))
                                 ELSE inbox[c]]
  /\ UNCHANGED <<system, lock, user, file, dirty, saveTimer, faults, phase,
                 cache, pending, call, requests, answer, writes>>

Save == SaveTimeout /\ UNCHANGED <<clientVars, writes>>

-----------------------------------------------------------------------------
(* Calls that are not answered.                                            *)

\* The time limit of GDBus for one call; the daemon will serve it later.
\* Mutant: who is blocked in the call is not told.
GiveUpSilently(c, i) == UNCHANGED <<inbox, answer>>
GiveUp(c, i) ==
  \/ /\ requests[c][i].op = "Set"
     /\ Put(inbox, c, inbox[c] \o Failures(c))
     /\ UNCHANGED answer
  \/ /\ requests[c][i].op # "Set"
     /\ Put(answer, c, {[result |-> "lost", v |-> NoValue]})
     /\ UNCHANGED inbox

CallTimeout(c) ==
  /\ May("timeout")
  /\ faults' = faults \cup {"timeout"}
  /\ \E i \in Wanted(c) :
       /\ \A j \in Wanted(c) : i <= j
       /\ Put(requests, c, [requests[c] EXCEPT ![i].wanted = FALSE])
       /\ GiveUp(c, i)
  /\ UNCHANGED <<system, lock, user, file, dirty, saveTimer, notify, phase,
                 cache, pending, call, writes>>

\* The daemon ends: what was sent to it is lost.
Interrupted == \E c \in Clients : Wanted(c) # {}
Restart ==
  /\ Crash(Interrupted) \/ Quit(Interrupted)
  /\ requests' = [c \in Clients |-> <<>>]
  /\ inbox' = [c \in Clients |-> inbox[c] \o Failures(c)]
  /\ answer' = [c \in Clients |->
        IF Waiting(c) THEN {[result |-> "lost", v |-> NoValue]} ELSE answer[c]]
  /\ UNCHANGED <<phase, cache, pending, call, writes>>

Next ==
  \/ \E c \in Clients :
       \/ Open(c) \/ Lookup(c) \/ Close(c)
       \/ \E v \in Values : Set(c, v)
       \/ \E how \in Resets : Reset(c, how)
       \/ PrefetchAnswered(c) \/ LookupAnswered(c) \/ SetAnswered(c)
       \/ ResetAnswered(c) \/ ResetRootAnswered(c) \/ CloseAnswered(c)
       \/ ReplyArrives(c) \/ PropertyChanged(c) \/ PropertyRemoved(c)
       \/ Serve(c)
       \/ CallTimeout(c)
  \/ Emit
  \/ Save
  \/ Restart

Spec == Init /\ [][Next]_vars

-----------------------------------------------------------------------------
(* Properties.                                                             *)

\* Once a client has dealt with its signals and writes, and the daemon has no
\* more to announce, its cache shows the daemon's value or none: writes,
\* resets and fetches of several clients that cross, replies that come late
\* and refused writes that are taken back leave no stale value behind.  A
\* lost call and a restart that loses something may.  That there is no value
\* may be stale: a removal is taken in while a write is outstanding, the
\* change that follows is not.
Disturbed == faults \cap {"timeout", "restart", "unlink"} # {}
Converged ==
  \A c \in Clients :
    (/\ ~Disturbed /\ notify = 0
     /\ phase[c] = "open" /\ inbox[c] = <<>> /\ pending[c] = {})
    => cache[c] \in {NoItem, Absent, Current}

\* Until the daemon has served a client's write, its cache never shows the
\* value of somebody else or an older one of its own, although signals about
\* them go on arriving: it shows the value written, or none if a removal
\* was announced.
OwnWriteFirst ==
  \A c \in Clients : \A p \in pending[c] :
    Outstanding(c) => cache[c] \in {p.v, Absent}

\* Every reply that a write counts on is still to come, once: it is queued,
\* or will be when the daemon serves the call.  Otherwise the write is
\* through too early, or never.
RepliesAreDue ==
  \A c \in Clients :
    LET due == Cardinality({i \in DOMAIN inbox[c] : inbox[c][i].k = "Reply"})
                 + (IF Outstanding(c) THEN 1 ELSE 0)
    IN IF pending[c] = {} THEN due = 0
       ELSE \A p \in pending[c] : p.count = due

\* A client that is blocked has been answered or will be.
BlockedAreAnswered ==
  \A c \in Clients : call[c] # {} <=> answer[c] # {} \/ Waiting(c)

\* A program that ends has its writes in the daemon: none is still on its way
\* when the channel is closed, as long as the daemon answers.
ClosedIsWritten ==
  \A c \in Clients :
    phase[c] = "closed" /\ ~Disturbed => requests[c] = <<>>

=============================================================================
