----------------------- MODULE SettingsReplies_proofs -----------------------
(***************************************************************************)
(* More about the settings daemon and its clients: a write counts exactly  *)
(* the replies that are to come (RepliesAreDue), and a closed channel has  *)
(* nothing on its way (ClosedIsWritten).                                   *)
(*                                                                         *)
(* The invariant adds to that of SettingsCache_proofs that a client waits  *)
(* for one write at most (OneWrite), and that unless it gave up a call it  *)
(* waits for the last one it made (LastWanted): when that is answered, the *)
(* daemon has served all of them.                                          *)
(***************************************************************************)
EXTENDS SettingsCache_proofs, FiniteSetTheorems, FunctionTheorems

-----------------------------------------------------------------------------
(* Replies in the main loop of a client.                                   *)

IsReply(b) == {i \in DOMAIN b : b[i].k = "Reply"}
Queued(b) == Cardinality(IsReply(b))
One(e) == IF e.k = "Reply" THEN 1 ELSE 0

\* They are finitely many.
LEMMA QueuedType ==
  ASSUME NEW b \in Seq(Events)
  PROVE  IsFiniteSet(IsReply(b)) /\ Queued(b) \in Nat
<1>1. IsFiniteSet(1 .. Len(b))
  BY FS_Interval
<1>2. IsReply(b) \subseteq 1 .. Len(b)
  BY DEF IsReply
<1>3. IsFiniteSet(IsReply(b))
  BY <1>1, <1>2, FS_Subset
<1> QED BY <1>3, FS_CardinalityType DEF Queued

\* One more event.
LEMMA QueuedAppend ==
  ASSUME NEW b \in Seq(Events), NEW e \in Events
  PROVE  Queued(Append(b, e)) = Queued(b) + One(e)
<1>1. IsFiniteSet(IsReply(b)) /\ Queued(b) \in Nat
  BY QueuedType
<1>2. CASE e.k = "Reply"
  <2>1. IsReply(Append(b, e)) = IsReply(b) \cup {Len(b) + 1}
    BY <1>2 DEF IsReply
  <2>2. Len(b) + 1 \notin IsReply(b)
    BY DEF IsReply
  <2> QED BY <1>1, <1>2, <2>1, <2>2, FS_AddElement DEF Queued, One
<1>3. CASE e.k # "Reply"
  <2>1. IsReply(Append(b, e)) = IsReply(b)
    BY <1>3 DEF IsReply
  <2> QED BY <1>1, <1>3, <2>1 DEF Queued, One
<1> QED BY <1>2, <1>3

\* The first event is dispatched: the others move up.
LEMMA QueuedTail ==
  ASSUME NEW b \in Seq(Events), b # <<>>
  PROVE  /\ Tail(b) \in Seq(Events)
         /\ Queued(b) = Queued(Tail(b)) + One(Head(b))
<1>1. /\ Tail(b) \in Seq(Events) /\ Head(b) = b[1] /\ Len(b) \in Nat \ {0}
      /\ DOMAIN b = 1 .. Len(b) /\ DOMAIN Tail(b) = 1 .. Len(b) - 1
      /\ \A i \in 1 .. Len(b) - 1 : Tail(b)[i] = b[i + 1]
  OBVIOUS
<1> DEFINE S == IsReply(Tail(b))
           T == IsReply(b) \ {1}
           f == [i \in S |-> i + 1]
<1>2. \A i \in S : i \in Nat /\ i + 1 \in T
  BY <1>1 DEF IsReply
<1>3. \A j \in T : j - 1 \in S /\ (j - 1) + 1 = j
  BY <1>1 DEF IsReply
<1>4. ExistsBijection(S, T)
  <2>1. f \in [S -> T]
    BY <1>2
  <2>2. \A i, j \in S : f[i] = f[j] => i = j
    BY <1>2
  <2>3. \A j \in T : \E i \in S : f[i] = j
    BY <1>3
  <2> HIDE DEF f, S, T
  <2>4. f \in Bijection(S, T)
    BY <2>1, <2>2, <2>3, Fun_IsBij
  <2> QED BY <2>4 DEF ExistsBijection
<1>5. IsFiniteSet(S) /\ Queued(Tail(b)) \in Nat
  BY <1>1, QueuedType
<1>6. IsFiniteSet(T) /\ Cardinality(T) = Queued(Tail(b))
  BY <1>4, <1>5, FS_Bijection DEF Queued
<1>7. CASE b[1].k = "Reply"
  <2>1. IsReply(b) = T \cup {1} /\ 1 \notin T
    BY <1>1, <1>7 DEF IsReply
  <2>2. Queued(b) = Cardinality(T) + 1
    BY <1>6, <2>1, FS_AddElement DEF Queued
  <2> QED BY <1>1, <1>5, <1>6, <1>7, <2>2 DEF One
<1>8. CASE b[1].k # "Reply"
  <2>1. IsReply(b) = T
    BY <1>1, <1>8 DEF IsReply
  <2>2. Queued(b) = Cardinality(T)
    BY <2>1 DEF Queued
  <2> HIDE DEF T
  <2> QED BY <1>1, <1>5, <1>6, <1>8, <2>2 DEF One
<1> QED BY <1>7, <1>8

\* A write that is cancelled, given up or lost is replied to as a failure.
LEMMA QueuedFailures ==
  ASSUME NEW c \in Clients, NEW b \in Seq(Events)
  PROVE  Queued(b \o Failures(c)) = Queued(b) + (IF Outstanding(c) THEN 1 ELSE 0)
<1>1. Queued(b) \in Nat /\ Reply(FALSE) \in Events /\ One(Reply(FALSE)) = 1
  BY QueuedType DEF Events, One, Reply
<1>2. CASE Outstanding(c)
  <2>1. b \o Failures(c) = Append(b, Reply(FALSE))
    <3>1. Failures(c) = <<Reply(FALSE)>>
      BY <1>2 DEF Failures
    <3>2. \A e \in Events : b \o <<e>> = Append(b, e)
      OBVIOUS
    <3> QED BY <1>1, <3>1, <3>2
  <2> QED BY <1>1, <1>2, <2>1, QueuedAppend
<1>3. CASE ~Outstanding(c)
  <2>1. b \o Failures(c) = b
    BY <1>3 DEF Failures
  <2> QED BY <1>1, <1>3, <2>1
<1> QED BY <1>2, <1>3

-----------------------------------------------------------------------------
(* The calls of a client on their way.                                     *)

IsWrite(r) == r.wanted /\ r.op = "Set"
OneWrite(q) == \A i, j \in DOMAIN q : IsWrite(q[i]) /\ IsWrite(q[j]) => i = j
LastWanted(q) == q # <<>> => q[Len(q)].wanted

\* A synchronous call follows.
LEMMA SyncFollows ==
  ASSUME NEW q \in Seq(Requests), NEW r \in Requests, r.wanted, r.op # "Set"
  PROVE  /\ LastWanted(Append(q, r))
         /\ OneWrite(q) => OneWrite(Append(q, r))
         /\ NoWrite(Append(q, r)) <=> NoWrite(q)
<1>1. /\ DOMAIN Append(q, r) = 1 .. Len(q) + 1 /\ DOMAIN q = 1 .. Len(q)
      /\ Len(Append(q, r)) = Len(q) + 1 /\ Len(q) \in Nat
      /\ Append(q, r)[Len(q) + 1] = r
      /\ \A i \in 1 .. Len(q) : Append(q, r)[i] = q[i]
  OBVIOUS
<1> QED BY <1>1 DEF LastWanted, OneWrite, NoWrite, IsWrite

\* Everything is cancelled, and a write follows, waited for or not.
LEMMA WriteFollows ==
  ASSUME NEW q \in Seq(Requests), NEW r \in Requests, r.wanted
  PROVE  /\ LastWanted(Append(Unwanted(q), r))
         /\ OneWrite(Append(Unwanted(q), r))
         /\ NoWrite(Append(Unwanted(q), r)) <=> r.op # "Set"
<1> DEFINE u == Unwanted(q)
<1>1. u \in Seq(Requests) /\ NoneWanted(u)
  BY Cancelled
<1> HIDE DEF u
<1>2. /\ DOMAIN Append(u, r) = 1 .. Len(u) + 1 /\ DOMAIN u = 1 .. Len(u)
      /\ Len(Append(u, r)) = Len(u) + 1 /\ Len(u) \in Nat
      /\ Append(u, r)[Len(u) + 1] = r
      /\ \A i \in 1 .. Len(u) : Append(u, r)[i] = u[i]
  BY <1>1
<1>3. /\ LastWanted(Append(u, r)) /\ OneWrite(Append(u, r))
      /\ NoWrite(Append(u, r)) <=> r.op # "Set"
  BY <1>1, <1>2 DEF LastWanted, OneWrite, NoWrite, IsWrite, NoneWanted
<1> QED BY <1>3 DEF u

\* The daemon takes the first call.
LEMMA FirstServed ==
  ASSUME NEW q \in Seq(Requests), q # <<>>
  PROVE  /\ LastWanted(q) => LastWanted(Tail(q))
         /\ OneWrite(q) => OneWrite(Tail(q))
         /\ ~IsWrite(Head(q)) => (NoWrite(Tail(q)) <=> NoWrite(q))
         /\ IsWrite(Head(q)) /\ OneWrite(q) => NoWrite(Tail(q)) /\ ~NoWrite(q)
         /\ NoneWanted(Tail(q)) /\ LastWanted(q) => Tail(q) = <<>>
<1>1. /\ Tail(q) \in Seq(Requests) /\ Head(q) = q[1] /\ Len(q) \in Nat \ {0}
      /\ Len(Tail(q)) = Len(q) - 1
      /\ DOMAIN q = 1 .. Len(q) /\ DOMAIN Tail(q) = 1 .. Len(q) - 1
      /\ \A i \in 1 .. Len(q) - 1 : Tail(q)[i] = q[i + 1]
  OBVIOUS
<1>2. \A j \in 1 .. Len(q) : j # 1 => j - 1 \in 1 .. Len(q) - 1 /\ q[j] = Tail(q)[j - 1]
  BY <1>1
<1>3. LastWanted(q) => LastWanted(Tail(q))
  BY <1>1 DEF LastWanted
<1>4. OneWrite(q) => OneWrite(Tail(q))
  BY <1>1 DEF OneWrite, IsWrite
<1>5. ~IsWrite(Head(q)) => (NoWrite(Tail(q)) <=> NoWrite(q))
  <2>1. NoWrite(q) => NoWrite(Tail(q))
    BY <1>1 DEF NoWrite
  <2>2. ASSUME ~IsWrite(Head(q)), NoWrite(Tail(q)), NEW j \in DOMAIN q
        PROVE  q[j].wanted => q[j].op # "Set"
    BY <1>1, <1>2, <2>2 DEF NoWrite, IsWrite
  <2> QED BY <2>1, <2>2 DEF NoWrite
<1>6. IsWrite(Head(q)) /\ OneWrite(q) => NoWrite(Tail(q)) /\ ~NoWrite(q)
  BY <1>1 DEF NoWrite, IsWrite, OneWrite
<1>7. NoneWanted(Tail(q)) /\ LastWanted(q) => Tail(q) = <<>>
  <2> SUFFICES ASSUME NoneWanted(Tail(q)), LastWanted(q), Tail(q) # <<>>
               PROVE  FALSE
    OBVIOUS
  <2>1. Len(q) - 1 \in 1 .. Len(q) - 1 /\ Tail(q)[Len(q) - 1].wanted
    BY <1>1, <1>3 DEF LastWanted
  <2> QED BY <1>1, <2>1 DEF NoneWanted
<1> QED BY <1>3, <1>4, <1>5, <1>6, <1>7

\* The client gives up a call.
LEMMA OneGivenUp ==
  ASSUME NEW q \in Seq(Requests), NEW i \in DOMAIN q, q[i].wanted
  PROVE  /\ Given(q, i) \in Seq(Requests)
         /\ OneWrite(q) => OneWrite(Given(q, i))
         /\ q[i].op # "Set" => (NoWrite(Given(q, i)) <=> NoWrite(q))
         /\ q[i].op = "Set" /\ OneWrite(q) => NoWrite(Given(q, i)) /\ ~NoWrite(q)
<1> DEFINE p == Given(q, i)
<1>1. DOMAIN q = 1 .. Len(q) /\ Len(q) \in Nat /\ q[i] \in Requests
  OBVIOUS
<1>2. p = [q EXCEPT ![i] = [q[i] EXCEPT !.wanted = FALSE]]
  BY DEF Given
<1> HIDE DEF p
<1>3. p \in Seq(Requests) /\ DOMAIN p = DOMAIN q
  BY <1>1, <1>2, CancelledCall
<1>4. \A j \in DOMAIN p : p[j].op = q[j].op /\ (p[j].wanted <=> q[j].wanted /\ j # i)
  BY <1>1, <1>2, <1>3, CancelledCall
<1>5. /\ p \in Seq(Requests)
      /\ OneWrite(q) => OneWrite(p)
      /\ q[i].op # "Set" => (NoWrite(p) <=> NoWrite(q))
      /\ q[i].op = "Set" /\ OneWrite(q) => NoWrite(p) /\ ~NoWrite(q)
  BY <1>3, <1>4 DEF OneWrite, NoWrite, IsWrite
<1> QED BY <1>5 DEF p

-----------------------------------------------------------------------------
(* The invariant.                                                          *)

Owed(q, b) == Queued(b) + (IF NoWrite(q) THEN 0 ELSE 1)

Due(c) ==
  IF pending[c] = {} THEN Owed(requests[c], inbox[c]) = 0
  ELSE \A p \in pending[c] : p.count = Owed(requests[c], inbox[c])

Written(c) ==
  /\ call[c] # {} => phase[c] = "open"
  /\ ~Disturbed => LastWanted(requests[c])
  /\ phase[c] = "closed" /\ ~Disturbed => requests[c] = <<>>

Replies(c) == OneWrite(requests[c]) /\ Due(c) /\ Written(c)
RInv == IInv /\ \A c \in Clients : Replies(c)

\* What every step of one client leaves alone.
Apart(c) ==
  /\ \A d \in Clients \ {c} :
       /\ phase'[d] = phase[d] /\ call'[d] = call[d]
       /\ pending'[d] = pending[d]
       /\ requests'[d] = requests[d] /\ inbox'[d] = inbox[d]
  /\ faults \subseteq faults'

LEMMA OthersKeep ==
  ASSUME RInv, NEW c \in Clients, Apart(c), Replies(c)'
  PROVE  \A d \in Clients : Replies(d)'
<1> SUFFICES ASSUME NEW d \in Clients \ {c} PROVE Replies(d)'
  OBVIOUS
<1>1. Disturbed => Disturbed'
  BY DEF Apart, Disturbed
<1> QED BY <1>1 DEF RInv, Apart, Replies, Due, Written

\* The types that the steps use.
LEMMA Typing ==
  ASSUME RInv, NEW c \in Clients
  PROVE  /\ ClientTypeOK /\ ClientInv(c) /\ Replies(c)
         /\ requests[c] \in Seq(Requests) /\ inbox[c] \in Seq(Events)
         /\ Queued(inbox[c]) \in Nat
         /\ \A p \in pending[c] : p.count \in Nat \ {0} /\ p \in OldItems
         /\ Outstanding(c) <=> ~NoWrite(requests[c])
<1>1. ClientsInv /\ ClientTypeOK /\ ClientInv(c) /\ Replies(c)
  BY DEF RInv, IInv, ClientsInv
<1>2. requests[c] \in Seq(Requests) /\ inbox[c] \in Seq(Events)
  BY <1>1 DEF ClientTypeOK
<1>3. \A p \in pending[c] : p.count \in Nat \ {0} /\ p \in OldItems
  BY <1>1, CacheAssumption DEF ClientTypeOK, OldItems
<1> QED BY <1>1, <1>2, <1>3, QueuedType, QueueClaims

-----------------------------------------------------------------------------
(* Calls of the library.                                                   *)

\* A client blocks in a call.
LEMMA BlockReplies ==
  ASSUME RInv, NEW c \in Clients, NEW op, NEW v \in Values \cup {NoValue},
         NEW request \in {"Get", "SetSync"} \cup Resets, Block(c, op, v, request),
         phase'[c] = "open", \A d \in Clients \ {c} : phase'[d] = phase[d],
         UNCHANGED <<pending, inbox, faults>>
  PROVE  \A d \in Clients : Replies(d)'
<1> DEFINE r == [op |-> request, v |-> v, wanted |-> TRUE]
<1>1. ClientTypeOK /\ Replies(c) /\ requests[c] \in Seq(Requests)
  BY Typing
<1>2. r \in Requests /\ r.wanted /\ r.op # "Set"
  BY DEF Requests, Resets
<1>3. /\ requests'[c] = Append(requests[c], r)
      /\ \A d \in Clients \ {c} : requests'[d] = requests[d] /\ call'[d] = call[d]
  BY <1>1 DEF Block, Put, ClientTypeOK
<1> HIDE DEF r
<1>4. /\ LastWanted(requests'[c]) /\ OneWrite(requests'[c])
      /\ NoWrite(requests'[c]) <=> NoWrite(requests[c])
  BY <1>1, <1>2, <1>3, SyncFollows DEF Replies
<1>5. Due(c)' /\ Written(c)'
  BY <1>1, <1>4 DEF Replies, Due, Owed, Written
<1>6. Apart(c)
  BY <1>3 DEF Apart
<1> QED BY <1>4, <1>5, <1>6, OthersKeep DEF Replies

\* xfconf_cache_set once the cached value is known.
LEMMA SetKnownReplies ==
  ASSUME RInv, NEW c \in Clients, NEW v \in Values, NEW item, SetKnown(c, v, item),
         phase[c] = "open", UNCHANGED <<phase, faults>>,
         \A d \in Clients \ {c} : call'[d] = call[d]
  PROVE  \A d \in Clients : Replies(d)'
<1> DEFINE r == [op |-> "Set", v |-> v, wanted |-> TRUE]
           q == Append(Unwanted(requests[c]), r)
           b == inbox[c] \o Failures(c)
<1>1. /\ ClientTypeOK /\ Replies(c)
      /\ requests[c] \in Seq(Requests) /\ inbox[c] \in Seq(Events)
      /\ Queued(inbox[c]) \in Nat
      /\ \A p \in pending[c] : p.count \in Nat
      /\ Outstanding(c) <=> ~NoWrite(requests[c])
  BY Typing
<1>2. CASE UNCHANGED <<pending, requests, inbox>>
  <2>1. Replies(c)' /\ Apart(c)
    BY <1>1, <1>2 DEF Replies, Due, Written, Apart, Disturbed
  <2> QED BY <2>1, OthersKeep
<1>3. CASE /\ Put(pending, c, OneMore(c, item, v))
           /\ Put(requests, c, q)
           /\ Put(inbox, c, b)
  <2>1. r \in Requests /\ r.wanted /\ r.op = "Set"
    BY DEF Requests
  <2>2. /\ requests'[c] = q /\ inbox'[c] = b /\ pending'[c] = OneMore(c, item, v)
        /\ \A d \in Clients \ {c} : /\ requests'[d] = requests[d]
                                   /\ inbox'[d] = inbox[d]
                                   /\ pending'[d] = pending[d]
    BY <1>1, <1>3 DEF Put, ClientTypeOK
  <2> HIDE DEF r
  <2>3. LastWanted(q) /\ OneWrite(q) /\ ~NoWrite(q)
    BY <1>1, <2>1, WriteFollows
  <2>4. Queued(b) = Owed(requests[c], inbox[c])
    BY <1>1, QueuedFailures DEF Owed
  <2> HIDE DEF q, b
  <2>5. Owed(requests'[c], inbox'[c]) = Owed(requests[c], inbox[c]) + 1
    BY <2>2, <2>3, <2>4 DEF Owed
  <2>6. Due(c)'
    <3>1. CASE pending[c] = {}
      <4>1. Owed(requests[c], inbox[c]) = 0
        BY <1>1, <3>1 DEF Replies, Due
      <4>2. pending'[c] = {Write(item, v)} /\ Write(item, v).count = 1
        BY <2>2, <3>1 DEF OneMore, Write
      <4> QED BY <2>5, <4>1, <4>2 DEF Due
    <3>2. CASE pending[c] # {}
      <4>1. \A p \in pending[c] : p.count = Owed(requests[c], inbox[c])
        BY <1>1, <3>2 DEF Replies, Due
      <4>2. \A p \in pending[c] : [p EXCEPT !.v = v, !.count = @ + 1].count = p.count + 1
        BY Typing DEF OldItems
      <4>3. pending'[c] = {[p EXCEPT !.v = v, !.count = @ + 1] : p \in pending[c]}
        BY <2>2, <3>2 DEF OneMore
      <4>4. \A p \in pending'[c] : p.count = Owed(requests[c], inbox[c]) + 1
        BY <4>1, <4>2, <4>3
      <4> QED BY <2>5, <3>2, <4>3, <4>4 DEF Due
    <3> QED BY <3>1, <3>2
  <2>7. Written(c)' /\ Apart(c)
    BY <2>2, <2>3 DEF Written, Apart
  <2> QED BY <2>2, <2>3, <2>6, <2>7, OthersKeep DEF Replies
<1> QED BY <1>2, <1>3 DEF SetKnown

\* Open, Lookup and Reset block the client.
LEMMA BlockingReplies ==
  ASSUME RInv, NEW c \in Clients,
         Open(c) \/ Lookup(c) \/ \E how \in Resets : Reset(c, how)
  PROVE  \A d \in Clients : Replies(d)'
<1>1. ClientTypeOK
  BY Typing
<1>2. CASE Open(c)
  <2>1. phase'[c] = "open" /\ \A d \in Clients \ {c} : phase'[d] = phase[d]
    BY <1>1, <1>2 DEF Open, Put, ClientTypeOK
  <2> QED BY <1>2, <2>1, BlockReplies DEF Open, storeVars
<1>3. CASE Lookup(c)
  BY <1>3, BlockReplies DEF Lookup, Free, storeVars
<1>4. ASSUME NEW how \in Resets, Reset(c, how)
      PROVE  \A d \in Clients : Replies(d)'
  <2>1. Block(c, IF how = "ResetRoot" THEN how ELSE "Reset", NoValue, how)
    BY <1>4 DEF Reset
  <2>2. phase'[c] = "open" /\ UNCHANGED <<phase, pending, inbox, faults>>
    BY <1>4 DEF Reset, Free, storeVars
  <2> QED BY <2>1, <2>2, BlockReplies
<1> QED BY <1>2, <1>3, <1>4

\* xfconf_cache_set
LEMMA SetReplies ==
  ASSUME RInv, NEW c \in Clients, NEW v \in Values, Set(c, v)
  PROVE  \A d \in Clients : Replies(d)'
<1>1. phase[c] = "open" /\ UNCHANGED <<phase, faults>>
  BY DEF Set, Free, storeVars
<1>2. CASE Block(c, "Set", v, "Get") /\ UNCHANGED <<cache, pending, inbox>>
  BY <1>1, <1>2, BlockReplies
<1>3. CASE SetKnown(c, v, cache[c]) /\ UNCHANGED call
  <2>1. \A d \in Clients \ {c} : call'[d] = call[d]
    BY <1>3
  <2>2. PICK item : SetKnown(c, v, item)
    BY <1>3 DEF SetKnown
  <2> QED BY <1>1, <2>1, <2>2, SetKnownReplies
<1> QED BY <1>2, <1>3 DEF Set

\* xfconf_cache_finalize: nothing is on its way, or the write is made again.
LEMMA CloseReplies ==
  ASSUME RInv, NEW c \in Clients, Close(c)
  PROVE  \A d \in Clients : Replies(d)'
<1> USE Typing
<1>1. /\ ClientTypeOK /\ ClientInv(c) /\ Replies(c)
      /\ requests[c] \in Seq(Requests) /\ inbox[c] \in Seq(Events)
      /\ Queued(inbox[c]) \in Nat /\ (Outstanding(c) <=> ~NoWrite(requests[c]))
  OBVIOUS
<1>2. phase[c] = "open" /\ call[c] = {} /\ UNCHANGED faults
  BY DEF Close, Free, storeVars
<1>3. CASE /\ pending[c] = {}
           /\ Put(phase, c, "closed")
           /\ UNCHANGED <<pending, requests, inbox, call>>
  <2>1. NoWrite(requests[c])
    BY <1>1, <1>3 DEF Replies, Due, Owed
  <2>2. NoneWanted(requests[c])
    BY <1>1, <1>2, <2>1 DEF NoneWanted, NoWrite, NoSync, ClientInv, Sync
  <2>3. ~Disturbed => requests[c] = <<>>
    <3> SUFFICES ASSUME ~Disturbed, requests[c] # <<>> PROVE FALSE
      OBVIOUS
    <3>1. Len(requests[c]) \in DOMAIN requests[c]
      BY <1>1
    <3> QED BY <1>1, <2>2, <3>1 DEF Replies, Written, LastWanted, NoneWanted
  <2>4. Due(c)' /\ OneWrite(requests'[c])
    BY <1>1, <1>3 DEF Replies, Due
  <2>5. Written(c)'
    BY <1>1, <1>2, <1>3, <2>3 DEF Replies, Written, Disturbed, LastWanted
  <2>6. Apart(c)
    BY <1>1, <1>2, <1>3 DEF Apart, Put, ClientTypeOK
  <2> QED BY <2>4, <2>5, <2>6, OthersKeep DEF Replies
<1>4. ASSUME NEW p \in pending[c],
             Put(pending, c, {[p EXCEPT !.closing = TRUE]}),
             Put(requests, c, Append(Unwanted(requests[c]),
                    [op |-> "SetSync", v |-> p.v, wanted |-> TRUE])),
             Put(inbox, c, inbox[c] \o Failures(c)),
             Put(call, c, {[op |-> "Close", v |-> NoValue]}),
             UNCHANGED <<phase, cache>>
      PROVE  \A d \in Clients : Replies(d)'
  <2> DEFINE r == [op |-> "SetSync", v |-> p.v, wanted |-> TRUE]
             q == Append(Unwanted(requests[c]), r)
             b == inbox[c] \o Failures(c)
  <2>1. /\ requests'[c] = q /\ inbox'[c] = b
        /\ pending'[c] = {[p EXCEPT !.closing = TRUE]}
        /\ \A d \in Clients \ {c} : /\ requests'[d] = requests[d]
                                   /\ inbox'[d] = inbox[d]
                                   /\ pending'[d] = pending[d]
                                   /\ call'[d] = call[d]
    BY <1>1, <1>4 DEF Put, ClientTypeOK
  <2>2. r \in Requests /\ r.wanted /\ r.op # "Set"
    <3>1. p.v \in Values
      BY <1>4 DEF OldItems
    <3> QED BY <3>1 DEF Requests
  <2> HIDE DEF r
  <2>3. LastWanted(q) /\ OneWrite(q) /\ NoWrite(q)
    BY <1>1, <2>2, WriteFollows
  <2>4. Queued(b) = Owed(requests[c], inbox[c])
    BY <1>1, QueuedFailures DEF Owed
  <2> HIDE DEF q, b
  <2>5. Owed(requests'[c], inbox'[c]) = Owed(requests[c], inbox[c])
    <3>1. Owed(requests[c], inbox[c]) \in Nat
      BY <1>1 DEF Owed
    <3> QED BY <2>1, <2>3, <2>4, <3>1 DEF Owed
  <2>6. Due(c)'
    <3>1. p.count = Owed(requests[c], inbox[c])
      BY <1>1, <1>4 DEF Replies, Due
    <3>2. [p EXCEPT !.closing = TRUE].count = p.count
      BY <1>4 DEF OldItems
    <3> QED BY <2>1, <2>5, <3>1, <3>2 DEF Due
  <2>7. Written(c)' /\ Apart(c)
    BY <1>2, <1>4, <2>1, <2>3 DEF Written, Apart
  <2> QED BY <2>1, <2>3, <2>6, <2>7, OthersKeep DEF Replies
<1> QED BY <1>3, <1>4 DEF Close

-----------------------------------------------------------------------------
(* Answers.                                                                *)

\* When the last call is answered, the daemon has served all before it.
LEMMA AnsweredReplies ==
  ASSUME RInv, NEW c \in Clients, NEW op, Answered(c, op),
         phase'[c] \in {phase[c], "closed"},
         \A d \in Clients \ {c} : phase'[d] = phase[d],
         UNCHANGED <<pending, requests, inbox, faults>>
  PROVE  \A d \in Clients : Replies(d)'
<1>1. ClientTypeOK /\ ClientsInv /\ Replies(c) /\ requests[c] \in Seq(Requests)
  BY Typing DEF RInv, IInv
<1>2. /\ NoneWanted(requests[c]) /\ call'[c] = {}
      /\ \A d \in Clients \ {c} : call'[d] = call[d]
  BY <1>1, AnsweredFacts
<1>3. ~Disturbed => requests[c] = <<>>
  <2> SUFFICES ASSUME ~Disturbed, requests[c] # <<>> PROVE FALSE
    OBVIOUS
  <2>1. Len(requests[c]) \in DOMAIN requests[c]
    BY <1>1
  <2> QED BY <1>1, <1>2, <2>1 DEF Replies, Written, LastWanted, NoneWanted
<1>4. Replies(c)' /\ Apart(c)
  BY <1>1, <1>2, <1>3 DEF Replies, Due, Written, LastWanted, Disturbed, Apart
<1> QED BY <1>4, OthersKeep

\* All answers: a fetched value may be set, a closed channel stays closed.
LEMMA AnswersReplies ==
  ASSUME RInv, NEW c \in Clients,
         \/ PrefetchAnswered(c) \/ LookupAnswered(c) \/ SetAnswered(c)
         \/ ResetAnswered(c) \/ ResetRootAnswered(c) \/ CloseAnswered(c)
  PROVE  \A d \in Clients : Replies(d)'
<1>1. ClientTypeOK /\ ClientsInv
  BY Typing DEF RInv, IInv
<1>2. CASE \/ PrefetchAnswered(c) \/ LookupAnswered(c) \/ ResetAnswered(c)
           \/ ResetRootAnswered(c)
  <2>1. \E op \in {"Prefetch", "Lookup", "Reset", "ResetRoot"} : Answered(c, op)
    BY <1>2 DEF PrefetchAnswered, LookupAnswered, ResetAnswered, ResetRootAnswered
  <2>2. UNCHANGED <<phase, pending, requests, inbox, faults>>
    BY <1>2 DEF PrefetchAnswered, LookupAnswered, ResetAnswered,
                ResetRootAnswered, storeVars
  <2>3. phase'[c] = phase[c] /\ \A d \in Clients \ {c} : phase'[d] = phase[d]
    BY <2>2
  <2> QED BY <2>1, <2>2, <2>3, AnsweredReplies
<1>3. CASE CloseAnswered(c)
  <2>1. phase'[c] = "closed" /\ \A d \in Clients \ {c} : phase'[d] = phase[d]
    BY <1>1, <1>3 DEF CloseAnswered, Put, ClientTypeOK
  <2>2. UNCHANGED <<pending, requests, inbox, faults>> /\ Answered(c, "Close")
    BY <1>3 DEF CloseAnswered, storeVars
  <2> QED BY <2>1, <2>2, AnsweredReplies
<1>4. CASE SetAnswered(c)
  <2>1. Answered(c, "Set") /\ UNCHANGED <<phase, faults>>
    BY <1>4 DEF SetAnswered, storeVars
  <2>2. PICK a \in answer[c], k \in call[c] :
          IF a.result = "lost" THEN UNCHANGED <<cache, pending, requests, inbox>>
          ELSE SetKnown(c, k.v, Fetched(a))
    BY <1>4 DEF SetAnswered
  <2>3. phase'[c] = phase[c] /\ \A d \in Clients \ {c} : phase'[d] = phase[d]
    BY <2>1
  <2>4. CASE UNCHANGED <<cache, pending, requests, inbox>>
    BY <2>1, <2>3, <2>4, AnsweredReplies
  <2>5. CASE SetKnown(c, k.v, Fetched(a))
    <3>1. phase[c] = "open"
      BY <2>2, Typing DEF Replies, Written
    <3>2. k.v \in Values
      <4>1. k.op = "Set"
        <5>1. (\E l \in call[c] : l.op = "Set") /\ call[c] = {k}
          BY <1>1, <2>1, <2>2 DEF Answered, ClientsInv, ClientInv, Typed
        <5> QED BY <5>1
      <4> QED BY <1>1, <2>2, <4>1 DEF ClientsInv, ClientInv, Typed
    <3>3. \A d \in Clients \ {c} : call'[d] = call[d]
      BY <1>1, <2>1, AnsweredFacts
    <3> QED BY <2>1, <2>5, <3>1, <3>2, <3>3, SetKnownReplies
  <2> QED BY <2>2, <2>4, <2>5
<1> QED BY <1>2, <1>3, <1>4

-----------------------------------------------------------------------------
(* The main loop of a client.                                              *)

\* The event that is dispatched is taken off; a reply pays its debt.
LEMMA DispatchReplies ==
  ASSUME RInv, NEW c \in Clients,
         ReplyArrives(c) \/ PropertyChanged(c) \/ PropertyRemoved(c)
  PROVE  \A d \in Clients : Replies(d)'
<1>1. /\ ClientTypeOK /\ Replies(c)
      /\ requests[c] \in Seq(Requests) /\ inbox[c] \in Seq(Events)
      /\ \A p \in pending[c] : p.count \in Nat \ {0} /\ p \in OldItems
  BY Typing
<1>2. PICK k \in {"Reply", "Changed", "Removed"} : Dispatching(c, k)
  BY DEF ReplyArrives, PropertyChanged, PropertyRemoved
<1>3. /\ inbox[c] # <<>> /\ inbox'[c] = Tail(inbox[c])
      /\ \A d \in Clients \ {c} : inbox'[d] = inbox[d]
      /\ UNCHANGED <<faults, phase, call, requests>>
  BY <1>1, <1>2 DEF Dispatching, Put, ClientTypeOK, storeVars
<1>4. Queued(inbox[c]) = Queued(inbox'[c]) + One(Head(inbox[c]))
      /\ Queued(inbox'[c]) \in Nat
  BY <1>1, <1>3, QueuedTail, QueuedType
<1>5. OneWrite(requests'[c]) /\ Written(c)'
  BY <1>1, <1>3 DEF Replies, Written, LastWanted, Disturbed
<1>6. CASE ReplyArrives(c)
  <2>1. PICK p \in pending[c] :
          \/ p.count > 1 /\ Put(pending, c, {[p EXCEPT !.count = @ - 1]})
          \/ p.count = 1 /\ Put(pending, c, {})
    BY <1>6 DEF ReplyArrives
  <2>2. One(Head(inbox[c])) = 1
    BY <1>6 DEF ReplyArrives, Dispatching, One
  <2>3. p.count = Owed(requests[c], inbox[c]) /\ p.count \in Nat
    BY <1>1, <2>1 DEF Replies, Due
  <2>4. Owed(requests'[c], inbox'[c]) = p.count - 1
    BY <1>3, <1>4, <2>2, <2>3 DEF Owed
  <2>5. \A d \in Clients \ {c} : pending'[d] = pending[d]
    BY <1>1, <2>1 DEF Put, ClientTypeOK
  <2>6. Due(c)'
    <3>1. CASE p.count > 1 /\ Put(pending, c, {[p EXCEPT !.count = @ - 1]})
      <4>1. pending'[c] = {[p EXCEPT !.count = @ - 1]}
        BY <1>1, <3>1 DEF Put, ClientTypeOK
      <4>2. [p EXCEPT !.count = @ - 1].count = p.count - 1
        BY <1>1, <2>1 DEF OldItems
      <4> QED BY <2>4, <4>1, <4>2 DEF Due
    <3>2. CASE p.count = 1 /\ Put(pending, c, {})
      <4>1. pending'[c] = {}
        BY <1>1, <3>2 DEF Put, ClientTypeOK
      <4> QED BY <2>4, <3>2, <4>1 DEF Due
    <3> QED BY <2>1, <3>1, <3>2
  <2> QED BY <1>3, <1>5, <2>5, <2>6, OthersKeep DEF Replies, Apart
<1>7. CASE PropertyChanged(c) \/ PropertyRemoved(c)
  <2>1. UNCHANGED pending
    BY <1>7 DEF PropertyChanged, PropertyRemoved
  <2>2. One(Head(inbox[c])) = 0
    BY <1>7 DEF PropertyChanged, PropertyRemoved, Dispatching, One
  <2>3. Owed(requests'[c], inbox'[c]) = Owed(requests[c], inbox[c])
    BY <1>3, <1>4, <2>2 DEF Owed
  <2>4. Due(c)'
    BY <1>1, <2>1, <2>3 DEF Replies, Due
  <2> QED BY <1>3, <1>5, <2>1, <2>4, OthersKeep DEF Replies, Apart
<1> QED BY <1>6, <1>7

-----------------------------------------------------------------------------
(* The daemon.                                                             *)

\* Faults that have happened are remembered.
LEMMA ServeFaults ==
  ASSUME NEW c \in Clients, Serve(c) PROVE faults \subseteq faults'
<1>1. \/ \E r \in {Head(requests[c])}, ok \in BOOLEAN :
           StoreSet(r.v, ok) \/ StoreReset(r.op, ok)
      \/ UNCHANGED storeVars
  BY DEF Serve
<1>2. ASSUME NEW v, NEW ok, StoreSet(v, ok) PROVE faults \subseteq faults'
  BY <1>2 DEF StoreSet, Change, storeVars
<1>3. ASSUME NEW how, NEW ok, StoreReset(how, ok) PROVE faults \subseteq faults'
  BY <1>3 DEF StoreReset, ResetOne, ResetTree, ResetChannel, Change, storeVars
<1> QED BY <1>1, <1>2, <1>3 DEF storeVars

\* What is served is replied to if the client waits for it as a write.
LEMMA ServeReplies ==
  ASSUME RInv, NEW c \in Clients, Serve(c)
  PROVE  \A d \in Clients : Replies(d)'
<1> DEFINE q == requests[c]
           r == Head(q)
<1>1. /\ ClientTypeOK /\ Replies(c)
      /\ q \in Seq(Requests) /\ inbox[c] \in Seq(Events)
      /\ Queued(inbox[c]) \in Nat /\ q # <<>>
  BY Typing DEF Serve
<1>2. Put(requests, c, Tail(q)) /\ UNCHANGED <<phase, pending, call>>
  BY DEF Serve
<1>3. /\ requests'[c] = Tail(q)
      /\ \A d \in Clients \ {c} : requests'[d] = requests[d]
  BY <1>1, <1>2 DEF Put, ClientTypeOK
<1>4. r.wanted \in BOOLEAN
  BY <1>1, TailOf DEF Requests
<1>5. \/ /\ IsWrite(r)
         /\ \E ok \in BOOLEAN : Put(inbox, c, Append(inbox[c], Reply(ok)))
      \/ /\ ~IsWrite(r)
         /\ UNCHANGED inbox \/ Put(inbox, c, inbox[c])
  <2>1. \/ r.op = "Set" /\ \E ok \in BOOLEAN :
             Put(inbox, c, IF r.wanted THEN Append(inbox[c], Reply(ok)) ELSE inbox[c])
        \/ r.op # "Set" /\ UNCHANGED inbox
    BY DEF Serve, Resets
  <2> QED BY <1>4, <2>1 DEF IsWrite
<1> HIDE DEF r
<1>6. /\ LastWanted(q) => LastWanted(Tail(q))
      /\ OneWrite(Tail(q))
      /\ ~IsWrite(r) => (NoWrite(Tail(q)) <=> NoWrite(q))
      /\ IsWrite(r) => NoWrite(Tail(q)) /\ ~NoWrite(q)
  BY <1>1, FirstServed DEF Replies, r
<1> HIDE DEF q
<1>7. \A d \in Clients \ {c} : inbox'[d] = inbox[d]
  BY <1>1, <1>5 DEF Put, ClientTypeOK
<1>8. Owed(requests'[c], inbox'[c]) = Owed(requests[c], inbox[c])
  <2>1. ASSUME NEW ok \in BOOLEAN, Put(inbox, c, Append(inbox[c], Reply(ok))),
               IsWrite(r)
        PROVE  Owed(requests'[c], inbox'[c]) = Owed(requests[c], inbox[c])
    <3>1. inbox'[c] = Append(inbox[c], Reply(ok))
      BY <1>1, <2>1 DEF Put, ClientTypeOK
    <3>2. Queued(inbox'[c]) = Queued(inbox[c]) + 1
      <4>1. Reply(ok) \in Events /\ One(Reply(ok)) = 1
        BY DEF Events, One, Reply
      <4> QED BY <1>1, <3>1, <4>1, QueuedAppend
    <3> QED BY <1>1, <1>3, <1>6, <2>1, <3>2 DEF Owed, q
  <2>2. CASE ~IsWrite(r) /\ (UNCHANGED inbox \/ Put(inbox, c, inbox[c]))
    <3>1. inbox'[c] = inbox[c]
      BY <1>1, <2>2 DEF Put, ClientTypeOK
    <3> QED BY <1>3, <1>6, <2>2, <3>1 DEF Owed, q
  <2> QED BY <1>5, <2>1, <2>2
<1>9. Due(c)'
  BY <1>1, <1>2, <1>8 DEF Replies, Due
<1>10. faults \subseteq faults'
  BY ServeFaults
<1>11. Written(c)'
  <2>1. ~Disturbed' => ~Disturbed
    BY <1>10 DEF Disturbed
  <2> QED BY <1>1, <1>2, <1>3, <1>6, <2>1 DEF Replies, Written, q
<1>12. Apart(c)
  BY <1>2, <1>3, <1>7, <1>10 DEF Apart
<1> QED BY <1>3, <1>6, <1>9, <1>11, <1>12, OthersKeep DEF Replies

\* News are no replies.
LEMMA EmitReplies == RInv /\ Emit => \A d \in Clients : Replies(d)'
<1> SUFFICES ASSUME RInv, Emit, NEW d \in Clients PROVE Replies(d)'
  OBVIOUS
<1>1. Replies(d) /\ inbox[d] \in Seq(Events) /\ Queued(inbox[d]) \in Nat
  BY Typing
<1>2. UNCHANGED <<phase, pending, call, requests, faults>>
  BY DEF Emit
<1>3. Queued(inbox'[d]) = Queued(inbox[d])
  <2>1. inbox'[d] = IF phase[d] = "open" THEN Append(inbox[d], Signal(Current))
                    ELSE inbox[d]
    BY DEF Emit
  <2>2. Signal(Current) \in Events
    BY CurrentType DEF RInv, IInv, Events
  <2>3. One(Signal(Current)) = 0
    BY DEF One, Signal
  <2> QED BY <1>1, <2>1, <2>2, <2>3, QueuedAppend
<1>4. Due(d)'
  BY <1>1, <1>2, <1>3 DEF Replies, Due, Owed
<1>5. Written(d)' /\ OneWrite(requests'[d])
  BY <1>1, <1>2 DEF Replies, Written, Disturbed
<1> QED BY <1>4, <1>5 DEF Replies

\* A save, or nothing, concerns no client.
LEMMA SaveReplies ==
  RInv /\ (Save \/ UNCHANGED vars) => \A d \in Clients : Replies(d)'
<1> SUFFICES ASSUME RInv, Save \/ UNCHANGED vars, NEW d \in Clients
             PROVE  Replies(d)'
  OBVIOUS
<1>1. UNCHANGED <<phase, pending, call, requests, inbox>>
  BY DEF Save, vars, clientVars
<1>2. faults \subseteq faults'
  BY DEF Save, SaveTimeout, vars, storeVars
<1>3. ~Disturbed' => ~Disturbed
  BY <1>2 DEF Disturbed
<1> QED BY <1>1, <1>3 DEF RInv, Replies, Due, Written

\* A write that is given up is replied to by GDBus.
LEMMA TimeoutReplies ==
  ASSUME RInv, NEW c \in Clients, CallTimeout(c)
  PROVE  \A d \in Clients : Replies(d)'
<1> DEFINE q == requests[c]
<1>1. /\ ClientTypeOK /\ Replies(c)
      /\ q \in Seq(Requests) /\ inbox[c] \in Seq(Events)
      /\ Queued(inbox[c]) \in Nat /\ (Outstanding(c) <=> ~NoWrite(q))
  BY Typing
<1>2. PICK i \in Wanted(c) :
        Put(requests, c, [requests[c] EXCEPT ![i].wanted = FALSE]) /\ GiveUp(c, i)
  BY DEF CallTimeout
<1>3. i \in DOMAIN q /\ q[i].wanted
  BY <1>2 DEF Wanted
<1>4. /\ Given(q, i) \in Seq(Requests)
      /\ OneWrite(Given(q, i))
      /\ q[i].op # "Set" => (NoWrite(Given(q, i)) <=> NoWrite(q))
      /\ q[i].op = "Set" => NoWrite(Given(q, i)) /\ ~NoWrite(q)
  BY <1>1, <1>3, OneGivenUp DEF Replies
<1>5. /\ requests'[c] = Given(q, i)
      /\ \A d \in Clients \ {c} : requests'[d] = requests[d]
  BY <1>1, <1>2 DEF Put, ClientTypeOK, Given
<1>6. UNCHANGED <<phase, pending, call>> /\ faults' = faults \cup {"timeout"}
  BY DEF CallTimeout
<1>7. /\ inbox'[c] = IF q[i].op = "Set" THEN inbox[c] \o Failures(c) ELSE inbox[c]
      /\ \A d \in Clients \ {c} : inbox'[d] = inbox[d]
  BY <1>1, <1>2 DEF GiveUp, Put, ClientTypeOK
<1>8. Owed(requests'[c], inbox'[c]) = Owed(requests[c], inbox[c])
  <2>1. Queued(inbox[c] \o Failures(c)) = Owed(requests[c], inbox[c])
    BY <1>1, QueuedFailures DEF Owed
  <2>2. Owed(requests[c], inbox[c]) \in Nat
    BY <1>1 DEF Owed
  <2> HIDE DEF q
  <2>3. CASE q[i].op = "Set"
    BY <1>4, <1>5, <1>7, <2>1, <2>2, <2>3 DEF Owed
  <2>4. CASE q[i].op # "Set"
    BY <1>4, <1>5, <1>7, <2>4 DEF Owed, q
  <2> QED BY <2>3, <2>4
<1>9. Due(c)'
  BY <1>1, <1>6, <1>8 DEF Replies, Due
<1>10. Written(c)' /\ Apart(c)
  BY <1>1, <1>5, <1>6, <1>7 DEF Replies, Written, Disturbed, Apart
<1> QED BY <1>4, <1>5, <1>9, <1>10, OthersKeep DEF Replies

\* So is every write that is lost with the daemon.
LEMMA RestartReplies == RInv /\ Restart => \A d \in Clients : Replies(d)'
<1> SUFFICES ASSUME RInv, Restart, NEW d \in Clients PROVE Replies(d)'
  OBVIOUS
<1>1. /\ Replies(d) /\ requests[d] \in Seq(Requests) /\ inbox[d] \in Seq(Events)
      /\ Queued(inbox[d]) \in Nat /\ (Outstanding(d) <=> ~NoWrite(requests[d]))
  BY Typing
<1>2. /\ UNCHANGED <<phase, pending, call>> /\ requests'[d] = <<>>
      /\ inbox'[d] = inbox[d] \o Failures(d)
  BY DEF Restart
<1>3. OneWrite(<<>>) /\ NoWrite(<<>>) /\ LastWanted(<<>>)
  BY DEF OneWrite, NoWrite, LastWanted
<1>4. Owed(requests'[d], inbox'[d]) = Owed(requests[d], inbox[d])
  <2>1. Queued(inbox'[d]) = Owed(requests[d], inbox[d])
    BY <1>1, <1>2, QueuedFailures DEF Owed
  <2>2. Owed(requests[d], inbox[d]) \in Nat
    BY <1>1 DEF Owed
  <2> QED BY <1>2, <1>3, <2>1, <2>2 DEF Owed
<1>5. Due(d)' /\ Written(d)' /\ OneWrite(requests'[d])
  BY <1>1, <1>2, <1>3, <1>4 DEF Replies, Due, Written
<1> QED BY <1>5 DEF Replies

-----------------------------------------------------------------------------
(* The theorems.                                                           *)

\* The invariant holds initially.
LEMMA RepliesInit == Init => RInv
<1> SUFFICES ASSUME Init, NEW c \in Clients PROVE Replies(c)
  BY InitInv DEF RInv
<1>1. /\ phase[c] = "new" /\ pending[c] = {} /\ call[c] = {}
      /\ requests[c] = <<>> /\ inbox[c] = <<>>
  BY DEF Init
<1>2. OneWrite(<<>>) /\ NoWrite(<<>>) /\ LastWanted(<<>>)
  BY DEF OneWrite, NoWrite, LastWanted
<1>3. Owed(<<>>, <<>>) = 0
  <2>1. IsReply(<<>>) = {}
    BY DEF IsReply
  <2>2. Cardinality({}) = 0
    BY FS_EmptySet
  <2>3. Queued(<<>>) = 0
    BY <2>1, <2>2 DEF Queued
  <2> QED BY <1>2, <2>3 DEF Owed
<1> QED BY <1>1, <1>2, <1>3 DEF Replies, Due, Written

\* Every step preserves it.
LEMMA RepliesNext == RInv /\ [Next]_vars => RInv'
<1> SUFFICES ASSUME RInv, [Next]_vars PROVE RInv'
  OBVIOUS
<1>1. IInv'
  BY NextInv DEF RInv
<1>2. ASSUME NEW c \in Clients,
             \/ Open(c) \/ Lookup(c) \/ Close(c)
             \/ \E v \in Values : Set(c, v)
             \/ \E how \in Resets : Reset(c, how)
      PROVE  \A d \in Clients : Replies(d)'
  BY <1>2, BlockingReplies, SetReplies, CloseReplies
<1>3. ASSUME NEW c \in Clients,
             \/ PrefetchAnswered(c) \/ LookupAnswered(c) \/ SetAnswered(c)
             \/ ResetAnswered(c) \/ ResetRootAnswered(c) \/ CloseAnswered(c)
             \/ ReplyArrives(c) \/ PropertyChanged(c) \/ PropertyRemoved(c)
             \/ Serve(c) \/ CallTimeout(c)
      PROVE  \A d \in Clients : Replies(d)'
  BY <1>3, AnswersReplies, DispatchReplies, ServeReplies, TimeoutReplies
<1>4. \A d \in Clients : Replies(d)'
  BY <1>2, <1>3, EmitReplies, SaveReplies, RestartReplies DEF Next
<1> QED BY <1>1, <1>4 DEF RInv

\* The inductive invariant.
THEOREM RepliesInvariance == Spec => []RInv
BY RepliesInit, RepliesNext, PTL DEF Spec

\* Every reply that the record of a write counts on is still to come, once,
\* whatever is cancelled, given up or lost (RepliesAreDue).
THEOREM NoReplyMissed == Spec => []RepliesAreDue
<1>1. RInv => RepliesAreDue
  <2> SUFFICES ASSUME RInv, NEW c \in Clients
               PROVE  IF pending[c] = {} THEN Cardinality(IsReply(inbox[c]))
                           + (IF Outstanding(c) THEN 1 ELSE 0) = 0
                      ELSE \A p \in pending[c] : p.count =
                             Cardinality(IsReply(inbox[c]))
                               + (IF Outstanding(c) THEN 1 ELSE 0)
    BY DEF RepliesAreDue, IsReply
  <2>1. Replies(c) /\ (Outstanding(c) <=> ~NoWrite(requests[c]))
    BY Typing
  <2> QED BY <2>1 DEF Replies, Due, Owed, Queued
<1> QED BY <1>1, RepliesInvariance, PTL

\* A channel that was closed has nothing on its way to the daemon, as long as
\* no call was given up and nothing was lost with it (ClosedIsWritten).
THEOREM NothingUnwritten == Spec => []ClosedIsWritten
<1>1. RInv => ClosedIsWritten
  BY DEF RInv, Replies, Written, ClosedIsWritten
<1> QED BY <1>1, RepliesInvariance, PTL

=============================================================================
