------------------------ MODULE SettingsNews_proofs ------------------------
(***************************************************************************)
(* The caches converge (Converged): a client that has nothing left to deal *)
(* with, of a daemon that has nothing left to announce, shows no stale     *)
(* value.                                                                  *)
(*                                                                         *)
(* Nothing is assumed of who writes, resets and fetches in which order, so *)
(* the invariant is about the last thing in the main loop of a client.  If *)
(* it is a signal, that tells the present value, or another will come.  If *)
(* there is none after the last reply, the client has the present value    *)
(* already (Unlocked).  A locked property has one value for good, and all  *)
(* that is written will be taken back to it (Fixed).                       *)
(***************************************************************************)
EXTENDS SettingsReplies_proofs

Last(b) == b[Len(b)]
Told(c) ==
  /\ inbox[c] # <<>>
  /\ Last(inbox[c]).k # "Reply" /\ Last(inbox[c]).v = Current
Untold(c) == inbox[c] # <<>> => Last(inbox[c]).k = "Reply"

\* What may be shown, and what a fetch may bring.
Shows(x) == x \in {NoItem, Absent, Current}
FetchedNow(c) ==
  \A x \in answer[c] : Calling(c, Fetches) /\ x.result = "ok" => x.v = Current

\* The last reply is that of the last write, which is not refused.
LastReplyOk(b) ==
  \A i \in DOMAIN b :
    b[i].k = "Reply" /\ (\A j \in DOMAIN b : j > i => b[j].k # "Reply") => b[i].ok

Unlocked(c) ==
  NoWrite(requests[c]) =>
    /\ notify > 0 \/ Told(c) \/ (Untold(c) /\ Shows(cache[c]) /\ FetchedNow(c))
    /\ LastReplyOk(inbox[c])

Refused(b) ==
  \A i \in DOMAIN b : IF b[i].k = "Reply" THEN ~b[i].ok ELSE b[i].v = Current

Fixed(c) ==
  /\ pending[c] = {} => Shows(cache[c])
  /\ \A p \in pending[c] : p.old \in {NoValue, Current}
  /\ FetchedNow(c)
  /\ Refused(inbox[c])

\* What a client is that has not begun, or has begun to close, and that what
\* is on its way to be written is what its record says.
SentAs(q, ps) == \A i \in DOMAIN q : IsWrite(q[i]) => \A p \in ps : p.v = q[i].v

Kept(c) ==
  /\ phase[c] = "new" => /\ cache[c] = NoItem /\ pending[c] = {}
                         /\ inbox[c] = <<>> /\ requests[c] = <<>>
  /\ \A p \in pending[c] : p.closing => phase[c] = "closed" \/ Calling(c, {"Close"})
  /\ Calling(c, {"Close"}) => pending[c] # {}
  /\ SentAs(requests[c], pending[c])

Live(c) == phase[c] # "closed" /\ ~Calling(c, {"Close"}) /\ ~Disturbed
News(c) == Live(c) => IF Locked THEN Fixed(c) ELSE Unlocked(c)
NInv == RInv /\ \A c \in Clients : Kept(c) /\ News(c)

-----------------------------------------------------------------------------
(* Steps of others.                                                        *)

\* What the steps of the daemon may do to the property: it changes only with
\* an announcement, and not at all if it is locked.
Moves ==
  /\ lock' = lock
  /\ notify \in Nat /\ notify' \in Nat
  /\ faults \subseteq faults'
  /\ ~Disturbed' => \/ Current' = Current /\ notify <= notify'
                    \/ notify' > 0 /\ ~Locked

Same(c) ==
  /\ phase'[c] = phase[c] /\ cache'[c] = cache[c] /\ pending'[c] = pending[c]
  /\ call'[c] = call[c] /\ requests'[c] = requests[c]
  /\ answer'[c] = answer[c] /\ inbox'[c] = inbox[c]

\* A step that leaves the store alone.
LEMMA StoreStays ==
  ASSUME RInv, UNCHANGED storeVars
  PROVE  /\ Current' = Current /\ Locked' = Locked /\ notify' = notify
         /\ Disturbed' = Disturbed /\ Moves
BY DEF RInv, IInv, StoreInv, StoreTypeOK, storeVars, Current, Locked, Disturbed,
       Moves

LEMMA NewsOfOthers ==
  ASSUME NEW c \in Clients, Kept(c), News(c), Same(c), Moves
  PROVE  Kept(c)' /\ News(c)'
<1>1. Kept(c)'
  BY DEF Kept, Same, Calling
<1>2. Locked' = Locked /\ (~Disturbed' => ~Disturbed)
  BY DEF Moves, Locked, Disturbed
<1>3. Live(c)' => Live(c)
  BY <1>2 DEF Live, Same, Calling
<1>4. CASE Current' = Current /\ notify <= notify'
  <2>1. /\ Told(c) => Told(c)'
        /\ Untold(c) => Untold(c)'
        /\ FetchedNow(c) => FetchedNow(c)'
    BY <1>4 DEF Told, Untold, FetchedNow, Same, Calling
  <2>2. Fixed(c) => Fixed(c)'
    BY <1>4, <2>1 DEF Fixed, Same, Shows, Refused
  <2>3. notify > 0 => notify' > 0
    BY <1>4 DEF Moves
  <2>4. Unlocked(c) => Unlocked(c)'
    BY <1>4, <2>1, <2>3 DEF Unlocked, Same, Shows
  <2> QED BY <1>1, <1>2, <1>3, <2>2, <2>4 DEF News
<1>5. CASE notify' > 0 /\ ~Locked
  <2>1. Unlocked(c) => Unlocked(c)'
    BY <1>5 DEF Unlocked, Same
  <2> QED BY <1>1, <1>2, <1>3, <1>5, <2>1 DEF News
<1>6. CASE Disturbed'
  BY <1>1, <1>6 DEF News, Live
<1> QED BY <1>4, <1>5, <1>6 DEF Moves

\* What one client did is left to be shown.
LEMMA NewsOfOne ==
  ASSUME NInv, NEW c \in Clients, RInv', Moves,
         \A d \in Clients \ {c} : Same(d), Kept(c)', News(c)'
  PROVE  NInv'
<1>1. \A d \in Clients \ {c} : Kept(d)' /\ News(d)'
  BY NewsOfOthers DEF NInv
<1> QED BY <1>1 DEF NInv

-----------------------------------------------------------------------------
(* Calls of the library.                                                   *)

\* A client blocks in a call that is not its last.
LEMMA BlockNews ==
  ASSUME NInv, RInv', NEW c \in Clients, NEW op, op # "Close",
         NEW v \in Values \cup {NoValue}, NEW request \in {"Get"} \cup Resets,
         Block(c, op, v, request), call[c] = {},
         phase[c] # "closed", phase'[c] = "open",
         \A d \in Clients \ {c} : phase'[d] = phase[d],
         UNCHANGED <<storeVars, cache, pending, answer, inbox>>
  PROVE  NInv'
<1> DEFINE r == [op |-> request, v |-> v, wanted |-> TRUE]
<1>1. /\ RInv /\ ClientTypeOK /\ ClientInv(c) /\ requests[c] \in Seq(Requests)
      /\ Kept(c) /\ News(c)
  BY Typing DEF NInv
<1>2. r \in Requests /\ r.wanted /\ r.op # "Set"
  BY DEF Requests, Resets
<1>3. /\ requests'[c] = Append(requests[c], r) /\ call'[c] = {[op |-> op, v |-> v]}
      /\ \A d \in Clients \ {c} : requests'[d] = requests[d] /\ call'[d] = call[d]
  BY <1>1 DEF Block, Put, ClientTypeOK
<1>4. ~Calling(c, {"Close"}) /\ ~Calling(c, {"Close"})'
  BY <1>3 DEF Calling
<1> HIDE DEF r
<1>5. NoWrite(requests'[c]) <=> NoWrite(requests[c])
  BY <1>1, <1>2, <1>3, SyncFollows
<1>6. SentAs(requests[c], pending[c]) => SentAs(requests'[c], pending'[c])
  BY <1>1, <1>2, <1>3 DEF SentAs, IsWrite
<1>7. Kept(c)'
  BY <1>1, <1>4, <1>6 DEF Kept
<1>8. answer[c] = {}
  BY <1>1 DEF ClientInv, Sync
<1>9. /\ Current' = Current /\ Locked' = Locked /\ notify' = notify
      /\ Disturbed' = Disturbed /\ Moves
  BY <1>1, StoreStays
<1>10. FetchedNow(c)'
  BY <1>8 DEF FetchedNow
<1>11. News(c)'
  <2>1. Live(c)' => Live(c)
    BY <1>4, <1>9 DEF Live
  <2>2. Fixed(c) => Fixed(c)'
    BY <1>9, <1>10 DEF Fixed, Shows, Refused
  <2>3. Unlocked(c) => Unlocked(c)'
    BY <1>5, <1>9, <1>10 DEF Unlocked, Told, Untold, Shows
  <2> QED BY <1>1, <1>9, <2>1, <2>2, <2>3 DEF News
<1>12. \A d \in Clients \ {c} : Same(d)
  BY <1>3 DEF Same
<1> QED BY <1>7, <1>9, <1>11, <1>12, NewsOfOne

\* What the client may show next: what it has, or what it fetched.
Good(c, x) ==
  Live(c) =>
    IF Locked THEN pending[c] = {} => Shows(x)
    ELSE NoWrite(requests[c]) => notify > 0 \/ Told(c) \/ (Untold(c) /\ Shows(x))

LEMMA GoodOnes ==
  ASSUME NInv, NEW c \in Clients
  PROVE  /\ Good(c, NoItem)
         /\ \A x : x = cache[c] => Good(c, x)
         /\ \A a \in answer[c] : Calling(c, Fetches) =>
              /\ Good(c, Fetched(a))
              /\ a.result = "ok" => Good(c, a.v)
<1>1. News(c)
  BY DEF NInv
<1>2. Shows(NoItem) /\ Shows(Absent) /\ \A x : x = Current => Shows(x)
  BY DEF Shows
<1>3. Good(c, NoItem) /\ \A x : x = cache[c] => Good(c, x)
  BY <1>1, <1>2 DEF Good, News, Fixed, Unlocked
<1>4. ASSUME NEW a \in answer[c], Calling(c, Fetches)
      PROVE  Good(c, Fetched(a)) /\ (a.result = "ok" => Good(c, a.v))
  <2>1. FetchedNow(c) => Shows(Fetched(a)) /\ (a.result = "ok" => Shows(a.v))
    BY <1>2, <1>4 DEF FetchedNow, Fetched
  <2> QED BY <1>1, <2>1 DEF Good, News, Fixed, Unlocked
<1> QED BY <1>3, <1>4

\* A client that is not blocked any more shows something good.
LEMMA ShownNews ==
  ASSUME NInv, RInv', NEW c \in Clients, NEW x, Good(c, x), cache'[c] = x,
         phase[c] # "new", ~Calling(c, {"Close"}),
         call'[c] = {}, answer'[c] = {},
         \A d \in Clients \ {c} :
           cache'[d] = cache[d] /\ call'[d] = call[d] /\ answer'[d] = answer[d],
         UNCHANGED <<storeVars, phase, pending, requests, inbox>>
  PROVE  NInv'
<1>1. RInv /\ Kept(c) /\ News(c)
  BY DEF NInv
<1>2. /\ Current' = Current /\ Locked' = Locked /\ notify' = notify
      /\ Disturbed' = Disturbed /\ Moves
  BY <1>1, StoreStays
<1>3. ~Calling(c, {"Close"})'
  BY DEF Calling
<1>4. Kept(c)'
  BY <1>1, <1>3 DEF Kept
<1>5. FetchedNow(c)'
  BY DEF FetchedNow
<1>6. Live(c)' => Live(c)
  BY <1>2, <1>3 DEF Live
<1>7. ASSUME Live(c), Locked PROVE Fixed(c)'
  BY <1>1, <1>2, <1>5, <1>7 DEF News, Good, Fixed, Shows, Refused
<1>8. ASSUME Live(c), ~Locked PROVE Unlocked(c)'
  <2>1. Told(c) => Told(c)'
    BY <1>2 DEF Told
  <2>2. Untold(c) => Untold(c)'
    BY DEF Untold
  <2>3. Shows(x) => x \in {NoItem, Absent, Current}'
    BY <1>2 DEF Shows
  <2> QED BY <1>1, <1>2, <1>5, <1>8, <2>1, <2>2, <2>3 DEF News, Good, Unlocked, Shows
<1>9. News(c)'
  BY <1>2, <1>6, <1>7, <1>8 DEF News
<1>10. \A d \in Clients \ {c} : Same(d)
  BY DEF Same
<1> QED BY <1>2, <1>4, <1>9, <1>10, NewsOfOne

\* What is appended to a sequence of events comes last.
LEMMA EventAt ==
  ASSUME NEW b \in Seq(Events), NEW e \in Events
  PROVE  /\ Append(b, e) \in Seq(Events) /\ Append(b, e) # <<>>
         /\ Last(Append(b, e)) = e
         /\ DOMAIN Append(b, e) = DOMAIN b \cup {Len(b) + 1}
         /\ DOMAIN b = 1 .. Len(b) /\ Len(b) \in Nat
         /\ Append(b, e)[Len(b) + 1] = e
         /\ \A i \in DOMAIN b : Append(b, e)[i] = b[i]
BY DEF Last

\* What one more event does to what is said of all of them.
LEMMA OneMoreEvent ==
  ASSUME NEW b \in Seq(Events), NEW e \in Events
  PROVE  /\ e.k # "Reply" /\ LastReplyOk(b) => LastReplyOk(Append(b, e))
         /\ e.k = "Reply" /\ e.ok => LastReplyOk(Append(b, e))
         /\ Refused(b) /\ (IF e.k = "Reply" THEN ~e.ok ELSE e.v = Current)
              => Refused(Append(b, e))
<1> DEFINE x == Append(b, e)
           n == Len(b) + 1
<1>1. /\ DOMAIN x = DOMAIN b \cup {n} /\ n \in Nat /\ x[n] = e
      /\ \A i \in DOMAIN b : x[i] = b[i] /\ i \in Nat /\ n > i
  BY EventAt
<1> HIDE DEF x, n
<1>2. ASSUME e.k # "Reply", LastReplyOk(b) PROVE LastReplyOk(x)
  <2> SUFFICES ASSUME NEW i \in DOMAIN x, x[i].k = "Reply",
                      \A j \in DOMAIN x : j > i => x[j].k # "Reply"
               PROVE  x[i].ok
    BY DEF LastReplyOk
  <2>1. i \in DOMAIN b /\ \A j \in DOMAIN b : j > i => b[j].k # "Reply"
    BY <1>1, <1>2
  <2> QED BY <1>1, <1>2, <2>1 DEF LastReplyOk
<1>3. ASSUME e.k = "Reply", e.ok PROVE LastReplyOk(x)
  BY <1>1, <1>3 DEF LastReplyOk
<1>4. ASSUME Refused(b), IF e.k = "Reply" THEN ~e.ok ELSE e.v = Current
      PROVE  Refused(x)
  BY <1>1, <1>4 DEF Refused
<1> QED BY <1>2, <1>3, <1>4 DEF x

\* A client is only told of refusals when it cancels.
LEMMA FailuresRefused ==
  ASSUME NEW c \in Clients, NEW b \in Seq(Events), Refused(b)
  PROVE  Refused(b \o Failures(c))
<1>1. CASE Outstanding(c)
  <2>1. Reply(FALSE) \in Events /\ Reply(FALSE).k = "Reply" /\ ~Reply(FALSE).ok
    BY DEF Events, Reply
  <2>2. b \o Failures(c) = Append(b, Reply(FALSE))
    <3>1. Failures(c) = <<Reply(FALSE)>>
      BY <1>1 DEF Failures
    <3>2. \A e \in Events : b \o <<e>> = Append(b, e)
      OBVIOUS
    <3> QED BY <2>1, <3>1, <3>2
  <2> QED BY <2>1, <2>2, OneMoreEvent
<1>2. CASE ~Outstanding(c)
  <2>1. b \o Failures(c) = b
    BY <1>2 DEF Failures
  <2> QED BY <2>1
<1> QED BY <1>1, <1>2

\* xfconf_cache_set once the cached value is known.
LEMMA SetKnownNews ==
  ASSUME NInv, RInv', NEW c \in Clients, NEW v \in Values, NEW item,
         Good(c, item), SetKnown(c, v, item),
         phase[c] = "open", ~Calling(c, {"Close"}),
         call'[c] = {}, answer'[c] = {},
         \A d \in Clients \ {c} : call'[d] = call[d] /\ answer'[d] = answer[d],
         UNCHANGED <<storeVars, phase>>
  PROVE  NInv'
<1> DEFINE r == [op |-> "Set", v |-> v, wanted |-> TRUE]
           q == Append(Unwanted(requests[c]), r)
           b == inbox[c] \o Failures(c)
<1>1. /\ RInv /\ Kept(c) /\ News(c)
      /\ ClientTypeOK /\ requests[c] \in Seq(Requests) /\ inbox[c] \in Seq(Events)
      /\ \A p \in pending[c] : p \in OldItems
  BY Typing DEF NInv
<1>2. CASE item = v /\ Put(cache, c, item) /\ UNCHANGED <<pending, requests, inbox>>
  <2>1. cache'[c] = item /\ \A d \in Clients \ {c} : cache'[d] = cache[d]
    BY <1>1, <1>2 DEF Put, ClientTypeOK
  <2> QED BY <1>2, <2>1, ShownNews
<1>3. CASE /\ Put(pending, c, OneMore(c, item, v))
           /\ Put(requests, c, q)
           /\ Put(inbox, c, b)
           /\ Put(cache, c, v)
  <2>1. r \in Requests /\ r.wanted /\ r.op = "Set" /\ r.v = v
    BY DEF Requests
  <2>2. /\ requests'[c] = q /\ inbox'[c] = b
        /\ pending'[c] = OneMore(c, item, v) /\ cache'[c] = v
        /\ \A d \in Clients \ {c} : /\ requests'[d] = requests[d]
                                   /\ inbox'[d] = inbox[d]
                                   /\ pending'[d] = pending[d]
                                   /\ cache'[d] = cache[d]
    BY <1>1, <1>3 DEF Put, ClientTypeOK
  <2> HIDE DEF r
  <2>3. ~NoWrite(q)
    BY <1>1, <2>1, WriteFollows
  <2>4. \A i \in DOMAIN q : IsWrite(q[i]) => q[i].v = v
    <3>1. Unwanted(requests[c]) \in Seq(Requests) /\ NoneWanted(Unwanted(requests[c]))
      BY <1>1, Cancelled
    <3> DEFINE u == Unwanted(requests[c])
    <3> HIDE DEF u
    <3>2. \A i \in DOMAIN Append(u, r) : IsWrite(Append(u, r)[i]) => Append(u, r)[i].v = v
      BY <2>1, <3>1 DEF IsWrite, NoneWanted, u
    <3> QED BY <3>2 DEF u
  <2> HIDE DEF q, b
  <2>5. \A p \in pending'[c] :
          /\ p.v = v
          /\ \/ pending[c] = {} /\ ~p.closing
                /\ p.old = IF item \in Values THEN item ELSE NoValue
             \/ \E o \in pending[c] : p.old = o.old /\ p.closing = o.closing
    <3>1. CASE pending[c] = {}
      <4>1. /\ Write(item, v).v = v /\ ~Write(item, v).closing
            /\ Write(item, v).old = IF item \in Values THEN item ELSE NoValue
        BY DEF Write
      <4>2. pending'[c] = {Write(item, v)}
        BY <2>2, <3>1 DEF OneMore
      <4> QED BY <3>1, <4>1, <4>2
    <3>2. CASE pending[c] # {}
      <4>1. ASSUME NEW o \in OldItems
            PROVE  LET p == [o EXCEPT !.v = v, !.count = @ + 1]
                   IN  p.v = v /\ p.old = o.old /\ p.closing = o.closing
        BY DEF OldItems
      <4>2. pending'[c] = {[o EXCEPT !.v = v, !.count = @ + 1] : o \in pending[c]}
        BY <2>2, <3>2 DEF OneMore
      <4>3. ASSUME NEW p \in pending'[c]
            PROVE  p.v = v /\ \E o \in pending[c] :
                                p.old = o.old /\ p.closing = o.closing
        <5>1. PICK o \in pending[c] : p = [o EXCEPT !.v = v, !.count = @ + 1]
          BY <4>2
        <5>2. o \in OldItems
          BY <1>1
        <5> QED BY <4>1, <5>1, <5>2
      <4> QED BY <4>3
    <3> QED BY <3>1, <3>2
  <2>6. pending'[c] # {}
    <3>1. \A S : S # {} => {[o EXCEPT !.v = v, !.count = @ + 1] : o \in S} # {}
      OBVIOUS
    <3> QED BY <2>2, <3>1 DEF OneMore
  <2>7. ~Calling(c, {"Close"})'
    BY DEF Calling
  <2>8. Kept(c)'
    <3>1. \A p \in pending[c] : ~p.closing
      BY <1>1 DEF Kept
    <3>2. \A p \in pending'[c] : ~p.closing
      BY <2>5, <3>1
    <3>3. SentAs(requests'[c], pending'[c])
      BY <2>2, <2>4, <2>5 DEF SentAs
    <3> QED BY <2>7, <3>2, <3>3 DEF Kept
  <2>9. /\ Current' = Current /\ Locked' = Locked /\ notify' = notify
        /\ Disturbed' = Disturbed /\ Moves
    BY <1>1, StoreStays
  <2>10. ASSUME Live(c), Locked PROVE Fixed(c)'
    <3>1. \A p \in pending'[c] : p.old \in {NoValue, Current}
      <4>1. pending[c] = {} /\ item \in Values => item = Current
        BY <2>10, CacheAssumption DEF Good, Shows
      <4>2. \A p \in pending[c] : p.old \in {NoValue, Current}
        BY <1>1, <2>10 DEF News, Fixed
      <4> QED BY <2>5, <4>1, <4>2
    <3>2. Refused(b)
      BY <1>1, <2>10, FailuresRefused DEF News, Fixed, b
    <3>3. FetchedNow(c)'
      BY DEF FetchedNow
    <3> QED BY <2>2, <2>6, <2>9, <3>1, <3>2, <3>3 DEF Fixed, Refused
  <2>11. News(c)'
    <3>1. Live(c)' => Live(c)
      BY <2>9 DEF Live
    <3>2. Unlocked(c)'
      BY <2>2, <2>3 DEF Unlocked
    <3> QED BY <2>9, <2>10, <3>1, <3>2 DEF News
  <2>12. \A d \in Clients \ {c} : Same(d)
    BY <2>2 DEF Same
  <2> QED BY <2>8, <2>9, <2>11, <2>12, NewsOfOne
<1> QED BY <1>2, <1>3 DEF SetKnown

\* A client that closes shows nothing any more.
LEMMA CloseNews ==
  ASSUME NInv, RInv', NEW c \in Clients, Close(c)
  PROVE  NInv'
<1>1. /\ RInv /\ Kept(c) /\ ClientTypeOK /\ requests[c] \in Seq(Requests)
      /\ \A p \in pending[c] : p \in OldItems
  BY Typing DEF NInv
<1>2. phase[c] = "open" /\ call[c] = {} /\ UNCHANGED <<storeVars, answer>>
  BY DEF Close, Free
<1>3. Moves
  BY <1>1, <1>2, StoreStays
<1>4. CASE /\ pending[c] = {}
           /\ Put(phase, c, "closed")
           /\ Put(cache, c, NoItem)
           /\ UNCHANGED <<pending, requests, inbox, call>>
  <2>1. phase'[c] = "closed" /\ \A d \in Clients \ {c} : Same(d)
    BY <1>1, <1>2, <1>4 DEF Put, ClientTypeOK, Same
  <2>2. Kept(c)' /\ News(c)'
    BY <1>2, <1>4, <2>1 DEF Kept, News, Live, Calling, SentAs
  <2> QED BY <1>3, <2>1, <2>2, NewsOfOne
<1>5. ASSUME NEW p \in pending[c],
             Put(pending, c, {[p EXCEPT !.closing = TRUE]}),
             Put(requests, c, Append(Unwanted(requests[c]),
                    [op |-> "SetSync", v |-> p.v, wanted |-> TRUE])),
             Put(inbox, c, inbox[c] \o Failures(c)),
             Put(call, c, {[op |-> "Close", v |-> NoValue]}),
             UNCHANGED <<phase, cache>>
      PROVE  NInv'
  <2> DEFINE r == [op |-> "SetSync", v |-> p.v, wanted |-> TRUE]
             q == Append(Unwanted(requests[c]), r)
  <2>1. /\ requests'[c] = q /\ pending'[c] # {}
        /\ call'[c] = {[op |-> "Close", v |-> NoValue]}
        /\ \A d \in Clients \ {c} : Same(d)
    BY <1>1, <1>2, <1>5 DEF Put, ClientTypeOK, Same
  <2>2. Calling(c, {"Close"})'
    BY <2>1 DEF Calling
  <2>3. r \in Requests /\ r.wanted /\ r.op # "Set"
    <3>1. p.v \in Values
      BY <1>1, <1>5 DEF OldItems
    <3> QED BY <3>1 DEF Requests
  <2> HIDE DEF r
  <2>4. NoWrite(q)
    BY <1>1, <2>3, WriteFollows
  <2> HIDE DEF q
  <2>5. Kept(c)' /\ News(c)'
    BY <1>2, <1>5, <2>1, <2>2, <2>4 DEF Kept, News, Live, SentAs, NoWrite, IsWrite
  <2> QED BY <1>3, <2>1, <2>5, NewsOfOne
<1> QED BY <1>4, <1>5 DEF Close

\* Open, Lookup, Reset and Set.
LEMMA CallsNews ==
  ASSUME NInv, RInv', NEW c \in Clients,
         \/ Open(c) \/ Lookup(c) \/ \E how \in Resets : Reset(c, how)
         \/ \E v \in Values : Set(c, v)
  PROVE  NInv'
<1>1. ClientTypeOK /\ ClientInv(c) /\ RInv
  BY Typing DEF NInv
<1>2. CASE Open(c)
  <2>1. phase'[c] = "open" /\ \A d \in Clients \ {c} : phase'[d] = phase[d]
    BY <1>1, <1>2 DEF Open, Put, ClientTypeOK
  <2>2. call[c] = {} /\ phase[c] # "closed"
    BY <1>1, <1>2 DEF Open, ClientInv, Sync
  <2>3. Block(c, "Prefetch", NoValue, "Get")
        /\ UNCHANGED <<storeVars, cache, pending, answer, inbox>>
    BY <1>2 DEF Open
  <2> QED BY <2>1, <2>2, <2>3, BlockNews
<1>3. CASE Lookup(c)
  <2>1. phase[c] = "open" /\ call[c] = {}
        /\ UNCHANGED <<storeVars, phase, cache, pending, answer, inbox>>
    BY <1>3 DEF Lookup, Free
  <2>2. Block(c, "Lookup", NoValue, "Get")
    BY <1>3 DEF Lookup
  <2> QED BY <2>1, <2>2, BlockNews
<1>4. ASSUME NEW how \in Resets, Reset(c, how) PROVE NInv'
  <2>1. phase[c] = "open" /\ call[c] = {}
        /\ UNCHANGED <<storeVars, phase, cache, pending, answer, inbox>>
    BY <1>4 DEF Reset, Free
  <2>2. Block(c, IF how = "ResetRoot" THEN how ELSE "Reset", NoValue, how)
    BY <1>4 DEF Reset
  <2>3. (IF how = "ResetRoot" THEN how ELSE "Reset") # "Close"
    OBVIOUS
  <2> QED BY <2>1, <2>2, <2>3, BlockNews
<1>5. ASSUME NEW v \in Values, Set(c, v) PROVE NInv'
  <2>1. phase[c] = "open" /\ call[c] = {} /\ UNCHANGED <<storeVars, phase, answer>>
    BY <1>5 DEF Set, Free
  <2>2. CASE Block(c, "Set", v, "Get") /\ UNCHANGED <<cache, pending, inbox>>
    BY <2>1, <2>2, BlockNews
  <2>3. CASE SetKnown(c, v, cache[c]) /\ UNCHANGED call
    <3>1. answer[c] = {} /\ ~Calling(c, {"Close"})
      BY <1>1, <2>1 DEF ClientInv, Sync, Calling
    <3>2. call'[c] = {} /\ answer'[c] = {}
          /\ \A d \in Clients \ {c} : call'[d] = call[d] /\ answer'[d] = answer[d]
      BY <2>1, <2>3, <3>1
    <3>3. PICK item : item = cache[c]
      OBVIOUS
    <3>4. SetKnown(c, v, item)
      BY <2>3, <3>3 DEF SetKnown
    <3>5. Good(c, item)
      BY <3>3, GoodOnes
    <3> QED BY <2>1, <3>1, <3>2, <3>4, <3>5, SetKnownNews
  <2> QED BY <1>5, <2>2, <2>3 DEF Set
<1> QED BY <1>2, <1>3, <1>4, <1>5

-----------------------------------------------------------------------------
(* Answers.                                                                *)

\* What is fetched is good to be shown.
LEMMA AnswersNews ==
  ASSUME NInv, RInv', NEW c \in Clients,
         \/ PrefetchAnswered(c) \/ LookupAnswered(c) \/ SetAnswered(c)
         \/ ResetAnswered(c) \/ ResetRootAnswered(c) \/ CloseAnswered(c)
  PROVE  NInv'
<1>1. ClientTypeOK /\ ClientsInv /\ ClientInv(c) /\ RInv /\ Kept(c) /\ Replies(c)
  BY Typing DEF NInv, RInv, IInv
<1>2. PICK op \in {"Prefetch", "Lookup", "Set", "Reset", "ResetRoot", "Close"} :
        /\ Answered(c, op)
        /\ op = "Close" <=> CloseAnswered(c)
  <2>1. CloseAnswered(c) \/ ~CloseAnswered(c)
    OBVIOUS
  <2>2. \A op : Answered(c, op) => \A k \in call[c] : k.op = op
    <3> SUFFICES ASSUME NEW op, Answered(c, op), NEW k \in call[c] PROVE k.op = op
      OBVIOUS
    <3>1. PICK l \in call[c] : l.op = op
      BY DEF Answered
    <3>2. l = k
      BY <1>1 DEF ClientInv, Typed
    <3> QED BY <3>1, <3>2
  <2>3. CloseAnswered(c) => Answered(c, "Close")
    BY DEF CloseAnswered
  <2>4. CASE CloseAnswered(c)
    BY <2>3, <2>4
  <2>5. CASE ~CloseAnswered(c)
    <3>1. \E op \in {"Prefetch", "Lookup", "Set", "Reset", "ResetRoot"} : Answered(c, op)
      BY <2>5 DEF PrefetchAnswered, LookupAnswered, SetAnswered, ResetAnswered,
                  ResetRootAnswered
    <3> QED BY <2>5, <3>1
  <2> QED BY <2>4, <2>5
<1>3. /\ call'[c] = {} /\ answer'[c] = {} /\ Calling(c, {op})
      /\ \A d \in Clients \ {c} : call'[d] = call[d] /\ answer'[d] = answer[d]
  BY <1>1, <1>2, AnsweredFacts
<1>4. UNCHANGED storeVars
  BY DEF PrefetchAnswered, LookupAnswered, SetAnswered, ResetAnswered,
         ResetRootAnswered, CloseAnswered
<1>5. CASE CloseAnswered(c)
  <2>1. /\ phase'[c] = "closed" /\ UNCHANGED <<pending, requests, inbox>>
        /\ \A d \in Clients \ {c} : phase'[d] = phase[d] /\ cache'[d] = cache[d]
    BY <1>1, <1>5 DEF CloseAnswered, Put, ClientTypeOK
  <2>2. Kept(c)' /\ News(c)' /\ Moves /\ \A d \in Clients \ {c} : Same(d)
    BY <1>1, <1>3, <1>4, <2>1, StoreStays DEF Kept, News, Live, Calling, Same
  <2> QED BY <2>2, NewsOfOne
<1>6. CASE ~CloseAnswered(c)
  <2>1. /\ op # "Close" /\ UNCHANGED phase
    BY <1>2, <1>6 DEF PrefetchAnswered, LookupAnswered, SetAnswered,
                      ResetAnswered, ResetRootAnswered
  <2>2. ~Calling(c, {"Close"}) /\ phase[c] = "open"
    <3>1. PICK l \in call[c] : l.op = op
      BY <1>2 DEF Answered
    <3>2. \A k \in call[c] : k = l
      BY <1>1, <3>1 DEF ClientInv, Typed
    <3> QED BY <1>1, <2>1, <3>1, <3>2 DEF Calling, Replies, Written
  <2>3. ASSUME NEW x, Good(c, x), cache'[c] = x,
               \A d \in Clients \ {c} : cache'[d] = cache[d],
               UNCHANGED <<pending, requests, inbox>>
        PROVE  NInv'
    BY <1>3, <1>4, <2>1, <2>2, <2>3, ShownNews
  <2>4. CASE PrefetchAnswered(c)
    <3>1. Calling(c, Fetches)
      BY <2>4 DEF PrefetchAnswered, Answered, Calling, Fetches
    <3>2. PICK a \in answer[c] :
            Put(cache, c, IF a.result = "ok" THEN a.v ELSE NoItem)
      BY <2>4 DEF PrefetchAnswered
    <3>3. /\ cache'[c] = IF a.result = "ok" THEN a.v ELSE NoItem
          /\ \A d \in Clients \ {c} : cache'[d] = cache[d]
      BY <1>1, <3>2 DEF Put, ClientTypeOK
    <3>4. Good(c, IF a.result = "ok" THEN a.v ELSE NoItem)
      BY <3>1, GoodOnes
    <3>5. UNCHANGED <<pending, requests, inbox>>
      BY <2>4 DEF PrefetchAnswered
    <3> QED BY <2>3, <3>3, <3>4, <3>5
  <2>5. CASE LookupAnswered(c)
    <3>1. Calling(c, Fetches)
      BY <2>5 DEF LookupAnswered, Answered, Calling, Fetches
    <3>2. PICK a \in answer[c] : Put(cache, c, Fetched(a))
      BY <2>5 DEF LookupAnswered
    <3>3. cache'[c] = Fetched(a) /\ \A d \in Clients \ {c} : cache'[d] = cache[d]
      BY <1>1, <3>2 DEF Put, ClientTypeOK
    <3>4. Good(c, Fetched(a))
      BY <3>1, GoodOnes
    <3>5. UNCHANGED <<pending, requests, inbox>>
      BY <2>5 DEF LookupAnswered
    <3> QED BY <2>3, <3>3, <3>4, <3>5
  <2>6. CASE SetAnswered(c)
    <3>1. Calling(c, Fetches)
      BY <2>6 DEF SetAnswered, Answered, Calling, Fetches
    <3>2. PICK a \in answer[c], k \in call[c] :
            IF a.result = "lost" THEN UNCHANGED <<cache, pending, requests, inbox>>
            ELSE SetKnown(c, k.v, Fetched(a))
      BY <2>6 DEF SetAnswered
    <3>3. CASE UNCHANGED <<cache, pending, requests, inbox>>
      <4>1. PICK x : x = cache[c]
        OBVIOUS
      <4>2. Good(c, x)
        BY <4>1, GoodOnes
      <4> QED BY <2>3, <3>3, <4>1, <4>2
    <3>4. CASE SetKnown(c, k.v, Fetched(a))
      <4>1. k.v \in Values
        <5>1. (\E l \in call[c] : l.op = "Set") /\ call[c] = {k}
          BY <1>1, <2>6, <3>2 DEF SetAnswered, Answered, ClientInv, Typed
        <5>2. k.op = "Set"
          BY <5>1
        <5> QED BY <1>1, <3>2, <5>2 DEF ClientInv, Typed
      <4>2. Good(c, Fetched(a))
        BY <3>1, <3>2, GoodOnes
      <4> QED BY <1>3, <1>4, <2>1, <2>2, <3>4, <4>1, <4>2, SetKnownNews
    <3> QED BY <3>2, <3>3, <3>4
  <2>7. CASE ResetAnswered(c)
    <3>1. PICK a \in answer[c] : Put(cache, c, IF a.result = "ok" THEN NoItem ELSE cache[c])
      BY <2>7 DEF ResetAnswered
    <3>2. PICK x : x = IF a.result = "ok" THEN NoItem ELSE cache[c]
      OBVIOUS
    <3>3. cache'[c] = x /\ \A d \in Clients \ {c} : cache'[d] = cache[d]
      BY <1>1, <3>1, <3>2 DEF Put, ClientTypeOK
    <3>4. Good(c, x)
      BY <3>2, GoodOnes
    <3>5. UNCHANGED <<pending, requests, inbox>>
      BY <2>7 DEF ResetAnswered
    <3> QED BY <2>3, <3>3, <3>4, <3>5
  <2>8. CASE ResetRootAnswered(c)
    <3>1. PICK x : x = cache[c]
      OBVIOUS
    <3>2. Good(c, x)
      BY <3>1, GoodOnes
    <3>3. UNCHANGED <<cache, pending, requests, inbox>>
      BY <2>8 DEF ResetRootAnswered
    <3> QED BY <2>3, <3>1, <3>2, <3>3
  <2> QED BY <1>6, <2>4, <2>5, <2>6, <2>7, <2>8
<1> QED BY <1>5, <1>6

-----------------------------------------------------------------------------
(* The main loop of a client.                                              *)

\* The first event is taken off, the last one stays.
LEMMA TailAt ==
  ASSUME NEW b \in Seq(Events), b # <<>>
  PROVE  /\ Tail(b) \in Seq(Events)
         /\ Tail(b) # <<>> => Last(Tail(b)) = Last(b)
         /\ Tail(b) = <<>> => Last(b) = Head(b)
         /\ LastReplyOk(b) => LastReplyOk(Tail(b))
         /\ Refused(b) => Refused(Tail(b))
         /\ Refused(b) => IF Head(b).k = "Reply" THEN ~Head(b).ok
                          ELSE Head(b).v = Current
         /\ LastReplyOk(b) /\ Head(b).k = "Reply" /\ Queued(Tail(b)) = 0 => Head(b).ok
         /\ Last(b).k = "Reply" => Queued(b) # 0
<1>1. /\ Tail(b) \in Seq(Events) /\ Head(b) = b[1] /\ Len(b) \in Nat \ {0}
      /\ Len(Tail(b)) = Len(b) - 1
      /\ DOMAIN b = 1 .. Len(b) /\ DOMAIN Tail(b) = 1 .. Len(b) - 1
      /\ \A i \in 1 .. Len(b) - 1 : Tail(b)[i] = b[i + 1]
  OBVIOUS
<1>2. \A j \in 1 .. Len(b) : j # 1 => j - 1 \in 1 .. Len(b) - 1 /\ b[j] = Tail(b)[j - 1]
  BY <1>1
<1>3. /\ Tail(b) # <<>> => Last(Tail(b)) = Last(b)
      /\ Tail(b) = <<>> => Last(b) = Head(b)
  <2>1. ASSUME NEW q \in Seq(Events) PROVE q = <<>> <=> Len(q) = 0
    OBVIOUS
  <2>2. Tail(b) = <<>> <=> Len(b) = 1
    <3>1. Tail(b) = <<>> <=> Len(Tail(b)) = 0
      BY <1>1, <2>1, Zenon
    <3>2. Len(Tail(b)) = 0 <=> Len(b) = 1
      BY <1>1
    <3> QED BY <3>1, <3>2
  <2>3. ASSUME Tail(b) # <<>> PROVE Last(Tail(b)) = Last(b)
    <3>1. Len(b) - 1 \in 1 .. Len(b) - 1 /\ Len(b) - 1 + 1 = Len(b)
      BY <1>1, <2>2, <2>3
    <3> QED BY <1>1, <3>1 DEF Last
  <2> QED BY <1>1, <2>2, <2>3 DEF Last
<1>4. ASSUME LastReplyOk(b) PROVE LastReplyOk(Tail(b))
  <2> SUFFICES ASSUME NEW i \in DOMAIN Tail(b), Tail(b)[i].k = "Reply",
                      \A j \in DOMAIN Tail(b) : j > i => Tail(b)[j].k # "Reply"
               PROVE  Tail(b)[i].ok
    BY DEF LastReplyOk
  <2>1. i + 1 \in DOMAIN b /\ b[i + 1] = Tail(b)[i]
    BY <1>1
  <2>2. \A j \in DOMAIN b : j > i + 1 => b[j].k # "Reply"
    <3> SUFFICES ASSUME NEW j \in 1 .. Len(b), j > i + 1 PROVE b[j].k # "Reply"
      BY <1>1
    <3>1. i \in 1 .. Len(b) - 1
      BY <1>1
    <3>2. j # 1 /\ j - 1 > i
      BY <1>1, <3>1
    <3>3. j - 1 \in DOMAIN Tail(b) /\ b[j] = Tail(b)[j - 1]
      BY <1>1, <1>2, <3>2
    <3> QED BY <3>2, <3>3
  <2> QED BY <1>4, <2>1, <2>2 DEF LastReplyOk
<1>5. Refused(b) => Refused(Tail(b))
  BY <1>1 DEF Refused
<1>6. Refused(b) => IF Head(b).k = "Reply" THEN ~Head(b).ok ELSE Head(b).v = Current
  BY <1>1 DEF Refused
<1>7. \A q \in Seq(Events) : Queued(q) = 0 => \A i \in DOMAIN q : q[i].k # "Reply"
  <2> SUFFICES ASSUME NEW q \in Seq(Events), Queued(q) = 0
               PROVE  \A i \in DOMAIN q : q[i].k # "Reply"
    OBVIOUS
  <2>1. IsReply(q) = {}
    BY QueuedType, FS_EmptySet DEF Queued
  <2> QED BY <2>1 DEF IsReply
<1>8. ASSUME LastReplyOk(b), Head(b).k = "Reply", Queued(Tail(b)) = 0 PROVE Head(b).ok
  <2>1. \A j \in DOMAIN b : j > 1 => b[j].k # "Reply"
    <3> SUFFICES ASSUME NEW j \in 1 .. Len(b), j > 1 PROVE b[j].k # "Reply"
      BY <1>1
    <3>1. j # 1
      BY <1>1
    <3>2. j - 1 \in DOMAIN Tail(b) /\ b[j] = Tail(b)[j - 1]
      BY <1>1, <1>2, <3>1
    <3> QED BY <1>1, <1>7, <1>8, <3>2
  <2> QED BY <1>1, <1>8, <2>1 DEF LastReplyOk
<1>9. Last(b).k = "Reply" => Queued(b) # 0
  BY <1>1, <1>7 DEF Last
<1> QED BY <1>1, <1>3, <1>4, <1>5, <1>6, <1>8, <1>9

\* A signal, or the reply to a write, is taken in.
LEMMA DispatchNews ==
  ASSUME NInv, RInv', NEW c \in Clients,
         ReplyArrives(c) \/ PropertyChanged(c) \/ PropertyRemoved(c)
  PROVE  NInv'
<1> DEFINE b == inbox[c]
<1>1. /\ RInv /\ Kept(c) /\ News(c) /\ ClientTypeOK /\ ClientInv(c) /\ Replies(c)
      /\ requests[c] \in Seq(Requests) /\ b \in Seq(Events) /\ Queued(b) \in Nat
      /\ \A p \in pending[c] : p.count \in Nat \ {0} /\ p \in OldItems
  BY Typing DEF NInv
<1>2. PICK k \in {"Reply", "Changed", "Removed"} : Dispatching(c, k)
  BY DEF ReplyArrives, PropertyChanged, PropertyRemoved
<1>3. /\ b # <<>> /\ inbox'[c] = Tail(b) /\ phase[c] # "new" /\ call[c] = {}
      /\ \A d \in Clients \ {c} : inbox'[d] = inbox[d]
      /\ UNCHANGED <<storeVars, phase, call, requests, answer>>
  BY <1>1, <1>2 DEF Dispatching, Put, ClientTypeOK
<1> DEFINE e == Head(b)
<1>4. answer[c] = {} /\ ~Calling(c, {"Close"}) /\ ~Calling(c, {"Close"})'
  BY <1>1, <1>3 DEF ClientInv, Sync, Calling
<1>5. /\ Current' = Current /\ Locked' = Locked /\ notify' = notify
      /\ Disturbed' = Disturbed /\ Moves
  BY <1>1, <1>3, StoreStays
<1>6. FetchedNow(c) /\ FetchedNow(c)'
  BY <1>3, <1>4 DEF FetchedNow
<1>7. /\ Queued(b) = Queued(Tail(b)) + One(e) /\ Queued(Tail(b)) \in Nat
      /\ Tail(b) \in Seq(Events)
      /\ Tail(b) # <<>> => Last(Tail(b)) = Last(b)
      /\ Tail(b) = <<>> => Last(b) = e
      /\ LastReplyOk(b) => LastReplyOk(Tail(b))
      /\ Refused(b) => Refused(Tail(b))
      /\ Refused(b) => IF e.k = "Reply" THEN ~e.ok ELSE e.v = Current
      /\ LastReplyOk(b) /\ e.k = "Reply" /\ Queued(Tail(b)) = 0 => e.ok
      /\ Last(b).k = "Reply" => Queued(b) # 0
  BY <1>1, <1>3, QueuedTail, QueuedType, TailAt
<1>8. NoWrite(requests[c]) =>
        IF pending[c] = {} THEN Queued(b) = 0
        ELSE \A p \in pending[c] : p.count = Queued(b)
  BY <1>1 DEF Replies, Due, Owed
\* What happens to the item and the record.
<1>9. /\ \A d \in Clients \ {c} : cache'[d] = cache[d] /\ pending'[d] = pending[d]
      /\ \/ /\ e.k # "Reply" /\ pending'[c] = pending[c]
            /\ \/ cache'[c] = cache[c] /\ (pending[c] # {} \/ phase[c] = "closed")
               \/ cache'[c] = e.v /\ pending[c] = {}
               \/ cache'[c] = NoItem \/ cache'[c] = Absent
               \/ phase[c] = "closed"
         \/ e.k = "Reply" /\ \E p \in pending[c] :
              \/ /\ p.count > 1 /\ pending'[c] = {[p EXCEPT !.count = @ - 1]}
                 /\ cache'[c] = cache[c]
              \/ /\ p.count = 1 /\ pending'[c] = {}
                 /\ \/ cache'[c] = cache[c] /\ (e.ok \/ p.closing)
                    \/ cache'[c] = NoItem
                    \/ cache'[c] = p.old /\ p.old \in Values /\ ~e.ok
  <2>1. CASE ReplyArrives(c)
    <3>1. e.k = "Reply"
      BY <2>1 DEF ReplyArrives, Dispatching
    <3>2. PICK p \in pending[c] :
             \/ /\ p.count > 1 /\ Put(pending, c, {[p EXCEPT !.count = @ - 1]})
                /\ UNCHANGED cache
             \/ /\ p.count = 1 /\ Put(pending, c, {})
                /\ RollBack(c, p, e.ok)
      BY <2>1 DEF ReplyArrives
    <3>3. CASE p.count > 1 /\ Put(pending, c, {[p EXCEPT !.count = @ - 1]})
               /\ UNCHANGED cache
      BY <1>1, <3>1, <3>2, <3>3 DEF Put, ClientTypeOK
    <3>4. CASE p.count = 1 /\ Put(pending, c, {}) /\ RollBack(c, p, e.ok)
      <4>1. pending'[c] = {} /\ \A d \in Clients \ {c} : pending'[d] = pending[d]
        BY <1>1, <3>4 DEF Put, ClientTypeOK
      <4>2. /\ \A d \in Clients \ {c} : cache'[d] = cache[d]
            /\ \/ cache'[c] = cache[c] /\ (e.ok \/ p.closing)
               \/ cache'[c] = NoItem
               \/ cache'[c] = p.old /\ p.old \in Values /\ ~e.ok
        BY <1>1, <3>4 DEF RollBack, Put, ClientTypeOK
      <4> QED BY <3>1, <3>2, <3>4, <4>1, <4>2
    <3> QED BY <3>2, <3>3, <3>4
  <2>2. CASE PropertyChanged(c)
    <3>1. e.k # "Reply" /\ UNCHANGED pending
      BY <2>2 DEF PropertyChanged, Dispatching
    <3>2. \/ UNCHANGED cache /\ (pending[c] # {} \/ phase[c] = "closed")
          \/ Put(cache, c, e.v) /\ pending[c] = {}
      BY <2>2 DEF PropertyChanged
    <3> QED BY <1>1, <3>1, <3>2 DEF Put, ClientTypeOK
  <2>3. CASE PropertyRemoved(c)
    <3>1. e.k # "Reply" /\ UNCHANGED pending
      BY <2>3 DEF PropertyRemoved, Dispatching
    <3>2. \/ UNCHANGED cache /\ (cache[c] = NoItem \/ phase[c] = "closed")
          \/ Put(cache, c, Absent)
      BY <2>3 DEF PropertyRemoved
    <3> QED BY <1>1, <3>1, <3>2 DEF Put, ClientTypeOK
  <2> QED BY <2>1, <2>2, <2>3
<1> HIDE DEF e, b
<1>10. \A p \in pending'[c] : \E o \in pending[c] :
         p.old = o.old /\ p.v = o.v /\ p.closing = o.closing
  <2>1. ASSUME NEW o \in OldItems
        PROVE  LET p == [o EXCEPT !.count = @ - 1]
               IN  p.old = o.old /\ p.v = o.v /\ p.closing = o.closing
    BY DEF OldItems
  <2>2. ASSUME NEW p \in pending[c], pending'[c] = {[p EXCEPT !.count = @ - 1]}
        PROVE  \A x \in pending'[c] :
                 x.old = p.old /\ x.v = p.v /\ x.closing = p.closing
    <3>1. p \in OldItems
      BY <1>1
    <3>2. \A x \in pending'[c] : x = [p EXCEPT !.count = @ - 1]
      BY <2>2
    <3> QED BY <2>1, <3>1, <3>2
  <2>3. CASE pending'[c] = pending[c]
    BY <2>3
  <2>4. CASE pending'[c] = {}
    BY <2>4
  <2> QED BY <1>9, <2>2, <2>3, <2>4
<1>11. Kept(c)'
  <2>1. \A p \in pending'[c] : p.closing => phase'[c] = "closed"
    BY <1>1, <1>3, <1>4, <1>10 DEF Kept
  <2>2. SentAs(requests'[c], pending'[c])
    BY <1>1, <1>3, <1>10 DEF Kept, SentAs
  <2> QED BY <1>3, <1>4, <2>1, <2>2 DEF Kept
<1>12. Shows(NoItem) /\ Shows(Absent) /\ \A x : x = Current => Shows(x)
  BY DEF Shows
<1>13. ASSUME Live(c), Locked PROVE Fixed(c)'
  <2>1. /\ pending[c] = {} => Shows(cache[c])
        /\ \A p \in pending[c] : p.old \in {NoValue, Current}
        /\ Refused(b)
    BY <1>1, <1>13 DEF News, Fixed, b
  <2>2. Refused(Tail(b)) /\ IF e.k = "Reply" THEN ~e.ok ELSE e.v = Current
    BY <1>7, <2>1
  <2>3. phase[c] # "closed" /\ \A p \in pending[c] : ~p.closing
    BY <1>1, <1>4, <1>13 DEF Live, Kept
  <2>4. pending'[c] = {} => Shows(cache'[c])
    <3>1. \A p \in pending[c] : p.old \in Values => Shows(p.old)
      BY <1>12, <2>1, StoreAssumption
    <3> QED BY <1>9, <1>12, <2>1, <2>2, <2>3, <3>1
  <2>5. \A p \in pending'[c] : p.old \in {NoValue, Current}
    BY <1>10, <2>1
  <2> QED BY <1>3, <1>5, <1>6, <2>2, <2>4, <2>5 DEF Fixed, Refused, Shows
<1>14. ASSUME Live(c), ~Locked, NoWrite(requests[c])
       PROVE  /\ notify > 0 \/ Told(c)' \/ (Untold(c)' /\ Shows(cache'[c]))
              /\ LastReplyOk(inbox'[c])
  <2>1. /\ notify > 0 \/ Told(c) \/ (Untold(c) /\ Shows(cache[c]))
        /\ LastReplyOk(b)
    BY <1>1, <1>14 DEF News, Unlocked, b
  <2>2. phase[c] # "closed"
    BY <1>14 DEF Live
  <2>3. CASE Told(c) /\ Tail(b) # <<>>
    <3>1. Told(c)'
      BY <1>3, <1>5, <1>7, <2>3 DEF Told, b
    <3> QED BY <1>3, <1>7, <2>1, <3>1
  <2>4. CASE Told(c) /\ Tail(b) = <<>>
    <3>1. e.k # "Reply" /\ e.v = Current
      BY <1>7, <2>4 DEF Told, b
    <3>2. Queued(b) = 0
      <4>1. Queued(<<>>) = 0
        <5>1. IsReply(<<>>) = {}
          BY DEF IsReply
        <5>2. Cardinality({}) = 0
          BY FS_EmptySet
        <5> QED BY <5>1, <5>2 DEF Queued
      <4>2. Queued(Tail(b)) = 0
        BY <2>4, <4>1
      <4>3. One(e) = 0
        BY <3>1 DEF One
      <4> QED BY <1>7, <4>2, <4>3
    <3>3. pending[c] = {}
      BY <1>1, <1>8, <1>14, <3>2
    <3>4. Shows(cache'[c])
      BY <1>9, <1>12, <2>2, <3>1, <3>3
    <3>5. Untold(c)'
      BY <1>3, <2>4 DEF Untold
    <3> QED BY <1>3, <1>7, <2>1, <3>4, <3>5
  <2>5. CASE Untold(c) /\ Shows(cache[c])
    <3>1. Last(b).k = "Reply"
      BY <1>3, <2>5 DEF Untold, b
    <3>2. Untold(c)'
      BY <1>3, <1>7, <3>1 DEF Untold
    <3>3. pending[c] # {} /\ \A p \in pending[c] : p.count = Queued(b)
      BY <1>7, <1>8, <1>14, <3>1
    <3>4. ASSUME e.k = "Reply", NEW p \in pending[c], p.count = 1 PROVE e.ok
      <4>1. Queued(Tail(b)) = 0
        BY <1>7, <3>3, <3>4 DEF One
      <4> QED BY <1>7, <2>1, <3>4, <4>1
    <3>5. Shows(cache'[c])
      BY <1>9, <1>12, <2>2, <2>5, <3>3, <3>4
    <3> QED BY <1>3, <1>7, <2>1, <3>2, <3>5
  <2>6. CASE notify > 0
    BY <1>3, <1>7, <2>1, <2>6
  <2> QED BY <2>1, <2>3, <2>4, <2>5, <2>6
<1>15. News(c)'
  <2>1. Live(c)' => Live(c)
    BY <1>3, <1>4, <1>5 DEF Live
  <2>2. Live(c) /\ ~Locked => Unlocked(c)'
    BY <1>3, <1>5, <1>6, <1>14 DEF Unlocked, Shows
  <2> QED BY <1>5, <1>13, <2>1, <2>2 DEF News
<1>16. \A d \in Clients \ {c} : Same(d)
  BY <1>3, <1>9 DEF Same
<1> QED BY <1>5, <1>11, <1>15, <1>16, NewsOfOne

-----------------------------------------------------------------------------
(* The daemon.                                                             *)

\* xfconf_backend_perchannel_xml_set
LEMMA StoreSetMoves ==
  ASSUME RInv, RInv', NEW v, NEW ok \in BOOLEAN, StoreSet(v, ok)
  PROVE  /\ Moves
         /\ IF Locked THEN ~ok /\ UNCHANGED storeVars
            ELSE ok /\ (v # NoValue => Current' = v)
<1>1. notify \in Nat /\ notify' \in Nat
  BY DEF RInv, IInv, StoreInv, StoreTypeOK
<1>2. CASE Locked /\ ~ok /\ UNCHANGED storeVars
  BY <1>2, StoreStays
<1>3. CASE ~Locked /\ ok /\ v = Current /\ UNCHANGED storeVars
  BY <1>3, StoreStays
<1>4. CASE ~Locked /\ ok /\ Change(v)
  <2>1. notify' > 0 /\ user' = v /\ lock' = lock /\ faults' = faults
    BY <1>1, <1>4 DEF Change, Announce
  <2> QED BY <1>1, <1>4, <2>1 DEF Moves, Current
<1> QED BY <1>2, <1>3, <1>4 DEF StoreSet

\* xfconf_backend_perchannel_xml_reset
LEMMA StoreResetMoves ==
  ASSUME RInv, RInv', NEW how, NEW ok \in BOOLEAN, StoreReset(how, ok)
  PROVE  Moves
<1>1. /\ notify \in Nat /\ notify' \in Nat
      /\ Locked => user = NoValue
  BY DEF RInv, IInv, StoreInv, StoreTypeOK, LockedUnset, Locked
<1>2. CASE UNCHANGED storeVars
  BY <1>2, StoreStays
<1>3. CASE user # NoValue /\ Change(NoValue)
  BY <1>1, <1>3 DEF Change, Announce, Moves
<1>4. CASE UNCHANGED <<system, lock, user, file, notify, faults>>
  BY <1>1, <1>4 DEF Moves, Current
<1>5. CASE ResetChannel(ok)
  <2>1. lock' = lock /\ system' = system /\ faults \subseteq faults'
    BY <1>5 DEF ResetChannel
  <2>2. CASE user' = NoValue /\ user = NoValue
    BY <1>1, <1>5, <2>1, <2>2 DEF ResetChannel, Moves, Current
  <2>3. CASE user' = NoValue /\ user # NoValue
    <3>1. notify' > 0 /\ ~Locked
      BY <1>1, <1>5, <2>3 DEF ResetChannel
    <3> QED BY <1>1, <2>1, <3>1 DEF Moves
  <2>4. CASE faults' = faults \cup {"unlink"}
    BY <1>1, <2>1, <2>4 DEF Moves, Disturbed
  <2> QED BY <1>5, <2>2, <2>3, <2>4 DEF ResetChannel
<1> QED BY <1>2, <1>3, <1>4, <1>5 DEF StoreReset, ResetOne, ResetTree

\* The call to be served is one of the queue.
LEMMA FirstWanted ==
  ASSUME NEW q \in Seq(Requests), q # <<>>, Head(q).wanted
  PROVE  ~NoneWanted(q) /\ (Head(q).op # "Set" => ~NoSync(q))
<1>1. 1 \in DOMAIN q /\ q[1] = Head(q)
  OBVIOUS
<1> QED BY <1>1 DEF NoneWanted, NoSync

\* The daemon serves a call.
LEMMA ServeNews ==
  ASSUME NInv, RInv', NEW c \in Clients, Serve(c)
  PROVE  NInv'
<1> DEFINE q == requests[c]
           b == inbox[c]
           r == Head(q)
<1>1. /\ RInv /\ Kept(c) /\ News(c) /\ ClientTypeOK /\ ClientInv(c) /\ Replies(c)
      /\ q \in Seq(Requests) /\ b \in Seq(Events) /\ q # <<>>
      /\ Queued(b) \in Nat /\ r \in Requests
      /\ \A p \in pending[c] : p \in OldItems
  <2>1. q \in Seq(Requests) /\ q # <<>>
    BY Typing DEF NInv, Serve
  <2>2. r \in Requests
    BY <2>1, TailOf
  <2> QED BY <2>1, <2>2, Typing DEF NInv
<1>2. /\ requests'[c] = Tail(q) /\ UNCHANGED <<phase, cache, pending, call>>
      /\ \A d \in Clients \ {c} : requests'[d] = requests[d]
  BY <1>1 DEF Serve, Put, ClientTypeOK
<1>3. /\ r.wanted \in BOOLEAN
      /\ r.op \in {"Get", "Set", "SetSync"} \cup Resets
  BY <1>1 DEF Requests
<1>4. faults \subseteq faults'
  BY ServeFaults
<1>5. Live(c)' => Live(c)
  BY <1>2, <1>4 DEF Live, Calling, Disturbed
<1>6. DOMAIN Tail(q) = 1 .. Len(q) - 1 /\ DOMAIN q = 1 .. Len(q) /\ Len(q) \in Nat
      /\ \A i \in 1 .. Len(q) - 1 : Tail(q)[i] = q[i + 1]
      /\ 1 \in DOMAIN q /\ r = q[1]
  BY <1>1
<1>7. Kept(c)'
  <2>1. SentAs(Tail(q), pending[c])
    <3>1. \A i \in DOMAIN Tail(q) : i + 1 \in DOMAIN q /\ Tail(q)[i] = q[i + 1]
      BY <1>6
    <3>2. SentAs(q, pending[c])
      BY <1>1 DEF Kept
    <3> QED BY <3>1, <3>2 DEF SentAs
  <2>2. SentAs(requests'[c], pending'[c])
    BY <1>2, <2>1 DEF SentAs
  <2> QED BY <1>1, <1>2, <2>2 DEF Kept, Calling
<1>8. CASE IsWrite(r)
  <2>1. PICK ok \in BOOLEAN :
          /\ StoreSet(r.v, ok)
          /\ Put(inbox, c, IF r.wanted THEN Append(b, Reply(ok)) ELSE b)
          /\ UNCHANGED answer
    BY <1>8 DEF Serve, IsWrite, Resets
  <2>2. /\ inbox'[c] = Append(b, Reply(ok))
        /\ \A d \in Clients \ {c} : inbox'[d] = inbox[d]
    BY <1>1, <1>8, <2>1 DEF Put, ClientTypeOK, IsWrite
  <2>3. /\ Moves
        /\ IF Locked THEN ~ok /\ UNCHANGED storeVars
           ELSE ok /\ (r.v # NoValue => Current' = r.v)
    BY <1>1, <2>1, StoreSetMoves
  <2>4. NoWrite(Tail(q)) /\ ~NoWrite(q)
    BY <1>1, <1>8, FirstServed DEF Replies
  <2>5. PICK p \in pending[c] : p.v = r.v /\ p \in OldItems
    <3>1. pending[c] # {}
      BY <1>1, <2>4 DEF Replies, Due, Owed
    <3>2. \A p \in pending[c] : p.v = r.v
      BY <1>1, <1>6, <1>8 DEF Kept, SentAs
    <3> QED BY <1>1, <3>1, <3>2
  <2>6. r.v \in Values /\ cache[c] \in {r.v, Absent}
    BY <1>1, <2>4, <2>5 DEF ClientInv, Fresh, OldItems
  <2>7. answer'[c] = {}
    <3>1. r.wanted
      BY <1>8 DEF IsWrite
    <3>2. ~NoneWanted(q)
      BY <1>1, <3>1, FirstWanted
    <3> QED BY <1>1, <2>1, <3>2 DEF ClientInv, Sync
  <2>8. FetchedNow(c)'
    BY <2>7 DEF FetchedNow
  <2>9. /\ Reply(ok) \in Events /\ Reply(ok).k = "Reply" /\ (Reply(ok).ok <=> ok)
    BY DEF Events, Reply
  <2>10. ASSUME Live(c), Locked PROVE Fixed(c)'
    <3>1. ~ok /\ Current' = Current
      BY <1>1, <2>3, <2>10, StoreStays
    <3>2. Refused(b) /\ \A o \in pending[c] : o.old \in {NoValue, Current}
      BY <1>1, <2>10 DEF News, Fixed
    <3>3. Refused(Append(b, Reply(ok)))
      BY <1>1, <2>9, <3>1, <3>2, OneMoreEvent
    <3> QED BY <1>2, <2>2, <2>5, <2>8, <3>1, <3>2, <3>3 DEF Fixed, Refused
  <2>11. ASSUME ~Locked PROVE Unlocked(c)'
    <3>1. ok /\ Current' = r.v
      BY <2>3, <2>6, <2>11, StoreAssumption
    <3>2. LastReplyOk(inbox'[c])
      BY <1>1, <2>2, <2>9, <3>1, OneMoreEvent
    <3>3. Last(inbox'[c]) = Reply(ok)
      BY <1>1, <2>2, <2>9, EventAt
    <3>4. Untold(c)'
      BY <2>9, <3>3 DEF Untold
    <3>5. Shows(cache[c])'
      BY <1>2, <2>6, <3>1 DEF Shows
    <3> QED BY <2>8, <3>2, <3>4, <3>5 DEF Unlocked
  <2>12. Locked' = Locked
    BY <2>3 DEF Moves, Locked
  <2>13. News(c)'
    BY <1>5, <2>10, <2>11, <2>12 DEF News
  <2>14. \A d \in Clients \ {c} : Same(d)
    BY <1>2, <2>1, <2>2 DEF Same
  <2> QED BY <1>7, <2>3, <2>13, <2>14, NewsOfOne
<1>9. CASE ~IsWrite(r)
  <2>1. /\ inbox'[c] = b
        /\ \A d \in Clients \ {c} : inbox'[d] = inbox[d]
    <3>1. UNCHANGED inbox \/ Put(inbox, c, b)
      BY <1>3, <1>9 DEF Serve, IsWrite, Resets
    <3> QED BY <1>1, <3>1 DEF Put, ClientTypeOK
  <2>2. NoWrite(Tail(q)) <=> NoWrite(q)
    BY <1>1, <1>9, FirstServed
  <2>3. Moves
    <3>1. \/ \E ok \in BOOLEAN : StoreSet(r.v, ok)
          \/ UNCHANGED storeVars
          \/ \E ok \in BOOLEAN : StoreReset(r.op, ok)
      BY DEF Serve
    <3>2. ASSUME NEW v, v = r.v, NEW ok \in BOOLEAN, StoreSet(v, ok) PROVE Moves
      BY <1>1, <3>2, StoreSetMoves
    <3>3. ASSUME NEW how, how = r.op, NEW ok \in BOOLEAN, StoreReset(how, ok) PROVE Moves
      BY <1>1, <3>3, StoreResetMoves
    <3>4. CASE UNCHANGED storeVars
      BY <1>1, <3>4, StoreStays
    <3> QED BY <3>1, <3>2, <3>3, <3>4
  <2>4. \/ UNCHANGED answer
        \/ /\ r.op # "Set" /\ r.wanted
           /\ \E x : /\ Put(answer, c, {x})
                     /\ r.op = "Get" /\ x.result = "ok" => x.v = Current
    <3>1. CASE r.op = "Set" \/ ~r.wanted
      BY <3>1 DEF Serve, Resets
    <3>2. CASE r.op = "Get" /\ r.wanted
      <4>1. Put(answer, c, {[result |-> Result(Current # NoValue), v |-> Current]})
        BY <3>2 DEF Serve, Resets
      <4>2. [result |-> Result(Current # NoValue), v |-> Current].v = Current
        OBVIOUS
      <4> QED BY <3>2, <4>1, <4>2
    <3>3. CASE r.op \notin {"Set", "Get"} /\ r.wanted
      BY <3>3 DEF Serve
    <3> QED BY <1>3, <3>1, <3>2, <3>3
  <2>5. \A d \in Clients \ {c} : Same(d)
    BY <1>1, <1>2, <2>1, <2>4 DEF Same, Put, ClientTypeOK
  <2>6. ASSUME Current' = Current, FetchedNow(c) PROVE FetchedNow(c)'
    <3>1. Calling(c, Fetches)' <=> Calling(c, Fetches)
      BY <1>2 DEF Calling
    <3>2. CASE UNCHANGED answer
      BY <2>6, <3>1, <3>2 DEF FetchedNow
    <3>3. ASSUME r.op # "Set", r.wanted, NEW x, Put(answer, c, {x}),
                 r.op = "Get" /\ x.result = "ok" => x.v = Current
          PROVE  FetchedNow(c)'
      <4>1. call[c] # {} /\ answer[c] = {}
        <5>1. ~NoSync(q) /\ ~NoneWanted(q)
          BY <1>1, <3>3, FirstWanted
        <5> QED BY <1>1, <5>1 DEF ClientInv, Sync
      <4>2. r = q[Len(q)]
        BY <1>1, <3>3, TailOf DEF ClientInv, Sync
      <4>3. Calling(c, Fetches) => r.op = "Get"
        BY <1>1, <4>1, <4>2 DEF ClientInv, Sync, EndsIn
      <4>4. answer'[c] = {x}
        BY <1>1, <3>3 DEF Put, ClientTypeOK
      <4> QED BY <2>6, <3>1, <3>3, <4>3, <4>4 DEF FetchedNow
    <3> QED BY <2>4, <3>2, <3>3
  <2>7. Locked' = Locked
    BY <2>3 DEF Moves, Locked
  <2>8. News(c)'
    <3>1. CASE Disturbed'
      BY <3>1 DEF News, Live
    <3>2. CASE notify' > 0 /\ ~Locked
      <4>1. Unlocked(c) => Unlocked(c)'
        BY <1>2, <2>1, <2>2, <3>2 DEF Unlocked
      <4> QED BY <1>1, <1>5, <2>7, <3>2, <4>1 DEF News
    <3>3. CASE Current' = Current /\ notify <= notify'
      <4>1. Told(c) => Told(c)'
        BY <2>1, <3>3 DEF Told
      <4>2. Untold(c) => Untold(c)'
        BY <2>1 DEF Untold
      <4>3. Shows(cache[c]) => Shows(cache[c])'
        BY <1>2, <3>3 DEF Shows
      <4>4. notify > 0 => notify' > 0
        BY <2>3, <3>3 DEF Moves
      <4>5. Unlocked(c) => Unlocked(c)'
        BY <1>2, <2>1, <2>2, <2>6, <3>3, <4>1, <4>2, <4>3, <4>4 DEF Unlocked
      <4>6. Fixed(c) => Fixed(c)'
        BY <1>2, <2>1, <2>6, <3>3, <4>3 DEF Fixed, Refused
      <4> QED BY <1>1, <1>5, <2>7, <4>5, <4>6 DEF News
    <3> QED BY <2>3, <3>1, <3>2, <3>3 DEF Moves
  <2> QED BY <1>7, <2>3, <2>5, <2>8, NewsOfOne
<1> QED BY <1>8, <1>9

\* The news is what the value is by then.
LEMMA EmitNews == NInv /\ RInv' /\ Emit => NInv'
<1> SUFFICES ASSUME NInv, RInv', Emit, NEW c \in Clients PROVE Kept(c)' /\ News(c)'
  BY DEF NInv
<1>1. /\ Kept(c) /\ News(c) /\ ClientInv(c) /\ inbox[c] \in Seq(Events)
      /\ StoreInv /\ ClientTypeOK
  BY Typing DEF NInv, RInv, IInv
<1>2. UNCHANGED <<system, lock, user, faults, phase, cache, pending, call,
                  requests, answer>>
  BY DEF Emit
<1>3. /\ inbox'[c] = IF phase[c] = "open" THEN Append(inbox[c], Signal(Current))
                     ELSE inbox[c]
  BY DEF Emit
<1>4. Current' = Current /\ Locked' = Locked /\ (Live(c)' <=> Live(c))
  BY <1>2 DEF Current, Locked, Live, Calling, Disturbed
<1>5. Kept(c)'
  BY <1>1, <1>2, <1>3 DEF Kept, Calling
<1>6. FetchedNow(c) => FetchedNow(c)'
  BY <1>2, <1>4 DEF FetchedNow, Calling
<1>7. CASE phase[c] = "open"
  <2>1. /\ Signal(Current) \in Events /\ Signal(Current).k # "Reply"
        /\ Signal(Current).v = Current
    BY <1>1, CurrentType DEF Events, Signal
  <2>2. PICK e \in Events : e = Signal(Current)
    BY <2>1
  <2>3. inbox'[c] = Append(inbox[c], e) /\ e.k # "Reply" /\ e.v = Current
    BY <1>3, <1>7, <2>1, <2>2
  <2>4. Told(c)'
    BY <1>1, <1>4, <2>3, EventAt DEF Told
  <2>5. LastReplyOk(inbox[c]) => LastReplyOk(inbox'[c])
    BY <1>1, <2>3, OneMoreEvent
  <2>6. Refused(inbox[c]) => Refused(Append(inbox[c], e))
    BY <1>1, <2>3, OneMoreEvent
  <2>7. Unlocked(c) => Unlocked(c)'
    BY <1>2, <2>4, <2>5 DEF Unlocked
  <2>8. Fixed(c) => Fixed(c)'
    BY <1>2, <1>4, <1>6, <2>3, <2>6 DEF Fixed, Refused, Shows
  <2> QED BY <1>1, <1>4, <1>5, <2>7, <2>8 DEF News
<1>8. CASE phase[c] = "new"
  <2>1. cache[c] = NoItem /\ inbox[c] = <<>> /\ answer[c] = {}
    BY <1>1, <1>8 DEF Kept, ClientInv, Sync
  <2>2. /\ Untold(c)' /\ Shows(cache[c])' /\ FetchedNow(c)' /\ LastReplyOk(inbox'[c])
    BY <1>2, <1>3, <1>8, <2>1 DEF Untold, Shows, FetchedNow, LastReplyOk
  <2>3. Unlocked(c)'
    BY <2>2 DEF Unlocked
  <2>4. Fixed(c) => Fixed(c)'
    BY <1>2, <1>3, <1>4, <1>6, <1>8 DEF Fixed, Refused, Shows
  <2> QED BY <1>1, <1>4, <1>5, <2>3, <2>4 DEF News
<1>9. CASE phase[c] = "closed"
  BY <1>2, <1>5, <1>9 DEF News, Live
<1> QED BY <1>1, <1>7, <1>8, <1>9 DEF ClientTypeOK

\* A save, or nothing.
LEMMA SaveNews == NInv /\ RInv' /\ (Save \/ UNCHANGED vars) => NInv'
<1> SUFFICES ASSUME NInv, RInv', Save \/ UNCHANGED vars, NEW c \in Clients
             PROVE  Kept(c)' /\ News(c)'
  BY DEF NInv
<1>1. Same(c)
  BY DEF Same, Save, vars, clientVars
<1>2. Moves
  <2>1. notify \in Nat
    BY DEF NInv, RInv, IInv, StoreInv, StoreTypeOK
  <2>2. UNCHANGED <<system, lock, user, notify>> /\ faults \subseteq faults'
    BY DEF Save, SaveTimeout, vars, storeVars
  <2> QED BY <2>1, <2>2 DEF Moves, Current
<1> QED BY <1>1, <1>2, NewsOfOthers DEF NInv

\* Nothing is claimed when a call was given up.
LEMMA TimeoutNews ==
  ASSUME NInv, RInv', NEW c \in Clients, CallTimeout(c)
  PROVE  NInv'
<1> DEFINE q == requests[c]
<1>1. /\ RInv /\ Kept(c) /\ ClientTypeOK /\ q \in Seq(Requests)
      /\ notify \in Nat
  BY Typing DEF NInv, RInv, IInv, StoreInv, StoreTypeOK
<1>2. /\ UNCHANGED <<system, lock, user, notify, phase, cache, pending, call>>
      /\ faults' = faults \cup {"timeout"}
  BY DEF CallTimeout
<1>3. Disturbed' /\ Moves
  BY <1>1, <1>2 DEF Disturbed, Moves
<1>4. PICK i \in Wanted(c) :
        Put(requests, c, [requests[c] EXCEPT ![i].wanted = FALSE]) /\ GiveUp(c, i)
  BY DEF CallTimeout
<1>5. i \in DOMAIN q /\ q[i] \in Requests
  <2>1. i \in DOMAIN q
    BY <1>4 DEF Wanted
  <2> QED BY <1>1, <2>1
<1>6. /\ requests'[c] = Given(q, i)
      /\ \A d \in Clients \ {c} : Same(d)
  BY <1>1, <1>2, <1>4 DEF GiveUp, Put, ClientTypeOK, Given, Same
<1>7. SentAs(Given(q, i), pending[c])
  <2> DEFINE p == Given(q, i)
  <2>1. p = [q EXCEPT ![i] = [q[i] EXCEPT !.wanted = FALSE]]
    BY DEF Given
  <2> HIDE DEF p
  <2>2. /\ DOMAIN p = DOMAIN q
        /\ \A j \in DOMAIN q : j # i => p[j] = q[j]
        /\ ~p[i].wanted
    BY <1>1, <1>5, <2>1, CancelledCall
  <2>3. SentAs(p, pending[c])
    BY <1>1, <1>5, <2>2 DEF Kept, SentAs, IsWrite
  <2> QED BY <2>3 DEF p
<1>8. Kept(c)'
  <2>1. q # <<>>
    BY <1>1, <1>5
  <2>2. phase[c] # "new"
    BY <1>1, <2>1 DEF Kept
  <2> QED BY <1>1, <1>2, <1>6, <1>7, <2>2 DEF Kept, Calling, SentAs
<1>9. News(c)'
  BY <1>3 DEF News, Live
<1> QED BY <1>3, <1>6, <1>8, <1>9, NewsOfOne

\* A daemon that loses nothing says nothing else than the one before.
LEMMA NothingLost ==
  ASSUME RInv, Restart
  PROVE  /\ faults \subseteq faults'
         /\ Disturbed' \/ /\ UNCHANGED <<system, lock, user, notify>>
                          /\ notify = 0 /\ ~Interrupted
<1>1. ASSUME NEW f, NEW fl, faults \subseteq fl, StartAnew(f, fl, Interrupted)
      PROVE  /\ faults \subseteq faults'
             /\ Disturbed' \/ /\ UNCHANGED <<system, lock, user, notify>>
                              /\ notify = 0 /\ ~Interrupted
  BY <1>1 DEF StartAnew, Disturbed
<1>2. StoreInv
  BY DEF RInv, IInv
<1>3. CASE StartAnew(file, faults, Interrupted)
  BY <1>1, <1>3
<1>4. ASSUME NEW f, NEW fl, Flushed(f, fl), StartAnew(f, fl, Interrupted)
      PROVE  /\ faults \subseteq faults'
             /\ Disturbed' \/ /\ UNCHANGED <<system, lock, user, notify>>
                              /\ notify = 0 /\ ~Interrupted
  <2>1. faults \subseteq fl
    BY <1>2, <1>4, FlushedIsLoaded
  <2> QED BY <1>1, <1>4, <2>1
<1> QED BY <1>3, <1>4 DEF Restart, Crash, Quit

\* The daemon ends.
LEMMA RestartNews == NInv /\ RInv' /\ Restart => NInv'
<1> SUFFICES ASSUME NInv, RInv', Restart, NEW c \in Clients PROVE Kept(c)' /\ News(c)'
  BY DEF NInv
<1>1. /\ RInv /\ Kept(c) /\ News(c) /\ ClientsInv /\ inbox[c] \in Seq(Events)
      /\ requests[c] \in Seq(Requests)
  BY Typing DEF NInv, RInv, IInv
<1>2. /\ UNCHANGED <<phase, cache, pending, call>>
      /\ requests'[c] = <<>> /\ inbox'[c] = inbox[c] \o Failures(c)
      /\ answer'[c] = IF Waiting(c) THEN {[result |-> "lost", v |-> NoValue]}
                      ELSE answer[c]
  BY DEF Restart
<1>3. NoneWanted(requests[c]) => inbox'[c] = inbox[c] /\ answer'[c] = answer[c]
                                 /\ NoWrite(requests[c])
  <2> SUFFICES ASSUME NoneWanted(requests[c])
               PROVE  inbox'[c] = inbox[c] /\ answer'[c] = answer[c]
                      /\ NoWrite(requests[c])
    OBVIOUS
  <2>1. ~Outstanding(c) /\ ~Waiting(c) /\ NoWrite(requests[c])
    BY DEF Outstanding, Waiting, Wanted, NoneWanted, NoWrite
  <2>2. Failures(c) = <<>> /\ inbox[c] \o <<>> = inbox[c]
    BY <1>1, <2>1 DEF Failures
  <2> QED BY <1>2, <2>1, <2>2
<1>4. Kept(c)'
  <2>1. phase[c] = "new" => inbox'[c] = <<>>
    <3>1. NoneWanted(<<>>)
      BY DEF NoneWanted
    <3> QED BY <1>1, <1>3, <3>1 DEF Kept
  <2>2. SentAs(requests'[c], pending'[c])
    BY <1>2 DEF SentAs
  <2> QED BY <1>1, <1>2, <2>1, <2>2 DEF Kept, Calling
<1>5. CASE Disturbed'
  BY <1>4, <1>5 DEF News, Live
<1>6. CASE UNCHANGED <<system, lock, user, notify>> /\ notify = 0 /\ ~Interrupted
  <2>1. NoneWanted(requests[c])
    BY <1>1, <1>6, QueueClaims DEF Interrupted
  <2>2. inbox'[c] = inbox[c] /\ answer'[c] = answer[c] /\ NoWrite(requests[c])
    BY <1>3, <2>1
  <2>3. Current' = Current /\ Locked' = Locked
    BY <1>6 DEF Current, Locked
  <2>4. Live(c)' => Live(c)
    BY <1>1, <1>2, NothingLost DEF Live, Calling, Disturbed
  <2>5. FetchedNow(c) => FetchedNow(c)'
    BY <1>2, <2>2, <2>3 DEF FetchedNow, Calling
  <2>6. Fixed(c) => Fixed(c)'
    BY <1>2, <2>2, <2>3, <2>5 DEF Fixed, Refused, Shows
  <2>7. Unlocked(c) => Unlocked(c)'
    BY <1>2, <1>6, <2>2, <2>3, <2>5 DEF Unlocked, Told, Untold, Shows
  <2> QED BY <1>1, <1>4, <2>3, <2>4, <2>6, <2>7 DEF News
<1> QED BY <1>1, <1>5, <1>6, NothingLost

-----------------------------------------------------------------------------
(* The theorems.                                                           *)

\* The invariant holds initially.
LEMMA NewsInit == Init => NInv
<1> SUFFICES ASSUME Init, NEW c \in Clients PROVE Kept(c) /\ News(c)
  BY RepliesInit DEF NInv
<1>1. /\ phase[c] = "new" /\ cache[c] = NoItem /\ pending[c] = {} /\ call[c] = {}
      /\ requests[c] = <<>> /\ answer[c] = {} /\ inbox[c] = <<>>
  BY DEF Init
<1>2. Kept(c)
  BY <1>1 DEF Kept, Calling, SentAs
<1>3. Untold(c) /\ Shows(cache[c]) /\ FetchedNow(c) /\ LastReplyOk(inbox[c])
      /\ Refused(inbox[c])
  BY <1>1 DEF Untold, Shows, FetchedNow, LastReplyOk, Refused
<1>4. Fixed(c) /\ Unlocked(c)
  BY <1>1, <1>3 DEF Fixed, Unlocked
<1> QED BY <1>2, <1>4 DEF News

\* Every step preserves it.
LEMMA NewsNext == NInv /\ [Next]_vars => NInv'
<1> SUFFICES ASSUME NInv, [Next]_vars PROVE NInv'
  OBVIOUS
<1>1. RInv'
  BY RepliesNext DEF NInv
<1>2. ASSUME NEW c \in Clients,
             \/ Open(c) \/ Lookup(c) \/ Close(c)
             \/ \E v \in Values : Set(c, v)
             \/ \E how \in Resets : Reset(c, how)
      PROVE  NInv'
  BY <1>1, <1>2, CallsNews, CloseNews
<1>3. ASSUME NEW c \in Clients,
             \/ PrefetchAnswered(c) \/ LookupAnswered(c) \/ SetAnswered(c)
             \/ ResetAnswered(c) \/ ResetRootAnswered(c) \/ CloseAnswered(c)
             \/ ReplyArrives(c) \/ PropertyChanged(c) \/ PropertyRemoved(c)
             \/ Serve(c) \/ CallTimeout(c)
      PROVE  NInv'
  BY <1>1, <1>3, AnswersNews, DispatchNews, ServeNews, TimeoutNews
<1> QED BY <1>1, <1>2, <1>3, EmitNews, SaveNews, RestartNews DEF Next

\* The inductive invariant.
THEOREM NewsInvariance == Spec => []NInv
BY NewsInit, NewsNext, PTL DEF Spec

\* A client that has dealt with its signals and writes shows the value of the
\* daemon, or none, whatever writes, resets and fetches of other clients
\* crossed its own (Converged).
THEOREM NothingStale == Spec => []Converged
<1>1. NInv => Converged
  <2> SUFFICES ASSUME NInv, NEW c \in Clients, ~Disturbed, notify = 0,
                      phase[c] = "open", inbox[c] = <<>>, pending[c] = {}
               PROVE  cache[c] \in {NoItem, Absent, Current}
    BY DEF Converged
  <2>1. RInv /\ Kept(c) /\ News(c) /\ Replies(c) /\ Queued(inbox[c]) \in Nat
    BY Typing DEF NInv
  <2>2. Live(c)
    BY <2>1 DEF Kept, Live
  <2>3. NoWrite(requests[c])
    BY <2>1 DEF Replies, Due, Owed
  <2>4. ~(notify > 0) /\ ~Told(c)
    BY DEF Told
  <2> QED BY <2>1, <2>2, <2>3, <2>4 DEF News, Fixed, Unlocked, Shows
<1> QED BY <1>1, NewsInvariance, PTL

=============================================================================
