-------------------------- MODULE TokenCacheProofs --------------------------
(***************************************************************************)
(* Proofs about TokenCache, for any number of threads, tokens and entries  *)
(* and any cache duration: the type invariant, what a refresh may find in  *)
(* and leave in the map, the bound on staleness, and that the cache        *)
(* implements TokenOracle.                                                 *)
(***************************************************************************)
EXTENDS TokenCache, FiniteSetTheorems, TLAPS

(* The inductive invariant, in named parts.                                *)

\* What the local variables hold at each place in the method.
Locals ==
    \A th \in Threads :
        /\ pc[th] = "idle" => /\ token[th] = NoToken
                              /\ cached[th] = NoEntry
        /\ pc[th] \notin {"reply", "extended"} => body[th] = NoToken
        /\ pc[th] = "extended" => body[th] = "garbage"

\* Two refreshes of one token at a time know of each other.
RivalsOverlap ==
    \A th, u \in Threads :
        th # u /\ Refreshing(th) /\ Refreshing(u) /\ token[th] = token[u]
            => th \in overlapped

\* During a refresh the map has nothing for the token, or something that a
\* contested write put there.
EmptyOrContested ==
    \A th \in Threads :
        Refreshing(th) => \/ cache[token[th]] = NoEntry
                          \/ token[th] \in contested

\* A verdict a call has received and not yet stored is the latest one, unless
\* another refresh ran into the call.
BodyIsLatest ==
    \A th \in Threads :
        body[th] \in TokenData /\ th \notin overlapped
            => latest[token[th]] = body[th]

\* No call for t holds a verdict it has yet to store.
NoNews(t) == \A u \in Threads : body[u] \in TokenData => token[u] # t

\* The entry a call read from the map carries the latest verdict, unless a
\* refresh ran into the call or a newer verdict is on its way to the map.
HeldIsLatest ==
    \A th \in Threads :
        (/\ cached[th] # NoEntry
         /\ th \notin overlapped
         /\ token[th] \notin contested
         /\ NoNews(token[th]))
        => heap[cached[th]].tokenData = latest[token[th]]

\* Only an entry that met an unreadable answer is younger than its data.
AgesAgree ==
    \A e \in Entries : ~heap[e].excused => heap[e].age = heap[e].since
GarbageExcuses ==
    \A th \in Threads :
        cached[th] # NoEntry /\ body[th] = "garbage"
            => heap[cached[th]].excused

\* All data about, in the map or in a call's hands, came from the portal.
DataWasTold ==
    /\ \A t \in Tokens :
          cache[t] # NoEntry => heap[cache[t]].tokenData \in told[Bearer[t]]
    /\ \A th \in Threads :
          /\ body[th] \in TokenData => body[th] \in told[Bearer[token[th]]]
          /\ cached[th] # NoEntry
                => heap[cached[th]].tokenData \in told[Bearer[token[th]]]

WellTyped == TypeOK /\ Locals
Freshness == /\ RivalsOverlap /\ EmptyOrContested /\ BodyIsLatest
             /\ HeldIsLatest /\ LatestAnswerCached
Staleness == AgesAgree /\ GarbageExcuses

USE DEF Refreshing

----------------------------------------------------------------------------
(* new CacheEntry(...) finds an address: fewer are in use than there are.  *)
LEMMA FreshEntry ==
    ASSUME TypeOK
    PROVE  Fresh \in Entries \ InUse
<1> DEFINE Slots == {cache[t] : t \in Tokens}
           Held == {cached[th] : th \in Threads}
<1>1. IsFiniteSet(Slots) /\ Cardinality(Slots) <= Cardinality(Tokens)
  <2>1. cache \in Surjection(Tokens, Slots)
    BY DEF TypeOK, Surjection
  <2> HIDE DEF Slots
  <2> QED BY <2>1, FS_Surjection, TokensAssumption
<1>2. IsFiniteSet(Held) /\ Cardinality(Held) <= Cardinality(Threads)
  <2>1. cached \in Surjection(Threads, Held)
    BY DEF TypeOK, Surjection
  <2> HIDE DEF Held
  <2> QED BY <2>1, FS_Surjection, ThreadsAssumption
<1>3. InUse = Slots \union Held
  BY DEF InUse
<1> HIDE DEF Slots, Held
<1>4. /\ IsFiniteSet(InUse)
      /\ Cardinality(InUse) <= Cardinality(Slots) + Cardinality(Held)
  <2>1. Cardinality(Slots \cap Held) \in Nat
    BY <1>1, FS_Subset, FS_CardinalityType
  <2>2. Cardinality(Slots) \in Nat /\ Cardinality(Held) \in Nat
    BY <1>1, <1>2, FS_CardinalityType
  <2>3. /\ IsFiniteSet(Slots \union Held)
        /\ Cardinality(Slots \union Held)
              = Cardinality(Slots) + Cardinality(Held)
                   - Cardinality(Slots \cap Held)
    BY <1>1, <1>2, FS_Union
  <2> QED BY <1>3, <2>1, <2>2, <2>3
<1>5. \E e \in Entries : e \notin InUse
  <2>1. SUFFICES ASSUME Entries \subseteq InUse PROVE FALSE
    OBVIOUS
  <2>2. Cardinality(Entries) <= Cardinality(InUse)
    BY <1>4, <2>1, FS_Subset
  <2>3. /\ Cardinality(Entries) \in Nat /\ Cardinality(InUse) \in Nat
        /\ Cardinality(Slots) \in Nat /\ Cardinality(Held) \in Nat
        /\ Cardinality(Tokens) \in Nat /\ Cardinality(Threads) \in Nat
    BY <1>1, <1>2, <1>4, FS_CardinalityType, EntriesAssumption,
       TokensAssumption, ThreadsAssumption
  <2> QED BY <1>1, <1>2, <1>4, <2>2, <2>3, EntriesAssumption
<1> QED BY <1>5 DEF Fresh

\* Ages stay within their bounds as time passes.
LEMMA OlderAge == ASSUME NEW a \in Ages PROVE Older(a) \in Ages
BY CacheDurationAssumption DEF Ages, Older

LEMMA NewEntryType ==
    /\ \A d \in TokenData : NewEntry(d) \in CacheEntry
    /\ NoObject \in CacheEntry
BY CacheDurationAssumption
DEF NewEntry, NoObject, CacheEntry, Ages, TokenData

\* What the end of a call leaves behind.
LEMMA ReturnType ==
    ASSUME WellTyped, NEW th \in Threads, NEW r \in Results,
           NEW h \in [Entries -> CacheEntry], Return(th, r, h)
    PROVE  /\ answer' \in [thread : Threads, is : Results]
           /\ heap' \in [Entries -> CacheEntry]
           /\ pc' \in [Threads -> Locations]
           /\ token' \in [Threads -> Tokens \union {NoToken}]
           /\ cached' \in [Threads -> Entries \union {NoEntry}]
           /\ seen' \in [Threads -> Ages]
           /\ body' \in [Threads -> Answers \union {NoToken}]
           /\ \A u \in Threads : pc'[u] # "idle" => token'[u] \in Tokens
           /\ \A u \in Threads : pc'[u] \in {"got", "expired", "extended"}
                                    => cached'[u] \in Entries
           /\ \A u \in Threads : pc'[u] = "reply" => body'[u] \in Answers
           /\ Locals'
<1>1. heap' \in [Entries -> CacheEntry]
  BY NewEntryType DEF Return
<1>2. 0 \in Ages /\ "idle" \in Locations
  BY CacheDurationAssumption DEF Ages, Locations
<1> QED BY <1>1, <1>2 DEF WellTyped, TypeOK, Locals, Return

(* Every variable keeps its type, and the local variables of a call hold   *)
(* what the place it has reached in getTokenData says.                     *)
THEOREM TypeCorrect == Spec => []WellTyped
<1>1. Init => WellTyped
  <2>1. NoObject \in CacheEntry /\ 0 \in Ages
    BY NewEntryType, CacheDurationAssumption DEF Ages
  <2> QED BY <2>1 DEF Init, WellTyped, TypeOK, Locals, Locations
<1>2. WellTyped /\ [Next]_vars => WellTyped'
  <2> SUFFICES ASSUME WellTyped, [Next]_vars PROVE WellTyped'
    OBVIOUS
  <2> USE DEF WellTyped, TypeOK, Locals, Locations, Continue
  <2>1. ASSUME NEW th \in Threads, NEW t \in Tokens, Found(th, t)
        PROVE  WellTyped'
    BY <2>1 DEF Found, CacheEntry
  <2>2. ASSUME NEW th \in Threads, NEW t \in Tokens, Missed(th, t)
        PROVE  WellTyped'
    BY <2>2 DEF Missed, BeginRefresh, Rivals
  <2>3. ASSUME NEW th \in Threads, Hit(th)
        PROVE  WellTyped'
    <3>1. heap[cached[th]].tokenData \in Results
      BY <2>3 DEF Hit, CacheEntry, Results
    <3> QED BY <2>3, <3>1, ReturnType DEF Hit
  <2>4. ASSUME NEW th \in Threads, SeeExpired(th)
        PROVE  WellTyped'
    BY <2>4 DEF SeeExpired
  <2>5. ASSUME NEW th \in Threads, Remove(th)
        PROVE  WellTyped'
    <3>1. 0 \in Ages
      BY CacheDurationAssumption DEF Ages
    <3> QED BY <2>5, <3>1 DEF Remove, BeginRefresh, Rivals
  <2>6. ASSUME NEW th \in Threads, Respond(th) \/ RespondFault(th)
        PROVE  WellTyped'
    BY <2>6, BearerAssumption
    DEF Respond, RespondFault, Say, TokenData, Answers
  <2>7. ASSUME NEW th \in Threads, Break(th)
        PROVE  WellTyped'
    <3>1. heap' \in [Entries -> CacheEntry]
      <4>1. ASSUME cached[th] \in Entries
            PROVE  [heap EXCEPT ![cached[th]].excused = TRUE]
                      \in [Entries -> CacheEntry]
        BY <4>1 DEF CacheEntry
      <4> QED BY <2>7, <4>1 DEF Break
    <3> QED BY <2>7, <3>1 DEF Break
  <2>8. ASSUME NEW th \in Threads, Store(th)
        PROVE  WellTyped'
    <3>1. body[th] \in Results /\ NewEntry(body[th]) \in CacheEntry
      BY <2>8, NewEntryType DEF Store, Results
    <3>2. Fresh \in Entries
      BY FreshEntry
    <3>3. [heap EXCEPT ![Fresh] = NewEntry(body[th])]
             \in [Entries -> CacheEntry]
      BY <3>1, <3>2
    <3>4. token[th] \in Tokens
      BY <2>8 DEF Store
    <3> QED BY <2>8, <3>1, <3>2, <3>3, <3>4, ReturnType
            DEF Store, EndRefresh, Rivals
  <2>9. ASSUME NEW th \in Threads, Extend(th)
        PROVE  WellTyped'
    <3>1. 0 \in Ages
      BY CacheDurationAssumption DEF Ages
    <3> QED BY <2>9, <3>1 DEF Extend, CacheEntry
  <2>10. ASSUME NEW th \in Threads, Restore(th)
         PROVE  WellTyped'
    <3>1. heap[cached[th]].tokenData \in Results
      BY <2>10 DEF Restore, CacheEntry, Results
    <3>2. [heap EXCEPT ![cached[th]].published = heap[cached[th]].age]
             \in [Entries -> CacheEntry]
      BY <2>10 DEF Restore, CacheEntry
    <3> QED BY <2>10, <3>1, <3>2, ReturnType
            DEF Restore, EndRefresh, Rivals
  <2>11. ASSUME NEW th \in Threads, ClientError(th) \/ Throw(th)
         PROVE  WellTyped'
    <3>1. Failures \subseteq Results
      BY DEF Results
    <3>2. "client error" \in Results /\ "exception" \in Results
      BY <3>1 DEF Failures
    <3>3. CASE ClientError(th)
      BY <2>11, <3>2, <3>3, ReturnType DEF ClientError
    <3>4. CASE Throw(th)
      BY <2>11, <3>2, <3>4, ReturnType DEF Throw
    <3> QED BY <2>11, <3>3, <3>4
  <2>12. CASE Tick
    <3>1. heap' \in [Entries -> CacheEntry]
      <4>1. ASSUME NEW h \in CacheEntry
            PROVE  [h EXCEPT !.age = Older(@), !.published = Older(@), !.since = Older(@)]
                     \in CacheEntry
        <5>1. Older(h.age) \in Ages /\ Older(h.published) \in Ages /\ Older(h.since) \in Ages
          BY <4>1, OlderAge DEF CacheEntry
        <5> QED BY <4>1, <5>1 DEF CacheEntry
      <4>2. heap' = [e \in Entries |-> [heap[e] EXCEPT !.age = Older(@),
                                                      !.published = Older(@),
                                                      !.since = Older(@)]]
        BY <2>12 DEF Tick
      <4>3. \A e \in Entries : heap[e] \in CacheEntry
        OBVIOUS
      <4> QED BY <4>1, <4>2, <4>3, Zenon
    <3>2. seen' \in [Threads -> Ages]
      BY <2>12, OlderAge DEF Tick
    <3> QED BY <2>12, <3>1, <3>2 DEF Tick
  <2>13. ASSUME NEW c \in Credentials, Change(c)
         PROVE  WellTyped'
    BY <2>13 DEF Change
  <2>14. CASE UNCHANGED vars
    BY <2>14 DEF vars
  <2> QED BY <2>1, <2>2, <2>3, <2>4, <2>5, <2>6, <2>7, <2>8, <2>9, <2>10,
             <2>11, <2>12, <2>13, <2>14 DEF Next, Call, Answered, Step
<1> QED BY <1>1, <1>2, PTL DEF Spec

\* The type invariant by itself.
COROLLARY TypeSafe == Spec => []TypeOK
BY TypeCorrect, PTL DEF WellTyped

----------------------------------------------------------------------------
(* A refresh that no other refresh of the token runs into finds the map    *)
(* without the token at every step until it writes: cache.remove has       *)
(* emptied it and only a rival's cache.put could have filled it.           *)
THEOREM RefreshFindsSlotEmpty == Spec => []RefreshingSlotEmpty
<1>1. Init => RefreshingSlotEmpty
  BY DEF Init, RefreshingSlotEmpty
<1>2. WellTyped /\ RefreshingSlotEmpty /\ [Next]_vars => RefreshingSlotEmpty'
  <2> SUFFICES ASSUME WellTyped, RefreshingSlotEmpty, [Next]_vars
               PROVE  RefreshingSlotEmpty'
    OBVIOUS
  <2> USE DEF WellTyped, TypeOK, RefreshingSlotEmpty
  <2>1. ASSUME NEW th \in Threads, NEW t \in Tokens, Found(th, t)
        PROVE  RefreshingSlotEmpty'
    BY <2>1 DEF Found
  <2>2. ASSUME NEW th \in Threads, NEW t \in Tokens, Missed(th, t)
        PROVE  RefreshingSlotEmpty'
    BY <2>2 DEF Missed, BeginRefresh
  <2>3. ASSUME NEW th \in Threads,
               Hit(th) \/ ClientError(th) \/ Throw(th)
        PROVE  RefreshingSlotEmpty'
    <3>1. PICK r : Return(th, r, heap)
      BY <2>3 DEF Hit, ClientError, Throw
    <3>2. cache' = cache /\ overlapped' = overlapped \ {th}
      BY <2>3 DEF Hit, ClientError, Throw
    <3>3. /\ pc' = [pc EXCEPT ![th] = "idle"]
          /\ token' = [token EXCEPT ![th] = NoToken]
      BY <3>1 DEF Return
    <3> QED BY <3>2, <3>3
  <2>4. ASSUME NEW th \in Threads, SeeExpired(th)
        PROVE  RefreshingSlotEmpty'
    BY <2>4 DEF SeeExpired
  <2>5. ASSUME NEW th \in Threads, Remove(th)
        PROVE  RefreshingSlotEmpty'
    BY <2>5 DEF Remove, BeginRefresh
  <2>6. ASSUME NEW th \in Threads,
               Respond(th) \/ RespondFault(th) \/ Break(th)
        PROVE  RefreshingSlotEmpty'
    BY <2>6 DEF Respond, RespondFault, Break
  <2>7. ASSUME NEW th \in Threads, Store(th) \/ Restore(th)
        PROVE  RefreshingSlotEmpty'
    \* Whoever refreshes the same token is a rival of th.
    <3>1. /\ pc' = [pc EXCEPT ![th] = "idle"]
          /\ token' = [token EXCEPT ![th] = NoToken]
          /\ \E e : cache' = [cache EXCEPT ![token[th]] = e]
          /\ overlapped' = (overlapped \union Rivals(th, token[th])) \ {th}
      BY <2>7 DEF Store, Restore, Return, EndRefresh
    <3>2. \A u \in Threads \ {th} :
             token[u] = token[th] => u \in overlapped'
      BY <3>1 DEF Rivals
    <3>3. \A u \in Threads \ {th} :
             token[u] # token[th] => cache'[token[u]] = cache[token[u]]
                                     \/ token[u] \notin Tokens
      BY <3>1
    <3> QED BY <3>1, <3>2, <3>3
  <2>8. ASSUME NEW th \in Threads, Extend(th)
        PROVE  RefreshingSlotEmpty'
    BY <2>8 DEF Extend
  <2>9. CASE Tick
    BY <2>9 DEF Tick
  <2>10. ASSUME NEW c \in Credentials, Change(c)
         PROVE  RefreshingSlotEmpty'
    BY <2>10 DEF Change
  <2>11. CASE UNCHANGED vars
    BY <2>11 DEF vars
  <2> QED BY <2>1, <2>2, <2>3, <2>4, <2>5, <2>6, <2>7, <2>8, <2>9, <2>10,
             <2>11 DEF Next, Call, Answered, Step
<1> QED BY <1>1, <1>2, TypeCorrect, PTL DEF Spec

----------------------------------------------------------------------------
\* The objects somebody still refers to outlive the end of a call: the map and
\* the other calls see them as the call left them in h.
LEMMA KeptAlive ==
    ASSUME WellTyped, NEW th \in Threads, NEW r, NEW h, Return(th, r, h)
    PROVE  /\ \A t \in Tokens :
                 cache'[t] \in Entries => heap'[cache'[t]] = h[cache'[t]]
           /\ \A u \in Threads \ {th} :
                 /\ cached'[u] = cached[u]
                 /\ body'[u] = body[u]
                 /\ token'[u] = token[u]
                 /\ pc'[u] = pc[u]
                 /\ cached[u] # NoEntry => heap'[cached[u]] = h[cached[u]]
           /\ cached'[th] = NoEntry
           /\ body'[th] = NoToken
           /\ token'[th] = NoToken
           /\ pc'[th] = "idle"
<1> USE DEF WellTyped, TypeOK
<1>1. \A t \in Tokens :
         cache'[t] \in Entries => heap'[cache'[t]] = h[cache'[t]]
  BY DEF Return, InUse
<1>2. /\ cached' = [cached EXCEPT ![th] = NoEntry]
      /\ body' = [body EXCEPT ![th] = NoToken]
      /\ token' = [token EXCEPT ![th] = NoToken]
      /\ pc' = [pc EXCEPT ![th] = "idle"]
  BY DEF Return
<1>3. \A u \in Threads \ {th} :
         cached[u] # NoEntry => heap'[cached[u]] = h[cached[u]]
  <2> SUFFICES ASSUME NEW u \in Threads \ {th}, cached[u] # NoEntry
               PROVE  heap'[cached[u]] = h[cached[u]]
    OBVIOUS
  <2>1. cached[u] \in Entries /\ cached'[u] = cached[u]
    BY <1>2
  <2>2. cached[u] \in InUse'
    BY <2>1 DEF InUse
  <2> QED BY <2>1, <2>2 DEF Return
<1> QED BY <1>1, <1>2, <1>3

\* An expired entry that met garbage is marked, one that did not is as old as
\* it looks: beyond CACHE_DURATION_MS an answer is served from the cache only
\* after a refresh of that very entry met an unreadable answer.
THEOREM StalenessIsBounded == Spec => BoundedStaleness
<1>1. Init => Staleness
  BY DEF Init, Staleness, AgesAgree, GarbageExcuses, NoObject
<1>2. WellTyped /\ Staleness /\ [Next]_vars => Staleness'
  <2> SUFFICES ASSUME WellTyped, Staleness, [Next]_vars PROVE Staleness'
    OBVIOUS
  <2> USE DEF WellTyped, TypeOK, Staleness, AgesAgree, GarbageExcuses
  <2>1. ASSUME NEW th \in Threads, NEW t \in Tokens, Found(th, t)
        PROVE  Staleness'
    <3>1. body[th] = NoToken
      BY <2>1 DEF Found, Locals
    <3> QED BY <2>1, <3>1, NoTokenAssumption DEF Found, Answers
  <2>2. ASSUME NEW th \in Threads, NEW t \in Tokens, Missed(th, t)
        PROVE  Staleness'
    BY <2>2 DEF Missed
  <2>3. ASSUME NEW th \in Threads,
               Hit(th) \/ ClientError(th) \/ Throw(th)
        PROVE  Staleness'
    <3>1. PICK r : Return(th, r, heap)
      BY <2>3 DEF Hit, ClientError, Throw
    <3>2. AgesAgree'
      BY <3>1 DEF Return, NoObject
    <3>3. GarbageExcuses'
      BY <3>1, KeptAlive
    <3> QED BY <3>2, <3>3
  <2>4. ASSUME NEW th \in Threads, SeeExpired(th)
        PROVE  Staleness'
    BY <2>4 DEF SeeExpired
  <2>5. ASSUME NEW th \in Threads, Remove(th)
        PROVE  Staleness'
    BY <2>5 DEF Remove
  <2>6. ASSUME NEW th \in Threads, Respond(th) \/ RespondFault(th)
        PROVE  Staleness'
    BY <2>6 DEF Respond, RespondFault, Say
  <2>7. ASSUME NEW th \in Threads, Break(th)
        PROVE  Staleness'
    BY <2>7 DEF Break, CacheEntry
  <2>8. ASSUME NEW th \in Threads, Store(th)
        PROVE  Staleness'
    <3> DEFINE h == [heap EXCEPT ![Fresh] = NewEntry(body[th])]
    <3>1. /\ Return(th, body[th], h)
          /\ Fresh \in Entries \ InUse
      BY <2>8, FreshEntry DEF Store
    <3>2. \A e \in Entries : h[e] = heap[e] \/ h[e].age = h[e].since
      BY <3>1 DEF NewEntry
    <3>3. \A u \in Threads : cached[u] \in Entries
                                => h[cached[u]] = heap[cached[u]]
      BY <3>1 DEF InUse
    <3> HIDE DEF h
    <3>4. AgesAgree'
      BY <3>1, <3>2 DEF Return, NoObject
    <3>5. GarbageExcuses'
      BY <3>1, <3>3, KeptAlive
    <3> QED BY <3>4, <3>5
  <2>9. ASSUME NEW th \in Threads, Extend(th)
        PROVE  Staleness'
    BY <2>9 DEF Extend, CacheEntry
  <2>10. ASSUME NEW th \in Threads, Restore(th)
         PROVE  Staleness'
    <3> DEFINE h == [heap EXCEPT ![cached[th]].published =
                                     heap[cached[th]].age]
    <3>1. Return(th, heap[cached[th]].tokenData, h)
      BY <2>10 DEF Restore
    <3>2. \A e \in Entries : /\ h[e].excused = heap[e].excused
                             /\ h[e].age = heap[e].age
                             /\ h[e].since = heap[e].since
      BY DEF CacheEntry
    <3> HIDE DEF h
    <3>3. AgesAgree'
      BY <3>1, <3>2 DEF Return, NoObject
    <3>4. GarbageExcuses'
      <4>1. \A u \in Threads \ {th} :
               cached[u] # NoEntry =>
                  heap'[cached[u]].excused = heap[cached[u]].excused
        BY <3>1, <3>2, KeptAlive
      <4>2. /\ cached'[th] = NoEntry
            /\ \A u \in Threads \ {th} : /\ cached'[u] = cached[u]
                                         /\ body'[u] = body[u]
        BY <3>1, KeptAlive
      <4> QED BY <4>1, <4>2
    <3> QED BY <3>3, <3>4
  <2>11. CASE Tick
    <3>1. \A e \in Entries : /\ heap'[e].age = Older(heap[e].age)
                             /\ heap'[e].since = Older(heap[e].since)
                             /\ heap'[e].excused = heap[e].excused
      <4> SUFFICES ASSUME NEW e \in Entries
                   PROVE  /\ heap'[e].age = Older(heap[e].age)
                          /\ heap'[e].since = Older(heap[e].since)
                          /\ heap'[e].excused = heap[e].excused
        OBVIOUS
      <4>1. heap'[e] = [heap[e] EXCEPT !.age = Older(@),
                                       !.published = Older(@),
                                       !.since = Older(@)]
        BY <2>11 DEF Tick
      <4>2. heap[e] \in CacheEntry
        OBVIOUS
      <4> QED BY <4>1, <4>2 DEF CacheEntry
    <3>2. cached' = cached /\ body' = body
      BY <2>11 DEF Tick
    <3> QED BY <3>1, <3>2
  <2>12. ASSUME NEW c \in Credentials, Change(c)
         PROVE  Staleness'
    BY <2>12 DEF Change
  <2>13. CASE UNCHANGED vars
    BY <2>13 DEF vars
  <2> QED BY <2>1, <2>2, <2>3, <2>4, <2>5, <2>6, <2>7, <2>8, <2>9, <2>10,
             <2>11, <2>12, <2>13 DEF Next, Call, Answered, Step
<1>3. WellTyped /\ Staleness =>
        \A th \in Threads :
          Hit(th) /\ Expired(heap[cached[th]].since)
              => heap[cached[th]].excused
  BY DEF WellTyped, TypeOK, Staleness, AgesAgree, Hit
<1>4. Spec => []Staleness
  BY <1>1, <1>2, TypeCorrect, PTL DEF Spec
<1> QED BY <1>3, <1>4, TypeCorrect, PTL DEF BoundedStaleness

----------------------------------------------------------------------------
\* The data in an entry never changes; only a new object has new data.
LEMMA TickKeepsData ==
    ASSUME WellTyped, Tick
    PROVE  \A e \in Entries : heap'[e].tokenData = heap[e].tokenData
<1> SUFFICES ASSUME NEW e \in Entries
             PROVE  heap'[e].tokenData = heap[e].tokenData
  OBVIOUS
<1>1. heap'[e] = [heap[e] EXCEPT !.age = Older(@), !.published = Older(@),
                                 !.since = Older(@)]
  BY DEF Tick
<1>2. heap[e] \in CacheEntry
  BY DEF WellTyped, TypeOK
<1> QED BY <1>1, <1>2 DEF CacheEntry

\* The entry in the map carries the last thing the portal said for the token
\* unless a call that another refresh ran into wrote it.  A call that was
\* not run into found the map empty, holds the latest verdict when it stores
\* and, when it puts the expired entry back, nobody has heard a newer one.
THEOREM CacheHoldsLatest == Spec => []LatestAnswerCached
<1>1. Init => Freshness
  BY NoTokenAssumption
  DEF Init, Freshness, RivalsOverlap, EmptyOrContested, BodyIsLatest,
      HeldIsLatest, LatestAnswerCached, Answers
<1>2. WellTyped /\ Freshness /\ [Next]_vars => Freshness'
  <2> SUFFICES ASSUME WellTyped, Freshness, [Next]_vars PROVE Freshness'
    OBVIOUS
  <2> USE NoTokenAssumption
      DEF WellTyped, TypeOK, Freshness, RivalsOverlap, EmptyOrContested,
          BodyIsLatest, HeldIsLatest, LatestAnswerCached, NoNews
  <2>1. ASSUME NEW th \in Threads, NEW t \in Tokens, Found(th, t)
        PROVE  Freshness'
    <3>1. body[th] = NoToken /\ NoToken \notin TokenData
      BY <2>1 DEF Found, Locals, Answers
    <3>2. RivalsOverlap' /\ EmptyOrContested' /\ BodyIsLatest'
      BY <2>1, <3>1 DEF Found
    <3>3. HeldIsLatest'
      BY <2>1, <3>1 DEF Found
    <3>4. LatestAnswerCached'
      BY <2>1 DEF Found
    <3> QED BY <3>2, <3>3, <3>4
  <2>2. ASSUME NEW th \in Threads, NEW t \in Tokens, Missed(th, t)
        PROVE  Freshness'
    <3>1. /\ body[th] = NoToken /\ NoToken \notin TokenData
          /\ cached[th] = NoEntry
      BY <2>2 DEF Missed, Locals, Answers
    <3>2. RivalsOverlap'
      BY <2>2 DEF Missed, BeginRefresh, Rivals
    <3>3. EmptyOrContested' /\ BodyIsLatest'
      BY <2>2, <3>1 DEF Missed, BeginRefresh, Rivals
    <3>4. HeldIsLatest'
      BY <2>2, <3>1 DEF Missed, BeginRefresh, Rivals
    <3>5. LatestAnswerCached'
      BY <2>2 DEF Missed
    <3> QED BY <3>2, <3>3, <3>4, <3>5
  <2>3. ASSUME NEW th \in Threads,
               Hit(th) \/ ClientError(th) \/ Throw(th)
        PROVE  Freshness'
    <3>1. PICK r : Return(th, r, heap)
      BY <2>3 DEF Hit, ClientError, Throw
    <3>2. /\ cache' = cache /\ latest' = latest /\ contested' = contested
          /\ overlapped' = overlapped \ {th}
          /\ body[th] \notin TokenData
      BY <2>3 DEF Hit, ClientError, Throw, Locals, Answers, TokenData
    <3>3. NoToken \notin TokenData
      BY DEF Answers
    <3>4. RivalsOverlap' /\ EmptyOrContested' /\ BodyIsLatest'
      BY <3>1, <3>2, <3>3, KeptAlive
    <3>5. HeldIsLatest'
      BY <3>1, <3>2, <3>3, KeptAlive
    <3>6. LatestAnswerCached'
      BY <3>1, <3>2, KeptAlive
    <3> QED BY <3>4, <3>5, <3>6
  <2>4. ASSUME NEW th \in Threads, SeeExpired(th)
        PROVE  Freshness'
    BY <2>4 DEF SeeExpired
  <2>5. ASSUME NEW th \in Threads, Remove(th)
        PROVE  Freshness'
    <3>1. RivalsOverlap'
      BY <2>5 DEF Remove, BeginRefresh, Rivals
    <3>2. EmptyOrContested' /\ BodyIsLatest'
      BY <2>5 DEF Remove, BeginRefresh, Rivals
    <3>3. HeldIsLatest'
      BY <2>5 DEF Remove, BeginRefresh, Rivals
    <3>4. LatestAnswerCached'
      BY <2>5 DEF Remove
    <3> QED BY <3>1, <3>2, <3>3, <3>4
  <2>6. ASSUME NEW th \in Threads, Respond(th) \/ RespondFault(th)
        PROVE  Freshness'
    <3>1. PICK d \in TokenData : Say(th, d)
      BY <2>6 DEF Respond, RespondFault, TokenData
    <3>2. /\ pc[th] = "request" /\ pc' = [pc EXCEPT ![th] = "reply"]
          /\ UNCHANGED <<cache, heap, token, cached, overlapped, contested>>
      BY <2>6 DEF Respond, RespondFault
    <3>3. RivalsOverlap' /\ EmptyOrContested'
      BY <3>2
    <3>4. BodyIsLatest'
      BY <3>1, <3>2, RivalsOverlap DEF Say, Locals, Answers
    <3>5. HeldIsLatest'
      BY <3>1, <3>2 DEF Say
    <3>6. LatestAnswerCached'
      \* th is refreshing: its slot is empty or contested.
      BY <3>1, <3>2 DEF Say
    <3> QED BY <3>3, <3>4, <3>5, <3>6
  <2>7. ASSUME NEW th \in Threads, Break(th)
        PROVE  Freshness'
    <3>1. \A e \in Entries : heap'[e].tokenData = heap[e].tokenData
      BY <2>7 DEF Break, CacheEntry
    <3>2. body'[th] \notin TokenData /\ body[th] \notin TokenData
      BY <2>7 DEF Break, Locals, Answers
    <3>3. /\ pc[th] = "request" /\ pc' = [pc EXCEPT ![th] = "reply"]
          /\ UNCHANGED <<cache, token, cached, latest, overlapped, contested>>
          /\ \A u \in Threads \ {th} : body'[u] = body[u]
      BY <2>7 DEF Break
    <3>4. RivalsOverlap' /\ EmptyOrContested' /\ BodyIsLatest'
      BY <3>2, <3>3
    <3>5. HeldIsLatest'
      BY <3>1, <3>2, <3>3
    <3>6. LatestAnswerCached'
      BY <3>1, <3>3
    <3> QED BY <3>4, <3>5, <3>6
  <2>8. ASSUME NEW th \in Threads, Store(th)
        PROVE  Freshness'
    <3> DEFINE h == [heap EXCEPT ![Fresh] = NewEntry(body[th])]
    <3>1. Return(th, body[th], h) /\ Fresh \in Entries \ InUse
      BY <2>8, FreshEntry DEF Store
    <3>2. /\ \A u \in Threads : cached[u] # NoEntry
                                   => h[cached[u]] = heap[cached[u]]
          /\ \A t \in Tokens : cache[t] # NoEntry
                                   => h[cache[t]] = heap[cache[t]]
          /\ h[Fresh].tokenData = body[th]
      BY <3>1 DEF InUse, NewEntry
    <3>3. /\ pc[th] = "reply" /\ body[th] \in TokenData
          /\ token[th] \in Tokens
          /\ cache' = [cache EXCEPT ![token[th]] = Fresh]
          /\ overlapped' = (overlapped \union Rivals(th, token[th])) \ {th}
          /\ contested' = IF th \in overlapped
                          THEN contested \union {token[th]}
                          ELSE contested \ {token[th]}
          /\ latest' = latest
      BY <2>8 DEF Store, EndRefresh
    <3>4. NoToken \notin TokenData
      BY DEF Answers
    <3> HIDE DEF h
    <3>5. \A u \in Threads \ {th} :
             token[u] = token[th] => u \in overlapped'
      BY <3>3 DEF Rivals
    <3>6. RivalsOverlap'
      BY <3>1, <3>3, KeptAlive
    <3>7. EmptyOrContested'
      \* A rival that refreshes too has been seen by th.
      BY <3>1, <3>3, KeptAlive
    <3>8. BodyIsLatest'
      BY <3>1, <3>3, <3>4, KeptAlive
    <3>9. HeldIsLatest'
      <4> SUFFICES ASSUME NEW u \in Threads,
                          cached'[u] # NoEntry, u \notin overlapped',
                          token'[u] \notin contested', NoNews(token[u])'
                   PROVE  heap'[cached'[u]].tokenData = latest'[token'[u]]
        BY DEF NoNews
      <4>1. u # th /\ cached'[u] = cached[u] /\ token'[u] = token[u]
        BY <3>1, KeptAlive
      <4>2. token[u] # token[th]
        BY <3>5, <4>1
      <4>3. NoNews(token[u])
        BY <3>1, <4>1, <4>2, KeptAlive
      <4>4. token[u] \notin contested /\ u \notin overlapped
        BY <3>3, <4>1, <4>2
      <4>5. heap'[cached'[u]].tokenData = heap[cached[u]].tokenData
        BY <3>1, <3>2, <4>1, KeptAlive
      <4> QED BY <3>3, <4>1, <4>3, <4>4, <4>5
    <3>10. LatestAnswerCached'
      <4> SUFFICES ASSUME NEW t \in Tokens,
                          cache'[t] # NoEntry, t \notin contested'
                   PROVE  heap'[cache'[t]].tokenData = latest'[t]
        OBVIOUS
      <4>1. heap'[cache'[t]] = h[cache'[t]]
        BY <3>1, <3>3, KeptAlive
      <4>2. CASE t = token[th]
        BY <3>2, <3>3, <4>1, <4>2
      <4>3. CASE t # token[th]
        BY <3>2, <3>3, <4>1, <4>3
      <4> QED BY <4>2, <4>3
    <3> QED BY <3>6, <3>7, <3>8, <3>9, <3>10
  <2>9. ASSUME NEW th \in Threads, Extend(th)
        PROVE  Freshness'
    <3>1. \A e \in Entries : heap'[e].tokenData = heap[e].tokenData
      BY <2>9 DEF Extend, CacheEntry
    <3>2. /\ pc[th] = "reply" /\ pc' = [pc EXCEPT ![th] = "extended"]
          /\ UNCHANGED <<cache, token, cached, body, latest, overlapped,
                         contested>>
      BY <2>9 DEF Extend
    <3> QED BY <3>1, <3>2
  <2>10. ASSUME NEW th \in Threads, Restore(th)
         PROVE  Freshness'
    <3> DEFINE h == [heap EXCEPT ![cached[th]].published =
                                     heap[cached[th]].age]
    <3>1. Return(th, heap[cached[th]].tokenData, h)
      BY <2>10 DEF Restore
    <3>2. \A e \in Entries : h[e].tokenData = heap[e].tokenData
      BY DEF CacheEntry
    <3>3. /\ pc[th] = "extended" /\ body[th] = "garbage"
          /\ token[th] \in Tokens /\ cached[th] \in Entries
          /\ cache' = [cache EXCEPT ![token[th]] = cached[th]]
          /\ overlapped' = (overlapped \union Rivals(th, token[th])) \ {th}
          /\ contested' = IF th \in overlapped
                          THEN contested \union {token[th]}
                          ELSE contested
          /\ latest' = latest
      BY <2>10, EntriesAssumption DEF Restore, EndRefresh, Locals
    <3>4. NoToken \notin TokenData /\ "garbage" \notin TokenData
      BY DEF Answers, TokenData
    <3> HIDE DEF h
    <3>5. \A u \in Threads \ {th} :
             token[u] = token[th] => u \in overlapped'
      BY <3>3 DEF Rivals
    <3>6. RivalsOverlap'
      BY <3>1, <3>3, KeptAlive
    <3>7. EmptyOrContested'
      BY <3>1, <3>3, KeptAlive
    <3>8. BodyIsLatest'
      BY <3>1, <3>3, <3>4, KeptAlive
    <3>9. HeldIsLatest'
      <4> SUFFICES ASSUME NEW u \in Threads,
                          cached'[u] # NoEntry, u \notin overlapped',
                          token'[u] \notin contested', NoNews(token[u])'
                   PROVE  heap'[cached'[u]].tokenData = latest'[token'[u]]
        BY DEF NoNews
      <4>1. u # th /\ cached'[u] = cached[u] /\ token'[u] = token[u]
        BY <3>1, KeptAlive
      <4>2. token[u] # token[th]
        BY <3>5, <4>1
      <4>3. NoNews(token[u])
        BY <3>1, <4>1, <4>2, KeptAlive
      <4>4. token[u] \notin contested /\ u \notin overlapped
        BY <3>3, <4>1, <4>2
      <4>5. heap'[cached'[u]].tokenData = heap[cached[u]].tokenData
        BY <3>1, <3>2, <4>1, KeptAlive
      <4> QED BY <3>3, <4>1, <4>3, <4>4, <4>5
    <3>10. LatestAnswerCached'
      <4> SUFFICES ASSUME NEW t \in Tokens,
                          cache'[t] # NoEntry, t \notin contested'
                   PROVE  heap'[cache'[t]].tokenData = latest'[t]
        OBVIOUS
      <4>1. heap'[cache'[t]].tokenData = heap[cache'[t]].tokenData
        BY <3>1, <3>2, <3>3, KeptAlive
      <4>2. CASE t = token[th]
        <5>1. th \notin overlapped /\ t \notin contested
          BY <3>3, <4>2
        <5>2. NoNews(t)
          \* A rival with a verdict in hand would have overlapped th.
          <6> SUFFICES ASSUME NEW u \in Threads, body[u] \in TokenData,
                              token[u] = t
                       PROVE  FALSE
            OBVIOUS
          <6>1. u # th
            BY <3>3, <3>4
          <6>2. Refreshing(u)
            BY <3>4 DEF Locals
          <6> QED BY <3>3, <4>2, <5>1, <6>1, <6>2
        <5> QED BY <3>3, <4>1, <4>2, <5>1, <5>2, EntriesAssumption
      <4>3. CASE t # token[th]
        BY <3>3, <4>1, <4>3
      <4> QED BY <4>2, <4>3
    <3> QED BY <3>6, <3>7, <3>8, <3>9, <3>10
  <2>11. CASE Tick
    <3>1. \A e \in Entries : heap'[e].tokenData = heap[e].tokenData
      BY <2>11, TickKeepsData
    <3>2. UNCHANGED <<cache, pc, token, cached, body, latest, overlapped,
                      contested>>
      BY <2>11 DEF Tick
    <3> QED BY <3>1, <3>2
  <2>12. ASSUME NEW c \in Credentials, Change(c)
         PROVE  Freshness'
    BY <2>12 DEF Change
  <2>13. CASE UNCHANGED vars
    BY <2>13 DEF vars
  <2> QED BY <2>1, <2>2, <2>3, <2>4, <2>5, <2>6, <2>7, <2>8, <2>9, <2>10,
             <2>11, <2>12, <2>13 DEF Next, Call, Answered, Step
<1> QED BY <1>1, <1>2, TypeCorrect, PTL DEF Spec, Freshness

----------------------------------------------------------------------------
\* Whatever a call holds, finds or returns, the portal has said it about the
\* credential of that token, under every interleaving.
THEOREM AnswersAreTold == Spec => []DataWasTold
<1>1. Init => DataWasTold
  BY NoTokenAssumption DEF Init, DataWasTold, Answers
<1>2. WellTyped /\ DataWasTold /\ [Next]_vars => DataWasTold'
  <2> SUFFICES ASSUME WellTyped, DataWasTold, [Next]_vars
               PROVE  DataWasTold'
    OBVIOUS
  <2> USE NoTokenAssumption, BearerAssumption
      DEF WellTyped, TypeOK, DataWasTold
  <2>1. ASSUME NEW th \in Threads, NEW t \in Tokens, Found(th, t)
        PROVE  DataWasTold'
    BY <2>1 DEF Found, Locals, Answers
  <2>2. ASSUME NEW th \in Threads, NEW t \in Tokens, Missed(th, t)
        PROVE  DataWasTold'
    BY <2>2 DEF Missed, Locals, Answers
  <2>3. ASSUME NEW th \in Threads,
               Hit(th) \/ ClientError(th) \/ Throw(th)
        PROVE  DataWasTold'
    <3>1. PICK r : Return(th, r, heap)
      BY <2>3 DEF Hit, ClientError, Throw
    <3>2. cache' = cache /\ told' = told /\ NoToken \notin TokenData
      BY <2>3 DEF Hit, ClientError, Throw, Answers
    <3> QED BY <3>1, <3>2, KeptAlive
  <2>4. ASSUME NEW th \in Threads, SeeExpired(th)
        PROVE  DataWasTold'
    BY <2>4 DEF SeeExpired
  <2>5. ASSUME NEW th \in Threads, Remove(th)
        PROVE  DataWasTold'
    BY <2>5 DEF Remove
  <2>6. ASSUME NEW th \in Threads, Respond(th) \/ RespondFault(th)
        PROVE  DataWasTold'
    <3>1. PICK d \in TokenData : Say(th, d)
      BY <2>6 DEF Respond, RespondFault, TokenData
    <3>2. token[th] \in Tokens /\ UNCHANGED <<cache, heap, token, cached>>
      BY <2>6 DEF Respond, RespondFault
    <3>3. \A c \in Credentials : told[c] \subseteq told'[c]
      BY <3>1, <3>2 DEF Say
    <3>4. d \in told'[Bearer[token[th]]]
      BY <3>1, <3>2 DEF Say
    <3>5. \A u \in Threads : body[u] \in TokenData => token[u] \in Tokens
      BY DEF Locals, Answers
    <3>6. \A u \in Threads : cached[u] # NoEntry => token[u] \in Tokens
      BY DEF Locals
    <3>7. \A u \in Threads : body'[u] \in TokenData
                                => body'[u] \in told'[Bearer[token'[u]]]
      BY <3>1, <3>2, <3>3, <3>4, <3>5 DEF Say
    <3> QED BY <3>2, <3>3, <3>6, <3>7
  <2>7. ASSUME NEW th \in Threads, Break(th)
        PROVE  DataWasTold'
    <3>1. \A e \in Entries : heap'[e].tokenData = heap[e].tokenData
      BY <2>7 DEF Break, CacheEntry
    <3>2. /\ body'[th] \notin TokenData
          /\ UNCHANGED <<cache, token, cached, told>>
          /\ \A u \in Threads \ {th} : body'[u] = body[u]
      BY <2>7 DEF Break
    <3> QED BY <3>1, <3>2
  <2>8. ASSUME NEW th \in Threads, Store(th)
        PROVE  DataWasTold'
    <3> DEFINE h == [heap EXCEPT ![Fresh] = NewEntry(body[th])]
    <3>1. Return(th, body[th], h) /\ Fresh \in Entries \ InUse
      BY <2>8, FreshEntry DEF Store
    <3>2. /\ \A u \in Threads : cached[u] # NoEntry
                                   => h[cached[u]] = heap[cached[u]]
          /\ \A t \in Tokens : cache[t] # NoEntry
                                   => h[cache[t]] = heap[cache[t]]
          /\ h[Fresh].tokenData = body[th]
      BY <3>1 DEF InUse, NewEntry
    <3>3. /\ body[th] \in TokenData /\ token[th] \in Tokens
          /\ cache' = [cache EXCEPT ![token[th]] = Fresh]
          /\ told' = told
      BY <2>8 DEF Store
    <3>4. NoToken \notin TokenData
      BY DEF Answers
    <3> HIDE DEF h
    <3>5. ASSUME NEW t \in Tokens, cache'[t] # NoEntry
          PROVE  heap'[cache'[t]].tokenData \in told'[Bearer[t]]
      <4>1. heap'[cache'[t]] = h[cache'[t]]
        BY <3>1, <3>3, <3>5, KeptAlive
      <4>2. CASE t = token[th]
        BY <3>2, <3>3, <4>1, <4>2
      <4>3. CASE t # token[th]
        BY <3>2, <3>3, <3>5, <4>1, <4>3
      <4> QED BY <4>2, <4>3
    <3> QED BY <3>1, <3>2, <3>3, <3>4, <3>5, KeptAlive
  <2>9. ASSUME NEW th \in Threads, Extend(th)
        PROVE  DataWasTold'
    <3>1. \A e \in Entries : heap'[e].tokenData = heap[e].tokenData
      BY <2>9 DEF Extend, CacheEntry
    <3>2. UNCHANGED <<cache, token, cached, body, told>>
      BY <2>9 DEF Extend
    <3> QED BY <3>1, <3>2
  <2>10. ASSUME NEW th \in Threads, Restore(th)
         PROVE  DataWasTold'
    <3> DEFINE h == [heap EXCEPT ![cached[th]].published =
                                     heap[cached[th]].age]
    <3>1. Return(th, heap[cached[th]].tokenData, h)
      BY <2>10 DEF Restore
    <3>2. \A e \in Entries : h[e].tokenData = heap[e].tokenData
      BY DEF CacheEntry
    <3>3. /\ token[th] \in Tokens /\ cached[th] \in Entries
          /\ cache' = [cache EXCEPT ![token[th]] = cached[th]]
          /\ told' = told
      BY <2>10, EntriesAssumption DEF Restore, Locals
    <3>4. NoToken \notin TokenData
      BY DEF Answers
    <3> HIDE DEF h
    <3>5. ASSUME NEW t \in Tokens, cache'[t] # NoEntry
          PROVE  heap'[cache'[t]].tokenData \in told'[Bearer[t]]
      <4>1. heap'[cache'[t]].tokenData = heap[cache'[t]].tokenData
        BY <3>1, <3>2, <3>3, <3>5, KeptAlive
      <4>2. CASE t = token[th]
        BY <3>3, <4>1, <4>2, EntriesAssumption
      <4>3. CASE t # token[th]
        BY <3>3, <3>5, <4>1, <4>3
      <4> QED BY <4>2, <4>3
    <3>6. ASSUME NEW u \in Threads \ {th}, cached[u] # NoEntry
          PROVE  heap'[cached[u]].tokenData = heap[cached[u]].tokenData
      BY <3>1, <3>2, <3>6, KeptAlive
    <3> QED BY <3>1, <3>3, <3>4, <3>5, <3>6, KeptAlive
  <2>11. CASE Tick
    <3>1. \A e \in Entries : heap'[e].tokenData = heap[e].tokenData
      BY <2>11, TickKeepsData
    <3>2. UNCHANGED <<cache, token, cached, body, told>>
      BY <2>11 DEF Tick
    <3> QED BY <3>1, <3>2
  <2>12. ASSUME NEW c \in Credentials, Change(c)
         PROVE  DataWasTold'
    BY <2>12 DEF Change
  <2>13. CASE UNCHANGED vars
    BY <2>13 DEF vars
  <2> QED BY <2>1, <2>2, <2>3, <2>4, <2>5, <2>6, <2>7, <2>8, <2>9, <2>10,
             <2>11, <2>12, <2>13 DEF Next, Call, Answered, Step
<1> QED BY <1>1, <1>2, TypeCorrect, PTL DEF Spec

----------------------------------------------------------------------------
(* The cache implements TokenOracle.                                       *)

\* What TokenOracle takes for the calls in trouble.
Troubled == {th \in Threads : body[th] \in Answers \ TokenData}

THEOREM CacheImplementsOracle == Spec => PortalIsTheSource
<1> USE DEF Oracle!vars
<1>1. Init => Oracle!Init
  BY NoTokenAssumption DEF Init, Oracle!Init
<1>2. WellTyped /\ DataWasTold /\ [Next]_vars => [Oracle!Next]_(Oracle!vars)
  <2> SUFFICES ASSUME WellTyped, DataWasTold, [Next]_vars
               PROVE  [Oracle!Next]_(Oracle!vars)
    OBVIOUS
  <2> USE NoTokenAssumption, BearerAssumption, TokensAssumption
      DEF WellTyped, TypeOK, Troubled
  <2>1. ASSUME NEW th \in Threads, NEW t \in Tokens,
               Found(th, t) \/ Missed(th, t)
        PROVE  Oracle!Ask(th, t)
    BY <2>1 DEF Found, Missed, Continue, Locals, Oracle!Ask
  <2>2. ASSUME NEW th \in Threads,
               \/ SeeExpired(th) \/ Remove(th) \/ Extend(th)
        PROVE  Oracle!Settle
    BY <2>2 DEF SeeExpired, Remove, Extend, Continue, Oracle!Settle
  <2>3. ASSUME NEW th \in Threads, Respond(th) \/ RespondFault(th)
        PROVE  \E d \in TokenData : Oracle!Learn(Bearer[token[th]], d)
    <3>1. PICK d \in TokenData : Say(th, d)
      BY <2>3 DEF Respond, RespondFault, TokenData
    <3>2. /\ body[th] = NoToken /\ Continue /\ token' = token
          /\ body' = [body EXCEPT ![th] = d]
      BY <2>3, <3>1 DEF Respond, RespondFault, Locals, Say
    <3>3. Troubled' = Troubled
      BY <3>2
    <3> QED BY <3>1, <3>2, <3>3 DEF Say, Continue, Oracle!Learn
  <2>4. ASSUME NEW th \in Threads, Break(th)
        PROVE  Oracle!Trouble(th)
    <3>1. PICK b \in Answers \ TokenData : body' = [body EXCEPT ![th] = b]
      BY <2>4 DEF Break
    <3>2. Troubled' = Troubled \union {th}
      BY <3>1
    <3> QED BY <2>4, <3>2 DEF Break, Continue, Oracle!Trouble
  <2>5. ASSUME NEW th \in Threads, NEW r, NEW h, Return(th, r, h)
        PROVE  /\ answer' = [thread |-> th, is |-> r]
               /\ token' = [token EXCEPT ![th] = NoToken]
               /\ Troubled' = Troubled \ {th}
    BY <2>5 DEF Return
  <2>6. ASSUME NEW th \in Threads, Hit(th) \/ Store(th) \/ Restore(th)
        PROVE  Oracle!Answer(th)
    <3>1. PICK r, h : Return(th, r, h) /\ r \in told[Bearer[token[th]]]
      <4>1. CASE Hit(th)
        BY <4>1, EntriesAssumption DEF Hit, DataWasTold
      <4>2. CASE Store(th)
        BY <4>2 DEF Store, DataWasTold
      <4>3. CASE Restore(th)
        BY <4>3, EntriesAssumption DEF Restore, DataWasTold
      <4> QED BY <2>6, <4>1, <4>2, <4>3
    <3>2. token[th] # NoToken /\ told' = told
      BY <2>6 DEF Hit, Store, Restore
    <3> QED BY <2>5, <3>1, <3>2 DEF Oracle!Answer
  <2>7. ASSUME NEW th \in Threads, ClientError(th) \/ Throw(th)
        PROVE  Oracle!Fail(th)
    <3>1. PICK r \in Failures : Return(th, r, heap)
      BY <2>7 DEF ClientError, Throw, Failures
    <3>2. token[th] # NoToken /\ told' = told /\ th \in Troubled
      BY <2>7 DEF ClientError, Throw, Answers, TokenData
    <3> QED BY <2>5, <3>1, <3>2 DEF Oracle!Fail
  <2>8. CASE Tick
    BY <2>8 DEF Tick, Continue, Oracle!Settle, Oracle!Next
  <2>9. ASSUME NEW c \in Credentials, Change(c)
        PROVE  Oracle!Settle
    BY <2>9 DEF Change, Continue, Oracle!Settle
  <2>10. CASE UNCHANGED vars
    BY <2>10 DEF vars
  <2>11. ASSUME NEW th \in Threads, Respond(th) \/ RespondFault(th)
         PROVE  Oracle!Next
    <3>1. Bearer[token[th]] \in Credentials
      BY <2>11 DEF Respond, RespondFault
    <3> QED BY <2>3, <2>11, <3>1 DEF Oracle!Next
  <2> QED BY <2>1, <2>2, <2>4, <2>6, <2>7, <2>8, <2>9, <2>10, <2>11
          DEF Next, Call, Answered, Step, Oracle!Next
<1> QED BY <1>1, <1>2, TypeCorrect, AnswersAreTold, PTL
        DEF Spec, PortalIsTheSource, Oracle!Spec
=============================================================================
