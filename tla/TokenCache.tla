----------------------------- MODULE TokenCache -----------------------------
(***************************************************************************)
(* PortalWSClient.getTokenData: a process-wide ConcurrentHashMap in front  *)
(* of the portal's /authorization resource, used by any number of threads. *)
(* The map's operations are atomic, the method is not: a call reads the    *)
(* map, decides, removes, asks the portal and writes back in separate      *)
(* steps, and the CacheEntry it read stays shared with every other call    *)
(* that read it.  A step of this module is one access to the map or to the *)
(* entry's timestamp, or one exchange with the portal.                     *)
(*                                                                         *)
(* Time is the age of an entry (now - timestamp) in ticks, saturated just  *)
(* above CacheDuration, where isExpired() no longer changes its answer.    *)
(***************************************************************************)
EXTENDS Naturals, FiniteSets

CONSTANTS Threads,        \* threads that call getTokenData
          Tokens,         \* the strings callers pass: the keys of the map
          Credentials,    \* what the portal sees after the "Bearer " prefix
          Bearer,         \* Bearer[t]: the credential sent for the string t
          Entries,        \* heap addresses of CacheEntry objects
          NoEntry,        \* a null reference
          NoToken,        \* no call in progress, no answer yet
          CacheDuration   \* CACHE_DURATION_MS, in ticks

ASSUME ThreadsAssumption == IsFiniteSet(Threads)
ASSUME TokensAssumption == IsFiniteSet(Tokens) /\ NoToken \notin Tokens
ASSUME BearerAssumption == Bearer \in [Tokens -> Credentials]
\* There is always an address no thread and no slot of the map refers to.
ASSUME EntriesAssumption ==
    /\ IsFiniteSet(Entries)
    /\ NoEntry \notin Entries
    /\ Cardinality(Entries) > Cardinality(Threads) + Cardinality(Tokens)
ASSUME CacheDurationAssumption == CacheDuration \in Nat

----------------------------------------------------------------------------
(* What an answer can be: a TokenData that grants, one that does not; a    *)
(* body Jackson rejects with an IOException ("garbage"); or a body on      *)
(* which getTokenData throws something else ("null"): a transport failure, *)
(* which readUrlToken turns into null, or the JSON document null.          *)
TokenData == {"granted", "denied"}
Answers   == TokenData \union {"garbage", "null"}
Failures  == {"client error", "exception"}
Results   == TokenData \union Failures
Nothing   == [thread |-> NoToken, is |-> NoToken]  \* nobody got an answer

ASSUME NoTokenAssumption == NoToken \notin Answers \union Results

Ages == 0 .. CacheDuration + 1
Older(a) == IF a > CacheDuration THEN a ELSE a + 1
Expired(a) == a > CacheDuration

\* A CacheEntry.  age is what its timestamp says; published is what the
\* timestamp said when the entry was last put into the map, which is all that
\* a thread reading the plain field is sure to see.  History: since counts the
\* ticks since the entry was constructed, excused says that a refresh of it
\* met an unreadable answer.
CacheEntry == [tokenData : TokenData, age : Ages, published : Ages,
               since : Ages, excused : BOOLEAN]
NewEntry(d) == [tokenData |-> d, age |-> 0, published |-> 0,
                since |-> 0, excused |-> FALSE]
\* What an address holds that nobody refers to.
NoObject == [tokenData |-> "denied", age |-> CacheDuration + 1,
             published |-> CacheDuration + 1, since |-> CacheDuration + 1,
             excused |-> FALSE]

VARIABLES
    \* the program
    cache,     \* the map: cache[t] is a reference or NoEntry
    heap,      \* the CacheEntry objects
    pc,        \* where each thread is in getTokenData
    token,     \* the parameter, NoToken outside a call
    cached,    \* the local variable of that name
    seen,      \* the oldest age of cached that isExpired() may still read
    body,      \* jsonData, NoToken before it is there
    answer,    \* what the step just taken returned or threw to its caller
    \* the portal
    granted,   \* granted[c]: whether the portal would grant c now
    \* history
    told,      \* told[c]: what the portal has said about c
    latest,    \* latest[t]: what the portal last said to a call for t
    overlapped,\* calls that another refresh of the same token ran into
    contested  \* tokens whose entry such a call wrote, or wrote back

vars == <<cache, heap, pc, token, cached, seen, body, answer,
          granted, told, latest, overlapped, contested>>

Locations == {"idle", "got", "expired", "request", "reply", "extended"}

TypeOK ==
    /\ cache \in [Tokens -> Entries \union {NoEntry}]
    /\ heap \in [Entries -> CacheEntry]
    /\ pc \in [Threads -> Locations]
    /\ token \in [Threads -> Tokens \union {NoToken}]
    /\ \A th \in Threads : pc[th] # "idle" => token[th] \in Tokens
    /\ cached \in [Threads -> Entries \union {NoEntry}]
    /\ \A th \in Threads :
          pc[th] \in {"got", "expired", "extended"} => cached[th] \in Entries
    /\ seen \in [Threads -> Ages]
    /\ body \in [Threads -> Answers \union {NoToken}]
    /\ \A th \in Threads : pc[th] = "reply" => body[th] \in Answers
    /\ answer \in [thread : Threads, is : Results] \union {Nothing}
    /\ granted \in [Credentials -> BOOLEAN]
    /\ told \in [Credentials -> SUBSET TokenData]
    /\ latest \in [Tokens -> TokenData \union {NoToken}]
    /\ overlapped \subseteq Threads
    /\ contested \subseteq Tokens

Init ==
    /\ cache = [t \in Tokens |-> NoEntry]
    /\ heap = [e \in Entries |-> NoObject]
    /\ pc = [th \in Threads |-> "idle"]
    /\ token = [th \in Threads |-> NoToken]
    /\ cached = [th \in Threads |-> NoEntry]
    /\ seen = [th \in Threads |-> 0]
    /\ body = [th \in Threads |-> NoToken]
    /\ answer = Nothing
    /\ granted \in [Credentials -> BOOLEAN]
    /\ told = [c \in Credentials |-> {}]
    /\ latest = [t \in Tokens |-> NoToken]
    /\ overlapped = {}
    /\ contested = {}

----------------------------------------------------------------------------
(* Bookkeeping of who ran into whom.  A refresh lasts from the step that   *)
(* leaves the map without the token (a miss, or the removal) to the return.*)
Refreshing(th) == pc[th] \in {"request", "reply", "extended"}
\* The other calls for t that are under way.
Rivals(th, t) == {u \in Threads \ {th} : token[u] = t}

\* th starts a refresh of t.
BeginRefresh(th, t) ==
    LET busy == {u \in Rivals(th, t) : Refreshing(u)}
    IN  overlapped' = overlapped \union busy
                                 \union (IF busy = {} THEN {} ELSE {th})

\* th writes the map and returns: every other call for the token, even one
\* that has only looked, has been run into.
EndRefresh(th) ==
    overlapped' = (overlapped \union Rivals(th, token[th])) \ {th}

\* The CacheEntry objects somebody refers to.
InUse == {cache[t] : t \in Tokens} \union {cached[th] : th \in Threads}

\* The call of th ends with r.  Its local variables go, and with them the
\* objects of heap h that nobody else refers to.
Return(th, r, h) ==
    /\ answer' = [thread |-> th, is |-> r]
    /\ pc' = [pc EXCEPT ![th] = "idle"]
    /\ token' = [token EXCEPT ![th] = NoToken]
    /\ cached' = [cached EXCEPT ![th] = NoEntry]
    /\ seen' = [seen EXCEPT ![th] = 0]
    /\ body' = [body EXCEPT ![th] = NoToken]
    /\ heap' = [e \in Entries |-> IF e \in InUse' THEN h[e]
                                  ELSE NoObject]

\* The step returns to nobody.
Continue == answer' = Nothing

----------------------------------------------------------------------------
(* getTokenData, one action per step.                                      *)

\* CacheEntry cached = cache.get(token), when there is one.
Found(th, t) ==
    /\ pc[th] = "idle"
    /\ cache[t] # NoEntry
    /\ pc' = [pc EXCEPT ![th] = "got"]
    /\ token' = [token EXCEPT ![th] = t]
    /\ cached' = [cached EXCEPT ![th] = cache[t]]
    /\ seen' = [seen EXCEPT ![th] = heap[cache[t]].published]
    /\ Continue
    /\ UNCHANGED <<cache, heap, body, granted,
                   told, latest, overlapped, contested>>

\* The same when there is none: straight on to the request.
Missed(th, t) ==
    /\ pc[th] = "idle"
    /\ cache[t] = NoEntry
    /\ pc' = [pc EXCEPT ![th] = "request"]
    /\ token' = [token EXCEPT ![th] = t]
    /\ BeginRefresh(th, t)
    /\ Continue
    /\ UNCHANGED <<cache, heap, cached, seen, body, granted,
                   told, latest, contested>>

\* A fault for the sensitivity checks: a hit makes the entry young again.
SlidingHit(th) ==
    /\ pc[th] = "got"
    /\ ~Expired(heap[cached[th]].age)
    /\ UNCHANGED <<cache, granted, told, latest, contested>>
    /\ Return(th, heap[cached[th]].tokenData,
              [heap EXCEPT ![cached[th]].age = 0, ![cached[th]].published = 0])
    /\ overlapped' = overlapped \ {th}

\* !cached.isExpired(): the entry's data is the answer.
Hit(th) ==
    /\ pc[th] = "got"
    /\ ~Expired(heap[cached[th]].age)
    /\ UNCHANGED <<cache, granted, told, latest, contested>>
    /\ Return(th, heap[cached[th]].tokenData, heap)
    /\ overlapped' = overlapped \ {th}

\* cached.isExpired(), on the timestamp itself or on an older value of it
\* that the plain field may still show this thread.
SeeExpired(th) ==
    /\ pc[th] = "got"
    /\ Expired(seen[th])
    /\ pc' = [pc EXCEPT ![th] = "expired"]
    /\ Continue
    /\ UNCHANGED <<cache, heap, token, cached, seen, body, granted,
                   told, latest, overlapped, contested>>

\* A fault for the sensitivity checks: the expired entry stays in the map.
ForgetfulRemove(th) ==
    /\ pc[th] = "expired"
    /\ pc' = [pc EXCEPT ![th] = "request"]
    /\ seen' = [seen EXCEPT ![th] = 0]
    /\ BeginRefresh(th, token[th])
    /\ Continue
    /\ UNCHANGED <<cache, heap, token, cached, body, granted,
                   told, latest, contested>>

\* cache.remove(token): whatever entry is there by now.
Remove(th) ==
    /\ pc[th] = "expired"
    /\ cache' = [cache EXCEPT ![token[th]] = NoEntry]
    /\ pc' = [pc EXCEPT ![th] = "request"]
    /\ seen' = [seen EXCEPT ![th] = 0]
    /\ BeginRefresh(th, token[th])
    /\ Continue
    /\ UNCHANGED <<heap, token, cached, body, granted,
                   told, latest, contested>>

\* The portal answers d about the credential; th has not acted on it yet.
Say(th, d) ==
    /\ body' = [body EXCEPT ![th] = d]
    /\ told' = [told EXCEPT ![Bearer[token[th]]] = @ \union {d}]
    /\ latest' = [latest EXCEPT ![token[th]] = d]

\* readUrlToken comes back with the portal's verdict of this moment.
Respond(th) ==
    /\ pc[th] = "request"
    /\ Say(th, IF granted[Bearer[token[th]]] THEN "granted" ELSE "denied")
    /\ pc' = [pc EXCEPT ![th] = "reply"]
    /\ Continue
    /\ UNCHANGED <<cache, heap, token, cached, seen, granted,
                   overlapped, contested>>

\* It comes back with an HTTP error whose body is JSON.  The status is never
\* looked at and unknown properties are ignored: the document reads as a
\* TokenData that is not authenticated, whatever the credential is worth.
RespondFault(th) ==
    /\ pc[th] = "request"
    /\ Say(th, "denied")
    /\ pc' = [pc EXCEPT ![th] = "reply"]
    /\ Continue
    /\ UNCHANGED <<cache, heap, token, cached, seen, granted,
                   overlapped, contested>>

\* It comes back with something that is no TokenData, or does not come back.
Break(th) ==
    /\ pc[th] = "request"
    /\ \E b \in Answers \ TokenData :
          /\ body' = [body EXCEPT ![th] = b]
          /\ heap' = IF b = "garbage" /\ cached[th] # NoEntry
                     THEN [heap EXCEPT ![cached[th]].excused = TRUE]
                     ELSE heap
    /\ pc' = [pc EXCEPT ![th] = "reply"]
    /\ Continue
    /\ UNCHANGED <<cache, token, cached, seen, granted,
                   told, latest, overlapped, contested>>

\* An address nobody refers to; new CacheEntry(...) gets one from the JVM.
Fresh == CHOOSE e \in Entries : e \notin InUse

\* A fault for the sensitivity checks: the fresh answer is cached, and not returned.
StoreWithoutReturn(th) ==
    /\ pc[th] = "reply"
    /\ body[th] \in TokenData
    /\ cache' = [cache EXCEPT ![token[th]] = Fresh]
    /\ Return(th, "client error", [heap EXCEPT ![Fresh] = NewEntry(body[th])])
    /\ EndRefresh(th)
    /\ contested' = IF th \in overlapped THEN contested \union {token[th]}
                                         ELSE contested \ {token[th]}
    /\ UNCHANGED <<granted, told, latest>>

\* cache.put(token, new CacheEntry(tokenData)); return tokenData.
Store(th) ==
    /\ pc[th] = "reply"
    /\ body[th] \in TokenData
    /\ cache' = [cache EXCEPT ![token[th]] = Fresh]
    /\ Return(th, body[th], [heap EXCEPT ![Fresh] = NewEntry(body[th])])
    /\ EndRefresh(th)
    /\ contested' = IF th \in overlapped THEN contested \union {token[th]}
                                         ELSE contested \ {token[th]}
    /\ UNCHANGED <<granted, told, latest>>

\* A fault for the sensitivity checks: extend() with no entry to extend.
UnguardedExtend(th) ==
    /\ pc[th] = "reply"
    /\ body[th] = "garbage"
    /\ heap' = IF cached[th] = NoEntry THEN heap
               ELSE [heap EXCEPT ![cached[th]].age = 0]
    /\ pc' = [pc EXCEPT ![th] = "extended"]
    /\ Continue
    /\ UNCHANGED <<cache, token, cached, seen, body, granted,
                   told, latest, overlapped, contested>>

\* catch (IOException e), with a cached entry: cached.extend() ...
Extend(th) ==
    /\ pc[th] = "reply"
    /\ body[th] = "garbage"
    /\ cached[th] # NoEntry
    /\ heap' = [heap EXCEPT ![cached[th]].age = 0]
    /\ pc' = [pc EXCEPT ![th] = "extended"]
    /\ Continue
    /\ UNCHANGED <<cache, token, cached, seen, body, granted,
                   told, latest, overlapped, contested>>

\* ... cache.put(token, cached); return cached.tokenData.
Restore(th) ==
    /\ pc[th] = "extended"
    /\ cache' = [cache EXCEPT ![token[th]] = cached[th]]
    /\ Return(th, heap[cached[th]].tokenData,
              [heap EXCEPT ![cached[th]].published = heap[cached[th]].age])
    /\ EndRefresh(th)
    /\ contested' = IF th \in overlapped THEN contested \union {token[th]}
                                         ELSE contested
    /\ UNCHANGED <<granted, told, latest>>

\* catch (IOException e) without one: new TokenData("Error en el cliente Java").
ClientError(th) ==
    /\ pc[th] = "reply"
    /\ body[th] = "garbage"
    /\ cached[th] = NoEntry
    /\ UNCHANGED <<cache, granted, told, latest, contested>>
    /\ Return(th, "client error", heap)
    /\ overlapped' = overlapped \ {th}

\* IllegalArgumentException or NullPointerException: no catch clause.
Throw(th) ==
    /\ pc[th] = "reply"
    /\ body[th] = "null"
    /\ UNCHANGED <<cache, granted, told, latest, contested>>
    /\ Return(th, "exception", heap)
    /\ overlapped' = overlapped \ {th}

----------------------------------------------------------------------------
(* Around the method: time passes and the portal changes its mind.         *)

Tick ==
    /\ heap' = [e \in Entries |-> [heap[e] EXCEPT !.age = Older(@),
                                                  !.published = Older(@),
                                                  !.since = Older(@)]]
    /\ seen' = [th \in Threads |-> IF pc[th] = "got" THEN Older(seen[th])
                                                     ELSE seen[th]]
    /\ Continue
    /\ UNCHANGED <<cache, pc, token, cached, body, granted,
                   told, latest, overlapped, contested>>

Change(c) ==
    /\ granted' = [granted EXCEPT ![c] = ~@]
    /\ Continue
    /\ UNCHANGED <<cache, heap, pc, token, cached, seen, body,
                   told, latest, overlapped, contested>>

Call(th) == \E t \in Tokens : Found(th, t) \/ Missed(th, t)
Answered(th) == Respond(th) \/ RespondFault(th) \/ Break(th)
Step(th) == \/ Hit(th) \/ SeeExpired(th) \/ Remove(th)
            \/ Store(th) \/ Extend(th) \/ Restore(th)
            \/ ClientError(th) \/ Throw(th)

Next == \/ \E th \in Threads : Call(th) \/ Answered(th) \/ Step(th)
        \/ Tick
        \/ \E c \in Credentials : Change(c)

Spec == Init /\ [][Next]_vars

\* A thread that is not waiting for the portal keeps running and the clock
\* advances.  Nobody has to call, and the portal has to answer nobody: the code
\* sets no response timeout.
Fairness == (\A th \in Threads : WF_vars(Step(th))) /\ WF_vars(Tick)

FairSpec == Spec /\ Fairness

----------------------------------------------------------------------------
(* Properties.                                                             *)

\* While a call refreshes a token and no other refresh of it runs into the
\* call, the map holds nothing for the token: what the call puts there can
\* replace no newer answer.
RefreshingSlotEmpty ==
    \A th \in Threads :
        Refreshing(th) /\ th \notin overlapped => cache[token[th]] = NoEntry

\* The entry in the map carries the last thing the portal said for its token,
\* or else it was written by a call another refresh of the token ran into:
\* only racing refreshes let an older answer win.
LatestAnswerCached ==
    \A t \in Tokens :
        cache[t] # NoEntry /\ t \notin contested
            => heap[cache[t]].tokenData = latest[t]

\* An answer is served from the cache beyond CACHE_DURATION_MS after it was
\* stored only if a refresh of that very entry met an unreadable answer.
BoundedStaleness ==
    [][\A th \in Threads :
          Hit(th) /\ Expired(heap[cached[th]].since)
              => heap[cached[th]].excused]_vars

\* "Error al obtener token. Usando cache extendido temporalmente.": a call
\* that holds an expired answer and cannot refresh it returns that answer.
FailedRefreshServesCached ==
    [][\A th \in Threads :
          (/\ cached[th] # NoEntry
           /\ pc[th] \in {"reply", "extended"}
           /\ body[th] \notin TokenData
           /\ answer'.thread = th)
          => answer'.is = heap[cached[th]].tokenData]_vars

\* If the portal refuses a credential from some moment on and its answers can
\* be read, then from some moment on no call for it comes back "granted".
DenialTakesEffect ==
    \A t \in Tokens :
        (/\ <>[](~granted[Bearer[t]])
         /\ <>[][\A th \in Threads : token[th] = t => ~Break(th)]_vars)
        => <>[][\A th \in Threads :
                   token[th] = t /\ answer'.thread = th
                       => answer'.is # "granted"]_vars

\* Every answer is something the portal said about that credential, and a
\* call fails only on an unusable answer of its own: TokenOracle.
Oracle == INSTANCE TokenOracle
    WITH asking <- token,
         troubled <- {th \in Threads : body[th] \in Answers \ TokenData}
PortalIsTheSource == Oracle!Spec
=============================================================================
