---------------------------- MODULE ResponseReuse ----------------------------
(***************************************************************************)
(* How a finished answer is used again: the exact-match response cache     *)
(* (services/cache.ts) and the claims of Idempotency-Key                   *)
(* (services/idempotency.ts), as POST /v1/chat/completions consults and    *)
(* fills them (routes/proxy.ts).  A request first looks into the cache,    *)
(* then for a claim, and only then goes to a provider; other requests, a   *)
(* flush, sweeps and crashes come while it waits.                          *)
(*                                                                         *)
(* The cache holds JSON answers and streams in two maps, each in order of  *)
(* use, that share one cap.  JSON answers are also written to a table, on  *)
(* the next turn of the event loop, and their hits by a timer; streams are *)
(* not.  Times are ages in ticks, a tick is long against either.           *)
(***************************************************************************)
EXTENDS Naturals, SequencesExt, FiniteSetsExt

CONSTANTS
  None,
  Contents,    \* what a request asks; cache key and fingerprint stand for it
  IdemKeys,    \* values of the Idempotency-Key header
  Slots,       \* requests at a provider at the same time (bound)
  MaxEntries,  \* RESPONSE_CACHE_MAX_ENTRIES
  TTL,         \* RESPONSE_CACHE_TTL_SECONDS, in ticks
  IDEM_TTL,    \* IDEMPOTENCY_TTL_MS, in ticks
  Headers,     \* [key, caching]: what JSON requests may carry and ask for
  MaxPending   \* writes queued in one turn of the event loop (bound)

VARIABLES
  enabled,     \* the master switch of the cache, a setting
  store,       \* JSON answers, least recently used first
  streamStore, \* streams, least recently used first
  dirtyHits,   \* contents whose hits wait for the timer
  pending,     \* writes waiting for the next turn of the event loop
  rows,        \* the table response_cache
  claims,      \* the table idempotency_claims
  request,     \* the requests at a provider
  answeredFor, \* history: age of the last answer to (key, content), or None
  flushed,     \* history: nothing was stored since the last flush
  undisturbed  \* history: no crash and no switch since the last flush

cache == <<enabled, store, streamStore, dirtyHits, pending, rows>>
history == <<answeredFor, flushed, undisturbed>>
vars == <<enabled, store, streamStore, dirtyHits, pending, rows, claims,
          request, answeredFor, flushed, undisturbed>>

Ages == 0..(TTL + 1)
Older(age, top) == IF age \in 0..(top - 1) THEN age + 1 ELSE age

(* age: since it was stored; used: since it was last stored or hit;        *)
(* loaded: a process that has ended had it, and this one has not used it.  *)
Entry == [content : Contents, age : Ages, used : Ages, loaded : BOOLEAN]
Row == [age : Ages, used : Ages]
Write ==
  [op : {"put", "delete"}, contents : {{c} : c \in Contents}]
    \cup [op : {"hits"}, contents : SUBSET Contents]
Claim == [content : Contents, age : 0..IDEM_TTL]
Waiting ==
  [content : Contents, stream : BOOLEAN, key : IdemKeys \cup {None},
   caching : BOOLEAN, retry : BOOLEAN]

ASSUME ReuseAssumption ==
  /\ MaxEntries \in Nat /\ MaxPending \in Nat
  /\ Headers \subseteq [key : IdemKeys \cup {None}, caching : BOOLEAN]
  /\ {TTL, IDEM_TTL} \subseteq Nat \ {0}
  /\ None \notin Contents \cup IdemKeys \cup Nat
  /\ None \notin Row /\ None \notin Claim /\ None \notin Waiting

(***************************************************************************)
(* The two maps                                                            *)
(***************************************************************************)
Without(map, content) == RemoveFirstMatch(map, LAMBDA e : e.content = content)
Holds(map, content) == \E e \in ToSet(map) : e.content = content
Find(map, content) == CHOOSE e \in ToSet(map) : e.content = content
NewEntry(content) == [content |-> content, age |-> 0, used |-> 0, loaded |-> FALSE]
(* Mutant: what was stored for the content before stays in the map. *)
StoredTwice(map, content) == Append(map, NewEntry(content))

Stored(map, content) == Append(Without(map, content), NewEntry(content))
(* Mutant: a hit leaves the entry where it is. *)
HitInPlace(map, content) ==
  [i \in DOMAIN map |-> IF map[i].content = content
                        THEN [map[i] EXCEPT !.used = 0, !.loaded = FALSE] ELSE map[i]]

HitOn(map, content) ==
  Append(Without(map, content),
         [Find(map, content) EXCEPT !.used = 0, !.loaded = FALSE])

Usable(map, content) == Holds(map, content) /\ Find(map, content).age <= TTL

(* schedulePersist: with the cache off nothing is queued. *)
schedulePersist(queue, write) == IF enabled THEN Append(queue, write) ELSE queue
Put(content) == [op |-> "put", contents |-> {content}]
Delete(content) == [op |-> "delete", contents |-> {content}]

(* enforceCombinedCap, after the content new was put into one of two maps  *)
(* that were within the cap: the older of the two front entries goes.      *)
(* Ages that are equal in ticks leave it open which was used first, but    *)
(* the entry just put in was last.                                         *)
FrontOlder(map, other, new) ==
  /\ map # <<>>
  /\ other # <<>> => Head(map).used >= Head(other).used /\ Head(map).content # new

(* Mutant: what is evicted in memory stays in the table. *)
EvictInMemory(json, newJson, stream, newStream, later) ==
  /\ pending' = pending \o later
  /\ \/ /\ Len(json) + Len(stream) <= MaxEntries
        /\ store' = json /\ streamStore' = stream
     \/ /\ Len(json) + Len(stream) > MaxEntries
        /\ FrontOlder(stream, json, newStream)
        /\ store' = json /\ streamStore' = Tail(stream)
     \/ /\ Len(json) + Len(stream) > MaxEntries
        /\ FrontOlder(json, stream, newJson)
        /\ store' = Tail(json) /\ streamStore' = stream

(* later: what the caller queues once there is room. *)
enforceCombinedCap(json, newJson, stream, newStream, later) ==
  \/ /\ Len(json) + Len(stream) <= MaxEntries
     /\ store' = json /\ streamStore' = stream /\ pending' = pending \o later
  \/ /\ Len(json) + Len(stream) > MaxEntries
     /\ FrontOlder(stream, json, newStream)
     /\ store' = json /\ streamStore' = Tail(stream) /\ pending' = pending \o later
  \/ /\ Len(json) + Len(stream) > MaxEntries
     /\ FrontOlder(json, stream, newJson)
     /\ store' = Tail(json) /\ streamStore' = stream
     /\ pending' = schedulePersist(pending, Delete(Head(json).content)) \o later

storeCachedResponse(content) ==
  /\ dirtyHits' = dirtyHits \ {content}
  /\ enforceCombinedCap(Stored(store, content), content, streamStore, None,
       IF MaxEntries = 0 THEN <<>> ELSE schedulePersist(<<>>, Put(content)))

(* Mutant: the stream store has the cap to itself. *)
StreamsOwnCap(content) ==
  LET stream == Stored(streamStore, content) IN
  /\ streamStore' = IF Len(stream) > MaxEntries THEN Tail(stream) ELSE stream
  /\ UNCHANGED <<store, pending, dirtyHits>>

storeCachedStreamResponse(content) ==
  /\ enforceCombinedCap(store, None, Stored(streamStore, content), content, <<>>)
  /\ UNCHANGED dirtyHits

(***************************************************************************)
(* A request arrives                                                       *)
(***************************************************************************)

(* Headers may opt a request in or out of the cache whatever the switch    *)
(* says; a stream carries no idempotency key.  A request that may neither  *)
(* use nor leave anything is not modelled.                                 *)
Arrival ==
  {a \in [content : Contents, stream : BOOLEAN, key : IdemKeys \cup {None}, caching : BOOLEAN] :
     IF a.stream THEN a.key = None /\ a.caching
     ELSE [key |-> a.key, caching |-> a.caching] \in Headers}

MapFor(a) == IF a.stream THEN streamStore ELSE store
Hits(a) == a.caching /\ Usable(MapFor(a), a.content)
Claimed(key) == claims[key] # None /\ claims[key].age < IDEM_TTL

CacheHit(a) ==
  /\ Hits(a)
  /\ IF a.stream
     THEN /\ streamStore' = HitOn(streamStore, a.content)
          /\ UNCHANGED <<store, dirtyHits>>
     ELSE /\ store' = HitOn(store, a.content)
          /\ dirtyHits' = dirtyHits \cup {a.content}
          /\ UNCHANGED streamStore
  /\ UNCHANGED <<enabled, pending, rows, claims, request, history>>

(* A lookup that misses drops an entry past its TTL. *)
Miss(a) ==
  LET expired == a.caching /\ Holds(MapFor(a), a.content) IN
  /\ ~Hits(a) /\ Len(pending) < MaxPending
  /\ store' = IF expired /\ ~a.stream THEN Without(store, a.content) ELSE store
  /\ streamStore' = IF expired /\ a.stream THEN Without(streamStore, a.content) ELSE streamStore
  /\ pending' = IF expired /\ ~a.stream THEN schedulePersist(pending, Delete(a.content))
                ELSE pending
  /\ UNCHANGED <<enabled, dirtyHits, rows>>

(* lookupIdempotencyReplay finds a claim: the stored answer is replayed,   *)
(* or refused with 409 when it was given to other content.                 *)
ReplayOrConflict(a) ==
  /\ Miss(a)
  /\ a.key # None /\ Claimed(a.key)
  /\ UNCHANGED <<claims, request, history>>

AnsweredWithin(a) == a.key # None /\ answeredFor[<<a.key, a.content>>] # None

(* Mutant: a claim of other content does not hold the request back. *)
UpstreamOnConflict(a, r) ==
  /\ Miss(a)
  /\ a.key # None /\ Claimed(a.key) => claims[a.key].content # a.content
  /\ request[r] = None
  /\ request' = [request EXCEPT ![r] =
       [content |-> a.content, stream |-> a.stream, key |-> a.key,
        caching |-> a.caching, retry |-> AnsweredWithin(a)]]
  /\ UNCHANGED <<claims, history>>

GoUpstream(a, r) ==
  /\ Miss(a)
  /\ a.key # None => ~Claimed(a.key)
  /\ request[r] = None
  /\ request' = [request EXCEPT ![r] =
       [content |-> a.content, stream |-> a.stream, key |-> a.key,
        caching |-> a.caching, retry |-> AnsweredWithin(a)]]
  /\ UNCHANGED <<claims, history>>

(***************************************************************************)
(* The provider answers                                                    *)
(***************************************************************************)

(* A whole answer: storeIdempotencyResult replaces the claim of the key,   *)
(* then the answer goes out, then it is cached.                            *)
Answer(r) ==
  LET q == request[r] IN
  /\ q # None /\ Len(pending) < MaxPending
  /\ request' = [request EXCEPT ![r] = None]
  /\ IF q.key = None
     THEN UNCHANGED <<claims, answeredFor>>
     ELSE /\ claims' = [claims EXCEPT ![q.key] = [content |-> q.content, age |-> 0]]
          /\ answeredFor' = [answeredFor EXCEPT ![<<q.key, q.content>>] = 0]
  /\ IF ~q.caching
     THEN UNCHANGED <<store, streamStore, pending, dirtyHits, flushed>>
     ELSE /\ flushed' = FALSE
          /\ IF q.stream THEN storeCachedStreamResponse(q.content)
             ELSE storeCachedResponse(q.content)
  /\ UNCHANGED <<enabled, rows, undisturbed>>

(* A cut answer or an error leaves nothing behind. *)
EndWithout(r) ==
  /\ request[r] # None
  /\ request' = [request EXCEPT ![r] = None]
  /\ UNCHANGED <<cache, claims, history>>

(***************************************************************************)
(* The table, the operator, time                                           *)
(***************************************************************************)
Applied(table, write) ==
  [c \in Contents |->
     CASE c \notin write.contents -> table[c]
       [] c \in write.contents /\ write.op = "put" -> [age |-> 0, used |-> 0]
       [] c \in write.contents /\ write.op = "delete" -> None
       [] c \in write.contents /\ write.op = "hits" ->
            IF table[c] = None THEN None ELSE [table[c] EXCEPT !.used = 0]]

drainPendingWrites ==
  /\ pending # <<>>
  /\ rows' = FoldLeft(Applied, rows, pending)
  /\ pending' = <<>>
  /\ UNCHANGED <<enabled, store, streamStore, dirtyHits, claims, request, history>>

(* The timer of scheduleHitCountFlush. *)
FlushHits ==
  /\ dirtyHits # {} /\ Len(pending) < MaxPending
  /\ pending' = schedulePersist(pending, [op |-> "hits", contents |-> dirtyHits])
  /\ dirtyHits' = {}
  /\ UNCHANGED <<enabled, store, streamStore, rows, claims, request, history>>

(* Mutant: queued writes survive the flush. *)
ClearKeepsQueue ==
  /\ store' = <<>> /\ streamStore' = <<>>
  /\ dirtyHits' = {}
  /\ rows' = [c \in Contents |-> None]
  /\ flushed' = TRUE /\ undisturbed' = enabled
  /\ UNCHANGED <<enabled, pending, claims, request, answeredFor>>

clearCache ==
  /\ store' = <<>> /\ streamStore' = <<>>
  /\ pending' = <<>> /\ dirtyHits' = {}
  /\ rows' = [c \in Contents |-> None]
  /\ flushed' = TRUE /\ undisturbed' = enabled
  /\ UNCHANGED <<enabled, claims, request, answeredFor>>

SetCache ==
  /\ enabled' = ~enabled
  /\ undisturbed' = FALSE
  /\ UNCHANGED <<store, streamStore, dirtyHits, pending, rows, claims, request,
                 answeredFor, flushed>>

Unexpired(table) ==
  [c \in Contents |-> IF table[c] # None /\ table[c].age >= TTL THEN None ELSE table[c]]

(* pruneExpiredClaims: rows of both tables go once their time is over.     *)
pruneExpiredClaims ==
  /\ rows' = Unexpired(rows)
  /\ claims' = [k \in IdemKeys |-> IF Claimed(k) THEN claims[k] ELSE None]
  /\ UNCHANGED <<enabled, store, streamStore, dirtyHits, pending, request, history>>

(* Time passes once the queue is drained and the timer of hits has fired.  *)
Tick ==
  LET Aged(e) == [e EXCEPT !.age = Older(@, TTL + 1), !.used = Older(@, TTL + 1)] IN
  /\ pending = <<>> /\ dirtyHits = {}
  /\ store' = [i \in DOMAIN store |-> Aged(store[i])]
  /\ streamStore' = [i \in DOMAIN streamStore |-> Aged(streamStore[i])]
  /\ rows' = [c \in Contents |-> IF rows[c] = None THEN None ELSE Aged(rows[c])]
  /\ claims' = [k \in IdemKeys |-> IF claims[k] = None THEN None
                                   ELSE [claims[k] EXCEPT !.age = Older(@, IDEM_TTL)]]
  /\ answeredFor' = [kc \in IdemKeys \X Contents |->
                     IF answeredFor[kc] \in 0..(IDEM_TTL - 2) THEN answeredFor[kc] + 1 ELSE None]
  /\ UNCHANGED <<enabled, dirtyHits, pending, request, flushed, undisturbed>>

(* The process ends at any moment and starts again: loadCacheFromDb purges *)
(* expired rows and loads the newest, by creation, up to the cap.          *)
Loads(table) ==
  LET live == {c \in Contents : table[c] # None}
      newest == {s \in UNION {[1..n -> live] : n \in 0..Cardinality(live)} :
                   /\ Len(s) = Min({Cardinality(live), MaxEntries})
                   /\ IsInjective(s)
                   /\ \A i \in 1..(Len(s) - 1) : table[s[i]].age >= table[s[i + 1]].age
                   /\ \A c \in live \ ToSet(s) : \A i \in DOMAIN s : table[c].age >= table[s[i]].age}
  IN {[i \in DOMAIN s |-> [content |-> s[i], age |-> table[s[i]].age,
                           used |-> table[s[i]].used, loaded |-> TRUE]] : s \in newest}

loadCacheFromDb ==
  /\ rows' = Unexpired(rows)
  /\ IF enabled THEN store' \in Loads(rows') ELSE store' = <<>>

Restart ==
  /\ loadCacheFromDb
  /\ streamStore' = <<>> /\ dirtyHits' = {} /\ pending' = <<>>
  /\ request' = [r \in Slots |-> None]
  /\ undisturbed' = (undisturbed /\ enabled /\ pending = <<>> /\ dirtyHits = {})
  /\ UNCHANGED <<enabled, claims, answeredFor, flushed>>

Init ==
  /\ enabled = TRUE
  /\ store = <<>> /\ streamStore = <<>>
  /\ dirtyHits = {} /\ pending = <<>>
  /\ rows = [c \in Contents |-> None]
  /\ claims = [k \in IdemKeys |-> None]
  /\ request = [r \in Slots |-> None]
  /\ answeredFor = [kc \in IdemKeys \X Contents |-> None]
  /\ flushed = TRUE /\ undisturbed = TRUE

Next ==
  \/ \E a \in Arrival : CacheHit(a)
  \/ \E a \in Arrival : ReplayOrConflict(a)
  \/ \E a \in Arrival, r \in Slots : GoUpstream(a, r)
  \/ \E r \in Slots : Answer(r)
  \/ \E r \in Slots : EndWithout(r)
  \/ drainPendingWrites
  \/ FlushHits
  \/ clearCache
  \/ SetCache
  \/ pruneExpiredClaims
  \/ Tick
  \/ Restart

Spec == Init /\ [][Next]_vars

(***************************************************************************)
(* Properties                                                              *)
(***************************************************************************)
Entries(map) ==
  /\ \A i \in DOMAIN map : map[i] \in Entry
  /\ \A i, j \in DOMAIN map : map[i].content = map[j].content => i = j

TypeOK ==
  /\ {enabled, flushed, undisturbed} \subseteq BOOLEAN
  /\ Entries(store) /\ Entries(streamStore)
  /\ dirtyHits \subseteq Contents
  /\ \A i \in DOMAIN pending : pending[i] \in Write
  /\ rows \in [Contents -> Row \cup {None}]
  /\ claims \in [IdemKeys -> Claim \cup {None}]
  /\ request \in [Slots -> Waiting \cup {None}]
  /\ answeredFor \in [IdemKeys \X Contents -> 0..(IDEM_TTL - 1) \cup {None}]

(* JSON answers and streams never hold more entries than the cap between   *)
(* them: not after an insert into either, nor after a load that finds rows *)
(* a crash had left behind (cache.ts:314).                                 *)
CombinedCap == Len(store) + Len(streamStore) <= MaxEntries

(* A flush holds: until something is stored again no answer is left, in    *)
(* memory, in the table or in the queue, whatever was queued before, and   *)
(* no restart brings one back (cache.ts:782).                              *)
FlushHolds ==
  flushed => /\ store = <<>> /\ streamStore = <<>> /\ pending = <<>>
             /\ \A c \in Contents : rows[c] = None

(* Once the queue is drained the table holds exactly the answers memory    *)
(* holds, of the same age and with the same last use, as far as they may   *)
(* still be served; restarts included, unless one lost queued writes or    *)
(* someone moved the switch (cache.ts:30, :327).                           *)
TableMirrorsMemory ==
  undisturbed /\ pending = <<>> =>
    \A c \in Contents :
      /\ \A e \in ToSet(store) :
           e.content = c /\ e.age < TTL =>
             /\ rows[c] # None /\ rows[c].age = e.age
             /\ dirtyHits = {} => rows[c].used = e.used
      /\ rows[c] # None /\ rows[c].age < TTL => Holds(store, c)

(* Room is made at the expense of the entry used least recently, over both *)
(* maps; only entries a restart brought back, which are in the order they  *)
(* were created, may be passed over (cache.ts:307).                        *)
ColdestGoesFirst ==
  [][\A r \in Slots : Answer(r) =>
       \A e \in (ToSet(store) \ ToSet(store')) \cup (ToSet(streamStore) \ ToSet(streamStore')),
          f \in (ToSet(store) \cap ToSet(store')) \cup (ToSet(streamStore) \cap ToSet(streamStore')) :
         \/ e.content = request[r].content
         \/ e.used >= f.used \/ f.loaded]_vars

(* A retry costs nothing: a request that repeats a key and content that    *)
(* were answered within the window never goes to a provider again, even    *)
(* when another request with the key has replaced the claim, or the        *)
(* process has restarted (idempotency.ts:3).                               *)
RetryIsFree == \A r \in Slots : request[r] # None => ~request[r].retry
=============================================================================
