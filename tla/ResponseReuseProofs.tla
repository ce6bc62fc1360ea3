-------------------------- MODULE ResponseReuseProofs --------------------------
(***************************************************************************)
(* ResponseReuse for any contents, keys, slots, caps and windows.  That a  *)
(* retry is free rests on how the claim of a key ages: every answer given  *)
(* under the key resets it, so it is never older than the youngest answer  *)
(* that the window still covers, whichever content it was replaced for.    *)
(* That a flush holds needs the hits that wait for the timer to be gone    *)
(* too, for they would be queued again.                                    *)
(*                                                                         *)
(* That the table mirrors memory is seen only once the queue is drained;   *)
(* what every step keeps is that it would, were the queue drained now      *)
(* (Mirrored).  So the fold over the queue is given a closed form (Due), a *)
(* write queued last is applied last (DrainLonger), and rows may be swept  *)
(* before a drain as well as after it (SweptDrain).  That the entry used   *)
(* least recently goes first rests on the order of the maps (InOrder).     *)
(***************************************************************************)
EXTENDS ResponseReuse, SequenceTheorems, FoldLemmas

ClaimsTypeOK ==
  /\ claims \in [IdemKeys -> Claim \cup {None}]
  /\ request \in [Slots -> Waiting \cup {None}]
  /\ answeredFor \in [IdemKeys \X Contents -> 0..(IDEM_TTL - 1) \cup {None}]

(* The claim of a key is no older than any answer given under it. *)
ClaimCovers ==
  \A k \in IdemKeys, c \in Contents :
    answeredFor[<<k, c>>] # None => claims[k] # None /\ claims[k].age <= answeredFor[<<k, c>>]

NothingLeft ==
  flushed => /\ store = <<>> /\ streamStore = <<>> /\ pending = <<>> /\ dirtyHits = {}
             /\ \A c \in Contents : rows[c] = None

RetryInv == ClaimsTypeOK /\ ClaimCovers /\ RetryIsFree

claimVars == <<claims, request, answeredFor>>
flushVars == <<store, streamStore, pending, dirtyHits, rows, flushed>>

(***************************************************************************)
(* Claims                                                                  *)
(***************************************************************************)

(* None is neither a number, a key, a content, a claim nor a request. *)
LEMMA NoneApart ==
  /\ None \notin Nat /\ None \notin IdemKeys /\ None \notin Contents
  /\ None \notin Claim /\ None \notin Waiting
  /\ IDEM_TTL \in Nat \ {0}
  BY ReuseAssumption

(* A request on its way to a provider repeats nothing: had its key and     *)
(* content been answered within the window, the claim would have held it   *)
(* back.                                                                   *)
LEMMA GoKeeps ==
  ASSUME RetryInv, NEW a \in Arrival, NEW r \in Slots, GoUpstream(a, r)
  PROVE  RetryInv'
<1>1. /\ a.content \in Contents /\ a.stream \in BOOLEAN /\ a.caching \in BOOLEAN
      /\ a.key \in IdemKeys \cup {None}
  BY DEF Arrival
<1>2. AnsweredWithin(a) = FALSE
  <2>1. ASSUME a.key # None, answeredFor[<<a.key, a.content>>] # None
        PROVE  FALSE
    <3>1. answeredFor[<<a.key, a.content>>] \in 0..(IDEM_TTL - 1)
      BY <1>1, <2>1 DEF RetryInv, ClaimsTypeOK
    <3>2. /\ claims[a.key] # None /\ claims[a.key] \in Claim
          /\ claims[a.key].age <= answeredFor[<<a.key, a.content>>]
      BY <1>1, <2>1 DEF RetryInv, ClaimsTypeOK, ClaimCovers
    <3>3. claims[a.key].age < IDEM_TTL
      BY <3>1, <3>2, NoneApart DEF Claim
    <3> QED
      BY <2>1, <3>2, <3>3 DEF GoUpstream, Claimed
  <2> QED
    BY <2>1 DEF AnsweredWithin
<1> DEFINE q == [content |-> a.content, stream |-> a.stream, key |-> a.key,
                 caching |-> a.caching, retry |-> FALSE]
<1>3. request' = [request EXCEPT ![r] = q] /\ UNCHANGED <<claims, answeredFor>>
  BY <1>2 DEF GoUpstream, history
<1>4. q \in Waiting /\ q.retry = FALSE
  BY <1>1 DEF Waiting
<1> HIDE DEF q
<1>5. ClaimsTypeOK'
  BY <1>3, <1>4 DEF RetryInv, ClaimsTypeOK
<1>6. ClaimCovers'
  BY <1>3 DEF RetryInv, ClaimCovers
<1>7. RetryIsFree'
  BY <1>3, <1>4 DEF RetryInv, ClaimsTypeOK, RetryIsFree
<1> QED
  BY <1>5, <1>6, <1>7 DEF RetryInv

(* An answer resets the claim of its key. *)
LEMMA AnswerKeeps ==
  ASSUME RetryInv, NEW r \in Slots, Answer(r)
  PROVE  RetryInv'
<1> DEFINE q == request[r]
           reset == [content |-> q.content, age |-> 0]
<1>1. q \in Waiting /\ q # None
  BY DEF RetryInv, ClaimsTypeOK, Answer
<1>2. q.content \in Contents /\ q.key \in IdemKeys \cup {None}
  BY <1>1 DEF Waiting
<1>3. reset \in Claim /\ reset.age = 0
  BY <1>2, NoneApart DEF Claim
<1>4. request' = [request EXCEPT ![r] = None]
  BY DEF Answer
<1>5. \/ q.key = None /\ UNCHANGED <<claims, answeredFor>>
      \/ /\ q.key # None
         /\ claims' = [claims EXCEPT ![q.key] = reset]
         /\ answeredFor' = [answeredFor EXCEPT ![<<q.key, q.content>>] = 0]
  BY DEF Answer
<1> HIDE DEF q, reset
<1>6. ClaimsTypeOK'
  <2>1. 0 \in 0..(IDEM_TTL - 1)
    BY NoneApart
  <2> QED
    BY <1>2, <1>3, <1>4, <1>5, <2>1 DEF RetryInv, ClaimsTypeOK
<1>7. ClaimCovers'
  <2>1. CASE UNCHANGED <<claims, answeredFor>>
    BY <2>1 DEF RetryInv, ClaimCovers
  <2>2. CASE /\ q.key # None
             /\ claims' = [claims EXCEPT ![q.key] = reset]
             /\ answeredFor' = [answeredFor EXCEPT ![<<q.key, q.content>>] = 0]
    <3> SUFFICES ASSUME NEW k \in IdemKeys, NEW c \in Contents, answeredFor'[<<k, c>>] # None
                 PROVE  claims'[k] # None /\ claims'[k].age <= answeredFor'[<<k, c>>]
      BY DEF ClaimCovers
    <3>1. answeredFor'[<<k, c>>] \in Nat
      BY <1>6, NoneApart DEF ClaimsTypeOK
    <3>2. CASE k = q.key
      <4>1. claims'[k] = reset
        BY <1>2, <2>2, <3>2 DEF RetryInv, ClaimsTypeOK
      <4> QED
        BY <1>3, <3>1, <4>1, NoneApart
    <3>3. CASE k # q.key
      <4>1. claims'[k] = claims[k]
        BY <2>2, <3>3 DEF RetryInv, ClaimsTypeOK
      <4>2. answeredFor'[<<k, c>>] = answeredFor[<<k, c>>]
        BY <2>2, <3>3 DEF RetryInv, ClaimsTypeOK
      <4> QED
        BY <4>1, <4>2 DEF RetryInv, ClaimCovers
    <3> QED
      BY <3>2, <3>3
  <2> QED
    BY <1>5, <2>1, <2>2
<1>8. RetryIsFree'
  BY <1>4 DEF RetryInv, ClaimsTypeOK, RetryIsFree
<1> QED
  BY <1>6, <1>7, <1>8 DEF RetryInv

(* A sweep takes no claim the window still covers. *)
LEMMA PruneKeeps ==
  ASSUME RetryInv, pruneExpiredClaims
  PROVE  RetryInv'
<1>1. /\ claims' = [k \in IdemKeys |-> IF Claimed(k) THEN claims[k] ELSE None]
      /\ UNCHANGED <<request, answeredFor>>
  BY DEF pruneExpiredClaims, history
<1>2. ClaimsTypeOK' /\ RetryIsFree'
  BY <1>1 DEF RetryInv, ClaimsTypeOK, RetryIsFree
<1>3. ASSUME NEW k \in IdemKeys, NEW c \in Contents, answeredFor'[<<k, c>>] # None
      PROVE  claims'[k] # None /\ claims'[k].age <= answeredFor'[<<k, c>>]
  <2>1. answeredFor[<<k, c>>] # None /\ answeredFor[<<k, c>>] \in 0..(IDEM_TTL - 1)
    BY <1>1, <1>3 DEF RetryInv, ClaimsTypeOK
  <2>2. /\ claims[k] # None /\ claims[k] \in Claim /\ claims[k].age <= answeredFor[<<k, c>>]
    BY <2>1 DEF RetryInv, ClaimsTypeOK, ClaimCovers
  <2>3. claims[k].age < IDEM_TTL
    BY <2>1, <2>2, NoneApart DEF Claim
  <2> QED
    BY <1>1, <2>2, <2>3 DEF Claimed
<1> QED
  BY <1>2, <1>3 DEF RetryInv, ClaimCovers

(* A claim and the answers it covers age together. *)
LEMMA TickKeeps ==
  ASSUME RetryInv, Tick
  PROVE  RetryInv'
<1>1. /\ claims' = [k \in IdemKeys |-> IF claims[k] = None THEN None
                                      ELSE [claims[k] EXCEPT !.age = Older(@, IDEM_TTL)]]
      /\ answeredFor' = [kc \in IdemKeys \X Contents |->
           IF answeredFor[kc] \in 0..(IDEM_TTL - 2) THEN answeredFor[kc] + 1 ELSE None]
      /\ UNCHANGED request
  BY DEF Tick
<1>2. ASSUME NEW k \in IdemKeys, claims[k] # None
      PROVE  /\ claims'[k] \in Claim /\ claims'[k] # None
             /\ claims'[k].age = Older(claims[k].age, IDEM_TTL)
  <2>1. claims[k] \in Claim
    BY <1>2 DEF RetryInv, ClaimsTypeOK
  <2>2. claims'[k] = [content |-> claims[k].content, age |-> Older(claims[k].age, IDEM_TTL)]
    BY <1>1, <1>2, <2>1 DEF Claim
  <2>3. Older(claims[k].age, IDEM_TTL) \in 0..IDEM_TTL
    BY <2>1, NoneApart DEF Claim, Older
  <2>4. claims'[k] \in Claim /\ claims'[k].age = Older(claims[k].age, IDEM_TTL)
    BY <2>1, <2>2, <2>3 DEF Claim
  <2> QED
    BY <2>4, NoneApart
<1>3. ClaimsTypeOK'
  <2>1. claims' \in [IdemKeys -> Claim \cup {None}]
    BY <1>1, <1>2
  <2>2. answeredFor' \in [IdemKeys \X Contents -> 0..(IDEM_TTL - 1) \cup {None}]
    BY <1>1, NoneApart
  <2> QED
    BY <1>1, <2>1, <2>2 DEF RetryInv, ClaimsTypeOK
<1>4. ASSUME NEW k \in IdemKeys, NEW c \in Contents, answeredFor'[<<k, c>>] # None
      PROVE  claims'[k] # None /\ claims'[k].age <= answeredFor'[<<k, c>>]
  <2>1. answeredFor[<<k, c>>] \in 0..(IDEM_TTL - 2) /\ answeredFor'[<<k, c>>] = answeredFor[<<k, c>>] + 1
    BY <1>1, <1>4
  <2>2. answeredFor[<<k, c>>] # None
    BY <2>1, NoneApart
  <2>3. claims[k] # None /\ claims[k] \in Claim /\ claims[k].age <= answeredFor[<<k, c>>]
    BY <2>2 DEF RetryInv, ClaimsTypeOK, ClaimCovers
  <2>4. Older(claims[k].age, IDEM_TTL) = claims[k].age + 1
    BY <2>1, <2>3, NoneApart DEF Claim, Older
  <2>5. claims[k].age \in Nat
    BY <2>3, NoneApart DEF Claim
  <2> QED
    BY <1>2, <2>1, <2>3, <2>4, <2>5, NoneApart
<1> QED
  BY <1>1, <1>3, <1>4 DEF RetryInv, ClaimCovers, RetryIsFree

(***************************************************************************)
(* Flushes                                                                 *)
(***************************************************************************)

(* A map over no indices is the empty one. *)
LEMMA EmptyMap ==
  ASSUME NEW F(_)
  PROVE  [i \in {} |-> F(i)] = <<>>
  OBVIOUS

(* Without rows there is nothing to load. *)
LEMMA LoadsNothing ==
  ASSUME NEW table, \A c \in Contents : table[c] = None, NEW map \in Loads(table)
  PROVE  map = <<>>
<1> DEFINE live == {c \in Contents : table[c] # None}
           Copy(s, i) == [content |-> s[i], age |-> table[s[i]].age,
                          used |-> table[s[i]].used, loaded |-> TRUE]
<1>1. live = {}
  OBVIOUS
<1>2. Cardinality(live) = 0
  BY <1>1, FS_EmptySet
<1>3. PICK s \in UNION {[1..n -> live] : n \in 0..Cardinality(live)} :
        map = [i \in DOMAIN s |-> Copy(s, i)]
  BY DEF Loads
<1>4. s \in [1..0 -> live]
  BY <1>2, <1>3
<1>5. DOMAIN s = {}
  BY <1>4
<1> HIDE DEF Copy
<1> QED
  BY <1>3, <1>5, EmptyMap

(* An empty map holds nothing. *)
LEMMA NothingHeld ==
  ASSUME NEW content
  PROVE  ~Holds(<<>>, content)
  BY DEF Holds, ToSet

(* Requests that find nothing leave nothing. *)
LEMMA ArrivalsLeaveNothing ==
  ASSUME NothingLeft, NEW a \in Arrival, CacheHit(a) \/ Miss(a), UNCHANGED flushed
  PROVE  NothingLeft'
<1>1. ASSUME flushed
      PROVE  /\ store = <<>> /\ streamStore = <<>> /\ pending = <<>> /\ dirtyHits = {}
             /\ \A c \in Contents : rows[c] = None
  BY <1>1 DEF NothingLeft
<1>2. ASSUME flushed
      PROVE  ~Holds(MapFor(a), a.content)
  BY <1>1, <1>2, NothingHeld DEF MapFor
<1>3. ASSUME flushed
      PROVE  Miss(a)
  BY <1>2, <1>3 DEF CacheHit, Hits, Usable
<1>4. ASSUME flushed
      PROVE  /\ store' = <<>> /\ streamStore' = <<>> /\ pending' = <<>> /\ dirtyHits' = {}
             /\ rows' = rows
  BY <1>1, <1>2, <1>3, <1>4 DEF Miss
<1> QED
  BY <1>1, <1>4 DEF NothingLeft

(* What the sweep makes of a table. *)
LEMMA SweepsNothing ==
  ASSUME NEW table, \A c \in Contents : table[c] = None
  PROVE  \A c \in Contents : Unexpired(table)[c] = None
  BY DEF Unexpired

(* Time, a sweep and a restart find nothing to bring back. *)
LEMMA TimeLeavesNothing ==
  ASSUME NothingLeft, Tick \/ pruneExpiredClaims \/ Restart
  PROVE  NothingLeft'
<1> SUFFICES ASSUME flushed'
             PROVE  /\ store' = <<>> /\ streamStore' = <<>> /\ pending' = <<>>
                    /\ dirtyHits' = {} /\ \A c \in Contents : rows'[c] = None
  BY DEF NothingLeft
<1>1. flushed
  BY DEF Tick, pruneExpiredClaims, Restart, history
<1>2. /\ store = <<>> /\ streamStore = <<>> /\ pending = <<>> /\ dirtyHits = {}
      /\ \A c \in Contents : rows[c] = None
  BY <1>1 DEF NothingLeft
<1>3. CASE Tick
  <2> DEFINE Aged(e) == [e EXCEPT !.age = Older(@, TTL + 1), !.used = Older(@, TTL + 1)]
  <2>1. /\ store' = [i \in DOMAIN store |-> Aged(store[i])]
        /\ streamStore' = [i \in DOMAIN streamStore |-> Aged(streamStore[i])]
        /\ rows' = [c \in Contents |-> IF rows[c] = None THEN None ELSE Aged(rows[c])]
        /\ UNCHANGED <<pending, dirtyHits>>
    BY <1>3 DEF Tick
  <2> HIDE DEF Aged
  <2>2. DOMAIN store = {} /\ DOMAIN streamStore = {}
    BY <1>2
  <2>3. store' = <<>> /\ streamStore' = <<>>
    BY <2>1, <2>2, EmptyMap
  <2> QED
    BY <1>2, <2>1, <2>3
<1>4. CASE pruneExpiredClaims
  BY <1>2, <1>4, SweepsNothing DEF pruneExpiredClaims
<1>5. CASE Restart
  <2>1. /\ rows' = Unexpired(rows)
        /\ store' \in Loads(rows') \/ store' = <<>>
        /\ streamStore' = <<>> /\ dirtyHits' = {} /\ pending' = <<>>
    BY <1>5 DEF Restart, loadCacheFromDb
  <2>2. \A c \in Contents : rows'[c] = None
    BY <1>2, <2>1, SweepsNothing
  <2>3. store' = <<>>
    BY <2>1, <2>2, LoadsNothing
  <2> QED
    BY <2>1, <2>2, <2>3
<1> QED
  BY <1>3, <1>4, <1>5

(***************************************************************************)
(* Every step                                                              *)
(***************************************************************************)

(* Every step keeps what is known of the claims. *)
LEMMA RetryStep ==
  ASSUME RetryInv, [Next]_vars
  PROVE  RetryInv'
<1>1. CASE UNCHANGED claimVars
  BY <1>1 DEF claimVars, RetryInv, ClaimsTypeOK, ClaimCovers, RetryIsFree
<1>2. ASSUME NEW a \in Arrival, CacheHit(a) \/ ReplayOrConflict(a)
      PROVE  RetryInv'
  BY <1>1, <1>2 DEF CacheHit, ReplayOrConflict, claimVars, history
<1>3. ASSUME NEW a \in Arrival, NEW r \in Slots, GoUpstream(a, r)
      PROVE  RetryInv'
  BY <1>3, GoKeeps
<1>4. ASSUME NEW r \in Slots, Answer(r)
      PROVE  RetryInv'
  BY <1>4, AnswerKeeps
<1>5. ASSUME NEW r \in Slots, EndWithout(r)
      PROVE  RetryInv'
  <2>1. request' = [request EXCEPT ![r] = None] /\ UNCHANGED <<claims, answeredFor>>
    BY <1>5 DEF EndWithout, history
  <2> QED
    BY <2>1 DEF RetryInv, ClaimsTypeOK, ClaimCovers, RetryIsFree
<1>6. CASE drainPendingWrites \/ FlushHits \/ clearCache \/ SetCache \/ UNCHANGED vars
  BY <1>1, <1>6
     DEF drainPendingWrites, FlushHits, clearCache, SetCache, vars, claimVars, history
<1>7. CASE pruneExpiredClaims
  BY <1>7, PruneKeeps
<1>8. CASE Tick
  BY <1>8, TickKeeps
<1>9. CASE Restart
  <2>1. request' = [r \in Slots |-> None] /\ UNCHANGED <<claims, answeredFor>>
    BY <1>9 DEF Restart
  <2> QED
    BY <2>1 DEF RetryInv, ClaimsTypeOK, ClaimCovers, RetryIsFree
<1> QED
  BY <1>2, <1>3, <1>4, <1>5, <1>6, <1>7, <1>8, <1>9 DEF Next

(* Every step keeps what a flush has left behind. *)
LEMMA FlushStep ==
  ASSUME NothingLeft, [Next]_vars
  PROVE  NothingLeft'
<1>1. CASE UNCHANGED flushVars
  BY <1>1 DEF flushVars, NothingLeft
<1>2. ASSUME NEW a \in Arrival, CacheHit(a)
      PROVE  NothingLeft'
  BY <1>2, ArrivalsLeaveNothing DEF CacheHit, history
<1>3. ASSUME NEW a \in Arrival, ReplayOrConflict(a)
      PROVE  NothingLeft'
  BY <1>3, ArrivalsLeaveNothing DEF ReplayOrConflict, history
<1>4. ASSUME NEW a \in Arrival, NEW r \in Slots, GoUpstream(a, r)
      PROVE  NothingLeft'
  BY <1>4, ArrivalsLeaveNothing DEF GoUpstream, history
<1>5. ASSUME NEW r \in Slots, Answer(r)
      PROVE  NothingLeft'
  <2>1. \/ flushed' = FALSE
        \/ UNCHANGED flushVars
    BY <1>5 DEF Answer, flushVars
  <2> QED
    BY <1>1, <2>1 DEF NothingLeft
<1>6. ASSUME NEW r \in Slots, EndWithout(r)
      PROVE  NothingLeft'
  BY <1>1, <1>6 DEF EndWithout, cache, history, flushVars
<1>7. CASE drainPendingWrites \/ FlushHits
  <2>1. ~flushed
    BY <1>7 DEF drainPendingWrites, FlushHits, NothingLeft
  <2> QED
    BY <1>7, <2>1 DEF drainPendingWrites, FlushHits, history, NothingLeft
<1>8. CASE clearCache
  BY <1>8 DEF clearCache, NothingLeft
<1>9. CASE SetCache \/ UNCHANGED vars
  BY <1>1, <1>9 DEF SetCache, vars, flushVars
<1> QED
  BY <1>2, <1>3, <1>4, <1>5, <1>6, <1>7, <1>8, <1>9, TimeLeavesNothing DEF Next

(***************************************************************************)
(* The two maps                                                            *)
(***************************************************************************)

(* A map is in order of use, as far as entries were used in this process. *)
InOrder(map) ==
  \A i, j \in DOMAIN map : i < j => map[i].used >= map[j].used \/ map[j].loaded
Distinct(map) ==
  \A i, j \in DOMAIN map : map[i].content = map[j].content => i = j
Sound(map) == map \in Seq(Entry) /\ Distinct(map) /\ InOrder(map)

(* new is what is left of old when some entries are taken out. *)
Thinned(new, old) ==
  /\ new \in Seq(Entry)
  /\ \E f \in [DOMAIN new -> DOMAIN old] :
       /\ \A i \in DOMAIN new : new[i] = old[f[i]]
       /\ \A i, j \in DOMAIN new : i < j => f[i] < f[j]

(* Taking entries out leaves a map sound. *)
LEMMA ThinnedSound ==
  ASSUME NEW old, Sound(old), NEW new, Thinned(new, old)
  PROVE  Sound(new) /\ ToSet(new) \subseteq ToSet(old)
<1>1. PICK f \in [DOMAIN new -> DOMAIN old] :
        /\ \A i \in DOMAIN new : new[i] = old[f[i]]
        /\ \A i, j \in DOMAIN new : i < j => f[i] < f[j]
  BY DEF Thinned
<1>2. DOMAIN new \subseteq Nat /\ DOMAIN old \subseteq Nat
  BY LenProperties DEF Thinned, Sound
<1>3. ASSUME NEW i \in DOMAIN new, NEW j \in DOMAIN new, new[i].content = new[j].content
      PROVE  i = j
  <2>1. f[i] = f[j]
    BY <1>1, <1>3 DEF Sound, Distinct
  <2>2. ~(i < j) /\ ~(j < i)
    BY <1>1, <1>2, <2>1
  <2> QED BY <1>2, <2>2
<1>4. InOrder(new)
  BY <1>1 DEF Sound, InOrder
<1>5. ToSet(new) \subseteq ToSet(old)
  BY <1>1 DEF ToSet
<1> QED BY <1>3, <1>4, <1>5 DEF Sound, Distinct, Thinned

(* A set of naturals has a smallest element. *)
LEMMA Smallest ==
  ASSUME NEW S \in SUBSET Nat, S # {}
  PROVE  Min(S) \in S /\ \A y \in S : Min(S) <= y
<1>1. PICK n \in S : n \in Nat
  OBVIOUS
<1> DEFINE Below(k) == S \cap (0 .. k)
           Starts == {Below(k) : k \in S \cap (0 .. n)}
           T == 0 .. n
<1>2. IsFiniteSet(T)
  BY <1>1, FS_Interval
<1>3. Starts \subseteq SUBSET T /\ Starts # {}
  <2>1. n \in S \cap (0 .. n)
    BY <1>1
  <2>2. \A k \in S \cap (0 .. n) : Below(k) \subseteq T
    OBVIOUS
  <2> HIDE DEF T
  <2> QED BY <2>1, <2>2
<1> HIDE DEF T, Starts
<1>4. PICK B \in Starts : \A C \in Starts : ~(<<C, B>> \in StrictSubsetOrdering(T))
  BY <1>2, <1>3, FS_StrictSubsetOrderingWellFounded, FS_FiniteSubsetsOfFinite, WFMin
<1> USE DEF Starts
<1>5. PICK x \in S \cap (0 .. n) : B = Below(x)
  BY <1>4
<1>6. ASSUME NEW y \in S, y < x PROVE FALSE
  <2>1. Below(y) \in Starts
    BY <1>1, <1>5, <1>6
  <2>2. Below(y) \subseteq B /\ x \in B /\ x \notin Below(y)
    BY <1>5, <1>6
  <2>3. <<Below(y), B>> \in StrictSubsetOrdering(T)
    BY <1>3, <1>4, <2>1, <2>2 DEF StrictSubsetOrdering
  <2> QED BY <1>4, <2>1, <2>3
<1>7. \A y \in S : x <= y
  BY <1>5, <1>6
<1>8. x \in S
  BY <1>5
<1> QED BY <1>7, <1>8 DEF Min

(* A bounded set of naturals has a largest element. *)
LEMMA Largest ==
  ASSUME NEW n \in Nat, NEW S \in SUBSET (1 .. n), S # {}
  PROVE  Max(S) \in S /\ \A y \in S : y <= Max(S)
<1> DEFINE Bounds == {b \in Nat : \A y \in S : y <= b}
<1>1. n \in Bounds
  OBVIOUS
<1>2. Min(Bounds) \in Bounds /\ \A b \in Bounds : Min(Bounds) <= b
  BY <1>1, Smallest
<1> DEFINE top == Min(Bounds)
<1>3. top \in Nat /\ \A y \in S : y <= top
  BY <1>2
<1> HIDE DEF top
<1>4. top \in S
  <2> SUFFICES ASSUME top \notin S PROVE FALSE
    OBVIOUS
  <2>1. PICK y \in S : y \in 1 .. n
    OBVIOUS
  <2>2. top - 1 \in Nat /\ \A z \in S : z <= top - 1
    BY <1>3, <2>1
  <2>3. top - 1 \in Bounds
    BY <2>2
  <2>4. top <= top - 1
    BY <1>2, <2>3 DEF top
  <2> QED BY <1>3, <2>4
<1>5. \A y \in S : top >= y
  BY <1>3
<1>6. \E x \in S : \A y \in S : x >= y
  BY <1>4, <1>5
<1> QED BY <1>6 DEF Max

(* The map without one content. *)
LEMMA WithoutSound ==
  ASSUME NEW map, Sound(map), NEW content
  PROVE  /\ Sound(Without(map, content))
         /\ \A e \in ToSet(Without(map, content)) : e \in ToSet(map) /\ e.content # content
         /\ \A e \in ToSet(map) : e.content # content => e \in ToSet(Without(map, content))
         /\ Len(Without(map, content)) \in Nat
         /\ Len(Without(map, content)) <= Len(map)
         /\ Holds(map, content) => Len(Without(map, content)) = Len(map) - 1
<1>1. /\ map \in Seq(Entry) /\ Len(map) \in Nat
      /\ DOMAIN map = 1 .. Len(map) /\ map \in [1 .. Len(map) -> Entry]
  BY LenProperties DEF Sound
<1>2. CASE ~Holds(map, content)
  <2>1. ~\E i \in 1 .. Len(map) : map[i].content = content
    BY <1>1, <1>2 DEF Holds, ToSet
  <2>2. Without(map, content) = map
    BY <2>1 DEF Without, RemoveFirstMatch
  <2>3. \A e \in ToSet(map) : e.content # content
    BY <1>2 DEF Holds
  <2>4. Len(map) \in Nat /\ Len(map) <= Len(map)
    BY <1>1
  <2> QED BY <1>2, <2>2, <2>3, <2>4
<1>3. CASE Holds(map, content)
  <2> DEFINE I == {i \in 1 .. Len(map) : map[i].content = content}
             p == Min(I)
             W == Without(map, content)
             head == SubSeq(map, 1, p - 1)
             tail == SubSeq(map, p + 1, Len(map))
  <2>1. I # {} /\ I \subseteq Nat
    BY <1>1, <1>3 DEF Holds, ToSet
  <2>2. W = head \o tail
    <3>1. \E i \in 1 .. Len(map) : map[i].content = content
      BY <2>1
    <3> QED BY <2>1, <3>1 DEF Without, RemoveFirstMatch, RemoveAt, SelectInSeq
  <2>3. p \in 1 .. Len(map) /\ map[p].content = content
    <3>1. p \in I
      BY <2>1, Smallest
    <3> QED BY <3>1
  <2> HIDE DEF p, W
  <2>4. /\ head \in Seq(Entry) /\ Len(head) = p - 1
        /\ \A i \in 1 .. p - 1 : head[i] = map[i]
    <3>1. \A i \in 1 .. p - 1 : map[i] \in Entry
      BY <1>1, <2>3
    <3>2. p - 1 \in Int /\ 1 \in Int
      BY <2>3
    <3>3. /\ head \in Seq(Entry) /\ Len(head) = IF 1 <= p - 1 THEN p - 1 - 1 + 1 ELSE 0
          /\ \A i \in 1 .. p - 1 - 1 + 1 : head[i] = map[1 + i - 1]
      BY <3>1, <3>2, SubSeqProperties
    <3> QED BY <2>3, <3>3
  <2>5. /\ tail \in Seq(Entry) /\ Len(tail) = Len(map) - p
        /\ \A i \in 1 .. Len(map) - p : tail[i] = map[p + i]
    <3>1. \A i \in p + 1 .. Len(map) : map[i] \in Entry
      BY <1>1, <2>3
    <3>2. p + 1 \in Int /\ Len(map) \in Int
      BY <1>1, <2>3
    <3>3. /\ tail \in Seq(Entry)
          /\ Len(tail) = IF p + 1 <= Len(map) THEN Len(map) - (p + 1) + 1 ELSE 0
          /\ \A i \in 1 .. Len(map) - (p + 1) + 1 : tail[i] = map[p + 1 + i - 1]
      BY <3>1, <3>2, SubSeqProperties
    <3> HIDE DEF tail
    <3>4. Len(tail) = Len(map) - p
      <4>1. Len(tail) = IF p + 1 <= Len(map) THEN Len(map) - (p + 1) + 1 ELSE 0
        BY <3>3
      <4>2. p \in Nat /\ Len(map) \in Nat /\ p <= Len(map)
        BY <1>1, <2>3
      <4>3. CASE p + 1 <= Len(map)
        BY <4>1, <4>2, <4>3
      <4>4. CASE ~(p + 1 <= Len(map))
        <5>1. p = Len(map)
          BY <4>2, <4>4
        <5> QED BY <4>1, <4>2, <4>4, <5>1
      <4> QED BY <4>3, <4>4
    <3>5. ASSUME NEW i \in 1 .. Len(map) - p PROVE tail[i] = map[p + i]
      <4>1. i \in 1 .. Len(map) - (p + 1) + 1 /\ p + 1 + i - 1 = p + i
        BY <1>1, <2>3
      <4> QED BY <3>3, <4>1
    <3> QED BY <3>3, <3>4, <3>5
  <2> HIDE DEF head, tail
  <2>6. /\ W \in Seq(Entry) /\ Len(W) = Len(map) - 1 /\ DOMAIN W = 1 .. Len(map) - 1
        /\ \A i \in 1 .. Len(map) - 1 : W[i] = IF i < p THEN map[i] ELSE map[i + 1]
    <3>1. /\ W \in Seq(Entry) /\ Len(W) = Len(head) + Len(tail)
          /\ \A i \in 1 .. Len(head) + Len(tail) :
               W[i] = IF i <= Len(head) THEN head[i] ELSE tail[i - Len(head)]
      BY <2>2, <2>4, <2>5, ConcatProperties
    <3>2. Len(W) = Len(map) - 1 /\ DOMAIN W = 1 .. Len(map) - 1
      BY <1>1, <2>3, <2>4, <2>5, <3>1, LenProperties
    <3>3. ASSUME NEW i \in 1 .. Len(map) - 1
          PROVE  W[i] = IF i < p THEN map[i] ELSE map[i + 1]
      <4>1. Len(head) = p - 1 /\ Len(tail) = Len(map) - p
        BY <2>4, <2>5
      <4>2. i \in 1 .. Len(head) + Len(tail)
        BY <1>1, <2>3, <4>1
      <4>3. W[i] = IF i <= Len(head) THEN head[i] ELSE tail[i - Len(head)]
        BY <3>1, <4>2
      <4>4. CASE i < p
        <5>1. i \in 1 .. p - 1 /\ i <= Len(head)
          BY <1>1, <2>3, <4>1, <4>4
        <5> QED BY <2>4, <4>3, <4>4, <5>1
      <4>5. CASE ~(i < p)
        <5>1. ~(i <= Len(head)) /\ i - Len(head) \in 1 .. Len(map) - p /\ p + (i - Len(head)) = i + 1
          BY <1>1, <2>3, <4>1, <4>5
        <5>2. tail[i - Len(head)] = map[p + (i - Len(head))]
          BY <2>5, <5>1
        <5> QED BY <4>3, <4>5, <5>1, <5>2
      <4> QED BY <4>4, <4>5
    <3> QED BY <3>1, <3>2, <3>3
  <2> DEFINE f == [i \in DOMAIN W |-> IF i < p THEN i ELSE i + 1]
  <2>7. f \in [DOMAIN W -> DOMAIN map]
    BY <1>1, <2>3, <2>6
  <2>8. Thinned(W, map)
    <3>1. \A i \in DOMAIN W : W[i] = map[f[i]]
      BY <2>6
    <3>2. \A i, j \in DOMAIN W : i < j => f[i] < f[j]
      BY <1>1, <2>3, <2>6
    <3> HIDE DEF f
    <3> QED BY <2>6, <2>7, <3>1, <3>2 DEF Thinned
  <2>9. Sound(W) /\ ToSet(W) \subseteq ToSet(map)
    BY <2>8, ThinnedSound
  <2>10. ASSUME NEW i \in DOMAIN W PROVE W[i].content # content
    <3>1. W[i] = map[f[i]] /\ f[i] # p /\ f[i] \in DOMAIN map
      BY <1>1, <2>3, <2>6, <2>7
    <3> QED BY <1>1, <2>3, <3>1 DEF Sound, Distinct
  <2>11. ASSUME NEW i \in DOMAIN map, map[i].content # content
         PROVE  map[i] \in ToSet(W)
    <3>1. i # p /\ i \in 1 .. Len(map)
      BY <1>1, <2>3, <2>11
    <3>2. CASE i < p
      <4>1. i \in DOMAIN W /\ W[i] = map[i]
        BY <1>1, <2>3, <2>6, <3>1, <3>2
      <4> QED BY <4>1 DEF ToSet
    <3>3. CASE p < i
      <4>1. i - 1 \in DOMAIN W /\ W[i - 1] = map[i]
        BY <1>1, <2>3, <2>6, <3>1, <3>3
      <4> QED BY <4>1 DEF ToSet
    <3> QED BY <1>1, <2>3, <3>1, <3>2, <3>3
  <2>12. Len(W) \in Nat /\ Len(W) <= Len(map)
    BY <1>1, <2>3, <2>6
  <2> QED BY <2>6, <2>9, <2>10, <2>11, <2>12 DEF W, ToSet
<1> QED BY <1>2, <1>3

(* An entry just used goes to the end. *)
LEMMA AppendSound ==
  ASSUME NEW map, Sound(map), NEW e \in Entry, e.used = 0,
         \A d \in ToSet(map) : d.content # e.content
  PROVE  /\ Sound(Append(map, e))
         /\ Len(Append(map, e)) = Len(map) + 1
         /\ ToSet(Append(map, e)) = ToSet(map) \cup {e}
<1> DEFINE new == Append(map, e)  n == Len(map)
<1>1. map \in Seq(Entry) /\ n \in Nat /\ DOMAIN map = 1 .. n
  BY LenProperties DEF Sound
<1>2. /\ new \in Seq(Entry) /\ Len(new) = n + 1
      /\ \A i \in 1 .. n : new[i] = map[i]
      /\ new[n + 1] = e
  BY <1>1, AppendProperties
<1>3. DOMAIN new = 1 .. n + 1
  BY <1>2, LenProperties
<1> HIDE DEF new, n
<1>4. \A i \in 1 .. n : map[i] \in ToSet(map) /\ map[i] \in Entry
  BY <1>1, ElementOfSeq DEF ToSet, n
<1>5. Distinct(new)
  <2> SUFFICES ASSUME NEW i \in 1 .. n + 1, NEW j \in 1 .. n + 1, new[i].content = new[j].content
               PROVE  i = j
    BY <1>3 DEF Distinct
  <2>1. CASE i \in 1 .. n /\ j \in 1 .. n
    BY <1>1, <1>2, <2>1 DEF Sound, Distinct
  <2>2. CASE i \in 1 .. n /\ j = n + 1
    BY <1>2, <1>4, <2>2
  <2>3. CASE i = n + 1 /\ j \in 1 .. n
    BY <1>2, <1>4, <2>3
  <2> QED BY <1>1, <2>1, <2>2, <2>3
<1>6. InOrder(new)
  <2> SUFFICES ASSUME NEW i \in 1 .. n + 1, NEW j \in 1 .. n + 1, i < j
               PROVE  new[i].used >= new[j].used \/ new[j].loaded
    BY <1>3 DEF InOrder
  <2>1. i \in 1 .. n
    BY <1>1
  <2>2. CASE j \in 1 .. n
    BY <1>1, <1>2, <2>1, <2>2 DEF Sound, InOrder
  <2>3. CASE j = n + 1
    <3>1. new[i] \in Entry
      BY <1>2, <1>4, <2>1
    <3>2. new[i].used >= 0
      BY <3>1 DEF Entry, Ages
    <3> QED BY <1>2, <2>3, <3>2
  <2> QED BY <1>1, <2>2, <2>3
<1>7. ToSet(new) = ToSet(map) \cup {e}
  <2>1. ASSUME NEW i \in 1 .. n + 1 PROVE new[i] \in ToSet(map) \cup {e}
    <3>1. i \in 1 .. n \/ i = n + 1
      BY <1>1
    <3> QED BY <1>2, <1>4, <3>1
  <2>2. \A i \in 1 .. n : map[i] \in ToSet(new)
    <3>1. \A i \in 1 .. n : i \in 1 .. n + 1
      BY <1>1
    <3> QED BY <1>2, <1>3, <3>1 DEF ToSet
  <2>3. e \in ToSet(new)
    <3>1. n + 1 \in 1 .. n + 1
      BY <1>1
    <3> QED BY <1>2, <1>3, <3>1 DEF ToSet
  <2> QED BY <1>1, <1>3, <2>1, <2>2, <2>3 DEF ToSet
<1> QED BY <1>2, <1>5, <1>6, <1>7 DEF Sound, new, n

(* A map after a store. *)
LEMMA StoredSound ==
  ASSUME NEW map, Sound(map), NEW content \in Contents
  PROVE  /\ Sound(Stored(map, content))
         /\ Len(Stored(map, content)) <= Len(map) + 1
         /\ \A e \in ToSet(Stored(map, content)) :
              e = NewEntry(content) \/ (e \in ToSet(map) /\ e.content # content)
         /\ \A e \in ToSet(map) : e.content # content => e \in ToSet(Stored(map, content))
         /\ NewEntry(content) \in ToSet(Stored(map, content))
         /\ Stored(map, content) # <<>>
         /\ Stored(map, content)[Len(Stored(map, content))].content = content
<1> DEFINE W == Without(map, content)  e == NewEntry(content)
<1>1. e \in Entry /\ e.used = 0 /\ e.content = content
  BY ReuseAssumption DEF NewEntry, Entry, Ages
<1>2. /\ Sound(W) /\ Len(W) \in Nat /\ Len(W) <= Len(map)
      /\ \A d \in ToSet(W) : d \in ToSet(map) /\ d.content # content
      /\ \A d \in ToSet(map) : d.content # content => d \in ToSet(W)
  BY WithoutSound
<1>3. Len(map) \in Nat
  BY LenProperties DEF Sound
<1> HIDE DEF W, e
<1>4. Sound(Append(W, e)) /\ Len(Append(W, e)) = Len(W) + 1 /\ ToSet(Append(W, e)) = ToSet(W) \cup {e}
  BY <1>1, <1>2, AppendSound
<1>5. Stored(map, content) = Append(W, e)
  BY DEF Stored, W, e
<1>6. Len(Append(W, e)) <= Len(map) + 1
  BY <1>2, <1>3, <1>4
<1>7. Append(W, e) # <<>> /\ Append(W, e)[Len(Append(W, e))].content = content
  <2>1. W \in Seq(Entry) /\ Len(W) + 1 # 0
    BY <1>2 DEF Sound
  <2> QED BY <1>1, <1>4, <2>1, EmptySeq
<1> QED BY <1>2, <1>4, <1>5, <1>6, <1>7 DEF e

(* What a lookup finds. *)
LEMMA Found ==
  ASSUME NEW map, Sound(map), NEW content, Holds(map, content)
  PROVE  /\ Find(map, content) \in ToSet(map) /\ Find(map, content) \in Entry
         /\ Find(map, content).content = content
         /\ \A e \in ToSet(map) : e.content = content => e = Find(map, content)
<1>1. Find(map, content) \in ToSet(map) /\ Find(map, content).content = content
  BY DEF Holds, Find
<1>2. ToSet(map) \subseteq Entry
  BY ElementOfSeq, LenProperties DEF Sound, ToSet
<1>3. \A e, f \in ToSet(map) : e.content = f.content => e = f
  BY DEF Sound, Distinct, ToSet
<1> QED BY <1>1, <1>2, <1>3

(* A map after a hit. *)
LEMMA HitSound ==
  ASSUME NEW map, Sound(map), NEW content, Holds(map, content)
  PROVE  /\ Sound(HitOn(map, content))
         /\ Len(HitOn(map, content)) = Len(map)
         /\ \A e \in ToSet(HitOn(map, content)) :
              \/ e.content = content /\ e.used = 0 /\ e.age = Find(map, content).age
              \/ e \in ToSet(map) /\ e.content # content
         /\ \A e \in ToSet(map) : Holds(HitOn(map, content), e.content)
<1> DEFINE W == Without(map, content)
           e == [Find(map, content) EXCEPT !.used = 0, !.loaded = FALSE]
<1>1. e \in Entry /\ e.used = 0 /\ e.content = content /\ e.age = Find(map, content).age
  <2> DEFINE d == Find(map, content)
  <2>1. d \in Entry /\ d.content = content
    BY Found
  <2> HIDE DEF d
  <2>2. 0 \in Ages
    BY ReuseAssumption DEF Ages
  <2>3. LET x == [d EXCEPT !.used = 0, !.loaded = FALSE]
        IN  x \in Entry /\ x.used = 0 /\ x.content = content /\ x.age = d.age
    BY <2>1, <2>2 DEF Entry
  <2> QED BY <2>3 DEF d
<1>2. /\ Sound(W) /\ Len(W) = Len(map) - 1 /\ Len(map) \in Nat
      /\ \A d \in ToSet(W) : d \in ToSet(map) /\ d.content # content
      /\ \A d \in ToSet(map) : d.content # content => d \in ToSet(W)
  BY WithoutSound, LenProperties DEF Sound
<1> HIDE DEF W, e
<1>3. Sound(Append(W, e)) /\ Len(Append(W, e)) = Len(W) + 1 /\ ToSet(Append(W, e)) = ToSet(W) \cup {e}
  BY <1>1, <1>2, AppendSound
<1>4. HitOn(map, content) = Append(W, e)
  BY DEF HitOn, W, e
<1>5. Len(Append(W, e)) = Len(map)
  BY <1>2, <1>3
<1>6. \A d \in ToSet(map) : Holds(Append(W, e), d.content)
  BY <1>1, <1>2, <1>3 DEF Holds
<1> QED BY <1>1, <1>2, <1>3, <1>4, <1>5, <1>6

(* A map that has lost its first entry, and what that entry was. *)
LEMMA TailSound ==
  ASSUME NEW map, Sound(map), map # <<>>
  PROVE  /\ Sound(Tail(map))
         /\ Len(Tail(map)) = Len(map) - 1
         /\ ToSet(map) = ToSet(Tail(map)) \cup {Head(map)}
         /\ \A e \in ToSet(Tail(map)) : e.content # Head(map).content
         /\ \A e \in ToSet(map) : Head(map).used >= e.used \/ e.loaded
<1> DEFINE n == Len(map)  new == Tail(map)
<1>1. map \in Seq(Entry) /\ n \in Nat /\ DOMAIN map = 1 .. n /\ n # 0
  BY LenProperties, EmptySeq DEF Sound
<1>2. /\ new \in Seq(Entry) /\ Len(new) = n - 1
      /\ \A i \in 1 .. n - 1 : new[i] = map[i + 1]
  BY <1>1, HeadTailProperties
<1>3. DOMAIN new = 1 .. n - 1
  BY <1>2, LenProperties
<1>4. Head(map) = map[1]
  BY <1>1, HeadTailOfSubSeq, SubSeqFull
<1> HIDE DEF new, n
<1>5. Thinned(new, map)
  <2> DEFINE f == [i \in DOMAIN new |-> i + 1]
  <2>1. f \in [DOMAIN new -> DOMAIN map]
    BY <1>1, <1>3
  <2>2. \A i \in DOMAIN new : new[i] = map[f[i]]
    BY <1>2, <1>3
  <2>3. \A i, j \in DOMAIN new : i < j => f[i] < f[j]
    BY <1>1, <1>3
  <2> HIDE DEF f
  <2> QED BY <1>2, <2>1, <2>2, <2>3 DEF Thinned
<1>6. Sound(new)
  BY <1>5, ThinnedSound
<1>7. \A i \in 1 .. n : i = 1 \/ (i - 1 \in 1 .. n - 1 /\ map[i] = new[i - 1])
  BY <1>1, <1>2
<1>8. ToSet(map) = ToSet(new) \cup {map[1]}
  <2>1. \A i \in 1 .. n : map[i] \in ToSet(new) \cup {map[1]}
    BY <1>3, <1>7 DEF ToSet
  <2>2. \A i \in 1 .. n - 1 : i + 1 \in 1 .. n
    BY <1>1
  <2>3. 1 \in 1 .. n
    BY <1>1
  <2>4. \A i \in 1 .. n - 1 : new[i] \in ToSet(map)
    BY <1>1, <1>2, <2>2 DEF ToSet
  <2> QED BY <1>1, <1>3, <2>1, <2>3, <2>4 DEF ToSet
<1>9. ASSUME NEW i \in 1 .. n - 1 PROVE new[i].content # map[1].content
  <2>1. i + 1 \in 1 .. n /\ 1 \in 1 .. n /\ i + 1 # 1
    BY <1>1
  <2> QED BY <1>1, <1>2, <2>1 DEF Sound, Distinct
<1>10. ASSUME NEW i \in 1 .. n PROVE map[1].used >= map[i].used \/ map[i].loaded
  <2>1. map[1] \in Entry /\ 1 \in 1 .. n
    BY <1>1, ElementOfSeq DEF n
  <2>2. CASE i = 1
    BY <2>1, <2>2 DEF Entry, Ages
  <2>3. CASE 1 < i
    BY <1>1, <2>1, <2>3 DEF Sound, InOrder
  <2> QED BY <1>1, <2>2, <2>3
<1>11. \A e \in ToSet(new) : e.content # map[1].content
  BY <1>3, <1>9 DEF ToSet
<1>12. \A e \in ToSet(map) : map[1].used >= e.used \/ e.loaded
  BY <1>1, <1>10 DEF ToSet
<1>13. Len(new) = n - 1
  BY <1>2
<1> QED BY <1>4, <1>6, <1>8, <1>11, <1>12, <1>13 DEF new, n

(* Ages grow by one up to a top and keep their order. *)
LEMMA OlderGrows ==
  ASSUME NEW top \in Nat, NEW x \in 0 .. top, NEW y \in 0 .. top
  PROVE  /\ Older(x, top) \in 0 .. top
         /\ Older(x, top) = IF x = top THEN x ELSE x + 1
         /\ x <= y => Older(x, top) <= Older(y, top)
  BY DEF Older

(* An entry, or a row, a tick later. *)
Aged(e) == [e EXCEPT !.age = Older(@, TTL + 1), !.used = Older(@, TTL + 1)]

(* A tick ages an entry and leaves it its content and its origin. *)
LEMMA AgedEntry ==
  ASSUME NEW e \in Entry
  PROVE  /\ Aged(e) \in Entry /\ Aged(e).content = e.content /\ Aged(e).loaded = e.loaded
         /\ Aged(e).age = Older(e.age, TTL + 1) /\ Aged(e).used = Older(e.used, TTL + 1)
<1> DEFINE a == Older(e.age, TTL + 1)  u == Older(e.used, TTL + 1)
<1>1. TTL + 1 \in Nat /\ e.age \in 0 .. TTL + 1 /\ e.used \in 0 .. TTL + 1
  BY ReuseAssumption DEF Entry, Ages
<1>2. a \in Ages /\ u \in Ages
  BY <1>1, OlderGrows DEF Ages
<1>3. Aged(e) = [e EXCEPT !.age = a, !.used = u]
  BY DEF Aged, Entry
<1> HIDE DEF a, u
<1>4. LET x == [e EXCEPT !.age = a, !.used = u]
      IN  x \in Entry /\ x.content = e.content /\ x.loaded = e.loaded /\ x.age = a /\ x.used = u
  BY <1>2 DEF Entry
<1> QED BY <1>3, <1>4 DEF a, u

(* A row a tick later. *)
LEMMA AgedRow ==
  ASSUME NEW r \in Row
  PROVE  /\ Aged(r) \in Row
         /\ Aged(r).age = Older(r.age, TTL + 1) /\ Aged(r).used = Older(r.used, TTL + 1)
<1> DEFINE a == Older(r.age, TTL + 1)  u == Older(r.used, TTL + 1)
<1>1. TTL + 1 \in Nat /\ r.age \in 0 .. TTL + 1 /\ r.used \in 0 .. TTL + 1
  BY ReuseAssumption DEF Row, Ages
<1>2. a \in Ages /\ u \in Ages
  BY <1>1, OlderGrows DEF Ages
<1>3. Aged(r) = [r EXCEPT !.age = a, !.used = u]
  BY DEF Aged, Row
<1> HIDE DEF a, u
<1>4. LET x == [r EXCEPT !.age = a, !.used = u]
      IN  x \in Row /\ x.age = a /\ x.used = u
  BY <1>2 DEF Row
<1> QED BY <1>3, <1>4 DEF a, u

(* A map a tick later. *)
LEMMA AgedSound ==
  ASSUME NEW map, Sound(map), NEW new, new = [i \in DOMAIN map |-> Aged(map[i])]
  PROVE  /\ Sound(new) /\ Len(new) = Len(map)
         /\ \A e \in ToSet(new) : \E d \in ToSet(map) : e = Aged(d)
         /\ \A d \in ToSet(map) : Aged(d) \in ToSet(new)
<1> DEFINE n == Len(map)
<1>1. map \in Seq(Entry) /\ n \in Nat /\ DOMAIN map = 1 .. n
  BY LenProperties DEF Sound
<1>2. \A i \in 1 .. n : map[i] \in Entry
  BY <1>1, ElementOfSeq
<1> HIDE DEF n
<1>3. DOMAIN new = 1 .. n /\ \A i \in 1 .. n : new[i] = Aged(map[i])
  BY <1>1
<1>4. new \in [1 .. n -> Entry]
  BY <1>1, <1>2, AgedEntry
<1>5. new \in Seq(Entry)
  BY <1>1, <1>4, SeqDef
<1>6. Len(new) = n
  <2>1. DOMAIN new = 1 .. Len(new) /\ Len(new) \in Nat
    BY <1>5, LenProperties
  <2> QED BY <1>1, <1>3, <2>1
<1>7. Distinct(new)
  <2>1. \A i \in 1 .. n : new[i].content = map[i].content
    BY <1>2, <1>3, AgedEntry
  <2> QED BY <1>1, <1>3, <2>1 DEF Sound, Distinct
<1>8. InOrder(new)
  <2> SUFFICES ASSUME NEW i \in 1 .. n, NEW j \in 1 .. n, i < j
               PROVE  new[i].used >= new[j].used \/ new[j].loaded
    BY <1>3 DEF InOrder
  <2>1. map[i].used >= map[j].used \/ map[j].loaded
    BY <1>1 DEF Sound, InOrder
  <2>2. CASE map[j].loaded
    BY <1>2, <1>3, <2>2, AgedEntry
  <2>3. CASE map[i].used >= map[j].used
    <3>1. TTL + 1 \in Nat /\ map[i].used \in 0 .. TTL + 1 /\ map[j].used \in 0 .. TTL + 1
      BY <1>2, ReuseAssumption DEF Entry, Ages
    <3>2. map[j].used <= map[i].used
      BY <2>3, <3>1
    <3>3. Older(map[j].used, TTL + 1) <= Older(map[i].used, TTL + 1)
      BY <3>1, <3>2, OlderGrows
    <3>4. new[j].used <= new[i].used
      BY <1>2, <1>3, <3>3, AgedEntry
    <3>5. new[i].used \in Nat /\ new[j].used \in Nat
      BY <1>4 DEF Entry, Ages
    <3> QED BY <3>4, <3>5
  <2> QED BY <2>1, <2>2, <2>3
<1> QED BY <1>1, <1>3, <1>5, <1>6, <1>7, <1>8 DEF Sound, ToSet, n

(* The contents a table has rows for. *)
Live(table) == {c \in Contents : table[c] # None}
Tables == [Contents -> Row \cup {None}]

(* What a restart loads: sound, within the cap, row by row, and every row if *)
(* all of them fit. *)
LEMMA LoadSound ==
  ASSUME NEW table \in Tables, IsFiniteSet(Live(table)), NEW map \in Loads(table)
  PROVE  /\ Sound(map) /\ Len(map) <= MaxEntries
         /\ \A e \in ToSet(map) :
              /\ e.content \in Live(table) /\ e.loaded
              /\ e.age = table[e.content].age /\ e.used = table[e.content].used
         /\ Cardinality(Live(table)) <= MaxEntries =>
              \A c \in Live(table) : Holds(map, c)
<1> DEFINE live == Live(table)
           Copy(s, i) == [content |-> s[i], age |-> table[s[i]].age,
                          used |-> table[s[i]].used, loaded |-> TRUE]
<1>0. PICK n \in 0 .. Cardinality(live) :
        \E s \in [1 .. n -> live] :
          /\ Len(s) = Min({Cardinality(live), MaxEntries})
          /\ IsInjective(s)
          /\ map = [i \in DOMAIN s |-> Copy(s, i)]
  BY DEF Loads, Live
<1>1. PICK s \in [1 .. n -> live] :
        /\ Len(s) = Min({Cardinality(live), MaxEntries})
        /\ IsInjective(s)
        /\ map = [i \in DOMAIN s |-> Copy(s, i)]
  BY <1>0
<1>2. Cardinality(live) \in Nat /\ MaxEntries \in Nat /\ n \in Nat
  BY FS_CardinalityType, ReuseAssumption
<1>3. DOMAIN s = 1 .. n /\ Len(s) = n
  <2>1. s \in Seq(live)
    BY <1>2, SeqDef
  <2>2. DOMAIN s = 1 .. Len(s) /\ Len(s) \in Nat /\ DOMAIN s = 1 .. n
    BY <2>1, LenProperties
  <2> QED BY <1>2, <2>2
<1>4. n <= MaxEntries /\ (Cardinality(live) <= MaxEntries => n = Cardinality(live))
  <2> DEFINE both == {Cardinality(live), MaxEntries}
  <2>1. Min(both) \in both /\ \A y \in both : Min(both) <= y
    BY <1>2, Smallest
  <2> QED BY <1>1, <1>2, <1>3, <2>1
<1>5. \A i \in 1 .. n : /\ s[i] \in live /\ s[i] \in Contents
                        /\ table[s[i]] \in Row
  BY DEF Live, Tables
<1>6. \A i \in 1 .. n : /\ map[i] \in Entry /\ map[i].content = s[i] /\ map[i].loaded
                        /\ map[i].age = table[s[i]].age /\ map[i].used = table[s[i]].used
  <2> SUFFICES ASSUME NEW i \in 1 .. n
               PROVE  /\ map[i] \in Entry /\ map[i].content = s[i] /\ map[i].loaded
                      /\ map[i].age = table[s[i]].age /\ map[i].used = table[s[i]].used
    OBVIOUS
  <2>1. map[i] = Copy(s, i)
    BY <1>1, <1>3
  <2>2. table[s[i]].age \in Ages /\ table[s[i]].used \in Ages /\ s[i] \in Contents
    BY <1>5 DEF Row
  <2>3. Copy(s, i) \in Entry
    BY <2>2 DEF Entry
  <2> QED BY <2>1, <2>3
<1>7. DOMAIN map = 1 .. n
  BY <1>1, <1>3
<1>8. map \in Seq(Entry) /\ Len(map) = n
  <2>1. map \in [1 .. n -> Entry]
    BY <1>1, <1>3, <1>6
  <2>2. map \in Seq(Entry)
    BY <1>2, <2>1, SeqDef
  <2>3. DOMAIN map = 1 .. Len(map) /\ Len(map) \in Nat
    BY <2>2, LenProperties
  <2> QED BY <1>2, <1>7, <2>2, <2>3
<1>9. Distinct(map) /\ InOrder(map)
  BY <1>1, <1>3, <1>6, <1>7 DEF Distinct, InOrder, IsInjective
<1>10. ASSUME Cardinality(live) <= MaxEntries, NEW c \in live PROVE Holds(map, c)
  <2>1. s \in Injection(1 .. n, live)
    BY <1>1, <1>3 DEF Injection, IsInjective
  <2>2. Cardinality(1 .. n) = Cardinality(live)
    <3>1. Cardinality(1 .. n) = IF 1 > n THEN 0 ELSE n - 1 + 1
      BY <1>2, FS_Interval
    <3> QED BY <1>2, <1>4, <1>10, <3>1
  <2>3. s \in Surjection(1 .. n, live)
    BY <2>1, <2>2, FS_Injection
  <2>4. PICK i \in 1 .. n : s[i] = c
    BY <2>3 DEF Surjection
  <2> QED BY <1>6, <1>7, <2>4 DEF Holds, ToSet
<1> HIDE DEF live, Copy
<1> QED BY <1>4, <1>5, <1>6, <1>7, <1>8, <1>9, <1>10 DEF Sound, ToSet, live

(***************************************************************************)
(* The queue                                                               *)
(***************************************************************************)

Fresh == [age |-> 0, used |-> 0]

(* Of the writes at places S of a queue, those that decide whether c has a row. *)
Deciding(queue, S, c) == {i \in S : c \in queue[i].contents /\ queue[i].op # "hits"}
(* The row they leave c, and whether hits come after them. *)
Decided(table, queue, S, c) ==
  IF \E i \in Deciding(queue, S, c) :
       queue[i].op = "put" /\ \A j \in Deciding(queue, S, c) : j <= i
  THEN Fresh
  ELSE IF Deciding(queue, S, c) = {} THEN table[c] ELSE None
HitSince(queue, S, c) ==
  \E i \in S : /\ c \in queue[i].contents /\ queue[i].op = "hits"
               /\ \A j \in Deciding(queue, S, c) : j < i
(* The table once the writes at the places S are applied. *)
Due(table, queue, S) ==
  [c \in Contents |->
     IF Decided(table, queue, S, c) # None /\ HitSince(queue, S, c)
     THEN [Decided(table, queue, S, c) EXCEPT !.used = 0]
     ELSE Decided(table, queue, S, c)]

(* A row just written is a row. *)
LEMMA FreshRow == Fresh \in Row /\ Fresh # None /\ None \notin Row
  BY ReuseAssumption DEF Fresh, Row, Ages

(* Hits leave a row its age. *)
LEMMA HitRow ==
  ASSUME NEW r \in Row
  PROVE  LET x == [r EXCEPT !.used = 0]
         IN  /\ x \in Row /\ x # None /\ x.age = r.age /\ x.used = 0
             /\ [x EXCEPT !.used = 0] = x
<1>1. 0 \in Ages
  BY ReuseAssumption DEF Ages
<1> QED BY <1>1, FreshRow DEF Row

(* A table stays a table. *)
LEMMA DueTable ==
  ASSUME NEW table \in Tables, NEW queue, NEW S
  PROVE  Due(table, queue, S) \in Tables
<1>1. \A c \in Contents : Decided(table, queue, S, c) \in Row \cup {None}
  BY FreshRow DEF Decided, Tables
<1>2. \A c \in Contents : Due(table, queue, S)[c] \in Row \cup {None}
  BY <1>1, HitRow DEF Due
<1>3. Due(table, queue, S) = [c \in Contents |-> Due(table, queue, S)[c]]
  BY DEF Due
<1> QED BY <1>2, <1>3 DEF Tables

(* Nothing queued, nothing changed. *)
LEMMA NothingDue ==
  ASSUME NEW table \in Tables, NEW queue
  PROVE  Due(table, queue, {}) = table
<1>1. \A c \in Contents : Deciding(queue, {}, c) = {} /\ ~HitSince(queue, {}, c)
  BY DEF Deciding, HitSince
<1>2. \A c \in Contents : Due(table, queue, {})[c] = table[c]
  BY <1>1 DEF Due, Decided
<1> QED BY <1>2, DueTable DEF Tables, Due

(* The last write is applied to what the others leave. *)
LEMMA LastApplied ==
  ASSUME NEW table \in Tables, NEW queue, NEW S \in SUBSET Nat, NEW n \in S,
         queue[n] \in Write, \A i \in S : i <= n
  PROVE  Due(table, queue, S) = Applied(Due(table, queue, S \ {n}), queue[n])
<1> DEFINE before == Due(table, queue, S \ {n})  after == Due(table, queue, S)
           w == queue[n]
<1>1. before \in Tables /\ after \in Tables
  BY DueTable
<1>2. w.op \in {"put", "delete", "hits"}
  BY DEF Write
<1>3. \A i \in S \ {n} : i < n
  OBVIOUS
<1> SUFFICES ASSUME NEW c \in Contents PROVE after[c] = Applied(before, w)[c]
  <2>1. after = [c \in Contents |-> after[c]]
    BY DEF Due
  <2>2. Applied(before, w) = [c \in Contents |-> Applied(before, w)[c]]
    BY DEF Applied
  <2> HIDE DEF after, before
  <2>3. after = Applied(before, w)
    BY <2>1, <2>2
  <2> QED BY <2>3 DEF after, before, w
<1> DEFINE D == Deciding(queue, S, c)  E == Deciding(queue, S \ {n}, c)
<1>4. CASE c \notin w.contents
  <2>1. D = E
    BY <1>4 DEF Deciding
  <2>2. HitSince(queue, S, c) = HitSince(queue, S \ {n}, c)
    BY <1>4, <2>1 DEF HitSince
  <2>3. Decided(table, queue, S, c) = Decided(table, queue, S \ {n}, c)
    BY <2>1 DEF Decided
  <2>4. after[c] = before[c]
    BY <2>2, <2>3 DEF Due
  <2> HIDE DEF after, before
  <2> QED BY <1>4, <2>4 DEF Applied
<1>5. CASE c \in w.contents /\ w.op # "hits"
  <2>1. n \in D /\ \A j \in D : j <= n
    BY <1>5 DEF Deciding
  <2>2. ~HitSince(queue, S, c)
    <3> SUFFICES ASSUME NEW i \in S, n < i PROVE FALSE
      BY <2>1 DEF HitSince
    <3> QED OBVIOUS
  <2>3. after[c] = Decided(table, queue, S, c)
    BY <2>2 DEF Due
  <2>4. CASE w.op = "put"
    <3>1. Decided(table, queue, S, c) = Fresh
      BY <2>1, <2>4 DEF Decided
    <3> HIDE DEF after, before
    <3>2. Applied(before, w)[c] = Fresh
      BY <1>5, <2>4 DEF Applied, Fresh
    <3> QED BY <2>3, <3>1, <3>2
  <2>5. CASE w.op = "delete"
    <3>1. ASSUME NEW i \in D, \A j \in D : j <= i PROVE queue[i].op # "put"
      <4>1. n <= i /\ i <= n /\ i \in Nat
        BY <2>1, <3>1 DEF Deciding
      <4>2. i = n
        BY <4>1
      <4> QED BY <2>5, <4>2
    <3>2. Decided(table, queue, S, c) = None
      BY <2>1, <3>1 DEF Decided
    <3> HIDE DEF after, before
    <3>3. Applied(before, w)[c] = None
      BY <1>5, <2>5 DEF Applied
    <3> QED BY <2>3, <3>2, <3>3
  <2> QED BY <1>2, <1>5, <2>4, <2>5
<1>6. CASE c \in w.contents /\ w.op = "hits"
  <2>1. D = E
    BY <1>6 DEF Deciding
  <2>2. HitSince(queue, S, c)
    <3>1. \A j \in D : j < n
      BY <1>3, <2>1 DEF Deciding
    <3> QED BY <1>6, <3>1 DEF HitSince
  <2> DEFINE d == Decided(table, queue, S, c)
  <2>3. d = Decided(table, queue, S \ {n}, c)
    BY <2>1 DEF Decided
  <2>4. d \in Row \cup {None}
    BY FreshRow DEF Decided, Tables
  <2>5. after[c] = IF d # None THEN [d EXCEPT !.used = 0] ELSE d
    BY <2>2 DEF Due
  <2>6. before[c] = IF d # None /\ HitSince(queue, S \ {n}, c) THEN [d EXCEPT !.used = 0] ELSE d
    BY <2>3 DEF Due
  <2> HIDE DEF after, before, d
  <2>7. Applied(before, w)[c] = IF before[c] = None THEN None ELSE [before[c] EXCEPT !.used = 0]
    BY <1>6 DEF Applied
  <2>8. CASE d = None
    BY <2>5, <2>6, <2>7, <2>8
  <2>9. CASE d # None
    <3>1. LET x == [d EXCEPT !.used = 0] IN x # None /\ [x EXCEPT !.used = 0] = x
      BY <2>4, <2>9, HitRow
    <3> QED BY <2>5, <2>6, <2>7, <2>9, <3>1
  <2> QED BY <2>8, <2>9
<1> QED BY <1>4, <1>5, <1>6

(* What draining a queue makes of a table. *)
LEMMA DrainIsDue ==
  ASSUME NEW table \in Tables, NEW queue \in Seq(Write)
  PROVE  FoldLeft(Applied, table, queue) = Due(table, queue, DOMAIN queue)
<1> DEFINE N == DOMAIN queue
           Body(g) == [s \in SUBSET N |->
             IF s = {} THEN table
             ELSE Applied(g[s \ {Max(s)}], queue[Max(s)])]
           due == [s \in SUBSET N |-> Due(table, queue, s)]
           iter == CHOOSE g : g = Body(g)
<1>1. FoldLeft(Applied, table, queue) = iter[N]
  BY DEF FoldLeft, MapThenFoldSet
<1>2. Len(queue) \in Nat /\ N = 1 .. Len(queue) /\ \A i \in N : queue[i] \in Write
  BY LenProperties, ElementOfSeq
<1> HIDE DEF N
<1>3. ASSUME NEW s \in SUBSET N, s # {}
      PROVE  /\ Max(s) \in s /\ s \ {Max(s)} \in SUBSET N
             /\ due[s] = Applied(due[s \ {Max(s)}], queue[Max(s)])
  <2>1. Max(s) \in s /\ \A y \in s : y <= Max(s)
    BY <1>2, <1>3, Largest
  <2>2. s \in SUBSET Nat /\ queue[Max(s)] \in Write
    <3>1. s \subseteq Nat
      BY <1>2
    <3>2. Max(s) \in N
      BY <2>1
    <3>3. queue[Max(s)] \in Write
      BY <1>2, <3>2
    <3> QED BY <3>1, <3>3
  <2>3. Due(table, queue, s) = Applied(Due(table, queue, s \ {Max(s)}), queue[Max(s)])
    BY <2>1, <2>2, LastApplied
  <2> QED BY <2>1, <2>3
<1>4. due[{}] = table
  BY NothingDue
<1> HIDE DEF due
<1>5. due = Body(due)
  <2> SUFFICES ASSUME NEW s \in SUBSET N PROVE due[s] = Body(due)[s]
    BY DEF due
  <2> QED BY <1>3, <1>4
<1>6. iter = Body(iter)
  BY <1>5
<1> HIDE DEF iter
<1> DEFINE Bad == {s \in SUBSET N : iter[s] # due[s]}
<1>7. Bad = {}
  <2> SUFFICES ASSUME Bad # {} PROVE FALSE
    OBVIOUS
  <2>1. Bad \in SUBSET SUBSET N /\ IsFiniteSet(N)
    BY <1>2, FS_Interval
  <2> HIDE DEF Bad
  <2>2. PICK s \in Bad : \A y \in s : s \ {y} \notin Bad
    BY <2>1, SmallestSubset
  <2> USE DEF Bad
  <2>3. s \in SUBSET N /\ s # {}
    BY <1>4, <1>6, <2>2
  <2>4. iter[s] = Applied(iter[s \ {Max(s)}], queue[Max(s)])
    BY <1>6, <2>3
  <2>5. iter[s \ {Max(s)}] = due[s \ {Max(s)}]
    BY <1>3, <2>2, <2>3
  <2> QED BY <1>3, <2>2, <2>3, <2>4, <2>5
<1>8. iter[N] = due[N]
  <2>1. N \notin Bad /\ N \in SUBSET N
    BY <1>7
  <2> QED BY <2>1
<1> QED BY <1>1, <1>8 DEF due, N

(* The table once a queue is drained. *)
Drained(table, queue) == Due(table, queue, DOMAIN queue)

(* An empty queue changes nothing. *)
LEMMA DrainEmpty ==
  ASSUME NEW table \in Tables
  PROVE  Drained(table, <<>>) = table
<1>1. DOMAIN <<>> = {}
  OBVIOUS
<1> QED BY <1>1, NothingDue DEF Drained

(* A write queued last is applied last. *)
LEMMA DrainLonger ==
  ASSUME NEW table \in Tables, NEW queue \in Seq(Write), NEW w \in Write
  PROVE  Drained(table, Append(queue, w)) = Applied(Drained(table, queue), w)
<1> DEFINE long == Append(queue, w)  n == Len(queue)  N == DOMAIN queue
<1>1. n \in Nat /\ N = 1 .. n
  BY LenProperties
<1>2. /\ long \in Seq(Write) /\ Len(long) = n + 1
      /\ \A i \in 1 .. n : long[i] = queue[i]
      /\ long[n + 1] = w
  BY AppendProperties
<1>3. DOMAIN long = 1 .. n + 1
  BY <1>2, LenProperties
<1> HIDE DEF long, n, N
<1>4. (1 .. n + 1) \ {n + 1} = N /\ n + 1 \in 1 .. n + 1 /\ 1 .. n + 1 \subseteq Nat
  BY <1>1
<1>5. Due(table, long, 1 .. n + 1) = Applied(Due(table, long, N), w)
  <2>1. \A i \in 1 .. n + 1 : i <= n + 1
    BY <1>1
  <2>2. Due(table, long, 1 .. n + 1)
          = Applied(Due(table, long, (1 .. n + 1) \ {n + 1}), long[n + 1])
    BY <1>2, <1>4, <2>1, LastApplied
  <2> QED BY <1>2, <1>4, <2>2
<1>6. Due(table, long, N) = Due(table, queue, N)
  <2>1. \A i \in N : long[i] = queue[i]
    BY <1>1, <1>2
  <2>2. ASSUME NEW c \in Contents
        PROVE  Due(table, long, N)[c] = Due(table, queue, N)[c]
    <3>1. Deciding(long, N, c) = Deciding(queue, N, c)
      BY <2>1 DEF Deciding
    <3>2. HitSince(long, N, c) = HitSince(queue, N, c)
      BY <2>1, <3>1 DEF HitSince
    <3>3. \A i \in Deciding(queue, N, c) : long[i].op = queue[i].op
      BY <2>1 DEF Deciding
    <3>4. Decided(table, long, N, c) = Decided(table, queue, N, c)
      BY <3>1, <3>3 DEF Decided
    <3> QED BY <3>2, <3>4 DEF Due
  <2>3. /\ Due(table, long, N) = [c \in Contents |-> Due(table, long, N)[c]]
        /\ Due(table, queue, N) = [c \in Contents |-> Due(table, queue, N)[c]]
    BY DEF Due
  <2> QED BY <2>2, <2>3
<1> QED BY <1>3, <1>5, <1>6 DEF Drained, long, N

(* Rows past their time, swept before a drain or after it: no other row tells. *)
LEMMA SweptDrain ==
  ASSUME NEW table \in Tables, NEW queue, NEW c \in Contents
  PROVE  LET a == Drained(table, queue)[c]
             b == Drained(Unexpired(table), queue)[c]
         IN  b = a \/ (b = None /\ a # None /\ a.age >= TTL)
<1> DEFINE N == DOMAIN queue  D == Deciding(queue, N, c)
           before == Decided(table, queue, N, c)  after == Decided(Unexpired(table), queue, N, c)
<1>1. CASE D # {}
  <2>1. after = before
    BY <1>1 DEF Decided
  <2> QED BY <2>1 DEF Drained, Due
<1>2. CASE D = {}
  <2>1. before = table[c] /\ after = Unexpired(table)[c]
    BY <1>2 DEF Decided
  <2>2. Unexpired(table)[c] = IF table[c] # None /\ table[c].age >= TTL THEN None ELSE table[c]
    BY DEF Unexpired
  <2>3. CASE ~(table[c] # None /\ table[c].age >= TTL)
    BY <2>1, <2>2, <2>3 DEF Drained, Due
  <2>4. CASE table[c] # None /\ table[c].age >= TTL
    <3>1. table[c] \in Row
      BY <2>4 DEF Tables
    <3>2. Drained(Unexpired(table), queue)[c] = None
      BY <2>1, <2>2, <2>4 DEF Drained, Due
    <3>3. \/ Drained(table, queue)[c] = table[c]
          \/ Drained(table, queue)[c] = [table[c] EXCEPT !.used = 0]
      BY <2>1 DEF Drained, Due
    <3>4. Drained(table, queue)[c] # None /\ Drained(table, queue)[c].age = table[c].age
      BY <2>4, <3>1, <3>3, HitRow
    <3> QED BY <2>4, <3>2, <3>4
  <2> QED BY <2>3, <2>4
<1> QED BY <1>1, <1>2

(* A queue gives rows to finitely many contents. *)
LEMMA FinitelyLive ==
  ASSUME NEW table \in Tables, IsFiniteSet(Live(table)), NEW queue \in Seq(Write)
  PROVE  IsFiniteSet(Live(Drained(table, queue)))
<1> DEFINE puts == {i \in DOMAIN queue : queue[i].op = "put"}
           sets == {queue[i].contents : i \in puts}
           f == [i \in puts |-> queue[i].contents]
<1>1. Len(queue) \in Nat /\ DOMAIN queue = 1 .. Len(queue) /\ \A i \in DOMAIN queue : queue[i] \in Write
  BY LenProperties, ElementOfSeq
<1>2. IsFiniteSet(puts)
  <2>1. IsFiniteSet(1 .. Len(queue)) /\ puts \in SUBSET (1 .. Len(queue))
    BY <1>1, FS_Interval
  <2> QED BY <2>1, FS_Subset
<1>3. IsFiniteSet(sets)
  <2>1. f \in Surjection(puts, sets)
    BY DEF Surjection
  <2> HIDE DEF f, puts, sets
  <2> QED BY <1>2, <2>1, FS_Surjection
<1>4. \A s \in sets : IsFiniteSet(s)
  <2> SUFFICES ASSUME NEW i \in puts PROVE IsFiniteSet(queue[i].contents)
    OBVIOUS
  <2>1. queue[i] \in Write /\ queue[i].op = "put"
    BY <1>1
  <2>2. PICK c \in Contents : queue[i].contents = {c}
    BY <2>1 DEF Write
  <2> QED BY <2>2, FS_Singleton
<1>5. IsFiniteSet(Live(table) \cup UNION sets)
  <2> HIDE DEF sets
  <2>1. IsFiniteSet(UNION sets)
    BY <1>3, <1>4, FS_UNION
  <2> QED BY <2>1, FS_Union
<1>6. ASSUME NEW c \in Contents, Drained(table, queue)[c] # None
      PROVE  c \in Live(table) \cup UNION sets
  <2> DEFINE D == Deciding(queue, DOMAIN queue, c)
  <2>1. Decided(table, queue, DOMAIN queue, c) # None
    BY <1>6 DEF Drained, Due
  <2>2. CASE \E i \in D : queue[i].op = "put"
    BY <2>2 DEF Deciding
  <2>3. CASE ~\E i \in D : queue[i].op = "put"
    BY <2>1, <2>3 DEF Decided, Live
  <2> QED BY <2>2, <2>3
<1>7. Live(Drained(table, queue)) \in SUBSET (Live(table) \cup UNION sets)
  <2> HIDE DEF sets
  <2> QED BY <1>6 DEF Live
<1> HIDE DEF sets
<1> QED BY <1>5, <1>7, FS_Subset

(***************************************************************************)
(* Memory and table                                                        *)
(***************************************************************************)

(* What the map of JSON answers and the table it is mirrored in have to do   *)
(* with each other: as far as an answer may still be served it has a row of  *)
(* its age and, unless a hit is waiting for the timer, its last use, and a   *)
(* row has its answer.                                                       *)
Mirrors(map, table, dirty) ==
  /\ \A e \in ToSet(map) : e.age < TTL =>
       /\ table[e.content] # None /\ table[e.content].age = e.age
       /\ e.content \notin dirty => table[e.content].used = e.used
  /\ \A e \in ToSet(map) : e.content \in dirty => e.used = 0
  /\ \A c \in Contents : table[c] # None /\ table[c].age < TTL => Holds(map, c)

(* The entries of a map. *)
LEMMA EntriesOf ==
  ASSUME NEW map, Sound(map)
  PROVE  /\ \A e \in ToSet(map) : /\ e \in Entry /\ e.content \in Contents
                                  /\ e.age \in Nat /\ e.used \in Nat
         /\ \A e, f \in ToSet(map) : e.content = f.content => e = f
         /\ Len(map) \in Nat
<1>1. ToSet(map) \subseteq Entry
  BY ElementOfSeq, LenProperties DEF Sound, ToSet
<1>2. \A e, f \in ToSet(map) : e.content = f.content => e = f
  BY DEF Sound, Distinct, ToSet
<1>3. Len(map) \in Nat
  BY LenProperties DEF Sound
<1> QED BY <1>1, <1>2, <1>3 DEF Entry, Ages

(* The writes of this code. *)
LEMMA Writes ==
  ASSUME NEW c \in Contents
  PROVE  /\ Put(c) \in Write /\ Put(c).op = "put" /\ Put(c).contents = {c}
         /\ Delete(c) \in Write /\ Delete(c).op = "delete" /\ Delete(c).contents = {c}
  BY DEF Put, Delete, Write

(* What the writes of one content do. *)
LEMMA WritesApplied ==
  ASSUME NEW table, NEW c \in Contents, NEW d \in Contents
  PROVE  /\ Applied(table, Put(c))[d] = IF d = c THEN Fresh ELSE table[d]
         /\ Applied(table, Delete(c))[d] = IF d = c THEN None ELSE table[d]
<1>1. CASE d = c
  BY <1>1, Writes DEF Applied, Fresh
<1>2. CASE d # c
  BY <1>2, Writes DEF Applied
<1> QED BY <1>1, <1>2

(* An answer and its row go together. *)
LEMMA MirrorWithout ==
  ASSUME NEW map, Sound(map), NEW table, NEW dirty, Mirrors(map, table, dirty),
         NEW c \in Contents, NEW new, Sound(new),
         \A e \in ToSet(new) : e \in ToSet(map) /\ e.content # c,
         \A e \in ToSet(map) : e.content # c => e \in ToSet(new)
  PROVE  Mirrors(new, Applied(table, Delete(c)), dirty)
<1> DEFINE after == Applied(table, Delete(c))
<1>1. \A d \in Contents : after[d] = IF d = c THEN None ELSE table[d]
  BY WritesApplied
<1> HIDE DEF after
<1>2. ASSUME NEW e \in ToSet(new)
      PROVE  after[e.content] = table[e.content] /\ e \in ToSet(map)
  BY <1>1, EntriesOf
<1>3. ASSUME NEW d \in Contents, after[d] # None, after[d].age < TTL
      PROVE  Holds(new, d)
  <2>1. d # c /\ after[d] = table[d]
    BY <1>1, <1>3
  <2>2. Holds(map, d)
    BY <1>3, <2>1 DEF Mirrors
  <2> QED BY <2>1, <2>2 DEF Holds
<1> QED BY <1>2, <1>3 DEF Mirrors, after

(* An answer and its row come together. *)
LEMMA MirrorStored ==
  ASSUME NEW map, Sound(map), NEW table, NEW dirty, Mirrors(map, table, dirty),
         NEW c \in Contents
  PROVE  Mirrors(Stored(map, c), Applied(table, Put(c)), dirty \ {c})
<1> DEFINE after == Applied(table, Put(c))  new == Stored(map, c)  e0 == NewEntry(c)
<1>1. \A d \in Contents : after[d] = IF d = c THEN Fresh ELSE table[d]
  BY WritesApplied
<1>2. /\ \A e \in ToSet(new) : e = e0 \/ (e \in ToSet(map) /\ e.content # c)
      /\ \A e \in ToSet(map) : e.content # c => e \in ToSet(new)
      /\ e0 \in ToSet(new)
  BY StoredSound
<1>3. e0.content = c /\ e0.age = 0 /\ e0.used = 0
  BY DEF NewEntry
<1>4. Fresh # None /\ Fresh.age = 0 /\ Fresh.used = 0
  BY FreshRow DEF Fresh
<1> HIDE DEF after, new, e0
<1>5. ASSUME NEW e \in ToSet(new), e.age < TTL
      PROVE  /\ after[e.content] # None /\ after[e.content].age = e.age
             /\ e.content \notin dirty \ {c} => after[e.content].used = e.used
  <2>1. CASE e = e0
    BY <1>1, <1>3, <1>4, <2>1
  <2>2. CASE e \in ToSet(map) /\ e.content # c
    <3>1. after[e.content] = table[e.content]
      BY <1>1, <2>2, EntriesOf
    <3> QED BY <1>5, <2>2, <3>1 DEF Mirrors
  <2> QED BY <1>2, <2>1, <2>2
<1>6. ASSUME NEW e \in ToSet(new), e.content \in dirty \ {c}
      PROVE  e.used = 0
  BY <1>2, <1>3, <1>6 DEF Mirrors
<1>7. ASSUME NEW d \in Contents, after[d] # None, after[d].age < TTL
      PROVE  Holds(new, d)
  <2>1. CASE d = c
    BY <1>2, <1>3, <2>1 DEF Holds
  <2>2. CASE d # c
    <3>1. Holds(map, d)
      BY <1>1, <1>7, <2>2 DEF Mirrors
    <3> QED BY <1>2, <2>2, <3>1 DEF Holds
  <2> QED BY <2>1, <2>2
<1> QED BY <1>5, <1>6, <1>7 DEF Mirrors, after, new

(* A write queued for the table: only with the cache on. *)
LEMMA Queued ==
  ASSUME rows \in Tables, NEW queue \in Seq(Write), NEW w \in Write
  PROVE  /\ schedulePersist(queue, w) \in Seq(Write)
         /\ enabled => Drained(rows, schedulePersist(queue, w)) = Applied(Drained(rows, queue), w)
  BY DrainLonger, AppendProperties DEF schedulePersist

(* What a caller queues behind. *)
LEMMA QueuedBehind ==
  ASSUME rows \in Tables, NEW queue \in Seq(Write), NEW w \in Write
  PROVE  /\ queue \o <<>> = queue
         /\ queue \o <<w>> \in Seq(Write)
         /\ Drained(rows, queue \o <<w>>) = Applied(Drained(rows, queue), w)
<1>1. queue \o <<w>> = Append(queue, w) /\ queue \o <<>> = queue
  OBVIOUS
<1>2. Append(queue, w) \in Seq(Write)
  BY AppendProperties
<1>3. Drained(rows, Append(queue, w)) = Applied(Drained(rows, queue), w)
  BY DrainLonger
<1> QED BY <1>1, <1>2, <1>3

(* Writes of different contents may change places. *)
LEMMA WritesCommute ==
  ASSUME NEW table, NEW c \in Contents, NEW d \in Contents, c # d
  PROVE  Applied(Applied(table, Delete(d)), Put(c)) = Applied(Applied(table, Put(c)), Delete(d))
<1> DEFINE deleted == Applied(table, Delete(d))  put == Applied(table, Put(c))
<1>1. \A x \in Contents : /\ deleted[x] = IF x = d THEN None ELSE table[x]
                          /\ put[x] = IF x = c THEN Fresh ELSE table[x]
  BY WritesApplied
<1> HIDE DEF deleted, put
<1>2. \A x \in Contents : Applied(deleted, Put(c))[x] = Applied(put, Delete(d))[x]
  BY <1>1, WritesApplied
<1>3. Applied(deleted, Put(c)) = Applied(put, Delete(d))
  BY <1>2 DEF Applied
<1> QED BY <1>3 DEF deleted, put

(* The empty map. *)
LEMMA EmptySound == Sound(<<>>) /\ Len(<<>>) = 0 /\ ToSet(<<>>) = {}
<1>1. <<>> \in Seq(Entry) /\ Len(<<>>) = 0 /\ DOMAIN <<>> = {}
  BY EmptySeq
<1> QED BY <1>1 DEF Sound, Distinct, InOrder, ToSet

(* What makes room is never the answer just stored. *)
LEMMA SparesTheNew ==
  ASSUME NEW json, Sound(json), json # <<>>, NEW stream, Sound(stream),
         MaxEntries # 0, Len(json) + Len(stream) > MaxEntries,
         FrontOlder(json, stream, json[Len(json)].content)
  PROVE  Head(json).content # json[Len(json)].content
<1>1. CASE stream # <<>>
  BY <1>1 DEF FrontOlder
<1>2. CASE stream = <<>>
  <2>1. /\ json \in Seq(Entry) /\ Len(json) \in Nat /\ MaxEntries \in Nat
        /\ Len(stream) = 0
    BY <1>2, ReuseAssumption, EmptySound, EntriesOf DEF Sound
  <2>2. Len(json) >= 2
    BY <2>1
  <2>3. 1 \in DOMAIN json /\ Len(json) \in DOMAIN json /\ 1 # Len(json)
    BY <2>1, <2>2
  <2>4. Head(json) = json[1]
    BY <2>1, <2>2
  <2> QED BY <2>3, <2>4 DEF Sound, Distinct
<1> QED BY <1>1, <1>2

(* Making room keeps both maps sound, within the cap, and the table a mirror *)
(* of what the queue holds at the end.                                       *)
LEMMA EnforceKeeps ==
  ASSUME rows \in Tables, NEW json, Sound(json), NEW stream, Sound(stream),
         Len(json) + Len(stream) <= MaxEntries + 1, pending \in Seq(Write),
         NEW newJson, NEW newStream, NEW later,
         \/ later = <<>>
         \/ /\ later = <<Put(newJson)>> /\ newJson \in Contents /\ MaxEntries # 0
            /\ json # <<>> /\ json[Len(json)].content = newJson,
         enforceCombinedCap(json, newJson, stream, newStream, later)
  PROVE  /\ Sound(store') /\ Sound(streamStore')
         /\ Len(store') + Len(streamStore') <= MaxEntries
         /\ pending' \in Seq(Write)
         /\ \A dirty : enabled /\ Mirrors(json, Drained(rows, pending \o later), dirty) =>
              Mirrors(store', Drained(rows, pending'), dirty)
<1> DEFINE queue == pending \o later
<1>1. Len(json) \in Nat /\ Len(stream) \in Nat /\ MaxEntries \in Nat
  BY EntriesOf, ReuseAssumption
<1>2. queue \in Seq(Write)
  <2>1. CASE later = <<>>
    BY <2>1
  <2>2. CASE later # <<>>
    BY <2>2, Writes, QueuedBehind
  <2> QED BY <2>1, <2>2
<1>3. CASE /\ Len(json) + Len(stream) <= MaxEntries
           /\ store' = json /\ streamStore' = stream /\ pending' = queue
  BY <1>2, <1>3
<1>4. CASE /\ Len(json) + Len(stream) > MaxEntries
           /\ FrontOlder(stream, json, newStream)
           /\ store' = json /\ streamStore' = Tail(stream) /\ pending' = queue
  <2> DEFINE rest == Tail(stream)
  <2>1. Sound(rest) /\ Len(rest) = Len(stream) - 1
    BY <1>4, TailSound DEF FrontOlder
  <2> HIDE DEF rest
  <2>2. Len(json) + Len(rest) <= MaxEntries
    BY <1>1, <2>1
  <2> QED BY <1>2, <1>4, <2>1, <2>2 DEF rest
<1>5. CASE /\ Len(json) + Len(stream) > MaxEntries
           /\ FrontOlder(json, stream, newJson)
           /\ store' = Tail(json) /\ streamStore' = stream
           /\ pending' = schedulePersist(pending, Delete(Head(json).content)) \o later
  <2> DEFINE c == Head(json).content  rest == Tail(json)
             evicted == schedulePersist(pending, Delete(c))
  <2>1. /\ Sound(rest) /\ Len(rest) = Len(json) - 1
        /\ ToSet(json) = ToSet(rest) \cup {Head(json)}
        /\ \A e \in ToSet(rest) : e.content # c
    BY <1>5, TailSound DEF FrontOlder
  <2>2. c \in Contents
    BY <2>1, EntriesOf
  <2>3. Len(rest) + Len(stream) <= MaxEntries
    BY <1>1, <2>1
  <2>4. /\ evicted \in Seq(Write)
        /\ enabled => Drained(rows, evicted) = Applied(Drained(rows, pending), Delete(c))
    BY <2>2, Writes, Queued
  <2>5. pending' = evicted \o later
    BY <1>5
  <2> HIDE DEF evicted
  <2>6. /\ pending' \in Seq(Write)
        /\ enabled => Drained(rows, pending') = Applied(Drained(rows, queue), Delete(c))
    <3>1. CASE later = <<>>
      <4>1. pending' = evicted /\ queue = pending
        BY <2>4, <2>5, <3>1
      <4> QED BY <2>4, <4>1
    <3>2. CASE later # <<>>
      <4>1. later = <<Put(newJson)>> /\ newJson \in Contents /\ Put(newJson) \in Write
        BY <3>2, Writes
      <4>2. c # newJson
        BY <1>5, <3>2, SparesTheNew
      <4>3. /\ pending' \in Seq(Write)
            /\ Drained(rows, pending') = Applied(Drained(rows, evicted), Put(newJson))
            /\ Drained(rows, queue) = Applied(Drained(rows, pending), Put(newJson))
        BY <2>4, <2>5, <4>1, QueuedBehind
      <4> HIDE DEF c, queue
      <4>4. Applied(Applied(Drained(rows, pending), Delete(c)), Put(newJson))
              = Applied(Applied(Drained(rows, pending), Put(newJson)), Delete(c))
        BY <2>2, <4>1, <4>2, WritesCommute
      <4> QED BY <2>4, <4>3, <4>4
    <3> QED BY <3>1, <3>2
  <2>7. ASSUME NEW dirty, enabled, Mirrors(json, Drained(rows, queue), dirty)
        PROVE  Mirrors(rest, Drained(rows, pending'), dirty)
    <3>1. /\ \A e \in ToSet(rest) : e \in ToSet(json) /\ e.content # c
          /\ \A e \in ToSet(json) : e.content # c => e \in ToSet(rest)
      BY <2>1
    <3> HIDE DEF c, rest, queue
    <3>2. Mirrors(rest, Applied(Drained(rows, queue), Delete(c)), dirty)
      BY <2>1, <2>2, <2>7, <3>1, MirrorWithout
    <3> QED BY <2>6, <2>7, <3>2
  <2> QED BY <1>5, <2>1, <2>3, <2>6, <2>7
<1> QED BY <1>3, <1>4, <1>5 DEF enforceCombinedCap

CacheTypeOK ==
  /\ enabled \in BOOLEAN /\ flushed \in BOOLEAN /\ undisturbed \in BOOLEAN
  /\ Sound(store) /\ Sound(streamStore)
  /\ dirtyHits \subseteq Contents
  /\ pending \in Seq(Write)
  /\ rows \in Tables /\ IsFiniteSet(Live(rows))

(* Until it is disturbed the table mirrors memory, the writes on their way   *)
(* to it included.                                                           *)
Mirrored == undisturbed => enabled /\ Mirrors(store, Drained(rows, pending), dirtyHits)

CacheInv == CacheTypeOK /\ CombinedCap /\ Mirrored

cacheVars == <<enabled, store, streamStore, dirtyHits, pending, rows, flushed, undisturbed>>

(* A map without entries is the empty one. *)
LEMMA NoEntries ==
  ASSUME NEW map, Sound(map), Len(map) <= 0
  PROVE  map = <<>>
  BY EmptySeq, LenProperties DEF Sound

(* A hit. *)
LEMMA HitKeeps ==
  ASSUME CacheInv, NEW a \in Arrival, CacheHit(a)
  PROVE  CacheInv'
<1> DEFINE c == a.content
<1>1. c \in Contents /\ UNCHANGED <<enabled, pending, rows, flushed, undisturbed>>
  BY DEF Arrival, CacheHit, history
<1>2. Sound(store) /\ Sound(streamStore) /\ Holds(MapFor(a), c)
  BY DEF CacheInv, CacheTypeOK, CacheHit, Hits, Usable
<1>3. CASE a.stream
  <2>1. streamStore' = HitOn(streamStore, c) /\ UNCHANGED <<store, dirtyHits>> /\ Holds(streamStore, c)
    BY <1>2, <1>3 DEF CacheHit, MapFor
  <2>2. Sound(streamStore') /\ Len(streamStore') = Len(streamStore)
    BY <1>2, <2>1, HitSound
  <2> QED BY <1>1, <2>1, <2>2 DEF CacheInv, CacheTypeOK, CombinedCap, Mirrored
<1>4. CASE ~a.stream
  <2>1. store' = HitOn(store, c) /\ dirtyHits' = dirtyHits \cup {c} /\ UNCHANGED streamStore /\ Holds(store, c)
    BY <1>2, <1>4 DEF CacheHit, MapFor
  <2>2. /\ Sound(store') /\ Len(store') = Len(store)
        /\ \A e \in ToSet(store') :
             \/ e.content = c /\ e.used = 0 /\ e.age = Find(store, c).age
             \/ e \in ToSet(store) /\ e.content # c
        /\ \A e \in ToSet(store) : Holds(store', e.content)
    BY <1>2, <2>1, HitSound
  <2>3. CacheTypeOK' /\ CombinedCap'
    BY <1>1, <2>1, <2>2 DEF CacheInv, CacheTypeOK, CombinedCap
  <2>4. ASSUME NEW table, Mirrors(store, table, dirtyHits)
        PROVE  Mirrors(store', table, dirtyHits')
    <3>1. Find(store, c) \in ToSet(store) /\ Find(store, c).content = c
      BY <1>2, <2>1, Found
    <3>2. ASSUME NEW e \in ToSet(store'), e.age < TTL
          PROVE  /\ table[e.content] # None /\ table[e.content].age = e.age
                 /\ e.content \notin dirtyHits' => table[e.content].used = e.used
      BY <2>1, <2>2, <2>4, <3>1, <3>2 DEF Mirrors
    <3>3. \A e \in ToSet(store') : e.content \in dirtyHits' => e.used = 0
      BY <2>1, <2>2, <2>4 DEF Mirrors
    <3>4. \A d \in Contents : table[d] # None /\ table[d].age < TTL => Holds(store', d)
      BY <2>2, <2>4 DEF Mirrors, Holds
    <3> QED BY <3>2, <3>3, <3>4 DEF Mirrors
  <2>5. Mirrored'
    BY <1>1, <2>4 DEF CacheInv, Mirrored
  <2> QED BY <2>3, <2>5 DEF CacheInv
<1> QED BY <1>3, <1>4

(* A lookup that finds nothing it can use. *)
LEMMA MissKeeps ==
  ASSUME CacheInv, NEW a \in Arrival, Miss(a), UNCHANGED <<flushed, undisturbed>>
  PROVE  CacheInv'
<1> DEFINE c == a.content
<1>1. c \in Contents /\ UNCHANGED <<enabled, dirtyHits, rows>>
  BY DEF Arrival, Miss
<1>2. Sound(store) /\ Sound(streamStore) /\ Len(store) \in Nat /\ Len(streamStore) \in Nat /\ MaxEntries \in Nat
  BY EntriesOf, ReuseAssumption DEF CacheInv, CacheTypeOK
<1>3. \/ UNCHANGED <<store, streamStore, pending>>
      \/ streamStore' = Without(streamStore, c) /\ UNCHANGED <<store, pending>>
      \/ store' = Without(store, c) /\ UNCHANGED streamStore /\ pending' = schedulePersist(pending, Delete(c))
  BY DEF Miss
<1>4. CASE UNCHANGED <<store, streamStore, pending>>
  BY <1>1, <1>4 DEF CacheInv, CacheTypeOK, CombinedCap, Mirrored
<1>5. CASE streamStore' = Without(streamStore, c) /\ UNCHANGED <<store, pending>>
  <2> DEFINE W == Without(streamStore, c)
  <2>1. Sound(W) /\ Len(W) \in Nat /\ Len(W) <= Len(streamStore)
    BY <1>2, WithoutSound
  <2> HIDE DEF W
  <2>2. Len(store) + Len(W) <= MaxEntries
    BY <1>2, <2>1 DEF CacheInv, CombinedCap
  <2>3. streamStore' = W
    BY <1>5 DEF W
  <2> QED BY <1>1, <1>5, <2>1, <2>2, <2>3 DEF CacheInv, CacheTypeOK, CombinedCap, Mirrored
<1>6. CASE store' = Without(store, c) /\ UNCHANGED streamStore /\ pending' = schedulePersist(pending, Delete(c))
  <2> DEFINE W == Without(store, c)
  <2>1. /\ Sound(W) /\ Len(W) \in Nat /\ Len(W) <= Len(store)
        /\ \A e \in ToSet(W) : e \in ToSet(store) /\ e.content # c
        /\ \A e \in ToSet(store) : e.content # c => e \in ToSet(W)
    BY <1>2, WithoutSound
  <2> HIDE DEF W
  <2>2. Len(W) + Len(streamStore) <= MaxEntries
    BY <1>2, <2>1 DEF CacheInv, CombinedCap
  <2>3. store' = W
    BY <1>6 DEF W
  <2>4. /\ pending' \in Seq(Write)
        /\ enabled => Drained(rows, pending') = Applied(Drained(rows, pending), Delete(c))
    BY <1>1, <1>6, Writes, Queued DEF CacheInv, CacheTypeOK
  <2>5. ASSUME undisturbed PROVE enabled /\ Mirrors(W, Drained(rows, pending'), dirtyHits)
    <3>1. enabled /\ Mirrors(store, Drained(rows, pending), dirtyHits)
      BY <2>5 DEF CacheInv, Mirrored
    <3> HIDE DEF c
    <3>2. Mirrors(W, Applied(Drained(rows, pending), Delete(c)), dirtyHits)
      BY <1>1, <1>2, <2>1, <3>1, MirrorWithout
    <3> QED BY <2>4, <3>1, <3>2
  <2>6. Mirrored'
    BY <1>1, <2>3, <2>5 DEF Mirrored
  <2> QED BY <1>1, <1>6, <2>1, <2>2, <2>3, <2>4, <2>6 DEF CacheInv, CacheTypeOK, CombinedCap
<1> QED BY <1>3, <1>4, <1>5, <1>6

(* An answer is stored. *)
LEMMA StoreKeeps ==
  ASSUME CacheInv, NEW c \in Contents, storeCachedResponse(c),
         UNCHANGED <<enabled, rows, undisturbed>>, flushed' \in BOOLEAN
  PROVE  CacheInv'
<1> DEFINE json == Stored(store, c)
           later == IF MaxEntries = 0 THEN <<>> ELSE schedulePersist(<<>>, Put(c))
           queue == pending \o later
<1>1. /\ Sound(store) /\ Sound(streamStore) /\ Len(store) \in Nat /\ Len(streamStore) \in Nat
      /\ MaxEntries \in Nat /\ rows \in Tables /\ pending \in Seq(Write)
      /\ Len(store) + Len(streamStore) <= MaxEntries
  BY EntriesOf, ReuseAssumption DEF CacheInv, CacheTypeOK, CombinedCap
<1>2. /\ Sound(json) /\ Len(json) <= Len(store) + 1
      /\ json # <<>> /\ json[Len(json)].content = c
  BY <1>1, StoredSound
<1>3. Len(json) \in Nat
  BY <1>2, EntriesOf
<1>4. dirtyHits' = dirtyHits \ {c} /\ enforceCombinedCap(json, c, streamStore, None, later)
  BY DEF storeCachedResponse
<1>5. /\ later = <<>> \/ (later = <<Put(c)>> /\ MaxEntries # 0)
      /\ MaxEntries # 0 /\ enabled => Drained(rows, queue) = Applied(Drained(rows, pending), Put(c))
  <2>1. schedulePersist(<<>>, Put(c)) = IF enabled THEN <<Put(c)>> ELSE <<>>
    BY DEF schedulePersist
  <2> QED BY <1>1, <2>1, Writes, QueuedBehind
<1> HIDE DEF json, later
<1>6. Len(json) + Len(streamStore) <= MaxEntries + 1
  BY <1>1, <1>2, <1>3
<1>7. /\ Sound(store') /\ Sound(streamStore')
      /\ Len(store') + Len(streamStore') <= MaxEntries
      /\ pending' \in Seq(Write)
      /\ \A dirty : enabled /\ Mirrors(json, Drained(rows, queue), dirty) =>
           Mirrors(store', Drained(rows, pending'), dirty)
  BY <1>1, <1>2, <1>4, <1>5, <1>6, EnforceKeeps
<1> HIDE DEF queue
<1>8. CacheTypeOK' /\ CombinedCap'
  BY <1>4, <1>7 DEF CacheInv, CacheTypeOK, CombinedCap
<1>9. ASSUME undisturbed PROVE enabled /\ Mirrors(store', Drained(rows, pending'), dirtyHits')
  <2>1. enabled /\ Mirrors(store, Drained(rows, pending), dirtyHits)
    BY <1>9 DEF CacheInv, Mirrored
  <2>2. CASE MaxEntries # 0
    <3>1. Mirrors(json, Applied(Drained(rows, pending), Put(c)), dirtyHits \ {c})
      BY <1>1, <2>1, MirrorStored DEF json
    <3> QED BY <1>4, <1>5, <1>7, <2>1, <2>2, <3>1
  <2>3. CASE MaxEntries = 0
    <3>1. store = <<>> /\ streamStore = <<>> /\ later = <<>>
      BY <1>1, <2>3, NoEntries DEF later
    <3>2. store' = <<>>
      <4>1. Len(store') \in Nat /\ Len(streamStore') \in Nat
        BY <1>7, EntriesOf
      <4>2. Len(store') <= 0
        BY <1>7, <2>3, <4>1
      <4> QED BY <1>7, <4>2, NoEntries
    <3>3. \/ pending' = pending
          \/ json # <<>> /\ pending' = schedulePersist(pending, Delete(Head(json).content))
      <4>1. \/ pending' = pending \o <<>>
            \/ /\ json # <<>>
               /\ pending' = schedulePersist(pending, Delete(Head(json).content)) \o <<>>
        BY <1>4, <3>1 DEF enforceCombinedCap, FrontOlder
      <4>2. pending \o <<>> = pending
        BY <1>1
      <4>3. ASSUME json # <<>>
            PROVE  LET sent == schedulePersist(pending, Delete(Head(json).content))
                   IN  sent \o <<>> = sent
        <5>1. Head(json).content \in Contents
          BY <1>2, <4>3, TailSound, EntriesOf
        <5>2. schedulePersist(pending, Delete(Head(json).content)) \in Seq(Write)
          BY <1>1, <5>1, Writes, Queued
        <5> QED BY <5>2
      <4> QED BY <4>1, <4>2, <4>3
    <3>4. \A d \in Contents : Drained(rows, pending)[d] # None => ~(Drained(rows, pending)[d].age < TTL)
      BY <2>1, <3>1, EmptySound DEF Mirrors, Holds
    <3>5. \A d \in Contents : \/ Drained(rows, pending')[d] = Drained(rows, pending)[d]
                              \/ Drained(rows, pending')[d] = None
      <4>1. CASE json # <<>> /\ pending' = schedulePersist(pending, Delete(Head(json).content))
        <5> DEFINE x == Head(json).content
        <5>1. x \in Contents
          BY <1>2, <4>1, TailSound, EntriesOf
        <5> HIDE DEF x
        <5>2. Drained(rows, pending') = Applied(Drained(rows, pending), Delete(x))
          BY <1>1, <2>1, <4>1, <5>1, Writes, Queued DEF x
        <5> QED BY <5>1, <5>2, WritesApplied
      <4> QED BY <3>3, <4>1
    <3> QED BY <2>1, <3>2, <3>4, <3>5, EmptySound DEF Mirrors
  <2> QED BY <2>2, <2>3
<1>10. Mirrored'
  BY <1>9 DEF Mirrored
<1> QED BY <1>8, <1>10 DEF CacheInv

(* A stream is stored. *)
LEMMA StoreStreamKeeps ==
  ASSUME CacheInv, NEW c \in Contents, storeCachedStreamResponse(c),
         UNCHANGED <<enabled, rows, undisturbed>>, flushed' \in BOOLEAN
  PROVE  CacheInv'
<1> DEFINE stream == Stored(streamStore, c)
<1>1. /\ Sound(store) /\ Sound(streamStore) /\ Len(store) \in Nat /\ Len(streamStore) \in Nat
      /\ MaxEntries \in Nat /\ rows \in Tables /\ pending \in Seq(Write)
      /\ Len(store) + Len(streamStore) <= MaxEntries
  BY EntriesOf, ReuseAssumption DEF CacheInv, CacheTypeOK, CombinedCap
<1>2. Sound(stream) /\ Len(stream) <= Len(streamStore) + 1
  BY <1>1, StoredSound
<1>3. Len(stream) \in Nat
  BY <1>2, EntriesOf
<1>4. dirtyHits' = dirtyHits /\ enforceCombinedCap(store, None, stream, c, <<>>)
  BY DEF storeCachedStreamResponse
<1> HIDE DEF stream
<1>5. Len(store) + Len(stream) <= MaxEntries + 1
  BY <1>1, <1>2, <1>3
<1>6. /\ Sound(store') /\ Sound(streamStore')
      /\ Len(store') + Len(streamStore') <= MaxEntries
      /\ pending' \in Seq(Write)
      /\ \A dirty : enabled /\ Mirrors(store, Drained(rows, pending), dirty) =>
           Mirrors(store', Drained(rows, pending'), dirty)
  <2>1. pending \o <<>> = pending
    BY <1>1
  <2> QED BY <1>1, <1>2, <1>4, <1>5, <2>1, EnforceKeeps
<1>7. CacheTypeOK' /\ CombinedCap'
  BY <1>4, <1>6 DEF CacheInv, CacheTypeOK, CombinedCap
<1>8. Mirrored'
  BY <1>4, <1>6 DEF CacheInv, Mirrored
<1> QED BY <1>7, <1>8 DEF CacheInv

(* The provider answers. *)
LEMMA AnswerCached ==
  ASSUME RetryInv, CacheInv, NEW r \in Slots, Answer(r)
  PROVE  CacheInv'
<1> DEFINE q == request[r]
<1>1. q.content \in Contents
  BY DEF RetryInv, ClaimsTypeOK, Answer, Waiting
<1>2. UNCHANGED <<enabled, rows, undisturbed>>
  BY DEF Answer
<1>3. CASE ~q.caching
  BY <1>2, <1>3 DEF Answer, CacheInv, CacheTypeOK, CombinedCap, Mirrored
<1>4. CASE q.caching /\ q.stream
  <2>1. storeCachedStreamResponse(q.content) /\ flushed' = FALSE
    BY <1>4 DEF Answer
  <2> HIDE DEF q
  <2> QED BY <1>1, <1>2, <2>1, StoreStreamKeeps
<1>5. CASE q.caching /\ ~q.stream
  <2>1. storeCachedResponse(q.content) /\ flushed' = FALSE
    BY <1>5 DEF Answer
  <2> HIDE DEF q
  <2> QED BY <1>1, <1>2, <2>1, StoreKeeps
<1> QED BY <1>3, <1>4, <1>5

(* The queue reaches the table. *)
LEMMA DrainKeeps ==
  ASSUME CacheInv, drainPendingWrites
  PROVE  CacheInv'
<1>1. rows \in Tables /\ pending \in Seq(Write) /\ IsFiniteSet(Live(rows))
  BY DEF CacheInv, CacheTypeOK
<1>2. /\ rows' = Drained(rows, pending) /\ pending' = <<>>
      /\ UNCHANGED <<enabled, store, streamStore, dirtyHits, flushed, undisturbed>>
  BY <1>1, DrainIsDue DEF drainPendingWrites, Drained, history
<1>3. rows' \in Tables /\ IsFiniteSet(Live(rows'))
  BY <1>1, <1>2, DueTable, FinitelyLive DEF Drained
<1>4. Drained(rows', pending') = Drained(rows, pending)
  BY <1>2, <1>3, DrainEmpty
<1>5. pending' \in Seq(Write)
  BY <1>2, EmptySeq
<1>6. CacheTypeOK' /\ CombinedCap'
  BY <1>2, <1>3, <1>5 DEF CacheInv, CacheTypeOK, CombinedCap, Live
<1>7. Mirrored'
  BY <1>2, <1>4 DEF CacheInv, Mirrored
<1> QED BY <1>6, <1>7 DEF CacheInv

(* The timer queues the hits. *)
LEMMA FlushHitsKeeps ==
  ASSUME CacheInv, FlushHits
  PROVE  CacheInv'
<1> DEFINE w == [op |-> "hits", contents |-> dirtyHits]
           D == Drained(rows, pending)
<1>1. rows \in Tables /\ pending \in Seq(Write) /\ w \in Write
  BY DEF CacheInv, CacheTypeOK, Write
<1>2. /\ pending' = schedulePersist(pending, w) /\ dirtyHits' = {}
      /\ UNCHANGED <<enabled, store, streamStore, rows, flushed, undisturbed>>
  BY DEF FlushHits, history
<1>3. pending' \in Seq(Write) /\ (enabled => Drained(rows, pending') = Applied(D, w))
  BY <1>1, <1>2, Queued
<1>4. CacheTypeOK' /\ CombinedCap'
  BY <1>2, <1>3 DEF CacheInv, CacheTypeOK, CombinedCap, Live
<1>5. D \in Tables
  BY <1>1, DueTable DEF Drained
<1>6. ASSUME NEW c \in Contents
      PROVE  LET after == Applied(D, w)[c]
             IN  /\ after # None <=> D[c] # None
                 /\ D[c] # None => after.age = D[c].age
                 /\ D[c] # None => after.used = IF c \in dirtyHits THEN 0 ELSE D[c].used
  <2>1. CASE c \notin dirtyHits
    BY <2>1 DEF Applied
  <2>2. CASE c \in dirtyHits
    <3>1. Applied(D, w)[c] = IF D[c] = None THEN None ELSE [D[c] EXCEPT !.used = 0]
      BY <2>2 DEF Applied
    <3>2. D[c] \in Row \cup {None}
      BY <1>5 DEF Tables
    <3> HIDE DEF D, w
    <3> QED BY <2>2, <3>1, <3>2, HitRow
  <2> QED BY <2>1, <2>2
<1>7. ASSUME undisturbed PROVE enabled /\ Mirrors(store, Applied(D, w), {})
  <2>1. enabled /\ Mirrors(store, D, dirtyHits)
    BY <1>7 DEF CacheInv, Mirrored
  <2>2. \A e \in ToSet(store) : e.content \in Contents
    BY EntriesOf DEF CacheInv, CacheTypeOK
  <2> HIDE DEF D, w
  <2> QED BY <1>6, <2>1, <2>2 DEF Mirrors
<1>8. Mirrored'
  BY <1>2, <1>3, <1>7 DEF Mirrored
<1> QED BY <1>4, <1>8 DEF CacheInv

(* The operator flushes, or moves the switch. *)
LEMMA ClearKeeps ==
  ASSUME CacheInv, clearCache
  PROVE  CacheInv'
<1>1. /\ store' = <<>> /\ streamStore' = <<>> /\ pending' = <<>> /\ dirtyHits' = {}
      /\ rows' = [c \in Contents |-> None] /\ flushed' = TRUE /\ undisturbed' = enabled
      /\ enabled' = enabled
  BY DEF clearCache
<1>2. rows' \in Tables /\ Live(rows') = {} /\ pending' \in Seq(Write)
  BY <1>1, EmptySeq DEF Tables, Live
<1>3. CacheTypeOK'
  BY <1>1, <1>2, EmptySound, FS_EmptySet DEF CacheInv, CacheTypeOK, Live
<1>4. CombinedCap'
  BY <1>1, EmptySound, ReuseAssumption DEF CombinedCap
<1>5. Drained(rows', pending') = rows'
  BY <1>1, <1>2, DrainEmpty
<1>6. Mirrors(store', rows', dirtyHits')
  BY <1>1, EmptySound DEF Mirrors
<1> QED BY <1>1, <1>3, <1>4, <1>5, <1>6 DEF CacheInv, Mirrored

(* The sweep of expired rows. *)
LEMMA UnexpiredTable ==
  ASSUME NEW table \in Tables, IsFiniteSet(Live(table))
  PROVE  /\ Unexpired(table) \in Tables /\ IsFiniteSet(Live(Unexpired(table)))
         /\ \A c \in Contents : Unexpired(table)[c] # None =>
              Unexpired(table)[c] = table[c] /\ table[c] # None /\ table[c].age < TTL
<1>1. \A c \in Contents : Unexpired(table)[c] =
        IF table[c] # None /\ table[c].age >= TTL THEN None ELSE table[c]
  BY DEF Unexpired
<1>2. Unexpired(table) \in Tables
  BY DEF Unexpired, Tables
<1>3. Live(Unexpired(table)) \in SUBSET Live(table)
  BY <1>1 DEF Live
<1>4. IsFiniteSet(Live(Unexpired(table)))
  BY <1>3, FS_Subset
<1>5. ASSUME NEW c \in Contents, Unexpired(table)[c] # None
      PROVE  Unexpired(table)[c] = table[c] /\ table[c] # None /\ table[c].age < TTL
  <2>1. Unexpired(table)[c] = table[c] /\ table[c] # None /\ ~(table[c].age >= TTL)
    BY <1>1, <1>5
  <2>2. table[c].age \in Nat /\ TTL \in Nat
    BY <2>1, ReuseAssumption DEF Tables, Row, Ages
  <2> QED BY <2>1, <2>2
<1> QED BY <1>2, <1>4, <1>5

(* The sweep of the table only anticipates what a drain leaves out. *)
LEMMA SweepKeeps ==
  ASSUME CacheInv, pruneExpiredClaims
  PROVE  CacheInv'
<1>1. /\ rows' = Unexpired(rows)
      /\ UNCHANGED <<enabled, store, streamStore, dirtyHits, pending, flushed, undisturbed>>
  BY DEF pruneExpiredClaims, history
<1>2. rows \in Tables /\ IsFiniteSet(Live(rows)) /\ pending \in Seq(Write)
  BY DEF CacheInv, CacheTypeOK
<1>3. rows' \in Tables /\ IsFiniteSet(Live(rows'))
  BY <1>1, <1>2, UnexpiredTable
<1>4. CacheTypeOK' /\ CombinedCap'
  BY <1>1, <1>3 DEF CacheInv, CacheTypeOK, CombinedCap, Live
<1> DEFINE before == Drained(rows, pending)  after == Drained(rows', pending)
<1>5. ASSUME NEW c \in Contents
      PROVE  after[c] = before[c] \/ (after[c] = None /\ before[c] # None /\ ~(before[c].age < TTL))
  <2>1. after[c] = before[c] \/ (after[c] = None /\ before[c] # None /\ before[c].age >= TTL)
    BY <1>1, <1>2, SweptDrain
  <2>2. before \in Tables
    BY <1>2, DueTable DEF Drained
  <2> HIDE DEF after, before
  <2>3. before[c] # None => before[c].age \in Nat /\ TTL \in Nat
    BY <2>2, ReuseAssumption DEF Tables, Row, Ages
  <2> QED BY <2>1, <2>3
<1> HIDE DEF after, before
<1>6. ASSUME undisturbed PROVE enabled /\ Mirrors(store, after, dirtyHits)
  <2>1. enabled /\ Mirrors(store, before, dirtyHits)
    BY <1>6 DEF CacheInv, Mirrored, before
  <2>2. \A e \in ToSet(store) : e.content \in Contents
    BY EntriesOf DEF CacheInv, CacheTypeOK
  <2>3. ASSUME NEW e \in ToSet(store), e.age < TTL
        PROVE  after[e.content] = before[e.content]
    BY <1>5, <2>1, <2>2, <2>3 DEF Mirrors
  <2> QED BY <1>5, <2>1, <2>3 DEF Mirrors
<1>7. Mirrored'
  BY <1>1, <1>6 DEF Mirrored, after
<1> QED BY <1>4, <1>7 DEF CacheInv

(* A tick. *)
LEMMA TickCached ==
  ASSUME CacheInv, Tick
  PROVE  CacheInv'
<1>1. /\ pending = <<>> /\ dirtyHits = {}
      /\ store' = [i \in DOMAIN store |-> Aged(store[i])]
      /\ streamStore' = [i \in DOMAIN streamStore |-> Aged(streamStore[i])]
      /\ rows' = [c \in Contents |-> IF rows[c] = None THEN None ELSE Aged(rows[c])]
      /\ UNCHANGED <<enabled, dirtyHits, pending, flushed, undisturbed>>
  BY DEF Tick, Aged
<1>2. /\ Sound(store) /\ Sound(streamStore) /\ rows \in Tables /\ IsFiniteSet(Live(rows))
      /\ pending \in Seq(Write)
  BY DEF CacheInv, CacheTypeOK
<1>3. /\ Sound(store') /\ Len(store') = Len(store)
      /\ Sound(streamStore') /\ Len(streamStore') = Len(streamStore)
      /\ \A e \in ToSet(store') : \E d \in ToSet(store) : e = Aged(d)
      /\ \A d \in ToSet(store) : Aged(d) \in ToSet(store')
  BY <1>1, <1>2, AgedSound
<1>4. /\ \A c \in Contents : rows[c] # None => rows[c] \in Row /\ rows'[c] = Aged(rows[c]) /\ rows'[c] # None
      /\ \A c \in Contents : rows[c] = None => rows'[c] = None
  BY <1>1, <1>2, AgedRow, FreshRow DEF Tables
<1>5. rows' \in Tables /\ Live(rows') = Live(rows)
  <2>1. Live(rows') = Live(rows)
    BY <1>4 DEF Live
  <2>2. \A c \in Contents : rows'[c] \in Row \cup {None}
    BY <1>4, AgedRow
  <2> QED BY <1>1, <2>1, <2>2 DEF Tables
<1>6. CacheTypeOK' /\ CombinedCap'
  BY <1>1, <1>2, <1>3, <1>5 DEF CacheInv, CacheTypeOK, CombinedCap, Live
<1>7. Drained(rows, pending) = rows /\ Drained(rows', pending') = rows'
  BY <1>1, <1>2, <1>5, DrainEmpty
<1>8. ASSUME NEW x \in Ages, Older(x, TTL + 1) < TTL PROVE x < TTL
  <2>1. TTL \in Nat /\ TTL + 1 \in Nat /\ x \in 0 .. TTL + 1
    BY ReuseAssumption DEF Ages
  <2>2. Older(x, TTL + 1) = IF x = TTL + 1 THEN x ELSE x + 1
    BY <2>1, OlderGrows
  <2>3. CASE x = TTL + 1
    BY <1>8, <2>1, <2>2, <2>3
  <2>4. CASE x # TTL + 1
    BY <1>8, <2>1, <2>2, <2>4
  <2> QED BY <2>3, <2>4
<1>9. ASSUME undisturbed PROVE enabled /\ Mirrors(store', rows', dirtyHits')
  <2>1. enabled /\ Mirrors(store, rows, dirtyHits)
    BY <1>7, <1>9 DEF CacheInv, Mirrored
  <2>2. ASSUME NEW e \in ToSet(store'), e.age < TTL
        PROVE  rows'[e.content] # None /\ rows'[e.content].age = e.age /\ rows'[e.content].used = e.used
    <3>1. PICK d \in ToSet(store) : e = Aged(d)
      BY <1>3
    <3>2. d \in Entry /\ d.content \in Contents /\ d.age \in Ages
      BY <1>2, EntriesOf DEF Entry
    <3>3. e.content = d.content /\ e.age = Older(d.age, TTL + 1) /\ e.used = Older(d.used, TTL + 1)
      BY <3>1, <3>2, AgedEntry
    <3>4. d.age < TTL
      BY <1>8, <2>2, <3>2, <3>3
    <3>5. rows[d.content] # None /\ rows[d.content].age = d.age /\ rows[d.content].used = d.used
      BY <1>1, <2>1, <3>4 DEF Mirrors
    <3>6. rows[d.content] \in Row /\ rows'[d.content] = Aged(rows[d.content]) /\ rows'[d.content] # None
      BY <1>4, <3>2, <3>5
    <3> QED BY <3>3, <3>5, <3>6, AgedRow
  <2>3. ASSUME NEW c \in Contents, rows'[c] # None, rows'[c].age < TTL
        PROVE  Holds(store', c)
    <3>1. rows[c] # None /\ rows[c] \in Row /\ rows'[c].age = Older(rows[c].age, TTL + 1)
      BY <1>4, <2>3, AgedRow
    <3>2. rows[c].age < TTL
      BY <1>8, <2>3, <3>1 DEF Row
    <3>3. PICK d \in ToSet(store) : d.content = c
      BY <2>1, <3>1, <3>2 DEF Mirrors, Holds
    <3>4. Aged(d) \in ToSet(store') /\ Aged(d).content = c
      BY <1>2, <1>3, <3>3, EntriesOf, AgedEntry
    <3> QED BY <3>4 DEF Holds
  <2> QED BY <1>1, <2>1, <2>2, <2>3 DEF Mirrors
<1>10. Mirrored'
  BY <1>1, <1>7, <1>9 DEF Mirrored
<1> QED BY <1>6, <1>10 DEF CacheInv

(* A map has as many contents as entries. *)
LEMMA FewContents ==
  ASSUME NEW map, Sound(map), NEW S, \A c \in S : Holds(map, c)
  PROVE  IsFiniteSet(S) /\ Cardinality(S) <= Len(map)
<1> DEFINE n == Len(map)  f == [i \in 1 .. n |-> map[i].content]
           all == {map[i].content : i \in 1 .. n}
<1>1. n \in Nat /\ DOMAIN map = 1 .. n
  BY LenProperties DEF Sound
<1>2. f \in Surjection(1 .. n, all)
  BY DEF Surjection
<1>3. IsFiniteSet(1 .. n) /\ Cardinality(1 .. n) = n
  <2>1. IsFiniteSet(1 .. n) /\ Cardinality(1 .. n) = IF 1 > n THEN 0 ELSE n - 1 + 1
    BY <1>1, FS_Interval
  <2> HIDE DEF n
  <2> QED BY <1>1, <2>1
<1>4. S \in SUBSET all
  BY <1>1 DEF Holds, ToSet
<1> HIDE DEF all, f, n
<1>5. IsFiniteSet(all) /\ Cardinality(all) <= n
  BY <1>2, <1>3, FS_Surjection
<1>6. IsFiniteSet(S) /\ Cardinality(S) <= Cardinality(all)
  BY <1>4, <1>5, FS_Subset
<1>7. Cardinality(S) \in Nat /\ Cardinality(all) \in Nat
  BY <1>5, <1>6, FS_CardinalityType
<1> QED BY <1>1, <1>5, <1>6, <1>7 DEF n

(* A restart. *)
LEMMA RestartCached ==
  ASSUME CacheInv, Restart
  PROVE  CacheInv'
<1>1. /\ rows' = Unexpired(rows)
      /\ IF enabled THEN store' \in Loads(rows') ELSE store' = <<>>
      /\ streamStore' = <<>> /\ dirtyHits' = {} /\ pending' = <<>>
      /\ undisturbed' = (undisturbed /\ enabled /\ pending = <<>> /\ dirtyHits = {})
      /\ UNCHANGED <<enabled, flushed>>
  BY DEF Restart, loadCacheFromDb
<1>2. rows \in Tables /\ IsFiniteSet(Live(rows)) /\ Sound(store) /\ Sound(streamStore)
  BY DEF CacheInv, CacheTypeOK
<1>3. /\ rows' \in Tables /\ IsFiniteSet(Live(rows'))
      /\ \A c \in Contents : rows'[c] # None => rows'[c] = rows[c] /\ rows[c] # None /\ rows[c].age < TTL
  BY <1>1, <1>2, UnexpiredTable
<1>4. Sound(store') /\ Len(store') <= MaxEntries
  BY <1>1, <1>3, LoadSound, EmptySound, ReuseAssumption
<1>5. CacheTypeOK'
  <2>1. pending' \in Seq(Write)
    BY <1>1, EmptySeq
  <2>2. undisturbed' \in BOOLEAN
    BY <1>1
  <2> QED BY <1>1, <1>3, <1>4, <2>1, <2>2, EmptySound DEF CacheInv, CacheTypeOK, Live
<1>6. CombinedCap'
  <2>1. Len(store') \in Nat /\ Len(streamStore') = 0
    BY <1>1, <1>4, EntriesOf, EmptySound
  <2> QED BY <1>4, <2>1, ReuseAssumption DEF CombinedCap
<1>7. Drained(rows', pending') = rows'
  BY <1>1, <1>3, DrainEmpty
<1>8. ASSUME undisturbed' PROVE enabled' /\ Mirrors(store', rows', dirtyHits')
  <2>1. enabled /\ undisturbed /\ pending = <<>> /\ enabled' /\ store' \in Loads(rows')
    BY <1>1, <1>8
  <2>2. Mirrors(store, rows, dirtyHits)
    BY <1>2, <2>1, DrainEmpty DEF CacheInv, Mirrored
  <2>3. \A c \in Live(rows') : Holds(store, c)
    BY <1>3, <2>2 DEF Live, Mirrors
  <2>4. Cardinality(Live(rows')) <= MaxEntries
    <3>1. Cardinality(Live(rows')) <= Len(store)
      BY <1>2, <2>3, FewContents
    <3>2. /\ Cardinality(Live(rows')) \in Nat /\ Len(store) \in Nat /\ Len(streamStore) \in Nat
          /\ MaxEntries \in Nat /\ Len(store) + Len(streamStore) <= MaxEntries
      BY <1>2, <1>3, FS_CardinalityType, EntriesOf, ReuseAssumption DEF CacheInv, CombinedCap
    <3> QED BY <3>1, <3>2
  <2>5. /\ \A e \in ToSet(store') :
             /\ e.content \in Live(rows')
             /\ e.age = rows'[e.content].age /\ e.used = rows'[e.content].used
        /\ \A c \in Live(rows') : Holds(store', c)
    BY <1>3, <2>1, <2>4, LoadSound
  <2> QED BY <1>1, <2>1, <2>5 DEF Mirrors, Live
<1>9. Mirrored'
  BY <1>7, <1>8 DEF Mirrored
<1> QED BY <1>5, <1>6, <1>9 DEF CacheInv

(* Every step keeps the cache in order. *)
LEMMA CacheStep ==
  ASSUME RetryInv, CacheInv, [Next]_vars
  PROVE  CacheInv'
<1>1. CASE UNCHANGED cacheVars
  BY <1>1 DEF cacheVars, CacheInv, CacheTypeOK, CombinedCap, Mirrored, Live
<1>2. ASSUME NEW a \in Arrival, CacheHit(a)
      PROVE  CacheInv'
  BY <1>2, HitKeeps
<1>3. ASSUME NEW a \in Arrival, ReplayOrConflict(a) \/ \E r \in Slots : GoUpstream(a, r)
      PROVE  CacheInv'
  BY <1>3, MissKeeps DEF ReplayOrConflict, GoUpstream, history
<1>4. ASSUME NEW r \in Slots, Answer(r)
      PROVE  CacheInv'
  BY <1>4, AnswerCached
<1>5. ASSUME NEW r \in Slots, EndWithout(r)
      PROVE  CacheInv'
  BY <1>1, <1>5 DEF EndWithout, cache, history, cacheVars
<1>6. CASE SetCache
  BY <1>6 DEF SetCache, CacheInv, CacheTypeOK, CombinedCap, Mirrored, Live
<1>7. CASE UNCHANGED vars
  BY <1>1, <1>7 DEF vars, cacheVars
<1> QED
  BY <1>2, <1>3, <1>4, <1>5, <1>6, <1>7, DrainKeeps, FlushHitsKeeps, ClearKeeps,
     SweepKeeps, TickCached, RestartCached DEF Next

(* The cache starts in order. *)
LEMMA CacheStarts == Init => CacheInv
<1> SUFFICES ASSUME Init PROVE CacheInv
  OBVIOUS
<1>1. rows \in Tables /\ Live(rows) = {} /\ pending \in Seq(Write)
  BY EmptySeq DEF Init, Tables, Live
<1>2. CacheTypeOK
  BY <1>1, EmptySound, FS_EmptySet DEF Init, CacheTypeOK
<1>3. CombinedCap
  BY EmptySound, ReuseAssumption DEF Init, CombinedCap
<1>4. Mirrored
  BY <1>1, EmptySound, DrainEmpty DEF Init, Mirrored, Mirrors
<1> QED BY <1>2, <1>3, <1>4 DEF CacheInv

(* What makes room was used no later than anything that stays. *)
LEMMA EvictedColdest ==
  ASSUME NEW json, Sound(json), NEW stream, Sound(stream),
         NEW newJson, NEW newStream, NEW later,
         enforceCombinedCap(json, newJson, stream, newStream, later),
         NEW e \in (ToSet(json) \ ToSet(store')) \cup (ToSet(stream) \ ToSet(streamStore')),
         NEW f \in ToSet(store') \cup ToSet(streamStore')
  PROVE  e.used >= f.used \/ f.loaded
<1>1. /\ \A d \in ToSet(json) : d.used \in Nat
      /\ \A d \in ToSet(stream) : d.used \in Nat
  BY EntriesOf
<1>2. CASE /\ FrontOlder(stream, json, newStream)
           /\ store' = json /\ streamStore' = Tail(stream)
  <2> DEFINE h == Head(stream)  g == Head(json)
  <2>1. /\ ToSet(stream) = ToSet(streamStore') \cup {h}
        /\ \A d \in ToSet(stream) : h.used >= d.used \/ d.loaded
    BY <1>2, TailSound DEF FrontOlder
  <2>2. e = h /\ h \in ToSet(stream)
    BY <1>2, <2>1
  <2>3. ASSUME f \in ToSet(json) PROVE h.used >= f.used \/ f.loaded
    <3>1. json # <<>>
      BY <2>3, EmptySound
    <3>2. g \in ToSet(json) /\ (g.used >= f.used \/ f.loaded) /\ h.used >= g.used
      BY <1>2, <2>3, <3>1, TailSound DEF FrontOlder
    <3> HIDE DEF h, g
    <3>3. h.used \in Nat /\ g.used \in Nat /\ f.used \in Nat
      BY <1>1, <2>2, <2>3, <3>2
    <3> QED BY <3>2, <3>3
  <2> QED BY <1>2, <2>1, <2>2, <2>3
<1>3. CASE /\ FrontOlder(json, stream, newJson)
           /\ store' = Tail(json) /\ streamStore' = stream
  <2> DEFINE h == Head(json)  g == Head(stream)
  <2>1. /\ ToSet(json) = ToSet(store') \cup {h}
        /\ \A d \in ToSet(json) : h.used >= d.used \/ d.loaded
    BY <1>3, TailSound DEF FrontOlder
  <2>2. e = h /\ h \in ToSet(json)
    BY <1>3, <2>1
  <2>3. ASSUME f \in ToSet(stream) PROVE h.used >= f.used \/ f.loaded
    <3>1. stream # <<>>
      BY <2>3, EmptySound
    <3>2. g \in ToSet(stream) /\ (g.used >= f.used \/ f.loaded) /\ h.used >= g.used
      BY <1>3, <2>3, <3>1, TailSound DEF FrontOlder
    <3> HIDE DEF h, g
    <3>3. h.used \in Nat /\ g.used \in Nat /\ f.used \in Nat
      BY <1>1, <2>2, <2>3, <3>2
    <3> QED BY <3>2, <3>3
  <2> QED BY <1>3, <2>1, <2>2, <2>3
<1> QED BY <1>2, <1>3 DEF enforceCombinedCap

Evicted == (ToSet(store) \ ToSet(store')) \cup (ToSet(streamStore) \ ToSet(streamStore'))
Kept == (ToSet(store) \cap ToSet(store')) \cup (ToSet(streamStore) \cap ToSet(streamStore'))

(* An answer evicts the entry used least recently. *)
LEMMA AnswerEvicts ==
  ASSUME RetryInv, CacheInv, NEW r \in Slots, Answer(r), NEW e \in Evicted, NEW f \in Kept
  PROVE  \/ e.content = request[r].content
         \/ e.used >= f.used \/ f.loaded
<1> DEFINE q == request[r]  c == q.content
<1>1. c \in Contents /\ Sound(store) /\ Sound(streamStore)
  BY DEF RetryInv, ClaimsTypeOK, Answer, Waiting, CacheInv, CacheTypeOK
<1> SUFFICES ASSUME e.content # c PROVE e.used >= f.used \/ f.loaded
  OBVIOUS
<1>2. q.caching
  BY DEF Answer, Evicted
<1>3. CASE q.stream
  <2> DEFINE stream == Stored(streamStore, c)
  <2>1. enforceCombinedCap(store, None, stream, c, <<>>)
    BY <1>2, <1>3 DEF Answer, storeCachedStreamResponse
  <2>2. Sound(stream) /\ \A d \in ToSet(streamStore) : d.content # c => d \in ToSet(stream)
    BY <1>1, StoredSound
  <2> HIDE DEF stream, c
  <2>3. e \in (ToSet(store) \ ToSet(store')) \cup (ToSet(stream) \ ToSet(streamStore'))
    BY <2>2 DEF Evicted
  <2> QED BY <1>1, <2>1, <2>2, <2>3, EvictedColdest DEF Kept
<1>4. CASE ~q.stream
  <2> DEFINE json == Stored(store, c)
  <2>1. \E later : enforceCombinedCap(json, c, streamStore, None, later)
    BY <1>2, <1>4 DEF Answer, storeCachedResponse
  <2>2. Sound(json) /\ \A d \in ToSet(store) : d.content # c => d \in ToSet(json)
    BY <1>1, StoredSound
  <2> HIDE DEF json, c
  <2>3. e \in (ToSet(json) \ ToSet(store')) \cup (ToSet(streamStore) \ ToSet(streamStore'))
    BY <2>2 DEF Evicted
  <2> QED BY <1>1, <2>1, <2>2, <2>3, EvictedColdest DEF Kept
<1> QED BY <1>3, <1>4

(***************************************************************************)
(* The invariant, and what follows from it                                 *)
(***************************************************************************)
IInv == RetryInv /\ NothingLeft /\ CacheInv

(* The strengthened invariant holds in every reachable state. *)
LEMMA InvHolds == Spec => []IInv
<1>1. Init => RetryInv /\ NothingLeft
  BY DEF Init, RetryInv, ClaimsTypeOK, ClaimCovers, RetryIsFree, NothingLeft
<1>2. IInv /\ [Next]_vars => IInv'
  BY RetryStep, FlushStep, CacheStep DEF IInv
<1> QED
  BY <1>1, <1>2, CacheStarts, PTL DEF Spec, IInv

(* A retry is free: what was answered under a key within the window does   *)
(* not go to a provider again for the same content (idempotency.ts:3).     *)
THEOREM RetriesAreFree == Spec => []RetryIsFree
<1>1. IInv => RetryIsFree
  BY DEF IInv, RetryInv
<1> QED
  BY <1>1, InvHolds, PTL

(* A flush holds until something is stored again, over restarts, sweeps    *)
(* and whatever was queued before it (cache.ts:782).                       *)
THEOREM FlushStands == Spec => []FlushHolds
<1>1. IInv => FlushHolds
  BY DEF IInv, NothingLeft, FlushHolds
<1> QED
  BY <1>1, InvHolds, PTL

(* Every map, queue, row, claim and request keeps its type, no content twice *)
(* in one map.                                                               *)
THEOREM TypeCorrect == Spec => []TypeOK
<1>1. IInv => TypeOK
  <2> SUFFICES ASSUME IInv PROVE TypeOK
    OBVIOUS
  <2>1. ASSUME NEW map, Sound(map) PROVE Entries(map)
    BY <2>1, ElementOfSeq, LenProperties DEF Sound, Distinct, Entries
  <2>2. \A i \in DOMAIN pending : pending[i] \in Write
    BY ElementOfSeq, LenProperties DEF IInv, CacheInv, CacheTypeOK
  <2> QED BY <2>1, <2>2 DEF IInv, RetryInv, ClaimsTypeOK, CacheInv, CacheTypeOK, Tables, TypeOK
<1> QED
  BY <1>1, InvHolds, PTL

(* JSON answers and streams share one cap, after every insert into either    *)
(* and after every restart (cache.ts:314).                                   *)
THEOREM CapShared == Spec => []CombinedCap
<1>1. IInv => CombinedCap
  BY DEF IInv, CacheInv
<1> QED
  BY <1>1, InvHolds, PTL

(* A drained queue leaves the table with what memory may still serve, and    *)
(* with nothing else that may (cache.ts:30, :327).                           *)
THEOREM TableMirrors == Spec => []TableMirrorsMemory
<1>1. IInv => TableMirrorsMemory
  <2> SUFFICES ASSUME IInv, undisturbed, pending = <<>>
               PROVE  TableMirrorsMemory
    BY DEF TableMirrorsMemory
  <2>1. rows \in Tables
    BY DEF IInv, CacheInv, CacheTypeOK
  <2>2. Mirrors(store, rows, dirtyHits)
    BY <2>1, DrainEmpty DEF IInv, CacheInv, Mirrored
  <2> QED BY <2>2 DEF Mirrors, TableMirrorsMemory
<1> QED
  BY <1>1, InvHolds, PTL

(* Room is made at the expense of the entry used least recently, over both   *)
(* maps (cache.ts:307).                                                      *)
THEOREM ColdestEvicted == Spec => ColdestGoesFirst
<1> DEFINE Coldest ==
      \A r \in Slots : Answer(r) =>
        \A e \in (ToSet(store) \ ToSet(store')) \cup (ToSet(streamStore) \ ToSet(streamStore')),
           f \in (ToSet(store) \cap ToSet(store')) \cup (ToSet(streamStore) \cap ToSet(streamStore')) :
          \/ e.content = request[r].content
          \/ e.used >= f.used \/ f.loaded
<1>1. IInv => Coldest
  BY AnswerEvicts DEF IInv, Evicted, Kept
<1> HIDE DEF Coldest
<1>2. Spec => [][Coldest]_vars
  BY <1>1, InvHolds, PTL
<1> QED
  BY <1>2 DEF ColdestGoesFirst, Coldest
================================================================================
