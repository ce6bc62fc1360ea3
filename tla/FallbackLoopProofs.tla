------------------------- MODULE FallbackLoopProofs -------------------------
(***************************************************************************)
(* The fallback loop keeps its promises for every number of requests and   *)
(* routes, every layout of models, keys and platforms, every retry limit,  *)
(* budget and breaker, and whatever the providers answer.                  *)
(***************************************************************************)
EXTENDS FallbackLoop, SequenceTheorems, WellFoundedInduction, TLAPS

Body == [status : Nat, code : Codes, retryAt : BOOLEAN]

-----------------------------------------------------------------------------
(* What is rendered.                                                       *)

\* A ladder whose last rung always holds yields one of its rungs.
LEMMA FirstRungType ==
  ASSUME NEW S, NEW ladder \in Seq(S), ladder # <<>>, ladder[Len(ladder)].holds
  PROVE  FirstRung(ladder) \in S
<1> DEFINE Holding == {i \in DOMAIN ladder : ladder[i].holds}
<1>1. DOMAIN ladder = 1..Len(ladder) /\ Len(ladder) \in Nat /\ Len(ladder) > 0
  BY LenProperties, EmptySeq
<1>2. Holding # {} /\ Holding \subseteq Nat
  BY <1>1
<1>3. PICK i \in Holding : \A j \in Holding : <<j, i>> \notin OpToRel(<, Nat)
  BY <1>2, NatLessThanWellFounded, WFMin, Zenon
<1>4. \A j \in Nat : j < i => j \notin Holding
  BY <1>2, <1>3 DEF OpToRel
<1>5. i \in DOMAIN ladder /\ ladder[i].holds /\ \A j \in 1..(i - 1) : ~ladder[j].holds
  BY <1>1, <1>2, <1>4
<1>6. \E k \in DOMAIN ladder :
        FirstRung(ladder) = ladder[k] /\ ladder[k].holds
  BY <1>5 DEF FirstRung
<1> QED BY <1>1, <1>6, ElementOfSeq

RungType == [holds : BOOLEAN, status : Nat, code : ExhaustionCodes]

\* Both ladders end in a status, a code and the question of a retry time.
LEMMA ExhaustedType ==
  ASSUME NEW failures, NEW tripped \in BOOLEAN, NEW cooling \in BOOLEAN
  PROVE  ExhaustedRetryError(failures, tripped, cooling) \in Body
<1> DEFINE every(C) == failures # <<>> /\ \A i \in DOMAIN failures : ErrorClass(failures[i]) \in C
           last == IF failures = <<>> THEN "none" ELSE failures[Len(failures)]
           ladder == <<
        Rung(every({"auth"}), 502, "provider_authentication_failed"),
        Rung(every({"context_too_large"}), 413, "context_length_exceeded"),
        Rung(every({"model_not_found"}), 404, "model_not_found"),
        Rung(last = "degraded", 503, "provider_degraded"),
        Rung(every({"provider_bad_request"}), 400, "provider_rejected_request"),
        Rung(tripped, 503, "upstream_unhealthy"),
        Rung(failures = <<>> \/ every(UNAVAILABLE_UNTIL_KNOWN_TIME),
             429, "rate_limit_exceeded"),
        Rung(TRUE, 502, "upstream_failed")>>
<1>1. ladder \in Seq(RungType)
  <2>1. \A C : every(C) \in BOOLEAN
    OBVIOUS
  <2>2. /\ (last = "degraded") \in BOOLEAN
        /\ (failures = <<>> \/ every(UNAVAILABLE_UNTIL_KNOWN_TIME)) \in BOOLEAN
    OBVIOUS
  <2> DEFINE rungs(a, b, c, d, e, f) ==
               <<Rung(a, 502, "provider_authentication_failed"),
                 Rung(b, 413, "context_length_exceeded"),
                 Rung(c, 404, "model_not_found"),
                 Rung(d, 503, "provider_degraded"),
                 Rung(e, 400, "provider_rejected_request"),
                 Rung(tripped, 503, "upstream_unhealthy"),
                 Rung(f, 429, "rate_limit_exceeded"),
                 Rung(TRUE, 502, "upstream_failed")>>
  <2>3. \A a, b, c, d, e, f \in BOOLEAN : rungs(a, b, c, d, e, f) \in Seq(RungType)
    BY DEF Rung, RungType, ExhaustionCodes
  <2>4. ladder = rungs(every({"auth"}), every({"context_too_large"}),
                       every({"model_not_found"}), last = "degraded",
                       every({"provider_bad_request"}),
                       failures = <<>> \/ every(UNAVAILABLE_UNTIL_KNOWN_TIME))
    OBVIOUS
  <2> HIDE DEF every, last, rungs, ladder
  <2> QED BY <2>1, <2>2, <2>3, <2>4, Zenon
<1>2. ladder # <<>> /\ ladder[Len(ladder)].holds
  BY DEF Rung
<1>3. FirstRung(ladder) \in RungType
  <2> HIDE DEF ladder
  <2> QED BY <1>1, <1>2, FirstRungType
<1>4. ASSUME NEW rung \in RungType
      PROVE  [status |-> rung.status, code |-> rung.code,
              retryAt |-> rung.code = "rate_limit_exceeded" /\ cooling] \in Body
  BY DEF RungType, Body, Codes
<1>5. ExhaustedRetryError(failures, tripped, cooling) =
        [status |-> FirstRung(ladder).status, code |-> FirstRung(ladder).code,
         retryAt |-> FirstRung(ladder).code = "rate_limit_exceeded" /\ cooling]
  BY Zenon DEF ExhaustedRetryError
<1> HIDE DEF ladder
<1> QED BY <1>3, <1>4, <1>5, Zenon

\* So does the answer to a request that was never routed.
LEMMA RoutingExhaustedType ==
  ASSUME NEW lines, NEW cooling \in BOOLEAN
  PROVE  RoutingExhaustionBody(lines, cooling) \in Body
<1> DEFINE classes == {ClassifyRoutingDiagLine(l) : l \in lines}
           ladder == <<
        Rung(classes \subseteq {"config"}, 503, "no_providers_configured"),
        Rung(classes \subseteq {"too_large", "config"}, 413, "context_length_exceeded"),
        Rung(/\ "monthly_budget" \in classes
             /\ classes \subseteq {"monthly_budget", "config", "too_large"},
             429, "quota_exceeded"),
        Rung("time_bound" \in classes /\ "other" \notin classes,
             429, "rate_limit_exceeded"),
        Rung(TRUE, 429, "routing_exhausted")>>
<1>1. ladder \in Seq(RungType)
  <2> HIDE DEF classes
  <2> QED BY DEF Rung, RungType, ExhaustionCodes
<1>2. ladder # <<>> /\ ladder[Len(ladder)].holds
  BY DEF Rung
<1>3. FirstRung(ladder) \in RungType
  <2> HIDE DEF ladder
  <2> QED BY <1>1, <1>2, FirstRungType
<1>4. ASSUME NEW rung \in RungType
      PROVE  [status |-> rung.status, code |-> rung.code,
              retryAt |-> \/ rung.code = "quota_exceeded"
                          \/ rung.code = "rate_limit_exceeded" /\ cooling] \in Body
  BY DEF RungType, Body, Codes
<1>5. RoutingExhaustionBody(lines, cooling) =
        [status |-> FirstRung(ladder).status, code |-> FirstRung(ladder).code,
         retryAt |-> \/ FirstRung(ladder).code = "quota_exceeded"
                     \/ FirstRung(ladder).code = "rate_limit_exceeded" /\ cooling]
  BY Zenon DEF RoutingExhaustionBody
<1> HIDE DEF ladder
<1> QED BY <1>3, <1>4, <1>5, Zenon
-----------------------------------------------------------------------------
(* The inductive invariant.                                                *)

\* Only a routed request is tried.
Routed(q) == pc[q] \in {"chosen", "waiting"} => route[q] \in Routes
\* Nothing leaves before an attempt is in flight.
Silent(q) == pc[q] \in {"idle", "top", "chosen"} => wire[q] = "nothing"
\* The hedge is armed for a silent attempt from the second retry on.
Timer(q) ==
  /\ armed[q] => wire[q] = "nothing" /\ Len(trail[q]) > 1
  /\ hedgeAborted[q] => Len(trail[q]) > 1
Aborts(q) ==
  /\ signal[q] = "client" => gone[q]
  /\ signal[q] = "hedge" => hedgeAborted[q] /\ wire[q] = "nothing"
Heard(q) == pc[q] = "chosen" /\ gone[q] => trail[q] = <<>>
Answered(q) ==
  /\ pc[q] # "over" => answers[q] = <<>>
  /\ Len(answers[q]) <= 1
  /\ pc[q] = "over" /\ answers[q] = <<>> => gone[q]
  /\ answers[q] # <<>> =>
       /\ wire[q] # "nothing" => answers[q][1].status = 200
       /\ answers[q][1].timedOut => Len(trail[q]) >= 2
\* What failed is ruled out, or its model has a lower ceiling since.
Ruled(q) ==
  \A i \in DOMAIN trail[q] :
    \/ trail[q][i].route \in ruledOut[q]
    \/ outputCap[ModelOf[trail[q][i].route]] < trail[q][i].cap
Fresh(q) ==
  /\ pc[q] = "chosen" => route[q] \notin ruledOut[q]
  /\ pc[q] = "waiting" => outputCap[ModelOf[route[q]]] <= sent[q].cap
Lower(q) ==
  /\ pc[q] = "waiting" =>
       \A i \in DOMAIN trail[q] : trail[q][i].route = route[q] => sent[q].cap < trail[q][i].cap
  /\ \A i, j \in DOMAIN trail[q] :
       i < j /\ trail[q][j].route = trail[q][i].route => trail[q][j].cap < trail[q][i].cap

RequestInv(q) ==
  /\ Routed(q) /\ Silent(q) /\ Timer(q) /\ Aborts(q) /\ Heard(q) /\ Answered(q)
  /\ Ruled(q) /\ Fresh(q) /\ Lower(q)

Inv == TypeOK /\ LeasesMatchAttempts /\ \A q \in Requests : RequestInv(q)

\* The type invariant by groups of variables.
LoopTypes ==
  /\ running \in Requests \cup {None}
  /\ pc \in [Requests -> {"idle", "top", "chosen", "waiting", "over"}]
  /\ began \in [Requests -> Nat]
  /\ route \in [Requests -> Routes \cup {None}]
  /\ sent \in [Requests -> [at : Nat, cap : Nat]]
  /\ leases \subseteq Requests \X Routes
StateTypes ==
  /\ trail \in [Requests -> Seq(Entry)]
  /\ ruledOut \in [Requests -> SUBSET Routes]
SocketTypes ==
  /\ gone \in [Requests -> BOOLEAN]
  /\ hedgeAborted \in [Requests -> BOOLEAN]
  /\ armed \in [Requests -> BOOLEAN]
  /\ signal \in [Requests -> {"none", "client", "hedge"}]
  /\ reply \in [Requests -> Failures \cup {"none"}]
ReplyTypes ==
  /\ wire \in [Requests -> {"nothing", "headers", "content"}]
  /\ answers \in [Requests -> Seq(Answer)]
  /\ booked \in [Requests -> {"nothing", "whole", "cut"}]
BookTypes ==
  /\ benched \subseteq Routes
  /\ streak \in [Routes -> 0..EmptyStreakLimit]
  /\ outputCap \in [Models -> Nat]
Types == now \in Nat /\ LoopTypes /\ StateTypes /\ SocketTypes /\ ReplyTypes /\ BookTypes

\* The groups together are the type invariant, now and next.
LEMMA TypesAreTypeOK == (Types <=> TypeOK) /\ (Types' <=> TypeOK')
<1>1. Types <=> TypeOK
  BY DEF Types, LoopTypes, StateTypes, SocketTypes, ReplyTypes, BookTypes, TypeOK
<1>2. Types' <=> TypeOK'
  BY DEF Types, LoopTypes, StateTypes, SocketTypes, ReplyTypes, BookTypes, TypeOK
<1> QED BY <1>1, <1>2

\* What a step of another request leaves as it was.
Untouched(p) ==
  /\ pc'[p] = pc[p] /\ route'[p] = route[p] /\ sent'[p] = sent[p]
  /\ trail'[p] = trail[p] /\ ruledOut'[p] = ruledOut[p]
  /\ gone'[p] = gone[p] /\ hedgeAborted'[p] = hedgeAborted[p]
  /\ armed'[p] = armed[p] /\ signal'[p] = signal[p]
  /\ wire'[p] = wire[p] /\ answers'[p] = answers[p]
CapsFall == \A m \in Models : outputCap'[m] <= outputCap[m]

\* Steps of others disturb a request only through the learned ceilings, and
\* those only fall.
LEMMA Frame ==
  ASSUME NEW p \in Requests, Types, Types', RequestInv(p), Untouched(p), CapsFall
  PROVE  RequestInv(p)'
<1>1. Routed(p)' /\ Silent(p)' /\ Timer(p)' /\ Aborts(p)' /\ Heard(p)' /\ Answered(p)'
  BY DEF RequestInv, Untouched, Routed, Silent, Timer, Aborts, Heard, Answered
<1>2. \A i \in DOMAIN trail[p] :
        trail[p][i].cap \in Nat /\ trail[p][i].route \in Routes
  <2>1. trail[p] \in Seq(Entry)
    BY DEF Types, StateTypes
  <2>2. \A i \in DOMAIN trail[p] : trail[p][i] \in Entry
    BY <2>1, ElementOfSeq, LenProperties
  <2> QED BY <2>2 DEF Entry
<1>3. \A r \in Routes : /\ ModelOf[r] \in Models
                        /\ outputCap[ModelOf[r]] \in Nat /\ outputCap'[ModelOf[r]] \in Nat
                        /\ outputCap'[ModelOf[r]] <= outputCap[ModelOf[r]]
  BY DEF Types, BookTypes, Models, CapsFall
<1>4. Ruled(p)'
  BY <1>2, <1>3 DEF RequestInv, Untouched, Ruled
<1>5. Fresh(p)'
  BY <1>3 DEF RequestInv, Untouched, Fresh, Routed, Types, LoopTypes
<1>6. Lower(p)'
  BY DEF RequestInv, Untouched, Lower
<1> QED BY <1>1, <1>4, <1>5, <1>6 DEF RequestInv

\* A step of one request keeps the invariant if it keeps its own part of it.
LEMMA Focus ==
  ASSUME NEW q \in Requests, Inv, Types', CapsFall, LeasesMatchAttempts',
         \A p \in Requests \ {q} : Untouched(p), RequestInv(q)'
  PROVE  Inv'
<1>1. \A p \in Requests : RequestInv(p)'
  BY Frame, TypesAreTypeOK DEF Inv
<1> QED BY <1>1, TypesAreTypeOK DEF Inv
-----------------------------------------------------------------------------
(* The ends of a request.                                                  *)

\* Rendering adds the one answer of a request that had none.
LEMMA RenderStep ==
  ASSUME NEW q \in Requests, NEW body \in Body, NEW timedOut \in BOOLEAN,
         Inv, pc[q] # "over", Render(q, body, timedOut)
  PROVE  /\ answers' \in [Requests -> Seq(Answer)]
         /\ \A p \in Requests \ {q} : answers'[p] = answers[p]
         /\ Len(answers'[q]) = 1 /\ answers'[q] # <<>>
         /\ answers'[q][1].status = body.status
         /\ answers'[q][1].timedOut = timedOut
<1> DEFINE a == [status |-> body.status, code |-> body.code,
                 retryAt |-> body.retryAt, timedOut |-> timedOut]
<1>1. a \in Answer /\ a.status = body.status /\ a.timedOut = timedOut
  BY DEF Body, Answer
<1>2. answers \in [Requests -> Seq(Answer)] /\ answers[q] = <<>>
  BY DEF Inv, TypeOK, RequestInv, Answered
<1>3. answers' = [answers EXCEPT ![q] = Append(@, a)]
  BY DEF Render
<1> HIDE DEF a
<1>4. Append(<<>>, a) = <<a>> /\ <<a>> \in Seq(Answer) /\ Len(<<a>>) = 1 /\ <<a>>[1] = a
  BY <1>1
<1>5. answers'[q] = <<a>> /\ \A p \in Requests \ {q} : answers'[p] = answers[p]
  BY <1>2, <1>3, <1>4
<1>6. answers' \in [Requests -> Seq(Answer)]
  BY <1>2, <1>3, <1>4
<1> QED BY <1>1, <1>4, <1>5, <1>6

\* Answers without a ladder have the shape of rendered ones.
LEMMA PlainType ==
  /\ Plain(200, "stream_error") \in Body /\ Plain(200, "stream_error").status = 200
  /\ Plain(200, "ok") \in Body /\ Plain(200, "ok").status = 200
  /\ Plain(502, "provider_error") \in Body
  BY DEF Plain, Body, Codes

\* Leaving an attempt gives back its lease, its timer and its signal.
LEMMA LeaveStep ==
  ASSUME NEW q \in Requests, NEW l \in {"top", "over"}, Inv, LeaveAttempt(q),
         pc' = [pc EXCEPT ![q] = l], running' \in Requests \cup {None}
  PROVE  /\ LoopTypes' /\ SocketTypes' /\ LeasesMatchAttempts'
         /\ pc'[q] = l /\ ~armed'[q] /\ signal'[q] = "none"
         /\ gone'[q] = gone[q] /\ hedgeAborted'[q] = hedgeAborted[q]
         /\ \A p \in Requests \ {q} :
              /\ pc'[p] = pc[p] /\ route'[p] = route[p] /\ sent'[p] = sent[p]
              /\ gone'[p] = gone[p] /\ hedgeAborted'[p] = hedgeAborted[p]
              /\ armed'[p] = armed[p] /\ signal'[p] = signal[p]
<1> USE DEF LeaveAttempt
<1>1. Types
  BY TypesAreTypeOK DEF Inv
<1>2. LoopTypes'
  BY <1>1 DEF Types, LoopTypes
<1>3. SocketTypes'
  BY <1>1 DEF Types, SocketTypes
<1>4. /\ pc'[q] = l /\ ~armed'[q] /\ signal'[q] = "none"
      /\ gone'[q] = gone[q] /\ hedgeAborted'[q] = hedgeAborted[q]
      /\ \A p \in Requests \ {q} :
           /\ pc'[p] = pc[p] /\ route'[p] = route[p] /\ sent'[p] = sent[p]
           /\ gone'[p] = gone[p] /\ hedgeAborted'[p] = hedgeAborted[p]
           /\ armed'[p] = armed[p] /\ signal'[p] = signal[p]
  BY <1>1 DEF Types, LoopTypes, SocketTypes
<1>5. LeasesMatchAttempts'
  <2> DEFINE trying == {x \in Requests : pc[x] \in {"chosen", "waiting"}}
  <2>1. {x \in Requests : pc'[x] \in {"chosen", "waiting"}} = trying \ {q}
    BY <1>4
  <2>2. \A x \in trying \ {q} : route'[x] = route[x]
    BY <1>4
  <2>3. leases = {<<x, route[x]>> : x \in trying}
    BY DEF Inv, LeasesMatchAttempts
  <2> HIDE DEF trying
  <2>4. leases' = {<<x, route'[x]>> : x \in trying \ {q}}
    BY <2>2, <2>3
  <2> QED BY <2>1, <2>4 DEF LeasesMatchAttempts
<1> QED BY <1>2, <1>3, <1>4, <1>5

\* A request that ends with the answer it is due keeps the invariant.
LEMMA EndInv ==
  ASSUME NEW q \in Requests, Inv, Return(q), UNCHANGED <<now, stateVars>>,
         BookTypes', CapsFall, ReplyTypes',
         \A p \in Requests \ {q} : wire'[p] = wire[p] /\ answers'[p] = answers[p],
         Answered(q)'
  PROVE  Inv'
<1>1. Types
  BY TypesAreTypeOK DEF Inv
<1>2. RequestInv(q)
  BY DEF Inv
<1>3. /\ LoopTypes' /\ SocketTypes' /\ LeasesMatchAttempts'
      /\ pc'[q] = "over" /\ ~armed'[q] /\ signal'[q] = "none"
      /\ gone'[q] = gone[q] /\ hedgeAborted'[q] = hedgeAborted[q]
      /\ \A p \in Requests \ {q} :
           /\ pc'[p] = pc[p] /\ route'[p] = route[p] /\ sent'[p] = sent[p]
           /\ gone'[p] = gone[p] /\ hedgeAborted'[p] = hedgeAborted[p]
           /\ armed'[p] = armed[p] /\ signal'[p] = signal[p]
  BY LeaveStep DEF Return
<1>4. Types'
  BY <1>1, <1>3 DEF Types, StateTypes, stateVars
<1>5. \A p \in Requests \ {q} : Untouched(p)
  BY <1>3 DEF Untouched, stateVars
<1>6. Routed(q)' /\ Silent(q)' /\ Timer(q)' /\ Aborts(q)' /\ Heard(q)' /\ Fresh(q)'
  BY <1>2, <1>3 DEF RequestInv, Routed, Silent, Timer, Aborts, Heard, Fresh, stateVars
<1>7. Lower(q)'
  BY <1>2, <1>3 DEF RequestInv, Lower, stateVars
<1>8. Ruled(q)'
  <2>1. trail[q] \in Seq(Entry)
    BY <1>1 DEF Types, StateTypes
  <2>2. \A i \in DOMAIN trail[q] : trail[q][i] \in Entry
    BY <2>1, ElementOfSeq, LenProperties
  <2>3. \A r \in Routes : /\ ModelOf[r] \in Models
                          /\ outputCap[ModelOf[r]] \in Nat /\ outputCap'[ModelOf[r]] \in Nat
                          /\ outputCap'[ModelOf[r]] <= outputCap[ModelOf[r]]
    BY <1>1 DEF Types, BookTypes, Models, CapsFall
  <2> QED BY <1>2, <2>2, <2>3 DEF RequestInv, Ruled, stateVars, Entry
<1> QED BY <1>3, <1>4, <1>5, <1>6, <1>7, <1>8, Focus DEF RequestInv
\* In particular one that renders its answer and returns.
LEMMA RenderInv ==
  ASSUME NEW q \in Requests, NEW body \in Body, NEW timedOut \in BOOLEAN, Inv,
         pc[q] # "over", Render(q, body, timedOut), Return(q), UNCHANGED <<now, stateVars>>,
         BookTypes', CapsFall,
         wire' \in [Requests -> {"nothing", "headers", "content"}],
         booked' \in [Requests -> {"nothing", "whole", "cut"}],
         \A p \in Requests \ {q} : wire'[p] = wire[p],
         wire'[q] # "nothing" => body.status = 200,
         timedOut => Len(trail[q]) >= 2
  PROVE  Inv'
<1>1. /\ answers' \in [Requests -> Seq(Answer)]
      /\ \A p \in Requests \ {q} : answers'[p] = answers[p]
      /\ Len(answers'[q]) = 1 /\ answers'[q] # <<>>
      /\ answers'[q][1].status = body.status
      /\ answers'[q][1].timedOut = timedOut
  BY RenderStep
<1>2. ReplyTypes'
  BY <1>1 DEF ReplyTypes
<1>3. pc'[q] = "over"
  BY DEF Return, Inv, TypeOK
<1>4. Answered(q)'
  BY <1>1, <1>3 DEF Answered, stateVars
<1> QED BY <1>1, <1>2, <1>4, EndInv

\* The books of the routes that nothing touches stay as they are.
LEMMA SameBooks ==
  ASSUME Inv, UNCHANGED bookVars
  PROVE  BookTypes' /\ CapsFall
  BY TypesAreTypeOK DEF Inv, Types, BookTypes, bookVars, CapsFall

\* Booking a failure keeps the types of the books; ceilings only fall.
LEMMA BookFailureStep ==
  ASSUME NEW r \in Routes, NEW f, NEW c \in Nat, Inv, BookFailure(r, f, c)
  PROVE  /\ BookTypes' /\ CapsFall
         /\ LearnsCap(r, f, c) => outputCap'[ModelOf[r]] = c
<1>1. BookTypes /\ ModelOf[r] \in Models
  BY TypesAreTypeOK DEF Inv, Types, Models
<1>2. benched' \subseteq Routes
  BY <1>1 DEF BookFailure, BookTypes, OfModel, OfKey, OfPlatform
<1>3. streak' \in [Routes -> 0..EmptyStreakLimit]
  BY <1>1, LimitAssumption DEF BookFailure, BookTypes
<1>4. outputCap' = [outputCap EXCEPT ![ModelOf[r]] = IF LearnsCap(r, f, c) THEN c ELSE @]
  BY DEF BookFailure
<1>5. LearnsCap(r, f, c) => c < outputCap[ModelOf[r]]
  BY DEF LearnsCap
<1> HIDE DEF LearnsCap
<1> QED BY <1>1, <1>2, <1>3, <1>4, <1>5 DEF BookTypes, CapsFall

\* A request that is told why nothing served it ends properly.
LEMMA ExhaustedInv ==
  ASSUME NEW q \in Requests, NEW t, NEW tripped \in BOOLEAN, NEW timedOut \in BOOLEAN,
         NEW cooling \in BOOLEAN, Inv, pc[q] # "over", wire[q] = "nothing",
         OnExhausted(q, t, tripped, timedOut, cooling), Return(q),
         UNCHANGED <<now, stateVars, wire, booked>>, BookTypes', CapsFall,
         timedOut => Len(trail[q]) >= 2
  PROVE  Inv'
<1>1. ExhaustedRetryError(FailureAt(t), tripped, cooling) \in Body
  BY ExhaustedType
<1>2. /\ wire' \in [Requests -> {"nothing", "headers", "content"}]
      /\ booked' \in [Requests -> {"nothing", "whole", "cut"}]
      /\ \A p \in Requests : wire'[p] = wire[p]
  BY TypesAreTypeOK DEF Inv, Types, ReplyTypes
<1> QED BY <1>1, <1>2, RenderInv DEF OnExhausted

\* What ends a request at the top of its loop, or refuses its candidate.
LEMMA StopInv ==
  ASSUME NEW q \in Requests, Inv,
         StopUnheard(q) \/ RoutingGivesUp(q) \/ RetriesSpent(q) \/ BudgetSpent(q)
  PROVE  Inv'
<1>1. /\ RequestInv(q) /\ Types /\ UNCHANGED bookVars
      /\ pc[q] \in {"top", "chosen"} /\ wire[q] = "nothing" /\ Len(trail[q]) \in Nat
  BY TypesAreTypeOK, LenProperties
  DEF Inv, RequestInv, Silent, Types, StateTypes, StopUnheard, RoutingGivesUp,
      RetriesSpent, BudgetSpent, AtTop
<1>2. BookTypes' /\ CapsFall
  BY <1>1, SameBooks
<1>3. CASE StopUnheard(q)
  <2>1. pc'[q] = "over" /\ gone'[q] /\ UNCHANGED <<answers, wire, booked, trail>>
    BY <1>1, <1>3 DEF StopUnheard, Return, LeaveAttempt, stateVars, replyVars, Types,
                      LoopTypes
  <2>2. Answered(q)' /\ ReplyTypes'
    BY <1>1, <2>1 DEF RequestInv, Answered, Types, ReplyTypes
  <2> QED BY <1>2, <1>3, <2>1, <2>2, EndInv DEF StopUnheard, replyVars
<1>4. CASE RoutingGivesUp(q)
  <2> DEFINE spent == Len(trail[q]) > 1 /\ BaseBudget > 0 /\ Elapsed(q) >= BaseBudget
  <2>1. CASE IsRetry(q)
    <3>1. spent \in BOOLEAN /\ (spent => Len(trail[q]) >= 2)
      BY <1>1
    <3>2. OnExhausted(q, trail[q], FALSE, spent, benched # {})
      BY <1>4, <2>1 DEF RoutingGivesUp
    <3> HIDE DEF spent
    <3> QED BY <1>1, <1>2, <1>4, <3>1, <3>2, ExhaustedInv DEF RoutingGivesUp, stateVars
  <2>2. CASE ~IsRetry(q)
    <3>1. RoutingExhaustionBody(RoutingLines, benched # {}) \in Body
      BY RoutingExhaustedType
    <3>2. Render(q, RoutingExhaustionBody(RoutingLines, benched # {}), FALSE)
      BY <1>4, <2>2 DEF RoutingGivesUp
    <3>3. /\ wire' \in [Requests -> {"nothing", "headers", "content"}]
          /\ booked' \in [Requests -> {"nothing", "whole", "cut"}]
          /\ \A p \in Requests : wire'[p] = wire[p]
      BY <1>1, <1>4 DEF Types, ReplyTypes, RoutingGivesUp
    <3> QED BY <1>1, <1>2, <1>4, <3>1, <3>2, <3>3, RenderInv DEF RoutingGivesUp, stateVars
  <2> QED BY <2>1, <2>2
<1>5. CASE RetriesSpent(q)
  BY <1>1, <1>2, <1>5, ExhaustedInv DEF RetriesSpent, stateVars
<1>6. CASE BudgetSpent(q)
  <2>1. Len(trail[q]) >= 2
    BY <1>1, <1>6 DEF BudgetSpent, BudgetIsSpent
  <2> QED BY <1>1, <1>2, <1>6, <2>1, ExhaustedInv DEF BudgetSpent, stateVars
<1> QED BY <1>3, <1>4, <1>5, <1>6
-----------------------------------------------------------------------------
(* The ends of an attempt.                                                 *)

\* So does a stream ended by an error frame.
LEMMA EndInterruptedInv ==
  ASSUME NEW q \in Requests, Inv, pc[q] = "waiting", EndInterrupted(q)
  PROVE  Inv'
<1> DEFINE body == Plain(200, "stream_error")
<1>1. body \in Body /\ body.status = 200
  BY PlainType
<1>2. Render(q, body, FALSE) /\ Return(q) /\ UNCHANGED <<now, stateVars, wire, booked>>
  BY DEF EndInterrupted
<1> HIDE DEF body
<1>3. /\ wire' \in [Requests -> {"nothing", "headers", "content"}]
      /\ booked' \in [Requests -> {"nothing", "whole", "cut"}]
      /\ \A p \in Requests \ {q} : wire'[p] = wire[p]
  BY <1>2, TypesAreTypeOK DEF Inv, Types, ReplyTypes
<1>4. BookTypes' /\ CapsFall
  BY SameBooks DEF EndInterrupted
<1> QED BY <1>1, <1>2, <1>3, <1>4, RenderInv

\* So does a request refused for good.
LEMMA OnFatalInv ==
  ASSUME NEW q \in Requests, Inv, pc[q] = "waiting", wire[q] = "nothing", OnFatal(q)
  PROVE  Inv'
<1> DEFINE body == Plain(502, "provider_error")
<1>1. body \in Body
  BY PlainType
<1>2. Render(q, body, FALSE) /\ Return(q) /\ UNCHANGED <<now, stateVars, wire, booked>>
  BY DEF OnFatal
<1> HIDE DEF body
<1>3. /\ wire' \in [Requests -> {"nothing", "headers", "content"}]
      /\ booked' \in [Requests -> {"nothing", "whole", "cut"}]
      /\ \A p \in Requests \ {q} : wire'[p] = wire[p]
  BY <1>2, TypesAreTypeOK DEF Inv, Types, ReplyTypes
<1>4. BookTypes' /\ CapsFall
  BY SameBooks DEF OnFatal
<1> QED BY <1>1, <1>2, <1>3, <1>4, RenderInv

\* So does a turn that was sent whole.
LEMMA FinishTurnInv ==
  ASSUME NEW q \in Requests, NEW what \in {"whole", "cut"}, Inv, pc[q] = "waiting",
         FinishTurn(q, what)
  PROVE  Inv'
<1> DEFINE body == Plain(200, "ok")
<1>1. body \in Body /\ body.status = 200
  BY PlainType
<1>2. /\ Render(q, body, FALSE) /\ Return(q) /\ UNCHANGED <<now, stateVars>>
      /\ UNCHANGED <<benched, outputCap>> /\ streak' = [streak EXCEPT ![route[q]] = 0]
      /\ wire' = [wire EXCEPT ![q] = "content"] /\ booked' = [booked EXCEPT ![q] = what]
  BY DEF FinishTurn
<1> HIDE DEF body
<1>3. Types /\ route[q] \in Routes
  BY TypesAreTypeOK DEF Inv, RequestInv, Routed
<1>4. /\ wire' \in [Requests -> {"nothing", "headers", "content"}]
      /\ booked' \in [Requests -> {"nothing", "whole", "cut"}]
      /\ \A p \in Requests \ {q} : wire'[p] = wire[p]
  BY <1>2, <1>3 DEF Types, ReplyTypes
<1>5. BookTypes' /\ CapsFall
  BY <1>2, <1>3, LimitAssumption DEF Types, BookTypes, CapsFall
<1> QED BY <1>1, <1>2, <1>4, <1>5, RenderInv

\* An attempt that ends because its client is gone says nothing.
LEMMA SilentEndInv ==
  ASSUME NEW q \in Requests, Inv, pc[q] # "over", gone[q], Return(q),
         UNCHANGED <<now, stateVars, replyVars, bookVars>>
  PROVE  Inv'
<1>1. Types /\ RequestInv(q)
  BY TypesAreTypeOK DEF Inv
<1>2. BookTypes' /\ CapsFall
  BY SameBooks
<1>3. pc'[q] = "over" /\ gone'[q]
  BY <1>1 DEF Return, LeaveAttempt, Types, LoopTypes
<1>4. Answered(q)' /\ ReplyTypes'
  BY <1>1, <1>3 DEF RequestInv, Answered, Types, ReplyTypes, replyVars
<1> QED BY <1>2, <1>4, EndInv DEF replyVars

\* What a failure appends to the trail, and rules out.
LEMMA FailedEntry ==
  ASSUME NEW q \in Requests, NEW f \in Failures, NEW c \in Nat, Inv, pc[q] = "waiting"
  PROVE  /\ [route |-> route[q], failure |-> f, exempt |-> Exempt(route[q], f),
             cap |-> sent[q].cap] \in Entry
         /\ RulesOut(q, route[q], f, c) \subseteq Routes
         /\ route[q] \in Routes
         /\ ~LearnsCap(route[q], f, c) => route[q] \in RulesOut(q, route[q], f, c)
<1>1. Types /\ route[q] \in Routes
  BY TypesAreTypeOK DEF Inv, RequestInv, Routed
<1>2. Exempt(route[q], f) \in BOOLEAN
  BY DEF Exempt
<1>3. sent[q].cap \in Nat
  BY <1>1 DEF Types, LoopTypes
<1>4. [route |-> route[q], failure |-> f, exempt |-> Exempt(route[q], f),
       cap |-> sent[q].cap] \in Entry
  <2> HIDE DEF Exempt
  <2> QED BY <1>1, <1>2, <1>3 DEF Entry
<1>5. RulesOut(q, route[q], f, c) \subseteq Routes
  BY <1>1 DEF RulesOut, OfModel, OfKey, OfPlatform
<1>6. ~LearnsCap(route[q], f, c) => route[q] \in RulesOut(q, route[q], f, c)
  BY DEF RulesOut
<1> QED BY <1>1, <1>4, <1>5, <1>6

\* A failure is entered in the trail and rules its route out.
LEMMA FailOverInv ==
  ASSUME NEW q \in Requests, NEW f \in Failures, NEW c \in Nat, Inv,
         pc[q] = "waiting", wire[q] = "nothing", FailOver(q, f, c)
  PROVE  Inv'
<1> DEFINE r == route[q]
           e == [route |-> r, failure |-> f, exempt |-> Exempt(r, f), cap |-> sent[q].cap]
           t == Append(trail[q], e)
           n == Len(trail[q])
<1>1. Types /\ RequestInv(q) /\ r \in Routes
  BY TypesAreTypeOK DEF Inv, RequestInv, Routed
<1>2. e \in Entry /\ e.route = r /\ e.cap = sent[q].cap /\ sent[q].cap \in Nat
  BY <1>1, FailedEntry DEF Types, LoopTypes
<1>3. /\ trail[q] \in Seq(Entry) /\ n \in Nat /\ DOMAIN trail[q] = 1..n
      /\ t \in Seq(Entry) /\ Len(t) = n + 1 /\ DOMAIN t = 1..(n + 1)
      /\ t[n + 1] = e /\ \A i \in 1..n : t[i] = trail[q][i]
  <2>1. trail[q] \in Seq(Entry)
    BY <1>1 DEF Types, StateTypes
  <2> HIDE DEF e
  <2> QED BY <1>2, <2>1, AppendProperties, LenProperties
<1>4. /\ trail' = [trail EXCEPT ![q] = t]
      /\ ruledOut' = [ruledOut EXCEPT ![q] = @ \cup RulesOut(q, r, f, c)]
      /\ BookFailure(r, f, c)
      /\ UNCHANGED <<now, wire, booked>>
  BY DEF FailOver
<1>5. RulesOut(q, r, f, c) \subseteq Routes
      /\ (~LearnsCap(r, f, c) => r \in RulesOut(q, r, f, c))
  BY FailedEntry
<1> HIDE DEF e, t, n, r
<1>6. /\ StateTypes'
      /\ trail'[q] = t /\ ruledOut[q] \subseteq ruledOut'[q]
      /\ (~LearnsCap(r, f, c) => r \in ruledOut'[q])
      /\ \A p \in Requests \ {q} : trail'[p] = trail[p] /\ ruledOut'[p] = ruledOut[p]
  BY <1>1, <1>3, <1>4, <1>5 DEF Types, StateTypes
<1>7. BookTypes' /\ CapsFall /\ (LearnsCap(r, f, c) => outputCap'[ModelOf[r]] = c)
  BY <1>1, <1>4, BookFailureStep
\* Whether it goes on or the breaker stops it, it is answered as it is due.
<1>8. PICK l \in {"top", "over"} :
        /\ LeaveAttempt(q) /\ pc' = [pc EXCEPT ![q] = l] /\ running' \in Requests \cup {None}
        /\ \/ UNCHANGED answers /\ (l = "over" => gone[q])
           \/ l = "over" /\ \E tripped, cooling \in BOOLEAN :
                              OnExhausted(q, t, tripped, FALSE, cooling)
  <2>1. CASE /\ pc' = [pc EXCEPT ![q] = "top"] /\ running' = q
             /\ LeaveAttempt(q) /\ UNCHANGED answers
    BY <2>1
  <2>2. CASE /\ Return(q)
             /\ IF gone[q] THEN UNCHANGED answers
                ELSE OnExhausted(q, t, TRUE, FALSE, benched' # {})
    <3>1. LeaveAttempt(q) /\ pc' = [pc EXCEPT ![q] = "over"] /\ running' = None
      BY <2>2 DEF Return
    <3>2. CASE gone[q]
      BY <2>2, <3>1, <3>2
    <3>3. CASE ~gone[q]
      <4>1. OnExhausted(q, t, TRUE, FALSE, benched' # {})
        BY <2>2, <3>3
      <4>2. (benched' # {}) \in BOOLEAN
        OBVIOUS
      <4>3. \E tripped, cooling \in BOOLEAN : OnExhausted(q, t, tripped, FALSE, cooling)
        BY <4>1, <4>2, Zenon
      <4> QED BY <3>1, <4>3
    <3> QED BY <3>2, <3>3
  <2> QED BY <2>1, <2>2, Zenon DEF FailOver, r, e, t
<1>9. /\ LoopTypes' /\ SocketTypes' /\ LeasesMatchAttempts'
      /\ pc'[q] = l /\ ~armed'[q] /\ signal'[q] = "none"
      /\ gone'[q] = gone[q] /\ hedgeAborted'[q] = hedgeAborted[q]
      /\ \A p \in Requests \ {q} :
           /\ pc'[p] = pc[p] /\ route'[p] = route[p] /\ sent'[p] = sent[p]
           /\ gone'[p] = gone[p] /\ hedgeAborted'[p] = hedgeAborted[p]
           /\ armed'[p] = armed[p] /\ signal'[p] = signal[p]
  BY <1>8, LeaveStep
<1>10. /\ answers' \in [Requests -> Seq(Answer)]
       /\ \A p \in Requests \ {q} : answers'[p] = answers[p]
       /\ \/ answers'[q] = <<>> /\ (l = "over" => gone[q])
          \/ l = "over" /\ Len(answers'[q]) = 1 /\ answers'[q] # <<>> /\ ~answers'[q][1].timedOut
  <2>1. answers \in [Requests -> Seq(Answer)] /\ answers[q] = <<>>
    BY <1>1 DEF Types, ReplyTypes, RequestInv, Answered
  <2>2. CASE UNCHANGED answers /\ (l = "over" => gone[q])
    BY <2>1, <2>2
  <2>3. ASSUME l = "over", NEW tripped \in BOOLEAN, NEW cooling \in BOOLEAN,
               OnExhausted(q, t, tripped, FALSE, cooling)
        PROVE  /\ answers' \in [Requests -> Seq(Answer)]
               /\ \A p \in Requests \ {q} : answers'[p] = answers[p]
               /\ Len(answers'[q]) = 1 /\ answers'[q] # <<>> /\ ~answers'[q][1].timedOut
    <3>1. ExhaustedRetryError(FailureAt(t), tripped, cooling) \in Body
      BY ExhaustedType
    <3> QED BY <2>3, <3>1, RenderStep DEF OnExhausted
  <2> QED BY <1>8, <2>2, <2>3
<1>11. Types'
  BY <1>1, <1>4, <1>6, <1>7, <1>9, <1>10 DEF Types, ReplyTypes
<1>12. \A p \in Requests \ {q} : Untouched(p)
  BY <1>4, <1>6, <1>9, <1>10 DEF Untouched
<1>13. Routed(q)' /\ Silent(q)' /\ Aborts(q)' /\ Heard(q)' /\ Fresh(q)'
  BY <1>4, <1>9 DEF Routed, Silent, Aborts, Heard, Fresh
<1>14. Timer(q)'
  BY <1>1, <1>3, <1>6, <1>9 DEF RequestInv, Timer, n
<1>15. Answered(q)'
  <2>1. pc'[q] = l /\ wire'[q] = "nothing" /\ gone'[q] = gone[q]
    BY <1>4, <1>9
  <2>2. CASE answers'[q] = <<>> /\ (l = "over" => gone[q])
    BY <2>1, <2>2 DEF Answered
  <2>3. CASE l = "over" /\ Len(answers'[q]) = 1 /\ answers'[q] # <<>>
             /\ ~answers'[q][1].timedOut
    BY <2>1, <2>3 DEF Answered
  <2> QED BY <1>10, <2>2, <2>3
<1>16. /\ outputCap[ModelOf[r]] <= sent[q].cap
       /\ \A i \in 1..n : trail[q][i].route = r => sent[q].cap < trail[q][i].cap
  BY <1>1, <1>3 DEF RequestInv, Fresh, Lower, r
<1>17. Lower(q)'
  <2>1. \A i, j \in 1..(n + 1) :
          i < j /\ t[j].route = t[i].route => t[j].cap < t[i].cap
    <3>1. \A i, j \in 1..n :
            i < j /\ trail[q][j].route = trail[q][i].route
              => trail[q][j].cap < trail[q][i].cap
      BY <1>1, <1>3 DEF RequestInv, Lower
    <3>2. ASSUME NEW i \in 1..(n + 1), NEW j \in 1..(n + 1), i < j, t[j].route = t[i].route
          PROVE  t[j].cap < t[i].cap
      <4>1. i \in 1..n /\ t[i] = trail[q][i]
        BY <1>3, <3>2
      <4>2. CASE j \in 1..n
        BY <1>3, <3>1, <3>2, <4>1, <4>2
      <4>3. CASE j = n + 1
        BY <1>2, <1>3, <1>16, <3>2, <4>1, <4>3
      <4> QED BY <1>3, <4>2, <4>3
    <3> QED BY <3>2
  <2> QED BY <1>3, <1>6, <1>9, <2>1 DEF Lower
<1>18. Ruled(q)'
  <2>1. ASSUME NEW i \in 1..(n + 1)
        PROVE  t[i].route \in ruledOut'[q] \/ outputCap'[ModelOf[t[i].route]] < t[i].cap
    <3>1. \A m \in Routes : /\ ModelOf[m] \in Models
                            /\ outputCap[ModelOf[m]] \in Nat /\ outputCap'[ModelOf[m]] \in Nat
                            /\ outputCap'[ModelOf[m]] <= outputCap[ModelOf[m]]
      BY <1>1, <1>7 DEF Types, BookTypes, Models, CapsFall
    <3>2. CASE i \in 1..n
      <4>1. trail[q][i] \in Entry
        BY <1>3, <3>2, ElementOfSeq DEF n
      <4>2. trail[q][i].route \in ruledOut[q]
            \/ outputCap[ModelOf[trail[q][i].route]] < trail[q][i].cap
        BY <1>1, <1>3, <3>2 DEF RequestInv, Ruled
      <4>3. trail[q][i].route \in Routes /\ trail[q][i].cap \in Nat
        BY <4>1 DEF Entry
      <4>4. trail[q][i].route \in ruledOut'[q]
            \/ outputCap'[ModelOf[trail[q][i].route]] < trail[q][i].cap
        BY <1>6, <3>1, <4>2, <4>3
      <4> QED BY <1>3, <3>2, <4>4
    <3>3. CASE i = n + 1
      <4>1. t[i].route = r /\ t[i].cap = sent[q].cap
        BY <1>2, <1>3, <3>3
      <4>2. LearnsCap(r, f, c) => c < outputCap[ModelOf[r]]
        BY DEF LearnsCap
      <4> QED BY <1>1, <1>2, <1>6, <1>7, <1>16, <3>1, <4>1, <4>2
    <3> QED BY <1>3, <3>2, <3>3
  <2> QED BY <1>3, <1>6, <2>1 DEF Ruled
<1> QED BY <1>7, <1>9, <1>11, <1>12, <1>13, <1>14, <1>15, <1>17, <1>18, Focus DEF RequestInv
\* Whatever the catch of an attempt decides keeps the invariant.
LEMMA CatchInv ==
  ASSUME NEW q \in Requests, NEW f \in Failures, Inv, pc[q] = "waiting", Catch(q, f)
  PROVE  Inv'
<1>1. CASE EndInterrupted(q)
  BY <1>1, EndInterruptedInv
<1>2. CASE wire[q] = "nothing" /\ OnFatal(q)
  BY <1>2, OnFatalInv
<1>3. CASE wire[q] = "nothing"
           /\ \E c \in IF f = "over_output_cap" THEN Caps ELSE {NoCap} : FailOver(q, f, c)
  <2>1. PICK c \in Nat : FailOver(q, f, c)
    BY <1>3, LimitAssumption
  <2> QED BY <1>3, <2>1, FailOverInv
<1> QED BY <1>1, <1>2, <1>3 DEF Catch

\* So does what follows the firing of the hedge.
LEMMA HedgeAbortInv ==
  ASSUME NEW q \in Requests, Inv, HedgeAbort(q)
  PROVE  Inv'
<1>1. pc[q] = "waiting" /\ signal[q] = "hedge"
  BY DEF HedgeAbort, InFlight
<1>2. CASE wire[q] # "nothing"
  BY <1>1, <1>2, EndInterruptedInv DEF HedgeAbort
<1>3. CASE wire[q] = "nothing"
  <2>1. /\ \/ BookFailure(route[q], "timeout", NoCap)
           \/ UNCHANGED bookVars
        /\ OnExhausted(q, trail[q], FALSE, TRUE, benched' # {})
        /\ Return(q) /\ UNCHANGED <<now, stateVars, wire, booked>>
    BY <1>3 DEF HedgeAbort
  <2>2. route[q] \in Routes /\ Len(trail[q]) > 1 /\ Len(trail[q]) \in Nat
    BY <1>1, LenProperties, TypesAreTypeOK
    DEF Inv, RequestInv, Routed, Timer, Aborts, Types, StateTypes
  <2>3. BookTypes' /\ CapsFall
    BY <2>1, <2>2, BookFailureStep, SameBooks, LimitAssumption
  <2>4. (benched' # {}) \in BOOLEAN /\ Len(trail[q]) >= 2
    BY <2>2
  <2> QED BY <1>1, <1>3, <2>1, <2>3, <2>4, ExhaustedInv
<1> QED BY <1>2, <1>3

\* Whatever the attempt in flight comes to.
LEMMA SettleInv ==
  ASSUME NEW q \in Requests, Inv,
         \/ ClientAbort(q) \/ PumpBreaks(q) \/ HedgeAbort(q) \/ ErrorBodyRead(q)
         \/ Complete(q) \/ \E f \in UpstreamFailures : TurnFails(q, f)
  PROVE  Inv'
<1>1. UpstreamFailures \subseteq Failures /\ Types /\ RequestInv(q)
  BY RouteAssumption, TypesAreTypeOK DEF Inv
<1>2. CASE ClientAbort(q)
  <2>1. pc[q] = "waiting" /\ gone[q]
    BY <1>1, <1>2 DEF ClientAbort, CutShort, InFlight, RequestInv, Aborts
  <2> QED BY <1>2, <2>1, SilentEndInv DEF ClientAbort
<1>3. CASE PumpBreaks(q)
  <2>1. pc[q] = "waiting" /\ gone[q]
    BY <1>1, <1>3 DEF PumpBreaks, CutShort, InFlight, RequestInv, Aborts
  <2>2. CASE Return(q) /\ UNCHANGED <<now, stateVars, replyVars, bookVars>>
    BY <2>1, <2>2, SilentEndInv
  <2>3. CASE FinishTurn(q, "cut")
    BY <2>1, <2>3, FinishTurnInv
  <2>4. CASE \E f \in UpstreamFailures \cap HeldBack : Catch(q, f)
    BY <1>1, <2>1, <2>4, CatchInv
  <2> QED BY <1>3, <2>2, <2>3, <2>4 DEF PumpBreaks
<1>4. CASE HedgeAbort(q)
  BY <1>4, HedgeAbortInv
<1>5. CASE ErrorBodyRead(q)
  <2>1. pc[q] = "waiting" /\ reply[q] \in Failures
    BY <1>1, <1>5 DEF ErrorBodyRead, InFlight, Types, SocketTypes
  <2>2. Catch(q, reply[q]) \/ FinishTurn(q, "whole")
    BY <1>5 DEF ErrorBodyRead
  <2> QED BY <2>1, <2>2, CatchInv, FinishTurnInv
<1>6. CASE Complete(q)
  BY <1>6, FinishTurnInv DEF Complete, Alive, InFlight
<1>7. CASE \E f \in UpstreamFailures : TurnFails(q, f)
  BY <1>1, <1>7, CatchInv DEF TurnFails, Alive, InFlight
<1> QED BY <1>2, <1>3, <1>4, <1>5, <1>6, <1>7

-----------------------------------------------------------------------------
(* The steps that end nothing.                                             *)

\* A request arrives with nothing tried.
LEMMA ArriveInv ==
  ASSUME NEW q \in Requests, Inv, Arrive(q)
  PROVE  Inv'
<1>1. Types /\ RequestInv(q)
  BY TypesAreTypeOK DEF Inv
<1> USE DEF Arrive, stateVars, socketVars, replyVars, bookVars
<1>2. Types'
  BY <1>1 DEF Types, LoopTypes, StateTypes, SocketTypes, ReplyTypes, BookTypes
<1>3. pc[q] = "idle" /\ pc'[q] = "top" /\ \A p \in Requests \ {q} : pc'[p] = pc[p]
  BY <1>1 DEF Types, LoopTypes
<1>4. CapsFall
  BY SameBooks
<1>5. LeasesMatchAttempts'
  BY <1>3 DEF Inv, LeasesMatchAttempts
<1>6. \A p \in Requests \ {q} : Untouched(p)
  BY <1>3 DEF Untouched
<1>7. RequestInv(q)'
  BY <1>1, <1>3 DEF RequestInv, Routed, Silent, Timer, Aborts, Heard, Answered, Ruled,
                    Fresh, Lower
<1> QED BY <1>2, <1>4, <1>5, <1>6, <1>7, Focus

\* The route taken was not ruled out, and its lease is the only change.
LEMMA TakeRouteInv ==
  ASSUME NEW q \in Requests, NEW r \in Routes, Inv, TakeRoute(q, r)
  PROVE  Inv'
<1>1. Types /\ RequestInv(q)
  BY TypesAreTypeOK DEF Inv
<1>2. /\ pc[q] = "top" /\ r \notin ruledOut[q]
      /\ ~(trail[q] # <<>> /\ gone[q])
      /\ pc' = [pc EXCEPT ![q] = "chosen"] /\ route' = [route EXCEPT ![q] = r]
      /\ leases' = leases \cup {<<q, r>>}
      /\ UNCHANGED <<now, running, began, sent, trail, ruledOut, gone, hedgeAborted, armed,
                     signal, reply, wire, answers, booked, benched, streak, outputCap>>
  BY DEF TakeRoute, AtTop, MayTry, IsRetry, Candidates, stateVars, socketVars, replyVars,
         bookVars
<1>3. Types'
  BY <1>1, <1>2 DEF Types, LoopTypes, StateTypes, SocketTypes, ReplyTypes, BookTypes
<1>4. /\ pc'[q] = "chosen" /\ route'[q] = r
      /\ \A p \in Requests \ {q} : pc'[p] = pc[p] /\ route'[p] = route[p]
  BY <1>1, <1>2 DEF Types, LoopTypes
<1>5. CapsFall
  BY <1>2, SameBooks DEF bookVars
<1>6. LeasesMatchAttempts'
  <2> DEFINE trying == {x \in Requests : pc[x] \in {"chosen", "waiting"}}
  <2>1. {x \in Requests : pc'[x] \in {"chosen", "waiting"}} = trying \cup {q} /\ q \notin trying
    BY <1>2, <1>4
  <2>2. \A x \in trying : route'[x] = route[x]
    BY <1>4, <2>1
  <2>3. leases = {<<x, route[x]>> : x \in trying}
    BY DEF Inv, LeasesMatchAttempts
  <2> HIDE DEF trying
  <2>4. leases' = {<<x, route'[x]>> : x \in trying \cup {q}}
    BY <1>2, <1>4, <2>2, <2>3
  <2> QED BY <2>1, <2>4 DEF LeasesMatchAttempts
<1>7. \A p \in Requests \ {q} : Untouched(p)
  BY <1>2, <1>4 DEF Untouched
<1>8. RequestInv(q)'
  BY <1>1, <1>2, <1>4 DEF RequestInv, Routed, Silent, Timer, Aborts, Heard, Answered, Ruled,
                          Fresh, Lower
<1> QED BY <1>3, <1>5, <1>6, <1>7, <1>8, Focus
\* A route that was ruled out is sent again only under a lower ceiling.
LEMMA DispatchInv ==
  ASSUME NEW q \in Requests, Inv, Dispatch(q)
  PROVE  Inv'
<1> DEFINE timer == Len(trail[q]) > 1 /\ Budget(q) > 0
           cap == outputCap[ModelOf[route[q]]]
<1>1. Types /\ RequestInv(q)
  BY TypesAreTypeOK DEF Inv
<1>2. /\ pc[q] = "chosen" /\ pc' = [pc EXCEPT ![q] = "waiting"] /\ running' = None
      /\ sent' = [sent EXCEPT ![q] = [at |-> now, cap |-> cap]]
      /\ armed' = [armed EXCEPT ![q] = timer]
      /\ signal' = [signal EXCEPT ![q] = ComposedSignal(q)]
      /\ UNCHANGED <<now, began, route, leases, gone, hedgeAborted, reply, trail, ruledOut,
                     wire, answers, booked, benched, streak, outputCap>>
  BY DEF Dispatch, Send, stateVars, replyVars, bookVars
<1>3. timer \in BOOLEAN /\ (timer => Len(trail[q]) > 1)
  OBVIOUS
<1>4. /\ ComposedSignal(q) \in {"none", "client", "hedge"}
      /\ ComposedSignal(q) = "client" => gone[q]
      /\ ComposedSignal(q) = "hedge" => hedgeAborted[q]
  BY DEF ComposedSignal
<1>5. route[q] \in Routes /\ route[q] \notin ruledOut[q] /\ wire[q] = "nothing" /\ cap \in Nat
  BY <1>1, <1>2 DEF RequestInv, Routed, Fresh, Silent, Types, BookTypes, Models
<1> HIDE DEF timer
<1>6. Types'
  <2> HIDE DEF cap
  <2>1. LoopTypes'
    BY <1>1, <1>2, <1>5 DEF Types, LoopTypes
  <2>2. SocketTypes'
    BY <1>1, <1>2, <1>3, <1>4 DEF Types, SocketTypes
  <2> QED BY <1>1, <1>2, <2>1, <2>2 DEF Types, StateTypes, ReplyTypes, BookTypes
<1>7. /\ pc'[q] = "waiting" /\ sent'[q].cap = cap /\ armed'[q] = timer
      /\ signal'[q] = ComposedSignal(q)
      /\ \A p \in Requests \ {q} : /\ pc'[p] = pc[p] /\ sent'[p] = sent[p]
                                   /\ armed'[p] = armed[p] /\ signal'[p] = signal[p]
  <2> HIDE DEF cap
  <2> QED BY <1>1, <1>2 DEF Types, LoopTypes, SocketTypes
<1>8. CapsFall
  BY <1>2, SameBooks DEF bookVars
<1>9. LeasesMatchAttempts'
  BY <1>2, <1>7 DEF Inv, LeasesMatchAttempts
<1>10. \A p \in Requests \ {q} : Untouched(p)
  BY <1>2, <1>7 DEF Untouched
<1>11. Routed(q)' /\ Silent(q)' /\ Timer(q)' /\ Aborts(q)' /\ Heard(q)' /\ Answered(q)'
  BY <1>1, <1>2, <1>3, <1>4, <1>5, <1>7
  DEF RequestInv, Routed, Silent, Timer, Aborts, Heard, Answered
<1>12. Ruled(q)' /\ Fresh(q)'
  BY <1>1, <1>2, <1>5, <1>7 DEF RequestInv, Ruled, Fresh
<1>13. Lower(q)'
  BY <1>1, <1>2, <1>5, <1>7 DEF RequestInv, Ruled, Lower
<1> QED BY <1>6, <1>8, <1>9, <1>10, <1>11, <1>12, <1>13, Focus DEF RequestInv

\* Events of the socket, the timer and the clock.
LEMMA SocketInv ==
  ASSUME NEW q \in Requests, Inv,
         \/ \E f \in UpstreamFailures : ErrorReply(q, f)
         \/ \E w \in {"headers", "content"} : Commit(q, w)
         \/ Hangup(q) \/ HedgeFires(q)
  PROVE  Inv'
<1>1. Types /\ RequestInv(q)
  BY TypesAreTypeOK DEF Inv
<1>2. UNCHANGED <<now, loopVars, stateVars, answers, booked, bookVars>>
  BY DEF ErrorReply, Commit, Hangup, HedgeFires, replyVars
<1>3. SocketTypes' /\ wire' \in [Requests -> {"nothing", "headers", "content"}]
  <2>1. CASE \E f \in UpstreamFailures : ErrorReply(q, f)
    BY <1>1, <2>1, RouteAssumption DEF ErrorReply, Types, SocketTypes, ReplyTypes, replyVars
  <2>2. CASE \E w \in {"headers", "content"} : Commit(q, w)
    BY <1>1, <2>2 DEF Commit, Types, SocketTypes, ReplyTypes
  <2>3. CASE Hangup(q)
    BY <1>1, <2>3 DEF Hangup, Types, SocketTypes, ReplyTypes, replyVars
  <2>4. CASE HedgeFires(q)
    BY <1>1, <2>4 DEF HedgeFires, Types, SocketTypes, ReplyTypes, replyVars
  <2> QED BY <2>1, <2>2, <2>3, <2>4
<1>4. Types'
  BY <1>1, <1>2, <1>3
  DEF Types, LoopTypes, StateTypes, ReplyTypes, BookTypes, loopVars, stateVars, bookVars
<1>5. CapsFall
  BY <1>2, SameBooks
<1>6. LeasesMatchAttempts'
  BY <1>2 DEF Inv, LeasesMatchAttempts, loopVars
<1>7. \A p \in Requests \ {q} :
        /\ gone'[p] = gone[p] /\ hedgeAborted'[p] = hedgeAborted[p]
        /\ armed'[p] = armed[p] /\ signal'[p] = signal[p] /\ wire'[p] = wire[p]
  BY <1>1 DEF ErrorReply, Commit, Hangup, HedgeFires, replyVars, Types, SocketTypes, ReplyTypes
<1>8. \A p \in Requests \ {q} : Untouched(p)
  BY <1>2, <1>7 DEF Untouched, loopVars, stateVars
<1>9. /\ gone[q] => gone'[q]
      /\ gone'[q] = gone[q] \/ pc[q] # "chosen"
      /\ wire'[q] = wire[q] \/ (pc[q] = "waiting" /\ signal'[q] = "none" /\ ~armed'[q])
      /\ (wire'[q] = "nothing") => (wire[q] = "nothing")
      /\ armed'[q] => armed[q]
      /\ hedgeAborted'[q] => hedgeAborted[q] \/ armed[q]
      /\ signal'[q] = "client" => gone'[q]
      /\ signal'[q] = "hedge" => hedgeAborted'[q] /\ wire[q] = "nothing"
  <2>1. CASE \E f \in UpstreamFailures : ErrorReply(q, f)
    BY <1>1, <2>1 DEF ErrorReply, replyVars, RequestInv, Aborts
  <2>2. CASE \E w \in {"headers", "content"} : Commit(q, w)
    BY <1>1, <2>2 DEF Commit, InFlight, RequestInv, Aborts, Types, SocketTypes, ReplyTypes
  <2>3. CASE Hangup(q)
    BY <1>1, <2>3 DEF Hangup, replyVars, RequestInv, Aborts, Types, SocketTypes
  <2>4. CASE HedgeFires(q)
    BY <1>1, <2>4 DEF HedgeFires, replyVars, RequestInv, Aborts, Timer, Types, SocketTypes
  <2> QED BY <2>1, <2>2, <2>3, <2>4
<1>10. Routed(q)' /\ Silent(q)' /\ Timer(q)' /\ Aborts(q)' /\ Heard(q)'
  BY <1>1, <1>2, <1>9
  DEF RequestInv, Routed, Silent, Timer, Aborts, Heard, loopVars, stateVars
<1>11. Answered(q)'
  BY <1>1, <1>2, <1>9 DEF RequestInv, Answered, loopVars, stateVars
<1>12. Ruled(q)' /\ Fresh(q)' /\ Lower(q)'
  BY <1>1, <1>2 DEF RequestInv, Ruled, Fresh, Lower, loopVars, stateVars, bookVars
<1> QED BY <1>4, <1>5, <1>6, <1>8, <1>10, <1>11, <1>12, Focus DEF RequestInv

\* Time, and benches that end, are no request's own step.
LEMMA OutsideInv ==
  ASSUME Inv, Tick \/ \E r \in Routes : CooldownEnds(r)
  PROVE  Inv'
<1>1. Types
  BY TypesAreTypeOK DEF Inv
<1>2. /\ UNCHANGED <<loopVars, stateVars, socketVars, replyVars, streak, outputCap>>
      /\ now' \in Nat /\ benched' \subseteq Routes
  BY <1>1 DEF Tick, CooldownEnds, bookVars, Types, BookTypes
<1>3. Types'
  BY <1>1, <1>2
  DEF Types, LoopTypes, StateTypes, SocketTypes, ReplyTypes, BookTypes, loopVars, stateVars,
      socketVars, replyVars
<1>4. CapsFall
  BY <1>1, <1>2 DEF Types, BookTypes, CapsFall
<1>5. \A p \in Requests : Untouched(p)
  BY <1>2 DEF Untouched, loopVars, stateVars, socketVars, replyVars
<1>6. LeasesMatchAttempts'
  BY <1>2 DEF Inv, LeasesMatchAttempts, loopVars
<1>7. \A p \in Requests : RequestInv(p)'
  BY <1>1, <1>3, <1>4, <1>5, Frame DEF Inv
<1> QED BY <1>3, <1>6, <1>7, TypesAreTypeOK DEF Inv
-----------------------------------------------------------------------------
(* The invariant holds throughout.                                         *)

\* At start no request has arrived and nothing is known of any route.
LEMMA InitInv ==
  ASSUME Init
  PROVE  Inv
<1>1. /\ None \notin Requests /\ MaxRetries \in Nat
      /\ NoCap \in Nat /\ EmptyStreakLimit \in Nat /\ 0 \in 0..EmptyStreakLimit
  BY RouteAssumption, LimitAssumption
<1>2. TypeOK
  BY <1>1 DEF Init, TypeOK
<1>3. LeasesMatchAttempts
  BY DEF Init, LeasesMatchAttempts
<1>4. ASSUME NEW q \in Requests
      PROVE  RequestInv(q)
  <2>1. Routed(q) /\ Silent(q) /\ Timer(q) /\ Aborts(q) /\ Heard(q) /\ Answered(q)
    BY <1>4 DEF Init, Routed, Silent, Timer, Aborts, Heard, Answered
  <2>2. Ruled(q) /\ Fresh(q) /\ Lower(q)
    BY <1>4 DEF Init, Ruled, Fresh, Lower
  <2> QED BY <2>1, <2>2 DEF RequestInv
<1> QED BY <1>2, <1>3, <1>4 DEF Inv

\* Every step keeps it, whoever takes it.
LEMMA NextInv ==
  ASSUME Inv, [Next]_vars
  PROVE  Inv'
<1>1. CASE \E q \in Requests : Arrive(q)
  BY <1>1, ArriveInv
<1>2. CASE \E q \in Requests : Step(q)
  BY <1>2, StopInv, DispatchInv, TakeRouteInv DEF Step
<1>3. CASE \E q \in Requests : Settle(q)
  BY <1>3, SettleInv DEF Settle
<1>4. CASE \E q \in Requests : Upstream(q) \/ Hangup(q) \/ HedgeFires(q)
  BY <1>4, SettleInv, SocketInv DEF Upstream
<1>5. CASE Tick \/ \E r \in Routes : CooldownEnds(r)
  BY <1>5, OutsideInv
<1>6. CASE UNCHANGED vars
  BY <1>6 DEF vars, loopVars, stateVars, socketVars, replyVars, bookVars, Inv, TypeOK,
     LeasesMatchAttempts, RequestInv, Routed, Silent, Timer, Aborts, Heard, Answered,
     Ruled, Fresh, Lower
<1> QED BY <1>1, <1>2, <1>3, <1>4, <1>5, <1>6 DEF Next
-----------------------------------------------------------------------------
(* What a step does to the place of a request in its loop.                 *)

\* An attempt that ends puts its request back at the top or at its end.
LEMMA EndedPlace ==
  ASSUME NEW q \in Requests, NEW f, Types, Catch(q, f)
  PROVE  \E place \in {"top", "over"} : pc' = [pc EXCEPT ![q] = place]
<1>1. CASE EndInterrupted(q) \/ OnFatal(q)
  BY <1>1 DEF EndInterrupted, OnFatal, Return
<1>2. CASE \E c \in IF f = "over_output_cap" THEN Caps ELSE {NoCap} : FailOver(q, f, c)
  BY <1>2 DEF FailOver, Return
<1> QED BY <1>1, <1>2 DEF Catch

\* A request's step moves that request alone, and only Dispatch sends.
LEMMA OwnPlace ==
  ASSUME NEW q \in Requests, Types,
         Arrive(q) \/ Step(q) \/ Settle(q) \/ Upstream(q) \/ Hangup(q) \/ HedgeFires(q)
  PROVE  \/ pc' = pc
         \/ \E place \in {"top", "chosen", "over"} : pc' = [pc EXCEPT ![q] = place]
         \/ Dispatch(q) /\ pc' = [pc EXCEPT ![q] = "waiting"]
<1>1. CASE Arrive(q)
  BY <1>1 DEF Arrive
<1>2. CASE Step(q)
  <2>1. CASE StopUnheard(q) \/ RoutingGivesUp(q) \/ RetriesSpent(q) \/ BudgetSpent(q)
    BY <2>1 DEF StopUnheard, RoutingGivesUp, RetriesSpent, BudgetSpent, Return
  <2>2. CASE Dispatch(q)
    BY <2>2 DEF Dispatch, Send
  <2>3. CASE \E r \in Routes : TakeRoute(q, r)
    BY <2>3 DEF TakeRoute
  <2> QED BY <1>2, <2>1, <2>2, <2>3 DEF Step
<1>3. CASE Settle(q)
  <2>1. CASE ClientAbort(q)
    BY <2>1 DEF ClientAbort, Return
  <2>2. CASE PumpBreaks(q)
    BY <2>2, EndedPlace DEF PumpBreaks, FinishTurn, Return
  <2>3. CASE HedgeAbort(q)
    BY <2>3 DEF HedgeAbort, EndInterrupted, Return
  <2>4. CASE ErrorBodyRead(q)
    BY <2>4, EndedPlace DEF ErrorBodyRead, FinishTurn, Return
  <2> QED BY <1>3, <2>1, <2>2, <2>3, <2>4 DEF Settle
<1>4. CASE Upstream(q)
  <2>1. CASE Complete(q)
    BY <2>1 DEF Complete, FinishTurn, Return
  <2>2. CASE \E f \in UpstreamFailures : TurnFails(q, f)
    BY <2>2, EndedPlace DEF TurnFails
  <2>3. CASE \E f \in UpstreamFailures : ErrorReply(q, f)
    BY <2>3 DEF ErrorReply, loopVars
  <2>4. CASE \E w \in {"headers", "content"} : Commit(q, w)
    BY <2>4 DEF Commit, loopVars
  <2> QED BY <1>4, <2>1, <2>2, <2>3, <2>4 DEF Upstream
<1>5. CASE Hangup(q) \/ HedgeFires(q)
  BY <1>5 DEF Hangup, HedgeFires, loopVars
<1> QED BY <1>1, <1>2, <1>3, <1>4, <1>5

\* A request that leaves its place does so by a step of its own.
LEMMA OwnStep ==
  ASSUME NEW q \in Requests, Types, [Next]_vars, pc'[q] # pc[q]
  PROVE  Arrive(q) \/ Step(q) \/ Settle(q) \/ Upstream(q) \/ Hangup(q) \/ HedgeFires(q)
<1>1. ASSUME NEW p \in Requests,
             Arrive(p) \/ Step(p) \/ Settle(p) \/ Upstream(p) \/ Hangup(p) \/ HedgeFires(p)
      PROVE  p = q
  BY <1>1, OwnPlace DEF Types, LoopTypes
<1>2. CASE Tick \/ \E r \in Routes : CooldownEnds(r)
  BY <1>2 DEF Tick, CooldownEnds, loopVars
<1>3. CASE UNCHANGED vars
  BY <1>3 DEF vars, loopVars
<1> QED BY <1>1, <1>2, <1>3 DEF Next

\* Nobody listens, nothing is sent.
LEMMA SendsForSomebody ==
  ASSUME NEW q \in Requests, Inv, [Next]_vars,
         pc[q] # "waiting", pc'[q] = "waiting", gone[q]
  PROVE  trail[q] = <<>>
<1>1. Types /\ RequestInv(q)
  BY TypesAreTypeOK DEF Inv
<1>2. Dispatch(q)
  BY <1>1, OwnStep, OwnPlace DEF Types, LoopTypes
<1> QED BY <1>1, <1>2 DEF Dispatch, Send, RequestInv, Heard

\* An attempt cut by its client is either dropped, or finished as it stands,
\* or judged by what was held back of it.
LEMMA CutBlame ==
  ASSUME NEW q \in Requests, Inv, [Next]_vars, signal[q] = "client", reply[q] = "none",
         pc[q] = "waiting", pc'[q] # "waiting"
  PROVE  \/ /\ benched' = benched /\ trail' = trail
            /\ \A r \in Routes : streak'[r] <= streak[r]
         \/ /\ Len(trail'[q]) > Len(trail[q])
            /\ trail'[q][Len(trail'[q])].failure \in HeldBack
<1> DEFINE spared == /\ benched' = benched /\ trail' = trail
                     /\ \A r \in Routes : streak'[r] <= streak[r]
           judged == /\ Len(trail'[q]) > Len(trail[q])
                     /\ trail'[q][Len(trail'[q])].failure \in HeldBack
<1>1. Types /\ route[q] \in Routes /\ RequestInv(q)
  BY TypesAreTypeOK DEF Inv, RequestInv, Routed
<1>2. /\ \A r \in Routes : streak[r] \in Nat
      /\ trail[q] \in Seq(Entry) /\ Len(trail[q]) \in Nat
  BY <1>1, LimitAssumption, LenProperties DEF Types, BookTypes, StateTypes
<1>3. ASSUME UNCHANGED <<stateVars, bookVars>>
      PROVE  spared
  BY <1>2, <1>3 DEF stateVars, bookVars
<1>4. ASSUME FinishTurn(q, "cut")
      PROVE  spared
  BY <1>1, <1>2, <1>4 DEF FinishTurn, stateVars, Types, BookTypes
<1>5. ASSUME NEW f \in HeldBack, Catch(q, f)
      PROVE  spared \/ judged
  <2>1. CASE EndInterrupted(q)
    BY <1>3, <2>1 DEF EndInterrupted
  <2>2. CASE \E c \in IF f = "over_output_cap" THEN Caps ELSE {NoCap} : FailOver(q, f, c)
    <3> DEFINE e == [route |-> route[q], failure |-> f,
                     exempt |-> Exempt(route[q], f), cap |-> sent[q].cap]
    <3>1. trail' = [trail EXCEPT ![q] = Append(trail[q], e)] /\ e.failure = f
      BY <2>2 DEF FailOver
    <3>2. trail'[q] = Append(trail[q], e)
      BY <1>1, <3>1 DEF Types, StateTypes
    <3> HIDE DEF e
    <3>3. /\ Len(Append(trail[q], e)) = Len(trail[q]) + 1
          /\ Append(trail[q], e)[Len(trail[q]) + 1] = e
      BY <1>2
    <3> QED BY <1>2, <1>5, <3>1, <3>2, <3>3
  <2>3. f # "fatal"
    BY <1>5 DEF HeldBack
  <2> QED BY <1>5, <2>1, <2>2, <2>3 DEF Catch
<1>6. Arrive(q) \/ Step(q) \/ Settle(q) \/ Upstream(q) \/ Hangup(q) \/ HedgeFires(q)
  BY <1>1, OwnStep
<1>7. ClientAbort(q) \/ PumpBreaks(q)
  <2>1. ~Arrive(q)
    BY DEF Arrive
  <2>2. ~Step(q)
    BY DEF Step, StopUnheard, RoutingGivesUp, RetriesSpent, BudgetSpent, Dispatch, Send,
           TakeRoute, AtTop
  <2>3. ~Upstream(q) /\ ~HedgeAbort(q) /\ ~ErrorBodyRead(q)
    BY DEF Upstream, Complete, TurnFails, ErrorReply, Commit, Alive, HedgeAbort, ErrorBodyRead
  <2>4. ~Hangup(q) /\ ~HedgeFires(q)
    BY DEF Hangup, HedgeFires, loopVars
  <2> QED BY <1>6, <2>1, <2>2, <2>3, <2>4 DEF Settle
<1> HIDE DEF spared, judged
<1>8. spared \/ judged
  BY <1>3, <1>4, <1>5, <1>7 DEF ClientAbort, PumpBreaks
<1> QED BY <1>8 DEF spared, judged
-----------------------------------------------------------------------------
(* The properties.                                                         *)

\* Every reachable state of the loop satisfies the inductive invariant.
THEOREM InvHolds == Spec => []Inv
<1>1. Init => Inv
  BY InitInv
<1>2. Inv /\ [Next]_vars => Inv'
  BY NextInv
<1> QED BY <1>1, <1>2, PTL DEF Spec

\* Every variable keeps its type, and a budget, code or ceiling in it its range.
THEOREM TypeCorrect == Spec => []TypeOK
<1>1. Inv => TypeOK
  BY DEF Inv
<1> QED BY <1>1, InvHolds, PTL

\* "No path can leak a lease" (lib/fallback-loop.ts): whatever ends an attempt,
\* a hang-up, the hedge, a dead key or the budget refusing the route just
\* taken, the in-flight leases are exactly those of the attempts under way.
THEOREM NoLeaseLeaks == Spec => []LeasesMatchAttempts
<1>1. Inv => LeasesMatchAttempts
  BY DEF Inv
<1> QED BY <1>1, InvHolds, PTL

\* A request that ends has rendered one answer, or none because its client is
\* gone; and once bytes of the stream left, no error status over them.
THEOREM AnswersOnce == Spec => []OneAnswer
<1>1. Inv => OneAnswer
  <2> SUFFICES ASSUME Inv, NEW q \in Requests
               PROVE  /\ Len(answers[q]) <= IF pc[q] = "over" THEN 1 ELSE 0
                      /\ pc[q] = "over" /\ answers[q] = <<>> => gone[q]
                      /\ wire[q] # "nothing" /\ answers[q] # <<>>
                           => answers[q][1].status = 200
    BY DEF OneAnswer
  <2>1. Answered(q)
    BY DEF Inv, RequestInv
  <2>2. pc[q] # "over" => Len(answers[q]) = 0
    BY <2>1 DEF Answered
  <2> QED BY <2>1, <2>2 DEF Answered
<1> QED BY <1>1, InvHolds, PTL

\* The hedge timer never cancels an attempt whose headers or content left,
\* however the ping, the first byte and the timer interleave.
THEOREM HedgeSparesCommitted == Spec => []CommittedIsNotCut
<1>1. Inv => CommittedIsNotCut
  BY DEF Inv, RequestInv, Aborts, CommittedIsNotCut
<1> QED BY <1>1, InvHolds, PTL

\* A request told that its time is up had seen two attempts fail: the budget
\* never costs it the first failover hop, whatever the budgets are.
THEOREM FirstHopIsFree == Spec => []OneHopIsAlwaysAllowed
<1>1. Inv => OneHopIsAlwaysAllowed
  <2> SUFFICES ASSUME Inv, NEW q \in Requests, NEW i \in DOMAIN answers[q],
                      answers[q][i].timedOut
               PROVE  Len(trail[q]) >= 2
    BY DEF OneHopIsAlwaysAllowed
  <2>1. Answered(q) /\ answers[q] \in Seq(Answer)
    BY DEF Inv, RequestInv, TypeOK
  <2>2. DOMAIN answers[q] = 1..Len(answers[q]) /\ Len(answers[q]) \in Nat
    BY <2>1, LenProperties
  <2>3. i = 1 /\ answers[q] # <<>>
    BY <2>1, <2>2 DEF Answered
  <2> QED BY <2>1, <2>3 DEF Answered
<1> QED BY <1>1, InvHolds, PTL

\* A route that failed a request comes back to it only with a lower output
\* ceiling learned in between, whatever benches the other requests set or
\* let end meanwhile: no route is retried blindly.
THEOREM RetriesAreInformed == Spec => []NoBlindRetry
<1>1. Inv => NoBlindRetry
  <2> SUFFICES ASSUME Inv, NEW q \in Requests, NEW i \in DOMAIN trail[q]
               PROVE  /\ \A j \in (i + 1)..Len(trail[q]) :
                           trail[q][j].route = trail[q][i].route
                             => trail[q][j].cap < trail[q][i].cap
                      /\ pc[q] = "waiting" /\ route[q] = trail[q][i].route
                           => sent[q].cap < trail[q][i].cap
    BY DEF NoBlindRetry
  <2>1. Lower(q) /\ trail[q] \in Seq(Entry)
    BY DEF Inv, RequestInv, TypeOK
  <2>2. DOMAIN trail[q] = 1..Len(trail[q]) /\ Len(trail[q]) \in Nat
    BY <2>1, LenProperties
  <2>3. \A j \in (i + 1)..Len(trail[q]) : j \in DOMAIN trail[q] /\ i < j
    BY <2>2
  <2> QED BY <2>1, <2>3 DEF Lower
<1> QED BY <1>1, InvHolds, PTL

\* Once its client is gone a request starts no further attempt, also when the
\* hang-up came between a failure and the next candidate.
THEOREM NobodyIsRetriedFor == Spec => NoRetryForNobody
<1>1. Inv /\ [Next]_vars =>
        [\A q \in Requests :
           pc[q] # "waiting" /\ pc'[q] = "waiting" /\ gone[q] => trail[q] = <<>>]_vars
  BY SendsForSomebody
<1> QED BY <1>1, InvHolds, PTL DEF Spec, NoRetryForNobody

\* A hang-up that ends an attempt benches nothing, lengthens no streak and adds
\* nothing to the trail; the one exception is the half of a turn that had been
\* held back to be judged.
THEOREM HangupsAreNobodysFault == Spec => HangupBlamesNobody
<1>1. Inv /\ [Next]_vars =>
        [\A q \in Requests :
           signal[q] = "client" /\ reply[q] = "none" /\ pc[q] = "waiting" /\ pc'[q] # "waiting" =>
             \/ benched' = benched /\ trail' = trail
                /\ \A r \in Routes : streak'[r] <= streak[r]
             \/ Len(trail'[q]) > Len(trail[q])
                /\ trail'[q][Len(trail'[q])].failure \in HeldBack]_vars
  BY CutBlame
<1> QED BY <1>1, InvHolds, PTL DEF Spec, HangupBlamesNobody
=============================================================================
