----------------------------- MODULE BenchBoard -----------------------------
(***************************************************************************)
(* What the cooldown store of services/ratelimit.ts promises the router:   *)
(* one durable board saying until when each route (a model on a key) is    *)
(* benched.  A route is attempted only while it is off the board; it goes  *)
(* on the board by the verdict on an attempt that was under way, leaves it *)
(* by the passing of time or because a probe or the operator lifts it, and *)
(* a restart of the process takes nothing off the board that is not due.   *)
(* The two-tier store (memory map and SQLite table) of module Cooldown is  *)
(* shown to implement this board.                                          *)
(***************************************************************************)
EXTENDS Naturals

CONSTANT Routes

VARIABLES
  now,       \* the clock
  bench,     \* [Routes -> Nat], the time a bench ends, 0 when there is none
  inflight   \* [Routes -> Nat], attempts dispatched and not yet answered

boardVars == <<now, bench, inflight>>

Init ==
  /\ now \in Nat
  /\ bench = [r \in Routes |-> 0]
  /\ inflight = [r \in Routes |-> 0]

\* Time passes; exactly the benches it has run past are gone.
Tick ==
  /\ now' = now + 1
  /\ bench' = [r \in Routes |-> IF bench[r] < now' THEN 0 ELSE bench[r]]
  /\ UNCHANGED inflight

\* An attempt is dispatched, only on a route that is off the board.
Start(r) ==
  /\ bench[r] = 0
  /\ inflight' = [inflight EXCEPT ![r] = @ + 1]
  /\ UNCHANGED <<now, bench>>

\* The attempt is answered.  Its verdict benches some routes (none, after a
\* success), each until a moment still to come, and frees none.
Answer(r) ==
  /\ inflight[r] > 0
  /\ inflight' = [inflight EXCEPT ![r] = @ - 1]
  /\ bench' \in [Routes -> Nat]
  /\ \A q \in Routes : bench'[q] # bench[q] => bench'[q] > now
  /\ UNCHANGED now

\* A passed probe or the operator takes routes off the board.
Lift ==
  /\ \E S \in SUBSET Routes :
       bench' = [r \in Routes |-> IF r \in S THEN 0 ELSE bench[r]]
  /\ UNCHANGED <<now, inflight>>

\* A restart forgets the attempts under way, and of the board only what is due.
Restart ==
  /\ inflight' = [r \in Routes |-> 0]
  /\ bench' = [r \in Routes |-> IF bench[r] <= now THEN 0 ELSE bench[r]]
  /\ UNCHANGED now

Next == Tick \/ Lift \/ Restart \/ \E r \in Routes : Start(r) \/ Answer(r)

Spec == Init /\ [][Next]_boardVars
=============================================================================
