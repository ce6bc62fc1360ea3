--------------------------- MODULE FallbackLoopMC ---------------------------
(***************************************************************************)
(* Instances of FallbackLoop for TLC.                                      *)
(***************************************************************************)
EXTENDS FallbackLoop, TLC

CONSTANTS q1, q2, r1, r2, r3, r4

\* Three models on three platforms; or, on one platform, a model with two keys
\* and another model that shares the first of them.
ApartModel == (r1 :> 1) @@ (r2 :> 2) @@ (r3 :> 3)
GridModel == (r1 :> 1) @@ (r2 :> 1) @@ (r3 :> 2)
GridKey == (r1 :> 1) @@ (r2 :> 2) @@ (r3 :> 1)
OnePlatform == [r \in Routes |-> 1]

NoBarrier == [r \in Routes |-> "none"]
\* Four models on four platforms, the last one known to be slow.
FourModel == ApartModel @@ (r4 :> 4)
SlowFourth == (1 :> 2) @@ (2 :> 2) @@ (3 :> 2) @@ (4 :> 4)

\* The third platform is known to be slow; the budget is off.
SlowThird == (1 :> 2) @@ (2 :> 2) @@ (3 :> 4)
NoBudget == [p \in 1..3 |-> 0]
=============================================================================
