---------------------------- MODULE RateLedgerMC ----------------------------
(***************************************************************************)
(* Small instances of RateLedger: two models of one key, the first under   *)
(* request limits, the second under token limits.  A lease lives two       *)
(* minutes, as in the source.                                              *)
(***************************************************************************)
EXTENDS RateLedger

CONSTANTS m1, m2

Free == [m \in Models |-> NoLimit]
One == [m \in Models |-> IF m = m1 THEN 1 ELSE NoLimit]
SecondTwo == [m \in Models |-> IF m = m2 THEN 2 ELSE NoLimit]
SecondThree == [m \in Models |-> IF m = m2 THEN 3 ELSE NoLimit]
FlatRate == [m \in Models |-> 2]
=============================================================================
