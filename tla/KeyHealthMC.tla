----------------------------- MODULE KeyHealthMC -----------------------------
EXTENDS KeyHealth
OwnPlatform == [k \in Keys |-> k]
=============================================================================
