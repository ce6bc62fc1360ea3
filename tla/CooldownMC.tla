----------------------------- MODULE CooldownMC -----------------------------
(***************************************************************************)
(* Small instances of Cooldown.  The durations keep the order they have in *)
(* the source (transient < first ladder step < auth bench < model bench =  *)
(* unknown cap <= second step < day), one unit apart.                      *)
(***************************************************************************)
EXTENDS Cooldown

Ladder == <<2, 4, 5>>
Backoffs == <<1, 2, 3>>
=============================================================================
