------------------------------- MODULE MC_Timers -------------------------------
(* Three timers, due at once or up to two ticks later.                      *)
EXTENDS Timers

MCDelays == {0, 1, 2}
=============================================================================
