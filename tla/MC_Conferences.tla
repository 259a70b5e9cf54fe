---------------------------- MODULE MC_Conferences ----------------------------
(* Two conferences, four channels.  Players  join to speak and listen;      *)
(* announcements only speak.                                                *)
EXTENDS Conferences, TLC

MCModes == {"duplex", "speak"}

Symmetry == Permutations(Handles)
=============================================================================
