------------------------------ MODULE MC_Exchange ------------------------------
(* The clients are interchangeable, but the run checks liveness: no         *)
(* symmetry is declared.                                                    *)
EXTENDS Exchange
CONSTANTS a, b, none
MCClients == {a, b}
================================================================================
