------------------------------- MODULE MCTurn -------------------------------
(* Small instances of Turn for TLC: its watchdogs are model values. *)
EXTENDS Turn
=============================================================================
