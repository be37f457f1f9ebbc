----------------------------- MODULE MCHosting -----------------------------
(* Small instances of Hosting for TLC. *)
EXTENDS Hosting, TLC

CONSTANT a
OneAgent == [s \in 1..MaxSession |-> a]
Symmetric == Permutations(Frontend) \cup Permutations(Line) \cup Permutations(Question)
=============================================================================
