----------------------------- MODULE MCCallTree -----------------------------
(* Small instances of CallTree for TLC. *)
EXTENDS CallTree, TLC

Symmetric == Permutations(Call) \cup Permutations(Session)
=============================================================================
