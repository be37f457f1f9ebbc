----------------------------- MODULE MCJournal -----------------------------
(* Small instances of Journal for TLC. *)
EXTENDS Journal, TLC

\* Calls and keys are only names.
Symmetric == Permutations(Call) \cup Permutations(Key)
=============================================================================
