------------------------------ MODULE MCDaemon ------------------------------
(* A small instance of Daemon for TLC. *)
EXTENDS Daemon, TLC

\* Frontends are only names.
Symmetric == Permutations(Frontend)
=============================================================================
