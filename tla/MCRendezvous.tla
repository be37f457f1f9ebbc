---------------------------- MODULE MCRendezvous ----------------------------
(* Small instances of Rendezvous for TLC: its connections are model values. *)
EXTENDS Rendezvous
=============================================================================
