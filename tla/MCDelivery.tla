----------------------------- MODULE MCDelivery -----------------------------
(* Small instances of Delivery for TLC: its frontends are model values. *)
EXTENDS Delivery
=============================================================================
