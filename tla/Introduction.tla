---------------------------- MODULE Introduction ----------------------------
(***************************************************************************)
(* What a meeting promises its two halves (the docstrings of dial, settle  *)
(* and _greet in coganchor/rendezvous.py), with no broker thread, no line  *)
(* and no clock: how the session is joined is decided once, for both; it   *)
(* is joined directly only where each half has reached the other, over one *)
(* connection; and each half ends as was decided or fails.                 *)
(***************************************************************************)
CONSTANTS
  Role,  \* the two halves
  Conn,  \* the connections they may open to each other
  None

VARIABLES
  reached,  \* what each half has of the other: a connection, or None
  decided,  \* "open", or how the session is joined: "direct" or "relay"
  ended     \* for each half: "going", as what it was joined, or "failed"

Init ==
  /\ reached = [r \in Role |-> None]
  /\ decided = "open"
  /\ ended = [r \in Role |-> "going"]

\* A half has a connection: the one the other has, if it has one.
Reach(r, c) ==
  /\ reached[r] = None
  /\ \A q \in Role : reached[q] \in {None, c}
  /\ reached' = [reached EXCEPT ![r] = c]
  /\ UNCHANGED <<decided, ended>>

Decide(how) ==
  /\ decided = "open"
  /\ how = "direct" => \E c \in Conn : \A r \in Role : reached[r] = c
  /\ decided' = how
  /\ UNCHANGED <<reached, ended>>

Join(r) ==
  /\ ended[r] = "going" /\ decided # "open"
  /\ ended' = [ended EXCEPT ![r] = decided]
  /\ UNCHANGED <<reached, decided>>

Fail(r) ==
  /\ ended[r] = "going"
  /\ ended' = [ended EXCEPT ![r] = "failed"]
  /\ UNCHANGED <<reached, decided>>

Next ==
  \/ \E r \in Role : Join(r) \/ Fail(r)
  \/ \E r \in Role, c \in Conn : Reach(r, c)
  \/ \E how \in {"direct", "relay"} : Decide(how)

Spec == Init /\ [][Next]_<<reached, decided, ended>>
=============================================================================
