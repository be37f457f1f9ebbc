-------------------------------- MODULE Feed --------------------------------
(***************************************************************************)
(* What a host promises each frontend attached to it of what happens       *)
(* (runtime/doing/hosting.py): from some place on, everything, in order,   *)
(* each thing once, until it is let go.  How -- an outbox apiece, a thread *)
(* apiece, a ceiling -- is Delivery's.                                     *)
(***************************************************************************)
EXTENDS Naturals

CONSTANT Frontend

VARIABLES
  happened,  \* how much has
  state,     \* what each frontend is: "out", "reading" or "gone"
  place      \* how much each has read, or was too late for

vars == <<happened, state, place>>

Init ==
  /\ happened = 0
  /\ state = [f \in Frontend |-> "out"]
  /\ place = [f \in Frontend |-> 0]

Happen == happened' = happened + 1 /\ UNCHANGED <<state, place>>

Attach(f) ==
  /\ state[f] = "out"
  /\ state' = [state EXCEPT ![f] = "reading"]
  /\ \E from \in 0..happened : place' = [place EXCEPT ![f] = from]
  /\ UNCHANGED happened

Read(f) ==
  /\ state[f] = "reading" /\ place[f] < happened
  /\ place' = [place EXCEPT ![f] = @ + 1]
  /\ UNCHANGED <<happened, state>>

Go(f) ==
  /\ state[f] = "reading"
  /\ state' = [state EXCEPT ![f] = "gone"]
  /\ UNCHANGED <<happened, place>>

Next == Happen \/ \E f \in Frontend : Attach(f) \/ Read(f) \/ Go(f)

Spec == Init /\ [][Next]_vars
=============================================================================
