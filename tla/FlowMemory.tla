----------------------------- MODULE FlowMemory -----------------------------
(***************************************************************************)
(* What a resumable flow is promised of its state (docs/reference/flows.md *)
(* and the docstring of runtime/flowing/journaling.py), with no file, no   *)
(* record and no id: each call of the flow, named by the way down to it,   *)
(* has one memory, which outlives the run; a call that begins reads it     *)
(* whole, a write changes it at once, and a process killed changes none of *)
(* it.                                                                     *)
(***************************************************************************)
CONSTANTS
  Path,    \* the ways down to a call: digest and seq of each call on the way
  Key, Value, None

VARIABLES
  memory,  \* what is kept of the state of the call at each path
  view     \* what the call of this run at each path holds, or None

State == [Key -> Value \cup {None}]
Blank == [k \in Key |-> None]

Init ==
  /\ memory = [p \in Path |-> Blank]
  /\ view = [p \in Path |-> None]

\* A call begins, reading its memory.
Begin(p) ==
  /\ view[p] = None
  /\ view' = [view EXCEPT ![p] = memory[p]]
  /\ UNCHANGED memory

\* A write of a call of this run is kept, and then, unless the process goes, returns.
Keep(p, k, v) ==
  /\ view[p] # None
  /\ memory' = [memory EXCEPT ![p][k] = v]
  /\ UNCHANGED view

Return(p) ==
  /\ view[p] # None
  /\ view' = [view EXCEPT ![p] = memory[p]]
  /\ UNCHANGED memory

\* The process goes, however it does.
Stop ==
  /\ view' = [p \in Path |-> None]
  /\ UNCHANGED memory

\* A run that picks nothing up starts over.
StartOver ==
  /\ \A p \in Path : view[p] = None
  /\ memory' = [p \in Path |-> Blank]
  /\ UNCHANGED view

Next ==
  \/ \E p \in Path : Begin(p) \/ Return(p)
  \/ \E p \in Path, k \in Key, v \in Value \cup {None} : Keep(p, k, v)
  \/ Stop
  \/ StartOver

Spec == Init /\ [][Next]_<<memory, view>>
=============================================================================
