--------------------------- MODULE JournalMemory ---------------------------
(***************************************************************************)
(* The journal keeps a flow's memory: Journal implements FlowMemory while  *)
(* no write is refused.  A path is how a call is found again by a run that *)
(* picks up an earlier one, whatever ids the calls were given.             *)
(***************************************************************************)
EXTENDS Journal, TLC

CONSTANTS
  MaxDepth,  \* the length of the longest path
  MaxSeq     \* the greatest seq on it

\* What no call holds is no state.
ASSUME MemoryAssumption == None \notin State

Way == Digest \X (0..MaxSeq)
Path == UNION {[1..n -> Way] : n \in 0..MaxDepth}

\* The way down to each call that records are of, and to each call of a run.
Ways(record) ==
  LET path[i \in Id] ==
        IF record[i] = None \/ record[i].parent = 0 THEN <<>>
        ELSE Append(path[record[i].parent], <<record[i].digest, record[i].seq>>)
  IN path

RunWays(made) ==
  LET path[c \in Call] ==
        IF made[c] = None \/ made[c].parent = Top THEN <<>>
        ELSE Append(path[made[c].parent], <<made[c].digest, made[c].seq>>)
  IN path

\* Calls are only names.
Symmetric == Permutations(Call)

\* What a replay would give each path now.
Remembered(record, said) ==
  LET these == {i \in Id : record[i] # None}
      ways == Ways(record)
      known == {ways[i] : i \in these}
  IN [p \in Path |-> IF p \in known THEN said[CHOOSE i \in these : ways[i] = p] ELSE Blank]

\* What the call of the run at each holds.
Viewed(made) ==
  LET these == {c \in Call : made[c] # None}
      ways == RunWays(made)
      taken == {ways[c] : c \in these}
  IN [p \in Path |-> IF p \in taken THEN made[CHOOSE c \in these : ways[c] = p].held ELSE None]

memory == Remembered(calls, state)
view == Viewed(node)

Memory == INSTANCE FlowMemory WITH Path <- Path, memory <- memory, view <- view

\* What a flow reads back is what it wrote, across every kill and every run that picks up
\* the one before it: ids, compaction, batching and matching never show.
KeepsMemory == Memory!Spec
=============================================================================
