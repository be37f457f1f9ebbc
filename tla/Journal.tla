------------------------------ MODULE Journal ------------------------------
(***************************************************************************)
(* The journal of a resumable run (runtime/flowing/journaling.py) and the  *)
(* part of a flow call that writes itself into it or picks up the earlier  *)
(* call it matches (FlowImpl._journaled in runtime/flowing/engine.py).     *)
(*                                                                         *)
(* One process at a time runs the flow.  It reads and compacts what the    *)
(* file holds, appends records as flows are called and write their state,  *)
(* and may be killed between any two bytes it writes.  Then another run    *)
(* may pick up the file.                                                   *)
(*                                                                         *)
(* The file is modelled by what replaying it gives (_read): `calls` and    *)
(* `state`, kept up to date record by record, since the replay is a fold   *)
(* over the lines, and `torn`, whether it ends in half a line.             *)
(***************************************************************************)
EXTENDS Integers, Sequences

CONSTANTS
  Call,      \* the calls of a run: the engine's Call objects
  Top,       \* the Call above the run's flow, which no flow runs in
  Digest,    \* what a call was called with, as `digest` says it
  Key,       \* the keys of a flow's state
  Value,     \* the JSON values a flow writes
  None,      \* no call, no value, nothing to write
  MaxId,     \* bound: the ids a journal may give out
  MaxRun,    \* bound: how many times the file is opened
  MaxFault   \* bound: how many writes the operating system refuses

Id == 1..MaxId

\* Enough of a type for the proofs; the rest is what the code relies on.
ASSUME JournalAssumption ==
  /\ MaxId \in Nat /\ MaxRun \in Nat /\ MaxFault \in Nat
  /\ None \notin Call /\ None \notin Value /\ None \notin Nat
  /\ Top \notin Call /\ None # Top

VARIABLES
  calls,     \* the file: each call's record by id, or None
  state,     \* the file: the state each call's records replay to
  torn,      \* the file: whether it ends in a line written in part
  runs,      \* how many times it has been opened
  faults,    \* how many writes have been refused
  phase,     \* the process: "down", "open", "closed"
  past,      \* Run.past: what the earlier run left, as read on opening
  ids,       \* Run.ids: the last id given out
  node,      \* the calls of the run, or None: Call's jid, old, parent ...
  seqs,      \* Call.seqs: how many calls of each digest each call has made
  buffer,    \* Journal._buffer
  timer,     \* whether Journal._timer is armed
  flushing,  \* whether Journal.flush is under way
  pending    \* the state write waiting for that flush, or None

disk == <<calls, state, torn>>
journal == <<buffer, timer, flushing, pending>>
run == <<past, ids, node, seqs>>
vars == <<disk, runs, faults, phase, run, journal>>

State == [Key -> Value \cup {None}]
Blank == [k \in Key |-> None]

Kept == [parent : Id \cup {0}, digest : Digest, seq : Nat]

CallLine == [t : {"call"}, id : Id, parent : Id \cup {0}, digest : Digest, seq : Nat]
SetLine == [t : {"set"}, id : Id, key : Key, value : Value \cup {None}]
EndLine == [t : {"end"}, id : Id]
Line == CallLine \cup SetLine \cup EndLine

Node == [parent : Call \cup {Top}, above : SUBSET Call, jid : Id, old : Id \cup {0},
         digest : Digest, seq : Nat, held : State, ended : BOOLEAN]

Write == [call : Call, key : Key, value : Value \cup {None}]

\* Nothing is none of what it stands in for.
ASSUME NoneAssumption == None \notin Node /\ None \notin Kept /\ None \notin Write

Past == [root : Id \cup {0}, calls : [Id -> Kept \cup {None}], state : [Id -> State]]
NoPast == [root |-> 0, calls |-> [i \in Id |-> None], state |-> [i \in Id |-> Blank]]

Live == {c \in Call : node[c] # None}

Types ==
  /\ calls \in [Id -> Kept \cup {None}]
  /\ state \in [Id -> State]
  /\ torn \in BOOLEAN
  /\ runs \in Nat
  /\ faults \in 0..MaxFault
  /\ phase \in {"down", "open", "closed"}
  /\ past \in Past
  /\ ids \in Id \cup {0}
  /\ node \in [Call -> Node \cup {None}]
  /\ seqs \in [Call \cup {Top} -> [Digest -> Nat]]
  /\ buffer \in Seq(Line)
  /\ timer \in BOOLEAN
  /\ flushing \in BOOLEAN
  /\ pending \in Write \cup {None}

\* A state write waits for a flush only while the call that made it is there.
PendingLive == pending # None => node[pending.call] # None

TypeOK == Types /\ PendingLive

\* The id of a call, 0 for the one above the run's flow, and the earlier id it picked up.
JidOf(c) == IF c = Top THEN 0 ELSE node[c].jid
OldOf(c) == IF c = Top THEN 0 ELSE node[c].old
AboveOf(c) == IF c = Top THEN {} ELSE node[c].above \cup {c}

-----------------------------------------------------------------------------
(***************************************************************************)
(* Opening: what is there is read, the file is replaced by the fewest      *)
(* records that say the same, or by a header alone, and run_flow goes on   *)
(* from the first id nobody had.                                           *)
(***************************************************************************)

\* Ids of the records in the file, the root's being the first at the top.
Recorded == {i \in Id : calls[i] # None}
Roots == {i \in Recorded : calls[i].parent = 0}

\* A mutant: the ids start over in a run picked up.
IsLast_StartsOver(last, kept) == last = 1

\* Past.next_id - 1: the greatest id of any call kept.
IsLast(last, kept) ==
  /\ last \in kept
  /\ \A i \in kept : i <= last

\* Everything the process holds, gone.
Forgotten ==
  /\ past' = NoPast
  /\ ids' = 0
  /\ node' = [c \in Call |-> None]
  /\ seqs' = [c \in Call \cup {Top} |-> [d \in Digest |-> 0]]
  /\ buffer' = <<>>
  /\ timer' = FALSE
  /\ flushing' = FALSE
  /\ pending' = None

Opening ==
  /\ phase = "down"
  /\ runs < MaxRun
  /\ runs' = runs + 1
  /\ phase' = "open"
  /\ torn' = FALSE
  /\ UNCHANGED <<faults, node, seqs, journal>>

\* Journal.opened without `resume`, or where no top call was kept: a header alone.
OpenFresh ==
  /\ Opening
  /\ calls' = [i \in Id |-> None]
  /\ state' = [i \in Id |-> Blank]
  /\ UNCHANGED <<past, ids>>

\* Journal.opened with `resume`: the compacted file says the same, less half a line.
OpenResumed ==
  /\ Opening
  /\ \E root \in Roots :
       /\ \A i \in Roots : root <= i
       /\ past' = [root |-> root, calls |-> calls, state |-> state]
  /\ \E last \in Id : IsLast(last, Recorded) /\ ids' = last
  /\ UNCHANGED <<calls, state>>

-----------------------------------------------------------------------------
(***************************************************************************)
(* A flow is called.  Its digest and how many calls of that digest its     *)
(* caller has made are what it is matched by.                              *)
(***************************************************************************)

\* A mutant: only the run's own flow is picked up, never a call under it.
Earlier_TopOnly(parent, d, seq) == IF parent = Top THEN {past.root} \ {0} ELSE {}

\* Past.claim: the earlier calls a call could be.  The run's own flow picks up whatever it
\* was called with, and a call under a call that picked one up the one it was matched by.
Earlier(parent, d, seq) ==
  IF parent = Top THEN {past.root} \ {0}
  ELSE {i \in Id : /\ OldOf(parent) # 0
                   /\ past.calls[i] =
                        [parent |-> OldOf(parent), digest |-> d, seq |-> seq]}

\* Journal._kept: a journal takes a record until it is closed, and a flush is not one step
\* of several for anything else on the loop.
Taking == phase = "open" /\ ~flushing

\* A mutant: a batched record is written ahead of those before it.
Batched_AtFront(line) == buffer' = <<line>> \o buffer /\ timer' = TRUE

\* Journal._batched: the record waits for the timer, or for the next state write.
Batched(line) ==
  /\ buffer' = Append(buffer, line)
  /\ timer' = TRUE

\* Mutants: the calls of a digest counted from one, and an id given out twice.
SeqOf_FromOne(parent, d) == seqs[parent][d] + 1
Counted_Never(parent, d) == seqs

\* A call's `seq` is how many calls of its digest its caller has made, and its id, where it
\* picks nothing up, the next one.
SeqOf(parent, d) == seqs[parent][d]
Counted(parent, d) == [seqs EXCEPT ![parent][d] = @ + 1]
NextId(c) == ids + 1

Made(parent, d, jid, old, held) ==
  [parent |-> parent, above |-> AboveOf(parent), jid |-> jid, old |-> old,
   digest |-> d, seq |-> SeqOf(parent, d), held |-> held, ended |-> FALSE]

\* FlowImpl._journaled, in a call no flow above which has ended.
CallFlow(c, parent, d) ==
  /\ Taking /\ node[c] = None
  /\ IF parent = Top
       THEN \A b \in Live : node[b].parent # Top
       ELSE parent \in Live /\ \A a \in AboveOf(parent) : ~node[a].ended
  /\ seqs' = Counted(parent, d)
  /\ LET seq == SeqOf(parent, d)
         earlier == Earlier(parent, d, seq)
     IN \/ \E kept \in earlier :
             /\ \A i \in earlier : i <= kept   \* the last one read
             /\ node' = [node EXCEPT ![c] = Made(parent, d, kept, kept, past.state[kept])]
             /\ UNCHANGED <<ids, buffer, timer>>
        \/ /\ earlier = {}
           /\ ids < MaxId
           /\ ids' = NextId(c)
           /\ node' = [node EXCEPT ![c] = Made(parent, d, NextId(c), 0, Blank)]
           /\ Batched([t |-> "call", id |-> NextId(c), parent |-> JidOf(parent),
                       digest |-> d, seq |-> seq])
  /\ UNCHANGED <<disk, runs, faults, phase, past, flushing, pending>>

\* The call ends, in whatever order with the calls under it: FlowImpl.__call__'s finally.
EndFlow(c) ==
  /\ Taking
  /\ c \in Live /\ ~node[c].ended
  /\ node' = [node EXCEPT ![c].ended = TRUE]
  /\ Batched([t |-> "end", id |-> node[c].jid])
  /\ UNCHANGED <<disk, runs, faults, phase, past, ids, seqs, flushing, pending>>

\* FlowStateImpl.__setitem__ and __delitem__: written down, with all that waits, before it
\* is held.  A task that outlives its call may still write its state.
WriteState(c, k, v) ==
  /\ Taking
  /\ c \in Live
  /\ v = None => node[c].held[k] # None
  /\ buffer' = Append(buffer, [t |-> "set", id |-> node[c].jid, key |-> k, value |-> v])
  /\ pending' = [call |-> c, key |-> k, value |-> v]
  /\ flushing' = TRUE
  /\ timer' = FALSE
  /\ UNCHANGED <<disk, runs, faults, phase, run>>

-----------------------------------------------------------------------------
(***************************************************************************)
(* Journal.flush, a line at a time: nothing else of the process goes while *)
(* it writes, but the process may be killed, or the write refused, between *)
(* any two bytes.                                                          *)
(***************************************************************************)

\* The timer of `_batched`.
TimerFires ==
  /\ phase = "open" /\ ~flushing /\ timer
  /\ timer' = FALSE
  /\ flushing' = TRUE
  /\ UNCHANGED <<disk, runs, faults, phase, run, buffer, pending>>

\* A mutant: a key deleted is not forgotten by a replay.
Replayed_Undeleted(line) ==
  IF line.t = "set" /\ line.value # None /\ calls[line.id] # None
    THEN state' = [state EXCEPT ![line.id][line.key] = line.value] /\ UNCHANGED calls
    ELSE IF line.t = "call"
      THEN /\ calls' = [calls EXCEPT ![line.id] =
                [parent |-> line.parent, digest |-> line.digest, seq |-> line.seq]]
           /\ state' = [state EXCEPT ![line.id] = Blank]
      ELSE UNCHANGED <<calls, state>>

\* What one more line makes of what a replay gives (_read).
Replayed(line) ==
  CASE line.t = "call" ->
         /\ calls' = [calls EXCEPT ![line.id] =
              [parent |-> line.parent, digest |-> line.digest, seq |-> line.seq]]
         /\ state' = [state EXCEPT ![line.id] = Blank]
    [] line.t = "set" /\ calls[line.id] # None ->
         /\ state' = [state EXCEPT ![line.id][line.key] = line.value]
         /\ UNCHANGED calls
    [] OTHER -> UNCHANGED <<calls, state>>

\* A line goes to the file; appended to half a line, the two are one that does not parse.
WriteLine ==
  /\ phase = "open" /\ flushing /\ buffer # <<>>
  /\ IF torn THEN UNCHANGED <<calls, state>> ELSE Replayed(Head(buffer))
  /\ torn' = FALSE
  /\ buffer' = Tail(buffer)
  /\ UNCHANGED <<runs, faults, phase, run, timer, flushing, pending>>

\* An OSError: logged, and what was left of the flush dropped, half a line of it written.
WriteFails ==
  /\ phase = "open" /\ flushing /\ buffer # <<>>
  /\ faults < MaxFault
  /\ faults' = faults + 1
  /\ torn' \in {torn, TRUE}
  /\ buffer' = <<>>
  /\ UNCHANGED <<calls, state, runs, phase, run, timer, flushing, pending>>

\* The flush returns, and the state write that asked for it is held.
Flushed ==
  /\ phase = "open" /\ flushing /\ buffer = <<>>
  /\ flushing' = FALSE
  /\ pending' = None
  /\ node' = IF pending = None THEN node
             ELSE [node EXCEPT ![pending.call].held[pending.key] = pending.value]
  /\ UNCHANGED <<disk, runs, faults, phase, past, ids, seqs, buffer, timer>>

\* Journal.close, once what waited is written: every record after it is refused.
Close ==
  /\ phase = "open" /\ ~flushing /\ buffer = <<>>
  /\ \E c \in Live : node[c].parent = Top /\ node[c].ended
  /\ phase' = "closed"
  /\ UNCHANGED <<disk, runs, faults, run, journal>>

\* The process goes: killed, part of the line being written there, or over.
Gone ==
  /\ phase # "down"
  /\ phase' = "down"
  /\ torn' \in IF flushing /\ buffer # <<>> THEN {torn, TRUE} ELSE {torn}
  /\ Forgotten
  /\ UNCHANGED <<calls, state, runs, faults>>

-----------------------------------------------------------------------------
Init ==
  /\ calls = [i \in Id |-> None]
  /\ state = [i \in Id |-> Blank]
  /\ torn = FALSE
  /\ runs = 0
  /\ faults = 0
  /\ phase = "down"
  /\ past = NoPast
  /\ ids = 0
  /\ node = [c \in Call |-> None]
  /\ seqs = [c \in Call \cup {Top} |-> [d \in Digest |-> 0]]
  /\ buffer = <<>>
  /\ timer = FALSE
  /\ flushing = FALSE
  /\ pending = None

Next ==
  \/ OpenFresh
  \/ OpenResumed
  \/ \E c \in Call, parent \in Call \cup {Top}, d \in Digest : CallFlow(c, parent, d)
  \/ \E c \in Call : EndFlow(c)
  \/ \E c \in Call, k \in Key, v \in Value \cup {None} : WriteState(c, k, v)
  \/ TimerFires
  \/ WriteLine
  \/ WriteFails
  \/ Flushed
  \/ Close
  \/ Gone

Spec == Init /\ [][Next]_vars

-----------------------------------------------------------------------------
(***************************************************************************)
(* Properties.                                                             *)
(***************************************************************************)

\* Two calls of a run are never one call of the journal: gathered calls of one digest pick
\* up one earlier call apiece, and a call starting afresh is given an id no call ever had,
\* whatever part of the journal was lost (FlowImpl._journaled, Past.claim, Past.next_id).
JidsDistinct ==
  \A b, c \in Live : b # c => node[b].jid # node[c].jid

\* While nothing refused a write, what a run killed now would leave behind is the state
\* every call holds (journaling.py: a state write is flushed as it is made).
StateKept ==
  \A c \in Live :
    pending = None => state[node[c].jid] = node[c].held

StateDurable == faults = 0 => StateKept

\* While nothing refused a write, a call is in the file before any call under it, so that a
\* resumed run can find it (records go to the file in the order they were made).
ParentFirst ==
  faults = 0 =>
    \A i \in Recorded : calls[i].parent # 0 =>
       calls[i].parent < i /\ calls[calls[i].parent] # None

\* What a lost record leaves without a parent is never taken for a call of a later run: a
\* call in the file under a call that started afresh is one this run made under it.
NoneAdopted ==
  \A c \in Live, i \in Recorded :
    calls[i].parent = node[c].jid /\ node[c].old = 0 =>
      \E b \in Live : node[b].jid = i /\ node[b].parent = c

\* While nothing refused a write, the call picked up is the earlier call of that digest with
\* the lowest `seq` nobody has claimed: there are no gaps below it (journaling.py, docstring).
NoSeqGap ==
  faults = 0 =>
    \A i \in Recorded, n \in 0..MaxId : n < calls[i].seq =>
       \E j \in Recorded : calls[j] = [calls[i] EXCEPT !.seq = n]

=============================================================================
