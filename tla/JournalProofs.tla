--------------------------- MODULE JournalProofs ---------------------------
(***************************************************************************)
(* What Journal does for any number of calls, digests, keys, values, runs  *)
(* and refused writes, checked by TLAPS.                                   *)
(***************************************************************************)
EXTENDS JournalMemory, NaturalsInduction, WellFoundedInduction, TLAPS

\* The values the file and the process start from have their types.
LEMMA BlankType == Blank \in State
  BY DEF Blank, State

LEMMA NoPastType == NoPast \in Past
  BY JournalAssumption, BlankType DEF NoPast, Past, Id

LEMMA NoneMadeType ==
  [c \in Call \cup {Top} |-> [d \in Digest |-> 0]] \in [Call \cup {Top} -> [Digest -> Nat]]
<1>1. [d \in Digest |-> 0] \in [Digest -> Nat]
  OBVIOUS
<1> QED
  BY <1>1

\* Every record a process gives up, and every record it starts with, is of its type.
LEMMA ForgottenType ==
  ASSUME Forgotten
  PROVE  /\ past' \in Past
         /\ ids' \in Id \cup {0}
         /\ node' \in [Call -> Node \cup {None}]
         /\ seqs' \in [Call \cup {Top} -> [Digest -> Nat]]
         /\ buffer' \in Seq(Line)
         /\ timer' \in BOOLEAN
         /\ flushing' \in BOOLEAN
         /\ pending' = None
<1>1. past' \in Past
  BY NoPastType DEF Forgotten
<1>2. ids' \in Id \cup {0} /\ timer' \in BOOLEAN /\ flushing' \in BOOLEAN
  BY DEF Forgotten
<1>3. node' \in [Call -> Node \cup {None}] /\ pending' = None
  BY DEF Forgotten
<1>4. seqs' \in [Call \cup {Top} -> [Digest -> Nat]]
  BY NoneMadeType DEF Forgotten
<1>5. buffer' \in Seq(Line)
  BY DEF Forgotten
<1> QED
  BY <1>1, <1>2, <1>3, <1>4, <1>5

\* What a call is matched by has its type, and so has the count it adds to.
LEMMA SeqType ==
  ASSUME Types, NEW parent \in Call \cup {Top}, parent = Top \/ parent \in Live,
         NEW d \in Digest
  PROVE  /\ Counted(parent, d) \in [Call \cup {Top} -> [Digest -> Nat]]
         /\ SeqOf(parent, d) \in Nat
         /\ JidOf(parent) \in Id \cup {0}
         /\ AboveOf(parent) \in SUBSET Call
<1>1. AboveOf(parent) \in SUBSET Call /\ JidOf(parent) \in Id \cup {0}
  BY JournalAssumption DEF Types, AboveOf, JidOf, Live, Node
<1>2. SeqOf(parent, d) \in Nat
  BY DEF Types, SeqOf
<1>3. Counted(parent, d) \in [Call \cup {Top} -> [Digest -> Nat]]
  <2>1. seqs[parent] \in [Digest -> Nat]
    BY DEF Types
  <2>2. [seqs[parent] EXCEPT ![d] = @ + 1] \in [Digest -> Nat]
    BY <2>1
  <2> QED
    BY <2>2 DEF Types, Counted
<1> QED
  BY <1>1, <1>2, <1>3

\* A call made has the type of one: what it picks up is an id of the file, and what it
\* holds a state.
LEMMA MadeType ==
  ASSUME Types,
         NEW parent \in Call \cup {Top}, parent = Top \/ parent \in Live,
         NEW d \in Digest, NEW jid \in Id, NEW old \in Id \cup {0}, NEW held \in State
  PROVE  Made(parent, d, jid, old, held) \in Node
  BY SeqType DEF Made, Node

LEMMA InitType == Init => TypeOK
<1> SUFFICES ASSUME Init PROVE Types /\ PendingLive
  BY DEF TypeOK
<1>1. /\ calls \in [Id -> Kept \cup {None}]
      /\ state \in [Id -> State]
      /\ past \in Past
  BY BlankType, NoPastType DEF Init
<1>2. runs \in Nat /\ faults \in 0..MaxFault /\ ids \in Id \cup {0}
  BY JournalAssumption DEF Init
<1>5. /\ phase \in {"down", "open", "closed"}
      /\ torn \in BOOLEAN /\ timer \in BOOLEAN /\ flushing \in BOOLEAN
  BY DEF Init
<1>3. /\ node \in [Call -> Node \cup {None}]
      /\ pending = None
      /\ buffer \in Seq(Line)
  BY DEF Init
<1>4. seqs \in [Call \cup {Top} -> [Digest -> Nat]]
  BY NoneMadeType DEF Init
<1> QED
  BY <1>1, <1>2, <1>3, <1>4, <1>5 DEF Types, PendingLive

LEMMA NextTypes == TypeOK /\ [Next]_vars => Types'
<1> SUFFICES ASSUME Types, PendingLive, [Next]_vars
             PROVE  Types'
  BY DEF TypeOK
<1> USE JournalAssumption
<1>1. CASE OpenFresh
  <2>1. calls' \in [Id -> Kept \cup {None}] /\ state' \in [Id -> State]
    BY <1>1, BlankType DEF OpenFresh
  <2>2. torn' \in BOOLEAN /\ phase' \in {"down", "open", "closed"}
    BY <1>1 DEF OpenFresh, Opening
  <2>3. runs' \in Nat
    BY <1>1 DEF OpenFresh, Opening, Types
  <2> QED
    BY <1>1, <2>1, <2>2, <2>3 DEF OpenFresh, Opening, Types, journal
<1>2. CASE OpenResumed
  <2>1. past' \in Past /\ ids' \in Id \cup {0}
    BY <1>2 DEF OpenResumed, Types, Past, Roots, Recorded
  <2>2. torn' \in BOOLEAN /\ phase' \in {"down", "open", "closed"}
    BY <1>2 DEF OpenResumed, Opening
  <2>3. runs' \in Nat
    BY <1>2 DEF OpenResumed, Opening, Types
  <2> QED
    BY <1>2, <2>1, <2>2, <2>3 DEF OpenResumed, Opening, Types, journal
<1>3. ASSUME NEW c \in Call, NEW parent \in Call \cup {Top}, NEW d \in Digest,
             CallFlow(c, parent, d)
      PROVE  Types'
  <2> DEFINE seq == SeqOf(parent, d)
             earlier == Earlier(parent, d, seq)
  <2>1. parent = Top \/ parent \in Live
    BY <1>3 DEF CallFlow
  <2>2. Counted(parent, d) \in [Call \cup {Top} -> [Digest -> Nat]] /\ seq \in Nat
        /\ JidOf(parent) \in Id \cup {0}
    BY <2>1, SeqType
  <2>3. \A kept \in earlier : kept \in Id /\ past.state[kept] \in State
    BY DEF Types, Past, Earlier
  <2>4. CASE earlier # {} /\ \E kept \in earlier :
                 /\ node' = [node EXCEPT ![c] = Made(parent, d, kept, kept, past.state[kept])]
                 /\ UNCHANGED <<ids, buffer, timer>>
    <3>1. PICK kept \in earlier :
             /\ node' = [node EXCEPT ![c] = Made(parent, d, kept, kept, past.state[kept])]
             /\ UNCHANGED <<ids, buffer, timer>>
      BY <2>4
    <3>2. Made(parent, d, kept, kept, past.state[kept]) \in Node
      BY <2>1, <2>3, MadeType
    <3> QED
      BY <1>3, <2>2, <3>1, <3>2 DEF CallFlow, Types, disk
  <2>5. CASE /\ ids < MaxId
             /\ ids' = NextId(c)
             /\ node' = [node EXCEPT ![c] = Made(parent, d, NextId(c), 0, Blank)]
             /\ Batched([t |-> "call", id |-> NextId(c), parent |-> JidOf(parent),
                         digest |-> d, seq |-> seq])
    <3>1. NextId(c) \in Id
      BY <2>5 DEF Types, NextId, Id
    <3>2. Made(parent, d, NextId(c), 0, Blank) \in Node
      BY <2>1, <3>1, MadeType, BlankType
    <3>3. [t |-> "call", id |-> NextId(c), parent |-> JidOf(parent),
           digest |-> d, seq |-> seq] \in Line
      BY <2>2, <3>1 DEF Line, CallLine
    <3>4. buffer' \in Seq(Line) /\ timer' \in BOOLEAN
      BY <2>5, <3>3 DEF Batched, Types
    <3> QED
      BY <1>3, <2>2, <2>5, <3>1, <3>2, <3>4 DEF CallFlow, Types, disk
  <2> QED
    BY <1>3, <2>4, <2>5 DEF CallFlow
<1>4. ASSUME NEW c \in Call, EndFlow(c)
      PROVE  Types'
  <2>1. node' \in [Call -> Node \cup {None}]
    <3>1. node' = [node EXCEPT ![c] = [node[c] EXCEPT !.ended = TRUE]]
      BY ONLY <1>4 DEF EndFlow
    <3>2. c \in Call /\ node[c] # None /\ node \in [Call -> Node \cup {None}]
      BY <1>4 DEF EndFlow, Types, Live
    <3>3. [node[c] EXCEPT !.ended = TRUE] \in Node
      <4>1. node[c] \in Node
        BY ONLY <3>2
      <4> QED
        BY ONLY <4>1 DEF Node
    <3> QED
      BY ONLY <3>1, <3>2, <3>3
  <2>2. [t |-> "end", id |-> node[c].jid] \in Line
    BY <1>4 DEF EndFlow, Types, Live, Node, Line, EndLine
  <2>3. buffer' \in Seq(Line) /\ timer' \in BOOLEAN
    BY <1>4, <2>2 DEF EndFlow, Batched, Types
  <2> QED
    BY <1>4, <2>1, <2>3 DEF EndFlow, Types, disk
<1>5. ASSUME NEW c \in Call, NEW k \in Key, NEW v \in Value \cup {None}, WriteState(c, k, v)
      PROVE  Types'
  <2>1. [t |-> "set", id |-> node[c].jid, key |-> k, value |-> v] \in Line
    BY <1>5 DEF WriteState, Types, Live, Node, Line, SetLine
  <2>2. buffer' \in Seq(Line)
    BY <1>5, <2>1 DEF WriteState, Types
  <2>3. pending' \in Write \cup {None}
    BY <1>5 DEF WriteState, Write
  <2> QED
    BY <1>5, <2>2, <2>3 DEF WriteState, Types, disk, run
<1>6. CASE TimerFires
  BY <1>6 DEF TimerFires, Types, disk, run
<1>7. CASE WriteLine
  <2>1. Head(buffer) \in Line /\ Tail(buffer) \in Seq(Line)
    BY <1>7 DEF WriteLine, Types
  <2>2. ASSUME Replayed(Head(buffer))
        PROVE  calls' \in [Id -> Kept \cup {None}] /\ state' \in [Id -> State]
    <3> DEFINE line == Head(buffer)
    <3>1. CASE line.t = "call"
      <4>1. [parent |-> line.parent, digest |-> line.digest, seq |-> line.seq] \in Kept
        BY <2>1, <3>1 DEF Line, CallLine, SetLine, EndLine, Kept
      <4>2. line.id \in Id
        BY <2>1, <3>1 DEF Line, CallLine, SetLine, EndLine
      <4>3. /\ calls' = [calls EXCEPT ![line.id] =
                 [parent |-> line.parent, digest |-> line.digest, seq |-> line.seq]]
            /\ state' = [state EXCEPT ![line.id] = Blank]
        BY <2>2, <3>1 DEF Replayed
      <4> QED
        BY <4>1, <4>2, <4>3, BlankType DEF Types
    <3>2. CASE line.t = "set" /\ calls[line.id] # None
      <4>1. line.id \in Id /\ line.key \in Key /\ line.value \in Value \cup {None}
        BY <2>1, <3>2 DEF Line, CallLine, SetLine, EndLine
      <4>2. state' = [state EXCEPT ![line.id][line.key] = line.value] /\ UNCHANGED calls
        BY <2>2, <3>2 DEF Replayed
      <4>3. [state[line.id] EXCEPT ![line.key] = line.value] \in State
        BY <4>1 DEF Types, State
      <4> QED
        BY <4>1, <4>2, <4>3 DEF Types
    <3>3. CASE ~(line.t = "call") /\ ~(line.t = "set" /\ calls[line.id] # None)
      BY <2>2, <3>3 DEF Replayed, Types
    <3> QED
      BY <3>1, <3>2, <3>3
  <2>3. calls' \in [Id -> Kept \cup {None}] /\ state' \in [Id -> State]
    BY <1>7, <2>2 DEF WriteLine, Types
  <2> QED
    BY <1>7, <2>1, <2>3 DEF WriteLine, Types, run
<1>8. CASE WriteFails
  <2>1. faults' \in 0..MaxFault
    BY <1>8 DEF WriteFails, Types
  <2>2. torn' \in BOOLEAN
    BY <1>8 DEF WriteFails, Types
  <2>3. buffer' \in Seq(Line)
    BY <1>8 DEF WriteFails
  <2> QED
    BY <1>8, <2>1, <2>2, <2>3 DEF WriteFails, Types, run
<1>9. CASE Flushed
  <2>1. ASSUME pending # None, node[pending.call] # None
        PROVE  node' \in [Call -> Node \cup {None}]
    <3>1. /\ pending.call \in Call /\ pending.key \in Key
          /\ pending.value \in Value \cup {None}
      BY <2>1 DEF Types, Write
    <3>2. [node[pending.call].held EXCEPT ![pending.key] = pending.value] \in State
      BY <2>1, <3>1 DEF Types, Node, State
    <3>3. node[pending.call] \in Node
      BY <2>1, <3>1 DEF Types
    <3>4. [node[pending.call] EXCEPT !.held[pending.key] = pending.value] \in Node
      BY <3>2, <3>3 DEF Node
    <3>5. node' = [node EXCEPT ![pending.call] =
                     [node[pending.call] EXCEPT !.held[pending.key] = pending.value]]
      BY <1>9, <2>1 DEF Flushed
    <3> QED
      BY <3>1, <3>4, <3>5 DEF Types
  <2> QED
    BY <1>9, <2>1 DEF Flushed, Types, PendingLive, disk
<1>10. CASE Close
  BY <1>10 DEF Close, Types, disk, run, journal
<1>11. CASE Gone
  BY <1>11, ForgottenType DEF Gone, Types
<1>12. CASE UNCHANGED vars
  BY <1>12 DEF vars, disk, run, journal, Types
<1> QED
  BY <1>1, <1>2, <1>3, <1>4, <1>5, <1>6, <1>7, <1>8, <1>9, <1>10, <1>11, <1>12 DEF Next

LEMMA NextPending == TypeOK /\ [Next]_vars => PendingLive'
<1> SUFFICES ASSUME TypeOK, [Next]_vars, Types'
             PROVE  PendingLive'
  BY NextTypes
<1>1. CASE UNCHANGED pending /\ \A c \in Call : node[c] # None => node'[c] # None
  BY <1>1 DEF PendingLive, TypeOK, Types, Write
<1>2. CASE pending' = None
  BY <1>2 DEF PendingLive
<1>3. ASSUME NEW c \in Call, NEW k \in Key, NEW v \in Value \cup {None}, WriteState(c, k, v)
      PROVE  PendingLive'
  BY <1>3 DEF WriteState, PendingLive, Live, run
<1>4. ASSUME NEW c \in Call, NEW parent \in Call \cup {Top}, NEW d \in Digest,
             CallFlow(c, parent, d)
      PROVE  PendingLive'
  <2>1. \E one : node' = [node EXCEPT ![c] = one] /\ node[c] = None
    BY <1>4 DEF CallFlow
  <2>2. \A b \in Call : node[b] # None => node'[b] # None
    BY <2>1 DEF TypeOK, Types
  <2> QED
    BY <1>1, <1>4, <2>2 DEF CallFlow
<1>5. ASSUME NEW c \in Call, EndFlow(c)
      PROVE  PendingLive'
  <2>1. node[c] \in Node
    BY <1>5 DEF EndFlow, Live, TypeOK, Types
  <2>2. [node[c] EXCEPT !.ended = TRUE] \in Node
    BY <2>1 DEF Node
  <2>3. node' = [node EXCEPT ![c] = [node[c] EXCEPT !.ended = TRUE]]
    BY <1>5 DEF EndFlow
  <2>4. \A b \in Call : node[b] # None => node'[b] # None
    BY <2>2, <2>3, NoneAssumption DEF TypeOK, Types
  <2> QED
    BY <1>1, <1>5, <2>4 DEF EndFlow
<1>6. CASE \/ OpenFresh \/ OpenResumed \/ TimerFires \/ WriteLine \/ WriteFails \/ Close
           \/ UNCHANGED vars
  <2>1. UNCHANGED <<pending, node>>
    BY <1>6 DEF OpenFresh, OpenResumed, Opening, TimerFires, WriteLine, WriteFails, Close,
                vars, run, journal
  <2> QED
    BY <1>1, <2>1
<1>7. CASE Flushed \/ Gone
  BY <1>2, <1>7 DEF Flushed, Gone, Forgotten
<1> QED
  BY <1>3, <1>4, <1>5, <1>6, <1>7 DEF Next

\* The state of the model always has its type.
THEOREM Typing == Spec => []TypeOK
<1>1. TypeOK /\ [Next]_vars => TypeOK'
  BY NextTypes, NextPending DEF TypeOK
<1> QED
  BY InitType, <1>1, PTL DEF Spec

-----------------------------------------------------------------------------
(***************************************************************************)
(* No two calls of a run have one id (JidsDistinct).  A call that starts   *)
(* afresh takes an id above every id read back, and one that picks up an   *)
(* earlier call takes that call's; two that picked up the same one had one *)
(* parent, by what they were matched with, and one place among the calls   *)
(* of their digest there, which the count gives to one call only.          *)
(***************************************************************************)

\* No process, no calls.
Down == phase = "down" => (\A c \in Call : node[c] = None) /\ past = NoPast /\ ids = 0

\* The root of an earlier run is a call of it, and at the top.
Rooted == past.root # 0 => past.calls[past.root] # None /\ past.calls[past.root].parent = 0

\* The ids given out go on from the greatest read back.
Ahead ==
  /\ \A i \in Id : past.calls[i] # None => i <= ids
  /\ \A c \in Live : node[c].jid <= ids

OneTop == \A b, c \in Live : node[b].parent = Top /\ node[c].parent = Top => b = c

Parents == \A c \in Live : node[c].parent # Top => node[c].parent \in Live

\* A call that picked nothing up has an id above every id read back.
Fresh ==
  \A c \in Live : node[c].old = 0 =>
    \A i \in Id : past.calls[i] # None => i < node[c].jid

\* A call that picked one up has its id, and is what that one was, where it was.
Claims ==
  \A c \in Live : node[c].old # 0 =>
    /\ node[c].jid = node[c].old
    /\ node[c].parent = Top => node[c].old = past.root
    /\ node[c].parent # Top =>
         /\ OldOf(node[c].parent) # 0
         /\ past.calls[node[c].old] = [parent |-> OldOf(node[c].parent),
                                       digest |-> node[c].digest, seq |-> node[c].seq]

\* The calls of one digest a call has made are told apart by their count.
Seqs ==
  /\ \A c \in Live : node[c].seq < seqs[node[c].parent][node[c].digest]
  /\ \A b, c \in Live :
       /\ node[b].parent = node[c].parent
       /\ node[b].digest = node[c].digest
       /\ node[b].seq = node[c].seq
       => b = c

Matching ==
  /\ Down /\ Rooted /\ Ahead /\ OneTop /\ Parents /\ Fresh /\ Claims /\ Seqs
  /\ JidsDistinct

\* With no call made, there is nothing to match.
LEMMA NoCalls ==
  ASSUME \A c \in Call : node[c] = None, Rooted,
         Down, \A i \in Id : past.calls[i] # None => i <= ids
  PROVE  Matching
<1>1. Live = {}
  BY DEF Live
<1> QED
  BY <1>1 DEF Matching, Ahead, OneTop, Parents, Fresh, Claims, Seqs, JidsDistinct

LEMMA InitMatching == Init => Matching
<1> SUFFICES ASSUME Init PROVE Matching
  OBVIOUS
<1>1. Down /\ \A c \in Call : node[c] = None
  BY DEF Init, Down
<1>2. Rooted /\ \A i \in Id : past.calls[i] # None => i <= ids
  BY DEF Init, NoPast, Rooted
<1> QED
  BY <1>1, <1>2, NoCalls

\* What a call is matched by is settled as it is made: nothing but its making changes it.
LEMMA SameCalls ==
  ASSUME Matching, Types, UNCHANGED <<past, ids, seqs>>,
         phase' = phase \/ phase' # "down",
         Live' = Live,
         \A c \in Call : node[c] = None => node'[c] = None,
         \A c \in Live : /\ node'[c].parent = node[c].parent
                         /\ node'[c].jid = node[c].jid
                         /\ node'[c].old = node[c].old
                         /\ node'[c].digest = node[c].digest
                         /\ node'[c].seq = node[c].seq
  PROVE  Matching'
<1>1. Down' /\ Rooted'
  <2>1. Rooted'
    BY DEF Matching, Rooted
  <2>2. phase' = "down" => phase = "down"
    OBVIOUS
  <2>3. Down'
    BY <2>2 DEF Matching, Down
  <2> QED
    BY <2>1, <2>3
<1>2. Ahead' /\ OneTop' /\ Parents' /\ Fresh' /\ JidsDistinct'
  BY DEF Matching, Ahead, OneTop, Parents, Fresh, JidsDistinct
<1>3. Seqs'
  BY DEF Matching, Seqs
<1>4. ASSUME NEW c \in Live, node[c].parent # Top
      PROVE  OldOf(node[c].parent)' = OldOf(node[c].parent)
  BY <1>4 DEF Matching, Parents, OldOf
<1>5. Claims'
  <2> SUFFICES ASSUME NEW c \in Live, node[c].old # 0
               PROVE  /\ node[c].jid = node[c].old
                      /\ node[c].parent = Top => node[c].old = past.root
                      /\ node[c].parent # Top =>
                           /\ OldOf(node[c].parent)' # 0
                           /\ past.calls[node[c].old] =
                                [parent |-> OldOf(node[c].parent)', digest |-> node[c].digest,
                                 seq |-> node[c].seq]
    BY DEF Claims
  <2>1. Claims
    BY DEF Matching
  <2>2. /\ node[c].jid = node[c].old
        /\ node[c].parent = Top => node[c].old = past.root
        /\ node[c].parent # Top =>
             /\ OldOf(node[c].parent) # 0
             /\ past.calls[node[c].old] =
                  [parent |-> OldOf(node[c].parent), digest |-> node[c].digest,
                   seq |-> node[c].seq]
    BY ONLY <2>1, c \in Live, node[c].old # 0 DEF Claims
  <2>3. node[c].parent # Top => OldOf(node[c].parent)' = OldOf(node[c].parent)
    BY ONLY <1>4, c \in Live
  <2> QED
    BY ONLY <2>2, <2>3
<1> QED
  BY <1>1, <1>2, <1>3, <1>5 DEF Matching

\* A call made is the only one matched as it is.
LEMMA CallMatching ==
  ASSUME TypeOK, Matching, NEW c \in Call, NEW parent \in Call \cup {Top}, NEW d \in Digest,
         CallFlow(c, parent, d)
  PROVE  Matching'
<1> USE JournalAssumption
<1> DEFINE seq == SeqOf(parent, d)
           earlier == Earlier(parent, d, seq)
<1>1. /\ Types
      /\ parent = Top \/ parent \in Live
      /\ c \notin Live
      /\ phase = "open" /\ UNCHANGED <<phase, past>>
      /\ parent = Top => \A b \in Live : node[b].parent # Top
      /\ seqs' = Counted(parent, d)
      /\ ids \in Nat
  BY DEF CallFlow, Taking, Live, TypeOK, Types, Id
<1>2. \E jid \in Id, old \in Id \cup {0}, held \in State :
        /\ node' = [node EXCEPT ![c] = Made(parent, d, jid, old, held)]
        /\ \/ old = jid /\ jid \in earlier /\ ids' = ids
           \/ old = 0 /\ jid = ids + 1 /\ ids' = ids + 1
  <2>1. \A kept \in earlier : kept \in Id /\ past.state[kept] \in State
    BY <1>1 DEF Types, Past, Earlier
  <2>2. ids < MaxId => NextId(c) \in Id /\ NextId(c) = ids + 1
    BY <1>1 DEF NextId, Id
  <2>3. CASE \E kept \in earlier :
               /\ node' = [node EXCEPT ![c] = Made(parent, d, kept, kept, past.state[kept])]
               /\ ids' = ids
    BY <2>1, <2>3
  <2>4. CASE /\ ids < MaxId /\ ids' = NextId(c)
             /\ node' = [node EXCEPT ![c] = Made(parent, d, NextId(c), 0, Blank)]
    BY <2>2, <2>4, BlankType
  <2> QED
    BY <2>3, <2>4 DEF CallFlow
<1>3. PICK jid \in Id, old \in Id \cup {0}, held \in State :
        /\ node' = [node EXCEPT ![c] = Made(parent, d, jid, old, held)]
        /\ \/ old = jid /\ jid \in earlier /\ ids' = ids
           \/ old = 0 /\ jid = ids + 1 /\ ids' = ids + 1
  BY <1>2
<1>4. Made(parent, d, jid, old, held) \in Node
  BY <1>1, MadeType
<1>5. /\ Live' = Live \cup {c}
      /\ \A b \in Live : node'[b] = node[b]
      /\ node'[c].parent = parent /\ node'[c].jid = jid /\ node'[c].old = old
      /\ node'[c].digest = d /\ node'[c].seq = seq
  <2>1. node'[c] = Made(parent, d, jid, old, held) /\ \A b \in Call : b # c => node'[b] = node[b]
    BY <1>1, <1>3 DEF Types
  <2>2. node'[c] # None
    BY <2>1, <1>4, NoneAssumption
  <2>3. Live' = Live \cup {c}
    BY <2>1, <2>2 DEF Live
  <2>4. \A b \in Live : node'[b] = node[b]
    BY <1>1, <2>1 DEF Live
  <2>5. /\ node'[c].parent = parent /\ node'[c].jid = jid /\ node'[c].old = old
        /\ node'[c].digest = d /\ node'[c].seq = seq
    BY <2>1 DEF Made
  <2> QED
    BY <2>3, <2>4, <2>5
<1>6. \A b \in Live : node[b].parent \in Call \cup {Top} /\ node[b].jid \in Nat
                        /\ node[b].seq \in Nat /\ node[b].digest \in Digest
  <2>1. \A b \in Live : node[b] \in Node
    BY <1>1 DEF Types, Live
  <2> QED
    BY <2>1 DEF Node, Id
<1>7. seq \in Nat /\ OldOf(parent) \in Id \cup {0}
  BY <1>1, SeqType DEF Types, OldOf, Live, Node
<1>8. ASSUME old = jid, jid \in earlier
      PROVE  /\ past.calls[jid] # None /\ jid # 0
             /\ parent = Top => jid = past.root /\ past.calls[jid].parent = 0
             /\ parent # Top =>
                  /\ OldOf(parent) # 0
                  /\ past.calls[jid] = [parent |-> OldOf(parent), digest |-> d, seq |-> seq]
  <2>1. CASE parent = Top
    BY <1>8, <2>1 DEF Earlier, Matching, Rooted, Id
  <2>2. CASE parent # Top
    <3>1. /\ OldOf(parent) # 0
          /\ past.calls[jid] = [parent |-> OldOf(parent), digest |-> d, seq |-> seq]
      BY <1>8, <2>2 DEF Earlier
    <3>2. past.calls[jid] \in Kept
      BY <1>7, <3>1 DEF Kept
    <3> QED
      BY <2>2, <3>1, <3>2, NoneAssumption DEF Id
  <2> QED
    BY <2>1, <2>2
<1>9. Down' /\ Rooted' /\ OneTop' /\ Parents'
  <2>1. Down' /\ Rooted'
    BY <1>1 DEF Down, Matching, Rooted
  <2>2. OneTop'
    BY <1>1, <1>5 DEF Matching, OneTop
  <2>3. Parents'
    BY <1>1, <1>5 DEF Matching, Parents
  <2> QED
    BY <2>1, <2>2, <2>3
<1>10. Ahead'
  <2>1. ids' \in Nat /\ ids <= ids' /\ jid <= ids'
    BY <1>1, <1>3, <1>8 DEF Matching, Ahead, Id
  <2>2. \A i \in Id : past.calls[i] # None => i <= ids'
    BY <1>1, <2>1 DEF Matching, Ahead, Id
  <2>3. \A b \in Live : node[b].jid <= ids'
    BY <1>1, <1>6, <2>1 DEF Matching, Ahead
  <2> QED
    BY <1>1, <1>5, <2>1, <2>2, <2>3 DEF Ahead
<1>11. Fresh'
  <2>1. old = 0 => \A i \in Id : past.calls[i] # None => i < jid
    BY <1>1, <1>3, <1>8 DEF Matching, Ahead, Id
  <2> QED
    BY <1>1, <1>5, <2>1 DEF Matching, Fresh
<1>12. \A b \in Live \cup {c} : node'[b].parent # Top =>
         /\ node'[b].parent \in Live
         /\ node'[node'[b].parent].old = OldOf(node'[b].parent)
  <2>1. \A b \in Live \cup {c} : node'[b].parent # Top => node'[b].parent \in Live
    BY <1>1, <1>5 DEF Matching, Parents
  <2> QED
    BY <1>5, <2>1 DEF OldOf
<1>13. Claims'
  <2>1. ASSUME NEW b \in Live \cup {c}, node'[b].old # 0
        PROVE  /\ node'[b].jid = node'[b].old
               /\ node'[b].parent = Top => node'[b].old = past.root
               /\ node'[b].parent # Top =>
                    /\ OldOf(node'[b].parent) # 0
                    /\ past.calls[node'[b].old] =
                         [parent |-> OldOf(node'[b].parent),
                          digest |-> node'[b].digest, seq |-> node'[b].seq]
    <3>1. CASE b = c
      BY <1>3, <1>5, <1>8, <2>1, <3>1
    <3>2. CASE b \in Live
      BY <1>5, <2>1, <3>2 DEF Matching, Claims
    <3> QED
      BY <3>1, <3>2
  <2>2. ASSUME NEW b \in Live \cup {c}, node'[b].old # 0
        PROVE  /\ node'[b].jid = node'[b].old
               /\ node'[b].parent = Top => node'[b].old = past'.root
               /\ node'[b].parent # Top =>
                    /\ node'[node'[b].parent].old # 0
                    /\ past'.calls[node'[b].old] =
                         [parent |-> node'[node'[b].parent].old,
                          digest |-> node'[b].digest, seq |-> node'[b].seq]
    BY <1>1, <1>12, <2>1, <2>2
  <2> QED
    BY <1>5, <2>2 DEF Claims, OldOf
<1>14. Seqs'
  <2>1. /\ seqs'[parent][d] = seq + 1
        /\ \A p \in Call \cup {Top}, e \in Digest :
             (p # parent \/ e # d) => seqs'[p][e] = seqs[p][e]
    BY <1>1 DEF Counted, SeqOf, Types
  <2>2. \A b \in Live : node[b].seq < seqs'[node[b].parent][node[b].digest]
    <3> SUFFICES ASSUME NEW b \in Live
                 PROVE  node[b].seq < seqs'[node[b].parent][node[b].digest]
      OBVIOUS
    <3>1. node[b].seq < seqs[node[b].parent][node[b].digest]
      BY DEF Matching, Seqs
    <3>2. CASE node[b].parent = parent /\ node[b].digest = d
      BY <1>6, <1>7, <2>1, <3>1, <3>2 DEF SeqOf
    <3>3. CASE ~(node[b].parent = parent /\ node[b].digest = d)
      BY <1>6, <2>1, <3>1, <3>3
    <3> QED
      BY <3>2, <3>3
  <2>3. \A b \in Live : node[b].parent = parent /\ node[b].digest = d => node[b].seq # seq
    BY <1>6, <1>7 DEF Matching, Seqs, SeqOf
  <2> QED
    BY <1>5, <1>7, <2>1, <2>2, <2>3 DEF Matching, Seqs
<1>15. JidsDistinct'
  <2>1. ASSUME NEW b \in Live, node[b].jid = jid
        PROVE  FALSE
    <3>1. old = jid /\ jid \in earlier
      BY <1>1, <1>3, <1>6, <2>1 DEF Matching, Ahead, Id
    <3>2. node[b].old # 0
      BY <1>6, <1>8, <2>1, <3>1 DEF Matching, Fresh
    <3>3. node[b].old = jid
      BY <2>1, <3>2 DEF Matching, Claims
    <3>4. CASE parent = Top
      <4>1. node[b].parent # Top
        BY <1>1, <3>4
      <4>2. /\ past.calls[jid] = [parent |-> OldOf(node[b].parent),
                                  digest |-> node[b].digest, seq |-> node[b].seq]
            /\ OldOf(node[b].parent) # 0
        BY <3>2, <3>3, <4>1 DEF Matching, Claims
      <4> QED
        BY <1>8, <3>1, <3>4, <4>2
    <3>5. CASE parent # Top
      <4>1. past.calls[jid] = [parent |-> OldOf(parent), digest |-> d, seq |-> seq]
        BY <1>8, <3>1, <3>5
      <4>2. node[b].parent # Top
        <5> SUFFICES ASSUME node[b].parent = Top PROVE FALSE
          OBVIOUS
        <5>1. past.calls[jid].parent = 0
          BY <3>2, <3>3, <1>8, <3>1 DEF Matching, Claims, Rooted
        <5> QED
          BY <1>8, <3>1, <3>5, <4>1, <5>1
      <4>3. past.calls[jid] = [parent |-> OldOf(node[b].parent), digest |-> node[b].digest,
                               seq |-> node[b].seq]
        BY <3>2, <3>3, <4>2 DEF Matching, Claims
      <4>4. /\ OldOf(node[b].parent) = OldOf(parent)
            /\ node[b].digest = d /\ node[b].seq = seq
        BY <4>1, <4>3
      <4>5. parent \in Live /\ node[b].parent \in Live
        BY <1>1, <3>5, <4>2 DEF Matching, Parents
      <4>6. node[parent].old # 0 /\ node[node[b].parent].old = node[parent].old
        BY <1>8, <3>1, <3>5, <4>2, <4>4 DEF OldOf
      <4>7. node[parent].jid = node[node[b].parent].jid
        BY <4>5, <4>6 DEF Matching, Claims
      <4>8. node[b].parent = parent
        BY <4>5, <4>7 DEF Matching, JidsDistinct
      <4> QED
        BY <1>6, <1>7, <4>4, <4>8 DEF Matching, Seqs, SeqOf
    <3> QED
      BY <3>4, <3>5
  <2> QED
    BY <1>5, <2>1 DEF Matching, JidsDistinct
<1> QED
  BY <1>9, <1>10, <1>11, <1>13, <1>14, <1>15 DEF Matching

\* A run begins with no call made, after the greatest id it read back.
LEMMA OpenMatching ==
  ASSUME TypeOK, Matching, OpenFresh \/ OpenResumed
  PROVE  Matching'
<1>1. phase = "down" /\ phase' = "open" /\ UNCHANGED <<node, seqs>>
  BY DEF OpenFresh, OpenResumed, Opening
<1>2. (\A c \in Call : node'[c] = None) /\ past = NoPast /\ ids = 0
  BY <1>1 DEF Matching, Down
<1>3. Rooted' /\ \A i \in Id : past'.calls[i] # None => i <= ids'
  <2>1. CASE OpenFresh
    BY <1>2, <2>1 DEF OpenFresh, NoPast, Rooted
  <2>2. CASE OpenResumed
    BY <2>2 DEF OpenResumed, Rooted, Roots, Recorded, IsLast
  <2> QED
    BY <2>1, <2>2
<1>4. Down'
  BY <1>1 DEF Down
<1>5. Live' = {}
  BY <1>2 DEF Live
<1> QED
  BY <1>3, <1>4, <1>5 DEF Matching, Ahead, OneTop, Parents, Fresh, Claims, Seqs, JidsDistinct

\* The ids of the calls of a run are ids.
LEMMA LiveJids == Types => \A c \in Live : c \in Call /\ node[c] \in Node /\ node[c].jid \in Id
<1> SUFFICES ASSUME Types, NEW c \in Live
             PROVE  c \in Call /\ node[c] \in Node /\ node[c].jid \in Id
  OBVIOUS
<1>1. c \in Call /\ node[c] \in Node
  BY DEF Types, Live
<1> QED
  BY <1>1 DEF Node

\* No call is made, and what each was made by is the same.
Unmade ==
  /\ Live' = Live
  /\ \A b \in Live : /\ node'[b].parent = node[b].parent
                     /\ node'[b].jid = node[b].jid
                     /\ node'[b].old = node[b].old
                     /\ node'[b].digest = node[b].digest
                     /\ node'[b].seq = node[b].seq

\* A call that ends, and one whose state is held, is the call it was.
LEMMA EndUnmade ==
  ASSUME TypeOK, NEW c \in Call, EndFlow(c)
  PROVE  Unmade
<1>1. c \in Live /\ node' = [node EXCEPT ![c] = [node[c] EXCEPT !.ended = TRUE]]
  BY DEF EndFlow
<1>2. Types /\ node[c] \in Node
  BY <1>1, LiveJids DEF TypeOK
<1>3. [node[c] EXCEPT !.ended = TRUE] \in Node
  BY <1>2 DEF Node
<1>4. Live' = Live
  BY <1>1, <1>2, <1>3, NoneAssumption DEF Live, Types
<1>5. /\ node'[c] = [node[c] EXCEPT !.ended = TRUE]
      /\ \A b \in Live : b # c => node'[b] = node[b]
  BY <1>1, <1>2 DEF Live, Types
<1>6. /\ node'[c].parent = node[c].parent /\ node'[c].jid = node[c].jid
      /\ node'[c].old = node[c].old /\ node'[c].digest = node[c].digest
      /\ node'[c].seq = node[c].seq
  BY <1>2, <1>5 DEF Node
<1> QED
  BY <1>4, <1>5, <1>6 DEF Unmade

LEMMA FlushedUnmade ==
  ASSUME TypeOK, Flushed
  PROVE  Unmade
<1>1. CASE pending = None
  <2>1. UNCHANGED node
    BY <1>1 DEF Flushed
  <2> QED
    BY <2>1 DEF Unmade, Live
<1>2. CASE pending # None
  <2> DEFINE c == pending.call
             held == [node[c].held EXCEPT ![pending.key] = pending.value]
  <2>1. /\ Types /\ c \in Call /\ node[c] \in Node
        /\ pending.key \in Key /\ pending.value \in Value \cup {None}
    BY <1>2 DEF TypeOK, Types, PendingLive, Write
  <2>2. held \in State
    BY <2>1 DEF Node, State
  <2>3. node' = [node EXCEPT ![c] = [node[c] EXCEPT !.held = held]]
    BY <1>2 DEF Flushed
  <2> HIDE DEF held
  <2>4. [node[c] EXCEPT !.held = held] \in Node
    BY <2>1, <2>2 DEF Node
  <2>5. Live' = Live
    BY <2>1, <2>3, <2>4, NoneAssumption DEF Live, Types
  <2>6. /\ node'[c] = [node[c] EXCEPT !.held = held]
        /\ \A b \in Live : b # c => node'[b] = node[b]
    BY <2>1, <2>3 DEF Live, Types
  <2>7. /\ node'[c].parent = node[c].parent /\ node'[c].jid = node[c].jid
        /\ node'[c].old = node[c].old /\ node'[c].digest = node[c].digest
        /\ node'[c].seq = node[c].seq
    BY <2>1, <2>6 DEF Node
  <2> QED
    BY <2>5, <2>6, <2>7 DEF Unmade
<1> QED
  BY <1>1, <1>2

LEMMA NextMatching == TypeOK /\ Matching /\ [Next]_vars => Matching'
<1> SUFFICES ASSUME TypeOK, Types, Matching, [Next]_vars
             PROVE  Matching'
  BY DEF TypeOK
<1>1. CASE OpenFresh \/ OpenResumed
  BY <1>1, OpenMatching
<1>2. ASSUME NEW c \in Call, NEW parent \in Call \cup {Top}, NEW d \in Digest,
             CallFlow(c, parent, d)
      PROVE  Matching'
  BY <1>2, CallMatching
<1>3. ASSUME NEW c \in Call, EndFlow(c)
      PROVE  Matching'
  <2>1. Unmade /\ \A b \in Call : node[b] = None => node'[b] = None
    BY <1>3, EndUnmade DEF Unmade, Live
  <2> QED
    BY <1>3, <2>1, SameCalls DEF EndFlow, Unmade
<1>4. CASE Flushed
  <2>1. Unmade /\ \A b \in Call : node[b] = None => node'[b] = None
    BY <1>4, FlushedUnmade DEF Unmade, Live
  <2> QED
    BY <1>4, <2>1, SameCalls DEF Flushed, Unmade
<1>5. CASE UNCHANGED run /\ (phase' = phase \/ phase' # "down")
  <2>1. UNCHANGED <<past, ids, seqs, node>>
    BY <1>5 DEF run
  <2>2. Live' = Live
    BY <2>1 DEF Live
  <2> QED
    BY <1>5, <2>1, <2>2, SameCalls
<1>6. ASSUME NEW c \in Call, NEW k \in Key, NEW v \in Value \cup {None}, WriteState(c, k, v)
      PROVE  Matching'
  BY <1>5, <1>6 DEF WriteState
<1>7. CASE TimerFires \/ WriteLine \/ WriteFails \/ Close \/ UNCHANGED vars
  BY <1>5, <1>7 DEF TimerFires, WriteLine, WriteFails, Close, vars
<1>8. CASE Gone
  <2>1. /\ \A c \in Call : node'[c] = None
        /\ past' = NoPast /\ ids' = 0
    BY <1>8 DEF Gone, Forgotten
  <2>2. Live' = {} /\ Down' /\ Rooted' /\ \A i \in Id : past'.calls[i] # None => i <= ids'
    BY <2>1 DEF Live, Down, Rooted, NoPast
  <2> QED
    BY <2>2 DEF Matching, Ahead, OneTop, Parents, Fresh, Claims, Seqs, JidsDistinct
<1> QED
  BY <1>1, <1>2, <1>3, <1>4, <1>6, <1>7, <1>8 DEF Next

\* No two calls of a run are one call of the journal, however many of them are gathered,
\* whatever was killed or refused before (FlowImpl._journaled, Past.claim).
THEOREM Distinctness == Spec => []JidsDistinct
<1>1. TypeOK /\ Matching /\ [Next]_vars => (TypeOK /\ Matching)'
  BY NextTypes, NextPending, NextMatching DEF TypeOK
<1>2. Matching => JidsDistinct
  BY DEF Matching
<1> QED
  BY InitType, InitMatching, <1>1, <1>2, PTL DEF Spec

-----------------------------------------------------------------------------
(***************************************************************************)
(* What a kill leaves behind (StateDurable, ParentFirst), while no write   *)
(* was refused.  Neither is inductive: a record is in the file only after  *)
(* it has waited in the buffer, so the buffer is part of the argument.     *)
(* Every call of the run is recorded or its record waits, behind that of   *)
(* the call above it; a state record is the last to wait, and the write    *)
(* that made it goes on only once it is gone; and what was read on opening *)
(* stays as it was until a call picks it up.                               *)
(***************************************************************************)

\* Nothing is torn while a process is there to write.
Whole == phase # "down" => ~torn

\* What a record is not there for has no state, and no process gives its id out again.
Unrecorded ==
  /\ \A i \in Id : calls[i] = None => state[i] = Blank
  /\ phase # "down" => \A i \in Recorded : i <= ids

\* The call record of an id waits to be written.
IsCall(line, i) == line.t = "call" /\ line.id = i
Coming(i) == \E n \in DOMAIN buffer : IsCall(buffer[n], i)

\* A call record waits behind that of the call above it.
Lined ==
  \A n \in DOMAIN buffer : buffer[n].t = "call" =>
    /\ buffer[n].id <= ids
    /\ buffer[n].parent # 0 =>
         /\ buffer[n].parent < buffer[n].id
         /\ \/ calls[buffer[n].parent] # None
            \/ \E m \in 1..(n - 1) : IsCall(buffer[m], buffer[n].parent)

\* A call under another is recorded under one made, and recorded, before.
ParentsRecorded ==
  \A i \in Recorded : calls[i].parent # 0 =>
    calls[i].parent < i /\ calls[calls[i].parent] # None

\* Every call of the run is recorded, or about to be.
Known == \A c \in Live : calls[node[c].jid] # None \/ Coming(node[c].jid)

\* The state record a state write waits for is the last one, and the only one.
SetOf(w) == [t |-> "set", id |-> node[w.call].jid, key |-> w.key, value |-> w.value]

Sets ==
  /\ pending # None => flushing
  /\ pending # None /\ buffer # <<>> => buffer[Len(buffer)] = SetOf(pending)
  /\ \A n \in DOMAIN buffer : buffer[n].t = "set" => pending # None /\ n = Len(buffer)

\* What the file says of a call is what the call holds, or will once its write returns.
Said(c) ==
  IF pending # None /\ pending.call = c /\ buffer = <<>>
    THEN [node[c].held EXCEPT ![pending.key] = pending.value]
    ELSE node[c].held

Held ==
  \A c \in Live :
    /\ state[node[c].jid] = Said(c)
    /\ Coming(node[c].jid) => node[c].held = Blank

\* What was read on opening is in the file still, until a call that picks it up writes.
PastKept ==
  \A i \in Id : past.calls[i] # None =>
    /\ calls[i] # None
    /\ ~Coming(i)
    /\ (\A c \in Live : node[c].jid # i) => state[i] = past.state[i]

\* No process, no records waiting.
Quiet == phase = "down" => buffer = <<>> /\ pending = None

Keeping ==
  /\ Whole /\ Unrecorded /\ Lined /\ ParentsRecorded /\ Known /\ Sets /\ Held /\ PastKept
  /\ Quiet

\* What a run has on opening, and once it is gone: no call, no record waiting.
LEMMA NoneHeld ==
  ASSUME Types', Whole', Unrecorded', ParentsRecorded', PastKept',
         \A c \in Call : node'[c] = None, buffer' = <<>>, pending' = None
  PROVE  Keeping'
<1>1. Live' = {}
  BY DEF Live
<1>2. DOMAIN buffer' = {}
  OBVIOUS
<1>3. Lined'
  BY <1>2 DEF Lined
<1>4. Known' /\ Held'
  BY <1>1 DEF Known, Held
<1>5. Sets' /\ Quiet'
  BY <1>2 DEF Sets, Quiet
<1> QED
  BY <1>3, <1>4, <1>5 DEF Keeping

LEMMA InitKeeping == Init /\ Types => Keeping
<1> SUFFICES ASSUME Init, Types PROVE Keeping
  OBVIOUS
<1>1. Live = {} /\ DOMAIN buffer = {} /\ pending = None
  BY DEF Init, Live
<1>2. Recorded = {}
  BY DEF Init, Recorded
<1>3. Whole /\ Unrecorded /\ ParentsRecorded /\ Quiet
  BY <1>1, <1>2 DEF Init, Whole, Unrecorded, ParentsRecorded, Quiet
<1>4. Lined /\ Known /\ Sets /\ Held
  BY <1>1 DEF Lined, Known, Sets, Held
<1>5. PastKept
  BY DEF Init, NoPast, PastKept
<1> QED
  BY <1>3, <1>4, <1>5 DEF Keeping

LEMMA OpenKeeping ==
  ASSUME Types, Types', Matching, Keeping, OpenFresh \/ OpenResumed
  PROVE  Keeping'
<1>1. /\ phase = "down" /\ torn' = FALSE
      /\ UNCHANGED <<node, buffer, pending>>
  BY DEF OpenFresh, OpenResumed, Opening, journal
<1>2. \A c \in Call : node'[c] = None
  BY <1>1 DEF Matching, Down
<1>3. buffer' = <<>> /\ pending' = None
  BY <1>1 DEF Keeping, Quiet
<1>4. Live' = {} /\ Live = {} /\ DOMAIN buffer' = {}
  BY <1>1, <1>2, <1>3 DEF Live
<1>5. Whole'
  BY <1>1 DEF Whole
<1>6. CASE OpenFresh
  <2>1. Recorded' = {}
    BY <1>6 DEF OpenFresh, Recorded
  <2>2. Unrecorded' /\ ParentsRecorded'
    BY <1>6, <2>1 DEF OpenFresh, Unrecorded, ParentsRecorded
  <2>3. PastKept'
    BY <1>1, <1>6 DEF OpenFresh, PastKept, Matching, Down, NoPast
  <2> QED
    BY <1>2, <1>3, <1>5, <2>2, <2>3, NoneHeld
<1>7. CASE OpenResumed
  <2>1. /\ UNCHANGED <<calls, state>>
        /\ past'.calls = calls /\ past'.state = state
    BY <1>7 DEF OpenResumed
  <2>2. \A i \in Recorded' : i <= ids'
    BY <1>7, <2>1 DEF OpenResumed, IsLast, Recorded
  <2>3. Unrecorded' /\ ParentsRecorded'
    BY <2>1, <2>2 DEF Keeping, Unrecorded, ParentsRecorded, Recorded
  <2>4. PastKept'
    BY <1>4, <2>1 DEF PastKept, Coming
  <2> QED
    BY <1>2, <1>3, <1>5, <2>3, <2>4, NoneHeld
<1> QED
  BY <1>6, <1>7

LEMMA GoneKeeping == Types' /\ Keeping /\ Gone => Keeping'
<1> SUFFICES ASSUME Types', Keeping, Gone PROVE Keeping'
  OBVIOUS
<1>1. /\ \A c \in Call : node'[c] = None
      /\ buffer' = <<>> /\ pending' = None /\ past' = NoPast
      /\ UNCHANGED <<calls, state>> /\ phase' = "down"
  BY DEF Gone, Forgotten
<1>2. Whole' /\ Unrecorded' /\ ParentsRecorded'
  BY <1>1 DEF Keeping, Whole, Unrecorded, ParentsRecorded, Recorded
<1>3. PastKept'
  BY <1>1 DEF PastKept, NoPast
<1> QED
  BY <1>1, <1>2, <1>3, NoneHeld

\* A record appended is the last; what waited waits where it was.
LEMMA Appended ==
  ASSUME Types, NEW line \in Line, buffer' = Append(buffer, line)
  PROVE  /\ Len(buffer) \in Nat /\ Len(buffer') = Len(buffer) + 1
         /\ DOMAIN buffer = 1..Len(buffer) /\ DOMAIN buffer' = 1..(Len(buffer) + 1)
         /\ \A n \in 1..Len(buffer) : buffer'[n] = buffer[n]
         /\ buffer'[Len(buffer) + 1] = line
         /\ buffer' # <<>>
         /\ \A i \in Id : Coming(i)' <=> Coming(i) \/ IsCall(line, i)
<1>1. /\ Len(buffer) \in Nat /\ Len(buffer') = Len(buffer) + 1
      /\ DOMAIN buffer = 1..Len(buffer) /\ DOMAIN buffer' = 1..(Len(buffer) + 1)
      /\ \A n \in 1..Len(buffer) : buffer'[n] = buffer[n]
      /\ buffer'[Len(buffer) + 1] = line
      /\ buffer' # <<>>
  BY DEF Types
<1>2. ASSUME NEW i \in Id
      PROVE  Coming(i)' <=> Coming(i) \/ IsCall(line, i)
  <2>1. Coming(i)' => Coming(i) \/ IsCall(line, i)
    <3> SUFFICES ASSUME NEW n \in 1..(Len(buffer) + 1), IsCall(buffer'[n], i),
                        ~IsCall(line, i)
                 PROVE  Coming(i)
      BY <1>1 DEF Coming
    <3>1. n \in 1..Len(buffer)
      BY <1>1
    <3> QED
      BY <1>1, <3>1 DEF Coming
  <2>2. Coming(i) => Coming(i)'
    <3> SUFFICES ASSUME NEW n \in 1..Len(buffer), IsCall(buffer[n], i)
                 PROVE  Coming(i)'
      BY <1>1 DEF Coming
    <3>1. n \in DOMAIN buffer' /\ IsCall(buffer'[n], i)
      BY <1>1
    <3> QED
      BY <3>1 DEF Coming
  <2>3. IsCall(line, i) => Coming(i)'
    <3>1. Len(buffer) + 1 \in DOMAIN buffer'
      BY <1>1
    <3> QED
      BY <1>1, <3>1 DEF Coming
  <2> QED
    BY <2>1, <2>2, <2>3
<1> QED
  BY <1>1, <1>2

\* A record written is the first; the others move up by one.
LEMMA Tailed ==
  ASSUME Types, buffer # <<>>, buffer' = Tail(buffer)
  PROVE  /\ Len(buffer) \in Nat \ {0} /\ Len(buffer') = Len(buffer) - 1
         /\ DOMAIN buffer = 1..Len(buffer) /\ DOMAIN buffer' = 1..(Len(buffer) - 1)
         /\ \A n \in 1..(Len(buffer) - 1) : buffer'[n] = buffer[n + 1]
         /\ Head(buffer) = buffer[1] /\ Head(buffer) \in Line
         /\ buffer' = <<>> <=> Len(buffer) = 1
         /\ \A i \in Id : Coming(i) <=> Coming(i)' \/ IsCall(Head(buffer), i)
<1>1. /\ Len(buffer) \in Nat \ {0} /\ Len(buffer') = Len(buffer) - 1
      /\ DOMAIN buffer = 1..Len(buffer) /\ DOMAIN buffer' = 1..(Len(buffer) - 1)
      /\ \A n \in 1..(Len(buffer) - 1) : buffer'[n] = buffer[n + 1]
      /\ Head(buffer) = buffer[1] /\ Head(buffer) \in Line
  BY DEF Types
<1>2. buffer' = <<>> <=> Len(buffer) = 1
  <2>1. buffer' \in Seq(Line)
    BY DEF Types
  <2>2. \A q \in Seq(Line) : q = <<>> <=> Len(q) = 0
    OBVIOUS
  <2>3. buffer' = <<>> <=> Len(buffer') = 0
    BY <2>1, <2>2
  <2>4. Len(buffer') = 0 <=> Len(buffer) = 1
    BY <1>1
  <2> QED
    BY <2>3, <2>4
<1>3. ASSUME NEW i \in Id
      PROVE  Coming(i) <=> Coming(i)' \/ IsCall(Head(buffer), i)
  <2>1. Coming(i) => Coming(i)' \/ IsCall(Head(buffer), i)
    <3> SUFFICES ASSUME NEW n \in 1..Len(buffer), IsCall(buffer[n], i), n # 1
                 PROVE  Coming(i)'
      BY <1>1 DEF Coming
    <3>1. n - 1 \in DOMAIN buffer' /\ buffer'[n - 1] = buffer[n]
      BY <1>1
    <3> QED
      BY <3>1 DEF Coming
  <2>2. Coming(i)' => Coming(i)
    <3> SUFFICES ASSUME NEW n \in 1..(Len(buffer) - 1), IsCall(buffer'[n], i)
                 PROVE  Coming(i)
      BY <1>1 DEF Coming
    <3>1. n + 1 \in DOMAIN buffer /\ buffer[n + 1] = buffer'[n]
      BY <1>1
    <3> QED
      BY <3>1 DEF Coming
  <2>3. IsCall(Head(buffer), i) => Coming(i)
    <3>1. 1 \in DOMAIN buffer
      BY <1>1
    <3> QED
      BY <1>1, <3>1 DEF Coming
  <2> QED
    BY <2>1, <2>2, <2>3
<1> QED
  BY <1>1, <1>2, <1>3

\* A call, as made: it picks up an earlier one, or starts afresh and is written down.
LEMMA CallMade ==
  ASSUME TypeOK, NEW c \in Call, NEW parent \in Call \cup {Top}, NEW d \in Digest,
         CallFlow(c, parent, d)
  PROVE  \E jid \in Id, line \in Line :
           /\ c \notin Live /\ Live' = Live \cup {c}
           /\ \A b \in Live : node'[b] = node[b]
           /\ node'[c].jid = jid /\ node'[c].parent = parent
           /\ node'[c].digest = d /\ node'[c].seq = SeqOf(parent, d)
           /\ \/ /\ jid \in Earlier(parent, d, SeqOf(parent, d))
                 /\ node'[c].old = jid
                 /\ node'[c].held = past.state[jid]
                 /\ UNCHANGED <<ids, buffer>>
              \/ /\ jid = ids + 1 /\ ids' = jid
                 /\ node'[c].held = Blank
                 /\ line.t = "call" /\ line.id = jid /\ line.parent = JidOf(parent)
                 /\ line.digest = d /\ line.seq = SeqOf(parent, d)
                 /\ buffer' = Append(buffer, line)
<1> USE JournalAssumption
<1> DEFINE seq == SeqOf(parent, d)
           earlier == Earlier(parent, d, seq)
<1>1. /\ Types
      /\ parent = Top \/ parent \in Live
      /\ c \notin Live
  BY DEF CallFlow, Live, TypeOK
<1>2. ASSUME NEW jid \in Id, NEW old \in Id \cup {0}, NEW held \in State,
             node' = [node EXCEPT ![c] = Made(parent, d, jid, old, held)]
      PROVE  /\ Live' = Live \cup {c}
             /\ \A b \in Live : node'[b] = node[b]
             /\ node'[c].jid = jid /\ node'[c].held = held
             /\ node'[c].parent = parent /\ node'[c].old = old
             /\ node'[c].digest = d /\ node'[c].seq = seq
  <2>1. Made(parent, d, jid, old, held) \in Node
    BY <1>1, MadeType
  <2>2. node'[c] = Made(parent, d, jid, old, held) /\ \A b \in Call : b # c => node'[b] = node[b]
    BY <1>1, <1>2 DEF Types
  <2>3. node'[c] # None
    BY <2>1, <2>2, NoneAssumption
  <2>4. Live' = Live \cup {c} /\ \A b \in Live : node'[b] = node[b]
    BY <1>1, <2>2, <2>3 DEF Live
  <2> QED
    BY <2>2, <2>4 DEF Made
<1>3. \A kept \in earlier : kept \in Id /\ past.state[kept] \in State
  BY <1>1 DEF Types, Past, Earlier
<1>4. JidOf(parent) \in Id \cup {0} /\ seq \in Nat /\ ids \in Nat
  BY <1>1, SeqType DEF Types, Id
<1>5. CASE \E kept \in earlier :
             /\ node' = [node EXCEPT ![c] = Made(parent, d, kept, kept, past.state[kept])]
             /\ UNCHANGED <<ids, buffer, timer>>
  <2>1. PICK kept \in earlier :
             /\ node' = [node EXCEPT ![c] = Made(parent, d, kept, kept, past.state[kept])]
             /\ UNCHANGED <<ids, buffer, timer>>
    BY <1>5
  <2>2. kept \in Id /\ past.state[kept] \in State
    BY <1>3
  <2>3. \E line \in Line : TRUE
    <3>1. [t |-> "end", id |-> kept] \in Line
      BY <2>2 DEF Line, EndLine
    <3> QED
      BY <3>1
  <2> QED
    BY <1>1, <1>2, <2>1, <2>2, <2>3
<1>6. CASE /\ ids < MaxId /\ ids' = NextId(c)
           /\ node' = [node EXCEPT ![c] = Made(parent, d, NextId(c), 0, Blank)]
           /\ Batched([t |-> "call", id |-> NextId(c), parent |-> JidOf(parent),
                       digest |-> d, seq |-> seq])
  <2> DEFINE line == [t |-> "call", id |-> NextId(c), parent |-> JidOf(parent),
                      digest |-> d, seq |-> seq]
  <2>1. NextId(c) \in Id /\ NextId(c) = ids + 1
    BY <1>4, <1>6 DEF NextId, Id
  <2>2. line \in Line
    BY <1>4, <2>1 DEF Line, CallLine
  <2>3. buffer' = Append(buffer, line)
    BY <1>6 DEF Batched
  <2>4. /\ line.t = "call" /\ line.id = NextId(c) /\ line.parent = JidOf(parent)
        /\ line.digest = d /\ line.seq = seq
    OBVIOUS
  <2>5. /\ Live' = Live \cup {c}
        /\ \A b \in Live : node'[b] = node[b]
        /\ node'[c].jid = NextId(c) /\ node'[c].held = Blank
        /\ node'[c].parent = parent /\ node'[c].digest = d /\ node'[c].seq = seq
    BY <1>2, <1>6, <2>1, BlankType
  <2> HIDE DEF line
  <2> QED
    BY <1>1, <1>6, <2>1, <2>2, <2>3, <2>4, <2>5
<1> QED
  BY <1>5, <1>6 DEF CallFlow

\* With no state write waiting, what is held is what is said.
LEMMA SaidHeld ==
  ASSUME pending = None, NEW c \in Call
  PROVE  Said(c) = node[c].held
  BY DEF Said

\* What an earlier call's record says, and what it left in the file, are what the call that
\* picks it up holds; a call that starts afresh has left nothing.
LEMMA CallKeeping ==
  ASSUME TypeOK, Types', Matching, JidsDistinct', Keeping,
         NEW c \in Call, NEW parent \in Call \cup {Top}, NEW d \in Digest,
         CallFlow(c, parent, d)
  PROVE  Keeping'
<1> USE JournalAssumption
<1>1. PICK jid \in Id, line \in Line :
        /\ c \notin Live /\ Live' = Live \cup {c}
        /\ \A b \in Live : node'[b] = node[b]
        /\ node'[c].jid = jid
        /\ \/ /\ jid \in Earlier(parent, d, SeqOf(parent, d))
              /\ node'[c].held = past.state[jid]
              /\ UNCHANGED <<ids, buffer>>
           \/ /\ jid = ids + 1 /\ ids' = jid
              /\ node'[c].held = Blank
              /\ line.t = "call" /\ line.id = jid /\ line.parent = JidOf(parent)
              /\ buffer' = Append(buffer, line)
  BY CallMade
<1>2. /\ Types /\ phase = "open" /\ ~flushing
      /\ UNCHANGED <<calls, state, torn, phase, past, flushing, pending>>
      /\ parent = Top \/ parent \in Live
  BY DEF CallFlow, Taking, TypeOK, disk
<1>3. pending = None /\ pending' = None /\ \A n \in DOMAIN buffer : buffer[n].t # "set"
  BY <1>2 DEF Keeping, Sets
<1>4. \A b \in Live : node'[b] = node[b] /\ node[b].jid \in Id /\ b \in Call
  BY <1>1, <1>2, LiveJids
<1>5. \A b \in Live : node[b].jid # jid
  BY <1>1, <1>4 DEF JidsDistinct
<1>6. \A b \in Live \cup {c} : Said(b)' = node'[b].held
  BY <1>3 DEF Said
<1>7. Whole' /\ Quiet' /\ ParentsRecorded'
  BY <1>2 DEF Keeping, Whole, Quiet, ParentsRecorded, Recorded
<1>8. ids \in Nat /\ ids' \in Nat /\ ids <= ids'
  BY <1>1, <1>2 DEF Types, Id
<1>9. Unrecorded'
  BY <1>2, <1>8 DEF Keeping, Unrecorded, Recorded, Id
<1>10. CASE /\ jid \in Earlier(parent, d, SeqOf(parent, d))
            /\ node'[c].held = past.state[jid]
            /\ UNCHANGED <<ids, buffer>>
  <2>1. past.calls[jid] # None
    <3>1. CASE parent = Top
      BY <1>10, <3>1 DEF Earlier, Matching, Rooted
    <3>2. CASE parent # Top
      <4>1. past.calls[jid] = [parent |-> OldOf(parent), digest |-> d,
                               seq |-> SeqOf(parent, d)]
        BY <1>10, <3>2 DEF Earlier
      <4>2. OldOf(parent) \in Id \cup {0} /\ SeqOf(parent, d) \in Nat
        BY <1>2, SeqType DEF Types, OldOf, Live, Node
      <4>3. past.calls[jid] \in Kept
        BY <4>1, <4>2 DEF Kept
      <4> QED
        BY <4>3, NoneAssumption
    <3> QED
      BY <3>1, <3>2
  <2>2. calls[jid] # None /\ ~Coming(jid) /\ state[jid] = past.state[jid]
    BY <1>5, <2>1 DEF Keeping, PastKept
  <2>3. \A i \in Id : Coming(i)' <=> Coming(i)
    BY <1>10 DEF Coming
  <2>4. Lined' /\ Sets'
    BY <1>2, <1>3, <1>10 DEF Keeping, Lined, Sets
  <2>5. Known'
    BY <1>1, <1>2, <1>4, <2>2, <2>3 DEF Keeping, Known
  <2>6. Held'
    <3>1. \A b \in Live : state[node[b].jid] = node[b].held
                          /\ (Coming(node[b].jid) => node[b].held = Blank)
      BY <1>3, <1>4, SaidHeld DEF Keeping, Held
    <3>2. \A b \in Live \cup {c} :
            /\ state'[node'[b].jid] = node'[b].held
            /\ Coming(node'[b].jid) => node'[b].held = Blank
      BY <1>1, <1>2, <1>4, <1>10, <2>2, <3>1
    <3>3. \A b \in Live \cup {c} : Coming(node'[b].jid) <=> Coming(node[b].jid)'
      BY <1>10 DEF Coming
    <3> QED
      BY <1>1, <1>6, <3>2, <3>3 DEF Held
  <2>7. PastKept'
    BY <1>1, <1>2, <1>4, <2>3 DEF Keeping, PastKept
  <2> QED
    BY <1>7, <1>9, <2>4, <2>5, <2>6, <2>7 DEF Keeping
<1>11. CASE /\ jid = ids + 1 /\ ids' = jid
            /\ node'[c].held = Blank
            /\ line.t = "call" /\ line.id = jid /\ line.parent = JidOf(parent)
            /\ buffer' = Append(buffer, line)
  <2>1. /\ Len(buffer) \in Nat /\ Len(buffer') = Len(buffer) + 1
        /\ DOMAIN buffer = 1..Len(buffer) /\ DOMAIN buffer' = 1..(Len(buffer) + 1)
        /\ \A n \in 1..Len(buffer) : buffer'[n] = buffer[n]
        /\ buffer'[Len(buffer) + 1] = line
    BY <1>2, <1>11, Appended
  <2>2. \A i \in Id : Coming(i)' <=> Coming(i) \/ i = jid
    <3>1. \A i \in Id : Coming(i)' <=> Coming(i) \/ IsCall(line, i)
      BY <1>2, <1>11, Appended
    <3> QED
      BY <1>11, <3>1 DEF IsCall
  <2>3. calls[jid] = None /\ state[jid] = Blank
    <3>1. calls[jid] = None
      BY <1>2, <1>8, <1>11 DEF Keeping, Unrecorded, Recorded
    <3> QED
      BY <3>1 DEF Keeping, Unrecorded
  <2>4. JidOf(parent) # 0 =>
          /\ JidOf(parent) \in Id /\ JidOf(parent) < jid
          /\ \/ calls[JidOf(parent)] # None
             \/ \E m \in 1..Len(buffer) : IsCall(buffer[m], JidOf(parent))
    <3> SUFFICES ASSUME JidOf(parent) # 0
                 PROVE  /\ JidOf(parent) \in Id /\ JidOf(parent) < jid
                        /\ \/ calls[JidOf(parent)] # None
                           \/ \E m \in 1..Len(buffer) : IsCall(buffer[m], JidOf(parent))
      OBVIOUS
    <3>1. parent \in Live /\ JidOf(parent) = node[parent].jid
      BY <1>2 DEF JidOf, Live
    <3>2. node[parent].jid <= ids
      BY <3>1 DEF Matching, Ahead
    <3>3. calls[node[parent].jid] # None \/ Coming(node[parent].jid)
      BY <3>1 DEF Keeping, Known
    <3>4. Coming(node[parent].jid) => \E m \in 1..Len(buffer) : IsCall(buffer[m], node[parent].jid)
      BY <2>1 DEF Coming
    <3> QED
      BY <1>4, <1>8, <1>11, <3>1, <3>2, <3>3, <3>4 DEF Id
  <2>5. Lined'
    <3> SUFFICES ASSUME NEW n \in 1..(Len(buffer) + 1), buffer'[n].t = "call"
                 PROVE  /\ buffer'[n].id <= ids'
                        /\ buffer'[n].parent # 0 =>
                             /\ buffer'[n].parent < buffer'[n].id
                             /\ \/ calls[buffer'[n].parent] # None
                                \/ \E m \in 1..(n - 1) : IsCall(buffer'[m], buffer'[n].parent)
      BY <1>2, <2>1 DEF Lined
    <3>1. CASE n = Len(buffer) + 1
      BY <1>11, <1>8, <2>1, <2>4, <3>1
    <3>2. CASE n # Len(buffer) + 1
      <4>1. n \in DOMAIN buffer /\ buffer'[n] = buffer[n]
            /\ \A m \in 1..(n - 1) : buffer'[m] = buffer[m]
        BY <2>1, <3>2
      <4>2. /\ buffer[n].id <= ids
            /\ buffer[n].parent # 0 =>
                 /\ buffer[n].parent < buffer[n].id
                 /\ \/ calls[buffer[n].parent] # None
                    \/ \E m \in 1..(n - 1) : IsCall(buffer[m], buffer[n].parent)
        BY <4>1 DEF Keeping, Lined
      <4>3. buffer[n].id \in Id
        BY <1>2, <4>1 DEF Types, Line, CallLine, SetLine, EndLine
      <4>4. buffer[n].id <= ids'
        BY <1>8, <4>2, <4>3 DEF Id
      <4> QED
        BY <4>1, <4>2, <4>4
    <3> QED
      BY <3>1, <3>2
  <2>6. Sets'
    BY <1>3, <1>11, <2>1 DEF Sets
  <2>7. Known'
    BY <1>1, <1>2, <1>4, <2>2 DEF Keeping, Known
  <2>8. Held'
    <3>1. \A b \in Live : state[node[b].jid] = node[b].held
                          /\ (Coming(node[b].jid) => node[b].held = Blank)
      BY <1>3, <1>4, SaidHeld DEF Keeping, Held
    <3>2. \A b \in Live \cup {c} :
            /\ state'[node'[b].jid] = node'[b].held
            /\ Coming(node[b].jid)' => node'[b].held = Blank
      <4>1. \A b \in Live \cup {c} : node'[b].jid \in Id
        BY <1>1, <1>4
      <4>2. \A b \in Live \cup {c} : Coming(node[b].jid)' => Coming(node'[b].jid) \/ b = c
        BY <1>1, <1>4, <1>5, <2>2
      <4> QED
        BY <1>1, <1>2, <1>4, <1>11, <2>3, <3>1, <4>1, <4>2
    <3> QED
      BY <1>1, <1>6, <3>2 DEF Held
  <2>9. PastKept'
    BY <1>1, <1>2, <1>4, <2>2, <2>3 DEF Keeping, PastKept
  <2> QED
    BY <1>7, <1>9, <2>5, <2>6, <2>7, <2>8, <2>9 DEF Keeping
<1> QED
  BY <1>1, <1>10, <1>11

\* The end of a call is one record more, which no replay heeds.
LEMMA EndKeeping ==
  ASSUME TypeOK, Types', Matching, Keeping, NEW c \in Call, EndFlow(c)
  PROVE  Keeping'
<1> DEFINE line == [t |-> "end", id |-> node[c].jid]
<1>1. /\ Types /\ c \in Live /\ phase = "open" /\ ~flushing
      /\ UNCHANGED <<calls, state, torn, phase, past, ids, flushing, pending>>
      /\ node' = [node EXCEPT ![c].ended = TRUE]
      /\ buffer' = Append(buffer, line)
  BY DEF EndFlow, Taking, TypeOK, disk, Batched
<1>2. pending = None /\ pending' = None /\ \A n \in DOMAIN buffer : buffer[n].t # "set"
  BY <1>1 DEF Keeping, Sets
<1>3. line \in Line /\ line.t = "end"
  BY <1>1, LiveJids DEF Line, EndLine
<1> HIDE DEF line
<1>4. /\ Len(buffer) \in Nat /\ Len(buffer') = Len(buffer) + 1
      /\ DOMAIN buffer = 1..Len(buffer) /\ DOMAIN buffer' = 1..(Len(buffer) + 1)
      /\ \A n \in 1..Len(buffer) : buffer'[n] = buffer[n]
      /\ buffer'[Len(buffer) + 1] = line
  BY <1>1, <1>3, Appended
<1>5. \A i \in Id : Coming(i)' <=> Coming(i)
  <2>1. \A i \in Id : Coming(i)' <=> Coming(i) \/ IsCall(line, i)
    BY <1>1, <1>3, Appended
  <2> QED
    BY <1>3, <2>1 DEF IsCall
<1>6. /\ Live' = Live
      /\ \A b \in Live : node'[b].jid = node[b].jid /\ node'[b].held = node[b].held
  <2>1. node[c] \in Node /\ c \in Call
    BY <1>1, LiveJids
  <2>2. node' = [node EXCEPT ![c] = [node[c] EXCEPT !.ended = TRUE]]
    BY <1>1
  <2>3. [node[c] EXCEPT !.ended = TRUE] \in Node
    BY <2>1 DEF Node
  <2>4. Live' = Live
    BY <1>1, <2>1, <2>2, <2>3, NoneAssumption DEF Live, Types
  <2>5. \A b \in Live : node'[b].jid = node[b].jid /\ node'[b].held = node[b].held
    <3>1. /\ node'[c] = [node[c] EXCEPT !.ended = TRUE]
          /\ \A b \in Live : b # c => node'[b] = node[b]
      BY <1>1, <2>1, <2>2 DEF Live, Types
    <3>2. node'[c].jid = node[c].jid /\ node'[c].held = node[c].held
      BY <2>1, <3>1 DEF Node
    <3> QED
      BY <3>1, <3>2
  <2> QED
    BY <2>4, <2>5
<1>7. Whole' /\ Unrecorded' /\ ParentsRecorded' /\ Quiet'
  BY <1>1 DEF Keeping, Whole, Unrecorded, ParentsRecorded, Recorded, Quiet
<1>8. Lined'
  <2> SUFFICES ASSUME NEW n \in 1..(Len(buffer) + 1), buffer'[n].t = "call"
               PROVE  /\ buffer'[n].id <= ids
                      /\ buffer'[n].parent # 0 =>
                           /\ buffer'[n].parent < buffer'[n].id
                           /\ \/ calls[buffer'[n].parent] # None
                              \/ \E m \in 1..(n - 1) : IsCall(buffer'[m], buffer'[n].parent)
    BY <1>1, <1>4 DEF Lined
  <2>1. n \in DOMAIN buffer /\ buffer'[n] = buffer[n]
        /\ \A m \in 1..(n - 1) : buffer'[m] = buffer[m]
    BY <1>3, <1>4
  <2> QED
    BY <2>1 DEF Keeping, Lined
<1>9. Sets'
  BY <1>2, <1>3, <1>4 DEF Sets
<1>10. Known' /\ PastKept'
  <2>1. \A b \in Live : node[b].jid \in Id
    BY <1>1, LiveJids
  <2>2. Known'
    BY <1>1, <1>5, <1>6, <2>1 DEF Keeping, Known
  <2>3. PastKept'
    BY <1>1, <1>5, <1>6, <2>1 DEF Keeping, PastKept
  <2> QED
    BY <2>2, <2>3
<1>11. Held'
  <2>1. \A b \in Live : /\ state[node[b].jid] = node[b].held
                        /\ Coming(node[b].jid) => node[b].held = Blank
                        /\ node[b].jid \in Id
    BY <1>1, <1>2, SaidHeld, LiveJids DEF Keeping, Held
  <2>2. \A b \in Live : Said(b)' = node'[b].held
    BY <1>2 DEF Said
  <2>3. \A b \in Live : Coming(node[b].jid)' => Coming(node[b].jid)
    BY <1>5, <1>6, <2>1
  <2> QED
    BY <1>1, <1>6, <2>1, <2>2, <2>3 DEF Held
<1> QED
  BY <1>7, <1>8, <1>9, <1>10, <1>11 DEF Keeping

\* A state write is the last record to wait, until it is written.
LEMMA WriteKeeping ==
  ASSUME TypeOK, Types', Matching, Keeping,
         NEW c \in Call, NEW k \in Key, NEW v \in Value \cup {None}, WriteState(c, k, v)
  PROVE  Keeping'
<1> DEFINE line == [t |-> "set", id |-> node[c].jid, key |-> k, value |-> v]
           write == [call |-> c, key |-> k, value |-> v]
<1>1. /\ Types /\ c \in Live /\ phase = "open" /\ ~flushing
      /\ UNCHANGED <<calls, state, torn, phase, past, ids, node>>
      /\ pending' = write /\ flushing' = TRUE
      /\ buffer' = Append(buffer, line)
  BY DEF WriteState, Taking, TypeOK, disk, run
<1>2. pending = None /\ \A n \in DOMAIN buffer : buffer[n].t # "set"
  BY <1>1 DEF Keeping, Sets
<1>3. line \in Line /\ line.t = "set"
  BY <1>1, LiveJids DEF Line, SetLine
<1>4. line = SetOf(pending)'
  BY <1>1 DEF SetOf
<1>5. pending' # None
  BY <1>1, NoneAssumption DEF Write
<1> HIDE DEF line, write
<1>6. /\ Len(buffer) \in Nat /\ Len(buffer') = Len(buffer) + 1
      /\ DOMAIN buffer = 1..Len(buffer) /\ DOMAIN buffer' = 1..(Len(buffer) + 1)
      /\ \A n \in 1..Len(buffer) : buffer'[n] = buffer[n]
      /\ buffer'[Len(buffer) + 1] = line
      /\ buffer' # <<>>
  BY <1>1, <1>3, Appended
<1>7. \A i \in Id : Coming(i)' <=> Coming(i)
  <2>1. \A i \in Id : Coming(i)' <=> Coming(i) \/ IsCall(line, i)
    BY <1>1, <1>3, Appended
  <2> QED
    BY <1>3, <2>1 DEF IsCall
<1>8. Whole' /\ Unrecorded' /\ ParentsRecorded' /\ Quiet'
  BY <1>1 DEF Keeping, Whole, Unrecorded, ParentsRecorded, Recorded, Quiet
<1>9. Lined'
  <2> SUFFICES ASSUME NEW n \in 1..(Len(buffer) + 1), buffer'[n].t = "call"
               PROVE  /\ buffer'[n].id <= ids
                      /\ buffer'[n].parent # 0 =>
                           /\ buffer'[n].parent < buffer'[n].id
                           /\ \/ calls[buffer'[n].parent] # None
                              \/ \E m \in 1..(n - 1) : IsCall(buffer'[m], buffer'[n].parent)
    BY <1>1, <1>6 DEF Lined
  <2>1. n \in DOMAIN buffer /\ buffer'[n] = buffer[n]
        /\ \A m \in 1..(n - 1) : buffer'[m] = buffer[m]
    BY <1>3, <1>6
  <2> QED
    BY <2>1 DEF Keeping, Lined
<1>10. Sets'
  <2>1. buffer'[Len(buffer')] = SetOf(pending)'
    BY <1>4, <1>6
  <2>2. \A n \in DOMAIN buffer' : buffer'[n].t = "set" => n = Len(buffer')
    BY <1>2, <1>6
  <2> QED
    BY <1>1, <1>5, <2>1, <2>2 DEF Sets
<1>11. Live' = Live /\ \A b \in Live : node[b].jid \in Id
  BY <1>1, LiveJids DEF Live
<1>12. Known' /\ PastKept'
  <2>1. Known'
    BY <1>1, <1>7, <1>11 DEF Keeping, Known
  <2>2. PastKept'
    BY <1>1, <1>7, <1>11 DEF Keeping, PastKept
  <2> QED
    BY <2>1, <2>2
<1>13. Held'
  <2>1. \A b \in Live : /\ state[node[b].jid] = node[b].held
                        /\ Coming(node[b].jid) => node[b].held = Blank
    BY <1>2, SaidHeld DEF Keeping, Held, Live
  <2>2. \A b \in Live : Said(b)' = node[b].held
    BY <1>1, <1>6 DEF Said
  <2>3. \A b \in Live : Coming(node[b].jid)' => Coming(node[b].jid)
    BY <1>1, <1>7, <1>11
  <2> QED
    BY <1>1, <1>11, <2>1, <2>2, <2>3 DEF Held
<1> QED
  BY <1>8, <1>9, <1>10, <1>12, <1>13 DEF Keeping

\* A write that returns has been written: what its call holds is what the file says.
LEMMA FlushedKeeping ==
  ASSUME TypeOK, Types', Matching, Keeping, Flushed
  PROVE  Keeping'
<1>1. /\ Types /\ buffer = <<>> /\ buffer' = <<>> /\ pending' = None
      /\ UNCHANGED <<calls, state, torn, phase, past, ids>>
      /\ phase = "open"
      /\ node' = IF pending = None THEN node
                 ELSE [node EXCEPT ![pending.call].held[pending.key] = pending.value]
  BY DEF Flushed, TypeOK, disk
<1>2. /\ Live' = Live
      /\ \A b \in Live : node'[b].jid = node[b].jid /\ node'[b].held = Said(b)
  <2>1. CASE pending = None
    <3>1. Live' = Live
      BY <1>1, <2>1 DEF Live
    <3> QED
      BY <1>1, <2>1, <3>1, SaidHeld DEF Live
  <2>2. CASE pending # None
    <3> DEFINE c == pending.call
               held == [node[c].held EXCEPT ![pending.key] = pending.value]
    <3>1. /\ c \in Call /\ node[c] \in Node
          /\ pending.key \in Key /\ pending.value \in Value \cup {None}
      BY <2>2 DEF TypeOK, Types, PendingLive, Write
    <3>2. held \in State
      BY <3>1 DEF Node, State
    <3>3. node' = [node EXCEPT ![c] = [node[c] EXCEPT !.held = held]]
      BY <1>1, <2>2
    <3>4. \A b \in Live : Said(b) = IF b = c THEN held ELSE node[b].held
      BY <1>1, <2>2 DEF Said
    <3> HIDE DEF held
    <3>5. [node[c] EXCEPT !.held = held] \in Node
      BY <3>1, <3>2 DEF Node
    <3>6. Live' = Live
      <4>1. node \in [Call -> Node \cup {None}] /\ None \notin Node
        BY ONLY <1>1, NoneAssumption DEF Types
      <4>2. node'[c] = [node[c] EXCEPT !.held = held]
            /\ \A b \in Call : b # c => node'[b] = node[b]
        BY ONLY <3>1, <3>3, <4>1
      <4>3. node'[c] # None /\ node[c] # None
        BY ONLY <3>1, <3>5, <4>1, <4>2
      <4> QED
        BY ONLY <4>2, <4>3 DEF Live
    <3>7. \A b \in Live : /\ node'[b].jid = node[b].jid
                          /\ node'[b].held = IF b = c THEN held ELSE node[b].held
      <4>1. /\ node'[c] = [node[c] EXCEPT !.held = held]
            /\ \A b \in Live : b # c => node'[b] = node[b]
        BY <1>1, <3>1, <3>3 DEF Live, Types
      <4>2. node'[c].jid = node[c].jid /\ node'[c].held = held
        BY <3>1, <4>1 DEF Node
      <4> QED
        BY <4>1, <4>2
    <3> QED
      BY <3>4, <3>6, <3>7
  <2> QED
    BY <2>1, <2>2
<1>3. DOMAIN buffer' = {} /\ DOMAIN buffer = {}
  BY <1>1
<1>4. Whole' /\ Unrecorded' /\ ParentsRecorded' /\ Quiet'
  BY <1>1 DEF Keeping, Whole, Unrecorded, ParentsRecorded, Recorded, Quiet
<1>5. Lined' /\ Sets'
  BY <1>1, <1>3 DEF Lined, Sets
<1>6. \A i : ~Coming(i) /\ ~Coming(i)'
  BY <1>3 DEF Coming
<1>7. Known' /\ PastKept'
  BY <1>1, <1>2, <1>6 DEF Keeping, Known, PastKept
<1>8. Held'
  <2>1. \A b \in Live : Said(b)' = node'[b].held
    BY <1>1 DEF Said
  <2> QED
    BY <1>1, <1>2, <1>6, <2>1 DEF Keeping, Held
<1> QED
  BY <1>4, <1>5, <1>7, <1>8 DEF Keeping

\* A record written is what a replay makes of it.
LEMMA LineKeeping ==
  ASSUME TypeOK, Types', Matching, Keeping, WriteLine
  PROVE  Keeping'
<1> USE JournalAssumption
<1> DEFINE line == Head(buffer)
<1>1. /\ Types /\ buffer # <<>> /\ buffer' = Tail(buffer) /\ phase = "open" /\ ~torn
      /\ UNCHANGED <<phase, past, ids, node, flushing, pending>>
      /\ torn' = FALSE
      /\ Replayed(line)
  BY DEF WriteLine, TypeOK, run, Keeping, Whole
<1>2. /\ Len(buffer) \in Nat \ {0} /\ Len(buffer') = Len(buffer) - 1
      /\ DOMAIN buffer = 1..Len(buffer) /\ DOMAIN buffer' = 1..(Len(buffer) - 1)
      /\ \A n \in 1..(Len(buffer) - 1) : buffer'[n] = buffer[n + 1]
      /\ line = buffer[1] /\ line \in Line
      /\ buffer' = <<>> <=> Len(buffer) = 1
  BY <1>1, Tailed
<1>3. \A i \in Id : Coming(i) <=> Coming(i)' \/ IsCall(line, i)
  BY <1>1, Tailed
<1>4. line.id \in Id
  BY <1>2 DEF Line, CallLine, SetLine, EndLine
<1>5. /\ Live' = Live
      /\ \A b \in Live : node'[b] = node[b] /\ node[b].jid \in Id
  BY <1>1, LiveJids DEF Live
<1>6. Whole' /\ Quiet'
  BY <1>1 DEF Whole, Quiet
<1>7. Sets'
  <2>1. SetOf(pending)' = SetOf(pending)
    BY <1>1 DEF SetOf
  <2>2. pending' # None => flushing'
    BY <1>1 DEF Keeping, Sets
  <2>3. ASSUME pending' # None, buffer' # <<>>
        PROVE  buffer'[Len(buffer')] = SetOf(pending)'
    <3>1. Len(buffer) - 1 \in 1..(Len(buffer) - 1)
      BY <1>2, <2>3
    <3>2. buffer'[Len(buffer')] = buffer[Len(buffer)]
      BY <1>2, <3>1
    <3> QED
      BY <1>1, <2>1, <2>3, <3>2 DEF Keeping, Sets
  <2>4. ASSUME NEW n \in DOMAIN buffer', buffer'[n].t = "set"
        PROVE  pending' # None /\ n = Len(buffer')
    <3>1. n + 1 \in DOMAIN buffer /\ buffer[n + 1].t = "set"
      BY <1>2, <2>4
    <3>2. pending # None /\ n + 1 = Len(buffer)
      BY <3>1 DEF Keeping, Sets
    <3> QED
      BY <1>1, <1>2, <3>2
  <2> QED
    BY <2>2, <2>3, <2>4 DEF Sets
<1>8. ASSUME line.t # "set"
      PROVE  \A b \in Live : Said(b)' = Said(b)
  <2>1. pending # None => buffer' # <<>>
    <3>1. pending # None => buffer[Len(buffer)].t = "set"
      BY <1>1 DEF Keeping, Sets, SetOf
    <3> QED
      BY <1>2, <1>8, <3>1
  <2> QED
    BY <1>1, <1>5, <2>1 DEF Said
<1>9. CASE line.t = "call"
  <2> DEFINE i == line.id
             kept == [parent |-> line.parent, digest |-> line.digest, seq |-> line.seq]
  <2>1. line \in CallLine
    BY <1>2, <1>9 DEF Line, SetLine, EndLine
  <2>2. kept \in Kept
    BY <2>1 DEF CallLine, Kept
  <2>3. /\ calls' = [calls EXCEPT ![i] = kept]
        /\ state' = [state EXCEPT ![i] = Blank]
    BY <1>1, <1>9 DEF Replayed
  <2>4. /\ i \in Id /\ line.parent \in Id \cup {0} /\ kept.parent = line.parent
        /\ Coming(i)
    BY <1>3, <1>9, <2>1 DEF CallLine, IsCall
  <2>5. /\ i <= ids
        /\ line.parent # 0 => line.parent < i /\ calls[line.parent] # None
    <3>1. 1 \in DOMAIN buffer /\ buffer[1] = line
      BY <1>2
    <3>2. ~\E m \in 1..(1 - 1) : TRUE
      OBVIOUS
    <3> QED
      BY <1>9, <3>1, <3>2 DEF Keeping, Lined
  <2> HIDE DEF kept
  <2>6. calls'[i] = kept /\ calls'[i] # None /\ \A j \in Id : j # i => calls'[j] = calls[j]
    BY <1>1, <2>2, <2>3, <2>4, NoneAssumption DEF Types
  <2>7. state'[i] = Blank /\ \A j \in Id : j # i => state'[j] = state[j]
    BY <1>1, <2>3, <2>4 DEF Types
  <2>8. \A j \in Id : Coming(j) => Coming(j)' \/ j = i
    BY <1>3 DEF IsCall
  <2> HIDE DEF i
  <2>9. Unrecorded'
    <3>1. \A j \in Id : calls'[j] = None => state'[j] = Blank
      BY <2>6, <2>7 DEF Keeping, Unrecorded
    <3>2. \A j \in Recorded' : j <= ids
      BY <1>1, <2>4, <2>5, <2>6 DEF Keeping, Unrecorded, Recorded
    <3> QED
      BY <1>1, <3>1, <3>2 DEF Unrecorded
  <2>10. ParentsRecorded'
    <3> SUFFICES ASSUME NEW j \in Id, calls'[j] # None, calls'[j].parent # 0
                 PROVE  calls'[j].parent < j /\ calls'[calls'[j].parent] # None
      BY DEF ParentsRecorded, Recorded
    <3>1. CASE j = i
      BY <2>4, <2>5, <2>6, <3>1
    <3>2. CASE j # i
      <4>1. calls[j] # None /\ calls'[j] = calls[j] /\ calls[j] \in Kept
        BY <1>1, <2>6, <3>2 DEF Types
      <4>2. calls[j].parent < j /\ calls[calls[j].parent] # None
        BY <4>1 DEF Keeping, ParentsRecorded, Recorded
      <4>3. calls[j].parent \in Id
        BY <4>1 DEF Kept
      <4> QED
        BY <2>6, <4>1, <4>2, <4>3
    <3> QED
      BY <3>1, <3>2
  <2>11. Lined'
    <3> SUFFICES ASSUME NEW n \in 1..(Len(buffer) - 1), buffer'[n].t = "call"
                 PROVE  /\ buffer'[n].id <= ids
                        /\ buffer'[n].parent # 0 =>
                             /\ buffer'[n].parent < buffer'[n].id
                             /\ \/ calls'[buffer'[n].parent] # None
                                \/ \E m \in 1..(n - 1) : IsCall(buffer'[m], buffer'[n].parent)
      BY <1>1, <1>2 DEF Lined
    <3> DEFINE next == buffer[n + 1]
    <3>1. n + 1 \in DOMAIN buffer /\ buffer'[n] = next
      BY <1>2
    <3>2. next \in CallLine
      <4>1. next \in Line /\ next.t = "call"
        BY <1>1, <3>1 DEF Types
      <4> QED
        BY <4>1 DEF Line, SetLine, EndLine
    <3>3. /\ next.id <= ids
          /\ next.parent # 0 =>
               /\ next.parent < next.id
               /\ \/ calls[next.parent] # None
                  \/ \E m \in 1..n : IsCall(buffer[m], next.parent)
      <4>1. n + 1 - 1 = n
        OBVIOUS
      <4> QED
        BY <3>1, <4>1 DEF Keeping, Lined
    <3> HIDE DEF next
    <3>4. ASSUME next.parent # 0, NEW m \in 1..n, IsCall(buffer[m], next.parent)
          PROVE  \/ calls'[next.parent] # None
                 \/ \E k \in 1..(n - 1) : IsCall(buffer'[k], next.parent)
      <4>1. CASE m = 1
        BY <1>2, <2>6, <3>4, <4>1 DEF IsCall, i
      <4>2. CASE m # 1
        <5>1. m - 1 \in 1..(n - 1) /\ buffer'[m - 1] = buffer[m]
          BY <1>2, <4>2
        <5> QED
          BY <3>4, <5>1
      <4> QED
        BY <4>1, <4>2
    <3>5. next.parent # 0 /\ calls[next.parent] # None => calls'[next.parent] # None
      <4>1. next.parent \in Id \cup {0}
        BY <3>2 DEF CallLine
      <4> QED
        BY <2>6, <4>1
    <3> QED
      BY <3>1, <3>3, <3>4, <3>5
  <2>12. Known'
    BY <1>5, <2>6, <2>8 DEF Keeping, Known
  <2>13. Held'
    <3>1. ASSUME NEW b \in Live
          PROVE  /\ state'[node'[b].jid] = Said(b)'
                 /\ Coming(node[b].jid)' => node'[b].held = Blank
      <4>1. /\ state[node[b].jid] = Said(b)
            /\ Coming(node[b].jid) => node[b].held = Blank
            /\ Said(b)' = Said(b)
            /\ node[b].jid \in Id /\ node'[b] = node[b]
        BY <1>5, <1>8, <1>9 DEF Keeping, Held
      <4>2. Coming(node[b].jid)' => node'[b].held = Blank
        BY <1>3, <4>1
      <4>3. CASE node[b].jid # i
        BY <2>7, <4>1, <4>2, <4>3
      <4>4. CASE node[b].jid = i
        <5>1. node[b].held = Blank
          BY <2>4, <4>1, <4>4
        <5>2. pending = None \/ buffer # <<>>
          BY <1>1
        <5>3. Said(b) = node[b].held
          BY <5>2 DEF Said
        <5> QED
          BY <2>7, <4>1, <4>2, <4>4, <5>1, <5>3
      <4> QED
        BY <4>3, <4>4
    <3> QED
      BY <1>5, <3>1 DEF Held
  <2>14. PastKept'
    <3> SUFFICES ASSUME NEW j \in Id, past.calls[j] # None
                 PROVE  /\ calls'[j] # None /\ ~Coming(j)'
                        /\ (\A b \in Live : node[b].jid # j) => state'[j] = past.state[j]
      BY <1>1, <1>5 DEF PastKept
    <3>1. /\ calls[j] # None /\ ~Coming(j)
          /\ (\A b \in Live : node[b].jid # j) => state[j] = past.state[j]
      BY DEF Keeping, PastKept
    <3>2. j # i
      BY <2>4, <3>1
    <3> QED
      BY <1>3, <2>6, <2>7, <3>1, <3>2
  <2> QED
    BY <1>6, <1>7, <2>9, <2>10, <2>11, <2>12, <2>13, <2>14 DEF Keeping
<1>10. ASSUME line.t # "call"
       PROVE  /\ UNCHANGED calls
              /\ \A i \in Id : Coming(i)' <=> Coming(i)
              /\ ParentsRecorded' /\ Lined' /\ Known'
  <2>1. UNCHANGED calls
    BY <1>1, <1>10 DEF Replayed
  <2>2. \A i \in Id : Coming(i)' <=> Coming(i)
    BY <1>3, <1>10 DEF IsCall
  <2>3. ParentsRecorded' /\ Known'
    BY <1>5, <2>1, <2>2 DEF Keeping, ParentsRecorded, Recorded, Known
  <2>4. Lined'
    <3> SUFFICES ASSUME NEW n \in 1..(Len(buffer) - 1), buffer'[n].t = "call"
                 PROVE  /\ buffer'[n].id <= ids
                        /\ buffer'[n].parent # 0 =>
                             /\ buffer'[n].parent < buffer'[n].id
                             /\ \/ calls[buffer'[n].parent] # None
                                \/ \E m \in 1..(n - 1) : IsCall(buffer'[m], buffer'[n].parent)
      BY <1>1, <1>2, <2>1 DEF Lined
    <3> DEFINE next == buffer[n + 1]
    <3>1. n + 1 \in DOMAIN buffer /\ buffer'[n] = next
      BY <1>2
    <3>2. /\ next.id <= ids
          /\ next.parent # 0 =>
               /\ next.parent < next.id
               /\ \/ calls[next.parent] # None
                  \/ \E m \in 1..n : IsCall(buffer[m], next.parent)
      <4>1. n + 1 - 1 = n
        OBVIOUS
      <4> QED
        BY <3>1, <4>1 DEF Keeping, Lined
    <3> HIDE DEF next
    <3>3. ASSUME NEW m \in 1..n, IsCall(buffer[m], next.parent)
          PROVE  \E k \in 1..(n - 1) : IsCall(buffer'[k], next.parent)
      <4>1. m # 1
        BY <1>2, <1>10, <3>3 DEF IsCall
      <4>2. m - 1 \in 1..(n - 1) /\ buffer'[m - 1] = buffer[m]
        BY <1>2, <4>1
      <4> QED
        BY <3>3, <4>2
    <3> QED
      BY <3>1, <3>2, <3>3
  <2> QED
    BY <2>1, <2>2, <2>3, <2>4
<1>11. CASE line.t = "set"
  <2> DEFINE c == pending.call
  <2>1. pending # None /\ Len(buffer) = 1 /\ line = SetOf(pending)
    <3>1. 1 \in DOMAIN buffer /\ buffer[1].t = "set"
      BY <1>2, <1>11
    <3>2. pending # None /\ Len(buffer) = 1
      BY <3>1 DEF Keeping, Sets
    <3> QED
      BY <1>1, <1>2, <3>2 DEF Keeping, Sets
  <2>2. /\ c \in Live /\ line.id = node[c].jid
        /\ line.key = pending.key /\ line.value = pending.value
    BY <2>1 DEF TypeOK, Types, PendingLive, Write, SetOf, Live
  <2>3. buffer' = <<>>
    BY <1>2, <2>1
  <2>4. \A i \in Id : ~Coming(i)' /\ ~Coming(i)
    <3>1. \A i \in Id : ~Coming(i)'
      BY <2>3 DEF Coming
    <3> QED
      BY <1>10, <1>11, <3>1
  <2>5. calls[line.id] # None
    BY <1>5, <2>2, <2>4 DEF Keeping, Known
  <2>6. state' = [state EXCEPT ![line.id][line.key] = line.value]
    BY <1>1, <1>11, <2>5 DEF Replayed
  <2>7. /\ state'[line.id] = [state[line.id] EXCEPT ![line.key] = line.value]
        /\ \A j \in Id : j # line.id => state'[j] = state[j]
    BY <1>1, <1>4, <2>6 DEF Types
  <2>8. Unrecorded'
    <3>1. \A i \in Id : calls'[i] = None => state'[i] = Blank
      BY <1>10, <1>11, <2>5, <2>7 DEF Keeping, Unrecorded
    <3> QED
      BY <1>1, <1>10, <1>11, <3>1 DEF Keeping, Unrecorded, Recorded
  <2>9. Held'
    <3>1. \A b \in Live : state[node[b].jid] = node[b].held
      BY <1>1 DEF Keeping, Held, Said
    <3>2. \A b \in Live : b # c => node[b].jid # line.id
      BY <2>2 DEF Matching, JidsDistinct
    <3>3. \A b \in Live : Said(b)' = IF b = c
             THEN [node[b].held EXCEPT ![pending.key] = pending.value] ELSE node[b].held
      BY <1>1, <2>1, <2>3 DEF Said
    <3>4. \A b \in Live : state'[node[b].jid] = Said(b)'
      BY <1>5, <2>2, <2>7, <3>1, <3>2, <3>3
    <3> QED
      BY <1>1, <1>5, <2>4, <3>4 DEF Held
  <2>10. PastKept'
    <3> SUFFICES ASSUME NEW j \in Id, past.calls[j] # None
                 PROVE  /\ calls'[j] # None /\ ~Coming(j)'
                        /\ (\A b \in Live : node[b].jid # j) => state'[j] = past.state[j]
      BY <1>1, <1>5 DEF PastKept
    <3> QED
      BY <1>10, <1>11, <2>2, <2>4, <2>7 DEF Keeping, PastKept
  <2> QED
    BY <1>6, <1>7, <1>10, <1>11, <2>8, <2>9, <2>10 DEF Keeping
<1>12. CASE line.t # "call" /\ line.t # "set"
  <2>1. UNCHANGED <<calls, state>>
    BY <1>1, <1>12 DEF Replayed
  <2>2. Unrecorded'
    BY <1>1, <2>1 DEF Keeping, Unrecorded, Recorded
  <2>3. Held'
    <3>1. \A b \in Live : /\ state[node[b].jid] = Said(b)
                          /\ Coming(node[b].jid) => node[b].held = Blank
      BY DEF Keeping, Held
    <3>2. \A b \in Live : Coming(node[b].jid)' => Coming(node[b].jid)
      BY <1>5, <1>10, <1>12
    <3> QED
      BY <1>5, <1>8, <1>12, <2>1, <3>1, <3>2 DEF Held
  <2>4. PastKept'
    <3> SUFFICES ASSUME NEW j \in Id, past.calls[j] # None
                 PROVE  /\ calls'[j] # None /\ ~Coming(j)'
                        /\ (\A b \in Live : node[b].jid # j) => state'[j] = past.state[j]
      BY <1>1, <1>5 DEF PastKept
    <3> QED
      BY <1>10, <1>12, <2>1 DEF Keeping, PastKept
  <2> QED
    BY <1>6, <1>7, <1>10, <1>12, <2>2, <2>3, <2>4 DEF Keeping
<1> QED
  BY <1>9, <1>11, <1>12

\* Once a write is refused it stays so: a run none was refused in was one all along.
LEMMA Unrefused ==
  TypeOK /\ [Next]_vars => (faults' = 0 => faults = 0 /\ ~WriteFails)
<1> SUFFICES ASSUME Types, [Next]_vars, faults' = 0
             PROVE  faults = 0 /\ ~WriteFails
  BY DEF TypeOK
<1>1. ~WriteFails
  <2>1. faults \in Nat
    BY JournalAssumption DEF Types
  <2>2. WriteFails => faults' = faults + 1
    BY DEF WriteFails
  <2> QED
    BY <2>1, <2>2
<1>2. UNCHANGED faults
  <2>1. CASE OpenFresh \/ OpenResumed
    BY ONLY <2>1 DEF OpenFresh, OpenResumed, Opening
  <2>2. ASSUME NEW c \in Call, NEW parent \in Call \cup {Top}, NEW d \in Digest,
               CallFlow(c, parent, d)
        PROVE  UNCHANGED faults
    BY ONLY <2>2, Zenon DEF CallFlow
  <2>3. ASSUME NEW c \in Call, EndFlow(c)
        PROVE  UNCHANGED faults
    BY ONLY <2>3, Zenon DEF EndFlow
  <2>4. ASSUME NEW c \in Call, NEW k \in Key, NEW v \in Value \cup {None}, WriteState(c, k, v)
        PROVE  UNCHANGED faults
    BY ONLY <2>4, Zenon DEF WriteState
  <2>5. CASE TimerFires
    BY ONLY <2>5, Zenon DEF TimerFires
  <2>6. CASE WriteLine
    BY ONLY <2>6, Zenon DEF WriteLine
  <2>7. CASE Flushed
    BY ONLY <2>7, Zenon DEF Flushed
  <2>8. CASE Close
    BY ONLY <2>8, Zenon DEF Close
  <2>9. CASE Gone
    BY ONLY <2>9, Zenon DEF Gone
  <2>10. CASE UNCHANGED vars
    BY ONLY <2>10 DEF vars
  <2> QED
    BY <1>1, <2>1, <2>2, <2>3, <2>4, <2>5, <2>6, <2>7, <2>8, <2>9, <2>10 DEF Next
<1> QED
  BY <1>1, <1>2

LEMMA NextKeeping ==
  ASSUME TypeOK, Types', Matching, JidsDistinct', Keeping, [Next]_vars, ~WriteFails
  PROVE  Keeping'
<1>1. CASE OpenFresh \/ OpenResumed
  BY <1>1, OpenKeeping DEF TypeOK
<1>2. ASSUME NEW c \in Call, NEW parent \in Call \cup {Top}, NEW d \in Digest,
             CallFlow(c, parent, d)
      PROVE  Keeping'
  BY <1>2, CallKeeping
<1>3. ASSUME NEW c \in Call, EndFlow(c)
      PROVE  Keeping'
  BY <1>3, EndKeeping
<1>4. ASSUME NEW c \in Call, NEW k \in Key, NEW v \in Value \cup {None}, WriteState(c, k, v)
      PROVE  Keeping'
  BY <1>4, WriteKeeping
<1>5. CASE WriteLine
  BY <1>5, LineKeeping
<1>6. CASE Flushed
  BY <1>6, FlushedKeeping
<1>7. CASE Gone
  BY <1>7, GoneKeeping
<1>8. CASE TimerFires \/ Close \/ UNCHANGED vars
  <2>1. /\ UNCHANGED <<calls, state, torn, past, ids, node, buffer, pending>>
        /\ flushing => flushing'
        /\ phase' = "down" <=> phase = "down"
    BY <1>8 DEF TimerFires, Close, vars, disk, run, journal
  <2>2. Live' = Live /\ \A i : Coming(i)' <=> Coming(i)
    BY <2>1 DEF Live, Coming
  <2>3. Whole' /\ Unrecorded' /\ ParentsRecorded' /\ Quiet'
    BY <2>1 DEF Keeping, Whole, Unrecorded, ParentsRecorded, Recorded, Quiet
  <2>4. Lined' /\ Sets'
    BY <2>1 DEF Keeping, Lined, Sets, SetOf
  <2>5. Known' /\ PastKept'
    BY <2>1, <2>2 DEF Keeping, Known, PastKept
  <2>6. Held'
    <3>1. \A b \in Live : Said(b)' = Said(b)
      BY <2>1 DEF Said
    <3>2. \A b \in Live : Coming(node[b].jid)' => Coming(node[b].jid)
      BY <2>1 DEF Coming
    <3> QED
      BY <2>1, <2>2, <3>1, <3>2 DEF Keeping, Held
  <2> QED
    BY <2>3, <2>4, <2>5, <2>6 DEF Keeping
<1> QED
  BY <1>1, <1>2, <1>3, <1>4, <1>5, <1>6, <1>7, <1>8 DEF Next


LEMMA KeepingAlways == Spec => [](TypeOK /\ Matching /\ (faults = 0 => Keeping))
<1>1. Init => TypeOK /\ Matching /\ (faults = 0 => Keeping)
  BY InitType, InitMatching, InitKeeping DEF TypeOK
<1>2. TypeOK /\ Matching /\ (faults = 0 => Keeping) /\ [Next]_vars
        => (TypeOK /\ Matching /\ (faults = 0 => Keeping))'
  <2> SUFFICES ASSUME TypeOK, Matching, faults = 0 => Keeping, [Next]_vars
               PROVE  TypeOK' /\ Matching' /\ (faults' = 0 => Keeping')
    OBVIOUS
  <2>1. TypeOK' /\ Types'
    BY NextTypes, NextPending DEF TypeOK
  <2>2. Matching' /\ JidsDistinct'
    BY NextMatching DEF Matching
  <2>3. faults' = 0 => Keeping'
    BY <2>1, <2>2, Unrefused, NextKeeping
  <2> QED
    BY <2>1, <2>2, <2>3
<1> QED
  BY <1>1, <1>2, PTL DEF Spec

\* While no write was refused, what a run killed now would leave is the state every call
\* holds: a write is in the file before it is held, whatever was made, gathered or picked up
\* in between (FlowStateImpl.__setitem__, Journal.flush).
THEOREM Durability == Spec => []StateDurable
<1>1. TypeOK /\ (faults = 0 => Keeping) => StateDurable
  <2> SUFFICES ASSUME Keeping, NEW c \in Live, pending = None
               PROVE  state[node[c].jid] = node[c].held
    BY DEF StateDurable, StateKept
  <2> QED
    BY DEF Keeping, Held, Said
<1> QED
  BY <1>1, KeepingAlways, PTL

\* While no write was refused, no kill leaves a call in the file without the call it was made
\* under, and one with a lower id: a resumed run reaches every record (Journal._batched).
THEOREM Reachability == Spec => []ParentFirst
<1>1. (faults = 0 => Keeping) => ParentFirst
  BY DEF Keeping, ParentsRecorded, ParentFirst
<1> QED
  BY <1>1, KeepingAlways, PTL

-----------------------------------------------------------------------------
(***************************************************************************)
(* What belongs to which call (NoneAdopted), whatever writes were refused. *)
(* Ids grow downwards, in the file and in what waits, so that nothing in   *)
(* the file is under an id a process has yet to give out; and what is      *)
(* under one it gave out, it made there.                                   *)
(***************************************************************************)

\* A call is recorded, and its record waits, under an id above that of the call it was made
\* under, and no process gives out an id that is recorded or waits.
Orderly ==
  /\ \A i \in Recorded : calls[i].parent < i
  /\ phase # "down" => \A i \in Recorded : i <= ids
  /\ phase = "down" => buffer = <<>>
  /\ \A n \in DOMAIN buffer : buffer[n].t = "call" =>
       buffer[n].parent < buffer[n].id /\ buffer[n].id <= ids

\* The call of id `i` was made by this run, under `c`.
Child(c, i) == \E b \in Live : node[b].jid = i /\ node[b].parent = c

\* What waits to be written under a call that started afresh was made under it.
NoneAwaited ==
  \A c \in Live, n \in DOMAIN buffer :
    buffer[n].t = "call" /\ buffer[n].parent = node[c].jid /\ node[c].old = 0 =>
      Child(c, buffer[n].id)

Belonging == Orderly /\ NoneAdopted /\ NoneAwaited

LEMMA InitBelonging == Init => Belonging
<1> SUFFICES ASSUME Init PROVE Belonging
  OBVIOUS
<1>1. Live = {} /\ DOMAIN buffer = {} /\ Recorded = {} /\ buffer = <<>>
  BY DEF Init, Live, Recorded
<1> QED
  BY <1>1 DEF Belonging, Orderly, NoneAdopted, NoneAwaited

\* What is the same in the file and in the run, and no record the more, says no more.
LEMMA SameBelonging ==
  ASSUME Types, Belonging, UNCHANGED <<calls, ids>>, Live' = Live,
         phase # "down" => phase' # "down",
         phase' = "down" => buffer' = <<>>,
         \A n \in DOMAIN buffer' : buffer'[n].t = "call" =>
           n \in DOMAIN buffer /\ buffer'[n] = buffer[n],
         \A c \in Live : /\ node'[c].parent = node[c].parent
                         /\ node'[c].jid = node[c].jid
                         /\ node'[c].old = node[c].old,
         phase = "down" => phase' = "down"
  PROVE  Belonging'
<1>1. Recorded' = Recorded
  BY DEF Recorded
<1>2. Orderly'
  BY <1>1 DEF Belonging, Orderly
<1>3. \A c, i : Child(c, i)' <=> Child(c, i)
  BY DEF Child
<1>4. NoneAwaited'
  <2> SUFFICES ASSUME NEW c \in Live, NEW n \in DOMAIN buffer', buffer'[n].t = "call",
                      buffer'[n].parent = node[c].jid, node[c].old = 0
               PROVE  \E b \in Live : node'[b].jid = buffer'[n].id /\ node'[b].parent = c
    BY DEF NoneAwaited, Child
  <2>1. n \in DOMAIN buffer /\ buffer'[n] = buffer[n]
    OBVIOUS
  <2>2. Child(c, buffer[n].id)
    BY <2>1 DEF Belonging, NoneAwaited
  <2>3. \E b \in Live : node[b].jid = buffer[n].id /\ node[b].parent = c
    BY <2>2 DEF Child
  <2> QED
    BY <2>1, <2>3
<1>5. NoneAdopted'
  BY <1>1 DEF Belonging, NoneAdopted
<1> QED
  BY <1>2, <1>4, <1>5 DEF Belonging

LEMMA CallBelonging ==
  ASSUME TypeOK, Matching, JidsDistinct', Belonging,
         NEW c \in Call, NEW parent \in Call \cup {Top}, NEW d \in Digest,
         CallFlow(c, parent, d)
  PROVE  Belonging'
<1> USE JournalAssumption
<1>1. PICK jid \in Id, line \in Line :
        /\ c \notin Live /\ Live' = Live \cup {c}
        /\ \A b \in Live : node'[b] = node[b]
        /\ node'[c].jid = jid /\ node'[c].parent = parent
        /\ \/ /\ node'[c].old = jid
              /\ UNCHANGED <<ids, buffer>>
           \/ /\ jid = ids + 1 /\ ids' = jid
              /\ line.t = "call" /\ line.id = jid /\ line.parent = JidOf(parent)
              /\ buffer' = Append(buffer, line)
  BY CallMade
<1>2. /\ Types /\ phase = "open"
      /\ UNCHANGED <<calls, phase>>
      /\ parent = Top \/ parent \in Live
  BY DEF CallFlow, Taking, TypeOK, disk
<1>3. Recorded' = Recorded
  BY <1>2 DEF Recorded
<1>4. \A b \in Live : node'[b] = node[b] /\ node[b].jid \in Id
  BY <1>1, <1>2, LiveJids
<1>5. ids \in Nat /\ ids' \in Nat /\ ids <= ids'
  BY <1>1, <1>2 DEF Types, Id
<1>6. \A n \in DOMAIN buffer : buffer[n].id \in Id
  BY <1>2 DEF Types, Line, CallLine, SetLine, EndLine
<1>7. \A b \in Live, i \in Id : Child(b, i) => Child(b, i)'
  BY <1>1, <1>4 DEF Child
<1>8. \A i \in Recorded : calls[i].parent < i /\ i <= ids /\ calls[i].parent \in Nat
  <2>1. \A i \in Recorded : calls[i] \in Kept
    BY <1>2 DEF Types, Recorded
  <2> QED
    BY <1>2, <2>1 DEF Belonging, Orderly, Kept, Id
<1>9. CASE node'[c].old = jid /\ UNCHANGED <<ids, buffer>>
  <2>1. Orderly'
    BY <1>2, <1>3, <1>9 DEF Belonging, Orderly
  <2>2. node'[c].old # 0
    BY <1>9 DEF Id
  <2>3. NoneAdopted'
    BY <1>1, <1>2, <1>3, <1>4, <2>2 DEF Belonging, NoneAdopted
  <2>4. NoneAwaited'
    <3> SUFFICES ASSUME NEW b \in Live \cup {c}, NEW n \in DOMAIN buffer, buffer[n].t = "call",
                        buffer[n].parent = node'[b].jid, node'[b].old = 0
                 PROVE  \E e \in Live' : node'[e].jid = buffer[n].id /\ node'[e].parent = b
      BY <1>1, <1>9 DEF NoneAwaited, Child
    <3>1. b \in Live
      BY <2>2
    <3>2. Child(b, buffer[n].id)
      BY <1>4, <3>1 DEF Belonging, NoneAwaited
    <3>3. PICK e \in Live : node[e].jid = buffer[n].id /\ node[e].parent = b
      BY <3>2 DEF Child
    <3> QED
      BY <1>1, <1>4, <3>3
  <2> QED
    BY <2>1, <2>3, <2>4 DEF Belonging
<1>10. CASE /\ jid = ids + 1 /\ ids' = jid
            /\ line.t = "call" /\ line.id = jid /\ line.parent = JidOf(parent)
            /\ buffer' = Append(buffer, line)
  <2>1. /\ Len(buffer) \in Nat
        /\ DOMAIN buffer = 1..Len(buffer) /\ DOMAIN buffer' = 1..(Len(buffer) + 1)
        /\ \A n \in 1..Len(buffer) : buffer'[n] = buffer[n]
        /\ buffer'[Len(buffer) + 1] = line
    BY <1>2, <1>10, Appended
  <2>2. JidOf(parent) \in Nat /\ JidOf(parent) <= ids
    <3>1. CASE parent = Top
      BY <1>5, <3>1 DEF JidOf
    <3>2. CASE parent # Top
      BY <1>2, <1>4, <3>2 DEF JidOf, Matching, Ahead, Id
    <3> QED
      BY <3>1, <3>2
  <2>3. \A n \in DOMAIN buffer : buffer[n].t = "call" =>
           buffer[n].parent < buffer[n].id /\ buffer[n].id <= ids /\ buffer[n].parent \in Nat
    <3>1. \A n \in DOMAIN buffer : buffer[n].t = "call" => buffer[n] \in CallLine
      BY <1>2 DEF Types, Line, SetLine, EndLine
    <3> QED
      BY <3>1 DEF Belonging, Orderly, CallLine, Id
  <2>4. Orderly'
    <3>1. \A n \in DOMAIN buffer' : buffer'[n].t = "call" =>
            buffer'[n].parent < buffer'[n].id /\ buffer'[n].id <= ids'
      <4> SUFFICES ASSUME NEW n \in 1..(Len(buffer) + 1), buffer'[n].t = "call"
                   PROVE  buffer'[n].parent < buffer'[n].id /\ buffer'[n].id <= ids'
        BY <2>1
      <4>1. CASE n = Len(buffer) + 1
        BY <1>5, <1>10, <2>1, <2>2, <4>1
      <4>2. CASE n # Len(buffer) + 1
        <5>1. n \in DOMAIN buffer /\ buffer'[n] = buffer[n]
          BY <2>1, <4>2
        <5> QED
          BY <1>5, <1>6, <2>3, <5>1 DEF Id
      <4> QED
        BY <4>1, <4>2
    <3>2. \A i \in Recorded : i <= ids'
      BY <1>5, <1>8 DEF Recorded, Id
    <3> QED
      BY <1>2, <1>3, <3>1, <3>2 DEF Belonging, Orderly
  <2>5. NoneAdopted'
    <3> SUFFICES ASSUME NEW b \in Live \cup {c}, NEW i \in Recorded,
                        calls[i].parent = node'[b].jid, node'[b].old = 0
                 PROVE  \E e \in Live' : node'[e].jid = i /\ node'[e].parent = b
      BY <1>1, <1>2, <1>3 DEF NoneAdopted
    <3>1. b # c
      BY <1>1, <1>5, <1>8, <1>10 DEF Recorded, Id
    <3>2. PICK e \in Live : node[e].jid = i /\ node[e].parent = b
      BY <1>4, <3>1 DEF Belonging, NoneAdopted
    <3> QED
      BY <1>1, <1>4, <3>2
  <2>6. NoneAwaited'
    <3> SUFFICES ASSUME NEW b \in Live \cup {c}, NEW n \in 1..(Len(buffer) + 1),
                        buffer'[n].t = "call",
                        buffer'[n].parent = node'[b].jid, node'[b].old = 0
                 PROVE  \E e \in Live' : node'[e].jid = buffer'[n].id /\ node'[e].parent = b
      BY <1>1, <2>1 DEF NoneAwaited, Child
    <3>1. CASE n = Len(buffer) + 1
      <4>1. JidOf(parent) = node'[b].jid
        BY <1>10, <2>1, <3>1
      <4>2. parent # Top
        BY <1>1, <1>4, <4>1 DEF JidOf, Id
      <4>3. parent \in Live /\ node'[parent].jid = node'[b].jid
        BY <1>2, <1>4, <4>1, <4>2 DEF JidOf
      <4>4. b = parent
        BY <1>1, <4>3 DEF JidsDistinct
      <4> QED
        BY <1>1, <1>10, <2>1, <3>1, <4>4
    <3>2. CASE n # Len(buffer) + 1
      <4>1. n \in DOMAIN buffer /\ buffer'[n] = buffer[n]
        BY <2>1, <3>2
      <4>2. b # c
        BY <1>1, <1>6, <1>5, <1>10, <2>3, <4>1 DEF Id
      <4>3. PICK e \in Live : node[e].jid = buffer[n].id /\ node[e].parent = b
        BY <1>4, <4>1, <4>2 DEF Belonging, NoneAwaited, Child
      <4> QED
        BY <1>1, <1>4, <4>1, <4>3
    <3> QED
      BY <3>1, <3>2
  <2> QED
    BY <2>4, <2>5, <2>6 DEF Belonging
<1> QED
  BY <1>1, <1>9, <1>10

\* A record written was waiting, and belongs where it did; one lost to half a line does not.
LEMMA LineBelonging ==
  ASSUME TypeOK, Types', Belonging, WriteLine
  PROVE  Belonging'
<1> DEFINE line == Head(buffer)
<1>1. /\ Types /\ buffer # <<>> /\ buffer' = Tail(buffer) /\ phase = "open"
      /\ UNCHANGED <<phase, ids, node>>
      /\ IF torn THEN UNCHANGED <<calls, state>> ELSE Replayed(line)
  BY DEF WriteLine, TypeOK, run
<1>2. /\ Len(buffer) \in Nat \ {0}
      /\ DOMAIN buffer = 1..Len(buffer) /\ DOMAIN buffer' = 1..(Len(buffer) - 1)
      /\ \A n \in 1..(Len(buffer) - 1) : buffer'[n] = buffer[n + 1]
      /\ line = buffer[1] /\ line \in Line
  BY <1>1, Tailed
<1>3. \A n \in DOMAIN buffer' : n + 1 \in DOMAIN buffer /\ buffer'[n] = buffer[n + 1]
  BY <1>2
<1>4. Live' = Live /\ \A c, i : Child(c, i)' <=> Child(c, i)
  BY <1>1 DEF Live, Child
<1>5. NoneAwaited'
  <2> SUFFICES ASSUME NEW c \in Live, NEW n \in DOMAIN buffer', buffer'[n].t = "call",
                      buffer'[n].parent = node[c].jid, node[c].old = 0
               PROVE  \E b \in Live : node[b].jid = buffer'[n].id /\ node[b].parent = c
    BY <1>1, <1>4 DEF NoneAwaited, Child
  <2> QED
    BY <1>3 DEF Belonging, NoneAwaited, Child
<1>6. \A n \in DOMAIN buffer' : buffer'[n].t = "call" =>
        buffer'[n].parent < buffer'[n].id /\ buffer'[n].id <= ids'
  BY <1>1, <1>3 DEF Belonging, Orderly
<1>7. CASE UNCHANGED calls
  <2>1. Recorded' = Recorded
    BY <1>7 DEF Recorded
  <2> QED
    BY <1>1, <1>4, <1>5, <1>6, <1>7, <2>1 DEF Belonging, Orderly, NoneAdopted
<1>8. CASE ~torn /\ line.t = "call"
  <2> DEFINE i == line.id
             kept == [parent |-> line.parent, digest |-> line.digest, seq |-> line.seq]
  <2>1. line \in CallLine
    BY <1>2, <1>8 DEF Line, SetLine, EndLine
  <2>2. kept \in Kept /\ i \in Id /\ kept.parent = line.parent
    BY <2>1 DEF CallLine, Kept
  <2>3. calls' = [calls EXCEPT ![i] = kept]
    BY <1>1, <1>8 DEF Replayed
  <2>4. 1 \in DOMAIN buffer /\ buffer[1] = line
    BY <1>2
  <2>5. line.parent < i /\ i <= ids
    BY <1>8, <2>4 DEF Belonging, Orderly
  <2>6. \A c \in Live : line.parent = node[c].jid /\ node[c].old = 0 => Child(c, i)
    BY <1>8, <2>4 DEF Belonging, NoneAwaited
  <2> HIDE DEF kept, i
  <2>7. /\ calls'[i] = kept
        /\ \A j \in Id : j # i => calls'[j] = calls[j]
        /\ \A j \in Recorded' : j = i \/ j \in Recorded
    BY <1>1, <2>2, <2>3 DEF Types, Recorded
  <2>8. Recorded' \subseteq Id
    BY DEF Recorded
  <2>9. Orderly'
    <3>1. \A j \in Recorded' : calls'[j].parent < j /\ j <= ids
      BY <1>1, <2>2, <2>5, <2>7, <2>8 DEF Belonging, Orderly
    <3> QED
      BY <1>1, <1>6, <3>1 DEF Orderly
  <2>10. NoneAdopted'
    <3> SUFFICES ASSUME NEW c \in Live, NEW j \in Recorded',
                        calls'[j].parent = node[c].jid, node[c].old = 0
                 PROVE  \E b \in Live : node[b].jid = j /\ node[b].parent = c
      BY <1>1, <1>4 DEF NoneAdopted
    <3>1. CASE j = i
      BY <2>2, <2>6, <2>7, <3>1 DEF Child
    <3>2. CASE j # i
      BY <2>7, <2>8, <3>2 DEF Belonging, NoneAdopted
    <3> QED
      BY <3>1, <3>2
  <2> QED
    BY <1>5, <2>9, <2>10 DEF Belonging
<1>9. torn \/ line.t # "call" => UNCHANGED calls
  BY <1>1 DEF Replayed
<1> QED
  BY <1>7, <1>8, <1>9

LEMMA NextBelonging ==
  ASSUME TypeOK, Types', Matching, JidsDistinct', Belonging, [Next]_vars
  PROVE  Belonging'
<1>0. Types
  BY DEF TypeOK
<1>1. CASE OpenFresh \/ OpenResumed
  <2>1. /\ phase = "down" /\ phase' = "open" /\ UNCHANGED <<node, buffer>>
    BY <1>1 DEF OpenFresh, OpenResumed, Opening, journal
  <2>2. Live' = {} /\ buffer' = <<>>
    BY <2>1 DEF Matching, Down, Live, Belonging, Orderly
  <2>3. CASE OpenFresh
    <3>1. Recorded' = {}
      BY <2>3 DEF OpenFresh, Recorded
    <3> QED
      BY <2>1, <2>2, <3>1 DEF Belonging, Orderly, NoneAdopted, NoneAwaited
  <2>4. CASE OpenResumed
    <3>1. UNCHANGED calls /\ Recorded' = Recorded /\ \A i \in Recorded : i <= ids'
      BY <2>4 DEF OpenResumed, IsLast, Recorded
    <3>2. Orderly'
      BY <2>1, <2>2, <3>1 DEF Belonging, Orderly
    <3> QED
      BY <2>2, <3>2 DEF Belonging, NoneAdopted, NoneAwaited
  <2> QED
    BY <1>1, <2>3, <2>4
<1>2. ASSUME NEW c \in Call, NEW parent \in Call \cup {Top}, NEW d \in Digest,
             CallFlow(c, parent, d)
      PROVE  Belonging'
  BY <1>2, CallBelonging
<1>3. ASSUME NEW c \in Call, EndFlow(c)
      PROVE  Belonging'
  <2> DEFINE line == [t |-> "end", id |-> node[c].jid]
  <2>1. /\ c \in Live /\ UNCHANGED <<calls, phase, ids>> /\ phase = "open"
        /\ node' = [node EXCEPT ![c].ended = TRUE]
        /\ buffer' = Append(buffer, line)
    BY <1>3 DEF EndFlow, Taking, disk, Batched
  <2>2. line \in Line /\ line.t = "end"
    BY <1>0, <2>1, LiveJids DEF Line, EndLine
  <2> HIDE DEF line
  <2>3. \A n \in DOMAIN buffer' : buffer'[n].t = "call" =>
          n \in DOMAIN buffer /\ buffer'[n] = buffer[n]
    <3>1. /\ DOMAIN buffer = 1..Len(buffer) /\ DOMAIN buffer' = 1..(Len(buffer) + 1)
          /\ \A n \in 1..Len(buffer) : buffer'[n] = buffer[n]
          /\ buffer'[Len(buffer) + 1] = line /\ Len(buffer) \in Nat
      BY <1>0, <2>1, <2>2, Appended
    <3> SUFFICES ASSUME NEW n \in 1..(Len(buffer) + 1), buffer'[n].t = "call"
                 PROVE  n \in DOMAIN buffer /\ buffer'[n] = buffer[n]
      BY <3>1
    <3>2. n # Len(buffer) + 1
      BY <2>2, <3>1
    <3> QED
      BY <3>1, <3>2
  <2>4. Unmade
    BY <1>3, EndUnmade
  <2> QED
    BY <1>0, <2>1, <2>3, <2>4, SameBelonging DEF Unmade
<1>4. ASSUME NEW c \in Call, NEW k \in Key, NEW v \in Value \cup {None}, WriteState(c, k, v)
      PROVE  Belonging'
  <2> DEFINE line == [t |-> "set", id |-> node[c].jid, key |-> k, value |-> v]
  <2>1. /\ c \in Live /\ UNCHANGED <<calls, phase, ids, node>> /\ phase = "open"
        /\ buffer' = Append(buffer, line)
    BY <1>4 DEF WriteState, Taking, disk, run
  <2>2. line \in Line /\ line.t = "set"
    BY <1>0, <2>1, LiveJids DEF Line, SetLine
  <2> HIDE DEF line
  <2>3. \A n \in DOMAIN buffer' : buffer'[n].t = "call" =>
          n \in DOMAIN buffer /\ buffer'[n] = buffer[n]
    <3>1. /\ DOMAIN buffer = 1..Len(buffer) /\ DOMAIN buffer' = 1..(Len(buffer) + 1)
          /\ \A n \in 1..Len(buffer) : buffer'[n] = buffer[n]
          /\ buffer'[Len(buffer) + 1] = line /\ Len(buffer) \in Nat
      BY <1>0, <2>1, <2>2, Appended
    <3> SUFFICES ASSUME NEW n \in 1..(Len(buffer) + 1), buffer'[n].t = "call"
                 PROVE  n \in DOMAIN buffer /\ buffer'[n] = buffer[n]
      BY <3>1
    <3>2. n # Len(buffer) + 1
      BY <2>2, <3>1
    <3> QED
      BY <3>1, <3>2
  <2>4. Live' = Live
    BY <2>1 DEF Live
  <2> QED
    BY <1>0, <2>1, <2>3, <2>4, SameBelonging
<1>5. CASE WriteLine
  BY <1>5, LineBelonging
<1>6. CASE WriteFails
  <2>1. /\ UNCHANGED <<calls, phase, ids, node>> /\ phase = "open" /\ buffer' = <<>>
    BY <1>6 DEF WriteFails, run
  <2>2. Live' = Live /\ DOMAIN buffer' = {}
    BY <2>1 DEF Live
  <2> QED
    BY <1>0, <2>1, <2>2, SameBelonging
<1>7. CASE Flushed
  <2>1. UNCHANGED <<calls, phase, ids, buffer>> /\ phase = "open" /\ Unmade
    BY <1>7, FlushedUnmade DEF Flushed, disk
  <2> QED
    BY <1>0, <2>1, SameBelonging DEF Unmade
<1>8. CASE Gone
  <2>1. /\ UNCHANGED calls /\ phase' = "down" /\ buffer' = <<>>
        /\ \A c \in Call : node'[c] = None
    BY <1>8 DEF Gone, Forgotten
  <2>2. Live' = {} /\ Recorded' = Recorded /\ DOMAIN buffer' = {}
    BY <2>1 DEF Live, Recorded
  <2> QED
    BY <2>1, <2>2 DEF Belonging, Orderly, NoneAdopted, NoneAwaited
<1>9. CASE TimerFires \/ Close \/ UNCHANGED vars
  <2>1. /\ UNCHANGED <<calls, ids, node, buffer>>
        /\ phase' = "down" <=> phase = "down"
    BY <1>9 DEF TimerFires, Close, vars, disk, run, journal
  <2>2. Live' = Live
    BY <2>1 DEF Live
  <2>3. phase' = "down" => buffer' = <<>>
    BY <2>1 DEF Belonging, Orderly
  <2> QED
    BY <1>0, <2>1, <2>2, <2>3, SameBelonging
<1> QED
  BY <1>1, <1>2, <1>3, <1>4, <1>5, <1>6, <1>7, <1>8, <1>9 DEF Next

\* What a lost record leaves without a parent is never taken for a call of a later run: an id
\* given out is above every id in the file, and every call recorded is above the one it was
\* made under (Past.next_id, FlowImpl._journaled).
THEOREM Belongs == Spec => []NoneAdopted
<1>1. Init => TypeOK /\ Matching /\ Belonging
  BY InitType, InitMatching, InitBelonging
<1>2. TypeOK /\ Matching /\ Belonging /\ [Next]_vars => (TypeOK /\ Matching /\ Belonging)'
  <2> SUFFICES ASSUME TypeOK, Matching, Belonging, [Next]_vars
               PROVE  TypeOK' /\ Matching' /\ Belonging'
    OBVIOUS
  <2>1. TypeOK' /\ Types'
    BY NextTypes, NextPending DEF TypeOK
  <2>2. Matching' /\ JidsDistinct'
    BY NextMatching DEF Matching
  <2> QED
    BY <2>1, <2>2, NextBelonging
<1>3. Belonging => NoneAdopted
  BY DEF Belonging
<1> QED
  BY <1>1, <1>2, <1>3, PTL DEF Spec

-----------------------------------------------------------------------------
(***************************************************************************)
(* No gaps in the counts (NoSeqGap), while no write was refused.  The      *)
(* count of a record says its caller had made so many calls of that digest *)
(* before; each is in the file or waits before it, since records wait in   *)
(* the order of their ids and are written from the first.                  *)
(***************************************************************************)

\* The call records that wait, in the order they were made: that of their ids.
CallLines == {n \in DOMAIN buffer : buffer[n].t = "call"}
Waiting == {buffer[n] : n \in CallLines}
InOrder == \A m, n \in CallLines : m < n => buffer[m].id < buffer[n].id

\* What a replay makes of a call record, and whether it is in the file under any id.
RecordOf(line) == [parent |-> line.parent, digest |-> line.digest, seq |-> line.seq]
Filed(record) == \E i \in Id : calls[i] = record

\* The calls of a digest a call has made are those of every count below the next.
Counting ==
  \A p \in Call \cup {Top}, d \in Digest, k \in Nat : k < seqs[p][d] =>
    \E c \in Live : node[c].parent = p /\ node[c].digest = d /\ node[c].seq = k

\* A record that waits is of an id nothing is recorded under.
NewIds == \A line \in Waiting : calls[line.id] = None /\ line.id <= ids

\* What was read on opening is recorded still.
Steady == \A i \in Id : past.calls[i] # None => calls[i] = past.calls[i]

\* A call under another is recorded, or its record waits, as it was made.
MadeAs(c) ==
  [parent |-> node[node[c].parent].jid, digest |-> node[c].digest, seq |-> node[c].seq]

Written ==
  \A c \in Live : node[c].parent # Top =>
    \/ calls[node[c].jid] = MadeAs(c)
    \/ \E line \in Waiting : line.id = node[c].jid /\ RecordOf(line) = MadeAs(c)

\* Below what is recorded every count is; below what waits, it is or waits before it.
FileGapless ==
  \A i \in Recorded, k \in Nat : k < calls[i].seq => Filed([calls[i] EXCEPT !.seq = k])

Before(line, record) == \E other \in Waiting : other.id < line.id /\ RecordOf(other) = record

WaitGapless ==
  \A line \in Waiting, k \in Nat : k < line.seq =>
    \/ Filed([RecordOf(line) EXCEPT !.seq = k])
    \/ Before(line, [RecordOf(line) EXCEPT !.seq = k])

Gapless ==
  InOrder /\ Counting /\ NewIds /\ Steady /\ Written /\ FileGapless /\ WaitGapless

\* A record appended waits as well, after those before it.
LEMMA WaitingAppended ==
  ASSUME Types, NEW line \in Line, buffer' = Append(buffer, line), InOrder,
         line.t = "call" => \A other \in Waiting : other.id < line.id
  PROVE  /\ Waiting' = IF line.t = "call" THEN Waiting \cup {line} ELSE Waiting
         /\ InOrder'
<1>1. /\ Len(buffer) \in Nat
      /\ DOMAIN buffer = 1..Len(buffer) /\ DOMAIN buffer' = 1..(Len(buffer) + 1)
      /\ \A n \in 1..Len(buffer) : buffer'[n] = buffer[n]
      /\ buffer'[Len(buffer) + 1] = line
  BY Appended
<1>2. CallLines' = IF line.t = "call" THEN CallLines \cup {Len(buffer) + 1} ELSE CallLines
  BY <1>1 DEF CallLines
<1>3. /\ CallLines \subseteq 1..Len(buffer)
      /\ \A n \in CallLines : buffer'[n] = buffer[n]
  BY <1>1 DEF CallLines
<1>4. Waiting' = IF line.t = "call" THEN Waiting \cup {line} ELSE Waiting
  BY <1>1, <1>2, <1>3 DEF Waiting
<1>5. InOrder'
  <2> SUFFICES ASSUME NEW m \in CallLines', NEW n \in CallLines', m < n
               PROVE  buffer'[m].id < buffer'[n].id
    BY DEF InOrder
  <2>1. m \in CallLines
    BY <1>1, <1>2, <1>3
  <2>2. CASE n \in CallLines
    BY <1>3, <2>1, <2>2 DEF InOrder
  <2>3. CASE n \notin CallLines
    <3>1. n = Len(buffer) + 1 /\ line.t = "call" /\ buffer[m] \in Waiting
      BY <1>2, <2>1, <2>3 DEF Waiting
    <3> QED
      BY <1>1, <1>3, <2>1, <3>1
  <2> QED
    BY <2>2, <2>3
<1> QED
  BY <1>4, <1>5

\* The record written waited, before every other.
LEMMA WaitingTailed ==
  ASSUME Types, buffer # <<>>, buffer' = Tail(buffer), InOrder
  PROVE  /\ InOrder'
         /\ Head(buffer).t # "call" => Waiting' = Waiting
         /\ Head(buffer).t = "call" =>
              /\ Waiting = Waiting' \cup {Head(buffer)}
              /\ \A other \in Waiting' : Head(buffer).id < other.id
<1>1. /\ Len(buffer) \in Nat \ {0}
      /\ DOMAIN buffer = 1..Len(buffer) /\ DOMAIN buffer' = 1..(Len(buffer) - 1)
      /\ \A n \in 1..(Len(buffer) - 1) : buffer'[n] = buffer[n + 1]
      /\ Head(buffer) = buffer[1]
  BY Tailed
<1>2. \A n \in CallLines' : /\ n + 1 \in CallLines /\ 1 < n + 1 /\ n \in Nat
                            /\ buffer'[n] = buffer[n + 1]
  BY <1>1 DEF CallLines
<1>3. \A n \in CallLines : n = 1 \/ (n - 1 \in CallLines' /\ buffer'[n - 1] = buffer[n])
  <2> SUFFICES ASSUME NEW n \in CallLines, n # 1
               PROVE  n - 1 \in CallLines' /\ buffer'[n - 1] = buffer[n]
    OBVIOUS
  <2>1. n \in 1..Len(buffer) /\ buffer[n].t = "call"
    BY <1>1 DEF CallLines
  <2>2. n - 1 \in 1..(Len(buffer) - 1) /\ (n - 1) + 1 = n
    BY <1>1, <2>1
  <2>3. buffer'[n - 1] = buffer[n]
    BY <1>1, <2>2
  <2> QED
    BY <1>1, <2>1, <2>2, <2>3 DEF CallLines
<1>4. 1 \in CallLines <=> Head(buffer).t = "call"
  BY <1>1 DEF CallLines
<1>5. InOrder'
  <2> SUFFICES ASSUME NEW m \in CallLines', NEW n \in CallLines', m < n
               PROVE  buffer'[m].id < buffer'[n].id
    BY DEF InOrder
  <2>1. m + 1 < n + 1
    BY <1>2
  <2> QED
    BY <1>2, <2>1 DEF InOrder
<1>6. Waiting' \subseteq Waiting
  BY <1>2 DEF Waiting
<1>7. \A other \in Waiting : other \in Waiting' \/ (Head(buffer).t = "call" /\ other = Head(buffer))
  <2> SUFFICES ASSUME NEW n \in CallLines
               PROVE  \/ buffer[n] \in Waiting'
                      \/ Head(buffer).t = "call" /\ buffer[n] = Head(buffer)
    BY DEF Waiting
  <2>1. CASE n = 1
    BY <1>1, <1>4, <2>1
  <2>2. CASE n # 1
    BY <1>3, <2>2 DEF Waiting
  <2> QED
    BY <2>1, <2>2
<1>8. ASSUME Head(buffer).t = "call"
      PROVE  Head(buffer) \in Waiting /\ \A other \in Waiting' : Head(buffer).id < other.id
  <2>1. Head(buffer) \in Waiting
    BY <1>1, <1>4, <1>8 DEF Waiting
  <2>2. ASSUME NEW n \in CallLines'
        PROVE  Head(buffer).id < buffer'[n].id
    BY <1>1, <1>2, <1>4, <1>8 DEF InOrder
  <2> QED
    BY <2>1, <2>2 DEF Waiting
<1> QED
  BY <1>5, <1>6, <1>7, <1>8

\* What waits has the type of a call record.
LEMMA WaitingType ==
  Types => \A line \in Waiting : /\ line \in CallLine /\ line.id \in Id
                                 /\ RecordOf(line) \in Kept
                                 /\ line.seq \in Nat /\ line.t = "call"
<1> SUFFICES ASSUME Types, NEW line \in Waiting
             PROVE  /\ line \in CallLine /\ line.id \in Id /\ RecordOf(line) \in Kept
                    /\ line.seq \in Nat /\ line.t = "call"
  OBVIOUS
<1>1. line \in Line /\ line.t = "call"
  BY DEF Waiting, CallLines, Types
<1>2. line \in CallLine
  BY <1>1 DEF Line, SetLine, EndLine
<1> QED
  BY <1>1, <1>2 DEF CallLine, RecordOf, Kept

\* A record with another count is a record.
LEMMA RecountedType == \A r \in Kept, k \in Nat : [r EXCEPT !.seq = k] \in Kept
  BY DEF Kept

LEMMA InitGapless == Init => Gapless
<1> SUFFICES ASSUME Init PROVE Gapless
  OBVIOUS
<1>1. Live = {} /\ CallLines = {} /\ Waiting = {} /\ Recorded = {}
  BY DEF Init, Live, CallLines, Waiting, Recorded
<1>2. \A p \in Call \cup {Top}, d \in Digest : seqs[p][d] = 0
  BY DEF Init
<1>3. Counting
  BY <1>2 DEF Counting
<1>4. Steady
  BY DEF Init, NoPast, Steady
<1> QED
  BY <1>1, <1>3, <1>4 DEF Gapless, InOrder, NewIds, Written, FileGapless, WaitGapless

\* What is the same in the file, in what waits and in what calls were made by, is as it was.
LEMMA SameGapless ==
  ASSUME Types, Matching, Gapless, UNCHANGED <<calls, past, ids, seqs>>,
         Live' = Live, Waiting' = Waiting, InOrder',
         \A c \in Live : /\ node'[c].parent = node[c].parent
                         /\ node'[c].jid = node[c].jid
                         /\ node'[c].digest = node[c].digest
                         /\ node'[c].seq = node[c].seq
  PROVE  Gapless'
<1>1. Recorded' = Recorded
  BY DEF Recorded
<1>2. Counting' /\ NewIds' /\ Steady'
  BY DEF Gapless, Counting, NewIds, Steady
<1>3. Written'
  <2>1. \A c \in Live : node[c].parent # Top => MadeAs(c)' = MadeAs(c)
    BY DEF MadeAs, Matching, Parents
  <2> QED
    BY <2>1 DEF Gapless, Written
<1>4. FileGapless' /\ WaitGapless'
  BY <1>1 DEF Gapless, FileGapless, WaitGapless, Filed, Before
<1> QED
  BY <1>2, <1>3, <1>4 DEF Gapless

LEMMA CallGapless ==
  ASSUME TypeOK, Types', Matching, Matching', Keeping, Gapless,
         NEW c \in Call, NEW parent \in Call \cup {Top}, NEW d \in Digest,
         CallFlow(c, parent, d)
  PROVE  Gapless'
<1> USE JournalAssumption
<1> DEFINE seq == SeqOf(parent, d)
<1>1. PICK jid \in Id, line \in Line :
        /\ c \notin Live /\ Live' = Live \cup {c}
        /\ \A b \in Live : node'[b] = node[b]
        /\ node'[c].jid = jid /\ node'[c].parent = parent
        /\ node'[c].digest = d /\ node'[c].seq = seq
        /\ \/ /\ jid \in Earlier(parent, d, seq)
              /\ node'[c].old = jid
              /\ UNCHANGED <<ids, buffer>>
           \/ /\ jid = ids + 1 /\ ids' = jid
              /\ line.t = "call" /\ line.id = jid /\ line.parent = JidOf(parent)
              /\ line.digest = d /\ line.seq = seq
              /\ buffer' = Append(buffer, line)
  BY CallMade
<1>2. /\ Types /\ phase = "open"
      /\ UNCHANGED <<calls, past>>
      /\ parent = Top \/ parent \in Live
      /\ seqs' = Counted(parent, d)
      /\ parent = Top => \A b \in Live : node[b].parent # Top
  BY DEF CallFlow, Taking, TypeOK, disk
<1>3. \A b \in Live : /\ node'[b] = node[b] /\ node[b].jid \in Id /\ node[b].seq \in Nat
                      /\ node[b].parent \in Call \cup {Top}
                      /\ node[b].parent # Top => node[b].parent \in Live
  <2>1. \A b \in Live : node[b] \in Node
    BY <1>2, LiveJids
  <2> QED
    BY <1>1, <2>1 DEF Node, Matching, Parents
<1>4. /\ seq \in Nat /\ ids \in Nat
      /\ seqs'[parent][d] = seq + 1
      /\ \A p \in Call \cup {Top}, e \in Digest :
           (p # parent \/ e # d) => seqs'[p][e] = seqs[p][e]
  <2>1. seqs \in [Call \cup {Top} -> [Digest -> Nat]] /\ ids \in Nat
    BY <1>2 DEF Types, Id
  <2>2. parent \in Call \cup {Top} /\ d \in Digest
    OBVIOUS
  <2>3. seqs' = [seqs EXCEPT ![parent] = [seqs[parent] EXCEPT ![d] = seqs[parent][d] + 1]]
    BY ONLY <1>2 DEF Counted
  <2>4. seqs[parent] \in [Digest -> Nat]
    BY ONLY <2>1, <2>2
  <2>5. seqs'[parent] = [seqs[parent] EXCEPT ![d] = seqs[parent][d] + 1]
        /\ \A p \in Call \cup {Top} : p # parent => seqs'[p] = seqs[p]
    BY ONLY <2>1, <2>2, <2>3
  <2>6. seqs'[parent][d] = seqs[parent][d] + 1 /\ seqs[parent][d] \in Nat
        /\ \A e \in Digest : e # d => seqs'[parent][e] = seqs[parent][e]
    BY ONLY <2>2, <2>4, <2>5
  <2> QED
    BY ONLY <2>1, <2>5, <2>6 DEF SeqOf
<1>5. Counting'
  <2> SUFFICES ASSUME NEW p \in Call \cup {Top}, NEW e \in Digest, NEW k \in Nat,
                      k < seqs'[p][e]
               PROVE  \E b \in Live \cup {c} : /\ node'[b].parent = p /\ node'[b].digest = e
                                               /\ node'[b].seq = k
    BY <1>1 DEF Counting
  <2>1. CASE p = parent /\ e = d /\ k = seq
    BY <1>1, <2>1
  <2>2. CASE ~(p = parent /\ e = d /\ k = seq)
    <3>1. k < seqs[p][e]
      BY <1>4, <2>2 DEF SeqOf
    <3>2. PICK b \in Live : node[b].parent = p /\ node[b].digest = e /\ node[b].seq = k
      BY <3>1 DEF Gapless, Counting
    <3> QED
      BY <1>1, <3>2
  <2> QED
    BY <2>1, <2>2
<1>6. Steady' /\ FileGapless'
  BY <1>2 DEF Gapless, Steady, FileGapless, Filed, Recorded
<1>7. \A b \in Live : node[b].parent # Top => MadeAs(b)' = MadeAs(b)
  BY <1>3 DEF MadeAs
<1>8. parent # Top =>
        MadeAs(c)' = [parent |-> node[parent].jid, digest |-> d, seq |-> seq]
  BY <1>1, <1>2, <1>3 DEF MadeAs
<1>9. CASE /\ jid \in Earlier(parent, d, seq)
           /\ node'[c].old = jid
           /\ UNCHANGED <<ids, buffer>>
  <2>1. Waiting' = Waiting /\ InOrder'
    BY <1>9 DEF Gapless, Waiting, CallLines, InOrder
  <2>2. NewIds' /\ WaitGapless'
    BY <1>2, <1>9, <2>1 DEF Gapless, NewIds, WaitGapless, Filed, Before
  <2>3. parent # Top => calls[jid] = MadeAs(c)'
    <3> SUFFICES ASSUME parent # Top PROVE calls[jid] = MadeAs(c)'
      OBVIOUS
    <3>1. /\ OldOf(parent) # 0 /\ parent \in Live
          /\ past.calls[jid] = [parent |-> OldOf(parent), digest |-> d, seq |-> seq]
      BY <1>2, <1>9 DEF Earlier
    <3>2. node[parent].jid = OldOf(parent)
      BY <3>1 DEF Matching, Claims, OldOf
    <3>3. OldOf(parent) \in Id \cup {0}
      BY <1>2, <3>1 DEF Types, OldOf, Live, Node
    <3>4. past.calls[jid] \in Kept
      BY <1>4, <3>1, <3>3 DEF Kept
    <3>5. calls[jid] = past.calls[jid]
      BY <3>4, NoneAssumption DEF Gapless, Steady
    <3> QED
      BY <1>8, <3>1, <3>2, <3>5
  <2>4. Written'
    <3> SUFFICES ASSUME NEW b \in Live \cup {c}, node'[b].parent # Top
                 PROVE  \/ calls[node'[b].jid] = MadeAs(b)'
                        \/ \E other \in Waiting : /\ other.id = node'[b].jid
                                                  /\ RecordOf(other) = MadeAs(b)'
      BY <1>1, <1>2, <2>1 DEF Written
    <3>1. CASE b = c
      BY <1>1, <2>3, <3>1
    <3>2. CASE b \in Live
      BY <1>3, <1>7, <3>2 DEF Gapless, Written
    <3> QED
      BY <3>1, <3>2
  <2> QED
    BY <1>5, <1>6, <2>1, <2>2, <2>4 DEF Gapless
<1>10. CASE /\ jid = ids + 1 /\ ids' = jid
            /\ line.t = "call" /\ line.id = jid /\ line.parent = JidOf(parent)
            /\ line.digest = d /\ line.seq = seq
            /\ buffer' = Append(buffer, line)
  <2>1. \A other \in Waiting : other.id \in Id /\ other.id < line.id
    BY <1>2, <1>4, <1>10, WaitingType DEF Gapless, NewIds, Id
  <2>2. Waiting' = Waiting \cup {line} /\ InOrder'
    BY <1>2, <1>10, <2>1, WaitingAppended DEF Gapless
  <2>3. calls[jid] = None
    BY <1>2, <1>4, <1>10 DEF Keeping, Unrecorded, Recorded
  <2>4. NewIds'
    <3>1. \A other \in Waiting : calls'[other.id] = None /\ other.id <= ids'
      BY <1>2, <1>4, <1>10, <2>1 DEF Gapless, NewIds, Id
    <3> QED
      BY <1>2, <1>4, <1>10, <2>2, <2>3, <3>1 DEF NewIds
  <2>5. parent # Top => RecordOf(line) = MadeAs(c)'
    BY <1>8, <1>10 DEF RecordOf, JidOf
  <2>6. Written'
    <3> SUFFICES ASSUME NEW b \in Live \cup {c}, node'[b].parent # Top
                 PROVE  \/ calls[node'[b].jid] = MadeAs(b)'
                        \/ \E other \in Waiting \cup {line} :
                             other.id = node'[b].jid /\ RecordOf(other) = MadeAs(b)'
      BY <1>1, <1>2, <2>2 DEF Written
    <3>1. CASE b = c
      BY <1>1, <1>10, <2>5, <3>1
    <3>2. CASE b \in Live
      BY <1>3, <1>7, <3>2 DEF Gapless, Written
    <3> QED
      BY <3>1, <3>2
  <2>7. ASSUME NEW k \in Nat, k < seq
        PROVE  \/ Filed([RecordOf(line) EXCEPT !.seq = k])
               \/ Before(line, [RecordOf(line) EXCEPT !.seq = k])
    <3>1. PICK b \in Live : node[b].parent = parent /\ node[b].digest = d /\ node[b].seq = k
      BY <2>7 DEF Gapless, Counting, SeqOf
    <3>2. parent # Top
      BY <1>2, <3>1
    <3>3. [RecordOf(line) EXCEPT !.seq = k] = MadeAs(b)
      <4>1. RecordOf(line) = [parent |-> node[parent].jid, digest |-> d, seq |-> seq]
        BY <1>10, <3>2 DEF RecordOf, JidOf
      <4>2. MadeAs(b) = [parent |-> node[parent].jid, digest |-> d, seq |-> k]
        BY <3>1 DEF MadeAs
      <4> QED
        BY <4>1, <4>2
    <3>4. CASE calls[node[b].jid] = MadeAs(b)
      BY <1>3, <3>3, <3>4 DEF Filed
    <3>5. CASE \E other \in Waiting : other.id = node[b].jid /\ RecordOf(other) = MadeAs(b)
      BY <2>1, <3>3, <3>5 DEF Before
    <3> QED
      BY <3>1, <3>2, <3>4, <3>5 DEF Gapless, Written
  <2>8. WaitGapless'
    <3> SUFFICES ASSUME NEW other \in Waiting \cup {line}, NEW k \in Nat, k < other.seq
                 PROVE  \/ Filed([RecordOf(other) EXCEPT !.seq = k])
                        \/ \E first \in Waiting \cup {line} :
                             /\ first.id < other.id
                             /\ RecordOf(first) = [RecordOf(other) EXCEPT !.seq = k]
      BY <1>2, <2>2 DEF WaitGapless, Filed, Before
    <3>1. CASE other = line
      BY <1>10, <2>7, <3>1 DEF Before
    <3>2. CASE other \in Waiting
      BY <3>2 DEF Gapless, WaitGapless, Before
    <3> QED
      BY <3>1, <3>2
  <2> QED
    BY <1>5, <1>6, <2>2, <2>4, <2>6, <2>8 DEF Gapless
<1> QED
  BY <1>1, <1>9, <1>10

\* The record written is of an id nothing was recorded under: what was recorded still is, and
\* what waited is recorded, or waits.
LEMMA LineGapless ==
  ASSUME TypeOK, Types', Matching, Keeping, Gapless, WriteLine
  PROVE  Gapless'
<1> DEFINE line == Head(buffer)
<1>1. /\ Types /\ buffer # <<>> /\ buffer' = Tail(buffer) /\ phase = "open" /\ ~torn
      /\ UNCHANGED <<past, ids, seqs, node>>
      /\ Replayed(line)
  BY DEF WriteLine, TypeOK, run, Keeping, Whole
<1>2. /\ InOrder'
      /\ line.t # "call" => Waiting' = Waiting
      /\ line.t = "call" => /\ Waiting = Waiting' \cup {line}
                            /\ \A other \in Waiting' : line.id < other.id
  BY <1>1, WaitingTailed DEF Gapless
<1>3. Live' = Live
  BY <1>1 DEF Live
<1>4. CASE line.t # "call"
  <2>1. UNCHANGED calls
    BY <1>1, <1>4 DEF Replayed
  <2> QED
    BY <1>1, <1>2, <1>3, <1>4, <2>1, SameGapless
<1>5. CASE line.t = "call"
  <2> DEFINE i == line.id
             Files(r) == \E j \in Id : calls'[j] = r
  <2>1. /\ line \in Waiting /\ line \in CallLine /\ i \in Id
        /\ RecordOf(line) \in Kept /\ RecordOf(line).seq = line.seq
    BY <1>1, <1>2, <1>5, WaitingType DEF RecordOf
  <2>2. calls' = [calls EXCEPT ![i] = RecordOf(line)]
    BY <1>1, <1>5 DEF Replayed, RecordOf
  <2>3. calls[i] = None
    BY <2>1 DEF Gapless, NewIds
  <2>4. /\ calls'[i] = RecordOf(line) /\ calls'[i] # None
        /\ \A j \in Id : j # i => calls'[j] = calls[j]
    BY <1>1, <2>1, <2>2, NoneAssumption DEF Types
  <2>5. \A j \in Id : calls[j] # None => calls'[j] = calls[j]
    BY <2>3, <2>4
  <2>6. \A r \in Kept : Filed(r) => Files(r)
    BY <2>5, NoneAssumption DEF Filed
  <2>7. Files(RecordOf(line))
    BY <2>1, <2>4
  <2>8. \A other \in Waiting : other \in Waiting' \/ other = line
    BY <1>2, <1>5
  <2>9. \A other \in Waiting' : /\ other \in Waiting /\ other.id \in Id /\ other.id # i
                                /\ other.seq \in Nat /\ RecordOf(other) \in Kept
    BY <1>1, <1>2, <1>5, <2>1, WaitingType DEF Id
  <2> HIDE DEF i, Files
  <2>10. NewIds' /\ Counting' /\ Steady'
    <3>1. NewIds'
      BY <1>1, <2>4, <2>9 DEF Gapless, NewIds
    <3>2. Counting'
      BY <1>1, <1>3 DEF Gapless, Counting
    <3>3. Steady'
      BY <1>1, <2>5 DEF Gapless, Steady
    <3> QED
      BY <3>1, <3>2, <3>3
  <2>11. Written'
    <3> SUFFICES ASSUME NEW c \in Live, node[c].parent # Top
                 PROVE  \/ calls'[node[c].jid] = MadeAs(c)
                        \/ \E other \in Waiting' : /\ other.id = node[c].jid
                                                   /\ RecordOf(other) = MadeAs(c)
      BY <1>1, <1>3 DEF Written, MadeAs
    <3>1. MadeAs(c) # None
      <4>1. node[c] \in Node /\ node[c].parent \in Live
        BY <1>1, LiveJids DEF Matching, Parents
      <4>2. node[node[c].parent].jid \in Id
        BY <1>1, <4>1, LiveJids
      <4>3. MadeAs(c) \in Kept
        BY <4>1, <4>2 DEF MadeAs, Kept, Node
      <4> QED
        BY <4>3, NoneAssumption
    <3>2. node[c].jid \in Id
      BY <1>1, LiveJids
    <3>3. CASE calls[node[c].jid] = MadeAs(c)
      BY <2>5, <3>1, <3>2, <3>3
    <3>4. CASE \E other \in Waiting : other.id = node[c].jid /\ RecordOf(other) = MadeAs(c)
      <4>1. PICK other \in Waiting : other.id = node[c].jid /\ RecordOf(other) = MadeAs(c)
        BY <3>4
      <4>2. CASE other = line
        BY <2>4, <4>1, <4>2 DEF i
      <4>3. CASE other \in Waiting'
        BY <4>1, <4>3
      <4> QED
        BY <2>8, <4>2, <4>3
    <3> QED
      BY <3>3, <3>4 DEF Gapless, Written
  <2>12. FileGapless'
    <3> SUFFICES ASSUME NEW j \in Id, calls'[j] # None, NEW k \in Nat, k < calls'[j].seq
                 PROVE  Files([calls'[j] EXCEPT !.seq = k])
      BY DEF FileGapless, Recorded, Filed, Files
    <3>1. CASE j = i
      <4>1. k < line.seq /\ calls'[j] = RecordOf(line)
        BY <2>1, <2>4, <3>1
      <4>2. ~Before(line, [RecordOf(line) EXCEPT !.seq = k])
        <5> SUFFICES ASSUME NEW other \in Waiting, other.id < line.id PROVE FALSE
          BY DEF Before
        <5>1. CASE other = line
          BY <2>1, <5>1 DEF i, Id
        <5>2. CASE other \in Waiting'
          BY <1>2, <1>5, <2>1, <2>9, <5>2 DEF i, Id
        <5> QED
          BY <2>8, <5>1, <5>2
      <4>3. Filed([RecordOf(line) EXCEPT !.seq = k])
        BY <2>1, <4>1, <4>2 DEF Gapless, WaitGapless
      <4>4. Files([RecordOf(line) EXCEPT !.seq = k])
        BY <2>1, <2>6, <4>3, RecountedType
      <4> QED
        BY <4>1, <4>4
    <3>2. CASE j # i
      <4>1. calls'[j] = calls[j] /\ calls[j] # None /\ calls[j] \in Kept
        BY <1>1, <2>4, <3>2 DEF Types
      <4>2. Filed([calls[j] EXCEPT !.seq = k])
        BY <4>1 DEF Gapless, FileGapless, Recorded
      <4> QED
        BY <2>6, <4>1, <4>2, RecountedType
    <3> QED
      BY <3>1, <3>2
  <2>13. WaitGapless'
    <3> SUFFICES ASSUME NEW other \in Waiting', NEW k \in Nat, k < other.seq
                 PROVE  \/ Files([RecordOf(other) EXCEPT !.seq = k])
                        \/ Before(other, [RecordOf(other) EXCEPT !.seq = k])'
      BY DEF WaitGapless, Filed, Before, Files
    <3> DEFINE r == [RecordOf(other) EXCEPT !.seq = k]
    <3>1. other \in Waiting /\ r \in Kept
      BY <2>9, RecountedType
    <3>2. Filed(r) \/ Before(other, r)
      BY <3>1 DEF Gapless, WaitGapless
    <3> HIDE DEF r
    <3>3. CASE Filed(r)
      BY <2>6, <3>1, <3>3 DEF r
    <3>4. CASE Before(other, r)
      <4>1. PICK first \in Waiting : first.id < other.id /\ RecordOf(first) = r
        BY <3>4 DEF Before
      <4>2. CASE first = line
        BY <2>7, <4>1, <4>2 DEF r
      <4>3. CASE first \in Waiting'
        BY <4>1, <4>3 DEF r, Before
      <4> QED
        BY <2>8, <4>2, <4>3
    <3> QED
      BY <3>2, <3>3, <3>4
  <2> QED
    BY <1>2, <2>10, <2>11, <2>12, <2>13 DEF Gapless
<1> QED
  BY <1>4, <1>5

LEMMA NextGapless ==
  ASSUME TypeOK, Types', Matching, Matching', Keeping, Gapless, [Next]_vars, ~WriteFails
  PROVE  Gapless'
<1>0. Types
  BY DEF TypeOK
<1>1. CASE OpenFresh \/ OpenResumed
  <2>1. /\ phase = "down" /\ UNCHANGED <<node, buffer, seqs>>
    BY <1>1 DEF OpenFresh, OpenResumed, Opening, journal
  <2>2. Live' = {} /\ Live = {} /\ buffer = <<>> /\ past = NoPast
    BY <2>1 DEF Matching, Down, Live, Keeping, Quiet
  <2>3. CallLines' = {} /\ Waiting' = {}
    BY <2>1, <2>2 DEF CallLines, Waiting
  <2>4. Counting'
    BY <2>1, <2>2 DEF Gapless, Counting
  <2>5. InOrder' /\ NewIds' /\ Written' /\ WaitGapless'
    BY <2>2, <2>3 DEF InOrder, NewIds, Written, WaitGapless
  <2>6. Steady' /\ FileGapless'
    <3>1. CASE OpenFresh
      BY <2>2, <3>1 DEF OpenFresh, Steady, NoPast, FileGapless, Recorded
    <3>2. CASE OpenResumed
      BY <3>2 DEF OpenResumed, Gapless, Steady, FileGapless, Recorded, Filed
    <3> QED
      BY <1>1, <3>1, <3>2
  <2> QED
    BY <2>4, <2>5, <2>6 DEF Gapless
<1>2. ASSUME NEW c \in Call, NEW parent \in Call \cup {Top}, NEW d \in Digest,
             CallFlow(c, parent, d)
      PROVE  Gapless'
  BY <1>2, CallGapless
<1>3. ASSUME NEW c \in Call, EndFlow(c)
      PROVE  Gapless'
  <2> DEFINE line == [t |-> "end", id |-> node[c].jid]
  <2>1. c \in Live /\ UNCHANGED <<calls, past, ids, seqs>> /\ buffer' = Append(buffer, line)
    BY <1>3 DEF EndFlow, disk, Batched
  <2>2. line \in Line /\ line.t = "end"
    BY <1>0, <2>1, LiveJids DEF Line, EndLine
  <2> HIDE DEF line
  <2>3. Waiting' = Waiting /\ InOrder'
    BY <1>0, <2>1, <2>2, WaitingAppended DEF Gapless
  <2>4. Unmade
    BY <1>3, EndUnmade
  <2> QED
    BY <1>0, <2>1, <2>3, <2>4, SameGapless DEF Unmade
<1>4. ASSUME NEW c \in Call, NEW k \in Key, NEW v \in Value \cup {None}, WriteState(c, k, v)
      PROVE  Gapless'
  <2> DEFINE line == [t |-> "set", id |-> node[c].jid, key |-> k, value |-> v]
  <2>1. /\ c \in Live /\ UNCHANGED <<calls, past, ids, seqs, node>>
        /\ buffer' = Append(buffer, line)
    BY <1>4 DEF WriteState, disk, run
  <2>2. line \in Line /\ line.t = "set"
    BY <1>0, <2>1, LiveJids DEF Line, SetLine
  <2> HIDE DEF line
  <2>3. Waiting' = Waiting /\ InOrder'
    BY <1>0, <2>1, <2>2, WaitingAppended DEF Gapless
  <2>4. Live' = Live
    BY <2>1 DEF Live
  <2> QED
    BY <1>0, <2>1, <2>3, <2>4, SameGapless
<1>5. CASE WriteLine
  BY <1>5, LineGapless
<1>6. CASE Flushed
  <2>1. UNCHANGED <<calls, past, ids, seqs, buffer>> /\ Unmade
    BY <1>6, FlushedUnmade DEF Flushed, disk
  <2>2. Waiting' = Waiting /\ InOrder'
    BY <2>1 DEF Gapless, Waiting, CallLines, InOrder
  <2> QED
    BY <1>0, <2>1, <2>2, SameGapless DEF Unmade
<1>7. CASE TimerFires \/ Close \/ UNCHANGED vars
  <2>1. UNCHANGED <<calls, past, ids, seqs, node, buffer>>
    BY <1>7 DEF TimerFires, Close, vars, disk, run, journal
  <2>2. Waiting' = Waiting /\ InOrder' /\ Live' = Live
    BY <2>1 DEF Gapless, Waiting, CallLines, InOrder, Live
  <2> QED
    BY <1>0, <2>1, <2>2, SameGapless
<1>8. CASE Gone
  <2>1. /\ UNCHANGED calls /\ buffer' = <<>> /\ past' = NoPast
        /\ \A c \in Call : node'[c] = None
        /\ seqs' = [c \in Call \cup {Top} |-> [d \in Digest |-> 0]]
    BY <1>8 DEF Gone, Forgotten
  <2>2. Live' = {} /\ CallLines' = {} /\ Waiting' = {}
    BY <2>1 DEF Live, CallLines, Waiting
  <2>3. Counting'
    <3>1. \A p \in Call \cup {Top}, d \in Digest : seqs'[p][d] = 0
      BY <2>1
    <3> QED
      BY <3>1 DEF Counting
  <2>4. Steady' /\ FileGapless'
    BY <2>1 DEF Gapless, Steady, NoPast, FileGapless, Recorded, Filed
  <2>5. InOrder' /\ NewIds' /\ Written' /\ WaitGapless'
    BY <2>2 DEF InOrder, NewIds, Written, WaitGapless
  <2> QED
    BY <2>3, <2>4, <2>5 DEF Gapless
<1> QED
  BY <1>1, <1>2, <1>3, <1>4, <1>5, <1>6, <1>7, <1>8 DEF Next

\* While no write was refused, the calls of one digest under one call are recorded with no
\* count left out: the call picked up is the earlier one of that digest with the lowest count
\* that nobody has claimed (Past.claim; journaling.py's docstring).
THEOREM Gaplessness == Spec => []NoSeqGap
<1> DEFINE Inv == TypeOK /\ Matching /\ (faults = 0 => Keeping /\ Gapless)
<1>1. Init => Inv
  BY InitType, InitMatching, InitKeeping, InitGapless DEF TypeOK
<1>2. Inv /\ [Next]_vars => Inv'
  <2> SUFFICES ASSUME TypeOK, Matching, faults = 0 => Keeping /\ Gapless, [Next]_vars
               PROVE  TypeOK' /\ Matching' /\ (faults' = 0 => Keeping' /\ Gapless')
    OBVIOUS
  <2>1. TypeOK' /\ Types'
    BY NextTypes, NextPending DEF TypeOK
  <2>2. Matching' /\ JidsDistinct'
    BY NextMatching DEF Matching
  <2>3. ASSUME faults' = 0
        PROVE  Keeping' /\ Gapless'
    <3>1. Keeping /\ Gapless /\ ~WriteFails
      BY <2>3, Unrefused
    <3> QED
      BY <2>1, <2>2, <3>1, NextKeeping, NextGapless
  <2> QED
    BY <2>1, <2>2, <2>3
<1>3. Inv => NoSeqGap
  <2> SUFFICES ASSUME Types, Gapless, NEW i \in Recorded, NEW n \in 0..MaxId,
                      n < calls[i].seq
               PROVE  \E j \in Recorded : calls[j] = [calls[i] EXCEPT !.seq = n]
    BY DEF NoSeqGap, TypeOK
  <2>1. n \in Nat /\ calls[i] \in Kept
    BY JournalAssumption DEF Types, Recorded
  <2>2. PICK j \in Id : calls[j] = [calls[i] EXCEPT !.seq = n]
    BY <2>1 DEF Gapless, FileGapless, Filed
  <2>3. calls[j] # None
    BY <2>1, <2>2, RecountedType, NoneAssumption
  <2> QED
    BY <2>2, <2>3 DEF Recorded
<1> QED
  BY <1>1, <1>2, <1>3, PTL DEF Spec


-----------------------------------------------------------------------------
(***************************************************************************)
(* The journal keeps a flow's memory (KeepsMemory), while no write was     *)
(* refused.  A call is found again by the way down to it.  The records in  *)
(* the file, and those that wait to be, are of calls no two of which have  *)
(* one way down, and the way down to a call of the run is that to its      *)
(* record: what is kept of a path is what its one record says, and what is *)
(* read or written at it is of that record.                                *)
(***************************************************************************)

\* A set of numbers that is not empty has a least.
LEMMA Least ==
  ASSUME NEW S \in SUBSET Nat, S # {}
  PROVE  \E i \in S : \A j \in S : i <= j
<1> DEFINE Less == {p \in Nat \X Nat : p[1] < p[2]}
<1>1. IsWellFoundedOn(Less, Nat)
  BY NatLessThanWellFounded DEF OpToRel
<1> HIDE DEF Less
<1>2. PICK i \in S : \A j \in S : <<j, i>> \notin Less
  BY <1>1, WFMin
<1>3. \A j \in S : ~(j < i)
  BY <1>2 DEF Less
<1> QED
  BY <1>3

\* Records each under one made before it.
Downward(record) ==
  /\ record \in [Id -> Kept \cup {None}]
  /\ \A i \in Id : record[i] # None /\ record[i].parent # 0 =>
       record[i].parent < i /\ record[record[i].parent] # None

\* Records no two of which are of one call: of one parent, digest and seq, or at the top.
Single(record) ==
  \A i, j \in Id :
    /\ record[i] # None /\ record[j] # None
    /\ record[i] = record[j] \/ (record[i].parent = 0 /\ record[j].parent = 0)
    => i = j

\* The way down to a record, once those to the records above it are known.
WayTo(record, ways, i) ==
  IF record[i] = None \/ record[i].parent = 0 THEN <<>>
  ELSE Append(ways[record[i].parent], <<record[i].digest, record[i].seq>>)

LEMMA ParentBelow ==
  ASSUME NEW record, Downward(record), NEW i \in Id, record[i] # None
  PROVE  /\ record[i] \in Kept /\ record[i].seq \in Nat /\ record[i].digest \in Digest
         /\ record[i].parent # 0 =>
              /\ record[i].parent \in Id /\ record[i].parent < i
              /\ record[record[i].parent] # None
BY DEF Downward, Kept

\* There are such ways: there is no first id they could not be carried on to.
LEMMA WaysExist ==
  ASSUME NEW record, Downward(record)
  PROVE  \E ways : ways = [i \in Id |-> WayTo(record, ways, i)]
<1> DEFINE Stuck == {n \in Nat : n <= MaxId /\ ~ \E f : f = [i \in 1..n |-> WayTo(record, f, i)]}
<1>1. SUFFICES ASSUME Stuck # {} PROVE FALSE
  BY JournalAssumption DEF Id
<1>2. PICK n \in Stuck : \A k \in Stuck : n <= k
  BY <1>1, Least
<1>3. CASE n = 0
  <2>1. [i \in 1..0 |-> <<>>] = [i \in 1..0 |-> WayTo(record, [j \in 1..0 |-> <<>>], i)]
    OBVIOUS
  <2> QED
    BY <1>3, <2>1
<1>4. CASE n # 0
  <2>0. n \in Nat /\ n <= MaxId /\ MaxId \in Nat
    BY JournalAssumption
  <2>1. n - 1 \in Nat /\ n - 1 <= MaxId /\ ~(n <= n - 1)
    BY ONLY <1>4, <2>0
  <2>2. n - 1 \notin Stuck
    <3> HIDE DEF Stuck
    <3> QED
      BY <1>2, <2>1
  <2>3. PICK g : g = [i \in 1..n - 1 |-> WayTo(record, g, i)]
    BY <2>1, <2>2
  <2> DEFINE f == [i \in 1..n |-> WayTo(record, g, i)]
  <2>4. \A i \in 1..n : f[i] = WayTo(record, g, i)
    OBVIOUS
  <2>5. \A i \in 1..n - 1 : g[i] = WayTo(record, g, i)
    BY ONLY <2>3, Zenon
  <2>6. \A i \in 1..n - 1 : i \in 1..n
    BY ONLY <2>0
  <2>7. \A i \in 1..n : i \in Id
    BY ONLY <2>0 DEF Id
  <2> HIDE DEF f
  <2>8. \A i \in 1..n - 1 : f[i] = g[i]
    BY ONLY <2>4, <2>5, <2>6
  <2>9. ASSUME NEW i \in 1..n
        PROVE  f[i] = WayTo(record, f, i)
    <3>1. CASE record[i] = None \/ record[i].parent = 0
      BY <2>4, <3>1 DEF WayTo
    <3>2. CASE ~(record[i] = None \/ record[i].parent = 0)
      <4>1. record[i].parent \in Id /\ record[i].parent < i
        BY <2>7, <3>2, ParentBelow
      <4>2. record[i].parent \in 1..n - 1
        BY ONLY <2>0, <4>1, i \in 1..n DEF Id
      <4>3. f[record[i].parent] = g[record[i].parent]
        BY ONLY <2>8, <4>2
      <4> QED
        BY <2>4, <4>3 DEF WayTo
    <3> QED
      BY <3>1, <3>2
  <2>10. f = [i \in 1..n |-> f[i]]
    BY DEF f
  <2>11. f = [i \in 1..n |-> WayTo(record, f, i)]
    BY ONLY <2>9, <2>10
  <2> QED
    BY <2>11
<1> QED
  BY <1>3, <1>4

LEMMA WaysIs ==
  ASSUME NEW record, Downward(record)
  PROVE  \A i \in Id : Ways(record)[i] = WayTo(record, Ways(record), i)
<1> DEFINE path == CHOOSE f : f = [i \in Id |-> WayTo(record, f, i)]
<1>1. path = [i \in Id |-> WayTo(record, path, i)]
  BY WaysExist
<1>2. Ways(record) = path
  BY Zenon DEF Ways, WayTo
<1> HIDE DEF path
<1> QED
  BY <1>1, <1>2, Zenon

\* Two sequences with one more at the end of each are one only where they were.
LEMMA AppendApart ==
  ASSUME NEW S, NEW a \in Seq(S), NEW b \in Seq(S), NEW x \in S, NEW y \in S,
         Append(a, x) = Append(b, y)
  PROVE  a = b /\ x = y
<1>1. /\ Append(a, x) \in Seq(S) /\ Len(Append(a, x)) = Len(a) + 1 /\ Len(a) \in Nat
      /\ Append(b, y) \in Seq(S) /\ Len(Append(b, y)) = Len(b) + 1 /\ Len(b) \in Nat
  OBVIOUS
<1>2. Len(a) = Len(b)
  BY <1>1
<1>3. Append(a, x)[Len(a) + 1] = x /\ Append(b, y)[Len(b) + 1] = y
  OBVIOUS
<1>4. x = y
  BY <1>2, <1>3
<1>5. \A i \in 1..Len(a) : Append(a, x)[i] = a[i] /\ Append(b, y)[i] = b[i]
  BY <1>2
<1>6. \A i \in 1..Len(a) : a[i] = b[i]
  BY <1>5
<1> QED
  BY <1>1, <1>2, <1>4, <1>6

LEMMA WaysType ==
  ASSUME NEW record, Downward(record)
  PROVE  \A i \in Id : Ways(record)[i] \in Seq(Digest \X Nat)
<1> DEFINE Off == {i \in Id : Ways(record)[i] \notin Seq(Digest \X Nat)}
<1>1. SUFFICES ASSUME Off # {} PROVE FALSE
  OBVIOUS
<1>2. Off \in SUBSET Nat
  BY DEF Id
<1>3. PICK i \in Off : \A j \in Off : i <= j
  <2> HIDE DEF Off
  <2> QED
    BY <1>1, <1>2, Least
<1>4. i \in Id /\ i \in Nat /\ Ways(record)[i] = WayTo(record, Ways(record), i)
  BY <1>2, WaysIs
<1>5. CASE record[i] = None \/ record[i].parent = 0
  <2>1. Ways(record)[i] = <<>>
    BY <1>4, <1>5 DEF WayTo
  <2>2. <<>> \in Seq(Digest \X Nat)
    OBVIOUS
  <2> QED
    BY <2>1, <2>2
<1>6. CASE ~(record[i] = None \/ record[i].parent = 0)
  <2>1. /\ record[i].parent \in Id /\ record[i].parent < i
        /\ <<record[i].digest, record[i].seq>> \in Digest \X Nat
    BY <1>4, <1>6, ParentBelow
  <2>2. record[i].parent \notin Off
    <3> HIDE DEF Off
    <3>1. ~(i <= record[i].parent)
      BY <1>4, <2>1 DEF Id
    <3> QED
      BY <1>3, <3>1
  <2>3. Ways(record)[record[i].parent] \in Seq(Digest \X Nat)
    BY <2>1, <2>2
  <2>4. Ways(record)[i] \in Seq(Digest \X Nat)
    BY <1>4, <1>6, <2>1, <2>3 DEF WayTo
  <2> QED
    BY <2>4
<1> QED
  BY <1>5, <1>6

\* No two records have one way down: of two that had, the first would be under two that had.
LEMMA WaysApart ==
  ASSUME NEW record, Downward(record), Single(record),
         NEW i \in Id, NEW j \in Id, record[i] # None, record[j] # None,
         Ways(record)[i] = Ways(record)[j]
  PROVE  i = j
<1> DEFINE Twin(k, l) == /\ record[k] # None /\ record[l] # None /\ k # l
                         /\ Ways(record)[k] = Ways(record)[l]
           Off == {k \in Id : \E l \in Id : Twin(k, l)}
<1>1. SUFFICES ASSUME i # j PROVE FALSE
  OBVIOUS
<1>2. Off \in SUBSET Nat /\ Off # {}
  BY <1>1 DEF Id
<1>3. PICK k \in Off : \A l \in Off : k <= l
  <2> HIDE DEF Off
  <2> QED
    BY <1>2, Least
<1>4. PICK l \in Id : Twin(k, l)
  OBVIOUS
<1>5. /\ k \in Id /\ record[k] # None /\ record[l] # None /\ k # l
      /\ WayTo(record, Ways(record), k) = WayTo(record, Ways(record), l)
  BY <1>4, WaysIs
<1>6. \A m \in Id : record[m] # None /\ record[m].parent # 0 =>
        /\ record[m].parent \in Id /\ record[m].parent < m /\ record[record[m].parent] # None
        /\ Ways(record)[record[m].parent] \in Seq(Digest \X Nat)
        /\ <<record[m].digest, record[m].seq>> \in Digest \X Nat
        /\ WayTo(record, Ways(record), m) =
             Append(Ways(record)[record[m].parent], <<record[m].digest, record[m].seq>>)
        /\ WayTo(record, Ways(record), m) # <<>>
  <2> SUFFICES ASSUME NEW m \in Id, record[m] # None, record[m].parent # 0
               PROVE  /\ record[m].parent \in Id /\ record[m].parent < m
                      /\ record[record[m].parent] # None
                      /\ Ways(record)[record[m].parent] \in Seq(Digest \X Nat)
                      /\ <<record[m].digest, record[m].seq>> \in Digest \X Nat
                      /\ WayTo(record, Ways(record), m) =
                           Append(Ways(record)[record[m].parent],
                                  <<record[m].digest, record[m].seq>>)
                      /\ WayTo(record, Ways(record), m) # <<>>
    OBVIOUS
  <2>1. /\ record[m].parent \in Id /\ record[m].parent < m /\ record[record[m].parent] # None
        /\ <<record[m].digest, record[m].seq>> \in Digest \X Nat
    BY ParentBelow
  <2>2. Ways(record)[record[m].parent] \in Seq(Digest \X Nat)
    BY <2>1, WaysType
  <2>3. WayTo(record, Ways(record), m) =
          Append(Ways(record)[record[m].parent], <<record[m].digest, record[m].seq>>)
    BY DEF WayTo
  <2>4. \A a \in Seq(Digest \X Nat), x \in Digest \X Nat : Append(a, x) # <<>>
    OBVIOUS
  <2> QED
    BY <2>1, <2>2, <2>3, <2>4
<1>7. CASE record[k].parent = 0 \/ record[l].parent = 0
  <2>1. record[k].parent = 0 /\ record[l].parent = 0
    BY <1>5, <1>6, <1>7 DEF WayTo
  <2> QED
    BY <1>5, <2>1 DEF Single
<1>8. CASE record[k].parent # 0 /\ record[l].parent # 0
  <2>1. /\ Ways(record)[record[k].parent] = Ways(record)[record[l].parent]
        /\ <<record[k].digest, record[k].seq>> = <<record[l].digest, record[l].seq>>
    <3> DEFINE a == Ways(record)[record[k].parent]
               b == Ways(record)[record[l].parent]
               x == <<record[k].digest, record[k].seq>>
               y == <<record[l].digest, record[l].seq>>
               S == Digest \X Nat
    <3>1. a \in Seq(S) /\ b \in Seq(S) /\ x \in S /\ y \in S
      BY <1>5, <1>6, <1>8
    <3>2. Append(a, x) = Append(b, y)
      <4>1. WayTo(record, Ways(record), k) = Append(a, x)
        BY <1>5, <1>6, <1>8
      <4>2. WayTo(record, Ways(record), l) = Append(b, y)
        BY <1>5, <1>6, <1>8
      <4> QED
        BY ONLY <1>5, <4>1, <4>2
    <3> HIDE DEF a, b, x, y, S
    <3>3. a = b /\ x = y
      BY <3>1, <3>2, AppendApart
    <3> QED
      BY <3>3 DEF a, b, x, y
  <2>2. record[k].parent \notin Off
    <3> HIDE DEF Off
    <3>1. record[k].parent \in Id /\ record[k].parent < k
      BY <1>5, <1>6, <1>8
    <3>2. ~(k <= record[k].parent)
      <4>1. k \in Nat /\ record[k].parent \in Nat
        BY <1>2, <1>5, <3>1 DEF Id
      <4> QED
        BY ONLY <3>1, <4>1
    <3> QED
      BY <1>3, <3>2
  <2>3. record[k].parent = record[l].parent
    BY <1>5, <1>6, <1>8, <2>1, <2>2
  <2>4. record[k] = record[l]
    <3>1. record[k] \in Kept /\ record[l] \in Kept
      BY <1>5, ParentBelow
    <3> QED
      BY <2>1, <2>3, <3>1 DEF Kept
  <2> QED
    BY <1>5, <2>4 DEF Single
<1> QED
  BY <1>7, <1>8

\* Records among others have the way down they have among those.
LEMMA WaysAmong ==
  ASSUME NEW record, NEW more, Downward(record), Downward(more),
         \A i \in Id : record[i] # None => more[i] = record[i]
  PROVE  \A i \in Id : record[i] # None => Ways(more)[i] = Ways(record)[i]
<1> DEFINE Off == {i \in Id : record[i] # None /\ Ways(more)[i] # Ways(record)[i]}
<1>1. SUFFICES ASSUME Off # {} PROVE FALSE
  OBVIOUS
<1>2. Off \in SUBSET Nat
  BY DEF Id
<1>3. PICK i \in Off : \A j \in Off : i <= j
  <2> HIDE DEF Off
  <2> QED
    BY <1>1, <1>2, Least
<1>4. /\ i \in Id /\ record[i] # None /\ more[i] = record[i]
      /\ Ways(more)[i] = WayTo(more, Ways(more), i)
      /\ Ways(record)[i] = WayTo(record, Ways(record), i)
  BY WaysIs
<1>5. CASE record[i].parent = 0
  BY <1>4, <1>5 DEF WayTo
<1>6. CASE record[i].parent # 0
  <2>1. record[i].parent \in Id /\ record[i].parent < i /\ record[record[i].parent] # None
    BY <1>4, <1>6, ParentBelow
  <2>2. record[i].parent \notin Off
    <3> HIDE DEF Off
    <3>1. ~(i <= record[i].parent)
      BY <1>4, <2>1 DEF Id
    <3> QED
      BY <1>3, <3>1
  <2>3. Ways(more)[record[i].parent] = Ways(record)[record[i].parent]
    BY <2>1, <2>2
  <2> QED
    BY <1>4, <1>6, <2>3 DEF WayTo
<1> QED
  BY <1>5, <1>6

\* Calls each recorded as it was made.
Recording(made, record) ==
  \A c \in Call : made[c] # None =>
    /\ made[c].jid \in Id /\ record[made[c].jid] # None
    /\ made[c].parent = Top => record[made[c].jid].parent = 0
    /\ made[c].parent # Top =>
         /\ made[c].parent \in Call /\ made[made[c].parent] # None
         /\ record[made[c].jid] = [parent |-> made[made[c].parent].jid,
                                   digest |-> made[c].digest, seq |-> made[c].seq]

\* The way down to a call is that to its record.
LEMMA RunWaysIs ==
  ASSUME NEW made, NEW record, Downward(record), Recording(made, record)
  PROVE  \A c \in Call : made[c] # None => RunWays(made)[c] = Ways(record)[made[c].jid]
<1> DEFINE next(f, c) == IF made[c] = None \/ made[c].parent = Top THEN <<>>
                         ELSE Append(f[made[c].parent], <<made[c].digest, made[c].seq>>)
           path == CHOOSE f : f = [c \in Call |-> next(f, c)]
           way == [c \in Call |-> IF made[c] = None THEN <<>> ELSE Ways(record)[made[c].jid]]
<1>1. ASSUME NEW c \in Call, made[c] # None, made[c].parent # Top
      PROVE  /\ made[c].jid \in Id /\ made[made[c].parent].jid \in Id
             /\ made[c].parent \in Call /\ made[made[c].parent] # None
             /\ made[made[c].parent].jid < made[c].jid
             /\ Ways(record)[made[c].jid] =
                  Append(Ways(record)[made[made[c].parent].jid], <<made[c].digest, made[c].seq>>)
  <2>1. /\ made[c].jid \in Id /\ record[made[c].jid] # None
        /\ made[c].parent \in Call /\ made[made[c].parent] # None
        /\ record[made[c].jid].parent = made[made[c].parent].jid
        /\ record[made[c].jid].digest = made[c].digest /\ record[made[c].jid].seq = made[c].seq
    <3>1. /\ made[c].jid \in Id /\ record[made[c].jid] # None
          /\ made[c].parent \in Call /\ made[made[c].parent] # None
          /\ record[made[c].jid] = [parent |-> made[made[c].parent].jid,
                                    digest |-> made[c].digest, seq |-> made[c].seq]
      BY <1>1, Zenon DEF Recording
    <3> QED
      BY ONLY <3>1
  <2>2. made[made[c].parent].jid \in Id /\ made[made[c].parent].jid # 0
    <3>1. made[made[c].parent].jid \in Id
      BY <2>1, Zenon DEF Recording
    <3> QED
      BY ONLY <3>1, JournalAssumption DEF Id
  <2>3. made[made[c].parent].jid < made[c].jid
    BY <2>1, <2>2, ParentBelow
  <2>4. Ways(record)[made[c].jid] = WayTo(record, Ways(record), made[c].jid)
    BY <2>1, WaysIs
  <2> QED
    BY <2>1, <2>2, <2>3, <2>4 DEF WayTo
<1>2. ASSUME NEW c \in Call, made[c] # None, made[c].parent = Top
      PROVE  made[c].jid \in Id /\ Ways(record)[made[c].jid] = <<>>
  <2>1. made[c].jid \in Id /\ record[made[c].jid].parent = 0
    BY <1>2 DEF Recording
  <2> QED
    BY <2>1, WaysIs DEF WayTo
<1>3. way = [c \in Call |-> next(way, c)]
  <2> DEFINE other == [c \in Call |-> next(way, c)]
  <2>1. ASSUME NEW c \in Call
        PROVE  way[c] = next(way, c)
    BY <1>1, <1>2
  <2>2. way = [c \in Call |-> way[c]]
    OBVIOUS
  <2> HIDE DEF way, next
  <2> QED
    BY ONLY <2>1, <2>2
<1>4. path = [c \in Call |-> next(path, c)]
  <2> HIDE DEF way, next
  <2> QED
    BY <1>3
<1>5. RunWays(made) = path
  BY Zenon DEF RunWays
<1> HIDE DEF path, way
<1>6. \A c \in Call : path[c] = next(path, c)
  <2> HIDE DEF next
  <2> QED
    BY ONLY <1>4, Zenon
<1> DEFINE Off == {made[c].jid : c \in {b \in Call : made[b] # None
                                          /\ path[b] # Ways(record)[made[b].jid]}}
<1>7. Off = {}
  <2> SUFFICES ASSUME Off # {} PROVE FALSE
    OBVIOUS
  <2>1. Off \in SUBSET Nat
    <3>1. \A b \in Call : made[b] # None => made[b].jid \in Id
      BY Zenon DEF Recording
    <3>2. Id \subseteq Nat
      BY DEF Id
    <3> QED
      BY ONLY <3>1, <3>2
  <2>2. PICK i \in Off : \A j \in Off : i <= j
    <3> HIDE DEF Off
    <3> QED
      BY <2>1, Least
  <2>3. PICK c \in Call : made[c] # None /\ path[c] # Ways(record)[made[c].jid] /\ i = made[c].jid
    OBVIOUS
  <2>4. CASE made[c].parent = Top
    BY <1>2, <1>6, <2>3, <2>4
  <2>5. CASE made[c].parent # Top
    <3>1. /\ made[c].parent \in Call /\ made[made[c].parent] # None
          /\ made[made[c].parent].jid < made[c].jid
          /\ made[made[c].parent].jid \in Id /\ made[c].jid \in Id
      BY <1>1, <2>3, <2>5
    <3>2. ~(i <= made[made[c].parent].jid)
      BY <2>3, <3>1 DEF Id
    <3>3. made[made[c].parent].jid \notin Off
      <4> HIDE DEF Off
      <4> QED
        BY <2>2, <3>2
    <3>4. path[made[c].parent] = Ways(record)[made[made[c].parent].jid]
      BY <3>1, <3>3
    <3>5. path[c] = Append(path[made[c].parent], <<made[c].digest, made[c].seq>>)
      BY <1>6, <2>3, <2>5
    <3>6. Ways(record)[made[c].jid] = path[c]
      BY <1>1, <2>3, <2>5, <3>4, <3>5
    <3> QED
      BY ONLY <2>3, <3>6
  <2> QED
    BY <2>4, <2>5
<1>8. \A c \in Call : made[c] # None => path[c] = Ways(record)[made[c].jid]
  BY ONLY <1>7
<1> HIDE DEF next
<1> QED
  BY ONLY <1>5, <1>8

-----------------------------------------------------------------------------
(* The records in the file and those that wait to be, and what a replay    *)
(* and the run make of each way down.                                      *)

\* The record a call is made with, and that of every call there is: as the file has it, or,
\* until it is there, as its call was made.
AsMade(made, c) ==
  [parent |-> IF made[c].parent = Top THEN 0 ELSE made[made[c].parent].jid,
   digest |-> made[c].digest, seq |-> made[c].seq]

Together(record, made) ==
  [i \in Id |->
     IF record[i] # None \/ ~ \E c \in Call : made[c] # None /\ made[c].jid = i
       THEN record[i]
       ELSE AsMade(made, CHOOSE c \in Call : made[c] # None /\ made[c].jid = i)]

Apart(made) ==
  \A b, c \in Call : made[b] # None /\ made[c] # None /\ made[b].jid = made[c].jid => b = c

\* Each record that waits is of a call of this run, as it was made.
Whose ==
  \A line \in Waiting : \E c \in Live : node[c].jid = line.id /\ RecordOf(line) = AsMade(node, c)

\* The record of the run's own flow is at the top.
RootAs ==
  \A c \in Live : node[c].parent = Top /\ calls[node[c].jid] # None =>
    calls[node[c].jid].parent = 0

\* What a process finds in the file was read on opening or is of a call of its run.
Whence ==
  phase # "down" =>
    \A i \in Recorded : past.calls[i] # None \/ \E c \in Live : node[c].jid = i

\* A run that picks nothing up has nothing to pick up.
PastRoot == past.root = 0 => \A i \in Id : past.calls[i] = None

\* No two records are of one call.
Sole == Single(Together(calls, node))

Gathered == Whose /\ RootAs /\ Whence /\ PastRoot /\ Sole

LEMMA TogetherIs ==
  ASSUME NEW record, NEW made, Apart(made)
  PROVE  /\ Together(record, made) = [i \in Id |-> Together(record, made)[i]]
         /\ \A i \in Id : record[i] # None => Together(record, made)[i] = record[i]
         /\ \A c \in Call : made[c] # None /\ made[c].jid \in Id /\ record[made[c].jid] = None =>
              Together(record, made)[made[c].jid] = AsMade(made, c)
         /\ \A i \in Id :
              record[i] = None /\ (\A c \in Call : made[c] # None => made[c].jid # i) =>
                Together(record, made)[i] = None
<1> DEFINE is(i, c) == made[c] # None /\ made[c].jid = i
           T == Together(record, made)
<1>1. T = [i \in Id |-> T[i]]
  BY DEF Together
<1>2. \A i \in Id : T[i] = IF record[i] # None \/ ~ \E c \in Call : is(i, c) THEN record[i]
                           ELSE AsMade(made, CHOOSE c \in Call : is(i, c))
  BY DEF Together
<1>3. ASSUME NEW c \in Call, made[c] # None, made[c].jid \in Id, record[made[c].jid] = None
      PROVE  T[made[c].jid] = AsMade(made, c)
  <2> DEFINE b == CHOOSE b \in Call : is(made[c].jid, b)
  <2>1. b \in Call /\ is(made[c].jid, b)
    BY <1>3, Zenon
  <2>2. b = c
    BY <1>3, <2>1 DEF Apart
  <2>3. T[made[c].jid] = AsMade(made, b)
    <3> HIDE DEF T
    <3> QED
      BY <1>2, <1>3, Zenon
  <2> QED
    BY <2>2, <2>3
<1> HIDE DEF T
<1>4. \A i \in Id : record[i] # None => T[i] = record[i]
  BY <1>2, Zenon
<1>5. \A i \in Id : record[i] = None /\ (\A c \in Call : made[c] # None => made[c].jid # i) =>
        T[i] = None
  BY <1>2, Zenon
<1> QED
  BY <1>1, <1>3, <1>4, <1>5 DEF T

\* Of each way, what is kept is what its one record says.
Mapped(mem, record, said) ==
  /\ mem = [p \in Path |-> mem[p]]
  /\ \A p \in Path, i \in Id : record[i] # None /\ Ways(record)[i] = p => mem[p] = said[i]
  /\ \A p \in Path :
       (\A i \in Id : record[i] # None => Ways(record)[i] # p) => mem[p] = Blank

LEMMA RememberedIs ==
  ASSUME NEW record, NEW said, Downward(record), Single(record)
  PROVE  Mapped(Remembered(record, said), record, said)
<1> DEFINE these == {i \in Id : record[i] # None}
           ways == Ways(record)
           known == {ways[i] : i \in these}
           at(p) == CHOOSE i \in these : ways[i] = p
           mem == Remembered(record, said)
<1>1. mem = [p \in Path |-> IF p \in known THEN said[at(p)] ELSE Blank]
  BY Zenon DEF Remembered
<1>2. ASSUME NEW p \in Path, NEW i \in Id, record[i] # None, Ways(record)[i] = p
      PROVE  mem[p] = said[i]
  <2>1. p \in known
    BY <1>2
  <2>2. at(p) \in these /\ ways[at(p)] = p
    BY <1>2, Zenon
  <2>3. at(p) = i
    <3> HIDE DEF at
    <3> QED
      BY <1>2, <2>2, WaysApart
  <2> HIDE DEF mem, known, at
  <2> QED
    BY <1>1, <2>1, <2>3
<1>3. ASSUME NEW p \in Path, \A i \in Id : record[i] # None => Ways(record)[i] # p
      PROVE  mem[p] = Blank
  <2>1. p \notin known
    BY <1>3
  <2> HIDE DEF mem, known, at
  <2> QED
    BY <1>1, <2>1
<1>4. mem = [p \in Path |-> mem[p]]
  <2> HIDE DEF known, at
  <2>1. DOMAIN mem = Path
    BY <1>1
  <2> HIDE DEF mem
  <2> QED
    BY <1>1
<1> QED
  BY <1>2, <1>3, <1>4 DEF Mapped

\* Records of which nothing was said add nothing to what is kept.
LEMMA MemoryAlike ==
  ASSUME NEW record, NEW more, NEW said, NEW mem, NEW other,
         Downward(record), Downward(more),
         \A i \in Id : record[i] # None => more[i] = record[i],
         \A i \in Id : record[i] = None /\ more[i] # None => said[i] = Blank,
         Mapped(mem, record, said), Mapped(other, more, said)
  PROVE  mem = other
<1>1. \A i \in Id : record[i] # None => Ways(more)[i] = Ways(record)[i] /\ more[i] # None
  BY WaysAmong
<1>2. ASSUME NEW p \in Path
      PROVE  mem[p] = other[p]
  <2>1. CASE \E i \in Id : record[i] # None /\ Ways(record)[i] = p
    <3>1. PICK i \in Id : record[i] # None /\ Ways(record)[i] = p
      BY <2>1
    <3> QED
      BY <1>1, <3>1 DEF Mapped
  <2>2. CASE ~ \E i \in Id : record[i] # None /\ Ways(record)[i] = p
    <3>1. mem[p] = Blank
      BY <2>2 DEF Mapped
    <3>2. CASE \E i \in Id : more[i] # None /\ Ways(more)[i] = p
      <4>1. PICK i \in Id : more[i] # None /\ Ways(more)[i] = p
        BY <3>2
      <4>2. record[i] = None
        BY <1>1, <2>2, <4>1
      <4>3. other[p] = said[i] /\ said[i] = Blank
        BY <4>1, <4>2 DEF Mapped
      <4> QED
        BY <3>1, <4>3
    <3>3. CASE ~ \E i \in Id : more[i] # None /\ Ways(more)[i] = p
      BY <3>1, <3>3 DEF Mapped
    <3> QED
      BY <3>2, <3>3
  <2> QED
    BY <2>1, <2>2
<1>3. mem = [p \in Path |-> mem[p]] /\ other = [p \in Path |-> other[p]]
  BY DEF Mapped
<1> QED
  BY ONLY <1>2, <1>3

\* Of each way, what a call of the run holds is what the one there holds.
Seen(vw, record, made) ==
  /\ vw = [p \in Path |-> vw[p]]
  /\ \A p \in Path, c \in Call :
       made[c] # None /\ Ways(record)[made[c].jid] = p => vw[p] = made[c].held
  /\ \A p \in Path :
       (\A c \in Call : made[c] # None => Ways(record)[made[c].jid] # p) => vw[p] = None

LEMMA ViewedIs ==
  ASSUME NEW record, NEW made, Downward(record), Single(record), Recording(made, record),
         Apart(made)
  PROVE  Seen(Viewed(made), record, made)
<1> DEFINE these == {c \in Call : made[c] # None}
           ways == RunWays(made)
           taken == {ways[c] : c \in these}
           at(p) == CHOOSE c \in these : ways[c] = p
           vw == Viewed(made)
<1>1. vw = [p \in Path |-> IF p \in taken THEN made[at(p)].held ELSE None]
  BY Zenon DEF Viewed
<1>2. \A c \in Call : made[c] # None => ways[c] = Ways(record)[made[c].jid]
  BY RunWaysIs
<1>3. \A c \in Call : made[c] # None => made[c].jid \in Id /\ record[made[c].jid] # None
  BY Zenon DEF Recording
<1>4. ASSUME NEW p \in Path, NEW c \in Call, made[c] # None, Ways(record)[made[c].jid] = p
      PROVE  vw[p] = made[c].held
  <2>1. c \in these /\ ways[c] = p
    BY <1>2, <1>4
  <2>2. p \in taken
    BY <2>1
  <2>3. at(p) \in these /\ ways[at(p)] = p
    <3> HIDE DEF ways, these
    <3> QED
      BY <2>1, Zenon
  <2>4. PICK b \in Call : b = at(p) /\ made[b] # None /\ ways[b] = p
    <3> HIDE DEF at, ways
    <3> QED
      BY <2>3
  <2>5. made[b].jid = made[c].jid
    <3>1. Ways(record)[made[b].jid] = Ways(record)[made[c].jid]
      BY <1>2, <1>4, <2>4
    <3> QED
      BY <1>3, <1>4, <2>4, <3>1, WaysApart
  <2>6. b = c
    BY <1>4, <2>4, <2>5 DEF Apart
  <2> HIDE DEF vw, taken, at
  <2> QED
    BY <1>1, <2>2, <2>4, <2>6
<1>5. ASSUME NEW p \in Path, \A c \in Call : made[c] # None => Ways(record)[made[c].jid] # p
      PROVE  vw[p] = None
  <2>1. p \notin taken
    BY <1>2, <1>5
  <2> HIDE DEF vw, taken, at
  <2> QED
    BY <1>1, <2>1
<1>6. vw = [p \in Path |-> vw[p]]
  <2> HIDE DEF taken, at
  <2>1. DOMAIN vw = Path
    BY <1>1
  <2> HIDE DEF vw
  <2> QED
    BY <1>1
<1> QED
  BY <1>4, <1>5, <1>6 DEF Seen

\* What the records there are say of the calls there are: each is above those under it, and of
\* the one call whose way down it has.
Charted(record, made) ==
  /\ Downward(record) /\ Single(record) /\ Recording(made, record) /\ Apart(made)

\* With the calls and what waits in view, what is kept and what is held are as the file and the
\* run have it.
Mapping ==
  /\ Charted(Together(calls, node), node)
  /\ \A i \in Id : calls[i] # None => Together(calls, node)[i] = calls[i]
  /\ Downward(calls)
  /\ Mapped(memory, calls, state) /\ Mapped(memory, Together(calls, node), state)
  /\ Seen(view, Together(calls, node), node)

Joined == TypeOK /\ Matching /\ Keeping /\ Gapless /\ Gathered

LEMMA ApartIs == JidsDistinct <=> Apart(node)
BY DEF JidsDistinct, Apart, Live

\* A call whose record waits was made under one with a lower id.
LEMMA MadeBelow ==
  ASSUME Joined, NEW c \in Live
  PROVE  /\ c \in Call /\ node[c] # None /\ node[c].jid \in Id
         /\ node[c].parent = Top \/ node[c].parent \in Live
         /\ node[c].parent # Top => node[c].parent \in Call /\ node[node[c].parent].jid \in Id
         /\ AsMade(node, c) \in Kept
         /\ calls[node[c].jid] = None =>
              (AsMade(node, c).parent # 0 => AsMade(node, c).parent < node[c].jid)
<1>1. Types /\ c \in Call /\ node[c] # None /\ node[c] \in Node /\ node[c].jid \in Id
  BY LiveJids DEF Joined, TypeOK, Live
<1>2. node[c].parent = Top \/ node[c].parent \in Live
  BY DEF Joined, Matching, Parents
<1>3. node[c].parent # Top => node[c].parent \in Call /\ node[node[c].parent].jid \in Id
  BY <1>1, <1>2, LiveJids
<1>4. AsMade(node, c) \in Kept
  <2>1. node[c].digest \in Digest /\ node[c].seq \in Nat
    BY <1>1 DEF Node
  <2>2. (IF node[c].parent = Top THEN 0 ELSE node[node[c].parent].jid) \in Id \cup {0}
    BY <1>3
  <2> QED
    BY <2>1, <2>2 DEF AsMade, Kept
<1>5. ASSUME calls[node[c].jid] = None, AsMade(node, c).parent # 0
      PROVE  AsMade(node, c).parent < node[c].jid
  <2>1. PICK n \in DOMAIN buffer : IsCall(buffer[n], node[c].jid)
    BY <1>5 DEF Joined, Keeping, Known, Coming
  <2>2. /\ n \in DOMAIN buffer /\ buffer[n].t = "call" /\ buffer[n].id = node[c].jid
        /\ buffer[n] \in Waiting
    BY <2>1 DEF IsCall, Waiting, CallLines
  <2>3. PICK b \in Live : node[b].jid = buffer[n].id /\ RecordOf(buffer[n]) = AsMade(node, b)
    BY <2>2 DEF Joined, Gathered, Whose
  <2>4. b = c
    BY <2>2, <2>3 DEF Joined, Matching, JidsDistinct
  <2>5. buffer[n].parent = AsMade(node, c).parent
    BY <2>3, <2>4 DEF RecordOf
  <2>6. buffer[n].parent # 0 => buffer[n].parent < buffer[n].id
    BY <2>2 DEF Joined, Keeping, Lined
  <2> QED
    BY <1>5, <2>2, <2>5, <2>6
<1> QED
  BY <1>1, <1>2, <1>3, <1>4, <1>5

LEMMA JoinedMapping == Joined => Mapping
<1> SUFFICES ASSUME Joined PROVE Mapping
  OBVIOUS
<1> DEFINE T == Together(calls, node)
<1>1. Types /\ Apart(node) /\ Single(T) /\ Live = {c \in Call : node[c] # None}
  BY ApartIs DEF Joined, TypeOK, Matching, Gathered, Sole, Live
<1>2. /\ T = [i \in Id |-> T[i]]
      /\ \A i \in Id : calls[i] # None => T[i] = calls[i]
      /\ \A c \in Live : calls[node[c].jid] = None => T[node[c].jid] = AsMade(node, c)
      /\ \A i \in Id : calls[i] = None /\ (\A c \in Live : node[c].jid # i) => T[i] = None
  <2>1. \A c \in Live : node[c].jid \in Id
    BY <1>1, LiveJids
  <2> QED
    BY <1>1, <2>1, TogetherIs
<1> HIDE DEF T
<1>3. \A i \in Id : calls[i] \in Kept \cup {None}
  BY <1>1 DEF Types
<1>4. ASSUME NEW c \in Live
      PROVE  T[node[c].jid] # None
  <2>1. node[c].jid \in Id /\ AsMade(node, c) # None
    BY MadeBelow, NoneAssumption
  <2>2. calls[node[c].jid] = None => T[node[c].jid] = AsMade(node, c)
    BY <1>2
  <2>3. calls[node[c].jid] # None => T[node[c].jid] = calls[node[c].jid]
    BY <1>2, <2>1
  <2> QED
    BY <2>1, <2>2, <2>3
<1>5. T \in [Id -> Kept \cup {None}]
  <2>1. ASSUME NEW i \in Id
        PROVE  T[i] \in Kept \cup {None}
    <3>1. CASE calls[i] # None
      BY <1>2, <1>3, <3>1
    <3>2. CASE calls[i] = None /\ \E c \in Live : node[c].jid = i
      BY <1>2, <3>2, MadeBelow
    <3>3. CASE calls[i] = None /\ \A c \in Live : node[c].jid # i
      BY <1>2, <3>3
    <3> QED
      BY <3>1, <3>2, <3>3
  <2> QED
    BY <1>2, <2>1
<1>6. Downward(T)
  <2> SUFFICES ASSUME NEW i \in Id, T[i] # None, T[i].parent # 0
               PROVE  T[i].parent < i /\ T[T[i].parent] # None
    BY <1>5 DEF Downward
  <2>1. CASE calls[i] # None
    <3>1. T[i] = calls[i] /\ i \in Recorded /\ calls[i].parent \in Id
      BY <1>2, <1>3, <2>1 DEF Kept, Recorded
    <3>2. calls[i].parent < i /\ calls[calls[i].parent] # None
      BY <3>1 DEF Joined, Keeping, ParentsRecorded
    <3> QED
      BY <1>2, <3>1, <3>2
  <2>2. CASE calls[i] = None
    <3>1. PICK c \in Live : node[c].jid = i
      BY <1>2, <2>2
    <3>2. T[i] = AsMade(node, c)
      BY <1>2, <2>2, <3>1
    <3>3. T[i].parent < i
      BY <2>2, <3>1, <3>2, MadeBelow
    <3>4. node[c].parent # Top /\ T[i].parent = node[node[c].parent].jid
      BY <3>2 DEF AsMade
    <3>5. node[c].parent \in Live
      BY <3>4, MadeBelow
    <3> QED
      BY <1>4, <3>3, <3>4, <3>5
  <2> QED
    BY <2>1, <2>2
<1>7. Recording(node, T)
  <2> SUFFICES ASSUME NEW c \in Live
               PROVE  /\ node[c].jid \in Id /\ T[node[c].jid] # None
                      /\ node[c].parent = Top => T[node[c].jid].parent = 0
                      /\ node[c].parent # Top =>
                           /\ node[c].parent \in Call /\ node[node[c].parent] # None
                           /\ T[node[c].jid] = [parent |-> node[node[c].parent].jid,
                                                digest |-> node[c].digest, seq |-> node[c].seq]
    BY <1>1 DEF Recording
  <2>1. /\ node[c].jid \in Id /\ T[node[c].jid] # None
        /\ node[c].parent # Top => node[c].parent \in Call /\ node[node[c].parent] # None
    BY <1>4, MadeBelow
  <2>2. CASE calls[node[c].jid] = None
    <3>1. T[node[c].jid] = AsMade(node, c)
      BY <1>2, <2>2
    <3> QED
      BY <2>1, <3>1 DEF AsMade
  <2>3. CASE calls[node[c].jid] # None
    <3>1. T[node[c].jid] = calls[node[c].jid]
      BY <1>2, <2>1, <2>3
    <3>2. node[c].parent = Top => calls[node[c].jid].parent = 0
      BY <2>3 DEF Joined, Gathered, RootAs
    <3>3. ASSUME node[c].parent # Top
          PROVE  calls[node[c].jid] = MadeAs(c)
      <4>1. \A line \in Waiting : line.id # node[c].jid
        BY <2>3 DEF Joined, Gapless, NewIds
      <4> QED
        BY <3>3, <4>1 DEF Joined, Gapless, Written
    <3> QED
      BY <2>1, <3>1, <3>2, <3>3 DEF MadeAs
  <2> QED
    BY <2>2, <2>3
<1>8. Downward(calls)
  BY <1>1 DEF Downward, Types, Joined, Keeping, ParentsRecorded, Recorded
<1>9. Single(calls)
  BY <1>1, <1>2 DEF Single
<1>10. \A i \in Id : calls[i] = None => state[i] = Blank
  BY DEF Joined, Keeping, Unrecorded
<1>11. Mapped(memory, calls, state)
  BY <1>8, <1>9, RememberedIs DEF memory
<1>12. Mapped(memory, T, state)
  <2>1. Mapped(Remembered(T, state), T, state)
    BY <1>1, <1>6, RememberedIs DEF T
  <2>2. memory = Remembered(T, state)
    BY <1>2, <1>6, <1>8, <1>10, <1>11, <2>1, MemoryAlike
  <2> QED
    BY <2>1, <2>2
<1>13. Seen(view, T, node)
  BY <1>1, <1>6, <1>7, ViewedIs DEF view, T
<1> QED
  BY <1>1, <1>2, <1>6, <1>7, <1>8, <1>11, <1>12, <1>13 DEF Mapping, Charted, T

\* Nothing is recorded or waits, and no call is made, as the process starts.
LEMMA InitGathered == Init => Gathered
<1> SUFFICES ASSUME Init PROVE Gathered
  OBVIOUS
<1>1. Live = {} /\ Waiting = {} /\ calls = [i \in Id |-> None]
  BY DEF Init, Live, Waiting, CallLines
<1>2. PastRoot /\ Whence
  BY DEF Init, PastRoot, NoPast, Whence
<1>3. Apart(node) /\ \A c \in Call : node[c] = None
  BY DEF Init, Apart
<1>4. \A i \in Id : Together(calls, node)[i] = None
  BY <1>1, <1>3, TogetherIs
<1> QED
  BY <1>1, <1>2, <1>4 DEF Gathered, Whose, RootAs, Sole, Single

\* What says no more of a call than there was leaves the records as they were.
LEMMA TogetherSame ==
  ASSUME NEW record, NEW made, NEW more, NEW others, Apart(made), Apart(others),
         \A i \in Id : record[i] # None => more[i] = record[i],
         \A c \in Call : made[c] # None => others[c] # None /\ others[c].jid = made[c].jid
                                           /\ AsMade(others, c) = AsMade(made, c),
         \A c \in Call : made[c] # None => made[c].jid \in Id,
         \A i \in Id : record[i] = None /\ more[i] # None =>
            \E c \in Call : made[c] # None /\ made[c].jid = i /\ more[i] = AsMade(made, c),
         \A c \in Call : made[c] = None /\ others[c] # None =>
            others[c].jid \in Id /\ record[others[c].jid] # None
  PROVE  Together(more, others) = Together(record, made)
<1> DEFINE T == Together(record, made)
           U == Together(more, others)
<1>1. /\ T = [i \in Id |-> T[i]]
      /\ \A i \in Id : record[i] # None => T[i] = record[i]
      /\ \A c \in Call : made[c] # None /\ record[made[c].jid] = None =>
           T[made[c].jid] = AsMade(made, c)
      /\ \A i \in Id : record[i] = None /\ (\A c \in Call : made[c] # None => made[c].jid # i) =>
           T[i] = None
  BY TogetherIs
<1>2. /\ U = [i \in Id |-> U[i]]
      /\ \A i \in Id : more[i] # None => U[i] = more[i]
      /\ \A c \in Call : others[c] # None /\ others[c].jid \in Id /\ more[others[c].jid] = None =>
           U[others[c].jid] = AsMade(others, c)
      /\ \A i \in Id : more[i] = None /\ (\A c \in Call : others[c] # None => others[c].jid # i) =>
           U[i] = None
  BY TogetherIs
<1> HIDE DEF T, U
<1>3. ASSUME NEW i \in Id
      PROVE  U[i] = T[i]
  <2>1. CASE record[i] # None
    BY <1>1, <1>2, <2>1
  <2>2. CASE record[i] = None /\ more[i] # None
    <3>1. PICK c \in Call : made[c] # None /\ made[c].jid = i /\ more[i] = AsMade(made, c)
      BY <2>2
    <3> QED
      BY <1>1, <1>2, <2>2, <3>1
  <2>3. CASE more[i] = None /\ \E c \in Call : made[c] # None /\ made[c].jid = i
    <3>1. PICK c \in Call : made[c] # None /\ made[c].jid = i
      BY <2>3
    <3>2. record[i] = None
      BY <2>3
    <3>3. T[i] = AsMade(made, c)
      BY <1>1, <3>1, <3>2
    <3>4. U[i] = AsMade(others, c)
      BY <1>2, <2>3, <3>1
    <3> QED
      BY <3>1, <3>3, <3>4
  <2>4. CASE more[i] = None /\ ~ \E c \in Call : made[c] # None /\ made[c].jid = i
    <3>1. record[i] = None
      BY <2>4
    <3>2. \A c \in Call : others[c] # None => others[c].jid # i
      BY <2>4, <3>1
    <3> QED
      BY <1>1, <1>2, <2>4, <3>1, <3>2
  <2> QED
    BY <2>1, <2>2, <2>3, <2>4
<1> QED
  BY <1>1, <1>2, <1>3 DEF T, U

\* With the same in the file and waiting, and calls made by the same, all is as it was.
LEMMA SameGathered ==
  ASSUME TypeOK, Joined, Apart(node'), UNCHANGED <<calls, past>>, Waiting' = Waiting,
         phase' = "down" <=> phase = "down", Unmade
  PROVE  Gathered' /\ Together(calls', node') = Together(calls, node)
<1>1. Types /\ Apart(node) /\ Live = {c \in Call : node[c] # None}
      /\ Live = {c \in Call : node'[c] # None} /\ Live' = Live
  BY ApartIs DEF Joined, TypeOK, Matching, Live, Unmade
<1>2. /\ \A c \in Live : node'[c].jid = node[c].jid /\ node'[c].parent = node[c].parent
                         /\ AsMade(node', c) = AsMade(node, c)
  <2> SUFFICES ASSUME NEW c \in Live
               PROVE  AsMade(node', c) = AsMade(node, c)
    BY DEF Unmade
  <2>1. node[c].parent # Top => node[c].parent \in Live
    BY MadeBelow
  <2> QED
    BY <2>1 DEF Unmade, AsMade
<1>3. Together(calls', node') = Together(calls, node)
  <2>1. \A c \in Live : node[c].jid \in Id
    BY <1>1, LiveJids
  <2> QED
    BY <1>1, <1>2, <2>1, TogetherSame
<1>4. Sole'
  BY <1>3 DEF Joined, Gathered, Sole
<1>5. Whose'
  BY <1>1, <1>2 DEF Joined, Gathered, Whose, RecordOf
<1>6. RootAs'
  BY <1>1, <1>2 DEF Joined, Gathered, RootAs
<1>7. Whence' /\ PastRoot'
  BY <1>1, <1>2 DEF Joined, Gathered, Whence, PastRoot, Recorded
<1> QED
  BY <1>3, <1>4, <1>5, <1>6, <1>7 DEF Gathered

\* A record written is that of a call of the run, as it waited.
LEMMA LineGathered ==
  ASSUME TypeOK, Types', Joined, Gapless', WriteLine
  PROVE  Gathered' /\ Together(calls', node') = Together(calls, node)
<1> DEFINE line == Head(buffer)
<1>1. /\ Types /\ buffer # <<>> /\ buffer' = Tail(buffer) /\ phase = "open" /\ ~torn
      /\ UNCHANGED <<phase, past, ids, seqs, node>>
      /\ Replayed(line)
  BY DEF WriteLine, TypeOK, run, Joined, Keeping, Whole
<1>2. /\ line.t # "call" => Waiting' = Waiting
      /\ line.t = "call" => Waiting = Waiting' \cup {line}
  BY <1>1, WaitingTailed DEF Joined, Gapless
<1>3. Live' = Live /\ Apart(node) /\ Apart(node')
  BY <1>1, ApartIs DEF Live, Joined, Matching
<1>4. CASE line.t # "call"
  <2>1. UNCHANGED calls
    BY <1>1, <1>4 DEF Replayed
  <2>2. Unmade
    BY <1>1, <1>3 DEF Unmade
  <2> QED
    BY <1>1, <1>2, <1>3, <1>4, <2>1, <2>2, SameGathered
<1>5. CASE line.t = "call"
  <2> DEFINE i == line.id
  <2>1. line \in Waiting /\ i \in Id /\ RecordOf(line) \in Kept
    BY <1>1, <1>2, <1>5, WaitingType
  <2>2. calls' = [calls EXCEPT ![i] = RecordOf(line)]
    BY <1>1, <1>5 DEF Replayed, RecordOf
  <2>3. calls[i] = None
    BY <2>1 DEF Joined, Gapless, NewIds
  <2>4. PICK b \in Live : node[b].jid = i /\ RecordOf(line) = AsMade(node, b)
    BY <2>1 DEF Joined, Gathered, Whose
  <2>5. /\ calls'[i] = AsMade(node, b) /\ calls'[i] # None
        /\ \A j \in Id : j # i => calls'[j] = calls[j]
    BY <1>1, <2>1, <2>2, <2>4, NoneAssumption DEF Types
  <2> HIDE DEF i, line
  <2>6. Together(calls', node') = Together(calls, node)
    <3>1. \A c \in Live : c \in Call /\ node[c].jid \in Id
      BY <1>1, LiveJids
    <3>2. Live = {c \in Call : node[c] # None}
      BY DEF Live
    <3>3. UNCHANGED node
      BY <1>1
    <3>4. \A j \in Id : calls[j] # None => calls'[j] = calls[j]
      BY <2>3, <2>5
    <3>5. \A j \in Id : calls[j] = None /\ calls'[j] # None =>
            \E c \in Call : node[c] # None /\ node[c].jid = j /\ calls'[j] = AsMade(node, c)
      BY <2>4, <2>5, <3>2
    <3> QED
      BY <1>3, <3>1, <3>2, <3>3, <3>4, <3>5, TogetherSame
  <2>7. Sole'
    BY <2>6 DEF Joined, Gathered, Sole
  <2>8. Whose'
    <3>1. Whose /\ UNCHANGED node /\ Waiting' \subseteq Waiting
      BY <1>1, <1>2, <1>5 DEF Joined, Gathered
    <3>2. \A other \in Waiting' : \E c \in Live :
            node[c].jid = other.id /\ RecordOf(other) = AsMade(node, c)
      BY <3>1 DEF Whose
    <3> QED
      BY <1>3, <3>1, <3>2 DEF Whose, RecordOf
  <2>9. RootAs'
    <3> SUFFICES ASSUME NEW c \in Live, node[c].parent = Top, calls'[node[c].jid] # None
                 PROVE  calls'[node[c].jid].parent = 0
      BY <1>1, <1>3 DEF RootAs
    <3>1. node[c].jid \in Id
      BY <1>1, LiveJids
    <3>2. CASE node[c].jid = i
      <4>1. b = c
        BY <2>4, <3>2 DEF Joined, Matching, JidsDistinct
      <4> QED
        BY <2>5, <3>2, <4>1 DEF AsMade
    <3>3. CASE node[c].jid # i
      BY <2>5, <3>1, <3>3 DEF Joined, Gathered, RootAs
    <3> QED
      BY <3>2, <3>3
  <2>10. Whence' /\ PastRoot'
    <3>1. PastRoot'
      BY <1>1 DEF Joined, Gathered, PastRoot
    <3>2. ASSUME NEW j \in Recorded'
          PROVE  past.calls[j] # None \/ \E c \in Live : node[c].jid = j
      <4>1. j \in Id /\ calls'[j] # None
        BY DEF Recorded
      <4>2. CASE j = i
        BY <2>4, <4>2
      <4>3. CASE j # i
        BY <1>1, <2>5, <4>1, <4>3 DEF Joined, Gathered, Whence, Recorded
      <4> QED
        BY <4>2, <4>3
    <3> QED
      BY <1>1, <1>3, <3>1, <3>2 DEF Whence
  <2> QED
    BY <2>6, <2>7, <2>8, <2>9, <2>10 DEF Gathered
<1> QED
  BY <1>4, <1>5

\* A call that starts afresh is none that there is a record of: it would have been made before
\* by this run, and be of another count, or been matched with that record.
LEMMA CallNew ==
  ASSUME Joined, Types, phase = "open", NEW parent \in Call \cup {Top}, NEW d \in Digest,
         parent = Top \/ parent \in Live,
         parent = Top => \A b \in Live : node[b].parent # Top,
         Earlier(parent, d, SeqOf(parent, d)) = {},
         NEW i \in Id, Together(calls, node)[i] # None
  PROVE  /\ parent = Top => Together(calls, node)[i].parent # 0
         /\ parent # Top => Together(calls, node)[i] #
              [parent |-> node[parent].jid, digest |-> d, seq |-> SeqOf(parent, d)]
<1> DEFINE T == Together(calls, node)
           seq == SeqOf(parent, d)
<1>1. /\ Downward(T) /\ Recording(node, T) /\ Apart(node)
      /\ \A j \in Id : calls[j] # None => T[j] = calls[j]
  BY JoinedMapping DEF Mapping, Charted
<1>2. \A j \in Id : calls[j] = None /\ (\A c \in Live : node[c].jid # j) => T[j] = None
  BY <1>1, TogetherIs DEF Live
<1> HIDE DEF T
<1>3. past.calls[i] # None \/ \E b \in Live : node[b].jid = i
  <2>1. i \in Recorded \/ \E b \in Live : node[b].jid = i
    BY <1>2 DEF T, Recorded
  <2> QED
    BY <2>1 DEF Joined, Gathered, Whence
<1>4. ASSUME NEW b \in Live, node[b].jid = i
      PROVE  /\ parent = Top => T[i].parent # 0
             /\ parent # Top => T[i] # [parent |-> node[parent].jid, digest |-> d, seq |-> seq]
  <2>1. /\ b \in Call /\ node[b] # None
        /\ node[b].parent = Top \/ (node[b].parent \in Live /\ node[node[b].parent].jid \in Id)
    BY MadeBelow
  <2>2. /\ node[b].parent = Top => T[i].parent = 0
        /\ node[b].parent # Top => T[i] = [parent |-> node[node[b].parent].jid,
                                           digest |-> node[b].digest, seq |-> node[b].seq]
    BY <1>1, <1>4, <2>1, Zenon DEF Recording
  <2>3. ASSUME parent = Top
        PROVE  T[i].parent # 0
    <3>1. node[b].parent # Top
      BY <2>3
    <3>2. T[i].parent = node[node[b].parent].jid /\ node[node[b].parent].jid \in Id
      BY <2>1, <2>2, <3>1
    <3> QED
      BY <3>2 DEF Id
  <2>4. ASSUME parent # Top, T[i] = [parent |-> node[parent].jid, digest |-> d, seq |-> seq]
        PROVE  FALSE
    <3>1. parent \in Live /\ node[parent].jid \in Id
      BY <2>4, LiveJids
    <3>2. T[i].parent = node[parent].jid /\ T[i].digest = d /\ T[i].seq = seq
      BY <2>4
    <3>3. node[b].parent # Top
      <4>1. T[i].parent # 0
        BY <3>1, <3>2 DEF Id
      <4> QED
        BY <2>2, <4>1
    <3>4. /\ node[node[b].parent].jid = node[parent].jid
          /\ node[b].digest = d /\ node[b].seq = seq
      BY <2>2, <3>2, <3>3
    <3>5. node[b].parent = parent
      BY <2>1, <3>1, <3>3, <3>4 DEF Joined, Matching, JidsDistinct
    <3>6. node[b].seq < seqs[parent][d]
      BY <3>4, <3>5 DEF Joined, Matching, Seqs
    <3>7. seqs[parent][d] \in Nat
      BY DEF Types
    <3> QED
      BY <3>4, <3>6, <3>7 DEF SeqOf
  <2> QED
    BY <2>3, <2>4
<1>5. ASSUME past.calls[i] # None
      PROVE  /\ parent = Top => T[i].parent # 0
             /\ parent # Top => T[i] # [parent |-> node[parent].jid, digest |-> d, seq |-> seq]
  <2>1. calls[i] # None /\ T[i] = past.calls[i]
    BY <1>1, <1>5 DEF Joined, Keeping, PastKept, Gapless, Steady
  <2>2. parent # Top
    <3> SUFFICES ASSUME parent = Top PROVE FALSE
      OBVIOUS
    <3>1. past.root = 0
      BY DEF Earlier
    <3> QED
      BY <1>5, <3>1 DEF Joined, Gathered, PastRoot
  <2>3. ASSUME T[i] = [parent |-> node[parent].jid, digest |-> d, seq |-> seq]
        PROVE  FALSE
    <3>1. parent \in Live /\ node[parent].jid \in Id /\ T[i].parent = node[parent].jid
      BY <2>2, <2>3, LiveJids
    <3>2. T[i].parent # 0 /\ T[i].parent < i
      <4>1. T[i].parent # 0
        BY <3>1 DEF Id
      <4> QED
        BY <1>1, <4>1 DEF Downward, T
    <3>3. CASE node[parent].old = 0
      <4>1. i < node[parent].jid
        BY <1>5, <3>1, <3>3 DEF Joined, Matching, Fresh
      <4> QED
        BY <3>1, <3>2, <4>1 DEF Id
    <3>4. CASE node[parent].old # 0
      <4>1. OldOf(parent) = node[parent].jid /\ OldOf(parent) # 0
        BY <2>2, <3>1, <3>4 DEF Joined, Matching, Claims, OldOf
      <4>2. i \in Earlier(parent, d, seq)
        BY <2>1, <2>2, <2>3, <4>1 DEF Earlier
      <4> QED
        BY <4>2
    <3> QED
      BY <3>3, <3>4
  <2> QED
    BY <2>2, <2>3
<1> QED
  BY <1>3, <1>4, <1>5 DEF T

LEMMA CallGathered ==
  ASSUME TypeOK, Types', Joined, Matching',
         NEW c \in Call, NEW parent \in Call \cup {Top}, NEW d \in Digest,
         CallFlow(c, parent, d)
  PROVE  /\ Gathered'
         /\ \A i \in Id : Together(calls, node)[i] # None =>
              Together(calls', node')[i] = Together(calls, node)[i]
<1> USE JournalAssumption
<1> DEFINE seq == SeqOf(parent, d)
           T == Together(calls, node)
           U == Together(calls', node')
<1>1. PICK jid \in Id, line \in Line :
        /\ c \notin Live /\ Live' = Live \cup {c}
        /\ \A b \in Live : node'[b] = node[b]
        /\ node'[c].jid = jid /\ node'[c].parent = parent
        /\ node'[c].digest = d /\ node'[c].seq = seq
        /\ \/ /\ jid \in Earlier(parent, d, seq)
              /\ node'[c].old = jid
              /\ UNCHANGED <<ids, buffer>>
           \/ /\ jid = ids + 1 /\ ids' = jid
              /\ line.t = "call" /\ line.id = jid /\ line.parent = JidOf(parent)
              /\ line.digest = d /\ line.seq = seq
              /\ buffer' = Append(buffer, line)
  BY CallMade
<1>2. /\ Types /\ phase = "open" /\ phase' = phase
      /\ UNCHANGED <<calls, past>>
      /\ parent = Top \/ parent \in Live
      /\ parent = Top => \A b \in Live : node[b].parent # Top
      /\ ids \in Nat
  <2>1. Types /\ ids \in Nat
    <3>1. Types /\ ids \in Id \cup {0}
      BY ONLY TypeOK DEF TypeOK, Types
    <3> QED
      BY ONLY <3>1, JournalAssumption DEF Id
  <2>2. phase = "open" /\ UNCHANGED <<disk, phase, past>>
        /\ IF parent = Top THEN \A b \in Live : node[b].parent # Top ELSE parent \in Live
    BY ONLY CallFlow(c, parent, d) DEF CallFlow, Taking
  <2> QED
    BY ONLY <2>1, <2>2 DEF disk
<1>3. /\ Apart(node) /\ Apart(node')
      /\ Live = {b \in Call : node[b] # None} /\ Live' = {b \in Call : node'[b] # None}
      /\ \A b \in Live : b \in Call /\ node[b].jid \in Id
      /\ \A b \in Live' : node'[b].jid \in Id
  <2>1. Apart(node) /\ Apart(node')
    <3>1. JidsDistinct /\ JidsDistinct'
      BY DEF Joined, Matching
    <3> QED
      BY <3>1 DEF JidsDistinct, Apart, Live
  <2>2. \A b \in Live : b \in Call /\ node[b].jid \in Id
    BY <1>2, LiveJids
  <2> QED
    BY <1>1, <2>1, <2>2 DEF Live
<1>4. /\ \A b \in Live : AsMade(node', b) = AsMade(node, b)
      /\ AsMade(node', c) = [parent |-> JidOf(parent), digest |-> d, seq |-> seq]
      /\ JidOf(parent) = IF parent = Top THEN 0 ELSE node[parent].jid
  <2>1. \A b \in Live : node[b].parent = Top \/ node[b].parent \in Live
    BY MadeBelow
  <2>2. \A b \in Live : AsMade(node', b) = AsMade(node, b)
    BY <1>1, <2>1 DEF AsMade
  <2> QED
    BY <1>1, <1>2, <2>2 DEF AsMade, JidOf
<1>5. Whence' /\ PastRoot'
  BY <1>1, <1>2 DEF Joined, Gathered, Whence, PastRoot, Recorded
<1>6. CASE jid \in Earlier(parent, d, seq) /\ UNCHANGED <<ids, buffer>>
  <2>1. past.calls[jid] # None /\ (parent = Top => jid = past.root)
    <3>1. CASE parent = Top
      BY <1>6, <3>1 DEF Joined, Matching, Rooted, Earlier
    <3>2. CASE parent # Top
      <4>1. past.calls[jid] = [parent |-> OldOf(parent), digest |-> d, seq |-> seq]
        BY <1>6, <3>2 DEF Earlier
      <4>2. OldOf(parent) \in Id \cup {0} /\ seq \in Nat
        <5>1. node[parent] \in Node
          BY <1>2, <3>2, LiveJids
        <5> QED
          BY <1>2, <3>2, <5>1 DEF OldOf, Node, SeqOf, Types
      <4>3. past.calls[jid] \in Kept
        BY <4>1, <4>2 DEF Kept
      <4> QED
        BY <3>2, <4>3, NoneAssumption
    <3> QED
      BY <3>1, <3>2
  <2>2. calls[jid] # None /\ calls[jid] = past.calls[jid]
    BY <2>1 DEF Joined, Gapless, Steady, Keeping, PastKept
  <2>3. U = T
    <3> HIDE DEF seq
    <3>1. \A b \in Call : node[b] # None =>
            node'[b] # None /\ node'[b].jid = node[b].jid /\ AsMade(node', b) = AsMade(node, b)
      BY <1>1, <1>3, <1>4
    <3>2. \A b \in Call : node[b] = None /\ node'[b] # None =>
            node'[b].jid \in Id /\ calls[node'[b].jid] # None
      BY <1>1, <1>3, <2>2
    <3>3. \A b \in Call : node[b] # None => node[b].jid \in Id
      BY <1>3
    <3> QED
      BY <1>2, <1>3, <3>1, <3>2, <3>3, TogetherSame
  <2>4. Sole'
    BY <2>3 DEF Joined, Gathered, Sole
  <2>5. Whose'
    <3>1. Waiting' = Waiting
      BY <1>6 DEF Waiting, CallLines
    <3>2. Whose /\ Live \subseteq Live' /\ \A b \in Live : node'[b].jid = node[b].jid
      BY <1>1 DEF Joined, Gathered
    <3> QED
      BY <1>4, <3>1, <3>2 DEF Whose, RecordOf
  <2>6. RootAs'
    <3>1. parent = Top => calls[jid].parent = 0
      <4> SUFFICES ASSUME parent = Top PROVE calls[jid].parent = 0
        OBVIOUS
      <4>1. jid = past.root /\ past.root # 0
        BY <2>1 DEF Id
      <4> QED
        BY <2>2, <4>1 DEF Joined, Matching, Rooted
    <3> QED
      BY <1>1, <1>2, <3>1 DEF Joined, Gathered, RootAs
  <2> QED
    BY <1>5, <2>3, <2>4, <2>5, <2>6 DEF Gathered
<1>7. CASE /\ jid = ids + 1 /\ ids' = jid
           /\ line.t = "call" /\ line.id = jid /\ line.parent = JidOf(parent)
           /\ line.digest = d /\ line.seq = seq
           /\ buffer' = Append(buffer, line)
  <2>1. /\ calls[jid] = None
        /\ \A b \in Live : node[b].jid # jid
        /\ \A other \in Waiting : other.id < line.id
    <3>1. \A i \in Recorded : i <= ids
      BY <1>2 DEF Joined, Keeping, Unrecorded
    <3>2. \A b \in Live : node[b].jid <= ids
      BY DEF Joined, Matching, Ahead
    <3>3. \A other \in Waiting : other.id \in Id /\ other.id <= ids
      BY <1>2, WaitingType DEF Joined, Gapless, NewIds
    <3>4. ~(jid <= ids)
      BY <1>2, <1>7
    <3>5. \A other \in Waiting : other.id < line.id
      BY <1>2, <1>7, <3>3 DEF Id
    <3> QED
      BY <3>1, <3>2, <3>4, <3>5 DEF Recorded
  <2>2. /\ U[jid] = [parent |-> JidOf(parent), digest |-> d, seq |-> seq]
        /\ T[jid] = None
        /\ \A i \in Id : i # jid => U[i] = T[i]
    <3> HIDE DEF seq
    <3>1. /\ \A i \in Id : calls[i] # None => T[i] = calls[i]
          /\ \A b \in Live : calls[node[b].jid] = None => T[node[b].jid] = AsMade(node, b)
          /\ \A i \in Id : calls[i] = None /\ (\A b \in Live : node[b].jid # i) => T[i] = None
      BY <1>3, TogetherIs
    <3>2. /\ \A i \in Id : calls[i] # None => U[i] = calls[i]
          /\ \A b \in Live' : calls[node'[b].jid] = None => U[node'[b].jid] = AsMade(node', b)
          /\ \A i \in Id : calls[i] = None /\ (\A b \in Live' : node'[b].jid # i) => U[i] = None
      BY <1>2, <1>3, TogetherIs
    <3> HIDE DEF T, U
    <3>3. U[jid] = [parent |-> JidOf(parent), digest |-> d, seq |-> seq] /\ T[jid] = None
      BY <1>1, <1>4, <2>1, <3>1, <3>2
    <3>4. ASSUME NEW i \in Id, i # jid
          PROVE  U[i] = T[i]
      <4>1. CASE calls[i] # None
        BY <3>1, <3>2, <4>1
      <4>2. CASE calls[i] = None /\ \E b \in Live : node[b].jid = i
        BY <1>1, <1>4, <3>1, <3>2, <4>2
      <4>3. CASE calls[i] = None /\ \A b \in Live : node[b].jid # i
        BY <1>1, <3>1, <3>2, <3>4, <4>3
      <4> QED
        BY <4>1, <4>2, <4>3
    <3> QED
      BY <3>3, <3>4
  <2>3. Sole'
    <3>1. Earlier(parent, d, seq) = {}
      <4> SUFFICES ASSUME NEW kept \in Earlier(parent, d, seq) PROVE FALSE
        OBVIOUS
      <4>1. ids' = ids \/ Earlier(parent, d, seq) = {}
        BY DEF CallFlow
      <4> QED
        BY <1>2, <1>7, <4>1
    <3>2. ASSUME NEW i \in Id, T[i] # None
          PROVE  /\ T[i] # [parent |-> JidOf(parent), digest |-> d, seq |-> seq]
                 /\ ~(T[i].parent = 0 /\ JidOf(parent) = 0)
      <4>1. /\ parent = Top => T[i].parent # 0
            /\ parent # Top => T[i] # [parent |-> node[parent].jid, digest |-> d, seq |-> seq]
        BY <1>2, <3>1, <3>2, CallNew
      <4> HIDE DEF T, seq
      <4>2. parent # Top => JidOf(parent) # 0
        BY <1>2, <1>3, <1>4 DEF Id
      <4> QED
        BY <1>4, <4>1, <4>2
    <3>3. Single(T)
      BY DEF Joined, Gathered, Sole
    <3> HIDE DEF T, U, seq
    <3>4. \A i, j \in Id :
            /\ U[i] # None /\ U[j] # None
            /\ U[i] = U[j] \/ (U[i].parent = 0 /\ U[j].parent = 0)
            => i = j
      <4> SUFFICES ASSUME NEW i \in Id, NEW j \in Id, U[i] # None, U[j] # None,
                          U[i] = U[j] \/ (U[i].parent = 0 /\ U[j].parent = 0)
                   PROVE  i = j
        OBVIOUS
      <4>1. U[jid].parent = JidOf(parent)
        BY <2>2
      <4>2. CASE i # jid /\ j # jid
        BY <2>2, <3>3, <4>2 DEF Single
      <4>3. CASE i = jid /\ j # jid
        BY <2>2, <3>2, <4>1, <4>3
      <4>4. CASE i # jid /\ j = jid
        BY <2>2, <3>2, <4>1, <4>4
      <4> QED
        BY <4>2, <4>3, <4>4
    <3> QED
      BY <3>4 DEF Sole, Single, U
  <2>4. Whose'
    <3>1. Waiting' = Waiting \cup {line}
      BY <1>2, <1>7, <2>1, WaitingAppended DEF Joined, Gapless
    <3>2. Whose /\ Live \subseteq Live' /\ c \in Live'
          /\ \A b \in Live : node'[b].jid = node[b].jid
      BY <1>1 DEF Joined, Gathered
    <3>3. RecordOf(line) = AsMade(node', c) /\ node'[c].jid = line.id
      BY <1>1, <1>4, <1>7 DEF RecordOf
    <3> QED
      BY <1>4, <3>1, <3>2, <3>3 DEF Whose, RecordOf
  <2>5. RootAs'
    BY <1>1, <1>2, <2>1 DEF Joined, Gathered, RootAs
  <2>6. \A i \in Id : T[i] # None => U[i] = T[i]
    BY <2>2
  <2> QED
    BY <1>5, <2>3, <2>4, <2>5, <2>6 DEF Gathered
<1> QED
  BY <1>1, <1>6, <1>7

LEMMA EndGathered ==
  ASSUME TypeOK, Joined, Apart(node'), NEW c \in Call, EndFlow(c)
  PROVE  Gathered' /\ Together(calls', node') = Together(calls, node)
<1> DEFINE line == [t |-> "end", id |-> node[c].jid]
<1>0. Types
  BY DEF TypeOK
<1>1. c \in Live /\ UNCHANGED <<calls, past, phase>> /\ buffer' = Append(buffer, line)
  BY DEF EndFlow, disk, Batched
<1>2. line \in Line /\ line.t = "end"
  BY <1>0, <1>1, LiveJids DEF Line, EndLine
<1> HIDE DEF line
<1>3. Waiting' = Waiting
  BY <1>0, <1>1, <1>2, WaitingAppended DEF Joined, Gapless
<1>4. Unmade
  BY EndUnmade
<1> QED
  BY <1>1, <1>3, <1>4, SameGathered

LEMMA WriteGathered ==
  ASSUME TypeOK, Joined, Apart(node'), NEW c \in Call, NEW k \in Key,
         NEW v \in Value \cup {None}, WriteState(c, k, v)
  PROVE  Gathered' /\ Together(calls', node') = Together(calls, node)
<1> DEFINE line == [t |-> "set", id |-> node[c].jid, key |-> k, value |-> v]
<1>0. Types
  BY DEF TypeOK
<1>1. c \in Live /\ UNCHANGED <<calls, past, phase, node>> /\ buffer' = Append(buffer, line)
  BY DEF WriteState, disk, run
<1>2. line \in Line /\ line.t = "set"
  BY <1>0, <1>1, LiveJids DEF Line, SetLine
<1> HIDE DEF line
<1>3. Waiting' = Waiting
  BY <1>0, <1>1, <1>2, WaitingAppended DEF Joined, Gapless
<1>4. Unmade
  BY <1>1 DEF Unmade, Live
<1> QED
  BY <1>1, <1>3, <1>4, SameGathered

LEMMA FlushedGathered ==
  ASSUME TypeOK, Joined, Apart(node'), Flushed
  PROVE  Gathered' /\ Together(calls', node') = Together(calls, node)
<1>1. UNCHANGED <<calls, past, phase, buffer>> /\ Unmade
  BY FlushedUnmade DEF Flushed, disk
<1>2. Waiting' = Waiting
  BY <1>1 DEF Waiting, CallLines
<1> QED
  BY <1>1, <1>2, SameGathered

LEMMA NextGathered ==
  ASSUME TypeOK, Types', Joined, Matching', Gapless', [Next]_vars, ~WriteFails
  PROVE  Gathered'
<1>0. Types /\ Apart(node) /\ Apart(node')
  <2>1. JidsDistinct /\ JidsDistinct'
    BY DEF Joined, Matching
  <2> QED
    BY <2>1 DEF JidsDistinct, Apart, Live, TypeOK
<1>1. CASE OpenFresh \/ OpenResumed
  <2>1. phase = "down" /\ UNCHANGED <<node, buffer>>
    BY <1>1 DEF OpenFresh, OpenResumed, Opening, journal
  <2>2. /\ Live' = {} /\ Live = {} /\ buffer = <<>> /\ past = NoPast
        /\ \A c \in Call : node[c] = None
    BY <2>1 DEF Joined, Matching, Down, Live, Keeping, Quiet
  <2>3. Waiting' = {}
    BY <2>1, <2>2 DEF CallLines, Waiting
  <2>4. CASE OpenFresh
    <3>1. UNCHANGED past /\ calls' = [i \in Id |-> None]
      BY <2>4 DEF OpenFresh
    <3>2. \A i \in Id : Together(calls', node')[i] = None
      BY <1>0, <2>1, <2>2, <3>1, TogetherIs
    <3>3. Sole'
      BY <3>2 DEF Sole, Single
    <3>4. Whence' /\ PastRoot'
      BY <2>2, <3>1 DEF Whence, PastRoot, NoPast, Recorded
    <3> QED
      BY <2>2, <2>3, <3>3, <3>4 DEF Gathered, Whose, RootAs
  <2>5. CASE OpenResumed
    <3>1. PICK root \in Roots : past' = [root |-> root, calls |-> calls, state |-> state]
      BY <2>5 DEF OpenResumed
    <3>2. UNCHANGED calls /\ past'.root # 0 /\ past'.calls = calls
      BY <2>5, <3>1 DEF OpenResumed, Roots, Recorded, Id
    <3>3. Sole'
      BY <2>1, <3>2 DEF Joined, Gathered, Sole
    <3>4. Whence' /\ PastRoot'
      BY <3>2 DEF Whence, PastRoot, Recorded
    <3> QED
      BY <2>2, <2>3, <3>3, <3>4 DEF Gathered, Whose, RootAs
  <2> QED
    BY <1>1, <2>4, <2>5
<1>2. ASSUME NEW c \in Call, NEW parent \in Call \cup {Top}, NEW d \in Digest,
             CallFlow(c, parent, d)
      PROVE  Gathered'
  BY <1>2, CallGathered
<1>3. ASSUME NEW c \in Call, EndFlow(c)
      PROVE  Gathered'
  BY <1>0, <1>3, EndGathered
<1>4. ASSUME NEW c \in Call, NEW k \in Key, NEW v \in Value \cup {None}, WriteState(c, k, v)
      PROVE  Gathered'
  BY <1>0, <1>4, WriteGathered
<1>5. CASE WriteLine
  BY <1>5, LineGathered
<1>6. CASE Flushed
  BY <1>0, <1>6, FlushedGathered
<1>7. CASE TimerFires \/ Close \/ UNCHANGED vars
  <2>1. /\ UNCHANGED <<calls, past, node, buffer>>
        /\ phase' = "down" <=> phase = "down"
    BY <1>7 DEF TimerFires, Close, vars, disk, run, journal
  <2>2. Waiting' = Waiting /\ Unmade
    BY <2>1 DEF Waiting, CallLines, Live, Unmade
  <2> QED
    BY <1>0, <2>1, <2>2, SameGathered
<1>8. CASE Gone
  <2>1. /\ UNCHANGED calls /\ buffer' = <<>> /\ past' = NoPast /\ phase' = "down"
        /\ \A c \in Call : node'[c] = None
    BY <1>8 DEF Gone, Forgotten
  <2>2. Live' = {} /\ Waiting' = {}
    BY <2>1 DEF Live, CallLines, Waiting
  <2>3. Whence' /\ PastRoot'
    BY <2>1 DEF Whence, PastRoot, NoPast
  <2>4. Sole'
    <3>1. /\ \A i \in Id : calls[i] # None => Together(calls, node)[i] = calls[i]
          /\ \A i \in Id : calls[i] # None => Together(calls, node')[i] = calls[i]
          /\ \A i \in Id : calls[i] = None => Together(calls, node')[i] = None
      BY <1>0, <2>1, TogetherIs
    <3>2. Single(Together(calls, node))
      BY DEF Joined, Gathered, Sole
    <3>3. Single(Together(calls, node'))
      BY <3>1, <3>2 DEF Single
    <3> QED
      BY <2>1, <3>3 DEF Sole
  <2> QED
    BY <2>2, <2>3, <2>4 DEF Gathered, Whose, RootAs
<1> QED
  BY <1>1, <1>2, <1>3, <1>4, <1>5, <1>6, <1>7, <1>8 DEF Next

-----------------------------------------------------------------------------
(* What each step does to what is kept and what is held of each way down.  *)

\* Calls that hold what they held are seen as they were.
LEMMA ViewAlike ==
  ASSUME NEW vw, NEW other, NEW record, NEW made, NEW others,
         Seen(vw, record, made), Seen(other, record, others),
         \A c \in Call : made[c] # None <=> others[c] # None,
         \A c \in Call : made[c] # None => /\ others[c].jid = made[c].jid
                                           /\ others[c].held = made[c].held
  PROVE  other = vw
<1>1. ASSUME NEW p \in Path
      PROVE  other[p] = vw[p]
  <2>1. CASE \E c \in Call : made[c] # None /\ Ways(record)[made[c].jid] = p
    <3>1. PICK c \in Call : made[c] # None /\ Ways(record)[made[c].jid] = p
      BY <2>1
    <3>2. others[c] # None /\ Ways(record)[others[c].jid] = p
      BY <3>1
    <3> QED
      BY <3>1, <3>2 DEF Seen
  <2>2. CASE \A c \in Call : made[c] # None => Ways(record)[made[c].jid] # p
    <3>1. \A c \in Call : others[c] # None => Ways(record)[others[c].jid] # p
      BY <2>2
    <3> QED
      BY <2>2, <3>1 DEF Seen
  <2> QED
    BY <2>1, <2>2
<1>2. vw = [p \in Path |-> vw[p]] /\ other = [p \in Path |-> other[p]]
  BY DEF Seen
<1> QED
  BY ONLY <1>1, <1>2

\* One call more is seen at its way down, where there was none, with what is kept there.
LEMMA ViewBegins ==
  ASSUME NEW vw, NEW other, NEW record, NEW more, NEW made, NEW others, NEW mem, NEW said,
         Charted(record, made), Charted(more, others),
         Seen(vw, record, made), Seen(other, more, others), Mapped(mem, more, said),
         \A i \in Id : record[i] # None => more[i] = record[i],
         NEW c \in Call, made[c] = None, others[c] # None,
         \A b \in Call : b # c => others[b] = made[b],
         others[c].held = said[others[c].jid]
  PROVE  IF Ways(more)[others[c].jid] \in Path
           THEN /\ vw[Ways(more)[others[c].jid]] = None
                /\ other = [vw EXCEPT ![Ways(more)[others[c].jid]]
                                      = mem[Ways(more)[others[c].jid]]]
           ELSE other = vw
<1> DEFINE way == Ways(more)[others[c].jid]
<1>1. \A b \in Call : made[b] # None =>
        /\ b # c /\ others[b] = made[b] /\ made[b].jid \in Id /\ record[made[b].jid] # None
        /\ Ways(more)[made[b].jid] = Ways(record)[made[b].jid]
  <2>1. \A b \in Call : made[b] # None => made[b].jid \in Id /\ record[made[b].jid] # None
    BY Zenon DEF Charted, Recording
  <2> QED
    BY <2>1, WaysAmong DEF Charted
<1>2. others[c].jid \in Id /\ more[others[c].jid] # None
  BY Zenon DEF Charted, Recording
<1>3. ASSUME NEW b \in Call, made[b] # None
      PROVE  Ways(record)[made[b].jid] # way
  <2>1. more[made[b].jid] # None
    BY <1>1, <1>3
  <2>2. made[b].jid # others[c].jid
    BY <1>1, <1>3 DEF Charted, Apart
  <2>3. Ways(more)[made[b].jid] # way
    BY <1>1, <1>2, <1>3, <2>1, <2>2, WaysApart DEF Charted
  <2> QED
    BY <1>1, <1>3, <2>3
<1> HIDE DEF way
<1>4. ASSUME NEW p \in Path
      PROVE  other[p] = IF p = way THEN mem[p] ELSE vw[p]
  <2>1. CASE p = way
    <3>1. other[p] = others[c].held
      BY <2>1 DEF Seen, way
    <3>2. mem[p] = said[others[c].jid]
      BY <1>2, <2>1 DEF Mapped, way
    <3> QED
      BY <2>1, <3>1, <3>2
  <2>2. CASE p # way /\ \E b \in Call : made[b] # None /\ Ways(record)[made[b].jid] = p
    <3>1. PICK b \in Call : made[b] # None /\ Ways(record)[made[b].jid] = p
      BY <2>2
    <3>2. others[b] # None /\ Ways(more)[others[b].jid] = p /\ others[b].held = made[b].held
      BY <1>1, <3>1
    <3> QED
      BY <2>2, <3>1, <3>2 DEF Seen
  <2>3. CASE p # way /\ \A b \in Call : made[b] # None => Ways(record)[made[b].jid] # p
    <3>1. \A b \in Call : others[b] # None => Ways(more)[others[b].jid] # p
      <4> SUFFICES ASSUME NEW b \in Call, others[b] # None PROVE Ways(more)[others[b].jid] # p
        OBVIOUS
      <4>1. CASE b = c
        BY <2>3, <4>1 DEF way
      <4>2. CASE b # c
        BY <1>1, <2>3, <4>2
      <4> QED
        BY <4>1, <4>2
    <3> QED
      BY <2>3, <3>1 DEF Seen
  <2> QED
    BY <2>1, <2>2, <2>3
<1>5. vw = [p \in Path |-> vw[p]] /\ other = [p \in Path |-> other[p]]
  BY DEF Seen
<1>6. CASE way \in Path
  <2>1. vw[way] = None
    BY <1>3, <1>6 DEF Seen
  <2>2. other = [vw EXCEPT ![way] = mem[way]]
    BY ONLY <1>4, <1>5, <1>6
  <2> QED
    BY <1>6, <2>1, <2>2 DEF way
<1>7. CASE way \notin Path
  <2>1. other = vw
    BY ONLY <1>4, <1>5, <1>7
  <2> QED
    BY <1>7, <2>1 DEF way
<1> QED
  BY <1>6, <1>7

\* A call that comes to hold what the file says of it is seen with what is kept there.
LEMMA ViewReturns ==
  ASSUME NEW vw, NEW other, NEW record, NEW made, NEW others, NEW mem, NEW said,
         Charted(record, made),
         Seen(vw, record, made), Seen(other, record, others), Mapped(mem, record, said),
         NEW c \in Call, made[c] # None,
         \A b \in Call : made[b] # None <=> others[b] # None,
         \A b \in Call : made[b] # None => others[b].jid = made[b].jid,
         \A b \in Call : made[b] # None /\ b # c => others[b].held = made[b].held,
         others[c].held = said[made[c].jid]
  PROVE  IF Ways(record)[made[c].jid] \in Path
           THEN /\ vw[Ways(record)[made[c].jid]] = made[c].held
                /\ other = [vw EXCEPT ![Ways(record)[made[c].jid]]
                                      = mem[Ways(record)[made[c].jid]]]
           ELSE other = vw
<1> DEFINE way == Ways(record)[made[c].jid]
<1>1. \A b \in Call : made[b] # None => made[b].jid \in Id /\ record[made[b].jid] # None
  BY Zenon DEF Charted, Recording
<1> HIDE DEF way
<1>2. ASSUME NEW p \in Path
      PROVE  other[p] = IF p = way THEN mem[p] ELSE vw[p]
  <2>1. CASE p = way
    <3>1. others[c] # None /\ Ways(record)[others[c].jid] = p
      BY <2>1 DEF way
    <3>2. other[p] = others[c].held
      BY <3>1 DEF Seen
    <3>3. mem[p] = said[made[c].jid]
      BY <1>1, <2>1 DEF Mapped, way
    <3> QED
      BY <2>1, <3>2, <3>3
  <2>2. CASE p # way /\ \E b \in Call : made[b] # None /\ Ways(record)[made[b].jid] = p
    <3>1. PICK b \in Call : made[b] # None /\ Ways(record)[made[b].jid] = p
      BY <2>2
    <3>2. b # c
      BY <2>2, <3>1 DEF way
    <3>3. others[b] # None /\ Ways(record)[others[b].jid] = p /\ others[b].held = made[b].held
      BY <3>1, <3>2
    <3>4. other[p] = others[b].held /\ vw[p] = made[b].held
      BY <3>1, <3>3 DEF Seen
    <3> QED
      BY <2>2, <3>3, <3>4
  <2>3. CASE p # way /\ \A b \in Call : made[b] # None => Ways(record)[made[b].jid] # p
    <3>1. \A b \in Call : others[b] # None => Ways(record)[others[b].jid] # p
      BY <2>3
    <3> QED
      BY <2>3, <3>1 DEF Seen
  <2> QED
    BY <2>1, <2>2, <2>3
<1>3. vw = [p \in Path |-> vw[p]] /\ other = [p \in Path |-> other[p]]
  BY DEF Seen
<1>4. CASE way \in Path
  <2>1. vw[way] = made[c].held
    BY <1>4 DEF Seen, way
  <2>2. other = [vw EXCEPT ![way] = mem[way]]
    BY ONLY <1>2, <1>3, <1>4
  <2> QED
    BY <1>4, <2>1, <2>2 DEF way
<1>5. CASE way \notin Path
  <2>1. other = vw
    BY ONLY <1>2, <1>3, <1>5
  <2> QED
    BY <1>5, <2>1 DEF way
<1> QED
  BY <1>4, <1>5

\* What is said of one record is kept at its way down, and nothing else changes.
LEMMA MemoryKeeps ==
  ASSUME NEW mem, NEW other, NEW record, NEW said, NEW anew,
         Mapped(mem, record, said), Mapped(other, record, anew),
         NEW i \in Id, record[i] # None, \A j \in Id : j # i => anew[j] = said[j]
  PROVE  IF Ways(record)[i] \in Path
           THEN /\ mem[Ways(record)[i]] = said[i]
                /\ other = [mem EXCEPT ![Ways(record)[i]] = anew[i]]
           ELSE other = mem
<1> DEFINE way == Ways(record)[i]
<1> HIDE DEF way
<1>1. ASSUME NEW p \in Path
      PROVE  other[p] = IF p = way THEN anew[i] ELSE mem[p]
  <2>1. CASE p = way
    <3>1. other[p] = anew[i]
      BY <2>1 DEF Mapped, way
    <3> QED
      BY <2>1, <3>1
  <2>2. CASE p # way /\ \E j \in Id : record[j] # None /\ Ways(record)[j] = p
    <3>1. PICK j \in Id : record[j] # None /\ Ways(record)[j] = p
      BY <2>2
    <3>2. j # i
      BY <2>2, <3>1 DEF way
    <3>3. other[p] = anew[j] /\ mem[p] = said[j]
      BY <3>1 DEF Mapped
    <3> QED
      BY <2>2, <3>2, <3>3
  <2>3. CASE p # way /\ \A j \in Id : record[j] # None => Ways(record)[j] # p
    BY <2>3 DEF Mapped
  <2> QED
    BY <2>1, <2>2, <2>3
<1>2. mem = [p \in Path |-> mem[p]] /\ other = [p \in Path |-> other[p]]
  BY DEF Mapped
<1>3. CASE way \in Path
  <2>1. other = [mem EXCEPT ![way] = anew[i]]
    BY ONLY <1>1, <1>2, <1>3
  <2>2. mem[way] = said[i]
    BY <1>3 DEF Mapped, way
  <2> QED
    BY <1>3, <2>1, <2>2 DEF way
<1>4. CASE way \notin Path
  <2>1. other = mem
    BY ONLY <1>1, <1>2, <1>4
  <2> QED
    BY <1>4, <2>1 DEF way
<1> QED
  BY <1>3, <1>4

\* What the file, what is said in it and what the calls hold is the same of, is the same.
LEMMA Unseen ==
  /\ UNCHANGED <<calls, state>> => memory' = memory
  /\ UNCHANGED node => view' = view
BY DEF memory, view

\* A call that is not writing holds what the file says of it.
LEMMA HeldAsSaid ==
  Keeping /\ pending = None => \A c \in Live : node[c].held = state[node[c].jid]
BY DEF Keeping, Held, Said

LEMMA CallBegins ==
  ASSUME Joined, Joined', Mapping, Mapping', NEW c \in Call, NEW parent \in Call \cup {Top},
         NEW d \in Digest, CallFlow(c, parent, d)
  PROVE  [Memory!Next]_<<memory, view>>
<1> DEFINE T == Together(calls, node)
           U == Together(calls', node')
<1>1. /\ c \notin Live /\ Live' = Live \cup {c}
      /\ \A b \in Live : node'[b] = node[b]
  BY CallMade DEF Joined
<1>2. UNCHANGED <<calls, state, pending>> /\ ~flushing
  BY ONLY CallFlow(c, parent, d) DEF CallFlow, Taking, disk
<1>3. memory' = memory
  BY <1>2, Unseen
<1>4. /\ node[c] = None /\ node'[c] # None
      /\ \A b \in Call : b # c => node'[b] = node[b]
  BY <1>1 DEF Live
<1>5. node'[c].held = state'[node'[c].jid]
  <2>1. pending' = None
    BY <1>2 DEF Joined, Keeping, Sets
  <2>2. Keeping' /\ c \in Live'
    BY <1>1 DEF Joined
  <2>3. state'[node'[c].jid] = Said(c)'
    BY <2>2 DEF Keeping, Held
  <2>4. Said(c)' = node'[c].held
    BY <2>1 DEF Said
  <2> QED
    BY ONLY <2>3, <2>4
<1>6. \A i \in Id : T[i] # None => U[i] = T[i]
  BY CallGathered DEF Joined, TypeOK
<1>7. /\ Charted(T, node) /\ Charted(U, node') /\ Seen(view, T, node) /\ Seen(view', U, node')
      /\ Mapped(memory', U, state')
  BY DEF Mapping
<1> HIDE DEF T, U
<1> DEFINE p == Ways(U)[node'[c].jid]
<1>8. IF p \in Path THEN view[p] = None /\ view' = [view EXCEPT ![p] = memory'[p]]
      ELSE view' = view
  BY <1>4, <1>5, <1>6, <1>7, ViewBegins
<1> HIDE DEF p
<1>9. CASE p \in Path
  <2>1. Memory!Begin(p)
    BY <1>3, <1>8, <1>9 DEF Memory!Begin
  <2> QED
    BY <1>9, <2>1 DEF Memory!Next
<1>10. CASE p \notin Path
  BY <1>3, <1>8, <1>10
<1> QED
  BY <1>9, <1>10

LEMMA CallEnds ==
  ASSUME Joined, Joined', Mapping, Mapping', NEW c \in Call, EndFlow(c)
  PROVE  UNCHANGED <<memory, view>>
<1>1. c \in Live /\ UNCHANGED <<calls, state>> /\ node' = [node EXCEPT ![c].ended = TRUE]
  BY DEF EndFlow, disk
<1>2. Unmade /\ \A b \in Live : node'[b].held = node[b].held
  <2>1. Types /\ \A b \in Live : node[b] \in Node
    BY LiveJids DEF Joined, TypeOK
  <2> QED
    BY <1>1, <2>1, EndUnmade DEF Joined, Types, Node, Live
<1>3. Together(calls', node') = Together(calls, node)
  BY EndGathered DEF Joined, Mapping, Charted
<1>4. /\ \A b \in Call : node[b] # None <=> node'[b] # None
      /\ \A b \in Call : node[b] # None =>
           node'[b].jid = node[b].jid /\ node'[b].held = node[b].held
  BY <1>2 DEF Unmade, Live
<1>5. view' = view
  BY <1>3, <1>4, ViewAlike DEF Mapping
<1> QED
  BY <1>1, <1>5, Unseen

LEMMA LineKeeps ==
  ASSUME Joined, Joined', Mapping, Mapping', WriteLine
  PROVE  [Memory!Next]_<<memory, view>>
<1> DEFINE line == Head(buffer)
<1>1. /\ Types /\ buffer # <<>> /\ UNCHANGED node /\ ~torn /\ Replayed(line)
  BY DEF WriteLine, run, Joined, TypeOK, Keeping, Whole
<1>2. view' = view
  BY <1>1, Unseen
<1>3. line \in Line /\ line = buffer[1] /\ 1 \in DOMAIN buffer
  BY <1>1 DEF Types
<1>4. CASE line.t = "call"
  <2>1. /\ line \in CallLine /\ line \in Waiting /\ line.id \in Id
    BY <1>1, <1>3, <1>4, WaitingType DEF Waiting, CallLines
  <2>2. calls[line.id] = None
    BY <2>1 DEF Joined, Gapless, NewIds
  <2>3. state' = [state EXCEPT ![line.id] = Blank]
    BY <1>1, <1>4 DEF Replayed
  <2>4. UNCHANGED state
    <3>1. state[line.id] = Blank
      BY <2>1, <2>2 DEF Joined, Keeping, Unrecorded
    <3>2. state \in [Id -> State]
      BY <1>1 DEF Types
    <3> QED
      BY ONLY <2>3, <3>1, <3>2
  <2>5. Together(calls', node') = Together(calls, node)
    BY LineGathered DEF Joined, TypeOK
  <2>6. memory' = memory
    BY <2>4, <2>5, MemoryAlike DEF Mapping, Charted
  <2> QED
    BY <1>2, <2>6
<1>5. CASE line.t = "set" /\ calls[line.id] # None
  <2>1. /\ pending # None /\ line = SetOf(pending)
    BY <1>3, <1>5 DEF Joined, Keeping, Sets
  <2> DEFINE c == pending.call
             k == pending.key
             v == pending.value
             i == node[c].jid
             p == Ways(calls)[i]
  <2>2. /\ c \in Call /\ node[c] # None /\ k \in Key /\ v \in Value \cup {None}
        /\ line.id = i /\ line.key = k /\ line.value = v
        /\ node[c] \in Node /\ i \in Id /\ node[c].held \in State
    <3>1. pending \in Write /\ node[c] # None
      BY <1>1, <2>1 DEF Joined, TypeOK, PendingLive, Types
    <3>2. c \in Call /\ k \in Key /\ v \in Value \cup {None}
      BY <3>1 DEF Write
    <3>3. node[c] \in Node
      BY <1>1, <3>1, <3>2 DEF Types
    <3> QED
      BY <2>1, <3>1, <3>2, <3>3 DEF SetOf, Node
  <2>3. UNCHANGED calls /\ state' = [state EXCEPT ![i][k] = v]
    BY <1>1, <1>5, <2>2 DEF Replayed
  <2>4. calls[i] # None
    BY <1>5, <2>2
  <2>5. Mapped(memory, calls, state) /\ Mapped(memory', calls, state')
    <3>1. Mapped(memory', calls', state')
      BY DEF Mapping
    <3> QED
      BY <2>3, <3>1 DEF Mapping
  <2>6. state \in [Id -> State]
    BY <1>1 DEF Types
  <2> HIDE DEF c, k, v, i
  <2>7. IF p \in Path THEN memory' = [memory EXCEPT ![p][k] = v] ELSE memory' = memory
    <3> HIDE DEF p
    <3>1. state'[i] = [state[i] EXCEPT ![k] = v] /\ \A j \in Id : j # i => state'[j] = state[j]
      BY ONLY <2>2, <2>3, <2>6
    <3>2. IF p \in Path THEN /\ memory[p] = state[i]
                             /\ memory' = [memory EXCEPT ![p] = state'[i]]
          ELSE memory' = memory
      BY <2>2, <2>4, <2>5, <3>1, MemoryKeeps DEF p
    <3> QED
      BY ONLY <3>1, <3>2
  <2>8. p \in Path => view[p] # None
    <3>1. Ways(Together(calls, node))[i] = p
      BY <2>2, <2>4, WaysAmong DEF Mapping, Charted
    <3>2. p \in Path => view[p] = node[c].held
      BY <2>2, <3>1 DEF Mapping, Seen, i
    <3> QED
      BY <2>2, <3>2, MemoryAssumption
  <2> HIDE DEF p
  <2>9. CASE p \in Path
    <3>1. Memory!Keep(p, k, v)
      BY <1>2, <2>7, <2>8, <2>9 DEF Memory!Keep
    <3> QED
      BY <2>2, <2>9, <3>1 DEF Memory!Next
  <2>10. CASE p \notin Path
    BY <1>2, <2>7, <2>10
  <2> QED
    BY <2>9, <2>10
<1>6. CASE line.t # "call" /\ ~(line.t = "set" /\ calls[line.id] # None)
  <2>1. UNCHANGED <<calls, state>>
    BY <1>1, <1>6 DEF Replayed
  <2> QED
    BY <1>2, <2>1, Unseen
<1> QED
  BY <1>4, <1>5, <1>6

LEMMA WriteReturns ==
  ASSUME Joined, Joined', Mapping, Mapping', Flushed
  PROVE  [Memory!Next]_<<memory, view>>
<1>1. UNCHANGED <<calls, state>> /\ pending' = None
  BY DEF Flushed, disk
<1>2. memory' = memory
  BY <1>1, Unseen
<1>3. CASE pending = None
  <2>1. UNCHANGED node
    BY <1>3 DEF Flushed
  <2> QED
    BY <1>2, <2>1, Unseen
<1>4. CASE pending # None
  <2> DEFINE c == pending.call
             T == Together(calls, node)
             p == Ways(T)[node[c].jid]
  <2>1. Types /\ c \in Call /\ node[c] # None /\ c \in Live
    BY <1>4 DEF Joined, TypeOK, Types, PendingLive, Write, Live
  <2>2. Unmade
    BY FlushedUnmade DEF Joined
  <2>3. \A b \in Live : b # c => node'[b] = node[b]
    <3>1. node' = [node EXCEPT ![c].held[pending.key] = pending.value]
      BY <1>4 DEF Flushed
    <3>2. DOMAIN node = Call
      BY <2>1 DEF Types
    <3> QED
      BY <3>1, <3>2 DEF Live
  <2>4. /\ \A b \in Call : node[b] # None <=> node'[b] # None
        /\ \A b \in Call : node[b] # None => node'[b].jid = node[b].jid
        /\ \A b \in Call : node[b] # None /\ b # c => node'[b].held = node[b].held
    BY <2>2, <2>3 DEF Unmade, Live
  <2>5. node'[c].held = state[node[c].jid]
    <3>1. Keeping' /\ c \in Live' /\ node'[c].jid = node[c].jid
      BY <2>1, <2>2 DEF Joined, Unmade
    <3> QED
      BY <1>1, <3>1 DEF Keeping, Held, Said
  <2>6. Together(calls', node') = T
    BY FlushedGathered DEF Joined, Mapping, Charted
  <2>7. /\ Charted(T, node) /\ Seen(view, T, node) /\ Seen(view', T, node')
        /\ Mapped(memory, T, state)
    BY <2>6 DEF Mapping
  <2> HIDE DEF T, c
  <2>8. IF p \in Path THEN view[p] = node[c].held /\ view' = [view EXCEPT ![p] = memory[p]]
        ELSE view' = view
    BY <2>1, <2>4, <2>5, <2>7, ViewReturns
  <2> HIDE DEF p
  <2>9. CASE p \in Path
    <3>1. node[c].held \in State
      <4>1. node[c] \in Node
        BY <2>1, LiveJids
      <4> QED
        BY <4>1 DEF Node
    <3>2. view[p] # None
      BY <2>8, <2>9, <3>1, MemoryAssumption
    <3>3. Memory!Return(p)
      BY <1>2, <2>8, <2>9, <3>2 DEF Memory!Return
    <3> QED
      BY <2>9, <3>3 DEF Memory!Next
  <2>10. CASE p \notin Path
    BY <1>2, <2>8, <2>10
  <2> QED
    BY <2>9, <2>10
<1> QED
  BY <1>3, <1>4

\* A file with nothing in it keeps nothing, and no call of no process is seen.
LEMMA NoMemory ==
  ASSUME calls = [i \in Id |-> None], Mapping
  PROVE  memory = [p \in Path |-> Blank]
<1>1. \A p \in Path : memory[p] = Blank
  BY DEF Mapping, Mapped
<1>2. memory = [p \in Path |-> memory[p]]
  BY DEF Mapping, Mapped
<1> QED
  BY ONLY <1>1, <1>2

LEMMA NoView ==
  ASSUME \A c \in Call : node[c] = None, Mapping
  PROVE  view = [p \in Path |-> None]
<1>1. \A p \in Path : view[p] = None
  BY DEF Mapping, Seen
<1>2. view = [p \in Path |-> view[p]]
  BY DEF Mapping, Seen
<1> QED
  BY ONLY <1>1, <1>2

\* The same of the next state.
LEMMA NoMemoryNext ==
  ASSUME calls' = [i \in Id |-> None], Mapping'
  PROVE  memory' = [p \in Path |-> Blank]
<1>1. \A p \in Path : memory'[p] = Blank
  BY DEF Mapping, Mapped
<1>2. memory' = [p \in Path |-> memory'[p]]
  BY DEF Mapping, Mapped
<1> QED
  BY ONLY <1>1, <1>2

LEMMA NoViewNext ==
  ASSUME \A c \in Call : node'[c] = None, Mapping'
  PROVE  view' = [p \in Path |-> None]
<1>1. \A p \in Path : view'[p] = None
  BY DEF Mapping, Seen
<1>2. view' = [p \in Path |-> view'[p]]
  BY DEF Mapping, Seen
<1> QED
  BY ONLY <1>1, <1>2

LEMMA StepKeeps ==
  ASSUME Joined, Joined', Mapping, Mapping', [Next]_vars, ~WriteFails
  PROVE  [Memory!Next]_<<memory, view>>
<1>1. CASE OpenFresh
  <2>1. /\ phase = "down" /\ UNCHANGED node /\ calls' = [i \in Id |-> None]
    BY <1>1 DEF OpenFresh, Opening
  <2>2. \A c \in Call : node[c] = None
    BY <2>1 DEF Joined, Matching, Down
  <2>3. \A p \in Path : view[p] = None
    BY <2>2, NoView
  <2>4. memory' = [p \in Path |-> Blank]
    BY <2>1, NoMemoryNext
  <2>5. view' = view
    BY <2>1, Unseen
  <2>6. Memory!StartOver
    BY <2>3, <2>4, <2>5 DEF Memory!StartOver, Memory!Blank, Blank
  <2> QED
    BY <2>6 DEF Memory!Next
<1>2. CASE OpenResumed
  <2>1. UNCHANGED <<calls, state, node>>
    BY <1>2 DEF OpenResumed, Opening
  <2> QED
    BY <2>1, Unseen
<1>3. ASSUME NEW c \in Call, NEW parent \in Call \cup {Top}, NEW d \in Digest,
             CallFlow(c, parent, d)
      PROVE  [Memory!Next]_<<memory, view>>
  BY <1>3, CallBegins
<1>4. ASSUME NEW c \in Call, EndFlow(c)
      PROVE  UNCHANGED <<memory, view>>
  BY <1>4, CallEnds
<1>5. ASSUME NEW c \in Call, NEW k \in Key, NEW v \in Value \cup {None}, WriteState(c, k, v)
      PROVE  UNCHANGED <<memory, view>>
  <2>1. UNCHANGED <<calls, state, node>>
    BY <1>5 DEF WriteState, disk, run
  <2> QED
    BY <2>1, Unseen
<1>6. CASE WriteLine
  BY <1>6, LineKeeps
<1>7. CASE Flushed
  BY <1>7, WriteReturns
<1>8. CASE TimerFires \/ Close \/ UNCHANGED vars
  <2>1. UNCHANGED <<calls, state, node>>
    BY <1>8 DEF TimerFires, Close, vars, disk, run
  <2> QED
    BY <2>1, Unseen
<1>9. CASE Gone
  <2>1. UNCHANGED <<calls, state>> /\ \A c \in Call : node'[c] = None
    BY <1>9 DEF Gone, Forgotten
  <2>2. view' = [p \in Path |-> None]
    BY <2>1, NoViewNext
  <2>3. Memory!Stop
    BY <2>1, <2>2, Unseen DEF Memory!Stop
  <2> QED
    BY <2>3 DEF Memory!Next
<1> QED
  BY <1>1, <1>2, <1>3, <1>4, <1>5, <1>6, <1>7, <1>8, <1>9 DEF Next

\* While no write is refused, what each call reads is what was last written at its way down in
\* that run or in any it picks up, whatever was killed in between and whatever ids the calls
\* were given (Journal, Past.claim, FlowImpl._journaled; docs/reference/flows.md).
THEOREM Remembering == Spec /\ [](faults = 0) => KeepsMemory
<1> DEFINE Inv == TypeOK /\ Matching /\ Keeping /\ Gapless /\ Gathered
<1>1. Init => Inv
  BY InitType, InitMatching, InitKeeping, InitGapless, InitGathered DEF TypeOK
<1>2. Inv /\ [Next]_vars /\ (faults = 0)' => Inv' /\ ~WriteFails
  <2> SUFFICES ASSUME Inv, [Next]_vars, faults' = 0
               PROVE  Inv' /\ ~WriteFails
    OBVIOUS
  <2>1. TypeOK' /\ Types'
    BY NextTypes, NextPending DEF TypeOK
  <2>2. Matching' /\ JidsDistinct'
    BY NextMatching DEF Matching
  <2>3. ~WriteFails
    BY Unrefused
  <2>4. Keeping' /\ Gapless'
    BY <2>1, <2>2, <2>3, NextKeeping, NextGapless
  <2>5. Gathered'
    BY <2>1, <2>2, <2>3, <2>4, NextGathered DEF Joined
  <2> QED
    BY <2>1, <2>2, <2>3, <2>4, <2>5
<1>3. Inv => Mapping
  BY JoinedMapping DEF Joined
<1>4. Inv /\ Inv' /\ Mapping /\ Mapping' /\ [Next]_vars /\ ~WriteFails
        => [Memory!Next]_<<memory, view>>
  BY StepKeeps DEF Joined
<1>5. Init /\ Mapping => Memory!Init
  <2> SUFFICES ASSUME Init, Mapping PROVE Memory!Init
    OBVIOUS
  <2>1. calls = [i \in Id |-> None] /\ \A c \in Call : node[c] = None
    BY DEF Init
  <2> QED
    BY <2>1, NoMemory, NoView DEF Memory!Init, Memory!Blank, Blank
<1> QED
  BY <1>1, <1>2, <1>3, <1>4, <1>5, PTL DEF Spec, KeepsMemory, Memory!Spec
=============================================================================
