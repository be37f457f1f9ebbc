------------------------------ MODULE CallTree ------------------------------
(***************************************************************************)
(* What a run's calls make and who lets go of it (FlowImpl.__call__,       *)
(* Call.hold, _finish, _cascade and Run.close in runtime/flowing/engine.py;*)
(* AgentView._placed and Opened in runtime/flowing/viewing.py).            *)
(*                                                                         *)
(* A call opens sessions.  One is closed as its view goes, or when the     *)
(* call and every call under it are over -- which a flow's calls, each     *)
(* perhaps a task of its own, may be in any order -- or else with the run. *)
(* Each close takes time, and several go on at once.                       *)
(***************************************************************************)
EXTENDS Integers, SequencesExt

CONSTANTS
  Call,      \* the calls of the run
  Top,       \* the Call over the run's flow, which is no flow's
  Session,   \* the sessions its agents open: the engine's Opened objects
  None       \* no call, no cascade, no res

\* A _cascade: the call it is at, whether it took what that one made, what it releases of it.
Reaping == [at : Call, taken : BOOLEAN, todo : Seq(Session)]

ASSUME CallTreeAssumption ==
  Top \notin Call /\ None \notin Call \cup {Top} \cup Seq(Session) \cup Reaping

VARIABLES
  parent,    \* Call.parent
  ended,     \* Call.ended, of the calls made; the top one's too
  live,      \* Call.live: itself, until it has ended, and the calls under it counted in
  res,       \* Call.res: the sessions it is to let go of, oldest first, or None
  stage,     \* each session: "none", "opening", "open", "closing", "closed"
  owner,     \* the call that opened it
  closed,    \* Opened.closed
  dropping,  \* whether Opened.task is under way
  dropped,   \* Run.dropped: the sessions whose view went
  reaping,   \* the _cascade each call's end started
  phase,     \* Run.close: "going", "settling", "reaping", "closing", "closed"
  left,      \* what Run.close itself releases
  closes,    \* how often each session's handle was closed
  belated,   \* the sessions opened by a call that had ended meanwhile
  late       \* whether what the run waits for may take longer than REAP

tree == <<parent, ended, live>>
sessions == <<stage, owner, closed, dropping, dropped, closes, belated>>
vars == <<tree, sessions, res, reaping, phase, left, late>>

Stage == {"none", "opening", "open", "closing", "closed"}
Phase == {"going", "settling", "reaping", "closing", "closed"}

TypeOK ==
  /\ parent \in [Call -> Call \cup {Top, None}]
  /\ ended \in [Call \cup {Top} -> BOOLEAN]
  /\ live \in [Call \cup {Top} -> Nat]
  /\ res \in [Call -> Seq(Session) \cup {None}]
  /\ stage \in [Session -> Stage]
  /\ owner \in [Session -> Call \cup {None}]
  /\ closed \in [Session -> BOOLEAN]
  /\ dropping \in [Session -> BOOLEAN]
  /\ dropped \subseteq Session
  /\ reaping \in [Call -> Reaping \cup {None}]
  /\ phase \in Phase
  /\ left \in Seq(Session)
  /\ closes \in [Session -> Nat]
  /\ belated \subseteq Session
  /\ late \in BOOLEAN

Made == {c \in Call : parent[c] # None}
\* The calls above a call, itself among them: what Call.parent leads to from it.
Above(c) ==
  {b \in Call \cup {Top} :
     \A up \in SUBSET (Call \cup {Top}) :
       c \in up /\ (\A x \in up \cap Made : parent[x] \in up) => b \in up}
Under(c) == {b \in Made : c \in Above(b)}
Going(c) == \A b \in Above(c) \cup {Top} : ~ended[b]
Held(c) == IF res[c] = None THEN <<>> ELSE res[c]

-----------------------------------------------------------------------------
(* Calls. *)

\* FlowImpl.__call__, under a call no call above which has ended.
CallFlow(c, p) ==
  /\ parent[c] = None
  /\ IF p = Top THEN Made = {} ELSE p \in Made /\ Going(p)
  /\ ~ended[Top]
  /\ parent' = [parent EXCEPT ![c] = p]
  /\ live' = [live EXCEPT ![c] = 1, ![p] = @ + 1]
  /\ UNCHANGED <<ended, sessions, res, reaping, phase, left>>

\* Mutants: a call cleaned up after at its own end whatever goes on under it, and one never
\* cleaned up after.
AtEnd_IgnoresCallees(c) == IF res[c] = None THEN "out" ELSE "cleans"
AtEnd_NeverCleans(c) == IF live[c] - 1 > 0 \/ res[c] # None THEN "waits" ELSE "out"

\* What the end of a call is for those above it: nothing while calls under it go, and
\* otherwise its own cleanup, or being counted out where it made nothing.
AtEnd(c) ==
  IF live[c] - 1 > 0 THEN "waits" ELSE IF res[c] = None THEN "out" ELSE "cleans"

\* The finally of FlowImpl.__call__, with no step of anything else in it: the last call
\* under one that ended cleans up after it.
EndCall(c) ==
  /\ c \in Made /\ ~ended[c]
  /\ ended' = [ended EXCEPT ![c] = TRUE]
  /\ LET p == parent[c]
         start(b) == [reaping EXCEPT ![c] = [at |-> b, taken |-> FALSE, todo |-> <<>>]]
     IN CASE AtEnd(c) = "waits" ->
               /\ live' = [live EXCEPT ![c] = @ - 1]
               /\ UNCHANGED reaping
          [] AtEnd(c) = "cleans" ->
               /\ live' = [live EXCEPT ![c] = @ - 1]
               /\ reaping' = start(c)
          [] AtEnd(c) = "out" ->
               /\ live' = [live EXCEPT ![c] = @ - 1, ![p] = @ - 1]
               /\ reaping' = IF live[p] = 1 /\ ended[p] /\ p # Top THEN start(p) ELSE reaping
  /\ UNCHANGED <<parent, sessions, res, phase, left>>

-----------------------------------------------------------------------------
(* Sessions. *)

\* AgentView._placed: the call is asked whether it goes on before the driver opens one, and
\* not again after.
Open(s, c) ==
  /\ stage[s] = "none" /\ c \in Made /\ Going(c)
  /\ stage' = [stage EXCEPT ![s] = "opening"]
  /\ owner' = [owner EXCEPT ![s] = c]
  /\ UNCHANGED <<closed, dropping, dropped, closes, belated, tree, res, reaping, phase, left>>

\* Call.hold, whatever became of the call meanwhile.
Opened(s) ==
  /\ stage[s] = "opening"
  /\ stage' = [stage EXCEPT ![s] = "open"]
  /\ res' = [res EXCEPT ![owner[s]] = Append(Held(owner[s]), s)]
  /\ belated' = IF ended[owner[s]] THEN belated \cup {s} ELSE belated
  /\ UNCHANGED <<owner, closed, dropping, dropped, closes, tree, reaping, phase, left>>

\* The driver fails to open it, or is cancelled.
OpenFails(s) ==
  /\ stage[s] = "opening"
  /\ stage' = [stage EXCEPT ![s] = "closed"]
  /\ UNCHANGED <<owner, closed, dropping, dropped, closes, belated, tree, res, reaping, phase,
                 left>>

\* _dropped: the flow has let go of the view.
ViewGoes(s) ==
  /\ stage[s] = "open" /\ ~closed[s] /\ s \notin dropped
  /\ dropped' = dropped \cup {s}
  /\ UNCHANGED <<stage, owner, closed, dropping, closes, belated, tree, res, reaping, phase, left>>

\* Mutants: a session whose close has started is closed again; one whose view went is left to
\* the loop alone.
MayShut_Twice(s) == stage[s] # "closed"
MayShut_Dropped(s) == ~closed[s] /\ s \in dropped

\* Whichever comes first closes a session, once.
MayShut(s) == ~closed[s]

\* Run.drain: Opened.drop for each.
Drain ==
  LET shut == {s \in dropped : MayShut(s)}
  IN /\ dropped' = {}
     /\ closed' = [s \in Session |-> closed[s] \/ s \in shut]
     /\ dropping' = [s \in Session |-> dropping[s] \/ s \in shut]
     /\ stage' = [s \in Session |-> IF s \in shut THEN "closing" ELSE stage[s]]
     /\ closes' = [s \in Session |-> closes[s] + (IF s \in shut THEN 1 ELSE 0)]
     /\ UNCHANGED <<owner, belated>>

DrainSoon ==
  /\ dropped # {} /\ Drain
  /\ UNCHANGED <<tree, res, reaping, phase, left>>

\* What is left of what a call is to release once a dropped session is closed.
Without(s, held) ==
  IF held = None THEN None
  ELSE LET rest == RemoveFirst(held, s)
       IN IF rest = <<>> THEN None ELSE rest

\* A close is over: for one its view's going started, Opened._settled.
Shut(s) ==
  /\ stage[s] = "closing"
  /\ stage' = [stage EXCEPT ![s] = "closed"]
  /\ dropping' = [dropping EXCEPT ![s] = FALSE]
  /\ res' = IF dropping[s] THEN [res EXCEPT ![owner[s]] = Without(s, @)] ELSE res
  /\ UNCHANGED <<owner, closed, dropped, closes, belated, tree, reaping, phase, left>>

-----------------------------------------------------------------------------
(* Letting go: _released goes through what a call made, the last first. *)

\* Opened.release begins to close a session.
Release(s) ==
  /\ MayShut(s) /\ stage[s] # "closed"
  /\ closed' = [closed EXCEPT ![s] = TRUE]
  /\ stage' = [stage EXCEPT ![s] = "closing"]
  /\ closes' = [closes EXCEPT ![s] = @ + 1]
  /\ UNCHANGED <<owner, dropping, dropped, belated>>

\* Opened.release returns: closed by it, or by the close under way it waits for.
Released(s) == stage[s] = "closed"

\* _cascade takes what the call it is at made.
Take(c) ==
  /\ reaping[c] # None /\ ~reaping[c].taken
  /\ LET n == reaping[c].at
     IN /\ reaping' = [reaping EXCEPT ![c] = [at |-> n, taken |-> TRUE, todo |-> Held(n)]]
        /\ res' = [res EXCEPT ![n] = None]
  /\ UNCHANGED <<tree, sessions, phase, left>>

ReapOne(c) ==
  /\ reaping[c] # None /\ reaping[c].todo # <<>>
  /\ LET s == Last(reaping[c].todo)
     IN \/ Release(s) /\ UNCHANGED reaping
        \/ /\ Released(s)
           /\ reaping' = [reaping EXCEPT ![c].todo = Front(@)]
           /\ UNCHANGED sessions
  /\ UNCHANGED <<tree, res, phase, left>>

\* Then the call above, if that was only waiting for this one.
Climb(c) ==
  /\ reaping[c] # None /\ reaping[c].taken /\ reaping[c].todo = <<>>
  /\ LET p == parent[reaping[c].at]
     IN /\ live' = [live EXCEPT ![p] = @ - 1]
        /\ reaping' = [reaping EXCEPT ![c] =
             IF live[p] = 1 /\ ended[p] /\ p # Top
               THEN [at |-> p, taken |-> FALSE, todo |-> <<>>] ELSE None]
  /\ UNCHANGED <<parent, ended, sessions, res, phase, left>>

-----------------------------------------------------------------------------
(* Run.close. *)

\* The run's flow has returned, waited for or not.
RunEnds ==
  /\ phase = "going"
  /\ \E c \in Made : parent[c] = Top /\ ended[c]
  /\ phase' = "settling"
  /\ ended' = [ended EXCEPT ![Top] = TRUE]
  /\ UNCHANGED <<parent, live, sessions, res, reaping, left>>

\* Run._settled: every task of the flow has ended, and the sessions dropped are let go of.
Settle ==
  /\ phase = "settling"
  /\ late \/ ((\A c \in Made : ended[c]) /\ \A s \in Session : stage[s] # "opening")
  /\ phase' = "reaping"
  /\ Drain
  /\ UNCHANGED <<tree, res, reaping, left>>

\* A mutant: what the calls still hold is not looked at.
StillHeld_None(order) == <<>>

\* What calls still going made, in the order they are gone through.
StillHeld(order) == FlattenSeq([i \in DOMAIN order |-> Held(order[i])])

\* The cascades under way are waited for, and what the calls still hold is taken.
TakeLeft ==
  /\ phase = "reaping"
  /\ late \/ \A c \in Call : reaping[c] = None
  /\ \E order \in [1..Cardinality(Made) -> Made] :
       /\ \A i, j \in DOMAIN order : i # j => order[i] # order[j]
       /\ left' = StillHeld(order)
  /\ res' = [c \in Call |-> None]
  /\ phase' = "closing"
  /\ UNCHANGED <<tree, sessions, reaping>>

ReleaseLeft ==
  /\ phase \in {"closing", "closed"} /\ left # <<>>
  /\ \/ Release(Last(left)) /\ UNCHANGED left
     \/ Released(Last(left)) /\ left' = Front(left) /\ UNCHANGED sessions
  /\ UNCHANGED <<tree, res, reaping, phase>>

\* With that and every close under way over, the environments and the journal go.
Close ==
  /\ phase = "closing"
  /\ late \/ (left = <<>> /\ \A s \in Session : ~dropping[s])
  /\ phase' = "closed"
  /\ UNCHANGED <<tree, sessions, res, reaping, left>>

-----------------------------------------------------------------------------
Init ==
  /\ parent = [c \in Call |-> None]
  /\ ended = [c \in Call \cup {Top} |-> FALSE]
  /\ live = [c \in Call \cup {Top} |-> IF c = Top THEN 1 ELSE 0]
  /\ res = [c \in Call |-> None]
  /\ stage = [s \in Session |-> "none"]
  /\ owner = [s \in Session |-> None]
  /\ closed = [s \in Session |-> FALSE]
  /\ dropping = [s \in Session |-> FALSE]
  /\ dropped = {}
  /\ reaping = [c \in Call |-> None]
  /\ phase = "going"
  /\ left = <<>>
  /\ closes = [s \in Session |-> 0]
  /\ belated = {}
  /\ late \in BOOLEAN

Flow ==
  /\ UNCHANGED late
  /\ \/ \E c \in Call, p \in Call \cup {Top} : CallFlow(c, p)
     \/ \E s \in Session, c \in Call : Open(s, c)
     \/ \E s \in Session : ViewGoes(s)

Engine ==
  /\ UNCHANGED late
  /\ \/ \E c \in Call : EndCall(c) \/ Take(c) \/ ReapOne(c) \/ Climb(c)
     \/ \E s \in Session : Opened(s) \/ OpenFails(s) \/ Shut(s)
     \/ DrainSoon
     \/ RunEnds \/ Settle \/ TakeLeft \/ ReleaseLeft \/ Close

Next == Flow \/ Engine

Spec == Init /\ [][Next]_vars

\* A flow cancelled ends, and what is awaited is over in the end; a flow need begin nothing.
FairSpec == Spec /\ WF_vars(Engine)

-----------------------------------------------------------------------------
(* Properties. *)

\* A session is closed once, by its view's going, its call's end or the run's, whichever is
\* first, of all that may race to (Opened).
ClosedOnce == \A s \in Session : closes[s] <= 1

\* A call's sessions outlive every call under it: but for one whose view went, none is
\* closed before they are all over, or the run is (_cascade, Call.live).
CalleesFirst ==
  \A c \in Call :
    reaping[c] # None => \A b \in Under(reaping[c].at) : ended[b]

\* "A session is closed at the earlier of: the end of the flow call that opened it and of every
\* call that call started; or ..." (docs/reference/flows.md): with those over and no cleanup
\* under way, the call holds nothing.  The code does not keep it (README.md).
ClosedWithCall ==
  \A c \in Made :
    (\A b \in Under(c) : ended[b]) /\ (\A b \in Call : reaping[b] = None) => res[c] = None

\* When nothing goes on under a call that ended and no cleanup is under way, it holds
\* nothing but what was opened for it since it ended: none waits for the run's end for having
\* been counted wrong.
NoneLeft ==
  \A c \in Made :
    (\A b \in Under(c) : ended[b]) /\ (\A b \in Call : reaping[b] = None) =>
      live[c] = 0 /\ \A i \in DOMAIN Held(c) : Held(c)[i] \in belated

\* What runs past its time excepted, no session is open once the run is closed, and so none
\* outlives the environment it is in.
AllClosed == phase = "closed" /\ ~late => \A s \in Session : stage[s] \in {"none", "closed"}

\* A run whose flow returned is closed in the end.
RunCloses == phase = "settling" ~> phase = "closed"

=============================================================================
