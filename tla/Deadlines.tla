----------------------------- MODULE Deadlines -----------------------------
(***************************************************************************)
(* The deadlines of nested flow calls (_Clock in runtime/flowing/engine.py,*)
(* with FlowImpl.__call__, run_flow and the turns of AgentView.run that    *)
(* they act on).                                                           *)
(*                                                                         *)
(* The run's flow and the flows it awaits are frames of one asyncio task.  *)
(* A call whose budget has a duration sooner than those above it has a     *)
(* clock, which stops it by cancelling that task, as a user's stop does,   *)
(* and tells the two apart by counting the cancels the task was asked for. *)
(* A graceful clock waits for the turns under its call, those other tasks  *)
(* of the flow take too.  A cancel reaches the task where it next waits,   *)
(* never while it runs, and cancels asked for before that reach it as one. *)
(***************************************************************************)
EXTENDS Integers, Sequences, FiniteSets

CONSTANTS
  Side,      \* the turns of other tasks of the flow: a gather's, or one never awaited
  Main,      \* the turn the task itself awaits
  MaxDepth,  \* bound: calls one under another
  MaxCall,   \* bound: calls made
  MaxStop    \* bound: how often the run is stopped from outside

Turn == Side \cup {Main}

ASSUME DeadlinesAssumption ==
  /\ Main \notin Side
  /\ MaxDepth \in Nat \ {0} /\ MaxCall \in Nat \ {0} /\ MaxStop \in Nat

VARIABLES
  frames,   \* the calls under way, the run's first: each with its _Clock, if it has one
  task,     \* what the task is at: it runs, or waits for something
  raising,  \* the exception on its way through the top frame
  pending,  \* whether a cancel asked for has yet to reach the task
  cancels,  \* Task.cancelling()
  turn,     \* each turn's stage, and how deep the call it is under is
  stops,    \* how often the run was stopped from outside
  made      \* how many calls were made

vars == <<frames, task, raising, pending, cancels, turn, stops, made>>

Raised == {"none", "cancelled", "duration", "error"}
Handle == {"none", "timer", "soon"}
Frame == [armed : BOOLEAN, graceful : BOOLEAN, cancelling : Nat, inflight : Int,
          expired : BOOLEAN, fired : BOOLEAN, handle : Handle,
          due : BOOLEAN,            \* the time has come
          caught : BOOLEAN,         \* its flow has been raised a CancelledError
          stops : Nat,              \* `stops` when the clock was made
          spared : SUBSET Turn]     \* the turns under way when it expired
Stage == [stage : {"none", "opening", "going"}, depth : 0..MaxDepth]

TypeOK ==
  /\ frames \in Seq(Frame) /\ Len(frames) <= MaxDepth
  /\ task \in {"runs", "waits", "in turn", "finishing", "over"}
  /\ raising \in Raised
  /\ pending \in BOOLEAN
  /\ cancels \in Nat
  /\ turn \in [Turn -> Stage]
  /\ stops \in 0..MaxStop
  /\ made \in 0..MaxCall

Depth == Len(frames)
Clocks == {i \in 1..Depth : frames[i].armed}
Under(i) == {t \in Turn : turn[t].stage = "going" /\ turn[t].depth >= i}
Idle == [stage |-> "none", depth |-> 0]

-----------------------------------------------------------------------------
(* What a clock does. *)

\* A mutant: a clock that waited for the turns is never told they are over.
AfterTurns_Never(f) == f

\* _Clock.turned, once the last turn under the call is over: it goes from the loop.
AfterTurns(f) ==
  IF f.armed /\ f.expired /\ f.inflight = 0 /\ ~f.fired /\ f.handle = "none"
    THEN [f EXCEPT !.handle = "soon"]
    ELSE f

\* Call.turning, for a turn under the call at `depth`: each clock over it counts it.
Turned(depth, delta) ==
  [i \in 1..Depth |->
     IF i <= depth /\ frames[i].armed
       THEN AfterTurns([frames[i] EXCEPT !.inflight = @ + delta])
       ELSE frames[i]]

\* Task.cancel.
Cancel ==
  /\ cancels' = cancels + 1
  /\ pending' = TRUE

\* The loop's callbacks run while the task does not.
Loop == task \notin {"runs", "over"}

\* The time of a call's deadline comes: a clock is only made for one sooner than those over it.
Pass(i) ==
  /\ i \in Clocks /\ ~frames[i].due
  /\ \A j \in Clocks : j > i => frames[j].due
  /\ frames' = [frames EXCEPT ![i].due = TRUE]
  /\ UNCHANGED <<task, raising, pending, cancels, turn, stops, made>>

\* A mutant: a graceful deadline waits for no turn.
Waits_Never(f) == FALSE

\* Whether a clock that expires waits for the turns under way.
Waits(f) == f.graceful /\ f.inflight # 0

\* _Clock.expire: the loop runs its timers in the order they are due.
Expire(i) ==
  /\ Loop
  /\ i \in Clocks /\ frames[i].due /\ frames[i].handle = "timer"
  /\ \A j \in Clocks : j > i => frames[j].handle # "timer"
  /\ LET f == [frames[i] EXCEPT !.handle = "none", !.expired = TRUE, !.spared = Under(i)]
     IN IF Waits(f)
          THEN /\ frames' = [frames EXCEPT ![i] = f]
               /\ UNCHANGED <<cancels, pending>>
          ELSE /\ frames' = [frames EXCEPT ![i] = [f EXCEPT !.fired = TRUE]]
               /\ Cancel
  /\ UNCHANGED <<task, raising, turn, stops, made>>

\* _Clock._fire, asked of the loop by the turn that ended last.
Fire(i) ==
  /\ Loop
  /\ i \in Clocks /\ frames[i].handle = "soon"
  /\ frames' = [frames EXCEPT ![i].handle = "none", ![i].fired = TRUE]
  /\ Cancel
  /\ UNCHANGED <<task, raising, turn, stops, made>>

\* The run is stopped from outside: its task is cancelled.
Stop ==
  /\ Loop /\ stops < MaxStop
  /\ stops' = stops + 1
  /\ Cancel
  /\ UNCHANGED <<frames, task, raising, turn, made>>

-----------------------------------------------------------------------------
(* What the task does. *)

NoClock == [armed |-> FALSE, graceful |-> FALSE, cancelling |-> 0, inflight |-> 0,
            expired |-> FALSE, fired |-> FALSE, handle |-> "none", due |-> FALSE,
            caught |-> FALSE, stops |-> 0, spared |-> {}]

\* A mutant: the cancels already asked for when the clock is made are not its baseline.
Armed_FromZero(graceful) ==
  [NoClock EXCEPT !.armed = TRUE, !.graceful = graceful, !.handle = "timer", !.stops = stops]

\* _Clock.__init__.
Armed(graceful) ==
  [NoClock EXCEPT !.armed = TRUE, !.graceful = graceful, !.handle = "timer",
                  !.cancelling = cancels, !.stops = stops]

Running == task = "runs" /\ raising = "none"

\* FlowImpl.__call__ and Call.arm: a clock where the deadline is sooner than those above,
\* none of which has then come.
CallFlow(f) ==
  /\ Running /\ Depth < MaxDepth /\ made < MaxCall
  /\ f.armed => \A i \in Clocks : ~frames[i].due
  /\ frames' = Append(frames, f)
  /\ made' = made + 1
  /\ UNCHANGED <<task, raising, pending, cancels, turn, stops>>

\* The flow waits for something that is no turn; then it is there, or the cancel is.
Await ==
  /\ Running
  /\ task' = "waits"
  /\ UNCHANGED <<frames, raising, pending, cancels, turn, stops, made>>

Resume ==
  /\ task = "waits" /\ ~pending
  /\ task' = "runs"
  /\ UNCHANGED <<frames, raising, pending, cancels, turn, stops, made>>

\* Call.limits: no turn begins past the deadline of a call over it.
MayTurn(depth) == \A i \in Clocks : i <= depth => ~frames[i].due

\* AgentView.run: the task takes a turn -- checked, its session opened, and then under way.
TakeTurn ==
  /\ Running /\ MayTurn(Depth)
  /\ task' = "in turn"
  /\ turn' = [turn EXCEPT ![Main] = [stage |-> "opening", depth |-> Depth]]
  /\ UNCHANGED <<frames, raising, pending, cancels, stops, made>>

TurnGoes ==
  /\ task = "in turn" /\ ~pending /\ turn[Main].stage = "opening"
  /\ turn' = [turn EXCEPT ![Main].stage = "going"]
  /\ frames' = Turned(Depth, 1)
  /\ UNCHANGED <<task, raising, pending, cancels, stops, made>>

\* The turn answers, and the flow goes on in the same step of the loop.
TurnEnds ==
  /\ task = "in turn" /\ ~pending /\ turn[Main].stage = "going"
  /\ task' = "runs"
  /\ turn' = [turn EXCEPT ![Main] = Idle]
  /\ frames' = Turned(Depth, -1)
  /\ UNCHANGED <<raising, pending, cancels, stops, made>>

\* The cancel reaches the task where it waits: a CancelledError, out of a turn too.
Deliver ==
  /\ task \in {"waits", "in turn", "finishing"} /\ pending
  /\ pending' = FALSE
  /\ task' = "runs"
  /\ raising' = "cancelled"
  /\ turn' = [turn EXCEPT ![Main] = Idle]
  /\ frames' = [IF turn[Main].stage = "going" THEN Turned(Depth, -1) ELSE frames
                  EXCEPT ![Depth].caught = TRUE]
  /\ UNCHANGED <<cancels, stops, made>>

\* The flow catches what was raised, as its own code may.
Catch ==
  /\ task = "runs" /\ raising # "none"
  /\ raising' = "none"
  /\ UNCHANGED <<frames, task, pending, cancels, turn, stops, made>>

\* A mutant: a cancel is never taken back.
TakenBack_Never(f) == cancels

\* _Clock.settle and .stop: the cancel the clock sent is taken back.
TakenBack(f) == IF f.armed /\ f.fired THEN cancels - 1 ELSE cancels

\* Mutants: a cancel taken for the deadline's whoever else cancelled, and one never.
Settled_Always(f) == f.armed /\ f.fired
Settled_Below(f) == f.armed /\ f.fired /\ TakenBack(f) < f.cancelling

\* Whether the error is the deadline's: nobody else cancelled since the clock was made.
Settled(f) == f.armed /\ f.fired /\ TakenBack(f) <= f.cancelling

\* A turn of another task goes on when its call is over, under the calls above it.
Outlived(t) == [turn[t] EXCEPT !.depth = IF @ = Depth THEN Depth - 1 ELSE @]

\* A call is left, with what its flow raises: what was raised in it, a CancelledError it
\* had caught before, or an error of its own.
Leave(with, waits) ==
  /\ task = "runs" /\ Depth > 0
  /\ \/ with = raising
     \/ raising = "none" /\ with = "cancelled" /\ frames[Depth].caught
     \/ with = "error"
  /\ LET f == frames[Depth]
         out == IF with = "cancelled" /\ Settled(f) THEN "duration" ELSE with
         left == SubSeq(frames, 1, Depth - 1)
     IN /\ raising' = out
        /\ cancels' = TakenBack(f)
        /\ frames' = IF Depth > 1 /\ out = "cancelled"
                       THEN [left EXCEPT ![Depth - 1].caught = TRUE] ELSE left
        /\ task' = CASE Depth = 1 -> "over"
                     [] waits -> "finishing"
                     [] OTHER -> "runs"
        /\ waits => Depth > 1
  /\ turn' = [t \in Turn |-> Outlived(t)]
  /\ UNCHANGED <<pending, stops, made>>

\* What the call made is let go of (_finish), and what it raised goes on.
Finish ==
  /\ task = "finishing" /\ ~pending
  /\ task' = "runs"
  /\ UNCHANGED <<frames, raising, pending, cancels, turn, stops, made>>

-----------------------------------------------------------------------------
(* The turns of other tasks of the flow, which may outlive the call they are under. *)

SideOpens(t, depth) ==
  /\ Loop /\ turn[t].stage = "none"
  /\ depth \in 1..Depth /\ MayTurn(depth)
  /\ turn' = [turn EXCEPT ![t] = [stage |-> "opening", depth |-> depth]]
  /\ UNCHANGED <<frames, task, raising, pending, cancels, stops, made>>

SideGoes(t) ==
  /\ Loop /\ turn[t].stage = "opening" /\ turn[t].depth > 0
  /\ turn' = [turn EXCEPT ![t].stage = "going"]
  /\ frames' = Turned(turn[t].depth, 1)
  /\ UNCHANGED <<task, raising, pending, cancels, stops, made>>

\* It answers, fails, or is cancelled.
SideEnds(t) ==
  /\ Loop /\ turn[t].stage # "none"
  /\ turn' = [turn EXCEPT ![t] = Idle]
  /\ frames' = IF turn[t].stage = "going" THEN Turned(turn[t].depth, -1) ELSE frames
  /\ UNCHANGED <<task, raising, pending, cancels, stops, made>>

-----------------------------------------------------------------------------
\* The run's own call, whose budget may have a duration.
Init ==
  /\ cancels = 0
  /\ stops = 0
  /\ \E f \in {NoClock, Armed(TRUE), Armed(FALSE)} : frames = <<f>>
  /\ task = "runs"
  /\ raising = "none"
  /\ pending = FALSE
  /\ turn = [t \in Turn |-> Idle]
  /\ made = 1

Next ==
  \/ \E i \in 1..MaxDepth : Pass(i) \/ Expire(i) \/ Fire(i)
  \/ Stop
  \/ \E f \in {NoClock, Armed(TRUE), Armed(FALSE)} : CallFlow(f)
  \/ Await \/ Resume
  \/ TakeTurn \/ TurnGoes \/ TurnEnds
  \/ Deliver \/ Catch
  \/ \E with \in Raised, waits \in BOOLEAN : Leave(with, waits)
  \/ Finish
  \/ \E t \in Side, depth \in 1..MaxDepth : SideOpens(t, depth)
  \/ \E t \in Side : SideGoes(t) \/ SideEnds(t)

Spec == Init /\ [][Next]_vars

\* The loop runs every callback that is ready each time the task waits, the flow waits or
\* ends, and a turn ends.
Fairness ==
  /\ \A i \in 1..MaxDepth : SF_vars(Expire(i)) /\ SF_vars(Fire(i)) /\ WF_vars(Pass(i))
  /\ WF_vars(Await \/ Resume \/ TurnGoes \/ TurnEnds \/ Deliver \/ Finish)
  /\ WF_vars(task = "runs" /\ Next)
  /\ \A t \in Side : SF_vars(SideEnds(t))

FairSpec == Spec /\ Fairness

-----------------------------------------------------------------------------
(* Properties. *)

Fired == {i \in Clocks : frames[i].fired}
Leaves == Len(frames') < Depth

\* Every cancel the task still counts is one asked from outside or one a clock will take
\* back, so that none is left to whatever else counts them in the task (_Clock.stop).
CancelsCounted == cancels = stops + Cardinality(Fired)

\* A CancelledError is only ever on its way for a stop from outside or for a deadline of a
\* call it has yet to leave: no call's deadline reaches its caller as a cancel.
Owed == stops > 0 \/ Fired # {}
NoStrayCancel == pending \/ raising = "cancelled" => Owed

\* "The cancellation surfaces from the call as DurationExceeded" (docs/reference/flows.md):
\* what leaves a call whose clock went is no cancel where nobody else cancelled since.
DeadlineSurfaces ==
  [][Leaves /\ frames[Depth].fired /\ stops = frames[Depth].stops /\ Fired = {Depth}
     => raising' # "cancelled"]_vars

\* "A cancellation from anywhere else remains a CancelledError": no stop asked while the
\* clock was there leaves the call as its deadline's.
StopNotMasked ==
  [][Leaves /\ raising # "duration" /\ raising' = "duration"
     => stops = frames[Depth].stops]_vars

\* The clock of a graceful duration does not go while a turn that was under way when it
\* expired still is.
Goes(i) == i \in Clocks \ Fired /\ Len(frames') = Depth /\ frames'[i].fired
SparesTurns ==
  [][\A i \in Clocks : Goes(i) /\ frames[i].graceful
       => Under(i) \cap frames'[i].spared = {}]_vars

\* The same of every turn under way when the clock goes, as the docs have it: "after
\* in-flight turns under it finish (graceful duration)".  The code does not keep it.
SparesEveryTurn ==
  [][\A i \in Clocks : Goes(i) /\ frames[i].graceful => Under(i) = {}]_vars

\* A deadline that has come stops its call, or the call is left before.
DeadlineComes ==
  \A i \in 1..MaxDepth :
    (i \in Clocks /\ frames[i].due /\ ~frames[i].fired)
      ~> (i \notin Clocks \/ ~frames[i].due \/ frames[i].fired)

=============================================================================
