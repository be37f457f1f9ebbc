-------------------------------- MODULE Turn --------------------------------
(***************************************************************************)
(* The turns of one conversation held open in a process of its own         *)
(* (SessionBase and StreamSessionBase in coganchor/agents/base.py), and    *)
(* everything that may end one: a person's cut-off, the clock of its       *)
(* budget, the watchdog over a backend that says nothing                   *)
(* (coganchor/agents/watchdog.py), the agent stopped, the process gone.    *)
(*                                                                         *)
(* Each of these is a thread of its own, which may be held up between any  *)
(* two of its steps until the turn it was raised for is over and the next  *)
(* is running.  What is said in a turn is Answers'; a turn moved to        *)
(* another agent is not here.                                              *)
(***************************************************************************)
EXTENDS Naturals, FiniteSets

CONSTANTS
  Dog,       \* the watchdogs there may be at once, the one of the turn among them
  MaxTurn,   \* how many turns are taken
  MaxTry,    \* how many times one is tried at its place
  MaxRound,  \* how many times a hook may send it on
  MaxLate,   \* how many of what cuts turns off are held up as a turn, or a try, begins
  MaxBusy    \* how many are at work at once

ASSUME BoundsAssumption ==
  /\ IsFiniteSet(Dog) /\ Dog # {} /\ Dog \cap {"person", "clock"} = {}
  /\ MaxTurn \in Nat \ {0} /\ MaxTry \in Nat \ {0} /\ MaxRound \in Nat \ {0}
  /\ MaxLate \in Nat /\ MaxBusy \in Nat

\* A process is a name none of the watchdogs still takes aim at.
Procs == 1..(Cardinality(Dog) + 1)
Cutter == Dog \cup {"person", "clock"}
Kind(c) == IF c \in Dog THEN "dog" ELSE c

VARIABLES
  (* The turn's own thread (stream, _turning, _falling_back, _stream). *)
  at,        \* where it is
  try,       \* which try at its place this is
  round,     \* how many times it was sent on, this one counted
  outcome,   \* what the turn came to
  (* What it is open to being ended by, under the session's guard (_taking). *)
  working,   \* whether a turn is running
  nth,       \* which it is, or was last
  over,      \* whether its budget is spent
  cut,       \* whether it is cut off
  wedged,    \* whether the watchdog is what stops it
  waking,    \* whether its wait to try again is woken
  (* Its budget (_budgeting). *)
  capped,    \* whether it has one: "no", or when it cuts: "immediately", "next-response"
  timer,     \* the clock set for it: "off", "set", "landed"
  (* The process (StreamSessionBase._proc). *)
  up,        \* the one the session speaks to, or 0
  alive,     \* whether it is alive
  stopped,   \* whether the agent was: "no", "stopping" before its sessions are closed, "yes"
  (* Whatever may cut a turn off (_interrupts, _checks, Watchdog). *)
  stage,     \* how far each is
  raised,    \* the turn each was raised for
  rung,      \* the rung each watchdog is on, or "off"
  done,      \* whether its turn is over
  doomed,    \* the process it took aim at, or 0
  (* What the properties ask: who had the turn cut off. *)
  askers

threadVars == <<at, try, round, outcome>>
guardVars == <<working, nth, over, cut, wedged, waking>>
budgetVars == <<capped, timer>>
procVars == <<up, alive>>
cutterVars == <<stage, raised>>
dogVars == <<rung, done, doomed>>
vars == <<threadVars, guardVars, budgetVars, procVars, stopped, cutterVars, dogVars, askers>>

\* Where the session reads the process, and its watchdog is up.
Reading == {"reading", "handing"}
Places == {"out", "opening", "trying", "starting", "started", "saying", "lost", "failed",
           "waiting", "caught", "answered", "closing"} \cup Reading

AtWork == Cardinality({c \in Cutter : raised[c] # 0})
FewLate == AtWork <= MaxLate
AtOnce == AtWork < MaxBusy

Cutting == over \/ cut
Up == up # 0 /\ alive

-----------------------------------------------------------------------------
(* The turn's own thread. *)

\* stream and _taking: the turn is open to being cut off, and nothing is left of the last.
Take ==
  /\ at = "out" /\ nth < MaxTurn /\ FewLate
  /\ nth' = nth + 1
  /\ over' = FALSE /\ cut' = FALSE /\ wedged' = FALSE /\ waking' = FALSE
  /\ working' = TRUE
  /\ at' = "opening"
  /\ try' = 1 /\ round' = 1 /\ outcome' = "none"
  /\ askers' = {}
  /\ UNCHANGED <<budgetVars, procVars, stopped, cutterVars, dogVars>>

\* _turning up to its first try: refused of a stopped agent, or under its budget and clock.
Open ==
  /\ at = "opening"
  /\ \/ /\ stopped # "no"
        /\ at' = "closing" /\ outcome' = "stopped"
        /\ UNCHANGED budgetVars
     \/ /\ stopped = "no"
        /\ at' = "trying"
        /\ capped' \in {"no", "immediately", "next-response"}
        /\ timer' = IF capped' = "no" THEN "off" ELSE "set"
        /\ UNCHANGED outcome
  /\ UNCHANGED <<try, round, guardVars, procVars, stopped, cutterVars, dogVars, askers>>

\* The top of a try (_falling_back): refused of a stopped agent, and waited for if it is not
\* the first.
Try ==
  /\ at = "trying" /\ FewLate
  /\ IF stopped # "no"
       THEN at' = "closing" /\ outcome' = "stopped"
       ELSE at' = (IF try = 1 THEN "starting" ELSE "waiting") /\ UNCHANGED outcome
  /\ UNCHANGED <<try, round, guardVars, budgetVars, procVars, stopped, cutterVars, dogVars,
                 askers>>

\* The wait is over, or woken (_sits): a turn cut off meanwhile fails as its last try did.
Waited ==
  /\ at = "waiting"
  /\ at' = IF waking /\ cut THEN "caught" ELSE "starting"
  /\ UNCHANGED <<try, round, outcome, guardVars, budgetVars, procVars, stopped, cutterVars,
                 dogVars, askers>>

\* _start: the process up is spoken to, unless it is gone or what it was started for is.
Start ==
  /\ at = "starting"
  /\ \/ Up /\ UNCHANGED procVars
     \/ /\ up' \in Procs \ ({up} \cup {doomed[d] : d \in Dog})
        /\ alive' = TRUE
  /\ at' = "started"
  /\ UNCHANGED <<try, round, outcome, guardVars, budgetVars, stopped, cutterVars, dogVars,
                 askers>>

\* A mutant: what came while it was starting is not looked at.
CutMeanwhile_Unseen == FALSE

CutMeanwhile == Cutting

\* _stream, the process up: a turn cut off meanwhile is told nothing.
Started ==
  /\ at = "started"
  /\ alive' = (alive /\ ~CutMeanwhile)
  /\ at' = "saying"
  /\ UNCHANGED <<try, round, outcome, guardVars, budgetVars, up, stopped, cutterVars,
                 dogVars, askers>>

\* The prompt is written, and a watchdog watches the answer; or the process is gone.
Say ==
  /\ at = "saying"
  /\ \/ /\ up # 0
        /\ \E d \in Dog :
             /\ rung[d] = "off"
             /\ rung' = [rung EXCEPT ![d] = "look"]
             /\ raised' = [raised EXCEPT ![d] = nth]
        /\ at' = "reading"
     \/ /\ ~Up
        /\ at' = "failed"
        /\ UNCHANGED <<raised, rung>>
  /\ UNCHANGED <<try, round, outcome, guardVars, budgetVars, procVars, stopped, stage, done,
                 doomed, askers>>

\* Something said is handed to whoever reads the turn, the watchdog's clock held meanwhile.
Hand ==
  /\ at = "reading" /\ Up /\ at' = "handing"
  /\ UNCHANGED <<try, round, outcome, guardVars, budgetVars, procVars, stopped, cutterVars,
                 dogVars, askers>>

Resume ==
  /\ at = "handing" /\ at' = "reading"
  /\ UNCHANGED <<try, round, outcome, guardVars, budgetVars, procVars, stopped, cutterVars,
                 dogVars, askers>>

\* A response lands, and the turn is found over its budget by its own thread (_checks).
Lands ==
  /\ at = "reading" /\ Up /\ capped # "no" /\ ~cut
  /\ over' = TRUE /\ cut' = TRUE /\ waking' = TRUE
  /\ alive' = FALSE
  /\ askers' = askers \cup {"clock"}
  /\ UNCHANGED <<threadVars, working, nth, wedged, budgetVars, up, stopped, cutterVars,
                 dogVars>>

\* Watchdog.__exit__: the turn's is told, and waited for but a moment.
Exits == done' = [d \in Dog |-> done[d] \/ rung[d] # "off"]

\* The answer, which may have been written before the process went.
Answer ==
  /\ at = "reading"
  /\ at' = "answered"
  /\ Exits
  /\ UNCHANGED <<try, round, outcome, guardVars, budgetVars, procVars, stopped, cutterVars,
                 rung, doomed, askers>>

\* Or the end of what was read, and the process is let go of; it may be up still, and say
\* that it could not,
Loses ==
  /\ at = "reading"
  /\ at' = "lost"
  /\ up' = 0 /\ alive' = FALSE
  /\ UNCHANGED <<try, round, outcome, guardVars, budgetVars, stopped, cutterVars, dogVars,
                 askers>>

Lose == ~Up /\ Loses

\* and then the watchdog.
Lost ==
  /\ at = "lost"
  /\ at' = "failed"
  /\ Exits
  /\ UNCHANGED <<try, round, outcome, guardVars, budgetVars, procVars, stopped, cutterVars,
                 rung, doomed, askers>>

LastTry == try = MaxTry

\* A try that failed is tried again, unless the turn is cut off or it was the last.
Fail ==
  /\ at = "failed"
  /\ \/ /\ Cutting \/ (LastTry /\ stopped = "no")
        /\ at' = "caught"
        /\ UNCHANGED <<try, outcome, procVars>>
     \/ /\ ~Cutting /\ LastTry /\ stopped # "no"
        /\ at' = "closing" /\ outcome' = "stopped"
        /\ UNCHANGED <<try, procVars>>
     \/ /\ ~Cutting /\ ~LastTry
        /\ at' = "trying" /\ try' = try + 1
        \* What fails for its transport is tried with another (_shut).
        /\ \/ up' = 0 /\ alive' = FALSE
           \/ UNCHANGED procVars
        /\ UNCHANGED outcome
  /\ UNCHANGED <<round, guardVars, budgetVars, stopped, cutterVars, dogVars, askers>>

\* The turn failed: what was cut off answers with what was said, but not what wedged.
Caught ==
  /\ at = "caught"
  /\ outcome' = IF ~cut \/ wedged THEN "failed" ELSE "short"
  /\ at' = "closing"
  /\ UNCHANGED <<try, round, guardVars, budgetVars, procVars, stopped, cutterVars, dogVars,
                 askers>>

\* The turn answered: over, but a hook may send it on, unless it is cut off.
Answered ==
  /\ at = "answered"
  /\ \/ /\ outcome' = IF Cutting THEN "landed" ELSE "answered"
        /\ at' = "closing"
        /\ UNCHANGED <<try, round>>
     \/ /\ ~Cutting /\ round < MaxRound
        /\ at' = "trying" /\ try' = 1 /\ round' = round + 1
        /\ UNCHANGED outcome
  /\ UNCHANGED <<guardVars, budgetVars, procVars, stopped, cutterVars, dogVars, askers>>

\* _budgeted, and the turn is closed to being cut off.
End ==
  /\ at = "closing"
  /\ capped' = "no" /\ timer' = "off"
  /\ working' = FALSE
  /\ at' = "out"
  /\ UNCHANGED <<try, round, outcome, nth, over, cut, wedged, waking, procVars, stopped,
                 cutterVars, dogVars, askers>>

-----------------------------------------------------------------------------
(* What cuts it off: _interrupts, from whichever thread. *)

\* A mutant: a reason raised for one turn is the running one's.
Its_Any(n) == working

\* The turn running is the one it was raised for, 0 being whichever.
Its(n) == working /\ n \in {0, nth}

\* Done with, and nothing kept of it: a watchdog is still its own turn's.
Rests(c) ==
  /\ stage' = [stage EXCEPT ![c] = "idle"]
  /\ raised' = IF c \in Dog THEN raised ELSE [raised EXCEPT ![c] = 0]

\* The first check, under the guard: the reason is set, and whoever watches is to be told.
Sets(c, n) ==
  IF Its(n)
    THEN /\ cut' = TRUE
         /\ raised' = [raised EXCEPT ![c] = IF n = 0 THEN nth ELSE n]
         /\ askers' = IF n \in {0, nth} THEN askers \cup {Kind(c)} ELSE askers
         /\ stage' = [stage EXCEPT ![c] = "telling"]
    ELSE Rests(c) /\ UNCHANGED <<cut, askers>>

\* The second, once that is said.
Told(c) ==
  /\ stage[c] = "telling"
  /\ IF Its(raised[c])
       THEN waking' = TRUE /\ stage' = [stage EXCEPT ![c] = "cutting"] /\ UNCHANGED raised
       ELSE Rests(c) /\ UNCHANGED waking
  /\ UNCHANGED <<threadVars, working, nth, over, cut, wedged, budgetVars, procVars, stopped,
                 dogVars, askers>>

Ends(p) == alive' = (alive /\ p # up)

\* _cuts: the process goes, outside the guard.
Cuts(c) ==
  /\ stage[c] = "cutting"
  /\ Ends(up)
  /\ Rests(c)
  /\ UNCHANGED <<threadVars, guardVars, budgetVars, up, stopped, dogVars, askers>>

\* A person has the turn cut off, whichever it is (interrupt): once a turn will do here.
Interrupt ==
  /\ stage["person"] = "idle" /\ "person" \notin askers /\ AtOnce
  /\ Sets("person", 0)
  /\ UNCHANGED <<threadVars, working, nth, over, wedged, waking, budgetVars, procVars, stopped,
                 dogVars>>

\* The clock set for a turn goes off, in a thread of its own.
Rings ==
  /\ timer # "off" /\ stage["clock"] = "idle" /\ AtOnce
  /\ stage' = [stage EXCEPT !["clock"] = timer]
  /\ raised' = [raised EXCEPT !["clock"] = nth]
  /\ timer' = "off"
  /\ UNCHANGED <<threadVars, guardVars, capped, procVars, stopped, dogVars, askers>>

\* _checks: if the turn is still held to it and is over it, it is cut off, or first given a
\* while for an answer to land.
Checks ==
  /\ stage["clock"] \in {"set", "landed"}
  /\ LET held == capped # "no" /\ Its(raised["clock"])
         waits == stage["clock"] = "set" /\ capped = "next-response" /\ ~over
     IN \/ /\ held /\ waits
           /\ over' = TRUE /\ timer' = "landed" /\ Rests("clock")
        \/ /\ held /\ ~waits /\ ~cut
           /\ over' = TRUE /\ stage' = [stage EXCEPT !["clock"] = "asking"]
           /\ UNCHANGED <<timer, raised>>
        \/ /\ ~held \/ (~waits /\ cut)
           /\ over' = (over \/ held) /\ Rests("clock")
           /\ UNCHANGED timer
  /\ UNCHANGED <<threadVars, working, nth, cut, wedged, waking, capped, procVars, stopped,
                 dogVars, askers>>

\* It, or a watchdog, asks.
Asks(c) ==
  /\ stage[c] = "asking"
  /\ Sets(c, raised[c])
  /\ UNCHANGED <<threadVars, working, nth, over, wedged, waking, budgetVars, procVars, stopped,
                 dogVars>>

-----------------------------------------------------------------------------
(* The watchdog: Watchdog._watching, a rung each window. *)

Free(d) == rung[d] # "off" /\ stage[d] = "idle"
Mine(d) == ~done[d]
\* A mutant: the next is told its turn is over as this one was.
Leaves_Done(d) ==
  /\ rung' = [rung EXCEPT ![d] = "off"]
  /\ raised' = [raised EXCEPT ![d] = 0]
  /\ doomed' = [doomed EXCEPT ![d] = 0]
  /\ UNCHANGED done

\* Nothing is kept of a watchdog: the next is another.
Leaves(d) ==
  /\ rung' = [rung EXCEPT ![d] = "off"]
  /\ raised' = [raised EXCEPT ![d] = 0]
  /\ done' = [done EXCEPT ![d] = FALSE]
  /\ doomed' = [doomed EXCEPT ![d] = 0]

\* Told that the turn is over.
Gone(d) ==
  /\ Free(d) /\ done[d]
  /\ Leaves(d)
  /\ UNCHANGED <<threadVars, guardVars, budgetVars, procVars, stopped, stage, askers>>

\* _looked, a whole window of silence while nobody is being handed anything.
Looked(d) ==
  /\ Free(d) /\ Mine(d) /\ rung[d] = "look" /\ at # "handing"
  /\ rung' = [rung EXCEPT ![d] = IF Up THEN "interrupt" ELSE "drop"]
  /\ UNCHANGED <<threadVars, guardVars, budgetVars, procVars, stopped, cutterVars, done,
                 doomed, askers>>

\* A mutant: the turn is asked to stop before it is marked as one the watchdog stops.
Wedges_Late(d) == wedged

\* _wedges: marked, if it is still running.
Wedges(d) == wedged \/ Its(raised[d])

\* _interrupted: it is marked, then asked to stop.
Interrupted(d) ==
  /\ Free(d) /\ Mine(d) /\ rung[d] = "interrupt"
  /\ wedged' = Wedges(d)
  /\ stage' = [stage EXCEPT ![d] = "asking"]
  /\ rung' = [rung EXCEPT ![d] = "drop"]
  /\ UNCHANGED <<threadVars, working, nth, over, cut, waking, budgetVars, procVars, stopped,
                 raised, done, doomed, askers>>

\* _dropped: it says so, of the process there is,
Aims(d) ==
  /\ Free(d) /\ Mine(d) /\ rung[d] = "drop"
  /\ doomed' = [doomed EXCEPT ![d] = up]
  /\ stage' = [stage EXCEPT ![d] = "dropping"]
  /\ UNCHANGED <<threadVars, guardVars, budgetVars, procVars, stopped, raised, rung, done,
                 askers>>

\* looks whether the turn is over,
Drops(d) ==
  /\ stage[d] = "dropping"
  /\ IF Mine(d)
       THEN stage' = [stage EXCEPT ![d] = "signalling"] /\ UNCHANGED <<raised, dogVars>>
       ELSE stage' = [stage EXCEPT ![d] = "idle"] /\ Leaves(d)
  /\ UNCHANGED <<threadVars, guardVars, budgetVars, procVars, stopped, askers>>

\* and signals it, which it may take its time over; or has the session let go of whatever it
\* holds by then, where there was nothing to take aim at (_lets_go).
Signals(d) ==
  /\ stage[d] = "signalling"
  /\ \/ doomed[d] # 0 /\ Ends(doomed[d]) /\ UNCHANGED up
     \/ doomed[d] # 0 /\ UNCHANGED procVars
     \/ doomed[d] = 0 /\ Ends(up) /\ up' = 0
  /\ stage' = [stage EXCEPT ![d] = "idle"]
  /\ rung' = [rung EXCEPT ![d] = "kill"]
  /\ UNCHANGED <<threadVars, guardVars, budgetVars, stopped, raised, done, doomed, askers>>

\* _killed: what it took aim at, and whatever is left of it, and no more: the ladder's end.
Kills(d) ==
  /\ Free(d) /\ Mine(d) /\ rung[d] = "kill"
  /\ Ends(doomed[d])
  /\ Leaves(d)
  /\ UNCHANGED <<threadVars, guardVars, budgetVars, up, stopped, stage, askers>>

-----------------------------------------------------------------------------
(* The agent stopped (AgentBase.stop), and the process gone by itself. *)

Stop ==
  /\ stopped = "no"
  /\ stopped' = "stopping"
  /\ UNCHANGED <<threadVars, guardVars, budgetVars, procVars, cutterVars, dogVars, askers>>

\* Each session's wait is woken, and what holds it open is let go of (close, _shut).
Closes ==
  /\ stopped = "stopping"
  /\ stopped' = "yes"
  /\ waking' = TRUE
  /\ alive' = FALSE
  /\ up' = 0
  /\ UNCHANGED <<threadVars, working, nth, over, cut, wedged, budgetVars, cutterVars,
                 dogVars, askers>>

Dies ==
  /\ Up
  /\ alive' = FALSE
  /\ UNCHANGED <<threadVars, guardVars, budgetVars, up, stopped, cutterVars, dogVars,
                 askers>>

-----------------------------------------------------------------------------
Init ==
  /\ at = "out" /\ try = 1 /\ round = 1
  /\ outcome = "none"
  /\ working = FALSE /\ nth = 0 /\ over = FALSE /\ cut = FALSE
  /\ wedged = FALSE /\ waking = FALSE
  /\ capped = "no" /\ timer = "off"
  /\ up = 0 /\ alive = FALSE
  /\ stopped = "no"
  /\ stage = [c \in Cutter |-> "idle"]
  /\ raised = [c \in Cutter |-> 0]
  /\ rung = [d \in Dog |-> "off"]
  /\ done = [d \in Dog |-> FALSE]
  /\ doomed = [d \in Dog |-> 0]
  /\ askers = {}

\* What the turn's thread does of itself, between two things of others.
Thread ==
  \/ Open \/ Try \/ Start \/ Started \/ Say \/ Resume \/ Lose \/ Lost
  \/ Fail \/ Waited \/ Caught \/ Answered \/ End

Ladder(d) ==
  \/ Gone(d) \/ Looked(d) \/ Interrupted(d) \/ Aims(d) \/ Drops(d) \/ Signals(d) \/ Kills(d)

Cuttings(c) == Told(c) \/ Cuts(c) \/ Asks(c)

Next ==
  \/ Take \/ Thread \/ Hand \/ Lands \/ Answer \/ Loses
  \/ Interrupt \/ Rings \/ Checks
  \/ \E c \in Cutter : Cuttings(c)
  \/ \E d \in Dog : Ladder(d)
  \/ Stop \/ Closes \/ Dies

Spec == Init /\ [][Next]_vars

\* The threads go on; the backend need not say anything, nobody need ask.
FairSpec ==
  /\ Spec
  /\ WF_vars(Thread) /\ WF_vars(Closes) /\ WF_vars(Checks)
  /\ \A c \in Cutter : WF_vars(Cuttings(c))
  /\ \A d \in Dog : WF_vars(Ladder(d))

-----------------------------------------------------------------------------
(* Properties. *)

TypeOK ==
  /\ at \in Places /\ try \in 1..MaxTry /\ round \in 1..MaxRound
  /\ outcome \in {"none", "answered", "landed", "short", "failed", "stopped"}
  /\ working \in BOOLEAN /\ nth \in 0..MaxTurn
  /\ over \in BOOLEAN /\ cut \in BOOLEAN /\ wedged \in BOOLEAN /\ waking \in BOOLEAN
  /\ capped \in {"no", "immediately", "next-response"} /\ timer \in {"off", "set", "landed"}
  /\ up \in Procs \cup {0} /\ alive \in BOOLEAN
  /\ stopped \in {"no", "stopping", "yes"}
  /\ stage \in [Cutter -> {"idle", "asking", "telling", "cutting", "set", "landed",
                           "dropping", "signalling"}]
  /\ raised \in [Cutter -> 0..MaxTurn]
  /\ rung \in [Dog -> {"off", "look", "interrupt", "drop", "kill"}]
  /\ done \in [Dog -> BOOLEAN]
  /\ doomed \in [Dog -> Procs \cup {0}]
  /\ askers \subseteq {"dog", "person", "clock"}

\* A cut-off is never lost: a turn cut off reads on from a process that is up only until
\* whoever cut it off has ended that, however the cut came as it was starting, waiting to
\* try again or on its last words (_interrupts, _stream).
NoLostCut ==
  cut /\ at \in Reading /\ Up =>
    \E c \in Cutter : stage[c] \in {"telling", "cutting"} /\ raised[c] = nth

\* "What it was raised for is not the next turn's": a turn is cut off only by what was raised
\* for it, and by nothing left standing or held up from the one before (_nth_turn, _taking).
CutIsIts == working /\ cut => askers # {}

\* A turn that only the watchdog cut off fails: it never answers with what a cut-off leaves,
\* "which is a loop running on an empty turn" (_wedges, _turning).
WedgedFails == outcome = "short" => askers \ {"dog"} # {}

\* A turn ends though its backend never says another word, whatever it was doing and whoever
\* cut it off meanwhile: none goes on for good with nothing said (Watchdog).
TurnEnds == []<>(~working \/ at = "handing")

\* "Woken by a cut-off or a stop, the wait is over and so is the turn" (_falling_back): a turn
\* stopped as it waits to try again is not tried again.
StopEndsWait == [][at = "waiting" /\ stopped = "yes" => at' # "starting"]_vars
=============================================================================
