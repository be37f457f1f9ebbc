------------------------------ MODULE Hosting ------------------------------
(***************************************************************************)
(* One workspace's runs, shared by every frontend attached to them (Host   *)
(* in runtime/doing/hosting.py): runs started, stopped and forced, lines   *)
(* said to their agents, and the questions they ask whoever is outside.    *)
(*                                                                         *)
(* Frontends ask on threads of their own, each run is driven on one, each  *)
(* agent's turn is told of on one, each question waits on one and each     *)
(* line put into a turn is written on one.  What a thread does while it    *)
(* holds the host's lock is one action here.                               *)
(***************************************************************************)
EXTENDS Integers, FiniteSets, SequencesExt

CONSTANTS
  Frontend,   \* whoever attaches, each a client of its own
  Agent,      \* the agents filling the roles of a run's flow
  MaxSession, \* bound: sessions a run opens
  AgentOf,    \* whose each session is
  Role,       \* the Outworlder roles of the flow
  Line,       \* the lines said
  Question,   \* the questions asked
  MaxRun,     \* bound: runs started
  Chat,       \* whether the flow is a conversation, in a slot of its own
  AtLarge,    \* where a line said to no agent in particular is said to
  To,         \* bound: what lines are said to
  Afks,       \* bound: what frontends say of being away, on or off
  MaxStray,   \* bound: lines refused by those who have them all the same
  None        \* nobody

Run == 1..MaxRun
\* The sessions of a run in the order it opens them.
Session == 1..MaxSession
\* Who said a line, to what, in which run, and the lines said before it.
Saying == [by : Frontend, to : To, run : Run, after : SUBSET Line]

ASSUME HostingAssumption ==
  /\ MaxRun \in Nat /\ MaxSession \in Nat /\ MaxStray \in Nat
  /\ AgentOf \in [Session -> Agent]
  /\ Chat \in BOOLEAN /\ Afks \subseteq BOOLEAN
  /\ To \subseteq {AtLarge} \cup Agent \cup Session \cup Role
  /\ Session \cap ({AtLarge} \cup Agent \cup Role) = {}
  /\ None \notin Frontend \cup Role \cup Saying

VARIABLES
  presence,  \* each frontend: "new", "here" or "gone"
  claims,    \* Host._claims, None for a role nobody claimed
  awayAll, awayOf,               \* Host._away_all, ._away_of
  current, stopping,             \* Host._current, ._stopping: a run's number, or 0
  starting, runs, keeps, folded, closed,
  flow,      \* each run's thread: "none", "going" or "over"
  forced,    \* the runs forced
  turn,      \* each session of each run: "off", "begins" once asked for a line, or "open"
  queue,     \* Host._queue
  given,     \* Host._given: [line, session]
  puts,      \* the threads putting a line into a turn: [line, run, session]
  inbox,     \* what each session's CLI was told and has not said it has
  stray,     \* what each session's CLI has all the same of what it refused
  handing,   \* the threads in _hand_over, with the agents it has given a line: <<who, handed>>
  handed,    \* Host._handed, as the run whose answer set it, or 0
  said,      \* each line as it was said; None for one to be said
  fate,      \* what was told of how each line ended
  heard,     \* the runs whose agents or questions heard each line, but for strays
  question   \* each question: its run, role, mode and state

people == <<presence, claims, awayAll, awayOf>>
host == <<current, stopping, starting, runs, keeps, folded, closed, flow, forced>>
lines == <<queue, given, puts, inbox, stray, handing, said, fate, heard>>
vars == <<people, host, turn, lines, handed, question>>

Fate == {"said", "answered", "unheld", "dropped"}
Asked == [run : Run, role : Role, mode : {"ask", "listen"},
          state : {"pending", "answered", "withdrawn", "returned"}]
Caller == Frontend \cup (Run \X Session)

Here == {f \in Frontend : presence[f] = "here"}

\* The types of the state; a claim is held by a frontend that is attached.
TypeOK ==
  /\ presence \in [Frontend -> {"new", "here", "gone"}]
  /\ claims \in [Role -> Here \cup {None}]
  /\ awayAll \in BOOLEAN /\ awayOf \in [Role -> BOOLEAN \cup {None}]
  /\ current \in 0..MaxRun /\ stopping \in 0..MaxRun /\ runs \in 0..MaxRun
  /\ {starting, keeps, folded, closed} \subseteq BOOLEAN
  /\ flow \in [Run -> {"none", "going", "over"}] /\ forced \subseteq Run
  /\ turn \in [Run \X Session -> {"off", "begins", "open"}]
  /\ queue \in Seq(Line)
  /\ given \subseteq [line : Line, session : Session]
  /\ puts \subseteq [line : Line, run : Run, session : Session]
  /\ {inbox, stray} \subseteq [Run \X Session -> SUBSET Line]
  /\ handing \subseteq Caller \X SUBSET Agent
  /\ handed \in 0..MaxRun
  /\ \A l \in Line : said[l] # None => said[l] \in Saying
  /\ fate \in [Line -> SUBSET Fate]
  /\ heard \in [Line -> Seq(Run)]
  /\ \A q \in Question : question[q] # None => question[q] \in Asked

May(f, r) == claims[r] \in {None, f}
Away(r) == IF awayOf[r] = None THEN awayAll ELSE awayOf[r]
Open(n) == {s \in Session : turn[<<n, s>>] = "open"}
Pending == {q \in Question : question[q] # None /\ question[q].state = "pending"}
GivenLines == {g.line : g \in given}

-----------------------------------------------------------------------------
(* Frontends, claims and away. *)

Attach(f) ==
  /\ presence[f] = "new" /\ ~closed
  /\ presence' = [presence EXCEPT ![f] = "here"]
  /\ keeps' = FALSE
  /\ UNCHANGED <<claims, awayAll, awayOf, current, stopping, starting, runs, folded, closed,
                 flow, forced, turn, lines, handed, question>>

\* The claims of those who stay.
Claimed(gone) == [r \in Role |-> IF claims[r] \in gone THEN None ELSE claims[r]]

\* _let_go: it left, or fell too far behind.
LetGo(gone) ==
  /\ presence' = [f \in Frontend |-> IF f \in gone THEN "gone" ELSE presence[f]]
  /\ claims' = Claimed(gone)

Detach(f) ==
  /\ f \in Here
  /\ LetGo({f})
  /\ UNCHANGED <<awayAll, awayOf, host, turn, lines, handed, question>>

\* With `take`, whoever holds it.
Claim(f, r) ==
  /\ f \in Here
  /\ claims' = [claims EXCEPT ![r] = f]
  /\ UNCHANGED <<presence, awayAll, awayOf, host, turn, lines, handed, question>>

Unclaim(f, r) ==
  /\ f \in Here /\ claims[r] = f
  /\ claims' = [claims EXCEPT ![r] = None]
  /\ UNCHANGED <<presence, awayAll, awayOf, host, turn, lines, handed, question>>

\* _afk of one role.
AfkRole(f, r, on) ==
  /\ f \in Here /\ May(f, r)
  /\ awayOf' = [awayOf EXCEPT ![r] = on]
  /\ UNCHANGED <<presence, claims, awayAll, host, turn, lines, handed, question>>

\* What a role says of itself once a frontend has said it of every role it may speak for.
Held(f, r) == IF May(f, r) THEN None ELSE Away(r)

\* _afk of every role.
Afk(f, on) ==
  /\ f \in Here
  /\ awayAll' = on
  /\ awayOf' = [r \in Role |-> Held(f, r)]
  /\ UNCHANGED <<presence, claims, host, turn, lines, handed, question>>

-----------------------------------------------------------------------------
(* Questions. *)

\* _live.
Live(n, r) == current = n /\ ~closed /\ ~Away(r)

\* A mutant: a run's questions are left waiting when it is over.
Withdrawn_None(over) == question

\* _releases.
Withdrawn(over) ==
  [q \in Question |-> IF q \in Pending /\ question[q].run \in over
                        THEN [question[q] EXCEPT !.state = "withdrawn"] ELSE question[q]]

\* _asks: the question is recorded where somebody is there for it.
Ask(q, n, r, options) ==
  /\ question[q] = None /\ flow[n] = "going" /\ Live(n, r)
  /\ question' = [question EXCEPT ![q] =
       [run |-> n, role |-> r, state |-> "pending",
        mode |-> IF options \/ Open(n) # {} THEN "ask" ELSE "listen"]]
  /\ UNCHANGED <<people, host, turn, lines, handed>>

\* _answer.
Answer(f, q) ==
  /\ f \in Here /\ q \in Pending /\ May(f, question[q].role)
  /\ question' = [question EXCEPT ![q].state = "answered"]
  /\ UNCHANGED <<people, host, turn, lines, handed>>

\* _line_for: said to the run at large or to the role, or in a chat to an agent or a
\* conversation with no turn open.
IsFor(l, q) ==
  LET n == question[q].run
      to == said[l].to
  IN /\ May(said[l].by, question[q].role)
     /\ \/ to \in {AtLarge, question[q].role}
        \/ Chat /\ \/ to \in Agent /\ \A s \in Open(n) : AgentOf[s] # to
                   \/ to \in Session /\ to \notin Open(n)

\* A mutant: only a line said to the role by name answers it.
LineFor_RoleOnly(q) ==
  {l \in ToSet(queue) : said[l].to \in Role /\ IsFor(l, q)}

\* The oldest of them.
LineFor(q) ==
  {queue[i] : i \in {i \in DOMAIN queue :
     IsFor(queue[i], q) /\ \A j \in 1..(i - 1) : ~IsFor(queue[j], q)}}

\* What waits once a line is taken.
Without(l) == RemoveFirst(queue, l)

Returned(q) == question' = [question EXCEPT ![q].state = "returned"]

\* The thread waiting looks again, woken or not: what it does with what it finds.
HearsAnswer(q) ==
  /\ question[q].state = "answered"
  /\ Returned(q)
  /\ handed' = IF question[q].mode = "listen" THEN question[q].run ELSE handed
  /\ UNCHANGED lines

HearsNobody(q) ==
  /\ \/ question[q].state = "withdrawn"
     \/ question[q].state = "pending" /\ ~Live(question[q].run, question[q].role)
  /\ Returned(q)
  /\ UNCHANGED <<lines, handed>>

TakesLine(q) ==
  /\ question[q].state = "pending" /\ Live(question[q].run, question[q].role)
  /\ question[q].mode = "listen"
  /\ \E l \in LineFor(q) :
       /\ queue' = Without(l)
       /\ fate' = [fate EXCEPT ![l] = @ \cup {"answered"}]
       /\ heard' = [heard EXCEPT ![l] = Append(@, question[q].run)]
  /\ Returned(q)
  /\ handed' = question[q].run
  /\ UNCHANGED <<given, puts, inbox, stray, handing, said>>

Wakes(q) ==
  /\ question[q] # None
  /\ HearsAnswer(q) \/ HearsNobody(q) \/ TakesLine(q)
  /\ UNCHANGED <<people, host, turn>>

-----------------------------------------------------------------------------
(* Runs. *)

\* _drops: what was still waiting is told of, and let go of.
Drops ==
  /\ fate' = [l \in Line |-> IF l \in GivenLines \cup ToSet(queue)
                               THEN fate[l] \cup {"dropped"} ELSE fate[l]]
  /\ queue' = <<>>
  /\ given' = {}
  /\ UNCHANGED <<puts, inbox, stray, handing, said, heard>>

\* _start, as far as loading the flow, off the lock.
Start(f) ==
  /\ f \in Here /\ ~closed /\ current = 0 /\ ~starting /\ ~folded
  /\ runs < MaxRun
  /\ starting' = TRUE
  /\ UNCHANGED <<people, current, stopping, runs, keeps, folded, closed, flow, forced, turn,
                 lines, handed, question>>

\* The flow would not load, or the host closed while it did.
StartFails ==
  /\ starting
  /\ starting' = FALSE
  /\ UNCHANGED <<people, current, stopping, runs, keeps, folded, closed, flow, forced, turn,
                 lines, handed, question>>

StartGoes ==
  /\ starting /\ ~closed
  /\ starting' = FALSE
  /\ runs' = runs + 1
  /\ current' = runs + 1
  /\ flow' = [flow EXCEPT ![runs + 1] = "going"]
  /\ keeps' = FALSE
  /\ queue' = <<>> /\ given' = {} /\ handed' = 0
  /\ UNCHANGED <<people, stopping, folded, closed, forced, turn, puts, inbox, stray, handing,
                 said, fate, heard, question>>

\* _drives: the flow of a run is over.
Ends(n) ==
  /\ flow[n] = "going"
  /\ flow' = [flow EXCEPT ![n] = "over"]
  /\ stopping' = IF stopping = n THEN 0 ELSE stopping
  /\ IF current = n
       THEN /\ current' = 0
            /\ question' = Withdrawn({n})
            /\ Drops
            /\ keeps' = (keeps \/ (Here = {} /\ ~folded))
       ELSE UNCHANGED <<current, question, lines, keeps>>
  /\ UNCHANGED <<people, starting, runs, folded, closed, forced, turn, handed>>

\* _stops.
StopsCurrent ==
  /\ current' = 0
  /\ question' = Withdrawn({current})
  /\ Drops

Stop(f) ==
  /\ f \in Here /\ current # 0
  /\ StopsCurrent
  /\ stopping' = current
  /\ UNCHANGED <<people, starting, runs, keeps, folded, closed, flow, forced, turn, handed>>

\* A run stopped reads as over from here, whatever is still unwinding behind it.
ForceStop(f) ==
  /\ f \in Here
  /\ \/ current # 0 /\ StopsCurrent /\ forced' = forced \cup {current}
     \/ current = 0 /\ stopping # 0 /\ forced' = forced \cup {stopping}
        /\ UNCHANGED <<current, question, lines>>
  /\ stopping' = 0
  /\ UNCHANGED <<people, starting, runs, keeps, folded, closed, flow, turn, handed>>

\* _close.
Close ==
  /\ ~closed
  /\ closed' = TRUE
  /\ question' = Withdrawn({current, stopping})
  /\ IF current # 0 THEN Drops ELSE UNCHANGED lines
  /\ current' = 0 /\ stopping' = 0
  /\ LetGo(Here)
  /\ UNCHANGED <<awayAll, awayOf, starting, runs, keeps, folded, flow, forced, turn, handed>>

Listening(n) == \E q \in Pending : question[q].run = n /\ question[q].mode = "listen"

\* _folds, once it has been so for long enough.
Fold ==
  /\ Chat /\ ~folded /\ current # 0 /\ Here = {} /\ Listening(current)
  /\ folded' = TRUE
  /\ awayAll' = TRUE /\ awayOf' = [r \in Role |-> None]
  /\ UNCHANGED <<presence, claims, current, stopping, starting, runs, keeps, closed, flow,
                 forced, turn, lines, handed, question>>

\* Host.idle.
Idle == ~closed /\ Here = {} /\ current = 0 /\ stopping = 0 /\ ~starting /\ ~keeps

-----------------------------------------------------------------------------
(* Lines. *)

\* _say, but for handing it over; a line to a role only from whoever may speak for it.
Say(f, l, to) ==
  /\ f \in Here /\ current # 0 /\ said[l] = None
  /\ \A h \in handing : h[1] # f
  /\ to \in Role => May(f, to)
  /\ said' = [said EXCEPT ![l] =
       [by |-> f, to |-> to, run |-> current, after |-> {k \in Line : said[k] # None}]]
  /\ queue' = Append(queue, l)
  /\ handing' = handing \cup {<<f, {}>>}
  /\ UNCHANGED <<given, puts, inbox, stray, fate, heard, people, host, turn, handed, question>>

\* A mutant: the agents of a run stopping are handed lines as those of the one going are.
Wanted_AnyRun(n, s) == {AtLarge, AgentOf[s], s}

\* What a line taken by a turn starting may have been said to (_at_turn_start).
Wanted(n, s) ==
  IF current # n THEN {} ELSE {AgentOf[s], s} \cup (IF handed # 0 THEN {} ELSE {AtLarge})

\* _at_turn_start: a turn starting takes the oldest line for it into its prompt.
TurnStarts(n, s) ==
  /\ flow[n] = "going" /\ turn[<<n, s>>] = "off"
  /\ turn' = [turn EXCEPT ![<<n, s>>] = "begins"]
  /\ LET for == {i \in DOMAIN queue : said[queue[i]].to \in Wanted(n, s)}
     IN IF for = {}
          THEN UNCHANGED <<queue, fate, heard>>
          ELSE LET l == queue[CHOOSE i \in for : \A j \in for : i <= j]
               IN /\ queue' = Without(l)
                  /\ fate' = [fate EXCEPT ![l] = @ \cup {"said"}]
                  /\ heard' = [heard EXCEPT ![l] = Append(@, n)]
  /\ handed' = IF current = n THEN 0 ELSE handed
  /\ UNCHANGED <<given, puts, inbox, stray, handing, said, people, host, question>>

\* _heard of `begins`: an open turn may take what waits.
Begins(n, s) ==
  /\ turn[<<n, s>>] = "begins"
  /\ turn' = [turn EXCEPT ![<<n, s>>] = "open"]
  /\ handing' = IF current = n THEN handing \cup {<<<<n, s>>, {}>>} ELSE handing
  /\ UNCHANGED <<queue, given, puts, inbox, stray, said, fate, heard, people, host, handed,
                 question>>

\* _unholds: what an agent was given and has not said it has.
Unheld(a) == {g \in given : AgentOf[g.session] = a}

\* _heard of `ends`; what the CLI was told and did not take it drops, or answers later.
TurnEnds(n, s) ==
  /\ turn[<<n, s>>] = "open"
  /\ \A h \in handing : h[1] # <<n, s>>
  /\ turn' = [turn EXCEPT ![<<n, s>>] = "off"]
  /\ LET held == IF current = n THEN Unheld(AgentOf[s]) ELSE {}
     IN /\ given' = given \ held
        /\ fate' = [l \in Line |-> IF l \in {g.line : g \in held}
                                     THEN fate[l] \cup {"unheld"} ELSE fate[l]]
  /\ \E drops \in BOOLEAN : inbox' = [inbox EXCEPT ![<<n, s>>] = IF drops THEN {} ELSE @]
  /\ UNCHANGED <<queue, puts, stray, handing, said, heard, people, host, handed, question>>

\* _target: a conversation's line is for that one, an agent's for its newest working one, and
\* anybody's for the first agent's first.
First(a) == CHOOSE s \in Session : AgentOf[s] = a /\ \A t \in Session : AgentOf[t] = a => s <= t
Targets(n, to) ==
  LET of == {s \in Open(n) : to \in {AtLarge, AgentOf[s], s}}
  IN {s \in of :
        \A t \in of :
          IF to = AtLarge THEN First(AgentOf[s]) < First(AgentOf[t])
                           \/ (AgentOf[s] = AgentOf[t] /\ s <= t)
          ELSE t <= s}

\* A mutant: an agent is given another line while it has yet to take the last.
Holding_Not(who) == who[2]

\* The agents a thread may give no line to: those with one, and those it has given one to.
Holding(who) == {AgentOf[g.session] : g \in given} \cup who[2]

\* The conversation a line said to that goes into, where its agent may be given one.
Fits(n, to, who) == {s \in Targets(n, to) : AgentOf[s] \notin Holding(who)}

\* _picks: the oldest line of each view whose conversation may have it.
Picks(n, who) ==
  LET to(i) == said[queue[i]].to
      heads == {i \in DOMAIN queue : to(i) \notin Role /\ \A j \in 1..(i - 1) : to(j) # to(i)}
      fit == {i \in heads : Fits(n, to(i), who) # {}}
  IN {i \in fit : \A j \in fit : i <= j}

\* One round of _hand_over: a line is given, and a thread of its own puts it in.
HandOver(who) ==
  /\ who \in handing
  /\ LET picked == IF current = 0 THEN {} ELSE Picks(current, who)
     IN IF picked = {}
          THEN /\ handing' = handing \ {who}
               /\ UNCHANGED <<queue, given, puts>>
          ELSE \E i \in picked : \E s \in Fits(current, said[queue[i]].to, who) :
                 /\ queue' = Without(queue[i])
                 /\ given' = given \cup {[line |-> queue[i], session |-> s]}
                 /\ puts' = puts \cup {[line |-> queue[i], run |-> current, session |-> s]}
                 /\ handing' = (handing \ {who}) \cup {<<who[1], who[2] \cup {AgentOf[s]}>>}
  /\ UNCHANGED <<inbox, stray, said, fate, heard, people, host, turn, handed, question>>

\* _puts_in: the line is written to the agent.
PutsIn(p) ==
  /\ p \in puts
  /\ puts' = puts \ {p}
  /\ inbox' = [inbox EXCEPT ![<<p.run, p.session>>] = @ \cup {p.line}]
  /\ UNCHANGED <<queue, given, stray, handing, said, fate, heard, people, host, turn, handed,
                 question>>

\* A mutant: a line refused goes back whatever became of it meanwhile.
Back_Always(p) == {[line |-> p.line, session |-> p.session]}

\* What of a line refused is still the agent's.
Back(p) == given \cap {[line |-> p.line, session |-> p.session]}

\* A mutant: a line refused waits behind those said since.
Requeued_Last(l) == Append(queue, l)

\* A line goes back to the head of the queue.
Requeued(l) == <<l>> \o queue

\* _unreached: the write failed, and the line goes back.  It may have landed all the same: kimi
\* queues a word and then steers it, and one whose steer is refused, or not answered in time,
\* is left to be answered as a turn of its own (interject).  One that landed and is refused
\* once its agent said it has it, or it was let go of, does not go back, and is as one put in.
Unreached(p) ==
  /\ p \in puts
  /\ puts' = puts \ {p}
  /\ given' = given \ Back(p)
  /\ queue' = IF Back(p) = {} THEN queue ELSE Requeued(p.line)
  /\ \/ UNCHANGED stray
     \/ /\ Back(p) # {}
        /\ Cardinality(UNION {stray[x] : x \in Run \X Session}) < MaxStray
        /\ stray' = [stray EXCEPT ![<<p.run, p.session>>] = @ \cup {p.line}]
  /\ UNCHANGED <<inbox, handing, said, fate, heard, people, host, turn, handed, question>>

\* A conversation knows a line it has said it has while it is being put in, or is in, and it
\* has not said so before (steering, unsteered and took in coganchor/agents/base.py).
Awaited(n, s, l) ==
  l \in inbox[<<n, s>>] \/ [line |-> l, run |-> n, session |-> s] \in puts

\* _took: an agent says it has a line, in a turn: one it was told, or a stray, which is known
\* by its words where it is given them again.
Took(n, s, l) ==
  /\ turn[<<n, s>>] = "open"
  /\ \A h \in handing : h[1] # <<n, s>>
  /\ \/ /\ l \in inbox[<<n, s>>]
        /\ inbox' = [inbox EXCEPT ![<<n, s>>] = @ \ {l}]
        /\ heard' = [heard EXCEPT ![l] = Append(@, n)]
     \/ /\ l \in stray[<<n, s>>] /\ Awaited(n, s, l)
        /\ UNCHANGED <<inbox, heard>>
  /\ LET one == {g \in given : current = n /\ g.line = l /\ AgentOf[g.session] = AgentOf[s]}
     IN /\ given' = given \ one
        /\ fate' = IF one = {} THEN fate ELSE [fate EXCEPT ![l] = @ \cup {"said"}]
        /\ handing' = IF one = {} THEN handing ELSE handing \cup {<<<<n, s>>, {}>>}
  /\ UNCHANGED <<queue, puts, stray, said, people, host, turn, handed, question>>

-----------------------------------------------------------------------------
Init ==
  /\ presence = [f \in Frontend |-> "new"]
  /\ claims = [r \in Role |-> None]
  /\ awayAll = FALSE /\ awayOf = [r \in Role |-> None]
  /\ current = 0 /\ stopping = 0 /\ runs = 0
  /\ starting = FALSE /\ keeps = FALSE /\ folded = FALSE /\ closed = FALSE
  /\ flow = [n \in Run |-> "none"] /\ forced = {}
  /\ turn = [x \in Run \X Session |-> "off"]
  /\ queue = <<>> /\ given = {} /\ puts = {}
  /\ inbox = [x \in Run \X Session |-> {}] /\ stray = [x \in Run \X Session |-> {}]
  /\ handing = {} /\ handed = 0
  /\ said = [l \in Line |-> None]
  /\ fate = [l \in Line |-> {}]
  /\ heard = [l \in Line |-> <<>>]
  /\ question = [q \in Question |-> None]

\* What frontends ask.
Asks ==
  \/ \E f \in Frontend :
       \/ Attach(f) \/ Detach(f) \/ Start(f) \/ Stop(f) \/ ForceStop(f)
       \/ \E r \in Role : Claim(f, r) \/ Unclaim(f, r) \/ \E on \in Afks : AfkRole(f, r, on)
       \/ \E on \in Afks : Afk(f, on)
       \/ \E q \in Question : Answer(f, q)
       \/ \E l \in Line, to \in To : Say(f, l, to)
  \/ Close

\* What the runs' flows and their agents do.
Runs ==
  \/ StartFails \/ StartGoes
  \/ \E n \in Run : Ends(n)
  \/ \E q \in Question, n \in Run, r \in Role, options \in BOOLEAN : Ask(q, n, r, options)
  \/ \E n \in Run, s \in Session :
       TurnStarts(n, s) \/ Begins(n, s) \/ TurnEnds(n, s) \/ \E l \in Line : Took(n, s, l)
  \/ Fold

\* What the host's own threads do.
Threads ==
  \/ \E q \in Question : Wakes(q)
  \/ \E who \in handing : HandOver(who)
  \/ \E p \in puts : PutsIn(p) \/ Unreached(p)

Next == Asks \/ Runs \/ Threads

Spec == Init /\ [][Next]_vars

\* A thread waiting on a question looks again every tick, woken or not.
FairSpec == Spec /\ \A q \in Question : WF_vars(Wakes(q))

-----------------------------------------------------------------------------
(* Properties. *)

\* Every line said is waiting, or given to one agent, or its end was told of, and only one of
\* these: none is lost and none is told of twice, whatever run stops, turn ends or agent
\* refuses it meanwhile ("Never dropped", docs/features/steering.md).
LinesAccounted ==
  \A l \in Line : said[l] # None =>
    Cardinality({i \in DOMAIN queue : queue[i] = l})
      + Cardinality({g \in given : g.line = l}) + Cardinality(fate[l]) = 1

\* Lines of one frontend to one conversation.
Alike(k, l) == said[k].by = said[l].by /\ said[k].to = said[l].to /\ said[l].to \in Session

\* What one person says to one conversation is taken in the order it was said: while a line
\* waits, those said after it wait behind it, though it was given, refused and put back ("the
\* line returns to the head of the queue", docs/reference/daemon.md).
InOrder ==
  \A i \in DOMAIN queue, l \in Line :
    said[l] # None /\ queue[i] \in said[l].after /\ Alike(queue[i], l)
      => \E j \in DOMAIN queue : i < j /\ queue[j] = l

\* A line is heard by the run it was said to: a run stopping, whose agents and questions go
\* on a while, takes nothing meant for the one that replaced it (_at_turn_start, _asks), nor
\* is what it refuses told to another's.
HeardByItsRun ==
  \A l \in Line :
    /\ \A i \in DOMAIN heard[l] : heard[l][i] = said[l].run
    /\ \A x \in Run \X Session : l \in stray[x] => x[1] = said[l].run

\* An agent is given one line at a time, though every frontend and every turn hands over on a
\* thread of its own: "a backend given a second word while swallowing the first answers once".
OneAtATime ==
  \A g, h \in given : AgentOf[g.session] = AgentOf[h.session] => g = h

\* No question is left to be answered once its run is over, stopped or forced, or the host
\* closed: an answer reaches the run that goes on waiting for it.
PendingIsGoing == \A q \in Pending : question[q].run = current

\* No question is left waiting for what nobody announced: a line that may answer what a flow
\* waits to be told does, said before it was asked or after; one whose role is away is asked of
\* nobody; and what was answered or withdrawn returns to the flow.
Noticed ==
  \A q \in Question :
    /\ \A l \in Line :
         (q \in Pending /\ question[q].mode = "listen" /\ l \in ToSet(queue)
            /\ said[l].to = AtLarge /\ May(said[l].by, question[q].role))
           ~> (q \notin Pending \/ l \notin ToSet(queue) \/ ~May(said[l].by, question[q].role))
    /\ (q \in Pending /\ Away(question[q].role)) ~> (q \notin Pending \/ ~Away(question[q].role))
    /\ (question[q] # None /\ question[q].state \in {"answered", "withdrawn"})
         ~> (question[q] # None /\ question[q].state = "returned")

\* Whoever has heard a line, or has it all the same and may answer it yet.
Hearings(l) == Len(heard[l]) + Cardinality({x \in Run \X Session : l \in stray[x]})

\* "Either way it never went" (_puts_in): a line refused, which is given again, is heard once.
\* The code does not keep it, where a word refused had landed.
HeardOnce == \A l \in Line : Hearings(l) <= 1

\* "A line goes only into a conversation with a turn open -- one written between turns is
\* answered on its own, outside the flow" (_hand_over).  Nor does it keep this.
IntoOpenTurn ==
  [][\A p \in puts : PutsIn(p) => turn[<<p.run, p.session>>] = "open"]_vars

\* "`unheld`: lines a turn ended without acknowledging" (docs/reference/daemon.md): the turn
\* a line was put into has ended when the line is told to be unheld.  Nor does it this.
UnheldByItsTurn ==
  [][\A g \in given : "unheld" \in fate'[g.line] \ fate[g.line] =>
       turn'[<<current, g.session>>] # "open"]_vars

\* "A host closes itself once all hold: ... no run going, starting or stopping" (docs/
\* reference/daemon.md): an idle host has no run, but one forced, whose flow still unwinds.
\* Nor this.
IdleIsOver == Idle => \A n \in Run : flow[n] = "going" => n \in forced

=============================================================================
