--------------------------- MODULE HostingProofs ---------------------------
(***************************************************************************)
(* What Hosting does for any number of frontends, runs, sessions, lines    *)
(* and questions, checked by TLAPS: what is pending is of the run going,   *)
(* an agent holds one line at a time, a line is in one place only, told of *)
(* once and of the run it was said to, and those of one person to one      *)
(* conversation are taken in the order they were said.                     *)
(***************************************************************************)
EXTENDS Hosting, FiniteSetTheorems, WellFoundedInduction, TLAPS

\* A question is of a run.
QuestionsTyped == question \in [Question -> Asked \cup {None}]

\* A run starts only when none goes, and none begins to go while another starts.
StartsAlone == current \in Nat /\ runs \in Nat /\ (starting => current = 0)

AskedInv == QuestionsTyped /\ StartsAlone /\ PendingIsGoing

LEMMA InitAsked == Init => AskedInv
  BY DEF Init, AskedInv, QuestionsTyped, StartsAlone, PendingIsGoing, Pending

\* Withdrawing what a run asks leaves its questions typed, and none of them pending.
LEMMA WithdrawnPending ==
  ASSUME QuestionsTyped, NEW over, question' = Withdrawn(over)
  PROVE  /\ QuestionsTyped'
         /\ Pending' \subseteq {q \in Pending : question[q].run \notin over}
         /\ \A q \in Pending' : question'[q].run = question[q].run
<1>1. \A q \in Question : question'[q] =
        IF q \in Pending /\ question[q].run \in over
          THEN [question[q] EXCEPT !.state = "withdrawn"] ELSE question[q]
  BY DEF Withdrawn
<1>2. \A q \in Pending : question[q] \in Asked
  BY DEF QuestionsTyped, Pending
<1>3. \A q \in Pending : [question[q] EXCEPT !.state = "withdrawn"] \in Asked
  BY <1>2 DEF Asked
<1>4. QuestionsTyped'
  BY <1>1, <1>3 DEF QuestionsTyped, Withdrawn
<1>5. \A q \in Pending : [question[q] EXCEPT !.state = "withdrawn"].state = "withdrawn"
  BY <1>2 DEF Asked
<1>6. ASSUME NEW q \in Pending'
      PROVE  q \in Pending /\ question[q].run \notin over /\ question'[q] = question[q]
  BY <1>1, <1>5, <1>6 DEF Pending
<1> QED
  BY <1>4, <1>6

\* With the run going over, no question of it is pending, and there is no other's.
LEMMA StoppedAsked ==
  ASSUME AskedInv, NEW over, current \in over, question' = Withdrawn(over),
         current' = 0, UNCHANGED <<starting, runs>>
  PROVE  AskedInv'
<1>1. Pending' = {}
  BY WithdrawnPending DEF AskedInv, PendingIsGoing
<1> QED
  BY <1>1, WithdrawnPending DEF AskedInv, StartsAlone, PendingIsGoing

\* A question changing, but not the run going, that was asked by it if it is pending.
LEMMA OneAsked ==
  ASSUME AskedInv, NEW q \in Question, NEW one \in Asked,
         one.state = "pending" => one.run = current,
         question' = [question EXCEPT ![q] = one], UNCHANGED <<current, starting, runs>>
  PROVE  AskedInv'
<1>1. QuestionsTyped'
  BY DEF AskedInv, QuestionsTyped
<1>2. question'[q] = one /\ \A p \in Question : p # q => question'[p] = question[p]
  BY DEF AskedInv, QuestionsTyped
<1>3. PendingIsGoing'
  BY <1>2 DEF AskedInv, PendingIsGoing, Pending
<1> QED
  BY <1>1, <1>3 DEF AskedInv, StartsAlone

LEMMA NextAsked == AskedInv /\ [Next]_vars => AskedInv'
<1> SUFFICES ASSUME AskedInv, [Next]_vars PROVE AskedInv'
  OBVIOUS
<1>1. CASE UNCHANGED <<question, current, starting, runs>>
  BY <1>1 DEF AskedInv, QuestionsTyped, StartsAlone, PendingIsGoing, Pending
<1>2. ASSUME NEW f \in Frontend, NEW r \in Role, NEW on,
             Attach(f) \/ Detach(f) \/ Claim(f, r) \/ Unclaim(f, r) \/ AfkRole(f, r, on)
      PROVE  AskedInv'
  BY <1>1, <1>2 DEF Attach, Detach, Claim, Unclaim, AfkRole, host
<1>3. ASSUME NEW f \in Frontend, NEW on, Attach(f) \/ Detach(f) \/ Afk(f, on)
      PROVE  AskedInv'
  BY <1>1, <1>3 DEF Attach, Detach, Afk, host
<1>4. ASSUME NEW f \in Frontend, NEW l \in Line, NEW to \in To, Say(f, l, to)
      PROVE  AskedInv'
  BY <1>1, <1>4 DEF Say, host
<1>5. ASSUME NEW f \in Frontend, Start(f)
      PROVE  AskedInv'
  BY <1>5 DEF Start, AskedInv, QuestionsTyped, StartsAlone, PendingIsGoing, Pending
<1>6. CASE StartFails
  BY <1>6 DEF StartFails, AskedInv, QuestionsTyped, StartsAlone, PendingIsGoing, Pending
<1>7. CASE StartGoes
  <2>1. Pending = {}
    BY <1>7, HostingAssumption DEF StartGoes, AskedInv, QuestionsTyped, StartsAlone,
       PendingIsGoing, Pending, Asked, Run
  <2>2. Pending' = {}
    BY <1>7, <2>1 DEF StartGoes, Pending
  <2> QED
    BY <1>7, <2>2 DEF StartGoes, AskedInv, QuestionsTyped, StartsAlone, PendingIsGoing
<1>8. ASSUME NEW n \in Run, Ends(n)
      PROVE  AskedInv'
  <2>1. CASE current = n
    BY <1>8, <2>1, StoppedAsked DEF Ends
  <2>2. CASE current # n
    BY <1>1, <1>8, <2>2 DEF Ends
  <2> QED
    BY <2>1, <2>2
<1>9. ASSUME NEW f \in Frontend, Stop(f)
      PROVE  AskedInv'
  BY <1>9, StoppedAsked DEF Stop, StopsCurrent
<1>10. ASSUME NEW f \in Frontend, ForceStop(f)
       PROVE  AskedInv'
  <2>1. CASE StopsCurrent
    BY <1>10, <2>1, StoppedAsked DEF ForceStop, StopsCurrent
  <2>2. CASE UNCHANGED <<current, question>>
    BY <1>1, <1>10, <2>2 DEF ForceStop
  <2> QED
    BY <1>10, <2>1, <2>2 DEF ForceStop
<1>11. CASE Close
  BY <1>11, StoppedAsked DEF Close
<1>12. ASSUME NEW q \in Question, NEW n \in Run, NEW r \in Role, NEW options \in BOOLEAN,
              Ask(q, n, r, options)
       PROVE  AskedInv'
  <2> DEFINE one == [run |-> n, role |-> r, state |-> "pending",
                     mode |-> IF options \/ Open(n) # {} THEN "ask" ELSE "listen"]
  <2>1. one \in Asked
    BY DEF Asked
  <2>2. one.run = current
    BY <1>12 DEF Ask, Live
  <2> QED
    BY <1>12, <2>1, <2>2, OneAsked DEF Ask, host
<1>13. ASSUME NEW q \in Question, question[q] # None,
              NEW to \in {"answered", "returned"},
              question' = [question EXCEPT ![q].state = to],
              UNCHANGED <<current, starting, runs>>
       PROVE  AskedInv'
  <2>1. question[q] \in Asked
    BY <1>13 DEF AskedInv, QuestionsTyped
  <2>2. [question[q] EXCEPT !.state = to] \in Asked
    BY <2>1 DEF Asked
  <2>3. [question[q] EXCEPT !.state = to].state # "pending"
    BY <2>1 DEF Asked
  <2>4. question' = [question EXCEPT ![q] = [question[q] EXCEPT !.state = to]]
    BY <1>13
  <2> QED
    BY <1>13, <2>2, <2>3, <2>4, OneAsked
<1>14. ASSUME NEW f \in Frontend, NEW q \in Question, Answer(f, q)
       PROVE  AskedInv'
  BY <1>13, <1>14 DEF Answer, Pending, host
<1>15. ASSUME NEW q \in Question, Wakes(q)
       PROVE  AskedInv'
  BY <1>13, <1>15, SMTT(40) DEF Wakes, HearsAnswer, HearsNobody, TakesLine, Returned, host
<1>16. ASSUME NEW n \in Run, NEW s \in Session,
              \/ TurnStarts(n, s) \/ Begins(n, s) \/ TurnEnds(n, s)
              \/ \E l \in Line : Took(n, s, l)
       PROVE  AskedInv'
  BY <1>1, <1>16 DEF TurnStarts, Begins, TurnEnds, Took, host
<1>17. ASSUME NEW who \in handing, HandOver(who)
       PROVE  AskedInv'
  BY <1>1, <1>17 DEF HandOver, host
<1>18. ASSUME NEW p \in puts, PutsIn(p) \/ Unreached(p)
       PROVE  AskedInv'
  BY <1>1, <1>18 DEF PutsIn, Unreached, host
<1>19. CASE Fold
  BY <1>1, <1>19 DEF Fold
<1>20. CASE UNCHANGED vars
  BY <1>1, <1>20 DEF vars, host
<1> QED
  <2>1. CASE Asks
    BY <1>2, <1>3, <1>4, <1>5, <1>9, <1>10, <1>11, <1>14, <2>1 DEF Asks
  <2>2. CASE Runs
    BY <1>6, <1>7, <1>8, <1>12, <1>16, <1>19, <2>2 DEF Runs
  <2>3. CASE Threads
    BY <1>15, <1>17, <1>18, <2>3 DEF Threads
  <2> QED
    BY <1>20, <2>1, <2>2, <2>3 DEF Next

\* No question is left to be answered once its run is over, stopped, forced or closed, nor is
\* one of a run that another has replaced (_asks, _releases, _start).
THEOREM Pendency == Spec => []PendingIsGoing
<1>1. AskedInv => PendingIsGoing
  BY DEF AskedInv
<1> QED
  BY InitAsked, NextAsked, <1>1, PTL DEF Spec

-----------------------------------------------------------------------------
(* What is given is only ever taken away, but by one thread giving one line to an agent that *)
(* holds none.                                                                               *)

\* Taking away, or giving to an agent with none, leaves an agent with one line at most.
LEMMA OneMore ==
  ASSUME OneAtATime, NEW g,
         \A h \in given : AgentOf[h.session] # AgentOf[g.session],
         given' \subseteq given \cup {g}
  PROVE  OneAtATime'
  BY DEF OneAtATime

LEMMA NoMore ==
  ASSUME OneAtATime, given' \subseteq given
  PROVE  OneAtATime'
  BY DEF OneAtATime

LEMMA NextOne == OneAtATime /\ [Next]_vars => OneAtATime'
<1> SUFFICES ASSUME OneAtATime, [Next]_vars PROVE OneAtATime'
  OBVIOUS
<1>1. CASE UNCHANGED given
  BY <1>1, NoMore
<1>2. CASE Drops
  BY <1>2, NoMore DEF Drops
<1>3. ASSUME Asks
      PROVE  OneAtATime'
  <2>1. ASSUME NEW f \in Frontend, NEW r \in Role, NEW on,
               \/ Attach(f) \/ Detach(f) \/ Claim(f, r) \/ Unclaim(f, r)
               \/ AfkRole(f, r, on)
        PROVE  OneAtATime'
    BY <1>1, <2>1 DEF Attach, Detach, Claim, Unclaim, AfkRole, lines
  <2>2. ASSUME NEW f \in Frontend, Attach(f) \/ Detach(f) \/ Start(f)
        PROVE  OneAtATime'
    BY <1>1, <2>2 DEF Attach, Detach, Start, lines
  <2>3. ASSUME NEW f \in Frontend, NEW on, Afk(f, on)
        PROVE  OneAtATime'
    BY <1>1, <2>3 DEF Afk, lines
  <2>4. ASSUME NEW f \in Frontend, Stop(f) \/ ForceStop(f)
        PROVE  OneAtATime'
    BY <1>1, <1>2, <2>4 DEF Stop, ForceStop, StopsCurrent, lines
  <2>5. ASSUME NEW f \in Frontend, NEW q \in Question, Answer(f, q)
        PROVE  OneAtATime'
    BY <1>1, <2>5 DEF Answer, lines
  <2>6. ASSUME NEW f \in Frontend, NEW l \in Line, NEW to \in To, Say(f, l, to)
        PROVE  OneAtATime'
    BY <1>1, <2>6 DEF Say
  <2>7. CASE Close
    BY <1>1, <1>2, <2>7 DEF Close, lines
  <2> QED
    BY <1>3, <2>1, <2>2, <2>3, <2>4, <2>5, <2>6, <2>7 DEF Asks
<1>4. ASSUME Runs
      PROVE  OneAtATime'
  <2>1. CASE StartFails \/ Fold
    BY <1>1, <2>1 DEF StartFails, Fold, lines
  <2>2. CASE StartGoes
    BY <2>2, NoMore DEF StartGoes
  <2>3. ASSUME NEW n \in Run, Ends(n)
        PROVE  OneAtATime'
    <3>1. Drops \/ UNCHANGED lines
      BY ONLY <2>3, Zenon DEF Ends
    <3>2. UNCHANGED lines => UNCHANGED given
      BY ONLY Zenon DEF lines
    <3> QED
      BY ONLY <1>1, <1>2, <3>1, <3>2
  <2>4. ASSUME NEW q \in Question, NEW n \in Run, NEW r \in Role, NEW options \in BOOLEAN,
               Ask(q, n, r, options)
        PROVE  OneAtATime'
    <3>1. UNCHANGED lines
      BY ONLY <2>4 DEF Ask
    <3>2. UNCHANGED given
      BY ONLY <3>1, Zenon DEF lines
    <3> QED
      BY ONLY <1>1, <3>2
  <2>5. ASSUME NEW n \in Run, NEW s \in Session, TurnStarts(n, s) \/ Begins(n, s)
        PROVE  OneAtATime'
    BY <1>1, <2>5 DEF TurnStarts, Begins
  <2>6. ASSUME NEW n \in Run, NEW s \in Session,
               TurnEnds(n, s) \/ \E l \in Line : Took(n, s, l)
        PROVE  OneAtATime'
    BY <2>6, NoMore DEF TurnEnds, Took
  <2> QED
    BY <1>4, <2>1, <2>2, <2>3, <2>4, <2>5, <2>6 DEF Runs
<1>5. ASSUME Threads
      PROVE  OneAtATime'
  <2>1. ASSUME NEW q \in Question, Wakes(q)
        PROVE  OneAtATime'
    BY <1>1, <2>1 DEF Wakes, HearsAnswer, HearsNobody, TakesLine, lines
  <2>2. ASSUME NEW who \in handing, HandOver(who)
        PROVE  OneAtATime'
    <3>1. CASE UNCHANGED given
      BY <1>1, <3>1
    <3>2. CASE given' # given
      <4>1. PICK i \in Picks(current, who) :
              \E s \in Fits(current, said[queue[i]].to, who) :
                given' = given \cup {[line |-> queue[i], session |-> s]}
        BY <2>2, <3>2 DEF HandOver
      <4>2. PICK s \in Fits(current, said[queue[i]].to, who) :
              given' = given \cup {[line |-> queue[i], session |-> s]}
        BY <4>1
      <4> DEFINE new == [line |-> queue[i], session |-> s]
      <4>3. \A h \in given : AgentOf[h.session] # AgentOf[new.session]
        BY <4>2 DEF Fits, Holding
      <4>4. given' \subseteq given \cup {new}
        BY <4>2
      <4> HIDE DEF new
      <4> QED
        BY <4>3, <4>4, OneMore
    <3> QED
      BY <3>1, <3>2
  <2>3. ASSUME NEW p \in puts, PutsIn(p) \/ Unreached(p)
        PROVE  OneAtATime'
    BY <2>3, NoMore DEF PutsIn, Unreached
  <2> QED
    BY <1>5, <2>1, <2>2, <2>3 DEF Threads
<1>6. CASE UNCHANGED vars
  BY <1>1, <1>6 DEF vars, lines
<1> QED
  BY <1>3, <1>4, <1>5, <1>6 DEF Next

\* An agent is given a line only once it has taken, or been relieved of, the last, though
\* every frontend and every turn hands over on a thread of its own (_hand_over, _picks).
THEOREM Singly == Spec => []OneAtATime
<1>1. Init => OneAtATime
  BY DEF Init, OneAtATime
<1> QED
  BY <1>1, NextOne, PTL DEF Spec
-----------------------------------------------------------------------------
(* Where the lines are: each in one place, and of one run. *)

Ahead(q, k, l) == \E i, j \in DOMAIN q : i < j /\ q[i] = k /\ q[j] = l
Unlike(q) == \A i, j \in DOMAIN q : q[i] = q[j] => i = j
Put(l) == {p \in puts : p.line = l}
Holders(l) == {x \in Run \X Session : l \in inbox[x]}

LineTypes ==
  /\ queue \in Seq(Line)
  /\ given \subseteq [line : Line, session : Session]
  /\ puts \subseteq [line : Line, run : Run, session : Session]
  /\ inbox \in [Run \X Session -> SUBSET Line]
  /\ said \in [Line -> Saying \cup {None}]
  /\ fate \in [Line -> SUBSET Fate]
  /\ heard \in [Line -> Seq(Run)]
  /\ current \in 0..MaxRun /\ runs \in 0..MaxRun
  /\ starting => current = 0 /\ runs < MaxRun

\* A line waits once, as it was said, to the run going, and nobody has it.
Waiting ==
  /\ Unlike(queue)
  /\ \A l \in ToSet(queue) :
       /\ said[l] # None /\ said[l].run = current
       /\ fate[l] = {} /\ heard[l] = <<>>
       /\ l \notin GivenLines /\ Put(l) = {} /\ Holders(l) = {}

\* A line given is being put into its conversation, or in, of the run going.
Giving ==
  /\ \A g, h \in given : g.line = h.line => g = h
  /\ \A g \in given :
       /\ said[g.line] # None /\ said[g.line].run = current
       /\ fate[g.line] = {} /\ heard[g.line] = <<>>
       /\ \/ [line |-> g.line, run |-> current, session |-> g.session] \in puts
          \/ g.line \in inbox[<<current, g.session>>]

\* A line is on its way once, to the run it was said to, and not yet heard.
OnItsWay ==
  /\ \A p, q \in puts : p.line = q.line => p = q
  /\ \A p \in puts : /\ said[p.line] # None /\ said[p.line].run = p.run
                     /\ heard[p.line] = <<>> /\ Holders(p.line) = {}
  /\ \A x, y \in Run \X Session : \A l \in inbox[x] \cap inbox[y] : x = y
  /\ \A x \in Run \X Session : \A l \in inbox[x] :
       said[l] # None /\ said[l].run = x[1] /\ heard[l] = <<>>

\* What became of a line is told of once it neither waits nor is given, and it is heard by the
\* run it was said to.
Told ==
  \A l \in Line :
    /\ said[l] = None => fate[l] = {} /\ heard[l] = <<>>
    /\ said[l] # None /\ l \notin ToSet(queue) /\ l \notin GivenLines => \E x : fate[l] = {x}
    /\ heard[l] = <<>> \/ heard[l] = <<said[l].run>>

Placed == LineTypes /\ Waiting /\ Giving /\ OnItsWay /\ Told

\* What a sequence of lines after another holds, and where.
LEMMA OneAfterAnother ==
  ASSUME NEW a \in Seq(Line), NEW b \in Seq(Line)
  PROVE  /\ a \o b \in Seq(Line) /\ Len(a \o b) = Len(a) + Len(b)
         /\ \A j \in 1..(Len(a) + Len(b)) :
              (a \o b)[j] = IF j <= Len(a) THEN a[j] ELSE b[j - Len(a)]
  OBVIOUS

\* The queue, as one line is taken from it or put in.
LEMMA Taking ==
  ASSUME queue \in Seq(Line), Unlike(queue), NEW l \in ToSet(queue)
  PROVE  /\ Without(l) \in Seq(Line) /\ Unlike(Without(l))
         /\ ToSet(Without(l)) = ToSet(queue) \ {l}
         /\ \A k, m : Ahead(queue, k, m) /\ k # l /\ m # l => Ahead(Without(l), k, m)
<1>1. PICK i \in 1..Len(queue) : queue[i] = l
  BY DEF ToSet
<1>2. {j \in 1..Len(queue) : queue[j] = l} = {i}
  BY <1>1 DEF Unlike
<1>3. Min({i}) = i
  BY DEF Min
<1>4. SelectInSeq(queue, LAMBDA v : v = l) = i
  BY <1>2, <1>3 DEF SelectInSeq
<1>5. Without(l) = RemoveAt(queue, i)
  BY <1>1, <1>4 DEF Without, RemoveFirst
<1> DEFINE rest == RemoveAt(queue, i)
<1>6. /\ rest \in Seq(Line) /\ Len(rest) = Len(queue) - 1
      /\ \A j \in 1..(Len(queue) - 1) : rest[j] = IF j < i THEN queue[j] ELSE queue[j + 1]
  <2> DEFINE a == SubSeq(queue, 1, i - 1)
             b == SubSeq(queue, i + 1, Len(queue))
  <2>1. /\ a \in Seq(Line) /\ Len(a) = i - 1 /\ \A j \in 1..(i - 1) : a[j] = queue[j]
    OBVIOUS
  <2>2. /\ b \in Seq(Line) /\ Len(b) = Len(queue) - i
        /\ \A j \in 1..(Len(queue) - i) : b[j] = queue[i + j]
    OBVIOUS
  <2>3. rest = a \o b
    BY DEF RemoveAt
  <2> HIDE DEF a, b, rest
  <2>4. /\ a \o b \in Seq(Line) /\ Len(a \o b) = Len(a) + Len(b)
        /\ \A j \in 1..(Len(a) + Len(b)) :
             (a \o b)[j] = IF j <= Len(a) THEN a[j] ELSE b[j - Len(a)]
    BY <2>1, <2>2, OneAfterAnother
  <2>5. Len(a) + Len(b) = Len(queue) - 1 /\ Len(queue) \in Nat
    BY <2>1, <2>2
  <2>6. rest \in Seq(Line) /\ Len(rest) = Len(queue) - 1
    BY <2>3, <2>4, <2>5
  <2>7. ASSUME NEW j \in 1..(Len(queue) - 1)
        PROVE  rest[j] = IF j < i THEN queue[j] ELSE queue[j + 1]
    <3>1. rest[j] = IF j <= i - 1 THEN a[j] ELSE b[j - (i - 1)]
      BY <2>1, <2>3, <2>4, <2>5
    <3>2. CASE j < i
      BY <2>1, <3>1, <3>2
    <3>3. CASE j >= i
      <4>1. j - (i - 1) \in 1..(Len(queue) - i) /\ i + (j - (i - 1)) = j + 1
        BY <3>3, <2>5
      <4> QED
        BY <2>2, <3>1, <3>3, <4>1
    <3> QED
      BY <3>2, <3>3
  <2> QED
    BY <2>6, <2>7
<1> HIDE DEF rest
<1>7. DOMAIN rest = 1..(Len(queue) - 1) /\ DOMAIN queue = 1..Len(queue)
  BY <1>6
<1>8. Unlike(rest)
  BY <1>6, <1>7, SMTT(40) DEF Unlike
<1>9. ToSet(rest) \subseteq ToSet(queue) \ {l}
  BY <1>1, <1>2, <1>6, <1>7, SMTT(40) DEF ToSet
<1>10. ASSUME NEW m \in ToSet(queue), m # l
       PROVE  m \in ToSet(rest)
  <2>1. PICK j \in 1..Len(queue) : queue[j] = m
    BY <1>7 DEF ToSet
  <2>2. CASE j < i
    BY <1>6, <1>7, <2>1, <2>2, SMTT(40) DEF ToSet
  <2>3. CASE j > i
    <3>1. j - 1 \in 1..(Len(queue) - 1) /\ rest[j - 1] = m
      BY <1>6, <2>1, <2>3
    <3> QED
      BY <1>7, <3>1 DEF ToSet
  <2> QED
    BY <1>1, <1>10, <2>1, <2>2, <2>3
<1>11. ASSUME NEW k, NEW m, Ahead(queue, k, m), k # l, m # l
       PROVE  Ahead(rest, k, m)
  <2>1. PICK j, h \in 1..Len(queue) : j < h /\ queue[j] = k /\ queue[h] = m
    BY <1>11 DEF Ahead
  <2> DEFINE at(x) == IF x < i THEN x ELSE x - 1
  <2>2. j # i /\ h # i
    BY <1>1, <1>11, <2>1
  <2>3. ASSUME NEW x \in 1..Len(queue), x # i
        PROVE  at(x) \in 1..(Len(queue) - 1) /\ rest[at(x)] = queue[x]
    <3>1. CASE x < i
      BY <1>6, <3>1
    <3>2. CASE x > i
      <4>1. x - 1 \in 1..(Len(queue) - 1) /\ ~(x - 1 < i) /\ x - 1 + 1 = x /\ ~(x < i)
        BY <3>2
      <4> QED
        BY <1>6, <4>1
    <3> QED
      BY <2>3, <3>1, <3>2
  <2>4. at(j) < at(h)
    BY <2>1, <2>2
  <2>5. at(j) \in DOMAIN rest /\ at(h) \in DOMAIN rest /\ rest[at(j)] = k /\ rest[at(h)] = m
    BY <1>7, <2>1, <2>2, <2>3
  <2> HIDE DEF at
  <2> QED
    BY <2>4, <2>5 DEF Ahead
<1> QED
  BY <1>5, <1>6, <1>8, <1>9, <1>10, <1>11 DEF rest

LEMMA Joining ==
  ASSUME queue \in Seq(Line), Unlike(queue), NEW l \in Line, l \notin ToSet(queue)
  PROVE  /\ Append(queue, l) \in Seq(Line) /\ Unlike(Append(queue, l))
         /\ ToSet(Append(queue, l)) = ToSet(queue) \cup {l}
         /\ \A k, m : Ahead(queue, k, m) => Ahead(Append(queue, l), k, m)
         /\ \A k \in ToSet(queue) : Ahead(Append(queue, l), k, l)
<1> DEFINE new == Append(queue, l)
<1>1. /\ new \in Seq(Line) /\ DOMAIN new = 1..(Len(queue) + 1) /\ DOMAIN queue = 1..Len(queue)
      /\ new[Len(queue) + 1] = l /\ \A i \in 1..Len(queue) : new[i] = queue[i]
      /\ Len(queue) \in Nat
  OBVIOUS
<1> HIDE DEF new
<1>2. Unlike(new)
  BY <1>1 DEF Unlike, ToSet
<1>3. ToSet(new) = ToSet(queue) \cup {l}
  <2>1. ToSet(new) \subseteq ToSet(queue) \cup {l}
    BY <1>1 DEF ToSet
  <2>2. l \in ToSet(new)
    BY <1>1 DEF ToSet
  <2>3. ToSet(queue) \subseteq ToSet(new)
    BY <1>1 DEF ToSet
  <2> QED
    BY <2>1, <2>2, <2>3
<1>4. \A k, m : Ahead(queue, k, m) => Ahead(new, k, m)
  BY <1>1 DEF Ahead
<1>5. ASSUME NEW k \in ToSet(queue)
      PROVE  Ahead(new, k, l)
  <2>1. PICK i \in 1..Len(queue) : queue[i] = k
    BY <1>1 DEF ToSet
  <2> QED
    BY <1>1, <2>1 DEF Ahead
<1> QED
  BY <1>1, <1>2, <1>3, <1>4, <1>5 DEF new

LEMMA Rejoining ==
  ASSUME queue \in Seq(Line), Unlike(queue), NEW l \in Line, l \notin ToSet(queue)
  PROVE  /\ <<l>> \o queue \in Seq(Line) /\ Unlike(<<l>> \o queue)
         /\ ToSet(<<l>> \o queue) = ToSet(queue) \cup {l}
         /\ \A k, m : Ahead(queue, k, m) => Ahead(<<l>> \o queue, k, m)
         /\ \A m \in ToSet(queue) : Ahead(<<l>> \o queue, l, m)
<1> DEFINE new == <<l>> \o queue
<1>1. /\ new \in Seq(Line) /\ DOMAIN new = 1..(Len(queue) + 1) /\ DOMAIN queue = 1..Len(queue)
      /\ new[1] = l /\ \A i \in 1..Len(queue) : new[i + 1] = queue[i]
      /\ Len(queue) \in Nat
  OBVIOUS
<1> HIDE DEF new
<1>2. \A i \in DOMAIN new : i # 1 => i - 1 \in DOMAIN queue /\ new[i] = queue[i - 1]
  BY <1>1
<1>3. Unlike(new)
  BY <1>1, <1>2 DEF Unlike, ToSet
<1>4. ToSet(new) = ToSet(queue) \cup {l}
  <2>1. ToSet(new) \subseteq ToSet(queue) \cup {l}
    BY <1>1, <1>2 DEF ToSet
  <2>2. l \in ToSet(new)
    BY <1>1 DEF ToSet
  <2>3. ToSet(queue) \subseteq ToSet(new)
    BY <1>1 DEF ToSet
  <2> QED
    BY <2>1, <2>2, <2>3
<1>5. ASSUME NEW k, NEW m, Ahead(queue, k, m)
      PROVE  Ahead(new, k, m)
  <2>1. PICK i, j \in 1..Len(queue) : i < j /\ queue[i] = k /\ queue[j] = m
    BY <1>1, <1>5 DEF Ahead
  <2>2. /\ i + 1 \in DOMAIN new /\ j + 1 \in DOMAIN new /\ i + 1 < j + 1
        /\ new[i + 1] = k /\ new[j + 1] = m
    BY <1>1, <2>1
  <2> QED
    BY <2>2 DEF Ahead
<1>6. ASSUME NEW m \in ToSet(queue)
      PROVE  Ahead(new, l, m)
  <2>1. PICK i \in 1..Len(queue) : queue[i] = m
    BY <1>1 DEF ToSet
  <2>2. /\ 1 \in DOMAIN new /\ i + 1 \in DOMAIN new /\ 1 < i + 1
        /\ new[1] = l /\ new[i + 1] = m
    BY <1>1, <2>1
  <2> QED
    BY <2>2 DEF Ahead
<1> QED
  BY <1>1, <1>3, <1>4, <1>5, <1>6 DEF new

LEMMA NoneWaiting == <<>> \in Seq(Line) /\ Unlike(<<>>) /\ ToSet(<<>>) = {}
  BY DEF Unlike, ToSet

\* A set of positions that is not empty has a first.
LEMMA Lowest ==
  ASSUME NEW S \in SUBSET Nat, S # {}
  PROVE  \E i \in S : \A j \in S : i <= j
<1> DEFINE Less == {p \in Nat \X Nat : p[1] < p[2]}
<1>1. IsWellFoundedOn(Less, Nat)
  BY NatLessThanWellFounded DEF OpToRel
<1> HIDE DEF Less
<1>2. PICK i \in S : \A j \in S : <<j, i>> \notin Less
  BY <1>1, WFMin
<1>3. \A j \in S : ~(j < i)
  BY <1>2 DEF Less
<1> QED
  BY <1>3

\* Nothing waits and nothing is given while no run goes.
LEMMA Idling == Placed /\ current = 0 => ToSet(queue) = {} /\ given = {}
<1> SUFFICES ASSUME Placed, current = 0 PROVE ToSet(queue) = {} /\ given = {}
  OBVIOUS
<1>0. LineTypes /\ Waiting /\ Giving
  BY DEF Placed
<1>1. \A l \in Line : said[l] # None => said[l].run # 0
  BY <1>0, HostingAssumption DEF LineTypes, Run, Saying
<1>2. ToSet(queue) \subseteq Line
  BY <1>0 DEF LineTypes, ToSet
<1>3. ToSet(queue) = {}
  BY <1>0, <1>1, <1>2 DEF Waiting
<1>4. given = {}
  <2>1. \A g \in given : g.line \in Line
    BY ONLY <1>0 DEF LineTypes
  <2>2. \A g \in given : said[g.line] # None /\ said[g.line].run = current
    BY ONLY <1>0 DEF Giving
  <2> QED
    BY <1>1, <2>1, <2>2
<1> QED
  BY <1>3, <1>4

LEMMA Lines == LineTypes => ToSet(queue) \subseteq Line
  BY DEF LineTypes, ToSet

\* What is given is a line, to a conversation of the run going.
LEMMA Gives ==
  ASSUME Placed
  PROVE  \A g \in given : g.line \in Line /\ g.session \in Session /\ current \in Run
<1> SUFFICES ASSUME NEW g \in given
             PROVE  g.line \in Line /\ g.session \in Session /\ current \in Run
  OBVIOUS
<1>1. g.line \in Line /\ g.session \in Session
  BY DEF Placed, LineTypes
<1>2. said[g.line] \in Saying \cup {None}
  BY <1>1 DEF Placed, LineTypes
<1>3. said[g.line] # None /\ said[g.line].run = current
  BY DEF Placed, Giving
<1>4. current \in Run
  BY ONLY <1>2, <1>3 DEF Saying
<1> QED
  BY <1>1, <1>4

\* Every line waiting or given is let go of, and told of.
LEMMA KeptDrops ==
  ASSUME Placed, Drops, current' = 0, UNCHANGED <<runs, starting>>
  PROVE  Placed'
<1> USE DEF Placed, Drops
<1>1. LineTypes'
  BY HostingAssumption DEF LineTypes, Fate
<1>2. ToSet(queue') = {} /\ Unlike(queue')
  BY NoneWaiting
<1>3. Waiting' /\ Giving'
  BY <1>2 DEF Waiting, Giving
<1>4. OnItsWay'
  BY DEF OnItsWay, Holders
<1>5. Told'
  <2> SUFFICES ASSUME NEW l \in Line
               PROVE  /\ said[l] = None => fate'[l] = {} /\ heard[l] = <<>>
                      /\ said[l] # None => \E x : fate'[l] = {x}
                      /\ heard[l] = <<>> \/ heard[l] = <<said[l].run>>
    BY DEF Told
  <2>1. CASE l \in GivenLines \cup ToSet(queue)
    <3>1. fate[l] = {} /\ said[l] # None
      <4>1. Waiting /\ Giving
        BY ONLY Placed DEF Placed
      <4> HIDE DEF Placed, Drops
      <4>2. l \in ToSet(queue) => fate[l] = {} /\ said[l] # None
        BY ONLY <4>1 DEF Waiting
      <4>3. \A g \in given : fate[g.line] = {} /\ said[g.line] # None
        BY ONLY <4>1 DEF Giving
      <4>4. l \in GivenLines => fate[l] = {} /\ said[l] # None
        BY ONLY <4>3 DEF GivenLines
      <4> QED
        BY ONLY <2>1, <4>2, <4>4
    <3>2. fate'[l] = {"dropped"}
      BY <2>1, <3>1
    <3> QED
      BY <3>1, <3>2 DEF Told
  <2>2. CASE l \notin GivenLines \cup ToSet(queue)
    BY <2>2 DEF Told
  <2> QED
    BY <2>1, <2>2
<1> QED
  BY <1>1, <1>3, <1>4, <1>5

\* A line waiting is heard by the run going, and told of.
LEMMA KeptHeard ==
  ASSUME Placed, NEW l \in ToSet(queue), NEW how \in Fate,
         queue' = Without(l),
         fate' = [fate EXCEPT ![l] = @ \cup {how}],
         heard' = [heard EXCEPT ![l] = Append(@, current)],
         UNCHANGED <<given, puts, inbox, said, current, runs, starting>>
  PROVE  Placed'
<1>1. /\ queue' \in Seq(Line) /\ Unlike(queue') /\ ToSet(queue') = ToSet(queue) \ {l}
  BY Taking DEF Placed, LineTypes, Waiting
<1>2. l \in Line
  BY Lines DEF Placed
<1>3. /\ said[l] # None /\ said[l].run = current /\ fate[l] = {} /\ heard[l] = <<>>
      /\ l \notin GivenLines /\ Put(l) = {} /\ Holders(l) = {}
  BY DEF Placed, Waiting
<1>4. fate'[l] = {how} /\ \A m \in Line : m # l => fate'[m] = fate[m]
  BY <1>2, <1>3 DEF Placed, LineTypes
<1>5. heard'[l] = <<said[l].run>> /\ \A m \in Line : m # l => heard'[m] = heard[m]
  BY <1>2, <1>3 DEF Placed, LineTypes
<1>6. LineTypes'
  <2>1. current \in Run
    BY <1>2, <1>3 DEF Placed, LineTypes, Saying
  <2>2. heard' \in [Line -> Seq(Run)]
    BY <2>1, <1>3, <1>2 DEF Placed, LineTypes
  <2> QED
    BY <1>1, <2>2 DEF Placed, LineTypes
<1>7. Waiting'
  BY <1>1, <1>4, <1>5, Lines DEF Placed, Waiting, GivenLines, Put, Holders
<1>8. Giving'
  BY <1>3, <1>4, <1>5 DEF Placed, Giving, GivenLines, LineTypes
<1>9. OnItsWay'
  BY <1>3, <1>5 DEF Placed, OnItsWay, Put, Holders, LineTypes
<1>10. Told'
  BY <1>1, <1>3, <1>4, <1>5 DEF Placed, Told, GivenLines
<1> QED
  BY <1>6, <1>7, <1>8, <1>9, <1>10 DEF Placed

\* A line waiting is given, and is being put into its conversation.
LEMMA KeptGives ==
  ASSUME Placed, NEW l \in ToSet(queue), NEW s \in Session, current # 0,
         queue' = Without(l),
         given' = given \cup {[line |-> l, session |-> s]},
         puts' = puts \cup {[line |-> l, run |-> current, session |-> s]},
         UNCHANGED <<inbox, said, fate, heard, current, runs, starting>>
  PROVE  Placed'
<1>1. /\ queue' \in Seq(Line) /\ Unlike(queue') /\ ToSet(queue') = ToSet(queue) \ {l}
  BY Taking DEF Placed, LineTypes, Waiting
<1>2. l \in Line /\ ToSet(queue) \subseteq Line
  BY Lines DEF Placed
<1>3. /\ said[l] # None /\ said[l].run = current /\ fate[l] = {} /\ heard[l] = <<>>
      /\ l \notin GivenLines /\ Put(l) = {} /\ Holders(l) = {}
  BY DEF Placed, Waiting
<1>4. current \in Run
  BY <1>2, <1>3 DEF Placed, LineTypes, Saying
<1> DEFINE g == [line |-> l, session |-> s]
           p == [line |-> l, run |-> current, session |-> s]
<1>5. /\ g.line = l /\ g.session = s /\ g \in [line : Line, session : Session]
      /\ p.line = l /\ p.run = current /\ p.session = s
      /\ p \in [line : Line, run : Run, session : Session]
      /\ given' = given \cup {g} /\ puts' = puts \cup {p}
      /\ p = [line |-> g.line, run |-> current, session |-> g.session]
  BY <1>2, <1>4
<1> HIDE DEF g, p
<1>6. LineTypes'
  BY <1>1, <1>5 DEF Placed, LineTypes
<1>7. GivenLines' = GivenLines \cup {l} /\ \A m : m # l => Put(m)' = Put(m)
  BY <1>5 DEF GivenLines, Put
<1>8. Waiting'
  BY <1>1, <1>7 DEF Placed, Waiting, Holders
<1>9. Giving'
  BY <1>3, <1>5 DEF Placed, Giving, GivenLines
<1>10. OnItsWay'
  BY <1>3, <1>5 DEF Placed, OnItsWay, Put, Holders
<1>11. Told'
  BY <1>1, <1>7 DEF Placed, Told
<1> QED
  BY <1>6, <1>8, <1>9, <1>10, <1>11 DEF Placed

LEMMA KeptSay ==
  ASSUME Placed, NEW f \in Frontend, NEW l \in Line, NEW to \in To, Say(f, l, to)
  PROVE  Placed'
<1> DEFINE one == [by |-> f, to |-> to, run |-> current, after |-> {k \in Line : said[k] # None}]
<1>1. current \in Run
  BY HostingAssumption DEF Placed, LineTypes, Say, Run
<1>2. one \in Saying /\ one.run = current /\ one # None
  BY <1>1, HostingAssumption DEF Saying
<1>3. said[l] = None /\ said' = [said EXCEPT ![l] = one]
  BY DEF Say
<1> HIDE DEF one
<1>4. fate[l] = {} /\ heard[l] = <<>>
  BY <1>3 DEF Placed, Told
<1>5. /\ l \notin ToSet(queue) /\ l \notin GivenLines /\ Put(l) = {} /\ Holders(l) = {}
  <2>1. said[l] = None
    BY <1>3
  <2>2. Waiting /\ Giving /\ OnItsWay
    BY DEF Placed
  <2>3. l \notin ToSet(queue)
    BY ONLY <2>1, <2>2 DEF Waiting
  <2>4. l \notin GivenLines
    <3>1. \A g \in given : said[g.line] # None
      BY ONLY <2>2 DEF Giving
    <3> QED
      BY ONLY <2>1, <3>1 DEF GivenLines
  <2>5. Put(l) = {}
    <3>1. \A p \in puts : said[p.line] # None
      BY ONLY <2>2 DEF OnItsWay
    <3> QED
      BY ONLY <2>1, <3>1 DEF Put
  <2>6. Holders(l) = {}
    <3>1. \A x \in Run \X Session : \A m \in inbox[x] : said[m] # None
      BY ONLY <2>2 DEF OnItsWay
    <3> QED
      BY ONLY <2>1, <3>1 DEF Holders
  <2> QED
    BY ONLY <2>3, <2>4, <2>5, <2>6
<1>6. said'[l] = one /\ \A m \in Line : m # l => said'[m] = said[m]
  BY <1>3 DEF Placed, LineTypes
<1>7. /\ queue' \in Seq(Line) /\ Unlike(queue') /\ ToSet(queue') = ToSet(queue) \cup {l}
  <2>1. queue' = Append(queue, l)
    BY DEF Say
  <2> QED
    BY <1>5, <2>1, Joining DEF Placed, LineTypes, Waiting
<1>8. UNCHANGED <<given, puts, inbox, fate, heard, current, runs, starting>>
  BY DEF Say, host
<1>9. LineTypes'
  BY <1>2, <1>3, <1>7, <1>8 DEF Placed, LineTypes
<1>10. Waiting'
  BY <1>2, <1>4, <1>5, <1>6, <1>7, <1>8, Lines DEF Placed, Waiting, GivenLines, Put, Holders
<1>11. Giving'
  BY <1>5, <1>6, <1>8 DEF Placed, Giving, GivenLines, LineTypes
<1>12. OnItsWay'
  <2>1. \A p \in puts : said'[p.line] = said[p.line]
    BY <1>5, <1>6 DEF Placed, LineTypes, Put
  <2>2. \A x \in Run \X Session : \A m \in inbox[x] : said'[m] = said[m]
    BY <1>5, <1>6 DEF Placed, LineTypes, Holders
  <2> QED
    BY <1>8, <2>1, <2>2 DEF Placed, OnItsWay, Holders
<1>13. Told'
  BY <1>2, <1>4, <1>6, <1>7, <1>8 DEF Placed, Told, GivenLines
<1> QED
  BY <1>9, <1>10, <1>11, <1>12, <1>13 DEF Placed

LEMMA KeptPutsIn ==
  ASSUME Placed, NEW p \in puts, PutsIn(p)
  PROVE  Placed'
<1>1. p \in [line : Line, run : Run, session : Session]
  BY DEF Placed, LineTypes
<1> DEFINE at == <<p.run, p.session>>
<1>2. at \in Run \X Session /\ at[1] = p.run
  BY <1>1
<1>3. /\ puts' = puts \ {p}
      /\ inbox' = [inbox EXCEPT ![at] = @ \cup {p.line}]
      /\ UNCHANGED <<queue, given, said, fate, heard, current, runs, starting>>
  BY DEF PutsIn, host
<1> HIDE DEF at
<1>4. /\ inbox'[at] = inbox[at] \cup {p.line}
      /\ \A x \in Run \X Session : x # at => inbox'[x] = inbox[x]
  BY <1>2, <1>3 DEF Placed, LineTypes
<1>5. LineTypes'
  BY <1>1, <1>2, <1>3 DEF Placed, LineTypes
<1>6. /\ said[p.line] # None /\ said[p.line].run = p.run /\ heard[p.line] = <<>>
      /\ \A x \in Run \X Session : p.line \notin inbox[x]
      /\ p.line \notin ToSet(queue)
      /\ \A q \in puts : q.line = p.line => q = p
  BY DEF Placed, OnItsWay, Holders, Waiting, Put
<1>7. Waiting'
  BY <1>3, <1>4, <1>6 DEF Placed, Waiting, GivenLines, Put, Holders
<1>8. Giving'
  <2> SUFFICES ASSUME NEW g \in given
               PROVE  \/ [line |-> g.line, run |-> current, session |-> g.session] \in puts'
                      \/ g.line \in inbox'[<<current, g.session>>]
    BY <1>3 DEF Placed, Giving
  <2>1. current \in Run /\ g.session \in Session
    BY Gives
  <2>2. CASE p = [line |-> g.line, run |-> current, session |-> g.session]
    BY <1>4, <2>2 DEF at
  <2>3. CASE p # [line |-> g.line, run |-> current, session |-> g.session]
    BY <1>3, <1>4, <2>1, <2>3 DEF Placed, Giving
  <2> QED
    BY <2>2, <2>3
<1>9. OnItsWay'
  BY <1>2, <1>3, <1>4, <1>6 DEF Placed, OnItsWay, Holders
<1>10. Told'
  BY <1>3 DEF Placed, Told, GivenLines
<1> QED
  BY <1>5, <1>7, <1>8, <1>9, <1>10 DEF Placed

LEMMA KeptUnreached ==
  ASSUME Placed, NEW p \in puts, Unreached(p)
  PROVE  Placed'
<1> DEFINE g == [line |-> p.line, session |-> p.session]
<1>1. /\ p \in [line : Line, run : Run, session : Session] /\ g.line = p.line
      /\ g \in [line : Line, session : Session] /\ p.line \in Line
  BY DEF Placed, LineTypes
<1>2. /\ said[p.line] # None /\ said[p.line].run = p.run /\ heard[p.line] = <<>>
      /\ \A x \in Run \X Session : p.line \notin inbox[x]
      /\ p.line \notin ToSet(queue)
      /\ \A q \in puts : q.line = p.line => q = p
  BY DEF Placed, OnItsWay, Holders, Waiting, Put
<1>3. puts' = puts \ {p} /\ UNCHANGED <<inbox, said, fate, heard, current, runs, starting>>
  BY DEF Unreached, host
<1>4. CASE g \notin given
  <2>1. UNCHANGED <<queue, given>>
    <3>1. Back(p) = {}
      BY <1>4 DEF Back
    <3> QED
      BY <3>1 DEF Unreached
  <2>2. LineTypes'
    BY <1>3, <2>1 DEF Placed, LineTypes
  <2>3. Waiting'
    BY <1>3, <2>1 DEF Placed, Waiting, GivenLines, Put, Holders
  <2>4. Giving'
    <3> SUFFICES ASSUME NEW h \in given
                 PROVE  \/ [line |-> h.line, run |-> current, session |-> h.session] \in puts'
                        \/ h.line \in inbox[<<current, h.session>>]
      BY <1>3, <2>1 DEF Placed, Giving
    <3>1. h = [line |-> h.line, session |-> h.session]
      BY DEF Placed, LineTypes
    <3>2. p # [line |-> h.line, run |-> current, session |-> h.session]
      BY <1>4, <3>1
    <3> QED
      BY <1>3, <3>2 DEF Placed, Giving
  <2>5. OnItsWay'
    BY <1>3 DEF Placed, OnItsWay, Holders
  <2>6. Told'
    BY <1>3, <2>1 DEF Placed, Told, GivenLines
  <2> QED
    BY <2>2, <2>3, <2>4, <2>5, <2>6 DEF Placed
<1>5. CASE g \in given
  <2>1. given' = given \ {g} /\ queue' = <<p.line>> \o queue
    <3>1. Back(p) = {g}
      BY <1>5 DEF Back
    <3> QED
      BY <3>1 DEF Unreached, Requeued
  <2> HIDE DEF g
  <2>2. /\ queue' \in Seq(Line) /\ Unlike(queue') /\ ToSet(queue') = ToSet(queue) \cup {p.line}
    BY <1>1, <1>2, <2>1, Rejoining DEF Placed, LineTypes, Waiting
  <2>3. /\ said[p.line].run = current /\ fate[p.line] = {}
        /\ \A h \in given : h.line = p.line => h = g
    BY <1>1, <1>5 DEF Placed, Giving
  <2>4. p.line \notin GivenLines' /\ GivenLines' = GivenLines \ {p.line}
    BY <1>1, <1>5, <2>1, <2>3 DEF GivenLines
  <2>5. LineTypes'
    BY <1>3, <2>1, <2>2 DEF Placed, LineTypes
  <2>6. Waiting'
    <3>1. Put(p.line)' = {} /\ Holders(p.line)' = {}
      BY <1>2, <1>3 DEF Put, Holders
    <3>2. \A m : Put(m)' \subseteq Put(m) /\ Holders(m)' = Holders(m)
      BY <1>3 DEF Put, Holders
    <3> QED
      BY <1>2, <1>3, <2>2, <2>3, <2>4, <3>1, <3>2 DEF Placed, Waiting
  <2>7. Giving'
    <3> SUFFICES ASSUME NEW h \in given'
                 PROVE  \/ [line |-> h.line, run |-> current, session |-> h.session] \in puts'
                        \/ h.line \in inbox[<<current, h.session>>]
      BY <1>3, <2>1 DEF Placed, Giving
    <3>1. h.line # p.line
      BY <2>1, <2>3
    <3>2. p # [line |-> h.line, run |-> current, session |-> h.session]
      BY <3>1
    <3> QED
      BY <1>3, <2>1, <3>2 DEF Placed, Giving
  <2>8. OnItsWay'
    BY <1>3 DEF Placed, OnItsWay, Holders
  <2>9. Told'
    BY <1>2, <1>3, <2>2, <2>4 DEF Placed, Told
  <2> QED
    BY <2>5, <2>6, <2>7, <2>8, <2>9 DEF Placed
<1> QED
  BY <1>4, <1>5

LEMMA KeptAlike ==
  ASSUME Placed,
         UNCHANGED <<queue, given, puts, inbox, said, fate, heard, current, runs>>,
         starting' => current = 0 /\ runs < MaxRun
  PROVE  Placed'
<1>1. LineTypes'
  BY DEF Placed, LineTypes
<1>2. Waiting'
  BY DEF Placed, Waiting, GivenLines, Put, Holders
<1>3. Giving'
  BY DEF Placed, Giving
<1>4. OnItsWay'
  BY DEF Placed, OnItsWay, Holders
<1>5. Told'
  BY DEF Placed, Told, GivenLines
<1> QED
  BY <1>1, <1>2, <1>3, <1>4, <1>5 DEF Placed

LEMMA Starting == Placed /\ starting => current = 0 /\ runs < MaxRun
  BY DEF Placed, LineTypes

\* An agent says it has a line it was told.
LEMMA KeptTold ==
  ASSUME Placed, NEW n \in Run, NEW s \in Session, NEW l \in Line, Took(n, s, l),
         l \in inbox[<<n, s>>],
         inbox' = [inbox EXCEPT ![<<n, s>>] = @ \ {l}],
         heard' = [heard EXCEPT ![l] = Append(@, n)]
  PROVE  Placed'
<1> DEFINE at == <<n, s>>
           one == {g \in given : current = n /\ g.line = l /\ AgentOf[g.session] = AgentOf[s]}
<1>1. at \in Run \X Session /\ at[1] = n /\ l \in inbox[at]
  OBVIOUS
<1>2. /\ inbox' = [inbox EXCEPT ![at] = @ \ {l}]
      /\ heard' = [heard EXCEPT ![l] = Append(@, n)]
      /\ given' = given \ one
      /\ fate' = IF one = {} THEN fate ELSE [fate EXCEPT ![l] = @ \cup {"said"}]
      /\ UNCHANGED <<queue, puts, said, current, runs, starting>>
  BY DEF Took, host
<1>3. /\ said[l] # None /\ said[l].run = n /\ heard[l] = <<>>
      /\ \A x \in Run \X Session : l \in inbox[x] => x = at
      /\ \A p \in puts : p.line # l
      /\ l \notin ToSet(queue)
  BY <1>1 DEF Placed, OnItsWay, Holders, Waiting
<1>4. one = {g \in given : g.line = l}
  <2> SUFFICES ASSUME NEW g \in given, g.line = l
               PROVE  current = n /\ AgentOf[g.session] = AgentOf[s]
    OBVIOUS
  <2>1. current = n /\ g.session \in Session
    BY <1>3 DEF Placed, Giving, LineTypes
  <2>2. l \in inbox[<<current, g.session>>]
    BY <1>3 DEF Placed, Giving
  <2>3. <<n, g.session>> = at
    BY <1>3, <2>1, <2>2
  <2> QED
    BY <2>1, <2>3
<1> HIDE DEF at, one
<1>5. /\ inbox'[at] = inbox[at] \ {l}
      /\ \A x \in Run \X Session : x # at => inbox'[x] = inbox[x]
  BY <1>1, <1>2 DEF Placed, LineTypes
<1>6. heard'[l] = <<said[l].run>> /\ \A m \in Line : m # l => heard'[m] = heard[m]
  BY <1>2, <1>3 DEF Placed, LineTypes
<1>7. \A m \in Line : m # l => fate'[m] = fate[m]
  BY <1>2 DEF Placed, LineTypes
<1>8. l \in GivenLines => fate'[l] = {"said"}
  <2> SUFFICES ASSUME l \in GivenLines PROVE fate'[l] = {"said"}
    OBVIOUS
  <2>1. one # {} /\ fate[l] = {}
    BY <1>4 DEF Placed, Giving, GivenLines
  <2> QED
    BY <1>2, <2>1 DEF Placed, LineTypes
<1>9. l \notin GivenLines => fate' = fate
  BY <1>2, <1>4 DEF GivenLines
<1>10. GivenLines' = GivenLines \ {l}
  BY <1>2, <1>4 DEF GivenLines
<1>11. LineTypes'
  <2>1. heard' \in [Line -> Seq(Run)]
    BY <1>2, <1>3 DEF Placed, LineTypes
  <2>2. fate' \in [Line -> SUBSET Fate]
    BY <1>2 DEF Placed, LineTypes, Fate
  <2>3. inbox' \in [Run \X Session -> SUBSET Line]
    BY <1>1, <1>2 DEF Placed, LineTypes
  <2> QED
    BY <1>2, <2>1, <2>2, <2>3 DEF Placed, LineTypes
<1>12. Waiting'
  <2>1. \A m : Put(m)' = Put(m) /\ Holders(m)' \subseteq Holders(m)
    BY <1>2, <1>5 DEF Put, Holders
  <2> QED
    BY <1>2, <1>3, <1>6, <1>7, <1>10, <2>1, Lines DEF Placed, Waiting
<1>13. Giving'
  <2> SUFFICES ASSUME NEW g \in given'
               PROVE  /\ fate'[g.line] = {} /\ heard'[g.line] = <<>>
                      /\ \/ [line |-> g.line, run |-> current, session |-> g.session] \in puts
                         \/ g.line \in inbox'[<<current, g.session>>]
    BY <1>2 DEF Placed, Giving
  <2>1. g \in given /\ g.line # l /\ g.line \in Line /\ g.session \in Session /\ current \in Run
    <3>1. g \in given /\ g.line # l
      BY ONLY <1>2, <1>4, g \in given'
    <3> QED
      BY ONLY <3>1, Gives, Placed
  <2>2. <<current, g.session>> \in Run \X Session
    BY <2>1
  <2>3. fate'[g.line] = {} /\ heard'[g.line] = <<>>
    BY <1>6, <1>7, <2>1 DEF Placed, Giving
  <2>4. inbox[<<current, g.session>>] \ {l} \subseteq inbox'[<<current, g.session>>]
    BY <1>5, <2>2
  <2> QED
    BY <2>1, <2>3, <2>4 DEF Placed, Giving
<1>14. OnItsWay'
  <2>1. \A x \in Run \X Session : inbox'[x] \subseteq inbox[x] \ {l}
    BY <1>3, <1>5 DEF Placed, OnItsWay
  <2>2. \A p \in puts : p.line \in Line
    BY DEF Placed, LineTypes
  <2>3. \A x \in Run \X Session : inbox[x] \subseteq Line
    BY DEF Placed, LineTypes
  <2>4. \A p \in puts : heard'[p.line] = <<>> /\ Holders(p.line)' = {}
    BY <1>3, <1>6, <2>1, <2>2 DEF Placed, OnItsWay, Holders
  <2>5. \A x \in Run \X Session : \A m \in inbox'[x] : heard'[m] = <<>>
    BY <1>6, <2>1, <2>3 DEF Placed, OnItsWay
  <2> QED
    BY <1>2, <2>1, <2>4, <2>5, SMTT(40) DEF Placed, OnItsWay
<1>15. Told'
  BY <1>2, <1>3, <1>6, <1>7, <1>8, <1>9, <1>10 DEF Placed, Told
<1> QED
  BY <1>11, <1>12, <1>13, <1>14, <1>15 DEF Placed

\* An agent says it has a line it refused: one that waits again, was given again, or was told
\* of.
LEMMA KeptStray ==
  ASSUME Placed, NEW n \in Run, NEW s \in Session, NEW l \in Line, Took(n, s, l),
         UNCHANGED <<inbox, heard>>
  PROVE  Placed'
<1> DEFINE one == {g \in given : current = n /\ g.line = l /\ AgentOf[g.session] = AgentOf[s]}
<1>1. /\ given' = given \ one
      /\ fate' = IF one = {} THEN fate ELSE [fate EXCEPT ![l] = @ \cup {"said"}]
      /\ UNCHANGED <<queue, puts, inbox, said, heard, current, runs, starting>>
  BY DEF Took, host
<1>2. \A g \in one : g \in given /\ g.line = l
  OBVIOUS
<1> HIDE DEF one
<1>3. CASE one = {}
  BY <1>1, <1>3, KeptAlike, Starting
<1>4. CASE one # {}
  <2>1. PICK g \in given : g.line = l /\ g \in one
    BY <1>2, <1>4
  <2>2. \A h \in given : h.line = l => h = g
    BY <2>1 DEF Placed, Giving
  <2>3. one = {g} /\ given' = given \ {g}
    BY <1>1, <1>2, <2>1, <2>2
  <2>4. /\ said[l] # None /\ fate[l] = {} /\ l \in GivenLines
    BY <2>1 DEF Placed, Giving, GivenLines
  <2>5. GivenLines' = GivenLines \ {l} /\ l \notin ToSet(queue)
    <3>1. GivenLines' = GivenLines \ {l}
      BY <2>1, <2>2, <2>3 DEF GivenLines
    <3> QED
      BY <2>4, <3>1 DEF Placed, Waiting
  <2>6. fate'[l] = {"said"} /\ \A m \in Line : m # l => fate'[m] = fate[m]
    BY <1>1, <1>4, <2>4 DEF Placed, LineTypes
  <2>7. LineTypes'
    <3>1. fate' \in [Line -> SUBSET Fate]
      BY <1>1 DEF Placed, LineTypes, Fate
    <3> QED
      BY <1>1, <3>1 DEF Placed, LineTypes
  <2>8. Waiting'
    BY <1>1, <2>5, <2>6, Lines DEF Placed, Waiting, Put, Holders
  <2>9. Giving'
    <3> SUFFICES ASSUME NEW h \in given'
                 PROVE  fate'[h.line] = {}
      BY <1>1 DEF Placed, Giving
    <3>1. h \in given /\ h.line # l
      BY <2>2, <2>3
    <3>2. h.line \in Line
      BY <3>1, Gives
    <3> QED
      BY <2>6, <3>1, <3>2 DEF Placed, Giving
  <2>10. OnItsWay'
    BY <1>1 DEF Placed, OnItsWay, Holders
  <2>11. Told'
    BY <1>1, <2>4, <2>5, <2>6 DEF Placed, Told
  <2> QED
    BY <2>7, <2>8, <2>9, <2>10, <2>11 DEF Placed
<1> QED
  BY <1>3, <1>4

LEMMA KeptTook ==
  ASSUME Placed, NEW n \in Run, NEW s \in Session, NEW l \in Line, Took(n, s, l)
  PROVE  Placed'
<1>1. CASE UNCHANGED <<inbox, heard>>
  BY <1>1, KeptStray
<1>2. CASE /\ l \in inbox[<<n, s>>]
           /\ inbox' = [inbox EXCEPT ![<<n, s>>] = @ \ {l}]
           /\ heard' = [heard EXCEPT ![l] = Append(@, n)]
  BY <1>2, KeptTold
<1> QED
  BY <1>1, <1>2 DEF Took

LEMMA KeptTurnEnds ==
  ASSUME Placed, NEW n \in Run, NEW s \in Session, TurnEnds(n, s)
  PROVE  Placed'
<1> DEFINE at == <<n, s>>
           held == IF current = n THEN Unheld(AgentOf[s]) ELSE {}
           lost == {g.line : g \in held}
<1>1. at \in Run \X Session
  OBVIOUS
<1>2. /\ given' = given \ held
      /\ fate' = [l \in Line |-> IF l \in lost THEN fate[l] \cup {"unheld"} ELSE fate[l]]
      /\ inbox' \in {inbox, [inbox EXCEPT ![at] = {}]}
      /\ UNCHANGED <<queue, puts, said, heard, current, runs, starting>>
  BY DEF TurnEnds, host, Placed, LineTypes
<1>3. held \subseteq given /\ \A g \in given : current = n /\ g.session = s => g \in held
  BY DEF Unheld
<1> HIDE DEF held, at
<1>4. \A x \in Run \X Session : inbox'[x] \subseteq inbox[x] /\ (x # at => inbox'[x] = inbox[x])
  BY <1>1, <1>2 DEF Placed, LineTypes
<1>5. GivenLines' = GivenLines \ lost /\ lost \subseteq GivenLines
  BY <1>2, <1>3 DEF Placed, Giving, GivenLines
<1> HIDE DEF lost
<1>6. \A l \in Line : l \in lost => fate'[l] = {"unheld"}
  <2>1. \A l \in lost : fate[l] = {}
    BY <1>5 DEF Placed, Giving, GivenLines
  <2>2. \A l \in Line : l \in lost => fate'[l] = fate[l] \cup {"unheld"}
    BY <1>2
  <2> QED
    BY <2>1, <2>2
<1>7. \A l \in Line : l \notin lost => fate'[l] = fate[l]
  BY <1>2
<1>8. LineTypes'
  <2>1. fate' \in [Line -> SUBSET Fate]
    BY <1>2 DEF Placed, LineTypes, Fate
  <2>2. inbox' \in [Run \X Session -> SUBSET Line]
    BY <1>1, <1>2 DEF Placed, LineTypes
  <2> QED
    BY <1>2, <2>1, <2>2 DEF Placed, LineTypes
<1>9. Waiting'
  <2>1. \A m : Put(m)' = Put(m) /\ Holders(m)' \subseteq Holders(m)
    BY <1>2, <1>4 DEF Put, Holders
  <2>2. \A m \in ToSet(queue) : m \notin lost
    BY <1>5 DEF Placed, Waiting
  <2> QED
    BY <1>2, <1>5, <1>7, <2>1, <2>2, Lines DEF Placed, Waiting
<1>10. Giving'
  <2> SUFFICES ASSUME NEW g \in given'
               PROVE  /\ fate'[g.line] = {}
                      /\ \/ [line |-> g.line, run |-> current, session |-> g.session] \in puts
                         \/ g.line \in inbox'[<<current, g.session>>]
    BY <1>2 DEF Placed, Giving
  <2>1. g \in given /\ g \notin held /\ g.line \in Line /\ g.session \in Session /\ current \in Run
    <3>1. g \in given /\ g \notin held
      BY ONLY <1>2, g \in given'
    <3> QED
      BY ONLY <3>1, Gives, Placed
  <2>2. <<current, g.session>> \in Run \X Session /\ <<current, g.session>> # at
    BY <1>3, <2>1 DEF at
  <2>3. g.line \notin lost
    BY <1>5, <2>1 DEF GivenLines
  <2>4. inbox'[<<current, g.session>>] = inbox[<<current, g.session>>]
    BY <1>4, <2>2
  <2>5. fate[g.line] = {}
        /\ \/ [line |-> g.line, run |-> current, session |-> g.session] \in puts
           \/ g.line \in inbox[<<current, g.session>>]
    BY ONLY <2>1, Placed DEF Placed, Giving
  <2>6. fate'[g.line] = {}
    BY ONLY <1>7, <2>1, <2>3, <2>5
  <2> QED
    BY ONLY <2>4, <2>5, <2>6
<1>11. OnItsWay'
  BY <1>2, <1>4 DEF Placed, OnItsWay, Holders
<1>12. Told'
  <2>1. \A l \in lost : said[l] # None
    BY <1>5 DEF Placed, Giving, GivenLines
  <2> QED
    BY <1>2, <1>5, <1>6, <1>7, <2>1 DEF Placed, Told
<1> QED
  BY <1>8, <1>9, <1>10, <1>11, <1>12 DEF Placed

LEMMA KeptStartGoes == Placed /\ StartGoes => Placed'
<1> SUFFICES ASSUME Placed, StartGoes PROVE Placed'
  OBVIOUS
<1>1. /\ current = 0 /\ runs < MaxRun /\ runs' = runs + 1 /\ current' = runs + 1
      /\ starting' = FALSE /\ queue' = <<>> /\ given' = {}
      /\ UNCHANGED <<puts, inbox, said, fate, heard>>
  BY DEF Placed, LineTypes, StartGoes
<1>2. ToSet(queue) = {} /\ given = {}
  BY <1>1, Idling
<1>3. LineTypes'
  BY <1>1, HostingAssumption DEF Placed, LineTypes
<1>4. Waiting' /\ Giving'
  BY <1>1, NoneWaiting DEF Waiting, Giving
<1>5. OnItsWay'
  BY <1>1 DEF Placed, OnItsWay, Holders
<1>6. Told'
  BY <1>1, <1>2, NoneWaiting DEF Placed, Told, GivenLines
<1> QED
  BY <1>3, <1>4, <1>5, <1>6 DEF Placed

LEMMA KeptAsks == Placed /\ Asks => Placed'
<1> SUFFICES ASSUME Placed, Asks PROVE Placed'
  OBVIOUS
<1> USE DEF lines, host
<1>1. ASSUME NEW f \in Frontend, Attach(f) \/ Detach(f)
      PROVE  Placed'
  BY <1>1, KeptAlike, Starting DEF Attach, Detach
<1>2. ASSUME NEW f \in Frontend, Start(f)
      PROVE  Placed'
  BY <1>2, KeptAlike, Starting DEF Start
<1>3. ASSUME NEW f \in Frontend, NEW r \in Role, NEW on,
             Claim(f, r) \/ Unclaim(f, r) \/ AfkRole(f, r, on)
      PROVE  Placed'
  BY <1>3, KeptAlike, Starting DEF Claim, Unclaim, AfkRole
<1>4. ASSUME NEW f \in Frontend, NEW on, Afk(f, on)
      PROVE  Placed'
  BY <1>4, KeptAlike, Starting DEF Afk
<1>5. ASSUME NEW f \in Frontend, NEW q \in Question, Answer(f, q)
      PROVE  Placed'
  BY <1>5, KeptAlike, Starting DEF Answer
<1>6. ASSUME NEW f \in Frontend, Stop(f)
      PROVE  Placed'
  BY <1>6, KeptDrops DEF Stop, StopsCurrent
<1>7. ASSUME NEW f \in Frontend, ForceStop(f)
      PROVE  Placed'
  <2>1. UNCHANGED <<runs, starting>>
    BY <1>7 DEF ForceStop
  <2>2. CASE StopsCurrent
    BY <2>1, <2>2, KeptDrops DEF StopsCurrent
  <2>3. CASE UNCHANGED <<current, lines>>
    BY <2>1, <2>3, KeptAlike, Starting
  <2> QED
    BY <1>7, <2>2, <2>3 DEF ForceStop
<1>8. CASE Close
  <2>1. UNCHANGED <<runs, starting>> /\ current' = 0
    BY <1>8 DEF Close
  <2>2. CASE current = 0
    BY <1>8, <2>1, <2>2, KeptAlike, Starting DEF Close
  <2>3. CASE current # 0
    BY <1>8, <2>1, <2>3, KeptDrops DEF Close
  <2> QED
    BY <2>2, <2>3
<1> QED
  BY <1>1, <1>2, <1>3, <1>4, <1>5, <1>6, <1>7, <1>8, KeptSay DEF Asks

LEMMA KeptRuns == Placed /\ Runs => Placed'
<1> SUFFICES ASSUME Placed, Runs PROVE Placed'
  OBVIOUS
<1> USE DEF lines, host
<1>1. CASE StartFails
  BY <1>1, KeptAlike, Starting DEF StartFails
<1>2. ASSUME NEW n \in Run, Ends(n)
      PROVE  Placed'
  <2>1. UNCHANGED <<runs, starting>>
    BY <1>2 DEF Ends
  <2>2. CASE current = n
    BY <1>2, <2>1, <2>2, KeptDrops DEF Ends
  <2>3. CASE current # n
    BY <1>2, <2>1, <2>3, KeptAlike, Starting DEF Ends
  <2> QED
    BY <2>2, <2>3
<1>3. ASSUME NEW q \in Question, NEW n \in Run, NEW r \in Role, NEW options \in BOOLEAN,
             Ask(q, n, r, options)
      PROVE  Placed'
  BY <1>3, KeptAlike, Starting DEF Ask
<1>4. ASSUME NEW n \in Run, NEW s \in Session, Begins(n, s)
      PROVE  Placed'
  BY <1>4, KeptAlike, Starting DEF Begins
<1>5. ASSUME NEW n \in Run, NEW s \in Session, TurnStarts(n, s)
      PROVE  Placed'
  <2> DEFINE for == {i \in DOMAIN queue : said[queue[i]].to \in Wanted(n, s)}
             l == queue[CHOOSE i \in for : \A j \in for : i <= j]
  <2>1. UNCHANGED <<given, puts, inbox, said, current, runs, starting>>
    BY <1>5 DEF TurnStarts
  <2>2. CASE for = {}
    BY <1>5, <2>1, <2>2, KeptAlike, Starting DEF TurnStarts
  <2>3. CASE for # {}
    <3>1. /\ queue' = Without(l)
          /\ fate' = [fate EXCEPT ![l] = @ \cup {"said"}]
          /\ heard' = [heard EXCEPT ![l] = Append(@, n)]
      BY <1>5, <2>3 DEF TurnStarts
    <3>2. current = n
      BY <2>3 DEF Wanted
    <3>3. l \in ToSet(queue)
      <4>1. for \subseteq 1..Len(queue) /\ Len(queue) \in Nat
        BY DEF Placed, LineTypes
      <4>2. for \in SUBSET Nat
        BY <4>1
      <4> HIDE DEF for
      <4>3. \E i \in for : \A j \in for : i <= j
        BY <2>3, <4>2, Lowest
      <4>4. (CHOOSE i \in for : \A j \in for : i <= j) \in DOMAIN queue
        BY <4>3 DEF for
      <4> QED
        BY <4>4 DEF ToSet
    <3> HIDE DEF l
    <3> QED
      BY <2>1, <3>1, <3>2, <3>3, KeptHeard DEF Fate
  <2> QED
    BY <2>2, <2>3
<1>6. CASE Fold
  BY <1>6, KeptAlike, Starting DEF Fold
<1> QED
  BY <1>1, <1>2, <1>3, <1>4, <1>5, <1>6, KeptStartGoes, KeptTurnEnds, KeptTook DEF Runs

LEMMA KeptThreads == AskedInv /\ Placed /\ Threads => Placed'
<1> SUFFICES ASSUME AskedInv, Placed, Threads PROVE Placed'
  OBVIOUS
<1> USE DEF lines, host
<1>1. ASSUME NEW q \in Question, Wakes(q)
      PROVE  Placed'
  <2>1. CASE HearsAnswer(q) \/ HearsNobody(q)
    BY <1>1, <2>1, KeptAlike, Starting DEF Wakes, HearsAnswer, HearsNobody
  <2>2. CASE TakesLine(q)
    <3>1. current = question[q].run
      BY <2>2 DEF TakesLine, Live
    <3>2. PICK l \in LineFor(q) :
            /\ queue' = Without(l)
            /\ fate' = [fate EXCEPT ![l] = @ \cup {"answered"}]
            /\ heard' = [heard EXCEPT ![l] = Append(@, question[q].run)]
      BY <2>2 DEF TakesLine
    <3>3. l \in ToSet(queue)
      BY <3>2 DEF LineFor, ToSet
    <3>4. UNCHANGED <<given, puts, inbox, said, current, runs, starting>>
      BY <1>1, <2>2 DEF Wakes, TakesLine
    <3> QED
      BY <3>1, <3>2, <3>3, <3>4, KeptHeard DEF Fate
  <2> QED
    BY <1>1, <2>1, <2>2 DEF Wakes
<1>2. ASSUME NEW who \in handing, HandOver(who)
      PROVE  Placed'
  <2> DEFINE picked == IF current = 0 THEN {} ELSE Picks(current, who)
  <2>1. UNCHANGED <<inbox, said, fate, heard, current, runs, starting>>
    BY <1>2 DEF HandOver
  <2>2. CASE picked = {}
    BY <1>2, <2>1, <2>2, KeptAlike, Starting DEF HandOver
  <2>3. CASE picked # {}
    <3>1. PICK i \in Picks(current, who) : \E s \in Fits(current, said[queue[i]].to, who) :
            /\ queue' = Without(queue[i])
            /\ given' = given \cup {[line |-> queue[i], session |-> s]}
            /\ puts' = puts \cup {[line |-> queue[i], run |-> current, session |-> s]}
      BY <1>2, <2>3 DEF HandOver
    <3>2. PICK s \in Fits(current, said[queue[i]].to, who) :
            /\ queue' = Without(queue[i])
            /\ given' = given \cup {[line |-> queue[i], session |-> s]}
            /\ puts' = puts \cup {[line |-> queue[i], run |-> current, session |-> s]}
      BY <3>1
    <3>3. s \in Session /\ queue[i] \in ToSet(queue) /\ current # 0
      BY <2>3, <3>1, <3>2 DEF Fits, Targets, Open, Picks, ToSet
    <3> QED
      BY <2>1, <3>2, <3>3, KeptGives
  <2> QED
    BY <2>2, <2>3
<1> QED
  BY <1>1, <1>2, KeptPutsIn, KeptUnreached DEF Threads

LEMMA InitPlaced == Init => Placed
<1> SUFFICES ASSUME Init PROVE Placed
  OBVIOUS
<1>1. LineTypes
  <2>1. queue \in Seq(Line) /\ heard \in [Line -> Seq(Run)]
    BY DEF Init
  <2>2. current \in 0..MaxRun /\ runs \in 0..MaxRun
    BY HostingAssumption DEF Init
  <2> QED
    BY <2>1, <2>2 DEF Init, LineTypes
<1>2. ToSet(queue) = {} /\ Unlike(queue)
  BY NoneWaiting DEF Init
<1>3. Waiting /\ Giving /\ OnItsWay /\ Told
  BY <1>2 DEF Init, Waiting, Giving, OnItsWay, Told
<1> QED
  BY <1>1, <1>3 DEF Placed

LEMMA Placing == Spec => [](AskedInv /\ Placed)
<1>1. Init => AskedInv /\ Placed
  BY InitAsked, InitPlaced
<1>2. AskedInv /\ Placed /\ [Next]_vars => (AskedInv /\ Placed)'
  <2> SUFFICES ASSUME AskedInv, Placed, [Next]_vars PROVE (AskedInv /\ Placed)'
    OBVIOUS
  <2>1. UNCHANGED vars => Placed'
    BY KeptAlike, Starting DEF vars, lines, host
  <2> QED
    BY <2>1, NextAsked, KeptAsks, KeptRuns, KeptThreads DEF Next
<1> QED
  BY <1>1, <1>2, PTL DEF Spec

LEMMA Counts ==
  /\ Cardinality({}) = 0
  /\ \A x : Cardinality({x}) = 1
  BY FS_EmptySet, FS_Singleton

\* None of the lines said is lost and none is told of twice, whatever run stops, turn ends or
\* agent refuses it meanwhile (_say, _hand_over, _unreached, _drops).
THEOREM Accounting == Spec => []LinesAccounted
<1>1. Placed => LinesAccounted
  <2> SUFFICES ASSUME Placed, NEW l \in Line, said[l] # None
               PROVE  Cardinality({i \in DOMAIN queue : queue[i] = l})
                        + Cardinality({g \in given : g.line = l}) + Cardinality(fate[l]) = 1
    BY DEF LinesAccounted
  <2> DEFINE at == {i \in DOMAIN queue : queue[i] = l}
             with == {g \in given : g.line = l}
  <2> HIDE DEF at, with
  <2>0. /\ at = {i \in DOMAIN queue : queue[i] = l}
        /\ with = {g \in given : g.line = l}
    BY DEF at, with
  <2>1. CASE l \in ToSet(queue)
    <3>1. PICK i \in DOMAIN queue : queue[i] = l
      BY <2>1 DEF ToSet
    <3>2. at = {i}
      BY <2>0, <3>1 DEF Placed, Waiting, Unlike
    <3>3. with = {} /\ fate[l] = {}
      BY <2>0, <2>1 DEF Placed, Waiting, GivenLines
    <3>4. Cardinality(at) = 1 /\ Cardinality(with) = 0 /\ Cardinality(fate[l]) = 0
      BY <3>2, <3>3, Counts
    <3> QED
      BY <3>4 DEF at, with
  <2>2. CASE l \in GivenLines
    <3>1. PICK g \in given : g.line = l
      BY <2>2 DEF GivenLines
    <3>2. with = {g} /\ fate[l] = {}
      BY <2>0, <3>1 DEF Placed, Giving
    <3>3. at = {}
      BY <2>0, <2>2 DEF Placed, Waiting, ToSet
    <3>4. Cardinality(at) = 0 /\ Cardinality(with) = 1 /\ Cardinality(fate[l]) = 0
      BY <3>2, <3>3, Counts
    <3> QED
      BY <3>4 DEF at, with
  <2>3. CASE l \notin ToSet(queue) /\ l \notin GivenLines
    <3>1. at = {} /\ with = {}
      BY <2>0, <2>3 DEF ToSet, GivenLines
    <3>2. \E x : fate[l] = {x}
      BY <2>3 DEF Placed, Told
    <3>3. Cardinality(at) = 0 /\ Cardinality(with) = 0 /\ Cardinality(fate[l]) = 1
      BY <3>1, <3>2, Counts
    <3> QED
      BY <3>3 DEF at, with
  <2> QED
    BY <2>1, <2>2, <2>3
<1> QED
  BY <1>1, Placing, PTL

-----------------------------------------------------------------------------
(* What agents have of what they refused. *)

\* A line refused that landed was said in the run whose conversation has it.
Straying ==
  /\ stray \in [Run \X Session -> SUBSET Line]
  /\ \A x \in Run \X Session : \A l \in stray[x] : said[l] # None /\ said[l].run = x[1]

LEMMA InitStraying == Init => Straying
  BY DEF Init, Straying

LEMMA NextStraying == Placed /\ Straying /\ [Next]_vars => Straying'
<1> SUFFICES ASSUME Placed, Straying, [Next]_vars PROVE Straying'
  OBVIOUS
<1>1. CASE UNCHANGED <<stray, said>>
  BY <1>1 DEF Straying
<1>2. ASSUME NEW f \in Frontend, NEW l \in Line, NEW to \in To, Say(f, l, to)
      PROVE  Straying'
  <2>1. said[l] = None /\ UNCHANGED stray
    BY <1>2 DEF Say
  <2>2. \A m \in Line : m # l => said'[m] = said[m]
    BY <1>2 DEF Say, Placed, LineTypes
  <2> QED
    BY <2>1, <2>2 DEF Straying
<1>3. ASSUME NEW p \in puts, Unreached(p)
      PROVE  Straying'
  <2>1. /\ p \in [line : Line, run : Run, session : Session]
        /\ said[p.line] # None /\ said[p.line].run = p.run
    BY DEF Placed, LineTypes, OnItsWay
  <2> DEFINE at == <<p.run, p.session>>
  <2>2. at \in Run \X Session /\ at[1] = p.run /\ UNCHANGED said
    BY <1>3, <2>1 DEF Unreached
  <2>3. CASE stray' = [stray EXCEPT ![at] = @ \cup {p.line}]
    <3> HIDE DEF at
    <3>1. /\ stray' \in [Run \X Session -> SUBSET Line] /\ stray'[at] = stray[at] \cup {p.line}
          /\ \A x \in Run \X Session : x # at => stray'[x] = stray[x]
      BY <2>1, <2>2, <2>3 DEF Straying
    <3> QED
      BY <2>1, <2>2, <3>1 DEF Straying
  <2> QED
    BY <1>1, <1>3, <2>2, <2>3 DEF Unreached
<1> USE DEF lines
<1>4. CASE Asks
  BY <1>1, <1>2, <1>4 DEF Asks, Attach, Detach, Start, Stop, ForceStop, StopsCurrent, Drops, Claim,
     Unclaim, AfkRole, Afk, Answer, Close
<1>5. CASE Runs
  <2>1. ASSUME NEW n \in Run, Ends(n)
        PROVE  UNCHANGED <<stray, said>>
    BY <2>1 DEF Ends, Drops
  <2>2. ASSUME NEW n \in Run, NEW s \in Session,
               TurnStarts(n, s) \/ Begins(n, s) \/ TurnEnds(n, s) \/ \E l \in Line : Took(n, s, l)
        PROVE  UNCHANGED <<stray, said>>
    BY <2>2, Zenon DEF TurnStarts, Begins, TurnEnds, Took
  <2>3. ASSUME StartFails \/ StartGoes \/ Fold
        PROVE  UNCHANGED <<stray, said>>
    BY <2>3 DEF StartFails, StartGoes, Fold
  <2>4. ASSUME NEW q \in Question, NEW n \in Run, NEW r \in Role, NEW options \in BOOLEAN,
               Ask(q, n, r, options)
        PROVE  UNCHANGED <<stray, said>>
    BY <2>4, Zenon DEF Ask
  <2> QED
    BY <1>1, <1>5, <2>1, <2>2, <2>3, <2>4 DEF Runs
<1>6. CASE Threads
  <2>1. ASSUME NEW q \in Question, Wakes(q)
        PROVE  UNCHANGED <<stray, said>>
    BY <2>1 DEF Wakes, HearsAnswer, HearsNobody, TakesLine
  <2>2. ASSUME NEW who \in handing, HandOver(who)
        PROVE  UNCHANGED <<stray, said>>
    BY <2>2 DEF HandOver
  <2>3. ASSUME NEW p \in puts, PutsIn(p)
        PROVE  UNCHANGED <<stray, said>>
    BY <2>3 DEF PutsIn
  <2> QED
    BY <1>1, <1>3, <1>6, <2>1, <2>2, <2>3 DEF Threads
<1>7. CASE UNCHANGED vars
  BY <1>1, <1>7 DEF vars
<1> QED
  BY <1>4, <1>5, <1>6, <1>7 DEF Next

\* A line is heard a second time only where a write of it had landed and was refused all the
\* same: once at most beside that.
HeardButStrays ==
  \A l \in Line :
    /\ Len(heard[l]) <= 1
    /\ Hearings(l) > 1 => \E x \in Run \X Session : l \in stray[x]

\* Whichever way a line goes -- into a prompt, to a question, put into a conversation, refused
\* and given again -- nobody hears it twice, but where what an agent refused had landed (_took,
\* _unreached, kimi's interject).
THEOREM Hearing == Spec => []HeardButStrays
<1>1. Placed => HeardButStrays
  <2> SUFFICES ASSUME Placed, NEW l \in Line
               PROVE  /\ Len(heard[l]) <= 1
                      /\ Hearings(l) > 1 => \E x \in Run \X Session : l \in stray[x]
    BY DEF HeardButStrays
  <2>1. heard[l] = <<>> \/ \E n : heard[l] = <<n>>
    BY DEF Placed, Told
  <2>2. Len(heard[l]) \in {0, 1}
    <3>1. Len(<<>>) = 0 /\ \A n : Len(<<n>>) = 1
      OBVIOUS
    <3> QED
      BY <2>1, <3>1
  <2>3. ASSUME \A x \in Run \X Session : l \notin stray[x]
        PROVE  Hearings(l) = Len(heard[l])
    <3> DEFINE these == {x \in Run \X Session : l \in stray[x]}
    <3>1. these = {}
      BY <2>3
    <3>2. Hearings(l) = Len(heard[l]) + Cardinality(these)
      BY DEF Hearings
    <3> HIDE DEF these
    <3>3. Cardinality(these) = 0
      BY <3>1, Counts
    <3> QED
      BY <2>2, <3>2, <3>3
  <2>0. \A n \in {0, 1} : n <= 1 /\ ~(n > 1)
    OBVIOUS
  <2>4. CASE \A x \in Run \X Session : l \notin stray[x]
    <3>1. Hearings(l) = Len(heard[l])
      BY <2>3, <2>4
    <3>2. ~(Hearings(l) > 1)
      BY <2>0, <2>2, <3>1, Zenon
    <3> QED
      BY <2>0, <2>2, <3>2, Zenon
  <2>5. CASE \E x \in Run \X Session : l \in stray[x]
    BY <2>0, <2>2, <2>5, Zenon
  <2> QED
    BY <2>4, <2>5
<1> QED
  BY <1>1, Placing, PTL

\* A line is heard by the run it was said to, whatever run is still unwinding when another
\* replaces it, and what an agent refused is not had by another run's (_at_turn_start, _asks,
\* _took, _unreached).
THEOREM Addressing == Spec => []HeardByItsRun
<1>1. Placed /\ Straying => HeardByItsRun
  BY DEF Placed, Told, Straying, HeardByItsRun
<1>2. Init => Straying
  BY InitStraying
<1> QED
  BY <1>1, <1>2, NextStraying, Placing, PTL DEF Spec

-----------------------------------------------------------------------------
(* The order in which lines to one conversation are taken. *)

TurnsTyped == turn \in [Run \X Session -> {"off", "begins", "open"}]

\* A line to the conversation another of the same frontend's was said to before it.
Earlier(k, l) == said[l] # None /\ k \in said[l].after /\ Alike(k, l)

\* A line given is given to a conversation with a turn open, the one it was said to if to one.
There(g) ==
  /\ turn[<<current, g.session>>] = "open"
  /\ said[g.line].to \in Session => said[g.line].to = g.session

SaidBefore == \A l \in Line : said[l] # None => \A k \in said[l].after : said[k] # None

\* While a line is given, those after it wait; while it waits, they wait behind it.
Ordered ==
  /\ TurnsTyped /\ SaidBefore
  /\ \A g \in given : There(g)
  /\ \A l \in Line : \A k \in GivenLines : Earlier(k, l) => l \in ToSet(queue)
  /\ \A l \in Line : \A k \in ToSet(queue) : Earlier(k, l) => Ahead(queue, k, l)

\* Nothing is taken, and what is given is so in a turn that is open yet.
LEMMA OrderSame ==
  ASSUME Ordered, TurnsTyped', UNCHANGED <<queue, said>>, given' \subseteq given,
         \A g \in given' : turn'[<<current', g.session>>] = "open"
  PROVE  Ordered'
<1>1. GivenLines' \subseteq GivenLines
  BY DEF GivenLines
<1>2. \A k, l : Earlier(k, l)' <=> Earlier(k, l)
  BY DEF Earlier, Alike
<1>3. SaidBefore' /\ \A g \in given' : There(g)'
  BY DEF Ordered, SaidBefore, There
<1> QED
  BY <1>1, <1>2, <1>3 DEF Ordered

\* Nothing waits any more and nothing is given.
LEMMA OrderGone ==
  ASSUME Ordered, TurnsTyped', UNCHANGED said, queue' = <<>>, given' = {}
  PROVE  Ordered'
<1>1. ToSet(queue') = {} /\ GivenLines' = {}
  BY NoneWaiting DEF GivenLines
<1>2. SaidBefore'
  BY DEF Ordered, SaidBefore
<1> QED
  BY <1>1, <1>2 DEF Ordered

\* A line with none before it leaves the queue, into a turn or given to a conversation.
LEMMA OrderTaken ==
  ASSUME Placed, Ordered, TurnsTyped', NEW l \in ToSet(queue),
         \A k \in ToSet(queue) \cup GivenLines : ~Earlier(k, l),
         queue' = Without(l), UNCHANGED said,
         \A g \in given' : (g \in given \/ g.line = l) /\ There(g)'
  PROVE  Ordered'
<1>1. /\ ToSet(queue') = ToSet(queue) \ {l}
      /\ \A k, m : Ahead(queue, k, m) /\ k # l /\ m # l => Ahead(queue', k, m)
  BY Taking DEF Placed, LineTypes, Waiting
<1>2. \A k, m : Earlier(k, m)' <=> Earlier(k, m)
  BY DEF Earlier, Alike
<1>3. SaidBefore'
  BY DEF Ordered, SaidBefore
<1>4. GivenLines' \subseteq GivenLines \cup {l}
  BY DEF GivenLines
<1>5. ASSUME NEW m \in Line, NEW k \in GivenLines', Earlier(k, m)
      PROVE  m \in ToSet(queue')
  <2>1. CASE k \in GivenLines
    BY <1>1, <1>5, <2>1 DEF Ordered
  <2>2. CASE k = l
    <3>1. Ahead(queue, l, m)
      BY <1>5, <2>2 DEF Ordered
    <3>2. PICK i, j \in DOMAIN queue : i < j /\ queue[i] = l /\ queue[j] = m
      BY ONLY <3>1 DEF Ahead
    <3>3. Unlike(queue)
      BY DEF Placed, Waiting
    <3>4. m # l
      <4>1. ASSUME m = l PROVE i = j
        BY ONLY <3>2, <3>3, <4>1 DEF Unlike
      <4>2. DOMAIN queue \subseteq Nat
        BY DEF Placed, LineTypes
      <4> QED
        BY <3>2, <4>1, <4>2
    <3>5. m \in ToSet(queue)
      BY <3>2 DEF ToSet
    <3> QED
      BY <1>1, <3>4, <3>5
  <2> QED
    BY <1>4, <2>1, <2>2
<1>6. ASSUME NEW m \in Line, NEW k \in ToSet(queue'), Earlier(k, m)
      PROVE  Ahead(queue', k, m)
  BY <1>1, <1>6 DEF Ordered
<1> QED
  BY <1>2, <1>3, <1>5, <1>6 DEF Ordered

\* The oldest of the lines one may take has none before it in the queue.
LEMMA Foremost ==
  ASSUME Placed, Ordered, NEW i \in DOMAIN queue,
         \A j \in DOMAIN queue : j < i => ~Earlier(queue[j], queue[i])
  PROVE  \A k \in ToSet(queue) : ~Earlier(k, queue[i])
<1> SUFFICES ASSUME NEW k \in ToSet(queue), Earlier(k, queue[i]) PROVE FALSE
  OBVIOUS
<1>1. queue[i] \in Line
  BY DEF Placed, LineTypes
<1>2. PICK j, h \in DOMAIN queue : j < h /\ queue[j] = k /\ queue[h] = queue[i]
  BY <1>1 DEF Ordered, Ahead
<1>3. h = i
  BY <1>2 DEF Placed, Waiting, Unlike
<1> QED
  BY <1>2, <1>3

\* A line said before another to a conversation, and given to it, is in an open turn of it.
LEMMA GivenBefore ==
  ASSUME Placed, Ordered, NEW l, NEW k \in GivenLines, Earlier(k, l)
  PROVE  /\ said[l].to \in Session /\ turn[<<current, said[l].to>>] = "open"
         /\ \E g \in given : g.session = said[l].to
<1>1. PICK g \in given : g.line = k
  BY DEF GivenLines
<1> QED
  BY <1>1 DEF Ordered, There, Earlier, Alike

LEMMA OrderSaid ==
  ASSUME Placed, Ordered, NEW f \in Frontend, NEW l \in Line, NEW to \in To, Say(f, l, to)
  PROVE  Ordered'
<1> DEFINE before == {k \in Line : said[k] # None}
           one == [by |-> f, to |-> to, run |-> current, after |-> before]
<1>1. /\ said[l] = None /\ said' = [said EXCEPT ![l] = one]
      /\ queue' = Append(queue, l) /\ UNCHANGED <<given, turn, current>>
  BY DEF Say, host
<1>2. said'[l] = one /\ \A m \in Line : m # l => said'[m] = said[m]
  BY <1>1 DEF Placed, LineTypes
<1>3. l \notin ToSet(queue) /\ l \notin GivenLines
  BY <1>1 DEF Placed, Waiting, Giving, GivenLines
<1>4. /\ ToSet(queue') = ToSet(queue) \cup {l}
      /\ \A k, m : Ahead(queue, k, m) => Ahead(queue', k, m)
      /\ \A k \in ToSet(queue) : Ahead(queue', k, l)
  BY <1>1, <1>3, Joining DEF Placed, LineTypes, Waiting
<1>5. one # None => one.after = before
  OBVIOUS
<1> HIDE DEF one
<1>6. l \notin before /\ \A k \in before : k \in Line /\ said[k] # None
  BY <1>1
<1> HIDE DEF before
<1>7. ASSUME NEW m \in Line, m # l, said[m] # None
      PROVE  \A k \in said[m].after : k \in Line /\ k # l /\ said[k] # None
  <2>1. said[m].after \subseteq Line
    BY <1>7 DEF Placed, LineTypes, Saying
  <2> QED
    BY <1>1, <1>7, <2>1 DEF Ordered, SaidBefore
<1>8. SaidBefore'
  BY <1>2, <1>5, <1>6, <1>7 DEF SaidBefore
<1>9. ASSUME NEW k, NEW m \in Line, Earlier(k, m)'
      PROVE  \/ m = l /\ k # l
             \/ m # l /\ Earlier(k, m)
  <2>1. CASE m = l
    BY <1>2, <1>5, <1>6, <1>9, <2>1 DEF Earlier
  <2>2. CASE m # l
    <3>1. said'[m] = said[m] /\ said[m] # None /\ k \in said[m].after
      BY <1>2, <1>9, <2>2 DEF Earlier
    <3>2. said'[k] = said[k]
      BY <1>2, <1>7, <2>2, <3>1
    <3> QED
      BY <1>9, <2>2, <3>1, <3>2 DEF Earlier, Alike
  <2> QED
    BY <2>1, <2>2
<1>10. ASSUME NEW g \in given
       PROVE  There(g)'
  <2>1. g.line \in Line /\ g.line # l
    BY <1>3, Gives DEF GivenLines
  <2> QED
    BY <1>1, <1>2, <2>1 DEF Ordered, There
<1>11. GivenLines' = GivenLines
  BY <1>1 DEF GivenLines
<1>12. \A m \in Line : \A k \in GivenLines' : Earlier(k, m)' => m \in ToSet(queue')
  BY <1>4, <1>9, <1>11 DEF Ordered
<1>13. \A m \in Line : \A k \in ToSet(queue') : Earlier(k, m)' => Ahead(queue', k, m)
  <2> SUFFICES ASSUME NEW m \in Line, NEW k \in ToSet(queue'), Earlier(k, m)'
               PROVE  Ahead(queue', k, m)
    OBVIOUS
  <2>1. CASE m = l
    BY <1>4, <1>9, <2>1
  <2>2. CASE m # l
    <3>1. Earlier(k, m)
      BY <1>9, <2>2
    <3>2. k # l
      BY <1>7, <2>2, <3>1 DEF Earlier
    <3> QED
      BY <1>4, <3>1, <3>2 DEF Ordered
  <2> QED
    BY <2>1, <2>2
<1> QED
  BY <1>1, <1>8, <1>10, <1>12, <1>13 DEF Ordered, TurnsTyped

\* A line put back waits ahead of those said after it, which waited while it was given.
LEMMA OrderBack ==
  ASSUME Placed, Ordered, NEW p \in puts, Unreached(p)
  PROVE  Ordered'
<1>1. UNCHANGED <<said, turn, current>> /\ TurnsTyped'
  BY DEF Unreached, host, Ordered, TurnsTyped
<1>2. given' \subseteq given
  BY DEF Unreached
<1>3. CASE Back(p) = {}
  BY <1>1, <1>2, <1>3, OrderSame DEF Unreached, Ordered, There
<1>4. CASE Back(p) # {}
  <2> DEFINE l == p.line
  <2>1. l \in GivenLines
    BY <1>4 DEF Back, GivenLines
  <2>2. l \in Line /\ l \notin ToSet(queue)
    BY <2>1, Gives DEF Placed, Waiting, GivenLines
  <2>3. queue' = <<l>> \o queue
    BY <1>4 DEF Unreached, Requeued
  <2> HIDE DEF l
  <2>4. /\ ToSet(queue') = ToSet(queue) \cup {l}
        /\ \A k, m : Ahead(queue, k, m) => Ahead(queue', k, m)
        /\ \A m \in ToSet(queue) : Ahead(queue', l, m)
    BY <2>2, <2>3, Rejoining DEF Placed, LineTypes, Waiting
  <2>5. \A k, m : Earlier(k, m)' <=> Earlier(k, m)
    BY <1>1 DEF Earlier, Alike
  <2>6. SaidBefore' /\ \A g \in given' : There(g)'
    BY <1>1, <1>2 DEF Ordered, SaidBefore, There
  <2>7. GivenLines' \subseteq GivenLines
    BY <1>2 DEF GivenLines
  <2>8. \A m \in Line : \A k \in GivenLines' : Earlier(k, m) => m \in ToSet(queue')
    BY <2>4, <2>7 DEF Ordered
  <2>9. \A m \in Line : \A k \in ToSet(queue') : Earlier(k, m) => Ahead(queue', k, m)
    BY <2>1, <2>4 DEF Ordered
  <2> QED
    BY <1>1, <2>5, <2>6, <2>8, <2>9 DEF Ordered
<1> QED
  BY <1>3, <1>4

LEMMA NextTurns == TurnsTyped /\ [Next]_vars => TurnsTyped'
<1> SUFFICES ASSUME TurnsTyped, [Next]_vars PROVE TurnsTyped'
  OBVIOUS
<1>1. CASE UNCHANGED turn
  BY <1>1 DEF TurnsTyped
<1>2. ASSUME NEW n \in Run, NEW s \in Session, TurnStarts(n, s) \/ Begins(n, s) \/ TurnEnds(n, s)
      PROVE  TurnsTyped'
  <2>1. PICK to \in {"off", "begins", "open"} : turn' = [turn EXCEPT ![<<n, s>>] = to]
    BY <1>2 DEF TurnStarts, Begins, TurnEnds
  <2> QED
    BY ONLY TurnsTyped, <2>1 DEF TurnsTyped
<1>3. CASE Asks
  BY <1>1, <1>3 DEF Asks, Attach, Detach, Start, Stop, ForceStop, Claim, Unclaim, AfkRole, Afk,
     Answer, Say, Close
<1>4. CASE Runs
  <2>1. ASSUME StartFails \/ StartGoes \/ Fold
        PROVE  UNCHANGED turn
    BY <2>1 DEF StartFails, StartGoes, Fold
  <2>2. ASSUME NEW n \in Run, Ends(n)
        PROVE  UNCHANGED turn
    BY <2>2 DEF Ends
  <2>3. ASSUME NEW q \in Question, NEW n \in Run, NEW r \in Role, NEW options \in BOOLEAN,
               Ask(q, n, r, options)
        PROVE  UNCHANGED turn
    BY <2>3, Zenon DEF Ask
  <2>4. ASSUME NEW n \in Run, NEW s \in Session, NEW l \in Line, Took(n, s, l)
        PROVE  UNCHANGED turn
    BY <2>4 DEF Took
  <2> QED
    BY <1>1, <1>2, <1>4, <2>1, <2>2, <2>3, <2>4 DEF Runs
<1>5. CASE Threads
  BY <1>1, <1>5 DEF Threads, Wakes, HandOver, PutsIn, Unreached
<1>6. CASE UNCHANGED vars
  BY <1>1, <1>6 DEF vars
<1> QED
  BY <1>3, <1>4, <1>5, <1>6 DEF Next

\* A step that takes no line, ends no turn and leaves the run going alone.
LEMMA OrderAlike ==
  ASSUME Ordered, UNCHANGED <<queue, given, said, turn, current>>
  PROVE  Ordered'
<1>1. TurnsTyped' /\ \A g \in given' : turn'[<<current', g.session>>] = "open"
  BY DEF Ordered, There, TurnsTyped
<1> QED
  BY <1>1, OrderSame

LEMMA OrderAsks ==
  ASSUME Placed, Ordered, TurnsTyped', Asks
  PROVE  Ordered'
<1> USE DEF lines, host
<1>1. ASSUME NEW f \in Frontend, Attach(f) \/ Detach(f) \/ Start(f)
      PROVE  Ordered'
  BY <1>1, OrderAlike DEF Attach, Detach, Start
<1>2. ASSUME NEW f \in Frontend, NEW on,
             Afk(f, on) \/ \E r \in Role : Claim(f, r) \/ Unclaim(f, r) \/ AfkRole(f, r, on)
      PROVE  Ordered'
  BY <1>2, OrderAlike DEF Claim, Unclaim, AfkRole, Afk
<1>3. ASSUME NEW f \in Frontend, NEW q \in Question, Answer(f, q)
      PROVE  Ordered'
  BY <1>3, OrderAlike DEF Answer
<1>4. CASE Drops
  BY <1>4, OrderGone DEF Drops
<1>5. ASSUME NEW f \in Frontend, Stop(f) \/ ForceStop(f)
      PROVE  Ordered'
  BY <1>4, <1>5, OrderAlike DEF Stop, ForceStop, StopsCurrent
<1>6. CASE Close
  <2>1. current # 0 => Drops
    BY <1>6 DEF Close
  <2>2. current = 0 => UNCHANGED <<queue, given, said, turn, current>>
    BY <1>6 DEF Close
  <2> QED
    BY <1>4, <2>1, <2>2, OrderAlike
<1>7. ASSUME NEW f \in Frontend, NEW l \in Line, NEW to \in To, Say(f, l, to)
      PROVE  Ordered'
  BY <1>7, OrderSaid
<1> QED
  BY ONLY Asks, <1>1, <1>2, <1>3, <1>5, <1>6, <1>7 DEF Asks

\* A turn starting takes the oldest line for it: what it takes to its conversation by name has
\* none before it given, as what is given to the conversation is given to an open turn of it.
LEMMA OrderTurnStarts ==
  ASSUME Placed, Ordered, TurnsTyped', NEW n \in Run, NEW s \in Session, TurnStarts(n, s)
  PROVE  Ordered'
<1> DEFINE for == {i \in DOMAIN queue : said[queue[i]].to \in Wanted(n, s)}
           at == CHOOSE i \in for : \A j \in for : i <= j
<1>1. /\ turn[<<n, s>>] = "off" /\ turn' = [turn EXCEPT ![<<n, s>>] = "begins"]
      /\ UNCHANGED <<given, said, current>>
  BY DEF TurnStarts, host
<1>2. ASSUME NEW g \in given
      PROVE  There(g)'
  <2>1. <<current, g.session>> # <<n, s>> /\ <<current, g.session>> \in Run \X Session
    BY <1>1, Gives DEF Ordered, There
  <2>2. turn'[<<current, g.session>>] = turn[<<current, g.session>>]
    BY <1>1, <2>1 DEF Ordered, TurnsTyped
  <2> QED
    BY <1>1, <2>2 DEF Ordered, There
<1>3. CASE for = {}
  <2>1. UNCHANGED queue
    BY <1>3 DEF TurnStarts
  <2> QED
    BY <1>1, <1>2, <2>1, OrderSame DEF There
<1>4. CASE for # {}
  <2> DEFINE l == queue[at]
  <2>1. queue' = Without(l)
    BY <1>4 DEF TurnStarts
  <2>2. for \in SUBSET Nat /\ DOMAIN queue \subseteq Nat
    BY DEF Placed, LineTypes
  <2>3. at \in for /\ \A j \in for : at <= j
    <3> HIDE DEF for
    <3>1. \E i \in for : \A j \in for : i <= j
      BY <1>4, <2>2, Lowest
    <3> QED
      BY <3>1
  <2> HIDE DEF at
  <2>4. at \in DOMAIN queue /\ said[l].to \in Wanted(n, s) /\ l \in ToSet(queue)
    BY <2>3 DEF ToSet
  <2>5. ASSUME NEW j \in DOMAIN queue, j < at
        PROVE  ~Earlier(queue[j], l)
    <3>1. j \notin for
      BY <2>2, <2>3, <2>5
    <3> QED
      BY <2>4, <3>1 DEF Earlier, Alike
  <2>6. \A k \in ToSet(queue) : ~Earlier(k, l)
    BY <2>4, <2>5, Foremost
  <2>7. ASSUME NEW k \in GivenLines, Earlier(k, l)
        PROVE  FALSE
    <3>1. said[l].to \in Session /\ turn[<<current, said[l].to>>] = "open"
      BY <2>7, GivenBefore
    <3>2. current = n /\ said[l].to \in {AgentOf[s], s, AtLarge}
      BY <2>4 DEF Wanted
    <3>3. said[l].to = s
      BY <3>1, <3>2, HostingAssumption
    <3> QED
      BY <1>1, <3>1, <3>2, <3>3
  <2> HIDE DEF l
  <2> QED
    BY <1>1, <1>2, <2>1, <2>4, <2>6, <2>7, OrderTaken
<1> QED
  BY <1>3, <1>4

\* A question takes the oldest line for it, which is to no conversation with a turn open.
LEMMA OrderTakesLine ==
  ASSUME AskedInv, Placed, Ordered, TurnsTyped', NEW q \in Question, Wakes(q), TakesLine(q)
  PROVE  Ordered'
<1>1. UNCHANGED <<given, said, current, turn>>
  BY DEF Wakes, TakesLine, host
<1>2. PICK i \in DOMAIN queue :
        /\ IsFor(queue[i], q) /\ \A j \in 1..(i - 1) : ~IsFor(queue[j], q)
        /\ queue' = Without(queue[i])
  BY DEF TakesLine, LineFor
<1> DEFINE l == queue[i]
<1>3. l \in ToSet(queue) /\ DOMAIN queue = 1..Len(queue) /\ Len(queue) \in Nat
  BY DEF ToSet, Placed, LineTypes
<1>4. ASSUME NEW j \in DOMAIN queue, j < i
      PROVE  ~Earlier(queue[j], l)
  <2>1. ~IsFor(queue[j], q)
    BY <1>2, <1>3, <1>4
  <2> QED
    BY <1>2, <2>1 DEF IsFor, Earlier, Alike
<1>5. \A k \in ToSet(queue) : ~Earlier(k, l)
  BY <1>4, Foremost
<1>6. ASSUME NEW k \in GivenLines, Earlier(k, l)
      PROVE  FALSE
  <2>1. said[l].to \in Session /\ turn[<<current, said[l].to>>] = "open"
    BY <1>6, GivenBefore
  <2>2. question[q].run = current /\ question[q].role \in Role
    BY DEF TakesLine, Live, Wakes, AskedInv, QuestionsTyped, Asked
  <2>3. said[l].to \in Open(current)
    BY <2>1 DEF Open
  <2>4. said[l].to \notin {AtLarge} \cup Agent \cup Role
    BY <2>1, HostingAssumption
  <2> QED
    BY <1>2, <2>2, <2>3, <2>4 DEF IsFor
<1>7. \A g \in given' : g \in given /\ There(g)'
  BY <1>1 DEF Ordered, There
<1> HIDE DEF l
<1> QED
  BY <1>1, <1>2, <1>3, <1>5, <1>6, <1>7, OrderTaken DEF l

\* The oldest line of each view is handed over, to an agent that holds none.
LEMMA OrderHandOver ==
  ASSUME Placed, Ordered, TurnsTyped', NEW who \in handing, HandOver(who)
  PROVE  Ordered'
<1> DEFINE picked == IF current = 0 THEN {} ELSE Picks(current, who)
<1>1. UNCHANGED <<said, turn, current>>
  BY DEF HandOver, host
<1>2. CASE picked = {}
  BY <1>1, <1>2, OrderAlike DEF HandOver
<1>3. CASE picked # {}
  <2>1. PICK i \in Picks(current, who) : \E s \in Fits(current, said[queue[i]].to, who) :
          /\ queue' = Without(queue[i])
          /\ given' = given \cup {[line |-> queue[i], session |-> s]}
    BY <1>3 DEF HandOver
  <2>2. PICK s \in Fits(current, said[queue[i]].to, who) :
          /\ queue' = Without(queue[i])
          /\ given' = given \cup {[line |-> queue[i], session |-> s]}
    BY <2>1
  <2> DEFINE l == queue[i]
  <2>3. /\ i \in DOMAIN queue
        /\ \A j \in 1..(i - 1) : said[queue[j]].to # said[l].to
    BY DEF Picks
  <2>4. l \in ToSet(queue) /\ DOMAIN queue = 1..Len(queue) /\ Len(queue) \in Nat
    BY <2>3 DEF ToSet, Placed, LineTypes
  <2>5. \A j \in DOMAIN queue : j < i => ~Earlier(queue[j], l)
    BY <2>3, <2>4 DEF Earlier, Alike
  <2>6. \A k \in ToSet(queue) : ~Earlier(k, l)
    BY <2>3, <2>5, Foremost
  <2>7. /\ s \in Session /\ turn[<<current, s>>] = "open"
        /\ said[l].to \in {AtLarge, AgentOf[s], s}
        /\ \A g \in given : AgentOf[g.session] # AgentOf[s]
    BY <2>2 DEF Fits, Targets, Open, Holding
  <2>8. said[l].to \in Session => said[l].to = s
    BY <2>7, HostingAssumption
  <2>9. \A k \in GivenLines : ~Earlier(k, l)
    BY <2>7, <2>8, GivenBefore
  <2>10. ASSUME NEW g \in given'
         PROVE  (g \in given \/ g.line = l) /\ There(g)'
    BY <1>1, <2>2, <2>7, <2>8 DEF Ordered, There
  <2> HIDE DEF l
  <2> QED
    BY <1>1, <2>2, <2>4, <2>6, <2>9, <2>10, OrderTaken DEF l
<1> QED
  BY <1>2, <1>3

LEMMA OrderRuns ==
  ASSUME Placed, Ordered, TurnsTyped', Runs
  PROVE  Ordered'
<1> USE DEF lines, host
<1>1. CASE StartFails \/ Fold
  BY <1>1, OrderAlike DEF StartFails, Fold
<1>2. CASE StartGoes
  BY <1>2, OrderGone DEF StartGoes
<1>3. ASSUME NEW n \in Run, Ends(n)
      PROVE  Ordered'
  <2>1. CASE current = n
    BY <1>3, <2>1, OrderGone DEF Ends, Drops
  <2>2. CASE current # n
    BY <1>3, <2>2, OrderAlike DEF Ends
  <2> QED
    BY <2>1, <2>2
<1>4. ASSUME NEW q \in Question, NEW n \in Run, NEW r \in Role, NEW options \in BOOLEAN,
             Ask(q, n, r, options)
      PROVE  Ordered'
  <2>1. UNCHANGED <<host, lines, turn>>
    BY ONLY <1>4, Zenon DEF Ask
  <2> QED
    BY <2>1, OrderAlike
<1>5. ASSUME NEW n \in Run, NEW s \in Session, Begins(n, s)
      PROVE  Ordered'
  <2>1. UNCHANGED <<queue, given, said, current>> /\ turn' = [turn EXCEPT ![<<n, s>>] = "open"]
    BY <1>5 DEF Begins
  <2>2. \A g \in given' : turn'[<<current', g.session>>] = "open"
    BY <2>1, Gives DEF Ordered, There, TurnsTyped
  <2> QED
    BY <2>1, <2>2, OrderSame
<1>6. ASSUME NEW n \in Run, NEW s \in Session, TurnEnds(n, s)
      PROVE  Ordered'
  <2>1. /\ turn' = [turn EXCEPT ![<<n, s>>] = "off"] /\ UNCHANGED <<queue, said, current>>
        /\ given' \subseteq given
        /\ current = n => given' = given \ Unheld(AgentOf[s])
    BY <1>6 DEF TurnEnds
  <2>2. ASSUME NEW g \in given'
        PROVE  turn'[<<current', g.session>>] = "open"
    <3>1. <<current, g.session>> # <<n, s>>
      BY <2>1 DEF Unheld
    <3>2. <<current, g.session>> \in Run \X Session
      BY <2>1, Gives
    <3> QED
      BY <2>1, <3>1, <3>2 DEF Ordered, There, TurnsTyped
  <2> QED
    BY <2>1, <2>2, OrderSame
<1>7. ASSUME NEW n \in Run, NEW s \in Session, NEW l \in Line, Took(n, s, l)
      PROVE  Ordered'
  <2>1. UNCHANGED <<queue, said, current, turn>> /\ given' \subseteq given
    BY <1>7 DEF Took
  <2>2. \A g \in given' : turn'[<<current', g.session>>] = "open"
    BY <2>1 DEF Ordered, There
  <2> QED
    BY <2>1, <2>2, OrderSame
<1> QED
  BY ONLY Placed, Ordered, TurnsTyped', Runs, <1>1, <1>2, <1>3, <1>4, <1>5, <1>6, <1>7,
     OrderTurnStarts DEF Runs

LEMMA OrderThreads ==
  ASSUME AskedInv, Placed, Ordered, TurnsTyped', Threads
  PROVE  Ordered'
<1>1. ASSUME NEW q \in Question, Wakes(q)
      PROVE  Ordered'
  <2>1. CASE HearsAnswer(q) \/ HearsNobody(q)
    BY <1>1, <2>1, OrderAlike DEF Wakes, HearsAnswer, HearsNobody, lines, host
  <2> QED
    BY <1>1, <2>1, OrderTakesLine DEF Wakes
<1>2. ASSUME NEW p \in puts, PutsIn(p)
      PROVE  Ordered'
  BY <1>2, OrderAlike DEF PutsIn, host
<1> QED
  BY <1>1, <1>2, OrderHandOver, OrderBack DEF Threads

LEMMA InitOrdered == Init => Ordered
<1> SUFFICES ASSUME Init PROVE Ordered
  OBVIOUS
<1>1. TurnsTyped /\ SaidBefore
  BY DEF Init, TurnsTyped, SaidBefore
<1>2. ToSet(queue) = {} /\ GivenLines = {} /\ given = {}
  BY NoneWaiting DEF Init, GivenLines
<1> QED
  BY <1>1, <1>2 DEF Ordered

\* What one person says to one conversation is taken in the order it was said, whoever takes it
\* -- a turn starting, a thread handing over, a question -- and whatever is refused meanwhile
\* (_at_turn_start, _picks, _line_for, _unreached).
THEOREM Ordering == Spec => []InOrder
<1>1. Placed /\ Ordered => InOrder
  <2> SUFFICES ASSUME Placed, Ordered, NEW i \in DOMAIN queue, NEW l \in Line,
                      Earlier(queue[i], l)
               PROVE  \E j \in DOMAIN queue : i < j /\ queue[j] = l
    BY DEF InOrder, Earlier
  <2>1. queue[i] \in ToSet(queue)
    BY DEF ToSet
  <2>2. PICK h, j \in DOMAIN queue : h < j /\ queue[h] = queue[i] /\ queue[j] = l
    BY <2>1 DEF Ordered, Ahead
  <2>3. h = i
    BY <2>2 DEF Placed, Waiting, Unlike
  <2> QED
    BY <2>2, <2>3
<1>2. AskedInv /\ Placed /\ Ordered /\ [Next]_vars => Ordered'
  <2> SUFFICES ASSUME AskedInv, Placed, Ordered, [Next]_vars PROVE Ordered'
    OBVIOUS
  <2>1. TurnsTyped'
    BY NextTurns DEF Ordered
  <2>2. CASE UNCHANGED vars
    BY <2>2, OrderAlike DEF vars, lines, host
  <2> QED
    BY <2>1, <2>2, OrderAsks, OrderRuns, OrderThreads DEF Next
<1> QED
  BY <1>1, <1>2, InitOrdered, Placing, PTL DEF Spec

=============================================================================
