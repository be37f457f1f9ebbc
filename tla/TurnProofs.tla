----------------------------- MODULE TurnProofs -----------------------------
(***************************************************************************)
(* What Turn does for any number of turns, tries and watchdogs, checked by *)
(* TLAPS.                                                                  *)
(***************************************************************************)
EXTENDS Turn, TLAPS

\* A turn is open to being cut off for as long as it is taken.
Opened == (working <=> at # "out") /\ (working => nth # 0)

\* Nothing is raised for a turn to come, and a watchdog is of a turn for as long as it is up.
Raised ==
  /\ \A c \in Cutter : raised[c] <= nth
  /\ \A d \in Dog :
       /\ rung[d] # "off" => raised[d] # 0
       /\ stage[d] # "idle" => rung[d] # "off"

\* A turn is marked before a watchdog asks for it to stop.
Marked ==
  /\ \A d \in Dog : working /\ stage[d] = "asking" /\ raised[d] = nth => wedged
  /\ working /\ "dog" \in askers => wedged

\* Somebody asked for what cut the turn off.
Asked == cut => askers # {}

\* From the moment the process is up, and the turn may be told something.
NoneLost ==
  cut /\ at \in Reading \cup {"saying"} /\ Up =>
    \E c \in Cutter : stage[c] \in {"telling", "cutting"} /\ raised[c] = nth

IInv == TypeOK /\ Opened /\ Raised /\ Marked /\ Asked /\ NoneLost /\ WedgedFails

LEMMA Initial == Init => IInv
<1> SUFFICES ASSUME Init PROVE IInv
  OBVIOUS
<1>1. TypeOK
  <2>1. /\ over \in BOOLEAN /\ cut \in BOOLEAN /\ wedged \in BOOLEAN /\ waking \in BOOLEAN
        /\ working \in BOOLEAN /\ alive \in BOOLEAN
    BY DEF Init
  <2>2. /\ try \in 1..MaxTry /\ round \in 1..MaxRound /\ nth \in 0..MaxTurn
        /\ raised \in [Cutter -> 0..MaxTurn]
    BY BoundsAssumption DEF Init
  <2>3. done \in [Dog -> BOOLEAN]
    BY DEF Init
  <2> QED
    BY <2>1, <2>2, <2>3 DEF Init, TypeOK, Places
<1>2. Opened /\ Raised /\ Marked /\ Asked /\ NoneLost /\ WedgedFails
  BY DEF Init, Opened, Raised, Marked, Asked, NoneLost, WedgedFails, Reading, Cutter
<1> QED
  BY <1>1, <1>2 DEF IInv

LEMMA Kinds == \A c \in Cutter : Kind(c) \in {"dog", "person", "clock"}
  BY DEF Kind, Cutter

LEMMA Typed == TypeOK /\ [Next]_vars => TypeOK'
<1> SUFFICES ASSUME TypeOK, [Next]_vars PROVE TypeOK'
  OBVIOUS
<1> USE BoundsAssumption DEF TypeOK, Places, Reading, Cutter, threadVars, guardVars, budgetVars,
   procVars, cutterVars, dogVars
<1>1. CASE Take
  <2>1. over' \in BOOLEAN /\ cut' \in BOOLEAN /\ wedged' \in BOOLEAN /\ waking' \in BOOLEAN
    BY <1>1 DEF Take
  <2>2. working' \in BOOLEAN
    BY <1>1 DEF Take
  <2>3. try' \in 1..MaxTry /\ round' \in 1..MaxRound
    BY <1>1 DEF Take
  <2> QED
    BY <1>1, <2>1, <2>2, <2>3 DEF Take
<1>2. CASE Open
  BY <1>2 DEF Open
<1>3. CASE Try
  BY <1>3 DEF Try
<1>4. CASE Waited
  BY <1>4 DEF Waited
<1>5. CASE Start
  <2>1. up' \in Procs \cup {0} /\ alive' \in BOOLEAN
    BY <1>5 DEF Start
  <2>2. (up' \in Procs \cup {0} /\ alive' \in BOOLEAN)
        => TypeOK'
    BY <1>5 DEF Start
  <2> QED
    BY <2>1, <2>2
<1>6. CASE Started
  BY <1>6 DEF Started, CutMeanwhile, Cutting
<1>7. CASE Say
  BY <1>7 DEF Say
<1>8. CASE Hand
  BY <1>8 DEF Hand
<1>9. CASE Resume
  <2>1. at' \in Places
    BY ONLY <1>9 DEF Resume, Places, Reading
  <2> QED
    BY ONLY <1>9, <2>1, TypeOK
       DEF Resume, TypeOK, guardVars, budgetVars, procVars, cutterVars, dogVars
<1>10. CASE Lands
  <2>1. askers' \subseteq {"dog", "person", "clock"}
    <3>1. askers \subseteq {"dog", "person", "clock"}
      BY ONLY TypeOK DEF TypeOK
    <3> QED
      BY ONLY <1>10, <3>1 DEF Lands
  <2>2. /\ over' \in BOOLEAN /\ cut' \in BOOLEAN /\ waking' \in BOOLEAN /\ alive' \in BOOLEAN
        /\ UNCHANGED <<threadVars, working, nth, wedged, budgetVars, up, stopped, cutterVars,
                       dogVars>>
    BY ONLY <1>10 DEF Lands
  <2>3. UNCHANGED <<threadVars, budgetVars, cutterVars, dogVars>>
        => UNCHANGED <<at, try, round, outcome, capped, timer, stage, raised, rung, done, doomed>>
    BY ONLY DEF threadVars, budgetVars, cutterVars, dogVars
  <2>4. UNCHANGED <<at, try, round, outcome, capped, timer, stage, raised, rung, done, doomed>>
        /\ UNCHANGED <<working, nth, wedged, up, stopped>>
    BY ONLY <2>2, <2>3
  <2> QED
    BY ONLY <2>1, <2>2, <2>4, TypeOK DEF TypeOK
<1>11. CASE Answer
  BY <1>11 DEF Answer, Exits
<1>12. CASE Loses
  <2>1. up' \in Procs \cup {0} /\ alive' \in BOOLEAN
    BY <1>12 DEF Loses
  <2>2. (up' \in Procs \cup {0} /\ alive' \in BOOLEAN)
        => TypeOK'
    BY <1>12 DEF Loses
  <2> QED
    BY <2>1, <2>2
<1>13. CASE Lose
  BY <1>12, <1>13 DEF Lose
<1>14. CASE Lost
  BY <1>14 DEF Lost, Exits
<1>15. CASE Fail
  <2>1. try' \in 1..MaxTry
    BY <1>15 DEF Fail, LastTry
  <2>2. up' \in Procs \cup {0}
    BY <1>15 DEF Fail
  <2>3. alive' \in BOOLEAN
    BY <1>15 DEF Fail
  <2> QED
    BY <1>15, <2>1, <2>2, <2>3 DEF Fail, LastTry, Cutting
<1>16. CASE Caught
  BY <1>16 DEF Caught
<1>17. CASE Answered
  BY <1>17 DEF Answered, Cutting
<1>18. CASE End
  <2>1. at' \in Places
    BY ONLY <1>18 DEF End, Places
  <2>2. /\ working' \in BOOLEAN
        /\ capped' \in {"no", "immediately", "next-response"}
        /\ timer' \in {"off", "set", "landed"}
    BY ONLY <1>18 DEF End
  <2> QED
    BY ONLY <1>18, <2>1, <2>2, TypeOK DEF End, TypeOK, procVars, cutterVars, dogVars
<1>19. CASE Interrupt
  <2>1. Sets("person", 0) /\ UNCHANGED <<threadVars, working, nth, over, wedged, waking,
                                         budgetVars, procVars, stopped, dogVars>>
    BY ONLY <1>19 DEF Interrupt
  <2> HIDE DEF TypeOK, Places, threadVars, budgetVars, procVars, dogVars
  <2>2. cut' = cut \/ cut' = TRUE
    BY ONLY <2>1 DEF Sets
  <2>3. askers' = askers \/ askers' = askers \cup {Kind("person")}
    BY ONLY <2>1 DEF Sets
  <2>4. \/ stage' = [stage EXCEPT !["person"] = "idle"]
        \/ stage' = [stage EXCEPT !["person"] = "telling"]
    BY ONLY <2>1 DEF Sets, Rests
  <2>5. raised' = raised \/ raised' = [raised EXCEPT !["person"] = 0]
        \/ raised' = [raised EXCEPT !["person"] = nth]
    BY ONLY <2>1 DEF Sets, Rests
  <2>6. cut' \in BOOLEAN
    BY ONLY <2>2, TypeOK DEF TypeOK
  <2>7. askers' \subseteq {"dog", "person", "clock"}
    <3>1. askers \subseteq {"dog", "person", "clock"}
      BY ONLY TypeOK DEF TypeOK
    <3>2. Kind("person") \in {"dog", "person", "clock"}
      BY ONLY Kinds DEF Cutter
    <3> QED
      BY ONLY <3>1, <3>2, <2>3
  <2>8. stage' \in [Cutter -> {"idle", "asking", "telling", "cutting", "set", "landed",
                               "dropping", "signalling"}]
    BY ONLY <2>4, TypeOK DEF TypeOK
  <2>9. raised' \in [Cutter -> 0..MaxTurn]
    BY ONLY <2>5, TypeOK, BoundsAssumption DEF TypeOK
  <2> QED
    BY ONLY <2>1, <2>6, <2>7, <2>8, <2>9, TypeOK
       DEF TypeOK, threadVars, budgetVars, procVars, dogVars
<1>20. CASE Rings
  BY <1>20 DEF Rings
<1>21. CASE Checks
  <2>1. over' \in BOOLEAN
    BY <1>21 DEF Checks, Its, Rests
  <2>2. (over' \in BOOLEAN)
        => TypeOK'
    BY <1>21 DEF Checks, Its, Rests
  <2> QED
    BY <2>1, <2>2
<1>22. ASSUME NEW c \in Cutter, Told(c) PROVE TypeOK'
  <2>1. waking' \in BOOLEAN
    BY <1>22 DEF Told, Its, Rests
  <2>2. (waking' \in BOOLEAN)
        => TypeOK'
    BY <1>22 DEF Told, Its, Rests
  <2> QED
    BY <2>1, <2>2
<1>23. ASSUME NEW c \in Cutter, Cuts(c) PROVE TypeOK'
  BY <1>23 DEF Cuts, Ends, Rests
<1>24. ASSUME NEW c \in Cutter, Asks(c) PROVE TypeOK'
  <2>1. cut' = cut \/ cut' = TRUE
    BY <1>24 DEF Asks, Sets, Rests
  <2>2. cut' \in BOOLEAN
    BY <2>1
  <2>3. askers' = askers \/ askers' = askers \cup {Kind(c)}
    BY <1>24 DEF Asks, Sets, Rests
  <2>4. askers' \subseteq {"dog", "person", "clock"}
    <3>1. askers \subseteq {"dog", "person", "clock"}
      BY ONLY TypeOK DEF TypeOK
    <3> QED
      BY ONLY <2>3, <3>1, Kinds, <1>24
  <2> QED
    BY <1>24, <2>1, <2>2, <2>3, <2>4 DEF Asks, Sets, Its, Rests, Kind
<1>25. ASSUME NEW d \in Dog, Gone(d) PROVE TypeOK'
  BY <1>25 DEF Gone, Free, Leaves
<1>26. ASSUME NEW d \in Dog, Looked(d) PROVE TypeOK'
  BY <1>26 DEF Looked, Free
<1>27. ASSUME NEW d \in Dog, Interrupted(d) PROVE TypeOK'
  BY <1>27 DEF Interrupted, Free, Mine, Wedges, Its
<1>28. ASSUME NEW d \in Dog, Aims(d) PROVE TypeOK'
  BY <1>28 DEF Aims, Free
<1>29. ASSUME NEW d \in Dog, Drops(d) PROVE TypeOK'
  <2>1. done' = done \/ done' = [done EXCEPT ![d] = FALSE]
    BY <1>29 DEF Drops, Mine, Leaves
  <2>2. done' \in [Dog -> BOOLEAN]
    BY <2>1
  <2> QED
    BY <1>29, <2>1, <2>2 DEF Drops, Mine, Leaves
<1>30. ASSUME NEW d \in Dog, Signals(d) PROVE TypeOK'
  <2>1. alive' \in BOOLEAN
    BY <1>30 DEF Signals, Ends
  <2>2. (alive' \in BOOLEAN)
        => TypeOK'
    BY <1>30 DEF Signals, Ends
  <2> QED
    BY <2>1, <2>2
<1>31. ASSUME NEW d \in Dog, Kills(d) PROVE TypeOK'
  BY <1>31 DEF Kills, Free, Leaves, Ends
<1>32. CASE Stop
  BY <1>32 DEF Stop
<1>33. CASE Closes
  <2>1. alive' \in BOOLEAN /\ waking' \in BOOLEAN
    BY <1>33 DEF Closes
  <2>2. (alive' \in BOOLEAN /\ waking' \in BOOLEAN)
        => TypeOK'
    BY <1>33 DEF Closes
  <2> QED
    BY <2>1, <2>2
<1>34. CASE Dies
  <2>1. alive' \in BOOLEAN
    BY <1>34 DEF Dies
  <2>2. (alive' \in BOOLEAN)
        => TypeOK'
    BY <1>34 DEF Dies
  <2> QED
    BY <2>1, <2>2
<1>35. CASE UNCHANGED vars
  BY <1>35 DEF vars
<1> QED
  BY <1>1, <1>2, <1>3, <1>4, <1>5, <1>6, <1>7, <1>8, <1>9, <1>10, <1>11, <1>12, <1>13, <1>14,
     <1>15, <1>16, <1>17, <1>18, <1>19, <1>20, <1>21, <1>22, <1>23, <1>24, <1>25, <1>26, <1>27,
     <1>28, <1>29, <1>30, <1>31, <1>32, <1>33, <1>34, <1>35 DEF Next, Thread, Ladder, Cuttings

LEMMA Kept == IInv /\ [Next]_vars => IInv'
<1> SUFFICES ASSUME IInv, [Next]_vars PROVE IInv'
  OBVIOUS
<1> DEFINE Rest == Opened /\ Raised /\ Marked /\ Asked /\ NoneLost /\ WedgedFails
<1>0. TypeOK /\ Rest /\ TypeOK'
  BY Typed DEF IInv
<1>a. SUFFICES Rest'
  BY <1>0 DEF IInv
<1> USE <1>0, BoundsAssumption DEF TypeOK, Opened, Raised, Marked, Asked, NoneLost, WedgedFails,
      Reading, Up, Cutter, threadVars, guardVars, budgetVars, procVars, cutterVars, dogVars
<1>1. CASE Take
  BY <1>1 DEF Take
<1>2. CASE Open
  BY <1>2 DEF Open
<1>3. CASE Try
  BY <1>3 DEF Try
<1>4. CASE Waited
  BY <1>4 DEF Waited
<1>5. CASE Start
  BY <1>5 DEF Start
<1>6. CASE Started
  BY <1>6 DEF Started, CutMeanwhile, Cutting
<1>7. CASE Say
  <2>1. CASE at' = "failed"
    BY <1>7, <2>1 DEF Say
  <2>2. CASE at' = "reading"
    <3>1. PICK d \in Dog :
                           /\ rung[d] = "off"
                           /\ stage[d] = "idle"
                           /\ raised' = [raised EXCEPT ![d] = nth]
                           /\ rung' = [rung EXCEPT ![d] = "look"]
      BY <1>7, <2>2 DEF Say
    <3>2. /\ at = "saying" /\ at' = "reading"
          /\ UNCHANGED <<outcome, guardVars, procVars, stage, askers>>
      BY <1>7, <2>2 DEF Say
    <3>3. NoneLost'
      BY <3>1, <3>2
    <3>4. Opened' /\ Asked' /\ WedgedFails'
      BY <3>2
    <3>5. Raised' /\ Marked'
      <4>1. nth # 0
        BY <3>2
      <4> QED
        BY <3>1, <3>2, <4>1
    <3> QED
      BY <3>3, <3>4, <3>5
  <2> QED
    BY <1>7, <2>1, <2>2 DEF Say
<1>8. CASE Hand
  BY <1>8 DEF Hand
<1>9. CASE Resume
  BY <1>9 DEF Resume
<1>10. CASE Lands
  BY <1>10 DEF Lands
<1>11. CASE Answer
  BY <1>11 DEF Answer, Exits
<1>12. CASE Loses
  BY <1>12 DEF Loses
<1>13. CASE Lose
  BY <1>13 DEF Lose, Loses
<1>14. CASE Lost
  BY <1>14 DEF Lost, Exits
<1>15. CASE Fail
  BY <1>15 DEF Fail, LastTry, Cutting
<1>16. CASE Caught
  BY <1>16 DEF Caught
<1>17. CASE Answered
  BY <1>17 DEF Answered, Cutting
<1>18. CASE End
  BY <1>18 DEF End
<1>19. CASE Interrupt
  BY <1>19 DEF Interrupt, Sets, Its, Rests, Kind
<1>20. CASE Rings
  BY <1>20 DEF Rings
<1>21. CASE Checks
  BY <1>21 DEF Checks, Its, Rests
<1>22. ASSUME NEW c \in Cutter, Told(c) PROVE Rest'
  BY <1>22 DEF Told, Its, Rests
<1>23. ASSUME NEW c \in Cutter, Cuts(c) PROVE Rest'
  <2>1. ~Up'
    BY <1>23 DEF Cuts, Ends
  <2>2. Opened' /\ Raised' /\ Marked' /\ Asked' /\ WedgedFails'
    BY <1>23 DEF Cuts, Rests
  <2> QED
    BY <2>1, <2>2
<1>24. ASSUME NEW c \in Cutter, Asks(c) PROVE Rest'
  BY <1>24 DEF Asks, Sets, Its, Rests, Kind
<1>25. ASSUME NEW d \in Dog, Gone(d) PROVE Rest'
  BY <1>25 DEF Gone, Free, Leaves
<1>26. ASSUME NEW d \in Dog, Looked(d) PROVE Rest'
  BY <1>26 DEF Looked, Free
<1>27. ASSUME NEW d \in Dog, Interrupted(d) PROVE Rest'
  BY <1>27 DEF Interrupted, Free, Mine, Wedges, Its
<1>28. ASSUME NEW d \in Dog, Aims(d) PROVE Rest'
  BY <1>28 DEF Aims, Free
<1>29. ASSUME NEW d \in Dog, Drops(d) PROVE Rest'
  BY <1>29 DEF Drops, Mine, Leaves
<1>30. ASSUME NEW d \in Dog, Signals(d) PROVE Rest'
  BY <1>30 DEF Signals, Ends
<1>31. ASSUME NEW d \in Dog, Kills(d) PROVE Rest'
  BY <1>31 DEF Kills, Free, Leaves, Ends
<1>32. CASE Stop
  BY <1>32 DEF Stop
<1>33. CASE Closes
  BY <1>33 DEF Closes
<1>34. CASE Dies
  BY <1>34 DEF Dies
<1>35. CASE UNCHANGED vars
  BY <1>35 DEF vars
<1> QED
  BY <1>1, <1>2, <1>3, <1>4, <1>5, <1>6, <1>7, <1>8, <1>9, <1>10, <1>11, <1>12, <1>13, <1>14,
     <1>15, <1>16, <1>17, <1>18, <1>19, <1>20, <1>21, <1>22, <1>23, <1>24, <1>25, <1>26, <1>27,
     <1>28, <1>29, <1>30, <1>31, <1>32, <1>33, <1>34, <1>35 DEF Next, Thread, Ladder, Cuttings

LEMMA Invariance == Spec => []IInv
  BY Initial, Kept, PTL DEF Spec

\* The state of a turn, and of whatever may end it, is always what it says it is.
THEOREM Typing == Spec => []TypeOK
<1>1. IInv => TypeOK
  BY DEF IInv
<1> QED
  BY <1>1, Invariance, PTL

\* No cut-off is lost, however it came: the turn it cut off reads on from a process that is up
\* only until whoever cut it off has ended that (_interrupts, _stream).
THEOREM CutsLand == Spec => []NoLostCut
<1>1. IInv => NoLostCut
  BY DEF IInv, NoneLost, NoLostCut
<1> QED
  BY <1>1, Invariance, PTL

\* No turn is cut off for what was raised for another, however long that was held up
\* (_interrupts, _taking).
THEOREM OwnCuts == Spec => []CutIsIts
<1>1. IInv => CutIsIts
  BY DEF IInv, Asked, CutIsIts
<1> QED
  BY <1>1, Invariance, PTL

\* A turn that nobody but a watchdog cut off never answers with what a cut-off leaves
\* (_wedges, _turning).
THEOREM WedgesFail == Spec => []WedgedFails
<1>1. IInv => WedgedFails
  BY DEF IInv
<1> QED
  BY <1>1, Invariance, PTL
=============================================================================
