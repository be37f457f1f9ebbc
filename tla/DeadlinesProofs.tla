-------------------------- MODULE DeadlinesProofs --------------------------
(***************************************************************************)
(* What Deadlines does for any depth of calls, and any number of turns and *)
(* stops, checked by TLAPS.                                                *)
(***************************************************************************)
EXTENDS Deadlines, SequenceTheorems, FiniteSetTheorems, TLAPS

\* A clock that went has nothing left to run: it goes once.
Handles == \A i \in 1..Depth : frames[i].fired => frames[i].handle = "none"

CountInv ==
  /\ frames \in Seq(Frame)
  /\ cancels \in Nat /\ stops \in Nat
  /\ Handles
  /\ CancelsCounted

\* What a step leaves of the clocks: the calls still there have the baselines they had, and
\* the clocks that went above them are still gone.
Above(i) == {j \in Fired : j < i}
Carried ==
  /\ stops <= stops'
  /\ \A i \in Clocks' : /\ i \in Clocks
                        /\ frames'[i].stops = frames[i].stops
                        /\ frames'[i].cancelling = frames[i].cancelling
                        /\ Above(i) \subseteq Above(i)'

LEMMA FiredFinite ==
  ASSUME frames \in Seq(Frame)
  PROVE  IsFiniteSet(Fired) /\ Cardinality(Fired) \in Nat
<1>1. Depth \in Nat
  BY LenProperties DEF Depth
<1>2. IsFiniteSet(1..Depth)
  BY <1>1, FS_Interval
<1>3. Fired \in SUBSET (1..Depth)
  BY DEF Fired, Clocks
<1> QED
  BY <1>2, <1>3, FS_Subset, FS_CardinalityType

\* A frame is what another was, in what its clock counts.
Alike(g, f) ==
  /\ g.armed = f.armed
  /\ g.fired = f.fired
  /\ g.cancelling = f.cancelling
  /\ g.stops = f.stops

\* Nor does it differ in what its clock waits for.
Minding(g, f) ==
  /\ g.graceful = f.graceful
  /\ g.inflight = f.inflight
  /\ g.expired = f.expired
  /\ g.handle = f.handle
  /\ g.due = f.due
  /\ g.spared = f.spared

\* The clocks of the calls under way are those that were.
SameClocks(fs) ==
  /\ fs \in Seq(Frame)
  /\ Len(fs) = Depth
  /\ \A i \in 1..Depth :
       /\ Alike(fs[i], frames[i])
       /\ fs[i].fired => fs[i].handle = "none"

\* With them, as many cancels are counted as before, but for the stops.
LEMMA SameFired ==
  ASSUME CountInv, SameClocks(frames'),
         \/ UNCHANGED <<cancels, stops>>
         \/ cancels' = cancels + 1 /\ stops' = stops + 1
  PROVE  CountInv' /\ Carried
<1>1. Fired' = Fired
  BY DEF SameClocks, Alike, Fired, Clocks, Depth
<1>2. Handles'
  BY DEF SameClocks, Alike, Handles, Depth
<1>3. Cardinality(Fired) \in Nat
  BY FiredFinite DEF CountInv
<1>4. cancels' \in Nat /\ stops' \in Nat
  BY DEF CountInv
<1>5. CancelsCounted'
  BY <1>1, <1>3 DEF CountInv, CancelsCounted
<1>6. Carried
  BY <1>1 DEF CountInv, SameClocks, Alike, Carried, Above, Clocks, Depth
<1> QED
  BY <1>2, <1>4, <1>5, <1>6 DEF CountInv, SameClocks

LEMMA KeptClocks ==
  ASSUME CountInv
  PROVE  SameClocks(frames)
  BY DEF CountInv, Handles, SameClocks, Alike, Depth

\* One clock going is one cancel more.
LEMMA OneFired ==
  ASSUME CountInv, NEW i \in Clocks, ~frames[i].fired, NEW f \in Frame,
         f.armed, f.fired, f.handle = "none",
         f.cancelling = frames[i].cancelling, f.stops = frames[i].stops,
         frames' = [frames EXCEPT ![i] = f], cancels' = cancels + 1, stops' = stops
  PROVE  CountInv' /\ Carried
<1>1. i \in 1..Len(frames)
  BY DEF Clocks, Depth
<1>2. /\ frames' \in Seq(Frame)
      /\ Len(frames') = Len(frames)
      /\ \A j \in 1..Len(frames) : frames'[j] = IF j = i THEN f ELSE frames[j]
  BY <1>1, ExceptSeq DEF CountInv
<1>3. Fired' = Fired \cup {i}
  BY <1>1, <1>2 DEF Fired, Clocks, Depth
<1>4. i \notin Fired
  BY DEF Fired
<1>5. Cardinality(Fired') = Cardinality(Fired) + 1 /\ Cardinality(Fired) \in Nat
  BY <1>3, <1>4, FiredFinite, FS_AddElement DEF CountInv
<1>6. Handles'
  BY <1>2 DEF CountInv, Handles, Depth
<1>7. cancels' \in Nat /\ stops' \in Nat
  BY DEF CountInv
<1>8. CancelsCounted'
  BY <1>5 DEF CountInv, CancelsCounted
<1>9. Carried
  BY <1>1, <1>2, <1>3 DEF CountInv, Carried, Above, Clocks, Depth
<1> QED
  BY <1>2, <1>6, <1>7, <1>8, <1>9 DEF CountInv

\* A frame changed in what is no part of its clock's count.
LEMMA OneChanged ==
  ASSUME CountInv, NEW i \in 1..Depth, NEW f \in Frame,
         Alike(f, frames[i]),
         f.fired => f.handle = "none"
  PROVE  SameClocks([frames EXCEPT ![i] = f])
<1> DEFINE fs == [frames EXCEPT ![i] = f]
<1>1. /\ fs \in Seq(Frame)
      /\ Len(fs) = Len(frames)
      /\ \A j \in 1..Len(frames) : fs[j] = IF j = i THEN f ELSE frames[j]
  BY ExceptSeq DEF CountInv, Depth
<1> HIDE DEF fs
<1>2. SameClocks(fs)
  BY <1>1 DEF CountInv, Handles, SameClocks, Alike, Depth
<1> QED
  BY <1>2 DEF fs

\* A turn counted in or out has no clock go.
LEMMA TurnedClocks ==
  ASSUME CountInv, NEW depth, NEW delta \in {1, -1}
  PROVE  /\ SameClocks(Turned(depth, delta))
         /\ \A i \in 1..Depth : Turned(depth, delta)[i].caught = frames[i].caught
<1> DEFINE one(i) == IF i <= depth /\ frames[i].armed
                       THEN AfterTurns([frames[i] EXCEPT !.inflight = @ + delta])
                       ELSE frames[i]
<1>1. Depth \in Nat /\ \A i \in 1..Depth : frames[i] \in Frame
  BY LenProperties, ElementOfSeq DEF CountInv, Depth
<1>2. ASSUME NEW f \in Frame
      PROVE  /\ AfterTurns(f) \in Frame
             /\ Alike(AfterTurns(f), f)
             /\ f.fired => AfterTurns(f).handle = f.handle
             /\ AfterTurns(f).caught = f.caught
  BY DEF AfterTurns, Frame, Handle, Alike
<1>3. ASSUME NEW f \in Frame
      PROVE  /\ [f EXCEPT !.inflight = @ + delta] \in Frame
             /\ Alike([f EXCEPT !.inflight = @ + delta], f)
             /\ [f EXCEPT !.inflight = @ + delta].handle = f.handle
             /\ [f EXCEPT !.inflight = @ + delta].caught = f.caught
  BY DEF Frame, Alike
<1>4. ASSUME NEW i \in 1..Depth
      PROVE  /\ one(i) \in Frame
             /\ Alike(one(i), frames[i])
             /\ one(i).fired => one(i).handle = "none"
             /\ one(i).caught = frames[i].caught
  <2>1. frames[i] \in Frame /\ (frames[i].fired => frames[i].handle = "none")
    BY <1>1 DEF CountInv, Handles
  <2>2. CASE i <= depth /\ frames[i].armed
    <3> DEFINE f == [frames[i] EXCEPT !.inflight = @ + delta]
    <3>1. /\ f \in Frame /\ Alike(f, frames[i]) /\ f.handle = frames[i].handle
          /\ f.caught = frames[i].caught
      BY <1>3, <2>1
    <3>2. one(i) = AfterTurns(f)
      BY <2>2
    <3> HIDE DEF f
    <3>3. /\ AfterTurns(f) \in Frame /\ Alike(AfterTurns(f), f)
          /\ f.fired => AfterTurns(f).handle = f.handle
          /\ AfterTurns(f).caught = f.caught
      BY <1>2, <3>1
    <3> HIDE DEF one
    <3> QED
      BY <2>1, <3>1, <3>2, <3>3 DEF Alike
  <2>3. CASE ~(i <= depth /\ frames[i].armed)
    BY <2>1, <2>3 DEF Alike
  <2> QED
    BY <2>2, <2>3
<1> HIDE DEF one
<1> DEFINE fs == [i \in 1..Depth |-> one(i)]
<1>5. fs \in Seq(Frame) /\ Len(fs) = Depth
  BY <1>1, <1>4
<1>6. SameClocks(fs) /\ \A i \in 1..Depth : fs[i].caught = frames[i].caught
  BY <1>4, <1>5 DEF SameClocks
<1>7. fs = Turned(depth, delta)
  BY DEF fs, one, Turned
<1> QED
  BY <1>6, <1>7

\* Nor has what a flow was raised.
LEMMA CaughtSeq ==
  ASSUME NEW fs \in Seq(Frame), NEW i
  PROVE  LET to == [fs EXCEPT ![i].caught = TRUE]
         IN /\ to \in Seq(Frame)
            /\ Len(to) = Len(fs)
            /\ \A j \in 1..Len(fs) :
                 /\ Alike(to[j], fs[j])
                 /\ Minding(to[j], fs[j])
                 /\ to[j].caught => fs[j].caught \/ j = i
<1> DEFINE to == [fs EXCEPT ![i].caught = TRUE]
<1>1. Len(fs) \in Nat /\ DOMAIN fs = 1..Len(fs) /\ \A j \in 1..Len(fs) : fs[j] \in Frame
  BY LenProperties, ElementOfSeq
<1>2. ASSUME NEW f \in Frame
      PROVE  /\ [f EXCEPT !.caught = TRUE] \in Frame
             /\ Alike([f EXCEPT !.caught = TRUE], f)
             /\ Minding([f EXCEPT !.caught = TRUE], f)
  BY DEF Frame, Alike, Minding
<1>3. CASE i \in 1..Len(fs)
  <2>1. to = [fs EXCEPT ![i] = [fs[i] EXCEPT !.caught = TRUE]]
    OBVIOUS
  <2>2. [fs[i] EXCEPT !.caught = TRUE] \in Frame
    BY <1>1, <1>2, <1>3
  <2>3. /\ to \in Seq(Frame)
        /\ Len(to) = Len(fs)
        /\ \A j \in 1..Len(fs) :
             to[j] = IF j = i THEN [fs[i] EXCEPT !.caught = TRUE] ELSE fs[j]
    BY <1>3, <2>1, <2>2, ExceptSeq
  <2> HIDE DEF to
  <2>4. /\ Alike([fs[i] EXCEPT !.caught = TRUE], fs[i])
        /\ Minding([fs[i] EXCEPT !.caught = TRUE], fs[i])
    BY <1>1, <1>2, <1>3
  <2>5. \A j \in 1..Len(fs) : /\ Alike(to[j], fs[j])
                              /\ Minding(to[j], fs[j])
                              /\ to[j].caught => fs[j].caught \/ j = i
    BY <2>3, <2>4 DEF Alike, Minding
  <2>6. /\ to \in Seq(Frame)
        /\ Len(to) = Len(fs)
        /\ \A j \in 1..Len(fs) : /\ Alike(to[j], fs[j])
                                 /\ Minding(to[j], fs[j])
                                 /\ to[j].caught => fs[j].caught \/ j = i
    BY <2>3, <2>5
  <2> QED
    BY <2>6 DEF to
<1>4. CASE i \notin 1..Len(fs)
  <2>1. to = [j \in 1..Len(fs) |-> fs[j]]
    BY <1>1, <1>4
  <2>2. fs = [j \in 1..Len(fs) |-> fs[j]]
    BY LenProperties
  <2>3. to = fs
    BY <2>1, <2>2
  <2> QED
    BY <2>3 DEF Alike, Minding
<1> QED
  BY <1>3, <1>4

LEMMA CaughtClocks ==
  ASSUME NEW fs, SameClocks(fs), NEW i
  PROVE  SameClocks([fs EXCEPT ![i].caught = TRUE])
<1> DEFINE to == [fs EXCEPT ![i].caught = TRUE]
<1>1. /\ to \in Seq(Frame)
      /\ Len(to) = Len(fs)
      /\ \A j \in 1..Len(fs) :
           /\ Alike(to[j], fs[j])
           /\ Minding(to[j], fs[j])
  BY CaughtSeq DEF SameClocks
<1> HIDE DEF to
<1>2. SameClocks(to)
  BY <1>1 DEF SameClocks, Alike, Minding
<1> QED
  BY <1>2 DEF to

LEMMA ClockMade ==
  ASSUME cancels \in Nat, stops \in Nat, NEW f \in Frame, ~f.fired, ~f.caught,
         NEW graceful \in BOOLEAN
  PROVE  LET g == [f EXCEPT !.armed = TRUE, !.graceful = graceful, !.handle = "timer",
                            !.cancelling = cancels, !.stops = stops]
         IN  g \in Frame /\ ~g.fired /\ ~g.caught /\ g.cancelling = cancels /\ g.stops = stops
  BY DEF Frame, Handle

LEMMA NewClock ==
  ASSUME cancels \in Nat, stops \in Nat, NEW f \in {NoClock, Armed(TRUE), Armed(FALSE)}
  PROVE  /\ f \in Frame /\ ~f.fired /\ ~f.caught
         /\ f.armed => f.cancelling = cancels /\ f.stops = stops
<1>1. NoClock \in Frame /\ ~NoClock.fired /\ ~NoClock.caught /\ ~NoClock.armed
  BY DEF NoClock, Frame, Handle
<1>2. \A graceful \in BOOLEAN :
        /\ Armed(graceful) \in Frame /\ ~Armed(graceful).fired /\ ~Armed(graceful).caught
        /\ Armed(graceful).cancelling = cancels /\ Armed(graceful).stops = stops
  BY <1>1, ClockMade DEF Armed
<1> QED
  BY <1>1, <1>2

\* A call made has not gone yet.
LEMMA CallCount ==
  ASSUME CountInv, NEW f \in {NoClock, Armed(TRUE), Armed(FALSE)}, CallFlow(f)
  PROVE  /\ CountInv'
         /\ Len(frames') = Len(frames) + 1 /\ frames'[Len(frames) + 1] = f
         /\ \A i \in 1..Len(frames) : frames'[i] = frames[i]
         /\ Fired' = Fired
<1>1. f \in Frame /\ ~f.fired
  BY NewClock DEF CountInv
<1>2. frames' = Append(frames, f) /\ UNCHANGED <<cancels, stops>>
  BY DEF CallFlow
<1>3. Len(frames) \in Nat
  BY LenProperties DEF CountInv
<1>4. /\ frames' \in Seq(Frame) /\ Len(frames') = Len(frames) + 1
      /\ frames'[Len(frames) + 1] = f
      /\ \A i \in 1..Len(frames) : frames'[i] = frames[i]
  BY <1>1, <1>2, <1>3 DEF CountInv
<1>5. Fired' = Fired
  BY <1>1, <1>3, <1>4 DEF Fired, Clocks, Depth
<1>6. Handles'
  BY <1>1, <1>3, <1>4 DEF CountInv, Handles, Depth
<1> QED
  BY <1>2, <1>4, <1>5, <1>6 DEF CountInv, CancelsCounted

\* A call left takes its clock with it, and no other; a cancel that goes on is one the flow
\* that called it is raised.
LEMMA LeftClocks ==
  ASSUME CountInv, NEW with \in Raised, NEW waits \in BOOLEAN, Leave(with, waits)
  PROVE  /\ Depth \in Nat \ {0}
         /\ frames' \in Seq(Frame) /\ Len(frames') = Depth - 1
         /\ \A i \in 1..(Depth - 1) :
              /\ Alike(frames'[i], frames[i])
              /\ Minding(frames'[i], frames[i])
              /\ frames'[i].caught => frames[i].caught \/ (i = Depth - 1 /\ raising' = "cancelled")
         /\ Fired' = Fired \ {Depth}
<1> DEFINE left == SubSeq(frames, 1, Depth - 1)
<1>1. Depth \in Nat \ {0}
  BY LenProperties DEF Leave, CountInv, Depth
<1>2. \A i \in 1..Depth : frames[i] \in Frame
  BY ElementOfSeq DEF CountInv, Depth
<1>3. /\ left \in Seq(Frame) /\ Len(left) = Depth - 1
      /\ \A i \in 1..(Depth - 1) : left[i] = frames[i]
  BY <1>1, <1>2, SubSeqProperties
<1>4. \/ frames' = left
      \/ raising' = "cancelled" /\ frames' = [left EXCEPT ![Depth - 1].caught = TRUE]
  BY DEF Leave
<1> HIDE DEF left
<1>5. /\ frames' \in Seq(Frame) /\ Len(frames') = Depth - 1
      /\ \A i \in 1..(Depth - 1) :
           /\ Alike(frames'[i], frames[i])
           /\ Minding(frames'[i], frames[i])
           /\ frames'[i].caught => frames[i].caught \/ (i = Depth - 1 /\ raising' = "cancelled")
  <2>1. CASE frames' = left
    BY <1>3, <2>1 DEF Alike, Minding
  <2>2. CASE raising' = "cancelled" /\ frames' = [left EXCEPT ![Depth - 1].caught = TRUE]
    <3>1. /\ [left EXCEPT ![Depth - 1].caught = TRUE] \in Seq(Frame)
          /\ Len([left EXCEPT ![Depth - 1].caught = TRUE]) = Len(left)
          /\ \A j \in 1..Len(left) :
               /\ Alike([left EXCEPT ![Depth - 1].caught = TRUE][j], left[j])
               /\ Minding([left EXCEPT ![Depth - 1].caught = TRUE][j], left[j])
               /\ [left EXCEPT ![Depth - 1].caught = TRUE][j].caught =>
                    left[j].caught \/ j = Depth - 1
      BY <1>3, CaughtSeq
    <3> QED
      BY <1>3, <2>2, <3>1 DEF Alike, Minding
  <2> QED
    BY <1>4, <2>1, <2>2
<1>6. Fired' = Fired \ {Depth}
  BY <1>1, <1>5 DEF Fired, Clocks, Depth, Alike
<1> QED
  BY <1>1, <1>5, <1>6

\* A call left takes back the cancel its clock sent, and the clock with it.
LEMMA LeaveCount ==
  ASSUME CountInv, NEW with \in Raised, NEW waits \in BOOLEAN, Leave(with, waits)
  PROVE  CountInv' /\ Carried
<1>1. /\ Depth \in Nat \ {0}
      /\ frames' \in Seq(Frame) /\ Len(frames') = Depth - 1
      /\ \A i \in 1..(Depth - 1) : /\ Alike(frames'[i], frames[i])
                                   /\ Minding(frames'[i], frames[i])
      /\ Fired' = Fired \ {Depth}
  BY LeftClocks
<1>2. cancels' = TakenBack(frames[Depth]) /\ stops' = stops
  BY DEF Leave
<1>3. Depth \in Fired <=> frames[Depth].armed /\ frames[Depth].fired
  BY <1>1 DEF Fired, Clocks
<1>4. cancels' = IF Depth \in Fired THEN cancels - 1 ELSE cancels
  BY <1>2, <1>3 DEF TakenBack
<1>5. /\ Cardinality(Fired) \in Nat
      /\ Cardinality(Fired') = IF Depth \in Fired THEN Cardinality(Fired) - 1
                                                 ELSE Cardinality(Fired)
      /\ Cardinality(Fired') \in Nat
  <2>1. IsFiniteSet(Fired) /\ Cardinality(Fired) \in Nat
    BY FiredFinite DEF CountInv
  <2>2. CASE Depth \in Fired
    <3>1. /\ IsFiniteSet(Fired \ {Depth})
          /\ Cardinality(Fired \ {Depth}) = Cardinality(Fired) - 1
      BY <2>1, <2>2, FS_RemoveElement
    <3> QED
      BY <1>1, <2>1, <2>2, <3>1, FS_CardinalityType
  <2>3. CASE Depth \notin Fired
    <3>1. Fired \ {Depth} = Fired
      BY <2>3
    <3> QED
      BY <1>1, <2>1, <2>3, <3>1
  <2> QED
    BY <2>2, <2>3
<1>6. stops \in Nat /\ cancels = stops + Cardinality(Fired)
  BY DEF CountInv, CancelsCounted
<1>7. cancels' = stops' + Cardinality(Fired') /\ cancels' \in Nat /\ stops' \in Nat
  BY <1>2, <1>4, <1>5, <1>6
<1>8. Handles'
  <2>1. Depth' = Depth - 1
    BY <1>1 DEF Depth
  <2> QED
    BY <1>1, <2>1 DEF CountInv, Handles, Alike, Minding
<1>9. Carried
  BY <1>1, <1>2 DEF CountInv, Carried, Above, Clocks, Depth, Alike
<1> QED
  BY <1>1, <1>7, <1>8, <1>9 DEF CountInv, CancelsCounted

\* A clock that expires goes at once, or waits for the turns under its call.
LEMMA ExpireCount ==
  ASSUME CountInv, NEW i \in 1..MaxDepth, Expire(i)
  PROVE  CountInv' /\ Carried
<1> DEFINE f == [frames[i] EXCEPT !.handle = "none", !.expired = TRUE, !.spared = Under(i)]
           g == [f EXCEPT !.fired = TRUE]
<1>1. i \in 1..Depth /\ i \in Clocks /\ frames[i] \in Frame /\ frames[i].handle = "timer"
  BY ElementOfSeq DEF Expire, Clocks, CountInv, Depth
<1>2. ~frames[i].fired /\ frames[i].armed
  BY <1>1 DEF CountInv, Handles, Clocks
<1>3. Under(i) \in SUBSET Turn
  BY DEF Under
<1>4. f \in Frame /\ Alike(f, frames[i]) /\ f.handle = "none"
  BY <1>1, <1>3 DEF Frame, Handle, Alike
<1>5. /\ g \in Frame /\ g.fired /\ g.handle = "none"
      /\ g.armed = f.armed /\ g.cancelling = f.cancelling /\ g.stops = f.stops
  BY <1>4 DEF Frame, Handle
<1>6. \/ frames' = [frames EXCEPT ![i] = f] /\ cancels' = cancels
      \/ frames' = [frames EXCEPT ![i] = g] /\ cancels' = cancels + 1
  BY DEF Expire, Cancel
<1>7. stops' = stops
  BY DEF Expire
<1> HIDE DEF f, g
<1>8. CASE frames' = [frames EXCEPT ![i] = f] /\ cancels' = cancels
  <2>1. SameClocks([frames EXCEPT ![i] = f])
    BY <1>1, <1>4, OneChanged
  <2> QED
    BY <1>7, <1>8, <2>1, SameFired
<1>9. CASE frames' = [frames EXCEPT ![i] = g] /\ cancels' = cancels + 1
  BY <1>1, <1>2, <1>4, <1>5, <1>7, <1>9, OneFired DEF Alike
<1> QED
  BY <1>6, <1>8, <1>9

LEMMA FireCount ==
  ASSUME CountInv, NEW i \in 1..MaxDepth, Fire(i)
  PROVE  CountInv' /\ Carried
<1> DEFINE g == [frames[i] EXCEPT !.handle = "none", !.fired = TRUE]
<1>1. i \in 1..Depth /\ i \in Clocks /\ frames[i] \in Frame /\ frames[i].handle = "soon"
  BY ElementOfSeq DEF Fire, Clocks, CountInv, Depth
<1>2. ~frames[i].fired /\ frames[i].armed
  BY <1>1 DEF CountInv, Handles, Clocks
<1>3. /\ g \in Frame /\ g.armed = frames[i].armed /\ g.fired /\ g.handle = "none"
      /\ g.cancelling = frames[i].cancelling /\ g.stops = frames[i].stops
  BY <1>1 DEF Frame, Handle
<1>4. frames' = [frames EXCEPT ![i] = g] /\ cancels' = cancels + 1 /\ stops' = stops
  BY DEF Fire, Cancel
<1> HIDE DEF g
<1> QED
  BY <1>1, <1>2, <1>3, <1>4, OneFired

LEMMA PassCount ==
  ASSUME CountInv, NEW i \in 1..MaxDepth, Pass(i)
  PROVE  CountInv' /\ Carried
<1> DEFINE f == [frames[i] EXCEPT !.due = TRUE]
<1>1. i \in 1..Depth /\ frames[i] \in Frame
  BY ElementOfSeq DEF Pass, Clocks, CountInv, Depth
<1>2. f \in Frame /\ Alike(f, frames[i]) /\ f.handle = frames[i].handle
  BY <1>1 DEF Frame, Handle, Alike
<1>3. frames' = [frames EXCEPT ![i] = f] /\ UNCHANGED <<cancels, stops>>
  BY DEF Pass
<1>4. f.fired => f.handle = "none"
  BY <1>1, <1>2 DEF CountInv, Handles, Alike
<1> HIDE DEF f
<1>5. SameClocks([frames EXCEPT ![i] = f])
  BY <1>1, <1>2, <1>4, OneChanged
<1> QED
  BY <1>3, <1>5, SameFired

LEMMA InitCount == Init => CountInv
<1> SUFFICES ASSUME Init PROVE CountInv
  OBVIOUS
<1>1. PICK f \in {NoClock, Armed(TRUE), Armed(FALSE)} : frames = <<f>>
  BY DEF Init
<1>2. f \in Frame /\ ~f.fired
  BY NewClock DEF Init
<1>3. frames \in Seq(Frame) /\ Len(frames) = 1 /\ frames[1] = f
  BY <1>1, <1>2
<1>4. Fired = {} /\ Handles
  BY <1>2, <1>3 DEF Fired, Clocks, Depth, Handles
<1> QED
  BY <1>3, <1>4, FS_EmptySet DEF Init, CountInv, CancelsCounted

\* Every step but a call made leaves the clocks their baselines.
Called == \E f \in {NoClock, Armed(TRUE), Armed(FALSE)} : CallFlow(f)

LEMMA NextCount == CountInv /\ [Next]_vars => CountInv' /\ (Carried \/ Called)
<1> SUFFICES ASSUME CountInv, [Next]_vars PROVE CountInv' /\ (Carried \/ Called)
  OBVIOUS
<1>1. UNCHANGED <<frames, cancels, stops>> => CountInv' /\ Carried
  BY KeptClocks, SameFired
<1>2. ASSUME NEW i \in 1..MaxDepth, Pass(i) \/ Expire(i) \/ Fire(i)
      PROVE  CountInv' /\ Carried
  BY <1>2, PassCount, ExpireCount, FireCount
<1>3. CASE Stop
  BY <1>3, KeptClocks, SameFired DEF Stop, Cancel
<1>4. ASSUME NEW f \in {NoClock, Armed(TRUE), Armed(FALSE)}, CallFlow(f)
      PROVE  CountInv' /\ Called
  BY <1>4, CallCount DEF Called
<1>5. CASE Await \/ Resume \/ TakeTurn \/ Catch \/ Finish
  BY <1>1, <1>5 DEF Await, Resume, TakeTurn, Catch, Finish
<1>6. CASE TurnGoes
  BY <1>6, TurnedClocks, SameFired DEF TurnGoes
<1>7. CASE TurnEnds
  BY <1>7, TurnedClocks, SameFired DEF TurnEnds
<1>8. CASE Deliver
  <2>1. PICK fs : /\ SameClocks(fs)
                  /\ frames' = [fs EXCEPT ![Depth].caught = TRUE]
    <3>1. CASE turn[Main].stage = "going"
      BY <1>8, <3>1, TurnedClocks DEF Deliver
    <3>2. CASE turn[Main].stage # "going"
      BY <1>8, <3>2, KeptClocks DEF Deliver
    <3> QED
      BY <3>1, <3>2
  <2>2. SameClocks(frames')
    BY <2>1, CaughtClocks
  <2> QED
    BY <1>8, <2>2, SameFired DEF Deliver
<1>9. ASSUME NEW with \in Raised, NEW waits \in BOOLEAN, Leave(with, waits)
      PROVE  CountInv' /\ Carried
  BY <1>9, LeaveCount
<1>10. ASSUME NEW t \in Side, NEW depth \in 1..MaxDepth, SideOpens(t, depth)
       PROVE  CountInv' /\ Carried
  BY <1>1, <1>10 DEF SideOpens
<1>11. ASSUME NEW t \in Side, SideGoes(t)
       PROVE  CountInv' /\ Carried
  BY <1>11, TurnedClocks, SameFired DEF SideGoes
<1>12. ASSUME NEW t \in Side, SideEnds(t)
       PROVE  CountInv' /\ Carried
  BY <1>12, KeptClocks, TurnedClocks, SameFired DEF SideEnds
<1>13. CASE UNCHANGED vars
  BY <1>1, <1>13 DEF vars
<1> QED
  BY <1>2, <1>3, <1>4, <1>5, <1>6, <1>7, <1>8, <1>9, <1>10, <1>11, <1>12, <1>13 DEF Next

\* Whatever stops and deadlines come to whatever calls, the cancels the task counts are those
\* asked from outside and those a clock will take back (_Clock.settle, _Clock.stop).
THEOREM Counting == Spec => []CancelsCounted
<1>1. CountInv => CancelsCounted
  BY DEF CountInv
<1> QED
  BY InitCount, NextCount, <1>1, PTL DEF Spec

-----------------------------------------------------------------------------
(* Whose a cancel is. *)

\* The cancels a clock found asked for were stops, and cancels of clocks above it.
Baselines ==
  \A i \in Clocks : /\ frames[i].stops <= stops
                     /\ frames[i].cancelling <= frames[i].stops + Cardinality(Above(i))

BaseInv == CountInv /\ Baselines

LEMMA AboveFinite ==
  ASSUME CountInv, NEW i
  PROVE  IsFiniteSet(Above(i)) /\ Cardinality(Above(i)) \in Nat
<1>1. Above(i) \subseteq Fired
  BY DEF Above
<1> QED
  BY <1>1, FiredFinite, FS_Subset, FS_CardinalityType DEF CountInv

LEMMA ClockTyped ==
  ASSUME CountInv, NEW i \in Clocks
  PROVE  frames[i].stops \in Nat /\ frames[i].cancelling \in Nat
<1>1. frames[i] \in Frame
  BY ElementOfSeq DEF CountInv, Clocks, Depth
<1> QED
  BY <1>1 DEF Frame

LEMMA InitBase == Init => BaseInv
<1> SUFFICES ASSUME Init PROVE BaseInv
  OBVIOUS
<1>1. CountInv
  BY InitCount
<1>2. PICK f \in {NoClock, Armed(TRUE), Armed(FALSE)} : frames = <<f>>
  BY DEF Init
<1>3. f.armed => f.stops = 0 /\ f.cancelling = 0
  BY NewClock DEF Init
<1>4. \A i \in Clocks : frames[i].stops = 0 /\ frames[i].cancelling = 0
  BY <1>2, <1>3 DEF Clocks, Depth
<1>5. Baselines
  BY <1>1, <1>4, AboveFinite DEF Init, Baselines
<1> QED
  BY <1>1, <1>5 DEF BaseInv

LEMMA CarriedBase ==
  ASSUME BaseInv, CountInv', Carried
  PROVE  Baselines'
<1> SUFFICES ASSUME NEW i \in Clocks'
             PROVE  /\ frames'[i].stops <= stops'
                    /\ frames'[i].cancelling <= frames'[i].stops + Cardinality(Above(i)')
  BY DEF Baselines
<1>1. /\ i \in Clocks /\ stops <= stops'
      /\ frames'[i].stops = frames[i].stops
      /\ frames'[i].cancelling = frames[i].cancelling
      /\ Above(i) \subseteq Above(i)'
  BY DEF Carried
<1>2. IsFiniteSet(Above(i)') /\ Cardinality(Above(i)') \in Nat
  <2>1. Len(frames') \in Nat
    BY LenProperties DEF CountInv
  <2>2. IsFiniteSet(1..Len(frames'))
    BY <2>1, FS_Interval
  <2>3. Above(i)' \subseteq 1..Len(frames')
    BY DEF Above, Fired, Clocks, Depth
  <2> QED
    BY <2>2, <2>3, FS_Subset, FS_CardinalityType
<1>3. Cardinality(Above(i)) <= Cardinality(Above(i)') /\ Cardinality(Above(i)) \in Nat
  BY <1>1, <1>2, AboveFinite, FS_Subset DEF BaseInv
<1>4. /\ frames[i].stops <= stops
      /\ frames[i].cancelling <= frames[i].stops + Cardinality(Above(i))
  BY <1>1 DEF BaseInv, Baselines
<1>5. frames[i].stops \in Nat /\ frames[i].cancelling \in Nat /\ stops \in Nat /\ stops' \in Nat
  BY <1>1, ClockTyped DEF BaseInv, CountInv
<1> QED
  BY <1>1, <1>2, <1>3, <1>4, <1>5

\* The clock of a call made finds what CancelsCounted says.
LEMMA CalledBase ==
  ASSUME BaseInv, Called
  PROVE  Baselines'
<1>1. PICK f \in {NoClock, Armed(TRUE), Armed(FALSE)} : CallFlow(f)
  BY DEF Called
<1>2. f \in Frame /\ ~f.fired
  BY NewClock DEF BaseInv, CountInv
<1>3. f.armed => f.stops = stops /\ f.cancelling = cancels
  BY NewClock DEF BaseInv, CountInv
<1>4. frames' = Append(frames, f) /\ UNCHANGED <<cancels, stops>>
  BY <1>1 DEF CallFlow
<1>5. Len(frames) \in Nat /\ frames \in Seq(Frame)
  BY LenProperties DEF BaseInv, CountInv
<1>6. /\ Len(frames') = Len(frames) + 1
      /\ frames'[Len(frames) + 1] = f
      /\ \A i \in 1..Len(frames) : frames'[i] = frames[i]
  BY <1>2, <1>4, <1>5
<1>7. Fired' = Fired
  BY <1>2, <1>5, <1>6 DEF Fired, Clocks, Depth
<1>8. ASSUME NEW i \in Clocks'
      PROVE  /\ frames'[i].stops <= stops'
             /\ frames'[i].cancelling <= frames'[i].stops + Cardinality(Above(i)')
  <2>1. Above(i)' = Above(i)
    BY <1>7 DEF Above
  <2>2. CASE i = Depth + 1
    <3>1. Above(i) = Fired
      BY <1>5, <2>2 DEF Above, Fired, Clocks, Depth
    <3>2. frames'[i] = f /\ f.armed
      BY <1>6, <2>2 DEF Clocks, Depth
    <3> QED
      BY <1>3, <1>4, <2>1, <3>1, <3>2, FiredFinite DEF BaseInv, CountInv, CancelsCounted
  <2>3. CASE i # Depth + 1
    <3>1. i \in Clocks /\ frames'[i] = frames[i]
      BY <1>5, <1>6, <2>3 DEF Clocks, Depth
    <3> QED
      BY <1>4, <2>1, <3>1 DEF BaseInv, Baselines
  <2> QED
    BY <2>2, <2>3
<1> QED
  BY <1>8 DEF Baselines

LEMMA NextBase == BaseInv /\ [Next]_vars => BaseInv'
  BY NextCount, CarriedBase, CalledBase DEF BaseInv

\* A call whose clock takes a cancel for its deadline's was not stopped while it went.
LEMMA SettledUnstopped ==
  ASSUME BaseInv, Depth > 0, Settled(frames[Depth])
  PROVE  stops = frames[Depth].stops
<1>1. Depth \in Fired /\ Depth \in Clocks
  BY LenProperties DEF BaseInv, CountInv, Settled, Fired, Clocks, Depth
<1>2. Above(Depth) = Fired \ {Depth}
  BY LenProperties DEF BaseInv, CountInv, Above, Fired, Clocks, Depth
<1>3. Cardinality(Above(Depth)) = Cardinality(Fired) - 1 /\ Cardinality(Fired) \in Nat
  BY <1>1, <1>2, FiredFinite, FS_RemoveElement DEF BaseInv, CountInv
<1>4. cancels - 1 <= frames[Depth].cancelling
  BY DEF Settled, TakenBack
<1>5. /\ frames[Depth].stops <= stops
      /\ frames[Depth].cancelling <= frames[Depth].stops + Cardinality(Above(Depth))
  BY <1>1 DEF BaseInv, Baselines
<1>6. cancels = stops + Cardinality(Fired) /\ cancels \in Nat /\ stops \in Nat
  BY DEF BaseInv, CountInv, CancelsCounted
<1>7. frames[Depth].stops \in Nat /\ frames[Depth].cancelling \in Nat
  BY <1>1, ClockTyped, SMTT(40) DEF BaseInv
<1> QED
  BY <1>3, <1>4, <1>5, <1>6, <1>7

\* Only a call left by a cancel its clock takes for its own raises its deadline.
LEMMA OnlySettles ==
  ASSUME [Next]_vars, raising # "duration", raising' = "duration"
  PROVE  Depth > 0 /\ Settled(frames[Depth])
<1>1. ASSUME NEW with \in Raised, NEW waits \in BOOLEAN, Leave(with, waits)
      PROVE  Depth > 0 /\ Settled(frames[Depth])
  <2>1. with # "duration" /\ Depth > 0
    BY <1>1 DEF Leave
  <2>2. raising' = IF with = "cancelled" /\ Settled(frames[Depth]) THEN "duration" ELSE with
    BY <1>1 DEF Leave
  <2> QED
    BY <2>1, <2>2
<1>2. CASE \E with \in Raised, waits \in BOOLEAN : Leave(with, waits)
  BY <1>1, <1>2
<1>3. CASE raising' \in {raising, "none", "cancelled"}
  BY <1>3
<1> QED
  BY <1>2, <1>3
     DEF Next, vars, Pass, Expire, Fire, Stop, CallFlow, Await, Resume, TakeTurn, TurnGoes,
         TurnEnds, Deliver, Catch, Finish, SideOpens, SideGoes, SideEnds

\* No stop asked while a clock was there leaves its call as the deadline's, whatever stops
\* and deadlines fell together (_Clock.settle).
THEOREM Masking == Spec => StopNotMasked
<1>1. BaseInv /\ [Next]_vars
        => [Leaves /\ raising # "duration" /\ raising' = "duration"
              => stops = frames[Depth].stops]_vars
  BY OnlySettles, SettledUnstopped
<1> QED
  BY InitBase, NextBase, <1>1, PTL DEF Spec, StopNotMasked

-----------------------------------------------------------------------------
(***************************************************************************)
(* Where a cancel comes from.  A CancelledError is on its way, or was      *)
(* caught by a flow, for a stop or for a clock of that flow's call or of   *)
(* one above it; a clock that goes with its call leaves no cancel behind,  *)
(* for it takes the only one there is for its deadline's.                  *)
(***************************************************************************)

Strays ==
  /\ task \in {"runs", "over"} => ~pending
  /\ stops = 0 =>
       /\ pending \/ raising = "cancelled" => Fired # {}
       /\ \A i \in 1..Depth : frames[i].caught => \E j \in Fired : j <= i

\* A clock found asked for at least the cancels that were stops.
Floors == \A i \in Clocks : frames[i].stops <= frames[i].cancelling

StrayInv == CountInv /\ Floors /\ Strays

LEMMA InitStray == Init => StrayInv
<1> SUFFICES ASSUME Init PROVE StrayInv
  OBVIOUS
<1>1. CountInv
  BY InitCount
<1>2. PICK f \in {NoClock, Armed(TRUE), Armed(FALSE)} : frames = <<f>>
  BY DEF Init
<1>3. ~f.caught /\ (f.armed => f.stops = 0 /\ f.cancelling = 0)
  BY NewClock DEF Init
<1>4. Floors
  BY <1>2, <1>3 DEF Floors, Clocks, Depth
<1>5. Strays
  BY <1>2, <1>3 DEF Init, Strays, Depth
<1> QED
  BY <1>1, <1>4, <1>5 DEF StrayInv

LEMMA NextFloors ==
  ASSUME StrayInv, [Next]_vars
  PROVE  Floors'
<1>1. CASE Carried
  BY <1>1 DEF StrayInv, Floors, Carried
<1>2. ASSUME NEW f \in {NoClock, Armed(TRUE), Armed(FALSE)}, CallFlow(f)
      PROVE  Floors'
  <2>1. f.armed => f.cancelling = cancels /\ f.stops = stops
    BY NewClock DEF StrayInv, CountInv
  <2>2. stops <= cancels
    BY FiredFinite DEF StrayInv, CountInv, CancelsCounted
  <2>3. /\ Len(frames') = Len(frames) + 1 /\ frames'[Len(frames) + 1] = f
        /\ \A i \in 1..Len(frames) : frames'[i] = frames[i]
        /\ Len(frames) \in Nat
    BY <1>2, CallCount, LenProperties DEF StrayInv, CountInv
  <2> QED
    BY <2>1, <2>2, <2>3 DEF StrayInv, Floors, Clocks, Depth
<1> QED
  BY <1>1, <1>2, NextCount DEF StrayInv, Called

\* The last clock that went, of a call nobody stopped since, finds no cancel but its own.
LEMMA AloneSettles ==
  ASSUME CountInv, Floors, Fired = {Depth}, stops <= frames[Depth].stops
  PROVE  Settled(frames[Depth])
<1>1. Depth \in Clocks /\ frames[Depth].armed /\ frames[Depth].fired
  BY DEF Fired, Clocks
<1>2. cancels = stops + 1
  BY FS_Singleton DEF CountInv, CancelsCounted
<1>3. frames[Depth].stops \in Nat /\ frames[Depth].cancelling \in Nat /\ stops \in Nat
  BY <1>1, ClockTyped DEF CountInv
<1>4. frames[Depth].stops <= frames[Depth].cancelling
  BY <1>1 DEF Floors
<1> QED
  BY <1>1, <1>2, <1>3, <1>4 DEF Settled, TakenBack

\* A step of the loop, or one that raises nothing, leaves every cancel the clock it was for.
LEMMA StrayKept ==
  ASSUME StrayInv, Len(frames') = Len(frames), Fired \subseteq Fired', stops' = stops,
         \A i \in 1..Depth : frames'[i].caught => frames[i].caught,
         pending' => pending \/ Fired' # {},
         raising' = "cancelled" => raising = "cancelled",
         task' \in {"runs", "over"} => ~pending'
  PROVE  Strays'
<1>1. Depth' = Depth
  BY DEF Depth
<1> QED
  BY <1>1 DEF StrayInv, Strays

\* What SameClocks says of the clocks that went, of the frames of the next state.
LEMMA SameGone ==
  ASSUME SameClocks(frames')
  PROVE  Len(frames') = Len(frames) /\ Fired' = Fired
  BY DEF SameClocks, Alike, Fired, Clocks, Depth

\* One frame changed, its clock having gone or not.
LEMMA StrayOne ==
  ASSUME StrayInv, NEW i \in 1..Depth, NEW f \in Frame, frames' = [frames EXCEPT ![i] = f],
         f.armed = frames[i].armed, f.fired \/ ~frames[i].fired, f.caught = frames[i].caught,
         UNCHANGED <<raising, stops>>,
         pending' => pending \/ (f.armed /\ f.fired),
         task' \in {"runs", "over"} => ~pending'
  PROVE  Strays'
<1>1. /\ Len(frames') = Len(frames)
      /\ \A j \in 1..Len(frames) : frames'[j] = IF j = i THEN f ELSE frames[j]
  BY ExceptSeq DEF StrayInv, CountInv, Depth
<1>2. Fired \subseteq Fired' /\ (f.armed /\ f.fired => i \in Fired')
  BY <1>1 DEF Fired, Clocks, Depth
<1>3. \A j \in 1..Depth : frames'[j].caught => frames[j].caught
  BY <1>1 DEF Depth
<1>4. pending' => pending \/ Fired' # {}
  BY <1>2
<1> QED
  BY <1>1, <1>2, <1>3, <1>4, StrayKept

LEMMA ExpireStray ==
  ASSUME StrayInv, NEW i \in 1..MaxDepth, Expire(i)
  PROVE  Strays'
<1> DEFINE f == [frames[i] EXCEPT !.handle = "none", !.expired = TRUE, !.spared = Under(i)]
           g == [f EXCEPT !.fired = TRUE]
<1>1. i \in 1..Depth /\ frames[i] \in Frame /\ frames[i].armed /\ frames[i].handle = "timer"
  BY ElementOfSeq DEF Expire, Clocks, StrayInv, CountInv, Depth
<1>2. ~frames[i].fired
  BY <1>1 DEF StrayInv, CountInv, Handles
<1>3. Under(i) \in SUBSET Turn
  BY DEF Under
<1>4. f \in Frame /\ f.armed = frames[i].armed /\ ~f.fired /\ f.caught = frames[i].caught
  BY <1>1, <1>2, <1>3 DEF Frame, Handle
<1>5. g \in Frame /\ g.armed = frames[i].armed /\ g.fired /\ g.caught = frames[i].caught
  BY <1>4 DEF Frame
<1>6. \/ frames' = [frames EXCEPT ![i] = f] /\ pending' = pending
      \/ frames' = [frames EXCEPT ![i] = g] /\ pending' = TRUE
  BY DEF Expire, Cancel
<1>7. UNCHANGED <<task, raising, stops>> /\ task \notin {"runs", "over"}
  BY DEF Expire, Loop
<1> HIDE DEF f, g
<1>8. CASE frames' = [frames EXCEPT ![i] = f] /\ pending' = pending
  BY <1>1, <1>2, <1>4, <1>7, <1>8, StrayOne
<1>9. CASE frames' = [frames EXCEPT ![i] = g] /\ pending' = TRUE
  BY <1>1, <1>5, <1>7, <1>9, StrayOne
<1> QED
  BY <1>6, <1>8, <1>9

LEMMA FireStray ==
  ASSUME StrayInv, NEW i \in 1..MaxDepth, Fire(i)
  PROVE  Strays'
<1> DEFINE g == [frames[i] EXCEPT !.handle = "none", !.fired = TRUE]
<1>1. i \in 1..Depth /\ frames[i] \in Frame /\ frames[i].armed
  BY ElementOfSeq DEF Fire, Clocks, StrayInv, CountInv, Depth
<1>2. g \in Frame /\ g.armed = frames[i].armed /\ g.fired /\ g.caught = frames[i].caught
  BY <1>1 DEF Frame, Handle
<1>3. frames' = [frames EXCEPT ![i] = g] /\ pending' = TRUE
  BY DEF Fire, Cancel
<1>4. UNCHANGED <<task, raising, stops>> /\ task \notin {"runs", "over"}
  BY DEF Fire, Loop
<1> HIDE DEF g
<1> QED
  BY <1>1, <1>2, <1>3, <1>4, StrayOne

LEMMA PassStray ==
  ASSUME StrayInv, NEW i \in 1..MaxDepth, Pass(i)
  PROVE  Strays'
<1> DEFINE f == [frames[i] EXCEPT !.due = TRUE]
<1>1. i \in 1..Depth /\ frames[i] \in Frame
  BY ElementOfSeq DEF Pass, Clocks, StrayInv, CountInv, Depth
<1>2. /\ f \in Frame /\ f.armed = frames[i].armed /\ f.fired = frames[i].fired
      /\ f.caught = frames[i].caught
  BY <1>1 DEF Frame
<1>3. frames' = [frames EXCEPT ![i] = f] /\ UNCHANGED <<task, raising, pending, stops>>
  BY DEF Pass
<1>4. task \in {"runs", "over"} => ~pending
  BY DEF StrayInv, Strays
<1> HIDE DEF f
<1> QED
  BY <1>1, <1>2, <1>3, <1>4, StrayOne

LEMMA CallStray ==
  ASSUME StrayInv, NEW f \in {NoClock, Armed(TRUE), Armed(FALSE)}, CallFlow(f)
  PROVE  Strays'
<1>1. ~f.caught
  BY NewClock DEF StrayInv, CountInv
<1>2. /\ Len(frames') = Len(frames) + 1 /\ frames'[Len(frames) + 1] = f
      /\ \A i \in 1..Len(frames) : frames'[i] = frames[i]
      /\ Fired' = Fired /\ Len(frames) \in Nat
  BY CallCount, LenProperties DEF StrayInv, CountInv
<1>3. UNCHANGED <<task, raising, pending, stops>>
  BY DEF CallFlow
<1> QED
  BY <1>1, <1>2, <1>3 DEF StrayInv, Strays, Depth

\* The flow a cancel reaches is the one of the lowest call: the clock is of it, or above.
LEMMA DeliverStray ==
  ASSUME StrayInv, Deliver
  PROVE  Strays'
<1>1. PICK fs : /\ SameClocks(fs)
                /\ \A i \in 1..Depth : fs[i].caught = frames[i].caught
                /\ frames' = [fs EXCEPT ![Depth].caught = TRUE]
  <2>1. CASE turn[Main].stage = "going"
    BY <2>1, TurnedClocks DEF Deliver, StrayInv
  <2>2. CASE turn[Main].stage # "going"
    BY <2>2, KeptClocks DEF Deliver, StrayInv
  <2> QED
    BY <2>1, <2>2
<1>2. SameClocks(frames')
  BY <1>1, CaughtClocks
<1>3. Depth' = Depth /\ Fired' = Fired /\ Fired \subseteq 1..Depth
  BY <1>2, SameGone DEF Depth, Fired, Clocks
<1>4. \A i \in 1..Depth : frames'[i].caught => frames[i].caught \/ i = Depth
  BY <1>1, CaughtSeq DEF SameClocks
<1>5. task' = "runs" /\ pending /\ ~pending' /\ stops' = stops
  BY DEF Deliver
<1>6. Depth \in Nat
  BY LenProperties DEF StrayInv, CountInv, Depth
<1>7. ASSUME stops = 0
      PROVE  Fired # {} /\ \A i \in 1..Depth : frames'[i].caught => \E j \in Fired : j <= i
  <2>1. PICK j \in Fired : TRUE
    BY <1>5, <1>7 DEF StrayInv, Strays
  <2>2. j <= Depth
    BY <1>3, <2>1
  <2>3. \A i \in 1..Depth : frames[i].caught => \E k \in Fired : k <= i
    BY <1>7 DEF StrayInv, Strays
  <2> QED
    BY <1>4, <2>1, <2>2, <2>3
<1> QED
  BY <1>3, <1>5, <1>7 DEF Strays

\* A cancel that leaves a call is of a clock above it, or is no cancel any more.
LEMMA LeaveStray ==
  ASSUME StrayInv, NEW with \in Raised, NEW waits \in BOOLEAN, Leave(with, waits)
  PROVE  Strays'
<1>1. /\ Depth \in Nat \ {0} /\ Len(frames') = Depth - 1
      /\ \A i \in 1..(Depth - 1) :
           frames'[i].caught => frames[i].caught \/ (i = Depth - 1 /\ raising' = "cancelled")
      /\ Fired' = Fired \ {Depth}
  BY LeftClocks DEF StrayInv
<1>2. ~pending /\ ~pending' /\ stops' = stops /\ task = "runs"
  BY DEF Leave, StrayInv, Strays
<1>3. ASSUME stops = 0, raising' = "cancelled"
      PROVE  Fired \ {Depth} # {}
  <2>1. with = "cancelled" /\ ~Settled(frames[Depth])
    BY <1>3 DEF Leave
  <2>2. Fired # {}
    <3>1. raising = "cancelled" \/ frames[Depth].caught
      BY <2>1 DEF Leave
    <3> QED
      BY <1>1, <1>3, <3>1 DEF StrayInv, Strays
  <2>3. Fired # {Depth}
    <3> SUFFICES ASSUME Fired = {Depth} PROVE FALSE
      OBVIOUS
    <3>1. frames[Depth].stops \in Nat
      BY ClockTyped DEF StrayInv, Fired
    <3> QED
      BY <1>3, <2>1, <3>1, AloneSettles DEF StrayInv
  <2> QED
    BY <2>2, <2>3
<1>4. ASSUME stops = 0, NEW i \in 1..(Depth - 1), frames'[i].caught
      PROVE  \E j \in Fired \ {Depth} : j <= i
  <2>1. CASE frames[i].caught
    <3>1. PICK j \in Fired : j <= i
      BY <1>1, <1>4, <2>1 DEF StrayInv, Strays
    <3>2. j # Depth
      BY <1>1, <3>1
    <3> QED
      BY <3>1, <3>2
  <2>2. CASE i = Depth - 1 /\ raising' = "cancelled"
    <3>1. PICK j \in Fired \ {Depth} : TRUE
      BY <1>3, <1>4, <2>2
    <3>2. j \in 1..Depth
      BY DEF Fired, Clocks
    <3> QED
      BY <1>1, <2>2, <3>1, <3>2
  <2> QED
    BY <1>1, <1>4, <2>1, <2>2
<1>5. Depth' = Depth - 1
  BY <1>1 DEF Depth
<1> QED
  BY <1>1, <1>2, <1>3, <1>4, <1>5 DEF Strays

LEMMA NextStray ==
  ASSUME StrayInv, [Next]_vars
  PROVE  Strays'
<1> USE DEF StrayInv
<1>1. ASSUME UNCHANGED <<frames, stops>>, pending' => pending,
             raising' = "cancelled" => raising = "cancelled",
             task' \in {"runs", "over"} => ~pending'
      PROVE  Strays'
  BY <1>1, StrayKept DEF Fired, Clocks, Depth
<1>2. ASSUME NEW depth, NEW delta \in {1, -1}, frames' = Turned(depth, delta),
             UNCHANGED <<raising, pending, stops>>, task' \in {"runs", "over"} => ~pending'
      PROVE  Strays'
  BY <1>2, TurnedClocks, SameGone, StrayKept
<1>3. task \in {"runs", "over"} => ~pending
  BY DEF Strays
<1>4. ASSUME NEW i \in 1..MaxDepth, Pass(i) \/ Expire(i) \/ Fire(i)
      PROVE  Strays'
  BY <1>4, PassStray, ExpireStray, FireStray
<1>5. CASE Stop
  BY <1>5 DEF Stop, Cancel, Loop, Strays, CountInv
<1>6. ASSUME NEW f \in {NoClock, Armed(TRUE), Armed(FALSE)}, CallFlow(f)
      PROVE  Strays'
  BY <1>6, CallStray
<1>7. CASE Await \/ Resume \/ TakeTurn \/ Catch \/ Finish
  BY <1>1, <1>3, <1>7 DEF Await, Resume, TakeTurn, Catch, Finish, Running
<1>8. CASE TurnGoes
  BY <1>2, <1>8 DEF TurnGoes
<1>9. CASE TurnEnds
  BY <1>2, <1>9 DEF TurnEnds
<1>10. ASSUME NEW with \in Raised, NEW waits \in BOOLEAN, Leave(with, waits)
       PROVE  Strays'
  BY <1>10, LeaveStray
<1>11. ASSUME NEW t \in Side, NEW depth \in 1..MaxDepth, SideOpens(t, depth)
       PROVE  Strays'
  BY <1>1, <1>3, <1>11 DEF SideOpens
<1>12. ASSUME NEW t \in Side, SideGoes(t) \/ SideEnds(t)
       PROVE  Strays'
  BY <1>1, <1>2, <1>3, <1>12 DEF SideGoes, SideEnds
<1>13. CASE UNCHANGED vars
  BY <1>1, <1>3, <1>13 DEF vars
<1> QED
  BY <1>4, <1>5, <1>6, <1>7, <1>8, <1>9, <1>10, <1>11, <1>12, <1>13, DeliverStray DEF Next

LEMMA StrayInvariant == Spec => []StrayInv
<1>1. StrayInv /\ [Next]_vars => StrayInv'
  BY NextCount, NextFloors, NextStray DEF StrayInv
<1> QED
  BY InitStray, <1>1, PTL DEF Spec

\* A CancelledError is on its way for a stop or for a clock that has yet to be left, of any
\* depth of calls: no clock's cancel outlives the call it was for (_Clock.settle, FlowImpl).
THEOREM Cancellation == Spec => []NoStrayCancel
<1>1. StrayInv => NoStrayCancel
  BY FiredFinite DEF StrayInv, CountInv, Strays, NoStrayCancel, Owed
<1> QED
  BY StrayInvariant, <1>1, PTL

\* Only a call left takes a frame away.
LEMMA OnlyLeaveLeaves ==
  ASSUME CountInv, Next, Leaves
  PROVE  \E with \in Raised, waits \in BOOLEAN : Leave(with, waits)
<1>1. Depth \in Nat
  BY LenProperties DEF CountInv, Depth
<1>2. ASSUME NEW i, NEW f, frames' = [frames EXCEPT ![i] = f]
      PROVE  Len(frames') = Depth
  BY <1>2 DEF CountInv, Depth
<1>3. ASSUME NEW depth, NEW delta \in {1, -1}, frames' = Turned(depth, delta)
      PROVE  Len(frames') = Depth
  BY <1>3, TurnedClocks DEF SameClocks
<1>4. CASE frames' = frames
  BY <1>1, <1>4 DEF Leaves, Depth
<1>5. CASE \E i \in 1..MaxDepth : Pass(i) \/ Expire(i) \/ Fire(i)
  <2>1. PICK i \in 1..MaxDepth : Pass(i) \/ Expire(i) \/ Fire(i)
    BY <1>5
  <2>2. CountInv /\ Len(frames') = Len(frames)
    BY <2>1 DEF Pass, Expire, Fire, CountInv
  <2> QED
    BY <1>1, <2>2 DEF Leaves, Depth
<1>6. ASSUME NEW f \in {NoClock, Armed(TRUE), Armed(FALSE)}, CallFlow(f)
      PROVE  FALSE
  <2>1. Len(frames') = Len(frames) + 1
    BY <1>6, CallCount
  <2> QED
    BY <1>1, <2>1 DEF Leaves, Depth
<1>7. CASE TurnGoes \/ TurnEnds
  <2>1. frames' = Turned(Depth, 1) \/ frames' = Turned(Depth, -1)
    BY <1>7 DEF TurnGoes, TurnEnds
  <2>2. Len(frames') = Depth
    BY <1>3, <2>1
  <2> QED
    BY <1>1, <2>2 DEF Leaves
<1>8. CASE Deliver
  <2>1. SameClocks(frames')
    <3>1. CASE turn[Main].stage = "going"
      BY <1>8, <3>1, TurnedClocks, CaughtClocks DEF Deliver
    <3>2. CASE turn[Main].stage # "going"
      BY <1>8, <3>2, KeptClocks, CaughtClocks DEF Deliver
    <3> QED
      BY <3>1, <3>2
  <2> QED
    BY <1>1, <2>1, SameGone DEF Leaves, Depth
<1>9. CASE \E t \in Side : SideGoes(t) \/ SideEnds(t)
  BY <1>1, <1>3, <1>4, <1>9 DEF SideGoes, SideEnds, Leaves
<1> QED
  BY <1>4, <1>5, <1>6, <1>7, <1>8, <1>9
     DEF Next, Stop, Await, Resume, TakeTurn, Catch, Finish, SideOpens

\* The one clock that went, of a call nobody has stopped since, has its cancel leave the call
\* as its deadline (_Clock.settle).
THEOREM Surfacing == Spec => DeadlineSurfaces
<1>1. ASSUME StrayInv, Next, Leaves, Fired = {Depth}, stops = frames[Depth].stops
      PROVE  raising' # "cancelled"
  <2>1. Settled(frames[Depth])
    <3>1. stops <= frames[Depth].stops
      BY <1>1 DEF StrayInv, CountInv
    <3> QED
      BY <1>1, <3>1, AloneSettles DEF StrayInv
  <2>2. ASSUME NEW with \in Raised, NEW waits \in BOOLEAN, Leave(with, waits)
        PROVE  raising' # "cancelled"
    BY <2>1, <2>2 DEF Leave
  <2>3. \E with \in Raised, waits \in BOOLEAN : Leave(with, waits)
    BY <1>1, OnlyLeaveLeaves DEF StrayInv
  <2> QED
    BY <2>2, <2>3
<1>2. StrayInv /\ [Next]_vars
        => [Leaves /\ frames[Depth].fired /\ stops = frames[Depth].stops /\ Fired = {Depth}
              => raising' # "cancelled"]_vars
  BY <1>1
<1> QED
  BY StrayInvariant, <1>2, PTL DEF Spec, DeadlineSurfaces

-----------------------------------------------------------------------------
(***************************************************************************)
(* What a graceful clock waits for.  It counts the turns under its call;   *)
(* one of those it found when it expired is over for good, as no turn      *)
(* begins under a call past its deadline, so that the ones still under way *)
(* when it goes are others: they were opening when it expired.             *)
(***************************************************************************)

InTurn == task = "in turn"

Turns ==
  /\ turn \in [Turn -> [stage : {"none", "opening", "going"}, depth : Nat]]
  /\ \A t \in Turn : turn[t].depth <= Depth
  /\ IF InTurn THEN turn[Main].stage # "none" /\ turn[Main].depth = Depth
               ELSE turn[Main].stage = "none"

Opening(t, i) == turn[t].stage = "opening" /\ turn[t].depth >= i

\* What a clock f of the call at depth i has counted.
Minded(f, i) ==
  /\ IsFiniteSet(Under(i)) /\ f.inflight = Cardinality(Under(i))
  /\ f.expired => f.due /\ \A t \in f.spared : ~Opening(t, i)
  /\ f.handle = "soon" => f.expired /\ Under(i) \cap f.spared = {}

Minds == \A i \in Clocks : Minded(frames[i], i)

SpareInv == CountInv /\ Turns /\ Minds

LEMMA Framed ==
  ASSUME CountInv
  PROVE  Depth \in Nat /\ \A i \in 1..Depth : frames[i] \in Frame
  BY LenProperties, ElementOfSeq DEF CountInv, Depth

\* A clock made has no turn under it, and waits for its time.
LEMMA NewMinding ==
  ASSUME NEW f \in {NoClock, Armed(TRUE), Armed(FALSE)}
  PROVE  f.inflight = 0 /\ ~f.expired /\ f.handle # "soon"
<1>1. /\ NoClock.inflight = 0 /\ ~NoClock.expired /\ NoClock.handle = "none"
      /\ DOMAIN NoClock = {"armed", "graceful", "cancelling", "inflight", "expired", "fired",
                           "handle", "due", "caught", "stops", "spared"}
  BY DEF NoClock
<1>2. \A graceful : /\ Armed(graceful).inflight = 0 /\ ~Armed(graceful).expired
                    /\ Armed(graceful).handle = "timer"
  BY <1>1 DEF Armed
<1> QED
  BY <1>1, <1>2

LEMMA InitSpare == Init => SpareInv
<1> SUFFICES ASSUME Init PROVE SpareInv
  OBVIOUS
<1>1. CountInv
  BY InitCount
<1>2. PICK f \in {NoClock, Armed(TRUE), Armed(FALSE)} : frames = <<f>>
  BY DEF Init
<1>3. f.inflight = 0 /\ ~f.expired /\ f.handle # "soon"
  BY NewMinding
<1>4. Depth = 1 /\ frames[1] = f
  BY <1>2 DEF Depth
<1>5. Turns
  BY <1>4 DEF Init, Turns, InTurn, Idle, Turn
<1>6. \A i : Under(i) = {}
  BY DEF Init, Under, Idle
<1>7. Minds
  BY <1>3, <1>4, <1>6, FS_EmptySet DEF Minds, Minded, Clocks
<1> QED
  BY <1>1, <1>5, <1>7 DEF SpareInv

\* What a turn counted in or out is to a clock.
LEMMA TurnedMinding ==
  ASSUME CountInv, NEW depth \in Nat, NEW delta \in {1, -1}, NEW i \in 1..Depth
  PROVE  LET f == frames[i]
             g == Turned(depth, delta)[i]
         IN /\ g.armed = f.armed /\ g.fired = f.fired
            /\ g.expired = f.expired /\ g.due = f.due /\ g.spared = f.spared
            /\ g.inflight = IF i <= depth /\ f.armed THEN f.inflight + delta ELSE f.inflight
            /\ g.handle = "soon" =>
                 f.handle = "soon" \/ (i <= depth /\ g.expired /\ g.inflight = 0)
<1> DEFINE f == frames[i]
           h == [f EXCEPT !.inflight = @ + delta]
           g == Turned(depth, delta)[i]
<1>1. f \in Frame
  BY Framed
<1>2. g = IF i <= depth /\ f.armed THEN AfterTurns(h) ELSE f
  BY DEF Turned
<1>3. /\ h.armed = f.armed /\ h.fired = f.fired /\ h.expired = f.expired /\ h.due = f.due
      /\ h.spared = f.spared /\ h.handle = f.handle /\ h.inflight = f.inflight + delta
      /\ h \in Frame
  BY <1>1 DEF Frame
<1> HIDE DEF f, h
<1>4. /\ AfterTurns(h).armed = h.armed /\ AfterTurns(h).fired = h.fired
      /\ AfterTurns(h).expired = h.expired /\ AfterTurns(h).due = h.due
      /\ AfterTurns(h).spared = h.spared /\ AfterTurns(h).inflight = h.inflight
      /\ AfterTurns(h).handle = "soon" => h.handle = "soon" \/ (h.expired /\ h.inflight = 0)
  BY <1>3 DEF AfterTurns, Frame
<1>5. CASE i <= depth /\ f.armed
  BY <1>2, <1>3, <1>4, <1>5 DEF f
<1>6. CASE ~(i <= depth /\ f.armed)
  BY <1>2, <1>6 DEF f
<1> QED
  BY <1>5, <1>6 DEF f

\* Clocks that count what they did, of the turns there were, mind what they did.
LEMMA MindsKept ==
  ASSUME SpareInv,
         \A i \in Clocks' :
           /\ i \in Clocks
           /\ frames'[i].inflight = frames[i].inflight
           /\ frames'[i].expired = frames[i].expired
           /\ frames'[i].spared = frames[i].spared
           /\ frames[i].due => frames'[i].due
           /\ frames'[i].handle = "soon" => frames[i].handle = "soon",
         \A i \in Clocks' : Under(i)' = Under(i),
         \A i \in Clocks', t \in Turn :
           frames[i].due /\ Opening(t, i)' => Opening(t, i)
  PROVE  Minds'
<1> SUFFICES ASSUME NEW i \in Clocks' PROVE Minded(frames[i], i)'
  BY DEF Minds
<1>1. i \in Clocks /\ i \in 1..Depth /\ Minded(frames[i], i) /\ Under(i)' = Under(i)
  BY DEF SpareInv, Minds, Clocks
<1>2. frames[i].spared \subseteq Turn
  BY <1>1, Framed DEF SpareInv, Frame
<1>3. frames[i].expired =>
        frames[i].due /\ \A t \in frames[i].spared : ~Opening(t, i)'
  BY <1>1, <1>2 DEF Minded
<1> QED
  BY <1>1, <1>3 DEF Minded

\* Of the turns there were, where none was changed.
LEMMA MindsSame ==
  ASSUME SpareInv, turn' = turn,
         \A i \in Clocks' :
           /\ i \in Clocks
           /\ frames'[i].inflight = frames[i].inflight
           /\ frames'[i].expired = frames[i].expired
           /\ frames'[i].spared = frames[i].spared
           /\ frames[i].due => frames'[i].due
           /\ frames'[i].handle = "soon" => frames[i].handle = "soon"
  PROVE  Minds'
<1>1. \A i : Under(i)' = Under(i)
  BY DEF Under
<1>2. \A i, t : Opening(t, i)' => Opening(t, i)
  BY DEF Opening
<1> QED
  BY <1>1, <1>2, MindsKept

\* One turn changed.
LEMMA OneTurn ==
  ASSUME Turns, NEW t \in Turn, NEW to \in [stage : {"none", "opening", "going"}, depth : Nat],
         turn' = [turn EXCEPT ![t] = to]
  PROVE  /\ turn' \in [Turn -> [stage : {"none", "opening", "going"}, depth : Nat]]
         /\ \A i : Under(i)' = IF to.stage = "going" /\ to.depth >= i
                                 THEN Under(i) \cup {t} ELSE Under(i) \ {t}
         /\ \A i : \A u \in Turn : Opening(u, i)' <=>
              IF u = t THEN to.stage = "opening" /\ to.depth >= i ELSE Opening(u, i)
<1>1. /\ turn' \in [Turn -> [stage : {"none", "opening", "going"}, depth : Nat]]
      /\ \A u \in Turn : turn'[u] = IF u = t THEN to ELSE turn[u]
  BY DEF Turns
<1> QED
  BY <1>1 DEF Under, Opening

\* A turn that opens or is given up before it was under way is counted by no clock.
LEMMA MindsOpened ==
  ASSUME SpareInv, NEW t \in Turn, turn[t].stage # "going",
         NEW to \in [stage : {"none", "opening"}, depth : Nat],
         turn' = [turn EXCEPT ![t] = to],
         to.stage = "opening" => MayTurn(to.depth),
         \A i \in Clocks' : i \in Clocks /\ Minding(frames'[i], frames[i])
  PROVE  Minds'
<1>1. to \in [stage : {"none", "opening", "going"}, depth : Nat] /\ to.stage # "going"
  OBVIOUS
<1>2. /\ \A i : Under(i)' = Under(i) \ {t}
      /\ \A i : \A u \in Turn : Opening(u, i)' <=>
           IF u = t THEN to.stage = "opening" /\ to.depth >= i ELSE Opening(u, i)
  BY <1>1, OneTurn DEF SpareInv
<1>3. \A i : Under(i)' = Under(i)
  BY <1>2 DEF Under
<1>4. ASSUME NEW i \in Clocks, NEW u \in Turn, frames[i].due, Opening(u, i)'
      PROVE  Opening(u, i)
  <2>1. CASE u = t
    BY <1>2, <1>4, <2>1 DEF MayTurn
  <2>2. CASE u # t
    BY <1>2, <1>4, <2>2
  <2> QED
    BY <2>1, <2>2
<1> QED
  BY <1>3, <1>4, MindsKept DEF Minding

\* A turn under way, or over, is counted by the clocks above it, and by no other.
LEMMA MindsCounted ==
  ASSUME SpareInv, NEW t \in Turn, NEW delta \in {1, -1},
         NEW to \in [stage : {"none", "opening", "going"}, depth : Nat],
         turn' = [turn EXCEPT ![t] = to],
         \/ /\ delta = 1
            /\ turn[t].stage = "opening" /\ to.stage = "going" /\ to.depth = turn[t].depth
         \/ /\ delta = -1
            /\ turn[t].stage = "going" /\ to.stage = "none",
         \A i \in Clocks' : /\ i \in Clocks
                            /\ Minding(frames'[i], Turned(turn[t].depth, delta)[i])
  PROVE  Minds'
<1> SUFFICES ASSUME NEW i \in Clocks' PROVE Minded(frames[i], i)'
  BY DEF Minds
<1> DEFINE depth == turn[t].depth
           f == frames[i]
           g == Turned(depth, delta)[i]
<1>1. i \in 1..Depth /\ f.armed /\ Minded(f, i) /\ f \in Frame
  BY Framed DEF SpareInv, Minds, Clocks
<1>2. depth \in Nat
  BY DEF SpareInv, Turns
<1>3. /\ g.expired = f.expired /\ g.due = f.due /\ g.spared = f.spared
      /\ g.inflight = IF i <= depth THEN f.inflight + delta ELSE f.inflight
      /\ g.handle = "soon" =>
           f.handle = "soon" \/ (i <= depth /\ g.expired /\ g.inflight = 0)
  BY <1>1, <1>2, TurnedMinding DEF SpareInv
<1>4. /\ frames'[i].inflight = g.inflight /\ frames'[i].expired = g.expired
      /\ frames'[i].due = g.due /\ frames'[i].spared = g.spared /\ frames'[i].handle = g.handle
  BY DEF Minding
<1>5. /\ Under(i)' = IF to.stage = "going" /\ to.depth >= i THEN Under(i) \cup {t}
                                                          ELSE Under(i) \ {t}
      /\ \A u \in Turn : Opening(u, i)' <=>
           IF u = t THEN to.stage = "opening" /\ to.depth >= i ELSE Opening(u, i)
  BY OneTurn DEF SpareInv
<1>6. t \in Under(i) <=> turn[t].stage = "going" /\ depth >= i
  BY DEF Under
<1>7. f.spared \subseteq Turn
  BY <1>1 DEF Frame
<1>8. /\ IsFiniteSet(Under(i)) /\ f.inflight = Cardinality(Under(i))
      /\ Cardinality(Under(i)) \in Nat
  BY <1>1, FS_CardinalityType DEF Minded
<1>9. f.expired => f.due /\ \A u \in f.spared : ~Opening(u, i)
  BY <1>1 DEF Minded
<1>10. f.handle = "soon" => f.expired /\ Under(i) \cap f.spared = {}
  BY <1>1 DEF Minded
<1>11. to.stage # "opening"
  OBVIOUS
<1>12. f.expired => \A u \in f.spared : ~Opening(u, i)'
  BY <1>5, <1>7, <1>9, <1>11
<1> HIDE DEF f, g, depth
<1>13. CASE delta = 1 /\ i <= depth
  <2>1. turn[t].stage = "opening" /\ to.stage = "going" /\ to.depth = depth
    BY <1>13 DEF depth
  <2>2. Under(i)' = Under(i) \cup {t} /\ t \notin Under(i) /\ Opening(t, i)
    BY <1>2, <1>5, <1>6, <1>13, <2>1 DEF Opening, depth
  <2>3. IsFiniteSet(Under(i)') /\ Cardinality(Under(i)') = Cardinality(Under(i)) + 1
    BY <1>8, <2>2, FS_AddElement
  <2>4. g.inflight = Cardinality(Under(i)) + 1
    BY <1>3, <1>8, <1>13
  <2>5. frames'[i].handle = "soon" => f.handle = "soon"
    BY <1>3, <1>4, <1>8, <2>4
  <2>6. f.expired => t \notin f.spared
    BY <1>9, <2>2
  <2> QED
    BY <1>3, <1>4, <1>9, <1>10, <1>12, <2>2, <2>3, <2>4, <2>5, <2>6 DEF Minded
<1>14. CASE delta = -1 /\ i <= depth
  <2>1. turn[t].stage = "going" /\ to.stage = "none"
    BY <1>14
  <2>2. Under(i)' = Under(i) \ {t} /\ t \in Under(i)
    BY <1>2, <1>5, <1>6, <1>14, <2>1
  <2>3. IsFiniteSet(Under(i)') /\ Cardinality(Under(i)') = Cardinality(Under(i)) - 1
    BY <1>8, <2>2, FS_RemoveElement
  <2>4. g.inflight = Cardinality(Under(i)')
    BY <1>3, <1>8, <1>14, <2>3
  <2>5. Under(i)' = {} \/ g.inflight # 0
    BY <2>3, <2>4, FS_EmptySet
  <2>6. g.handle = "soon" => f.expired /\ Under(i)' \cap f.spared = {}
    BY <1>3, <1>10, <2>2, <2>5
  <2> QED
    BY <1>3, <1>4, <1>9, <1>12, <2>3, <2>4, <2>6 DEF Minded
<1>15. CASE ~(i <= depth)
  <2>1. i \in Nat /\ ~(depth >= i)
    BY <1>1, <1>2, <1>15
  <2>2. to.stage = "going" => to.depth = depth
    BY DEF depth
  <2>3. t \notin Under(i) /\ Under(i)' = Under(i)
    BY <1>5, <1>6, <2>1, <2>2
  <2>4. g.inflight = f.inflight /\ (g.handle = "soon" => f.handle = "soon")
    BY <1>3, <1>15
  <2> QED
    BY <1>3, <1>4, <1>8, <1>9, <1>10, <1>12, <2>3, <2>4 DEF Minded
<1> QED
  BY <1>13, <1>14, <1>15

-----------------------------------------------------------------------------
(* The turns a graceful clock found: what each step does to them. *)

Idling == [stage : {"none", "opening", "going"}, depth : Nat]

\* One turn that is not the task's own.
LEMMA SideTurns ==
  ASSUME SpareInv, NEW t \in Side, NEW to \in Idling, turn' = [turn EXCEPT ![t] = to],
         to.depth <= Depth, Depth' = Depth, InTurn' <=> InTurn
  PROVE  Turns'
<1>1. t \in Turn /\ Main \in Turn /\ t # Main
  BY DeadlinesAssumption DEF Turn
<1>2. /\ turn' \in [Turn -> Idling]
      /\ \A u \in Turn : turn'[u] = IF u = t THEN to ELSE turn[u]
  BY <1>1 DEF SpareInv, Turns, Idling
<1> QED
  BY <1>1, <1>2 DEF SpareInv, Turns, Idling

LEMMA MainTurns ==
  ASSUME SpareInv, NEW to \in Idling, turn' = [turn EXCEPT ![Main] = to],
         to.depth <= Depth, Depth' = Depth,
         IF InTurn' THEN to.stage # "none" /\ to.depth = Depth ELSE to.stage = "none"
  PROVE  Turns'
<1>1. Main \in Turn
  BY DEF Turn
<1>2. /\ turn' \in [Turn -> Idling]
      /\ \A u \in Turn : turn'[u] = IF u = Main THEN to ELSE turn[u]
  BY <1>1 DEF SpareInv, Turns, Idling
<1> QED
  BY <1>1, <1>2 DEF SpareInv, Turns, Idling

\* One frame changed in what no turn is.
LEMMA SpareOne ==
  ASSUME SpareInv, NEW i \in 1..Depth, NEW f \in Frame, frames' = [frames EXCEPT ![i] = f],
         f.armed = frames[i].armed, f.inflight = frames[i].inflight,
         f.expired = frames[i].expired, f.spared = frames[i].spared, frames[i].due => f.due,
         f.handle = "soon" => frames[i].handle = "soon",
         UNCHANGED <<task, turn>>
  PROVE  Turns' /\ Minds'
<1>1. /\ Len(frames') = Len(frames)
      /\ \A j \in 1..Len(frames) : frames'[j] = IF j = i THEN f ELSE frames[j]
  BY ExceptSeq DEF SpareInv, CountInv, Depth
<1>2. Turns'
  BY <1>1 DEF SpareInv, Turns, InTurn, Depth
<1>3. ASSUME NEW j \in Clocks'
      PROVE  /\ j \in Clocks
             /\ frames'[j].inflight = frames[j].inflight
             /\ frames'[j].expired = frames[j].expired
             /\ frames'[j].spared = frames[j].spared
             /\ frames[j].due => frames'[j].due
             /\ frames'[j].handle = "soon" => frames[j].handle = "soon"
  BY <1>1, <1>3 DEF Clocks, Depth
<1>4. Minds'
  BY <1>3, MindsSame
<1> QED
  BY <1>2, <1>4

LEMMA PassSpare ==
  ASSUME SpareInv, NEW i \in 1..MaxDepth, Pass(i)
  PROVE  Turns' /\ Minds'
<1> DEFINE f == [frames[i] EXCEPT !.due = TRUE]
<1>1. i \in 1..Depth /\ frames[i] \in Frame
  BY Framed DEF Pass, Clocks, SpareInv
<1>2. /\ f \in Frame /\ f.armed = frames[i].armed /\ f.inflight = frames[i].inflight
      /\ f.expired = frames[i].expired /\ f.spared = frames[i].spared /\ f.due
      /\ f.handle = frames[i].handle
  BY <1>1 DEF Frame
<1>3. frames' = [frames EXCEPT ![i] = f] /\ UNCHANGED <<task, turn>>
  BY DEF Pass
<1> HIDE DEF f
<1> QED
  BY <1>1, <1>2, <1>3, SpareOne

LEMMA FireSpare ==
  ASSUME SpareInv, NEW i \in 1..MaxDepth, Fire(i)
  PROVE  Turns' /\ Minds'
<1> DEFINE f == [frames[i] EXCEPT !.handle = "none", !.fired = TRUE]
<1>1. i \in 1..Depth /\ frames[i] \in Frame
  BY Framed DEF Fire, Clocks, SpareInv
<1>2. /\ f \in Frame /\ f.armed = frames[i].armed /\ f.inflight = frames[i].inflight
      /\ f.expired = frames[i].expired /\ f.spared = frames[i].spared
      /\ f.due = frames[i].due /\ f.handle = "none"
  BY <1>1 DEF Frame, Handle
<1>3. frames' = [frames EXCEPT ![i] = f] /\ UNCHANGED <<task, turn>>
  BY DEF Fire
<1> HIDE DEF f
<1> QED
  BY <1>1, <1>2, <1>3, SpareOne

\* The turns a clock finds are under way: none is one that may yet open.
LEMMA ExpireSpare ==
  ASSUME SpareInv, NEW i \in 1..MaxDepth, Expire(i)
  PROVE  Turns' /\ Minds'
<1> DEFINE f == [frames[i] EXCEPT !.handle = "none", !.expired = TRUE, !.spared = Under(i)]
           g == [f EXCEPT !.fired = TRUE]
<1>1. i \in 1..Depth /\ frames[i] \in Frame /\ frames[i].due /\ i \in Clocks
  BY Framed DEF Expire, Clocks, SpareInv
<1>2. Under(i) \in SUBSET Turn
  BY DEF Under
<1>3. /\ f \in Frame /\ f.armed = frames[i].armed /\ f.inflight = frames[i].inflight
      /\ f.expired /\ f.spared = Under(i) /\ f.due /\ f.handle = "none"
  BY <1>1, <1>2 DEF Frame, Handle
<1>4. /\ g \in Frame /\ g.armed = f.armed /\ g.inflight = f.inflight
      /\ g.expired /\ g.spared = f.spared /\ g.due /\ g.handle = "none"
  BY <1>3 DEF Frame
<1>5. \/ frames' = [frames EXCEPT ![i] = f]
      \/ frames' = [frames EXCEPT ![i] = g]
  BY DEF Expire
<1>6. UNCHANGED <<task, turn>>
  BY DEF Expire
<1> HIDE DEF f, g
<1>7. PICK h \in Frame :
        /\ frames' = [frames EXCEPT ![i] = h]
        /\ h.armed = frames[i].armed /\ h.inflight = frames[i].inflight
        /\ h.expired /\ h.spared = Under(i) /\ h.due /\ h.handle = "none"
  BY <1>3, <1>4, <1>5
<1>8. /\ Len(frames') = Len(frames)
      /\ \A j \in 1..Len(frames) : frames'[j] = IF j = i THEN h ELSE frames[j]
  BY <1>1, <1>7, ExceptSeq DEF SpareInv, CountInv, Depth
<1>9. Turns'
  BY <1>6, <1>8 DEF SpareInv, Turns, InTurn, Depth
<1>10. ASSUME NEW j \in Clocks'
       PROVE  Minded(frames[j], j)'
  <2>1. \A k : Under(k)' = Under(k)
    BY <1>6 DEF Under
  <2>2. \A t, k : Opening(t, k)' <=> Opening(t, k)
    BY <1>6 DEF Opening
  <2>3. j \in Clocks /\ frames'[j] = IF j = i THEN h ELSE frames[j]
    BY <1>7, <1>8, <1>10 DEF Clocks, Depth
  <2>4. Minded(frames[j], j)
    BY <2>3 DEF SpareInv, Minds
  <2>5. CASE j = i
    <3>1. \A t \in Under(i) : ~Opening(t, i)
      BY DEF Under, Opening
    <3> QED
      BY <1>7, <2>1, <2>2, <2>3, <2>4, <2>5, <3>1 DEF Minded
  <2>6. CASE j # i
    BY <2>1, <2>2, <2>3, <2>4, <2>6 DEF Minded
  <2> QED
    BY <2>5, <2>6
<1> QED
  BY <1>9, <1>10 DEF Minds

\* No turn is under a call just made.
LEMMA CallSpare ==
  ASSUME SpareInv, NEW f \in {NoClock, Armed(TRUE), Armed(FALSE)}, CallFlow(f)
  PROVE  Turns' /\ Minds'
<1>1. f.inflight = 0 /\ ~f.expired /\ f.handle # "soon"
  BY NewMinding
<1>2. /\ Len(frames') = Len(frames) + 1 /\ frames'[Len(frames) + 1] = f
      /\ \A i \in 1..Len(frames) : frames'[i] = frames[i]
      /\ Len(frames) \in Nat
  BY CallCount, LenProperties DEF SpareInv, CountInv
<1>3. UNCHANGED <<task, turn>> /\ task = "runs"
  BY DEF CallFlow, Running
<1>4. Turns'
  BY <1>2, <1>3 DEF SpareInv, Turns, InTurn, Depth
<1>5. ASSUME NEW i \in Clocks'
      PROVE  Minded(frames[i], i)'
  <2>1. Under(i)' = Under(i) /\ \A t : Opening(t, i)' <=> Opening(t, i)
    BY <1>3 DEF Under, Opening
  <2>2. CASE i = Depth + 1
    <3>1. Under(i) = {}
      BY <1>2, <2>2 DEF SpareInv, Turns, Under, Depth
    <3>2. frames'[i] = f
      BY <1>2, <2>2 DEF Depth
    <3> QED
      BY <1>1, <2>1, <3>1, <3>2, FS_EmptySet DEF Minded
  <2>3. CASE i # Depth + 1
    <3>1. i \in Clocks /\ frames'[i] = frames[i]
      BY <1>2, <1>5, <2>3 DEF Clocks, Depth
    <3> QED
      BY <2>1, <3>1 DEF SpareInv, Minds, Minded
  <2> QED
    BY <2>2, <2>3
<1> QED
  BY <1>4, <1>5 DEF Minds

\* A turn that goes on when its call is over is still under the calls above.
LEMMA LeaveSpare ==
  ASSUME SpareInv, NEW with \in Raised, NEW waits \in BOOLEAN, Leave(with, waits)
  PROVE  Turns' /\ Minds'
<1>1. /\ Depth \in Nat \ {0} /\ Len(frames') = Depth - 1
      /\ \A i \in 1..(Depth - 1) : /\ Alike(frames'[i], frames[i])
                                   /\ Minding(frames'[i], frames[i])
  BY LeftClocks DEF SpareInv
<1>2. turn' = [t \in Turn |-> Outlived(t)] /\ ~InTurn /\ ~InTurn'
  BY DEF Leave, InTurn
<1>3. \A t \in Turn : /\ turn[t] \in Idling /\ turn[t].depth <= Depth
                      /\ Outlived(t) \in Idling
                      /\ Outlived(t).stage = turn[t].stage
                      /\ Outlived(t).depth =
                           IF turn[t].depth = Depth THEN Depth - 1 ELSE turn[t].depth
  BY <1>1 DEF SpareInv, Turns, Idling, Outlived
<1>4. Turns'
  <2>1. Main \in Turn /\ turn[Main].stage = "none"
    BY <1>2 DEF SpareInv, Turns, Turn
  <2>2. \A t \in Turn : turn'[t] = Outlived(t) /\ Outlived(t).depth <= Depth - 1
    BY <1>1, <1>2, <1>3 DEF Idling
  <2>3. turn' \in [Turn -> Idling]
    BY <1>2, <1>3
  <2> HIDE DEF Outlived
  <2> QED
    BY <1>1, <1>2, <1>3, <2>1, <2>2, <2>3 DEF Turns, Idling, Depth
<1>5. ASSUME NEW i \in Clocks'
      PROVE  /\ i \in 1..(Depth - 1) /\ i \in Clocks
             /\ Minding(frames'[i], frames[i])
             /\ Under(i)' = Under(i)
             /\ \A t \in Turn : Opening(t, i)' <=> Opening(t, i)
  <2>1. i \in 1..(Depth - 1) /\ i \in Clocks /\ Minding(frames'[i], frames[i])
    BY <1>1, <1>5 DEF Clocks, Depth, Alike
  <2>2. \A t \in Turn : Outlived(t).depth >= i <=> turn[t].depth >= i
    BY <1>1, <1>3, <2>1 DEF Idling
  <2> HIDE DEF Outlived
  <2>3. \A t \in Turn : turn'[t] = Outlived(t)
    BY <1>2
  <2> QED
    BY <1>3, <2>1, <2>2, <2>3 DEF Under, Opening
<1>6. Minds'
  BY <1>5, MindsKept DEF Minding
<1> QED
  BY <1>4, <1>6

\* The frames a turn counted in or out leaves, but for what their flows were raised.
LEMMA TurnedFrames ==
  ASSUME SpareInv, NEW depth, NEW delta \in {1, -1},
         \/ frames' = Turned(depth, delta)
         \/ frames' = [Turned(depth, delta) EXCEPT ![Depth].caught = TRUE]
  PROVE  /\ Depth' = Depth
         /\ \A i \in Clocks' : i \in Clocks /\ Minding(frames'[i], Turned(depth, delta)[i])
<1> DEFINE fs == Turned(depth, delta)
<1>1. SameClocks(fs)
  BY TurnedClocks DEF SpareInv
<1> HIDE DEF fs
<1>2. CASE frames' = fs
  BY <1>1, <1>2 DEF fs, SameClocks, Alike, Minding, Clocks, Depth
<1>3. CASE frames' = [fs EXCEPT ![Depth].caught = TRUE]
  <2>1. /\ Len(frames') = Len(fs)
        /\ \A j \in 1..Len(fs) : Alike(frames'[j], fs[j]) /\ Minding(frames'[j], fs[j])
    BY <1>1, <1>3, CaughtSeq DEF SameClocks
  <2> QED
    BY <1>1, <2>1 DEF fs, SameClocks, Alike, Clocks, Depth
<1> QED
  BY <1>2, <1>3 DEF fs

LEMMA StillSpare ==
  ASSUME SpareInv, UNCHANGED <<frames, turn>>, InTurn' <=> InTurn
  PROVE  Turns' /\ Minds'
<1>1. Turns'
  BY DEF SpareInv, Turns, Depth
<1>2. Clocks' = Clocks
  BY DEF Clocks, Depth
<1>3. Minds'
  BY <1>2, MindsSame
<1> QED
  BY <1>1, <1>3

LEMMA MainTurn == SpareInv => Main \in Turn /\ turn[Main] \in Idling
  BY DEF SpareInv, Turns, Idling, Turn

LEMMA TakeSpare ==
  ASSUME SpareInv, TakeTurn
  PROVE  Turns' /\ Minds'
<1> DEFINE to == [stage |-> "opening", depth |-> Depth]
<1>1. turn' = [turn EXCEPT ![Main] = to] /\ frames' = frames /\ MayTurn(Depth)
  BY DEF TakeTurn
<1>2. InTurn' /\ ~InTurn
  BY DEF TakeTurn, Running, InTurn
<1>3. to \in Idling /\ to \in [stage : {"none", "opening"}, depth : Nat]
  BY Framed DEF SpareInv, Idling
<1>4. Depth' = Depth /\ Clocks' = Clocks
  BY <1>1 DEF Clocks, Depth
<1>5. to.depth = Depth /\ to.stage = "opening" /\ Depth <= Depth
  BY Framed DEF SpareInv
<1> HIDE DEF to
<1>6. Turns'
  BY <1>1, <1>2, <1>3, <1>4, <1>5, MainTurns
<1>7. turn[Main].stage # "going" /\ Main \in Turn
  BY <1>2, MainTurn DEF SpareInv, Turns
<1>8. \A i \in Clocks' : i \in Clocks /\ Minding(frames'[i], frames[i])
  BY <1>1, <1>4 DEF Minding
<1>9. Minds'
  BY <1>1, <1>3, <1>5, <1>7, <1>8, MindsOpened
<1> QED
  BY <1>6, <1>9

LEMMA GoSpare ==
  ASSUME SpareInv, TurnGoes
  PROVE  Turns' /\ Minds'
<1> DEFINE to == [turn[Main] EXCEPT !.stage = "going"]
<1>1. /\ turn' = [turn EXCEPT ![Main] = to] /\ frames' = Turned(Depth, 1)
      /\ turn[Main].stage = "opening"
  BY DEF TurnGoes
<1>2. InTurn' /\ InTurn
  BY DEF TurnGoes, InTurn
<1>3. Main \in Turn /\ turn[Main] \in Idling /\ turn[Main].depth = Depth
  BY <1>2, MainTurn DEF SpareInv, Turns
<1>4. to \in Idling /\ to.stage = "going" /\ to.depth = Depth
  BY <1>3 DEF Idling
<1>5. Depth \in Nat /\ Depth <= Depth
  BY Framed DEF SpareInv
<1> HIDE DEF to
<1>6. /\ Depth' = Depth
      /\ \A i \in Clocks' :
           i \in Clocks /\ Minding(frames'[i], Turned(turn[Main].depth, 1)[i])
  BY <1>1, <1>3, TurnedFrames
<1>7. Turns'
  BY <1>1, <1>2, <1>4, <1>5, <1>6, MainTurns
<1>8. Minds'
  BY <1>1, <1>3, <1>4, <1>6, MindsCounted DEF Idling
<1> QED
  BY <1>7, <1>8

\* The task's turn is over: it answered, or the cancel ended it.
LEMMA MainEnds ==
  ASSUME SpareInv, InTurn, turn[Main].stage = "going", ~InTurn',
         turn' = [turn EXCEPT ![Main] = Idle],
         \/ frames' = Turned(Depth, -1)
         \/ frames' = [Turned(Depth, -1) EXCEPT ![Depth].caught = TRUE]
  PROVE  Turns' /\ Minds'
<1>1. Main \in Turn /\ turn[Main].depth = Depth
  BY MainTurn DEF SpareInv, Turns
<1>2. Idle \in Idling /\ Idle.stage = "none" /\ Idle.depth <= Depth
  BY Framed DEF SpareInv, Idle, Idling
<1>3. /\ Depth' = Depth
      /\ \A i \in Clocks' :
           i \in Clocks /\ Minding(frames'[i], Turned(turn[Main].depth, -1)[i])
  BY <1>1, TurnedFrames
<1>4. Turns'
  BY <1>2, <1>3, MainTurns
<1>5. Minds'
  BY <1>1, <1>2, <1>3, MindsCounted DEF Idling
<1> QED
  BY <1>4, <1>5

LEMMA DeliverSpare ==
  ASSUME SpareInv, Deliver
  PROVE  Turns' /\ Minds'
<1>1. turn' = [turn EXCEPT ![Main] = Idle] /\ ~InTurn'
  BY DEF Deliver, InTurn
<1>2. CASE turn[Main].stage = "going"
  <2>1. InTurn
    BY <1>2 DEF SpareInv, Turns
  <2>2. frames' = [Turned(Depth, -1) EXCEPT ![Depth].caught = TRUE]
    BY <1>2 DEF Deliver
  <2> QED
    BY <1>1, <1>2, <2>1, <2>2, MainEnds
<1>3. CASE turn[Main].stage # "going"
  <2>1. frames' = [frames EXCEPT ![Depth].caught = TRUE]
    BY <1>3 DEF Deliver
  <2>2. /\ Len(frames') = Len(frames)
        /\ \A j \in 1..Len(frames) :
             Alike(frames'[j], frames[j]) /\ Minding(frames'[j], frames[j])
    BY <2>1, CaughtSeq DEF SpareInv, CountInv
  <2>3. /\ Depth' = Depth
        /\ \A i \in Clocks' : i \in Clocks /\ Minding(frames'[i], frames[i])
    BY <2>2 DEF Clocks, Depth, Alike
  <2>4. /\ Idle \in Idling /\ Idle \in [stage : {"none", "opening"}, depth : Nat]
        /\ Idle.stage = "none" /\ Idle.depth <= Depth
    BY Framed DEF SpareInv, Idle, Idling
  <2>5. Turns'
    BY <1>1, <2>3, <2>4, MainTurns
  <2>6. Minds'
    BY <1>1, <1>3, <2>3, <2>4, MainTurn, MindsOpened
  <2> QED
    BY <2>5, <2>6
<1> QED
  BY <1>2, <1>3

LEMMA SideOpenSpare ==
  ASSUME SpareInv, NEW t \in Side, NEW depth \in 1..MaxDepth, SideOpens(t, depth)
  PROVE  Turns' /\ Minds'
<1> DEFINE to == [stage |-> "opening", depth |-> depth]
<1>1. /\ turn' = [turn EXCEPT ![t] = to] /\ frames' = frames /\ MayTurn(depth)
      /\ turn[t].stage # "going" /\ depth \in 1..Depth /\ t \in Turn
  BY DEF SideOpens, Turn
<1>2. InTurn' <=> InTurn
  BY DEF SideOpens, InTurn
<1>3. to \in Idling /\ to \in [stage : {"none", "opening"}, depth : Nat]
  BY DEF Idling
<1>4. to.depth = depth /\ to.stage = "opening" /\ depth <= Depth
  BY <1>1, Framed DEF SpareInv
<1>5. Depth' = Depth /\ Clocks' = Clocks
  BY <1>1 DEF Clocks, Depth
<1> HIDE DEF to
<1>6. Turns'
  BY <1>1, <1>2, <1>3, <1>4, <1>5, SideTurns
<1>7. \A i \in Clocks' : i \in Clocks /\ Minding(frames'[i], frames[i])
  BY <1>1, <1>5 DEF Minding
<1>8. Minds'
  BY <1>1, <1>3, <1>4, <1>7, MindsOpened
<1> QED
  BY <1>6, <1>8

LEMMA SideGoSpare ==
  ASSUME SpareInv, NEW t \in Side, SideGoes(t)
  PROVE  Turns' /\ Minds'
<1> DEFINE to == [turn[t] EXCEPT !.stage = "going"]
<1>1. /\ turn' = [turn EXCEPT ![t] = to] /\ frames' = Turned(turn[t].depth, 1)
      /\ turn[t].stage = "opening" /\ t \in Turn
  BY DEF SideGoes, Turn
<1>2. InTurn' <=> InTurn
  BY DEF SideGoes, InTurn
<1>3. turn[t] \in Idling /\ turn[t].depth <= Depth
  BY <1>1 DEF SpareInv, Turns, Idling
<1>4. to \in Idling /\ to.stage = "going" /\ to.depth = turn[t].depth
  BY <1>3 DEF Idling
<1> HIDE DEF to
<1>5. /\ Depth' = Depth
      /\ \A i \in Clocks' : i \in Clocks /\ Minding(frames'[i], Turned(turn[t].depth, 1)[i])
  BY <1>1, TurnedFrames
<1>6. Turns'
  BY <1>1, <1>2, <1>3, <1>4, <1>5, SideTurns
<1>7. Minds'
  BY <1>1, <1>4, <1>5, MindsCounted DEF Idling
<1> QED
  BY <1>6, <1>7

LEMMA SideEndSpare ==
  ASSUME SpareInv, NEW t \in Side, SideEnds(t)
  PROVE  Turns' /\ Minds'
<1>1. turn' = [turn EXCEPT ![t] = Idle] /\ t \in Turn
  BY DEF SideEnds, Turn
<1>2. InTurn' <=> InTurn
  BY DEF SideEnds, InTurn
<1>3. /\ Idle \in Idling /\ Idle \in [stage : {"none", "opening"}, depth : Nat]
      /\ Idle.stage = "none" /\ Idle.depth <= Depth
  BY Framed DEF SpareInv, Idle, Idling
<1>4. CASE turn[t].stage = "going"
  <2>1. frames' = Turned(turn[t].depth, -1)
    BY <1>4 DEF SideEnds
  <2>2. /\ Depth' = Depth
        /\ \A i \in Clocks' :
             i \in Clocks /\ Minding(frames'[i], Turned(turn[t].depth, -1)[i])
    BY <2>1, TurnedFrames
  <2>3. Turns'
    BY <1>1, <1>2, <1>3, <2>2, SideTurns
  <2>4. Minds'
    BY <1>1, <1>3, <1>4, <2>2, MindsCounted DEF Idling
  <2> QED
    BY <2>3, <2>4
<1>5. CASE turn[t].stage # "going"
  <2>1. frames' = frames
    BY <1>5 DEF SideEnds
  <2>2. /\ Depth' = Depth
        /\ \A i \in Clocks' : i \in Clocks /\ Minding(frames'[i], frames[i])
    BY <2>1 DEF Clocks, Depth, Minding
  <2>3. Turns'
    BY <1>1, <1>2, <1>3, <2>2, SideTurns
  <2>4. Minds'
    BY <1>1, <1>3, <1>5, <2>2, MindsOpened
  <2> QED
    BY <2>3, <2>4
<1> QED
  BY <1>4, <1>5

LEMMA NextMinds ==
  ASSUME SpareInv, [Next]_vars
  PROVE  Turns' /\ Minds'
<1>1. ASSUME NEW i \in 1..MaxDepth, Pass(i) \/ Expire(i) \/ Fire(i)
      PROVE  Turns' /\ Minds'
  BY <1>1, PassSpare, ExpireSpare, FireSpare
<1>2. ASSUME NEW f \in {NoClock, Armed(TRUE), Armed(FALSE)}, CallFlow(f)
      PROVE  Turns' /\ Minds'
  BY <1>2, CallSpare
<1>3. CASE Stop \/ Await \/ Resume \/ Catch \/ Finish
  <2>1. UNCHANGED <<frames, turn>>
    BY <1>3 DEF Stop, Await, Resume, Catch, Finish
  <2>2. InTurn' <=> InTurn
    BY <1>3 DEF Stop, Await, Resume, Catch, Finish, Running, InTurn
  <2> QED
    BY <2>1, <2>2, StillSpare
<1>4. CASE TurnEnds
  <2>1. /\ turn[Main].stage = "going" /\ turn' = [turn EXCEPT ![Main] = Idle]
        /\ frames' = Turned(Depth, -1)
    BY <1>4 DEF TurnEnds
  <2>2. InTurn /\ ~InTurn'
    BY <1>4 DEF TurnEnds, InTurn
  <2> QED
    BY <2>1, <2>2, MainEnds
<1>5. ASSUME NEW with \in Raised, NEW waits \in BOOLEAN, Leave(with, waits)
      PROVE  Turns' /\ Minds'
  BY <1>5, LeaveSpare
<1>6. ASSUME NEW t \in Side, NEW depth \in 1..MaxDepth, SideOpens(t, depth)
      PROVE  Turns' /\ Minds'
  BY <1>6, SideOpenSpare
<1>7. ASSUME NEW t \in Side, SideGoes(t) \/ SideEnds(t)
      PROVE  Turns' /\ Minds'
  BY <1>7, SideGoSpare, SideEndSpare
<1>8. CASE UNCHANGED vars
  BY <1>8, StillSpare DEF vars, InTurn
<1> QED
  BY <1>1, <1>2, <1>3, <1>4, <1>5, <1>6, <1>7, <1>8, TakeSpare, GoSpare, DeliverSpare DEF Next

\* A clock goes as it expires, or when the loop is asked for it.
LEMMA GoesBy ==
  ASSUME CountInv, [Next]_vars, NEW i \in Clocks, Goes(i)
  PROVE  Expire(i) \/ Fire(i)
<1>1. ~frames[i].fired /\ i \in 1..Depth /\ Len(frames') = Depth /\ frames'[i].fired
  BY DEF Goes, Fired, Clocks
<1>2. ASSUME SameClocks(frames') PROVE FALSE
  BY <1>1, <1>2 DEF SameClocks, Alike
<1>3. ASSUME NEW k, NEW f, frames' = [frames EXCEPT ![k] = f], k # i PROVE FALSE
  BY <1>1, <1>3
<1>4. CASE frames' = frames
  BY <1>1, <1>4
<1>5. ASSUME NEW k \in 1..MaxDepth, Pass(k) PROVE FALSE
  <2>1. frames' = [frames EXCEPT ![k].due = TRUE]
    BY <1>5 DEF Pass
  <2>2. frames[i] \in Frame
    BY Framed, <1>1
  <2>3. frames'[i].fired = frames[i].fired
    BY <1>1, <2>1, <2>2 DEF CountInv, Frame, Depth
  <2> QED
    BY <1>1, <2>3
<1>6. ASSUME NEW k \in 1..MaxDepth, Expire(k) \/ Fire(k) PROVE k = i
  <2>1. \E f : frames' = [frames EXCEPT ![k] = f]
    BY <1>6 DEF Expire, Fire
  <2> QED
    BY <1>3, <2>1
<1>7. ASSUME NEW f \in {NoClock, Armed(TRUE), Armed(FALSE)}, CallFlow(f) PROVE FALSE
  <2>1. Len(frames') = Len(frames) + 1 /\ Depth \in Nat
    BY <1>7, CallCount, Framed
  <2> QED
    BY <1>1, <2>1 DEF Depth
<1>8. ASSUME NEW with \in Raised, NEW waits \in BOOLEAN, Leave(with, waits) PROVE FALSE
  BY <1>1, <1>8, LeftClocks
<1>9. CASE TurnGoes \/ TurnEnds
  <2>1. frames' = Turned(Depth, 1) \/ frames' = Turned(Depth, -1)
    BY <1>9 DEF TurnGoes, TurnEnds
  <2> QED
    BY <1>2, <2>1, TurnedClocks
<1>10. CASE Deliver
  <2>1. SameClocks(frames')
    <3>1. CASE turn[Main].stage = "going"
      BY <1>10, <3>1, TurnedClocks, CaughtClocks DEF Deliver
    <3>2. CASE turn[Main].stage # "going"
      BY <1>10, <3>2, KeptClocks, CaughtClocks DEF Deliver
    <3> QED
      BY <3>1, <3>2
  <2> QED
    BY <1>2, <2>1
<1>11. ASSUME NEW t \in Side, SideGoes(t) \/ SideEnds(t), frames' # frames PROVE FALSE
  <2>1. frames' = Turned(turn[t].depth, 1) \/ frames' = Turned(turn[t].depth, -1)
    BY <1>11 DEF SideGoes, SideEnds
  <2> QED
    BY <1>2, <2>1, TurnedClocks
<1>12. CASE Stop \/ Await \/ Resume \/ TakeTurn \/ Catch \/ Finish \/ UNCHANGED vars
            \/ \E t \in Side, depth \in 1..MaxDepth : SideOpens(t, depth)
  BY <1>4, <1>12 DEF Stop, Await, Resume, TakeTurn, Catch, Finish, SideOpens, vars
<1> QED
  BY <1>4, <1>5, <1>6, <1>7, <1>8, <1>9, <1>10, <1>11, <1>12 DEF Next

\* The clock of a graceful duration, when it goes, cuts off no turn it found under way as it
\* expired, whatever turns began and ended since (_Clock.expire, _Clock.turned).
THEOREM Sparing == Spec => SparesTurns
<1>1. ASSUME SpareInv, [Next]_vars, NEW i \in Clocks, Goes(i), frames[i].graceful
      PROVE  Under(i) \cap frames'[i].spared = {}
  <2>1. /\ i \in 1..Depth /\ frames[i] \in Frame /\ Minded(frames[i], i)
        /\ frames \in Seq(Frame)
    BY <1>1, Framed DEF SpareInv, CountInv, Minds, Clocks
  <2>2. CASE Fire(i)
    <3>1. /\ frames[i].handle = "soon"
          /\ frames' = [frames EXCEPT ![i].handle = "none", ![i].fired = TRUE]
      BY <2>2 DEF Fire
    <3>2. frames'[i].spared = frames[i].spared
      BY <2>1, <3>1 DEF Frame, Depth
    <3> QED
      BY <2>1, <3>1, <3>2 DEF Minded
  <2>3. CASE Expire(i)
    <3> DEFINE f == [frames[i] EXCEPT !.handle = "none", !.expired = TRUE, !.spared = Under(i)]
    <3>1. Under(i) \in SUBSET Turn
      BY DEF Under
    <3>2. /\ f \in Frame /\ f.graceful = frames[i].graceful /\ f.inflight = frames[i].inflight
          /\ f.spared = Under(i) /\ f.fired = frames[i].fired
      BY <2>1, <3>1 DEF Frame, Handle
    <3>3. IF Waits(f) THEN frames' = [frames EXCEPT ![i] = f]
                      ELSE frames' = [frames EXCEPT ![i] = [f EXCEPT !.fired = TRUE]]
      BY <2>3 DEF Expire
    <3>4. ~frames[i].fired /\ frames'[i].fired
      BY <1>1 DEF Goes, Fired, Clocks
    <3> HIDE DEF f
    <3>5. ~Waits(f)
      BY <2>1, <3>2, <3>3, <3>4 DEF Depth
    <3>6. f.inflight = 0
      BY <1>1, <3>2, <3>5 DEF Waits
    <3>7. Under(i) = {}
      BY <2>1, <3>2, <3>6, FS_EmptySet DEF Minded
    <3> QED
      BY <3>7
  <2> QED
    BY <1>1, <2>2, <2>3, GoesBy DEF SpareInv
<1>2. SpareInv /\ [Next]_vars
        => [\A i \in Clocks : Goes(i) /\ frames[i].graceful
              => Under(i) \cap frames'[i].spared = {}]_vars
  BY <1>1
<1>3. SpareInv /\ [Next]_vars => SpareInv'
  BY NextCount, NextMinds DEF SpareInv
<1> QED
  BY InitSpare, <1>2, <1>3, PTL DEF Spec, SparesTurns
=============================================================================
