--------------------------- MODULE CallTreeProofs ---------------------------
(***************************************************************************)
(* What CallTree does for any number of calls and sessions, checked by     *)
(* TLAPS.  The invariant has three parts: how often each session was       *)
(* closed; the tree of the calls, where live counts what is waited for and *)
(* a cascade is only at what nothing is waited for under; and what holds   *)
(* each session until it is closed.                                        *)
(***************************************************************************)
EXTENDS CallTree, FiniteSetTheorems, SequenceTheorems, NaturalsInduction, WellFoundedInduction,
        TLAPS

\* A set of numbers that is not empty has a least.
LEMMA Least ==
  ASSUME NEW S \in SUBSET Nat, S # {}
  PROVE  \E i \in S : \A j \in S : i <= j
<1> DEFINE Less == {p \in Nat \X Nat : p[1] < p[2]}
<1>1. IsWellFoundedOn(Less, Nat)
  BY NatLessThanWellFounded DEF OpToRel
<1> HIDE DEF Less
<1>2. PICK i \in S : \A j \in S : <<j, i>> \notin Less
  BY <1>1, WFMin
<1>3. \A j \in S : ~(j < i)
  BY <1>2 DEF Less
<1> QED
  BY <1>3

-----------------------------------------------------------------------------
(* What is held: adding to it, taking the last of it, and forgetting one of it. *)

\* What appending adds.
LEMMA Appending ==
  ASSUME NEW S, NEW q \in Seq(S), NEW e \in S
  PROVE  Append(q, e) \in Seq(S) /\ ToSet(Append(q, e)) = ToSet(q) \cup {e}
<1>1. Append(q, e) \in Seq(S) /\ Len(Append(q, e)) = Len(q) + 1 /\ Len(q) \in Nat
  OBVIOUS
<1>2. \A i \in 1..Len(q) : Append(q, e)[i] = q[i]
  OBVIOUS
<1>3. Append(q, e)[Len(q) + 1] = e
  OBVIOUS
<1>4. DOMAIN q = 1..Len(q) /\ DOMAIN Append(q, e) = 1..Len(q) + 1
  BY <1>1
<1> QED
  BY <1>1, <1>2, <1>3, <1>4 DEF ToSet

\* What is left without the last.
LEMMA Fronting ==
  ASSUME NEW S, NEW q \in Seq(S), q # <<>>
  PROVE  /\ Front(q) \in Seq(S) /\ Last(q) \in ToSet(q) /\ Last(q) \in S
         /\ ToSet(Front(q)) \subseteq ToSet(q)
         /\ ToSet(q) \subseteq ToSet(Front(q)) \cup {Last(q)}
<1>1. Len(q) \in Nat /\ Len(q) # 0 /\ DOMAIN q = 1..Len(q)
  OBVIOUS
<1>2. /\ Front(q) \in Seq(S)
      /\ DOMAIN Front(q) = 1..Len(q) - 1
      /\ \A i \in 1..Len(q) - 1 : Front(q)[i] = q[i]
  BY <1>1 DEF Front
<1>3. Last(q) = q[Len(q)] /\ Len(q) \in DOMAIN q /\ q[Len(q)] \in S
  BY <1>1 DEF Last
<1>4. \A i \in DOMAIN q : i \in 1..Len(q) - 1 \/ i = Len(q)
  BY <1>1
<1> QED
  BY <1>1, <1>2, <1>3, <1>4 DEF ToSet

\* What is left once the first place an element is at is gone (a dict's pop, by key).
LEMMA Forgetting ==
  ASSUME NEW S, NEW q \in Seq(S), NEW e
  PROVE  /\ RemoveFirst(q, e) \in Seq(S)
         /\ ToSet(RemoveFirst(q, e)) \subseteq ToSet(q)
         /\ ToSet(q) \subseteq ToSet(RemoveFirst(q, e)) \cup {e}
<1>1. CASE ~ \E i \in 1..Len(q) : q[i] = e
  BY <1>1 DEF RemoveFirst
<1>2. CASE \E i \in 1..Len(q) : q[i] = e
  <2> DEFINE At == {i \in 1..Len(q) : q[i] = e}
             k == SelectInSeq(q, LAMBDA v : v = e)
             r == SubSeq(q, 1, k - 1) \o SubSeq(q, k + 1, Len(q))
  <2>1. k = Min(At)
    <3>1. At # {}
      BY <1>2
    <3> QED
      BY <3>1, Zenon DEF SelectInSeq
  <2>2. \E x \in At : \A y \in At : x =< y
    <3>1. At \in SUBSET Nat /\ At # {}
      BY <1>2
    <3> HIDE DEF At
    <3> QED
      BY <3>1, Least
  <2>3. k \in At
    BY <2>1, <2>2 DEF Min
  <2>4. RemoveFirst(q, e) = r
    BY <1>2 DEF RemoveFirst, RemoveAt
  <2> HIDE DEF k
  <2>5. k \in 1..Len(q) /\ q[k] = e /\ Len(q) \in Nat /\ DOMAIN q = 1..Len(q)
    BY <2>3
  <2>6. /\ r \in Seq(S) /\ Len(r) = Len(q) - 1
        /\ \A i \in 1..Len(q) - 1 : r[i] = IF i < k THEN q[i] ELSE q[i + 1]
    <3> DEFINE a == SubSeq(q, 1, k - 1)
               b == SubSeq(q, k + 1, Len(q))
    <3>1. /\ a \in Seq(S) /\ Len(a) = k - 1
          /\ \A i \in 1..k - 1 : a[i] = q[i]
      BY <2>5
    <3>2. /\ b \in Seq(S) /\ Len(b) = Len(q) - k
          /\ \A i \in 1..Len(q) - k : b[i] = q[i + k]
      <4>1. \A i \in k + 1 .. Len(q) : q[i] \in S
        BY <2>5
      <4>2. k + 1 \in Int /\ Len(q) \in Int /\ k \in Int /\ k <= Len(q)
        BY <2>5
      <4>3. /\ b \in Seq(S)
            /\ Len(b) = IF k + 1 <= Len(q) THEN Len(q) - (k + 1) + 1 ELSE 0
            /\ \A i \in 1 .. Len(q) - (k + 1) + 1 : b[i] = q[k + 1 + i - 1]
        BY <4>1, <4>2, SubSeqProperties, SMTT(40)
      <4> HIDE DEF b
      <4> QED
        BY <4>2, <4>3
    <3> HIDE DEF a, b
    <3>3. a \o b \in Seq(S) /\ Len(a \o b) = Len(a) + Len(b)
      BY ONLY <3>1, <3>2, ConcatProperties
    <3>4. \A i \in 1..Len(q) - 1 : (a \o b)[i] = IF i < k THEN a[i] ELSE b[i - (k - 1)]
      BY <2>5, <3>1, <3>2
    <3>5. \A i \in 1..Len(q) - 1 : (a \o b)[i] = IF i < k THEN q[i] ELSE q[i + 1]
      BY <2>5, <3>1, <3>2, <3>4
    <3>6. Len(a \o b) = Len(q) - 1
      BY <2>5, <3>1, <3>2, <3>3
    <3> QED
      BY <3>3, <3>5, <3>6 DEF a, b
  <2> HIDE DEF r
  <2>7. DOMAIN r = 1..Len(q) - 1
    BY <2>5, <2>6
  <2>8. ToSet(r) \subseteq ToSet(q)
    <3>1. ASSUME NEW i \in 1..Len(q) - 1
          PROVE  r[i] \in ToSet(q)
      <4>1. i \in DOMAIN q /\ i + 1 \in DOMAIN q
        BY <2>5
      <4>2. q[i] \in ToSet(q) /\ q[i + 1] \in ToSet(q)
        BY <4>1 DEF ToSet
      <4> QED
        BY <2>6, <4>2
    <3> QED
      BY <2>7, <3>1 DEF ToSet
  <2>9. ASSUME NEW i \in 1..Len(q), i # k
        PROVE  q[i] \in ToSet(r)
    <3>1. CASE i < k
      BY <2>5, <2>6, <2>7, <2>9, <3>1 DEF ToSet
    <3>2. CASE i > k
      <4>1. i - 1 \in DOMAIN r /\ r[i - 1] = q[i]
        BY <2>5, <2>6, <2>7, <2>9, <3>2
      <4> QED
        BY <4>1 DEF ToSet
    <3> QED
      BY <2>5, <2>9, <3>1, <3>2
  <2>10. ToSet(q) \subseteq ToSet(r) \cup {e}
    BY <2>5, <2>9 DEF ToSet
  <2> QED
    BY <2>4, <2>6, <2>8, <2>10
<1> QED
  BY <1>1, <1>2

\* What two joined hold.
LEMMA Joining ==
  ASSUME NEW S, NEW a \in Seq(S), NEW b \in Seq(S)
  PROVE  a \o b \in Seq(S) /\ ToSet(a \o b) = ToSet(a) \cup ToSet(b)
<1> DEFINE c == a \o b
<1>1. /\ c \in Seq(S) /\ Len(c) = Len(a) + Len(b)
      /\ \A i \in 1..Len(a) + Len(b) : c[i] = IF i <= Len(a) THEN a[i] ELSE b[i - Len(a)]
  BY ConcatProperties
<1> HIDE DEF c
<1>2. /\ Len(a) \in Nat /\ Len(b) \in Nat /\ DOMAIN a = 1..Len(a) /\ DOMAIN b = 1..Len(b)
      /\ DOMAIN c = 1..Len(a) + Len(b)
  BY <1>1
<1>3. ASSUME NEW i \in DOMAIN c
      PROVE  c[i] \in ToSet(a) \cup ToSet(b)
  <2>1. CASE i <= Len(a)
    BY <1>1, <1>2, <2>1 DEF ToSet
  <2>2. CASE ~(i <= Len(a))
    <3>1. i - Len(a) \in DOMAIN b /\ c[i] = b[i - Len(a)]
      BY <1>1, <1>2, <2>2
    <3> QED
      BY <3>1 DEF ToSet
  <2> QED
    BY <2>1, <2>2
<1>4. ASSUME NEW i \in DOMAIN a
      PROVE  a[i] \in ToSet(c)
  <2>1. i \in DOMAIN c /\ c[i] = a[i]
    BY <1>1, <1>2
  <2> QED
    BY <2>1 DEF ToSet
<1>5. ASSUME NEW i \in DOMAIN b
      PROVE  b[i] \in ToSet(c)
  <2>1. i + Len(a) \in DOMAIN c /\ c[i + Len(a)] = b[i]
    <3>1. i + Len(a) \in DOMAIN c /\ ~(i + Len(a) <= Len(a)) /\ (i + Len(a)) - Len(a) = i
      BY <1>2
    <3> QED
      BY <1>1, <1>2, <3>1
  <2> QED
    BY <2>1 DEF ToSet
<1>6. ToSet(c) = ToSet(a) \cup ToSet(b)
  BY <1>3, <1>4, <1>5 DEF ToSet
<1> QED
  BY <1>1, <1>6 DEF c

\* The function FlattenSeq goes by exists, a step at a time: there is no first place where it
\* could not be carried on from the one before.
LEMMA Flattens ==
  ASSUME NEW q, NEW n \in Nat
  PROVE  \E f : f = [i \in 1..n |-> IF i = 1 THEN q[i] ELSE f[i - 1] \o q[i]]
<1> DEFINE Goes(f, m) == f = [i \in 1..m |-> IF i = 1 THEN q[i] ELSE f[i - 1] \o q[i]]
           Stuck == {m \in Nat : ~ \E f : Goes(f, m)}
<1>1. SUFFICES ASSUME Stuck # {} PROVE FALSE
  BY <1>1
<1>2. PICK m \in Stuck : \A k \in Stuck : m <= k
  BY <1>1, Least
<1>3. CASE m = 0
  <2> DEFINE f == [i \in 1..0 |-> q[i]]
  <2>1. f = [i \in 1..0 |-> IF i = 1 THEN q[i] ELSE f[i - 1] \o q[i]]
    OBVIOUS
  <2> QED
    BY <1>3, <2>1
<1>4. CASE m # 0
  <2>0. Stuck \subseteq Nat
    OBVIOUS
  <2>1. m - 1 \in Nat /\ m \in Nat /\ m - 1 \notin Stuck
    <3> HIDE DEF Stuck
    <3>1. m \in Nat /\ m - 1 \in Nat /\ ~(m <= m - 1)
      BY <1>2, <1>4, <2>0
    <3> QED
      BY <1>2, <3>1
  <2>2. PICK g : g = [i \in 1..m - 1 |-> IF i = 1 THEN q[i] ELSE g[i - 1] \o q[i]]
    BY <2>1
  <2> DEFINE f == [i \in 1..m |-> IF i = 1 THEN q[i] ELSE g[i - 1] \o q[i]]
  <2>3. \A i \in 1..m - 1 : g[i] = IF i = 1 THEN q[i] ELSE g[i - 1] \o q[i]
    BY ONLY <2>2
  <2>4. \A i \in 1..m : f[i] = IF i = 1 THEN q[i] ELSE g[i - 1] \o q[i]
    OBVIOUS
  <2>5. \A i \in 1..m : i # 1 => i - 1 \in 1..m - 1 /\ i - 1 \in 1..m
    BY ONLY <2>1
  <2>6. \A i \in 1..m - 1 : i \in 1..m
    BY ONLY <2>1
  <2> HIDE DEF f
  <2>7. \A i \in 1..m - 1 : f[i] = g[i]
    BY ONLY <2>3, <2>4, <2>6
  <2>8. \A i \in 1..m : f[i] = IF i = 1 THEN q[i] ELSE f[i - 1] \o q[i]
    BY ONLY <2>4, <2>5, <2>7, Zenon
  <2>9. f = [i \in 1..m |-> IF i = 1 THEN q[i] ELSE f[i - 1] \o q[i]]
    <3>1. f = [i \in 1..m |-> f[i]]
      BY DEF f
    <3> QED
      BY ONLY <2>8, <3>1
  <2> QED
    BY <2>1, <2>9
<1> QED
  BY <1>3, <1>4

\* So it holds what the sequences it is of do.
LEMMA Flattening ==
  ASSUME NEW S, NEW q \in Seq(Seq(S))
  PROVE  /\ FlattenSeq(q) \in Seq(S)
         /\ \A i \in DOMAIN q : ToSet(q[i]) \subseteq ToSet(FlattenSeq(q))
         /\ \A e \in ToSet(FlattenSeq(q)) : \E i \in DOMAIN q : e \in ToSet(q[i])
<1> DEFINE n == Len(q)
           F == CHOOSE f : f = [i \in 1..n |-> IF i = 1 THEN q[i] ELSE f[i - 1] \o q[i]]
<1>0. n \in Nat /\ DOMAIN q = 1..n /\ \A i \in 1..n : q[i] \in Seq(S)
  OBVIOUS
<1>1. CASE n = 0
  BY <1>0, <1>1 DEF FlattenSeq, ToSet
<1>2. CASE n # 0
  <2>1. FlattenSeq(q) = F[n]
    BY <1>2 DEF FlattenSeq
  <2>2. F = [i \in 1..n |-> IF i = 1 THEN q[i] ELSE F[i - 1] \o q[i]]
    <3>1. \E f : f = [i \in 1..n |-> IF i = 1 THEN q[i] ELSE f[i - 1] \o q[i]]
      BY <1>0, Flattens
    <3> QED
      BY <3>1
  <2> HIDE DEF F, n
  <2> DEFINE Good(m) == /\ F[m] \in Seq(S)
                        /\ \A i \in 1..m : ToSet(q[i]) \subseteq ToSet(F[m])
                        /\ \A e \in ToSet(F[m]) : \E i \in 1..m : e \in ToSet(q[i])
             Bad == {m \in 1..n : ~Good(m)}
  <2>3. Bad = {}
    <3>1. SUFFICES ASSUME Bad # {} PROVE FALSE
      OBVIOUS
    <3>2. Bad \in SUBSET Nat
      BY <1>0
    <3>3. PICK m \in Bad : \A k \in Bad : m <= k
      <4> HIDE DEF Bad
      <4> QED
        BY <3>1, <3>2, Least
    <3>4. m \in 1..n /\ m \in Nat
      BY <1>0, <3>3
    <3>5. CASE m = 1
      <4>1. F[m] = q[m]
        BY <2>2, <3>4, <3>5
      <4>2. Good(m)
        BY <1>0, <3>4, <3>5, <4>1
      <4> QED
        BY <3>3, <4>2
    <3>6. CASE m # 1
      <4>0. m - 1 \in 1..n
        BY ONLY <1>0, <3>4, <3>6
      <4>1. F[m] = F[m - 1] \o q[m] /\ m - 1 \in 1..n
        <5>1. \A i \in 1..n : F[i] = IF i = 1 THEN q[i] ELSE F[i - 1] \o q[i]
          BY ONLY <2>2
        <5> QED
          BY ONLY <3>4, <3>6, <4>0, <5>1
      <4>2. m - 1 \notin Bad
        <5> HIDE DEF Bad
        <5> QED
          BY ONLY <3>3, <3>4
      <4>3. Good(m - 1)
        BY <4>1, <4>2
      <4> HIDE DEF Bad
      <4>4. q[m] \in Seq(S)
        BY <1>0, <3>4
      <4>5. F[m] \in Seq(S) /\ ToSet(F[m]) = ToSet(F[m - 1]) \cup ToSet(q[m])
        <5>1. F[m - 1] \in Seq(S)
          BY <4>3
        <5> QED
          BY ONLY <4>1, <4>4, <5>1, Joining
      <4>6. \A i \in 1..m : i \in 1..m - 1 \/ i = m
        BY ONLY <3>4
      <4>7. \A i \in 1..m - 1 : i \in 1..m
        BY ONLY <3>4
      <4>8. m \in 1..m
        BY <3>4, <3>6, <1>0
      <4>9. Good(m)
        BY <4>3, <4>5, <4>6, <4>7, <4>8
      <4> QED
        BY <3>3, <4>9 DEF Bad
    <3> QED
      BY <3>5, <3>6
  <2>4. n \in 1..n
    BY <1>0, <1>2
  <2>5. Good(n)
    BY <2>3, <2>4
  <2> QED
    BY <1>0, <2>1, <2>5
<1> QED
  BY <1>1, <1>2

-----------------------------------------------------------------------------
(* How often each session was closed. *)

\* A session has been closed once if its Opened says it is closed, and not yet if it does not.
Counted(s) == closes[s] = IF closed[s] THEN 1 ELSE 0

ClosesInv ==
  /\ closed \in [Session -> BOOLEAN]
  /\ closes \in [Session -> Nat]
  /\ dropped \subseteq Session
  /\ \A s \in Session : Counted(s)

LEMMA InitCloses == Init => ClosesInv
  BY DEF Init, ClosesInv, Counted

LEMMA SameCloses ==
  ASSUME ClosesInv, UNCHANGED <<closed, closes>>, dropped' \subseteq dropped
  PROVE  ClosesInv'
  BY DEF ClosesInv, Counted

\* A close begins only of a session none has begun of: by whatever is letting go of it ...
LEMMA ReleaseCloses ==
  ASSUME ClosesInv, NEW s, Release(s)
  PROVE  ClosesInv'
<1>1. closed' \in [Session -> BOOLEAN] /\ closes' \in [Session -> Nat] /\ dropped' \subseteq Session
  <2>1. closed' = [closed EXCEPT ![s] = TRUE] /\ closes' = [closes EXCEPT ![s] = closes[s] + 1]
    BY DEF Release
  <2>2. closed' \in [Session -> BOOLEAN] /\ dropped' \subseteq Session
    BY <2>1 DEF ClosesInv, Release
  <2>3. s \in Session => closes[s] + 1 \in Nat
    BY DEF ClosesInv
  <2>4. closes' \in [Session -> Nat]
    BY <2>1, <2>3 DEF ClosesInv
  <2> QED
    BY <2>2, <2>4
<1>2. ASSUME NEW t \in Session
      PROVE  Counted(t)'
  <2>1. CASE t = s
    <3>1. Counted(t) /\ ~closed[t]
      BY <2>1 DEF ClosesInv, Release, MayShut
    <3>2. closes[t] = 0
      BY <3>1 DEF Counted
    <3>3. closed'[t] = TRUE
      BY <2>1 DEF ClosesInv, Release
    <3>4. closes'[t] = 1
      BY <2>1, <3>2 DEF ClosesInv, Release
    <3> QED
      BY <3>3, <3>4 DEF Counted
  <2>2. CASE t # s
    BY <2>2 DEF ClosesInv, Counted, Release
  <2> QED
    BY <2>1, <2>2
<1> QED
  BY <1>1, <1>2 DEF ClosesInv

\* ... or by the loop, of those whose view went.
LEMMA DrainCloses ==
  ASSUME ClosesInv, Drain
  PROVE  ClosesInv'
<1> DEFINE shut == {s \in dropped : MayShut(s)}
<1>1. /\ closed' = [s \in Session |-> closed[s] \/ s \in shut]
      /\ closes' = [s \in Session |-> closes[s] + (IF s \in shut THEN 1 ELSE 0)]
      /\ dropped' = {}
  BY DEF Drain
<1>2. closed' \in [Session -> BOOLEAN] /\ closes' \in [Session -> Nat] /\ dropped' \subseteq Session
  BY <1>1 DEF ClosesInv
<1>3. ASSUME NEW t \in Session
      PROVE  Counted(t)'
  <2>1. CASE t \in shut
    <3>1. ~closed[t] /\ closes[t] = 0
      <4>1. Counted(t) /\ ~closed[t]
        BY <2>1 DEF ClosesInv, MayShut
      <4> QED
        BY <4>1 DEF Counted
    <3>2. closed'[t] = TRUE
      BY <1>1, <2>1
    <3>3. closes'[t] = 1
      BY <1>1, <2>1, <3>1
    <3> QED
      BY <3>2, <3>3 DEF Counted
  <2>2. CASE t \notin shut
    <3>1. closed'[t] = closed[t] /\ closes'[t] = closes[t]
      BY <1>1, <2>2 DEF ClosesInv
    <3> QED
      BY <3>1 DEF ClosesInv, Counted
  <2> QED
    BY <2>1, <2>2
<1> QED
  BY <1>2, <1>3 DEF ClosesInv

LEMMA NextCloses == ClosesInv /\ [Next]_vars => ClosesInv'
<1> SUFFICES ASSUME ClosesInv, [Next]_vars PROVE ClosesInv'
  OBVIOUS
<1>1. CASE UNCHANGED sessions
  BY <1>1, SameCloses DEF sessions
<1>2. CASE UNCHANGED <<closed, closes>> /\ dropped' \subseteq dropped
  BY <1>2, SameCloses
<1>3. CASE Flow
  <2>1. ASSUME NEW c \in Call, NEW p \in Call \cup {Top}, CallFlow(c, p)
        PROVE  ClosesInv'
    BY <1>1, <2>1 DEF CallFlow
  <2>2. ASSUME NEW s \in Session, NEW c \in Call, Open(s, c)
        PROVE  ClosesInv'
    BY <1>2, <2>2 DEF Open
  <2>3. ASSUME NEW s \in Session, ViewGoes(s)
        PROVE  ClosesInv'
    BY <2>3 DEF ViewGoes, ClosesInv, Counted
  <2> QED
    BY <1>3, <2>1, <2>2, <2>3 DEF Flow
<1>4. CASE Engine
  <2>1. ASSUME NEW c \in Call, EndCall(c) \/ Take(c) \/ Climb(c)
        PROVE  ClosesInv'
    BY <1>1, <2>1 DEF EndCall, Take, Climb
  <2>2. ASSUME NEW c \in Call, ReapOne(c)
        PROVE  ClosesInv'
    BY <1>1, <2>2, ReleaseCloses DEF ReapOne
  <2>3. ASSUME NEW s \in Session, Opened(s) \/ OpenFails(s) \/ Shut(s)
        PROVE  ClosesInv'
    BY <1>2, <2>3 DEF Opened, OpenFails, Shut
  <2>4. CASE DrainSoon \/ Settle
    BY <2>4, DrainCloses DEF DrainSoon, Settle
  <2>5. CASE RunEnds \/ TakeLeft \/ Close
    BY <1>1, <2>5 DEF RunEnds, TakeLeft, Close
  <2>6. CASE ReleaseLeft
    BY <1>1, <2>6, ReleaseCloses DEF ReleaseLeft
  <2> QED
    BY <1>4, <2>1, <2>2, <2>3, <2>4, <2>5, <2>6 DEF Engine
<1>5. CASE UNCHANGED vars
  BY <1>1, <1>5 DEF vars
<1> QED
  BY <1>3, <1>4, <1>5 DEF Next

-----------------------------------------------------------------------------
(* The tree of calls. *)

\* A cascade is at a call; a call is over, and what it made let go of; the calls under one
\* that are not; and the call itself, until it has ended.
Reaped(n) == \E d \in Call : reaping[d] # None /\ reaping[d].at = n
Out(c) == ended[c] /\ live[c] = 0 /\ ~Reaped(c)
Own(c) == IF c # Top /\ ended[c] THEN 0 ELSE 1
Waited(c) == {b \in Made : parent[b] = c /\ ~Out(b)}

TreeTypes ==
  /\ parent \in [Call -> Call \cup {Top, None}]
  /\ ended \in [Call \cup {Top} -> BOOLEAN]
  /\ live \in [Call \cup {Top} -> Nat]
  /\ reaping \in [Call -> Reaping \cup {None}]

\* A call is made under one made before it, so that none is above itself.
Treed ==
  /\ IsFiniteSet(Made)
  /\ \A c \in Made : parent[c] \in Made \cup {Top} /\ c \notin Above(parent[c])
  /\ \A c \in Call : ended[c] => c \in Made

\* Call.live counts the call itself, until it has ended, and the calls under it not let go of.
Counts ==
  \A c \in Made \cup {Top} : live[c] = Cardinality(Waited(c)) + Own(c)

\* A cascade is at a call nothing goes on under, which no other one is at.
Cascades ==
  \A c \in Call : reaping[c] # None =>
    /\ ended[c]
    /\ reaping[c].at \in Made /\ ended[reaping[c].at] /\ live[reaping[c].at] = 0
    /\ ~reaping[c].taken => reaping[c].todo = <<>>
    /\ \A d \in Call : reaping[d] # None /\ reaping[d].at = reaping[c].at => d = c

TreeInv == TreeTypes /\ Treed /\ Counts /\ Cascades

\* What is above a call is the least that holds it and what any of it is called from.
LEMMA AboveIs ==
  ASSUME TreeTypes, NEW c \in Call \cup {Top}
  PROVE  /\ c \in Above(c) /\ Above(c) \subseteq Call \cup {Top}
         /\ \A x \in Above(c) \cap Made : parent[x] \in Above(c)
<1>1. c \in Above(c) /\ Above(c) \subseteq Call \cup {Top}
  BY DEF Above
<1>2. ASSUME NEW x \in Above(c) \cap Made
      PROVE  parent[x] \in Above(c)
  <2>1. parent[x] \in Call \cup {Top} /\ x \in Made
    BY DEF TreeTypes, Made
  <2>2. ASSUME NEW up \in SUBSET (Call \cup {Top}),
               c \in up /\ \A y \in up \cap Made : parent[y] \in up
        PROVE  parent[x] \in up
    <3>1. x \in up
      BY <2>2 DEF Above
    <3> QED
      BY ONLY <2>1, <2>2, <3>1
  <2> QED
    BY ONLY <2>1, <2>2 DEF Above
<1> QED
  BY <1>1, <1>2

\* ... and it is the least.
LEMMA AboveLeast ==
  ASSUME NEW c \in Call \cup {Top}, NEW up \in SUBSET (Call \cup {Top}), c \in up,
         \A x \in up \cap Made : parent[x] \in up
  PROVE  Above(c) \subseteq up
BY DEF Above

\* Above a call made are calls made, and the one over them all.
LEMMA AboveMade ==
  ASSUME TreeTypes, Treed, NEW c \in Made \cup {Top}
  PROVE  Above(c) \subseteq Made \cup {Top}
<1> DEFINE up == Made \cup {Top}
<1>1. c \in Call \cup {Top} /\ up \in SUBSET (Call \cup {Top}) /\ c \in up
  BY DEF Made
<1>2. \A x \in up \cap Made : parent[x] \in up
  BY DEF Treed
<1> HIDE DEF up
<1>4. Above(c) \subseteq up
  BY <1>1, <1>2, AboveLeast
<1> QED
  BY <1>4 DEF up

\* Above a call is itself and what is above the one it was called from.
LEMMA AboveParent ==
  ASSUME TreeTypes, Treed, NEW c \in Made
  PROVE  Above(c) = {c} \cup Above(parent[c])
<1> DEFINE p == parent[c]
           up == {c} \cup Above(p)
<1>1. c \in Call /\ p \in Call \cup {Top}
  BY DEF Made, TreeTypes
<1>2. /\ p \in Above(p) /\ Above(p) \subseteq Call \cup {Top}
      /\ \A x \in Above(p) \cap Made : parent[x] \in Above(p)
  BY <1>1, AboveIs
<1>3. up \in SUBSET (Call \cup {Top}) /\ c \in up /\ \A x \in up \cap Made : parent[x] \in up
  BY <1>1, <1>2
<1>4. Above(c) \subseteq up
  <2> HIDE DEF up, p
  <2> QED
    BY <1>1, <1>3, AboveLeast
<1>5. /\ c \in Above(c) /\ Above(c) \subseteq Call \cup {Top}
      /\ \A x \in Above(c) \cap Made : parent[x] \in Above(c)
  BY <1>1, AboveIs
<1>6. p \in Above(c)
  BY <1>5
<1>7. Above(p) \subseteq Above(c)
  <2> DEFINE a == Above(c)
  <2>1. a \in SUBSET (Call \cup {Top}) /\ p \in a /\ \A x \in a \cap Made : parent[x] \in a
    BY <1>5, <1>6
  <2> HIDE DEF a, p
  <2>2. Above(p) \subseteq a
    BY <1>1, <2>1, AboveLeast
  <2> QED
    BY <2>2 DEF a
<1> QED
  BY <1>4, <1>5, <1>7

\* A call that is made leaves what is above the others as it was.
LEMMA AboveKept ==
  ASSUME TreeTypes, Treed, TreeTypes', NEW b \in Call, b \notin Made, NEW p \in Call \cup {Top},
         parent' = [parent EXCEPT ![b] = p], NEW c \in Made \cup {Top}
  PROVE  Above(c)' = Above(c)
<1>1. Above(c) \subseteq Made \cup {Top} /\ b \notin Above(c) /\ c \in Call \cup {Top}
  BY AboveMade, CallTreeAssumption DEF Made
<1>2. Made' = Made \cup {b} /\ \A x \in Made : parent'[x] = parent[x]
  BY CallTreeAssumption DEF Made, TreeTypes
<1>3. /\ c \in Above(c) /\ Above(c) \subseteq Call \cup {Top}
      /\ \A x \in Above(c) \cap Made : parent[x] \in Above(c)
  BY <1>1, AboveIs
<1>4. ASSUME NEW e \in Above(c)
      PROVE  e \in Above(c)'
  <2>1. ASSUME NEW up \in SUBSET (Call \cup {Top}),
               c \in up /\ \A x \in up \cap Made' : parent'[x] \in up
        PROVE  e \in up
    <3>1. \A x \in up \cap Made : parent[x] \in up
      BY <1>2, <2>1
    <3>2. Above(c) \subseteq up
      BY <1>1, <2>1, <3>1, AboveLeast
    <3> QED
      BY <3>2
  <2>2. e \in Call \cup {Top}
    BY <1>3
  <2> QED
    BY ONLY <2>1, <2>2, Zenon DEF Above
<1>5. ASSUME NEW e \in Above(c)'
      PROVE  e \in Above(c)
  <2>1. \A x \in Above(c) \cap Made' : parent'[x] \in Above(c)
    BY <1>1, <1>2, <1>3
  <2> QED
    BY <1>3, <1>5, <2>1 DEF Above
<1> QED
  BY <1>4, <1>5

\* While no call is made, what is above each is the same.
LEMMA AboveSame ==
  ASSUME parent' = parent
  PROVE  Made' = Made /\ \A c : Above(c)' = Above(c)
<1>1. Made' = Made
  BY DEF Made
<1> QED
  BY <1>1 DEF Above

\* A step that makes no call leaves the tree one.
LEMMA TreeKept ==
  ASSUME TreeTypes, Treed, parent' = parent, \A c \in Call : ended'[c] => ended[c] \/ c \in Made
  PROVE  Treed'
BY AboveSame DEF Treed

\* The calls waited for by one are finitely many, and the same while none of them is let go of.
LEMMA WaitedType ==
  ASSUME Treed, NEW c
  PROVE  IsFiniteSet(Waited(c)) /\ Cardinality(Waited(c)) \in Nat
<1>1. Waited(c) \subseteq Made
  BY DEF Waited
<1> QED
  BY <1>1, FS_Subset, FS_CardinalityType DEF Treed

LEMMA WaitedSame ==
  ASSUME parent' = parent, \A b \in Made : Out(b)' <=> Out(b), NEW c
  PROVE  Waited(c)' = Waited(c)
<1>1. Made' = Made
  BY AboveSame
<1> QED
  BY <1>1 DEF Waited

\* A call let go of is waited for by the one it was called from no more, and by no other.
LEMMA WaitedLess ==
  ASSUME Treed, parent' = parent, NEW n \in Made, ~Out(n), Out(n)',
         \A b \in Made \ {n} : Out(b)' <=> Out(b), NEW c
  PROVE  Cardinality(Waited(c))' = Cardinality(Waited(c)) - (IF c = parent[n] THEN 1 ELSE 0)
<1>1. Made' = Made
  BY AboveSame
<1>2. IsFiniteSet(Waited(c)) /\ Cardinality(Waited(c)) \in Nat
  BY WaitedType
<1>3. CASE c = parent[n]
  <2>1. n \in Waited(c) /\ Waited(c)' = Waited(c) \ {n}
    BY <1>1, <1>3 DEF Waited
  <2> QED
    BY <1>2, <1>3, <2>1, FS_RemoveElement
<1>4. CASE c # parent[n]
  <2>1. Waited(c)' = Waited(c)
    BY <1>1, <1>4 DEF Waited
  <2> QED
    BY <1>2, <1>4, <2>1
<1> QED
  BY <1>3, <1>4

\* A call let go of is counted out of the one it was called from, which is over with that only
\* where a cascade is at it then.
LEMMA CountsLess ==
  ASSUME TreeTypes, Treed, Counts, parent' = parent, NEW n \in Made, ~Out(n), Out(n)',
         live'[n] = live[n] - Own(n), live'[parent[n]] = live[parent[n]] - 1,
         \A c \in (Made \cup {Top}) \ {n, parent[n]} : live'[c] = live[c],
         \A c \in (Made \cup {Top}) \ {n} : ended'[c] = ended[c],
         \A c \in Made \ {n, parent[n]} : Reaped(c)' <=> Reaped(c),
         live[parent[n]] = 1 /\ ended[parent[n]] /\ parent[n] # Top => Reaped(parent[n])'
  PROVE  Counts' /\ \A b \in Made \ {n} : Out(b)' <=> Out(b)
<1> DEFINE p == parent[n]
<1>1. p \in Made \cup {Top} /\ p # n /\ n # Top
  <2>1. p \in Made \cup {Top} /\ n \notin Above(p) /\ n \in Call
    BY DEF Treed, Made
  <2>2. p \in Above(p)
    BY <2>1, AboveIs DEF Made
  <2> QED
    BY <2>1, <2>2, CallTreeAssumption
<1>2. n \in Waited(p) /\ IsFiniteSet(Waited(p)) /\ Cardinality(Waited(p)) \in Nat
  BY WaitedType DEF Waited
<1>3. Cardinality(Waited(p)) >= 1
  <2>1. Waited(p) # {}
    BY <1>2
  <2>2. Cardinality(Waited(p)) # 0
    BY <1>2, <2>1, FS_EmptySet
  <2> QED
    BY <1>2, <2>2
<1>4. live[p] = Cardinality(Waited(p)) + Own(p) /\ Own(p) \in {0, 1}
  BY <1>1 DEF Counts, Own
<1>5. live[p] >= 1 /\ live[p] \in Nat
  BY <1>2, <1>3, <1>4
<1>6. p \in Made => ~Out(p) /\ ~Out(p)'
  <2> SUFFICES ASSUME p \in Made PROVE ~Out(p) /\ ~Out(p)'
    OBVIOUS
  <2>1. ~Out(p)
    BY <1>5 DEF Out
  <2>2. p # Top /\ ended'[p] = ended[p] /\ live'[p] = live[p] - 1
    BY <1>1, CallTreeAssumption DEF Made
  <2>3. CASE live[p] = 1 /\ ended[p]
    BY <2>2, <2>3 DEF Out
  <2>4. CASE live[p] # 1
    BY <1>5, <2>2, <2>4 DEF Out
  <2>5. CASE ~ended[p]
    BY <2>2, <2>5 DEF Out
  <2> QED
    BY <2>1, <2>3, <2>4, <2>5
<1>7. \A b \in Made \ {n} : Out(b)' <=> Out(b)
  <2> SUFFICES ASSUME NEW b \in Made \ {n} PROVE Out(b)' <=> Out(b)
    OBVIOUS
  <2>1. CASE b = p
    BY <1>6, <2>1
  <2>2. CASE b # p
    BY <2>2 DEF Out
  <2> QED
    BY <2>1, <2>2
<1>8. ASSUME NEW c \in Made \cup {Top}
      PROVE  live'[c] = Cardinality(Waited(c))' + Own(c)'
  <2>1. Cardinality(Waited(c))' = Cardinality(Waited(c)) - (IF c = p THEN 1 ELSE 0)
    BY <1>7, WaitedLess
  <2>2. live[c] = Cardinality(Waited(c)) + Own(c) /\ Cardinality(Waited(c)) \in Nat
    BY WaitedType DEF Counts
  <2>3. CASE c = n
    <3>1. Own(c)' = 0 /\ Own(c) \in {0, 1}
      BY <1>1, <2>3 DEF Own, Out
    <3> QED
      BY <1>1, <2>1, <2>2, <2>3, <3>1
  <2>4. CASE c = p
    <3>1. Own(c)' = Own(c) /\ Own(c) \in {0, 1}
      BY <1>1, <2>4 DEF Own
    <3> QED
      BY <1>1, <2>1, <2>2, <2>4, <3>1
  <2>5. CASE c # n /\ c # p
    <3>1. Own(c)' = Own(c) /\ Own(c) \in {0, 1} /\ live'[c] = live[c]
      BY <2>5 DEF Own
    <3> QED
      BY <2>1, <2>2, <2>5, <3>1
  <2> QED
    BY <2>3, <2>4, <2>5
<1> QED
  BY <1>7, <1>8, AboveSame DEF Counts

-----------------------------------------------------------------------------
(* What each step does to the tree. *)

\* The same of a step of nothing but sessions.
LEMMA TreeSame ==
  ASSUME TreeInv, UNCHANGED <<tree, reaping>>
  PROVE  TreeInv'
<1>1. parent' = parent /\ ended' = ended /\ live' = live /\ reaping' = reaping
  BY DEF tree
<1>2. TreeTypes' /\ Treed'
  BY <1>1, TreeKept DEF TreeInv, TreeTypes
<1>3. \A c : (Out(c)' <=> Out(c)) /\ Own(c)' = Own(c)
  BY <1>1 DEF Out, Reaped, Own
<1>4. Counts'
  <2>1. \A c : Waited(c)' = Waited(c)
    BY <1>1, <1>3, WaitedSame
  <2> QED
    BY <1>1, <1>3, <2>1, AboveSame DEF TreeInv, Counts
<1>5. Cascades'
  BY <1>1, AboveSame DEF TreeInv, Cascades
<1> QED
  BY <1>2, <1>4, <1>5 DEF TreeInv

\* Where no call is let go of, those whose count changes are those whose own part in it does.
LEMMA CountsSame ==
  ASSUME TreeTypes, Treed, Counts, parent' = parent, \A b \in Made : Out(b)' <=> Out(b),
         \A c \in Made \cup {Top} : live'[c] - Own(c)' = live[c] - Own(c),
         \A c \in Made \cup {Top} : live'[c] \in Int
  PROVE  Counts'
<1> SUFFICES ASSUME NEW c \in Made \cup {Top}
             PROVE  live'[c] = Cardinality(Waited(c))' + Own(c)'
  BY AboveSame DEF Counts
<1>1. Waited(c)' = Waited(c) /\ Cardinality(Waited(c)) \in Nat
  BY WaitedSame, WaitedType
<1>2. live[c] = Cardinality(Waited(c)) + Own(c) /\ live'[c] - Own(c)' = live[c] - Own(c)
  BY DEF Counts
<1>3. Own(c) \in Int /\ Own(c)' \in Int /\ live'[c] \in Int
  BY DEF Own
<1> QED
  BY <1>1, <1>2, <1>3

\* The steps of calls and of cascades.
LEMMA CallFlowTree ==
  ASSUME TreeInv, NEW c \in Call, NEW p \in Call \cup {Top}, CallFlow(c, p)
  PROVE  TreeInv'
<1>0. TreeTypes /\ Treed /\ Counts /\ Cascades
  BY DEF TreeInv
<1>1. /\ c \notin Made /\ p \in Made \cup {Top} /\ p # c
      /\ parent' = [parent EXCEPT ![c] = p] /\ live' = [live EXCEPT ![c] = 1, ![p] = live[p] + 1]
      /\ ended' = ended /\ reaping' = reaping
  BY CallTreeAssumption DEF CallFlow, Made
<1>2. ~ended[p] /\ ~ended[c]
  <2>1. CASE p = Top
    BY <1>0, <1>1, <2>1 DEF CallFlow, Treed
  <2>2. CASE p # Top
    <3>1. Going(p) /\ p \in Above(p)
      BY <1>0, <2>2, AboveIs DEF CallFlow
    <3> QED
      BY <1>0, <1>1, <3>1 DEF Going, Treed
  <2> QED
    BY <2>1, <2>2
<1>3. TreeTypes'
  <2>1. live' \in [Call \cup {Top} -> Nat]
    BY <1>0, <1>1 DEF TreeTypes
  <2>2. parent' \in [Call -> Call \cup {Top, None}]
    BY <1>0, <1>1 DEF TreeTypes
  <2> QED
    BY <1>0, <1>1, <2>1, <2>2 DEF TreeTypes
<1>4. /\ Made' = Made \cup {c} /\ parent'[c] = p /\ \A b \in Made : parent'[b] = parent[b]
  BY <1>0, <1>1, CallTreeAssumption DEF Made, TreeTypes
<1>5. \A b \in Made \cup {Top} : Above(b)' = Above(b)
  BY <1>0, <1>1, <1>3, AboveKept
<1>6. Treed'
  <2>1. IsFiniteSet(Made')
    BY <1>0, <1>4, FS_AddElement DEF Treed
  <2>2. p \in Made' \cup {Top} /\ c \notin Above(parent[c])'
    <3>1. Above(p) \subseteq Made \cup {Top}
      BY <1>0, <1>1, AboveMade
    <3>2. Above(p)' = Above(p) /\ c # Top
      BY <1>1, <1>5, CallTreeAssumption
    <3>3. Above(parent[c])' = Above(p)'
      BY <1>4 DEF Above
    <3> QED
      BY <1>1, <1>4, <3>1, <3>2, <3>3
  <2>3. ASSUME NEW b \in Made
        PROVE  parent'[b] \in Made' \cup {Top} /\ b \notin Above(parent[b])'
    <3>1. PICK q \in Made \cup {Top} : q = parent[b] /\ b \notin Above(q)
      BY <1>0 DEF Treed
    <3>2. parent'[b] = q
      BY <1>4, <3>1
    <3>3. Above(parent[b])' = Above(q)'
      BY <3>2 DEF Above
    <3>4. Above(q)' = Above(q)
      BY <1>5
    <3> QED
      BY <1>4, <3>1, <3>2, <3>3, <3>4
  <2>4. \A b \in Made' : parent'[b] \in Made' \cup {Top} /\ b \notin Above(parent[b])'
    BY <1>4, <2>2, <2>3
  <2>5. \A b \in Call : ended'[b] => b \in Made'
    BY <1>0, <1>1, <1>4 DEF Treed
  <2> QED
    BY <2>1, <2>4, <2>5 DEF Treed
<1>7. /\ \A b \in Made : Out(b)' <=> Out(b)
      /\ \A b \in Call \cup {Top} : Own(b)' = Own(b)
      /\ ~Out(c)'
  <2>1. \A b : Reaped(b)' <=> Reaped(b)
    BY <1>1 DEF Reaped
  <2>2. \A b \in Made : b # p => live'[b] = live[b] /\ ended'[b] = ended[b]
    BY <1>0, <1>1 DEF TreeTypes, Made
  <2>3. ~Out(p) /\ ~Out(p)'
    BY <1>1, <1>2 DEF Out
  <2>4. \A b \in Made : Out(b)' <=> Out(b)
    BY <2>1, <2>2, <2>3 DEF Out
  <2> QED
    BY <1>1, <1>2, <2>4 DEF Out, Own
<1>8. Counts'
  <2> SUFFICES ASSUME NEW b \in Made' \cup {Top}
               PROVE  live'[b] = Cardinality(Waited(b)') + Own(b)'
    BY DEF Counts
  <2>1. CASE b = c
    <3>1. Waited(c)' = {}
      <4>1. \A d \in Made' : parent'[d] # c
        BY <1>0, <1>1, <1>4, CallTreeAssumption DEF Treed, Made
      <4> QED
        BY <4>1 DEF Waited
    <3>2. live'[c] = 1 /\ Own(c)' = 1
      BY <1>0, <1>1, <1>2, CallTreeAssumption DEF TreeTypes, Own
    <3> QED
      BY <2>1, <3>1, <3>2, FS_EmptySet
  <2>2. CASE b = p
    <3>1. Waited(p)' = Waited(p) \cup {c} /\ c \notin Waited(p)
      BY <1>1, <1>4, <1>7 DEF Waited
    <3>2. IsFiniteSet(Waited(p)) /\ Cardinality(Waited(p)) \in Nat
      BY <1>0, WaitedType
    <3>3. Cardinality(Waited(p)') = Cardinality(Waited(p)) + 1
      BY <3>1, <3>2, FS_AddElement
    <3>4. live'[p] = live[p] + 1 /\ live[p] = Cardinality(Waited(p)) + Own(p) /\ Own(p) \in Nat
      BY <1>0, <1>1 DEF TreeTypes, Counts, Own
    <3>5. Own(p)' = Own(p)
      BY <1>7
    <3> QED
      BY <2>2, <3>2, <3>3, <3>4, <3>5
  <2>3. CASE b # c /\ b # p
    <3>1. b \in Made \cup {Top} /\ live'[b] = live[b] /\ Own(b)' = Own(b)
      BY <1>0, <1>1, <1>4, <1>7, <2>3 DEF TreeTypes, Made
    <3>2. Waited(b)' = Waited(b)
      BY <1>4, <1>7, <2>3 DEF Waited
    <3> QED
      BY <1>0, <3>1, <3>2 DEF Counts
  <2> QED
    BY <2>1, <2>2, <2>3
<1>9. Cascades'
  <2>1. \A b \in Call : reaping[b] # None => reaping[b].at # p /\ reaping[b].at # c
    BY <1>0, <1>1, <1>2 DEF Cascades
  <2>2. \A b \in Made : b # p => live'[b] = live[b]
    BY <1>0, <1>1 DEF TreeTypes, Made
  <2>3. Made \subseteq Made'
    BY <1>4
  <2> SUFFICES ASSUME NEW d \in Call, reaping'[d] # None
               PROVE  /\ ended'[d]
                      /\ reaping'[d].at \in Made' /\ ended'[reaping'[d].at]
                      /\ live'[reaping'[d].at] = 0
                      /\ ~reaping'[d].taken => reaping'[d].todo = <<>>
                      /\ \A e \in Call :
                           reaping'[e] # None /\ reaping'[e].at = reaping'[d].at => e = d
    BY DEF Cascades
  <2>4. reaping' = reaping /\ ended' = ended
    BY <1>1
  <2>5. reaping[d] # None
    BY <2>4
  <2>6. /\ ended[d]
        /\ reaping[d].at \in Made /\ ended[reaping[d].at] /\ live[reaping[d].at] = 0
        /\ ~reaping[d].taken => reaping[d].todo = <<>>
        /\ \A e \in Call : reaping[e] # None /\ reaping[e].at = reaping[d].at => e = d
    BY ONLY <1>0, <2>5, d \in Call DEF Cascades
  <2>7. live'[reaping[d].at] = 0
    BY ONLY <2>1, <2>2, <2>5, <2>6, d \in Call
  <2> QED
    BY ONLY <2>3, <2>4, <2>6, <2>7
<1> QED
  BY <1>3, <1>6, <1>8, <1>9 DEF TreeInv

\* A call is not over itself, and no call is cleaned up after before it has ended.
LEMMA StillGoing ==
  ASSUME TreeInv, NEW c \in Made, ~ended[c]
  PROVE  /\ c \in Call /\ c # Top /\ reaping[c] = None /\ ~Reaped(c) /\ ~Out(c)
         /\ Own(c) = 1 /\ live[c] = Cardinality(Waited(c)) + 1 /\ Cardinality(Waited(c)) \in Nat
         /\ parent[c] \in Made \cup {Top} /\ parent[c] # c
<1>1. c \in Call /\ c # Top
  BY CallTreeAssumption DEF Made
<1>2. reaping[c] = None /\ ~Reaped(c)
  BY <1>1 DEF TreeInv, Cascades, Reaped
<1>3. ~Out(c) /\ Own(c) = 1
  BY <1>1 DEF Out, Own
<1>4. live[c] = Cardinality(Waited(c)) + 1 /\ Cardinality(Waited(c)) \in Nat
  BY <1>3, WaitedType DEF TreeInv, Counts
<1>5. parent[c] \in Made \cup {Top} /\ c \notin Above(parent[c])
  BY DEF TreeInv, Treed
<1>6. parent[c] \in Above(parent[c])
  <2>1. parent[c] \in Call \cup {Top}
    BY <1>5 DEF Made
  <2> QED
    BY <2>1, AboveIs DEF TreeInv
<1> QED
  BY <1>1, <1>2, <1>3, <1>4, <1>5, <1>6

\* A cascade started, at a call over that nothing goes on under: the others are where they were.
LEMMA StartTree ==
  ASSUME TreeInv, TreeTypes', Made' = Made, NEW c \in Call, reaping[c] = None, NEW b \in Made,
         ended'[c], ended'[b], live'[b] = 0, ~Reaped(b),
         \A d \in Call : reaping[d] # None =>
            ended'[d] /\ ended'[reaping[d].at] /\ live'[reaping[d].at] = 0,
         reaping' = [reaping EXCEPT ![c] = [at |-> b, taken |-> FALSE, todo |-> <<>>]]
  PROVE  /\ Cascades' /\ Reaped(b)'
         /\ \A n : n # b => (Reaped(n)' <=> Reaped(n))
<1> DEFINE new == [at |-> b, taken |-> FALSE, todo |-> <<>>]
<1>1. new \in Reaping /\ new # None
  <2>1. b \in Call /\ <<>> \in Seq(Session)
    BY DEF Made
  <2>2. new \in Reaping
    BY ONLY <2>1 DEF Reaping
  <2> HIDE DEF new
  <2> QED
    BY ONLY <2>2, CallTreeAssumption
<1>2. reaping'[c] = new /\ new.at = b /\ \A d \in Call : d # c => reaping'[d] = reaping[d]
  BY DEF TreeInv, TreeTypes
<1>3. new.taken = FALSE /\ new.todo = <<>>
  OBVIOUS
<1> HIDE DEF new
<1>4. Reaped(b)' /\ \A n : n # b => (Reaped(n)' <=> Reaped(n))
  <2>1. Reaped(b)'
    BY <1>1, <1>2 DEF Reaped
  <2>2. ASSUME NEW n, n # b
        PROVE  Reaped(n)' <=> Reaped(n)
    <3>1. Reaped(n)' => Reaped(n)
      BY <1>2, <2>2 DEF Reaped
    <3>2. Reaped(n) => Reaped(n)'
      BY <1>2 DEF Reaped
    <3> QED
      BY <3>1, <3>2
  <2> QED
    BY <2>1, <2>2
<1>5. Cascades'
  <2> SUFFICES ASSUME NEW d \in Call, reaping'[d] # None
               PROVE  /\ ended'[d]
                      /\ reaping'[d].at \in Made /\ ended'[reaping'[d].at]
                      /\ live'[reaping'[d].at] = 0
                      /\ ~reaping'[d].taken => reaping'[d].todo = <<>>
                      /\ \A e \in Call : reaping'[e] # None /\ reaping'[e].at = reaping'[d].at
                                           => e = d
    BY DEF Cascades
  <2>1. CASE d = c
    <3>1. \A e \in Call : e # c /\ reaping'[e] # None => reaping'[e].at # b
      BY <1>2 DEF Reaped
    <3> QED
      BY <1>2, <1>3, <2>1, <3>1
  <2>2. CASE d # c
    <3>1. reaping'[d] = reaping[d] /\ reaping[d] # None
      BY <1>2, <2>2
    <3>2. reaping[d].at # b
      BY <3>1 DEF Reaped
    <3>3. /\ reaping[d].at \in Made /\ (~reaping[d].taken => reaping[d].todo = <<>>)
          /\ \A e \in Call : reaping[e] # None /\ reaping[e].at = reaping[d].at => e = d
      BY <3>1 DEF TreeInv, Cascades
    <3>4. ASSUME NEW e \in Call, reaping'[e] # None, reaping'[e].at = reaping[d].at
          PROVE  e = d
      <4>1. e # c
        BY <1>2, <3>2, <3>4
      <4> QED
        BY <1>2, <3>3, <3>4, <4>1
    <3> QED
      BY <3>1, <3>3, <3>4
  <2> QED
    BY <2>1, <2>2
<1> QED
  BY <1>4, <1>5

LEMMA EndCallTree ==
  ASSUME TreeInv, NEW c \in Call, EndCall(c)
  PROVE  TreeInv' /\ \A b \in Made : Out(b)' => Out(b) \/ (b = c /\ res[c] = None)
<1> DEFINE p == parent[c]
           start(b) == [reaping EXCEPT ![c] = [at |-> b, taken |-> FALSE, todo |-> <<>>]]
<1>0. TreeTypes /\ Treed /\ Counts /\ Cascades
  BY DEF TreeInv
<1>1. c \in Made /\ ~ended[c] /\ parent' = parent /\ ended' = [ended EXCEPT ![c] = TRUE]
  BY DEF EndCall
<1>2. /\ c # Top /\ reaping[c] = None /\ ~Reaped(c) /\ ~Out(c) /\ Own(c) = 1
      /\ live[c] = Cardinality(Waited(c)) + 1 /\ Cardinality(Waited(c)) \in Nat
      /\ p \in Made \cup {Top} /\ p # c
  BY <1>1, StillGoing
<1>3. /\ Made' = Made /\ ended' \in [Call \cup {Top} -> BOOLEAN] /\ ended'[c]
      /\ \A b \in Call \cup {Top} : b # c => ended'[b] = ended[b]
  BY <1>0, <1>1, AboveSame DEF TreeTypes
<1>4. Treed'
  BY <1>0, <1>1, <1>3, TreeKept
<1>5. \A d \in Call : reaping[d] # None =>
         /\ ended'[d] /\ reaping[d].at \in Made /\ ended'[reaping[d].at]
         /\ reaping[d].at # c /\ live[reaping[d].at] = 0
  <2>1. \A d \in Call : ended[d] => ended'[d]
    BY <1>3
  <2>2. Made \subseteq Call
    BY DEF Made
  <2> QED
    BY <1>0, <1>1, <2>1, <2>2 DEF Cascades
<1>6. \A b \in Made \cup {Top} : b # c => Own(b)' = Own(b)
  <2>1. Made \subseteq Call
    BY DEF Made
  <2> QED
    BY <1>3, <2>1 DEF Own
<1>7. Own(c)' = 0
  BY <1>2, <1>3 DEF Own
<1>8. CASE AtEnd(c) # "out"
  <2>1. live' = [live EXCEPT ![c] = live[c] - 1]
    BY <1>8 DEF EndCall, AtEnd
  <2>2. /\ TreeTypes' /\ live'[c] = live[c] - 1
        /\ \A b \in Call \cup {Top} : b # c => live'[b] = live[b]
    <3>1. live[c] - 1 \in Nat
      BY <1>2
    <3>2. reaping' \in [Call -> Reaping \cup {None}]
      <4>1. [at |-> c, taken |-> FALSE, todo |-> <<>>] \in Reaping
        BY DEF Reaping
      <4> QED
        BY <1>0, <1>8, <4>1 DEF EndCall, AtEnd, TreeTypes
    <3> QED
      BY <1>0, <1>1, <1>3, <2>1, <3>1, <3>2 DEF TreeTypes
  <2>3. \A d \in Call : reaping[d] # None => live'[reaping[d].at] = 0
    BY <1>5, <2>2 DEF Made
  <2>4. Cascades' /\ ~Out(c)' /\ \A b \in Made : b # c => (Reaped(b)' <=> Reaped(b))
    <3>1. CASE AtEnd(c) = "waits"
      <4>0. reaping' = reaping
        BY <3>1 DEF EndCall
      <4>1. reaping' = reaping /\ live'[c] # 0
        <5>1. live[c] - 1 > 0
          BY ONLY <3>1 DEF AtEnd
        <5> QED
          BY ONLY <1>2, <2>2, <4>0, <5>1
      <4>2. Cascades'
        BY <1>0, <1>3, <1>5, <2>3, <4>1 DEF Cascades
      <4> QED
        BY <4>1, <4>2 DEF Out, Reaped
    <3>2. CASE AtEnd(c) = "cleans"
      <4>0. reaping' = start(c)
        BY <3>2 DEF EndCall
      <4>1. reaping' = start(c) /\ live'[c] = 0
        <5>1. ~(live[c] - 1 > 0)
          BY ONLY <3>2 DEF AtEnd
        <5>2. live'[c] = 0
          BY ONLY <1>2, <2>2, <5>1
        <5> QED
          BY <4>0, <5>2
      <4>2. Cascades' /\ Reaped(c)' /\ \A n : n # c => (Reaped(n)' <=> Reaped(n))
        <5>1. TreeInv /\ TreeTypes' /\ Made' = Made /\ c \in Call /\ c \in Made
          BY <1>1, <1>3, <2>2
        <5>2. reaping[c] = None /\ ~Reaped(c) /\ ended'[c] /\ live'[c] = 0
          BY <1>2, <1>3, <4>1
        <5>3. \A d \in Call : reaping[d] # None =>
                 ended'[d] /\ ended'[reaping[d].at] /\ live'[reaping[d].at] = 0
          BY ONLY <1>5, <2>3
        <5>4. reaping' = [reaping EXCEPT ![c] = [at |-> c, taken |-> FALSE, todo |-> <<>>]]
          BY <4>1
        <5> QED
          BY ONLY <5>1, <5>2, <5>3, <5>4, StartTree
      <4> QED
        BY <4>2 DEF Out
    <3> QED
      BY <1>8, <3>1, <3>2 DEF AtEnd
  <2>5. \A b \in Made : Out(b)' <=> Out(b)
    <3> SUFFICES ASSUME NEW b \in Made, b # c PROVE Out(b)' <=> Out(b)
      BY <1>2, <2>4
    <3>1. live'[b] = live[b] /\ ended'[b] = ended[b]
      BY <1>3, <2>2 DEF Made
    <3> QED
      BY <2>4, <3>1 DEF Out
  <2>6. Counts'
    <3>1. \A b \in Made \cup {Top} : live'[b] - Own(b)' = live[b] - Own(b) /\ live'[b] \in Int
      <4> TAKE b \in Made \cup {Top}
      <4>1. b \in Call \cup {Top} /\ live[b] \in Nat
        BY <1>0 DEF Made, TreeTypes
      <4>2. CASE b = c
        BY <1>2, <1>7, <2>2, <4>1, <4>2
      <4>3. CASE b # c
        BY <1>6, <2>2, <4>1, <4>3
      <4> QED
        BY <4>2, <4>3
    <3> QED
      BY <1>0, <1>1, <2>5, <3>1, CountsSame
  <2> QED
    BY <1>4, <2>2, <2>4, <2>5, <2>6 DEF TreeInv
<1>9. CASE AtEnd(c) = "out"
  <2>1. /\ live' = [live EXCEPT ![c] = live[c] - 1, ![p] = live[p] - 1]
        /\ reaping' = IF live[p] = 1 /\ ended[p] /\ p # Top THEN start(p) ELSE reaping
    BY <1>2, <1>9 DEF EndCall, AtEnd
  <2>2. live[c] = 1
    BY <1>2, <1>9 DEF AtEnd
  <2>3. /\ live'[c] = 0 /\ live'[p] = live[p] - 1
        /\ \A b \in Call \cup {Top} : b # c /\ b # p => live'[b] = live[b]
    <3>1. c \in Call \cup {Top} /\ p \in Call \cup {Top} /\ p # c /\ DOMAIN live = Call \cup {Top}
      BY <1>0, <1>2 DEF TreeTypes, Made
    <3> HIDE DEF p
    <3> QED
      BY ONLY <2>1, <2>2, <3>1
  <2>4. c \in Waited(p) /\ live[p] >= 1 /\ live[p] \in Nat
    <3>1. c \in Waited(p) /\ IsFiniteSet(Waited(p)) /\ Cardinality(Waited(p)) \in Nat
      BY <1>0, <1>1, <1>2, WaitedType DEF Waited
    <3>2. Cardinality(Waited(p)) # 0
      BY <3>1, FS_EmptySet
    <3>3. live[p] = Cardinality(Waited(p)) + Own(p) /\ Own(p) \in {0, 1}
      BY <1>0, <1>2 DEF Counts, Own
    <3> QED
      BY <3>1, <3>2, <3>3
  <2>5. TreeTypes'
    <3>1. live' \in [Call \cup {Top} -> Nat]
      <4>1. \A b \in Call \cup {Top} : live'[b] \in Nat
        BY <1>0, <2>3, <2>4 DEF TreeTypes
      <4> QED
        BY <1>0, <2>1, <4>1 DEF TreeTypes
    <3>2. reaping' \in [Call -> Reaping \cup {None}]
      <4>1. CASE live[p] = 1 /\ ended[p] /\ p # Top
        <5>1. [at |-> p, taken |-> FALSE, todo |-> <<>>] \in Reaping
          BY <1>2, <4>1 DEF Reaping, Made
        <5> QED
          BY <1>0, <2>1, <4>1, <5>1 DEF TreeTypes
      <4>2. CASE ~(live[p] = 1 /\ ended[p] /\ p # Top)
        BY <1>0, <2>1, <4>2 DEF TreeTypes
      <4> QED
        BY <4>1, <4>2
    <3> QED
      BY <1>0, <1>1, <1>3, <3>1, <3>2 DEF TreeTypes
  <2>6. \A d \in Call : reaping[d] # None => reaping[d].at # p /\ live'[reaping[d].at] = 0
    BY <1>5, <2>3, <2>4 DEF Made
  <2>7. /\ Cascades' /\ \A n : n # p => (Reaped(n)' <=> Reaped(n))
        /\ live[p] = 1 /\ ended[p] /\ p # Top => Reaped(p)'
    <3>1. CASE live[p] = 1 /\ ended[p] /\ p # Top
      <4>1. PICK b \in Made : b = p
        BY <1>2, <3>1
      <4>2. reaping' = start(b) /\ live'[b] = 0 /\ ended'[b] /\ ~Reaped(b)
        BY <1>2, <1>3, <2>1, <2>3, <2>6, <3>1, <4>1 DEF Reaped, Made
      <4>3. Cascades' /\ Reaped(b)' /\ \A n : n # b => (Reaped(n)' <=> Reaped(n))
        BY <1>2, <1>3, <1>5, <2>5, <2>6, <4>2, StartTree
      <4> QED
        <5>1. p' = p
          BY <1>1
        <5> QED
          BY <4>1, <4>3, <5>1 DEF Reaped
    <3>2. CASE ~(live[p] = 1 /\ ended[p] /\ p # Top)
      <4>1. reaping' = reaping
        BY <2>1, <3>2
      <4>2. Cascades'
        BY <1>0, <1>3, <1>5, <2>6, <4>1 DEF Cascades
      <4> QED
        BY <3>2, <4>1, <4>2 DEF Reaped
    <3> QED
      BY <3>1, <3>2
  <2>8. Out(c)'
    <3>1. ~Reaped(c)'
      BY <1>2, <2>7
    <3> QED
      BY <1>3, <2>3, <3>1 DEF Out
  <2>9. Counts' /\ \A b \in Made \ {c} : Out(b)' <=> Out(b)
    <3>1. live'[c] = live[c] - Own(c)
      BY <1>2, <2>2, <2>3
    <3>2. \A b \in (Made \cup {Top}) \ {c, p} : live'[b] = live[b]
      BY <2>3 DEF Made
    <3>3. \A b \in (Made \cup {Top}) \ {c} : ended'[b] = ended[b]
      BY <1>3 DEF Made
    <3>4. \A b \in Made \ {c, p} : Reaped(b)' <=> Reaped(b)
      BY <2>7
    <3>5. live'[p] = live[p] - 1
      BY <2>3
    <3> QED
      BY <1>0, <1>1, <1>2, <2>7, <2>8, <3>1, <3>2, <3>3, <3>4, <3>5, CountsLess
  <2>10. res[c] = None
    BY <1>9 DEF AtEnd
  <2> QED
    BY <1>4, <2>5, <2>7, <2>9, <2>10 DEF TreeInv
<1> QED
  BY <1>8, <1>9

ResTypes == res \in [Call -> Seq(Session) \cup {None}]

\* What a call holds is a sequence of sessions.
LEMMA HeldType ==
  ASSUME ResTypes, NEW c \in Call
  PROVE  Held(c) \in Seq(Session)
BY DEF ResTypes, Held

\* A cascade that goes on at the call it is at.
LEMMA MoveOn ==
  ASSUME TreeInv, UNCHANGED tree, NEW c \in Call, reaping[c] # None, NEW r \in Reaping,
         r.at = reaping[c].at, r.taken = TRUE, reaping' = [reaping EXCEPT ![c] = r]
  PROVE  TreeInv'
<1>1. parent' = parent /\ ended' = ended /\ live' = live /\ Made' = Made
  BY AboveSame DEF tree
<1>2. r # None
  BY CallTreeAssumption
<1>3. reaping'[c] = r /\ \A d \in Call : d # c => reaping'[d] = reaping[d]
  BY DEF TreeInv, TreeTypes
<1>4. TreeTypes'
  BY <1>1 DEF TreeInv, TreeTypes
<1>5. Treed'
  BY <1>1, TreeKept DEF TreeInv
<1>6. \A d \in Call : /\ reaping'[d] # None <=> reaping[d] # None
                      /\ reaping[d] # None => reaping'[d].at = reaping[d].at
  BY <1>2, <1>3
<1>7. \A n : (Reaped(n)' <=> Reaped(n))
  BY <1>6 DEF Reaped
<1>8. Counts'
  <2>1. \A b : (Out(b)' <=> Out(b)) /\ Own(b)' = Own(b)
    BY <1>1, <1>7 DEF Out, Own
  <2>2. \A b : Waited(b)' = Waited(b)
    BY <1>1, <2>1, WaitedSame
  <2> QED
    BY <1>1, <2>1, <2>2 DEF TreeInv, Counts
<1>9. Cascades'
  <2> SUFFICES ASSUME NEW d \in Call, reaping'[d] # None
               PROVE  /\ ended'[d]
                      /\ reaping'[d].at \in Made /\ ended'[reaping'[d].at]
                      /\ live'[reaping'[d].at] = 0
                      /\ ~reaping'[d].taken => reaping'[d].todo = <<>>
                      /\ \A e \in Call : reaping'[e] # None /\ reaping'[e].at = reaping'[d].at
                                           => e = d
    BY <1>1 DEF Cascades
  <2>1. /\ ended[d] /\ reaping[d].at \in Made /\ ended[reaping[d].at] /\ live[reaping[d].at] = 0
        /\ ~reaping[d].taken => reaping[d].todo = <<>>
        /\ \A e \in Call : reaping[e] # None /\ reaping[e].at = reaping[d].at => e = d
    BY <1>6 DEF TreeInv, Cascades
  <2>2. ~reaping'[d].taken => reaping'[d].todo = <<>>
    BY <1>3, <2>1
  <2> QED
    BY <1>1, <1>6, <2>1, <2>2
<1> QED
  BY <1>4, <1>5, <1>8, <1>9 DEF TreeInv

LEMMA TakeTree ==
  ASSUME TreeInv, ResTypes, NEW c \in Call, Take(c)
  PROVE  TreeInv'
<1> DEFINE n == reaping[c].at
           r == [at |-> n, taken |-> TRUE, todo |-> Held(n)]
<1>1. reaping[c] # None /\ reaping' = [reaping EXCEPT ![c] = r] /\ UNCHANGED tree
  BY DEF Take
<1>2. n \in Call
  BY <1>1 DEF TreeInv, Cascades, Made
<1>3. r \in Reaping /\ r.at = n /\ r.taken = TRUE
  BY <1>2, HeldType DEF Reaping
<1> HIDE DEF r
<1> QED
  BY <1>1, <1>3, MoveOn

LEMMA ReapOneTree ==
  ASSUME TreeInv, NEW c \in Call, ReapOne(c)
  PROVE  TreeInv'
<1>1. CASE UNCHANGED reaping
  BY <1>1, TreeSame DEF ReapOne
<1>2. CASE reaping' = [reaping EXCEPT ![c].todo = Front(@)]
  <2> DEFINE r == [reaping[c] EXCEPT !.todo = Front(@)]
  <2>1. reaping[c] # None /\ reaping[c] \in Reaping /\ reaping[c].todo # <<>> /\ UNCHANGED tree
    BY DEF ReapOne, TreeInv, TreeTypes
  <2>2. reaping[c].todo \in Seq(Session) /\ reaping[c].taken \in BOOLEAN
    BY <2>1 DEF Reaping
  <2>3. reaping[c].taken = TRUE
    BY <2>1, <2>2 DEF TreeInv, Cascades
  <2>4. Front(reaping[c].todo) \in Seq(Session)
    BY <2>1, <2>2, Fronting
  <2>5. r \in Reaping /\ r.at = reaping[c].at /\ r.taken = TRUE
    BY <2>1, <2>3, <2>4 DEF Reaping
  <2>6. reaping' = [reaping EXCEPT ![c] = r]
    BY <1>2
  <2> HIDE DEF r
  <2> QED
    BY <2>1, <2>5, <2>6, MoveOn
<1> QED
  BY <1>1, <1>2 DEF ReapOne

LEMMA ClimbTree ==
  ASSUME TreeInv, NEW c \in Call, Climb(c)
  PROVE  TreeInv' /\ \A b \in Made : Out(b)' => Out(b) \/ b = reaping[c].at
<1>0. TreeTypes /\ Treed /\ Counts /\ Cascades
  BY DEF TreeInv
<1>1. PICK n \in Made, p \in Made \cup {Top} :
        n = reaping[c].at /\ p = parent[n] /\ p # n /\ n # Top
  <2>1. reaping[c].at \in Made /\ parent[reaping[c].at] \in Made \cup {Top}
        /\ reaping[c].at \notin Above(parent[reaping[c].at])
    BY <1>0 DEF Climb, Cascades, Treed
  <2>2. parent[reaping[c].at] \in Above(parent[reaping[c].at])
    BY <1>0, <2>1, AboveIs DEF Made
  <2>3. reaping[c].at # Top
    BY <2>1, CallTreeAssumption DEF Made
  <2> QED
    BY <2>1, <2>2, <2>3
<1> DEFINE new == [at |-> p, taken |-> FALSE, todo |-> <<>>]
           up == live[p] = 1 /\ ended[p] /\ p # Top
<1>2. /\ reaping[c] # None /\ parent' = parent /\ ended' = ended /\ Made' = Made
      /\ live' = [live EXCEPT ![p] = live[p] - 1]
      /\ reaping' = [reaping EXCEPT ![c] = IF up THEN new ELSE None]
  BY <1>1, AboveSame DEF Climb
<1>3. /\ n \in Call /\ p \in Call \cup {Top} /\ Reaped(n) /\ ended[n] /\ live[n] = 0 /\ ended[c]
      /\ \A d \in Call : reaping[d] # None /\ reaping[d].at = n => d = c
  BY <1>0, <1>1, <1>2 DEF Cascades, Reaped, Made
<1>4. live'[p] = live[p] - 1 /\ \A b \in Call \cup {Top} : b # p => live'[b] = live[b]
  BY <1>0, <1>2, <1>3 DEF TreeTypes
<1>5. ~Out(n) /\ n \in Waited(p)
  BY <1>1, <1>3 DEF Out, Waited
<1>6. live[p] >= 1 /\ live[p] \in Nat
  <2>1. IsFiniteSet(Waited(p)) /\ Cardinality(Waited(p)) \in Nat
    BY <1>0, WaitedType
  <2>2. Cardinality(Waited(p)) # 0
    BY <1>5, <2>1, FS_EmptySet
  <2>3. live[p] = Cardinality(Waited(p)) + Own(p) /\ Own(p) \in {0, 1}
    BY <1>0 DEF Counts, Own
  <2> QED
    BY <2>1, <2>2, <2>3
<1>7. \A d \in Call : reaping[d] # None => reaping[d].at # p
  BY <1>0, <1>6 DEF Cascades
<1>8. up => p \in Call /\ new \in Reaping /\ new # None
  <2> SUFFICES ASSUME up PROVE p \in Call /\ new \in Reaping /\ new # None
    OBVIOUS
  <2>1. p \in Call /\ <<>> \in Seq(Session)
    BY <1>3
  <2>2. new \in Reaping
    BY ONLY <2>1 DEF Reaping
  <2> HIDE DEF new
  <2> QED
    BY ONLY <2>1, <2>2, CallTreeAssumption
<1>9. new.at = p /\ new.taken = FALSE /\ new.todo = <<>>
  OBVIOUS
<1> HIDE DEF new, up
<1>10. reaping'[c] = (IF up THEN new ELSE None) /\ \A d \in Call : d # c => reaping'[d] = reaping[d]
  BY <1>0, <1>2 DEF TreeTypes
<1>11. /\ ~Reaped(n)' /\ (up => Reaped(p)')
       /\ \A b : b # n /\ b # p => (Reaped(b)' <=> Reaped(b))
  <2>1. ~Reaped(n)'
    BY <1>1, <1>3, <1>8, <1>9, <1>10 DEF Reaped
  <2>2. up => Reaped(p)'
    BY <1>8, <1>9, <1>10 DEF Reaped
  <2>3. ASSUME NEW b, b # n, b # p
        PROVE  Reaped(b)' <=> Reaped(b)
    BY <1>1, <1>8, <1>9, <1>10, <2>3 DEF Reaped
  <2> QED
    BY <2>1, <2>2, <2>3
<1>12. TreeTypes'
  <2>1. live' \in [Call \cup {Top} -> Nat]
    <3>1. live[p] - 1 \in Nat
      BY <1>6
    <3> QED
      BY <1>0, <1>2, <3>1 DEF TreeTypes
  <2>2. reaping' \in [Call -> Reaping \cup {None}]
    BY <1>0, <1>2, <1>8 DEF TreeTypes
  <2> QED
    BY <1>0, <1>2, <2>1, <2>2 DEF TreeTypes
<1>13. Treed'
  BY <1>0, <1>2, TreeKept
<1>14. Counts' /\ \A b \in Made \ {n} : Out(b)' <=> Out(b)
  <2>1. Out(n)' /\ Own(n) = 0
    BY <1>1, <1>2, <1>3, <1>4, <1>11 DEF Out, Own
  <2>2. live'[n] = live[n] - Own(n) /\ live'[parent[n]] = live[parent[n]] - 1
    BY <1>1, <1>3, <1>4, <2>1
  <2>3. \A b \in (Made \cup {Top}) \ {n, parent[n]} : live'[b] = live[b]
    BY <1>1, <1>4 DEF Made
  <2>4. \A b \in (Made \cup {Top}) \ {n} : ended'[b] = ended[b]
    BY <1>2
  <2>5. \A b \in Made \ {n, parent[n]} : Reaped(b)' <=> Reaped(b)
    BY <1>1, <1>11
  <2>6. live[parent[n]] = 1 /\ ended[parent[n]] /\ parent[n] # Top => Reaped(parent[n])'
    <3>1. parent'[n] = p
      BY <1>1, <1>2
    <3> QED
      BY <1>1, <1>11, <3>1 DEF up, Reaped
  <2> QED
    BY <1>0, <1>2, <1>5, <2>1, <2>2, <2>3, <2>4, <2>5, <2>6, CountsLess
<1>15. Cascades'
  <2> SUFFICES ASSUME NEW d \in Call, reaping'[d] # None
               PROVE  /\ ended'[d]
                      /\ reaping'[d].at \in Made /\ ended'[reaping'[d].at]
                      /\ live'[reaping'[d].at] = 0
                      /\ ~reaping'[d].taken => reaping'[d].todo = <<>>
                      /\ \A e \in Call : reaping'[e] # None /\ reaping'[e].at = reaping'[d].at
                                           => e = d
    BY <1>2 DEF Cascades
  <2>1. CASE d = c
    <3>1. up /\ reaping'[d] = new
      BY <1>10, <2>1
    <3>2. p \in Made /\ ended[p] /\ live[p] = 1
      BY <1>1, <3>1, CallTreeAssumption DEF up
    <3>3. live'[p] = 0
      BY <1>4, <3>2
    <3>4. \A e \in Call : e # c /\ reaping'[e] # None => reaping'[e].at # p
      BY <1>7, <1>10
    <3> QED
      BY <1>2, <1>3, <1>9, <2>1, <3>1, <3>2, <3>3, <3>4
  <2>2. CASE d # c
    <3>1. reaping'[d] = reaping[d] /\ reaping[d] # None
      BY <1>10, <2>2
    <3>2. /\ ended[d] /\ reaping[d].at \in Made /\ ended[reaping[d].at]
          /\ live[reaping[d].at] = 0
          /\ (~reaping[d].taken => reaping[d].todo = <<>>) /\ reaping[d].at # p
          /\ \A e \in Call : reaping[e] # None /\ reaping[e].at = reaping[d].at => e = d
      BY <1>0, <1>7, <3>1 DEF Cascades
    <3>3. live'[reaping[d].at] = 0
      BY <1>4, <3>2 DEF Made
    <3>4. ASSUME NEW e \in Call, reaping'[e] # None, reaping'[e].at = reaping[d].at
          PROVE  e = d
      <4>1. e # c
        BY <1>9, <1>10, <3>2, <3>4
      <4> QED
        BY <1>10, <3>2, <3>4, <4>1
    <3> QED
      BY <1>2, <3>1, <3>2, <3>3, <3>4
  <2> QED
    BY <2>1, <2>2
<1> QED
  BY <1>1, <1>12, <1>13, <1>14, <1>15 DEF TreeInv

\* The end of the run's own call counts for nothing of it.
LEMMA RunEndsTree ==
  ASSUME TreeInv, RunEnds
  PROVE  TreeInv'
<1>1. /\ parent' = parent /\ live' = live /\ reaping' = reaping /\ Made' = Made
      /\ ended' = [ended EXCEPT ![Top] = TRUE]
  BY AboveSame DEF RunEnds
<1>2. TreeTypes' /\ \A c \in Call : ended'[c] = ended[c]
  BY <1>1, CallTreeAssumption DEF TreeInv, TreeTypes
<1>3. Treed'
  BY <1>1, <1>2, TreeKept DEF TreeInv
<1>4. \A c \in Made : Out(c)' <=> Out(c)
  BY <1>1, <1>2 DEF Out, Reaped, Made
<1>5. \A c \in Made \cup {Top} : Own(c)' = Own(c)
  BY <1>2 DEF Own, Made
<1>6. Counts'
  <2>1. \A b : Waited(b)' = Waited(b)
    BY <1>1, <1>4, WaitedSame
  <2> QED
    BY <1>1, <1>5, <2>1 DEF TreeInv, Counts
<1>7. Cascades'
  <2>1. Made \subseteq Call
    BY DEF Made
  <2> QED
    BY <1>1, <1>2, <2>1 DEF TreeInv, Cascades
<1> QED
  BY <1>2, <1>3, <1>6, <1>7 DEF TreeInv

\* Of any step, and at first.
LEMMA InitTree == Init => TreeInv
<1> SUFFICES ASSUME Init PROVE TreeInv
  OBVIOUS
<1>1. Made = {} /\ \A c \in Call : reaping[c] = None
  BY DEF Init, Made
<1>2. TreeTypes
  <2>1. live \in [Call \cup {Top} -> Nat]
    BY DEF Init
  <2>2. parent \in [Call -> Call \cup {Top, None}]
    BY DEF Init
  <2> QED
    BY <2>1, <2>2 DEF Init, TreeTypes
<1>3. Treed
  <2>1. \A c \in Call : ~ended[c]
    BY DEF Init
  <2> QED
    BY <1>1, <2>1, FS_EmptySet DEF Treed
<1>4. Counts
  <2>1. live[Top] = 1 /\ Own(Top) = 1
    BY DEF Init, Own
  <2>2. Waited(Top) = {}
    BY <1>1 DEF Waited
  <2> QED
    BY <1>1, <2>1, <2>2, FS_EmptySet DEF Counts
<1>5. Cascades
  BY <1>1 DEF Cascades
<1> QED
  BY <1>2, <1>3, <1>4, <1>5 DEF TreeInv

LEMMA NextTree ==
  ASSUME TreeInv, ResTypes, [Next]_vars
  PROVE  TreeInv'
<1>1. CASE UNCHANGED <<tree, reaping>>
  BY <1>1, TreeSame
<1>2. CASE Flow
  <2>1. ASSUME NEW c \in Call, NEW p \in Call \cup {Top}, CallFlow(c, p)
        PROVE  TreeInv'
    BY <2>1, CallFlowTree
  <2>2. CASE \E s \in Session, c \in Call : Open(s, c)
    BY <1>1, <2>2 DEF Open
  <2>3. CASE \E s \in Session : ViewGoes(s)
    BY <1>1, <2>3 DEF ViewGoes
  <2> QED
    BY <1>2, <2>1, <2>2, <2>3 DEF Flow
<1>3. CASE Engine
  <2>1. ASSUME NEW c \in Call, EndCall(c)
        PROVE  TreeInv'
    BY <2>1, EndCallTree
  <2>2. ASSUME NEW c \in Call, Take(c)
        PROVE  TreeInv'
    BY <2>2, TakeTree
  <2>3. ASSUME NEW c \in Call, ReapOne(c)
        PROVE  TreeInv'
    BY <2>3, ReapOneTree
  <2>4. ASSUME NEW c \in Call, Climb(c)
        PROVE  TreeInv'
    BY <2>4, ClimbTree
  <2>5. CASE \E s \in Session : Opened(s) \/ OpenFails(s) \/ Shut(s)
    BY <1>1, <2>5 DEF Opened, OpenFails, Shut
  <2>6. CASE DrainSoon \/ Settle \/ TakeLeft \/ ReleaseLeft \/ Close
    BY <1>1, <2>6 DEF DrainSoon, Settle, TakeLeft, ReleaseLeft, Close
  <2>7. CASE RunEnds
    BY <2>7, RunEndsTree
  <2> QED
    BY <1>3, <2>1, <2>2, <2>3, <2>4, <2>5, <2>6, <2>7 DEF Engine
<1>4. CASE UNCHANGED vars
  BY <1>1, <1>4 DEF vars
<1> QED
  BY <1>2, <1>3, <1>4 DEF Next

-----------------------------------------------------------------------------
(* What holds each session, and how far the run's close has got. *)

\* A session a cascade, or the run's own close, is to release.
InHand(s) ==
  (\E d \in Call : reaping[d] # None /\ s \in ToSet(reaping[d].todo)) \/ s \in ToSet(left)
\* A cascade at the call took what it made.
Emptied(c) == \E d \in Call : reaping[d] # None /\ reaping[d].at = c /\ reaping[d].taken

HoldTypes ==
  /\ ResTypes
  /\ stage \in [Session -> Stage] /\ owner \in [Session -> Call \cup {None}]
  /\ dropping \in [Session -> BOOLEAN]
  /\ phase \in Phase /\ left \in Seq(Session) /\ belated \subseteq Session /\ late \in BOOLEAN

\* A session open is held, by its call or by what is letting go of it, and a close under way
\* is one something waits for.
Kept(s) ==
  /\ stage[s] # "none" => owner[s] \in Made
  /\ stage[s] = "open" => s \in ToSet(Held(owner[s])) \/ InHand(s)
  /\ stage[s] = "closing" => closed[s] /\ (dropping[s] \/ InHand(s))
  /\ closed[s] => stage[s] \in {"closing", "closed"}
  /\ s \in dropped /\ ~closed[s] => stage[s] = "open"
  /\ InHand(s) \/ (\E c \in Call : s \in ToSet(Held(c))) =>
      stage[s] \in {"open", "closing", "closed"}

\* What is held of a call that was let go of was opened after that.
Belated ==
  \A c \in Made : Out(c) \/ Emptied(c) => ToSet(Held(c)) \subseteq belated

\* How far the run's close has got.
Closing ==
  /\ phase \in {"going", "settling", "reaping"} => left = <<>>
  /\ phase = "going" <=> ~ended[Top]
  /\ ~late =>
       /\ phase \in {"reaping", "closing", "closed"} =>
            (\A c \in Made : ended[c]) /\ \A s \in Session : stage[s] # "opening"
       /\ phase \in {"closing", "closed"} => \A c \in Call : reaping[c] = None /\ res[c] = None
       /\ phase = "closed" => left = <<>> /\ \A s \in Session : ~dropping[s]

KeepInv == HoldTypes /\ (\A s \in Session : Kept(s)) /\ Belated /\ Closing
IInv == ClosesInv /\ TreeInv /\ KeepInv

\* The library's operators on sequences, of what a call holds.
LEMMA WithoutHolds ==
  ASSUME NEW held \in Seq(Session) \cup {None}, NEW s
  PROVE  LET of(h) == ToSet(IF h = None THEN <<>> ELSE h)
         IN /\ Without(s, held) \in Seq(Session) \cup {None}
            /\ of(Without(s, held)) \subseteq of(held)
            /\ of(held) \subseteq of(Without(s, held)) \cup {s}
<1>1. CASE held = None
  BY <1>1 DEF Without
<1>2. CASE held # None
  <2> DEFINE rest == RemoveFirst(held, s)
  <2>1. /\ rest \in Seq(Session) /\ ToSet(rest) \subseteq ToSet(held)
        /\ ToSet(held) \subseteq ToSet(rest) \cup {s}
    BY <1>2, Forgetting
  <2>2. Without(s, held) = IF rest = <<>> THEN None ELSE rest
    BY <1>2 DEF Without
  <2> HIDE DEF rest
  <2>3. rest # None
    BY <2>1, CallTreeAssumption
  <2> QED
    BY <1>2, <2>1, <2>2, <2>3
<1> QED
  BY <1>1, <1>2

\* The same of what the calls still hold: whatever order they are gone through in, each is.
LEMMA StillHolds ==
  ASSUME TreeTypes, Treed, ResTypes, NEW order \in [1..Cardinality(Made) -> Made],
         \A i, j \in DOMAIN order : i # j => order[i] # order[j]
  PROVE  /\ StillHeld(order) \in Seq(Session)
         /\ \A c \in Made : ToSet(Held(c)) \subseteq ToSet(StillHeld(order))
         /\ \A s \in ToSet(StillHeld(order)) : \E c \in Made : s \in ToSet(Held(c))
<1> DEFINE n == Cardinality(Made)
           q == [i \in DOMAIN order |-> Held(order[i])]
<1>1. n \in Nat /\ IsFiniteSet(Made) /\ DOMAIN order = 1..n
  BY FS_CardinalityType DEF Treed
<1>2. q \in Seq(Seq(Session)) /\ DOMAIN q = 1..n /\ \A i \in 1..n : q[i] = Held(order[i])
  <2>1. \A i \in 1..n : Held(order[i]) \in Seq(Session)
    BY <1>1, HeldType DEF Made
  <2>2. q = [i \in 1..n |-> Held(order[i])]
    BY <1>1
  <2> HIDE DEF q
  <2> QED
    BY <1>1, <2>1, <2>2
<1>3. ASSUME NEW c \in Made
      PROVE  \E i \in 1..n : order[i] = c
  <2>1. SUFFICES ASSUME \A i \in 1..n : order[i] # c PROVE FALSE
    OBVIOUS
  <2> DEFINE rest == Made \ {c}
  <2>2. IsFiniteSet(rest) /\ Cardinality(rest) = n - 1
    BY <1>1, FS_RemoveElement
  <2>3. order \in [1..n -> rest]
    BY <1>1, <2>1
  <2>4. IsFiniteSet(1..n) /\ Cardinality(1..n) = n
    BY <1>1, FS_Interval
  <2> HIDE DEF rest
  <2>5. \E i, j \in 1..n : i # j /\ order[i] = order[j]
    BY <1>1, <2>2, <2>3, <2>4, FS_PigeonHole
  <2> QED
    BY <1>1, <2>5
<1>4. StillHeld(order) = FlattenSeq(q)
  BY DEF StillHeld
<1> HIDE DEF q
<1>5. /\ FlattenSeq(q) \in Seq(Session)
      /\ \A i \in DOMAIN q : ToSet(q[i]) \subseteq ToSet(FlattenSeq(q))
      /\ \A e \in ToSet(FlattenSeq(q)) : \E i \in DOMAIN q : e \in ToSet(q[i])
  BY <1>2, Flattening
<1>6. ASSUME NEW c \in Made
      PROVE  ToSet(Held(c)) \subseteq ToSet(FlattenSeq(q))
  BY <1>2, <1>3, <1>5
<1>7. ASSUME NEW s \in ToSet(FlattenSeq(q))
      PROVE  \E c \in Made : s \in ToSet(Held(c))
  BY <1>1, <1>2, <1>5
<1> QED
  BY <1>4, <1>5, <1>6, <1>7

-----------------------------------------------------------------------------
(* What each step does to what holds the sessions. *)

\* What is held, of a step that is none of a call or a cascade.
LEMMA SameTree ==
  ASSUME UNCHANGED <<tree, reaping>>
  PROVE  /\ Made' = Made /\ ended' = ended /\ reaping' = reaping
         /\ \A c : (Out(c)' <=> Out(c)) /\ (Emptied(c)' <=> Emptied(c))
         /\ left' = left => \A s : InHand(s)' <=> InHand(s)
<1>1. parent' = parent /\ ended' = ended /\ live' = live /\ reaping' = reaping
  BY DEF tree
<1>2. \A c : (Out(c)' <=> Out(c)) /\ (Emptied(c)' <=> Emptied(c))
  BY <1>1 DEF Out, Reaped, Emptied
<1>3. left' = left => \A s : InHand(s)' <=> InHand(s)
  BY <1>1 DEF InHand
<1> QED
  BY <1>1, <1>2, <1>3, AboveSame

LEMMA KeptFrame ==
  ASSUME IInv, UNCHANGED <<stage, owner, closed, dropping, dropped, res>>, Made \subseteq Made',
         \A s \in Session : InHand(s)' <=> InHand(s)
  PROVE  \A s \in Session : Kept(s)'
<1> SUFFICES ASSUME NEW s \in Session PROVE Kept(s)'
  OBVIOUS
<1>1. Kept(s) /\ \A c : Held(c)' = Held(c)
  BY DEF IInv, KeepInv, Held
<1>2. stage'[s] = stage[s] /\ owner'[s] = owner[s] /\ Held(owner[s])' = Held(owner[s])
  BY DEF Held
<1> QED
  BY <1>1, <1>2 DEF Kept

LEMMA BelatedFrame ==
  ASSUME IInv, belated \subseteq belated',
         \A c \in Made' : Out(c)' \/ Emptied(c)' =>
            (c \in Made /\ (Out(c) \/ Emptied(c))) \/ ToSet(Held(c))' \subseteq belated',
         \A c \in Made : ToSet(Held(c))' \subseteq ToSet(Held(c))
  PROVE  Belated'
<1> SUFFICES ASSUME NEW c \in Made', Out(c)' \/ Emptied(c)'
             PROVE  ToSet(Held(c))' \subseteq belated'
  BY DEF Belated
<1>1. CASE c \in Made /\ (Out(c) \/ Emptied(c))
  BY <1>1 DEF IInv, KeepInv, Belated
<1>2. CASE ToSet(Held(c))' \subseteq belated'
  BY <1>2
<1> QED
  BY <1>1, <1>2

\* The steps of calls, then of sessions, cascades and the run's close.
LEMMA CallFlowKeeps ==
  ASSUME IInv, UNCHANGED late, NEW c \in Call, NEW p \in Call \cup {Top}, CallFlow(c, p)
  PROVE  KeepInv'
<1>1. /\ UNCHANGED <<stage, owner, closed, dropping, dropped, res, belated, left, phase, ended,
                     reaping>>
      /\ parent' = [parent EXCEPT ![c] = p] /\ live' = [live EXCEPT ![c] = 1, ![p] = live[p] + 1]
      /\ ~ended[Top] /\ p # c
  BY CallTreeAssumption DEF CallFlow, sessions, Made
<1>2. HoldTypes'
  BY <1>1 DEF IInv, KeepInv, HoldTypes, ResTypes
<1>3. parent[c] = None /\ p # None /\ Made' = Made \cup {c} /\ ~ended[c]
  <2>1. parent[c] = None /\ p # None
    BY CallTreeAssumption DEF CallFlow
  <2> QED
    BY <1>1, <2>1, CallTreeAssumption DEF IInv, TreeInv, TreeTypes, Treed, Made
<1>4. \A s \in Session : InHand(s)' <=> InHand(s)
  BY <1>1 DEF InHand
<1>5. \A s \in Session : Kept(s)'
  BY <1>1, <1>3, <1>4, KeptFrame
<1>6. Belated'
  <2>1. \A b : Held(b)' = Held(b)
    BY <1>1 DEF Held
  <2>2. ASSUME NEW b \in Made', Out(b)' \/ Emptied(b)'
        PROVE  b \in Made /\ (Out(b) \/ Emptied(b))
    <3>1. Emptied(b)' => Emptied(b) /\ b \in Made
      BY <1>1 DEF Emptied, IInv, TreeInv, Cascades
    <3>2. CASE Out(b)'
      <4>1. ended[b] /\ live'[b] = 0 /\ ~Reaped(b)
        BY <1>1, <3>2 DEF Out, Reaped
      <4>2. b \in Made /\ b \in Call
        BY <1>3, <4>1 DEF Made
      <4>3. b # p
        <5>1. SUFFICES ASSUME b = p PROVE FALSE
          OBVIOUS
        <5>2. live[p] \in Nat /\ live'[p] = live[p] + 1
          BY <1>1, <4>2, <5>1 DEF IInv, TreeInv, TreeTypes
        <5> QED
          BY <4>1, <5>1, <5>2
      <4>4. live'[b] = live[b]
        BY <1>1, <1>3, <4>1, <4>2, <4>3 DEF IInv, TreeInv, TreeTypes
      <4> QED
        BY <4>1, <4>2, <4>4 DEF Out
    <3> QED
      BY <2>2, <3>1, <3>2
  <2> QED
    BY <1>1, <2>1, <2>2, BelatedFrame
<1>7. Closing'
  BY <1>1, <1>3 DEF IInv, KeepInv, Closing
<1> QED
  BY <1>2, <1>5, <1>6, <1>7 DEF KeepInv

LEMMA EndCallKeeps ==
  ASSUME IInv, UNCHANGED late, NEW c \in Call, EndCall(c)
  PROVE  KeepInv'
<1>1. /\ UNCHANGED <<stage, owner, closed, dropping, dropped, res, belated, left, phase, parent>>
      /\ ended' = [ended EXCEPT ![c] = TRUE] /\ c \in Made /\ ~ended[c] /\ Made' = Made
  BY AboveSame DEF EndCall, sessions
<1>2. HoldTypes'
  BY <1>1 DEF IInv, KeepInv, HoldTypes, ResTypes
<1>3. c # Top /\ reaping[c] = None
  BY <1>1, StillGoing DEF IInv
<1>4. \/ reaping' = reaping
      \/ \E b : reaping' = [reaping EXCEPT ![c] = [at |-> b, taken |-> FALSE, todo |-> <<>>]]
  BY DEF EndCall, AtEnd
<1>5. /\ \A d \in Call : d # c => reaping'[d] = reaping[d]
      /\ reaping'[c] # None => reaping'[c].taken = FALSE /\ ToSet(reaping'[c].todo) = {}
  <2>1. CASE reaping' = reaping
    BY <1>3, <2>1
  <2>2. ASSUME NEW b, reaping' = [reaping EXCEPT ![c] = [at |-> b, taken |-> FALSE, todo |-> <<>>]]
        PROVE  /\ \A d \in Call : d # c => reaping'[d] = reaping[d]
               /\ reaping'[c].taken = FALSE /\ ToSet(reaping'[c].todo) = {}
    <3> DEFINE new == [at |-> b, taken |-> FALSE, todo |-> <<>>]
    <3>1. new.taken = FALSE /\ new.todo = <<>>
      OBVIOUS
    <3>2. reaping'[c] = new /\ \A d \in Call : d # c => reaping'[d] = reaping[d]
      BY <2>2 DEF IInv, TreeInv, TreeTypes
    <3> HIDE DEF new
    <3> QED
      BY <3>1, <3>2 DEF ToSet
  <2> QED
    BY <1>4, <2>1, <2>2
<1>6. \A s \in Session : InHand(s)' <=> InHand(s)
  BY <1>1, <1>3, <1>5 DEF InHand
<1>7. \A s \in Session : Kept(s)'
  BY <1>1, <1>6, KeptFrame
<1>8. Belated'
  <2>1. \A b : Held(b)' = Held(b)
    BY <1>1 DEF Held
  <2>2. \A b : Emptied(b)' => Emptied(b)
    BY <1>3, <1>5 DEF Emptied
  <2>3. \A b \in Made : Out(b)' => Out(b) \/ (b = c /\ res[c] = None)
    BY EndCallTree DEF IInv
  <2>4. res[c] = None => ToSet(Held(c))' = {}
    BY <2>1 DEF Held, ToSet
  <2> QED
    BY <1>1, <2>1, <2>2, <2>3, <2>4, BelatedFrame
<1>9. Closing'
  <2>1. ended'[Top] = ended[Top] /\ \A b \in Made : ended'[b] = (b = c \/ ended[b])
    BY <1>1, <1>3 DEF IInv, TreeInv, TreeTypes, Made
  <2>2. ~late => phase \in {"going", "settling"}
    BY <1>1 DEF IInv, KeepInv, Closing, HoldTypes, Phase
  <2> QED
    BY <1>1, <2>1, <2>2 DEF IInv, KeepInv, Closing
<1> QED
  BY <1>2, <1>7, <1>8, <1>9 DEF KeepInv

LEMMA OpenKeeps ==
  ASSUME IInv, UNCHANGED late, NEW s \in Session, NEW c \in Call, Open(s, c)
  PROVE  KeepInv'
<1>1. /\ UNCHANGED <<closed, dropping, dropped, belated, tree, res, reaping, phase, left>>
      /\ stage' = [stage EXCEPT ![s] = "opening"] /\ owner' = [owner EXCEPT ![s] = c]
      /\ stage[s] = "none" /\ c \in Made /\ Going(c)
  BY DEF Open
<1>2. /\ Made' = Made /\ ended' = ended /\ reaping' = reaping
      /\ \A b : (Out(b)' <=> Out(b)) /\ (Emptied(b)' <=> Emptied(b)) /\ Held(b)' = Held(b)
      /\ \A t : InHand(t)' <=> InHand(t)
  BY <1>1, SameTree DEF Held
<1>3. HoldTypes'
  <2>1. stage' \in [Session -> Stage]
    BY <1>1 DEF IInv, KeepInv, HoldTypes, Stage
  <2>2. owner' \in [Session -> Call \cup {None}]
    BY <1>1 DEF IInv, KeepInv, HoldTypes
  <2> QED
    BY <1>1, <2>1, <2>2 DEF IInv, KeepInv, HoldTypes, ResTypes
<1>4. ASSUME NEW t \in Session
      PROVE  Kept(t)'
  <2>1. Kept(t)
    BY DEF IInv, KeepInv
  <2>2. CASE t = s
    <3>1. stage'[t] = "opening" /\ owner'[t] = c
      BY <1>1, <2>2 DEF IInv, KeepInv, HoldTypes
    <3>2. ~closed[t] /\ t \notin dropped /\ ~InHand(t) /\ \A b \in Call : t \notin ToSet(Held(b))
      BY <1>1, <2>1, <2>2 DEF Kept
    <3> QED
      BY <1>1, <1>2, <3>1, <3>2 DEF Kept
  <2>3. CASE t # s
    <3>1. stage'[t] = stage[t] /\ owner'[t] = owner[t]
      BY <1>1, <2>3
    <3>2. Held(owner[t])' = Held(owner[t])
      BY <1>1, <3>1 DEF Held
    <3> QED
      BY <1>1, <1>2, <2>1, <3>1, <3>2 DEF Kept
  <2> QED
    BY <2>2, <2>3
<1>5. Belated'
  BY <1>1, <1>2, BelatedFrame
<1>6. Closing'
  <2>1. ~ended[Top]
    BY <1>1 DEF Going
  <2>2. phase = "going"
    BY <2>1 DEF IInv, KeepInv, Closing
  <2> QED
    BY <1>1, <1>2, <2>2 DEF IInv, KeepInv, Closing
<1> QED
  BY <1>3, <1>4, <1>5, <1>6 DEF KeepInv

LEMMA OpenedKeeps ==
  ASSUME IInv, UNCHANGED late, NEW s \in Session, Opened(s)
  PROVE  KeepInv'
<1> DEFINE o == owner[s]
<1>1. /\ UNCHANGED <<owner, closed, dropping, dropped, tree, reaping, phase, left>>
      /\ stage' = [stage EXCEPT ![s] = "open"] /\ stage[s] = "opening"
      /\ res' = [res EXCEPT ![o] = Append(Held(o), s)]
      /\ belated' = IF ended[o] THEN belated \cup {s} ELSE belated
  BY DEF Opened
<1>2. /\ Made' = Made /\ ended' = ended /\ reaping' = reaping
      /\ \A b : (Out(b)' <=> Out(b)) /\ (Emptied(b)' <=> Emptied(b))
      /\ \A t : InHand(t)' <=> InHand(t)
  BY <1>1, SameTree
<1>3. Kept(s) /\ o \in Made /\ o \in Call
  BY <1>1 DEF IInv, KeepInv, Kept, Made
<1>4. /\ Append(Held(o), s) \in Seq(Session) /\ Append(Held(o), s) # None
      /\ ToSet(Append(Held(o), s)) = ToSet(Held(o)) \cup {s}
  <2>1. Held(o) \in Seq(Session)
    BY <1>3, HeldType DEF IInv, KeepInv, HoldTypes
  <2>2. /\ Append(Held(o), s) \in Seq(Session)
        /\ ToSet(Append(Held(o), s)) = ToSet(Held(o)) \cup {s}
    BY <2>1, Appending
  <2> QED
    BY <2>2, CallTreeAssumption
<1>5. /\ res'[o] = Append(Held(o), s) /\ \A b \in Call : b # o => res'[b] = res[b]
  BY <1>1, <1>3 DEF IInv, KeepInv, HoldTypes, ResTypes
<1>6. PICK n \in Made : n = o
  BY <1>3
<1>7. /\ ToSet(Held(n)') = ToSet(Held(n)) \cup {s}
      /\ \A b \in Call : b # n => Held(b)' = Held(b)
  BY <1>4, <1>5, <1>6 DEF Held
<1>8. HoldTypes'
  <2>1. stage' \in [Session -> Stage]
    BY <1>1 DEF IInv, KeepInv, HoldTypes, Stage
  <2>2. ResTypes'
    BY <1>1, <1>4 DEF IInv, KeepInv, HoldTypes, ResTypes
  <2>3. belated' \subseteq Session
    BY <1>1 DEF IInv, KeepInv, HoldTypes
  <2> QED
    BY <1>1, <2>1, <2>2, <2>3 DEF IInv, KeepInv, HoldTypes
<1>9. ASSUME NEW t \in Session
      PROVE  Kept(t)'
  <2>1. Kept(t)
    BY DEF IInv, KeepInv
  <2>2. CASE t = s
    <3>1. stage'[t] = "open" /\ owner'[t] = n
      BY <1>1, <1>6, <2>2 DEF IInv, KeepInv, HoldTypes
    <3>2. ~closed[t] /\ t \notin dropped
      BY <1>1, <2>1, <2>2 DEF Kept
    <3>3. t \in ToSet(Held(owner[t]))'
      BY <1>7, <2>2, <3>1 DEF Held
    <3> QED
      BY <1>1, <1>2, <3>1, <3>2, <3>3 DEF Kept
  <2>3. CASE t # s
    <3>1. stage'[t] = stage[t] /\ owner'[t] = owner[t]
      BY <1>1, <2>3
    <3>2. \A b \in Call : t \in ToSet(Held(b))' <=> t \in ToSet(Held(b))
      BY <1>7, <2>3
    <3>3. stage[t] = "open" => (t \in ToSet(Held(owner[t]))' <=> t \in ToSet(Held(owner[t])))
      <4>1. SUFFICES ASSUME stage[t] = "open"
                     PROVE  t \in ToSet(Held(owner[t]))' <=> t \in ToSet(Held(owner[t]))
        OBVIOUS
      <4>2. PICK b \in Call : b = owner[t]
        BY <2>1, <4>1 DEF Kept, Made
      <4>3. Held(owner[t])' = Held(b)'
        BY <1>1, <4>2 DEF Held
      <4> QED
        BY <3>2, <4>2, <4>3
    <3> QED
      BY <1>1, <1>2, <2>1, <3>1, <3>2, <3>3 DEF Kept
  <2> QED
    BY <2>2, <2>3
<1>10. Belated'
  <2> SUFFICES ASSUME NEW b \in Made, Out(b) \/ Emptied(b)
               PROVE  ToSet(Held(b))' \subseteq belated'
    BY <1>2 DEF Belated
  <2>1. ToSet(Held(b)) \subseteq belated /\ ended[b]
    BY DEF IInv, KeepInv, Belated, TreeInv, Cascades, Out, Emptied
  <2>2. CASE b = n
    BY <1>1, <1>6, <1>7, <2>1, <2>2
  <2>3. CASE b # n
    BY <1>1, <1>7, <2>1, <2>3 DEF Made
  <2> QED
    BY <2>2, <2>3
<1>11. Closing'
  <2>1. ~late => phase \in {"going", "settling"}
    BY <1>1 DEF IInv, KeepInv, Closing, HoldTypes, Phase
  <2> QED
    BY <1>1, <1>2, <2>1 DEF IInv, KeepInv, Closing
<1> QED
  BY <1>8, <1>9, <1>10, <1>11 DEF KeepInv

LEMMA OpenFailsKeeps ==
  ASSUME IInv, UNCHANGED late, NEW s \in Session, OpenFails(s)
  PROVE  KeepInv'
<1>1. /\ UNCHANGED <<owner, closed, dropping, dropped, belated, tree, res, reaping, phase, left>>
      /\ stage' = [stage EXCEPT ![s] = "closed"] /\ stage[s] = "opening"
  BY DEF OpenFails
<1>2. /\ Made' = Made /\ ended' = ended /\ reaping' = reaping
      /\ \A b : (Out(b)' <=> Out(b)) /\ (Emptied(b)' <=> Emptied(b)) /\ Held(b)' = Held(b)
      /\ \A t : InHand(t)' <=> InHand(t)
  BY <1>1, SameTree DEF Held
<1>3. HoldTypes'
  <2>1. stage' \in [Session -> Stage]
    BY <1>1 DEF IInv, KeepInv, HoldTypes, Stage
  <2> QED
    BY <1>1, <2>1 DEF IInv, KeepInv, HoldTypes, ResTypes
<1>4. ASSUME NEW t \in Session
      PROVE  Kept(t)'
  <2>1. Kept(t) /\ owner'[t] = owner[t] /\ Held(owner[t])' = Held(owner[t])
    BY <1>1 DEF IInv, KeepInv, Held
  <2>2. stage'[t] = IF t = s THEN "closed" ELSE stage[t]
    BY <1>1 DEF IInv, KeepInv, HoldTypes
  <2>3. CASE t = s
    BY <1>1, <1>2, <2>1, <2>2, <2>3 DEF Kept
  <2>4. CASE t # s
    BY <1>1, <1>2, <2>1, <2>2, <2>4 DEF Kept
  <2> QED
    BY <2>3, <2>4
<1>5. Belated'
  BY <1>1, <1>2, BelatedFrame
<1>6. Closing'
  <2>1. ~late => phase \in {"going", "settling"}
    BY <1>1 DEF IInv, KeepInv, Closing, HoldTypes, Phase
  <2> QED
    BY <1>1, <1>2, <2>1 DEF IInv, KeepInv, Closing
<1> QED
  BY <1>3, <1>4, <1>5, <1>6 DEF KeepInv

LEMMA ViewGoesKeeps ==
  ASSUME IInv, UNCHANGED late, NEW s \in Session, ViewGoes(s)
  PROVE  KeepInv'
<1>1. /\ UNCHANGED <<stage, owner, closed, dropping, belated, tree, res, reaping, phase, left>>
      /\ dropped' = dropped \cup {s} /\ stage[s] = "open"
  BY DEF ViewGoes
<1>2. /\ Made' = Made /\ ended' = ended /\ reaping' = reaping
      /\ \A b : (Out(b)' <=> Out(b)) /\ (Emptied(b)' <=> Emptied(b)) /\ Held(b)' = Held(b)
      /\ \A t : InHand(t)' <=> InHand(t)
  BY <1>1, SameTree DEF Held
<1>3. HoldTypes'
  BY <1>1 DEF IInv, KeepInv, HoldTypes, ResTypes
<1>4. ASSUME NEW t \in Session
      PROVE  Kept(t)'
  <2>1. Kept(t) /\ owner'[t] = owner[t] /\ Held(owner[t])' = Held(owner[t])
    BY <1>1 DEF IInv, KeepInv, Held
  <2> QED
    BY <1>1, <1>2, <2>1 DEF Kept
<1>5. Belated'
  BY <1>1, <1>2, BelatedFrame
<1>6. Closing'
  BY <1>1, <1>2 DEF IInv, KeepInv, Closing
<1> QED
  BY <1>3, <1>4, <1>5, <1>6 DEF KeepInv

\* With the run closed, nothing is left to hold a session that is open.
LEMMA ClosedAll == IInv => AllClosed
<1> SUFFICES ASSUME IInv, phase = "closed", ~late, NEW s \in Session
             PROVE  stage[s] \in {"none", "closed"}
  BY DEF AllClosed
<1>1. /\ \A c \in Call : reaping[c] = None /\ res[c] = None
      /\ left = <<>> /\ ~dropping[s] /\ stage[s] # "opening"
  BY DEF IInv, KeepInv, Closing
<1>2. ~InHand(s)
  BY <1>1 DEF InHand, ToSet
<1>3. Kept(s) /\ stage[s] \in Stage
  BY DEF IInv, KeepInv, HoldTypes
<1>4. stage[s] # "open"
  <2> SUFFICES ASSUME stage[s] = "open" PROVE FALSE
    OBVIOUS
  <2>1. owner[s] \in Call /\ s \in ToSet(Held(owner[s]))
    BY <1>2, <1>3 DEF Kept, Made
  <2> QED
    BY <1>1, <2>1 DEF Held, ToSet
<1>5. stage[s] # "closing"
  BY <1>1, <1>2, <1>3 DEF Kept
<1> QED
  BY <1>1, <1>3, <1>4, <1>5 DEF Stage

LEMMA DrainKeeps ==
  ASSUME IInv, Drain, UNCHANGED <<tree, res, reaping, left, late>>
  PROVE  /\ \A s \in Session : Kept(s)'
         /\ Belated' /\ ResTypes' /\ owner' = owner /\ belated' = belated
         /\ stage' \in [Session -> Stage] /\ dropping' \in [Session -> BOOLEAN]
         /\ \A s \in Session : stage'[s] = "opening" => stage[s] = "opening"
         /\ \A s \in Session : dropping'[s] => dropping[s] \/ stage[s] = "open"
<1> DEFINE shut == {s \in dropped : MayShut(s)}
<1>1. /\ closed' = [s \in Session |-> closed[s] \/ s \in shut]
      /\ dropping' = [s \in Session |-> dropping[s] \/ s \in shut]
      /\ stage' = [s \in Session |-> IF s \in shut THEN "closing" ELSE stage[s]]
      /\ dropped' = {} /\ owner' = owner /\ belated' = belated
  BY DEF Drain
<1>2. /\ Made' = Made /\ ended' = ended /\ reaping' = reaping
      /\ \A b : (Out(b)' <=> Out(b)) /\ (Emptied(b)' <=> Emptied(b)) /\ Held(b)' = Held(b)
      /\ \A t : InHand(t)' <=> InHand(t)
  BY SameTree DEF Held
<1>3. \A s \in shut : s \in dropped /\ ~closed[s]
  BY DEF MayShut
<1> HIDE DEF shut
<1>4. /\ stage \in [Session -> Stage] /\ dropping \in [Session -> BOOLEAN]
      /\ closed \in [Session -> BOOLEAN] /\ \A s \in Session : Kept(s)
  BY DEF IInv, KeepInv, HoldTypes, ClosesInv
<1>5. stage' \in [Session -> Stage] /\ dropping' \in [Session -> BOOLEAN]
  BY <1>1, <1>4 DEF Stage
<1>6. ASSUME NEW s \in Session
      PROVE  /\ Kept(s)' /\ (stage'[s] = "opening" => stage[s] = "opening")
             /\ dropping'[s] => dropping[s] \/ stage[s] = "open"
  <2>1. Kept(s) /\ owner'[s] = owner[s] /\ Held(owner[s])' = Held(owner[s])
    BY <1>1, <1>4 DEF Held
  <2>2. CASE s \in shut
    <3>1. stage'[s] = "closing" /\ closed'[s] = TRUE /\ dropping'[s] = TRUE /\ s \notin dropped'
      BY <1>1, <2>2
    <3>2. stage[s] = "open"
      BY <1>3, <2>1, <2>2 DEF Kept
    <3> QED
      BY <1>2, <2>1, <3>1, <3>2 DEF Kept
  <2>3. CASE s \notin shut
    <3>1. /\ stage'[s] = stage[s] /\ closed'[s] = closed[s] /\ dropping'[s] = dropping[s]
          /\ s \notin dropped'
      BY <1>1, <1>4, <2>3
    <3> QED
      BY <1>2, <2>1, <3>1 DEF Kept
  <2> QED
    BY <2>2, <2>3
<1>7. Belated'
  BY <1>1, <1>2, BelatedFrame
<1>8. ResTypes'
  BY DEF IInv, KeepInv, HoldTypes, ResTypes
<1> QED
  BY <1>1, <1>5, <1>6, <1>7, <1>8

LEMMA DrainSoonKeeps ==
  ASSUME IInv, UNCHANGED late, DrainSoon
  PROVE  KeepInv'
<1>1. Drain /\ UNCHANGED <<tree, res, reaping, phase, left>>
  BY DEF DrainSoon
<1>2. Made' = Made /\ ended' = ended /\ reaping' = reaping
  BY <1>1, SameTree
<1>3. /\ \A s \in Session : Kept(s)'
      /\ Belated' /\ ResTypes' /\ owner' = owner /\ belated' = belated
      /\ stage' \in [Session -> Stage] /\ dropping' \in [Session -> BOOLEAN]
      /\ \A s \in Session : stage'[s] = "opening" => stage[s] = "opening"
      /\ \A s \in Session : dropping'[s] => dropping[s] \/ stage[s] = "open"
  BY <1>1, DrainKeeps
<1>4. HoldTypes'
  BY <1>1, <1>3 DEF IInv, KeepInv, HoldTypes
<1>5. Closing'
  <2>1. ~late /\ phase = "closed" => \A s \in Session : ~dropping'[s]
    BY <1>3, ClosedAll DEF AllClosed, IInv, KeepInv, Closing
  <2> QED
    BY <1>1, <1>2, <1>3, <2>1 DEF IInv, KeepInv, Closing
<1> QED
  BY <1>3, <1>4, <1>5 DEF KeepInv

LEMMA SettleKeeps ==
  ASSUME IInv, UNCHANGED late, Settle
  PROVE  KeepInv'
<1>1. /\ Drain /\ UNCHANGED <<tree, res, reaping, left>> /\ phase = "settling" /\ phase' = "reaping"
      /\ late \/ ((\A c \in Made : ended[c]) /\ \A s \in Session : stage[s] # "opening")
  BY DEF Settle
<1>2. Made' = Made /\ ended' = ended /\ reaping' = reaping
  BY <1>1, SameTree
<1>3. /\ \A s \in Session : Kept(s)'
      /\ Belated' /\ ResTypes' /\ owner' = owner /\ belated' = belated
      /\ stage' \in [Session -> Stage] /\ dropping' \in [Session -> BOOLEAN]
      /\ \A s \in Session : stage'[s] = "opening" => stage[s] = "opening"
  BY <1>1, DrainKeeps
<1>4. HoldTypes'
  BY <1>1, <1>3 DEF IInv, KeepInv, HoldTypes, Phase
<1>5. Closing'
  BY <1>1, <1>2, <1>3 DEF IInv, KeepInv, Closing
<1> QED
  BY <1>3, <1>4, <1>5 DEF KeepInv

LEMMA ShutKeeps ==
  ASSUME IInv, UNCHANGED late, NEW s \in Session, Shut(s)
  PROVE  KeepInv'
<1> DEFINE o == owner[s]
<1>1. /\ UNCHANGED <<owner, closed, dropped, belated, tree, reaping, phase, left>>
      /\ stage' = [stage EXCEPT ![s] = "closed"] /\ stage[s] = "closing"
      /\ dropping' = [dropping EXCEPT ![s] = FALSE]
      /\ res' = IF dropping[s] THEN [res EXCEPT ![o] = Without(s, res[o])] ELSE res
  BY DEF Shut
<1>2. /\ Made' = Made /\ ended' = ended /\ reaping' = reaping
      /\ \A b : (Out(b)' <=> Out(b)) /\ (Emptied(b)' <=> Emptied(b))
      /\ \A t : InHand(t)' <=> InHand(t)
  BY <1>1, SameTree
<1>3. Kept(s) /\ o \in Made /\ o \in Call
  BY <1>1 DEF IInv, KeepInv, Kept, Made
<1>4. /\ stage \in [Session -> Stage] /\ dropping \in [Session -> BOOLEAN]
      /\ res \in [Call -> Seq(Session) \cup {None}]
  BY DEF IInv, KeepInv, HoldTypes, ResTypes
<1>5. PICK n \in Call : n = o
  BY <1>3
<1>6. /\ Without(s, res[n]) \in Seq(Session) \cup {None}
      /\ (LET of(h) == ToSet(IF h = None THEN <<>> ELSE h)
          IN /\ of(Without(s, res[n])) \subseteq of(res[n])
             /\ of(res[n]) \subseteq of(Without(s, res[n])) \cup {s})
  BY <1>4, WithoutHolds
<1>7. ResTypes'
  BY <1>1, <1>4, <1>5, <1>6 DEF ResTypes
<1>8. ASSUME NEW b \in Call
      PROVE  /\ ToSet(Held(b)') \subseteq ToSet(Held(b))
             /\ ToSet(Held(b)) \subseteq ToSet(Held(b)') \cup {s}
             /\ res[b] = None => res'[b] = None
  <2>1. CASE dropping[s] /\ b = n
    <3>1. res'[b] = Without(s, res[n])
      BY <1>1, <1>4, <1>5, <2>1
    <3>2. res[b] = None => Without(s, res[n]) = None
      BY <2>1 DEF Without
    <3> QED
      BY <1>6, <2>1, <3>1, <3>2 DEF Held
  <2>2. CASE ~(dropping[s] /\ b = n)
    <3>1. res'[b] = res[b]
      BY <1>1, <1>4, <1>5, <2>2
    <3> QED
      BY <3>1 DEF Held
  <2> QED
    BY <2>1, <2>2
<1>9. HoldTypes'
  <2>1. stage' \in [Session -> Stage] /\ dropping' \in [Session -> BOOLEAN]
    BY <1>1, <1>4 DEF Stage
  <2> QED
    BY <1>1, <1>7, <2>1 DEF IInv, KeepInv, HoldTypes
<1>10. ASSUME NEW t \in Session
       PROVE  Kept(t)'
  <2>1. Kept(t) /\ owner'[t] = owner[t]
    BY <1>1 DEF IInv, KeepInv
  <2>2. CASE t = s
    <3>1. stage'[t] = "closed" /\ closed[t]
      BY <1>1, <1>3, <1>4, <2>2 DEF Kept
    <3> QED
      BY <1>1, <1>2, <1>3, <2>1, <2>2, <3>1 DEF Kept
  <2>3. CASE t # s
    <3>1. stage'[t] = stage[t] /\ dropping'[t] = dropping[t]
      BY <1>1, <1>4, <2>3
    <3>2. \A b \in Call : t \in ToSet(Held(b))' <=> t \in ToSet(Held(b))
      BY <1>8, <2>3
    <3>3. stage[t] = "open" => (t \in ToSet(Held(owner[t]))' <=> t \in ToSet(Held(owner[t])))
      <4>1. SUFFICES ASSUME stage[t] = "open"
                     PROVE  t \in ToSet(Held(owner[t]))' <=> t \in ToSet(Held(owner[t]))
        OBVIOUS
      <4>2. PICK b \in Call : b = owner[t]
        BY <2>1, <4>1 DEF Kept, Made
      <4>3. Held(owner[t])' = Held(b)'
        BY <1>1, <4>2 DEF Held
      <4> QED
        BY <3>2, <4>2, <4>3
    <3> QED
      BY <1>1, <1>2, <2>1, <3>1, <3>2, <3>3 DEF Kept
  <2> QED
    BY <2>2, <2>3
<1>11. Belated'
  BY <1>1, <1>2, <1>8, BelatedFrame DEF Made
<1>12. Closing'
  <2>1. \A t \in Session : /\ stage'[t] = "opening" => stage[t] = "opening"
                           /\ dropping'[t] => dropping[t]
    BY <1>1, <1>4
  <2> QED
    BY <1>1, <1>2, <1>8, <2>1 DEF IInv, KeepInv, Closing
<1> QED
  BY <1>9, <1>10, <1>11, <1>12 DEF KeepInv

\* A session that is closed by what is letting go of it.
LEMMA ReleaseKeeps ==
  ASSUME IInv, NEW s \in Session, Release(s), InHand(s),
         UNCHANGED <<tree, res, reaping, phase, left, late>>
  PROVE  KeepInv'
<1>1. /\ UNCHANGED <<owner, dropping, dropped, belated>> /\ ~closed[s] /\ stage[s] # "closed"
      /\ closed' = [closed EXCEPT ![s] = TRUE] /\ stage' = [stage EXCEPT ![s] = "closing"]
  BY DEF Release, MayShut
<1>2. /\ Made' = Made /\ ended' = ended /\ reaping' = reaping
      /\ \A b : (Out(b)' <=> Out(b)) /\ (Emptied(b)' <=> Emptied(b)) /\ Held(b)' = Held(b)
      /\ \A t : InHand(t)' <=> InHand(t)
  BY SameTree DEF Held
<1>3. /\ stage \in [Session -> Stage] /\ closed \in [Session -> BOOLEAN]
      /\ \A t \in Session : Kept(t)
  BY DEF IInv, KeepInv, HoldTypes, ClosesInv
<1>4. stage[s] = "open"
  BY <1>1, <1>3 DEF Kept
<1>5. HoldTypes'
  <2>1. stage' \in [Session -> Stage]
    BY <1>1, <1>3 DEF Stage
  <2> QED
    BY <1>1, <2>1 DEF IInv, KeepInv, HoldTypes, ResTypes
<1>6. ASSUME NEW t \in Session
      PROVE  Kept(t)'
  <2>1. Kept(t) /\ owner'[t] = owner[t] /\ Held(owner[t])' = Held(owner[t])
    BY <1>1, <1>3 DEF Held
  <2>2. CASE t = s
    <3>1. stage'[t] = "closing" /\ closed'[t] = TRUE
      BY <1>1, <1>3, <2>2
    <3> QED
      BY <1>2, <1>4, <2>1, <2>2, <3>1 DEF Kept
  <2>3. CASE t # s
    <3>1. stage'[t] = stage[t] /\ closed'[t] = closed[t]
      BY <1>1, <1>3, <2>3
    <3> QED
      BY <1>1, <1>2, <2>1, <3>1 DEF Kept
  <2> QED
    BY <2>2, <2>3
<1>7. Belated'
  BY <1>1, <1>2, BelatedFrame
<1>8. Closing'
  <2>1. \A t \in Session : stage'[t] = "opening" => stage[t] = "opening"
    BY <1>1, <1>3
  <2> QED
    BY <1>1, <1>2, <2>1 DEF IInv, KeepInv, Closing
<1> QED
  BY <1>5, <1>6, <1>7, <1>8 DEF KeepInv

\* While a cascade is under way, the run's close has not got past waiting for it, or will not.
LEMMA WaitedFor ==
  ASSUME IInv, NEW c \in Call, reaping[c] # None
  PROVE  late \/ phase \in {"going", "settling", "reaping"}
BY DEF IInv, KeepInv, Closing, HoldTypes, Phase

LEMMA TakeKeeps ==
  ASSUME IInv, UNCHANGED late, NEW c \in Call, Take(c)
  PROVE  KeepInv'
<1>1. PICK n \in Call : n = reaping[c].at
  BY DEF Take, IInv, TreeInv, Cascades, Made
<1> DEFINE new == [at |-> n, taken |-> TRUE, todo |-> Held(n)]
<1>2. /\ UNCHANGED <<stage, owner, closed, dropping, dropped, belated, phase, left, parent,
                     ended, live>>
      /\ Made' = Made /\ reaping[c] # None /\ ~reaping[c].taken
      /\ reaping' = [reaping EXCEPT ![c] = new] /\ res' = [res EXCEPT ![n] = None]
  BY <1>1, AboveSame DEF Take, tree, sessions
<1>3. Held(n) \in Seq(Session)
  BY HeldType DEF IInv, KeepInv, HoldTypes
<1>4. /\ new \in Reaping /\ new # None /\ new.at = n /\ new.taken = TRUE /\ new.todo = Held(n)
  <2>1. new \in Reaping
    BY ONLY <1>3 DEF Reaping
  <2>2. new # None
    <3> HIDE DEF new
    <3> QED
      BY ONLY <2>1, CallTreeAssumption
  <2> QED
    BY ONLY <2>1, <2>2
<1> HIDE DEF new
<1>5. /\ reaping'[c] = new /\ \A d \in Call : d # c => reaping'[d] = reaping[d]
      /\ res'[n] = None /\ \A b \in Call : b # n => res'[b] = res[b]
  BY <1>2 DEF IInv, TreeInv, TreeTypes, KeepInv, HoldTypes, ResTypes
<1>6. Held(n)' = <<>> /\ \A b \in Call : b # n => Held(b)' = Held(b)
  BY <1>5 DEF Held
<1>7. ToSet(reaping[c].todo) = {}
  BY <1>2 DEF IInv, TreeInv, Cascades, ToSet
<1>8. \A s : InHand(s)' <=> InHand(s) \/ s \in ToSet(Held(n))
  <2> SUFFICES ASSUME NEW s PROVE InHand(s)' <=> InHand(s) \/ s \in ToSet(Held(n))
    OBVIOUS
  <2>1. ToSet(reaping'[c].todo) = ToSet(Held(n)) /\ reaping'[c] # None
    BY <1>4, <1>5
  <2>2. InHand(s)' => InHand(s) \/ s \in ToSet(Held(n))
    BY <1>2, <1>5, <2>1 DEF InHand
  <2>3. InHand(s) => InHand(s)'
    BY <1>2, <1>5, <1>7 DEF InHand
  <2>4. s \in ToSet(Held(n)) => InHand(s)'
    BY <2>1 DEF InHand
  <2> QED
    BY <2>2, <2>3, <2>4
<1>9. HoldTypes'
  <2>1. ResTypes'
    BY <1>2 DEF IInv, KeepInv, HoldTypes, ResTypes
  <2> QED
    BY <1>2, <2>1 DEF IInv, KeepInv, HoldTypes
<1>10. ASSUME NEW s \in Session
       PROVE  Kept(s)'
  <2>1. Kept(s) /\ stage'[s] = stage[s] /\ owner'[s] = owner[s]
    BY <1>2 DEF IInv, KeepInv
  <2>2. \A b \in Call : s \in ToSet(Held(b)) => s \in ToSet(Held(b))' \/ InHand(s)'
    BY <1>6, <1>8
  <2>3. stage[s] = "open" => s \in ToSet(Held(owner[s]))' \/ InHand(s)'
    <3>1. SUFFICES ASSUME stage[s] = "open"
                   PROVE  s \in ToSet(Held(owner[s]))' \/ InHand(s)'
      OBVIOUS
    <3>2. PICK b \in Call : b = owner[s]
      BY <2>1, <3>1 DEF Kept, Made
    <3>3. Held(owner[s])' = Held(b)'
      BY <1>2, <3>2 DEF Held
    <3> QED
      BY <1>8, <2>1, <2>2, <3>1, <3>2, <3>3 DEF Kept
  <2>4. InHand(s) => InHand(s)'
    BY <1>8
  <2>5. \A b \in Call : s \in ToSet(Held(b))' => s \in ToSet(Held(b))
    BY <1>6 DEF ToSet
  <2>6. InHand(s)' \/ (\E b \in Call : s \in ToSet(Held(b))') =>
            stage[s] \in {"open", "closing", "closed"}
    BY <1>8, <2>1, <2>5 DEF Kept
  <2> QED
    BY <1>2, <2>1, <2>3, <2>4, <2>6 DEF Kept
<1>11. Belated'
  <2>1. \A b \in Made : Out(b)' => Out(b)
    <3>1. \A b : Reaped(b) => Reaped(b)'
      BY <1>1, <1>2, <1>4, <1>5 DEF Reaped
    <3> QED
      BY <1>2, <3>1 DEF Out
  <2>2. \A b \in Made : Emptied(b)' => Emptied(b) \/ b = n
    BY <1>4, <1>5 DEF Emptied
  <2>3. \A b \in Made : ToSet(Held(b))' \subseteq ToSet(Held(b))
    BY <1>6 DEF Made, ToSet
  <2>4. ToSet(Held(n))' = {}
    BY <1>6 DEF ToSet
  <2> QED
    BY <1>2, <2>1, <2>2, <2>3, <2>4, BelatedFrame
<1>12. Closing'
  BY <1>2, WaitedFor DEF IInv, KeepInv, Closing
<1> QED
  BY <1>9, <1>10, <1>11, <1>12 DEF KeepInv

LEMMA ReapOneKeeps ==
  ASSUME IInv, UNCHANGED late, NEW c \in Call, ReapOne(c)
  PROVE  KeepInv'
<1>1. /\ reaping[c] # None /\ reaping[c] \in Reaping /\ reaping[c].todo # <<>>
      /\ reaping[c].todo \in Seq(Session) /\ UNCHANGED <<tree, res, phase, left>>
  BY DEF ReapOne, IInv, TreeInv, TreeTypes, Reaping
<1>2. PICK s \in Session :
        /\ s = Last(reaping[c].todo) /\ s \in ToSet(reaping[c].todo)
        /\ ToSet(Front(reaping[c].todo)) \subseteq ToSet(reaping[c].todo)
        /\ ToSet(reaping[c].todo) \subseteq ToSet(Front(reaping[c].todo)) \cup {s}
  BY <1>1, Fronting
<1>3. CASE Release(s) /\ UNCHANGED reaping
  <2>1. InHand(s)
    BY <1>1, <1>2 DEF InHand
  <2> QED
    BY <1>1, <1>3, <2>1, ReleaseKeeps
<1>4. CASE /\ stage[s] = "closed" /\ UNCHANGED sessions
           /\ reaping' = [reaping EXCEPT ![c].todo = Front(@)]
  <2> DEFINE new == [reaping[c] EXCEPT !.todo = Front(@)]
  <2>1. /\ UNCHANGED <<stage, owner, closed, dropping, dropped, belated, parent, ended, live>>
        /\ Made' = Made /\ \A b : Held(b)' = Held(b)
    BY <1>1, <1>4, AboveSame DEF sessions, tree, Held
  <2>2. /\ reaping'[c] = new /\ \A d \in Call : d # c => reaping'[d] = reaping[d]
    BY <1>4 DEF IInv, TreeInv, TreeTypes
  <2>3. /\ new.at = reaping[c].at /\ new.taken = reaping[c].taken
        /\ new.todo = Front(reaping[c].todo) /\ new # None
    <3>1. Front(reaping[c].todo) \in Seq(Session)
      BY <1>1, Fronting
    <3>2. /\ new.at = reaping[c].at /\ new.taken = reaping[c].taken
          /\ new.todo = Front(reaping[c].todo) /\ new \in Reaping
      BY <1>1, <3>1 DEF Reaping
    <3> HIDE DEF new
    <3> QED
      BY <3>2, CallTreeAssumption
  <2> HIDE DEF new
  <2>4. \A t : /\ InHand(t)' => InHand(t)
               /\ t # s /\ InHand(t) => InHand(t)'
    <3> SUFFICES ASSUME NEW t
                 PROVE  (InHand(t)' => InHand(t)) /\ (t # s /\ InHand(t) => InHand(t)')
      OBVIOUS
    <3>1. InHand(t)' => InHand(t)
      BY <1>1, <1>2, <2>2, <2>3 DEF InHand
    <3>2. t # s /\ InHand(t) => InHand(t)'
      BY <1>1, <1>2, <2>2, <2>3 DEF InHand
    <3> QED
      BY <3>1, <3>2
  <2>5. HoldTypes'
    BY <1>1, <2>1 DEF IInv, KeepInv, HoldTypes, ResTypes
  <2>6. ASSUME NEW t \in Session
        PROVE  Kept(t)'
    <3>1. /\ Kept(t) /\ stage'[t] = stage[t] /\ owner'[t] = owner[t]
          /\ Held(owner[t])' = Held(owner[t])
      BY <2>1 DEF IInv, KeepInv, Held
    <3>2. t = s => stage[t] = "closed"
      BY <1>4
    <3> QED
      BY <2>1, <2>4, <3>1, <3>2 DEF Kept
  <2>7. Belated'
    <3>1. \A b : (Out(b)' <=> Out(b)) /\ (Emptied(b)' => Emptied(b))
      <4>1. \A b : Reaped(b)' <=> Reaped(b)
        BY <1>1, <2>2, <2>3 DEF Reaped
      <4>2. \A b : Emptied(b)' => Emptied(b)
        BY <1>1, <2>2, <2>3 DEF Emptied
      <4> QED
        BY <2>1, <4>1, <4>2 DEF Out
    <3> QED
      BY <2>1, <3>1, BelatedFrame
  <2>8. Closing'
    BY <1>1, <2>1, WaitedFor DEF IInv, KeepInv, Closing
  <2> QED
    BY <2>5, <2>6, <2>7, <2>8 DEF KeepInv
<1> QED
  BY <1>2, <1>3, <1>4 DEF ReapOne, Released

LEMMA ClimbKeeps ==
  ASSUME IInv, UNCHANGED late, NEW c \in Call, Climb(c)
  PROVE  KeepInv'
<1>1. /\ UNCHANGED <<stage, owner, closed, dropping, dropped, belated, res, phase, left,
                     parent, ended>>
      /\ Made' = Made /\ reaping[c] # None /\ reaping[c].taken /\ ToSet(reaping[c].todo) = {}
  BY AboveSame DEF Climb, sessions, ToSet
<1>2. PICK new : /\ reaping' = [reaping EXCEPT ![c] = new]
                 /\ new # None => new.taken = FALSE /\ ToSet(new.todo) = {}
  <2>1. CASE reaping' = [reaping EXCEPT ![c] = None]
    BY <2>1
  <2>2. ASSUME NEW b,
               reaping' = [reaping EXCEPT ![c] = [at |-> b, taken |-> FALSE, todo |-> <<>>]]
        PROVE  \E new : /\ reaping' = [reaping EXCEPT ![c] = new]
                        /\ new # None => new.taken = FALSE /\ ToSet(new.todo) = {}
    <3> DEFINE r == [at |-> b, taken |-> FALSE, todo |-> <<>>]
    <3>1. r.taken = FALSE /\ ToSet(r.todo) = {}
      BY DEF ToSet
    <3> HIDE DEF r
    <3>2. reaping' = [reaping EXCEPT ![c] = r]
      BY <2>2 DEF r
    <3> QED
      BY <3>1, <3>2
  <2>3. \/ reaping' = [reaping EXCEPT ![c] = None]
        \/ \E b : reaping' = [reaping EXCEPT ![c] = [at |-> b, taken |-> FALSE, todo |-> <<>>]]
    BY DEF Climb
  <2> QED
    BY <2>1, <2>2, <2>3
<1>3. reaping'[c] = new /\ \A d \in Call : d # c => reaping'[d] = reaping[d]
  BY <1>2 DEF IInv, TreeInv, TreeTypes
<1>4. \A s \in Session : InHand(s)' <=> InHand(s)
  <2>1. \A s \in Session : InHand(s)' => InHand(s)
    BY <1>1, <1>2, <1>3 DEF InHand
  <2>2. \A s \in Session : InHand(s) => InHand(s)'
    BY <1>1, <1>3 DEF InHand
  <2> QED
    BY <2>1, <2>2
<1>5. HoldTypes'
  BY <1>1 DEF IInv, KeepInv, HoldTypes, ResTypes
<1>6. \A s \in Session : Kept(s)'
  BY <1>1, <1>4, KeptFrame
<1>7. Belated'
  <2>1. \A b \in Made : Out(b)' => Out(b) \/ b = reaping[c].at
    BY ClimbTree DEF IInv
  <2>2. Emptied(reaping[c].at)
    BY <1>1 DEF Emptied
  <2>3. \A b : Emptied(b)' => Emptied(b)
    BY <1>2, <1>3 DEF Emptied
  <2>4. \A b : Held(b)' = Held(b)
    BY <1>1 DEF Held
  <2> QED
    BY <1>1, <2>1, <2>2, <2>3, <2>4, BelatedFrame
<1>8. Closing'
  BY <1>1, WaitedFor DEF IInv, KeepInv, Closing
<1> QED
  BY <1>5, <1>6, <1>7, <1>8 DEF KeepInv

LEMMA RunEndsKeeps ==
  ASSUME IInv, UNCHANGED late, RunEnds
  PROVE  KeepInv'
<1>1. /\ UNCHANGED <<stage, owner, closed, dropping, dropped, belated, res, left, parent, live,
                     reaping>>
      /\ Made' = Made /\ ended' = [ended EXCEPT ![Top] = TRUE]
      /\ phase = "going" /\ phase' = "settling"
  BY AboveSame DEF RunEnds, sessions
<1>2. HoldTypes'
  BY <1>1 DEF IInv, KeepInv, HoldTypes, ResTypes, Phase
<1>3. \A s \in Session : Kept(s)'
  <2>1. \A s \in Session : InHand(s)' <=> InHand(s)
    BY <1>1 DEF InHand
  <2> QED
    BY <1>1, <2>1, KeptFrame
<1>4. ended'[Top] = TRUE /\ \A b \in Made : ended'[b] = ended[b]
  BY <1>1, CallTreeAssumption DEF IInv, TreeInv, TreeTypes, Made
<1>5. Belated'
  <2>1. \A b \in Made : Out(b)' => Out(b)
    BY <1>1, <1>4 DEF Out, Reaped
  <2>2. \A b : (Emptied(b)' => Emptied(b)) /\ Held(b)' = Held(b)
    BY <1>1 DEF Emptied, Held
  <2> QED
    BY <1>1, <2>1, <2>2, BelatedFrame
<1>6. Closing'
  BY <1>1, <1>4 DEF IInv, KeepInv, Closing
<1> QED
  BY <1>2, <1>3, <1>5, <1>6 DEF KeepInv

LEMMA TakeLeftKeeps ==
  ASSUME IInv, UNCHANGED late, TakeLeft
  PROVE  KeepInv'
<1>1. /\ phase = "reaping" /\ phase' = "closing" /\ res' = [b \in Call |-> None]
      /\ late \/ \A b \in Call : reaping[b] = None
      /\ UNCHANGED <<tree, sessions, reaping>>
  BY DEF TakeLeft
<1>2. /\ left' \in Seq(Session)
      /\ \A b \in Made : ToSet(Held(b)) \subseteq ToSet(left')
      /\ \A s \in ToSet(left') : \E b \in Made : s \in ToSet(Held(b))
  <2>1. PICK order \in [1..Cardinality(Made) -> Made] :
          /\ \A i, j \in DOMAIN order : i # j => order[i] # order[j]
          /\ left' = StillHeld(order)
    BY DEF TakeLeft
  <2>2. TreeTypes /\ Treed /\ ResTypes
    BY DEF IInv, TreeInv, KeepInv, HoldTypes
  <2> QED
    BY <2>1, <2>2, StillHolds
<1>3. /\ UNCHANGED <<stage, owner, closed, dropping, dropped, belated>>
      /\ Made' = Made /\ ended' = ended /\ reaping' = reaping
      /\ \A b : (Out(b)' <=> Out(b)) /\ (Emptied(b)' <=> Emptied(b))
  BY <1>1, SameTree DEF sessions
<1>4. left = <<>> /\ ToSet(left) = {}
  BY <1>1 DEF IInv, KeepInv, Closing, ToSet
<1>5. \A b \in Call : res'[b] = None /\ ToSet(Held(b)') = {}
  BY <1>1 DEF Held, ToSet
<1>6. \A s : InHand(s)' <=> InHand(s) \/ s \in ToSet(left')
  BY <1>3, <1>4 DEF InHand
<1>7. HoldTypes'
  <2>1. ResTypes'
    BY <1>1 DEF ResTypes
  <2> QED
    BY <1>1, <1>2, <1>3, <2>1 DEF IInv, KeepInv, HoldTypes, Phase
<1>8. ASSUME NEW s \in Session
      PROVE  Kept(s)'
  <2>1. Kept(s) /\ stage'[s] = stage[s] /\ owner'[s] = owner[s]
    BY <1>3 DEF IInv, KeepInv
  <2>2. stage[s] = "open" => InHand(s)'
    <3>1. SUFFICES ASSUME stage[s] = "open" PROVE InHand(s)'
      OBVIOUS
    <3>2. owner[s] \in Made /\ (s \in ToSet(Held(owner[s])) \/ InHand(s))
      BY <2>1, <3>1 DEF Kept
    <3> QED
      BY <1>2, <1>6, <3>2
  <2>3. InHand(s) => InHand(s)'
    BY <1>6
  <2>4. InHand(s)' \/ (\E b \in Call : s \in ToSet(Held(b))') =>
            stage[s] \in {"open", "closing", "closed"}
    <3>1. \A b \in Made : b \in Call
      BY DEF Made
    <3>2. s \in ToSet(left') => \E b \in Call : s \in ToSet(Held(b))
      BY <1>2, <3>1
    <3> QED
      BY <1>5, <1>6, <2>1, <3>2 DEF Kept
  <2> QED
    BY <1>3, <2>1, <2>2, <2>3, <2>4 DEF Kept
<1>9. Belated'
  BY <1>3, <1>5, BelatedFrame DEF Made
<1>10. Closing'
  BY <1>1, <1>3, <1>5 DEF IInv, KeepInv, Closing
<1> QED
  BY <1>7, <1>8, <1>9, <1>10 DEF KeepInv

LEMMA ReleaseLeftKeeps ==
  ASSUME IInv, UNCHANGED late, ReleaseLeft
  PROVE  KeepInv'
<1>1. left # <<>> /\ left \in Seq(Session) /\ UNCHANGED <<tree, res, reaping, phase>>
  BY DEF ReleaseLeft, IInv, KeepInv, HoldTypes
<1>2. PICK s \in Session :
        /\ s = Last(left) /\ s \in ToSet(left) /\ Front(left) \in Seq(Session)
        /\ ToSet(Front(left)) \subseteq ToSet(left)
        /\ ToSet(left) \subseteq ToSet(Front(left)) \cup {s}
  BY <1>1, Fronting
<1>3. CASE Release(s) /\ UNCHANGED left
  <2>1. InHand(s)
    BY <1>2 DEF InHand
  <2> QED
    BY <1>1, <1>3, <2>1, ReleaseKeeps
<1>4. CASE stage[s] = "closed" /\ left' = Front(left) /\ UNCHANGED sessions
  <2>1. /\ UNCHANGED <<stage, owner, closed, dropping, dropped, belated>>
        /\ Made' = Made /\ ended' = ended /\ reaping' = reaping
        /\ \A b : (Out(b)' <=> Out(b)) /\ (Emptied(b)' <=> Emptied(b)) /\ Held(b)' = Held(b)
    BY <1>1, <1>4, SameTree DEF sessions, Held
  <2>2. \A t : (InHand(t)' => InHand(t)) /\ (t # s /\ InHand(t) => InHand(t)')
    BY <1>2, <1>4, <2>1 DEF InHand
  <2>3. HoldTypes'
    BY <1>1, <1>2, <1>4, <2>1 DEF IInv, KeepInv, HoldTypes, ResTypes
  <2>4. ASSUME NEW t \in Session
        PROVE  Kept(t)'
    <3>1. /\ Kept(t) /\ stage'[t] = stage[t] /\ owner'[t] = owner[t]
          /\ Held(owner[t])' = Held(owner[t])
      BY <1>1, <2>1 DEF IInv, KeepInv, Held
    <3>2. t = s => stage[t] = "closed"
      BY <1>4
    <3> QED
      BY <2>1, <2>2, <3>1, <3>2 DEF Kept
  <2>5. Belated'
    BY <2>1, BelatedFrame
  <2>6. Closing'
    <3>1. phase \in {"closing", "closed"} /\ (~late => phase # "closed")
      BY <1>1 DEF ReleaseLeft, IInv, KeepInv, Closing
    <3> QED
      BY <1>1, <2>1, <3>1 DEF IInv, KeepInv, Closing
  <2> QED
    BY <2>3, <2>4, <2>5, <2>6 DEF KeepInv
<1> QED
  BY <1>2, <1>3, <1>4 DEF ReleaseLeft, Released

LEMMA CloseKeeps ==
  ASSUME IInv, UNCHANGED late, Close
  PROVE  KeepInv'
<1>1. /\ phase = "closing" /\ phase' = "closed" /\ UNCHANGED <<tree, sessions, res, reaping, left>>
      /\ late \/ (left = <<>> /\ \A s \in Session : ~dropping[s])
  BY DEF Close
<1>2. /\ UNCHANGED <<stage, owner, closed, dropping, dropped, belated>>
      /\ Made' = Made /\ ended' = ended /\ reaping' = reaping
      /\ \A b : (Out(b)' <=> Out(b)) /\ (Emptied(b)' <=> Emptied(b)) /\ Held(b)' = Held(b)
      /\ \A t : InHand(t)' <=> InHand(t)
  BY <1>1, SameTree DEF sessions, Held
<1>3. HoldTypes'
  BY <1>1, <1>2 DEF IInv, KeepInv, HoldTypes, ResTypes, Phase
<1>4. \A s \in Session : Kept(s)'
  BY <1>1, <1>2, KeptFrame
<1>5. Belated'
  BY <1>2, BelatedFrame
<1>6. Closing'
  BY <1>1, <1>2 DEF IInv, KeepInv, Closing
<1> QED
  BY <1>3, <1>4, <1>5, <1>6 DEF KeepInv

LEMMA InitKeeps == Init => KeepInv
<1> SUFFICES ASSUME Init PROVE KeepInv
  OBVIOUS
<1>1. /\ Made = {} /\ left = <<>> /\ phase = "going" /\ dropped = {} /\ belated = {}
      /\ \A c \in Call : reaping[c] = None /\ res[c] = None
      /\ \A s \in Session : stage[s] = "none" /\ ~closed[s]
      /\ ~ended[Top] /\ late \in BOOLEAN
  BY DEF Init, Made
<1>2. HoldTypes
  <2>1. /\ stage \in [Session -> Stage] /\ owner \in [Session -> Call \cup {None}]
        /\ dropping \in [Session -> BOOLEAN] /\ res \in [Call -> Seq(Session) \cup {None}]
    BY DEF Init, Stage
  <2> QED
    BY <1>1, <2>1 DEF HoldTypes, ResTypes, Phase
<1>3. ASSUME NEW s \in Session
      PROVE  Kept(s)
  BY <1>1 DEF Kept, InHand, Held, ToSet
<1>4. Belated
  BY <1>1 DEF Belated
<1>5. Closing
  BY <1>1 DEF Closing
<1> QED
  BY <1>2, <1>3, <1>4, <1>5 DEF KeepInv

LEMMA InitIInv == Init => IInv
  BY InitCloses, InitTree, InitKeeps DEF IInv

LEMMA NextIInv == IInv /\ [Next]_vars => IInv'
<1> SUFFICES ASSUME IInv, [Next]_vars PROVE IInv'
  OBVIOUS
<1>1. ClosesInv' /\ TreeInv'
  BY NextCloses, NextTree DEF IInv, KeepInv, HoldTypes
<1>2. CASE Flow
  <2>1. UNCHANGED late
    BY <1>2 DEF Flow
  <2>2. ASSUME NEW c \in Call, NEW p \in Call \cup {Top}, CallFlow(c, p)
        PROVE  KeepInv'
    BY <2>1, <2>2, CallFlowKeeps
  <2>3. ASSUME NEW s \in Session, NEW c \in Call, Open(s, c)
        PROVE  KeepInv'
    BY <2>1, <2>3, OpenKeeps
  <2>4. ASSUME NEW s \in Session, ViewGoes(s)
        PROVE  KeepInv'
    BY <2>1, <2>4, ViewGoesKeeps
  <2> QED
    BY <1>1, <1>2, <2>2, <2>3, <2>4 DEF Flow, IInv
<1>3. CASE Engine
  <2>1. UNCHANGED late
    BY <1>3 DEF Engine
  <2>2. ASSUME NEW c \in Call, EndCall(c)
        PROVE  KeepInv'
    BY <2>1, <2>2, EndCallKeeps
  <2>3. ASSUME NEW c \in Call, Take(c)
        PROVE  KeepInv'
    BY <2>1, <2>3, TakeKeeps
  <2>4. ASSUME NEW c \in Call, ReapOne(c)
        PROVE  KeepInv'
    BY <2>1, <2>4, ReapOneKeeps
  <2>5. ASSUME NEW c \in Call, Climb(c)
        PROVE  KeepInv'
    BY <2>1, <2>5, ClimbKeeps
  <2>6. ASSUME NEW s \in Session, Opened(s)
        PROVE  KeepInv'
    BY <2>1, <2>6, OpenedKeeps
  <2>7. ASSUME NEW s \in Session, OpenFails(s)
        PROVE  KeepInv'
    BY <2>1, <2>7, OpenFailsKeeps
  <2>8. ASSUME NEW s \in Session, Shut(s)
        PROVE  KeepInv'
    BY <2>1, <2>8, ShutKeeps
  <2>9. DrainSoon \/ RunEnds \/ Settle \/ TakeLeft \/ ReleaseLeft \/ Close => KeepInv'
    BY <2>1, DrainSoonKeeps, RunEndsKeeps, SettleKeeps, TakeLeftKeeps, ReleaseLeftKeeps, CloseKeeps
  <2> QED
    BY <1>1, <1>3, <2>2, <2>3, <2>4, <2>5, <2>6, <2>7, <2>8, <2>9 DEF Engine, IInv
<1>4. CASE UNCHANGED vars
  <2>1. /\ UNCHANGED <<stage, owner, closed, dropping, dropped, belated, phase, res, left, late>>
        /\ UNCHANGED <<tree, reaping>>
    BY <1>4 DEF vars, sessions
  <2>2. /\ Made' = Made /\ ended' = ended /\ reaping' = reaping
        /\ \A b : (Out(b)' <=> Out(b)) /\ (Emptied(b)' <=> Emptied(b)) /\ Held(b)' = Held(b)
        /\ \A t : InHand(t)' <=> InHand(t)
    BY <2>1, SameTree DEF Held
  <2>3. \A s \in Session : Kept(s)'
    BY <2>1, <2>2, KeptFrame
  <2>4. Belated'
    BY <2>1, <2>2, BelatedFrame
  <2>5. HoldTypes' /\ Closing'
    BY <2>1, <2>2 DEF IInv, KeepInv, HoldTypes, ResTypes, Closing
  <2> QED
    BY <1>1, <2>3, <2>4, <2>5 DEF IInv, KeepInv
<1> QED
  BY <1>2, <1>3, <1>4 DEF Next

-----------------------------------------------------------------------------
(* What follows. *)

\* Each call above one that goes on waits for it, and what a cascade is at waits for none.
LEMMA NoneUnder ==
  ASSUME TreeInv, NEW c \in Call, reaping[c] # None, NEW b \in Under(reaping[c].at)
  PROVE  ended[b]
<1> DEFINE n == reaping[c].at
           S == {x \in Above(b) : x = Top \/ ~(ended[x] /\ live[x] = 0)}
<1>1. n \in Made /\ ended[n] /\ live[n] = 0 /\ n # Top
  BY CallTreeAssumption DEF TreeInv, Cascades, Made
<1>2. b \in Made /\ n \in Above(b) /\ b \in Call \cup {Top} /\ b # Top
  BY CallTreeAssumption DEF Under, Made
<1>3. SUFFICES ASSUME ~ended[b] PROVE FALSE
  OBVIOUS
<1>4. /\ b \in Above(b) /\ Above(b) \subseteq Made \cup {Top}
      /\ \A x \in Above(b) \cap Made : parent[x] \in Above(b)
  BY <1>2, AboveIs, AboveMade DEF TreeInv
<1>5. ASSUME NEW x \in S \cap Made
      PROVE  parent[x] \in S
  <2>1. x # Top /\ ~(ended[x] /\ live[x] = 0) /\ parent[x] \in Above(b)
    BY <1>4, CallTreeAssumption DEF Made
  <2>2. x \in Waited(parent[x])
    BY <2>1 DEF Waited, Out
  <2>3. CASE parent[x] = Top
    BY <2>1, <2>3
  <2>4. CASE parent[x] # Top
    <3>1. parent[x] \in Made /\ IsFiniteSet(Waited(parent[x]))
          /\ Cardinality(Waited(parent[x])) \in Nat
      BY <2>4, WaitedType DEF TreeInv, Treed
    <3>2. Cardinality(Waited(parent[x])) # 0
      BY <2>2, <3>1, FS_EmptySet
    <3>3. live[parent[x]] = Cardinality(Waited(parent[x])) + Own(parent[x])
      BY <3>1 DEF TreeInv, Counts
    <3>4. live[parent[x]] # 0
      BY <3>1, <3>2, <3>3 DEF Own
    <3> QED
      BY <2>1, <3>4
  <2> QED
    BY <2>3, <2>4
<1>6. S \in SUBSET (Call \cup {Top}) /\ b \in S
  BY <1>2, <1>3, <1>4 DEF Made
<1>7. n \notin S
  BY <1>1
<1> HIDE DEF S
<1>8. Above(b) \subseteq S
  BY <1>2, <1>5, <1>6, AboveLeast
<1> QED
  BY <1>2, <1>7, <1>8

\* So a cascade is at a call with nothing under it going on.
LEMMA CalleesOver == IInv => CalleesFirst
BY NoneUnder DEF IInv, CalleesFirst

\* Of the calls under one that are over, with nothing being let go of, the one furthest down
\* would be the first not counted out, and none is under that.
LEMMA CountedOut ==
  ASSUME TreeInv, NEW c \in Made, \A b \in Under(c) : ended[b], \A b \in Call : reaping[b] = None
  PROVE  live[c] = 0 /\ Out(c)
<1> DEFINE T == {b \in Under(c) : live[b] # 0}
           depth(b) == Cardinality(Above(b))
           D == {Cardinality(Made) + 1 - depth(b) : b \in T}
<1>1. /\ c \in Above(c) /\ c \in Under(c) /\ c \in Call /\ Top \notin Made
      /\ Under(c) \subseteq Made /\ Made \subseteq Call
  BY AboveIs, CallTreeAssumption DEF Under, Made, TreeInv
<1>2. ASSUME NEW b \in T
      PROVE  \E k \in T : parent[k] = b
  <2>1. b \in Made /\ ended[b] /\ live[b] # 0 /\ c \in Above(b)
    BY <1>1 DEF Under
  <2>2. live[b] = Cardinality(Waited(b))
    BY <1>1, <2>1, WaitedType DEF TreeInv, Counts, Own
  <2>3. Waited(b) # {}
    BY <2>1, <2>2, FS_EmptySet
  <2>4. PICK k \in Made : parent[k] = b /\ ~Out(k)
    BY <2>3 DEF Waited
  <2>5. c \in Above(k)
    BY <2>1, <2>4, AboveParent DEF TreeInv
  <2>6. k \in Under(c) /\ ended[k]
    BY <2>4, <2>5 DEF Under
  <2>7. live[k] # 0
    BY <2>4, <2>6 DEF Out, Reaped
  <2> QED
    BY <2>4, <2>6, <2>7
<1>3. T = {}
  <2> SUFFICES ASSUME T # {} PROVE FALSE
    OBVIOUS
  <2>1. Cardinality(Made) \in Nat
    BY FS_CardinalityType DEF TreeInv, Treed
  <2>2. \A b \in Made : /\ depth(b) \in Nat /\ depth(b) <= Cardinality(Made) + 1
    <3> SUFFICES ASSUME NEW b \in Made
                 PROVE  depth(b) \in Nat /\ depth(b) <= Cardinality(Made) + 1
      OBVIOUS
    <3>1. IsFiniteSet(Made) /\ Above(b) \subseteq Made \cup {Top}
      BY AboveMade DEF TreeInv, Treed
    <3>2. /\ IsFiniteSet(Made \cup {Top})
          /\ Cardinality(Made \cup {Top}) = Cardinality(Made) + 1
      BY <1>1, <3>1, FS_AddElement
    <3>3. /\ IsFiniteSet(Above(b)) /\ depth(b) <= Cardinality(Made \cup {Top})
      BY <3>1, <3>2, FS_Subset
    <3> QED
      BY <3>2, <3>3, FS_CardinalityType
  <2> HIDE DEF depth
  <2>3. T \subseteq Made
    BY <1>1
  <2>4. D \in SUBSET Nat /\ D # {}
    BY <2>1, <2>2, <2>3
  <2>5. PICK i \in D : \A j \in D : i <= j
    <3> HIDE DEF D
    <3> QED
      BY <2>4, Least
  <2>6. PICK b \in T : i = Cardinality(Made) + 1 - depth(b)
    BY <2>5
  <2>7. PICK k \in T : parent[k] = b
    BY <1>2, <2>6
  <2>8. Cardinality(Made) + 1 - depth(b) <= Cardinality(Made) + 1 - depth(k)
    BY <2>5, <2>6, <2>7
  <2>9. k \in Made /\ b \in Made /\ b # Top
    BY <1>1, <2>3, <2>6, <2>7
  <2>10. depth(k) = depth(b) + 1
    <3>1. Above(k) = Above(b) \cup {k} /\ k \notin Above(b)
      BY <2>7, <2>9, AboveParent DEF TreeInv, Treed
    <3>2. IsFiniteSet(Above(b))
      BY <2>9, AboveMade, FS_AddElement, FS_Subset DEF TreeInv, Treed
    <3> QED
      BY <3>1, <3>2, FS_AddElement DEF depth
  <2> QED
    BY <2>1, <2>2, <2>8, <2>9, <2>10
<1>4. live[c] = 0
  BY <1>1, <1>3
<1> QED
  BY <1>1, <1>4 DEF Out, Reaped

\* So what it still holds came after.
LEMMA LeftNone == IInv => NoneLeft
<1> SUFFICES ASSUME IInv, NEW c \in Made, \A b \in Under(c) : ended[b],
                    \A b \in Call : reaping[b] = None
             PROVE  live[c] = 0 /\ \A i \in DOMAIN Held(c) : Held(c)[i] \in belated
  BY DEF NoneLeft
<1>1. live[c] = 0 /\ Out(c)
  BY CountedOut DEF IInv
<1>2. ToSet(Held(c)) \subseteq belated
  BY <1>1 DEF IInv, KeepInv, Belated
<1> QED
  BY <1>1, <1>2 DEF ToSet

\* The values of what the run keeps of its calls and sessions, over any run.
THEOREM Typing == Spec => []TypeOK
<1>1. IInv => TypeOK
  BY DEF IInv, KeepInv, ClosesInv, TreeInv, TreeTypes, HoldTypes, ResTypes, TypeOK
<1> QED
  BY InitIInv, NextIInv, <1>1, PTL DEF Spec

\* Whatever races to close a session -- its view's going, its call's cascade, the run's close,
\* in any number and any order -- its handle is closed at most once (Opened).
THEOREM Once == Spec => []ClosedOnce
<1>1. IInv => ClosedOnce
  <2> SUFFICES ASSUME IInv, NEW s \in Session PROVE closes[s] <= 1
    BY DEF ClosedOnce
  <2>1. closes[s] = IF closed[s] THEN 1 ELSE 0
    BY DEF IInv, ClosesInv, Counted
  <2> QED
    BY <2>1
<1> QED
  BY InitIInv, NextIInv, <1>1, PTL DEF Spec

\* In whatever order a flow's calls end, each perhaps a task of its own, a cascade is only ever
\* at a call every call under which is over (FlowImpl._finish and _cascade, by Call.live).
THEOREM CalleesBefore == Spec => []CalleesFirst
BY InitIInv, NextIInv, CalleesOver, PTL DEF Spec

\* Nor is any call miscounted for good: with every call under it over and no cascade under way,
\* a call is counted out and holds only what the driver opened for it since it ended (Call.hold).
THEOREM NothingLeft == Spec => []NoneLeft
BY InitIInv, NextIInv, LeftNone, PTL DEF Spec

\* Once Run.close has waited for what it waits for, no session of the run is open or half
\* open, whoever let go of each.
THEOREM RunLeavesNone == Spec => []AllClosed
BY InitIInv, NextIInv, ClosedAll, PTL DEF Spec
=============================================================================
