--------------------------- MODULE DeliveryProofs ---------------------------
(***************************************************************************)
(* What Delivery does for any number of frontends and whatever happens,    *)
(* checked by TLAPS: each is told the run in order and without a gap, one  *)
(* with nothing more to be told was told how things stand, and one told it *)
(* is live was told the run up to there.                                   *)
(***************************************************************************)
EXTENDS Delivery, TLAPS

IsRecord(m) == m.kind = "record"

\* The records in an outbox, of a frontend that was told what happened up to "from": in order,
\* each once, and none left out before another.
Stream(box, from, to) ==
  /\ \A i \in 1..Len(box) : IsRecord(box[i]) =>
       /\ box[i] = Record(box[i].is)
       /\ box[i].is \in Nat /\ from < box[i].is /\ box[i].is <= to
       /\ \A k \in (from + 1)..(box[i].is - 1) : \E j \in 1..(i - 1) : box[j] = Record(k)
  /\ \A i, j \in 1..Len(box) :
       i < j /\ IsRecord(box[i]) /\ IsRecord(box[j]) => box[i].is < box[j].is

\* And none left out at the end.
Whole(box, from, to) ==
  from <= to /\ \A k \in (from + 1)..to : \E j \in 1..Len(box) : box[j] = Record(k)

\* What is put before two sequences in turn, and three things added to one.
LEMMA BeforeBoth ==
  ASSUME NEW S, NEW a \in Seq(S), NEW b \in Seq(S), NEW c \in Seq(S)
  PROVE  (a \o b) \in Seq(S) /\ a \o (b \o c) = (a \o b) \o c
<1> DEFINE x == a \o (b \o c)
           y == (a \o b) \o c
<1>1. /\ a \o b \in Seq(S) /\ b \o c \in Seq(S)
      /\ Len(a) \in Nat /\ Len(b) \in Nat /\ Len(c) \in Nat
      /\ Len(a \o b) = Len(a) + Len(b) /\ Len(b \o c) = Len(b) + Len(c)
  OBVIOUS
<1>2. /\ x \in Seq(S) /\ Len(x) = Len(a) + (Len(b) + Len(c))
      /\ y \in Seq(S) /\ Len(y) = (Len(a) + Len(b)) + Len(c)
  BY <1>1
<1>3. ASSUME NEW i \in 1..Len(x) PROVE x[i] = y[i]
  <2>1. CASE i <= Len(a)
    <3>1. x[i] = a[i]
      BY ONLY <2>1, <1>1, <1>3, a \in Seq(S), x \in Seq(S), <1>2
    <3>2. y[i] = (a \o b)[i] /\ (a \o b)[i] = a[i]
      BY ONLY <2>1, <1>1, <1>2, <1>3, a \in Seq(S), b \in Seq(S), c \in Seq(S)
    <3> QED
      BY ONLY <3>1, <3>2
  <2>2. CASE Len(a) < i /\ i <= Len(a) + Len(b)
    <3>1. x[i] = (b \o c)[i - Len(a)] /\ (b \o c)[i - Len(a)] = b[i - Len(a)]
      BY ONLY <2>2, <1>1, <1>2, <1>3, a \in Seq(S), b \in Seq(S), c \in Seq(S)
    <3>2. y[i] = (a \o b)[i] /\ (a \o b)[i] = b[i - Len(a)]
      BY ONLY <2>2, <1>1, <1>2, <1>3, a \in Seq(S), b \in Seq(S), c \in Seq(S)
    <3> QED
      BY ONLY <3>1, <3>2
  <2>3. CASE Len(a) + Len(b) < i
    <3>1. x[i] = (b \o c)[i - Len(a)]
      BY ONLY <2>3, <1>1, <1>2, <1>3, a \in Seq(S), b \in Seq(S), c \in Seq(S)
    <3>2. (b \o c)[i - Len(a)] = c[(i - Len(a)) - Len(b)]
      BY ONLY <2>3, <1>1, <1>2, <1>3, b \in Seq(S), c \in Seq(S)
    <3>3. y[i] = c[i - (Len(a) + Len(b))]
      BY ONLY <2>3, <1>1, <1>2, <1>3, c \in Seq(S)
    <3>4. (i - Len(a)) - Len(b) = i - (Len(a) + Len(b))
      BY ONLY <1>1, <1>2, <1>3
    <3> QED
      BY ONLY <3>1, <3>2, <3>3, <3>4
  <2> QED
    BY ONLY <2>1, <2>2, <2>3, <1>1, <1>2, <1>3
<1> HIDE DEF x, y
<1>4. x = y
  <2>1. Len(x) = Len(y)
    BY ONLY <1>1, <1>2
  <2> QED
    BY ONLY <1>2, <1>3, <2>1
<1> QED
  BY <1>1, <1>4 DEF x, y

LEMMA ThreeMore ==
  ASSUME NEW S, NEW box \in Seq(S), NEW a \in S, NEW b \in S, NEW c \in S
  PROVE  /\ Append(box, a) \in Seq(S) /\ Append(Append(box, a), b) \in Seq(S)
         /\ Append(Append(Append(box, a), b), c) \in Seq(S)
         /\ box \o <<a, b, c>> = Append(Append(Append(box, a), b), c)
<1>1. Append(box, a) \in Seq(S) /\ Len(Append(box, a)) = Len(box) + 1 /\ Len(box) \in Nat
  OBVIOUS
<1> DEFINE x == Append(box, a)
<1>2. x \in Seq(S) /\ Len(x) = Len(box) + 1
      /\ x[Len(box) + 1] = a /\ \A i \in 1..Len(box) : x[i] = box[i]
  BY <1>1
<1> HIDE DEF x
<1> DEFINE y == Append(x, b)
<1>3. y \in Seq(S) /\ Len(y) = Len(box) + 2
      /\ y[Len(box) + 2] = b /\ \A i \in 1..(Len(box) + 1) : y[i] = x[i]
  BY <1>1, <1>2
<1> HIDE DEF y
<1> DEFINE z == Append(y, c)
<1>4. z \in Seq(S) /\ Len(z) = Len(box) + 3
      /\ z[Len(box) + 3] = c /\ \A i \in 1..(Len(box) + 2) : z[i] = y[i]
  BY <1>1, <1>3
<1> HIDE DEF z
<1> DEFINE w == box \o <<a, b, c>>
<1>5. /\ w \in Seq(S) /\ Len(w) = Len(box) + 3
      /\ \A i \in 1..Len(box) : w[i] = box[i]
      /\ w[Len(box) + 1] = a /\ w[Len(box) + 2] = b /\ w[Len(box) + 3] = c
  BY <1>1
<1> HIDE DEF w
<1>6. \A i \in 1..(Len(box) + 3) : w[i] = z[i]
  <2> SUFFICES ASSUME NEW i \in 1..(Len(box) + 3) PROVE w[i] = z[i]
    OBVIOUS
  <2>1. CASE i \in 1..Len(box)
    <3>1. i \in 1..(Len(box) + 1) /\ i \in 1..(Len(box) + 2)
      BY ONLY <2>1, <1>1
    <3> QED
      BY ONLY <2>1, <3>1, <1>2, <1>3, <1>4, <1>5
  <2>2. CASE i = Len(box) + 1
    <3>1. Len(box) + 1 \in 1..(Len(box) + 1) /\ Len(box) + 1 \in 1..(Len(box) + 2)
      BY ONLY <1>1
    <3> QED
      BY ONLY <2>2, <3>1, <1>2, <1>3, <1>4, <1>5
  <2>3. CASE i = Len(box) + 2
    <3>1. Len(box) + 2 \in 1..(Len(box) + 2)
      BY ONLY <1>1
    <3> QED
      BY ONLY <2>3, <3>1, <1>3, <1>4, <1>5
  <2>4. CASE i = Len(box) + 3
    BY ONLY <2>4, <1>4, <1>5
  <2> QED
    BY ONLY <2>1, <2>2, <2>3, <2>4, <1>1
<1>7. w = z
  BY ONLY <1>4, <1>5, <1>6
<1> QED
  BY <1>2, <1>3, <1>4, <1>7 DEF x, y, z, w

LEMMA StreamSays ==
  ASSUME NEW S, NEW box \in Seq(S), NEW m \in S, ~IsRecord(m), NEW from \in Nat, NEW to \in Nat,
         Stream(box, from, to)
  PROVE  /\ Stream(Append(box, m), from, to)
         /\ Whole(box, from, to) => Whole(Append(box, m), from, to)
<1> DEFINE new == Append(box, m)
<1>1. /\ Len(new) = Len(box) + 1 /\ new[Len(box) + 1] = m
      /\ \A i \in 1..Len(box) : new[i] = box[i]
      /\ Len(box) \in Nat
  OBVIOUS
<1> HIDE DEF new
<1>2. Stream(new, from, to)
  <2>1. ASSUME NEW i \in 1..Len(new), IsRecord(new[i])
        PROVE  i \in 1..Len(box) /\ new[i] = box[i]
    BY <1>1, <2>1
  <2>2. ASSUME NEW i \in 1..Len(new), IsRecord(new[i])
        PROVE  /\ new[i] = Record(new[i].is)
               /\ new[i].is \in Nat /\ from < new[i].is /\ new[i].is <= to
               /\ \A k \in (from + 1)..(new[i].is - 1) : \E j \in 1..(i - 1) : new[j] = Record(k)
    <3>1. \A j \in 1..(i - 1) : new[j] = box[j]
      BY <1>1, <2>1, <2>2
    <3> QED
      <4>1. i \in 1..Len(box) /\ new[i] = box[i]
        BY ONLY <2>1, <2>2
      <4>2. /\ box[i] = Record(box[i].is)
            /\ box[i].is \in Nat /\ from < box[i].is /\ box[i].is <= to
            /\ \A k \in (from + 1)..(box[i].is - 1) : \E j \in 1..(i - 1) : box[j] = Record(k)
        BY ONLY <2>2, <4>1, Stream(box, from, to) DEF Stream
      <4> QED
        BY ONLY <3>1, <4>1, <4>2
  <2>3. ASSUME NEW i \in 1..Len(new), NEW j \in 1..Len(new),
               i < j, IsRecord(new[i]), IsRecord(new[j])
        PROVE  new[i].is < new[j].is
    BY <2>1, <2>3 DEF Stream
  <2> QED
    BY <2>2, <2>3 DEF Stream
<1>3. Whole(box, from, to) => Whole(new, from, to)
  <2> SUFFICES ASSUME Whole(box, from, to), NEW k \in (from + 1)..to
               PROVE  \E j \in 1..Len(new) : new[j] = Record(k)
    BY DEF Whole
  <2>1. PICK j \in 1..Len(box) : box[j] = Record(k)
    BY DEF Whole
  <2> QED
    BY <1>1, <2>1
<1> QED
  BY <1>2, <1>3 DEF new

LEMMA StreamGoesOn ==
  ASSUME NEW S, NEW box \in Seq(S), NEW from \in Nat, NEW to \in Nat, Record(to + 1) \in S,
         Stream(box, from, to), Whole(box, from, to)
  PROVE  /\ Stream(Append(box, Record(to + 1)), from, to + 1)
         /\ Whole(Append(box, Record(to + 1)), from, to + 1)
<1> DEFINE new == Append(box, Record(to + 1))
<1>1. /\ Len(new) = Len(box) + 1 /\ new[Len(box) + 1] = Record(to + 1)
      /\ \A i \in 1..Len(box) : new[i] = box[i]
      /\ Len(box) \in Nat
  OBVIOUS
<1>2. IsRecord(Record(to + 1)) /\ Record(to + 1).is = to + 1
  BY DEF IsRecord, Record
<1> HIDE DEF new
<1>3. Stream(new, from, to + 1)
  <2>1. ASSUME NEW i \in 1..Len(new), IsRecord(new[i])
        PROVE  /\ new[i] = Record(new[i].is)
               /\ new[i].is \in Nat /\ from < new[i].is /\ new[i].is <= to + 1
               /\ \A k \in (from + 1)..(new[i].is - 1) : \E j \in 1..(i - 1) : new[j] = Record(k)
    <3>1. CASE i <= Len(box)
      <4>1. i \in 1..Len(box) /\ new[i] = box[i] /\ \A j \in 1..(i - 1) : new[j] = box[j]
        BY <1>1, <3>1
      <4>2. /\ box[i] = Record(box[i].is)
            /\ box[i].is \in Nat /\ from < box[i].is /\ box[i].is <= to
            /\ \A k \in (from + 1)..(box[i].is - 1) : \E j \in 1..(i - 1) : box[j] = Record(k)
        BY <2>1, <4>1 DEF Stream
      <4>3. new[i].is \in Nat /\ from < new[i].is /\ new[i].is <= to + 1
        BY <4>1, <4>2
      <4>4. ASSUME NEW k \in (from + 1)..(new[i].is - 1)
            PROVE  \E j \in 1..(i - 1) : new[j] = Record(k)
        BY <4>1, <4>2
      <4> QED
        BY <4>1, <4>2, <4>3, <4>4
    <3>2. CASE i = Len(box) + 1
      <4>1. /\ new[i] = Record(to + 1) /\ new[i].is = to + 1 /\ i - 1 = Len(box)
            /\ \A j \in 1..(i - 1) : new[j] = box[j]
        BY <1>1, <1>2, <3>2
      <4>2. ASSUME NEW k \in (from + 1)..(new[i].is - 1)
            PROVE  \E j \in 1..(i - 1) : new[j] = Record(k)
        <5>1. k \in (from + 1)..to
          BY <4>1
        <5>2. PICK j \in 1..Len(box) : box[j] = Record(k)
          BY <5>1 DEF Whole
        <5>3. j \in 1..(i - 1) /\ new[j] = box[j]
          BY <4>1
        <5> QED
          BY <5>2, <5>3
      <4>3. from <= to
        BY DEF Whole
      <4>4. new[i].is \in Nat /\ from < new[i].is /\ new[i].is <= to + 1
        BY <4>1, <4>3
      <4> QED
        BY <4>1, <4>2, <4>4
    <3>3. i <= Len(box) \/ i = Len(box) + 1
      BY <1>1
    <3> QED
      BY <3>1, <3>2, <3>3
  <2>2. ASSUME NEW i \in 1..Len(new), NEW j \in 1..Len(new),
               i < j, IsRecord(new[i]), IsRecord(new[j])
        PROVE  new[i].is < new[j].is
    <3>1. i \in 1..Len(box) /\ new[i] = box[i]
      BY <1>1, <2>2
    <3>2. CASE j <= Len(box)
      BY <1>1, <2>2, <3>1, <3>2 DEF Stream
    <3>3. CASE j = Len(box) + 1
      BY <1>1, <1>2, <2>2, <3>1, <3>3 DEF Stream
    <3> QED
      BY <1>1, <3>2, <3>3
  <2> QED
    BY <2>1, <2>2 DEF Stream
<1>4. Whole(new, from, to + 1)
  <2>1. ASSUME NEW k \in (from + 1)..(to + 1)
        PROVE  \E j \in 1..Len(new) : new[j] = Record(k)
    <3>1. CASE k = to + 1
      BY <1>1, <3>1
    <3>2. CASE k <= to
      BY <1>1, <3>2 DEF Whole
    <3> QED
      BY <3>1, <3>2
  <2> QED
    BY <2>1 DEF Whole
<1> QED
  BY <1>3, <1>4 DEF new

\* What is read next: the record that follows, or no record.
LEMMA StreamReads ==
  ASSUME NEW S, NEW box \in Seq(S), box # <<>>, NEW from \in Nat, NEW to \in Nat,
         Stream(box, from, to)
  PROVE  LET next == IF IsRecord(Head(box)) THEN from + 1 ELSE from
         IN /\ IsRecord(Head(box)) => Head(box).is = from + 1 /\ from + 1 <= to
            /\ Stream(Tail(box), next, to)
            /\ Whole(box, from, to) => Whole(Tail(box), next, to)
<1> DEFINE next == IF IsRecord(Head(box)) THEN from + 1 ELSE from
           rest == Tail(box)
<1>1. /\ Head(box) = box[1] /\ Len(box) \in Nat \ {0} /\ Len(rest) = Len(box) - 1
      /\ \A i \in 1..Len(rest) : rest[i] = box[i + 1]
  OBVIOUS
<1>2. IsRecord(box[1]) => box[1].is = from + 1 /\ from + 1 <= to /\ box[1] = Record(from + 1)
  <2> SUFFICES ASSUME IsRecord(box[1]) PROVE box[1].is = from + 1 /\ from + 1 <= to
                                             /\ box[1] = Record(from + 1)
    OBVIOUS
  <2>1. /\ box[1] = Record(box[1].is) /\ box[1].is \in Nat /\ from < box[1].is /\ box[1].is <= to
        /\ \A k \in (from + 1)..(box[1].is - 1) : \E j \in 1..(1 - 1) : box[j] = Record(k)
    BY <1>1 DEF Stream
  <2>2. box[1].is = from + 1
    BY <2>1
  <2> QED
    BY <2>1, <2>2
<1>3. next \in Nat /\ from <= next /\ (IsRecord(box[1]) => next = box[1].is)
  BY <1>1, <1>2
<1>4. \A n : Record(n).is = n /\ IsRecord(Record(n))
  BY DEF Record, IsRecord
<1> HIDE DEF rest
<1>5. Stream(rest, next, to)
  <2>1. ASSUME NEW i \in 1..Len(rest), IsRecord(rest[i])
        PROVE  /\ rest[i] = Record(rest[i].is)
               /\ rest[i].is \in Nat /\ next < rest[i].is /\ rest[i].is <= to
               /\ \A k \in (next + 1)..(rest[i].is - 1) : \E j \in 1..(i - 1) : rest[j] = Record(k)
    <3>1. i + 1 \in 1..Len(box) /\ rest[i] = box[i + 1] /\ 1 \in 1..Len(box)
      BY <1>1
    <3>2. /\ rest[i] = Record(rest[i].is) /\ rest[i].is \in Nat
          /\ from < rest[i].is /\ rest[i].is <= to
          /\ \A k \in (from + 1)..(rest[i].is - 1) : \E j \in 1..i : box[j] = Record(k)
      BY <2>1, <3>1 DEF Stream
    <3>3. IsRecord(box[1]) => box[1].is < rest[i].is
      BY <2>1, <3>1 DEF Stream
    <3>4. next < rest[i].is
      BY <1>1, <1>3, <3>2, <3>3
    <3>5. ASSUME NEW k \in (next + 1)..(rest[i].is - 1)
          PROVE  \E j \in 1..(i - 1) : rest[j] = Record(k)
      <4>0. k \in (from + 1)..(rest[i].is - 1) /\ k \in Nat /\ next < k
        BY ONLY <1>3, <3>2, <3>5, from \in Nat
      <4>1. PICK j \in 1..i : box[j] = Record(k)
        BY ONLY <3>2, <4>0
      <4>2. j # 1
        <5>1. ASSUME j = 1 PROVE IsRecord(box[1]) /\ box[1].is = k
          BY ONLY <1>4, <4>1, <5>1
        <5> QED
          BY ONLY <1>3, <4>0, <5>1
      <4>3. j - 1 \in 1..(i - 1)
        BY ONLY <4>1, <4>2, <1>1, <2>1
      <4>4. rest[j - 1] = box[j]
        <5>1. j - 1 \in 1..Len(rest) /\ (j - 1) + 1 = j
          BY ONLY <1>1, <2>1, <4>1, <4>3
        <5> QED
          BY ONLY <1>1, <5>1
      <4> QED
        BY ONLY <4>1, <4>3, <4>4
    <3> QED
      BY <3>2, <3>4, <3>5
  <2>2. ASSUME NEW i \in 1..Len(rest), NEW j \in 1..Len(rest),
               i < j, IsRecord(rest[i]), IsRecord(rest[j])
        PROVE  rest[i].is < rest[j].is
    <3>1. /\ i + 1 \in 1..Len(box) /\ j + 1 \in 1..Len(box) /\ i + 1 < j + 1
          /\ rest[i] = box[i + 1] /\ rest[j] = box[j + 1]
      BY <1>1, <2>2
    <3> QED
      BY <2>2, <3>1 DEF Stream
  <2> QED
    BY <2>1, <2>2 DEF Stream
<1>6. Whole(box, from, to) => Whole(rest, next, to)
  <2> SUFFICES ASSUME Whole(box, from, to) PROVE Whole(rest, next, to)
    OBVIOUS
  <2>1. next <= to
    BY <1>1, <1>2 DEF Whole
  <2>2. ASSUME NEW k \in (next + 1)..to
        PROVE  \E j \in 1..Len(rest) : rest[j] = Record(k)
    <3>1. PICK j \in 1..Len(box) : box[j] = Record(k)
      BY <1>1, <1>3 DEF Whole
    <3>2. j # 1
      BY <1>1, <1>3, <1>4, <3>1
    <3>3. j - 1 \in 1..Len(rest) /\ rest[j - 1] = box[j]
      BY <1>1, <3>2
    <3> QED
      BY <3>1, <3>3
  <2> QED
    BY <2>1, <2>2 DEF Whole
<1> QED
  BY <1>1, <1>2, <1>5, <1>6 DEF rest

\* What was in order stays so as more happens.
LEMMA StreamKept ==
  ASSUME NEW S, NEW box \in Seq(S), NEW from \in Nat, NEW to \in Nat, Stream(box, from, to)
  PROVE  Stream(box, from, to + 1)
<1>1. ASSUME NEW i \in 1..Len(box), IsRecord(box[i])
      PROVE  /\ box[i] = Record(box[i].is)
             /\ box[i].is \in Nat /\ from < box[i].is /\ box[i].is <= to + 1
             /\ \A k \in (from + 1)..(box[i].is - 1) : \E j \in 1..(i - 1) : box[j] = Record(k)
  BY <1>1 DEF Stream
<1> QED
  BY <1>1 DEF Stream

\* The replay: all that is kept, from the first of it.
LEMMA StreamStarts ==
  ASSUME seq \in Nat, elided \in 0..seq
  PROVE  /\ Replay \in Seq({Record(n) : n \in 1..seq})
         /\ Stream(Replay, elided, seq) /\ Whole(Replay, elided, seq)
<1>1. /\ Len(Replay) = seq - elided /\ seq - elided \in Nat
      /\ \A i \in 1..(seq - elided) : Replay[i] = Record(elided + i)
      /\ Replay \in Seq({Record(n) : n \in 1..seq})
  BY DEF Replay
<1>2. \A n : Record(n).is = n /\ IsRecord(Record(n))
  BY DEF Record, IsRecord
<1>3. ASSUME NEW i \in 1..Len(Replay)
      PROVE  /\ Replay[i].is = elided + i
             /\ Replay[i] = Record(Replay[i].is)
             /\ \A k \in (elided + 1)..(Replay[i].is - 1) : \E j \in 1..(i - 1) : Replay[j] = Record(k)
  <2>1. Replay[i] = Record(elided + i) /\ Replay[i].is = elided + i
    BY <1>1, <1>2
  <2>2. ASSUME NEW k \in (elided + 1)..(Replay[i].is - 1)
        PROVE  \E j \in 1..(i - 1) : Replay[j] = Record(k)
    <3>1. k - elided \in 1..(i - 1) /\ k - elided \in 1..(seq - elided) /\ elided + (k - elided) = k
      BY <1>1, <2>1
    <3> QED
      BY <1>1, <3>1
  <2> QED
    BY <2>1, <2>2
<1>4. \A i \in 1..Len(Replay) : Replay[i].is \in Nat /\ elided < Replay[i].is /\ Replay[i].is <= seq
  BY <1>1, <1>3
<1>5. \A i, j \in 1..Len(Replay) : i < j => Replay[i].is < Replay[j].is
  BY <1>1, <1>3
<1>6. Stream(Replay, elided, seq)
  BY <1>3, <1>4, <1>5 DEF Stream
<1>7. Whole(Replay, elided, seq)
  <2>1. ASSUME NEW k \in (elided + 1)..seq PROVE \E j \in 1..Len(Replay) : Replay[j] = Record(k)
    <3>1. k - elided \in 1..(seq - elided) /\ elided + (k - elided) = k
      OBVIOUS
    <3> QED
      BY <1>1, <3>1
  <2> QED
    BY <2>1 DEF Whole
<1> QED
  BY <1>1, <1>6, <1>7

-----------------------------------------------------------------------------
(* What there is to do. *)

Frame ==
  [do : {"clients"}, but : Frontend \cup {None}] \cup [do : {"claims"}]
    \cup [do : {"let go"}, of : SUBSET Frontend, keep : BOOLEAN]
    \cup [do : {"welcome"}, of : Frontend] \cup [do : {"shut"}]

Plain(t) == \A i \in 1..Len(t) : t[i].do # "welcome"

LEMMA Typed ==
  ASSUME NEW x \in Frame
  PROVE  /\ x.do = "welcome" => x.of \in Frontend
         /\ x.do = "let go" => x.of \in SUBSET Frontend /\ x.keep \in BOOLEAN
         /\ x.do = "clients" => x.but \in Frontend \cup {None}
<1>1. CASE x \in [do : {"welcome"}, of : Frontend]
  BY <1>1
<1>2. CASE x \in [do : {"let go"}, of : SUBSET Frontend, keep : BOOLEAN]
  BY <1>2
<1>3. CASE x \in [do : {"clients"}, but : Frontend \cup {None}]
  BY <1>3
<1>4. CASE x \in [do : {"claims"}] \/ x \in [do : {"shut"}]
  BY <1>4
<1> QED
  BY <1>1, <1>2, <1>3, <1>4 DEF Frame

LEMMA Frames ==
  /\ \A but \in Frontend \cup {None} :
       ToSnapClients(but) \in Frame /\ ToSnapClients(but).do = "clients"
  /\ ToSnapClaims \in Frame /\ ToSnapClaims.do = "claims"
  /\ \A f \in Frontend : ToWelcome(f) \in Frame /\ ToWelcome(f).do = "welcome" /\ ToWelcome(f).of = f
  /\ ToShut \in Frame /\ ToShut.do = "shut"
  /\ \A fs \in SUBSET Frontend : \A keep \in BOOLEAN :
       ToLetGo(fs, keep) \in Seq(Frame) /\ Plain(ToLetGo(fs, keep))
<1>1. \A fs \in SUBSET Frontend : \A keep \in BOOLEAN :
        ToLetGo(fs, keep) \in Seq(Frame) /\ Plain(ToLetGo(fs, keep))
  <2> SUFFICES ASSUME NEW fs \in SUBSET Frontend, NEW keep \in BOOLEAN
               PROVE  ToLetGo(fs, keep) \in Seq(Frame) /\ Plain(ToLetGo(fs, keep))
    OBVIOUS
  <2> DEFINE frame == [do |-> "let go", of |-> fs, keep |-> keep]
  <2>1. frame \in Frame /\ frame.do # "welcome"
    BY DEF Frame
  <2> HIDE DEF frame
  <2>2. <<frame>> \in Seq(Frame) /\ Plain(<<frame>>) /\ <<>> \in Seq(Frame) /\ Plain(<<>>)
    BY <2>1 DEF Plain
  <2> QED
    BY <2>2 DEF ToLetGo, frame
<1>2. ToSnapClaims \in Frame /\ ToSnapClaims.do = "claims" /\ ToShut \in Frame /\ ToShut.do = "shut"
  BY DEF ToSnapClaims, ToShut, Frame
<1>3. \A but \in Frontend \cup {None} :
        ToSnapClients(but) \in Frame /\ ToSnapClients(but).do = "clients"
  BY DEF ToSnapClients, Frame
<1>4. \A f \in Frontend :
        ToWelcome(f) \in Frame /\ ToWelcome(f).do = "welcome" /\ ToWelcome(f).of = f
  BY DEF ToWelcome, Frame
<1> QED
  BY <1>1, <1>2, <1>3, <1>4

LEMMA Before ==
  ASSUME NEW a \in Seq(Frame), NEW b \in Seq(Frame), Plain(a)
  PROVE  /\ a \o b \in Seq(Frame)
         /\ Plain(b) => Plain(a \o b)
         /\ \A i \in 1..Len(a \o b) : (a \o b)[i].do = "welcome" =>
              \E j \in 1..Len(b) : (a \o b)[i] = b[j] /\ (j = Len(b) => i = Len(a \o b))
<1> DEFINE c == a \o b
<1>1. /\ Len(c) = Len(a) + Len(b) /\ Len(a) \in Nat /\ Len(b) \in Nat
      /\ \A i \in 1..Len(a) : c[i] = a[i]
      /\ \A j \in 1..Len(b) : c[Len(a) + j] = b[j]
      /\ c \in Seq(Frame)
  OBVIOUS
<1> HIDE DEF c
<1>2. ASSUME NEW i \in 1..Len(c), c[i].do = "welcome"
      PROVE  \E j \in 1..Len(b) : c[i] = b[j] /\ (j = Len(b) => i = Len(c))
  <2>1. i \notin 1..Len(a)
    BY <1>1, <1>2 DEF Plain
  <2>2. i - Len(a) \in 1..Len(b) /\ i = Len(a) + (i - Len(a))
    BY <1>1, <2>1
  <2>3. c[i] = b[i - Len(a)] /\ (i - Len(a) = Len(b) => i = Len(c))
    BY <1>1, <2>2
  <2> QED
    BY <2>2, <2>3
<1>3. Plain(b) => Plain(c)
  BY <1>2 DEF Plain
<1> QED
  BY <1>1, <1>2, <1>3 DEF c

LEMMA After ==
  ASSUME NEW t \in Seq(Frame), t # <<>>
  PROVE  /\ Head(t) = t[1] /\ 1 \in 1..Len(t) /\ Head(t) \in Frame
         /\ Tail(t) \in Seq(Frame)
         /\ Len(Tail(t)) = Len(t) - 1 /\ Len(t) \in Nat
         /\ \A i \in 1..Len(Tail(t)) : i + 1 \in 1..Len(t) /\ Tail(t)[i] = t[i + 1]
OBVIOUS

-----------------------------------------------------------------------------
(* The invariant. *)

\* A welcome still to be said is the last thing to do, and its frontend's thread not started.
Welcoming ==
  /\ todo \in Seq(Frame)
  /\ \A i \in 1..Len(todo) : todo[i].do = "welcome" =>
       i = Len(todo) /\ thread[todo[i].of] = "off" /\ presence[todo[i].of] # "new"

Started == \A f \in Frontend : thread[f] # "off" => presence[f] # "new"

Streams ==
  \A f \in Frontend :
    /\ Stream(outbox[f], told[f].seq, seq)
    /\ f \in Here => Whole(outbox[f], told[f].seq, seq)

IInv == TypeOK /\ Welcoming /\ Started /\ Streams

LEMMA Messages ==
  /\ \A n \in 1..MaxSeq : Record(n) \in Message
  /\ \A fs \in SUBSET Frontend : Clients(fs) \in Message /\ ~IsRecord(Clients(fs))
  /\ \A f \in Frontend \cup {None} : Claims(f) \in Message /\ ~IsRecord(Claims(f))
  /\ \A n, gone \in 0..MaxSeq : Live(n, gone) \in Message /\ ~IsRecord(Live(n, gone))
  /\ Gone \in Message /\ ~IsRecord(Gone)
<1>1. \A n \in 1..MaxSeq : Record(n) \in Message
  BY DEF Message
<1>2. \A fs \in SUBSET Frontend : Clients(fs) \in Message /\ ~IsRecord(Clients(fs))
  <2>1. \A fs \in SUBSET Frontend : Clients(fs) \in Message
    BY DEF Message
  <2> QED
    BY <2>1 DEF Clients, IsRecord
<1>3. \A f \in Frontend \cup {None} : Claims(f) \in Message /\ ~IsRecord(Claims(f))
  <2>1. \A f \in Frontend \cup {None} : Claims(f) \in Message
    BY DEF Message
  <2> QED
    BY <2>1 DEF Claims, IsRecord
<1>4. \A n, gone \in 0..MaxSeq : Live(n, gone) \in Message /\ ~IsRecord(Live(n, gone))
  <2>1. \A n, gone \in 0..MaxSeq : Live(n, gone) \in Message
    BY DEF Message
  <2> QED
    BY <2>1 DEF Live, IsRecord
<1>5. Gone \in Message /\ ~IsRecord(Gone)
  BY DEF Message, Gone, IsRecord
<1> QED
  BY <1>1, <1>2, <1>3, <1>4, <1>5

\* What a message says, of each kind.
LEMMA Kinds ==
  ASSUME NEW m \in Message
  PROVE  /\ m.kind \in {"record", "clients", "claims", "live", "gone"}
         /\ m.kind = "record" => m.is \in 0..MaxSeq
         /\ m.kind = "clients" => m.is \in SUBSET Frontend
         /\ m.kind = "claims" => m.is \in Frontend \cup {None}
<1>1. CASE \E n \in 1..MaxSeq : m = Record(n)
  BY <1>1, DeliveryAssumption DEF Record
<1>2. CASE \E fs \in SUBSET Frontend : m = Clients(fs)
  BY <1>2 DEF Clients
<1>3. CASE \E f \in Frontend \cup {None} : m = Claims(f)
  BY <1>3 DEF Claims
<1>4. CASE \E n, gone \in 0..MaxSeq : m = Live(n, gone)
  BY <1>4 DEF Live
<1>5. CASE m = Gone
  BY <1>5 DEF Gone
<1> QED
  BY <1>1, <1>2, <1>3, <1>4, <1>5 DEF Message

LEMMA Initial == Init => IInv
<1> SUFFICES ASSUME Init PROVE IInv
  OBVIOUS
<1> USE DEF Init
<1>1. \A f \in Frontend : outbox[f] = <<>> /\ outbox[f] \in Seq(Message) /\ told[f] = Nothing
  OBVIOUS
<1>2. TypeOK
  <2>1. outbox \in [Frontend -> Seq(Message)]
    BY <1>1
  <2>2. told \in [Frontend -> [seq : 0..MaxSeq, from : 0..MaxSeq, clients : SUBSET Frontend,
                               claims : Frontend \cup {None}, gone : BOOLEAN]]
    BY DeliveryAssumption DEF Nothing
  <2>3. /\ seq \in 0..MaxSeq /\ elided \in 0..seq /\ seq - elided <= Kept
        /\ snaps \in [clients : SUBSET Frontend, claims : Frontend \cup {None}]
        /\ asked \in 0..MaxClaim
    BY DeliveryAssumption
  <2>4. closed \in BOOLEAN
    OBVIOUS
  <2> QED
    BY <2>1, <2>2, <2>3, <2>4 DEF TypeOK
<1>3. Welcoming
  BY DEF Welcoming
<1>4. Started
  BY DEF Started
<1>5. Stream(<<>>, 0, 0) /\ Whole(<<>>, 0, 0)
  BY DEF Stream, Whole
<1>6. Streams
  BY <1>1, <1>5 DEF Streams, Nothing
<1> QED
  BY <1>2, <1>3, <1>4, <1>6 DEF IInv

\* Saying something that is no record.
LEMMA Says ==
  ASSUME IInv, NEW m \in Message, ~IsRecord(m), NEW to \in SUBSET Frontend,
         outbox' = [f \in Frontend |-> IF f \in to THEN Append(outbox[f], m) ELSE outbox[f]],
         Here' \subseteq Here, told' = told, seq' = seq
  PROVE  Streams' /\ outbox' \in [Frontend -> Seq(Message)]
<1>1. ASSUME NEW f \in Frontend
      PROVE  /\ outbox'[f] \in Seq(Message)
             /\ Stream(outbox'[f], told[f].seq, seq)
             /\ f \in Here => Whole(outbox'[f], told[f].seq, seq)
  <2>1. /\ outbox[f] \in Seq(Message) /\ told[f].seq \in Nat /\ seq \in Nat
        /\ Stream(outbox[f], told[f].seq, seq)
        /\ f \in Here => Whole(outbox[f], told[f].seq, seq)
    BY DEF IInv, TypeOK, Streams
  <2>2. CASE f \in to
    <3>1. outbox'[f] = Append(outbox[f], m)
      BY <2>2
    <3>2. Append(outbox[f], m) \in Seq(Message)
      BY <2>1
    <3> QED
      BY <2>1, <3>1, <3>2, StreamSays
  <2>3. CASE f \notin to
    BY <2>1, <2>3
  <2> QED
    BY <2>2, <2>3
<1>2. outbox' \in [Frontend -> Seq(Message)]
  BY <1>1
<1> QED
  BY <1>1, <1>2 DEF Streams, Here

\* Broadcasting it: who is behind is let go before whatever was next.
LEMMA Broadcasts ==
  ASSUME NEW m, NEW but, NEW next \in Seq(Frame), Broadcast(m, but, next)
  PROVE  /\ outbox' = [f \in Frontend |->
                         IF f \in Here \ {but} THEN Append(outbox[f], m) ELSE outbox[f]]
         /\ \E fs \in SUBSET Frontend : todo' = ToLetGo(fs, FALSE) \o next
BY DEF Broadcast, Here

\* The rest of what there is to do, after whatever comes first.
LEMMA StillToDo ==
  ASSUME Welcoming, todo # <<>>, NEW a \in Seq(Frame), Plain(a),
         todo' = a \o Tail(todo) \/ todo' = Tail(todo), thread' = thread,
         \A f \in Frontend : presence[f] # "new" => presence'[f] # "new"
  PROVE  Welcoming'
<1> DEFINE rest == Tail(todo)
<1>1. /\ rest \in Seq(Frame) /\ Len(rest) = Len(todo) - 1 /\ Len(todo) \in Nat
      /\ \A i \in 1..Len(rest) : i + 1 \in 1..Len(todo) /\ rest[i] = todo[i + 1]
  BY After DEF Welcoming
<1> HIDE DEF rest
<1>2. \A i \in 1..Len(todo) : todo[i] \in Frame
  BY DEF Welcoming
<1>3. ASSUME NEW j \in 1..Len(rest), rest[j].do = "welcome"
      PROVE  /\ j = Len(rest)
             /\ thread'[rest[j].of] = "off" /\ presence'[rest[j].of] # "new"
  <2>1. /\ j + 1 \in 1..Len(todo) /\ rest[j] = todo[j + 1] /\ j + 1 = Len(todo)
        /\ thread[rest[j].of] = "off" /\ presence[rest[j].of] # "new"
    BY <1>1, <1>3 DEF Welcoming
  <2>2. rest[j] \in Frame
    BY <1>2, <2>1
  <2>3. rest[j].of \in Frontend
    BY <1>3, <2>2, Typed
  <2> QED
    BY <1>1, <2>1, <2>3
<1>4. CASE todo' = rest
  BY <1>1, <1>3, <1>4 DEF Welcoming
<1>5. CASE todo' = a \o rest
  <2> DEFINE next == a \o rest
  <2>1. /\ next \in Seq(Frame)
        /\ \A i \in 1..Len(next) : next[i].do = "welcome" =>
             \E j \in 1..Len(rest) : next[i] = rest[j] /\ (j = Len(rest) => i = Len(next))
    BY <1>1, Before
  <2>2. todo' = next
    BY ONLY <1>5
  <2> HIDE DEF next
  <2>3. ASSUME NEW i \in 1..Len(next), next[i].do = "welcome"
        PROVE  /\ i = Len(next)
               /\ thread'[next[i].of] = "off" /\ presence'[next[i].of] # "new"
    <3>1. PICK j \in 1..Len(rest) : next[i] = rest[j] /\ (j = Len(rest) => i = Len(next))
      BY ONLY <2>1, <2>3
    <3>2. rest[j].do = "welcome"
      BY ONLY <2>3, <3>1
    <3> QED
      BY ONLY <1>3, <3>1, <3>2
  <2> QED
    BY ONLY <2>1, <2>2, <2>3 DEF Welcoming
<1> QED
  BY <1>4, <1>5 DEF rest

LEMMA PlainToDo ==
  ASSUME NEW a \in Seq(Frame), Plain(a), todo' = a
  PROVE  Welcoming'
BY DEF Plain, Welcoming

-----------------------------------------------------------------------------
(* Each step keeps it. *)

LEMMA KeptHappens == IInv /\ Happens => IInv'
<1> SUFFICES ASSUME IInv, Happens PROVE IInv'
  OBVIOUS
<1> DEFINE m == Record(seq + 1)
<1>1. /\ seq' = seq + 1 /\ elided' = Trimmed /\ seq < MaxSeq
      /\ Broadcast(m, None, <<>>)
      /\ UNCHANGED <<snaps, presence, owner, closed, asking, asked, thread, told>>
  BY DEF Happens, askVars, threadVars
<1>2. m \in Message
  <2>1. seq + 1 \in 1..MaxSeq
    BY <1>1, DeliveryAssumption DEF IInv, TypeOK
  <2> QED
    BY <2>1, Messages
<1> HIDE DEF m
<1>3. /\ outbox' = [f \in Frontend |->
                      IF f \in Here THEN Append(outbox[f], m) ELSE outbox[f]]
      /\ \E fs \in SUBSET Frontend : todo' = ToLetGo(fs, FALSE) \o <<>>
  <2>1. Here \ {None} = Here
    BY DeliveryAssumption DEF Here
  <2>2. /\ outbox' = [f \in Frontend |->
                        IF f \in Here \ {None} THEN Append(outbox[f], m) ELSE outbox[f]]
        /\ \E fs \in SUBSET Frontend : todo' = ToLetGo(fs, FALSE) \o <<>>
    <3>1. <<>> \in Seq(Frame)
      OBVIOUS
    <3> QED
      BY <1>1, <3>1, Broadcasts
  <2> QED
    BY <2>1, <2>2
<1>4. Here' = Here
  BY <1>1 DEF Here
<1>5. ASSUME NEW f \in Frontend
      PROVE  /\ outbox'[f] \in Seq(Message)
             /\ Stream(outbox'[f], told[f].seq, seq + 1)
             /\ f \in Here => Whole(outbox'[f], told[f].seq, seq + 1)
  <2>1. /\ outbox[f] \in Seq(Message) /\ told[f].seq \in Nat /\ seq \in Nat
        /\ Stream(outbox[f], told[f].seq, seq)
        /\ f \in Here => Whole(outbox[f], told[f].seq, seq)
    BY DEF IInv, TypeOK, Streams
  <2>2. CASE f \in Here
    <3>1. outbox'[f] = Append(outbox[f], m)
      BY <1>3, <2>2
    <3>2. Append(outbox[f], m) \in Seq(Message)
      BY <1>2, <2>1
    <3>3. /\ Stream(Append(outbox[f], m), told[f].seq, seq + 1)
          /\ Whole(Append(outbox[f], m), told[f].seq, seq + 1)
      BY <1>2, <2>1, <2>2, StreamGoesOn DEF m
    <3> QED
      BY <3>1, <3>2, <3>3
  <2>3. CASE f \notin Here
    <3>1. outbox'[f] = outbox[f]
      BY <1>3, <2>3
    <3> QED
      BY <2>1, <2>3, <3>1, StreamKept
  <2> QED
    BY <2>2, <2>3
<1>6. Streams'
  BY <1>1, <1>4, <1>5 DEF Streams
<1>7. outbox' \in [Frontend -> Seq(Message)]
  BY <1>3, <1>5
<1>8. TypeOK'
  <2>1. seq' \in 0..MaxSeq /\ elided' \in 0..seq' /\ seq' - elided' <= Kept
    BY <1>1, DeliveryAssumption DEF IInv, TypeOK, Trimmed
  <2> QED
    BY <1>1, <1>7, <2>1 DEF IInv, TypeOK
<1>9. Welcoming'
  <2>1. PICK fs \in SUBSET Frontend : todo' = ToLetGo(fs, FALSE) \o <<>>
    BY <1>3
  <2>2. ToLetGo(fs, FALSE) \in Seq(Frame) /\ Plain(ToLetGo(fs, FALSE))
    BY Frames
  <2>3. ToLetGo(fs, FALSE) \o <<>> = ToLetGo(fs, FALSE)
    BY <2>2
  <2> QED
    BY <2>1, <2>2, <2>3, PlainToDo
<1>10. Started'
  BY <1>1 DEF IInv, Started
<1> QED
  BY <1>6, <1>8, <1>9, <1>10 DEF IInv

\* What the two kinds of state have in common: a message said, or nothing.
LEMMA KeptSnap ==
  ASSUME IInv, todo # <<>>, NEW m \in Message, ~IsRecord(m), NEW but,
         \/ todo' = Tail(todo) /\ UNCHANGED <<snaps, outbox>>
         \/ Broadcast(m, but, Tail(todo)),
         snaps' \in [clients : SUBSET Frontend, claims : Frontend \cup {None}],
         UNCHANGED <<seq, elided, presence, owner, closed, askVars, threadVars>>
  PROVE  IInv'
<1>1. /\ Here' = Here
      /\ UNCHANGED <<seq, elided, presence, owner, closed, asking, asked, thread, told>>
  BY DEF Here, askVars, threadVars
<1>2. Started'
  BY <1>1 DEF IInv, Started
<1>3. CASE todo' = Tail(todo) /\ UNCHANGED <<snaps, outbox>>
  <2>1. <<>> \in Seq(Frame) /\ Plain(<<>>)
    BY DEF Plain
  <2>2. Welcoming'
    BY <1>1, <1>3, <2>1, StillToDo DEF IInv
  <2>3. TypeOK'
    BY <1>1, <1>3 DEF IInv, TypeOK
  <2>4. Streams'
    BY <1>1, <1>3 DEF IInv, Streams
  <2> QED
    BY <1>2, <2>2, <2>3, <2>4 DEF IInv
<1>4. CASE Broadcast(m, but, Tail(todo))
  <2>1. Tail(todo) \in Seq(Frame)
    BY After DEF IInv, Welcoming
  <2>2. /\ outbox' = [f \in Frontend |->
                        IF f \in Here \ {but} THEN Append(outbox[f], m) ELSE outbox[f]]
        /\ \E fs \in SUBSET Frontend : todo' = ToLetGo(fs, FALSE) \o Tail(todo)
    BY <1>4, <2>1, Broadcasts
  <2>3. Here \ {but} \in SUBSET Frontend
    BY DEF Here
  <2>4. Streams' /\ outbox' \in [Frontend -> Seq(Message)]
    BY <1>1, <2>2, <2>3, Says
  <2>5. TypeOK'
    BY <1>1, <2>4 DEF IInv, TypeOK
  <2>6. PICK fs \in SUBSET Frontend : todo' = ToLetGo(fs, FALSE) \o Tail(todo)
    BY <2>2
  <2>7. ToLetGo(fs, FALSE) \in Seq(Frame) /\ Plain(ToLetGo(fs, FALSE))
    BY Frames
  <2>8. Welcoming'
    BY <1>1, <2>6, <2>7, StillToDo DEF IInv
  <2> QED
    BY <1>2, <2>4, <2>5, <2>8 DEF IInv
<1> QED
  BY <1>3, <1>4

LEMMA KeptSnapClients == IInv /\ SnapClients => IInv'
<1> SUFFICES ASSUME IInv, SnapClients PROVE IInv'
  OBVIOUS
<1>1. Clients(Here) \in Message /\ ~IsRecord(Clients(Here))
  BY Messages DEF Here
<1>2. snaps' \in [clients : SUBSET Frontend, claims : Frontend \cup {None}]
  <2>1. /\ Here \in SUBSET Frontend
        /\ snaps \in [clients : SUBSET Frontend, claims : Frontend \cup {None}]
    BY DEF IInv, TypeOK, Here
  <2>2. snaps' = snaps \/ snaps' = [snaps EXCEPT !.clients = Here]
    BY DEF SnapClients
  <2> QED
    BY <2>1, <2>2
<1> QED
  BY <1>1, <1>2, KeptSnap DEF SnapClients

LEMMA KeptSnapClaims == IInv /\ SnapClaims => IInv'
<1> SUFFICES ASSUME IInv, SnapClaims PROVE IInv'
  OBVIOUS
<1>1. Claims(owner) \in Message /\ ~IsRecord(Claims(owner))
  BY Messages DEF IInv, TypeOK
<1>2. snaps' \in [clients : SUBSET Frontend, claims : Frontend \cup {None}]
  BY DEF SnapClaims, IInv, TypeOK
<1> QED
  BY <1>1, <1>2, KeptSnap DEF SnapClaims

LEMMA KeptAttach == IInv /\ (\E f \in Frontend : Attach(f)) => IInv'
<1> SUFFICES ASSUME IInv, NEW f \in Frontend, Attach(f) PROVE IInv'
  OBVIOUS
<1>1. /\ presence[f] = "new" /\ presence' = [presence EXCEPT ![f] = "here"]
      /\ outbox' = [outbox EXCEPT ![f] = Replay]
      /\ todo' = <<ToSnapClients(f), ToWelcome(f)>>
      /\ told' = [told EXCEPT ![f].seq = elided, ![f].from = elided]
      /\ UNCHANGED <<seq, elided, snaps, owner, closed, asking, asked, thread>>
  BY DEF Attach, askVars
<1>2. /\ seq \in Nat /\ elided \in 0..seq /\ elided \in 0..MaxSeq /\ seq \in 0..MaxSeq
      /\ presence \in [Frontend -> {"new", "here", "gone"}]
      /\ outbox \in [Frontend -> Seq(Message)]
      /\ told \in [Frontend -> [seq : 0..MaxSeq, from : 0..MaxSeq, clients : SUBSET Frontend,
                                claims : Frontend \cup {None}, gone : BOOLEAN]]
  BY DeliveryAssumption DEF IInv, TypeOK
<1>3. /\ Replay \in Seq(Message)
      /\ Stream(Replay, elided, seq) /\ Whole(Replay, elided, seq)
  <2>1. {Record(n) : n \in 1..seq} \subseteq Message
    <3>1. \A n \in 1..seq : n \in 1..MaxSeq
      BY <1>2, DeliveryAssumption
    <3> QED
      BY <3>1, Messages
  <2> QED
    BY <1>2, <2>1, StreamStarts
<1>4. TypeOK'
  <2>1. outbox' \in [Frontend -> Seq(Message)]
    BY <1>1, <1>2, <1>3
  <2>2. told' \in [Frontend -> [seq : 0..MaxSeq, from : 0..MaxSeq, clients : SUBSET Frontend,
                                claims : Frontend \cup {None}, gone : BOOLEAN]]
    <3> DEFINE Told == [seq : 0..MaxSeq, from : 0..MaxSeq, clients : SUBSET Frontend,
                        claims : Frontend \cup {None}, gone : BOOLEAN]
               new == [told[f] EXCEPT !.seq = elided, !.from = elided]
    <3>1. told \in [Frontend -> Told] /\ told' = [told EXCEPT ![f] = new]
      BY <1>1, <1>2
    <3>2. told[f] \in Told
      BY <3>1
    <3>3. new \in Told
      BY <1>2, <3>2
    <3> HIDE DEF Told, new
    <3>4. told' \in [Frontend -> Told]
      BY <3>1, <3>3
    <3> QED
      BY <3>4 DEF Told
  <2>3. presence' \in [Frontend -> {"new", "here", "gone"}]
    BY <1>1, <1>2
  <2> QED
    BY <1>1, <2>1, <2>2, <2>3 DEF IInv, TypeOK
<1>5. ASSUME NEW g \in Frontend
      PROVE  /\ Stream(outbox'[g], told'[g].seq, seq')
             /\ g \in Here' => Whole(outbox'[g], told'[g].seq, seq')
  <2>1. CASE g = f
    <3>1. told'[f].seq = elided /\ outbox'[f] = Replay /\ seq' = seq
      BY <1>1, <1>2
    <3> QED
      BY <1>3, <2>1, <3>1
  <2>2. CASE g # f
    BY <1>1, <1>2, <2>2 DEF IInv, Streams, Here
  <2> QED
    BY <2>1, <2>2
<1>6. thread[f] = "off"
  BY <1>1 DEF IInv, Started
<1>7. Welcoming'
  <2>1. /\ ToSnapClients(f) \in Frame /\ ToSnapClients(f).do = "clients"
        /\ ToWelcome(f) \in Frame /\ ToWelcome(f).of = f
    BY Frames
  <2>2. /\ todo' \in Seq(Frame) /\ Len(todo') = 2 /\ todo'[1] = ToSnapClients(f)
        /\ todo'[2] = ToWelcome(f)
    BY <1>1, <2>1
  <2>3. thread'[f] = "off" /\ presence'[f] # "new"
    BY <1>1, <1>2, <1>6
  <2> QED
    BY <2>1, <2>2, <2>3 DEF Welcoming
<1>8. Started'
  BY <1>1, <1>2 DEF IInv, Started
<1> QED
  BY <1>4, <1>5, <1>7, <1>8 DEF IInv, Streams

LEMMA KeptWelcome == IInv /\ Welcome => IInv'
<1> SUFFICES ASSUME IInv, Welcome PROVE IInv'
  OBVIOUS
<1> DEFINE f == Head(todo).of
           a == Clients(snaps.clients)
           b == Claims(snaps.claims)
           c == Live(seq, elided)
<1>1. /\ todo # <<>> /\ Head(todo).do = "welcome" /\ todo' = Tail(todo)
      /\ outbox' = [outbox EXCEPT ![f] = IF f \in Here THEN @ \o <<a, b, c>> ELSE @]
      /\ thread' = [thread EXCEPT ![f] = IF f \in Stuck THEN "busy" ELSE "on"]
      /\ UNCHANGED <<seq, elided, snaps, presence, owner, closed, asking, asked, told>>
  BY DEF Welcome, askVars
<1>2. /\ f \in Frontend /\ thread[f] = "off" /\ presence[f] # "new" /\ todo' = <<>>
  <2>1. todo \in Seq(Frame) /\ Head(todo) = todo[1] /\ 1 \in 1..Len(todo) /\ Head(todo) \in Frame
    BY <1>1, After DEF IInv, Welcoming
  <2>2. 1 = Len(todo) /\ thread[f] = "off" /\ presence[f] # "new"
    BY <1>1, <2>1 DEF IInv, Welcoming
  <2>3. f \in Frontend
    BY <1>1, <2>1, Typed
  <2>4. Tail(todo) = <<>>
    BY <1>1, <2>1, <2>2
  <2> QED
    BY <1>1, <2>2, <2>3, <2>4
<1>3. /\ a \in Message /\ b \in Message /\ c \in Message
      /\ ~IsRecord(a) /\ ~IsRecord(b) /\ ~IsRecord(c)
  <2>1. /\ snaps.clients \in SUBSET Frontend /\ snaps.claims \in Frontend \cup {None}
        /\ seq \in 0..MaxSeq /\ elided \in 0..MaxSeq
    BY DeliveryAssumption DEF IInv, TypeOK
  <2> QED
    BY <2>1, Messages
<1> HIDE DEF f, a, b, c
<1>4. ASSUME NEW g \in Frontend
      PROVE  /\ outbox'[g] \in Seq(Message)
             /\ Stream(outbox'[g], told[g].seq, seq)
             /\ g \in Here => Whole(outbox'[g], told[g].seq, seq)
  <2>1. /\ outbox[g] \in Seq(Message) /\ told[g].seq \in Nat /\ seq \in Nat
        /\ Stream(outbox[g], told[g].seq, seq)
        /\ g \in Here => Whole(outbox[g], told[g].seq, seq)
    BY DEF IInv, TypeOK, Streams
  <2>2. CASE g = f /\ f \in Here
    <3> DEFINE x == Append(outbox[g], a)
               y == Append(x, b)
    <3>1. outbox'[g] = outbox[g] \o <<a, b, c>>
      BY <1>1, <1>2, <2>2 DEF IInv, TypeOK
    <3>2. x \in Seq(Message)
      BY <1>3, <2>1, ThreeMore
    <3>3. y \in Seq(Message)
      BY <1>3, <2>1, ThreeMore
    <3>4. Append(y, c) = outbox[g] \o <<a, b, c>> /\ Append(y, c) \in Seq(Message)
      <4>1. a \in Message /\ b \in Message /\ c \in Message /\ outbox[g] \in Seq(Message)
        BY ONLY <1>3, <2>1
      <4> HIDE DEF a, b, c
      <4> QED
        BY ONLY <4>1, ThreeMore
    <3>5. Stream(x, told[g].seq, seq) /\ Whole(x, told[g].seq, seq)
      BY <1>3, <2>1, <2>2, StreamSays
    <3> HIDE DEF x
    <3>6. Stream(y, told[g].seq, seq) /\ Whole(y, told[g].seq, seq)
      BY <1>3, <2>1, <3>2, <3>5, StreamSays
    <3> HIDE DEF y
    <3>7. Stream(Append(y, c), told[g].seq, seq) /\ Whole(Append(y, c), told[g].seq, seq)
      BY <1>3, <2>1, <3>3, <3>6, StreamSays
    <3> QED
      BY <3>1, <3>4, <3>7
  <2>3. CASE g # f \/ f \notin Here
    <3>1. outbox'[g] = outbox[g]
      BY <1>1, <1>2, <2>3 DEF IInv, TypeOK
    <3> QED
      BY <2>1, <3>1
  <2> QED
    BY <2>2, <2>3
<1>5. outbox' \in [Frontend -> Seq(Message)]
  <2>1. outbox' = [g \in Frontend |-> outbox'[g]]
    BY <1>1, <1>2 DEF IInv, TypeOK
  <2> QED
    BY <1>4, <2>1
<1>6. thread' \in [Frontend -> {"off", "on", "busy", "over"}]
  BY <1>1, <1>2 DEF IInv, TypeOK
<1>7. TypeOK'
  BY <1>1, <1>5, <1>6 DEF IInv, TypeOK
<1>8. Streams'
  BY <1>1, <1>4 DEF Streams, Here
<1>9. Started'
  BY <1>1, <1>2 DEF IInv, Started, TypeOK
<1>10. Welcoming'
  BY <1>2 DEF Welcoming
<1> QED
  BY <1>7, <1>8, <1>9, <1>10 DEF IInv

LEMMA KeptLetGo == IInv /\ LetGo => IInv'
<1> SUFFICES ASSUME IInv, LetGo PROVE IInv'
  OBVIOUS
<1> DEFINE h == Head(todo)
<1>1. /\ todo # <<>> /\ h.do = "let go"
      /\ UNCHANGED <<seq, elided, snaps, closed, asking, asked, thread, told>>
  BY DEF LetGo, askVars, threadVars
<1>2. h \in Frame /\ h.of \in SUBSET Frontend /\ h.keep \in BOOLEAN /\ Tail(todo) \in Seq(Frame)
  BY <1>1, After, Typed DEF IInv, Welcoming
<1>3. PICK f \in h.of :
        LET rest == ToLetGo(h.of \ {f}, h.keep) \o Tail(todo)
        IN IF f \notin Here THEN todo' = rest /\ UNCHANGED <<presence, owner, outbox>>
           ELSE /\ presence' = [presence EXCEPT ![f] = "gone"]
                /\ outbox' = [outbox EXCEPT ![f] = LastWords(f, h.keep)]
                /\ owner' = IF owner = f THEN None ELSE owner
                /\ todo' = GoneSays \o rest
  BY DEF LetGo
<1> HIDE DEF h
<1> DEFINE go == ToLetGo(h.of \ {f}, h.keep)
           rest == go \o Tail(todo)
<1>4. f \in Frontend /\ go \in Seq(Frame) /\ Plain(go)
  <2>1. h.of \ {f} \in SUBSET Frontend
    BY <1>2
  <2> QED
    BY <1>2, <1>3, <2>1, Frames
<1>5. /\ presence \in [Frontend -> {"new", "here", "gone"}]
      /\ outbox \in [Frontend -> Seq(Message)]
      /\ owner \in Frontend \cup {None}
  BY DEF IInv, TypeOK
<1>6. CASE f \notin Here
  <2>1. todo' = rest /\ UNCHANGED <<presence, owner, outbox>>
    BY <1>3, <1>6
  <2>2. Welcoming'
    BY <1>1, <1>4, <2>1, StillToDo DEF IInv
  <2>3. TypeOK'
    BY <1>1, <2>1 DEF IInv, TypeOK
  <2>4. Streams' /\ Started'
    BY <1>1, <2>1 DEF IInv, Streams, Started, Here
  <2> QED
    BY <2>2, <2>3, <2>4 DEF IInv
<1>7. CASE f \in Here
  <2>1. /\ presence' = [presence EXCEPT ![f] = "gone"]
        /\ outbox' = [outbox EXCEPT ![f] = LastWords(f, h.keep)]
        /\ owner' = IF owner = f THEN None ELSE owner
        /\ todo' = GoneSays \o rest
    BY <1>3, <1>7
  <2>2. GoneSays \in Seq(Frame) /\ Plain(GoneSays)
    <3>1. /\ ToSnapClients(None) \in Frame /\ ToSnapClients(None).do = "clients"
          /\ ToSnapClaims \in Frame /\ ToSnapClaims.do = "claims"
      BY Frames
    <3>2. /\ GoneSays \in Seq(Frame) /\ Len(GoneSays) = 2
          /\ GoneSays[1] = ToSnapClients(None) /\ GoneSays[2] = ToSnapClaims
      BY <3>1 DEF GoneSays
    <3> QED
      BY <3>1, <3>2 DEF Plain
  <2>3. GoneSays \o go \in Seq(Frame) /\ Plain(GoneSays \o go)
    BY <1>4, <2>2, Before
  <2>4. GoneSays \o rest = (GoneSays \o go) \o Tail(todo)
    <3>1. GoneSays \in Seq(Frame) /\ go \in Seq(Frame) /\ Tail(todo) \in Seq(Frame)
      BY ONLY <1>2, <1>4, <2>2
    <3>2. rest = go \o Tail(todo)
      BY ONLY <1>2, <1>4
    <3> HIDE DEF rest, go
    <3> QED
      BY ONLY <3>1, <3>2, BeforeBoth, SMTT(40)
  <2>5. \A g \in Frontend : presence[g] # "new" => presence'[g] # "new"
    BY <1>4, <1>5, <2>1
  <2> HIDE DEF rest, go
  <2>6. Welcoming'
    BY <1>1, <2>1, <2>3, <2>4, <2>5, StillToDo DEF IInv
  <2>7. /\ Gone \in Message /\ ~IsRecord(Gone)
        /\ outbox[f] \in Seq(Message) /\ <<>> \in Seq(Message)
        /\ told[f].seq \in Nat /\ seq \in Nat
        /\ Stream(outbox[f], told[f].seq, seq) /\ Stream(<<>>, told[f].seq, seq)
    BY <1>4, Messages DEF IInv, TypeOK, Streams, Stream
  <2>8. LastWords(f, h.keep) \in Seq(Message) /\ Stream(LastWords(f, h.keep), told[f].seq, seq)
    <3>1. CASE h.keep
      <4>1. Append(outbox[f], Gone) \in Seq(Message)
        BY <2>7
      <4>2. Stream(Append(outbox[f], Gone), told[f].seq, seq)
        BY <2>7, StreamSays
      <4> QED
        BY <3>1, <4>1, <4>2 DEF LastWords
    <3>2. CASE ~h.keep
      <4>1. Append(<<>>, Gone) \in Seq(Message)
        BY <2>7
      <4>2. Stream(Append(<<>>, Gone), told[f].seq, seq)
        BY <2>7, StreamSays
      <4> QED
        BY <3>2, <4>1, <4>2 DEF LastWords
    <3> QED
      BY <3>1, <3>2
  <2>9. TypeOK'
    <3>1. outbox' \in [Frontend -> Seq(Message)]
      BY <1>5, <2>1, <2>8
    <3>2. presence' \in [Frontend -> {"new", "here", "gone"}]
      BY <1>5, <2>1
    <3>3. owner' \in Frontend \cup {None}
      BY <1>5, <2>1
    <3> QED
      BY <1>1, <3>1, <3>2, <3>3 DEF IInv, TypeOK
  <2>10. ASSUME NEW g \in Frontend
         PROVE  /\ Stream(outbox'[g], told'[g].seq, seq')
                /\ g \in Here' => Whole(outbox'[g], told'[g].seq, seq')
    <3>1. CASE g = f
      <4>1. outbox'[f] = LastWords(f, h.keep) /\ f \notin Here'
        BY <1>4, <1>5, <2>1 DEF Here
      <4> QED
        BY <1>1, <2>8, <3>1, <4>1
    <3>2. CASE g # f
      <4>1. outbox'[g] = outbox[g] /\ presence'[g] = presence[g]
        BY <1>5, <2>1, <3>2
      <4> QED
        BY <1>1, <4>1 DEF IInv, Streams, Here
    <3> QED
      BY <3>1, <3>2
  <2>11. Started'
    BY <1>1, <2>5 DEF IInv, Started
  <2> QED
    BY <2>6, <2>9, <2>10, <2>11 DEF IInv, Streams
<1> QED
  BY <1>6, <1>7

\* Steps that only add to what there is to do, or to who asks for what.
LEMMA KeptOtherwise ==
  ASSUME IInv, Welcoming', UNCHANGED <<seq, elided, snaps, presence, outbox, thread, told>>,
         owner' \in Frontend \cup {None}, closed' \in BOOLEAN,
         asking' \subseteq Frontend, asked' \in 0..MaxClaim
  PROVE  IInv'
<1>1. TypeOK'
  BY DEF IInv, TypeOK
<1>2. Streams' /\ Started'
  BY DEF IInv, Streams, Started, Here
<1> QED
  BY <1>1, <1>2 DEF IInv

LEMMA KeptDetach == IInv /\ (\E f \in Frontend : Detach(f)) => IInv'
<1> SUFFICES ASSUME IInv, NEW f \in Frontend, Detach(f) PROVE IInv'
  OBVIOUS
<1>1. /\ todo' = ToLetGo({f}, FALSE) /\ ToLetGo({f}, FALSE) \in Seq(Frame)
      /\ Plain(ToLetGo({f}, FALSE))
  BY Frames DEF Detach
<1>2. Welcoming'
  BY <1>1, PlainToDo
<1>3. closed' \in BOOLEAN
  BY DEF Detach, IInv, TypeOK
<1>4. /\ owner' \in Frontend \cup {None} /\ asking' \subseteq Frontend /\ asked' \in 0..MaxClaim
      /\ UNCHANGED <<seq, elided, snaps, presence, outbox, thread, told>>
  BY DEF Detach, askVars, threadVars, IInv, TypeOK
<1> QED
  BY <1>2, <1>3, <1>4, KeptOtherwise

LEMMA KeptClose == IInv /\ Close => IInv'
<1> SUFFICES ASSUME IInv, Close PROVE IInv'
  OBVIOUS
<1>1. /\ todo' = ToLetGo(Here, TRUE) \o <<ToShut>>
      /\ ToLetGo(Here, TRUE) \in Seq(Frame) /\ Plain(ToLetGo(Here, TRUE))
  BY Frames DEF Close, Here
<1>2. <<ToShut>> \in Seq(Frame) /\ Plain(<<ToShut>>)
  BY Frames DEF Plain
<1>3. todo' \in Seq(Frame) /\ Plain(todo')
  BY <1>1, <1>2, Before
<1>4. Welcoming'
  BY <1>3 DEF Welcoming, Plain
<1>5. closed' \in BOOLEAN
  BY DEF Close, IInv, TypeOK
<1>6. /\ owner' \in Frontend \cup {None} /\ asking' \subseteq Frontend /\ asked' \in 0..MaxClaim
      /\ UNCHANGED <<seq, elided, snaps, presence, outbox, thread, told>>
  BY DEF Close, askVars, threadVars, IInv, TypeOK
<1> QED
  BY <1>4, <1>5, <1>6, KeptOtherwise

LEMMA KeptShut == IInv /\ Shut => IInv'
<1> SUFFICES ASSUME IInv, Shut PROVE IInv'
  OBVIOUS
<1>1. <<>> \in Seq(Frame) /\ Plain(<<>>)
  BY DEF Plain
<1>2. /\ owner' \in Frontend \cup {None} /\ asking' \subseteq Frontend /\ asked' \in 0..MaxClaim
      /\ UNCHANGED <<seq, elided, snaps, presence, outbox, thread, told>>
  BY DEF Shut, askVars, threadVars, IInv, TypeOK
<1>3. Welcoming'
  BY <1>1, <1>2, StillToDo DEF IInv, Shut
<1>4. closed' \in BOOLEAN
  BY DEF Shut
<1> QED
  BY <1>2, <1>3, <1>4, KeptOtherwise

LEMMA KeptAsks == IInv /\ (\E f \in Frontend : Asks(f)) => IInv'
<1> SUFFICES ASSUME IInv, NEW f \in Frontend, Asks(f) PROVE IInv'
  OBVIOUS
<1>1. asking' \subseteq Frontend
  BY DEF Asks, IInv, TypeOK
<1>2. asked' \in 0..MaxClaim
  BY DeliveryAssumption DEF Asks, IInv, TypeOK
<1>3. closed' \in BOOLEAN
  BY DEF Asks, hostVars, IInv, TypeOK
<1>4. /\ owner' \in Frontend \cup {None}
      /\ UNCHANGED <<seq, elided, snaps, presence, todo, outbox, thread, told>>
  BY DEF Asks, hostVars, threadVars, IInv, TypeOK
<1>5. Welcoming'
  BY <1>4 DEF IInv, Welcoming
<1> QED
  BY <1>1, <1>2, <1>3, <1>4, <1>5, KeptOtherwise

LEMMA KeptClaim == IInv /\ (\E f \in Frontend : Claim(f)) => IInv'
<1> SUFFICES ASSUME IInv, NEW f \in Frontend, Claim(f) PROVE IInv'
  OBVIOUS
<1>1. asking' \subseteq Frontend /\ owner' \in Frontend \cup {None} /\ asked' \in 0..MaxClaim
  BY DEF Claim, IInv, TypeOK
<1>2. closed' \in BOOLEAN
  BY DEF Claim, IInv, TypeOK
<1>3. UNCHANGED <<seq, elided, snaps, presence, outbox, thread, told>>
  BY DEF Claim, threadVars
<1>4. todo' = <<ToSnapClaims>> \/ todo' = todo
  BY DEF Claim
<1>5. <<ToSnapClaims>> \in Seq(Frame) /\ Plain(<<ToSnapClaims>>)
  BY Frames DEF Plain
<1>6. Welcoming'
  <2>1. CASE todo' = <<ToSnapClaims>>
    BY <1>5, <2>1, PlainToDo
  <2>2. CASE todo' = todo
    BY <1>3, <2>2 DEF IInv, Welcoming
  <2> QED
    BY <1>4, <2>1, <2>2
<1> QED
  BY <1>1, <1>2, <1>3, <1>6, KeptOtherwise

LEMMA KeptTake ==
  ASSUME IInv, NEW f \in Frontend, Take(f)
  PROVE  /\ IInv'
         /\ \/ told'[f].seq = told[f].seq
            \/ told'[f].seq = told[f].seq + 1 /\ told[f].seq < seq
         /\ \A g \in Frontend : g # f => told'[g] = told[g]
<1> DEFINE Told == [seq : 0..MaxSeq, from : 0..MaxSeq, clients : SUBSET Frontend,
                    claims : Frontend \cup {None}, gone : BOOLEAN]
           box == outbox[f]
           m == Head(box)
           old == told[f]
           new == CASE m.kind = "record" -> [old EXCEPT !.seq = m.is]
                    [] m.kind = "clients" -> [old EXCEPT !.clients = m.is]
                    [] m.kind = "claims" -> [old EXCEPT !.claims = m.is]
                    [] m.kind = "live" -> old
                    [] m.kind = "gone" -> [old EXCEPT !.gone = TRUE]
<1>1. /\ thread[f] = "on" /\ box # <<>>
      /\ told' = [told EXCEPT ![f] = new]
      /\ outbox' = [outbox EXCEPT ![f] = Tail(box)]
      /\ thread' = [thread EXCEPT ![f] = "busy"]
      /\ UNCHANGED <<seq, elided, snaps, presence, owner, closed, todo, asking, asked>>
  BY DEF Take, hostVars, askVars
<1>2. /\ box \in Seq(Message) /\ outbox \in [Frontend -> Seq(Message)]
      /\ told \in [Frontend -> Told] /\ old \in Told /\ old.seq \in Nat
      /\ seq \in Nat /\ thread \in [Frontend -> {"off", "on", "busy", "over"}]
      /\ Stream(box, old.seq, seq)
      /\ f \in Here => Whole(box, old.seq, seq)
  BY DeliveryAssumption DEF IInv, TypeOK, Streams
<1>3. m \in Message /\ Tail(box) \in Seq(Message)
  BY <1>1, <1>2
<1> HIDE DEF m, box
<1>4. /\ m.kind \in {"record", "clients", "claims", "live", "gone"}
      /\ m.kind = "record" => m.is \in 0..MaxSeq
      /\ m.kind = "clients" => m.is \in SUBSET Frontend
      /\ m.kind = "claims" => m.is \in Frontend \cup {None}
  BY <1>3, Kinds
<1>5. LET next == IF IsRecord(m) THEN old.seq + 1 ELSE old.seq
      IN /\ IsRecord(m) => m.is = old.seq + 1 /\ old.seq + 1 <= seq
         /\ Stream(Tail(box), next, seq)
         /\ Whole(box, old.seq, seq) => Whole(Tail(box), next, seq)
  BY <1>1, <1>2, StreamReads DEF m
<1>6. /\ new \in Told
      /\ new.seq = IF IsRecord(m) THEN old.seq + 1 ELSE old.seq
  <2>1. CASE m.kind = "record"
    BY <1>2, <1>4, <1>5, <2>1 DEF IsRecord
  <2>2. CASE m.kind = "clients"
    BY <1>2, <1>4, <2>2 DEF IsRecord
  <2>3. CASE m.kind = "claims"
    BY <1>2, <1>4, <2>3 DEF IsRecord
  <2>4. CASE m.kind = "live"
    BY <1>2, <2>4 DEF IsRecord
  <2>5. CASE m.kind = "gone"
    BY <1>2, <2>5 DEF IsRecord
  <2> QED
    BY <1>4, <2>1, <2>2, <2>3, <2>4, <2>5
<1> HIDE DEF new, Told, old
<1>7. told' \in [Frontend -> Told] /\ told'[f] = new /\ \A g \in Frontend : g # f => told'[g] = told[g]
  BY <1>1, <1>2, <1>6
<1>8. TypeOK'
  <2>1. outbox' \in [Frontend -> Seq(Message)]
    BY <1>1, <1>2, <1>3
  <2>2. thread' \in [Frontend -> {"off", "on", "busy", "over"}]
    BY <1>1, <1>2
  <2> QED
    BY <1>1, <1>7, <2>1, <2>2 DEF IInv, TypeOK, Told
<1>9. ASSUME NEW g \in Frontend
      PROVE  /\ Stream(outbox'[g], told'[g].seq, seq)
             /\ g \in Here => Whole(outbox'[g], told'[g].seq, seq)
  <2>1. CASE g = f
    <3>1. outbox'[f] = Tail(box)
      BY <1>1, <1>2
    <3> QED
      BY <1>2, <1>5, <1>6, <1>7, <2>1, <3>1
  <2>2. CASE g # f
    <3>1. outbox'[g] = outbox[g]
      BY <1>1, <1>2, <2>2
    <3> QED
      BY <1>7, <2>2, <3>1 DEF IInv, Streams
  <2> QED
    BY <2>1, <2>2
<1>10. Streams'
  BY <1>1, <1>9 DEF Streams, Here
<1>11. Started'
  BY <1>1, <1>2 DEF IInv, Started
<1>12. Welcoming'
  <2>1. \A i \in 1..Len(todo) : todo[i] \in Frame
    BY DEF IInv, Welcoming
  <2>2. ASSUME NEW i \in 1..Len(todo), todo[i].do = "welcome"
        PROVE  i = Len(todo) /\ thread'[todo[i].of] = "off" /\ presence[todo[i].of] # "new"
    <3>1. /\ i = Len(todo) /\ thread[todo[i].of] = "off" /\ presence[todo[i].of] # "new"
      BY <2>2 DEF IInv, Welcoming
    <3>2. todo[i].of \in Frontend
      BY <2>1, <2>2, Typed
    <3>3. todo[i].of # f
      BY <1>1, <3>1
    <3> QED
      BY <1>1, <1>2, <3>1, <3>2, <3>3
  <2> QED
    BY <1>1, <2>2 DEF IInv, Welcoming
<1>13. \/ told'[f].seq = old.seq
       \/ told'[f].seq = old.seq + 1 /\ old.seq < seq
  BY <1>2, <1>5, <1>6, <1>7
<1>14. IInv'
  BY <1>8, <1>10, <1>11, <1>12 DEF IInv
<1> QED
  BY <1>7, <1>13, <1>14 DEF old

LEMMA KeptHeard == IInv /\ (\E f \in Frontend : Heard(f)) => IInv'
<1> SUFFICES ASSUME IInv, NEW f \in Frontend, Heard(f) PROVE IInv'
  OBVIOUS
<1>1. /\ thread[f] = "busy"
      /\ thread' = [thread EXCEPT ![f] = IF told[f].gone THEN "over" ELSE "on"]
      /\ UNCHANGED <<seq, elided, snaps, presence, owner, closed, todo, asking, asked, outbox,
                     told>>
  BY DEF Heard, hostVars, askVars
<1>2. thread \in [Frontend -> {"off", "on", "busy", "over"}]
  BY DEF IInv, TypeOK
<1>3. thread' \in [Frontend -> {"off", "on", "busy", "over"}]
  BY <1>1, <1>2
<1>4. TypeOK'
  BY <1>1, <1>3 DEF IInv, TypeOK
<1>5. Streams'
  BY <1>1 DEF IInv, Streams, Here
<1>6. Started'
  <2>1. \A g \in Frontend : thread'[g] # "off" => thread[g] # "off"
    BY <1>1, <1>2
  <2> QED
    BY <1>1, <2>1 DEF IInv, Started
<1>7. Welcoming'
  <2>1. \A i \in 1..Len(todo) : todo[i] \in Frame
    BY DEF IInv, Welcoming
  <2>2. ASSUME NEW i \in 1..Len(todo), todo[i].do = "welcome"
        PROVE  i = Len(todo) /\ thread'[todo[i].of] = "off" /\ presence[todo[i].of] # "new"
    <3>1. /\ i = Len(todo) /\ thread[todo[i].of] = "off" /\ presence[todo[i].of] # "new"
      BY <2>2 DEF IInv, Welcoming
    <3>2. todo[i].of \in Frontend
      BY <2>1, <2>2, Typed
    <3>3. todo[i].of # f
      BY <1>1, <3>1
    <3> QED
      BY <1>1, <1>2, <3>1, <3>2, <3>3
  <2> QED
    BY <1>1, <2>2 DEF IInv, Welcoming
<1> QED
  BY <1>4, <1>5, <1>6, <1>7 DEF IInv

LEMMA KeptByAll == IInv /\ [Next]_vars => IInv'
<1> SUFFICES ASSUME IInv, [Next]_vars PROVE IInv'
  OBVIOUS
<1>1. CASE Next
  <2>1. CASE \E f \in Frontend : Take(f)
    BY <2>1, KeptTake
  <2> QED
    BY <1>1, <2>1, KeptHappens, KeptSnapClients, KeptSnapClaims, KeptAttach, KeptWelcome, KeptLetGo,
       KeptDetach, KeptClose, KeptShut, KeptAsks, KeptClaim, KeptHeard DEF Next, Locked
<1>2. CASE UNCHANGED vars
  <2>1. /\ UNCHANGED <<seq, elided, snaps, presence, owner, closed, todo, asking, asked>>
        /\ UNCHANGED <<outbox, thread, told>>
    BY <1>2 DEF vars, hostVars, askVars, threadVars
  <2>2. TypeOK'
    BY <2>1 DEF IInv, TypeOK
  <2>3. Streams' /\ Started' /\ Welcoming'
    BY <2>1 DEF IInv, Streams, Started, Welcoming, Here
  <2> QED
    BY <2>2, <2>3 DEF IInv
<1> QED
  BY <1>1, <1>2

LEMMA Invariance == Spec => []IInv
BY Initial, KeptByAll, PTL DEF Spec

\* The state is of its types, and no more is kept of what happened than is to be.
THEOREM Typing == Spec => []TypeOK
BY Invariance, PTL DEF IInv

-----------------------------------------------------------------------------
(* What each frontend is promised. *)

State == [f \in Frontend |-> IF presence[f] = "new" THEN "out"
                             ELSE IF thread[f] = "over" THEN "gone" ELSE "reading"]

Place == [f \in Frontend |-> told[f].seq]

LEMMA PromisedFirst == Init => Promise!Init
<1> SUFFICES ASSUME Init PROVE Promise!Init
  OBVIOUS
<1>1. \A f \in Frontend : presence[f] = "new" /\ told[f].seq = 0
  BY DEF Init, Nothing
<1> QED
  BY <1>1 DEF Init, Promise!Init

\* Frontends none of which comes, reads on or is let go.
LEMMA PromisedAlike ==
  ASSUME seq' = seq, presence' = presence, thread' = thread,
         \A f \in Frontend : told'[f].seq = told[f].seq
  PROVE  UNCHANGED Promise!vars
BY DEF Promise!vars

LEMMA PromisedNext == IInv /\ [Next]_vars => [Promise!Next]_Promise!vars
<1> SUFFICES ASSUME IInv, [Next]_vars PROVE [Promise!Next]_Promise!vars
  OBVIOUS
<1>1. ASSUME Happens PROVE Promise!Next
  <2>1. seq' = seq + 1 /\ presence' = presence /\ thread' = thread /\ told' = told
    BY <1>1 DEF Happens, threadVars
  <2> QED
    BY <2>1 DEF Promise!Next, Promise!Happen
<1>2. ASSUME NEW f \in Frontend, Attach(f) PROVE Promise!Next
  <2>1. /\ seq' = seq /\ presence[f] = "new" /\ thread' = thread /\ elided \in 0..seq
        /\ presence' = [presence EXCEPT ![f] = "here"]
        /\ presence \in [Frontend -> {"new", "here", "gone"}]
        /\ thread[f] = "off"
    BY <1>2 DEF Attach, IInv, TypeOK, Started
  <2>2. told'[f].seq = elided /\ \A g \in Frontend : g # f => told'[g] = told[g]
    BY <1>2 DEF Attach, IInv, TypeOK
  <2>3. State[f] = "out" /\ State' = [State EXCEPT ![f] = "reading"]
    BY <2>1 DEF State
  <2>4. Place' = [Place EXCEPT ![f] = elided]
    BY <2>2 DEF Place
  <2>5. Promise!Attach(f)
    BY <2>1, <2>3, <2>4 DEF Promise!Attach, State, Place
  <2> QED
    BY <2>5 DEF Promise!Next
<1>3. ASSUME NEW f \in Frontend, Take(f) PROVE Promise!Next \/ UNCHANGED Promise!vars
  <2>1. /\ thread[f] = "on" /\ thread' = [thread EXCEPT ![f] = "busy"]
        /\ seq' = seq /\ presence' = presence /\ presence[f] # "new"
        /\ thread \in [Frontend -> {"off", "on", "busy", "over"}]
    BY <1>3 DEF Take, hostVars, IInv, TypeOK, Started
  <2>2. /\ \/ told'[f].seq = told[f].seq
           \/ told'[f].seq = told[f].seq + 1 /\ told[f].seq < seq
        /\ \A g \in Frontend : g # f => told'[g] = told[g]
    BY <1>3, KeptTake
  <2>3. State' = State /\ State[f] = "reading"
    BY <2>1 DEF State
  <2>4. CASE told'[f].seq = told[f].seq
    <3>1. Place' = Place
      BY <2>2, <2>4 DEF Place
    <3> QED
      BY <2>1, <2>3, <3>1 DEF Promise!vars, State, Place
  <2>5. CASE told'[f].seq = told[f].seq + 1 /\ told[f].seq < seq
    <3>1. Place[f] < seq /\ Place' = [Place EXCEPT ![f] = @ + 1]
      BY <2>2, <2>5 DEF Place
    <3>2. Promise!Read(f)
      BY <2>1, <2>3, <3>1 DEF Promise!Read, State, Place
    <3> QED
      BY <3>2 DEF Promise!Next
  <2> QED
    BY <2>2, <2>4, <2>5
<1>4. ASSUME NEW f \in Frontend, Heard(f) PROVE Promise!Next \/ UNCHANGED Promise!vars
  <2>1. /\ thread[f] = "busy" /\ thread' = [thread EXCEPT ![f] = IF told[f].gone THEN "over" ELSE "on"]
        /\ seq' = seq /\ presence' = presence /\ presence[f] # "new" /\ told' = told
        /\ thread \in [Frontend -> {"off", "on", "busy", "over"}]
    BY <1>4 DEF Heard, hostVars, IInv, TypeOK, Started
  <2>2. Place' = Place /\ State[f] = "reading"
    BY <2>1 DEF State, Place
  <2>3. CASE told[f].gone
    <3>1. State' = [State EXCEPT ![f] = "gone"]
      BY <2>1, <2>3 DEF State
    <3>2. Promise!Go(f)
      BY <2>1, <2>2, <3>1 DEF Promise!Go, State, Place
    <3> QED
      BY <3>2 DEF Promise!Next
  <2>4. CASE ~told[f].gone
    <3>1. State' = State
      BY <2>1, <2>4 DEF State
    <3> QED
      BY <2>1, <2>2, <3>1 DEF Promise!vars, State, Place
  <2> QED
    BY <2>3, <2>4
<1>5. ASSUME Welcome PROVE UNCHANGED Promise!vars
  <2> DEFINE f == Head(todo).of
  <2>1. /\ todo # <<>> /\ Head(todo).do = "welcome"
        /\ seq' = seq /\ presence' = presence /\ told' = told
        /\ thread' = [thread EXCEPT ![f] = IF f \in Stuck THEN "busy" ELSE "on"]
        /\ thread \in [Frontend -> {"off", "on", "busy", "over"}]
    BY <1>5 DEF Welcome, IInv, TypeOK
  <2>2. 1 \in 1..Len(todo) /\ Head(todo) = todo[1]
    BY <2>1, After DEF IInv, Welcoming
  <2>3. thread[f] = "off"
    BY <2>1, <2>2 DEF IInv, Welcoming
  <2>4. State' = State
    BY <2>1, <2>3 DEF State
  <2> QED
    BY <2>1, <2>4 DEF Promise!vars, State
<1>6. ASSUME LetGo PROVE UNCHANGED Promise!vars
  <2>1. seq' = seq /\ told' = told /\ thread' = thread
    BY <1>6 DEF LetGo, threadVars
  <2>2. \A f \in Frontend : presence'[f] = "new" <=> presence[f] = "new"
    BY <1>6 DEF LetGo, IInv, TypeOK, Here
  <2> QED
    BY <2>1, <2>2 DEF Promise!vars
<1>7. ASSUME SnapClients \/ SnapClaims \/ Shut \/ Close
      PROVE  UNCHANGED Promise!vars
  BY <1>7, PromisedAlike DEF SnapClients, SnapClaims, Shut, Close, threadVars
<1>8. ASSUME NEW f \in Frontend, Detach(f) \/ Asks(f) \/ Claim(f)
      PROVE  UNCHANGED Promise!vars
  BY <1>8, PromisedAlike DEF Detach, Asks, Claim, hostVars, threadVars
<1>9. ASSUME UNCHANGED vars PROVE UNCHANGED Promise!vars
  BY <1>9, PromisedAlike DEF vars, hostVars, threadVars
<1> QED
  BY <1>1, <1>2, <1>3, <1>4, <1>5, <1>6, <1>7, <1>8, <1>9 DEF Next, Locked

\* Each frontend reads what happens from some place on, in order and each thing once, until it is
\* let go, however the history it is given, its outbox, its thread and the ceiling interleave
\* (attach, _broadcast, _delivers, _let_go).
THEOREM Implementation == Spec => Implements
<1>1. IInv /\ [Next]_vars => [Promise!Next]_Promise!vars
  BY PromisedNext
<1> QED
  BY <1>1, PromisedFirst, Invariance, PTL DEF Spec, Implements, Promise!Spec

-----------------------------------------------------------------------------
(* How things stand, and how far the run had come. *)

\* What there is to do, in whatever order.
Doings(t) == {t[i] : i \in 1..Len(t)}
Awaits(f) == ToWelcome(f) \in Doings(todo)

\* Whoever is yet to be told that it is live was, or will before that be, told all up to there.
LiveAt(box, from, got) ==
  \A i \in 1..Len(box) : box[i].kind = "live" =>
    /\ box[i].elided = got /\ box[i].is \in Nat /\ from <= box[i].is
    /\ \A j \in 1..(i - 1) : IsRecord(box[j]) => box[j].is <= box[i].is
    /\ \A k \in (from + 1)..box[i].is : \E j \in 1..(i - 1) : box[j] = Record(k)

\* The last that is said of a kind, or was if nothing more is said of it.
LastIs(box, kind, was, now) ==
  \/ was = now /\ \A i \in 1..Len(box) : box[i].kind # kind
  \/ \E i \in 1..Len(box) :
       /\ box[i].kind = kind /\ box[i].is = now
       /\ \A j \in (i + 1)..Len(box) : box[j].kind # kind

Lives == \A f \in Frontend : LiveAt(outbox[f], told[f].seq, told[f].from)

\* Nothing happens before one is welcomed; and who is left out of what is said is to be.
Owed ==
  /\ \A f \in Frontend : Awaits(f) => told[f].from = elided
  /\ \A x \in Doings(todo) : x.do = "clients" /\ x.but # None => Awaits(x.but)

\* A state that is not as it was last said is still to be said,
ToSay ==
  /\ snaps.clients # Here => \E x \in Doings(todo) : x.do = "clients"
  /\ snaps.claims # owner => \E x \in Doings(todo) : x.do = "claims"

\* and as it was last said is how it was said to everybody.
Informed(f) ==
  /\ LastIs(outbox[f], "clients", told[f].clients, snaps.clients)
  /\ LastIs(outbox[f], "claims", told[f].claims, snaps.claims)

Said == \A f \in Here : Awaits(f) \/ Informed(f)

Standing == Lives /\ Owed /\ ToSay /\ Said

LEMMA LivesOn ==
  ASSUME NEW S, NEW box \in Seq(S), NEW m \in S, m.kind # "live", NEW from, NEW got,
         LiveAt(box, from, got)
  PROVE  LiveAt(Append(box, m), from, got)
<1> DEFINE new == Append(box, m)
<1>1. /\ Len(new) = Len(box) + 1 /\ new[Len(box) + 1] = m /\ Len(box) \in Nat
      /\ \A i \in 1..Len(box) : new[i] = box[i]
  OBVIOUS
<1> HIDE DEF new
<1>2. ASSUME NEW i \in 1..Len(new), new[i].kind = "live"
      PROVE  i \in 1..Len(box) /\ new[i] = box[i] /\ \A j \in 1..(i - 1) : new[j] = box[j]
  BY <1>1, <1>2
<1>3. LiveAt(new, from, got)
  <2> SUFFICES ASSUME NEW i \in 1..Len(new), new[i].kind = "live"
               PROVE  /\ new[i].elided = got /\ new[i].is \in Nat /\ from <= new[i].is
                      /\ \A j \in 1..(i - 1) : IsRecord(new[j]) => new[j].is <= new[i].is
                      /\ \A k \in (from + 1)..new[i].is : \E j \in 1..(i - 1) : new[j] = Record(k)
    BY DEF LiveAt
  <2>1. i \in 1..Len(box) /\ new[i] = box[i] /\ \A j \in 1..(i - 1) : new[j] = box[j]
    BY <1>2
  <2>2. /\ box[i].elided = got /\ box[i].is \in Nat /\ from <= box[i].is
        /\ \A j \in 1..(i - 1) : IsRecord(box[j]) => box[j].is <= box[i].is
        /\ \A k \in (from + 1)..box[i].is : \E j \in 1..(i - 1) : box[j] = Record(k)
    BY <2>1 DEF LiveAt
  <2> QED
    BY ONLY <2>1, <2>2
<1> QED
  BY <1>3 DEF new

LEMMA LivesWelcome ==
  ASSUME NEW S, NEW box \in Seq(S), NEW from \in Nat, NEW to \in Nat, NEW got, Live(to, got) \in S,
         LiveAt(box, from, got), Stream(box, from, to), Whole(box, from, to)
  PROVE  LiveAt(Append(box, Live(to, got)), from, got)
<1> DEFINE m == Live(to, got)
           new == Append(box, m)
<1>1. /\ Len(new) = Len(box) + 1 /\ new[Len(box) + 1] = m /\ Len(box) \in Nat
      /\ \A i \in 1..Len(box) : new[i] = box[i]
  OBVIOUS
<1>2. m.is = to /\ m.elided = got
  BY DEF Live
<1> HIDE DEF new, m
<1>3. ASSUME NEW i \in 1..Len(new), new[i].kind = "live"
      PROVE  /\ new[i].elided = got /\ new[i].is \in Nat /\ from <= new[i].is
             /\ \A j \in 1..(i - 1) : IsRecord(new[j]) => new[j].is <= new[i].is
             /\ \A k \in (from + 1)..new[i].is : \E j \in 1..(i - 1) : new[j] = Record(k)
  <2>1. CASE i \in 1..Len(box)
    <3>1. new[i] = box[i] /\ \A j \in 1..(i - 1) : new[j] = box[j]
      BY <1>1, <2>1
    <3> QED
      BY <1>3, <2>1, <3>1 DEF LiveAt
  <2>2. CASE i = Len(box) + 1
    <3>1. new[i] = m /\ i - 1 = Len(box)
      BY <1>1, <2>2
    <3>2. from <= to /\ \A k \in (from + 1)..to : \E j \in 1..Len(box) : box[j] = Record(k)
      BY DEF Whole
    <3>3. \A j \in 1..Len(box) : IsRecord(box[j]) => box[j].is <= to
      BY DEF Stream
    <3> QED
      BY <1>1, <1>2, <3>1, <3>2, <3>3
  <2> QED
    BY <1>1, <2>1, <2>2
<1>4. LiveAt(new, from, got)
  BY <1>3 DEF LiveAt
<1> QED
  BY <1>4 DEF new, m

LEMMA LivesRead ==
  ASSUME NEW S, NEW box \in Seq(S), box # <<>>, NEW from \in Nat, NEW got,
         LiveAt(box, from, got),
         IsRecord(Head(box)) => Head(box).is = from + 1 /\ Head(box) = Record(from + 1)
  PROVE  LiveAt(Tail(box), IF IsRecord(Head(box)) THEN from + 1 ELSE from, got)
<1> DEFINE rest == Tail(box)
           next == IF IsRecord(Head(box)) THEN from + 1 ELSE from
<1>1. /\ Head(box) = box[1] /\ Len(box) \in Nat \ {0} /\ Len(rest) = Len(box) - 1
      /\ \A i \in 1..Len(rest) : rest[i] = box[i + 1] /\ i + 1 \in 1..Len(box)
  OBVIOUS
<1> HIDE DEF rest
<1>2. ASSUME NEW i \in 1..Len(rest), rest[i].kind = "live"
      PROVE  /\ rest[i].elided = got /\ rest[i].is \in Nat /\ next <= rest[i].is
             /\ \A j \in 1..(i - 1) : IsRecord(rest[j]) => rest[j].is <= rest[i].is
             /\ \A k \in (next + 1)..rest[i].is : \E j \in 1..(i - 1) : rest[j] = Record(k)
  <2> DEFINE m == box[i + 1]
  <2>1. rest[i] = m /\ i + 1 \in 1..Len(box) /\ m.kind = "live"
    BY <1>1, <1>2
  <2>2. /\ m.elided = got /\ m.is \in Nat /\ from <= m.is
        /\ \A j \in 1..i : IsRecord(box[j]) => box[j].is <= m.is
        /\ \A k \in (from + 1)..m.is : \E j \in 1..i : box[j] = Record(k)
    <3>1. (i + 1) - 1 = i
      OBVIOUS
    <3> QED
      BY <2>1, <3>1 DEF LiveAt
  <2> HIDE DEF m
  <2>3. next <= m.is
    BY <1>1, <2>2
  <2>4. \A j \in 1..(i - 1) : rest[j] = box[j + 1] /\ j + 1 \in 1..i
    BY <1>1
  <2>5. ASSUME NEW k \in (next + 1)..m.is
        PROVE  \E j \in 1..(i - 1) : rest[j] = Record(k)
    <3>1. PICK j \in 1..i : box[j] = Record(k)
      BY <2>2
    <3>2. j # 1
      <4>1. Record(k).is = k /\ IsRecord(Record(k))
        BY DEF Record, IsRecord
      <4> QED
        BY <1>1, <3>1, <4>1
    <3>3. j - 1 \in 1..(i - 1) /\ (j - 1) + 1 = j
      BY <3>2
    <3> QED
      BY <2>4, <3>1, <3>3
  <2> QED
    BY <2>1, <2>2, <2>3, <2>4, <2>5
<1>3. LiveAt(rest, next, got)
  BY <1>2 DEF LiveAt
<1> QED
  BY <1>3 DEF rest

LEMMA LastSays ==
  ASSUME NEW S, NEW box \in Seq(S), NEW m \in S, NEW kind, NEW was, NEW now
  PROVE  /\ m.kind = kind => LastIs(Append(box, m), kind, was, m.is)
         /\ m.kind # kind /\ LastIs(box, kind, was, now) => LastIs(Append(box, m), kind, was, now)
<1> DEFINE new == Append(box, m)
<1>1. /\ Len(new) = Len(box) + 1 /\ new[Len(box) + 1] = m /\ Len(box) \in Nat
      /\ \A i \in 1..Len(box) : new[i] = box[i]
  OBVIOUS
<1> HIDE DEF new
<1>2. ASSUME m.kind = kind PROVE LastIs(new, kind, was, m.is)
  <2>1. Len(new) \in 1..Len(new) /\ (Len(new) + 1)..Len(new) = {} /\ new[Len(new)] = m
    BY <1>1
  <2> QED
    BY <1>2, <2>1 DEF LastIs
<1>3. ASSUME m.kind # kind, LastIs(box, kind, was, now) PROVE LastIs(new, kind, was, now)
  <2>1. CASE was = now /\ \A i \in 1..Len(box) : box[i].kind # kind
    <3>1. \A i \in 1..Len(new) : new[i].kind # kind
      BY <1>1, <1>3, <2>1
    <3> QED
      BY <2>1, <3>1 DEF LastIs
  <2>2. ASSUME NEW i \in 1..Len(box), box[i].kind = kind, box[i].is = now,
               \A j \in (i + 1)..Len(box) : box[j].kind # kind
        PROVE  LastIs(new, kind, was, now)
    <3>1. i \in 1..Len(new) /\ new[i] = box[i]
      BY <1>1
    <3>2. \A j \in (i + 1)..Len(new) : new[j].kind # kind
      BY <1>1, <1>3, <2>2
    <3> QED
      BY <2>2, <3>1, <3>2 DEF LastIs
  <2> QED
    BY <1>3, <2>1, <2>2 DEF LastIs
<1> QED
  BY <1>2, <1>3 DEF new

LEMMA LastReads ==
  ASSUME NEW S, NEW box \in Seq(S), box # <<>>, NEW kind, NEW was, NEW now,
         LastIs(box, kind, was, now)
  PROVE  LastIs(Tail(box), kind, IF Head(box).kind = kind THEN Head(box).is ELSE was, now)
<1> DEFINE rest == Tail(box)
<1>1. /\ Head(box) = box[1] /\ Len(box) \in Nat \ {0} /\ Len(rest) = Len(box) - 1
      /\ \A i \in 1..Len(rest) : rest[i] = box[i + 1] /\ i + 1 \in 1..Len(box)
  OBVIOUS
<1> HIDE DEF rest
<1>2. CASE was = now /\ \A i \in 1..Len(box) : box[i].kind # kind
  BY <1>1, <1>2 DEF LastIs
<1>3. ASSUME NEW i \in 1..Len(box), box[i].kind = kind, box[i].is = now,
             \A j \in (i + 1)..Len(box) : box[j].kind # kind
      PROVE  LastIs(rest, kind, IF Head(box).kind = kind THEN Head(box).is ELSE was, now)
  <2>1. CASE i = 1
    <3>1. \A j \in 1..Len(rest) : rest[j].kind # kind
      BY <1>1, <1>3, <2>1
    <3> QED
      BY <1>1, <1>3, <2>1, <3>1 DEF LastIs
  <2>2. CASE i # 1
    <3>1. i - 1 \in 1..Len(rest) /\ rest[i - 1] = box[i]
      BY <1>1, <2>2
    <3>2. \A j \in ((i - 1) + 1)..Len(rest) : rest[j].kind # kind
      BY <1>1, <1>3
    <3> QED
      BY <1>3, <3>1, <3>2 DEF LastIs
  <2> QED
    BY <2>1, <2>2
<1> QED
  BY <1>2, <1>3 DEF LastIs, rest

LEMMA DoingsOf ==
  ASSUME NEW a \in Seq(Frame), NEW b \in Seq(Frame)
  PROVE  Doings(a \o b) = Doings(a) \cup Doings(b)
<1> DEFINE c == a \o b
<1>1. /\ Len(c) = Len(a) + Len(b) /\ Len(a) \in Nat /\ Len(b) \in Nat
      /\ \A i \in 1..Len(a) : c[i] = a[i] /\ i \in 1..Len(c)
      /\ \A j \in 1..Len(b) : c[Len(a) + j] = b[j] /\ Len(a) + j \in 1..Len(c)
  OBVIOUS
<1> HIDE DEF c
<1>2. Doings(a) \subseteq Doings(c) /\ Doings(b) \subseteq Doings(c)
  BY <1>1 DEF Doings
<1>3. ASSUME NEW i \in 1..Len(c) PROVE c[i] \in Doings(a) \cup Doings(b)
  <2>1. CASE i <= Len(a)
    BY <1>1, <2>1 DEF Doings
  <2>2. CASE i > Len(a)
    <3>1. i - Len(a) \in 1..Len(b) /\ Len(a) + (i - Len(a)) = i
      BY <1>1, <2>2
    <3> QED
      BY <1>1, <3>1 DEF Doings
  <2> QED
    BY <1>1, <2>1, <2>2
<1>4. Doings(c) \subseteq Doings(a) \cup Doings(b)
  BY <1>3 DEF Doings
<1> QED
  BY <1>2, <1>4 DEF c

LEMMA DoingsFrom ==
  ASSUME NEW t \in Seq(Frame), t # <<>>
  PROVE  Doings(t) = {Head(t)} \cup Doings(Tail(t)) /\ Doings(t) \subseteq Frame
<1> DEFINE rest == Tail(t)
<1>1. /\ Head(t) = t[1] /\ Len(t) \in Nat \ {0} /\ Len(rest) = Len(t) - 1
      /\ \A i \in 1..Len(rest) : rest[i] = t[i + 1] /\ i + 1 \in 1..Len(t)
      /\ \A i \in 1..Len(t) : t[i] \in Frame
  OBVIOUS
<1> HIDE DEF rest
<1>2. {Head(t)} \cup Doings(rest) \subseteq Doings(t) /\ Doings(t) \subseteq Frame
  BY <1>1 DEF Doings
<1>3. ASSUME NEW i \in 1..Len(t), i # 1 PROVE t[i] \in Doings(rest)
  <2>1. i - 1 \in 1..Len(rest) /\ (i - 1) + 1 = i
    BY <1>1, <1>3
  <2> QED
    BY <1>1, <2>1 DEF Doings
<1>4. Doings(t) \subseteq {Head(t)} \cup Doings(rest)
  BY <1>1, <1>3 DEF Doings
<1> QED
  BY <1>2, <1>4 DEF rest

LEMMA DoingsNone == Doings(<<>>) = {}
  BY DEF Doings

LEMMA DoingsGo ==
  ASSUME NEW fs \in SUBSET Frontend, NEW keep \in BOOLEAN
  PROVE  /\ ToLetGo(fs, keep) \in Seq(Frame)
         /\ \A x \in Doings(ToLetGo(fs, keep)) : x.do = "let go"
<1>1. CASE fs = {}
  BY <1>1, Frames, DoingsNone DEF ToLetGo
<1>2. CASE fs # {}
  <2> DEFINE frame == [do |-> "let go", of |-> fs, keep |-> keep]
  <2>1. ToLetGo(fs, keep) = <<frame>> /\ frame.do = "let go"
    BY <1>2 DEF ToLetGo
  <2> HIDE DEF frame
  <2>2. Doings(<<frame>>) = {frame}
    BY DEF Doings
  <2> QED
    BY <2>1, <2>2, Frames
<1> QED
  BY <1>1, <1>2

\* Once the first thing to do is done, the others remain, after what it gives to do.
LEMMA Onward ==
  ASSUME IInv, todo # <<>>, Head(todo).do # "welcome", NEW a \in Seq(Frame),
         \A x \in Doings(a) : x.do # "welcome" /\ (x.do = "clients" => x.but = None),
         todo' = a \o Tail(todo), elided' = elided, told' = told, Owed
  PROVE  /\ Owed'
         /\ \A f \in Frontend : Awaits(f)' <=> Awaits(f)
         /\ Doings(todo) \subseteq {Head(todo)} \cup Doings(todo')
         /\ Doings(a) \subseteq Doings(todo')
<1>1. todo \in Seq(Frame) /\ Tail(todo) \in Seq(Frame)
  BY After DEF IInv, Welcoming
<1>2. /\ Doings(todo') = Doings(a) \cup Doings(Tail(todo))
      /\ Doings(todo) = {Head(todo)} \cup Doings(Tail(todo)) /\ Doings(todo) \subseteq Frame
  BY <1>1, DoingsOf, DoingsFrom
<1>3. \A f \in Frontend : ToWelcome(f).do = "welcome"
  BY DEF ToWelcome
<1>4. \A f \in Frontend : Awaits(f)' <=> Awaits(f)
  BY <1>2, <1>3 DEF Awaits
<1>5. ASSUME NEW x \in Doings(todo'), x.do = "clients", x.but # None PROVE Awaits(x.but)'
  <2>1. x \in Doings(Tail(todo)) /\ x \in Doings(todo) /\ x \in Frame
    BY <1>2, <1>5
  <2>2. x.but \in Frontend /\ Awaits(x.but)
    BY <1>5, <2>1, Typed DEF Owed
  <2> QED
    BY <1>4, <2>2
<1>6. Owed'
  BY <1>4, <1>5 DEF Owed
<1> QED
  BY <1>2, <1>4, <1>6

\* Saying something but that one is live leaves who is told that to be told all up to there.
LEMMA LivesSaid ==
  ASSUME IInv, Lives, NEW m \in Message, m.kind # "live", NEW to \in SUBSET Frontend,
         outbox' = [f \in Frontend |-> IF f \in to THEN Append(outbox[f], m) ELSE outbox[f]],
         told' = told
  PROVE  Lives'
<1> SUFFICES ASSUME NEW f \in Frontend PROVE LiveAt(outbox'[f], told[f].seq, told[f].from)
  BY DEF Lives
<1>1. outbox[f] \in Seq(Message) /\ LiveAt(outbox[f], told[f].seq, told[f].from)
  BY DEF IInv, TypeOK, Lives
<1>2. CASE f \in to
  <2>1. outbox'[f] = Append(outbox[f], m)
    BY <1>2
  <2> QED
    BY <1>1, <2>1, LivesOn
<1>3. CASE f \notin to
  BY <1>1, <1>3
<1> QED
  BY <1>2, <1>3

\* Steps that say nothing, and nobody comes or goes.
LEMMA StandsStill ==
  ASSUME Standing, UNCHANGED <<elided, snaps, presence, owner, todo, outbox, told>>
  PROVE  Standing'
BY DEF Standing, Lives, Owed, ToSay, Said, Informed, Awaits, Here

\* Steps that say nothing, but take the lock and find something to do.
LEMMA StandsFree ==
  ASSUME Standing, todo = <<>>, UNCHANGED <<elided, snaps, presence, outbox, told>>,
         \A x \in Doings(todo') : x.do \notin {"welcome", "clients"},
         owner' = owner \/ \E x \in Doings(todo') : x.do = "claims"
  PROVE  Standing'
<1>1. Doings(todo) = {}
  BY DoingsNone
<1>2. \A f : ~Awaits(f) /\ ~Awaits(f)'
  BY <1>1 DEF Awaits, ToWelcome
<1>3. snaps.clients = Here /\ snaps.claims = owner
  BY <1>1 DEF Standing, ToSay
<1>4. Here' = Here
  BY DEF Here
<1>5. Owed'
  BY <1>2 DEF Owed
<1>6. ToSay'
  BY <1>3, <1>4 DEF ToSay
<1>7. Lives'
  BY DEF Standing, Lives
<1>8. Said'
  BY <1>2, <1>4 DEF Standing, Said, Informed
<1> QED
  BY <1>5, <1>6, <1>7, <1>8 DEF Standing

LEMMA StandsFirst == Init => Standing
<1> SUFFICES ASSUME Init PROVE Standing
  OBVIOUS
<1> USE DEF Init
<1>1. Doings(todo) = {} /\ Here = {}
  BY DoingsNone DEF Here
<1>2. Lives
  BY DEF Lives, LiveAt
<1> QED
  BY <1>1, <1>2 DEF Standing, Owed, ToSay, Said, Awaits

LEMMA StandsHappens == IInv /\ Standing /\ Happens => Standing'
<1> SUFFICES ASSUME IInv, Standing, Happens PROVE Standing'
  OBVIOUS
<1> DEFINE m == Record(seq + 1)
<1>1. /\ todo = <<>> /\ seq < MaxSeq
      /\ Broadcast(m, None, <<>>)
      /\ UNCHANGED <<snaps, presence, owner, told>>
  BY DEF Happens, Free, threadVars
<1>2. m \in Message /\ m.kind = "record"
  <2>1. seq + 1 \in 1..MaxSeq
    BY <1>1, DeliveryAssumption DEF IInv, TypeOK
  <2> QED
    BY <2>1, Messages DEF Record
<1> HIDE DEF m
<1>3. <<>> \in Seq(Frame)
  OBVIOUS
<1>4. /\ outbox' = [f \in Frontend |->
                      IF f \in Here \ {None} THEN Append(outbox[f], m) ELSE outbox[f]]
      /\ \E fs \in SUBSET Frontend : todo' = ToLetGo(fs, FALSE) \o <<>>
  BY <1>1, <1>3, Broadcasts
<1>5. Lives'
  <2>1. Here \ {None} \in SUBSET Frontend
    BY DEF Here
  <2> QED
    BY <1>1, <1>2, <1>4, <2>1, LivesSaid DEF Standing
<1>6. Here' = Here
  BY <1>1 DEF Here
<1>7. Doings(todo) = {} /\ \A x \in Doings(todo') : x.do = "let go"
  <2>1. PICK fs \in SUBSET Frontend : todo' = ToLetGo(fs, FALSE) \o <<>>
    BY <1>4
  <2>2. ToLetGo(fs, FALSE) \in Seq(Frame)
    BY DoingsGo
  <2>3. todo' = ToLetGo(fs, FALSE)
    BY <2>1, <2>2
  <2> QED
    BY <1>1, <2>3, DoingsGo, DoingsNone
<1>8. \A f : ~Awaits(f) /\ ~Awaits(f)'
  BY <1>7 DEF Awaits, ToWelcome
<1>9. Owed'
  BY <1>7, <1>8 DEF Owed
<1>10. ToSay'
  BY <1>1, <1>6, <1>7 DEF Standing, ToSay
<1>11. ASSUME NEW f \in Here PROVE Informed(f)'
  <2>1. f \in Frontend /\ outbox[f] \in Seq(Message) /\ Informed(f)
    BY <1>8 DEF Here, IInv, TypeOK, Standing, Said
  <2>2. outbox'[f] = Append(outbox[f], m) \/ outbox'[f] = outbox[f]
    BY <1>4, <2>1
  <2>3. CASE outbox'[f] = Append(outbox[f], m)
    BY <1>1, <1>2, <2>1, <2>3, LastSays DEF Informed
  <2>4. CASE outbox'[f] = outbox[f]
    BY <1>1, <2>1, <2>4 DEF Informed
  <2> QED
    BY <2>2, <2>3, <2>4
<1>12. Said'
  BY <1>6, <1>11 DEF Said
<1> QED
  BY <1>5, <1>9, <1>10, <1>12 DEF Standing

\* What is said of how one kind of state stands, to those attached but one that is to be welcomed.
LEMMA StandsSnap ==
  ASSUME IInv, Standing, NEW kind \in {"clients", "claims"}, NEW m \in Message, m.kind = kind,
         todo # <<>>, Head(todo).do = kind, NEW but,
         kind = "clients" => but = Head(todo).but,
         kind = "claims" => but = None,
         Broadcast(m, but, Tail(todo)),
         kind = "clients" => snaps'.clients = m.is /\ m.is = Here /\ snaps'.claims = snaps.claims,
         kind = "claims" => snaps'.claims = m.is /\ m.is = owner /\ snaps'.clients = snaps.clients,
         UNCHANGED <<elided, presence, owner, told>>
  PROVE  Standing'
<1>1. todo \in Seq(Frame) /\ Tail(todo) \in Seq(Frame) /\ Head(todo) \in Doings(todo)
  BY After, DoingsFrom DEF IInv, Welcoming
<1>2. /\ outbox' = [f \in Frontend |->
                      IF f \in Here \ {but} THEN Append(outbox[f], m) ELSE outbox[f]]
      /\ \E fs \in SUBSET Frontend : todo' = ToLetGo(fs, FALSE) \o Tail(todo)
  BY <1>1, Broadcasts
<1>3. PICK fs \in SUBSET Frontend : todo' = ToLetGo(fs, FALSE) \o Tail(todo)
  BY <1>2
<1>4. /\ ToLetGo(fs, FALSE) \in Seq(Frame)
      /\ \A x \in Doings(ToLetGo(fs, FALSE)) : x.do = "let go"
  BY DoingsGo
<1>5. /\ Owed'
      /\ \A f \in Frontend : Awaits(f)' <=> Awaits(f)
      /\ Doings(todo) \subseteq {Head(todo)} \cup Doings(todo')
  BY <1>3, <1>4, Onward DEF Standing
<1>6. Here' = Here
  BY DEF Here
<1>7. ToSay'
  BY <1>5, <1>6 DEF Standing, ToSay
<1>8. Lives'
  <2>1. Here \ {but} \in SUBSET Frontend
    BY DEF Here
  <2> QED
    BY <1>2, <2>1, LivesSaid DEF Standing
<1>9. ASSUME NEW f \in Here, ~Awaits(f) PROVE Informed(f)'
  <2>1. f \in Frontend /\ outbox[f] \in Seq(Message) /\ Informed(f)
    BY <1>9 DEF Here, IInv, TypeOK, Standing, Said
  <2>2. f # but
    BY <1>1, <1>9, <2>1, DeliveryAssumption DEF Standing, Owed
  <2>3. outbox'[f] = Append(outbox[f], m)
    BY <1>2, <1>9, <2>1, <2>2
  <2>4. CASE kind = "clients"
    BY <2>1, <2>3, <2>4, LastSays DEF Informed
  <2>5. CASE kind = "claims"
    BY <2>1, <2>3, <2>5, LastSays DEF Informed
  <2> QED
    BY <2>4, <2>5
<1>10. Said'
  <2>1. Here \subseteq Frontend
    BY DEF Here
  <2> QED
    BY <1>5, <1>6, <1>9, <2>1 DEF Said
<1> QED
  BY <1>5, <1>7, <1>8, <1>10 DEF Standing

\* The first thing to do done, with nothing said: it is as it was last said, or was no saying.
LEMMA StandsDone ==
  ASSUME IInv, Standing, todo # <<>>, todo' = Tail(todo),
         UNCHANGED <<elided, snaps, presence, owner, outbox, told>>,
         Head(todo).do # "welcome",
         Head(todo).do = "clients" => snaps.clients = Here,
         Head(todo).do = "claims" => snaps.claims = owner
  PROVE  Standing'
<1>1. todo \in Seq(Frame) /\ Tail(todo) \in Seq(Frame)
  BY After DEF IInv, Welcoming
<1>2. <<>> \in Seq(Frame) /\ <<>> \o Tail(todo) = Tail(todo) /\ Doings(<<>>) = {}
  BY <1>1, DoingsNone
<1>3. /\ Owed'
      /\ \A f \in Frontend : Awaits(f)' <=> Awaits(f)
      /\ Doings(todo) \subseteq {Head(todo)} \cup Doings(todo')
  BY <1>2, Onward DEF Standing
<1>4. Here' = Here /\ Here \subseteq Frontend
  BY DEF Here
<1>5. ToSay'
  BY <1>3, <1>4 DEF Standing, ToSay
<1>6. Lives'
  BY DEF Standing, Lives
<1>7. Said'
  BY <1>3, <1>4 DEF Standing, Said, Informed
<1> QED
  BY <1>3, <1>5, <1>6, <1>7 DEF Standing

LEMMA StandsSnapClients == IInv /\ Standing /\ SnapClients => Standing'
<1> SUFFICES ASSUME IInv, Standing, SnapClients PROVE Standing'
  OBVIOUS
<1>1. /\ todo # <<>> /\ Head(todo).do = "clients"
      /\ UNCHANGED <<elided, presence, owner, told>>
  BY DEF SnapClients, threadVars
<1>2. CASE snaps.clients = Here
  <2>1. todo' = Tail(todo) /\ UNCHANGED <<snaps, outbox>>
    BY <1>2 DEF SnapClients
  <2> QED
    BY <1>1, <1>2, <2>1, StandsDone
<1>3. CASE snaps.clients # Here
  <2> DEFINE m == Clients(Here)
  <2>1. m \in Message /\ m.kind = "clients" /\ m.is = Here
    BY Messages DEF Here, Clients
  <2> HIDE DEF m
  <2>2. snaps' = [snaps EXCEPT !.clients = Here] /\ Broadcast(m, Head(todo).but, Tail(todo))
    BY <1>3 DEF SnapClients, m
  <2>3. snaps'.clients = Here /\ snaps'.claims = snaps.claims
    BY <2>2 DEF IInv, TypeOK
  <2> QED
    BY <1>1, <2>1, <2>2, <2>3, StandsSnap
<1> QED
  BY <1>2, <1>3

LEMMA StandsSnapClaims == IInv /\ Standing /\ SnapClaims => Standing'
<1> SUFFICES ASSUME IInv, Standing, SnapClaims PROVE Standing'
  OBVIOUS
<1>1. /\ todo # <<>> /\ Head(todo).do = "claims"
      /\ UNCHANGED <<elided, presence, owner, told>>
  BY DEF SnapClaims, threadVars
<1>2. CASE snaps.claims = owner
  <2>1. todo' = Tail(todo) /\ UNCHANGED <<snaps, outbox>>
    BY <1>2 DEF SnapClaims
  <2> QED
    BY <1>1, <1>2, <2>1, StandsDone
<1>3. CASE snaps.claims # owner
  <2> DEFINE m == Claims(owner)
  <2>1. m \in Message /\ m.kind = "claims" /\ m.is = owner
    BY Messages DEF Claims, IInv, TypeOK
  <2> HIDE DEF m
  <2>2. snaps' = [snaps EXCEPT !.claims = owner] /\ Broadcast(m, None, Tail(todo))
    BY <1>3 DEF SnapClaims, m
  <2>3. snaps'.claims = owner /\ snaps'.clients = snaps.clients
    BY <2>2 DEF IInv, TypeOK
  <2> QED
    BY <1>1, <2>1, <2>2, <2>3, StandsSnap
<1> QED
  BY <1>2, <1>3

LEMMA StandsShut == IInv /\ Standing /\ Shut => Standing'
<1> SUFFICES ASSUME IInv, Standing, Shut PROVE Standing'
  OBVIOUS
<1>1. /\ todo # <<>> /\ Head(todo).do = "shut" /\ todo' = Tail(todo)
      /\ UNCHANGED <<elided, snaps, presence, owner, outbox, told>>
  BY DEF Shut, threadVars
<1> QED
  BY <1>1, StandsDone

LEMMA StandsAttach == IInv /\ Standing /\ (\E f \in Frontend : Attach(f)) => Standing'
<1> SUFFICES ASSUME IInv, Standing, NEW f \in Frontend, Attach(f) PROVE Standing'
  OBVIOUS
<1>1. /\ todo = <<>> /\ presence' = [presence EXCEPT ![f] = "here"]
      /\ outbox' = [outbox EXCEPT ![f] = Replay]
      /\ todo' = <<ToSnapClients(f), ToWelcome(f)>>
      /\ told' = [told EXCEPT ![f].seq = elided, ![f].from = elided]
      /\ UNCHANGED <<elided, snaps, owner>>
  BY DEF Attach, Free
<1>2. /\ presence \in [Frontend -> {"new", "here", "gone"}]
      /\ outbox \in [Frontend -> Seq(Message)]
      /\ told \in [Frontend -> [seq : 0..MaxSeq, from : 0..MaxSeq, clients : SUBSET Frontend,
                                claims : Frontend \cup {None}, gone : BOOLEAN]]
      /\ seq \in Nat /\ elided \in 0..seq
  BY DeliveryAssumption DEF IInv, TypeOK
<1>3. \A g \in Frontend \ {f} :
        told'[g] = told[g] /\ outbox'[g] = outbox[g] /\ presence'[g] = presence[g]
  BY <1>1, <1>2
<1>4. told'[f].from = elided /\ outbox'[f] = Replay
  BY <1>1, <1>2
<1>5. Doings(todo) = {} /\ Doings(todo') = {ToSnapClients(f), ToWelcome(f)}
  BY <1>1, DoingsNone DEF Doings
<1>6. /\ ToSnapClients(f).do = "clients" /\ ToSnapClients(f).but = f
      /\ \A g : ToWelcome(g).do = "welcome" /\ ToWelcome(g).of = g
  BY DEF ToSnapClients, ToWelcome
<1>7. \A g : ~Awaits(g) /\ (Awaits(g)' <=> g = f)
  BY <1>5, <1>6 DEF Awaits
<1>8. Owed'
  BY <1>1, <1>4, <1>5, <1>6, <1>7 DEF Owed
<1>9. ToSay'
  BY <1>1, <1>5, <1>6 DEF Standing, ToSay
<1>10. Lives'
  <2>1. \A i \in 1..Len(Replay) : Replay[i].kind = "record"
    BY <1>2 DEF Replay, Record
  <2>2. LiveAt(Replay, told'[f].seq, told'[f].from)
    BY <2>1 DEF LiveAt
  <2> QED
    BY <1>3, <1>4, <2>2 DEF Standing, Lives
<1>11. Said'
  <2>1. ASSUME NEW g \in Here', g # f PROVE Informed(g)'
    <3>1. g \in Frontend /\ g \in Here
      BY <1>3, <2>1 DEF Here
    <3>2. Informed(g)
      BY <1>7, <3>1 DEF Standing, Said
    <3> QED
      BY <1>1, <1>3, <2>1, <3>1, <3>2 DEF Informed
  <2> QED
    BY <1>7, <2>1 DEF Said
<1> QED
  BY <1>8, <1>9, <1>10, <1>11 DEF Standing

LEMMA StandsWelcome == IInv /\ Standing /\ Welcome => Standing'
<1> SUFFICES ASSUME IInv, Standing, Welcome PROVE Standing'
  OBVIOUS
<1>0. PICK f : f = Head(todo).of
  OBVIOUS
<1> DEFINE a == Clients(snaps.clients)
           b == Claims(snaps.claims)
           c == Live(seq, elided)
<1>1. /\ todo # <<>> /\ Head(todo).do = "welcome" /\ todo' = Tail(todo)
      /\ outbox' = [outbox EXCEPT ![f] = IF f \in Here THEN @ \o <<a, b, c>> ELSE @]
      /\ UNCHANGED <<elided, snaps, presence, owner, told>>
  BY <1>0 DEF Welcome
<1>2. f \in Frontend /\ todo' = <<>> /\ Doings(todo) = {ToWelcome(f)}
  <2>1. todo \in Seq(Frame) /\ Head(todo) = todo[1] /\ 1 \in 1..Len(todo) /\ Head(todo) \in Frame
    BY <1>1, After DEF IInv, Welcoming
  <2>2. 1 = Len(todo)
    BY <1>1, <2>1 DEF IInv, Welcoming
  <2>3. f \in Frontend
    BY <1>0, <1>1, <2>1, Typed
  <2>4. Tail(todo) = <<>>
    BY <1>1, <2>1, <2>2
  <2>5. Head(todo) = ToWelcome(f)
    <3>1. Head(todo) \in [do : {"welcome"}, of : Frontend]
      BY <1>1, <2>1 DEF Frame
    <3> QED
      BY <1>0, <3>1 DEF ToWelcome
  <2> QED
    BY <1>1, <2>1, <2>3, <2>4, <2>5, DoingsFrom, DoingsNone
<1>3. Doings(todo') = {}
  BY <1>2, DoingsNone
<1>4. /\ a \in Message /\ b \in Message /\ c \in Message
      /\ ~IsRecord(a) /\ ~IsRecord(b) /\ ~IsRecord(c)
  <2>1. /\ snaps.clients \in SUBSET Frontend /\ snaps.claims \in Frontend \cup {None}
        /\ seq \in 0..MaxSeq /\ elided \in 0..MaxSeq
    BY DeliveryAssumption DEF IInv, TypeOK
  <2> QED
    BY <2>1, Messages
<1>5. /\ a.kind = "clients" /\ a.is = snaps.clients
      /\ b.kind = "claims" /\ b.is = snaps.claims /\ c.kind = "live"
  BY DEF Clients, Claims, Live
<1> HIDE DEF a, b
<1>6. /\ outbox[f] \in Seq(Message) /\ told[f].seq \in Nat /\ seq \in Nat
      /\ Stream(outbox[f], told[f].seq, seq) /\ LiveAt(outbox[f], told[f].seq, told[f].from)
      /\ f \in Here => Whole(outbox[f], told[f].seq, seq)
  BY <1>2 DEF IInv, TypeOK, Streams, Standing, Lives
<1>7. told[f].from = elided
  BY <1>2 DEF Standing, Owed, Awaits
<1>8. \A g \in Frontend : g # f \/ f \notin Here => outbox'[g] = outbox[g]
  BY <1>1, <1>2 DEF IInv, TypeOK
<1>9. ASSUME f \in Here
      PROVE  LiveAt(outbox'[f], told[f].seq, elided) /\ Informed(f)'
  <2> DEFINE x == Append(outbox[f], a)
             y == Append(x, b)
             z == Append(y, c)
  <2>1. x \in Seq(Message)
    BY <1>4, <1>6, ThreeMore
  <2>2. y \in Seq(Message)
    BY <1>4, <1>6, ThreeMore
  <2>3. outbox'[f] = z
    <3>1. outbox'[f] = outbox[f] \o <<a, b, c>>
      BY <1>1, <1>2, <1>9 DEF IInv, TypeOK
    <3>2. a \in Message /\ b \in Message /\ c \in Message /\ outbox[f] \in Seq(Message)
      BY ONLY <1>4, <1>6
    <3> QED
      BY ONLY <3>1, <3>2, ThreeMore, SMTT(40)
  <2>4. /\ Stream(x, told[f].seq, seq) /\ Whole(x, told[f].seq, seq)
        /\ LiveAt(x, told[f].seq, elided)
    BY <1>4, <1>5, <1>6, <1>7, <1>9, StreamSays, LivesOn
  <2>5. \A was : LastIs(x, "clients", was, snaps.clients)
    BY <1>4, <1>5, <1>6, LastSays
  <2> HIDE DEF x
  <2>6. /\ Stream(y, told[f].seq, seq) /\ Whole(y, told[f].seq, seq)
        /\ LiveAt(y, told[f].seq, elided)
    BY <1>4, <1>5, <1>6, <2>1, <2>4, StreamSays, LivesOn
  <2>7. \A was : LastIs(y, "clients", was, snaps.clients) /\ LastIs(y, "claims", was, snaps.claims)
    BY <1>4, <1>5, <2>1, <2>5, LastSays
  <2> HIDE DEF y
  <2>8. LiveAt(z, told[f].seq, elided)
    BY <1>4, <1>6, <2>2, <2>6, LivesWelcome
  <2> HIDE DEF c
  <2>9. \A was : LastIs(z, "clients", was, snaps.clients) /\ LastIs(z, "claims", was, snaps.claims)
    BY <1>4, <1>5, <2>2, <2>7, LastSays
  <2> HIDE DEF z
  <2> QED
    BY <1>1, <2>3, <2>8, <2>9 DEF Informed
<1>10. Lives'
  BY <1>1, <1>7, <1>8, <1>9 DEF Standing, Lives
<1>11. ToSay'
  BY <1>1, <1>2 DEF Standing, ToSay, ToWelcome, Here
<1>12. Owed'
  BY <1>3 DEF Owed, Awaits
<1>13. Said'
  <2>1. Here' = Here /\ Here \subseteq Frontend
    BY <1>1 DEF Here
  <2>2. ASSUME NEW g \in Here, g # f PROVE Informed(g)'
    <3>1. ~Awaits(g)
      BY <1>2, <2>2 DEF Awaits, ToWelcome
    <3> QED
      BY <1>1, <1>8, <2>1, <2>2, <3>1 DEF Standing, Said, Informed
  <2> QED
    BY <1>9, <2>1, <2>2 DEF Said
<1> QED
  BY <1>10, <1>11, <1>12, <1>13 DEF Standing

\* What letting one go gives to do, before the others and whatever was next.
LEMMA GoneFirst ==
  ASSUME NEW go \in Seq(Frame), NEW next \in Seq(Frame)
  PROVE  /\ GoneSays \o go \in Seq(Frame)
         /\ GoneSays \o (go \o next) = (GoneSays \o go) \o next
         /\ Doings(GoneSays \o go) = {ToSnapClients(None), ToSnapClaims} \cup Doings(go)
<1> DEFINE a == GoneSays
<1>1. a \in Seq(Frame) /\ Doings(a) = {ToSnapClients(None), ToSnapClaims}
  <2>1. ToSnapClients(None) \in Frame /\ ToSnapClaims \in Frame
    BY Frames
  <2> QED
    BY <2>1 DEF GoneSays, Doings
<1> HIDE DEF a
<1>2. a \o go \in Seq(Frame) /\ a \o (go \o next) = (a \o go) \o next
  <2>1. a \in Seq(Frame) /\ go \in Seq(Frame) /\ next \in Seq(Frame)
    BY <1>1
  <2> QED
    BY ONLY <2>1, BeforeBoth, SMTT(40)
<1>3. Doings(a \o go) = Doings(a) \cup Doings(go)
  BY <1>1, DoingsOf
<1> QED
  BY <1>1, <1>2, <1>3 DEF a

LEMMA StandsLetGo == IInv /\ Standing /\ LetGo => Standing'
<1> SUFFICES ASSUME IInv, Standing, LetGo PROVE Standing'
  OBVIOUS
<1> DEFINE h == Head(todo)
<1>1. /\ todo # <<>> /\ h.do = "let go"
      /\ UNCHANGED <<elided, snaps, told>>
  BY DEF LetGo, threadVars
<1>2. /\ todo \in Seq(Frame) /\ Tail(todo) \in Seq(Frame)
      /\ h \in Frame /\ h.of \in SUBSET Frontend /\ h.keep \in BOOLEAN
  BY <1>1, After, Typed DEF IInv, Welcoming
<1>3. PICK f \in h.of :
        LET rest == ToLetGo(h.of \ {f}, h.keep) \o Tail(todo)
        IN IF f \notin Here THEN todo' = rest /\ UNCHANGED <<presence, owner, outbox>>
           ELSE /\ presence' = [presence EXCEPT ![f] = "gone"]
                /\ outbox' = [outbox EXCEPT ![f] = LastWords(f, h.keep)]
                /\ owner' = IF owner = f THEN None ELSE owner
                /\ todo' = GoneSays \o rest
  BY DEF LetGo
<1> HIDE DEF h
<1> DEFINE go == ToLetGo(h.of \ {f}, h.keep)
           rest == go \o Tail(todo)
<1>4. f \in Frontend /\ go \in Seq(Frame) /\ \A x \in Doings(go) : x.do = "let go"
  <2>1. h.of \ {f} \in SUBSET Frontend
    BY <1>2
  <2> QED
    BY <1>2, <1>3, <2>1, DoingsGo
<1>5. CASE f \notin Here
  <2>1. todo' = rest /\ UNCHANGED <<presence, owner, outbox>>
    BY <1>3, <1>5
  <2> HIDE DEF go
  <2>2. /\ Owed'
        /\ \A g \in Frontend : Awaits(g)' <=> Awaits(g)
        /\ Doings(todo) \subseteq {Head(todo)} \cup Doings(todo')
    BY <1>1, <1>4, <2>1, Onward DEF Standing, h
  <2>3. Here' = Here /\ Here \subseteq Frontend
    BY <2>1 DEF Here
  <2>4. ToSay'
    BY <1>1, <2>1, <2>2, <2>3 DEF Standing, ToSay, h
  <2>5. Lives'
    BY <1>1, <2>1 DEF Standing, Lives
  <2>6. Said'
    BY <1>1, <2>1, <2>2, <2>3 DEF Standing, Said, Informed
  <2> QED
    BY <2>2, <2>4, <2>5, <2>6 DEF Standing
<1>6. CASE f \in Here
  <2>1. /\ presence' = [presence EXCEPT ![f] = "gone"]
        /\ outbox' = [outbox EXCEPT ![f] = LastWords(f, h.keep)]
        /\ todo' = GoneSays \o rest
    BY <1>3, <1>6
  <2> HIDE DEF go
  <2>2. /\ ToSnapClients(None) \in Frame /\ ToSnapClients(None).do = "clients"
        /\ ToSnapClients(None).but = None
        /\ ToSnapClaims \in Frame /\ ToSnapClaims.do = "claims"
    BY Frames DEF ToSnapClients
  <2>3. go \in Seq(Frame) /\ Tail(todo) \in Seq(Frame)
    BY <1>2, <1>4
  <2>4. /\ GoneSays \o go \in Seq(Frame)
        /\ Doings(GoneSays \o go) = {ToSnapClients(None), ToSnapClaims} \cup Doings(go)
    BY <2>3, GoneFirst
  <2>5. todo' = (GoneSays \o go) \o Tail(todo)
    <3>1. GoneSays \o (go \o Tail(todo)) = (GoneSays \o go) \o Tail(todo)
      BY <2>3, GoneFirst
    <3> QED
      BY <2>1, <3>1
  <2>6. /\ Owed'
        /\ \A g \in Frontend : Awaits(g)' <=> Awaits(g)
        /\ Doings(GoneSays \o go) \subseteq Doings(todo')
    <3> DEFINE a == GoneSays \o go
    <3>1. \A x \in Doings(a) : x.do # "welcome" /\ (x.do = "clients" => x.but = None)
      BY <1>4, <2>2, <2>4
    <3> HIDE DEF a
    <3>2. a \in Seq(Frame) /\ todo' = a \o Tail(todo)
      BY <2>4, <2>5 DEF a
    <3>3. /\ Owed'
          /\ \A g \in Frontend : Awaits(g)' <=> Awaits(g)
          /\ Doings(a) \subseteq Doings(todo')
      BY <1>1, <3>1, <3>2, Onward DEF Standing, h
    <3> QED
      BY <3>3 DEF a
  <2>7. ToSay'
    BY <2>2, <2>4, <2>6 DEF ToSay
  <2>8. \A g \in Frontend \ {f} : presence'[g] = presence[g] /\ outbox'[g] = outbox[g]
    BY <2>1 DEF IInv, TypeOK
  <2>9. f \notin Here' /\ outbox'[f] = LastWords(f, h.keep)
    BY <1>4, <2>1 DEF IInv, TypeOK, Here
  <2>10. Lives'
    <3>1. /\ outbox[f] \in Seq(Message) /\ <<>> \in Seq(Message)
          /\ LiveAt(outbox[f], told[f].seq, told[f].from)
          /\ Gone \in Message /\ Gone.kind # "live"
      <4>1. outbox \in [Frontend -> Seq(Message)] /\ f \in Frontend
        BY <1>4 DEF IInv, TypeOK
      <4>2. Gone \in Message /\ Gone.kind # "live"
        <5>1. Gone \in Message
          BY Messages
        <5>2. Gone.kind # "live"
          BY DEF Gone
        <5> QED
          BY <5>1, <5>2
      <4> QED
        BY <4>1, <4>2 DEF Standing, Lives
    <3>2. LiveAt(<<>>, told[f].seq, told[f].from)
      BY DEF LiveAt
    <3>3. LiveAt(LastWords(f, h.keep), told[f].seq, told[f].from)
      BY <3>1, <3>2, LivesOn DEF LastWords
    <3> QED
      BY <1>1, <2>8, <2>9, <3>3 DEF Standing, Lives
  <2>11. Said'
    <3>1. ASSUME NEW g \in Here' PROVE Awaits(g)' \/ Informed(g)'
      <4>1. g \in Frontend \ {f} /\ g \in Here
        BY <2>8, <2>9, <3>1 DEF Here
      <4> QED
        BY <1>1, <2>6, <2>8, <4>1 DEF Standing, Said, Informed
    <3> QED
      BY <3>1 DEF Said
  <2> QED
    BY <2>6, <2>7, <2>10, <2>11 DEF Standing
<1> QED
  BY <1>5, <1>6

LEMMA StandsDetach == IInv /\ Standing /\ (\E f \in Frontend : Detach(f)) => Standing'
<1> SUFFICES ASSUME Standing, NEW f \in Frontend, Detach(f) PROVE Standing'
  OBVIOUS
<1>1. \A x \in Doings(todo') : x.do = "let go"
  BY DoingsGo DEF Detach
<1>2. todo = <<>> /\ UNCHANGED <<elided, snaps, presence, owner, outbox, told>>
  BY DEF Detach, Free, threadVars
<1> QED
  BY <1>1, <1>2, StandsFree

LEMMA StandsClose == IInv /\ Standing /\ Close => Standing'
<1> SUFFICES ASSUME Standing, Close PROVE Standing'
  OBVIOUS
<1>1. /\ todo' = ToLetGo(Here, TRUE) \o <<ToShut>>
      /\ ToLetGo(Here, TRUE) \in Seq(Frame)
      /\ \A x \in Doings(ToLetGo(Here, TRUE)) : x.do = "let go"
  BY DoingsGo DEF Close, Here
<1>2. <<ToShut>> \in Seq(Frame) /\ Doings(<<ToShut>>) = {ToShut} /\ ToShut.do = "shut"
  BY Frames DEF Doings
<1>3. Doings(todo') = Doings(ToLetGo(Here, TRUE)) \cup {ToShut}
  BY <1>1, <1>2, DoingsOf
<1>4. todo = <<>> /\ UNCHANGED <<elided, snaps, presence, owner, outbox, told>>
  BY DEF Close, Free, threadVars
<1> QED
  BY <1>1, <1>2, <1>3, <1>4, StandsFree

LEMMA StandsClaim == IInv /\ Standing /\ (\E f \in Frontend : Claim(f)) => Standing'
<1> SUFFICES ASSUME Standing, NEW f \in Frontend, Claim(f) PROVE Standing'
  OBVIOUS
<1>1. todo = <<>> /\ UNCHANGED <<elided, snaps, presence, outbox, told>>
  BY DEF Claim, Free, threadVars
<1>2. CASE todo' = <<ToSnapClaims>>
  <2>1. Doings(todo') = {ToSnapClaims} /\ ToSnapClaims.do = "claims"
    BY <1>2, Frames DEF Doings
  <2> QED
    BY <1>1, <2>1, StandsFree
<1>3. CASE UNCHANGED <<owner, todo>>
  BY <1>1, <1>3, StandsStill
<1> QED
  BY <1>2, <1>3 DEF Claim

LEMMA StandsTake == IInv /\ Standing /\ (\E f \in Frontend : Take(f)) => Standing'
<1> SUFFICES ASSUME IInv, Standing, NEW f \in Frontend, Take(f) PROVE Standing'
  OBVIOUS
<1> DEFINE box == outbox[f]
           m == Head(box)
           old == told[f]
           new == CASE m.kind = "record" -> [old EXCEPT !.seq = m.is]
                    [] m.kind = "clients" -> [old EXCEPT !.clients = m.is]
                    [] m.kind = "claims" -> [old EXCEPT !.claims = m.is]
                    [] m.kind = "live" -> old
                    [] m.kind = "gone" -> [old EXCEPT !.gone = TRUE]
<1>1. /\ box # <<>>
      /\ told' = [told EXCEPT ![f] = new]
      /\ outbox' = [outbox EXCEPT ![f] = Tail(box)]
      /\ UNCHANGED <<elided, snaps, presence, owner, todo>>
  BY DEF Take, hostVars
<1>2. /\ box \in Seq(Message) /\ outbox \in [Frontend -> Seq(Message)] /\ seq \in Nat
      /\ old \in [seq : 0..MaxSeq, from : 0..MaxSeq, clients : SUBSET Frontend,
                  claims : Frontend \cup {None}, gone : BOOLEAN]
      /\ old.seq \in Nat /\ Stream(box, old.seq, seq) /\ LiveAt(box, old.seq, old.from)
  BY DeliveryAssumption DEF IInv, TypeOK, Streams, Standing, Lives
<1>3. m \in Message /\ m.kind \in {"record", "clients", "claims", "live", "gone"}
  BY <1>1, <1>2, Kinds
<1>4. IsRecord(m) => m.is = old.seq + 1 /\ m = Record(old.seq + 1)
  <2>1. IsRecord(m) => m.is = old.seq + 1
    BY <1>1, <1>2, StreamReads
  <2>2. box[1] = m /\ 1 \in 1..Len(box)
    BY <1>1, <1>2
  <2>3. IsRecord(m) => m = Record(m.is)
    BY <1>2, <2>2 DEF Stream
  <2> QED
    BY <2>1, <2>3
<1> HIDE DEF m, box, old
<1>5. /\ new.from = old.from
      /\ new.seq = IF IsRecord(m) THEN old.seq + 1 ELSE old.seq
      /\ new.clients = IF m.kind = "clients" THEN m.is ELSE old.clients
      /\ new.claims = IF m.kind = "claims" THEN m.is ELSE old.claims
  <2>1. CASE m.kind = "record"
    BY <1>2, <1>4, <2>1 DEF IsRecord
  <2>2. CASE m.kind = "clients"
    BY <1>2, <2>2 DEF IsRecord
  <2>3. CASE m.kind = "claims"
    BY <1>2, <2>3 DEF IsRecord
  <2>4. CASE m.kind = "live"
    BY <1>2, <2>4 DEF IsRecord
  <2>5. CASE m.kind = "gone"
    BY <1>2, <2>5 DEF IsRecord
  <2> QED
    BY <1>3, <2>1, <2>2, <2>3, <2>4, <2>5
<1> HIDE DEF new
<1>6. /\ told'[f] = new /\ outbox'[f] = Tail(box)
      /\ \A g \in Frontend \ {f} : told'[g] = told[g] /\ outbox'[g] = outbox[g]
      /\ \A g \in Frontend : told'[g].from = told[g].from
  <2>1. /\ told'[f] = new /\ outbox'[f] = Tail(box)
        /\ \A g \in Frontend \ {f} : told'[g] = told[g] /\ outbox'[g] = outbox[g]
    BY <1>1, <1>2 DEF IInv, TypeOK
  <2> QED
    BY <1>5, <2>1 DEF old
<1>7. Lives'
  <2>1. LiveAt(Tail(box), new.seq, new.from)
    BY <1>1, <1>2, <1>4, <1>5, LivesRead DEF m
  <2> QED
    BY <1>6, <2>1 DEF Standing, Lives
<1>8. Here' = Here /\ \A g : Awaits(g)' <=> Awaits(g)
  BY <1>1 DEF Here, Awaits
<1>9. Owed'
  BY <1>1, <1>6, <1>8 DEF Standing, Owed
<1>10. ToSay'
  BY <1>1, <1>8 DEF Standing, ToSay
<1>11. ASSUME Informed(f) PROVE Informed(f)'
  <2>1. /\ LastIs(Tail(box), "clients", new.clients, snaps.clients)
        /\ LastIs(Tail(box), "claims", new.claims, snaps.claims)
    BY <1>1, <1>2, <1>5, <1>11, LastReads DEF Informed, box, old, m
  <2> QED
    BY <1>1, <1>6, <2>1 DEF Informed
<1>12. Said'
  <2>1. ASSUME NEW g \in Here, g # f, Informed(g) PROVE Informed(g)'
    <3>1. g \in Frontend \ {f}
      BY <2>1 DEF Here
    <3> QED
      BY <1>1, <1>6, <2>1, <3>1 DEF Informed
  <2> QED
    BY <1>8, <1>11, <2>1 DEF Standing, Said
<1> QED
  BY <1>7, <1>9, <1>10, <1>12 DEF Standing

LEMMA StandsByAll == IInv /\ Standing /\ [Next]_vars => Standing'
<1> SUFFICES ASSUME IInv, Standing, [Next]_vars PROVE Standing'
  OBVIOUS
<1>1. ASSUME NEW f \in Frontend, Asks(f) \/ Heard(f) PROVE Standing'
  BY <1>1, StandsStill DEF Asks, Heard, hostVars, threadVars
<1>2. ASSUME UNCHANGED vars PROVE Standing'
  BY <1>2, StandsStill DEF vars, hostVars, threadVars
<1> QED
  BY <1>1, <1>2, StandsHappens, StandsSnapClients, StandsSnapClaims, StandsShut, StandsAttach,
     StandsWelcome, StandsLetGo, StandsDetach, StandsClose, StandsClaim, StandsTake DEF Next, Locked

LEMMA Standings == Spec => [](IInv /\ Standing)
<1>1. Init => IInv /\ Standing
  BY Initial, StandsFirst
<1>2. IInv /\ Standing /\ [Next]_vars => (IInv /\ Standing)'
  BY KeptByAll, StandsByAll
<1> QED
  BY <1>1, <1>2, PTL DEF Spec

\* Whoever comes and whoever is let go in the middle of saying so, one with nothing more to be
\* told was told all that happened and how everything stands (_snap, _let_go, _broadcast).
THEOREM Freshness == Spec => []Current
<1>1. IInv /\ Standing => Current
  <2> SUFFICES ASSUME IInv, Standing, NEW f \in Here, Free, outbox[f] = <<>> PROVE UpToDate(f)
    BY DEF Current
  <2>1. Doings(todo) = {} /\ f \in Frontend
    BY DoingsNone DEF Free, Here
  <2>2. snaps.clients = Here /\ snaps.claims = owner /\ Informed(f)
    BY <2>1 DEF Standing, ToSay, Said, Awaits
  <2>3. told[f].clients = snaps.clients /\ told[f].claims = snaps.claims
    BY <2>2 DEF Informed, LastIs
  <2>4. Len(outbox[f]) = 0 /\ told[f].seq \in Nat /\ seq \in Nat /\ told[f].seq <= seq
    BY <2>1 DEF IInv, TypeOK, Streams, Whole
  <2>5. told[f].seq = seq
    BY <2>1, <2>4 DEF IInv, Streams, Whole
  <2> QED
    BY <2>2, <2>3, <2>5 DEF UpToDate
<1> QED
  BY <1>1, Standings, PTL

\* One that is told it is live was told all that happened up to there, but for what it is told it
\* was not (attach, _delivers).
THEOREM Exactness == Spec => []LiveIsExact
<1>1. IInv /\ Standing => LiveIsExact
  <2> SUFFICES ASSUME IInv, Standing, NEW f \in Frontend,
                      outbox[f] # <<>>, Head(outbox[f]).kind = "live"
               PROVE  Head(outbox[f]).is = told[f].seq /\ Head(outbox[f]).elided = told[f].from
    BY DEF LiveIsExact
  <2> DEFINE m == outbox[f][1]
  <2>1. /\ outbox[f] \in Seq(Message) /\ told[f].seq \in Nat
        /\ LiveAt(outbox[f], told[f].seq, told[f].from)
    BY DEF IInv, TypeOK, Standing, Lives
  <2>2. Head(outbox[f]) = m /\ 1 \in 1..Len(outbox[f]) /\ 1..(1 - 1) = {}
    BY <2>1
  <2>3. /\ m.elided = told[f].from /\ m.is \in Nat /\ told[f].seq <= m.is
        /\ (told[f].seq + 1)..m.is = {}
    BY <2>1, <2>2 DEF LiveAt
  <2> HIDE DEF m
  <2>4. m.is = told[f].seq
    BY <2>1, <2>3
  <2> QED
    BY <2>2, <2>3, <2>4
<1> QED
  BY <1>1, Standings, PTL

=============================================================================
