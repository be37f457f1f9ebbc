-------------------------- MODULE RendezvousProofs --------------------------
(***************************************************************************)
(* Proofs about Rendezvous, for any connections and any lengths of its     *)
(* waits: the two halves never disagree on how they are joined, and the    *)
(* broker implements Introduction.                                         *)
(*                                                                         *)
(* The argument runs from the broker outwards.  A meeting is joined        *)
(* directly only with the verdicts of both halves in it; a verdict is what *)
(* its half said, and a half is in one meeting only; what a half is told   *)
(* is how its meeting is joined, which never changes; and what it ends as  *)
(* is what it was told.  One connection at most is ever said OK on, and a  *)
(* half keeps no other.                                                    *)
(*                                                                         *)
(* That nothing is carried too early rests on the lengths of the waits:    *)
(* who gives the other up has waited longer than the other may take.       *)
(***************************************************************************)
EXTENDS Rendezvous, TLAPS

Inside == Thread \ {"away", "joining", "ended"}
Late == {"carrying", "splicing", "leaving", "popping", "forgetting", "ended"}

\* A half is in the meeting its thread has joined, and in no other; there are two at most.
InMeeting(r) == IF mine[r] = None THEN 0 ELSE 1
Books ==
  /\ made <= InMeeting("anchor") + InMeeting("serve")
  /\ \A r \in Role :
       /\ thread[r] \in Inside => mine[r] # None
       /\ thread[r] \in {"away", "joining"} => mine[r] = None
       /\ half[r] = "away" => thread[r] = "away"
  /\ \A p \in Pair : joined[p] # "open" => \E r \in Role : mine[r] = p

\* No wait outlasts its limit.
Clocks ==
  \A r \in Role :
    /\ thread[r] = "reading" => clock[r] <= ReadLimit(r)
    /\ thread[r] \in {"settling", "carrying"} => clock[r] <= Answering

\* What a half is told is how its meeting is joined, and what it ends as.
Told ==
  \A r \in Role :
    /\ thread[r] = "saying" => joined[mine[r]] # "open"
    /\ go[r] # "none" => thread[r] \in Late
    /\ go[r] \in {"direct", "relay"} => mine[r] # None /\ joined[mine[r]] = go[r]
    /\ half[r] \in {"direct", "relay"} => go[r] = half[r]

\* A verdict is what its half said, in its meeting; a direct meeting has both.
Votes ==
  /\ \A p \in Pair : \A r \in verdicts[p] : mine[r] = p /\ word[r] = "direct"
  /\ \A p \in Pair : joined[p] = "direct" => verdicts[p] = Role
  /\ \A r \in Role : half[r] \in {"away", "asking", "punching"} => word[r] = "none"

\* One connection is ever agreed on, and no half has another.
Grip ==
  /\ oked # {} => claimed
  /\ \A c, d \in oked : c = d
  /\ \A r \in Role :
       /\ word[r] = "direct" => reach[r] # None
       /\ word[r] = "none" => reach[r] = None
       /\ reach[r] # None => reach[r] \in won[r]

IInv == TypeOK /\ Books /\ Clocks /\ Told /\ Votes /\ Grip

LEMMA Initial == Init => IInv
<1> SUFFICES ASSUME Init PROVE IInv
  OBVIOUS
<1>1. TypeOK
  <2>1. /\ half \in [Role -> {"away", "direct", "relay", "failed"} \cup Going]
        /\ closed \in [Role -> BOOLEAN]
        /\ reach \in [Role -> Conn \cup {None}]
        /\ word \in [Role -> {"none", "direct", "alone"}]
        /\ won \in [Role -> SUBSET oked]
    BY DEF Init
  <2>2. /\ thread \in [Role -> Thread]
        /\ mine \in [Role -> Pair \cup {None}]
        /\ heard \in [Role -> BOOLEAN]
    BY DEF Init, Thread
  <2>3. clock \in [Role -> 0..(Punching + Answering)]
    <3>1. 0 \in 0..(Punching + Answering)
      BY TimesAssumption
    <3> QED
      BY <3>1 DEF Init
  <2>4. /\ halves \in [Pair -> SUBSET Role] /\ arrived \in [Pair -> SUBSET Role]
        /\ answered \in [Pair -> SUBSET Role] /\ told \in [Pair -> SUBSET Role]
        /\ verdicts \in [Pair -> SUBSET Role] /\ done \in [Pair -> BOOLEAN]
        /\ joined \in [Pair -> {"open", "direct", "relay"}]
    BY DEF Init
  <2>5. /\ peer \in [Role -> {"none", "window", "skip"}]
        /\ go \in [Role -> {"none", "direct", "relay", "no"}]
    BY DEF Init
  <2>6. offered \subseteq Conn /\ claimed \in BOOLEAN /\ oked \subseteq offered
    BY DEF Init
  <2>7. held \in Pair \cup {None} /\ made \in 0..2
    BY DEF Init
  <2> QED
    BY <2>1, <2>2, <2>3, <2>4, <2>5, <2>6, <2>7 DEF TypeOK
<1>2. Books
  BY NoneAssumption DEF Init, Books, Inside, InMeeting, Role
<1>3. Clocks
  BY TimesAssumption DEF Init, Clocks
<1>4. Told
  BY DEF Init, Told
<1>5. Votes
  BY DEF Init, Votes
<1>6. Grip
  BY DEF Init, Grip
<1> QED
  BY <1>1, <1>2, <1>3, <1>4, <1>5, <1>6 DEF IInv

\* What the halves and the connections between them do is nothing to the broker's state.
BrokerAlike == UNCHANGED <<lineVars, threadVars, bookVars, eventVars, pairVars>>

LEMMA BrokerTypes ==
  ASSUME TypeOK, BrokerAlike,
         half' \in [Role -> {"away", "direct", "relay", "failed"} \cup Going],
         closed' \in [Role -> BOOLEAN],
         reach' \in [Role -> Conn \cup {None}],
         word' \in [Role -> {"none", "direct", "alone"}],
         offered' \subseteq Conn, claimed' \in BOOLEAN, oked' \subseteq offered',
         won' \in [Role -> SUBSET oked']
  PROVE  TypeOK'
BY DEF TypeOK, BrokerAlike, lineVars, threadVars, bookVars, eventVars, pairVars

LEMMA BrokerBooks ==
  ASSUME Books, BrokerAlike, \A r \in Role : half'[r] = "away" => half[r] = "away"
  PROVE  Books' /\ (Clocks => Clocks')
<1>1. UNCHANGED <<made, mine, thread, joined, clock, peer>>
  BY DEF BrokerAlike, lineVars, threadVars, bookVars, pairVars
<1>2. InMeeting("anchor")' = InMeeting("anchor") /\ InMeeting("serve")' = InMeeting("serve")
  BY ONLY <1>1 DEF InMeeting
<1>3. Books'
  <2>1. made' <= InMeeting("anchor")' + InMeeting("serve")'
    BY ONLY <1>1, <1>2, Books DEF Books
  <2>2. /\ \A r \in Role :
             /\ thread'[r] \in Inside => mine'[r] # None
             /\ thread'[r] \in {"away", "joining"} => mine'[r] = None
             /\ half'[r] = "away" => thread'[r] = "away"
        /\ \A p \in Pair : joined'[p] # "open" => \E r \in Role : mine'[r] = p
    BY <1>1 DEF Books
  <2> QED
    BY ONLY <2>1, <2>2 DEF Books
<1>4. Clocks => Clocks'
  BY ONLY <1>1 DEF Clocks, ReadLimit
<1> QED
  BY <1>3, <1>4

LEMMA BrokerTold ==
  ASSUME Told, BrokerAlike,
         \A r \in Role : half'[r] \in {"direct", "relay"} => half'[r] = half[r]
  PROVE  Told'
<1>1. UNCHANGED <<go, mine, thread, joined>>
  BY DEF BrokerAlike, lineVars, threadVars, pairVars
<1> QED
  BY <1>1 DEF Told

LEMMA BrokerVotes ==
  ASSUME TypeOK, Votes, BrokerAlike,
         \A r \in Role : word[r] = "direct" => word'[r] = "direct",
         \A r \in Role : half'[r] \in {"away", "asking", "punching"} =>
           half[r] \in {"away", "asking", "punching"} /\ word'[r] = word[r]
  PROVE  Votes'
<1>1. UNCHANGED <<mine, verdicts, joined>>
  BY DEF BrokerAlike, threadVars, pairVars
<1>2. \A p \in Pair : \A r \in verdicts[p] : mine[r] = p /\ word[r] = "direct"
  BY DEF Votes
<1>3. \A p \in Pair : \A r \in verdicts'[p] : mine'[r] = p /\ word'[r] = "direct"
  <2>1. verdicts \in [Pair -> SUBSET Role]
    BY DEF TypeOK
  <2> QED
    BY <1>1, <1>2, <2>1
<1>4. \A p \in Pair : joined'[p] = "direct" => verdicts'[p] = Role
  BY <1>1 DEF Votes
<1>5. \A r \in Role : half'[r] \in {"away", "asking", "punching"} => word'[r] = "none"
  <2>1. \A r \in Role : half[r] \in {"away", "asking", "punching"} => word[r] = "none"
    BY ONLY Votes DEF Votes
  <2> QED
    BY <2>1
<1> QED
  BY ONLY <1>3, <1>4, <1>5 DEF Votes

LEMMA Step == IInv /\ [Next]_vars => IInv'
<1> SUFFICES ASSUME IInv, [Next]_vars PROVE IInv'
  OBVIOUS
<1> USE TimesAssumption, NoneAssumption DEF IInv, TypeOK
<1> USE DEF halfVars, greetVars, lineVars, threadVars, bookVars, eventVars, pairVars
<1>1. ASSUME NEW r \in Role, Dial(r) PROVE IInv'
  <2>1. TypeOK'
    BY <1>1 DEF Dial, Thread, Going, Role, Pair
  <2>2. Books'
    BY <1>1 DEF Dial, Books, Inside, Thread, InMeeting, Role, Pair
  <2>3. Clocks'
    BY <1>1 DEF Dial, Books, Clocks, ReadLimit
  <2>4. Told'
    BY <1>1 DEF Dial, Books, Inside, Thread, Told, Late
  <2>5. Votes'
    BY <1>1 DEF Dial, Books, Votes
  <2>6. Grip'
    BY <1>1 DEF Dial, Votes, Grip
  <2> QED
    BY <2>1, <2>2, <2>3, <2>4, <2>5, <2>6
<1>2. ASSUME NEW r \in Role, Punch(r) PROVE IInv'
  BY <1>2 DEF Punch, Role, Pair, Thread, Going, ReadLimit, Books, Clocks, Told, Votes, Grip,
     Inside, Late, InMeeting
<1>3. ASSUME NEW r \in Role, Punched(r) PROVE IInv'
  <2>1. BrokerAlike /\ UNCHANGED <<closed, greetVars>> /\ half[r] = "punching"
        /\ half' = [half EXCEPT ![r] = "answered"]
    BY ONLY <1>3 DEF Punched, BrokerAlike
  <2>2. \/ \E c \in won[r] : /\ reach' = [reach EXCEPT ![r] = c]
                             /\ word' = [word EXCEPT ![r] = "direct"]
        \/ reach' = reach /\ word' = [word EXCEPT ![r] = "alone"]
    BY ONLY <1>3 DEF Punched
  <2>3. TypeOK /\ Books /\ Clocks /\ Told /\ Votes /\ Grip
    BY DEF IInv
  <2>4. /\ half \in [Role -> {"away", "direct", "relay", "failed"} \cup Going]
        /\ word \in [Role -> {"none", "direct", "alone"}]
        /\ reach \in [Role -> Conn \cup {None}] /\ won \in [Role -> SUBSET oked]
        /\ oked \subseteq Conn
    BY DEF TypeOK
  <2>5. word[r] = "none"
    BY ONLY <2>1, <2>3, <1>3 DEF Votes
  <2>6. TypeOK'
    <3>1. half' \in [Role -> {"away", "direct", "relay", "failed"} \cup Going]
      BY ONLY <2>1, <2>4 DEF Going
    <3>2. reach' \in [Role -> Conn \cup {None}] /\ word' \in [Role -> {"none", "direct", "alone"}]
      BY ONLY <2>2, <2>4, <1>3
    <3> QED
      BY ONLY <2>1, <2>3, <3>1, <3>2, BrokerTypes DEF TypeOK, greetVars
  <2>7. Books' /\ Clocks' /\ Told'
    BY ONLY <2>1, <2>3, <2>4, BrokerBooks, BrokerTold
  <2>8. Votes'
    BY ONLY <2>1, <2>2, <2>3, <2>4, <2>5, BrokerVotes
  <2>9. Grip'
    BY ONLY <2>1, <2>2, <2>3, <2>4, <1>3, NoneAssumption DEF Grip, greetVars
  <2> QED
    BY ONLY <2>6, <2>7, <2>8, <2>9 DEF IInv
<1>4. ASSUME NEW r \in Role, Joined(r) PROVE IInv'
  <2>1. TypeOK'
    <3>1. half' \in [Role -> {"away", "direct", "relay", "failed"} \cup Going]
      <4>1. half' = [half EXCEPT ![r] = "direct"] \/ half' = [half EXCEPT ![r] = "relay"]
        BY ONLY <1>4 DEF Joined
      <4>2. half \in [Role -> {"away", "direct", "relay", "failed"} \cup Going]
        OBVIOUS
      <4> QED
        BY ONLY <4>1, <4>2
    <3>2. closed' \in [Role -> BOOLEAN]
      <4>1. closed' = [closed EXCEPT ![r] = TRUE] \/ closed' = closed
        BY ONLY <1>4 DEF Joined
      <4>2. closed \in [Role -> BOOLEAN]
        OBVIOUS
      <4> QED
        BY ONLY <4>1, <4>2
    <3>3. BrokerAlike /\ UNCHANGED <<reach, word, greetVars>>
      BY ONLY <1>4 DEF Joined, BrokerAlike
    <3> QED
      BY ONLY <3>1, <3>2, <3>3, IInv, BrokerTypes DEF IInv, TypeOK, greetVars
  <2>2. Books'
    BY <1>4 DEF Joined, Agreed, Books, Inside, Thread, InMeeting, Role, Pair
  <2>3. Clocks'
    BY <1>4 DEF Joined, Agreed, Books, Clocks, ReadLimit
  <2>4. Told'
    <3>1. UNCHANGED <<thread, joined, mine, go>>
      BY ONLY <1>4 DEF Joined, threadVars, pairVars, lineVars
    <3>2. \E how \in {"direct", "relay"} : go[r] = how /\ half' = [half EXCEPT ![r] = how]
      BY ONLY <1>4 DEF Joined, Agreed
    <3>3. half \in [Role -> {"away", "direct", "relay", "failed"} \cup Going]
      OBVIOUS
    <3> QED
      BY ONLY <3>1, <3>2, <3>3, <1>4, Told DEF Told
  <2>5. Votes'
    BY <1>4 DEF Joined, Agreed, Books, Votes
  <2>6. Grip'
    BY <1>4 DEF Joined, Agreed, Votes, Grip
  <2> QED
    BY <2>1, <2>2, <2>3, <2>4, <2>5, <2>6
<1>5. ASSUME NEW r \in Role, Quit(r) PROVE IInv'
  BY <1>5 DEF Quit, Role, Pair, Thread, Going, ReadLimit, Books, Clocks, Told, Votes, Grip,
     Inside, Late, InMeeting
<1>6. ASSUME NEW r \in Role, Finish(r) PROVE IInv'
  BY <1>6 DEF Finish, Role, Pair, Thread, Going, ReadLimit, Books, Clocks, Told, Votes, Grip,
     Inside, Late, InMeeting
<1>7. ASSUME NEW r \in Role, Join(r) PROVE IInv'
  <2>1. TypeOK'
    BY <1>7 DEF Join, At, Goes, Said, Thread, Role, Pair, Books, Inside, InMeeting
  <2>2. Books'
    <3>1. CASE r = "anchor"
      BY <1>7, <3>1 DEF Join, At, Goes, Said, Books, InMeeting, Inside, Thread, Role, Pair
    <3>2. CASE r = "serve"
      BY <1>7, <3>2 DEF Join, At, Goes, Said, Books, InMeeting, Inside, Thread, Role, Pair
    <3> QED
      BY <3>1, <3>2 DEF Role
  <2>3. Clocks'
    BY <1>7 DEF Join, At, Goes, Said, Books, Clocks, ReadLimit
  <2>4. Told'
    BY <1>7 DEF Join, At, Goes, Said, Books, Inside, Thread, Told, Late
  <2>5. Votes'
    BY <1>7 DEF Join, At, Goes, Said, Books, Votes
  <2>6. Grip'
    BY <1>7 DEF Join, At, Goes, Said, Votes, Grip
  <2> QED
    BY <2>1, <2>2, <2>3, <2>4, <2>5, <2>6
<1>8. ASSUME NEW r \in Role, Arrive(r) PROVE IInv'
  BY <1>8 DEF Arrive, Role, Pair, Thread, At, Goes, Going, ReadLimit, Books, Clocks, Told,
     Votes, Grip, Inside, Late, InMeeting
<1>9. ASSUME NEW r \in Role, Await(r) PROVE IInv'
  BY <1>9 DEF Await, Role, Pair, Thread, Opposite, At, Goes, Waits, Broken, Going, ReadLimit,
     Books, Clocks, Told, Votes, Grip, Inside, Late, InMeeting
<1>10. ASSUME NEW r \in Role, GiveUp(r) PROVE IInv'
  BY <1>10 DEF GiveUp, Role, Pair, Thread, Opposite, At, Goes, Said, Going, ReadLimit, Books,
     Clocks, Told, Votes, Grip, Inside, Late, InMeeting
<1>11. ASSUME NEW r \in Role, Hear(r) PROVE IInv'
  BY <1>11 DEF Hear, Role, Pair, Thread, At, Goes, Waits, Going, ReadLimit, Books, Clocks, Told,
     Votes, Grip, Inside, Late, InMeeting
<1>12. ASSUME NEW r \in Role, Silent(r) PROVE IInv'
  BY <1>12 DEF Silent, Role, Pair, Thread, At, Goes, Broken, Going, ReadLimit, Books, Clocks,
     Told, Votes, Grip, Inside, Late, InMeeting
<1>13. ASSUME NEW r \in Role, Settle(r) PROVE IInv'
  <2>1. TypeOK'
    BY <1>13 DEF Settle, At, Goes, Opposite, Thread
  <2>2. Books'
    BY <1>13 DEF Settle, At, Goes, Opposite, Books, Inside, Thread, InMeeting, Role, Pair
  <2>3. Clocks'
    BY <1>13 DEF Settle, At, Goes, Opposite, Books, Clocks, ReadLimit
  <2>4. Told'
    BY <1>13 DEF Settle, At, Goes, Opposite, Books, Inside, Thread, Told, Late
  <2>5. Votes'
    BY <1>13 DEF Settle, At, Goes, Opposite, Books, Votes
  <2>6. Grip'
    BY <1>13 DEF Settle, At, Goes, Opposite, Votes, Grip
  <2> QED
    BY <2>1, <2>2, <2>3, <2>4, <2>5, <2>6
<1>14. ASSUME NEW r \in Role, Decide(r) PROVE IInv'
  BY <1>14 DEF Decide, Role, Pair, Thread, At, Goes, Going, Verdict, Weaker, ReadLimit, Books,
     Clocks, Told, Votes, Grip, Inside, Late, InMeeting
<1>15. ASSUME NEW r \in Role, Say(r) PROVE IInv'
  BY <1>15 DEF Say, Role, Pair, Thread, At, Goes, Waits, Said, Broken, Going, ReadLimit, Books,
     Clocks, Told, Votes, Grip, Inside, Late, InMeeting
<1>16. ASSUME NEW r \in Role, Leave(r) PROVE IInv'
  BY <1>16 DEF Leave, Role, Pair, Thread, At, Goes, Going, Released, ReadLimit, Books, Clocks,
     Told, Votes, Grip, Inside, Late, InMeeting
<1>17. ASSUME NEW r \in Role, Pop(r) PROVE IInv'
  BY <1>17 DEF Pop, Role, Pair, Thread, At, Goes, Going, ReadLimit, Books, Clocks, Told, Votes,
     Grip, Inside, Late, InMeeting
<1>18. ASSUME NEW r \in Role, Forget(r) PROVE IInv'
  BY <1>18 DEF Forget, Role, Pair, Thread, At, Goes, Going, ReadLimit, Books, Clocks, Told,
     Votes, Grip, Inside, Late, InMeeting
<1>19. ASSUME NEW c \in Conn, Offer(c) PROVE IInv'
  <2>1. TypeOK'
    BY <1>19 DEF Offer
  <2>2. BrokerAlike /\ UNCHANGED halfVars
    BY ONLY <1>19 DEF Offer, BrokerAlike
  <2>3. TypeOK /\ Books /\ Clocks /\ Told /\ Votes /\ Grip
    BY DEF IInv
  <2>4. Books' /\ Clocks' /\ Told' /\ Votes'
    BY ONLY <2>2, <2>3, BrokerBooks, BrokerTold, BrokerVotes DEF halfVars
  <2>5. Grip'
    BY <1>19 DEF Offer, Grip
  <2> QED
    BY ONLY <2>1, <2>4, <2>5 DEF IInv
<1>20. ASSUME NEW c \in Conn, Claim(c) PROVE IInv'
  <2>1. TypeOK'
    BY <1>20 DEF Claim, Free
  <2>2. BrokerAlike /\ UNCHANGED halfVars
    BY ONLY <1>20 DEF Claim, Free, BrokerAlike
  <2>3. TypeOK /\ Books /\ Clocks /\ Told /\ Votes /\ Grip
    BY DEF IInv
  <2>4. Books' /\ Clocks' /\ Told' /\ Votes'
    BY ONLY <2>2, <2>3, BrokerBooks, BrokerTold, BrokerVotes DEF halfVars
  <2>5. Grip'
    BY <1>20 DEF Claim, Free, Grip
  <2> QED
    BY ONLY <2>1, <2>4, <2>5 DEF IInv
<1>21. ASSUME NEW r \in Role, NEW c \in Conn, Keep(r, c) PROVE IInv'
  <2>1. TypeOK'
    BY <1>21 DEF Keep
  <2>2. BrokerAlike /\ UNCHANGED halfVars
    BY ONLY <1>21 DEF Keep, BrokerAlike
  <2>3. TypeOK /\ Books /\ Clocks /\ Told /\ Votes /\ Grip
    BY DEF IInv
  <2>4. Books' /\ Clocks' /\ Told' /\ Votes'
    BY ONLY <2>2, <2>3, BrokerBooks, BrokerTold, BrokerVotes DEF halfVars
  <2>5. Grip'
    BY <1>21 DEF Keep, Grip
  <2> QED
    BY ONLY <2>1, <2>4, <2>5 DEF IInv
<1>22. ASSUME Carry PROVE IInv'
  <2>1. TypeOK'
    <3>1. /\ \E place \in {"splicing", "leaving"} : thread' = [thread EXCEPT !["anchor"] = place]
          /\ done' = done \/ done' = [done EXCEPT ![mine["anchor"]] = TRUE]
          /\ UNCHANGED <<halfVars, greetVars, lineVars, clock, mine, heard, bookVars, arrived,
                         answered, told, pairVars>>
      BY ONLY <1>22 DEF Carry, Goes
    <3>2. thread' \in [Role -> Thread]
      BY <3>1 DEF Thread
    <3>3. done' \in [Pair -> BOOLEAN]
      BY <3>1
    <3> QED
      BY ONLY <3>1, <3>2, <3>3, IInv
         DEF IInv, TypeOK, halfVars, greetVars, lineVars, bookVars, pairVars
  <2>2. Books'
    BY <1>22 DEF Carry, At, Goes, MayCarry, Books, Inside, Thread, InMeeting, Role, Pair
  <2>3. Clocks'
    BY <1>22 DEF Carry, At, Goes, MayCarry, Books, Clocks, ReadLimit
  <2>4. Told'
    BY <1>22 DEF Carry, At, Goes, MayCarry, Books, Inside, Thread, Told, Late
  <2>5. Votes'
    BY <1>22 DEF Carry, At, Goes, MayCarry, Books, Votes
  <2>6. Grip'
    BY <1>22 DEF Carry, At, Goes, MayCarry, Votes, Grip
  <2> QED
    BY <2>1, <2>2, <2>3, <2>4, <2>5, <2>6
<1>23. ASSUME Spliced PROVE IInv'
  BY <1>23 DEF Spliced, Role, Pair, Thread, At, Goes, Going, ReadLimit, Books, Clocks, Told,
     Votes, Grip, Inside, Late, InMeeting
<1>24. ASSUME Rest PROVE IInv'
  BY <1>24 DEF Rest, Role, Pair, Thread, At, Goes, Going, ReadLimit, Books, Clocks, Told, Votes,
     Grip, Inside, Late, InMeeting
<1>25. ASSUME Tick PROVE IInv'
  BY <1>25 DEF Tick, Role, Pair, Thread, Opposite, At, Going, ReadLimit, Due, Timed, Books,
     Clocks, Told, Votes, Grip, Inside, Late, InMeeting
<1>26. CASE UNCHANGED vars
  BY <1>26 DEF vars, Books, Clocks, Told, Votes, Grip, InMeeting, ReadLimit
<1> QED
  BY <1>1, <1>2, <1>3, <1>4, <1>5, <1>6, <1>7, <1>8, <1>9, <1>10, <1>11, <1>12, <1>13, <1>14,
     <1>15, <1>16, <1>17, <1>18, <1>19, <1>20, <1>21, <1>22, <1>23, <1>24, <1>25, <1>26 DEF
     Next, Half, Introduce

LEMMA Invariance == Spec => []IInv
<1>1. Init => IInv
  BY Initial
<1>2. IInv /\ [Next]_vars => IInv'
  BY Step
<1> QED
  BY <1>1, <1>2, PTL DEF Spec

\* Two halves that are direct are joined by one meeting, which has both their verdicts.
LEMMA Joint ==
  ASSUME IInv, NEW r \in Role, half[r] = "direct"
  PROVE  /\ mine[r] \in Pair /\ joined[mine[r]] = "direct"
         /\ \A q \in Role : mine[q] = mine[r] /\ word[q] = "direct" /\ reach[q] \in oked
<1>1. go[r] = "direct"
  BY DEF IInv, Told
<1>2. mine[r] \in Pair /\ joined[mine[r]] = "direct"
  BY <1>1 DEF IInv, Told, TypeOK
<1>3. \A q \in Role : mine[q] = mine[r] /\ word[q] = "direct"
  BY <1>2 DEF IInv, Votes
<1>4. \A q \in Role : reach[q] \in oked
  BY <1>3 DEF IInv, Grip, TypeOK
<1> QED
  BY <1>2, <1>3, <1>4

LEMMA Agreeing == IInv => Agreement
<1> SUFFICES ASSUME IInv, NEW r \in Role, half[r] = "direct"
             PROVE  /\ half[Opposite(r)] # "relay"
                    /\ reach[Opposite(r)] = reach[r]
  BY DEF Agreement
<1> DEFINE q == Opposite(r)
<1>1. q \in Role
  BY DEF Opposite, Role
<1>2. mine[q] = mine[r] /\ joined[mine[r]] = "direct" /\ reach[q] \in oked /\ reach[r] \in oked
  BY <1>1, Joint
<1>3. half[q] # "relay"
  BY <1>1, <1>2 DEF IInv, Told
<1>4. reach[q] = reach[r]
  BY <1>2 DEF IInv, Grip
<1> QED
  BY <1>3, <1>4

\* A meeting's two halves never disagree on what joins them (dial, _Pair.settle, _greet).
THEOREM Agreeably == Spec => []Agreement
  BY Invariance, Agreeing, PTL

-----------------------------------------------------------------------------
(* Introduction is implemented. *)

\* No meeting is direct but the one that both halves are in.
LEMMA Directly ==
  ASSUME IInv, NEW p \in Pair, joined[p] = "direct"
  PROVE  /\ Decided = "direct"
         /\ \A q \in Role : mine[q] = p /\ reach[q] \in oked /\ reach[q] # None
         /\ \A o \in Pair : o # p => joined[o] = "open"
  BY DEF IInv, TypeOK, Decided, Votes, Books, Grip

LEMMA Deciding ==
  ASSUME IInv, NEW r \in Role, Decide(r)
  PROVE  UNCHANGED <<reach, Decided, [q \in Role |-> Ended(q)]>> \/
         \E how \in {"direct", "relay"} : Meeting!Decide(how)
<1> USE DEF IInv, TypeOK
<1> DEFINE p == mine[r]
<1>0. p \in Pair
  <2>1. thread[r] \in Inside
    BY ONLY Decide(r) DEF Decide, At, Inside, Thread
  <2>2. mine[r] # None /\ mine \in [Role -> Pair \cup {None}]
    BY <2>1 DEF Books
  <2> QED
    BY <2>2
<1>1. UNCHANGED <<reach, half, [q \in Role |-> Ended(q)]>>
  BY DEF Decide, halfVars, Ended
<1>2. CASE joined[p] # "open"
  <2>1. joined' = joined
    BY <1>0, <1>2 DEF Decide, Verdict
  <2> QED
    BY <1>1, <2>1 DEF Decided
<1>3. CASE joined[p] = "open" /\ Weaker(r) = "direct"
  <2>1. joined' = [joined EXCEPT ![p] = "direct"]
    BY <1>3 DEF Decide, Verdict
  <2>2. \A q \in Role : mine[q] = p /\ reach[q] \in oked /\ reach[q] # None
    BY <1>0, <1>3 DEF Weaker, Votes, Grip
  <2>3. Decided = "open"
    BY <1>0, <1>3, <2>2 DEF Decided, Books
  <2>4. Decided' = "direct"
    BY <1>0, <2>1 DEF Decided
  <2>5. \E c \in Conn : \A q \in Role : reach[q] = c
    BY <2>2 DEF Grip
  <2> QED
    BY <1>1, <2>3, <2>4, <2>5 DEF Meeting!Decide
<1>4. CASE joined[p] = "open" /\ Weaker(r) = "relay"
  <2>1. joined' = [joined EXCEPT ![p] = "relay"]
    BY <1>4 DEF Decide, Verdict
  <2>2. \A o \in Pair : joined[o] # "direct"
    BY <1>0, <1>4, Directly
  <2>3. Decided' = "relay" /\ Decided \in {"open", "relay"}
    BY <1>0, <2>1, <2>2 DEF Decided
  <2> QED
    BY <1>1, <2>3 DEF Meeting!Decide
<1> QED
  BY <1>2, <1>3, <1>4 DEF Weaker

LEMMA Joining ==
  ASSUME IInv, NEW r \in Role, Joined(r)
  PROVE  Meeting!Join(r)
<1> USE DEF IInv, TypeOK
<1>1. half[r] = "answered" /\ go[r] \in {"direct", "relay"}
      /\ half' = [half EXCEPT ![r] = go[r]] /\ UNCHANGED <<reach, joined>>
  BY DEF Joined, Agreed, pairVars
<1>2. mine[r] \in Pair /\ joined[mine[r]] = go[r]
  BY <1>1 DEF Told
<1>3. Decided = go[r]
  <2>1. CASE go[r] = "direct"
    BY <1>2, <2>1, Directly
  <2>2. CASE go[r] = "relay"
    <3>1. \A o \in Pair : joined[o] # "direct"
      BY <1>2, <2>2, Directly
    <3> QED
      BY <1>2, <2>2, <3>1 DEF Decided
  <2> QED
    BY <1>1, <2>1, <2>2
<1>4. Decided' = Decided
  BY <1>1 DEF Decided
<1>5. [q \in Role |-> Ended(q)]' = [[q \in Role |-> Ended(q)] EXCEPT ![r] = go[r]]
  BY <1>1 DEF Ended
<1>6. Ended(r) = "going"
  BY <1>1 DEF Ended
<1> QED
  BY <1>1, <1>3, <1>4, <1>5, <1>6 DEF Meeting!Join

LEMMA Reaching ==
  ASSUME IInv, NEW r \in Role, Punched(r)
  PROVE  \/ UNCHANGED <<reach, Decided, [q \in Role |-> Ended(q)]>>
         \/ \E c \in Conn : Meeting!Reach(r, c)
<1> USE DEF IInv, TypeOK
<1>1. UNCHANGED Decided
  BY DEF Punched, pairVars, Decided
<1>2. UNCHANGED [q \in Role |-> Ended(q)]
  BY DEF Punched, Ended
<1>3. CASE UNCHANGED reach
  BY <1>1, <1>2, <1>3
<1>4. ASSUME NEW c \in won[r], reach' = [reach EXCEPT ![r] = c] PROVE Meeting!Reach(r, c)
  <2>1. reach[r] = None
    BY DEF Punched, Votes, Grip
  <2>2. \A q \in Role : reach[q] \in {None, c}
    BY DEF Grip
  <2> QED
    BY <1>1, <1>2, <1>4, <2>1, <2>2 DEF Meeting!Reach
<1> QED
  BY <1>3, <1>4 DEF Punched

LEMMA Quitting ==
  ASSUME IInv, NEW r \in Role, Quit(r)
  PROVE  Meeting!Fail(r)
<1>1. half[r] \in Going /\ half' = [half EXCEPT ![r] = "failed"] /\ UNCHANGED <<reach, joined>>
  BY DEF Quit, pairVars
<1>2. [q \in Role |-> Ended(q)]' = [[q \in Role |-> Ended(q)] EXCEPT ![r] = "failed"]
  BY <1>1 DEF Ended, IInv, TypeOK
<1>3. Ended(r) = "going"
  BY <1>1 DEF Ended, Going
<1>4. UNCHANGED Decided
  BY <1>1 DEF Decided
<1> QED
  BY <1>1, <1>2, <1>3, <1>4 DEF Meeting!Fail

\* No other step shows.
LEMMA Stuttering ==
  ASSUME IInv, UNCHANGED <<reach, joined>>, [q \in Role |-> Ended(q)]' = [q \in Role |-> Ended(q)]
  PROVE  UNCHANGED <<reach, Decided, [q \in Role |-> Ended(q)]>>
  BY DEF Decided

\* Each half, each thread and each meeting is in a state the code names, and one ticket comes
\* to two meetings at most (_Pair, Broker._join).
THEOREM Typing == Spec => []TypeOK
<1>1. IInv => TypeOK
  BY DEF IInv
<1> QED
  BY <1>1, Invariance, PTL

LEMMA Simulated ==
  ASSUME IInv, [Next]_vars
  PROVE  [Meeting!Next]_<<reach, Decided, [r \in Role |-> Ended(r)]>>
<1> DEFINE Still == UNCHANGED <<reach, Decided, [q \in Role |-> Ended(q)]>>
<1> USE DEF halfVars, pairVars, Ended
<1>1. ASSUME NEW r \in Role, Dial(r) \/ Punch(r) \/ Finish(r) PROVE Still
  BY <1>1, Stuttering DEF Dial, Punch, Finish, IInv, TypeOK
<1>2. ASSUME NEW r \in Role, Join(r) \/ Arrive(r) \/ Await(r) \/ GiveUp(r) \/ Hear(r) PROVE Still
  BY <1>2, Stuttering DEF Join, Arrive, Await, GiveUp, Hear
<1>3. ASSUME NEW r \in Role, Silent(r) \/ Settle(r) \/ Say(r) \/ Leave(r) \/ Pop(r) \/ Forget(r)
      PROVE  Still
  BY <1>3, Stuttering DEF Silent, Settle, Say, Leave, Pop, Forget
<1>4. ASSUME NEW r \in Role, NEW c \in Conn, Offer(c) \/ Claim(c) \/ Keep(r, c) PROVE Still
  BY <1>4, Stuttering DEF Offer, Claim, Keep
<1>5. ASSUME Carry \/ Spliced \/ Rest \/ Tick \/ UNCHANGED vars PROVE Still
  BY <1>5, Stuttering DEF Carry, Spliced, Rest, Tick, vars
<1>6. ASSUME NEW r \in Role, Punched(r) PROVE Still \/ Meeting!Next
  BY <1>6, Reaching DEF Meeting!Next
<1>7. ASSUME NEW r \in Role, Joined(r) PROVE Meeting!Next
  BY <1>7, Joining DEF Meeting!Next
<1>8. ASSUME NEW r \in Role, Quit(r) PROVE Meeting!Next
  BY <1>8, Quitting DEF Meeting!Next
<1>9. ASSUME NEW r \in Role, Decide(r) PROVE Still \/ Meeting!Next
  BY <1>9, Deciding DEF Meeting!Next
<1> QED
  <2> HIDE DEF Still
  <2>1. Still \/ Meeting!Next
    BY <1>1, <1>2, <1>3, <1>4, <1>5, <1>6, <1>7, <1>8, <1>9 DEF Next, Half, Introduce, Role
  <2> QED
    BY <2>1 DEF Still

\* However the two threads of the broker and the two halves interleave, and whoever goes,
\* how a session is joined is decided once, for both of its halves (_introduce, dial).
THEOREM Implementation == Spec => Introduces
<1>1. Init => Meeting!Init
  BY DEF Init, Meeting!Init, Decided, Ended, Pair
<1>2. IInv /\ [Next]_vars => [Meeting!Next]_<<reach, Decided, [r \in Role |-> Ended(r)]>>
  BY Simulated
<1> QED
  BY <1>1, <1>2, Invariance, PTL DEF Spec, Introduces, Meeting!Spec

-----------------------------------------------------------------------------
(* Nothing is carried to a half not told: the limits of the waits add up so. *)

Past == {"settling", "deciding", "saying", "carrying", "splicing"}
Gone == {"leaving", "popping", "forgetting", "ended"}

\* What a meeting says of a half is of one that is in it, and has come that far.
Events ==
  \A p \in Pair, r \in Role :
    /\ r \in halves[p] =>
         mine[r] = p /\ thread[r] \notin {"joining", "arriving", "forgetting", "ended"}
    /\ r \in arrived[p] => mine[r] = p /\ thread[r] # "arriving"
    /\ r \in answered[p] => mine[r] = p /\ thread[r] \notin {"arriving", "waiting", "reading"}
    /\ r \in told[p] => mine[r] = p /\ thread[r] \in {"carrying", "splicing"} \cup Gone

\* A half that has come that far has said so; it has its window once the other is there.
Marks ==
  \A r \in Role :
    /\ thread[r] \in {"waiting", "reading"} \cup Past => r \in arrived[mine[r]]
    /\ thread[r] \in {"reading"} \cup Past => Opposite(r) \in arrived[mine[r]]
    /\ thread[r] \in Past => r \in answered[mine[r]]
    /\ thread[r] \in {"carrying", "splicing"} => go[r] = "relay"

\* The two halves of a meeting begin to be read as one, and so whoever has waited for the
\* other's answer, and then for the other to be told, has waited the other's window out.
InStep(r, q) ==
  /\ thread[q] = "waiting" =>
       /\ thread[r] \notin {"deciding", "saying", "carrying", "splicing"}
       /\ thread[r] \in {"reading", "settling"} => clock[r] = 0
  /\ thread[q] = "reading" =>
       /\ thread[r] = "reading" => clock[q] = clock[r]
       /\ thread[r] = "settling" => clock[q] >= clock[r]
       /\ thread[r] \in {"deciding", "saying"} => clock[q] >= Answering
       /\ thread[r] = "carrying" => clock[q] >= clock[r] + Answering
  /\ thread[q] \in {"settling", "deciding", "saying"} /\ thread[r] = "carrying" =>
       clock[r] < Answering

Waited == \A r \in Role : mine[r] = mine[Opposite(r)] => InStep(r, Opposite(r))

\* What all of this is about.
seen == <<thread, clock, mine, go, peer, halves, arrived, answered, told>>

InTime == Events /\ Marks /\ Waited /\ NoneEarly

LEMMA EventsKept ==
  ASSUME TypeOK, Books, Events, [Next]_vars PROVE Events'
<1> USE NoneAssumption DEF TypeOK, Books, Events, Gone, Inside, Thread, threadVars, lineVars,
    eventVars, pairVars, bookVars
<1>1. ASSUME NEW r \in Role, Dial(r) PROVE Events'
  BY <1>1 DEF Dial
<1>2. ASSUME NEW r \in Role, Join(r) PROVE Events'
  BY <1>2 DEF Join, At, Goes, Said
<1>3. ASSUME NEW r \in Role, Arrive(r) PROVE Events'
  BY <1>3 DEF Arrive, At, Goes
<1>4. ASSUME NEW r \in Role, Await(r) PROVE Events'
  <2>1. UNCHANGED <<halves, arrived, answered, told, mine>>
    BY ONLY <1>4 DEF Await, bookVars, eventVars, pairVars
  <2>2. thread[r] = "waiting"
    BY ONLY <1>4 DEF Await, At
  <2>3. thread' = [thread EXCEPT ![r] = "reading"] \/ thread' = [thread EXCEPT ![r] = "leaving"]
    <3>1. Goes(r, "reading") \/ Goes(r, "leaving")
      BY ONLY <1>4 DEF Await, Waits
    <3> QED
      BY ONLY <3>1 DEF Goes
  <2> QED
    BY <1>4, <2>1, <2>2, <2>3
<1>5. ASSUME NEW r \in Role, GiveUp(r) PROVE Events'
  BY <1>5 DEF GiveUp, At, Goes, Said
<1>6. ASSUME NEW r \in Role, Hear(r) PROVE Events'
  BY <1>6 DEF Hear, At, Goes, Waits
<1>7. ASSUME NEW r \in Role, Silent(r) PROVE Events'
  BY <1>7 DEF Silent, At, Goes
<1>8. ASSUME NEW r \in Role, Settle(r) PROVE Events'
  BY <1>8 DEF Settle, At, Goes
<1>9. ASSUME NEW r \in Role, Decide(r) PROVE Events'
  BY <1>9 DEF Decide, At, Goes
<1>10. ASSUME NEW r \in Role, Say(r) PROVE Events'
  <2>1. UNCHANGED <<halves, arrived, answered, mine>>
    BY <1>10 DEF Say
  <2>2. thread' = [thread EXCEPT ![r] = thread'[r]] /\ thread[r] = "saying"
    BY <1>10 DEF Say, At, Goes, Waits
  <2>3. thread'[r] \in {"leaving", "carrying"} /\ mine[r] \in Pair
    <3>1. thread' = [thread EXCEPT ![r] = "leaving"] \/ thread' = [thread EXCEPT ![r] = "carrying"]
      <4>1. Goes(r, "leaving") \/ Goes(r, "carrying")
        BY ONLY <1>10 DEF Say, Waits
      <4> QED
        BY ONLY <4>1 DEF Goes
    <3>2. thread'[r] \in {"leaving", "carrying"}
      <4>1. thread \in [Role -> Thread]
        OBVIOUS
      <4> QED
        BY ONLY <1>10, <3>1, <4>1
    <3>3. mine[r] \in Pair
      <4>1. thread[r] \in Thread \ {"away", "joining", "ended"}
        BY ONLY <2>2 DEF Thread
      <4>2. mine[r] # None
        BY ONLY <4>1, r \in Role, Books DEF Books, Inside
      <4>3. mine \in [Role -> Pair \cup {None}]
        OBVIOUS
      <4> QED
        BY ONLY <4>2, <4>3, r \in Role
    <3> QED
      BY ONLY <3>2, <3>3
  <2>4. told' = told \/ told' = [told EXCEPT ![mine[r]] = @ \cup {r}]
    BY <1>10 DEF Say
  <2> QED
    BY <2>1, <2>2, <2>3, <2>4
<1>11. ASSUME NEW r \in Role, Leave(r) PROVE Events'
  BY <1>11 DEF Leave, At, Goes, Released
<1>12. ASSUME NEW r \in Role, Pop(r) PROVE Events'
  BY <1>12 DEF Pop, At, Goes
<1>13. ASSUME NEW r \in Role, Forget(r) PROVE Events'
  BY <1>13 DEF Forget, At, Goes
<1>14. ASSUME Carry PROVE Events'
  BY <1>14 DEF Carry, At, Goes, MayCarry
<1>15. ASSUME Spliced PROVE Events'
  BY <1>15 DEF Spliced, At, Goes
<1>16. ASSUME Rest PROVE Events'
  BY <1>16 DEF Rest, At, Goes
<1>17. ASSUME Tick PROVE Events'
  BY <1>17 DEF Tick
<1>18. CASE UNCHANGED seen
  BY <1>18 DEF seen
<1>19. ASSUME NEW r \in Role, Half(r) PROVE UNCHANGED seen
  <2>1. UNCHANGED <<threadVars, lineVars, eventVars, pairVars>>
    BY ONLY <1>19 DEF Half, Punch, Punched, Joined, Quit, Finish
  <2> QED
    BY ONLY <2>1 DEF seen, threadVars, lineVars, eventVars, pairVars
<1>20. ASSUME NEW c \in Conn, Offer(c) \/ Claim(c) \/ \E r \in Role : Keep(r, c)
      PROVE  UNCHANGED seen
  <2>1. UNCHANGED <<threadVars, lineVars, eventVars, pairVars>>
    BY ONLY <1>20 DEF Offer, Claim, Keep
  <2> QED
    BY ONLY <2>1 DEF seen, threadVars, lineVars, eventVars, pairVars
<1>21. UNCHANGED vars => UNCHANGED seen
  BY ONLY DEF vars, seen, threadVars, lineVars, eventVars, pairVars, bookVars
<1> QED
  BY <1>1, <1>2, <1>3, <1>4, <1>5, <1>6, <1>7, <1>8, <1>9, <1>10, <1>11, <1>12, <1>13, <1>14,
     <1>15, <1>16, <1>17, <1>18, <1>19, <1>20, <1>21 DEF Next, Introduce

LEMMA MarksKept ==
  ASSUME TypeOK, Books, Told, Marks, Events, [Next]_vars PROVE Marks'
<1> USE NoneAssumption DEF TypeOK, Books, Told, Late, Marks, Events, Past, Opposite, Role,
    Inside, Thread, threadVars, lineVars, eventVars, pairVars, bookVars
<1>1. ASSUME NEW r \in Role, Dial(r) PROVE Marks'
  BY <1>1 DEF Dial
<1>2. ASSUME NEW r \in Role, Join(r) PROVE Marks'
  BY <1>2 DEF Join, At, Goes, Said
<1>3. ASSUME NEW r \in Role, Arrive(r) PROVE Marks'
  BY <1>3 DEF Arrive, At, Goes
<1>4. ASSUME NEW r \in Role, Await(r) PROVE Marks'
  BY <1>4 DEF Await, At, Goes, Waits
<1>5. ASSUME NEW r \in Role, GiveUp(r) PROVE Marks'
  BY <1>5 DEF GiveUp, At, Goes, Said
<1>6. ASSUME NEW r \in Role, Hear(r) PROVE Marks'
  BY <1>6 DEF Hear, At, Goes, Waits
<1>7. ASSUME NEW r \in Role, Silent(r) PROVE Marks'
  BY <1>7 DEF Silent, At, Goes
<1>8. ASSUME NEW r \in Role, Settle(r) PROVE Marks'
  BY <1>8 DEF Settle, At, Goes
<1>9. ASSUME NEW r \in Role, Decide(r) PROVE Marks'
  BY <1>9 DEF Decide, At, Goes
<1>10. ASSUME NEW r \in Role, Say(r) PROVE Marks'
  BY <1>10 DEF Say, At, Goes, Waits, Said
<1>11. ASSUME NEW r \in Role, Leave(r) PROVE Marks'
  BY <1>11 DEF Leave, At, Goes, Released
<1>12. ASSUME NEW r \in Role, Pop(r) PROVE Marks'
  BY <1>12 DEF Pop, At, Goes
<1>13. ASSUME NEW r \in Role, Forget(r) PROVE Marks'
  BY <1>13 DEF Forget, At, Goes
<1>14. ASSUME Carry PROVE Marks'
  BY <1>14 DEF Carry, At, Goes, MayCarry
<1>15. ASSUME Spliced PROVE Marks'
  BY <1>15 DEF Spliced, At, Goes
<1>16. ASSUME Rest PROVE Marks'
  BY <1>16 DEF Rest, At, Goes
<1>17. ASSUME Tick PROVE Marks'
  BY <1>17 DEF Tick
<1>18. CASE UNCHANGED seen
  BY <1>18 DEF seen
<1>19. ASSUME NEW r \in Role, Half(r) PROVE UNCHANGED seen
  <2>1. UNCHANGED <<threadVars, lineVars, eventVars, pairVars>>
    BY ONLY <1>19 DEF Half, Punch, Punched, Joined, Quit, Finish
  <2> QED
    BY ONLY <2>1 DEF seen, threadVars, lineVars, eventVars, pairVars
<1>20. ASSUME NEW c \in Conn, Offer(c) \/ Claim(c) \/ \E r \in Role : Keep(r, c)
      PROVE  UNCHANGED seen
  <2>1. UNCHANGED <<threadVars, lineVars, eventVars, pairVars>>
    BY ONLY <1>20 DEF Offer, Claim, Keep
  <2> QED
    BY ONLY <2>1 DEF seen, threadVars, lineVars, eventVars, pairVars
<1>21. UNCHANGED vars => UNCHANGED seen
  BY ONLY DEF vars, seen, threadVars, lineVars, eventVars, pairVars, bookVars
<1> QED
  BY <1>1, <1>2, <1>3, <1>4, <1>5, <1>6, <1>7, <1>8, <1>9, <1>10, <1>11, <1>12, <1>13, <1>14,
     <1>15, <1>16, <1>17, <1>18, <1>19, <1>20, <1>21 DEF Next, Introduce

LEMMA WaitedKept ==
  ASSUME TypeOK, Books, Clocks, Events, Marks, Waited, [Next]_vars PROVE Waited'
<1> USE TimesAssumption, NoneAssumption DEF TypeOK, Books, Clocks, Events, Marks, Past, Waited,
    InStep, ReadLimit, Opposite, Role, Inside, Thread, threadVars, lineVars, eventVars, pairVars,
    bookVars
<1>1. ASSUME NEW r \in Role, Dial(r) PROVE Waited'
  BY <1>1 DEF Dial
<1>2. ASSUME NEW r \in Role, Join(r) PROVE Waited'
  BY <1>2 DEF Join, At, Goes, Said
<1>3. ASSUME NEW r \in Role, Arrive(r) PROVE Waited'
  BY <1>3 DEF Arrive, At, Goes
<1>4. ASSUME NEW r \in Role, Await(r) PROVE Waited'
  BY <1>4 DEF Await, At, Goes, Waits
<1>5. ASSUME NEW r \in Role, GiveUp(r) PROVE Waited'
  BY <1>5 DEF GiveUp, At, Goes, Said
<1>6. ASSUME NEW r \in Role, Hear(r) PROVE Waited'
  BY <1>6 DEF Hear, At, Goes, Waits
<1>7. ASSUME NEW r \in Role, Silent(r) PROVE Waited'
  BY <1>7 DEF Silent, At, Goes
<1>8. ASSUME NEW r \in Role, Settle(r) PROVE Waited'
  BY <1>8 DEF Settle, At, Goes
<1>9. ASSUME NEW r \in Role, Decide(r) PROVE Waited'
  BY <1>9 DEF Decide, At, Goes
<1>10. ASSUME NEW r \in Role, Say(r) PROVE Waited'
  BY <1>10 DEF Say, At, Goes, Waits, Said
<1>11. ASSUME NEW r \in Role, Leave(r) PROVE Waited'
  BY <1>11 DEF Leave, At, Goes, Released
<1>12. ASSUME NEW r \in Role, Pop(r) PROVE Waited'
  BY <1>12 DEF Pop, At, Goes
<1>13. ASSUME NEW r \in Role, Forget(r) PROVE Waited'
  BY <1>13 DEF Forget, At, Goes
<1>14. ASSUME Carry PROVE Waited'
  BY <1>14 DEF Carry, At, Goes, MayCarry
<1>15. ASSUME Spliced PROVE Waited'
  BY <1>15 DEF Spliced, At, Goes
<1>16. ASSUME Rest PROVE Waited'
  BY <1>16 DEF Rest, At, Goes
<1>17. ASSUME Tick PROVE Waited'
  BY <1>17 DEF Tick, Due, Timed, At
<1>18. CASE UNCHANGED seen
  BY <1>18 DEF seen
<1>19. ASSUME NEW r \in Role, Half(r) PROVE UNCHANGED seen
  <2>1. UNCHANGED <<threadVars, lineVars, eventVars, pairVars>>
    BY ONLY <1>19 DEF Half, Punch, Punched, Joined, Quit, Finish
  <2> QED
    BY ONLY <2>1 DEF seen, threadVars, lineVars, eventVars, pairVars
<1>20. ASSUME NEW c \in Conn, Offer(c) \/ Claim(c) \/ \E r \in Role : Keep(r, c)
      PROVE  UNCHANGED seen
  <2>1. UNCHANGED <<threadVars, lineVars, eventVars, pairVars>>
    BY ONLY <1>20 DEF Offer, Claim, Keep
  <2> QED
    BY ONLY <2>1 DEF seen, threadVars, lineVars, eventVars, pairVars
<1>21. UNCHANGED vars => UNCHANGED seen
  BY ONLY DEF vars, seen, threadVars, lineVars, eventVars, pairVars, bookVars
<1> QED
  BY <1>1, <1>2, <1>3, <1>4, <1>5, <1>6, <1>7, <1>8, <1>9, <1>10, <1>11, <1>12, <1>13, <1>14,
     <1>15, <1>16, <1>17, <1>18, <1>19, <1>20, <1>21 DEF Next, Introduce

LEMMA EarlyKept ==
  ASSUME TypeOK, Books, Told, Clocks, Events, Marks, Waited, NoneEarly, [Next]_vars PROVE NoneEarly'
<1> USE TimesAssumption, NoneAssumption DEF TypeOK, Books, Told, Late, Clocks, Events, Marks,
    Past, Gone, NoneEarly, Opposite, Role, Inside, Thread, At, threadVars, lineVars, eventVars,
    pairVars, bookVars
<1>1. ASSUME NEW r \in Role, Dial(r) PROVE NoneEarly'
  BY <1>1 DEF Dial
<1>2. ASSUME NEW r \in Role, Join(r) PROVE NoneEarly'
  BY <1>2 DEF Join, At, Goes, Said
<1>3. ASSUME NEW r \in Role, Arrive(r) PROVE NoneEarly'
  BY <1>3 DEF Arrive, At, Goes
<1>4. ASSUME NEW r \in Role, Await(r) PROVE NoneEarly'
  BY <1>4 DEF Await, At, Goes, Waits
<1>5. ASSUME NEW r \in Role, GiveUp(r) PROVE NoneEarly'
  BY <1>5 DEF GiveUp, At, Goes, Said
<1>6. ASSUME NEW r \in Role, Hear(r) PROVE NoneEarly'
  BY <1>6 DEF Hear, At, Goes, Waits
<1>7. ASSUME NEW r \in Role, Silent(r) PROVE NoneEarly'
  BY <1>7 DEF Silent, At, Goes
<1>8. ASSUME NEW r \in Role, Settle(r) PROVE NoneEarly'
  BY <1>8 DEF Settle, At, Goes
<1>9. ASSUME NEW r \in Role, Decide(r) PROVE NoneEarly'
  BY <1>9 DEF Decide, At, Goes
<1>10. ASSUME NEW r \in Role, Say(r) PROVE NoneEarly'
  BY <1>10 DEF Say, At, Goes, Waits, Said
<1>11. ASSUME NEW r \in Role, Leave(r) PROVE NoneEarly'
  BY <1>11 DEF Leave, At, Goes, Released
<1>12. ASSUME NEW r \in Role, Pop(r) PROVE NoneEarly'
  BY <1>12 DEF Pop, At, Goes
<1>13. ASSUME NEW r \in Role, Forget(r) PROVE NoneEarly'
  BY <1>13 DEF Forget, At, Goes
<1>14. ASSUME Carry PROVE NoneEarly'
  BY <1>14 DEF Carry, At, Goes, MayCarry, Waited, InStep
<1>15. ASSUME Spliced PROVE NoneEarly'
  BY <1>15 DEF Spliced, At, Goes
<1>16. ASSUME Rest PROVE NoneEarly'
  BY <1>16 DEF Rest, At, Goes
<1>17. ASSUME Tick PROVE NoneEarly'
  BY <1>17 DEF Tick
<1>18. CASE UNCHANGED seen
  BY <1>18 DEF seen
<1>19. ASSUME NEW r \in Role, Half(r) PROVE UNCHANGED seen
  <2>1. UNCHANGED <<threadVars, lineVars, eventVars, pairVars>>
    BY ONLY <1>19 DEF Half, Punch, Punched, Joined, Quit, Finish
  <2> QED
    BY ONLY <2>1 DEF seen, threadVars, lineVars, eventVars, pairVars
<1>20. ASSUME NEW c \in Conn, Offer(c) \/ Claim(c) \/ \E r \in Role : Keep(r, c)
      PROVE  UNCHANGED seen
  <2>1. UNCHANGED <<threadVars, lineVars, eventVars, pairVars>>
    BY ONLY <1>20 DEF Offer, Claim, Keep
  <2> QED
    BY ONLY <2>1 DEF seen, threadVars, lineVars, eventVars, pairVars
<1>21. UNCHANGED vars => UNCHANGED seen
  BY ONLY DEF vars, seen, threadVars, lineVars, eventVars, pairVars, bookVars
<1> QED
  BY <1>1, <1>2, <1>3, <1>4, <1>5, <1>6, <1>7, <1>8, <1>9, <1>10, <1>11, <1>12, <1>13, <1>14,
     <1>15, <1>16, <1>17, <1>18, <1>19, <1>20, <1>21 DEF Next, Introduce

LEMMA InTimeInvariance == Spec => []InTime
<1>1. Init => InTime
  BY NoneAssumption DEF Init, InTime, Events, Marks, Waited, InStep, NoneEarly, At, Past,
     Opposite, Role
<1>2. IInv /\ InTime /\ [Next]_vars => InTime'
  BY EventsKept, MarksKept, WaitedKept, EarlyKept DEF IInv, InTime
<1> QED
  BY <1>1, <1>2, Invariance, PTL DEF Spec

\* Nothing of a session is carried to a half that was not told of it, however slow the halves are
\* and however long the waits, the one for a way through being the shorter (_Pair.carry, told).
THEOREM Patiently == Spec => []NoneEarly
<1>1. InTime => NoneEarly
  BY DEF InTime
<1> QED
  BY <1>1, InTimeInvariance, PTL

=============================================================================
