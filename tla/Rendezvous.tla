----------------------------- MODULE Rendezvous -----------------------------
(***************************************************************************)
(* One meeting of the rendezvous (coganchor/rendezvous.py): two halves of  *)
(* a session dial the broker under one ticket, are told of each other, try *)
(* to reach each other (_punch, _greet), say whether they did, and are     *)
(* told how the session is joined: directly, or carried by the broker.     *)
(* The broker has a thread for each half (_introduce), and the two threads *)
(* meet only through the _Pair and the dict of meetings.                   *)
(*                                                                         *)
(* Time is the broker's: its threads take no time between two waits, and   *)
(* each wait ends by its limit.  A half may be as slow as it likes, or go. *)
(* Other meetings are the broker's refusing one more, and its judging that *)
(* these two machines cannot meet: either may be so whenever it is asked.  *)
(***************************************************************************)
EXTENDS Naturals, FiniteSets

CONSTANTS
  Conn,       \* the connections that may open between the halves
  Punching,   \* the window the halves are given to reach each other
  Answering,  \* how long the broker waits for a line and for the other half
  None

Role == {"anchor", "serve"}
Opposite(r) == IF r = "anchor" THEN "serve" ELSE "anchor"

\* The meetings there may be: a half makes one at most (_Pair).
Pair == 1..2

ASSUME TimesAssumption == Punching \in Nat /\ Answering \in Nat /\ Punching < Answering
ASSUME NoneAssumption == None \notin Conn \cup Pair

VARIABLES
  (* The halves (dial). *)
  half,      \* "away", "asking", "punching", "answered", "direct", "relay", "failed"
  closed,    \* whether the half has closed its connection to the broker
  reach,     \* the connection its punching came to, or None
  word,      \* what it said of that to the broker: "none", "direct", "alone"
  (* The connections between them (_greet). *)
  offered,   \* those the anchoring half has said GO on
  claimed,   \* whether the serving half has taken one
  oked,      \* those it has said OK on
  won,       \* for each half, those its greetings have kept for it
  (* The broker's threads (_introduce). *)
  thread,    \* where the thread of each half is
  clock,     \* how long it has been in the wait it is in
  mine,      \* the meeting it is in, or None
  heard,     \* whether the other half answered in time
  peer,      \* what the half was told of the other: "none", "window", "skip"
  go,        \* how it was told the session is joined: "none", "direct", "relay", "no"
  (* The meetings (_Pair, Broker._meetings). *)
  held,      \* the meeting the ticket names, or None
  made,      \* how many were made
  halves, arrived, answered, told,  \* of each meeting, the halves in it, and its events
  verdicts,  \* the halves of it that reached the other
  done,      \* whether nothing is carried any more
  joined     \* how it is joined, once decided: "open", "direct", "relay"

halfVars == <<half, closed, reach, word>>
greetVars == <<offered, claimed, oked, won>>
lineVars == <<peer, go>>
threadVars == <<thread, clock, mine, heard>>
bookVars == <<held, made>>
eventVars == <<arrived, answered, told, done>>
pairVars == <<halves, verdicts, joined>>
vars == <<halfVars, greetVars, lineVars, threadVars, bookVars, eventVars, pairVars>>

Going == {"asking", "punching", "answered"}
Thread == {"away", "joining", "arriving", "waiting", "reading", "settling", "deciding",
           "saying", "carrying", "splicing", "leaving", "popping", "forgetting", "ended"}

-----------------------------------------------------------------------------
(* The halves: dial, on each of the two machines. *)

\* The half connects, and says its ticket and its role.
Dial(r) ==
  /\ half[r] = "away"
  /\ half' = [half EXCEPT ![r] = "asking"]
  /\ thread' = [thread EXCEPT ![r] = "joining"]
  /\ UNCHANGED <<closed, reach, word, greetVars, lineVars, clock, mine, heard,
                 bookVars, eventVars, pairVars>>

\* It is told where the other may be, and its window opens.
Punch(r) ==
  /\ half[r] = "asking" /\ peer[r] # "none"
  /\ half' = [half EXCEPT ![r] = "punching"]
  /\ UNCHANGED <<closed, reach, word, greetVars, lineVars, threadVars, bookVars,
                 eventVars, pairVars>>

\* Its window closes with the first connection its greetings kept, or with none.
Punched(r) ==
  /\ half[r] = "punching"
  /\ \/ \E c \in won[r] : /\ reach' = [reach EXCEPT ![r] = c]
                          /\ word' = [word EXCEPT ![r] = "direct"]
     \/ /\ won[r] = {}
        /\ word' = [word EXCEPT ![r] = "alone"]
        /\ UNCHANGED reach
  /\ half' = [half EXCEPT ![r] = "answered"]
  /\ UNCHANGED <<closed, greetVars, lineVars, threadVars, bookVars, eventVars, pairVars>>

\* The broker's word is the half's, and not its own.
Agreed(r) == go[r]

\* It hears how the session is joined: what it does not use of the two it closes.
Joined(r) ==
  /\ half[r] = "answered" /\ go[r] # "none"
  /\ \/ /\ Agreed(r) = "direct" /\ reach[r] # None
        /\ half' = [half EXCEPT ![r] = "direct"]
        /\ closed' = [closed EXCEPT ![r] = TRUE]
     \/ /\ Agreed(r) = "relay"
        /\ half' = [half EXCEPT ![r] = "relay"]
        /\ UNCHANGED closed
  /\ UNCHANGED <<reach, word, greetVars, lineVars, threadVars, bookVars, eventVars, pairVars>>

\* It is refused, is not answered in time, or goes.
Quit(r) ==
  /\ half[r] \in Going
  /\ half' = [half EXCEPT ![r] = "failed"]
  /\ closed' = [closed EXCEPT ![r] = TRUE]
  /\ UNCHANGED <<reach, word, greetVars, lineVars, threadVars, bookVars, eventVars, pairVars>>

\* A session that was carried is over.
Finish(r) ==
  /\ half[r] = "relay" /\ ~closed[r]
  /\ closed' = [closed EXCEPT ![r] = TRUE]
  /\ UNCHANGED <<half, reach, word, greetVars, lineVars, threadVars, bookVars,
                 eventVars, pairVars>>

-----------------------------------------------------------------------------
(* The connections between them: _greet, a thread apiece, late ones included. *)

\* A knock gets through while both windows are open, each end proves what it is, and the
\* anchoring half offers it.
Offer(c) ==
  /\ c \notin offered
  /\ \A r \in Role : half[r] = "punching" /\ peer[r] = "window"
  /\ offered' = offered \cup {c}
  /\ UNCHANGED <<halfVars, claimed, oked, won, lineVars, threadVars, bookVars,
                 eventVars, pairVars>>

\* A mutant: the latch is read and then set.
Free_Unlatched == TRUE

\* The latch is taken once and never given back.
Free == ~claimed

\* The serving half takes one, and says so on it unless it is gone.
Claim(c) ==
  /\ c \in offered \ oked /\ Free
  /\ claimed' = TRUE
  /\ oked' \in {oked, oked \cup {c}}
  /\ UNCHANGED <<halfVars, offered, won, lineVars, threadVars, bookVars, eventVars, pairVars>>

\* Each end keeps what was said OK on, if it hears of it.
Keep(r, c) ==
  /\ c \in oked \ won[r]
  /\ won' = [won EXCEPT ![r] = @ \cup {c}]
  /\ UNCHANGED <<halfVars, offered, claimed, oked, lineVars, threadVars, bookVars,
                 eventVars, pairVars>>

-----------------------------------------------------------------------------
(* The broker: Broker._introduce, a thread for each half. *)

Broken(r) == closed[r]
At(r, place) == thread[r] = place
Goes(r, place) == thread' = [thread EXCEPT ![r] = place]
Waits(r, place) == Goes(r, place) /\ clock' = [clock EXCEPT ![r] = 0]
Said(r, how) == go' = [go EXCEPT ![r] = how]

\* Broker._join, under the broker's lock: the meeting, made if it is the first there, or
\* refused where as many as may be are held.
Join(r) ==
  /\ At(r, "joining")
  /\ \/ /\ held # None
        /\ mine' = [mine EXCEPT ![r] = held]
        /\ Goes(r, "arriving")
        /\ UNCHANGED <<bookVars, lineVars>>
     \/ /\ held = None
        /\ made' = made + 1
        /\ held' = made'
        /\ mine' = [mine EXCEPT ![r] = made']
        /\ Goes(r, "arriving")
        /\ UNCHANGED lineVars
     \/ /\ held = None
        /\ Said(r, "no")
        /\ Goes(r, "ended")
        /\ UNCHANGED <<mine, bookVars, peer>>
  /\ UNCHANGED <<halfVars, greetVars, clock, heard, eventVars, pairVars>>

\* _Pair.arrive.
Arrive(r) ==
  /\ At(r, "arriving")
  /\ halves' = [halves EXCEPT ![mine[r]] = @ \cup {r}]
  /\ arrived' = [arrived EXCEPT ![mine[r]] = @ \cup {r}]
  /\ Goes(r, "waiting")
  /\ UNCHANGED <<halfVars, greetVars, lineVars, clock, mine, heard, bookVars, answered,
                 told, done, verdicts, joined>>

\* The other half came: it is told where it may be, and whether these two are worth a window.
Await(r) ==
  /\ At(r, "waiting") /\ Opposite(r) \in arrived[mine[r]]
  /\ \/ /\ \E w \in {"window", "skip"} : peer' = [peer EXCEPT ![r] = w]
        /\ Waits(r, "reading")
     \/ /\ Broken(r)
        /\ Goes(r, "leaving")
        /\ UNCHANGED <<peer, clock>>
  /\ UNCHANGED <<halfVars, greetVars, go, mine, heard, bookVars, eventVars, pairVars>>

\* The broker's patience is over.
GiveUp(r) ==
  /\ At(r, "waiting") /\ Opposite(r) \notin arrived[mine[r]]
  /\ Said(r, "no")
  /\ Goes(r, "leaving")
  /\ UNCHANGED <<halfVars, greetVars, peer, clock, mine, heard, bookVars, eventVars, pairVars>>

\* What the half came to is read, and is its verdict (_Pair.settle).
Hear(r) ==
  /\ At(r, "reading") /\ word[r] # "none"
  /\ verdicts' = IF word[r] = "direct" THEN [verdicts EXCEPT ![mine[r]] = @ \cup {r}]
                 ELSE verdicts
  /\ answered' = [answered EXCEPT ![mine[r]] = @ \cup {r}]
  /\ Waits(r, "settling")
  /\ UNCHANGED <<halfVars, greetVars, lineVars, mine, heard, bookVars, arrived, told,
                 done, halves, joined>>

ReadLimit(r) == IF peer[r] = "window" THEN Punching + Answering ELSE Answering

\* The half closed, or says nothing for longer than it was given.
Silent(r) ==
  /\ At(r, "reading")
  /\ Broken(r) \/ (word[r] = "none" /\ clock[r] = ReadLimit(r))
  /\ Goes(r, "leaving")
  /\ UNCHANGED <<halfVars, greetVars, lineVars, clock, mine, heard, bookVars, eventVars,
                 pairVars>>

\* The other half's verdict came, or is waited for no longer.
Settle(r) ==
  /\ At(r, "settling")
  /\ \/ Opposite(r) \in answered[mine[r]] /\ heard' = [heard EXCEPT ![r] = TRUE]
     \/ /\ Opposite(r) \notin answered[mine[r]] /\ clock[r] = Answering
        /\ heard' = [heard EXCEPT ![r] = FALSE]
  /\ Goes(r, "deciding")
  /\ UNCHANGED <<halfVars, greetVars, lineVars, clock, mine, bookVars, eventVars, pairVars>>

Weaker(r) == IF heard[r] /\ verdicts[mine[r]] = Role THEN "direct" ELSE "relay"

\* A mutant: the late half works it out again.
Verdict_Anew(r) == Weaker(r)

\* Decided once, by whichever is first, and the same for the late one.
Verdict(r) == IF joined[mine[r]] = "open" THEN Weaker(r) ELSE joined[mine[r]]

\* Under the meeting's lock.
Decide(r) ==
  /\ At(r, "deciding")
  /\ joined' = [joined EXCEPT ![mine[r]] = Verdict(r)]
  /\ Goes(r, "saying")
  /\ UNCHANGED <<halfVars, greetVars, lineVars, clock, mine, heard, bookVars, eventVars,
                 halves, verdicts>>

\* The half is told, and then said to have been (_Pair.spoke).
Say(r) ==
  /\ At(r, "saying")
  /\ \/ /\ Said(r, joined[mine[r]])
        /\ told' = [told EXCEPT ![mine[r]] = @ \cup {r}]
        /\ IF joined[mine[r]] = "direct" THEN Goes(r, "leaving") /\ UNCHANGED clock
           ELSE Waits(r, "carrying")
     \/ /\ Broken(r)
        /\ Goes(r, "leaving")
        /\ UNCHANGED <<go, told, clock>>
  /\ UNCHANGED <<halfVars, greetVars, peer, mine, heard, bookVars, arrived, answered,
                 done, pairVars>>

\* A mutant: the carrying does not wait for the other half to be told.
MayCarry_AtOnce == TRUE

MayCarry == "serve" \in told[mine["anchor"]] \/ clock["anchor"] = Answering

\* _Pair.carry, in the anchoring half's thread: the bytes are moved if both are there.
Carry ==
  /\ At("anchor", "carrying") /\ MayCarry
  /\ IF halves[mine["anchor"]] = Role
       THEN Goes("anchor", "splicing") /\ UNCHANGED done
       ELSE Goes("anchor", "leaving") /\ done' = [done EXCEPT ![mine["anchor"]] = TRUE]
  /\ UNCHANGED <<halfVars, greetVars, lineVars, clock, mine, heard, bookVars, arrived,
                 answered, told, pairVars>>

\* _splice: both ends have stopped, or have been closed here.
Spliced ==
  /\ At("anchor", "splicing")
  /\ \A r \in Role : closed[r] \/ thread[r] = "ended"
  /\ done' = [done EXCEPT ![mine["anchor"]] = TRUE]
  /\ Goes("anchor", "leaving")
  /\ UNCHANGED <<halfVars, greetVars, lineVars, clock, mine, heard, bookVars, arrived,
                 answered, told, pairVars>>

\* _Pair.carry, in the other's.
Rest ==
  /\ At("serve", "carrying") /\ done[mine["serve"]]
  /\ Goes("serve", "leaving")
  /\ UNCHANGED <<halfVars, greetVars, lineVars, clock, mine, heard, bookVars, eventVars,
                 pairVars>>

\* A mutant: the other is left to wait for a splice that is not coming.
Released_Not(r) == done

Released(r) == [done EXCEPT ![mine[r]] = TRUE]

\* _Pair.leave: the other is released from all it may be waiting for,
Leave(r) ==
  /\ At(r, "leaving")
  /\ done' = Released(r)
  /\ told' = [told EXCEPT ![mine[r]] = @ \cup {r}]
  /\ answered' = [answered EXCEPT ![mine[r]] = @ \cup {r}]
  /\ arrived' = [arrived EXCEPT ![mine[r]] = @ \cup {r}]
  /\ Goes(r, "popping")
  /\ UNCHANGED <<halfVars, greetVars, lineVars, clock, mine, heard, bookVars, pairVars>>

\* and then the half is taken out, under the meeting's lock.
Pop(r) ==
  /\ At(r, "popping")
  /\ halves' = [halves EXCEPT ![mine[r]] = @ \ {r}]
  /\ Goes(r, IF halves'[mine[r]] = {} THEN "forgetting" ELSE "ended")
  /\ UNCHANGED <<halfVars, greetVars, lineVars, clock, mine, heard, bookVars, eventVars,
                 verdicts, joined>>

\* Broker._forget, under the broker's lock: if it is still the one the ticket names.
Forget(r) ==
  /\ At(r, "forgetting")
  /\ held' = IF held = mine[r] THEN None ELSE held
  /\ Goes(r, "ended")
  /\ UNCHANGED <<halfVars, greetVars, lineVars, clock, mine, heard, made, eventVars, pairVars>>

-----------------------------------------------------------------------------
\* A thread with something to do at once.
Due(r) ==
  \/ thread[r] \in {"arriving", "deciding", "saying", "leaving", "popping", "forgetting"}
  \/ At(r, "waiting") /\ Opposite(r) \in arrived[mine[r]]
  \/ At(r, "reading") /\ (word[r] # "none" \/ closed[r] \/ clock[r] = ReadLimit(r))
  \/ At(r, "settling") /\ (Opposite(r) \in answered[mine[r]] \/ clock[r] = Answering)
  \/ r = "anchor" /\ At(r, "carrying")
       /\ ("serve" \in told[mine[r]] \/ clock[r] = Answering)

Timed(r) == thread[r] \in {"reading", "settling"} \/ (r = "anchor" /\ At(r, "carrying"))

\* Time goes by in a wait that has a limit.
Tick ==
  /\ \A r \in Role : ~Due(r)
  /\ \E r \in Role : Timed(r)
  /\ clock' = [r \in Role |-> IF Timed(r) THEN clock[r] + 1 ELSE clock[r]]
  /\ UNCHANGED <<halfVars, greetVars, lineVars, thread, mine, heard, bookVars, eventVars,
                 pairVars>>

Init ==
  /\ half = [r \in Role |-> "away"]
  /\ closed = [r \in Role |-> FALSE]
  /\ reach = [r \in Role |-> None]
  /\ word = [r \in Role |-> "none"]
  /\ offered = {} /\ claimed = FALSE /\ oked = {}
  /\ won = [r \in Role |-> {}]
  /\ thread = [r \in Role |-> "away"]
  /\ clock = [r \in Role |-> 0]
  /\ mine = [r \in Role |-> None]
  /\ heard = [r \in Role |-> FALSE]
  /\ peer = [r \in Role |-> "none"]
  /\ go = [r \in Role |-> "none"]
  /\ held = None
  /\ made = 0
  /\ halves = [p \in Pair |-> {}]
  /\ arrived = [p \in Pair |-> {}]
  /\ answered = [p \in Pair |-> {}]
  /\ told = [p \in Pair |-> {}]
  /\ verdicts = [p \in Pair |-> {}]
  /\ done = [p \in Pair |-> FALSE]
  /\ joined = [p \in Pair |-> "open"]

Half(r) == Punch(r) \/ Punched(r) \/ Joined(r) \/ Quit(r) \/ Finish(r)

Introduce(r) ==
  \/ Join(r) \/ Arrive(r) \/ Await(r) \/ GiveUp(r) \/ Hear(r) \/ Silent(r)
  \/ Settle(r) \/ Decide(r) \/ Say(r) \/ Leave(r) \/ Pop(r) \/ Forget(r)

Next ==
  \/ \E r \in Role : Dial(r) \/ Half(r) \/ Introduce(r)
  \/ \E c \in Conn : Offer(c) \/ Claim(c) \/ \E r \in Role : Keep(r, c)
  \/ Carry \/ Spliced \/ Rest
  \/ Tick

Spec == Init /\ [][Next]_vars

\* Every wait of a half and of the broker has a limit but for a session carried, which ends.
FairSpec ==
  /\ Spec
  /\ \A r \in Role : WF_vars(Half(r)) /\ WF_vars(Introduce(r))
  /\ WF_vars(Carry \/ Spliced) /\ WF_vars(Rest) /\ WF_vars(Tick)

-----------------------------------------------------------------------------
(* Properties. *)

TypeOK ==
  /\ half \in [Role -> {"away", "direct", "relay", "failed"} \cup Going]
  /\ closed \in [Role -> BOOLEAN]
  /\ reach \in [Role -> Conn \cup {None}]
  /\ word \in [Role -> {"none", "direct", "alone"}]
  /\ offered \subseteq Conn /\ claimed \in BOOLEAN /\ oked \subseteq offered
  /\ won \in [Role -> SUBSET oked]
  /\ thread \in [Role -> Thread]
  /\ clock \in [Role -> 0..(Punching + Answering)]
  /\ mine \in [Role -> Pair \cup {None}]
  /\ heard \in [Role -> BOOLEAN]
  /\ peer \in [Role -> {"none", "window", "skip"}]
  /\ go \in [Role -> {"none", "direct", "relay", "no"}]
  /\ held \in Pair \cup {None}
  /\ made \in 0..2
  /\ halves \in [Pair -> SUBSET Role]
  /\ arrived \in [Pair -> SUBSET Role]
  /\ answered \in [Pair -> SUBSET Role]
  /\ told \in [Pair -> SUBSET Role]
  /\ verdicts \in [Pair -> SUBSET Role]
  /\ done \in [Pair -> BOOLEAN]
  /\ joined \in [Pair -> {"open", "direct", "relay"}]

\* "Two halves disagreeing about which pipe the session is on is a session that hangs with
\* both of them certain they are right" (dial): never is one direct and the other carried,
\* and two that are direct hold the two ends of one connection (_greet, claimed).
Agreement ==
  \A r \in Role :
    half[r] = "direct" =>
      /\ half[Opposite(r)] # "relay"
      /\ half[Opposite(r)] = "direct" => reach[Opposite(r)] = reach[r]

\* Nothing of the session is carried to a half before it has been told that it will be, but
\* to one the broker has given up (_Pair.carry, told).
NoneEarly ==
  At("anchor", "splicing") =>
    \A r \in Role :
      go[r] = "relay" \/ thread[r] \in {"leaving", "popping", "forgetting", "ended"}

\* The broker is left with no meeting: whatever its halves do, each thread is released by
\* the other's leaving, and the last takes the meeting away (_Pair.leave, _forget).
NoneKept == []<>(held = None)

\* The broker and the halves implement Introduction.
Ended(r) == IF half[r] \in {"direct", "relay", "failed"} THEN half[r] ELSE "going"
Decided ==
  IF \E p \in Pair : joined[p] = "direct" THEN "direct"
  ELSE IF \E p \in Pair : joined[p] = "relay" THEN "relay" ELSE "open"

Meeting == INSTANCE Introduction WITH
  reached <- reach, decided <- Decided, ended <- [r \in Role |-> Ended(r)]

\* However its threads and its halves interleave, a meeting is decided once, for both.
Introduces == Meeting!Spec
=============================================================================
