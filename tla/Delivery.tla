------------------------------ MODULE Delivery ------------------------------
(***************************************************************************)
(* How a host tells the frontends attached to it what happens              *)
(* (runtime/doing/hosting.py): the history one that arrives is given, an   *)
(* outbox and a thread apiece, the ceiling past which one is let go, and   *)
(* what letting it go says to the others.                                  *)
(*                                                                         *)
(* Whatever a thread does under the host's lock is a list of things still  *)
(* to do: saying something may let somebody go, which says something.  The *)
(* threads that empty the outboxes never take that lock, and go on between *)
(* any two of them.  Of the state said as it stands there are two kinds,   *)
(* who is attached and who holds the one role; the rest are said the same  *)
(* way, as are the welcome and what a request answers.                     *)
(***************************************************************************)
EXTENDS Naturals, FiniteSets, Sequences

CONSTANTS
  Frontend,  \* those that ever attach, each once
  Stuck,     \* those that never finish with the first thing they are handed, the welcome
  Claimant,  \* those that claim the role
  None,
  MaxSeq,    \* how much happens
  MaxClaim,  \* how many claims are asked for
  Kept,      \* how much of it is kept for whoever arrives late (_KEPT)
  Behind     \* how much may be in an outbox (_BEHIND)

\* "A whole replay fits under it": what is kept, and the state and the word that follow it.
ASSUME DeliveryAssumption ==
  /\ IsFiniteSet(Frontend) /\ Stuck \cup Claimant \subseteq Frontend /\ None \notin Frontend
  /\ MaxSeq \in Nat /\ MaxClaim \in Nat
  /\ Kept \in Nat \ {0} /\ Behind \in Nat /\ Behind >= Kept + 3

VARIABLES
  (* The host, under its lock. *)
  seq,       \* how much has happened
  elided,    \* how much of that is no longer kept
  snaps,     \* each kind of state as it was last said
  presence,  \* whether each frontend is "new", "here" or "gone"
  owner,     \* who holds the role
  closed,
  todo,      \* what the thread holding the lock has still to do
  asking,    \* the frontends found to be attached, whose claim is still to be seen to
  asked,     \* how many claims were asked for
  (* Each frontend (_Frontend). *)
  outbox,
  thread,    \* whether its thread is "off", "on" or "over", or "busy" handing it something
  told       \* what it was told, last of each kind, with what it is being handed

hostVars == <<seq, elided, snaps, presence, owner, closed, todo>>
askVars == <<asking, asked>>
threadVars == <<thread, told>>
vars == <<hostVars, askVars, outbox, threadVars>>

Record(n) == [kind |-> "record", is |-> n]
Clients(fs) == [kind |-> "clients", is |-> fs]
Claims(f) == [kind |-> "claims", is |-> f]
Live(n, gone) == [kind |-> "live", is |-> n, elided |-> gone]
Gone == [kind |-> "gone"]

Here == {f \in Frontend : presence[f] = "here"}
Free == todo = <<>>

\* What a thread holding the lock may have to do.
ToSnapClients(but) == [do |-> "clients", but |-> but]
ToSnapClaims == [do |-> "claims"]
ToLetGo(fs, keep) == IF fs = {} THEN <<>> ELSE <<[do |-> "let go", of |-> fs, keep |-> keep]>>
ToWelcome(f) == [do |-> "welcome", of |-> f]
ToShut == [do |-> "shut"]

-----------------------------------------------------------------------------
(* Saying things. *)

\* _broadcast: to all but one, and whoever is too far behind to take it is let go before
\* whatever was next.
Broadcast(m, but, next) ==
  LET to == Here \ {but}
      behind == {f \in to : Len(outbox[f]) + 1 > Behind}
  IN /\ outbox' = [f \in Frontend |-> IF f \in to THEN Append(outbox[f], m) ELSE outbox[f]]
     /\ todo' = ToLetGo(behind, FALSE) \o next

\* What is kept once one more thing has happened: the oldest goes first, and is counted.
Trimmed == IF seq + 1 - elided > Kept THEN seq + 1 - Kept ELSE elided

\* _record.
Happens ==
  /\ Free /\ ~closed /\ seq < MaxSeq
  /\ seq' = seq + 1
  /\ elided' = Trimmed
  /\ Broadcast(Record(seq + 1), None, <<>>)
  /\ UNCHANGED <<snaps, presence, owner, closed, askVars, threadVars>>

\* _snap_clients, which says nothing where nothing changed.
SnapClients ==
  /\ todo # <<>> /\ Head(todo).do = "clients"
  /\ IF snaps.clients = Here THEN todo' = Tail(todo) /\ UNCHANGED <<snaps, outbox>>
     ELSE /\ snaps' = [snaps EXCEPT !.clients = Here]
          /\ Broadcast(Clients(Here), Head(todo).but, Tail(todo))
  /\ UNCHANGED <<seq, elided, presence, owner, closed, askVars, threadVars>>

\* _snap_claims.
SnapClaims ==
  /\ todo # <<>> /\ Head(todo).do = "claims"
  /\ IF snaps.claims = owner THEN todo' = Tail(todo) /\ UNCHANGED <<snaps, outbox>>
     ELSE /\ snaps' = [snaps EXCEPT !.claims = owner]
          /\ Broadcast(Claims(owner), None, Tail(todo))
  /\ UNCHANGED <<seq, elided, presence, owner, closed, askVars, threadVars>>

-----------------------------------------------------------------------------
(* Frontends coming and going. *)

\* A mutant: the first of what is kept is left out.
Replay_Late == [n \in 1..(IF seq = elided THEN 0 ELSE seq - elided - 1) |-> Record(elided + 1 + n)]

Replay == [n \in 1..(seq - elided) |-> Record(elided + n)]

\* attach: the run so far first, and everybody else hears of it,
Attach(f) ==
  /\ Free /\ ~closed /\ presence[f] = "new"
  /\ presence' = [presence EXCEPT ![f] = "here"]
  /\ outbox' = [outbox EXCEPT ![f] = Replay]
  /\ todo' = <<ToSnapClients(f), ToWelcome(f)>>
  /\ told' = [told EXCEPT ![f].seq = elided, ![f].from = elided]
  /\ UNCHANGED <<seq, elided, snaps, owner, closed, askVars, thread>>

\* then the state of everything as it stands, and that it is told each thing from here on.
Welcome ==
  /\ todo # <<>> /\ Head(todo).do = "welcome"
  /\ LET f == Head(todo).of
         state == <<Clients(snaps.clients), Claims(snaps.claims), Live(seq, elided)>>
     IN /\ outbox' = [outbox EXCEPT ![f] = IF f \in Here THEN @ \o state ELSE @]
        /\ thread' = [thread EXCEPT ![f] = IF f \in Stuck THEN "busy" ELSE "on"]
  /\ todo' = Tail(todo)
  /\ UNCHANGED <<seq, elided, snaps, presence, owner, closed, askVars, told>>

\* A mutant: nobody is told whose claims went.
GoneSays_Clients == <<ToSnapClients(None)>>

GoneSays == <<ToSnapClients(None), ToSnapClaims>>

\* A mutant: what it is told last goes the way of the rest.
LastWords_Cleared(f, keep) == IF keep THEN Append(outbox[f], Gone) ELSE <<>>

LastWords(f, keep) == Append(IF keep THEN outbox[f] ELSE <<>>, Gone)

\* _let_go of one, and then of the others: once each, however it is come to.
LetGo ==
  /\ todo # <<>> /\ Head(todo).do = "let go"
  /\ \E f \in Head(todo).of :
       LET rest == ToLetGo(Head(todo).of \ {f}, Head(todo).keep) \o Tail(todo)
       IN IF f \notin Here THEN todo' = rest /\ UNCHANGED <<presence, owner, outbox>>
          ELSE /\ presence' = [presence EXCEPT ![f] = "gone"]
               /\ outbox' = [outbox EXCEPT ![f] = LastWords(f, Head(todo).keep)]
               /\ owner' = IF owner = f THEN None ELSE owner
               /\ todo' = GoneSays \o rest
  /\ UNCHANGED <<seq, elided, snaps, closed, askVars, threadVars>>

\* detach, by itself or as its link is lost.
Detach(f) ==
  /\ Free /\ f \in Here
  /\ todo' = ToLetGo({f}, FALSE)
  /\ UNCHANGED <<seq, elided, snaps, presence, owner, closed, askVars, outbox, threadVars>>

\* _close: each is let go, with what it was told before.
Close ==
  /\ Free /\ ~closed
  /\ todo' = ToLetGo(Here, TRUE) \o <<ToShut>>
  /\ UNCHANGED <<seq, elided, snaps, presence, owner, closed, askVars, outbox, threadVars>>

Shut ==
  /\ todo # <<>> /\ Head(todo).do = "shut"
  /\ closed' = TRUE
  /\ todo' = Tail(todo)
  /\ UNCHANGED <<seq, elided, snaps, presence, owner, askVars, outbox, threadVars>>

\* asked: it is found to be attached, and the lock let go of,
Asks(f) ==
  /\ Free /\ f \in (Here \cap Claimant) \ asking /\ asked < MaxClaim
  /\ asking' = asking \cup {f}
  /\ asked' = asked + 1
  /\ UNCHANGED <<hostVars, outbox, threadVars>>

\* before _claim takes it again: it is another's, or now its own.
Claim(f) ==
  /\ Free /\ f \in asking
  /\ asking' = asking \ {f}
  /\ \/ /\ owner \in {None, f}
        /\ owner' = f
        /\ todo' = <<ToSnapClaims>>
     \/ owner \notin {None, f} /\ UNCHANGED <<owner, todo>>
  /\ UNCHANGED <<seq, elided, snaps, presence, closed, asked, outbox, threadVars>>

-----------------------------------------------------------------------------
(* The thread of each (_delivers), under no lock but its own. *)

Take(f) ==
  /\ thread[f] = "on" /\ outbox[f] # <<>>
  /\ LET m == Head(outbox[f])
     IN told' = [told EXCEPT ![f] =
          CASE m.kind = "record" -> [@ EXCEPT !.seq = m.is]
            [] m.kind = "clients" -> [@ EXCEPT !.clients = m.is]
            [] m.kind = "claims" -> [@ EXCEPT !.claims = m.is]
            [] m.kind = "live" -> @
            [] m.kind = "gone" -> [@ EXCEPT !.gone = TRUE]]
  /\ outbox' = [outbox EXCEPT ![f] = Tail(@)]
  /\ thread' = [thread EXCEPT ![f] = "busy"]
  /\ UNCHANGED <<hostVars, askVars>>

\* It may take as long as it likes over what it is handed.
Heard(f) ==
  /\ f \notin Stuck
  /\ thread[f] = "busy"
  /\ thread' = [thread EXCEPT ![f] = IF told[f].gone THEN "over" ELSE "on"]
  /\ UNCHANGED <<hostVars, askVars, outbox, told>>

-----------------------------------------------------------------------------
Nothing == [seq |-> 0, from |-> 0, clients |-> {}, claims |-> None, gone |-> FALSE]

Init ==
  /\ seq = 0 /\ elided = 0
  /\ snaps = [clients |-> {}, claims |-> None]
  /\ presence = [f \in Frontend |-> "new"]
  /\ owner = None /\ closed = FALSE /\ todo = <<>>
  /\ asking = {} /\ asked = 0
  /\ outbox = [f \in Frontend |-> <<>>]
  /\ thread = [f \in Frontend |-> "off"]
  /\ told = [f \in Frontend |-> Nothing]

\* What the thread holding the lock does next.
Locked == SnapClients \/ SnapClaims \/ Welcome \/ LetGo \/ Shut

Next ==
  \/ Locked
  \/ Happens \/ Close
  \/ \E f \in Frontend : Attach(f) \/ Detach(f) \/ Asks(f) \/ Claim(f) \/ Take(f) \/ Heard(f)

Spec == Init /\ [][Next]_vars

\* Threads go on, but for those of the frontends that are stuck.
FairSpec ==
  /\ Spec
  /\ WF_vars(Locked)
  /\ \A f \in Frontend : WF_vars(Take(f)) /\ WF_vars(Heard(f))

-----------------------------------------------------------------------------
(* Properties. *)

Message ==
  {Record(n) : n \in 1..MaxSeq} \cup {Clients(fs) : fs \in SUBSET Frontend}
    \cup {Claims(f) : f \in Frontend \cup {None}}
    \cup {Live(n, gone) : n \in 0..MaxSeq, gone \in 0..MaxSeq} \cup {Gone}

\* The types of the state; no more is kept of what happened than is to be.
TypeOK ==
  /\ seq \in 0..MaxSeq /\ elided \in 0..seq /\ seq - elided <= Kept
  /\ snaps \in [clients : SUBSET Frontend, claims : Frontend \cup {None}]
  /\ presence \in [Frontend -> {"new", "here", "gone"}]
  /\ owner \in Frontend \cup {None} /\ closed \in BOOLEAN
  /\ asking \subseteq Frontend /\ asked \in 0..MaxClaim
  /\ outbox \in [Frontend -> Seq(Message)]
  /\ thread \in [Frontend -> {"off", "on", "busy", "over"}]
  /\ told \in [Frontend -> [seq : 0..MaxSeq, from : 0..MaxSeq, clients : SUBSET Frontend,
                            claims : Frontend \cup {None}, gone : BOOLEAN]]

\* Whether one that is attached was told everything: what happened, and how things stand.
UpToDate(f) ==
  told[f].seq = seq /\ told[f].clients = Here /\ told[f].claims = owner

\* Whatever letting frontends go in the middle of a broadcast says to the others, and in what
\* order: one with nothing more to be told was told how things stand (_snap, _let_go).
Current ==
  \A f \in Here : Free /\ outbox[f] = <<>> => UpToDate(f)

\* A frontend told that it is live was told the run up to there, but for what it is told was
\* left out, however much was said as it attached (attach).
LiveIsExact ==
  \A f \in Frontend :
    outbox[f] # <<>> /\ Head(outbox[f]).kind = "live" =>
      Head(outbox[f]).is = told[f].seq /\ Head(outbox[f]).elided = told[f].from

\* One that reads is told everything, or that it was let go, though another never reads again
\* and each outbox has a ceiling (_delivers, _let_go).
Heeded ==
  \A f \in Frontend \ Stuck :
    []<>(presence[f] = "new" \/ told[f].gone \/ (f \in Here /\ UpToDate(f)))

\* A claim is "given up when it goes" (hosting.py): none is held by a frontend let go.
ClaimGivenUp == Free /\ owner # None => owner \in Here

\* Each frontend reads what happens from some place on, in order and each thing once.
Promise ==
  INSTANCE Feed WITH
    Frontend <- Frontend,
    happened <- seq,
    state <- [f \in Frontend |-> IF presence[f] = "new" THEN "out"
                                 ELSE IF thread[f] = "over" THEN "gone" ELSE "reading"],
    place <- [f \in Frontend |-> told[f].seq]

Implements == Promise!Spec
=============================================================================
