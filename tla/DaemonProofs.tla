---------------------------- MODULE DaemonProofs ----------------------------
(***************************************************************************)
(* Proofs about Daemon, for any number of daemons, hosts and frontends,    *)
(* and of processes killed and waits too short: but for the last of them   *)
(* none rests on a wait being long enough.                                 *)
(*                                                                         *)
(* The lock makes the daemon there the only one (Ruled); what a daemon     *)
(* holds makes the host there the only one (Alone); what a host is told    *)
(* first makes sure of the sockets that follow (Worded), and each socket   *)
(* is in one place (Seated), so that its frontend is let go of from there. *)
(*                                                                         *)
(* Without a fault, whoever reaches for the runs gets there: each time it  *)
(* fails is put down to a frontend that is done or to the daemon there is  *)
(* (Accounts), of which there are not enough for it to give up.            *)
(***************************************************************************)
EXTENDS Daemon, FiniteSetTheorems, TLAPS

\* A frontend reaches for its host no more once it has failed.
Reaching == \A f \in Frontend : at[f] # "failed" => tries[f].attach <= Attaches

\* What answers a frontend that is still to be handed on is a daemon.
Backlogged == \A f \in Frontend : call[f].stage = "backlog" => call[f].by \in Daemon

\* Between taking the lock and leaving it.
Holding == {"locked", "bound", "serving", "ending", "closed", "unlinked"}

\* Who is there holds the lock, and who listens has its socket at the path.
Ruled ==
  /\ \A d \in Daemon : daemon[d] \in Holding => lock = d
  /\ Reachable

\* How far a host is once it has been listed, and once it has heard so.
Listed == {"listed", "told", "up", "going", "closed", "hung", "over"}
Heard == {"up", "going", "closed", "hung", "over"}

\* The host a daemon holds was listed, and one that has a frontend's socket has heard so.
Placed ==
  /\ \A d \in Daemon : held[d] # 0 => host[held[d]] \in Listed
  /\ \A f \in Frontend :
       /\ call[f].stage = "handing" => call[f].by \in Host /\ host[call[f].by] \in Listed
       /\ call[f].stage \in {"reading", "hello", "joined"} =>
            call[f].by \in Host /\ host[call[f].by] \in Heard

\* The first thing down a host's connection is the word.
Worded ==
  \A h \in Host :
    /\ host[h] \in {"none", "started", "asking", "listed"} => line[h] = <<>>
    /\ host[h] = "told" => line[h] # <<>> /\ Head(line[h]) = Word

\* A host that may have frontends is the one its daemon holds, and a daemon is there before it
\* is reached.
Alone ==
  \A h \in Host :
    /\ host[h] \in {"listed", "told", "up", "going"} /\ DaemonThere(h) => held[of[h]] = h
    /\ members[h] # {} => host[h] \in {"up", "going"}
    /\ of[h] # 0 => daemon[of[h]] \notin {"none", "started", "locked"}

\* The places of a frontend in what is on its way down to a host.
Places(f, h) == {i \in 1..Len(line[h]) : line[h][i] = f}

\* A frontend's socket is in one place: on its way down, or where it is being attached.
Seated ==
  \A f \in Frontend :
    /\ at[f] \notin {"hello", "attached", "left"} => call[f].stage = "none"
    /\ \A h \in Host : HostThere(h) =>
         /\ f \in members[h] =>
              /\ call[f].by = h
              /\ call[f].stage = "hello" \/ (call[f].stage = "joined" /\ call[f].listed)
         /\ Places(f, h) # {} => call[f].by = h /\ call[f].stage = "sent"
         /\ \A i, j \in Places(f, h) : i = j

IInv == TypeOK /\ Reaching /\ Backlogged /\ Ruled /\ Placed /\ Worded /\ Alone /\ Seated

-----------------------------------------------------------------------------
(* The directory. *)

LEMMA RuledKept == TypeOK /\ Ruled /\ [Next]_vars => Ruled'
<1> SUFFICES ASSUME TypeOK, Ruled, [Next]_vars PROVE Ruled'
  OBVIOUS
<1> USE DaemonAssumption DEF TypeOK, Ruled, Reachable, Holding, daemonVars, placeVars
<1>1. ASSUME NEW d \in Daemon, Locks(d) PROVE Ruled'
  <2> HIDE DEF TypeOK
  <2>1. daemon \in [Daemon -> {"none", "started", "locked", "bound", "serving", "ending", "closed",
                              "unlinked", "over"}]
    BY ONLY TypeOK DEF TypeOK
  <2>2. daemon[d] = "started" /\ UNCHANGED sock
    BY ONLY <1>1 DEF Locks
  <2>3. CASE Free
    <3>1. lock' = d /\ daemon' = [daemon EXCEPT ![d] = "locked"]
      BY ONLY <1>1, <2>3 DEF Locks
    <3>2. \A e \in Daemon : e # d => daemon[e] \notin Holding
      BY ONLY <2>3, Ruled DEF Ruled, Free, Holding, Daemon
    <3> QED
      BY <3>1, <3>2, <2>1, <2>2
  <2>4. CASE ~Free
    <3>1. daemon' = [daemon EXCEPT ![d] = "over"] /\ UNCHANGED lock
      BY ONLY <1>1, <2>4 DEF Locks
    <3> QED
      BY <3>1, <2>1, <2>2
  <2> QED
    BY ONLY <2>3, <2>4
<1>2. ASSUME NEW d \in Daemon, Binds(d) PROVE Ruled'
  BY <1>2 DEF Binds
<1>3. ASSUME NEW d \in Daemon, Serves(d) PROVE Ruled'
  BY <1>3 DEF Serves
<1>4. ASSUME NEW d \in Daemon, GoesIdle(d) PROVE Ruled'
  BY <1>4 DEF GoesIdle
<1>5. ASSUME NEW d \in Daemon, Closes(d) PROVE Ruled'
  BY <1>5 DEF Closes
<1>6. ASSUME NEW d \in Daemon, Unlinks(d) PROVE Ruled'
  BY <1>6 DEF Unlinks
<1>7. ASSUME NEW d \in Daemon, Exits(d) PROVE Ruled'
  BY <1>7 DEF Exits
<1>8. ASSUME NEW d \in Daemon, Terminated(d) PROVE Ruled'
  BY <1>8 DEF Terminated
<1>9. ASSUME NEW d \in Daemon, DaemonKilled(d) PROVE Ruled'
  BY <1>9 DEF DaemonKilled
<1>10. ASSUME NEW f \in Frontend, Machine(f) PROVE Ruled'
  BY <1>10, SMTT(40) DEF Machine, Goes
<1>11. CASE UNCHANGED <<placeVars, daemon>>
  BY <1>11
<1>12. ASSUME NEW d \in Daemon,
            Forgets(d)
      PROVE  UNCHANGED <<placeVars, daemon>>
  BY <1>12 DEF Forgets, vars
<1>13. ASSUME NEW h \in Host,
            Says(h) \/ TakesOn(h) \/ Tells(h) \/ Refused(h) \/ Hears(h) \/ Arrives(h)
            \/ GoesOn(h) \/ Ends(h) \/ Hangs(h) \/ Finishes(h) \/ HostKilled(h)
      PROVE  UNCHANGED <<placeVars, daemon>>
  BY <1>13 DEF Says, TakesOn, Tells, Refused, Hears, Arrives, GoesOn, Ends, Hangs, Finishes,
     HostKilled, vars
<1>14. ASSUME NEW f \in Frontend,
            Hands(f) \/ HandsOver(f) \/ Drops(f) \/ Attached(f) \/ Joins(f) \/ Looks(f)
            \/ Raised(f) \/ Starts(f) \/ Hosted(f) \/ Links(f) \/ Fails(f) \/ Retries(f)
            \/ Begins(f) \/ Leaves(f)
      PROVE  UNCHANGED <<placeVars, daemon>>
  BY <1>14 DEF Hands, HandsOver, Drops, Attached, Joins, Looks, Raised, Starts, Hosted, Links,
     Fails, Retries, Begins, Leaves, GivesUp, TriesAgain, Goes, vars
<1>15. UNCHANGED vars => UNCHANGED <<placeVars, daemon>>
  BY DEF vars
<1> QED
  BY <1>1, <1>2, <1>3, <1>4, <1>5, <1>6, <1>7, <1>8, <1>9, <1>10, <1>11, <1>12, <1>13,
     <1>14, <1>15 DEF Next, DaemonStep, HostStep, CallStep, FrontendStep

-----------------------------------------------------------------------------
(* The types. *)

\* TypeOK, and what it needs to be kept, by whose state it is: the daemons,
DTypes ==
  /\ lock \in 0..MaxDaemon /\ sock \in 0..MaxDaemon /\ record \in 0..MaxDaemon
  /\ daemon \in [Daemon -> {"none", "started", "locked", "bound", "serving", "ending", "closed",
                            "unlinked", "over"}]
  /\ held \in [Daemon -> 0..MaxHost]

\* the hosts, their lines and who was ever there,
HTypes ==
  /\ host \in [Host -> {"none", "started", "asking", "listed", "told", "up", "going", "closed",
                        "hung", "over"}]
  /\ of \in [Host -> 0..MaxDaemon]
  /\ members \in [Host -> SUBSET Frontend]

LTypes == line \in [Host -> Seq(Frontend \cup {Word})]
ETypes == ever \in [Host -> BOOLEAN]

\* the frontends,
ATypes ==
  /\ at \in [Frontend -> OnTheirWay \cup {"out", "tick", "again", "attached", "left", "failed"}]
  /\ tries \in [Frontend -> [attach : 1..(Attaches + 1), host : 1..Tries]]
  /\ forked \in [Frontend -> 0..MaxDaemon \cup 0..MaxHost]
  /\ Reaching

\* and that of their sockets.
Stage ==
  {"none", "backlog", "handing", "sent", "reading", "hello", "joined", "lost", "refused"}
Call == [stage : Stage, by : 0..MaxDaemon \cup 0..MaxHost, listed : BOOLEAN]
CTypes == call \in [Frontend -> Call] /\ Backlogged

LEMMA Parts ==
  TypeOK /\ Reaching /\ Backlogged <=>
    DTypes /\ HTypes /\ LTypes /\ ETypes /\ ATypes /\ CTypes /\ faults \in 0..MaxFault
BY DEF TypeOK, DTypes, HTypes, LTypes, ETypes, ATypes, CTypes, Call, Stage

\* What becomes of a frontend's socket is of its type.
LEMMA Calls ==
  ASSUME NEW s \in Stage, NEW by \in 0..MaxDaemon \cup 0..MaxHost
  PROVE  On(s, by) \in Call
<1>1. (s = "reading") \in BOOLEAN
  OBVIOUS
<1> QED
  BY <1>1 DEF On, Call

LEMMA NoCalls == NoCall \in Call
BY DaemonAssumption DEF NoCall, Call, Stage

LEMMA Stages ==
  ASSUME NEW c \in Call
  PROVE  /\ \A s \in Stage : [c EXCEPT !.stage = s] \in Call
         /\ [c EXCEPT !.listed = FALSE] \in Call
BY DEF Call


LEMMA DTypesKept == DTypes /\ [Next]_vars => DTypes'
<1> SUFFICES ASSUME DTypes, [Next]_vars PROVE DTypes'
  OBVIOUS
<1> USE DaemonAssumption DEF DTypes, Daemon, Host, daemonVars, placeVars, hostVars, frontendVars
<1>1. ASSUME NEW d \in Daemon, Locks(d) PROVE DTypes'
  <2>1. \/ lock' = d /\ daemon' = [daemon EXCEPT ![d] = "locked"]
        \/ lock' = lock /\ daemon' = [daemon EXCEPT ![d] = "over"]
    BY ONLY <1>1 DEF Locks
  <2>2. UNCHANGED <<sock, record, held>>
    BY ONLY <1>1 DEF Locks
  <2> QED
    BY <1>1, <2>1, <2>2
<1>2. ASSUME NEW d \in Daemon, Binds(d) PROVE DTypes'
  BY <1>2 DEF Binds
<1>3. ASSUME NEW d \in Daemon, Serves(d) PROVE DTypes'
  BY <1>3 DEF Serves
<1>4. ASSUME NEW d \in Daemon, GoesIdle(d) PROVE DTypes'
  BY <1>4 DEF GoesIdle
<1>5. ASSUME NEW d \in Daemon, Closes(d) PROVE DTypes'
  BY <1>5 DEF Closes
<1>6. ASSUME NEW d \in Daemon, Unlinks(d) PROVE DTypes'
  BY <1>6 DEF Unlinks
<1>7. ASSUME NEW d \in Daemon, Exits(d) PROVE DTypes'
  BY <1>7 DEF Exits
<1>8. ASSUME NEW d \in Daemon, Forgets(d) PROVE DTypes'
  BY <1>8 DEF Forgets
<1>9. ASSUME NEW d \in Daemon, Terminated(d) PROVE DTypes'
  BY <1>9 DEF Terminated
<1>10. ASSUME NEW d \in Daemon, DaemonKilled(d) PROVE DTypes'
  BY <1>10 DEF DaemonKilled
<1>11. ASSUME NEW h \in Host, TakesOn(h) PROVE DTypes'
  BY <1>11, SMTT(40) DEF TakesOn, Taken
<1>12. ASSUME NEW f \in Frontend, Machine(f) PROVE DTypes'
  BY <1>12 DEF Machine, Goes
<1>13. CASE UNCHANGED <<placeVars, daemon, held>>
  BY <1>13
<1>14. ASSUME NEW h \in Host,
            Says(h) \/ Tells(h) \/ Refused(h) \/ Hears(h) \/ Arrives(h) \/ GoesOn(h) \/ Ends(h)
            \/ Hangs(h) \/ Finishes(h) \/ HostKilled(h)
      PROVE  UNCHANGED <<placeVars, daemon, held>>
  BY <1>14 DEF Says, Tells, Refused, Hears, Arrives, GoesOn, Ends, Hangs, Finishes, HostKilled,
     vars
<1>15. ASSUME NEW f \in Frontend,
            Hands(f) \/ HandsOver(f) \/ Drops(f) \/ Attached(f) \/ Joins(f) \/ Looks(f)
            \/ Raised(f) \/ Starts(f) \/ Hosted(f) \/ Links(f) \/ Fails(f) \/ Retries(f)
            \/ Begins(f) \/ Leaves(f)
      PROVE  UNCHANGED <<placeVars, daemon, held>>
  BY <1>15 DEF Hands, HandsOver, Drops, Attached, Joins, Looks, Raised, Starts, Hosted, Links,
     Fails, Retries, Begins, Leaves, GivesUp, TriesAgain, Goes, vars
<1>16. UNCHANGED vars => UNCHANGED <<placeVars, daemon, held>>
  BY DEF vars
<1> QED
  BY <1>1, <1>2, <1>3, <1>4, <1>5, <1>6, <1>7, <1>8, <1>9, <1>10, <1>11, <1>12, <1>13,
     <1>14, <1>15, <1>16 DEF Next, DaemonStep, HostStep, CallStep, FrontendStep

LEMMA HTypesKept == DTypes /\ HTypes /\ [Next]_vars => HTypes'
<1> SUFFICES ASSUME DTypes, HTypes, [Next]_vars PROVE HTypes'
  OBVIOUS
<1> USE DaemonAssumption DEF DTypes, HTypes, Daemon, Host, daemonVars, placeVars, hostVars,
     frontendVars
<1>1. ASSUME NEW h \in Host, Says(h) PROVE HTypes'
  <2>1. \/ host' = [host EXCEPT ![h] = "asking"] /\ of' = [of EXCEPT ![h] = sock]
        \/ host' = [host EXCEPT ![h] = "over"] /\ of' = of
    BY ONLY <1>1 DEF Says
  <2>2. members' = members
    BY ONLY <1>1 DEF Says
  <2>3. sock \in 0..MaxDaemon
    BY ONLY DTypes DEF DTypes
  <2> HIDE DEF DTypes
  <2> QED
    BY <1>1, <2>1, <2>2, <2>3
<1>2. ASSUME NEW h \in Host, TakesOn(h) PROVE HTypes'
  BY <1>2 DEF TakesOn
<1>3. ASSUME NEW h \in Host, Tells(h) PROVE HTypes'
  BY <1>3 DEF Tells
<1>4. ASSUME NEW h \in Host, Refused(h) PROVE HTypes'
  BY <1>4 DEF Refused
<1>5. ASSUME NEW h \in Host, Hears(h) PROVE HTypes'
  BY <1>5 DEF Hears
<1>6. ASSUME NEW h \in Host, Arrives(h) PROVE HTypes'
  BY <1>6 DEF Arrives
<1>7. ASSUME NEW h \in Host, GoesOn(h) PROVE HTypes'
  BY <1>7 DEF GoesOn
<1>8. ASSUME NEW h \in Host, Ends(h) PROVE HTypes'
  BY <1>8 DEF Ends
<1>9. ASSUME NEW h \in Host, Hangs(h) PROVE HTypes'
  BY <1>9 DEF Hangs
<1>10. ASSUME NEW h \in Host, Finishes(h) PROVE HTypes'
  BY <1>10 DEF Finishes
<1>11. ASSUME NEW h \in Host, HostKilled(h) PROVE HTypes'
  BY <1>11 DEF HostKilled
<1>12. ASSUME NEW f \in Frontend, Drops(f) PROVE HTypes'
  BY <1>12 DEF Drops
<1>13. ASSUME NEW f \in Frontend, Attached(f) PROVE HTypes'
  <2>1. members' = members
        \/ members' = [members EXCEPT ![call[f].by] = members[call[f].by] \cup {f}]
    BY ONLY <1>13 DEF Attached
  <2>2. host' = host /\ of' = of
    BY ONLY <1>13 DEF Attached
  <2>3. members' \in [Host -> SUBSET Frontend]
    <3>1. members \in [Host -> SUBSET Frontend]
      BY ONLY HTypes DEF HTypes
    <3>2. ASSUME NEW h, members' = [members EXCEPT ![h] = members[h] \cup {f}]
          PROVE  members' \in [Host -> SUBSET Frontend]
      <4>1. h \in Host => members[h] \cup {f} \in SUBSET Frontend
        BY ONLY <3>1, <1>13
      <4> QED
        BY ONLY <3>1, <3>2, <4>1
    <3> QED
      BY ONLY <2>1, <3>1, <3>2
  <2> QED
    BY ONLY <2>2, <2>3, HTypes DEF HTypes
<1>14. ASSUME NEW f \in Frontend, Joins(f) PROVE HTypes'
  BY <1>14, SMTT(40) DEF Joins
<1>15. ASSUME NEW f \in Frontend, Starts(f) PROVE HTypes'
  BY <1>15 DEF Starts, Goes
<1>16. CASE UNCHANGED <<host, of, members>>
  BY <1>16
<1>17. ASSUME NEW d \in Daemon,
            Locks(d) \/ Binds(d) \/ Serves(d) \/ GoesIdle(d) \/ Closes(d) \/ Unlinks(d)
            \/ Exits(d) \/ Forgets(d) \/ Terminated(d) \/ DaemonKilled(d)
      PROVE  UNCHANGED <<host, of, members>>
  BY <1>17 DEF Locks, Binds, Serves, GoesIdle, Closes, Unlinks, Exits, Forgets, Terminated,
     DaemonKilled, vars
<1>18. ASSUME NEW f \in Frontend,
            Hands(f) \/ HandsOver(f) \/ Looks(f) \/ Machine(f) \/ Raised(f) \/ Hosted(f)
            \/ Links(f) \/ Fails(f) \/ Retries(f) \/ Begins(f) \/ Leaves(f)
      PROVE  UNCHANGED <<host, of, members>>
  BY <1>18 DEF Hands, HandsOver, Looks, Machine, Raised, Hosted, Links, Fails, Retries, Begins,
     Leaves, GivesUp, TriesAgain, Goes, vars
<1>19. UNCHANGED vars => UNCHANGED <<host, of, members>>
  BY DEF vars
<1> QED
  BY <1>1, <1>2, <1>3, <1>4, <1>5, <1>6, <1>7, <1>8, <1>9, <1>10, <1>11, <1>12, <1>13,
     <1>14, <1>15, <1>16, <1>17, <1>18,
     <1>19 DEF Next, DaemonStep, HostStep, CallStep, FrontendStep

LEMMA LTypesKept == LTypes /\ [Next]_vars => LTypes'
<1> SUFFICES ASSUME LTypes, [Next]_vars PROVE LTypes'
  OBVIOUS
<1> USE DaemonAssumption DEF LTypes, Daemon, Host, daemonVars, placeVars, hostVars, frontendVars
<1>1. ASSUME NEW h \in Host, Tells(h) PROVE LTypes'
  BY <1>1 DEF Tells
<1>2. ASSUME NEW h \in Host, Hears(h) PROVE LTypes'
  BY <1>2 DEF Hears
<1>3. ASSUME NEW h \in Host, Arrives(h) PROVE LTypes'
  BY <1>3 DEF Arrives
<1>4. ASSUME NEW f \in Frontend, HandsOver(f) PROVE LTypes'
  <2>1. CASE call[f].by \in Host
    <3>1. Append(line[call[f].by], f) \in Seq(Frontend \cup {Word})
      BY <2>1
    <3> QED
      BY <1>4, <3>1 DEF HandsOver
  <2>2. CASE call[f].by \notin Host
    BY <1>4, <2>2 DEF HandsOver
  <2> QED
    BY <2>1, <2>2
<1>5. CASE UNCHANGED line
  BY <1>5
<1>6. ASSUME NEW d \in Daemon,
            Locks(d) \/ Binds(d) \/ Serves(d) \/ GoesIdle(d) \/ Closes(d) \/ Unlinks(d)
            \/ Exits(d) \/ Forgets(d) \/ Terminated(d) \/ DaemonKilled(d)
      PROVE  UNCHANGED line
  BY <1>6 DEF Locks, Binds, Serves, GoesIdle, Closes, Unlinks, Exits, Forgets, Terminated,
     DaemonKilled, vars
<1>7. ASSUME NEW h \in Host,
            Says(h) \/ TakesOn(h) \/ Refused(h) \/ GoesOn(h) \/ Ends(h) \/ Hangs(h)
            \/ Finishes(h) \/ HostKilled(h)
      PROVE  UNCHANGED line
  BY <1>7 DEF Says, TakesOn, Refused, GoesOn, Ends, Hangs, Finishes, HostKilled, vars
<1>8. ASSUME NEW f \in Frontend,
            Hands(f) \/ Drops(f) \/ Attached(f) \/ Joins(f) \/ Looks(f) \/ Machine(f)
            \/ Raised(f) \/ Starts(f) \/ Hosted(f) \/ Links(f) \/ Fails(f) \/ Retries(f)
            \/ Begins(f) \/ Leaves(f)
      PROVE  UNCHANGED line
  BY <1>8 DEF Hands, Drops, Attached, Joins, Looks, Machine, Raised, Starts, Hosted, Links, Fails,
     Retries, Begins, Leaves, GivesUp, TriesAgain, Goes, vars
<1>9. UNCHANGED vars => UNCHANGED line
  BY DEF vars
<1> QED
  BY <1>1, <1>2, <1>3, <1>4, <1>5, <1>6, <1>7, <1>8,
     <1>9 DEF Next, DaemonStep, HostStep, CallStep, FrontendStep

LEMMA ETypesKept == ETypes /\ [Next]_vars => ETypes'
<1> SUFFICES ASSUME ETypes, [Next]_vars PROVE ETypes'
  OBVIOUS
<1> USE DaemonAssumption DEF ETypes, Daemon, Host, daemonVars, placeVars, hostVars, frontendVars
<1>1. ASSUME NEW f \in Frontend, Joins(f) PROVE ETypes'
  BY <1>1 DEF Joins
<1>2. CASE UNCHANGED ever
  BY <1>2
<1>3. ASSUME NEW d \in Daemon,
            Locks(d) \/ Binds(d) \/ Serves(d) \/ GoesIdle(d) \/ Closes(d) \/ Unlinks(d)
            \/ Exits(d) \/ Forgets(d) \/ Terminated(d) \/ DaemonKilled(d)
      PROVE  UNCHANGED ever
  BY <1>3 DEF Locks, Binds, Serves, GoesIdle, Closes, Unlinks, Exits, Forgets, Terminated,
     DaemonKilled, vars
<1>4. ASSUME NEW h \in Host,
            Says(h) \/ TakesOn(h) \/ Tells(h) \/ Refused(h) \/ Hears(h) \/ Arrives(h)
            \/ GoesOn(h) \/ Ends(h) \/ Hangs(h) \/ Finishes(h) \/ HostKilled(h)
      PROVE  UNCHANGED ever
  BY <1>4 DEF Says, TakesOn, Tells, Refused, Hears, Arrives, GoesOn, Ends, Hangs, Finishes,
     HostKilled, vars
<1>5. ASSUME NEW f \in Frontend,
            Hands(f) \/ HandsOver(f) \/ Drops(f) \/ Attached(f) \/ Looks(f) \/ Machine(f)
            \/ Raised(f) \/ Starts(f) \/ Hosted(f) \/ Links(f) \/ Fails(f) \/ Retries(f)
            \/ Begins(f) \/ Leaves(f)
      PROVE  UNCHANGED ever
  BY <1>5 DEF Hands, HandsOver, Drops, Attached, Looks, Machine, Raised, Starts, Hosted, Links,
     Fails, Retries, Begins, Leaves, GivesUp, TriesAgain, Goes, vars
<1>6. UNCHANGED vars => UNCHANGED ever
  BY DEF vars
<1> QED
  BY <1>1, <1>2, <1>3, <1>4, <1>5,
     <1>6 DEF Next, DaemonStep, HostStep, CallStep, FrontendStep

LEMMA ATypesKept == ATypes /\ [Next]_vars => ATypes'
<1> SUFFICES ASSUME ATypes, [Next]_vars PROVE ATypes'
  OBVIOUS
<1> USE DaemonAssumption DEF ATypes, Reaching, Daemon, Host, daemonVars, placeVars, hostVars,
     frontendVars
<1>1. ASSUME NEW h \in Host, Ends(h) PROVE ATypes'
  BY <1>1 DEF Ends, OnTheirWay, First
<1>2. ASSUME NEW h \in Host, HostKilled(h) PROVE ATypes'
  BY <1>2 DEF HostKilled, OnTheirWay, First
<1>3. ASSUME NEW f \in Frontend, Joins(f) PROVE ATypes'
  BY <1>3 DEF Joins, OnTheirWay, First
<1>4. ASSUME NEW f \in Frontend, Looks(f) PROVE ATypes'
  BY <1>4 DEF Looks, Goes, OnTheirWay, First
<1>5. ASSUME NEW f \in Frontend, Machine(f) PROVE ATypes'
  BY <1>5, SMTT(40) DEF Machine, Goes, OnTheirWay, First
<1>6. ASSUME NEW f \in Frontend, Raised(f) PROVE ATypes'
  BY <1>6 DEF Raised, GivesUp, TriesAgain, Again, Goes, OnTheirWay, First
<1>7. ASSUME NEW f \in Frontend, Starts(f) PROVE ATypes'
  BY <1>7, SMTT(40) DEF Starts, Goes, OnTheirWay, First
<1>8. ASSUME NEW f \in Frontend, Hosted(f) PROVE ATypes'
  BY <1>8, SMTT(40) DEF Hosted, GivesUp, TriesAgain, Again, Goes, OnTheirWay, First
<1>9. ASSUME NEW f \in Frontend, Links(f) PROVE ATypes'
  BY <1>9 DEF Links, GivesUp, Again, Goes, OnTheirWay, First
<1>10. ASSUME NEW f \in Frontend, Fails(f) PROVE ATypes'
  BY <1>10 DEF Fails, GivesUp, Again, OnTheirWay, First
<1>11. ASSUME NEW f \in Frontend, Retries(f) PROVE ATypes'
  BY <1>11 DEF Retries, Goes, OnTheirWay, First
<1>12. ASSUME NEW f \in Frontend, Begins(f) PROVE ATypes'
  BY <1>12 DEF Begins, Goes, OnTheirWay, First
<1>13. ASSUME NEW f \in Frontend, Leaves(f) PROVE ATypes'
  BY <1>13 DEF Leaves, Goes, OnTheirWay, First
<1>14. CASE UNCHANGED <<at, tries, forked>>
  BY <1>14
<1>15. ASSUME NEW d \in Daemon,
            Locks(d) \/ Binds(d) \/ Serves(d) \/ GoesIdle(d) \/ Closes(d) \/ Unlinks(d)
            \/ Exits(d) \/ Forgets(d) \/ Terminated(d) \/ DaemonKilled(d)
      PROVE  UNCHANGED <<at, tries, forked>>
  BY <1>15 DEF Locks, Binds, Serves, GoesIdle, Closes, Unlinks, Exits, Forgets, Terminated,
     DaemonKilled, vars
<1>16. ASSUME NEW h \in Host,
            Says(h) \/ TakesOn(h) \/ Tells(h) \/ Refused(h) \/ Hears(h) \/ Arrives(h)
            \/ GoesOn(h) \/ Hangs(h) \/ Finishes(h)
      PROVE  UNCHANGED <<at, tries, forked>>
  BY <1>16 DEF Says, TakesOn, Tells, Refused, Hears, Arrives, GoesOn, Hangs, Finishes, vars
<1>17. ASSUME NEW f \in Frontend,
            Hands(f) \/ HandsOver(f) \/ Drops(f) \/ Attached(f)
      PROVE  UNCHANGED <<at, tries, forked>>
  BY <1>17 DEF Hands, HandsOver, Drops, Attached, vars
<1>18. UNCHANGED vars => UNCHANGED <<at, tries, forked>>
  BY DEF vars
<1> QED
  BY <1>1, <1>2, <1>3, <1>4, <1>5, <1>6, <1>7, <1>8, <1>9, <1>10, <1>11, <1>12, <1>13,
     <1>14, <1>15, <1>16, <1>17, <1>18 DEF Next, DaemonStep, HostStep, CallStep, FrontendStep

LEMMA CallsKept ==
  DTypes /\ HTypes /\ CTypes /\ [Next]_vars => (call \in [Frontend -> Call])'
<1> SUFFICES ASSUME DTypes, HTypes, CTypes, [Next]_vars PROVE (call \in [Frontend -> Call])'
  OBVIOUS
<1> USE DaemonAssumption DEF DTypes, HTypes, CTypes, Backlogged, Daemon, Host, daemonVars,
     placeVars, hostVars, frontendVars
<1>1. ASSUME NEW h \in Host, Hears(h) PROVE (call \in [Frontend -> Call])'
  <2>1. On("lost", h) \in Call
    BY Calls, DaemonAssumption DEF Stage
  <2> QED
    BY <1>1, <2>1 DEF Hears
<1>2. ASSUME NEW h \in Host, Arrives(h) PROVE (call \in [Frontend -> Call])'
  <2>1. On("reading", h) \in Call
    BY Calls, DaemonAssumption DEF Stage
  <2>2. On("refused", 0) \in Call
    BY Calls, DaemonAssumption DEF Stage
  <2> QED
    BY <1>2, <2>1, <2>2 DEF Arrives
<1>3. ASSUME NEW f \in Frontend, Hands(f) PROVE (call \in [Frontend -> Call])'
  <2>1. On("refused", 0) \in Call
    BY Calls, DaemonAssumption DEF Stage
  <2>2. \A g \in 0..MaxHost : On("handing", g) \in Call
    BY Calls DEF Stage
  <2> QED
    BY <1>3, <2>1, <2>2 DEF Hands
<1>4. ASSUME NEW f \in Frontend, HandsOver(f) PROVE (call \in [Frontend -> Call])'
  <2>1. On("refused", 0) \in Call
    BY Calls, DaemonAssumption DEF Stage
  <2>2. [call[f] EXCEPT !.stage = "sent"] \in Call
    BY Stages DEF Stage, CTypes
  <2>3. \/ call' = [call EXCEPT ![f] = [call[f] EXCEPT !.stage = "sent"]]
        \/ call' = [call EXCEPT ![f] = On("refused", 0)]
    BY <1>4 DEF HandsOver
  <2> QED
    BY <2>1, <2>2, <2>3
<1>5. ASSUME NEW f \in Frontend, Drops(f) PROVE (call \in [Frontend -> Call])'
  <2>1. [call[f] EXCEPT !.listed = FALSE] \in Call
    BY Stages DEF Stage, CTypes
  <2> QED
    BY <1>5, <2>1 DEF Drops
<1>6. ASSUME NEW f \in Frontend, Attached(f) PROVE (call \in [Frontend -> Call])'
  <2>1. On("refused", 0) \in Call
    BY Calls, DaemonAssumption DEF Stage
  <2>2. [call[f] EXCEPT !.stage = "hello"] \in Call
    BY Stages DEF Stage, CTypes
  <2> QED
    BY <1>6, <2>1, <2>2 DEF Attached
<1>7. ASSUME NEW f \in Frontend, Joins(f) PROVE (call \in [Frontend -> Call])'
  <2>1. NoCall \in Call
    BY NoCalls
  <2>2. [call[f] EXCEPT !.stage = "joined"] \in Call
    BY Stages DEF Stage, CTypes
  <2> QED
    BY <1>7, <2>1, <2>2 DEF Joins
<1>8. ASSUME NEW f \in Frontend, Links(f) PROVE (call \in [Frontend -> Call])'
  <2>1. On("backlog", sock) \in Call
    BY Calls, DaemonAssumption DEF Stage
  <2> QED
    BY <1>8, <2>1 DEF Links
<1>9. ASSUME NEW f \in Frontend, Fails(f) PROVE (call \in [Frontend -> Call])'
  <2>1. NoCall \in Call
    BY NoCalls
  <2> QED
    BY <1>9, <2>1 DEF Fails
<1>10. CASE UNCHANGED call
  BY <1>10
<1>11. ASSUME NEW d \in Daemon,
            Locks(d) \/ Binds(d) \/ Serves(d) \/ GoesIdle(d) \/ Closes(d) \/ Unlinks(d)
            \/ Exits(d) \/ Forgets(d) \/ Terminated(d) \/ DaemonKilled(d)
      PROVE  UNCHANGED call
  BY <1>11 DEF Locks, Binds, Serves, GoesIdle, Closes, Unlinks, Exits, Forgets, Terminated,
     DaemonKilled, vars
<1>12. ASSUME NEW h \in Host,
            Says(h) \/ TakesOn(h) \/ Tells(h) \/ Refused(h) \/ GoesOn(h) \/ Ends(h) \/ Hangs(h)
            \/ Finishes(h) \/ HostKilled(h)
      PROVE  UNCHANGED call
  BY <1>12 DEF Says, TakesOn, Tells, Refused, GoesOn, Ends, Hangs, Finishes, HostKilled, vars
<1>13. ASSUME NEW f \in Frontend,
            Looks(f) \/ Machine(f) \/ Raised(f) \/ Starts(f) \/ Hosted(f) \/ Retries(f)
            \/ Begins(f) \/ Leaves(f)
      PROVE  UNCHANGED call
  BY <1>13 DEF Looks, Machine, Raised, Starts, Hosted, Retries, Begins, Leaves, GivesUp,
     TriesAgain, Goes, vars
<1>14. UNCHANGED vars => UNCHANGED call
  BY DEF vars
<1> QED
  BY <1>1, <1>2, <1>3, <1>4, <1>5, <1>6, <1>7, <1>8, <1>9, <1>10, <1>11, <1>12, <1>13,
     <1>14 DEF Next, DaemonStep, HostStep, CallStep, FrontendStep

LEMMA BacklogKept ==
  DTypes /\ CTypes /\ [Next]_vars => Backlogged'
<1> SUFFICES ASSUME DTypes, CTypes, [Next]_vars PROVE Backlogged'
  OBVIOUS
<1>t. call \in [Frontend -> Call] /\ (\A n \in 0..MaxDaemon : n # 0 => n \in Daemon)
      /\ sock \in 0..MaxDaemon /\ Backlogged
  BY DaemonAssumption DEF DTypes, CTypes, Daemon
<1> USE <1>t DEF Backlogged, frontendVars
<1>1. ASSUME NEW h \in Host, Hears(h) PROVE Backlogged'
  BY <1>1 DEF Hears, On
<1>2. ASSUME NEW h \in Host, Arrives(h) PROVE Backlogged'
  BY <1>2 DEF Arrives, On
<1>3. ASSUME NEW f \in Frontend, Hands(f) PROVE Backlogged'
  BY <1>3 DEF Hands, On, Call, Stage
<1>4. ASSUME NEW f \in Frontend, HandsOver(f) PROVE Backlogged'
  BY <1>4 DEF HandsOver, On, Call, Stage
<1>5. ASSUME NEW f \in Frontend, Drops(f) PROVE Backlogged'
  BY <1>5 DEF Drops, Call, Stage
<1>6. ASSUME NEW f \in Frontend, Attached(f) PROVE Backlogged'
  BY <1>6 DEF Attached, On, Call, Stage
<1>7. ASSUME NEW f \in Frontend, Joins(f) PROVE Backlogged'
  BY <1>7 DEF Joins, NoCall, Call, Stage
<1>8. ASSUME NEW f \in Frontend, Links(f) PROVE Backlogged'
  BY <1>8 DEF Links, On, Listening
<1>9. ASSUME NEW f \in Frontend, Fails(f) PROVE Backlogged'
  BY <1>9 DEF Fails, NoCall
<1>10. CASE UNCHANGED call
  BY <1>10
<1>11. ASSUME NEW d \in Daemon,
            Locks(d) \/ Binds(d) \/ Serves(d) \/ GoesIdle(d) \/ Closes(d) \/ Unlinks(d)
            \/ Exits(d) \/ Forgets(d) \/ Terminated(d) \/ DaemonKilled(d)
      PROVE  UNCHANGED call
  BY <1>11 DEF Locks, Binds, Serves, GoesIdle, Closes, Unlinks, Exits, Forgets, Terminated,
     DaemonKilled, vars
<1>12. ASSUME NEW h \in Host,
            Says(h) \/ TakesOn(h) \/ Tells(h) \/ Refused(h) \/ GoesOn(h) \/ Ends(h) \/ Hangs(h)
            \/ Finishes(h) \/ HostKilled(h)
      PROVE  UNCHANGED call
  BY <1>12 DEF Says, TakesOn, Tells, Refused, GoesOn, Ends, Hangs, Finishes, HostKilled, vars
<1>13. ASSUME NEW f \in Frontend,
            Looks(f) \/ Machine(f) \/ Raised(f) \/ Starts(f) \/ Hosted(f) \/ Retries(f)
            \/ Begins(f) \/ Leaves(f)
      PROVE  UNCHANGED call
  BY <1>13 DEF Looks, Machine, Raised, Starts, Hosted, Retries, Begins, Leaves, GivesUp,
     TriesAgain, Goes, vars
<1>14. UNCHANGED vars => UNCHANGED call
  BY DEF vars
<1> QED
  BY <1>1, <1>2, <1>3, <1>4, <1>5, <1>6, <1>7, <1>8, <1>9, <1>10, <1>11, <1>12, <1>13,
     <1>14 DEF Next, DaemonStep, HostStep, CallStep, FrontendStep

LEMMA FaultsKept ==
  faults \in 0..MaxFault /\ [Next]_vars => (faults \in 0..MaxFault)' /\ faults <= faults'
<1> DEFINE More == (faults \in 0..MaxFault)' /\ faults <= faults'
<1> SUFFICES ASSUME faults \in 0..MaxFault, [Next]_vars PROVE More
  OBVIOUS
<1> USE DaemonAssumption DEF InTime
<1>1. ASSUME NEW d \in Daemon, GoesIdle(d) PROVE More
  BY <1>1 DEF GoesIdle
<1>2. ASSUME NEW d \in Daemon, Terminated(d) PROVE More
  BY <1>2 DEF Terminated
<1>3. ASSUME NEW d \in Daemon, DaemonKilled(d) PROVE More
  BY <1>3 DEF DaemonKilled
<1>4. ASSUME NEW h \in Host, GoesOn(h) PROVE More
  BY <1>4 DEF GoesOn
<1>5. ASSUME NEW h \in Host, HostKilled(h) PROVE More
  BY <1>5 DEF HostKilled
<1>6. ASSUME NEW f \in Frontend, Raised(f) PROVE More
  BY <1>6 DEF Raised
<1>7. ASSUME NEW f \in Frontend, Hosted(f) PROVE More
  BY <1>7 DEF Hosted
<1>8. ASSUME NEW f \in Frontend, Retries(f) PROVE More
  BY <1>8 DEF Retries
<1>9. CASE UNCHANGED faults
  BY <1>9
<1>10. ASSUME NEW d \in Daemon,
            Locks(d) \/ Binds(d) \/ Serves(d) \/ Closes(d) \/ Unlinks(d) \/ Exits(d)
            \/ Forgets(d)
      PROVE  UNCHANGED faults
  BY <1>10 DEF Locks, Binds, Serves, Closes, Unlinks, Exits, Forgets, vars
<1>11. ASSUME NEW h \in Host,
            Says(h) \/ TakesOn(h) \/ Tells(h) \/ Refused(h) \/ Hears(h) \/ Arrives(h) \/ Ends(h)
            \/ Hangs(h) \/ Finishes(h)
      PROVE  UNCHANGED faults
  BY <1>11 DEF Says, TakesOn, Tells, Refused, Hears, Arrives, Ends, Hangs, Finishes, vars
<1>12. ASSUME NEW f \in Frontend,
            Hands(f) \/ HandsOver(f) \/ Drops(f) \/ Attached(f) \/ Joins(f) \/ Looks(f)
            \/ Machine(f) \/ Starts(f) \/ Links(f) \/ Fails(f) \/ Begins(f) \/ Leaves(f)
      PROVE  UNCHANGED faults
  BY <1>12 DEF Hands, HandsOver, Drops, Attached, Joins, Looks, Machine, Starts, Links, Fails,
     Begins, Leaves, GivesUp, Goes, vars
<1>13. UNCHANGED vars => UNCHANGED faults
  BY DEF vars
<1> QED
  BY <1>1, <1>2, <1>3, <1>4, <1>5, <1>6, <1>7, <1>8, <1>9, <1>10, <1>11, <1>12,
     <1>13 DEF Next, DaemonStep, HostStep, CallStep, FrontendStep

-----------------------------------------------------------------------------
(* Hosts, and what is on its way to them. *)

\* How far a host is only grows.
LEMMA Onward ==
  ASSUME TypeOK, [Next]_vars, NEW g \in Host
  PROVE  /\ host[g] \in Listed => host'[g] \in Listed
         /\ host[g] \in Heard => host'[g] \in Heard
<1> DEFINE Further == /\ host[g] \in Listed => host'[g] \in Listed
                      /\ host[g] \in Heard => host'[g] \in Heard
<1> USE DEF TypeOK, Listed, Heard, hostVars
<1>1. ASSUME NEW h \in Host, Says(h) PROVE Further
  BY <1>1 DEF Says
<1>2. ASSUME NEW h \in Host, TakesOn(h) PROVE Further
  BY <1>2 DEF TakesOn
<1>3. ASSUME NEW h \in Host, Tells(h) PROVE Further
  BY <1>3 DEF Tells
<1>4. ASSUME NEW h \in Host, Refused(h) PROVE Further
  BY <1>4 DEF Refused
<1>5. ASSUME NEW h \in Host, Hears(h) PROVE Further
  BY <1>5 DEF Hears
<1>6. ASSUME NEW h \in Host, Arrives(h) PROVE Further
  BY <1>6 DEF Arrives
<1>7. ASSUME NEW h \in Host, GoesOn(h) PROVE Further
  BY <1>7 DEF GoesOn
<1>8. ASSUME NEW h \in Host, Ends(h) PROVE Further
  BY <1>8 DEF Ends
<1>9. ASSUME NEW h \in Host, Hangs(h) PROVE Further
  BY <1>9 DEF Hangs
<1>10. ASSUME NEW h \in Host, Finishes(h) PROVE Further
  BY <1>10 DEF Finishes
<1>11. ASSUME NEW h \in Host, HostKilled(h) PROVE Further
  BY <1>11 DEF HostKilled
<1>12. ASSUME NEW f \in Frontend, Starts(f) PROVE Further
  BY <1>12 DEF Starts, Goes
<1>13. CASE UNCHANGED host
  BY <1>13
<1>14. ASSUME NEW d \in Daemon,
            Locks(d) \/ Binds(d) \/ Serves(d) \/ GoesIdle(d) \/ Closes(d) \/ Unlinks(d)
            \/ Exits(d) \/ Forgets(d) \/ Terminated(d) \/ DaemonKilled(d)
      PROVE  UNCHANGED host
  BY <1>14 DEF Locks, Binds, Serves, GoesIdle, Closes, Unlinks, Exits, Forgets, Terminated,
     DaemonKilled, vars
<1>15. ASSUME NEW f \in Frontend,
            Hands(f) \/ HandsOver(f) \/ Drops(f) \/ Attached(f) \/ Joins(f) \/ Looks(f)
            \/ Machine(f) \/ Raised(f) \/ Hosted(f) \/ Links(f) \/ Fails(f) \/ Retries(f)
            \/ Begins(f) \/ Leaves(f)
      PROVE  UNCHANGED host
  BY <1>15 DEF Hands, HandsOver, Drops, Attached, Joins, Looks, Machine, Raised, Hosted, Links,
     Fails, Retries, Begins, Leaves, GivesUp, TriesAgain, Goes, vars
<1>16. UNCHANGED vars => UNCHANGED host
  BY DEF vars
<1> QED
  BY <1>1, <1>2, <1>3, <1>4, <1>5, <1>6, <1>7, <1>8, <1>9, <1>10, <1>11, <1>12, <1>13,
     <1>14, <1>15, <1>16 DEF Next, DaemonStep, HostStep, CallStep, FrontendStep

LEMMA PlacedKept == TypeOK /\ Backlogged /\ Placed /\ [Next]_vars => Placed'
<1> SUFFICES ASSUME TypeOK, Backlogged, Placed, [Next]_vars PROVE Placed'
  OBVIOUS
<1>0. \A g \in Host : /\ host[g] \in Listed => host'[g] \in Listed
                      /\ host[g] \in Heard => host'[g] \in Heard
  BY Onward
<1>t. call \in [Frontend -> Call] /\ held \in [Daemon -> 0..MaxHost]
      /\ DOMAIN host = Host
  BY DEF TypeOK, Call, Stage
<1>h. \A n \in 0..MaxHost : n # 0 => n \in Host
  BY DaemonAssumption DEF Host
<1> USE <1>0, <1>t, <1>h DEF Placed, daemonVars, placeVars, frontendVars
<1>1. ASSUME NEW d \in Daemon, Closes(d) PROVE Placed'
  BY <1>1 DEF Closes
<1>2. ASSUME NEW d \in Daemon, Forgets(d) PROVE Placed'
  BY <1>2 DEF Forgets
<1>3. ASSUME NEW d \in Daemon, DaemonKilled(d) PROVE Placed'
  BY <1>3 DEF DaemonKilled
<1>4. ASSUME NEW h \in Host, TakesOn(h) PROVE Placed'
  BY <1>4 DEF TakesOn, Listed
<1>5. ASSUME NEW h \in Host, Hears(h) PROVE Placed'
  BY <1>5 DEF Hears, On
<1>6. ASSUME NEW h \in Host, Arrives(h) PROVE Placed'
  BY <1>6 DEF Arrives, On, Heard
<1>7. ASSUME NEW f \in Frontend, Hands(f) PROVE Placed'
  BY <1>7 DEF Hands, On, Listed, Backlogged
<1>8. ASSUME NEW f \in Frontend, HandsOver(f) PROVE Placed'
  BY <1>8 DEF HandsOver, On, Call, Stage
<1>9. ASSUME NEW f \in Frontend, Drops(f) PROVE Placed'
  BY <1>9 DEF Drops, Call, Stage
<1>10. ASSUME NEW f \in Frontend, Attached(f) PROVE Placed'
  BY <1>10 DEF Attached, On, Call, Stage, Heard, HostThere
<1>11. ASSUME NEW f \in Frontend, Joins(f) PROVE Placed'
  BY <1>11 DEF Joins, NoCall, Call, Stage
<1>12. ASSUME NEW f \in Frontend, Links(f) PROVE Placed'
  BY <1>12 DEF Links, On
<1>13. ASSUME NEW f \in Frontend, Fails(f) PROVE Placed'
  BY <1>13 DEF Fails, NoCall
<1>14. CASE UNCHANGED <<held, call>>
  BY <1>14
<1>15. ASSUME NEW d \in Daemon,
            Locks(d) \/ Binds(d) \/ Serves(d) \/ GoesIdle(d) \/ Unlinks(d) \/ Exits(d)
            \/ Terminated(d)
      PROVE  UNCHANGED <<held, call>>
  BY <1>15 DEF Locks, Binds, Serves, GoesIdle, Unlinks, Exits, Terminated, vars
<1>16. ASSUME NEW h \in Host,
            Says(h) \/ Tells(h) \/ Refused(h) \/ GoesOn(h) \/ Ends(h) \/ Hangs(h) \/ Finishes(h)
            \/ HostKilled(h)
      PROVE  UNCHANGED <<held, call>>
  BY <1>16 DEF Says, Tells, Refused, GoesOn, Ends, Hangs, Finishes, HostKilled, vars
<1>17. ASSUME NEW f \in Frontend,
            Looks(f) \/ Machine(f) \/ Raised(f) \/ Starts(f) \/ Hosted(f) \/ Retries(f)
            \/ Begins(f) \/ Leaves(f)
      PROVE  UNCHANGED <<held, call>>
  BY <1>17 DEF Looks, Machine, Raised, Starts, Hosted, Retries, Begins, Leaves, GivesUp,
     TriesAgain, Goes, vars
<1>18. UNCHANGED vars => UNCHANGED <<held, call>>
  BY DEF vars
<1> QED
  BY <1>1, <1>2, <1>3, <1>4, <1>5, <1>6, <1>7, <1>8, <1>9, <1>10, <1>11, <1>12, <1>13,
     <1>14, <1>15, <1>16, <1>17, <1>18 DEF Next, DaemonStep, HostStep, CallStep, FrontendStep

\* What there is down a line, with one thing more.
LEMMA Appended ==
  ASSUME NEW S, NEW t \in Seq(S), NEW x \in S
  PROVE  /\ Append(t, x) # <<>>
         /\ t = <<>> => Head(Append(t, x)) = x
         /\ t # <<>> => Head(Append(t, x)) = Head(t)
OBVIOUS

LEMMA Lines ==
  ASSUME TypeOK, NEW h \in Host, NEW x \in Frontend \cup {Word}
  PROVE  /\ Append(line[h], x) # <<>>
         /\ line[h] = <<>> => Head(Append(line[h], x)) = x
         /\ line[h] # <<>> => Head(Append(line[h], x)) = Head(line[h])
<1>1. line[h] \in Seq(Frontend \cup {Word})
  BY DEF TypeOK
<1> QED
  BY <1>1, Appended

LEMMA WordedKept == TypeOK /\ Placed /\ Worded /\ [Next]_vars => Worded'
<1> SUFFICES ASSUME TypeOK, Placed, Worded, [Next]_vars PROVE Worded'
  OBVIOUS
<1>l. \A h \in Host :
         /\ \A x \in Frontend \cup {Word} :
              /\ Append(line[h], x) # <<>>
              /\ line[h] = <<>> => Head(Append(line[h], x)) = x
              /\ line[h] # <<>> => Head(Append(line[h], x)) = Head(line[h])
  BY Lines
<1>t. DOMAIN host = Host /\ DOMAIN line = Host
  BY DEF TypeOK
<1> USE <1>l, <1>t DEF Worded, hostVars, frontendVars
<1>1. ASSUME NEW h \in Host, Says(h) PROVE Worded'
  BY <1>1 DEF Says
<1>2. ASSUME NEW h \in Host, TakesOn(h) PROVE Worded'
  BY <1>2 DEF TakesOn
<1>3. ASSUME NEW h \in Host, Tells(h) PROVE Worded'
  BY <1>3 DEF Tells
<1>4. ASSUME NEW h \in Host, Refused(h) PROVE Worded'
  BY <1>4 DEF Refused
<1>5. ASSUME NEW h \in Host, Hears(h) PROVE Worded'
  BY <1>5 DEF Hears
<1>6. ASSUME NEW h \in Host, Arrives(h) PROVE Worded'
  BY <1>6 DEF Arrives
<1>7. ASSUME NEW h \in Host, GoesOn(h) PROVE Worded'
  BY <1>7 DEF GoesOn
<1>8. ASSUME NEW h \in Host, Ends(h) PROVE Worded'
  BY <1>8 DEF Ends
<1>9. ASSUME NEW h \in Host, Hangs(h) PROVE Worded'
  BY <1>9 DEF Hangs
<1>10. ASSUME NEW h \in Host, Finishes(h) PROVE Worded'
  BY <1>10 DEF Finishes
<1>11. ASSUME NEW h \in Host, HostKilled(h) PROVE Worded'
  BY <1>11 DEF HostKilled
<1>12. ASSUME NEW f \in Frontend, HandsOver(f) PROVE Worded'
  BY <1>12, SMTT(40) DEF HandsOver, MayHand, Placed, Listed, HostThere
<1>13. ASSUME NEW f \in Frontend, Starts(f) PROVE Worded'
  BY <1>13 DEF Starts, Goes
<1>14. CASE UNCHANGED <<host, line>>
  BY <1>14
<1>15. ASSUME NEW d \in Daemon,
            Locks(d) \/ Binds(d) \/ Serves(d) \/ GoesIdle(d) \/ Closes(d) \/ Unlinks(d)
            \/ Exits(d) \/ Forgets(d) \/ Terminated(d) \/ DaemonKilled(d)
      PROVE  UNCHANGED <<host, line>>
  BY <1>15 DEF Locks, Binds, Serves, GoesIdle, Closes, Unlinks, Exits, Forgets, Terminated,
     DaemonKilled, vars
<1>16. ASSUME NEW f \in Frontend,
            Hands(f) \/ Drops(f) \/ Attached(f) \/ Joins(f) \/ Looks(f) \/ Machine(f)
            \/ Raised(f) \/ Hosted(f) \/ Links(f) \/ Fails(f) \/ Retries(f) \/ Begins(f)
            \/ Leaves(f)
      PROVE  UNCHANGED <<host, line>>
  BY <1>16 DEF Hands, Drops, Attached, Joins, Looks, Machine, Raised, Hosted, Links, Fails,
     Retries, Begins, Leaves, GivesUp, TriesAgain, Goes, vars
<1>17. UNCHANGED vars => UNCHANGED <<host, line>>
  BY DEF vars
<1> QED
  BY <1>1, <1>2, <1>3, <1>4, <1>5, <1>6, <1>7, <1>8, <1>9, <1>10, <1>11, <1>12, <1>13,
     <1>14, <1>15, <1>16, <1>17 DEF Next, DaemonStep, HostStep, CallStep, FrontendStep

LEMMA NothingLost ==
  ASSUME TypeOK, Worded, NoneLost, [Next]_vars PROVE NoneLost'
<1>t. call \in [Frontend -> Call]
  BY DEF TypeOK, Call, Stage
<1> USE <1>t DEF NoneLost, frontendVars
<1>1. ASSUME NEW h \in Host, Hears(h) PROVE NoneLost'
  <2>1. Head(line[h]) = Word /\ Word \notin Frontend
    BY <1>1, DaemonAssumption DEF Hears, Worded
  <2> QED
    BY <1>1, <2>1 DEF Hears
<1>2. ASSUME NEW h \in Host, Arrives(h) PROVE NoneLost'
  BY <1>2 DEF Arrives, On
<1>3. ASSUME NEW f \in Frontend, Hands(f) PROVE NoneLost'
  BY <1>3 DEF Hands, On, Call, Stage
<1>4. ASSUME NEW f \in Frontend, HandsOver(f) PROVE NoneLost'
  BY <1>4 DEF HandsOver, On, Call, Stage
<1>5. ASSUME NEW f \in Frontend, Drops(f) PROVE NoneLost'
  BY <1>5 DEF Drops, Call, Stage
<1>6. ASSUME NEW f \in Frontend, Attached(f) PROVE NoneLost'
  BY <1>6 DEF Attached, On, Call, Stage
<1>7. ASSUME NEW f \in Frontend, Joins(f) PROVE NoneLost'
  BY <1>7 DEF Joins, NoCall, Call, Stage
<1>8. ASSUME NEW f \in Frontend, Links(f) PROVE NoneLost'
  BY <1>8 DEF Links, On
<1>9. ASSUME NEW f \in Frontend, Fails(f) PROVE NoneLost'
  BY <1>9 DEF Fails, NoCall
<1>10. CASE UNCHANGED call
  BY <1>10
<1>11. ASSUME NEW d \in Daemon,
            Locks(d) \/ Binds(d) \/ Serves(d) \/ GoesIdle(d) \/ Closes(d) \/ Unlinks(d)
            \/ Exits(d) \/ Forgets(d) \/ Terminated(d) \/ DaemonKilled(d)
      PROVE  UNCHANGED call
  BY <1>11 DEF Locks, Binds, Serves, GoesIdle, Closes, Unlinks, Exits, Forgets, Terminated,
     DaemonKilled, vars
<1>12. ASSUME NEW h \in Host,
            Says(h) \/ TakesOn(h) \/ Tells(h) \/ Refused(h) \/ GoesOn(h) \/ Ends(h) \/ Hangs(h)
            \/ Finishes(h) \/ HostKilled(h)
      PROVE  UNCHANGED call
  BY <1>12 DEF Says, TakesOn, Tells, Refused, GoesOn, Ends, Hangs, Finishes, HostKilled, vars
<1>13. ASSUME NEW f \in Frontend,
            Looks(f) \/ Machine(f) \/ Raised(f) \/ Starts(f) \/ Hosted(f) \/ Retries(f)
            \/ Begins(f) \/ Leaves(f)
      PROVE  UNCHANGED call
  BY <1>13 DEF Looks, Machine, Raised, Starts, Hosted, Retries, Begins, Leaves, GivesUp,
     TriesAgain, Goes, vars
<1>14. UNCHANGED vars => UNCHANGED call
  BY DEF vars
<1> QED
  BY <1>1, <1>2, <1>3, <1>4, <1>5, <1>6, <1>7, <1>8, <1>9, <1>10, <1>11, <1>12, <1>13,
     <1>14 DEF Next, DaemonStep, HostStep, CallStep, FrontendStep

LEMMA AloneKept == TypeOK /\ Ruled /\ Placed /\ Alone /\ [Next]_vars => Alone'
<1> SUFFICES ASSUME TypeOK, Ruled, Placed, Alone, [Next]_vars PROVE Alone'
  OBVIOUS
<1>t. /\ DOMAIN host = Host /\ of \in [Host -> 0..MaxDaemon] /\ DOMAIN members = Host
      /\ DOMAIN held = Daemon /\ DOMAIN daemon = Daemon
      /\ \A n \in 0..MaxDaemon : n # 0 => n \in Daemon
      /\ \A n \in 0..MaxHost : n # 0 => n \in Host
      /\ \A n \in Host : n # 0
      /\ \A n \in Daemon : n # 0
  BY DaemonAssumption DEF TypeOK, Host, Daemon
<1> USE <1>t DEF Alone, DaemonThere, daemonVars, placeVars, hostVars, frontendVars
<1>1. ASSUME NEW d \in Daemon, Locks(d) PROVE Alone'
  BY <1>1 DEF Locks
<1>2. ASSUME NEW d \in Daemon, Binds(d) PROVE Alone'
  BY <1>2 DEF Binds
<1>3. ASSUME NEW d \in Daemon, Serves(d) PROVE Alone'
  BY <1>3 DEF Serves
<1>4. ASSUME NEW d \in Daemon, GoesIdle(d) PROVE Alone'
  BY <1>4 DEF GoesIdle
<1>5. ASSUME NEW d \in Daemon, Closes(d) PROVE Alone'
  BY <1>5 DEF Closes
<1>6. ASSUME NEW d \in Daemon, Unlinks(d) PROVE Alone'
  BY <1>6 DEF Unlinks
<1>7. ASSUME NEW d \in Daemon, Exits(d) PROVE Alone'
  BY <1>7 DEF Exits
<1>8. ASSUME NEW d \in Daemon, Forgets(d) PROVE Alone'
  BY <1>8 DEF Forgets, HostThere
<1>9. ASSUME NEW d \in Daemon, Terminated(d) PROVE Alone'
  BY <1>9 DEF Terminated
<1>10. ASSUME NEW d \in Daemon, DaemonKilled(d) PROVE Alone'
  BY <1>10 DEF DaemonKilled
<1>11. ASSUME NEW h \in Host, Says(h) PROVE Alone'
  BY <1>11 DEF Says, Listening
<1>12. ASSUME NEW h \in Host, TakesOn(h) PROVE Alone'
  BY <1>12 DEF TakesOn, Taken, HostAlive
<1>13. ASSUME NEW h \in Host, Tells(h) PROVE Alone'
  BY <1>13 DEF Tells
<1>14. ASSUME NEW h \in Host, Refused(h) PROVE Alone'
  BY <1>14 DEF Refused
<1>15. ASSUME NEW h \in Host, Hears(h) PROVE Alone'
  BY <1>15 DEF Hears
<1>16. ASSUME NEW h \in Host, Arrives(h) PROVE Alone'
  BY <1>16 DEF Arrives
<1>17. ASSUME NEW h \in Host, GoesOn(h) PROVE Alone'
  BY <1>17 DEF GoesOn
<1>18. ASSUME NEW h \in Host, Ends(h) PROVE Alone'
  BY <1>18 DEF Ends
<1>19. ASSUME NEW h \in Host, Hangs(h) PROVE Alone'
  BY <1>19 DEF Hangs
<1>20. ASSUME NEW h \in Host, Finishes(h) PROVE Alone'
  BY <1>20 DEF Finishes
<1>21. ASSUME NEW h \in Host, HostKilled(h) PROVE Alone'
  BY <1>21 DEF HostKilled
<1>22. ASSUME NEW f \in Frontend, Drops(f) PROVE Alone'
  BY <1>22 DEF Drops
<1>23. ASSUME NEW f \in Frontend, Attached(f) PROVE Alone'
  BY <1>23 DEF Attached, Placed, Heard, HostThere
<1>24. ASSUME NEW f \in Frontend, Joins(f) PROVE Alone'
  BY <1>24 DEF Joins
<1>25. ASSUME NEW f \in Frontend, Machine(f) PROVE Alone'
  BY <1>25 DEF Machine, Goes
<1>26. ASSUME NEW f \in Frontend, Starts(f) PROVE Alone'
  BY <1>26 DEF Starts, Goes
<1>27. CASE UNCHANGED <<daemon, held, host, of, members>>
  BY <1>27
<1>28. ASSUME NEW f \in Frontend,
            Hands(f) \/ HandsOver(f) \/ Looks(f) \/ Raised(f) \/ Hosted(f) \/ Links(f)
            \/ Fails(f) \/ Retries(f) \/ Begins(f) \/ Leaves(f)
      PROVE  UNCHANGED <<daemon, held, host, of, members>>
  BY <1>28 DEF Hands, HandsOver, Looks, Raised, Hosted, Links, Fails, Retries, Begins, Leaves,
     GivesUp, TriesAgain, Goes, vars
<1>29. UNCHANGED vars => UNCHANGED <<daemon, held, host, of, members>>
  BY DEF vars
<1> QED
  BY <1>1, <1>2, <1>3, <1>4, <1>5, <1>6, <1>7, <1>8, <1>9, <1>10, <1>11, <1>12, <1>13,
     <1>14, <1>15, <1>16, <1>17, <1>18, <1>19, <1>20, <1>21, <1>22, <1>23, <1>24, <1>25, <1>26,
     <1>27, <1>28, <1>29 DEF Next, DaemonStep, HostStep, CallStep, FrontendStep

-----------------------------------------------------------------------------
(* Frontends. *)

\* The places in a line with one thing more at its end, or one less at its head.
LEMMA Longer ==
  ASSUME NEW S, NEW t \in Seq(S), NEW x \in S
  PROVE  /\ Len(Append(t, x)) = Len(t) + 1 /\ Len(t) \in Nat
         /\ \A i \in 1..Len(t) : Append(t, x)[i] = t[i]
         /\ Append(t, x)[Len(t) + 1] = x
OBVIOUS

LEMMA Shorter ==
  ASSUME NEW S, NEW t \in Seq(S), t # <<>>
  PROVE  /\ Len(Tail(t)) = Len(t) - 1 /\ Len(t) \in Nat /\ 1 \in 1..Len(t)
         /\ Head(t) = t[1]
         /\ \A i \in 1..Len(Tail(t)) : i + 1 \in 1..Len(t) /\ Tail(t)[i] = t[i + 1]
OBVIOUS

\* Something goes down a line.
Sent(h, x) == line' = [line EXCEPT ![h] = Append(@, x)]

\* The places of one frontend in it are the same but for the one that is added,
LEMMA PlacesMore ==
  ASSUME TypeOK, NEW h \in Host, NEW x \in Frontend \cup {Word}, NEW f \in Frontend, Sent(h, x)
  PROVE  /\ f # x => Places(f, h)' = Places(f, h)
         /\ f = x /\ Places(f, h) = {} => \A i, j \in Places(f, h)' : i = j
         /\ \A g \in Host : g # h => Places(f, g)' = Places(f, g)
<1>1. line[h] \in Seq(Frontend \cup {Word}) /\ DOMAIN line = Host
  BY DEF TypeOK
<1>2. line'[h] = Append(line[h], x) /\ \A g \in Host : g # h => line'[g] = line[g]
  BY <1>1 DEF Sent
<1>3. /\ Len(line'[h]) = Len(line[h]) + 1 /\ Len(line[h]) \in Nat
      /\ \A i \in 1..Len(line[h]) : line'[h][i] = line[h][i]
      /\ line'[h][Len(line[h]) + 1] = x
  BY <1>1, <1>2, Longer
<1>4. \A i : i \in 1..Len(line'[h]) <=> i \in 1..Len(line[h]) \/ i = Len(line[h]) + 1
  BY <1>3
<1>5. Len(line[h]) + 1 \notin 1..Len(line[h])
  BY <1>3
<1> QED
  BY <1>2, <1>3, <1>4, <1>5 DEF Places

\* or one place nearer, the first one being gone.
LEMMA PlacesLess ==
  ASSUME TypeOK, NEW h \in Host, line[h] # <<>>, NEW f,
         line' = [line EXCEPT ![h] = Tail(@)]
  PROVE  /\ \A i \in Places(f, h)' : i + 1 \in Places(f, h)
         /\ (\A i, j \in Places(f, h) : i = j) =>
              /\ f = Head(line[h]) => Places(f, h)' = {}
              /\ \A i, j \in Places(f, h)' : i = j
         /\ \A g \in Host : g # h => Places(f, g)' = Places(f, g)
<1>1. line[h] \in Seq(Frontend \cup {Word}) /\ DOMAIN line = Host
  BY DEF TypeOK
<1>2. line'[h] = Tail(line[h]) /\ \A g \in Host : g # h => line'[g] = line[g]
  BY <1>1
<1>3. /\ Len(line'[h]) = Len(line[h]) - 1 /\ Len(line[h]) \in Nat /\ 1 \in 1..Len(line[h])
      /\ Head(line[h]) = line[h][1]
      /\ \A i \in 1..Len(line'[h]) : i + 1 \in 1..Len(line[h]) /\ line'[h][i] = line[h][i + 1]
  BY <1>1, <1>2, Shorter
<1>4. \A i \in Places(f, h)' : i + 1 \in Places(f, h) /\ i \in Nat \ {0}
  BY <1>3 DEF Places
<1>5. ASSUME \A i, j \in Places(f, h) : i = j
      PROVE  /\ f = Head(line[h]) => Places(f, h)' = {}
             /\ \A i, j \in Places(f, h)' : i = j
  <2>1. ASSUME NEW i \in Places(f, h)', NEW j \in Places(f, h)' PROVE i = j
    <3>1. i + 1 = j + 1 /\ i \in Nat /\ j \in Nat
      BY <1>4, <1>5
    <3> QED
      BY <3>1
  <2>2. ASSUME f = Head(line[h]), NEW i \in Places(f, h)' PROVE FALSE
    <3>1. 1 \in Places(f, h)
      BY <1>3, <2>2 DEF Places
    <3>2. i + 1 = 1 /\ i \in Nat \ {0}
      BY <1>4, <1>5, <3>1
    <3> QED
      BY <3>2
  <2> QED
    BY <2>1, <2>2
<1>6. \A g \in Host : g # h => Places(f, g)' = Places(f, g)
  BY <1>2 DEF Places
<1> QED
  BY <1>4, <1>5, <1>6


LEMMA SeatedKept ==
  TypeOK /\ Placed /\ Worded /\ Alone /\ Seated /\ [Next]_vars => Seated'
<1> SUFFICES ASSUME TypeOK, Placed, Worded, Alone, Seated, [Next]_vars PROVE Seated'
  OBVIOUS
<1>t. /\ call \in [Frontend -> Call]
      /\ DOMAIN host = Host /\ DOMAIN members = Host /\ DOMAIN at = Frontend
  BY DEF TypeOK, Call, Stage
<1>p. line' = line => \A f \in Frontend, h \in Host : Places(f, h)' = Places(f, h)
  BY DEF Places
<1>s. \A h \in Host : host[h] = "started" =>
        members[h] = {} /\ \A f \in Frontend : Places(f, h) = {}
  <2> SUFFICES ASSUME NEW h \in Host, host[h] = "started"
               PROVE  members[h] = {} /\ \A f \in Frontend : Places(f, h) = {}
    OBVIOUS
  <2>1. members[h] = {} /\ line[h] = <<>>
    BY DEF Alone, Worded
  <2>2. Len(<<>>) = 0
    OBVIOUS
  <2> QED
    BY <2>1, <2>2 DEF Places
<1>w. Word \notin Frontend
  BY DaemonAssumption
<1>m. ASSUME NEW h \in Host, NEW x \in Frontend \cup {Word}, Sent(h, x)
      PROVE  \A f \in Frontend :
               /\ f # x => Places(f, h)' = Places(f, h)
               /\ f = x /\ Places(f, h) = {} => \A i, j \in Places(f, h)' : i = j
               /\ \A g \in Host : g # h => Places(f, g)' = Places(f, g)
  <2> TAKE f \in Frontend
  <2> QED
    BY <1>m, PlacesMore
<1>n. ASSUME NEW h \in Host, line[h] # <<>>, line' = [line EXCEPT ![h] = Tail(@)]
      PROVE  /\ \A f \in Frontend :
                  /\ \A i \in Places(f, h)' : i + 1 \in Places(f, h)
                  /\ (\A i, j \in Places(f, h) : i = j) =>
                       /\ f = Head(line[h]) => Places(f, h)' = {}
                       /\ \A i, j \in Places(f, h)' : i = j
                  /\ \A g \in Host : g # h => Places(f, g)' = Places(f, g)
             /\ 1 \in Places(Head(line[h]), h)
  <2>1. line[h] \in Seq(Frontend \cup {Word})
    BY DEF TypeOK
  <2>2. 1 \in Places(Head(line[h]), h)
    BY <1>n, <2>1, Shorter DEF Places
  <2> QED
    BY <1>n, <2>2, PlacesLess
<1>u. \A f \in Frontend : at[f] \notin {"hello", "attached", "left"} => call[f].stage = "none"
  BY DEF Seated
<1> USE <1>t, <1>p DEF Seated, HostThere, hostVars, frontendVars
<1>1. ASSUME NEW h \in Host, Says(h) PROVE Seated'
  BY <1>1, <1>s DEF Says
<1>2. ASSUME NEW h \in Host, TakesOn(h) PROVE Seated'
  BY <1>2 DEF TakesOn
<1>3. ASSUME NEW h \in Host, Tells(h) PROVE Seated'
  <2>1. Sent(h, Word)
    BY <1>3 DEF Tells, Sent
  <2>2. \A f \in Frontend, g \in Host : Places(f, g)' = Places(f, g)
    BY <2>1, <1>w, <1>m
  <2>3. UNCHANGED <<call, at, members>>
    BY <1>3 DEF Tells
  <2>4. host[h] = "listed" /\ host' = [host EXCEPT ![h] = "told"]
    BY <1>3 DEF Tells
  <2> QED
    BY <2>2, <2>3, <2>4
<1>4. ASSUME NEW h \in Host, Refused(h) PROVE Seated'
  BY <1>4 DEF Refused
<1>5. ASSUME NEW h \in Host, Hears(h) PROVE Seated'
  <2>1. line[h] # <<>> /\ line' = [line EXCEPT ![h] = Tail(@)] /\ Head(line[h]) = Word
    BY <1>5 DEF Hears, Worded
  <2>2. \A f \in Frontend :
          /\ \A i \in Places(f, h)' : i + 1 \in Places(f, h)
          /\ (\A i, j \in Places(f, h) : i = j) => \A i, j \in Places(f, h)' : i = j
          /\ \A g \in Host : g # h => Places(f, g)' = Places(f, g)
    BY <2>1, <1>n
  <2>3. UNCHANGED <<call, at, members>>
    BY <1>5, <2>1, <1>w DEF Hears
  <2>4. host[h] = "told" /\ host' = [host EXCEPT ![h] = "up"]
    BY <1>5 DEF Hears
  <2> QED
    BY <2>2, <2>3, <2>4
<1>6. ASSUME NEW h \in Host, Arrives(h) PROVE Seated'
  <2>1. line[h] # <<>> /\ line' = [line EXCEPT ![h] = Tail(@)] /\ HostThere(h)
    BY <1>6 DEF Arrives
  <2>2. \A f \in Frontend :
          /\ \A i \in Places(f, h)' : i + 1 \in Places(f, h)
          /\ (\A i, j \in Places(f, h) : i = j) =>
               /\ f = Head(line[h]) => Places(f, h)' = {}
               /\ \A i, j \in Places(f, h)' : i = j
          /\ \A g \in Host : g # h => Places(f, g)' = Places(f, g)
    BY <2>1, <1>n
  <2>3. 1 \in Places(Head(line[h]), h)
    BY <2>1, <1>n
  <2>4. UNCHANGED <<at, members, host>>
    BY <1>6 DEF Arrives
  <2>5. \A f \in Frontend : f # Head(line[h]) => call'[f] = call[f]
    BY <1>6 DEF Arrives
  <2>6. ASSUME NEW f \in Frontend, f = Head(line[h])
        PROVE  /\ call[f].stage = "sent" /\ call[f].by = h /\ at[f] \in {"hello", "attached", "left"}
               /\ \A g \in Host : HostThere(g) => f \notin members[g] /\ (g # h => Places(f, g) = {})
    BY <2>1, <2>3, <2>6
  <2> QED
    BY <2>1, <2>2, <2>4, <2>5, <2>6
<1>7. ASSUME NEW h \in Host, GoesOn(h) PROVE Seated'
  BY <1>7 DEF GoesOn
<1>8. ASSUME NEW h \in Host, Ends(h) PROVE Seated'
  BY <1>8 DEF Ends
<1>9. ASSUME NEW h \in Host, Hangs(h) PROVE Seated'
  BY <1>9 DEF Hangs
<1>10. ASSUME NEW h \in Host, Finishes(h) PROVE Seated'
  BY <1>10 DEF Finishes
<1>11. ASSUME NEW h \in Host, HostKilled(h) PROVE Seated'
  BY <1>11 DEF HostKilled
<1>12. ASSUME NEW f \in Frontend, Hands(f) PROVE Seated'
  BY <1>12 DEF Hands, On, Call, Stage
<1>13. ASSUME NEW f \in Frontend, HandsOver(f) PROVE Seated'
  <2>1. CASE line' = line
    BY <1>13, <2>1 DEF HandsOver, On, Call, Stage
  <2>2. CASE line' # line
    <3>1. PICK h \in Host : h = call[f].by /\ call[f].stage = "handing"
      BY <1>13 DEF HandsOver, Placed
    <3>2. /\ Sent(h, f) /\ HostThere(h)
          /\ call' = [call EXCEPT ![f].stage = "sent"] /\ UNCHANGED <<at, members, host>>
      BY <1>13, <2>2, <3>1 DEF HandsOver, Sent
    <3>3. ASSUME NEW e \in Frontend
          PROVE  /\ e # f => Places(e, h)' = Places(e, h)
                 /\ e = f /\ Places(e, h) = {} => \A i, j \in Places(e, h)' : i = j
                 /\ \A g \in Host : g # h => Places(e, g)' = Places(e, g)
      <4>1. f \in Frontend \cup {Word} /\ Sent(h, f)
        BY <3>2
      <4> QED
        BY <4>1, <1>m
    <3>4. \A e \in Frontend : e # f => call'[e] = call[e]
      BY <3>2
    <3>5. call'[f].stage = "sent" /\ call'[f].by = h
      BY <3>1, <3>2 DEF Call
    <3>6. \A g \in Host : HostThere(g) => f \notin members[g] /\ Places(f, g) = {}
      BY <3>1
    <3>7. at[f] \in {"hello", "attached", "left"}
      BY <3>1
    <3>8. ASSUME NEW e \in Frontend, e # f, NEW g \in Host
          PROVE  Places(e, g)' = Places(e, g) /\ call'[e] = call[e]
      BY <3>3, <3>4, <3>8
    <3>9. /\ \A i, j \in Places(f, h)' : i = j
          /\ \A g \in Host : g # h /\ HostThere(g) => Places(f, g)' = {}
      BY <3>1, <3>2, <3>3, <3>6
    <3> QED
      BY <3>1, <3>2, <3>5, <3>6, <3>7, <3>8, <3>9
  <2> QED
    BY <2>1, <2>2
<1>14. ASSUME NEW f \in Frontend, Drops(f) PROVE Seated'
  BY <1>14 DEF Drops, Call, Stage
<1>15. ASSUME NEW f \in Frontend, Attached(f) PROVE Seated'
  BY <1>15 DEF Attached, On, Call, Stage
<1>16. ASSUME NEW f \in Frontend, Joins(f) PROVE Seated'
  BY <1>16 DEF Joins, NoCall, Call, Stage, Still, Placed
<1>17. ASSUME NEW f \in Frontend, Looks(f) PROVE Seated'
  BY <1>17 DEF Looks, Goes
<1>18. ASSUME NEW f \in Frontend, Machine(f) PROVE Seated'
  BY <1>18 DEF Machine, Goes
<1>19. ASSUME NEW f \in Frontend, Raised(f) PROVE Seated'
  BY <1>19 DEF Raised, Goes, GivesUp, TriesAgain
<1>20. ASSUME NEW f \in Frontend, Starts(f) PROVE Seated'
  BY <1>20 DEF Starts, Goes
<1>21. ASSUME NEW f \in Frontend, Hosted(f) PROVE Seated'
  BY <1>21 DEF Hosted, Goes, GivesUp, TriesAgain
<1>22. ASSUME NEW f \in Frontend, Links(f) PROVE Seated'
  BY <1>22 DEF Links, On, Goes, GivesUp
<1>23. ASSUME NEW f \in Frontend, Fails(f) PROVE Seated'
  BY <1>23 DEF Fails, NoCall, GivesUp, Dead
<1>24. ASSUME NEW f \in Frontend, Retries(f) PROVE Seated'
  BY <1>24 DEF Retries, Goes
<1>25. ASSUME NEW f \in Frontend, Begins(f) PROVE Seated'
  BY <1>25 DEF Begins, Goes
<1>26. ASSUME NEW f \in Frontend, Leaves(f) PROVE Seated'
  BY <1>26 DEF Leaves, Goes
<1>27. CASE UNCHANGED <<at, call, host, members, line>>
  BY <1>27 DEF Places
<1>28. ASSUME NEW d \in Daemon,
            Locks(d) \/ Binds(d) \/ Serves(d) \/ GoesIdle(d) \/ Closes(d) \/ Unlinks(d)
            \/ Exits(d) \/ Forgets(d) \/ Terminated(d) \/ DaemonKilled(d)
      PROVE  UNCHANGED <<at, call, host, members, line>>
  BY <1>28 DEF Locks, Binds, Serves, GoesIdle, Closes, Unlinks, Exits, Forgets, Terminated,
     DaemonKilled, vars
<1>29. UNCHANGED vars => UNCHANGED <<at, call, host, members, line>>
  BY DEF vars
<1> QED
  BY <1>1, <1>2, <1>3, <1>4, <1>5, <1>6, <1>7, <1>8, <1>9, <1>10, <1>11, <1>12, <1>13,
     <1>14, <1>15, <1>16, <1>17, <1>18, <1>19, <1>20, <1>21, <1>22, <1>23, <1>24, <1>25, <1>26,
     <1>27, <1>28, <1>29 DEF Next, DaemonStep, HostStep, CallStep, FrontendStep

-----------------------------------------------------------------------------
(* The theorems. *)

LEMMA Initial == Init => IInv
<1> SUFFICES ASSUME Init PROVE IInv
  OBVIOUS
<1> USE DaemonAssumption DEF Init
<1>1. TypeOK
  <2>1. DTypes /\ HTypes
    BY DEF DTypes, HTypes
  <2>2. LTypes /\ ETypes
    BY DEF LTypes, ETypes
  <2>3. ATypes
    BY DEF ATypes, Reaching, First
  <2>4. CTypes
    BY NoCalls DEF CTypes, Backlogged, NoCall
  <2>5. faults \in 0..MaxFault
    OBVIOUS
  <2> QED
    BY <2>1, <2>2, <2>3, <2>4, <2>5, Parts
<1>2. Reaching /\ Backlogged
  BY DEF Reaching, Backlogged, First, NoCall
<1>3. Ruled /\ Placed
  BY DEF Ruled, Reachable, Holding, Placed, NoCall
<1>4. Worded /\ Alone
  BY DEF Worded, Alone, DaemonThere
<1>5. Seated
  BY DEF Seated, HostThere, NoCall
<1> QED
  BY <1>1, <1>2, <1>3, <1>4, <1>5 DEF IInv

LEMMA Step == IInv /\ [Next]_vars => IInv'
<1> SUFFICES ASSUME IInv, [Next]_vars PROVE IInv'
  OBVIOUS
<1>1. TypeOK' /\ Reaching' /\ Backlogged'
  <2>1. DTypes /\ HTypes /\ LTypes /\ ETypes /\ ATypes /\ CTypes /\ faults \in 0..MaxFault
    BY Parts DEF IInv
  <2>2. DTypes' /\ HTypes' /\ LTypes' /\ ETypes' /\ ATypes'
    BY <2>1, DTypesKept, HTypesKept, LTypesKept, ETypesKept, ATypesKept
  <2>3. CTypes'
    BY <2>1, CallsKept, BacklogKept DEF CTypes
  <2>4. (faults \in 0..MaxFault)'
    BY <2>1, FaultsKept
  <2>5. (TypeOK /\ Reaching /\ Backlogged)' <=>
          (DTypes /\ HTypes /\ LTypes /\ ETypes /\ ATypes /\ CTypes /\ faults \in 0..MaxFault)'
    BY Parts, PTL
  <2> QED
    BY <2>2, <2>3, <2>4, <2>5
<1>2. Ruled'
  BY RuledKept DEF IInv
<1>3. Placed'
  BY PlacedKept DEF IInv
<1>4. Worded'
  BY WordedKept DEF IInv
<1>5. Alone'
  BY AloneKept DEF IInv
<1>6. Seated'
  BY SeatedKept DEF IInv
<1> QED
  BY <1>1, <1>2, <1>3, <1>4, <1>5, <1>6 DEF IInv

LEMMA Invariance == Spec => []IInv
<1>1. IInv /\ [Next]_vars => IInv'
  BY Step
<1> QED
  BY <1>1, Initial, PTL DEF Spec

\* The types of the state are what TypeOK says (Daemon).
THEOREM Typing == Spec => []TypeOK
<1>1. IInv => TypeOK
  BY DEF IInv
<1> QED
  BY <1>1, Invariance, PTL

\* However many daemons are started and killed, and whenever: one that listens is the one its
\* directory leads to (where.holds, Router.close).
THEOREM Leading == Spec => []Reachable
<1>1. IInv => Reachable
  BY DEF IInv, Ruled
<1> QED
  BY <1>1, Invariance, PTL

\* However many hosts say what they hold, no two that have frontends are of daemons that are
\* there: one daemon is, and it holds one host (_serves, _watches).
THEOREM Sharing == Spec => []SameRuns
<1>1. IInv => SameRuns
  <2> SUFFICES ASSUME IInv, NEW g \in Host, NEW h \in Host,
                      members[g] # {}, members[h] # {}, DaemonThere(g), DaemonThere(h)
               PROVE  g = h
    BY DEF SameRuns
  <2>1. of[g] \in Daemon /\ of[h] \in Daemon
    <3>1. of \in [Host -> 0..MaxDaemon]
      BY DEF IInv, TypeOK
    <3>2. of[g] # 0 /\ of[h] # 0
      BY DEF DaemonThere
    <3> QED
      BY ONLY <3>1, <3>2, DaemonAssumption DEF Daemon
  <2>2. of[g] = of[h]
    BY <2>1 DEF IInv, Ruled, Reachable, DaemonThere
  <2>3. held[of[g]] = g /\ held[of[h]] = h
    BY DEF IInv, Alone
  <2> QED
    BY <2>2, <2>3
<1> QED
  BY <1>1, Invariance, PTL

\* No socket is ever taken for the word that a host was taken on, however many come while it is
\* being told (_serves, _hands).
THEOREM Losing == Spec => []NoneLost
<1>1. Init => NoneLost
  BY DEF Init, NoneLost, NoCall
<1>2. IInv /\ NoneLost /\ [Next]_vars => NoneLost'
  BY NothingLost DEF IInv
<1> QED
  BY <1>1, <1>2, Invariance, PTL DEF Spec

\* Whoever left as it was being attached is let go of, by its hello or by its socket, in
\* whichever order they find out (_hello, _gone).
THEOREM LettingGo == Spec => []LeftIsLetGo
<1>1. IInv => LeftIsLetGo
  BY DEF IInv, Seated, LeftIsLetGo
<1> QED
  BY <1>1, Invariance, PTL

-----------------------------------------------------------------------------
(* Without a fault. *)

\* A daemon has the lock and does not go yet; it serves; or none has come to anything.
Coming == lock # 0 /\ daemon[lock] \in {"locked", "bound", "serving"}
Serving == lock # 0 /\ daemon[lock] = "serving"
Quiet == \A d \in Daemon : daemon[d] \in {"none", "started", "over"}

\* A host that takes on whoever comes to it; and none is there that does not any more.
Welcoming(h) == h # 0 /\ host[h] \in {"listed", "told", "up"}
Fresh == \A h \in Host : host[h] \notin {"going", "closed", "hung"}

\* A frontend's socket leads to nobody who could still attach it.
Astray(g) ==
  \/ call[g].stage \in {"none", "refused", "lost"}
  \/ call[g].stage = "backlog" /\ daemon[call[g].by] \in {"ending", "closed", "unlinked", "over"}
  \/ /\ call[g].stage \in {"handing", "sent", "reading", "hello"}
     /\ host[call[g].by] \in {"hung", "over"}

\* It has been attached, or has left before it could be.
Done(g) == call[g].stage = "joined" \/ (at[g] = "left" /\ Astray(g))

\* A host is up that somebody was attached to, and may go as soon as nobody is.
Lived == \E h \in Host : host[h] = "up" /\ ever[h]

\* So many failed tries are accounted for: by the frontends that are done, one of whom is kept
\* back while a host is up that may go for having lost it, and by the daemon there is.
Paid(n) ==
  n + (IF Lived THEN 1 ELSE 0)
    <= Cardinality({g \in Frontend : Done(g)}) + (IF Coming THEN 1 ELSE 0)

\* The host a frontend waits for will come up, or has made way for the one there is.
Hosting(f) ==
  /\ forked[f] \in Host
  /\ \/ host[forked[f]] = "started"
     \/ host[forked[f]] = "asking" /\ of[forked[f]] = lock
     \/ Welcoming(forked[f])
     \/ host[forked[f]] = "over" /\ Welcoming(held[lock])

\* Its socket is where it is handed on from, or taken.
Awaited(f) ==
  \/ call[f].stage = "backlog" /\ call[f].by = lock /\ Serving /\ Welcoming(held[lock])
  \/ call[f].stage \in {"handing", "sent", "reading", "hello"} /\ Welcoming(call[f].by)

\* A frontend that cannot fail, but by a daemon that comes or a host that goes meanwhile: there is
\* no daemon it could find as it is going, or one serves, and no host is going.
Good(f) ==
  \/ /\ Quiet
     /\ at[f] \in {"look", "machine"} \/ (at[f] = "raising" /\ daemon[forked[f]] = "started")
  \/ /\ Serving /\ Fresh
     /\ at[f] \in {"look", "machine", "starting"} \/ (at[f] = "hosting" /\ Hosting(f))
  \/ Serving /\ Welcoming(held[lock]) /\ at[f] = "link"
  \/ at[f] = "hello" /\ Awaited(f)

\* With no fault: whose the lock and the record are, and whom a daemon holds;
Written ==
  /\ lock # 0 => daemon[lock] \in Holding
  /\ \A d \in Daemon : daemon[d] = "serving" => record = d

Keeping ==
  \A h \in Host :
    /\ host[h] = "asking" => of[h] # 0
    /\ host[h] \in {"listed", "told", "up", "going", "closed"} =>
         of[h] # 0 /\ daemon[of[h]] = "serving" /\ held[of[h]] = h

\* where a frontend and its socket are, each to the other;
Answered ==
  /\ \A f \in Frontend :
       /\ call[f].stage = "sent" => call[f].by \in Host /\ host[call[f].by] \in Listed
       /\ call[f].stage = "joined" => at[f] \in {"attached", "left"}
       /\ at[f] = "attached" => call[f].stage = "joined"
       /\ call[f].stage \in {"reading", "hello"} /\ ~call[f].listed => at[f] = "left"
       /\ at[f] = "out" => tries[f] = First
       /\ call[f].stage = "backlog" => daemon[call[f].by] \notin {"none", "started"}
  /\ \A h \in Host : ever[h] => host[h] \in Heard

\* and that a daemon was started by somebody who has since been near, or is done.
Begun == \E d \in Daemon : daemon[d] \notin {"none", "started"}

Came(k) == Near(k) \/ at[k] \in {"attached", "left", "failed"}

Raisers ==
  /\ (\E d \in Daemon : daemon[d] # "none") =>
       \E k \in Frontend : Came(k)
  /\ \A f \in Frontend :
       /\ at[f] \in {"starting", "hosting", "link", "hello"} => Begun
       /\ at[f] = "raising" => forked[f] \in Daemon /\ daemon[forked[f]] # "none"

\* Every failure is paid for, the next one as well but for who cannot fail.
Accounts ==
  /\ Begun => Paid(1)
  /\ \A f \in Frontend : at[f] \notin {"attached", "left"} =>
       /\ at[f] # "failed" /\ Paid(tries[f].attach - 1)
       /\ at[f] \in OnTheirWay \cup {"tick"} /\ tries[f].attach > 1 =>
            Paid(tries[f].attach) \/ Good(f)

Calm == faults = 0 => Written /\ Keeping /\ Answered /\ Raisers /\ Accounts

Even == IInv /\ Written /\ Keeping /\ Answered /\ Raisers /\ Accounts /\ faults = 0

-----------------------------------------------------------------------------
(* What is kept without a fault, but for the accounts. *)

LEMMA WrittenKept == TypeOK /\ Ruled /\ Written /\ [Next]_vars => Written'
<1> SUFFICES ASSUME TypeOK, Ruled, Written, [Next]_vars PROVE Written'
  OBVIOUS
<1>t. /\ daemon \in [Daemon -> {"none", "started", "locked", "bound", "serving", "ending", "closed",
                                "unlinked", "over"}]
      /\ (lock # 0 => lock \in Daemon) /\ 0 \notin Daemon
      /\ \A d \in Daemon : daemon[d] \in Holding => lock = d
  BY DaemonAssumption DEF TypeOK, Ruled, Daemon
<1> USE <1>t DEF Written, Holding, daemonVars, placeVars
<1>1. ASSUME NEW d \in Daemon, Locks(d) PROVE Written'
  BY <1>1 DEF Locks, Free
<1>2. ASSUME NEW d \in Daemon, Binds(d) PROVE Written'
  BY <1>2 DEF Binds
<1>3. ASSUME NEW d \in Daemon, Serves(d) PROVE Written'
  BY <1>3 DEF Serves
<1>4. ASSUME NEW d \in Daemon, GoesIdle(d) PROVE Written'
  BY <1>4 DEF GoesIdle
<1>5. ASSUME NEW d \in Daemon, Closes(d) PROVE Written'
  BY <1>5 DEF Closes
<1>6. ASSUME NEW d \in Daemon, Unlinks(d) PROVE Written'
  BY <1>6 DEF Unlinks
<1>7. ASSUME NEW d \in Daemon, Exits(d) PROVE Written'
  BY <1>7 DEF Exits
<1>8. ASSUME NEW d \in Daemon, Terminated(d) PROVE Written'
  BY <1>8 DEF Terminated
<1>9. ASSUME NEW d \in Daemon, DaemonKilled(d) PROVE Written'
  BY <1>9 DEF DaemonKilled
<1>10. ASSUME NEW f \in Frontend, Machine(f) PROVE Written'
  <2>1. UNCHANGED placeVars
    BY <1>10 DEF Machine
  <2>2. \/ daemon' = daemon
        \/ \E d \in Daemon : daemon[d] = "none" /\ daemon' = [daemon EXCEPT ![d] = "started"]
    BY <1>10 DEF Machine
  <2> QED
    BY <2>1, <2>2
<1>11. CASE UNCHANGED <<placeVars, daemon>>
  BY <1>11
<1>12. ASSUME NEW d \in Daemon, Forgets(d) PROVE UNCHANGED <<placeVars, daemon>>
  BY <1>12 DEF Forgets
<1>13. ASSUME NEW h \in Host, HostStep(h) \/ HostKilled(h) PROVE UNCHANGED <<placeVars, daemon>>
  BY <1>13 DEF HostStep, Says, TakesOn, Tells, Refused, Hears, Arrives, GoesOn, Ends, Hangs,
     Finishes, HostKilled
<1>14. ASSUME NEW f \in Frontend,
            CallStep(f) \/ Looks(f) \/ Raised(f) \/ Starts(f) \/ Hosted(f) \/ Links(f)
            \/ Fails(f) \/ Retries(f) \/ Begins(f) \/ Leaves(f)
      PROVE  UNCHANGED <<placeVars, daemon>>
  BY <1>14 DEF CallStep, Hands, HandsOver, Drops, Attached, Joins, Looks, Raised, Starts, Hosted,
     Links, Fails, Retries, Begins, Leaves
<1>15. UNCHANGED vars => UNCHANGED <<placeVars, daemon>>
  BY DEF vars
<1> QED
  BY <1>1, <1>2, <1>3, <1>4, <1>5, <1>6, <1>7, <1>8, <1>9, <1>10, <1>11, <1>12, <1>13,
     <1>14, <1>15 DEF Next, DaemonStep, FrontendStep

LEMMA KeepingKept ==
  ASSUME TypeOK, Ruled, Placed, Keeping, [Next]_vars, faults = 0, faults' = 0
  PROVE  Keeping'
<1>t. /\ DOMAIN host = Host /\ of \in [Host -> 0..MaxDaemon]
      /\ DOMAIN held = Daemon /\ DOMAIN daemon = Daemon
      /\ \A n \in 0..MaxDaemon : n # 0 => n \in Daemon
      /\ \A n \in Host : n # 0
      /\ 0 \notin Daemon
      /\ \A d \in Daemon : held[d] # 0 => held[d] \in Host /\ host[held[d]] \in Listed
      /\ \A d, e \in Daemon : daemon[d] = "serving" /\ daemon[e] \in Holding => d = e
  <2>1. \A d \in Daemon : held[d] # 0 => held[d] \in Host
    BY DaemonAssumption DEF TypeOK, Host
  <2>2. /\ \A n \in 0..MaxDaemon : n # 0 => n \in Daemon
        /\ \A n \in Host : n # 0
        /\ 0 \notin Daemon
    BY DaemonAssumption DEF Host, Daemon
  <2>3. \A d, e \in Daemon : daemon[d] = "serving" /\ daemon[e] \in Holding => d = e
    BY DEF Ruled, Holding
  <2>4. \A d \in Daemon : held[d] # 0 => host[held[d]] \in Listed
    BY DEF Placed
  <2> QED
    BY <2>1, <2>2, <2>3, <2>4 DEF TypeOK
<1> USE <1>t DEF Keeping, daemonVars, placeVars, hostVars
<1>1. ASSUME NEW d \in Daemon, Locks(d) PROVE Keeping'
  BY <1>1 DEF Locks
<1>2. ASSUME NEW d \in Daemon, Binds(d) PROVE Keeping'
  BY <1>2 DEF Binds
<1>3. ASSUME NEW d \in Daemon, Serves(d) PROVE Keeping'
  BY <1>3 DEF Serves
<1>4. ASSUME NEW d \in Daemon, GoesIdle(d) PROVE Keeping'
  BY <1>4 DEF GoesIdle, Idle
<1>5. ASSUME NEW d \in Daemon, Closes(d) PROVE Keeping'
  BY <1>5 DEF Closes
<1>6. ASSUME NEW d \in Daemon, Unlinks(d) PROVE Keeping'
  BY <1>6 DEF Unlinks
<1>7. ASSUME NEW d \in Daemon, Exits(d) PROVE Keeping'
  BY <1>7 DEF Exits
<1>8. ASSUME NEW d \in Daemon, Forgets(d) PROVE Keeping'
  BY <1>8 DEF Forgets, HostThere
<1>9. ASSUME NEW d \in Daemon, Terminated(d) \/ DaemonKilled(d) PROVE Keeping'
  BY <1>9 DEF Terminated, DaemonKilled
<1>10. ASSUME NEW h \in Host, Says(h) PROVE Keeping'
  BY <1>10 DEF Says, Listening
<1>11. ASSUME NEW h \in Host, TakesOn(h) PROVE Keeping'
  BY <1>11 DEF TakesOn, Taken, HostAlive
<1>12. ASSUME NEW h \in Host, Tells(h) PROVE Keeping'
  BY <1>12 DEF Tells
<1>13. ASSUME NEW h \in Host, Refused(h) PROVE Keeping'
  BY <1>13 DEF Refused
<1>14. ASSUME NEW h \in Host, Hears(h) PROVE Keeping'
  BY <1>14 DEF Hears
<1>15. ASSUME NEW h \in Host, GoesOn(h) PROVE Keeping'
  BY <1>15 DEF GoesOn
<1>16. ASSUME NEW h \in Host, Ends(h) PROVE Keeping'
  BY <1>16 DEF Ends
<1>17. ASSUME NEW h \in Host, Hangs(h) PROVE Keeping'
  BY <1>17 DEF Hangs
<1>18. ASSUME NEW h \in Host, Finishes(h) PROVE Keeping'
  BY <1>18 DEF Finishes
<1>19. ASSUME NEW h \in Host, HostKilled(h) PROVE Keeping'
  BY <1>19 DEF HostKilled
<1>20. ASSUME NEW f \in Frontend, Machine(f) PROVE Keeping'
  <2>1. UNCHANGED <<held, hostVars>>
    BY <1>20 DEF Machine
  <2>2. \/ daemon' = daemon
        \/ \E d \in Daemon : daemon[d] = "none" /\ daemon' = [daemon EXCEPT ![d] = "started"]
    BY <1>20 DEF Machine
  <2> QED
    BY <2>1, <2>2
<1>21. ASSUME NEW f \in Frontend, Starts(f) PROVE Keeping'
  <2>1. UNCHANGED <<daemon, held, of>>
    BY <1>21 DEF Starts
  <2>2. host' = host \/ \E h \in Host : host[h] = "none" /\ host' = [host EXCEPT ![h] = "started"]
    BY <1>21 DEF Starts
  <2> QED
    BY <2>1, <2>2
<1>22. CASE UNCHANGED <<daemon, held, host, of>>
  BY <1>22
<1>23. ASSUME NEW h \in Host, Arrives(h) PROVE UNCHANGED <<daemon, held, host, of>>
  BY <1>23 DEF Arrives
<1>24. ASSUME NEW f \in Frontend,
            CallStep(f) \/ Looks(f) \/ Raised(f) \/ Hosted(f) \/ Links(f) \/ Fails(f)
            \/ Retries(f) \/ Begins(f) \/ Leaves(f)
      PROVE  UNCHANGED <<daemon, held, host, of>>
  BY <1>24 DEF CallStep, Hands, HandsOver, Drops, Attached, Joins, Looks, Raised, Hosted,
     Links, Fails, Retries, Begins, Leaves
<1>25. UNCHANGED vars => UNCHANGED <<daemon, held, host, of>>
  BY DEF vars
<1> QED
  BY <1>1, <1>2, <1>3, <1>4, <1>5, <1>6, <1>7, <1>8, <1>9, <1>10, <1>11, <1>12, <1>13,
     <1>14, <1>15, <1>16, <1>17, <1>18, <1>19, <1>20, <1>21, <1>22, <1>23, <1>24,
     <1>25 DEF Next, DaemonStep, HostStep, FrontendStep

\* What a host takes from its line is a socket that was on its way down to it.
LEMMA Heads ==
  ASSUME TypeOK, Worded, Seated, NEW h \in Host, line[h] # <<>>
  PROVE  /\ host[h] = "told" => Head(line[h]) \notin Frontend
         /\ host[h] \in {"up", "closed"} /\ Head(line[h]) \in Frontend =>
              call[Head(line[h])].stage = "sent" /\ call[Head(line[h])].by = h
<1>1. line[h] \in Seq(Frontend \cup {Word})
  BY DEF TypeOK
<1>2. 1 \in 1..Len(line[h]) /\ Head(line[h]) = line[h][1]
  BY <1>1, Shorter
<1>3. host[h] = "told" => Head(line[h]) \notin Frontend
  BY DaemonAssumption DEF Worded
<1>4. ASSUME host[h] \in {"up", "closed"}, NEW f \in Frontend, Head(line[h]) = f
      PROVE  call[f].stage = "sent" /\ call[f].by = h
  <2>1. Places(f, h) # {}
    BY <1>2, <1>4 DEF Places
  <2>2. HostThere(h)
    BY <1>4 DEF HostThere
  <2> QED
    BY <2>1, <2>2 DEF Seated
<1> QED
  BY <1>3, <1>4

\* Where the frontends but one are does not change.
OthersStay(f) == \A g \in Frontend : g # f => at'[g] = at[g] /\ tries'[g] = tries[g]

\* What comes of an attach that failed, or of a daemon or host that did not come up.
LEMMA Trying ==
  ASSUME TypeOK, NEW f \in Frontend
  PROVE  /\ \A to : Goes(f, to) => at'[f] = to /\ tries' = tries /\ OthersStay(f)
         /\ GivesUp(f) =>
              /\ tries'[f].attach = tries[f].attach + 1 /\ OthersStay(f)
              /\ at'[f] = IF Again(f) THEN "again" ELSE "failed"
         /\ TriesAgain(f) =>
              \/ GivesUp(f)
              \/ /\ at'[f] = "tick" /\ OthersStay(f)
                 /\ tries'[f].attach = tries[f].attach /\ tries'[f].host # 1
<1>1. /\ DOMAIN at = Frontend /\ DOMAIN tries = Frontend
      /\ tries[f] \in [attach : 1..(Attaches + 1), host : 1..Tries]
  BY DEF TypeOK
<1>2. \A to : Goes(f, to) => at'[f] = to /\ tries' = tries /\ OthersStay(f)
  BY <1>1 DEF Goes, OthersStay
<1>3. GivesUp(f) => /\ tries'[f].attach = tries[f].attach + 1 /\ OthersStay(f)
                    /\ at'[f] = IF Again(f) THEN "again" ELSE "failed"
  BY <1>1 DEF GivesUp, OthersStay
<1>4. TriesAgain(f) =>
        \/ GivesUp(f)
        \/ /\ at'[f] = "tick" /\ OthersStay(f)
           /\ tries'[f].attach = tries[f].attach /\ tries'[f].host = tries[f].host + 1
  BY <1>1 DEF TriesAgain, OthersStay
<1>5. tries[f].host + 1 # 1
  BY <1>1, DaemonAssumption
<1> QED
  BY <1>2, <1>3, <1>4, <1>5

\* A daemon that came so far does not come from nothing again.
LEMMA DaemonsOnward ==
  ASSUME TypeOK, [Next]_vars, NEW d \in Daemon
  PROVE  /\ daemon[d] # "none" => daemon'[d] # "none"
         /\ daemon[d] \notin {"none", "started"} => daemon'[d] \notin {"none", "started"}
         /\ daemon[d] \in {"ending", "closed", "unlinked", "over"} =>
              daemon'[d] \in {"ending", "closed", "unlinked", "over"}
<1> DEFINE Further ==
      /\ daemon[d] # "none" => daemon'[d] # "none"
      /\ daemon[d] \notin {"none", "started"} => daemon'[d] \notin {"none", "started"}
      /\ daemon[d] \in {"ending", "closed", "unlinked", "over"} =>
           daemon'[d] \in {"ending", "closed", "unlinked", "over"}
<1>t. DOMAIN daemon = Daemon
  BY DEF TypeOK
<1> USE <1>t DEF daemonVars
<1>1. ASSUME NEW e \in Daemon, Locks(e) PROVE Further
  BY <1>1 DEF Locks
<1>2. ASSUME NEW e \in Daemon, Binds(e) PROVE Further
  BY <1>2 DEF Binds
<1>3. ASSUME NEW e \in Daemon, Serves(e) PROVE Further
  BY <1>3 DEF Serves
<1>4. ASSUME NEW e \in Daemon, GoesIdle(e) \/ Terminated(e) PROVE Further
  BY <1>4 DEF GoesIdle, Terminated
<1>5. ASSUME NEW e \in Daemon, Closes(e) PROVE Further
  BY <1>5 DEF Closes
<1>6. ASSUME NEW e \in Daemon, Unlinks(e) PROVE Further
  BY <1>6 DEF Unlinks
<1>7. ASSUME NEW e \in Daemon, Exits(e) PROVE Further
  BY <1>7 DEF Exits
<1>8. ASSUME NEW e \in Daemon, DaemonKilled(e) PROVE Further
  BY <1>8 DEF DaemonKilled
<1>9. ASSUME NEW f \in Frontend, Machine(f) PROVE Further
  <2>1. \/ daemon' = daemon
        \/ \E e \in Daemon : daemon[e] = "none" /\ daemon' = [daemon EXCEPT ![e] = "started"]
    BY <1>9 DEF Machine
  <2> QED
    BY <2>1
<1>10. CASE UNCHANGED daemon
  BY <1>10
<1>11. ASSUME NEW e \in Daemon, Forgets(e) PROVE UNCHANGED daemon
  BY <1>11 DEF Forgets
<1>12. ASSUME NEW h \in Host, HostStep(h) \/ HostKilled(h) PROVE UNCHANGED daemon
  BY <1>12 DEF HostStep, Says, TakesOn, Tells, Refused, Hears, Arrives, GoesOn, Ends, Hangs,
     Finishes, HostKilled
<1>13. ASSUME NEW f \in Frontend,
            CallStep(f) \/ Looks(f) \/ Raised(f) \/ Starts(f) \/ Hosted(f) \/ Links(f)
            \/ Fails(f) \/ Retries(f) \/ Begins(f) \/ Leaves(f)
      PROVE  UNCHANGED daemon
  BY <1>13 DEF CallStep, Hands, HandsOver, Drops, Attached, Joins, Looks, Raised, Starts, Hosted,
     Links, Fails, Retries, Begins, Leaves
<1>14. UNCHANGED vars => UNCHANGED daemon
  BY DEF vars
<1> QED
  BY <1>1, <1>2, <1>3, <1>4, <1>5, <1>6, <1>7, <1>8, <1>9, <1>10, <1>11, <1>12, <1>13,
     <1>14 DEF Next, DaemonStep, FrontendStep

LEMMA AnsweredKept ==
  ASSUME TypeOK, Backlogged, Placed, Worded, Seated, Answered, [Next]_vars
  PROVE  Answered'
<1>d. \A f \in Frontend : call[f].stage = "backlog" =>
        /\ daemon[call[f].by] \notin {"none", "started"}
        /\ daemon'[call[f].by] \notin {"none", "started"}
  BY DaemonsOnward DEF Answered, Backlogged
<1>0. \A g \in Host : /\ host[g] \in Listed => host'[g] \in Listed
                      /\ host[g] \in Heard => host'[g] \in Heard
  BY Onward
<1>t. /\ call \in [Frontend -> Call] /\ DOMAIN at = Frontend /\ DOMAIN tries = Frontend
      /\ DOMAIN host = Host /\ ever \in [Host -> BOOLEAN]
      /\ \A h \in Host : members[h] \subseteq Frontend
  BY DEF TypeOK, Call, Stage
<1>p. \A f \in Frontend :
        /\ at[f] \notin {"hello", "attached", "left"} => call[f].stage = "none"
        /\ call[f].stage = "handing" => call[f].by \in Host /\ host[call[f].by] \in Listed
        /\ call[f].stage \in {"reading", "hello", "joined"} =>
             call[f].by \in Host /\ host[call[f].by] \in Heard
  BY DEF Seated, Placed
<1>h. \A h \in Host : line[h] # <<>> =>
        /\ host[h] = "told" => Head(line[h]) \notin Frontend
        /\ host[h] \in {"up", "closed"} /\ Head(line[h]) \in Frontend =>
             call[Head(line[h])].stage = "sent" /\ call[Head(line[h])].by = h
  BY Heads
<1> USE <1>0, <1>t, <1>p, <1>d DEF Answered, frontendVars, hostVars
<1>1. ASSUME NEW h \in Host, Hears(h) PROVE Answered'
  <2>1. call' = call
    BY <1>1, <1>h DEF Hears
  <2>2. UNCHANGED <<at, tries, ever>>
    BY <1>1 DEF Hears
  <2> QED
    BY <2>1, <2>2
<1>2. ASSUME NEW h \in Host, Arrives(h) PROVE Answered'
  <2>1. /\ host[h] \in {"up", "closed"} /\ line[h] # <<>> /\ UNCHANGED <<at, tries, host, ever>>
        /\ call' = [f \in Frontend |->
                      IF f # Head(line[h]) THEN call[f]
                      ELSE IF host[h] = "up" THEN On("reading", h) ELSE On("refused", 0)]
    BY <1>2 DEF Arrives
  <2>2. ASSUME NEW f \in Frontend, f = Head(line[h])
        PROVE  call[f].stage = "sent"
    BY <1>h, <2>1, <2>2
  <2>3. ASSUME NEW f \in Frontend
        PROVE  \/ call'[f] = call[f]
               \/ /\ call[f].stage = "sent" /\ call'[f].stage \in {"reading", "refused"}
                  /\ call'[f].stage = "reading" => call'[f].listed
    BY <2>1, <2>2 DEF On
  <2> QED
    BY <2>1, <2>3
<1>3. ASSUME NEW f \in Frontend, Hands(f) PROVE Answered'
  BY <1>3 DEF Hands, On
<1>4. ASSUME NEW f \in Frontend, HandsOver(f) PROVE Answered'
  <2>1. call[f].stage = "handing" /\ UNCHANGED <<at, tries, host, ever>>
    BY <1>4 DEF HandsOver
  <2>2. \/ call' = [call EXCEPT ![f].stage = "sent"]
        \/ call' = [call EXCEPT ![f] = On("refused", 0)]
    BY <1>4 DEF HandsOver
  <2>3. /\ call'[f].stage = "refused" \/ (call'[f].stage = "sent" /\ call'[f].by = call[f].by)
        /\ \A g \in Frontend : g # f => call'[g] = call[g]
    BY <2>2 DEF On, Call
  <2> QED
    BY <2>1, <2>3
<1>5. ASSUME NEW f \in Frontend, Drops(f) PROVE Answered'
  BY <1>5 DEF Drops, Call, Stage
<1>6. ASSUME NEW f \in Frontend, Attached(f) PROVE Answered'
  BY <1>6 DEF Attached, On, Call, Stage
<1>7. ASSUME NEW f \in Frontend, Joins(f) PROVE Answered'
  <2>1. /\ call[f].stage = "hello" /\ call[f].by \in Host /\ host[call[f].by] \in Heard
        /\ ever' = [ever EXCEPT ![call[f].by] = TRUE] /\ UNCHANGED <<host, tries>>
    BY <1>7 DEF Joins
  <2>2. at[f] \in {"hello", "left"} /\ (~call[f].listed => at[f] = "left")
    BY <2>1
  <2>3. \/ /\ call' = [call EXCEPT ![f].stage = "joined"]
           /\ at' = [at EXCEPT ![f] = at'[f]] /\ at'[f] \in {"attached", "left"}
        \/ call' = [call EXCEPT ![f] = NoCall] /\ UNCHANGED at /\ at[f] = "left"
    BY <1>7, <2>2 DEF Joins, Still
  <2> QED
    BY <2>1, <2>3 DEF NoCall, Call, Stage
<1>8. ASSUME NEW f \in Frontend, Links(f) PROVE Answered'
  <2>1. at[f] = "link" /\ UNCHANGED <<daemon, host, ever>>
    BY <1>8 DEF Links, daemonVars
  <2>2. CASE Listening(sock)
    <3>1. /\ at' = [at EXCEPT ![f] = "hello"] /\ tries' = tries
          /\ call' = [call EXCEPT ![f] = On("backlog", sock)]
      BY <1>8, <2>2 DEF Links, Goes
    <3>2. daemon'[sock] \notin {"none", "started"}
      BY <2>1, <2>2 DEF Listening
    <3> QED
      BY <2>1, <3>1, <3>2 DEF On
  <2>3. CASE ~Listening(sock)
    <3>1. call' = call /\ OthersStay(f) /\ at'[f] \in {"again", "failed"}
      BY <1>8, <2>3, Trying, TypeOK DEF Links
    <3> QED
      BY <2>1, <3>1 DEF OthersStay
  <2> QED
    BY <2>2, <2>3
<1>9. ASSUME NEW f \in Frontend, Fails(f) PROVE Answered'
  BY <1>9 DEF Fails, GivesUp, NoCall
<1>10. ASSUME NEW h \in Host, Ends(h) \/ HostKilled(h) PROVE Answered'
  <2>1. /\ at' = [f \in Frontend |->
                    IF f \in members[h] /\ at[f] = "attached" THEN "left" ELSE at[f]]
        /\ UNCHANGED <<call, tries, ever>>
    BY <1>10 DEF Ends, HostKilled
  <2>2. \A f \in Frontend : at'[f] = at[f] \/ (at[f] = "attached" /\ at'[f] = "left")
    BY <2>1
  <2> QED
    BY <2>1, <2>2
<1>11. ASSUME NEW f \in Frontend, Raised(f) \/ Hosted(f) PROVE Answered'
  <2>1. at[f] \in {"raising", "hosting"} /\ UNCHANGED <<call, ever, host>>
    BY <1>11 DEF Raised, Hosted
  <2>2. at'[f] \notin {"attached", "left", "out"} /\ OthersStay(f)
    <3>1. Goes(f, "starting") \/ Goes(f, "link") \/ TriesAgain(f)
      BY <1>11 DEF Raised, Hosted
    <3> QED
      BY <3>1, Trying, TypeOK
  <2> QED
    BY <2>1, <2>2 DEF OthersStay
<1>12. ASSUME NEW f \in Frontend, Looks(f) \/ Machine(f) \/ Starts(f) \/ Retries(f) \/ Begins(f)
       PROVE  Answered'
  <2>1. /\ at[f] \in {"look", "machine", "starting", "tick", "again", "out"}
        /\ UNCHANGED <<call, ever, tries>>
    BY <1>12 DEF Looks, Machine, Starts, Retries, Begins, Goes
  <2>2. at' = [at EXCEPT ![f] = at'[f]] /\ at'[f] \notin {"attached", "left", "out"}
    BY <1>12 DEF Looks, Machine, Starts, Retries, Begins, Goes
  <2> QED
    BY <2>1, <2>2
<1>13. ASSUME NEW f \in Frontend, Leaves(f) PROVE Answered'
  BY <1>13 DEF Leaves, Goes
<1>14. CASE UNCHANGED <<at, tries, call, ever>>
  BY <1>14
<1>15. ASSUME NEW d \in Daemon, DaemonStep(d) \/ Terminated(d) \/ DaemonKilled(d)
       PROVE  UNCHANGED <<at, tries, call, ever>>
  BY <1>15 DEF DaemonStep, Locks, Binds, Serves, GoesIdle, Closes, Unlinks, Exits, Forgets,
     Terminated, DaemonKilled
<1>16. ASSUME NEW h \in Host,
            Says(h) \/ TakesOn(h) \/ Tells(h) \/ Refused(h) \/ GoesOn(h) \/ Hangs(h) \/ Finishes(h)
       PROVE  UNCHANGED <<at, tries, call, ever>>
  BY <1>16 DEF Says, TakesOn, Tells, Refused, GoesOn, Hangs, Finishes
<1>17. UNCHANGED vars => UNCHANGED <<at, tries, call, ever>>
  BY DEF vars
<1> QED
  BY <1>1, <1>2, <1>3, <1>4, <1>5, <1>6, <1>7, <1>8, <1>9, <1>10, <1>11, <1>12, <1>13,
     <1>14, <1>15, <1>16, <1>17 DEF Next, HostStep, CallStep, FrontendStep

\* Who has been near is so, or is done, whatever comes.
LEMMA CameKept ==
  ASSUME TypeOK, [Next]_vars, NEW k \in Frontend, Came(k)
  PROVE  Came(k)'
<1>t. /\ DOMAIN at = Frontend /\ DOMAIN tries = Frontend
      /\ \A f \in Frontend : tries[f] \in [attach : 1..(Attaches + 1), host : 1..Tries]
      /\ \A h \in Host : members[h] \subseteq Frontend
  BY DEF TypeOK
<1>n. First.attach = 1 /\ First.host = 1
  BY DEF First
<1>m. ASSUME NEW f \in Frontend, OthersStay(f), k # f PROVE Came(k)'
  BY <1>m DEF OthersStay, Came, Near
<1>s. ASSUME at'[k] \in {"raising", "starting", "hosting", "link", "hello", "attached", "left",
                         "failed"}
      PROVE  Came(k)'
  BY <1>s DEF Came, Near
<1>u. ASSUME NEW f \in Frontend, GivesUp(f) PROVE Came(k)'
  <2>1. OthersStay(f) /\ tries'[f].attach = tries[f].attach + 1 /\ at'[f] \in {"again", "failed"}
    BY <1>u, Trying
  <2>2. tries'[f] # First
    <3>1. tries[f].attach + 1 # 1
      BY <1>t, DaemonAssumption
    <3> QED
      BY <2>1, <3>1, <1>n
  <2> QED
    BY <1>m, <2>1, <2>2 DEF Came, Near
<1>v. ASSUME NEW f \in Frontend, TriesAgain(f) PROVE Came(k)'
  <2>1. CASE GivesUp(f)
    BY <2>1, <1>u
  <2>2. CASE ~GivesUp(f)
    <3>1. at'[f] = "tick" /\ OthersStay(f) /\ tries'[f] # First
      BY <1>v, <2>2, Trying, <1>n
    <3> QED
      BY <1>m, <3>1 DEF Came, Near
  <2> QED
    BY <2>1, <2>2
<1>w. ASSUME NEW f \in Frontend, NEW to, Goes(f, to),
             to \in {"raising", "starting", "hosting", "link", "hello", "attached", "left", "failed"}
      PROVE  Came(k)'
  <2>1. OthersStay(f) /\ at'[f] = to
    BY <1>w, Trying
  <2> QED
    BY <1>m, <1>s, <1>w, <2>1
<1>1. ASSUME NEW f \in Frontend, Looks(f) PROVE Came(k)'
  <2>1. CASE Running # 0
    BY <1>1, <2>1, <1>w DEF Looks
  <2>2. CASE Running = 0
    <3>1. at[f] = "look" /\ at'[f] = "machine" /\ tries' = tries /\ OthersStay(f)
      BY <1>1, <2>2, Trying DEF Looks
    <3> QED
      BY <1>m, <3>1 DEF Came, Near
  <2> QED
    BY <2>1, <2>2
<1>2. ASSUME NEW f \in Frontend, Machine(f) PROVE Came(k)'
  BY <1>2, <1>w DEF Machine
<1>3. ASSUME NEW f \in Frontend, Raised(f) \/ Starts(f) \/ Hosted(f) \/ Links(f) \/ Fails(f)
      PROVE  Came(k)'
  BY <1>3, <1>u, <1>v, <1>w DEF Raised, Starts, Hosted, Links, Fails
<1>4. ASSUME NEW f \in Frontend, Retries(f) PROVE Came(k)'
  <2>1. /\ at[f] \in {"tick", "again"} /\ at'[f] \in {"machine", "look"} /\ tries' = tries
        /\ OthersStay(f)
    BY <1>4, Trying DEF Retries
  <2> QED
    BY <1>m, <2>1 DEF Came, Near
<1>5. ASSUME NEW f \in Frontend, Begins(f) PROVE Came(k)'
  <2>1. OthersStay(f) /\ at[f] = "out"
    BY <1>5, Trying DEF Begins
  <2>2. f # k
    BY <2>1 DEF Came, Near
  <2> QED
    BY <1>m, <2>1, <2>2
<1>6. ASSUME NEW f \in Frontend, Leaves(f) PROVE Came(k)'
  BY <1>6, <1>w DEF Leaves
<1>7. ASSUME NEW f \in Frontend, Joins(f) PROVE Came(k)'
  <2>1. OthersStay(f) /\ (at'[f] = at[f] \/ at'[f] \in {"attached", "left"}) /\ tries' = tries
    BY <1>7, <1>t DEF Joins, OthersStay
  <2> QED
    BY <1>m, <1>s, <2>1 DEF Came, Near
<1>8. ASSUME NEW h \in Host, Ends(h) \/ HostKilled(h) PROVE Came(k)'
  <2>1. (at'[k] = at[k] \/ at'[k] = "left") /\ tries' = tries
    BY <1>8, <1>t DEF Ends, HostKilled
  <2> QED
    BY <1>s, <2>1 DEF Came, Near
<1>9. CASE UNCHANGED <<at, tries>>
  BY <1>9 DEF Came, Near
<1>10. ASSUME NEW d \in Daemon, DaemonStep(d) \/ Terminated(d) \/ DaemonKilled(d)
       PROVE  UNCHANGED <<at, tries>>
  BY <1>10 DEF DaemonStep, Locks, Binds, Serves, GoesIdle, Closes, Unlinks, Exits, Forgets,
     Terminated, DaemonKilled, frontendVars
<1>11. ASSUME NEW h \in Host,
            Says(h) \/ TakesOn(h) \/ Tells(h) \/ Refused(h) \/ Hears(h) \/ Arrives(h) \/ GoesOn(h)
            \/ Hangs(h) \/ Finishes(h)
       PROVE  UNCHANGED <<at, tries>>
  BY <1>11 DEF Says, TakesOn, Tells, Refused, Hears, Arrives, GoesOn, Hangs, Finishes, frontendVars
<1>12. ASSUME NEW f \in Frontend, Hands(f) \/ HandsOver(f) \/ Drops(f) \/ Attached(f)
       PROVE  UNCHANGED <<at, tries>>
  BY <1>12 DEF Hands, HandsOver, Drops, Attached
<1>13. UNCHANGED vars => UNCHANGED <<at, tries>>
  BY DEF vars, frontendVars
<1> QED
  BY <1>1, <1>2, <1>3, <1>4, <1>5, <1>6, <1>7, <1>8, <1>9, <1>10, <1>11, <1>12,
     <1>13 DEF Next, HostStep, CallStep, FrontendStep

\* Whatever is found in the daemon's directory, one has begun.
LEMMA FoundBegun == ASSUME TypeOK PROVE Found \/ Running # 0 => Begun
<1>1. \A n \in 0..MaxDaemon : n # 0 => n \in Daemon
  BY DEF Daemon
<1>2. sock \in 0..MaxDaemon
  BY DEF TypeOK
<1> QED
  BY <1>1, <1>2, DaemonAssumption DEF Running, Found, Listening, Begun

LEMMA RaisersKept == TypeOK /\ Raisers /\ [Next]_vars => Raisers'
<1> SUFFICES ASSUME TypeOK, Raisers, [Next]_vars PROVE Raisers'
  OBVIOUS
<1>1. \A d \in Daemon : /\ daemon[d] # "none" => daemon'[d] # "none"
                        /\ daemon[d] \notin {"none", "started"} =>
                             daemon'[d] \notin {"none", "started"}
  BY DaemonsOnward
<1>2. Begun => Begun'
  BY <1>1 DEF Begun
<1>3. (\E k \in Frontend : Came(k)) => \E k \in Frontend : Came(k)'
  BY CameKept
<1>t. DOMAIN forked = Frontend /\ DOMAIN at = Frontend /\ DOMAIN daemon = Daemon
  BY DEF TypeOK
<1> DEFINE Placing(f) == /\ at[f] \in {"starting", "hosting", "link", "hello"} => Begun
                         /\ at[f] = "raising" => forked[f] \in Daemon /\ daemon[forked[f]] # "none"
<1>4. \A f \in Frontend : Placing(f)
  BY DEF Raisers
<1> HIDE DEF Placing
<1>5. ASSUME NEW f \in Frontend, at'[f] = at[f], forked'[f] = forked[f] PROVE Placing(f)'
  BY <1>1, <1>2, <1>4, <1>5 DEF Placing
<1>6. ASSUME NEW f \in Frontend, OthersStay(f), UNCHANGED forked,
             at'[f] \in {"out", "look", "machine", "tick", "again", "attached", "left", "failed"}
             \/ (at'[f] # "raising" /\ Begun)
      PROVE  \A g \in Frontend : Placing(g)'
  <2>1. Placing(f)'
    BY <1>6, <1>2 DEF Placing
  <2> QED
    BY <1>5, <1>6, <2>1 DEF OthersStay
<1>7. ASSUME NEW f \in Frontend, GivesUp(f) \/ TriesAgain(f), UNCHANGED forked
      PROVE  \A g \in Frontend : Placing(g)'
  BY <1>6, <1>7, Trying
<1>8. ASSUME NEW f \in Frontend, NEW to, Goes(f, to), UNCHANGED forked,
             to \in {"look", "machine", "left"} \/ (to # "raising" /\ Begun)
      PROVE  \A g \in Frontend : Placing(g)'
  BY <1>6, <1>8, Trying
<1>9. ASSUME NEW f \in Frontend, Looks(f) PROVE \A g \in Frontend : Placing(g)'
  BY <1>8, <1>9, FoundBegun DEF Looks
<1>10. ASSUME NEW f \in Frontend, Machine(f)
       PROVE  /\ \A g \in Frontend : Placing(g)'
              /\ daemon' # daemon => \E k \in Frontend : Came(k)'
  <2>1. CASE Found
    BY <1>8, <1>10, <2>1, FoundBegun DEF Machine
  <2>2. CASE ~Found
    <3>1. PICK d \in Daemon : /\ daemon[d] = "none" /\ daemon' = [daemon EXCEPT ![d] = "started"]
                              /\ forked' = [forked EXCEPT ![f] = d] /\ Goes(f, "raising")
      BY <1>10, <2>2 DEF Machine
    <3>2. OthersStay(f) /\ at'[f] = "raising" /\ forked'[f] = d /\ daemon'[d] = "started"
      BY <1>t, <3>1, Trying
    <3>3. Placing(f)' /\ Came(f)'
      BY <3>2 DEF Placing, Came, Near
    <3>4. \A g \in Frontend : g # f => Placing(g)'
      BY <1>5, <3>1, <3>2 DEF OthersStay
    <3> QED
      BY <3>3, <3>4
  <2> QED
    BY <2>1, <2>2
<1>11. ASSUME NEW f \in Frontend, Raised(f) PROVE \A g \in Frontend : Placing(g)'
  BY <1>7, <1>8, <1>11, FoundBegun DEF Raised
<1>12. ASSUME NEW f \in Frontend, Starts(f) PROVE \A g \in Frontend : Placing(g)'
  <2>1. Begun /\ at[f] = "starting"
    BY <1>4, <1>12 DEF Placing, Starts
  <2>2. CASE Running # 0
    BY <1>8, <1>12, <2>1, <2>2 DEF Starts
  <2>3. CASE Running = 0
    <3>1. OthersStay(f) /\ at'[f] = "hosting" /\ \A g \in Frontend : g # f => forked'[g] = forked[g]
      BY <1>12, <1>t, <2>3, Trying DEF Starts
    <3>2. Placing(f)'
      BY <1>2, <2>1, <3>1 DEF Placing
    <3> QED
      BY <1>5, <3>1, <3>2 DEF OthersStay
  <2> QED
    BY <2>2, <2>3
<1>13. ASSUME NEW f \in Frontend, Hosted(f) PROVE \A g \in Frontend : Placing(g)'
  BY <1>7, <1>8, <1>13, FoundBegun DEF Hosted
<1>14. ASSUME NEW f \in Frontend, Links(f) PROVE \A g \in Frontend : Placing(g)'
  BY <1>4, <1>7, <1>8, <1>14 DEF Links, Placing
<1>15. ASSUME NEW f \in Frontend, Fails(f) PROVE \A g \in Frontend : Placing(g)'
  BY <1>7, <1>15 DEF Fails
<1>16. ASSUME NEW f \in Frontend, Retries(f) \/ Begins(f) \/ Leaves(f)
       PROVE  \A g \in Frontend : Placing(g)'
  BY <1>8, <1>16 DEF Retries, Begins, Leaves
<1>17. ASSUME NEW f \in Frontend, Joins(f) PROVE \A g \in Frontend : Placing(g)'
  <2>1. /\ UNCHANGED forked /\ \A g \in Frontend : g # f => at'[g] = at[g]
        /\ at'[f] = at[f] \/ at'[f] \in {"attached", "left"}
    BY <1>17, <1>t DEF Joins
  <2>2. Placing(f)'
    BY <1>5, <2>1 DEF Placing
  <2> QED
    BY <1>5, <2>1, <2>2
<1>18. ASSUME NEW h \in Host, Ends(h) \/ HostKilled(h) PROVE \A g \in Frontend : Placing(g)'
  <2>1. UNCHANGED forked /\ \A g \in Frontend : at'[g] = at[g] \/ at'[g] = "left"
    BY <1>18 DEF Ends, HostKilled
  <2>2. ASSUME NEW g \in Frontend, at'[g] = "left" PROVE Placing(g)'
    BY <2>2 DEF Placing
  <2> QED
    BY <1>5, <2>1, <2>2
<1>19. ASSUME UNCHANGED <<at, forked>> PROVE \A g \in Frontend : Placing(g)'
  BY <1>5, <1>19
<1>20. ASSUME NEW d \in Daemon, DaemonStep(d) \/ Terminated(d) \/ DaemonKilled(d)
       PROVE  UNCHANGED <<at, forked>>
  BY <1>20 DEF DaemonStep, Locks, Binds, Serves, GoesIdle, Closes, Unlinks, Exits, Forgets,
     Terminated, DaemonKilled, frontendVars
<1>21. ASSUME NEW h \in Host,
            Says(h) \/ TakesOn(h) \/ Tells(h) \/ Refused(h) \/ Hears(h) \/ Arrives(h) \/ GoesOn(h)
            \/ Hangs(h) \/ Finishes(h)
       PROVE  UNCHANGED <<at, forked>>
  BY <1>21 DEF Says, TakesOn, Tells, Refused, Hears, Arrives, GoesOn, Hangs, Finishes, frontendVars
<1>22. ASSUME NEW f \in Frontend, Hands(f) \/ HandsOver(f) \/ Drops(f) \/ Attached(f)
       PROVE  UNCHANGED <<at, forked>>
  BY <1>22 DEF Hands, HandsOver, Drops, Attached
<1>23. UNCHANGED vars => UNCHANGED <<at, forked>>
  BY DEF vars, frontendVars
<1>24. \A f \in Frontend : Placing(f)'
  BY <1>9, <1>10, <1>11, <1>12, <1>13, <1>14, <1>15, <1>16, <1>17, <1>18, <1>19, <1>20, <1>21,
     <1>22, <1>23 DEF Next, HostStep, CallStep, FrontendStep
<1>25. ASSUME NEW d \in Daemon, daemon'[d] # "none", daemon[d] = "none"
       PROVE  \E k \in Frontend : Came(k)'
  <2>1. \E f \in Frontend : Machine(f)
    <3>1. daemon' # daemon
      BY <1>25
    <3>2. ASSUME NEW e \in Daemon, DaemonStep(e) \/ Terminated(e) \/ DaemonKilled(e) PROVE FALSE
      <4>1. CASE Forgets(e)
        BY <3>1, <4>1 DEF Forgets
      <4>2. PICK to : daemon' = [daemon EXCEPT ![e] = to] /\ daemon[e] # "none"
        <5>1. CASE Locks(e) \/ Binds(e) \/ Serves(e)
          BY <5>1 DEF Locks, Binds, Serves
        <5>2. CASE GoesIdle(e) \/ Closes(e) \/ Unlinks(e) \/ Exits(e)
          BY <5>2 DEF GoesIdle, Closes, Unlinks, Exits
        <5>3. CASE Terminated(e) \/ DaemonKilled(e)
          BY <5>3 DEF Terminated, DaemonKilled, DaemonAlive
        <5> QED
          BY <3>2, <4>1, <5>1, <5>2, <5>3 DEF DaemonStep
      <4> QED
        BY <1>25, <1>t, <4>2
    <3>3. ASSUME NEW h \in Host, HostStep(h) \/ HostKilled(h) PROVE FALSE
      BY <3>1, <3>3 DEF HostStep, Says, TakesOn, Tells, Refused, Hears, Arrives, GoesOn, Ends,
         Hangs, Finishes, HostKilled, daemonVars
    <3>4. ASSUME NEW f \in Frontend,
                 CallStep(f) \/ Looks(f) \/ Raised(f) \/ Starts(f) \/ Hosted(f) \/ Links(f)
                 \/ Fails(f) \/ Retries(f) \/ Begins(f) \/ Leaves(f)
          PROVE  FALSE
      BY <3>1, <3>4 DEF CallStep, Hands, HandsOver, Drops, Attached, Joins, Looks, Raised, Starts,
         Hosted, Links, Fails, Retries, Begins, Leaves, daemonVars
    <3>5. vars' # vars
      BY <3>1 DEF vars, daemonVars
    <3> QED
      BY <3>2, <3>3, <3>4, <3>5 DEF Next, FrontendStep
  <2> QED
    BY <1>10, <1>25, <2>1
<1>26. (\E d \in Daemon : daemon[d] # "none") => \E k \in Frontend : Came(k)
  BY DEF Raisers
<1> QED
  BY <1>3, <1>24, <1>25, <1>26 DEF Raisers, Placing

-----------------------------------------------------------------------------
(* Who is done, and what that pays for. *)

\* A host that has closed everything is not there again.
LEMMA HostsGone ==
  ASSUME TypeOK, [Next]_vars, NEW g \in Host, host[g] \in {"hung", "over"}
  PROVE  host'[g] \in {"hung", "over"}
<1> DEFINE Further == host'[g] \in {"hung", "over"}
<1>t. DOMAIN host = Host
  BY DEF TypeOK
<1> USE <1>t DEF hostVars
<1>1. ASSUME NEW h \in Host, Says(h) \/ TakesOn(h) \/ Tells(h) \/ Refused(h) PROVE Further
  BY <1>1 DEF Says, TakesOn, Tells, Refused
<1>2. ASSUME NEW h \in Host, Hears(h) \/ GoesOn(h) \/ Ends(h) PROVE Further
  BY <1>2 DEF Hears, GoesOn, Ends
<1>3. ASSUME NEW h \in Host, Hangs(h) \/ Finishes(h) \/ HostKilled(h) PROVE Further
  BY <1>3 DEF Hangs, Finishes, HostKilled
<1>4. ASSUME NEW f \in Frontend, Starts(f) PROVE Further
  <2>1. host' = host \/ \E h \in Host : host[h] = "none" /\ host' = [host EXCEPT ![h] = "started"]
    BY <1>4 DEF Starts
  <2> QED
    BY <2>1
<1>5. CASE UNCHANGED host
  BY <1>5
<1>6. ASSUME NEW d \in Daemon, DaemonStep(d) \/ Terminated(d) \/ DaemonKilled(d) PROVE UNCHANGED host
  BY <1>6 DEF DaemonStep, Locks, Binds, Serves, GoesIdle, Closes, Unlinks, Exits, Forgets,
     Terminated, DaemonKilled
<1>7. ASSUME NEW h \in Host, Arrives(h) PROVE UNCHANGED host
  BY <1>7 DEF Arrives
<1>8. ASSUME NEW f \in Frontend,
            CallStep(f) \/ Looks(f) \/ Machine(f) \/ Raised(f) \/ Hosted(f) \/ Links(f)
            \/ Fails(f) \/ Retries(f) \/ Begins(f) \/ Leaves(f)
      PROVE  UNCHANGED host
  BY <1>8 DEF CallStep, Hands, HandsOver, Drops, Attached, Joins, Looks, Machine, Raised, Hosted,
     Links, Fails, Retries, Begins, Leaves
<1>9. UNCHANGED vars => UNCHANGED host
  BY DEF vars
<1> QED
  BY <1>1, <1>2, <1>3, <1>4, <1>5, <1>6, <1>7, <1>8, <1>9 DEF Next, HostStep, FrontendStep

\* Who is done has been attached, or has left,
LEMMA DoneAt == ASSUME Answered, NEW f \in Frontend, Done(f) PROVE at[f] \in {"attached", "left"}
BY DEF Answered, Done

\* and stays done.
LEMMA DoneKept ==
  ASSUME IInv, Answered, [Next]_vars, NEW g \in Frontend, Done(g)
  PROVE  Done(g)'
<1>t. /\ call \in [Frontend -> Call] /\ DOMAIN at = Frontend
      /\ \A h \in Host : members[h] \subseteq Frontend
  BY DEF IInv, TypeOK, Call, Stage
<1>d. \A d \in Daemon : daemon[d] \in {"ending", "closed", "unlinked", "over"} =>
                          daemon'[d] \in {"ending", "closed", "unlinked", "over"}
  BY DaemonsOnward DEF IInv
<1>h. \A h \in Host : host[h] \in {"hung", "over"} => host'[h] \in {"hung", "over"}
  BY HostsGone DEF IInv
<1>b. /\ call[g].stage = "backlog" => call[g].by \in Daemon
      /\ call[g].stage \in {"handing", "sent", "reading", "hello"} => call[g].by \in Host
  BY DEF IInv, Backlogged, Placed, Answered
<1>a. at[g] \in {"attached", "left"} /\ (at[g] = "attached" => call[g].stage = "joined")
  BY DoneAt DEF Answered
<1>l. \A h \in Host : line[h] # <<>> =>
        /\ host[h] = "told" => Head(line[h]) \notin Frontend
        /\ host[h] \in {"up", "closed"} /\ Head(line[h]) \in Frontend =>
             call[Head(line[h])].stage = "sent" /\ call[Head(line[h])].by = h
  BY Heads DEF IInv
<1>1. ASSUME call'[g].stage = call[g].stage, call'[g].by = call[g].by,
             at'[g] \in {at[g], "left"}
      PROVE  Done(g)'
  <2>1. Astray(g) => Astray(g)'
    BY <1>1, <1>b, <1>d, <1>h DEF Astray
  <2>2. at[g] = "left" => at'[g] = "left"
    BY <1>1
  <2> QED
    BY <1>1, <2>1, <2>2 DEF Done
<1> USE <1>t DEF frontendVars
<1>2. ASSUME NEW f \in Frontend, f = g, OthersStay(f), at[f] \notin {"attached", "left"} PROVE FALSE
  BY <1>2, <1>a
<1>3. ASSUME NEW f \in Frontend, FrontendStep(f) \/ Begins(f) PROVE Done(g)'
  <2>1. f # g
    BY <1>3, <1>a DEF FrontendStep, Looks, Machine, Raised, Starts, Hosted, Links,
       Fails, Retries, Begins
  <2>2. OthersStay(f)
    <3>1. (\E to : Goes(f, to)) \/ GivesUp(f) \/ TriesAgain(f)
      BY <1>3 DEF FrontendStep, Looks, Machine, Raised, Starts, Hosted, Links, Fails, Retries, Begins
    <3> QED
      BY <3>1, Trying DEF IInv
  <2>3. call'[g] = call[g]
    BY <1>3, <2>1 DEF FrontendStep, Looks, Machine, Raised, Starts, Hosted, Links,
       Fails, Retries, Begins
  <2> QED
    BY <1>1, <2>1, <2>2, <2>3 DEF OthersStay
<1>4. ASSUME NEW f \in Frontend, Leaves(f) PROVE Done(g)'
  <2>1. call' = call /\ at'[g] \in {at[g], "left"}
    BY <1>4 DEF Leaves, Goes
  <2> QED
    BY <1>1, <2>1
<1>5. ASSUME NEW h \in Host, Ends(h) \/ HostKilled(h) PROVE Done(g)'
  <2>1. call' = call /\ at'[g] \in {at[g], "left"}
    BY <1>5 DEF Ends, HostKilled
  <2> QED
    BY <1>1, <2>1
<1>6. ASSUME NEW f \in Frontend, CallStep(f), f # g PROVE Done(g)'
  <2>1. call'[g] = call[g] /\ at'[g] = at[g]
    BY <1>6 DEF CallStep, Hands, HandsOver, Drops, Attached, Joins
  <2> QED
    BY <1>1, <2>1
<1>7. CASE Hands(g)
  <2>1. call[g].stage = "backlog" /\ daemon[call[g].by] = "serving"
    BY <1>7 DEF Hands
  <2> QED
    BY <2>1 DEF Done, Astray
<1>8. CASE HandsOver(g)
  <2>1. call[g].stage = "handing" /\ at[g] = "left" /\ host[call[g].by] \in {"hung", "over"}
    BY <1>8 DEF HandsOver, Done, Astray
  <2>2. call'[g].stage = "refused" /\ at'[g] = "left"
    BY <1>8, <2>1 DEF HandsOver, HostThere, On
  <2> QED
    BY <2>2 DEF Done, Astray
<1>9. CASE Drops(g)
  <2>1. call'[g].stage = call[g].stage /\ call'[g].by = call[g].by /\ at' = at
    BY <1>9 DEF Drops, Call
  <2> QED
    BY <1>1, <2>1
<1>10. CASE Attached(g) \/ Joins(g)
  <2>1. call[g].stage \in {"reading", "hello"} /\ HostThere(call[g].by)
    BY <1>10 DEF Attached, Joins
  <2> QED
    BY <2>1 DEF Done, Astray, HostThere
<1>11. ASSUME NEW h \in Host, Hears(h) PROVE Done(g)'
  <2>1. call'[g] = call[g] /\ at' = at
    BY <1>11, <1>l DEF Hears
  <2> QED
    BY <1>1, <2>1
<1>12. ASSUME NEW h \in Host, Arrives(h) PROVE Done(g)'
  <2>1. g # Head(line[h])
    BY <1>12, <1>l DEF Arrives, Done, Astray
  <2>2. call'[g] = call[g] /\ at' = at
    BY <1>12, <2>1 DEF Arrives
  <2> QED
    BY <1>1, <2>2
<1>13. CASE UNCHANGED <<at, call>>
  BY <1>1, <1>13
<1>14. ASSUME NEW d \in Daemon, DaemonStep(d) \/ Terminated(d) \/ DaemonKilled(d)
       PROVE  UNCHANGED <<at, call>>
  BY <1>14 DEF DaemonStep, Locks, Binds, Serves, GoesIdle, Closes, Unlinks, Exits, Forgets,
     Terminated, DaemonKilled
<1>15. ASSUME NEW h \in Host,
            Says(h) \/ TakesOn(h) \/ Tells(h) \/ Refused(h) \/ GoesOn(h) \/ Hangs(h) \/ Finishes(h)
       PROVE  UNCHANGED <<at, call>>
  BY <1>15 DEF Says, TakesOn, Tells, Refused, GoesOn, Hangs, Finishes
<1>16. UNCHANGED vars => UNCHANGED <<at, call>>
  BY DEF vars
<1> QED
  BY <1>3, <1>4, <1>5, <1>6, <1>7, <1>8, <1>9, <1>10, <1>11, <1>12, <1>13, <1>14, <1>15,
     <1>16 DEF Next, HostStep, CallStep

\* A host is up that somebody was attached to: it was before, or one more is done.
LEMMA LivedKept ==
  ASSUME IInv, Answered, [Next]_vars, Lived', ~Lived
  PROVE  \E g \in Frontend : ~Done(g) /\ Done(g)'
<1>t. /\ call \in [Frontend -> Call] /\ DOMAIN at = Frontend /\ DOMAIN host = Host
      /\ ever \in [Host -> BOOLEAN]
  BY DEF IInv, TypeOK, Call, Stage
<1> USE <1>t DEF hostVars
<1>1. ASSUME NEW f \in Frontend, Joins(f) PROVE ~Done(f) /\ Done(f)'
  <2>1. call[f].stage = "hello" /\ HostThere(call[f].by)
    BY <1>1 DEF Joins
  <2>2. ~Done(f)
    BY <2>1 DEF Done, Astray, HostThere
  <2>3. ~call[f].listed => at[f] = "left"
    BY <2>1 DEF Answered
  <2>4. \/ call'[f].stage = "joined"
        \/ call'[f].stage = "none" /\ at'[f] = "left"
    BY <1>1, <2>3 DEF Joins, Still, NoCall, Call
  <2> QED
    BY <2>2, <2>4 DEF Done, Astray
<1>2. ASSUME NEW h \in Host, Hears(h) PROVE FALSE
  <2>1. host[h] = "told" /\ host' = [host EXCEPT ![h] = "up"] /\ UNCHANGED ever
    BY <1>2 DEF Hears
  <2>2. ~ever[h]
    BY <2>1 DEF Answered, Heard
  <2> QED
    BY <2>1, <2>2 DEF Lived
<1>3. ASSUME NEW h \in Host,
             Says(h) \/ TakesOn(h) \/ Tells(h) \/ Refused(h) \/ GoesOn(h) \/ Ends(h) \/ Hangs(h)
             \/ Finishes(h) \/ HostKilled(h)
      PROVE  FALSE
  <2>1. UNCHANGED ever /\ \E to : to # "up" /\ host' = [host EXCEPT ![h] = to]
    <3>1. CASE Says(h) \/ TakesOn(h) \/ Tells(h) \/ Refused(h) \/ GoesOn(h)
      BY <3>1 DEF Says, TakesOn, Tells, Refused, GoesOn
    <3>2. CASE Ends(h) \/ Hangs(h) \/ Finishes(h) \/ HostKilled(h)
      BY <3>2 DEF Ends, Hangs, Finishes, HostKilled
    <3> QED
      BY <1>3, <3>1, <3>2
  <2> QED
    BY <2>1 DEF Lived
<1>4. ASSUME NEW f \in Frontend, Starts(f) PROVE FALSE
  <2>1. /\ UNCHANGED ever
        /\ host' = host \/ \E h \in Host : host' = [host EXCEPT ![h] = "started"]
    BY <1>4 DEF Starts
  <2> QED
    BY <2>1 DEF Lived
<1>5. ASSUME UNCHANGED <<host, ever>> PROVE FALSE
  BY <1>5 DEF Lived
<1>6. ASSUME NEW d \in Daemon, DaemonStep(d) \/ Terminated(d) \/ DaemonKilled(d)
      PROVE  UNCHANGED <<host, ever>>
  BY <1>6 DEF DaemonStep, Locks, Binds, Serves, GoesIdle, Closes, Unlinks, Exits, Forgets,
     Terminated, DaemonKilled
<1>7. ASSUME NEW h \in Host, Arrives(h) PROVE UNCHANGED <<host, ever>>
  BY <1>7 DEF Arrives
<1>8. ASSUME NEW f \in Frontend,
            Hands(f) \/ HandsOver(f) \/ Drops(f) \/ Attached(f) \/ Looks(f) \/ Machine(f)
            \/ Raised(f) \/ Hosted(f) \/ Links(f) \/ Fails(f) \/ Retries(f) \/ Begins(f) \/ Leaves(f)
      PROVE  UNCHANGED <<host, ever>>
  BY <1>8 DEF Hands, HandsOver, Drops, Attached, Looks, Machine, Raised, Hosted, Links, Fails,
     Retries, Begins, Leaves
<1>9. UNCHANGED vars => UNCHANGED <<host, ever>>
  BY DEF vars
<1> QED
  BY <1>1, <1>2, <1>3, <1>4, <1>5, <1>6, <1>7, <1>8, <1>9 DEF Next, HostStep, CallStep, FrontendStep

\* A daemon that comes comes on, until it is idle; and one comes by taking the lock.
LEMMA ComingKept ==
  ASSUME IInv, [Next]_vars, faults = 0, faults' = 0
  PROVE  /\ Coming => (Coming' /\ lock' = lock) \/ \E d \in Daemon : GoesIdle(d)
         /\ Serving => Serving' \/ \E d \in Daemon : GoesIdle(d)
         /\ ~Coming /\ Coming' => \E d \in Daemon : Locks(d) /\ Free
<1>t. /\ DOMAIN daemon = Daemon /\ 0 \notin Daemon /\ (lock # 0 => lock \in Daemon)
      /\ \A d \in Daemon : daemon[d] \in Holding => lock = d
  BY DaemonAssumption DEF IInv, TypeOK, Daemon, Ruled
<1> DEFINE Goal == /\ Coming => (Coming' /\ lock' = lock) \/ \E d \in Daemon : GoesIdle(d)
                   /\ Serving => Serving' \/ \E d \in Daemon : GoesIdle(d)
                   /\ ~Coming /\ Coming' => \E d \in Daemon : Locks(d) /\ Free
<1> USE <1>t DEF Coming, Serving, Holding, daemonVars, placeVars
<1>1. ASSUME NEW d \in Daemon, Locks(d) PROVE Goal
  <2>1. CASE Free
    BY <1>1, <2>1 DEF Free
  <2>2. CASE ~Free
    BY <1>1, <2>2 DEF Free, Locks
  <2> QED
    BY <2>1, <2>2
<1>2. ASSUME NEW d \in Daemon, Binds(d) PROVE Goal
  BY <1>2 DEF Binds
<1>3. ASSUME NEW d \in Daemon, Serves(d) PROVE Goal
  BY <1>3 DEF Serves
<1>4. ASSUME NEW d \in Daemon, GoesIdle(d) PROVE Goal
  BY <1>4 DEF GoesIdle
<1>5. ASSUME NEW d \in Daemon, Closes(d) PROVE Goal
  BY <1>5 DEF Closes
<1>6. ASSUME NEW d \in Daemon, Unlinks(d) PROVE Goal
  BY <1>6 DEF Unlinks
<1>7. ASSUME NEW d \in Daemon, Exits(d) PROVE Goal
  BY <1>7 DEF Exits
<1>8. ASSUME NEW d \in Daemon, Terminated(d) \/ DaemonKilled(d) PROVE Goal
  BY <1>8 DEF Terminated, DaemonKilled
<1>9. ASSUME NEW f \in Frontend, Machine(f) PROVE Goal
  <2>1. UNCHANGED placeVars
    BY <1>9 DEF Machine
  <2>2. \/ daemon' = daemon
        \/ \E d \in Daemon : daemon[d] = "none" /\ daemon' = [daemon EXCEPT ![d] = "started"]
    BY <1>9 DEF Machine
  <2> QED
    BY <2>1, <2>2
<1>10. CASE UNCHANGED <<placeVars, daemon>>
  BY <1>10
<1>11. ASSUME NEW d \in Daemon, Forgets(d) PROVE UNCHANGED <<placeVars, daemon>>
  BY <1>11 DEF Forgets
<1>12. ASSUME NEW h \in Host, HostStep(h) \/ HostKilled(h) PROVE UNCHANGED <<placeVars, daemon>>
  BY <1>12 DEF HostStep, Says, TakesOn, Tells, Refused, Hears, Arrives, GoesOn, Ends, Hangs,
     Finishes, HostKilled
<1>13. ASSUME NEW f \in Frontend,
            CallStep(f) \/ Looks(f) \/ Raised(f) \/ Starts(f) \/ Hosted(f) \/ Links(f)
            \/ Fails(f) \/ Retries(f) \/ Begins(f) \/ Leaves(f)
      PROVE  UNCHANGED <<placeVars, daemon>>
  BY <1>13 DEF CallStep, Hands, HandsOver, Drops, Attached, Joins, Looks, Raised, Starts, Hosted,
     Links, Fails, Retries, Begins, Leaves
<1>14. UNCHANGED vars => UNCHANGED <<placeVars, daemon>>
  BY DEF vars
<1> QED
  BY <1>1, <1>2, <1>3, <1>4, <1>5, <1>6, <1>7, <1>8, <1>9, <1>10, <1>11, <1>12, <1>13,
     <1>14 DEF Next, DaemonStep, FrontendStep

\* How many are done.
LEMMA Counted ==
  /\ IsFiniteSet({g \in Frontend : Done(g)}) /\ Cardinality({g \in Frontend : Done(g)}) \in Nat
<1> {g \in Frontend : Done(g)} \subseteq Frontend
  OBVIOUS
<1> QED
  BY DaemonAssumption, FS_Subset, FS_CardinalityType

LEMMA CountedNext ==
  /\ IsFiniteSet({g \in Frontend : Done(g)'}) /\ Cardinality({g \in Frontend : Done(g)'}) \in Nat
<1> {g \in Frontend : Done(g)'} \subseteq Frontend
  OBVIOUS
<1> QED
  BY DaemonAssumption, FS_Subset, FS_CardinalityType

\* What is paid for, before a step and after it.
LEMMA Balance ==
  ASSUME IInv, Answered, [Next]_vars
  PROVE  LET D == Cardinality({g \in Frontend : Done(g)})
             E == Cardinality({g \in Frontend : Done(g)'})
         IN /\ D \in Nat /\ E \in Nat /\ D <= E
            /\ Lived' /\ ~Lived => D + 1 <= E
            /\ \A n : Paid(n) <=> n + (IF Lived THEN 1 ELSE 0) <= D + (IF Coming THEN 1 ELSE 0)
            /\ \A n : Paid(n)' <=> n + (IF Lived' THEN 1 ELSE 0) <= E + (IF Coming' THEN 1 ELSE 0)
<1> DEFINE D == {g \in Frontend : Done(g)}
           E == {g \in Frontend : Done(g)'}
<1>1. /\ IsFiniteSet(D) /\ Cardinality(D) \in Nat /\ IsFiniteSet(E) /\ Cardinality(E) \in Nat
  BY Counted, CountedNext
<1>2. D \subseteq E
  BY DoneKept
<1>3. Cardinality(D) <= Cardinality(E)
  BY <1>1, <1>2, FS_Subset
<1>4. ASSUME Lived', ~Lived
      PROVE  Cardinality(D) + 1 <= Cardinality(E)
  <2>1. PICK g \in Frontend : ~Done(g) /\ Done(g)'
    BY <1>4, LivedKept
  <2>2. D \cup {g} \subseteq E /\ g \notin D
    BY <1>2, <2>1
  <2>3. IsFiniteSet(D \cup {g}) /\ Cardinality(D \cup {g}) = Cardinality(D) + 1
    BY <1>1, <2>2, FS_AddElement
  <2> HIDE DEF D, E
  <2> QED
    BY <1>1, <2>2, <2>3, FS_Subset
<1>5. \A n : Paid(n) <=> n + (IF Lived THEN 1 ELSE 0) <= Cardinality(D) + (IF Coming THEN 1 ELSE 0)
  BY DEF Paid
<1>6. \A n : Paid(n)' <=>
          n + (IF Lived' THEN 1 ELSE 0) <= Cardinality(E) + (IF Coming' THEN 1 ELSE 0)
  BY DEF Paid
<1> QED
  BY <1>1, <1>3, <1>4, <1>5, <1>6

\* What is paid for is so for good, as long as no daemon goes.
LEMMA PaidKept ==
  ASSUME IInv, Answered, [Next]_vars, Coming => Coming', NEW n \in Int, Paid(n)
  PROVE  Paid(n)'
BY Balance

\* A host that is listed, and has not hung up, is the one of the daemon that serves.
LEMMA HostOf ==
  ASSUME IInv, Keeping, NEW h \in Host, host[h] \in {"listed", "told", "up", "going", "closed"}
  PROVE  Serving /\ of[h] = lock /\ held[lock] = h /\ lock \in Daemon
<1>1. of[h] # 0 /\ daemon[of[h]] = "serving" /\ held[of[h]] = h
  BY DEF Keeping
<1>2. of[h] \in Daemon
  <2>1. of[h] \in 0..MaxDaemon
    BY DEF IInv, TypeOK
  <2> QED
    BY <1>1, <2>1, DaemonAssumption DEF Daemon
<1>3. lock = of[h] /\ 0 \notin Daemon
  BY <1>1, <1>2, DaemonAssumption DEF IInv, Ruled, Holding, Daemon
<1> QED
  BY <1>1, <1>2, <1>3 DEF Serving

\* An idle daemon that goes owes nobody anything: whoever started it is done, and nobody else
\* has been to it yet but at first sight.
LEMMA IdleKept ==
  ASSUME Even, NEW d \in Daemon, GoesIdle(d), faults' = 0
  PROVE  Accounts'
<1>0. IInv /\ Written /\ Keeping /\ Answered /\ Raisers /\ Accounts /\ faults = 0
  BY DEF Even
<1>t. /\ call \in [Frontend -> Call] /\ DOMAIN daemon = Daemon
      /\ at \in [Frontend -> OnTheirWay \cup {"out", "tick", "again", "attached", "left", "failed"}]
      /\ lock = d /\ 0 \notin Daemon
  <2>1. lock = d
    BY <1>0 DEF GoesIdle, IInv, Ruled, Holding
  <2> QED
    BY <1>0, <2>1, DaemonAssumption DEF IInv, TypeOK, Call, Stage, Daemon
<1>1. \A h \in Host : host[h] \notin {"listed", "told", "up", "going", "closed"}
  <2>1. held[lock] = 0 /\ 0 \notin Host
    BY <1>t, DaemonAssumption DEF GoesIdle, Idle, Host
  <2> QED
    BY <1>0, <2>1, HostOf
<1>2. \A f \in Frontend : ~Near(f)
  BY <1>0 DEF GoesIdle, InTime
<1>3. daemon' = [daemon EXCEPT ![d] = "ending"] /\ UNCHANGED <<at, tries, call, host, ever, lock>>
  BY DEF GoesIdle, placeVars, hostVars, frontendVars
<1>4. PICK k \in Frontend : Came(k)
  BY <1>0 DEF Raisers, GoesIdle
<1>5. at[k] \in {"attached", "left"}
  BY <1>0, <1>2, <1>4 DEF Came, Accounts
<1>6. Done(k)'
  <2>1. CASE at[k] = "attached"
    BY <1>0, <1>3, <2>1 DEF Answered, Done
  <2>2. CASE at[k] = "left"
    <3>1. call[k].stage \in Stage
      BY <1>t DEF Call
    <3>2. ASSUME call[k].stage = "backlog" PROVE Astray(k)'
      <4>1. call[k].by \in Daemon /\ daemon[call[k].by] \notin {"none", "started"}
        BY <1>0, <3>2 DEF IInv, Backlogged, Answered
      <4>2. daemon'[call[k].by] \in {"ending", "over"}
        <5>1. CASE call[k].by = d
          BY <1>3, <1>t, <4>1, <5>1
        <5>2. CASE call[k].by # d
          <6>1. daemon[call[k].by] \notin Holding
            BY <1>0, <1>t, <4>1, <5>2 DEF IInv, Ruled
          <6>2. daemon[call[k].by] = "over"
            BY <1>0, <4>1, <6>1 DEF IInv, TypeOK, Holding
          <6> QED
            BY <1>3, <1>t, <4>1, <5>2, <6>2
        <5> QED
          BY <5>1, <5>2
      <4> QED
        BY <1>3, <3>2, <4>2 DEF Astray
    <3>3. ASSUME call[k].stage \in {"handing", "sent", "reading", "hello"} PROVE Astray(k)'
      <4>1. call[k].by \in Host /\ host[call[k].by] \in Listed
        BY <1>0, <3>3 DEF IInv, Placed, Answered, Heard, Listed
      <4>2. host[call[k].by] \in {"hung", "over"}
        BY <1>1, <4>1 DEF Listed
      <4> QED
        BY <1>3, <3>3, <4>2 DEF Astray
    <3>4. ASSUME call[k].stage \in {"none", "refused", "lost"} PROVE Astray(k)'
      BY <1>3, <3>4 DEF Astray
    <3>5. call[k].stage = "joined" \/ Astray(k)'
      BY <3>1, <3>2, <3>3, <3>4 DEF Stage
    <3> QED
      BY <1>3, <2>2, <3>5 DEF Done
  <2> QED
    BY <1>5, <2>1, <2>2
<1>7. Paid(1)' /\ Paid(0)'
  <2> DEFINE E == {g \in Frontend : Done(g)'}
  <2>1. Cardinality(E) \in Nat /\ Cardinality(E) >= 1
    <3>1. E \subseteq Frontend /\ {k} \subseteq E
      BY <1>6
    <3>2. IsFiniteSet(E)
      BY <3>1, DaemonAssumption, FS_Subset
    <3>3. Cardinality({k}) = 1
      BY FS_Singleton
    <3> HIDE DEF E
    <3> QED
      BY <3>1, <3>2, <3>3, FS_Subset, FS_CardinalityType
  <2>2. ~Lived'
    BY <1>1, <1>3 DEF Lived
  <2>3. \A n : Paid(n)' <=>
            n + (IF Lived' THEN 1 ELSE 0) <= Cardinality(E) + (IF Coming' THEN 1 ELSE 0)
    BY DEF Paid
  <2> HIDE DEF E
  <2> QED
    BY ONLY <2>1, <2>2, <2>3
<1>8. ASSUME NEW f \in Frontend, at'[f] \notin {"attached", "left"}
      PROVE  at'[f] # "failed" /\ tries'[f].attach = 1
  <2>1. at'[f] # "failed"
    BY <1>0, <1>3, <1>8 DEF Accounts
  <2>2. at[f] \in {"out", "tick", "again", "look", "machine"}
    BY <1>2, <1>3, <1>8, <1>t, <2>1 DEF Near, OnTheirWay
  <2>3. tries[f] = First
    BY <1>0, <1>2, <2>2 DEF Near, Answered
  <2> QED
    BY <1>3, <2>1, <2>3 DEF First
<1> QED
  BY <1>7, <1>8 DEF Accounts

\* Once a daemon has begun, a failure is paid for.
LEMMA BegunKept ==
  ASSUME Even, [Next]_vars, faults' = 0, Coming => Coming'
  PROVE  Begun' => Paid(1)'
<1>0. IInv /\ Written /\ Keeping /\ Answered /\ Accounts /\ faults = 0
  BY DEF Even
<1>1. CASE Begun
  BY <1>0, <1>1, PaidKept DEF Accounts
<1>2. CASE ~Begun /\ Begun'
  <2>t. DOMAIN daemon = Daemon /\ (lock # 0 => lock \in Daemon)
    BY <1>0, DaemonAssumption DEF IInv, TypeOK, Daemon
  <2>1. ~Coming
    BY <1>2, <2>t DEF Coming, Begun
  <2>2. ~Lived
    <3>1. \A h \in Host : host[h] # "up"
      BY <1>0, <2>1, HostOf DEF Serving, Coming
    <3> QED
      BY <3>1 DEF Lived
  <2>3. Paid(0)
    BY Counted, <2>1, <2>2 DEF Paid
  <2>4. Paid(0)'
    BY <1>0, <2>3, PaidKept
  <2>5. lock = 0
    BY <1>0, <1>2, <2>t DEF Written, Holding, Begun
  <2>6. Coming' /\ UNCHANGED hostVars
    <3>1. PICK d \in Daemon : /\ daemon[d] \in {"none", "started"}
                              /\ daemon'[d] \notin {"none", "started"}
      BY <1>2 DEF Begun
    <3>2. ASSUME NEW e \in Daemon, DaemonStep(e) PROVE Coming' /\ UNCHANGED hostVars
      <4>1. daemon[e] \in {"none", "started"}
        BY <1>2 DEF Begun
      <4>2. daemon[e] \in {"locked", "bound", "serving", "ending", "closed", "unlinked"} \/ Locks(e)
        BY ONLY <3>2 DEF DaemonStep, Binds, Serves, GoesIdle, Closes, Unlinks, Exits, Forgets
      <4>3. Locks(e)
        BY <4>1, <4>2
      <4>4. lock' = e /\ daemon' = [daemon EXCEPT ![e] = "locked"] /\ UNCHANGED hostVars
        BY ONLY <2>5, <4>3 DEF Locks, Free
      <4>5. e # 0
        BY DaemonAssumption DEF Daemon
      <4> QED
        BY <2>t, <4>4, <4>5 DEF Coming
    <3>3. ASSUME NEW e \in Daemon, Terminated(e) \/ DaemonKilled(e) PROVE FALSE
      BY <1>0, <3>3 DEF Terminated, DaemonKilled
    <3>4. ASSUME NEW f \in Frontend, Machine(f) PROVE FALSE
      <4>1. daemon' = daemon \/ \E e \in Daemon : daemon' = [daemon EXCEPT ![e] = "started"]
        BY <3>4 DEF Machine
      <4> QED
        BY <2>t, <3>1, <4>1
    <3>5. ASSUME UNCHANGED daemon PROVE FALSE
      BY <3>1, <3>5
    <3>6. ASSUME NEW h \in Host, HostStep(h) \/ HostKilled(h) PROVE UNCHANGED daemon
      BY <3>6 DEF HostStep, Says, TakesOn, Tells, Refused, Hears, Arrives, GoesOn, Ends, Hangs,
         Finishes, HostKilled, daemonVars
    <3>7. ASSUME NEW f \in Frontend,
                 CallStep(f) \/ Looks(f) \/ Raised(f) \/ Starts(f) \/ Hosted(f) \/ Links(f)
                 \/ Fails(f) \/ Retries(f) \/ Begins(f) \/ Leaves(f)
          PROVE  UNCHANGED daemon
      BY <3>7 DEF CallStep, Hands, HandsOver, Drops, Attached, Joins, Looks, Raised, Starts, Hosted,
         Links, Fails, Retries, Begins, Leaves, daemonVars
    <3>8. UNCHANGED vars => UNCHANGED daemon
      BY DEF vars, daemonVars
    <3> QED
      BY <3>2, <3>3, <3>4, <3>5, <3>6, <3>7, <3>8 DEF Next, FrontendStep
  <2>7. ~Lived'
    BY <2>2, <2>6 DEF Lived, hostVars
  <2>8. Cardinality({g \in Frontend : Done(g)'}) \in Nat
    BY CountedNext
  <2>9. \A n : Paid(n)' <=> n + (IF Lived' THEN 1 ELSE 0)
                            <= Cardinality({g \in Frontend : Done(g)'}) + (IF Coming' THEN 1 ELSE 0)
    BY DEF Paid
  <2> QED
    BY <2>6, <2>7, <2>8, <2>9
<1> QED
  BY <1>1, <1>2

-----------------------------------------------------------------------------
(* Whose step it is. *)

\* Whose step it is that changes where a host is,
LEMMA HostMoves ==
  ASSUME TypeOK, [Next]_vars, NEW h \in Host, host'[h] # host[h]
  PROVE  \/ Says(h) \/ TakesOn(h) \/ Tells(h) \/ Refused(h) \/ Hears(h) \/ GoesOn(h) \/ Ends(h)
         \/ Hangs(h) \/ Finishes(h) \/ HostKilled(h)
         \/ host[h] = "none" /\ host'[h] = "started"
<1>t. DOMAIN host = Host
  BY DEF TypeOK
<1>1. ASSUME NEW d \in Daemon, DaemonStep(d) \/ Terminated(d) \/ DaemonKilled(d) PROVE FALSE
  BY <1>1 DEF DaemonStep, Locks, Binds, Serves, GoesIdle, Closes, Unlinks, Exits, Forgets,
     Terminated, DaemonKilled, hostVars
<1>2. ASSUME NEW g \in Host, g # h, HostStep(g) \/ HostKilled(g) PROVE FALSE
  <2>1. host' = host \/ \E to : host' = [host EXCEPT ![g] = to]
    <3>1. CASE Says(g) \/ TakesOn(g) \/ Tells(g) \/ Refused(g) \/ Hears(g)
      BY <3>1 DEF Says, TakesOn, Tells, Refused, Hears
    <3>2. CASE Arrives(g) \/ GoesOn(g) \/ Ends(g)
      BY <3>2 DEF Arrives, GoesOn, Ends
    <3>3. CASE Hangs(g) \/ Finishes(g) \/ HostKilled(g)
      BY <3>3 DEF Hangs, Finishes, HostKilled
    <3> QED
      BY <1>2, <3>1, <3>2, <3>3 DEF HostStep
  <2> QED
    BY <1>2, <1>t, <2>1
<1>3. CASE Arrives(h)
  BY <1>3 DEF Arrives
<1>4. ASSUME NEW f \in Frontend, Starts(f) PROVE host[h] = "none" /\ host'[h] = "started"
  <2>1. host' = host \/ \E g \in Host : host[g] = "none" /\ host' = [host EXCEPT ![g] = "started"]
    BY <1>4 DEF Starts
  <2> QED
    BY <1>t, <2>1
<1>5. ASSUME NEW f \in Frontend,
            CallStep(f) \/ Looks(f) \/ Machine(f) \/ Raised(f) \/ Hosted(f) \/ Links(f)
            \/ Fails(f) \/ Retries(f) \/ Begins(f) \/ Leaves(f)
      PROVE  FALSE
  BY <1>5 DEF CallStep, Hands, HandsOver, Drops, Attached, Joins, Looks, Machine, Raised, Hosted,
     Links, Fails, Retries, Begins, Leaves, hostVars
<1>6. ~UNCHANGED vars
  BY DEF vars, hostVars
<1> QED
  BY <1>1, <1>2, <1>3, <1>4, <1>5, <1>6 DEF Next, HostStep, FrontendStep

\* to which daemon it is,
LEMMA OfMoves ==
  ASSUME TypeOK, [Next]_vars, NEW h \in Host, of'[h] # of[h]
  PROVE  Says(h)
<1>t. DOMAIN of = Host
  BY DEF TypeOK
<1>1. ASSUME NEW d \in Daemon, DaemonStep(d) \/ Terminated(d) \/ DaemonKilled(d) PROVE FALSE
  BY <1>1 DEF DaemonStep, Locks, Binds, Serves, GoesIdle, Closes, Unlinks, Exits, Forgets,
     Terminated, DaemonKilled, hostVars
<1>2. ASSUME NEW g \in Host, HostStep(g) \/ HostKilled(g), ~Says(g) PROVE FALSE
  BY <1>2 DEF HostStep, TakesOn, Tells, Refused, Hears, Arrives, GoesOn, Ends, Hangs, Finishes,
     HostKilled
<1>3. ASSUME NEW g \in Host, g # h, Says(g) PROVE FALSE
  BY <1>3, <1>t DEF Says
<1>4. ASSUME NEW f \in Frontend, CallStep(f) \/ FrontendStep(f) \/ Begins(f) \/ Leaves(f) PROVE FALSE
  BY <1>4 DEF CallStep, FrontendStep, Hands, HandsOver, Drops, Attached, Joins, Looks, Machine,
     Raised, Starts, Hosted, Links, Fails, Retries, Begins, Leaves, hostVars
<1>5. ~UNCHANGED vars
  BY DEF vars, hostVars
<1> QED
  BY <1>1, <1>2, <1>3, <1>4, <1>5 DEF Next

\* which host a daemon holds,
LEMMA HeldMoves ==
  ASSUME TypeOK, [Next]_vars, NEW d \in Daemon, held'[d] # held[d]
  PROVE  Closes(d) \/ DaemonKilled(d) \/ Forgets(d) \/ \E h \in Host : TakesOn(h) /\ of[h] = d
<1>t. DOMAIN held = Daemon
  BY DEF TypeOK
<1>1. ASSUME NEW e \in Daemon, Closes(e) \/ Forgets(e) \/ DaemonKilled(e), e # d PROVE FALSE
  BY <1>1, <1>t DEF Closes, Forgets, DaemonKilled
<1>2. ASSUME NEW e \in Daemon,
             Locks(e) \/ Binds(e) \/ Serves(e) \/ GoesIdle(e) \/ Unlinks(e) \/ Exits(e)
             \/ Terminated(e)
      PROVE  FALSE
  BY <1>2 DEF Locks, Binds, Serves, GoesIdle, Unlinks, Exits, Terminated
<1>3. ASSUME NEW h \in Host, TakesOn(h) PROVE of[h] = d
  <2>1. held' = held \/ held' = [held EXCEPT ![of[h]] = h]
    BY <1>3 DEF TakesOn
  <2> QED
    BY <1>t, <2>1
<1>4. ASSUME NEW h \in Host, HostStep(h) \/ HostKilled(h), ~TakesOn(h) PROVE FALSE
  BY <1>4 DEF HostStep, Says, Tells, Refused, Hears, Arrives, GoesOn, Ends, Hangs, Finishes,
     HostKilled, daemonVars
<1>5. ASSUME NEW f \in Frontend, CallStep(f) \/ FrontendStep(f) \/ Begins(f) \/ Leaves(f) PROVE FALSE
  BY <1>5 DEF CallStep, FrontendStep, Hands, HandsOver, Drops, Attached, Joins, Looks, Machine,
     Raised, Starts, Hosted, Links, Fails, Retries, Begins, Leaves, daemonVars
<1>6. ~UNCHANGED vars
  BY DEF vars, daemonVars
<1> QED
  BY <1>1, <1>2, <1>3, <1>4, <1>5, <1>6 DEF Next, DaemonStep

\* where a frontend is,
LEMMA FrontMoves ==
  ASSUME TypeOK, [Next]_vars, NEW f \in Frontend, at[f] # "attached",
         at'[f] # at[f] \/ tries'[f] # tries[f] \/ forked'[f] # forked[f]
  PROVE  FrontendStep(f) \/ Begins(f) \/ Leaves(f) \/ Joins(f)
<1>t. DOMAIN at = Frontend /\ DOMAIN tries = Frontend /\ DOMAIN forked = Frontend
  BY DEF TypeOK
<1>1. ASSUME NEW d \in Daemon, DaemonStep(d) \/ Terminated(d) \/ DaemonKilled(d) PROVE FALSE
  BY <1>1 DEF DaemonStep, Locks, Binds, Serves, GoesIdle, Closes, Unlinks, Exits, Forgets,
     Terminated, DaemonKilled, frontendVars
<1>2. ASSUME NEW h \in Host, HostStep(h) \/ HostKilled(h), ~Ends(h), ~HostKilled(h) PROVE FALSE
  BY <1>2 DEF HostStep, Says, TakesOn, Tells, Refused, Hears, Arrives, GoesOn, Hangs, Finishes,
     frontendVars
<1>3. ASSUME NEW h \in Host, Ends(h) \/ HostKilled(h) PROVE FALSE
  BY <1>3 DEF Ends, HostKilled
<1>4. ASSUME NEW g \in Frontend, Hands(g) \/ HandsOver(g) \/ Drops(g) \/ Attached(g) PROVE FALSE
  BY <1>4 DEF Hands, HandsOver, Drops, Attached
<1>5. ASSUME NEW g \in Frontend, g # f, Joins(g) PROVE FALSE
  BY <1>5, <1>t DEF Joins
<1>6. ASSUME NEW g \in Frontend, g # f, FrontendStep(g) \/ Begins(g) \/ Leaves(g) PROVE FALSE
  <2>1. OthersStay(g)
    <3>1. (\E to : Goes(g, to)) \/ GivesUp(g) \/ TriesAgain(g)
      BY <1>6 DEF FrontendStep, Looks, Machine, Raised, Starts, Hosted, Links, Fails, Retries,
         Begins, Leaves
    <3> QED
      BY <3>1, Trying
  <2>2. forked' = forked \/ \E to : forked' = [forked EXCEPT ![g] = to]
    BY <1>6 DEF FrontendStep, Looks, Machine, Raised, Starts, Hosted, Links, Fails, Retries,
       Begins, Leaves
  <2> QED
    BY <1>6, <1>t, <2>1, <2>2 DEF OthersStay
<1>7. ~UNCHANGED vars
  BY DEF vars, frontendVars
<1> QED
  BY <1>1, <1>2, <1>3, <1>4, <1>5, <1>6, <1>7 DEF Next, CallStep

\* and what becomes of its socket.
LEMMA CallMoves ==
  ASSUME TypeOK, Worded, [Next]_vars, NEW f \in Frontend, call'[f] # call[f]
  PROVE  \/ CallStep(f) \/ Links(f) \/ Fails(f)
         \/ \E h \in Host : Arrives(h) /\ f = Head(line[h])
<1>t. DOMAIN call = Frontend
  BY DEF TypeOK
<1>1. ASSUME NEW d \in Daemon, DaemonStep(d) \/ Terminated(d) \/ DaemonKilled(d) PROVE FALSE
  BY <1>1 DEF DaemonStep, Locks, Binds, Serves, GoesIdle, Closes, Unlinks, Exits, Forgets,
     Terminated, DaemonKilled, frontendVars
<1>2. ASSUME NEW h \in Host, HostStep(h) \/ HostKilled(h), ~Hears(h), ~Arrives(h) PROVE FALSE
  BY <1>2 DEF HostStep, Says, TakesOn, Tells, Refused, GoesOn, Ends, Hangs, Finishes, HostKilled,
     frontendVars
<1>3. ASSUME NEW h \in Host, Hears(h) PROVE FALSE
  <2>1. Head(line[h]) = Word /\ Word \notin Frontend
    BY <1>3, DaemonAssumption DEF Hears, Worded
  <2> QED
    BY <1>3, <2>1 DEF Hears
<1>4. ASSUME NEW h \in Host, Arrives(h) PROVE f = Head(line[h])
  BY <1>4 DEF Arrives
<1>5. ASSUME NEW g \in Frontend, g # f, CallStep(g) PROVE FALSE
  BY <1>5, <1>t DEF CallStep, Hands, HandsOver, Drops, Attached, Joins
<1>6. ASSUME NEW g \in Frontend, g # f, Links(g) \/ Fails(g) PROVE FALSE
  BY <1>6, <1>t DEF Links, Fails
<1>7. ASSUME NEW g \in Frontend,
             Looks(g) \/ Machine(g) \/ Raised(g) \/ Starts(g) \/ Hosted(g) \/ Retries(g)
             \/ Begins(g) \/ Leaves(g)
      PROVE  FALSE
  BY <1>7 DEF Looks, Machine, Raised, Starts, Hosted, Retries, Begins, Leaves
<1>8. ~UNCHANGED vars
  BY DEF vars, frontendVars
<1> QED
  BY <1>1, <1>2, <1>3, <1>4, <1>5, <1>6, <1>7, <1>8 DEF Next, FrontendStep

-----------------------------------------------------------------------------
(* A step of which no daemon goes. *)

\* Where there was no fault and is none, and no daemon goes for being idle.
Evenly == Even /\ [Next]_vars /\ faults' = 0 /\ \A d \in Daemon : ~GoesIdle(d)

\* What such a step finds, and the daemon that comes stays.
LEMMA EvenFacts ==
  ASSUME Evenly
  PROVE  /\ IInv /\ TypeOK /\ Written /\ Keeping /\ Answered /\ Raisers /\ Accounts /\ faults = 0
         /\ Coming => Coming' /\ lock' = lock
         /\ Serving => Serving' /\ lock' = lock /\ lock \in Daemon /\ sock = lock /\ record = lock
         /\ \A h \in Host : ~HostKilled(h)
         /\ \A d \in Daemon : ~DaemonKilled(d) /\ ~Terminated(d)
<1>1. IInv /\ TypeOK /\ Written /\ Keeping /\ Answered /\ Raisers /\ Accounts /\ faults = 0
  BY DEF Evenly, Even, IInv
<1>2. /\ Coming => Coming' /\ lock' = lock
      /\ Serving => Serving'
  BY <1>1, ComingKept DEF Evenly
<1>3. lock # 0 => lock \in Daemon
  BY <1>1 DEF TypeOK, Daemon
<1>4. Serving => lock \in Daemon /\ sock = lock /\ record = lock /\ Coming
  BY <1>1, <1>3 DEF Serving, IInv, Ruled, Reachable, Written, Coming
<1>5. /\ \A h \in Host : ~HostKilled(h)
      /\ \A d \in Daemon : ~DaemonKilled(d) /\ ~Terminated(d)
  BY <1>1 DEF Evenly, HostKilled, DaemonKilled, Terminated
<1> QED
  BY <1>1, <1>2, <1>4, <1>5

\* One more failure is paid for by a host that is let go of while somebody is on the way, or by a
\* daemon that comes.
LEMMA Tipped ==
  ASSUME Evenly, NEW n \in Int, Paid(n),
         \/ \E h \in Host : GoesOn(h) /\ \E f \in Frontend : at[f] \in OnTheirWay
         \/ ~Coming /\ Coming'
  PROVE  Paid(n + 1)'
<1>0. IInv /\ TypeOK /\ Keeping /\ Answered /\ faults = 0 /\ [Next]_vars
  BY EvenFacts DEF Evenly
<1>1. CASE ~Coming /\ Coming'
  BY <1>0, <1>1, Balance
<1>2. CASE \E h \in Host : GoesOn(h) /\ \E f \in Frontend : at[f] \in OnTheirWay
  <2>1. PICK h \in Host : GoesOn(h) /\ \E f \in Frontend : at[f] \in OnTheirWay
    BY <1>2
  <2>2. host[h] = "up" /\ host' = [host EXCEPT ![h] = "going"] /\ UNCHANGED ever
    BY <2>1 DEF GoesOn
  <2>3. Serving /\ of[h] = lock /\ held[lock] = h /\ lock \in Daemon
    BY <1>0, <2>2, HostOf
  <2>4. DaemonThere(h)
    BY <2>3, DaemonAssumption DEF DaemonThere, Serving
  <2>5. ever[h]
    BY <1>0, <2>1, <2>4 DEF GoesOn, InTime, Evenly
  <2>6. Lived
    BY <2>2, <2>5 DEF Lived
  <2>7. ~Lived'
    <3>1. SUFFICES ASSUME NEW g \in Host, host'[g] = "up" PROVE FALSE
      BY DEF Lived
    <3>2. DOMAIN host = Host
      BY <1>0 DEF TypeOK
    <3>3. g # h /\ host[g] = "up"
      BY <2>2, <3>1, <3>2
    <3>4. held[lock] = g
      BY <1>0, <3>3, HostOf
    <3> QED
      BY <2>3, <3>3, <3>4
  <2>8. Coming => Coming'
    BY EvenFacts
  <2> QED
    BY <1>0, <2>6, <2>7, <2>8, Balance
<1> QED
  BY <1>1, <1>2

\* No daemon being there, one comes or none is; and one only started is so still.
LEMMA QuietKept ==
  ASSUME Evenly, Quiet, ~Coming'
  PROVE  Quiet' /\ \A d \in Daemon : daemon[d] = "started" => daemon'[d] = "started"
<1>0. TypeOK /\ Written /\ [Next]_vars /\ \A d \in Daemon : ~DaemonKilled(d) /\ ~Terminated(d)
  BY EvenFacts DEF Evenly
<1>t. DOMAIN daemon = Daemon
  BY <1>0 DEF TypeOK
<1>1. lock = 0
  <2>1. lock \in 0..MaxDaemon
    BY <1>0 DEF TypeOK
  <2>2. lock # 0 => lock \in Daemon
    BY <2>1, DaemonAssumption DEF Daemon
  <2> QED
    BY <1>0, <2>2 DEF Written, Holding, Quiet
<1>2. ASSUME NEW d \in Daemon, DaemonStep(d) PROVE FALSE
  <2>1. daemon[d] \in {"locked", "bound", "serving", "ending", "closed", "unlinked"} \/ Locks(d)
    BY ONLY <1>2 DEF DaemonStep, Binds, Serves, GoesIdle, Closes, Unlinks, Exits, Forgets
  <2>2. Locks(d)
    BY <2>1 DEF Quiet
  <2>3. lock' = d /\ daemon' = [daemon EXCEPT ![d] = "locked"]
    BY ONLY <1>1, <2>2 DEF Locks, Free
  <2>4. d # 0
    BY DaemonAssumption DEF Daemon
  <2> QED
    BY <1>t, <2>3, <2>4 DEF Coming
<1>3. ASSUME NEW f \in Frontend, Machine(f)
      PROVE  Quiet' /\ \A d \in Daemon : daemon[d] = "started" => daemon'[d] = "started"
  <2>1. daemon' = daemon \/ \E d \in Daemon : daemon' = [daemon EXCEPT ![d] = "started"]
    BY <1>3 DEF Machine
  <2> QED
    BY <1>t, <2>1 DEF Quiet
<1>4. CASE UNCHANGED daemon
  BY <1>4 DEF Quiet
<1>5. ASSUME NEW h \in Host, HostStep(h) \/ HostKilled(h) PROVE UNCHANGED daemon
  BY <1>5 DEF HostStep, Says, TakesOn, Tells, Refused, Hears, Arrives, GoesOn, Ends, Hangs,
     Finishes, HostKilled, daemonVars
<1>6. ASSUME NEW f \in Frontend,
             CallStep(f) \/ Looks(f) \/ Raised(f) \/ Starts(f) \/ Hosted(f) \/ Links(f)
             \/ Fails(f) \/ Retries(f) \/ Begins(f) \/ Leaves(f)
      PROVE  UNCHANGED daemon
  BY <1>6 DEF CallStep, Hands, HandsOver, Drops, Attached, Joins, Looks, Raised, Starts,
     Hosted, Links, Fails, Retries, Begins, Leaves, daemonVars
<1>7. UNCHANGED vars => UNCHANGED daemon
  BY DEF vars, daemonVars
<1> QED
  BY <1>0, <1>2, <1>3, <1>4, <1>5, <1>6, <1>7 DEF Next, FrontendStep

\* No host being about to go, none is but one that goes on;
LEMMA FreshKept ==
  ASSUME Evenly, Fresh, \A h \in Host : ~GoesOn(h)
  PROVE  Fresh'
<1>0. TypeOK /\ [Next]_vars
  BY EvenFacts DEF Evenly
<1>t. DOMAIN host = Host
  BY <1>0 DEF TypeOK
<1>1. SUFFICES ASSUME NEW h \in Host, host'[h] \in {"going", "closed", "hung"} PROVE FALSE
  BY DEF Fresh
<1>2. host[h] \notin {"going", "closed", "hung"}
  BY DEF Fresh
<1>3. \/ Says(h) \/ TakesOn(h) \/ Tells(h) \/ Refused(h) \/ Hears(h) \/ GoesOn(h) \/ Ends(h)
      \/ Hangs(h) \/ Finishes(h) \/ HostKilled(h)
  BY <1>0, <1>1, <1>2, HostMoves
<1>4. ~Says(h) /\ ~TakesOn(h) /\ ~Tells(h) /\ ~Refused(h) /\ ~Hears(h)
  BY <1>1, <1>t DEF Says, TakesOn, Tells, Refused, Hears
<1>5. ~Ends(h) /\ ~Hangs(h) /\ ~Finishes(h) /\ ~HostKilled(h)
  BY <1>1, <1>2, <1>t DEF Ends, Hangs, Finishes, HostKilled
<1> QED
  BY <1>3, <1>4, <1>5

\* a host that takes on whoever comes does so, but for one that goes on,
LEMMA WelcomeKept ==
  ASSUME Evenly, NEW h \in Host, Welcoming(h), ~GoesOn(h)
  PROVE  Welcoming(h)'
<1>0. IInv /\ TypeOK /\ Keeping /\ ~HostKilled(h) /\ [Next]_vars
  BY EvenFacts DEF Evenly
<1>t. DOMAIN host = Host
  BY <1>0 DEF TypeOK
<1>1. Serving /\ of[h] = lock /\ lock \in Daemon
  BY <1>0, HostOf DEF Welcoming
<1>2. DaemonThere(h)
  BY <1>1, DaemonAssumption DEF DaemonThere, Serving
<1>3. CASE host'[h] = host[h]
  BY <1>3 DEF Welcoming
<1>4. CASE host'[h] # host[h]
  <2>1. \/ Says(h) \/ TakesOn(h) \/ Tells(h) \/ Refused(h) \/ Hears(h) \/ GoesOn(h) \/ Ends(h)
        \/ Hangs(h) \/ Finishes(h) \/ HostKilled(h)
    BY <1>0, <1>4, HostMoves DEF Welcoming
  <2>2. Tells(h) \/ Hears(h)
    BY <1>0, <1>2, <2>1 DEF Says, TakesOn, Refused, Ends, Hangs, Finishes, Welcoming
  <2> QED
    BY <1>t, <2>2 DEF Tells, Hears, Welcoming
<1> QED
  BY <1>3, <1>4

\* and is held by the daemon that serves, as it was.
LEMMA HeldKept ==
  ASSUME Evenly, Serving, Welcoming(held[lock])
  PROVE  /\ held[lock] \in Host /\ held'[lock'] = held[lock]
         /\ ~GoesOn(held[lock]) => Welcoming(held[lock])'
<1>0. /\ IInv /\ TypeOK /\ [Next]_vars /\ lock' = lock /\ lock \in Daemon
      /\ \A d \in Daemon : ~DaemonKilled(d)
  BY EvenFacts DEF Evenly
<1>1. held[lock] \in Host
  <2>1. held[lock] \in 0..MaxHost
    BY <1>0 DEF TypeOK
  <2> QED
    BY <2>1, DaemonAssumption DEF Welcoming, Host
<1>2. ASSUME held'[lock] # held[lock] PROVE FALSE
  <2>1. Closes(lock) \/ Forgets(lock) \/ \E h \in Host : TakesOn(h) /\ of[h] = lock
    BY <1>0, <1>2, HeldMoves
  <2>2. ~Closes(lock) /\ ~Forgets(lock)
    BY DEF Closes, Forgets, Serving, Welcoming, HostThere
  <2>3. ASSUME NEW h \in Host, TakesOn(h), of[h] = lock PROVE FALSE
    <3>1. Taken(of[h])
      BY <2>3, <1>1 DEF Taken, HostAlive, Welcoming
    <3> QED
      BY <1>2, <2>3, <3>1 DEF TakesOn
  <2> QED
    BY <2>1, <2>2, <2>3
<1>3. held'[lock'] = held[lock]
  BY <1>0, <1>2
<1>4. ASSUME ~GoesOn(held[lock]) PROVE Welcoming(held[lock])'
  <2>1. PICK h \in Host : h = held[lock]
    BY <1>1
  <2>2. Welcoming(h)'
    BY <1>4, <2>1, WelcomeKept
  <2>3. held'[lock'] = h
    BY <1>3, <2>1
  <2>4. Welcoming(held[lock])' <=>
          held'[lock'] # 0 /\ host'[held'[lock']] \in {"listed", "told", "up"}
    BY DEF Welcoming
  <2> QED
    BY <2>2, <2>3, <2>4 DEF Welcoming
<1> QED
  BY <1>1, <1>3, <1>4

\* A daemon that serves is found, and is the one that is connected to.
LEMMA ServingFound ==
  ASSUME Evenly, Serving
  PROVE  /\ Found /\ Listening(sock) /\ sock = lock /\ daemon[sock] = "serving"
         /\ Welcoming(held[lock]) => Running # 0
         /\ Fresh /\ Running # 0 => Welcoming(held[lock])
<1>0. IInv /\ TypeOK /\ Placed /\ sock = lock /\ record = lock /\ lock \in Daemon
  BY EvenFacts DEF IInv
<1>1. Found /\ Listening(sock) /\ daemon[sock] = "serving"
  BY <1>0 DEF Found, DaemonAlive, Listening, Serving
<1>2. Welcoming(held[lock]) => Running # 0
  BY <1>0, <1>1 DEF Running, Welcoming, HostAlive
<1>3. ASSUME Fresh, Running # 0 PROVE Welcoming(held[lock])
  <2>1. HostAlive(held[lock])
    BY <1>0, <1>3 DEF Running
  <2>2. held[lock] \in Host
    <3>1. held[lock] \in 0..MaxHost
      BY <1>0 DEF TypeOK
    <3> QED
      BY <2>1, <3>1, DaemonAssumption DEF HostAlive, Host
  <2>3. host[held[lock]] \in Listed
    BY <1>0, <2>1 DEF Placed, HostAlive
  <2> QED
    BY <1>3, <2>1, <2>2, <2>3 DEF Fresh, HostAlive, Listed, Welcoming
<1> QED
  BY <1>0, <1>1, <1>2, <1>3

\* The host somebody waits for comes up, or is over as another did.
LEMMA HostingKept ==
  ASSUME Evenly, NEW f \in Frontend, Serving, Fresh, Hosting(f), forked'[f] = forked[f],
         \A h \in Host : ~GoesOn(h)
  PROVE  Hosting(f)'
<1>0. /\ IInv /\ TypeOK /\ Placed /\ [Next]_vars /\ lock' = lock /\ lock \in Daemon /\ sock = lock
      /\ \A h \in Host : ~HostKilled(h)
  BY EvenFacts DEF Evenly, IInv
<1>t. DOMAIN host = Host /\ DOMAIN of = Host
  BY <1>0 DEF TypeOK
<1>1. PICK h \in Host : h = forked[f]
  BY DEF Hosting
<1>2. Hosting(f)' <=> \/ host'[h] = "started"
                      \/ host'[h] = "asking" /\ of'[h] = lock'
                      \/ Welcoming(h)'
                      \/ host'[h] = "over" /\ Welcoming(held[lock])'
  BY <1>1 DEF Hosting, Welcoming
<1>3. CASE Welcoming(h)
  BY <1>2, <1>3, WelcomeKept
<1>4. Welcoming(held[lock]) => Welcoming(held[lock])' /\ held[lock] \in Host
  BY HeldKept
<1>5. CASE host[h] = "over" /\ Welcoming(held[lock])
  <2>1. host'[h] = "over"
    <3>1. SUFFICES ASSUME host'[h] # host[h] PROVE FALSE
      BY <1>5
    <3>2. \/ Says(h) \/ TakesOn(h) \/ Tells(h) \/ Refused(h) \/ Hears(h) \/ GoesOn(h) \/ Ends(h)
          \/ Hangs(h) \/ Finishes(h) \/ HostKilled(h)
      BY <1>0, <1>5, <3>1, HostMoves
    <3> QED
      BY <1>0, <1>5, <3>2 DEF Says, TakesOn, Tells, Refused, Hears, GoesOn, Ends, Hangs, Finishes
  <2> QED
    BY <1>2, <1>4, <1>5, <2>1
<1>6. CASE host[h] = "started"
  <2>1. CASE host'[h] = host[h]
    BY <1>2, <1>6, <2>1
  <2>2. CASE host'[h] # host[h]
    <3>1. Says(h)
      <4>1. \/ Says(h) \/ TakesOn(h) \/ Tells(h) \/ Refused(h) \/ Hears(h) \/ GoesOn(h) \/ Ends(h)
            \/ Hangs(h) \/ Finishes(h) \/ HostKilled(h)
        BY <1>0, <1>6, <2>2, HostMoves
      <4> QED
        BY <1>0, <1>6, <4>1 DEF TakesOn, Tells, Refused, Hears, GoesOn, Ends, Hangs, Finishes
    <3>2. host' = [host EXCEPT ![h] = "asking"] /\ of' = [of EXCEPT ![h] = sock]
      BY <3>1, ServingFound DEF Says
    <3> QED
      BY <1>0, <1>t, <1>2, <3>2
  <2> QED
    BY <2>1, <2>2
<1>7. CASE host[h] = "asking" /\ of[h] = lock
  <2>1. of'[h] = of[h]
    BY <1>0, <1>7, OfMoves DEF Says
  <2>2. CASE host'[h] = host[h]
    BY <1>0, <1>2, <1>7, <2>1, <2>2
  <2>3. CASE host'[h] # host[h]
    <3>1. TakesOn(h)
      <4>1. \/ Says(h) \/ TakesOn(h) \/ Tells(h) \/ Refused(h) \/ Hears(h) \/ GoesOn(h) \/ Ends(h)
            \/ Hangs(h) \/ Finishes(h) \/ HostKilled(h)
        BY <1>0, <1>7, <2>3, HostMoves
      <4>2. DaemonThere(h)
        BY <1>0, <1>7, DaemonAssumption DEF DaemonThere, Serving
      <4> QED
        BY <1>0, <1>7, <4>1, <4>2 DEF Says, Tells, Refused, Hears, GoesOn, Ends, Hangs, Finishes
    <3>2. CASE Taken(of[h])
      <4>1. host' = [host EXCEPT ![h] = "over"]
        BY <3>1, <3>2 DEF TakesOn
      <4>2. Running # 0
        BY <1>7, <3>2, ServingFound DEF Running, Taken, HostAlive
      <4>3. Welcoming(held[lock])
        BY <4>2, ServingFound
      <4> QED
        BY <1>t, <1>2, <1>4, <4>1, <4>3
    <3>3. CASE ~Taken(of[h])
      <4>1. host' = [host EXCEPT ![h] = "listed"]
        BY <3>1, <3>3 DEF TakesOn
      <4>2. h # 0
        BY DaemonAssumption DEF Host
      <4> QED
        BY <1>t, <1>2, <4>1, <4>2 DEF Welcoming
    <3> QED
      BY <3>2, <3>3
  <2> QED
    BY <2>2, <2>3
<1> QED
  BY <1>1, <1>3, <1>5, <1>6, <1>7 DEF Hosting

\* A frontend's socket is handed down and taken, and it is attached.
LEMMA AwaitedKept ==
  ASSUME Evenly, NEW f \in Frontend, at[f] = "hello", at'[f] = "hello", Awaited(f),
         \A h \in Host : ~GoesOn(h)
  PROVE  Awaited(f)'
<1>0. /\ IInv /\ TypeOK /\ Placed /\ Answered /\ Keeping /\ [Next]_vars
      /\ \A h \in Host : ~HostKilled(h)
  BY EvenFacts DEF Evenly, IInv
<1>t. /\ call \in [Frontend -> Call] /\ DOMAIN host = Host /\ DOMAIN at = Frontend
  BY <1>0 DEF TypeOK, Call, Stage
<1>1. CASE call[f].stage = "backlog" /\ call[f].by = lock /\ Serving /\ Welcoming(held[lock])
  <2>0. /\ Serving' /\ lock' = lock /\ lock \in Daemon /\ held[lock] \in Host
        /\ Welcoming(held[lock])' /\ held'[lock'] = held[lock]
    BY <1>1, EvenFacts, HeldKept
  <2>1. CASE call'[f] = call[f]
    BY <1>1, <2>0, <2>1 DEF Awaited
  <2>2. CASE call'[f] # call[f]
    <3>1. CallStep(f) \/ Links(f) \/ Fails(f) \/ \E h \in Host : Arrives(h) /\ f = Head(line[h])
      BY <1>0, <2>2, CallMoves DEF IInv
    <3>2. Hands(f)
      <4>1. ~Links(f) /\ ~HandsOver(f) /\ ~Drops(f) /\ ~Attached(f) /\ ~Joins(f)
        BY <1>1 DEF Links, HandsOver, Drops, Attached, Joins
      <4>2. ~Fails(f)
        BY <1>1, <2>0, DaemonAssumption DEF Fails, Dead, Listening, Serving
      <4>3. ASSUME NEW h \in Host, Arrives(h), f = Head(line[h]) PROVE FALSE
        <5>1. call[f].stage = "sent"
          BY <1>0, <4>3, Heads DEF IInv, Arrives
        <5> QED
          BY <1>1, <5>1
      <4> QED
        BY <3>1, <4>1, <4>2, <4>3 DEF CallStep
    <3>3. held[lock] # 0
      BY <1>1 DEF Welcoming
    <3>4. call' = [call EXCEPT ![f] = On("handing", held[lock])]
      BY <1>1, <3>2, <3>3 DEF Hands
    <3>5. call'[f].stage = "handing" /\ call'[f].by = held'[lock']
      BY <1>t, <2>0, <3>4 DEF On
    <3> QED
      BY <2>0, <3>5 DEF Awaited, Welcoming
  <2> QED
    BY <2>1, <2>2
<1>2. CASE call[f].stage \in {"handing", "sent", "reading", "hello"} /\ Welcoming(call[f].by)
  <2>1. PICK h \in Host : h = call[f].by
    BY <1>0, <1>2 DEF Placed, Answered
  <2>2. Welcoming(h) /\ Welcoming(h)'
    BY <1>2, <2>1, WelcomeKept
  <2>3. HostThere(h) /\ DaemonThere(h)
    <3>1. Serving /\ of[h] = lock
      BY <1>0, <2>2, HostOf DEF Welcoming
    <3> QED
      BY <2>2, <3>1, DaemonAssumption DEF HostThere, DaemonThere, Welcoming, Serving
  <2>4. \/ Awaited(f)' \/ call'[f].by # h
        \/ call'[f].stage \notin {"handing", "sent", "reading", "hello"}
    BY <2>2 DEF Awaited, Welcoming
  <2>5. CASE call'[f] = call[f]
    BY <1>2, <2>1, <2>4, <2>5
  <2>6. CASE call'[f] # call[f]
    <3>1. CallStep(f) \/ Links(f) \/ Fails(f) \/ \E g \in Host : Arrives(g) /\ f = Head(line[g])
      BY <1>0, <2>6, CallMoves DEF IInv
    <3>2. ~Links(f) /\ ~Hands(f) /\ ~Drops(f) /\ ~Fails(f)
      BY <1>2, <2>1, <2>3 DEF Links, Hands, Drops, Fails, Dead
    <3>3. CASE HandsOver(f)
      <4>1. call' = [call EXCEPT ![f].stage = "sent"]
        BY <2>1, <2>3, <3>3 DEF HandsOver
      <4> QED
        BY <1>t, <2>1, <2>4, <4>1 DEF Call
    <3>4. CASE Attached(f)
      <4>1. call' = [call EXCEPT ![f].stage = "hello"]
        BY <2>1, <2>2, <3>4 DEF Attached, Welcoming
      <4> QED
        BY <1>t, <2>1, <2>4, <4>1 DEF Call
    <3>5. CASE Joins(f)
      <4>1. call[f].listed
        BY <1>0, <3>5 DEF Answered, Joins
      <4>2. at'[f] \in {"attached", "left"}
        BY <1>t, <3>5, <4>1 DEF Joins, Still
      <4> QED
        BY <4>2
    <3>6. ASSUME NEW g \in Host, Arrives(g), f = Head(line[g]) PROVE Awaited(f)'
      <4>1. line[g] # <<>> /\ host[g] \in {"up", "closed"}
        BY <3>6 DEF Arrives
      <4>2. call[f].by = g
        BY <1>0, <3>6, <4>1, Heads DEF IInv
      <4>3. g = h /\ host[g] = "up"
        BY <2>1, <2>2, <4>1, <4>2 DEF Welcoming
      <4>4. call'[f] = On("reading", h)
        BY <3>6, <4>3 DEF Arrives
      <4> QED
        BY <2>4, <4>4 DEF On
    <3> QED
      BY <3>1, <3>2, <3>3, <3>4, <3>5, <3>6 DEF CallStep
  <2> QED
    BY <2>5, <2>6
<1> QED
  BY <1>1, <1>2 DEF Awaited

\* Who cannot fail cannot whatever the others do, but for what pays for it.
LEMMA GoodStays ==
  ASSUME Evenly, NEW f \in Frontend, Good(f), at'[f] = at[f], forked'[f] = forked[f],
         \A h \in Host : ~GoesOn(h), Coming' => Coming
  PROVE  Good(f)'
<1>0. Serving => Serving' /\ lock' = lock /\ Coming
  BY EvenFacts DEF Serving, Coming
<1>1. CASE /\ Quiet
           /\ at[f] \in {"look", "machine"} \/ (at[f] = "raising" /\ daemon[forked[f]] = "started")
  <2>1. ~Coming
    <3>1. lock # 0 => lock \in Daemon
      BY EvenFacts, DaemonAssumption DEF TypeOK, Daemon
    <3> QED
      BY <1>1, <3>1 DEF Quiet, Coming
  <2>2. Quiet' /\ \A d \in Daemon : daemon[d] = "started" => daemon'[d] = "started"
    BY <1>1, <2>1, QuietKept
  <2>3. at[f] = "raising" => forked[f] \in Daemon
    BY EvenFacts DEF Raisers
  <2> QED
    BY <1>1, <2>2, <2>3 DEF Good
<1>2. CASE Serving /\ Fresh /\ at[f] \in {"look", "machine", "starting"}
  BY <1>0, <1>2, FreshKept DEF Good
<1>3. CASE Serving /\ Fresh /\ at[f] = "hosting" /\ Hosting(f)
  BY <1>0, <1>3, FreshKept, HostingKept DEF Good
<1>4. CASE Serving /\ Welcoming(held[lock]) /\ at[f] = "link"
  BY <1>0, <1>4, HeldKept DEF Good
<1>5. CASE at[f] = "hello" /\ Awaited(f)
  BY <1>5, AwaitedKept DEF Good
<1> QED
  BY <1>1, <1>2, <1>3, <1>4, <1>5 DEF Good

-----------------------------------------------------------------------------
(* Who fails. *)

\* Who cannot fail goes on, and cannot fail there either.
LEMMA GoodGoes ==
  ASSUME Evenly, NEW f \in Frontend, Good(f), FrontendStep(f)
  PROVE  Good(f)' /\ tries' = tries
<1>0. /\ IInv /\ TypeOK /\ Keeping /\ Answered /\ faults = 0 /\ faults' = 0
      /\ Serving => lock \in Daemon
  BY EvenFacts DEF Evenly
<1>t. /\ DOMAIN at = Frontend /\ DOMAIN call = Frontend /\ DOMAIN forked = Frontend
      /\ DOMAIN host = Host /\ DOMAIN daemon = Daemon
  BY <1>0 DEF TypeOK
<1>q. Quiet => ~Listening(sock)
  <2>1. sock # 0 => sock \in Daemon
    BY <1>0 DEF TypeOK, Daemon
  <2> QED
    BY <2>1 DEF Quiet, Listening
<1>n. \A to : Goes(f, to) => at'[f] = to /\ tries' = tries
  BY <1>0, Trying
<1>a. at[f] \in OnTheirWay /\ at[f] \notin {"tick", "again"} /\ ~Retries(f)
  BY DEF Good, OnTheirWay, Retries
<1>1. CASE Looks(f)
  <2>1. /\ at[f] = "look" /\ UNCHANGED <<daemonVars, hostVars>>
        /\ Goes(f, IF Running # 0 THEN "link" ELSE "machine")
    BY <1>1 DEF Looks
  <2>2. CASE Quiet
    <3>1. Running = 0
      BY <1>q, <2>2 DEF Running, Found
    <3> QED
      BY <1>n, <2>1, <2>2, <3>1 DEF Good, Quiet, daemonVars
  <2>3. CASE Serving /\ Fresh
    <3>1. CASE Running # 0
      <4>1. Welcoming(held[lock])
        BY <2>3, <3>1, ServingFound
      <4> QED
        BY <1>n, <2>1, <2>3, <3>1, <4>1 DEF Good, Serving, Welcoming, daemonVars, placeVars, hostVars
    <3>2. CASE Running = 0
      BY <1>n, <2>1, <2>3, <3>2 DEF Good, Serving, Fresh, daemonVars, placeVars, hostVars
    <3> QED
      BY <3>1, <3>2
  <2> QED
    BY <2>1, <2>2, <2>3 DEF Good
<1>2. CASE Machine(f)
  <2>1. at[f] = "machine" /\ UNCHANGED <<placeVars, held, hostVars>>
    BY <1>2 DEF Machine
  <2>2. CASE Quiet
    <3>1. ~Found
      BY <1>q, <2>2 DEF Found
    <3>2. PICK d \in Daemon : /\ daemon' = [daemon EXCEPT ![d] = "started"]
                              /\ forked' = [forked EXCEPT ![f] = d] /\ Goes(f, "raising")
      BY <1>2, <3>1 DEF Machine
    <3>3. daemon'[forked'[f]] = "started" /\ Quiet'
      BY <1>t, <2>2, <3>2 DEF Quiet
    <3> QED
      BY <1>n, <3>2, <3>3 DEF Good
  <2>3. CASE Serving /\ Fresh
    <3>1. Goes(f, "starting") /\ UNCHANGED daemon
      BY <1>2, <2>3, ServingFound DEF Machine
    <3> QED
      BY <1>n, <2>1, <2>3, <3>1 DEF Good, Serving, Fresh, placeVars, hostVars
  <2> QED
    BY <2>1, <2>2, <2>3 DEF Good
<1>3. CASE Raised(f)
  <2>1. at[f] = "raising" /\ daemon[forked[f]] = "started"
    BY <1>3 DEF Raised, Good
  <2> QED
    BY <1>0, <1>3, <2>1 DEF Raised, InTime
<1>4. CASE Starts(f)
  <2>1. at[f] = "starting" /\ UNCHANGED <<daemonVars, of, line, ever, members>>
    BY <1>4 DEF Starts
  <2>2. Serving /\ Fresh
    BY <2>1 DEF Good
  <2>3. CASE Running # 0
    <3>1. Goes(f, "link") /\ UNCHANGED host
      BY <1>4, <2>3 DEF Starts
    <3>2. Welcoming(held[lock])
      BY <2>2, <2>3, ServingFound
    <3> QED
      BY <1>n, <2>1, <2>2, <3>1, <3>2 DEF Good, Serving, Welcoming, daemonVars, placeVars
  <2>4. CASE Running = 0
    <3>1. PICK h \in Host : /\ host' = [host EXCEPT ![h] = "started"]
                            /\ forked' = [forked EXCEPT ![f] = h] /\ Goes(f, "hosting")
      BY <1>4, <2>4 DEF Starts
    <3>2. Hosting(f)'
      BY <1>t, <3>1 DEF Hosting
    <3>3. Fresh'
      BY <1>t, <2>2, <3>1 DEF Fresh
    <3> QED
      BY <1>n, <2>1, <2>2, <3>1, <3>2, <3>3 DEF Good, Serving, daemonVars, placeVars
  <2> QED
    BY <2>3, <2>4
<1>5. CASE Hosted(f)
  <2>1. /\ at[f] = "hosting" /\ UNCHANGED <<daemonVars, hostVars>>
        /\ host[forked[f]] \notin {"started", "asking", "listed", "told"}
    BY <1>0, <1>5 DEF Hosted, InTime
  <2>2. Serving /\ Hosting(f)
    BY <2>1 DEF Good
  <2>3. Welcoming(held[lock])
    <3>1. PICK h \in Host : h = forked[f]
      BY <2>2 DEF Hosting
    <3>2. CASE Welcoming(h)
      BY <1>0, <3>1, <3>2, HostOf DEF Welcoming
    <3> QED
      BY <2>1, <2>2, <3>1, <3>2 DEF Hosting
  <2>4. Goes(f, "link")
    BY <1>5, <2>2, <2>3, ServingFound DEF Hosted
  <2> QED
    BY <1>n, <2>1, <2>2, <2>3, <2>4 DEF Good, Serving, Welcoming, daemonVars, placeVars, hostVars
<1>6. CASE Links(f)
  <2>1. at[f] = "link" /\ UNCHANGED <<daemonVars, hostVars>>
    BY <1>6 DEF Links
  <2>2. Serving /\ Welcoming(held[lock])
    BY <2>1 DEF Good
  <2>3. Goes(f, "hello") /\ call' = [call EXCEPT ![f] = On("backlog", lock)]
    BY <1>6, <2>2, ServingFound DEF Links
  <2>4. call'[f].stage = "backlog" /\ call'[f].by = lock
    BY <1>t, <2>3 DEF On
  <2> QED
    BY <1>n, <2>1, <2>2, <2>3, <2>4 DEF Good, Awaited, Serving, Welcoming, daemonVars,
       placeVars, hostVars
<1>7. CASE Fails(f)
  <2>1. at[f] = "hello" /\ Dead(f)
    BY <1>7 DEF Fails
  <2>2. Awaited(f)
    BY <2>1 DEF Good
  <2> QED
    BY <1>0, <2>1, <2>2, DaemonAssumption DEF Dead, Awaited, Listening, Serving, HostThere,
       Welcoming, Daemon
<1> QED
  BY <1>a, <1>1, <1>2, <1>3, <1>4, <1>5, <1>6, <1>7 DEF FrontendStep

\* Whoever reaches again, everything having settled, cannot fail.
LEMMA AgainGood ==
  ASSUME Evenly, NEW f \in Frontend, at[f] = "again", Retries(f)
  PROVE  Good(f)' /\ tries' = tries
<1>0. IInv /\ TypeOK /\ faults = 0 /\ faults' = 0
  BY EvenFacts DEF Evenly
<1>1. Settled /\ at'[f] = "look" /\ tries' = tries /\ UNCHANGED <<daemonVars, hostVars>>
  BY <1>0, Trying DEF Retries, InTime
<1>2. Quiet \/ Serving
  <2>1. \A d \in Daemon : daemon[d] = "serving" => d = lock /\ d # 0
    BY <1>0, DaemonAssumption DEF IInv, Ruled, Holding, Daemon
  <2> QED
    BY <1>1, <2>1 DEF Settled, DaemonsSettled, Quiet, Serving
<1>3. Fresh
  BY <1>1 DEF Settled, Fresh
<1>4. Quiet' \/ (Serving' /\ Fresh')
  BY <1>1, <1>2, <1>3 DEF Quiet, Serving, Fresh, daemonVars, placeVars, hostVars
<1> QED
  BY <1>1, <1>4 DEF Good

\* Who fails has paid for it,
LEMMA Spent ==
  ASSUME Evenly, NEW f \in Frontend, FrontendStep(f), GivesUp(f)
  PROVE  Paid(tries[f].attach)
<1>0. IInv /\ TypeOK /\ Raisers /\ Accounts /\ faults = 0 /\ faults' = 0
  BY EvenFacts DEF Evenly
<1>1. /\ tries[f].attach \in Nat \ {0} /\ tries'[f].attach = tries[f].attach + 1
      /\ at'[f] \in {"again", "failed"}
  <2>1. tries[f] \in [attach : 1..(Attaches + 1), host : 1..Tries]
    BY <1>0 DEF TypeOK
  <2>2. tries[f].attach \in Nat \ {0}
    BY <2>1, DaemonAssumption
  <2> QED
    BY <1>0, <2>2, Trying
<1>2. at[f] \in {"raising", "hosting", "link", "hello"}
  <2>1. \A to : Goes(f, to) => tries' = tries
    BY <1>0, Trying
  <2>2. \A to : ~Goes(f, to)
    BY <1>1, <2>1
  <2> QED
    BY <2>2 DEF FrontendStep, Looks, Machine, Raised, Starts, Hosted, Links, Fails, Retries
<1>3. CASE tries[f].attach = 1
  <2>1. Begun
    <3>1. CASE at[f] = "raising"
      <4>1. Raised(f)
        BY <3>1 DEF FrontendStep, Looks, Machine, Starts, Hosted, Links, Fails, Retries
      <4>2. daemon[forked[f]] # "started"
        BY <1>0, <4>1 DEF Raised, InTime
      <4>3. forked[f] \in Daemon /\ daemon[forked[f]] # "none"
        BY <1>0, <3>1 DEF Raisers
      <4> QED
        BY <4>2, <4>3 DEF Begun
    <3> QED
      BY <1>0, <1>2, <3>1 DEF Raisers
  <2> QED
    BY <1>0, <1>3, <2>1 DEF Accounts
<1>4. CASE tries[f].attach # 1
  <2>1. ~Good(f)
    <3>1. Good(f) => tries' = tries
      BY GoodGoes
    <3> QED
      BY <1>1, <3>1
  <2>2. tries[f].attach > 1 /\ at[f] \in OnTheirWay
    BY <1>1, <1>2, <1>4 DEF OnTheirWay
  <2> QED
    BY <1>0, <1>2, <2>1, <2>2 DEF Accounts
<1> QED
  BY <1>3, <1>4

\* and has not been paid for so often that it is the last time.
LEMMA NotLast ==
  ASSUME Evenly, NEW f \in Frontend, at[f] \notin {"attached", "left"}, NEW n \in Nat, Paid(n)
  PROVE  n <= Cardinality(Frontend)
<1> DEFINE D == {g \in Frontend : Done(g)}
<1>1. f \notin D
  BY EvenFacts, DoneAt
<1>2. /\ IsFiniteSet(D) /\ Cardinality(D) \in Nat
      /\ IsFiniteSet(D \cup {f}) /\ Cardinality(D \cup {f}) = Cardinality(D) + 1
  BY <1>1, Counted, FS_AddElement
<1>3. Cardinality(D \cup {f}) <= Cardinality(Frontend) /\ Cardinality(Frontend) \in Nat
  <2>1. D \cup {f} \subseteq Frontend
    OBVIOUS
  <2> QED
    BY <2>1, DaemonAssumption, FS_Subset, FS_CardinalityType
<1>4. n + (IF Lived THEN 1 ELSE 0) <= Cardinality(D) + (IF Coming THEN 1 ELSE 0)
  BY DEF Paid
<1> HIDE DEF D
<1> QED
  BY <1>2, <1>3, <1>4

\* Who is on the way, or is about to be, has not failed, and its failures are paid for.
LEMMA Going ==
  ASSUME Evenly, Cardinality(Frontend) < Attaches,
         NEW f \in Frontend, at[f] \notin {"attached", "left"}, at'[f] \notin {"attached", "left"}
  PROVE  /\ at'[f] # "failed" /\ Paid(tries[f].attach - 1)'
         /\ at'[f] \in OnTheirWay \cup {"tick"} /\ tries'[f].attach > 1 =>
              Paid(tries[f].attach)' \/ Good(f)'
<1>0. /\ IInv /\ TypeOK /\ Answered /\ Accounts /\ [Next]_vars /\ faults = 0
      /\ Coming => Coming'
  BY EvenFacts DEF Evenly
<1>a. PICK a \in Nat \ {0} : a = tries[f].attach
  <2>1. tries[f] \in [attach : 1..(Attaches + 1), host : 1..Tries]
    BY <1>0 DEF TypeOK
  <2> QED
    BY <2>1, DaemonAssumption
<1>1. a \in Nat /\ a - 1 \in Int /\ a \in Int /\ (a - 1) + 1 = a /\ Attaches \in Nat
  BY DaemonAssumption
<1>2. at[f] # "failed" /\ Paid(a - 1) /\ Paid(a - 1)'
  <2>1. at[f] # "failed" /\ Paid(a - 1)
    BY <1>0, <1>a DEF Accounts
  <2> QED
    BY <1>0, <1>1, <2>1, PaidKept
<1>3. Paid(a) => Paid(a)'
  BY <1>0, <1>1, PaidKept
<1>4. at[f] \in OnTheirWay \cup {"tick"} /\ a > 1 => Paid(a) \/ Good(f)
  BY <1>0, <1>a DEF Accounts
<1>5. CASE at'[f] = at[f] /\ tries'[f] = tries[f] /\ forked'[f] = forked[f]
  <2>1. tries'[f].attach = a
    BY <1>5, <1>a
  <2>2. ASSUME at[f] \in OnTheirWay \cup {"tick"}, a > 1, ~Paid(a) PROVE Paid(a)' \/ Good(f)'
    <3>1. Good(f) /\ at[f] \in OnTheirWay
      BY <1>4, <2>2 DEF Good, OnTheirWay
    <3>2. CASE (\E h \in Host : GoesOn(h)) \/ (~Coming /\ Coming')
      <4>1. Paid((a - 1) + 1)'
        BY <1>1, <1>2, <3>1, <3>2, Tipped
      <4> QED
        BY <1>1, <4>1
    <3>3. CASE ~(\E h \in Host : GoesOn(h)) /\ (Coming' => Coming)
      BY <1>5, <3>1, <3>3, GoodStays
    <3> QED
      BY <3>2, <3>3
  <2> QED
    BY <1>2, <1>3, <1>5, <2>1, <2>2
<1>6. CASE Begins(f)
  <2>1. at[f] = "out" /\ at'[f] = "look" /\ tries' = tries
    BY <1>0, <1>6, Trying DEF Begins
  <2>2. a = 1
    BY <1>0, <1>a, <2>1 DEF Answered, First
  <2> QED
    BY <1>a, <1>2, <2>1, <2>2
<1>7. CASE FrontendStep(f) /\ GivesUp(f)
  <2>1. tries'[f].attach = a + 1 /\ at'[f] = IF Again(f) THEN "again" ELSE "failed"
    BY <1>0, <1>a, <1>7, Trying
  <2>2. Paid(a)
    BY <1>a, <1>7, Spent
  <2>3. a <= Cardinality(Frontend)
    BY <1>1, <2>2, NotLast
  <2>4. Cardinality(Frontend) \in Nat
    BY DaemonAssumption, FS_CardinalityType
  <2>5. Again(f)
    BY <1>a, <1>1, <2>3, <2>4 DEF Again
  <2>6. tries'[f].attach - 1 = a
    BY <1>1, <2>1
  <2> QED
    BY <1>3, <2>1, <2>2, <2>5, <2>6 DEF OnTheirWay
<1>8. CASE FrontendStep(f) /\ ~GivesUp(f)
  <2>1. tries'[f].attach = a /\ at'[f] # "failed"
    <3>1. (\E to : Goes(f, to) /\ to # "failed") \/ TriesAgain(f)
      BY <1>8 DEF FrontendStep, Looks, Machine, Raised, Starts, Hosted, Links, Fails, Retries
    <3> QED
      BY <1>0, <1>a, <1>8, <3>1, Trying
  <2>2. CASE at[f] = "again"
    <3>1. Retries(f)
      BY <1>8, <2>2 DEF FrontendStep, Looks, Machine, Raised, Starts, Hosted, Links, Fails
    <3> QED
      BY <1>2, <2>1, <2>2, <3>1, AgainGood
  <2>3. CASE at[f] # "again"
    <3>1. at[f] \in OnTheirWay \cup {"tick"}
      BY <1>8, <2>3 DEF FrontendStep, Looks, Machine, Raised, Starts, Hosted, Links, Fails, Retries,
         OnTheirWay
    <3>2. Good(f) => Good(f)'
      BY <1>8, GoodGoes
    <3> QED
      BY <1>2, <1>3, <1>4, <2>1, <3>1, <3>2
  <2> QED
    BY <2>2, <2>3
<1>9. CASE Joins(f)
  <2>1. UNCHANGED <<tries, forked>> /\ at'[f] \in {at[f], "attached", "left"}
    BY <1>0, <1>9 DEF Joins, TypeOK
  <2> QED
    BY <1>5, <2>1
<1>10. ~Leaves(f)
  BY <1>0, Trying DEF Leaves
<1> QED
  BY <1>0, <1>5, <1>6, <1>7, <1>8, <1>9, <1>10, FrontMoves

\* Nobody comes back from where it is attached, or has left.
LEMMA StaysOut ==
  ASSUME Evenly, Answered', NEW f \in Frontend, at[f] \in {"attached", "left"}
  PROVE  at'[f] \in {"attached", "left"}
<1>0. IInv /\ TypeOK /\ Answered /\ [Next]_vars
  BY EvenFacts DEF Evenly
<1>1. CASE at[f] = "attached"
  <2>1. Done(f)'
    BY <1>0, <1>1, DoneKept DEF Answered, Done
  <2> QED
    BY <2>1 DEF Answered, Done
<1>2. CASE at[f] = "left"
  <2>1. ASSUME at'[f] # at[f] PROVE FALSE
    <3>1. FrontendStep(f) \/ Begins(f) \/ Leaves(f) \/ Joins(f)
      BY <1>0, <1>2, <2>1, FrontMoves
    <3>2. ~FrontendStep(f) /\ ~Begins(f) /\ ~Leaves(f)
      BY <1>2 DEF FrontendStep, Looks, Machine, Raised, Starts, Hosted, Links, Fails, Retries,
         Begins, Leaves
    <3>3. ~Joins(f)
      BY <1>0, <1>2, <2>1 DEF Joins, TypeOK
    <3> QED
      BY <3>1, <3>2, <3>3
  <2> QED
    BY <1>2, <2>1
<1> QED
  BY <1>1, <1>2

LEMMA AccountsKept ==
  ASSUME Even, [Next]_vars, faults' = 0, Answered', Cardinality(Frontend) < Attaches
  PROVE  Accounts'
<1>1. ASSUME NEW d \in Daemon, GoesIdle(d) PROVE Accounts'
  BY <1>1, IdleKept
<1>2. CASE \A d \in Daemon : ~GoesIdle(d)
  <2>1. Evenly
    BY <1>2 DEF Evenly
  <2>2. Begun' => Paid(1)'
    BY <2>1, EvenFacts, BegunKept
  <2> QED
    BY <2>1, <2>2, Going, StaysOut DEF Accounts
<1> QED
  BY <1>1, <1>2

LEMMA CalmKept ==
  ASSUME IInv, Calm, [Next]_vars, Cardinality(Frontend) < Attaches
  PROVE  Calm'
<1>1. SUFFICES ASSUME faults' = 0 PROVE (Written /\ Keeping /\ Answered /\ Raisers /\ Accounts)'
  BY DEF Calm
<1>2. faults = 0
  <2>1. faults \in 0..MaxFault
    BY DEF IInv, TypeOK
  <2> QED
    BY <1>1, <2>1, FaultsKept, DaemonAssumption
<1>3. Even
  BY <1>2 DEF Calm, Even
<1>4. Written'
  BY <1>3, WrittenKept DEF Even, IInv
<1>5. Keeping'
  BY <1>1, <1>3, KeepingKept DEF Even, IInv
<1>6. Answered'
  BY <1>3, AnsweredKept DEF Even, IInv
<1>7. Raisers'
  BY <1>3, RaisersKept DEF Even, IInv
<1>8. Accounts'
  BY <1>1, <1>3, <1>6, AccountsKept
<1> QED
  BY <1>4, <1>5, <1>6, <1>7, <1>8

LEMMA CalmFirst == Init => Calm
<1> SUFFICES ASSUME Init PROVE Calm
  OBVIOUS
<1> USE DEF Init
<1>1. Written /\ Keeping
  BY DaemonAssumption DEF Written, Keeping, Host, Daemon
<1>2. Answered
  BY DEF Answered, NoCall, First
<1>3. Raisers
  BY DEF Raisers
<1>4. Accounts
  <2>1. ~Begun
    BY DEF Begun
  <2>2. ~Lived /\ ~Coming
    BY DEF Lived, Coming
  <2>3. Paid(0)
    BY <2>2, Counted DEF Paid
  <2> QED
    BY <2>1, <2>3 DEF Accounts, First, OnTheirWay
<1> QED
  BY <1>1, <1>2, <1>3, <1>4 DEF Calm

\* Where a frontend may try more often than there are frontends, no process is killed and no wait
\* is too short, whoever reaches for the runs gets to them: a try fails only by somebody being
\* done, or by the daemon that came meanwhile, and there are too few of these (attach, host).
THEOREM Arriving == ASSUME Cardinality(Frontend) < Attaches PROVE Spec => []Reaches
<1>1. Init => IInv /\ Calm
  BY Initial, CalmFirst
<1>2. IInv /\ Calm /\ [Next]_vars => (IInv /\ Calm)'
  BY Step, CalmKept
<1>3. IInv /\ Calm => Reaches
  <2> SUFFICES ASSUME IInv, Calm, NEW f \in Frontend, at[f] = "failed", ~(faults > 0) PROVE FALSE
    BY DEF Reaches
  <2>1. faults = 0
    <3>1. faults \in 0..MaxFault
      BY DEF IInv, TypeOK
    <3> QED
      BY <3>1, DaemonAssumption
  <2> QED
    BY <2>1 DEF Calm, Accounts
<1> QED
  BY <1>1, <1>2, <1>3, PTL DEF Spec
=============================================================================
