------------------------------- MODULE Daemon -------------------------------
(***************************************************************************)
(* How a frontend comes to the one host of its workspace: the daemon of    *)
(* the machine, started by whoever finds none and gone once it holds       *)
(* nothing, the host that says to it what it holds, and the sockets handed *)
(* down that host's connection (daemon/__init__.py, routing.py,            *)
(* carrying.py, where.py).                                                 *)
(*                                                                         *)
(* One workspace, and one slot of it: another has another entry of the     *)
(* same daemon.  Of the runs of a host, only that it goes when nobody is   *)
(* left; a run going keeps it longer.  Processes are numbered as they are  *)
(* started.  Whatever is only ruled out by somebody waiting long enough --  *)
(* a sleep, a grace, a patience -- is ruled out here as well, but for      *)
(* MaxFault times, with the processes killed.                              *)
(***************************************************************************)
EXTENDS Naturals, FiniteSets, Sequences

CONSTANTS
  Frontend,   \* the processes that reach for the runs, each once
  Word,       \* what a host is told once it is taken on (TAKEN)
  MaxDaemon, MaxHost,  \* how many processes of each are ever started
  MaxFault,   \* how many are killed, and waits that were not long enough
  Attaches,   \* how many times a frontend reaches for its host (_ATTACHES)
  Tries       \* and how many times it starts one, each of them (_TRIES)

ASSUME DaemonAssumption ==
  /\ IsFiniteSet(Frontend) /\ Word \notin Frontend
  /\ MaxDaemon \in Nat \ {0} /\ MaxHost \in Nat \ {0} /\ MaxFault \in Nat
  /\ Attaches \in Nat \ {0} /\ Tries \in Nat \ {0}

Daemon == 1..MaxDaemon
Host == 1..MaxHost

VARIABLES
  (* The daemon's directory, and the daemons. *)
  lock,     \* who holds it, or 0
  sock,     \* whose socket is at its path, or 0
  record,   \* who is written down there, or 0
  daemon,   \* how far each has come
  held,     \* the host each holds, or 0 (Router._held)
  (* The hosts. *)
  host,     \* how far each has come
  of,       \* the daemon each says to what it holds
  line,     \* what went down the connection of each and was not taken yet
  ever,     \* whether anybody was ever attached (Carrier._ever)
  members,  \* the frontends of each (Host._frontends)
  (* The frontends. *)
  at,       \* how far each has come
  tries,    \* which attach and, of it, which host this is
  forked,   \* the process each waits for
  call,     \* the socket each reaches its host through
  faults

placeVars == <<lock, sock, record>>
daemonVars == <<placeVars, daemon, held>>
hostVars == <<host, of, line, ever, members>>
frontendVars == <<at, tries, forked, call>>
vars == <<daemonVars, hostVars, frontendVars, faults>>

DaemonAlive(d) == d # 0 /\ daemon[d] \notin {"none", "over"}
HostAlive(h) == h # 0 /\ host[h] \notin {"none", "over"}
Listening(d) == d # 0 /\ daemon[d] \in {"bound", "serving", "ending"}

\* The connection of a host, on either end of it.
DaemonThere(h) == of[h] # 0 /\ daemon[of[h]] \in {"bound", "serving", "ending"}
HostThere(h) == host[h] \in {"asking", "listed", "told", "up", "going", "closed"}

NoCall == [stage |-> "none", by |-> 0, listed |-> FALSE]
On(stage, by) == [stage |-> stage, by |-> by, listed |-> stage = "reading"]

\* What is so where waits are long enough, and is not, a number of times.
InTime(so) == IF so THEN UNCHANGED faults ELSE faults < MaxFault /\ faults' = faults + 1

-----------------------------------------------------------------------------
(* The daemon's process (routing.serves, Router). *)

\* A mutant: a daemon is looked for rather than the lock taken.
Free_Looked == ~Listening(sock)

Free == lock = 0

\* holds: another's is the end of this one.
Locks(d) ==
  /\ daemon[d] = "started"
  /\ IF Free
     THEN lock' = d /\ daemon' = [daemon EXCEPT ![d] = "locked"]
     ELSE daemon' = [daemon EXCEPT ![d] = "over"] /\ UNCHANGED lock
  /\ UNCHANGED <<sock, record, held, hostVars, frontendVars, faults>>

\* _listens, which takes away whatever is there.
Binds(d) ==
  /\ daemon[d] = "locked"
  /\ daemon' = [daemon EXCEPT ![d] = "bound"]
  /\ sock' = d
  /\ UNCHANGED <<lock, record, held, hostVars, frontendVars, faults>>

\* wrote, and the daemon is said to be listening.
Serves(d) ==
  /\ daemon[d] = "bound"
  /\ daemon' = [daemon EXCEPT ![d] = "serving"]
  /\ record' = d
  /\ UNCHANGED <<lock, sock, held, hostVars, frontendVars, faults>>

First == [attach |-> 1, host |-> 1]

\* A frontend that has just reached the daemon, or started it, and is about to again: a daemon
\* waits longer than that before it goes (_LINGER, _GRACE).
Near(f) ==
  \/ at[f] \in {"raising", "starting", "hosting", "link", "hello"}
  \/ at[f] \in {"tick", "again", "look", "machine"} /\ tries[f] # First

\* _idle: nothing held, nothing being routed, and nobody came for a while.
Idle(d) == held[d] = 0 /\ \A f \in Frontend : ~(call[f].stage = "handing" /\ of[call[f].by] = d)

GoesIdle(d) ==
  /\ daemon[d] = "serving" /\ Idle(d)
  /\ InTime(\A f \in Frontend : ~Near(f))
  /\ daemon' = [daemon EXCEPT ![d] = "ending"]
  /\ UNCHANGED <<placeVars, held, hostVars, frontendVars>>

\* Router.close: no longer reached, every host let go of,
Closes(d) ==
  /\ daemon[d] = "ending"
  /\ daemon' = [daemon EXCEPT ![d] = "closed"]
  /\ held' = [held EXCEPT ![d] = 0]
  /\ UNCHANGED <<placeVars, hostVars, frontendVars, faults>>

\* whatever is at its paths taken away,
Unlinks(d) ==
  /\ daemon[d] = "closed"
  /\ daemon' = [daemon EXCEPT ![d] = "unlinked"]
  /\ sock' = 0 /\ record' = 0
  /\ UNCHANGED <<lock, held, hostVars, frontendVars, faults>>

\* and only then the lock.
Exits(d) ==
  /\ daemon[d] = "unlinked"
  /\ daemon' = [daemon EXCEPT ![d] = "over"]
  /\ lock' = 0
  /\ UNCHANGED <<sock, record, held, hostVars, frontendVars, faults>>

\* It is told to end, and lets go of every host.
Terminated(d) ==
  /\ daemon[d] = "serving" /\ faults < MaxFault
  /\ faults' = faults + 1
  /\ daemon' = [daemon EXCEPT ![d] = "ending"]
  /\ UNCHANGED <<placeVars, held, hostVars, frontendVars>>

\* It is killed: the kernel lets go of its lock, and of its sockets but for their names.
DaemonKilled(d) ==
  /\ DaemonAlive(d) /\ faults < MaxFault
  /\ faults' = faults + 1
  /\ daemon' = [daemon EXCEPT ![d] = "over"]
  /\ held' = [held EXCEPT ![d] = 0]
  /\ lock' = IF lock = d THEN 0 ELSE lock
  /\ UNCHANGED <<sock, record, hostVars, frontendVars>>

\* A mutant: the host there is not asked after.
Taken_Anyhow(d) == FALSE

\* Whether another host has the place: one whose process has gone has not.
Taken(d) == HostAlive(held[d])

\* _serves: a host is taken on, under a lock of its own,
TakesOn(h) ==
  /\ host[h] = "asking" /\ daemon[of[h]] = "serving"
  /\ IF Taken(of[h])
     THEN host' = [host EXCEPT ![h] = "over"] /\ UNCHANGED held
     ELSE /\ host' = [host EXCEPT ![h] = "listed"]
          /\ held' = [held EXCEPT ![of[h]] = h]
  /\ UNCHANGED <<placeVars, daemon, of, line, ever, members, frontendVars, faults>>

\* until it has been told so.
Tells(h) ==
  /\ host[h] = "listed" /\ DaemonThere(h)
  /\ host' = [host EXCEPT ![h] = "told"]
  /\ line' = [line EXCEPT ![h] = Append(@, Word)]
  /\ UNCHANGED <<daemonVars, of, ever, members, frontendVars, faults>>

\* _watches: a host whose connection closed is held no longer, unless another is by now.
Forgets(d) ==
  /\ daemon[d] = "serving" /\ held[d] # 0 /\ ~HostThere(held[d])
  /\ held' = [held EXCEPT ![d] = 0]
  /\ UNCHANGED <<placeVars, daemon, hostVars, frontendVars, faults>>

\* _hands: the host is looked up,
Hands(f) ==
  /\ call[f].stage = "backlog" /\ daemon[call[f].by] = "serving"
  /\ LET h == held[call[f].by]
     IN call' = [call EXCEPT ![f] = IF h = 0 THEN On("refused", 0) ELSE On("handing", h)]
  /\ UNCHANGED <<daemonVars, hostVars, at, tries, forked, faults>>

\* A mutant: a socket goes down while the host is being told.
MayHand_Any(h) == TRUE

MayHand(h) == host[h] # "listed"

\* and handed the socket, under that host's lock.
HandsOver(f) ==
  /\ call[f].stage = "handing" /\ MayHand(call[f].by)
  /\ LET h == call[f].by
     IN IF HostThere(h) /\ DaemonThere(h)
        THEN /\ call' = [call EXCEPT ![f].stage = "sent"]
             /\ line' = [line EXCEPT ![h] = Append(@, f)]
        ELSE call' = [call EXCEPT ![f] = On("refused", 0)] /\ UNCHANGED line
  /\ UNCHANGED <<daemonVars, host, of, ever, members, at, tries, forked, faults>>

-----------------------------------------------------------------------------
(* The host's process (carrying.serves, Carrier). *)

\* It connects, and says what it holds,
Says(h) ==
  /\ host[h] = "started"
  /\ IF Listening(sock)
     THEN host' = [host EXCEPT ![h] = "asking"] /\ of' = [of EXCEPT ![h] = sock]
     ELSE host' = [host EXCEPT ![h] = "over"] /\ UNCHANGED of
  /\ UNCHANGED <<daemonVars, line, ever, members, frontendVars, faults>>

\* and is over where the connection is closed before it is told anything.
Refused(h) ==
  /\ host[h] \in {"asking", "listed"} /\ ~DaemonThere(h)
  /\ host' = [host EXCEPT ![h] = "over"]
  /\ UNCHANGED <<daemonVars, of, line, ever, members, frontendVars, faults>>

\* The first byte is the word, whatever it is: a socket beside it goes with it.
Hears(h) ==
  /\ host[h] = "told" /\ line[h] # <<>>
  /\ host' = [host EXCEPT ![h] = "up"]
  /\ line' = [line EXCEPT ![h] = Tail(@)]
  /\ call' = [f \in Frontend |-> IF f = Head(line[h]) THEN On("lost", h) ELSE call[f]]
  /\ UNCHANGED <<daemonVars, of, ever, members, at, tries, forked, faults>>

\* _arrived: a socket handed down, taken or, once the host has closed, closed.
Arrives(h) ==
  /\ host[h] \in {"up", "closed"} /\ line[h] # <<>>
  /\ line' = [line EXCEPT ![h] = Tail(@)]
  /\ call' = [f \in Frontend |->
                IF f # Head(line[h]) THEN call[f]
                ELSE IF host[h] = "up" THEN On("reading", h) ELSE On("refused", 0)]
  /\ UNCHANGED <<daemonVars, host, of, ever, members, at, tries, forked, faults>>

\* The socket of a frontend that left reads as closed (_gone): whoever it was is let go of.
Drops(f) ==
  /\ at[f] = "left" /\ call[f].listed /\ HostThere(call[f].by)
  /\ call' = [call EXCEPT ![f].listed = FALSE]
  /\ members' = [members EXCEPT ![call[f].by] =
                    IF call[f].stage = "joined" THEN @ \ {f} ELSE @]
  /\ UNCHANGED <<daemonVars, host, of, line, ever, at, tries, forked, faults>>

\* _hello: it is attached to the runs,
Attached(f) ==
  /\ call[f].stage = "reading" /\ HostThere(call[f].by)
  /\ LET h == call[f].by
     IN IF host[h] = "closed"
        THEN call' = [call EXCEPT ![f] = On("refused", 0)] /\ UNCHANGED members
        ELSE /\ call' = [call EXCEPT ![f].stage = "hello"]
             /\ members' = [members EXCEPT ![h] = @ \cup {f}]
  /\ UNCHANGED <<daemonVars, host, of, line, ever, at, tries, forked, faults>>

\* A mutant: whether the socket is still there is not looked at again.
Still_Before(f) == TRUE

Still(f) == call[f].listed

\* and answered; or let go of, its socket having gone meanwhile.
Joins(f) ==
  /\ call[f].stage = "hello" /\ HostThere(call[f].by)
  /\ ever' = [ever EXCEPT ![call[f].by] = TRUE]
  /\ IF Still(f)
     THEN /\ call' = [call EXCEPT ![f].stage = "joined"]
          /\ at' = [at EXCEPT ![f] =
                      IF @ # "hello" THEN @ ELSE IF f \in members[call[f].by] THEN "attached" ELSE "left"]
          /\ UNCHANGED members
     ELSE /\ call' = [call EXCEPT ![f] = NoCall]
          /\ members' = [members EXCEPT ![call[f].by] = @ \ {f}]
          /\ UNCHANGED at
  /\ UNCHANGED <<daemonVars, host, of, line, tries, forked, faults>>

\* On their way: none is so for as long as a host waits for its first.
OnTheirWay == {"look", "machine", "raising", "starting", "hosting", "link", "hello"}

\* _lives: nobody is there; or _arrived: the daemon has gone.  The host is about to be closed,
\* and whoever comes meanwhile is attached.
GoesOn(h) ==
  /\ host[h] = "up"
  /\ \/ members[h] = {}
        /\ InTime(ever[h] \/ \A f \in Frontend : at[f] \notin OnTheirWay)
     \/ ~DaemonThere(h) /\ line[h] = <<>> /\ UNCHANGED faults
  /\ host' = [host EXCEPT ![h] = "going"]
  /\ UNCHANGED <<daemonVars, of, line, ever, members, frontendVars>>

\* Host.close: each of its frontends is told it is let go of.
Ends(h) ==
  /\ host[h] = "going"
  /\ host' = [host EXCEPT ![h] = "closed"]
  /\ members' = [members EXCEPT ![h] = {}]
  /\ at' = [f \in Frontend |-> IF f \in members[h] /\ at[f] = "attached" THEN "left" ELSE at[f]]
  /\ UNCHANGED <<daemonVars, of, line, ever, tries, forked, call, faults>>

\* Every socket is closed, and then the daemon's.
Hangs(h) ==
  /\ host[h] = "closed"
  /\ host' = [host EXCEPT ![h] = "hung"]
  /\ UNCHANGED <<daemonVars, of, line, ever, members, frontendVars, faults>>

Finishes(h) ==
  /\ host[h] = "hung"
  /\ host' = [host EXCEPT ![h] = "over"]
  /\ UNCHANGED <<daemonVars, of, line, ever, members, frontendVars, faults>>

HostKilled(h) ==
  /\ HostAlive(h) /\ faults < MaxFault
  /\ faults' = faults + 1
  /\ host' = [host EXCEPT ![h] = "over"]
  /\ members' = [members EXCEPT ![h] = {}]
  /\ at' = [f \in Frontend |-> IF f \in members[h] /\ at[f] = "attached" THEN "left" ELSE at[f]]
  /\ UNCHANGED <<daemonVars, of, line, ever, tries, forked, call>>

-----------------------------------------------------------------------------
(* A frontend (attach, host, _machine, running, reached). *)

\* _daemon: one is written down, is there, and something listens.
Found == DaemonAlive(record) /\ Listening(sock)

\* running: the host there is, by what the daemon says, or 0.
Running ==
  IF Found /\ daemon[sock] = "serving" /\ HostAlive(held[sock]) THEN held[sock] ELSE 0

\* A mutant: it gives up as soon as it could not.
Again_Never(f) == FALSE

Again(f) == tries[f].attach < Attaches

\* What could not be reached or started is reached for again in a while, so many times.
GivesUp(f) ==
  /\ at' = [at EXCEPT ![f] = IF Again(f) THEN "again" ELSE "failed"]
  /\ tries' = [tries EXCEPT ![f] = [attach |-> @.attach + 1, host |-> 1]]

\* A daemon or a host that did not come up is started again, so many times.
TriesAgain(f) ==
  IF tries[f].host < Tries
  THEN /\ at' = [at EXCEPT ![f] = "tick"]
       /\ tries' = [tries EXCEPT ![f].host = @ + 1]
  ELSE GivesUp(f)

Goes(f, to) == at' = [at EXCEPT ![f] = to] /\ UNCHANGED tries

Looks(f) ==
  /\ at[f] = "look"
  /\ Goes(f, IF Running # 0 THEN "link" ELSE "machine")
  /\ UNCHANGED <<daemonVars, hostVars, forked, call, faults>>

\* _machine: a daemon is started where there is none,
Machine(f) ==
  /\ at[f] = "machine"
  /\ IF Found
     THEN Goes(f, "starting") /\ UNCHANGED <<daemon, forked>>
     ELSE \E d \in Daemon :
            /\ daemon[d] = "none" /\ \A e \in 1..(d - 1) : daemon[e] # "none"
            /\ daemon' = [daemon EXCEPT ![d] = "started"]
            /\ forked' = [forked EXCEPT ![f] = d]
            /\ Goes(f, "raising")
  /\ UNCHANGED <<placeVars, held, hostVars, call, faults>>

\* and waited for; another's will do as well.
Raised(f) ==
  /\ at[f] = "raising"
  /\ InTime(daemon[forked[f]] \notin {"started", "locked", "bound"})
  /\ IF Found THEN Goes(f, "starting") ELSE TriesAgain(f)
  /\ UNCHANGED <<daemonVars, hostVars, forked, call>>

\* A host is started where there is none,
Starts(f) ==
  /\ at[f] = "starting"
  /\ IF Running # 0
     THEN Goes(f, "link") /\ UNCHANGED <<host, forked>>
     ELSE \E h \in Host :
            /\ host[h] = "none" /\ \A g \in 1..(h - 1) : host[g] # "none"
            /\ host' = [host EXCEPT ![h] = "started"]
            /\ forked' = [forked EXCEPT ![f] = h]
            /\ Goes(f, "hosting")
  /\ UNCHANGED <<daemonVars, of, line, ever, members, call, faults>>

\* and waited for.
Hosted(f) ==
  /\ at[f] = "hosting"
  /\ InTime(host[forked[f]] \notin {"started", "asking", "listed", "told"})
  /\ IF Running # 0 THEN Goes(f, "link") ELSE TriesAgain(f)
  /\ UNCHANGED <<daemonVars, hostVars, forked, call>>

\* It connects to the daemon, and says hello.
Links(f) ==
  /\ at[f] = "link"
  /\ IF Listening(sock)
     THEN Goes(f, "hello") /\ call' = [call EXCEPT ![f] = On("backlog", sock)]
     ELSE GivesUp(f) /\ UNCHANGED call
  /\ UNCHANGED <<daemonVars, hostVars, forked, faults>>

\* A socket nobody is on the other end of any more.
Dead(f) ==
  LET by == call[f].by
  IN CASE call[f].stage = "backlog" -> ~Listening(by)
       [] call[f].stage \in {"handing", "sent", "reading", "hello"} -> ~HostThere(by)
       [] call[f].stage = "refused" -> TRUE
       [] OTHER -> FALSE

\* It is told no, or nothing any more.
Fails(f) ==
  /\ at[f] = "hello" /\ Dead(f)
  /\ GivesUp(f)
  /\ call' = [call EXCEPT ![f] = NoCall]
  /\ UNCHANGED <<daemonVars, hostVars, forked, faults>>

\* A tick is longer than a daemon takes to come up once it is started, or to go,
DaemonsSettled == \A d \in Daemon : daemon[d] \in {"none", "serving", "over"}

\* and a while longer than a host does, too.
Settled == DaemonsSettled /\ \A h \in Host : host[h] \in {"none", "up", "over"}

Retries(f) ==
  /\ \/ at[f] = "tick" /\ InTime(DaemonsSettled) /\ Goes(f, "machine")
     \/ at[f] = "again" /\ InTime(Settled) /\ Goes(f, "look")
  /\ UNCHANGED <<daemonVars, hostVars, forked, call>>

Begins(f) ==
  /\ at[f] = "out"
  /\ Goes(f, "look")
  /\ UNCHANGED <<daemonVars, hostVars, forked, call, faults>>

\* Its terminal is closed, whatever it was doing.
Leaves(f) ==
  /\ at[f] \in {"hosting", "hello", "attached"}
  /\ Goes(f, "left")
  /\ UNCHANGED <<daemonVars, hostVars, forked, call, faults>>

-----------------------------------------------------------------------------
Init ==
  /\ lock = 0 /\ sock = 0 /\ record = 0
  /\ daemon = [d \in Daemon |-> "none"]
  /\ held = [d \in Daemon |-> 0]
  /\ host = [h \in Host |-> "none"]
  /\ of = [h \in Host |-> 0]
  /\ line = [h \in Host |-> <<>>]
  /\ ever = [h \in Host |-> FALSE]
  /\ members = [h \in Host |-> {}]
  /\ at = [f \in Frontend |-> "out"]
  /\ tries = [f \in Frontend |-> First]
  /\ forked = [f \in Frontend |-> 0]
  /\ call = [f \in Frontend |-> NoCall]
  /\ faults = 0

DaemonStep(d) ==
  Locks(d) \/ Binds(d) \/ Serves(d) \/ GoesIdle(d) \/ Closes(d) \/ Unlinks(d) \/ Exits(d) \/ Forgets(d)

HostStep(h) ==
  \/ Says(h) \/ TakesOn(h) \/ Tells(h) \/ Refused(h) \/ Hears(h) \/ Arrives(h)
  \/ GoesOn(h) \/ Ends(h) \/ Hangs(h) \/ Finishes(h)

\* What the daemon and the host do for a frontend.
CallStep(f) == Hands(f) \/ HandsOver(f) \/ Drops(f) \/ Attached(f) \/ Joins(f)

FrontendStep(f) ==
  \/ Looks(f) \/ Machine(f) \/ Raised(f) \/ Starts(f) \/ Hosted(f) \/ Links(f)
  \/ Fails(f) \/ Retries(f)

Next ==
  \/ \E d \in Daemon : DaemonStep(d) \/ Terminated(d) \/ DaemonKilled(d)
  \/ \E h \in Host : HostStep(h) \/ HostKilled(h)
  \/ \E f \in Frontend : CallStep(f) \/ FrontendStep(f) \/ Begins(f) \/ Leaves(f)

Spec == Init /\ [][Next]_vars

-----------------------------------------------------------------------------
(* Properties. *)

\* The types of the state.
TypeOK ==
  /\ {lock, sock, record} \subseteq 0..MaxDaemon
  /\ daemon \in [Daemon -> {"none", "started", "locked", "bound", "serving", "ending", "closed",
                            "unlinked", "over"}]
  /\ held \in [Daemon -> 0..MaxHost]
  /\ host \in [Host -> {"none", "started", "asking", "listed", "told", "up", "going", "closed",
                        "hung", "over"}]
  /\ of \in [Host -> 0..MaxDaemon]
  /\ line \in [Host -> Seq(Frontend \cup {Word})]
  /\ ever \in [Host -> BOOLEAN]
  /\ members \in [Host -> SUBSET Frontend]
  /\ at \in [Frontend -> OnTheirWay \cup {"out", "tick", "again", "attached", "left", "failed"}]
  /\ tries \in [Frontend -> [attach : 1..(Attaches + 1), host : 1..Tries]]
  /\ forked \in [Frontend -> 0..MaxDaemon \cup 0..MaxHost]
  /\ call \in [Frontend -> [stage : {"none", "backlog", "handing", "sent", "reading", "hello",
                                     "joined", "lost", "refused"},
                            by : 0..MaxDaemon \cup 0..MaxHost, listed : BOOLEAN]]
  /\ faults \in 0..MaxFault

\* A daemon that listens is the one its directory leads to: none takes away the socket of
\* another, however many are started at once and whenever one of them goes (where.holds).
Reachable == \A d \in Daemon : daemon[d] \in {"bound", "serving", "ending"} => sock = d

\* Every frontend is one more of the same runs: no two are attached to two hosts of the
\* workspace, but for one whose daemon has gone, and which is about to let go of them
\* (_serves, _watches, Host.close).
SameRuns ==
  \A g, h \in Host :
    members[g] # {} /\ members[h] # {} /\ DaemonThere(g) /\ DaemonThere(h) => g = h

\* No socket handed down is taken for the word that the host was taken on (_serves).
NoneLost == \A f \in Frontend : call[f].stage # "lost"

\* Where no process is killed and no wait is too short, whoever reaches for the runs gets to
\* them, whoever else starts a daemon or a host in the same breath or leaves as it comes
\* (attach, host).
Reaches == \A f \in Frontend : at[f] = "failed" => faults > 0

\* Whoever left while it was being attached is let go of by the one or the other, its hello or
\* its socket: no host goes on for a frontend that has gone (_hello, _gone).
LeftIsLetGo ==
  \A h \in Host, f \in Frontend :
    f \in members[h] /\ at[f] = "left" /\ HostThere(h) => call[f].listed \/ call[f].stage = "hello"
=============================================================================
