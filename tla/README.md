# A verification development for Humanize

TLA+ modules that model the concurrent core of Humanize (`src/src/hmz`), the TLC configurations
that check them on small instances, and theorems that TLAPS checks for every instance. Paths
below are under `src/src/hmz/` unless they start with `docs/` or `specs/`.

1. [What the system is](#1-what-the-system-is)
2. [The parts, their state and what is hard about them](#2-the-parts)
3. [The modules](#3-the-modules)
4. [The runs](#4-the-runs)
5. [What is proved](#5-what-is-proved)
6. [Where the code and what is said of it differ](#6-where-the-code-and-what-is-said-of-it-differ)
7. [What is not modelled](#7-what-is-not-modelled)
8. [Plan](#8-plan)

To check a module, from this directory: `tlc -config journal.cfg MCJournal`; to check a proof:
`tlapm JournalProofs.tla`. `PROJECT.json` lists the runs, the source lines each definition
translates, a mutation of the model that breaks each property, the hazards the properties are
for, and the theorems.

## 1. What the system is

Humanize runs *flows*: Python coroutines whose agents are command-line coding assistants (Claude
Code, Codex, Kimi, ...). A person starts a flow from a terminal, a browser, a desktop window or a
program; the run is held by a process of its own, the *host* of a workspace, so that frontends
come and go while it goes on. One *daemon* a machine leads each frontend to the host of its
workspace: it hands the frontend's socket down to that process.

```
 cli   tui   web   desktop   sdk          frontends: words, keys, pages
   \    |     |      /       /
        daemon (one process a machine)    a socket, handed down to the host of the workspace
               |
        runtime/doing  (Host)             one process a workspace: the runs, lines and
               |                          questions of all its frontends
               |                          -- a thread for each run, turn, question, line
        runtime/flowing (run_flow)        calls, budgets, journal, sessions
               |                          -- one asyncio loop, a task for each call gathered
        coganchor (agents, machines)      a turn of a CLI, here or on another machine
```

The runtime reaches the agents through drivers (`harnesses.py`); what a turn says comes back as
events to whoever holds the run. What outlives a process is files: the journal of a resumable
run, the record of a run (an *epic*), settings, what is known of machines and accounts.

## 2. The parts

For each: the state it keeps, what is done to it, whom it meets, what is hard, and what makes it
right. Modelled, in whole or in part: the journal, the calls, the views, the host, the daemon, the
turn of an agent with its watchdog, and the rendezvous.

**Journal of a resumable run** (`runtime/flowing/journaling.py`, `FlowImpl._journaled` in
`engine.py`). State: a file of one JSON record a line; what the last run left (`Past`), the ids
given out, each call's state, a buffer, a timer. Operations: open (read, compact or start
afresh), a record of a call begun or ended (batched behind a timer), a state write (flushed
before it returns), flush, close. The engine calls it from its loop; the file is met again by a
later process. Hard: a kill between any two bytes; a write refused half-way; matching calls by
digest and order when several were gathered. Right: what a flow wrote is what a resumed one
reads; a call is picked up by one call at most and by no other than the one it was.

**Calls of flows** (`runtime/flowing/engine.py`). State: the tree of `Call`s, each with what it
spent, its clock, the count of calls going on under it (`live`), what it is to release (`res`);
the run's sessions dropped, cleanups under way, phases of its close. Operations: call, end,
hold, cascade of cleanups, deadlines, stop, close. Meets the views (sessions), the journal, the
drivers. Hard: the calls of one flow are tasks that end in any order; a deadline and a stop are
both a cancel of one task; cleanups wait for each other under a patience. Right: a cancel is told
from a deadline; nothing is closed under a call still going, nor left open after the run.

**Views** (`runtime/flowing/viewing.py`). What a flow holds of an agent, a session, an
environment. State: a session's handle, whether it is closed or being closed, where it was forked
from. Operations: open on first use, run a turn, fork, close on being dropped. Hard: a view goes
when Python's collector says so, while the call's own end closes the same session.

**Host of a workspace's runs** (`runtime/doing/hosting.py`). State: frontends with their
outboxes, claims of roles, who is away, the run going and the one stopping, lines waiting, lines
given to agents, questions waiting, history. Operations: attach, detach, claim, away, start,
stop, force, say, answer, fold, close; and what runs and turns report. Everything goes under one
lock, and much is decided under it and done after letting it go. Right: a line is never lost and
never told twice, lines to one conversation keep their order, no run hears what was meant for another, questions end with their run.

**Drivers** (`runtime/flowing/harnesses.py`, `spi.py`, `fakes.py`). An agent's session as the
engine sees it: turns under limits, steering, hooks, the person outside. Hard: limits read while
a turn goes, and cutting it exactly once. Right: a turn over its limit is ended and said to be.

**Environments** (`environing*.py`). Worktrees, containers, ssh and slurm. Hard: cleanup of what
was made when a step fails. Right: what a run made is removed once, and only that.

**Finding and loading flows** (`finding.py`, `loading.py`, `declaring.py`, `index.py`,
`verses.py`). Code read and typed; repositories fetched under locks. **Flow definitions**
(`flows/`): decorators and types.

**Epics** (`runtime/epic.py`). The directory of a run, a lock held while it goes. Hard: asking
whether it goes takes the same lock for a moment. **Runner** (`runtime/runner.py`): binds and
drives a run, and keeps its figures.

**Core functions** (`runtime/doing/*`). One for each thing a frontend may ask, over the files and
the engine. **Settings, backups, exports, telemetry** (`runtime/{settings,backing,exporting,
telemetry,kept}.py`): files read and written whole. **Watching and tracing**
(`runtime/{watching,tracing}`): readings for display.

**Daemon** (`daemon/`). State: the machine's lock, a socket and a note of who listens; the host it
holds for each workspace; per host, the connection sockets are handed down, and who is attached.
Operations: start (fork, take the lock, listen, write the note), take a host on, hand a socket
down, leave when idle, be killed; a frontend's own search for all this, with its retries. Hard: two
frontends starting one at once; one arriving as it leaves; a host saying what it holds as
another does. Right: a daemon that listens is the one its directory leads to, all
frontends of a workspace are at one host, and none that reaches for it is left out.
**SDK, command line, terminal, web, desktop**: clients of it; the web server's held pages
(`web/held.py`) keep records and wake whoever waits.

**Agents** (`coganchor/agents/`). `base.py`: a turn as a process whose output is a stream of
events, interrupted, steered, forked. `watchdog.py`: a ladder of interrupt, stop and kill for a
silent turn. `allowance.py`: the spending of a run. `hooks.py`: questions a CLI waits on. One
driver for each CLI. Hard: the turn ending as any of these acts on it. Right: nothing is done to
the turn after.

**Accounts** (`_lending.py`, `homes.py`, `fallbacks.py`, `providers/`). Credentials used here or
copied to another machine, never both: shared and exclusive locks of directories.

**Anchors** (`anchor.py`, `transport.py`, `handlers.py`, `supervisor.py`, ...): a command's
system calls carried out elsewhere. **Rendezvous** (`rendezvous.py`): two halves introduced, or
their bytes carried; both must be told the same though one of them stops waiting. **Mirrors**
(`shadow.py`): several processes replaying one journal under a lock. **Settings of coganchor**
(`settings.py`, `atomic.py`): changed under a lock taken with patience. **Machines**, **serving**,
**fences**, **catalogues** (`machines/`, `serve/`, `fence/`, `linux/`, `darwin/`, `models.py`,
`prices.py`, ...): calls of other programs and the kernel, tables.

The hazards of all these, each at its line and with the properties that are for it, are in
`PROJECT.json`.

## 3. The modules

| Module | Models | Extends or instantiates |
| --- | --- | --- |
| `Journal` | the file, the process, calls picked up | |
| `FlowMemory` | what a flow is promised of its state | |
| `JournalMemory` | `Journal` implements `FlowMemory` | `Journal`; `INSTANCE FlowMemory` |
| `JournalProofs` | theorems of `Journal` | `JournalMemory` |
| `Deadlines` | clocks and cancels of nested calls | |
| `DeadlinesProofs` | theorems of `Deadlines` | `Deadlines` |
| `CallTree` | what calls hold, and who lets go of it | |
| `CallTreeProofs` | theorems of `CallTree` | `CallTree` |
| `Hosting` | frontends, runs, lines, questions | |
| `HostingProofs` | theorems of `Hosting` | `Hosting` |
| `Feed` | what a host promises a frontend of what happens | |
| `Delivery` | history, outboxes, letting go | `INSTANCE Feed` |
| `DeliveryProofs` | theorems of `Delivery` | `Delivery` |
| `Daemon` | the daemon, the host's process, a frontend's way there | |
| `DaemonProofs` | theorems of `Daemon` | `Daemon` |
| `Turn` | a turn of an agent and whatever cuts it off | |
| `TurnProofs` | theorems of `Turn` | `Turn` |
| `Introduction` | what a meeting promises its two halves | |
| `Rendezvous` | the halves, their connections, the broker's threads | `INSTANCE Introduction` |
| `RendezvousProofs` | theorems of `Rendezvous` | `Rendezvous` |
| `MCJournal`, `MCDeadlines`, `MCCallTree`, `MCHosting`, `MCDelivery`, `MCDaemon`, `MCTurn`, `MCRendezvous` | constants and symmetries of the runs | the above |

A comment before each action names the method it is; `map` in `PROJECT.json` has the lines. A
definition named `X_Something`, before `X`, is a mutation of `X` that only a mutant run uses.

### Journal

The file is not a sequence of lines but what replaying it gives (`_read` is a fold over the
lines): `calls`, the record of each id; `state`, the state of each; `torn`, whether the file ends
in half a line. `_compacted` writes records that replay to the same, so `OpenResumed` leaves
`calls` and `state` as they are and drops the half line. The process holds `past` (`Run.past`),
`ids`, the calls made (`node`, with the `jid`, the earlier id picked up as `old`, and the state
`held`), `seqs` (`Call.seqs`), and the journal's `buffer`, `timer`, `flushing` and the state write
waiting for the flush.

`CallFlow` is `FlowImpl._journaled` whole: the count of the digest taken and advanced, `Past.claim`
(the last record matching parent, digest and sequence), and otherwise a fresh id and a batched
record. `WriteState` is `__setitem__`: its record joins the buffer and a flush begins, and
`Flushed` returns from it. The flush is synchronous on the loop, so nothing of the process happens
between its lines (`Taking` is false), but `Gone` may: a line at a time is how far a kill can see.
`WriteFails` is an `OSError` part of the way: what was left is dropped and half a line may stay,
which the next line is appended to and lost with. `EndFlow` may come in any order with the calls
below; a task that outlives its call may still write state.

`MaxId`, `MaxRun`, `MaxFault` bound the ids, the openings of the file, and the writes refused.
Not modelled: the version in the header (written, and not looked at by `_read`), a digest's
text (equal arguments are an equal model value), `fsync` (a kill loses nothing written: the
system is assumed to go on).

### FlowMemory and JournalMemory

`FlowMemory` has neither file nor id: a call is named by the *path* of digests and sequence numbers down
to it, has one memory that outlives the run, and a call of this run sees a copy of it. A write
changes memory at once and the view when it returns; between the two only a kill may come.
`JournalMemory` gives the refinement mapping: `memory` is what a replay of the file would give each
path now, `view` what each call holds. `KeepsMemory` is then that `Journal`, with no write
refused, implements it: ids, compaction, batching and matching never show. `Ways` and `RunWays` are
the paths of the records and of the calls, as recursive functions of those alone.

### Deadlines

The run's flow and the flows it awaits are the frames of one asyncio task. A frame has the fields
of its `_Clock` (`inflight`, `expired`, `fired`, `handle`, `cancelling`) and what is needed to
state the properties (`caught`, `stops`, `spared`). `cancels` is `Task.cancelling()`; `pending` a
`CancelledError` not yet raised in the task. `Pass` lets the time of a deadline come; `Expire`,
`Fire` and `Turned` are the clock's; `Stop` is a cancel from outside. `Leave` is the end of
`FlowImpl.__call__`: settling whose a cancel is, taking an unseen one back, and then perhaps
waiting for what the call made to be let go of (`"finishing"`), where another cancel may reach it.
A turn goes from `opening` (checked against the budgets, its session being opened) to `going`
(counted in by `Call.turning`). `Side` turns belong to other tasks of the flow and may outlive the
call they began under. Asyncio's rules -- callbacks run only while the task waits, a cancel is
raised where it next waits, two of them before that are one -- are external, from how the code
uses them.

`Leave` lets a flow raise a cancel it caught before, swallow it, or raise an error of its own: the
flow is anybody's code.

### CallTree

`parent`, `ended`, `live` and `res` are the `Call`'s; a session has the fields of `Opened`
(`closed`, and `dropping` for its `task`) and a `stage` that says what its driver is doing.
`EndCall` is the finally of `FlowImpl.__call__`, one step of the loop: counted out, and a cascade
started where the call was the last. `reaping[c]` is the cascade `c`'s end started, at whichever
call above it has come to: `Take` (its `res` taken), `ReapOne` (the last first), `Climb` (counted
out of the call above). `ViewGoes`, `DrainSoon` and `Shut` are a view collected and its session
closed by the loop. `RunEnds`, `Settle`, `TakeLeft`, `ReleaseLeft`, `Close` are `Run.close` in
its order. `late` is chosen at the start: with it, what the run waits for may take longer than
the `REAP` seconds it is given, and the run goes on without.

`closes` and `belated` record how often a handle was closed, and which sessions were opened for a
call that had ended meanwhile.

### Hosting

An action is what a thread does while it holds `Host._lock`. `current` and `stopping` are run
numbers, `flow` whether the thread of each run has ended, so that a run stopped, forced or closed
goes on unwinding beside the one that replaced it. `starting` is a start that has let go of the lock
to load the flow.

A line waits in `queue`, is `given` to a session, is in the hands of a thread that writes it
(`puts`), is in the `inbox` of the CLI, or its end has been told (`fate`). `handing` are the
threads in `_hand_over`: each round picks one line under the lock (`Picks`: the oldest of each
conversation it may go into; `Targets`: the conversation; `Holding`: agents that have one
already), and the write (`PutsIn`) or refusal (`Unreached`) happens on a thread of its own.
`Took` is an agent saying it has a line, `TurnEnds` what is unheld at a turn's end. `heard`
records who heard each line and `said` the lines said before each, for the properties.

A line refused goes back to the head of the queue (`Requeued`). A write that raises may have landed
all the same: Kimi's driver POSTs a word and then steers it, and when the steer is refused (code
40402) or not answered in time the word stays queued, to be answered as a turn of its own
(`interject` in `coganchor/agents/kimi.py`). What landed so is the conversation's `stray`, besides
going back. Its agent may say it has it once it is given the same words again, as words are how it
is known (`Awaited`). `MaxStray` bounds the lines this befalls, `Afks` what frontends say of being
away.

`Ask`, `Answer`, `Wakes` are a question: recorded, answered from outside, and its thread waking at
an announcement or a tick to return an answer, a line, or nobody. Roles are away one by one
(`awayOf`) or all (`awayAll`), with claims in between.

Texts of lines are distinct (the code matches a line taken by its text), a frontend attaches once,
and letting a frontend go for being behind is `Detach`. What each frontend is *sent* is
`Delivery`'s; the two are apart because what happens never depends on what was sent, while every
action here may send something. A request is one step here and two there (the frontend looked up, then
the claim), for the finding of section 6. Side questions, the board and usage are not modelled.
What the agent does with a line is anything: it may say it has it in that turn, later, or never.

### Feed and Delivery

`Feed` is a log each frontend reads from some place on, in order and each thing once, until it is
let go. `Delivery` is how: `seq`, `elided` and `Kept` are the history and what it has dropped;
`snaps` the state of each kind as last said (`_snap` says nothing where nothing changed); `outbox`
and `thread` are each `_Frontend`'s, its thread holding no lock but its own and perhaps stuck in
a frontend's hands for good. A thread that holds the host's lock may say something, whose broadcast
finds somebody too far behind, whose letting go says two things more, which may find others. That
recursion is `todo`, what the thread holding the lock has still to do, in the order the code does
it; the outboxes are emptied between any two of its steps. The history is one run's: that a run
starting clears it and sets `_elided` to zero (`_start`) is left out. Of the kinds of state two stand for
all: who is attached, and who holds the one role, which going takes from a frontend.
`DeliveryAssumption` is the code's own "a whole replay fits under it": `Behind >= Kept + 3`.

### Daemon

Processes are numbered as they are started: `daemon[d]` and `host[h]` say how far each has come,
a line of `routing.serves` or `carrying.serves` at a time. `lock`, `sock` and `record` are what the
daemon's directory says; `line[h]` is what went down the connection of a host, in order: the word
that it was taken on (`TAKEN`) and sockets handed down, which a host that has not read the word
yet could mistake for it. `call[f]` follows a frontend's socket from the daemon's backlog to the host's hands;
`at[f]` follows the frontend through `attach`, `host`, `_machine` and their retries. Kills are of
daemons and hosts, at any step; a kill lets go of the lock, and leaves the socket and the note.

Whatever the code rules out only by waiting long enough is ruled out here too (`InTime`): that a
daemon goes idle under a frontend that has just started it, that a host gives up on its first
frontend, that a tick ends before a process came up. Each may happen all the same, within the
`MaxFault` times that processes are killed; so all properties but `Reaches`, which says what holds
where the waits suffice, are checked with waits that do not. One workspace is modelled: another
is another entry of the same daemon. A route's thread still under way when `Router.close` has let
go of the hosts held may take on one more, which is let go of as the process ends; that is left out
(`Closes` lets go of all). Framing, the idle daemon's other reasons to stay, the hello's
content, and the listing for people are not.

### Turn

One conversation held open in a process of its own (`StreamSessionBase`): `at` is where the turn's
thread is, from `stream` through `_turning`, `_falling_back` and `_stream` and back; `try` the
tries of a turn that fails, `round` the times a hook sends it on. What may end it are threads of
their own: a person's `interrupt`, the clock of its budget (`_checks`), a watchdog with its ladder
of looking, interrupting, dropping and killing. `_interrupts` is three steps, since it looks at the
turn under the session's guard twice and ends the process outside it: `Sets` (or not, if the turn
it was `raised` for is not the one running), `Told`, `Cuts`. `up` and `alive` are the session's process; `doomed`
the one a watchdog took aim at before it looked whether its turn was over. A process gets a name no
watchdog still aims at: the code holds the process, not its number.

`MaxLate` and `MaxBusy` are about these threads: each may be held up as long as it likes, and a
turn, or a try of one, may begin with `MaxLate` of them still about, raised for one before;
`MaxBusy` may be at work at once. Stand-ins for a backend that fails (`_instead`), what a word said in mid-turn adds to the answers owed,
backends that run a command a turn, and the allowance are not modelled.

### Introduction and Rendezvous

`Introduction` is a meeting with no broker in it: how it is joined is decided once, directly only
where each half has reached the other over one connection, and each half ends as was decided or
fails. `Rendezvous` has the two halves (`dial`: `half`, `reach`, `word`), the connections that
may open between them (`_greet`: each is offered by one half and taken by the other, which takes
one), and the broker's two threads (`_introduce`), a step between any two things they
do to what they share: `_Pair`'s events (`arrived`, `answered`, `told`, `done`), its `verdicts` and
its decision `joined`, and the dict of meetings. `clock` is how long a thread has been in a wait
with a limit: threads take no time between waits, halves as much as they like. A half may be sent
away at any step. Which pairs are worth a window (`_worth`) and whether there is room for one
more meeting are either way; proof of identity and addresses are not modelled.

## 4. The runs

Every constant of a run is in its `.cfg`; `CHECK_DEADLOCK FALSE` throughout, as every one of these
systems may stop: a run ends, a process is killed for good, a bound is reached.

| Run | What it asks | Distinct states |
| --- | --- | --- |
| `journal` | three calls, two runs, one write refused, killed anywhere | 2.0 million |
| `journal_memory` | refinement of `FlowMemory`, three calls two deep, two runs | 135 thousand |
| `deadlines` | two nested clocks, two stops, one turn of another task | 61 thousand |
| `calltree` | three calls, a session, in time or late | 43 thousand |
| `hosting_lines` | two runs, two lines, one conversation in each | 10 million |
| `hosting_asked` | two runs, two frontends, a role, a question, a line | 576 thousand |
| `delivery` | three frontends, two of which may stop reading, two claims; refinement of `Feed` | 1.5 million |
| `daemon` | two frontends, two daemons, two hosts, a kill or a wait too short | 2.3 million |
| `turn` | two turns of two tries and two rounds, a watchdog, a person, a clock, a stop | 1.6 million |
| `rendezvous` | a meeting, two connections; refinement of `Introduction` | 239 thousand |
| `turn_stopped`, `delivery_claim` | one property each, that the code does not have: section 6 | |

**journal.** `StateDurable`: what a kill now would leave in the file is the state every call holds,
so long as no write was refused. `ParentFirst`, `NoSeqGap`: a record is there with all that finding
it needs, likewise. `JidsDistinct`: gathered calls of one digest pick up one earlier
call apiece. `NoneAdopted`: what a lost record left with no parent is never taken for a call of a
later run. Bounds: three calls of one digest are a call with two under it, or
a chain; four ids, so that one is given out above an orphan; a second run reads what
the first left torn, lost or whole. With three runs (5.6 million states) they hold too.

**journal_memory.** Two digests are not needed: two calls of one digest under one call are the
harder case. Depth two, so that a call picked up is under one picked up.

**deadlines.** `CancelsCounted`: `Task.cancelling()` is the stops asked from outside and the
cancels a clock will take back, so none is left for whatever counts them next. `NoStrayCancel`,
`DeadlineSurfaces`, `StopNotMasked`: a cancel is the deadline's exactly where nobody else
cancelled. `SparesTurns`: a graceful deadline waits for every turn it found. `DeadlineComes`
(liveness). Two depths are enough for a clock over a clock with the count of the outer as
the baseline of the inner; three calls, so that a call is made after one that expired; two stops,
one before a clock and one with it.

**calltree.** `CalleesFirst`: nothing a call made is closed under a call still going. `ClosedOnce`:
whoever comes to a session -- its view, its call, the run -- closes it once. `NoneLeft`, `AllClosed`:
a run that was in time leaves no call uncleaned and no session open. `RunCloses` (liveness): the
run's close ends, in time or late. Three calls are a chain or two under one, whose ends race. Three
calls and two sessions were checked for the invariants as well.

**hosting_lines.** `LinesAccounted`: a line is in exactly one place, or told of once. `InOrder`:
while a line of one frontend to one conversation waits, those said after it wait behind, though it
was given and refused meanwhile. `HeardByItsRun`, of strays too. `OneAtATime`. Two runs so that one
is stopping as the next goes; two lines so that one waits behind another given; one that lands
though refused. There is no role, so nobody is away (`Afks` is empty). Lines, frontends and
questions are symmetric, and no property of this run is temporal.

**hosting_asked.** `PendingIsGoing`: a question waits only while its run goes, whatever is started
and stopped about it. `Noticed` (liveness) has three parts: a question for which a line at large
waits, from one who may speak for the role, takes a line (or that line goes, or its frontend may
no more); one whose role went away is given up (or the role comes back); one answered or withdrawn
returns to the flow -- all though nobody need announce it. Lines said to the role by name or in a
conversation are not in the first part: `LineFor` treats them alike. No session is opened here (`MaxSession = 0`): turns
bear on questions only through whether one is open.

**delivery.** `Implements`: `Feed`, whatever the outboxes, the threads and the letting go do.
`Current`: one with nothing more to be told was told how things stand. `LiveIsExact`: the history
and what follows join without gap. `Heeded` (liveness): one that reads is told everything, or that
it was let go, though another never reads again. Three frontends, so that letting one go in the
middle of a broadcast finds a second too far behind and tells a third; one record kept and three
said, so that the history is cut; an outbox of four, the least the assumption allows, so that two
that never finish the welcome (`Stuck`) do overflow. Two claim, so that a role is refused, given up
and claimed again.

**daemon.** `Reachable`: a daemon that listens is the one its directory leads to. `SameRuns`: no two
frontends are at two hosts, but for a host whose daemon has gone. `NoneLost`: a socket is never
taken for the word. `LeftIsLetGo`: a frontend that left while it was being attached is let
go of. `Reaches`: with no fault, whoever reaches for the runs gets there. Two frontends race to
start the first daemon and the first host; two of each, so that a frontend meets one that is going,
or its successor; a fault, so that a daemon dies with its socket left, or a host after it was
listed. With none of the frontends retrying more than `Attaches` times, as in the code. The
frontends are symmetric, and no property is temporal.

**turn.** `NoLostCut`: a turn cut off reads on from a living process only until whoever cut it off
has ended that. `CutIsIts`: no turn is cut off by what was raised for another. `WedgedFails`: a turn
only the watchdog stopped is a failure, not an empty answer. `TurnEnds` (liveness): a turn ends
though its backend never says another word. Two turns, so that what was raised for the first meets
the second; two tries and two rounds, so that a cut-off comes in the wait, at a restart, at a
hook. One watchdog, one cutter held up as a turn or a try begins, two at work at once (a person and a clock,
or either and the watchdog).

**rendezvous.** `Introduces`: `Introduction`, however the threads and halves interleave.
`Agreement`: never is one half direct and the other carried, and two that are direct hold the ends
of one connection. `NoneEarly`: nothing is carried to a half not told yet. `NoneKept` (liveness):
the broker is left with no meeting. Two connections, so that both get through at once; the limits are the
least for which a half may answer within its window, between the two, and after both. A half makes one meeting, and
one may be forgotten and made anew (`Pair`): a half that dials again, and a third that joins a
meeting of two, are not exercised.

### Fairness

- `Deadlines`: the loop runs every ready callback each time the task waits (strong fairness of
  `Expire` and `Fire`: they are only enabled then); time passes; a flow that runs waits or returns
  (`WF` of the task's steps; the calls it makes are bounded); what it waits for is over in the end;
  a turn ends, as drivers and the watchdog see to. Nothing obliges a flow to call, to take a turn
  or to be stopped.
- `CallTree`: the engine's own steps (`Engine`), which include a flow's calls ending once the run
  is over -- the run cancels them, and a flow that ignores that is given up on after `REAP`, which
  `late` stands for. Nothing obliges the flow to call or open.
- `Delivery`: threads go on (the one holding the lock, each frontend's), but those of `Stuck`
  never finish with what they are handed. Nothing obliges anybody to attach, claim or go.
- `Turn`: threads go on (the turn's, the cutters', the watchdogs', a stop under way). The backend
  need say nothing and need not go when asked; nobody need cut anything off.
- `Rendezvous`: every wait of a half and of the broker has a limit in the code (`Tick` and the
  steps due), and a session carried ends. A half need not dial, nor answer in time.
- `Daemon`: none. What each process owes another is stated as invariants.
- `Hosting`: each question's thread, which looks again every tick whether or not it was told to
  (`_spoke.wait(_TICK)`). Nothing of frontends, flows or agents is assumed.

## 5. What is proved

For every value of the constants, from the assumptions the modules name (`JournalAssumption`,
`NoneAssumption`, `HostingAssumption`, `DeliveryAssumption`, `DaemonAssumption`, `BoundsAssumption`,
`TimesAssumption`, `CallTreeAssumption`, `MemoryAssumption`: bounds are naturals, the placeholders are none of what they
stand in for, be that a name or a record, every session has an agent, a whole replay fits an
outbox, the wait for a way through is shorter than that for an answer).

**`Typing`** (`JournalProofs`): `Spec => []TypeOK`. `PendingLive` is part of it: a flush that
returns writes into a call that is there.

**`Distinctness`**: `Spec => []JidsDistinct`, through the inductive invariant `Matching`. Distinct
ids are not inductive: a call picks up an id that was in the file, and could be the one another
call has. `Matching` adds why not: ids read back are below those given out (`Ahead`, `Fresh`); a
call that picked one up has that id and was matched by what the record says (`Claims`); two
calls of one parent and digest differ in sequence, being below the parent's count (`Seqs`); the run's
own flow is the only one at the top (`OneTop`, `Rooted`). Two calls with one id then either both
started afresh (one came after the other), one of each (one is above all that was read), or both
picked it up -- and then their records are one record, their parents picked up one id, so by
`JidsDistinct` are one parent, of one digest and sequence: one call. Refused writes and kills
play no part but for the file's content being anything of its type.

**`Durability`**, **`Reachability`**, **`Belongs`** and **`Gaplessness`**: `Spec => []StateDurable`,
`[]ParentFirst`, `[]NoneAdopted` and `[]NoSeqGap`. None is an invariant of the file alone: what
waits in memory to be written is part of each argument. `Keeping`: a call's record is in the file,
or waits, behind its parent's if that waits too; what a body last said of a state is in the file,
or is the last to wait of what is said of it; what was read on opening is still there for a call to
pick up. `Belonging`: every id in the file is below those given out, so a call that begins cannot
become the parent of a record a lost call left; this one holds whatever is refused. `Gapless`: the
records of one parent and digest wait in the order of their counts and go out from the first, so
those in the file are the first so many. All but `Belongs` are of a file no write of which is
refused (`faults = 0` is part of the properties): what a refused write takes with it is in section 6.

**`Remembering`**: `Spec /\ [](faults = 0) => KeepsMemory`, for paths of any length. To the invariants above
it adds `Gathered`, which is about the records in the file and those that wait, together
(`Together`): no two are of one call (`Sole`), each that waits is of a call of this run as it was made
(`Whose`), and each in the file was read on opening or is of such a call (`Whence`). With those, no two
records have one path (`WaysApart`: of two that had, the first would be under two that had),
and the path of a call is that of its record (`RunWaysIs`), so what is kept of a path is what one
record says and what is seen at it is what one call holds. That a call which starts afresh is of no
record there is (`CallNew`) is where matching comes in: it is of another count than those its caller
made, and what was read back of that caller, digest and count it would have been matched with. Then
each step is one of `FlowMemory`'s or is not seen: a call made is `Begin`, its state being what the file
says (`Held`); a state record written is `Keep`, a flush that returns `Return`, a process gone `Stop`, a
file opened afresh `StartOver`; the rest, compaction and call records among it, changes neither.
Paths outside `Path` (of more than `MaxDepth` calls, or a count above `MaxSeq`) are not seen.

**`Pendency`** (`HostingProofs`): `Spec => []PendingIsGoing`, with `AskedInv`: it needs that no
run goes while one is being started (`StartsAlone`), or the questions of the run going would be
of a run replaced.

**`Singly`**: `Spec => []OneAtATime`, inductive by itself: whatever thread gives, it gives under the
lock to an agent that holds nothing, and all else takes away.

**`Accounting`, `Hearing`, `Addressing`**: `LinesAccounted`, `HeardButStrays`, `HeardByItsRun`, for any number of
lines, sessions and runs, from one invariant (`Placed`), which says where a line is. It waits, once,
as it was said and to the run going (`Waiting`); or an agent of that run was given it, and it is on
its way there (`Giving`); or it is told of, once (`Told`). Whichever of these, at most one thread is
putting it into a conversation or one conversation has it, of the run it was said to, and then no
agent heard it yet (`OnItsWay`): a line let go of may still be there, so being told of is not
enough to say that it is not heard. Each of the steps that move a line keeps it by a lemma of its
own; those that move none, by one (`KeptAlike`). The queue is a sequence in which no line is twice,
of which a line is taken where `list.remove` finds it; a set of positions has a first because the
naturals are well-founded (`Lowest`). `HeardButStrays` is as much of `HeardOnce` (section 6) as is
true: a line is heard once at most, and again only where a write of it was refused and had landed.
`HeardByItsRun` is of strays as well, which are of the run that refused them (`Straying`).

**`Ordering`**: `Spec => []InOrder`, from `Ordered`. What waits being in order is not inductive, as
a line given may go back to the head of the queue: while it is given, what was said after it has
to wait. That it does is for a different reason for each who may take a line. A thread handing over
gives nothing to an agent that holds something; a turn starting is of a conversation that had none
open, and a question takes no line to a conversation with one open, while what is given to a
conversation is given to an open turn of it (`There`), which no step but its end closes, and that
takes away what was given. In the queue each takes the oldest of those it may take, and may take
both of two lines alike or neither (`Foremost`).

**`Counting`** (`DeadlinesProofs`): `Spec => []CancelsCounted`, for any depth of calls and any number
of turns, deadlines and stops, from `CountInv`. It needs `Handles`: a clock that went has no
handle left, or it would cancel the task a second time for the one cancel it takes back. The
steps then are of three kinds: those that leave every clock's `fired` as it was (`SameFired`: all
a task and its turns do), those by which one clock more has gone (`OneFired`), and a call left,
which takes its clock out of the count and its cancel with it (`LeaveCount`).

**`Masking`**: `Spec => StopNotMasked`. To it `BaseInv` adds `Baselines`: the cancels a clock found
asked for when it was made are at most the stops there had been and the clocks above it that have
gone by now. With `CancelsCounted` that leaves no room, in the count `_Clock.settle` compares with the
baseline, for a stop asked since (`SettledUnstopped`). A step leaves the baselines of the clocks
still there and what has gone above them (`Carried`, proved beside `CountInv`), or makes a call, whose
baseline is the count itself (`CalledBase`).

**`Cancellation`** and **`Surfacing`**: `Spec => []NoStrayCancel` and `Spec => DeadlineSurfaces`. That a
clock has gone while a cancel is on its way is not inductive: a flow may catch what it was raised
and raise it again long after. `Strays` says it of what flows were raised too: while nobody stopped
the run, each frame that was raised a cancel has a clock that went, of its call or of one above, so
the cancel is still owed wherever it is raised from. A call left with a clock that went takes that
clock away; `AloneSettles` is why that leaves no cancel behind: where no other clock went the count
falls to the stops there were, which the clock's baseline is no less than (`Floors`), and the cancel
becomes the call's deadline.

**`Sparing`**: `Spec => SparesTurns`, through `SpareInv`: each clock counts the turns under its call
(`Minded`: `inflight` is how many there are, whichever task they are of and however many calls they
outlived), and no turn it found as it expired can be under it a second time, as none opens under a
call past its deadline. A clock asked to go by the last turn counted out found none of them left,
and the turns that were still opening when it expired are not of those it found -- the docs' claim
of every turn, `SparesEveryTurn`, fails for these (section 6).

**`Once`** (`CallTreeProofs`): `Spec => []ClosedOnce`. `ClosesInv` says that a session was closed
once if its `Opened` says closed, and never if not: every way of letting go -- a call's cleanup,
the loop after views, the run's close -- looks at that mark and sets it in one step of the loop.

**`CalleesBefore`**, **`NothingLeft`**: `Spec => []CalleesFirst` and `[]NoneLeft`, for any tree of
calls ending in any order. `TreeInv` has what both need. `Treed`: a call is made under one that is
there, so the calls above it are a chain up to the run's. `Counts`: `live` of a call is itself, until
it has ended, and the calls made in it not counted out, a call being that once it has ended, its count
is 0 and no cascade is at it. `Cascades`: a cascade is at a call that has ended, with none left to
count, and no two are at one call. Then every call above one
that goes on waits for it -- the calls that do are closed under `parent`, and what is above a call is
the least such set, with no recursion to unfold -- while a cascade is at a call that waits for none.
And of calls over with no cascade under way, the one furthest down of those not counted out would
wait for nothing, so there is none.

**`RunLeavesNone`**: `Spec => []AllClosed`, whatever lets go of each session. `Kept`
says who will: a session opening is its driver's, and one open is in the `res` of the call that opened
it, which a cascade or the run's close is yet to take; or in what one of these has taken and not come
to; or its view went, and the loop is to close it or is doing so. `Closing` says, of each phase of
`Run.close`, which of these there are no more of, where nothing ran past its time; by the last
there are none. `Belated`: what
a call holds that was already cleaned up after was opened for it since. What a cascade or the close
takes is one sequence put together from many, of which the lemmas `Flattens` and `Forgetting` say what is in it.
**`Typing`** is beside these.

**`Implementation`** (`DeliveryProofs`): `Spec => Implements`, for any number of frontends, stuck
or not, any history and any ceiling a replay fits under. The
invariant (`Streams`) says of every frontend that what it was told and what is in its outbox is one
unbroken stream: the records from `told.seq` on, each the next of the last, up to
what has happened, unless it was let go; then its last word ends the stream wherever it was. To
keep it through `Welcome`, which puts the state after the history of one that is being attached,
`Welcoming` says where in `todo` a welcome may still be, and `Started` that a thread is on only
after it. Each of `Broadcast`, `Attach`, `Welcome` and `LetGo` preserves it by a lemma on what
appending, taking and clearing do to a stream. **`Typing`** is beside it.

**`Freshness`, `Exactness`** (`DeliveryProofs`): `Spec => []Current` and `Spec => []LiveIsExact`, from
`Streams` and a second invariant, `Standing`. A state that is not as it was last said is still among
what there is to do (`ToSay`), whatever letting a frontend go put before it; as it was last said is
the last that everybody was told or will be (`Said`), but for one still to be welcomed, who is the
only one that may be left out of saying so (`Owed`). Nothing happens before that welcome, so what it
says was left out is what was left out of the replay; and the word that one is live stands in its
outbox after all the records up to it (`Lives`).

**`Leading`, `Sharing`, `Losing`, `LettingGo`** (`DaemonProofs`): `Reachable`, `SameRuns`, `NoneLost`,
`LeftIsLetGo`, for any number of daemons, hosts and frontends, of kills, and of waits too short: none of
these rests on a wait being long enough. The invariant goes from the directory outwards. `Ruled`: who is
between taking the lock and leaving it is who holds it, and a daemon that listens has its own socket
at the path; both hold together only, for a socket is taken away by the holder of the lock, who
listens no more. `Placed` and `Alone`: the host a daemon holds is listed, and a host that has or
awaits frontends is the one its daemon holds, or its daemon has gone. `Worded`: the first thing down a
host's connection is the word, and nothing else is before it was taken on. `Seated`: a frontend's socket
is in one place, in a host's connection once or where it is being attached, so that reading it there
takes it out. `NoneLost` is of a step: a host that hears is one told, and what it takes is the
`Head` that `Worded` speaks of. **`Typing`** is beside them.

**`Arriving`** (`DaemonProofs`): `Cardinality(Frontend) < Attaches` gives `Spec => []Reaches`: with fewer
frontends than one may try, each gets to the runs, however many times it starts a daemon or a host
in a try. This one does rest on waits that suffice (`faults = 0`), and the invariant (`Calm`) has two halves.
What is so of processes nobody kills: whose the lock and the record are (`Written`), that a
host which was listed is the one of a daemon that serves, until it has hung up (`Keeping`), where a
frontend and its socket are, each to the other (`Answered`), and that somebody started whatever
daemon there is (`Raisers`). And `Accounts`, which puts each try that failed down to something: a
frontend that is done (`Done`: attached, or gone before it could be), but that a host with somebody
to lose may still go once (`Lived`), or the daemon there is now (`Coming`). A daemon that goes idle
does so with nobody near, so whoever started it is done, and takes its place in the sum
(`IdleKept`); a host that goes under a frontend on its way had somebody attached, and pays for the
try that fails by it, as does a daemon that comes (`Tipped`). Who has neither seen happen since it looked cannot
fail (`Good`: `GoodStays` for what others do, `GoodGoes` for its own steps). A frontend that gives up
would be one more than those done, so `Attaches` would be no more than all (`NotLast`). The
hypothesis cannot be spared: with two frontends and `Attaches = 2` TLC finds one that gives up. The code
tries three times (`_ATTACHES`), so this is for two frontends; whether three can make one of them fail was
not settled: that instance is too large for TLC.

**`CutsLand`, `OwnCuts`, `WedgesFail`** (`TurnProofs`): `NoLostCut`, `CutIsIts`, `WedgedFails`, from
one invariant, for any number of turns, tries, rounds and watchdogs, however many are held up.
`NoneLost` (of `TurnProofs`) extends the first to the moment before the prompt is said; `Raised` says that nothing
is raised for a turn to come, which is what lets the number of a turn tell a stale reason from a
live one; `Marked`, that a turn is marked as wedged before its watchdog can ask.

**`Agreeably`, `Implementation`** (`RendezvousProofs`): `Spec => []Agreement` and `Spec =>
Introduces`, for any limits and connections. The argument goes from the broker outwards: what the
book and each thread say of a meeting (`Books`, `Clocks`); a half was told what was decided, once
(`Told`), and a meeting is joined directly only on both verdicts (`Votes`); what the halves hold was
said OK on, of which there is one (`Grip`). So two halves
that are direct are of one meeting, and hold the ends of one connection (`Joint`).

**`Patiently`**: `Spec => []NoneEarly`, for any waits of which the punch is the shorter. `InStep`: both
halves of a meeting begin to be read at once. `Waited`: who has given a half up waited `Answering` for
its answer and `Answering` again for it to be told, which together are more than the `Punching`
and `Answering` that may go by before that half's thread has told it or given up on it.

Only model-checked: liveness (`DeadlineComes`, `RunCloses`, `Noticed`, `Heeded`, `TurnEnds`,
`NoneKept`), which the prover does not reach.

## 6. Where the code and what is said of it differ

Two are runs that TLC finds violated; `PROJECT.json` quotes the lines.

- `turn_stopped`: a stop wakes a turn waiting to try again, and is said to end it, but only a
  cut-off is looked for there: the turn goes on to start a process and say its prompt.
- `delivery_claim`: a claim is made with a frontend looked up under a lock let go of since; one that
  was let go of in between holds the role for good.

Seven more properties are stated in the modules and not run, as the code does not keep them. Each
can be seen by a configuration of the constants given (the others as in the run of that module):

- `StateKept` (`Journal`: `Call = {c1}`, `MaxId = 2`, `MaxRun = 1`): a state write the operating
  system refuses returns as if it were kept. The code says it prefers this to stopping the run.
- `SparesEveryTurn` (`Deadlines`: `Side = {t1, t2}`, `MaxDepth = 1`, `MaxCall = 1`, `MaxStop = 0`):
  `_Clock._fire` does not look again whether a turn is in flight, and a turn let begin before the
  deadline, its session still opening, is cut by a graceful one.
- `ClosedWithCall` (`CallTree`: `Call = {c1, c2}`): a call ends while a driver opens its session:
  the session is held by a call already cleaned up after, and stays open until its view or the run goes.
- `IntoOpenTurn` (`Hosting`, as `hosting_lines` with `Line = {l1}`, `To = {AtLarge}`, `MaxRun = 1`):
  a line is picked for an open turn under the lock and written without it, when the turn may be
  over. Drivers of some CLIs refuse a word with no turn open; those that take it answer it outside
  the flow.
- `HeardOnce` (the same): a line whose write raises is put back, "the agent never having taken it"
  (`_unreached`; "Either way it never went", `hosting.py:1771`), but Kimi's `interject` raises also
  when the prompt was accepted and only steering it failed (`kimi.py:995-1008`): the agent has the
  line as a turn of its own, and is given it again.
- `UnheldByItsTurn` (as `IntoOpenTurn` with `MaxSession = 2`): a turn's end tells every line given to its
  *agent* as unheld, also one in another conversation of that agent whose turn is open.
- `IdleIsOver` (`Hosting`, as `hosting_lines` with no line): `_stopping` has room for one run. A
  second one stopped takes its place, and when that has ended the host is idle with the first still
  unwinding.

## 7. What is not modelled

Section 2 and `components` name every part. Left out for good: parsing and display (command line,
terminal, web pages, desktop), conversions of data (traces, exports, models, prices), calls of
other programs and the kernel (containers, ssh, slurm, ptrace, Landlock), the protocols of the
single CLIs. Within the modelled parts, section 3 says of each what it leaves out. Left out for now, and in the
plan: what is below.

## 8. Plan

In order of how much the system rests on each.

1. *Budgets*: `Call.limits`, `_Sink`, the allowance: turns of several tasks under nested caps, and
   how far over a cap may be run.
2. *Side questions* (`_Asks`): each answer heard once.
3. *Locks*: lending of accounts, settings, mirrors; epics held and asked about.
4. *Turns, the rest*: stand-ins, words said in mid-turn and the answers they add, driver limits in
   `harnesses.py`.
5. *Sessions*: forks, busy sessions, fallbacks of a turn.
6. *Composition* of `Daemon` with `Delivery`: a link lost, and the frontend that comes back to a
   host that has forgotten it.

Proofs, after each model. Of what is modelled, one bound is open: whether three frontends, as many as
one of them may try to attach, can make it give up (`Arriving` is for fewer).
