# Codex Dashboard in TLA+

Specifications, model-checking configurations and proofs for the two programs of
this repository:

* **`codex_dashboard`** (`src/codex_dashboard/`), the local dashboard: it tails the
  JSONL logs Codex writes, turns every line into an event, projects the events onto
  one row per session, starts and signals managed `codex exec` processes, and serves
  the result over HTTP with a revision stream;
* **`codex_control_center`** (`src/src/codex_control_center/`), the asynchronous
  multi-host version: it tails local and remote logs over SSH, raises alerts, starts
  remote app servers, and streams updates to browsers.

The logs are untrusted in one respect only: nobody decides when and in which order
their lines are seen. Everything the dashboard shows (RUNNING, BLOCKED, COMPLETED, an
alert) is a judgement made from lines that several threads read, twice, late, or
again after a crash. That, and what becomes of it on the way to a browser, is what is
modelled.

## 1. Inventory

### 1.1 codex_dashboard

| Part | State | Operations | Interacts with |
|---|---|---|---|
| Projection engine, `engine.py` | none of its own: the row of a session, its alerts, commands, test runs | `ingest` (one handler per kind of event), `reconcile` (silence), `managed_process_started/exited` | called by the collector's loop, by HTTP threads and by the readers of processes; every read and write is a transaction of the database |
| Database, `db.py` | tables sessions, events, commands, test_runs, alerts, offsets, plans, files, tools, audit, meta | one method, one transaction | shared by all threads |
| Collector, `collector.py` | offset rows, the loop thread | `scan_once`: paths, state database, `scan_file` on each file, git, `reconcile` | the loop and the HTTP action `scan` run it at the same time |
| Process manager, `process_manager.py` | `ManagedProcess` objects, one reader thread each | start, resume, pause, continue, cancel, mark_complete, the reader's ingestion and exit | engine, database, signals |
| Service, notifier, server, `service.py`, `server.py` | revision counter and condition, settings | actions, settings, SSE stream | all of the above |
| Page, `static/app.js` | what it shows, a refresh timer, a stream | on every message: restart the timer; when it has run out: fetch and show | the SSE stream and the routes of the server |
| Parser, `parser.py` | none | record to event, source ids | collector, reader |
| Configuration, git inspector, utilities, command line | none that other parts change | | |

What makes each part correct:

* engine: the row's parts agree with each other (a waiting status with its alert, an
  alert with its command, the headline with the alerts); completion needs evidence
  and is kept; silence is noticed; what is shown is what a replay of the events
  yields;
* collector: no line is passed over, whatever the file does and however scans end;
  offset and unfinished line belong together; reading again is harmless;
* process manager: one outcome per process, the right one whatever the user does
  while it ends; no process without an owner;
* notifier, server and page: a page that is behind is told, fetches, and shows the
  data in the end;
* database: each method is atomic, and nothing depends on two being so.

### 1.2 codex_control_center

| Part | State | Operations | Interacts with |
|---|---|---|---|
| Event bus, `api.py` 19-45 | one bounded queue per browser | publish (on overflow: drop one, put a resync notice), stream | all that change something publish |
| Collector, `collector.py` | cursors, one lock per host | local and remote sync, `project_event`, git probe, attention | one asyncio loop; SSH commands are awaits |
| App server control, `collector.py` 313-345 | remote pid file, `managed_app_server_pid` | start, stop, delete host | no lock |
| Database, `db.py` | hosts, cursors, events, sessions, alerts, settings | one method, one transaction | |
| Models, security, configuration | none | validation, redaction, quoting | |

Correctness: a page that is behind has a message or a notice queued, or a fetch under
way; no line is passed over, and none is stored without being projected but for
crashes; a cursor never goes back; a host's health follows the host; one host that
fails does not hold up the others; the app servers that run on a host are the one its row
names; a session that waits has an open alert.

### 1.3 What is hard here

The list, line by line, is `hazards` in `PROJECT.json`. In groups:

* **atomicity**: every call of the engine is a sequence of transactions, run by up to
  three kinds of threads with no lock around them;
* **double ingestion**: a managed run's log is read by its reader and by the
  collector, under different source ids;
* **crashes**: the event is stored before it is projected, the offset after the lines
  it covers;
* **files that change while they are read**: growth, partial lines, truncation,
  replacement, and files too large to be read whole;
* **legal but unusual orders of events**: output after the end of a command, answers
  without questions, evidence after BLOCKED, an exit after a completion;
* **lost wakeups and lost messages**: a change between taking a cursor and waiting, a
  queue that overflows, answers that cross, streams that break;
* **commands over a network**: an SSH command may be late, fail, or have been carried
  out although its request has given up, and requests for one host overlap;
* **boundaries**: 1, 2, 3 failures of a test; a full queue; reads cut anywhere in a
  line; limits of listings.

## 2. Modules

```
SessionState            the row of a session and the handlers, as functions
  |        \
Projection  IngestThreads ----refines (calls that do not overlap)----> Projection
  |              |
MCProjection   MCIngestThreads
  |
Projection_proofs       invariants for every value of the constants

RolloutTail             scan_file on one file
  |        \
MCRolloutTail   RolloutTail_proofs

ManagedProcess          one process, its reader, and the calls that signal it
  |        \
MCManagedProcess   ManagedProcess_proofs

Service                 notifier, stream threads and pages of the dashboard
  |
Service_proofs

EventBus                queues, streams and pages of the control center
  |        \
HostSync    EventBus_proofs     the bus, for any pages, writers and capacity
  |             |
AppServer       |
  |             |
ControlCenter --+---> ControlCenter_proofs   the collector, the rows, the types,
  |        \            |                    and that the whole refines the bus
MCControlCenter \----> AppServer_proofs
```

A `_proofs` module extends the module it is about; an `MC` module gives constants that a
configuration file cannot write down.

**`SessionState`** keeps of a session what a handler reads to decide something or
shows as a judgement: status, alerts (by key `<<cause, call>>`, as the code's
`alert_key` strings are `cause` or `cause:call`), `attention_reason`, the commands'
state, the run of failed tests, and two ages. Titles, texts, plans, files, tokens and
phases are left out. Its operators are the transactions of `db.py` (`Upsert`,
`ResolveAll`, `UpsertCommand`, ...) and the handlers of `engine.py` (`Project...`,
`ReconcileSession`, `JudgeCommands`, `ProcessExited`). Time is relative: `age` is now
minus `last_event_at`. A line read late or again carries an old time, so an event has
any `lag`. One session is enough: all statements are keyed by the session id.
Recognising tests and failures in output is a choice among outcomes. Where the code
takes the first of several open alerts of one rank, the model takes any fixed one.
The thresholds are constants although `update_settings` can change them. A session has
at most `FindLimit` commands: `_find_command` looks at the newest 500 only, and late output
of an older command would start it again. The run of failed tests is kept in the order
of ingestion; the code orders test runs by their timestamps, which is the same for a log
that is ingested once and in order.

**`Projection`** is the engine with every call one step: `Ingest` (and with it
`mark_complete`, which ingests a `session.completed` event), `IngestDuplicate`,
`Reconcile`, `Acknowledge`, `ManagedProcessStarted`, `ManagedProcessExited`, `Tick`, and
what the process manager writes into the row without asking what it says: `Pause`,
`Continue`, and the binding of a process to the thread it turned out to run (`BindHere` on
the thread's row, `BindAway` on the row the process was started under). It is the abstract
specification: what the engine promises if calls do not overlap.

**`IngestThreads`** takes the calls apart. Each thread has a queue of operations of
its current call; a step is one transaction (`DoWrite`), or one read that puts the
writes it decides on in front (`DoAsk`), so what is decided from a read is written
later, as in the code. `TakeLine`, `BeginReconcile` and `BeginExit` begin calls.
`Threads` are the collector's loop, an HTTP thread in the action `scan`, and
optionally a process's `Reader`; reader and collector give the same line different
source ids (`SourceId`). `Crash` loses all calls under way and puts the collector
back to an offset it has saved. An exception that escapes a call ends it just there,
as a crash does for one thread. Pause, continue and binding are left out here; what they
do beside the reader is in `ManagedProcess`. The history variable `settled` is the row between
calls, on which the refinement is stated (and, in section 5.2, proved).

**`RolloutTail`** is `scan_file`: `Stat`, `Hash`, `Load`, `Consume`, `Save`, with `Fail`
anywhere, by any number of scanners, on a file that grows byte by byte (`Grow`) and is
rewritten in place or replaced (`Rewrite`). A line is two bytes, each marked with its
generation, so that a line glued together from two others is told from a real one. The
head hash covers the first `HashedBytes` bytes (4096 in the code) and no more, so a
rewrite may keep the head that was hashed (`file.head` is the generation the head goes
back to): two such files are `Alike`, and the code cannot tell them apart by it.

**`ManagedProcess`** is the life of one process. `Launch`, `LaunchFails`, `Register` and
`Started` are `start()`; `ReadLine`, the three steps of `_bind_real_thread`
(`BindReal`, `BindOld`, `BindOwner`, or `BindKnown` alone), `Ingest`, `Wait`,
`ReadFlags`, `ExitLook`, `ExitWrite` and `Unlist` are `_read_and_wait`, and
`ReaderError` is its `except`. Any number of HTTP threads run beside it: `Owned` or
`NotOwned`, then `Signal`, `SetPaused`, `WriteStatus` (pause and continue) or
`MarkCancelled`, `Terminate`, `WaitOrKill` (cancel), with `killpg` raising once the
process has been waited for; `CompleteLook` and `Complete` are mark_complete. The
variable `lock` is `managed.lock`: what the code does after releasing it (the status
writes) is a step of its own here. The process is running, stopped, a zombie or
reaped; it may write a line when the pipe has room, ignore SIGTERM, exit at any time
or never, and has no children of its own that keep its process group alive. Of the
rows only the status is kept, and of an event what it does to the status. The history
variable `loose` holds the rows whose status is not, or no longer, this run's to end. In
`BindReal` and in `BindOwner` two writes are one step: nothing else looks at the new row
between its creation and its update, and the ids of the process are read outside
`managed.lock` by the reader alone. A request
arrives in the same step as its look in `_processes`, since arriving changes nothing.
Windows, where there is no pause, is left out.

**`Service`** is how a page of the dashboard follows the data. Writers change the data
(`Write`) and then call the notifier (`Notify`), or fail to (`Raise`, `WriteSilently`:
`scan_once` reports a change only if a line was ingested, not for what `reconcile` does).
The thread of a stream is `_send_sse`: `Connect` takes the cursor, `Greet` sends the
first refresh, `Look`, `TimeOut` and `Resume` are `RevisionNotifier.wait` with the
condition's lock free in between, `Send` sends. The page restarts its timer with each
message (`Deliver`) and by what its user does (`Touch`), fetches when it has run out
(`Fire`), and shows answers in the order they arrive (`Arrive`). Streams break, fetches
fail, and the server restarts with its count at 0. A fetch makes two queries; what it
brings is as new as the older of them. A page reaches the server again by itself: the
browser reconnects, or `connectEvents` does after five failures.

**`EventBus`** is the control center's counterpart: a bounded queue for each stream. The
data is abstract, "as it is now" or not (`stale`); a writer changes it (`Change`) and
announces it later (`Announce`), at once (`ChangeAndAnnounce`), or announces something
else. `Send` gives the page a message, which makes it fetch; `ArriveFresh` and `ArriveOld`
are answers that arrive in order or not, and `FetchFails` is a fetch that brings none:
`fetchJSON` throws (app.js:10), nobody catches it and nobody tries again, so the page
waits for its next message (`excused`). The settings, which a page fetches once, are not
part of the data. It is the abstract specification that the
whole control center is shown to implement.

**`HostSync`** is the collector on its asyncio loop: a step lies between two awaits.
`Poll` reads this machine's rollout and starts the hosts' syncs, `EndPoll` awaits them all
and evaluates attention; a sync is `Listed`, `Fetched` and `Probed`, or `SyncFails`, and
runs for the loop or for a request under the host's lock. A source has one rollout that
grows byte by byte (`Grow`); a line is two bytes and of a kind that says what
`project_event` comes to: a request for approval, the end of one, an event that leaves the
interaction as it is (`note`), no event, one whose projection raises after its insertion,
one whose insertion raises (a lone surrogate in a text, for one). `Taken` is `_consume`:
the lines between two offsets, up to the first that raises, and the cursor, which moves
only if none does. `Crash` may leave some of a step's transactions committed (`Torn`).

**`AppServer`** adds the requests: hosts added, updated, synced, deleted, alerts resolved,
and those that send a command to a host (`Call`, `Command`, `Launch`, `Return`, `CallFails`),
with the pid file and the processes there. The start command tests and launches in two
steps. The stop command sends SIGTERM, removes the pid file and neither waits nor
insists: the server has been `told` to end, which it does later or never. A request's
command may have been carried out although the request failed.

**`ControlCenter`** composes the three, with the server's crash, the network, and the
pages, and states the properties that need more than one of them.

### Not modelled

* dashboard: sessions of more than 500 commands; pause, continue and binding between the
  transactions of an ingestion (they are whole steps in `Projection`, and taken apart in
  `ManagedProcess`); queued instructions and a second process on the same thread; a
  restart with a managed process still running (no step of the code settles it); discovery
  through the state database; settings (`update_settings` persists only the fields of its
  request, and the page always sends all of them); demo data and `delete_all`;
  authorisation; what the routes return; a `scan_once` that raises and so skips
  `on_change` is `Raise` in `Service`;
* page: an `EventSource` that gets an answer other than 200 does not retry until
  `connectEvents` does; the thread of a broken stream lives until its next write;
* control center: `/api/attention`, a synchronous route that FastAPI runs in a worker
  thread (`api.py` 177-180), beside the event loop: an evaluation is one step, as is a
  fetch; settings, which are not fetched again although their change is announced; what
  becomes of an app server that ignores SIGTERM; rollouts that are rewritten (one of the
  same length or longer is read on from the old offset, and lines at offsets seen before
  are dropped as duplicates: lines are lost), several rollouts per host, a partial line
  longer than the million bytes the cursor keeps, what the git probe finds, reuse of a pid
  (named in `src/docs/RELEASE_0.2.0.md`), session actions (which only write to the audit
  log), redaction, validation and quoting (functions of their inputs);
* the release bootstrap and the workflows, which are not part of the running program.

## 3. Runs

| Run | Instance | Question |
|---|---|---|
| `projection` | one call id, thresholds 1, ages 0..1, three events, two of them after its process is gone | is the row consistent after any calls in any order; is completion evidence; is silence noticed |
| `threads` | collector and reader, four logs of two lines ending in completion, one tick, one crash | are lines passed over; is the completion shown in the end |
| `threads_serial` | collector and reader, calls not overlapping, two-line logs covering all events | do the transactions add up to `Projection` |
| `tail` | two scanners, a file of up to 7 bytes (3 lines and a part), one rewrite in place or as a new file, with its old head or another | offset, partial line and ids under two scanners, growth, rewriting and failures |
| `managed` | fresh or resuming launch, two callers, two calls, two lines, a pipe of one line | do cancel, pause, binding and exit agree whatever comes between their steps; which rows may a run leave RUNNING or PAUSED; does a cancel end the process, is every end recorded |
| `control_center` | two hosts and this machine, one page with a queue of 2, one operator, three sets of rollouts, two moves of the operators, the network and Codex or crashes | lines, cursors, health, alerts, app servers and the page, with everything beside everything |
| `service` | one page, two writers, two changes, two notifications, two faults | does a page hear of every change, and show it in the end |
| `blocked`, `race`, `crash`, `revived`, `managed_paused` | see section 6 | a sentence of the documentation, refuted |

Why the bounds are enough. *One call id*: handlers touch only the alerts of the event's
own call; the proofs (section 5) hold for any set of calls that `_find_command` sees whole
(`FindLimit`, 500 in every run as in the code). *Thresholds and ages 0..1*: handlers
compare an age with a threshold and nothing else, so below and at or above are the two
cases. *Three events*: the longest pattern in the code is the run of three failing tests;
polls, ticks, duplicates, acknowledgements, and the process's start, pauses, binding and
exit are not bounded. `Bounded` in `MCProjection` stops exploring after the third event of
a session whose process is gone: all three come in any order to a session that has had no
process, or has one. *Two lines*: a race needs one line being projected while the next is;
the first line of each log of `threads` raises or sets what the second has to undo.
*Sizes*: `HashedBytes` 3, `HeadBytes` 2, `TailBytes` 3 and `MaxRead` 3 make a file of 6
bytes large, with one line in its head, one in its tail and one in neither; make an
incremental read stop within a line; let the hash change while the first two lines are
being written; and let a rewrite keep the bytes the hash covers and change the rest. 7
bytes are past all of these. `Bounded` in `MCRolloutTail`: after the rewriting the file
has at most 6 bytes and one scan at a time runs; what two scans do to each other is
explored before it. *Two calls, two lines*: two calls are enough for each pair of pause,
continue, cancel and complete to overlap; the first line can bind the process and the
second be read under the new session, and with a pipe of one line the process blocks while
the reader is elsewhere (or has failed). The lines are one of each treatment: naming the
thread, naming none, and no JSON.

*`control_center`*: `MaxRead` 4 is two lines, so a rollout of three needs two reads and
one that is growing is cut within a line. Two hosts are enough for one to be in the
other's way (its lines cannot be inserted, or it does not answer); a queue of 2 overflows
and can overflow again while a resync notice is in it. The three sets of rollouts: a
demand that comes and goes on one host beside a line that cannot be inserted on the
other; a projection that raises; and a line of this machine that cannot be inserted.
`MaxMoves` 2 allows two of: a request, the network going or coming, a byte written, a
crash, a stream breaking. They need each other in pairs: an app server is started while
the host's health changes, a crash follows a failed projection, a host goes and comes
back. `Bounded` in `MCControlCenter` gives requests with commands, growth and the second
host to the first set of rollouts and the page to the other two; that the page is served
beside all the rest follows from the refinement, which is proved. *`service`*: two
notifications are enough for one to come while the first is being sent, fetched or
shown; two faults for a stream to break again after a failed fetch, or a restart between.
Pages do not touch each other: the proofs hold for any number of them.

Actions that fire only in one of the runs: `BeginExit` in `threads` and
`threads_serial`, `Crash` of `IngestThreads` in `threads`.

**Fairness.** `OverdueIsNoticed` needs weak fairness of `Reconcile`, because
`Collector._loop` (collector.py:52-60) runs `scan_once` again and again, catches its
exceptions, and `scan_once` ends in `reconcile`. A scan that raises for ever before
it gets to `reconcile` is excluded by that assumption. `CancelEnds` and
`ExitIsRecorded` need weak fairness of the reader and of every call that has begun: they
are threads that the operating system runs, each blocks only where a step is disabled
(reading, waiting, the lock), and `wait(timeout=5)` returns. The lock is not fair, but
only as many calls can pass in front of the reader as are under way, so with bounded
calls weak fairness is enough.

In `control_center`: the syncs of each host go on, since an SSH command has a timeout
(collector.py `_ssh`) and lines are consumed without awaiting; so does the loop, which
catches what a poll raises and waits for a bounded time; a page's messages are sent and
its requests answered. Operators, the network, Codex, and the commands of requests are
not fair. In `service`: the browser connects again, the threads of streams run, messages
and answers arrive, and the refresh timer runs out. The last is an assumption: every
message restarts the timer (app.js:211), so changes that come faster than every 180 ms
for ever would keep a page from fetching for ever; with a bounded number of notifications
they stop coming. Timeouts of `wait`, writers and users are not fair, so the liveness
shown does not rest on the 15 s timeout. Nothing else is fair: Codex, the user and
processes may stop.

**Deadlock** is checked except in `managed`, `managed_paused` and `control_center`. In the
first two the system may really stop, its calls made and the process waiting for ever
for room in a pipe that a failed reader no longer empties. In `control_center` a state
outside `Bounded` is not explored further; the polling loop itself never stops.

**Serial calls.** `Serial = TRUE` keeps only behaviours whose calls do not overlap.
It is not a property of the code; it is the hypothesis under which the code
implements `Projection`, and `race` and `revived` show that it is needed.

Each property has a mutant in `PROJECT.json`: a definition changed as a plausible bug
would change it, for which the run fails. The mutated forms stand in the modules,
before the definitions they stand for.

## 4. What the runs show

* With calls one at a time, the engine keeps its row consistent: a waiting status has
  its alert, alerts about commands and tests agree with the commands and tests, the
  headline names no closed alert. Completion comes only from its event, and is taken
  back only by the exit of the process, by the operator's pause or continue, and by a
  process that is bound to the session or taken from it, all of which write the status
  whatever it was. Silence is noticed by polling, although lines read
  again turn the session's clock back.
* Taken apart into transactions, no crash makes the collector pass over a line, and
  when a managed run's log ends in completion, the second projection of that line
  repairs what a poll or the other thread did between the steps of the first. So the
  double ingestion, which breaks other things (`revived`), protects completion.
* Two scanners may save offsets over each other in any order: the row stays a pair and
  at worst lines are read again under the ids they have.
* A rewrite is noticed but for two cases. It may fall between `stat` and the head hash of
  the same scan: then a *large* file's old size is saved beside the new file's hash. Or it
  may keep the inode and the first 4096 bytes, in a file no shorter than the saved offset.
  In both the code resumes, the new file's lines below the offset are never read, and the
  old file's unfinished line is put before what is read. `OffsetIsCovered` and
  `PartialFitsOffset` leave such rows out (`Resumes`: neither `torn` nor `Alike`), and both
  fail without these exclusions; they hold for everything else.
* A cancel whose SIGTERM reached the process before it was waited for is what the exit
  records, though the process was ending, and a cancel brings down a process that is
  stopped, blocked on its pipe or deaf to SIGTERM. The flag `paused` is true of the
  process for whoever holds the lock. The end of every process is recorded and the
  process forgotten, unless recording itself raises. By then the run has left no row
  RUNNING or PAUSED (`NoRowLeftRunning`) but in three cases: the thread of a resumed run
  that no binding has reached, whose lines are ingested under the thread's row while the
  exit goes to the run's own; the row of a binding that failed half way; and a row that a
  pause or continue wrote after the last word on it (`managed_paused`).
* Control center: no line is passed over and no cursor goes back, although reads end
  within lines, raise, fail and die between the transactions of a line; each crash costs
  at most one projection, and a projection that raises costs its own. Every source that
  answers is read to its end, or to the line that cannot be inserted, whatever becomes of
  the other *hosts*. A host's status ends up being the truth, and the health update of a
  sync does not lose the pid that a start recorded. A demand that lasts is raised again
  after the operator closed its alert, which is what the code means to do; alerts are
  never closed by the code, and a host that is deleted keeps its own.
* The app servers that run, and were not sent a stop, are the ones the rows name (one
  that ignores SIGTERM runs on with no row naming it), unless requests for one host
  overlap, or one fails after its command was carried out, or dies with the server
  (`disturbed`). In those cases a server may be left running that no row names; a deletion
  goes on although its stop has failed.
* A page of the control center with an open stream is not forgotten, whatever its queue
  loses, with three exceptions (`excused`): it was stale when it connected (it does not
  fetch on connecting), two answers crossed, or its fetch failed (it does not try again).
  Such a page stays stale until its next message; the next change of the data ends the
  exception, and its announcement reaches the page. What is not published at all is not
  covered: a host coming back online, settings (announced, but never fetched again), what
  a git probe finds, app servers started or stopped, and alerts raised by an evaluation.
* A page of the dashboard is told of each announced change, whatever moment it connected
  at, and shows it in the end, unless the fetch for it failed or an older answer came
  later. What `reconcile` alone changes (BLOCKED, hung commands) is not announced: pages
  see it with the next change.

Where the assumptions of the liveness properties stand for something the code does: a
line of *this machine's* rollouts that cannot be inserted makes every poll raise before
the hosts' syncs begin, so `Collected` requires that there is none
(`~Poisoned(Local)`): one such line stops the collection of all hosts, and attention, for
good, although "Each SSH host is a separate trust, identity, cursor, and failure domain"
(`src/docs/SSH_REMOTE_SECURITY.md`) is true of the hosts among themselves.

## 5. Proofs

### 5.1 The engine

`Projection_proofs` proves about `Projection`, for all sets of calls, thresholds and
bounds:

* `TypeCorrect`, `WaitingExplained`, `CallAlertsMatch`, `TestAlertsMatch`,
  `AttentionCurrent`: each a state invariant the run `projection` checks, under the
  same name as there;
* `CompletionIsEvidence` and `CompletionIsKept`: the two action properties.

Assumptions: those of the modules (`ThresholdAssumption`, `NamesAssumption`,
`CallsAssumption`, `NoAlertAssumption`, `MaxEventsAssumption`, `AcknowledgedAssumption`),
which TLC evaluates in every run.

The argument. The inductive invariant is

    IInv == TypeOK /\ Coherent(session) /\ Current(session)

where `Coherent` joins the row's type with what relates it to its alerts (`Explained`,
`CallsMatch`, `TestsMatch`) and `Current` is about the headline. The strengthening is needed
because the properties are not inductive one by one: that a poll leaves the headline
current depends on the headline it found and on the type of the row, and a streak of
failures says nothing of the alerts unless both directions of `TestsMatch` are kept.
It is kept in two parts because handlers differ: every transaction keeps `Coherent`,
while in the middle of a handler the headline may be anything and only the last
transaction (`_refresh_attention`, or an upsert or resolve) makes it `Current` again. So
`Ingest` needs `Coherent` of every handler and `Current` of the final refresh only, and
`Reconcile`, which does not refresh, needs `Current` of each of its steps.

`Ingest` dispatches to some twenty handlers, most of them compositions of the same
transactions, so the proof goes bottom-up: first a lemma per transaction saying which
fields it changes (`UpsertFields`, `ResolveFields`, `CommandFields`, ...), then what each
keeps, then one lemma per handler, then one step per action (`NextKeepsInv`).

The action properties do not follow from a state invariant. They are proved from a
relation between rows, `Honest(s, r)`: r does not leave a sticky status s has, and has none
that s has not. It is transitive and every transaction but a few has it, so a handler is
honest if its parts are; left over are exactly `session.completed` and the steps that
`EvidenceKeepsCompletion` names: the exit of the process, pause, continue and binding.

### 5.2 The threads that ingest

`IngestThreads_proofs` is about calls taken apart into transactions.

`ThreadsAreSound` and `NoLinesSkipped` hold for any logs, threads, calls, ticks and crashes.
The invariant `ThreadsInv` types the queue of each call: it is either `Entering` its line
(what is left begins with `ensure_session`, or with the insertion of the very id of that
line) or a sequence of `PlainOps`, the operations the code has after the insertion; and
what a thread has taken up is stored, but for the line it is entering (`LinesStored`). So
an offset saved after the call covers only stored lines, and a crash, which resumes at
or before it, cannot step over one. A lemma per kind of step (`PlainStep`, `BegunStep`,
`EnsuredStep`) says what the step does to the queue; `DecidedOpsArePlain` and
`HandlerOpsArePlain` go through the questions and the handlers.

`CompletionRestored` and `DemandsWithdrawn` have the hypothesis `OneCollector(c)`: one
thread scans, alone or beside the reader of a managed process. It is needed: two scans that
share their source ids may leave the completion projected before the line it follows
(run `race`). The invariant `CompletionInv(c)` follows the last line's call place by
place. As the reader is never behind (`ReaderIsAhead`), when the collector has taken up the
completion the reader has too, and can only write COMPLETED or withdraw alerts
(`ReaderAtEnd`); the collector's own ids are new to it (`StoredInOrder`), so its
completion is projected, not dropped; and once it has written COMPLETED every open alert
is tolerated or in the hand of its queue (`AfterEnd`), where a poll finds the session
terminal and only raises hung commands. `OperationalOps` is about the loop over the
alerts that were open at the read: it names each of them once.

`SerialCallsImplementEngine` is the refinement: calls that do not overlap implement
`Projection`, every handler of `engine.py` taken apart into the transactions of `db.py`
being one of its steps. Its hypotheses are those of the run `threads_serial`, `Serial`
and no crash (`MaxCrashes` 0), and that there are finitely many lines, so that the abstract
bound on events is a number. Any threads, with or without a reader, any logs, calls,
thresholds and ticks. The argument has four parts.

* An instance has its own copies of the operators of `SessionState`; `SameTransactions`,
  `SameHandlers` and `SameSteps` show them equal to the originals.
* `Leads(q, s, r)`: a queue of operations q, begun on row s and left alone, ends in row r.
  Recursion on q would need induction, so it is stated as the existence of a set of places
  (queue and row) that is closed under the next operation and has r where nothing is
  left. `Does(w, s, u)` says that operations w, whatever comes after them, make u of s; it
  composes (`DoesBoth`, `DoesTwo`, `DoesThree`), and `DoesRun` covers a loop.
* One lemma per handler: `DoesHandler` says that `HandlerOps` does what `Project` says,
  `DoesReconcile` that a poll ends in one of the rows of `Reconciled`, `ExitLeads` and
  `StartedLeads` the same of a process. The loops need most: `DoesOperational` and
  `DoesVerdicts` follow the row through the alerts and commands one by one (`ResolveTwice`,
  `JudgeOne`), in whatever order they come.
* `SerialInv` follows the one call under way: it has its event still to insert and the row is
  what it was but for the time of its last event (`Called`, `EnteredWith`), or its queue
  leads to an `Outcome` of a step of `Projection` on the settled row (`Decided`). A step
  that leaves the call unfinished is a stutter; the one that finishes it, or drops a
  duplicate, is the abstract step.

### 5.3 The event bus, and the control center as its refinement

`EventBus_proofs` proves, for any pages, writers and capacity (at least 1), that the bus
keeps its types and the bound of its queues (`BusTypeCorrect`), that no page is forgotten
(`PagesAreServed`) and that a loss is marked until the page is told (`LossesAreMarked`).
The invariant is the conjunction of the three: a full queue is not empty because the
capacity is positive, and what is in a queue after an overflow ends in the notice. A fetch
that fails leaves a stale page excused, and `Change` takes every excuse back, so it is the
announcement still owed that the page then has to come. Two lemmas say what putting a
message into a queue and taking one out does; the rest goes action by action.

`ControlCenter_proofs` proves `ImplementsBus`: `ControlCenter!Spec => BusSpec`, for every
constant. There is one lemma per group of actions, each saying that it is a step of
`BusNext` or leaves the bus alone. The mapping is the identity on the bus's variables, which
the control center shares. `ControlCenterServesPages` and `ControlCenterMarksLosses`
are then the bus's theorems. They hold for any hosts and rollouts with pages beside them,
which the run splits up (section 3).

### 5.4 The collector of the control center

`ControlCenter_proofs` also proves `NothingIsPassedOver` and `CursorsAdvance` of the whole
control center, for any hosts, rollouts, and size of a read. Neither is inductive. The
invariant adds that a cursor without its partial line stands at the start of a line (a
multiple of a line's length) and within its rollout; that at most one task syncs a host
(`Exclusive`); and that a sync under way reads from where the cursor *still is* (`Reads`),
which is what the lock is for. `TailIsShort` is the arithmetic of a read that ends within
a line, `StoreFits` what consuming does to a cursor and the lines behind it; a step of a
sync, of the loop, a crash, growth and a request follow.

`StoredAreProjected` bounds the number of stored events that no row shows by the number of
crashes. The invariant `RowsInv` adds that the set of them is finite: only a death between
the two transactions of a line enlarges it, by one element.

`ControlCenterTypeCorrect` collects the types from the invariants above and those of the bus
and the app servers; `WorldInv` has what is left.

### 5.5 App servers

`AppServer_proofs` proves `ServersAccountedFor`, for any hosts and operators. While a
request is under way the row and the processes differ, so the invariant follows each
request through its steps (`Answered`): between the test and the launch nothing runs,
between launch and record what runs is what the answer names, after a stop nothing. What
runs is here what runs and has not been sent a stop (`Kept`). It also needs that this is
what the pid file names, that at most one request is on an
undisturbed host, and that the host is present while one is.

### 5.6 The dashboard's pages

`Service_proofs` proves `ServiceTypeCorrect`, `NobodySleeps` and `UpdatesReachPages`, for
any pages, writers and bounds. Their conjunction is inductive: a sleeping thread's cursor
is the value, so whoever raises the value also wakes it; and a page that is behind
always has the next link of the chain from the value to what is shown.

### 5.7 One rollout file

`RolloutTail_proofs` proves `OffsetCovered`, `PartialFits` and `IncrementsIdempotent`, for
any number of scanners and any sizes of hash, head, tail and read, across rewrites. A scan
is five steps long and the file may change at each, so the invariant `TailInv` says what
every place of a scan knows of the file *there is now*: the row, the hash and the read may
be of an older generation. The row names the generation it is `of`; the first byte of the
hash names only the generation its head goes back to, which a rewrite may have kept. `Fit`
is the one condition that the saved row, a loaded row and a row about to be saved have in
common, keyed on that generation, so that it does not matter which scanner saves last. It
is void for a `torn` row: one whose hash was not taken of the file of its stat, or whose
scan went on from the row of an `Alike` file.

### 5.8 One managed process

`ManagedProcess_proofs` proves `CancelHonoured`, `PauseFlagTrue`, `NoRowRunning` and
`ManagedTypeCorrect`, for any number of HTTP threads. `ManagedInv` says who holds
`managed.lock` at each place of the code (`LockHeld`); that between a signal and its flag
only the holder knows better (`PauseIsKnown`); that the reader is past its wait only with
the process reaped, which no SIGTERM can reach, so that a cancel either precedes the
reader's look at the flag or does not count (`CancelIsKnown`); that one session owns
the process from registration until the reader is done (`OwnerIsKnown`); and which rows
may still be RUNNING or PAUSED at each place of the reader (`RowsAreKnown`): those that
are `loose`, and those the reader has still `ToEnd`. A call that has signalled and not
yet written its status is known to write to one of these, or to make the row loose.

### 5.9 Assumptions, and what is only model-checked

Assumptions: those the modules name, which TLC evaluates in every run that extends the
module: `ThresholdAssumption`, `CapacityAssumption`, `ContentsAssumption` (`MaxMoves` is a
number), `SizesAssumption` (sizes are numbers, `MaxSize` and `MaxRewrites` too),
`HoldersAssumption` (the reader's name is not a thread's), `LogsAssumption` (a log is a
non-empty sequence of events), `CallsAssumption` (a session has finitely many calls, at
most `FindLimit`), and so on. The code satisfies them: they are types, or what a bound of
the model is.

All safety invariants, all action properties and both refinements of the passing runs are
proved. Only model-checked: liveness (`OverdueIsNoticed`, `CancelEnds`, `ExitIsRecorded`,
`LinesArrive`, `HealthFollowsHost`, `PageCatchesUp`, `DemandIsRaised`, `PagesFollow`), which
is beyond the prover.

## 6. Where documentation and code part

Each is a run that ends in a counterexample, and a finding in `PROJECT.json`.

* `race`: "Every decision is deterministic and may be rebuilt from the events table"
  (engine.py:52). Two scans at once project neighbouring lines in either order: after a
  question and its answer the session may stay WAITING_INPUT.
* `crash`: a crash between `insert_event` and the projection makes the line a
  duplicate for ever; a completed task is never shown so.
* `revived`: the collector's own ingestion of a managed run's log, after the process
  has failed, makes the FAILED session RUNNING.
* `managed_paused`: pause writes its status after it has released the lock; the
  process may have ended, and its exit been recorded, before that. The session then
  stays PAUSED, and continue and cancel both refuse it.
* `blocked`: a BLOCKED session that speaks again loses its alert and stays BLOCKED.

## 7. Plan

What is left, in order of importance:

1. `HostSync` with rollouts that are rewritten and several per host, and with hosts of
   which one is deleted and added again under another id.
2. `ManagedProcess` with queued instructions and a second process on the same thread.
3. Settings across restarts, `delete_all` beside a scan, discovery through the state
   database.

Not planned: git inspection, redaction, validation and quoting (functions of their
inputs), rendering, the command lines, and the release bootstrap and workflows.
