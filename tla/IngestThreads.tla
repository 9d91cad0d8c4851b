--------------------------- MODULE IngestThreads ---------------------------
(***************************************************************************)
(* The projection engine as its threads run it.  A call of ingest,          *)
(* reconcile or managed_process_exited is not atomic: every method of db.py  *)
(* is a transaction, or a read, of its own, and what a handler decides from  *)
(* a read it writes in a later transaction.  Here each thread holds the      *)
(* operations its call has still to do; one step does one transaction, or    *)
(* reads the row and puts the writes it decides on in front of what is left. *)
(*                                                                         *)
(* Three kinds of thread read the same log of one session: the collector's  *)
(* loop, which also reconciles; the HTTP action "scan", which runs the same  *)
(* scan_once in a request thread; and the reader of a managed process,       *)
(* which numbers the lines its own way, so its source ids are not those of   *)
(* the collector's scan of the same file.                                    *)
(*                                                                         *)
(* The reader's session is the one its process was started on: a run that    *)
(* _bind_real_thread moves to another session is not modelled here.          *)
(*                                                                         *)
(* Clock ticks fall between calls: a call takes milliseconds, a tick is a    *)
(* threshold of minutes.                                                     *)
(***************************************************************************)
EXTENDS SessionState, Sequences, SequencesExt

CONSTANTS
    Logs,           \* the logs a behaviour may have: sequences of events
    Threads,        \* the threads that ingest
    Reader,         \* the thread that is a managed process's reader, if any
    Serial,         \* whether only behaviours whose calls do not overlap are kept
    MaxTicks,       \* bounds the ticks of the clock
    MaxCrashes      \* bounds the crashes of the dashboard

ASSUME LogsAssumption == \A lines \in Logs : lines \in Seq(Events) /\ lines # <<>>

VARIABLES
    log,        \* the lines of the session's log
    session,    \* the session's row, as the transactions leave it
    stored,     \* the source ids in table events
    taken,      \* how many lines each thread has taken up
    todo,       \* what each thread's current call still has to do
    exit,       \* how the managed process exited, "no", or "lost" by a crash
    ticks,
    crashes,
    settled     \* history: row, events and process when no call was under way

vars == <<log, session, stored, taken, todo, exit, ticks, crashes, settled>>

Idle(t) == todo[t] = <<>>
AllIdle == \A t \in Threads : Idle(t)

----------------------------------------------------------------------------
(* Operations.  A write is one transaction; an ask is one read that decides *)
(* which writes follow.                                                     *)

Ask(question) == [ask |-> question]
AskStatus(to) == [ask |-> "set-status", to |-> to]
Write(what, arg) == [write |-> what, arg |-> arg]
UpsertOp(k) == Write("upsert", k)
ResolveOp(k) == Write("resolve", k)
StatusOp(to) == Write("status", to)
CommandOp(c, to, lag) == [write |-> "command", arg |-> c, to |-> to, lag |-> lag]

\* What a write makes of the row.
Apply(op, s) ==
    CASE op.write = "upsert" -> Upsert(s, op.arg)
      [] op.write = "resolve" -> Resolve(s, op.arg)
      [] op.write = "status" -> [s EXCEPT !.status = op.arg]
      [] op.write = "attention" -> [s EXCEPT !.attention = op.arg]
      [] op.write = "command" -> UpsertCommand(s, op.arg, op.to, op.lag)
      [] op.write = "test" -> AddTestRun(s, op.arg)
      [] op.write \in {"ensure", "insert"} -> Seen(s, op.lag)
      [] op.write = "started" -> ProcessStarted(s)

\* Operations on the keys of a set, in the order of some index.
ForEach(Op(_), S) == [i \in 1..Cardinality(S) |-> Op(SetToSeq(S)[i])]

\* _update_test_alert, from the streak it reads.
TestAlertOps(streak) ==
    IF streak >= 3 THEN <<UpsertOp(Key("repeated-test-failure"))>>
    ELSE IF streak > 0
         THEN <<UpsertOp(Key("test-failure")), ResolveOp(Key("repeated-test-failure"))>>
         ELSE <<ResolveOp(Key("test-failure")), ResolveOp(Key("repeated-test-failure"))>>

\* reconcile's verdict on the row list_sessions returned.
VerdictOps(s) ==
    IF s.status \in TerminalStates \/ (s.age < Stale) THEN <<ResolveOp(Key("stale"))>>
    ELSE IF s.status = "RUNNING" THEN <<UpsertOp(Key("stale")), StatusOp("BLOCKED")>>
    ELSE IF s.status = "DISCOVERED" THEN <<UpsertOp(Key("stale"))>> ELSE <<>>

\* reconcile's verdict on each row running_commands returned.
CommandVerdicts(s) ==
    LET verdict(c) == IF s.quiet[c] >= Hung THEN UpsertOp(<<"command-hung", c>>)
                      ELSE ResolveOp(<<"command-hung", c>>)
    IN  ForEach(verdict, RunningCommands(s))

ExitOps(s, how) ==
    CASE how = "cancelled" -> <<StatusOp("CANCELLED")>>
      [] how = "success" ->
            <<StatusOp(IF s.status = "COMPLETED" THEN "COMPLETED" ELSE "IDLE")>>
      [] how = "failure" -> <<StatusOp("FAILED"), UpsertOp(Key("process-exit"))>>

\* The writes a thread decides on when it reads row s.
Decide(op, s) ==
    CASE op.ask = "set-status" ->
            IF s.status \in StickyStates /\ op.to \notin StickyStates
            THEN <<>> ELSE <<StatusOp(op.to)>>
      [] op.ask = "metadata" -> <<StatusOp(s.status)>>
      [] op.ask = "started" -> <<StatusOp(ProjectMetadata(s, "session.started").status)>>
      [] op.ask = "turn-completed" ->
            IF s.status \in TerminalStates THEN <<>> ELSE <<AskStatus("IDLE")>>
      [] op.ask = "user-message" ->
            IF s.status \in WaitingStates \cup {"BLOCKED", "IDLE", "DISCOVERED"}
            THEN <<StatusOp("RUNNING")>> ELSE <<>>
      [] op.ask = "command-good" ->
            IF s.status \in TerminalStates \cup WaitingStates THEN <<>>
            ELSE <<StatusOp("RUNNING")>>
      [] op.ask = "output" ->
            <<CommandOp(op.call, IF s.command[op.call] = "ABSENT" THEN "RUNNING"
                                 ELSE s.command[op.call], op.lag)>>
      [] op.ask = "tests" -> TestAlertOps(s.streak)
      [] op.ask = "operational" -> ForEach(ResolveOp, OperationalKeys(s))
      [] op.ask = "refresh" -> <<Write("attention", Top(s))>>
      [] op.ask = "verdict" -> VerdictOps(s)
      [] op.ask = "commands" -> CommandVerdicts(s)
      [] op.ask = "exit" -> ExitOps(s, op.how)

WaitingOps == <<ResolveOp(Key("input-required")), ResolveOp(Key("approval-required")),
                ResolveOp(Key("stale"))>>

\* Mutant of CommandCompletedOps: the hung alert outlives the command.
CommandCompletedOpsLeavingHung(e, lag) ==
    <<CommandOp(e.call, "ENDED", lag)>>
    \o (IF e.failed THEN <<UpsertOp(<<"command-failed", e.call>>)>>
        ELSE <<ResolveOp(<<"command-failed", e.call>>), Ask("command-good")>>)
    \o (IF e.test = "NONE" THEN <<>> ELSE <<Write("test", e.test), Ask("tests")>>)

CommandCompletedOps(e, lag) ==
    <<CommandOp(e.call, "ENDED", lag), ResolveOp(<<"command-hung", e.call>>)>>
    \o (IF e.failed THEN <<UpsertOp(<<"command-failed", e.call>>)>>
        ELSE <<ResolveOp(<<"command-failed", e.call>>), Ask("command-good")>>)
    \o (IF e.test = "NONE" THEN <<>> ELSE <<Write("test", e.test), Ask("tests")>>)

\* The operations of each kind's handler, in the order of the code.
HandlerOps(e, lag) ==
    CASE e.kind = "session.meta" -> <<Ask("metadata")>>
      [] e.kind = "session.started" -> <<Ask("started")>>
      [] e.kind = "turn.started" -> <<AskStatus("RUNNING")>> \o WaitingOps
      [] e.kind = "turn.completed" -> <<Ask("turn-completed")>>
      [] e.kind = "turn.failed" -> <<AskStatus("FAILED"), UpsertOp(Key("turn-failed"))>>
      [] e.kind = "session.completed" -> <<AskStatus("COMPLETED"), Ask("operational")>>
      [] e.kind = "message.user" -> <<Ask("user-message")>> \o WaitingOps
      [] e.kind = "input.required" ->
            <<AskStatus("WAITING_INPUT"), UpsertOp(Key("input-required"))>>
      [] e.kind = "approval.required" ->
            <<AskStatus("WAITING_APPROVAL"), UpsertOp(Key("approval-required"))>>
      [] e.kind = "command.started" ->
            <<CommandOp(e.call, "RUNNING", lag), AskStatus("RUNNING"),
              ResolveOp(<<"command-failed", e.call>>)>>
      [] e.kind = "command.output" ->
            <<[ask |-> "output", call |-> e.call, lag |-> lag],
              ResolveOp(<<"command-hung", e.call>>)>>
      [] e.kind = "command.completed" -> CommandCompletedOps(e, lag)
      [] e.kind = "tool.started" -> <<AskStatus("RUNNING")>>
      [] e.kind = "tool.completed" ->
            <<IF e.failed THEN UpsertOp(<<"tool-failed", e.call>>)
              ELSE ResolveOp(<<"tool-failed", e.call>>)>>
      [] e.kind = "error" -> <<UpsertOp(Key("runtime-error"))>>
      [] OTHER -> <<>>

\* Mutant of SourceId: the second ingestion of a line is a duplicate.
SharedSourceId(t, n) == <<"position", n>>

\* The source id: the reader hashes a count, the collector a byte position.
SourceId(t, n) == <<IF t = Reader THEN "count" ELSE "position", n>>

IngestOps(t, n, lag) ==
    <<[write |-> "ensure", lag |-> lag],
      [write |-> "insert", lag |-> lag, id |-> SourceId(t, n)]>>
    \o HandlerOps(log[n], lag) \o <<Ask("refresh")>>

ReconcileOps == <<Ask("verdict"), Ask("commands")>>

----------------------------------------------------------------------------
\* A managed run starts on a row of its own; what start() and
\* managed_process_started write there is the reader's first operation.
Init ==
    /\ log \in Logs
    /\ session = NewSession(0)
    /\ stored = {}
    /\ taken = [t \in Threads |-> 0]
    /\ todo = [t \in Threads |-> IF t = Reader THEN <<Write("started", 0)>> ELSE <<>>]
    /\ exit = "no"
    /\ ticks = 0 /\ crashes = 0
    /\ settled = [session |-> session, events |-> 0, process |-> "none"]

ProcessState(how) ==
    IF Reader \notin Threads THEN "none" ELSE IF how = "no" THEN "live" ELSE "exited"

\* settled follows the row whenever a step leaves every thread between calls.
Settle ==
    settled' = IF \A t \in Threads : todo'[t] = <<>>
               THEN [session |-> session', events |-> Cardinality(stored'),
                     process |-> ProcessState(exit')]
               ELSE settled

MayBegin(t) == IF Serial THEN AllIdle ELSE Idle(t)

\* A thread takes up the next line.  The reader writes each line to the log
\* before it ingests it, so no other thread is ahead of it.
TakeLine(t) ==
    /\ MayBegin(t) /\ taken[t] < Len(log)
    /\ t = Reader => exit = "no"
    /\ (Reader \in Threads /\ t # Reader) => taken[t] < taken[Reader]
    /\ \E lag \in 0..MaxAge :
          todo' = [todo EXCEPT ![t] = IngestOps(t, taken[t] + 1, lag)]
    /\ taken' = [taken EXCEPT ![t] = @ + 1]
    /\ UNCHANGED <<log, session, stored, exit, ticks, crashes>>
    /\ Settle

\* A scan ends with reconcile, whether or not lines were appended meanwhile.
BeginReconcile(t) ==
    /\ MayBegin(t) /\ t # Reader
    /\ todo' = [todo EXCEPT ![t] = ReconcileOps]
    /\ UNCHANGED <<log, session, stored, taken, exit, ticks, crashes>>
    /\ Settle

\* The process has ended and the reader has ingested all of its output.
BeginExit(how) ==
    /\ Reader \in Threads /\ MayBegin(Reader) /\ taken[Reader] = Len(log) /\ exit = "no"
    /\ exit' = how
    /\ todo' = [todo EXCEPT ![Reader] = <<[ask |-> "exit", how |-> how]>>]
    /\ UNCHANGED <<log, session, stored, taken, ticks, crashes>>
    /\ Settle

\* insert_event of a known source id: ingest returns False at once.
DropDuplicate(t) ==
    /\ "id" \in DOMAIN Head(todo[t]) /\ Head(todo[t]).id \in stored
    /\ todo' = [todo EXCEPT ![t] = <<>>]
    /\ UNCHANGED <<session, stored>>

DoWrite(t) ==
    /\ "write" \in DOMAIN Head(todo[t])
    /\ "id" \in DOMAIN Head(todo[t]) => Head(todo[t]).id \notin stored
    /\ session' = Apply(Head(todo[t]), session)
    /\ stored' = IF "id" \in DOMAIN Head(todo[t]) THEN stored \cup {Head(todo[t]).id}
                 ELSE stored
    /\ todo' = [todo EXCEPT ![t] = Tail(@)]

DoAsk(t) ==
    /\ "ask" \in DOMAIN Head(todo[t])
    /\ todo' = [todo EXCEPT ![t] = Decide(Head(@), session) \o Tail(@)]
    /\ UNCHANGED <<session, stored>>

\* One transaction, or one read, of the call a thread is in.
Step(t) ==
    /\ ~Idle(t)
    /\ DropDuplicate(t) \/ DoWrite(t) \/ DoAsk(t)
    /\ UNCHANGED <<log, taken, exit, ticks, crashes>>
    /\ Settle

Older(age) == IF age = MaxAge THEN MaxAge ELSE age + 1

Tick ==
    /\ AllIdle /\ ticks < MaxTicks
    /\ session' = [session EXCEPT !.age = Older(@),
                                  !.quiet = [c \in Calls |-> Older(@[c])]]
    /\ ticks' = ticks + 1
    /\ UNCHANGED <<log, stored, taken, todo, exit, crashes>>
    /\ Settle

\* Mutant of SavedOffset: the offset is saved before the line is ingested.
OffsetSavedFirst(t) == taken[t]

\* set_offset comes after the lines it counts have been ingested.
SavedOffset(t) == IF Idle(t) THEN taken[t] ELSE taken[t] - 1

\* The dashboard dies and is started again: the calls under way are gone, no
\* reader is attached to the process, and the collector resumes at the offset
\* it saved last, at or before the line it was in.
Crash ==
    /\ crashes < MaxCrashes
    /\ crashes' = crashes + 1
    /\ \E resumed \in [Threads -> 0..Len(log)] :
          /\ \A t \in Threads : IF t = Reader THEN resumed[t] = taken[t] ELSE
                resumed[t] <= SavedOffset(t)
          /\ taken' = resumed
    /\ exit' = IF exit = "no" THEN "lost" ELSE exit
    /\ todo' = [t \in Threads |-> <<>>]
    /\ UNCHANGED <<log, session, stored, ticks>>
    /\ Settle

Next ==
    \/ \E t \in Threads : TakeLine(t) \/ BeginReconcile(t) \/ Step(t)
    \/ \E how \in {"cancelled", "success", "failure"} : BeginExit(how)
    \/ Tick
    \/ Crash

Spec == Init /\ [][Next]_vars

----------------------------------------------------------------------------
\* Every line a thread has done with is in table events: neither a crash nor
\* the other thread makes the collector pass over one.
NoLineSkipped ==
    \A t \in Threads, n \in 1..Len(log) :
        (t # Reader /\ n <= taken[t] /\ Idle(t)) => SourceId(t, n) \in stored

\* All threads have ingested the whole log and are between calls.
CaughtUp == AllIdle /\ \A t \in Threads : taken[t] = Len(log)

\* The row that ingesting the log once, in order, yields.
Replay ==
    FoldLeft(LAMBDA s, e : IngestNew(s, e, 0), NewSession(0), log)

\* engine.py:52: "Every decision is deterministic and may be rebuilt from the
\* events table": unless a poll has judged the session silent or its process
\* has exited, the status the threads end up with is the one a replay of the
\* log yields, whichever threads have projected its lines, out of step.  Two
\* scans that share the source ids may project neighbouring lines in the wrong
\* order, so this is refuted.
StatusIsReplayed ==
    (CaughtUp /\ crashes = 0 /\ exit = "no" /\ session.alerts[Key("stale")] = "ABSENT") =>
        session.status = Replay.status

\* ARCHITECTURE.md 5.1 of COMPLETED: "Explicit Codex completion evidence or an
\* explicit human confirmation exists": a log that ends in the completion of the
\* task is shown COMPLETED once it has been read, unless its process was
\* cancelled or failed.  A crash between insert_event and the projection makes
\* the line a duplicate that is never projected, so this is refuted.
CompletionIsShown ==
    (/\ CaughtUp /\ exit \in {"no", "success", "lost"}
     /\ log[Len(log)].kind = "session.completed") => session.status = "COMPLETED"

\* The same while the dashboard does not crash and the process lives: a poll or
\* the other thread may overwrite the completion, but the collector's second
\* projection of a managed run's lines restores it.
CompletionIsRestored == (crashes = 0 /\ exit = "no") => CompletionIsShown

\* Nor does a completed session then keep an open alert that its log raised, other
\* than the two the engine leaves open: the later of the two projections of the
\* completion withdraws what the other thread's projections raised again.
DemandsAreWithdrawn ==
    (/\ CaughtUp /\ crashes = 0 /\ exit = "no"
     /\ log[Len(log)].kind = "session.completed") =>
        \A k \in OpenAlerts(session) :
            k[1] \in {"runtime-error", "turn-failed", "stale", "command-hung"}

\* ARCHITECTURE.md 5.1 of FAILED: "A turn or managed process failed
\* terminally": once everything has been read, the session of a process that
\* exited with an error is shown FAILED.  The collector's own projection of the
\* run's log may come after the exit and start the session again, so this is
\* refuted.
FailedProcessIsShown ==
    (CaughtUp /\ exit = "failure") => session.status = "FAILED"

\* Calls that do not overlap implement the abstract engine, transaction by
\* transaction: every handler of SessionState is what its operations add up to.
Abstract ==
    INSTANCE Projection WITH
        session <- settled.session, events <- settled.events, process <- settled.process,
        MaxEvents <- 2 * Cardinality(UNION {DOMAIN lines : lines \in Logs}),
        Acknowledged <- {}
AbstractSpec == Abstract!Spec

=============================================================================
