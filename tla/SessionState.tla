---------------------------- MODULE SessionState ----------------------------
(***************************************************************************)
(* What codex_dashboard keeps about ONE session, and what the projection    *)
(* engine makes of each event: the row of table sessions, its rows of       *)
(* tables alerts, commands and test_runs (db.py), the transactions that     *)
(* change them, and the handlers of engine.py as functions from row to row. *)
(*                                                                         *)
(* Every statement of db.py is keyed by the session id, so sessions do not  *)
(* interact and one is enough.  Of the columns only those a handler reads   *)
(* to decide something, or shows to the user as a judgement, are kept;      *)
(* titles, texts, phases and paths are left out.                            *)
(*                                                                         *)
(* Time is relative: age is the time since last_event_at and quiet[c] the   *)
(* time since command c's last_output_at, both in ticks and both stopping   *)
(* at MaxAge, past every threshold.                                         *)
(***************************************************************************)
EXTENDS Integers, FiniteSets

CONSTANTS
    Calls,      \* the call ids the commands and tools of the session have
    FindLimit,  \* how many commands _find_command looks at: the newest 500
    NoCall,     \* the call part of an alert key that names no call
    NoAlert,    \* an empty attention_reason
    Stale,      \* config.stale_seconds
    Hung,       \* config.command_hung_seconds
    MaxAge      \* the bound at which ages stop growing

ASSUME ThresholdAssumption ==
    /\ MaxAge \in Nat
    /\ Stale \in 1..MaxAge
    /\ Hung \in 1..MaxAge

\* A session with no more commands than _find_command looks at (db.py:528-531).
\* Beyond that an older command is not found, and its late output starts it again.
ASSUME CallsAssumption == IsFiniteSet(Calls) /\ FindLimit \in Nat /\ Cardinality(Calls) <= FindLimit

ASSUME NamesAssumption == NoCall \notin Calls

----------------------------------------------------------------------------
\* engine.py:12, and the states _set_status never leaves (engine.py:311).
TerminalStates == {"COMPLETED", "CANCELLED", "FAILED"}
StickyStates == {"COMPLETED", "CANCELLED"}
WaitingStates == {"WAITING_INPUT", "WAITING_APPROVAL"}
Statuses == TerminalStates \cup WaitingStates
            \cup {"DISCOVERED", "RUNNING", "IDLE", "PAUSED", "BLOCKED"}

\* An alert is keyed by its session and its stable cause; three causes name
\* a call.  A row that was never inserted is "ABSENT".
SessionCauses == {"input-required", "approval-required", "turn-failed", "runtime-error",
                  "stale", "test-failure", "repeated-test-failure", "process-exit"}
CallCauses == {"command-failed", "command-hung", "tool-failed"}
AlertKeys == (SessionCauses \X {NoCall}) \cup (CallCauses \X Calls)
AlertStates == {"ABSENT", "OPEN", "ACKNOWLEDGED", "RESOLVED"}

Key(cause) == <<cause, NoCall>>

ASSUME NoAlertAssumption == NoAlert \notin AlertKeys

\* streak counts the latest consecutive FAILED test runs; the code tells
\* apart 0, 1, 2 and "3 or more".
Session == [status : Statuses,
            alerts : [AlertKeys -> AlertStates],
            attention : AlertKeys \cup {NoAlert},
            command : [Calls -> {"ABSENT", "RUNNING", "ENDED"}],
            streak : 0..3,
            age : 0..MaxAge,
            quiet : [Calls -> 0..MaxAge]]

\* The row ensure_session inserts for a session it has not seen.
NewSession(age) ==
    [status |-> "DISCOVERED",
     alerts |-> [k \in AlertKeys |-> "ABSENT"],
     attention |-> NoAlert,
     command |-> [c \in Calls |-> "ABSENT"],
     streak |-> 0,
     age |-> age,
     quiet |-> [c \in Calls |-> 0]]

----------------------------------------------------------------------------
(* The transactions of db.py on alerts and on attention_reason.            *)

OpenAlerts(s) == {k \in AlertKeys : s.alerts[k] = "OPEN"}

\* The severity the last upsert wrote: only test-failure has two (HIGH from
\* the second failure on).
Rank(s, k) ==
    CASE k[1] \in {"input-required", "approval-required", "repeated-test-failure"} -> 4
      [] k[1] = "stale" -> 2
      [] k[1] = "test-failure" /\ s.streak < 2 -> 2
      [] OTHER -> 3

\* The worst open alert.  Between alerts of one severity the code prefers
\* the one seen last; the model keeps no dates of alerts and picks any.
Top(s) ==
    IF OpenAlerts(s) = {} THEN NoAlert
    ELSE CHOOSE k \in OpenAlerts(s) : \A j \in OpenAlerts(s) : Rank(s, j) <= Rank(s, k)

\* upsert_alert: whatever the row was it is OPEN again, and the session shows
\* this alert's title, even when a worse alert is open.
Upsert(s, k) == [s EXCEPT !.alerts[k] = "OPEN", !.attention = k]

\* Mutant of ResolveAll: attention_reason is not recomputed.
ResolveAllKeepingHeadline(s, K) ==
    [s EXCEPT !.alerts = [k \in AlertKeys |->
        IF k \in K /\ @[k] # "ABSENT" THEN "RESOLVED" ELSE @[k]]]

\* resolve_alert, for the keys of K one after the other: each call recomputes
\* attention_reason, so the last one decides it.
ResolveAll(s, K) ==
    LET resolved == [s EXCEPT !.alerts = [k \in AlertKeys |->
                        IF k \in K /\ @[k] # "ABSENT" THEN "RESOLVED" ELSE @[k]]]
    IN  [resolved EXCEPT !.attention = Top(resolved)]

Resolve(s, k) == ResolveAll(s, {k})

\* acknowledge_alert: any row, a resolved one too; attention_reason is left.
AcknowledgeAlert(s, k) == [s EXCEPT !.alerts[k] = "ACKNOWLEDGED"]

\* upsert_command: the row of a call, its last_output_at lag ago.
UpsertCommand(s, c, to, lag) == [s EXCEPT !.command[c] = to, !.quiet[c] = lag]

\* _refresh_attention
RefreshAttention(s) == [s EXCEPT !.attention = Top(s)]

----------------------------------------------------------------------------
(* The handlers of engine.py.  An event is what the parser made of a line. *)

PlainKinds == {"session.meta", "session.started", "session.completed",
               "turn.started", "turn.completed", "turn.failed",
               "message.user", "message.agent", "input.required", "approval.required",
               "file.changed", "plan.updated", "reasoning", "error"}

\* failed: the handler saw a failure (status or exit code); test: what
\* detect_test_result recognised, where a result it calls UNKNOWN ends a run
\* of failures like a pass.
Events == [kind : PlainKinds]
          \cup [kind : {"command.started", "command.output", "tool.started"}, call : Calls]
          \cup [kind : {"tool.completed"}, call : Calls, failed : BOOLEAN]
          \cup [kind : {"command.completed"}, call : Calls, failed : BOOLEAN,
                test : {"NONE", "PASSED", "FAILED"}]

\* Mutant of SetStatus: the guard of engine.py:311 dropped.
SetAnyStatus(s, to) == [s EXCEPT !.status = to]

\* _set_status
SetStatus(s, to) ==
    IF s.status \in StickyStates /\ to \notin StickyStates
    THEN s ELSE [s EXCEPT !.status = to]

WaitingKeys == {Key("input-required"), Key("approval-required"), Key("stale")}

\* _resolve_waiting_alerts
ResolveWaiting(s) == ResolveAll(s, WaitingKeys)

\* Mutant of OperationalKeys: a question outlives the task.
OperationalKeysButQuestions(s) ==
    OpenAlerts(s) \ {Key("runtime-error"), Key("turn-failed"), Key("input-required")}

\* The keys _resolve_all_operational_alerts resolves: open ones only, so an
\* acknowledged alert keeps its state.
OperationalKeys(s) == OpenAlerts(s) \ {Key("runtime-error"), Key("turn-failed")}

\* The loop resolves nothing, and recomputes nothing, when no alert is open.
ResolveOperational(s) ==
    IF OperationalKeys(s) = {} THEN s ELSE ResolveAll(s, OperationalKeys(s))

ProjectMetadata(s, kind) ==
    IF kind = "session.started" /\ s.status = "DISCOVERED"
    THEN [s EXCEPT !.status = "RUNNING"] ELSE s

\* Mutant of ProjectTurnCompleted: the end of a turn taken for the end of the task.
TurnCompletesTask(s) ==
    IF s.status \in TerminalStates THEN s ELSE SetStatus(s, "COMPLETED")

ProjectTurnCompleted(s) ==
    IF s.status \in TerminalStates THEN s ELSE SetStatus(s, "IDLE")

\* Mutant of ProjectUserMessage: the answer leaves the status as it is.
AnswerResolvesOnly(s) == ResolveWaiting(s)

ProjectUserMessage(s) ==
    ResolveWaiting(
        IF s.status \in WaitingStates \cup {"BLOCKED", "IDLE", "DISCOVERED"}
        THEN [s EXCEPT !.status = "RUNNING"] ELSE s)

CommandStarted(s, c, lag) ==
    Resolve(SetStatus(UpsertCommand(s, c, "RUNNING", lag), "RUNNING"), <<"command-failed", c>>)

\* Mutant of CommandOutput: late output starts a finished command again.
OutputStartsCommand(s, c, lag) ==
    Resolve(UpsertCommand(s, c, "RUNNING", lag), <<"command-hung", c>>)

\* Output of a command _find_command does not find starts it; a finished one
\* stays finished.  Calls has only commands that are found once they are seen.
CommandOutput(s, c, lag) ==
    Resolve(UpsertCommand(s, c, IF s.command[c] = "ABSENT" THEN "RUNNING" ELSE s.command[c], lag),
            <<"command-hung", c>>)

\* Mutant of UpdateTestAlert: the critical alert one failure early.
UpdateTestAlertEarly(s) ==
    IF s.streak >= 2 THEN Upsert(s, Key("repeated-test-failure"))
    ELSE IF s.streak > 0
         THEN Resolve(Upsert(s, Key("test-failure")), Key("repeated-test-failure"))
         ELSE ResolveAll(s, {Key("test-failure"), Key("repeated-test-failure")})

\* _update_test_alert
UpdateTestAlert(s) ==
    IF s.streak >= 3 THEN Upsert(s, Key("repeated-test-failure"))
    ELSE IF s.streak > 0
         THEN Resolve(Upsert(s, Key("test-failure")), Key("repeated-test-failure"))
         ELSE ResolveAll(s, {Key("test-failure"), Key("repeated-test-failure")})

\* add_test_run, on the run of consecutive failures it extends or ends.  The
\* code counts them in the order of their lines' timestamps (db.py:528); here
\* lines arrive in that order, each once.  A log that a second thread ingests
\* under other source ids inserts its runs again at their old timestamps, and
\* the streak is then another.
AddTestRun(s, test) ==
    [s EXCEPT !.streak = IF test = "PASSED" THEN 0 ELSE IF @ = 3 THEN 3 ELSE @ + 1]

CommandCompleted(s, c, lag, failed, test) ==
    LET ended == Resolve(UpsertCommand(s, c, "ENDED", lag), <<"command-hung", c>>)
        good == Resolve(ended, <<"command-failed", c>>)
        judged == IF failed THEN Upsert(ended, <<"command-failed", c>>)
                  ELSE IF good.status \in TerminalStates \cup WaitingStates THEN good
                       ELSE [good EXCEPT !.status = "RUNNING"]
    IN  IF test = "NONE" THEN judged ELSE UpdateTestAlert(AddTestRun(judged, test))

ToolCompleted(s, c, failed) ==
    IF failed THEN Upsert(s, <<"tool-failed", c>>) ELSE Resolve(s, <<"tool-failed", c>>)

\* The dispatch of ingest on the event's kind.  A message of the agent, a
\* changed file, a new plan and reasoning change nothing that is kept here.
Project(s, e, lag) ==
    CASE e.kind \in {"session.meta", "session.started"} -> ProjectMetadata(s, e.kind)
      [] e.kind = "turn.started" -> ResolveWaiting(SetStatus(s, "RUNNING"))
      [] e.kind = "turn.completed" -> ProjectTurnCompleted(s)
      [] e.kind = "turn.failed" -> Upsert(SetStatus(s, "FAILED"), Key("turn-failed"))
      [] e.kind = "session.completed" -> ResolveOperational(SetStatus(s, "COMPLETED"))
      [] e.kind = "message.user" -> ProjectUserMessage(s)
      [] e.kind = "input.required" ->
            Upsert(SetStatus(s, "WAITING_INPUT"), Key("input-required"))
      [] e.kind = "approval.required" ->
            Upsert(SetStatus(s, "WAITING_APPROVAL"), Key("approval-required"))
      [] e.kind = "command.started" -> CommandStarted(s, e.call, lag)
      [] e.kind = "command.output" -> CommandOutput(s, e.call, lag)
      [] e.kind = "command.completed" -> CommandCompleted(s, e.call, lag, e.failed, e.test)
      [] e.kind = "tool.started" -> SetStatus(s, "RUNNING")
      [] e.kind = "tool.completed" -> ToolCompleted(s, e.call, e.failed)
      [] e.kind = "error" -> Upsert(s, Key("runtime-error"))
      [] OTHER -> s

\* ensure_session and insert_event both put the event's time in last_event_at.
Seen(s, lag) == [s EXCEPT !.age = lag]

\* ingest, for an event whose source_id is new.
IngestNew(s, e, lag) == RefreshAttention(Project(Seen(s, lag), e, lag))

----------------------------------------------------------------------------
(* reconcile, the collector's judgement of silence.                        *)

\* Mutant of ReconcileSession: finished sessions are skipped.
ReconcileOpenSession(s) ==
    IF s.status \in TerminalStates THEN s
    ELSE IF s.status \in {"RUNNING", "DISCOVERED"} /\ s.age >= Stale
         THEN LET raised == Upsert(s, Key("stale"))
              IN  IF s.status = "RUNNING" THEN [raised EXCEPT !.status = "BLOCKED"] ELSE raised
         ELSE IF s.age < Stale THEN Resolve(s, Key("stale")) ELSE s

ReconcileSession(s) ==
    IF s.status \in TerminalStates THEN Resolve(s, Key("stale"))
    ELSE IF s.status \in {"RUNNING", "DISCOVERED"} /\ s.age >= Stale
         THEN LET raised == Upsert(s, Key("stale"))
              IN  IF s.status = "RUNNING" THEN [raised EXCEPT !.status = "BLOCKED"] ELSE raised
         ELSE IF s.age < Stale THEN Resolve(s, Key("stale")) ELSE s

RunningCommands(s) == {c \in Calls : s.command[c] = "RUNNING"}

\* Every running command's hung alert after the loop of reconcile.
JudgeCommands(s) ==
    [s EXCEPT !.alerts = [k \in AlertKeys |->
        IF k[1] = "command-hung" /\ k[2] \in RunningCommands(s)
        THEN IF s.quiet[k[2]] >= Hung THEN "OPEN"
             ELSE IF @[k] = "ABSENT" THEN "ABSENT" ELSE "RESOLVED"
        ELSE @[k]]]

\* The sessions reconcile can leave: last is the running command it judges
\* last, and the upsert or resolve of its alert decides attention_reason.
Reconciled(s) ==
    LET r == ReconcileSession(s)
        j == JudgeCommands(r)
    IN  IF RunningCommands(r) = {} THEN {r}
        ELSE {[j EXCEPT !.attention = IF r.quiet[last] >= Hung
                                      THEN <<"command-hung", last>> ELSE Top(j)] :
              last \in RunningCommands(r)}

----------------------------------------------------------------------------
(* managed_process_started and managed_process_exited.                     *)

ProcessStarted(s) == [s EXCEPT !.status = "RUNNING", !.age = 0]

\* Mutant of ProcessExited: a status that TERMINAL_STATES spells otherwise.
ProcessCanceled(s, how) ==
    CASE how = "cancelled" -> [s EXCEPT !.status = "CANCELED"]
      [] how = "success" ->
            [s EXCEPT !.status = IF @ = "COMPLETED" THEN "COMPLETED" ELSE "IDLE"]
      [] how = "failure" -> Upsert([s EXCEPT !.status = "FAILED"], Key("process-exit"))

\* how: "cancelled", "success" (return code 0) or "failure".
ProcessExited(s, how) ==
    CASE how = "cancelled" -> [s EXCEPT !.status = "CANCELLED"]
      [] how = "success" ->
            [s EXCEPT !.status = IF @ = "COMPLETED" THEN "COMPLETED" ELSE "IDLE"]
      [] how = "failure" -> Upsert([s EXCEPT !.status = "FAILED"], Key("process-exit"))

=============================================================================
