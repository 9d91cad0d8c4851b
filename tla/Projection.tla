----------------------------- MODULE Projection -----------------------------
(***************************************************************************)
(* The abstract projection engine: each of ingest, reconcile, acknowledge   *)
(* and the two managed_process_* calls of engine.py as ONE step on the row  *)
(* of one session, and beside them the statuses the process manager writes   *)
(* there itself.  This is what is promised when nothing else touches the     *)
(* session between the transactions of a call; IngestThreads takes the       *)
(* calls of the engine apart again.                                         *)
(*                                                                         *)
(* At most one process at a time belongs to the session.  A pause or continue *)
(* whose write comes after the exit has been recorded is in ManagedProcess.   *)
(***************************************************************************)
EXTENDS SessionState

CONSTANTS
    MaxEvents,      \* bounds the events one behaviour ingests
    Acknowledged    \* the alerts the user may acknowledge

ASSUME MaxEventsAssumption == MaxEvents \in Nat
ASSUME AcknowledgedAssumption == Acknowledged \subseteq AlertKeys

VARIABLES
    session,    \* the session's projected state
    events,     \* how many rows table events holds for the session
    process     \* the session's own process: "none", "live" or "exited"

vars == <<session, events, process>>

Init ==
    /\ session \in {NewSession(age) : age \in 0..MaxAge}
    /\ events = 0
    /\ process = "none"

\* A line not seen before; lag is how long ago its timestamp is.  The user's
\* "mark complete" is a session.completed event too (mark_complete).
Ingest(e, lag) ==
    /\ events < MaxEvents
    /\ session' = IngestNew(session, e, lag)
    /\ events' = events + 1
    /\ UNCHANGED process

\* A line read again: INSERT OR IGNORE ignores it and nothing is projected,
\* but ensure_session has already put its old time in last_event_at.
IngestDuplicate(lag) ==
    /\ events > 0
    /\ session' = Seen(session, lag)
    /\ UNCHANGED <<events, process>>

\* The collector's poll ends with reconcile.
Reconcile ==
    /\ session' \in Reconciled(session)
    /\ UNCHANGED <<events, process>>

\* The HTTP action "acknowledge" on any alert the session has a row for.
Acknowledge(k) ==
    /\ session.alerts[k] # "ABSENT"
    /\ session' = AcknowledgeAlert(session, k)
    /\ UNCHANGED <<events, process>>

\* A managed run begins on the session's fresh row.
ManagedProcessStarted ==
    /\ process = "none" /\ events = 0
    /\ session' = ProcessStarted(session)
    /\ process' = "live"
    /\ UNCHANGED events

ManagedProcessExited(how) ==
    /\ process = "live"
    /\ session' = ProcessExited(session, how)
    /\ process' = "exited"
    /\ UNCHANGED events

\* The operator stops the session's process, or lets it go on: whatever status the
\* session had is overwritten.
Pause ==
    /\ process = "live"
    /\ session' = [session EXCEPT !.status = "PAUSED"]
    /\ UNCHANGED <<events, process>>

Continue ==
    /\ process = "live"
    /\ session' = [session EXCEPT !.status = "RUNNING"]
    /\ UNCHANGED <<events, process>>

\* A process that was started under another id turns out to run this session,
BindHere(lag) ==
    /\ process # "live"
    /\ session' = [session EXCEPT !.status = "RUNNING", !.age = lag]
    /\ process' = "live"
    /\ UNCHANGED events

\* or this session's process to run another one, which takes its place.
BindAway ==
    /\ process = "live"
    /\ session' = [session EXCEPT !.status = "CANCELLED"]
    /\ process' = "exited"
    /\ UNCHANGED events

\* Ages stop at MaxAge.
Older(age) == IF age = MaxAge THEN MaxAge ELSE age + 1

\* A tick of the clock.
Tick ==
    /\ session' = [session EXCEPT !.age = Older(@),
                                  !.quiet = [c \in Calls |-> Older(@[c])]]
    /\ UNCHANGED <<events, process>>

Next ==
    \/ \E e \in Events, lag \in 0..MaxAge : Ingest(e, lag)
    \/ \E lag \in 0..MaxAge : IngestDuplicate(lag)
    \/ Reconcile
    \/ \E k \in Acknowledged : Acknowledge(k)
    \/ ManagedProcessStarted
    \/ \E how \in {"cancelled", "success", "failure"} : ManagedProcessExited(how)
    \/ Pause \/ Continue
    \/ \E lag \in 0..MaxAge : BindHere(lag)
    \/ BindAway
    \/ Tick

Spec == Init /\ [][Next]_vars

\* The collector polls for ever (collector.py:52-60); nothing obliges Codex,
\* the user or a process to do anything.
FairSpec == Spec /\ WF_vars(Reconcile)

----------------------------------------------------------------------------
\* The types of the row's columns: no status but those of ARCHITECTURE.md 5.1.
TypeOK ==
    /\ session \in Session
    /\ events \in 0..MaxEvents
    /\ process \in {"none", "live", "exited"}

\* A session shown as waiting has an alert, open or acknowledged, that says
\* what it waits for: no path resolves the alert and leaves the status.
WaitingIsExplained ==
    /\ session.status = "WAITING_INPUT" =>
          session.alerts[Key("input-required")] \in {"OPEN", "ACKNOWLEDGED"}
    /\ session.status = "WAITING_APPROVAL" =>
          session.alerts[Key("approval-required")] \in {"OPEN", "ACKNOWLEDGED"}

\* An open alert about a command agrees with the command's row: only a running
\* command is reported hung, only an ended one failed.  A completion, a late
\* output line, a restart of the call and a poll must all keep the two in step.
\* So they do in a session of up to the 500 commands _find_command looks at.
CallAlertsMatchCommands ==
    \A c \in Calls :
        /\ session.alerts[<<"command-hung", c>>] = "OPEN" => session.command[c] = "RUNNING"
        /\ session.alerts[<<"command-failed", c>>] = "OPEN" => session.command[c] = "ENDED"

\* The test alerts agree with the latest run of failures: none open after a
\* pass, the critical one open only from the third failure on, and no streak
\* without its alert having been raised; of a log whose lines arrive once and in
\* the order of their timestamps (engine.py:284-306, db.py:528).
TestAlertsMatchStreak ==
    LET plain == session.alerts[Key("test-failure")]
        repeated == session.alerts[Key("repeated-test-failure")]
    IN  /\ plain = "OPEN" => session.streak > 0
        /\ repeated = "OPEN" => session.streak = 3
        /\ session.streak > 0 => plain # "ABSENT"
        /\ session.streak = 3 => repeated # "ABSENT"

\* attention_reason, kept by three different transactions, is not blank while
\* an alert is open and never names an alert that has been resolved.
AttentionIsCurrent ==
    /\ OpenAlerts(session) # {} => session.attention # NoAlert
    /\ session.attention # NoAlert =>
          session.alerts[session.attention] \in {"OPEN", "ACKNOWLEDGED"}

\* ARCHITECTURE.md 5.3: a task is completed only by an explicit completion
\* event, never by a turn's end, a process's exit, passing tests or silence.
CompletionNeedsEvidence ==
    [][(session.status # "COMPLETED" /\ session'.status = "COMPLETED") =>
          \E e \in Events, lag \in 0..MaxAge : e.kind = "session.completed" /\ Ingest(e, lag)]_vars

\* No event, poll or acknowledgement takes a session out of COMPLETED or
\* CANCELLED (engine.py:311, 345-352).  What happens to its own process still can:
\* the process exits, the operator pauses or continues it, or a process turns
\* out to run this session (process_manager.py:163, 206, 237, 248).
EvidenceKeepsCompletion ==
    [][(session.status \in StickyStates /\ session'.status \notin StickyStates) =>
          \/ \E how \in {"success", "failure"} : ManagedProcessExited(how)
          \/ Pause \/ Continue \/ \E lag \in 0..MaxAge : BindHere(lag)]_vars

\* What a poll has to settle: a running session gone silent, a running command
\* gone silent without an open alert, a finished session that still shows "No
\* recent activity".
Overdue ==
    \/ session.status = "RUNNING" /\ session.age >= Stale
    \/ \E c \in RunningCommands(session) :
          session.quiet[c] >= Hung /\ session.alerts[<<"command-hung", c>>] # "OPEN"
    \/ session.status \in TerminalStates /\ session.alerts[Key("stale")] = "OPEN"

\* Silence is noticed, and noticed to be over, in the end: nothing stays
\* overdue while the collector keeps polling, whatever else happens meanwhile.
OverdueIsNoticed == Overdue ~> ~Overdue

\* ARCHITECTURE.md 5.1 of BLOCKED: "Active work has no recent evidence beyond
\* the configured threshold": a poll leaves a session BLOCKED only when that
\* is so.  reconcile resolves the alert of a session that spoke again and
\* leaves its status, so this is refuted.
BlockedMeansSilent ==
    [][Reconcile => (session'.status = "BLOCKED" => session'.age >= Stale)]_vars

=============================================================================
