--------------------------- MODULE ManagedProcess ---------------------------
(***************************************************************************)
(* The life of one process the dashboard owns: process_manager.py's start,   *)
(* its reader thread, and the HTTP actions pause, continue, cancel and       *)
(* complete, which any number of request threads run beside it.              *)
(*                                                                         *)
(* The process is launched under a row of its own, Local; when its output    *)
(* names the thread it works on, Real, the reader moves it there.  Of both   *)
(* rows only the status is kept (SessionState has the rest), and an ingest   *)
(* is one step (IngestThreads takes it apart).  The pid of a process that    *)
(* has been waited for is not used again.                                    *)
(***************************************************************************)
EXTENDS Naturals, Sequences

CONSTANTS
    Local,      \* the session start() makes up
    Real,       \* the session of the thread Codex reports
    Launches,   \* how it may be launched: "fresh", or "resumed" on that thread
    Callers,    \* the threads of HTTP actions
    Actions,    \* the actions they take
    Reader, Nobody,
    Lines,      \* what the process may write
    PipeSize,   \* lines the pipe to the reader holds
    MaxLines,   \* bounds the lines the process writes
    MaxCalls    \* bounds the actions

ASSUME LaunchesAssumption == Launches \subseteq {"fresh", "resumed"}
ASSUME ActionsAssumption == Actions \subseteq {"pause", "continue", "cancel", "complete"}
\* names: whether the line names Real.  "process.output" is a line that is no JSON.
ASSUME LinesAssumption ==
    /\ Lines \subseteq [kind : {"turn.started", "turn.completed", "session.completed",
                               "message.agent", "process.output"}, names : BOOLEAN]
    /\ \A line \in Lines : line.kind = "process.output" => ~line.names
ASSUME BoundsAssumption == PipeSize \in Nat \ {0} /\ {MaxLines, MaxCalls} \subseteq Nat
ASSUME HoldersAssumption == Reader # Nobody /\ {Reader, Nobody} \cap Callers = {}

VARIABLES
    child,      \* the process: its state and how it exited
    pipe,       \* lines written and not read
    managed,    \* the ManagedProcess
    lock,       \* who holds managed.lock
    owned,      \* the keys of _processes that map to it
    status,     \* of the rows, or "ABSENT"
    reader,     \* where start(), then the reader, is, and its local variables
    call,       \* what each HTTP thread does
    bound,      \* counters: lines, calls
    terminated, \* history: a cancel's SIGTERM has reached the process
    outcome,    \* history: what managed_process_exited wrote
    loose       \* history: the rows whose status is not this run's to end (NoRowLeftRunning)

vars == <<child, pipe, managed, lock, owned, status, reader, call, bound, terminated, outcome, loose>>

Sessions == {Local, Real}
TerminalStates == {"COMPLETED", "CANCELLED", "FAILED"}
Idle == [at |-> "idle"]

Alive == child.state \in {"running", "stopped"}
\* A zombie has exited and not been waited for: its pid still takes signals.
Ended == child.state \in {"zombie", "reaped"}

Goto(at) == reader' = [reader EXCEPT !.at = at]
CallAt(c, at) == call' = [call EXCEPT ![c].at = at]
Return(c) == call' = [call EXCEPT ![c] = Idle]

----------------------------------------------------------------------------
(* start(), from its row to its reader.                                    *)

Init ==
    /\ child = [state |-> "none", how |-> "none"]
    /\ pipe = <<>>
    /\ lock = Nobody
    /\ owned = {}
    /\ \E how \in Launches :
         /\ managed = [session |-> Local, thread |-> IF how = "resumed" THEN Real ELSE Local,
                       cancelled |-> FALSE, paused |-> FALSE]
         /\ status = [s \in Sessions |-> IF s = Local THEN "RUNNING"
                                        ELSE IF how = "resumed" THEN "IDLE" ELSE "ABSENT"]
         /\ loose = IF how = "resumed" THEN {Real} ELSE {}
    /\ reader = [at |-> "launch"]
    /\ call = [c \in Callers |-> Idle]
    /\ bound = [lines |-> 0, calls |-> 0]
    /\ terminated = FALSE
    /\ outcome = "none"

Launch ==
    /\ reader.at = "launch"
    /\ child' = [child EXCEPT !.state = "running"]
    /\ Goto("register")
    /\ UNCHANGED <<pipe, managed, lock, owned, status, call, bound, terminated, outcome, loose>>

\* Popen raises.
LaunchFails ==
    /\ reader.at = "launch"
    /\ status' = [status EXCEPT ![Local] = "FAILED"]
    /\ Goto("done")
    /\ UNCHANGED <<child, pipe, managed, lock, owned, call, bound, terminated, outcome, loose>>

Register ==
    /\ reader.at = "register"
    /\ owned' = {Local}
    /\ Goto("started")
    /\ UNCHANGED <<child, pipe, managed, lock, status, call, bound, terminated, outcome, loose>>

\* managed_process_started; then the reader's thread is started.
Started ==
    /\ reader.at = "started"
    /\ status' = [status EXCEPT ![Local] = "RUNNING"]
    /\ Goto("read")
    /\ UNCHANGED <<child, pipe, managed, lock, owned, call, bound, terminated, outcome, loose>>

----------------------------------------------------------------------------
(* The process.                                                            *)

Output(line) ==
    /\ child.state = "running" /\ Len(pipe) < PipeSize /\ bound.lines < MaxLines
    /\ pipe' = Append(pipe, line)
    /\ bound' = [bound EXCEPT !.lines = @ + 1]
    /\ UNCHANGED <<child, managed, lock, owned, status, reader, call, terminated, outcome, loose>>

Exit(how) ==
    /\ child.state = "running"
    /\ child' = [state |-> "zombie", how |-> how]
    /\ UNCHANGED <<pipe, managed, lock, owned, status, reader, call, bound, terminated, outcome, loose>>

----------------------------------------------------------------------------
(* The reader, _read_and_wait.                                             *)

\* A line that names no session is about the one the run is shown under.
ReadLine ==
    /\ reader.at = "read" /\ pipe # <<>>
    /\ pipe' = Tail(pipe)
    /\ reader' = [at |-> IF Head(pipe).kind = "process.output" THEN "ingest" ELSE "bind",
                  kind |-> Head(pipe).kind,
                  session |-> IF Head(pipe).names THEN Real ELSE managed.session]
    /\ UNCHANGED <<child, managed, lock, owned, status, call, bound, terminated, outcome, loose>>

\* _bind_real_thread, for a line of a session or thread it knows,
BindKnown ==
    /\ reader.at = "bind" /\ lock = Nobody
    /\ reader.session \in {managed.session, managed.thread}
    /\ managed' = [managed EXCEPT !.thread = reader.session]
    /\ Goto("ingest")
    /\ UNCHANGED <<child, pipe, lock, owned, status, call, bound, terminated, outcome, loose>>

\* and for one of a new session: its row is made, or found, and set RUNNING (nothing
\* reads the row between ensure_session and update_session),
BindReal ==
    /\ reader.at = "bind" /\ lock = Nobody
    /\ reader.session \notin {managed.session, managed.thread}
    /\ lock' = Reader
    /\ status' = [status EXCEPT ![reader.session] = "RUNNING"]
    /\ Goto("bind-old")
    /\ UNCHANGED <<child, pipe, managed, owned, call, bound, terminated, outcome, loose>>

\* the old row CANCELLED,
BindOld ==
    /\ reader.at = "bind-old"
    /\ status' = [status EXCEPT ![managed.session] = "CANCELLED"]
    /\ Goto("bind-owner")
    /\ UNCHANGED <<child, pipe, managed, lock, owned, call, bound, terminated, outcome, loose>>

NewOwners == (owned \ {managed.session}) \cup {reader.session}

\* and the process is listed under the new one (_processes first, then the ids: the
\* reader alone reads those out of managed.lock).
BindOwner ==
    /\ reader.at = "bind-owner"
    /\ owned' = NewOwners
    /\ managed' = [managed EXCEPT !.session = reader.session, !.thread = reader.session]
    /\ lock' = Nobody
    /\ loose' = loose \ {reader.session}
    /\ Goto("ingest")
    /\ UNCHANGED <<child, pipe, status, call, bound, terminated, outcome>>

\* What engine.ingest makes of a row's status ("ABSENT" becomes DISCOVERED).
SetStatus(old, new) == IF old \in {"COMPLETED", "CANCELLED"} /\ new # "COMPLETED" THEN old ELSE new

Ingested(old, kind) ==
    LET row == IF old = "ABSENT" THEN "DISCOVERED" ELSE old
    IN CASE kind = "turn.started" -> SetStatus(row, "RUNNING")
         [] kind = "turn.completed" -> IF row \in TerminalStates THEN row ELSE "IDLE"
         [] kind = "session.completed" -> "COMPLETED"
         [] OTHER -> row

Ingest ==
    /\ reader.at = "ingest"
    /\ status' = [status EXCEPT ![reader.session] = Ingested(@, reader.kind)]
    /\ reader' = [at |-> "read"]
    /\ UNCHANGED <<child, pipe, managed, lock, owned, call, bound, terminated, outcome, loose>>

\* The log, the binding or the ingest raises: no more is read.
ReaderError ==
    /\ reader.at \in {"read", "bind", "bind-old", "bind-owner", "ingest"}
    /\ lock' = IF lock = Reader THEN Nobody ELSE lock
    /\ reader' = [at |-> "wait"]
    /\ loose' = IF reader.at \in {"bind-old", "bind-owner"} THEN loose \cup {reader.session}
                ELSE loose
    /\ UNCHANGED <<child, pipe, managed, owned, status, call, bound, terminated, outcome>>

Eof ==
    /\ reader.at = "read" /\ pipe = <<>> /\ Ended
    /\ Goto("wait")
    /\ UNCHANGED <<child, pipe, managed, lock, owned, status, call, bound, terminated, outcome, loose>>

\* process.wait() returns.
Wait ==
    /\ reader.at = "wait" /\ Ended
    /\ child' = [child EXCEPT !.state = "reaped"]
    /\ Goto("flag")
    /\ UNCHANGED <<pipe, managed, lock, owned, status, call, bound, terminated, outcome, loose>>

\* Mutant of ReadFlags: the exit is recorded under the id the process started with.
ReadFlagsLocal ==
    /\ reader.at = "flag" /\ lock = Nobody
    /\ reader' = [at |-> "look", session |-> Local, cancelled |-> managed.cancelled]
    /\ UNCHANGED <<child, pipe, managed, lock, owned, status, call, bound, terminated, outcome, loose>>

ReadFlags ==
    /\ reader.at = "flag" /\ lock = Nobody
    /\ reader' = [at |-> "look", session |-> managed.session, cancelled |-> managed.cancelled]
    /\ UNCHANGED <<child, pipe, managed, lock, owned, status, call, bound, terminated, outcome, loose>>

\* managed_process_exited: it reads the row,
ExitLook ==
    /\ reader.at = "look"
    /\ reader' = [at |-> "exit", session |-> reader.session, cancelled |-> reader.cancelled,
                  completed |-> status[reader.session] = "COMPLETED"]
    /\ UNCHANGED <<child, pipe, managed, lock, owned, status, call, bound, terminated, outcome, loose>>

\* Mutant of ExitStatus: the return code is looked at before the flag.
CodeFirst(cancelled, completed) ==
    IF child.how = "success" THEN (IF completed THEN "COMPLETED" ELSE "IDLE")
    ELSE IF cancelled THEN "CANCELLED" ELSE "FAILED"

ExitStatus(cancelled, completed) ==
    IF cancelled THEN "CANCELLED"
    ELSE IF child.how # "success" THEN "FAILED"
    ELSE IF completed THEN "COMPLETED" ELSE "IDLE"

\* and writes it.
ExitWrite ==
    /\ reader.at = "exit"
    /\ outcome' = ExitStatus(reader.cancelled, reader.completed)
    /\ status' = [status EXCEPT ![reader.session] = outcome']
    /\ Goto("unlist")
    /\ UNCHANGED <<child, pipe, managed, lock, owned, call, bound, terminated, loose>>

Unlist ==
    /\ reader.at = "unlist"
    /\ owned' = {}
    /\ reader' = [at |-> "done"]
    /\ UNCHANGED <<child, pipe, managed, lock, status, call, bound, terminated, outcome, loose>>

----------------------------------------------------------------------------
(* The HTTP actions.                                                       *)

Arrive(c) ==
    /\ call[c] = Idle /\ bound.calls < MaxCalls
    /\ bound' = [bound EXCEPT !.calls = @ + 1]

\* _owned finds the process and poll() says it runs.  poll() says so of a zombie
\* too while the reader is inside wait(), which holds Popen's waitpid lock.
Owned(c, do, s) ==
    /\ Arrive(c) /\ do # "complete"
    /\ s \in owned
    /\ Alive \/ (child.state = "zombie" /\ reader.at = "wait")
    /\ call' = [call EXCEPT ![c] = [at |-> IF do = "cancel" THEN "mark" ELSE "signal",
                                    do |-> do, session |-> s]]
    /\ UNCHANGED <<child, pipe, managed, lock, owned, status, reader, terminated, outcome, loose>>

\* _owned raises; its poll() has reaped a zombie.
NotOwned(c, do, s) ==
    /\ Arrive(c) /\ do # "complete"
    /\ s \notin owned \/ Ended
    /\ child' = IF s \in owned THEN [child EXCEPT !.state = "reaped"] ELSE child
    /\ UNCHANGED <<pipe, managed, lock, owned, status, reader, call, terminated, outcome, loose>>

\* killpg to a zombie does nothing, to a reaped process it raises.
Signalled(state) == IF Alive THEN state ELSE child.state

\* Mutant of Raise: the exception leaves the lock taken.
RaiseLocked(c) ==
    /\ child.state = "reaped"
    /\ lock' = c
    /\ Return(c)
    /\ UNCHANGED <<child, pipe, owned, status, reader, bound, terminated, outcome, loose>>

Raise(c) ==
    /\ child.state = "reaped"
    /\ lock' = Nobody
    /\ Return(c)
    /\ UNCHANGED <<child, pipe, owned, status, reader, bound, terminated, outcome, loose>>

\* pause and continue: the signal, the flag, and, out of the lock, the status.
Signal(c) ==
    /\ call[c].at = "signal" /\ lock = Nobody
    /\ child.state # "reaped"
    /\ lock' = c
    /\ child' = [child EXCEPT !.state =
                   Signalled(IF call[c].do = "pause" THEN "stopped" ELSE "running")]
    /\ CallAt(c, "paused")
    /\ UNCHANGED <<pipe, managed, owned, status, reader, bound, terminated, outcome, loose>>

SignalRaises(c) ==
    /\ call[c].at = "signal" /\ lock = Nobody
    /\ Raise(c)
    /\ UNCHANGED managed

SetPaused(c) ==
    /\ call[c].at = "paused"
    /\ managed' = [managed EXCEPT !.paused = call[c].do = "pause"]
    /\ lock' = Nobody
    /\ CallAt(c, "status")
    /\ UNCHANGED <<child, pipe, owned, status, reader, bound, terminated, outcome, loose>>

\* What is written to the row by now stays there: the process has been moved to
\* another row, or its exit has been recorded.
Late(session) ==
    \/ session \notin owned \/ reader.at \in {"unlist", "done"}
    \/ reader.at = "bind-owner" /\ session = managed.session

WriteStatus(c) ==
    /\ call[c].at = "status"
    /\ status' = [status EXCEPT ![call[c].session] =
                    IF call[c].do = "pause" THEN "PAUSED" ELSE "RUNNING"]
    /\ loose' = IF Late(call[c].session) THEN loose \cup {call[c].session} ELSE loose
    /\ Return(c)
    /\ UNCHANGED <<child, pipe, managed, lock, owned, reader, bound, terminated, outcome>>

\* Mutant of MarkCancelled: the flag of a pause is not reset.
MarkStillPaused(c) ==
    /\ call[c].at = "mark" /\ lock = Nobody
    /\ managed.paused => child.state # "reaped"
    /\ lock' = c
    /\ managed' = [managed EXCEPT !.cancelled = TRUE]
    /\ child' = IF managed.paused THEN [child EXCEPT !.state = Signalled("running")] ELSE child
    /\ CallAt(c, "term")
    /\ UNCHANGED <<pipe, owned, status, reader, bound, terminated, outcome, loose>>

\* cancel: its flag, and SIGCONT to a process that is paused,
MarkCancelled(c) ==
    /\ call[c].at = "mark" /\ lock = Nobody
    /\ managed.paused => child.state # "reaped"
    /\ lock' = c
    /\ managed' = [managed EXCEPT !.cancelled = TRUE, !.paused = FALSE]
    /\ child' = IF managed.paused THEN [child EXCEPT !.state = Signalled("running")] ELSE child
    /\ CallAt(c, "term")
    /\ UNCHANGED <<pipe, owned, status, reader, bound, terminated, outcome, loose>>

MarkRaises(c) ==
    /\ call[c].at = "mark" /\ lock = Nobody
    /\ managed.paused
    /\ managed' = [managed EXCEPT !.cancelled = TRUE]
    /\ Raise(c)

\* SIGTERM, which the process may take or not: what it does of it is an Exit,
Terminate(c) ==
    /\ call[c].at = "term"
    /\ child.state # "reaped"
    /\ terminated' = TRUE
    /\ lock' = Nobody
    /\ CallAt(c, "cancel-wait")
    /\ UNCHANGED <<child, pipe, managed, owned, status, reader, bound, outcome, loose>>

TerminateRaises(c) ==
    /\ call[c].at = "term"
    /\ Raise(c)
    /\ UNCHANGED managed

\* Mutant of WaitOrKill: the wait times out and that is all.
WaitOnly(c) ==
    /\ call[c].at = "cancel-wait"
    /\ child' = IF child.state = "zombie" THEN [child EXCEPT !.state = "reaped"] ELSE child
    /\ Return(c)
    /\ UNCHANGED <<pipe, managed, lock, owned, status, reader, bound, terminated, outcome, loose>>

\* and a wait, until the process ends or the timeout, and SIGKILL then.
WaitOrKill(c) ==
    /\ call[c].at = "cancel-wait"
    /\ child' = IF Alive THEN [state |-> "zombie", how |-> "failure"]
                ELSE [child EXCEPT !.state = "reaped"]
    /\ Return(c)
    /\ UNCHANGED <<pipe, managed, lock, owned, status, reader, bound, terminated, outcome, loose>>

\* mark_complete goes on for a row that is there and not in a terminal state,
CompleteLook(c, do, s) ==
    /\ Arrive(c) /\ do = "complete"
    /\ call' = IF status[s] \in TerminalStates \cup {"ABSENT"} THEN call
               ELSE [call EXCEPT ![c] = [at |-> "complete", do |-> do, session |-> s]]
    /\ UNCHANGED <<child, pipe, managed, lock, owned, status, reader, terminated, outcome, loose>>

\* and ingests a completion.
Complete(c) ==
    /\ call[c].at = "complete"
    /\ status' = [status EXCEPT ![call[c].session] = Ingested(@, "session.completed")]
    /\ Return(c)
    /\ UNCHANGED <<child, pipe, managed, lock, owned, reader, bound, terminated, outcome, loose>>

----------------------------------------------------------------------------

ReaderStep ==
    \/ Launch \/ LaunchFails \/ Register \/ Started
    \/ ReadLine \/ BindKnown \/ BindReal \/ BindOld \/ BindOwner \/ Ingest
    \/ ReaderError \/ Eof \/ Wait \/ ReadFlags \/ ExitLook \/ ExitWrite \/ Unlist

CallStep(c) ==
    \/ Signal(c) \/ SignalRaises(c) \/ SetPaused(c) \/ WriteStatus(c)
    \/ MarkCancelled(c) \/ MarkRaises(c) \/ Terminate(c) \/ TerminateRaises(c) \/ WaitOrKill(c)
    \/ Complete(c)

Next ==
    \/ ReaderStep
    \/ \E line \in Lines : Output(line)
    \/ \E how \in {"success", "failure"} : Exit(how)
    \/ \E c \in Callers : CallStep(c)
    \/ \E c \in Callers, do \in Actions, s \in Sessions :
         Owned(c, do, s) \/ NotOwned(c, do, s) \/ CompleteLook(c, do, s)

Spec == Init /\ [][Next]_vars

\* Threads run; the process owes nothing.
FairSpec == Spec /\ WF_vars(ReaderStep) /\ \A c \in Callers : WF_vars(CallStep(c))

----------------------------------------------------------------------------
(* Properties.                                                             *)

Kinds == {"turn.started", "turn.completed", "session.completed", "message.agent",
          "process.output"}

\* The reader, with the local variables it has at each place, and an HTTP thread.
ReaderStates ==
    [at : {"launch", "register", "started", "read", "wait", "flag", "done"}]
        \cup [at : {"bind", "bind-old", "bind-owner", "ingest"}, kind : Kinds, session : Sessions]
        \cup [at : {"look"}, session : Sessions, cancelled : BOOLEAN]
        \cup [at : {"exit", "unlist"}, session : Sessions, cancelled : BOOLEAN, completed : BOOLEAN]
CallStates ==
    {Idle} \cup [at : {"signal", "paused", "status"}, do : {"pause", "continue"}, session : Sessions]
        \cup [at : {"mark", "term", "cancel-wait"}, do : {"cancel"}, session : Sessions]
        \cup [at : {"complete"}, do : {"complete"}, session : Sessions]

TypeOK ==
    /\ child \in [state : {"none", "running", "stopped", "zombie", "reaped"},
                  how : {"none", "success", "failure"}]
    /\ pipe \in Seq(Lines)
    /\ managed \in [session : Sessions, thread : Sessions, cancelled : BOOLEAN, paused : BOOLEAN]
    /\ lock \in Callers \cup {Reader, Nobody}
    /\ owned \subseteq Sessions
    /\ status \in [Sessions -> TerminalStates \cup {"ABSENT", "DISCOVERED", "RUNNING", "IDLE", "PAUSED"}]
    /\ reader \in ReaderStates
    /\ call \in [Callers -> CallStates]
    /\ terminated \in BOOLEAN
    /\ outcome \in {"none", "COMPLETED", "IDLE", "CANCELLED", "FAILED"}
    /\ loose \subseteq Sessions

\* A process that cancel's SIGTERM reached before it was waited for is recorded
\* as cancelled, however it ended: the reader looks at the flag after its wait,
\* under the lock that cancel holds from the flag to the signal.
CancelIsHonoured == outcome # "none" /\ terminated => outcome = "CANCELLED"

\* Whoever takes the lock of a live process finds it stopped exactly when the
\* flag says paused: pause, continue and cancel keep the two together, so a
\* cancel never leaves SIGTERM pending on a stopped process.
PauseFlagIsTrue == lock = Nobody /\ Alive => (managed.paused <=> child.state = "stopped")

\* Once the process is forgotten no row says it is still running or paused: the
\* placeholder's last status is CANCELLED, written by the binding, the bound row's is
\* that of the exit, whatever lines, bindings and calls came in between.  Left out, as
\* the code leaves them behind: the thread of a resumed run, whose lines the reader
\* ingests under the thread's row while the exit goes to the row of its own, until a
\* binding moves it there (process_manager.py:77-79, 188-190, 162); the row of a binding
\* that failed half way (191-221); and a row that pause or continue wrote after its last
\* word (237, 248: PausedIsHeld).
NoRowLeftRunning ==
    reader.at = "done" => \A s \in Sessions \ loose : status[s] \notin {"RUNNING", "PAUSED"}

\* A cancel that marked the process brings it down, though it ignores SIGTERM,
\* stops reading its signals or fills its pipe.
CancelEnds == managed.cancelled ~> Ended

\* The end of the process is recorded and the process forgotten, whatever calls
\* were under way on it or failed.
ExitIsRecorded == Ended ~> (outcome # "none" /\ owned = {})

\* PAUSED is a session whose process the dashboard stopped: with the process
\* gone and no call under way none is.
PausedIsHeld ==
    reader.at = "done" /\ (\A c \in Callers : call[c] = Idle) =>
        \A s \in Sessions : status[s] # "PAUSED"

=============================================================================
