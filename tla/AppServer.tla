----------------------------- MODULE AppServer -----------------------------
(***************************************************************************)
(* The operators' requests to the control center (api.py), and the app       *)
(* server it may start on a host: a process, and a file with its pid, that    *)
(* shell commands sent over SSH test, write and remove.  A request that runs  *)
(* a command takes several steps; nothing locks a host against a second one.  *)
(*                                                                         *)
(* A stop sends SIGTERM and removes the file.  It does not wait for the app   *)
(* server to end, and does not insist: one that is slow, or that ignores the *)
(* signal, runs on, and neither the file nor the host's row names it.         *)
(*                                                                         *)
(* A pid names one process for ever: a pid that is given to a process of      *)
(* somebody else is not modelled.  A fetch of the alerts evaluates attention *)
(* in a worker thread (api.py:177-180); here that is one step.              *)
(***************************************************************************)
EXTENDS HostSync

CONSTANTS Operators     \* requests that may be under way at once

VARIABLES
    call,       \* each request under way: the command it waits for, and its host
    pidfile,    \* the pid in each host's app-server.pid; 0: no file
    alive,      \* the app servers running on each host
    told,       \* history: those of them that have been sent a stop
    launched,   \* how many have been started on each host
    disturbed   \* history: hosts where requests overlapped or one has failed

serverVars == <<pidfile, alive, told, launched>>
requestVars == <<call, disturbed>>
quiet == <<content, size, cursor, stored, projected, up, sync, loop, crashes>>

Unused == [at |-> "idle"]
CallOn(h) == \E o \in Operators : call[o] # Unused /\ call[o].host = h
CallAt(o, where) == call' = [call EXCEPT ![o] = where]

----------------------------------------------------------------------------
(* Requests that run no command.                                           *)

Save == ChangeAndAnnounce(Local)

AddHost(h) ==
    /\ Move
    /\ host[h].row = "absent"
    /\ host' = [host EXCEPT ![h] = NewHost]
    /\ Save
    /\ UNCHANGED <<quiet, alert, serverVars, requestVars>>

\* An update of a host turns its collection on or off.
UpdateHost(h) ==
    /\ Move
    /\ Present(h)
    /\ host' = [host EXCEPT ![h].enabled = ~@]
    /\ Save
    /\ UNCHANGED <<quiet, alert, serverVars, requestVars>>

\* Settings are saved and announced; they are not among what a page fetches then.
PutSettings ==
    /\ Move
    /\ Announce(Local)
    /\ UNCHANGED <<quiet, host, alert, serverVars, requestVars>>

Resolve(f) ==
    /\ Move
    /\ alert[f] # "none"
    /\ alert' = [alert EXCEPT ![f] = "closed"]
    /\ Save
    /\ UNCHANGED <<quiet, host, serverVars, requestVars>>

\* A host whose lock is taken, or that is disabled, is not synced again.
SyncHost(h) ==
    /\ Move
    /\ Present(h)
    /\ IF host[h].enabled /\ ~Locked(h)
       THEN SyncAt("api", h, [at |-> "listing"]) /\ UNCHANGED alert
       ELSE sync["api"][h] = Idle /\ Evaluate /\ UNCHANGED sync
    /\ UNCHANGED <<busVars, content, size, cursor, stored, projected, host, up, loop,
                   crashes, serverVars, requestVars>>

\* A page's fetch of the alerts evaluates attention, too.
Fetch(c) ==
    /\ Answer(c)
    /\ Evaluate
    /\ UNCHANGED <<quiet, host, moves, serverVars, requestVars>>

----------------------------------------------------------------------------
(* Requests that run a command on the host.                                *)

DropHost(h) == host' = [host EXCEPT ![h] = [NoHost EXCEPT !.row = "deleted"]]

\* A host whose app server is recorded is deleted when that has been stopped.
Call(o, h, at) ==
    /\ Move
    /\ call[o] = Unused
    /\ Present(h)
    /\ disturbed' = IF CallOn(h) THEN disturbed \cup {h} ELSE disturbed
    /\ IF at = "delete" /\ host[h].pid = 0
       THEN DropHost(h) /\ Save /\ UNCHANGED call
       ELSE CallAt(o, [at |-> at, host |-> h]) /\ UNCHANGED <<host, busVars>>
    /\ UNCHANGED <<quiet, alert, serverVars>>

Reply(o, pid) == CallAt(o, [at |-> "reply", to |-> call[o].at, host |-> call[o].host, pid |-> pid])

\* The start command tests for a process that runs under the file's pid,
StartTested(o, h) ==
    IF pidfile[h] \in alive[h] THEN Reply(o, pidfile[h])
    ELSE CallAt(o, [at |-> "launch", host |-> h])

\* The command reaches the host: the start command tests first; the stop
\* command, on its own or before a deletion, signals and removes the file.
Command(o) ==
    /\ call[o].at \in {"start", "stop", "delete", "test"}
    /\ LET h == call[o].host
       IN  /\ h \in up
           /\ IF call[o].at = "start" THEN StartTested(o, h) ELSE Reply(o, 0)
           /\ IF call[o].at \in {"stop", "delete"}
              THEN /\ told' = [told EXCEPT ![h] = @ \cup ({pidfile[h]} \cap alive[h])]
                   /\ pidfile' = [pidfile EXCEPT ![h] = 0]
              ELSE UNCHANGED <<told, pidfile>>
    /\ UNCHANGED <<busVars, quiet, moves, host, alert, alive, launched, disturbed>>

\* The start command starts an app server and writes its pid.
Launch(o) ==
    /\ call[o].at = "launch"
    /\ LET h == call[o].host
           pid == launched[h] + 1
       IN  /\ launched' = [launched EXCEPT ![h] = pid]
           /\ alive' = [alive EXCEPT ![h] = @ \cup {pid}]
           /\ pidfile' = [pidfile EXCEPT ![h] = pid]
           /\ CallAt(o, [at |-> "reply", to |-> "start", host |-> h, pid |-> pid])
    /\ UNCHANGED <<busVars, quiet, moves, host, alert, told, disturbed>>

\* The command has returned; what it did is recorded.  A host deleted
\* meanwhile is not recorded again.
Return(o) ==
    /\ call[o].at = "reply"
    /\ LET h == call[o].host
       IN  \/ /\ call[o].to \in {"start", "test"}
              /\ host' = Health(h, "online", call[o].pid)
              /\ UNCHANGED busVars
           \/ /\ call[o].to = "stop"
              /\ host' = IF Present(h) THEN [host EXCEPT ![h].pid = 0] ELSE host
              /\ UNCHANGED busVars
           \/ /\ call[o].to = "delete"
              /\ IF Present(h) THEN DropHost(h) /\ Save ELSE UNCHANGED <<host, busVars>>
    /\ CallAt(o, Unused)
    /\ UNCHANGED <<quiet, moves, alert, serverVars, disturbed>>

\* The command fails, or its answer does not come in time: it may or may not
\* have been carried out.  A deletion goes on.
CallFails(o) ==
    /\ call[o] # Unused
    /\ LET h == call[o].host
       IN  /\ h \notin up
           /\ disturbed' = disturbed \cup {h}
           /\ IF "delete" \in {call[o].at} \cup (IF call[o].at = "reply" THEN {call[o].to} ELSE {})
                 /\ Present(h)
              THEN DropHost(h) /\ Save
              ELSE UNCHANGED <<host, busVars>>
    /\ CallAt(o, Unused)
    /\ UNCHANGED <<quiet, moves, alert, serverVars>>

CallStep(o) == Command(o) \/ Launch(o) \/ Return(o) \/ CallFails(o)

\* An app server ends, by itself or because it has been sent a stop, some time
\* later; its pid file, if it has one, stays.
ServerEnds(h) ==
    /\ \E pid \in alive[h] :
           /\ Move \/ (pid \in told[h] /\ UNCHANGED moves)
           /\ alive' = [alive EXCEPT ![h] = @ \ {pid}]
           /\ told' = [told EXCEPT ![h] = @ \ {pid}]
    /\ UNCHANGED <<busVars, quiet, host, alert, pidfile, launched, requestVars>>

\* The app servers that run on a host, but for those that have been sent a stop.
Kept(h) == alive[h] \ told[h]

=============================================================================
