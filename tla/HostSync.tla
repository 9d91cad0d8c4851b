------------------------------ MODULE HostSync ------------------------------
(***************************************************************************)
(* The control center's collector: how the lines of the rollouts on this     *)
(* machine and on the SSH hosts become events, sessions, health and alerts.  *)
(*                                                                         *)
(* The collector runs on one asyncio loop: what lies between two awaits is   *)
(* one step.  It awaits SSH commands, which return within their timeouts,    *)
(* and the end of the hosts' syncs.  A sync of a host runs for the polling   *)
(* loop or for an operator's request, under the host's lock.                 *)
(*                                                                         *)
(* A source (a host, or Local) has one rollout, which Codex appends to; a    *)
(* line is two bytes, the second its newline, and stands for the event of    *)
(* its position.  What the git probe finds, the texts and the counters of a  *)
(* session are left out: no property here tells them apart.                  *)
(***************************************************************************)
EXTENDS EventBus, FiniteSets, FiniteSetsExt

CONSTANTS
    Hosts,          \* the SSH hosts an operator may add
    Local,          \* this machine
    Contents,       \* what the rollouts may hold: functions from sources to lines
    MaxRead,        \* what one read takes at most (8,000,000 bytes)
    MaxMoves        \* bounds what operators, the network and Codex do

Sources == Hosts \cup {Local}
Tasks == {"loop", "api"}            \* for whom a sync runs

\* What a line is to project_event: an event that asks for approval, one that ends
\* the session's wait, or one that does neither; not an event at all; one whose
\* projection raises after its insertion, or whose insertion raises.
Kinds == {"ask", "done", "note", "skip", "raise", "poison"}

ASSUME ContentsAssumption ==
    /\ MaxRead \in Nat \ {0} /\ MaxMoves \in Nat
    /\ Local \notin Hosts /\ Writers = Sources
    /\ \A c \in Contents : \A s \in Sources : c[s] \in Seq(Kinds)

VARIABLES
    content,    \* the lines the rollouts hold when they are complete
    size,       \* the bytes of each rollout that have been written
    cursor,     \* table cursors: offset, and the length of the partial line
    stored,     \* table events: the lines of each source
    projected,  \* the lines the session's row reflects
    host,       \* table hosts
    alert,      \* table alerts, by fingerprint
    up,         \* the hosts that answer
    sync,       \* where each task's sync of each host is
    loop,       \* the polling loop: waiting for the next poll, or for the syncs
    moves,      \* how many moves are left
    crashes     \* history: how often the server has died

syncVars == <<content, cursor, stored, projected, host, alert, sync, loop, crashes>>
world == <<size, up, moves>>
hostVars == <<content, size, cursor, stored, projected, host, alert, up, sync, loop,
              moves, crashes>>

Lines(s) == 1..Len(content[s])
Idle == [at |-> "idle"]
NoHost == [row |-> "absent", enabled |-> FALSE, status |-> "unknown", pid |-> 0]
NewHost == [NoHost EXCEPT !.row = "present", !.enabled = TRUE]
Present(h) == host[h].row = "present"
Fingerprints == {"offline", "ask"} \X Sources

Move == moves > 0 /\ moves' = moves - 1

----------------------------------------------------------------------------
(* Consuming what was read.                                                *)

\* The lines between two offsets.
Whole(s, from, to) == {i \in Lines(s) : 2 * (i - 1) >= from /\ 2 * i <= to}

\* The length of what follows the last newline between two offsets.
TailLength(from, to) == to - Max({from} \cup {e \in from + 1 .. to : e % 2 = 0})

\* Mutant of Raises: an event is projected again when its line is read again.
RaisesAgain(s, i) == content[s][i] \in {"poison", "raise"}

Raises(s, i) ==
    \/ content[s][i] = "poison"
    \/ content[s][i] = "raise" /\ i \notin stored[s]

\* Mutant of NextCursor: the cursor is set whether or not a line raises.
NextCursorFinally(s, from, to, raised) == [offset |-> to, partial |-> TailLength(from, to)]

\* The cursor after a read: it stays where it was if a line raises.
NextCursor(s, from, to, raised) ==
    IF raised THEN cursor[s] ELSE [offset |-> to, partial |-> TailLength(from, to)]

\* _consume, with project_event on each line: one stored before is passed, one
\* that raises ends it.
Taken(s, at, amount) ==
    LET from == at.offset - at.partial
        to == at.offset + amount
        lines == Whole(s, from, to)
        bad == {i \in lines : Raises(s, i)}
        good == {i \in lines : \A j \in bad : i < j}
    IN  [raised |-> bad # {},
         new |-> {i \in good \ stored[s] : content[s][i] # "skip"},
         stuck |-> {i \in bad : content[s][i] = "raise" /\ \A j \in bad : i <= j},
         cursor |-> NextCursor(s, from, to, bad # {})]

Store(s, taken) ==
    /\ stored' = [stored EXCEPT ![s] = @ \cup taken.new \cup taken.stuck]
    /\ projected' = [projected EXCEPT ![s] = @ \cup taken.new]
    /\ cursor' = [cursor EXCEPT ![s] = taken.cursor]

\* Mutant of Torn: the events of a read are inserted first and projected after.
TornBatch(s, taken) ==
    \E stop \in Lines(s) \cup {0} :
        /\ stored' = [stored EXCEPT ![s] = @ \cup {i \in taken.new \cup taken.stuck : i <= stop}]
        /\ UNCHANGED projected

\* The transactions of Store that are committed when the server dies: a line is
\* inserted in one and projected in the next.
Torn(s, taken) ==
    \E stop \in Lines(s) \cup {0}, whole \in BOOLEAN :
        /\ stored' = [stored EXCEPT ![s] = @ \cup {i \in taken.new \cup taken.stuck : i <= stop}]
        /\ projected' = [projected EXCEPT
                             ![s] = @ \cup {i \in taken.new : i < stop \/ (whole /\ i = stop)}]

\* A read takes up where the cursor is, unless the rollout is shorter now.
Resume(s, n) == IF n < cursor[s].offset THEN [offset |-> 0, partial |-> 0] ELSE cursor[s]
Amount(s, n) == Min({n - Resume(s, n).offset, MaxRead})

----------------------------------------------------------------------------
(* Attention.                                                              *)

\* Of the events projected that say anything of it, the last is a request for
\* approval: any other event leaves the interaction as it was.
Waiting(s) ==
    LET telling == {i \in projected[s] : content[s][i] \in {"ask", "done"}}
    IN  telling # {} /\ content[s][Max(telling)] = "ask"
Causes == {"ask"} \X {s \in Sources : Waiting(s)}

\* Mutant of Raised: an alert the operator has closed stays closed.
RaisedOnce(fingerprints) ==
    [f \in Fingerprints |-> IF f \in fingerprints /\ alert[f] = "none" THEN "open" ELSE alert[f]]

\* raise_alert: an alert that has been closed is open again.
Raised(fingerprints) ==
    [f \in Fingerprints |-> IF f \in fingerprints THEN "open" ELSE alert[f]]

\* evaluate_attention raises an alert for every cause it finds, and closes none.
Evaluate == alert' = Raised(Causes)

\* An operator's request evaluates attention after its sync.
After(t) == IF t = "api" THEN Causes' ELSE {}

----------------------------------------------------------------------------
(* Syncs.                                                                  *)

\* Mutant of Locked: syncs of a host are not exclusive.
NeverLocked(h) == FALSE

Locked(h) == \E t \in Tasks : sync[t][h] # Idle

SyncAt(t, h, where) == sync' = [sync EXCEPT ![t][h] = where]

\* Mutant of Health: going online forgets the app server.
HealthForgetting(h, status, pid) ==
    IF Present(h) THEN [host EXCEPT ![h].status = status, ![h].pid = pid] ELSE host

\* Mutant of Health: only a host of unknown health goes online.
HealthKept(h, status, pid) ==
    IF Present(h)
    THEN [host EXCEPT ![h].status = IF status = "online" /\ @ = "offline" THEN @ ELSE status,
                      ![h].pid = IF pid = 0 THEN @ ELSE pid]
    ELSE host

\* set_host_health: online keeps the app server's pid unless it is told one.
Health(h, status, pid) ==
    IF Present(h)
    THEN [host EXCEPT ![h].status = status, ![h].pid = IF pid = 0 THEN @ ELSE pid]
    ELSE host

\* An exception of a sync: offline, an alert, and a message.
Offline(t, h, news) ==
    /\ host' = Health(h, "offline", 0)
    /\ alert' = Raised({<<"offline", h>>} \cup After(t))
    /\ SyncAt(t, h, Idle)
    /\ IF news \/ host' # host \/ alert' # alert THEN ChangeAndAnnounce(h) ELSE Announce(h)

\* Every file the listing names has been read.
Reached(t, h) ==
    /\ host' = Health(h, "online", 0)
    /\ SyncAt(t, h, [at |-> "probing"])

\* The listing is back.  If the rollout has grown a read of it is under way.
Listed(t, h) ==
    /\ sync[t][h].at = "listing"
    /\ h \in up
    /\ IF Amount(h, size[h]) > 0
       THEN /\ SyncAt(t, h, [at |-> "reading", from |-> Resume(h, size[h]),
                             amount |-> Amount(h, size[h])])
            /\ UNCHANGED host
       ELSE Reached(t, h)
    /\ UNCHANGED <<busVars, world, content, cursor, stored, projected, alert, loop, crashes>>

\* The read is back: its lines are consumed, and the git probe is under way.
Fetched(t, h) ==
    /\ sync[t][h].at = "reading"
    /\ h \in up
    /\ UNCHANGED <<world, content, loop, crashes>>
    /\ \E taken \in {Taken(h, sync[t][h].from, sync[t][h].amount)} :
           /\ Store(h, taken)
           /\ IF taken.raised
              THEN Offline(t, h, taken.new \cup taken.stuck # {})
              ELSE /\ Reached(t, h)
                   /\ IF taken.new # {} THEN Change(h) ELSE UNCHANGED busVars
                   /\ UNCHANGED alert

\* Mutant of Probed: a sync publishes nothing.
ProbedSilently(t, h) ==
    /\ sync[t][h].at = "probing"
    /\ UNCHANGED <<busVars, world, content, cursor, stored, projected, host, loop, crashes>>
    /\ SyncAt(t, h, Idle)
    /\ alert' = Raised(After(t))

\* The probe is over, well or not: the sync ends, with a message if it has
\* stored anything.
Probed(t, h) ==
    /\ sync[t][h].at = "probing"
    /\ UNCHANGED <<world, content, cursor, stored, projected, host, loop, crashes>>
    /\ SyncAt(t, h, Idle)
    /\ alert' = Raised(After(t))
    /\ IF h \in owed THEN Announce(h) ELSE UNCHANGED busVars

\* A command of a sync fails, or runs into its timeout.
SyncFails(t, h) ==
    /\ sync[t][h].at \in {"listing", "reading"}
    /\ h \notin up
    /\ UNCHANGED <<world, content, cursor, stored, projected, loop, crashes>>
    /\ Offline(t, h, FALSE)

SyncStep(t, h) == Listed(t, h) \/ Fetched(t, h) \/ Probed(t, h) \/ SyncFails(t, h)

----------------------------------------------------------------------------
(* The polling loop.                                                       *)

\* The hosts whose lock is free and that are enabled are listed.
StartSyncs ==
    sync' = [sync EXCEPT !["loop"] =
                [h \in Hosts |-> IF Present(h) /\ host[h].enabled /\ ~Locked(h)
                                 THEN [at |-> "listing"] ELSE @[h]]]

\* A poll reads this machine's rollout and, unless that raises, starts the
\* hosts' syncs.
Poll ==
    /\ loop = "waiting"
    /\ UNCHANGED <<world, content, host, alert, crashes>>
    /\ \E taken \in {Taken(Local, Resume(Local, size[Local]), Amount(Local, size[Local]))} :
           /\ IF taken.raised THEN UNCHANGED <<sync, loop>> ELSE loop' = "gathering" /\ StartSyncs
           /\ Store(Local, taken)
           /\ IF taken.new \cup taken.stuck # {} THEN ChangeAndAnnounce(Local)
              ELSE IF taken.raised THEN Announce(Local) ELSE UNCHANGED busVars

\* All its syncs are over.
EndPoll ==
    /\ loop = "gathering"
    /\ \A h \in Hosts : sync["loop"][h] = Idle
    /\ Evaluate
    /\ loop' = "waiting"
    /\ UNCHANGED <<busVars, world, content, cursor, stored, projected, host, sync, crashes>>

\* The server dies and is started again.  The step it is in may have committed
\* some of its transactions.
Crash ==
    /\ Move
    /\ BusCrash
    /\ crashes' = crashes + 1
    /\ sync' = [t \in Tasks |-> [h \in Hosts |-> Idle]]
    /\ loop' = "waiting"
    /\ \/ UNCHANGED <<stored, projected>>
       \/ /\ loop = "waiting"
          /\ Torn(Local, Taken(Local, Resume(Local, size[Local]), Amount(Local, size[Local])))
       \/ \E t \in Tasks, h \in Hosts :
             /\ sync[t][h].at = "reading"
             /\ Torn(h, Taken(h, sync[t][h].from, sync[t][h].amount))
    /\ UNCHANGED <<content, size, cursor, host, alert, up>>

\* Codex writes on.
Grow(s) ==
    /\ Move
    /\ size[s] < 2 * Len(content[s])
    /\ size' = [size EXCEPT ![s] = @ + 1]
    /\ UNCHANGED <<busVars, syncVars, up>>

\* A host becomes unreachable, or reachable again.
Network(h) ==
    /\ Move
    /\ up' = IF h \in up THEN up \ {h} ELSE up \cup {h}
    /\ UNCHANGED <<busVars, syncVars, size>>

=============================================================================
