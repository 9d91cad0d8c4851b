--------------------------- MODULE ControlCenter ---------------------------
(***************************************************************************)
(* The control center as a whole: the collector's loop and the hosts' syncs, *)
(* the operators' requests, and the pages that follow the event bus, with    *)
(* the properties that need more than one of them.                          *)
(***************************************************************************)
EXTENDS AppServer

vars == <<busVars, hostVars, serverVars, requestVars>>

----------------------------------------------------------------------------
\* The server starts on a database that knows some of the hosts and has read
\* nothing yet; the rollouts have been written up to anywhere.
Init ==
    /\ BusInit
    /\ content \in Contents
    /\ size \in {f \in [Sources -> UNION {0..2 * Len(content[s]) : s \in Sources}] :
                    \A s \in Sources : f[s] <= 2 * Len(content[s])}
    /\ cursor = [s \in Sources |-> [offset |-> 0, partial |-> 0]]
    /\ stored = [s \in Sources |-> {}] /\ projected = [s \in Sources |-> {}]
    /\ host \in [Hosts -> {NoHost, NewHost}]
    /\ alert = [f \in Fingerprints |-> "none"]
    /\ up \in SUBSET Hosts
    /\ sync = [t \in Tasks |-> [h \in Hosts |-> Idle]] /\ loop = "waiting"
    /\ moves = MaxMoves /\ crashes = 0
    /\ call = [o \in Operators |-> Unused] /\ disturbed = {}
    /\ pidfile = [h \in Hosts |-> 0] /\ alive = [h \in Hosts |-> {}] /\ told = [h \in Hosts |-> {}]
    /\ launched = [h \in Hosts |-> 0]

CollectorStep(t, h) == SyncStep(t, h) /\ UNCHANGED <<serverVars, requestVars>>
LoopStep == (Poll \/ EndPoll) /\ UNCHANGED <<serverVars, requestVars>>
World ==
    /\ \/ \E s \in Sources : Grow(s)
       \/ \E h \in Hosts : Network(h)
    /\ UNCHANGED <<serverVars, requestVars>>

\* The server dies, and with it the requests; the commands they have sent may
\* or may not have been carried out.
ServerCrash ==
    /\ Crash
    /\ disturbed' = disturbed \cup {h \in Hosts : CallOn(h)}
    /\ call' = [o \in Operators |-> Unused]
    /\ UNCHANGED serverVars

\* What happens to a page's stream and its answers does not touch the rest.
others == <<quiet, host, alert, serverVars, requestVars>>
Deliver(c) == Send(c) /\ UNCHANGED <<moves, others>>
Arrive(c) == (ArriveFresh(c) \/ ArriveOld(c)) /\ UNCHANGED <<moves, others>>
Fail(c) == FetchFails(c) /\ UNCHANGED <<moves, others>>
Stream(c) ==
    /\ (Connect(c) /\ UNCHANGED moves) \/ (Disconnect(c) /\ Move)
    /\ UNCHANGED others

Request ==
    \/ \E h \in Hosts : AddHost(h) \/ UpdateHost(h) \/ SyncHost(h) \/ ServerEnds(h)
    \/ \E o \in Operators, h \in Hosts, at \in {"start", "stop", "delete", "test"} : Call(o, h, at)
    \/ \E f \in Fingerprints : Resolve(f)
    \/ PutSettings

Next ==
    \/ \E t \in Tasks, h \in Hosts : CollectorStep(t, h)
    \/ LoopStep
    \/ World
    \/ ServerCrash
    \/ Request
    \/ \E o \in Operators : CallStep(o)
    \/ \E c \in Clients : Stream(c) \/ Deliver(c) \/ Fetch(c) \/ Arrive(c) \/ Fail(c)

\* The loop polls again and again; an SSH command of a sync returns, fails or
\* runs into its timeout; a page's messages are delivered, and its requests and
\* answers arrive or fail.
\* Nobody has to connect, and no operator has to do anything.
Fairness ==
    /\ \A h \in Hosts : WF_hostVars(\E t \in Tasks : SyncStep(t, h))
    /\ WF_hostVars(Poll \/ EndPoll)
    /\ \A c \in Clients : /\ WF_busVars(Send(c)) /\ WF_busVars(Answer(c))
                          /\ WF_busVars(ArriveFresh(c) \/ ArriveOld(c))

Spec == Init /\ [][Next]_vars /\ Fairness

----------------------------------------------------------------------------
SyncStates ==
    {Idle, [at |-> "listing"], [at |-> "probing"]}
        \cup [at : {"reading"}, from : [offset : Nat, partial : Nat], amount : Nat]

\* The types of the variables, with the bus's queues within their capacity
\* (db.py:30-114, api.py:33-34).
TypeOK ==
    /\ BusTypeOK
    /\ content \in Contents /\ size \in [Sources -> Nat]
    /\ cursor \in [Sources -> [offset : Nat, partial : Nat]]
    /\ \A s \in Sources : stored[s] \subseteq Lines(s) /\ projected[s] \subseteq stored[s]
    /\ host \in [Hosts -> [row : {"absent", "present", "deleted"}, enabled : BOOLEAN,
                           status : {"unknown", "online", "offline"}, pid : Nat]]
    /\ alert \in [Fingerprints -> {"none", "open", "closed"}]
    /\ up \subseteq Hosts /\ loop \in {"waiting", "gathering"}
    /\ \A t \in Tasks : sync[t] \in [Hosts -> SyncStates]
    /\ moves \in 0..MaxMoves /\ crashes \in 0..MaxMoves
    /\ pidfile \in [Hosts -> Nat] /\ launched \in [Hosts -> Nat]
    /\ \A h \in Hosts : told[h] \subseteq alive[h] /\ alive[h] \subseteq 1..launched[h]

\* No line is passed over: whatever the cursor of a source has left behind, but
\* for the partial line it keeps, is in the database, although reads are cut
\* anywhere, fail, raise on a line and die between the inserts
\* (collector.py:190-208, 246-263).
NoLinePassedOver ==
    \A s \in Sources :
        \A i \in Whole(s, 0, cursor[s].offset - cursor[s].partial) :
            content[s][i] = "skip" \/ i \in stored[s]

\* An event that is stored is in its session's row, unless its projection
\* raised; each crash may cost one (collector.py:90-91, 124).
StoredIsProjected ==
    LET unprojected(s) == {i \in stored[s] \ projected[s] : content[s][i] # "raise"}
    IN  Cardinality(UNION {{s} \X unprojected(s) : s \in Sources}) <= crashes

\* A cursor never goes back: no sync overwrites what another has read further
\* (collector.py:232-235, 207).
CursorAdvances ==
    [][\A s \in Sources : cursor[s].offset <= cursor'[s].offset]_vars

\* An app server that runs on a host and has not been sent a stop is the one the
\* host's row names, so that stop and delete reach it: the host's health may
\* change in between, the dashboard may be asked twice to start it, an earlier one
\* may be slow to end.  Except after requests for the host that overlap, fail, or
\* die with the dashboard (collector.py:313-342, db.py:207-216).
ServersAreAccountedFor ==
    \A h \in Hosts :
        CallOn(h) \/ h \in disturbed \/ Kept(h) \subseteq {host[h].pid}

----------------------------------------------------------------------------
(* Liveness.                                                               *)

\* A whole line that cannot be inserted stops its source for ever.
Poisoned(s) == \E i \in Whole(s, 0, size[s]) : content[s][i] = "poison"

\* The collector reaches a source: the loop gets past this machine's rollouts,
\* and a host is enabled and answers.
Collected(s) ==
    /\ ~Poisoned(Local)
    /\ s \in Hosts => Present(s) /\ host[s].enabled /\ s \in up

\* What a source's rollout holds before a line that cannot be inserted.
Arrived(s) ==
    \A i \in Whole(s, 0, size[s]) :
        i \in stored[s] \/ \E j \in 1..i : content[s][j] = "poison" \/ (j = i /\ content[s][i] = "skip")

\* The lines of a source that is collected arrive, whatever becomes of the other
\* hosts and however often the server, the network and the operator have come in
\* between (collector.py:150-161, 231-273).
LinesArrive == \A s \in Sources : <>[]Collected(s) => <>[]Arrived(s)

\* A host's health follows the host: one that answers for good is shown online,
\* one that is gone for good offline (collector.py:264, 269-270).
HealthFollowsHost ==
    \A h \in Hosts :
        /\ <>[](Collected(h) /\ ~Poisoned(h)) => <>[](host[h].status = "online")
        /\ <>[](Present(h) /\ host[h].enabled /\ h \notin up /\ ~Poisoned(Local))
               => <>[](host[h].status = "offline")

\* A page whose stream stays open shows the data as it is, again and again: each
\* change reaches it, after however many overflows, unless its last fetch failed.
\* A page that opened its stream stale, that an overtaken answer set back or
\* whose last fetch failed stays behind until the data next changes
\* (api.py:23-45, app.js:10, 26).
PageCatchesUp ==
    \A c \in Clients :
        <>[](c \in streams) => []<>(c \notin stale \/ c \in excused)

\* A session that waits for its operator has an open alert in the end, also when
\* an earlier one was closed (collector.py:344-351, db.py:299-306).
DemandIsRaised ==
    \A s \in Sources :
        <>[](Waiting(s) /\ ~Poisoned(Local)) => <>[](alert[<<"ask", s>>] = "open")

=============================================================================
